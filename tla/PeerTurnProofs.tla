--------------------------- MODULE PeerTurnProofs ---------------------------
(* Proofs about PeerTurn for every choice of its constants. *)
EXTENDS PeerTurnInvariant, SequenceTheorems, TLAPS

(* The two roles are each other's opponent. *)
LEMMA Opponents ==
  ASSUME NEW r \in Role
  PROVE  /\ Opponent(r) \in Role
         /\ Opponent(r) # r
         /\ Opponent(Opponent(r)) = r
         /\ \A s \in Role : s = r \/ s = Opponent(r)
BY DEF Role, Opponent

LEMMA CallTyped ==
  ASSUME TypeOK, NEW r \in Role, NEW m \in Message, StartCall(r, m)
  PROVE  /\ call' \in [Role -> Call \cup {None}]
         /\ reply' \in [Role -> {None, "ok", "rejected"}]
         /\ requests' \subseteq Request
<1>1. 1 \in 1..MaxAttempts
  BY ConstantsAssumption
<1>2. [msg |-> m, attempt |-> 1, status |-> "open"] \in Call
  BY <1>1 DEF Call
<1>3. [sender |-> r, msg |-> m, attempt |-> 1] \in Request
  BY <1>1 DEF Request
<1> QED
  BY <1>2, <1>3 DEF StartCall, Attempt, TypeOK

LEMMA AnswerTyped ==
  ASSUME TypeOK, NEW req \in requests, NEW verdict \in {"ok", "rejected"},
         Answer(req, verdict)
  PROVE  reply' \in [Role -> {None, "ok", "rejected"}]
BY DEF Answer, TypeOK

LEMMA CorruptedTyped ==
  ASSUME NEW records \in Seq(SealedRecord), NEW mode \in TamperModes
  PROVE  Corrupted(records, mode) \in Seq(SealedRecord)
<1>1. \A rec \in SealedRecord : CorruptedRecord(rec, mode) \in SealedRecord
  BY ConstantsAssumption DEF SealedRecord, CorruptedRecord
<1>2. CASE records = <<>> \/ mode = "none"
  BY <1>2 DEF Corrupted
<1>3. CASE records # <<>> /\ mode # "none"
  <2>1. 1 \in 1..Len(records)
    BY <1>3, EmptySeq, LenProperties
  <2>2. CorruptedRecord(records[1], mode) \in SealedRecord
    BY <1>1, <2>1, ElementOfSeq
  <2>3. [records EXCEPT ![1] = CorruptedRecord(records[1], mode)]
           \in Seq(SealedRecord)
    BY <2>1, <2>2, ExceptSeq
  <2> QED
    BY <1>3, <2>1, <2>3 DEF Corrupted
<1> QED
  BY <1>2, <1>3

LEMMA RecordTyped ==
  ASSUME TypeOK, NEW r \in Role, NEW a \in Action
  PROVE  [turn |-> Len(completed[r]) + 1, role |-> r, action |-> a,
          nonce |-> "issued"] \in SealedRecord
BY DEF TypeOK, SealedRecord

LEMMA BeginTurnTyped ==
  ASSUME TypeOK, NEW r \in Role, NEW t \in Nat
  PROVE  BeginTurn(r, t) \in TurnCrypto
BY DEF TypeOK, BeginTurn, OpenTurn, TurnCrypto

LEMMA DrainedTyped ==
  ASSUME TypeOK, NEW r \in Role, NEW t \in Nat
  PROVE  Drained(r, t) \in TurnCrypto
<1> DEFINE commits == {m \in Held(r, t) : m.type = "commit"}
<1>1. \A m \in commits : m.commitment \in Digest
  BY DEF TypeOK, Held, TurnMessage, CommitMessage, RevealMessage
<1>2. CASE commits = {}
  BY <1>2, BeginTurnTyped DEF Drained
<1>3. CASE commits # {}
  <2>1. (CHOOSE m \in commits : TRUE) \in commits
    BY <1>3
  <2>2. Drained(r, t) = [BeginTurn(r, t) EXCEPT !.opponentCommitment =
                           (CHOOSE m \in commits : TRUE).commitment]
    BY <1>3 DEF Drained
  <2> HIDE DEF commits
  <2> QED
    BY <1>1, <2>1, <2>2, BeginTurnTyped DEF TurnCrypto
<1> QED
  BY <1>2, <1>3

-----------------------------------------------------------------------------
(* Every step keeps every variable in its type. *)

LEMMA QuietTyped ==
  ASSUME TypeOK, NEW r \in Role,
         \/ ConditionHolds(r) \/ ConditionExpires(r) \/ ReceiveReply(r)
         \/ AttemptFails(r) \/ EndMatch(r) \/ Shutdown(r) \/ Crash(r)
  PROVE  TypeOK'
<1>1. CASE ConditionHolds(r) \/ ConditionExpires(r)
  BY <1>1 DEF TypeOK, ConditionHolds, ConditionExpires, coordinatorVars, inboxVars
<1>2. CASE ReceiveReply(r)
  <2>1. call[r] \in Call /\ reply[r] \in {"ok", "rejected"}
    BY <1>2 DEF ReceiveReply, IsOpen, TypeOK
  <2>2. \A c \in Call, verdict \in {"ok", "rejected"} :
          [c EXCEPT !.status = verdict] \in Call
    BY DEF Call
  <2>3. [call[r] EXCEPT !.status = reply[r]] \in Call
    BY <2>1, <2>2
  <2> QED
    BY <1>2, <2>3 DEF TypeOK, ReceiveReply, coordinatorVars, inboxVars
<1>3. CASE AttemptFails(r)
  <2>1. call[r] \in Call
    BY <1>3 DEF AttemptFails, IsOpen, TypeOK
  <2>2. CASE ~IsLastAttempt(r)
    <3>1. call[r].attempt + 1 \in 1..MaxAttempts
      BY <2>1, <2>2, ConstantsAssumption DEF Call, IsLastAttempt
    <3>2. [call[r] EXCEPT !.attempt = call[r].attempt + 1] \in Call
      BY <2>1, <3>1 DEF Call
    <3>3. [sender |-> r, msg |-> call[r].msg, attempt |-> call[r].attempt + 1]
             \in Request
      BY <2>1, <3>1 DEF Call, Request
    <3>4. /\ call' = [call EXCEPT ![r] = [call[r] EXCEPT !.attempt = call[r].attempt + 1]]
          /\ reply' = [reply EXCEPT ![r] = None]
          /\ Attempt(r, call[r].msg, call[r].attempt + 1)
          /\ UNCHANGED <<pc, current, completed, sealed, trail, pending, registry,
                         waited, audited, serving>>
      BY <1>3, <2>2 DEF AttemptFails, coordinatorVars, inboxVars
    <3>5. requests' \subseteq Request
      BY <3>3, <3>4 DEF Attempt, TypeOK
    <3> QED
      BY <3>2, <3>4, <3>5 DEF TypeOK
  <2>3. CASE IsLastAttempt(r)
    <3>1. [call[r] EXCEPT !.status = "unacknowledged"] \in Call
      BY <2>1 DEF Call
    <3> QED
      BY <1>3, <2>3, <3>1 DEF TypeOK, AttemptFails, coordinatorVars, inboxVars
  <2> QED
    BY <2>2, <2>3
<1>4. CASE EndMatch(r)
  BY <1>4 DEF TypeOK, EndMatch, LeaveWait, coordinatorVars, inboxVars, PC, Exited
<1>5. CASE Shutdown(r)
  BY <1>5 DEF TypeOK, Shutdown, StopServing, coordinatorVars, callVars
<1>6. CASE Crash(r)
  BY <1>6 DEF TypeOK, Crash, StopServing, coordinatorVars, inboxVars, callVars,
              PC, Exited
<1> QED
  BY <1>1, <1>2, <1>3, <1>4, <1>5, <1>6

LEMMA HandleTyped ==
  ASSUME TypeOK, NEW r \in Role, NEW req \in requests, Handle(r, req)
  PROVE  TypeOK'
<1>1. req \in Request /\ req.msg \in Message
  BY DEF TypeOK, Request
<1>2. reply' \in [Role -> {None, "ok", "rejected"}]
  BY AnswerTyped DEF Handle, SuppressDuplicate, BufferIfEarly, OnCommit, OnReveal,
                     OnFinalReveal, Reject
<1>3. CASE SuppressDuplicate(r, req) \/ Reject(r, req)
  BY <1>2, <1>3 DEF TypeOK, SuppressDuplicate, Reject, Arrives, coordinatorVars,
                    inboxVars
<1>4. CASE BufferIfEarly(r, req)
  <2>1. req.msg \in TurnMessage
    BY <1>1, <1>4 DEF BufferIfEarly, Message, FinalRevealMessage
  <2> QED
    BY <1>1, <1>2, <1>4, <2>1
    DEF TypeOK, BufferIfEarly, Arrives, Register, coordinatorVars
<1>5. CASE OnCommit(r, req)
  <2>1. req.msg \in CommitMessage
    BY <1>1, <1>5 DEF OnCommit, Message, TurnMessage, RevealMessage,
                      FinalRevealMessage
  <2>2. BeginTurn(r, req.msg.turn) \in TurnCrypto
    BY <2>1, BeginTurnTyped DEF CommitMessage
  <2>3. [BeginTurn(r, req.msg.turn) EXCEPT
           !.opponentCommitment = req.msg.commitment] \in TurnCrypto
    BY <2>1, <2>2 DEF CommitMessage, TurnCrypto
  <2> QED
    BY <1>1, <1>2, <1>5, <2>3 DEF TypeOK, OnCommit, Arrives, Register
<1>6. CASE OnReveal(r, req)
  <2>1. req.msg \in RevealMessage
    BY <1>1, <1>6 DEF OnReveal, Message, TurnMessage, CommitMessage,
                      FinalRevealMessage
  <2>2. current[r] \in TurnCrypto
    BY <1>6 DEF OnReveal, RevealAccepted, TypeOK
  <2>3. [current[r] EXCEPT !.opponentReveal = req.msg.sealed] \in TurnCrypto
    BY <2>1, <2>2 DEF RevealMessage, TurnCrypto
  <2> QED
    BY <1>1, <1>2, <1>6, <2>3 DEF TypeOK, OnReveal, Arrives, Register
<1>7. CASE OnFinalReveal(r, req)
  BY <1>1, <1>2, <1>7 DEF TypeOK, OnFinalReveal, Arrives, Register, coordinatorVars
<1> QED
  BY <1>3, <1>4, <1>5, <1>6, <1>7 DEF Handle

LEMMA StartTurnTyped ==
  ASSUME TypeOK, NEW r \in Role, NEW a \in Action, StartTurn(r, a)
  PROVE  TypeOK'
<1> DEFINE t == Len(completed[r]) + 1
           rec == [turn |-> t, role |-> r, action |-> a, nonce |-> "issued"]
           m == [type |-> "commit", turn |-> t, commitment |-> Commitment(rec)]
<1>1. rec \in SealedRecord /\ t \in Nat
  BY RecordTyped DEF TypeOK
<1>2. m \in Message
  BY <1>1 DEF Message, TurnMessage, CommitMessage, Commitment, Digest
<1>3. [Drained(r, t) EXCEPT !.localRecord = rec] \in TurnCrypto
  BY <1>1, DrainedTyped DEF TurnCrypto
<1>4. /\ StartCall(r, m)
      /\ current' = [current EXCEPT ![r] = [Drained(r, t) EXCEPT !.localRecord = rec]]
      /\ sealed' = [sealed EXCEPT ![r] = Append(@, rec)]
      /\ pending' = [pending EXCEPT ![r] = @ \ Held(r, t)]
      /\ pc' = [pc EXCEPT ![r] = "waiting_for_opponent_commit"]
      /\ waited' = [waited EXCEPT ![r] = "waiting"]
      /\ UNCHANGED <<completed, trail, registry, audited, serving>>
  BY DEF StartTurn
<1> HIDE DEF t, rec, m
<1>5. /\ call' \in [Role -> Call \cup {None}]
      /\ reply' \in [Role -> {None, "ok", "rejected"}]
      /\ requests' \subseteq Request
  BY <1>2, <1>4, CallTyped
<1>6. Append(sealed[r], rec) \in Seq(SealedRecord)
  BY <1>1 DEF TypeOK
<1> QED
  BY <1>3, <1>4, <1>5, <1>6 DEF TypeOK, PC, Waits

LEMMA FailTurnTyped ==
  ASSUME TypeOK, NEW r \in Role, FailTurn(r)
  PROVE  TypeOK'
BY DEF TypeOK, FailTurn, LeaveWait, PC, Exited

LEMMA SendRevealTyped ==
  ASSUME TypeOK, NEW r \in Role, SendReveal(r), RevealAllowed(r)
  PROVE  TypeOK'
<1> DEFINE m == [type |-> "reveal", turn |-> current[r].turn,
                 sealed |-> RevealMapping(current[r].localRecord)]
<1>1. current[r] \in TurnCrypto /\ current[r].localRecord \in SealedRecord
  BY DEF RevealAllowed, BothCommitted, TypeOK, TurnCrypto
<1>2. RevealMapping(current[r].localRecord) \in Revealed
  BY <1>1 DEF RevealMapping, Revealed, SealedRecord
<1>3. m \in Message
  BY <1>1, <1>2 DEF Message, TurnMessage, RevealMessage, TurnCrypto
<1>4. [current[r] EXCEPT !.localRevealed = TRUE] \in TurnCrypto
  BY <1>1 DEF TurnCrypto
<1>5. /\ StartCall(r, m)
      /\ current' = [current EXCEPT ![r] = [current[r] EXCEPT !.localRevealed = TRUE]]
      /\ pc' = [pc EXCEPT ![r] = "waiting_for_opponent_reveal"]
      /\ waited' = [waited EXCEPT ![r] = "waiting"]
      /\ UNCHANGED <<completed, sealed, trail, inboxVars, audited, serving>>
  BY DEF SendReveal
<1> HIDE DEF m
<1>6. /\ call' \in [Role -> Call \cup {None}]
      /\ reply' \in [Role -> {None, "ok", "rejected"}]
      /\ requests' \subseteq Request
  BY <1>3, <1>5, CallTyped
<1> QED
  BY <1>4, <1>5, <1>6 DEF TypeOK, PC, Waits, inboxVars

LEMMA FinishTurnTyped ==
  ASSUME TypeOK, NEW r \in Role, FinishTurn(r), RevealAllowed(r)
  PROVE  TypeOK'
<1>1. current[r] \in TurnCrypto /\ current[r].localRecord \in SealedRecord
  BY DEF RevealAllowed, BothCommitted, TypeOK, TurnCrypto
<1>2. /\ Append(completed[r], current[r]) \in Seq(TurnCrypto)
      /\ Append(trail[r], current[r].localRecord) \in Seq(SealedRecord)
  BY <1>1 DEF TypeOK
<1> QED
  BY <1>2 DEF TypeOK, FinishTurn, LeaveWait, PC, inboxVars

LEMMA SendFinalRevealTyped ==
  ASSUME TypeOK, NEW r \in Role, NEW mode \in TamperModes, SendFinalReveal(r, mode)
  PROVE  TypeOK'
<1> DEFINE m == [type |-> "final_reveal", records |-> Corrupted(trail[r], mode)]
<1>1. Corrupted(trail[r], mode) \in Seq(SealedRecord)
  BY CorruptedTyped DEF TypeOK
<1>2. m \in Message
  BY <1>1 DEF Message, FinalRevealMessage
<1>3. /\ StartCall(r, m)
      /\ trail' = [trail EXCEPT ![r] = Corrupted(@, mode)]
      /\ pc' = [pc EXCEPT ![r] = "final_reveal"]
      /\ waited' = [waited EXCEPT ![r] = "waiting"]
      /\ UNCHANGED <<current, completed, sealed, inboxVars, audited, serving>>
  BY DEF SendFinalReveal
<1> HIDE DEF m
<1>4. /\ call' \in [Role -> Call \cup {None}]
      /\ reply' \in [Role -> {None, "ok", "rejected"}]
      /\ requests' \subseteq Request
  BY <1>2, <1>3, CallTyped
<1> QED
  BY <1>1, <1>3, <1>4 DEF TypeOK, PC, Waits, inboxVars

-----------------------------------------------------------------------------
(* The invariant and the steps that leave both coordinators alone. *)

(* What a message tells stays true as long as nobody unseals. *)
LEMMA HonestyKept ==
  ASSUME NEW r \in Role, NEW m \in Message, IsHonest(r, m), UNCHANGED sealed
  PROVE  IsHonest(r, m)'
BY DEF IsHonest, HasSealed

LEMMA QuietFrame ==
  ASSUME ProtocolInvariant, TypeOK', UNCHANGED coordinatorVars,
         \A s \in Role : pending'[s] \subseteq pending[s],
         \A req \in requests' : IsHonest(req.sender, req.msg),
         \A s \in Role : call'[s] # None => IsHonest(s, call'[s].msg),
         \A s \in Role : pc'[s] = pc[s] \/ pc'[s] \in Exited,
         \A s \in Role : \/ waited'[s] = waited[s]
                         \/ waited'[s] # "arrived"
                         \/ (Condition(s) /\ pc'[s] = pc[s])
  PROVE  ProtocolInvariant'
<1> SUFFICES ASSUME NEW s \in Role PROVE PeerInvariant(s)'
  BY DEF ProtocolInvariant
<1>1. PeerInvariant(s) /\ TypeOK
  BY DEF ProtocolInvariant
<1>2. UNCHANGED <<current, completed, sealed, trail>>
  BY DEF coordinatorVars
<1>3. SealedInOrder(s)'
  BY <1>1, <1>2 DEF PeerInvariant, SealedInOrder, Exited
<1>4. (current[s] # None => CurrentIsNext(s, current[s]))'
  BY <1>1, <1>2 DEF PeerInvariant, CurrentIsNext, HasSealed, HoldsCommitmentOf
<1>5. PhaseKnows(s)'
  BY <1>1, <1>2 DEF PeerInvariant, PhaseKnows, RevealAllowed, Condition, Exited,
                    InTurn
<1>6. CompletedAgrees(s)'
  BY <1>1, <1>2 DEF PeerInvariant, CompletedAgrees, HasSealed, HoldsCommitmentOf
<1>7. MessagesHonest(s)'
  BY <1>1, <1>2, Opponents DEF PeerInvariant, MessagesHonest, IsHonest, HasSealed
<1> QED
  BY <1>3, <1>4, <1>5, <1>6, <1>7 DEF PeerInvariant

LEMMA MessagesAreHonest ==
  ASSUME ProtocolInvariant
  PROVE  /\ \A req \in requests : IsHonest(req.sender, req.msg)
         /\ \A s \in Role : call[s] # None => IsHonest(s, call[s].msg)
BY DEF ProtocolInvariant, PeerInvariant, MessagesHonest, TypeOK, Request

LEMMA QuietKeeps ==
  ASSUME ProtocolInvariant, NEW r \in Role,
         \/ ConditionHolds(r) \/ ConditionExpires(r) \/ ReceiveReply(r)
         \/ AttemptFails(r) \/ EndMatch(r) \/ Shutdown(r) \/ Crash(r)
  PROVE  ProtocolInvariant'
<1>1. TypeOK /\ TypeOK'
  BY QuietTyped DEF ProtocolInvariant
<1>2. UNCHANGED coordinatorVars
  BY DEF ConditionHolds, ConditionExpires, ReceiveReply, AttemptFails, EndMatch,
         Shutdown, Crash
<1>3. \A s \in Role : pending'[s] \subseteq pending[s]
  BY <1>1 DEF ConditionHolds, ConditionExpires, ReceiveReply, AttemptFails,
         EndMatch, Shutdown, Crash, inboxVars, TypeOK
<1>4. \A req \in requests' : IsHonest(req.sender, req.msg)
  <2>1. CASE requests' \subseteq requests
    BY <2>1, MessagesAreHonest
  <2>2. CASE AttemptFails(r)
    BY <2>2, MessagesAreHonest DEF AttemptFails, Attempt, IsOpen
  <2> QED
    BY <2>1, <2>2 DEF ConditionHolds, ConditionExpires, ReceiveReply, EndMatch,
                      Shutdown, StopServing, Crash
<1>5. \A s \in Role : call'[s] # None => call[s] # None /\ call'[s].msg = call[s].msg
  <2>1. CASE ReceiveReply(r)
    BY <1>1, <2>1 DEF ReceiveReply, IsOpen, TypeOK, Call
  <2>2. CASE AttemptFails(r)
    <3>1. call[r] \in Call /\ call[r] # None
      BY <1>1, <2>2 DEF AttemptFails, IsOpen, TypeOK
    <3>2. call'[r].msg = call[r].msg
      <4>1. CASE call' = [call EXCEPT ![r] =
                            [call[r] EXCEPT !.attempt = call[r].attempt + 1]]
        BY <1>1, <3>1, <4>1 DEF TypeOK, Call
      <4>2. CASE call' = [call EXCEPT ![r] =
                            [call[r] EXCEPT !.status = "unacknowledged"]]
        BY <1>1, <3>1, <4>2 DEF TypeOK, Call
      <4> QED
        BY <2>2, <4>1, <4>2 DEF AttemptFails
    <3>3. \A s \in Role : s # r => call'[s] = call[s]
      BY <1>1, <2>2 DEF AttemptFails, TypeOK
    <3> QED
      BY <3>1, <3>2, <3>3
  <2>3. CASE EndMatch(r)
    BY <1>1, <2>3 DEF EndMatch, LeaveWait, TypeOK
  <2> QED
    BY <2>1, <2>2, <2>3 DEF ConditionHolds, ConditionExpires, Shutdown, Crash,
                            callVars
<1>6. \A s \in Role : pc'[s] = pc[s] \/ pc'[s] \in Exited
  BY <1>1 DEF ConditionHolds, ConditionExpires, ReceiveReply, AttemptFails,
         EndMatch, Shutdown, Crash, TypeOK, Exited
<1>7. \A s \in Role : \/ waited'[s] = waited[s]
                      \/ waited'[s] # "arrived"
                      \/ (Condition(s) /\ pc'[s] = pc[s])
  <2>1. CASE ConditionHolds(r)
    BY <1>1, <2>1 DEF ConditionHolds, TypeOK
  <2>2. CASE ConditionExpires(r)
    BY <1>1, <2>2 DEF ConditionExpires, TypeOK
  <2>3. CASE EndMatch(r)
    <3>1. waited' = [waited EXCEPT ![r] = "waiting"]
      BY <2>3 DEF EndMatch, LeaveWait
    <3> QED
      BY <1>1, <3>1 DEF TypeOK
  <2>4. CASE UNCHANGED waited
    BY <2>4
  <2> QED
    BY <2>1, <2>2, <2>3, <2>4 DEF ReceiveReply, AttemptFails, Shutdown, Crash,
                                  callVars
<1> QED
  BY <1>1, <1>2, <1>3, <1>4, <1>5, <1>6, <1>7, MessagesAreHonest, QuietFrame

LEMMA QuietHandleKeeps ==
  ASSUME ProtocolInvariant, NEW r \in Role, NEW req \in requests,
         SuppressDuplicate(r, req) \/ OnFinalReveal(r, req) \/ Reject(r, req)
  PROVE  ProtocolInvariant'
<1>1. TypeOK'
  BY HandleTyped DEF ProtocolInvariant, Handle
<1>2. UNCHANGED <<coordinatorVars, pc, pending, waited, call>>
  BY DEF SuppressDuplicate, OnFinalReveal, Reject, inboxVars
<1>3. requests' \subseteq requests
  BY DEF SuppressDuplicate, OnFinalReveal, Reject, Arrives
<1> QED
  BY <1>1, <1>2, <1>3, MessagesAreHonest, QuietFrame

-----------------------------------------------------------------------------
(* The handlers that change a peer's turn. *)

LEMMA BufferKeeps ==
  ASSUME ProtocolInvariant, NEW r \in Role, NEW req \in requests,
         BufferIfEarly(r, req)
  PROVE  ProtocolInvariant'
<1>1. TypeOK /\ TypeOK' /\ r = Opponent(Opponent(r)) /\ Opponent(r) \in Role
  BY HandleTyped, Opponents DEF ProtocolInvariant, Handle
<1>2. UNCHANGED <<current, completed, sealed, pc, waited, call>>
  BY DEF BufferIfEarly, coordinatorVars
<1>3. requests' \subseteq requests /\ req.sender = Opponent(r)
  BY DEF BufferIfEarly, Arrives
<1>4. IsHonest(Opponent(r), req.msg)
  BY <1>3, MessagesAreHonest
<1> SUFFICES ASSUME NEW s \in Role PROVE PeerInvariant(s)'
  BY <1>1 DEF ProtocolInvariant
<1>5. PeerInvariant(s)
  BY DEF ProtocolInvariant
<1>6. (/\ SealedInOrder(s)
       /\ current[s] # None => CurrentIsNext(s, current[s])
       /\ CompletedAgrees(s))'
  BY <1>2, <1>5 DEF PeerInvariant, SealedInOrder, CurrentIsNext, CompletedAgrees,
                    HasSealed, HoldsCommitmentOf
<1>7. PhaseKnows(s)'
  BY <1>2, <1>5 DEF PeerInvariant, PhaseKnows, RevealAllowed
<1>8. MessagesHonest(s)'
  <2>1. \A m \in pending'[Opponent(s)] : IsHonest(s, m)
    <3>1. \A q \in Role : pending'[q] = IF q = r THEN pending[q] \cup {req.msg}
                                               ELSE pending[q]
      BY <1>1 DEF BufferIfEarly, TypeOK
    <3>2. CASE Opponent(s) = r
      BY <1>1, <1>4, <1>5, <3>1, <3>2, Opponents, ZenonT(60) DEF PeerInvariant, MessagesHonest
    <3>3. CASE Opponent(s) # r
      BY <1>5, <3>1, <3>3, Opponents DEF PeerInvariant, MessagesHonest
    <3> QED
      BY <3>2, <3>3
  <2> QED
    BY <1>2, <1>3, <1>5, <2>1 DEF PeerInvariant, MessagesHonest, IsHonest, HasSealed
<1> QED
  BY <1>6, <1>7, <1>8 DEF PeerInvariant

(* What must be shown of a step of r that changes its turn but seals and    *)
(* finishes nothing, and sends at most honest messages.                     *)
LEMMA TurnFrame ==
  ASSUME ProtocolInvariant, TypeOK', NEW r \in Role,
         UNCHANGED <<completed, sealed>>,
         \A s \in Role : s # r =>
            current'[s] = current[s] /\ pc'[s] = pc[s] /\ waited'[s] = waited[s],
         (current[r] # None => CurrentIsNext(r, current[r]))',
         PhaseKnows(r)',
         pc'[r] \in {"ready", "turn_complete", "final_reveal"} => pc'[r] = pc[r],
         \A s \in Role : pending'[s] \subseteq pending[s],
         \A req \in requests' : IsHonest(req.sender, req.msg),
         \A s \in Role : call'[s] # None => IsHonest(s, call'[s].msg)
  PROVE  ProtocolInvariant'
<1> SUFFICES ASSUME NEW s \in Role PROVE PeerInvariant(s)'
  BY DEF ProtocolInvariant
<1>1. PeerInvariant(s)
  BY DEF ProtocolInvariant
<1>2. SealedInOrder(s)'
  BY <1>1 DEF PeerInvariant, SealedInOrder
<1>3. (current[s] # None => CurrentIsNext(s, current[s]))'
  BY <1>1 DEF PeerInvariant, CurrentIsNext, HasSealed, HoldsCommitmentOf
<1>4. PhaseKnows(s)'
  BY <1>1 DEF PeerInvariant, PhaseKnows, RevealAllowed
<1>5. CompletedAgrees(s)'
  BY <1>1 DEF PeerInvariant, CompletedAgrees, HasSealed, HoldsCommitmentOf
<1>6. MessagesHonest(s)'
  BY <1>1, Opponents DEF PeerInvariant, MessagesHonest, IsHonest, HasSealed
<1> QED
  BY <1>2, <1>3, <1>4, <1>5, <1>6 DEF PeerInvariant

LEMMA OnCommitKeeps ==
  ASSUME ProtocolInvariant, NEW r \in Role, NEW req \in requests, OnCommit(r, req)
  PROVE  ProtocolInvariant'
<1> DEFINE m == req.msg
           b == BeginTurn(r, m.turn)
           c == [b EXCEPT !.opponentCommitment = m.commitment]
<1>1. TypeOK /\ TypeOK' /\ PeerInvariant(r) /\ Opponent(r) \in Role
  BY HandleTyped, Opponents DEF ProtocolInvariant, Handle
<1>2. /\ UNCHANGED <<completed, sealed, pc, waited, call, pending>>
      /\ requests' \subseteq requests
      /\ req.sender = Opponent(r)
      /\ m.type = "commit"
      /\ current' = [current EXCEPT ![r] = c]
      /\ ~Early(r, m)
      /\ CommitAccepted(r, m)
  BY DEF OnCommit, Arrives
<1>3. IsHonest(Opponent(r), m)
  BY <1>2, MessagesAreHonest
<1>4. m \in CommitMessage
  BY <1>1, <1>2 DEF TypeOK, Request, Message, TurnMessage, RevealMessage,
                    FinalRevealMessage
<1>5. b \in TurnCrypto /\ m.turn = Len(completed[r]) + 1 /\ b.turn = m.turn
  <2>1. b \in TurnCrypto
    BY <1>1, <1>4, BeginTurnTyped DEF CommitMessage
  <2>2. current[r] # None => current[r].turn = Len(completed[r]) + 1
    BY <1>1 DEF PeerInvariant, CurrentIsNext
  <2>3. m.turn = Len(completed[r]) + 1
    BY <1>1, <1>2, <1>4, <2>2 DEF Early, ExpectedTurn, CommitAccepted, CanBegin,
                                  CommitMessage, TypeOK
  <2> QED
    BY <2>1, <2>2, <2>3 DEF BeginTurn, OpenTurn
<1>6. CurrentIsNext(r, b)
  <2>1. CASE current[r] = None
    BY <1>5, <2>1 DEF BeginTurn, OpenTurn, CurrentIsNext
  <2>2. CASE current[r] # None
    BY <1>1, <2>2 DEF BeginTurn, PeerInvariant
  <2> QED
    BY <2>1, <2>2
<1>7. /\ c \in TurnCrypto
      /\ c.turn = b.turn
      /\ c.localRecord = b.localRecord
      /\ c.localRevealed = b.localRevealed
      /\ c.opponentReveal = b.opponentReveal
      /\ c.opponentCommitment = m.commitment
  BY <1>4, <1>5 DEF TurnCrypto, CommitMessage
<1>8. m.commitment # None
  BY <1>4, NoneAssumption DEF CommitMessage
<1> HIDE DEF c, b
<1>9. CurrentIsNext(r, c)
  BY <1>2, <1>3, <1>5, <1>6, <1>7, <1>8
  DEF CurrentIsNext, BothCommitted, IsHonest, HoldsCommitmentOf
<1>10. current'[r] = c
  BY <1>1, <1>2 DEF TypeOK
<1>11. (current[r] # None => CurrentIsNext(r, current[r]))'
  BY <1>2, <1>9, <1>10 DEF CurrentIsNext, HasSealed, HoldsCommitmentOf
<1>12. PhaseKnows(r)'
  <2>1. PhaseKnows(r)
    BY <1>1 DEF PeerInvariant
  <2>2. current[r] # None => b = current[r]
    BY DEF b, BeginTurn
  <2>3. current[r] = None => b.localRecord = None
    BY DEF b, BeginTurn, OpenTurn
  <2>4. c # None
    BY <1>7, NoneAssumption
  <2> QED
    BY <1>2, <1>7, <1>8, <1>10, <2>1, <2>2, <2>3, <2>4
    DEF PhaseKnows, RevealAllowed, BothCommitted, InTurn
<1> QED
  BY <1>1, <1>2, <1>11, <1>12, MessagesAreHonest, TurnFrame DEF TypeOK

LEMMA OnRevealKeeps ==
  ASSUME ProtocolInvariant, NEW r \in Role, NEW req \in requests, OnReveal(r, req)
  PROVE  ProtocolInvariant'
<1> DEFINE m == req.msg
           b == current[r]
           c == [b EXCEPT !.opponentReveal = m.sealed]
<1>1. TypeOK /\ TypeOK' /\ PeerInvariant(r) /\ Opponent(r) \in Role
  BY HandleTyped, Opponents DEF ProtocolInvariant, Handle
<1>2. /\ UNCHANGED <<completed, sealed, pc, waited, call, pending>>
      /\ requests' \subseteq requests
      /\ req.sender = Opponent(r)
      /\ m.type = "reveal"
      /\ current' = [current EXCEPT ![r] = c]
      /\ RevealAccepted(r, m)
  BY DEF OnReveal, Arrives
<1>3. IsHonest(Opponent(r), m)
  BY <1>2, MessagesAreHonest
<1>4. m \in RevealMessage
  BY <1>1, <1>2 DEF TypeOK, Request, Message, TurnMessage, CommitMessage,
                    FinalRevealMessage
<1>5. b \in TurnCrypto /\ m.turn = b.turn /\ BothCommitted(b) /\ CurrentIsNext(r, b)
  BY <1>1, <1>2 DEF RevealAccepted, TypeOK, PeerInvariant
<1>6. /\ c \in TurnCrypto
      /\ c.turn = b.turn
      /\ c.localRecord = b.localRecord
      /\ c.localRevealed = b.localRevealed
      /\ c.opponentReveal = m.sealed
      /\ c.opponentCommitment = b.opponentCommitment
  BY <1>4, <1>5 DEF TurnCrypto, RevealMessage
<1>7. m.sealed # None /\ c # None
  BY <1>4, <1>6, NoneAssumption DEF RevealMessage
<1>8. PhaseKnows(r) /\ b # None
  BY <1>1, <1>2 DEF PeerInvariant, RevealAccepted
<1> HIDE DEF c
<1>9. CurrentIsNext(r, c)
  BY <1>2, <1>3, <1>5, <1>6, <1>7
  DEF CurrentIsNext, BothCommitted, IsHonest, HoldsCommitmentOf
<1>10. current'[r] = c
  BY <1>1, <1>2 DEF TypeOK
<1>11. (current[r] # None => CurrentIsNext(r, current[r]))'
  BY <1>2, <1>9, <1>10 DEF CurrentIsNext, HasSealed, HoldsCommitmentOf
<1>12. PhaseKnows(r)'
  BY <1>2, <1>5, <1>6, <1>7, <1>8, <1>10
  DEF PhaseKnows, RevealAllowed, BothCommitted, InTurn
<1> QED
  BY <1>1, <1>2, <1>11, <1>12, MessagesAreHonest, TurnFrame DEF TypeOK

-----------------------------------------------------------------------------
(* The steps of play_turn. *)

LEMMA FailTurnKeeps ==
  ASSUME ProtocolInvariant, NEW r \in Role, FailTurn(r)
  PROVE  ProtocolInvariant'
<1>1. TypeOK /\ TypeOK' /\ PeerInvariant(r)
  BY FailTurnTyped DEF ProtocolInvariant
<1>2. /\ UNCHANGED <<completed, sealed, requests>>
      /\ current' = [current EXCEPT ![r] = None]
      /\ pending' = [pending EXCEPT ![r] = {}]
      /\ pc' = [pc EXCEPT ![r] = "exit_failed"]
      /\ call' = [call EXCEPT ![r] = None]
      /\ waited' = [waited EXCEPT ![r] = "waiting"]
  BY DEF FailTurn, LeaveWait
<1>3. current'[r] = None /\ pc'[r] = "exit_failed"
  BY <1>1, <1>2 DEF TypeOK
<1>4. PhaseKnows(r)'
  BY <1>3 DEF PhaseKnows, InTurn
<1>5. \A s \in Role : pending'[s] \subseteq pending[s]
  BY <1>1, <1>2 DEF TypeOK
<1>6. \A s \in Role : call'[s] # None => call'[s] = call[s]
  BY <1>1, <1>2 DEF TypeOK
<1> QED
  BY <1>1, <1>2, <1>3, <1>4, <1>5, <1>6, MessagesAreHonest, TurnFrame DEF TypeOK

(* A new call carries the message it was started with. *)
LEMMA StartCallHonest ==
  ASSUME TypeOK, NEW r \in Role, NEW m, StartCall(r, m)
  PROVE  /\ call'[r].msg = m
         /\ \A s \in Role : s # r => call'[s] = call[s]
         /\ \A req \in requests' :
              req \in requests \/ (req.sender = r /\ req.msg = m)
BY DEF StartCall, Attempt, TypeOK

LEMMA SendRevealKeeps ==
  ASSUME ProtocolInvariant, NEW r \in Role, SendReveal(r)
  PROVE  ProtocolInvariant'
<1> DEFINE b == current[r]
           c == [b EXCEPT !.localRevealed = TRUE]
           m == [type |-> "reveal", turn |-> b.turn,
                 sealed |-> RevealMapping(b.localRecord)]
<1>1. TypeOK /\ PeerInvariant(r)
  BY DEF ProtocolInvariant
<1>2. RevealAllowed(r)
  BY <1>1 DEF SendReveal, Settled, CommitPhaseFails, PeerInvariant, PhaseKnows,
              TypeOK
<1>3. TypeOK'
  BY <1>1, <1>2, SendRevealTyped
<1>4. b \in TurnCrypto /\ b # None /\ BothCommitted(b) /\ CurrentIsNext(r, b)
  BY <1>1, <1>2 DEF RevealAllowed, TypeOK, PeerInvariant
<1>5. /\ UNCHANGED <<completed, sealed, pending>>
      /\ current' = [current EXCEPT ![r] = c]
      /\ pc' = [pc EXCEPT ![r] = "waiting_for_opponent_reveal"]
      /\ waited' = [waited EXCEPT ![r] = "waiting"]
      /\ StartCall(r, m)
  BY DEF SendReveal, inboxVars
<1>6. /\ c \in TurnCrypto
      /\ c.turn = b.turn
      /\ c.localRecord = b.localRecord
      /\ c.localRevealed = TRUE
      /\ c.opponentReveal = b.opponentReveal
      /\ c.opponentCommitment = b.opponentCommitment
  BY <1>4 DEF TurnCrypto
<1>7. c # None
  BY <1>6, NoneAssumption
<1>8. m.type = "reveal" /\ m.turn = b.turn /\ m.sealed = RevealMapping(b.localRecord)
  OBVIOUS
<1> HIDE DEF c, m
<1>9. CurrentIsNext(r, c)
  BY <1>4, <1>6 DEF CurrentIsNext, BothCommitted, HoldsCommitmentOf
<1>10. /\ current'[r] = c
       /\ pc'[r] = "waiting_for_opponent_reveal"
       /\ waited'[r] = "waiting"
  BY <1>1, <1>5 DEF TypeOK
<1>11. (current[r] # None => CurrentIsNext(r, current[r]))'
  BY <1>5, <1>9, <1>10 DEF CurrentIsNext, HasSealed, HoldsCommitmentOf
<1>12. PhaseKnows(r)'
  BY <1>4, <1>6, <1>7, <1>10 DEF PhaseKnows, RevealAllowed, BothCommitted, InTurn
<1>13. IsHonest(r, m)
  BY <1>4, <1>8 DEF IsHonest, CurrentIsNext, BothCommitted, HoldsCommitmentOf
<1>14. \A s \in Role : call'[s] # None => IsHonest(s, call'[s].msg)
  BY <1>1, <1>5, <1>13, StartCallHonest, MessagesAreHonest
<1>15. \A req \in requests' : IsHonest(req.sender, req.msg)
  BY <1>1, <1>5, <1>13, StartCallHonest, MessagesAreHonest
<1> QED
  BY <1>1, <1>3, <1>5, <1>10, <1>11, <1>12, <1>14, <1>15, TurnFrame DEF TypeOK

LEMMA SendFinalRevealKeeps ==
  ASSUME ProtocolInvariant, NEW r \in Role, NEW mode \in TamperModes,
         SendFinalReveal(r, mode)
  PROVE  ProtocolInvariant'
<1> DEFINE m == [type |-> "final_reveal", records |-> Corrupted(trail[r], mode)]
<1>1. TypeOK /\ TypeOK' /\ PeerInvariant(r)
  BY SendFinalRevealTyped DEF ProtocolInvariant
<1>2. /\ UNCHANGED <<current, completed, sealed, pending>>
      /\ pc[r] = "turn_complete"
      /\ pc' = [pc EXCEPT ![r] = "final_reveal"]
      /\ waited' = [waited EXCEPT ![r] = "waiting"]
      /\ StartCall(r, m)
  BY DEF SendFinalReveal, inboxVars
<1>3. IsHonest(r, m)
  BY DEF IsHonest
<1> HIDE DEF m
<1>4. \A req \in requests' : IsHonest(req.sender, req.msg)
  BY <1>1, <1>2, <1>3, StartCallHonest, MessagesAreHonest
<1>5. \A s \in Role : call'[s] # None => IsHonest(s, call'[s].msg)
  BY <1>1, <1>2, <1>3, StartCallHonest, MessagesAreHonest
<1>6. \A s \in Role : pc'[s] = IF s = r THEN "final_reveal" ELSE pc[s]
  BY <1>1, <1>2 DEF TypeOK
<1>7. \A s \in Role : waited'[s] = IF s = r THEN "waiting" ELSE waited[s]
  BY <1>1, <1>2 DEF TypeOK
<1> SUFFICES ASSUME NEW s \in Role PROVE PeerInvariant(s)'
  BY <1>1 DEF ProtocolInvariant
<1>8. PeerInvariant(s)
  BY DEF ProtocolInvariant
<1>9. SealedInOrder(s)'
  BY <1>2, <1>6, <1>8 DEF PeerInvariant, SealedInOrder
<1>10. (/\ current[s] # None => CurrentIsNext(s, current[s])
        /\ CompletedAgrees(s))'
  BY <1>2, <1>8 DEF PeerInvariant, CurrentIsNext, CompletedAgrees, HasSealed,
                    HoldsCommitmentOf
<1>11. PhaseKnows(s)'
  BY <1>2, <1>6, <1>7, <1>8 DEF PeerInvariant, PhaseKnows, RevealAllowed, InTurn
<1>12. MessagesHonest(s)'
  BY <1>2, <1>4, <1>5, <1>8 DEF PeerInvariant, MessagesHonest, IsHonest, HasSealed
<1> QED
  BY <1>9, <1>10, <1>11, <1>12 DEF PeerInvariant

(* Sealing one more record: what was sealed before stays where it was. *)
LEMMA SealedGrows ==
  ASSUME NEW r \in Role, NEW rec \in SealedRecord, NEW t \in Nat,
         sealed[r] \in Seq(SealedRecord),
         t = Len(sealed[r]) + 1,
         sealed'[r] = Append(sealed[r], rec),
         \A s \in Role : s # r => sealed'[s] = sealed[s]
  PROVE  /\ \A s \in Role : \A i \in DOMAIN sealed[s] :
              i \in DOMAIN sealed'[s] /\ sealed'[s][i] = sealed[s][i]
         /\ Len(sealed'[r]) = t
         /\ t \in DOMAIN sealed'[r]
         /\ sealed'[r][t] = rec
         /\ \A s \in Role : s # r => sealed'[s] = sealed[s]
         /\ \A i \in DOMAIN sealed'[r] : i \in DOMAIN sealed[r] \/ i = t
<1>1. /\ Len(sealed'[r]) = t
      /\ \A i \in 1..Len(sealed[r]) : sealed'[r][i] = sealed[r][i]
      /\ sealed'[r][t] = rec
      /\ DOMAIN sealed'[r] = 1..t
      /\ DOMAIN sealed[r] = 1..Len(sealed[r])
      /\ Len(sealed[r]) \in Nat
  OBVIOUS
<1> QED
  BY <1>1

LEMMA StartTurnKeeps ==
  ASSUME ProtocolInvariant, NEW r \in Role, NEW a \in Action, StartTurn(r, a)
  PROVE  ProtocolInvariant'
<1>0. PICK t \in Nat : t = Len(completed[r]) + 1
  BY DEF ProtocolInvariant, TypeOK
<1> DEFINE rec == [turn |-> t, role |-> r, action |-> a, nonce |-> "issued"]
           m == [type |-> "commit", turn |-> t, commitment |-> Commitment(rec)]
           b == BeginTurn(r, t)
           d == Drained(r, t)
           c == [d EXCEPT !.localRecord = rec]
<1>1. TypeOK /\ TypeOK' /\ PeerInvariant(r) /\ Opponent(r) \in Role
  BY StartTurnTyped, Opponents DEF ProtocolInvariant
<1>2. rec \in SealedRecord /\ t \in Nat
  BY <1>0, <1>1, RecordTyped
<1>3. /\ pc[r] \in {"ready", "turn_complete"}
      /\ UNCHANGED <<completed>>
      /\ StartCall(r, m)
      /\ current' = [current EXCEPT ![r] = c]
      /\ sealed' = [sealed EXCEPT ![r] = Append(@, rec)]
      /\ pending' = [pending EXCEPT ![r] = @ \ Held(r, t)]
      /\ pc' = [pc EXCEPT ![r] = "waiting_for_opponent_commit"]
      /\ waited' = [waited EXCEPT ![r] = "waiting"]
  BY <1>0 DEF StartTurn
<1>4. Len(sealed[r]) + 1 = t
  BY <1>0, <1>1, <1>3 DEF PeerInvariant, SealedInOrder
<1>5. rec.turn = t /\ rec.role = r
  OBVIOUS
<1>6. b \in TurnCrypto /\ b.turn = t /\ b.localRecord = None /\ CurrentIsNext(r, b)
  <2>1. b \in TurnCrypto
    BY <1>1, <1>2, BeginTurnTyped
  <2>2. CASE current[r] = None
    BY <1>0, <2>1, <2>2 DEF BeginTurn, OpenTurn, CurrentIsNext
  <2>3. CASE current[r] # None
    BY <1>0, <1>1, <1>3, <2>1, <2>3 DEF BeginTurn, PeerInvariant, PhaseKnows, CurrentIsNext
  <2> QED
    BY <2>2, <2>3
<1>7. /\ d \in TurnCrypto
      /\ d.turn = t
      /\ d.localRevealed = b.localRevealed
      /\ d.opponentReveal = b.opponentReveal
      /\ d.opponentCommitment # None => HoldsCommitmentOf(d, Opponent(r))
  <2> DEFINE commits == {x \in Held(r, t) : x.type = "commit"}
  <2>1. d \in TurnCrypto
    BY <1>1, <1>2, DrainedTyped
  <2>2. CASE commits = {}
    BY <1>6, <2>1, <2>2 DEF Drained, CurrentIsNext
  <2>3. CASE commits # {}
    <3>1. PICK x \in commits : d = [b EXCEPT !.opponentCommitment = x.commitment]
      BY <2>3 DEF Drained
    <3>2. x \in pending[r] /\ x.turn = t /\ x.type = "commit"
      BY <3>1 DEF Held
    <3>3. IsHonest(Opponent(r), x)
      BY <1>1, <3>2, Opponents DEF ProtocolInvariant, PeerInvariant, MessagesHonest
    <3>4. x.commitment \in Digest
      BY <1>1, <3>2 DEF TypeOK, TurnMessage, CommitMessage, RevealMessage
    <3>5. /\ d.turn = b.turn
          /\ d.localRevealed = b.localRevealed
          /\ d.opponentReveal = b.opponentReveal
          /\ d.opponentCommitment = x.commitment
      BY <1>6, <3>1, <3>4 DEF TurnCrypto
    <3> QED
      BY <1>6, <2>1, <3>2, <3>3, <3>5 DEF IsHonest, HoldsCommitmentOf
  <2> QED
    BY <2>2, <2>3
<1>8. /\ c \in TurnCrypto
      /\ c.turn = t
      /\ c.localRecord = rec
      /\ c.localRevealed = FALSE
      /\ c.opponentReveal = None
      /\ c.opponentCommitment = d.opponentCommitment
  <2>1. ~b.localRevealed /\ b.opponentReveal = None
    BY <1>6 DEF CurrentIsNext, BothCommitted
  <2> QED
    BY <1>2, <1>6, <1>7, <2>1 DEF TurnCrypto
<1>9. m.type = "commit" /\ m.turn = t /\ m.commitment = Commitment(rec)
  OBVIOUS
<1> HIDE DEF rec, m, b, d, c
<1>10. /\ \A s \in Role : \A i \in DOMAIN sealed[s] :
             i \in DOMAIN sealed'[s] /\ sealed'[s][i] = sealed[s][i]
       /\ Len(sealed'[r]) = t
       /\ t \in DOMAIN sealed'[r]
       /\ sealed'[r][t] = rec
       /\ \A s \in Role : s # r => sealed'[s] = sealed[s]
       /\ \A i \in DOMAIN sealed'[r] : i \in DOMAIN sealed[r] \/ i = t
  <2>1. /\ sealed[r] \in Seq(SealedRecord)
        /\ sealed'[r] = Append(sealed[r], rec)
        /\ \A s \in Role : s # r => sealed'[s] = sealed[s]
    BY <1>1, <1>3 DEF TypeOK
  <2> QED
    BY <1>2, <1>4, <2>1, SealedGrows
<1>11. \A s \in Role : \A x : IsHonest(s, x) => IsHonest(s, x)'
  BY <1>10, Opponents DEF IsHonest, HasSealed
<1>12. IsHonest(r, m)'
  BY <1>9, <1>10 DEF IsHonest, HasSealed
<1>13. (\A req \in requests : IsHonest(req.sender, req.msg))'
  <2>1. \A req \in requests : req.sender \in Role
    BY <1>1 DEF TypeOK, Request
  <2> QED
    BY <1>1, <1>3, <1>11, <1>12, <2>1, StartCallHonest, MessagesAreHonest
<1>14. (\A s \in Role : call[s] # None => IsHonest(s, call[s].msg))'
  BY <1>1, <1>3, <1>11, <1>12, StartCallHonest, MessagesAreHonest
<1>15. \A s \in Role : pending'[s] \subseteq pending[s]
  BY <1>1, <1>3 DEF TypeOK
<1>16. /\ current'[r] = c
       /\ pc'[r] = "waiting_for_opponent_commit"
       /\ waited'[r] = "waiting"
       /\ \A s \in Role : s # r =>
            current'[s] = current[s] /\ pc'[s] = pc[s] /\ waited'[s] = waited[s]
  BY <1>1, <1>3 DEF TypeOK
<1>17. \A s \in Role : \A x : HoldsCommitmentOf(x, s) => HoldsCommitmentOf(x, s)'
  BY <1>10 DEF HoldsCommitmentOf, HasSealed
<1> SUFFICES ASSUME NEW s \in Role PROVE PeerInvariant(s)'
  BY <1>1 DEF ProtocolInvariant
<1>18. PeerInvariant(s) /\ Opponent(s) \in Role
  BY Opponents DEF ProtocolInvariant
<1>19. SealedInOrder(s)'
  <2>1. CASE s = r
    BY <1>0, <1>3, <1>4, <1>5, <1>10, <1>16, <1>18, <2>1 DEF PeerInvariant, SealedInOrder
  <2>2. CASE s # r
    BY <1>3, <1>10, <1>16, <1>18, <2>2 DEF PeerInvariant, SealedInOrder
  <2> QED
    BY <2>1, <2>2
<1>20. (current[s] # None => CurrentIsNext(s, current[s]))'
  <2>1. CASE s = r
    BY <1>0, <1>3, <1>7, <1>8, <1>10, <1>16, <1>17, <1>18, <2>1
    DEF CurrentIsNext, HasSealed, HoldsCommitmentOf
  <2>2. CASE s # r
    BY <1>3, <1>10, <1>16, <1>17, <1>18, <2>2
    DEF PeerInvariant, CurrentIsNext, HasSealed
  <2> QED
    BY <2>1, <2>2
<1>21. PhaseKnows(s)'
  <2>1. CASE s = r
    BY <1>2, <1>8, <1>16, <2>1, NoneAssumption DEF PhaseKnows, InTurn
  <2>2. CASE s # r
    BY <1>16, <1>18, <2>2 DEF PeerInvariant, PhaseKnows, RevealAllowed
  <2> QED
    BY <2>1, <2>2
<1>22. CompletedAgrees(s)'
  BY <1>3, <1>10, <1>17, <1>18 DEF PeerInvariant, CompletedAgrees, HoldsCommitmentOf,
                                   HasSealed
<1>23. MessagesHonest(s)'
  BY <1>11, <1>13, <1>14, <1>15, <1>18 DEF PeerInvariant, MessagesHonest
<1> QED
  BY <1>19, <1>20, <1>21, <1>22, <1>23 DEF PeerInvariant

LEMMA FinishTurnKeeps ==
  ASSUME ProtocolInvariant, NEW r \in Role, FinishTurn(r)
  PROVE  ProtocolInvariant'
<1> DEFINE c == current[r]
<1>1. TypeOK /\ PeerInvariant(r) /\ Opponent(r) \in Role
  BY Opponents DEF ProtocolInvariant
<1>2. /\ pc[r] = "waiting_for_opponent_reveal"
      /\ waited[r] = "arrived"
  BY <1>1 DEF FinishTurn, Settled, RevealPhaseFails, TypeOK
<1>3. /\ RevealAllowed(r)
      /\ c # None
      /\ c.opponentReveal # None
      /\ BothCommitted(c)
      /\ CurrentIsNext(r, c)
  BY <1>1, <1>2 DEF PeerInvariant, PhaseKnows, RevealAllowed
<1>4. TypeOK'
  BY <1>1, <1>3, FinishTurnTyped
<1>5. /\ UNCHANGED <<sealed, pending, requests>>
      /\ completed' = [completed EXCEPT ![r] = Append(@, c)]
      /\ current' = [current EXCEPT ![r] = None]
      /\ pc' = [pc EXCEPT ![r] = "turn_complete"]
      /\ call' = [call EXCEPT ![r] = None]
      /\ waited' = [waited EXCEPT ![r] = "waiting"]
  BY DEF FinishTurn, LeaveWait, inboxVars
<1>6. c \in TurnCrypto /\ completed[r] \in Seq(TurnCrypto)
  BY <1>1, <1>3 DEF TypeOK
<1> HIDE DEF c
<1>7. completed'[r] = Append(completed[r], c)
  BY <1>1, <1>5 DEF TypeOK
<1>8. /\ Len(completed'[r]) = Len(completed[r]) + 1
      /\ Len(completed[r]) \in Nat
      /\ DOMAIN completed'[r] = 1..Len(completed[r]) + 1
      /\ DOMAIN completed[r] = 1..Len(completed[r])
      /\ completed'[r][Len(completed[r]) + 1] = c
      /\ \A t \in 1..Len(completed[r]) : completed'[r][t] = completed[r][t]
  BY <1>6, <1>7
<1>9. /\ \A s \in Role : s # r => completed'[s] = completed[s]
      /\ \A s \in Role : s # r => current'[s] = current[s]
      /\ \A s \in Role : s # r => pc'[s] = pc[s] /\ waited'[s] = waited[s]
      /\ \A s \in Role : call'[s] # None => call'[s] = call[s]
      /\ current'[r] = None /\ pc'[r] = "turn_complete"
  BY <1>1, <1>5 DEF TypeOK
<1> SUFFICES ASSUME NEW s \in Role PROVE PeerInvariant(s)'
  BY <1>4 DEF ProtocolInvariant
<1>10. PeerInvariant(s)
  BY DEF ProtocolInvariant
<1>11. SealedInOrder(s)'
  <2>1. CASE s = r
    <3>1. Len(sealed[r]) = Len(completed[r]) + 1
      <4>1. Len(completed[r]) + 1 \in DOMAIN sealed[r]
        BY <1>3 DEF CurrentIsNext, BothCommitted, HasSealed
      <4>2. sealed[r] \in Seq(SealedRecord)
        BY <1>1 DEF TypeOK
      <4>3. Len(sealed[r]) \in {Len(completed[r]), Len(completed[r]) + 1}
        BY <1>1 DEF PeerInvariant, SealedInOrder
      <4> QED
        BY <1>8, <4>1, <4>2, <4>3
    <3> QED
      BY <1>5, <1>8, <1>10, <2>1, <3>1 DEF PeerInvariant, SealedInOrder
  <2>2. CASE s # r
    BY <1>5, <1>9, <1>10, <2>2 DEF PeerInvariant, SealedInOrder
  <2> QED
    BY <2>1, <2>2
<1>12. (current[s] # None => CurrentIsNext(s, current[s]))'
  BY <1>5, <1>9, <1>10 DEF PeerInvariant, CurrentIsNext, HasSealed, HoldsCommitmentOf
<1>13. PhaseKnows(s)'
  BY <1>9, <1>10 DEF PeerInvariant, PhaseKnows, RevealAllowed, InTurn
<1>14. CompletedAgrees(s)'
  <2>1. CASE s = r
    <3>1. /\ c.turn = Len(completed[r]) + 1
          /\ c.localRecord # None
          /\ HoldsCommitmentOf(c, Opponent(r))
          /\ c.opponentReveal = RevealMapping(sealed[Opponent(r)][c.turn])
      BY <1>3 DEF CurrentIsNext, BothCommitted
    <3>2. CompletedAgrees(r)
      BY <1>1 DEF PeerInvariant
    <3> QED
      BY <1>5, <1>8, <2>1, <3>1, <3>2 DEF CompletedAgrees, HoldsCommitmentOf, HasSealed
  <2>2. CASE s # r
    BY <1>5, <1>9, <1>10, <2>2 DEF PeerInvariant, CompletedAgrees, HoldsCommitmentOf,
                                   HasSealed
  <2> QED
    BY <2>1, <2>2
<1>15. MessagesHonest(s)'
  BY <1>5, <1>9, <1>10 DEF PeerInvariant, MessagesHonest, IsHonest, HasSealed
<1> QED
  BY <1>11, <1>12, <1>13, <1>14, <1>15 DEF PeerInvariant

-----------------------------------------------------------------------------
(* The invariant holds in every reachable state. *)

LEMMA InitEstablishes == Init => ProtocolInvariant
<1> SUFFICES ASSUME Init PROVE ProtocolInvariant
  OBVIOUS
<1>1. TypeOK
  BY DEF Init, TypeOK, PC
<1>2. ASSUME NEW r \in Role PROVE PeerInvariant(r)
  <2>1. Opponent(r) \in Role
    BY Opponents
  <2> QED
    BY <2>1 DEF Init, PeerInvariant, SealedInOrder, PhaseKnows, CompletedAgrees,
                MessagesHonest, InTurn
<1> QED
  BY <1>1, <1>2 DEF ProtocolInvariant

LEMMA StepKeeps == ProtocolInvariant /\ [Next]_vars => ProtocolInvariant'
<1> SUFFICES ASSUME ProtocolInvariant, [Next]_vars PROVE ProtocolInvariant'
  OBVIOUS
<1>1. ASSUME NEW r \in Role, LocalStep(r) PROVE ProtocolInvariant'
  <2>1. ASSUME NEW a \in Action, StartTurn(r, a) PROVE ProtocolInvariant'
    BY <2>1, StartTurnKeeps
  <2>2. ASSUME NEW mode \in TamperModes, SendFinalReveal(r, mode)
        PROVE  ProtocolInvariant'
    BY <2>2, SendFinalRevealKeeps
  <2>3. CASE FailCommitPhase(r) \/ FailRevealPhase(r) \/ OwnActionIllegal(r)
    BY <2>3, FailTurnKeeps DEF FailCommitPhase, FailRevealPhase, OwnActionIllegal
  <2>4. CASE SendReveal(r)
    BY <2>4, SendRevealKeeps
  <2>5. CASE FinishTurn(r)
    BY <2>5, FinishTurnKeeps
  <2>6. CASE \/ ConditionHolds(r) \/ ConditionExpires(r) \/ ReceiveReply(r)
             \/ AttemptFails(r) \/ EndMatch(r) \/ Shutdown(r)
    BY <2>6, QuietKeeps
  <2> QED
    BY <1>1, <2>1, <2>2, <2>3, <2>4, <2>5, <2>6 DEF LocalStep
<1>2. ASSUME NEW r \in Role, NEW req \in requests, Handle(r, req)
      PROVE  ProtocolInvariant'
  <2>1. CASE SuppressDuplicate(r, req) \/ OnFinalReveal(r, req) \/ Reject(r, req)
    BY <2>1, QuietHandleKeeps
  <2>2. CASE BufferIfEarly(r, req)
    BY <2>2, BufferKeeps
  <2>3. CASE OnCommit(r, req)
    BY <2>3, OnCommitKeeps
  <2>4. CASE OnReveal(r, req)
    BY <2>4, OnRevealKeeps
  <2> QED
    BY <1>2, <2>1, <2>2, <2>3, <2>4 DEF Handle
<1>3. ASSUME NEW r \in Role, Crash(r) PROVE ProtocolInvariant'
  BY <1>3, QuietKeeps
<1>4. CASE UNCHANGED vars
  <2>1. /\ UNCHANGED coordinatorVars
        /\ UNCHANGED <<pc, pending, requests, call, waited>>
        /\ TypeOK'
    BY <1>4 DEF vars, coordinatorVars, ProtocolInvariant, TypeOK
  <2> QED
    BY <2>1, MessagesAreHonest, QuietFrame
<1> QED
  BY <1>1, <1>2, <1>3, <1>4 DEF Next, Delivery

(* What a peer holds of a turn is what the other peer sealed for it. *)
THEOREM ProtocolSafe == Spec => []ProtocolInvariant
BY InitEstablishes, StepKeeps, PTL DEF Spec

(* Every variable keeps its type. *)
THEOREM TypeCorrect == Spec => []TypeOK
<1>1. ProtocolInvariant => TypeOK
  BY DEF ProtocolInvariant
<1> QED
  BY <1>1, ProtocolSafe, PTL

(* No peer reveals its move before its opponent is bound to one, whatever   *)
(* is lost, repeated, late or crashed.                                      *)
THEOREM NoPeerLooksFirst == Spec => []NoFreeLook
<1>1. ProtocolInvariant => NoFreeLook
  BY Opponents DEF ProtocolInvariant, PeerInvariant, CurrentIsNext, MessagesHonest,
         IsHonest, BothCommitted, NoFreeLook
<1> QED
  BY <1>1, ProtocolSafe, PTL

(* What a peer recorded for a finished turn is what its opponent sealed.    *)
THEOREM PeersAgreeOnMoves == Spec => []MovesAgree
<1>1. ProtocolInvariant => MovesAgree
  BY DEF ProtocolInvariant, PeerInvariant, CompletedAgrees, MovesAgree
<1> QED
  BY <1>1, ProtocolSafe, PTL

(* The peers stay within one finished turn of each other. *)
THEOREM PeersStayInLockStep == Spec => []LockStep
<1>1. ASSUME ProtocolInvariant, NEW r \in Role
      PROVE  Len(completed[r]) <= Len(completed[Opponent(r)]) + 1
  <2>1. /\ TypeOK /\ PeerInvariant(r) /\ PeerInvariant(Opponent(r))
        /\ Opponent(r) \in Role
    BY <1>1, Opponents DEF ProtocolInvariant
  <2>2. /\ completed[r] \in Seq(TurnCrypto)
        /\ completed[Opponent(r)] \in Seq(TurnCrypto)
        /\ sealed[Opponent(r)] \in Seq(SealedRecord)
    BY <2>1 DEF TypeOK
  <2>3. Len(completed[r]) > 0 => Len(completed[r]) \in DOMAIN sealed[Opponent(r)]
    BY <2>1, <2>2 DEF PeerInvariant, CompletedAgrees, HoldsCommitmentOf, HasSealed
  <2>4. Len(sealed[Opponent(r)]) <= Len(completed[Opponent(r)]) + 1
    BY <2>1, <2>2 DEF PeerInvariant, SealedInOrder
  <2> QED
    BY <2>2, <2>3, <2>4
<1>2. ProtocolInvariant => LockStep
  BY <1>1 DEF LockStep
<1> QED
  BY <1>2, ProtocolSafe, PTL

-----------------------------------------------------------------------------
(* The two peers implement the simultaneous-move game. *)

LEMMA MovesAsSequence ==
  ASSUME NEW n \in Nat, NEW f \in [1..n -> Action]
  PROVE  f \in Seq(Action) /\ Len(f) = n
BY LenProperties, SeqDef

LEMMA OneMoveMore ==
  ASSUME NEW n \in Nat, NEW f \in Seq(Action), Len(f) = n, NEW a \in Action,
         NEW g \in [1..n + 1 -> Action],
         \A t \in 1..n : g[t] = f[t],
         g[n + 1] = a
  PROVE  g = Append(f, a)
<1>1. /\ Append(f, a) \in Seq(Action)
      /\ Len(Append(f, a)) = n + 1
      /\ \A t \in 1..n : Append(f, a)[t] = f[t]
      /\ Append(f, a)[n + 1] = a
  OBVIOUS
<1>2. \A t \in 1..n + 1 : t \in 1..n \/ t = n + 1
  OBVIOUS
<1>3. \A t \in 1..n + 1 : g[t] = Append(f, a)[t]
  BY <1>1, <1>2
<1>4. g \in Seq(Action) /\ Len(g) = n + 1
  BY MovesAsSequence
<1> QED
  BY <1>1, <1>3, <1>4, SeqEqual

LEMMA MovesTyped ==
  ASSUME ProtocolInvariant, NEW r \in Role
  PROVE  /\ chosenMoves[r] \in Seq(Action) /\ Len(chosenMoves[r]) = Len(sealed[r])
         /\ seenMoves[r] \in Seq(Action) /\ Len(seenMoves[r]) = Len(completed[r])
<1>1. TypeOK /\ PeerInvariant(r) /\ Opponent(r) \in Role
  BY Opponents DEF ProtocolInvariant
<1>2. /\ sealed[r] \in Seq(SealedRecord) /\ completed[r] \in Seq(TurnCrypto)
      /\ sealed[Opponent(r)] \in Seq(SealedRecord)
  BY <1>1 DEF TypeOK
<1>3. \A t \in 1..Len(sealed[r]) : sealed[r][t].action \in Action
  <2>1. \A t \in 1..Len(sealed[r]) : sealed[r][t] \in SealedRecord
    BY <1>2, ElementOfSeq
  <2> QED
    BY <2>1 DEF SealedRecord
<1>4. \A t \in 1..Len(completed[r]) : completed[r][t].opponentReveal.action \in Action
  <2>1. SUFFICES ASSUME NEW t \in 1..Len(completed[r])
                 PROVE  completed[r][t].opponentReveal.action \in Action
    OBVIOUS
  <2>2. /\ t \in DOMAIN sealed[Opponent(r)]
        /\ completed[r][t].opponentReveal = RevealMapping(sealed[Opponent(r)][t])
    BY <1>1, <1>2 DEF PeerInvariant, CompletedAgrees, HoldsCommitmentOf, HasSealed
  <2>3. sealed[Opponent(r)][t] \in SealedRecord
    BY <1>2, <2>2, ElementOfSeq
  <2> QED
    BY <2>2, <2>3 DEF RevealMapping, SealedRecord
<1>5. chosenMoves[r] = [t \in 1..Len(sealed[r]) |-> sealed[r][t].action]
  BY <1>2 DEF chosenMoves
<1>6. seenMoves[r] =
        [t \in 1..Len(completed[r]) |-> completed[r][t].opponentReveal.action]
  BY <1>2 DEF seenMoves
<1>7. Len(sealed[r]) \in Nat /\ Len(completed[r]) \in Nat
  BY <1>2
<1>8. chosenMoves[r] \in Seq(Action) /\ Len(chosenMoves[r]) = Len(sealed[r])
  <2>1. chosenMoves[r] \in [1..Len(sealed[r]) -> Action]
    BY <1>3, <1>5
  <2> QED
    BY <1>7, <2>1, MovesAsSequence
<1>9. seenMoves[r] \in Seq(Action) /\ Len(seenMoves[r]) = Len(completed[r])
  <2>1. seenMoves[r] \in [1..Len(completed[r]) -> Action]
    BY <1>4, <1>6
  <2> QED
    BY <1>7, <2>1, MovesAsSequence
<1> QED
  BY <1>8, <1>9

LEMMA InitMaps == Init => Game!Init
<1> SUFFICES ASSUME Init PROVE Game!Init
  OBVIOUS
<1>1. \A r \in Role : sealed[r] = <<>> /\ completed[r] = <<>>
  BY DEF Init
<1>2. ProtocolInvariant
  BY InitEstablishes
<1>3. \A r \in Role : chosenMoves[r] = <<>> /\ seenMoves[r] = <<>>
  BY <1>1, <1>2, MovesTyped, EmptySeq
<1>4. chosenMoves = [r \in Role |-> <<>>] /\ seenMoves = [r \in Role |-> <<>>]
  BY <1>3 DEF chosenMoves, seenMoves
<1> QED
  BY <1>4 DEF Game!Init

LEMMA StartTurnMaps ==
  ASSUME ProtocolInvariant, ProtocolInvariant', NEW r \in Role, NEW a \in Action,
         StartTurn(r, a)
  PROVE  Game!Choose(r, a)
<1> DEFINE rec == [turn |-> Len(completed[r]) + 1, role |-> r, action |-> a,
                   nonce |-> "issued"]
<1>1. TypeOK /\ TypeOK' /\ PeerInvariant(r)
  BY DEF ProtocolInvariant
<1>2. /\ pc[r] \in {"ready", "turn_complete"}
      /\ Len(completed[r]) + 1 <= MaxTurn
      /\ UNCHANGED completed
      /\ sealed' = [sealed EXCEPT ![r] = Append(@, rec)]
  BY DEF StartTurn
<1>3. Len(sealed[r]) = Len(completed[r])
  BY <1>1, <1>2 DEF PeerInvariant, SealedInOrder
<1>4. rec.action = a
  OBVIOUS
<1> HIDE DEF rec
<1>5. /\ sealed[r] \in Seq(SealedRecord) /\ completed[r] \in Seq(TurnCrypto)
      /\ sealed'[r] = Append(sealed[r], rec)
      /\ \A s \in Role : s # r => sealed'[s] = sealed[s]
  BY <1>1, <1>2 DEF TypeOK
<1>6. /\ Len(chosenMoves[r]) = Len(sealed[r])
      /\ Len(seenMoves[r]) = Len(completed[r])
      /\ chosenMoves[r] \in Seq(Action)
  BY MovesTyped
<1>7. chosenMoves'[r] = Append(chosenMoves[r], a)
  <2> DEFINE n == Len(sealed[r])
  <2>1. n \in Nat
    BY <1>5
  <2>2. /\ Len(sealed'[r]) = n + 1
        /\ DOMAIN sealed'[r] = 1..n + 1
        /\ DOMAIN sealed[r] = 1..n
        /\ \A t \in 1..n : sealed'[r][t] = sealed[r][t]
        /\ sealed'[r][n + 1] = rec
    BY <1>5
  <2>3. Len(chosenMoves[r]) = n
    BY <1>6
  <2>4. /\ chosenMoves'[r] = [t \in 1..n + 1 |-> sealed'[r][t].action]
        /\ chosenMoves[r] = [t \in 1..n |-> sealed[r][t].action]
    BY <2>2 DEF chosenMoves
  <2> HIDE DEF n
  <2>5. \A t \in 1..n : chosenMoves'[r][t] = chosenMoves[r][t]
    BY <2>1, <2>2, <2>4
  <2>6. chosenMoves'[r][n + 1] = a
    BY <1>4, <2>1, <2>2, <2>4
  <2>7. chosenMoves'[r] \in [1..n + 1 -> Action]
    <3>1. \A t \in 1..n + 1 : t \in 1..n \/ t = n + 1
      BY <2>1
    <3>2. \A t \in 1..n : chosenMoves[r][t] \in Action
      BY <1>6, <2>3, ElementOfSeq
    <3> QED
      BY <2>4, <2>5, <2>6, <3>1, <3>2
  <2> QED
    BY <1>6, <2>1, <2>3, <2>5, <2>6, <2>7, OneMoveMore
<1>8. chosenMoves' = [chosenMoves EXCEPT ![r] = Append(@, a)]
  BY <1>5, <1>7 DEF chosenMoves
<1>9. UNCHANGED seenMoves
  BY <1>2 DEF seenMoves
<1>10. Len(chosenMoves[r]) < MaxTurn
  BY <1>2, <1>3, <1>5, <1>6, ConstantsAssumption
<1> QED
  BY <1>3, <1>6, <1>8, <1>9, <1>10 DEF Game!Choose

LEMMA FinishTurnMaps ==
  ASSUME ProtocolInvariant, NEW r \in Role, FinishTurn(r)
  PROVE  Game!See(r, Opponent(r))
<1> DEFINE c == current[r]
           o == Opponent(r)
           n == Len(completed[r])
           move == chosenMoves[o][n + 1]
<1>1. TypeOK /\ PeerInvariant(r) /\ o \in Role
  BY Opponents DEF ProtocolInvariant
<1>2. pc[r] = "waiting_for_opponent_reveal" /\ waited[r] = "arrived"
  BY <1>1 DEF FinishTurn, Settled, RevealPhaseFails, TypeOK
<1>3. /\ c # None
      /\ c.opponentReveal # None
      /\ BothCommitted(c)
      /\ CurrentIsNext(r, c)
  BY <1>1, <1>2 DEF PeerInvariant, PhaseKnows, RevealAllowed
<1>4. /\ UNCHANGED sealed
      /\ completed' = [completed EXCEPT ![r] = Append(@, c)]
  BY DEF FinishTurn
<1>5. /\ c \in TurnCrypto /\ completed[r] \in Seq(TurnCrypto) /\ n \in Nat
      /\ sealed[r] \in Seq(SealedRecord) /\ sealed[o] \in Seq(SealedRecord)
      /\ completed'[r] = Append(completed[r], c)
      /\ \A s \in Role : s # r => completed'[s] = completed[s]
  BY <1>1, <1>3, <1>4 DEF TypeOK
<1>6. /\ n + 1 \in DOMAIN sealed[r]
      /\ n + 1 \in DOMAIN sealed[o]
      /\ c.opponentReveal.action = sealed[o][n + 1].action
  BY <1>3 DEF CurrentIsNext, BothCommitted, HasSealed, RevealMapping
<1>7. /\ Len(seenMoves[r]) = n /\ seenMoves[r] \in Seq(Action)
      /\ Len(chosenMoves[r]) = Len(sealed[r])
      /\ Len(chosenMoves[o]) = Len(sealed[o]) /\ chosenMoves[o] \in Seq(Action)
  BY <1>1, MovesTyped
<1>8. n < Len(chosenMoves[r]) /\ n < Len(chosenMoves[o])
  BY <1>5, <1>6, <1>7
<1>9. move = c.opponentReveal.action /\ move \in Action
  <2>1. move = sealed[o][n + 1].action
    BY <1>1, <1>6 DEF chosenMoves
  <2>2. n + 1 \in 1..Len(chosenMoves[o])
    BY <1>5, <1>7, <1>8
  <2> QED
    BY <1>6, <1>7, <2>1, <2>2, ElementOfSeq
<1> HIDE DEF c, n, move
<1>10. seenMoves'[r] = Append(seenMoves[r], move)
  <2>1. /\ DOMAIN completed'[r] = 1..n + 1
        /\ DOMAIN completed[r] = 1..n
        /\ \A t \in 1..n : completed'[r][t] = completed[r][t]
        /\ completed'[r][n + 1] = c
    BY <1>5 DEF n
  <2>2. /\ seenMoves'[r] = [t \in 1..n + 1 |-> completed'[r][t].opponentReveal.action]
        /\ seenMoves[r] = [t \in 1..n |-> completed[r][t].opponentReveal.action]
    BY <2>1 DEF seenMoves
  <2>3. \A t \in 1..n : seenMoves'[r][t] = seenMoves[r][t]
    BY <1>5, <2>1, <2>2
  <2>4. seenMoves'[r][n + 1] = move
    BY <1>5, <1>9, <2>1, <2>2
  <2>5. seenMoves'[r] \in [1..n + 1 -> Action]
    <3>1. \A t \in 1..n + 1 : t \in 1..n \/ t = n + 1
      BY <1>5
    <3>2. Len(seenMoves[r]) = n /\ \A t \in 1..n : seenMoves[r][t] \in Action
      BY <1>7, ElementOfSeq DEF n
    <3> QED
      BY <1>9, <2>2, <2>3, <2>4, <3>1, <3>2
  <2> QED
    BY <1>5, <1>7, <1>9, <2>3, <2>4, <2>5, OneMoveMore DEF n
<1>11. seenMoves' = [seenMoves EXCEPT ![r] = Append(@, move)]
  BY <1>5, <1>10 DEF seenMoves
<1>12. UNCHANGED chosenMoves
  BY <1>4 DEF chosenMoves
<1> QED
  BY <1>7, <1>8, <1>11, <1>12 DEF Game!See, move

LEMMA OtherStepsStutter ==
  ASSUME UNCHANGED <<sealed, completed>>
  PROVE  UNCHANGED Game!vars
BY DEF Game!vars, chosenMoves, seenMoves

LEMMA StepMaps ==
  ProtocolInvariant /\ ProtocolInvariant' /\ [Next]_vars => [Game!Next]_(Game!vars)
<1> SUFFICES ASSUME ProtocolInvariant, ProtocolInvariant', [Next]_vars
             PROVE  [Game!Next]_(Game!vars)
  OBVIOUS
<1>1. ASSUME NEW r \in Role, LocalStep(r) PROVE [Game!Next]_(Game!vars)
  <2>1. ASSUME NEW a \in Action, StartTurn(r, a) PROVE Game!Next
    BY <2>1, StartTurnMaps DEF Game!Next
  <2>2. CASE FinishTurn(r)
    BY <2>2, FinishTurnMaps, Opponents DEF Game!Next
  <2>3. CASE UNCHANGED <<sealed, completed>>
    BY <2>3, OtherStepsStutter
  <2>4. \/ \E a \in Action : StartTurn(r, a)
        \/ FinishTurn(r)
        \/ UNCHANGED <<sealed, completed>>
    BY <1>1 DEF LocalStep, ConditionHolds, ConditionExpires, ReceiveReply,
        AttemptFails, FailCommitPhase, FailRevealPhase, SendReveal,
        OwnActionIllegal, FailTurn, SendFinalReveal, EndMatch, Shutdown,
        coordinatorVars
  <2> QED
    BY <2>1, <2>2, <2>3, <2>4
<1>2. ASSUME NEW r \in Role, Delivery(r) \/ Crash(r)
      PROVE  [Game!Next]_(Game!vars)
  <2>1. UNCHANGED <<sealed, completed>>
    BY <1>2 DEF Delivery, Handle, SuppressDuplicate, BufferIfEarly, OnCommit,
        OnReveal, OnFinalReveal, Reject, Crash, coordinatorVars
  <2> QED
    BY <2>1, OtherStepsStutter
<1>3. CASE UNCHANGED vars
  BY <1>3, OtherStepsStutter DEF vars
<1> QED
  BY <1>1, <1>2, <1>3 DEF Next

(* The commit-reveal turn, with losses, repeats, timeouts and crashes,      *)
(* implements the simultaneous-move game.                                   *)
THEOREM TurnImplementsGame == Spec => ImplementsGame
<1>1. ProtocolInvariant /\ ProtocolInvariant' /\ [Next]_vars
        => [Game!Next]_(Game!vars)
  BY StepMaps
<1> QED
  BY <1>1, InitMaps, ProtocolSafe, PTL DEF Spec, ImplementsGame, Game!Spec
=============================================================================
