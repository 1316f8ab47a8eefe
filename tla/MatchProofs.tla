----------------------------- MODULE MatchProofs -----------------------------
(* Proofs about a whole match of PeerTurn, from the first commitment to the *)
(* audit, for every choice of its constants.                                *)
EXTENDS PeerTurnProofs, FiniteSetTheorems

(* How far the two peers' histories may be apart. *)
LEMMA Pacing ==
  ASSUME ProtocolInvariant, NEW r \in Role
  PROVE  /\ Len(completed[r]) \in Nat /\ DOMAIN completed[r] = 1..Len(completed[r])
         /\ Len(sealed[r]) \in Nat /\ DOMAIN sealed[r] = 1..Len(sealed[r])
         /\ Len(completed[r]) <= Len(sealed[r])
         /\ Len(sealed[r]) <= Len(completed[r]) + 1
         /\ Len(completed[r]) <= Len(sealed[Opponent(r)])
<1>1. /\ TypeOK /\ PeerInvariant(r) /\ Opponent(r) \in Role
  BY Opponents DEF ProtocolInvariant
<1>2. /\ completed[r] \in Seq(TurnCrypto) /\ sealed[r] \in Seq(SealedRecord)
      /\ sealed[Opponent(r)] \in Seq(SealedRecord)
  BY <1>1 DEF TypeOK
<1>3. Len(completed[r]) > 0 => Len(completed[r]) \in DOMAIN sealed[Opponent(r)]
  BY <1>1, <1>2 DEF PeerInvariant, CompletedAgrees, HoldsCommitmentOf, HasSealed
<1> QED
  BY <1>1, <1>2, <1>3 DEF PeerInvariant, SealedInOrder

(* An honest commitment is determined by its sender and its turn. *)
LEMMA HonestCommit ==
  ASSUME NEW r \in Role, NEW m \in Message, m.type = "commit", IsHonest(r, m)
  PROVE  /\ m = CommitOf(r, m.turn)
         /\ m.turn \in Nat
         /\ HasSealed(r, m.turn)
         /\ m.commitment = Commitment(sealed[r][m.turn])
<1>1. m \in CommitMessage
  BY DEF Message, TurnMessage, RevealMessage, FinalRevealMessage
<1> QED
  BY <1>1 DEF CommitMessage, CommitOf, IsHonest

(* A finished or opened turn holds the commitment that was sealed for it. *)
LEMMA MatchParts ==
  ASSUME MatchInvariant, NEW r \in Role
  PROVE  /\ ProtocolInvariant /\ TypeOK /\ PeerInvariant(r)
         /\ TrailInvariant(r) /\ CommitInvariant(r)
         /\ Opponent(r) \in Role
         /\ PeerInvariant(Opponent(r))
         /\ TrailInvariant(Opponent(r)) /\ CommitInvariant(Opponent(r))
BY Opponents DEF MatchInvariant, ProtocolInvariant

-----------------------------------------------------------------------------
(* What the steps do that neither seal nor finish a turn. *)

LEMMA QuietEffects ==
  ASSUME TypeOK, NEW r \in Role,
         \/ ConditionHolds(r) \/ ConditionExpires(r) \/ ReceiveReply(r)
         \/ AttemptFails(r) \/ EndMatch(r) \/ Shutdown(r) \/ Crash(r)
  PROVE  /\ UNCHANGED <<coordinatorVars, registry, audited>>
         /\ \A s \in Role : pending'[s] \subseteq pending[s]
         /\ \A s \in Role : pc'[s] = pc[s] \/ pc'[s] \in Exited
         /\ \A s \in Role : call'[s] # None =>
              call[s] # None /\ call'[s].msg = call[s].msg
         /\ \A req \in requests' :
              \/ req \in requests
              \/ call[req.sender] # None /\ req.msg = call[req.sender].msg
<1>1. UNCHANGED <<coordinatorVars, registry, audited>>
  BY DEF ConditionHolds, ConditionExpires, ReceiveReply, AttemptFails, EndMatch,
         Shutdown, Crash, inboxVars
<1>2. \A s \in Role : pending'[s] \subseteq pending[s]
  BY DEF ConditionHolds, ConditionExpires, ReceiveReply, AttemptFails,
         EndMatch, Shutdown, Crash, inboxVars, TypeOK
<1>3. \A s \in Role : pc'[s] = pc[s] \/ pc'[s] \in Exited
  BY DEF ConditionHolds, ConditionExpires, ReceiveReply, AttemptFails,
         EndMatch, Shutdown, Crash, TypeOK, Exited
<1>4. \A s \in Role : call'[s] # None => call[s] # None /\ call'[s].msg = call[s].msg
  <2>1. CASE ReceiveReply(r)
    BY <2>1 DEF ReceiveReply, IsOpen, TypeOK, Call
  <2>2. CASE AttemptFails(r)
    <3>1. call[r] \in Call /\ call[r] # None
      BY <2>2 DEF AttemptFails, IsOpen, TypeOK
    <3>2. call'[r].msg = call[r].msg
      <4>1. CASE call' = [call EXCEPT ![r] =
                            [call[r] EXCEPT !.attempt = call[r].attempt + 1]]
        BY <3>1, <4>1 DEF TypeOK, Call
      <4>2. CASE call' = [call EXCEPT ![r] =
                            [call[r] EXCEPT !.status = "unacknowledged"]]
        BY <3>1, <4>2 DEF TypeOK, Call
      <4> QED
        BY <2>2, <4>1, <4>2 DEF AttemptFails
    <3>3. \A s \in Role : s # r => call'[s] = call[s]
      BY <2>2 DEF AttemptFails, TypeOK
    <3> QED
      BY <3>1, <3>2, <3>3
  <2>3. CASE EndMatch(r)
    BY <2>3 DEF EndMatch, LeaveWait, TypeOK
  <2> QED
    BY <2>1, <2>2, <2>3 DEF ConditionHolds, ConditionExpires, Shutdown, Crash,
                            callVars
<1>5. \A req \in requests' :
        \/ req \in requests
        \/ call[req.sender] # None /\ req.msg = call[req.sender].msg
  <2>1. CASE requests' \subseteq requests
    BY <2>1
  <2>2. CASE AttemptFails(r)
    BY <2>2 DEF AttemptFails, Attempt, IsOpen
  <2> QED
    BY <2>1, <2>2 DEF ConditionHolds, ConditionExpires, ReceiveReply, EndMatch,
                      Shutdown, StopServing, Crash
<1> QED
  BY <1>1, <1>2, <1>3, <1>4, <1>5

LEMMA HandleEffects ==
  ASSUME TypeOK, NEW r \in Role, NEW req \in requests, Handle(r, req)
  PROVE  /\ UNCHANGED <<pc, completed, sealed, trail, waited, call>>
         /\ requests' \subseteq requests
         /\ req.sender = Opponent(r)
         /\ req.msg \in Message
         /\ \A s \in Role : registry[s] \subseteq registry'[s]
<1>1. /\ UNCHANGED <<pc, completed, sealed, trail, waited, call>>
      /\ Arrives(r, req)
      /\ UNCHANGED registry \/ Register(r, req.msg)
  BY DEF Handle, SuppressDuplicate, BufferIfEarly, OnCommit, OnReveal,
         OnFinalReveal, Reject, coordinatorVars, inboxVars
<1>2. requests' \subseteq requests /\ req.sender = Opponent(r)
  BY <1>1 DEF Arrives
<1>3. req.msg \in Message
  BY DEF TypeOK, Request
<1>4. \A s \in Role : registry[s] \subseteq registry'[s]
  BY <1>1, ZenonT(60) DEF Register, TypeOK
<1> QED
  BY <1>1, <1>2, <1>3, <1>4

LEMMA FailTurnEffects ==
  ASSUME TypeOK, NEW r \in Role, FailTurn(r)
  PROVE  /\ UNCHANGED <<completed, sealed, trail, registry, reply, audited, requests>>
         /\ \A s \in Role : /\ pending'[s] \subseteq pending[s]
                            /\ pc'[s] = pc[s] \/ pc'[s] \in Exited
                            /\ current'[s] = current[s] \/ current'[s] = None
                            /\ call'[s] # None => call'[s] = call[s]
BY DEF FailTurn, LeaveWait, TypeOK, Exited
-----------------------------------------------------------------------------
(* The trail and the audit. *)

(* A peer that discloses has left its turns for good: what must be shown of *)
(* a step that does not touch the trail of s.                               *)
LEMMA TrailFrame ==
  ASSUME MatchInvariant, NEW s \in Role,
         completed'[s] = completed[s],
         trail'[s] = trail[s],
         Len(sealed'[s]) <= MaxTurn,
         \A t \in DOMAIN trail[s] : sealed'[s][t] = sealed[s][t],
         pc[s] \in {"final_reveal"} \cup Exited
           => pc'[s] \in {"final_reveal"} \cup Exited,
         audited'[Opponent(s)] =>
           audited[Opponent(s)] \/ (Disclosing(s) /\ TrailMatchesSealed(s)),
         call'[s] # None =>
           \/ call'[s].msg.type # "final_reveal"
           \/ call[s] # None /\ call'[s].msg = call[s].msg,
         \A req \in requests' : req.sender = s =>
           \/ req \in requests
           \/ req.msg.type # "final_reveal"
           \/ call[s] # None /\ req.msg = call[s].msg
  PROVE  TrailInvariant(s)'
<1>1. TrailInvariant(s)
  BY DEF MatchInvariant
<1>2. Disclosing(s) => Disclosing(s)'
  BY DEF Disclosing
<1>3. \A m : Discloses(s, m) => Discloses(s, m)'
  BY <1>2 DEF Discloses
<1>4. (call[s] # None => Discloses(s, call[s].msg))'
  BY <1>1, <1>3 DEF TrailInvariant, Discloses
<1>5. (\A req \in requests : req.sender = s => Discloses(s, req.msg))'
  BY <1>1, <1>3 DEF TrailInvariant, Discloses
<1>6. (audited[Opponent(s)] => Disclosing(s) /\ TrailMatchesSealed(s))'
  BY <1>1, <1>2 DEF TrailInvariant, TrailMatchesSealed
<1> QED
  BY <1>1, <1>4, <1>5, <1>6 DEF TrailInvariant

(* The comparison of verify_final_reveal leaves no record different from    *)
(* the one that was sealed.                                                 *)
LEMMA AuditCompares ==
  ASSUME MatchInvariant, NEW r \in Role, NEW req \in requests, OnFinalReveal(r, req)
  PROVE  Disclosing(Opponent(r)) /\ TrailMatchesSealed(Opponent(r))
<1> DEFINE o == Opponent(r)
<1>1. /\ req.sender = o /\ req.msg.type = "final_reveal"
      /\ FinalRevealAccepted(r, req.msg)
  BY DEF OnFinalReveal, Arrives
<1>2. TrailInvariant(o) /\ PeerInvariant(r) /\ TypeOK /\ o \in Role
  BY MatchParts
<1>3. Disclosing(o) /\ req.msg.records = trail[o]
  BY <1>1, <1>2 DEF TrailInvariant, Discloses
<1>4. ASSUME NEW t \in DOMAIN trail[o] PROVE trail[o][t] = sealed[o][t]
  <2>1. /\ trail[o][t].turn = t
        /\ VerifyRecord(r, trail[o][t])
    BY <1>1, <1>2, <1>3, <1>4 DEF FinalRevealAccepted, TrailInvariant
  <2>2. /\ t \in DOMAIN completed[r]
        /\ Commitment(trail[o][t]) = completed[r][t].opponentCommitment
    BY <2>1 DEF VerifyRecord
  <2>3. /\ completed[r][t].turn = t
        /\ HoldsCommitmentOf(completed[r][t], o)
    BY <1>2, <2>2 DEF PeerInvariant, CompletedAgrees
  <2>4. Commitment(trail[o][t]) = Commitment(sealed[o][t])
    BY <2>2, <2>3 DEF HoldsCommitmentOf
  <2> QED
    BY <2>4 DEF Commitment
<1> QED
  BY <1>3, <1>4 DEF TrailMatchesSealed

(* The steps that touch neither trails nor histories. *)
LEMMA UntouchedTrails ==
  ASSUME MatchInvariant,
         UNCHANGED <<completed, trail, sealed>>,
         \A s \in Role : pc[s] \in {"final_reveal"} \cup Exited
                           => pc'[s] \in {"final_reveal"} \cup Exited,
         \A s \in Role : audited'[Opponent(s)] =>
           audited[Opponent(s)] \/ (Disclosing(s) /\ TrailMatchesSealed(s)),
         \A s \in Role : call'[s] # None =>
           call[s] # None /\ call'[s].msg = call[s].msg,
         \A req \in requests' :
           \/ req \in requests
           \/ call[req.sender] # None /\ req.msg = call[req.sender].msg
  PROVE  \A s \in Role : TrailInvariant(s)'
<1> SUFFICES ASSUME NEW s \in Role PROVE TrailInvariant(s)'
  OBVIOUS
<1>1. Len(sealed[s]) <= MaxTurn
  BY DEF MatchInvariant, TrailInvariant
<1> QED
  BY <1>1, TrailFrame

LEMMA QuietTrail ==
  ASSUME MatchInvariant, NEW r \in Role,
         \/ ConditionHolds(r) \/ ConditionExpires(r) \/ ReceiveReply(r)
         \/ AttemptFails(r) \/ EndMatch(r) \/ Shutdown(r) \/ Crash(r)
  PROVE  \A s \in Role : TrailInvariant(s)'
<1>1. TypeOK
  BY DEF MatchInvariant, ProtocolInvariant
<1>2. UNCHANGED <<completed, trail, sealed, audited>>
  BY <1>1, QuietEffects DEF coordinatorVars
<1>3. \A s \in Role : pc[s] \in {"final_reveal"} \cup Exited
                        => pc'[s] \in {"final_reveal"} \cup Exited
  BY <1>1, QuietEffects
<1>4. /\ \A s \in Role : call'[s] # None =>
           call[s] # None /\ call'[s].msg = call[s].msg
      /\ \A req \in requests' :
           \/ req \in requests
           \/ call[req.sender] # None /\ req.msg = call[req.sender].msg
  BY <1>1, QuietEffects
<1> QED
  BY <1>2, <1>3, <1>4, UntouchedTrails

LEMMA FailTurnTrail ==
  ASSUME MatchInvariant, NEW r \in Role, FailTurn(r)
  PROVE  \A s \in Role : TrailInvariant(s)'
<1>1. TypeOK
  BY DEF MatchInvariant, ProtocolInvariant
<1>2. /\ UNCHANGED <<completed, sealed, trail, audited, requests>>
      /\ \A s \in Role : /\ pc'[s] = pc[s] \/ pc'[s] \in Exited
                         /\ call'[s] # None => call'[s] = call[s]
  BY <1>1, FailTurnEffects
<1> QED
  BY <1>2, UntouchedTrails

LEMMA HandleTrail ==
  ASSUME MatchInvariant, NEW r \in Role, NEW req \in requests, Handle(r, req)
  PROVE  \A s \in Role : TrailInvariant(s)'
<1>1. TypeOK
  BY DEF MatchInvariant, ProtocolInvariant
<1>2. /\ UNCHANGED <<pc, completed, sealed, trail, waited, call>>
      /\ requests' \subseteq requests
  BY <1>1, HandleEffects
<1>3. \A s \in Role : audited'[Opponent(s)] =>
         audited[Opponent(s)] \/ (Disclosing(s) /\ TrailMatchesSealed(s))
  <2>1. CASE OnFinalReveal(r, req)
    <3>1. Disclosing(Opponent(r)) /\ TrailMatchesSealed(Opponent(r))
      BY <2>1, AuditCompares
    <3>2. \A q \in Role : audited'[q] => audited[q] \/ q = r
      BY <1>1, <2>1 DEF OnFinalReveal, TypeOK
    <3> QED
      BY <3>1, <3>2, Opponents
  <2>2. CASE UNCHANGED audited
    BY <2>2
  <2> QED
    BY <2>1, <2>2 DEF Handle, SuppressDuplicate, BufferIfEarly, OnCommit, OnReveal,
                      Reject
<1> QED
  BY <1>2, <1>3, UntouchedTrails

LEMMA StartTurnTrail ==
  ASSUME MatchInvariant, NEW r \in Role, NEW a \in Action, StartTurn(r, a)
  PROVE  \A s \in Role : TrailInvariant(s)'
<1>1. /\ ProtocolInvariant /\ TypeOK
      /\ \A s \in Role : TrailInvariant(s) /\ PeerInvariant(s)
  BY DEF MatchInvariant, ProtocolInvariant
<1>2. PICK t \in Nat : t = Len(completed[r]) + 1
  BY <1>1 DEF TypeOK
<1> DEFINE rec == [turn |-> t, role |-> r, action |-> a, nonce |-> "issued"]
           m == [type |-> "commit", turn |-> t, commitment |-> Commitment(rec)]
<1>3. /\ pc[r] \in {"ready", "turn_complete"}
      /\ t <= MaxTurn
      /\ UNCHANGED <<completed, trail, audited>>
      /\ StartCall(r, m)
      /\ sealed' = [sealed EXCEPT ![r] = Append(@, rec)]
      /\ pc' = [pc EXCEPT ![r] = "waiting_for_opponent_commit"]
  BY <1>2 DEF StartTurn
<1>4. Len(sealed[r]) + 1 = t
  BY <1>1, <1>2, <1>3 DEF PeerInvariant, SealedInOrder
<1>5. rec \in SealedRecord /\ m.type = "commit"
  BY <1>1, <1>2, RecordTyped
<1> HIDE DEF rec, m
<1>6. /\ \A s \in Role : \A i \in DOMAIN sealed[s] : sealed'[s][i] = sealed[s][i]
      /\ Len(sealed'[r]) = t
      /\ \A s \in Role : s # r => sealed'[s] = sealed[s]
  <2>1. /\ sealed[r] \in Seq(SealedRecord)
        /\ sealed'[r] = Append(sealed[r], rec)
        /\ \A s \in Role : s # r => sealed'[s] = sealed[s]
    BY <1>1, <1>3 DEF TypeOK
  <2> QED
    BY <1>4, <1>5, <2>1, SealedGrows
<1> SUFFICES ASSUME NEW s \in Role PROVE TrailInvariant(s)'
  OBVIOUS
<1>7. \A i \in DOMAIN trail[s] : sealed'[s][i] = sealed[s][i]
  <2>1. Len(trail[s]) <= Len(sealed[s]) /\ trail[s] \in Seq(SealedRecord)
    BY <1>1, Pacing DEF TrailInvariant, TypeOK
  <2>2. DOMAIN trail[s] \subseteq DOMAIN sealed[s]
    BY <1>1, <2>1, Pacing
  <2> QED
    BY <1>6, <2>2
<1>8. Len(sealed'[s]) <= MaxTurn
  BY <1>1, <1>3, <1>6 DEF TrailInvariant
<1>9. pc[s] \in {"final_reveal"} \cup Exited => pc'[s] = pc[s]
  BY <1>1, <1>3 DEF TypeOK, Exited
<1>10. /\ call'[s] # None =>
            call'[s].msg.type # "final_reveal" \/ call'[s] = call[s]
       /\ \A req \in requests' : req \in requests \/ req.msg.type # "final_reveal"
  BY <1>1, <1>3, <1>5, StartCallHonest
<1> QED
  BY <1>3, <1>7, <1>8, <1>9, <1>10, TrailFrame

LEMMA SendRevealTrail ==
  ASSUME MatchInvariant, NEW r \in Role, SendReveal(r)
  PROVE  \A s \in Role : TrailInvariant(s)'
<1> DEFINE m == [type |-> "reveal", turn |-> current[r].turn,
                 sealed |-> RevealMapping(current[r].localRecord)]
<1>1. TypeOK /\ \A s \in Role : TrailInvariant(s)
  BY DEF MatchInvariant, ProtocolInvariant
<1>2. /\ pc[r] = "waiting_for_opponent_commit"
      /\ UNCHANGED <<completed, sealed, trail, audited>>
      /\ StartCall(r, m)
      /\ pc' = [pc EXCEPT ![r] = "waiting_for_opponent_reveal"]
  BY DEF SendReveal, Settled
<1>3. m.type = "reveal"
  OBVIOUS
<1> HIDE DEF m
<1> SUFFICES ASSUME NEW s \in Role PROVE TrailInvariant(s)'
  OBVIOUS
<1>4. pc[s] \in {"final_reveal"} \cup Exited => pc'[s] = pc[s]
  BY <1>1, <1>2 DEF TypeOK, Exited
<1>5. /\ call'[s] # None =>
            call'[s].msg.type # "final_reveal" \/ call'[s] = call[s]
      /\ \A req \in requests' : req \in requests \/ req.msg.type # "final_reveal"
  BY <1>1, <1>2, <1>3, StartCallHonest
<1>6. Len(sealed[s]) <= MaxTurn
  BY <1>1 DEF TrailInvariant
<1> QED
  BY <1>2, <1>4, <1>5, <1>6, TrailFrame

(* A peer in a turn has disclosed nothing, and nobody has audited it. *)
LEMMA NotYetDisclosed ==
  ASSUME MatchInvariant, NEW r \in Role, pc[r] \notin {"final_reveal"} \cup Exited
  PROVE  /\ call[r] # None => call[r].msg.type # "final_reveal"
         /\ \A req \in requests : req.sender = r => req.msg.type # "final_reveal"
         /\ ~audited[Opponent(r)]
BY DEF MatchInvariant, TrailInvariant, Discloses, Disclosing

LEMMA FinishTurnTrail ==
  ASSUME MatchInvariant, NEW r \in Role, FinishTurn(r)
  PROVE  \A s \in Role : TrailInvariant(s)'
<1> DEFINE c == current[r]
<1>1. /\ ProtocolInvariant /\ TypeOK
      /\ \A s \in Role : TrailInvariant(s) /\ PeerInvariant(s)
  BY DEF MatchInvariant, ProtocolInvariant
<1>2. /\ pc[r] = "waiting_for_opponent_reveal"
      /\ UNCHANGED <<sealed, audited, requests>>
      /\ completed' = [completed EXCEPT ![r] = Append(@, c)]
      /\ trail' = [trail EXCEPT ![r] = Append(@, c.localRecord)]
      /\ pc' = [pc EXCEPT ![r] = "turn_complete"]
      /\ call' = [call EXCEPT ![r] = None]
  BY DEF FinishTurn, Settled, LeaveWait
<1>3. RevealAllowed(r) /\ CurrentIsNext(r, c) /\ c \in TurnCrypto
  BY <1>1, <1>2 DEF PeerInvariant, PhaseKnows, RevealAllowed, TypeOK
<1>4. /\ c.localRecord \in SealedRecord
      /\ c.localRecord.turn = Len(completed[r]) + 1
  <2>1. c.localRecord # None /\ c.turn = Len(completed[r]) + 1
    BY <1>3 DEF RevealAllowed, BothCommitted, CurrentIsNext
  <2>2. c.localRecord = sealed[r][c.turn] /\ c.turn \in DOMAIN sealed[r]
    BY <1>3, <2>1 DEF CurrentIsNext, HasSealed
  <2> QED
    BY <1>1, <1>3, <2>1, <2>2 DEF PeerInvariant, SealedInOrder, TurnCrypto
<1> HIDE DEF c
<1> SUFFICES ASSUME NEW s \in Role PROVE TrailInvariant(s)'
  OBVIOUS
<1>5. CASE s = r
  <2>1. /\ trail[r] \in Seq(SealedRecord) /\ completed[r] \in Seq(TurnCrypto)
        /\ Len(trail[r]) = Len(completed[r])
        /\ \A t \in DOMAIN trail[r] : trail[r][t].turn = t
        /\ Len(sealed[r]) <= MaxTurn
    BY <1>1 DEF TypeOK, TrailInvariant
  <2>2. /\ trail'[r] = Append(trail[r], c.localRecord)
        /\ completed'[r] = Append(completed[r], c)
        /\ pc'[r] = "turn_complete" /\ call'[r] = None
    BY <1>1, <1>2 DEF TypeOK
  <2>3. /\ Len(trail'[r]) = Len(completed'[r])
        /\ \A t \in DOMAIN trail'[r] : trail'[r][t].turn = t
    BY <1>3, <1>4, <2>1, <2>2
  <2>4. /\ \A req \in requests : req.sender = r => req.msg.type # "final_reveal"
        /\ ~audited[Opponent(r)]
    BY <1>2, NotYetDisclosed DEF Exited
  <2> QED
    BY <1>2, <1>5, <2>1, <2>2, <2>3, <2>4 DEF TrailInvariant, Discloses
<1>6. CASE s # r
  <2>1. /\ completed'[s] = completed[s] /\ trail'[s] = trail[s]
        /\ pc'[s] = pc[s] /\ call'[s] = call[s]
    BY <1>1, <1>2, <1>6 DEF TypeOK
  <2>2. Len(sealed'[s]) <= MaxTurn
    BY <1>1, <1>2 DEF TrailInvariant
  <2> QED
    BY <1>2, <2>1, <2>2, TrailFrame
<1> QED
  BY <1>5, <1>6

(* --tamper changes one record, but neither how many there are nor which    *)
(* turn each is of.                                                         *)
LEMMA CorruptedKeepsTurns ==
  ASSUME NEW records \in Seq(SealedRecord), NEW mode \in TamperModes
  PROVE  /\ Len(Corrupted(records, mode)) = Len(records)
         /\ DOMAIN Corrupted(records, mode) = DOMAIN records
         /\ \A t \in DOMAIN records :
              Corrupted(records, mode)[t].turn = records[t].turn
<1>1. \A rec \in SealedRecord : CorruptedRecord(rec, mode).turn = rec.turn
  BY DEF SealedRecord, CorruptedRecord
<1>2. CASE records = <<>> \/ mode = "none"
  BY <1>2 DEF Corrupted
<1>3. CASE records # <<>> /\ mode # "none"
  <2>1. Corrupted(records, mode) =
           [records EXCEPT ![1] = CorruptedRecord(records[1], mode)]
    BY <1>3 DEF Corrupted
  <2>2. DOMAIN records = 1..Len(records) /\ Len(records) \in Nat
    OBVIOUS
  <2>3. DOMAIN Corrupted(records, mode) = DOMAIN records
    BY <2>1
  <2>4. Corrupted(records, mode) \in Seq(SealedRecord)
    BY CorruptedTyped
  <2>5. Len(Corrupted(records, mode)) = Len(records)
    BY <2>2, <2>3, <2>4
  <2>6. ASSUME NEW t \in DOMAIN records
        PROVE  Corrupted(records, mode)[t].turn = records[t].turn
    BY <1>1, <2>1, <2>2, <2>6
  <2> QED
    BY <2>3, <2>5, <2>6
<1> QED
  BY <1>2, <1>3

LEMMA SendFinalRevealTrail ==
  ASSUME MatchInvariant, NEW r \in Role, NEW mode \in TamperModes,
         SendFinalReveal(r, mode)
  PROVE  \A s \in Role : TrailInvariant(s)'
<1> DEFINE m == [type |-> "final_reveal", records |-> Corrupted(trail[r], mode)]
<1>1. TypeOK /\ \A s \in Role : TrailInvariant(s)
  BY DEF MatchInvariant, ProtocolInvariant
<1>2. /\ pc[r] = "turn_complete"
      /\ Len(completed[r]) = MaxTurn
      /\ trail' = [trail EXCEPT ![r] = Corrupted(@, mode)]
      /\ StartCall(r, m)
      /\ pc' = [pc EXCEPT ![r] = "final_reveal"]
      /\ UNCHANGED <<completed, sealed, audited>>
  BY DEF SendFinalReveal
<1>3. m.records = Corrupted(trail[r], mode)
  OBVIOUS
<1> HIDE DEF m
<1>4. /\ call'[r].msg = m
      /\ \A s \in Role : s # r => call'[s] = call[s]
      /\ \A req \in requests' :
           req \in requests \/ (req.sender = r /\ req.msg = m)
  BY <1>1, <1>2, StartCallHonest
<1> SUFFICES ASSUME NEW s \in Role PROVE TrailInvariant(s)'
  OBVIOUS
<1>5. CASE s = r
  <2>1. trail[r] \in Seq(SealedRecord) /\ TrailInvariant(r)
    BY <1>1 DEF TypeOK
  <2>2. trail'[r] = Corrupted(trail[r], mode) /\ pc'[r] = "final_reveal"
    BY <1>1, <1>2 DEF TypeOK
  <2>3. /\ Len(trail'[r]) = Len(completed'[r])
        /\ \A t \in DOMAIN trail'[r] : trail'[r][t].turn = t
    BY <1>2, <2>1, <2>2, CorruptedKeepsTurns DEF TrailInvariant
  <2>4. Disclosing(r)' /\ m.records = trail'[r]
    BY <1>2, <1>3, <2>2 DEF Disclosing
  <2>5. /\ \A req \in requests : req.sender = r => req.msg.type # "final_reveal"
        /\ ~audited[Opponent(r)]
    BY <1>2, NotYetDisclosed DEF Exited
  <2>6. (\A req \in requests : req.sender = r => Discloses(r, req.msg))'
    BY <1>4, <2>4, <2>5 DEF Discloses
  <2>7. (call[r] # None => Discloses(r, call[r].msg))'
    BY <1>4, <2>4 DEF Discloses
  <2>8. (Len(sealed[r]) <= MaxTurn /\ ~audited[Opponent(r)])'
    BY <1>2, <2>1, <2>5 DEF TrailInvariant
  <2> QED
    BY <1>5, <2>3, <2>6, <2>7, <2>8 DEF TrailInvariant
<1>6. CASE s # r
  <2>1. trail'[s] = trail[s] /\ pc'[s] = pc[s]
    BY <1>1, <1>2, <1>6 DEF TypeOK
  <2>2. Len(sealed'[s]) <= MaxTurn
    BY <1>1, <1>2 DEF TrailInvariant
  <2>3. \A req \in requests' : req.sender = s => req \in requests
    BY <1>4, <1>6
  <2> QED
    BY <1>2, <1>4, <1>6, <2>1, <2>2, <2>3, TrailFrame
<1> QED
  BY <1>5, <1>6

-----------------------------------------------------------------------------
(* The commitments each peer has answered. *)

(* What must be shown of a step that opens or finishes no turn of s and     *)
(* holds no further message back.                                           *)
LEMMA CommitFrame ==
  ASSUME MatchInvariant, NEW s \in Role,
         UNCHANGED sealed,
         completed'[s] = completed[s],
         registry[s] \subseteq registry'[s],
         pending'[s] \subseteq pending[s],
         \/ current'[s] = None
         \/ /\ current[s] # None
            /\ current'[s].turn = current[s].turn
            /\ current'[s].opponentCommitment = current[s].opponentCommitment
         \/ current'[s] = current[s],
         (call[s] # None /\ call[s].msg.type = "commit"
            => call[s].status # "rejected" /\ reply[s] # "rejected")'
  PROVE  CommitInvariant(s)'
<1>1. CommitInvariant(s)
  BY DEF MatchInvariant
<1>2. \A t : CommitOf(Opponent(s), t)' = CommitOf(Opponent(s), t)
  BY DEF CommitOf
<1>3. (\A t \in DOMAIN completed[s] : CommitOf(Opponent(s), t) \in registry[s])'
  BY <1>1, <1>2 DEF CommitInvariant
<1>4. (current[s] # None /\ current[s].opponentCommitment # None
         => CommitOf(Opponent(s), current[s].turn) \in registry[s])'
  BY <1>1 DEF CommitInvariant, CommitOf
<1>5. (\A m \in pending[s] : HeldForLater(s, m))'
  BY <1>1 DEF CommitInvariant, HeldForLater
<1> QED
  BY <1>3, <1>4, <1>5 DEF CommitInvariant

(* Held back is at most the opponent's next commitment. *)
LEMMA HeldIsNext ==
  ASSUME MatchInvariant, NEW r \in Role, NEW m \in pending[r]
  PROVE  /\ m = CommitOf(Opponent(r), Len(sealed[r]) + 1)
         /\ m.turn = Len(sealed[r]) + 1
<1> DEFINE o == Opponent(r)
<1>1. /\ ProtocolInvariant /\ TypeOK /\ o \in Role /\ Opponent(o) = r
      /\ PeerInvariant(o) /\ CommitInvariant(r)
  BY MatchParts, Opponents
<1>2. m \in Message /\ m.type = "commit" /\ m.turn > Len(sealed[r])
  BY <1>1 DEF TypeOK, Message, CommitInvariant, HeldForLater
<1>3. IsHonest(o, m)
  BY <1>1 DEF PeerInvariant, MessagesHonest
<1>4. m = CommitOf(o, m.turn) /\ m.turn \in DOMAIN sealed[o]
  BY <1>1, <1>2, <1>3, HonestCommit DEF HasSealed
<1>5. m.turn = Len(sealed[r]) + 1
  <2>1. Len(sealed[o]) <= Len(sealed[r]) + 1 /\ Len(sealed[r]) \in Nat
    BY <1>1, Pacing
  <2>2. m.turn \in 1..Len(sealed[o]) /\ Len(sealed[o]) \in Nat
    BY <1>1, <1>4, Pacing
  <2> QED
    BY <1>2, <2>1, <2>2
<1> QED
  BY <1>4, <1>5

(* A commitment that is new to r is one r accepts: it belongs to the turn   *)
(* r is in, or to the next one while r holds nothing else back.             *)
LEMMA NewCommitAccepted ==
  ASSUME MatchInvariant, NEW r \in Role, NEW req \in requests,
         req.sender = Opponent(r), req.msg.type = "commit", IsNew(r, req)
  PROVE  /\ Accepted(r, req.msg)
         /\ req.msg = CommitOf(Opponent(r), req.msg.turn)
         /\ HasSealed(Opponent(r), req.msg.turn)
         /\ req.msg.turn \in {Len(completed[r]) + 1, Len(completed[r]) + 2}
         /\ req.msg.turn = Len(completed[r]) + 1 /\ current[r] # None =>
              current[r].opponentCommitment = None
         /\ req.msg.turn = Len(completed[r]) + 2 =>
              pending[r] = {} /\ Len(sealed[r]) = Len(completed[r]) + 1
<1> DEFINE o == Opponent(r)
           m == req.msg
           t == m.turn
           n == Len(completed[r])
<1>1. /\ ProtocolInvariant /\ TypeOK /\ o \in Role /\ Opponent(o) = r
      /\ PeerInvariant(r) /\ PeerInvariant(o) /\ CommitInvariant(r)
  BY MatchParts, Opponents
<1>2. m \in Message /\ m.type = "commit" /\ m \notin registry[r]
  BY <1>1 DEF TypeOK, Request, IsNew
<1>3. IsHonest(o, m)
  BY <1>1, MessagesAreHonest
<1>4. /\ m = CommitOf(o, t) /\ t \in Nat /\ HasSealed(o, t)
      /\ m.commitment = Commitment(sealed[o][t])
  BY <1>1, <1>2, <1>3, HonestCommit
<1> HIDE DEF m, t
<1>5. /\ n \in Nat /\ DOMAIN completed[r] = 1..n
      /\ Len(sealed[r]) \in Nat /\ Len(sealed[r]) <= n + 1 /\ n <= Len(sealed[r])
  BY <1>1, Pacing
<1>6. t >= 1 /\ t <= Len(sealed[r]) + 1
  <2>1. Len(sealed[o]) <= Len(completed[o]) + 1 /\ Len(completed[o]) <= Len(sealed[r])
        /\ DOMAIN sealed[o] = 1..Len(sealed[o]) /\ Len(sealed[o]) \in Nat
        /\ Len(completed[o]) \in Nat
    BY <1>1, Pacing
  <2> QED
    BY <1>4, <1>5, <2>1 DEF HasSealed
<1>7. t > n
  BY <1>1, <1>2, <1>4, <1>5, <1>6 DEF CommitInvariant
<1>8. ExpectedTurn(r) = n + 1
  BY <1>1 DEF ExpectedTurn, PeerInvariant, CurrentIsNext
<1>9. CASE t = n + 1
  <2>1. current[r] # None =>
          current[r].turn = t /\ current[r].opponentCommitment = None
    BY <1>1, <1>2, <1>4, <1>9 DEF PeerInvariant, CurrentIsNext, CommitInvariant
  <2>2. CommitAccepted(r, m)
    BY <1>7, <2>1 DEF CommitAccepted, CanBegin, BeginTurn, OpenTurn, t
  <2>3. ~Early(r, m)
    BY <1>5, <1>8, <1>9 DEF Early, t
  <2>4. Accepted(r, m)
    BY <1>2, <2>2, <2>3 DEF Accepted
  <2> QED
    BY <1>4, <1>5, <1>9, <2>1, <2>4 DEF m, t
<1>10. CASE t # n + 1
  <2>1. t = n + 2 /\ Len(sealed[r]) = n + 1
    BY <1>4, <1>5, <1>6, <1>7, <1>10
  <2>2. pending[r] = {}
    <3>1. ASSUME NEW x \in pending[r] PROVE FALSE
      <4>1. x = m
        BY <1>1, <1>4, <2>1, <3>1, HeldIsNext
      <4> QED
        BY <1>1, <1>2, <3>1, <4>1 DEF CommitInvariant, HeldForLater
    <3> QED
      BY <3>1
  <2>3. BufferAccepted(r, m)
    BY <1>5, <1>8, <2>1, <2>2, FS_EmptySet, ConstantsAssumption
    DEF BufferAccepted, t
  <2>4. Early(r, m)
    BY <1>5, <1>8, <2>1 DEF Early, t
  <2>5. Accepted(r, m)
    BY <1>2, <2>3, <2>4 DEF Accepted
  <2> QED
    BY <1>4, <2>1, <2>2, <2>5, <1>5 DEF m, t
<1> QED
  BY <1>9, <1>10

(* The call of s is not a commitment that was refused. *)
CommitUnrefused(s) ==
  call[s] # None /\ call[s].msg.type = "commit"
    => call[s].status # "rejected" /\ reply[s] # "rejected"

LEMMA QuietCallFine ==
  ASSUME MatchInvariant, NEW r \in Role, NEW s \in Role,
         \/ ConditionHolds(r) \/ ConditionExpires(r) \/ ReceiveReply(r)
         \/ AttemptFails(r) \/ EndMatch(r) \/ Shutdown(r) \/ Crash(r)
  PROVE  CommitUnrefused(s)'
<1>1. TypeOK /\ CommitUnrefused(s)
  BY DEF MatchInvariant, ProtocolInvariant, CommitInvariant, CommitUnrefused
<1>2. CASE s # r
  <2>1. call'[s] = call[s] /\ reply'[s] = reply[s]
    BY <1>1, <1>2 DEF ConditionHolds, ConditionExpires, ReceiveReply, AttemptFails,
                      EndMatch, LeaveWait, Shutdown, Crash, callVars,
                      coordinatorVars, TypeOK
  <2> QED
    BY <1>1, <2>1 DEF CommitUnrefused
<1>3. CASE s = r /\ ReceiveReply(r)
  <2>1. call[r] \in Call /\ call'[r] = [call[r] EXCEPT !.status = reply[r]]
        /\ reply'[r] = None /\ call[r] # None
    BY <1>1, <1>3 DEF ReceiveReply, IsOpen, TypeOK
  <2>2. call'[r].msg = call[r].msg /\ call'[r].status = reply[r]
    BY <2>1 DEF Call
  <2> QED
    BY <1>1, <1>3, <2>1, <2>2, NoneAssumption DEF CommitUnrefused
<1>4. CASE s = r /\ AttemptFails(r)
  <2>1. call[r] \in Call /\ call[r] # None /\ call[r].status = "open"
        /\ reply'[r] = None
    BY <1>1, <1>4 DEF AttemptFails, IsOpen, TypeOK
  <2>2. call'[r].status \in {"open", "unacknowledged"}
    <3>1. CASE call' = [call EXCEPT ![r] =
                          [call[r] EXCEPT !.attempt = call[r].attempt + 1]]
      BY <1>1, <2>1, <3>1 DEF TypeOK, Call
    <3>2. CASE call' = [call EXCEPT ![r] =
                          [call[r] EXCEPT !.status = "unacknowledged"]]
      BY <1>1, <2>1, <3>2 DEF TypeOK, Call
    <3> QED
      BY <1>4, <3>1, <3>2 DEF AttemptFails
  <2> QED
    BY <1>4, <2>1, <2>2, NoneAssumption DEF CommitUnrefused
<1>5. CASE s = r /\ EndMatch(r)
  <2>1. call'[r] = None
    BY <1>1, <1>5 DEF EndMatch, LeaveWait, TypeOK
  <2> QED
    BY <1>5, <2>1 DEF CommitUnrefused
<1>6. CASE UNCHANGED <<call, reply>>
  BY <1>1, <1>6 DEF CommitUnrefused
<1> QED
  BY <1>2, <1>3, <1>4, <1>5, <1>6
  DEF ConditionHolds, ConditionExpires, Shutdown, Crash, callVars

LEMMA QuietCommits ==
  ASSUME MatchInvariant, NEW r \in Role,
         \/ ConditionHolds(r) \/ ConditionExpires(r) \/ ReceiveReply(r)
         \/ AttemptFails(r) \/ EndMatch(r) \/ Shutdown(r) \/ Crash(r)
  PROVE  \A s \in Role : CommitInvariant(s)'
<1> SUFFICES ASSUME NEW s \in Role PROVE CommitInvariant(s)'
  OBVIOUS
<1>1. TypeOK
  BY DEF MatchInvariant, ProtocolInvariant
<1>2. UNCHANGED <<current, completed, sealed, registry>>
  BY <1>1, QuietEffects DEF coordinatorVars
<1>3. pending'[s] \subseteq pending[s]
  BY <1>1, QuietEffects
<1>4. CommitUnrefused(s)'
  BY QuietCallFine
<1> QED
  BY <1>2, <1>3, <1>4, CommitFrame DEF CommitUnrefused

(* A commitment is answered, if at all, with ok. *)
LEMMA HandleCallFine ==
  ASSUME MatchInvariant, NEW r \in Role, NEW req \in requests, Handle(r, req),
         NEW s \in Role
  PROVE  CommitUnrefused(s)'
<1>1. TypeOK /\ CommitUnrefused(s)
  BY DEF MatchInvariant, ProtocolInvariant, CommitInvariant, CommitUnrefused
<1>2. UNCHANGED call /\ req.sender = Opponent(r)
  BY <1>1, HandleEffects
<1>3. CASE Reject(r, req)
  <2>1. req.msg.type # "commit"
    BY <1>2, <1>3, NewCommitAccepted DEF Reject
  <2>2. reply'[s] = reply[s] \/ (call[s] # None /\ call[s].msg = req.msg)
    BY <1>1, <1>3 DEF Reject, Answer, IsOpen, TypeOK
  <2> QED
    BY <1>1, <1>2, <2>1, <2>2 DEF CommitUnrefused
<1>4. CASE Answer(req, "ok")
  <2>1. reply'[s] = reply[s] \/ reply'[s] = "ok"
    BY <1>1, <1>4 DEF Answer, TypeOK
  <2> QED
    BY <1>1, <1>2, <2>1 DEF CommitUnrefused
<1> QED
  BY <1>3, <1>4 DEF Handle, SuppressDuplicate, BufferIfEarly, OnCommit, OnReveal,
                    OnFinalReveal

(* What a handler of r leaves of the other peer. *)
LEMMA OtherHandles ==
  ASSUME MatchInvariant, NEW r \in Role, NEW req \in requests, Handle(r, req),
         NEW s \in Role, s # r
  PROVE  CommitInvariant(s)'
<1>1. TypeOK
  BY DEF MatchInvariant, ProtocolInvariant
<1>2. UNCHANGED <<completed, sealed>> /\ registry[s] \subseteq registry'[s]
  BY <1>1, HandleEffects
<1>3. current'[s] = current[s] /\ pending'[s] = pending[s]
  BY <1>1 DEF Handle, SuppressDuplicate, BufferIfEarly, OnCommit, OnReveal,
              OnFinalReveal, Reject, coordinatorVars, inboxVars, TypeOK
<1>4. CommitUnrefused(s)'
  BY HandleCallFine
<1> QED
  BY <1>2, <1>3, <1>4, CommitFrame DEF CommitUnrefused

LEMMA PlainHandleCommits ==
  ASSUME MatchInvariant, NEW r \in Role, NEW req \in requests,
         \/ SuppressDuplicate(r, req) \/ OnReveal(r, req)
         \/ OnFinalReveal(r, req) \/ Reject(r, req)
  PROVE  CommitInvariant(r)'
<1>1. TypeOK /\ Handle(r, req)
  BY DEF MatchInvariant, ProtocolInvariant, Handle
<1>2. UNCHANGED <<completed, sealed>> /\ registry[r] \subseteq registry'[r]
  BY <1>1, HandleEffects
<1>3. UNCHANGED pending
  BY DEF SuppressDuplicate, OnReveal, OnFinalReveal, Reject, inboxVars
<1>4. CommitUnrefused(r)'
  BY <1>1, HandleCallFine
<1>5. \/ /\ current[r] # None
         /\ current'[r].turn = current[r].turn
         /\ current'[r].opponentCommitment = current[r].opponentCommitment
      \/ current'[r] = current[r]
  <2>1. CASE OnReveal(r, req)
    <3>1. current[r] # None /\ current[r] \in TurnCrypto
          /\ current'[r] = [current[r] EXCEPT !.opponentReveal = req.msg.sealed]
      BY <1>1, <2>1 DEF OnReveal, RevealAccepted, TypeOK
    <3> QED
      BY <3>1 DEF TurnCrypto
  <2>2. CASE UNCHANGED current
    BY <2>2
  <2> QED
    BY <2>1, <2>2 DEF SuppressDuplicate, OnFinalReveal, Reject, coordinatorVars
<1> QED
  BY <1>2, <1>3, <1>4, <1>5, CommitFrame DEF CommitUnrefused

LEMMA OnCommitCommits ==
  ASSUME MatchInvariant, NEW r \in Role, NEW req \in requests, OnCommit(r, req)
  PROVE  CommitInvariant(r)'
<1> DEFINE m == req.msg
           o == Opponent(r)
           n == Len(completed[r])
           b == BeginTurn(r, m.turn)
           c == [b EXCEPT !.opponentCommitment = m.commitment]
<1>1. /\ ProtocolInvariant /\ TypeOK /\ o \in Role /\ Handle(r, req)
      /\ PeerInvariant(r) /\ CommitInvariant(r)
  BY MatchParts DEF Handle
<1>2. /\ UNCHANGED <<completed, sealed, pending>>
      /\ req.sender = o /\ m.type = "commit" /\ IsNew(r, req) /\ ~Early(r, m)
      /\ current' = [current EXCEPT ![r] = c]
      /\ registry' = [registry EXCEPT ![r] = @ \cup {m}]
  BY DEF OnCommit, Arrives, Register
<1>3. n \in Nat /\ Len(sealed[r]) \in Nat /\ n <= Len(sealed[r])
  BY <1>1, Pacing
<1>4. m = CommitOf(o, m.turn) /\ m.turn \in {n + 1, n + 2}
  BY <1>2, NewCommitAccepted
<1>5. m.turn = n + 1
  <2>1. ExpectedTurn(r) = n + 1
    BY <1>1 DEF ExpectedTurn, PeerInvariant, CurrentIsNext
  <2> QED
    BY <1>2, <1>3, <1>4, <2>1 DEF Early
<1>6. b \in TurnCrypto /\ b.turn = n + 1
  BY <1>1, <1>3, <1>5, BeginTurnTyped DEF BeginTurn, OpenTurn, PeerInvariant,
                                         CurrentIsNext
<1>7. current'[r] = c /\ c.turn = n + 1
  BY <1>1, <1>2, <1>6 DEF TypeOK, TurnCrypto
<1>8. registry'[r] = registry[r] \cup {m}
  BY <1>1, <1>2 DEF TypeOK
<1>9. \A t : CommitOf(o, t)' = CommitOf(o, t)
  BY <1>2 DEF CommitOf
<1>10. m \notin registry[r]
  BY <1>2 DEF IsNew
<1> HIDE DEF m, b, c
<1>11. (\A t \in DOMAIN completed[r] : CommitOf(o, t) \in registry[r])'
  BY <1>1, <1>2, <1>8, <1>9 DEF CommitInvariant
<1>12. (current[r] # None /\ current[r].opponentCommitment # None
          => CommitOf(o, current[r].turn) \in registry[r])'
  BY <1>4, <1>5, <1>7, <1>8, <1>9
<1>13. ASSUME NEW x \in pending[r] PROVE HeldForLater(r, x)'
  <2>1. HeldForLater(r, x)
    BY <1>1 DEF CommitInvariant
  <2>2. x = CommitOf(o, Len(sealed[r]) + 1) /\ x.turn = Len(sealed[r]) + 1
    BY HeldIsNext
  <2>3. Len(sealed[r]) # n
    BY <1>4, <1>5, <1>10, <2>1, <2>2 DEF HeldForLater
  <2> QED
    BY <1>2, <1>3, <1>7, <1>8, <2>1, <2>2, <2>3 DEF HeldForLater
<1>14. (\A x \in pending[r] : HeldForLater(r, x))'
  BY <1>2, <1>13
<1>15. CommitUnrefused(r)'
  BY <1>1, HandleCallFine
<1> QED
  BY <1>11, <1>12, <1>14, <1>15 DEF CommitInvariant, CommitUnrefused

LEMMA BufferCommits ==
  ASSUME MatchInvariant, NEW r \in Role, NEW req \in requests, BufferIfEarly(r, req)
  PROVE  CommitInvariant(r)'
<1> DEFINE m == req.msg
           o == Opponent(r)
           n == Len(completed[r])
<1>1. /\ ProtocolInvariant /\ TypeOK /\ o \in Role /\ Opponent(o) = r
      /\ Handle(r, req) /\ PeerInvariant(r) /\ CommitInvariant(r)
  BY MatchParts, Opponents DEF Handle
<1>2. /\ UNCHANGED <<current, completed, sealed>>
      /\ req.sender = o /\ IsNew(r, req) /\ Early(r, m) /\ m.type # "final_reveal"
      /\ pending' = [pending EXCEPT ![r] = @ \cup {m}]
      /\ registry' = [registry EXCEPT ![r] = @ \cup {m}]
  BY DEF BufferIfEarly, Arrives, Register, coordinatorVars
<1>3. /\ n \in Nat /\ Len(sealed[r]) \in Nat /\ Len(sealed[r]) <= n + 1
      /\ DOMAIN sealed[r] = 1..Len(sealed[r])
  BY <1>1, Pacing
<1>4. ExpectedTurn(r) = n + 1
  BY <1>1 DEF ExpectedTurn, PeerInvariant, CurrentIsNext
<1>5. m.type = "commit"
  <2>1. m \in TurnMessage /\ IsHonest(o, m)
    BY <1>1, <1>2, MessagesAreHonest
    DEF TypeOK, Request, Message, FinalRevealMessage
  <2>2. m.type = "reveal" => m.turn \in 1..Len(sealed[r])
    BY <1>1, <1>3, <2>1 DEF IsHonest, HasSealed
  <2> QED
    BY <1>2, <1>3, <1>4, <2>1, <2>2
    DEF Early, TurnMessage, CommitMessage, RevealMessage
<1>6. m.turn = n + 2 => pending[r] = {} /\ Len(sealed[r]) = n + 1
  BY <1>2, <1>5, NewCommitAccepted
<1>7. m.turn = n + 2 /\ pending[r] = {} /\ Len(sealed[r]) = n + 1
  <2>1. m.turn \in {n + 1, n + 2}
    BY <1>2, <1>5, NewCommitAccepted
  <2>2. m.turn = n + 2
    BY <1>2, <1>3, <1>4, <2>1 DEF Early
  <2> QED
    BY <1>6, <2>1, <2>2
<1>8. pending'[r] = {m} /\ registry'[r] = registry[r] \cup {m}
  BY <1>1, <1>2, <1>7 DEF TypeOK
<1>9. \A t : CommitOf(o, t)' = CommitOf(o, t)
  BY <1>2 DEF CommitOf
<1>10. current[r] # None => current[r].turn = n + 1
  BY <1>1 DEF PeerInvariant, CurrentIsNext
<1> HIDE DEF m
<1>11. (\A t \in DOMAIN completed[r] : CommitOf(o, t) \in registry[r])'
  BY <1>1, <1>2, <1>8, <1>9 DEF CommitInvariant
<1>12. (current[r] # None /\ current[r].opponentCommitment # None
          => CommitOf(o, current[r].turn) \in registry[r])'
  BY <1>1, <1>2, <1>8, <1>9 DEF CommitInvariant
<1>13. (\A x \in pending[r] : HeldForLater(r, x))'
  BY <1>2, <1>3, <1>5, <1>7, <1>8, <1>10 DEF HeldForLater
<1>14. CommitUnrefused(r)'
  BY <1>1, HandleCallFine
<1> QED
  BY <1>11, <1>12, <1>13, <1>14 DEF CommitInvariant, CommitUnrefused

LEMMA HandleCommits ==
  ASSUME MatchInvariant, NEW r \in Role, NEW req \in requests, Handle(r, req)
  PROVE  \A s \in Role : CommitInvariant(s)'
<1>1. CommitInvariant(r)'
  BY PlainHandleCommits, OnCommitCommits, BufferCommits DEF Handle
<1> QED
  BY <1>1, OtherHandles

LEMMA FailTurnCommits ==
  ASSUME MatchInvariant, NEW r \in Role, FailTurn(r)
  PROVE  \A s \in Role : CommitInvariant(s)'
<1> SUFFICES ASSUME NEW s \in Role PROVE CommitInvariant(s)'
  OBVIOUS
<1>1. TypeOK /\ CommitInvariant(s)
  BY DEF MatchInvariant, ProtocolInvariant
<1>2. /\ UNCHANGED <<completed, sealed, registry, reply>>
      /\ pending'[s] \subseteq pending[s]
      /\ current'[s] = current[s] \/ current'[s] = None
      /\ call'[s] # None => call'[s] = call[s]
  BY <1>1, FailTurnEffects
<1>3. CommitUnrefused(s)'
  BY <1>1, <1>2 DEF CommitInvariant, CommitUnrefused
<1> QED
  BY <1>2, <1>3, CommitFrame DEF CommitUnrefused

(* A call that has just started was not answered yet. *)
LEMMA StartedCallFine ==
  ASSUME MatchInvariant, NEW r \in Role, NEW m, StartCall(r, m), NEW s \in Role
  PROVE  CommitUnrefused(s)'
<1>1. TypeOK /\ CommitUnrefused(s)
  BY DEF MatchInvariant, ProtocolInvariant, CommitInvariant, CommitUnrefused
<1>2. CASE s = r
  <2>1. call'[r] = [msg |-> m, attempt |-> 1, status |-> "open"] /\ reply'[r] = None
    BY <1>1 DEF StartCall, TypeOK
  <2> QED
    BY <1>2, <2>1, NoneAssumption DEF CommitUnrefused
<1>3. CASE s # r
  <2>1. call'[s] = call[s] /\ reply'[s] = reply[s]
    BY <1>1, <1>3 DEF StartCall, TypeOK
  <2> QED
    BY <1>1, <2>1 DEF CommitUnrefused
<1> QED
  BY <1>2, <1>3

LEMMA SendCommits ==
  ASSUME MatchInvariant, NEW r \in Role,
         SendReveal(r) \/ \E mode \in TamperModes : SendFinalReveal(r, mode)
  PROVE  \A s \in Role : CommitInvariant(s)'
<1> SUFFICES ASSUME NEW s \in Role PROVE CommitInvariant(s)'
  OBVIOUS
<1>1. TypeOK /\ PeerInvariant(r)
  BY DEF MatchInvariant, ProtocolInvariant
<1>2. UNCHANGED <<completed, sealed, registry, pending>>
  BY DEF SendReveal, SendFinalReveal, inboxVars
<1>3. CommitUnrefused(s)'
  BY StartedCallFine DEF SendReveal, SendFinalReveal
<1>4. \/ /\ current[s] # None
         /\ current'[s].turn = current[s].turn
         /\ current'[s].opponentCommitment = current[s].opponentCommitment
      \/ current'[s] = current[s]
  <2>1. CASE SendReveal(r) /\ s = r
    <3>1. current[r] # None
      BY <1>1, <2>1 DEF SendReveal, Settled, PeerInvariant, PhaseKnows, InTurn
    <3>2. current[r] \in TurnCrypto
          /\ current'[r] = [current[r] EXCEPT !.localRevealed = TRUE]
      BY <1>1, <2>1, <3>1 DEF SendReveal, TypeOK
    <3> QED
      BY <2>1, <3>1, <3>2 DEF TurnCrypto
  <2>2. CASE SendReveal(r) /\ s # r
    BY <1>1, <2>2 DEF SendReveal, TypeOK
  <2>3. CASE UNCHANGED current
    BY <2>3
  <2> QED
    BY <2>1, <2>2, <2>3 DEF SendFinalReveal
<1> QED
  BY <1>2, <1>3, <1>4, CommitFrame DEF CommitUnrefused

LEMMA FinishTurnCommits ==
  ASSUME MatchInvariant, NEW r \in Role, FinishTurn(r)
  PROVE  \A s \in Role : CommitInvariant(s)'
<1> DEFINE c == current[r]
           o == Opponent(r)
<1> SUFFICES ASSUME NEW s \in Role PROVE CommitInvariant(s)'
  OBVIOUS
<1>1. /\ ProtocolInvariant /\ TypeOK /\ CommitInvariant(s)
      /\ PeerInvariant(r) /\ CommitInvariant(r)
  BY DEF MatchInvariant, ProtocolInvariant
<1>2. /\ pc[r] = "waiting_for_opponent_reveal"
      /\ UNCHANGED <<sealed, pending, registry, reply>>
      /\ completed' = [completed EXCEPT ![r] = Append(@, c)]
      /\ current' = [current EXCEPT ![r] = None]
      /\ call' = [call EXCEPT ![r] = None]
  BY DEF FinishTurn, Settled, LeaveWait, inboxVars
<1>3. /\ c # None /\ c \in TurnCrypto
      /\ c.opponentCommitment # None
      /\ c.turn = Len(completed[r]) + 1
  BY <1>1, <1>2 DEF PeerInvariant, PhaseKnows, RevealAllowed, BothCommitted,
                    CurrentIsNext, TypeOK
<1>4. CommitUnrefused(s)'
  BY <1>1, <1>2 DEF CommitUnrefused, CommitInvariant, TypeOK
<1>5. CASE s # r
  <2>1. completed'[s] = completed[s] /\ current'[s] = current[s]
    BY <1>1, <1>2, <1>5 DEF TypeOK
  <2> QED
    BY <1>2, <1>4, <2>1, CommitFrame DEF CommitUnrefused
<1>6. CASE s = r
  <2>1. CommitOf(o, Len(completed[r]) + 1) \in registry[r]
    BY <1>1, <1>3 DEF CommitInvariant
  <2>2. completed'[r] = Append(completed[r], c) /\ completed[r] \in Seq(TurnCrypto)
        /\ current'[r] = None
    BY <1>1, <1>2 DEF TypeOK
  <2>3. DOMAIN completed'[r] = DOMAIN completed[r] \cup {Len(completed[r]) + 1}
    <3> HIDE DEF c
    <3> QED
      BY <1>3, <2>2
  <2>4. \A t : CommitOf(o, t)' = CommitOf(o, t)
    BY <1>2 DEF CommitOf
  <2>5. (\A t \in DOMAIN completed[r] : CommitOf(o, t) \in registry[r])'
    BY <1>1, <1>2, <2>1, <2>3, <2>4 DEF CommitInvariant
  <2>6. (\A x \in pending[r] : HeldForLater(r, x))'
    BY <1>1, <1>2, <2>2 DEF CommitInvariant, HeldForLater
  <2> QED
    BY <1>4, <1>6, <2>2, <2>5, <2>6 DEF CommitInvariant, CommitUnrefused
<1> QED
  BY <1>5, <1>6

(* What StartTurn finds held back is for the turn it starts. *)
LEMMA StartTurnCommits ==
  ASSUME MatchInvariant, NEW r \in Role, NEW a \in Action, StartTurn(r, a)
  PROVE  \A s \in Role : CommitInvariant(s)'
<1>0. PICK t \in Nat : t = Len(completed[r]) + 1
  BY DEF MatchInvariant, ProtocolInvariant, TypeOK
<1> DEFINE o == Opponent(r)
           rec == [turn |-> t, role |-> r, action |-> a, nonce |-> "issued"]
           m == [type |-> "commit", turn |-> t, commitment |-> Commitment(rec)]
           d == Drained(r, t)
           c == [d EXCEPT !.localRecord = rec]
<1>1. /\ ProtocolInvariant /\ TypeOK /\ o \in Role /\ Opponent(o) = r /\ o # r
      /\ \A s \in Role : PeerInvariant(s) /\ CommitInvariant(s)
  BY Opponents DEF MatchInvariant, ProtocolInvariant
<1>2. /\ pc[r] \in {"ready", "turn_complete"}
      /\ UNCHANGED <<completed, registry>>
      /\ StartCall(r, m)
      /\ current' = [current EXCEPT ![r] = c]
      /\ sealed' = [sealed EXCEPT ![r] = Append(@, rec)]
      /\ pending' = [pending EXCEPT ![r] = @ \ Held(r, t)]
  BY <1>0 DEF StartTurn
<1>3. Len(sealed[r]) + 1 = t
  BY <1>0, <1>1, <1>2 DEF PeerInvariant, SealedInOrder
<1>4. rec \in SealedRecord
  BY <1>0, <1>1, RecordTyped
<1>5. c.turn = t /\ c.opponentCommitment = d.opponentCommitment /\ d \in TurnCrypto
  <2>1. d \in TurnCrypto
    BY <1>1, DrainedTyped
  <2>2. BeginTurn(r, t) \in TurnCrypto /\ BeginTurn(r, t).turn = t
    BY <1>0, <1>1, BeginTurnTyped DEF BeginTurn, OpenTurn, PeerInvariant,
                                      CurrentIsNext
  <2>3. d.turn = t
    BY <2>2 DEF Drained, TurnCrypto
  <2> QED
    BY <2>1, <2>3, <1>4 DEF TurnCrypto
<1>6. d.opponentCommitment # None => CommitOf(o, t) \in registry[r]
  <2> DEFINE commits == {x \in Held(r, t) : x.type = "commit"}
  <2>1. CASE commits = {}
    <3>1. d = BeginTurn(r, t)
      BY <2>1 DEF Drained
    <3>2. current[r] # None => current[r].turn = t
      BY <1>0, <1>1 DEF PeerInvariant, CurrentIsNext
    <3> QED
      BY <1>1, <3>1, <3>2 DEF BeginTurn, OpenTurn, CommitInvariant
  <2>2. CASE commits # {}
    <3>1. PICK x \in commits : TRUE
      BY <2>2
    <3>2. x \in pending[r] /\ x.turn = t
      BY <3>1 DEF Held
    <3>3. x \in registry[r]
      BY <1>1, <3>2 DEF CommitInvariant, HeldForLater
    <3> QED
      BY <1>3, <3>2, <3>3, HeldIsNext
  <2> QED
    BY <2>1, <2>2
<1> HIDE DEF rec, m, d, c
<1>7. /\ \A s \in Role : \A i \in DOMAIN sealed[s] :
            i \in DOMAIN sealed'[s] /\ sealed'[s][i] = sealed[s][i]
      /\ \A s \in Role : s # r => sealed'[s] = sealed[s]
  <2>1. /\ sealed[r] \in Seq(SealedRecord)
        /\ sealed'[r] = Append(sealed[r], rec)
        /\ \A s \in Role : s # r => sealed'[s] = sealed[s]
    BY <1>1, <1>2 DEF TypeOK
  <2> QED
    BY <1>3, <1>4, <2>1, SealedGrows
<1>8. \A s \in Role : \A i \in DOMAIN sealed[s] : CommitOf(s, i)' = CommitOf(s, i)
  BY <1>7 DEF CommitOf
<1>9. \A s \in Role : CommitUnrefused(s)'
  BY <1>2, StartedCallFine
<1>10. CommitInvariant(r)'
  <2>1. current'[r] = c /\ pending'[r] = pending[r] \ Held(r, t)
    BY <1>1, <1>2 DEF TypeOK
  <2>2. pending'[r] = {}
    <3>1. \A x \in pending[r] : x \in Held(r, t)
      BY <1>3, HeldIsNext DEF Held
    <3> QED
      BY <2>1, <3>1
  <2>3. \A i : CommitOf(o, i)' = CommitOf(o, i)
    BY <1>1, <1>7 DEF CommitOf
  <2>4. (\A i \in DOMAIN completed[r] : CommitOf(o, i) \in registry[r])'
    BY <1>1, <1>2, <2>3 DEF CommitInvariant
  <2>5. (current[r] # None /\ current[r].opponentCommitment # None
           => CommitOf(o, current[r].turn) \in registry[r])'
    BY <1>2, <1>5, <1>6, <2>1, <2>3
  <2> QED
    BY <1>9, <2>2, <2>4, <2>5 DEF CommitInvariant, CommitUnrefused
<1>11. CommitInvariant(o)'
  <2>1. current'[o] = current[o] /\ pending'[o] = pending[o] /\ sealed'[o] = sealed[o]
    BY <1>1, <1>2, <1>7 DEF TypeOK
  <2>2. \A i \in DOMAIN completed[o] : i \in DOMAIN sealed[r]
    BY <1>1, Pacing
  <2>3. (\A i \in DOMAIN completed[o] : CommitOf(r, i) \in registry[o])'
    BY <1>1, <1>2, <1>8, <2>2 DEF CommitInvariant
  <2>4. current[o] # None /\ current[o].opponentCommitment # None
          => current[o].turn \in DOMAIN sealed[r]
    BY <1>1 DEF PeerInvariant, CurrentIsNext, HoldsCommitmentOf, HasSealed
  <2>5. (current[o] # None /\ current[o].opponentCommitment # None
           => CommitOf(r, current[o].turn) \in registry[o])'
    BY <1>1, <1>2, <1>8, <2>1, <2>4 DEF CommitInvariant
  <2>6. (\A x \in pending[o] : HeldForLater(o, x))'
    BY <1>1, <1>2, <2>1 DEF CommitInvariant, HeldForLater
  <2> QED
    BY <1>1, <1>9, <2>3, <2>5, <2>6 DEF CommitInvariant, CommitUnrefused
<1> QED
  BY <1>10, <1>11, Opponents

-----------------------------------------------------------------------------
(* The whole match. *)

LEMMA InitEstablishesMatch == Init => MatchInvariant
<1> SUFFICES ASSUME Init PROVE MatchInvariant
  OBVIOUS
<1>1. ASSUME NEW r \in Role PROVE TrailInvariant(r) /\ CommitInvariant(r)
  BY Opponents, ConstantsAssumption
  DEF Init, TrailInvariant, CommitInvariant
<1> QED
  BY <1>1, InitEstablishes DEF MatchInvariant

LEMMA StepKeepsMatch == MatchInvariant /\ [Next]_vars => MatchInvariant'
<1> SUFFICES ASSUME MatchInvariant, [Next]_vars PROVE MatchInvariant'
  OBVIOUS
<1> DEFINE Kept == \A s \in Role : TrailInvariant(s)' /\ CommitInvariant(s)'
<1>1. ProtocolInvariant'
  BY StepKeeps DEF MatchInvariant
<1>2. ASSUME NEW r \in Role, LocalStep(r) PROVE Kept
  <2>1. ASSUME NEW a \in Action, StartTurn(r, a) PROVE Kept
    BY <2>1, StartTurnTrail, StartTurnCommits
  <2>2. ASSUME NEW mode \in TamperModes, SendFinalReveal(r, mode) PROVE Kept
    BY <2>2, SendFinalRevealTrail, SendCommits
  <2>3. CASE FailCommitPhase(r) \/ FailRevealPhase(r) \/ OwnActionIllegal(r)
    BY <2>3, FailTurnTrail, FailTurnCommits
    DEF FailCommitPhase, FailRevealPhase, OwnActionIllegal
  <2>4. CASE SendReveal(r)
    BY <2>4, SendRevealTrail, SendCommits
  <2>5. CASE FinishTurn(r)
    BY <2>5, FinishTurnTrail, FinishTurnCommits
  <2>6. CASE \/ ConditionHolds(r) \/ ConditionExpires(r) \/ ReceiveReply(r)
             \/ AttemptFails(r) \/ EndMatch(r) \/ Shutdown(r)
    BY <2>6, QuietTrail, QuietCommits
  <2> QED
    BY <1>2, <2>1, <2>2, <2>3, <2>4, <2>5, <2>6 DEF LocalStep
<1>3. ASSUME NEW r \in Role, NEW req \in requests, Handle(r, req) PROVE Kept
  BY <1>3, HandleTrail, HandleCommits
<1>4. ASSUME NEW r \in Role, Crash(r) PROVE Kept
  BY <1>4, QuietTrail, QuietCommits
<1>5. ASSUME UNCHANGED vars PROVE Kept
  <2>1. UNCHANGED <<pc, current, completed, sealed, trail, pending, registry,
                    call, reply, audited, requests>>
    BY <1>5 DEF vars
  <2>2. ASSUME NEW s \in Role PROVE TrailInvariant(s)' /\ CommitInvariant(s)'
    <3>1. TrailInvariant(s) /\ CommitInvariant(s)
      BY DEF MatchInvariant
    <3>2. TrailInvariant(s)'
      BY <2>1, <3>1 DEF TrailInvariant, Discloses, Disclosing, TrailMatchesSealed
    <3>3. CommitInvariant(s)'
      BY <2>1, <3>1 DEF CommitInvariant, HeldForLater, CommitOf
    <3> QED
      BY <3>2, <3>3
  <2> QED
    BY <2>2
<1>6. Kept
  BY <1>2, <1>3, <1>4, <1>5 DEF Next, Delivery
<1> QED
  BY <1>1, <1>6 DEF MatchInvariant

(* The inductive invariant of the whole match, from the first commitment to *)
(* the audit, holds in every reachable state.                               *)
THEOREM MatchSafe == Spec => []MatchInvariant
BY InitEstablishesMatch, StepKeepsMatch, PTL DEF Spec

(* An honest commitment is never refused, and all that is ever held back is *)
(* the single commitment of the next turn, whatever was lost, repeated or   *)
(* late.                                                                    *)
THEOREM CommitsAreAccepted == Spec => []CommitNeverRejected
<1>1. ASSUME MatchInvariant, NEW r \in Role
      PROVE  /\ call[r] # None /\ call[r].msg.type = "commit"
                  => call[r].status # "rejected"
             /\ \A m \in pending[r] :
                  /\ m.type = "commit"
                  /\ \A other \in pending[r] : other = m
                  /\ current[r] # None => m.turn > current[r].turn
  <2>1. CommitInvariant(r)
    BY <1>1 DEF MatchInvariant
  <2> QED
    BY <1>1, <2>1, HeldIsNext DEF CommitInvariant, HeldForLater
<1>2. MatchInvariant => CommitNeverRejected
  BY <1>1 DEF CommitNeverRejected
<1> QED
  BY <1>2, MatchSafe, PTL

(* The nonces a peer discloses open no move that its opponent could still   *)
(* choose: the opponent has sealed its last turn.                           *)
THEOREM DisclosureIsLast == Spec => []DisclosureAfterLastSeal
<1>1. ASSUME MatchInvariant, NEW r \in Role,
             call[r] # None, call[r].msg.type = "final_reveal"
      PROVE  Len(sealed[Opponent(r)]) = MaxTurn
  <2>1. /\ ProtocolInvariant /\ TrailInvariant(r) /\ TrailInvariant(Opponent(r))
        /\ Opponent(r) \in Role
    BY <1>1, MatchParts
  <2>2. Len(completed[r]) = MaxTurn
    BY <1>1, <2>1 DEF TrailInvariant, Discloses, Disclosing
  <2>3. Len(sealed[Opponent(r)]) <= MaxTurn
    BY <2>1 DEF TrailInvariant
  <2>4. /\ MaxTurn <= Len(sealed[Opponent(r)]) /\ MaxTurn \in Nat
        /\ Len(sealed[Opponent(r)]) \in Nat
    BY <2>1, <2>2, Pacing
  <2> QED
    BY <2>3, <2>4
<1>2. MatchInvariant => DisclosureAfterLastSeal
  BY <1>1 DEF DisclosureAfterLastSeal
<1> QED
  BY <1>2, MatchSafe, PTL

(* Records that pass the opponent's audit are the ones that were sealed,    *)
(* turn by turn, whichever of them --tamper rewrote.                        *)
THEOREM AuditIsSound == Spec => []AuditMeansUntampered
<1>1. ASSUME MatchInvariant, NEW r \in Role, audited[r]
      PROVE  \A t \in DOMAIN trail[Opponent(r)] :
               trail[Opponent(r)][t] = sealed[Opponent(r)][t]
  <2>1. TrailInvariant(Opponent(r)) /\ Opponent(Opponent(r)) = r
    BY <1>1, MatchParts, Opponents
  <2> QED
    BY <1>1, <2>1 DEF TrailInvariant, TrailMatchesSealed
<1>2. MatchInvariant => AuditMeansUntampered
  BY <1>1 DEF AuditMeansUntampered
<1> QED
  BY <1>2, MatchSafe, PTL
=============================================================================
