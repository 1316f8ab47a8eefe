------------------------ MODULE PeerLifecycleProofs ------------------------
(***************************************************************************)
(* No peer is ready or in a turn before both have verified the handshake,  *)
(* and no transition the code asks for is refused, for every set of        *)
(* configurations, number of turns and of attempts, and whatever is lost,  *)
(* retried, delivered late or killed.                                      *)
(***************************************************************************)
EXTENDS PeerLifecycleInvariant, SequenceTheorems, TLAPS

-----------------------------------------------------------------------------
(* The two peers, and where a walk of the state machine ends. *)

LEMMA OpponentOfPeer ==
  ASSUME NEW p \in Peer
  PROVE  /\ Opponent(p) \in Peer
         /\ Opponent(p) # p
         /\ Opponent(Opponent(p)) = p
         /\ Peer = {p, Opponent(p)}
<1>1. PICK a, b \in Peer : a # b /\ Peer = {a, b}
  BY PeerAssumption
<1>2. \A x \in Peer : Opponent(x) \in Peer /\ Opponent(x) # x
  <2>1. \A x \in Peer : \E y \in Peer : y # x
    BY <1>1
  <2> QED
    BY <2>1 DEF Opponent
<1> QED
  BY <1>1, <1>2

LEMMA WalkEnds ==
  ASSUME NEW p \in Peer, NEW walk, machine \in [Peer -> PeerState], Walk(p, walk)
  PROVE  /\ \/ machine' = machine
            \/ machine' = [machine EXCEPT ![p] = walk[Len(walk)]]
         /\ refused \in BOOLEAN => refused' \in BOOLEAN
<1>1. machine = [machine EXCEPT ![p] = machine[p]]
  OBVIOUS
<1> QED
  BY <1>1 DEF Walk

LEMMA LegalWalkEnds ==
  ASSUME ~refused, NEW p \in Peer, NEW walk, Walk(p, walk), LegalFrom(machine[p], walk)
  PROVE  machine' = [machine EXCEPT ![p] = walk[Len(walk)]] /\ ~refused'
  BY DEF Walk

(* The walks inside a turn. *)
LEMMA TurnWalks ==
  /\ SubSeq(TurnOrder, 1, 3)[Len(SubSeq(TurnOrder, 1, 3))] = "waiting_for_opponent_commit"
  /\ SubSeq(TurnOrder, 4, 7)[Len(SubSeq(TurnOrder, 4, 7))] = "waiting_for_opponent_reveal"
  /\ SubSeq(TurnOrder, 8, 11)[Len(SubSeq(TurnOrder, 8, 11))] = "turn_complete"
  /\ LET failed == SubSeq(TurnOrder, 8, 10) \o <<"turn_failed">>
     IN  failed[Len(failed)] = "turn_failed"
<1>1. \A i \in 1 .. 11 : TurnOrder[i] \in PeerState
  <2>1. DOMAIN TurnOrder = 1 .. 11
    BY DEF TurnOrder
  <2> QED
    BY <2>1 DEF PeerState, TurnStates
<1>2. /\ TurnOrder[3] = "waiting_for_opponent_commit"
      /\ TurnOrder[7] = "waiting_for_opponent_reveal"
      /\ TurnOrder[11] = "turn_complete"
  BY DEF TurnOrder
<1>3. \A m, n \in 1 .. 11 : m <= n =>
        /\ SubSeq(TurnOrder, m, n) \in Seq(PeerState)
        /\ Len(SubSeq(TurnOrder, m, n)) = n - m + 1
        /\ SubSeq(TurnOrder, m, n)[n - m + 1] = TurnOrder[n]
  <2> SUFFICES ASSUME NEW m \in 1 .. 11, NEW n \in 1 .. 11, m <= n
               PROVE  /\ SubSeq(TurnOrder, m, n) \in Seq(PeerState)
                      /\ Len(SubSeq(TurnOrder, m, n)) = n - m + 1
                      /\ SubSeq(TurnOrder, m, n)[n - m + 1] = TurnOrder[n]
    OBVIOUS
  <2>0. m \in Int /\ n \in Int /\ \A i \in m .. n : TurnOrder[i] \in PeerState
    BY <1>1
  <2>1. /\ SubSeq(TurnOrder, m, n) \in Seq(PeerState)
        /\ Len(SubSeq(TurnOrder, m, n)) = n - m + 1
        /\ \A i \in 1 .. n - m + 1 : SubSeq(TurnOrder, m, n)[i] = TurnOrder[m + i - 1]
    BY <2>0, SubSeqProperties
  <2>2. n - m + 1 \in 1 .. n - m + 1 /\ m + (n - m + 1) - 1 = n
    OBVIOUS
  <2> QED
    BY <2>1, <2>2
<1>4. ASSUME NEW s \in Seq(PeerState)
      PROVE  (s \o <<"turn_failed">>)[Len(s \o <<"turn_failed">>)] = "turn_failed"
  <2> DEFINE e == <<"turn_failed">>
  <2>1. e \in Seq(PeerState) /\ Len(e) = 1 /\ e[1] = "turn_failed"
    BY DEF PeerState
  <2> HIDE DEF e
  <2>2. /\ Len(s \o e) = Len(s) + 1
        /\ (s \o e)[Len(s) + 1] = e[Len(s) + 1 - Len(s)]
    BY <2>1, ConcatProperties, Len(s) \in Nat
  <2> QED
    BY <2>1, <2>2, Len(s) \in Nat DEF e
<1>5. SubSeq(TurnOrder, 8, 10) \in Seq(PeerState)
  BY <1>3
<1>6. /\ Len(SubSeq(TurnOrder, 1, 3)) = 3
      /\ SubSeq(TurnOrder, 1, 3)[3] = TurnOrder[3]
  BY <1>3
<1>7. /\ Len(SubSeq(TurnOrder, 4, 7)) = 4
      /\ SubSeq(TurnOrder, 4, 7)[4] = TurnOrder[7]
  BY <1>3
<1>8. /\ Len(SubSeq(TurnOrder, 8, 11)) = 4
      /\ SubSeq(TurnOrder, 8, 11)[4] = TurnOrder[11]
  BY <1>3
<1> QED
  BY <1>2, <1>4, <1>5, <1>6, <1>7, <1>8

(* Which states are those of a peer that has committed to a turn. *)
LEMMA CommittedStates ==
  /\ TurnStates \subseteq PeerState
  /\ {"waiting_for_opponent_commit", "waiting_for_opponent_reveal",
      "turn_complete"} \subseteq TurnStates
  /\ {"connecting", "hello_exchange", "config_exchange", "ready_wait", "ready",
      "disconnected", "turn_failed", "finished", "error"} \subseteq PeerState
  /\ {"created", "connecting", "hello_exchange", "config_exchange", "ready_wait",
      "disconnected", "turn_failed", "finished", "error"} \cap TurnStates = {}
<1>1. DOMAIN TurnOrder = 1 .. 11
  BY DEF TurnOrder
<1>2. /\ TurnOrder[3] = "waiting_for_opponent_commit"
      /\ TurnOrder[7] = "waiting_for_opponent_reveal"
      /\ TurnOrder[11] = "turn_complete"
  BY DEF TurnOrder
<1>3. {"waiting_for_opponent_commit", "waiting_for_opponent_reveal",
      "turn_complete"} \subseteq TurnStates
  BY <1>1, <1>2 DEF TurnStates
<1>4. \A i \in 1 .. 11 :
        TurnOrder[i] \notin {"created", "connecting", "hello_exchange", "config_exchange",
                             "ready_wait", "disconnected", "turn_failed", "finished", "error"}
  BY DEF TurnOrder
<1> QED
  BY <1>1, <1>3, <1>4 DEF PeerState, HandshakeStates, TERMINAL_STATES, TurnStates

(* The walks of one or two states. *)
LEMMA ShortWalks ==
  /\ <<"starting", "server_ready", "connecting">>[Len(<<"starting", "server_ready", "connecting">>)]
       = "connecting"
  /\ <<"config_verified", "ready_wait">>[Len(<<"config_verified", "ready_wait">>)] = "ready_wait"
  /\ \A s : <<s>>[Len(<<s>>)] = s
  OBVIOUS

-----------------------------------------------------------------------------
(* Types. *)

LEMMA WalkTyped ==
  ASSUME TypeOK, NEW p \in Peer, NEW walk, Walk(p, walk), walk[Len(walk)] \in PeerState
  PROVE  machine' \in [Peer -> PeerState] /\ refused' \in BOOLEAN
  BY WalkEnds, ZenonT(60) DEF TypeOK

LEMMA SendTyped ==
  ASSUME TypeOK, NEW p \in Peer, NEW kind \in Kind, Send(p, kind)
  PROVE  /\ flow' \in [Peer -> Flow]
         /\ call' \in [Peer -> 0 .. MaxAttempts]
         /\ reply' \in [Peer -> Reply]
         /\ requests' \subseteq Request
<1>1. kind \in Flow /\ [sender |-> p, kind |-> kind] \in Request
  BY DEF Flow, Request
<1>2. MaxAttempts \in 0 .. MaxAttempts /\ "none" \in Reply
  BY PeerAssumption DEF Reply
<1> QED
  BY <1>1, <1>2 DEF TypeOK, Send, Goto

LEMMA StopTyped ==
  ASSUME TypeOK, NEW p \in Peer, NEW place \in Flow, Goto(p, place), NoSend(p)
  PROVE  /\ flow' \in [Peer -> Flow]
         /\ call' \in [Peer -> 0 .. MaxAttempts]
         /\ reply' \in [Peer -> Reply]
         /\ requests' \subseteq Request
<1>1. 0 \in 0 .. MaxAttempts /\ "none" \in Reply
  BY PeerAssumption DEF Reply
<1> QED
  BY <1>1 DEF TypeOK, Goto, NoSend

LEMMA FlowPlaces ==
  /\ Kind \subseteq Flow
  /\ {"probing", "awaiting_ready", "turns", "leaving", "gone", "crashed"} \subseteq Flow
  /\ {"hello", "config_hash", "ready"} = Kind
  BY DEF Flow, Kind

LEMMA HandshakingTyped ==
  ASSUME TypeOK, NEW p \in Peer, Handshaking(p)
  PROVE  TypeOK'
<1> USE DEF parameters
<1>1. CASE StartServer(p)
  <2>1. machine' \in [Peer -> PeerState] /\ refused' \in BOOLEAN
    BY <1>1, WalkTyped, ShortWalks, CommittedStates DEF StartServer
  <2> QED
    BY <1>1, <2>1, FlowPlaces DEF StartServer, TypeOK, Goto
<1>2. CASE PeerReachable(p)
  <2>1. machine' \in [Peer -> PeerState] /\ refused' \in BOOLEAN
    BY <1>2, WalkTyped, ShortWalks, CommittedStates DEF PeerReachable
  <2> QED
    BY <1>2, <2>1, SendTyped, FlowPlaces DEF PeerReachable, TypeOK
<1>3. CASE PeerUnreachable(p)
  <2>1. machine' \in [Peer -> PeerState] /\ refused' \in BOOLEAN
    BY <1>3, WalkTyped, ShortWalks, CommittedStates DEF PeerUnreachable
  <2> QED
    BY <1>3, <2>1, FlowPlaces DEF PeerUnreachable, TypeOK, Goto
<1>4. CASE HelloRejected(p) \/ ConfigRefused(p)
  <2>1. Fail(p)
    BY <1>4 DEF HelloRejected, ConfigRefused
  <2>2. machine' \in [Peer -> PeerState] /\ refused' \in BOOLEAN
    BY <2>1, WalkTyped, ShortWalks, CommittedStates DEF Fail
  <2> QED
    BY <2>1, <2>2, StopTyped, FlowPlaces DEF Fail, TypeOK
<1>5. CASE HelloAnswered(p)
  <2>1. machine' \in [Peer -> PeerState] /\ refused' \in BOOLEAN
    BY <1>5, WalkTyped, ShortWalks, CommittedStates DEF HelloAnswered
  <2>2. handshake' \in [Peer -> HandshakeState]
    BY <1>5 DEF HelloAnswered, TypeOK, HandshakeState
  <2> QED
    BY <1>5, <2>1, <2>2, SendTyped, FlowPlaces DEF HelloAnswered, TypeOK
<1>6. CASE ConfigAgreed(p)
  <2>1. machine' \in [Peer -> PeerState] /\ refused' \in BOOLEAN
    BY <1>6, WalkTyped, ShortWalks, CommittedStates DEF ConfigAgreed
  <2>2. handshake' \in [Peer -> HandshakeState]
    BY <1>6 DEF ConfigAgreed, TypeOK, HandshakeState
  <2> QED
    BY <1>6, <2>1, <2>2, SendTyped, FlowPlaces DEF ConfigAgreed, TypeOK
<1>7. CASE ReadyAcknowledged(p)
  <2>1. machine' \in [Peer -> PeerState] /\ refused' \in BOOLEAN
    BY <1>7, WalkTyped, ShortWalks, CommittedStates
       DEF ReadyAcknowledged, MaybeBecomeReady, Stay, TypeOK
  <2>2. handshake' \in [Peer -> HandshakeState]
    BY <1>7 DEF ReadyAcknowledged, TypeOK, HandshakeState
  <2> QED
    BY <1>7, <2>1, <2>2, StopTyped, FlowPlaces DEF ReadyAcknowledged, TypeOK
<1>8. CASE Retry(p)
  <2>1. [sender |-> p, kind |-> flow[p]] \in Request
    BY <1>8 DEF Retry, AttemptFailed, Request
  <2>2. call' \in [Peer -> 0 .. MaxAttempts]
    BY <1>8, PeerAssumption DEF Retry, TypeOK
  <2> QED
    BY <1>8, <2>1, <2>2 DEF Retry, TypeOK
<1>9. CASE GiveUp(p)
  BY <1>9, StopTyped, FlowPlaces DEF GiveUp, TypeOK
<1> QED
  BY <1>1, <1>2, <1>3, <1>4, <1>5, <1>6, <1>7, <1>8, <1>9 DEF Handshaking

LEMMA PlayingTyped ==
  ASSUME TypeOK, NEW p \in Peer, TurnsLeft(p), Playing(p)
  PROVE  TypeOK'
<1> USE DEF parameters
<1>1. CASE StartPlaying(p) \/ NeverReady(p) \/ MatchOver(p)
  BY <1>1, FlowPlaces DEF StartPlaying, NeverReady, MatchOver, TypeOK, Goto
<1>2. CASE SealAction(p)
  <2>1. machine' \in [Peer -> PeerState] /\ refused' \in BOOLEAN
    BY <1>2, WalkTyped, TurnWalks, CommittedStates DEF SealAction
  <2> QED
    BY <1>2, <2>1 DEF SealAction, TypeOK
<1>3. CASE Reveal(p)
  <2>1. machine' \in [Peer -> PeerState] /\ refused' \in BOOLEAN
    BY <1>3, WalkTyped, TurnWalks, CommittedStates DEF Reveal
  <2> QED
    BY <1>3, <2>1 DEF Reveal, TypeOK
<1>4. CASE CompleteTurn(p)
  <2>1. machine' \in [Peer -> PeerState] /\ refused' \in BOOLEAN
    BY <1>4, WalkTyped, TurnWalks, CommittedStates DEF CompleteTurn
  <2>2. turns' \in [Peer -> 0 .. MaxTurn]
    BY <1>4, PeerAssumption DEF CompleteTurn, TypeOK, TurnsLeft
  <2> QED
    BY <1>4, <2>1, <2>2 DEF CompleteTurn, TypeOK
<1>5. CASE FailTurn(p)
  <2>1. machine' \in [Peer -> PeerState] /\ refused' \in BOOLEAN
    BY <1>5, WalkTyped, TurnWalks, ShortWalks, CommittedStates DEF FailTurn
  <2> QED
    BY <1>5, <2>1, FlowPlaces DEF FailTurn, TypeOK, Goto
<1>6. CASE Shutdown(p)
  <2>1. machine' \in [Peer -> PeerState]
    BY <1>6, CommittedStates DEF Shutdown, TypeOK
  <2> QED
    BY <1>6, <2>1, FlowPlaces DEF Shutdown, TypeOK, Goto
<1> QED
  BY <1>1, <1>2, <1>3, <1>4, <1>5, <1>6 DEF Playing

LEMMA ReceiveTyped ==
  ASSUME TypeOK, NEW p \in Peer, NEW m \in requests, Handle(p, m)
  PROVE  TypeOK'
<1> USE DEF parameters
<1>1. machine' \in [Peer -> PeerState] /\ refused' \in BOOLEAN
  BY WalkTyped, ShortWalks, CommittedStates DEF Handle, MaybeBecomeReady, Stay, TypeOK
<1>2. handshake' \in [Peer -> HandshakeState]
  BY DEF Handle, TypeOK, HandshakeState
<1>3. reply' \in [Peer -> Reply]
  <2>1. m.kind \in Kind
    BY DEF TypeOK, Request
  <2>2. ReplyTo(p, m.kind) \in Reply
    BY <2>1 DEF ReplyTo, Reply, Kind
  <2> QED
    BY <2>2 DEF Handle, TypeOK
<1> QED
  BY <1>1, <1>2, <1>3 DEF Handle, TypeOK

-----------------------------------------------------------------------------
(* The walks the code takes are in the table. *)

LEMMA StatesOfTable ==
  /\ {"created", "starting", "server_ready", "ready", "turn_failed", "disconnected",
      "finishing", "connecting", "hello_exchange", "config_exchange", "config_verified",
      "ready_wait"} \subseteq PeerState
  /\ \A i \in 1 .. 11 : TurnOrder[i] \in PeerState
  BY DEF PeerState, TurnStates, TurnOrder, HandshakeStates

LEMMA HandshakeTable ==
  /\ "starting" \in TRANSITIONS["created"]
  /\ "server_ready" \in TRANSITIONS["starting"]
  /\ "connecting" \in TRANSITIONS["server_ready"]
  /\ {"hello_exchange", "disconnected"} \subseteq TRANSITIONS["connecting"]
  /\ {"config_exchange", "error"} \subseteq TRANSITIONS["hello_exchange"]
  /\ {"config_verified", "error"} \subseteq TRANSITIONS["config_exchange"]
  /\ "ready_wait" \in TRANSITIONS["config_verified"]
  /\ "ready" \in TRANSITIONS["ready_wait"]
<1> USE DEF TRANSITIONS, InHandshake, InTurn, WaitingInTurn, TERMINAL_STATES
<1>1. /\ "starting" \in TRANSITIONS["created"]
      /\ "server_ready" \in TRANSITIONS["starting"]
      /\ "connecting" \in TRANSITIONS["server_ready"]
  BY StatesOfTable
<1>2. /\ {"hello_exchange", "disconnected"} \subseteq TRANSITIONS["connecting"]
      /\ {"config_exchange", "error"} \subseteq TRANSITIONS["hello_exchange"]
      /\ {"config_verified", "error"} \subseteq TRANSITIONS["config_exchange"]
  BY StatesOfTable
<1>3. /\ "ready_wait" \in TRANSITIONS["config_verified"]
      /\ "ready" \in TRANSITIONS["ready_wait"]
  BY StatesOfTable
<1> QED
  BY <1>1, <1>2, <1>3

LEMMA TurnTable ==
  /\ \A s \in {"ready", "turn_complete"} : TurnOrder[1] \in TRANSITIONS[s]
  /\ \A i \in 1 .. 10 : TurnOrder[i + 1] \in TRANSITIONS[TurnOrder[i]]
  /\ \A i \in {3, 7, 10} : "turn_failed" \in TRANSITIONS[TurnOrder[i]]
<1> USE DEF TRANSITIONS, InHandshake, InTurn, WaitingInTurn, TERMINAL_STATES, TurnOrder
<1>1. \A s \in {"ready", "turn_complete"} : TurnOrder[1] \in TRANSITIONS[s]
  BY StatesOfTable, CommittedStates
<1>2. \A i \in 1 .. 10 : TurnOrder[i + 1] \in TRANSITIONS[TurnOrder[i]]
  BY StatesOfTable
<1>3. \A i \in {3, 7, 10} : "turn_failed" \in TRANSITIONS[TurnOrder[i]]
  BY StatesOfTable, SMTT(60)
<1> QED
  BY <1>1, <1>2, <1>3

LEMMA FinishTable ==
  /\ \A s \in Leavable : "finishing" \in TRANSITIONS[s]
  /\ "finished" \in TRANSITIONS["finishing"]
<1> USE DEF TRANSITIONS, InHandshake, InTurn, WaitingInTurn, TERMINAL_STATES
<1>1. \A s \in Leavable : "finishing" \in TRANSITIONS[s]
  <2>1. \A s \in {"hello_exchange", "config_exchange", "ready_wait", "turn_failed",
                   "disconnected"} : "finishing" \in TRANSITIONS[s]
    BY StatesOfTable
  <2>2. "ready" \in PeerState /\ "turn_complete" \in PeerState
    BY StatesOfTable, CommittedStates
  <2>3. "finishing" \in TRANSITIONS["ready"]
    BY <2>2
  <2>4. "finishing" \in TRANSITIONS["turn_complete"]
    BY <2>2
  <2> QED
    BY <2>1, <2>3, <2>4 DEF Leavable
<1>2. "finished" \in TRANSITIONS["finishing"]
  BY StatesOfTable, CommittedStates
<1> QED
  BY <1>1, <1>2

(* The walk through a part of a turn. *)
LEMMA TurnWalkLegal ==
  ASSUME NEW m \in 1 .. 11, NEW n \in 1 .. 11, m <= n, NEW s, TurnOrder[m] \in TRANSITIONS[s]
  PROVE  LegalFrom(s, SubSeq(TurnOrder, m, n))
<1> DEFINE walk == SubSeq(TurnOrder, m, n)
<1>1. /\ DOMAIN walk = 1 .. n - m + 1
      /\ \A i \in 1 .. n - m + 1 : walk[i] = TurnOrder[m + i - 1]
  <2>1. m \in Int /\ n \in Int /\ \A i \in m .. n : TurnOrder[i] \in PeerState
    BY StatesOfTable
  <2>2. /\ walk \in Seq(PeerState)
        /\ Len(walk) = n - m + 1
        /\ \A i \in 1 .. n - m + 1 : walk[i] = TurnOrder[m + i - 1]
    BY <2>1, SubSeqProperties
  <2> QED
    BY <2>2
<1> SUFFICES ASSUME NEW i \in 1 .. n - m + 1
             PROVE  walk[i] \in TRANSITIONS[IF i = 1 THEN s ELSE walk[i - 1]]
  BY <1>1 DEF LegalFrom
<1>2. CASE i = 1
  BY <1>1, <1>2
<1>3. CASE i # 1
  <2>1. i - 1 \in 1 .. n - m + 1 /\ m + (i - 1) - 1 \in 1 .. 10
        /\ m + i - 1 = (m + (i - 1) - 1) + 1
    BY <1>3
  <2>2. TurnOrder[m + i - 1] \in TRANSITIONS[TurnOrder[m + (i - 1) - 1]]
    BY <2>1, TurnTable
  <2> QED
    BY <1>1, <1>3, <2>1, <2>2
<1> QED
  BY <1>2, <1>3

LEMMA ShortWalkLegal ==
  ASSUME NEW s, NEW next \in TRANSITIONS[s]
  PROVE  LegalFrom(s, <<next>>)
  BY DEF LegalFrom

LEMMA WalksLegal ==
  /\ LegalFrom("created", <<"starting", "server_ready", "connecting">>)
  /\ LegalFrom("config_exchange", <<"config_verified", "ready_wait">>)
  /\ \A s \in {"ready", "turn_complete"} : LegalFrom(s, SubSeq(TurnOrder, 1, 3))
  /\ LegalFrom("waiting_for_opponent_commit", SubSeq(TurnOrder, 4, 7))
  /\ LegalFrom("waiting_for_opponent_reveal", SubSeq(TurnOrder, 8, 11))
  /\ \A s \in {"waiting_for_opponent_commit", "waiting_for_opponent_reveal"} :
       LegalFrom(s, <<"turn_failed">>)
  /\ LegalFrom("waiting_for_opponent_reveal",
               SubSeq(TurnOrder, 8, 10) \o <<"turn_failed">>)
  /\ \A s \in Leavable : LegalFrom(s, <<"finishing", "finished">>)
<1>1. LegalFrom("created", <<"starting", "server_ready", "connecting">>)
  BY HandshakeTable DEF LegalFrom
<1>2. LegalFrom("config_exchange", <<"config_verified", "ready_wait">>)
  BY HandshakeTable DEF LegalFrom
<1>3. TurnOrder[3] = "waiting_for_opponent_commit"
      /\ TurnOrder[7] = "waiting_for_opponent_reveal" /\ TurnOrder[10] = "applying_turn"
  BY DEF TurnOrder
<1>4. \A s \in {"ready", "turn_complete"} : LegalFrom(s, SubSeq(TurnOrder, 1, 3))
  BY TurnTable, TurnWalkLegal
<1>5. LegalFrom("waiting_for_opponent_commit", SubSeq(TurnOrder, 4, 7))
  <2>1. TurnOrder[4] \in TRANSITIONS[TurnOrder[3]]
    BY TurnTable
  <2> QED
    BY <1>3, <2>1, TurnWalkLegal
<1>6. TurnOrder[8] \in TRANSITIONS["waiting_for_opponent_reveal"]
  <2>1. TurnOrder[8] \in TRANSITIONS[TurnOrder[7]]
    BY TurnTable
  <2> QED
    BY <1>3, <2>1
<1>7. LegalFrom("waiting_for_opponent_reveal", SubSeq(TurnOrder, 8, 11))
  BY <1>6, TurnWalkLegal
<1>8. \A s \in {"waiting_for_opponent_commit", "waiting_for_opponent_reveal"} :
        LegalFrom(s, <<"turn_failed">>)
  BY <1>3, TurnTable, ShortWalkLegal
<1>9. LegalFrom("waiting_for_opponent_reveal", SubSeq(TurnOrder, 8, 10) \o <<"turn_failed">>)
  <2> DEFINE turn == SubSeq(TurnOrder, 8, 10)
             walk == turn \o <<"turn_failed">>
  <2>1. LegalFrom("waiting_for_opponent_reveal", turn)
    BY <1>6, TurnWalkLegal
  <2>2. turn \in Seq(PeerState) /\ Len(turn) = 3 /\ turn[3] = TurnOrder[10]
    <3>1. \A i \in 8 .. 10 : TurnOrder[i] \in PeerState
      BY StatesOfTable
    <3>2. /\ turn \in Seq(PeerState) /\ Len(turn) = 3
          /\ \A i \in 1 .. 3 : turn[i] = TurnOrder[8 + i - 1]
      BY <3>1, SubSeqProperties
    <3> QED
      BY <3>2
  <2>3. /\ DOMAIN walk = 1 .. 4
        /\ \A i \in 1 .. 3 : walk[i] = turn[i]
        /\ walk[4] = "turn_failed"
    <3> HIDE DEF turn
    <3> DEFINE e == <<"turn_failed">>
    <3>1. e \in Seq(PeerState) /\ Len(e) = 1 /\ e[1] = "turn_failed"
      BY CommittedStates
    <3> HIDE DEF e
    <3>2. /\ turn \o e \in Seq(PeerState)
          /\ Len(turn \o e) = 4
          /\ \A i \in 1 .. 4 : (turn \o e)[i] = IF i <= 3 THEN turn[i] ELSE e[i - 3]
      <4>1. /\ turn \o e \in Seq(PeerState)
            /\ Len(turn \o e) = Len(turn) + Len(e)
            /\ \A i \in 1 .. Len(turn) + Len(e) :
                 (turn \o e)[i] = IF i <= Len(turn) THEN turn[i] ELSE e[i - Len(turn)]
        BY <2>2, <3>1, ConcatProperties, Zenon
      <4>2. Len(turn) = 3 /\ Len(e) = 1 /\ Len(turn) + Len(e) = 4
        BY <2>2, <3>1
      <4> QED
        BY <4>1, <4>2
    <3>3. DOMAIN (turn \o e) = 1 .. 4
      BY <3>2
    <3>4. \A i \in 1 .. 3 : (turn \o e)[i] = turn[i]
      BY <3>2
    <3>5. (turn \o e)[4] = "turn_failed"
      BY <3>1, <3>2
    <3> QED
      BY <3>3, <3>4, <3>5 DEF e
  <2>4. walk[4] \in TRANSITIONS[walk[3]]
    BY <1>3, <2>2, <2>3, TurnTable
  <2>5. DOMAIN turn = 1 .. 3
    BY <2>2
  <2> HIDE DEF turn, walk
  <2>6. \A i \in 1 .. 3 :
          LET source == IF i = 1 THEN "waiting_for_opponent_reveal" ELSE walk[i - 1]
          IN  \/ walk[i] \in TRANSITIONS[source]
              \/ walk[i] = source /\ source \notin TERMINAL_STATES
    BY <2>1, <2>3, <2>5 DEF LegalFrom
  <2>7. LegalFrom("waiting_for_opponent_reveal", walk)
    BY <2>3, <2>4, <2>6 DEF LegalFrom
  <2> QED
    BY <2>7 DEF walk, turn
<1>10. \A s \in Leavable : LegalFrom(s, <<"finishing", "finished">>)
  BY FinishTable DEF LegalFrom
<1> QED
  BY <1>1, <1>2, <1>4, <1>5, <1>7, <1>8, <1>9, <1>10

-----------------------------------------------------------------------------
(* Every walk of an action is legal, and so ends where it says. *)

Moves(p, state) == machine' = [machine EXCEPT ![p] = state] /\ ~refused'

LEMMA HandshakeMoves ==
  ASSUME LifecycleInvariant, NEW p \in Peer
  PROVE  /\ StartServer(p) => Moves(p, "connecting")
         /\ PeerReachable(p) => Moves(p, "hello_exchange")
         /\ PeerUnreachable(p) => Moves(p, "disconnected")
         /\ HelloRejected(p) \/ ConfigRefused(p) => Moves(p, "error")
         /\ HelloAnswered(p) => Moves(p, "config_exchange")
         /\ ConfigAgreed(p) => Moves(p, "ready_wait")
<1>1. /\ flow[p] = "starting" => machine[p] = "created"
      /\ flow[p] = "probing" => machine[p] = "connecting"
      /\ flow[p] = "hello" => machine[p] = "hello_exchange"
      /\ flow[p] = "config_hash" => machine[p] = "config_exchange"
      /\ ~refused
  BY DEF LifecycleInvariant, PeerKnown, MachineFitsFlow
<1>2. StartServer(p) => Moves(p, "connecting")
  BY <1>1, WalksLegal, LegalWalkEnds, ShortWalks DEF StartServer, Moves
<1>3. PeerReachable(p) => Moves(p, "hello_exchange")
  <2>1. LegalFrom("connecting", <<"hello_exchange">>)
    BY HandshakeTable, ShortWalkLegal
  <2> QED
    BY <1>1, <2>1, LegalWalkEnds, ShortWalks DEF PeerReachable, Moves
<1>4. PeerUnreachable(p) => Moves(p, "disconnected")
  <2>1. LegalFrom("connecting", <<"disconnected">>)
    BY HandshakeTable, ShortWalkLegal
  <2> QED
    BY <1>1, <2>1, LegalWalkEnds, ShortWalks DEF PeerUnreachable, Moves
<1>5. HelloRejected(p) \/ ConfigRefused(p) => Moves(p, "error")
  <2>1. LegalFrom("hello_exchange", <<"error">>) /\ LegalFrom("config_exchange", <<"error">>)
    BY HandshakeTable, ShortWalkLegal
  <2> QED
    BY <1>1, <2>1, LegalWalkEnds, ShortWalks DEF HelloRejected, ConfigRefused, Fail, Moves
<1>6. HelloAnswered(p) => Moves(p, "config_exchange")
  <2>1. LegalFrom("hello_exchange", <<"config_exchange">>)
    BY HandshakeTable, ShortWalkLegal
  <2>2. <<"config_exchange">>[Len(<<"config_exchange">>)] = "config_exchange"
    OBVIOUS
  <2> QED
    <3>1. HelloAnswered(p) => Walk(p, <<"config_exchange">>) /\ machine[p] = "hello_exchange"
      BY <1>1 DEF HelloAnswered
    <3> QED
      BY <1>1, <2>1, <2>2, <3>1, LegalWalkEnds DEF Moves
<1>7. ConfigAgreed(p) => Moves(p, "ready_wait")
  BY <1>1, WalksLegal, LegalWalkEnds, ShortWalks, ZenonT(60) DEF ConfigAgreed, Moves
<1> QED
  BY <1>2, <1>3, <1>4, <1>5, <1>6, <1>7

LEMMA TurnMoves ==
  ASSUME LifecycleInvariant, NEW p \in Peer
  PROVE  /\ SealAction(p) => Moves(p, "waiting_for_opponent_commit")
         /\ Reveal(p) => Moves(p, "waiting_for_opponent_reveal")
         /\ CompleteTurn(p) => Moves(p, "turn_complete")
         /\ FailTurn(p) => Moves(p, "turn_failed")
         /\ Shutdown(p) => /\ ~refused'
                           /\ machine' = [machine EXCEPT ![p] = IF @ = "error" THEN @ ELSE "finished"]
<1>1. ~refused /\ (flow[p] = "leaving" => machine[p] \in Leavable \cup {"error"})
  BY DEF LifecycleInvariant, PeerKnown, MachineFitsFlow
<1>2. SealAction(p) => Moves(p, "waiting_for_opponent_commit")
  <2> SUFFICES ASSUME SealAction(p)
               PROVE  Moves(p, "waiting_for_opponent_commit")
    OBVIOUS
  <2>1. LegalFrom(machine[p], SubSeq(TurnOrder, 1, 3))
    BY WalksLegal DEF SealAction
  <2> QED
    BY <1>1, <2>1, LegalWalkEnds, TurnWalks, ZenonT(60) DEF SealAction, Moves
<1>3. Reveal(p) => Moves(p, "waiting_for_opponent_reveal")
  BY <1>1, WalksLegal, LegalWalkEnds, TurnWalks, ZenonT(60) DEF Reveal, Moves
<1>4. CompleteTurn(p) => Moves(p, "turn_complete")
  <2>1. LegalFrom("waiting_for_opponent_reveal", SubSeq(TurnOrder, 8, 11))
    BY WalksLegal
  <2>2. SubSeq(TurnOrder, 8, 11)[Len(SubSeq(TurnOrder, 8, 11))] = "turn_complete"
    BY TurnWalks
  <2> QED
    <3>1. CompleteTurn(p) => /\ Walk(p, SubSeq(TurnOrder, 8, 11))
                             /\ machine[p] = "waiting_for_opponent_reveal"
      BY DEF CompleteTurn
    <3> QED
      BY <1>1, <2>1, <2>2, <3>1, LegalWalkEnds DEF Moves
<1>5. FailTurn(p) => Moves(p, "turn_failed")
  <2> SUFFICES ASSUME FailTurn(p)
               PROVE  Moves(p, "turn_failed")
    OBVIOUS
  <2>1. CASE Walk(p, <<"turn_failed">>)
    <3>1. LegalFrom(machine[p], <<"turn_failed">>)
      BY WalksLegal DEF FailTurn
    <3> QED
      BY <1>1, <2>1, <3>1, LegalWalkEnds, ShortWalks DEF Moves
  <2>2. CASE /\ machine[p] = "waiting_for_opponent_reveal"
             /\ Walk(p, SubSeq(TurnOrder, 8, 10) \o <<"turn_failed">>)
    <3> DEFINE walk == SubSeq(TurnOrder, 8, 10) \o <<"turn_failed">>
    <3>1. LegalFrom(machine[p], walk) /\ walk[Len(walk)] = "turn_failed"
      BY <2>2, WalksLegal, TurnWalks
    <3>2. Walk(p, walk)
      BY <2>2
    <3> HIDE DEF walk
    <3> QED
      BY <1>1, <3>1, <3>2, LegalWalkEnds DEF Moves
  <2> QED
    BY <2>1, <2>2 DEF FailTurn
<1>6. Shutdown(p) => /\ ~refused'
                     /\ machine' = [machine EXCEPT ![p] = IF @ = "error" THEN @ ELSE "finished"]
  <2> SUFFICES ASSUME Shutdown(p)
               PROVE  /\ ~refused'
                      /\ machine' = [machine EXCEPT ![p] = IF @ = "error" THEN @ ELSE "finished"]
    OBVIOUS
  <2>1. ~LegalFrom("error", <<"finishing", "finished">>)
    <3>1. TRANSITIONS["error"] = {}
      BY CommittedStates DEF TRANSITIONS, TERMINAL_STATES
    <3> QED
      BY <3>1 DEF LegalFrom, TERMINAL_STATES
  <2>2. machine[p] # "error" => LegalFrom(machine[p], <<"finishing", "finished">>)
    BY <1>1, WalksLegal DEF Shutdown
  <2> QED
    BY <1>1, <2>1, <2>2 DEF Shutdown
<1> QED
  BY <1>2, <1>3, <1>4, <1>5, <1>6

LEMMA ReadyMoves ==
  ASSUME LifecycleInvariant, NEW p \in Peer, NEW h, MaybeBecomeReady(p, h)
  PROVE  /\ ~refused'
         /\ machine' = IF Complete(h) /\ machine[p] = "ready_wait"
                       THEN [machine EXCEPT ![p] = "ready"]
                       ELSE machine
<1>1. LegalFrom("ready_wait", <<"ready">>)
  BY HandshakeTable, ShortWalkLegal
<1> QED
  BY <1>1, LegalWalkEnds, ShortWalks DEF LifecycleInvariant, MaybeBecomeReady, Stay

-----------------------------------------------------------------------------
(* Every action keeps the invariant. *)

LEMMA CompleteMeans ==
  ASSUME NEW h \in HandshakeState
  PROVE  Complete(h) <=> /\ h.our_hello_acknowledged
                         /\ h.our_config_accepted
                         /\ h.opponent_ready
                         /\ h.we_sent_ready
  BY DEF Complete, HandshakeState

(* A step of one peer does not touch what is known of the other, except for *)
(* a reply that reaches it.                                                 *)
LEMMA OtherPeerKept ==
  ASSUME LifecycleInvariant, NEW p \in Peer, NEW q \in Peer, q # p,
         UNCHANGED parameters,
         machine'[q] = machine[q], flow'[q] = flow[q], handshake'[q] = handshake[q],
         turns'[q] = turns[q],
         reply'[q] = reply[q] \/ (reply'[q] = "hello" => capable[q]),
         handshake[p].our_config_accepted => handshake'[p].our_config_accepted
  PROVE  PeerKnown(q)'
<1>1. PeerKnown(q) /\ Opponent(q) = p
  BY OpponentOfPeer DEF LifecycleInvariant
<1>2. HandshakeKnown(q)'
  BY <1>1 DEF PeerKnown, HandshakeKnown, Verified, parameters
<1>3. FlowKnown(q)' /\ ReplyKnown(q)'
  BY <1>1 DEF PeerKnown, FlowKnown, ReplyKnown, parameters
<1>4. CommittedKnown(q)'
  BY <1>1 DEF PeerKnown, CommittedKnown, Committed, Complete
<1>5. MachineFitsFlow(q)' /\ TurnsLeft(q)'
  BY <1>1 DEF PeerKnown, MachineFitsFlow, TurnsLeft
<1> QED
  BY <1>2, <1>3, <1>4, <1>5 DEF PeerKnown

LEMMA BothPeersKnown ==
  ASSUME LifecycleInvariant, NEW p \in Peer, TypeOK', ~refused', WireKnown', PeerKnown(p)',
         \A q \in Peer : q # p => PeerKnown(q)'
  PROVE  LifecycleInvariant'
  BY DEF LifecycleInvariant

(* A step after which the handshake is what it was. *)
LEMMA HandshakeStays ==
  ASSUME LifecycleInvariant, NEW p \in Peer, TypeOK', ~refused',
         UNCHANGED <<parameters, handshake>>,
         \A q \in Peer : q # p =>
           /\ machine'[q] = machine[q] /\ flow'[q] = flow[q]
           /\ turns'[q] = turns[q]
           /\ reply'[q] = reply[q] \/ (reply'[q] = "hello" => capable[q]),
         WireKnown', ReplyKnown(p)', MachineFitsFlow(p)', TurnsLeft(p)',
         FlowKnown(p)', CommittedKnown(p)'
  PROVE  LifecycleInvariant'
<1>1. PeerKnown(p) /\ handshake' = handshake
  BY DEF LifecycleInvariant
<1>2. HandshakeKnown(p)'
  BY <1>1 DEF PeerKnown, HandshakeKnown, Verified, parameters
<1>3. PeerKnown(p)'
  BY <1>2 DEF PeerKnown
<1>4. \A q \in Peer : q # p => PeerKnown(q)'
  BY OtherPeerKept
<1> QED
  BY <1>3, <1>4, BothPeersKnown

(* The start, the poll and the calls that end without an answer. *)
LEMMA QuietHandshaking ==
  ASSUME LifecycleInvariant, NEW p \in Peer, TypeOK',
         \/ StartServer(p) \/ PeerReachable(p) \/ PeerUnreachable(p)
         \/ HelloRejected(p) \/ ConfigRefused(p) \/ Retry(p) \/ GiveUp(p)
  PROVE  LifecycleInvariant'
<1>1. TypeOK /\ PeerKnown(p) /\ WireKnown /\ ~refused
  BY DEF LifecycleInvariant
<1> USE DEF parameters
<1>2. CASE StartServer(p)
  <2>1. Moves(p, "connecting")
    BY <1>2, HandshakeMoves
  <2>2. MachineFitsFlow(p)' /\ TurnsLeft(p)' /\ FlowKnown(p)'
    BY <1>1, <1>2, <2>1 DEF StartServer, Moves, Goto, TypeOK, PeerKnown, MachineFitsFlow,
       TurnsLeft, FlowKnown, Kind
  <2>3. ~Committed(p)'
    BY <1>1, <2>1, CommittedStates DEF Moves, TypeOK, Committed
  <2>4. WireKnown' /\ ReplyKnown(p)'
    BY <1>1, <1>2 DEF StartServer, WireKnown, ReplyKnown, PeerKnown
  <2> QED
    BY <1>1, <1>2, <2>1, <2>2, <2>3, <2>4, HandshakeStays
       DEF StartServer, Moves, Goto, TypeOK, CommittedKnown
<1>3. CASE PeerReachable(p)
  <2>1. Moves(p, "hello_exchange")
    BY <1>3, HandshakeMoves
  <2>2. MachineFitsFlow(p)' /\ TurnsLeft(p)' /\ FlowKnown(p)'
    BY <1>1, <1>3, <2>1 DEF PeerReachable, Moves, Send, Goto, TypeOK, PeerKnown, MachineFitsFlow,
       TurnsLeft, FlowKnown, Kind
  <2>3. ~Committed(p)'
    BY <1>1, <2>1, CommittedStates DEF Moves, TypeOK, Committed
  <2>4. WireKnown' /\ ReplyKnown(p)'
    BY <1>1, <1>3 DEF PeerReachable, Send, WireKnown, ReplyKnown, PeerKnown, TypeOK
  <2> QED
    BY <1>1, <1>3, <2>1, <2>2, <2>3, <2>4, HandshakeStays
       DEF PeerReachable, Moves, Send, Goto, TypeOK, CommittedKnown
<1>4. CASE PeerUnreachable(p)
  <2>1. Moves(p, "disconnected")
    BY <1>4, HandshakeMoves
  <2>2. MachineFitsFlow(p)' /\ TurnsLeft(p)' /\ FlowKnown(p)'
    BY <1>1, <1>4, <2>1 DEF PeerUnreachable, Moves, Goto, TypeOK, PeerKnown, MachineFitsFlow,
       TurnsLeft, FlowKnown, Kind, Leavable
  <2>3. ~Committed(p)'
    BY <1>1, <2>1, CommittedStates DEF Moves, TypeOK, Committed
  <2>4. WireKnown' /\ ReplyKnown(p)'
    BY <1>1, <1>4 DEF PeerUnreachable, WireKnown, ReplyKnown, PeerKnown
  <2> QED
    BY <1>1, <1>4, <2>1, <2>2, <2>3, <2>4, HandshakeStays
       DEF PeerUnreachable, Moves, Goto, TypeOK, CommittedKnown
<1>5. CASE HelloRejected(p) \/ ConfigRefused(p)
  <2>1. Moves(p, "error") /\ Fail(p)
    BY <1>5, HandshakeMoves DEF HelloRejected, ConfigRefused
  <2>2. MachineFitsFlow(p)' /\ TurnsLeft(p)' /\ FlowKnown(p)'
    BY <1>1, <2>1 DEF Fail, NoSend, Moves, Goto, TypeOK, PeerKnown, MachineFitsFlow,
       TurnsLeft, FlowKnown, Kind
  <2>3. ~Committed(p)'
    BY <1>1, <2>1, CommittedStates DEF Moves, TypeOK, Committed
  <2>4. WireKnown' /\ ReplyKnown(p)'
    BY <1>1, <2>1 DEF Fail, NoSend, WireKnown, ReplyKnown, PeerKnown, TypeOK
  <2> QED
    BY <1>1, <2>1, <2>2, <2>3, <2>4, HandshakeStays
       DEF Fail, NoSend, Moves, Goto, TypeOK, CommittedKnown
<1>6. CASE Retry(p)
  <2>1. MachineFitsFlow(p)' /\ TurnsLeft(p)' /\ FlowKnown(p)' /\ ReplyKnown(p)'
    BY <1>1, <1>6 DEF Retry, PeerKnown, MachineFitsFlow, TurnsLeft, FlowKnown, ReplyKnown
  <2>2. WireKnown'
    BY <1>1, <1>6 DEF Retry, WireKnown, PeerKnown, FlowKnown
  <2>3. CommittedKnown(p)'
    BY <1>1, <1>6 DEF Retry, PeerKnown, CommittedKnown, Committed, Complete
  <2> QED
    BY <1>1, <1>6, <2>1, <2>2, <2>3, HandshakeStays DEF Retry
<1>7. CASE GiveUp(p)
  <2>1. MachineFitsFlow(p)' /\ TurnsLeft(p)' /\ FlowKnown(p)'
    BY <1>1, <1>7 DEF GiveUp, AttemptFailed, NoSend, Goto, TypeOK, PeerKnown, MachineFitsFlow,
       TurnsLeft, FlowKnown, Kind, Leavable
  <2>2. WireKnown' /\ ReplyKnown(p)'
    BY <1>1, <1>7 DEF GiveUp, NoSend, WireKnown, ReplyKnown, PeerKnown, TypeOK
  <2>3. CommittedKnown(p)'
    BY <1>1, <1>7 DEF GiveUp, PeerKnown, CommittedKnown, Committed, Complete
  <2> QED
    BY <1>1, <1>7, <2>1, <2>2, <2>3, HandshakeStays DEF GiveUp, NoSend, Goto, TypeOK
<1> QED
  BY <1>2, <1>3, <1>4, <1>5, <1>6, <1>7

(* The answers that complete the handshake. *)
LEMMA HelloAnsweredKeeps ==
  ASSUME LifecycleInvariant, NEW p \in Peer, TypeOK', HelloAnswered(p)
  PROVE  LifecycleInvariant'
<1>1. TypeOK /\ PeerKnown(p) /\ WireKnown /\ PeerKnown(Opponent(p))
  BY OpponentOfPeer DEF LifecycleInvariant
<1> USE DEF parameters
<1>2. Moves(p, "config_exchange")
  BY HandshakeMoves
<1>3. handshake'[p] = [handshake[p] EXCEPT !.our_hello_acknowledged = TRUE]
  BY <1>1 DEF HelloAnswered, TypeOK
<1>4. HandshakeKnown(p)'
  <2>1. capable[p] /\ capable[Opponent(p)]
    BY <1>1 DEF HelloAnswered, PeerKnown, ReplyKnown
  <2>2. handshake'[Opponent(p)] = handshake[Opponent(p)]
    BY <1>1, OpponentOfPeer DEF HelloAnswered, TypeOK
  <2> QED
    BY <1>1, <1>3, <2>1, <2>2 DEF HelloAnswered, PeerKnown, HandshakeKnown, Verified, TypeOK,
       HandshakeState
<1>5. MachineFitsFlow(p)' /\ TurnsLeft(p)' /\ FlowKnown(p)'
  BY <1>1, <1>2, <1>3 DEF HelloAnswered, Moves, Send, Goto, TypeOK, HandshakeState, PeerKnown,
     MachineFitsFlow, TurnsLeft, FlowKnown, Kind
<1>6. ~Committed(p)'
  BY <1>1, <1>2, CommittedStates DEF Moves, TypeOK, Committed
<1>7. WireKnown'
  <2>1. \A r \in Peer : handshake[r].our_config_accepted => handshake'[r].our_config_accepted
    BY <1>1, <1>3 DEF HelloAnswered, TypeOK, HandshakeState
  <2> QED
    BY <1>1, <2>1 DEF HelloAnswered, Send, WireKnown, TypeOK, Request
<1>8. ReplyKnown(p)'
  BY <1>1 DEF HelloAnswered, Send, ReplyKnown, TypeOK
<1>9. \A q \in Peer : q # p => PeerKnown(q)'
  <2>1. handshake[p].our_config_accepted => handshake'[p].our_config_accepted
    BY <1>1, <1>3 DEF TypeOK, HandshakeState
  <2> QED
    BY <1>1, <1>2, <2>1, OtherPeerKept DEF HelloAnswered, Moves, Send, Goto, TypeOK
<1> QED
  BY <1>2, <1>4, <1>5, <1>6, <1>7, <1>8, <1>9, BothPeersKnown
     DEF Moves, PeerKnown, CommittedKnown

LEMMA ConfigAgreedKeeps ==
  ASSUME LifecycleInvariant, NEW p \in Peer, TypeOK', ConfigAgreed(p)
  PROVE  LifecycleInvariant'
<1>1. TypeOK /\ PeerKnown(p) /\ WireKnown /\ PeerKnown(Opponent(p))
  BY OpponentOfPeer DEF LifecycleInvariant
<1> USE DEF parameters
<1>2. Moves(p, "ready_wait")
  BY HandshakeMoves
<1>3. handshake'[p] = [handshake[p] EXCEPT !.our_config_accepted = TRUE]
  BY <1>1 DEF ConfigAgreed, TypeOK
<1>4. HandshakeKnown(p)'
  <2>1. Verified(p)
    BY <1>1 DEF ConfigAgreed, PeerKnown, FlowKnown, HandshakeKnown, Verified
  <2>2. handshake'[Opponent(p)] = handshake[Opponent(p)]
    BY <1>1, OpponentOfPeer DEF ConfigAgreed, TypeOK
  <2> QED
    BY <1>1, <1>3, <2>1, <2>2 DEF ConfigAgreed, PeerKnown, HandshakeKnown, Verified, TypeOK,
       HandshakeState
<1>5. MachineFitsFlow(p)' /\ TurnsLeft(p)' /\ FlowKnown(p)'
  BY <1>1, <1>2, <1>3 DEF ConfigAgreed, Moves, Send, Goto, TypeOK, HandshakeState, PeerKnown,
     MachineFitsFlow, TurnsLeft, FlowKnown, Kind
<1>6. ~Committed(p)'
  BY <1>1, <1>2, CommittedStates DEF Moves, TypeOK, Committed
<1>7. WireKnown'
  <2>1. \A r \in Peer : handshake[r].our_config_accepted => handshake'[r].our_config_accepted
    BY <1>1, <1>3 DEF ConfigAgreed, TypeOK, HandshakeState
  <2>2. handshake'[p].our_config_accepted
    BY <1>1, <1>3 DEF TypeOK, HandshakeState
  <2> QED
    BY <1>1, <2>1, <2>2 DEF ConfigAgreed, Send, WireKnown, TypeOK, Request
<1>8. ReplyKnown(p)'
  BY <1>1 DEF ConfigAgreed, Send, ReplyKnown, TypeOK
<1>9. \A q \in Peer : q # p => PeerKnown(q)'
  <2>1. handshake'[p].our_config_accepted
    BY <1>1, <1>3 DEF TypeOK, HandshakeState
  <2> QED
    BY <1>1, <1>2, <2>1, OtherPeerKept DEF ConfigAgreed, Moves, Send, Goto, TypeOK
<1> QED
  BY <1>2, <1>4, <1>5, <1>6, <1>7, <1>8, <1>9, BothPeersKnown
     DEF Moves, PeerKnown, CommittedKnown

LEMMA ReadyAcknowledgedKeeps ==
  ASSUME LifecycleInvariant, NEW p \in Peer, TypeOK', ReadyAcknowledged(p)
  PROVE  LifecycleInvariant'
<1>1. TypeOK /\ PeerKnown(p) /\ WireKnown /\ PeerKnown(Opponent(p))
  BY OpponentOfPeer DEF LifecycleInvariant
<1> USE DEF parameters
<1> DEFINE h == [handshake[p] EXCEPT !.we_sent_ready = TRUE]
<1>2. MaybeBecomeReady(p, h)
  BY DEF ReadyAcknowledged
<1>3. /\ ~refused'
      /\ machine' = IF Complete(h) /\ machine[p] = "ready_wait"
                    THEN [machine EXCEPT ![p] = "ready"]
                    ELSE machine
  BY <1>2, ReadyMoves
<1>4. handshake'[p] = h
  BY <1>1 DEF ReadyAcknowledged, TypeOK
<1>5. HandshakeKnown(p)'
  <2>1. handshake'[Opponent(p)] = handshake[Opponent(p)]
    BY <1>1, OpponentOfPeer DEF ReadyAcknowledged, TypeOK
  <2> QED
    BY <1>1, <1>4, <2>1 DEF ReadyAcknowledged, PeerKnown, HandshakeKnown, Verified, TypeOK,
       HandshakeState
<1>6. machine[p] = "ready_wait" /\ ~Committed(p)
  <2>1. machine[p] = "ready_wait"
    BY <1>1 DEF ReadyAcknowledged, PeerKnown, MachineFitsFlow
  <2> QED
    BY <2>1, CommittedStates DEF Committed
<1>7. MachineFitsFlow(p)' /\ TurnsLeft(p)' /\ FlowKnown(p)'
  BY <1>1, <1>3, <1>4, <1>6 DEF ReadyAcknowledged, NoSend, Goto, TypeOK, MachineFitsFlow,
     TurnsLeft, FlowKnown, Kind
<1>8. CommittedKnown(p)'
  <2>1. CASE Complete(h)
    BY <1>4, <2>1 DEF CommittedKnown, Complete
  <2>2. CASE ~Complete(h)
    BY <1>3, <1>6, <2>2 DEF CommittedKnown, Committed
  <2> QED
    BY <2>1, <2>2
<1>9. WireKnown' /\ ReplyKnown(p)'
  <2>1. \A r \in Peer : handshake[r].our_config_accepted => handshake'[r].our_config_accepted
    BY <1>1, <1>4 DEF ReadyAcknowledged, TypeOK, HandshakeState
  <2>2. reply'[p] # "hello"
    BY <1>1 DEF ReadyAcknowledged, NoSend, TypeOK
  <2> QED
    BY <1>1, <2>1, <2>2 DEF ReadyAcknowledged, NoSend, WireKnown, ReplyKnown, TypeOK, Request
<1>10. \A q \in Peer : q # p => PeerKnown(q)'
  <2>1. handshake[p].our_config_accepted => handshake'[p].our_config_accepted
    BY <1>1, <1>4 DEF TypeOK, HandshakeState
  <2> HIDE DEF h
  <2>2. \A q \in Peer : q # p => machine'[q] = machine[q]
    BY <1>1, <1>3 DEF TypeOK
  <2> QED
    BY <1>1, <2>1, <2>2, OtherPeerKept DEF ReadyAcknowledged, NoSend, Goto, TypeOK
<1> QED
  BY <1>3, <1>5, <1>7, <1>8, <1>9, <1>10, BothPeersKnown DEF PeerKnown

(* A request arrives: only a READY changes what its receiver knows, and a   *)
(* READY on the wire was sent by a peer that had verified.                  *)
LEMMA HandleKeeps ==
  ASSUME LifecycleInvariant, NEW p \in Peer, TypeOK', NEW m \in requests, Handle(p, m)
  PROVE  LifecycleInvariant'
<1>1. TypeOK /\ PeerKnown(p) /\ WireKnown /\ ~refused
  BY DEF LifecycleInvariant
<1> USE DEF parameters
<1> DEFINE sender == Opponent(p)
<1>2. /\ sender \in Peer /\ sender # p /\ Opponent(sender) = p
      /\ m \in Request /\ m.sender = sender
  BY <1>1, OpponentOfPeer DEF Handle, TypeOK
<1>3. PeerKnown(sender)
  BY <1>2 DEF LifecycleInvariant
<1> HIDE DEF sender
<1> DEFINE h == IF m.kind = "ready"
                THEN [handshake[p] EXCEPT !.opponent_ready = TRUE]
                ELSE handshake[p]
<1>4. /\ handshake' = [handshake EXCEPT ![p] = h]
      /\ IF m.kind = "ready" THEN MaybeBecomeReady(p, h) ELSE Stay
      /\ requests' \subseteq requests
      /\ UNCHANGED <<config_hash, capable, faulty, flow, call, turns>>
  BY DEF Handle
<1>5. handshake'[p] = h /\ handshake'[sender] = handshake[sender]
  BY <1>1, <1>2, <1>4 DEF TypeOK
<1>6. h \in HandshakeState /\ handshake[p] \in HandshakeState
  <2>1. handshake[p] \in HandshakeState
    BY <1>1 DEF TypeOK
  <2>2. [handshake[p] EXCEPT !.opponent_ready = TRUE] \in HandshakeState
    BY <2>1 DEF HandshakeState
  <2> QED
    BY <2>1, <2>2
<1>7. \/ machine' = machine
      \/ /\ machine' = [machine EXCEPT ![p] = "ready"]
         /\ Complete(h)
         /\ machine[p] = "ready_wait"
  BY <1>4, ReadyMoves DEF Stay
<1>8. ~refused'
  BY <1>1, <1>4, ReadyMoves DEF Stay
<1>9. HandshakeKnown(p)'
  <2>1. m.kind = "ready" => handshake[sender].our_config_accepted
    BY <1>1, <1>2 DEF WireKnown
  <2>2. /\ h.our_hello_acknowledged = handshake[p].our_hello_acknowledged
        /\ h.our_config_accepted = handshake[p].our_config_accepted
        /\ h.opponent_ready => m.kind = "ready" \/ handshake[p].opponent_ready
    BY <1>6 DEF HandshakeState
  <2>3. /\ handshake[p].our_hello_acknowledged => capable[p] /\ capable[Opponent(p)]
        /\ handshake[p].our_config_accepted => Verified(p)
        /\ handshake[p].opponent_ready => handshake[sender].our_config_accepted
    BY <1>1 DEF PeerKnown, HandshakeKnown, sender
  <2> HIDE DEF h
  <2> QED
    BY <1>4, <1>5, <2>1, <2>2, <2>3 DEF HandshakeKnown, Verified, sender
<1>10. FlowKnown(p)' /\ CommittedKnown(p)'
  <2>1. /\ h.our_hello_acknowledged = handshake[p].our_hello_acknowledged
        /\ h.our_config_accepted = handshake[p].our_config_accepted
        /\ h.we_sent_ready = handshake[p].we_sent_ready
        /\ Complete(handshake[p]) => Complete(h)
    BY <1>6, CompleteMeans DEF HandshakeState
  <2>2. FlowKnown(p) /\ CommittedKnown(p)
    BY <1>1 DEF PeerKnown
  <2> HIDE DEF h
  <2>3. FlowKnown(p)'
    BY <1>4, <1>5, <2>1, <2>2 DEF FlowKnown
  <2>4. Committed(p)' => Complete(h)
    BY <1>7, <2>1, <2>2 DEF CommittedKnown, Committed
  <2>5. CommittedKnown(p)'
    BY <1>5, <2>4 DEF CommittedKnown, Complete
  <2> QED
    BY <2>3, <2>5
<1>11. MachineFitsFlow(p)' /\ TurnsLeft(p)'
  <2>1. machine'[p] = machine[p] \/ (machine'[p] = "ready" /\ machine[p] = "ready_wait")
    BY <1>1, <1>7 DEF TypeOK
  <2>2. machine[p] = "ready_wait" =>
          flow[p] \in {"ready", "awaiting_ready", "leaving", "crashed"}
    BY <1>1 DEF PeerKnown, MachineFitsFlow, TypeOK, Flow, Kind, TERMINAL_STATES
  <2>3. flow[p] = "ready" => machine'[p] = machine[p]
    <3>1. flow[p] = "ready" => ~handshake[p].we_sent_ready
      BY <1>1 DEF PeerKnown, FlowKnown, Kind
    <3>2. Complete(h) => handshake[p].we_sent_ready
      BY <1>6, CompleteMeans DEF HandshakeState
    <3> HIDE DEF h
    <3> QED
      BY <1>7, <3>1, <3>2
  <2>4. MachineFitsFlow(p) /\ TurnsLeft(p)
    BY <1>1 DEF PeerKnown
  <2> HIDE DEF h
  <2>5. MachineFitsFlow(p)'
    <3>1. CASE machine'[p] = machine[p]
      BY <1>4, <2>4, <3>1 DEF MachineFitsFlow
    <3>2. CASE machine'[p] = "ready" /\ flow[p] \in {"awaiting_ready", "leaving", "crashed"}
      BY <1>4, <3>2 DEF MachineFitsFlow, Leavable
    <3> QED
      BY <2>1, <2>2, <2>3, <3>1, <3>2
  <2>6. TurnsLeft(p)'
    BY <1>4, <2>1, <2>4 DEF TurnsLeft
  <2> QED
    BY <2>5, <2>6
<1>12. WireKnown'
  <2>1. \A r \in Peer : handshake[r].our_config_accepted => handshake'[r].our_config_accepted
    BY <1>1, <1>4 DEF TypeOK, HandshakeState
  <2> QED
    BY <1>1, <1>4, <2>1 DEF WireKnown, TypeOK, Request
<1>13. ReplyKnown(p)' /\ PeerKnown(sender)'
  <2>1. /\ reply'[p] = reply[p]
        /\ reply'[sender] = reply[sender] \/ reply'[sender] = ReplyTo(p, m.kind)
    BY <1>1, <1>2 DEF Handle, TypeOK, sender
  <2>2. ReplyTo(p, m.kind) = "hello" => capable[sender]
    <3>1. m.kind \in {"hello", "config_hash", "ready"}
      BY <1>2 DEF Request, Kind
    <3> QED
      BY <3>1 DEF ReplyTo, sender
  <2>3. ReplyKnown(p)'
    BY <1>1, <1>4, <2>1 DEF PeerKnown, ReplyKnown
  <2>4. handshake[p].our_config_accepted => handshake'[p].our_config_accepted
    BY <1>5, <1>6 DEF HandshakeState
  <2>5. machine'[sender] = machine[sender]
    BY <1>1, <1>2, <1>7 DEF TypeOK
  <2>6. PeerKnown(sender)'
    BY <1>2, <1>4, <1>5, <2>1, <2>2, <2>4, <2>5, OtherPeerKept
  <2> QED
    BY <2>3, <2>6
<1>14. PeerKnown(p)'
  BY <1>9, <1>10, <1>11, <1>13 DEF PeerKnown
<1>15. \A q \in Peer : q # p => PeerKnown(q)'
  BY <1>13, OpponentOfPeer DEF sender
<1> QED
  BY <1>8, <1>12, <1>14, <1>15, BothPeersKnown

(* The turns and the way out leave the handshake and the wire alone, and a  *)
(* peer in a turn was ready before.                                         *)
LEMMA PlayingKeeps ==
  ASSUME LifecycleInvariant, NEW p \in Peer, TypeOK', Playing(p) \/ Crash(p)
  PROVE  LifecycleInvariant'
<1>1. TypeOK /\ PeerKnown(p) /\ WireKnown /\ ~refused
  BY DEF LifecycleInvariant
<1>2. UNCHANGED <<config_hash, capable, faulty, handshake, call, reply, requests>>
  BY DEF Playing, Crash, StartPlaying, NeverReady, SealAction, Reveal, CompleteTurn, FailTurn,
     MatchOver, Shutdown, parameters
<1>3. WireKnown' /\ ReplyKnown(p)'
  BY <1>1, <1>2 DEF WireKnown, PeerKnown, ReplyKnown
<1>4. ASSUME /\ ~refused'
             /\ \A q \in Peer : q # p => /\ machine'[q] = machine[q] /\ flow'[q] = flow[q]
                                         /\ turns'[q] = turns[q]
             /\ Committed(p)' => Committed(p)
             /\ flow'[p] = flow[p] \/ flow'[p] \in {"turns", "leaving", "gone", "crashed"}
             /\ MachineFitsFlow(p)'
             /\ TurnsLeft(p)'
      PROVE  LifecycleInvariant'
  <2>1. CommittedKnown(p)'
    BY <1>1, <1>2, <1>4 DEF PeerKnown, CommittedKnown, Complete
  <2>2. FlowKnown(p)'
    BY <1>1, <1>2, <1>4 DEF PeerKnown, FlowKnown, Kind
  <2> QED
    BY <1>1, <1>2, <1>3, <1>4, <2>1, <2>2, HandshakeStays DEF parameters
<1>5. CASE StartPlaying(p) \/ NeverReady(p) \/ MatchOver(p) \/ Crash(p)
  <2>1. /\ ~refused' /\ machine' = machine /\ turns' = turns
        /\ flow'[p] \in {"turns", "leaving", "crashed"}
        /\ \A q \in Peer : q # p => flow'[q] = flow[q]
    BY <1>1, <1>5 DEF StartPlaying, NeverReady, MatchOver, Crash, Goto, TypeOK
  <2>2. MachineFitsFlow(p)'
    <3>1. /\ flow'[p] = "turns" => machine[p] = "ready"
          /\ flow'[p] = "leaving" =>
               machine[p] \in {"ready_wait", "ready", "turn_complete"}
      BY <1>1, <1>5 DEF StartPlaying, NeverReady, MatchOver, Crash, Goto, TypeOK, PeerKnown,
         MachineFitsFlow
    <3> QED
      BY <2>1, <3>1 DEF MachineFitsFlow, Leavable
  <2>3. TurnsLeft(p)' /\ (Committed(p)' => Committed(p))
    BY <1>1, <2>1 DEF PeerKnown, TurnsLeft, Committed
  <2> QED
    BY <1>4, <2>1, <2>2, <2>3
<1>6. CASE SealAction(p)
  <2>1. Moves(p, "waiting_for_opponent_commit")
    BY <1>6, TurnMoves
  <2>2. MachineFitsFlow(p)' /\ TurnsLeft(p)'
    BY <1>1, <1>6, <2>1 DEF SealAction, Moves, TypeOK, MachineFitsFlow, TurnsLeft
  <2>3. Committed(p)
    BY <1>6, CommittedStates DEF SealAction, Committed
  <2> QED
    BY <1>1, <1>4, <1>6, <2>1, <2>2, <2>3 DEF SealAction, Moves, TypeOK
<1>7. CASE Reveal(p)
  <2>1. Moves(p, "waiting_for_opponent_reveal")
    BY <1>7, TurnMoves
  <2>2. MachineFitsFlow(p)' /\ TurnsLeft(p)'
    BY <1>1, <1>7, <2>1 DEF Reveal, Moves, TypeOK, PeerKnown, MachineFitsFlow, TurnsLeft
  <2>3. Committed(p)
    BY <1>7, CommittedStates DEF Reveal, Committed
  <2> QED
    BY <1>1, <1>4, <1>7, <2>1, <2>2, <2>3 DEF Reveal, Moves, TypeOK
<1>8. CASE CompleteTurn(p)
  <2>1. Moves(p, "turn_complete")
    BY <1>8, TurnMoves
  <2>2. MachineFitsFlow(p)' /\ TurnsLeft(p)'
    BY <1>1, <1>8, <2>1 DEF CompleteTurn, Moves, TypeOK, MachineFitsFlow, TurnsLeft
  <2>3. Committed(p)
    BY <1>8, CommittedStates DEF CompleteTurn, Committed
  <2> QED
    BY <1>1, <1>4, <1>8, <2>1, <2>2, <2>3 DEF CompleteTurn, Moves, TypeOK
<1>9. CASE FailTurn(p)
  <2>1. Moves(p, "turn_failed")
    BY <1>9, TurnMoves
  <2>2. MachineFitsFlow(p)' /\ TurnsLeft(p)'
    BY <1>1, <1>9, <2>1 DEF FailTurn, Moves, Goto, TypeOK, MachineFitsFlow, TurnsLeft, Leavable
  <2>3. Committed(p)
    BY <1>9, CommittedStates DEF FailTurn, Committed
  <2> QED
    BY <1>1, <1>4, <1>9, <2>1, <2>2, <2>3 DEF FailTurn, Moves, Goto, TypeOK
<1>10. CASE Shutdown(p)
  <2>1. ~refused' /\ machine' = [machine EXCEPT ![p] = IF @ = "error" THEN @ ELSE "finished"]
    BY <1>10, TurnMoves
  <2>2. machine'[p] \in {"error", "finished"}
    BY <1>1, <2>1 DEF TypeOK
  <2>3. MachineFitsFlow(p)' /\ TurnsLeft(p)'
    BY <1>1, <1>10, <2>2 DEF Shutdown, Goto, TypeOK, MachineFitsFlow, TurnsLeft, TERMINAL_STATES
  <2>4. ~Committed(p)'
    BY <2>2, CommittedStates DEF Committed
  <2>5. \A q \in Peer : q # p => machine'[q] = machine[q]
    BY <1>1, <2>1 DEF TypeOK
  <2> QED
    BY <1>1, <1>4, <1>10, <2>1, <2>3, <2>4, <2>5 DEF Shutdown, Goto, TypeOK
<1> QED
  BY <1>5, <1>6, <1>7, <1>8, <1>9, <1>10 DEF Playing

-----------------------------------------------------------------------------
(* The theorems. *)

LEMMA InitKnown == Init => LifecycleInvariant
<1> SUFFICES ASSUME Init
             PROVE  LifecycleInvariant
  OBVIOUS
<1>1. TypeOK
  <2>1. 0 \in 0 .. MaxAttempts /\ 0 \in 0 .. MaxTurn
    BY PeerAssumption
  <2> QED
    BY <2>1, StatesOfTable DEF Init, TypeOK, Flow, HandshakeState, Reply
<1>2. ASSUME NEW p \in Peer
      PROVE  PeerKnown(p)
  <2>1. CommittedKnown(p)
    BY CommittedStates DEF Init, CommittedKnown, Committed
  <2> QED
    BY <2>1 DEF Init, PeerKnown, HandshakeKnown, FlowKnown, ReplyKnown, MachineFitsFlow, TurnsLeft
<1> QED
  BY <1>1, <1>2 DEF Init, LifecycleInvariant, WireKnown

LEMMA StepKeeps == LifecycleInvariant /\ [Next]_vars => LifecycleInvariant'
<1> SUFFICES ASSUME LifecycleInvariant, [Next]_vars
             PROVE  LifecycleInvariant'
  OBVIOUS
<1>1. TypeOK /\ \A p \in Peer : TurnsLeft(p)
  BY DEF LifecycleInvariant, PeerKnown
<1>2. CASE UNCHANGED vars
  BY <1>2 DEF vars, LifecycleInvariant, TypeOK, WireKnown, PeerKnown, HandshakeKnown, Verified,
     FlowKnown, ReplyKnown, CommittedKnown, Committed, Complete, MachineFitsFlow, TurnsLeft
<1>3. ASSUME NEW p \in Peer, Handshaking(p)
      PROVE  LifecycleInvariant'
  <2>1. TypeOK'
    BY <1>1, <1>3, HandshakingTyped
  <2> QED
    BY <1>3, <2>1, QuietHandshaking, HelloAnsweredKeeps, ConfigAgreedKeeps, ReadyAcknowledgedKeeps
       DEF Handshaking
<1>4. ASSUME NEW p \in Peer, Playing(p)
      PROVE  LifecycleInvariant'
  BY <1>1, <1>4, PlayingTyped, PlayingKeeps
<1>5. ASSUME NEW p \in Peer, Receive(p)
      PROVE  LifecycleInvariant'
  BY <1>1, <1>5, ReceiveTyped, HandleKeeps DEF Receive
<1>6. ASSUME NEW p \in Peer, Crash(p)
      PROVE  LifecycleInvariant'
  <2>1. TypeOK'
    BY <1>1, <1>6, FlowPlaces DEF Crash, TypeOK, Goto, parameters
  <2> QED
    BY <1>6, <2>1, PlayingKeeps
<1> QED
  BY <1>2, <1>3, <1>4, <1>5, <1>6 DEF Next

(* The inductive invariant: what the handshake, the wire and the place of   *)
(* each coroutine say about the two configurations and the state machines.  *)
THEOREM LifecycleSafe == Spec => []LifecycleInvariant
<1>1. Init => LifecycleInvariant
  BY InitKnown
<1>2. LifecycleInvariant /\ [Next]_vars => LifecycleInvariant'
  BY StepKeeps
<1> QED
  BY <1>1, <1>2, PTL DEF Spec

(* Every variable of the lifecycle keeps its type. *)
THEOREM LifecycleTyped == Spec => []TypeOK
<1>1. LifecycleInvariant => TypeOK
  BY DEF LifecycleInvariant
<1> QED
  BY <1>1, LifecycleSafe, PTL

(* await_ready and _maybe_become_ready: a peer that is ready or in a turn   *)
(* plays an opponent that verified the same configuration, whatever was     *)
(* lost, retried or late on the way.                                        *)
THEOREM NoUnverifiedTurn == Spec => []NoTurnBeforeBothVerified
<1>1. LifecycleInvariant => NoTurnBeforeBothVerified
  <2> SUFFICES ASSUME LifecycleInvariant, NEW p \in Peer, Committed(p)
               PROVE  /\ \A q \in Peer :
                           /\ handshake[q].our_config_accepted
                           /\ capable[q]
                           /\ config_hash[q] = config_hash[Opponent(q)]
                      /\ handshake[p].opponent_ready
    BY DEF NoTurnBeforeBothVerified
  <2>1. handshake[p] \in HandshakeState /\ PeerKnown(p) /\ PeerKnown(Opponent(p))
    BY OpponentOfPeer DEF LifecycleInvariant, TypeOK
  <2>2. handshake[p].our_config_accepted /\ handshake[p].opponent_ready
    BY <2>1, CompleteMeans DEF PeerKnown, CommittedKnown
  <2>3. handshake[Opponent(p)].our_config_accepted /\ Verified(p)
    BY <2>1, <2>2 DEF PeerKnown, HandshakeKnown
  <2> QED
    BY <2>2, <2>3, OpponentOfPeer DEF Verified
<1> QED
  BY <1>1, LifecycleSafe, PTL

(* PeerStateMachine.transition never raises on the way from start-up to     *)
(* exit, and shutdown leaves the machine in a terminal state.               *)
THEOREM TransitionsNeverRefused == Spec => []LifecycleSound
<1>1. LifecycleInvariant => LifecycleSound
  BY DEF LifecycleInvariant, PeerKnown, MachineFitsFlow, LifecycleSound
<1> QED
  BY <1>1, LifecycleSafe, PTL
=============================================================================
