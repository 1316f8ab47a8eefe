----------------------------- MODULE SubGameV3 -----------------------------
(***************************************************************************)
(* One sub-game of reference-v3 (interop.turnloop_v3): the two peers take  *)
(* half-turns in alternation, the thief first, and push each as a sealed   *)
(* message into the other's turn queue.  Nobody knows the other's cell:    *)
(* the cop claims its own with every message, the thief answers truthfully *)
(* and reports what only it can see.                                       *)
(*                                                                         *)
(* Each side seals one record per step, so the step stands for the commit. *)
(***************************************************************************)
EXTENDS Board, Sequences

CONSTANTS
  Faults,   \* what may go wrong: "request_lost", "reply_lost", "timeout"
  MaxDrops, \* bound: connections dropped in the middle of a call
  Window    \* Inbox.window

ASSUME SubGameAssumption ==
  /\ Faults \subseteq {"request_lost", "reply_lost", "timeout"}
  /\ MaxDrops \in Nat
  /\ Window \in Nat

Contract == INSTANCE Delivery
Seqs == INSTANCE SequencesExt

VARIABLES
  session, \* GameSessionV3: local, step, inbox, answer, outcome
  queue,   \* turn_q, what the opponent pushed and the loop has not read
  call,    \* the outbound call: message, attempt, has it arrived
  pc,      \* where play_to_outcome is
  drops    \* connections dropped so far

vars == <<session, queue, call, pc, drops>>

Answers == {"", "missed", "caught"}
Outcomes == {"", "capture", "survival"}
Places == {"opening", "waiting", "sending", "settled", "failed"}

(* A cell that may be absent is a set of at most one. *)
TurnMessages == [step : Nat, commit : Nat, barrier : SUBSET Cells,
                 claim : SUBSET Cells, answer : Answers, win : BOOLEAN]
NoCall == [message |-> {}, attempt |-> 0, arrived |-> FALSE]

NewSession(r) == [local |-> InitialState(r), step |-> 0,
                  inbox |-> Contract!EmptyInbox, answer |-> "", outcome |-> ""]

Opens_Both(r) == TRUE
Opens(r) == r = "thief"

Init ==
  /\ session = [r \in Role |-> NewSession(r)]
  /\ queue = [r \in Role |-> <<>>]
  /\ call = [r \in Role |-> NoCall]
  /\ pc = [r \in Role |-> IF Opens(r) THEN "opening" ELSE "waiting"]
  /\ drops = 0

-----------------------------------------------------------------------------
(* take_turn *)

Survived(s) == s.local.role = "thief" /\ s.step + 1 >= SurvivalThreshold

Turned(s, a) ==
  [s EXCEPT !.local = Applied(@, a), !.step = @ + 1, !.answer = "",
            !.outcome = IF Survived(s) THEN "survival" ELSE @]

Claim_BeforeMoving(s, a) ==
  IF s.local.role = "police" THEN {s.local.position} ELSE {}
Claim(s, a) ==
  IF s.local.role = "police" THEN {Applied(s.local, a).position} ELSE {}

TurnMessage(s, a) ==
  [step |-> s.step + 1, commit |-> s.step + 1,
   barrier |-> IF a.kind = "move" THEN {} ELSE {a.cell},
   claim |-> Claim(s, a), answer |-> s.answer, win |-> Survived(s)]

(* terminal_message: a STAY that carries the answer still owed. *)
Closed(s) == [s EXCEPT !.step = @ + 1, !.answer = ""]
TerminalMessage(s) ==
  [step |-> s.step + 1, commit |-> s.step + 1, barrier |-> {}, claim |-> {},
   answer |-> s.answer, win |-> FALSE]

-----------------------------------------------------------------------------
(* receive_turn *)

(* A barrier that ends the game is conceded, and the concession is never    *)
(* overwritten by the answer to the claim in the same message.              *)
Concedes(local, m) ==
  /\ local.role = "thief"
  /\ m.barrier # {}
  /\ local.position \in m.barrier \/ IsTrapped(local)

Heard_ClaimOverwrites(s, m) ==
  LET local    == [s.local EXCEPT !.barriers = @ \cup m.barrier]
      conceded == Concedes(local, m)
      claimed  == local.role = "thief" /\ m.claim # {}
      landed   == claimed /\ local.position \in m.claim
  IN  [s EXCEPT
        !.local   = local,
        !.answer  = IF landed \/ (conceded /\ ~claimed) THEN "caught"
                    ELSE IF claimed THEN "missed" ELSE @,
        !.outcome = IF m.win THEN "survival"
                    ELSE IF conceded \/ landed \/ m.answer = "caught"
                    THEN "capture" ELSE @]
Heard_WinIgnored(s, m) ==
  LET local    == [s.local EXCEPT !.barriers = @ \cup m.barrier]
      conceded == Concedes(local, m)
      claimed  == local.role = "thief" /\ m.claim # {} /\ ~conceded
      landed   == claimed /\ local.position \in m.claim
  IN  [s EXCEPT
        !.local   = local,
        !.answer  = IF conceded \/ landed THEN "caught"
                    ELSE IF claimed THEN "missed" ELSE @,
        !.outcome = IF conceded \/ landed \/ m.answer = "caught"
                    THEN "capture" ELSE @]
Heard(s, m) ==
  LET local    == [s.local EXCEPT !.barriers = @ \cup m.barrier]
      conceded == Concedes(local, m)
      claimed  == local.role = "thief" /\ m.claim # {} /\ ~conceded
      landed   == claimed /\ local.position \in m.claim
  IN  [s EXCEPT
        !.local   = local,
        !.answer  = IF conceded \/ landed THEN "caught"
                    ELSE IF claimed THEN "missed" ELSE @,
        !.outcome = IF m.win THEN "survival"
                    ELSE IF conceded \/ landed \/ m.answer = "caught"
                    THEN "capture" ELSE @]

(* Every message that this one makes ready, in step order. *)
Received(s, m) ==
  Seqs!FoldLeft(Heard, [s EXCEPT !.inbox = Contract!Offered(@, m)],
                Contract!Ready(s.inbox, m))

-----------------------------------------------------------------------------
(* play_to_outcome *)

Over(s) == s.outcome # "" \/ s.step >= MaxMoves
AfterSend(s) == IF Over(s) THEN "settled" ELSE "waiting"

Dial(r, s, m) ==
  /\ session' = [session EXCEPT ![r] = s]
  /\ call' = [call EXCEPT ![r] = [message |-> {m}, attempt |-> 1, arrived |-> FALSE]]
  /\ pc' = [pc EXCEPT ![r] = "sending"]

Stop(r, s, place) ==
  /\ session' = [session EXCEPT ![r] = s]
  /\ pc' = [pc EXCEPT ![r] = place]
  /\ UNCHANGED call

(* _send_next, from the session s that receive_turn left. *)
TakeTurn(r, s) ==
  /\ s.outcome = ""
  /\ \E a \in Choices(s.local) :
       \/ Legal(s.local, a) /\ Dial(r, Turned(s, a), TurnMessage(s, a))
       \/ ~Legal(s.local, a) /\ Stop(r, [s EXCEPT !.step = @ + 1], "failed")
Conclude(r, s) ==
  /\ s.outcome # ""
  /\ \/ s.answer # "" /\ Dial(r, Closed(s), TerminalMessage(s))
     \/ s.answer = "" /\ Stop(r, s, "settled")
SendNext(r, s) == TakeTurn(r, s) \/ Conclude(r, s)

Open(r) ==
  /\ pc[r] = "opening"
  /\ SendNext(r, session[r])
  /\ UNCHANGED <<queue, drops>>

(* The loop answers whatever it read, a message it applied or one that was  *)
(* absorbed; a refused one ends it.                                         *)
Receive(r) ==
  /\ pc[r] = "waiting"
  /\ queue[r] # <<>>
  /\ IF Contract!Refused(session[r].inbox, Head(queue[r]))
     THEN Stop(r, session[r], "failed")
     ELSE \E s \in {Received(session[r], Head(queue[r]))} : SendNext(r, s)
  /\ queue' = [queue EXCEPT ![r] = Tail(@)]
  /\ UNCHANGED drops

(* wait_for(turn_q.get()) expires. *)
TimeOut(r) ==
  /\ "timeout" \in Faults
  /\ pc[r] = "waiting"
  /\ queue[r] = <<>>
  /\ pc' = [pc EXCEPT ![r] = "failed"]
  /\ UNCHANGED <<session, queue, call, drops>>

-----------------------------------------------------------------------------
(* OutboundSession.call and the opponent's receive_turn tool, which only    *)
(* puts the message on the queue.                                           *)

Arrive(r) ==
  /\ pc[r] = "sending"
  /\ ~call[r].arrived
  /\ \E m \in call[r].message :
       queue' = [queue EXCEPT ![Opponent(r)] = Append(@, m)]
  /\ call' = [call EXCEPT ![r].arrived = TRUE]
  /\ UNCHANGED <<session, pc, drops>>

Return(r) ==
  /\ pc[r] = "sending"
  /\ call[r].arrived
  /\ call' = [call EXCEPT ![r] = NoCall]
  /\ pc' = [pc EXCEPT ![r] = AfterSend(session[r])]
  /\ UNCHANGED <<session, queue, drops>>

(* The connection drops in mid-call, before or after the message arrived:   *)
(* once it is sent again over a new connection, twice is an error.          *)
Dropped(r) ==
  /\ pc[r] = "sending"
  /\ (IF call[r].arrived THEN "reply_lost" ELSE "request_lost") \in Faults
  /\ drops < MaxDrops
  /\ drops' = drops + 1
Reconnect(r) ==
  /\ Dropped(r)
  /\ call[r].attempt = 1
  /\ call' = [call EXCEPT ![r].attempt = 2, ![r].arrived = FALSE]
  /\ UNCHANGED <<session, queue, pc>>
GiveUp(r) ==
  /\ Dropped(r)
  /\ call[r].attempt = 2
  /\ call' = [call EXCEPT ![r] = NoCall]
  /\ pc' = [pc EXCEPT ![r] = "failed"]
  /\ UNCHANGED <<session, queue>>

Work(r) == Open(r) \/ Receive(r) \/ Arrive(r) \/ Return(r)
Trouble(r) == TimeOut(r) \/ Reconnect(r) \/ GiveUp(r)

Next == \E r \in Role : Work(r) \/ Trouble(r)
Spec == Init /\ [][Next]_vars

(* The event loop of each process runs what is ready. *)
FairSpec == Spec /\ \A r \in Role : WF_vars(Work(r))
-----------------------------------------------------------------------------
Result(r) == IF session[r].outcome = "" THEN "timeout" ELSE session[r].outcome

(* The type of every variable. *)
TypeOK ==
  /\ \A r \in Role :
       /\ session[r].local \in LocalState
       /\ session[r].step \in 0 .. MaxMoves + 1
       /\ session[r].answer \in Answers
       /\ session[r].outcome \in Outcomes
  /\ queue \in [Role -> Seq(TurnMessages)]
  /\ call \in [Role -> [message : SUBSET TurnMessages, attempt : 0 .. 2,
                        arrived : BOOLEAN]]
  /\ pc \in [Role -> Places]
  /\ drops \in 0 .. MaxDrops

(* Half-turns alternate: the thief is never more than one step ahead of the *)
(* cop and never behind it, so nobody ever moves twice in a row.  And the   *)
(* thief never chooses a move on an outdated board: whenever it is its turn *)
(* it knows every barrier the cop has placed.                               *)
Alternation ==
  /\ session["thief"].step - session["police"].step \in {0, 1}
  /\ pc["thief"] = "waiting" /\ session["police"].step = session["thief"].inbox.next - 1
       => session["thief"].local.barriers = session["police"].local.barriers

(* Two peers that settled a sub-game describe the same game: "Both sides    *)
(* then describe the same game differently" is what zeroes both teams, and  *)
(* no game of two answering peers ends as a timeout.                        *)
OutcomesAgree ==
  (\A r \in Role : pc[r] = "settled") =>
    /\ Result("thief") = Result("police")
    /\ Result("thief") # "timeout"

(* A capture either side has settled on happened on the board neither of    *)
(* them sees whole.                                                         *)
CaptureIsReal ==
  \A r \in Role : session[r].outcome = "capture" =>
    LET thief == session["thief"].local IN
    \/ session["police"].local.position = thief.position
    \/ thief.position \in thief.barriers
    \/ IsTrapped(thief)

(* Every sub-game in which neither peer fails is settled by both: nobody    *)
(* "waits out its budget" for a message that will not come.                 *)
SubGameDecided ==
  \/ <>(\A r \in Role : pc[r] = "settled")
  \/ <>(\E r \in Role : pc[r] = "failed")
=============================================================================
