-------------------------- MODULE SubGameV3Proofs --------------------------
(* Proofs about a sub-game of reference-v3 for every board, quota, number   *)
(* of turns and number of dropped connections, where no reply is lost.      *)
EXTENDS SubGameV3Invariant, SequenceTheorems, TLAPS

-----------------------------------------------------------------------------
(* The delivery contract, of an inbox with nothing kept ahead. *)

LEMMA NothingKept ==
  ASSUME NEW in, NEW m, m.step \in Nat, DOMAIN in.buffered = {}
  PROVE  Contract!LastReady(in, m) = m.step
<1>1. {k \in {m.step} \cup DOMAIN in.buffered :
         k >= m.step /\ (m.step + 1) .. k \subseteq DOMAIN in.buffered} = {m.step}
  OBVIOUS
<1> QED
  BY <1>1 DEF Contract!LastReady, Contract!Sets!Max

(* The next step is applied, and the one after it is the next. *)
LEMMA NextIsApplied ==
  ASSUME NEW in, InboxInOrder(in), NEW m \in TurnMessages, m.step = in.next
  PROVE  /\ ~Contract!Refused(in, m)
         /\ Contract!Ready(in, m) = <<m>>
         /\ InboxInOrder(Contract!Offered(in, m))
         /\ Contract!Offered(in, m).next = in.next + 1
<1>1. in.next \in Nat /\ in.next \notin 1 .. in.next - 1 /\ in.next # 0
  BY DEF InboxInOrder
<1>2. Contract!Decision(in, m) = "apply"
  BY <1>1 DEF Contract!Decision, InboxInOrder
<1>3. Contract!LastReady(in, m) = m.step
  BY <1>1, NothingKept DEF InboxInOrder
<1>4. Contract!LastReady(in, m) - m.step + 1 = 1
  BY <1>1, <1>3
<1>5. Contract!Ready(in, m) = <<m>>
  <2>1. Contract!Ready(in, m) = [i \in 1 .. 1 |-> IF i = 1 THEN m ELSE in.buffered[m.step + i - 1]]
    BY <1>2, <1>4 DEF Contract!Ready
  <2>2. [i \in 1 .. 1 |-> IF i = 1 THEN m ELSE in.buffered[m.step + i - 1]]
          = [i \in 1 .. 1 |-> m]
    OBVIOUS
  <2> QED
    BY <2>1, <2>2
<1>6. /\ Contract!Offered(in, m).next = in.next + 1
      /\ DOMAIN Contract!Offered(in, m).played = 1 .. in.next
      /\ DOMAIN Contract!Offered(in, m).buffered = {}
      /\ Contract!Offered(in, m) =
           [next     |-> Contract!Offered(in, m).next,
            played   |-> Contract!Offered(in, m).played,
            buffered |-> Contract!Offered(in, m).buffered]
  <2>1. DOMAIN in.played \cup m.step .. m.step = 1 .. in.next
    BY <1>1 DEF InboxInOrder
  <2>2. DOMAIN in.buffered = {}
    BY DEF InboxInOrder
  <2> QED
    BY <1>2, <1>3, <2>1, <2>2 DEF Contract!Offered, Contract!Funs!RestrictDomain,
       Contract!Funs!Restrict
<1>7. in.next + 1 - 1 = in.next
  BY <1>1
<1>8. in.next + 1 \in Nat \ {0}
  BY <1>1
<1>9. InboxInOrder(Contract!Offered(in, m))
  <2> HIDE <1>2, <1>3
  <2> DEFINE o == Contract!Offered(in, m)
  <2> HIDE DEF o
  <2>1. o.next = in.next + 1 /\ DOMAIN o.played = 1 .. in.next /\ DOMAIN o.buffered = {}
        /\ o = [next |-> o.next, played |-> o.played, buffered |-> o.buffered]
    BY <1>6 DEF o
  <2>2. InboxInOrder(o)
    BY <1>7, <1>8, <2>1 DEF InboxInOrder
  <2> QED
    BY <2>2 DEF o
<1>10. ~Contract!Refused(in, m)
  BY <1>2 DEF Contract!Refused
<1> QED
  BY <1>5, <1>6, <1>9, <1>10

(* Hearing a sequence of one message is hearing the message. *)
LEMMA HeardOnce ==
  ASSUME NEW s, NEW m
  PROVE  Seqs!FoldLeft(Heard, s, <<m>>) = Heard(s, m)
<1> DEFINE q == <<m>>
           Folds(f) == f = [w \in SUBSET {1} |->
             IF w = {} THEN s ELSE Heard(f[w \ {Seqs!Max(w)}], q[Seqs!Max(w)])]
<1>1. DOMAIN q = {1} /\ q[1] = m
  OBVIOUS
<1>2. Seqs!Max({1}) = 1
  BY DEF Seqs!Max
<1>3. /\ {1} \ {1} = {} /\ {} \in SUBSET {1} /\ {1} \in SUBSET {1} /\ {1} # {}
      /\ \A w \in SUBSET {1} : w = {} \/ w = {1}
  OBVIOUS
<1> HIDE DEF q
<1>4. Seqs!FoldLeft(Heard, s, q) = (CHOOSE f : Folds(f))[{1}]
  BY <1>1 DEF Seqs!FoldLeft, Seqs!MapThenFoldSet
<1>5. \E f : Folds(f)
  <2> DEFINE g == [w \in SUBSET {1} |-> IF w = {} THEN s ELSE Heard(s, m)]
             h == [w \in SUBSET {1} |->
               IF w = {} THEN s ELSE Heard(g[w \ {Seqs!Max(w)}], q[Seqs!Max(w)])]
  <2>1. g[{}] = s /\ DOMAIN g = SUBSET {1} /\ DOMAIN h = SUBSET {1}
    BY <1>3
  <2>2. ASSUME NEW w \in SUBSET {1}
        PROVE  (IF w = {} THEN s ELSE Heard(s, m))
                 = IF w = {} THEN s ELSE Heard(g[w \ {Seqs!Max(w)}], q[Seqs!Max(w)])
    <3> HIDE DEF g
    <3>1. CASE w = {}
      BY <3>1
    <3>2. CASE w = {1}
      <4>1. g[w \ {Seqs!Max(w)}] = s /\ q[Seqs!Max(w)] = m
        BY <1>1, <1>2, <1>3, <2>1, <3>2
      <4> QED
        BY <4>1
    <3> QED
      BY <1>3, <3>1, <3>2
  <2>3. \A w \in SUBSET {1} : g[w] = h[w]
    BY <2>2
  <2>4. g = [w \in SUBSET {1} |-> g[w]] /\ h = [w \in SUBSET {1} |-> h[w]]
    OBVIOUS
  <2>5. g = h
    <3> HIDE DEF g, h
    <3> QED
      BY <2>3, <2>4
  <2> QED
    BY <2>5
<1>6. Folds(CHOOSE f : Folds(f))
  <2> HIDE DEF Folds
  <2> QED
    BY <1>5
<1>7. (CHOOSE f : Folds(f))[{1}] = Heard(s, m)
  <2> DEFINE f == CHOOSE f : Folds(f)
  <2>1. Folds(f)
    BY <1>6
  <2> HIDE DEF f
  <2>2. f[{}] = s
    BY <1>3, <2>1
  <2>3. f[{1}] = Heard(f[{1} \ {1}], q[1])
    BY <1>2, <1>3, <2>1
  <2>4. f[{1}] = Heard(s, m)
    BY <1>1, <1>3, <2>2, <2>3
  <2> QED
    BY <2>4 DEF f
<1> QED
  BY <1>4, <1>7 DEF q

-----------------------------------------------------------------------------
(* What a session becomes. *)

LEMMA Roles ==
  /\ "police" \in Role /\ "thief" \in Role
  /\ Opponent("police") = "thief" /\ Opponent("thief") = "police"
  /\ \A r \in Role : r = "police" \/ r = "thief"
BY DEF Role, Opponent

LEMMA FieldsOfState ==
  ASSUME NEW s \in LocalState
  PROVE  /\ s.position \in Cells
         /\ s.barriers \subseteq Cells
         /\ s.placed \in Nat
         /\ s.role \in Role
BY DEF LocalState

(* The session into which an arrival in order is put, and what is heard.    *)
(* Session s of r, only its inbox a step further. *)
Advanced(r, s, o) ==
  /\ IsSession(r, o)
  /\ o.local = s.local /\ o.step = s.step
  /\ o.answer = s.answer /\ o.outcome = s.outcome
  /\ o.inbox.next = s.inbox.next + 1

LEMMA InOrderIsHeard ==
  ASSUME NEW r \in Role, NEW s, IsSession(r, s), NEW m \in TurnMessages,
         m.step = s.inbox.next
  PROVE  /\ ~Contract!Refused(s.inbox, m)
         /\ \E o : Received(s, m) = Heard(o, m) /\ Advanced(r, s, o)
<1>1. InboxInOrder(s.inbox)
  BY DEF IsSession
<1>2. /\ ~Contract!Refused(s.inbox, m)
      /\ Contract!Ready(s.inbox, m) = <<m>>
      /\ InboxInOrder(Contract!Offered(s.inbox, m))
      /\ Contract!Offered(s.inbox, m).next = s.inbox.next + 1
  BY <1>1, NextIsApplied
<1> DEFINE o == [s EXCEPT !.inbox = Contract!Offered(@, m)]
<1>3. Received(s, m) = Heard(o, m)
  BY <1>2, HeardOnce DEF Received
<1>4. o = [local |-> s.local, step |-> s.step, inbox |-> Contract!Offered(s.inbox, m),
           answer |-> s.answer, outcome |-> s.outcome]
  BY DEF IsSession
<1>5. IsSession(r, o)
  BY <1>2, <1>4 DEF IsSession
<1>6. Advanced(r, s, o)
  BY <1>2, <1>4, <1>5 DEF Advanced
<1> QED
  BY <1>2, <1>3, <1>6

(* What hearing changes: the barriers, the answer owed and the outcome. *)
Attends(r, s, m, h) ==
  /\ IsSession(r, h) /\ h.step = s.step /\ h.inbox = s.inbox
  /\ h.local = [s.local EXCEPT !.barriers = @ \cup m.barrier]

LEMMA HeardKeeps ==
  ASSUME NEW r \in Role, NEW s, IsSession(r, s), NEW m \in TurnMessages
  PROVE  Attends(r, s, m, Heard(s, m))
<1> DEFINE local == [s.local EXCEPT !.barriers = @ \cup m.barrier]
           h == Heard(s, m)
<1>1. m.barrier \subseteq Cells /\ m.answer \in Answers /\ m.win \in BOOLEAN
  BY DEF TurnMessages
<1>2. local \in LocalState /\ local.role = r
  BY <1>1 DEF IsSession, LocalState
<1>3. h = [local |-> local, step |-> s.step, inbox |-> s.inbox,
           answer |-> h.answer, outcome |-> h.outcome]
  <2> DEFINE conceded == Concedes(local, m)
             claimed == local.role = "thief" /\ m.claim # {} /\ ~conceded
             landed == claimed /\ local.position \in m.claim
             answer == IF conceded \/ landed THEN "caught"
                       ELSE IF claimed THEN "missed" ELSE s.answer
             outcome == IF m.win THEN "survival"
                        ELSE IF conceded \/ landed \/ m.answer = "caught"
                        THEN "capture" ELSE s.outcome
  <2>1. h = [s EXCEPT !.local = local, !.answer = answer, !.outcome = outcome]
    BY DEF Heard
  <2>2. s = [local |-> s.local, step |-> s.step, inbox |-> s.inbox,
             answer |-> s.answer, outcome |-> s.outcome]
    BY DEF IsSession
  <2> HIDE DEF local, answer, outcome, h
  <2>3. h = [local |-> local, step |-> s.step, inbox |-> s.inbox,
             answer |-> answer, outcome |-> outcome]
    BY <2>1, <2>2
  <2> QED
    BY <2>3
<1>4. h.answer \in Answers /\ h.outcome \in Outcomes
  BY DEF Heard, IsSession, Answers, Outcomes
<1> HIDE DEF h, local
<1>5. h.local = local /\ h.step = s.step /\ h.inbox = s.inbox
  BY <1>3
<1>6. IsSession(r, h)
  BY <1>2, <1>3, <1>4, <1>5 DEF IsSession
<1> QED
  BY <1>5, <1>6 DEF Attends, h, local

(* Where a capture is: on the thief's cell, or all round it. *)
IsReal(cell, local) ==
  \/ cell = local.position
  \/ local.position \in local.barriers
  \/ IsTrapped(local)

(* The thief's answer is the truth about the board, and its outcome. *)
Truthful(cell, h) ==
  /\ h.outcome \in {"", "capture"}
  /\ h.outcome = "capture" <=> h.answer = "caught"
  /\ h.outcome = "capture" => IsReal(cell, h.local)

LEMMA ThiefHears ==
  ASSUME NEW s, IsSession("thief", s), s.outcome = "",
         NEW m \in TurnMessages, NEW cell,
         m.claim = {cell}, m.answer = "", ~m.win
  PROVE  Truthful(cell, Heard(s, m))
<1> DEFINE local == [s.local EXCEPT !.barriers = @ \cup m.barrier]
           conceded == Concedes(local, m)
           landed == local.position = cell
<1>1. s.local \in LocalState /\ s.local.role = "thief"
  BY DEF IsSession
<1>2. local.role = "thief" /\ local.position = s.local.position
  BY <1>1 DEF LocalState
<1>3. Heard(s, m).local = local
  <2>1. Attends("thief", s, m, Heard(s, m))
    BY HeardKeeps, Roles
  <2> QED
    BY <2>1 DEF Attends
<1>4. /\ Heard(s, m).answer = IF conceded \/ landed THEN "caught" ELSE "missed"
      /\ Heard(s, m).outcome = IF conceded \/ landed THEN "capture" ELSE ""
  <2> HIDE DEF local
  <2>1. /\ Heard(s, m).answer =
             IF conceded \/ (local.role = "thief" /\ m.claim # {} /\ ~conceded
                             /\ local.position \in m.claim) THEN "caught"
             ELSE IF local.role = "thief" /\ m.claim # {} /\ ~conceded
                  THEN "missed" ELSE s.answer
        /\ Heard(s, m).outcome =
             IF m.win THEN "survival"
             ELSE IF conceded \/ (local.role = "thief" /\ m.claim # {} /\ ~conceded
                             /\ local.position \in m.claim) \/ m.answer = "caught"
                  THEN "capture" ELSE s.outcome
    BY DEF Heard, IsSession, local
  <2> HIDE DEF conceded
  <2> QED
    BY <1>2, <2>1
<1>5. conceded => local.position \in local.barriers \/ IsTrapped(local)
  <2>1. m.barrier \subseteq local.barriers
    BY <1>1 DEF LocalState
  <2> QED
    BY <2>1 DEF Concedes
<1> QED
  BY <1>3, <1>4, <1>5 DEF IsReal, Truthful

(* The cop takes over what the thief says has been decided. *)
LEMMA CopHears ==
  ASSUME NEW s, IsSession("police", s), s.outcome = "", s.answer = "",
         NEW m \in TurnMessages, m.barrier = {}, m.claim = {}
  PROVE  /\ Heard(s, m).local = s.local
         /\ Heard(s, m).answer = ""
         /\ Heard(s, m).outcome = IF m.win THEN "survival"
                                  ELSE IF m.answer = "caught" THEN "capture" ELSE ""
<1> DEFINE local == [s.local EXCEPT !.barriers = @ \cup m.barrier]
<1>1. s.local \in LocalState /\ s.local.role = "police"
  BY DEF IsSession
<1>2. local = s.local
  BY <1>1 DEF LocalState
<1>3. ~Concedes(local, m)
  BY DEF Concedes
<1>4. Heard(s, m).local = local
  <2>1. Attends("police", s, m, Heard(s, m))
    BY HeardKeeps, Roles
  <2> QED
    BY <2>1 DEF Attends
<1>5. /\ Heard(s, m).answer = ""
      /\ Heard(s, m).outcome = IF m.win THEN "survival"
                               ELSE IF m.answer = "caught" THEN "capture" ELSE ""
  <2>1. local.role = "police"
    BY <1>1, <1>2
  <2> HIDE DEF local
  <2> QED
    BY <1>3, <2>1 DEF Heard, IsSession, local
<1> QED
  BY <1>2, <1>4, <1>5

-----------------------------------------------------------------------------
(* What the two kinds of message say, and what is left of the session. *)

LEMMA ChoicesTyped ==
  ASSUME NEW s \in LocalState, NEW a \in Choices(s), Legal(s, a)
  PROVE  /\ a.kind = "move" => a \in Moves
         /\ a.kind # "move" => a \in Placements
         /\ s.role = "thief" => a.kind = "move"
<1>1. StandStill \in Moves
  BY DEF StandStill, Move, Moves, Direction
<1>2. a \in BoardAction
  BY <1>1 DEF Choices, LegalActions, BoardAction
<1>3. a \in Moves => a.kind = "move"
  BY DEF Moves
<1>4. a \in Placements => a.kind = "place_barrier"
  BY DEF Placements
<1> QED
  BY <1>2, <1>3, <1>4 DEF BoardAction, Legal, PlacementLegal

(* Session s of r after a turn, and the message about it. *)
TurnsTo(r, s, t, m) ==
  /\ IsSession(r, t) /\ m \in TurnMessages
  /\ t.step = s.step + 1 /\ t.inbox = s.inbox
  /\ t.outcome = IF m.win THEN "survival" ELSE s.outcome
  /\ t.local.barriers = s.local.barriers \cup m.barrier
  /\ t.answer = "" /\ m.step = s.step + 1 /\ m.answer = s.answer
  /\ m.claim = IF r = "police" THEN {t.local.position} ELSE {}
  /\ r = "thief" => m.barrier = {}
  /\ m.win <=> r = "thief" /\ s.step + 1 >= SurvivalThreshold

LEMMA Turning ==
  ASSUME NEW r \in Role, NEW s, IsSession(r, s),
         NEW a \in Choices(s.local), Legal(s.local, a)
  PROVE  TurnsTo(r, s, Turned(s, a), TurnMessage(s, a))
<1> DEFINE local == Applied(s.local, a)
           barrier == IF a.kind = "move" THEN {} ELSE {a.cell}
           t == Turned(s, a)
           m == TurnMessage(s, a)
<1>1. s.local \in LocalState /\ s.local.role = r /\ s.step \in Nat
  BY DEF IsSession
<1>2. /\ a.kind = "move" => a \in Moves
      /\ a.kind # "move" => a \in Placements
      /\ r = "thief" => a.kind = "move"
  BY <1>1, ChoicesTyped
<1>3. barrier \subseteq Cells
  BY <1>2 DEF Placements
<1>4. Followed(s.local.position, a) \in Cells
  BY <1>1, FieldsOfState DEF Followed, Legal, MoveLegal, IsPassable
<1>5. /\ local.role = r /\ local.position \in Cells
      /\ local.barriers = s.local.barriers \cup barrier
      /\ local \in LocalState
  <2>1. s.local.placed + 1 \in Nat
    BY <1>1, FieldsOfState
  <2>2. /\ local.role = r /\ local.position = Followed(s.local.position, a)
        /\ local.barriers = s.local.barriers \cup barrier
        /\ local.placed \in Nat
        /\ local = [role |-> local.role, position |-> local.position,
                    barriers |-> local.barriers, placed |-> local.placed]
    BY <1>1, <2>1, FieldsOfState DEF Applied
  <2>3. local.barriers \subseteq Cells
    BY <1>1, <1>3, <2>2, FieldsOfState
  <2> HIDE DEF local
  <2> QED
    BY <1>4, <2>2, <2>3 DEF LocalState
<1>6. Survived(s) <=> r = "thief" /\ s.step + 1 >= SurvivalThreshold
  BY <1>1 DEF Survived
<1>7. Claim(s, a) = IF r = "police" THEN {local.position} ELSE {}
  BY <1>1 DEF Claim
<1> HIDE DEF local, barrier
<1>8. t = [local |-> local, step |-> s.step + 1, inbox |-> s.inbox, answer |-> "",
           outcome |-> IF Survived(s) THEN "survival" ELSE s.outcome]
  <2> DEFINE outcome == IF Survived(s) THEN "survival" ELSE s.outcome
             step == s.step + 1
  <2>1. t = [s EXCEPT !.local = local, !.step = step, !.answer = "", !.outcome = outcome]
    BY DEF Turned, local
  <2>2. s = [local |-> s.local, step |-> s.step, inbox |-> s.inbox,
             answer |-> s.answer, outcome |-> s.outcome]
    BY DEF IsSession
  <2> HIDE DEF t, outcome, step
  <2>3. t = [local |-> local, step |-> step, inbox |-> s.inbox, answer |-> "",
             outcome |-> outcome]
    BY <2>1, <2>2
  <2> QED
    BY <2>3 DEF step, outcome
<1>9. m = [step |-> s.step + 1, commit |-> s.step + 1, barrier |-> barrier,
           claim |-> Claim(s, a), answer |-> s.answer, win |-> Survived(s)]
  BY DEF TurnMessage, barrier
<1>10. s.step + 1 \in Nat
  BY <1>1
<1>11. IsSession(r, t)
  <2>1. (IF Survived(s) THEN "survival" ELSE s.outcome) \in Outcomes
    BY DEF IsSession, Outcomes
  <2> HIDE DEF t
  <2>2. /\ t = [local |-> t.local, step |-> t.step, inbox |-> t.inbox,
                answer |-> t.answer, outcome |-> t.outcome]
        /\ t.local = local /\ t.step = s.step + 1 /\ t.inbox = s.inbox
        /\ t.answer = "" /\ t.outcome \in Outcomes
    BY <1>8, <2>1
  <2> QED
    BY <1>5, <1>10, <2>2 DEF IsSession, Answers
<1>12. m \in TurnMessages
  <2>1. Claim(s, a) \subseteq Cells
    BY <1>5, <1>7
  <2>2. s.answer \in Answers
    BY DEF IsSession
  <2>3. Survived(s) \in BOOLEAN
    BY DEF Survived
  <2> HIDE DEF m
  <2> QED
    BY <1>3, <1>9, <1>10, <2>1, <2>2, <2>3 DEF TurnMessages
<1>13. barrier = {} \/ r # "thief"
  BY <1>2 DEF barrier
<1> HIDE DEF t, m
<1>14. /\ t.local = local /\ t.step = s.step + 1 /\ t.inbox = s.inbox /\ t.answer = ""
       /\ t.outcome = IF Survived(s) THEN "survival" ELSE s.outcome
       /\ m.step = s.step + 1 /\ m.barrier = barrier /\ m.claim = Claim(s, a)
       /\ m.answer = s.answer /\ m.win = Survived(s)
  BY <1>8, <1>9
<1>15. /\ IsSession(r, t) /\ m \in TurnMessages
       /\ t.step = s.step + 1 /\ t.inbox = s.inbox
       /\ t.outcome = IF m.win THEN "survival" ELSE s.outcome
       /\ t.local.barriers = s.local.barriers \cup m.barrier
       /\ t.answer = "" /\ m.step = s.step + 1 /\ m.answer = s.answer
       /\ m.claim = IF r = "police" THEN {t.local.position} ELSE {}
       /\ r = "thief" => m.barrier = {}
  BY <1>5, <1>7, <1>11, <1>12, <1>13, <1>14
<1>16. m.win <=> r = "thief" /\ s.step + 1 >= SurvivalThreshold
  BY <1>6, <1>14
<1>17. TurnsTo(r, s, t, m)
  BY <1>15, <1>16 DEF TurnsTo
<1> QED
  BY <1>17 DEF t, m

LEMMA Closing ==
  ASSUME NEW r \in Role, NEW s, IsSession(r, s)
  PROVE  /\ IsSession(r, Closed(s))
         /\ Closed(s).step = s.step + 1 /\ Closed(s).inbox = s.inbox
         /\ Closed(s).outcome = s.outcome /\ Closed(s).local = s.local
         /\ TerminalMessage(s) \in TurnMessages
         /\ TerminalMessage(s).step = s.step + 1
         /\ TerminalMessage(s).barrier = {} /\ TerminalMessage(s).claim = {}
         /\ TerminalMessage(s).answer = s.answer
         /\ TerminalMessage(s).win = FALSE
<1> DEFINE step == s.step + 1
           t == Closed(s)
<1>1. step \in Nat /\ s.answer \in Answers
  BY DEF IsSession
<1>2. TerminalMessage(s) \in TurnMessages
  BY <1>1 DEF TerminalMessage, TurnMessages
<1>3. t = [s EXCEPT !.step = step, !.answer = ""]
  BY DEF Closed
<1> HIDE DEF t, step
<1>4. s = [local |-> s.local, step |-> s.step, inbox |-> s.inbox,
           answer |-> s.answer, outcome |-> s.outcome]
  BY DEF IsSession
<1>5. t = [local |-> s.local, step |-> step, inbox |-> s.inbox, answer |-> "",
           outcome |-> s.outcome]
  BY <1>3, <1>4
<1>6. /\ t = [local |-> t.local, step |-> t.step, inbox |-> t.inbox,
              answer |-> t.answer, outcome |-> t.outcome]
      /\ t.local = s.local /\ t.step = step /\ t.inbox = s.inbox
      /\ t.answer = "" /\ t.outcome = s.outcome
  BY <1>5
<1>7. IsSession(r, t)
  BY <1>1, <1>6 DEF IsSession, Answers
<1> QED
  BY <1>2, <1>6, <1>7 DEF t, step, TerminalMessage

(* A step spent on a move that was refused. *)
LEMMA Spending ==
  ASSUME NEW r \in Role, NEW s, IsSession(r, s)
  PROVE  LET t == [s EXCEPT !.step = @ + 1] IN
         /\ IsSession(r, t)
         /\ t.step = s.step + 1 /\ t.inbox = s.inbox /\ t.answer = s.answer
         /\ t.outcome = s.outcome /\ t.local = s.local
<1> DEFINE t == [s EXCEPT !.step = @ + 1]
<1>1. s.step + 1 \in Nat
  BY DEF IsSession
<1>2. /\ t = [local |-> t.local, step |-> t.step, inbox |-> t.inbox,
              answer |-> t.answer, outcome |-> t.outcome]
      /\ t.local = s.local /\ t.step = s.step + 1 /\ t.inbox = s.inbox
      /\ t.answer = s.answer /\ t.outcome = s.outcome
  BY DEF IsSession
<1> HIDE DEF t
<1>3. IsSession(r, t)
  BY <1>1, <1>2 DEF IsSession
<1> QED
  BY <1>2, <1>3 DEF t

-----------------------------------------------------------------------------
(* One peer moves, the other stands. *)

(* r comes to session s and to place, and the opponent stays as it was. *)
Alone(r, s, place) ==
  /\ session'[r] = s /\ session'[Opponent(r)] = session[Opponent(r)]
  /\ pc'[r] = place /\ pc'[Opponent(r)] = pc[Opponent(r)]
Dialled(r, m) ==
  call'[r].message = {m} /\ call'[Opponent(r)] = call[Opponent(r)]

LEMMA DialKeeps ==
  ASSUME Typed, NEW r \in Role, NEW s, IsSession(r, s), NEW m \in TurnMessages,
         Dial(r, s, m), queue' \in [Role -> Seq(TurnMessages)], drops' = drops
  PROVE  Typed' /\ Alone(r, s, "sending") /\ Dialled(r, m)
<1>1. Opponent(r) \in Role /\ Opponent(r) # r
  BY DEF Role, Opponent
<1>2. /\ session'[r] = s /\ session'[Opponent(r)] = session[Opponent(r)]
      /\ DOMAIN session' = Role
      /\ \A q \in Role : q # r => session'[q] = session[q]
  BY <1>1 DEF Typed, Dial
<1>3. \A q \in Role : IsSession(q, session'[q])
  BY <1>2 DEF Typed
<1>4. /\ call' \in [Role -> [message : SUBSET TurnMessages, attempt : 0 .. 2,
                            arrived : BOOLEAN]]
      /\ call'[r].message = {m} /\ call'[Opponent(r)] = call[Opponent(r)]
  BY <1>1 DEF Typed, Dial
<1>5. /\ pc' \in [Role -> Places]
      /\ pc'[r] = "sending" /\ pc'[Opponent(r)] = pc[Opponent(r)]
  BY <1>1 DEF Typed, Dial, Places
<1> QED
  BY <1>2, <1>3, <1>4, <1>5 DEF Typed, Alone, Dialled

LEMMA StopKeeps ==
  ASSUME Typed, NEW r \in Role, NEW s, IsSession(r, s),
         NEW place \in {"settled", "failed"},
         Stop(r, s, place), queue' \in [Role -> Seq(TurnMessages)], drops' = drops
  PROVE  Typed' /\ call' = call /\ Alone(r, s, place)
<1>1. Opponent(r) \in Role /\ Opponent(r) # r
  BY DEF Role, Opponent
<1>2. /\ session'[r] = s /\ session'[Opponent(r)] = session[Opponent(r)]
      /\ DOMAIN session' = Role
      /\ \A q \in Role : q # r => session'[q] = session[q]
  BY <1>1 DEF Typed, Stop
<1>3. \A q \in Role : IsSession(q, session'[q])
  BY <1>2 DEF Typed
<1>4. /\ pc' \in [Role -> Places]
      /\ pc'[r] = place /\ pc'[Opponent(r)] = pc[Opponent(r)]
  BY <1>1 DEF Typed, Stop, Places
<1>5. call' = call
  BY DEF Stop
<1> QED
  BY <1>2, <1>3, <1>4, <1>5 DEF Typed, Alone, Dialled

-----------------------------------------------------------------------------
(* The thief's half-turn. *)

LEMMA OneMore ==
  ASSUME NEW n \in Nat, n < SurvivalThreshold
  PROVE  n + 1 <= SurvivalThreshold /\ n + 1 # n
BY BoardAssumption

LEMMA Counting ==
  ASSUME Typed
  PROVE  /\ Thief.step \in Nat /\ Cop.step \in Nat
         /\ Thief.inbox.next \in Nat \ {0} /\ Cop.inbox.next \in Nat \ {0}
         /\ SurvivalThreshold \in Nat /\ MaxMoves \in Nat
         /\ SurvivalThreshold <= MaxMoves
         /\ IsSession("thief", Thief) /\ IsSession("police", Cop)
<1>1. IsSession("thief", Thief) /\ IsSession("police", Cop)
  BY Roles DEF Typed, Thief, Cop
<1> QED
  BY <1>1, BoardAssumption DEF IsSession, InboxInOrder

(* What the thief knows when it is about to move. *)
ThiefReady(s) ==
  /\ IsSession("thief", s)
  /\ s.step = Thief.step /\ s.step = Cop.step /\ s.inbox.next = s.step + 1
  /\ s.local.barriers = Cop.local.barriers
  /\ s.outcome \in {"", "capture"}
  /\ s.outcome = "capture" <=> s.answer = "caught"
  /\ s.outcome = "capture" => IsReal(Cop.local.position, s.local)

(* Nothing is under way to either of them once the thief has read. *)
Quiet ==
  /\ queue' \in [Role -> Seq(TurnMessages)]
  /\ drops' = drops
  /\ \A r \in Role : queue'[r] = <<>>

(* What the thief's next message has to say of its session. *)
ThiefSays(t, m) ==
  /\ m \in TurnMessages /\ m.step = t.step /\ m.barrier = {} /\ m.claim = {}
  /\ m.win <=> t.outcome = "survival"
  /\ m.answer = "caught" <=> t.outcome = "capture"
  /\ t.outcome = "" => t.step < SurvivalThreshold

LEMMA ThiefPosts ==
  ASSUME SubGameInvariant, NEW s, ThiefReady(s), NEW t, IsSession("thief", t),
         t.step = s.step + 1, t.inbox = s.inbox,
         t.local.barriers = s.local.barriers,
         t.outcome = "capture" => IsReal(Cop.local.position, t.local),
         NEW m, ThiefSays(t, m), Dial("thief", t, m), Quiet,
         pc["police"] = "sending" => call["police"].arrived
  PROVE  SubGameInvariant'
<1> USE DEF SubGameInvariant
<1>1. /\ Typed' /\ Thief' = t /\ Cop' = Cop
      /\ call'["thief"].message = {m} /\ call'["police"] = call["police"]
      /\ pc'["thief"] = "sending" /\ pc'["police"] = pc["police"]
  <2>1. m \in TurnMessages /\ queue' \in [Role -> Seq(TurnMessages)] /\ drops' = drops
    BY DEF Quiet, ThiefSays
  <2>2. /\ Typed' /\ session'["thief"] = t /\ session'["police"] = session["police"]
        /\ call'["thief"].message = {m} /\ call'["police"] = call["police"]
        /\ pc'["thief"] = "sending" /\ pc'["police"] = pc["police"]
    <3> HIDE DEF SubGameInvariant
    <3>1. Typed
      BY DEF SubGameInvariant
    <3>2. Typed' /\ Alone("thief", t, "sending") /\ Dialled("thief", m)
      BY <2>1, <3>1, DialKeeps, Roles
    <3> QED
      BY <3>2, Roles DEF Alone, Dialled
  <2> QED
    BY <2>2 DEF Thief, Cop
<1>2. /\ Thief.step = Cop.step /\ Cop.step \in Nat /\ t.step = Cop.step + 1
      /\ t.inbox.next = t.step
  BY Counting DEF ThiefReady
<1>3. Cop.outcome = "" /\ Cop.inbox.next = Cop.step + 1 /\ Cop.step < SurvivalThreshold
  BY <1>2 DEF InStep
<1>4. InStep'
  <2>1. t.step <= SurvivalThreshold /\ t.step # Cop.step
    BY <1>2, <1>3, OneMore
  <2> QED
    BY <1>1, <1>2, <1>3, <2>1 DEF InStep, ThiefSays
<1>5. Decided'
  <2>1. \A r \in Role : /\ pc'[r] \in {"opening", "waiting"} => session'[r].outcome = ""
                        /\ pc'[r] = "settled" => session'[r].outcome # ""
    BY <1>1, Roles, ZenonT(60) DEF Decided, Thief, Cop
  <2> QED
    BY <1>1, <1>3, <2>1 DEF Decided
<1>6. BoardsMeet'
  BY <1>1 DEF BoardsMeet, ThiefReady
<1>7. CaptureIsReal'
  BY <1>1, <1>3, Roles DEF CaptureIsReal, IsReal, Thief, Cop
<1>8. Posted("thief")'
  <2>1. Unread("thief")'
    BY <1>1, <1>2, <1>3, Roles DEF Unread, Thief, Cop
  <2>2. Says("thief", m)'
    BY <1>1 DEF Says, ThiefSays, Thief
  <2>3. queue'[Opponent("thief")] = <<>>
    BY Roles DEF Quiet
  <2> QED
    BY <1>1, <2>1, <2>2, <2>3 DEF Posted
<1>9. Posted("police")'
  <2>1. queue'[Opponent("police")] = <<>>
    BY Roles DEF Quiet
  <2> QED
    BY <1>1, <2>1 DEF Posted
<1> QED
  BY <1>1, <1>4, <1>5, <1>6, <1>7, <1>8, <1>9, Roles

(* The thief stands where it cannot even stay. *)
LEMMA ThiefFails ==
  ASSUME SubGameInvariant, NEW s, ThiefReady(s), s.outcome = "",
         Stop("thief", [s EXCEPT !.step = @ + 1], "failed"), Quiet,
         pc["police"] = "sending" => call["police"].arrived
  PROVE  SubGameInvariant'
<1> USE DEF SubGameInvariant
<1> DEFINE t == [s EXCEPT !.step = @ + 1]
<1>1. /\ IsSession("thief", t) /\ t.step = s.step + 1 /\ t.inbox = s.inbox
      /\ t.outcome = "" /\ t.local = s.local
  BY Spending, Roles DEF ThiefReady
<1>2. Stop("thief", t, "failed")
  OBVIOUS
<1> HIDE DEF t
<1>3. /\ Typed' /\ Thief' = t /\ Cop' = Cop /\ call' = call
      /\ pc'["thief"] = "failed" /\ pc'["police"] = pc["police"]
  <2>1. Typed' /\ call' = call /\ Alone("thief", t, "failed")
    BY <1>1, <1>2, StopKeeps, Roles DEF Quiet
  <2> QED
    BY <2>1, Roles DEF Alone, Thief, Cop
<1>4. /\ Thief.step = Cop.step /\ Cop.step \in Nat /\ t.step = Cop.step + 1
      /\ t.inbox.next = t.step
  BY <1>1, Counting DEF ThiefReady
<1>5. Cop.outcome = "" /\ Cop.inbox.next = Cop.step + 1 /\ Cop.step < SurvivalThreshold
  BY <1>4 DEF InStep
<1>6. InStep'
  <2>1. t.step <= SurvivalThreshold /\ t.step # Cop.step
    BY <1>4, <1>5, OneMore
  <2> QED
    BY <1>3, <1>4, <1>5, <2>1 DEF InStep
<1>7. Decided'
  <2>1. \A r \in Role : /\ pc'[r] \in {"opening", "waiting"} => session'[r].outcome = ""
                        /\ pc'[r] = "settled" => session'[r].outcome # ""
    BY <1>3, Roles DEF Decided, Thief, Cop
  <2> QED
    BY <1>3, <1>5, <2>1 DEF Decided
<1>8. BoardsMeet'
  BY <1>1, <1>3 DEF BoardsMeet, ThiefReady
<1>9. CaptureIsReal'
  BY <1>1, <1>3, <1>5, Roles DEF CaptureIsReal, Thief, Cop
<1>10. \A r \in Role : Posted(r)'
  <2> SUFFICES ASSUME NEW r \in Role
               PROVE  Posted(r)'
    OBVIOUS
  <2>1. queue'[Opponent(r)] = <<>>
    BY DEF Quiet, Role, Opponent
  <2>2. ~(pc'[r] = "sending" /\ ~call'[r].arrived)
    BY <1>3, Roles
  <2> QED
    BY <2>1, <2>2 DEF Posted
<1> QED
  BY <1>3, <1>6, <1>7, <1>8, <1>9, <1>10

LEMMA ThiefMoves ==
  ASSUME SubGameInvariant, NEW s, ThiefReady(s), SendNext("thief", s), Quiet,
         pc["police"] = "sending" => call["police"].arrived
  PROVE  SubGameInvariant'
<1>1. IsSession("thief", s) /\ s.local \in LocalState /\ s.step \in Nat
  BY DEF ThiefReady, IsSession
<1>2. CASE TakeTurn("thief", s)
  <2>1. s.outcome = "" /\ s.answer # "caught"
    BY <1>2 DEF TakeTurn, ThiefReady
  <2>2. PICK a \in Choices(s.local) :
          \/ Legal(s.local, a) /\ Dial("thief", Turned(s, a), TurnMessage(s, a))
          \/ ~Legal(s.local, a) /\ Stop("thief", [s EXCEPT !.step = @ + 1], "failed")
    BY <1>2 DEF TakeTurn
  <2>3. CASE Legal(s.local, a) /\ Dial("thief", Turned(s, a), TurnMessage(s, a))
    <3> DEFINE t == Turned(s, a)
               m == TurnMessage(s, a)
    <3>5. TurnsTo("thief", s, t, m)
      BY <1>1, <2>3, Turning, Roles
    <3>1. /\ IsSession("thief", t) /\ t.step = s.step + 1 /\ t.inbox = s.inbox
          /\ t.outcome = IF m.win THEN "survival" ELSE s.outcome
          /\ t.local.barriers = s.local.barriers \cup m.barrier
          /\ m \in TurnMessages /\ m.step = s.step + 1 /\ m.answer = s.answer
          /\ m.barrier = {} /\ m.claim = {}
          /\ m.win <=> s.step + 1 >= SurvivalThreshold
      <4> HIDE DEF t, m
      <4> QED
        BY <3>5 DEF TurnsTo
    <3>2. Dial("thief", t, m)
      BY <2>3
    <3> HIDE DEF t, m
    <3>3. t.step \in Nat /\ SurvivalThreshold \in Nat
      BY <1>1, <3>1, BoardAssumption
    <3>4. ThiefSays(t, m) /\ t.outcome # "capture"
      <4>1. ~(t.step >= SurvivalThreshold) => t.step < SurvivalThreshold
        BY <3>3
      <4> QED
        BY <2>1, <3>1, <4>1 DEF ThiefSays
    <3>6. t.local.barriers = s.local.barriers
      BY <3>1
    <3> QED
      BY <3>1, <3>2, <3>4, <3>6, ThiefPosts
  <2>4. CASE ~Legal(s.local, a) /\ Stop("thief", [s EXCEPT !.step = @ + 1], "failed")
    BY <2>1, <2>4, ThiefFails
  <2> QED
    BY <2>2, <2>3, <2>4
<1>3. CASE Conclude("thief", s)
  <2>1. s.outcome = "capture" /\ s.answer = "caught"
    BY <1>3 DEF Conclude, ThiefReady
  <2>2. Dial("thief", Closed(s), TerminalMessage(s))
    BY <1>3, <2>1 DEF Conclude
  <2> DEFINE t == Closed(s)
             m == TerminalMessage(s)
  <2>3. /\ IsSession("thief", t) /\ t.step = s.step + 1 /\ t.inbox = s.inbox
        /\ t.outcome = s.outcome /\ t.local = s.local
        /\ m \in TurnMessages /\ m.step = s.step + 1
        /\ m.barrier = {} /\ m.claim = {} /\ m.answer = s.answer /\ m.win = FALSE
    BY <1>1, Closing, Roles
  <2> HIDE DEF t, m
  <2>4. ThiefSays(t, m)
    BY <2>1, <2>3 DEF ThiefSays
  <2>5. Dial("thief", t, m)
    BY <2>2 DEF t, m
  <2>6. IsReal(Cop.local.position, t.local) /\ t.local.barriers = s.local.barriers
    BY <2>1, <2>3 DEF ThiefReady
  <2> QED
    BY <2>3, <2>4, <2>5, <2>6, ThiefPosts
<1> QED
  BY <1>2, <1>3 DEF SendNext

-----------------------------------------------------------------------------
(* The cop's half-turn. *)

CopReady(s) ==
  /\ IsSession("police", s)
  /\ s.step = Cop.step /\ Thief.step = s.step + 1 /\ s.inbox.next = s.step + 2
  /\ s.local = Cop.local /\ s.answer = "" /\ s.outcome = Thief.outcome
  /\ s.outcome = "" => Thief.step < SurvivalThreshold

LEMMA CopIsBehind ==
  ASSUME Typed, NEW s, CopReady(s)
  PROVE  /\ s.step \in Nat /\ s.step = Cop.step
         /\ Thief.step = s.step + 1 /\ Thief.step # Cop.step /\ Thief.step # 0
         /\ s.inbox.next = s.step + 2 /\ s.inbox.next = Thief.step + 1
<1> DEFINE n == s.step
<1>1. /\ n \in Nat /\ n = Cop.step /\ Thief.step = n + 1
      /\ s.inbox.next = n + 2
  BY Counting DEF CopReady
<1> HIDE DEF n
<1>2. n + 1 # n /\ n + 1 # 0 /\ n + 2 = (n + 1) + 1
  BY <1>1
<1> QED
  BY <1>1, <1>2 DEF n

(* A session of the cop that has taken its step, whatever it then posts. *)
CopSteps(s, t) ==
  /\ s.outcome = "" /\ t.outcome = "" /\ t.answer = ""
  /\ IsSession("police", t) /\ t.step = s.step + 1 /\ t.inbox = s.inbox

LEMMA CopStepKeeps ==
  ASSUME SubGameInvariant, NEW s, CopReady(s), NEW t, CopSteps(s, t),
         Typed', Thief' = Thief, Cop' = t, pc'["thief"] = pc["thief"],
         pc'["police"] \in {"sending", "failed"}
  PROVE  /\ InStep' /\ Decided' /\ BoardsMeet' /\ CaptureIsReal'
         /\ Unread("police")' /\ pc["thief"] # "opening"
<1> USE DEF SubGameInvariant
<1>1. /\ s.step \in Nat /\ Thief.step = s.step + 1 /\ t.step = Thief.step
      /\ s.inbox.next = s.step + 2 /\ t.inbox.next = s.inbox.next
      /\ Thief.outcome = "" /\ Thief.step < SurvivalThreshold
      /\ Cop.step = s.step /\ Cop.local = s.local
  BY Counting DEF CopReady, CopSteps
<1>2. /\ t.inbox.next = t.step + 1 /\ Thief.step # 0 /\ Thief.step # Cop.step
      /\ t.step \in Nat
  BY <1>1, Counting, CopIsBehind
<1>3. pc["thief"] # "opening" /\ Thief.inbox.next = Thief.step
  BY <1>2 DEF InStep
<1>4. InStep'
  BY <1>1, <1>2, <1>3 DEF InStep, CopSteps
<1>5. Decided'
  <2>1. \A r \in Role : /\ pc'[r] \in {"opening", "waiting"} => session'[r].outcome = ""
                        /\ pc'[r] = "settled" => session'[r].outcome # ""
    BY Roles DEF Decided, Thief, Cop
  <2> QED
    BY <1>1, <2>1 DEF Decided, CopSteps
<1>6. BoardsMeet'
  BY <1>1, <1>3 DEF BoardsMeet
<1>7. CaptureIsReal'
  BY <1>1, Roles DEF CaptureIsReal, CopSteps, Thief, Cop
<1>8. Unread("police")'
  BY <1>1, <1>3, Roles DEF Unread, Thief, Cop
<1> QED
  BY <1>3, <1>4, <1>5, <1>6, <1>7, <1>8

LEMMA CopPosts ==
  ASSUME SubGameInvariant, NEW s, CopReady(s), NEW t, CopSteps(s, t),
         NEW m \in TurnMessages, m.step = t.step, m.answer = "", ~m.win,
         m.claim = {t.local.position},
         t.local.barriers = s.local.barriers \cup m.barrier,
         Dial("police", t, m), Quiet,
         pc["thief"] = "sending" => call["thief"].arrived
  PROVE  SubGameInvariant'
<1> USE DEF SubGameInvariant
<1>1. /\ Typed' /\ Thief' = Thief /\ Cop' = t
      /\ call'["police"].message = {m} /\ call'["thief"] = call["thief"]
      /\ pc'["police"] = "sending" /\ pc'["thief"] = pc["thief"]
  <2>1. /\ queue' \in [Role -> Seq(TurnMessages)] /\ drops' = drops
        /\ IsSession("police", t)
    BY DEF Quiet, CopSteps
  <2>2. /\ Typed' /\ session'["police"] = t /\ session'["thief"] = session["thief"]
        /\ call'["police"].message = {m} /\ call'["thief"] = call["thief"]
        /\ pc'["police"] = "sending" /\ pc'["thief"] = pc["thief"]
    <3> HIDE DEF SubGameInvariant
    <3>1. Typed
      BY DEF SubGameInvariant
    <3>2. Typed' /\ Alone("police", t, "sending") /\ Dialled("police", m)
      BY <2>1, <3>1, DialKeeps, Roles
    <3> QED
      BY <3>2, Roles DEF Alone, Dialled
  <2> QED
    BY <2>2 DEF Thief, Cop
<1>2. /\ InStep' /\ Decided' /\ BoardsMeet' /\ CaptureIsReal'
      /\ Unread("police")' /\ pc["thief"] # "opening"
  BY <1>1, CopStepKeeps
<1>3. Says("police", m)'
  <2>1. Thief.step # Cop.step
    BY CopIsBehind
  <2>2. Thief.local.barriers = s.local.barriers
    BY <2>1 DEF BoardsMeet, CopReady
  <2>3. Cop'.local.barriers = Thief'.local.barriers \cup m.barrier
    BY <1>1, <2>2
  <2>4. m.step = session'["police"].step
    BY <1>1 DEF Cop
  <2> QED
    BY <1>1, <2>3, <2>4 DEF Says, CopSteps
<1>4. Posted("police")'
  <2>1. queue'[Opponent("police")] = <<>>
    BY Roles DEF Quiet
  <2> QED
    BY <1>1, <1>2, <1>3, <2>1 DEF Posted
<1>5. Posted("thief")'
  <2>1. queue'[Opponent("thief")] = <<>>
    BY Roles DEF Quiet
  <2> QED
    BY <1>1, <2>1 DEF Posted
<1> QED
  BY <1>1, <1>2, <1>4, <1>5, Roles

LEMMA CopStops ==
  ASSUME SubGameInvariant, NEW s, CopReady(s), NEW t, NEW place,
         \/ place = "failed" /\ CopSteps(s, t)
         \/ place = "settled" /\ t = s /\ s.outcome # "",
         Stop("police", t, place), Quiet,
         pc["thief"] = "sending" => call["thief"].arrived
  PROVE  SubGameInvariant'
<1> USE DEF SubGameInvariant
<1>1. /\ Typed' /\ Thief' = Thief /\ Cop' = t /\ call' = call
      /\ pc'["police"] = place /\ pc'["thief"] = pc["thief"]
  <2>1. /\ queue' \in [Role -> Seq(TurnMessages)] /\ drops' = drops
        /\ IsSession("police", t) /\ place \in {"settled", "failed"}
    BY DEF Quiet, CopSteps, CopReady
  <2>2. /\ Typed' /\ call' = call
        /\ session'["police"] = t /\ session'["thief"] = session["thief"]
        /\ pc'["police"] = place /\ pc'["thief"] = pc["thief"]
    <3> HIDE DEF SubGameInvariant
    <3>1. Typed
      BY DEF SubGameInvariant
    <3>2. Typed' /\ call' = call /\ Alone("police", t, place)
      BY <2>1, <3>1, StopKeeps, Roles
    <3> QED
      BY <3>2, Roles DEF Alone
  <2> QED
    BY <2>2 DEF Thief, Cop
<1>2. \A r \in Role : Posted(r)'
  <2> SUFFICES ASSUME NEW r \in Role
               PROVE  Posted(r)'
    OBVIOUS
  <2>1. queue'[Opponent(r)] = <<>>
    BY DEF Quiet, Role, Opponent
  <2>2. ~(pc'[r] = "sending" /\ ~call'[r].arrived)
    BY <1>1, Roles
  <2> QED
    BY <2>1, <2>2 DEF Posted
<1>3. CASE place = "failed" /\ CopSteps(s, t)
  BY <1>1, <1>2, <1>3, CopStepKeeps
<1>4. CASE place = "settled" /\ t = s /\ s.outcome # ""
  <2>1. /\ s.step \in Nat /\ Thief.step = s.step + 1 /\ Thief.step # Cop.step
        /\ s.inbox.next = s.step + 2 /\ s.step = Cop.step
        /\ s.outcome = Thief.outcome /\ s.local = Cop.local /\ s.answer = ""
    BY CopIsBehind DEF CopReady
  <2>2. InStep'
    BY <1>1, <1>4, <2>1 DEF InStep
  <2>3. Decided'
    <3>1. \A r \in Role :
            /\ pc'[r] \in {"opening", "waiting"} => session'[r].outcome = ""
            /\ pc'[r] = "settled" => session'[r].outcome # ""
      BY <1>1, <1>4, Roles DEF Decided, Thief, Cop
    <3> QED
      BY <1>1, <1>4, <2>1, <3>1 DEF Decided
  <2>4. BoardsMeet'
    BY <1>1, <1>4, <2>1 DEF BoardsMeet
  <2>5. CaptureIsReal'
    BY <1>1, <1>4, <2>1, Roles, ZenonT(60) DEF CaptureIsReal, Thief, Cop
  <2> QED
    BY <1>1, <1>2, <2>2, <2>3, <2>4, <2>5
<1> QED
  BY <1>3, <1>4

LEMMA CopMoves ==
  ASSUME SubGameInvariant, NEW s, CopReady(s), SendNext("police", s), Quiet,
         pc["thief"] = "sending" => call["thief"].arrived
  PROVE  SubGameInvariant'
<1>1. IsSession("police", s) /\ s.local \in LocalState /\ s.answer = ""
  BY DEF CopReady, IsSession
<1>2. CASE TakeTurn("police", s)
  <2>1. s.outcome = ""
    BY <1>2 DEF TakeTurn
  <2>2. PICK a \in Choices(s.local) :
          \/ Legal(s.local, a) /\ Dial("police", Turned(s, a), TurnMessage(s, a))
          \/ ~Legal(s.local, a) /\ Stop("police", [s EXCEPT !.step = @ + 1], "failed")
    BY <1>2 DEF TakeTurn
  <2>3. CASE Legal(s.local, a) /\ Dial("police", Turned(s, a), TurnMessage(s, a))
    <3> DEFINE t == Turned(s, a)
               m == TurnMessage(s, a)
    <3>1. TurnsTo("police", s, t, m)
      BY <1>1, <2>3, Turning, Roles
    <3>2. Dial("police", t, m)
      BY <2>3
    <3> HIDE DEF t, m
    <3>3. /\ CopSteps(s, t)
          /\ m \in TurnMessages /\ m.step = t.step /\ m.answer = "" /\ ~m.win
          /\ m.claim = {t.local.position}
          /\ t.local.barriers = s.local.barriers \cup m.barrier
      BY <1>1, <2>1, <3>1 DEF TurnsTo, CopSteps
    <3> QED
      BY <3>2, <3>3, CopPosts
  <2>4. CASE ~Legal(s.local, a) /\ Stop("police", [s EXCEPT !.step = @ + 1], "failed")
    <3> DEFINE t == [s EXCEPT !.step = @ + 1]
    <3>1. /\ IsSession("police", t) /\ t.step = s.step + 1 /\ t.inbox = s.inbox
          /\ t.answer = s.answer /\ t.outcome = s.outcome
      BY <1>1, Spending, Roles
    <3>2. Stop("police", t, "failed")
      BY <2>4
    <3> HIDE DEF t
    <3>3. CopSteps(s, t)
      BY <1>1, <2>1, <3>1 DEF CopSteps
    <3> QED
      BY <3>2, <3>3, CopStops
  <2> QED
    BY <2>2, <2>3, <2>4
<1>3. CASE Conclude("police", s)
  <2>1. s.outcome # "" /\ Stop("police", s, "settled")
    BY <1>1, <1>3 DEF Conclude
  <2> QED
    BY <2>1, CopStops
<1> QED
  BY <1>2, <1>3 DEF SendNext

-----------------------------------------------------------------------------
(* The actions. *)

LEMMA Beginning ==
  /\ 0 < SurvivalThreshold /\ 0 <= SurvivalThreshold
  /\ 0 + 1 = 1 /\ 0 \in Nat /\ 0 \in {0, 0 + 1}
  /\ \A n \in Nat : 0 \in {n, n + 1} => n = 0
BY BoardAssumption

LEMMA InitEstablishes ==
  ASSUME Init
  PROVE  SubGameInvariant
<1>1. \A r \in Role : /\ session[r] = NewSession(r) /\ queue[r] = <<>>
                      /\ call[r] = NoCall
                      /\ pc[r] = IF r = "thief" THEN "opening" ELSE "waiting"
  BY DEF Init, Opens
<1>2. \A r \in Role : InitialState(r) \in LocalState /\ InitialState(r).role = r
  BY BoardAssumption DEF InitialState, LocalState, StartOf
<1>3. InboxInOrder(Contract!EmptyInbox) /\ Contract!EmptyInbox.next = 1
  BY DEF InboxInOrder, Contract!EmptyInbox
<1>4. \A r \in Role :
        /\ NewSession(r).step = 0 /\ NewSession(r).inbox = Contract!EmptyInbox
        /\ NewSession(r).answer = "" /\ NewSession(r).outcome = ""
        /\ NewSession(r).local = InitialState(r) /\ IsSession(r, NewSession(r))
  BY <1>2, <1>3 DEF NewSession, IsSession, Answers, Outcomes
<1>5. Typed
  <2>1. NoCall \in [message : SUBSET TurnMessages, attempt : 0 .. 2, arrived : BOOLEAN]
    BY DEF NoCall
  <2>2. drops \in 0 .. MaxDrops
    BY SubGameAssumption DEF Init
  <2>3. queue \in [Role -> Seq(TurnMessages)]
    BY EmptySeq DEF Init
  <2>4. pc \in [Role -> Places]
    BY DEF Init, Places
  <2>5. call \in [Role -> [message : SUBSET TurnMessages, attempt : 0 .. 2,
                          arrived : BOOLEAN]]
    BY <2>1 DEF Init
  <2>6. DOMAIN session = Role
    BY DEF Init
  <2> QED
    BY <1>1, <1>4, <2>2, <2>3, <2>4, <2>5, <2>6 DEF Typed
<1>6. /\ Thief.step = 0 /\ Cop.step = 0 /\ Thief.inbox.next = 1 /\ Cop.inbox.next = 1
      /\ Thief.outcome = "" /\ Cop.outcome = "" /\ Cop.answer = ""
      /\ Thief.local = InitialState("thief") /\ Cop.local = InitialState("police")
      /\ pc["thief"] = "opening" /\ pc["police"] = "waiting" /\ Thief.answer = ""
  <2>1. /\ Thief = NewSession("thief") /\ Cop = NewSession("police")
        /\ pc["thief"] = "opening" /\ pc["police"] = "waiting"
    BY <1>1, Roles DEF Thief, Cop
  <2> QED
    BY <1>3, <1>4, <2>1, Roles
<1>7. InStep
  BY <1>6, Beginning DEF InStep
<1>8. Decided
  BY <1>1, <1>4, <1>6 DEF Decided
<1>9. BoardsMeet
  <2>1. \A r \in Role : InitialState(r).barriers = {}
    BY DEF InitialState
  <2> QED
    BY <1>6, <2>1, Roles DEF BoardsMeet
<1>10. CaptureIsReal
  BY <1>1, <1>4 DEF CaptureIsReal
<1>11. \A r \in Role : Posted(r)
  BY <1>1 DEF Posted, Role, Opponent
<1> QED
  BY <1>5, <1>7, <1>8, <1>9, <1>10, <1>11 DEF SubGameInvariant

LEMMA OpenKeeps ==
  ASSUME SubGameInvariant, Open("thief")
  PROVE  SubGameInvariant'
<1> USE DEF SubGameInvariant
<1>1. /\ pc["thief"] = "opening" /\ SendNext("thief", Thief)
      /\ queue' = queue /\ drops' = drops
  BY DEF Open, Thief
<1>2. Thief.step = 0 /\ Cop.step = 0 /\ Thief.inbox.next = 1
  <2>1. /\ Thief.step = 0 /\ Thief.inbox.next = 1
        /\ Thief.step \in {Cop.step, Cop.step + 1}
    BY <1>1 DEF InStep
  <2>2. Cop.step \in Nat
    BY Counting
  <2> QED
    BY <2>1, <2>2, Beginning
<1>3. Thief.outcome = "" /\ Thief.answer = ""
  <2>1. session["thief"].outcome = ""
    BY <1>1, Roles DEF Decided
  <2> QED
    BY <1>1, <2>1 DEF Decided, Thief
<1>4. ThiefReady(Thief)
  <2>1. Thief.local.barriers = Cop.local.barriers
    BY <1>1 DEF BoardsMeet
  <2>2. IsSession("thief", Thief)
    BY Counting
  <2>3. Thief.inbox.next = Thief.step + 1
    BY <1>2, Beginning
  <2> QED
    BY <1>2, <1>3, <2>1, <2>2, <2>3 DEF ThiefReady
<1>5. Quiet
  <2>1. ~Unread("police")
    BY <1>2, Roles DEF Unread, Thief, Cop
  <2>2. Cop.inbox.next = 1 /\ ~Unread("thief")
    <3>1. Cop.outcome = "" /\ Cop.inbox.next = Cop.step + 1
      BY <1>2 DEF InStep
    <3>2. Cop.inbox.next = 0 + 1
      BY <1>2, <3>1
    <3>3. Cop.inbox.next = 1 /\ Cop.inbox.next # 0
      BY <3>2
    <3> QED
      BY <1>2, <3>3, Roles DEF Unread, Thief, Cop
  <2>3. \A r \in Role : queue[r] = <<>>
    BY <2>1, <2>2, Roles DEF Posted
  <2> QED
    BY <1>1, <2>3 DEF Quiet, Typed
<1>6. pc["police"] = "sending" => call["police"].arrived
  BY <1>2, Roles DEF Posted, Unread, Thief, Cop
<1> QED
  BY <1>1, <1>4, <1>5, <1>6, ThiefMoves

(* A queue of one message, and the queues once it is taken. *)
LEMMA TakeOne ==
  ASSUME Typed, NEW r \in Role, queue[r] # <<>>, Len(queue[r]) = 1,
         queue' = [queue EXCEPT ![r] = Tail(@)]
  PROVE  /\ Head(queue[r]) \in TurnMessages /\ Head(queue[r]) = queue[r][1]
         /\ queue' \in [Role -> Seq(TurnMessages)]
         /\ queue'[r] = <<>> /\ queue'[Opponent(r)] = queue[Opponent(r)]
<1> DEFINE q == queue[r]
<1>1. q \in Seq(TurnMessages) /\ Opponent(r) # r /\ Opponent(r) \in Role
  BY DEF Typed, Role, Opponent
<1>2. queue' = [queue EXCEPT ![r] = Tail(q)]
  OBVIOUS
<1>3. q # <<>> /\ Len(q) = 1
  OBVIOUS
<1> HIDE DEF q
<1>4. Head(q) \in TurnMessages /\ Head(q) = q[1]
  BY <1>1, <1>3, HeadTailProperties
<1>5. Tail(q) \in Seq(TurnMessages) /\ Len(Tail(q)) = 0
  BY <1>1, <1>3, HeadTailProperties
<1>6. Tail(q) = <<>>
  BY <1>5, EmptySeq
<1>7. /\ queue' \in [Role -> Seq(TurnMessages)]
      /\ queue'[r] = Tail(q) /\ queue'[Opponent(r)] = queue[Opponent(r)]
  BY <1>1, <1>2, <1>5 DEF Typed
<1> QED
  BY <1>4, <1>6, <1>7 DEF q

LEMMA ThiefReceives ==
  ASSUME SubGameInvariant, Receive("thief")
  PROVE  SubGameInvariant'
<1> USE DEF SubGameInvariant
<1> DEFINE m == Head(queue["thief"])
<1>1. /\ pc["thief"] = "waiting" /\ queue["thief"] # <<>>
      /\ queue' = [queue EXCEPT !["thief"] = Tail(@)] /\ drops' = drops
  BY DEF Receive
<1>2. /\ Len(queue["thief"]) = 1 /\ Unread("police") /\ Says("police", queue["thief"][1])
      /\ pc["police"] = "sending" => call["police"].arrived
  BY <1>1, Roles DEF Posted
<1>3. /\ m \in TurnMessages /\ m = queue["thief"][1]
      /\ queue' \in [Role -> Seq(TurnMessages)]
      /\ queue'["thief"] = <<>> /\ queue'["police"] = queue["police"]
  BY <1>1, <1>2, TakeOne, Roles
<1>4. /\ Says("police", m) /\ m.step = Cop.step /\ m.claim = {Cop.local.position}
      /\ m.answer = "" /\ ~m.win
      /\ Cop.local.barriers = Thief.local.barriers \cup m.barrier
  BY <1>2, <1>3 DEF Says, Cop
<1> HIDE DEF m
<1>5. /\ Thief.inbox.next = Thief.step /\ Thief.step = Cop.step
      /\ Cop.inbox.next = Cop.step + 1 /\ Cop.step \in Nat
  BY <1>1, <1>2, Counting, Roles DEF InStep, Unread, Thief, Cop
<1>6. IsSession("thief", Thief) /\ Thief.outcome = ""
  BY <1>1, Counting, Roles DEF Decided, Thief
<1>7. /\ ~Contract!Refused(Thief.inbox, m)
      /\ \E o : Received(Thief, m) = Heard(o, m) /\ Advanced("thief", Thief, o)
  BY <1>3, <1>4, <1>5, <1>6, InOrderIsHeard, Roles
<1>8. PICK o : /\ Received(Thief, m) = Heard(o, m)
               /\ IsSession("thief", o)
               /\ o.local = Thief.local /\ o.step = Thief.step
               /\ o.outcome = ""
               /\ o.inbox.next = Thief.inbox.next + 1
  BY <1>6, <1>7 DEF Advanced
<1> DEFINE s == Heard(o, m)
<1>9. SendNext("thief", s)
  <2>1. SendNext("thief", Received(Thief, m))
    BY <1>7 DEF Receive, Thief, m
  <2> QED
    BY <1>8, <2>1
<1>10. /\ s.outcome \in {"", "capture"}
       /\ s.outcome = "capture" <=> s.answer = "caught"
       /\ s.outcome = "capture" => IsReal(Cop.local.position, s.local)
  <2>1. Truthful(Cop.local.position, s)
    BY <1>3, <1>4, <1>8, ThiefHears
  <2> HIDE DEF s
  <2> QED
    BY <2>1 DEF Truthful
<1>11. /\ IsSession("thief", s) /\ s.step = o.step /\ s.inbox = o.inbox
       /\ s.local = [o.local EXCEPT !.barriers = @ \cup m.barrier]
  <2>1. Attends("thief", o, m, s)
    BY <1>3, <1>8, HeardKeeps, Roles
  <2> HIDE DEF s
  <2> QED
    BY <2>1 DEF Attends
<1>12. s.local.barriers = Cop.local.barriers
  <2>1. o.local \in LocalState
    BY <1>8 DEF IsSession
  <2>2. [o.local EXCEPT !.barriers = @ \cup m.barrier].barriers
          = o.local.barriers \cup m.barrier
    BY <2>1 DEF LocalState
  <2> QED
    BY <1>4, <1>8, <1>11, <2>2
<1> HIDE DEF s
<1>13. ThiefReady(s)
  BY <1>5, <1>8, <1>10, <1>11, <1>12 DEF ThiefReady
<1>14. Quiet
  <2>1. ~Unread("thief")
    BY <1>5, Roles DEF Unread, Thief, Cop
  <2>2. queue["police"] = <<>>
    BY <2>1, Roles DEF Posted
  <2> QED
    BY <1>1, <1>3, <2>2, Roles DEF Quiet
<1> QED
  BY <1>2, <1>9, <1>13, <1>14, ThiefMoves

LEMMA CopReceives ==
  ASSUME SubGameInvariant, Receive("police")
  PROVE  SubGameInvariant'
<1> USE DEF SubGameInvariant
<1> DEFINE m == Head(queue["police"])
<1>1. /\ pc["police"] = "waiting" /\ queue["police"] # <<>>
      /\ queue' = [queue EXCEPT !["police"] = Tail(@)] /\ drops' = drops
  BY DEF Receive
<1>2. /\ Len(queue["police"]) = 1 /\ Unread("thief") /\ Says("thief", queue["police"][1])
      /\ pc["thief"] = "sending" => call["thief"].arrived
  BY <1>1, Roles DEF Posted
<1>3. /\ m \in TurnMessages /\ m = queue["police"][1]
      /\ queue' \in [Role -> Seq(TurnMessages)]
      /\ queue'["police"] = <<>> /\ queue'["thief"] = queue["thief"]
  BY <1>1, <1>2, TakeOne, Roles
<1>4. /\ m.step = Thief.step /\ m.barrier = {} /\ m.claim = {}
      /\ m.win <=> Thief.outcome = "survival"
      /\ m.answer = "caught" <=> Thief.outcome = "capture"
      /\ Thief.outcome = "" => Thief.step < SurvivalThreshold
  <2>1. Says("thief", m)
    BY <1>2, <1>3
  <2>2. m.step = session["thief"].step
    BY <2>1 DEF Says
  <2> QED
    BY <2>1, <2>2 DEF Says, Thief
<1> HIDE DEF m
<1>5. IsSession("police", Cop) /\ Cop.outcome = "" /\ Cop.answer = ""
  BY <1>1, Counting, Roles DEF Decided, Cop
<1>6. /\ Cop.inbox.next = Cop.step + 1 /\ Thief.step = Cop.inbox.next
      /\ Cop.step \in Nat
  BY <1>2, <1>5, Counting, Roles DEF InStep, Unread, Thief, Cop
<1>7. /\ ~Contract!Refused(Cop.inbox, m)
      /\ \E o : Received(Cop, m) = Heard(o, m) /\ Advanced("police", Cop, o)
  BY <1>3, <1>4, <1>5, <1>6, InOrderIsHeard, Roles
<1>8. PICK o : /\ Received(Cop, m) = Heard(o, m)
               /\ IsSession("police", o)
               /\ o.local = Cop.local /\ o.step = Cop.step
               /\ o.outcome = "" /\ o.answer = ""
               /\ o.inbox.next = Cop.inbox.next + 1
  BY <1>5, <1>7 DEF Advanced
<1> DEFINE s == Heard(o, m)
<1>9. SendNext("police", s)
  <2>1. SendNext("police", Received(Cop, m))
    BY <1>7 DEF Receive, Cop, m
  <2> QED
    BY <1>8, <2>1
<1>10. /\ s.local = o.local /\ s.answer = ""
       /\ s.outcome = IF m.win THEN "survival"
                      ELSE IF m.answer = "caught" THEN "capture" ELSE ""
  BY <1>3, <1>4, <1>8, CopHears
<1>11. IsSession("police", s) /\ s.step = o.step /\ s.inbox = o.inbox
  <2>1. Attends("police", o, m, s)
    BY <1>3, <1>8, HeardKeeps, Roles
  <2> HIDE DEF s
  <2> QED
    BY <2>1 DEF Attends
<1> HIDE DEF s
<1>12. s.outcome = Thief.outcome
  <2>1. Thief.outcome \in {"", "capture", "survival"}
    BY Counting DEF IsSession, Outcomes
  <2> QED
    BY <1>4, <1>10, <2>1
<1>13. s.inbox.next = s.step + 2
  <2>1. (Cop.step + 1) + 1 = Cop.step + 2
    <3> DEFINE n == Cop.step
    <3>1. n \in Nat
      BY <1>6
    <3> HIDE DEF n
    <3>2. (n + 1) + 1 = n + 2
      BY <3>1
    <3> QED
      BY <3>2 DEF n
  <2> QED
    BY <1>6, <1>8, <1>11, <2>1
<1>14. CopReady(s)
  BY <1>4, <1>6, <1>8, <1>10, <1>11, <1>12, <1>13 DEF CopReady
<1>15. Quiet
  <2>1. ~Unread("police")
    <3>1. Thief.step = Cop.step + 1 /\ Thief.step # 0 /\ Thief.step # Cop.step
      BY <1>6
    <3>2. Thief.inbox.next = Thief.step
      BY <3>1 DEF InStep
    <3> QED
      BY <3>1, <3>2, Roles DEF Unread, Thief, Cop
  <2>2. queue["thief"] = <<>>
    BY <2>1, Roles DEF Posted
  <2> QED
    BY <1>1, <1>3, <2>2, Roles DEF Quiet
<1> QED
  BY <1>2, <1>9, <1>14, <1>15, CopMoves

(* The steps that leave both sessions as they are. *)
LEMMA SessionsStand ==
  ASSUME SubGameInvariant, NEW r \in Role, UNCHANGED session,
         \A q \in Role : q # r => pc'[q] = pc[q],
         pc[r] \in {"waiting", "sending"},
         \/ pc'[r] = "failed"
         \/ pc'[r] = pc[r]
         \/ pc[r] = "sending" /\ pc'[r] = AfterSend(session[r])
  PROVE  InStep' /\ Decided' /\ BoardsMeet' /\ CaptureIsReal'
<1> USE DEF SubGameInvariant
<1>1. Thief' = Thief /\ Cop' = Cop
  BY DEF Thief, Cop
<1>2. CaptureIsReal'
  BY DEF CaptureIsReal
<1>3. \A q \in Role : /\ pc'[q] = "opening" <=> pc[q] = "opening"
                      /\ pc'[q] = "sending" => pc[q] = "sending"
                      /\ pc'[q] # "failed" => pc[q] # "failed"
  BY DEF AfterSend
<1>4. BoardsMeet'
  BY <1>1, <1>3, Roles DEF BoardsMeet
<1>5. InStep'
  <2>1. /\ pc'["thief"] = "opening" <=> pc["thief"] = "opening"
        /\ pc'["thief"] # "failed" => pc["thief"] # "failed"
    BY <1>3, Roles
  <2> QED
    BY <1>1, <2>1 DEF InStep
<1>6. Decided'
  <2>1. \A q \in Role : session[q].outcome = "" /\ pc[q] = "sending"
                         => ~(session[q].step >= MaxMoves)
    <3>1. Cop.step < SurvivalThreshold
      BY DEF InStep
    <3>2. Thief.outcome = "" /\ pc["thief"] = "sending" => Thief.step < SurvivalThreshold
      BY DEF InStep
    <3>3. \A n \in Nat : n < SurvivalThreshold => ~(n >= MaxMoves)
      BY BoardAssumption
    <3>4. /\ ~(Cop.step >= MaxMoves)
          /\ Thief.outcome = "" /\ pc["thief"] = "sending" => ~(Thief.step >= MaxMoves)
      BY <3>1, <3>2, <3>3, Counting
    <3> QED
      BY <3>4, Roles DEF Thief, Cop
  <2>2. \A q \in Role : /\ pc'[q] \in {"opening", "waiting"} => session'[q].outcome = ""
                        /\ pc'[q] = "settled" => session'[q].outcome # ""
    <3> SUFFICES ASSUME NEW q \in Role
                 PROVE  /\ pc'[q] \in {"opening", "waiting"} => session'[q].outcome = ""
                        /\ pc'[q] = "settled" => session'[q].outcome # ""
      OBVIOUS
    <3>1. /\ pc[q] \in {"opening", "waiting"} => session[q].outcome = ""
          /\ pc[q] = "settled" => session[q].outcome # ""
      BY DEF Decided
    <3>2. CASE pc'[q] = pc[q] \/ pc'[q] = "failed"
      BY <3>1, <3>2
    <3>3. CASE pc[q] = "sending" /\ pc'[q] = AfterSend(session[q])
      BY <2>1, <3>3 DEF AfterSend, Over
    <3> QED
      BY <3>2, <3>3
  <2>3. /\ pc'["police"] # "opening"
        /\ pc'["police"] = "sending" => Cop.outcome = ""
        /\ pc'["thief"] = "opening" => Thief.answer = ""
    BY <1>3, Roles DEF Decided
  <2> QED
    BY <1>1, <2>2, <2>3 DEF Decided
<1> QED
  BY <1>2, <1>4, <1>5, <1>6

LEMMA MessagesStand ==
  ASSUME UNCHANGED session
  PROVE  /\ \A q \in Role : Unread(q)' = Unread(q)
         /\ \A q \in Role : \A m : Says(q, m)' = Says(q, m)
BY DEF Unread, Says, Thief, Cop

LEMMA TypedStands ==
  ASSUME Typed, UNCHANGED session, pc' \in [Role -> Places],
         queue' \in [Role -> Seq(TurnMessages)],
         call' \in [Role -> [message : SUBSET TurnMessages, attempt : 0 .. 2,
                            arrived : BOOLEAN]],
         drops' \in 0 .. MaxDrops
  PROVE  Typed'
BY DEF Typed

LEMMA TimeOutKeeps ==
  ASSUME SubGameInvariant, NEW r \in Role, TimeOut(r)
  PROVE  SubGameInvariant'
<1> USE DEF SubGameInvariant
<1>1. /\ pc[r] = "waiting" /\ pc' = [pc EXCEPT ![r] = "failed"]
      /\ UNCHANGED <<session, queue, call, drops>>
  BY DEF TimeOut
<1>2. pc' \in [Role -> Places] /\ pc'[r] = "failed" /\ \A q \in Role : q # r => pc'[q] = pc[q]
  BY <1>1 DEF Typed, Places
<1>3. Typed'
  BY <1>1, <1>2, TypedStands DEF Typed
<1>4. InStep' /\ Decided' /\ BoardsMeet' /\ CaptureIsReal'
  BY <1>1, <1>2, SessionsStand
<1>5. \A q \in Role : Posted(q)'
  BY <1>1, <1>2, MessagesStand DEF Posted
<1> QED
  BY <1>3, <1>4, <1>5

LEMMA ArriveKeeps ==
  ASSUME SubGameInvariant, NEW r \in Role, Arrive(r)
  PROVE  SubGameInvariant'
<1> USE DEF SubGameInvariant
<1>1. /\ pc[r] = "sending" /\ ~call[r].arrived
      /\ call' = [call EXCEPT ![r].arrived = TRUE] /\ UNCHANGED <<session, pc, drops>>
  BY DEF Arrive
<1>2. PICK m \in call[r].message : queue' = [queue EXCEPT ![Opponent(r)] = Append(@, m)]
  BY DEF Arrive
<1>3. /\ Opponent(r) \in Role /\ Opponent(r) # r
      /\ \A q \in Role : q # r => Opponent(q) # Opponent(r)
  BY DEF Role, Opponent
<1>4. queue[Opponent(r)] = <<>> /\ Unread(r) /\ Says(r, m)
  BY <1>1, <1>2 DEF Posted
<1>5. m \in TurnMessages /\ queue[Opponent(r)] \in Seq(TurnMessages)
  BY <1>2, <1>3 DEF Typed
<1>6. /\ queue' \in [Role -> Seq(TurnMessages)]
      /\ queue'[Opponent(r)] = <<m>>
      /\ \A q \in Role : q # r => queue'[Opponent(q)] = queue[Opponent(q)]
  <2>1. Append(queue[Opponent(r)], m) = <<m>> /\ <<m>> \in Seq(TurnMessages)
    BY <1>4, <1>5
  <2>2. queue' = [queue EXCEPT ![Opponent(r)] = <<m>>]
    BY <1>2, <2>1
  <2>3. \A q \in Role : Opponent(q) \in Role
    BY DEF Role, Opponent
  <2> QED
    BY <1>3, <2>1, <2>2, <2>3 DEF Typed
<1>7. /\ call' \in [Role -> [message : SUBSET TurnMessages, attempt : 0 .. 2,
                            arrived : BOOLEAN]]
      /\ call'[r].arrived = TRUE
      /\ \A q \in Role : q # r => call'[q] = call[q]
  BY <1>1 DEF Typed
<1>8. Typed'
  BY <1>1, <1>6, <1>7, TypedStands DEF Typed
<1>9. InStep' /\ Decided' /\ BoardsMeet' /\ CaptureIsReal'
  BY <1>1, SessionsStand
<1>10. Posted(r)'
  <2>1. Len(<<m>>) = 1 /\ <<m>>[1] = m
    OBVIOUS
  <2> QED
    BY <1>1, <1>4, <1>6, <1>7, <2>1, MessagesStand DEF Posted
<1>11. \A q \in Role : q # r => Posted(q)'
  BY <1>1, <1>6, <1>7, MessagesStand DEF Posted
<1> QED
  BY <1>8, <1>9, <1>10, <1>11

LEMMA ReturnKeeps ==
  ASSUME SubGameInvariant, NEW r \in Role, Return(r)
  PROVE  SubGameInvariant'
<1> USE DEF SubGameInvariant
<1>1. /\ pc[r] = "sending" /\ call' = [call EXCEPT ![r] = NoCall]
      /\ pc' = [pc EXCEPT ![r] = AfterSend(session[r])]
      /\ UNCHANGED <<session, queue, drops>>
  BY DEF Return
<1>2. AfterSend(session[r]) \in Places /\ AfterSend(session[r]) # "sending"
  BY DEF AfterSend, Places
<1>3. /\ pc' \in [Role -> Places] /\ pc'[r] = AfterSend(session[r])
      /\ \A q \in Role : q # r => pc'[q] = pc[q]
  BY <1>1, <1>2 DEF Typed
<1>4. /\ call' \in [Role -> [message : SUBSET TurnMessages, attempt : 0 .. 2,
                            arrived : BOOLEAN]]
      /\ \A q \in Role : q # r => call'[q] = call[q]
  BY <1>1 DEF Typed, NoCall
<1>5. Typed'
  BY <1>1, <1>3, <1>4, TypedStands DEF Typed
<1>6. InStep' /\ Decided' /\ BoardsMeet' /\ CaptureIsReal'
  BY <1>1, <1>3, SessionsStand
<1>7. \A q \in Role : Posted(q)'
  BY <1>1, <1>2, <1>3, <1>4, MessagesStand DEF Posted
<1> QED
  BY <1>5, <1>6, <1>7

(* Where no reply is lost, a dropped connection leaves nothing behind. *)
LEMMA ReconnectKeeps ==
  ASSUME "reply_lost" \notin Faults, SubGameInvariant, NEW r \in Role, Reconnect(r)
  PROVE  SubGameInvariant'
<1> USE DEF SubGameInvariant
<1>1. /\ pc[r] = "sending" /\ ~call[r].arrived /\ drops < MaxDrops /\ drops' = drops + 1
      /\ call' = [call EXCEPT ![r].attempt = 2, ![r].arrived = FALSE]
      /\ UNCHANGED <<session, queue, pc>>
  BY DEF Reconnect, Dropped
<1>2. drops' \in 0 .. MaxDrops
  BY <1>1, SubGameAssumption DEF Typed
<1>3. /\ call' \in [Role -> [message : SUBSET TurnMessages, attempt : 0 .. 2,
                            arrived : BOOLEAN]]
      /\ call'[r].message = call[r].message
      /\ \A q \in Role : q # r => call'[q] = call[q]
  <2> DEFINE Attempts == 0 .. 2
             Calls == [message : SUBSET TurnMessages, attempt : Attempts,
                       arrived : BOOLEAN]
             second == 2
             c == [call EXCEPT ![r].attempt = second]
  <2>1. second \in Attempts /\ call \in [Role -> Calls]
    BY DEF Typed
  <2>2. call' = [c EXCEPT ![r].arrived = FALSE]
    BY <1>1
  <2> HIDE DEF second, Attempts
  <2>3. /\ c \in [Role -> Calls] /\ c[r].message = call[r].message
        /\ \A q \in Role : q # r => c[q] = call[q]
    BY <2>1
  <2> HIDE DEF c
  <2>4. /\ call' \in [Role -> Calls] /\ call'[r].message = call[r].message
        /\ \A q \in Role : q # r => call'[q] = call[q]
    BY <2>2, <2>3
  <2> QED
    BY <2>4 DEF Attempts
<1>4. Typed'
  BY <1>1, <1>2, <1>3, TypedStands DEF Typed
<1>5. InStep' /\ Decided' /\ BoardsMeet' /\ CaptureIsReal'
  BY <1>1, SessionsStand
<1>6. \A q \in Role : Posted(q)'
  BY <1>1, <1>3, MessagesStand DEF Posted
<1> QED
  BY <1>4, <1>5, <1>6

LEMMA GiveUpKeeps ==
  ASSUME SubGameInvariant, NEW r \in Role, GiveUp(r)
  PROVE  SubGameInvariant'
<1> USE DEF SubGameInvariant
<1>1. /\ pc[r] = "sending" /\ drops < MaxDrops /\ drops' = drops + 1
      /\ call' = [call EXCEPT ![r] = NoCall] /\ pc' = [pc EXCEPT ![r] = "failed"]
      /\ UNCHANGED <<session, queue>>
  BY DEF GiveUp, Dropped
<1>2. drops' \in 0 .. MaxDrops
  BY <1>1, SubGameAssumption DEF Typed
<1>3. /\ pc' \in [Role -> Places] /\ pc'[r] = "failed"
      /\ \A q \in Role : q # r => pc'[q] = pc[q]
  BY <1>1 DEF Typed, Places
<1>4. /\ call' \in [Role -> [message : SUBSET TurnMessages, attempt : 0 .. 2,
                            arrived : BOOLEAN]]
      /\ \A q \in Role : q # r => call'[q] = call[q]
  BY <1>1 DEF Typed, NoCall
<1>5. Typed'
  BY <1>1, <1>2, <1>3, <1>4, TypedStands DEF Typed
<1>6. InStep' /\ Decided' /\ BoardsMeet' /\ CaptureIsReal'
  BY <1>1, <1>3, SessionsStand
<1>7. \A q \in Role : Posted(q)'
  BY <1>1, <1>3, <1>4, MessagesStand DEF Posted
<1> QED
  BY <1>5, <1>6, <1>7

(* The invariant implies the properties of the runs. *)
LEMMA InvariantImplies ==
  ASSUME SubGameInvariant
  PROVE  TypeOK /\ Alternation /\ OutcomesAgree /\ CaptureIsReal
<1> USE DEF SubGameInvariant
<1>1. TypeOK
  <2>1. /\ Thief.step \in 0 .. MaxMoves + 1 /\ Cop.step \in 0 .. MaxMoves + 1
    <3> DEFINE t == Thief.step
               c == Cop.step
    <3>1. /\ t \in Nat /\ c \in Nat /\ c < SurvivalThreshold /\ t <= SurvivalThreshold
      BY Counting DEF InStep
    <3> HIDE DEF t, c
    <3>2. t \in 0 .. MaxMoves + 1 /\ c \in 0 .. MaxMoves + 1
      BY <3>1, BoardAssumption
    <3> QED
      BY <3>2 DEF t, c
  <2>2. \A r \in Role : session[r].step \in 0 .. MaxMoves + 1
    BY <2>1, Roles DEF Thief, Cop
  <2>3. \A r \in Role : IsSession(r, session[r])
    BY DEF Typed
  <2> QED
    BY <2>2, <2>3 DEF TypeOK, Typed, IsSession
<1>2. Alternation
  <2>1. Thief.step - Cop.step \in {0, 1}
    <3> DEFINE t == Thief.step
               c == Cop.step
    <3>1. t \in Nat /\ c \in Nat /\ t \in {c, c + 1}
      BY Counting DEF InStep
    <3> HIDE DEF t, c
    <3>2. t - c \in {0, 1}
      BY <3>1
    <3> QED
      BY <3>2 DEF t, c
  <2>2. ASSUME pc["thief"] = "waiting", Cop.step = Thief.inbox.next - 1
        PROVE  Thief.local.barriers = Cop.local.barriers
    <3> DEFINE t == Thief.step
               c == Cop.step
    <3>1. t \in Nat /\ c \in Nat /\ Thief.inbox.next = t
      BY <2>2, Counting DEF InStep
    <3>2. c = t - 1
      BY <2>2, <3>1
    <3> HIDE DEF t, c
    <3>3. t # c
      BY <3>1, <3>2
    <3> QED
      BY <3>3 DEF BoardsMeet, t, c
  <2> QED
    BY <2>1, <2>2 DEF Alternation, Thief, Cop
<1>3. OutcomesAgree
  <2> SUFFICES ASSUME \A r \in Role : pc[r] = "settled"
               PROVE  Result("thief") = Result("police") /\ Result("thief") # "timeout"
    BY DEF OutcomesAgree
  <2>1. Cop.outcome # "" /\ Cop.outcome = Thief.outcome
    BY Roles DEF Decided, Thief, Cop
  <2>2. Thief.outcome \in Outcomes
    BY Counting DEF IsSession
  <2> QED
    BY <2>1, <2>2 DEF Result, Outcomes, Thief, Cop
<1> QED
  BY <1>1, <1>2, <1>3

LEMMA StepKeeps ==
  ASSUME "reply_lost" \notin Faults, SubGameInvariant, [Next]_vars
  PROVE  SubGameInvariant'
<1>1. CASE UNCHANGED vars
  <2>1. session' = session /\ queue' = queue /\ call' = call /\ pc' = pc /\ drops' = drops
    BY <1>1 DEF vars
  <2>2. Typed' /\ InStep' /\ Decided'
    BY <2>1 DEF SubGameInvariant, Typed, InStep, Decided, Thief, Cop
  <2>3. BoardsMeet' /\ CaptureIsReal'
    BY <2>1 DEF SubGameInvariant, BoardsMeet, CaptureIsReal, Thief, Cop
  <2>4. \A r \in Role : Posted(r)'
    BY <2>1, MessagesStand DEF SubGameInvariant, Posted
  <2> QED
    BY <2>2, <2>3, <2>4 DEF SubGameInvariant
<1>2. ASSUME NEW r \in Role, Open(r)
      PROVE  SubGameInvariant'
  <2>1. pc["police"] # "opening"
    BY DEF SubGameInvariant, Decided
  <2>2. r = "thief"
    BY <1>2, <2>1, Roles DEF Open
  <2> QED
    BY <1>2, <2>2, OpenKeeps
<1>3. ASSUME NEW r \in Role, Receive(r)
      PROVE  SubGameInvariant'
  BY <1>3, ThiefReceives, CopReceives, Roles
<1>4. ASSUME NEW r \in Role, Work(r) \/ Trouble(r)
      PROVE  SubGameInvariant'
  BY <1>2, <1>3, <1>4, ArriveKeeps, ReturnKeeps, TimeOutKeeps, ReconnectKeeps,
     GiveUpKeeps DEF Work, Trouble
<1> QED
  BY <1>1, <1>4 DEF Next

-----------------------------------------------------------------------------
(* Where no reply is lost, a sub-game stays in its inductive invariant, for *)
(* every board, quota, threshold and number of dropped requests: half-turns *)
(* alternate and every message is the one its receiver waits for.           *)
THEOREM SubGameSafe ==
  ASSUME "reply_lost" \notin Faults
  PROVE  Spec => []SubGameInvariant
<1>1. Init => SubGameInvariant
  BY InitEstablishes
<1>2. SubGameInvariant /\ [Next]_vars => SubGameInvariant'
  BY StepKeeps
<1> QED
  BY <1>1, <1>2, PTL DEF Spec

(* Neither peer's state ever leaves its type, nor its step the ceiling. *)
THEOREM SubGameTypeOK ==
  ASSUME "reply_lost" \notin Faults
  PROVE  Spec => []TypeOK
<1>1. SubGameInvariant => TypeOK
  BY InvariantImplies
<1> QED
  BY <1>1, SubGameSafe, PTL

(* Nobody moves twice in a row, and the thief never on an outdated board. *)
THEOREM HalfTurnsAlternate ==
  ASSUME "reply_lost" \notin Faults
  PROVE  Spec => []Alternation
<1>1. SubGameInvariant => Alternation
  BY InvariantImplies
<1> QED
  BY <1>1, SubGameSafe, PTL

(* Two peers that settled a sub-game report the same outcome of it. *)
THEOREM SettledPeersAgree ==
  ASSUME "reply_lost" \notin Faults
  PROVE  Spec => []OutcomesAgree
<1>1. SubGameInvariant => OutcomesAgree
  BY InvariantImplies
<1> QED
  BY <1>1, SubGameSafe, PTL

(* A capture either of them has settled on is one on the board as it is. *)
THEOREM CapturesAreReal ==
  ASSUME "reply_lost" \notin Faults
  PROVE  Spec => []CaptureIsReal
<1>1. SubGameInvariant => CaptureIsReal
  BY InvariantImplies
<1> QED
  BY <1>1, SubGameSafe, PTL
=============================================================================
