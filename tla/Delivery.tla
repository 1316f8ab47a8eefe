------------------------------ MODULE Delivery ------------------------------
(***************************************************************************)
(* The at-least-once delivery contract of reference-v3                     *)
(* (interop.delivery): what an inbox does with one arrival, and which      *)
(* messages that arrival makes ready.  A message is a record with at least *)
(* a step and a commit.                                                    *)
(***************************************************************************)
EXTENDS Naturals, Sequences

Sets == INSTANCE FiniteSetsExt
Funs == INSTANCE Functions

CONSTANT Window \* how far ahead of the next step an arrival is kept

ASSUME WindowAssumption == Window \in Nat

(* played: the commit of every step applied; buffered: the message kept     *)
(* for a step that is still ahead; next: the step to apply next.            *)
EmptyInbox_FromZero == [next |-> 0, played |-> <<>>, buffered |-> <<>>]
EmptyInbox == [next |-> 1, played |-> <<>>, buffered |-> <<>>]

Decision_ByStep(in, m) ==
  IF m.step \in DOMAIN in.played THEN "absorb"
  ELSE IF m.step = in.next THEN "apply"
  ELSE IF m.step < in.next THEN "discard"
  ELSE IF m.step <= in.next + Window THEN "buffer" ELSE "violation"
Decision(in, m) ==
  IF m.step \in DOMAIN in.played
  THEN IF in.played[m.step] = m.commit THEN "absorb" ELSE "equivocation"
  ELSE IF m.step = in.next THEN "apply"
  ELSE IF m.step < in.next THEN "discard"
  ELSE IF m.step <= in.next + Window THEN "buffer" ELSE "violation"

Refused(in, m) == Decision(in, m) \in {"equivocation", "violation"}

(* The last step that m, when it is applied, makes ready: the buffer drains *)
(* as far as it has no gap.                                                 *)
LastReady(in, m) ==
  Sets!Max({k \in {m.step} \cup DOMAIN in.buffered :
         k >= m.step /\ (m.step + 1) .. k \subseteq DOMAIN in.buffered})

(* The messages to apply, in step order. *)
Ready(in, m) ==
  IF Decision(in, m) # "apply" THEN <<>>
  ELSE [i \in 1 .. LastReady(in, m) - m.step + 1 |->
          IF i = 1 THEN m ELSE in.buffered[m.step + i - 1]]

(* Inbox.offer, of an arrival that is not refused. *)
Offered(in, m) ==
  CASE Decision(in, m) = "buffer" ->
         [in EXCEPT !.buffered =
            [s \in DOMAIN @ \cup {m.step} |-> IF s = m.step THEN m ELSE @[s]]]
    [] Decision(in, m) = "apply" ->
         [next     |-> LastReady(in, m) + 1,
          played   |-> [s \in DOMAIN in.played \cup m.step .. LastReady(in, m) |->
                          CASE s = m.step -> m.commit
                            [] s \in DOMAIN in.played -> in.played[s]
                            [] OTHER -> in.buffered[s].commit],
          buffered |-> Funs!RestrictDomain(in.buffered, LAMBDA s : s > LastReady(in, m))]
    [] OTHER -> in
=============================================================================
