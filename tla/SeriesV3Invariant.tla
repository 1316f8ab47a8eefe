------------------------- MODULE SeriesV3Invariant --------------------------
(* The inductive invariant of a series: what is on its way or stashed says  *)
(* how far its sender has come, the peers are never more than one round     *)
(* apart, and an audit of a round proves that its sender sends no more turns*)
(* of it.                                                                   *)
EXTENDS SeriesV3
Boxes == INSTANCE SequencesExt

InPlay(p) ==
  series[p].at \in {"opening", "playing", "replying", "closing", "submitting", "auditing"}
Over == {"ended", "failed"}
Meeting == {"greeting", "negotiating"}

(* What p has received of each kind, read or not. *)
Greeted(p) == Boxes!ToSet(queues[p].negotiate) \cup series[p].negotiate_pending
TurnsTo(p) == Boxes!ToSet(queues[p].turn)
AuditsTo(p) == Boxes!ToSet(queues[p].audit) \cup series[p].audit_pending

-----------------------------------------------------------------------------
(* Whatever goes wrong. *)

(* A greeting is the opponent's, of a round it has reached, or a stranger's.*)
IsTrue(p, g) ==
  \/ g.group = "stranger" /\ "stranger" \in faults
  \/ /\ g.group = Rival[p] /\ g.round \in 1 .. series[Rival[p]].n
     /\ g.role = role_for(Rival[p], g.round)
     /\ g.uid \in {"", p} \/ "stranger" \in faults
GreetingsAreTrue(p) == \A g \in Greeted(p) : IsTrue(p, g)

(* There is one greeting of a stranger at most. *)
OneStranger(p) ==
  LET read == series[p].negotiate_pending
      unread == queues[p].negotiate
  IN  /\ \A x, y \in read : x.group = "stranger" /\ y.group = "stranger" => x = y
      /\ \A i \in DOMAIN unread : unread[i].group = "stranger" =>
           /\ \A x \in read : x.group # "stranger"
           /\ \A j \in DOMAIN unread : unread[j].group = "stranger" => j = i

(* So whoever was pinned to a stranger plays no second round with it.       *)
StrangerIsSpent(p) ==
  /\ \A i \in DOMAIN queues[p].negotiate : queues[p].negotiate[i].group # "stranger"
  /\ \A x \in series[p].negotiate_pending : x.group # "stranger"
PinnedOnce(p) ==
  LET me == series[p] IN
  /\ me.known \in {"", Rival[p], "stranger"}
  /\ me.known = "" => me.n = 1 /\ ~InPlay(p)
  /\ me.known = "stranger" => "stranger" \in faults /\ StrangerIsSpent(p)

(* Who is in play was greeted in that round by an opponent who reached it.  *)
RoundsInStep(p) ==
  LET me == series[p]
      rival == series[Rival[p]]
  IN  /\ me.n <= rival.n + 1
      /\ InPlay(p) => me.n <= rival.n
      /\ \A m \in TurnsTo(p) : m.round <= me.n
      /\ \A a \in AuditsTo(p) : a.round <= me.n /\ a.round <= rival.n
      /\ me.at \notin Over => Len(me.rows) = me.n - 1

-----------------------------------------------------------------------------
(* While nothing is lost, given up or sent by anybody else. *)

(* Who is behind, or has sent the audit of a round, plays it no more.       *)
NoLateTurn(p) ==
  LET me == series[p]
      rival == series[Rival[p]]
      finishing == rival.at \in {"submitting", "auditing"} \cup Over
  IN  /\ rival.n < me.n => finishing
      /\ \A m \in TurnsTo(p) : m.round = me.n
      /\ \A a \in AuditsTo(p) : a.round < rival.n \/ finishing

(* p knows the outcome of round r, and still knows it. *)
Done(p) == series[p].at \in {"closing", "submitting", "auditing", "ended"}
DoneWith(p, r) ==
  \/ series[p].n = r /\ Done(p)
  \/ series[p].n = r + 1 /\ series[p].at \in Meeting

(* And with the same terms: the cop learns the outcome from the thief, and  *)
(* every audit of the round says it.                                        *)
OutcomesTravel(p) ==
  LET me == series[p]
      q == Rival[p]
      rival == series[q]
  IN  /\ me.at \notin Meeting => me.n <= rival.n
      /\ \A m \in TurnsTo(p) :
           m.kind = "closing" => DoneWith(q, me.n) /\ m.outcome = rival.outcome
      /\ \A a \in AuditsTo(p) :
           a.round = me.n => DoneWith(q, me.n) /\ a.claim = rival.outcome
      /\ Done(p) /\ PlayedRole(p) = "police" => DoneWith(q, me.n)
      /\ Done(p) /\ DoneWith(q, me.n) => me.outcome = rival.outcome
      /\ me.at # "failed"
      /\ me.at = "ended" => me.n = SubGames /\ Len(me.rows) = SubGames
      /\ \A i \in DOMAIN me.rows : me.rows[i].agreement

SeriesInvariant ==
  /\ SeriesTypeOK
  /\ \A p \in Peer : GreetingsAreTrue(p) /\ OneStranger(p) /\ PinnedOnce(p) /\ RoundsInStep(p)
  /\ faults \subseteq {"resend"} => \A p \in Peer : NoLateTurn(p)
  /\ sameTerms /\ faults \subseteq {"resend"} => \A p \in Peer : OutcomesTravel(p)

-----------------------------------------------------------------------------
(* What SeriesSettles says of the rows. *)
RowsAgree ==
  sameTerms /\ faults \subseteq {"resend"} => \A p \in Peer : IsOver(p) => Settled(p)
=============================================================================
