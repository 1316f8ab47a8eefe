------------------------------ MODULE SeriesV3 ------------------------------
(***************************************************************************)
(* A series of reference-v3 sub-games between two peers that are never     *)
(* restarted (interop.series_v3): negotiate, play, exchange audits, again. *)
(* The two are kept in step by nothing but the messages of a round: each   *)
(* is pushed into one of three queues of the opponent and may arrive twice *)
(* when a dropped call is repeated.                                        *)
(*                                                                         *)
(* A sub-game is its skeleton: the thief opens, the cop replies, the thief *)
(* closes with the outcome it alone can see (SubGameV3 has the game).      *)
(***************************************************************************)
EXTENDS Naturals, Sequences, FiniteSets

CONSTANTS
  SubGames,       \* sub-games of the series
  PossibleFaults, \* "timeout", "resend", "failure" (of a call), "stranger"
  MaxFaults       \* bound: faults of one series, timeouts not counted

ASSUME SeriesAssumption == SubGames \in Nat \ {0} /\ MaxFaults \in Nat

VARIABLES
  series,    \* what run_series holds, of each peer
  queues,    \* negotiate_q, turn_q and audit_q of each peer
  sameTerms, \* the two configurations yield the same terms
  faults     \* the faults that have happened; all but timeouts at most once

seriesVars == <<series, queues, sameTerms, faults>>

Peer == {"us", "them"}
Rival == [us |-> "them", them |-> "us"]
Groups == Peer \cup {"stranger"}
Rounds == 1..SubGames
Sides == [police |-> "thief", thief |-> "police"]
Natural == [us |-> "police", them |-> "thief"]
Terminals == {"", "capture", "survival"}

(* Odd sub-games play the natural role, even ones the opposite. *)
role_for(p, n) == IF n % 2 = 1 THEN Natural[p] ELSE Sides[Natural[p]]

Greetings == [round : {0} \cup Rounds, role : DOMAIN Sides, group : Groups,
              uid : {""} \cup Groups]
Turns == [round : Rounds, kind : {"opening", "reply", "closing"}, outcome : Terminals]
Audits == [round : Rounds, claim : Terminals]
Rows == [local : Terminals, remote : Terminals,
         status : {"verified", "unverified", "no_audit"}, agreement : BOOLEAN]

(* The call in progress, or what the peer waits for. *)
Calls == {"greeting", "opening", "replying", "closing", "submitting"}
Waits == {"negotiating", "playing", "auditing"}

SeriesTypeOK ==
  /\ series \in [Peer -> [n : Rounds, at : Calls \cup Waits \cup {"ended", "failed"},
                          sent : BOOLEAN, known : {""} \cup Groups, outcome : Terminals,
                          rows : Seq(Rows), negotiate_pending : SUBSET Greetings,
                          audit_pending : SUBSET Audits]]
  /\ queues \in [Peer -> [negotiate : Seq(Greetings), turn : Seq(Turns), audit : Seq(Audits)]]
  /\ \A p \in Peer : Len(series[p].rows) \in {series[p].n - 1, series[p].n}
  /\ sameTerms \in BOOLEAN /\ faults \subseteq PossibleFaults

SeriesInit ==
  /\ series = [p \in Peer |-> [n |-> 1, at |-> "greeting", sent |-> FALSE, known |-> "",
                               outcome |-> "", rows |-> <<>>,
                               negotiate_pending |-> {}, audit_pending |-> {}]]
  /\ queues = [p \in Peer |-> [negotiate |-> <<>>, turn |-> <<>>, audit |-> <<>>]]
  /\ sameTerms \in BOOLEAN
  /\ faults = {}

Happens(fault) ==
  /\ fault \in PossibleFaults \ faults
  /\ Cardinality(faults \ {"timeout"}) < MaxFaults
  /\ faults' = faults \cup {fault}

PlayedRole(p) == role_for(p, series[p].n)
Goes(p, place) == series' = [series EXCEPT ![p].at = place]

-----------------------------------------------------------------------------
(* OutboundSession.call: the message arrives, perhaps a second time, and    *)
(* then the call returns; or the connection never comes up again.           *)

build_greeting(p) == [round |-> series[p].n, role |-> PlayedRole(p), group |-> p, uid |-> series[p].known]
Turn(p, kind) == [round |-> series[p].n, kind |-> kind, outcome |-> series[p].outcome]
audit_payload(p) == [round |-> series[p].n, claim |-> series[p].outcome]

Delivered(p, box) ==
  CASE series[p].at = "greeting"   -> [box EXCEPT !.negotiate = Append(@, build_greeting(p))]
    [] series[p].at = "opening"    -> [box EXCEPT !.turn = Append(@, Turn(p, "opening"))]
    [] series[p].at = "replying"   -> [box EXCEPT !.turn = Append(@, Turn(p, "reply"))]
    [] series[p].at = "closing"    -> [box EXCEPT !.turn = Append(@, Turn(p, "closing"))]
    [] series[p].at = "submitting" -> [box EXCEPT !.audit = Append(@, audit_payload(p))]
Arrives(p) == queues' = [queues EXCEPT ![Rival[p]] = Delivered(p, @)]

Call(p) ==
  /\ series[p].at \in Calls /\ ~series[p].sent
  /\ Arrives(p)
  /\ series' = [series EXCEPT ![p].sent = TRUE]
  /\ UNCHANGED <<sameTerms, faults>>
Resend(p) ==
  /\ series[p].at \in Calls /\ series[p].sent
  /\ Happens("resend")
  /\ Arrives(p)
  /\ UNCHANGED <<series, sameTerms>>

AfterCall == [greeting |-> "negotiating", opening |-> "playing", replying |-> "playing",
              closing |-> "submitting", submitting |-> "auditing"]
Returns(p) ==
  /\ series[p].at \in Calls /\ series[p].sent
  /\ series' = [series EXCEPT ![p].at = AfterCall[@], ![p].sent = FALSE]
  /\ UNCHANGED <<queues, sameTerms, faults>>
CallFails(p) ==
  /\ series[p].at \in Calls
  /\ Happens("failure")
  /\ Goes(p, "failed")
  /\ UNCHANGED <<queues, sameTerms>>

-----------------------------------------------------------------------------
(* negotiate_round *)

(* A declaration refuses only if both sides make it and it differs. *)
lock_decision(ours, theirs) == IF "" \in {ours, theirs} \/ ours = theirs THEN "play" ELSE "refuse"

verify_greeting(p, g) ==
  IF ~sameTerms THEN "refused"
  ELSE IF g.role = PlayedRole(p) THEN "bystander"
  ELSE IF lock_decision(p, g.uid) = "refuse" THEN "refused"
  ELSE "agreed"

(* One series, one opponent. *)
SameOpponent(p, g) == series[p].known \in {"", g.group}

Pinned(p, g, rest) ==
  series' = [series EXCEPT ![p].known = g.group, ![p].outcome = "",
                           ![p].negotiate_pending = rest,
                           ![p].at = IF PlayedRole(p) = "thief" THEN "opening" ELSE "playing"]

(* g is read, and rest is what then remains in the stash. *)
Judges(p, g, rest) ==
  LET verdict == verify_greeting(p, g)
  IN  \/ verdict = "agreed" /\ SameOpponent(p, g) /\ Pinned(p, g, rest)
      \/ /\ verdict = "bystander"
         /\ series' = [series EXCEPT ![p].negotiate_pending = rest]
      \/ /\ verdict = "refused" \/ (verdict = "agreed" /\ ~SameOpponent(p, g))
         /\ series' = [series EXCEPT ![p].negotiate_pending = rest, ![p].at = "ended"]

(* A message of another round replaces the one stashed for that round. *)
Stashed(pending, m) == {x \in pending : x.round # m.round} \cup {m}

(* What was stashed for this round is taken first, and only once.           *)
Negotiate(p) ==
  LET s == series[p]
      g == Head(queues[p].negotiate)
      pending == s.negotiate_pending
      mine == {x \in pending : x.round = s.n}
  IN  /\ s.at = "negotiating"
      /\ \/ \E x \in mine : Judges(p, x, pending \ {x}) /\ UNCHANGED queues
         \/ /\ mine = {} /\ queues[p].negotiate # <<>>
            /\ queues' = [queues EXCEPT ![p].negotiate = Tail(@)]
            /\ IF g.round \in Rounds \ {s.n}
               THEN series' = [series EXCEPT ![p].negotiate_pending = Stashed(@, g)]
               ELSE Judges(p, g, pending)
      /\ UNCHANGED <<sameTerms, faults>>

-----------------------------------------------------------------------------
(* play_to_outcome: every message read is followed by a turn of one's own. *)

Stray(p) == Head(queues[p].turn).round # series[p].n

Play(p) ==
  LET m == Head(queues[p].turn)
      thief == PlayedRole(p) = "thief"
  IN  /\ series[p].at = "playing" /\ queues[p].turn # <<>>
      /\ queues' = [queues EXCEPT ![p].turn = Tail(@)]
      /\ \/ /\ Stray(p)     \* an equivocation, or buffered, and the turn is taken
            /\ Goes(p, "failed") \/ Goes(p, IF thief THEN "opening" ELSE "replying")
         \/ /\ ~Stray(p) /\ thief
            /\ \E outcome \in Terminals \ {""} :
                 series' = [series EXCEPT ![p].outcome = outcome, ![p].at = "closing"]
         \/ /\ ~Stray(p) /\ ~thief /\ m.kind = "opening" /\ Goes(p, "replying")
         \/ /\ ~Stray(p) /\ ~thief /\ m.kind = "closing"
            /\ series' = [series EXCEPT ![p].outcome = m.outcome, ![p].at = "submitting"]
      /\ UNCHANGED <<sameTerms, faults>>

-----------------------------------------------------------------------------
(* await_matching_audit, the row, and the next round. *)

(* The commits of a chain are those that were played in its own round.      *)
verify_audit(p, audit) == IF audit.round = series[p].n THEN "verified" ELSE "unverified"

SubGameRow(p, remote, status) ==
  [local |-> series[p].outcome, remote |-> remote, status |-> status,
   agreement |-> remote = series[p].outcome /\ status = "verified"]

(* The turn queue is emptied before this peer greets for the round.         *)
Drained_Kept(p, n) == queues[p].turn
Drained(p, n) == <<>>

Settles(p, row, rest, pending) ==
  LET n == series[p].n IN
  /\ series' = [series EXCEPT ![p].rows = Append(@, row), ![p].audit_pending = pending,
                              ![p].n = IF n < SubGames THEN n + 1 ELSE n,
                              ![p].at = IF n < SubGames THEN "greeting" ELSE "ended"]
  /\ queues' = [queues EXCEPT ![p].audit = rest,
                            ![p].turn = IF n < SubGames THEN Drained(p, n) ELSE @]

IsMatching(p, audit) == audit.round = series[p].n

AwaitAudit(p) ==
  LET q == queues[p].audit
      pending == series[p].audit_pending
      mine == {a \in pending : a.round = series[p].n}
  IN  /\ series[p].at = "auditing"
      /\ \/ \E a \in mine :
              Settles(p, SubGameRow(p, a.claim, verify_audit(p, a)), q, pending \ {a})
         \/ /\ mine = {} /\ q # <<>> /\ IsMatching(p, Head(q))
            /\ Settles(p, SubGameRow(p, Head(q).claim, verify_audit(p, Head(q))), Tail(q), pending)
         \/ /\ mine = {} /\ q # <<>> /\ ~IsMatching(p, Head(q))
            /\ series' = [series EXCEPT ![p].audit_pending = Stashed(@, Head(q))]
            /\ queues' = [queues EXCEPT ![p].audit = Tail(@)]
      /\ UNCHANGED <<sameTerms, faults>>

-----------------------------------------------------------------------------
(* A wait that runs out: SPAR-N09 ends the series, the audit is missed and  *)
(* the series goes on, a turn that does not come ends it as an error.       *)
TimesOut(p) ==
  /\ series[p].at \in Waits
  /\ "timeout" \in PossibleFaults
  /\ faults' = faults \cup {"timeout"}
  /\ \/ series[p].at = "negotiating" /\ Goes(p, "ended") /\ UNCHANGED queues
     \/ series[p].at = "playing" /\ Goes(p, "failed") /\ UNCHANGED queues
     \/ /\ series[p].at = "auditing"
        /\ Settles(p, SubGameRow(p, "", "no_audit"), queues[p].audit, series[p].audit_pending)
  /\ UNCHANGED sameTerms

(* Somebody else greets: for any round or none, in any role.                *)
StrangerGreets(p) ==
  /\ Happens("stranger")
  /\ series[p].at \in Calls \cup Waits
  /\ \E n \in {0} \cup Rounds, role \in DOMAIN Sides :
       queues' = [queues EXCEPT ![p].negotiate =
                   Append(@, [round |-> n, role |-> role, group |-> "stranger", uid |-> ""])]
  /\ UNCHANGED <<series, sameTerms>>

(* What run_series itself does next. *)
PeerStep(p) == Call(p) \/ Returns(p) \/ Negotiate(p) \/ Play(p) \/ AwaitAudit(p) \/ TimesOut(p)
SeriesNext == \E p \in Peer : PeerStep(p) \/ Resend(p) \/ CallFails(p) \/ StrangerGreets(p)

-----------------------------------------------------------------------------
IsOver(p) == series[p].at \in {"ended", "failed"}
Settled(p) == /\ Len(series[p].rows) = SubGames
              /\ \A i \in Rounds : series[p].rows[i].agreement


(* The rounds of the two peers stay apart: unless an audit was given up, no *)
(* turn is read in a later sub-game than it was sent in; emptying the turn  *)
(* queue never loses a turn of the round it opens; and the opponent that a  *)
(* series began with is the one it ends with.                               *)
RoundsStayApart ==
  /\ [](\A p \in Peer : faults \subseteq {"resend"} /\ series[p].at = "playing" /\ queues[p].turn # <<>>
          => ~Stray(p))
  /\ [][\A p \in Peer : series'[p].n # series[p].n
          => \A i \in DOMAIN queues[p].turn : queues[p].turn[i].round # series'[p].n]_seriesVars
  /\ [][\A p \in Peer : series[p].known # "" => series'[p].known = series[p].known]_seriesVars
=============================================================================
