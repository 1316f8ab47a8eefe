--------------------------- MODULE SeriesV3Proofs ---------------------------
(* Proofs about SeriesV3, for every length of the series and whatever may   *)
(* go wrong in it.                                                          *)
EXTENDS SeriesV3Invariant, SequenceTheorems, TLAPS

(* Two peers that run a series, whatever happens and whenever. *)
SeriesSpec == SeriesInit /\ [][SeriesNext]_seriesVars

-----------------------------------------------------------------------------
(* Two peers, and the roles they take in turn. *)

LEMMA TwoPeers ==
  ASSUME NEW p \in Peer
  PROVE  /\ Rival[p] \in Peer /\ Rival[p] # p /\ Rival[Rival[p]] = p
         /\ Peer = {p, Rival[p]} /\ p # "stranger" /\ p # ""
         /\ p \in Groups
<1>1. CASE p = "us"
  BY <1>1 DEF Peer, Rival, Groups
<1>2. CASE p = "them"
  BY <1>2 DEF Peer, Rival, Groups
<1> QED
  BY <1>1, <1>2 DEF Peer

LEMMA Roles ==
  ASSUME NEW p \in Peer, NEW n \in Rounds
  PROVE  /\ role_for(p, n) \in {"police", "thief"}
         /\ role_for(Rival[p], n) \in {"police", "thief"}
         /\ role_for(p, n) # role_for(Rival[p], n)
<1>1. CASE p = "us"
  <2>1. Rival[p] = "them" /\ Natural["us"] = "police" /\ Natural["them"] = "thief"
    BY <1>1 DEF Rival, Natural
  <2> QED
    BY <1>1, <2>1 DEF role_for, Sides
<1>2. CASE p = "them"
  <2>1. Rival[p] = "us" /\ Natural["us"] = "police" /\ Natural["them"] = "thief"
    BY <1>2 DEF Rival, Natural
  <2> QED
    BY <1>2, <2>1 DEF role_for, Sides
<1> QED
  BY <1>1, <1>2 DEF Peer

LEMMA Sidings == DOMAIN Sides = {"police", "thief"}
BY DEF Sides

LEMMA RoundNumbers ==
  /\ SubGames \in Nat /\ 1 \in Rounds
  /\ \A n \in Rounds : n \in Nat /\ n >= 1 /\ n <= SubGames
  /\ \A n \in Rounds : n < SubGames => n + 1 \in Rounds
BY SeriesAssumption DEF Rounds

-----------------------------------------------------------------------------
(* Queues: what is in one that grew at the end or lost its head.            *)

LEMMA Longer ==
  ASSUME NEW S, NEW s \in Seq(S), NEW e \in S
  PROVE  /\ Append(s, e) \in Seq(S)
         /\ Boxes!ToSet(Append(s, e)) = Boxes!ToSet(s) \cup {e}
         /\ DOMAIN Append(s, e) = 1 .. Len(s) + 1
         /\ DOMAIN s = 1 .. Len(s) /\ Len(s) \in Nat
         /\ \A i \in DOMAIN s : Append(s, e)[i] = s[i]
         /\ Append(s, e)[Len(s) + 1] = e
BY DEF Boxes!ToSet

LEMMA Shorter ==
  ASSUME NEW S, NEW s \in Seq(S), s # <<>>
  PROVE  /\ Tail(s) \in Seq(S) /\ Head(s) \in S
         /\ Boxes!ToSet(s) = Boxes!ToSet(Tail(s)) \cup {Head(s)}
         /\ Boxes!ToSet(Tail(s)) \subseteq Boxes!ToSet(s) /\ Head(s) \in Boxes!ToSet(s)
         /\ 1 \in DOMAIN s /\ Head(s) = s[1]
         /\ \A i \in DOMAIN Tail(s) : i + 1 \in DOMAIN s /\ Tail(s)[i] = s[i + 1] /\ i \in Nat /\ i >= 1
<1>1. /\ Tail(s) \in Seq(S) /\ Head(s) \in S /\ Head(s) = s[1] /\ Len(s) \in Nat /\ Len(s) >= 1
      /\ DOMAIN s = 1 .. Len(s) /\ Len(Tail(s)) = Len(s) - 1 /\ DOMAIN Tail(s) = 1 .. Len(s) - 1
      /\ \A i \in 1 .. Len(s) - 1 : Tail(s)[i] = s[i + 1]
  OBVIOUS
<1>2. \A i \in DOMAIN s : i = 1 \/ (i - 1 \in DOMAIN Tail(s) /\ s[i] = Tail(s)[i - 1])
  BY <1>1
<1>3. \A i \in DOMAIN Tail(s) : i + 1 \in DOMAIN s /\ Tail(s)[i] = s[i + 1] /\ i \in Nat /\ i >= 1
  BY <1>1
<1>4. 1 \in DOMAIN s
  BY <1>1
<1>5. Boxes!ToSet(s) \subseteq Boxes!ToSet(Tail(s)) \cup {Head(s)}
  <2> SUFFICES ASSUME NEW i \in DOMAIN s
               PROVE  s[i] \in Boxes!ToSet(Tail(s)) \cup {Head(s)}
    BY DEF Boxes!ToSet
  <2>1. CASE i = 1
    BY <2>1, <1>1
  <2>2. CASE i # 1
    BY <2>2, <1>2 DEF Boxes!ToSet
  <2> QED
    BY <2>1, <2>2
<1>6. Boxes!ToSet(Tail(s)) \subseteq Boxes!ToSet(s) /\ Head(s) \in Boxes!ToSet(s)
  BY <1>1, <1>3, <1>4 DEF Boxes!ToSet
<1> QED
  BY <1>1, <1>3, <1>4, <1>5, <1>6

LEMMA NothingQueued ==
  /\ Boxes!ToSet(<<>>) = {} /\ Len(<<>>) = 0 /\ DOMAIN <<>> = {}
  /\ \A S : <<>> \in Seq(S)
<1>1. Len(<<>>) = 0 /\ DOMAIN <<>> = {}
  OBVIOUS
<1>2. \A S : <<>> \in Seq(S)
  BY EmptySeq
<1> QED
  BY <1>1, <1>2 DEF Boxes!ToSet

-----------------------------------------------------------------------------
(* The types. *)

PeerStates ==
  [n : Rounds, at : Calls \cup Waits \cup {"ended", "failed"},
   sent : BOOLEAN, known : {""} \cup Groups, outcome : Terminals,
   rows : Seq(Rows), negotiate_pending : SUBSET Greetings, audit_pending : SUBSET Audits]
Mail == [negotiate : Seq(Greetings), turn : Seq(Turns), audit : Seq(Audits)]

LEMMA PeerTypes ==
  ASSUME SeriesTypeOK, NEW p \in Peer
  PROVE  /\ series[p] \in PeerStates /\ queues[p] \in Mail
         /\ series[p].n \in Rounds /\ series[p].at \in Calls \cup Waits \cup Over
         /\ series[p].known \in {""} \cup Groups /\ series[p].outcome \in Terminals
         /\ series[p].rows \in Seq(Rows) /\ series[p].negotiate_pending \subseteq Greetings
         /\ series[p].audit_pending \subseteq Audits
         /\ queues[p].negotiate \in Seq(Greetings) /\ queues[p].turn \in Seq(Turns)
         /\ queues[p].audit \in Seq(Audits)
<1>1. series[p] \in PeerStates /\ queues[p] \in Mail
  BY DEF SeriesTypeOK, PeerStates, Mail
<1> QED
  BY <1>1 DEF PeerStates, Mail, Over

(* One peer moves on. *)
LEMMA PeerMoves ==
  ASSUME SeriesTypeOK, NEW p \in Peer, NEW s \in PeerStates,
         series' = [series EXCEPT ![p] = s], Len(s.rows) \in {s.n - 1, s.n},
         queues' \in [Peer -> Mail], sameTerms' = sameTerms, faults' \subseteq PossibleFaults
  PROVE  SeriesTypeOK' /\ series'[p] = s /\ series'[Rival[p]] = series[Rival[p]]
<1>1. /\ series \in [Peer -> PeerStates] /\ sameTerms \in BOOLEAN
      /\ \A q \in Peer : Len(series[q].rows) \in {series[q].n - 1, series[q].n}
  BY DEF SeriesTypeOK, PeerStates
<1>2. /\ series' \in [Peer -> PeerStates] /\ series'[p] = s
      /\ \A q \in Peer \ {p} : series'[q] = series[q]
  BY <1>1
<1>3. \A q \in Peer : Len(series'[q].rows) \in {series'[q].n - 1, series'[q].n}
  BY <1>1, <1>2
<1>4. series'[Rival[p]] = series[Rival[p]]
  BY <1>2, TwoPeers
<1>5. sameTerms' \in BOOLEAN
  BY <1>1
<1> QED
  BY <1>2, <1>3, <1>4, <1>5 DEF SeriesTypeOK, PeerStates, Mail

LEMMA MailMoves ==
  ASSUME SeriesTypeOK, NEW p \in Peer, NEW b \in Mail, queues' = [queues EXCEPT ![p] = b]
  PROVE  queues' \in [Peer -> Mail] /\ queues'[p] = b /\ queues'[Rival[p]] = queues[Rival[p]]
<1>1. queues \in [Peer -> Mail]
  BY DEF SeriesTypeOK, Mail
<1> QED
  BY <1>1, TwoPeers

LEMMA MailStays ==
  ASSUME SeriesTypeOK
  PROVE  queues \in [Peer -> Mail]
BY DEF SeriesTypeOK, Mail

-----------------------------------------------------------------------------
(* Nothing of the invariant is about what a call has sent. *)

Unmoved ==
  \A r \in Peer :
    /\ series'[r].n = series[r].n /\ series'[r].at = series[r].at
    /\ series'[r].known = series[r].known /\ series'[r].outcome = series[r].outcome
    /\ series'[r].rows = series[r].rows
    /\ series'[r].negotiate_pending = series[r].negotiate_pending
    /\ series'[r].audit_pending = series[r].audit_pending

Basic(p) == GreetingsAreTrue(p) /\ OneStranger(p) /\ PinnedOnce(p) /\ RoundsInStep(p)

LEMMA UnmovedAtoms ==
  ASSUME Unmoved, NEW p \in Peer
  PROVE  /\ InPlay(p)' <=> InPlay(p)
         /\ Done(p)' <=> Done(p)
         /\ \A n : DoneWith(p, n)' <=> DoneWith(p, n)
         /\ PlayedRole(p)' = PlayedRole(p)
BY DEF Unmoved, InPlay, Done, DoneWith, PlayedRole

LEMMA NothingArrived ==
  ASSUME SeriesInvariant, Unmoved, NEW p \in Peer, queues'[p] = queues[p],
         faults \subseteq faults', faults' \subseteq faults \cup {"resend"}, sameTerms' = sameTerms
  PROVE  /\ Basic(p)'
         /\ faults' \subseteq {"resend"} => NoLateTurn(p)'
         /\ sameTerms' /\ faults' \subseteq {"resend"} => OutcomesTravel(p)'
<1> DEFINE q == Rival[p]
<1>1. q \in Peer
  BY TwoPeers
<1>2. Greeted(p)' = Greeted(p) /\ TurnsTo(p)' = TurnsTo(p) /\ AuditsTo(p)' = AuditsTo(p)
  BY DEF Greeted, TurnsTo, AuditsTo, Unmoved
<1>3. GreetingsAreTrue(p)'
  <2>1. \A g \in Greeted(p) : IsTrue(p, g)
    BY DEF SeriesInvariant, GreetingsAreTrue
  <2>2. series'[q].n = series[q].n
    BY <1>1 DEF Unmoved
  <2>3. \A g \in Greeted(p) : IsTrue(p, g)'
    BY <2>1, <2>2 DEF IsTrue
  <2> QED
    BY <2>3, <1>2 DEF GreetingsAreTrue
<1>4. OneStranger(p)'
  BY DEF OneStranger, SeriesInvariant, Unmoved
<1>5. PinnedOnce(p)'
  <2>1. PinnedOnce(p)
    BY DEF SeriesInvariant
  <2>2. StrangerIsSpent(p) => StrangerIsSpent(p)'
    BY DEF StrangerIsSpent, Unmoved
  <2>3. series'[p].n = series[p].n /\ series'[p].known = series[p].known
    BY DEF Unmoved
  <2> QED
    BY <2>1, <2>2, <2>3, UnmovedAtoms DEF PinnedOnce
<1>6. RoundsInStep(p)'
  BY <1>1, <1>2, UnmovedAtoms DEF RoundsInStep, SeriesInvariant, Unmoved
<1>7. faults' \subseteq {"resend"} => NoLateTurn(p)'
  BY <1>1, <1>2 DEF NoLateTurn, SeriesInvariant, Unmoved
<1>8. sameTerms' /\ faults' \subseteq {"resend"} => OutcomesTravel(p)'
  BY <1>1, <1>2, UnmovedAtoms DEF OutcomesTravel, SeriesInvariant, Unmoved
<1> QED
  BY <1>3, <1>4, <1>5, <1>6, <1>7, <1>8 DEF Basic

(* What the invariant says, of either peer. *)
LEMMA BothHold ==
  ASSUME SeriesTypeOK', NEW p \in Peer,
         \A r \in {p, Rival[p]} :
           /\ Basic(r)'
           /\ faults' \subseteq {"resend"} => NoLateTurn(r)'
           /\ sameTerms' /\ faults' \subseteq {"resend"} => OutcomesTravel(r)'
  PROVE  SeriesInvariant'
<1>1. Peer = {p, Rival[p]}
  BY TwoPeers
<1> QED
  BY <1>1 DEF SeriesInvariant, Basic

-----------------------------------------------------------------------------
(* A call's message reaches the opponent, once or once more.                *)

Sending(p) ==
  /\ Unmoved /\ sameTerms' = sameTerms
  /\ faults \subseteq faults' /\ faults' \subseteq faults \cup {"resend"}

LEMMA TurnsAndAuditsStay ==
  ASSUME SeriesInvariant, NEW p \in Peer, Sending(p),
         queues'[p].turn = queues[p].turn, queues'[p].audit = queues[p].audit
  PROVE  /\ RoundsInStep(p)'
         /\ faults' \subseteq {"resend"} => NoLateTurn(p)'
         /\ sameTerms' /\ faults' \subseteq {"resend"} => OutcomesTravel(p)'
<1> DEFINE q == Rival[p]
<1>1. q \in Peer
  BY TwoPeers
<1>2. TurnsTo(p)' = TurnsTo(p) /\ AuditsTo(p)' = AuditsTo(p)
  BY DEF TurnsTo, AuditsTo, Unmoved, Sending
<1>3. RoundsInStep(p)'
  BY <1>1, <1>2, UnmovedAtoms DEF RoundsInStep, SeriesInvariant, Unmoved, Sending
<1>4. faults' \subseteq {"resend"} => NoLateTurn(p)'
  BY <1>1, <1>2 DEF NoLateTurn, SeriesInvariant, Unmoved, Sending
<1>5. sameTerms' /\ faults' \subseteq {"resend"} => OutcomesTravel(p)'
  BY <1>1, <1>2, UnmovedAtoms DEF OutcomesTravel, SeriesInvariant, Unmoved, Sending
<1> QED
  BY <1>3, <1>4, <1>5

LEMMA GreetingArrives ==
  ASSUME SeriesInvariant, NEW p \in Peer, series[p].at = "greeting", Sending(p),
         queues'[Rival[p]] = [queues[Rival[p]] EXCEPT !.negotiate = Append(@, build_greeting(p))],
         queues[Rival[p]] \in Mail
  PROVE  /\ build_greeting(p) \in Greetings
         /\ Basic(Rival[p])'
         /\ faults' \subseteq {"resend"} => NoLateTurn(Rival[p])'
         /\ sameTerms' /\ faults' \subseteq {"resend"} => OutcomesTravel(Rival[p])'
<1> DEFINE q == Rival[p]
           s == queues[q].negotiate
<1>1. /\ q \in Peer /\ Rival[q] = p /\ p \in Groups /\ p # "stranger"
      /\ series[p].n \in Rounds /\ series[p].known \in {""} \cup Groups
      /\ series[q].negotiate_pending \subseteq Greetings /\ s \in Seq(Greetings)
  BY TwoPeers, PeerTypes DEF SeriesInvariant
<1>2. PICK g \in Greetings :
        /\ g = build_greeting(p) /\ g.round = series[p].n /\ g.group = p
        /\ g.uid = series[p].known /\ g.role = role_for(p, series[p].n)
  <2>1. role_for(p, series[p].n) \in DOMAIN Sides
    BY <1>1, Roles, Sidings
  <2>2. /\ build_greeting(p) \in Greetings
        /\ build_greeting(p).round = series[p].n /\ build_greeting(p).group = p
        /\ build_greeting(p).uid = series[p].known
        /\ build_greeting(p).role = role_for(p, series[p].n)
    BY <1>1, <2>1 DEF build_greeting, PlayedRole, Greetings
  <2> QED
    BY <2>2
<1>3. /\ queues'[q].negotiate = Append(s, g)
      /\ queues'[q].turn = queues[q].turn /\ queues'[q].audit = queues[q].audit
  BY <1>2 DEF Mail
<1>4. Greeted(q)' = Greeted(q) \cup {g}
  <2>1. Boxes!ToSet(Append(s, g)) = Boxes!ToSet(s) \cup {g}
    <3>1. s \in Seq(Greetings) /\ g \in Greetings
      BY <1>1
    <3> HIDE DEF s
    <3> QED
      BY <3>1, Longer
  <2>2. series'[q].negotiate_pending = series[q].negotiate_pending
    BY <1>1 DEF Sending, Unmoved
  <2> QED
    BY <1>3, <2>1, <2>2 DEF Greeted
<1>5. GreetingsAreTrue(q)'
  <2>1. \A x \in Greeted(q) : IsTrue(q, x)
    BY <1>1 DEF SeriesInvariant, GreetingsAreTrue
  <2>2. series'[p].n = series[p].n /\ faults \subseteq faults'
    BY DEF Sending, Unmoved
  <2>3. \A x \in Greeted(q) : IsTrue(q, x)'
    BY <1>1, <2>1, <2>2 DEF IsTrue
  <2>4. series[p].known \in {"", q} \/ "stranger" \in faults
    BY DEF SeriesInvariant, PinnedOnce
  <2>5. IsTrue(q, g)'
    <3>1. series[p].n \in Nat /\ series[p].n >= 1
      BY <1>1, RoundNumbers
    <3>2. g.round \in 1 .. series'[p].n
      BY <1>2, <2>2, <3>1
    <3>3. Rival[q] = p /\ g.group = p /\ g.role = role_for(p, g.round)
      BY <1>1, <1>2
    <3>4. g.uid \in {"", q} \/ "stranger" \in faults'
      BY <1>2, <2>2, <2>4
    <3> HIDE DEF q
    <3> QED
      BY <3>2, <3>3, <3>4 DEF IsTrue
  <2> QED
    BY <1>4, <2>3, <2>5 DEF GreetingsAreTrue
<1>6. /\ DOMAIN Append(s, g) = 1 .. Len(s) + 1 /\ DOMAIN s = 1 .. Len(s) /\ Len(s) \in Nat
      /\ \A i \in DOMAIN s : Append(s, g)[i] = s[i]
      /\ Append(s, g)[Len(s) + 1] = g
  <2>1. s \in Seq(Greetings) /\ g \in Greetings
    BY <1>1
  <2> HIDE DEF s
  <2> QED
    BY <2>1, Longer
<1>7. \A i \in DOMAIN Append(s, g) :
        Append(s, g)[i].group = "stranger" => i \in DOMAIN s /\ s[i].group = "stranger"
  <2>1. g.group # "stranger"
    BY <1>1, <1>2
  <2>2. \A i \in DOMAIN Append(s, g) : i \in DOMAIN s \/ i = Len(s) + 1
    BY <1>6
  <2> HIDE DEF s
  <2> QED
    BY <2>1, <2>2, <1>6
<1>8. series'[q].negotiate_pending = series[q].negotiate_pending
  BY <1>1 DEF Sending, Unmoved
<1>9. OneStranger(q)'
  <2>1. OneStranger(q)
    BY <1>1 DEF SeriesInvariant
  <2>2. /\ \A i \in DOMAIN Append(s, g) : Append(s, g)[i].group = "stranger" =>
             /\ \A x \in series[q].negotiate_pending : x.group # "stranger"
             /\ \A j \in DOMAIN Append(s, g) : Append(s, g)[j].group = "stranger" => j = i
    BY <1>7, <2>1 DEF OneStranger
  <2> QED
    BY <1>3, <1>8, <2>1, <2>2 DEF OneStranger
<1>10. PinnedOnce(q)'
  <2>1. PinnedOnce(q)
    BY <1>1 DEF SeriesInvariant
  <2>2. StrangerIsSpent(q) => StrangerIsSpent(q)'
    BY <1>1, <1>3, <1>7, <1>8 DEF StrangerIsSpent, Sending, Unmoved
  <2>3. series'[q].n = series[q].n /\ series'[q].known = series[q].known /\ faults \subseteq faults'
        /\ InPlay(q)' = InPlay(q)
    BY <1>1, UnmovedAtoms DEF Sending, Unmoved, InPlay
  <2> QED
    BY <2>1, <2>2, <2>3 DEF PinnedOnce
<1>11. /\ RoundsInStep(q)'
       /\ faults' \subseteq {"resend"} => NoLateTurn(q)'
       /\ sameTerms' /\ faults' \subseteq {"resend"} => OutcomesTravel(q)'
  BY <1>1, <1>3, TurnsAndAuditsStay DEF Sending
<1> QED
  BY <1>2, <1>5, <1>9, <1>10, <1>11 DEF Basic

(* The negotiation queue is as it was. *)
LEMMA GreetingsStay ==
  ASSUME SeriesInvariant, NEW p \in Peer, Sending(p),
         queues'[p].negotiate = queues[p].negotiate
  PROVE  GreetingsAreTrue(p)' /\ OneStranger(p)' /\ PinnedOnce(p)'
<1> DEFINE q == Rival[p]
<1>1. q \in Peer
  BY TwoPeers
<1>2. GreetingsAreTrue(p)'
  <2>1. \A g \in Greeted(p) : IsTrue(p, g)
    BY DEF SeriesInvariant, GreetingsAreTrue
  <2>2. series'[q].n = series[q].n /\ faults \subseteq faults'
    BY <1>1 DEF Sending, Unmoved
  <2>3. \A g \in Greeted(p) : IsTrue(p, g)'
    BY <2>1, <2>2 DEF IsTrue
  <2>4. Greeted(p)' = Greeted(p)
    BY DEF Greeted, Sending, Unmoved
  <2> QED
    BY <2>3, <2>4 DEF GreetingsAreTrue
<1>3. OneStranger(p)'
  BY DEF OneStranger, SeriesInvariant, Unmoved, Sending
<1>4. PinnedOnce(p)'
  <2>1. PinnedOnce(p)
    BY DEF SeriesInvariant
  <2>2. StrangerIsSpent(p) => StrangerIsSpent(p)'
    BY DEF StrangerIsSpent, Unmoved, Sending
  <2>3. series'[p].n = series[p].n /\ series'[p].known = series[p].known /\ faults \subseteq faults'
        /\ InPlay(p)' = InPlay(p)
    BY UnmovedAtoms DEF Unmoved, Sending, InPlay
  <2> QED
    BY <2>1, <2>2, <2>3 DEF PinnedOnce
<1> QED
  BY <1>2, <1>3, <1>4

LEMMA TurnArrives ==
  ASSUME SeriesInvariant, NEW p \in Peer, NEW kind \in {"opening", "reply", "closing"},
         InPlay(p), series[p].at \notin {"submitting", "auditing"},
         kind = "closing" => series[p].at = "closing", Sending(p),
         queues'[Rival[p]] = [queues[Rival[p]] EXCEPT !.turn = Append(@, Turn(p, kind))],
         queues[Rival[p]] \in Mail
  PROVE  /\ Turn(p, kind) \in Turns
         /\ Basic(Rival[p])'
         /\ faults' \subseteq {"resend"} => NoLateTurn(Rival[p])'
         /\ sameTerms' /\ faults' \subseteq {"resend"} => OutcomesTravel(Rival[p])'
<1> DEFINE q == Rival[p]
           m == Turn(p, kind)
           s == queues[q].turn
<1>1. /\ q \in Peer /\ Rival[q] = p
      /\ series[p].n \in Rounds /\ series[p].outcome \in Terminals
      /\ series[q].n \in Rounds /\ s \in Seq(Turns)
  BY TwoPeers, PeerTypes DEF SeriesInvariant
<1>2. /\ m.round = series[p].n /\ m.kind = kind /\ m.outcome = series[p].outcome /\ m \in Turns
  BY <1>1 DEF Turn, Turns
<1>3. /\ queues'[q].turn = Append(s, m)
      /\ queues'[q].negotiate = queues[q].negotiate /\ queues'[q].audit = queues[q].audit
  BY DEF Mail
<1> HIDE DEF m
<1>4. /\ TurnsTo(q)' = TurnsTo(q) \cup {m} /\ AuditsTo(q)' = AuditsTo(q)
  BY <1>1, <1>2, <1>3, Longer DEF TurnsTo, AuditsTo, Sending, Unmoved
<1>5. GreetingsAreTrue(q)' /\ OneStranger(q)' /\ PinnedOnce(q)'
  BY <1>1, <1>3, GreetingsStay DEF Sending
<1>6. series[p].n <= series[q].n
  BY DEF SeriesInvariant, RoundsInStep
<1>7. RoundsInStep(q)'
  BY <1>1, <1>2, <1>4, <1>6, UnmovedAtoms DEF RoundsInStep, SeriesInvariant, Unmoved, Sending
<1>8. faults \subseteq {"resend"} => series[p].n = series[q].n
  <2>1. series[p].at \notin {"submitting", "auditing"} \cup Over
    BY DEF InPlay, Over
  <2>2. faults \subseteq {"resend"} => ~(series[p].n < series[q].n)
    BY <1>1, <2>1 DEF SeriesInvariant, NoLateTurn
  <2> QED
    BY <1>1, <1>6, <2>2, RoundNumbers
<1>9. faults' \subseteq {"resend"} => NoLateTurn(q)'
  BY <1>1, <1>2, <1>4, <1>8 DEF NoLateTurn, SeriesInvariant, Unmoved, Sending
<1>10. sameTerms' /\ faults' \subseteq {"resend"} => OutcomesTravel(q)'
  <2> SUFFICES ASSUME sameTerms', faults' \subseteq {"resend"}
               PROVE  OutcomesTravel(q)'
    OBVIOUS
  <2>1. OutcomesTravel(q) /\ series[p].n = series[q].n
    BY <1>1, <1>8 DEF SeriesInvariant, Sending
  <2>2. m.kind = "closing" => DoneWith(p, series[q].n) /\ m.outcome = series[p].outcome
    BY <1>2, <2>1 DEF DoneWith, Done
  <2> QED
    BY <1>1, <1>4, <2>1, <2>2, UnmovedAtoms DEF OutcomesTravel, Unmoved, Sending
<1> QED
  BY <1>2, <1>5, <1>7, <1>9, <1>10 DEF Basic, m

LEMMA AuditArrives ==
  ASSUME SeriesInvariant, NEW p \in Peer, series[p].at = "submitting", Sending(p),
         queues'[Rival[p]] = [queues[Rival[p]] EXCEPT !.audit = Append(@, audit_payload(p))],
         queues[Rival[p]] \in Mail
  PROVE  /\ audit_payload(p) \in Audits
         /\ Basic(Rival[p])'
         /\ faults' \subseteq {"resend"} => NoLateTurn(Rival[p])'
         /\ sameTerms' /\ faults' \subseteq {"resend"} => OutcomesTravel(Rival[p])'
<1> DEFINE q == Rival[p]
           a == audit_payload(p)
           s == queues[q].audit
<1>1. /\ q \in Peer /\ Rival[q] = p
      /\ series[p].n \in Rounds /\ series[p].outcome \in Terminals
      /\ series[q].n \in Rounds /\ s \in Seq(Audits)
  BY TwoPeers, PeerTypes DEF SeriesInvariant
<1>2. /\ a.round = series[p].n /\ a.claim = series[p].outcome /\ a \in Audits
  BY <1>1 DEF audit_payload, Audits
<1>3. /\ queues'[q].audit = Append(s, a)
      /\ queues'[q].negotiate = queues[q].negotiate /\ queues'[q].turn = queues[q].turn
  BY DEF Mail
<1> HIDE DEF a
<1>4. /\ AuditsTo(q)' = AuditsTo(q) \cup {a} /\ TurnsTo(q)' = TurnsTo(q)
  BY <1>1, <1>2, <1>3, Longer DEF TurnsTo, AuditsTo, Sending, Unmoved
<1>5. GreetingsAreTrue(q)' /\ OneStranger(q)' /\ PinnedOnce(q)'
  BY <1>1, <1>3, GreetingsStay DEF Sending
<1>6. series[p].n <= series[q].n
  BY DEF SeriesInvariant, RoundsInStep, InPlay
<1>7. RoundsInStep(q)'
  BY <1>1, <1>2, <1>4, <1>6, RoundNumbers, UnmovedAtoms, SMTT(60) DEF RoundsInStep, SeriesInvariant, Unmoved, Sending
<1>8. faults' \subseteq {"resend"} => NoLateTurn(q)'
  BY <1>1, <1>2, <1>4 DEF NoLateTurn, SeriesInvariant, Unmoved, Sending
<1>9. sameTerms' /\ faults' \subseteq {"resend"} => OutcomesTravel(q)'
  <2> SUFFICES ASSUME sameTerms', faults' \subseteq {"resend"}
               PROVE  OutcomesTravel(q)'
    OBVIOUS
  <2>1. OutcomesTravel(q)
    BY <1>1 DEF SeriesInvariant, Sending
  <2>2. a.round = series[q].n => DoneWith(p, series[q].n) /\ a.claim = series[p].outcome
    BY <1>2 DEF DoneWith, Done
  <2> QED
    BY <1>1, <1>4, <2>1, <2>2, UnmovedAtoms DEF OutcomesTravel, Unmoved, Sending
<1> QED
  BY <1>2, <1>5, <1>7, <1>8, <1>9 DEF Basic, a

LEMMA MessageArrives ==
  ASSUME SeriesInvariant, NEW p \in Peer, series[p].at \in Calls, Arrives(p), Sending(p)
  PROVE  /\ queues' \in [Peer -> Mail] /\ queues'[p] = queues[p]
         /\ Basic(Rival[p])'
         /\ faults' \subseteq {"resend"} => NoLateTurn(Rival[p])'
         /\ sameTerms' /\ faults' \subseteq {"resend"} => OutcomesTravel(Rival[p])'
<1> DEFINE q == Rival[p]
           b == queues[q]
           Holds == /\ Basic(q)'
                    /\ faults' \subseteq {"resend"} => NoLateTurn(q)'
                    /\ sameTerms' /\ faults' \subseteq {"resend"} => OutcomesTravel(q)'
<1>1. /\ q \in Peer /\ Rival[q] = p /\ b \in Mail /\ SeriesTypeOK /\ queues \in [Peer -> Mail]
      /\ b.negotiate \in Seq(Greetings) /\ b.turn \in Seq(Turns) /\ b.audit \in Seq(Audits)
      /\ b = [negotiate |-> b.negotiate, turn |-> b.turn, audit |-> b.audit]
  BY TwoPeers, PeerTypes, MailStays DEF SeriesInvariant, Mail
<1>2. ASSUME NEW c \in Mail, queues' = [queues EXCEPT ![q] = c]
      PROVE  queues' \in [Peer -> Mail] /\ queues'[p] = queues[p] /\ queues'[q] = c
  BY <1>1, <1>2, MailMoves
<1>3. CASE series[p].at = "greeting"
  <2> DEFINE c == [b EXCEPT !.negotiate = Append(@, build_greeting(p))]
  <2>1. queues' = [queues EXCEPT ![q] = c]
    BY <1>3 DEF Arrives, Delivered
  <2>2. queues'[q] = c
    BY <1>1, <2>1
  <2>3. Holds /\ build_greeting(p) \in Greetings
    BY <1>1, <1>3, <2>2, GreetingArrives
  <2>4. Append(b.negotiate, build_greeting(p)) \in Seq(Greetings)
    BY <1>1, <2>3, Longer
  <2>5. c \in Mail
    BY <1>1, <2>4 DEF Mail
  <2> QED
    BY <1>2, <2>1, <2>3, <2>5
<1>4. ASSUME NEW kind \in {"opening", "reply", "closing"}, InPlay(p),
             series[p].at \notin {"submitting", "auditing"},
             kind = "closing" => series[p].at = "closing",
             queues' = [queues EXCEPT ![q] = [b EXCEPT !.turn = Append(@, Turn(p, kind))]]
      PROVE  queues' \in [Peer -> Mail] /\ queues'[p] = queues[p] /\ Holds
  <2> DEFINE c == [b EXCEPT !.turn = Append(@, Turn(p, kind))]
  <2>2. queues'[q] = c
    BY <1>1, <1>4
  <2>3. Holds /\ Turn(p, kind) \in Turns
    BY <1>1, <1>4, <2>2, TurnArrives
  <2>4. Append(b.turn, Turn(p, kind)) \in Seq(Turns)
    BY <1>1, <2>3, Longer
  <2>5. c \in Mail
    BY <1>1, <2>4 DEF Mail
  <2> QED
    BY <1>2, <1>4, <2>3, <2>5
<1>5. CASE series[p].at = "opening"
  <2>1. queues' = [queues EXCEPT ![q] = [b EXCEPT !.turn = Append(@, Turn(p, "opening"))]]
    BY <1>5 DEF Arrives, Delivered
  <2>2. InPlay(p)
    BY <1>5 DEF InPlay
  <2> QED
    BY <1>4, <1>5, <2>1, <2>2
<1>6. CASE series[p].at = "replying"
  <2>1. queues' = [queues EXCEPT ![q] = [b EXCEPT !.turn = Append(@, Turn(p, "reply"))]]
    BY <1>6 DEF Arrives, Delivered
  <2>2. InPlay(p)
    BY <1>6 DEF InPlay
  <2> QED
    BY <1>4, <1>6, <2>1, <2>2
<1>7. CASE series[p].at = "closing"
  <2>1. queues' = [queues EXCEPT ![q] = [b EXCEPT !.turn = Append(@, Turn(p, "closing"))]]
    BY <1>7 DEF Arrives, Delivered
  <2>2. InPlay(p)
    BY <1>7 DEF InPlay
  <2> QED
    BY <1>4, <1>7, <2>1, <2>2
<1>8. CASE series[p].at = "submitting"
  <2> DEFINE c == [b EXCEPT !.audit = Append(@, audit_payload(p))]
  <2>1. queues' = [queues EXCEPT ![q] = c]
    BY <1>8 DEF Arrives, Delivered
  <2>2. queues'[q] = c
    BY <1>1, <2>1
  <2>3. Holds /\ audit_payload(p) \in Audits
    BY <1>1, <1>8, <2>2, AuditArrives
  <2>4. Append(b.audit, audit_payload(p)) \in Seq(Audits)
    BY <1>1, <2>3, Longer
  <2>5. c \in Mail
    BY <1>1, <2>4 DEF Mail
  <2> QED
    BY <1>2, <2>1, <2>3, <2>5
<1> QED
  BY <1>3, <1>5, <1>6, <1>7, <1>8 DEF Calls

LEMMA CallKeeps ==
  ASSUME SeriesInvariant, NEW p \in Peer, Call(p) \/ Resend(p)
  PROVE  SeriesInvariant'
<1>1. SeriesTypeOK /\ series[p] \in PeerStates /\ series \in [Peer -> PeerStates]
  BY PeerTypes DEF SeriesInvariant, SeriesTypeOK, PeerStates
<1>2. Len(series[p].rows) \in {series[p].n - 1, series[p].n}
  BY <1>1 DEF SeriesTypeOK
<1> DEFINE s == [series[p] EXCEPT !.sent = TRUE]
<1>3. s \in PeerStates /\ s.rows = series[p].rows /\ s.n = series[p].n
  BY <1>1 DEF PeerStates
<1>4. /\ series[p].at \in Calls /\ Arrives(p) /\ sameTerms' = sameTerms
      /\ faults \subseteq faults' /\ faults' \subseteq faults \cup {"resend"}
      /\ faults' \subseteq PossibleFaults
      /\ series' = series \/ series' = [series EXCEPT ![p] = s]
  BY <1>1 DEF Call, Resend, Happens, SeriesTypeOK
<1>5. Sending(p)
  <2>1. \A r \in Peer : series'[r] = series[r] \/ (r = p /\ series'[r] = s)
    BY <1>1, <1>4
  <2>2. /\ s.at = series[p].at /\ s.known = series[p].known /\ s.outcome = series[p].outcome
        /\ s.negotiate_pending = series[p].negotiate_pending
        /\ s.audit_pending = series[p].audit_pending
    BY <1>1 DEF PeerStates
  <2> HIDE DEF s
  <2>3. Unmoved
    BY <1>3, <2>1, <2>2 DEF Unmoved
  <2> QED
    BY <1>4, <2>3 DEF Sending
<1>6. queues' \in [Peer -> Mail]
  BY <1>4, <1>5, MessageArrives
<1>7. SeriesTypeOK'
  <2>1. CASE series' = series
    <3>1. series' = [series EXCEPT ![p] = series[p]]
      BY <1>1, <2>1
    <3> QED
      BY <1>1, <1>2, <1>4, <1>6, <3>1, PeerMoves
  <2>2. CASE series' = [series EXCEPT ![p] = s]
    BY <1>1, <1>2, <1>3, <1>4, <1>6, <2>2, PeerMoves
  <2> QED
    BY <1>4, <2>1, <2>2
<1>8. ASSUME NEW r \in {p, Rival[p]}
      PROVE  /\ Basic(r)'
             /\ faults' \subseteq {"resend"} => NoLateTurn(r)'
             /\ sameTerms' /\ faults' \subseteq {"resend"} => OutcomesTravel(r)'
  <2>1. CASE r = p
    BY <1>4, <1>5, <2>1, MessageArrives, NothingArrived DEF Sending
  <2>2. CASE r = Rival[p]
    BY <1>4, <1>5, <2>2, MessageArrives
  <2> QED
    BY <2>1, <2>2
<1> QED
  BY <1>7, <1>8, BothHold

-----------------------------------------------------------------------------
(* A peer moves on: what that leaves of the invariant, of itself and of its *)
(* opponent.                                                                *)

LEMMA AuditsTyped ==
  ASSUME SeriesTypeOK, NEW p \in Peer, NEW a \in AuditsTo(p)
  PROVE  a \in Audits
<1>1. queues[p].audit \in Seq(Audits) /\ series[p].audit_pending \subseteq Audits
  BY PeerTypes
<1>2. \A i \in DOMAIN queues[p].audit : queues[p].audit[i] \in Audits
  BY <1>1
<1> QED
  BY <1>1, <1>2 DEF AuditsTo, Boxes!ToSet

LEMMA OtherKept ==
  ASSUME SeriesInvariant, SeriesTypeOK', NEW p \in Peer, NEW q \in Peer, q = Rival[p],
         series'[q] = series[q], queues'[q] = queues[q], series[p].n <= series'[p].n,
         faults \subseteq faults'
  PROVE  Basic(q)'
<1>1. /\ Rival[q] = p /\ series[p].n \in Rounds /\ series'[p].n \in Rounds /\ series[q].n \in Rounds
      /\ Rival[p] # p
  <2>1. SeriesTypeOK' => series'[p].n \in Rounds
    BY DEF SeriesTypeOK
  <2> QED
    BY <2>1, TwoPeers, PeerTypes DEF SeriesInvariant
<1>2. Greeted(q)' = Greeted(q) /\ TurnsTo(q)' = TurnsTo(q) /\ AuditsTo(q)' = AuditsTo(q)
  BY DEF Greeted, TurnsTo, AuditsTo
<1>3. GreetingsAreTrue(q)'
  <2>1. \A g \in Greeted(q) : IsTrue(q, g)
    BY DEF SeriesInvariant, GreetingsAreTrue
  <2>2. \A k \in 1 .. series[p].n : k \in 1 .. series'[p].n
    BY <1>1, RoundNumbers
  <2>3. \A g \in Greeted(q) : IsTrue(q, g)'
    BY <1>1, <2>1, <2>2 DEF IsTrue
  <2> QED
    BY <1>2, <2>3 DEF GreetingsAreTrue
<1>4. OneStranger(q)'
  BY DEF OneStranger, SeriesInvariant
<1>5. PinnedOnce(q)'
  <2>1. PinnedOnce(q) /\ InPlay(q)' = InPlay(q)
    BY DEF SeriesInvariant, InPlay
  <2>2. StrangerIsSpent(q) => StrangerIsSpent(q)'
    BY DEF StrangerIsSpent
  <2> QED
    BY <2>1, <2>2 DEF PinnedOnce
<1>6. RoundsInStep(q)'
  <2>1. RoundsInStep(q) /\ InPlay(q)' = InPlay(q)
    BY DEF SeriesInvariant, InPlay
  <2>2. /\ series[q].n <= series'[p].n + 1
        /\ InPlay(q) => series[q].n <= series'[p].n
    BY <1>1, <2>1, RoundNumbers DEF RoundsInStep
  <2>3. \A a \in AuditsTo(q) : a.round <= series'[p].n
    <3> SUFFICES ASSUME NEW a \in AuditsTo(q)
                 PROVE  a.round <= series'[p].n
      OBVIOUS
    <3>1. a \in Audits
      BY AuditsTyped DEF SeriesInvariant
    <3>2. a.round \in Nat /\ a.round <= series[p].n
      BY <1>1, <2>1, <3>1, RoundNumbers DEF RoundsInStep, Audits
    <3> QED
      BY <1>1, <3>2, RoundNumbers
  <2> QED
    BY <1>1, <1>2, <2>1, <2>2, <2>3 DEF RoundsInStep
<1> QED
  BY <1>3, <1>4, <1>5, <1>6 DEF Basic

LEMMA MineKept ==
  ASSUME SeriesInvariant, NEW p \in Peer, NEW q \in Peer, q = Rival[p], series'[q] = series[q],
         series'[p].n = series[p].n, series'[p].rows = series[p].rows,
         Greeted(p)' \subseteq Greeted(p), TurnsTo(p)' \subseteq TurnsTo(p),
         AuditsTo(p)' \subseteq AuditsTo(p), faults \subseteq faults',
         InPlay(p)' => series[p].n <= series[q].n,
         series[p].at \in Over => series'[p].at \in Over
  PROVE  GreetingsAreTrue(p)' /\ RoundsInStep(p)'
<1>1. GreetingsAreTrue(p)'
  <2>1. \A g \in Greeted(p) : IsTrue(p, g)
    BY DEF SeriesInvariant, GreetingsAreTrue
  <2>2. \A g \in Greeted(p) : IsTrue(p, g)'
    BY <2>1 DEF IsTrue
  <2> QED
    BY <2>2 DEF GreetingsAreTrue
<1>2. RoundsInStep(p)'
  <2>1. RoundsInStep(p)
    BY DEF SeriesInvariant
  <2> QED
    BY <2>1 DEF RoundsInStep
<1> QED
  BY <1>1, <1>2

(* Finishing is for good while the round is the same. *)
Finishing(p) == series[p].at \in {"submitting", "auditing"} \cup Over

LEMMA LateKept ==
  ASSUME SeriesInvariant, NEW p \in Peer, NEW q \in Peer, q = Rival[p], series'[q] = series[q],
         queues'[q] = queues[q], faults \subseteq {"resend"},
         series'[p].n = series[p].n, TurnsTo(p)' \subseteq TurnsTo(p),
         AuditsTo(p)' \subseteq AuditsTo(p), Finishing(p) => Finishing(p)'
  PROVE  NoLateTurn(p)' /\ NoLateTurn(q)'
<1>1. Rival[q] = p /\ NoLateTurn(p) /\ NoLateTurn(q)
  BY TwoPeers DEF SeriesInvariant
<1>2. TurnsTo(q)' = TurnsTo(q) /\ AuditsTo(q)' = AuditsTo(q)
  BY DEF TurnsTo, AuditsTo
<1>3. NoLateTurn(p)'
  BY <1>1 DEF NoLateTurn
<1>4. NoLateTurn(q)'
  BY <1>1, <1>2 DEF NoLateTurn, Finishing
<1> QED
  BY <1>3, <1>4

LEMMA OutcomesKept ==
  ASSUME SeriesInvariant, NEW p \in Peer, NEW q \in Peer, q = Rival[p], series'[q] = series[q],
         queues'[q] = queues[q], sameTerms, faults \subseteq {"resend"},
         series'[p].n = series[p].n, series'[p].outcome = series[p].outcome,
         series'[p].rows = series[p].rows,
         TurnsTo(p)' \subseteq TurnsTo(p), AuditsTo(p)' \subseteq AuditsTo(p),
         Done(p)' <=> Done(p), series'[p].at \in Meeting <=> series[p].at \in Meeting,
         series'[p].at \notin Over
  PROVE  OutcomesTravel(p)' /\ OutcomesTravel(q)'
<1>1. Rival[q] = p /\ OutcomesTravel(p) /\ OutcomesTravel(q)
  BY TwoPeers DEF SeriesInvariant
<1>2. TurnsTo(q)' = TurnsTo(q) /\ AuditsTo(q)' = AuditsTo(q)
  BY DEF TurnsTo, AuditsTo
<1>3. /\ \A n : DoneWith(p, n)' <=> DoneWith(p, n)
      /\ \A n : DoneWith(q, n)' <=> DoneWith(q, n)
      /\ Done(q)' <=> Done(q)
      /\ PlayedRole(p)' = PlayedRole(p) /\ PlayedRole(q)' = PlayedRole(q)
  BY DEF DoneWith, Done, PlayedRole
<1>4. OutcomesTravel(p)'
  BY <1>1, <1>3 DEF OutcomesTravel, Over
<1>5. OutcomesTravel(q)'
  BY <1>1, <1>2, <1>3 DEF OutcomesTravel
<1> QED
  BY <1>4, <1>5

(* Strangers' greetings, where the queue is not read. *)
LEMMA StrangersStay ==
  ASSUME SeriesInvariant, NEW p \in Peer,
         queues'[p].negotiate = queues[p].negotiate,
         series'[p].negotiate_pending = series[p].negotiate_pending,
         series'[p].n = series[p].n, series'[p].known = series[p].known,
         series'[p].at \in Meeting => series[p].at \in Meeting,
         InPlay(p)' => InPlay(p), faults \subseteq faults'
  PROVE  OneStranger(p)' /\ PinnedOnce(p)'
<1>1. OneStranger(p) /\ PinnedOnce(p)
  BY DEF SeriesInvariant
<1>2. OneStranger(p)'
  BY <1>1 DEF OneStranger
<1>3. StrangerIsSpent(p) => StrangerIsSpent(p)'
  BY DEF StrangerIsSpent
<1> QED
  BY <1>1, <1>2, <1>3 DEF PinnedOnce

-----------------------------------------------------------------------------
(* A place changes, or a queue loses its head. *)

(* r is s but for its place. *)
Elsewhere(r, s, place) ==
  /\ r.at = place /\ r.n = s.n /\ r.known = s.known /\ r.outcome = s.outcome /\ r.rows = s.rows
  /\ r.negotiate_pending = s.negotiate_pending /\ r.audit_pending = s.audit_pending

LEMMA PlaceUpdates ==
  ASSUME NEW s \in PeerStates, NEW place \in Calls \cup Waits \cup Over
  PROVE  /\ [s EXCEPT !.at = place] \in PeerStates
         /\ Elsewhere([s EXCEPT !.at = place], s, place)
         /\ [s EXCEPT !.at = place, !.sent = FALSE] \in PeerStates
         /\ Elsewhere([s EXCEPT !.at = place, !.sent = FALSE], s, place)
BY DEF PeerStates, Over, Elsewhere

LEMMA PlaceChanges ==
  ASSUME SeriesTypeOK, NEW p \in Peer, NEW place \in Calls \cup Waits \cup Over,
         Goes(p, place), queues' \in [Peer -> Mail], sameTerms' = sameTerms,
         faults' \subseteq PossibleFaults
  PROVE  /\ SeriesTypeOK' /\ series'[Rival[p]] = series[Rival[p]] /\ series'[p].at = place
         /\ series'[p].n = series[p].n /\ series'[p].known = series[p].known
         /\ series'[p].outcome = series[p].outcome /\ series'[p].rows = series[p].rows
         /\ series'[p].negotiate_pending = series[p].negotiate_pending
         /\ series'[p].audit_pending = series[p].audit_pending
<1>1. /\ series[p] \in PeerStates /\ series \in [Peer -> PeerStates]
      /\ Len(series[p].rows) \in {series[p].n - 1, series[p].n}
  BY PeerTypes DEF SeriesTypeOK, PeerStates
<1>2. PICK s \in PeerStates :
        /\ s = [series[p] EXCEPT !.at = place] /\ s.at = place
        /\ s.n = series[p].n /\ s.known = series[p].known
        /\ s.outcome = series[p].outcome /\ s.rows = series[p].rows
        /\ s.negotiate_pending = series[p].negotiate_pending
        /\ s.audit_pending = series[p].audit_pending
  <2> DEFINE s == [series[p] EXCEPT !.at = place]
  <2>1. s \in PeerStates /\ Elsewhere(s, series[p], place)
    BY <1>1, PlaceUpdates
  <2> HIDE DEF s
  <2>2. \E x \in PeerStates : x = s /\ Elsewhere(x, series[p], place)
    BY <2>1
  <2> QED
    BY <2>2 DEF Elsewhere, s
<1>3. series' = [series EXCEPT ![p] = s]
  BY <1>1, <1>2 DEF Goes
<1>4. SeriesTypeOK' /\ series'[p] = s /\ series'[Rival[p]] = series[Rival[p]]
  BY <1>1, <1>2, <1>3, PeerMoves
<1> QED
  BY <1>2, <1>4

LEMMA GreetingRead ==
  ASSUME SeriesTypeOK, NEW p \in Peer, queues[p].negotiate # <<>>,
         queues' = [queues EXCEPT ![p].negotiate = Tail(@)]
  PROVE  /\ queues' \in [Peer -> Mail] /\ queues'[Rival[p]] = queues[Rival[p]]
         /\ queues'[p].negotiate = Tail(queues[p].negotiate)
         /\ queues'[p].turn = queues[p].turn /\ queues'[p].audit = queues[p].audit
         /\ Head(queues[p].negotiate) \in Greetings
<1>1. /\ queues[p] \in Mail /\ queues[p].negotiate \in Seq(Greetings) /\ queues \in [Peer -> Mail]
  BY PeerTypes, MailStays
<1>2. Tail(queues[p].negotiate) \in Seq(Greetings) /\ Head(queues[p].negotiate) \in Greetings
  BY <1>1, Shorter
<1> PICK t \in Seq(Greetings) : t = Tail(queues[p].negotiate)
  BY <1>2
<1> PICK b : b = [queues[p] EXCEPT !.negotiate = t]
  OBVIOUS
<1>3. /\ b \in Mail /\ b = [queues[p] EXCEPT !.negotiate = t]
      /\ b.negotiate = t
      /\ b.turn = queues[p].turn /\ b.audit = queues[p].audit
  BY <1>1 DEF Mail
<1>4. queues' = [queues EXCEPT ![p] = b]
  BY <1>1, <1>3
<1>5. queues' \in [Peer -> Mail] /\ queues'[p] = b /\ queues'[Rival[p]] = queues[Rival[p]]
  BY <1>3, <1>4, MailMoves
<1> QED
  BY <1>2, <1>3, <1>5

LEMMA TurnRead ==
  ASSUME SeriesTypeOK, NEW p \in Peer, queues[p].turn # <<>>,
         queues' = [queues EXCEPT ![p].turn = Tail(@)]
  PROVE  /\ queues' \in [Peer -> Mail] /\ queues'[Rival[p]] = queues[Rival[p]]
         /\ queues'[p].negotiate = queues[p].negotiate /\ queues'[p].audit = queues[p].audit
         /\ Head(queues[p].turn) \in Turns /\ Head(queues[p].turn) \in TurnsTo(p)
         /\ TurnsTo(p)' \subseteq TurnsTo(p)
<1>1. /\ queues[p] \in Mail /\ queues[p].turn \in Seq(Turns) /\ queues \in [Peer -> Mail]
  BY PeerTypes, MailStays
<1>2. /\ Tail(queues[p].turn) \in Seq(Turns) /\ Head(queues[p].turn) \in Turns
      /\ Head(queues[p].turn) \in Boxes!ToSet(queues[p].turn)
      /\ Boxes!ToSet(Tail(queues[p].turn)) \subseteq Boxes!ToSet(queues[p].turn)
  BY <1>1, Shorter
<1> PICK t \in Seq(Turns) : t = Tail(queues[p].turn)
  BY <1>2
<1> PICK b : b = [queues[p] EXCEPT !.turn = t]
  OBVIOUS
<1>3. /\ b \in Mail /\ b = [queues[p] EXCEPT !.turn = t]
      /\ b.turn = t
      /\ b.negotiate = queues[p].negotiate /\ b.audit = queues[p].audit
  BY <1>1 DEF Mail
<1>4. queues' = [queues EXCEPT ![p] = b]
  BY <1>1, <1>3
<1>5. queues' \in [Peer -> Mail] /\ queues'[p] = b /\ queues'[Rival[p]] = queues[Rival[p]]
  BY <1>3, <1>4, MailMoves
<1>6. TurnsTo(p)' \subseteq TurnsTo(p)
  BY <1>2, <1>3, <1>5 DEF TurnsTo
<1> QED
  BY <1>2, <1>3, <1>5, <1>6 DEF TurnsTo

-----------------------------------------------------------------------------
(* What fails, runs out, returns or comes from somebody else. *)

LEMMA GivesUp ==
  ASSUME SeriesInvariant, NEW p \in Peer, NEW place \in Over, Goes(p, place),
         queues' = queues, sameTerms' = sameTerms, faults \subseteq faults',
         faults' \subseteq PossibleFaults, ~(faults' \subseteq {"resend"})
  PROVE  SeriesInvariant'
<1> DEFINE q == Rival[p]
<1>1. /\ q \in Peer /\ SeriesTypeOK /\ queues' \in [Peer -> Mail]
      /\ series[p].n \in Rounds
  BY TwoPeers, PeerTypes, MailStays DEF SeriesInvariant
<1>2. /\ SeriesTypeOK' /\ series'[q] = series[q] /\ series'[p].at = place
      /\ series'[p].n = series[p].n /\ series'[p].known = series[p].known
      /\ series'[p].outcome = series[p].outcome /\ series'[p].rows = series[p].rows
      /\ series'[p].negotiate_pending = series[p].negotiate_pending
      /\ series'[p].audit_pending = series[p].audit_pending
  BY <1>1, PlaceChanges
<1>3. /\ Greeted(p)' \subseteq Greeted(p) /\ TurnsTo(p)' \subseteq TurnsTo(p)
      /\ AuditsTo(p)' \subseteq AuditsTo(p)
  BY <1>2 DEF Greeted, TurnsTo, AuditsTo
<1>4. ~InPlay(p)' /\ series'[p].at \notin Meeting /\ series'[p].at \in Over
  BY <1>2 DEF InPlay, Over, Meeting
<1>5. Basic(q)'
  BY <1>1, <1>2, RoundNumbers, OtherKept
<1>6. Basic(p)'
  BY <1>1, <1>2, <1>3, <1>4, MineKept, StrangersStay DEF Basic
<1> QED
  BY <1>2, <1>5, <1>6, BothHold

LEMMA ReturnKeeps ==
  ASSUME SeriesInvariant, NEW p \in Peer, Returns(p)
  PROVE  SeriesInvariant'
<1> DEFINE q == Rival[p]
           me == series[p]
<1>1. /\ q \in Peer /\ SeriesTypeOK /\ queues \in [Peer -> Mail] /\ me \in PeerStates
      /\ series[p].n \in Rounds /\ series \in [Peer -> PeerStates]
      /\ Len(series[p].rows) \in {series[p].n - 1, series[p].n}
  BY TwoPeers, PeerTypes, MailStays DEF SeriesInvariant, SeriesTypeOK, PeerStates
<1>2. /\ me.at \in Calls /\ UNCHANGED <<queues, sameTerms, faults>>
      /\ series' = [series EXCEPT ![p] = [me EXCEPT !.at = AfterCall[@], !.sent = FALSE]]
  BY <1>1 DEF Returns
<1>3. PICK s \in PeerStates :
        /\ s = [me EXCEPT !.at = AfterCall[@], !.sent = FALSE] /\ s.at = AfterCall[me.at]
        /\ s.n = me.n /\ s.known = me.known /\ s.outcome = me.outcome /\ s.rows = me.rows
        /\ s.negotiate_pending = me.negotiate_pending /\ s.audit_pending = me.audit_pending
  <2>1. AfterCall[me.at] \in Waits \cup Calls
    BY <1>2 DEF Calls, Waits, AfterCall
  <2> DEFINE s == [me EXCEPT !.at = AfterCall[@], !.sent = FALSE]
  <2>2. s \in PeerStates /\ Elsewhere(s, me, AfterCall[me.at])
    BY <1>1, <2>1, PlaceUpdates
  <2> HIDE DEF s
  <2>3. \E x \in PeerStates : x = s /\ Elsewhere(x, me, AfterCall[me.at])
    BY <2>2
  <2> QED
    BY <2>3 DEF Elsewhere, s
<1>4. SeriesTypeOK' /\ series'[p] = s /\ series'[q] = series[q]
  <2>1. faults' \subseteq PossibleFaults /\ queues' \in [Peer -> Mail]
    BY <1>1, <1>2 DEF SeriesTypeOK
  <2> QED
    BY <1>1, <1>2, <1>3, <2>1, PeerMoves
<1>5. /\ Greeted(p)' \subseteq Greeted(p) /\ TurnsTo(p)' \subseteq TurnsTo(p)
      /\ AuditsTo(p)' \subseteq AuditsTo(p)
  BY <1>2, <1>3, <1>4 DEF Greeted, TurnsTo, AuditsTo
<1>6. /\ InPlay(p)' <=> InPlay(p)
      /\ Done(p)' <=> Done(p)
      /\ series'[p].at \in Meeting <=> series[p].at \in Meeting
      /\ series[p].at \notin Over /\ series'[p].at \notin Over
      /\ Finishing(p) => Finishing(p)'
  <2>1. series'[p].at = AfterCall[series[p].at] /\ series[p].at \in Calls
    BY <1>2, <1>3, <1>4
  <2> QED
    BY <2>1 DEF InPlay, Done, Meeting, Over, Finishing, Calls, AfterCall
<1>7. Basic(q)'
  BY <1>1, <1>2, <1>3, <1>4, RoundNumbers, OtherKept
<1>8. InPlay(p)' => series[p].n <= series[q].n
  BY <1>6 DEF SeriesInvariant, RoundsInStep
<1>9. Basic(p)'
  BY <1>1, <1>2, <1>3, <1>4, <1>5, <1>6, <1>8, MineKept, StrangersStay DEF Basic
<1>10. faults' \subseteq {"resend"} => NoLateTurn(p)' /\ NoLateTurn(q)'
  BY <1>1, <1>2, <1>3, <1>4, <1>5, <1>6, LateKept
<1>11. sameTerms' /\ faults' \subseteq {"resend"} => OutcomesTravel(p)' /\ OutcomesTravel(q)'
  BY <1>1, <1>2, <1>3, <1>4, <1>5, <1>6, OutcomesKept
<1> QED
  BY <1>4, <1>7, <1>9, <1>10, <1>11, BothHold

LEMMA StrangerKeeps ==
  ASSUME SeriesInvariant, NEW p \in Peer, StrangerGreets(p)
  PROVE  SeriesInvariant'
<1> DEFINE q == Rival[p]
           s == queues[p].negotiate
<1>1. /\ q \in Peer /\ Rival[q] = p /\ SeriesTypeOK /\ queues \in [Peer -> Mail]
      /\ queues[p] \in Mail /\ s \in Seq(Greetings) /\ series[p].n \in Rounds /\ q # p
      /\ series[q].n \in Rounds
  BY TwoPeers, PeerTypes, MailStays DEF SeriesInvariant
<1>2. /\ "stranger" \notin faults /\ "stranger" \in faults' /\ faults \subseteq faults'
      /\ faults' \subseteq PossibleFaults /\ series' = series /\ sameTerms' = sameTerms
  BY <1>1 DEF StrangerGreets, Happens, SeriesTypeOK
<1>3. PICK g \in Greetings :
        g.group = "stranger" /\ queues' = [queues EXCEPT ![p].negotiate = Append(@, g)]
  <2>1. PICK n \in {0} \cup Rounds, r \in DOMAIN Sides :
          queues' = [queues EXCEPT ![p].negotiate =
                      Append(@, [round |-> n, role |-> r, group |-> "stranger", uid |-> ""])]
    BY DEF StrangerGreets
  <2>2. [round |-> n, role |-> r, group |-> "stranger", uid |-> ""] \in Greetings
    BY DEF Greetings, Groups
  <2> QED
    BY <2>1, <2>2
<1>4. Append(s, g) \in Seq(Greetings)
  BY <1>1, Longer
<1> PICK t \in Seq(Greetings) : t = Append(s, g)
  BY <1>4
<1> PICK b : b = [queues[p] EXCEPT !.negotiate = t]
  OBVIOUS
<1>5. /\ b \in Mail /\ b = [queues[p] EXCEPT !.negotiate = t]
      /\ b.negotiate = t
      /\ b.turn = queues[p].turn /\ b.audit = queues[p].audit
  BY <1>1 DEF Mail
<1>6. queues' \in [Peer -> Mail] /\ queues'[p] = b /\ queues'[q] = queues[q]
  <2>1. queues' = [queues EXCEPT ![p] = b]
    BY <1>1, <1>3, <1>5
  <2> QED
    BY <1>1, <1>5, <2>1, MailMoves
<1>7. SeriesTypeOK'
  BY <1>1, <1>2, <1>6 DEF SeriesTypeOK, Mail
<1>8. Basic(q)'
  BY <1>1, <1>2, <1>6, <1>7, RoundNumbers, OtherKept
<1>9. /\ Greeted(p)' = Greeted(p) \cup {g}
      /\ TurnsTo(p)' = TurnsTo(p) /\ AuditsTo(p)' = AuditsTo(p)
  <2>1. Boxes!ToSet(Append(s, g)) = Boxes!ToSet(s) \cup {g}
    BY <1>1, Longer
  <2> QED
    BY <1>2, <1>5, <1>6, <2>1 DEF Greeted, TurnsTo, AuditsTo
<1>10. GreetingsAreTrue(p)'
  <2>1. \A x \in Greeted(p) : IsTrue(p, x)
    BY DEF SeriesInvariant, GreetingsAreTrue
  <2>2. \A x \in Greeted(p) : IsTrue(p, x)'
    BY <1>2, <2>1 DEF IsTrue
  <2>3. IsTrue(p, g)'
    BY <1>2, <1>3 DEF IsTrue
  <2> QED
    BY <1>9, <2>2, <2>3 DEF GreetingsAreTrue
(* Nobody else greeted before. *)
<1>11. \A x \in Greeted(p) : x.group # "stranger"
  <2>1. \A x \in Greeted(p) : IsTrue(p, x)
    BY DEF SeriesInvariant, GreetingsAreTrue
  <2>2. Rival[p] # "stranger"
    BY TwoPeers
  <2> QED
    BY <1>2, <2>1, <2>2 DEF IsTrue
<1>12. /\ \A x \in series[p].negotiate_pending : x.group # "stranger"
       /\ \A i \in DOMAIN s : s[i].group # "stranger"
  BY <1>11 DEF Greeted, Boxes!ToSet
<1>13. OneStranger(p)'
  <2>1. /\ DOMAIN Append(s, g) = 1 .. Len(s) + 1 /\ DOMAIN s = 1 .. Len(s) /\ Len(s) \in Nat
        /\ \A i \in DOMAIN s : Append(s, g)[i] = s[i]
    <3>1. s \in Seq(Greetings) /\ g \in Greetings
      BY <1>1
    <3> HIDE DEF s
    <3> QED
      BY <3>1, Longer
  <2>2. \A i \in DOMAIN Append(s, g) : i \in DOMAIN s \/ i = Len(s) + 1
    BY <2>1
  <2>3. \A i \in DOMAIN Append(s, g) : Append(s, g)[i].group = "stranger" => i = Len(s) + 1
    BY <1>12, <2>1, <2>2
  <2> QED
    BY <1>2, <1>5, <1>6, <1>12, <2>3 DEF OneStranger
<1>14. PinnedOnce(p)'
  <2>1. PinnedOnce(p) /\ InPlay(p)' = InPlay(p)
    BY <1>2 DEF SeriesInvariant, InPlay
  <2> QED
    BY <1>2, <2>1 DEF PinnedOnce
<1>15. RoundsInStep(p)'
  <2>1. RoundsInStep(p) /\ InPlay(p)' = InPlay(p)
    BY <1>2 DEF SeriesInvariant, InPlay
  <2> QED
    BY <1>2, <1>9, <2>1 DEF RoundsInStep
<1>16. ~(faults' \subseteq {"resend"})
  BY <1>2
<1> QED
  BY <1>7, <1>8, <1>10, <1>13, <1>14, <1>15, <1>16, BothHold DEF Basic

-----------------------------------------------------------------------------
(* A turn is read. *)

LEMMA OutcomeChanges ==
  ASSUME SeriesTypeOK, NEW p \in Peer, NEW place \in Calls \cup Waits \cup Over,
         NEW outcome \in Terminals,
         series' = [series EXCEPT ![p].outcome = outcome, ![p].at = place],
         queues' \in [Peer -> Mail], sameTerms' = sameTerms, faults' \subseteq PossibleFaults
  PROVE  /\ SeriesTypeOK' /\ series'[Rival[p]] = series[Rival[p]] /\ series'[p].at = place
         /\ series'[p].n = series[p].n /\ series'[p].known = series[p].known
         /\ series'[p].outcome = outcome /\ series'[p].rows = series[p].rows
         /\ series'[p].negotiate_pending = series[p].negotiate_pending
         /\ series'[p].audit_pending = series[p].audit_pending
<1>1. /\ series[p] \in PeerStates /\ series \in [Peer -> PeerStates]
      /\ Len(series[p].rows) \in {series[p].n - 1, series[p].n}
  BY PeerTypes DEF SeriesTypeOK, PeerStates
<1> DEFINE s == [series[p] EXCEPT !.outcome = outcome, !.at = place]
<1>2. /\ s \in PeerStates /\ s.at = place
      /\ s.n = series[p].n /\ s.known = series[p].known
      /\ s.outcome = outcome /\ s.rows = series[p].rows
      /\ s.negotiate_pending = series[p].negotiate_pending
      /\ s.audit_pending = series[p].audit_pending
  BY <1>1 DEF PeerStates, Over
<1>3. series' = [series EXCEPT ![p] = s]
  BY <1>1
<1> HIDE DEF s
<1>4. SeriesTypeOK' /\ series'[p] = s /\ series'[Rival[p]] = series[Rival[p]]
  BY <1>1, <1>2, <1>3, PeerMoves
<1> QED
  BY <1>2, <1>4

(* A peer that plays knows no outcome: the opponent's turns and audits of   *)
(* its round say none, and the cop does not know one either.                *)
LEMMA NobodyIsDone ==
  ASSUME SeriesInvariant, NEW p \in Peer, NEW q \in Peer, q = Rival[p],
         series[p].at = "playing", sameTerms, faults \subseteq {"resend"}
  PROVE  /\ \A m \in TurnsTo(q) : m.kind # "closing"
         /\ \A a \in AuditsTo(q) : a.round # series[q].n
         /\ PlayedRole(q) = "police" => ~Done(q)
         /\ PlayedRole(p) = "thief" => ~DoneWith(q, series[p].n)
         /\ ~Done(p) /\ series[p].n <= series[q].n
<1>1. /\ Rival[q] = p /\ OutcomesTravel(q) /\ NoLateTurn(q)
      /\ series[p].n \in Rounds /\ series[q].n \in Rounds
  BY TwoPeers, PeerTypes DEF SeriesInvariant
<1>2. ~Done(p) /\ \A n : ~DoneWith(p, n)
  BY DEF Done, DoneWith, Meeting
<1>3. /\ \A m \in TurnsTo(q) : m.kind # "closing"
      /\ \A a \in AuditsTo(q) : a.round # series[q].n
      /\ PlayedRole(q) = "police" => ~Done(q)
  BY <1>1, <1>2 DEF OutcomesTravel
<1>4. ~(series[p].n < series[q].n)
  BY <1>1 DEF NoLateTurn, Over
<1>5. series[p].n <= series[q].n
  BY DEF SeriesInvariant, RoundsInStep, InPlay
<1>6. series[q].n = series[p].n
  BY <1>1, <1>4, <1>5, RoundNumbers
<1>7. PlayedRole(p) = "thief" => PlayedRole(q) = "police"
  BY <1>1, <1>6, Roles DEF PlayedRole
<1>8. series[q].n # series[p].n + 1
  BY <1>1, <1>6, RoundNumbers
<1> QED
  BY <1>2, <1>3, <1>5, <1>7, <1>8 DEF DoneWith

LEMMA PlayKeeps ==
  ASSUME SeriesInvariant, NEW p \in Peer, Play(p)
  PROVE  SeriesInvariant'
<1> DEFINE q == Rival[p]
           m == Head(queues[p].turn)
<1>1. /\ q \in Peer /\ Rival[q] = p /\ SeriesTypeOK /\ series[p].n \in Rounds
      /\ series[q].n \in Rounds /\ faults \subseteq PossibleFaults
  BY TwoPeers, PeerTypes DEF SeriesInvariant, SeriesTypeOK
<1>2. /\ series[p].at = "playing" /\ queues[p].turn # <<>>
      /\ queues' = [queues EXCEPT ![p].turn = Tail(@)]
      /\ sameTerms' = sameTerms /\ faults' = faults
  BY DEF Play
<1>3. /\ queues' \in [Peer -> Mail] /\ queues'[q] = queues[q]
      /\ queues'[p].negotiate = queues[p].negotiate /\ queues'[p].audit = queues[p].audit
      /\ m \in Turns /\ m \in TurnsTo(p) /\ TurnsTo(p)' \subseteq TurnsTo(p)
  BY <1>1, <1>2, TurnRead
<1> HIDE DEF m
<1>4. PICK place \in {"failed", "opening", "replying", "closing", "submitting"},
           outcome \in Terminals :
        /\ \/ Goes(p, place) /\ outcome = series[p].outcome
           \/ series' = [series EXCEPT ![p].outcome = outcome, ![p].at = place]
        /\ \/ m.round # series[p].n
           \/ place = "closing" /\ PlayedRole(p) = "thief"
           \/ place = "replying" /\ outcome = series[p].outcome
           \/ /\ place = "submitting" /\ PlayedRole(p) # "thief" /\ m.kind = "closing"
              /\ outcome = m.outcome
  <2>1. series[p].outcome \in Terminals /\ m.outcome \in Terminals
    BY <1>1, <1>3, PeerTypes DEF Turns
  <2>2. CASE m.round # series[p].n
    BY <1>2, <2>1, <2>2 DEF Play, Stray, m
  <2>3. CASE m.round = series[p].n
    BY <1>2, <2>1, <2>3 DEF Play, Stray, m
  <2> QED
    BY <2>2, <2>3
<1>5. /\ SeriesTypeOK' /\ series'[q] = series[q] /\ series'[p].at = place
      /\ series'[p].n = series[p].n /\ series'[p].known = series[p].known
      /\ series'[p].outcome = outcome /\ series'[p].rows = series[p].rows
      /\ series'[p].negotiate_pending = series[p].negotiate_pending
      /\ series'[p].audit_pending = series[p].audit_pending
  <2>1. place \in Calls \cup Waits \cup Over /\ faults' \subseteq PossibleFaults
    BY <1>1, <1>2 DEF Calls, Waits, Over
  <2>2. CASE Goes(p, place) /\ outcome = series[p].outcome
    BY <1>1, <1>2, <1>3, <2>1, <2>2, PlaceChanges
  <2>3. CASE series' = [series EXCEPT ![p].outcome = outcome, ![p].at = place]
    BY <1>1, <1>2, <1>3, <2>1, <2>3, OutcomeChanges
  <2> QED
    BY <1>4, <2>2, <2>3
<1>6. /\ Greeted(p)' \subseteq Greeted(p) /\ AuditsTo(p)' \subseteq AuditsTo(p)
      /\ TurnsTo(q)' = TurnsTo(q) /\ AuditsTo(q)' = AuditsTo(q)
  BY <1>3, <1>5 DEF Greeted, AuditsTo, TurnsTo
<1>7. /\ InPlay(p) /\ series[p].at \notin Over /\ series'[p].at \notin Meeting
      /\ ~Finishing(p) /\ ~Done(p) /\ series[p].at \notin Meeting
  BY <1>2, <1>5 DEF InPlay, Over, Meeting, Finishing, Done
<1>8. series[p].n <= series[q].n
  BY <1>7 DEF SeriesInvariant, RoundsInStep
<1>9. Basic(q)'
  BY <1>1, <1>2, <1>3, <1>5, RoundNumbers, OtherKept
<1>10. Basic(p)'
  BY <1>1, <1>2, <1>3, <1>5, <1>6, <1>7, <1>8, MineKept, StrangersStay DEF Basic
<1>11. faults' \subseteq {"resend"} => NoLateTurn(p)' /\ NoLateTurn(q)'
  BY <1>1, <1>2, <1>3, <1>5, <1>6, <1>7, LateKept
<1>12. ASSUME sameTerms', faults' \subseteq {"resend"}
       PROVE  OutcomesTravel(p)' /\ OutcomesTravel(q)'
  <2>1. m.round = series[p].n
    BY <1>2, <1>3, <1>12 DEF SeriesInvariant, NoLateTurn
  <2>2. OutcomesTravel(p) /\ OutcomesTravel(q)
    BY <1>1, <1>2, <1>12 DEF SeriesInvariant
  <2>3. /\ \A x \in TurnsTo(q) : x.kind # "closing"
        /\ \A a \in AuditsTo(q) : a.round # series[q].n
        /\ PlayedRole(q) = "police" => ~Done(q)
        /\ PlayedRole(p) = "thief" => ~DoneWith(q, series[p].n)
    BY <1>1, <1>2, <1>12, NobodyIsDone
  <2>4. /\ Done(q)' <=> Done(q)
        /\ \A n : DoneWith(q, n)' <=> DoneWith(q, n)
        /\ PlayedRole(q)' = PlayedRole(q) /\ PlayedRole(p)' = PlayedRole(p)
    BY <1>5 DEF Done, DoneWith, PlayedRole
  <2>5. CASE place = "replying" /\ outcome = series[p].outcome
    <3>1. ~Done(p)' /\ series'[p].at \notin Over
      BY <1>5, <2>5 DEF Done, Over
    <3> QED
      BY <1>1, <1>2, <1>3, <1>5, <1>6, <1>7, <1>12, <2>5, <3>1, OutcomesKept
  <2>6. ASSUME place \in {"closing", "submitting"},
               PlayedRole(p) = "police" => DoneWith(q, series[p].n),
               DoneWith(q, series[p].n) => outcome = series[q].outcome
        PROVE  OutcomesTravel(p)' /\ OutcomesTravel(q)'
    <3>1. OutcomesTravel(p)'
      <4>1. series'[p].at \notin {"failed", "ended"}
        BY <1>5, <2>6
      <4> QED
        BY <1>3, <1>5, <1>6, <1>8, <2>2, <2>4, <2>6, <4>1 DEF OutcomesTravel
    <3>2. Done(q) /\ DoneWith(p, series[q].n)' => series[q].outcome = outcome
      <4> SUFFICES ASSUME Done(q), DoneWith(p, series[q].n)'
                   PROVE  series[q].outcome = outcome
        OBVIOUS
      <4>1. series[p].n = series[q].n
        BY <1>5, <1>7 DEF DoneWith
      <4>2. DoneWith(q, series[p].n)
        BY <4>1 DEF DoneWith
      <4> QED
        BY <2>6, <4>2
    <3>3. OutcomesTravel(q)'
      BY <1>1, <1>5, <1>6, <2>2, <2>3, <2>4, <3>2 DEF OutcomesTravel
    <3> QED
      BY <3>1, <3>3
  <2>7. CASE place = "closing" /\ PlayedRole(p) = "thief"
    BY <2>3, <2>6, <2>7
  <2>8. CASE place = "submitting" /\ m.kind = "closing" /\ outcome = m.outcome
    <3>1. DoneWith(q, series[p].n) /\ m.outcome = series[q].outcome
      BY <1>3, <2>2, <2>8 DEF OutcomesTravel
    <3> QED
      BY <2>6, <2>8, <3>1
  <2> QED
    BY <1>4, <2>1, <2>5, <2>7, <2>8
<1> QED
  BY <1>5, <1>9, <1>10, <1>11, <1>12, BothHold

-----------------------------------------------------------------------------
(* A greeting is read, judged or stashed. *)

LEMMA TailStrangers ==
  ASSUME SeriesInvariant, NEW p \in Peer, NEW s \in Seq(Greetings), s = queues[p].negotiate,
         s # <<>>
  PROVE  /\ \A i \in DOMAIN Tail(s) : Tail(s)[i].group = "stranger" =>
              /\ Head(s).group # "stranger"
              /\ \A x \in series[p].negotiate_pending : x.group # "stranger"
              /\ \A j \in DOMAIN Tail(s) : Tail(s)[j].group = "stranger" => j = i
         /\ Head(s).group = "stranger" =>
              \A x \in series[p].negotiate_pending : x.group # "stranger"
         /\ StrangerIsSpent(p) =>
              /\ Head(s).group # "stranger"
              /\ \A i \in DOMAIN Tail(s) : Tail(s)[i].group # "stranger"
<1>1. /\ 1 \in DOMAIN s /\ Head(s) = s[1]
      /\ \A i \in DOMAIN Tail(s) : i + 1 \in DOMAIN s /\ Tail(s)[i] = s[i + 1] /\ i \in Nat /\ i >= 1
  BY Shorter
<1>2. \A i \in DOMAIN s : s[i].group = "stranger" =>
        /\ \A x \in series[p].negotiate_pending : x.group # "stranger"
        /\ \A j \in DOMAIN s : s[j].group = "stranger" => j = i
  BY DEF SeriesInvariant, OneStranger
<1>3. StrangerIsSpent(p) => \A i \in DOMAIN s : s[i].group # "stranger"
  BY DEF StrangerIsSpent
<1>4. ASSUME NEW i \in DOMAIN Tail(s), Tail(s)[i].group = "stranger"
      PROVE  /\ Head(s).group # "stranger"
             /\ \A x \in series[p].negotiate_pending : x.group # "stranger"
             /\ \A j \in DOMAIN Tail(s) : Tail(s)[j].group = "stranger" => j = i
  <2>1. i + 1 \in DOMAIN s /\ s[i + 1].group = "stranger" /\ i \in Nat /\ i >= 1
    BY <1>1, <1>4
  <2>2. i + 1 # 1
    BY <2>1
  <2>3. Head(s).group # "stranger"
    BY <1>1, <1>2, <2>1, <2>2
  <2>4. ASSUME NEW j \in DOMAIN Tail(s), Tail(s)[j].group = "stranger"
        PROVE  j = i
    <3>1. j + 1 \in DOMAIN s /\ s[j + 1].group = "stranger" /\ j \in Nat
      BY <1>1, <2>4
    <3>2. j + 1 = i + 1
      BY <1>2, <2>1, <3>1
    <3> QED
      BY <2>1, <3>1, <3>2
  <2> QED
    BY <1>2, <2>1, <2>3, <2>4
<1> QED
  BY <1>1, <1>2, <1>3, <1>4

(* What is left in the queue when x was read from it, or from the stash,   *)
(* of which rest remains.                                                   *)
LeftAfter(p, x, rest) ==
  /\ \A i \in DOMAIN queues'[p].negotiate : queues'[p].negotiate[i].group = "stranger" =>
       /\ x.group # "stranger"
       /\ \A y \in rest : y.group # "stranger"
       /\ \A j \in DOMAIN queues'[p].negotiate :
            queues'[p].negotiate[j].group = "stranger" => j = i
  /\ x.group = "stranger" => \A y \in rest : y.group # "stranger"
  /\ StrangerIsSpent(p) => \A i \in DOMAIN queues'[p].negotiate :
                             queues'[p].negotiate[i].group # "stranger"

LEMMA PinChanges ==
  ASSUME SeriesTypeOK, NEW p \in Peer, NEW g \in Greetings,
         NEW rest, rest \subseteq Greetings, Pinned(p, g, rest),
         queues' \in [Peer -> Mail], sameTerms' = sameTerms, faults' \subseteq PossibleFaults
  PROVE  /\ SeriesTypeOK' /\ series'[Rival[p]] = series[Rival[p]]
         /\ series'[p].at \in {"opening", "playing"}
         /\ series'[p].n = series[p].n /\ series'[p].known = g.group
         /\ series'[p].rows = series[p].rows
         /\ series'[p].negotiate_pending = rest
         /\ series'[p].audit_pending = series[p].audit_pending
<1>1. /\ series[p] \in PeerStates /\ series \in [Peer -> PeerStates]
      /\ Len(series[p].rows) \in {series[p].n - 1, series[p].n} /\ g.group \in Groups
  BY PeerTypes DEF SeriesTypeOK, PeerStates, Greetings
<1>2. PICK place \in {"opening", "playing"} :
        place = IF PlayedRole(p) = "thief" THEN "opening" ELSE "playing"
  OBVIOUS
<1> DEFINE s == [series[p] EXCEPT !.known = g.group, !.outcome = "",
                                  !.negotiate_pending = rest, !.at = place]
<1>3. /\ s \in PeerStates /\ s.at = place
      /\ s.n = series[p].n /\ s.known = g.group /\ s.rows = series[p].rows
      /\ s.negotiate_pending = rest
      /\ s.audit_pending = series[p].audit_pending
  BY <1>1 DEF PeerStates, Calls, Waits, Terminals
<1>4. series' = [series EXCEPT ![p] = s]
  BY <1>1, <1>2 DEF Pinned
<1> HIDE DEF s
<1>5. SeriesTypeOK' /\ series'[p] = s /\ series'[Rival[p]] = series[Rival[p]]
  BY <1>1, <1>3, <1>4, PeerMoves
<1> QED
  BY <1>3, <1>5

(* A greeting leads nowhere, or to the end of the series.                   *)
LEMMA ReadChanges ==
  ASSUME SeriesTypeOK, NEW p \in Peer, NEW rest, rest \subseteq Greetings,
         NEW place \in {series[p].at, "ended"},
         series' = [series EXCEPT ![p].negotiate_pending = rest, ![p].at = place],
         queues' \in [Peer -> Mail], sameTerms' = sameTerms, faults' \subseteq PossibleFaults
  PROVE  /\ SeriesTypeOK' /\ series'[Rival[p]] = series[Rival[p]]
         /\ series'[p].at = place
         /\ series'[p].n = series[p].n /\ series'[p].known = series[p].known
         /\ series'[p].outcome = series[p].outcome
         /\ series'[p].rows = series[p].rows
         /\ series'[p].negotiate_pending = rest
         /\ series'[p].audit_pending = series[p].audit_pending
<1>1. /\ series[p] \in PeerStates /\ series \in [Peer -> PeerStates]
      /\ Len(series[p].rows) \in {series[p].n - 1, series[p].n}
  BY PeerTypes DEF SeriesTypeOK, PeerStates
<1> DEFINE s == [series[p] EXCEPT !.negotiate_pending = rest, !.at = place]
<1>2. /\ s \in PeerStates /\ s.at = place
      /\ s.n = series[p].n /\ s.known = series[p].known /\ s.rows = series[p].rows
      /\ s.outcome = series[p].outcome /\ s.negotiate_pending = rest
      /\ s.audit_pending = series[p].audit_pending
  BY <1>1 DEF PeerStates
<1>3. series' = [series EXCEPT ![p] = s]
  BY <1>1
<1> HIDE DEF s
<1>4. SeriesTypeOK' /\ series'[p] = s /\ series'[Rival[p]] = series[Rival[p]]
  BY <1>1, <1>2, <1>3, PeerMoves
<1> QED
  BY <1>2, <1>4

(* Neither terms nor identity refuse an opponent that nobody interferes     *)
(* with.                                                                    *)
LEMMA NoRefusal ==
  ASSUME SeriesInvariant, NEW p \in Peer, NEW x \in Greeted(p), NEW rest,
         Judges(p, x, rest), sameTerms, faults \subseteq {"resend"}
  PROVE  \/ Pinned(p, x, rest) /\ SameOpponent(p, x)
         \/ series' = [series EXCEPT ![p].negotiate_pending = rest]
<1>1. IsTrue(p, x) /\ PinnedOnce(p)
  BY DEF SeriesInvariant, GreetingsAreTrue
<1>2. x.group = Rival[p] /\ x.uid \in {"", p} /\ series[p].known \in {"", Rival[p]}
  BY <1>1 DEF IsTrue, PinnedOnce
<1>3. lock_decision(p, x.uid) = "play"
  BY <1>2 DEF lock_decision
<1>4. verify_greeting(p, x) # "refused"
  BY <1>3 DEF verify_greeting
<1>5. SameOpponent(p, x)
  BY <1>2 DEF SameOpponent
<1> QED
  BY <1>4, <1>5 DEF Judges

LEMMA JudgedKeeps ==
  ASSUME SeriesInvariant, NEW p \in Peer, NEW x \in Greeted(p), x \in Greetings,
         x.round \in {0, series[p].n}, series[p].at = "negotiating",
         NEW rest, rest \subseteq series[p].negotiate_pending, Judges(p, x, rest),
         queues' \in [Peer -> Mail], queues'[Rival[p]] = queues[Rival[p]],
         queues'[p].turn = queues[p].turn, queues'[p].audit = queues[p].audit,
         Boxes!ToSet(queues'[p].negotiate) \subseteq Boxes!ToSet(queues[p].negotiate),
         LeftAfter(p, x, rest), x.group = "stranger" => ~StrangerIsSpent(p),
         UNCHANGED <<sameTerms, faults>>
  PROVE  SeriesInvariant'
<1> DEFINE q == Rival[p]
<1>1. /\ q \in Peer /\ Rival[q] = p /\ SeriesTypeOK /\ series[p].n \in Rounds
      /\ series[q].n \in Rounds /\ faults' \subseteq PossibleFaults /\ q # "stranger"
  BY TwoPeers, PeerTypes DEF SeriesInvariant, SeriesTypeOK
<1>2. PICK place \in {"negotiating", "ended", "opening", "playing"} :
        /\ SeriesTypeOK' /\ series'[q] = series[q] /\ series'[p].at = place
        /\ series'[p].n = series[p].n /\ series'[p].rows = series[p].rows
        /\ series'[p].negotiate_pending = rest
        /\ series'[p].audit_pending = series[p].audit_pending
        /\ \/ /\ place \in {"negotiating", "ended"}
              /\ series'[p].known = series[p].known /\ series'[p].outcome = series[p].outcome
           \/ /\ place \in {"opening", "playing"}
              /\ series'[p].known = x.group /\ series[p].known \in {"", x.group}
        /\ place = "ended" => ~(sameTerms /\ faults \subseteq {"resend"})
  <2>1. rest \subseteq Greetings /\ series \in [Peer -> PeerStates]
    BY <1>1, PeerTypes DEF SeriesTypeOK, PeerStates
  <2>2. CASE Pinned(p, x, rest) /\ SameOpponent(p, x)
    <3>1. /\ SeriesTypeOK' /\ series'[q] = series[q]
          /\ series'[p].at \in {"opening", "playing"}
          /\ series'[p].n = series[p].n /\ series'[p].known = x.group
          /\ series'[p].rows = series[p].rows
          /\ series'[p].negotiate_pending = rest
          /\ series'[p].audit_pending = series[p].audit_pending
      BY <1>1, <2>1, <2>2, PinChanges
    <3>2. series[p].known \in {"", x.group}
      BY <2>2 DEF SameOpponent
    <3> QED
      BY <3>1, <3>2
  <2>3. CASE series' = [series EXCEPT ![p].negotiate_pending = rest]
    <3>1. series' = [series EXCEPT ![p].negotiate_pending = rest, ![p].at = series[p].at]
      BY <2>1, <2>3 DEF PeerStates
    <3> QED
      BY <1>1, <2>1, <3>1, ReadChanges
  <2>4. CASE /\ series' = [series EXCEPT ![p].negotiate_pending = rest, ![p].at = "ended"]
             /\ ~(sameTerms /\ faults \subseteq {"resend"})
    BY <1>1, <2>1, <2>4, ReadChanges
  <2>5. \/ Pinned(p, x, rest) /\ SameOpponent(p, x)
        \/ series' = [series EXCEPT ![p].negotiate_pending = rest]
        \/ series' = [series EXCEPT ![p].negotiate_pending = rest, ![p].at = "ended"]
    BY DEF Judges
  <2>6. sameTerms /\ faults \subseteq {"resend"} =>
          \/ Pinned(p, x, rest) /\ SameOpponent(p, x)
          \/ series' = [series EXCEPT ![p].negotiate_pending = rest]
    BY NoRefusal
  <2>7. CASE sameTerms /\ faults \subseteq {"resend"}
    BY <2>2, <2>3, <2>6, <2>7
  <2>8. CASE ~(sameTerms /\ faults \subseteq {"resend"})
    BY <2>2, <2>3, <2>4, <2>5, <2>8
  <2> QED
    BY <2>7, <2>8
<1>3. /\ Greeted(p)' \subseteq Greeted(p) /\ TurnsTo(p)' \subseteq TurnsTo(p)
      /\ AuditsTo(p)' \subseteq AuditsTo(p)
      /\ TurnsTo(q)' = TurnsTo(q) /\ AuditsTo(q)' = AuditsTo(q)
  BY <1>2 DEF Greeted, TurnsTo, AuditsTo
<1>4. /\ ~InPlay(p) /\ ~Done(p) /\ ~Finishing(p) /\ series[p].at \notin Over
      /\ series[p].at \in Meeting
      /\ place \in {"opening", "playing"} <=> InPlay(p)'
      /\ ~Done(p)'
         \/ place = "ended"
  BY <1>2 DEF InPlay, Done, Finishing, Over, Meeting
<1>5. IsTrue(p, x) /\ PinnedOnce(p)
  BY DEF SeriesInvariant, GreetingsAreTrue
<1>6. place \in {"opening", "playing"} => series[p].n <= series[q].n
  <2> SUFFICES ASSUME place \in {"opening", "playing"}
               PROVE  series[p].n <= series[q].n
    OBVIOUS
  <2>1. CASE x.group = q
    <3>1. x.round \in 1 .. series[q].n
      BY <1>1, <1>5, <2>1 DEF IsTrue
    <3>2. x.round = series[p].n
      BY <3>1
    <3> QED
      BY <1>1, <3>1, <3>2, RoundNumbers
  <2>2. CASE x.group = "stranger"
    <3>1. series[p].known = ""
      BY <1>2, <1>5, <2>2 DEF PinnedOnce
    <3>2. series[p].n = 1
      BY <1>5, <3>1 DEF PinnedOnce
    <3> QED
      BY <1>1, <3>2, RoundNumbers
  <2> QED
    BY <1>5, <2>1, <2>2 DEF IsTrue
<1>7. Basic(q)'
  <2>1. series[p].n <= series'[p].n /\ faults \subseteq faults'
    <3>1. series'[p].n = series[p].n
      BY <1>2
    <3>2. faults \subseteq faults'
      OBVIOUS
    <3> QED
      BY <1>1, <3>1, <3>2, RoundNumbers
  <2> QED
    BY <1>1, <1>2, <2>1, OtherKept
<1>8. GreetingsAreTrue(p)' /\ RoundsInStep(p)'
  BY <1>1, <1>2, <1>3, <1>4, <1>6, MineKept
<1>9. OneStranger(p)'
  <2>1. OneStranger(p)
    BY DEF SeriesInvariant
  <2> QED
    BY <1>2, <2>1 DEF OneStranger, LeftAfter
<1>10. PinnedOnce(p)'
  <2>1. CASE place \in {"negotiating", "ended"}
    <3>1. series'[p].known = series[p].known /\ ~InPlay(p)'
      BY <1>2, <1>4, <2>1
    <3>2. StrangerIsSpent(p) => StrangerIsSpent(p)'
      BY <1>2 DEF StrangerIsSpent, LeftAfter
    <3> QED
      BY <1>2, <1>5, <3>1, <3>2 DEF PinnedOnce
  <2>2. CASE place \in {"opening", "playing"}
    <3>1. series'[p].known = x.group /\ x.group \in {q, "stranger"} /\ x.group # ""
      BY <1>1, <1>2, <1>5, <2>2, TwoPeers DEF IsTrue
    <3>2. ASSUME x.group = "stranger"
          PROVE  "stranger" \in faults' /\ StrangerIsSpent(p)'
      <4>1. "stranger" \in faults'
        BY <1>1, <1>5, <3>2 DEF IsTrue
      <4> QED
        BY <1>2, <3>2, <4>1 DEF StrangerIsSpent, LeftAfter
    <3> QED
      BY <3>1, <3>2 DEF PinnedOnce
  <2> QED
    BY <2>1, <2>2
<1>11. faults' \subseteq {"resend"} => NoLateTurn(p)' /\ NoLateTurn(q)'
  BY <1>1, <1>2, <1>3, <1>4, LateKept
<1>12. ASSUME sameTerms', faults' \subseteq {"resend"}
       PROVE  OutcomesTravel(p)' /\ OutcomesTravel(q)'
  <2>1. OutcomesTravel(p) /\ OutcomesTravel(q)
    BY <1>1, <1>12 DEF SeriesInvariant
  <2>2. CASE place = "negotiating"
    <3>1. (Done(p)' <=> Done(p)) /\ series'[p].at \in Meeting /\ series'[p].at \notin Over
      BY <1>2, <1>4, <2>2 DEF Done, Meeting, Over
    <3> QED
      BY <1>1, <1>2, <1>3, <1>4, <1>12, <2>2, <3>1, OutcomesKept
  <2>3. CASE place \in {"opening", "playing"}
    <3>1. /\ ~Done(p)' /\ series'[p].at \notin {"failed", "ended"} /\ series'[p].at \notin Meeting
          /\ \A n : ~DoneWith(p, n)'
      BY <1>2, <2>3 DEF Done, DoneWith, Meeting
    <3>2. ~DoneWith(p, series[q].n)
      <4>1. series[p].n # series[q].n + 1
        BY <1>1, <1>6, <2>3, RoundNumbers
      <4> QED
        BY <1>4, <4>1 DEF DoneWith
    <3>3. /\ Done(q)' <=> Done(q)
          /\ \A n : DoneWith(q, n)' <=> DoneWith(q, n)
          /\ PlayedRole(q)' = PlayedRole(q)
      BY <1>2 DEF Done, DoneWith, PlayedRole
    <3>4. OutcomesTravel(p)'
      BY <1>2, <1>3, <1>6, <2>1, <2>3, <3>1, <3>3, ZenonT(60) DEF OutcomesTravel
    <3>5. OutcomesTravel(q)'
      BY <1>1, <1>2, <1>3, <2>1, <3>1, <3>2, <3>3, ZenonT(60) DEF OutcomesTravel
    <3> QED
      BY <3>4, <3>5
  <2> QED
    BY <1>2, <1>12, <2>2, <2>3
<1> QED
  BY <1>2, <1>7, <1>8, <1>9, <1>10, <1>11, <1>12, BothHold DEF Basic

LEMMA StashKeeps ==
  ASSUME SeriesInvariant, NEW p \in Peer, series[p].at = "negotiating",
         queues[p].negotiate # <<>>,
         queues' = [queues EXCEPT ![p].negotiate = Tail(@)],
         series' = [series EXCEPT ![p].negotiate_pending =
                      Stashed(@, Head(queues[p].negotiate))],
         UNCHANGED <<sameTerms, faults>>
  PROVE  SeriesInvariant'
<1> DEFINE q == Rival[p]
           read == series[p].negotiate_pending
<1>1. /\ q \in Peer /\ SeriesTypeOK /\ series[p].n \in Rounds
      /\ faults' \subseteq PossibleFaults /\ series[p] \in PeerStates
      /\ series \in [Peer -> PeerStates] /\ queues[p].negotiate \in Seq(Greetings)
      /\ Len(series[p].rows) \in {series[p].n - 1, series[p].n} /\ read \subseteq Greetings
  BY TwoPeers, PeerTypes DEF SeriesInvariant, SeriesTypeOK, PeerStates
<1>2. PICK g \in Greetings : g = Head(queues[p].negotiate)
  BY <1>1, Shorter
<1>3. /\ queues' \in [Peer -> Mail] /\ queues'[q] = queues[q]
      /\ queues'[p].negotiate = Tail(queues[p].negotiate)
      /\ queues'[p].turn = queues[p].turn /\ queues'[p].audit = queues[p].audit
  BY <1>1, GreetingRead
<1>4. /\ SeriesTypeOK' /\ series'[q] = series[q] /\ series'[p].at = series[p].at
      /\ series'[p].n = series[p].n /\ series'[p].known = series[p].known
      /\ series'[p].outcome = series[p].outcome /\ series'[p].rows = series[p].rows
      /\ series'[p].negotiate_pending = Stashed(read, g)
      /\ series'[p].audit_pending = series[p].audit_pending
  <2>1. Stashed(read, g) \subseteq Greetings
    BY <1>1 DEF Stashed
  <2> DEFINE s == [series[p] EXCEPT !.negotiate_pending = Stashed(read, g)]
  <2>2. /\ s \in PeerStates /\ s.at = series[p].at
        /\ s.n = series[p].n /\ s.known = series[p].known
        /\ s.outcome = series[p].outcome /\ s.rows = series[p].rows
        /\ s.negotiate_pending = Stashed(read, g)
        /\ s.audit_pending = series[p].audit_pending
    BY <1>1, <2>1 DEF PeerStates
  <2>3. series' = [series EXCEPT ![p] = s]
    BY <1>1, <1>2
  <2> HIDE DEF s
  <2>4. SeriesTypeOK' /\ series'[p] = s /\ series'[q] = series[q]
    BY <1>1, <1>3, <2>2, <2>3, PeerMoves
  <2> QED
    BY <2>2, <2>4
<1>5. /\ Greeted(p)' \subseteq Greeted(p) /\ TurnsTo(p)' \subseteq TurnsTo(p)
      /\ AuditsTo(p)' \subseteq AuditsTo(p)
  <2>1. /\ Boxes!ToSet(Tail(queues[p].negotiate)) \subseteq Boxes!ToSet(queues[p].negotiate)
        /\ g \in Boxes!ToSet(queues[p].negotiate)
    BY <1>1, <1>2, Shorter
  <2>2. Stashed(read, g) \subseteq read \cup {g}
    BY DEF Stashed
  <2> QED
    BY <1>3, <1>4, <2>1, <2>2 DEF Greeted, TurnsTo, AuditsTo
<1>6. /\ InPlay(p)' <=> InPlay(p)
      /\ Done(p)' <=> Done(p)
      /\ Finishing(p)' <=> Finishing(p)
      /\ series[p].at \notin Over /\ ~InPlay(p)
  BY <1>4 DEF InPlay, Done, Finishing, Over
<1>7. Basic(q)'
  <2>1. series[p].n <= series'[p].n /\ faults \subseteq faults'
    BY <1>1, <1>4, RoundNumbers
  <2> QED
    BY <1>1, <1>3, <1>4, <2>1, OtherKept
<1>8. GreetingsAreTrue(p)' /\ RoundsInStep(p)'
  BY <1>1, <1>4, <1>5, <1>6, MineKept
<1>9. /\ \A i \in DOMAIN queues'[p].negotiate : queues'[p].negotiate[i].group = "stranger" =>
           /\ g.group # "stranger"
           /\ \A x \in read : x.group # "stranger"
           /\ \A j \in DOMAIN queues'[p].negotiate :
                queues'[p].negotiate[j].group = "stranger" => j = i
      /\ g.group = "stranger" => \A x \in read : x.group # "stranger"
      /\ StrangerIsSpent(p) =>
           /\ g.group # "stranger"
           /\ \A i \in DOMAIN queues'[p].negotiate : queues'[p].negotiate[i].group # "stranger"
  BY <1>1, <1>2, <1>3, TailStrangers
<1>10. \A x \in Stashed(read, g) : x \in read \/ x = g
  BY DEF Stashed
<1>11. OneStranger(p)'
  <2>1. \A x, y \in read : x.group = "stranger" /\ y.group = "stranger" => x = y
    BY DEF SeriesInvariant, OneStranger
  <2>2. \A x, y \in Stashed(read, g) : x.group = "stranger" /\ y.group = "stranger" => x = y
    BY <1>9, <1>10, <2>1
  <2> QED
    BY <1>4, <1>9, <1>10, <2>2 DEF OneStranger
<1>12. PinnedOnce(p)'
  <2>1. PinnedOnce(p)
    BY DEF SeriesInvariant
  <2>2. StrangerIsSpent(p) => StrangerIsSpent(p)'
    BY <1>4, <1>9, <1>10 DEF StrangerIsSpent
  <2> QED
    BY <1>4, <1>6, <2>1, <2>2 DEF PinnedOnce
<1>13. faults' \subseteq {"resend"} => NoLateTurn(p)' /\ NoLateTurn(q)'
  BY <1>1, <1>3, <1>4, <1>5, <1>6, LateKept
<1>14. sameTerms' /\ faults' \subseteq {"resend"} => OutcomesTravel(p)' /\ OutcomesTravel(q)'
  BY <1>1, <1>3, <1>4, <1>5, <1>6, OutcomesKept
<1> QED
  BY <1>4, <1>7, <1>8, <1>11, <1>12, <1>13, <1>14, BothHold DEF Basic

LEMMA NegotiateKeeps ==
  ASSUME SeriesInvariant, NEW p \in Peer, Negotiate(p)
  PROVE  SeriesInvariant'
<1> DEFINE q == Rival[p]
           read == series[p].negotiate_pending
           mine == {x \in read : x.round = series[p].n}
<1>1. /\ q \in Peer /\ SeriesTypeOK /\ series[p].n \in Rounds /\ queues \in [Peer -> Mail]
      /\ queues[p].negotiate \in Seq(Greetings) /\ read \subseteq Greetings
  BY TwoPeers, PeerTypes, MailStays DEF SeriesInvariant
<1>2. series[p].at = "negotiating" /\ sameTerms' = sameTerms /\ faults' = faults
  BY DEF Negotiate
<1>3. ASSUME NEW x \in mine, Judges(p, x, read \ {x}), UNCHANGED queues
      PROVE  SeriesInvariant'
  <2>1. x \in Greeted(p) /\ x \in Greetings /\ x \in read
    BY <1>1 DEF Greeted
  <2>2. x.group = "stranger" => ~StrangerIsSpent(p)
    BY <2>1 DEF StrangerIsSpent
  <2>3. LeftAfter(p, x, read \ {x})
    <3>1. OneStranger(p)
      BY DEF SeriesInvariant
    <3> QED
      BY <1>3, <2>1, <3>1 DEF OneStranger, LeftAfter, StrangerIsSpent
  <2> QED
    BY <1>1, <1>2, <1>3, <2>1, <2>2, <2>3, JudgedKeeps
<1>4. ASSUME queues[p].negotiate # <<>>, Judges(p, Head(queues[p].negotiate), read),
             Head(queues[p].negotiate).round \notin Rounds \ {series[p].n},
             queues' = [queues EXCEPT ![p].negotiate = Tail(@)]
      PROVE  SeriesInvariant'
  <2>1. PICK x \in Greetings : x = Head(queues[p].negotiate)
    BY <1>1, <1>4, Shorter
  <2>2. x.round \in {0, series[p].n}
    BY <1>4, <2>1 DEF Greetings
  <2>3. /\ queues' \in [Peer -> Mail] /\ queues'[q] = queues[q]
        /\ queues'[p].negotiate = Tail(queues[p].negotiate)
        /\ queues'[p].turn = queues[p].turn /\ queues'[p].audit = queues[p].audit
    BY <1>1, <1>4, GreetingRead
  <2>4. /\ Boxes!ToSet(Tail(queues[p].negotiate)) \subseteq Boxes!ToSet(queues[p].negotiate)
        /\ x \in Boxes!ToSet(queues[p].negotiate)
    BY <1>1, <1>4, <2>1, Shorter
  <2>5. x \in Greeted(p)
    BY <2>4 DEF Greeted
  <2>6. /\ LeftAfter(p, x, read)
        /\ x.group = "stranger" => ~StrangerIsSpent(p)
    <3>1. /\ \A i \in DOMAIN queues'[p].negotiate : queues'[p].negotiate[i].group = "stranger" =>
               /\ x.group # "stranger"
               /\ \A y \in read : y.group # "stranger"
               /\ \A j \in DOMAIN queues'[p].negotiate :
                    queues'[p].negotiate[j].group = "stranger" => j = i
          /\ x.group = "stranger" => \A y \in read : y.group # "stranger"
          /\ StrangerIsSpent(p) =>
               /\ x.group # "stranger"
               /\ \A i \in DOMAIN queues'[p].negotiate :
                    queues'[p].negotiate[i].group # "stranger"
      BY <1>1, <1>4, <2>1, <2>3, TailStrangers
    <3> QED
      BY <3>1 DEF LeftAfter
  <2> QED
    BY <1>2, <1>4, <2>1, <2>2, <2>3, <2>4, <2>5, <2>6, JudgedKeeps
<1>5. \/ \E x \in mine : Judges(p, x, read \ {x}) /\ UNCHANGED queues
      \/ /\ queues[p].negotiate # <<>> /\ queues' = [queues EXCEPT ![p].negotiate = Tail(@)]
         /\ \/ series' = [series EXCEPT ![p].negotiate_pending =
                            Stashed(@, Head(queues[p].negotiate))]
            \/ /\ Head(queues[p].negotiate).round \notin Rounds \ {series[p].n}
               /\ Judges(p, Head(queues[p].negotiate), read)
  BY DEF Negotiate
<1> QED
  BY <1>2, <1>3, <1>4, <1>5, StashKeeps

-----------------------------------------------------------------------------
(* A round ends, with an audit of it or with none. *)

LEMMA SettlingChanges ==
  ASSUME SeriesTypeOK, NEW p \in Peer, NEW row \in Rows, NEW rest \in Seq(Audits),
         NEW pending, pending \subseteq Audits, Settles(p, row, rest, pending),
         Len(series[p].rows) = series[p].n - 1,
         sameTerms' = sameTerms, faults' \subseteq PossibleFaults
  PROVE  /\ SeriesTypeOK' /\ series'[Rival[p]] = series[Rival[p]]
         /\ queues'[Rival[p]] = queues[Rival[p]]
         /\ series'[p].known = series[p].known /\ series'[p].outcome = series[p].outcome
         /\ series'[p].rows = Append(series[p].rows, row)
         /\ series'[p].negotiate_pending = series[p].negotiate_pending
         /\ series'[p].audit_pending = pending
         /\ queues'[p].negotiate = queues[p].negotiate /\ queues'[p].audit = rest
         /\ \/ /\ series[p].n < SubGames /\ series'[p].n = series[p].n + 1
               /\ series'[p].at = "greeting" /\ queues'[p].turn = <<>>
            \/ /\ series[p].n = SubGames /\ series'[p].n = series[p].n
               /\ series'[p].at = "ended" /\ queues'[p].turn = queues[p].turn
<1>1. /\ series[p] \in PeerStates /\ series \in [Peer -> PeerStates]
      /\ series[p].rows \in Seq(Rows) /\ series[p].n \in Rounds
      /\ queues[p] \in Mail /\ queues \in [Peer -> Mail]
      /\ queues[p].turn \in Seq(Turns) /\ <<>> \in Seq(Turns)
  <2>1. series \in [Peer -> PeerStates]
    BY DEF SeriesTypeOK, PeerStates
  <2>2. <<>> \in Seq(Turns)
    OBVIOUS
  <2> QED
    BY <2>1, <2>2, PeerTypes, MailStays
<1>2. PICK n \in Rounds, place \in {"greeting", "ended"}, turns \in Seq(Turns) :
        /\ n = (IF series[p].n < SubGames THEN series[p].n + 1 ELSE series[p].n)
        /\ place = (IF series[p].n < SubGames THEN "greeting" ELSE "ended")
        /\ turns = (IF series[p].n < SubGames THEN <<>> ELSE queues[p].turn)
  BY <1>1, RoundNumbers
<1>3. PICK rows \in Seq(Rows) : /\ rows = Append(series[p].rows, row)
                                /\ Len(rows) \in {n - 1, n}
  <2>1. Append(series[p].rows, row) \in Seq(Rows)
    BY <1>1, Longer
  <2>2. Len(Append(series[p].rows, row)) = series[p].n
    <3>1. \A t \in Seq(Rows) : Len(Append(t, row)) = Len(t) + 1
      OBVIOUS
    <3>2. \A k \in Rounds : k - 1 + 1 = k
      BY RoundNumbers
    <3> QED
      BY <1>1, <3>1, <3>2
  <2>3. series[p].n \in {n - 1, n}
    <3>2. CASE n = series[p].n
      BY <3>2
    <3>3. CASE n = series[p].n + 1
      <4>1. n - 1 = series[p].n
        <5>1. PICK k \in Nat : k = series[p].n
          BY <1>1, RoundNumbers
        <5>2. n = k + 1
          BY <3>3, <5>1
        <5>3. n - 1 = k
          BY <5>2
        <5> QED
          BY <5>1, <5>3
      <4> QED
        BY <4>1
    <3> QED
      BY <1>2, <3>2, <3>3
  <2> QED
    BY <2>1, <2>2, <2>3
<1> DEFINE s == [series[p] EXCEPT !.rows = rows, !.audit_pending = pending, !.n = n, !.at = place]
           b == [queues[p] EXCEPT !.audit = rest, !.turn = turns]
<1>4. /\ s \in PeerStates /\ s.at = place /\ s.n = n /\ s.known = series[p].known
      /\ s.outcome = series[p].outcome /\ s.rows = rows
      /\ s.negotiate_pending = series[p].negotiate_pending /\ s.audit_pending = pending
  BY <1>1 DEF PeerStates, Calls
<1>5. /\ b \in Mail /\ b.negotiate = queues[p].negotiate /\ b.turn = turns /\ b.audit = rest
  BY <1>1 DEF Mail
<1>6. series' = [series EXCEPT ![p] = s]
  BY <1>1, <1>2, <1>3 DEF Settles
<1>7. queues' = [queues EXCEPT ![p] = b]
  BY <1>1, <1>2 DEF Settles, Drained
<1>8. ASSUME NEW c \in Mail, queues' = [queues EXCEPT ![p] = c]
      PROVE  /\ queues' \in [Peer -> Mail] /\ queues'[p] = c
             /\ queues'[Rival[p]] = queues[Rival[p]]
  BY <1>8, MailMoves
<1>9. ASSUME NEW t \in PeerStates, series' = [series EXCEPT ![p] = t],
             Len(t.rows) \in {t.n - 1, t.n}, queues' \in [Peer -> Mail]
      PROVE  SeriesTypeOK' /\ series'[p] = t /\ series'[Rival[p]] = series[Rival[p]]
  BY <1>9, PeerMoves
<1> HIDE DEF s, b
<1>10. /\ queues' \in [Peer -> Mail] /\ queues'[p] = b
       /\ queues'[Rival[p]] = queues[Rival[p]]
  BY <1>5, <1>7, <1>8
<1>11. SeriesTypeOK' /\ series'[p] = s /\ series'[Rival[p]] = series[Rival[p]]
  BY <1>3, <1>4, <1>6, <1>9, <1>10
<1>12. \/ /\ series[p].n < SubGames /\ n = series[p].n + 1 /\ place = "greeting" /\ turns = <<>>
       \/ /\ series[p].n = SubGames /\ n = series[p].n /\ place = "ended"
          /\ turns = queues[p].turn
  BY <1>1, <1>2, RoundNumbers
<1> QED
  BY <1>3, <1>4, <1>5, <1>10, <1>11, <1>12

LEMMA SettlingKeeps ==
  ASSUME SeriesInvariant, NEW p \in Peer, series[p].at = "auditing",
         NEW row \in Rows, NEW rest \in Seq(Audits), NEW pending, pending \subseteq Audits,
         Settles(p, row, rest, pending), sameTerms' = sameTerms,
         faults \subseteq faults', faults' \subseteq PossibleFaults,
         Boxes!ToSet(rest) \cup pending \subseteq AuditsTo(p),
         faults' \subseteq {"resend"} =>
           \E a \in AuditsTo(p) :
             a.round = series[p].n /\ row = SubGameRow(p, a.claim, "verified")
  PROVE  SeriesInvariant'
<1> DEFINE q == Rival[p]
<1>1. /\ q \in Peer /\ Rival[q] = p /\ SeriesTypeOK /\ q # p
      /\ Basic(p) /\ Basic(q) /\ series[p].rows \in Seq(Rows)
  BY TwoPeers, PeerTypes DEF SeriesInvariant, Basic
<1> PICK n \in Rounds : n = series[p].n
  BY <1>1, PeerTypes
<1> PICK k \in Rounds : k = series[q].n
  BY <1>1, PeerTypes
<1>2. /\ n \in Nat /\ k \in Nat /\ n >= 1 /\ k >= 1 /\ SubGames \in Nat
  BY RoundNumbers
<1>3. /\ InPlay(p) /\ n <= k /\ k <= n + 1
      /\ InPlay(q) => k <= n
      /\ Len(series[p].rows) = n - 1 /\ Done(p) /\ Finishing(p)
      /\ series[p].at \notin Meeting
  BY <1>1 DEF Basic, RoundsInStep, InPlay, Done, Finishing, Over, Meeting
<1>4. /\ SeriesTypeOK' /\ series'[q] = series[q] /\ queues'[q] = queues[q]
      /\ series'[p].known = series[p].known /\ series'[p].outcome = series[p].outcome
      /\ series'[p].rows = Append(series[p].rows, row)
      /\ series'[p].negotiate_pending = series[p].negotiate_pending
      /\ series'[p].audit_pending = pending
      /\ queues'[p].negotiate = queues[p].negotiate /\ queues'[p].audit = rest
      /\ \/ /\ series[p].n < SubGames /\ series'[p].n = series[p].n + 1
            /\ series'[p].at = "greeting" /\ queues'[p].turn = <<>>
         \/ /\ series[p].n = SubGames /\ series'[p].n = series[p].n
            /\ series'[p].at = "ended" /\ queues'[p].turn = queues[p].turn
  BY <1>1, <1>3, SettlingChanges
<1> PICK n1 \in Rounds : n1 = series'[p].n
  BY <1>4 DEF SeriesTypeOK
<1>5. \/ n < SubGames /\ n1 = n + 1 /\ series'[p].at = "greeting" /\ TurnsTo(p)' = {}
      \/ n = SubGames /\ n1 = n /\ series'[p].at = "ended" /\ TurnsTo(p)' = TurnsTo(p)
  BY <1>4, NothingQueued DEF TurnsTo
<1>6. /\ Greeted(p)' = Greeted(p) /\ AuditsTo(p)' \subseteq AuditsTo(p)
      /\ TurnsTo(q)' = TurnsTo(q) /\ AuditsTo(q)' = AuditsTo(q)
  BY <1>4 DEF Greeted, AuditsTo, TurnsTo
<1>7. /\ ~InPlay(p)' /\ n <= n1
      /\ series'[p].at = "ended" => Done(p)' /\ Finishing(p)'
      /\ series'[p].at = "greeting" => ~Done(p)'
  BY <1>2, <1>5 DEF InPlay, Done, Finishing, Over
<1>8. Basic(q)'
  BY <1>1, <1>4, <1>7, OtherKept
<1>9. /\ \A a \in AuditsTo(p) : a.round <= n /\ a.round <= k /\ a.round \in Nat
      /\ \A a \in AuditsTo(q) : a.round <= n /\ a.round <= k /\ a.round \in Nat
      /\ \A m \in TurnsTo(p) : m.round <= n /\ m.round \in Nat
  <2>1. \A a \in Audits : a.round \in Nat
    BY RoundNumbers DEF Audits
  <2>2. \A m \in TurnsTo(p) : m.round \in Nat
    <3>1. queues[p].turn \in Seq(Turns)
      BY <1>1, PeerTypes
    <3>2. \A m \in TurnsTo(p) : m \in Turns
      BY <3>1 DEF TurnsTo, Boxes!ToSet
    <3> QED
      BY <3>2, RoundNumbers DEF Turns
  <2>3. \A r \in {p, q} : \A a \in AuditsTo(r) : a \in Audits
    BY <1>1, AuditsTyped
  <2> QED
    BY <1>1, <2>1, <2>2, <2>3 DEF Basic, RoundsInStep
<1>10. Basic(p)'
  <2>1. GreetingsAreTrue(p)'
    <3>1. \A g \in Greeted(p) : IsTrue(p, g)'
      BY <1>1, <1>4 DEF Basic, GreetingsAreTrue, IsTrue
    <3> QED
      BY <1>6, <3>1 DEF GreetingsAreTrue
  <2>2. OneStranger(p)'
    BY <1>1, <1>4 DEF Basic, OneStranger
  <2>3. PinnedOnce(p)'
    <3>1. series[p].known # "" /\ series[p].known \in {q, "stranger"}
      <4>1. InPlay(p)
        BY <1>3
      <4>2. PinnedOnce(p)
        BY <1>1 DEF Basic
      <4> QED
        BY <4>1, <4>2 DEF PinnedOnce
    <3>2. StrangerIsSpent(p) => StrangerIsSpent(p)'
      BY <1>4 DEF StrangerIsSpent
    <3> QED
      BY <1>1, <1>4, <3>1, <3>2 DEF Basic, PinnedOnce
  <2>4. RoundsInStep(p)'
    <3>1. n1 <= k + 1
      <4>1. n1 = n \/ n1 = n + 1
        BY <1>5
      <4>2. n <= k
        BY <1>3
      <4> QED
        BY <1>2, <4>1, <4>2
    <3>2. \A m \in TurnsTo(p)' : m.round <= n1
      BY <1>2, <1>5, <1>9
    <3>3. \A a \in AuditsTo(p)' : a.round <= n1 /\ a.round <= k
      BY <1>2, <1>5, <1>6, <1>9
    <3>4. series'[p].at \notin Over => Len(series'[p].rows) = n1 - 1
      <4> SUFFICES ASSUME series'[p].at \notin Over
                   PROVE  Len(series'[p].rows) = n1 - 1
        OBVIOUS
      <4>1. n1 = n + 1
        BY <1>5 DEF Over
      <4>2. \A t \in Seq(Rows) : Len(Append(t, row)) = Len(t) + 1
        OBVIOUS
      <4>3. Len(series'[p].rows) = n - 1 + 1
        BY <1>1, <1>3, <1>4, <4>2
      <4>4. n - 1 + 1 = n1 - 1
        BY <1>2, <4>1
      <4> QED
        BY <4>3, <4>4
    <3> QED
      BY <1>4, <1>7, <3>1, <3>2, <3>3, <3>4 DEF RoundsInStep
  <2> QED
    BY <2>1, <2>2, <2>3, <2>4 DEF Basic
<1>11. ASSUME faults' \subseteq {"resend"}
       PROVE  NoLateTurn(p)' /\ NoLateTurn(q)'
  <2>1. NoLateTurn(p) /\ NoLateTurn(q)
    BY <1>1, <1>11 DEF SeriesInvariant
  <2>2. PICK a \in AuditsTo(p) : a.round = n
    BY <1>11
  <2>3. n < k \/ Finishing(q)
    BY <2>1, <2>2 DEF NoLateTurn, Finishing
  <2>4. Finishing(q)' <=> Finishing(q)
    BY <1>4 DEF Finishing
  <2>5. NoLateTurn(p)'
    <3>1. k < n1 => Finishing(q)
      <4>1. CASE n1 = n
        BY <2>1, <4>1 DEF NoLateTurn, Finishing
      <4>2. CASE n1 = n + 1
        BY <1>2, <1>3, <2>3, <4>2
      <4> QED
        BY <1>5, <4>1, <4>2
    <3>2. \A m \in TurnsTo(p)' : m.round = n1
      BY <1>5, <2>1 DEF NoLateTurn
    <3>3. \A x \in AuditsTo(p)' : x.round < k \/ Finishing(q)
      BY <1>6, <2>1 DEF NoLateTurn, Finishing
    <3> QED
      BY <1>4, <2>4, <3>1, <3>2, <3>3 DEF NoLateTurn, Finishing
  <2>6. NoLateTurn(q)'
    <3>1. n1 < k => Finishing(p)'
      <4>1. CASE n1 = n + 1
        <5>1. k <= n + 1
          BY <1>3
        <5>2. ~(n1 < k)
          BY <1>2, <4>1, <5>1
        <5> QED
          BY <5>2
      <4>2. CASE series'[p].at = "ended"
        BY <1>7, <4>2
      <4> QED
        BY <1>5, <4>1, <4>2
    <3>2. \A m \in TurnsTo(q)' : m.round = k
      BY <1>6, <2>1 DEF NoLateTurn
    <3>3. \A x \in AuditsTo(q)' : x.round < n1 \/ Finishing(p)'
      BY <1>2, <1>5, <1>6, <1>7, <1>9
    <3> QED
      BY <1>1, <1>4, <3>1, <3>2, <3>3 DEF NoLateTurn, Finishing
  <2> QED
    BY <2>5, <2>6
<1>12. ASSUME sameTerms', faults' \subseteq {"resend"}
       PROVE  OutcomesTravel(p)' /\ OutcomesTravel(q)'
  <2>1. OutcomesTravel(p) /\ OutcomesTravel(q)
    BY <1>1, <1>12 DEF SeriesInvariant
  <2>2. PICK a \in AuditsTo(p) : a.round = n /\ row = SubGameRow(p, a.claim, "verified")
    BY <1>12
  <2>3. /\ Done(q)' <=> Done(q)
        /\ \A i : DoneWith(q, i)' <=> DoneWith(q, i)
        /\ PlayedRole(q)' = PlayedRole(q)
    BY <1>4 DEF Done, DoneWith, PlayedRole
  <2>4. \A i \in Nat : DoneWith(p, i)' <=> DoneWith(p, i)
    <3> SUFFICES ASSUME NEW i \in Nat
                 PROVE  DoneWith(p, i)' <=> DoneWith(p, i)
      OBVIOUS
    <3>1. DoneWith(p, i) <=> i = n
      BY <1>3 DEF DoneWith
    <3>2. CASE n1 = n + 1 /\ series'[p].at = "greeting"
      <4>1. series'[p].at \in Meeting /\ ~Done(p)'
        BY <1>7, <3>2 DEF Meeting
      <4>2. n1 = i + 1 <=> i = n
        BY <1>2, <3>2
      <4> QED
        BY <3>1, <4>1, <4>2 DEF DoneWith
    <3>3. CASE n1 = n /\ series'[p].at = "ended"
      <4>1. series'[p].at \notin Meeting /\ Done(p)'
        BY <1>7, <3>3 DEF Meeting
      <4> QED
        BY <3>1, <3>3, <4>1 DEF DoneWith
    <3> QED
      BY <1>5, <3>2, <3>3
  <2>5. row.agreement
    <3>1. DoneWith(q, n) /\ a.claim = series[q].outcome
      BY <2>1, <2>2 DEF OutcomesTravel
    <3>2. series[p].outcome = series[q].outcome
      BY <1>3, <2>1, <3>1 DEF OutcomesTravel
    <3> QED
      BY <2>2, <3>1, <3>2 DEF SubGameRow
  <2>6. \A i \in DOMAIN series'[p].rows : series'[p].rows[i].agreement
    <3>1. /\ DOMAIN Append(series[p].rows, row) = 1 .. Len(series[p].rows) + 1
          /\ DOMAIN series[p].rows = 1 .. Len(series[p].rows) /\ Len(series[p].rows) \in Nat
          /\ \A i \in DOMAIN series[p].rows : Append(series[p].rows, row)[i] = series[p].rows[i]
          /\ Append(series[p].rows, row)[Len(series[p].rows) + 1] = row
      BY <1>1, Longer
    <3>2. \A i \in DOMAIN Append(series[p].rows, row) :
            i \in DOMAIN series[p].rows \/ i = Len(series[p].rows) + 1
      BY <3>1
    <3>3. \A i \in DOMAIN series[p].rows : series[p].rows[i].agreement
      BY <2>1 DEF OutcomesTravel
    <3> QED
      BY <1>4, <2>5, <3>1, <3>2, <3>3
  <2>7. OutcomesTravel(p)'
    <3>1. CASE n1 = n + 1 /\ series'[p].at = "greeting" /\ TurnsTo(p)' = {}
      <4>1. \A x \in AuditsTo(p)' : x.round # n1
        BY <1>2, <1>6, <1>9, <3>1
      <4>2. series'[p].at \in Meeting /\ ~Done(p)'
        BY <1>7, <3>1 DEF Meeting
      <4> QED
        BY <2>6, <3>1, <4>1, <4>2 DEF OutcomesTravel
    <3>2. CASE n = SubGames /\ n1 = n /\ series'[p].at = "ended" /\ TurnsTo(p)' = TurnsTo(p)
      <4>1. Len(series'[p].rows) = SubGames
        <5>1. \A t \in Seq(Rows) : Len(Append(t, row)) = Len(t) + 1
          OBVIOUS
        <5>2. Len(series'[p].rows) = n - 1 + 1
          BY <1>1, <1>3, <1>4, <5>1
        <5>3. n - 1 + 1 = SubGames
          BY <1>2, <3>2
        <5> QED
          BY <5>2, <5>3
      <4>2. PlayedRole(p)' = PlayedRole(p)
        BY <3>2 DEF PlayedRole
      <4>3. /\ PlayedRole(p) = "police" => DoneWith(q, n)
            /\ DoneWith(q, n) => series[p].outcome = series[q].outcome
            /\ \A m \in TurnsTo(p) :
                 m.kind = "closing" => DoneWith(q, n) /\ m.outcome = series[q].outcome
            /\ \A x \in AuditsTo(p) :
                 x.round = n => DoneWith(q, n) /\ x.claim = series[q].outcome
        BY <1>3, <2>1 DEF OutcomesTravel
      <4> QED
        <5>1. /\ series'[p].at \notin Meeting => n1 <= k
              /\ series'[p].n = n1 /\ n1 = n /\ series'[p].at = "ended" /\ n1 = SubGames
              /\ series'[p].outcome = series[p].outcome /\ series'[q] = series[q]
          BY <1>3, <1>4, <3>2
        <5>2. /\ \A m \in TurnsTo(p)' :
                   m.kind = "closing" => DoneWith(q, n1)' /\ m.outcome = series'[q].outcome
              /\ \A x \in AuditsTo(p)' :
                   x.round = n1 => DoneWith(q, n1)' /\ x.claim = series'[q].outcome
              /\ PlayedRole(p)' = "police" => DoneWith(q, n1)'
              /\ DoneWith(q, n1)' => series'[p].outcome = series'[q].outcome
          BY <1>6, <2>3, <3>2, <4>2, <4>3, <5>1
        <5> QED
          BY <2>6, <4>1, <5>1, <5>2 DEF OutcomesTravel
    <3> QED
      BY <1>5, <3>1, <3>2
  <2>8. OutcomesTravel(q)'
    <3>1. series[q].at \notin Meeting => k <= n1
      <4>1. series[q].at \notin Meeting => k <= n
        BY <1>1, <2>1 DEF OutcomesTravel
      <4> QED
        BY <1>2, <1>5, <4>1
    <3>2. DoneWith(p, k)' <=> DoneWith(p, k)
      BY <1>2, <2>4
    <3> QED
      BY <1>1, <1>4, <1>6, <2>1, <2>3, <3>1, <3>2, SMTT(60) DEF OutcomesTravel
  <2> QED
    BY <2>7, <2>8
<1> QED
  BY <1>4, <1>8, <1>10, <1>11, <1>12, BothHold

(* Whoever waits for an audit has a row to write. *)
LEMMA RowTypes ==
  ASSUME SeriesTypeOK, NEW p \in Peer, NEW claim \in Terminals,
         NEW status \in {"verified", "unverified", "no_audit"}
  PROVE  SubGameRow(p, claim, status) \in Rows
<1>1. series[p].outcome \in Terminals
  BY PeerTypes
<1> QED
  BY <1>1 DEF SubGameRow, Rows

LEMMA AuditSettles ==
  ASSUME SeriesInvariant, NEW p \in Peer, series[p].at = "auditing", NEW a \in AuditsTo(p),
         a.round = series[p].n, NEW rest \in Seq(Audits), NEW pending, pending \subseteq Audits,
         Settles(p, SubGameRow(p, a.claim, verify_audit(p, a)), rest, pending),
         Boxes!ToSet(rest) \cup pending \subseteq AuditsTo(p),
         UNCHANGED <<sameTerms, faults>>
  PROVE  SeriesInvariant'
<1>1. SeriesTypeOK /\ faults' \subseteq PossibleFaults
  BY DEF SeriesInvariant, SeriesTypeOK
<1>2. a.claim \in Terminals
  BY <1>1, AuditsTyped DEF Audits
<1>3. PICK row \in Rows : /\ row = SubGameRow(p, a.claim, "verified")
                          /\ Settles(p, row, rest, pending)
  <2>1. verify_audit(p, a) = "verified"
    BY DEF verify_audit
  <2>2. SubGameRow(p, a.claim, "verified") \in Rows
    BY <1>1, <1>2, RowTypes
  <2> QED
    BY <2>1, <2>2
<1> QED
  BY <1>1, <1>3, SettlingKeeps

LEMMA AuditKeeps ==
  ASSUME SeriesInvariant, NEW p \in Peer, AwaitAudit(p)
  PROVE  SeriesInvariant'
<1> DEFINE q == Rival[p]
           box == queues[p].audit
           pending == series[p].audit_pending
           mine == {a \in pending : a.round = series[p].n}
<1>1. /\ q \in Peer /\ SeriesTypeOK /\ series[p].n \in Rounds /\ queues \in [Peer -> Mail]
      /\ box \in Seq(Audits) /\ pending \subseteq Audits /\ faults \subseteq PossibleFaults
      /\ queues[p] \in Mail /\ series[p] \in PeerStates /\ series \in [Peer -> PeerStates]
      /\ Len(series[p].rows) \in {series[p].n - 1, series[p].n}
  BY TwoPeers, PeerTypes, MailStays DEF SeriesInvariant, SeriesTypeOK, PeerStates
<1>2. /\ series[p].at = "auditing" /\ sameTerms' = sameTerms /\ faults' = faults
      /\ \/ \E a \in mine :
              Settles(p, SubGameRow(p, a.claim, verify_audit(p, a)), box, pending \ {a})
         \/ /\ box # <<>> /\ Head(box).round = series[p].n
            /\ Settles(p, SubGameRow(p, Head(box).claim, verify_audit(p, Head(box))), Tail(box),
                       pending)
         \/ /\ box # <<>>
            /\ series' = [series EXCEPT ![p].audit_pending = Stashed(@, Head(box))]
            /\ queues' = [queues EXCEPT ![p].audit = Tail(@)]
  BY DEF AwaitAudit, IsMatching
<1>3. CASE \E a \in mine :
             Settles(p, SubGameRow(p, a.claim, verify_audit(p, a)), box, pending \ {a})
  <2>1. PICK a \in mine :
          Settles(p, SubGameRow(p, a.claim, verify_audit(p, a)), box, pending \ {a})
    BY <1>3
  <2>2. /\ a \in AuditsTo(p) /\ a.round = series[p].n /\ pending \ {a} \subseteq Audits
        /\ Boxes!ToSet(box) \cup (pending \ {a}) \subseteq AuditsTo(p)
    BY <1>1 DEF AuditsTo
  <2> QED
    BY <1>1, <1>2, <2>1, <2>2, AuditSettles
<1>4. CASE /\ box # <<>> /\ Head(box).round = series[p].n
           /\ Settles(p, SubGameRow(p, Head(box).claim, verify_audit(p, Head(box))), Tail(box),
                      pending)
  <2>1. /\ Head(box) \in AuditsTo(p) /\ Tail(box) \in Seq(Audits)
        /\ Boxes!ToSet(Tail(box)) \cup pending \subseteq AuditsTo(p)
    BY <1>1, <1>4, Shorter DEF AuditsTo
  <2>2. PICK a \in AuditsTo(p) : a = Head(box)
    BY <2>1
  <2>3. PICK rest \in Seq(Audits) : rest = Tail(box)
    BY <2>1
  <2>4. /\ a.round = series[p].n
        /\ Settles(p, SubGameRow(p, a.claim, verify_audit(p, a)), rest, pending)
        /\ Boxes!ToSet(rest) \cup pending \subseteq AuditsTo(p)
    BY <1>4, <2>1, <2>2, <2>3
  <2> QED
    BY <1>1, <1>2, <2>4, AuditSettles
<1>5. CASE /\ box # <<>>
           /\ series' = [series EXCEPT ![p].audit_pending = Stashed(@, Head(box))]
           /\ queues' = [queues EXCEPT ![p].audit = Tail(@)]
  <2>1. PICK a \in Audits : a = Head(box)
    BY <1>1, <1>5, Shorter
  <2>2. PICK rest \in Seq(Audits) : rest = Tail(box)
    BY <1>1, <1>5, Shorter
  <2>3. Boxes!ToSet(rest) \subseteq Boxes!ToSet(box) /\ a \in Boxes!ToSet(box)
    BY <1>1, <1>5, <2>1, <2>2, Shorter
  <2>4. Stashed(pending, a) \subseteq pending \cup {a} /\ Stashed(pending, a) \subseteq Audits
    BY <1>1 DEF Stashed
  <2> DEFINE s == [series[p] EXCEPT !.audit_pending = Stashed(pending, a)]
             b == [queues[p] EXCEPT !.audit = rest]
  <2>5. /\ s \in PeerStates /\ s.at = series[p].at /\ s.n = series[p].n
        /\ s.known = series[p].known /\ s.outcome = series[p].outcome /\ s.rows = series[p].rows
        /\ s.negotiate_pending = series[p].negotiate_pending
        /\ s.audit_pending = Stashed(pending, a)
    BY <1>1, <2>4 DEF PeerStates
  <2>6. /\ b \in Mail /\ b.negotiate = queues[p].negotiate /\ b.turn = queues[p].turn
        /\ b.audit = rest
    BY <1>1 DEF Mail
  <2>7. series' = [series EXCEPT ![p] = s] /\ queues' = [queues EXCEPT ![p] = b]
    BY <1>1, <1>5, <2>1, <2>2
  <2> HIDE DEF s, b
  <2>8. queues' \in [Peer -> Mail] /\ queues'[p] = b /\ queues'[q] = queues[q]
    BY <1>1, <2>6, <2>7, MailMoves
  <2>9. SeriesTypeOK' /\ series'[p] = s /\ series'[q] = series[q]
    BY <1>1, <1>2, <2>5, <2>7, <2>8, PeerMoves
  <2>10. /\ Greeted(p)' = Greeted(p) /\ TurnsTo(p)' = TurnsTo(p)
         /\ AuditsTo(p)' \subseteq AuditsTo(p)
    BY <2>3, <2>4, <2>5, <2>6, <2>8, <2>9 DEF Greeted, TurnsTo, AuditsTo
  <2>11. /\ InPlay(p)' <=> InPlay(p)
         /\ Done(p)' <=> Done(p)
         /\ Finishing(p)' <=> Finishing(p)
         /\ series[p].at \notin Over /\ series[p].at \notin Meeting
         /\ series'[p].at = series[p].at
    BY <1>2, <2>5, <2>9 DEF InPlay, Done, Finishing, Over, Meeting
  <2>12. Basic(q)'
    <3>1. series'[p].n = series[p].n
      BY <2>5, <2>9
    <3>2. series[p].n <= series'[p].n
      BY <1>1, <3>1, RoundNumbers
    <3> QED
      BY <1>1, <1>2, <2>8, <2>9, <3>2, OtherKept
  <2>13. InPlay(p)' => series[p].n <= series[q].n
    BY <2>11 DEF SeriesInvariant, RoundsInStep
  <2>14. Basic(p)'
    BY <1>1, <1>2, <2>5, <2>6, <2>8, <2>9, <2>10, <2>11, <2>13, MineKept, StrangersStay DEF Basic
  <2>15. faults' \subseteq {"resend"} => NoLateTurn(p)' /\ NoLateTurn(q)'
    BY <1>1, <1>2, <2>5, <2>8, <2>9, <2>10, <2>11, LateKept
  <2>16. sameTerms' /\ faults' \subseteq {"resend"} => OutcomesTravel(p)' /\ OutcomesTravel(q)'
    BY <1>1, <1>2, <2>5, <2>8, <2>9, <2>10, <2>11, OutcomesKept, ZenonT(60)
  <2> QED
    BY <2>9, <2>12, <2>14, <2>15, <2>16, BothHold
<1> QED
  BY <1>2, <1>3, <1>4, <1>5

LEMMA TimeoutKeeps ==
  ASSUME SeriesInvariant, NEW p \in Peer, TimesOut(p)
  PROVE  SeriesInvariant'
<1>1. /\ SeriesTypeOK /\ series[p].audit_pending \subseteq Audits
      /\ queues[p].audit \in Seq(Audits) /\ sameTerms' = sameTerms
      /\ faults \subseteq faults' /\ faults' \subseteq PossibleFaults /\ "timeout" \in faults'
  BY PeerTypes DEF SeriesInvariant, SeriesTypeOK, TimesOut
<1>2. ~(faults' \subseteq {"resend"})
  BY <1>1
<1>3. \/ Goes(p, "ended") /\ queues' = queues
      \/ Goes(p, "failed") /\ queues' = queues
      \/ /\ series[p].at = "auditing"
         /\ Settles(p, SubGameRow(p, "", "no_audit"), queues[p].audit, series[p].audit_pending)
  BY DEF TimesOut
<1>4. ASSUME NEW place \in Over, Goes(p, place), queues' = queues
      PROVE  SeriesInvariant'
  BY <1>1, <1>2, <1>4, GivesUp
<1>5. CASE /\ series[p].at = "auditing"
           /\ Settles(p, SubGameRow(p, "", "no_audit"), queues[p].audit, series[p].audit_pending)
  <2>1. PICK row \in Rows : row = SubGameRow(p, "", "no_audit")
    BY <1>1, RowTypes DEF Terminals
  <2>2. Boxes!ToSet(queues[p].audit) \cup series[p].audit_pending \subseteq AuditsTo(p)
    BY DEF AuditsTo
  <2> QED
    BY <1>1, <1>2, <1>5, <2>1, <2>2, SettlingKeeps
<1> QED
  BY <1>3, <1>4, <1>5 DEF Over

-----------------------------------------------------------------------------
(* The invariant of a series. *)

LEMMA SeriesBegins == SeriesInit => SeriesInvariant
<1> SUFFICES ASSUME SeriesInit
             PROVE  SeriesInvariant
  OBVIOUS
<1>1. \A p \in Peer :
        /\ series[p].n = 1 /\ series[p].at = "greeting" /\ series[p].known = ""
        /\ series[p].rows = <<>> /\ series[p].negotiate_pending = {}
        /\ series[p].audit_pending = {}
        /\ queues[p].negotiate = <<>> /\ queues[p].turn = <<>> /\ queues[p].audit = <<>>
  BY DEF SeriesInit
<1>2. SeriesTypeOK
  <2>1. series \in [Peer -> PeerStates]
    <3>1. [n |-> 1, at |-> "greeting", sent |-> FALSE, known |-> "", outcome |-> "", rows |-> <<>>,
           negotiate_pending |-> {}, audit_pending |-> {}] \in PeerStates
      BY RoundNumbers DEF PeerStates, Calls, Terminals
    <3> QED
      BY <3>1 DEF SeriesInit
  <2>2. queues \in [Peer -> Mail]
    <3>1. [negotiate |-> <<>>, turn |-> <<>>, audit |-> <<>>] \in Mail
      BY NothingQueued DEF Mail
    <3> QED
      BY <3>1 DEF SeriesInit
  <2>3. \A p \in Peer : Len(series[p].rows) \in {series[p].n - 1, series[p].n}
    <3>1. 1 - 1 = 0
      OBVIOUS
    <3> QED
      BY <1>1, <3>1, NothingQueued
  <2>4. sameTerms \in BOOLEAN /\ faults = {}
    BY DEF SeriesInit
  <2> QED
    BY <2>1, <2>2, <2>3, <2>4 DEF SeriesTypeOK, PeerStates, Mail
<1>3. ASSUME NEW p \in Peer
      PROVE  Basic(p) /\ NoLateTurn(p) /\ OutcomesTravel(p)
  <2>1. /\ Rival[p] \in Peer /\ series[Rival[p]].n = 1 /\ series[Rival[p]].at = "greeting"
    BY <1>1, TwoPeers
  <2>2. /\ Greeted(p) = {} /\ TurnsTo(p) = {} /\ AuditsTo(p) = {}
    BY <1>1, NothingQueued DEF Greeted, TurnsTo, AuditsTo
  <2>3. /\ ~InPlay(p) /\ ~Done(p) /\ series[p].at \in Meeting /\ series[p].at \notin Over
        /\ Len(series[p].rows) = 0 /\ DOMAIN series[p].rows = {}
        /\ DOMAIN queues[p].negotiate = {}
    BY <1>1, NothingQueued DEF InPlay, Done, Meeting, Over
  <2>4. Basic(p)
    <3>1. GreetingsAreTrue(p)
      BY <2>2 DEF GreetingsAreTrue
    <3>2. OneStranger(p)
      BY <1>1, <2>3 DEF OneStranger
    <3>3. PinnedOnce(p)
      BY <1>1, <2>3 DEF PinnedOnce
    <3>4. 1 <= 1 + 1 /\ 1 - 1 = 0
      OBVIOUS
    <3>5. RoundsInStep(p)
      BY <1>1, <2>1, <2>2, <2>3, <3>4, Zenon DEF RoundsInStep
    <3> QED
      BY <3>1, <3>2, <3>3, <3>5 DEF Basic
  <2>5. NoLateTurn(p)
    <3>1. ~(1 < 1)
      OBVIOUS
    <3> QED
      BY <1>1, <2>1, <2>2, <3>1, Zenon DEF NoLateTurn
  <2>6. OutcomesTravel(p)
    <3>1. series[p].at # "failed" /\ series[p].at # "ended"
      BY <1>1
    <3> QED
      BY <2>2, <2>3, <3>1 DEF OutcomesTravel
  <2> QED
    BY <2>4, <2>5, <2>6
<1> QED
  BY <1>2, <1>3 DEF SeriesInvariant, Basic

LEMMA SeriesStays ==
  ASSUME SeriesInvariant, UNCHANGED seriesVars
  PROVE  SeriesInvariant'
<1>1. series' = series /\ queues' = queues /\ sameTerms' = sameTerms /\ faults' = faults
  BY DEF seriesVars
<1>2. Unmoved
  BY <1>1 DEF Unmoved
<1>3. SeriesTypeOK'
  BY <1>1 DEF SeriesInvariant, SeriesTypeOK
<1>4. ASSUME NEW p \in Peer
      PROVE  /\ Basic(p)'
             /\ faults' \subseteq {"resend"} => NoLateTurn(p)'
             /\ sameTerms' /\ faults' \subseteq {"resend"} => OutcomesTravel(p)'
  BY <1>1, <1>2, NothingArrived
<1> QED
  BY <1>3, <1>4 DEF SeriesInvariant, Basic

LEMMA SeriesKeeps ==
  ASSUME SeriesInvariant, [SeriesNext]_seriesVars
  PROVE  SeriesInvariant'
<1>1. ASSUME NEW p \in Peer, Call(p) \/ Resend(p)
      PROVE  SeriesInvariant'
  BY <1>1, CallKeeps
<1>2. ASSUME NEW p \in Peer, CallFails(p)
      PROVE  SeriesInvariant'
  <2>1. /\ Goes(p, "failed") /\ queues' = queues /\ sameTerms' = sameTerms
        /\ faults \subseteq faults' /\ "failure" \in faults'
    BY <1>2 DEF CallFails, Happens
  <2>2. faults' \subseteq PossibleFaults
    BY <1>2 DEF CallFails, Happens, SeriesInvariant, SeriesTypeOK
  <2>3. ~(faults' \subseteq {"resend"}) /\ "failed" \in Over
    BY <2>1 DEF Over
  <2> QED
    BY <2>1, <2>2, <2>3, GivesUp
<1>3. CASE UNCHANGED seriesVars
  BY <1>3, SeriesStays
<1> QED
  BY <1>1, <1>2, <1>3, ReturnKeeps, NegotiateKeeps, PlayKeeps, AuditKeeps, TimeoutKeeps,
     StrangerKeeps DEF SeriesNext, PeerStep

LEMMA PeersMove ==
  ASSUME SeriesTypeOK, NEW p \in Peer, NEW r \in Peer,
         PeerStep(r) \/ Resend(r) \/ CallFails(r) \/ StrangerGreets(r)
  PROVE  /\ series'[p].n # series[p].n => series'[p].n = series[p].n + 1
         /\ series[p].known # "" => series'[p].known = series[p].known
<1>1. series \in [Peer -> PeerStates]
  BY DEF SeriesTypeOK, PeerStates
<1>2. ASSUME NEW place, Goes(r, place)
      PROVE  series'[p].n = series[p].n /\ series'[p].known = series[p].known
  BY <1>1, <1>2 DEF Goes, PeerStates
<1>3. ASSUME NEW x, NEW rest, Judges(r, x, rest)
      PROVE  /\ series'[p].n = series[p].n
             /\ series[p].known # "" => series'[p].known = series[p].known
  <2>1. CASE SameOpponent(r, x) /\ Pinned(r, x, rest)
    BY <1>1, <2>1 DEF SameOpponent, Pinned, PeerStates
  <2>2. CASE series' = [series EXCEPT ![r].negotiate_pending = rest]
    BY <1>1, <2>2 DEF PeerStates
  <2>3. CASE series' = [series EXCEPT ![r].negotiate_pending = rest, ![r].at = "ended"]
    BY <1>1, <2>3 DEF PeerStates
  <2> QED
    BY <1>3, <2>1, <2>2, <2>3 DEF Judges
<1>4. ASSUME NEW row, NEW rest, NEW pending, Settles(r, row, rest, pending)
      PROVE  /\ series'[p].n # series[p].n => series'[p].n = series[p].n + 1
             /\ series'[p].known = series[p].known
  BY <1>1, <1>4, ZenonT(60) DEF Settles, PeerStates
<1>5. CASE Call(r) \/ Resend(r) \/ Returns(r) \/ CallFails(r) \/ StrangerGreets(r)
  <2>1. CASE series' = [series EXCEPT ![r].sent = TRUE]
    BY <1>1, <2>1 DEF PeerStates
  <2>2. CASE series' = [series EXCEPT ![r].at = AfterCall[@], ![r].sent = FALSE]
    BY <1>1, <2>2 DEF PeerStates
  <2>3. CASE series' = series
    BY <2>3
  <2> QED
    BY <1>2, <1>5, <2>1, <2>2, <2>3 DEF Call, Resend, Returns, CallFails, StrangerGreets
<1>6. CASE Negotiate(r)
  <2>1. ASSUME NEW pending, series' = [series EXCEPT ![r].negotiate_pending = pending]
        PROVE  series'[p].n = series[p].n /\ series'[p].known = series[p].known
    BY <1>1, <2>1 DEF PeerStates
  <2> QED
    BY <1>3, <1>6, <2>1 DEF Negotiate
<1>7. CASE Play(r)
  <2>1. ASSUME NEW outcome, NEW place,
               series' = [series EXCEPT ![r].outcome = outcome, ![r].at = place]
        PROVE  series'[p].n = series[p].n /\ series'[p].known = series[p].known
    BY <1>1, <2>1 DEF PeerStates
  <2>2. \/ \E place : Goes(r, place)
        \/ \E outcome, place : series' = [series EXCEPT ![r].outcome = outcome, ![r].at = place]
    BY <1>7 DEF Play
  <2> QED
    BY <1>2, <2>1, <2>2
<1>8. CASE AwaitAudit(r)
  <2>1. ASSUME NEW pending, series' = [series EXCEPT ![r].audit_pending = pending]
        PROVE  series'[p].n = series[p].n /\ series'[p].known = series[p].known
    BY <1>1, <2>1 DEF PeerStates
  <2> QED
    BY <1>4, <1>8, <2>1 DEF AwaitAudit
<1>9. CASE TimesOut(r)
  BY <1>2, <1>4, <1>9 DEF TimesOut
<1> QED
  BY <1>5, <1>6, <1>7, <1>8, <1>9 DEF PeerStep

-----------------------------------------------------------------------------
(* The theorems. *)

(* Whatever is sent twice, lost, given up or sent by somebody else: what is *)
(* on its way or stashed says how far its sender has come, the peers are at *)
(* most a round apart, and nobody plays a round its opponent is not in      *)
(* (run_series over the queues of PeerServer).                              *)
THEOREM SeriesSafe == SeriesSpec => []SeriesInvariant
<1>1. SeriesInvariant /\ [SeriesNext]_seriesVars => SeriesInvariant'
  BY SeriesKeeps
<1> QED
  BY <1>1, SeriesBegins, PTL DEF SeriesSpec

(* With the same terms and as long as no wait runs out, no call fails and   *)
(* nobody else greets, a peer whose series is over has one row for each     *)
(* sub-game and both sides' audits agree in all of them (run_series and its *)
(* SubGameRows), whatever is sent twice.                                    *)
THEOREM SeriesAgrees == SeriesSpec => []RowsAgree
<1>1. SeriesInvariant => RowsAgree
  <2> SUFFICES ASSUME SeriesInvariant, sameTerms, faults \subseteq {"resend"},
                      NEW p \in Peer, IsOver(p)
               PROVE  Settled(p)
    BY DEF RowsAgree
  <2>1. OutcomesTravel(p)
    BY DEF SeriesInvariant
  <2>2. /\ Len(series[p].rows) = SubGames
        /\ \A i \in DOMAIN series[p].rows : series[p].rows[i].agreement
    BY <2>1 DEF OutcomesTravel, IsOver
  <2>3. DOMAIN series[p].rows = Rounds
    <3>1. series[p].rows \in Seq(Rows)
      BY PeerTypes DEF SeriesInvariant
    <3> QED
      BY <2>2, <3>1 DEF Rounds
  <2> QED
    BY <2>2, <2>3 DEF Settled
<1> QED
  BY <1>1, SeriesSafe, PTL

(* The rounds of the two peers stay apart, and the opponent of a series is  *)
(* one opponent (expect_opponent, the SPAR-N10 buffer and the drain of      *)
(* run_series).                                                             *)
THEOREM SeriesInRounds == SeriesSpec => RoundsStayApart
<1>1. SeriesInvariant =>
        \A p \in Peer : faults \subseteq {"resend"} /\ series[p].at = "playing"
                        /\ queues[p].turn # <<>> => ~Stray(p)
  <2> SUFFICES ASSUME SeriesInvariant, NEW p \in Peer, faults \subseteq {"resend"},
                      queues[p].turn # <<>>
               PROVE  ~Stray(p)
    OBVIOUS
  <2>1. queues[p].turn \in Seq(Turns)
    BY PeerTypes DEF SeriesInvariant
  <2>2. Head(queues[p].turn) \in TurnsTo(p)
    BY <2>1, Shorter DEF TurnsTo
  <2> QED
    BY <2>2 DEF SeriesInvariant, NoLateTurn, Stray
<1>2. SeriesInvariant /\ [SeriesNext]_seriesVars =>
        [\A p \in Peer : series'[p].n # series[p].n
           => \A i \in DOMAIN queues[p].turn : queues[p].turn[i].round # series'[p].n]_seriesVars
  <2> SUFFICES ASSUME SeriesInvariant, SeriesNext, NEW p \in Peer,
                      series'[p].n # series[p].n, NEW i \in DOMAIN queues[p].turn
               PROVE  queues[p].turn[i].round # series'[p].n
    OBVIOUS
  <2>1. series[p].n \in Rounds /\ queues[p].turn[i].round <= series[p].n
        /\ queues[p].turn[i].round \in Rounds
    <3>1. queues[p].turn[i] \in TurnsTo(p)
      BY DEF TurnsTo, Boxes!ToSet
    <3>2. queues[p].turn[i] \in Turns
      <4>1. queues[p].turn \in Seq(Turns)
        BY PeerTypes DEF SeriesInvariant
      <4> QED
        BY <4>1
    <3> QED
      BY <3>1, <3>2, PeerTypes DEF SeriesInvariant, RoundsInStep, Turns
  <2>2. series'[p].n = series[p].n + 1
    <3>1. PICK r \in Peer : PeerStep(r) \/ Resend(r) \/ CallFails(r) \/ StrangerGreets(r)
      BY DEF SeriesNext
    <3> QED
      BY <3>1, PeersMove DEF SeriesInvariant
  <2> QED
    BY <2>1, <2>2, RoundNumbers
<1>3. SeriesInvariant /\ [SeriesNext]_seriesVars =>
        [\A p \in Peer : series[p].known # "" => series'[p].known = series[p].known]_seriesVars
  BY PeersMove DEF SeriesInvariant, SeriesNext
<1> QED
  BY <1>1, <1>2, <1>3, SeriesSafe, PTL DEF SeriesSpec, RoundsStayApart
=============================================================================
