--------------------------- MODULE MessagesProofs ---------------------------
(* Proofs about Channel, for every set of callers and every policy of the   *)
(* gatekeeper, about Intake, for every number of turns and depth of the     *)
(* registry, and about Inbox, for every stream and window.                  *)
EXTENDS MessagesInvariant, SequenceTheorems, FiniteSetTheorems, NaturalsInduction,
        WellFoundedInduction, TLAPS

(* One peer's way out, whatever the opponent and the session do. *)
ChannelSpec == ChannelInit /\ [][ChannelNext]_channelVars

(* One peer's intake, whatever reaches it and whenever. *)
IntakeSpec == IntakeInit /\ [][IntakeNext]_intakeVars

-----------------------------------------------------------------------------
(* The channel: sets of callers, and what an attempt may do to one of them. *)

LEMMA ChannelNumbers ==
  /\ MaxAttempts \in Nat /\ MaxAttempts > 0 /\ MaxRestarts \in Nat
  /\ ConcurrentRequests \in Nat /\ QueueDepth \in Nat /\ Cost \in Nat /\ Cost > 0
  /\ Backoff \in Nat /\ Capacity \in Nat /\ Cardinality(Caller) \in Nat
  /\ \A c \in Caller : c \notin Prober
BY ChannelAssumption, FS_CardinalityType, FS_Subset

LEMMA SetsOfCallers ==
  ASSUME NEW S, S \subseteq Caller
  PROVE  /\ IsFiniteSet(S)
         /\ Cardinality(S) \in Nat /\ Cardinality(S) <= Cardinality(Caller)
<1>1. IsFiniteSet(Caller)
  BY ChannelAssumption, FS_Subset
<1> QED
  BY <1>1, FS_Subset, FS_CardinalityType

LEMMA OneCallerMore ==
  ASSUME NEW S, S \subseteq Caller, NEW c \in Caller, c \notin S
  PROVE  /\ Cardinality(S \cup {c}) = Cardinality(S) + 1
         /\ Cardinality(S) < Cardinality(Caller)
<1>1. Cardinality(S \cup {c}) = Cardinality(S) + 1
  BY SetsOfCallers, FS_AddElement
<1>2. S \cup {c} \subseteq Caller
  OBVIOUS
<1>3. Cardinality(S \cup {c}) <= Cardinality(Caller)
  BY <1>2, SetsOfCallers
<1> QED
  BY <1>1, <1>3, SetsOfCallers, ChannelNumbers

LEMMA OneCallerLess ==
  ASSUME NEW S, S \subseteq Caller, NEW c \in S
  PROVE  Cardinality(S \ {c}) = Cardinality(S) - 1 /\ Cardinality(S) > 0
<1>1. Cardinality(S \ {c}) = Cardinality(S) - 1 /\ Cardinality(S \ {c}) \in Nat /\ Cardinality(S) \in Nat
  BY SetsOfCallers, FS_RemoveElement
<1> QED
  BY <1>1

LEMMA Products ==
  \A x, y \in Nat : x * y \in Nat /\ x * y = y * x
OBVIOUS

(* Slots, when one is taken, given back, or given back with others. *)
LEMMA SlotTaken ==
  ASSUME SlotsAreHeld, in_flight < ConcurrentRequests, in_flight' = in_flight + 1,
         NEW c \in Caller, c \notin Holders, Holders' = Holders \cup {c}
  PROVE  SlotsAreHeld' /\ in_flight' \in 0 .. Cardinality(Caller)
<1>1. Holders \subseteq Caller
  BY DEF Holders
<1>2. in_flight = Cardinality(Holders) /\ Cardinality(Holders) \in Nat
  BY <1>1, SetsOfCallers DEF SlotsAreHeld, Holders
<1>3. Cardinality(Holders') = Cardinality(Holders) + 1 /\ Cardinality(Holders) < Cardinality(Caller)
  BY <1>1, OneCallerMore
<1>4. in_flight' = Cardinality(Holders') /\ in_flight' <= ConcurrentRequests
      /\ in_flight' \in 0 .. Cardinality(Caller)
  BY <1>2, <1>3, ChannelNumbers
<1> QED
  BY <1>4 DEF SlotsAreHeld, Holders

LEMMA SlotReleased ==
  ASSUME SlotsAreHeld, NEW c, Release(c), Holders' = Holders \ {c}
  PROVE  SlotsAreHeld' /\ in_flight' \in 0 .. Cardinality(Caller)
<1>1. Holders \subseteq Caller
  BY DEF Holders
<1>2. in_flight = Cardinality(Holders) /\ Cardinality(Holders) \in Nat
      /\ Cardinality(Holders) <= Cardinality(Caller) /\ in_flight <= ConcurrentRequests
  BY <1>1, SetsOfCallers DEF SlotsAreHeld, Holders
<1>3. HoldsSlot(c) <=> c \in Holders
  BY DEF Holders, HoldsSlot
<1>4. CASE c \in Holders
  <2>1. Cardinality(Holders') = Cardinality(Holders) - 1 /\ Cardinality(Holders) > 0
    BY <1>1, <1>4, OneCallerLess
  <2>2. in_flight' = in_flight - 1
    BY <1>2, <1>3, <1>4, <2>1 DEF Release
  <2>3. in_flight' = Cardinality(Holders') /\ in_flight' <= ConcurrentRequests
        /\ in_flight' \in 0 .. Cardinality(Caller)
    BY <1>2, <2>1, <2>2, ChannelNumbers
  <2> QED
    BY <2>3 DEF SlotsAreHeld, Holders
<1>5. CASE c \notin Holders
  <2>1. Holders' = Holders
    BY <1>5
  <2>2. in_flight' = in_flight
    BY <1>3, <1>5 DEF Release
  <2>3. in_flight' = Cardinality(Holders') /\ in_flight' <= ConcurrentRequests
        /\ in_flight' \in 0 .. Cardinality(Caller)
    BY <1>2, <2>1, <2>2, ChannelNumbers
  <2> QED
    BY <2>3 DEF SlotsAreHeld, Holders
<1> QED
  BY <1>4, <1>5

LEMMA SlotsReleased ==
  ASSUME SlotsAreHeld, NEW S, S \subseteq Holders,
         in_flight' = in_flight - Cardinality(S), Holders' = Holders \ S
  PROVE  SlotsAreHeld' /\ in_flight' \in 0 .. Cardinality(Caller)
<1>1. Holders \subseteq Caller /\ S \subseteq Caller /\ Holders \cap S = S /\ Holders \ S \subseteq Caller
  BY DEF Holders
<1>2. in_flight = Cardinality(Holders) /\ Cardinality(Holders) \in Nat /\ Cardinality(S) \in Nat
      /\ Cardinality(Holders) <= Cardinality(Caller) /\ in_flight <= ConcurrentRequests
      /\ Cardinality(Holders \ S) \in Nat /\ IsFiniteSet(Holders)
  BY <1>1, SetsOfCallers DEF SlotsAreHeld, Holders
<1>3. Cardinality(Holders \ S) = Cardinality(Holders) - Cardinality(S)
  BY <1>1, <1>2, FS_Difference
<1>4. in_flight' = Cardinality(Holders') /\ in_flight' <= ConcurrentRequests
      /\ in_flight' \in 0 .. Cardinality(Caller)
  BY <1>2, <1>3, ChannelNumbers
<1> QED
  BY <1>4 DEF SlotsAreHeld, Holders

LEMMA SlotsStay ==
  ASSUME ChannelTypeOK, SlotsAreHeld, UNCHANGED in_flight, Holders' = Holders
  PROVE  SlotsAreHeld' /\ in_flight' \in 0 .. Cardinality(Caller)
BY DEF ChannelTypeOK, SlotsAreHeld, Holders

(* Refills, when nothing of one's own changes but the place.                *)
LEMMA RefillStays ==
  ASSUME RefillKeepsUp, UNCHANGED <<attempt, sleep, tokens>>, Spenders' = Spenders,
         \A c \in Caller : awaiting'[c] = "backoff" => awaiting[c] = "backoff"
  PROVE  RefillKeepsUp'
BY DEF RefillKeepsUp, Refilled, Provided

(* Whoever may try has an attempt left. *)
LEMMA AttemptLeft ==
  ASSUME ChannelTypeOK, PlacesFit, NEW c \in Caller \cup Prober, MayTry(c)
  PROVE  /\ attempt[c] \in Nat /\ attempt[c] < MaxAttempts
         /\ awaiting[c] = "idle" \/ (c \in Caller /\ awaiting[c] = "backoff")
         /\ c \notin Holders /\ c \notin Spenders
<1>1. attempt[c] \in 0 .. MaxAttempts
  BY DEF ChannelTypeOK
<1>2. awaiting[c] = "idle" => attempt[c] = 0
  BY DEF PlacesFit
<1>3. awaiting[c] = "backoff" => c \in Caller /\ attempt[c] < MaxAttempts
  BY DEF PlacesFit
<1>4. awaiting[c] = "idle" \/ awaiting[c] = "backoff"
  BY DEF MayTry
<1> QED
  BY <1>1, <1>2, <1>3, <1>4, ChannelNumbers DEF Holders, HoldsSlot, Spenders

(* Handing a request over keeps the types.                                  *)
LEMMA HandedOver ==
  ASSUME ChannelTypeOK, PlacesFit, NEW c \in Caller \cup Prober, MayTry(c),
         HandOver(c)
  PROVE  /\ requests' \in Seq(Request)
         /\ awaiting' \in [Caller \cup Prober -> Places]
         /\ \A d \in Caller \cup Prober : d # c => awaiting'[d] = awaiting[d]
         /\ awaiting'[c] = IF workerTask = "given_up" THEN "opening" ELSE "future"
<1>1. attempt[c] + 1 \in 1 .. MaxAttempts
  BY AttemptLeft, ChannelNumbers
<1>2. [from |-> c, attempt |-> attempt[c] + 1] \in Request
  BY <1>1 DEF Request
<1>3. requests \in Seq(Request) /\ awaiting \in [Caller \cup Prober -> Places]
  BY DEF ChannelTypeOK
<1>4. Append(requests, [from |-> c, attempt |-> attempt[c] + 1]) \in Seq(Request)
  BY <1>2, <1>3, AppendProperties
<1>5. "opening" \in Places /\ "future" \in Places
  BY DEF Places
<1> QED
  BY <1>3, <1>4, <1>5 DEF HandOver

LEMMA AdmitKeeps ==
  ASSUME ChannelInvariant, NEW c \in Caller \cup Prober, Admit(c)
  PROVE  ChannelInvariant'
<1> USE DEF ChannelInvariant
<1>1. /\ c \in Caller /\ MayTry(c) /\ ~Refuses
      /\ tokens' = tokens - Cost /\ in_flight' = in_flight + 1
      /\ attempt' = [attempt EXCEPT ![c] = @ + 1] /\ HandOver(c)
      /\ UNCHANGED <<sleep, workerTask, restarts, serving, healthy>>
  BY DEF Admit
<1>2. tokens \in Nat /\ tokens <= Capacity /\ tokens >= Cost /\ in_flight < ConcurrentRequests
  BY <1>1, ChannelNumbers DEF Refuses, ChannelTypeOK
<1>3. /\ attempt[c] \in Nat /\ attempt[c] < MaxAttempts
      /\ awaiting[c] = "idle" \/ awaiting[c] = "backoff"
      /\ c \notin Holders /\ c \notin Spenders
  BY <1>1, AttemptLeft
<1>4. /\ requests' \in Seq(Request)
      /\ awaiting' \in [Caller \cup Prober -> Places]
      /\ \A d \in Caller \cup Prober : d # c => awaiting'[d] = awaiting[d]
      /\ awaiting'[c] = IF workerTask = "given_up" THEN "opening" ELSE "future"
  BY <1>1, HandedOver
<1>5. Holders' = Holders \cup {c}
  BY <1>1, <1>4 DEF Holders, HoldsSlot
<1>6. SlotsAreHeld' /\ in_flight' \in 0 .. Cardinality(Caller)
  BY <1>1, <1>2, <1>3, <1>5, SlotTaken
<1>7. attempt' \in [Caller \cup Prober -> 0 .. MaxAttempts]
  BY <1>1, <1>3, ChannelNumbers DEF ChannelTypeOK
<1>8. tokens' \in 0 .. Capacity
  BY <1>1, <1>2, ChannelNumbers
<1>9. ChannelTypeOK'
  BY <1>1, <1>4, <1>6, <1>7, <1>8 DEF ChannelTypeOK
<1>10. PlacesFit'
  BY <1>1, <1>4 DEF PlacesFit, ChannelTypeOK
<1>11. ASSUME healthy'
       PROVE  WorkerServes' /\ RefillKeepsUp'
  <2>1. healthy /\ WorkerServes /\ RefillKeepsUp
    BY <1>1, <1>11
  <2>2. WorkerServes'
    BY <1>1, <1>4, <2>1 DEF WorkerServes
  <2>3. Spenders' = Spenders \cup {c}
    BY <1>1, <1>3, <1>4, <2>1 DEF Spenders, WorkerServes
  <2>4. Spenders \subseteq Caller
    BY DEF Spenders
  <2>5. Cardinality(Spenders') = Cardinality(Spenders) + 1 /\ Cardinality(Spenders) \in Nat
    BY <1>1, <1>3, <2>3, <2>4, OneCallerMore, SetsOfCallers
  <2>6. Provided' = Provided
    <3>1. \A x, y \in Nat : x * (y + 1) = x * y + x /\ x * y \in Nat
      OBVIOUS
    <3>2. Cost * Cardinality(Spenders') = Cost * Cardinality(Spenders) + Cost
          /\ Cost * Cardinality(Spenders) \in Nat
      BY <2>5, <3>1, ChannelNumbers
    <3> QED
      BY <1>1, <1>2, <3>2, ChannelNumbers DEF Provided
  <2>7. ASSUME NEW d \in Caller, awaiting'[d] = "backoff"
        PROVE  Refilled(d)' <= Provided' \/ Capacity <= Provided'
    <3>1. d # c /\ awaiting[d] = "backoff"
      BY <1>1, <1>4, <2>7
    <3>2. attempt'[d] = attempt[d] /\ sleep'[d] = sleep[d]
      BY <1>1, <3>1
    <3> QED
      BY <2>1, <2>6, <3>1, <3>2 DEF RefillKeepsUp, Refilled
  <2> QED
    BY <2>2, <2>7 DEF RefillKeepsUp
<1>12. (healthy /\ EnoughForAll => NobodyStarves)'
  BY <1>1, <1>4 DEF NobodyStarves
<1> QED
  BY <1>6, <1>9, <1>10, <1>11, <1>12

LEMMA ProbeKeeps ==
  ASSUME ChannelInvariant, NEW c \in Caller \cup Prober, Probe(c)
  PROVE  ChannelInvariant'
<1> USE DEF ChannelInvariant
<1>1. /\ c \in Prober /\ c \notin Caller /\ awaiting[c] = "idle" /\ attempt[c] = 0 /\ MayTry(c)
      /\ attempt' = [attempt EXCEPT ![c] = 1] /\ HandOver(c)
      /\ UNCHANGED <<sleep, tokens, in_flight, workerTask, restarts, serving, healthy>>
  BY ChannelNumbers DEF Probe, MayTry, PlacesFit
<1>2. /\ requests' \in Seq(Request)
      /\ awaiting' \in [Caller \cup Prober -> Places]
      /\ \A d \in Caller \cup Prober : d # c => awaiting'[d] = awaiting[d]
      /\ awaiting'[c] = IF workerTask = "given_up" THEN "opening" ELSE "future"
  BY <1>1, HandedOver
<1>3. Holders' = Holders /\ Spenders' = Spenders
  BY <1>1, <1>2 DEF Holders, HoldsSlot, Spenders
<1>4. SlotsAreHeld' /\ in_flight' \in 0 .. Cardinality(Caller)
  BY <1>1, <1>3, SlotsStay
<1>5. attempt' \in [Caller \cup Prober -> 0 .. MaxAttempts]
  BY <1>1, ChannelNumbers DEF ChannelTypeOK
<1>6. ChannelTypeOK'
  BY <1>1, <1>2, <1>4, <1>5 DEF ChannelTypeOK
<1>7. PlacesFit'
  BY <1>1, <1>2 DEF PlacesFit, ChannelTypeOK
<1>8. ASSUME healthy'
      PROVE  WorkerServes' /\ RefillKeepsUp'
  <2>1. healthy /\ WorkerServes /\ RefillKeepsUp
    BY <1>1, <1>8
  <2>2. WorkerServes'
    BY <1>1, <1>2, <2>1 DEF WorkerServes
  <2>3. \A d \in Caller : attempt'[d] = attempt[d] /\ awaiting'[d] = awaiting[d]
    BY <1>1, <1>2
  <2> QED
    BY <1>1, <1>3, <2>1, <2>2, <2>3 DEF RefillKeepsUp, Refilled, Provided
<1>9. (healthy /\ EnoughForAll => NobodyStarves)'
  BY <1>1, <1>2 DEF NobodyStarves
<1> QED
  BY <1>4, <1>6, <1>7, <1>8, <1>9

(* An attempt that failed: where its caller is now. *)
LEMMA AttemptFailed ==
  ASSUME ChannelTypeOK, PlacesFit, NEW c \in Caller \cup Prober,
         NEW n \in 1 .. MaxAttempts, AttemptFailedAt(c, n)
  PROVE  /\ awaiting' \in [Caller \cup Prober -> Places]
         /\ sleep' \in [Caller \cup Prober -> 0 .. Backoff]
         /\ \A d \in Caller \cup Prober : d # c => awaiting'[d] = awaiting[d] /\ sleep'[d] = sleep[d]
         /\ awaiting'[c] \in {"backoff", "answered", "failed"}
         /\ awaiting'[c] = "backoff" <=> c \in Caller /\ n < MaxAttempts
         /\ awaiting'[c] = "backoff" => sleep'[c] = Backoff
         /\ c \in Caller /\ awaiting'[c] # "backoff" => awaiting'[c] = "failed" /\ n = MaxAttempts
BY ChannelNumbers DEF AttemptFailedAt, ChannelTypeOK, Places, Ended

(* A caller that had no slot and no token for its last attempt: there were  *)
(* not enough for all.                                                      *)
LEMMA EnoughIsEnough ==
  ASSUME ChannelInvariant, healthy, EnoughForAll, NEW c \in Caller, MayTry(c), Refuses,
         attempt[c] + 1 = MaxAttempts
  PROVE  FALSE
<1> DEFINE n == Cardinality(Caller)
<1>1. /\ c \notin Holders /\ c \notin Spenders /\ attempt[c] \in Nat
      /\ awaiting[c] = "idle" \/ awaiting[c] = "backoff"
  BY AttemptLeft DEF ChannelInvariant
<1>2. Holders \subseteq Caller /\ Spenders \subseteq Caller
  BY DEF Holders, Spenders
<1>3. n \in Nat /\ Cardinality(Holders) \in Nat /\ Cardinality(Holders) < n
      /\ Cardinality(Spenders) \in Nat /\ Cardinality(Spenders) + 1 <= n
  <2>1. n \in Nat /\ Cardinality(Holders) \in Nat /\ Cardinality(Spenders) \in Nat
    BY <1>2, SetsOfCallers, ChannelNumbers
  <2>2. Cardinality(Holders) < n
    BY <1>1, <1>2, OneCallerMore
  <2>3. Cardinality(Spenders) < n
    BY <1>1, <1>2, OneCallerMore
  <2> QED
    BY <2>1, <2>2, <2>3
<1>4. in_flight < ConcurrentRequests /\ in_flight < QueueDepth
  <2>1. in_flight = Cardinality(Holders)
    BY DEF ChannelInvariant, SlotsAreHeld, Holders
  <2>2. n <= ConcurrentRequests /\ n <= QueueDepth
    BY DEF EnoughForAll
  <2> QED
    BY <1>3, <2>1, <2>2, ChannelNumbers
<1>5. tokens < Cost
  BY <1>4, ChannelNumbers, <1>3 DEF Refuses, ChannelInvariant, SlotsAreHeld, Holders
<1>6. PICK k \in Nat : k = Cardinality(Spenders) /\ k + 1 <= n
  BY <1>3
<1>7. Cost * k + Cost <= Cost * n /\ Cost * k \in Nat /\ Cost * n \in Nat
  <2>1. \A x, y, z \in Nat : y + 1 <= z => x * y + x <= x * z /\ x * y \in Nat /\ x * z \in Nat
    <3>1. \A x, y, z \in Nat : y + 1 <= z => x * (y + 1) <= x * z
      OBVIOUS
    <3>2. \A x, y \in Nat : x * (y + 1) = x * y + x
      OBVIOUS
    <3>3. \A x, y \in Nat : x * y \in Nat
      OBVIOUS
    <3> QED
      BY <3>1, <3>2, <3>3
  <2> QED
    BY <1>3, <1>6, <2>1, ChannelNumbers
<1>8. Cost * n <= Capacity /\ Cost * n <= Backoff * (MaxAttempts - 1)
  BY DEF EnoughForAll
<1>9. tokens \in Nat
  BY ChannelNumbers DEF ChannelInvariant, ChannelTypeOK
<1>10. Provided < Cost * n
  BY <1>5, <1>6, <1>7, <1>9, ChannelNumbers DEF Provided
<1>11. Provided \in Nat
  BY <1>6, <1>7, <1>9 DEF Provided
<1>12. Provided < Backoff * attempt[c] /\ Provided < Capacity
  <2>1. MaxAttempts - 1 = attempt[c]
    <3>1. \A x, y \in Nat : x + 1 = y => y - 1 = x
      OBVIOUS
    <3> QED
      BY <1>1, <3>1, ChannelNumbers
  <2>2. Backoff * attempt[c] \in Nat
    BY <1>1, Products, ChannelNumbers
  <2> QED
    BY <1>7, <1>8, <1>10, <1>11, <2>1, <2>2, ChannelNumbers
<1>13. CASE awaiting[c] = "backoff"
  <2>1. sleep[c] = 0
    BY <1>13 DEF MayTry
  <2>2. Refilled(c) = Backoff * attempt[c]
    <3>1. \A x, y \in Nat : x * y - 0 = y * x
      BY Products
    <3>2. attempt[c] * Backoff - 0 = Backoff * attempt[c]
      BY <1>1, <3>1, ChannelNumbers
    <3> QED
      BY <2>1, <3>2 DEF Refilled
  <2>3. Refilled(c) <= Provided \/ Capacity <= Provided
    BY <1>13 DEF ChannelInvariant, RefillKeepsUp
  <2>4. Backoff * attempt[c] \in Nat
    BY <1>1, Products, ChannelNumbers
  <2> QED
    BY <1>11, <1>12, <2>2, <2>3, <2>4, ChannelNumbers
<1>14. CASE awaiting[c] = "idle"
  <2>1. attempt[c] = 0
    BY <1>14 DEF ChannelInvariant, PlacesFit
  <2>2. Backoff * attempt[c] = 0
    BY <2>1, ChannelNumbers
  <2> QED
    BY <1>11, <1>12, <2>2
<1> QED
  BY <1>1, <1>13, <1>14

LEMMA RefuseSlotKeeps ==
  ASSUME ChannelInvariant, NEW c \in Caller \cup Prober, RefuseSlot(c)
  PROVE  ChannelInvariant'
<1> USE DEF ChannelInvariant
<1>1. /\ c \in Caller /\ MayTry(c) /\ Refuses
      /\ attempt' = [attempt EXCEPT ![c] = @ + 1] /\ AttemptFailedAt(c, attempt[c] + 1)
      /\ UNCHANGED <<tokens, in_flight, workerTask, restarts, requests, serving, healthy>>
  BY DEF RefuseSlot
<1>2. PICK n \in Nat : /\ n = attempt[c] /\ n < MaxAttempts /\ n + 1 \in 1 .. MaxAttempts
                       /\ awaiting[c] = "idle" \/ awaiting[c] = "backoff"
                       /\ c \notin Holders /\ c \notin Spenders
  BY <1>1, AttemptLeft, ChannelNumbers
<1>3. /\ awaiting' \in [Caller \cup Prober -> Places]
      /\ sleep' \in [Caller \cup Prober -> 0 .. Backoff]
      /\ \A d \in Caller \cup Prober : d # c => awaiting'[d] = awaiting[d] /\ sleep'[d] = sleep[d]
      /\ awaiting'[c] \in {"backoff", "answered", "failed"}
      /\ awaiting'[c] = "backoff" <=> n + 1 < MaxAttempts
      /\ awaiting'[c] = "backoff" => sleep'[c] = Backoff
      /\ awaiting'[c] # "backoff" => awaiting'[c] = "failed" /\ n + 1 = MaxAttempts
  BY <1>1, <1>2, AttemptFailed
<1>4. Holders' = Holders /\ Spenders' = Spenders
  BY <1>1, <1>2, <1>3 DEF Holders, HoldsSlot, Spenders
<1>5. SlotsAreHeld' /\ in_flight' \in 0 .. Cardinality(Caller)
  BY <1>1, <1>4, SlotsStay
<1>6. attempt' \in [Caller \cup Prober -> 0 .. MaxAttempts] /\ attempt'[c] = n + 1
      /\ \A d \in Caller \cup Prober : d # c => attempt'[d] = attempt[d]
  BY <1>1, <1>2, ChannelNumbers DEF ChannelTypeOK
<1>7. ChannelTypeOK'
  BY <1>1, <1>3, <1>5, <1>6 DEF ChannelTypeOK
<1>8. PlacesFit'
  BY <1>1, <1>2, <1>3, <1>6 DEF PlacesFit
<1>9. ASSUME healthy'
      PROVE  WorkerServes' /\ RefillKeepsUp'
  <2>1. healthy /\ WorkerServes /\ RefillKeepsUp
    BY <1>1, <1>9
  <2>2. WorkerServes'
    BY <1>1, <1>3, <2>1 DEF WorkerServes
  <2>3. Provided' = Provided
    BY <1>1, <1>4 DEF Provided
  <2>4. ASSUME awaiting'[c] = "backoff"
        PROVE  Refilled(c)' <= Provided \/ Capacity <= Provided
    <3>1. attempt'[c] = n + 1 /\ sleep'[c] = Backoff
      BY <1>3, <1>6, <2>4
    <3>2. Refilled(c)' = n * Backoff
      <4>1. \A x, y \in Nat : (x + 1) * y - y = x * y
        OBVIOUS
      <4> QED
        BY <3>1, <4>1, ChannelNumbers DEF Refilled
    <3>3. CASE awaiting[c] = "backoff"
      <4>1. sleep[c] = 0
        BY <1>1, <3>3 DEF MayTry
      <4>2. Refilled(c) = n * Backoff
        <5>1. \A x \in Nat : x - 0 = x
          OBVIOUS
        <5> QED
          BY <1>2, <4>1, <5>1, ChannelNumbers DEF Refilled
      <4> QED
        BY <1>1, <2>1, <3>2, <3>3, <4>2 DEF RefillKeepsUp
    <3>4. CASE awaiting[c] = "idle"
      <4>1. n * Backoff = 0
        BY <1>2, <3>4, ChannelNumbers DEF PlacesFit
      <4>2. Spenders \subseteq Caller
        BY DEF Spenders
      <4>3. Provided \in Nat
        <5>1. tokens \in Nat /\ Cardinality(Spenders) \in Nat
          BY <4>2, SetsOfCallers, ChannelNumbers DEF ChannelTypeOK
        <5>2. Cost * Cardinality(Spenders) \in Nat
          BY <5>1, Products, ChannelNumbers
        <5> QED
          BY <5>1, <5>2 DEF Provided
      <4> QED
        BY <3>2, <4>1, <4>3
    <3> QED
      BY <1>2, <3>3, <3>4
  <2>5. ASSUME NEW d \in Caller, d # c, awaiting'[d] = "backoff"
        PROVE  Refilled(d)' <= Provided \/ Capacity <= Provided
    <3>1. awaiting[d] = "backoff" /\ attempt'[d] = attempt[d] /\ sleep'[d] = sleep[d]
      BY <1>3, <1>6, <2>5
    <3> QED
      BY <2>1, <3>1 DEF RefillKeepsUp, Refilled
  <2> QED
    BY <2>2, <2>3, <2>4, <2>5 DEF RefillKeepsUp
<1>10. ASSUME (healthy /\ EnoughForAll)'
       PROVE  NobodyStarves'
  <2>1. healthy /\ EnoughForAll /\ NobodyStarves
    BY <1>1, <1>10 DEF EnoughForAll
  <2>2. n + 1 # MaxAttempts
    BY <1>1, <1>2, <2>1, EnoughIsEnough
  <2> QED
    BY <1>3, <2>1, <2>2 DEF NobodyStarves
<1> QED
  BY <1>5, <1>7, <1>8, <1>9, <1>10

(* The attempt of c ended in an error after it was admitted. *)
LEMMA FailedLater ==
  ASSUME ChannelInvariant, NEW c \in Caller \cup Prober, Release(c),
         awaiting[c] \in {"opening", "future"}, AttemptFailedAt(c, attempt[c]), healthy' = FALSE,
         UNCHANGED <<attempt, tokens, workerTask, restarts, requests, serving>>
  PROVE  ChannelInvariant'
<1> USE DEF ChannelInvariant
<1>1. PICK n \in 0 .. MaxAttempts : n = attempt[c]
  BY DEF ChannelTypeOK
<1>2. /\ awaiting' \in [Caller \cup Prober -> Places]
      /\ sleep' \in [Caller \cup Prober -> 0 .. Backoff]
      /\ \A d \in Caller \cup Prober : d # c => awaiting'[d] = awaiting[d]
      /\ awaiting'[c] \in {"backoff", "answered", "failed"}
      /\ awaiting'[c] = "backoff" => c \in Caller /\ n < MaxAttempts
  BY <1>1, ChannelNumbers DEF AttemptFailedAt, ChannelTypeOK, Places, Ended
<1>3. Holders' = Holders \ {c}
  BY <1>2 DEF Holders, HoldsSlot
<1>4. SlotsAreHeld' /\ in_flight' \in 0 .. Cardinality(Caller)
  BY <1>3, SlotReleased
<1>5. ChannelTypeOK'
  BY <1>2, <1>4 DEF ChannelTypeOK
<1>6. PlacesFit'
  BY <1>1, <1>2 DEF PlacesFit
<1> QED
  BY <1>4, <1>5, <1>6

LEMMA DeadlineKeeps ==
  ASSUME ChannelInvariant, NEW c \in Caller \cup Prober, Deadline(c)
  PROVE  ChannelInvariant'
BY FailedLater DEF Deadline

LEMMA NotRunningKeeps ==
  ASSUME ChannelInvariant, NEW c \in Caller \cup Prober, NotRunning(c)
  PROVE  ChannelInvariant'
<1>1. healthy = FALSE
  BY DEF ChannelInvariant, WorkerServes, ChannelTypeOK, NotRunning
<1> QED
  BY <1>1, FailedLater DEF NotRunning

(* One tick refills no less than a backoff counts.                          *)
LEMMA TickKeeps ==
  ASSUME ChannelInvariant, Tick
  PROVE  ChannelInvariant'
<1> USE DEF ChannelInvariant
<1>1. /\ tokens' = IF tokens < Capacity THEN tokens + 1 ELSE Capacity
      /\ sleep' = [c \in Caller \cup Prober |-> IF sleep[c] > 0 THEN sleep[c] - 1 ELSE 0]
      /\ UNCHANGED <<awaiting, attempt, in_flight, workerTask, restarts, requests,
                     serving, healthy>>
  BY DEF Tick
<1>2. tokens \in Nat /\ tokens <= Capacity /\ tokens' \in 0 .. Capacity
  BY <1>1, ChannelNumbers DEF ChannelTypeOK
<1>3. sleep' \in [Caller \cup Prober -> 0 .. Backoff]
  BY <1>1, ChannelNumbers DEF ChannelTypeOK
<1>4. Holders' = Holders /\ Spenders' = Spenders
  BY <1>1 DEF Holders, HoldsSlot, Spenders
<1>5. SlotsAreHeld' /\ in_flight' \in 0 .. Cardinality(Caller)
  BY <1>1, <1>4, SlotsStay
<1>6. ChannelTypeOK'
  BY <1>1, <1>2, <1>3, <1>5 DEF ChannelTypeOK
<1>7. PlacesFit'
  BY <1>1 DEF PlacesFit
<1>8. ASSUME healthy'
      PROVE  WorkerServes' /\ RefillKeepsUp'
  <2>1. healthy /\ WorkerServes /\ RefillKeepsUp
    BY <1>1, <1>8
  <2>2. WorkerServes'
    BY <1>1, <2>1 DEF WorkerServes
  <2>3. PICK spent \in Nat : spent = Cost * Cardinality(Spenders)
    <3>1. Cardinality(Spenders) \in Nat
      BY SetsOfCallers DEF Spenders
    <3> QED
      BY <3>1, Products, ChannelNumbers
  <2>4. Provided = tokens + spent /\ Provided' = tokens' + spent
    BY <1>4, <2>3 DEF Provided
  <2>5. \/ Capacity <= Provided'
        \/ Provided' = Provided + 1 /\ Provided \in Nat
    BY <1>1, <1>2, <2>4, ChannelNumbers
  <2>6. ASSUME NEW c \in Caller, awaiting'[c] = "backoff"
        PROVE  Refilled(c)' <= Provided' \/ Capacity <= Provided'
    <3>1. PICK s \in Nat, made \in Nat : s = sleep[c] /\ made = attempt[c] * Backoff
      <4>1. sleep[c] \in Nat /\ attempt[c] \in Nat
        BY ChannelNumbers DEF ChannelTypeOK
      <4> QED
        BY <4>1, Products, ChannelNumbers
    <3>2. Refilled(c) = made - s /\ Refilled(c)' <= made - s + 1
      <4>1. attempt'[c] = attempt[c] /\ sleep'[c] = IF s > 0 THEN s - 1 ELSE 0
        BY <1>1, <3>1
      <4>2. Refilled(c) = made - s /\ Refilled(c)' = made - sleep'[c]
        BY <3>1, <4>1 DEF Refilled
      <4> QED
        BY <3>1, <4>1, <4>2
    <3>3. Refilled(c) <= Provided \/ Capacity <= Provided
      BY <1>1, <2>1, <2>6 DEF RefillKeepsUp
    <3>4. Refilled(c)' \in Int
      BY <1>1, <3>1 DEF Refilled
    <3> QED
      BY <2>5, <3>1, <3>2, <3>3, <3>4, ChannelNumbers
  <2> QED
    BY <2>2, <2>6 DEF RefillKeepsUp
<1>9. (healthy /\ EnoughForAll => NobodyStarves)'
  BY <1>1 DEF NobodyStarves, EnoughForAll
<1> QED
  BY <1>5, <1>6, <1>7, <1>8, <1>9

(* The worker moves a request or its session, and no caller.                *)
LEMMA WorkerAlone ==
  ASSUME ChannelInvariant, requests' \in Seq(Request),
         serving' = <<>> \/ serving' \in [1..1 -> Request],
         workerTask' \in {"connecting", "serving"}, restarts' \in 0..MaxRestarts,
         UNCHANGED <<awaiting, attempt, sleep, tokens, in_flight, healthy>>
  PROVE  ChannelInvariant'
BY DEF ChannelInvariant, ChannelTypeOK, PlacesFit, SlotsAreHeld, HoldsSlot, WorkerServes,
       RefillKeepsUp, Refilled, Provided, Spenders, NobodyStarves, EnoughForAll

LEMMA TakeKeeps ==
  ASSUME ChannelInvariant, Take
  PROVE  ChannelInvariant'
<1>1. requests \in Seq(Request) /\ requests # <<>>
  BY DEF Take, ChannelInvariant, ChannelTypeOK
<1>2. Head(requests) \in Request /\ Tail(requests) \in Seq(Request)
  BY <1>1, HeadTailProperties
<1>3. <<Head(requests)>> \in [1..1 -> Request]
  BY <1>2
<1>4. requests' \in Seq(Request) /\ (serving' = <<>> \/ serving' \in [1..1 -> Request])
  BY <1>2, <1>3 DEF Take
<1>5. workerTask' \in {"connecting", "serving"} /\ restarts' \in 0..MaxRestarts
  BY DEF Take, ChannelInvariant, ChannelTypeOK
<1> QED
  BY <1>4, <1>5, WorkerAlone DEF Take

LEMMA ConnectKeeps ==
  ASSUME ChannelInvariant, Connect
  PROVE  ChannelInvariant'
<1>1. /\ requests' \in Seq(Request) /\ (serving' = <<>> \/ serving' \in [1..1 -> Request])
      /\ workerTask' \in {"connecting", "serving"} /\ restarts' \in 0..MaxRestarts
  BY ChannelNumbers DEF Connect, ChannelInvariant, ChannelTypeOK
<1> QED
  BY <1>1, WorkerAlone DEF Connect

(* Every session that is lost takes its live attempts with it, and their    *)
(* slots.                                                                   *)
LEMMA AllFailed ==
  ASSUME ChannelInvariant, NEW S, FailAll(S), UNCHANGED attempt
  PROVE  /\ awaiting' \in [Caller \cup Prober -> Places]
         /\ sleep' \in [Caller \cup Prober -> 0 .. Backoff]
         /\ SlotsAreHeld' /\ in_flight' \in 0 .. Cardinality(Caller)
         /\ PlacesFit'
<1> DEFINE hit == {c \in Caller \cup Prober : \E r \in S : r.from = c /\ Live(r)}
           again == {c \in hit \cap Caller : attempt[c] < MaxAttempts}
<1>1. /\ awaiting' = [c \in Caller \cup Prober |->
                        IF c \notin hit THEN awaiting[c]
                        ELSE IF c \in again THEN "backoff"
                        ELSE IF c \in Prober THEN "answered" ELSE "failed"]
      /\ sleep' = [c \in Caller \cup Prober |->
                     IF c \in again THEN Backoff ELSE sleep[c]]
      /\ in_flight' = in_flight - Cardinality(hit \cap Caller)
  BY DEF FailAll
<1>2. \A c \in hit : awaiting[c] = "future"
  BY DEF Live
<1> HIDE DEF hit
<1>3. awaiting' \in [Caller \cup Prober -> Places]
  BY <1>1 DEF ChannelInvariant, ChannelTypeOK, Places, Ended
<1>4. sleep' \in [Caller \cup Prober -> 0 .. Backoff]
  BY <1>1, ChannelNumbers DEF ChannelInvariant, ChannelTypeOK
<1>5. hit \cap Caller \subseteq Holders
  BY <1>2 DEF Holders, HoldsSlot
<1>6. Holders' = Holders \ (hit \cap Caller)
  BY <1>1 DEF Holders, HoldsSlot
<1>7. SlotsAreHeld' /\ in_flight' \in 0 .. Cardinality(Caller)
  BY <1>1, <1>5, <1>6, SlotsReleased DEF ChannelInvariant
<1>8. PlacesFit'
  BY <1>1 DEF ChannelInvariant, PlacesFit
<1> QED
  BY <1>3, <1>4, <1>7, <1>8

LEMMA SessionLostKeeps ==
  ASSUME ChannelInvariant, NEW S, SessionLost(S), UNCHANGED <<attempt, tokens>>,
         healthy' = FALSE, serving' = <<>> \/ serving' \in [1..1 -> Request]
  PROVE  ChannelInvariant'
<1>1. /\ awaiting' \in [Caller \cup Prober -> Places]
      /\ sleep' \in [Caller \cup Prober -> 0 .. Backoff]
      /\ SlotsAreHeld' /\ in_flight' \in 0 .. Cardinality(Caller)
      /\ PlacesFit'
  BY AllFailed DEF SessionLost
<1>2. requests' \in Seq(Request)
  BY EmptySeq DEF SessionLost, ChannelInvariant, ChannelTypeOK
<1>3. workerTask' \in {"connecting", "serving", "given_up"} /\ restarts' \in 0 .. MaxRestarts
  BY ChannelNumbers DEF SessionLost, ChannelInvariant, ChannelTypeOK
<1>4. ChannelTypeOK'
  BY <1>1, <1>2, <1>3 DEF ChannelInvariant, ChannelTypeOK
<1> QED
  BY <1>1, <1>4 DEF ChannelInvariant

LEMMA LosesSession ==
  ASSUME ChannelInvariant, ConnectFails \/ SessionBreaks
  PROVE  ChannelInvariant'
BY SessionLostKeeps DEF ConnectFails, SessionBreaks, ChannelInvariant, ChannelTypeOK

(* An answer reaches the caller that still waits for it, or nobody.         *)
LEMMA AnswerKeeps ==
  ASSUME ChannelInvariant, NEW outcome \in Ended, Answer(outcome)
  PROVE  ChannelInvariant'
<1> USE DEF ChannelInvariant
<1>1. /\ serving # <<>> /\ serving' = <<>>
      /\ outcome = "answered" \/ serving[1].from \in Caller
      /\ healthy' = (healthy /\ outcome = "answered")
      /\ UNCHANGED <<attempt, sleep, tokens, workerTask, restarts, requests>>
  BY DEF Answer
<1>2. PICK c \in Caller \cup Prober : c = serving[1].from
  <2>1. serving \in [1..1 -> Request]
    BY <1>1 DEF ChannelTypeOK
  <2> QED
    BY <2>1 DEF Request
<1>3. healthy' \in BOOLEAN /\ (healthy' => healthy /\ outcome = "answered")
  BY <1>1 DEF ChannelTypeOK
<1>4. CASE ~Live(serving[1])
  <2>1. UNCHANGED <<awaiting, in_flight>>
    BY <1>4 DEF Answer
  <2>2. Holders' = Holders /\ Spenders' = Spenders
    BY <2>1 DEF Holders, HoldsSlot, Spenders
  <2>3. SlotsAreHeld' /\ in_flight' \in 0 .. Cardinality(Caller)
    BY <2>1, <2>2, SlotsStay
  <2>4. ChannelTypeOK'
    BY <1>1, <1>3, <2>1 DEF ChannelTypeOK
  <2>5. PlacesFit'
    BY <1>1, <2>1 DEF PlacesFit
  <2>6. healthy' => WorkerServes' /\ RefillKeepsUp'
    BY <1>1, <1>3, <2>1, <2>2, RefillStays DEF WorkerServes
  <2>7. (healthy /\ EnoughForAll => NobodyStarves)'
    BY <1>3, <2>1 DEF NobodyStarves, EnoughForAll
  <2> QED
    BY <2>3, <2>4, <2>5, <2>6, <2>7
<1>5. CASE Live(serving[1])
  <2>1. awaiting[c] = "future" /\ awaiting' = [awaiting EXCEPT ![c] = outcome] /\ Release(c)
    BY <1>2, <1>5 DEF Answer, Live
  <2>2. /\ awaiting' \in [Caller \cup Prober -> Places]
        /\ awaiting'[c] = outcome /\ outcome \in {"answered", "failed"}
        /\ \A d \in Caller \cup Prober : d # c => awaiting'[d] = awaiting[d]
    BY <2>1 DEF ChannelTypeOK, Places, Ended
  <2>3. Holders' = Holders \ {c}
    BY <2>2 DEF Holders, HoldsSlot
  <2>4. SlotsAreHeld' /\ in_flight' \in 0 .. Cardinality(Caller)
    BY <2>1, <2>3, SlotReleased
  <2>5. ChannelTypeOK'
    BY <1>1, <1>3, <2>2, <2>4 DEF ChannelTypeOK
  <2>6. PlacesFit'
    BY <1>1, <2>2 DEF PlacesFit
  <2>7. ASSUME healthy'
        PROVE  WorkerServes' /\ RefillKeepsUp'
    <3>1. healthy /\ outcome = "answered"
      BY <1>3, <2>7
    <3>2. Spenders' = Spenders
      BY <2>1, <2>2, <3>1 DEF Spenders
    <3>3. WorkerServes'
      BY <1>1, <2>2, <3>1 DEF WorkerServes
    <3> QED
      BY <1>1, <2>2, <3>1, <3>2, <3>3, RefillStays
  <2>8. (healthy /\ EnoughForAll => NobodyStarves)'
    BY <1>3, <2>2 DEF NobodyStarves, EnoughForAll
  <2> QED
    BY <2>4, <2>5, <2>6, <2>7, <2>8
<1> QED
  BY <1>4, <1>5

LEMMA ChannelBegins ==
  ASSUME ChannelInit
  PROVE  ChannelInvariant
<1>1. requests \in Seq(Request)
  BY EmptySeq DEF ChannelInit
<1>2. Holders = {}
  BY DEF Holders, HoldsSlot, ChannelInit
<1>3. SlotsAreHeld
  <2>1. in_flight = 0 /\ Cardinality(Holders) = 0
    BY <1>2, FS_EmptySet DEF ChannelInit
  <2>2. in_flight = Cardinality(Holders) /\ in_flight <= ConcurrentRequests
    BY <2>1, ChannelNumbers
  <2> QED
    BY <2>2 DEF SlotsAreHeld, Holders
<1>4. ChannelTypeOK
  BY <1>1, ChannelNumbers DEF ChannelTypeOK, ChannelInit, Places
<1> QED
  BY <1>3, <1>4 DEF ChannelInvariant, ChannelInit, PlacesFit, WorkerServes, RefillKeepsUp, NobodyStarves

LEMMA ChannelKeepsInvariant ==
  ASSUME ChannelInvariant, [ChannelNext]_channelVars
  PROVE  ChannelInvariant'
<1>1. ASSUME NEW c \in Caller \cup Prober, CallerStep(c)
      PROVE  ChannelInvariant'
  BY <1>1, AdmitKeeps, RefuseSlotKeeps, ProbeKeeps, NotRunningKeeps, DeadlineKeeps DEF CallerStep
<1>2. CASE Session
  BY <1>2, ConnectKeeps, LosesSession, TakeKeeps DEF Session
<1>3. CASE OpponentServes
  BY <1>3, LosesSession, AnswerKeeps DEF OpponentServes
<1>4. CASE UNCHANGED channelVars
  BY <1>4 DEF ChannelInvariant, ChannelTypeOK, PlacesFit, SlotsAreHeld, HoldsSlot, WorkerServes,
              RefillKeepsUp, Refilled, Provided, Spenders, NobodyStarves, EnoughForAll, channelVars
<1> QED
  BY <1>1, <1>2, <1>3, <1>4, TickKeeps DEF ChannelNext

(* Only _serve begins a call, and it looks at the future first. *)
LEMMA TakesLive ==
  ASSUME [ChannelNext]_channelVars
  PROVE  [serving' # serving /\ serving' # <<>> => Live(serving'[1])]_channelVars
<1>1. CASE Take
  <2>1. awaiting' = awaiting /\ attempt' = attempt
    BY <1>1 DEF Take
  <2>2. serving' = <<>> \/ (Live(Head(requests)) /\ serving' = <<Head(requests)>>)
    BY <1>1 DEF Take
  <2> QED
    BY <2>2
<1>2. ASSUME NEW c \in Caller \cup Prober, CallerStep(c)
      PROVE  serving' = serving
  BY <1>2 DEF CallerStep, Admit, RefuseSlot, Probe, NotRunning, Deadline
<1>3. Tick \/ Connect \/ ConnectFails => serving' = serving
  BY DEF Tick, Connect, ConnectFails
<1>4. OpponentServes => serving' = <<>>
  BY DEF OpponentServes, SessionBreaks, Answer
<1> QED
  BY <1>1, <1>2, <1>3, <1>4 DEF ChannelNext, Session

(* While nothing goes wrong, what a caller's backoffs refill keeps up with  *)
(* what the other callers spend.                                            *)
THEOREM ChannelSafe == ChannelSpec => []ChannelInvariant
<1>1. ChannelInit => ChannelInvariant
  BY ChannelBegins
<1>2. ChannelInvariant /\ [ChannelNext]_channelVars => ChannelInvariant'
  BY ChannelKeepsInvariant
<1> QED
  BY <1>1, <1>2, PTL DEF ChannelSpec

(* The gatekeeper's slots are held by the attempts that are under way, and  *)
(* by nothing else, however an attempt ends.                                *)
THEOREM SlotsNeverLeak == ChannelSpec => []SlotsAreHeld
<1>1. ChannelInvariant => SlotsAreHeld
  BY DEF ChannelInvariant
<1> QED
  BY <1>1, ChannelSafe, PTL

(* Where the policy has a slot and the tokens for every caller, no caller   *)
(* uses its attempts up while no deadline passes and no session breaks.     *)
THEOREM NoStarvation ==
  ASSUME EnoughForAll
  PROVE  ChannelSpec => []AdmissionIsFair
<1>1. ChannelInvariant => AdmissionIsFair
  BY DEF ChannelInvariant, AdmissionIsFair, NobodyStarves
<1> QED
  BY <1>1, ChannelSafe, PTL

(* A request is sent only while its caller still awaits that attempt.       *)
THEOREM SentIsAwaited == ChannelSpec => NothingEndedIsSent
<1>1. [ChannelNext]_channelVars => [serving' # serving /\ serving' # <<>> => Live(serving'[1])]_channelVars
  BY TakesLive
<1> QED
  BY <1>1, PTL DEF ChannelSpec, NothingEndedIsSent

-----------------------------------------------------------------------------
(* Messages. *)

LEMMA NumberOfTurns ==
  /\ IntakeTurns \in Nat /\ RegistryDepth \in Nat /\ RegistryDepth > 0
  /\ \A n \in TurnNumbers : n \in Nat /\ n # 0
  /\ \A n \in 1 .. IntakeTurns : n \in TurnNumbers
BY IntakeAssumption DEF TurnNumbers

LEMMA SentCommits ==
  ASSUME NEW m \in Commits
  PROVE  /\ m.message_type = "commit" /\ Number(m) \in TurnNumbers
         /\ m.payload.says \in Said
         /\ EntryOf(m).id[1] = "commit" /\ EntryOf(m).id[2] = Number(m)
         /\ EntryOf(m).payload = m.payload
<1>1. PICK o \in Offers : m = Envelope(<<"commit", o[1], o[2]>>, "commit", <<o[1]>>, o[3])
  BY DEF Commits
<1>2. o[1] \in TurnNumbers /\ o[3] \in Said
  BY IntakeAssumption DEF TurnNumbers
<1>3. /\ m.message_type = "commit" /\ m.turn_number = <<o[1]>> /\ m.payload.says = o[3]
      /\ m.message_id = <<"commit", o[1], o[2]>>
  BY <1>1 DEF Envelope
<1>4. Number(m) = o[1] /\ m.message_id[1] = "commit" /\ m.message_id[2] = o[1]
  BY <1>3 DEF Number
<1> QED
  BY <1>2, <1>3, <1>4 DEF EntryOf

LEMMA SentReveals ==
  ASSUME NEW m \in Reveals
  PROVE  /\ m.message_type = "reveal" /\ Number(m) \in 1 .. IntakeTurns
         /\ m.message_id = <<"reveal", Number(m)>> /\ EntryOf(m) = RevealEntry(Number(m))
<1>1. PICK n \in 1 .. IntakeTurns :
        m = Envelope(<<"reveal", n>>, "reveal", <<n>>, "move")
  BY DEF Reveals
<1>2. m.message_type = "reveal" /\ m.turn_number = <<n>> /\ m.message_id = <<"reveal", n>>
  BY <1>1 DEF Envelope
<1>3. Number(m) = n
  BY <1>2 DEF Number
<1> QED
  BY <1>1, <1>2, <1>3 DEF RevealEntry

LEMMA SentPing ==
  Ping.message_type = "health_check" /\ EntryOf(Ping).id[1] = "ping"
<1>1. Ping.message_type = "health_check" /\ Ping.message_id = <<"ping", 0>>
  BY DEF Ping, Envelope
<1> QED
  BY <1>1 DEF EntryOf

(* Entries are told apart by their kind and their turn. *)
LEMMA EntriesDiffer ==
  /\ \A n : RevealEntry(n).id[1] = "reveal" /\ RevealEntry(n).id[2] = n
  /\ \A n, k : RevealEntry(n) = RevealEntry(k) => n = k
  /\ \A m \in Commits : \A n : EntryOf(m) # RevealEntry(n)
  /\ \A m \in Commits : EntryOf(m) # EntryOf(Ping)
  /\ \A n : RevealEntry(n) # EntryOf(Ping)
  /\ \A m, k \in Commits :
       EntryOf(m) = EntryOf(k) => Number(m) = Number(k) /\ m.payload.says = k.payload.says
<1>1. \A n : RevealEntry(n).id = <<"reveal", n>>
  BY DEF RevealEntry, EntryOf, Envelope
<1>2. \A n : RevealEntry(n).id[1] = "reveal" /\ RevealEntry(n).id[2] = n
  BY <1>1
<1>3. /\ "reveal" # "commit" /\ "reveal" # "ping" /\ "commit" # "ping"
  OBVIOUS
<1> QED
  BY <1>2, <1>3, SentCommits, SentPing

(* Nothing that is not meant for this peer gets past the two checks. *)
LEMMA StraysRefused ==
  ASSUME NEW m \in Strays
  PROVE  ~(WellFormed(m) /\ IdentityHolds(m))
<1> DEFINE c == Envelope(<<"stray", 0>>, "commit", <<1>>, "stray")
<1>1. CASE m = [c EXCEPT !.game_id = "another game"]
  BY <1>1 DEF Envelope, IdentityHolds
<1>2. CASE m = [c EXCEPT !.sender_role = "police"]
  BY <1>2 DEF Envelope, IdentityHolds
<1>3. CASE m = [c EXCEPT !.receiver_role = "thief"]
  BY <1>3 DEF Envelope, IdentityHolds
<1>4. CASE m = [c EXCEPT !.schema_version = <<2, 0>>]
  <2>1. m.schema_version = <<2, 0>>
    BY <1>4 DEF Envelope
  <2>2. <<2, 0>> # <<1, 0>>
    OBVIOUS
  <2> QED
    BY <2>1, <2>2 DEF WellFormed
<1>5. CASE m = [c EXCEPT !.protocol_version = <<2, 0>>]
  <2>1. m.protocol_version = <<2, 0>>
    BY <1>5 DEF Envelope
  <2>2. <<2, 0>>[1] # 1
    OBVIOUS
  <2> QED
    BY <2>1, <2>2 DEF WellFormed
<1>6. CASE m = [c EXCEPT !.turn_number = <<>>]
  BY <1>6 DEF Envelope, WellFormed, TurnBearing
<1>7. CASE m = [c EXCEPT !.payload.fields = @ \cup {<<"move", "str">>}]
  <2>1. m.message_type = "commit"
    BY <1>7 DEF Envelope
  <2>2. <<"move", "str">> \in m.payload.fields
    BY <1>7 DEF Envelope
  <2>3. PayloadSchema["commit"] = {<<"commitment", "str">>, <<"commitment_schema", "str">>}
    BY DEF PayloadSchema
  <2>4. /\ <<"move", "str">> # <<"commitment", "str">>
        /\ <<"move", "str">> # <<"commitment_schema", "str">>
    OBVIOUS
  <2> QED
    BY <2>1, <2>2, <2>3, <2>4 DEF WellFormed
<1>8. CASE m = [k \in EnvelopeKeys \ {"timestamp"} |-> c[k]]
  BY <1>8 DEF WellFormed, EnvelopeKeys
<1> QED
  BY <1>1, <1>2, <1>3, <1>4, <1>5, <1>6, <1>7, <1>8 DEF Strays

LEMMA MessageKinds ==
  ASSUME NEW m \in Messages, WellFormed(m), IdentityHolds(m)
  PROVE  m \in Meant /\ (m \in Commits \/ m \in Reveals \/ m = Ping)
BY StraysRefused DEF Messages, Meant

-----------------------------------------------------------------------------
(* The registry. *)

LEMMA EndOf ==
  ASSUME NEW s, NEW n, Len(s) = n, NEW d
  PROVE  FromTheEnd(s, d) = s[n - d]
BY DEF FromTheEnd

LEMMA Pushed ==
  ASSUME NEW S, NEW r \in Seq(S), NEW e \in S
  PROVE  LET grown == Append(r, e)
         IN  /\ grown \in Seq(S) /\ Len(grown) = Len(r) + 1 /\ FromTheEnd(grown, 0) = e
             /\ \A d \in Nat : d < Len(r) => FromTheEnd(grown, d + 1) = FromTheEnd(r, d)
<1> DEFINE grown == Append(r, e)
<1>1. PICK len \in Nat : len = Len(r)
  OBVIOUS
<1>2. /\ grown \in Seq(S) /\ Len(grown) = len + 1 /\ grown[len + 1] = e
      /\ \A j \in 1 .. len : grown[j] = r[j]
  BY <1>1
<1> HIDE DEF grown
<1>3. FromTheEnd(grown, 0) = grown[len + 1]
  <2>1. Len(grown) - 0 = len + 1
    BY <1>2
  <2> QED
    BY <2>1 DEF FromTheEnd
<1>4. ASSUME NEW d \in Nat, d < len
      PROVE  FromTheEnd(grown, d + 1) = FromTheEnd(r, d)
  <2>1. len + 1 - (d + 1) = len - d /\ len - d \in 1 .. len
    BY <1>4
  <2>2. FromTheEnd(grown, d + 1) = grown[len + 1 - (d + 1)]
    BY <1>2 DEF FromTheEnd
  <2>3. FromTheEnd(r, d) = r[len - d]
    BY <1>1, EndOf
  <2> QED
    BY <1>2, <2>1, <2>2, <2>3
<1> QED
  BY <1>1, <1>2, <1>3, <1>4 DEF grown

LEMMA Dropped ==
  ASSUME NEW S, NEW r \in Seq(S), Len(r) > 1
  PROVE  /\ Tail(r) \in Seq(S) /\ Len(Tail(r)) = Len(r) - 1
         /\ \A d \in Nat : d < Len(r) - 1 => FromTheEnd(Tail(r), d) = FromTheEnd(r, d)
<1>1. PICK len \in Nat : len = Len(r)
  OBVIOUS
<1>2. /\ Tail(r) \in Seq(S) /\ Len(Tail(r)) = len - 1
      /\ \A j \in 1 .. len - 1 : Tail(r)[j] = r[j + 1]
  BY <1>1
<1>3. ASSUME NEW d \in Nat, d < len - 1
      PROVE  FromTheEnd(Tail(r), d) = FromTheEnd(r, d)
  <2>1. len - 1 - d \in 1 .. len - 1 /\ len - 1 - d + 1 = len - d
    BY <1>3
  <2>2. FromTheEnd(Tail(r), d) = Tail(r)[len - 1 - d] /\ FromTheEnd(r, d) = r[len - d]
    <3>1. Len(Tail(r)) = len - 1
      BY <1>2
    <3> QED
      BY <1>1, <3>1, EndOf, ZenonT(60)
  <2> QED
    BY <1>2, <2>1, <2>2
<1> QED
  BY <1>1, <1>2, <1>3

LEMMA RegistryGrows ==
  ASSUME RegistryRemembers, NEW m \in Meant, registry' = Recorded(m),
         since' = [i \in DOMAIN since \cup {EntryOf(m)} |->
                     IF i = EntryOf(m) THEN 0
                     ELSE IF since[i] < RegistryDepth THEN since[i] + 1 ELSE since[i]]
  PROVE  RegistryRemembers'
<1> DEFINE e == EntryOf(m)
           grown == Append(registry, e)
           D == RegistryDepth
<1>1. e \in Entries
  BY DEF Entries
<1>2. registry \in Seq(Entries) /\ Len(registry) <= D /\ D \in Nat /\ D > 0
  BY NumberOfTurns DEF RegistryRemembers
<1>3. PICK len \in Nat : len = Len(registry)
  BY <1>2
<1>4. /\ grown \in Seq(Entries) /\ Len(grown) = len + 1 /\ FromTheEnd(grown, 0) = e
      /\ \A d \in Nat : d < len => FromTheEnd(grown, d + 1) = FromTheEnd(registry, d)
  BY <1>1, <1>2, <1>3, Pushed
<1>5. registry' = IF Len(grown) > D THEN Tail(grown) ELSE grown
  BY DEF Recorded
<1>6. \A i \in DOMAIN since :
        /\ i \in Entries
        /\ since[i] \in 0 .. D
        /\ since[i] < D => since[i] < len /\ FromTheEnd(registry, since[i]) = i
  BY <1>3 DEF RegistryRemembers
<1>7. DOMAIN since' = DOMAIN since \cup {e}
  OBVIOUS
<1>8. \A i \in DOMAIN since' :
        since'[i] = IF i = e THEN 0
                    ELSE IF since[i] < D THEN since[i] + 1 ELSE since[i]
  OBVIOUS
<1> HIDE DEF e, grown, D
<1>9. PICK new \in Nat :
        /\ registry' \in Seq(Entries) /\ Len(registry') = new /\ new <= D /\ new > 0
        /\ FromTheEnd(registry', 0) = e
        /\ \A d \in Nat : d < len /\ d + 1 < D =>
             d + 1 < new /\ FromTheEnd(registry', d + 1) = FromTheEnd(registry, d)
  <2>1. CASE len + 1 > D
    <3>1. registry' = Tail(grown) /\ len = D /\ Len(grown) > 1
      BY <1>2, <1>3, <1>4, <1>5, <2>1
    <3>2. /\ registry' \in Seq(Entries) /\ Len(registry') = len
          /\ \A d \in Nat : d < len => FromTheEnd(registry', d) = FromTheEnd(grown, d)
      BY <1>4, <3>1, Dropped
    <3>3. FromTheEnd(registry', 0) = e /\ len <= D /\ len > 0
      BY <1>2, <1>4, <3>1, <3>2
    <3>4. \A d \in Nat : d < len /\ d + 1 < D =>
            d + 1 < len /\ FromTheEnd(registry', d + 1) = FromTheEnd(registry, d)
      BY <1>4, <3>1, <3>2
    <3> QED
      BY <3>2, <3>3, <3>4
  <2>2. CASE ~(len + 1 > D)
    <3>1. registry' = grown /\ len + 1 <= D
      BY <1>2, <1>4, <1>5, <2>2
    <3> QED
      BY <1>4, <3>1
  <2> QED
    BY <2>1, <2>2
<1>10. ASSUME NEW i \in DOMAIN since'
       PROVE  /\ i \in Entries
              /\ since'[i] \in 0 .. D
              /\ since'[i] < D =>
                   since'[i] < Len(registry') /\ FromTheEnd(registry', since'[i]) = i
  <2>1. CASE i = e
    <3>1. since'[i] = 0
      BY <1>8, <2>1
    <3>2. 0 \in 0 .. D /\ 0 < Len(registry')
      BY <1>2, <1>9
    <3> QED
      BY <1>1, <1>9, <2>1, <3>1, <3>2
  <2>2. CASE i # e
    <3> DEFINE d == since[i]
    <3>1. /\ i \in DOMAIN since /\ d \in 0 .. D /\ i \in Entries
          /\ d < D => d < len /\ FromTheEnd(registry, d) = i
      BY <1>6, <1>7, <2>2
    <3>2. since'[i] = IF d < D THEN d + 1 ELSE d
      BY <1>8, <2>2
    <3> HIDE DEF d
    <3>3. since'[i] \in 0 .. D
      BY <1>2, <3>1, <3>2
    <3>4. since'[i] < D => d \in Nat /\ d < D /\ d + 1 < D /\ since'[i] = d + 1
      BY <1>2, <3>1, <3>2
    <3> QED
      BY <1>9, <3>1, <3>3, <3>4
  <2> QED
    BY <2>1, <2>2
<1> QED
  <2>1. Len(registry') <= D
    BY <1>9
  <2> QED
    BY <1>9, <1>10, <2>1 DEF RegistryRemembers, D

(* What is acted on again has been forgotten by the registry. *)
LEMMA Forgotten ==
  ASSUME RegistryRemembers, NEW m, Entry(m) = {}, EntryOf(m) \in DOMAIN since
  PROVE  since[EntryOf(m)] >= RegistryDepth
<1> DEFINE d == since[EntryOf(m)]
<1>1. d \in 0 .. RegistryDepth /\ RegistryDepth \in Nat
  BY NumberOfTurns DEF RegistryRemembers
<1>2. ASSUME d < RegistryDepth
      PROVE  FALSE
  <2>1. d < Len(registry) /\ FromTheEnd(registry, d) = EntryOf(m)
    BY <1>2 DEF RegistryRemembers
  <2>2. Len(registry) \in Nat /\ DOMAIN registry = 1 .. Len(registry)
    BY DEF RegistryRemembers
  <2> HIDE DEF d
  <2>3. Len(registry) - d \in DOMAIN registry
    BY <1>1, <2>1, <2>2
  <2>4. FromTheEnd(registry, d) \in Lists!Range(registry)
    BY <2>3 DEF Lists!Range, FromTheEnd
  <2>5. EntryOf(m).id = m.message_id
    BY DEF EntryOf
  <2> QED
    BY <2>1, <2>4, <2>5 DEF Entry
<1> HIDE DEF d
<1>3. d >= RegistryDepth
  BY <1>1, <1>2
<1> QED
  BY <1>3 DEF d

-----------------------------------------------------------------------------
(* What is held of a turn. *)

HeldEarly(n) == Committed({h \in held : Number(h) = n})
HeldNow(n) == IF current.number = n THEN {current.commit} \ {NoCommit} ELSE {}
HeldSince(n) == IF n <= Len(archived) THEN {archived[n]} ELSE {}

LEMMA HeldIsThree ==
  \A n : HeldOf(n) = HeldEarly(n) \cup HeldNow(n) \cup HeldSince(n)
BY DEF HeldOf, HeldEarly, HeldNow, HeldSince

LEMMA HeldIsThreeNext ==
  \A n : HeldOf(n)' = HeldEarly(n)' \cup HeldNow(n)' \cup HeldSince(n)'
BY DEF HeldOf, HeldEarly, HeldNow, HeldSince

LEMMA SaysAreSaid == NoCommit \notin Said /\ "stray" \notin Said
BY IntakeAssumption

(* The next turn is the one that is expected; it is not completed, and it   *)
(* is the one under way if there is one.                                    *)
LEMMA Expected ==
  ASSUME TurnsInOrder
  PROVE  /\ Len(archived) \in Nat /\ NextTurn = Len(archived) + 1 /\ NextTurn \in Nat
         /\ NextTurn # 0 /\ NextTurn \in TurnNumbers /\ IntakeExpected = NextTurn
         /\ \A n \in Nat : n <= Len(archived) <=> n < NextTurn
<1> DEFINE len == Len(archived)
<1>1. len \in Nat /\ len <= IntakeTurns /\ NextTurn = len + 1
  BY LenProperties DEF TurnsInOrder, NextTurn
<1>2. IntakeExpected = NextTurn
  BY DEF IntakeExpected, NextTurn, TurnsInOrder
<1> HIDE DEF len
<1>3. /\ NextTurn \in Nat /\ NextTurn # 0 /\ NextTurn \in 1 .. IntakeTurns + 1
      /\ \A n \in Nat : n <= len <=> n < NextTurn
  BY <1>1, NumberOfTurns
<1> QED
  BY <1>1, <1>2, <1>3 DEF len, TurnNumbers

(* Of the turn that comes next, what is held is early or current; once it   *)
(* has begun it is the commitment of the coordinator alone.                 *)
LEMMA NextIsHeld ==
  ASSUME TurnsInOrder
  PROVE  /\ HeldOf(NextTurn) = DueCommitments
         /\ HeldIsAhead /\ current.sealed => HeldOf(NextTurn) = {current.commit} \ {NoCommit}
<1>1. ~(NextTurn <= Len(archived))
  BY Expected
<1>2. HeldSince(NextTurn) = {}
  BY <1>1 DEF HeldSince
<1>3. HeldNow(NextTurn) = {current.commit} \ {NoCommit}
  BY Expected DEF HeldNow, TurnsInOrder
<1>4. HeldEarly(NextTurn) = Committed(Due)
  BY DEF HeldEarly, Due
<1>5. ASSUME HeldIsAhead, current.sealed
      PROVE  Committed(Due) = {}
  <2>1. Due = {}
    BY <1>5 DEF HeldIsAhead, Due
  <2> QED
    BY <2>1 DEF Committed
<1> QED
  BY <1>2, <1>3, <1>4, <1>5, HeldIsThree DEF DueCommitments

(* What is held of a completed turn is its commitment. *)
LEMMA CompletedIsHeld ==
  ASSUME TurnsInOrder, HeldIsAhead, NEW n \in TurnNumbers, n <= Len(archived)
  PROVE  HeldOf(n) = {archived[n]} /\ n # current.number
<1>1. n \in Nat /\ n # 0 /\ n < NextTurn /\ n # NextTurn
  BY Expected, NumberOfTurns
<1>2. HeldEarly(n) = {}
  <2>1. \A h \in held : Number(h) >= NextTurn
    BY DEF HeldIsAhead
  <2>2. {h \in held : Number(h) = n} = {}
    BY <1>1, <2>1, Expected
  <2> QED
    BY <2>2 DEF HeldEarly, Committed
<1>3. n # current.number
  BY <1>1, Expected DEF TurnsInOrder
<1> QED
  BY <1>2, <1>3, HeldIsThree DEF HeldNow, HeldSince

-----------------------------------------------------------------------------
(* The actions. *)

LEMMA IntakeBegins ==
  ASSUME IntakeInit
  PROVE  IntakeInvariant
<1>1. /\ registry = <<>> /\ held = {} /\ current = NoTurn /\ archived = <<>>
      /\ failed = FALSE /\ since = <<>> /\ locked = {}
  BY DEF IntakeInit
<1>2. Len(archived) = 0 /\ Len(registry) = 0 /\ DOMAIN since = {}
  BY <1>1, EmptySeq
<1>3. TurnsInOrder
  <2>1. /\ current.number = 0 /\ ~current.sealed /\ ~current.revealed
        /\ current.commit = NoCommit
        /\ current = [number |-> current.number, sealed |-> current.sealed,
                      commit |-> current.commit, revealed |-> current.revealed]
        /\ current.sealed \in BOOLEAN /\ current.revealed \in BOOLEAN
    BY <1>1 DEF NoTurn
  <2>2. archived \in Seq(Said)
    BY <1>1, EmptySeq
  <2>3. Len(archived) <= IntakeTurns /\ failed \in BOOLEAN
    <3>1. 0 <= IntakeTurns
      BY NumberOfTurns
    <3>2. failed \in BOOLEAN
      BY <1>1
    <3> QED
      BY <1>2, <3>1, <3>2, Zenon
  <2>4. /\ current.commit \in Said \cup {NoCommit} /\ current.number \in {0, NextTurn}
        /\ current.number = 0 => current.commit = NoCommit /\ ~current.sealed
        /\ current.revealed => current.sealed /\ current.commit # NoCommit
        /\ current.sealed => current.number # 0 /\ NextTurn <= IntakeTurns /\ ~failed
    BY <2>1
  <2> QED
    BY <2>1, <2>2, <2>3, <2>4, Zenon DEF TurnsInOrder
<1>4. RegistryRemembers
  <2>1. registry \in Seq(Entries)
    BY <1>1, EmptySeq
  <2> QED
    BY <1>2, <2>1, NumberOfTurns DEF RegistryRemembers
<1>5. \A n : Given(n) = {}
  BY <1>1 DEF Given
<1>6. RecordedOnce /\ HeldIsAhead /\ FailsForCause
  BY <1>1, <1>2 DEF RecordedOnce, HeldIsAhead, FailsForCause
<1>7. \A n \in TurnNumbers : HeldOf(n) = {}
  <2> SUFFICES ASSUME NEW n \in TurnNumbers
               PROVE  HeldOf(n) = {}
    OBVIOUS
  <2>1. n \in Nat /\ n # 0
    BY NumberOfTurns
  <2>2. current.number = 0
    BY <1>1 DEF NoTurn
  <2>3. ~(n <= Len(archived))
    BY <1>2, <2>1
  <2> QED
    BY <1>1, <2>1, <2>2, <2>3, HeldIsThree DEF HeldEarly, HeldNow, HeldSince, Committed
<1>8. LockedIsHeld
  BY <1>1, <1>5, <1>7 DEF LockedIsHeld
<1> QED
  BY <1>3, <1>4, <1>6, <1>8 DEF IntakeInvariant

LEMMA NothingChanges ==
  ASSUME UNCHANGED <<registry, held, current, archived, failed, since, locked>>
  PROVE  /\ IntakeInvariant => IntakeInvariant'
         /\ \A n : HeldOf(n)' = HeldOf(n)
<1>1. \A n : HeldOf(n)' = HeldOf(n) /\ Given(n)' = Given(n)
  BY DEF HeldOf, Given
<1>2. NextTurn' = NextTurn
  BY DEF NextTurn
<1>3. TurnsInOrder => TurnsInOrder'
  BY <1>2 DEF TurnsInOrder
<1>4. RegistryRemembers => RegistryRemembers'
  BY DEF RegistryRemembers
<1>5. RecordedOnce => RecordedOnce'
  BY <1>1, <1>2 DEF RecordedOnce
<1>6. LockedIsHeld => LockedIsHeld'
  BY <1>1 DEF LockedIsHeld
<1>7. HeldIsAhead => HeldIsAhead'
  BY <1>2 DEF HeldIsAhead
<1>8. FailsForCause => FailsForCause'
  BY <1>1, <1>2 DEF FailsForCause
<1> QED
  BY <1>1, <1>3, <1>4, <1>5, <1>6, <1>7, <1>8 DEF IntakeInvariant

(* What every message that is acted on has in common. *)
LEMMA Acts ==
  ASSUME IntakeInvariant, NEW m \in Messages, Act(m)
  PROVE  /\ m \in Commits \/ m \in Reveals \/ m = Ping
         /\ RegistryRemembers' /\ DOMAIN since' = DOMAIN since \cup {EntryOf(m)}
         /\ archived' = archived /\ failed' = failed /\ NextTurn' = NextTurn
         /\ Entry(m) = {} /\ Acceptable(m)
         /\ held' = IF IsEarly(m) THEN HeldAfter(m) ELSE held
         /\ IsEarly(m) => Number(m) > NextTurn /\ (m \in Commits \/ m \in Reveals)
<1>1. /\ WellFormed(m) /\ IdentityHolds(m) /\ registry' = Recorded(m)
      /\ since' = [i \in DOMAIN since \cup {EntryOf(m)} |->
                    IF i = EntryOf(m) THEN 0
                    ELSE IF since[i] < RegistryDepth THEN since[i] + 1 ELSE since[i]]
      /\ archived' = archived /\ failed' = failed
      /\ Entry(m) = {} /\ Acceptable(m)
      /\ held' = IF IsEarly(m) THEN HeldAfter(m) ELSE held
  BY DEF Act
<1>2. m \in Meant /\ (m \in Commits \/ m \in Reveals \/ m = Ping)
  BY <1>1, MessageKinds
<1>3. RegistryRemembers'
  BY <1>1, <1>2, RegistryGrows DEF IntakeInvariant
<1>4. IsEarly(m) => Number(m) > NextTurn /\ m # Ping
  BY Expected, SentPing DEF IntakeInvariant, IsEarly
<1>5. NextTurn' = NextTurn
  BY <1>1 DEF NextTurn
<1> QED
  BY <1>1, <1>2, <1>3, <1>4, <1>5

(* It stays ahead in the buffer. *)
LEMMA ActsAhead ==
  ASSUME IntakeInvariant, NEW m \in Messages, Act(m), current'.sealed = current.sealed
  PROVE  HeldIsAhead' /\ held \subseteq held'
<1>1. held' \subseteq held \cup {m} /\ held \subseteq held' /\ (m \in held' \ held => IsEarly(m))
  BY Acts DEF HeldAfter
<1>2. NextTurn \in Nat /\ \A h \in Commits \cup Reveals : Number(h) \in Nat
  BY Expected, SentCommits, SentReveals, NumberOfTurns DEF IntakeInvariant
<1>3. ASSUME NEW h \in held', h \in held
      PROVE  /\ h \in Commits \cup Reveals /\ EntryOf(h) \in DOMAIN since'
             /\ Number(h) >= NextTurn'
             /\ Number(h) = NextTurn' => ~current'.sealed /\ ~failed'
  BY <1>3, Acts DEF IntakeInvariant, HeldIsAhead
<1>4. ASSUME NEW h \in held', h = m, IsEarly(m)
      PROVE  /\ h \in Commits \cup Reveals /\ EntryOf(h) \in DOMAIN since'
             /\ Number(h) >= NextTurn'
             /\ Number(h) = NextTurn' => ~current'.sealed /\ ~failed'
  <2>1. /\ m \in Commits \cup Reveals /\ EntryOf(m) \in DOMAIN since'
        /\ Number(m) > NextTurn /\ NextTurn' = NextTurn
    BY <1>4, Acts
  <2> QED
    BY <1>2, <1>4, <2>1
<1> QED
  BY <1>1, <1>3, <1>4 DEF HeldIsAhead

(* A commitment that is acted on adds itself, to what is held and to what   *)
(* was acknowledged, and nothing else.                                      *)
LEMMA ActsOnCommit ==
  ASSUME IntakeInvariant, NEW m \in Messages, m \in Commits, Act(m)
  PROVE  LET n == Number(m)
             c == m.payload.says
         IN  /\ \A k \in TurnNumbers :
                  HeldOf(k)' = IF k = n THEN HeldOf(k) \cup {c} ELSE HeldOf(k)
             /\ \A k : Given(k)' = IF k = n THEN Given(k) \cup {c} ELSE Given(k)
             /\ locked' \subseteq TurnNumbers \X Said
             /\ TurnsInOrder'
             /\ current'.sealed = current.sealed /\ current'.revealed = current.revealed
             /\ current.number # 0 =>
                  /\ current'.number = current.number
                  /\ n = current.number => current.commit \in {NoCommit, c}
                  /\ current.commit # NoCommit => current'.commit = current.commit
<1> USE DEF IntakeInvariant
<1> DEFINE n == Number(m)
           c == m.payload.says
<1>1. /\ m.message_type = "commit" /\ n \in TurnNumbers /\ c \in Said
  BY SentCommits
<1>2. /\ locked' = locked \cup {<<n, c>>} /\ archived' = archived /\ failed' = failed
      /\ NextTurn' = NextTurn
  BY <1>1, Acts DEF Act
<1> HIDE DEF n, c
<1>3. \A k : Given(k)' = IF k = n THEN Given(k) \cup {c} ELSE Given(k)
  <2> SUFFICES ASSUME NEW k
               PROVE  {l[2] : l \in {j \in locked \cup {<<n, c>>} : j[1] = k}}
                        = IF k = n THEN {l[2] : l \in {j \in locked : j[1] = k}} \cup {c}
                          ELSE {l[2] : l \in {j \in locked : j[1] = k}}
    BY <1>2 DEF Given
  <2>1. <<n, c>>[1] = n /\ <<n, c>>[2] = c
    OBVIOUS
  <2> QED
    BY <2>1
<1>4. locked' \subseteq TurnNumbers \X Said
  BY <1>1, <1>2 DEF LockedIsHeld
<1>5. \A k : HeldSince(k)' = HeldSince(k)
  BY <1>2 DEF HeldSince
<1>6. CASE IsEarly(m)
  <2>1. held' = HeldAfter(m) /\ current' = current /\ HoldAccepted(m)
    BY <1>6, Acts DEF Act, Acceptable
  <2>2. TurnsInOrder'
    BY <1>2, <2>1 DEF TurnsInOrder
  <2>3. \A k : HeldNow(k)' = HeldNow(k)
    BY <2>1 DEF HeldNow
  <2>4. n # current.number
    <3>1. n > NextTurn /\ NextTurn \in Nat /\ n \in Nat /\ n # 0
      BY <1>1, <1>6, Acts, Expected, NumberOfTurns DEF n
    <3>2. current.number \in {0, NextTurn}
      BY DEF TurnsInOrder
    <3> QED
      BY <3>1, <3>2
  <2>5. \A k : HeldEarly(k)' = IF k = n THEN HeldEarly(k) \cup {c} ELSE HeldEarly(k)
    <3>1. CASE Held(m) # {}
      <4>1. PICK h \in held : h.message_id = m.message_id /\ h.payload = m.payload
        BY <2>1, <3>1 DEF HoldAccepted, Held
      <4>2. EntryOf(h) = EntryOf(m)
        BY <4>1 DEF EntryOf
      <4>3. h \in Commits
        <5>1. h \in Commits \/ h \in Reveals
          BY DEF HeldIsAhead
        <5> QED
          BY <4>2, <5>1, SentReveals, EntriesDiffer
      <4>4. Number(h) = n /\ h.payload.says = c /\ h.message_type = "commit"
        BY <4>2, <4>3, EntriesDiffer, SentCommits DEF n, c
      <4>5. c \in HeldEarly(n)
        BY <4>4 DEF HeldEarly, Committed
      <4>6. held' = held
        BY <2>1, <3>1 DEF HeldAfter
      <4> QED
        BY <4>5, <4>6 DEF HeldEarly
    <3>2. CASE Held(m) = {}
      <4>1. held' = held \cup {m}
        BY <2>1, <3>2 DEF HeldAfter
      <4> QED
        BY <1>1, <4>1 DEF HeldEarly, Committed, n, c
    <3> QED
      BY <3>1, <3>2
  <2>6. \A k : HeldOf(k)' = IF k = n THEN HeldOf(k) \cup {c} ELSE HeldOf(k)
    BY <1>5, <2>3, <2>5, HeldIsThree, HeldIsThreeNext
  <2> QED
    BY <1>3, <1>4, <2>1, <2>2, <2>4, <2>6 DEF n, c
<1>7. CASE ~IsEarly(m)
  <2>1. held' = held /\ current' = CommitTaken(current, m) /\ CommitAcceptable(m)
    BY <1>1, <1>7, Acts DEF Act, Acceptable
  <2>2. Opens(n) /\ current.commit \in {NoCommit, c}
    BY <2>1 DEF CommitAcceptable, n, c
  <2>3. current' = [number |-> n, sealed |-> current.sealed, commit |-> c,
                   revealed |-> current.revealed]
    <3>1. current = [number |-> current.number, sealed |-> current.sealed,
                    commit |-> current.commit, revealed |-> current.revealed]
      BY DEF TurnsInOrder
    <3>2. current' = [current EXCEPT !.number = n, !.commit = c]
      BY <2>1 DEF CommitTaken, n, c
    <3> QED
      BY <3>1, <3>2
  <2>4. /\ current'.number = n /\ current'.sealed = current.sealed
        /\ current'.commit = c /\ current'.revealed = current.revealed
        /\ current' = [number |-> current'.number, sealed |-> current'.sealed,
                       commit |-> current'.commit, revealed |-> current'.revealed]
    BY <2>3
  <2>5. n = NextTurn /\ n # 0 /\ current.number \in {0, n} /\ ~(n <= Len(archived))
    <3> DEFINE len == Len(archived)
    <3>1. len \in Nat /\ IntakeExpected = len + 1 /\ n \in Nat /\ NextTurn = len + 1
      BY <1>1, Expected, NumberOfTurns
    <3>2. n > len /\ ~(n > len + 1) /\ current.number \in {0, n}
      BY <1>1, <1>7, <2>2, <3>1 DEF IsEarly, Opens, n
    <3> HIDE DEF len
    <3>3. n = len + 1 /\ n # 0 /\ ~(n <= len)
      BY <3>1, <3>2
    <3> QED
      BY <3>1, <3>2, <3>3 DEF len
  <2>6. TurnsInOrder'
    <3>1. /\ c \in Said /\ c # NoCommit /\ n # 0
      BY <1>1, <2>5, SaysAreSaid
    <3>2. current.sealed => current.number # 0 /\ NextTurn <= IntakeTurns /\ ~failed
      BY DEF TurnsInOrder
    <3>3. current.revealed => current.sealed
      BY DEF TurnsInOrder
    <3>4. /\ current'.sealed \in BOOLEAN /\ current'.revealed \in BOOLEAN /\ failed' \in BOOLEAN
          /\ archived' \in Seq(Said) /\ Len(archived') <= IntakeTurns
      BY <1>2, <2>4 DEF TurnsInOrder
    <3> QED
      BY <1>2, <2>4, <2>5, <3>1, <3>2, <3>3, <3>4 DEF TurnsInOrder
  <2>7. \A k : HeldEarly(k)' = HeldEarly(k)
    BY <2>1 DEF HeldEarly
  <2>8. \A k \in TurnNumbers : k # n => HeldNow(k)' = HeldNow(k)
    BY <2>4, <2>5, NumberOfTurns DEF HeldNow
  <2>9. HeldNow(n)' = {c} /\ HeldNow(n) \subseteq {c}
    <3>1. c # NoCommit
      BY <1>1, SaysAreSaid
    <3> QED
      BY <2>2, <2>4, <3>1 DEF HeldNow
  <2>10. \A k \in TurnNumbers :
           HeldOf(k)' = IF k = n THEN HeldOf(k) \cup {c} ELSE HeldOf(k)
    BY <1>5, <2>7, <2>8, <2>9, HeldIsThree, HeldIsThreeNext
  <2> QED
    BY <1>3, <1>4, <2>2, <2>4, <2>5, <2>6, <2>10 DEF n, c
<1> QED
  BY <1>6, <1>7

(* A reveal that is acted on is held, or marks the turn under way; nothing  *)
(* that is held of a commitment changes.                                    *)
LEMMA ActsOnReveal ==
  ASSUME IntakeInvariant, NEW m \in Messages, m \in Reveals, Act(m)
  PROVE  LET n == Number(m)
         IN  /\ \A k : HeldOf(k)' = HeldOf(k) /\ Given(k)' = Given(k)
             /\ locked' = locked /\ TurnsInOrder'
             /\ current'.sealed = current.sealed /\ current'.number = current.number
             /\ current'.commit = current.commit
             /\ IsEarly(m) => /\ current' = current
                              /\ \E h \in held' : h \in Reveals /\ Number(h) = n
             /\ ~IsEarly(m) => /\ current.number = n /\ current.sealed
                               /\ n = NextTurn /\ current'.revealed = TRUE
<1> USE DEF IntakeInvariant
<1>1. m.message_type = "reveal" /\ m.message_id = <<"reveal", Number(m)>>
  BY SentReveals
<1>2. locked' = locked /\ archived' = archived /\ failed' = failed /\ NextTurn' = NextTurn
  BY <1>1, Acts DEF Act
<1>3. \A k : Given(k)' = Given(k) /\ HeldSince(k)' = HeldSince(k)
  BY <1>2 DEF Given, HeldSince
<1>4. CASE IsEarly(m)
  <2>1. held' = HeldAfter(m) /\ current' = current
    BY <1>4, Acts DEF Act
  <2>2. TurnsInOrder'
    BY <1>2, <2>1 DEF TurnsInOrder
  <2>3. held' = held \/ held' = held \cup {m}
    BY <2>1 DEF HeldAfter
  <2>4. \A k : HeldEarly(k)' = HeldEarly(k)
    <3>1. ASSUME NEW k, held' = held \cup {m}
          PROVE  HeldEarly(k)' = HeldEarly(k)
      <4>1. {h \in {h \in held' : Number(h) = k} : h.message_type = "commit"}
              = {h \in {h \in held : Number(h) = k} : h.message_type = "commit"}
        BY <1>1, <3>1
      <4> QED
        BY <4>1 DEF HeldEarly, Committed
    <3> QED
      BY <2>3, <3>1 DEF HeldEarly
  <2>5. \A k : HeldNow(k)' = HeldNow(k)
    BY <2>1 DEF HeldNow
  <2>6. \E h \in held' : h \in Reveals /\ Number(h) = Number(m)
    <3>1. CASE Held(m) = {}
      BY <2>1, <3>1 DEF HeldAfter
    <3>2. CASE Held(m) # {}
      <4>1. PICK h \in held : h.message_id = m.message_id
        BY <3>2 DEF Held
      <4>2. h.message_id[1] = "reveal" /\ h.message_id[2] = Number(m) /\ held' = held
        BY <1>1, <2>1, <3>2, <4>1 DEF HeldAfter
      <4>3. h \in Commits \/ h \in Reveals
        BY DEF HeldIsAhead
      <4>4. h \notin Commits
        <5>1. h \in Commits => h.message_id[1] = "commit"
          BY SentCommits DEF EntryOf
        <5> QED
          BY <4>2, <5>1
      <4>5. h \in Reveals /\ h.message_id[2] = Number(h)
        BY <4>3, <4>4, SentReveals
      <4> QED
        BY <4>2, <4>5
    <3> QED
      BY <3>1, <3>2
  <2> QED
    BY <1>2, <1>3, <1>4, <2>1, <2>2, <2>4, <2>5, <2>6, HeldIsThree, HeldIsThreeNext
<1>5. CASE ~IsEarly(m)
  <2>1. /\ held' = held /\ current' = [current EXCEPT !.revealed = TRUE]
        /\ RevealAcceptable(m)
    BY <1>1, <1>5, Acts DEF Act, Acceptable
  <2>2. current.number = Number(m) /\ current.sealed /\ current.commit # NoCommit
    BY <2>1 DEF RevealAcceptable
  <2>3. /\ current'.number = current.number /\ current'.sealed = current.sealed
        /\ current'.commit = current.commit /\ current'.revealed = TRUE
        /\ current' = [number |-> current'.number, sealed |-> current'.sealed,
                       commit |-> current'.commit, revealed |-> current'.revealed]
    BY <2>1 DEF TurnsInOrder
  <2>4. TurnsInOrder'
    BY <1>2, <2>2, <2>3 DEF TurnsInOrder
  <2>5. \A k : HeldEarly(k)' = HeldEarly(k) /\ HeldNow(k)' = HeldNow(k)
    BY <2>1, <2>3 DEF HeldEarly, HeldNow
  <2>6. Number(m) = NextTurn
    BY <2>2 DEF TurnsInOrder
  <2> QED
    BY <1>2, <1>3, <1>5, <2>2, <2>3, <2>4, <2>5, <2>6, HeldIsThree, HeldIsThreeNext
<1> QED
  BY <1>4, <1>5

LEMMA ActsOnPing ==
  ASSUME IntakeInvariant, Act(Ping), Ping \in Messages
  PROVE  /\ current' = current /\ held' = held /\ locked' = locked
         /\ \A k : HeldOf(k)' = HeldOf(k) /\ Given(k)' = Given(k)
         /\ TurnsInOrder'
<1>1. /\ current' = current /\ held' = held /\ locked' = locked
      /\ archived' = archived /\ failed' = failed
  BY SentPing DEF Act, IsEarly
<1> QED
  BY <1>1 DEF HeldOf, Given, IntakeInvariant, TurnsInOrder, NextTurn

(* What was recorded stays known. *)
LEMMA ActsRecord ==
  ASSUME IntakeInvariant, NEW m \in Messages, Act(m)
  PROVE  RecordedOnce'
<1> USE DEF IntakeInvariant
<1>1. /\ m \in Commits \/ m \in Reveals \/ m = Ping
      /\ DOMAIN since' = DOMAIN since \cup {EntryOf(m)}
      /\ failed' = failed /\ NextTurn' = NextTurn
  BY Acts
<1>2. /\ \A k : Given(k) \subseteq Given(k)'
      /\ m \in Commits => m.payload.says \in Given(Number(m))'
  <2>1. CASE m \in Commits
    <3>1. \A k : Given(k)' = IF k = Number(m) THEN Given(k) \cup {m.payload.says} ELSE Given(k)
      BY <2>1, ActsOnCommit
    <3> QED
      BY <3>1
  <2>2. CASE m \in Reveals
    BY <2>2, ActsOnReveal, SentCommits, SentReveals
  <2>3. CASE m = Ping
    BY <2>3, ActsOnPing, SentCommits, SentPing
  <2> QED
    BY <1>1, <2>1, <2>2, <2>3
<1>3. /\ current'.sealed = current.sealed
      /\ current.number # 0 => current'.number = current.number
      /\ current.revealed => current'.revealed
  BY <1>1, ActsOnCommit, ActsOnReveal, ActsOnPing, Acts DEF TurnsInOrder
<1>4. held \subseteq held'
  BY <1>3, ActsAhead
<1>5. ASSUME NEW k \in Commits, EntryOf(k) \in DOMAIN since'
      PROVE  k.payload.says \in Given(Number(k))'
  <2>1. CASE EntryOf(k) \in DOMAIN since
    BY <1>2, <2>1 DEF RecordedOnce
  <2>2. CASE EntryOf(k) = EntryOf(m)
    <3>1. m \in Commits
      BY <1>1, <2>2, EntriesDiffer, SentReveals
    <3>2. Number(k) = Number(m) /\ k.payload.says = m.payload.says
      BY <2>2, <3>1, EntriesDiffer
    <3> QED
      BY <1>2, <3>1, <3>2
  <2> QED
    BY <1>1, <1>5, <2>1, <2>2
<1>6. ASSUME NEW n \in 1 .. IntakeTurns, RevealEntry(n) \in DOMAIN since'
      PROVE  \/ n < NextTurn'
             \/ current'.number = n /\ current'.revealed
             \/ \E h \in held' : h \in Reveals /\ Number(h) = n
             \/ failed' /\ n = NextTurn'
  <2>1. CASE RevealEntry(n) \in DOMAIN since
    <3>1. n # 0
      BY NumberOfTurns
    <3>2. \/ n < NextTurn
          \/ current.number = n /\ current.revealed
          \/ \E h \in held : h \in Reveals /\ Number(h) = n
          \/ failed /\ n = NextTurn
      BY <2>1 DEF RecordedOnce
    <3> QED
      BY <1>1, <1>3, <1>4, <3>1, <3>2
  <2>2. CASE RevealEntry(n) = EntryOf(m)
    <3>1. m \in Reveals
      BY <1>1, <2>2, EntriesDiffer
    <3>2. Number(m) = n
      BY <2>2, <3>1, EntriesDiffer, SentReveals
    <3>3. CASE IsEarly(m)
      BY <3>1, <3>2, <3>3, ActsOnReveal
    <3>4. CASE ~IsEarly(m)
      BY <3>1, <3>2, <3>4, ActsOnReveal
    <3> QED
      BY <3>3, <3>4
  <2> QED
    BY <1>1, <1>6, <2>1, <2>2
<1> QED
  BY <1>5, <1>6 DEF RecordedOnce

LEMMA ActKeeps ==
  ASSUME IntakeInvariant, NEW m \in Messages, Act(m)
  PROVE  IntakeInvariant'
<1> USE DEF IntakeInvariant
<1>1. /\ m \in Commits \/ m \in Reveals \/ m = Ping
      /\ RegistryRemembers' /\ DOMAIN since' = DOMAIN since \cup {EntryOf(m)}
      /\ failed' = failed /\ NextTurn' = NextTurn
  BY Acts
<1>2. /\ TurnsInOrder' /\ current'.sealed = current.sealed
      /\ \A k : Given(k) \subseteq Given(k)'
  <2>1. CASE m \in Commits
    <3>1. \A k : Given(k)' = IF k = Number(m) THEN Given(k) \cup {m.payload.says} ELSE Given(k)
      BY <2>1, ActsOnCommit
    <3> QED
      BY <2>1, <3>1, ActsOnCommit
  <2>2. CASE m \in Reveals
    BY <2>2, ActsOnReveal
  <2>3. CASE m = Ping
    BY <2>3, ActsOnPing
  <2> QED
    BY <1>1, <2>1, <2>2, <2>3
<1>3. HeldIsAhead'
  BY <1>2, ActsAhead
<1>4. RecordedOnce'
  BY ActsRecord
<1>5. FailsForCause'
  BY <1>1, <1>2 DEF FailsForCause
<1>6. LockedIsHeld'
  <2>1. CASE m \in Commits
    <3> DEFINE n == Number(m)
               c == m.payload.says
    <3>1. /\ \A k \in TurnNumbers :
               HeldOf(k)' = IF k = n THEN HeldOf(k) \cup {c} ELSE HeldOf(k)
          /\ \A k : Given(k)' = IF k = n THEN Given(k) \cup {c} ELSE Given(k)
          /\ locked' \subseteq TurnNumbers \X Said
          /\ current.number # 0 =>
               /\ current'.number = current.number
               /\ n = current.number => current.commit \in {NoCommit, c}
               /\ current.commit # NoCommit => current'.commit = current.commit
      BY <2>1, ActsOnCommit
    <3> HIDE DEF n, c
    <3>2. ASSUME NEW k \in TurnNumbers
          PROVE  \/ HeldOf(k)' = Given(k)'
                 \/ /\ failed' /\ k = current'.number
                    /\ HeldOf(k)' = {current'.commit} /\ current'.commit \in Given(k)'
      <4>1. CASE HeldOf(k) = Given(k)
        BY <3>1, <4>1
      <4>2. CASE /\ failed /\ k = current.number
                 /\ HeldOf(k) = {current.commit} /\ current.commit \in Given(k)
        <5>1. k # 0 /\ current.commit # NoCommit
          <6>1. \A l \in locked : l[2] \in Said
            BY DEF LockedIsHeld
          <6> QED
            BY <4>2, <6>1, NumberOfTurns, SaysAreSaid DEF Given
        <5>2. /\ current'.number = current.number /\ current'.commit = current.commit
              /\ n = k => c = current.commit
          BY <3>1, <4>2, <5>1
        <5> QED
          BY <1>1, <3>1, <4>2, <5>2
      <4> QED
        BY <4>1, <4>2 DEF LockedIsHeld
    <3> QED
      BY <3>1, <3>2 DEF LockedIsHeld
  <2>2. CASE m \in Reveals
    <3>1. /\ \A k : HeldOf(k)' = HeldOf(k) /\ Given(k)' = Given(k)
          /\ locked' = locked /\ current'.number = current.number
          /\ current'.commit = current.commit
      BY <2>2, ActsOnReveal
    <3> QED
      BY <1>1, <3>1 DEF LockedIsHeld
  <2>3. CASE m = Ping
    <3>1. /\ \A k : HeldOf(k)' = HeldOf(k) /\ Given(k)' = Given(k)
          /\ locked' = locked /\ current' = current
      BY <2>3, ActsOnPing
    <3> QED
      BY <1>1, <3>1 DEF LockedIsHeld
  <2> QED
    BY <1>1, <2>1, <2>2, <2>3
<1> QED
  BY <1>1, <1>2, <1>3, <1>4, <1>5, <1>6

(* The turn that is due: what is held of it, and all that was acknowledged. *)
LEMMA DueIsGiven ==
  ASSUME IntakeInvariant, CanBegin
  PROVE  /\ DueCommitments = Given(NextTurn) /\ DueCommitments \subseteq Said
         /\ \A n \in TurnNumbers : HeldOf(n) = Given(n)
         /\ ~current.sealed /\ ~current.revealed /\ ~failed
         /\ \A h \in Due : h \in held /\ Number(h) = NextTurn
<1>1. ~failed /\ ~current.sealed /\ ~current.revealed
  BY DEF CanBegin, IntakeInvariant, TurnsInOrder
<1>2. \A n \in TurnNumbers : HeldOf(n) = Given(n)
  BY <1>1 DEF IntakeInvariant, LockedIsHeld
<1>3. HeldOf(NextTurn) = DueCommitments /\ NextTurn \in TurnNumbers
  BY NextIsHeld, Expected DEF IntakeInvariant
<1>4. \A n : Given(n) \subseteq Said
  BY DEF IntakeInvariant, LockedIsHeld, Given
<1> QED
  BY <1>1, <1>2, <1>3, <1>4 DEF Due

(* What a drain leaves in the buffer is of later turns. *)
LEMMA DrainedAhead ==
  ASSUME IntakeInvariant, held' = held \ Due, UNCHANGED <<archived, since>>
  PROVE  /\ HeldIsAhead'
         /\ \A k : k # NextTurn => HeldEarly(k)' = HeldEarly(k)
         /\ HeldEarly(NextTurn)' = {}
         /\ \A h \in held : h \in held' \/ Number(h) = NextTurn
<1>1. NextTurn' = NextTurn
  BY DEF NextTurn
<1>2. \A h \in held' : h \in held /\ Number(h) # NextTurn
  BY DEF Due
<1>3. HeldIsAhead'
  BY <1>1, <1>2 DEF IntakeInvariant, HeldIsAhead
<1>4. \A k : k # NextTurn => {h \in held' : Number(h) = k} = {h \in held : Number(h) = k}
  BY DEF Due
<1>5. {h \in held' : Number(h) = NextTurn} = {}
  BY <1>2
<1>6. HeldEarly(NextTurn)' = {}
  <2>1. HeldEarly(NextTurn)' = Committed({h \in held' : Number(h) = NextTurn'})
    BY DEF HeldEarly, Committed
  <2> QED
    BY <1>1, <1>5, <2>1 DEF Committed
<1>7. \A k : k # NextTurn => HeldEarly(k)' = HeldEarly(k)
  BY <1>4 DEF HeldEarly, Committed
<1> QED
  BY <1>3, <1>6, <1>7 DEF Due

LEMMA BeginKeeps ==
  ASSUME IntakeInvariant, BeginAndDrain
  PROVE  IntakeInvariant'
<1> USE DEF IntakeInvariant
<1> DEFINE commit == IF DueCommitments = {} THEN NoCommit
                     ELSE CHOOSE c \in DueCommitments : TRUE
<1>1. /\ CanBegin /\ Drains
      /\ current' = [number |-> NextTurn, sealed |-> TRUE, revealed |-> FALSE,
                     commit |-> commit]
      /\ held' = held \ Due
      /\ UNCHANGED <<registry, archived, failed, since, locked>>
  BY DEF BeginAndDrain
<1>2. /\ DueCommitments = Given(NextTurn) /\ DueCommitments \subseteq Said
      /\ \A n \in TurnNumbers : HeldOf(n) = Given(n)
      /\ ~current.revealed /\ ~failed
  BY <1>1, DueIsGiven
<1>3. /\ NextTurn' = NextTurn /\ NextTurn \in TurnNumbers /\ NextTurn # 0
      /\ NextTurn <= IntakeTurns
  BY <1>1, Expected DEF NextTurn, CanBegin
<1>4. /\ commit \in Said \cup {NoCommit}
      /\ {commit} \ {NoCommit} = DueCommitments
  <2>1. CASE DueCommitments = {}
    BY <2>1
  <2>2. CASE DueCommitments # {}
    <3>1. commit \in DueCommitments
      BY <2>2
    <3>2. \A x \in DueCommitments : x = commit
      BY <1>1, <3>1 DEF Drains
    <3> HIDE DEF commit
    <3> QED
      BY <1>2, <3>1, <3>2, SaysAreSaid
  <2> QED
    BY <2>1, <2>2
<1> HIDE DEF commit
<1>5. /\ current'.number = NextTurn /\ current'.sealed = TRUE /\ current'.revealed = FALSE
      /\ current'.commit = commit
      /\ current' = [number |-> current'.number, sealed |-> current'.sealed,
                     commit |-> current'.commit, revealed |-> current'.revealed]
  BY <1>1
<1>6. TurnsInOrder'
  BY <1>1, <1>2, <1>3, <1>4, <1>5 DEF TurnsInOrder
<1>7. /\ HeldIsAhead' /\ HeldEarly(NextTurn)' = {}
      /\ \A k : k # NextTurn => HeldEarly(k)' = HeldEarly(k)
  BY <1>1, DrainedAhead
<1>8. \A k : HeldSince(k)' = HeldSince(k) /\ Given(k)' = Given(k)
  BY <1>1 DEF HeldSince, Given
<1>9. \A k \in TurnNumbers : HeldOf(k)' = HeldOf(k)
  <2> SUFFICES ASSUME NEW k \in TurnNumbers
               PROVE  HeldOf(k)' = HeldOf(k)
    OBVIOUS
  <2>1. CASE k = NextTurn
    <3>1. HeldNow(NextTurn)' = DueCommitments
      <4>1. HeldNow(NextTurn)' = {current'.commit} \ {NoCommit}
        BY <1>3, <1>5 DEF HeldNow
      <4> QED
        BY <1>4, <1>5, <4>1
    <3>2. HeldSince(NextTurn)' = {}
      <4>1. ~(NextTurn <= Len(archived))
        BY Expected
      <4> QED
        BY <1>1, <1>3, <4>1 DEF HeldSince
    <3>3. HeldOf(NextTurn)' = HeldEarly(NextTurn)' \cup HeldNow(NextTurn)' \cup HeldSince(NextTurn)'
      BY DEF HeldOf, HeldEarly, HeldNow, HeldSince
    <3>4. HeldOf(NextTurn)' = HeldOf(NextTurn)
      BY <1>7, <3>1, <3>2, <3>3, NextIsHeld
    <3> QED
      BY <1>3, <2>1, <3>4 DEF HeldOf
  <2>2. CASE k # NextTurn
    <3>1. HeldNow(k) = {} /\ HeldNow(k)' = {}
      BY <1>5, <2>2, NumberOfTurns DEF HeldNow, TurnsInOrder
    <3> QED
      BY <1>7, <1>8, <2>2, <3>1, HeldIsThree, HeldIsThreeNext
  <2> QED
    BY <2>1, <2>2
<1>10. LockedIsHeld'
  BY <1>1, <1>2, <1>8, <1>9 DEF LockedIsHeld
<1>11. RegistryRemembers' /\ FailsForCause'
  BY <1>1, <1>2 DEF RegistryRemembers, FailsForCause
<1>12. RecordedOnce'
  <2>1. \A n \in 1 .. IntakeTurns : RevealEntry(n) \in DOMAIN since =>
          n < NextTurn \/ \E h \in held' : h \in Reveals /\ Number(h) = n
    <3> SUFFICES ASSUME NEW n \in 1 .. IntakeTurns, RevealEntry(n) \in DOMAIN since,
                        ~(n < NextTurn)
                 PROVE  \E h \in held' : h \in Reveals /\ Number(h) = n
      OBVIOUS
    <3>1. PICK h \in held : h \in Reveals /\ Number(h) = n
      BY <1>2 DEF RecordedOnce
    <3>2. h \notin Due
      BY <1>1, <3>1, SentReveals DEF Drains
    <3> QED
      BY <1>1, <3>1, <3>2
  <2> QED
    BY <1>1, <1>3, <1>8, <2>1 DEF RecordedOnce
<1> QED
  BY <1>6, <1>7, <1>10, <1>11, <1>12

(* A drain that raises leaves the first commitment it recorded, and the     *)
(* reason is in what was acknowledged.                                      *)
LEMMA FailKeeps ==
  ASSUME IntakeInvariant, DrainFails
  PROVE  IntakeInvariant'
<1> USE DEF IntakeInvariant
<1>1. /\ CanBegin /\ ~Drains /\ held' = held \ Due /\ failed' = TRUE
      /\ UNCHANGED <<registry, archived, since, locked>>
  BY DEF DrainFails
<1>2. /\ DueCommitments = Given(NextTurn) /\ DueCommitments \subseteq Said
      /\ \A n \in TurnNumbers : HeldOf(n) = Given(n)
      /\ ~current.sealed /\ ~current.revealed
      /\ \A h \in Due : h \in held /\ Number(h) = NextTurn
  BY <1>1, DueIsGiven
<1>3. NextTurn' = NextTurn /\ NextTurn \in TurnNumbers /\ NextTurn # 0
  BY <1>1, Expected DEF NextTurn
<1>4. /\ HeldIsAhead' /\ HeldEarly(NextTurn)' = {}
      /\ \A k : k # NextTurn => HeldEarly(k)' = HeldEarly(k)
      /\ \A h \in held : h \in held' \/ Number(h) = NextTurn
  BY <1>1, DrainedAhead
<1>5. \A k : HeldSince(k)' = HeldSince(k) /\ Given(k)' = Given(k)
  BY <1>1 DEF HeldSince, Given
<1>6. \/ DueCommitments = {} /\ current' = current
      \/ \E c \in DueCommitments :
           current' = [current EXCEPT !.number = NextTurn, !.commit = c]
  BY DEF DrainFails
<1>7. /\ TurnsInOrder'
      /\ \/ DueCommitments = {} /\ current' = current
         \/ current'.number = NextTurn /\ current'.commit \in DueCommitments
  <2>1. CASE DueCommitments = {} /\ current' = current
    BY <1>1, <1>2, <1>3, <2>1 DEF TurnsInOrder
  <2>2. ASSUME NEW c \in DueCommitments,
               current' = [current EXCEPT !.number = NextTurn, !.commit = c]
        PROVE  TurnsInOrder' /\ current'.number = NextTurn /\ current'.commit \in DueCommitments
    <3>1. /\ current'.number = NextTurn /\ current'.sealed = FALSE
          /\ current'.commit = c /\ current'.revealed = FALSE
          /\ current' = [number |-> current'.number, sealed |-> current'.sealed,
                         commit |-> current'.commit, revealed |-> current'.revealed]
      BY <1>2, <2>2 DEF TurnsInOrder
    <3> QED
      BY <1>1, <1>2, <1>3, <2>2, <3>1 DEF TurnsInOrder
  <2> QED
    BY <1>6, <2>1, <2>2
<1>8. \A k \in TurnNumbers : k # NextTurn => HeldOf(k)' = HeldOf(k)
  <2> SUFFICES ASSUME NEW k \in TurnNumbers, k # NextTurn
               PROVE  HeldOf(k)' = HeldOf(k)
    OBVIOUS
  <2>1. HeldNow(k) = {} /\ HeldNow(k)' = {}
    BY <1>7, NumberOfTurns DEF HeldNow, TurnsInOrder
  <2> QED
    BY <1>4, <1>5, <2>1, HeldIsThree, HeldIsThreeNext
<1>9. HeldOf(NextTurn)' = {current'.commit} \ {NoCommit}
  <2>1. HeldSince(NextTurn)' = {}
    <3>1. ~(NextTurn <= Len(archived))
      BY Expected
    <3> QED
      BY <1>1, <1>3, <3>1 DEF HeldSince
  <2>2. HeldNow(NextTurn)' = {current'.commit} \ {NoCommit}
    BY <1>3, <1>7 DEF HeldNow, TurnsInOrder
  <2>3. HeldOf(NextTurn)' = HeldEarly(NextTurn)' \cup HeldNow(NextTurn)' \cup HeldSince(NextTurn)'
    BY DEF HeldOf, HeldEarly, HeldNow, HeldSince
  <2> QED
    BY <1>4, <2>1, <2>2, <2>3
<1>10. \/ HeldOf(NextTurn)' = Given(NextTurn)
       \/ /\ NextTurn = current'.number
          /\ HeldOf(NextTurn)' = {current'.commit} /\ current'.commit \in Given(NextTurn)
  <2>1. CASE DueCommitments = {} /\ current' = current
    <3>1. {current.commit} \ {NoCommit} = {}
      BY <2>1 DEF DueCommitments
    <3> QED
      BY <1>2, <1>9, <2>1, <3>1
  <2>2. CASE current'.number = NextTurn /\ current'.commit \in DueCommitments
    <3>1. current'.commit # NoCommit
      BY <1>2, <2>2, SaysAreSaid
    <3> QED
      BY <1>2, <1>9, <2>2, <3>1
  <2> QED
    BY <1>7, <2>1, <2>2
<1>11. LockedIsHeld'
  <2>1. ASSUME NEW k \in TurnNumbers
        PROVE  \/ HeldOf(k)' = Given(k)'
               \/ /\ failed' /\ k = current'.number
                  /\ HeldOf(k)' = {current'.commit} /\ current'.commit \in Given(k)'
    <3>1. CASE k = NextTurn
      <4>1. HeldOf(k)' = HeldOf(NextTurn)' /\ Given(k)' = Given(NextTurn)
        BY <1>3, <1>5, <3>1 DEF HeldOf
      <4> QED
        BY <1>1, <1>10, <3>1, <4>1
    <3>2. CASE k # NextTurn
      BY <1>2, <1>5, <1>8, <3>2
    <3> QED
      BY <3>1, <3>2
  <2> QED
    BY <1>1, <2>1 DEF LockedIsHeld
<1>12. RegistryRemembers'
  BY <1>1 DEF RegistryRemembers
<1>13. RecordedOnce'
  <2>1. ASSUME NEW n \in 1 .. IntakeTurns, RevealEntry(n) \in DOMAIN since
        PROVE  \/ n < NextTurn \/ n = NextTurn
               \/ \E h \in held' : h \in Reveals /\ Number(h) = n
    <3>1. \/ n < NextTurn \/ n = NextTurn
          \/ \E h \in held : h \in Reveals /\ Number(h) = n
      BY <1>2, <2>1 DEF RecordedOnce
    <3> QED
      BY <1>4, <3>1
  <2> QED
    BY <1>1, <1>3, <1>5, <2>1 DEF RecordedOnce
<1>14. FailsForCause'
  <2>1. CASE \E x, y \in DueCommitments : x # y
    BY <1>2, <1>3, <1>5, <2>1 DEF FailsForCause
  <2>2. CASE \E h \in Due : h.message_type # "commit"
    <3>1. PICK h \in Due : h.message_type # "commit"
      BY <2>2
    <3>2. h \in held /\ Number(h) = NextTurn
      BY <1>2, <3>1
    <3>3. h \in Reveals /\ EntryOf(h) \in DOMAIN since
      BY <3>1, <3>2, SentCommits DEF HeldIsAhead
    <3>4. RevealEntry(NextTurn) \in DOMAIN since
      BY <3>2, <3>3, SentReveals
    <3> QED
      BY <1>1, <1>3, <3>4 DEF FailsForCause
  <2> QED
    BY <1>1, <2>1, <2>2 DEF Drains
<1> QED
  BY <1>4, <1>7, <1>11, <1>12, <1>13, <1>14

LEMMA CompleteKeeps ==
  ASSUME IntakeInvariant, CompleteTurn
  PROVE  IntakeInvariant'
<1> USE DEF IntakeInvariant
<1> DEFINE len == Len(archived)
<1>1. /\ current.sealed /\ current.revealed /\ archived' = Append(archived, current.commit)
      /\ current' = NoTurn
      /\ UNCHANGED <<registry, held, failed, since, locked>>
  BY DEF CompleteTurn
<1>2. /\ current.number = NextTurn /\ current.commit \in Said /\ archived \in Seq(Said)
      /\ ~failed /\ NextTurn <= IntakeTurns
  BY <1>1 DEF TurnsInOrder
<1>3. len \in Nat /\ NextTurn = len + 1
  BY Expected
<1>4. /\ archived' \in Seq(Said) /\ Len(archived') = len + 1
      /\ \A k \in 1 .. len : archived'[k] = archived[k]
      /\ archived'[len + 1] = current.commit
  BY <1>1, <1>2
<1>5. NextTurn' = len + 2
  BY <1>3, <1>4 DEF NextTurn
<1> HIDE DEF len
<1>6. /\ current'.number = 0 /\ current'.sealed = FALSE /\ current'.revealed = FALSE
      /\ current'.commit = NoCommit
      /\ current' = [number |-> current'.number, sealed |-> current'.sealed,
                     commit |-> current'.commit, revealed |-> current'.revealed]
  BY <1>1 DEF NoTurn
<1>7. TurnsInOrder'
  BY <1>1, <1>2, <1>3, <1>4, <1>6 DEF TurnsInOrder
<1>8. HeldIsAhead'
  <2>1. \A h \in held : Number(h) \in Nat
    BY SentCommits, SentReveals, NumberOfTurns DEF HeldIsAhead
  <2>2. ASSUME NEW h \in held
        PROVE  Number(h) >= len + 2
    <3>1. Number(h) >= len + 1 /\ Number(h) # len + 1
      BY <1>1, <1>3 DEF HeldIsAhead
    <3> QED
      BY <1>3, <2>1, <3>1
  <2> QED
    BY <1>1, <1>2, <1>5, <1>6, <2>2 DEF HeldIsAhead
<1>9. \A k : HeldEarly(k)' = HeldEarly(k) /\ Given(k)' = Given(k)
  BY <1>1 DEF HeldEarly, Given
<1>10. \A k \in TurnNumbers : HeldNow(k) \cup HeldSince(k) = HeldNow(k)' \cup HeldSince(k)'
  <2> SUFFICES ASSUME NEW k \in TurnNumbers
               PROVE  HeldNow(k) \cup HeldSince(k) = HeldNow(k)' \cup HeldSince(k)'
    OBVIOUS
  <2>1. k \in Nat /\ k # 0
    BY NumberOfTurns
  <2>2. HeldNow(k)' = {}
    BY <1>6, <2>1 DEF HeldNow
  <2>3. CASE k = len + 1
    <3>1. ~(k <= len) /\ k <= len + 1
      BY <1>3, <2>3
    <3>2. HeldSince(k) = {} /\ HeldSince(k)' = {current.commit}
      BY <1>4, <2>3, <3>1 DEF HeldSince, len
    <3>3. HeldNow(k) = {current.commit}
      BY <1>2, <1>3, <2>3, SaysAreSaid DEF HeldNow
    <3> QED
      BY <2>2, <3>2, <3>3
  <2>4. CASE k # len + 1
    <3>1. HeldNow(k) = {}
      BY <1>2, <1>3, <2>4 DEF HeldNow
    <3>2. (k <= len <=> k <= len + 1) /\ (k <= len => k \in 1 .. len)
      BY <1>3, <2>1, <2>4
    <3>3. HeldSince(k)' = HeldSince(k)
      BY <1>4, <3>2 DEF HeldSince, len
    <3> QED
      BY <2>2, <3>1, <3>3
  <2> QED
    BY <2>3, <2>4
<1>11. \A k \in TurnNumbers : HeldOf(k)' = HeldOf(k)
  BY <1>9, <1>10, HeldIsThree, HeldIsThreeNext
<1>12. LockedIsHeld'
  BY <1>1, <1>2, <1>9, <1>11 DEF LockedIsHeld
<1>13. RegistryRemembers' /\ FailsForCause'
  BY <1>1, <1>2 DEF RegistryRemembers, FailsForCause
<1>14. RecordedOnce'
  <2>1. \A n \in 1 .. IntakeTurns : RevealEntry(n) \in DOMAIN since =>
          n < len + 2 \/ \E h \in held : h \in Reveals /\ Number(h) = n
    <3> SUFFICES ASSUME NEW n \in 1 .. IntakeTurns, RevealEntry(n) \in DOMAIN since
                 PROVE  n < len + 2 \/ \E h \in held : h \in Reveals /\ Number(h) = n
      OBVIOUS
    <3>1. \/ n < len + 1 \/ n = len + 1
          \/ \E h \in held : h \in Reveals /\ Number(h) = n
      BY <1>2, <1>3 DEF RecordedOnce
    <3>2. n < len + 1 \/ n = len + 1 => n < len + 2
      BY <1>3
    <3> QED
      BY <3>1, <3>2
  <2> QED
    BY <1>1, <1>5, <1>9, <2>1 DEF RecordedOnce
<1> QED
  BY <1>7, <1>8, <1>12, <1>13, <1>14

LEMMA IntakeKeepsInvariant ==
  ASSUME IntakeInvariant, [IntakeNext]_intakeVars
  PROVE  IntakeInvariant'
<1>1. ASSUME NEW m \in Messages, Arrive(m)
      PROVE  IntakeInvariant'
  <2>1. CASE RefuseMessage(m) \/ AnswerAgain(m)
    BY <2>1, NothingChanges DEF RefuseMessage, AnswerAgain
  <2>2. CASE Act(m)
    BY <2>2, ActKeeps
  <2> QED
    BY <1>1, <2>1, <2>2 DEF Arrive
<1>2. CASE UNCHANGED intakeVars
  BY <1>2, NothingChanges DEF intakeVars
<1> QED
  BY <1>1, <1>2, BeginKeeps, FailKeeps, CompleteKeeps DEF IntakeNext

-----------------------------------------------------------------------------
(* What follows from the invariant. *)

LEMMA InvariantKeepsCommits ==
  ASSUME IntakeInvariant
  PROVE  CommitsAreKept
<1> USE DEF IntakeInvariant
<1> SUFFICES ASSUME NEW n \in TurnNumbers
             PROVE  /\ HeldOf(n) \subseteq Given(n) /\ "stray" \notin Given(n)
                    /\ ~failed => HeldOf(n) = Given(n)
                    /\ n <= Len(archived) \/ (current.number = n /\ current.sealed) =>
                         \A x, y \in Given(n) : x = y
  BY DEF CommitsAreKept, TurnNumbers
<1>1. \/ HeldOf(n) = Given(n)
      \/ /\ failed /\ n = current.number
         /\ HeldOf(n) = {current.commit} /\ current.commit \in Given(n)
  BY DEF LockedIsHeld
<1>2. "stray" \notin Given(n)
  <2>1. \A l \in locked : l[2] \in Said
    BY DEF LockedIsHeld
  <2> QED
    BY <2>1, SaysAreSaid DEF Given
<1>3. ASSUME n <= Len(archived)
      PROVE  \A x, y \in Given(n) : x = y
  BY <1>1, <1>3, CompletedIsHeld
<1>4. ASSUME current.number = n, current.sealed
      PROVE  \A x, y \in Given(n) : x = y
  <2>1. ~failed /\ n = NextTurn
    BY <1>4 DEF TurnsInOrder
  <2> QED
    BY <1>1, <1>4, <2>1, NextIsHeld
<1> QED
  BY <1>1, <1>2, <1>3, <1>4

(* Acting on a copy, when its id is forgotten, changes nothing it should    *)
(* not: a commitment is already held, and a reveal of a turn that is under  *)
(* way is already revealed.                                                 *)
LEMMA ActingAgainIsIdle ==
  ASSUME IntakeInvariant, NEW m \in Messages, Act(m), EntryOf(m) \in DOMAIN since
  PROVE  /\ \A n \in TurnNumbers : HeldOf(n)' = HeldOf(n)
         /\ UNCHANGED <<current.sealed, current.revealed, archived, failed>>
<1> USE DEF IntakeInvariant
<1>1. /\ archived' = archived /\ failed' = failed
      /\ m \in Commits \/ m \in Reveals \/ m = Ping
  BY Acts
<1>2. CASE m \in Commits
  <2> DEFINE n == Number(m)
             c == m.payload.says
  <2>1. /\ \A k \in TurnNumbers :
             HeldOf(k)' = IF k = n THEN HeldOf(k) \cup {c} ELSE HeldOf(k)
        /\ current'.sealed = current.sealed /\ current'.revealed = current.revealed
        /\ current.number # 0 => (n = current.number => current.commit \in {NoCommit, c})
    BY <1>2, ActsOnCommit
  <2>2. c \in Given(n) /\ n \in TurnNumbers /\ n # 0
    BY <1>2, SentCommits, NumberOfTurns DEF RecordedOnce
  <2> HIDE DEF n, c
  <2>3. c \in HeldOf(n)
    <3>1. CASE HeldOf(n) = Given(n)
      BY <2>2, <3>1
    <3>2. CASE /\ failed /\ n = current.number
               /\ HeldOf(n) = {current.commit} /\ current.commit \in Given(n)
      <4>1. current.commit # NoCommit
        <5>1. \A l \in locked : l[2] \in Said
          BY DEF LockedIsHeld
        <5> QED
          BY <3>2, <5>1, SaysAreSaid DEF Given
      <4> QED
        BY <2>1, <2>2, <3>2, <4>1
    <3> QED
      BY <2>2, <3>1, <3>2 DEF LockedIsHeld
  <2> QED
    BY <1>1, <2>1, <2>3
<1>3. CASE m \in Reveals
  <2>1. /\ \A k : HeldOf(k)' = HeldOf(k)
        /\ current'.sealed = current.sealed
        /\ IsEarly(m) => current' = current
        /\ ~IsEarly(m) => /\ current.number = Number(m) /\ current.sealed
                          /\ Number(m) = NextTurn /\ current'.revealed = TRUE
    BY <1>3, ActsOnReveal
  <2>2. CASE IsEarly(m)
    BY <1>1, <2>1, <2>2
  <2>3. CASE ~IsEarly(m)
    <3>1. RevealEntry(NextTurn) \in DOMAIN since /\ NextTurn \in 1 .. IntakeTurns
      BY <1>3, <2>1, <2>3, SentReveals
    <3>2. ~(NextTurn < NextTurn) /\ ~failed
      BY <2>1, <2>3, Expected DEF TurnsInOrder
    <3>3. ~ \E h \in held : h \in Reveals /\ Number(h) = NextTurn
      BY <2>1, <2>3 DEF HeldIsAhead
    <3>4. current.revealed
      BY <3>1, <3>2, <3>3 DEF RecordedOnce
    <3>5. current.revealed = TRUE
      BY <3>4 DEF TurnsInOrder
    <3> QED
      BY <1>1, <2>1, <2>3, <3>5
  <2> QED
    BY <2>2, <2>3
<1>4. CASE m = Ping
  BY <1>1, <1>4, ActsOnPing
<1> QED
  BY <1>1, <1>2, <1>3, <1>4

LEMMA IntakeCopiesAreIdle ==
  ASSUME IntakeInvariant, IntakeNext
  PROVE  CopiesAreIdle
<1>1. ASSUME NEW m \in Messages, Arrive(m), answer'.to \in DOMAIN since
      PROVE  /\ \A n \in TurnNumbers : HeldOf(n)' = HeldOf(n)
             /\ UNCHANGED <<current.sealed, current.revealed, archived, failed>>
             /\ answer'.how = "acted" => since[answer'.to] >= RegistryDepth
  <2>1. CASE RefuseMessage(m) \/ AnswerAgain(m)
    <3>1. /\ UNCHANGED <<registry, held, current, archived, failed, since, locked>>
          /\ answer'.how # "acted"
      BY <2>1 DEF RefuseMessage, AnswerAgain, Reply
    <3> QED
      BY <3>1, NothingChanges
  <2>2. CASE Act(m)
    <3>1. Entry(m) = {} /\ answer'.to = EntryOf(m)
      BY <2>2 DEF Act, Reply
    <3>2. since[answer'.to] >= RegistryDepth
      BY <1>1, <3>1, Forgotten DEF IntakeInvariant
    <3> QED
      BY <1>1, <2>2, <3>1, <3>2, ActingAgainIsIdle
  <2> QED
    BY <1>1, <2>1, <2>2 DEF Arrive
<1>2. ASSUME BeginAndDrain \/ DrainFails \/ CompleteTurn
      PROVE  answer'.how = ""
  <2>1. answer' = NoAnswer
    BY <1>2 DEF BeginAndDrain, DrainFails, CompleteTurn
  <2> QED
    BY <2>1 DEF NoAnswer
<1> QED
  BY <1>1, <1>2 DEF IntakeNext, CopiesAreIdle, TurnNumbers

LEMMA IntakeTypes ==
  ASSUME IntakeInvariant
  PROVE  IntakeTypeOK
<1> USE DEF IntakeInvariant
<1>1. Lists!Range(registry) \subseteq Entries /\ Len(registry) <= RegistryDepth
  BY DEF Lists!Range, RegistryRemembers
<1>2. held \subseteq Commits \cup Reveals /\ DOMAIN since \subseteq Entries
  BY DEF HeldIsAhead, RegistryRemembers
<1>3. current.number \in 0 .. IntakeTurns + 1
  BY NumberOfTurns, Expected DEF TurnsInOrder, TurnNumbers
<1> QED
  BY <1>1, <1>2, <1>3 DEF IntakeTypeOK, TurnsInOrder

-----------------------------------------------------------------------------
(* Each of the parts of IntakeInvariant, in every state: the turn under way *)
(* is the one after the completed ones, the registry still has everything   *)
(* it should, what the peer acknowledged of a turn is what it holds until   *)
(* that turn is given up, and it is given up for a cause only.              *)
THEOREM IntakeSafe == IntakeSpec => []IntakeInvariant
<1>1. IntakeInit => IntakeInvariant
  BY IntakeBegins
<1>2. IntakeInvariant /\ [IntakeNext]_intakeVars => IntakeInvariant'
  BY IntakeKeepsInvariant
<1> QED
  BY <1>1, <1>2, PTL DEF IntakeSpec

(* The types of Intake: nothing of a stray message is ever recorded.        *)
THEOREM IntakeStaysInType == IntakeSpec => []IntakeTypeOK
<1>1. IntakeInvariant => IntakeTypeOK
  BY IntakeTypes
<1> QED
  BY <1>1, IntakeSafe, PTL

(* Whatever commitments are sent, under however many ids: a turn that this  *)
(* peer seals a move for or completes has one acknowledged commitment at    *)
(* most and keeps it, a match is given up only for an opponent that         *)
(* committed twice or revealed early, and a copy of an answered message has *)
(* no effect, not even once the registry has forgotten it.                  *)
THEOREM AcknowledgedCommitIsKept == IntakeSpec => LockedCommitIsKept
<1>1. IntakeInvariant => CommitsAreKept /\ FailsForCause
  BY InvariantKeepsCommits DEF IntakeInvariant
<1>2. IntakeInvariant /\ [IntakeNext]_intakeVars => [CopiesAreIdle]_intakeVars
  BY IntakeCopiesAreIdle
<1> QED
  BY <1>1, <1>2, IntakeSafe, PTL DEF IntakeSpec, LockedCommitIsKept

-----------------------------------------------------------------------------
(* Inboxes of the v3 contract. *)

(* Two receivers of one stream, in whatever order it arrives. *)
InboxSpec == InboxInit /\ [][InboxNext]_inboxVars

(* A set of integers between two bounds has a greatest one. *)
LEMMA GreatestIsReached ==
  ASSUME NEW a \in Int, NEW b \in Int, NEW S, S \subseteq a .. b, S # {}
  PROVE  Sets!Max(S) \in S /\ \A y \in S : Sets!Max(S) >= y
<1> DEFINE T == {k \in Nat : b - k \in S}
           R == OpToRel(<, Nat)
<1>1. IsWellFoundedOn(R, Nat)
  BY NatLessThanWellFounded
<1>2. T # {}
  <2>1. PICK x \in S : TRUE
    OBVIOUS
  <2>2. x \in Int /\ a <= x /\ x <= b
    OBVIOUS
  <2>3. b - x \in Nat /\ b - (b - x) = x
    BY <2>2
  <2>4. b - x \in T
    BY <2>1, <2>3
  <2> QED
    BY <2>4
<1>3. PICK k \in T : \A j \in T : ~(<<j, k>> \in R)
  <2> HIDE DEF R
  <2> QED
    BY <1>1, <1>2, WFMin
<1>4. k \in Nat /\ b - k \in S
  BY <1>3
<1>5. ASSUME NEW y \in S
      PROVE  b - k >= y
  <2>1. y \in Int /\ y <= b
    OBVIOUS
  <2>2. b - y \in Nat /\ b - (b - y) = y
    BY <2>1
  <2>3. b - y \in T
    BY <2>2
  <2>4. ~(b - y < k)
    BY <1>3, <1>4, <2>2, <2>3 DEF OpToRel
  <2> QED
    BY <1>4, <2>1, <2>2, <2>4
<1>6. \E x \in S : \A y \in S : x >= y
  BY <1>4, <1>5
<1> QED
  BY <1>6 DEF Sets!Max

(* What an arrival of the next step makes ready ends before the next gap.   *)
LEMMA DrainsToTheGap ==
  ASSUME NEW in, InboxStands(in), NEW m, m.step = in.next
  PROVE  /\ LastReady(in, m) \in Int /\ LastReady(in, m) >= in.next
         /\ in.next + 1 .. LastReady(in, m) \subseteq DOMAIN in.buffered
         /\ LastReady(in, m) + 1 \notin DOMAIN in.buffered
<1>1. PICK n \in Nat, w \in Nat :
        /\ n = in.next /\ w = Window
        /\ DOMAIN in.buffered \subseteq n + 1 .. n + w
  BY WindowAssumption DEF InboxStands
<1> DEFINE B == DOMAIN in.buffered
           S == {k \in {n} \cup B : k >= n /\ (n + 1) .. k \subseteq B}
<1>2. LastReady(in, m) = Sets!Max(S)
  BY <1>1 DEF LastReady
<1> HIDE DEF B
<1>3. B \subseteq n + 1 .. n + w
  BY <1>1 DEF B
<1>4. S \subseteq n .. n + w /\ n \in S
  <2>1. (n + 1) .. n = {}
    OBVIOUS
  <2>2. n \in S
    BY <2>1
  <2>3. ASSUME NEW k \in S
        PROVE  k \in n .. n + w
    <3>1. k = n \/ k \in n + 1 .. n + w
      BY <1>3
    <3> QED
      BY <3>1
  <2> QED
    BY <2>2, <2>3
<1>5. Sets!Max(S) \in S /\ \A y \in S : Sets!Max(S) >= y
  <2>1. n \in Int /\ n + w \in Int /\ S # {}
    BY <1>4
  <2> HIDE DEF S
  <2> QED
    BY <1>4, <2>1, GreatestIsReached
<1>6. PICK k \in Int : k = Sets!Max(S) /\ k \in S /\ (\A y \in S : k >= y)
  <2>1. Sets!Max(S) \in n .. n + w
    BY <1>4, <1>5
  <2> HIDE DEF S
  <2> QED
    BY <1>5, <2>1
<1>7. k >= n /\ (n + 1) .. k \subseteq B
  BY <1>6
<1>8. k + 1 \notin B
  <2> SUFFICES ASSUME k + 1 \in B
               PROVE  FALSE
    OBVIOUS
  <2>1. (n + 1) .. (k + 1) \subseteq B
    <3>1. (n + 1) .. (k + 1) = ((n + 1) .. k) \cup {k + 1}
      BY <1>7
    <3> QED
      BY <1>7, <3>1
  <2>2. k + 1 \in S
    BY <1>7, <2>1
  <2> QED
    BY <1>6, <2>2
<1> QED
  BY <1>1, <1>2, <1>6, <1>7, <1>8 DEF B

LEMMA WhatIsDecided ==
  ASSUME NEW in, InboxStands(in), NEW m, m.step \in Nat
  PROVE  /\ Decision(in, m) = "apply" <=> m.step = in.next
         /\ Decision(in, m) = "buffer" => m.step \in in.next + 1 .. in.next + Window
         /\ m.step > in.next => Decision(in, m) \in {"buffer", "violation"}
         /\ \A s \in DOMAIN in.played : m.step = s /\ m.commit # in.played[s] => Refused(in, m)
<1>1. PICK n \in Int, w \in Int, s \in Nat :
        /\ n = in.next /\ w = Window /\ s = m.step /\ DOMAIN in.played = 1 .. n - 1
  BY WindowAssumption DEF InboxStands
<1>2. n \notin 1 .. n - 1 /\ (s > n => s \notin 1 .. n - 1 /\ s # n /\ ~(s < n))
  BY <1>1
<1> QED
  BY <1>1, <1>2 DEF Decision, Refused

(* An arrival that is kept for later. *)
LEMMA Buffering ==
  ASSUME NEW in, InboxStands(in), NEW m, m.step \in Nat, Decision(in, m) = "buffer"
  PROVE  /\ InboxStands(Offered(in, m)) /\ Ready(in, m) = <<>>
         /\ Offered(in, m).next = in.next /\ Offered(in, m).played = in.played
         /\ DOMAIN Offered(in, m).buffered = DOMAIN in.buffered \cup {m.step}
         /\ \A s \in DOMAIN Offered(in, m).buffered :
              Offered(in, m).buffered[s] = IF s = m.step THEN m ELSE in.buffered[s]
<1> DEFINE b == [s \in DOMAIN in.buffered \cup {m.step} |-> IF s = m.step THEN m ELSE in.buffered[s]]
<1>1. Offered(in, m) = [in EXCEPT !.buffered = b] /\ Ready(in, m) = <<>>
  BY DEF Offered, Ready
<1>2. in = [next |-> in.next, played |-> in.played, buffered |-> in.buffered]
  BY DEF InboxStands
<1>3. DOMAIN b = DOMAIN in.buffered \cup {m.step} /\ \A s \in DOMAIN b :
        b[s] = IF s = m.step THEN m ELSE in.buffered[s]
  OBVIOUS
<1> HIDE DEF b
<1>4. Offered(in, m) = [next |-> in.next, played |-> in.played, buffered |-> b]
  BY <1>1, <1>2
<1>5. DOMAIN b \subseteq in.next + 1 .. in.next + Window
  BY <1>3, WhatIsDecided DEF InboxStands
<1>6. InboxStands(Offered(in, m))
  BY <1>4, <1>5 DEF InboxStands
<1> QED
  BY <1>1, <1>3, <1>4, <1>6

(* The arrival of the next step. *)
LEMMA Applying ==
  ASSUME NEW in, InboxStands(in), NEW m, m.step = in.next
  PROVE  LET o == Offered(in, m)
             k == LastReady(in, m)
         IN  /\ InboxStands(o) /\ o.next = k + 1
             /\ \A s \in DOMAIN in.played : s \in DOMAIN o.played /\ o.played[s] = in.played[s]
             /\ \A s \in in.next .. k :
                  o.played[s] = IF s = in.next THEN m.commit ELSE in.buffered[s].commit
             /\ \A s \in DOMAIN in.buffered : s > k => s \in DOMAIN o.buffered
             /\ \A s \in DOMAIN o.buffered :
                  s \in DOMAIN in.buffered /\ o.buffered[s] = in.buffered[s]
             /\ Ready(in, m) = [i \in 1 .. k - in.next + 1 |->
                  IF i = 1 THEN m ELSE in.buffered[in.next + i - 1]]
<1>1. Decision(in, m) = "apply"
  BY WhatIsDecided DEF InboxStands
<1>2. PICK n \in Int, w \in Int, k \in Int :
        /\ n = in.next /\ w = Window /\ k = LastReady(in, m) /\ n >= 1 /\ k >= n
        /\ DOMAIN in.played = 1 .. n - 1
        /\ DOMAIN in.buffered \subseteq n + 1 .. n + w
        /\ k + 1 \notin DOMAIN in.buffered
        /\ n + 1 .. k \subseteq DOMAIN in.buffered
  BY DrainsToTheGap, WindowAssumption DEF InboxStands
<1> DEFINE play == [s \in DOMAIN in.played \cup n .. k |->
                      CASE s = n -> m.commit
                        [] s \in DOMAIN in.played -> in.played[s]
                        [] OTHER -> in.buffered[s].commit]
           keep == [s \in {s \in DOMAIN in.buffered : s > k} |-> in.buffered[s]]
<1>3. Offered(in, m) = [next |-> k + 1, played |-> play, buffered |-> keep]
  BY <1>1, <1>2 DEF Offered, Funs!RestrictDomain, Funs!Restrict
<1>4. DOMAIN play = 1 .. k
  BY <1>2
<1>5. \A s \in DOMAIN in.played : s \in DOMAIN play /\ play[s] = in.played[s]
  <2>1. n \notin DOMAIN in.played
    BY <1>2
  <2> QED
    BY <2>1
<1>6. \A s \in n .. k : play[s] = IF s = n THEN m.commit ELSE in.buffered[s].commit
  <2>1. \A s \in n .. k : s \notin DOMAIN in.played
    BY <1>2
  <2> QED
    BY <2>1
<1>7. /\ DOMAIN keep = {s \in DOMAIN in.buffered : s > k}
      /\ \A s \in DOMAIN keep : keep[s] = in.buffered[s]
  OBVIOUS
<1>8. Ready(in, m) = [i \in 1 .. k - n + 1 |-> IF i = 1 THEN m ELSE in.buffered[n + i - 1]]
  BY <1>1, <1>2 DEF Ready
<1> HIDE DEF play, keep
<1>9. DOMAIN keep \subseteq (k + 1) + 1 .. (k + 1) + w
  <2> SUFFICES ASSUME NEW s \in DOMAIN keep
               PROVE  s \in (k + 1) + 1 .. (k + 1) + w
    OBVIOUS
  <2>1. s \in n + 1 .. n + w /\ s > k /\ s # k + 1
    BY <1>2, <1>7
  <2> QED
    BY <1>2, <2>1
<1>10. InboxStands(Offered(in, m))
  <2>1. k + 1 \in Nat \ {0} /\ (k + 1) - 1 = k
    BY <1>2
  <2> QED
    BY <1>2, <1>3, <1>4, <1>9, <2>1 DEF InboxStands
<1> QED
  BY <1>2, <1>3, <1>5, <1>6, <1>7, <1>8, <1>10

(* Anything else changes nothing. *)
LEMMA Ignoring ==
  ASSUME NEW in, NEW m, Decision(in, m) \notin {"apply", "buffer"}
  PROVE  Offered(in, m) = in /\ Ready(in, m) = <<>>
BY DEF Offered, Ready

-----------------------------------------------------------------------------
LEMMA Receiving ==
  ASSUME NEW in, NEW said \in Seq(Stream), NEW heard \in SUBSET Stream, NEW m \in Stream,
         ReceiverStands(in, said, heard, FALSE), ~Refused(in, m)
  PROVE  /\ ReceiverStands(Offered(in, m), said \o Ready(in, m), heard \cup {m}, FALSE)
         /\ said \o Ready(in, m) \in Seq(Stream)
         /\ \A s \in DOMAIN in.played :
              s \in DOMAIN Offered(in, m).played /\ Offered(in, m).played[s] = in.played[s]
<1> DEFINE o == Offered(in, m)
           q == Ready(in, m)
<1>1. InboxStands(in) /\ m.step \in Nat /\ in.next \in Nat \ {0}
  BY StreamAssumption DEF ReceiverStands, InboxStands
<1>2. CASE Decision(in, m) = "apply"
  <2>1. m.step = in.next
    BY <1>1, <1>2, WhatIsDecided
  <2>2. PICK n \in Int, w \in Int, k \in Int :
          /\ n = in.next /\ w = Window /\ k = LastReady(in, m) /\ n >= 1 /\ k >= n
          /\ DOMAIN in.played = 1 .. n - 1 /\ m.step = n /\ Len(said) = n - 1
          /\ DOMAIN in.buffered \subseteq n + 1 .. n + w
          /\ n + 1 .. k \subseteq DOMAIN in.buffered
    BY <1>1, <2>1, DrainsToTheGap, WindowAssumption DEF InboxStands, ReceiverStands
  <2>3. /\ InboxStands(o) /\ o.next = k + 1
        /\ \A s \in DOMAIN in.played : s \in DOMAIN o.played /\ o.played[s] = in.played[s]
        /\ \A s \in n .. k : o.played[s] = IF s = n THEN m.commit ELSE in.buffered[s].commit
        /\ \A s \in DOMAIN in.buffered : s > k => s \in DOMAIN o.buffered
        /\ \A s \in DOMAIN o.buffered : s \in DOMAIN in.buffered /\ o.buffered[s] = in.buffered[s]
        /\ q = [i \in 1 .. k - n + 1 |-> IF i = 1 THEN m ELSE in.buffered[n + i - 1]]
    BY <1>1, <2>1, <2>2, Applying, SMTT(60)
  <2> HIDE DEF o, q
  <2>4. \A s \in n .. k : (s = n \/ s \in DOMAIN in.buffered)
    BY <2>2
  <2>5. ASSUME NEW i \in 1 .. k - n + 1
        PROVE  /\ q[i] \in heard \cup {m} /\ q[i] \in Stream /\ q[i].step = n + i - 1
               /\ q[i].commit = o.played[n + i - 1]
    <3>1. n + i - 1 \in n .. k /\ (i = 1 <=> n + i - 1 = n)
      BY <2>2, SMTT(60)
    <3>2. q[i] = IF n + i - 1 = n THEN m ELSE in.buffered[n + i - 1]
      BY <2>3, <3>1
    <3>3. PICK s \in n .. k : s = n + i - 1
      BY <3>1
    <3>4. q[i] \in heard \cup {m} /\ q[i].step = s
      BY <2>2, <2>4, <3>2, <3>3 DEF ReceiverStands
    <3>5. q[i].commit = o.played[s]
      BY <2>3, <3>2, <3>3
    <3> QED
      BY <3>3, <3>4, <3>5
  <2>6. q \in Seq(Stream) /\ Len(q) = k - n + 1
    <3>1. k - n + 1 \in Nat /\ DOMAIN q = 1 .. k - n + 1
      BY <2>2, <2>3
    <3>2. q = [i \in 1 .. k - n + 1 |-> q[i]]
      BY <2>3
    <3>3. q \in [1 .. k - n + 1 -> Stream]
      BY <2>5, <3>2
    <3> QED
      BY <3>1, <3>3
  <2> DEFINE t == said \o q
  <2>7. t \in Seq(Stream) /\ Len(t) = k
    <3>1. Len(t) = Len(said) + Len(q)
      BY <2>6
    <3> QED
      BY <2>2, <2>6, <3>1
  <2>8. /\ \A i \in 1 .. n - 1 : t[i] = said[i]
        /\ \A s \in n .. k : t[s] = q[s - n + 1] /\ s - n + 1 \in 1 .. k - n + 1
    <3>1. /\ \A i \in 1 .. n - 1 : t[i] = said[i]
          /\ \A s \in n .. k : t[s] = q[s - (n - 1)]
      <4>1. /\ \A i \in 1 .. Len(said) : t[i] = said[i]
            /\ \A j \in 1 .. Len(q) : t[Len(said) + j] = q[j]
        BY <2>6
      <4>2. ASSUME NEW s \in n .. k
            PROVE  t[s] = q[s - (n - 1)]
        <5>1. Len(said) = n - 1 /\ Len(q) = k - n + 1
          BY <2>2, <2>6
        <5>2. s - (n - 1) \in 1 .. k - n + 1
          OBVIOUS
        <5>3. (n - 1) + (s - (n - 1)) = s
          OBVIOUS
        <5> QED
          BY <4>1, <5>1, <5>2, <5>3
      <4> QED
        BY <2>2, <4>1, <4>2
    <3>2. \A s \in n .. k : s - (n - 1) = s - n + 1 /\ s - n + 1 \in 1 .. k - n + 1
      BY <2>2
    <3> QED
      BY <3>1, <3>2
  <2> HIDE DEF t
  <2>9. \A i \in 1 .. k : t[i].step = i /\ t[i] \in heard \cup {m} /\ t[i].commit = o.played[i]
    <3> SUFFICES ASSUME NEW i \in 1 .. k
                 PROVE  t[i].step = i /\ t[i] \in heard \cup {m} /\ t[i].commit = o.played[i]
      OBVIOUS
    <3>1. CASE i \in 1 .. n - 1
      BY <2>2, <2>3, <2>8, <3>1 DEF ReceiverStands
    <3>2. CASE i \in n .. k
      <4>1. n + (i - n + 1) - 1 = i
        BY <2>2
      <4> QED
        BY <2>5, <2>8, <3>2, <4>1
    <3> QED
      BY <2>2, <3>1, <3>2
  <2>10. DOMAIN o.played = 1 .. k
    BY <2>2, <2>3 DEF InboxStands
  <2>11. \A l \in heard \cup {m} : l.step < k + 1 \/ l.step \in DOMAIN o.buffered
    <3> SUFFICES ASSUME NEW l \in heard \cup {m}, ~(l.step < k + 1)
                 PROVE  l.step \in DOMAIN o.buffered
      OBVIOUS
    <3>1. l.step \in Nat
      BY StreamAssumption
    <3>2. l.step > k /\ ~(l.step < n) /\ l.step # n
      BY <2>2, <3>1
    <3>3. l \in heard /\ l.step \in DOMAIN in.buffered
      BY <2>2, <3>2 DEF ReceiverStands
    <3> QED
      BY <2>3, <3>2, <3>3
  <2>12. \A s \in DOMAIN o.buffered : o.buffered[s] \in heard \cup {m} /\ o.buffered[s].step = s
    BY <2>3 DEF ReceiverStands
  <2>13. Len(t) = o.next - 1
    BY <2>2, <2>3, <2>7
  <2>14. ReceiverStands(o, t, heard \cup {m}, FALSE)
    BY <2>2, <2>3, <2>7, <2>9, <2>10, <2>11, <2>12, <2>13 DEF ReceiverStands
  <2> QED
    BY <2>3, <2>7, <2>14 DEF o, q, t
<1>3. CASE Decision(in, m) = "buffer"
  <2>1. /\ InboxStands(o) /\ q = <<>> /\ o.next = in.next /\ o.played = in.played
        /\ DOMAIN o.buffered = DOMAIN in.buffered \cup {m.step}
        /\ \A s \in DOMAIN o.buffered : o.buffered[s] = IF s = m.step THEN m ELSE in.buffered[s]
    BY <1>1, <1>3, Buffering
  <2>2. said \o q = said
    BY <2>1
  <2> HIDE DEF o, q
  <2>3. ReceiverStands(o, said, heard \cup {m}, FALSE)
    BY <2>1 DEF ReceiverStands
  <2> QED
    BY <2>1, <2>2, <2>3 DEF o, q
<1>4. CASE Decision(in, m) \notin {"apply", "buffer"}
  <2>1. o = in /\ said \o q = said
    <3>1. q = <<>> /\ o = in
      BY <1>4, Ignoring
    <3> QED
      BY <3>1
  <2>2. m.step < in.next
    <3>1. PICK n \in Int, s \in Int : n = in.next /\ s = m.step
      BY <1>1
    <3>2. s # n /\ ~(s > n)
      BY <1>1, <1>4, <3>1, WhatIsDecided DEF Refused
    <3> QED
      BY <3>1, <3>2
  <2>3. ReceiverStands(in, said, heard \cup {m}, FALSE)
    BY <2>2 DEF ReceiverStands
  <2> QED
    BY <2>1, <2>3
<1> QED
  BY <1>2, <1>3, <1>4

LEMMA InboxBegins ==
  ASSUME InboxInit
  PROVE  InboxInvariant
<1>1. ReceiverStands(EmptyInbox, <<>>, {}, FALSE)
  BY DEF ReceiverStands, InboxStands, EmptyInbox
<1>2. /\ DOMAIN inbox = Receiver /\ applied \in [Receiver -> Seq(Stream)]
      /\ offered \in [Receiver -> SUBSET Stream] /\ refused \in [Receiver -> BOOLEAN]
      /\ \A r \in Receiver : /\ inbox[r] = EmptyInbox /\ applied[r] = <<>>
                             /\ offered[r] = {} /\ refused[r] = FALSE
  BY DEF InboxInit
<1> QED
  BY <1>1, <1>2 DEF InboxInvariant

(* What one arrival does to its receiver. *)
LEMMA OfferKeeps ==
  ASSUME InboxInvariant, NEW r \in Receiver, NEW m \in Stream, Offer(r, m)
  PROVE  InboxInvariant' /\ PlayedStands
<1>1. /\ ReceiverStands(inbox[r], applied[r], offered[r], FALSE) /\ refused[r] = FALSE
      /\ applied[r] \in Seq(Stream) /\ offered[r] \in SUBSET Stream
      /\ ~Refused(inbox[r], m)
  BY DEF InboxInvariant, Offer
<1> DEFINE o == Offered(inbox[r], m)
           q == Ready(inbox[r], m)
<1>2. /\ ReceiverStands(o, applied[r] \o q, offered[r] \cup {m}, FALSE)
      /\ applied[r] \o q \in Seq(Stream)
      /\ \A s \in DOMAIN inbox[r].played :
           s \in DOMAIN o.played /\ o.played[s] = inbox[r].played[s]
  BY <1>1, Receiving
<1>3. /\ inbox' = [inbox EXCEPT ![r] = o] /\ applied' = [applied EXCEPT ![r] = applied[r] \o q]
      /\ offered' = [offered EXCEPT ![r] = offered[r] \cup {m}] /\ refused' = refused
  BY DEF Offer
<1> HIDE DEF o, q
<1>4. /\ DOMAIN inbox' = Receiver /\ applied' \in [Receiver -> Seq(Stream)]
      /\ offered' \in [Receiver -> SUBSET Stream] /\ refused' \in [Receiver -> BOOLEAN]
      /\ inbox'[r] = o /\ applied'[r] = applied[r] \o q /\ offered'[r] = offered[r] \cup {m}
      /\ \A u \in Receiver \ {r} : /\ inbox'[u] = inbox[u] /\ applied'[u] = applied[u]
                                   /\ offered'[u] = offered[u]
  <2>1. offered[r] \cup {m} \in SUBSET Stream
    BY <1>1
  <2> QED
    BY <1>2, <1>3, <2>1 DEF InboxInvariant
<1>5. InboxInvariant'
  <2>1. \A u \in Receiver : ReceiverStands(inbox'[u], applied'[u], offered'[u], refused'[u])
    BY <1>1, <1>2, <1>3, <1>4 DEF InboxInvariant
  <2> QED
    BY <1>4, <2>1 DEF InboxInvariant, ReceiverStands, InboxStands
<1>6. PlayedStands
  <2> SUFFICES ASSUME NEW u \in Receiver, NEW s \in DOMAIN inbox[u].played
               PROVE  /\ s \in DOMAIN inbox'[u].played
                      /\ inbox'[u].played[s] = inbox[u].played[s]
                      /\ \A l \in offered'[u] \ offered[u] :
                           ~(l.step = s /\ l.commit # inbox[u].played[s])
    BY DEF PlayedStands
  <2>1. CASE u = r
    <3>1. InboxStands(inbox[r]) /\ m.step \in Nat
      BY <1>1, StreamAssumption DEF ReceiverStands
    <3>2. ~(m.step = s /\ m.commit # inbox[r].played[s])
      BY <1>1, <2>1, <3>1, WhatIsDecided
    <3> QED
      BY <1>2, <1>4, <2>1, <3>2
  <2>2. CASE u # r
    BY <1>4, <2>2
  <2> QED
    BY <2>1, <2>2
<1> QED
  BY <1>5, <1>6

LEMMA RefuseTurnKeeps ==
  ASSUME InboxInvariant, NEW r \in Receiver, NEW m \in Stream, RefuseTurn(r, m)
  PROVE  InboxInvariant' /\ PlayedStands
<1>1. /\ UNCHANGED <<inbox, applied>> /\ refused' = [refused EXCEPT ![r] = TRUE]
      /\ offered' = [offered EXCEPT ![r] = offered[r] \cup {m}]
  BY DEF RefuseTurn
<1>2. /\ offered' \in [Receiver -> SUBSET Stream] /\ refused' \in [Receiver -> BOOLEAN]
      /\ refused'[r] = TRUE /\ offered'[r] = offered[r] \cup {m}
      /\ \A u \in Receiver \ {r} : refused'[u] = refused[u] /\ offered'[u] = offered[u]
  BY <1>1 DEF InboxInvariant
<1>3. ReceiverStands(inbox[r], applied[r], offered[r] \cup {m}, TRUE)
  BY DEF InboxInvariant, ReceiverStands
<1>4. \A u \in Receiver : ReceiverStands(inbox'[u], applied'[u], offered'[u], refused'[u])
  BY <1>1, <1>2, <1>3 DEF InboxInvariant
<1>5. InboxInvariant'
  BY <1>1, <1>2, <1>4 DEF InboxInvariant, ReceiverStands, InboxStands
<1>6. PlayedStands
  BY <1>1, <1>2 DEF PlayedStands
<1> QED
  BY <1>5, <1>6

LEMMA InboxKeepsInvariant ==
  ASSUME InboxInvariant, [InboxNext]_inboxVars
  PROVE  InboxInvariant' /\ [PlayedStands]_inboxVars
<1>1. CASE UNCHANGED inboxVars
  BY <1>1 DEF InboxInvariant, ReceiverStands, InboxStands, inboxVars
<1>2. ASSUME NEW r \in Receiver, NEW m \in Stream, Offer(r, m) \/ RefuseTurn(r, m)
      PROVE  InboxInvariant' /\ PlayedStands
  BY <1>2, OfferKeeps, RefuseTurnKeeps
<1> QED
  BY <1>1, <1>2 DEF InboxNext

(* If every step up to s arrived, none of them waits for an earlier one.    *)
LEMMA NothingWaits ==
  ASSUME InboxInvariant, NEW r \in Receiver
  PROVE  AppliedInOrder(r) /\ NothingLeftBehind(r)
<1>1. ReceiverStands(inbox[r], applied[r], offered[r], refused[r]) /\ refused[r] \in BOOLEAN
  BY DEF InboxInvariant
<1>2. PICK n \in Int, w \in Int :
        /\ n = inbox[r].next /\ n >= 1 /\ w = Window /\ Len(applied[r]) = n - 1
        /\ DOMAIN inbox[r].buffered \subseteq n + 1 .. n + w
  BY <1>1, WindowAssumption DEF ReceiverStands, InboxStands
<1>3. AppliedInOrder(r)
  BY <1>1 DEF AppliedInOrder, ReceiverStands
<1>4. ASSUME NEW s \in Steps \ {0}, \A k \in 1 .. s : Arrived(r, k), ~refused[r], ~(s <= n - 1)
      PROVE  FALSE
  <2>1. s \in Nat
    BY <1>4, StreamAssumption DEF Steps
  <2>2. n \in 1 .. s
    BY <1>2, <1>4, <2>1
  <2>3. PICK m \in offered[r] : m.step = n
    BY <1>4, <2>2 DEF Arrived
  <2>4. ~(m.step < n) /\ m.step \notin DOMAIN inbox[r].buffered
    BY <1>2, <2>3
  <2> QED
    BY <1>1, <1>2, <1>4, <2>4 DEF ReceiverStands
<1>5. NothingLeftBehind(r)
  BY <1>2, <1>4 DEF NothingLeftBehind
<1> QED
  BY <1>3, <1>5

(* The steps below the next one are played, and the buffer holds later      *)
(* steps of the window that arrived: all of them, unless a message was      *)
(* refused.                                                                 *)
THEOREM InboxSafe == InboxSpec => []InboxInvariant
<1>1. InboxInit => InboxInvariant
  BY InboxBegins
<1>2. InboxInvariant /\ [InboxNext]_inboxVars => InboxInvariant'
  BY InboxKeepsInvariant
<1> QED
  BY <1>1, <1>2, PTL DEF InboxSpec

(* The types of Inbox follow from its invariant. *)
LEMMA InboxTyped ==
  ASSUME InboxInvariant
  PROVE  InboxTypeOK
<1>1. SUFFICES ASSUME NEW r \in Receiver
               PROVE  /\ inbox[r].next \in Nat \ {0}
                      /\ DOMAIN inbox[r].played \subseteq Steps
                      /\ \A s \in DOMAIN inbox[r].buffered :
                           inbox[r].buffered[s] \in Stream /\ inbox[r].buffered[s].step = s
  BY DEF InboxInvariant, InboxTypeOK
<1>2. /\ ReceiverStands(inbox[r], applied[r], offered[r], refused[r])
      /\ offered[r] \subseteq Stream
  BY DEF InboxInvariant
<1>3. ASSUME NEW s \in DOMAIN inbox[r].played
      PROVE  s \in Steps
  <2>1. s \in 1 .. Len(applied[r])
    BY <1>2, <1>3 DEF ReceiverStands, InboxStands
  <2>2. applied[r][s].step = s /\ applied[r][s] \in Stream
    BY <1>2, <2>1 DEF ReceiverStands
  <2> QED
    BY <2>2 DEF Steps
<1> QED
  BY <1>2, <1>3 DEF ReceiverStands, InboxStands

(* Whatever the order and the copies in which a stream arrives: what a      *)
(* receiver applied is the steps from 1 on, each once and as sent, nothing  *)
(* that could be applied is left behind, and a step that was played stands. *)
THEOREM DeliveryIsExact == InboxSpec => StreamIsDelivered
<1>1. InboxInvariant => \A r \in Receiver : AppliedInOrder(r) /\ NothingLeftBehind(r)
  BY NothingWaits
<1>2. InboxInvariant /\ [InboxNext]_inboxVars => [PlayedStands]_inboxVars
  BY InboxKeepsInvariant
<1> QED
  BY <1>1, <1>2, InboxSafe, PTL DEF InboxSpec, StreamIsDelivered
=============================================================================
