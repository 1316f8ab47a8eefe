------------------------- MODULE MessagesInvariant --------------------------
(* The inductive invariants of what sends and takes in messages: the way out *)
(* through gatekeeper and channel, the intake of a turn's messages and the  *)
(* v3 inboxes.                                                              *)
EXTENDS Channel, Intake, Inbox

-----------------------------------------------------------------------------
(* The channel: who has a token of the bucket while nothing goes wrong, and *)
(* that a caller's backoffs refilled what the others have spent.            *)

Holders == {c \in Caller : HoldsSlot(c)}
Spenders == {c \in Caller : awaiting[c] \in {"future", "answered"}}

(* What has been refilled since c first tried: tokens left or spent. *)
Refilled(c) == attempt[c] * Backoff - sleep[c]
Provided == tokens + Cost * Cardinality(Spenders)

PlacesFit ==
  \A c \in Caller \cup Prober :
    /\ awaiting[c] = "idle" => attempt[c] = 0
    /\ awaiting[c] = "backoff" => c \in Caller /\ attempt[c] < MaxAttempts
WorkerServes ==
  /\ workerTask # "given_up"
  /\ \A c \in Caller \cup Prober : awaiting[c] # "opening"
RefillKeepsUp ==
  \A c \in Caller : awaiting[c] = "backoff" => Refilled(c) <= Provided \/ Capacity <= Provided
NobodyStarves == \A c \in Caller : awaiting[c] # "failed"

ChannelInvariant ==
  /\ ChannelTypeOK /\ PlacesFit /\ SlotsAreHeld
  /\ healthy => WorkerServes /\ RefillKeepsUp
  /\ healthy /\ EnoughForAll => NobodyStarves

-----------------------------------------------------------------------------
(* The intake: what the registry still remembers, what is held, and that    *)
(* every commitment acknowledged is among it until its turn is given up.    *)

TurnNumbers == 1 .. IntakeTurns + 1

(* CommitRevealCoordinator: the turn under way follows the completed ones.  *)
TurnsInOrder ==
  /\ current = [number |-> current.number, sealed |-> current.sealed,
                commit |-> current.commit, revealed |-> current.revealed]
  /\ current.sealed \in BOOLEAN /\ current.revealed \in BOOLEAN /\ failed \in BOOLEAN
  /\ current.commit \in Said \cup {NoCommit}
  /\ archived \in Seq(Said) /\ Len(archived) <= IntakeTurns
  /\ current.number \in {0, NextTurn}
  /\ current.number = 0 => current.commit = NoCommit /\ ~current.sealed
  /\ current.revealed => current.sealed /\ current.commit # NoCommit
  /\ current.sealed => current.number # 0 /\ NextTurn <= IntakeTurns /\ ~failed

(* MessageRegistry: an entry is at the place it was recorded at, counted    *)
(* from the end, for as long as fewer than RegistryDepth came after it.     *)
FromTheEnd(s, d) == s[Len(s) - d]
RegistryRemembers ==
  /\ registry \in Seq(Entries)
  /\ Len(registry) <= RegistryDepth
  /\ \A e \in DOMAIN since :
       /\ e \in Entries
       /\ since[e] \in 0 .. RegistryDepth
       /\ since[e] < RegistryDepth =>
            since[e] < Len(registry) /\ FromTheEnd(registry, since[e]) = e

(* PendingTurnBuffer: what is held was answered, and its turn is not begun. *)
HeldIsAhead ==
  \A h \in held :
    /\ h \in Commits \cup Reveals
    /\ EntryOf(h) \in DOMAIN since
    /\ Number(h) >= NextTurn
    /\ Number(h) = NextTurn => ~current.sealed /\ ~failed

(* What is known of a message that was once recorded. *)
RecordedOnce ==
  /\ \A m \in Commits : EntryOf(m) \in DOMAIN since => m.payload.says \in Given(Number(m))
  /\ \A n \in 1 .. IntakeTurns : RevealEntry(n) \in DOMAIN since =>
       \/ n < NextTurn
       \/ current.number = n /\ current.revealed
       \/ \E h \in held : h \in Reveals /\ Number(h) = n
       \/ failed /\ n = NextTurn

(* What has been acknowledged is what is held, except that a turn the drain *)
(* gave up has the first of its commitments only.                           *)
LockedIsHeld ==
  /\ locked \subseteq TurnNumbers \X Said
  /\ \A n \in TurnNumbers :
       \/ HeldOf(n) = Given(n)
       \/ /\ failed /\ n = current.number
          /\ HeldOf(n) = {current.commit} /\ current.commit \in Given(n)

IntakeInvariant ==
  /\ TurnsInOrder
  /\ RegistryRemembers
  /\ HeldIsAhead
  /\ RecordedOnce
  /\ LockedIsHeld
  /\ FailsForCause

-----------------------------------------------------------------------------
(* Inboxes: the steps below the next one are played, the buffer holds later *)
(* ones of the window that arrived, and unless a message was refused every  *)
(* later step that arrived is in it.                                        *)
InboxStands(in) ==
  /\ in = [next |-> in.next, played |-> in.played, buffered |-> in.buffered]
  /\ in.next \in Nat \ {0}
  /\ DOMAIN in.played = 1 .. in.next - 1
  /\ DOMAIN in.buffered \subseteq in.next + 1 .. in.next + Window

ReceiverStands(in, said, heard, stopped) ==
  /\ InboxStands(in)
  /\ \A s \in DOMAIN in.buffered : in.buffered[s] \in heard /\ in.buffered[s].step = s
  /\ Len(said) = in.next - 1
  /\ \A i \in 1 .. Len(said) : said[i].step = i /\ said[i] \in heard
  /\ \A s \in DOMAIN in.played : in.played[s] = said[s].commit
  /\ ~stopped => \A m \in heard : m.step < in.next \/ m.step \in DOMAIN in.buffered

InboxInvariant ==
  /\ DOMAIN inbox = Receiver /\ applied \in [Receiver -> Seq(Stream)]
  /\ offered \in [Receiver -> SUBSET Stream] /\ refused \in [Receiver -> BOOLEAN]
  /\ \A r \in Receiver : ReceiverStands(inbox[r], applied[r], offered[r], refused[r])
=============================================================================
