------------------------- MODULE ServicesInvariant --------------------------
(* The inductive invariants of the components beside the protocol that are  *)
(* proved about: configuration, learning, the audit log, tracking and the   *)
(* window.                                                                  *)
EXTENDS Config, Learning, AuditLog, Tracker, Gui

-----------------------------------------------------------------------------
(* Config: what a process has loaded passed every layer of validation, what *)
(* two processes accepted is the same, and what the verification CLI passed *)
(* still passes.                                                            *)
ConfigInvariant ==
  /\ process \in [Owner -> {"down", "failed", "crashed", "up", "refused"}]
  /\ accepted \in [Owner -> BOOLEAN]
  /\ cleared \in [Owner -> BOOLEAN]
  /\ DOMAIN loaded = Owner /\ DOMAIN role = Owner
  /\ \A p \in Owner : process[p] = "up" => LoadFault(loaded[p]) = "none"
  /\ \A p \in Owner : accepted[p] => process[p] = "up"
  /\ accepted["police"] /\ accepted["thief"] => Agrees("police")
  /\ \A p \in Owner : cleared[p] => VerifyPasses(p)

(* The files hold what json.loads returns, whoever wrote them. *)
IsFile(f) ==
  /\ DOMAIN f = {"form", "layout", "edits"}
  /\ \A k \in DOMAIN f.edits : IsJson(f.edits[k])
FilesAreJson ==
  /\ DOMAIN file = Owner /\ DOMAIN loaded = Owner
  /\ \A p \in Owner : IsFile(file[p]) /\ IsFile(loaded[p])

-----------------------------------------------------------------------------
(* Learning: a temporary file is whole, it is one game ahead of the profile *)
(* it will replace when nobody else writes that, and it counts no match     *)
(* that was not played.                                                     *)
Taught(p) == matches[p] - (IF at[p] \in {"playing", "learning"} THEN 1 ELSE 0)
AllTaught == Taught("police") + Taught("thief")

LearnInvariant ==
  /\ LearnTypeOK
  /\ ProfilesAreWhole
  /\ \A p \in Learner :
       /\ draft[p].whole
       /\ at[p] # "idle" => saved[p] < matches[p]
       /\ at[p] = "written" => draft[p].games = files[p].games + 1
       /\ at[p] = "global written" => draft[p].games <= earlier + AllTaught
  /\ files["global"].games <= earlier + AllTaught

(* The temporary file of an opponent's profile, which one process writes,   *)
(* is that profile after the match it saw.                                  *)
DraftsContinue ==
  \A p \in Learner :
    at[p] = "written" => draft[p] = update(_load(files[p]), Observation(p, seen[p]))

-----------------------------------------------------------------------------
(* The audit log: as long as nobody edited the file it is what was sealed,  *)
(* and what was sealed is linked from line to line as far as it parses.     *)
IsLine(r) ==
  /\ r.parses \in BOOLEAN
  /\ r = [parses |-> r.parses, event_id |-> r.event_id, event_type |-> r.event_type,
          previous_event_hash |-> r.previous_event_hash,
          current_event_hash |-> r.current_event_hash]
IsLog(lines) ==
  /\ lines \in Seq({lines[i] : i \in DOMAIN lines})
  /\ \A i \in DOMAIN lines : IsLine(lines[i])

ParsesTo(i) == \A j \in 1..i : sealed[j].parses

(* What a record at line i links to. *)
Link(i) ==
  IF i \in Lines!ToSet(starts) THEN GENESIS_HASH ELSE sealed[i - 1].current_event_hash
SealedAt(i) ==
  /\ sealed[i].event_id = i /\ sealed[i].event_type \in AuditEventType
  /\ sealed[i].previous_event_hash = Link(i)
  /\ sealed[i].current_event_hash = compute_record_hash(sealed[i])

(* A process that nobody followed may have torn its last line only.         *)
OnlyTheLastIsTorn ==
  /\ \A i \in DOMAIN sealed : i < Len(sealed) \/ running => sealed[i].parses
  /\ running => ~tornLine

AuditInvariant ==
  /\ IsLog(log) /\ IsLog(sealed)
  /\ starts \in Seq(Nat \ {0}) /\ 1 \in Lines!ToSet(starts)
  /\ \A i \in Lines!ToSet(starts) : i <= Len(sealed) + 1
  /\ edits \in Nat /\ tornLine \in BOOLEAN /\ running \in BOOLEAN
  /\ edits = 0 => log = sealed
  /\ running => edits = 0
  /\ tornLine => Len(sealed) > 0
  /\ \A i \in DOMAIN sealed : ParsesTo(i) => SealedAt(i)
  /\ running /\ ParsesTo(Len(sealed)) => previous = Link(Len(sealed) + 1)
  /\ Len(starts) = 1 => OnlyTheLastIsTorn

-----------------------------------------------------------------------------
(* Tracking: the two boards hold the same barriers, no more than the cop    *)
(* placed, and a cell that a belief must keep is not under one.             *)
TrackInvariant ==
  /\ TrackTypeOK /\ \A r \in Role : live[r].role = r
  /\ live["police"].barriers = live["thief"].barriers
  /\ IsFiniteSet(live["police"].barriers)
  /\ Cardinality(live["police"].barriers) <= live["police"].placed
  /\ live["police"].placed <= MaxBarriers
  /\ ~over["police"] => replayed \notin live["police"].barriers
  /\ ~underCop => live["police"].position \notin live["police"].barriers
  /\ BeliefNeverRulesOut

-----------------------------------------------------------------------------
(* The window: a snapshot carries the status of the match, the slot is      *)
(* ended after the last one, and the main loop is left with it drawn.       *)
SnapshotIsCurrent == IF latest = NoView THEN status = "" ELSE latest.status = status

GuiInvariant ==
  /\ GuiTypeOK
  /\ SnapshotIsCurrent
  /\ finished <=> worker \in {"stopped", "returned"}
  /\ banner = "GAME COMPLETE" => status # ""
  /\ main = "joining" => finished
  /\ LeftWithTheEnd
=============================================================================
