------------------------------ MODULE Learning ------------------------------
(***************************************************************************)
(* Adaptive learning (--adaptive-learning): two peers that share a         *)
(* directory of profiles, a global one and one for each opponent.  A match *)
(* begins with a strategy derived from the two profiles that concern it    *)
(* and, if it ended cleanly, is folded into both.  The process may end at   *)
(* any point, and nothing locks the files.                                 *)
(*                                                                         *)
(* A rate in [0, 1] is counted in 1/UNIT, a strategy parameter in 1/10000. *)
(***************************************************************************)
EXTENDS Integers

Extrema == INSTANCE FiniteSetsExt

CONSTANTS
  MaxMatches,   \* bound: matches of the two peers
  EarlierGames  \* bound: how many games the profiles may start with

ASSUME EarlierAssumption == MaxMatches \in Nat /\ EarlierGames \subseteq Nat

VARIABLES
  files,   \* the profiles on disk
  at,      \* where record_match_outcome of each peer is
  seen,    \* what the match taught: the rate observed
  draft,   \* the profile in the temporary file
  matches, \* matches begun
  earlier, \* history: games the global profile began with
  saved    \* history: "learning update: saved" was reported so often

learnVars == <<files, at, seen, draft, matches, earlier, saved>>

Learner == {"police", "thief"}
Names == {"global"} \cup Learner  \* opponents/<key>.json of that peer's opponent
UNIT == 64

-----------------------------------------------------------------------------
(* LearningProfile: the tendency that the peer's parameter depends on, the  *)
(* opponent's barrier rate for the thief, its direction bias for the cop.   *)

Fresh == [games |-> 0, barrier |-> 0, direction |-> 0, whole |-> TRUE]
Torn == [Fresh EXCEPT !.whole = FALSE]
Profiles == [games : Nat, barrier : 0..UNIT, direction : 0..UNIT, whole : BOOLEAN]

Saturation == 8
Confidence(profile) == Extrema!Min({Saturation, profile.games})

Average_Replace(profile, old, new) == new
Average(profile, old, new) == IF profile.games = 0 THEN new ELSE (3 * old + new) \div 4

(* The cop never sees a barrier of the opponent, which cannot place one.    *)
Observation(p, rate) == [barrier |-> IF p = "thief" THEN rate ELSE 0, direction |-> rate]

update(profile, o) ==
  [profile EXCEPT !.games = @ + 1,
                  !.barrier = Average(profile, @, o.barrier),
                  !.direction = Average(profile, @, o.direction)]

(* Whatever cannot be read is a fresh profile. *)
_load(profile) == IF profile.whole THEN profile ELSE Fresh

-----------------------------------------------------------------------------
(* Adaptation: from the baseline towards the target by at most the learning *)
(* rate, in proportion to the confidence, in tenths of Saturation.          *)

Bounds == [thief |-> [lo |-> 6000, hi |-> 24000], police |-> [lo |-> 1000, hi |-> 2000]]
Baseline == [thief |-> 12000, police |-> 1500]
LEARNING_RATE == [thief |-> 4, police |-> 2]  \* in tenths

Clip(x, b) == Extrema!Max({b.lo, Extrema!Min({b.hi, x})})
_blend(p, target, confidence) ==
  Clip(Baseline[p] + (confidence * LEARNING_RATE[p] * (target - Baseline[p]))
                     \div (100 * Saturation), Bounds[p])

_select_profile(global, opponent) ==
  IF opponent.games > 0
  THEN [profile |-> opponent, confidence |-> 7 * Confidence(opponent) + 3 * Confidence(global)]
  ELSE [profile |-> global, confidence |-> 10 * Confidence(global)]

Target(p, profile) ==
  LET width == Bounds[p].hi - Bounds[p].lo IN
  IF p = "thief" THEN Bounds[p].lo + (profile.barrier * width) \div UNIT
  ELSE Bounds[p].hi - (profile.direction * width) \div UNIT

Derived(p, global, opponent) ==
  LET chosen == _select_profile(global, opponent)
  IN  _blend(p, Target(p, chosen.profile), chosen.confidence)

-----------------------------------------------------------------------------
LearnTypeOK ==
  /\ files \in [Names -> Profiles] /\ draft \in [Learner -> Profiles]
  /\ at \in [Learner -> {"idle", "playing", "learning", "global written", "global saved", "written"}]
  /\ seen \in [Learner -> {0, UNIT}]
  /\ matches \in [Learner -> 0..MaxMatches] /\ earlier \in Nat
  /\ saved \in [Learner -> Nat] /\ \A p \in Learner : saved[p] \in 0..matches[p]

EarlierProfiles ==
  {Fresh} \cup {[games |-> g, barrier |-> r, direction |-> r, whole |-> TRUE]
                  : g \in EarlierGames \ {0}, r \in {0, UNIT}}

LearnInit ==
  /\ files \in [Names -> EarlierProfiles]
  /\ earlier = files["global"].games
  /\ at = [p \in Learner |-> "idle"]
  /\ seen = [p \in Learner |-> 0] /\ draft = [p \in Learner |-> Fresh]
  /\ matches = [p \in Learner |-> 0] /\ saved = [p \in Learner |-> 0]

(* prepare_adaptive_strategy, after the handshake, derives the parameter of  *)
(* the match from the files as they are: Derived.                            *)
Prepare(p) ==
  /\ at[p] = "idle" /\ matches["police"] + matches["thief"] < MaxMatches
  /\ at' = [at EXCEPT ![p] = "playing"]
  /\ matches' = [matches EXCEPT ![p] = @ + 1]
  /\ UNCHANGED <<files, seen, draft, earlier, saved>>

(* Only a match that is complete and was played at all teaches anything.    *)
MatchOver(p) ==
  /\ at[p] = "playing"
  /\ \/ \E rate \in {0, UNIT} : /\ at' = [at EXCEPT ![p] = "learning"]
                                /\ seen' = [seen EXCEPT ![p] = rate]
     \/ at' = [at EXCEPT ![p] = "idle"] /\ UNCHANGED seen
  /\ UNCHANGED <<files, draft, matches, earlier, saved>>

Write_InPlace(p, name, next) ==
  /\ draft' = [draft EXCEPT ![p] = update(_load(files[name]), Observation(p, seen[p]))]
  /\ at' = [at EXCEPT ![p] = next]
  /\ files' = [files EXCEPT ![name] = Torn]

(* _save: a temporary file of the same directory, then os.replace.          *)
Write(p, name, next) ==
  /\ draft' = [draft EXCEPT ![p] = update(_load(files[name]), Observation(p, seen[p]))]
  /\ at' = [at EXCEPT ![p] = next]
  /\ UNCHANGED files
Replace(p, name, next) ==
  /\ files' = [files EXCEPT ![name] = draft[p]]
  /\ draft' = [draft EXCEPT ![p] = Fresh]
  /\ at' = [at EXCEPT ![p] = next]

SaveGlobal(p) ==
  /\ \/ at[p] = "learning" /\ Write(p, "global", "global written")
     \/ at[p] = "global written" /\ Replace(p, "global", "global saved")
  /\ UNCHANGED <<seen, matches, earlier, saved>>
SaveOpponent(p) ==
  /\ \/ at[p] = "global saved" /\ Write(p, p, "written") /\ UNCHANGED saved
     \/ /\ at[p] = "written" /\ Replace(p, p, "idle")
        /\ saved' = [saved EXCEPT ![p] = @ + 1]
  /\ seen' = IF at'[p] = "idle" THEN [seen EXCEPT ![p] = 0] ELSE seen
  /\ UNCHANGED <<matches, earlier>>

(* The process is killed, or the disk is full: "learning update: not saved" *)
NotSaved(p) ==
  /\ at[p] # "idle"
  /\ at' = [at EXCEPT ![p] = "idle"]
  /\ draft' = [draft EXCEPT ![p] = Fresh] /\ seen' = [seen EXCEPT ![p] = 0]
  /\ UNCHANGED <<files, matches, earlier, saved>>

LearnNext == \E p \in Learner :
  Prepare(p) \/ MatchOver(p) \/ SaveGlobal(p) \/ SaveOpponent(p) \/ NotSaved(p)

-----------------------------------------------------------------------------
ProfilesAreWhole == \A name \in Names : files[name].whole
CountsAreOfMatches ==
  files["global"].games <= earlier + matches["police"] + matches["thief"]
Parameter(p) == Derived(p, files["global"], files[p])
StaysInBounds ==
  \A p \in Learner :
    /\ Parameter(p) \in Bounds[p].lo..Bounds[p].hi
    /\ files["global"].games = 0 /\ files[p].games = 0 => Parameter(p) = Baseline[p]

SavesAreCounted ==
  \A p \in Learner : files'[p].games - files[p].games = saved'[p] - saved[p]

(* However the processes end and overlap, a profile is whole at all times,  *)
(* an opponent's profile counts exactly the matches that were reported as   *)
(* saved, and the global one, which two peers write, never counts a match   *)
(* twice.  What a peer derives from them stays inside its bounds, and is    *)
(* the baseline until there is a game to learn from.                        *)
LearningIsSafe ==
  /\ [](ProfilesAreWhole /\ CountsAreOfMatches /\ StaysInBounds)
  /\ [][SavesAreCounted]_learnVars

(* A global profile that is replaced by one that does not continue it.      *)
Overtaken ==
  \E p \in Learner : /\ at[p] = "global written" /\ at'[p] = "global saved"
                     /\ draft[p] # update(_load(files["global"]), Observation(p, seen[p]))
MovesSlowly ==
  files' # files /\ ~Overtaken =>
    \A p \in Learner :
      LET before == Derived(p, files["global"], files[p])
          after  == Derived(p, files'["global"], files'[p])
          width  == Bounds[p].hi - Bounds[p].lo
          moved  == 100 * Extrema!Max({after - before, before - after})
      IN  moved <= (IF files[p].games > 0 THEN 15 ELSE 34) * width

(* Unless the two peers overtook each other at the global profile, one game *)
(* moves what a peer derives by at most 15 % of its range once the opponent *)
(* is known, and by at most a third before.                                 *)
AdaptationIsGradual == [][MovesSlowly]_learnVars
=============================================================================
