--------------------------- MODULE ServicesProofs ---------------------------
(* Proofs about Config, Learning, AuditLog, Tracker and Gui, each for every *)
(* value of its constants, and about the nine components of MCServices side *)
(* by side.                                                                 *)
EXTENDS MCServices, MessagesProofs, SeriesV3Proofs, SequenceTheorems, FiniteSetTheorems,
        NaturalsInduction, WellFoundedInduction, TLAPS

-----------------------------------------------------------------------------
(* Configuration. *)

(* Two owners, the changes they make to their files and their processes. *)
ConfigSpec == ConfigInit /\ [][ConfigNext]_configVars

LEMMA Owners == \A p \in Owner : Other(p) \in Owner /\ Other(Other(p)) = p /\ Other(p) # p
BY DEF Owner, Other

LEMMA AgreesBothWays == \A p \in Owner : Agrees(p) <=> Agrees("police")
<1> SUFFICES ASSUME NEW p \in Owner
             PROVE  Agrees(p) <=> Agrees("police")
  OBVIOUS
<1>1. CASE p = "police"
  BY <1>1
<1>2. CASE p = "thief"
  BY <1>2 DEF Agrees, Other, Digest
<1> QED
  BY <1>1, <1>2 DEF Owner

LEMMA ConfigBegins == ConfigInit => ConfigInvariant
<1> SUFFICES ASSUME ConfigInit
             PROVE  ConfigInvariant
  OBVIOUS
<1>1. /\ process = [p \in Owner |-> "down"] /\ loaded = [p \in Owner |-> ShippedFile]
      /\ role = [p \in Owner |-> p] /\ accepted = [p \in Owner |-> FALSE]
      /\ cleared = [p \in Owner |-> FALSE]
  BY DEF ConfigInit
<1> QED
  BY <1>1 DEF ConfigInvariant, Owner

(* A change on disk spends what the verification CLI said and nothing else. *)
LEMMA EditsSpendClearance ==
  ASSUME ConfigInvariant, Uncleared, Untouched
  PROVE  ConfigInvariant'
<1>1. /\ UNCHANGED <<process, loaded, role, accepted>>
      /\ cleared' = [p \in Owner |-> FALSE]
  BY DEF Uncleared, Untouched
<1>2. Agrees("police")' = Agrees("police")
  BY <1>1 DEF Agrees
<1>3. \A p \in Owner : LoadFault(loaded'[p]) = LoadFault(loaded[p])
  BY <1>1
<1> QED
  BY <1>1, <1>2, <1>3 DEF ConfigInvariant

(* A process that is not up begins or fails to, and one that is up ends.    *)
LEMMA ProcessChanges ==
  ASSUME ConfigInvariant, NEW p \in Owner,
         NEW outcome \in {"down", "failed", "crashed", "up", "refused"},
         process' = [process EXCEPT ![p] = outcome],
         UNCHANGED <<file, toml, cleared>>,
         DOMAIN loaded' = Owner, DOMAIN role' = Owner,
         \A q \in Owner \ {p} : loaded'[q] = loaded[q] /\ role'[q] = role[q],
         \A q \in Owner \ {p} : accepted'[q] = accepted[q],
         accepted' \in [Owner -> BOOLEAN], ~accepted'[p],
         outcome = "up" => LoadFault(loaded'[p]) = "none"
  PROVE  ConfigInvariant'
<1>1. \A q \in Owner : VerifyPasses(q)' = VerifyPasses(q)
  BY DEF VerifyPasses
<1>2. ~(accepted'["police"] /\ accepted'["thief"])
  BY DEF Owner
<1>3. \A q \in Owner : process'[q] = IF q = p THEN outcome ELSE process[q]
  BY DEF ConfigInvariant
<1>4. process' \in [Owner -> {"down", "failed", "crashed", "up", "refused"}]
  BY DEF ConfigInvariant
<1>5. \A q \in Owner : process'[q] = "up" => LoadFault(loaded'[q]) = "none"
  BY <1>3 DEF ConfigInvariant
<1>6. \A q \in Owner : accepted'[q] => process'[q] = "up"
  BY <1>3 DEF ConfigInvariant
<1>7. \A q \in Owner : cleared'[q] => VerifyPasses(q)'
  BY <1>1 DEF ConfigInvariant
<1> QED
  BY <1>2, <1>4, <1>5, <1>6, <1>7 DEF ConfigInvariant

LEMMA StepKeepsConfig ==
  ASSUME ConfigInvariant, NEW p \in Owner, ConfigStep(p)
  PROVE  ConfigInvariant'
<1>1. CASE EditShared(p) \/ EditPrivate(p) \/ TakeOpponentsFile(p)
  <2>1. Uncleared /\ Untouched
    BY <1>1, Zenon DEF EditShared, EditPrivate, TakeOpponentsFile
  <2> QED
    BY <2>1, EditsSpendClearance
<1>2. CASE Verify(p)
  <2>1. /\ UNCHANGED <<file, toml, process, loaded, role, accepted>>
        /\ cleared' = [cleared EXCEPT ![p] = VerifyPasses(p)]
    BY <1>2 DEF Verify
  <2>2. \A q \in Owner : VerifyPasses(q)' = VerifyPasses(q)
    BY <2>1 DEF VerifyPasses
  <2>3. VerifyPasses(p) \in BOOLEAN
    BY DEF VerifyPasses
  <2>4. cleared' \in [Owner -> BOOLEAN] /\ \A q \in Owner : cleared'[q] => VerifyPasses(q)'
    BY <2>1, <2>2, <2>3 DEF ConfigInvariant
  <2>5. Agrees("police")' = Agrees("police")
    BY <2>1 DEF Agrees
  <2> QED
    BY <2>1, <2>4, <2>5 DEF ConfigInvariant
<1>3. CASE Start(p)
  <2>1. /\ process[p] # "up" /\ process' = [process EXCEPT ![p] = "up"]
        /\ LoadFault(file[p]) = "none"
        /\ loaded' = [loaded EXCEPT ![p] = file[p]]
        /\ role' = [role EXCEPT ![p] = RoleOf(p, toml[p])]
        /\ UNCHANGED <<file, toml, accepted, cleared>>
    BY <1>3 DEF Start, Begin
  <2>2. accepted' \in [Owner -> BOOLEAN] /\ ~accepted'[p]
    BY <2>1 DEF ConfigInvariant
  <2>3. /\ DOMAIN loaded' = Owner /\ DOMAIN role' = Owner /\ loaded'[p] = file[p]
        /\ \A q \in Owner \ {p} : loaded'[q] = loaded[q] /\ role'[q] = role[q]
    BY <2>1 DEF ConfigInvariant
  <2>4. LoadFault(loaded'[p]) = "none"
    BY <2>1, <2>3
  <2> QED
    BY <2>1, <2>2, <2>3, <2>4, ProcessChanges
<1>4. CASE FailToStart(p) \/ StartCrashes(p)
  <2>1. /\ process[p] # "up" /\ UNCHANGED <<file, toml, loaded, role, accepted, cleared>>
        /\ \E outcome \in {"failed", "crashed"} : process' = [process EXCEPT ![p] = outcome]
    BY <1>4 DEF FailToStart, StartCrashes, Begin
  <2>2. accepted' \in [Owner -> BOOLEAN] /\ ~accepted'[p]
    BY <2>1 DEF ConfigInvariant
  <2>3. /\ DOMAIN loaded' = Owner /\ DOMAIN role' = Owner
        /\ \A q \in Owner : loaded'[q] = loaded[q] /\ role'[q] = role[q]
    BY <2>1 DEF ConfigInvariant
  <2> QED
    BY <2>1, <2>2, <2>3, ProcessChanges
<1>5. CASE Accept(p)
  <2>1. /\ \A q \in Owner : process[q] = "up"
        /\ Agrees(p) /\ accepted' = [accepted EXCEPT ![p] = TRUE]
        /\ UNCHANGED <<file, toml, process, loaded, role, cleared>>
    BY <1>5 DEF Accept, BothUp
  <2>2. Agrees("police")'
    <3>1. Agrees("police")
      BY <2>1, AgreesBothWays
    <3> QED
      BY <2>1, <3>1 DEF Agrees
  <2>3. \A q \in Owner : VerifyPasses(q)' = VerifyPasses(q)
    BY <2>1 DEF VerifyPasses
  <2>4. accepted' \in [Owner -> BOOLEAN]
    BY <2>1 DEF ConfigInvariant
  <2> QED
    BY <2>1, <2>2, <2>3, <2>4 DEF ConfigInvariant
<1>6. CASE RefuseGame(p) \/ Stop(p)
  <2>1. PICK outcome \in {"refused", "down"} : Leave(p, outcome)
    BY <1>6 DEF RefuseGame, Stop
  <2>2. /\ process' = [process EXCEPT ![p] = outcome]
        /\ loaded' = [loaded EXCEPT ![p] = ShippedFile]
        /\ role' = [role EXCEPT ![p] = p]
        /\ accepted' = [accepted EXCEPT ![p] = FALSE]
        /\ UNCHANGED <<file, toml, cleared>>
    BY <2>1 DEF Leave
  <2>3. /\ accepted' \in [Owner -> BOOLEAN] /\ ~accepted'[p]
        /\ \A q \in Owner \ {p} : accepted'[q] = accepted[q]
    BY <2>2 DEF ConfigInvariant
  <2>4. /\ DOMAIN loaded' = Owner /\ DOMAIN role' = Owner
        /\ \A q \in Owner \ {p} : loaded'[q] = loaded[q] /\ role'[q] = role[q]
    BY <2>2 DEF ConfigInvariant
  <2> QED
    BY <2>2, <2>3, <2>4, ProcessChanges
<1> QED
  BY <1>1, <1>2, <1>3, <1>4, <1>5, <1>6, Zenon DEF ConfigStep

LEMMA ConfigStaysPut ==
  ASSUME ConfigInvariant, UNCHANGED configVars
  PROVE  ConfigInvariant'
<1>1. UNCHANGED <<file, toml, process, loaded, role, accepted, cleared>>
  BY DEF configVars
<1>2. \A p \in Owner : VerifyPasses(p)' = VerifyPasses(p) /\ Agrees(p)' = Agrees(p)
  BY <1>1 DEF VerifyPasses, Agrees
<1> QED
  BY <1>1, <1>2 DEF ConfigInvariant, Owner

(* What the verification CLI passed on both sides agrees. *)
LEMMA ClearedAgree ==
  ASSUME NEW p \in Owner,
         \A q \in Owner : VerifyPasses(q) /\ loaded[q] = file[q] /\ role[q] = RoleOf(q, toml[q])
  PROVE  Agrees(p)
<1>1. Other(p) \in Owner /\ Other(p) # p
  BY Owners
<1>2. Digest(file[p]) = Digest(file[Other(p)]) /\ role[p] = p /\ role[Other(p)] = Other(p)
  BY <1>1 DEF VerifyPasses
<1> QED
  BY <1>1, <1>2 DEF Agrees

LEMMA RefusalHasAReason ==
  ASSUME ConfigInvariant, NEW q \in Owner, ConfigStep(q)
  PROVE  RefusedForAReason
<1>1. SUFFICES ASSUME NEW p \in Owner
               PROVE  /\ process[p] = "up" /\ process'[p] = "refused" => ~Agrees(p)
                      /\ cleared[p] /\ process'[p] \in {"failed", "crashed"} =>
                           process'[p] = process[p]
  <2>1. \A p \in Owner :
          /\ ~Agrees(p) => \/ Document(loaded[p]) # Document(loaded[Other(p)])
                           \/ role[p] = role[Other(p)]
          /\ ~Agrees(p) => \E r \in Owner : \/ ~cleared[r] \/ loaded[r] # file[r]
                                            \/ role[r] # RoleOf(r, toml[r])
    BY ClearedAgree DEF ConfigInvariant, Agrees, Digest
  <2> QED
    BY <2>1 DEF RefusedForAReason
<1>2. ASSUME NEW outcome, process' = [process EXCEPT ![q] = outcome]
      PROVE  process'[p] = IF p = q THEN outcome ELSE process[p]
  BY <1>2 DEF ConfigInvariant
<1>3. CASE EditShared(q) \/ EditPrivate(q) \/ TakeOpponentsFile(q) \/ Verify(q) \/ Accept(q)
  <2>1. process' = process
    BY <1>3, Zenon DEF EditShared, EditPrivate, TakeOpponentsFile, Verify, Accept, Untouched
  <2> QED
    BY <2>1
<1>4. CASE Start(q) \/ Stop(q)
  <2>1. \E outcome \in {"up", "down"} : process' = [process EXCEPT ![q] = outcome]
    BY <1>4 DEF Start, Stop, Begin, Leave
  <2> QED
    BY <1>2, <2>1
<1>5. CASE FailToStart(q) \/ StartCrashes(q)
  <2>1. /\ \E outcome \in {"failed", "crashed"} : process' = [process EXCEPT ![q] = outcome]
        /\ \/ LoadFault(file[q]) # "none" \/ ~PrivateAccepted(q, toml[q])
           \/ ~Hashable(file[q])
    BY <1>5 DEF FailToStart, StartCrashes, Begin
  <2>2. ~cleared[q]
    BY <2>1 DEF ConfigInvariant, VerifyPasses
  <2> QED
    BY <1>2, <2>1, <2>2
<1>6. CASE RefuseGame(q)
  <2>1. ~Agrees(q) /\ process' = [process EXCEPT ![q] = "refused"]
    BY <1>6 DEF RefuseGame, Leave
  <2> QED
    BY <1>2, <2>1
<1> QED
  BY <1>3, <1>4, <1>5, <1>6, Zenon DEF ConfigStep

(* Whatever the owners change and however often their processes start: a    *)
(* process that is up loaded a file that passes every layer of validation,  *)
(* two accepted configurations agree, and what the verification command     *)
(* passed still passes until somebody edits a file.                         *)
THEOREM ConfigSafe == ConfigSpec => []ConfigInvariant
<1>1. ConfigInvariant /\ [ConfigNext]_configVars => ConfigInvariant'
  BY StepKeepsConfig, ConfigStaysPut DEF ConfigNext
<1> QED
  BY <1>1, ConfigBegins, PTL DEF ConfigSpec

(* Two peers that accepted each other run the same shared configuration in  *)
(* opposite roles; a refusal has a difference behind it, in files of which  *)
(* somebody's were not verified as they are; and verified files start.      *)
THEOREM OnePhysics == ConfigSpec => AgreedPhysics
<1>1. ConfigInvariant => SamePhysics
  <2> SUFFICES ASSUME Agrees("police")
               PROVE  /\ SharedConfig(loaded["police"]) = SharedConfig(loaded["thief"])
                      /\ role["police"] # role["thief"]
    BY DEF ConfigInvariant, SamePhysics
  <2>1. Document(loaded["police"]) = Document(loaded["thief"]) /\ role["police"] # role["thief"]
    BY DEF Agrees, Other, Digest
  <2> QED
    BY <2>1 DEF SharedConfig
<1>2. ConfigInvariant /\ [ConfigNext]_configVars => [RefusedForAReason]_configVars
  BY RefusalHasAReason DEF ConfigNext
<1> QED
  BY <1>1, <1>2, ConfigSafe, PTL DEF ConfigSpec, AgreedPhysics

(* The tables of Appendix F and the file as shipped are laid one over the   *)
(* other, and so are an owner's changes.                                    *)
LEMMA ValueOf ==
  ASSUME NEW above, NEW below
  PROVE  /\ DOMAIN Overlaid(above, below) = DOMAIN above \cup DOMAIN below
         /\ \A k \in DOMAIN above : Overlaid(above, below)[k] = above[k]
         /\ \A k \in DOMAIN below \ DOMAIN above : Overlaid(above, below)[k] = below[k]
BY DEF Overlaid

(* What a table binds is a value, and a minimum is an integer. *)
IsTable(t) ==
  \A k \in DOMAIN t :
    /\ IsJson(t[k].binding)
    /\ t[k].status = "minimum" => t[k].binding[1] = "int"

LEMMA TablesOverlaid ==
  ASSUME NEW t, NEW u, IsTable(t), IsTable(u)
  PROVE  IsTable(Overlaid(t, u))
BY DEF Overlaid, IsTable

LEMMA SimpleValues ==
  /\ \A n \in Int : IsJson(Num(n)) /\ IsJson(Hundredths(n)) /\ Num(n)[1] = "int"
  /\ \A s : IsJson(Str(s))
<1>1. \A n \in Int : IsJson(Num(n)) /\ IsJson(Hundredths(n)) /\ Num(n)[1] = "int"
  BY DEF IsJson, Num, Hundredths
<1>2. \A s : IsJson(Str(s))
  BY DEF IsJson, Str
<1> QED
  BY <1>1, <1>2

LEMMA ListValues ==
  /\ \A a, b \in Int : IsJson(Pair(a, b))
  /\ IsJson(List(<<Str("N"), Str("S"), Str("E"), Str("W"), Str("STAY")>>))
  /\ IsJson(List(<<Str("group-a"), Str("group-b")>>))
<1>1. \A a, b \in Int : IsJson(Pair(a, b))
  BY DEF IsJson, Pair, List, Num
<1>2. IsJson(List(<<Str("N"), Str("S"), Str("E"), Str("W"), Str("STAY")>>))
  BY DEF IsJson, List, Str
<1>3. IsJson(List(<<Str("group-a"), Str("group-b")>>))
  BY DEF IsJson, List, Str
<1> QED
  BY <1>1, <1>2, <1>3

LEMMA BoardTable == IsTable(BoardPolicies)
BY SimpleValues, ListValues DEF IsTable, BoardPolicies, Fixed, Minimum, Negotiable
LEMMA WorldTable == IsTable(WorldPolicies)
<1>1. IsJson(Str("New York")) /\ IsJson(Num(15))
  <2>1. IsJson(Str("New York"))
    BY SimpleValues, Zenon
  <2>2. IsJson(Num(15))
    BY SimpleValues
  <2> QED
    BY <2>1, <2>2, Zenon
<1>2. /\ DOMAIN WorldPolicies = {"map_area", "hint_max_words"}
      /\ WorldPolicies["map_area"] = Negotiable(Str("New York"))
      /\ WorldPolicies["hint_max_words"] = Negotiable(Num(15))
  BY DEF WorldPolicies
<1>3. \A v : Negotiable(v).binding = v /\ Negotiable(v).status = "negotiable"
  BY DEF Negotiable
<1> SUFFICES ASSUME NEW k \in DOMAIN WorldPolicies
             PROVE  /\ IsJson(WorldPolicies[k].binding)
                    /\ WorldPolicies[k].status = "negotiable"
  BY ZenonT(60) DEF IsTable
<1>4. \E v : WorldPolicies[k] = Negotiable(v) /\ IsJson(v)
  <2>1. CASE k = "map_area"
    BY <1>1, <1>2, <2>1, Zenon
  <2>2. CASE k = "hint_max_words"
    BY <1>1, <1>2, <2>2, Zenon
  <2> QED
    BY <1>2, <2>1, <2>2, Zenon
<1>5. PICK v : WorldPolicies[k] = Negotiable(v) /\ IsJson(v)
  BY <1>4
<1> QED
  BY <1>3, <1>5
LEMMA MovementTable == IsTable(MovementPolicies)
BY SimpleValues, ListValues DEF IsTable, MovementPolicies, Fixed, Minimum, Negotiable
LEMMA PheromoneTable == IsTable(PheromonePolicies)
BY SimpleValues, ListValues DEF IsTable, PheromonePolicies, Fixed, Minimum, Negotiable
LEMMA ScoringTable == IsTable(ScoringPolicies)
BY SimpleValues, ListValues DEF IsTable, ScoringPolicies, Fixed, Minimum, Negotiable
LEMMA LeagueTable == IsTable(LeaguePolicies)
BY SimpleValues, ListValues DEF IsTable, LeaguePolicies, Fixed, Minimum, Negotiable
LEMMA LimiterTable == IsTable(LimiterPolicies)
BY SimpleValues, ListValues DEF IsTable, LimiterPolicies, Fixed, Minimum, Negotiable

LEMMA PolicyTable == IsTable(PARAMETER_POLICIES)
BY BoardTable, WorldTable, MovementTable, PheromoneTable, ScoringTable, LeagueTable,
   LimiterTable, TablesOverlaid DEF PARAMETER_POLICIES

(* A parameter stands in the first table that has it. *)
LEMMA Layers ==
  /\ \A k \in DOMAIN BoardPolicies :
       k \in Parameters /\ PARAMETER_POLICIES[k] = BoardPolicies[k]
  /\ \A k \in DOMAIN MovementPolicies :
       k \notin DOMAIN BoardPolicies /\ k \notin DOMAIN WorldPolicies
         => k \in Parameters /\ PARAMETER_POLICIES[k] = MovementPolicies[k]
  /\ \A k \in DOMAIN LimiterPolicies :
       ( /\ k \notin DOMAIN BoardPolicies /\ k \notin DOMAIN WorldPolicies
         /\ k \notin DOMAIN MovementPolicies /\ k \notin DOMAIN PheromonePolicies
         /\ k \notin DOMAIN ScoringPolicies /\ k \notin DOMAIN LeaguePolicies )
         => k \in Parameters /\ PARAMETER_POLICIES[k] = LimiterPolicies[k]
<1> DEFINE fromLeague == Overlaid(LeaguePolicies, LimiterPolicies)
           fromScoring == Overlaid(ScoringPolicies, fromLeague)
           fromPheromone == Overlaid(PheromonePolicies, fromScoring)
           fromMovement == Overlaid(MovementPolicies, fromPheromone)
           fromWorld == Overlaid(WorldPolicies, fromMovement)
<1>1. PARAMETER_POLICIES = Overlaid(BoardPolicies, fromWorld)
  BY DEF PARAMETER_POLICIES
<1>2. /\ DOMAIN fromLeague = DOMAIN LeaguePolicies \cup DOMAIN LimiterPolicies
      /\ \A k \in DOMAIN LimiterPolicies \ DOMAIN LeaguePolicies :
           fromLeague[k] = LimiterPolicies[k]
  BY ValueOf
<1>3. /\ DOMAIN fromScoring = DOMAIN ScoringPolicies \cup DOMAIN fromLeague
      /\ \A k \in DOMAIN fromLeague \ DOMAIN ScoringPolicies : fromScoring[k] = fromLeague[k]
  <2> HIDE DEF fromLeague
  <2> QED
    BY ValueOf
<1>4. /\ DOMAIN fromPheromone = DOMAIN PheromonePolicies \cup DOMAIN fromScoring
      /\ \A k \in DOMAIN fromScoring \ DOMAIN PheromonePolicies :
           fromPheromone[k] = fromScoring[k]
  <2> HIDE DEF fromScoring
  <2> QED
    BY ValueOf
<1>5. /\ DOMAIN fromMovement = DOMAIN MovementPolicies \cup DOMAIN fromPheromone
      /\ \A k \in DOMAIN MovementPolicies : fromMovement[k] = MovementPolicies[k]
      /\ \A k \in DOMAIN fromPheromone \ DOMAIN MovementPolicies :
           fromMovement[k] = fromPheromone[k]
  <2> HIDE DEF fromPheromone
  <2> QED
    BY ValueOf
<1>6. /\ DOMAIN fromWorld = DOMAIN WorldPolicies \cup DOMAIN fromMovement
      /\ \A k \in DOMAIN fromMovement \ DOMAIN WorldPolicies : fromWorld[k] = fromMovement[k]
  <2> HIDE DEF fromMovement
  <2> QED
    BY ValueOf
<1>7. LET all == Overlaid(BoardPolicies, fromWorld)
      IN  /\ DOMAIN all = DOMAIN BoardPolicies \cup DOMAIN fromWorld
          /\ \A k \in DOMAIN BoardPolicies : all[k] = BoardPolicies[k]
          /\ \A k \in DOMAIN fromWorld \ DOMAIN BoardPolicies : all[k] = fromWorld[k]
  <2> HIDE DEF fromWorld
  <2> QED
    BY ValueOf
<1> HIDE DEF fromLeague, fromScoring, fromPheromone, fromMovement, fromWorld
<1>8. /\ Parameters = DOMAIN BoardPolicies \cup DOMAIN fromWorld
      /\ \A k \in DOMAIN BoardPolicies : PARAMETER_POLICIES[k] = BoardPolicies[k]
      /\ \A k \in DOMAIN fromWorld \ DOMAIN BoardPolicies : PARAMETER_POLICIES[k] = fromWorld[k]
  BY <1>1, <1>7 DEF Parameters
<1>9. DOMAIN BoardPolicies \subseteq Parameters
  BY <1>8
<1>10. \A k \in DOMAIN fromMovement :
         k \notin DOMAIN BoardPolicies /\ k \notin DOMAIN WorldPolicies
           => k \in Parameters /\ PARAMETER_POLICIES[k] = fromMovement[k]
  BY <1>6, <1>8
<1>11. \A k \in DOMAIN LimiterPolicies :
         ( /\ k \notin DOMAIN MovementPolicies /\ k \notin DOMAIN PheromonePolicies
           /\ k \notin DOMAIN ScoringPolicies /\ k \notin DOMAIN LeaguePolicies )
           => k \in DOMAIN fromMovement /\ fromMovement[k] = LimiterPolicies[k]
  <2> TAKE k \in DOMAIN LimiterPolicies
  <2> HAVE /\ k \notin DOMAIN MovementPolicies /\ k \notin DOMAIN PheromonePolicies
           /\ k \notin DOMAIN ScoringPolicies /\ k \notin DOMAIN LeaguePolicies
  <2>1. k \in DOMAIN fromLeague /\ fromLeague[k] = LimiterPolicies[k]
    BY <1>2
  <2>2. k \in DOMAIN fromScoring /\ fromScoring[k] = LimiterPolicies[k]
    BY <1>3, <2>1
  <2>3. k \in DOMAIN fromPheromone /\ fromPheromone[k] = LimiterPolicies[k]
    BY <1>4, <2>2
  <2> QED
    BY <1>5, <2>3
<1>12. \A k \in DOMAIN MovementPolicies :
         k \in DOMAIN fromMovement /\ fromMovement[k] = MovementPolicies[k]
  BY <1>5
<1>13. \A k \in DOMAIN MovementPolicies :
         k \notin DOMAIN BoardPolicies /\ k \notin DOMAIN WorldPolicies
           => k \in Parameters /\ PARAMETER_POLICIES[k] = MovementPolicies[k]
  BY <1>10, <1>12
<1>14. \A k \in DOMAIN LimiterPolicies :
         ( /\ k \notin DOMAIN BoardPolicies /\ k \notin DOMAIN WorldPolicies
           /\ k \notin DOMAIN MovementPolicies /\ k \notin DOMAIN PheromonePolicies
           /\ k \notin DOMAIN ScoringPolicies /\ k \notin DOMAIN LeaguePolicies )
           => k \in Parameters /\ PARAMETER_POLICIES[k] = LimiterPolicies[k]
  BY <1>10, <1>11
<1> QED
  BY <1>8, <1>9, <1>13, <1>14

(* The parameters that the rules of a game relate. *)
LEMMA BoardParameters ==
  /\ \A k \in {"grid_size", "axis_start_index", "thief_start", "cop_start"} :
       k \in Parameters /\ PARAMETER_POLICIES[k] = BoardPolicies[k]
  /\ BoardPolicies.grid_size.status = "minimum"
  /\ \A k \in {"thief_start", "cop_start"} :
       BoardPolicies[k].status = "negotiable" /\ BoardPolicies[k].binding[1] = "list"
  /\ BoardPolicies.axis_start_index.binding[1] = "int"
<1>1. DOMAIN BoardPolicies \subseteq Parameters
      /\ \A k \in DOMAIN BoardPolicies : PARAMETER_POLICIES[k] = BoardPolicies[k]
  BY Layers
<1>2. {"grid_size", "axis_start_index", "thief_start", "cop_start"} \subseteq DOMAIN BoardPolicies
  BY DEF BoardPolicies
<1>3. /\ BoardPolicies.grid_size.status = "minimum"
      /\ \A k \in {"thief_start", "cop_start"} :
           BoardPolicies[k].status = "negotiable" /\ BoardPolicies[k].binding[1] = "list"
      /\ BoardPolicies.axis_start_index.binding[1] = "int"
  BY DEF BoardPolicies, Minimum, Negotiable, Num, Pair, List
<1> QED
  BY <1>1, <1>2, <1>3

LEMMA MovementParameters ==
  /\ \A k \in {"max_barriers", "max_moves", "survival_threshold"} :
       /\ k \in Parameters
       /\ PARAMETER_POLICIES[k] = MovementPolicies[k]
       /\ MovementPolicies[k].status = "minimum"
  /\ MovementPolicies.survival_threshold.binding = Num(35)
<1>1. /\ \A k \in DOMAIN MovementPolicies :
           k \notin DOMAIN BoardPolicies /\ k \notin DOMAIN WorldPolicies
      /\ {"max_barriers", "max_moves", "survival_threshold"} \subseteq DOMAIN MovementPolicies
  BY DEF MovementPolicies, BoardPolicies, WorldPolicies
<1>2. DOMAIN MovementPolicies \subseteq Parameters
      /\ \A k \in DOMAIN MovementPolicies : PARAMETER_POLICIES[k] = MovementPolicies[k]
  BY <1>1, Layers
<1>3. /\ \A k \in {"max_barriers", "max_moves", "survival_threshold"} :
           MovementPolicies[k].status = "minimum"
      /\ MovementPolicies.survival_threshold.binding = Num(35)
  BY DEF MovementPolicies, Minimum
<1> QED
  BY <1>1, <1>2, <1>3

LEMMA LimiterParameters ==
  \A k \in {"response_timeout_sec", "watchdog_timeout_sec"} :
    k \in Parameters /\ PARAMETER_POLICIES[k].binding[1] = "int"
<1> DEFINE K == {"response_timeout_sec", "watchdog_timeout_sec"}
<1>1. \A k \in K :
        /\ k \notin DOMAIN BoardPolicies /\ k \notin DOMAIN WorldPolicies
        /\ k \notin DOMAIN MovementPolicies /\ k \notin DOMAIN PheromonePolicies
  BY DEF MovementPolicies, BoardPolicies, WorldPolicies, PheromonePolicies
<1>2. \A k \in K :
        /\ k \notin DOMAIN ScoringPolicies /\ k \notin DOMAIN LeaguePolicies
        /\ k \in DOMAIN LimiterPolicies
  BY DEF ScoringPolicies, LeaguePolicies, LimiterPolicies
<1>3. \A k \in K : k \in Parameters /\ PARAMETER_POLICIES[k] = LimiterPolicies[k]
  BY <1>1, <1>2, Layers
<1>4. \A k \in K : LimiterPolicies[k].binding[1] = "int"
  BY DEF LimiterPolicies, Negotiable, Num
<1> QED
  BY <1>3, <1>4

LEMMA ShippedValues ==
  /\ Parameters \subseteq DOMAIN Shipped
  /\ \A k \in Parameters : Shipped[k] = PARAMETER_POLICIES[k].binding
  /\ \A k \in DOMAIN Shipped : IsJson(Shipped[k])
<1> DEFINE structural == [schema_version |-> Str("1.2"), technical_loss |-> Num(0),
                          agreed_between |-> List(<<Str("group-a"), Str("group-b")>>)]
           bindings == [k \in Parameters |-> PARAMETER_POLICIES[k].binding]
<1>1. \A k \in DOMAIN structural : IsJson(structural[k])
  BY SimpleValues, ListValues
<1>2. DOMAIN bindings = Parameters /\ \A k \in Parameters : IsJson(bindings[k])
  BY PolicyTable DEF IsTable, Parameters
<1>3. Shipped = Overlaid(bindings, structural)
  BY DEF Shipped
<1>4. \A k \in Parameters : bindings[k] = PARAMETER_POLICIES[k].binding
  OBVIOUS
<1> HIDE DEF structural, bindings
<1> DEFINE both == Overlaid(bindings, structural)
<1>5. /\ DOMAIN both = DOMAIN bindings \cup DOMAIN structural
      /\ \A k \in DOMAIN bindings : both[k] = bindings[k]
      /\ \A k \in DOMAIN structural \ DOMAIN bindings : both[k] = structural[k]
  BY ValueOf
<1> HIDE DEF both
<1>6. /\ DOMAIN Shipped = DOMAIN bindings \cup DOMAIN structural
      /\ \A k \in DOMAIN bindings : Shipped[k] = bindings[k]
      /\ \A k \in DOMAIN structural \ DOMAIN bindings : Shipped[k] = structural[k]
  BY <1>3, <1>5 DEF both
<1> QED
  BY <1>1, <1>2, <1>4, <1>6

(* A file that passes every layer of validation. *)
LEMMA LayersPassed ==
  ASSUME NEW f, IsFile(f), LoadFault(f) = "none"
  PROVE  /\ \A k \in DOMAIN Shipped :
              /\ IsJson(Document(f)[k])
              /\ HasType(Document(f)[k], Shipped[k][1])
         /\ \A k \in Parameters : Allowed(k, Document(f)[k])
         /\ ~CrossFieldFault(Document(f))
<1>1. ~SchemaFault(f) /\ ~PolicyFault(Document(f)) /\ ~CrossFieldFault(Document(f))
  BY DEF LoadFault
<1>2. \A k \in DOMAIN Shipped : HasType(Document(f)[k], Shipped[k][1])
  BY <1>1 DEF SchemaFault
<1>3. \A k \in Parameters : Allowed(k, Document(f)[k])
  BY <1>1 DEF PolicyFault
<1>4. \A k \in DOMAIN Shipped : IsJson(Document(f)[k])
  <2>1. \A k \in DOMAIN f.edits : IsJson(f.edits[k])
    BY DEF IsFile
  <2>2. /\ \A k \in DOMAIN f.edits : Document(f)[k] = f.edits[k]
        /\ \A k \in DOMAIN Shipped \ DOMAIN f.edits : Document(f)[k] = Shipped[k]
    BY ValueOf DEF Document
  <2> QED
    BY <2>1, <2>2, ShippedValues
<1> QED
  BY <1>1, <1>2, <1>3, <1>4

(* A parameter that is an integer stays one, and the program runs on it. *)
LEMMA IntegerValues ==
  ASSUME NEW f, IsFile(f), LoadFault(f) = "none",
         NEW k \in Parameters, PARAMETER_POLICIES[k].binding[1] = "int"
  PROVE  /\ Document(f)[k][2] \in Int
         /\ SharedConfig(f)[k] = Document(f)[k]
<1>1. k \in DOMAIN Shipped /\ Shipped[k][1] = "int"
  BY ShippedValues
<1>2. IsJson(Document(f)[k]) /\ Document(f)[k][1] = "int"
  BY <1>1, LayersPassed DEF HasType
<1>3. Document(f)[k][2] \in Int
  BY <1>2 DEF IsJson
<1> QED
  BY <1>1, <1>3 DEF SharedConfig

(* A start is a pair of integers. *)
LEMMA StartValues ==
  ASSUME NEW f, IsFile(f), LoadFault(f) = "none", NEW k \in {"thief_start", "cop_start"}
  PROVE  /\ SharedConfig(f)[k] = Document(f)[k]
         /\ \A i \in {1, 2} : Document(f)[k][2][i][2] \in Int
<1>1. /\ k \in Parameters /\ PARAMETER_POLICIES[k].status = "negotiable"
      /\ PARAMETER_POLICIES[k].binding[1] = "list"
  BY BoardParameters
<1>2. k \in DOMAIN Shipped /\ Shipped[k][1] = "list"
  BY <1>1, ShippedValues
<1>3. IsJson(Document(f)[k]) /\ Document(f)[k][1] = "list"
  BY <1>2, LayersPassed DEF HasType
<1>4. IsCoord(Document(f)[k])
  BY <1>1, LayersPassed DEF Allowed, InDomain
<1>5. \A i \in {1, 2} : Document(f)[k][2][i][2] \in Int
  <2>1. PICK v : v = Document(f)[k]
    OBVIOUS
  <2>2. DOMAIN v[2] = 1 .. 2
    BY <1>3, <1>4, <2>1 DEF IsJson, IsCoord
  <2> QED
    BY <1>3, <1>4, <2>1, <2>2 DEF IsJson, IsCoord
<1> QED
  BY <1>2, <1>5 DEF SharedConfig

LEMMA MinimumsKept ==
  ASSUME NEW f, IsFile(f), LoadFault(f) = "none",
         NEW k \in Parameters, PARAMETER_POLICIES[k].status = "minimum"
  PROVE  /\ PARAMETER_POLICIES[k].binding[1] = "int"
         /\ Document(f)[k][2] >= PARAMETER_POLICIES[k].binding[2]
<1>1. PARAMETER_POLICIES[k].binding[1] = "int"
  BY PolicyTable DEF IsTable, Parameters
<1> QED
  BY <1>1, LayersPassed DEF Allowed

LEMMA OnBoardIsInBounds ==
  ASSUME NEW f, IsFile(f), LoadFault(f) = "none", NEW k \in {"thief_start", "cop_start"}
  PROVE  in_bounds(SharedConfig(f), SharedConfig(f)[k])
<1>1. PICK doc : doc = Document(f)
  OBVIOUS
<1>2. /\ SharedConfig(f)[k] = doc[k]
      /\ \A i \in {1, 2} : doc[k][2][i][2] \in Int
  BY <1>1, StartValues
<1>3. "grid_size" \in Parameters /\ PARAMETER_POLICIES["grid_size"].binding[1] = "int"
  BY BoardParameters, MinimumsKept
<1>4. "axis_start_index" \in Parameters /\ PARAMETER_POLICIES["axis_start_index"].binding[1] = "int"
  BY BoardParameters
<1>5. /\ SharedConfig(f).grid_size = doc.grid_size /\ doc.grid_size[2] \in Int
      /\ SharedConfig(f).axis_start_index = doc.axis_start_index
      /\ doc.axis_start_index[2] \in Int
  BY <1>1, <1>3, <1>4, IntegerValues
<1>6. OnBoard(doc, doc[k])
  BY <1>1, LayersPassed DEF CrossFieldFault
<1>7. PICK low \in Int, size \in Int : low = doc.axis_start_index[2] /\ size = doc.grid_size[2]
  BY <1>5
<1>8. ASSUME NEW i \in {1, 2}
      PROVE  doc[k][2][i][2] - low \in 0 .. size - 1
  <2>1. PICK x \in Int : x = doc[k][2][i][2]
    BY <1>2
  <2>2. low <= x /\ x < low + size
    BY <1>6, <1>7, <2>1 DEF OnBoard
  <2>3. x - low \in 0 .. size - 1
    BY <2>2
  <2> QED
    BY <2>1, <2>3
<1> QED
  BY <1>2, <1>5, <1>7, <1>8 DEF in_bounds

LEMMA AcceptedFileIsPlayable ==
  ASSUME NEW f, IsFile(f), LoadFault(f) = "none"
  PROVE  Playable(SharedConfig(f))
<1>1. PICK doc : doc = Document(f)
  OBVIOUS
<1>2. \A k \in {"grid_size", "max_barriers", "max_moves", "survival_threshold"} :
        k \in Parameters /\ PARAMETER_POLICIES[k].status = "minimum"
  BY BoardParameters, MovementParameters
<1>3. \A k \in {"grid_size", "max_barriers", "max_moves", "survival_threshold",
                 "response_timeout_sec", "watchdog_timeout_sec"} :
        SharedConfig(f)[k] = doc[k] /\ doc[k][2] \in Int
  BY <1>1, <1>2, MinimumsKept, LimiterParameters, IntegerValues
<1>4. ~CrossFieldFault(doc)
  BY <1>1, LayersPassed
<1>5. \A k \in Parameters : PARAMETER_POLICIES[k].status = "minimum" =>
        SharedConfig(f)[k][2] >= PARAMETER_POLICIES[k].binding[2]
  BY MinimumsKept, IntegerValues
<1>6. SharedConfig(f).cop_start # SharedConfig(f).thief_start
  BY <1>1, <1>4, StartValues DEF CrossFieldFault
<1>7. SharedConfig(f).survival_threshold[2] \in 1 .. SharedConfig(f).max_moves[2]
  <2>1. doc.survival_threshold[2] >= 35
    BY <1>1, <1>2, MinimumsKept, MovementParameters DEF Num
  <2>2. ~(doc.survival_threshold[2] > doc.max_moves[2])
    BY <1>4 DEF CrossFieldFault
  <2> QED
    BY <1>3, <2>1, <2>2
<1>8. SharedConfig(f).max_barriers[2] + 2 <= SharedConfig(f).grid_size[2] * SharedConfig(f).grid_size[2]
  <2>1. ~(doc.max_barriers[2] > doc.grid_size[2] * doc.grid_size[2] - 2)
    BY <1>4 DEF CrossFieldFault
  <2>2. PICK b \in Int, g \in Int, area \in Int :
          b = doc.max_barriers[2] /\ g = doc.grid_size[2] /\ area = g * g
    BY <1>3
  <2>3. b + 2 <= area
    BY <2>1, <2>2
  <2> QED
    BY <1>3, <2>2, <2>3
<1>9. SharedConfig(f).response_timeout_sec[2] < SharedConfig(f).watchdog_timeout_sec[2]
  <2>1. ~(doc.response_timeout_sec[2] >= doc.watchdog_timeout_sec[2])
    BY <1>4 DEF CrossFieldFault
  <2> QED
    BY <1>3, <2>1
<1> QED
  BY <1>5, <1>6, <1>7, <1>8, <1>9, OnBoardIsInBounds DEF Playable

(* Files: a change adds a value or takes over a whole file. *)
LEMMA FilesBegin == ConfigInit => FilesAreJson
BY DEF ConfigInit, FilesAreJson, IsFile, ShippedFile

LEMMA FilesStayJson ==
  ASSUME FilesAreJson, NEW p \in Owner, ConfigStep(p)
  PROVE  FilesAreJson'
<1>1. IsFile(ShippedFile)
  BY DEF IsFile, ShippedFile
<1>2. ASSUME NEW f, IsFile(f), file' = [file EXCEPT ![p] = f], UNCHANGED loaded
      PROVE  FilesAreJson'
  BY <1>2 DEF FilesAreJson
<1>3. ASSUME NEW f, IsFile(f), loaded' = [loaded EXCEPT ![p] = f], UNCHANGED file
      PROVE  FilesAreJson'
  BY <1>3 DEF FilesAreJson
<1>4. CASE UNCHANGED <<file, loaded>>
  BY <1>4 DEF FilesAreJson
<1>5. CASE EditShared(p)
  <2>1. UNCHANGED loaded /\ IsFile(file[p])
    BY <1>5 DEF EditShared, Untouched, FilesAreJson
  <2>2. CASE \E e \in SharedEdits : file' = [file EXCEPT ![p].edits = WithEdit(@, e)]
    <3>1. PICK e \in SharedEdits : file' = [file EXCEPT ![p].edits = WithEdit(@, e)]
      BY <2>2
    <3> DEFINE f == [file[p] EXCEPT !.edits = WithEdit(@, e)]
    <3>2. /\ DOMAIN f = DOMAIN file[p]
          /\ f.edits = WithEdit(file[p].edits, e)
      BY <2>1 DEF IsFile
    <3>3. \A k \in DOMAIN f.edits : IsJson(f.edits[k])
      BY <2>1, <3>2, SharedEditsAssumption DEF IsFile, WithEdit, Overlaid
    <3>4. file' = [file EXCEPT ![p] = f]
      BY <3>1
    <3>5. IsFile(f)
      BY <2>1, <3>2, <3>3 DEF IsFile
    <3> QED
      BY <1>2, <2>1, <3>4, <3>5
  <2>3. CASE \/ file' = [file EXCEPT ![p].layout = "reordered"]
             \/ \E form \in Form : file' = [file EXCEPT ![p].form = form]
    <3>1. PICK f : /\ file' = [file EXCEPT ![p] = f]
                   /\ DOMAIN f = DOMAIN file[p] /\ f.edits = file[p].edits
      <4>1. CASE file' = [file EXCEPT ![p].layout = "reordered"]
        <5> WITNESS [file[p] EXCEPT !.layout = "reordered"]
        <5> QED
          BY <2>1, <4>1 DEF IsFile
      <4>2. CASE \E form \in Form : file' = [file EXCEPT ![p].form = form]
        <5>1. PICK form \in Form : file' = [file EXCEPT ![p].form = form]
          BY <4>2
        <5> WITNESS [file[p] EXCEPT !.form = form]
        <5> QED
          BY <2>1, <5>1 DEF IsFile
      <4> QED
        BY <2>3, <4>1, <4>2
    <3>2. IsFile(f)
      BY <2>1, <3>1 DEF IsFile
    <3> QED
      BY <1>2, <2>1, <3>1, <3>2
  <2> QED
    BY <1>5, <2>2, <2>3 DEF EditShared
<1>6. CASE TakeOpponentsFile(p)
  <2>1. file' = [file EXCEPT ![p] = file[Other(p)]] /\ UNCHANGED loaded
    BY <1>6 DEF TakeOpponentsFile, Untouched
  <2>2. IsFile(file[Other(p)])
    BY Owners DEF FilesAreJson
  <2> QED
    BY <1>2, <2>1, <2>2
<1>7. CASE Start(p)
  <2>1. loaded' = [loaded EXCEPT ![p] = file[p]] /\ UNCHANGED file /\ IsFile(file[p])
    BY <1>7 DEF Start, FilesAreJson
  <2> QED
    BY <1>3, <2>1
<1>8. CASE RefuseGame(p) \/ Stop(p)
  <2>1. loaded' = [loaded EXCEPT ![p] = ShippedFile] /\ UNCHANGED file
    BY <1>8 DEF RefuseGame, Stop, Leave
  <2> QED
    BY <1>1, <1>3, <2>1
<1>9. CASE EditPrivate(p) \/ Verify(p) \/ FailToStart(p) \/ StartCrashes(p) \/ Accept(p)
  <2>1. UNCHANGED <<file, loaded>>
    BY <1>9, Zenon DEF EditPrivate, Verify, FailToStart, StartCrashes, Accept, Untouched
  <2> QED
    BY <1>4, <2>1
<1> QED
  BY <1>5, <1>6, <1>7, <1>8, <1>9, Zenon DEF ConfigStep

LEMMA FilesKeepJson == FilesAreJson /\ [ConfigNext]_configVars => FilesAreJson'
<1>1. FilesAreJson /\ UNCHANGED configVars => FilesAreJson'
  BY DEF FilesAreJson, configVars
<1> QED
  BY <1>1, FilesStayJson DEF ConfigNext

(* Whatever the owners write into their files, what a process is up with is *)
(* a game that can be played.                                               *)
THEOREM AcceptedCanBePlayed == ConfigSpec => []AcceptedIsPlayable
<1>1. FilesAreJson /\ [ConfigNext]_configVars => FilesAreJson'
  BY FilesKeepJson
<1>2. ConfigInvariant /\ FilesAreJson => AcceptedIsPlayable
  BY AcceptedFileIsPlayable DEF ConfigInvariant, FilesAreJson, AcceptedIsPlayable
<1> QED
  BY <1>1, <1>2, FilesBegin, ConfigSafe, PTL DEF ConfigSpec

(* The types of Config: what an owner changes in a file is one of the       *)
(* changes there are, and a role that was accepted is one of the two.       *)
LEMMA RolesAreOwners ==
  ASSUME NEW p, NEW edits0, PrivateAccepted(p, edits0)
  PROVE  RoleOf(p, edits0) \in Owner
<1>1. Private(p, edits0).role \in {Str("police"), Str("thief")}
  BY Zenon DEF PrivateAccepted
<1>2. Str("police")[2] = "police" /\ Str("thief")[2] = "thief"
  BY DEF Str
<1> QED
  BY <1>1, <1>2 DEF RoleOf, Owner

IsOwners(f) == f.form \in Form /\ DOMAIN f.edits \subseteq {e[1] : e \in SharedEdits}

LEMMA ConfigStaysTyped ==
  ASSUME ConfigInvariant, ConfigInvariant', FilesAreJson, ConfigTypeOK, [ConfigNext]_configVars
  PROVE  ConfigTypeOK'
<1> DEFINE Good(g, l, r, n) ==
             /\ \A p \in Owner : IsOwners(g[p]) /\ IsOwners(l[p])
             /\ r \in [Owner -> Owner] /\ n \in 0 .. MaxChanges
<1>1. /\ Good(file, loaded, role, changes) /\ MaxChanges \in Nat
      /\ DOMAIN file = Owner /\ DOMAIN loaded = Owner
  BY ChangesAssumption DEF ConfigTypeOK, IsOwners, FilesAreJson
<1>2. IsOwners(ShippedFile)
  BY DEF IsOwners, ShippedFile, Form
<1>3. SUFFICES Good(file', loaded', role', changes')
  BY DEF ConfigTypeOK, IsOwners, ConfigInvariant
<1>4. CASE UNCHANGED <<file, loaded, role, changes>>
  BY <1>1, <1>4
<1>5. ASSUME NEW p \in Owner, EditShared(p)
      PROVE  Good(file', loaded', role', changes')
  <2>1. /\ UNCHANGED <<loaded, role>> /\ IsFile(file[p]) /\ IsOwners(file[p])
        /\ changes < MaxChanges /\ changes' = changes + 1
    BY <1>1, <1>5 DEF EditShared, Untouched, Changed, FilesAreJson
  <2>2. ASSUME NEW f, IsOwners(f), file' = [file EXCEPT ![p] = f]
        PROVE  Good(file', loaded', role', changes')
    BY <1>1, <2>1, <2>2
  <2>3. CASE \E e \in SharedEdits : file' = [file EXCEPT ![p].edits = WithEdit(@, e)]
    <3>1. PICK e \in SharedEdits : file' = [file EXCEPT ![p].edits = WithEdit(@, e)]
      BY <2>3
    <3> DEFINE f == [file[p] EXCEPT !.edits = WithEdit(@, e)]
    <3>2. f.form = file[p].form /\ f.edits = WithEdit(file[p].edits, e)
      BY <2>1 DEF IsFile
    <3>3. DOMAIN WithEdit(file[p].edits, e) = {e[1]} \cup DOMAIN file[p].edits
      BY DEF WithEdit, Overlaid
    <3>4. IsOwners(f)
      BY <2>1, <3>2, <3>3 DEF IsOwners
    <3> QED
      BY <2>2, <3>1, <3>4
  <2>4. CASE file' = [file EXCEPT ![p].layout = "reordered"]
    <3> DEFINE f == [file[p] EXCEPT !.layout = "reordered"]
    <3>1. f.form = file[p].form /\ f.edits = file[p].edits
      BY <2>1 DEF IsFile
    <3> QED
      BY <2>1, <2>2, <2>4, <3>1 DEF IsOwners
  <2>5. CASE \E form \in Form : file' = [file EXCEPT ![p].form = form]
    <3>1. PICK form \in Form : file' = [file EXCEPT ![p].form = form]
      BY <2>5
    <3> DEFINE f == [file[p] EXCEPT !.form = form]
    <3>2. f.form = form /\ f.edits = file[p].edits
      BY <2>1 DEF IsFile
    <3> QED
      BY <2>1, <2>2, <3>1, <3>2 DEF IsOwners
  <2> QED
    BY <1>5, <2>3, <2>4, <2>5 DEF EditShared
<1>6. ASSUME NEW p \in Owner, EditPrivate(p)
      PROVE  Good(file', loaded', role', changes')
  BY <1>1, <1>6 DEF EditPrivate, Untouched, Changed
<1>7. ASSUME NEW p \in Owner, TakeOpponentsFile(p)
      PROVE  Good(file', loaded', role', changes')
  <2>1. Other(p) \in Owner /\ file' = [file EXCEPT ![p] = file[Other(p)]]
        /\ UNCHANGED <<loaded, role, changes>>
    BY <1>7, Owners DEF TakeOpponentsFile, Untouched
  <2> QED
    BY <1>1, <2>1
<1>8. ASSUME NEW p \in Owner, Start(p)
      PROVE  Good(file', loaded', role', changes')
  <2>1. /\ PrivateAccepted(p, toml[p]) /\ loaded' = [loaded EXCEPT ![p] = file[p]]
        /\ role' = [role EXCEPT ![p] = RoleOf(p, toml[p])] /\ UNCHANGED <<file, changes>>
    BY <1>8 DEF Start
  <2> QED
    BY <1>1, <2>1, RolesAreOwners
<1>9. ASSUME NEW p \in Owner, RefuseGame(p) \/ Stop(p)
      PROVE  Good(file', loaded', role', changes')
  <2>1. /\ loaded' = [loaded EXCEPT ![p] = ShippedFile] /\ role' = [role EXCEPT ![p] = p]
        /\ UNCHANGED <<file, changes>>
    BY <1>9 DEF RefuseGame, Stop, Leave
  <2> QED
    BY <1>1, <1>2, <2>1
<1>10. ASSUME NEW p \in Owner, Verify(p) \/ FailToStart(p) \/ StartCrashes(p) \/ Accept(p)
       PROVE  UNCHANGED <<file, loaded, role, changes>>
  BY <1>10, Zenon DEF Verify, FailToStart, StartCrashes, Accept
<1>11. UNCHANGED configVars => UNCHANGED <<file, loaded, role, changes>>
  BY DEF configVars
<1> QED
  BY <1>4, <1>5, <1>6, <1>7, <1>8, <1>9, <1>10, <1>11, Zenon DEF ConfigNext, ConfigStep

LEMMA ConfigBeginsTyped == ConfigInit => ConfigTypeOK
BY ChangesAssumption DEF ConfigInit, ConfigTypeOK, ShippedFile, Form

(* The types of Config, and that the files hold JSON whoever wrote them. *)
THEOREM ConfigTyped == ConfigSpec => [](ConfigTypeOK /\ FilesAreJson)
<1>1. ConfigInvariant /\ ConfigInvariant' /\ FilesAreJson /\ ConfigTypeOK /\ [ConfigNext]_configVars
        => ConfigTypeOK'
  BY ConfigStaysTyped
<1>2. FilesAreJson /\ [ConfigNext]_configVars => FilesAreJson'
  BY FilesKeepJson
<1> QED
  BY <1>1, <1>2, ConfigSafe, FilesBegin, ConfigBeginsTyped, PTL DEF ConfigSpec

-----------------------------------------------------------------------------
(* Learning. *)

(* Two peers that share a directory of profiles. *)
LearnSpec == LearnInit /\ [][LearnNext]_learnVars

LEMMA MinOfTwo ==
  ASSUME NEW a \in Int, NEW b \in Int
  PROVE  Extrema!Min({a, b}) \in {a, b} /\ Extrema!Min({a, b}) <= a /\ Extrema!Min({a, b}) <= b
<1>1. \E x \in {a, b} : \A y \in {a, b} : x <= y
  OBVIOUS
<1> QED
  BY <1>1 DEF Extrema!Min
LEMMA MaxOfTwo ==
  ASSUME NEW a \in Int, NEW b \in Int
  PROVE  Extrema!Max({a, b}) \in {a, b} /\ Extrema!Max({a, b}) >= a /\ Extrema!Max({a, b}) >= b
<1>1. \E x \in {a, b} : \A y \in {a, b} : x >= y
  OBVIOUS
<1> QED
  BY <1>1 DEF Extrema!Max

LEMMA Clipped ==
  ASSUME NEW x \in Int, NEW b, b.lo \in Int, b.hi \in Int, b.lo <= b.hi
  PROVE  /\ Clip(x, b) \in b.lo .. b.hi
         /\ b.lo <= x /\ x <= b.hi => Clip(x, b) = x
<1>1. PICK lo \in Int, hi \in Int : b.lo = lo /\ b.hi = hi /\ lo <= hi
  OBVIOUS
<1>2. PICK m \in Int : m = Extrema!Min({hi, x}) /\ m \in {hi, x} /\ m <= hi /\ m <= x
  BY MinOfTwo
<1>3. PICK c \in Int : c = Extrema!Max({lo, m}) /\ c \in {lo, m} /\ c >= lo /\ c >= m
  <2>1. /\ Extrema!Max({lo, m}) \in {lo, m}
        /\ Extrema!Max({lo, m}) >= lo /\ Extrema!Max({lo, m}) >= m
    BY MaxOfTwo
  <2>2. Extrema!Max({lo, m}) \in Int
    BY <2>1
  <2> QED
    BY <2>1, <2>2
<1>4. Clip(x, b) = c
  BY <1>1, <1>2, <1>3 DEF Clip
<1>5. c \in lo .. hi /\ (lo <= x /\ x <= hi => c = x)
  BY <1>1, <1>2, <1>3
<1> QED
  BY <1>1, <1>4, <1>5

(* An average of two rates is a rate. *)
LEMMA AverageIsARate ==
  ASSUME NEW f, NEW old \in 0 .. UNIT, NEW new \in 0 .. UNIT
  PROVE  Average(f, old, new) \in 0 .. UNIT
BY DEF Average, UNIT

LEMMA ProfileFields ==
  ASSUME NEW f \in Profiles
  PROVE  /\ f.games \in Nat /\ f.barrier \in 0 .. UNIT /\ f.direction \in 0 .. UNIT
         /\ f.whole \in BOOLEAN
BY DEF Profiles

LEMMA FreshIsAProfile == Fresh \in Profiles /\ Fresh.whole /\ Fresh.games = 0
BY DEF Fresh, Profiles, UNIT

LEMMA UpdateIsAProfile ==
  ASSUME NEW f \in Profiles, f.whole, NEW p \in Learner, NEW rate \in {0, UNIT}
  PROVE  /\ update(f, Observation(p, rate)) \in Profiles
         /\ update(f, Observation(p, rate)).whole
         /\ update(f, Observation(p, rate)).games = f.games + 1
<1> DEFINE o == Observation(p, rate)
           b == Average(f, f.barrier, o.barrier)
           d == Average(f, f.direction, o.direction)
<1>1. o.barrier \in 0 .. UNIT /\ o.direction \in 0 .. UNIT
  BY DEF Observation, UNIT
<1>2. b \in 0 .. UNIT /\ d \in 0 .. UNIT
  BY <1>1, ProfileFields, AverageIsARate
<1>3. f = [games |-> f.games, barrier |-> f.barrier, direction |-> f.direction, whole |-> f.whole]
  BY DEF Profiles
<1>4. f.games + 1 \in Nat
  BY ProfileFields
<1>5. update(f, o) = [f EXCEPT !.games = f.games + 1, !.barrier = b, !.direction = d]
  BY DEF update
<1> HIDE DEF o, b, d
<1>6. update(f, o) = [games |-> f.games + 1, barrier |-> b, direction |-> d, whole |-> f.whole]
  BY <1>3, <1>5
<1>7. update(f, o) \in Profiles /\ update(f, o).whole /\ update(f, o).games = f.games + 1
  BY <1>2, <1>4, <1>6, ProfileFields DEF Profiles
<1> QED
  BY <1>7 DEF o

LEMMA WhatIsDerived ==
  ASSUME NEW p \in Learner, NEW g \in Profiles, NEW o \in Profiles
  PROVE  /\ Derived(p, g, o) \in Bounds[p].lo .. Bounds[p].hi
         /\ g.games = 0 /\ o.games = 0 => Derived(p, g, o) = Baseline[p]
<1>1. /\ Bounds[p].lo \in Int /\ Bounds[p].hi \in Int /\ Baseline[p] \in Int
      /\ Bounds[p].lo <= Baseline[p] /\ Baseline[p] <= Bounds[p].hi /\ LEARNING_RATE[p] \in Int
  BY DEF Learner, Bounds, Baseline, LEARNING_RATE
<1>2. \A f \in Profiles : Confidence(f) \in Int /\ (f.games = 0 => Confidence(f) = 0)
  <2> SUFFICES ASSUME NEW f \in Profiles
               PROVE  Confidence(f) \in Int /\ (f.games = 0 => Confidence(f) = 0)
    OBVIOUS
  <2>1. f.games \in Int /\ Saturation \in Int /\ Saturation = 8 /\ f.games >= 0
    BY ProfileFields DEF Saturation
  <2>2. Confidence(f) \in {Saturation, f.games} /\ Confidence(f) <= f.games
    BY <2>1, MinOfTwo DEF Confidence
  <2> QED
    BY <2>1, <2>2
<1>3. PICK f \in Profiles, c \in Int :
        /\ _select_profile(g, o).profile = f /\ _select_profile(g, o).confidence = c
        /\ g.games = 0 /\ o.games = 0 => c = 0
  <2>1. CASE o.games > 0
    <3>1. 7 * Confidence(o) + 3 * Confidence(g) \in Int
      BY <1>2
    <3> QED
      BY <2>1, <3>1 DEF _select_profile
  <2>2. CASE ~(o.games > 0)
    <3>1. 10 * Confidence(g) \in Int /\ (g.games = 0 => 10 * Confidence(g) = 0)
      BY <1>2
    <3> QED
      BY <2>2, <3>1 DEF _select_profile
  <2> QED
    BY <2>1, <2>2
<1>4. PICK t \in Int : Target(p, f) = t
  <2>1. f.barrier \in Int /\ f.direction \in Int /\ UNIT = 64
    BY ProfileFields DEF UNIT
  <2> QED
    BY <1>1, <2>1 DEF Target
<1>5. Derived(p, g, o) = Clip(Baseline[p] + (c * LEARNING_RATE[p] * (t - Baseline[p]))
                                           \div (100 * Saturation), Bounds[p])
  BY <1>3, <1>4 DEF Derived, _blend
<1>6. PICK x \in Int : /\ x = Baseline[p] + (c * LEARNING_RATE[p] * (t - Baseline[p]))
                                           \div (100 * Saturation)
                       /\ c = 0 => x = Baseline[p]
  <2>1. PICK y \in Int : y = c * LEARNING_RATE[p] * (t - Baseline[p]) /\ (c = 0 => y = 0)
    BY <1>1
  <2>2. 100 * Saturation = 800
    BY DEF Saturation
  <2>3. y \div 800 \in Int /\ (y = 0 => y \div 800 = 0)
    OBVIOUS
  <2> QED
    BY <1>1, <2>1, <2>2, <2>3
<1>7. Clip(x, Bounds[p]) \in Bounds[p].lo .. Bounds[p].hi
  BY <1>1, Clipped
<1>8. c = 0 => Clip(x, Bounds[p]) = Baseline[p]
  BY <1>1, <1>6, Clipped
<1>9. Derived(p, g, o) = Clip(x, Bounds[p])
  BY <1>5, <1>6
<1> QED
  BY <1>3, <1>7, <1>8, <1>9

LEMMA LearnTypes ==
  ASSUME LearnTypeOK
  PROVE  /\ \A name \in Names : files[name] \in Profiles /\ files[name].games \in Int
         /\ files["global"] \in Profiles /\ files["global"].games \in Int /\ earlier \in Int
         /\ \A p \in Learner :
              /\ p \in Names /\ p # "global" /\ files[p] \in Profiles /\ files[p].games \in Int
              /\ draft[p] \in Profiles /\ draft[p].games \in Int
              /\ matches[p] \in Int /\ matches[p] >= 0 /\ saved[p] \in Int /\ seen[p] \in {0, UNIT}
<1>1. /\ files \in [Names -> Profiles] /\ draft \in [Learner -> Profiles] /\ earlier \in Nat
      /\ MaxMatches \in Nat /\ matches \in [Learner -> 0 .. MaxMatches]
      /\ \A p \in Learner : saved[p] \in 0 .. matches[p]
      /\ seen \in [Learner -> {0, UNIT}]
  BY EarlierAssumption DEF LearnTypeOK
<1>2. \A name \in Names : files[name] \in Profiles /\ files[name].games \in Int
  BY <1>1, ProfileFields
<1>3. "global" \in Names /\ \A p \in Learner : p \in Names /\ p # "global"
  BY DEF Names, Learner
<1>4. \A p \in Learner : draft[p] \in Profiles /\ draft[p].games \in Int
  BY <1>1, ProfileFields
<1> QED
  BY <1>1, <1>2, <1>3, <1>4

LEMMA LearnTypesNext ==
  ASSUME LearnTypeOK'
  PROVE  \A p \in Learner : matches'[p] \in Int
<1>1. matches' \in [Learner -> 0 .. MaxMatches]
  BY DEF LearnTypeOK
<1> QED
  BY <1>1, EarlierAssumption

LEMMA InvariantIsSafe ==
  ASSUME LearnInvariant
  PROVE  ProfilesAreWhole /\ CountsAreOfMatches /\ StaysInBounds
<1>1. ProfilesAreWhole
  BY DEF LearnInvariant
<1>2. CountsAreOfMatches
  <2>1. PICK c \in Int, e \in Int, m \in Int, n \in Int :
          /\ c = files["global"].games /\ e = earlier
          /\ m = matches["police"] /\ n = matches["thief"]
    <3>1. files["global"].games \in Int /\ earlier \in Int
      BY LearnTypes DEF LearnInvariant
    <3>2. matches["police"] \in Int /\ matches["thief"] \in Int
      BY LearnTypes DEF LearnInvariant, Learner
    <3> QED
      BY <3>1, <3>2
  <2>2. PICK k \in {0, 1}, l \in {0, 1} : Taught("police") = m - k /\ Taught("thief") = n - l
    BY <2>1 DEF Taught
  <2>3. c <= e + ((m - k) + (n - l))
    BY <2>1, <2>2 DEF LearnInvariant, AllTaught
  <2>4. c <= e + m + n
    BY <2>3
  <2> QED
    BY <2>1, <2>4 DEF CountsAreOfMatches
<1>3. StaysInBounds
  <2> SUFFICES ASSUME NEW p \in Learner
               PROVE  /\ Parameter(p) \in Bounds[p].lo..Bounds[p].hi
                      /\ files["global"].games = 0 /\ files[p].games = 0 =>
                           Parameter(p) = Baseline[p]
    BY DEF StaysInBounds
  <2>1. files["global"] \in Profiles /\ files[p] \in Profiles
    BY LearnTypes DEF LearnInvariant
  <2> QED
    BY <2>1, WhatIsDerived DEF Parameter
<1> QED
  BY <1>1, <1>2, <1>3

LEMMA LearnBegins ==
  ASSUME LearnInit
  PROVE  LearnInvariant
<1>1. /\ \A name \in Names : files[name] \in Profiles /\ files[name].whole
      /\ files \in [Names -> Profiles]
  <2>1. ASSUME NEW g \in Nat, NEW r \in {0, UNIT}
        PROVE  [games |-> g, barrier |-> r, direction |-> r, whole |-> TRUE] \in Profiles
    <3>1. r \in 0 .. UNIT
      BY DEF UNIT
    <3> QED
      BY <3>1 DEF Profiles
  <2>2. \A f \in EarlierProfiles : f \in Profiles /\ f.whole
    <3> SUFFICES ASSUME NEW f \in EarlierProfiles
                 PROVE  f \in Profiles /\ f.whole
      OBVIOUS
    <3>1. f = Fresh \/ \E g \in Nat, r \in {0, UNIT} :
                         f = [games |-> g, barrier |-> r, direction |-> r, whole |-> TRUE]
      BY EarlierAssumption DEF EarlierProfiles
    <3>2. CASE f = Fresh
      BY <3>2, FreshIsAProfile
    <3>3. ASSUME NEW g \in Nat, NEW r \in {0, UNIT},
                 f = [games |-> g, barrier |-> r, direction |-> r, whole |-> TRUE]
          PROVE  f \in Profiles /\ f.whole
      BY <2>1, <3>3
    <3> QED
      BY <3>1, <3>2, <3>3
  <2>3. files \in [Names -> EarlierProfiles]
    BY DEF LearnInit
  <2> QED
    BY <2>2, <2>3
<1>2. /\ at = [p \in Learner |-> "idle"] /\ earlier = files["global"].games
      /\ seen = [p \in Learner |-> 0] /\ draft = [p \in Learner |-> Fresh]
      /\ matches = [p \in Learner |-> 0] /\ saved = [p \in Learner |-> 0]
  BY DEF LearnInit
<1>3. earlier \in Nat
  BY <1>1, <1>2, ProfileFields DEF Names
<1>4. Taught("police") = 0 /\ Taught("thief") = 0
  BY <1>2 DEF Taught, Learner
<1>5. LearnTypeOK
  BY <1>1, <1>2, <1>3, FreshIsAProfile, EarlierAssumption DEF LearnTypeOK
<1>6. files["global"].games <= earlier + AllTaught
  BY <1>2, <1>3, <1>4 DEF AllTaught
<1> QED
  BY <1>1, <1>2, <1>5, <1>6, FreshIsAProfile DEF LearnInvariant, ProfilesAreWhole

-----------------------------------------------------------------------------
(* The steps. *)

LEMMA TaughtIsANumber ==
  ASSUME LearnTypeOK
  PROVE  AllTaught \in Int /\ \A p \in Learner : Taught(p) \in Int
<1>1. \A p \in Learner : Taught(p) \in Int
  BY LearnTypes DEF Taught
<1> QED
  BY <1>1 DEF AllTaught, Learner

LEMMA TaughtIsANumberNext ==
  ASSUME LearnTypeOK'
  PROVE  \A p \in Learner : Taught(p)' \in Int
BY LearnTypesNext DEF Taught

LEMMA SumOfTwo == \A m, n \in Int : m + n = n + m /\ m + n \in Int
OBVIOUS
LEMMA SumGrows ==
  ASSUME NEW m \in Int, NEW n \in Int, NEW k \in Int, NEW e \in Int, k >= m
  PROVE  /\ k + n >= m + n
         /\ \A c \in Int : c <= e + (m + n) => c <= e + (k + n)
         /\ k > m => \A c \in Int : c <= e + (m + n) => c + 1 <= e + (k + n)
OBVIOUS

(* What becomes of the invariant when p does something. *)
OnlyActs(p) ==
  /\ earlier' = earlier
  /\ \A q \in Learner \ {p} :
       /\ at'[q] = at[q] /\ draft'[q] = draft[q] /\ files'[q] = files[q]
       /\ matches'[q] = matches[q] /\ saved'[q] = saved[q]
GlobalFollows(p) ==
  \/ files'["global"] = files["global"]
  \/ at[p] = "global written" /\ files'["global"] = draft[p]
DraftContinues(p) ==
  /\ draft'[p].whole
  /\ at'[p] # "idle" => saved'[p] < matches'[p]
  /\ at'[p] = "written" => draft'[p].games = files'[p].games + 1
GlobalDrafted(p) ==
  at'[p] = "global written" =>
    Taught(p)' > Taught(p) /\ draft'[p].games = files["global"].games + 1
TaughtGrows(p) == Taught(p)' >= Taught(p)
WithinTaught(n) == n <= earlier + AllTaught

LEMMA OneActs ==
  ASSUME LearnInvariant, NEW p \in Learner, LearnTypeOK', ProfilesAreWhole', OnlyActs(p),
         GlobalFollows(p), DraftContinues(p), GlobalDrafted(p), TaughtGrows(p)
  PROVE  LearnInvariant'
<1>1. PICK q \in Learner : q # p /\ Learner = {p, q}
  BY DEF Learner
<1>2. /\ \A r \in Learner : Taught(r) \in Int /\ Taught(r)' \in Int
      /\ earlier \in Int /\ earlier' = earlier
  BY TaughtIsANumber, TaughtIsANumberNext, LearnTypes DEF LearnInvariant, OnlyActs
<1>3. AllTaught = Taught(p) + Taught(q) /\ AllTaught' = Taught(p)' + Taught(q)'
  <2>1. (p = "police" /\ q = "thief") \/ (p = "thief" /\ q = "police")
    BY <1>1 DEF Learner
  <2> QED
    BY <1>2, <2>1, SumOfTwo DEF AllTaught, Learner
<1>4. Taught(q)' = Taught(q)
  BY <1>1 DEF Taught, OnlyActs
<1>5. \A n \in Int : WithinTaught(n) =>
        WithinTaught(n)' /\ (Taught(p)' > Taught(p) => WithinTaught(n + 1)')
  <2>1. Taught(p)' >= Taught(p)
    BY DEF TaughtGrows
  <2> QED
    BY <1>2, <1>3, <1>4, <2>1, SumGrows DEF WithinTaught
<1>6. WithinTaught(files["global"].games)'
  <2>1. /\ files["global"].games \in Int /\ WithinTaught(files["global"].games)
        /\ at[p] = "global written" =>
             draft[p].games \in Int /\ WithinTaught(draft[p].games)
    BY LearnTypes DEF LearnInvariant, WithinTaught
  <2>2. PICK g \in Int : g = files'["global"].games /\ WithinTaught(g)
    BY <2>1 DEF GlobalFollows
  <2>3. WithinTaught(g)'
    BY <1>5, <2>2
  <2> QED
    BY <2>2, <2>3 DEF WithinTaught
<1>7. at'[q] = "global written" => WithinTaught(draft[q].games)'
  <2>1. draft[q].games \in Int
    BY LearnTypes DEF LearnInvariant
  <2>2. at[q] = "global written" => WithinTaught(draft[q].games)
    BY DEF LearnInvariant, WithinTaught
  <2>3. PICK g \in Int : g = draft[q].games
    BY <2>1
  <2>4. at[q] = "global written" => WithinTaught(g)'
    BY <1>5, <2>2, <2>3
  <2>5. at'[q] = at[q] /\ draft'[q] = draft[q]
    BY <1>1 DEF OnlyActs
  <2> QED
    BY <2>3, <2>4, <2>5 DEF WithinTaught
<1>8. at'[p] = "global written" => WithinTaught(draft[p].games)'
  <2>1. files["global"].games \in Int /\ WithinTaught(files["global"].games)
    BY LearnTypes DEF LearnInvariant, WithinTaught
  <2>2. PICK g \in Int : g = files["global"].games
    BY <2>1
  <2>3. Taught(p)' > Taught(p) => WithinTaught(g + 1)'
    BY <1>5, <2>1, <2>2
  <2>4. at'[p] = "global written" => Taught(p)' > Taught(p) /\ draft'[p].games = g + 1
    BY <2>2 DEF GlobalDrafted
  <2> QED
    BY <2>3, <2>4 DEF WithinTaught
<1>9. ASSUME NEW r \in Learner
      PROVE  /\ draft'[r].whole
             /\ at'[r] # "idle" => saved'[r] < matches'[r]
             /\ at'[r] = "written" => draft'[r].games = files'[r].games + 1
             /\ at'[r] = "global written" => draft'[r].games <= earlier' + AllTaught'
  <2>1. CASE r = p
    BY <1>8, <2>1 DEF DraftContinues, WithinTaught
  <2>2. CASE r = q
    BY <1>1, <1>7, <2>2 DEF LearnInvariant, OnlyActs, WithinTaught
  <2> QED
    BY <1>1, <2>1, <2>2
<1>10. files'["global"].games <= earlier' + AllTaught'
  BY <1>6 DEF WithinTaught
<1> QED
  BY <1>9, <1>10 DEF LearnInvariant

LEMMA PrepareKeeps ==
  ASSUME LearnInvariant, NEW p \in Learner, Prepare(p)
  PROVE  LearnInvariant'
<1>1. /\ at[p] = "idle" /\ matches["police"] + matches["thief"] < MaxMatches
      /\ at' = [at EXCEPT ![p] = "playing"]
      /\ matches' = [matches EXCEPT ![p] = matches[p] + 1]
      /\ UNCHANGED <<files, seen, draft, earlier, saved>>
  BY DEF Prepare
<1>2. PICK m \in Int, n \in Int :
        /\ matches["police"] = m /\ matches["thief"] = n /\ m >= 0 /\ n >= 0
        /\ m + n < MaxMatches /\ MaxMatches \in Nat
  <2>1. "police" \in Learner /\ "thief" \in Learner
    BY DEF Learner
  <2>2. \A q \in Learner : matches[q] \in Int /\ matches[q] >= 0
    BY LearnTypes DEF LearnInvariant
  <2> QED
    BY <1>1, <2>1, <2>2, EarlierAssumption
<1>3. PICK k \in Int : k = matches[p] /\ k >= 0 /\ k + 1 \in 0 .. MaxMatches
  <2>1. m + 1 \in 0 .. MaxMatches /\ n + 1 \in 0 .. MaxMatches
    BY <1>2
  <2>2. matches[p] = m \/ matches[p] = n
    BY <1>2 DEF Learner
  <2> QED
    BY <1>2, <2>1, <2>2
<1>4. PICK s \in Int : s = saved[p] /\ s \in 0 .. k
  <2>1. saved[p] \in 0 .. k
    BY <1>3 DEF LearnInvariant, LearnTypeOK
  <2> QED
    BY <2>1
<1>5. /\ at' \in [Learner -> {"idle", "playing", "learning", "global written", "global saved", "written"}]
      /\ at'[p] = "playing" /\ \A q \in Learner \ {p} : at'[q] = at[q]
  BY <1>1 DEF LearnInvariant, LearnTypeOK
<1>6. /\ matches' \in [Learner -> 0 .. MaxMatches]
      /\ matches'[p] = k + 1 /\ \A q \in Learner \ {p} : matches'[q] = matches[q]
  <2>1. matches \in [Learner -> 0 .. MaxMatches] /\ matches' = [matches EXCEPT ![p] = k + 1]
    BY <1>1, <1>3 DEF LearnInvariant, LearnTypeOK
  <2> QED
    BY <1>3, <2>1
<1>7. LearnTypeOK'
  <2>1. \A q \in Learner \ {p} : saved'[q] \in 0 .. matches'[q]
    BY <1>1, <1>6 DEF LearnInvariant, LearnTypeOK
  <2>2. saved'[p] = s /\ s \in 0 .. k + 1
    BY <1>1, <1>3, <1>4
  <2>3. \A q \in Learner : saved'[q] \in 0 .. matches'[q]
    BY <1>6, <2>1, <2>2
  <2> QED
    BY <1>1, <1>5, <1>6, <2>3 DEF LearnInvariant, LearnTypeOK
<1>8. TaughtGrows(p)
  <2>1. Taught(p) = k - 0
    BY <1>1, <1>3 DEF Taught
  <2>2. PICK l \in Int : l = matches'[p] /\ l = k + 1
    BY <1>3, <1>6
  <2>3. Taught(p)' = l - 1
    BY <1>5, <2>2 DEF Taught
  <2> QED
    BY <1>3, <2>1, <2>2, <2>3 DEF TaughtGrows
<1>9. DraftContinues(p)
  <2>1. saved'[p] = s /\ s < k + 1
    BY <1>1, <1>3, <1>4
  <2> QED
    BY <1>1, <1>5, <1>6, <2>1 DEF DraftContinues, LearnInvariant
<1>10. OnlyActs(p) /\ GlobalFollows(p) /\ GlobalDrafted(p) /\ ProfilesAreWhole'
  BY <1>1, <1>5, <1>6 DEF OnlyActs, GlobalFollows, GlobalDrafted, LearnInvariant, ProfilesAreWhole
<1> QED
  BY <1>7, <1>8, <1>9, <1>10, OneActs

LEMMA MatchOverKeeps ==
  ASSUME LearnInvariant, NEW p \in Learner, MatchOver(p)
  PROVE  LearnInvariant'
<1>1. /\ at[p] = "playing" /\ UNCHANGED <<files, draft, matches, earlier, saved>>
      /\ \E a \in {"learning", "idle"} : at' = [at EXCEPT ![p] = a]
      /\ \/ \E rate \in {0, UNIT} : seen' = [seen EXCEPT ![p] = rate]
         \/ UNCHANGED seen
  BY DEF MatchOver
<1>2. /\ at' \in [Learner -> {"idle", "playing", "learning", "global written", "global saved", "written"}]
      /\ seen' \in [Learner -> {0, UNIT}]
      /\ at'[p] \in {"learning", "idle"} /\ \A q \in Learner \ {p} : at'[q] = at[q]
  BY <1>1 DEF LearnInvariant, LearnTypeOK
<1>3. LearnTypeOK'
  BY <1>1, <1>2 DEF LearnInvariant, LearnTypeOK
<1>4. TaughtGrows(p)
  <2>1. PICK m \in Int : m = matches[p]
    BY LearnTypes DEF LearnInvariant
  <2>2. Taught(p) = m - 1 /\ (Taught(p)' = m - 1 \/ Taught(p)' = m - 0)
    BY <1>1, <1>2, <2>1 DEF Taught
  <2> QED
    BY <2>2 DEF TaughtGrows
<1>5. DraftContinues(p)
  BY <1>1, <1>2 DEF DraftContinues, LearnInvariant
<1>6. OnlyActs(p) /\ GlobalFollows(p) /\ GlobalDrafted(p) /\ ProfilesAreWhole'
  BY <1>1, <1>2 DEF OnlyActs, GlobalFollows, GlobalDrafted, LearnInvariant, ProfilesAreWhole
<1> QED
  BY <1>3, <1>4, <1>5, <1>6, OneActs

LEMMA NotSavedKeeps ==
  ASSUME LearnInvariant, NEW p \in Learner, NotSaved(p)
  PROVE  LearnInvariant'
<1>1. /\ at' = [at EXCEPT ![p] = "idle"] /\ draft' = [draft EXCEPT ![p] = Fresh]
      /\ seen' = [seen EXCEPT ![p] = 0]
      /\ UNCHANGED <<files, matches, earlier, saved>>
  BY DEF NotSaved
<1>2. /\ at' \in [Learner -> {"idle", "playing", "learning", "global written", "global saved", "written"}]
      /\ seen' \in [Learner -> {0, UNIT}] /\ draft' \in [Learner -> Profiles]
      /\ at'[p] = "idle" /\ draft'[p] = Fresh
      /\ \A q \in Learner \ {p} : at'[q] = at[q] /\ draft'[q] = draft[q]
  BY <1>1, FreshIsAProfile DEF LearnInvariant, LearnTypeOK
<1>3. LearnTypeOK'
  BY <1>1, <1>2 DEF LearnInvariant, LearnTypeOK
<1>4. TaughtGrows(p)
  <2>1. PICK m \in Int : m = matches[p]
    BY LearnTypes DEF LearnInvariant
  <2>2. (Taught(p) = m - 1 \/ Taught(p) = m - 0) /\ Taught(p)' = m - 0
    BY <1>1, <1>2, <2>1 DEF Taught
  <2> QED
    BY <2>2 DEF TaughtGrows
<1>5. DraftContinues(p)
  BY <1>2, FreshIsAProfile DEF DraftContinues
<1>6. OnlyActs(p) /\ GlobalFollows(p) /\ GlobalDrafted(p) /\ ProfilesAreWhole'
  BY <1>1, <1>2 DEF OnlyActs, GlobalFollows, GlobalDrafted, LearnInvariant, ProfilesAreWhole
<1> QED
  BY <1>3, <1>4, <1>5, <1>6, OneActs

LEMMA Drafted ==
  ASSUME LearnInvariant, NEW p \in Learner, NEW name \in Names, NEW next, Write(p, name, next)
  PROVE  /\ draft' \in [Learner -> Profiles] /\ draft'[p].whole
         /\ draft'[p].games = files[name].games + 1
         /\ \A q \in Learner \ {p} : draft'[q] = draft[q]
<1> DEFINE d == update(_load(files[name]), Observation(p, seen[p]))
<1>1. files[name] \in Profiles /\ files[name].whole /\ seen[p] \in {0, UNIT}
  BY LearnTypes DEF LearnInvariant, ProfilesAreWhole
<1>2. _load(files[name]) = files[name]
  BY <1>1 DEF _load
<1>3. d \in Profiles /\ d.whole /\ d.games = files[name].games + 1
  BY <1>1, <1>2, UpdateIsAProfile
<1>4. draft' = [draft EXCEPT ![p] = d] /\ draft \in [Learner -> Profiles]
  BY DEF Write, LearnInvariant, LearnTypeOK
<1> HIDE DEF d
<1>5. draft'[p] = d /\ draft' \in [Learner -> Profiles]
      /\ \A q \in Learner \ {p} : draft'[q] = draft[q]
  BY <1>3, <1>4
<1> QED
  BY <1>3, <1>5

LEMMA SaveGlobalKeeps ==
  ASSUME LearnInvariant, NEW p \in Learner, SaveGlobal(p)
  PROVE  LearnInvariant'
<1>1. UNCHANGED <<seen, matches, earlier, saved>>
  BY DEF SaveGlobal
<1>2. PICK m \in Int : m = matches[p]
  BY LearnTypes DEF LearnInvariant
<1>3. CASE at[p] = "learning" /\ Write(p, "global", "global written")
  <2>1. /\ at[p] = "learning" /\ at' = [at EXCEPT ![p] = "global written"] /\ files' = files
    BY <1>3 DEF Write
  <2>2. /\ draft' \in [Learner -> Profiles] /\ draft'[p].whole
        /\ draft'[p].games = files["global"].games + 1
        /\ \A q \in Learner \ {p} : draft'[q] = draft[q]
    BY <1>3, Drafted DEF Names
  <2>3. /\ at' \in [Learner -> {"idle", "playing", "learning", "global written", "global saved", "written"}]
        /\ at'[p] = "global written" /\ \A q \in Learner \ {p} : at'[q] = at[q]
    BY <2>1 DEF LearnInvariant, LearnTypeOK
  <2>4. LearnTypeOK'
    BY <1>1, <2>1, <2>2, <2>3 DEF LearnInvariant, LearnTypeOK
  <2>5. Taught(p) = m - 1 /\ Taught(p)' = m - 0
    BY <1>1, <1>2, <2>1, <2>3 DEF Taught
  <2>6. TaughtGrows(p) /\ Taught(p)' > Taught(p)
    BY <1>2, <2>5 DEF TaughtGrows
  <2>7. DraftContinues(p)
    BY <1>1, <2>1, <2>2, <2>3 DEF DraftContinues, LearnInvariant
  <2>8. OnlyActs(p) /\ GlobalFollows(p) /\ ProfilesAreWhole'
    BY <1>1, <2>1, <2>2, <2>3 DEF OnlyActs, GlobalFollows, LearnInvariant, ProfilesAreWhole
  <2>9. GlobalDrafted(p)
    BY <2>2, <2>6 DEF GlobalDrafted
  <2> QED
    BY <2>4, <2>6, <2>7, <2>8, <2>9, OneActs
<1>4. CASE at[p] = "global written" /\ Replace(p, "global", "global saved")
  <2>1. /\ at[p] = "global written" /\ at' = [at EXCEPT ![p] = "global saved"]
        /\ files' = [files EXCEPT !["global"] = draft[p]] /\ draft' = [draft EXCEPT ![p] = Fresh]
    BY <1>4 DEF Replace
  <2>2. draft[p] \in Profiles /\ draft[p].whole /\ Fresh \in Profiles /\ Fresh.whole
    BY LearnTypes, FreshIsAProfile DEF LearnInvariant
  <2>3. /\ at' \in [Learner -> {"idle", "playing", "learning", "global written", "global saved", "written"}]
        /\ at'[p] = "global saved" /\ \A q \in Learner \ {p} : at'[q] = at[q]
        /\ draft' \in [Learner -> Profiles] /\ draft'[p] = Fresh
        /\ \A q \in Learner \ {p} : draft'[q] = draft[q]
    BY <2>1, <2>2 DEF LearnInvariant, LearnTypeOK
  <2>4. /\ files' \in [Names -> Profiles] /\ files'["global"] = draft[p]
        /\ \A name \in Names : name # "global" => files'[name] = files[name]
    BY <2>1, <2>2 DEF LearnInvariant, LearnTypeOK, Names
  <2>5. LearnTypeOK'
    BY <1>1, <2>3, <2>4 DEF LearnInvariant, LearnTypeOK
  <2>6. TaughtGrows(p)
    <3>1. Taught(p) = m - 0 /\ Taught(p)' = m - 0
      BY <1>1, <1>2, <2>1, <2>3 DEF Taught
    <3> QED
      BY <1>2, <3>1 DEF TaughtGrows
  <2>7. DraftContinues(p) /\ GlobalDrafted(p)
    BY <1>1, <2>1, <2>2, <2>3 DEF DraftContinues, GlobalDrafted, LearnInvariant
  <2>8. OnlyActs(p) /\ GlobalFollows(p)
    BY <1>1, <2>1, <2>3, <2>4 DEF OnlyActs, GlobalFollows, Names, Learner
  <2>9. ProfilesAreWhole'
    BY <2>2, <2>4 DEF LearnInvariant, ProfilesAreWhole
  <2> QED
    BY <2>5, <2>6, <2>7, <2>8, <2>9, OneActs
<1> QED
  BY <1>3, <1>4 DEF SaveGlobal

LEMMA SaveOpponentKeeps ==
  ASSUME LearnInvariant, NEW p \in Learner, SaveOpponent(p)
  PROVE  LearnInvariant'
<1>1. UNCHANGED <<matches, earlier>> /\ p \in Names /\ p # "global"
  BY LearnTypes DEF SaveOpponent, LearnInvariant
<1>2. PICK m \in Int : m = matches[p]
  BY LearnTypes DEF LearnInvariant
<1>3. CASE at[p] = "global saved" /\ Write(p, p, "written") /\ UNCHANGED saved
  <2>1. /\ at[p] = "global saved" /\ at' = [at EXCEPT ![p] = "written"]
        /\ files' = files /\ saved' = saved
    BY <1>3 DEF Write
  <2>2. /\ draft' \in [Learner -> Profiles] /\ draft'[p].whole
        /\ draft'[p].games = files[p].games + 1
        /\ \A q \in Learner \ {p} : draft'[q] = draft[q]
    BY <1>1, <1>3, Drafted
  <2>3. /\ at' \in [Learner -> {"idle", "playing", "learning", "global written", "global saved", "written"}]
        /\ at'[p] = "written" /\ \A q \in Learner \ {p} : at'[q] = at[q]
    BY <2>1 DEF LearnInvariant, LearnTypeOK
  <2>4. seen' = seen
    BY <2>3 DEF SaveOpponent
  <2>5. LearnTypeOK'
    BY <1>1, <2>1, <2>2, <2>3, <2>4 DEF LearnInvariant, LearnTypeOK
  <2>6. TaughtGrows(p)
    <3>1. Taught(p) = m - 0 /\ Taught(p)' = m - 0
      BY <1>1, <1>2, <2>1, <2>3 DEF Taught
    <3> QED
      BY <1>2, <3>1 DEF TaughtGrows
  <2>7. DraftContinues(p)
    BY <1>1, <2>1, <2>2, <2>3 DEF DraftContinues, LearnInvariant
  <2>8. OnlyActs(p) /\ GlobalFollows(p) /\ GlobalDrafted(p) /\ ProfilesAreWhole'
    BY <1>1, <2>1, <2>2, <2>3
    DEF OnlyActs, GlobalFollows, GlobalDrafted, LearnInvariant, ProfilesAreWhole
  <2> QED
    BY <2>5, <2>6, <2>7, <2>8, OneActs
<1>4. CASE /\ at[p] = "written" /\ Replace(p, p, "idle")
           /\ saved' = [saved EXCEPT ![p] = saved[p] + 1]
  <2>1. /\ at[p] = "written" /\ at' = [at EXCEPT ![p] = "idle"]
        /\ files' = [files EXCEPT ![p] = draft[p]] /\ draft' = [draft EXCEPT ![p] = Fresh]
    BY <1>4 DEF Replace
  <2>2. draft[p] \in Profiles /\ draft[p].whole /\ Fresh \in Profiles /\ Fresh.whole
    BY LearnTypes, FreshIsAProfile DEF LearnInvariant
  <2>3. /\ at' \in [Learner -> {"idle", "playing", "learning", "global written", "global saved", "written"}]
        /\ at'[p] = "idle" /\ \A q \in Learner \ {p} : at'[q] = at[q]
        /\ draft' \in [Learner -> Profiles] /\ draft'[p] = Fresh
        /\ \A q \in Learner \ {p} : draft'[q] = draft[q]
    BY <2>1, <2>2 DEF LearnInvariant, LearnTypeOK
  <2>4. /\ files' \in [Names -> Profiles] /\ files'[p] = draft[p]
        /\ \A name \in Names : name # p => files'[name] = files[name]
    BY <1>1, <2>1, <2>2 DEF LearnInvariant, LearnTypeOK
  <2>5. /\ saved' \in [Learner -> Nat] /\ saved'[p] \in 0 .. matches'[p]
        /\ \A q \in Learner \ {p} : saved'[q] = saved[q]
    <3>1. PICK s \in Int : s = saved[p] /\ s \in 0 .. m /\ s < m
      <4>1. saved[p] \in 0 .. m /\ saved[p] < m
        BY <1>2, <2>1 DEF LearnInvariant, LearnTypeOK
      <4> QED
        BY <4>1
    <3>2. /\ saved' \in [Learner -> Nat]
          /\ saved'[p] = s + 1 /\ \A q \in Learner \ {p} : saved'[q] = saved[q]
      <4>1. saved \in [Learner -> Nat]
        BY DEF LearnInvariant, LearnTypeOK
      <4> QED
        BY <1>4, <3>1, <4>1
    <3>3. s + 1 \in 0 .. m
      BY <3>1
    <3> QED
      BY <1>1, <1>2, <3>2, <3>3
  <2>6. LearnTypeOK'
    <3>1. \A q \in Learner : saved'[q] \in 0 .. matches'[q]
      BY <1>1, <2>5 DEF LearnInvariant, LearnTypeOK
    <3>2. seen' \in [Learner -> {0, UNIT}]
      BY DEF SaveOpponent, LearnInvariant, LearnTypeOK
    <3> QED
      BY <1>1, <2>3, <2>4, <2>5, <3>1, <3>2 DEF LearnInvariant, LearnTypeOK
  <2>7. TaughtGrows(p)
    <3>1. Taught(p) = m - 0 /\ Taught(p)' = m - 0
      BY <1>1, <1>2, <2>1, <2>3 DEF Taught
    <3> QED
      BY <1>2, <3>1 DEF TaughtGrows
  <2>8. DraftContinues(p) /\ GlobalDrafted(p)
    BY <2>2, <2>3 DEF DraftContinues, GlobalDrafted
  <2>9. OnlyActs(p) /\ GlobalFollows(p)
    BY <1>1, <2>3, <2>4, <2>5 DEF OnlyActs, GlobalFollows, Names, Learner
  <2>10. ProfilesAreWhole'
    BY <2>2, <2>4 DEF LearnInvariant, ProfilesAreWhole
  <2> QED
    BY <2>6, <2>7, <2>8, <2>9, <2>10, OneActs
<1> QED
  BY <1>3, <1>4 DEF SaveOpponent

LEMMA LearnStutters ==
  ASSUME LearnInvariant, UNCHANGED learnVars
  PROVE  LearnInvariant'
BY DEF LearnInvariant, LearnTypeOK, ProfilesAreWhole, AllTaught, Taught, learnVars

(* The inductive step. *)
LEMMA LearnKeepsInvariant ==
  ASSUME LearnInvariant, [LearnNext]_learnVars
  PROVE  LearnInvariant'
<1>1. CASE UNCHANGED learnVars
  BY <1>1, LearnStutters
<1>2. ASSUME NEW p \in Learner,
             Prepare(p) \/ MatchOver(p) \/ SaveGlobal(p) \/ SaveOpponent(p) \/ NotSaved(p)
      PROVE  LearnInvariant'
  BY <1>2, PrepareKeeps, MatchOverKeeps, SaveGlobalKeeps, SaveOpponentKeeps, NotSavedKeeps
<1> QED
  BY <1>1, <1>2 DEF LearnNext

(* What an opponent's profile grows by is what is reported as saved.        *)
LEMMA LearnCountsSaves ==
  ASSUME LearnInvariant, [LearnNext]_learnVars
  PROVE  SavesAreCounted
<1> SUFFICES ASSUME NEW q \in Learner
             PROVE  files'[q].games - files[q].games = saved'[q] - saved[q]
  BY DEF SavesAreCounted
<1>1. PICK g \in Int, s \in Int : g = files[q].games /\ s = saved[q]
  BY LearnTypes DEF LearnInvariant
<1>2. g - g = s - s /\ (g + 1) - g = (s + 1) - s
  OBVIOUS
<1>3. CASE files'[q] = files[q] /\ saved'[q] = saved[q]
  BY <1>1, <1>2, <1>3
<1>4. CASE at[q] = "written" /\ Replace(q, q, "idle") /\ saved' = [saved EXCEPT ![q] = @ + 1]
  <2>1. files'[q] = draft[q] /\ draft[q].games = g + 1
    BY <1>1, <1>4 DEF Replace, LearnInvariant, LearnTypeOK, Names
  <2>2. saved'[q] = s + 1
    BY <1>1, <1>4 DEF LearnInvariant, LearnTypeOK
  <2> QED
    BY <1>1, <1>2, <2>1, <2>2
<1>5. ASSUME NEW p \in Learner, SaveGlobal(p)
      PROVE  files'[q] = files[q] /\ saved'[q] = saved[q]
  BY <1>5, LearnTypes DEF SaveGlobal, Write, Replace, LearnInvariant, LearnTypeOK
<1>6. ASSUME NEW p \in Learner, SaveOpponent(p)
      PROVE  \/ files'[q] = files[q] /\ saved'[q] = saved[q]
             \/ /\ at[q] = "written" /\ Replace(q, q, "idle")
                /\ saved' = [saved EXCEPT ![q] = @ + 1]
  <2>1. CASE at[p] = "global saved" /\ Write(p, p, "written") /\ UNCHANGED saved
    BY <2>1 DEF Write
  <2>2. CASE /\ at[p] = "written" /\ Replace(p, p, "idle")
             /\ saved' = [saved EXCEPT ![p] = @ + 1] /\ p # q
    <3>1. q \in Names /\ files \in [Names -> Profiles] /\ saved \in [Learner -> Nat]
      BY LearnTypes DEF LearnInvariant, LearnTypeOK
    <3>2. files'[q] = files[q] /\ saved'[q] = saved[q]
      BY <2>2, <3>1 DEF Replace
    <3> QED
      BY <3>2
  <2> QED
    BY <1>6, <2>1, <2>2 DEF SaveOpponent
<1>7. ASSUME NEW p \in Learner, Prepare(p) \/ MatchOver(p) \/ NotSaved(p)
      PROVE  files'[q] = files[q] /\ saved'[q] = saved[q]
  BY <1>7 DEF Prepare, MatchOver, NotSaved
<1>8. CASE UNCHANGED learnVars
  BY <1>3, <1>8 DEF learnVars
<1> QED
  BY <1>3, <1>4, <1>5, <1>6, <1>7, <1>8 DEF LearnNext

(* The profiles on disk and in the temporary files are whole, an opponent's *)
(* temporary file is one game ahead of the profile it replaces, and none    *)
(* counts a match that was not played, for any number of matches and any    *)
(* profiles to begin with.                                                  *)
THEOREM LearnSafe == LearnSpec => []LearnInvariant
<1>1. LearnInit => LearnInvariant
  BY LearnBegins
<1>2. LearnInvariant /\ [LearnNext]_learnVars => LearnInvariant'
  BY LearnKeepsInvariant
<1> QED
  BY <1>1, <1>2, PTL DEF LearnSpec

(* However the two processes overlap or are killed: "learning update:       *)
(* saved" was reported exactly as often as the opponent's profile grew, the *)
(* shared profile counts no match twice, and the parameters derived from    *)
(* them stay inside their bounds.                                           *)
THEOREM SavesAreReported == LearnSpec => LearningIsSafe
<1>1. LearnInvariant => ProfilesAreWhole /\ CountsAreOfMatches /\ StaysInBounds
  BY InvariantIsSafe
<1>2. LearnInvariant /\ [LearnNext]_learnVars => [SavesAreCounted]_learnVars
  BY LearnCountsSaves
<1> QED
  BY <1>1, <1>2, LearnSafe, PTL DEF LearnSpec, LearningIsSafe

-----------------------------------------------------------------------------
(* How far one game moves what is derived. *)

(* The three numbers of a derivation: confidence, profile, distance of the  *)
(* target from the baseline.                                                *)
Weight(g, o) ==
  IF o.games > 0 THEN 7 * Confidence(o) + 3 * Confidence(g) ELSE 10 * Confidence(g)
Basis(g, o) == IF o.games > 0 THEN o ELSE g
Pull(p, f) == Target(p, f) - Baseline[p]

LEMMA DerivedFrom ==
  ASSUME NEW p \in Learner, NEW g \in Profiles, NEW o \in Profiles
  PROVE  Derived(p, g, o) =
           Clip(Baseline[p] + (Weight(g, o) * LEARNING_RATE[p] * Pull(p, Basis(g, o)))
                                \div (100 * Saturation), Bounds[p])
<1>1. /\ _select_profile(g, o).profile = Basis(g, o)
      /\ _select_profile(g, o).confidence = Weight(g, o)
  BY DEF _select_profile, Basis, Weight
<1> QED
  BY <1>1 DEF Derived, _blend, Pull

LEMMA ClipIs ==
  ASSUME NEW x \in Int, NEW b, b.lo \in Int, b.hi \in Int, b.lo <= b.hi
  PROVE  Clip(x, b) = IF x < b.lo THEN b.lo ELSE IF x > b.hi THEN b.hi ELSE x
<1>1. PICK lo \in Int, hi \in Int : b.lo = lo /\ b.hi = hi /\ lo <= hi
  OBVIOUS
<1>2. PICK m \in Int : m = Extrema!Min({hi, x}) /\ m \in {hi, x} /\ m <= hi /\ m <= x
  BY MinOfTwo
<1>3. PICK c \in Int : c = Extrema!Max({lo, m}) /\ c \in {lo, m} /\ c >= lo /\ c >= m
  <2>1. /\ Extrema!Max({lo, m}) \in {lo, m}
        /\ Extrema!Max({lo, m}) >= lo /\ Extrema!Max({lo, m}) >= m
    BY MaxOfTwo
  <2>2. Extrema!Max({lo, m}) \in Int
    BY <2>1
  <2> QED
    BY <2>1, <2>2
<1>4. Clip(x, b) = c
  BY <1>1, <1>2, <1>3 DEF Clip
<1>5. c = IF x < lo THEN lo ELSE IF x > hi THEN hi ELSE x
  BY <1>1, <1>2, <1>3
<1> QED
  BY <1>1, <1>4, <1>5

(* Two derivations are as near as their products are. *)
Near(x, y, n) == x - y <= n /\ y - x <= n

LEMMA QuotientsNear ==
  ASSUME NEW a \in Int, NEW b \in Int, NEW n \in Nat, NEW m \in Nat,
         Near(a, b, n), n + 799 <= 800 * m
  PROVE  Near(a \div 800, b \div 800, m)
<1>1. a - b <= n /\ b - a <= n
  BY DEF Near
<1>2. PICK q \in Int, r \in Int :
        /\ q = a \div 800 /\ 800 * q <= a /\ a <= 800 * q + 799
        /\ r = b \div 800 /\ 800 * r <= b /\ b <= 800 * r + 799
  OBVIOUS
<1>3. q - r <= m /\ r - q <= m
  BY <1>1, <1>2
<1> QED
  BY <1>2, <1>3 DEF Near

LEMMA ClipsNear ==
  ASSUME NEW x \in Int, NEW y \in Int, NEW m \in Nat, Near(x, y, m),
         NEW b, b.lo \in Int, b.hi \in Int, b.lo <= b.hi
  PROVE  Near(Clip(x, b), Clip(y, b), m)
<1>1. PICK lo \in Int, hi \in Int : b.lo = lo /\ b.hi = hi /\ lo <= hi
  OBVIOUS
<1>2. PICK c \in Int, d \in Int :
        /\ c = Clip(x, b) /\ c = IF x < lo THEN lo ELSE IF x > hi THEN hi ELSE x
        /\ d = Clip(y, b) /\ d = IF y < lo THEN lo ELSE IF y > hi THEN hi ELSE y
  BY <1>1, ClipIs
<1>3. c - d <= m /\ d - c <= m
  BY <1>1, <1>2 DEF Near
<1> QED
  BY <1>2, <1>3 DEF Near

(* Products of a small factor. *)
LEMMA ProductOfSigns == \A a, b \in Nat : a * b \in Nat
OBVIOUS
LEMMA ProductBound ==
  ASSUME NEW a \in Int, NEW u \in Nat, 0 <= a, a <= u,
         NEW x \in Int, NEW y \in Nat, Near(x, 0, y)
  PROVE  Near(a * x, 0, u * y)
<1>1. -y <= x /\ x <= y
  BY DEF Near
<1>2. a \in Nat /\ u - a \in Nat /\ y - x \in Nat /\ x + y \in Nat
  BY <1>1
<1>3. a * (y - x) \in Nat /\ a * (x + y) \in Nat /\ (u - a) * y \in Nat
  BY <1>2, ProductOfSigns
<1>4. /\ a * (y - x) = a * y - a * x /\ a * (x + y) = a * x + a * y
      /\ (u - a) * y = u * y - a * y
  OBVIOUS
<1>5. PICK ax \in Int, ay \in Int, uy \in Int : ax = a * x /\ ay = a * y /\ uy = u * y
  OBVIOUS
<1>6. ay - ax >= 0 /\ ax + ay >= 0 /\ uy - ay >= 0
  BY <1>3, <1>4, <1>5
<1>7. ax <= uy /\ -ax <= uy
  BY <1>6
<1> QED
  BY <1>5, <1>7 DEF Near

(* A game changes a rate by a quarter at most, unless it is the first.      *)
LEMMA RateMoves ==
  ASSUME NEW f \in Profiles, f.games > 0, NEW old \in 0 .. UNIT, NEW new \in 0 .. UNIT
  PROVE  Near(Average(f, old, new), old, 16)
<1>1. f.games # 0 /\ UNIT = 64
  BY ProfileFields DEF UNIT
<1>2. Average(f, old, new) = (3 * old + new) \div 4
  BY <1>1 DEF Average
<1>3. PICK r \in Int, n \in Int : r = old /\ n = new /\ 0 <= r /\ r <= 64 /\ 0 <= n /\ n <= 64
  BY <1>1
<1>4. (3 * r + n) \div 4 - r <= 16 /\ r - (3 * r + n) \div 4 <= 16
  BY <1>3
<1> QED
  BY <1>2, <1>3, <1>4 DEF Near

(* The furthest a target is from the baseline, and the furthest a game that *)
(* is not the first of a profile moves it.                                  *)
Below == [thief |-> 6000, police |-> 500]
Above == [thief |-> 12000, police |-> 500]
Shift == [thief |-> 4501, police |-> 251]

LEMMA ThiefTargets ==
  ASSUME NEW f \in Profiles
  PROVE  /\ Pull("thief", f) = (f.barrier * 18000) \div 64 - 6000
         /\ Pull("thief", f) \in Int /\ -6000 <= Pull("thief", f) /\ Pull("thief", f) <= 12000
<1>1. PICK r \in Int : r = f.barrier /\ 0 <= r /\ r <= 64
  BY ProfileFields DEF UNIT
<1>2. /\ Bounds["thief"].lo = 6000 /\ Bounds["thief"].hi = 24000 /\ Baseline["thief"] = 12000
      /\ UNIT = 64
  BY DEF Bounds, Baseline, UNIT
<1>3. Target("thief", f) = 6000 + (r * (24000 - 6000)) \div 64
  BY <1>1, <1>2 DEF Target
<1>4. PICK t \in Int : t = (r * 18000) \div 64 /\ 0 <= t /\ t <= 18000
  BY <1>1
<1>5. Pull("thief", f) = (6000 + t) - 12000
  BY <1>2, <1>3, <1>4 DEF Pull
<1> QED
  BY <1>1, <1>4, <1>5

LEMMA CopTargets ==
  ASSUME NEW f \in Profiles
  PROVE  /\ Pull("police", f) = 500 - (f.direction * 1000) \div 64
         /\ Pull("police", f) \in Int /\ -500 <= Pull("police", f) /\ Pull("police", f) <= 500
<1>1. PICK r \in Int : r = f.direction /\ 0 <= r /\ r <= 64
  BY ProfileFields DEF UNIT
<1>2. /\ Bounds["police"].lo = 1000 /\ Bounds["police"].hi = 2000 /\ Baseline["police"] = 1500
      /\ UNIT = 64
  BY DEF Bounds, Baseline, UNIT
<1>3. Target("police", f) = 2000 - (r * (2000 - 1000)) \div 64
  BY <1>1, <1>2 DEF Target
<1>4. PICK t \in Int : t = (r * 1000) \div 64 /\ 0 <= t /\ t <= 1000
  BY <1>1
<1>5. Pull("police", f) = (2000 - t) - 1500
  BY <1>2, <1>3, <1>4 DEF Pull
<1> QED
  BY <1>1, <1>4, <1>5

LEMMA Pulls ==
  ASSUME NEW p \in Learner, NEW f \in Profiles
  PROVE  Pull(p, f) \in Int /\ -Below[p] <= Pull(p, f) /\ Pull(p, f) <= Above[p]
<1>1. CASE p = "thief"
  BY <1>1, ThiefTargets DEF Below, Above
<1>2. CASE p = "police"
  BY <1>2, CopTargets DEF Below, Above
<1> QED
  BY <1>1, <1>2 DEF Learner

(* A profile after a game. *)
Continues(f, h) ==
  /\ h.games = f.games + 1
  /\ f.games > 0 => Near(h.barrier, f.barrier, 16) /\ Near(h.direction, f.direction, 16)

LEMMA PullMoves ==
  ASSUME NEW p \in Learner, NEW f \in Profiles, NEW h \in Profiles, Continues(f, h), f.games > 0
  PROVE  Near(Pull(p, h), Pull(p, f), Shift[p])
<1>1. PICK r \in Int, s \in Int, u \in Int, v \in Int :
        /\ r = f.barrier /\ s = h.barrier /\ u = f.direction /\ v = h.direction
        /\ r - s <= 16 /\ s - r <= 16 /\ u - v <= 16 /\ v - u <= 16
  BY ProfileFields DEF Continues, Near
<1>2. CASE p = "thief"
  <2>1. /\ ((s * 18000) \div 64 - 6000) - ((r * 18000) \div 64 - 6000) <= 4501
        /\ ((r * 18000) \div 64 - 6000) - ((s * 18000) \div 64 - 6000) <= 4501
    BY <1>1
  <2> QED
    BY <1>1, <1>2, <2>1, ThiefTargets DEF Near, Shift
<1>3. CASE p = "police"
  <2>1. /\ (500 - (v * 1000) \div 64) - (500 - (u * 1000) \div 64) <= 251
        /\ (500 - (u * 1000) \div 64) - (500 - (v * 1000) \div 64) <= 251
    BY <1>1
  <2> QED
    BY <1>1, <1>3, <2>1, CopTargets DEF Near, Shift
<1> QED
  BY <1>2, <1>3 DEF Learner

LEMMA UpdateContinues ==
  ASSUME NEW f \in Profiles, f.whole, NEW p \in Learner, NEW rate \in {0, UNIT}
  PROVE  Continues(f, update(f, Observation(p, rate)))
<1> DEFINE o == Observation(p, rate)
           b == Average(f, f.barrier, o.barrier)
           d == Average(f, f.direction, o.direction)
<1>1. o.barrier \in 0 .. UNIT /\ o.direction \in 0 .. UNIT
  BY DEF Observation, UNIT
<1>2. f.games > 0 => Near(b, f.barrier, 16) /\ Near(d, f.direction, 16)
  BY <1>1, ProfileFields, RateMoves
<1>3. f = [games |-> f.games, barrier |-> f.barrier, direction |-> f.direction, whole |-> f.whole]
  BY DEF Profiles
<1>4. update(f, o) = [f EXCEPT !.games = f.games + 1, !.barrier = b, !.direction = d]
  BY DEF update
<1> HIDE DEF o, b, d
<1>5. update(f, o) = [games |-> f.games + 1, barrier |-> b, direction |-> d, whole |-> f.whole]
  BY <1>3, <1>4
<1>6. Continues(f, update(f, o))
  BY <1>2, <1>5 DEF Continues
<1> QED
  BY <1>6 DEF o

LEMMA Confidences ==
  ASSUME NEW f \in Profiles
  PROVE  /\ Confidence(f) \in 0 .. 8
         /\ Confidence(f) = IF f.games < 8 THEN f.games ELSE 8
<1>1. PICK g \in Int : g = f.games /\ g >= 0
  BY ProfileFields
<1>2. PICK c \in Int : c = Extrema!Min({8, g}) /\ c \in {8, g} /\ c <= 8 /\ c <= g
  BY MinOfTwo
<1>3. Confidence(f) = c
  BY <1>1, <1>2 DEF Confidence, Saturation
<1>4. c \in 0 .. 8 /\ c = IF g < 8 THEN g ELSE 8
  BY <1>1, <1>2
<1> QED
  BY <1>1, <1>3, <1>4

LEMMA ConfidenceGrows ==
  ASSUME NEW f \in Profiles, NEW h \in Profiles, h.games = f.games + 1
  PROVE  /\ Confidence(f) <= Confidence(h) /\ Confidence(h) <= Confidence(f) + 1
         /\ f.games = 0 => Confidence(f) = 0 /\ Confidence(h) = 1
<1>1. PICK g \in Int : g = f.games /\ g >= 0 /\ h.games = g + 1
  BY ProfileFields
<1>2. /\ Confidence(f) = IF g < 8 THEN g ELSE 8
      /\ Confidence(h) = IF g + 1 < 8 THEN g + 1 ELSE 8
  BY <1>1, Confidences
<1> QED
  BY <1>1, <1>2

(* A derivation from its products, and a change of a product from the       *)
(* changes of its factors.                                                  *)
LEMMA DerivationsNear ==
  ASSUME NEW p \in Learner, NEW g \in Profiles, NEW o \in Profiles,
         NEW h \in Profiles, NEW k \in Profiles, NEW n \in Nat, NEW m \in Nat,
         Weight(g, o) \in Int, Weight(h, k) \in Int,
         Near(Weight(h, k) * Pull(p, Basis(h, k)), Weight(g, o) * Pull(p, Basis(g, o)), n),
         LEARNING_RATE[p] * n + 799 <= 800 * m
  PROVE  /\ Near(Derived(p, h, k), Derived(p, g, o), m)
         /\ Derived(p, h, k) \in Int /\ Derived(p, g, o) \in Int
<1>1. PICK c \in Int, d \in Int, e \in Int, f \in Int :
        /\ c = Weight(g, o) /\ d = Pull(p, Basis(g, o))
        /\ e = Weight(h, k) /\ f = Pull(p, Basis(h, k))
  <2>1. Basis(g, o) \in Profiles /\ Basis(h, k) \in Profiles
    BY DEF Basis
  <2> QED
    BY <2>1, Pulls
<1>2. PICK l \in Nat : l = LEARNING_RATE[p] /\ (l = 2 \/ l = 4)
  BY DEF Learner, LEARNING_RATE
<1>3. PICK x \in Int, y \in Int : x = c * d /\ y = e * f
  OBVIOUS
<1>4. Near(y, x, n) /\ l * n + 799 <= 800 * m
  BY <1>1, <1>2, <1>3
<1>5. c * l * d = l * x /\ e * l * f = l * y
  BY <1>2, <1>3
<1>6. Near(l * y, l * x, l * n) /\ l * n \in Nat /\ l * x \in Int /\ l * y \in Int
  BY <1>2, <1>4 DEF Near
<1>7. Near((l * y) \div 800, (l * x) \div 800, m)
  BY <1>4, <1>6, QuotientsNear
<1>8. /\ Bounds[p].lo \in Int /\ Bounds[p].hi \in Int /\ Bounds[p].lo <= Bounds[p].hi
      /\ Baseline[p] \in Int
  BY DEF Learner, Bounds, Baseline
<1>9. PICK u \in Int, v \in Int, b \in Int :
        /\ u = (l * x) \div 800 /\ v = (l * y) \div 800 /\ b = Baseline[p]
  BY <1>2, <1>8
<1>10. Near(b + v, b + u, m)
  BY <1>7, <1>9 DEF Near
<1>11. 100 * Saturation = 800
  BY DEF Saturation
<1>12. /\ Derived(p, g, o) = Clip(b + u, Bounds[p])
       /\ Derived(p, h, k) = Clip(b + v, Bounds[p])
  BY <1>1, <1>2, <1>5, <1>9, <1>11, DerivedFrom
<1>13. Near(Clip(b + v, Bounds[p]), Clip(b + u, Bounds[p]), m)
  BY <1>8, <1>10, ClipsNear
<1>14. Clip(b + v, Bounds[p]) \in Int /\ Clip(b + u, Bounds[p]) \in Int
  BY <1>8, Clipped
<1> QED
  BY <1>12, <1>13, <1>14

(* A weight that grows from c to e by w at most, and stays within v. *)
Grows(c, e, v, w) == 0 <= c /\ c <= e /\ e <= v /\ e - c <= w

LEMMA ProductsNear ==
  ASSUME NEW c \in Int, NEW e \in Int, NEW d \in Int, NEW f \in Int,
         NEW v \in Nat, NEW w \in Nat, NEW s \in Nat, NEW b \in Nat,
         Grows(c, e, v, w), Near(d, 0, b), Near(f, d, s)
  PROVE  Near(e * f, c * d, v * s + w * b)
<1>1. PICK g \in Int, a \in Int :
        /\ g = f - d /\ a = e - c /\ Near(g, 0, s)
        /\ 0 <= a /\ a <= w /\ 0 <= e /\ e <= v
  BY DEF Near, Grows
<1>2. Near(e * g, 0, v * s)
  BY <1>1, ProductBound
<1>3. Near(a * d, 0, w * b)
  BY <1>1, ProductBound
<1>4. e * f - c * d = e * g + a * d
  BY <1>1
<1>5. PICK x \in Int, y \in Int, ef \in Int, cd \in Int, vs \in Int, wb \in Int :
        /\ x = e * g /\ y = a * d /\ ef = e * f /\ cd = c * d
        /\ vs = v * s /\ wb = w * b
  BY <1>1
<1>6. /\ Near(x, 0, vs) /\ Near(y, 0, wb) /\ ef - cd = x + y
  BY <1>2, <1>3, <1>4, <1>5
<1>7. Near(ef, cd, vs + wb)
  BY <1>6 DEF Near
<1> QED
  BY <1>5, <1>7

LEMMA ProductRange ==
  ASSUME NEW a \in Int, NEW u \in Nat, 0 <= a, a <= u,
         NEW x \in Int, NEW low \in Nat, NEW high \in Nat, -low <= x, x <= high
  PROVE  -(u * low) <= a * x /\ a * x <= u * high
<1>1. a \in Nat /\ u - a \in Nat /\ high - x \in Nat /\ x + low \in Nat
  OBVIOUS
<1>2. /\ a * (high - x) \in Nat /\ a * (x + low) \in Nat
      /\ (u - a) * high \in Nat /\ (u - a) * low \in Nat
  BY <1>1, ProductOfSigns
<1>3. /\ a * (high - x) = a * high - a * x /\ a * (x + low) = a * x + a * low
      /\ (u - a) * high = u * high - a * high /\ (u - a) * low = u * low - a * low
  OBVIOUS
<1>4. PICK ax \in Int, ah \in Int, al \in Int, uh \in Int, ul \in Int :
        /\ ax = a * x /\ ah = a * high /\ al = a * low /\ uh = u * high /\ ul = u * low
  OBVIOUS
<1>5. ah - ax >= 0 /\ ax + al >= 0 /\ uh - ah >= 0 /\ ul - al >= 0
  BY <1>2, <1>3, <1>4
<1>6. -ul <= ax /\ ax <= uh
  BY <1>5
<1> QED
  BY <1>4, <1>6

LEMMA Weights ==
  ASSUME NEW g \in Profiles, NEW o \in Profiles
  PROVE  Weight(g, o) \in Int /\ 0 <= Weight(g, o) /\ Weight(g, o) <= 80
<1>1. PICK c \in Int, d \in Int :
        c = Confidence(g) /\ d = Confidence(o) /\ 0 <= c /\ c <= 8 /\ 0 <= d /\ d <= 8
  BY Confidences
<1> QED
  BY <1>1 DEF Weight

(* 15 % and 34 % of the range of each parameter. *)
Some == [thief |-> 2700, police |-> 150]
Much == [thief |-> 6120, police |-> 340]

LEMMA Ranges ==
  ASSUME NEW p \in Learner
  PROVE  /\ Below[p] \in Nat /\ Above[p] \in Nat /\ Shift[p] \in Nat /\ Below[p] <= Above[p]
         /\ Some[p] \in Nat /\ Much[p] \in Nat
         /\ 100 * Some[p] = 15 * (Bounds[p].hi - Bounds[p].lo)
         /\ 100 * Much[p] = 34 * (Bounds[p].hi - Bounds[p].lo)
         /\ LEARNING_RATE[p] * (80 * Shift[p] + 7 * Above[p]) + 799 <= 800 * Some[p]
         /\ LEARNING_RATE[p] * (80 * Shift[p] + 10 * Above[p]) + 799 <= 800 * Much[p]
         /\ LEARNING_RATE[p] * (80 * Above[p] + 31 * Below[p]) + 799 <= 800 * Much[p]
         /\ LEARNING_RATE[p] * (31 * Above[p] + 80 * Below[p]) + 799 <= 800 * Much[p]
<1>1. CASE p = "thief"
  <2>1. /\ Below[p] = 6000 /\ Above[p] = 12000 /\ Shift[p] = 4501 /\ LEARNING_RATE[p] = 4
        /\ Bounds[p].lo = 6000 /\ Bounds[p].hi = 24000 /\ Some[p] = 2700 /\ Much[p] = 6120
    BY <1>1 DEF Below, Above, Shift, LEARNING_RATE, Bounds, Some, Much
  <2> QED
    BY <2>1
<1>2. CASE p = "police"
  <2>1. /\ Below[p] = 500 /\ Above[p] = 500 /\ Shift[p] = 251 /\ LEARNING_RATE[p] = 2
        /\ Bounds[p].lo = 1000 /\ Bounds[p].hi = 2000 /\ Some[p] = 150 /\ Much[p] = 340
    BY <1>2 DEF Below, Above, Shift, LEARNING_RATE, Bounds, Some, Much
  <2> QED
    BY <2>1
<1> QED
  BY <1>1, <1>2 DEF Learner

(* A game for a profile that has some, or for the global one beside an      *)
(* opponent's that has some: 15 % of the range at most.                     *)
LEMMA KnownMovesSome ==
  ASSUME NEW p \in Learner, NEW g \in Profiles, NEW o \in Profiles,
         NEW h \in Profiles, NEW k \in Profiles, o.games > 0,
         \/ h = g /\ Continues(o, k)
         \/ k = o /\ Continues(g, h)
  PROVE  /\ Near(Derived(p, h, k), Derived(p, g, o), Some[p])
         /\ Derived(p, h, k) \in Int /\ Derived(p, g, o) \in Int
<1>1. k.games > 0 /\ Basis(g, o) = o /\ Basis(h, k) = k
  BY ProfileFields DEF Basis, Continues
<1>2. PICK b \in Nat, s \in Nat : b = Above[p] /\ s = Shift[p]
  BY Ranges
<1>3. PICK d \in Int, f \in Int :
        /\ d = Pull(p, o) /\ f = Pull(p, k) /\ Near(d, 0, b) /\ Near(f, d, s)
  <2>1. Near(Pull(p, o), 0, b) /\ Pull(p, o) \in Int /\ Pull(p, k) \in Int
    BY <1>2, Pulls, Ranges DEF Near
  <2>2. Near(Pull(p, k), Pull(p, o), s)
    <3>1. CASE Continues(o, k)
      BY <1>2, <3>1, PullMoves
    <3>2. CASE k = o
      BY <1>2, <2>1, <3>2 DEF Near
    <3> QED
      BY <3>1, <3>2
  <2> QED
    BY <2>1, <2>2
<1>4. PICK c \in Int, e \in Int :
        /\ c = Weight(g, o) /\ e = Weight(h, k)
        /\ 0 <= c /\ c <= e /\ e <= 80 /\ e - c <= 7
  <2>1. /\ Weight(g, o) = 7 * Confidence(o) + 3 * Confidence(g)
        /\ Weight(h, k) = 7 * Confidence(k) + 3 * Confidence(h)
    BY <1>1 DEF Weight
  <2>2. /\ Confidence(o) <= Confidence(k) /\ Confidence(k) <= Confidence(o) + 1
        /\ Confidence(g) <= Confidence(h) /\ Confidence(h) <= Confidence(g) + 1
        /\ h = g \/ k = o
    BY Confidences, ConfidenceGrows DEF Continues
  <2>3. Weight(g, o) \in Int /\ Weight(h, k) \in Int /\ 0 <= Weight(g, o) /\ Weight(h, k) <= 80
    BY Weights
  <2>4. /\ Confidence(o) \in Int /\ Confidence(k) \in Int
        /\ Confidence(g) \in Int /\ Confidence(h) \in Int
    BY Confidences
  <2> QED
    BY <2>1, <2>2, <2>3, <2>4
<1>5. Near(e * f, c * d, 80 * s + 7 * b)
  <2>1. PICK v \in Nat, w \in Nat : v = 80 /\ w = 7
    OBVIOUS
  <2>2. /\ c \in Int /\ e \in Int /\ d \in Int /\ f \in Int
        /\ v \in Nat /\ w \in Nat /\ s \in Nat /\ b \in Nat
        /\ Grows(c, e, v, w) /\ Near(d, 0, b) /\ Near(f, d, s)
    BY <1>3, <1>4, <2>1 DEF Grows
  <2>3. Near(e * f, c * d, v * s + w * b)
    BY ONLY <2>2, ProductsNear, Zenon
  <2> QED
    BY <2>1, <2>3
<1>6. PICK n \in Nat : n = 80 * s + 7 * b
  OBVIOUS
<1>7. /\ Weight(g, o) \in Int /\ Weight(h, k) \in Int
      /\ Near(Weight(h, k) * Pull(p, Basis(h, k)), Weight(g, o) * Pull(p, Basis(g, o)), n)
  BY <1>1, <1>3, <1>4, <1>5, <1>6
<1>8. Some[p] \in Nat /\ LEARNING_RATE[p] * n + 799 <= 800 * Some[p]
  BY <1>2, <1>6, Ranges
<1> QED
  BY <1>7, <1>8, DerivationsNear

(* A game for the global profile beside an opponent's without any. *)
LEMMA GlobalMovesMuch ==
  ASSUME NEW p \in Learner, NEW g \in Profiles, NEW o \in Profiles,
         NEW h \in Profiles, o.games = 0, Continues(g, h)
  PROVE  /\ Near(Derived(p, h, o), Derived(p, g, o), Much[p])
         /\ Derived(p, h, o) \in Int /\ Derived(p, g, o) \in Int
<1>1. Basis(g, o) = g /\ Basis(h, o) = h
  BY DEF Basis
<1>2. PICK b \in Nat, s \in Nat : b = Above[p] /\ s = Shift[p]
  BY Ranges
<1>3. PICK d \in Int, f \in Int :
        /\ d = Pull(p, g) /\ f = Pull(p, h) /\ Near(d, 0, b) /\ Near(f, 0, b)
        /\ g.games > 0 => Near(f, d, s)
  <2>1. /\ Near(Pull(p, g), 0, b) /\ Pull(p, g) \in Int
        /\ Near(Pull(p, h), 0, b) /\ Pull(p, h) \in Int
    BY <1>2, Pulls, Ranges DEF Near
  <2>2. g.games > 0 => Near(Pull(p, h), Pull(p, g), s)
    BY <1>2, PullMoves
  <2> QED
    BY <2>1, <2>2
<1>4. PICK c \in Int, e \in Int :
        /\ c = Weight(g, o) /\ e = Weight(h, o)
        /\ 0 <= c /\ c <= e /\ e <= 80 /\ e - c <= 10
        /\ g.games = 0 => c = 0 /\ e = 10
  <2>1. Weight(g, o) = 10 * Confidence(g) /\ Weight(h, o) = 10 * Confidence(h)
    BY DEF Weight
  <2>2. /\ Confidence(g) <= Confidence(h) /\ Confidence(h) <= Confidence(g) + 1
        /\ g.games = 0 => Confidence(g) = 0 /\ Confidence(h) = 1
    BY ConfidenceGrows DEF Continues
  <2>3. Weight(g, o) \in Int /\ Weight(h, o) \in Int /\ 0 <= Weight(g, o) /\ Weight(h, o) <= 80
    BY Weights
  <2>4. Confidence(g) \in Int /\ Confidence(h) \in Int
    BY Confidences
  <2> QED
    BY <2>1, <2>2, <2>3, <2>4
<1>5. PICK n \in Nat : n = 80 * s + 10 * b
  OBVIOUS
<1>6. Near(e * f, c * d, n)
  <2>1. CASE g.games > 0
    <3>1. PICK v \in Nat, w \in Nat : v = 80 /\ w = 10
      OBVIOUS
    <3>2. /\ c \in Int /\ e \in Int /\ d \in Int /\ f \in Int
          /\ v \in Nat /\ w \in Nat /\ s \in Nat /\ b \in Nat
          /\ Grows(c, e, v, w) /\ Near(d, 0, b) /\ Near(f, d, s)
      BY <1>3, <1>4, <2>1, <3>1 DEF Grows
    <3>3. Near(e * f, c * d, v * s + w * b)
      BY ONLY <3>2, ProductsNear, Zenon
    <3> QED
      BY <1>5, <3>1, <3>3
  <2>2. CASE g.games = 0
    <3>1. c * d = 0 /\ e * f = 10 * f
      BY <1>4, <2>2
    <3>2. 10 * f - 0 <= n /\ 0 - 10 * f <= n
      BY <1>3, <1>5 DEF Near
    <3> QED
      BY <3>1, <3>2 DEF Near
  <2> QED
    BY <2>1, <2>2, ProfileFields
<1>7. /\ Weight(g, o) \in Int /\ Weight(h, o) \in Int
      /\ Near(Weight(h, o) * Pull(p, Basis(h, o)), Weight(g, o) * Pull(p, Basis(g, o)), n)
  BY <1>1, <1>3, <1>4, <1>6
<1>8. Much[p] \in Nat /\ LEARNING_RATE[p] * n + 799 <= 800 * Much[p]
  BY <1>2, <1>5, Ranges
<1> QED
  BY <1>7, <1>8, DerivationsNear

(* The first game of an opponent's profile, which takes the global one's    *)
(* place.                                                                   *)
LEMMA FirstMovesMuch ==
  ASSUME NEW p \in Learner, NEW g \in Profiles, NEW o \in Profiles,
         NEW k \in Profiles, o.games = 0, Continues(o, k)
  PROVE  /\ Near(Derived(p, g, k), Derived(p, g, o), Much[p])
         /\ Derived(p, g, k) \in Int /\ Derived(p, g, o) \in Int
<1>1. k.games = 1 /\ Basis(g, o) = g /\ Basis(g, k) = k
  BY DEF Basis, Continues
<1>2. PICK low \in Nat, high \in Nat : low = Below[p] /\ high = Above[p] /\ low <= high
  BY Ranges
<1>3. PICK d \in Int, f \in Int :
        /\ d = Pull(p, g) /\ f = Pull(p, k)
        /\ -low <= d /\ d <= high /\ -low <= f /\ f <= high
  BY <1>2, Pulls
<1>4. PICK c \in Int, e \in Int :
        /\ c = Weight(g, o) /\ e = Weight(g, k)
        /\ 0 <= c /\ c <= 80 /\ 0 <= e /\ e <= 31
  <2>1. /\ Weight(g, o) = 10 * Confidence(g)
        /\ Weight(g, k) = 7 * Confidence(k) + 3 * Confidence(g)
    BY <1>1 DEF Weight
  <2>2. PICK a \in Int : a = Confidence(g) /\ 0 <= a /\ a <= 8
    BY Confidences
  <2>3. Confidence(k) = 1
    BY <1>1, Confidences
  <2>4. 10 * a <= 80 /\ 0 <= 10 * a /\ 7 * 1 + 3 * a <= 31 /\ 0 <= 7 * 1 + 3 * a
    BY <2>2
  <2> QED
    BY <2>1, <2>2, <2>3, <2>4
<1>5. PICK n \in Nat : n = 80 * high + 31 * low
  OBVIOUS
<1>6. Near(e * f, c * d, n)
  <2>1. PICK u \in Nat, v \in Nat : u = 31 /\ v = 80
    OBVIOUS
  <2>2. -(u * low) <= e * f /\ e * f <= u * high
    BY <1>3, <1>4, <2>1, ProductRange
  <2>3. -(v * low) <= c * d /\ c * d <= v * high
    BY <1>3, <1>4, <2>1, ProductRange
  <2>4. PICK x \in Int, y \in Int : x = e * f /\ y = c * d
    OBVIOUS
  <2>5. -(31 * low) <= x /\ x <= 31 * high /\ -(80 * low) <= y /\ y <= 80 * high
    BY <2>1, <2>2, <2>3, <2>4
  <2>6. x - y <= n /\ y - x <= n
    BY <1>2, <1>5, <2>5
  <2> QED
    BY <2>4, <2>6 DEF Near
<1>7. /\ Weight(g, o) \in Int /\ Weight(g, k) \in Int
      /\ Near(Weight(g, k) * Pull(p, Basis(g, k)), Weight(g, o) * Pull(p, Basis(g, o)), n)
  BY <1>1, <1>3, <1>4, <1>6
<1>8. Much[p] \in Nat /\ LEARNING_RATE[p] * n + 799 <= 800 * Much[p]
  BY <1>2, <1>5, Ranges
<1> QED
  BY <1>7, <1>8, DerivationsNear

(* The temporary file of an opponent's profile is one game ahead of it. *)
LEMMA DraftsContinueAtFirst == LearnInit => DraftsContinue
BY DEF LearnInit, DraftsContinue

LEMMA DraftsGoOn ==
  ASSUME LearnInvariant, DraftsContinue, [LearnNext]_learnVars
  PROVE  DraftsContinue'
<1> DEFINE Ahead(q) == draft[q] = update(_load(files[q]), Observation(q, seen[q]))
<1>1. CASE UNCHANGED learnVars
  BY <1>1 DEF DraftsContinue, learnVars
<1>2. ASSUME NEW p \in Learner,
             Prepare(p) \/ MatchOver(p) \/ SaveGlobal(p) \/ SaveOpponent(p) \/ NotSaved(p)
      PROVE  DraftsContinue'
  <2>1. SUFFICES ASSUME NEW q \in Learner, at'[q] = "written"
                 PROVE  draft'[q] = update(_load(files'[q]), Observation(q, seen'[q]))
    BY DEF DraftsContinue
  <2>2. /\ DOMAIN at = Learner /\ DOMAIN draft = Learner /\ DOMAIN files = Names
        /\ DOMAIN seen = Learner /\ q \in Names /\ q # "global"
    BY LearnTypes DEF LearnInvariant, LearnTypeOK
  <2>3. CASE at[q] = "written" /\ draft'[q] = draft[q] /\ files'[q] = files[q] /\ seen'[q] = seen[q]
    BY <2>3 DEF DraftsContinue
  <2>4. CASE Prepare(p)
    BY <2>1, <2>2, <2>3, <2>4 DEF Prepare
  <2>5. CASE MatchOver(p)
    <3>1. /\ UNCHANGED <<files, draft>>
          /\ \E a \in {"learning", "idle"} : at' = [at EXCEPT ![p] = a]
          /\ \/ \E rate \in {0, UNIT} : seen' = [seen EXCEPT ![p] = rate]
             \/ UNCHANGED seen
      BY <2>5 DEF MatchOver
    <3>2. p # q
      BY <2>1, <2>2, <3>1
    <3> QED
      BY <2>1, <2>2, <2>3, <3>1, <3>2
  <2>6. CASE NotSaved(p)
    BY <2>1, <2>2, <2>3, <2>6 DEF NotSaved
  <2>7. CASE SaveGlobal(p)
    BY <2>1, <2>2, <2>3, <2>7 DEF SaveGlobal, Write, Replace
  <2>8. CASE SaveOpponent(p)
    <3>1. CASE at[p] = "global saved" /\ Write(p, p, "written")
      <4>1. /\ at' = [at EXCEPT ![p] = "written"] /\ files' = files /\ seen' = seen
            /\ draft' = [draft EXCEPT ![p] = update(_load(files[p]), Observation(p, seen[p]))]
        BY <2>2, <2>8, <3>1 DEF Write, SaveOpponent
      <4>2. CASE q = p
        BY <2>2, <4>1, <4>2
      <4>3. CASE q # p
        BY <2>1, <2>2, <2>3, <4>1, <4>3
      <4> QED
        BY <4>2, <4>3
    <3>2. CASE at[p] = "written" /\ Replace(p, p, "idle")
      <4>1. /\ at' = [at EXCEPT ![p] = "idle"] /\ files' = [files EXCEPT ![p] = draft[p]]
            /\ draft' = [draft EXCEPT ![p] = Fresh]
            /\ seen' = seen \/ seen' = [seen EXCEPT ![p] = 0]
        BY <2>8, <3>2 DEF Replace, SaveOpponent
      <4>2. q # p
        BY <2>1, <2>2, <4>1
      <4> QED
        BY <2>1, <2>2, <2>3, <4>1, <4>2
    <3> QED
      BY <2>8, <3>1, <3>2 DEF SaveOpponent
  <2> QED
    BY <1>2, <2>4, <2>5, <2>6, <2>7, <2>8
<1> QED
  BY <1>1, <1>2 DEF LearnNext

(* What a step does to the files: at most one of them continues. *)
LEMMA OneContinues ==
  ASSUME LearnInvariant, DraftsContinue, [LearnNext]_learnVars, files' # files, ~Overtaken
  PROVE  \E name \in Names :
           /\ Continues(files[name], files'[name]) /\ files'[name] \in Profiles
           /\ \A other \in Names \ {name} : files'[other] = files[other]
<1>1. PICK p \in Learner : SaveGlobal(p) \/ SaveOpponent(p)
  <2>1. ASSUME NEW p \in Learner, Prepare(p) \/ MatchOver(p) \/ NotSaved(p)
        PROVE  FALSE
    BY <2>1 DEF Prepare, MatchOver, NotSaved
  <2> QED
    BY <2>1 DEF LearnNext, learnVars
<1>2. /\ \A name \in Names : files[name] \in Profiles /\ files[name].whole
      /\ "global" \in Names /\ p \in Names /\ p # "global" /\ seen[p] \in {0, UNIT}
      /\ files \in [Names -> Profiles] /\ draft[p] \in Profiles
      /\ at \in [Learner -> {"idle", "playing", "learning", "global written", "global saved", "written"}]
  BY LearnTypes DEF LearnInvariant, ProfilesAreWhole, LearnTypeOK, Names
<1>3. \A name \in Names : _load(files[name]) = files[name]
  BY <1>2 DEF _load
<1>4. ASSUME NEW name \in Names, files' = [files EXCEPT ![name] = draft[p]],
             draft[p] = update(_load(files[name]), Observation(p, seen[p]))
      PROVE  /\ Continues(files[name], files'[name]) /\ files'[name] \in Profiles
             /\ \A other \in Names \ {name} : files'[other] = files[other]
  <2>1. files'[name] = draft[p] /\ \A other \in Names \ {name} : files'[other] = files[other]
    BY <1>2, <1>4
  <2>2. Continues(files[name], draft[p])
    BY <1>2, <1>3, <1>4, UpdateContinues
  <2> QED
    BY <1>2, <2>1, <2>2
<1>5. CASE SaveGlobal(p)
  <2>1. /\ at[p] = "global written" /\ at'[p] = "global saved"
        /\ files' = [files EXCEPT !["global"] = draft[p]]
    BY <1>2, <1>5 DEF SaveGlobal, Write, Replace
  <2>2. draft[p] = update(_load(files["global"]), Observation(p, seen[p]))
    BY <2>1 DEF Overtaken
  <2> QED
    BY <1>2, <1>4, <2>1, <2>2
<1>6. CASE SaveOpponent(p)
  <2>1. at[p] = "written" /\ files' = [files EXCEPT ![p] = draft[p]]
    BY <1>6 DEF SaveOpponent, Write, Replace
  <2>2. draft[p] = update(_load(files[p]), Observation(p, seen[p]))
    BY <2>1 DEF DraftsContinue
  <2> QED
    BY <1>2, <1>4, <2>1, <2>2
<1> QED
  BY <1>1, <1>5, <1>6

LEMMA NearIsSlow ==
  ASSUME NEW p \in Learner, NEW m \in Nat, NEW a \in Int, NEW b \in Int, Near(a, b, m)
  PROVE  Extrema!Max({a - b, b - a}) \in Int /\ Extrema!Max({a - b, b - a}) <= m
<1>1. a - b \in Int /\ b - a \in Int /\ a - b <= m /\ b - a <= m
  BY DEF Near
<1>2. Extrema!Max({a - b, b - a}) \in {a - b, b - a}
  BY <1>1, MaxOfTwo
<1> QED
  BY <1>1, <1>2

LEMMA StepMovesSlowly ==
  ASSUME LearnInvariant, DraftsContinue, [LearnNext]_learnVars
  PROVE  MovesSlowly
<1>1. SUFFICES ASSUME files' # files, ~Overtaken, NEW p \in Learner
               PROVE  LET before == Derived(p, files["global"], files[p])
                          after  == Derived(p, files'["global"], files'[p])
                          width  == Bounds[p].hi - Bounds[p].lo
                          moved  == 100 * Extrema!Max({after - before, before - after})
                      IN  moved <= (IF files[p].games > 0 THEN 15 ELSE 34) * width
  BY DEF MovesSlowly
<1>2. PICK name \in Names :
        /\ Continues(files[name], files'[name]) /\ files'[name] \in Profiles
        /\ \A other \in Names \ {name} : files'[other] = files[other]
  BY <1>1, OneContinues
<1>3. PICK g \in Profiles, o \in Profiles, h \in Profiles, k \in Profiles :
        /\ g = files["global"] /\ o = files[p] /\ h = files'["global"] /\ k = files'[p]
        /\ \/ h = g /\ Continues(o, k)
           \/ k = o /\ Continues(g, h)
           \/ h = g /\ k = o
  <2>1. /\ files["global"] \in Profiles /\ files[p] \in Profiles
        /\ "global" \in Names /\ p \in Names /\ p # "global"
    BY LearnTypes DEF LearnInvariant, Names
  <2>2. files'["global"] \in Profiles /\ files'[p] \in Profiles
    BY <1>2, <2>1
  <2>3. \/ files'["global"] = files["global"] /\ Continues(files[p], files'[p])
        \/ files'[p] = files[p] /\ Continues(files["global"], files'["global"])
        \/ files'["global"] = files["global"] /\ files'[p] = files[p]
    BY <1>2, <2>1
  <2> QED
    BY <2>1, <2>2, <2>3
<1>4. PICK m \in Nat, a \in Int, b \in Int :
        /\ a = Derived(p, h, k) /\ b = Derived(p, g, o) /\ Near(a, b, m)
        /\ m = IF o.games > 0 THEN Some[p] ELSE Much[p]
  <2>1. Some[p] \in Nat /\ Much[p] \in Nat
    BY Ranges
  <2>2. CASE h = g /\ k = o
    <3>1. Derived(p, g, o) \in Int
      BY WhatIsDerived, Ranges DEF Learner, Bounds
    <3> QED
      BY <2>1, <2>2, <3>1 DEF Near
  <2>3. CASE o.games > 0 /\ ~(h = g /\ k = o)
    <3>1. /\ Near(Derived(p, h, k), Derived(p, g, o), Some[p])
          /\ Derived(p, h, k) \in Int /\ Derived(p, g, o) \in Int
      BY <1>3, <2>3, KnownMovesSome
    <3> QED
      BY <2>1, <2>3, <3>1
  <2>4. CASE ~(o.games > 0) /\ ~(h = g /\ k = o)
    <3>1. o.games = 0
      BY <2>4, ProfileFields
    <3>2. /\ Near(Derived(p, h, k), Derived(p, g, o), Much[p])
          /\ Derived(p, h, k) \in Int /\ Derived(p, g, o) \in Int
      BY <1>3, <2>4, <3>1, GlobalMovesMuch, FirstMovesMuch
    <3> QED
      BY <2>1, <2>4, <3>2
  <2> QED
    BY <2>2, <2>3, <2>4
<1>5. PICK x \in Int : x = Extrema!Max({a - b, b - a}) /\ x <= m
  BY <1>4, NearIsSlow
<1>6. 100 * m = (IF o.games > 0 THEN 15 ELSE 34) * (Bounds[p].hi - Bounds[p].lo)
  BY <1>4, Ranges
<1>7. 100 * x <= 100 * m
  BY <1>5
<1>8. 100 * Extrema!Max({a - b, b - a}) <=
        (IF o.games > 0 THEN 15 ELSE 34) * (Bounds[p].hi - Bounds[p].lo)
  BY <1>5, <1>6, <1>7
<1> QED
  BY <1>3, <1>4, <1>8

LEMMA DraftsSafe == LearnSpec => []DraftsContinue
<1>1. LearnInit => DraftsContinue
  BY DraftsContinueAtFirst
<1>2. LearnInvariant /\ DraftsContinue /\ [LearnNext]_learnVars => DraftsContinue'
  BY DraftsGoOn
<1> QED
  BY <1>1, <1>2, LearnSafe, PTL DEF LearnSpec

(* Unless the two processes overtook each other at the shared profile, one  *)
(* match moves what a peer derives for the next (derive_strategy) by at     *)
(* most 15 % of the parameter's range once its opponent is known, and by at *)
(* most 34 % before, for any number of matches and any profiles.            *)
THEOREM OneGameMovesLittle == LearnSpec => AdaptationIsGradual
<1>1. LearnInvariant /\ DraftsContinue /\ [LearnNext]_learnVars => [MovesSlowly]_learnVars
  BY StepMovesSlowly
<1> QED
  BY <1>1, LearnSafe, DraftsSafe, PTL DEF LearnSpec, AdaptationIsGradual

-----------------------------------------------------------------------------
(* The audit log. *)

(* The processes that append to one log, and whoever edits it after them. *)
AuditSpec == AuditInit /\ [][AuditNext]_auditVars

LEMMA RecordIs ==
  ASSUME NEW id, NEW type, NEW prev
  PROVE  /\ Record(id, type, prev) =
              [parses |-> TRUE, event_id |-> id, event_type |-> type,
               previous_event_hash |-> prev, current_event_hash |-> <<id, type, prev>>]
         /\ IsLine(Record(id, type, prev))
<1>1. Record(id, type, prev) =
              [parses |-> TRUE, event_id |-> id, event_type |-> type,
               previous_event_hash |-> prev, current_event_hash |-> <<id, type, prev>>]
  <2> DEFINE r == [parses |-> TRUE, event_id |-> id, event_type |-> type,
                   previous_event_hash |-> prev, current_event_hash |-> GENESIS_HASH]
  <2>1. compute_record_hash(r) = <<id, type, prev>>
    BY DEF compute_record_hash
  <2>2. Record(id, type, prev) = [r EXCEPT !.current_event_hash = compute_record_hash(r)]
    BY DEF Record, Sealed
  <2> QED
    BY <2>1, <2>2
<1> QED
  BY <1>1 DEF IsLine

LEMMA GarbledIs == IsLine(Garbled) /\ ~Garbled.parses
<1> DEFINE r == Record(0, "local_commit", GENESIS_HASH)
<1>1. IsLine(r)
  BY RecordIs
<1>2. Garbled = [r EXCEPT !.parses = FALSE]
  BY DEF Garbled
<1> HIDE DEF r
<1>3. Garbled = [parses |-> FALSE, event_id |-> r.event_id, event_type |-> r.event_type,
                 previous_event_hash |-> r.previous_event_hash,
                 current_event_hash |-> r.current_event_hash]
  BY <1>1, <1>2 DEF IsLine
<1> QED
  BY <1>3 DEF IsLine

LEMMA Retyped ==
  ASSUME NEW r, IsLine(r), NEW type
  PROVE  IsLine([r EXCEPT !.event_type = type])
<1>1. [r EXCEPT !.event_type = type] =
        [parses |-> r.parses, event_id |-> r.event_id, event_type |-> type,
         previous_event_hash |-> r.previous_event_hash,
         current_event_hash |-> r.current_event_hash]
  BY DEF IsLine
<1> QED
  BY <1>1 DEF IsLine

(* A hash tells the records apart, and none is the genesis hash.            *)
LEMMA HashesDiffer ==
  ASSUME NEW r, NEW s
  PROVE  /\ compute_record_hash(r) # GENESIS_HASH
         /\ compute_record_hash(r) = compute_record_hash(s) =>
              /\ r.event_id = s.event_id /\ r.event_type = s.event_type
              /\ r.previous_event_hash = s.previous_event_hash
BY DEF compute_record_hash, GENESIS_HASH

LEMMA OneRecord ==
  ASSUME NEW r, NEW s, IsLine(r), IsLine(s), r.parses, s.parses,
         r.current_event_hash = compute_record_hash(r),
         s.current_event_hash = compute_record_hash(s),
         r.current_event_hash = s.current_event_hash
  PROVE  r = s
<1>1. /\ r.event_id = s.event_id /\ r.event_type = s.event_type
      /\ r.previous_event_hash = s.previous_event_hash
  BY HashesDiffer
<1>2. r.parses = s.parses
  BY DEF IsLine
<1> QED
  BY <1>1, <1>2 DEF IsLine

LEMMA IsLogOf ==
  ASSUME NEW S, \A x \in S : IsLine(x), NEW q \in Seq(S)
  PROVE  IsLog(q)
<1>1. \A i \in DOMAIN q : q[i] \in S
  OBVIOUS
<1>2. q \in Seq({q[i] : i \in DOMAIN q})
  <2>1. DOMAIN q = 1 .. Len(q) /\ Len(q) \in Nat /\ q = [i \in 1 .. Len(q) |-> q[i]]
    OBVIOUS
  <2> QED
    BY <2>1
<1> QED
  BY <1>1, <1>2 DEF IsLog

LEMMA LogAsSeq ==
  ASSUME NEW q, IsLog(q)
  PROVE  /\ q \in Seq({q[i] : i \in DOMAIN q}) /\ \A x \in {q[i] : i \in DOMAIN q} : IsLine(x)
         /\ DOMAIN q = 1 .. Len(q) /\ Len(q) \in Nat
BY DEF IsLog

LEMMA Widened ==
  ASSUME NEW q, IsLog(q), NEW e, IsLine(e), NEW S, S = {q[i] : i \in DOMAIN q} \cup {e}
  PROVE  /\ q \in Seq(S) /\ \A x \in S : IsLine(x)
         /\ DOMAIN q = 1 .. Len(q) /\ Len(q) \in Nat
<1> DEFINE T == {q[i] : i \in DOMAIN q}
<1>1. q \in Seq(T) /\ (\A x \in T : IsLine(x)) /\ DOMAIN q = 1 .. Len(q) /\ Len(q) \in Nat
  BY LogAsSeq
<1>2. S = T \cup {e}
  OBVIOUS
<1> HIDE DEF T
<1>3. q \in Seq(S)
  BY <1>1, <1>2, SeqMonotonic
<1> QED
  BY <1>1, <1>2, <1>3

LEMMA Appended ==
  ASSUME NEW q, IsLog(q), NEW e, IsLine(e)
  PROVE  /\ IsLog(Append(q, e)) /\ Len(Append(q, e)) = Len(q) + 1
         /\ DOMAIN Append(q, e) = 1 .. Len(q) + 1
         /\ Append(q, e)[Len(q) + 1] = e
         /\ \A i \in 1 .. Len(q) : Append(q, e)[i] = q[i]
<1> DEFINE S == {q[i] : i \in DOMAIN q} \cup {e}
<1>1. /\ q \in Seq(S) /\ \A x \in S : IsLine(x)
      /\ DOMAIN q = 1 .. Len(q) /\ Len(q) \in Nat
  BY Widened
<1> HIDE DEF S
<1>2. e \in S
  BY DEF S
<1>3. /\ Append(q, e) \in Seq(S) /\ Len(Append(q, e)) = Len(q) + 1
      /\ Append(q, e)[Len(q) + 1] = e
      /\ \A i \in 1 .. Len(q) : Append(q, e)[i] = q[i]
  BY <1>1, <1>2, AppendProperties
<1>4. IsLog(Append(q, e))
  BY <1>1, <1>3, IsLogOf
<1>5. DOMAIN Append(q, e) = 1 .. Len(q) + 1
  BY <1>3
<1> QED
  BY <1>3, <1>4, <1>5

LEMMA Replaced ==
  ASSUME NEW q, IsLog(q), NEW i, NEW e, IsLine(e)
  PROVE  /\ IsLog(Lines!ReplaceAt(q, i, e)) /\ Len(Lines!ReplaceAt(q, i, e)) = Len(q)
         /\ DOMAIN Lines!ReplaceAt(q, i, e) = DOMAIN q
         /\ \A j \in DOMAIN q : Lines!ReplaceAt(q, i, e)[j] = IF i = j THEN e ELSE q[j]
<1> DEFINE S == {q[j] : j \in DOMAIN q} \cup {e}
           t == Lines!ReplaceAt(q, i, e)
<1>1. q \in Seq(S) /\ (\A x \in S : IsLine(x)) /\ DOMAIN q = 1 .. Len(q) /\ Len(q) \in Nat
  BY Widened
<1>2. t = [q EXCEPT ![i] = e] /\ DOMAIN t = DOMAIN q
  BY DEF Lines!ReplaceAt
<1>3. \A j \in DOMAIN q : t[j] = IF i = j THEN e ELSE q[j]
  BY <1>2
<1>4. t \in Seq(S) /\ Len(t) = Len(q)
  <2>1. \A j \in 1 .. Len(q) : t[j] \in S
    BY <1>1, <1>3
  <2>2. t = [j \in 1 .. Len(q) |-> t[j]]
    BY <1>1, <1>2
  <2> HIDE DEF t, S
  <2>3. t \in Seq(S)
    BY <1>1, <2>1, <2>2
  <2> QED
    BY <1>1, <1>2, <2>3
<1> HIDE DEF S
<1> QED
  BY <1>1, <1>2, <1>3, <1>4, IsLogOf

LEMMA EditedIsALog ==
  ASSUME NEW q, IsLog(q), NEW t \in Edited(q)
  PROVE  IsLog(t)
<1> DEFINE S == {q[j] : j \in DOMAIN q}
<1>1. q \in Seq(S) /\ (\A x \in S : IsLine(x)) /\ DOMAIN q = 1 .. Len(q) /\ Len(q) \in Nat
  BY LogAsSeq
<1>2. \A i \in DOMAIN q : q[i] \in S /\ IsLine(q[i])
  BY <1>1
<1> HIDE DEF S
<1>3. \A m, n \in Int : 1 <= m /\ n <= Len(q) => SubSeq(q, m, n) \in Seq(S)
  BY <1>1, SubSeqProperties
<1>4. ASSUME NEW i \in DOMAIN q, t = Lines!RemoveAt(q, i)
      PROVE  IsLog(t)
  <2>1. i \in Int /\ 1 <= i /\ i <= Len(q) /\ 1 <= 1 /\ i - 1 <= Len(q) /\ 1 <= i + 1
        /\ 1 \in Int /\ i - 1 \in Int /\ i + 1 \in Int /\ Len(q) \in Int /\ Len(q) <= Len(q)
    BY <1>1
  <2>2. SubSeq(q, 1, i - 1) \in Seq(S) /\ SubSeq(q, i + 1, Len(q)) \in Seq(S)
    BY <1>3, <2>1
  <2>3. t \in Seq(S)
    BY <1>4, <2>2 DEF Lines!RemoveAt
  <2> QED
    BY <1>1, <2>3, IsLogOf
<1>5. ASSUME NEW i \in DOMAIN q, NEW j \in DOMAIN q, t = Lines!InsertAt(q, j, q[i])
      PROVE  IsLog(t)
  <2>1. j \in Int /\ 1 <= j /\ j <= Len(q) /\ 1 <= 1 /\ j - 1 <= Len(q)
        /\ 1 \in Int /\ j - 1 \in Int /\ Len(q) \in Int /\ Len(q) <= Len(q)
    BY <1>1
  <2>2. /\ SubSeq(q, 1, j - 1) \in Seq(S) /\ SubSeq(q, j, Len(q)) \in Seq(S)
        /\ <<q[i]>> \in Seq(S)
    BY <1>2, <1>3, <2>1
  <2>3. t \in Seq(S)
    BY <1>5, <2>2 DEF Lines!InsertAt
  <2> QED
    BY <1>1, <2>3, IsLogOf
<1>6. ASSUME NEW i \in DOMAIN q, NEW j \in DOMAIN q,
             t = Lines!ReplaceAt(Lines!ReplaceAt(q, i, q[j]), j, q[i])
      PROVE  IsLog(t)
  BY <1>2, <1>6, Replaced
<1>7. ASSUME NEW i \in DOMAIN q, NEW type, t = Lines!ReplaceAt(q, i, [q[i] EXCEPT !.event_type = type])
      PROVE  IsLog(t)
  BY <1>2, <1>7, Replaced, Retyped
<1>8. ASSUME NEW i \in DOMAIN q, NEW id, NEW prev,
             t = Lines!ReplaceAt(q, i, Record(id, "final_reveal", prev))
      PROVE  IsLog(t)
  BY <1>8, Replaced, RecordIs
<1> DEFINE PrevOf(i) == IF i = 1 THEN GENESIS_HASH ELSE q[i - 1].current_event_hash
           Forged(i) == Record(q[i].event_id + MaxLines, "final_reveal", PrevOf(i))
<1>9. \/ \E i \in DOMAIN q : t = Lines!RemoveAt(q, i)
      \/ \E i \in DOMAIN q, j \in DOMAIN q : t = Lines!InsertAt(q, j, q[i])
      \/ \E i \in DOMAIN q, j \in DOMAIN q :
           t = Lines!ReplaceAt(Lines!ReplaceAt(q, i, q[j]), j, q[i])
      \/ \E i \in DOMAIN q : t = Lines!ReplaceAt(q, i, [q[i] EXCEPT !.event_type = "forged"])
      \/ \E i \in DOMAIN q : t = Lines!ReplaceAt(q, i, [q[i] EXCEPT !.event_type = "final_reveal"])
      \/ \E i \in DOMAIN q : t = Lines!ReplaceAt(q, i, Forged(i))
  BY DEF Edited
<1> QED
  BY <1>4, <1>5, <1>6, <1>7, <1>8, <1>9

-----------------------------------------------------------------------------
(* The invariant. *)

LEMMA AuditBegins ==
  ASSUME AuditInit
  PROVE  AuditInvariant
<1>1. /\ log = <<>> /\ sealed = <<>> /\ tornLine = FALSE /\ running = TRUE
      /\ previous = GENESIS_HASH /\ starts = <<1>> /\ edits = 0
  BY DEF AuditInit
<1>2. Lines!ToSet(starts) = {1} /\ starts \in Seq(Nat \ {0})
  BY <1>1 DEF Lines!ToSet
<1>3. IsLog(<<>>) /\ Len(<<>>) = 0 /\ DOMAIN <<>> = {}
  BY DEF IsLog
<1>4. Len(sealed) = 0 /\ DOMAIN sealed = {} /\ previous = GENESIS_HASH
  BY <1>1, <1>3
<1>5. Link(0 + 1) = GENESIS_HASH
  BY <1>2 DEF Link
<1>6. previous = Link(Len(sealed) + 1)
  BY <1>4, <1>5
<1>7. OnlyTheLastIsTorn
  BY <1>1, <1>4 DEF OnlyTheLastIsTorn
<1>8. /\ IsLog(log) /\ IsLog(sealed) /\ log = sealed
      /\ edits = 0 /\ tornLine = FALSE /\ running = TRUE
  BY <1>1, <1>3
<1>9. 1 \in Lines!ToSet(starts) /\ \A i \in Lines!ToSet(starts) : i <= Len(sealed) + 1
  BY <1>2, <1>4
<1> QED
  BY <1>2, <1>4, <1>6, <1>7, <1>8, <1>9 DEF AuditInvariant

LEMMA AuditTypes ==
  ASSUME AuditInvariant
  PROVE  /\ Len(sealed) \in Nat /\ DOMAIN sealed = 1 .. Len(sealed)
         /\ Len(log) \in Nat /\ DOMAIN log = 1 .. Len(log)
         /\ \A i \in DOMAIN sealed : IsLine(sealed[i])
         /\ \A i \in DOMAIN log : IsLine(log[i])
         /\ Len(starts) \in Nat
<1>1. IsLog(sealed) /\ IsLog(log) /\ starts \in Seq(Nat \ {0})
  BY DEF AuditInvariant
<1> QED
  BY <1>1, LogAsSeq DEF IsLog

(* What the first n lines are linked like does not depend on later lines.   *)
LEMMA PrefixStands ==
  ASSUME AuditInvariant, NEW n \in Nat, n <= Len(sealed),
         \A i \in 1 .. n : sealed'[i] = sealed[i],
         \A i \in 1 .. n : i \in Lines!ToSet(starts)' <=> i \in Lines!ToSet(starts),
         1 \in Lines!ToSet(starts)'
  PROVE  /\ \A i \in 1 .. n : ParsesTo(i)' <=> ParsesTo(i)
         /\ \A i \in 1 .. n : SealedAt(i)' <=> SealedAt(i)
         /\ (n + 1 \in Lines!ToSet(starts)' <=> n + 1 \in Lines!ToSet(starts))
               => Link(n + 1)' = Link(n + 1)
<1>1. 1 \in Lines!ToSet(starts)
  BY DEF AuditInvariant
<1>2. ASSUME NEW i \in 1 .. n + 1, i \in Lines!ToSet(starts)' <=> i \in Lines!ToSet(starts)
      PROVE  Link(i)' = Link(i)
  <2>1. CASE i = 1
    BY <1>1, <2>1 DEF Link
  <2>2. CASE i # 1
    <3>1. i - 1 \in 1 .. n
      BY <2>2
    <3>2. sealed'[i - 1] = sealed[i - 1]
      BY <3>1
    <3> QED
      BY <1>2, <3>2 DEF Link
  <2> QED
    BY <2>1, <2>2
<1>3. ASSUME NEW i \in 1 .. n
      PROVE  (ParsesTo(i)' <=> ParsesTo(i)) /\ (SealedAt(i)' <=> SealedAt(i))
  <2>1. i \in 1 .. n + 1 /\ \A j \in 1 .. i : j \in 1 .. n
    OBVIOUS
  <2>2. Link(i)' = Link(i)
    BY <1>2, <2>1
  <2>3. sealed'[i] = sealed[i]
    OBVIOUS
  <2>4. SealedAt(i)' <=> SealedAt(i)
    BY <2>2, <2>3 DEF SealedAt
  <2>5. \A j \in 1 .. i : sealed'[j] = sealed[j]
    BY <2>1
  <2> QED
    BY <2>4, <2>5 DEF ParsesTo
<1>4. n + 1 \in 1 .. n + 1
  OBVIOUS
<1> QED
  BY <1>2, <1>3, <1>4

(* A line is added to what was sealed.                                      *)
LEMMA LineAdded ==
  ASSUME AuditInvariant, NEW line, IsLine(line), edits = 0, ~tornLine, running,
         log' = Append(log, line), sealed' = log', UNCHANGED <<starts, edits>>,
         tornLine' \in BOOLEAN, running' \in BOOLEAN,
         line.parses => \E type \in AuditEventType : line = Record(Len(sealed) + 1, type, previous),
         running' => line.parses /\ ~tornLine' /\ previous' = line.current_event_hash
  PROVE  AuditInvariant'
<1>1. PICK m \in Nat :
        m = Len(sealed) /\ log = sealed /\ DOMAIN sealed = 1 .. m /\ IsLog(sealed)
  BY AuditTypes DEF AuditInvariant
<1>2. /\ IsLog(sealed') /\ Len(sealed') = m + 1 /\ DOMAIN sealed' = 1 .. m + 1
      /\ sealed'[m + 1] = line /\ \A i \in 1 .. m : sealed'[i] = sealed[i]
      /\ IsLog(log')
  BY <1>1, Appended
<1>3. Lines!ToSet(starts)' = Lines!ToSet(starts) /\ 1 \in Lines!ToSet(starts)
  BY DEF AuditInvariant
<1>4. /\ \A i \in 1 .. m : (ParsesTo(i)' <=> ParsesTo(i)) /\ (SealedAt(i)' <=> SealedAt(i))
      /\ Link(m + 1)' = Link(m + 1)
  <2>1. m <= Len(sealed)
    BY <1>1
  <2> QED
    BY <1>1, <1>2, <1>3, <2>1, PrefixStands
<1>5. ASSUME ParsesTo(m + 1)'
      PROVE  /\ line.parses /\ SealedAt(m + 1)' /\ ParsesTo(m)
  <2>1. line.parses /\ \A i \in 1 .. m : sealed'[i].parses
    BY <1>1, <1>2, <1>5 DEF ParsesTo
  <2>2. ParsesTo(m)
    BY <1>2, <2>1 DEF ParsesTo
  <2>3. previous = Link(m + 1)
    BY <1>1, <2>2 DEF AuditInvariant
  <2>4. PICK type \in AuditEventType : line = Record(m + 1, type, previous)
    BY <1>1, <2>1
  <2>5. line = [parses |-> TRUE, event_id |-> m + 1, event_type |-> type,
                previous_event_hash |-> previous, current_event_hash |-> <<m + 1, type, previous>>]
    BY <2>4, RecordIs
  <2>6. /\ line.event_id = m + 1 /\ line.event_type = type
        /\ line.previous_event_hash = previous
        /\ line.current_event_hash = <<m + 1, type, previous>>
    BY <2>5
  <2>7. line.current_event_hash = compute_record_hash(line)
    BY <2>6 DEF compute_record_hash
  <2>8. SealedAt(m + 1)'
    BY <1>2, <1>4, <2>3, <2>6, <2>7 DEF SealedAt, compute_record_hash
  <2> QED
    BY <2>1, <2>2, <2>8
<1>6. (\A i \in DOMAIN sealed : ParsesTo(i) => SealedAt(i))'
  <2>1. \A i \in 1 .. m : ParsesTo(i)' => SealedAt(i)'
    BY <1>1, <1>4 DEF AuditInvariant
  <2>2. \A i \in 1 .. m + 1 : i \in 1 .. m \/ i = m + 1
    BY <1>1
  <2> QED
    BY <1>2, <1>5, <2>1, <2>2
<1>7. (running /\ ParsesTo(Len(sealed)) => previous = Link(Len(sealed) + 1))'
  <2> SUFFICES ASSUME running'
               PROVE  previous' = Link(m + 2)'
    <3>1. \A k : k = Len(sealed') => k + 1 = m + 2
      BY <1>1, <1>2
    <3> QED
      BY <1>2, <3>1
  <2>1. ~(m + 2 \in Lines!ToSet(starts))
    <3>1. \A i \in Lines!ToSet(starts) : i <= m + 1
      BY <1>1 DEF AuditInvariant
    <3> QED
      BY <1>1, <3>1
  <2>2. (m + 2) - 1 = m + 1
    BY <1>1
  <2>3. Link(m + 2)' = line.current_event_hash
    BY <1>2, <1>3, <2>1, <2>2 DEF Link
  <2> QED
    BY <2>3
<1>8. Len(starts) = 1 => OnlyTheLastIsTorn'
  <2> SUFFICES ASSUME Len(starts) = 1
               PROVE  OnlyTheLastIsTorn'
    OBVIOUS
  <2>1. \A i \in 1 .. m : sealed'[i].parses
    BY <1>1, <1>2 DEF AuditInvariant, OnlyTheLastIsTorn
  <2>2. \A i \in 1 .. m + 1 : i \in 1 .. m \/ (i = m + 1 /\ ~(i < m + 1))
    BY <1>1
  <2> QED
    BY <1>2, <2>1, <2>2 DEF OnlyTheLastIsTorn
<1>9. /\ Len(sealed') > 0 /\ \A i \in Lines!ToSet(starts)' : i <= Len(sealed') + 1
  <2>1. \A i \in Lines!ToSet(starts) : i \in Nat /\ i <= m + 1
    BY <1>1 DEF AuditInvariant, Lines!ToSet
  <2> QED
    BY <1>1, <1>2, <1>3, <2>1
<1> QED
  BY <1>2, <1>3, <1>6, <1>7, <1>8, <1>9 DEF AuditInvariant

(* The record behind a torn line is swallowed by it.                        *)
LEMMA LineSwallowed ==
  ASSUME AuditInvariant, tornLine, edits = 0, log' = Lines!ReplaceAt(log, Len(log), Garbled),
         sealed' = log', tornLine' = FALSE, UNCHANGED <<running, starts, edits>>, running
  PROVE  AuditInvariant'
<1>1. PICK m \in Nat : /\ m = Len(sealed) /\ log = sealed /\ DOMAIN sealed = 1 .. m
                       /\ IsLog(sealed) /\ m > 0
  BY AuditTypes DEF AuditInvariant
<1>2. /\ IsLog(sealed') /\ Len(sealed') = m /\ DOMAIN sealed' = 1 .. m
      /\ sealed'[m] = Garbled /\ \A i \in 1 .. m - 1 : sealed'[i] = sealed[i]
      /\ IsLog(log')
  <2>1. m \in 1 .. m /\ \A i \in 1 .. m - 1 : i \in 1 .. m /\ i # m
    BY <1>1
  <2> QED
    BY <1>1, <2>1, Replaced, GarbledIs
<1>3. Lines!ToSet(starts)' = Lines!ToSet(starts) /\ 1 \in Lines!ToSet(starts)
  BY DEF AuditInvariant
<1>4. \A i \in 1 .. m - 1 : (ParsesTo(i)' <=> ParsesTo(i)) /\ (SealedAt(i)' <=> SealedAt(i))
  <2>1. PICK n \in Nat : n = m - 1 /\ n <= Len(sealed)
    BY <1>1
  <2> QED
    BY <1>1, <1>2, <1>3, <2>1, PrefixStands
<1>5. ~ParsesTo(m)'
  <2>1. m \in 1 .. m
    BY <1>1
  <2> QED
    BY <1>2, <2>1, GarbledIs DEF ParsesTo
<1>6. (\A i \in DOMAIN sealed : ParsesTo(i) => SealedAt(i))'
  <2>1. \A i \in 1 .. m - 1 : ParsesTo(i)' => SealedAt(i)'
    BY <1>1, <1>4 DEF AuditInvariant
  <2>2. \A i \in 1 .. m : i \in 1 .. m - 1 \/ i = m
    BY <1>1
  <2> QED
    BY <1>2, <1>5, <2>1, <2>2
<1>7. (running /\ ParsesTo(Len(sealed)) => previous = Link(Len(sealed) + 1))'
  BY <1>2, <1>5
<1>8. Len(starts) = 1 => OnlyTheLastIsTorn'
  BY DEF AuditInvariant, OnlyTheLastIsTorn
<1> QED
  BY <1>1, <1>2, <1>3, <1>6, <1>7, <1>8 DEF AuditInvariant

LEMMA AppendsKeeps ==
  ASSUME AuditInvariant, Appends
  PROVE  AuditInvariant'
<1>1. PICK type \in AuditEventType, payload \in {"public", "nonce"} : append(type, payload)
  BY DEF Appends
<1>2. running /\ edits = 0 /\ UNCHANGED <<running, starts, edits>>
  BY DEF Appends, AuditInvariant
<1> DEFINE record == Record(Len(sealed) + 1, type, previous)
<1>3. IsLine(record) /\ record.parses
  BY RecordIs
<1>4. previous' = record.current_event_hash /\ WriteLine(record)
  BY <1>1 DEF append
<1>5. CASE tornLine
  <2>1. log' = Lines!ReplaceAt(log, Len(log), Garbled) /\ sealed' = log' /\ tornLine' = FALSE
    BY <1>4, <1>5 DEF WriteLine
  <2> QED
    BY <1>2, <1>5, <2>1, LineSwallowed
<1>6. CASE ~tornLine
  <2>1. log' = Append(log, record) /\ sealed' = log' /\ tornLine' = FALSE
    BY <1>4, <1>6 DEF WriteLine
  <2>2. record.parses => \E t \in AuditEventType : record = Record(Len(sealed) + 1, t, previous)
    OBVIOUS
  <2> HIDE DEF record
  <2> QED
    BY <1>2, <1>3, <1>4, <1>6, <2>1, <2>2, LineAdded
<1> QED
  BY <1>5, <1>6 DEF AuditInvariant

LEMMA StopsKeeps ==
  ASSUME AuditInvariant, Stops
  PROVE  AuditInvariant'
<1>1. /\ running /\ running' = FALSE /\ edits = 0 /\ log = sealed
      /\ UNCHANGED <<previous, starts, edits>>
  BY DEF Stops, AuditInvariant
<1>2. CASE UNCHANGED <<log, sealed, tornLine>>
  <2>1. /\ \A i : ParsesTo(i)' <=> ParsesTo(i)
        /\ \A i : SealedAt(i)' <=> SealedAt(i)
    BY <1>1, <1>2 DEF ParsesTo, SealedAt, Link
  <2> QED
    BY <1>1, <1>2, <2>1 DEF AuditInvariant, OnlyTheLastIsTorn
<1>3. ASSUME NEW line \in {Garbled, Record(Len(sealed) + 1, "local_commit", previous)},
             ~tornLine, log' = Append(log, line), sealed' = log', tornLine' = TRUE
      PROVE  AuditInvariant'
  <2>1. IsLine(line)
    BY GarbledIs, RecordIs
  <2>2. line.parses => \E type \in AuditEventType : line = Record(Len(sealed) + 1, type, previous)
    BY GarbledIs DEF AuditEventType
  <2> QED
    BY <1>1, <1>3, <2>1, <2>2, LineAdded
<1> QED
  BY <1>2, <1>3 DEF Stops

LEMMA RestartsKeeps ==
  ASSUME AuditInvariant, Restarts
  PROVE  AuditInvariant'
<1>1. /\ edits = 0 /\ running' = TRUE /\ previous' = GENESIS_HASH
      /\ starts' = Append(starts, Len(log) + 1) /\ UNCHANGED <<log, tornLine, sealed, edits>>
  BY DEF Restarts
<1>2. PICK m \in Nat : m = Len(sealed) /\ log = sealed /\ DOMAIN sealed = 1 .. m
  BY <1>1, AuditTypes DEF AuditInvariant
<1>3. starts \in Seq(Nat \ {0}) /\ Len(starts) \in Nat /\ DOMAIN starts = 1 .. Len(starts)
  BY DEF AuditInvariant
<1>4. /\ starts' \in Seq(Nat \ {0}) /\ Len(starts') = Len(starts) + 1
      /\ Lines!ToSet(starts') = Lines!ToSet(starts) \cup {m + 1}
  <2>1. m + 1 \in Nat \ {0}
    OBVIOUS
  <2>2. /\ starts' \in Seq(Nat \ {0}) /\ Len(starts') = Len(starts) + 1
        /\ starts'[Len(starts) + 1] = m + 1
        /\ \A i \in 1 .. Len(starts) : starts'[i] = starts[i]
    BY <1>1, <1>2, <1>3, <2>1, AppendProperties
  <2>3. DOMAIN starts' = DOMAIN starts \cup {Len(starts) + 1}
    BY <1>3, <2>2
  <2> QED
    BY <1>3, <2>2, <2>3 DEF Lines!ToSet
<1>5. Lines!ToSet(starts)' = Lines!ToSet(starts) \cup {m + 1}
  BY <1>4 DEF Lines!ToSet
<1>6. Len(starts)' # 1
  <2>1. 1 \in Lines!ToSet(starts)
    BY DEF AuditInvariant
  <2>2. Len(starts) # 0
    BY <1>3, <2>1 DEF Lines!ToSet
  <2> QED
    BY <1>3, <1>4, <2>2
<1>7. \A i \in 1 .. m : (ParsesTo(i)' <=> ParsesTo(i)) /\ (SealedAt(i)' <=> SealedAt(i))
  <2>1. \A i \in 1 .. m : i \in Lines!ToSet(starts)' <=> i \in Lines!ToSet(starts)
    <3>1. \A i \in 1 .. m : i # m + 1
      OBVIOUS
    <3> QED
      BY <1>5, <3>1
  <2>2. 1 \in Lines!ToSet(starts)' /\ m <= Len(sealed) /\ \A i \in 1 .. m : sealed'[i] = sealed[i]
    BY <1>1, <1>2, <1>5 DEF AuditInvariant
  <2> QED
    BY <2>1, <2>2, PrefixStands
<1>8. (\A i \in DOMAIN sealed : ParsesTo(i) => SealedAt(i))'
  BY <1>1, <1>2, <1>7 DEF AuditInvariant
<1>9. (running /\ ParsesTo(Len(sealed)) => previous = Link(Len(sealed) + 1))'
  <2>1. Link(m + 1)' = GENESIS_HASH
    BY <1>5 DEF Link
  <2> QED
    BY <1>1, <1>2, <2>1
<1>10. (\A i \in Lines!ToSet(starts) : i <= Len(sealed) + 1)'
  BY <1>1, <1>2, <1>5 DEF AuditInvariant
<1> QED
  BY <1>1, <1>2, <1>4, <1>5, <1>6, <1>8, <1>9, <1>10 DEF AuditInvariant

LEMMA TampersKeeps ==
  ASSUME AuditInvariant, Tampers
  PROVE  AuditInvariant'
<1>1. /\ ~running /\ edits' = edits + 1 /\ log' \in Edited(log)
      /\ UNCHANGED <<tornLine, previous, running, starts, sealed>>
  BY DEF Tampers
<1>2. IsLog(log') /\ edits' \in Nat /\ edits' # 0
  BY <1>1, EditedIsALog DEF AuditInvariant
<1>3. /\ \A i : ParsesTo(i)' <=> ParsesTo(i)
      /\ \A i : SealedAt(i)' <=> SealedAt(i)
  BY <1>1 DEF ParsesTo, SealedAt, Link
<1> QED
  BY <1>1, <1>2, <1>3 DEF AuditInvariant, OnlyTheLastIsTorn

LEMMA AuditStutters ==
  ASSUME AuditInvariant, UNCHANGED auditVars
  PROVE  AuditInvariant'
BY DEF AuditInvariant, OnlyTheLastIsTorn, ParsesTo, SealedAt, Link, auditVars

-----------------------------------------------------------------------------
(* What the invariant says about the verdict.                               *)

LEMMA LeastIsReached ==
  ASSUME NEW S, S \subseteq Nat, S # {}
  PROVE  Numbers!Min(S) \in S /\ \A y \in S : Numbers!Min(S) <= y
<1> DEFINE R == OpToRel(<, Nat)
<1>1. IsWellFoundedOn(R, Nat)
  BY NatLessThanWellFounded
<1>2. PICK x \in S : \A y \in S : ~(<<y, x>> \in R)
  <2> HIDE DEF R
  <2> QED
    BY <1>1, WFMin
<1>3. \A y \in S : x <= y
  <2> SUFFICES ASSUME NEW y \in S
               PROVE  x <= y
    OBVIOUS
  <2>1. x \in Nat /\ y \in Nat
    OBVIOUS
  <2>2. ~(y < x)
    BY <1>2, <2>1 DEF OpToRel
  <2> QED
    BY <2>1, <2>2
<1> QED
  BY <1>3 DEF Numbers!Min

(* What fails in a log that nobody edited and that parses.                  *)
LEMMA UneditedVerdict ==
  ASSUME AuditInvariant
  PROVE  UneditedIsNamed
<1> SUFFICES ASSUME edits = 0
             PROVE  verify_chain_file(log) =
                      IF Unparsable # {} THEN ChainVerdict(FALSE, Numbers!Min(Unparsable), "MalformedLine")
                      ELSE IF Resumed # {}
                      THEN ChainVerdict(FALSE, Numbers!Min(Resumed), "AuditChainBreakError")
                      ELSE ChainVerdict(TRUE, 0, "none")
  BY DEF UneditedIsNamed
<1>1. CASE Unparsable # {}
  BY <1>1 DEF Unparsable, verify_chain_file
<1>2. CASE Unparsable = {}
  <2>1. PICK m \in Nat : /\ m = Len(sealed) /\ log = sealed /\ DOMAIN log = 1 .. m
                         /\ \A i \in 1 .. m : log[i].parses
    BY <1>2, AuditTypes DEF AuditInvariant, Unparsable
  <2>2. verify_chain_file(log) = verify_chain(log)
    BY <1>2 DEF Unparsable, verify_chain_file
  <2>3. \A i \in 1 .. m : SealedAt(i)
    BY <2>1 DEF AuditInvariant, ParsesTo
  <2>4. ASSUME NEW i \in 1 .. m
        PROVE  /\ log[i].event_id = i /\ validate_record_mapping(log[i])
               /\ compute_record_hash(log[i]) = log[i].current_event_hash
               /\ ~\E j \in 1 .. i - 1 : log[j].event_id = log[i].event_id
    <3>1. \A j \in 1 .. m : log[j].event_id = j
      BY <2>1, <2>3 DEF SealedAt
    <3>2. \A j \in 1 .. i - 1 : j \in 1 .. m /\ j # i
      OBVIOUS
    <3> QED
      BY <2>1, <2>3, <3>1, <3>2 DEF SealedAt, validate_record_mapping
  <2>5. ASSUME NEW i \in 1 .. m
        PROVE  FailureKind(log, i) = IF i \in Resumed THEN "AuditChainBreakError" ELSE "none"
    <3> DEFINE before == IF i = 1 THEN GENESIS_HASH ELSE log[i - 1].current_event_hash
    <3>1. log[i].previous_event_hash # before <=> i \in Resumed
      <4>1. log[i].previous_event_hash = Link(i)
        BY <2>1, <2>3 DEF SealedAt
      <4>2. 1 \in Lines!ToSet(starts)
        BY DEF AuditInvariant
      <4>3. i # 1 => i - 1 \in 1 .. m /\ i \in 2 .. m
        OBVIOUS
      <4>4. i # 1 => log[i - 1].current_event_hash # GENESIS_HASH
        BY <2>4, <4>3, HashesDiffer
      <4>5. CASE i = 1
        <5>1. ~(1 \in 2 .. Len(log))
          BY <2>1
        <5> QED
          BY <4>1, <4>2, <4>5, <5>1 DEF Link, Resumed
      <4>6. CASE i # 1 /\ i \in Lines!ToSet(starts)
        BY <2>1, <4>1, <4>3, <4>4, <4>6 DEF Link, Resumed
      <4>7. CASE i # 1 /\ i \notin Lines!ToSet(starts)
        BY <2>1, <4>1, <4>7 DEF Link, Resumed
      <4> QED
        BY <4>5, <4>6, <4>7
    <3> HIDE DEF before
    <3>2. FailureKind(log, i) = IF log[i].previous_event_hash # before
                                THEN "AuditChainBreakError" ELSE "none"
      BY <2>4 DEF FailureKind, before
    <3> QED
      BY <3>1, <3>2
  <2>6. Resumed \subseteq 1 .. m
    BY <2>1 DEF Resumed
  <2>7. {i \in DOMAIN log : FailureKind(log, i) # "none"} = Resumed
    BY <2>1, <2>5, <2>6
  <2>8. Resumed # {} => FailureKind(log, Numbers!Min(Resumed)) = "AuditChainBreakError"
    <3>1. Resumed # {} => Numbers!Min(Resumed) \in Resumed
      <4>1. Resumed \subseteq Nat
        BY <2>6
      <4> QED
        BY <4>1, LeastIsReached
    <3> QED
      BY <2>5, <2>6, <3>1
  <2>9. verify_chain(log) = IF Resumed = {} THEN ChainVerdict(TRUE, 0, "none")
                            ELSE ChainVerdict(FALSE, Numbers!Min(Resumed),
                                              FailureKind(log, Numbers!Min(Resumed)))
    BY <2>7 DEF verify_chain
  <2> QED
    BY <1>2, <2>2, <2>8, <2>9
<1> QED
  BY <1>1, <1>2

(* What the verifier accepts is linked from the first line on.              *)
LEMMA WhatIsAccepted ==
  ASSUME NEW lines, verify_chain_file(lines).ok, NEW i \in DOMAIN lines
  PROVE  /\ lines[i].parses
         /\ lines[i].previous_event_hash =
              IF i = 1 THEN GENESIS_HASH ELSE lines[i - 1].current_event_hash
         /\ lines[i].current_event_hash = compute_record_hash(lines[i])
<1>1. {j \in DOMAIN lines : ~lines[j].parses} = {}
  BY DEF verify_chain_file, ChainVerdict
<1>2. verify_chain_file(lines) = verify_chain(lines)
  BY <1>1 DEF verify_chain_file
<1>3. {j \in DOMAIN lines : FailureKind(lines, j) # "none"} = {}
  BY <1>2 DEF verify_chain, ChainVerdict
<1>4. FailureKind(lines, i) = "none"
  BY <1>3
<1> QED
  BY <1>1, <1>4 DEF FailureKind

(* One record in its place has all that it links to in place.               *)
LEMMA AcceptedPrefix ==
  ASSUME AuditInvariant
  PROVE  AcceptedIsAPrefix
<1> SUFFICES ASSUME Len(starts) = 1, verify_chain_file(log).ok
             PROVE  \A i \in Honest : i \in DOMAIN sealed /\ \A j \in 1 .. i : log[j] = sealed[j]
  BY DEF AcceptedIsAPrefix
<1>1. PICK m \in Nat, n \in Nat :
        /\ m = Len(sealed) /\ DOMAIN sealed = 1 .. m
        /\ n = Len(log) /\ DOMAIN log = 1 .. n
  BY AuditTypes
<1>2. Lines!ToSet(starts) = {1}
  <2>1. starts \in Seq(Nat \ {0}) /\ 1 \in Lines!ToSet(starts) /\ DOMAIN starts = {1}
    BY DEF AuditInvariant
  <2> QED
    BY <2>1 DEF Lines!ToSet
<1>3. ASSUME NEW j \in 1 .. m, sealed[j].parses
      PROVE  /\ \A k \in 1 .. j : sealed[k].parses
             /\ SealedAt(j)
  <2>1. \A k \in 1 .. j : k \in 1 .. m /\ (k < m \/ k = j)
    OBVIOUS
  <2>2. \A k \in 1 .. m : k < m => sealed[k].parses
    BY <1>1 DEF AuditInvariant, OnlyTheLastIsTorn
  <2>3. \A k \in 1 .. j : sealed[k].parses
    BY <1>3, <2>1, <2>2
  <2> QED
    BY <1>1, <2>3 DEF AuditInvariant, ParsesTo
<1> DEFINE Sound(i) == /\ i \in 1 .. m /\ \A j \in 1 .. i : log[j] = sealed[j]
           Bad == {i \in 1 .. n : \E j \in 1 .. m : log[i] = sealed[j] /\ ~(i = j /\ Sound(i))}
<1>4. ASSUME NEW i \in 1 .. n, NEW j \in 1 .. m, log[i] = sealed[j]
      PROVE  /\ i = 1 <=> j = 1
             /\ i # 1 => /\ i - 1 \in 1 .. n /\ j - 1 \in 1 .. m
                         /\ log[i - 1] = sealed[j - 1]
  <2>1. /\ log[i].parses
        /\ log[i].previous_event_hash =
              IF i = 1 THEN GENESIS_HASH ELSE log[i - 1].current_event_hash
    BY <1>1, WhatIsAccepted
  <2>2. SealedAt(j) /\ \A k \in 1 .. j : sealed[k].parses
    BY <1>3, <1>4, <2>1
  <2>3. sealed[j].previous_event_hash = IF j = 1 THEN GENESIS_HASH ELSE sealed[j - 1].current_event_hash
    BY <1>2, <2>2 DEF SealedAt, Link
  <2>4. i # 1 => /\ i - 1 \in 1 .. n /\ log[i - 1].parses
                 /\ log[i - 1].current_event_hash = compute_record_hash(log[i - 1])
    <3>1. i # 1 => i - 1 \in 1 .. n
      OBVIOUS
    <3> QED
      BY <1>1, <3>1, WhatIsAccepted
  <2>5. j # 1 => /\ j - 1 \in 1 .. m /\ sealed[j - 1].parses
                 /\ sealed[j - 1].current_event_hash = compute_record_hash(sealed[j - 1])
    <3>1. j # 1 => j - 1 \in 1 .. m /\ j - 1 \in 1 .. j
      OBVIOUS
    <3> QED
      BY <1>3, <2>2, <3>1 DEF SealedAt
  <2>6. i = 1 <=> j = 1
    <3>1. i # 1 => log[i - 1].current_event_hash # GENESIS_HASH
      BY <2>4, HashesDiffer
    <3>2. j # 1 => sealed[j - 1].current_event_hash # GENESIS_HASH
      BY <2>5, HashesDiffer
    <3> QED
      BY <1>4, <2>1, <2>3, <3>1, <3>2
  <2>7. ASSUME i # 1
        PROVE  log[i - 1] = sealed[j - 1]
    <3>1. log[i - 1].current_event_hash = sealed[j - 1].current_event_hash
      BY <1>4, <2>1, <2>3, <2>6, <2>7
    <3>2. IsLine(log[i - 1]) /\ IsLine(sealed[j - 1])
      BY <1>1, <2>4, <2>5, <2>6, <2>7, AuditTypes
    <3> QED
      BY <2>4, <2>5, <2>6, <2>7, <3>1, <3>2, OneRecord
  <2> QED
    BY <2>4, <2>5, <2>6, <2>7
<1>5. ASSUME Bad # {}
      PROVE  FALSE
  <2>1. PICK i \in Bad : \A k \in Bad : i <= k
    <3>1. Bad \subseteq Nat
      OBVIOUS
    <3> HIDE DEF Bad
    <3> QED
      BY <1>5, <3>1, LeastIsReached
  <2>2. PICK j \in 1 .. m : log[i] = sealed[j] /\ ~(i = j /\ Sound(i))
    OBVIOUS
  <2>3. i \in 1 .. n
    OBVIOUS
  <2>4. CASE i = 1
    <3>1. j = 1
      BY <1>4, <2>2, <2>3, <2>4
    <3>2. 1 .. 1 = {1}
      OBVIOUS
    <3> QED
      BY <2>2, <2>4, <3>1, <3>2
  <2>5. CASE i # 1
    <3>1. i - 1 \in 1 .. n /\ j - 1 \in 1 .. m /\ log[i - 1] = sealed[j - 1]
      BY <1>4, <2>2, <2>3, <2>5
    <3>2. i - 1 \notin Bad
      <4>1. ~(i <= i - 1)
        BY <2>3
      <4> HIDE DEF Bad
      <4> QED
        BY <2>1, <4>1
    <3>3. i - 1 = j - 1 /\ Sound(i - 1)
      BY <3>1, <3>2
    <3>4. i = j /\ \A k \in 1 .. i : k \in 1 .. i - 1 \/ k = i
      BY <2>3, <3>3
    <3> QED
      BY <2>2, <3>3, <3>4
  <2> QED
    BY <2>4, <2>5
<1> QED
  BY <1>1, <1>5 DEF Honest

(* A log cut short is linked like the one it was cut from.                  *)
LEMMA PrefixVerdict ==
  ASSUME AuditInvariant
  PROVE  MissingTailPasses
<1> SUFFICES ASSUME Len(starts) = 1, Unparsable = {},
                    \A i \in DOMAIN log : i \in DOMAIN sealed /\ log[i] = sealed[i]
             PROVE  verify_chain_file(log).ok
  BY DEF MissingTailPasses
<1>1. PICK m \in Nat, n \in Nat :
        /\ m = Len(sealed) /\ DOMAIN sealed = 1 .. m
        /\ n = Len(log) /\ DOMAIN log = 1 .. n
  BY AuditTypes
<1>2. Lines!ToSet(starts) = {1}
  <2>1. starts \in Seq(Nat \ {0}) /\ 1 \in Lines!ToSet(starts) /\ DOMAIN starts = {1}
    BY DEF AuditInvariant
  <2> QED
    BY <2>1 DEF Lines!ToSet
<1>3. \A i \in 1 .. n : i \in 1 .. m /\ log[i] = sealed[i] /\ log[i].parses
  BY <1>1 DEF Unparsable
<1>4. ASSUME NEW i \in 1 .. n
      PROVE  SealedAt(i) /\ log[i] = sealed[i]
  <2>1. \A k \in 1 .. i : k \in 1 .. n
    OBVIOUS
  <2>2. \A k \in 1 .. i : sealed[k].parses
    BY <1>3, <2>1
  <2> QED
    BY <1>1, <1>3, <2>2 DEF AuditInvariant, ParsesTo
<1>5. ASSUME NEW i \in 1 .. n
      PROVE  FailureKind(log, i) = "none"
  <2>1. \A j \in 1 .. i - 1 : j \in 1 .. n /\ j # i
    OBVIOUS
  <2>2. log[i].event_id = i /\ \A j \in 1 .. i - 1 : log[j].event_id = j
    BY <1>4, <2>1 DEF SealedAt
  <2>3. ~\E j \in 1 .. i - 1 : log[j].event_id = log[i].event_id
    BY <2>1, <2>2
  <2>4. /\ validate_record_mapping(log[i])
        /\ compute_record_hash(log[i]) = log[i].current_event_hash
    BY <1>4 DEF SealedAt, validate_record_mapping
  <2>5. log[i].previous_event_hash =
          IF i = 1 THEN GENESIS_HASH ELSE log[i - 1].current_event_hash
    <3>1. i # 1 => i - 1 \in 1 .. n
      OBVIOUS
    <3>2. sealed[i].previous_event_hash =
            IF i = 1 THEN GENESIS_HASH ELSE sealed[i - 1].current_event_hash
      BY <1>2, <1>4 DEF SealedAt, Link
    <3> QED
      BY <1>4, <3>1, <3>2
  <2> QED
    BY <2>3, <2>4, <2>5 DEF FailureKind
<1>6. {i \in DOMAIN log : FailureKind(log, i) # "none"} = {}
  BY <1>1, <1>5
<1>7. {i \in DOMAIN log : ~log[i].parses} = {}
  BY DEF Unparsable
<1> QED
  BY <1>6, <1>7 DEF verify_chain_file, verify_chain, ChainVerdict

LEMMA AuditKeepsInvariant ==
  ASSUME AuditInvariant, [AuditNext]_auditVars
  PROVE  AuditInvariant'
BY AppendsKeeps, StopsKeeps, RestartsKeeps, TampersKeeps, AuditStutters DEF AuditNext

(* What is sealed is linked from line to line as far as it parses, whatever *)
(* the processes that appended to it tore; the file is what was sealed      *)
(* until somebody edits it.                                                 *)
THEOREM AuditSafe == AuditSpec => []AuditInvariant
<1>1. AuditInit => AuditInvariant
  BY AuditBegins
<1>2. AuditInvariant /\ [AuditNext]_auditVars => AuditInvariant'
  BY AuditKeepsInvariant
<1> QED
  BY <1>1, <1>2, PTL DEF AuditSpec

(* The types of AuditLog. *)
LEMMA AuditBounds ==
  ASSUME AuditInvariant, AuditTypeOK, [AuditNext]_auditVars
  PROVE  AuditTypeOK'
<1>1. /\ Len(log) \in Nat /\ Len(sealed) \in Nat /\ Len(starts) \in Nat
      /\ Len(log) <= MaxLines /\ Len(sealed) <= MaxLines
      /\ starts \in Seq(1 .. MaxLines + 1) /\ Len(starts) \in 1 .. MaxProcesses
      /\ MaxLines \in Nat /\ MaxProcesses \in Nat /\ edits \in 0 .. MaxEdits /\ MaxEdits \in Nat
  BY AuditAssumption, LenProperties DEF AuditInvariant, AuditTypeOK, IsLog
<1>2. ASSUME NEW line
      PROVE  Len(Append(log, line)) = Len(log) + 1
  BY LenProperties, AppendProperties DEF AuditInvariant, IsLog
<1>3. ASSUME NEW line, Len(log) < MaxLines, tornLine => Len(log) > 0, WriteLine(line)
      PROVE  Len(log') <= MaxLines /\ sealed' = log' /\ tornLine' \in BOOLEAN
  <2>1. CASE tornLine
    <3>1. log' = Lines!ReplaceAt(log, Len(log), Garbled)
      BY <1>3, <2>1 DEF WriteLine
    <3>2. Len(log') = Len(log)
      BY <3>1, <1>1 DEF Lines!ReplaceAt
    <3> QED
      BY <1>1, <1>3, <3>2 DEF WriteLine
  <2>2. CASE ~tornLine
    <3>1. log' = Append(log, line) /\ sealed' = log' /\ tornLine' = FALSE
      BY <1>3, <2>2 DEF WriteLine
    <3>2. Len(log') = Len(log) + 1
      BY <1>2, <3>1
    <3>3. Len(log') <= MaxLines
      BY <1>1, <1>3, <3>2
    <3> QED
      BY <3>1, <3>3
  <2> QED
    BY <2>1, <2>2
<1>4. CASE Appends
  <2>1. PICK line : WriteLine(line)
    BY <1>4 DEF Appends, append
  <2>2. Len(log) < MaxLines /\ UNCHANGED <<running, starts, edits>>
    BY <1>4 DEF Appends
  <2>3. tornLine => Len(log) > 0
    BY <1>4 DEF AuditInvariant, Appends
  <2> QED
    BY <1>1, <1>3, <2>1, <2>2, <2>3 DEF AuditTypeOK
<1>5. CASE Stops
  <2>1. running' = FALSE /\ UNCHANGED <<starts, edits>>
    BY <1>5 DEF Stops
  <2>2. CASE UNCHANGED <<log, sealed, tornLine>>
    BY <2>1, <2>2 DEF AuditTypeOK
  <2>3. CASE Len(log) < MaxLines /\ tornLine' = TRUE /\ sealed' = log'
             /\ \E line : log' = Append(log, line)
    <3>1. Len(log') = Len(log) + 1
      BY <1>2, <2>3
    <3>2. Len(log') <= MaxLines /\ Len(sealed') <= MaxLines
      BY <1>1, <2>3, <3>1
    <3> QED
      BY <2>1, <2>3, <3>2 DEF AuditTypeOK
  <2> QED
    BY <1>5, <2>2, <2>3 DEF Stops
<1>6. CASE Restarts
  <2>1. /\ Len(starts) < MaxProcesses /\ running' = TRUE
        /\ starts' = Append(starts, Len(log) + 1)
        /\ UNCHANGED <<log, tornLine, sealed, edits>>
    BY <1>6 DEF Restarts
  <2>2. Len(log) + 1 \in 1 .. MaxLines + 1
    BY <1>1
  <2>3. starts' \in Seq(1 .. MaxLines + 1) /\ Len(starts') = Len(starts) + 1
    BY <1>1, <2>1, <2>2, AppendProperties
  <2> QED
    BY <1>1, <2>1, <2>3 DEF AuditTypeOK
<1>7. CASE Tampers
  <2>1. /\ edits < MaxEdits /\ edits' = edits + 1 /\ Len(log') <= MaxLines
        /\ UNCHANGED <<tornLine, previous, running, starts, sealed>>
    BY <1>7 DEF Tampers
  <2>2. edits' \in 0 .. MaxEdits
    BY <1>1, <2>1
  <2> QED
    BY <1>1, <2>1, <2>2 DEF AuditTypeOK
<1>8. CASE UNCHANGED auditVars
  BY <1>8 DEF auditVars, AuditTypeOK
<1> QED
  BY <1>4, <1>5, <1>6, <1>7, <1>8 DEF AuditNext

LEMMA AuditBeginsTyped == AuditInit => AuditTypeOK
<1> SUFFICES ASSUME AuditInit PROVE AuditTypeOK
  OBVIOUS
<1>1. /\ log = <<>> /\ sealed = <<>> /\ tornLine = FALSE /\ running = TRUE
      /\ starts = <<1>> /\ edits = 0
  BY DEF AuditInit
<1>2. Len(log) = 0 /\ Len(sealed) = 0
  BY <1>1
<1>3. starts \in Seq(1 .. MaxLines + 1) /\ Len(starts) = 1
  BY <1>1, AuditAssumption
<1>4. Len(starts) \in 1 .. MaxProcesses /\ edits \in 0 .. MaxEdits
  BY <1>1, <1>3, AuditAssumption
<1>5. Len(log) <= MaxLines /\ Len(sealed) <= MaxLines
  BY <1>2, AuditAssumption
<1> QED
  BY <1>1, <1>3, <1>4, <1>5 DEF AuditTypeOK

THEOREM AuditTyped == AuditSpec => []AuditTypeOK
<1>1. AuditInvariant /\ AuditTypeOK /\ [AuditNext]_auditVars => AuditTypeOK'
  BY AuditBounds
<1> QED
  BY <1>1, AuditSafe, AuditBeginsTyped, PTL DEF AuditSpec

(* The verdict of verify_chain_file on every log that can arise: an         *)
(* unedited one is accepted or its first torn or resumed line is named, of  *)
(* an edited log of one process nothing is accepted but a prefix of what    *)
(* was sealed with forged lines after it, and every such prefix is.         *)
THEOREM TamperingShows == AuditSpec => []VerdictFitsTheLog
<1>1. AuditInvariant => VerdictFitsTheLog
  BY UneditedVerdict, AcceptedPrefix, PrefixVerdict DEF VerdictFitsTheLog
<1> QED
  BY <1>1, AuditSafe, PTL

-----------------------------------------------------------------------------
(* Tracking. *)

(* Two peers' boards and beliefs, one tracked turn after the other. *)
TrackSpec == TrackInit /\ [][TrackNext]_trackVars

-----------------------------------------------------------------------------
(* Beliefs. *)

LEMMA Excluded ==
  ASSUME NEW cells, cells \subseteq Cells, NEW walls, walls \subseteq Cells,
         NEW gone, gone \subseteq Cells
  PROVE  /\ exclude_impossible(cells, walls, gone) \subseteq Cells
         /\ exclude_impossible(cells, walls, gone) \cap walls = {}
         /\ exclude_impossible(cells, walls, gone) \cap gone = {}
         /\ cells \ (walls \cup gone) \subseteq exclude_impossible(cells, walls, gone)
         /\ Cells \ (walls \cup gone) # {} => exclude_impossible(cells, walls, gone) # {}
BY DEF exclude_impossible, normalise, Open

LEMMA Stepping ==
  ASSUME NEW c \in Cells, NEW d, NEW walls
  PROVE  StepOrStay(c, d, walls) \in Cells
BY DEF StepOrStay, Open

LEMMA StayingIn ==
  ASSUME NEW c \in Cells, NEW walls
  PROVE  StepOrStay(c, "STAY", walls) = c
<1>1. Shifted(c, "STAY") = c
  BY BoardAssumption DEF Cells, Shifted, Delta
<1> QED
  BY <1>1 DEF StepOrStay

LEMMA Predicted ==
  ASSUME NEW cells, cells \subseteq Cells, NEW walls, walls \subseteq Cells, NEW d
  PROVE  /\ predict(cells, d, walls) \subseteq Cells
         /\ \A c \in cells : StepOrStay(c, d, walls) \notin walls =>
              StepOrStay(c, d, walls) \in predict(cells, d, walls)
<1> DEFINE next == {StepOrStay(c, d, walls) : c \in cells}
<1>1. next \subseteq Cells
  BY Stepping
<1>2. \A c \in cells : StepOrStay(c, d, walls) \in next
  OBVIOUS
<1>3. predict(cells, d, walls) = exclude_impossible(next, walls, {})
  BY DEF predict
<1> HIDE DEF next
<1>4. {} \subseteq Cells
  OBVIOUS
<1>5. /\ exclude_impossible(next, walls, {}) \subseteq Cells
      /\ next \ (walls \cup {}) \subseteq exclude_impossible(next, walls, {})
  BY <1>1, <1>4, Excluded
<1> QED
  BY <1>2, <1>3, <1>5

LEMMA PredictedUnknown ==
  ASSUME NEW cells, cells \subseteq Cells, NEW walls, walls \subseteq Cells
  PROVE  /\ predict_unknown(cells, walls) \subseteq Cells
         /\ cells \ walls \subseteq predict_unknown(cells, walls)
<1> DEFINE next == {StepOrStay(c, d, walls) : c \in cells, d \in Direction}
<1>1. next \subseteq Cells
  BY Stepping
<1>2. cells \subseteq next
  <2> SUFFICES ASSUME NEW c \in cells
               PROVE  c \in next
    OBVIOUS
  <2>1. StepOrStay(c, "STAY", walls) = c /\ "STAY" \in Direction
    BY StayingIn DEF Direction
  <2> QED
    BY <2>1
<1>3. predict_unknown(cells, walls) = exclude_impossible(next, walls, {})
  BY DEF predict_unknown
<1> HIDE DEF next
<1>4. {} \subseteq Cells
  OBVIOUS
<1>5. /\ exclude_impossible(next, walls, {}) \subseteq Cells
      /\ next \ (walls \cup {}) \subseteq exclude_impossible(next, walls, {})
  BY <1>1, <1>4, Excluded
<1> QED
  BY <1>2, <1>3, <1>5

(* Where a cell is after what the opponent did there. *)
Later(c, a, walls) == IF a.kind = "move" THEN StepOrStay(c, a.direction, walls) ELSE c

(* The belief `kept' is a good one after that. *)
Follows(kept, cells, a, walls, own) ==
  /\ kept \subseteq Cells /\ kept \cap walls = {} /\ own \notin kept
  /\ \A c \in cells : Later(c, a, walls) \notin walls \cup {own} =>
       Later(c, a, walls) \in kept
  /\ Cells \ (walls \cup {own}) # {} => kept # {}

LEMMA ActionObserved ==
  ASSUME NEW cells, cells \subseteq Cells, NEW walls, walls \subseteq Cells, NEW a,
         NEW own \in Cells
  PROVE  Follows(observe_opponent_action(cells, a, walls, own), cells, a, walls, own)
<1> DEFINE moved == IF a.kind = "move" THEN predict(cells, a.direction, walls)
                    ELSE predict_unknown(exclude_impossible(cells, walls, {}), walls)
<1>1. observe_opponent_action(cells, a, walls, own) = exclude_impossible(moved, walls, {own})
  BY DEF observe_opponent_action
<1>2. /\ moved \subseteq Cells
      /\ \A c \in cells : Later(c, a, walls) \notin walls => Later(c, a, walls) \in moved
  <2>1. CASE a.kind = "move"
    BY <2>1, Predicted DEF Later
  <2>2. CASE a.kind # "move"
    <3> DEFINE kept == exclude_impossible(cells, walls, {})
    <3>1. {} \subseteq Cells
      OBVIOUS
    <3>2. kept \subseteq Cells /\ cells \ (walls \cup {}) \subseteq kept
      BY <3>1, Excluded
    <3> HIDE DEF kept
    <3>3. predict_unknown(kept, walls) \subseteq Cells /\ kept \ walls \subseteq predict_unknown(kept, walls)
      BY <3>2, PredictedUnknown
    <3>4. moved = predict_unknown(kept, walls)
      BY <2>2 DEF kept
    <3> QED
      BY <2>2, <3>2, <3>3, <3>4 DEF Later
  <2> QED
    BY <2>1, <2>2
<1> HIDE DEF moved
<1>3. {own} \subseteq Cells
  OBVIOUS
<1>4. /\ exclude_impossible(moved, walls, {own}) \subseteq Cells
      /\ exclude_impossible(moved, walls, {own}) \cap walls = {}
      /\ exclude_impossible(moved, walls, {own}) \cap {own} = {}
      /\ moved \ (walls \cup {own}) \subseteq exclude_impossible(moved, walls, {own})
      /\ Cells \ (walls \cup {own}) # {} => exclude_impossible(moved, walls, {own}) # {}
  BY <1>2, <1>3, Excluded
<1> QED
  BY <1>1, <1>2, <1>4 DEF Follows

LEMMA HintNoted ==
  ASSUME NEW cells, cells \subseteq Cells, NEW walls, walls \subseteq Cells, NEW claim,
         NEW own \in Cells
  PROVE  LET noted == note_hint(cells, claim, walls, own)
         IN  /\ noted \subseteq Cells /\ noted \cap walls = {} /\ own \notin noted
             /\ cells \ (walls \cup {own}) \subseteq noted
             /\ Cells \ (walls \cup {own}) # {} => noted # {}
<1> DEFINE all == cells \cup ({Shifted(c, claim) : c \in cells} \cap Open(walls))
<1>1. all \subseteq Cells /\ cells \subseteq all /\ {own} \subseteq Cells
  BY DEF Open
<1>2. note_hint(cells, claim, walls, own) = exclude_impossible(all, walls, {own})
  BY DEF note_hint
<1> HIDE DEF all
<1>3. /\ exclude_impossible(all, walls, {own}) \subseteq Cells
      /\ exclude_impossible(all, walls, {own}) \cap walls = {}
      /\ exclude_impossible(all, walls, {own}) \cap {own} = {}
      /\ all \ (walls \cup {own}) \subseteq exclude_impossible(all, walls, {own})
      /\ Cells \ (walls \cup {own}) # {} => exclude_impossible(all, walls, {own}) # {}
  BY <1>1, Excluded
<1> QED
  BY <1>1, <1>2, <1>3

(* What a turn leaves of a belief, on the board `after' the turn. *)
LEMMA BeliefUpdated ==
  ASSUME TrackTypeOK, NEW r \in Role, NEW own, NEW theirs, NEW hint, NEW place \in Cells,
         NEW after, after \subseteq Cells,
         after = Observed(Applied(live[r], own), theirs).barriers,
         Applied(live[r], own).barriers \subseteq after
  PROVE  LET now == Updated(r, own, theirs, hint, place)
         IN  /\ now \subseteq Cells /\ now \cap after = {} /\ place \notin now
             /\ \A c \in belief[r] :
                  c \notin after /\ Later(c, theirs, after) \notin after \cup {place} =>
                    Later(c, theirs, after) \in now
             /\ Cells \ (after \cup {place}) # {} => now # {}
<1> DEFINE before == Applied(live[r], own).barriers
           declared == IF own.kind = "move" THEN belief[r]
                       ELSE exclude_impossible(belief[r], before, {})
           observed == observe_opponent_action(declared, theirs, after, place)
           now == Updated(r, own, theirs, hint, place)
<1>1. now = IF hint \notin Direction THEN observed ELSE note_hint(observed, hint, after, place)
  BY DEF Updated
<1>2. declared \subseteq Cells /\ belief[r] \ after \subseteq declared
  <2>1. belief[r] \subseteq Cells /\ before \subseteq Cells /\ {} \subseteq Cells
    BY DEF TrackTypeOK
  <2>2. /\ exclude_impossible(belief[r], before, {}) \subseteq Cells
        /\ belief[r] \ (before \cup {}) \subseteq exclude_impossible(belief[r], before, {})
    BY <2>1, Excluded
  <2> QED
    BY <2>1, <2>2
<1> HIDE DEF before, declared
<1>3. /\ observed \subseteq Cells /\ observed \cap after = {} /\ place \notin observed
      /\ \A c \in declared : Later(c, theirs, after) \notin after \cup {place} =>
           Later(c, theirs, after) \in observed
      /\ Cells \ (after \cup {place}) # {} => observed # {}
  <2>1. Follows(observed, declared, theirs, after, place)
    BY <1>2, ActionObserved
  <2> QED
    BY <2>1 DEF Follows
<1> HIDE DEF observed
<1>4. LET noted == note_hint(observed, hint, after, place)
      IN  /\ noted \subseteq Cells /\ noted \cap after = {} /\ place \notin noted
          /\ observed \ (after \cup {place}) \subseteq noted
          /\ Cells \ (after \cup {place}) # {} => noted # {}
  BY <1>3, HintNoted
<1> HIDE DEF now
<1>5. now \subseteq Cells /\ now \cap after = {} /\ place \notin now /\ observed \subseteq now
      /\ (Cells \ (after \cup {place}) # {} => now # {})
  <2>1. CASE hint \notin Direction
    BY <1>1, <1>3, <2>1
  <2>2. CASE hint \in Direction
    BY <1>1, <1>3, <1>4, <2>2
  <2> QED
    BY <2>1, <2>2
<1> QED
  BY <1>2, <1>3, <1>5 DEF now

-----------------------------------------------------------------------------
(* The board. *)

Laid(a) == IF a.kind = "move" THEN {} ELSE {a.cell}

LEMMA LegalAction ==
  ASSUME NEW s \in LocalState, NEW a \in LegalActions(s)
  PROVE  /\ a \in BoardAction /\ Laid(a) \subseteq Cells
         /\ Followed(s.position, a) \in Cells
         /\ a.kind = "move" =>
              /\ Followed(s.position, a) = Shifted(s.position, a.direction)
              /\ Followed(s.position, a) \notin s.barriers
         /\ a.kind # "move" =>
              /\ a = PlaceBarrier(a.cell) /\ a.kind = "place_barrier" /\ a.cell \in Cells
              /\ s.role = "police" /\ s.placed < MaxBarriers /\ a.cell \notin s.barriers
              /\ Followed(s.position, a) = s.position
<1>1. a \in BoardAction /\ Legal(s, a) /\ s.position \in Cells
  BY DEF LegalActions, LocalState
<1>2. CASE a.kind = "move"
  BY <1>1, <1>2 DEF Legal, MoveLegal, IsPassable, Followed, Laid
<1>3. CASE a.kind # "move"
  <2>1. a \in Placements
    BY <1>1, <1>3 DEF BoardAction, Moves
  <2>2. a = PlaceBarrier(a.cell) /\ a.kind = "place_barrier" /\ a.cell \in Cells
    BY <2>1 DEF Placements, PlaceBarrier
  <2> QED
    BY <1>1, <1>3, <2>2 DEF Legal, PlacementLegal, IsPassable, Followed, Laid
<1> QED
  BY <1>2, <1>3

LEMMA AfterBoth ==
  ASSUME NEW s \in LocalState, NEW a \in LegalActions(s), NEW b, Laid(b) \subseteq Cells
  PROVE  LET next == Observed(Applied(s, a), b)
         IN  /\ next \in LocalState /\ next.role = s.role
             /\ next.position = Followed(s.position, a)
             /\ Applied(s, a).barriers = s.barriers \cup Laid(a)
             /\ next.barriers = s.barriers \cup Laid(a) \cup Laid(b)
             /\ next.placed = IF a.kind = "move" THEN s.placed ELSE s.placed + 1
<1> DEFINE n == IF a.kind = "move" THEN s.placed ELSE s.placed + 1
           next == Observed(Applied(s, a), b)
<1>1. /\ s.role \in Role /\ s.barriers \subseteq Cells /\ n \in Nat
      /\ Laid(a) \subseteq Cells /\ Followed(s.position, a) \in Cells
  BY LegalAction DEF LocalState
<1>2. /\ Applied(s, a).barriers = s.barriers \cup Laid(a)
      /\ next = [role |-> s.role, position |-> Followed(s.position, a),
                 barriers |-> s.barriers \cup Laid(a) \cup Laid(b), placed |-> n]
  BY DEF Applied, Observed, Laid
<1> HIDE DEF n, next
<1>3. next \in LocalState
  BY <1>1, <1>2 DEF LocalState
<1> QED
  BY <1>2, <1>3 DEF n, next

LEMMA CellsCounted ==
  /\ IsFiniteSet(Cells) /\ Cardinality(Cells) = GridSize * GridSize
<1>1. GridSize \in Nat /\ 0 \in Int /\ GridSize - 1 \in Int
  BY BoardAssumption
<1>2. /\ IsFiniteSet(0 .. GridSize - 1)
      /\ Cardinality(0 .. GridSize - 1) = IF 0 > GridSize - 1 THEN 0 ELSE GridSize - 1 - 0 + 1
  BY <1>1, FS_Interval
<1>3. Cardinality(0 .. GridSize - 1) = GridSize
  BY <1>1, <1>2
<1>4. /\ IsFiniteSet(Cells)
      /\ Cardinality(Cells) = Cardinality(0 .. GridSize - 1) * Cardinality(0 .. GridSize - 1)
  BY <1>2, FS_Product DEF Cells
<1> QED
  BY <1>3, <1>4

(* The quota leaves a cell for the opponent. *)
LEMMA RoomLeft ==
  ASSUME NEW walls, IsFiniteSet(walls), walls \subseteq Cells,
         Cardinality(walls) <= MaxBarriers, NEW own \in Cells
  PROVE  Cells \ (walls \cup {own}) # {}
<1>1. PICK k \in Nat, g \in Nat :
        k = Cardinality(walls) /\ g = GridSize * GridSize /\ k + 2 <= g
  <2>1. Cardinality(walls) \in Nat /\ MaxBarriers \in Nat /\ GridSize \in Nat
    BY FS_CardinalityType, BoardAssumption
  <2>2. PICK g \in Nat : g = GridSize * GridSize
    BY <2>1
  <2> QED
    BY <2>1, <2>2, TrackAssumption
<1>2. IsFiniteSet(walls \cup {own}) /\ Cardinality(walls \cup {own}) \in {k, k + 1}
  BY <1>1, FS_AddElement
<1>3. Cells # walls \cup {own}
  BY <1>1, <1>2, CellsCounted
<1> QED
  BY <1>3

LEMMA TrackBegins ==
  ASSUME TrackInit
  PROVE  TrackInvariant
<1>1. ASSUME NEW r \in Role
      PROVE  /\ InitialState(r) \in LocalState /\ InitialState(r).role = r
             /\ InitialState(r).position = StartOf(r) /\ InitialState(r).barriers = {}
             /\ InitialState(r).placed = 0 /\ StartOf(r) \in Cells
             /\ StartOf(Opponent(r)) \in Cells /\ StartOf(Opponent(r)) # StartOf(r)
  BY BoardAssumption DEF InitialState, LocalState, StartOf, Opponent, Role
<1>2. /\ trackedTurn = 0 /\ live = [r \in Role |-> InitialState(r)] /\ replayed = ThiefStart
      /\ belief = [r \in Role |-> {StartOf(Opponent(r))}] /\ over = [r \in Role |-> FALSE]
      /\ underCop = FALSE
  BY DEF TrackInit
<1>3. TrackTypeOK
  <2>1. live \in [Role -> LocalState] /\ belief \in [Role -> SUBSET Cells]
    BY <1>1, <1>2
  <2>2. trackedTurn \in 0 .. TrackedTurns
    BY <1>2, TrackAssumption
  <2> QED
    BY <1>2, <2>1, <2>2, BoardAssumption DEF TrackTypeOK
<1>4. "police" \in Role /\ "thief" \in Role
  BY DEF Role
<1>5. live["police"].barriers = {} /\ live["thief"].barriers = {} /\ live["police"].placed = 0
  BY <1>1, <1>2, <1>4
<1>6. IsFiniteSet({}) /\ Cardinality({}) = 0
  BY FS_EmptySet
<1>7. ASSUME NEW r \in Role
      PROVE  /\ KeepsTheOpponent(r) /\ RulesOutTheImpossible(r) /\ belief[r] # {}
             /\ live[r].role = r
  <2>1. Tracked(r) = StartOf(Opponent(r))
    BY <1>1, <1>2, <1>4 DEF Tracked, StartOf, Opponent, Role
  <2> QED
    BY <1>1, <1>2, <2>1 DEF KeepsTheOpponent, RulesOutTheImpossible
<1> QED
  BY <1>3, <1>5, <1>6, <1>7, BoardAssumption DEF TrackInvariant, BeliefNeverRulesOut

(* What the replay makes of the thief's move on the board with `walls'.     *)
LEMMA ThiefReplayed ==
  ASSUME TrackTypeOK, NEW a, NEW b, b.kind = "move",
         NEW walls, walls = live["thief"].barriers \cup Laid(a)
  PROVE  /\ ReplayedThief(a, b) = Later(replayed, b, walls)
         /\ ReplayedThief(a, b) \in Cells
         /\ replayed \notin walls => ReplayedThief(a, b) \notin walls
<1> DEFINE told == Observed([live["thief"] EXCEPT !.position = replayed], a)
<1>1. live["thief"] \in LocalState /\ replayed \in Cells
  BY DEF TrackTypeOK, Role
<1>2. told.position = replayed /\ told.barriers = walls
  BY <1>1 DEF Observed, Laid, LocalState
<1>3. ReplayedThief(a, b) = IF Legal(told, b) THEN Followed(replayed, b) ELSE replayed
  BY DEF ReplayedThief
<1> HIDE DEF told
<1>4. Legal(told, b) <=> Shifted(replayed, b.direction) \in Open(walls)
  BY <1>2 DEF Legal, MoveLegal, IsPassable, Open
<1>5. ReplayedThief(a, b) = StepOrStay(replayed, b.direction, walls)
  BY <1>3, <1>4 DEF Followed, StepOrStay
<1> QED
  BY <1>1, <1>5, Stepping DEF Later, StepOrStay, Open

LEMMA TurnKeeps ==
  ASSUME TrackInvariant, trackedTurn < TrackedTurns,
         NEW a \in LegalActions(live["police"]), NEW b \in LegalActions(live["thief"]),
         NEW hints, TrackedTurn(a, b, hints)
  PROVE  TrackInvariant'
<1>1. PICK walls : walls = live["police"].barriers \cup Laid(a)
  OBVIOUS
<1>2. /\ live["police"] \in LocalState /\ live["thief"] \in LocalState
      /\ live["police"].role = "police" /\ live["thief"].role = "thief"
      /\ live["police"].barriers = live["thief"].barriers
      /\ live["police"].barriers \subseteq Cells
  BY DEF TrackInvariant, TrackTypeOK, Role, LocalState
<1>3. b.kind = "move" /\ Laid(b) = {} /\ Laid(a) \subseteq Cells /\ walls \subseteq Cells
  BY <1>1, <1>2, LegalAction DEF Laid
<1> DEFINE action == [police |-> a, thief |-> b]
           next == [r \in Role |-> Observed(Applied(live[r], action[r]), action[Opponent(r)])]
<1>4. /\ next["police"] = Observed(Applied(live["police"], a), b)
      /\ next["thief"] = Observed(Applied(live["thief"], b), a)
  BY DEF Role, Opponent
<1>5. /\ live' = next /\ trackedTurn' = trackedTurn + 1 /\ replayed' = ReplayedThief(a, b)
      /\ belief' = [r \in Role |-> Updated(r, action[r], action[Opponent(r)], hints[r],
                                           next[r].position)]
      /\ over' = [police |-> over["police"] \/ ReplayOver(a, b),
                  thief |-> \/ over["thief"]
                            \/ next["police"].position = next["thief"].position]
      /\ underCop' = (underCop \/ a = PlaceBarrier(live["police"].position))
  BY DEF TrackedTurn
<1>6. /\ belief'["police"] = Updated("police", a, b, hints["police"], next["police"].position)
      /\ belief'["thief"] = Updated("thief", b, a, hints["thief"], next["thief"].position)
      /\ DOMAIN belief' = Role /\ belief' = [r \in Role |-> belief'[r]]
  BY <1>5 DEF Role, Opponent
<1>7. live' = [r \in Role |-> live'[r]]
  BY <1>5
<1> HIDE DEF next, action
<1>8. /\ live'["police"] \in LocalState /\ live'["police"].role = "police"
      /\ live'["police"].position = Followed(live["police"].position, a)
      /\ Applied(live["police"], a).barriers = walls
      /\ live'["police"].barriers = walls
      /\ live'["police"].placed =
           IF a.kind = "move" THEN live["police"].placed ELSE live["police"].placed + 1
  <2>1. Laid(b) \subseteq Cells
    BY <1>3
  <2> QED
    BY <1>1, <1>2, <1>3, <1>4, <1>5, <2>1, AfterBoth
<1>9. /\ live'["thief"] \in LocalState /\ live'["thief"].role = "thief"
      /\ live'["thief"].position = Followed(live["thief"].position, b)
      /\ Applied(live["thief"], b).barriers \subseteq walls
      /\ live'["thief"].barriers = walls
  BY <1>1, <1>2, <1>3, <1>4, <1>5, AfterBoth
<1>10. /\ live'["police"].position \in Cells /\ live'["thief"].position \in Cells
  BY <1>8, <1>9 DEF LocalState
<1>11. IsFiniteSet(walls) /\ Cardinality(walls) <= live'["police"].placed
       /\ live'["police"].placed <= MaxBarriers
  <2>1. PICK k \in Nat, p \in Nat :
          /\ k = Cardinality(live["police"].barriers) /\ p = live["police"].placed
          /\ k <= p /\ p <= MaxBarriers /\ MaxBarriers \in Nat
          /\ IsFiniteSet(live["police"].barriers)
    <3>1. /\ IsFiniteSet(live["police"].barriers) /\ live["police"].placed \in Nat
          /\ Cardinality(live["police"].barriers) <= live["police"].placed
          /\ live["police"].placed <= MaxBarriers
      BY <1>2 DEF TrackInvariant, LocalState
    <3> QED
      BY <3>1, FS_CardinalityType, BoardAssumption
  <2>2. CASE a.kind = "move"
    BY <1>1, <1>8, <2>1, <2>2 DEF Laid
  <2>3. CASE a.kind # "move"
    <3>1. p < MaxBarriers /\ walls = live["police"].barriers \cup {a.cell}
      BY <1>1, <1>2, <2>1, <2>3, LegalAction DEF Laid
    <3>2. IsFiniteSet(walls) /\ Cardinality(walls) \in {k, k + 1}
      BY <2>1, <3>1, FS_AddElement
    <3>3. live'["police"].placed = p + 1
      BY <1>8, <2>1, <2>3
    <3>4. \A c \in {k, k + 1} : c <= p + 1
      BY <2>1
    <3>5. p + 1 <= MaxBarriers
      BY <2>1, <3>1
    <3> QED
      BY <3>2, <3>3, <3>4, <3>5
  <2> QED
    BY <2>2, <2>3
<1>12. \A r \in Role : Cells \ (walls \cup {live'[r].position}) # {}
  <2>1. Cardinality(walls) <= MaxBarriers
    <3>1. Cardinality(walls) \in Nat /\ live'["police"].placed \in Nat /\ MaxBarriers \in Nat
      BY <1>8, <1>11, FS_CardinalityType, BoardAssumption DEF LocalState
    <3> QED
      BY <1>11, <3>1
  <2> QED
    BY <1>3, <1>10, <1>11, <2>1, RoomLeft DEF Role
<1>13. /\ belief'["police"] \subseteq Cells /\ belief'["police"] \cap walls = {}
       /\ live'["police"].position \notin belief'["police"]
       /\ \A c \in belief["police"] :
            c \notin walls /\ Later(c, b, walls) \notin walls \cup {live'["police"].position} =>
              Later(c, b, walls) \in belief'["police"]
       /\ Cells \ (walls \cup {live'["police"].position}) # {} => belief'["police"] # {}
  <2> DEFINE place == live'["police"].position
             hint == hints["police"]
  <2>1. /\ TrackTypeOK /\ "police" \in Role /\ place \in Cells /\ walls \subseteq Cells
        /\ walls = Observed(Applied(live["police"], a), b).barriers
        /\ Applied(live["police"], a).barriers \subseteq walls
    BY <1>3, <1>4, <1>5, <1>8, <1>10 DEF TrackInvariant, Role
  <2>2. belief'["police"] = Updated("police", a, b, hint, place)
    BY <1>5, <1>6
  <2> HIDE DEF place, hint
  <2>3. LET now == Updated("police", a, b, hint, place)
        IN  /\ now \subseteq Cells /\ now \cap walls = {} /\ place \notin now
            /\ \A c \in belief["police"] :
                 c \notin walls /\ Later(c, b, walls) \notin walls \cup {place} =>
                   Later(c, b, walls) \in now
            /\ Cells \ (walls \cup {place}) # {} => now # {}
    BY <2>1, BeliefUpdated
  <2> QED
    BY <2>2, <2>3 DEF place
<1>14. /\ belief'["thief"] \subseteq Cells /\ belief'["thief"] \cap walls = {}
       /\ live'["thief"].position \notin belief'["thief"]
       /\ \A c \in belief["thief"] :
            c \notin walls /\ Later(c, a, walls) \notin walls \cup {live'["thief"].position} =>
              Later(c, a, walls) \in belief'["thief"]
       /\ Cells \ (walls \cup {live'["thief"].position}) # {} => belief'["thief"] # {}
  <2> DEFINE place == live'["thief"].position
             hint == hints["thief"]
  <2>1. /\ TrackTypeOK /\ "thief" \in Role /\ place \in Cells /\ walls \subseteq Cells
        /\ walls = Observed(Applied(live["thief"], b), a).barriers
        /\ Applied(live["thief"], b).barriers \subseteq walls
    BY <1>3, <1>4, <1>5, <1>9, <1>10 DEF TrackInvariant, Role
  <2>2. belief'["thief"] = Updated("thief", b, a, hint, place)
    BY <1>5, <1>6
  <2> HIDE DEF place, hint
  <2>3. LET now == Updated("thief", b, a, hint, place)
        IN  /\ now \subseteq Cells /\ now \cap walls = {} /\ place \notin now
            /\ \A c \in belief["thief"] :
                 c \notin walls /\ Later(c, a, walls) \notin walls \cup {place} =>
                   Later(c, a, walls) \in now
            /\ Cells \ (walls \cup {place}) # {} => now # {}
    BY <2>1, BeliefUpdated
  <2> QED
    BY <2>2, <2>3 DEF place
<1>15. /\ replayed' = Later(replayed, b, walls) /\ replayed' \in Cells
       /\ replayed \notin walls => replayed' \notin walls
  BY <1>1, <1>2, <1>3, <1>5, ThiefReplayed DEF TrackInvariant
<1>16. ASSUME ~over'["police"]
       PROVE  /\ replayed' \notin walls /\ replayed' \in belief'["police"]
  <2>1. ~over["police"] /\ ~ReplayOver(a, b)
    BY <1>5, <1>16
  <2>2. replayed \in belief["police"] /\ replayed \notin live["police"].barriers
    BY <2>1 DEF TrackInvariant, BeliefNeverRulesOut, KeepsTheOpponent, Tracked, Role
  <2>3. ReplayedThief(a, b) # Followed(live["police"].position, a) /\ BarrierCapture(a, replayed) = ""
    BY <2>1 DEF ReplayOver
  <2>4. replayed \notin walls
    BY <1>1, <1>2, <2>2, <2>3, LegalAction DEF BarrierCapture, Laid
  <2> QED
    BY <1>5, <1>8, <1>13, <1>15, <2>2, <2>3, <2>4
<1>17. ASSUME ~underCop'
       PROVE  /\ live["police"].position \notin walls /\ live'["police"].position \notin walls
              /\ Later(live["police"].position, a, walls) = live'["police"].position
  <2>1. /\ ~underCop /\ a # PlaceBarrier(live["police"].position)
        /\ live["police"].position \notin live["police"].barriers
    BY <1>5, <1>17 DEF TrackInvariant
  <2>2. CASE a.kind = "move"
    <3>1. /\ walls = live["police"].barriers
          /\ Followed(live["police"].position, a) = Shifted(live["police"].position, a.direction)
          /\ Followed(live["police"].position, a) \in Open(walls)
      BY <1>1, <1>2, <2>2, LegalAction DEF Laid, Open
    <3> QED
      BY <1>8, <2>1, <2>2, <3>1 DEF Later, StepOrStay, Open
  <2>3. CASE a.kind # "move"
    <3>1. /\ a = PlaceBarrier(a.cell) /\ walls = live["police"].barriers \cup {a.cell}
          /\ Followed(live["police"].position, a) = live["police"].position
      BY <1>1, <1>2, <2>3, LegalAction DEF Laid
    <3> QED
      BY <1>8, <2>1, <2>3, <3>1 DEF Later
  <2> QED
    BY <2>2, <2>3
<1>18. ASSUME ~over'["thief"], ~underCop'
       PROVE  live'["police"].position \in belief'["thief"]
  <2>1. /\ ~over["thief"] /\ live'["police"].position # live'["thief"].position /\ ~underCop
    BY <1>5, <1>18
  <2>2. live["police"].position \in belief["thief"]
    BY <2>1 DEF TrackInvariant, BeliefNeverRulesOut, KeepsTheOpponent, Tracked, Role
  <2> QED
    BY <1>14, <1>17, <1>18, <2>1, <2>2
<1>19. TrackTypeOK'
  <2>1. trackedTurn' \in 0 .. TrackedTurns
    BY <1>5, TrackAssumption DEF TrackInvariant, TrackTypeOK
  <2>2. live' \in [Role -> LocalState] /\ belief' \in [Role -> SUBSET Cells]
    BY <1>6, <1>7, <1>8, <1>9, <1>13, <1>14 DEF Role
  <2>3. PICK c \in BOOLEAN, t \in BOOLEAN, u \in BOOLEAN :
          /\ c = (over["police"] \/ ReplayOver(a, b))
          /\ t = (over["thief"] \/ live'["police"].position = live'["thief"].position)
          /\ u = (underCop \/ a = PlaceBarrier(live["police"].position))
    OBVIOUS
  <2>4. over' = [police |-> c, thief |-> t] /\ underCop' = u
    BY <1>5, <2>3, Zenon
  <2>5. over' \in [Role -> BOOLEAN] /\ underCop' \in BOOLEAN
    BY <2>4 DEF Role
  <2> QED
    BY <1>15, <2>1, <2>2, <2>5 DEF TrackTypeOK
<1>20. BeliefNeverRulesOut'
  <2> SUFFICES ASSUME NEW r \in Role
               PROVE  KeepsTheOpponent(r)' /\ RulesOutTheImpossible(r)' /\ belief'[r] # {}
    BY DEF BeliefNeverRulesOut
  <2>1. CASE r = "police"
    BY <1>8, <1>12, <1>13, <1>16, <2>1
    DEF KeepsTheOpponent, RulesOutTheImpossible, Tracked
  <2>2. CASE r = "thief"
    BY <1>9, <1>12, <1>14, <1>18, <2>2
    DEF KeepsTheOpponent, RulesOutTheImpossible, Tracked
  <2> QED
    BY <2>1, <2>2 DEF Role
<1> QED
  BY <1>8, <1>9, <1>11, <1>16, <1>17, <1>19, <1>20 DEF TrackInvariant, Role

LEMMA TrackStutters ==
  ASSUME TrackInvariant, UNCHANGED trackVars
  PROVE  TrackInvariant'
BY DEF TrackInvariant, TrackTypeOK, BeliefNeverRulesOut, KeepsTheOpponent,
       RulesOutTheImpossible, Tracked, trackVars

(* Both boards hold the same barriers, at most as many as the cop placed    *)
(* and never more than its quota, and the cell a belief has to keep is      *)
(* never under one, on boards of every size and with every quota.           *)
THEOREM TrackSafe == TrackSpec => []TrackInvariant
<1>1. TrackInit => TrackInvariant
  BY TrackBegins
<1>2. TrackInvariant /\ [TrackNext]_trackVars => TrackInvariant'
  <2> SUFFICES ASSUME TrackInvariant, [TrackNext]_trackVars
               PROVE  TrackInvariant'
    OBVIOUS
  <2> QED
    BY TurnKeeps, TrackStutters DEF TrackNext
<1> QED
  BY <1>1, <1>2, PTL DEF TrackSpec

(* A tracker never excludes the cell its opponent is really on until the    *)
(* two meet, what it believes is free cells only, and it always believes    *)
(* something: on every board and with every quota validation lets through.  *)
THEOREM OpponentIsNeverRuledOut == TrackSpec => []BeliefNeverRulesOut
<1>1. TrackInvariant => BeliefNeverRulesOut
  BY DEF TrackInvariant
<1> QED
  BY <1>1, TrackSafe, PTL

-----------------------------------------------------------------------------
(* The window. *)

(* The two threads of a peer run with --gui, and the person at the screen. *)
GuiSpec == GuiInit /\ [][GuiNext]_guiVars

LEMMA Snapshots ==
  /\ \A v \in View : v # NoView
  /\ \A a \in BOOLEAN, s \in {"", "finished", "failed"} :
       /\ [acting |-> a, status |-> s] \in View
       /\ [acting |-> a, status |-> s].status = s
<1>1. NoView.status = "none"
  BY DEF NoView
<1>2. \A v \in View : v.status # "none"
  BY DEF View
<1> QED
  BY <1>1, <1>2 DEF View

LEMMA GuiBegins == GuiInit => GuiInvariant
<1> SUFFICES ASSUME GuiInit
             PROVE  GuiInvariant
  OBVIOUS
<1>1. WorkerTypes
  BY DEF GuiInit, WorkerTypes
<1>2. MainTypes
  BY DEF GuiInit, MainTypes
<1> QED
  BY <1>1, <1>2 DEF GuiInit, GuiInvariant, GuiTypeOK, SnapshotIsCurrent, LeftWithTheEnd

(* The rest of the invariant, beside the types. *)
GuiStands ==
  /\ SnapshotIsCurrent
  /\ finished <=> worker \in {"stopped", "returned"}
  /\ banner = "GAME COMPLETE" => status # ""
  /\ main = "joining" => finished
  /\ LeftWithTheEnd

LEMMA GuiParts == GuiInvariant <=> WorkerTypes /\ MainTypes /\ GuiStands
BY DEF GuiInvariant, GuiTypeOK, GuiStands

(* What the worker does before the slot is ended: only the end of a match   *)
(* and of --hold change the status, and the snapshot with it.               *)
LEMMA Published ==
  ASSUME GuiInvariant, worker \notin {"stopped", "returned"},
         NEW s \in {"", "finished", "failed"}, status' = s, status # "" => s # "",
         latest' = Snapshot(s), worker' \in {"running", "holding", "closing"},
         exitCode' \in {"finished", "failed"},
         UNCHANGED <<acting, finished, bound, stopping, optionVars, asked, mainVars>>
  PROVE  GuiInvariant' /\ banner' = banner /\ shots' = shots
<1> USE GuiParts
<1>1. latest' \in View /\ latest' # NoView /\ latest'.status = s
  BY Snapshots DEF Snapshot, WorkerTypes
<1>2. UNCHANGED <<main, request, closed, banner, shots>>
  BY DEF mainVars
<1>3. WorkerTypes'
  BY <1>1 DEF WorkerTypes, optionVars
<1>4. MainTypes'
  BY <1>2 DEF MainTypes
<1>5. ~finished /\ main # "joining"
  BY DEF GuiStands
<1>6. GuiStands'
  BY <1>1, <1>2, <1>5 DEF GuiStands, SnapshotIsCurrent, LeftWithTheEnd
<1> QED
  BY <1>2, <1>3, <1>4, <1>6 DEF GuiInvariant, GuiTypeOK, GuiStands

(* A hold that begins unmarked touches no snapshot.                         *)
LEMMA HoldKeeps ==
  ASSUME GuiInvariant, worker = "running", worker' \in {"holding", "closing"},
         exitCode' \in {"finished", "failed"},
         UNCHANGED <<acting, status, latest, finished>>,
         UNCHANGED <<bound, stopping, optionVars, asked, mainVars>>
  PROVE  GuiInvariant' /\ banner' = banner /\ shots' = shots
<1> USE GuiParts
<1>1. UNCHANGED <<hold, turns, interop, main, request, closed, banner, shots>>
  BY DEF optionVars, mainVars
<1>2. WorkerTypes'
  BY <1>1 DEF WorkerTypes
<1>3. MainTypes'
  BY <1>1 DEF MainTypes
<1>4. GuiStands'
  BY <1>1 DEF GuiStands, SnapshotIsCurrent, LeftWithTheEnd
<1> QED
  BY <1>1, <1>2, <1>3, <1>4 DEF GuiInvariant, GuiTypeOK, GuiStands

LEMMA BindingKeeps ==
  ASSUME GuiInvariant, BindStop \/ StopDelivered, UNCHANGED <<optionVars, asked, mainVars>>
  PROVE  GuiInvariant' /\ banner' = banner /\ shots' = shots
<1> USE GuiParts
<1>1. /\ UNCHANGED <<hold, turns, interop, acting, exitCode, status, latest, finished>>
      /\ UNCHANGED <<main, request, closed, banner, shots>>
  BY DEF BindStop, StopDelivered, workerVars, optionVars, mainVars
<1>2. /\ worker' \in {"starting", "running"} \/ worker' = worker
      /\ bound' \in {"assigned", "yes"} \/ bound' = bound
  BY DEF BindStop, StopDelivered, workerVars
<1>3. WorkerTypes'
  <2>1. /\ hold \in BOOLEAN /\ turns \in BOOLEAN /\ interop \in BOOLEAN
        /\ acting \in BOOLEAN /\ finished \in BOOLEAN
        /\ exitCode \in {"finished", "failed"} /\ status \in {"", "finished", "failed"}
        /\ latest \in View \cup {NoView}
    BY DEF WorkerTypes
  <2>2. worker \in {"starting", "running", "holding", "closing", "stopped", "returned"}
    BY DEF WorkerTypes
  <2>3. bound \in {"no", "assigned", "yes"}
    BY DEF WorkerTypes
  <2>4. worker' \in {"starting", "running", "holding", "closing", "stopped", "returned"}
    BY <1>2, <2>2
  <2>5. bound' \in {"no", "assigned", "yes"}
    BY <1>2, <2>3
  <2> QED
    BY <1>1, <2>1, <2>4, <2>5 DEF WorkerTypes
<1>4. MainTypes'
  BY <1>1 DEF BindStop, StopDelivered, MainTypes
<1>5. GuiStands'
  BY <1>1 DEF BindStop, StopDelivered, workerVars, GuiStands, SnapshotIsCurrent, LeftWithTheEnd
<1> QED
  BY <1>1, <1>3, <1>4, <1>5 DEF GuiInvariant, GuiTypeOK, GuiStands

LEMMA EndingKeeps ==
  ASSUME GuiInvariant, StartFails \/ GuiStops \/ WorkerReturns,
         UNCHANGED <<bound, stopping, optionVars, asked, mainVars>>
  PROVE  GuiInvariant' /\ banner' = banner /\ shots' = shots
<1> USE GuiParts
<1>1. /\ UNCHANGED <<hold, turns, interop, acting, exitCode, status, latest>>
      /\ UNCHANGED <<main, request, closed, banner, shots>>
  BY DEF StartFails, GuiStops, WorkerReturns, optionVars, mainVars
<1>2. finished' = TRUE /\ worker' \in {"stopped", "returned"}
  BY DEF StartFails, GuiStops, WorkerReturns, GuiStands, WorkerTypes
<1>3. WorkerTypes'
  BY <1>1, <1>2 DEF WorkerTypes
<1>4. MainTypes'
  BY <1>1 DEF MainTypes
<1>5. GuiStands'
  BY <1>1, <1>2 DEF GuiStands, SnapshotIsCurrent, LeftWithTheEnd
<1> QED
  BY <1>1, <1>3, <1>4, <1>5 DEF GuiInvariant, GuiTypeOK, GuiStands

LEMMA NextPhaseKeeps ==
  ASSUME GuiInvariant, NextPhase
  PROVE  GuiInvariant' /\ banner' = banner /\ shots' = shots
<1> USE GuiParts
<1>1. /\ UNCHANGED <<hold, turns, interop, worker, exitCode, status, latest, finished>>
      /\ UNCHANGED <<bound, asked, stopping, main, request, closed, banner, shots>>
  BY DEF NextPhase, PlayOn, optionVars, mainVars
<1>2. acting' \in BOOLEAN
  BY Zenon DEF NextPhase, PlayOn, WorkerTypes
<1>3. WorkerTypes'
  BY <1>1, <1>2 DEF WorkerTypes
<1>4. MainTypes'
  BY <1>1 DEF MainTypes
<1>5. GuiStands'
  BY <1>1 DEF GuiStands, SnapshotIsCurrent, LeftWithTheEnd
<1> QED
  BY <1>1, <1>3, <1>4, <1>5 DEF GuiInvariant, GuiTypeOK, GuiStands

LEMMA WorkerKeeps ==
  ASSUME GuiInvariant, WorkerStep \/ NextPhase
  PROVE  GuiInvariant' /\ banner' = banner /\ shots' = shots
<1>1. status \in {"", "finished", "failed"} /\ exitCode \in {"finished", "failed"}
  BY DEF GuiInvariant, GuiTypeOK, WorkerTypes
<1>2. CASE Publish /\ UNCHANGED <<bound, stopping, optionVars, asked, mainVars>>
  BY <1>1, <1>2, Published DEF Publish
<1>3. ASSUME NEW outcome \in {"finished", "failed"}, MatchEnds(outcome),
             UNCHANGED <<bound, stopping, optionVars, asked, mainVars>>
      PROVE  GuiInvariant' /\ banner' = banner /\ shots' = shots
  <2>1. /\ worker = "running" /\ worker' \in {"holding", "closing"}
        /\ exitCode' \in {"finished", "failed"}
        /\ MarkFinished(outcome) \/ UNCHANGED <<acting, status, latest, finished>>
    BY <1>3 DEF MatchEnds
  <2>2. CASE MarkFinished(outcome)
    BY <1>3, <2>1, <2>2, Published DEF MarkFinished
  <2>3. CASE UNCHANGED <<acting, status, latest, finished>>
    BY <1>3, <2>1, <2>3, HoldKeeps
  <2> QED
    BY <2>1, <2>2, <2>3
<1>4. CASE HoldEnds /\ UNCHANGED <<bound, stopping, optionVars, asked, mainVars>>
  <2>1. exitCode \in {"finished", "failed"}
    BY DEF GuiInvariant, GuiTypeOK, WorkerTypes
  <2> QED
    BY <1>1, <1>4, <2>1, Published DEF HoldEnds, MarkFinished
<1>5. CASE WorkerStep
  <2>1. UNCHANGED <<optionVars, asked, mainVars>>
    BY <1>5 DEF WorkerStep
  <2>2. \/ BindStop \/ StopDelivered
        \/ /\ \/ StartFails \/ HoldEnds \/ GuiStops \/ WorkerReturns \/ Publish
              \/ \E outcome \in {"finished", "failed"} : MatchEnds(outcome)
           /\ UNCHANGED <<bound, stopping>>
    BY <1>5 DEF WorkerStep
  <2> QED
    BY <1>2, <1>3, <1>4, <2>1, <2>2, BindingKeeps, EndingKeeps
<1> QED
  BY <1>5, NextPhaseKeeps

(* The main thread draws what the last snapshot says, and leaves the loop   *)
(* only after drawing.                                                      *)
LEMMA DrawKeeps ==
  ASSUME GuiInvariant, main = "ticking", DrawTick,
         UNCHANGED <<optionVars, workerVars, bound, asked, closed>>
  PROVE  /\ GuiInvariant'
         /\ banner = "GAME COMPLETE" => banner' = "GAME COMPLETE"
         /\ shots' # shots => banner' = "GAME COMPLETE"
<1> USE GuiParts
<1>1. /\ UNCHANGED <<hold, turns, interop, worker, acting, exitCode, status, latest>>
      /\ UNCHANGED <<finished, bound, asked, closed, request, stopping>>
  BY DEF workerVars, optionVars, DrawTick
<1>2. WorkerTypes'
  BY <1>1 DEF WorkerTypes
<1>3. CASE latest = NoView
  <2>1. banner' = banner /\ shots' = shots /\ status = "" /\ main' \in {"joining", "ticking"}
        /\ (main' = "joining" => finished)
    BY <1>3 DEF DrawTick, GuiStands, SnapshotIsCurrent
  <2>2. MainTypes'
    BY <1>1, <2>1 DEF MainTypes
  <2>3. GuiStands'
    BY <1>1, <2>1 DEF GuiStands, SnapshotIsCurrent, LeftWithTheEnd
  <2> QED
    BY <1>2, <2>1, <2>2, <2>3 DEF GuiInvariant, GuiTypeOK, GuiStands
<1>4. CASE latest # NoView
  <2>1. latest.status = status /\ banner' = banner_for(latest)
        /\ main' \in {"joining", "ticking"} /\ (main' = "joining" => finished)
    BY <1>4 DEF DrawTick, GuiStands, SnapshotIsCurrent
  <2>2. /\ banner' \in {"YOUR TURN", "LOCKED", "GAME COMPLETE"}
        /\ banner' = "GAME COMPLETE" <=> status # ""
    BY <2>1, Zenon DEF banner_for
  <2>3. shots' = IF shots = 0 /\ status # "" THEN 1 ELSE shots
    <3>1. shots' = IF should_capture(latest) THEN shots + 1 ELSE shots
      BY <1>4 DEF DrawTick
    <3>2. should_capture(latest) <=> shots = 0 /\ status # ""
      BY <2>1 DEF should_capture
    <3>3. CASE shots = 0 /\ status # ""
      <4>1. shots' = shots + 1
        BY <3>1, <3>2, <3>3
      <4>2. 0 + 1 = 1
        OBVIOUS
      <4> QED
        BY <3>3, <4>1, <4>2, Zenon
    <3>4. CASE ~(shots = 0 /\ status # "")
      BY <3>1, <3>2, <3>4
    <3> QED
      BY <3>3, <3>4, Zenon
  <2>4. MainTypes'
    BY <1>1, <2>1, <2>2, <2>3 DEF MainTypes
  <2>5. GuiStands'
    BY <1>1, <2>1, <2>2 DEF GuiStands, SnapshotIsCurrent, LeftWithTheEnd
  <2>6. banner = "GAME COMPLETE" => status # ""
    BY DEF GuiStands
  <2> QED
    BY <1>2, <2>2, <2>3, <2>4, <2>5, <2>6 DEF GuiInvariant, GuiTypeOK, GuiStands
<1> QED
  BY <1>3, <1>4

(* Otherwise the main thread leaves the screen as it is.                    *)
LEMMA ScreenStays ==
  ASSUME GuiInvariant, UNCHANGED <<optionVars, workerVars, bound, banner, shots>>,
         asked' \in BOOLEAN, request' \in BOOLEAN, closed' \in BOOLEAN,
         stopping' \in {"no", "scheduled", "set"},
         main' = main \/ main' \in {"leaving", "rejoining", "exited"}
  PROVE  GuiInvariant' /\ banner' = banner /\ shots' = shots
<1> USE GuiParts
<1>1. UNCHANGED <<hold, turns, interop, worker, acting, exitCode, status, latest, finished>>
  BY DEF workerVars, optionVars
<1>2. WorkerTypes'
  BY <1>1 DEF WorkerTypes
<1>3. MainTypes'
  BY DEF MainTypes
<1>4. GuiStands'
  BY <1>1 DEF GuiStands, SnapshotIsCurrent, LeftWithTheEnd
<1> QED
  BY <1>2, <1>3, <1>4 DEF GuiInvariant, GuiTypeOK, GuiStands

LEMMA RequestKeeps ==
  ASSUME GuiInvariant, RequestStop
  PROVE  request' \in BOOLEAN /\ stopping' \in {"no", "scheduled", "set"}
BY DEF RequestStop, GuiInvariant, GuiTypeOK, MainTypes

LEMMA MainKeeps ==
  ASSUME GuiInvariant, MainStep \/ CloseWindow \/ Interrupt \/ Join \/ Remember
  PROVE  /\ GuiInvariant'
         /\ banner = "GAME COMPLETE" => banner' = "GAME COMPLETE"
         /\ shots' # shots => banner' = "GAME COMPLETE"
<1>1. /\ asked \in BOOLEAN /\ request \in BOOLEAN /\ closed \in BOOLEAN
      /\ stopping \in {"no", "scheduled", "set"}
  BY DEF GuiInvariant, GuiTypeOK, MainTypes
<1>2. CASE MainStep
  <2>1. main = "ticking" /\ UNCHANGED <<optionVars, workerVars, bound, asked, closed>>
    BY <1>2 DEF MainStep
  <2>2. CASE DrawTick
    BY <2>1, <2>2, DrawKeeps
  <2>3. CASE LeaveLoop
    BY <1>1, <2>1, <2>3, RequestKeeps, ScreenStays DEF LeaveLoop
  <2> QED
    BY <1>2, <2>2, <2>3 DEF MainStep
<1>3. CASE CloseWindow
  BY <1>1, <1>3, ScreenStays DEF CloseWindow
<1>4. CASE Interrupt
  <2>1. RequestStop /\ main' \in {"leaving", "rejoining"}
        /\ UNCHANGED <<optionVars, workerVars, bound, asked, closed, banner, shots>>
    BY <1>4 DEF Interrupt, LeaveLoop
  <2> QED
    BY <1>1, <2>1, RequestKeeps, ScreenStays
<1>5. CASE Join
  BY <1>1, <1>5, ScreenStays DEF Join
<1>6. CASE Remember
  BY <1>1, <1>6, ScreenStays DEF Remember
<1> QED
  BY <1>2, <1>3, <1>4, <1>5, <1>6

LEMMA GuiKeepsInvariant ==
  ASSUME GuiInvariant, [GuiNext]_guiVars
  PROVE  /\ GuiInvariant'
         /\ [banner = "GAME COMPLETE" => banner' = "GAME COMPLETE"]_guiVars
         /\ [shots' # shots => banner' = "GAME COMPLETE"]_guiVars
<1>1. CASE UNCHANGED guiVars
  <2>1. UNCHANGED <<optionVars, workerVars, bound, banner, shots, asked, request, closed, stopping, main>>
    BY <1>1 DEF guiVars, workerVars, mainVars
  <2>2. /\ asked \in BOOLEAN /\ request \in BOOLEAN /\ closed \in BOOLEAN
        /\ stopping \in {"no", "scheduled", "set"}
    BY DEF GuiInvariant, GuiTypeOK, MainTypes
  <2>3. GuiInvariant'
    BY <2>1, <2>2, ScreenStays
  <2> QED
    BY <1>1, <2>3
<1> QED
  BY <1>1, WorkerKeeps, MainKeeps DEF GuiNext

(* A snapshot carries the status of the match, the slot is ended after the  *)
(* last one, and every variable keeps its type.                             *)
THEOREM GuiSafe == GuiSpec => []GuiInvariant
<1>1. GuiInit => GuiInvariant
  BY GuiBegins
<1>2. GuiInvariant /\ [GuiNext]_guiVars => GuiInvariant'
  BY GuiKeepsInvariant
<1> QED
  BY <1>1, <1>2, PTL DEF GuiSpec

(* The end of a match, once on the screen, stays there and is what a        *)
(* screenshot shows; and a window nobody closed is left with it drawn,      *)
(* whichever thread is how far.                                             *)
THEOREM EndStaysOnScreen == GuiSpec => BannerStays /\ ScreenshotShowsTheEnd /\ []LeftWithTheEnd
<1>1. GuiInvariant => LeftWithTheEnd
  BY DEF GuiInvariant
<1>2. GuiInvariant /\ [GuiNext]_guiVars =>
        [banner = "GAME COMPLETE" => banner' = "GAME COMPLETE"]_guiVars
  BY GuiKeepsInvariant
<1>3. GuiInvariant /\ [GuiNext]_guiVars => [shots' # shots => banner' = "GAME COMPLETE"]_guiVars
  BY GuiKeepsInvariant
<1> QED
  BY <1>1, <1>2, <1>3, GuiSafe, PTL DEF GuiSpec, BannerStays, ScreenshotShowsTheEnd

-----------------------------------------------------------------------------
(* The components side by side, as MCServices runs them. *)

(* A step is a step of each part, or leaves it alone. *)
LEMMA PartsStep ==
  ASSUME [ServicesNext]_servicesVars
  PROVE  /\ part' = part
         /\ [ChannelNext]_channelVars /\ [InboxNext]_inboxVars /\ [GuiNext]_guiVars
         /\ [AuditNext]_auditVars /\ [SeriesNext]_seriesVars /\ [LearnNext]_learnVars
         /\ [ConfigNext]_configVars /\ [TrackNext]_trackVars /\ [IntakeNext]_intakeVars
BY DEF ServicesNext, servicesVars

LEMMA PartsRun ==
  ServicesSpec =>
    /\ ChannelSpec /\ InboxSpec /\ GuiSpec /\ AuditSpec /\ SeriesSpec
    /\ LearnSpec /\ ConfigSpec /\ TrackSpec /\ IntakeSpec
<1>1. ServicesInit =>
        /\ ChannelInit /\ InboxInit /\ GuiInit /\ AuditInit /\ SeriesInit
        /\ LearnInit /\ ConfigInit /\ TrackInit /\ IntakeInit
  BY DEF ServicesInit
<1>2. [ServicesNext]_servicesVars =>
        /\ [ChannelNext]_channelVars /\ [InboxNext]_inboxVars /\ [GuiNext]_guiVars
        /\ [AuditNext]_auditVars /\ [SeriesNext]_seriesVars /\ [LearnNext]_learnVars
        /\ [ConfigNext]_configVars /\ [TrackNext]_trackVars /\ [IntakeNext]_intakeVars
  BY PartsStep
<1> QED
  BY <1>1, <1>2, PTL
  DEF ServicesSpec, ChannelSpec, InboxSpec, GuiSpec, AuditSpec, SeriesSpec, LearnSpec,
      ConfigSpec, TrackSpec, IntakeSpec

(* In every state of the nine components the type invariants of all hold,   *)
(* and the inductive invariant of the one that runs: what the other         *)
(* theorems show of each by itself.                                         *)
THEOREM ServicesSafe == ServicesSpec => []ServicesInvariant
<1>1. ServicesInit => part \in Parts
  BY DEF ServicesInit
<1>2. part \in Parts /\ [ServicesNext]_servicesVars => (part \in Parts)'
  BY PartsStep DEF Parts
<1>3. InboxInvariant => InboxTypeOK
  BY InboxTyped
<1>4. /\ GuiInvariant => GuiTypeOK
      /\ ChannelInvariant => ChannelTypeOK
      /\ SeriesInvariant => SeriesTypeOK
      /\ LearnInvariant => LearnTypeOK
      /\ TrackInvariant => TrackTypeOK
  BY DEF GuiInvariant, ChannelInvariant, SeriesInvariant, LearnInvariant, TrackInvariant
<1> DEFINE Each == /\ ChannelInvariant /\ InboxInvariant /\ GuiInvariant /\ AuditInvariant
                   /\ SeriesInvariant /\ LearnInvariant /\ DraftsContinue /\ ConfigInvariant
                   /\ FilesAreJson /\ TrackInvariant /\ IntakeInvariant
                   /\ ConfigTypeOK /\ AuditTypeOK /\ IntakeTypeOK
<1>5. Each /\ part \in Parts => ServicesInvariant
  BY <1>3, <1>4, Zenon DEF ServicesInvariant, ServicesTypeOK, Parts
<1>6. ServicesSpec => []Each
  BY PartsRun, ChannelSafe, InboxSafe, GuiSafe, AuditSafe, SeriesSafe, LearnSafe, DraftsSafe,
     ConfigSafe, ConfigTyped, AuditTyped, TrackSafe, IntakeSafe, IntakeStaysInType, PTL
<1>7. ServicesSpec => [](part \in Parts)
  BY <1>1, <1>2, PTL DEF ServicesSpec
<1> QED
  BY <1>5, <1>6, <1>7, PTL
=============================================================================
