------------------------------- MODULE Config -------------------------------
(***************************************************************************)
(* The two configuration files of a peer, from the editor to the handshake *)
(* (police_thief.config): the shared constitution game.json, which both    *)
(* must hold alike, and the private TOML; validation in layers, the digest *)
(* that is exchanged, the verification CLI, and owners who go on editing.  *)
(*                                                                         *)
(* A value is <<type, payload>>; a float counts hundredths.                *)
(***************************************************************************)
EXTENDS Integers, FiniteSets, Sequences

CONSTANTS
  SharedEdits,   \* the <<key, value>> changes owners make to game.json
  PrivateEdits,  \* the <<key, value>> changes owners make to their TOML
  MaxChanges     \* how many changes they make in all (bound)

Owner == {"police", "thief"}
Other(p) == IF p = "police" THEN "thief" ELSE "police"

Num(n) == <<"int", n>>
Hundredths(n) == <<"float", n>>
Str(s) == <<"str", s>>
List(values) == <<"list", values>>
Pair(row, col) == List(<<Num(row), Num(col)>>)
Bool(b) == <<"bool", b>>
NaN == <<"nan", 0>>
Absent == <<"absent", 0>>

(* The payload of a number is one; a list is a sequence of values. *)
IsJson(v) ==
  /\ v[1] = "int" => v[2] \in Int
  /\ v[1] = "list" =>
       /\ DOMAIN v[2] = 1 .. Len(v[2])
       /\ \A i \in DOMAIN v[2] : v[2][i][1] = "int" => v[2][i][2] \in Int
ASSUME SharedEditsAssumption == \A e \in SharedEdits : IsJson(e[2])
ASSUME ChangesAssumption == MaxChanges \in Nat

(* Values by name, those of `above' before those of `below'. *)
Overlaid(above, below) ==
  [k \in DOMAIN above \cup DOMAIN below |-> IF k \in DOMAIN above THEN above[k] ELSE below[k]]
WithEdit(values, e) == Overlaid([k \in {e[1]} |-> e[2]], values)

-----------------------------------------------------------------------------
(* policy.py: Appendix F as data, one table each. *)

Fixed(value) == [status |-> "fixed", binding |-> value]
Minimum(value) == [status |-> "minimum", binding |-> value]
Negotiable(value) == [status |-> "negotiable", binding |-> value]

BoardPolicies ==
  [grid_size |-> Minimum(Num(7)), num_agents |-> Fixed(Num(2)),
   axis_origin_corner |-> Negotiable(Str("top-left")),
   axis_start_index |-> Negotiable(Num(0)),
   thief_start |-> Negotiable(Pair(3, 3)), cop_start |-> Negotiable(Pair(0, 0))]
WorldPolicies ==
  [map_area |-> Negotiable(Str("New York")), hint_max_words |-> Negotiable(Num(15))]
MovementPolicies ==
  [move_set |-> Fixed(List(<<Str("N"), Str("S"), Str("E"), Str("W"), Str("STAY")>>)),
   max_barriers |-> Minimum(Num(14)), max_moves |-> Minimum(Num(35)),
   survival_threshold |-> Minimum(Num(35))]
PheromonePolicies ==
  [pheromone_center_intensity |-> Fixed(Hundredths(90)),
   pheromone_decay |-> Fixed(Hundredths(10)), pheromone_grid_size |-> Fixed(Num(5))]
ScoringPolicies ==
  [capture_cop |-> Fixed(Num(20)), capture_thief |-> Fixed(Num(5)),
   survival_cop |-> Fixed(Num(5)), survival_thief |-> Fixed(Num(10)),
   tie_score |-> Fixed(Num(2))]
LeaguePolicies ==
  [num_games |-> Fixed(Num(6)), diversity_reward |-> Fixed(Num(10)),
   min_games_to_pass |-> Fixed(Num(2)), max_games_per_team |-> Fixed(Num(10)),
   token_budget_per_series |-> Negotiable(Num(200000))]
LimiterPolicies ==
  [requests_per_minute |-> Minimum(Num(30)), concurrent_requests |-> Minimum(Num(2)),
   retry_backoff_sec |-> Minimum(Num(5)), max_retries |-> Minimum(Num(3)),
   queue_depth |-> Minimum(Num(100)), response_timeout_sec |-> Negotiable(Num(30)),
   watchdog_timeout_sec |-> Negotiable(Num(60))]

PARAMETER_POLICIES ==
  Overlaid(BoardPolicies, Overlaid(WorldPolicies, Overlaid(MovementPolicies,
  Overlaid(PheromonePolicies, Overlaid(ScoringPolicies,
  Overlaid(LeaguePolicies, LimiterPolicies))))))
Parameters == DOMAIN PARAMETER_POLICIES

(* game.json as it is shipped: the binding values and three fields that     *)
(* Appendix F does not tabulate.                                            *)
Shipped ==
  Overlaid([k \in Parameters |-> PARAMETER_POLICIES[k].binding],
           [schema_version |-> Str("1.2"), technical_loss |-> Num(0),
            agreed_between |-> List(<<Str("group-a"), Str("group-b")>>)])

(* What the text of a file can be besides a document with all sections. *)
Unreadable == {"no_file", "not_json", "not_an_object", "duplicate_key"}
Malformed == {"unknown_field", "section_not_an_object"}
Form == {"document"} \cup Unreadable \cup Malformed

(* A file: what was changed in it, and a layout (key order, whitespace)     *)
(* that means nothing.                                                      *)
ShippedFile == [form |-> "document", layout |-> "shipped", edits |-> << >>]
Document(f) == Overlaid(f.edits, Shipped)

-----------------------------------------------------------------------------
(* validation.py: a closed schema, then Appendix F, then cross-field rules; *)
(* a layer may rely on the ones before it.                                  *)

HasType(v, type) ==
  \/ v[1] = type
  \/ type = "float" /\ v[1] \in {"int", "nan"}

SchemaFault(f) ==
  \/ f.form \in Malformed
  \/ \E k \in DOMAIN Shipped : ~HasType(Document(f)[k], Shipped[k][1])

AsFloat(v) == IF v[1] = "int" THEN 100 * v[2] ELSE v[2]
ValuesEqual(v, binding) ==
  IF binding[1] = "float" THEN v[1] # "nan" /\ AsFloat(v) = binding[2]
  ELSE v = binding

Corners == {"top-left", "top-right", "bottom-left", "bottom-right"}
IsCoord(v) == Len(v[2]) = 2 /\ \A i \in DOMAIN v[2] : v[2][i][1] = "int"
InDomain(k, v) ==
  /\ k = "axis_origin_corner" => v[2] \in Corners
  /\ k \in {"thief_start", "cop_start"} => IsCoord(v)
  /\ k \in {"hint_max_words", "response_timeout_sec", "watchdog_timeout_sec"}
       => v[2] >= 1
  /\ k = "token_budget_per_series" => v[2] >= 0

Allowed(k, v) ==
  LET policy == PARAMETER_POLICIES[k]
  IN  /\ policy.status = "fixed" => ValuesEqual(v, policy.binding)
      /\ policy.status = "minimum" => v[2] >= policy.binding[2]
      /\ policy.status = "negotiable" => InDomain(k, v)

PolicyFault(doc) == \E k \in Parameters : ~Allowed(k, doc[k])

OnBoard_LastEdge(doc, start) ==
  LET low == doc.axis_start_index[2]
  IN  \A i \in {1, 2} : low <= start[2][i][2] /\ start[2][i][2] <= low + doc.grid_size[2]
OnBoard(doc, start) ==
  LET low == doc.axis_start_index[2]
  IN  \A i \in {1, 2} : low <= start[2][i][2] /\ start[2][i][2] < low + doc.grid_size[2]

CrossFieldFault(doc) ==
  \/ ~OnBoard(doc, doc.thief_start) \/ ~OnBoard(doc, doc.cop_start)
  \/ doc.thief_start = doc.cop_start
  \/ doc.num_agents[2] # 2
  \/ doc.survival_threshold[2] > doc.max_moves[2]
  \/ doc.max_barriers[2] > doc.grid_size[2] * doc.grid_size[2] - 2
  \/ doc.pheromone_grid_size[2] > doc.grid_size[2]
  \/ AsFloat(doc.pheromone_center_intensity) \notin 1..100
  \/ AsFloat(doc.pheromone_decay) \notin 1..100
  \/ doc.response_timeout_sec[2] >= doc.watchdog_timeout_sec[2]
  \/ doc.min_games_to_pass[2] > doc.max_games_per_team[2]

(* load_shared_config: the layer that raises, if one does. *)
LoadFault(f) ==
  IF f.form \in Unreadable THEN "unreadable"
  ELSE IF SchemaFault(f) THEN "schema"
  ELSE IF PolicyFault(Document(f)) THEN "policy"
  ELSE IF CrossFieldFault(Document(f)) THEN "cross_field" ELSE "none"

(* build_shared_config: the frozen typed values the program runs on. *)
SharedConfig(f) ==
  [k \in DOMAIN Shipped |->
     IF Shipped[k][1] = "float" THEN Hundredths(AsFloat(Document(f)[k]))
     ELSE Document(f)[k]]

(* canonical_json_bytes rejects NaN, which json.loads lets in where only    *)
(* "a list" is asked for.  Two digests are equal when the documents are.    *)
Hashable(f) ==
  \A i \in DOMAIN Document(f).agreed_between[2] :
    Document(f).agreed_between[2][i] # NaN
Digest(f) == Document(f)

-----------------------------------------------------------------------------
(* The private TOML: a group id is its length and whether it has a space,   *)
(* a URL its scheme.                                                        *)

Ports == 1 .. 65535
GroupId(length, spaces) == Str(<<length, spaces>>)
ShippedPrivate(p) ==
  [group_name |-> Str("team"), group_id |-> GroupId(8, FALSE),
   members |-> List(<<Str("id-0000"), Str("id-0001")>>), role |-> Str(p),
   port |-> Num(8801), opponent_url |-> Str("http"), provider |-> Str("template"),
   mode |-> Str("send")]
Private(p, edits) == Overlaid(edits, ShippedPrivate(p))

ShadowsShared(edits) == DOMAIN edits \cap Parameters # {}

(* build_private_config, which fills in a missing port with 0, a missing    *)
(* provider or mode with the shipped one.                                   *)
PrivateAccepted(p, edits) ==
  LET private == Private(p, edits)
  IN  /\ ~ShadowsShared(edits)
      /\ DOMAIN private = DOMAIN ShippedPrivate(p)
      /\ \A k \in {"group_name", "group_id", "members", "role", "opponent_url"} :
           private[k] # Absent
      /\ private.group_id = GroupId(8, FALSE)
      /\ private.role \in {Str("police"), Str("thief")}
      /\ private.port[1] = "int" /\ private.port[2] \in Ports
      /\ private.opponent_url \in {Str("http"), Str("https")}
      /\ private.provider \in {Absent} \cup {Str(s) : s \in
           {"template", "ollama", "claude_api", "claude_cli"}}
      /\ private.mode \in {Absent, Str("send"), Str("draft")}
RoleOf(p, edits) == Private(p, edits).role[2]

-----------------------------------------------------------------------------
VARIABLES
  file,     \* game.json of each owner, on disk
  toml,     \* the changes in each owner's private TOML
  process,  \* the peer process: down, failed, crashed, up, refused
  loaded,   \* the shared file as the running process read it
  role,     \* the role it read from its TOML
  accepted, \* did it accept the opponent's digest
  cleared,  \* the verification CLI passed these files and nothing changed since
  changes   \* changes made so far

configVars == <<file, toml, process, loaded, role, accepted, cleared, changes>>

ConfigTypeOK ==
  /\ \A p \in Owner : \A f \in {file[p], loaded[p]} :
       /\ f.form \in Form
       /\ DOMAIN f.edits \subseteq {e[1] : e \in SharedEdits}
  /\ process \in [Owner -> {"down", "failed", "crashed", "up", "refused"}]
  /\ role \in [Owner -> Owner]
  /\ accepted \in [Owner -> BOOLEAN]
  /\ cleared \in [Owner -> BOOLEAN]
  /\ changes \in 0..MaxChanges

ConfigInit ==
  /\ file = [p \in Owner |-> ShippedFile]
  /\ toml = [p \in Owner |-> << >>]
  /\ process = [p \in Owner |-> "down"]
  /\ loaded = [p \in Owner |-> ShippedFile]
  /\ role = [p \in Owner |-> p]
  /\ accepted = [p \in Owner |-> FALSE]
  /\ cleared = [p \in Owner |-> FALSE]
  /\ changes = 0

-----------------------------------------------------------------------------
(* Owners change their files at any time, also under a running process.  A  *)
(* change spends what the verification CLI said, of both owners.            *)
Changed == changes < MaxChanges /\ changes' = changes + 1
Uncleared == cleared' = [p \in Owner |-> FALSE]
Untouched == UNCHANGED <<process, loaded, role, accepted>>

EditShared(p) ==
  /\ Changed /\ Uncleared /\ Untouched /\ UNCHANGED toml
  /\ \/ \E e \in SharedEdits : file' = [file EXCEPT ![p].edits = WithEdit(@, e)]
     \/ file' = [file EXCEPT ![p].layout = "reordered"]
     \/ \E form \in Form : file' = [file EXCEPT ![p].form = form]

EditPrivate(p) ==
  /\ Changed /\ Uncleared /\ Untouched /\ UNCHANGED file
  /\ \E e \in PrivateEdits : toml' = [toml EXCEPT ![p] = WithEdit(@, e)]

(* The constitution is agreed on by sending the file over. *)
TakeOpponentsFile(p) ==
  /\ file[p] # file[Other(p)]
  /\ file' = [file EXCEPT ![p] = file[Other(p)]]
  /\ Uncleared /\ Untouched /\ UNCHANGED <<toml, changes>>

(* verify.main with --private, --expect-role and --expect-hash, the digest  *)
(* the opponent read off its own file: exit 0 or not.                       *)
VerifyPasses(p) ==
  /\ \A q \in Owner : LoadFault(file[q]) = "none" /\ Hashable(file[q])
  /\ Digest(file[p]) = Digest(file[Other(p)])
  /\ PrivateAccepted(p, toml[p]) /\ RoleOf(p, toml[p]) = p
Verify(p) ==
  /\ cleared' = [cleared EXCEPT ![p] = VerifyPasses(p)]
  /\ UNCHANGED <<file, toml, process, loaded, role, accepted, changes>>

(* run_peer loads both files; the orchestrator takes the digest of the raw  *)
(* document once, outside the handler of configuration errors.              *)
Begin(p, outcome) ==
  /\ process[p] # "up"
  /\ process' = [process EXCEPT ![p] = outcome]
Start(p) ==
  /\ Begin(p, "up")
  /\ LoadFault(file[p]) = "none" /\ PrivateAccepted(p, toml[p])
  /\ Hashable(file[p])
  /\ loaded' = [loaded EXCEPT ![p] = file[p]]
  /\ role' = [role EXCEPT ![p] = RoleOf(p, toml[p])]
  /\ UNCHANGED <<file, toml, accepted, cleared, changes>>
FailToStart(p) ==
  /\ Begin(p, "failed")
  /\ LoadFault(file[p]) # "none" \/ ~PrivateAccepted(p, toml[p])
  /\ UNCHANGED <<file, toml, loaded, role, accepted, cleared, changes>>
StartCrashes(p) ==
  /\ Begin(p, "crashed")
  /\ LoadFault(file[p]) = "none" /\ PrivateAccepted(p, toml[p])
  /\ ~Hashable(file[p])
  /\ UNCHANGED <<file, toml, loaded, role, accepted, cleared, changes>>

(* HELLO is refused by a peer of one's own role, CONFIG_HASH by a peer with *)
(* another digest.  What counts is what each process has loaded.            *)
Agrees_FileOnDisk(p) ==
  /\ role[p] # role[Other(p)]
  /\ Digest(file[p]) = Digest(loaded[Other(p)])
Agrees(p) ==
  /\ role[p] # role[Other(p)]
  /\ Digest(loaded[p]) = Digest(loaded[Other(p)])

Leave(p, outcome) ==
  /\ process' = [process EXCEPT ![p] = outcome]
  /\ loaded' = [loaded EXCEPT ![p] = ShippedFile]
  /\ role' = [role EXCEPT ![p] = p]
  /\ accepted' = [accepted EXCEPT ![p] = FALSE]
  /\ UNCHANGED <<file, toml, cleared, changes>>

BothUp == \A p \in Owner : process[p] = "up"
Accept(p) ==
  /\ BothUp /\ ~accepted[p] /\ Agrees(p)
  /\ accepted' = [accepted EXCEPT ![p] = TRUE]
  /\ UNCHANGED <<file, toml, process, loaded, role, cleared, changes>>
RefuseGame(p) ==
  /\ BothUp /\ ~accepted[p] /\ ~Agrees(p)
  /\ Leave(p, "refused")
Stop(p) ==
  /\ process[p] = "up"
  /\ Leave(p, "down")

ConfigStep(p) ==
  \/ EditShared(p) \/ EditPrivate(p) \/ TakeOpponentsFile(p) \/ Verify(p)
  \/ Start(p) \/ FailToStart(p) \/ StartCrashes(p)
  \/ Accept(p) \/ RefuseGame(p) \/ Stop(p)

ConfigNext == \E p \in Owner : ConfigStep(p)

-----------------------------------------------------------------------------
(* SharedConfig.in_bounds, the board's own idea of its cells. *)
in_bounds(config, cell) ==
  \A i \in {1, 2} : cell[2][i][2] - config.axis_start_index[2] \in 0..config.grid_size[2] - 1

(* What a process plays with is a game: both agents start on the board and  *)
(* apart, the thief can survive before the move ceiling, the quota of       *)
(* barriers fits, no minimum of Appendix F is undercut and a request can    *)
(* time out before the watchdog calls the process frozen.                   *)
Playable(config) ==
  /\ in_bounds(config, config.cop_start) /\ in_bounds(config, config.thief_start)
  /\ config.cop_start # config.thief_start
  /\ config.survival_threshold[2] \in 1..config.max_moves[2]
  /\ config.max_barriers[2] + 2 <= config.grid_size[2] * config.grid_size[2]
  /\ \A k \in Parameters : LET policy == PARAMETER_POLICIES[k]
                           IN  policy.status = "minimum" => config[k][2] >= policy.binding[2]
  /\ config.response_timeout_sec[2] < config.watchdog_timeout_sec[2]
AcceptedIsPlayable ==
  \A p \in Owner : process[p] = "up" => Playable(SharedConfig(loaded[p]))

(* Two processes that accepted each other run the same physics in opposite  *)
(* roles, whatever was edited, copied, reordered or restarted on the way;   *)
(* nobody refuses an opponent that holds the same document; and files the   *)
(* verification CLI passed, and nobody changed since, start and are not     *)
(* refused by an owner that runs such files too.                            *)
SamePhysics ==
  accepted["police"] /\ accepted["thief"] =>
    /\ SharedConfig(loaded["police"]) = SharedConfig(loaded["thief"])
    /\ role["police"] # role["thief"]
RefusedForAReason ==
  \A p \in Owner :
    /\ process[p] = "up" /\ process'[p] = "refused" =>
         /\ \/ Document(loaded[p]) # Document(loaded[Other(p)])
            \/ role[p] = role[Other(p)]
         /\ \E q \in Owner : \/ ~cleared[q] \/ loaded[q] # file[q]
                              \/ role[q] # RoleOf(q, toml[q])
    /\ cleared[p] /\ process'[p] \in {"failed", "crashed"} => process'[p] = process[p]
AgreedPhysics == []SamePhysics /\ [][RefusedForAReason]_configVars
=============================================================================
