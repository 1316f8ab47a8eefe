------------------------------- MODULE Intake -------------------------------
(***************************************************************************)
(* What one peer does with every request that reaches its server:          *)
(* validation of the envelope (protocol.messages), identity, the bounded   *)
(* registry of answered ids (peer.registry), the buffer of messages that   *)
(* are one turn early (peer.pending) and the turn they end up in.  The     *)
(* network repeats and reorders; the opponent may also be a turn ahead,    *)
(* commit to a turn twice, under one id or two, or reveal before its time. *)
(***************************************************************************)
EXTENDS Integers, Sequences, FiniteSets

Lists == INSTANCE SequencesExt

CONSTANTS
  IntakeTurns,   \* turns this peer plays (bound)
  RegistryDepth, \* queue_depth: ids remembered, and messages held
  Offers         \* commitments the opponent sends: <<turn, which id, commitment>>

NoCommit == "none"
Said == {o[3] : o \in Offers}

ASSUME IntakeAssumption ==
  /\ IntakeTurns \in Nat /\ RegistryDepth \in Nat \ {0}
  /\ Offers \subseteq (1..IntakeTurns + 1) \X Nat \X Said
  /\ NoCommit \notin Said /\ "stray" \notin Said

VARIABLES
  registry, \* MessageRegistry: entries in the order they were recorded
  held,     \* PendingTurnBuffer: messages that were a turn early
  current,  \* CommitRevealCoordinator.current: number (0: None), own seal, and
            \* what the opponent committed and revealed
  archived, \* completed_turns: the opponent's commitment of each
  failed,   \* play_turn raised: no turn is begun any more
  answer,   \* the message last answered, and how (history)
  since,    \* what was recorded after each message, up to the depth (history)
  locked    \* <<turn, commitment>> of every COMMIT_ACK given (history)

intakeVars == <<registry, held, current, archived, failed, answer, since, locked>>

NoTurn == [number |-> 0, sealed |-> FALSE, commit |-> NoCommit, revealed |-> FALSE]
NoAnswer == [to |-> [id |-> <<>>, payload |-> <<>>], how |-> ""]

IntakeInit ==
  /\ registry = <<>>
  /\ held = {}
  /\ current = NoTurn
  /\ archived = <<>>
  /\ failed = FALSE
  /\ answer = NoAnswer
  /\ since = <<>>
  /\ locked = {}

-----------------------------------------------------------------------------
(* Envelopes.  A payload is its fields with their JSON types, and what it   *)
(* says.  Every field of every schema is required and no other is allowed.  *)
(* These are the types a peer sends as requests; the others are replies, or *)
(* are never sent.                                                          *)

PayloadSchema ==
  [health_check |-> {}, ready |-> {},
   hello |-> {<<"peer_name", "str">>, <<"software_version", "str">>,
              <<"capabilities", "list">>},
   config_hash |-> {<<"config_sha256", "str">>, <<"config_schema_version", "str">>},
   commit |-> {<<"commitment", "str">>, <<"commitment_schema", "str">>},
   reveal |-> {<<"sealed", "dict">>},
   final_reveal |-> {<<"records", "list">>},
   capture_claim |-> {<<"claim_id", "str">>, <<"sub_game", "int">>,
                      <<"claim_kind", "str">>, <<"commitment", "str">>}]

EnvelopeKeys ==
  {"schema_version", "protocol_version", "message_id", "game_id", "sender_role",
   "receiver_role", "message_type", "turn_number", "timestamp", "payload"}
TurnBearing == {"commit", "reveal", "capture_claim"}

(* envelope_from_wire: a version is <<major, minor>>, null is <<>>. *)
WellFormed(m) ==
  /\ DOMAIN m = EnvelopeKeys
  /\ m.schema_version = <<1, 0>>
  /\ m.protocol_version[1] = 1
  /\ m.message_type \in DOMAIN PayloadSchema
  /\ {m.sender_role, m.receiver_role} \subseteq {"police", "thief"}
  /\ m.message_id # <<>> /\ m.game_id # "" /\ m.timestamp # ""
  /\ m.turn_number # <<>> => m.turn_number[1] >= 0
  /\ m.message_type \in TurnBearing => m.turn_number # <<>>
  /\ m.payload.fields = PayloadSchema[m.message_type]

(* This peer is the police of game "g". *)
IdentityHolds(m) ==
  m.game_id = "g" /\ m.sender_role = "thief" /\ m.receiver_role = "police"

(* new_envelope, as the opponent fills it in. *)
Envelope(id, kind, number, says) ==
  [schema_version |-> <<1, 0>>, protocol_version |-> <<1, 0>>, message_id |-> id,
   game_id |-> "g", sender_role |-> "thief", receiver_role |-> "police",
   message_type |-> kind, turn_number |-> number, timestamp |-> "now",
   payload |-> [fields |-> PayloadSchema[kind], says |-> says]]

(* What reaches the server: the opponent's messages, commitments of one turn *)
(* more than are played among them, and commitments not meant for this peer, *)
(* this game or this version of the protocol.                               *)
Commits == {Envelope(<<"commit", o[1], o[2]>>, "commit", <<o[1]>>, o[3]) : o \in Offers}
Reveals == {Envelope(<<"reveal", n>>, "reveal", <<n>>, "move") : n \in 1..IntakeTurns}
Ping == Envelope(<<"ping", 0>>, "health_check", <<>>, "")
Strays ==
  LET c == Envelope(<<"stray", 0>>, "commit", <<1>>, "stray")
  IN  {[c EXCEPT !.game_id = "another game"], [c EXCEPT !.sender_role = "police"],
       [c EXCEPT !.receiver_role = "thief"], [c EXCEPT !.schema_version = <<2, 0>>],
       [c EXCEPT !.protocol_version = <<2, 0>>], [c EXCEPT !.turn_number = <<>>],
       [c EXCEPT !.payload.fields = @ \cup {<<"move", "str">>}],
       [k \in EnvelopeKeys \ {"timestamp"} |-> c[k]]}
Messages == Commits \cup Reveals \cup {Ping} \cup Strays

-----------------------------------------------------------------------------
(* registry.py *)

EntryOf(m) == [id |-> m.message_id, payload |-> m.payload]
Entry(m) == {e \in Lists!Range(registry) : e.id = m.message_id}
IsRepeat(m) == \E e \in Entry(m) : e.payload = m.payload
IsConflict(m) == \E e \in Entry(m) : e.payload # m.payload

Recorded_EvictsNewest(m) ==
  IF Len(registry) < RegistryDepth THEN Append(registry, EntryOf(m)) ELSE registry
Recorded(m) ==
  LET grown == Append(registry, EntryOf(m))
  IN  IF Len(grown) > RegistryDepth THEN Tail(grown) ELSE grown

(* pending.py *)

Number(m) == m.turn_number[1]
Held(m) == {h \in held : h.message_id = m.message_id}

IntakeExpected == IF current.number # 0 THEN current.number ELSE Len(archived) + 1
IsEarly(m) ==
  m.message_type \in {"commit", "reveal"} /\ Number(m) > IntakeExpected

(* An exact retry of a held message is acknowledged again. *)
HoldAccepted(m) ==
  /\ Number(m) = IntakeExpected + 1
  /\ IF Held(m) # {} THEN \A h \in Held(m) : h.payload = m.payload
     ELSE Cardinality(held) < RegistryDepth
HeldAfter(m) == IF Held(m) # {} THEN held ELSE held \cup {m}

(* coordinator.py: a commitment opens its turn, and is kept once given. *)
Opens(n) == n > Len(archived) /\ current.number \in {0, n}
CommitTaken(t, m) ==
  [t EXCEPT !.number = Number(m), !.commit = m.payload.says]
CommitAcceptable(m) ==
  Opens(Number(m)) /\ current.commit \in {NoCommit, m.payload.says}
RevealAcceptable(m) ==
  current.number = Number(m) /\ current.sealed /\ current.commit # NoCommit

Acceptable(m) ==
  CASE IsEarly(m) -> HoldAccepted(m)
    [] ~IsEarly(m) /\ m.message_type = "commit" -> CommitAcceptable(m)
    [] ~IsEarly(m) /\ m.message_type = "reveal" -> RevealAcceptable(m)
    [] OTHER -> TRUE

-----------------------------------------------------------------------------
Reply(m, how) == answer' = [to |-> EntryOf(m), how |-> how]

(* _dispatch turns every exception into an ok: false reply. *)
RefuseMessage(m) ==
  /\ \/ ~WellFormed(m)
     \/ WellFormed(m) /\ ~IdentityHolds(m)
     \/ WellFormed(m) /\ IdentityHolds(m) /\ IsConflict(m)
     \/ WellFormed(m) /\ IdentityHolds(m) /\ Entry(m) = {} /\ ~Acceptable(m)
  /\ Reply(m, "refused")
  /\ UNCHANGED <<registry, held, current, archived, failed, since, locked>>

AnswerAgain(m) ==
  /\ WellFormed(m)
  /\ IdentityHolds(m)
  /\ IsRepeat(m)
  /\ Reply(m, "repeated")
  /\ UNCHANGED <<registry, held, current, archived, failed, since, locked>>

Act(m) ==
  /\ WellFormed(m)
  /\ IdentityHolds(m)
  /\ Entry(m) = {}
  /\ Acceptable(m)
  /\ held' = IF IsEarly(m) THEN HeldAfter(m) ELSE held
  /\ current' = CASE ~IsEarly(m) /\ m.message_type = "commit" -> CommitTaken(current, m)
                 [] ~IsEarly(m) /\ m.message_type = "reveal" ->
                      [current EXCEPT !.revealed = TRUE]
                 [] OTHER -> current
  /\ registry' = Recorded(m)
  /\ Reply(m, "acted")
  /\ since' = [e \in DOMAIN since \cup {EntryOf(m)} |->
                 IF e = EntryOf(m) THEN 0
                 ELSE IF since[e] < RegistryDepth THEN since[e] + 1 ELSE since[e]]
  /\ locked' = IF m.message_type = "commit"
               THEN locked \cup {<<Number(m), m.payload.says>>} ELSE locked
  /\ UNCHANGED <<archived, failed>>

Arrive(m) == RefuseMessage(m) \/ AnswerAgain(m) \/ Act(m)

(* play_turn up to its commitment: begin, drain what was held, seal.  The    *)
(* drain records the held commitments one by one; one that differs from the *)
(* first, or a reveal, which has no commitment of this peer to answer yet,   *)
(* raises out of play_turn, and the match is given up.                      *)
NextTurn == Len(archived) + 1
Due == {h \in held : Number(h) = NextTurn}
Committed(messages) ==
  {h.payload.says : h \in {h \in messages : h.message_type = "commit"}}
DueCommitments == Committed(Due) \cup ({current.commit} \ {NoCommit})

CanBegin ==
  /\ ~failed
  /\ NextTurn <= IntakeTurns
  /\ current.number \in {0, NextTurn} /\ ~current.sealed
Drains ==
  /\ \A h \in Due : h.message_type = "commit"
  /\ \A x, y \in DueCommitments : x = y

BeginAndDrain ==
  /\ CanBegin
  /\ Drains
  /\ current' = [number |-> NextTurn, sealed |-> TRUE, revealed |-> FALSE,
                 commit |-> IF DueCommitments = {} THEN NoCommit
                            ELSE CHOOSE c \in DueCommitments : TRUE]
  /\ held' = held \ Due
  /\ answer' = NoAnswer
  /\ UNCHANGED <<registry, archived, failed, since, locked>>

(* Which of two held commitments came first is left open. *)
DrainFails ==
  /\ CanBegin
  /\ ~Drains
  /\ IF DueCommitments = {} THEN UNCHANGED current
     ELSE \E c \in DueCommitments :
            /\ current.commit \in {NoCommit, c}
            /\ current' = [current EXCEPT !.number = NextTurn, !.commit = c]
  /\ held' = held \ Due
  /\ failed' = TRUE
  /\ answer' = NoAnswer
  /\ UNCHANGED <<registry, archived, since, locked>>

CompleteTurn ==
  /\ current.sealed
  /\ current.revealed
  /\ archived' = Append(archived, current.commit)
  /\ current' = NoTurn
  /\ answer' = NoAnswer
  /\ UNCHANGED <<registry, held, failed, since, locked>>

IntakeNext ==
  \/ \E m \in Messages : Arrive(m)
  \/ BeginAndDrain \/ DrainFails \/ CompleteTurn
-----------------------------------------------------------------------------
Meant == Messages \ Strays
Entries == {EntryOf(m) : m \in Meant}

(* The commitments the peer holds of turn n: early, current or completed,   *)
(* and those it acknowledged.                                               *)
HeldOf(n) ==
  Committed({h \in held : Number(h) = n})
    \cup (IF current.number = n THEN {current.commit} \ {NoCommit} ELSE {})
    \cup (IF n <= Len(archived) THEN {archived[n]} ELSE {})
Given(n) == {l[2] : l \in {k \in locked : k[1] = n}}
RevealEntry(n) == EntryOf(Envelope(<<"reveal", n>>, "reveal", <<n>>, "move"))

(* The type of every variable. *)
IntakeTypeOK ==
  /\ Lists!Range(registry) \subseteq Entries
  /\ Len(registry) <= RegistryDepth
  /\ held \subseteq Commits \cup Reveals
  /\ current.number \in 0..IntakeTurns + 1
  /\ current.commit \in Said \cup {NoCommit}
  /\ Len(archived) <= IntakeTurns
  /\ failed \in BOOLEAN
  /\ DOMAIN since \subseteq Entries

(* COMMIT_ACK "prevents the sender retreating from its commitment".  Every  *)
(* commitment acknowledged as locked, early or on time, is held until its   *)
(* turn begins; a turn this peer seals a move of its own for has one at     *)
(* most, which it keeps, whatever is repeated, reordered, changed under the *)
(* same id or a fresh one, sent by a stranger or forgotten by the registry. *)
(* An opponent that committed to a turn twice, or revealed before it could, *)
(* is found out there, and nobody else is.  And a copy of an answered       *)
(* message is not acted on at all until as many others were recorded as the *)
(* registry remembers, and changes nothing even then.                       *)
CommitsAreKept ==
  \A n \in 1..IntakeTurns + 1 :
    /\ HeldOf(n) \subseteq Given(n) /\ "stray" \notin Given(n)
    /\ ~failed => HeldOf(n) = Given(n)
    /\ n <= Len(archived) \/ (current.number = n /\ current.sealed) =>
         \A x, y \in Given(n) : x = y
FailsForCause ==
  failed => \/ \E x, y \in Given(NextTurn) : x # y
            \/ RevealEntry(NextTurn) \in DOMAIN since
CopiesAreIdle ==
  answer'.how # "" /\ answer'.to \in DOMAIN since =>
    /\ \A n \in 1..IntakeTurns + 1 : HeldOf(n)' = HeldOf(n)
    /\ UNCHANGED <<current.sealed, current.revealed, archived, failed>>
    /\ answer'.how = "acted" => since[answer'.to] >= RegistryDepth
LockedCommitIsKept ==
  [](CommitsAreKept /\ FailsForCause) /\ [][CopiesAreIdle]_intakeVars
=============================================================================
