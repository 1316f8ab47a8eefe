------------------------------ MODULE AuditLog ------------------------------
(***************************************************************************)
(* One peer's hash-chained JSONL log: the process that appends to it, a    *)
(* crash and the next process with the same --game-id, somebody who edits  *)
(* the file at rest, and the verifier that reads nothing but the file.      *)
(*                                                                         *)
(* SHA-256 is ideal: the hash of a record is the record without its hash.   *)
(***************************************************************************)
EXTENDS Integers, Sequences

Lines == INSTANCE SequencesExt
Numbers == INSTANCE FiniteSetsExt

CONSTANTS
  MaxLines,     \* bound: lines of the file
  MaxProcesses, \* bound: processes that append to it
  MaxEdits      \* bound: changes to the file at rest

ASSUME AuditAssumption ==
  MaxLines \in Nat /\ MaxProcesses \in Nat \ {0} /\ MaxEdits \in Nat

VARIABLES
  log,      \* the lines of the file
  tornLine, \* the last line has no newline
  previous, \* AuditLog._previous_hash of the running process
  running,  \* a process has the log open
  starts,   \* history: the line at which each process began
  sealed,   \* history: the log as the processes left it
  edits     \* changes made to the file at rest

auditVars == <<log, tornLine, previous, running, starts, sealed, edits>>

AuditEventType == {"local_commit", "final_reveal"}
NONCE_BEARING_EVENTS == {"final_reveal"}
GENESIS_HASH == <<>>

compute_record_hash(r) == <<r.event_id, r.event_type, r.previous_event_hash>>
Sealed(r) == [r EXCEPT !.current_event_hash = compute_record_hash(r)]
Record(id, type, prev) ==
  Sealed([parses |-> TRUE, event_id |-> id, event_type |-> type,
          previous_event_hash |-> prev, current_event_hash |-> GENESIS_HASH])
Garbled == [Record(0, "local_commit", GENESIS_HASH) EXCEPT !.parses = FALSE]

AuditTypeOK ==
  /\ Len(log) <= MaxLines /\ Len(sealed) <= MaxLines
  /\ tornLine \in BOOLEAN /\ running \in BOOLEAN
  /\ starts \in Seq(1..MaxLines + 1) /\ Len(starts) \in 1..MaxProcesses
  /\ edits \in 0..MaxEdits

AuditInit ==
  /\ log = <<>> /\ sealed = <<>> /\ tornLine = FALSE
  /\ previous = GENESIS_HASH /\ running = TRUE
  /\ starts = <<1>> /\ edits = 0

-----------------------------------------------------------------------------
(* A nonce is on disk only in the record of the final reveal.               *)
Permitted(type, payload) == payload = "nonce" => type \in NONCE_BEARING_EVENTS

(* A record written behind a torn line is swallowed by it.                  *)
WriteLine(line) ==
  /\ log' = IF tornLine THEN Lines!ReplaceAt(log, Len(log), Garbled) ELSE Append(log, line)
  /\ sealed' = log'
  /\ tornLine' = FALSE

append(type, payload) ==
  LET record == Record(Len(sealed) + 1, type, previous)
  IN  /\ Permitted(type, payload)
      /\ WriteLine(record)
      /\ previous' = record.current_event_hash

Appends ==
  /\ running /\ Len(log) < MaxLines
  /\ \E type \in AuditEventType, payload \in {"public", "nonce"} : append(type, payload)
  /\ UNCHANGED <<running, starts, edits>>

(* The process ends, or is killed between records or inside a write, which  *)
(* may lack the newline only.                                               *)
Stops ==
  /\ running
  /\ running' = FALSE
  /\ \/ UNCHANGED <<log, sealed, tornLine>>
     \/ /\ ~tornLine /\ Len(log) < MaxLines
        /\ \E line \in {Garbled, Record(Len(sealed) + 1, "local_commit", previous)} :
             log' = Append(log, line)
        /\ sealed' = log' /\ tornLine' = TRUE
  /\ UNCHANGED <<previous, starts, edits>>

(* The same log directory and game id: the file is opened to append, and    *)
(* the new AuditLog knows nothing of what is in it.                         *)
Restarts ==
  /\ ~running /\ edits = 0 /\ Len(starts) < MaxProcesses
  /\ running' = TRUE
  /\ previous' = GENESIS_HASH
  /\ starts' = Append(starts, Len(log) + 1)
  /\ UNCHANGED <<log, tornLine, sealed, edits>>

-----------------------------------------------------------------------------
(* One change to the file at rest.  Forging a record gives it contents of   *)
(* one's own, links it to its predecessor and hashes it afresh.             *)
Edited(lines) ==
  LET I == DOMAIN lines
      PrevOf(i) == IF i = 1 THEN GENESIS_HASH ELSE lines[i - 1].current_event_hash
  IN  {Lines!RemoveAt(lines, i) : i \in I}
      \cup {Lines!InsertAt(lines, j, lines[i]) : i \in I, j \in I}
      \cup {Lines!ReplaceAt(Lines!ReplaceAt(lines, i, lines[j]), j, lines[i]) : i \in I, j \in I}
      \cup {Lines!ReplaceAt(lines, i, [lines[i] EXCEPT !.event_type = "forged"]) : i \in I}
      \cup {Lines!ReplaceAt(lines, i, [lines[i] EXCEPT !.event_type = "final_reveal"]) : i \in I}
      \cup {Lines!ReplaceAt(lines, i, Record(lines[i].event_id + MaxLines, "final_reveal", PrevOf(i))) : i \in I}

Tampers ==
  /\ ~running /\ edits < MaxEdits /\ ~tornLine
  /\ edits' = edits + 1
  /\ log' \in {lines \in Edited(log) : Len(lines) <= MaxLines}
  /\ UNCHANGED <<tornLine, previous, running, starts, sealed>>

AuditNext == Appends \/ Stops \/ Restarts \/ Tampers

-----------------------------------------------------------------------------
(* The verifier: a line that does not parse first, then the first record    *)
(* that fails a check, in the order of the checks.                          *)
validate_record_mapping(r) == r.event_type \in AuditEventType

FailureKind_TrustsLinks(lines, i) ==
  LET r == lines[i]
  IN  IF ~validate_record_mapping(r) THEN "AuditRecordSchemaError"
      ELSE IF \E j \in 1..i - 1 : lines[j].event_id = r.event_id THEN "DuplicateAuditEventError"
      ELSE IF compute_record_hash(r) # r.current_event_hash THEN "AuditHashMismatchError"
      ELSE "none"
FailureKind(lines, i) ==
  LET r == lines[i]
      before == IF i = 1 THEN GENESIS_HASH ELSE lines[i - 1].current_event_hash
  IN  IF ~validate_record_mapping(r) THEN "AuditRecordSchemaError"
      ELSE IF \E j \in 1..i - 1 : lines[j].event_id = r.event_id THEN "DuplicateAuditEventError"
      ELSE IF r.previous_event_hash # before THEN "AuditChainBreakError"
      ELSE IF compute_record_hash(r) # r.current_event_hash THEN "AuditHashMismatchError"
      ELSE "none"

ChainVerdict(ok, index, kind) == [ok |-> ok, failure_index |-> index, failure_kind |-> kind]

verify_chain(lines) ==
  LET failing == {i \in DOMAIN lines : FailureKind(lines, i) # "none"}
  IN  IF failing = {} THEN ChainVerdict(TRUE, 0, "none")
      ELSE ChainVerdict(FALSE, Numbers!Min(failing), FailureKind(lines, Numbers!Min(failing)))

verify_chain_file(lines) ==
  LET malformed == {i \in DOMAIN lines : ~lines[i].parses}
  IN  IF malformed # {} THEN ChainVerdict(FALSE, Numbers!Min(malformed), "MalformedLine")
      ELSE verify_chain(lines)

-----------------------------------------------------------------------------
Unparsable == {i \in DOMAIN log : ~log[i].parses}
Resumed == {i \in Lines!ToSet(starts) : i \in 2..Len(log)}
Honest == {i \in DOMAIN log : \E j \in DOMAIN sealed : log[i] = sealed[j]}

UneditedIsNamed ==
  edits = 0 =>
    verify_chain_file(log) =
      IF Unparsable # {} THEN ChainVerdict(FALSE, Numbers!Min(Unparsable), "MalformedLine")
      ELSE IF Resumed # {} THEN ChainVerdict(FALSE, Numbers!Min(Resumed), "AuditChainBreakError")
      ELSE ChainVerdict(TRUE, 0, "none")
AcceptedIsAPrefix ==
  Len(starts) = 1 /\ verify_chain_file(log).ok =>
    \A i \in Honest : i \in DOMAIN sealed /\ \A j \in 1..i : log[j] = sealed[j]

MissingTailPasses ==
  Len(starts) = 1 /\ Unparsable = {}
    /\ (\A i \in DOMAIN log : i \in DOMAIN sealed /\ log[i] = sealed[i])
  => verify_chain_file(log).ok

(* What the verifier says of a log.  If nobody edited it, it names the torn *)
(* line, else the first record of a process that found records there, and   *)
(* else verifies: a match that was restarted never does.  If a log of one   *)
(* process verifies after changes, it is a prefix of what was written       *)
(* followed by forged records only, so whoever changes, inserts, deletes or *)
(* reorders a record must forge every record after it; and every such       *)
(* prefix does verify, whatever was deleted behind it.                      *)
VerdictFitsTheLog == UneditedIsNamed /\ AcceptedIsAPrefix /\ MissingTailPasses
=============================================================================
