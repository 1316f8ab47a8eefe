------------------------------ MODULE Channel ------------------------------
(***************************************************************************)
(* One peer's way out: PeerClient's calls, admitted by the Gatekeeper,     *)
(* bounded by DeadlineTracker and carried by the worker task of one         *)
(* TransportChannel.                                                       *)
(*                                                                         *)
(* A caller is a coroutine that makes one call.  The worker owns the        *)
(* session and serves the requests in order.  What it hands over is a       *)
(* request; the future inside it is live while its caller still awaits     *)
(* that attempt.  The opponent may answer, refuse, break the session or    *)
(* never answer.                                                           *)
(***************************************************************************)
EXTENDS Naturals, Sequences, FiniteSets
Queues == INSTANCE SequencesExt

CONSTANTS
  Caller,             \* coroutines that send a protocol message
  Prober,             \* coroutines that call health_check
  MaxAttempts,        \* max_retries + 1
  MaxRestarts,        \* MAX_SESSION_RESTARTS
  ConcurrentRequests, \* concurrent_requests
  QueueDepth,         \* queue_depth
  Capacity,           \* the bucket, in what one tick refills
  Cost,               \* one token, in what one tick refills
  Backoff             \* retry_backoff_sec, in ticks

ASSUME ChannelAssumption ==
  /\ Caller \cap Prober = {} /\ IsFiniteSet(Caller \cup Prober)
  /\ MaxAttempts \in Nat \ {0} /\ MaxRestarts \in Nat
  /\ ConcurrentRequests \in Nat \ {0} /\ QueueDepth \in Nat \ {0}
  /\ Cost \in Nat \ {0} /\ Backoff \in Nat /\ Capacity \in Nat

Request == [from : Caller \cup Prober, attempt : 1..MaxAttempts]

VARIABLES
  awaiting,   \* where a caller's coroutine is
  attempt,    \* attempts it has made
  sleep,      \* ticks left of its backoff
  tokens,     \* Gatekeeper._tokens
  in_flight,  \* Gatekeeper._in_flight
  workerTask, \* the worker task: reconnecting, serving or given up
  restarts,   \* consecutive failed sessions
  requests,   \* requests handed to the worker
  serving,    \* the request inside client.call_tool, <<>> without one
  healthy     \* history: no session broke, no deadline passed, none refused

channelVars == <<awaiting, attempt, sleep, tokens, in_flight, workerTask,
                 restarts, requests, serving, healthy>>

Ended == {"answered", "failed"}
Places == {"idle", "opening", "future", "backoff"} \cup Ended

ChannelTypeOK ==
  /\ awaiting \in [Caller \cup Prober -> Places]
  /\ attempt \in [Caller \cup Prober -> 0..MaxAttempts]
  /\ sleep \in [Caller \cup Prober -> 0..Backoff]
  /\ tokens \in 0..Capacity
  /\ in_flight \in 0..Cardinality(Caller)
  /\ workerTask \in {"connecting", "serving", "given_up"}
  /\ restarts \in 0..MaxRestarts
  /\ requests \in Seq(Request)
  /\ serving = <<>> \/ serving \in [1..1 -> Request]
  /\ healthy \in BOOLEAN

(* Earlier traffic may have left any number of tokens. *)
ChannelInit ==
  /\ awaiting = [c \in Caller \cup Prober |-> "idle"]
  /\ attempt = [c \in Caller \cup Prober |-> 0]
  /\ sleep = [c \in Caller \cup Prober |-> 0]
  /\ tokens \in 0..Capacity
  /\ in_flight = 0
  /\ workerTask = "connecting"
  /\ restarts = 0
  /\ requests = <<>>
  /\ serving = <<>>
  /\ healthy = TRUE

-----------------------------------------------------------------------------
(* The future of r is neither done nor cancelled. *)
Live(r) == awaiting[r.from] = "future" /\ attempt[r.from] = r.attempt

HoldsSlot(c) == c \in Caller /\ awaiting[c] \in {"opening", "future"}

(* Gatekeeper._admit: the first gate that refuses, in its order.  Nothing   *)
(* ever waits in the gatekeeper, so what is outstanding is in flight.       *)
Refuses_CountsItself ==
  \/ in_flight + 1 >= QueueDepth
  \/ tokens < Cost
  \/ in_flight >= ConcurrentRequests
Refuses ==
  \/ in_flight >= QueueDepth
  \/ tokens < Cost
  \/ in_flight >= ConcurrentRequests

Release(c) ==
  in_flight' = IF HoldsSlot(c) /\ in_flight > 0 THEN in_flight - 1 ELSE in_flight

(* The attempt of c ended with a retryable error: back off, or raise        *)
(* RetryLimitExceededError.  A probe has one attempt and answers False.     *)
AttemptFailedAt(c, made) ==
  LET again == c \in Caller /\ made < MaxAttempts
  IN  /\ awaiting' = [awaiting EXCEPT ![c] =
                        IF again THEN "backoff"
                        ELSE IF c \in Prober THEN "answered" ELSE "failed"]
      /\ sleep' = [sleep EXCEPT ![c] = IF again THEN Backoff ELSE 0]

(* TransportChannel.call: hand over a request, or wait for a worker that    *)
(* has given up to come back.                                               *)
HandOver(c) ==
  IF workerTask = "given_up"
  THEN /\ awaiting' = [awaiting EXCEPT ![c] = "opening"]
       /\ UNCHANGED requests
  ELSE /\ awaiting' = [awaiting EXCEPT ![c] = "future"]
       /\ requests' = Append(requests, [from |-> c, attempt |-> attempt[c] + 1])

MayTry(c) == awaiting[c] = "idle" \/ (awaiting[c] = "backoff" /\ sleep[c] = 0)

(* An attempt that the gatekeeper admits. *)
Admit(c) ==
  /\ c \in Caller
  /\ MayTry(c)
  /\ ~Refuses
  /\ tokens' = tokens - Cost
  /\ in_flight' = in_flight + 1
  /\ attempt' = [attempt EXCEPT ![c] = @ + 1]
  /\ HandOver(c)
  /\ UNCHANGED <<sleep, workerTask, restarts, serving, healthy>>

(* One that it refuses: a failed attempt, like any other. *)
RefuseSlot(c) ==
  /\ c \in Caller
  /\ MayTry(c)
  /\ Refuses
  /\ attempt' = [attempt EXCEPT ![c] = @ + 1]
  /\ AttemptFailedAt(c, attempt[c] + 1)
  /\ UNCHANGED <<tokens, in_flight, workerTask, restarts, requests, serving, healthy>>

(* health_check: no slot, no deadline, no second attempt. *)
Probe(c) ==
  /\ c \in Prober
  /\ awaiting[c] = "idle"
  /\ attempt' = [attempt EXCEPT ![c] = 1]
  /\ HandOver(c)
  /\ UNCHANGED <<sleep, tokens, in_flight, workerTask, restarts, serving, healthy>>

(* open(timeout=5) ran out: PeerUnavailableError. *)
NotRunning(c) ==
  /\ awaiting[c] = "opening"
  /\ Release(c)
  /\ AttemptFailedAt(c, attempt[c])
  /\ UNCHANGED <<attempt, tokens, workerTask, restarts, requests, serving, healthy>>

(* response_timeout_sec passed: wait_for cancels the attempt, and with it   *)
(* the future; the request stays where it is.                               *)
Deadline(c) ==
  /\ c \in Caller
  /\ awaiting[c] = "future"
  /\ Release(c)
  /\ AttemptFailedAt(c, attempt[c])
  /\ healthy' = FALSE
  /\ UNCHANGED <<attempt, tokens, workerTask, restarts, requests, serving>>

(* A second or so passes: the bucket refills, backoffs run. *)
Tick ==
  /\ \A c \in Caller : ~MayTry(c) \/ awaiting[c] = "idle"
  /\ \E c \in Caller : awaiting[c] = "backoff"
  /\ tokens' = IF tokens < Capacity THEN tokens + 1 ELSE Capacity
  /\ sleep' = [c \in Caller \cup Prober |-> IF sleep[c] > 0 THEN sleep[c] - 1 ELSE 0]
  /\ UNCHANGED <<awaiting, attempt, in_flight, workerTask, restarts, requests,
                 serving, healthy>>

-----------------------------------------------------------------------------
(* The worker task.                                                         *)

Connect ==
  /\ workerTask = "connecting"
  /\ workerTask' = "serving"
  /\ restarts' = 0
  /\ UNCHANGED <<awaiting, attempt, sleep, tokens, in_flight, requests, serving,
                 healthy>>

(* Every live future of S fails with PeerUnavailableError. *)
FailAll(S) ==
  LET hit == {c \in Caller \cup Prober : \E r \in S : r.from = c /\ Live(r)}
      again == {c \in hit \cap Caller : attempt[c] < MaxAttempts}
  IN  /\ awaiting' = [c \in Caller \cup Prober |->
                        IF c \notin hit THEN awaiting[c]
                        ELSE IF c \in again THEN "backoff"
                        ELSE IF c \in Prober THEN "answered" ELSE "failed"]
      /\ sleep' = [c \in Caller \cup Prober |->
                     IF c \in again THEN Backoff ELSE sleep[c]]
      /\ in_flight' = in_flight - Cardinality(hit \cap Caller)

(* The session is gone and S fails with it.  The worker reconnects and keeps*)
(* the queue, or gives up for good and _drain_with_error fails the queue.   *)
SessionLost(S) ==
  IF restarts >= MaxRestarts
  THEN /\ workerTask' = "given_up"
       /\ FailAll(S \cup Queues!ToSet(requests))
       /\ requests' = <<>>
       /\ UNCHANGED restarts
  ELSE /\ workerTask' = "connecting"
       /\ FailAll(S)
       /\ restarts' = restarts + 1
       /\ UNCHANGED requests

ConnectFails ==
  /\ workerTask = "connecting"
  /\ SessionLost({})
  /\ healthy' = FALSE
  /\ UNCHANGED <<attempt, tokens, serving>>

(* _serve takes the next request and skips one whose caller has gone. *)
Take_Cancelled ==
  /\ workerTask = "serving"
  /\ serving = <<>>
  /\ requests # <<>>
  /\ requests' = Tail(requests)
  /\ serving' = <<Head(requests)>>
  /\ UNCHANGED <<awaiting, attempt, sleep, tokens, in_flight, workerTask, restarts,
                 healthy>>
Take ==
  /\ workerTask = "serving"
  /\ serving = <<>>
  /\ requests # <<>>
  /\ requests' = Tail(requests)
  /\ serving' = IF Live(Head(requests)) THEN <<Head(requests)>> ELSE <<>>
  /\ UNCHANGED <<awaiting, attempt, sleep, tokens, in_flight, workerTask, restarts,
                 healthy>>

(* call_tool returned, or the tool refused the call (not retryable). *)
Answer(outcome) ==
  /\ serving # <<>>
  /\ outcome = "answered" \/ serving[1].from \in Caller
  /\ serving' = <<>>
  /\ IF Live(serving[1])
     THEN /\ awaiting' = [awaiting EXCEPT ![serving[1].from] = outcome]
          /\ Release(serving[1].from)
     ELSE UNCHANGED <<awaiting, in_flight>>
  /\ healthy' = (healthy /\ outcome = "answered")
  /\ UNCHANGED <<attempt, sleep, tokens, workerTask, restarts, requests>>

(* call_tool raised: fail this request, leave the others for the next       *)
(* session.                                                                 *)
SessionBreaks ==
  /\ serving # <<>>
  /\ serving' = <<>>
  /\ SessionLost({serving[1]})
  /\ healthy' = FALSE
  /\ UNCHANGED <<attempt, tokens>>

CallerStep(c) ==
  Admit(c) \/ RefuseSlot(c) \/ Probe(c) \/ NotRunning(c) \/ Deadline(c)
Session == Connect \/ ConnectFails \/ Take
OpponentServes == SessionBreaks \/ \E outcome \in Ended : Answer(outcome)

ChannelNext ==
  \/ \E c \in Caller \cup Prober : CallerStep(c)
  \/ Tick \/ Session \/ OpponentServes

-----------------------------------------------------------------------------
(* A slot is held by the attempts that are under way and by nothing else,   *)
(* however they end: answered, refused, timed out, or failed with their     *)
(* session.                                                                 *)
SlotsAreHeld ==
  /\ in_flight = Cardinality({c \in Caller : HoldsSlot(c)})
  /\ in_flight <= ConcurrentRequests

(* The gatekeeper has a slot and a place in its queue for every caller, and *)
(* a token for each in a full bucket and in what all of a caller's backoffs *)
(* refill.  Appendix F's minimums leave no less than that to two callers:   *)
(* two slots, 30 tokens, refilled once in two seconds, three backoffs of    *)
(* five seconds.                                                            *)
EnoughForAll ==
  LET callers == Cardinality(Caller)
  IN  /\ callers <= ConcurrentRequests /\ callers <= QueueDepth
      /\ Cost * callers <= Capacity /\ Cost * callers <= Backoff * (MaxAttempts - 1)

(* Slots are held by what is under way.  And the gatekeeper makes a caller  *)
(* back off, but never use all its attempts up, while the opponent and the  *)
(* session do their part: where there is enough for all, no caller starves. *)
AdmissionIsFair ==
  /\ SlotsAreHeld
  /\ healthy => \A c \in Caller : awaiting[c] # "failed"

(* What has ended is not sent late: the worker skips a request behind a hung*)
(* call when its caller has given that attempt up and may have made a newer *)
(* one.                                                                     *)
NothingEndedIsSent ==
  [][serving' # serving /\ serving' # <<>> => Live(serving'[1])]_channelVars

(* A protocol message ends in a reply or an error though the opponent hangs, *)
(* the session breaks or the worker has given up.  A health check has no    *)
(* deadline: it ends if the calls of the session do.  And what has ended is *)
(* not sent late.                                                           *)
CallsEndForGood ==
  /\ NothingEndedIsSent
  /\ \A c \in Caller : awaiting[c] # "idle" ~> awaiting[c] \in Ended
  /\ []<>(serving = <<>>) =>
       \A p \in Prober : awaiting[p] # "idle" ~> awaiting[p] \in Ended
=============================================================================
