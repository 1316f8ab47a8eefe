-------------------------------- MODULE Gui --------------------------------
(***************************************************************************)
(* A peer run with --gui: Tk draws on the main thread, run_peer runs on an *)
(* event loop in a daemon thread.  Frozen snapshots cross one way through  *)
(* ViewSlot, a request to stop crosses the other way.                      *)
(*                                                                         *)
(* A snapshot is what the banner reads of it: whether this peer is acting   *)
(* and the final status.  A step of one thread is what it does between two  *)
(* accesses to the slot.                                                   *)
(***************************************************************************)
EXTENDS Naturals

VARIABLES
  hold,     \* --hold was given
  turns,    \* --turns is not 0
  interop,  \* the reference-v3 adapter is mounted
  worker,   \* where run_peer is
  acting,   \* the protocol phase is one of this peer's own
  exitCode, \* run_peer's exit_code: EXIT_OK or not
  status,   \* orchestrator.final_status
  latest,   \* ViewSlot._latest
  finished, \* ViewSlot.finished
  bound,    \* bind_stop: nothing, fields assigned, pending looked at
  asked,    \* ViewSlot._stop_pending
  stopping, \* the stop event: not asked for, scheduled on the loop, set
  main,     \* where the main thread is
  request,  \* request_stop has seen no loop and not yet remembered itself
  closed,   \* PeerWindow.closed
  banner,   \* the banner on the screen
  shots     \* screenshots taken

optionVars == <<hold, turns, interop>>
mainVars == <<main, request, closed, banner, shots>>
workerVars == <<worker, acting, exitCode, status, latest, finished>>
guiVars == <<optionVars, workerVars, bound, asked, stopping, mainVars>>

View == [acting : BOOLEAN, status : {"", "finished", "failed"}]
NoView == [acting |-> FALSE, status |-> "none"]

WorkerTypes ==
  /\ hold \in BOOLEAN /\ turns \in BOOLEAN /\ interop \in BOOLEAN
  /\ acting \in BOOLEAN /\ finished \in BOOLEAN
  /\ exitCode \in {"finished", "failed"}
  /\ worker \in {"starting", "running", "holding", "closing", "stopped", "returned"}
  /\ status \in {"", "finished", "failed"}
  /\ latest \in View \cup {NoView}
  /\ bound \in {"no", "assigned", "yes"}
MainTypes ==
  /\ asked \in BOOLEAN /\ request \in BOOLEAN /\ closed \in BOOLEAN
  /\ stopping \in {"no", "scheduled", "set"}
  /\ main \in {"ticking", "joining", "leaving", "rejoining", "exited"}
  /\ banner \in {"", "YOUR TURN", "LOCKED", "GAME COMPLETE"}
  /\ shots \in {0, 1}
GuiTypeOK == WorkerTypes /\ MainTypes

GuiInit ==
  /\ hold \in BOOLEAN /\ turns \in BOOLEAN /\ interop \in BOOLEAN
  /\ worker = "starting" /\ acting = TRUE /\ exitCode = "finished" /\ status = ""
  /\ latest = NoView /\ finished = FALSE
  /\ bound = "no" /\ asked = FALSE /\ stopping = "no"
  /\ main = "ticking" /\ request = FALSE
  /\ closed = FALSE /\ banner = "" /\ shots = 0

-----------------------------------------------------------------------------
(* The worker thread: run_peer and the run_gui task on its loop. *)

Alive == worker # "returned" /\ main # "exited"
Snapshot(s) == [acting |-> acting, status |-> s]

(* run_peer ends before its try block: only the worker's finally runs. *)
StartFails ==
  /\ worker = "starting"
  /\ worker' = "returned" /\ finished' = TRUE
  /\ UNCHANGED <<acting, exitCode, status, latest>>

(* bind_stop assigns, then looks at what was asked for meanwhile. *)
BindStop ==
  /\ worker = "starting"
  /\ IF bound = "no"
     THEN bound' = "assigned" /\ UNCHANGED <<worker, stopping>>
     ELSE /\ bound' = "yes"
          /\ worker' = "running"
          /\ stopping' = IF asked THEN "scheduled" ELSE stopping
  /\ UNCHANGED <<acting, exitCode, status, latest, finished>>

StopDelivered ==
  /\ stopping = "scheduled"
  /\ stopping' = "set"
  /\ UNCHANGED <<workerVars, bound>>

(* A phase of the protocol; run_gui publishes every 0.2 s. *)
PlayOn ==
  /\ worker = "running"
  /\ acting' = ~acting
  /\ UNCHANGED <<worker, exitCode, status, latest, finished>>
Publish ==
  /\ worker \in {"running", "holding", "closing"}
  /\ latest' = Snapshot(status)
  /\ UNCHANGED <<worker, acting, exitCode, status, finished>>

(* _mark_gui_finished: the status, and one snapshot that carries it. *)
MarkFinished(s) == status' = s /\ latest' = Snapshot(s) /\ UNCHANGED <<acting, finished>>

(* What run_peer came for is over: the turns, or without them the handshake.*)
(* The stop event is looked at nowhere before this.  With --hold the        *)
(* process waits for it if all went well, or whatever happened when the     *)
(* adapter is mounted; the end is marked before that only for turns that    *)
(* were played, and on the way out in every case.                           *)
Holds(outcome) == hold /\ (outcome = "finished" \/ interop)
MatchEnds_HoldUnmarked(outcome) ==
  /\ worker = "running"
  /\ worker' = IF Holds(outcome) THEN "holding" ELSE "closing"
  /\ exitCode' = outcome
  /\ IF Holds(outcome) THEN UNCHANGED <<acting, status, latest, finished>>
     ELSE MarkFinished(outcome)
MatchEnds(outcome) ==
  /\ worker = "running"
  /\ worker' = IF Holds(outcome) THEN "holding" ELSE "closing"
  /\ exitCode' = outcome
  /\ IF Holds(outcome) /\ ~(turns /\ outcome = "finished")
     THEN UNCHANGED <<acting, status, latest, finished>>
     ELSE MarkFinished(outcome)

HoldEnds ==
  /\ worker = "holding"
  /\ stopping = "set"
  /\ worker' = "closing"
  /\ MarkFinished(exitCode) /\ UNCHANGED exitCode

(* After 0.6 s gui_stop is set and run_gui's finally ends the window.       *)
GuiStops ==
  /\ worker = "closing"
  /\ worker' = "stopped" /\ finished' = TRUE
  /\ UNCHANGED <<acting, exitCode, status, latest>>
WorkerReturns ==
  /\ worker = "stopped"
  /\ worker' = "returned"
  /\ UNCHANGED <<acting, exitCode, status, latest, finished>>

WorkerStep ==
  /\ Alive
  /\ \/ BindStop \/ StopDelivered
     \/ /\ \/ StartFails \/ HoldEnds \/ GuiStops \/ WorkerReturns \/ Publish
           \/ \E outcome \in {"finished", "failed"} : MatchEnds(outcome)
        /\ UNCHANGED <<bound, stopping>>
  /\ UNCHANGED <<optionVars, asked, mainVars>>
NextPhase == Alive /\ PlayOn /\ UNCHANGED <<optionVars, bound, asked, stopping, mainVars>>

-----------------------------------------------------------------------------
(* The main thread. *)

(* request_stop, up to where it remembers a request nobody can take yet.    *)
RequestStop ==
  IF bound = "no"
  THEN request' = TRUE /\ UNCHANGED stopping
  ELSE /\ stopping' = IF stopping = "no" /\ worker # "returned"
                      THEN "scheduled" ELSE stopping
       /\ UNCHANGED request
Remember ==
  /\ request
  /\ request' = FALSE /\ asked' = TRUE
  /\ UNCHANGED <<optionVars, workerVars, bound, stopping, main, closed, banner, shots>>

banner_for(view) ==
  IF view.status # "" THEN "GAME COMPLETE"
  ELSE IF view.acting THEN "YOUR TURN" ELSE "LOCKED"

should_capture(view) == shots = 0 /\ view.status # ""

(* One tick: draw what is there, capture once, leave when the slot says so.  *)
(* It is shorter than the 0.6 s between the last snapshot and the end of the *)
(* slot, so it is one step.                                                  *)
DrawTick ==
  /\ ~closed
  /\ IF latest # NoView
     THEN /\ banner' = banner_for(latest)
          /\ shots' = IF should_capture(latest) THEN shots + 1 ELSE shots
     ELSE UNCHANGED <<banner, shots>>
  /\ main' = IF finished THEN "joining" ELSE "ticking"
  /\ UNCHANGED <<request, stopping>>

(* The tick after the window was closed, or Ctrl+C inside mainloop. *)
LeaveLoop ==
  /\ RequestStop
  /\ main' = "leaving"
  /\ UNCHANGED <<banner, shots>>

MainStep ==
  /\ main = "ticking" /\ ~request
  /\ DrawTick \/ (closed /\ LeaveLoop)
  /\ UNCHANGED <<optionVars, workerVars, bound, asked, closed>>

CloseWindow ==
  /\ main = "ticking" /\ ~closed
  /\ closed' = TRUE
  /\ UNCHANGED <<optionVars, workerVars, bound, asked, stopping, main, request, banner, shots>>
Interrupt ==
  /\ ~request
  /\ \/ main = "ticking" /\ LeaveLoop
     \/ main \in {"joining", "leaving"} /\ RequestStop /\ main' = "rejoining" /\ UNCHANGED <<banner, shots>>
  /\ UNCHANGED <<optionVars, workerVars, bound, asked, closed>>

(* thread.join(60): the worker returned, or 60 s passed and the process     *)
(* exits with the daemon thread still inside the match.                     *)
Join ==
  /\ main \in {"joining", "leaving", "rejoining"} /\ ~request
  /\ main' = "exited"
  /\ UNCHANGED <<optionVars, workerVars, bound, asked, stopping, request, closed, banner, shots>>

GuiNext ==
  \/ WorkerStep \/ NextPhase
  \/ MainStep \/ CloseWindow \/ Interrupt \/ Join \/ Remember

-----------------------------------------------------------------------------
(* The end of a match reaches the person at the screen.  The banner never   *)
(* returns from GAME COMPLETE, though snapshots go on being published; a    *)
(* screenshot shows nothing else; and a window that nobody closed is left   *)
(* with it drawn, though another thread ends the slot.                      *)
BannerStays == [][banner = "GAME COMPLETE" => banner' = "GAME COMPLETE"]_guiVars
ScreenshotShowsTheEnd == [][shots' # shots => banner' = "GAME COMPLETE"]_guiVars
LeftWithTheEnd == main = "joining" /\ status # "" => banner = "GAME COMPLETE"

(* So it does, and --hold shows the end of turns that were played while the *)
(* process is kept (Q-19).  A closed window ends the process whatever the   *)
(* worker does.                                                             *)
GuiShowsTheEnd ==
  /\ BannerStays
  /\ ScreenshotShowsTheEnd
  /\ []LeftWithTheEnd
  /\ worker = "holding" /\ turns /\ exitCode = "finished"
       ~> banner = "GAME COMPLETE" \/ main # "ticking"
  /\ closed ~> main = "exited"
=============================================================================
