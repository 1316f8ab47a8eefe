------------------------------ MODULE MCInbox ------------------------------
(* A short stream for TLC. *)
EXTENDS Inbox

(* Six steps, of which step 0 is below every inbox's first and step 2 was   *)
(* sealed twice.                                                            *)
TwoFacedStream == [step : 0 .. 5, commit : {"c"}] \cup {[step |-> 2, commit |-> "d"]}

InboxSpec == InboxInit /\ [][InboxNext]_inboxVars
=============================================================================
