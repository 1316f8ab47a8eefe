------------------------------- MODULE Inbox -------------------------------
(***************************************************************************)
(* Inboxes that are offered one stream of turn messages, each in its own   *)
(* order: copies may be repeated, reordered or missing.  A message that is *)
(* refused ends the receiver's sub-game (receive_turn raises).             *)
(***************************************************************************)
EXTENDS Delivery

CONSTANTS
  Receiver, \* the inboxes that see the stream
  Stream    \* the messages the opponent sent, records [step, commit]

ASSUME StreamAssumption == \A m \in Stream : m.step \in Nat

VARIABLES
  inbox,   \* Inbox, of each receiver
  applied, \* the messages handed on to the game, in order
  offered, \* the messages that arrived before one was refused
  refused  \* a message was refused

inboxVars == <<inbox, applied, offered, refused>>

InboxInit ==
  /\ inbox = [r \in Receiver |-> EmptyInbox]
  /\ applied = [r \in Receiver |-> <<>>]
  /\ offered = [r \in Receiver |-> {}]
  /\ refused = [r \in Receiver |-> FALSE]

Offer(r, m) ==
  /\ ~refused[r]
  /\ ~Refused(inbox[r], m)
  /\ inbox' = [inbox EXCEPT ![r] = Offered(@, m)]
  /\ applied' = [applied EXCEPT ![r] = @ \o Ready(inbox[r], m)]
  /\ offered' = [offered EXCEPT ![r] = @ \cup {m}]
  /\ UNCHANGED refused

RefuseTurn(r, m) ==
  /\ ~refused[r]
  /\ Refused(inbox[r], m)
  /\ refused' = [refused EXCEPT ![r] = TRUE]
  /\ offered' = [offered EXCEPT ![r] = @ \cup {m}]
  /\ UNCHANGED <<inbox, applied>>

InboxNext == \E r \in Receiver, m \in Stream : Offer(r, m) \/ RefuseTurn(r, m)
-----------------------------------------------------------------------------
Arrived(r, s) == \E m \in offered[r] : m.step = s
Steps == {m.step : m \in Stream}

(* The type of every variable. *)
InboxTypeOK ==
  /\ \A r \in Receiver :
       /\ inbox[r].next \in Nat \ {0}
       /\ DOMAIN inbox[r].played \subseteq Steps
       /\ \A s \in DOMAIN inbox[r].buffered :
            inbox[r].buffered[s] \in Stream /\ inbox[r].buffered[s].step = s
  /\ applied \in [Receiver -> Seq(Stream)]
  /\ offered \in [Receiver -> SUBSET Stream]
  /\ refused \in [Receiver -> BOOLEAN]

(* What is applied is a run of steps from 1 that arrived.                   *)
AppliedInOrder(r) ==
  \A i \in 1 .. Len(applied[r]) : applied[r][i].step = i /\ applied[r][i] \in offered[r]
NothingLeftBehind(r) ==
  \A s \in Steps \ {0} :
    (\A k \in 1 .. s : Arrived(r, k)) /\ ~refused[r] => s <= Len(applied[r])

PlayedStands ==
  \A r \in Receiver : \A s \in DOMAIN inbox[r].played :
    /\ s \in DOMAIN inbox'[r].played
    /\ inbox'[r].played[s] = inbox[r].played[s]
    /\ (\E m \in offered'[r] \ offered[r] :
          m.step = s /\ m.commit # inbox[r].played[s]) => refused'[r]

(* Whatever the order of arrival, the game is handed the longest gapless    *)
(* run of steps that arrived, each once and in order, and nothing that can  *)
(* still be applied is left behind.  And what was applied for a step is     *)
(* never contradicted unnoticed: a commit other than the played one that    *)
(* arrives later is refused.                                                *)
StreamIsDelivered ==
  /\ [](\A r \in Receiver : AppliedInOrder(r) /\ NothingLeftBehind(r))
  /\ [][PlayedStands]_inboxVars

(* delivery.py: deduplication is "on the commit value (not (kind, step),    *)
(* which would silently collapse a redelivery and a real equivocation       *)
(* together)".  So two commits for one played step are always refused.      *)
EquivocationIsRefused ==
  \A r \in Receiver : \A m, n \in offered[r] :
    m.step = n.step /\ m.commit # n.commit /\ m.step \in DOMAIN inbox[r].played
      => refused[r]
=============================================================================
