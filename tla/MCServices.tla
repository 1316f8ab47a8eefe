----------------------------- MODULE MCServices -----------------------------
(***************************************************************************)
(* The components that share no state with the peers' protocol or with     *)
(* each other, each on a small instance of its own: one behaviour runs one *)
(* of them, its `part', while the others stay as they begin.               *)
(***************************************************************************)
EXTENDS SeriesV3Invariant, MessagesInvariant, ServicesInvariant

VARIABLE part

Parts == {"channel", "inbox", "gui", "audit", "series", "learning", "config",
          "tracker", "intake"}

servicesVars == <<part, channelVars, inboxVars, guiVars, auditVars, seriesVars,
                  learnVars, configVars, trackVars, intakeVars>>

-----------------------------------------------------------------------------
(* Instances. *)

Corner == <<0, 0>>
Middle == <<1, 1>>

(* Five steps, of which step 0 is below every inbox's first and step 2 was  *)
(* sealed twice.                                                            *)
ShortStream == [step : 0 .. 4, commit : {"c"}] \cup {[step |-> 2, commit |-> "d"]}

(* Changes of game.json and of a peer's TOML: to other agreed values and to *)
(* values each layer of validation is there for.                            *)
OwnersSharedEdits ==
  {<<"grid_size", Num(6)>>, <<"axis_start_index", Num(1)>>, <<"cop_start", Pair(7, 7)>>,
   <<"cop_start", Pair(3, 3)>>, <<"hint_max_words", Bool(TRUE)>>, <<"max_moves", Absent>>,
   <<"survival_threshold", Num(36)>>, <<"response_timeout_sec", Num(60)>>,
   <<"capture_cop", Num(19)>>, <<"agreed_between", List(<<NaN>>)>>}
OwnersPrivateEdits ==
  {<<"max_moves", Num(35)>>, <<"group_id", GroupId(7, FALSE)>>, <<"role", Str("police")>>,
   <<"role", Str("thief")>>, <<"port", Absent>>}

(* Commitments of three turns: two under one id, two under two ids that say *)
(* the same, and two that do not.                                           *)
OpponentsOffers ==
  {<<1, 1, "sealed">>, <<1, 1, "changed">>, <<2, 1, "sealed">>, <<2, 1, "changed">>,
   <<2, 2, "changed">>, <<3, 1, "sealed">>}

(* The gatekeeper of this instance has enough for both callers. *)
ASSUME GatekeeperSuffices == EnoughForAll

-----------------------------------------------------------------------------
(* A part that does not run begins in one state only. *)
ServicesInit ==
  /\ part \in Parts
  /\ ChannelInit /\ InboxInit /\ GuiInit /\ AuditInit /\ SeriesInit
  /\ LearnInit /\ ConfigInit /\ TrackInit /\ IntakeInit
  /\ part # "channel" => tokens = Capacity
  /\ part # "gui" => ~hold /\ ~turns /\ ~interop
  /\ part # "series" => sameTerms
  /\ part # "learning" => \A f \in DOMAIN files : files[f] = Fresh

ServicesNext ==
  \/ /\ part = "channel" /\ ChannelNext
     /\ UNCHANGED <<part, inboxVars, guiVars, auditVars, seriesVars, learnVars,
                    configVars, trackVars, intakeVars>>
  \/ /\ part = "inbox" /\ InboxNext
     /\ UNCHANGED <<part, channelVars, guiVars, auditVars, seriesVars, learnVars,
                    configVars, trackVars, intakeVars>>
  \/ /\ part = "gui" /\ GuiNext
     /\ UNCHANGED <<part, channelVars, inboxVars, auditVars, seriesVars, learnVars,
                    configVars, trackVars, intakeVars>>
  \/ /\ part = "audit" /\ AuditNext
     /\ UNCHANGED <<part, channelVars, inboxVars, guiVars, seriesVars, learnVars,
                    configVars, trackVars, intakeVars>>
  \/ /\ part = "series" /\ SeriesNext
     /\ UNCHANGED <<part, channelVars, inboxVars, guiVars, auditVars, learnVars,
                    configVars, trackVars, intakeVars>>
  \/ /\ part = "learning" /\ LearnNext
     /\ UNCHANGED <<part, channelVars, inboxVars, guiVars, auditVars, seriesVars,
                    configVars, trackVars, intakeVars>>
  \/ /\ part = "config" /\ ConfigNext
     /\ UNCHANGED <<part, channelVars, inboxVars, guiVars, auditVars, seriesVars,
                    learnVars, trackVars, intakeVars>>
  \/ /\ part = "tracker" /\ TrackNext
     /\ UNCHANGED <<part, channelVars, inboxVars, guiVars, auditVars, seriesVars,
                    learnVars, configVars, intakeVars>>
  \/ /\ part = "intake" /\ IntakeNext
     /\ UNCHANGED <<part, channelVars, inboxVars, guiVars, auditVars, seriesVars,
                    learnVars, configVars, trackVars>>

(* The scheduling a part may rely on while it runs.                         *)
(*   channel: timers fire and the event loop runs the coroutines and the    *)
(*     worker; what the opponent does with a call is not promised.          *)
(*   gui: Tk and the join keep time; the worker's own steps are timers,     *)
(*     except that a match ends by its protocol.                            *)
(*   series: every wait of run_series has an end, and calls return.         *)
ServicesFairness ==
  /\ \A c \in Caller \cup Prober : WF_channelVars(part = "channel" /\ CallerStep(c))
  /\ WF_channelVars(part = "channel" /\ Tick)
  /\ WF_channelVars(part = "channel" /\ Session)
  /\ WF_guiVars(part = "gui" /\ MainStep)
  /\ WF_guiVars(part = "gui" /\ Remember)
  /\ WF_guiVars(part = "gui" /\ Join)
  /\ \A p \in Peer : WF_seriesVars(part = "series" /\ PeerStep(p))

ServicesSpec == ServicesInit /\ [][ServicesNext]_servicesVars /\ ServicesFairness

(* The types of all parts. *)
ServicesTypeOK ==
  /\ part \in Parts
  /\ ChannelTypeOK /\ InboxTypeOK /\ GuiTypeOK /\ AuditTypeOK /\ SeriesTypeOK
  /\ LearnTypeOK /\ ConfigTypeOK /\ TrackTypeOK /\ IntakeTypeOK

(* The inductive invariants the proofs rest on, those of the parts that run. *)
ServicesInvariant ==
  /\ ServicesTypeOK
  /\ CASE part = "channel" -> ChannelInvariant
       [] part = "inbox" -> InboxInvariant
       [] part = "gui" -> GuiInvariant
       [] part = "audit" -> AuditInvariant
       [] part = "series" -> SeriesInvariant
       [] part = "learning" -> LearnInvariant /\ DraftsContinue
       [] part = "config" -> ConfigInvariant /\ FilesAreJson
       [] part = "tracker" -> TrackInvariant
       [] part = "intake" -> IntakeInvariant
=============================================================================
