---------------------------- MODULE ApprovalTools ----------------------------
(* The tools of index.ts that need the operator's native allow-once approval.  *)
(* Ask* is what the before_tool_call hook puts into the binding beside the     *)
(* tool's name and input, and whether a campaign may stand in for the dialog.  *)
(* Run* is how the tool, once called, gets from its input to the binding it    *)
(* compares (a sequence of blocks with an await between them) and which facts  *)
(* its effect changes.  Catalogs and contracts are constants of a process.     *)

Facts == {"policy",        \* worker policy: catalog, recipes, runtime scope
          "session",       \* the trusted session or the team member of the caller
          "browser",       \* the form session the call names
          "routing",       \* browser backend and routing of the configuration
          "attestations",  \* operator attestations of the configuration
          "permission",    \* publisher permissions of the configuration
          "year",          \* the current registry year
          "registry",      \* the stored registry snapshot
          "filing",        \* the DROP case and its last proof
          "preference",    \* the recorded GPC observation
          "candidate"}     \* the authenticated controller reply

\* The blocks of a tool call: what it does without giving up control.
AllAtOnce      == << {"read", "prune", "redeem"} >>
PruneOnly      == << {"prune"}, {"redeem"} >>
ReadWithPrune  == << {"read", "prune"}, {"redeem"} >>
ReadWithRedeem == << {"prune"}, {"read", "redeem"} >>
ReadThenRedeem == << {"read"}, {"prune", "redeem"} >>
ReadFirst      == << {"read"}, {"prune"}, {"redeem"} >>
ReadBetween    == << {"prune"}, {"read"}, {"redeem"} >>

Dialog(shows) == [shows |-> shows, campaign |-> FALSE]
OrCampaign(shows) == [shows |-> shows, campaign |-> TRUE]
Call(path, changes) == [path |-> path, changes |-> changes]

AskWorkerEnable      == Dialog({"policy", "session"})
AskExportEvidence    == Dialog({})
AskExportDashboard   == Dialog({"session"})
AskWorkerResume      == Dialog({"policy", "session"})
AskSensitiveStep     == Dialog({"browser"})
AskStartCampaign     == Dialog({"routing"})
AskRevokeCampaign    == Dialog({})
AskDropFiled         == Dialog({"registry"})
AskDropStatus        == Dialog({"filing"})
AskGpcObserved       == Dialog({"preference"})
AskRotateKey         == Dialog({})
AskPurge             == Dialog({})
AskControllerOutcome == Dialog({"candidate"})
AskReconcile         == Dialog({})
AskRefreshParity     == Dialog({"permission"})
AskRefreshRegistries == Dialog({"year"})
AskControllerReply   == Dialog({"attestations"})
AskLiveScan          == OrCampaign({"attestations"})
AskSubmitRemoval     == OrCampaign({"attestations"})
AskSubmitForm        == OrCampaign({"attestations", "routing"})
AskPollVerification  == OrCampaign({"attestations"})
AskDirectRescan      == OrCampaign({"attestations"})
AskOpenVerification  == OrCampaign({"attestations"})

RunWorkerEnable      == Call(ReadThenRedeem, {})
RunExportEvidence    == Call(PruneOnly, {})
RunExportDashboard   == Call(AllAtOnce, {})
RunWorkerResume      == Call(ReadThenRedeem, {})
RunSensitiveStep     == Call(ReadWithRedeem, {})
RunStartCampaign     == Call(ReadThenRedeem, {})
RunRevokeCampaign    == Call(PruneOnly, {})
RunDropFiled         == Call(ReadFirst, {"filing"})
RunDropStatus        == Call(ReadFirst, {"filing"})
RunGpcObserved       == Call(ReadBetween, {"preference"})
RunRotateKey         == Call(PruneOnly, {})
RunPurge             == Call(PruneOnly, {"filing", "preference", "candidate", "browser"})
RunControllerOutcome == Call(ReadFirst, {"candidate"})
RunReconcile         == Call(PruneOnly, {})
RunRefreshParity     == Call(ReadBetween, {})
RunRefreshRegistries == Call(AllAtOnce, {"registry"})
RunControllerReply   == Call(ReadWithRedeem, {})
RunLiveScan          == Call(ReadWithPrune, {})
RunSubmitRemoval     == Call(ReadWithPrune, {})
RunSubmitForm        == Call(ReadWithPrune, {})
RunPollVerification  == Call(ReadWithRedeem, {})
RunDirectRescan      == Call(ReadWithPrune, {})
RunOpenVerification  == Call(ReadWithRedeem, {})

\* approvalTools: the tools the hook asks about; any other is let through.
Ask ==
  [worker_enable |-> AskWorkerEnable, export_evidence |-> AskExportEvidence,
   export_dashboard |-> AskExportDashboard, worker_resume |-> AskWorkerResume,
   form_session_step |-> AskSensitiveStep, start_campaign |-> AskStartCampaign,
   revoke_campaign |-> AskRevokeCampaign, record_drop_filed |-> AskDropFiled,
   record_drop_status |-> AskDropStatus, record_gpc_observed |-> AskGpcObserved,
   rotate_state_key |-> AskRotateKey, purge_subject_state |-> AskPurge,
   record_controller_outcome |-> AskControllerOutcome,
   reconcile_submission |-> AskReconcile, refresh_parity_sources |-> AskRefreshParity,
   refresh_registries |-> AskRefreshRegistries, poll_controller_reply |-> AskControllerReply,
   live_scan |-> AskLiveScan, submit_removal |-> AskSubmitRemoval,
   submit_form_removal |-> AskSubmitForm, poll_verification |-> AskPollVerification,
   direct_rescan |-> AskDirectRescan, open_verification |-> AskOpenVerification]

Run ==
  [worker_enable |-> RunWorkerEnable, export_evidence |-> RunExportEvidence,
   export_dashboard |-> RunExportDashboard, worker_resume |-> RunWorkerResume,
   form_session_step |-> RunSensitiveStep, start_campaign |-> RunStartCampaign,
   revoke_campaign |-> RunRevokeCampaign, record_drop_filed |-> RunDropFiled,
   record_drop_status |-> RunDropStatus, record_gpc_observed |-> RunGpcObserved,
   rotate_state_key |-> RunRotateKey, purge_subject_state |-> RunPurge,
   record_controller_outcome |-> RunControllerOutcome,
   reconcile_submission |-> RunReconcile, refresh_parity_sources |-> RunRefreshParity,
   refresh_registries |-> RunRefreshRegistries, poll_controller_reply |-> RunControllerReply,
   live_scan |-> RunLiveScan, submit_removal |-> RunSubmitRemoval,
   submit_form_removal |-> RunSubmitForm, poll_verification |-> RunPollVerification,
   direct_rescan |-> RunDirectRescan, open_verification |-> RunOpenVerification]

ApprovalToolNames == DOMAIN Ask

=============================================================================
