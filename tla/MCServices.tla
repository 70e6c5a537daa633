----------------------------- MODULE MCServices -----------------------------
(* The background services beside the runtime, one at a time: they share no  *)
(* state, so a behaviour of one leaves the variables of the others alone.    *)
EXTENDS OfferMail, EventDispatch, EffectQuota, WebhookQueue, CandidateErasure,
        StagePlacement, TLC

CONSTANTS Services,   \* those a run checks
          NewVersion  \* the files that are later versions of the first document

VARIABLE service

MCRowTerms == [r \in OfferRow |-> "t1"]
NoParents == [e \in Event |-> NoParent]
FailsAhead == [wants |-> [e \in Event |-> IF e = 1 THEN {"wB"} ELSE {"wA"}], broken |-> {"wB"},
               subject |-> [e \in Event |-> "s"], parent |-> NoParents]
SameWorkflow == [wants |-> [e \in Event |-> {"wA"}], broken |-> {},
                 subject |-> [e \in Event |-> "s"], parent |-> NoParents]
Siblings == [wants |-> [e \in Event |-> {"wA"}], broken |-> {},
             subject |-> [e \in Event |-> IF e = 1 THEN "s" ELSE "t"],
             parent |-> [e \in Event |-> "p"]]
MCSetup == {FailsAhead, SameWorkflow, Siblings}
MCLiveSetup == {FailsAhead, Siblings}  \* the liveness run's
MCDocumentOf == [f \in File |-> IF f \in NewVersion THEN CHOOSE d \in File \ NewVersion : TRUE ELSE f]
MCHolderOf == [q \in Request |-> IF q \in Fulfilment THEN "dsar:ana" ELSE "trash:ana"]
MCFlowOf == [x \in Effect |-> IF x = 3 THEN "g" ELSE "f"]

MCStageRow(state, kind, known) == [state |-> state, kind |-> kind, inHistory |-> known]
MCPipelines ==
  {[s \in Stage |-> CASE s = 1 -> MCStageRow("live", "active", TRUE)
                      [] s = 2 -> MCStageRow("live", "active", FALSE)
                      [] OTHER -> other] :
     other \in {MCStageRow("live", "hired", FALSE), MCStageRow("absent", "active", FALSE)}}

\* Workers of the outbox are interchangeable, and so are callers; used by the safety run only.
CallerSymmetry == Permutations(Worker) \cup Permutations(Clerk)

mail == offerMailVars
allVars == <<service, mail, dispatchVars, quotaVars, hookVars, erasureVars, stageVars>>

ServicesInit ==
  /\ service \in Services
  /\ OfferMailInit /\ DispatchInit /\ QuotaInit /\ HookInit /\ ErasureInit /\ PlacementInit
  /\ service # "mail" => offer.terms = "t1"
  /\ service # "dispatch" => setup = FailsAhead
  /\ service # "webhooks" => ~demo
  /\ service # "erasure" => vault.ever = {CHOOSE f \in File \ NewVersion : TRUE}
  /\ application[1].at # Nowhere
  /\ service # "placement" => stage[3].state = "live"

OnlyMail ==
  /\ service = "mail"
  /\ UNCHANGED <<service, dispatchVars, quotaVars, hookVars, erasureVars, stageVars>>
OnlyDispatch ==
  /\ service = "dispatch"
  /\ UNCHANGED <<service, mail, quotaVars, hookVars, erasureVars, stageVars>>
OnlyQuota ==
  /\ service = "quota"
  /\ UNCHANGED <<service, mail, dispatchVars, hookVars, erasureVars, stageVars>>
OnlyHooks ==
  /\ service = "webhooks"
  /\ UNCHANGED <<service, mail, dispatchVars, quotaVars, erasureVars, stageVars>>
OnlyErasure ==
  /\ service = "erasure"
  /\ UNCHANGED <<service, mail, dispatchVars, quotaVars, hookVars, stageVars>>
OnlyPlacement ==
  /\ service = "placement"
  /\ UNCHANGED <<service, mail, dispatchVars, quotaVars, hookVars, erasureVars>>

ServicesNext ==
  \/ OnlyMail /\ OfferMailNext
  \/ OnlyDispatch /\ DispatchNext
  \/ OnlyQuota /\ QuotaNext
  \/ OnlyHooks /\ HookNext
  \/ OnlyErasure /\ ErasureNext
  \/ OnlyPlacement /\ PlacementNext

\* One service runs in a behaviour, so a fairness condition of one service and one of
\* another are a condition on the disjunction of the two actions.
Progress1 ==
  \/ OnlyMail /\ \E w \in Worker : (WorkerStep(w) /\ UNCHANGED offerVars) \/ DeliverOffer(w)
  \/ OnlyDispatch /\ CronStep /\ UNCHANGED setup
  \/ OnlyHooks /\ CallStep(Sweep)
  \/ OnlyErasure /\ PurgeStep(Reaper)

Progress2 ==
  \/ OnlyMail /\ \E w \in Worker : Claim(w, Row) /\ UNCHANGED offerVars
  \/ OnlyDispatch /\ ScanStep /\ UNCHANGED setup
  \/ OnlyHooks /\ CallStep(1)
  \/ OnlyErasure /\ (ReaperClaims \/ SweepErasure)

Progress3 ==
  \/ OnlyMail /\ row[1].owner = Lost /\ LockExpires(1) /\ UNCHANGED offerVars
  \/ OnlyDispatch /\ MinutePasses /\ UNCHANGED setup
  \/ OnlyHooks /\ 2 \in Hook /\ CallStep(2)
  \/ OnlyErasure /\ Deserted /\ LockAges

Progress4 ==
  \/ OnlyMail /\ row[2].owner = Lost /\ LockExpires(2) /\ UNCHANGED offerVars
  \/ OnlyDispatch /\ (\E w \in Workflow, e \in Event : RunEnds(w, e)) /\ UNCHANGED setup
  \/ OnlyHooks /\ HookAges(1)
  \/ OnlyErasure /\ PurgeStep(1)

Progress5 ==
  \/ OnlyHooks /\ 2 \in Hook /\ HookAges(2)
  \/ OnlyErasure /\ PurgeStep(2)

MailStarts ==
  OnlyMail /\ (\E w \in Worker, r \in Row : StartRow(w, r)) /\ UNCHANGED offerVars

ServicesFairness ==
  /\ WF_allVars(Progress1) /\ WF_allVars(Progress2) /\ WF_allVars(Progress3)
  /\ WF_allVars(Progress4) /\ WF_allVars(Progress5) /\ SF_allVars(MailStarts)

ServicesSafe == ServicesInit /\ [][ServicesNext]_allVars

ServicesSpec == ServicesInit /\ [][ServicesNext]_allVars /\ ServicesFairness

\* Each service's variables keep their domains: no counter of attempts, admissions or
\* tries runs past its limit, no status outside its list is written.
ServicesTypeOK ==
  /\ OfferMailTypeOK /\ DispatchTypeOK /\ QuotaTypeOK /\ HookTypeOK
  /\ ErasureTypeOK /\ PlacementTypeOK
=============================================================================
