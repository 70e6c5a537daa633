---------------------------- MODULE EventDispatch ----------------------------
(***************************************************************************)
(* From a committed domain event to the workflow runs it starts            *)
(* (features/automations/dispatch.ts, runtime/operational-policy.ts,       *)
(* runtime/due-runs.ts): the request that stored the event dispatches it   *)
(* at once, the domain-events cron dispatches whatever is not yet          *)
(* acknowledged, and the automations cron launches the runs that are due.  *)
(*                                                                         *)
(* One workspace; a run is executed in one step once it is claimed (the    *)
(* inside of an execution is WorkflowRun).  A minute passes as a whole:    *)
(* the admission counts start again and what was deferred becomes due.     *)
(***************************************************************************)
EXTENDS Naturals, FiniteSets

CONSTANTS
  Event,         \* domain events, ordered by createdAt
  Subject,       \* applications, candidates, jobs
  Parent,        \* runs whose actions emit events
  NoParent,
  Workflow,
  Setup,         \* for each event the enabled workflows whose trigger matches it (wants; none
                 \* at the end of the lineage depth), what it is about (subject) and the run
                 \* that emitted it (parent); the workflows without a readable version (broken)
  NoEvent,
  Cron,          \* the cron's dispatcher; the request of event e is dispatcher e
  Batch,         \* events per pass of the cron
  DueBatch,      \* due runs per pass of the automations cron
  MinuteLimit,   \* runs admitted per minute, of the workspace
  WorkflowLimit, \* and of one workflow
  MaxConcurrent, \* maxConcurrentRuns of the workspace
  MaxRequests,   \* requests that dispatch at the same time
  MaxDispatchFaults \* crashes, queries that throw, refusals by a pause or an open circuit

ASSUME EventDispatchAssumption ==
  /\ Event \subseteq Nat /\ IsFiniteSet(Event)
  /\ Setup \subseteq [wants: [Event -> SUBSET Workflow], broken: SUBSET Workflow,
                     subject: [Event -> Subject], parent: [Event -> Parent \cup {NoParent}]]
  /\ NoEvent \notin Event /\ Cron \notin Event
  /\ {Batch, DueBatch, MinuteLimit, WorkflowLimit, MaxConcurrent, MaxRequests} \subseteq Nat \ {0}
  /\ MaxDispatchFaults \in Nat

VARIABLES
  setup,         \* the definitions, which stay as they are
  outbox,        \* outbox[e]: absent, stored, dispatched
  started,       \* started[w][e]: the run of workflow w for event e
  admitted,      \* runs admitted in the current minute: in the workspace, per workflow
  dispatcher,    \* dispatcher[d]: the event, the workflows left and the current one, the stage
  queue,         \* events left of the cron's pass
  scan,          \* due runs left of the automations cron's pass
  dispatchFaults

dispatchVars == <<setup, outbox, started, admitted, dispatcher, queue, scan, dispatchFaults>>

Dispatcher == Event \cup {Cron}

RunOf == Workflow \X Event

Stages == {"idle", "loop", "admit", "insert", "failed", "done"}

\* fast: the process that inserted the run still executes it; recent: unfinished and started
\* less than 30 s ago; charged: an admission was made for it (history).
NoRun == [status |-> "none", fast |-> FALSE, recent |-> FALSE, charged |-> FALSE]

Buckets == [space: 0 .. MinuteLimit, flow: [Workflow -> 0 .. WorkflowLimit]]

DispatchTypeOK ==
  /\ setup \in Setup
  /\ outbox \in [Event -> {"absent", "stored", "dispatched"}]
  /\ started \in [Workflow -> [Event ->
       [status: {"none", "deferred", "queued", "running", "orphan", "delayed", "ended"},
        fast: BOOLEAN, recent: BOOLEAN, charged: BOOLEAN]]]
  /\ admitted \in Buckets
  /\ dispatcher \in [Dispatcher -> [event: Event \cup {NoEvent}, left: SUBSET Workflow,
                                    current: SUBSET Workflow, stage: Stages, defer: BOOLEAN]]
  /\ queue \subseteq Event
  /\ scan \subseteq [run: RunOf, admits: BOOLEAN]
  /\ dispatchFaults \in 0 .. MaxDispatchFaults

NewMinute == [space |-> 0, flow |-> [w \in Workflow |-> 0]]

Resting(stage) == [event |-> NoEvent, left |-> {}, current |-> {}, stage |-> stage, defer |-> FALSE]

DispatchInit ==
  /\ setup \in Setup
  /\ outbox = [e \in Event |-> "absent"]
  /\ started = [w \in Workflow |-> [e \in Event |-> NoRun]]
  /\ admitted = NewMinute
  /\ dispatcher = [d \in Dispatcher |-> Resting("idle")]
  /\ queue = {} /\ scan = {} /\ dispatchFaults = 0

DispatchFault == dispatchFaults < MaxDispatchFaults /\ dispatchFaults' = dispatchFaults + 1

Begins(d, e) ==
  dispatcher' = [dispatcher EXCEPT
    ![d] = [Resting("loop") EXCEPT !.event = e, !.left = setup.wants[e]]]

-----------------------------------------------------------------------------
\* emitWebhookEvent: the event is stored, then dispatched by the request.
Emit(e) ==
  /\ outbox[e] = "absent" /\ \A f \in Event : f < e => outbox[f] # "absent"
  /\ Cardinality({f \in Event : dispatcher[f].stage \notin {"idle", "done"}}) < MaxRequests
  /\ outbox' = [outbox EXCEPT ![e] = "stored"]
  /\ Begins(e, e)
  /\ UNCHANGED <<started, admitted, queue, scan, dispatchFaults>>

\* dispatchWorkflowEventsFromOutbox reads the oldest unacknowledged events.
Pending == {e \in Event : outbox[e] = "stored"}

\* Mutant: a pass that only looks at the first event.
OldestPendingOnly == {e \in Pending : \A f \in Pending : e <= f}

OldestPending == {e \in Pending : Cardinality({f \in Pending : f < e}) < Batch}

StartPass ==
  /\ dispatcher[Cron].stage = "idle" /\ queue = {} /\ Pending # {}
  /\ queue' = OldestPending
  /\ UNCHANGED <<outbox, started, admitted, dispatcher, scan, dispatchFaults>>

NextEvent(e) ==
  /\ dispatcher[Cron].stage = "idle"
  /\ e \in queue /\ \A f \in queue : e <= f
  /\ queue' = queue \ {e}
  /\ Begins(Cron, e)
  /\ UNCHANGED <<outbox, started, admitted, scan, dispatchFaults>>

\* Events the anti-loop check takes together: for one emitted by a run, those of that run
\* (hasChildRun, whatever their subject), for another one those about its subject.
Kin(e) ==
  IF setup.parent[e] = NoParent
  THEN {f \in Event : setup.subject[f] = setup.subject[e]}
  ELSE {f \in Event : setup.parent[f] = setup.parent[e]}

\* hasRecentRunningRun: an unfinished recent run; hasChildRun: any run, ended ones too.
Reentrant(w, e) ==
  \E f \in Kin(e) : IF setup.parent[e] = NoParent
                    THEN started[w][f].recent ELSE started[w][f].status # "none"

\* One workflow of the loop, in any order: the anti-loop check.
CheckLoop(d, w) ==
  /\ dispatcher[d].stage = "loop" /\ w \in dispatcher[d].left
  /\ dispatcher' = [dispatcher EXCEPT
       ![d].left = @ \ {w},
       ![d].current = IF Reentrant(w, dispatcher[d].event) THEN {} ELSE {w},
       ![d].stage = IF Reentrant(w, dispatcher[d].event) THEN "loop" ELSE "admit"]
  /\ UNCHANGED <<outbox, started, admitted, queue, scan, dispatchFaults>>

CanAdmit(w) == admitted.space < MinuteLimit /\ admitted.flow[w] < WorkflowLimit

\* Both buckets in one transaction.
Counted(w) == [space |-> admitted.space + 1, flow |-> [admitted.flow EXCEPT ![w] = @ + 1]]

\* Mutant: counted, but not limited.
AdmitsUnlimited(w) ==
  admitted' = Counted(w) /\ UNCHANGED dispatchFaults

\* reserveRunAdmissionPolicy: a transaction of its own, before the run exists.
Admits(w) ==
  CanAdmit(w) /\ admitted' = Counted(w) /\ UNCHANGED dispatchFaults

\* A full bucket, or a paused workspace or an open circuit, of which there are a few.
Refuses(w) ==
  /\ UNCHANGED admitted
  /\ \/ ~CanAdmit(w) /\ UNCHANGED dispatchFaults
     \/ DispatchFault

\* A refused run is inserted all the same, to start later.
AdmitNew(d, w) ==
  /\ dispatcher[d].stage = "admit" /\ dispatcher[d].current = {w}
  /\ \E defer \in BOOLEAN :
       /\ IF defer THEN Refuses(w) ELSE Admits(w)
       /\ dispatcher' = [dispatcher EXCEPT ![d].stage = "insert", ![d].defer = defer]
  /\ UNCHANGED <<outbox, started, queue, scan>>

\* Mutant: a deferred run is executed at once.
NewRunAtOnce(defer) == [status |-> "queued", fast |-> TRUE, recent |-> TRUE, charged |-> ~defer]

NewRun(defer) ==
  [status |-> IF defer THEN "deferred" ELSE "queued",
   fast |-> ~defer, recent |-> TRUE, charged |-> ~defer]

\* The insert, one run per workflow and event (onConflictDoNothing).
Inserted(w, e, run) ==
  IF started[w][e].status = "none" THEN [started EXCEPT ![w][e] = run] ELSE started

InsertRun(d, w) ==
  /\ dispatcher[d].stage = "insert" /\ dispatcher[d].current = {w} /\ w \notin setup.broken
  /\ started' = Inserted(w, dispatcher[d].event, NewRun(dispatcher[d].defer))
  /\ dispatcher' = [dispatcher EXCEPT ![d].current = {}, ![d].stage = "loop", ![d].defer = FALSE]
  /\ UNCHANGED <<outbox, admitted, queue, scan, dispatchFaults>>

\* dispatchWorkflowEvent gives the event up for now: the workflows left are not looked at.
GivesUp(d) ==
  dispatcher' = [dispatcher EXCEPT ![d] = [Resting("failed") EXCEPT !.event = dispatcher[d].event]]

VersionUnreadable(d, w) ==
  /\ dispatcher[d].stage = "insert" /\ dispatcher[d].current = {w} /\ w \in setup.broken
  /\ GivesUp(d)
  /\ UNCHANGED <<outbox, started, admitted, queue, scan, dispatchFaults>>

\* Mutant: a failed dispatch is acknowledged, too.
FinishedDespiteFailure(d) == dispatcher[d].stage \in {"loop", "failed"} /\ dispatcher[d].left = {}

\* dispatchWorkflowEvent returns; only the cron acknowledges, and only a full success.
Finished(d) == dispatcher[d].stage = "loop" /\ dispatcher[d].left = {}

\* The look-up, the anti-loop check, the admission or the insert throws; what it was
\* writing may have been committed.
DispatchFails(d) ==
  /\ dispatcher[d].stage \in {"loop", "admit", "insert"} /\ ~Finished(d) /\ DispatchFault
  /\ GivesUp(d)
  /\ \/ UNCHANGED <<admitted, started>>
     \/ /\ dispatcher[d].stage = "admit" /\ UNCHANGED started
        /\ \E w \in dispatcher[d].current : CanAdmit(w) /\ admitted' = Counted(w)
     \/ /\ dispatcher[d].stage = "insert" /\ UNCHANGED admitted
        /\ \E w \in dispatcher[d].current \ setup.broken :
             started' = Inserted(w, dispatcher[d].event,
                                 [NewRun(dispatcher[d].defer) EXCEPT !.fast = FALSE])
  /\ UNCHANGED <<outbox, queue, scan>>

EndsDispatch(d) ==
  dispatcher' = [dispatcher EXCEPT ![d] = Resting(IF d = Cron THEN "idle" ELSE "done")]

Return(d) ==
  /\ Finished(d) \/ dispatcher[d].stage = "failed"
  /\ outbox' = IF d = Cron /\ Finished(d)
               THEN [outbox EXCEPT ![dispatcher[d].event] = "dispatched"] ELSE outbox
  /\ EndsDispatch(d)
  /\ UNCHANGED <<started, admitted, queue, scan, dispatchFaults>>

-----------------------------------------------------------------------------
\* Mutant: a run whose worker died is not looked for.
IsDueQueuedOnly(w, e) == started[w][e].status = "queued"

\* findDueWorkflowRuns; a run taken over from a dead worker needs no new admission.
IsDue(w, e) == started[w][e].status \in {"queued", "orphan"}

StartScan ==
  /\ scan = {}
  /\ \E due \in SUBSET {x \in RunOf : IsDue(x[1], x[2])} :
       /\ Cardinality(due) \in 1 .. DueBatch
       /\ scan' = {[run |-> x, admits |-> started[x[1]][x[2]].status = "queued"] : x \in due}
  /\ UNCHANGED <<outbox, started, admitted, dispatcher, queue, dispatchFaults>>

Running == {x \in RunOf : started[x[1]][x[2]].status = "running"}

\* graphRunLeases.claim, always called with allowCancellation: the count of active runs
\* is taken and not compared.
AllowCancellation == TRUE

ClaimRun(w, e, admission) ==
  /\ IsDue(w, e)
  /\ AllowCancellation \/ Cardinality(Running) < MaxConcurrent
  /\ started' = [started EXCEPT ![w][e].status = "running", ![w][e].fast = FALSE,
                                ![w][e].charged = @ \/ admission]

Later(status) ==
  CASE status = "queued" -> "deferred" [] status = "orphan" -> "delayed" [] OTHER -> status

Sooner(status) ==
  CASE status = "deferred" -> "queued" [] status = "delayed" -> "orphan" [] OTHER -> status

\* dispatchDueWorkflowRuns takes an item of its list: admission, then the claim.  The
\* deferral asks nothing of a run that another worker runs or ended meanwhile.
LaunchDue(i) ==
  /\ i \in scan
  /\ IF i.admits THEN Admits(i.run[1]) ELSE UNCHANGED <<admitted, dispatchFaults>>
  /\ \/ ClaimRun(i.run[1], i.run[2], i.admits)
     \/ ~IsDue(i.run[1], i.run[2]) /\ UNCHANGED started
  /\ scan' = scan \ {i}
  /\ UNCHANGED <<outbox, dispatcher, queue>>

DeferDue(i) ==
  /\ i \in scan /\ i.admits /\ Refuses(i.run[1])
  /\ started' = [started EXCEPT ![i.run[1]][i.run[2]].status = Later(@)]
  /\ scan' = scan \ {i}
  /\ UNCHANGED <<outbox, dispatcher, queue>>

\* The admission throws, counted or not; the run stays due for a later scan.
SkipDue(i) ==
  /\ i \in scan /\ i.admits /\ DispatchFault
  /\ \/ UNCHANGED admitted
     \/ CanAdmit(i.run[1]) /\ admitted' = Counted(i.run[1])
  /\ scan' = scan \ {i}
  /\ UNCHANGED <<outbox, started, dispatcher, queue>>

\* scheduleWorkflowRun, in the process that inserted the run.
LaunchFast(w, e) ==
  /\ started[w][e].fast /\ ClaimRun(w, e, FALSE)
  /\ UNCHANGED <<outbox, admitted, dispatcher, queue, scan, dispatchFaults>>

RunEnds(w, e) ==
  /\ started[w][e].status = "running"
  /\ started' = [started EXCEPT ![w][e].status = "ended", ![w][e].recent = FALSE]
  /\ UNCHANGED <<outbox, admitted, dispatcher, queue, scan, dispatchFaults>>

\* The worker of a run dies, and its lease expires.
WorkerDies(w, e) ==
  /\ started[w][e].status = "running" /\ DispatchFault
  /\ started' = [started EXCEPT ![w][e].status = "orphan"]
  /\ UNCHANGED <<outbox, admitted, dispatcher, queue, scan>>

\* A dispatching process dies, with the executions it was about to start.
DispatcherDies(d) ==
  /\ dispatcher[d].stage \notin {"idle", "done"} /\ DispatchFault
  /\ EndsDispatch(d)
  /\ queue' = IF d = Cron THEN {} ELSE queue
  /\ started' = [w \in Workflow |-> [e \in Event |->
       [started[w][e] EXCEPT !.fast = @ /\ e # dispatcher[d].event]]]
  /\ UNCHANGED <<outbox, admitted, scan>>

AntiLoopWindowEnds(w, e) ==
  /\ started[w][e].recent
  /\ started' = [started EXCEPT ![w][e].recent = FALSE]
  /\ UNCHANGED <<outbox, admitted, dispatcher, queue, scan, dispatchFaults>>

MinutePasses ==
  /\ admitted.space > 0 \/ \E x \in RunOf : started[x[1]][x[2]].status \in {"deferred", "delayed"}
  /\ admitted' = NewMinute
  /\ started' = [w \in Workflow |-> [e \in Event |->
       [started[w][e] EXCEPT !.status = Sooner(@)]]]
  /\ UNCHANGED <<outbox, dispatcher, queue, scan, dispatchFaults>>

CronStep ==
  \/ StartPass \/ (\E e \in Event : NextEvent(e)) \/ Return(Cron)
  \/ \E w \in Workflow : CheckLoop(Cron, w) \/ AdmitNew(Cron, w) \/ InsertRun(Cron, w)
                         \/ VersionUnreadable(Cron, w)

ScanStep == StartScan \/ \E i \in scan : LaunchDue(i) \/ DeferDue(i)

RequestStep(e) ==
  \/ Return(e)
  \/ \E w \in Workflow : CheckLoop(e, w) \/ AdmitNew(e, w) \/ InsertRun(e, w)
                         \/ VersionUnreadable(e, w)

DispatchMoves ==
  \/ CronStep \/ ScanStep \/ MinutePasses \/ \E i \in scan : SkipDue(i)
  \/ \E e \in Event : Emit(e) \/ RequestStep(e)
  \/ \E w \in Workflow, e \in Event :
       LaunchFast(w, e) \/ RunEnds(w, e) \/ WorkerDies(w, e) \/ AntiLoopWindowEnds(w, e)
  \/ \E d \in Dispatcher : DispatcherDies(d) \/ DispatchFails(d)

DispatchNext == DispatchMoves /\ UNCHANGED setup

DispatchSpec == DispatchInit /\ [][DispatchNext]_dispatchVars

-----------------------------------------------------------------------------
(* Properties.                                                             *)

\* "This consumer is the correctness path": an event is acknowledged only when each of
\* its workflows has a run for it, or one for an event of its kin: of the same parent run
\* when an action emitted it, about the same subject otherwise.
AcknowledgedIsHandled ==
  \A e \in Event : outbox[e] = "dispatched" =>
    \A w \in setup.wants[e] : \E f \in Kin(e) : started[w][f].status # "none"

\* No run executes that no admission was made for, whoever launches it: the request that
\* inserted it, a scan that read it before others took it, a worker that takes it over.
ExecutedIsAdmitted ==
  \A w \in Workflow, e \in Event :
    started[w][e].status \in {"running", "orphan", "delayed", "ended"} => started[w][e].charged

Sound(e) == setup.wants[e] \cap setup.broken = {}

\* Every stored event is acknowledged in the end, also when its request died, and although
\* events that always fail stay in front of it (as long as the batch reaches past them).
EventsDispatched ==
  \A e \in Event : Sound(e) => (outbox[e] = "stored" ~> outbox[e] = "dispatched")

Unfinished(w, e) == started[w][e].status \notin {"none", "ended"}

\* There comes a time when all runs have ended: none is lost between its insert, its
\* deferrals and the death of its worker.  An event that always fails takes an admission
\* at every pass, so nothing is promised beside one.
RunsEnd ==
  []<>(\/ \A x \in RunOf : ~Unfinished(x[1], x[2])
       \/ \E f \in Event : ~Sound(f) /\ outbox[f] = "stored")

\* "Deduplication by event, not by the same candidate in 30 seconds" (automations-product-
\* plan.md): an acknowledged event has a run of its own in every workflow it matches.
EveryEventStarts ==
  \A e \in Event : outbox[e] = "dispatched" =>
    \A w \in setup.wants[e] : started[w][e].status # "none"

\* "Up to maxConcurrentRuns at a time" (WorkspaceAutomationControls.tsx).
RunsAtATime == Cardinality(Running) <= MaxConcurrent
=============================================================================
