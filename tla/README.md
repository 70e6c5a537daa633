# Harly, verified: durable workflow runs, and the queues and state machines around them

Harly is an applicant-tracking application (a Next.js web app over PostgreSQL, a
job scheduler, an installer/updater). This directory holds TLA+ specifications of
the parts of it where the order of steps decides whether it is correct, TLC
configurations that check them on small instances, and TLAPS proofs about them.

At the centre is the part of the system that has the most to lose from
interleavings and crashes: the durable engine that runs published automation
workflows (`apps/web/src/features/automations/runtime`). A workflow run sends
e-mail, moves applications, calls webhooks and waits for days; it is executed by
whichever worker claims it, survives the death of that worker, and must not do
anything twice. Around it are what starts a run (event dispatch and admission),
what limits it (the quota of external effects), and what its effects, and the
people in the application, set in motion: the e-mail outbox and the offers it
extends, outgoing webhooks, the erasure of candidates, and applications that are
placed in the stages of a pipeline while it is edited.

Paths below are relative to the repository; `automations/` abbreviates
`apps/web/src/features/automations/`, and `features/` is `apps/web/src/features/`.

## 1. Inventory

| Component | State it keeps | Operations | Interacts with |
| --- | --- | --- | --- |
| Workflow run engine v2: `automations/runtime/{worker,leases,run-store,node-store,advance,due-runs}.ts` | `workflow_runs` (status, cursor node, lease owner/expiry, fence, cancellation, retry intent, nextAttemptAt), `workflow_node_executions`, `workflow_node_attempts`; in each worker: the lease, the loaded row, the reserved attempt, the outcome in hand | claim, renew, release, defer; reconcileStale, resumeDue; advance, reserve, settle, releaseUnstarted, registerWait, resolveWaiting, scheduleRetry, fail | PostgreSQL row locks; tool executors (providers, services); event and approval resolvers; operator commands |
| Operator commands: `automations/data.ts` | the same rows | requestCancelRun, retryRun, resolveWorkflowUncertain, setWorkspaceAutomationEnabled, replay | run rows, workspace policy row |
| Operational policy: `automations/runtime/operational-policy.ts` | workspace policy row, quota buckets, lineage budget, circuit breaker | reserveExternalActionPolicy, withWorkspaceAutomationEffectPermit, charge/reconcile buckets | claims (row lock), effects (shared lock held during the call) |
| Dispatch and admission: `automations/dispatch.ts` | runs, run locks per candidate, concurrency limit | create runs from domain events, scan due runs, defer on quota | domain-event outbox, cron tick |
| Event and document waits: `automations/runtime/{worker,node-store}.ts` | waiting node rows, the event cursor captured at registration, resolver leases; the outbox they read | register with cursor, deliver an event, reconcile missed events, confirm a document, expire | domain-event outbox, `automations/dispatch.ts`, cron tick |
| Approvals: `automations/runtime/{worker,approval-policy}.ts` | the round's reviewers (`inputSnapshot`), `workflow_approval_votes` | vote and count, resolve, reassign, expire | resolver path of the engine, workspace membership |
| Definitions, versions, plan compiler: `automations/definition/` | drafts, published versions | edit with optimistic check, validate, publish, compile | the run engine reads a frozen version |
| Legacy engine v1: `automations/engine.ts` | run steps | interpret, delay, retry | providers |
| Automation AI jobs and proposals: `automations/ai-*.ts` | leased jobs, proposals | claim, complete, accept, reject | model providers |
| Domain events and outbox: `apps/web/src/server/events` | event rows, delivery state | emit in the caller's transaction, claim, dispatch | every producer, dispatch |
| Outgoing webhooks: `apps/web/src/server/webhooks` | `webhook_deliveries` (status, lock, attempts, next retry) | queue, claim, read, send, record, replay, give up | endpoints, the cron, the request that queued a delivery |
| E-mail outbox: `apps/web/src/lib/email` | `email_outbox` (status, lock, attempts, provider id, last error) | enqueue and reset, claim, deliver, record acceptance, settle, release, retry and cancel by hand | mail providers, offers, the delivery log |
| Mailbox sync, notifications | cursors, upserts | poll, fan out | providers |
| Interviews and calendar ledger: `apps/web/src/features/interviews` | interviews, external-event ledger | schedule, reschedule, cancel, reconcile with calendars | calendar providers |
| Offers: `apps/web/src/features/offers`; e-signature: `apps/web/src/lib/esign` | offers, envelopes, signers | send, accept, decline, withdraw siblings; sign in order, finalize | storage, provider webhooks |
| Pipeline: `features/pipeline`, `features/applications` | `job_stages`, applications, stage history; in the browser the board write queue | create, archive with merge, change kind, delete; move, decide, reopen, apply | row locks of job and stages, a trigger |
| Candidates: `features/candidates` (deletion, anonymization, retention) | candidates, `candidate_deletion_jobs`, `dsar_requests`, stored objects, legal holds | trash, restore, queue, claim, purge, settle, requeue, hold | storage, calendars, signature providers, DSAR requests |
| AI agent actions, MCP and OAuth: `apps/web/src/lib/{ai,mcp}` | action receipts, grants, refresh tokens | prepare, confirm, execute once; rotate, revoke | the model, external clients |
| Updates: `apps/web/src/features/updates`, `tooling/harly` | update request, steps | request, claim, back up, migrate, roll back | the host |
| Job scheduler: `tooling/runtime/src/jobs.ts` | timers | call endpoints, never overlap | every background job |
| Authentication, storage, public API, reports, search, import, UI | request-scoped rows | CRUD and rendering | – |

What makes each of the hard ones correct:

* **Run engine.** An effect is not repeated unless the earlier attempt is known to
  have failed; what may have happened and is not known is made explicit
  (`uncertain`) and only lifted by a person; one worker at a time writes; a
  settled node stays settled; a finished run stays finished; cancellation stops
  progress; a paused workspace has no effect in flight; every run ends.
* **Waits and approvals.** A wait is resolved once, by one port, in a race of
  event, deadline, vote and cancellation; no event delivered while the run is
  alive is lost; a quorum is counted over votes that may change until it closes.
* **Policy and admission.** Quotas are never exceeded and a refused reservation is
  refunded; one event creates at most one run per workflow; a run per candidate
  lock admits one run.
* **Outboxes, webhooks, e-mail.** A message is repeated only where a fault or an
  operator's retry accounts for it, attempts are bounded, nothing undelivered
  counts as sent, no row stays claimed; an offer the candidate sees as sent was
  mailed with the terms it shows.
* **Erasure.** Reported only when it happened; objects go before the rows that name
  them; what is under a legal hold stays; every job ends.
* **Pipeline.** No application in a stage that is archived or gone; status and stage
  say the same.
* **Offers, e-signature, tokens, receipts, updates.** A state machine in
  which two requests race: one offer accepted per application, signers in order
  and a document finalized once, a token family revoked on reuse, an action
  executed once per confirmation, an update rolled back to a consistent version.

## 2. Plan

1. **The run engine** (`WorkflowGraph`, `WorkflowRun`): one run, many workers,
   resolvers, operators, crashes. *Done.*
2. Its **abstract specification** (`SequentialRun`) and the refinement
   (`WorkflowRunRefinement`). *Done, proved.*
3. **Proofs** about it (`WorkflowRunInv`, `WorkflowRunProofs`,
   `WorkflowRefinementProofs`): types, no blind replay, pause exclusion, fencing;
   final ends, one resolution per node, cancellation, the refinement. *Done.*
4. **Waits** (`ParkedRun`, extended by `EventWait`): the outbox, the cursor,
   dispatch, reconciliation. *Done for event waits, type and cursor proved.* Next:
   document waits, whose resolver and deadline scan read the package's own state.
5. **Approvals** (`ApprovalWait`) and their abstract specification (`Ballot`).
   *Done, refinement proved.*
6. `EffectQuota`: buckets, the chain's budget, refunds and the circuit breaker
   around an effect. *Done, proved.*
7. `EventDispatch`: runs from events, admission, the due scan, deferral and takeover.
   *Done, proved.* Next: several workspaces' policy rows, lineage depth.
8. The queues: `EmailOutbox` with `OfferMail`, `WebhookQueue`. *Done,
   proved.* Next: `AiJob` over the same lease pattern.
9. The state machines: `CandidateErasure`, `StagePlacement`. *Done, both proved.* Next, one module
   each: `SignatureEnvelope`, `InterviewLedger`, `BoardWriteQueue`, `TokenRotation`,
   `ActionReceipt`, `UpdateRequest`.
10. Proofs for 6-9: type correctness and every safety invariant and action property.
   *Done.*

Each module keeps parameters as CONSTANTS with named assumptions, one action per
transaction, and no RECURSIVE operator, so that it can be proved about.

## 3. Modules

| Module | Models | Extends |
| --- | --- | --- |
| `WorkflowGraph` | a published graph and the pure decision of `runtime/advance.ts` (`advance`) | - |
| `WorkflowRun` | one run: `leases.ts`, `run-store.ts`, `node-store.ts`, `worker.ts`, cancel and retry of `data.ts` | `WorkflowGraph` |
| `SequentialRun` | abstract specification of a run: one token, one outcome per node | `WorkflowGraph` |
| `WorkflowRunInv` | the inductive invariant behind the run's proofs | `WorkflowRun` |
| `WorkflowRunRefinement` | the mapping from `WorkflowRun` to `SequentialRun`, and the invariant it needs | `WorkflowRunInv` |
| `WorkflowRunProofs` | theorems about the run | `WorkflowRunInv` |
| `WorkflowRefinementProofs` | the refinement, and the action properties of the run | `WorkflowRunProofs`, `WorkflowRunRefinement` |
| `ParkedRun` | what all waits share: one run that reaches one wait, is parked, and is woken by its deadline or by a resolver under a lease of its own | - |
| `EventWait` | outbox, cursor, dispatcher, reconciler | `ParkedRun` |
| `ApprovalWait` | votes, count, reassignment, member removal | `ParkedRun` |
| `Ballot` | abstract specification of an approval | - |
| `ParkedRunProofs`, `EventWaitProofs`, `ApprovalWaitProofs` | theorems about waits and approvals | the module they name |
| `EmailOutbox` | rows, claims, deliveries and settlement of the outbox, the delivery log | - |
| `OfferMail` | an offer's life while its mail is on its way: `deliverOffer`, edit, send, decide, withdraw | `EmailOutbox` |
| `EmailOutboxProofs` | theorems about both | `OfferMail` |
| `EventDispatch` | from a stored event to the runs it starts | - |
| `EffectQuota` | what an external effect reserves, gives back and reports | - |
| `WebhookQueue` | outgoing webhooks | - |
| `CandidateErasure` | the erasure job, the purge, holds and restores | - |
| `StagePlacement` | stages that change while applications are placed in them | - |
| `ServiceProofs` | theorems about dispatch, quota, webhooks, erasure and stages | the five modules |
| `MCWorkflowRun`, `MCEventWait`, `MCApprovalWait` | instances for TLC: three small graphs, symmetry sets | |
| `MCServices` | instances of the six services above for TLC | all six |
| `MCServicesProofs` | the types of all six, side by side | `MCServices` and the proofs about them |

### 3.1 State and actions of `WorkflowRun`

The variables are the rows: `run` is the `workflow_runs` row (`logicalStatus`,
cursor node, retry intent, lease owner, fence, cancellation, `nextAttemptAt`),
`exec[n]` and `attempt[n]` the execution row and the latest attempt row of a node,
`enabled` the workspace's pause switch, and `worker[w]` what a worker keeps in
memory between two transactions: the lease (fence, cancellation-only), the row it
loaded *before* it claimed, the attempt it reserved, the outcome in hand.
`canceller` is a cancel request between its read and its transaction, which is
where `requestCancelRun` goes stale. `calls` and `failures` are history.

One action is one transaction. A provider call is two actions (`StartEffect`,
`FinishEffect`) since it happens between transactions and a worker can die or
lose its lease in between. `Valid(w)` is the predicate `valid(lease)` that every
fenced write carries. `Next` is the disjunction of the worker's steps in the order
of `runWorkflowV2` (claim, reconcileStale, resumeDue, then advance / reserve /
policy / permit / call / settle / retry per transition), the resolver's steps
(discover, claim, resolveWaiting, release), the operator's commands and the
environment (crash, lost heartbeat, stall, lease expiry, timers).

* Claims and external reservations take the policy row `FOR UPDATE`, a running
  effect holds it `FOR SHARE` until it returns, and a pause updates it. That is
  `EffectHoldsPolicy`: those transactions wait while an effect runs.
* Time is abstract. A lease is live or expired; `nextAttemptAt` is due, a timer that
  may fire at any moment, or the deadline of the wait. Which of two things happens
  first is left open, so every race with the clock is explored.
* Quotas, lineage budget and circuit breaker refuse nondeterministically; each
  deferral counts against `MaxFaults`, so that liveness is not lost to an endless
  series of refusals.
* A binding of an action's input, or the resource an event wait names, may fail to
  resolve (`UnresolvedBinding`).
* After a refused permit the refund, the release or the deferral may throw; `executeNode`
  takes any exception for an unknown outcome, so the attempt is held as `uncertain`
  although nothing was called (a disjunct of `StartEffect`).
* A deferral after a refused run admission is written by the run's id alone
  (`DeferAdmission`), whatever has become of the run since it was found due; such
  writes on a run that has moved on are bounded with the faults.
* `retryRun` reopens the run at any retryable failed node.
* The `waiting` branch that `runWorkflowV2` takes on the status it loaded before
  its own claim is dead once the claim succeeded and is not a step of its own.
* Document waits appear here as event waits: a port and a deadline.

### 3.2 `ParkedRun`, `EventWait`, `ApprovalWait`

`ParkedRun` cuts the run to one wait so that what resolvers decide *from* can be
modelled in full. `ClaimDue`, `ResumeDue`, then one of `Park`, `MoveOn`,
`FinishCancelled`, `AdvanceLost` are the ordinary worker (`Park` is `advance` and
`registerWait` together: nothing outside reads the run between them);
`ClaimParked`, `ResolveWait` and `Release` are the three transactions of any
resolver (`claim` with `allowWaiting`, `resolveWaiting`, `release`). Resolvers do
not heartbeat, so their lease may lapse between any two of their steps; the
ordinary worker's lapses only by a crash or a stall. The workspace is enabled and below
its concurrency limit: a refused claim ends a resolver's call as a lost race does.

`EventWait` adds `outbox[e]`: a row's identity is drawn when it is inserted in its
producer's transaction (a `GENERATED ALWAYS AS IDENTITY` column) and it becomes
visible when that transaction commits, in any order. `RegisterWait` captures the
greatest visible identity. `Dispatch` is `dispatchWorkflowEvent` with a known
identity, for any event, at any time and any number of times; `DispatchUnordered` is
the same call when the identity is unknown; `Reconcile` picks the first
committed event after the cursor, if this wait is among the `ReconcileLimit` (100 in
the code) that a pass of the scheduler reads: `crowd` counts the waits of other runs
whose rows were updated earlier and which the query takes first. A wait for which
there is no event keeps its `updatedAt`, and so its place. The reconciliation of a
run's own wait just after its registration is a `Dispatch`: nothing is assumed of it. Only events that match the wait's name and
resource are modelled. The dispatch checkpoint of the outbox is left out, since the
reconciler does not read it.

`ApprovalWait` adds `eligible` (the round's reviewers in `inputSnapshot`), `votes`
(first vote stands: `onConflictDoNothing`) and `member`. `RecordVote` is the
transaction of `resolveWorkflowApproval` that renews the lease, rereads the row,
checks membership and assignment, inserts and counts; resolving the wait is the
next transaction, and the count is kept in the request between them (`port`).
`Reassign` empties the votes and replaces the reviewers under its own lease.
`RemoveMember` leaves votes alone, as `removeWorkspaceMemberAction` does.

### 3.3 The services

Each is a module of its own with its own variables. They share no state: what one
hands to the other (a stored event, an enqueued row) is an input of the other's
model. `MCServices` therefore runs them one at a time, from a choice at the start
of a behaviour, and states one fairness condition per kind of progress.

**`EmailOutbox`, `OfferMail`.** `row[r]` is a row of `email_outbox`; `accepted` is
"has a provider id", `unknown` the marker of an unknown outcome in `lastError`.
`worker[w]` is a call of `processEmailOutbox`: the batch its claim returned, the row
in hand and how far its delivery is. `Claim` is the sweep and the claim together
(two statements over disjoint rows); then, row by row, `StartRow` rereads the row,
the provider answers (`ProviderAccepts`, `ProviderRefuses`, `OutcomeLost`),
`RecordAcceptance` writes the id and `MarkSent`, `SettleAccepted`, `MarkFailed`,
`SettleUnknown` settle. None of the settling writes asks for the lock, as in the
code. A fault is a crash, a write whose retries are used up, or a lock that expires
under a live worker; locks of dead workers expire for nothing.
`OfferMail` adds the offer: `SendReads` and `SendEnqueues` are the two halves of
`sendOffer`, `EditReads`, `EditChecks`, `EditWrites` the three of `updateOffer`
(guarded by `updatedAt`: any write of the offer ends a running edit), `OfferChecked`,
`TermsChanged`, `NotDeliverable`, `Acknowledge` the checks of `deliverOffer` before
the mail and `Extend` its transaction afterwards.

**`EventDispatch`.** `dispatcher[d]` is a call of `dispatchWorkflowEvent`: of the
request that stored event `d`, or of the cron, which works through `queue`. For each
workflow the anti-loop check, the admission (a transaction of its own) and the insert
are separate steps. The check has two forms (`Kin`, `Reentrant`): an event that a run's
action emitted is skipped by a workflow that has any run for an event of the same parent
run, whatever its subject and ended or not; any other event by one that has an unfinished
run about its subject started within 30 seconds. The admission counts in two buckets,
the workspace's and the workflow's; a full bucket, a pause or an open circuit refuses
(the last two are bounded with the faults), and a refused run is inserted all the same,
to start later. Any query of a dispatch may throw, before or after its commit
(`DispatchFails`): the event stays unacknowledged and the workflows left are not looked
at; an admission of the due scan that throws skips the run (`SkipDue`). `scan` is the list of due runs an automations tick has read;
`LaunchDue` and `DeferDue` take its items, whatever has become of the run since.
A run's execution is one state here (`running`); its inside is `WorkflowRun`.
`MinutePasses` starts the counts again and makes what was deferred due.

**`EffectQuota`.** `call[x]` is one external effect with the minute of its receipt.
`Reserve`, `PutOff`, `Reject` are the three answers of `reserveExternalActionPolicy`;
`Permit` looks at the pause again under the shared lock; a refused permit is refunded
(`Refund`), or the refund throws before or after its commit. `RecordEffect` feeds the
breaker in the order in which outcomes arrive.

**`WebhookQueue`.** `hook[d]` is a delivery, `caller[c]` a call of
`dispatchDueWebhooks`: the cron's sweep, or the one a request makes for the row it
has just queued. The claim and the read after it are two steps, the endpoint may be
disabled between them; the send and the guarded write of its result are two steps,
the lock may go stale between them.

**`CandidateErasure`.** `job` is the deletion job, `vault` the files of the
candidate's documents: rows, stored objects, holds. A file is a document with its first
version or, by `DocumentOf`, a later version; `Upload` adds either at any time, and the
row of a version goes with its document. A purger is a request (deletion from the trash, or the
fulfilment of an erasure request) or the cron. A request enqueues (`Enqueue`,
`Requeue`: the update names the job by id alone), starts (`Start`) and purges in
place; the cron claims (`ReaperClaims`, `SweepErasure`). `Collect` is every read of
the purge up to the look for holds, `EraseObjects` storage and providers,
`CommitPurge` the transaction (documents that were collected, with every version they
have by then), then the outcome is written if the job still has this
caller's owner id. Lock owners of requests are one per user and action, as in the
code, so two calls of one user share one.

**`StagePlacement`.** `clerk[p]` is a call: what it has read, where it wants the
application, and its phase, from which the row locks it holds are read off
(`HoldsJob`, `SharesJob`, `HoldsRow`, `SharesRow`). A move by API, board or bulk locks
its target, updates its application, which keeps its row until the commit
(`HoldsApplication`), and writes its row of history, whose foreign key waits for the
stage it leaves (`WriteTrail`); decisions and reopenings lock the job; the API's application shares the job
row before it chooses the entry stage, the public form chooses first and meets the
job row only through the foreign key of its insert (`ReferenceJob`). Archive, merge,
kind change, create and delete lock the job, then rows. The trigger
`enforce_application_stage_active` is `Placeable`. Deadlocks are any ring of calls that
wait for each other (`Deadlocked`), and their victims are explicit (`Abort`).

### 3.4 Abstract specifications

`SequentialRun` is a token on the graph: work on the node at the token, move along
the port of its outcome, finish at an end, cancel, retry a known failure, lift a
doubt by hand. `Ballot` is rounds of votes by the reviewers of the round, one each,
closed once by approval, rejection, expiry or cancellation. Neither knows leases,
processes or crashes; `RefinesSequentialRun` and `RefinesBallot` say that the code
shows nothing else. The mapping of the first forgets running and waiting rows
(`pending`) and maps the four active statuses to `open`; that of the second reads
`outcome` off the wait's row.

## 4. Runs

`CHECK_DEADLOCK FALSE` everywhere: a run really ends, and bounded claims,
cancellations and calls run out.

| Run | Shows | States |
| --- | --- | --- |
| `run_safety` | An external action and an approval, with a cancel request, a pause, two deliveries, one fault: no blind replay, pause exclusion, fencing, final ends, no progress after cancellation | 1.9M |
| `run_branch` | A condition, an internal action with an error port, an approval that two answers and the deadline race for, an operator and a fault: failures are routed, a wait is resolved once, refinement of `SequentialRun` | 0.65M |
| `run_liveness` | A delay and an action under fairness: every run finishes | 0.67M |
| `run_attempts_bounded` | violation of `AttemptsBounded` | - |
| `run_stale_resolver` | violation of `WaitingRunHasOpenWait` | - |
| `approval_all` | Rule "all", two reviewers, three votes or reassignments, one fault: decisions justified | 0.5M |
| `approval_any` | Rule "any", a reviewer and an outsider, a cancel request: the same, refinement of `Ballot`, and under fairness every approval closes or its run is cancelled | 1.2M |
| `event_waits` | Two events, two consumers, a fault, a cancel request: nothing at or before the cursor wakes the run, and the reconciler alone brings every later event to an open wait that its passes reach | 0.71M |
| `services` | The six services, each from its initial states: repeats are paid for, nothing undelivered is sent, offers and their mail agree, acknowledged events are handled, executed runs admitted, slots neither lost nor shared, erasures real, held rows and live stages kept, history chained | 0.70M |
| `services_liveness` | Mail, dispatch, webhooks and erasure under fairness: every row, event, run, delivery and job reaches an end | 67k |
| `erasure_held_object` | violation of `HeldObjectsRemain` | - |
| `stage_status_disagrees` | violation of `StatusMatchesStage` | - |

What each counterexample means is in section 7.

**Bounds.** Two processes suffice for every race of the code, which is always
between the holder of the lease and one that lost or wants it; the proofs cover
any number. `MaxFence` 3 to 8 lets a run be claimed, lost,
taken over and woken again. `MaxFaults = 1` puts one crash or stall at every step,
beside unlimited lapses of resolver leases. Two attempts (`MaxAttempts = 2`) have a
first failure, a retry and the end of retries. One cancel request and one pause
cover each of their races with the run; two deliveries race each other for one
wait in `run_safety` and `run_branch`. The three graphs between them have an external action, an
internal one, a condition, an error port, a delay, an approval, and ends of both
kinds. Two events allow one at or before the cursor and one after it, with commits
out of order. One wait per pass and one other wait (`ReconcileLimit`, `MaxCrowd`) are a
crowd and none. Two actors give a quorum of two, or a reviewer and an
outsider; three calls allow vote, reassignment and vote. A pause is explored around
the external action (`run_safety`); for internal ones `PauseIsExclusive` is proved.
In the liveness runs `MaxFence` is larger than the number of claims that the other
bounds allow, so that no behaviour stops because claims run out; symmetry is only
used for safety. `run_liveness` has no pause: an operator may pause and resume
for ever.

Of `services`: two rows, one of an offer, and two workers, with two values of terms:
each race between two holders of a row and between the mail and an edit. Two
attempts, one fault, one command (`RepeatsArePaid` is proved for any number). Two events
and two workflows (`Setup`): both events start the same workflow about one subject, or
about two subjects but from one parent run, or the first always fails ahead of the
second. Three admissions per minute in the workspace and two per workflow
(`MinuteLimit`, `WorkflowLimit`), so that retries of a failing event and a due scan meet
either bucket full; one due run per tick (`DueBatch`), one request at a time
(`MaxRequests`) beside the cron, so that deferral, takeover and both anti-loop checks all
occur. Three effects of two
workflows share a space limit of two, a workflow limit of one and a chain budget of
two, over two minutes. Two deliveries, two tries and two faults. Two documents, a
later version of one, two requests of one user and the cron, three commands, one fault. Three stages, two
applications, two calls at a time and three in all (`MaxCalls`): a call, the one it
races with, and the one that finds what they left. Workers and clerks are
interchangeable there. `services_liveness` has one worker, one delivery, one document,
one command for the mail and two for the erasure, and leaves out the setup of one
subject, so that TLC can hold the graph; a dead worker and its successor are
calls of the same name. Its fault bounds end, after which the system must settle.

## 5. Fairness

* `WF(WorkerStep(w))`, `WF(ProcessStep(p))`: a process that is running takes its
  next step; a crash or a stall is a step of its own and bounded.
* `WF(LoadRunContext(w))`, `WF(ClaimDue(p))`, `WF(Reconcile)`: the cron endpoint
  `app/api/cron/automations` claims due runs and reconciles event waits on every tick.
* `WF(LeaseExpires)`, `WF(TimerFires)`, `WF(DeadlinePasses)`: PostgreSQL's clock
  passes every instant that is stored in a row.
* `WF(CancelCommit)`, `WF(ResumeWorkspace)`: an accepted cancel request commits; in
  `run_liveness` no workspace is ever paused.

Nothing is assumed of voters, reviewers, operators, event producers or the
dispatcher, which is best effort by its own comment. In `EventWait` nothing is
assumed of the deadline either: `EveryEventHeard` must not be true because the
wait expired. `Reconcile` is fair only while the wait is among those a pass reads; the
property is about a wait that comes to be, and stays, one of them (`<>[]Reached`).

In `services_liveness` weak fairness is assumed of the same things: calls that are
running go on (`WorkerStep`, `CronStep`, `CallStep`, `PurgeStep`), the scheduler calls
the crons again and again (`Claim` of the whole queue, `ScanStep`, `ReaperClaims`), the
clock passes (`MinutePasses`, retries become due, the locks of calls that died expire),
and a run that executes ends (`RunEnds`, which `EveryRunFinishes` shows of the engine).
Strong fairness is assumed once, of `StartRow`: a batch whose time budget is used up
gives its rows back, and it cannot be that every batch, for ever, is used up before it
reaches a given row (the budget starts with the first row of each batch). Nothing is assumed of endpoints, providers, storage
or people: what does not answer or always refuses must end too.

## 6. Proofs

All theorems hold for any graph, any number of processes, reviewers, events,
messages, documents, stages and calls, and any bounds; they rest on the named
assumptions of the modules (constants are in their sets, `None` is nobody, an approval
names at least one reviewer - `definition/validate.ts:293`, pipelines begin as rows of
their type, and the workers of the mail, the effects and the events are finitely many) and
on nothing else.

* `WorkflowRunProofs!TypeCorrect`: types, one lemma per action.
* `WorkflowRunProofs!NeverReplaysBlindly`. "`calls[n]` exceeds `failures[n]` by
  at most one" is not inductive: a worker with a reserved attempt is about to make
  the next call, and what forbids it is spread over the rows. `IInv` says so: fences
  name one claim (`FencesDistinct`), a valid holder works at the cursor
  (`HolderAtCursor`), a failed node is reserved again only under durable retry
  intent (`RetryIsIntended`), intent is written only after a retryable failure was
  persisted (`RetryHasEvidence`) and never survives into a doubtful end
  (`DoubtDropsIntent`), and a pending attempt of a node finds its calls accounted
  for and nobody else pending (`CallsAccounted`).
* `PauseIsExclusive`, `HolderWritesAlone`: the pause and the fence, from the
  same invariant.
* `WorkflowRefinementProofs`. What a run did reads like one token that walks the graph and
  resolves each node once, although rows are written by workers that die, resolvers
  that are late and operators. `IInv` does not carry that: an outcome in a worker's
  hands was computed before the transaction that stores it. `SInv` adds what every
  such holder knows. Work is open, or in doubt, only at the cursor (`RowsAtCursor`); a row
  is one its kind of node can have (`RowsFit`), and so are a worker's step and the
  outcome in its hands (`WorkFits`). A cancel request gives up a wait only
  together with the run (`ParkedEndsRun`), a finished run has no lease
  (`FinishedIsReleased`), and a lease taken for a cancellation sees it and works on nothing
  (`CancelOnlySees`, `CancelOnlyIdles`).
  The proof does not go through the actions twice: `ShapeOfStep` shows that every step
  has one of ten shapes (it leaves the rows alone, requeues the run, ends a lease or
  fires a timer, is one turn of the cursor's node, ends the run, moves the cursor, lets
  the deadline pass, commits a cancellation, reopens the run, or resolves a doubt), and each shape keeps
  `SInv` (`SequentialInvariant`) and is a step of `SequentialRun` or a stutter
  (`RunRefinesSequential`). `FinishedRunsAreFinal`, `NodesResolveOnce` and
  `CancellationStopsProgress` are read off the same shapes.
  Two definitions had overlapping `CASE` arms, of which TLA+ chooses any
  and TLC the first; the proof would not go through for the others. They are `IF` chains
  now, in the order of the code's early returns (`EndStatus`, `LeavingPorts`).
* `ApprovalWaitProofs`: the count of votes crosses two transactions.
  `PendingIsTally` carries it: as long as the row still names the process that
  counted as lock owner - even if its lease lapsed - its `port` is the count of the
  rows as they are, because every change of a round needs the lock. With
  `VotesOfRound` (no vote by anyone outside the round) and `PortSettled` (an open
  wait has no port) this gives `DecisionIsJustified`, and step by step
  `ApprovalRefinesBallot`: a shared step closes the ballot with its count, abandons
  it or stutters; `RecordVote` casts or stutters; `Reassign` is `NewRound` or
  stutters.
* `EventWaitProofs!OlderEventsNeverWake`: a consumer compares the cursor two transactions
  before it resolves; the comparison stays true since the cursor moves only
  while there is no wait row (`CarriesAfterCursor`, `JobFits`, `HeardOnce`).
  All of it is under `spent.calls = 0`, no dispatch without an identity so far.
  `TypeCorrect` includes that the captured cursor is an identity or 0, for which
  `MaxBounded` proves that a nonempty bounded set of naturals has its maximum.
* `ParkedRunProofs`: type preservation of the shared steps, used by both.

* `EmailOutboxProofs`. `OutboxTyped` carries the types of outbox and offer and that a
  pending row has an attempt left. `RepeatsArePaid`: "deliveries are at most 1 plus
  faults and retries" says nothing of the workers that are about to deliver again, so
  `PotentialPaid` counts, for each row, what was delivered, the workers whose delivery
  is under way (`Engaged`), the batches that will still start it (`AboutToStart`) and
  the one claim that a pending, abandoned or resettable row allows (`Unclaimed`). A
  step only moves one of these into another, a fault or a retry adds one and pays
  for it. Cardinalities of sets of workers are handled by three lemmas
  (one more, one less, the same). `SentMeansMailed` follows a message through the
  phases of a delivery: what is recorded, settling or accepted was delivered, and an
  offer becomes sent only by a row with its terms. `SentWasDelivered` is the part of it
  about rows; `LateCallbacksAreHarmless` follows from the checks the transaction repeats.
* `ServiceProofs`, erasure. That stored objects stay named by a row
  (`NoOrphanObjects`) says nothing of a purge that is about to delete rows.
  `ErasureInv` adds what such a purge knows: none of the objects of the documents it
  has seen is left when it commits, what it has seen existed, so a document
  uploaded meanwhile is never among it, and of a document it has seen it has seen every
  version but those that came later (`ObjectsNamed`); and a call that reports
  success found the candidate erased (`SuccessIsErasure`), which is why a late call,
  or one whose lock was taken over, completes the job only for an erased candidate.
  A purge that dies between its objects and its rows leaves rows without objects,
  never the reverse, late versions apart. `HeldRowsSurvive` follows from the foreign key's guard.
  The bound on a job's attempts (`ErasureAttemptsAreBounded`) is not `MAX_ATTEMPTS`: a
  request or an operator may queue a job whose attempts are used up, and queueing by an
  automation or a request does not reset them. `AttemptsPaid` counts the attempts
  made, the one a pending job is promised and the requests that may still queue it,
  against the limit and the commands and requests so far.
* `ServiceProofs`, quota. `StartedIsCharged` and `SlotsComeBack` relate counters to sets of
  effects. `QuotaInv` says of each effect which of its charges stand
  (`Charged`, `ChargedTo`, `ChargedEver`: reserved, started, or refused with the refund
  still owed) and that counters are at least as many as those, and the chain's at most
  as many and the crashes that swallowed a refund. One reservation, one refund, one crash
  changes each side by the same one.
* `ServiceProofs`, webhooks. `HooksArePaid` is again a potential: deliveries received, the
  one the queueing call may still send, the one the sweep may send, and the one claim that
  the row's state allows (`HookClaimable`) are together at most 1 plus the faults. It
  needs that a row's lock names whoever is about to send it, or someone who died. A
  demo deployment, whose rows stay claimed, sends nothing.
  `HookOutcomesAreFinal`: no step writes a row that succeeded or is exhausted, and tries
  are counted by the lock's holder only.
* `ServiceProofs`, dispatch. Acknowledgement comes several transactions after the checks
  it rests on. `DispatchInv` has, for each call, that what its pass has put behind it is
  handled (a run exists for the event, or the anti-loop check saw one for an event of its
  kin: of the same parent run, or about the same subject where there is no parent),
  and that the counts fit both buckets; and, for
  each run, that an admission precedes every state from which it can be launched - also
  for items of a scan whose run has moved on since (`AcknowledgementsAreHandled`,
  `ExecutionsAreAdmitted`).
* `ServiceProofs`, stages. That nobody is placed in a stage that is archived or gone is
  a matter of what each call knew when it chose the stage, and of which lock kept it
  true. `PlacementInv` has for each call what its phase needs (`Equipped`), what it
  read of its application and which still holds unless the call will be told
  (`Informed`), what its locks keep true of the stage it chose, checked or inserted
  into, and that a merge moves everything that is in the stage and nothing else
  (`Protected`: a move out of the stage waits for the key of its row of history), that
  an application being sent is the business of one call (`Apart`), and the locks
  themselves (`Locks`: one holder of the job and of an application, no placement shares
  a stage row that is under change). A lemma for the calls that go on and one for the calls that commit
  reduce each action to what it knows; `HistoryNamesTheStageLeft` is `Informed` at the
  moment of the write. `OtherwiseStatusMatches` excludes, by definition, the
  applications the counterexample of `stage_status_disagrees` is about.

* `MCServicesProofs!ServicesTyped`: the six services share no variable, so each keeps the
  others' invariants; with the invariants above this gives the types of all, the bounds
  on attempts, admissions, tries, aborts and calls among them.

Every safety invariant and every action property of the passing runs is proved, and both
refinements are. Only model-checked: liveness (`EveryRunFinishes`, `EveryEventHeard`, `ApprovalCloses`,
`RowsSettle`, `EventsDispatched`, `RunsEnd`, `HooksSettle`, `ErasureSettles`), since fairness and
ENABLED are out of the provers' reach. The properties of section 7 have counterexamples
and are not theorems.

## 7. Where the code and its documents disagree

Each is the counterexample of a run that checks what a comment or
`src/docs/automations-product-plan.md` says.

| Run | What happens |
| --- | --- |
| `run_attempts_bounded` | After the last allowed attempt fails the retry intent is still on the row, so `advance` asks for the node once more in the same invocation: a condition that always fails is attempted beyond `maxAttempts`. |
| `run_stale_resolver` | A second resolver that finds the wait already resolved releases the run as `waiting`; no open wait is left, and nothing claims the run again. |
| `erasure_held_object` | A hold placed after the purge has looked for holds saves the document's row, by its foreign key, and not its object, which is erased before (`features/candidates/data.ts:2235-2284`; `schema.ts:2289` says physical objects remain untouched). |
| `stage_status_disagrees` | The public form (`features/applications/data.ts:419`), the portal, the import and the pool choose the entry stage without the job's lock, which only the API takes: an application is filed active in a stage that has just become an outcome. |

Others were found with the same models. Where a property states them it is
in the module, and the models refute it; they have no run of their own:

* `CancelledWorkIsReconciled` (`WorkflowRun`): a cancel request that read the run before
  a worker claimed it ends the run under that worker; its attempt stays `running` and
  nobody reconciles it (`automations/data.ts:808`; the plan, line 777, says a successor does);
* `FirstDecisionResolves` (`ApprovalWait`): under rule "any", a recorded approval whose
  request died before resolving is overruled by the next reviewer's rejection (the
  plan, line 504);
* `CursorCoversLaterCommits` (`EventWait`): an event inserted before a registration and
  committed after it, beside a younger committed one, is below the cursor and never
  heard (`node-store.ts:363-366`);
* `SchedulerHearsEveryEvent` (`EventWait`): a pass of the scheduler reads the 100 open
  event waits that were updated least recently, of all workspaces, and leaves those
  without an event in their place; a wait behind 100 such is never looked at, and an
  event whose dispatch was lost does not wake it before its deadline
  (`worker.ts:1022-1023`; the comment at 448 says the durable scheduler repeats the
  reconciliation);
* `ExpiresOnlyWithoutFact` (`EventWait`): an event committed within the term and not
  yet delivered does not keep the wait from expiring (the plan, line 490);
* `MailedOfferIsSent` (`OfferMail`): when the draft is edited or its application closed
  while its mail is on its way, the row is sent and the offer stays a draft
  (`outbox-processor.ts:1182-1243`; `offers/actions.ts:602-604`);
* `EveryEventStarts` (`EventDispatch`): the second of two events of one subject within 30
  seconds, or of two that one parent run emitted, about whatever subjects, starts no run
  and is acknowledged (`dispatch.ts:254-285`, `458-481`; the plan, line 478,
  wants deduplication by event, not by time);
* `RunsAtATime` (`EventDispatch`): the limit on concurrent runs is not compared when a
  claim allows cancellation, and the ordinary worker's always does (`leases.ts:85`);
* `DemoQueueDrains` (`WebhookQueue`): a demo deployment reports a delivery as done and
  leaves its row claimed; it is claimed again every five minutes
  (`server/webhooks/dispatch.ts:51-60`);
* `PurgeFailsClosed` (`CandidateErasure`): a version added to a document after the purge
  has read the document's versions loses its row, by cascade, and leaves its object
  (`data.ts:2157-2178`, `2563-2571`; the comment at 2251-2253);
* `FulfilledMeansErased` (`CandidateErasure`): a candidate restored during a purge stays,
  without its rows, and the erasure request is noted as fulfilled (`data.ts:2582-2608`);
* a released hold still blocks the erasure, since the purge looks at the hold's row and
  not at its release (`data.ts:2235-2242`; `docs/operations/candidate-deletion.md:31`);
* the plan (line 480) wants a single probe after a circuit's cooldown; every waiting
  call is admitted (`CoolsDown`);
* the comment at `stage-lifecycle.ts:194` that lifecycle operations cannot deadlock holds
  among themselves; with a new application, which holds its stage and waits for the
  job, an archive, kind change or deletion can, and with a move, which holds its
  application and waits for the stage it leaves (the foreign key of
  `from_stage_id`), an archive can; only archives retry;
* a cancel request that read the run just before it was parked leaves the wait open
  in the cancelled run (`data.ts:808`; the plan, line 474, says waits are resolved
  as cancelled);
* a paused retry that is put back deletes the node's row and, by cascade, the failed
  attempts before it (`node-store.ts:236`; the plan, line 439, calls attempts
  append-only);
* a dispatch whose lookup of the event's identity failed is not compared with the
  cursor and may wake a later wait (`dispatch.ts:151`), which is why
  `OlderEventNeverWakes` is stated for histories without one (`spent.calls = 0`).

## 8. Not modelled

* Inside the modelled parts: payloads, inputs, outputs and expressions; several
  runs, so run locks and the concurrency limit; the counters behind the policy's
  refusals in `WorkflowRun` (they are in `EffectQuota`); document packages; heartbeats of `ParkedRun`'s ordinary worker (its
  lease lapses only by a fault) and its pause switch (modelled in `WorkflowRun`);
  pruning of the outbox; `replay` of a run and the legacy engine.
* A resolver that dies after its claim leaves the run `running`: votes and events,
  which look for a `waiting` run, find nothing until the deadline makes the run
  due. The models have this behaviour (`Abandoned` in `EventWait`); no line of the
  repository promises otherwise.
* In the services: rendering, recipients, sample recipients and kinds of mail other than
  an offer's; sibling offers and offer approval; signing and endpoint checks of
  webhooks; the lineage depth of runs, except as the end of what an event matches; that the
  anti-loop check looks at the five most recent running runs only and compares sets of
  ids, here one subject; the drain of runs of the legacy engine; several workspaces; anonymization and retention;
  the order of stages and cards; the deletion of old rows by retention jobs. In
  `CandidateErasure` a job's two dedupe keys are one, and a document uploaded after
  `Collect` keeps its object by its row, while a résumé, which has a row that cascades,
  loses it, as the late version of a document does (`PurgeFailsClosed`).
* A permit holds a database connection for as long as its effect runs
  (`operational-policy.ts:86`): an exhausted pool is outside these models.
* Whole components: those marked `not_modelled` in `PROJECT.json`, in the order of
  the plan. Authentication, storage, rendering, search, import and reports are
  request-scoped reads and writes with no protocol between them.
