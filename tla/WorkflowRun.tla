---------------------------- MODULE WorkflowRun ----------------------------
(***************************************************************************)
(* One durable v2 workflow run, as the workers, wait resolvers, operators  *)
(* and the clock drive it (features/automations/runtime: leases.ts,        *)
(* run-store.ts, node-store.ts, worker.ts; data.ts for cancel and retry).  *)
(*                                                                         *)
(* Every database transaction of the code is one action; the provider call *)
(* is two (StartEffect, FinishEffect) because it happens between           *)
(* transactions.  A worker keeps between its steps exactly what the code   *)
(* keeps in memory: its lease, the run row it loaded before claiming, the  *)
(* attempt it reserved and the outcome it holds.                           *)
(*                                                                         *)
(* Time is abstract.  A lease is live or expired, a run's nextAttemptAt is *)
(* "due", a "timer" that may fire at any moment, or the "deadline" of the  *)
(* wait it is parked on.                                                   *)
(***************************************************************************)
EXTENDS Naturals, WorkflowGraph

CONSTANTS
  Worker,          \* processes that run workers and wait resolvers
  None,            \* no worker, no node
  External,        \* the action nodes whose tool has effect external_write
  MaxAttempts,     \* workflow_runs.max_attempts, 3 by default
  MaxTransitions,  \* transitions of one invocation, 256 by default
  MaxFence,        \* bound: claims of the run
  MaxFaults,       \* bound: crashes, stalls, heartbeat and quota failures
  MaxOperator,     \* bound: operator retries, resolutions and cancel requests
  MaxPauses,       \* bound: workspace pauses
  MaxDeliveries    \* bound: events and approvals that find the run waiting

ASSUME WorkflowRunAssumption ==
  /\ None \notin Worker /\ None \notin Node
  /\ External \subseteq Node
  /\ \A b \in {MaxAttempts, MaxTransitions, MaxFence, MaxFaults, MaxOperator,
               MaxPauses, MaxDeliveries} : b \in Nat

VARIABLES
  run,        \* the workflow_runs row
  exec,       \* the workflow_node_executions row of each node
  attempt,    \* the latest workflow_node_attempts row of each node
  worker,     \* the local state of each worker
  enabled,    \* workspace_automation_policies.enabled
  canceller,  \* a cancel request between its read and its transaction
  calls,      \* history: provider or service calls started, per node
  failures,   \* history: attempts that settled as failed, per node
  spent       \* how much of each bound has been used

vars == <<run, exec, attempt, worker, enabled, canceller, calls, failures, spent>>

Active == {"queued", "retrying", "running", "waiting"}
RunStatuses == Active \cup FinishStatuses

NoExec == [status |-> "none", port |-> "none", retryable |-> FALSE, expired |-> FALSE]
NoAttempt == [no |-> 0, fence |-> 0, status |-> "none"]
NoOutcome == [status |-> "none", port |-> "none", retryable |-> FALSE]
IdleWorker == [pc |-> "idle", fence |-> 0, cancelOnly |-> FALSE, snap |-> None,
               node |-> None, attemptNo |-> 0, outcome |-> NoOutcome,
               steps |-> 0, lost |-> FALSE]
NoCancel == [pc |-> "idle", terminal |-> FALSE, parked |-> FALSE]

Init ==
  /\ run = [status |-> "queued", cursor |-> Entry, retryNode |-> None,
            lockedBy |-> None, fence |-> 0, live |-> FALSE, cancel |-> FALSE,
            wake |-> "due"]
  /\ exec = [n \in Node |-> NoExec]
  /\ attempt = [n \in Node |-> NoAttempt]
  /\ worker = [w \in Worker |-> IdleWorker]
  /\ enabled = TRUE
  /\ canceller = NoCancel
  /\ calls = [n \in Node |-> 0]
  /\ failures = [n \in Node |-> 0]
  /\ spent = [faults |-> 0, operator |-> 0, pauses |-> 0, deliveries |-> 0]

-----------------------------------------------------------------------------
(* The lease: what every fenced write of the code requires (valid, renew). *)

\* Mutant: a fenced write that forgets the cancellation flag.
ValidDespiteCancel(w) ==
  /\ run.status = "running" /\ run.lockedBy = w
  /\ run.fence = worker[w].fence /\ run.live

Valid(w) ==
  /\ run.status = "running"
  /\ run.lockedBy = w
  /\ run.fence = worker[w].fence
  /\ run.live
  /\ worker[w].cancelOnly \/ ~run.cancel

\* Mutant: an expired lease is never taken over.
NotHeldOnlyReleased == run.lockedBy = None

NotHeld == run.lockedBy = None \/ ~run.live

Unlocked(r) == [r EXCEPT !.lockedBy = None, !.live = FALSE]

\* Mutant: effects run without holding the policy row.
EffectHoldsNothing == FALSE

\* Claims and external reservations take the workspace policy row FOR UPDATE,
\* pausing updates it; a running effect holds it FOR SHARE until it returns.
EffectHoldsPolicy == \E w \in Worker : worker[w].pc = "calling"

Goto(w, pc) == worker' = [worker EXCEPT ![w].pc = pc]
Leave(w) == worker' = [worker EXCEPT ![w] = IdleWorker]

\* What one transition held in memory is gone when the next one begins.
Continue(w, pc) ==
  worker' = [worker EXCEPT ![w] = [@ EXCEPT !.pc = pc, !.node = None,
                                            !.attemptNo = 0, !.outcome = NoOutcome]]
Spend(bound) == spent' = [spent EXCEPT ![bound] = @ + 1]

Granted(w, pc) ==
  /\ run.fence < MaxFence
  /\ run' = [run EXCEPT !.status = "running", !.lockedBy = w, !.live = TRUE,
                        !.fence = @ + 1]
  /\ worker' = [worker EXCEPT ![w] = [@ EXCEPT !.pc = pc, !.fence = run.fence + 1,
                                               !.cancelOnly = run.cancel]]

\* Mutant: a wait is resolved without looking at its node row.
OpenWaitAnyRow(n) == Kind[n] \in WaitKinds /\ attempt[n].no > 0

OpenWait(n) == exec[n].status = "waiting" /\ attempt[n].status = "waiting"

-----------------------------------------------------------------------------
(* Discovery and claim by an ordinary worker (runWorkflowV2).              *)

DueRun == run.status \in Active /\ ~run.live /\ run.wake = "due"

\* The run row is loaded before the claim and never read again.
LoadRunContext(w) ==
  /\ worker[w].pc = "idle"
  /\ DueRun
  /\ worker' = [worker EXCEPT ![w] = [@ EXCEPT !.pc = "claim", !.snap = run.retryNode]]
  /\ UNCHANGED <<run, exec, attempt, enabled, canceller, calls, failures, spent>>

\* The scheduler charges a queued run against its quotas before running it.  A refusal is
\* written by the run's id alone: it may find the run claimed, parked or finished since the
\* scan read it.  A workspace that stays paused refuses every time, other refusals are few.
DeferAdmission ==
  /\ \/ /\ DueRun /\ run.status \in {"queued", "retrying"} /\ ~enabled
        /\ ~EffectHoldsPolicy /\ UNCHANGED spent
     \/ spent.faults < MaxFaults /\ Spend("faults")
  /\ run' = [run EXCEPT !.wake = "timer"]
  /\ UNCHANGED <<exec, attempt, worker, enabled, canceller, calls, failures>>

Claimable ==
  /\ run.status \in Active
  /\ NotHeld
  /\ \/ run.cancel
     \/ /\ run.wake = "due"
        /\ \/ run.status # "waiting"
           \/ \E n \in Node : exec[n].status = "waiting" /\ exec[n].expired

Claim(w) ==
  /\ worker[w].pc = "claim"
  /\ ~EffectHoldsPolicy
  /\ IF Claimable THEN Granted(w, "reconcile") ELSE Leave(w) /\ UNCHANGED run
  /\ UNCHANGED <<exec, attempt, enabled, canceller, calls, failures, spent>>

-----------------------------------------------------------------------------
(* Recovery under the new fence.                                           *)

Stale(n, fence) ==
  /\ exec[n].status = "running"
  /\ attempt[n].status = "running"
  /\ attempt[n].fence < fence

\* Mutant: recovery deletes the interrupted node, so that it runs again.
ReconcileStaleForgets(w) ==
  /\ worker[w].pc = "reconcile"
  /\ exec' = [n \in Node |-> IF Valid(w) /\ Stale(n, worker[w].fence) THEN NoExec
                             ELSE exec[n]]
  /\ Goto(w, "resume")
  /\ UNCHANGED <<run, attempt, enabled, canceller, calls, failures, spent>>

\* A running attempt of an older fence becomes an explicit uncertainty.
ReconcileStale(w) ==
  /\ worker[w].pc = "reconcile"
  /\ IF Valid(w)
     THEN /\ exec' = [n \in Node |-> IF Stale(n, worker[w].fence)
                        THEN [exec[n] EXCEPT !.status = "uncertain", !.retryable = FALSE]
                        ELSE exec[n]]
          /\ attempt' = [n \in Node |-> IF Stale(n, worker[w].fence)
                           THEN [attempt[n] EXCEPT !.status = "uncertain"]
                           ELSE attempt[n]]
     ELSE UNCHANGED <<exec, attempt>>
  /\ Goto(w, "resume")
  /\ UNCHANGED <<run, enabled, canceller, calls, failures, spent>>

ResolvedWait(n, port) ==
  /\ exec' = [exec EXCEPT ![n] = [@ EXCEPT !.status = "succeeded", !.port = port]]
  /\ attempt' = [attempt EXCEPT ![n].status = "succeeded"]

\* An expired wait is resolved through its deadline port.
ResumeDue(w) ==
  /\ worker[w].pc = "resume"
  /\ \/ \E n \in Node :
          /\ Valid(w) /\ OpenWait(n) /\ exec[n].expired
          /\ ResolvedWait(n, IF Kind[n] = "delay" THEN "elapsed" ELSE "expired")
     \/ /\ ~Valid(w) \/ \A n \in Node : ~(OpenWait(n) /\ exec[n].expired)
        /\ UNCHANGED <<exec, attempt>>
  /\ Goto(w, "loop")
  /\ UNCHANGED <<run, enabled, canceller, calls, failures, spent>>

-----------------------------------------------------------------------------
(* The transition loop.                                                    *)

NextTransition(w) ==
  /\ worker[w].pc = "loop"
  /\ IF worker[w].steps = MaxTransitions THEN Goto(w, "fail")
     ELSE IF worker[w].lost THEN Leave(w)
     ELSE IF ~worker[w].cancelOnly /\ ~enabled THEN Goto(w, "defer")
     ELSE worker' = [worker EXCEPT ![w] = [@ EXCEPT !.pc = "advance",
                                               !.steps = worker[w].steps + 1]]
  /\ UNCHANGED <<run, exec, attempt, enabled, canceller, calls, failures, spent>>

\* Mutant: deferral writes a status the column does not have.
DeferPausedUnknownStatus(w) ==
  /\ worker[w].pc = "defer"
  /\ run' = IF Valid(w) THEN [Unlocked(run) EXCEPT !.status = "paused"] ELSE run
  /\ Leave(w)
  /\ UNCHANGED <<exec, attempt, enabled, canceller, calls, failures, spent>>

DeferPaused(w) ==
  /\ worker[w].pc = "defer"
  /\ run' = IF Valid(w)
            THEN [Unlocked(run) EXCEPT !.status = "queued", !.wake = "timer"]
            ELSE run
  /\ Leave(w)
  /\ UNCHANGED <<exec, attempt, enabled, canceller, calls, failures, spent>>

AdvanceFinish(w) ==
  /\ worker[w].pc = "advance" /\ Valid(w)
  /\ \E s \in FinishStatuses :
       /\ FinishesAs(run, exec, s)
       /\ run' = [Unlocked(run) EXCEPT !.status = s, !.retryNode = None]
  /\ Leave(w)
  /\ UNCHANGED <<exec, attempt, enabled, canceller, calls, failures, spent>>

AdvanceNext(w) ==
  /\ worker[w].pc = "advance" /\ Valid(w)
  /\ \E m \in Node :
       /\ MovesTo(run, exec, m)
       /\ run' = [run EXCEPT !.cursor = m, !.retryNode = None]
  /\ Goto(w, "loop")
  /\ UNCHANGED <<exec, attempt, enabled, canceller, calls, failures, spent>>

AdvanceWork(w) ==
  /\ worker[w].pc = "advance" /\ Valid(w)
  /\ RequestsWork(run, exec)
  /\ worker' = [worker EXCEPT ![w] = [@ EXCEPT !.node = run.cursor,
                  !.pc = IF Kind[run.cursor] \in WaitKinds THEN "wait" ELSE "reserve"]]
  /\ UNCHANGED <<run, exec, attempt, enabled, canceller, calls, failures, spent>>

AdvanceLost(w) ==
  /\ worker[w].pc = "advance" /\ ~Valid(w)
  /\ Leave(w)
  /\ UNCHANGED <<run, exec, attempt, enabled, canceller, calls, failures, spent>>

TransitionLimit(w) ==
  /\ worker[w].pc = "fail"
  /\ run' = IF Valid(w) THEN [Unlocked(run) EXCEPT !.status = "failed"] ELSE run
  /\ Leave(w)
  /\ UNCHANGED <<exec, attempt, enabled, canceller, calls, failures, spent>>

-----------------------------------------------------------------------------
(* Waits: the node row is created and the run parked in one transaction.   *)

\* Mutant: the cursor is compared without the lease.
AtCursorUnfenced(w) == run.cursor = worker[w].node

AtCursor(w) == Valid(w) /\ run.cursor = worker[w].node

RegisterWait(w) ==
  LET n == worker[w].node IN
  /\ worker[w].pc = "wait" /\ AtCursor(w) /\ exec[n].status = "none"
  /\ exec' = [exec EXCEPT ![n] = [NoExec EXCEPT !.status = "waiting"]]
  /\ attempt' = [attempt EXCEPT ![n] = [no |-> 1, fence |-> worker[w].fence,
                                        status |-> "waiting"]]
  /\ run' = [Unlocked(run) EXCEPT !.status = "waiting", !.wake = "deadline"]
  /\ Leave(w)
  /\ UNCHANGED <<enabled, canceller, calls, failures, spent>>

\* The wait is already registered (an earlier claim was lost) or resolved.
WaitExists(w) ==
  LET n == worker[w].node IN
  /\ worker[w].pc = "wait" /\ AtCursor(w) /\ exec[n].status # "none"
  /\ IF exec[n].status = "waiting"
     THEN run' = [Unlocked(run) EXCEPT !.status = "waiting"] ELSE UNCHANGED run
  /\ IF exec[n].status = "succeeded" THEN Continue(w, "loop") ELSE Leave(w)
  /\ UNCHANGED <<exec, attempt, enabled, canceller, calls, failures, spent>>

WaitRejected(w) ==
  /\ worker[w].pc = "wait" /\ ~AtCursor(w)
  /\ Leave(w)
  /\ UNCHANGED <<run, exec, attempt, enabled, canceller, calls, failures, spent>>

-----------------------------------------------------------------------------
(* Conditions and actions: reserve an attempt, work outside the database,  *)
(* settle the attempt under the same fence.                                *)

\* A fresh node, or a known failure this worker was loaded to retry.
MayAttempt(w, n) ==
  \/ exec[n].status = "none"
  \/ exec[n].status = "failed" /\ worker[w].snap = n

Reserve(w) ==
  LET n == worker[w].node IN
  /\ worker[w].pc = "reserve" /\ AtCursor(w) /\ MayAttempt(w, n)
  /\ exec' = [exec EXCEPT ![n] = [NoExec EXCEPT !.status = "running"]]
  /\ attempt' = [attempt EXCEPT ![n] = [no |-> @.no + 1, fence |-> worker[w].fence,
                                        status |-> "running"]]
  /\ worker' = [worker EXCEPT ![w] = [@ EXCEPT !.attemptNo = attempt[n].no + 1,
                  !.pc = IF Kind[n] = "condition" THEN "evaluate" ELSE "policy"]]
  /\ UNCHANGED <<run, enabled, canceller, calls, failures, spent>>

\* Any other existing row is never permission to work again; the loop goes on
\* (an attempt still running was reconciled when this lease began).
ReserveExisting(w) ==
  /\ worker[w].pc = "reserve" /\ AtCursor(w)
  /\ ~MayAttempt(w, worker[w].node)
  /\ Continue(w, "loop")
  /\ UNCHANGED <<run, exec, attempt, enabled, canceller, calls, failures, spent>>

ReserveRejected(w) ==
  /\ worker[w].pc = "reserve" /\ ~AtCursor(w)
  /\ Leave(w)
  /\ UNCHANGED <<run, exec, attempt, enabled, canceller, calls, failures, spent>>

Succeeded(port) == [status |-> "succeeded", port |-> port, retryable |-> FALSE]
Failed(retryable) == [status |-> "failed", port |-> "none", retryable |-> retryable]
Uncertain == [status |-> "uncertain", port |-> "none", retryable |-> FALSE]

Holding(w, outcome) ==
  worker' = [worker EXCEPT ![w] = [@ EXCEPT !.pc = "settle", !.outcome = outcome]]

\* Conditions read the database; a failed read is retryable.
EvaluateCondition(w) ==
  /\ worker[w].pc = "evaluate"
  /\ \E o \in {Succeeded("true"), Succeeded("false"), Failed(TRUE)} : Holding(w, o)
  /\ UNCHANGED <<run, exec, attempt, enabled, canceller, calls, failures, spent>>

\* reserveExternalActionPolicy: paused or over the workspace quota puts the
\* action back, an open circuit or a spent budget fails it for good.
PolicyExternal(w) ==
  /\ worker[w].pc = "policy" /\ worker[w].node \in External
  /\ ~EffectHoldsPolicy
  /\ \/ ~enabled /\ Goto(w, "release") /\ UNCHANGED spent
     \/ /\ enabled /\ spent.faults < MaxFaults /\ Spend("faults")
        /\ Goto(w, "release") \/ Holding(w, Failed(FALSE))
     \/ enabled /\ Goto(w, "permit") /\ UNCHANGED spent
  /\ UNCHANGED <<run, exec, attempt, enabled, canceller, calls, failures>>

PolicyInternal(w) ==
  /\ worker[w].pc = "policy" /\ worker[w].node \notin External
  /\ Goto(w, IF enabled THEN "permit" ELSE "release")
  /\ UNCHANGED <<run, exec, attempt, enabled, canceller, calls, failures, spent>>

\* withWorkspaceAutomationEffectPermit: the pause flag is read under a lock
\* that is held until the effect returns.  The fence is not looked at again.  An exception
\* before the effect, of this transaction or of what a refusal gives back, is an uncertain
\* outcome as one of the effect is.
StartEffect(w) ==
  /\ worker[w].pc = "permit"
  /\ \/ /\ enabled /\ Goto(w, "calling") /\ UNCHANGED spent
        /\ calls' = [calls EXCEPT ![worker[w].node] = @ + 1]
     \/ ~enabled /\ Goto(w, "release") /\ UNCHANGED <<calls, spent>>
     \/ /\ spent.faults < MaxFaults /\ Spend("faults")
        /\ Holding(w, Uncertain) /\ UNCHANGED calls
  /\ UNCHANGED <<run, exec, attempt, enabled, canceller, failures>>

FinishEffect(w) ==
  /\ worker[w].pc = "calling"
  /\ \E o \in {Succeeded("success"), Failed(TRUE), Failed(FALSE), Uncertain} :
       Holding(w, o)
  /\ UNCHANGED <<run, exec, attempt, enabled, canceller, calls, failures, spent>>

\* Mutant: an outcome is accepted for the attempt's own row, whoever holds the run.
OwnAttemptUnfenced(w) ==
  LET n == worker[w].node IN
  /\ exec[n].status = "running"
  /\ attempt[n] = [no |-> worker[w].attemptNo, fence |-> worker[w].fence,
                   status |-> "running"]

\* The attempt this worker reserved, still open under its fence.
OwnAttempt(w) ==
  LET n == worker[w].node IN
  /\ Valid(w)
  /\ exec[n].status = "running"
  /\ attempt[n] = [no |-> worker[w].attemptNo, fence |-> worker[w].fence,
                   status |-> "running"]

\* Deleting the node row cascades to every attempt row of the node.
ReleaseUnstarted(w) ==
  LET n == worker[w].node IN
  /\ worker[w].pc = "release"
  /\ IF OwnAttempt(w)
     THEN exec' = [exec EXCEPT ![n] = NoExec] /\ attempt' = [attempt EXCEPT ![n] = NoAttempt]
     ELSE UNCHANGED <<exec, attempt>>
  /\ Continue(w, "defer")
  /\ UNCHANGED <<run, enabled, canceller, calls, failures, spent>>

\* A worker that knows it lost its lease keeps the outcome of an action to itself.
Discards(w) == Kind[worker[w].node] = "action" /\ worker[w].lost

Settle(w) ==
  LET n == worker[w].node
      o == worker[w].outcome IN
  /\ worker[w].pc = "settle" /\ OwnAttempt(w) /\ ~Discards(w)
  /\ exec' = [exec EXCEPT ![n] = [@ EXCEPT !.status = o.status, !.port = o.port,
                                           !.retryable = o.retryable]]
  /\ attempt' = [attempt EXCEPT ![n].status = o.status]
  /\ failures' = IF o.status = "failed" THEN [failures EXCEPT ![n] = @ + 1] ELSE failures
  /\ Continue(w, IF o.retryable /\ worker[w].attemptNo < MaxAttempts
                 THEN "retry" ELSE "loop")
  /\ UNCHANGED <<run, enabled, canceller, calls, spent>>

SettleRejected(w) ==
  /\ worker[w].pc = "settle" /\ (~OwnAttempt(w) \/ Discards(w))
  /\ Leave(w)
  /\ UNCHANGED <<run, exec, attempt, enabled, canceller, calls, failures, spent>>

\* Mutant: a retry is scheduled without comparing the fence.
ScheduleRetryUnfenced(w) ==
  /\ worker[w].pc = "retry"
  /\ run' = [Unlocked(run) EXCEPT !.status = "retrying", !.wake = "timer",
                                  !.retryNode = run.cursor]
  /\ Leave(w)
  /\ UNCHANGED <<exec, attempt, enabled, canceller, calls, failures, spent>>

ScheduleRetry(w) ==
  /\ worker[w].pc = "retry"
  /\ run' = IF Valid(w)
            THEN [Unlocked(run) EXCEPT !.status = "retrying", !.wake = "timer",
                                       !.retryNode = run.cursor]
            ELSE run
  /\ Leave(w)
  /\ UNCHANGED <<exec, attempt, enabled, canceller, calls, failures, spent>>

-----------------------------------------------------------------------------
(* Resolvers: an event or an approval finds the parked run, claims it,     *)
(* resolves the wait and hands the run back to the queue.                  *)

DiscoverWait(w) ==
  /\ worker[w].pc = "idle" /\ spent.deliveries < MaxDeliveries
  /\ \E n \in Node :
       /\ run.status = "waiting" /\ exec[n].status = "waiting"
       /\ Kind[n] \in AnsweredKinds
       /\ worker' = [worker EXCEPT ![w] = [@ EXCEPT !.pc = "claimWait", !.node = n]]
  /\ Spend("deliveries")
  /\ UNCHANGED <<run, exec, attempt, enabled, canceller, calls, failures>>

\* allowWaiting: any active unheld run may be claimed, whatever its timer.
ClaimWait(w) ==
  /\ worker[w].pc = "claimWait"
  /\ ~EffectHoldsPolicy
  /\ IF enabled /\ run.status \in Active /\ NotHeld /\ ~run.cancel
     THEN Granted(w, "resolve")
     ELSE /\ Leave(w)
          /\ run' = IF ~enabled /\ run.status \in Active /\ NotHeld
                    THEN [run EXCEPT !.wake = "timer"] ELSE run
  /\ UNCHANGED <<exec, attempt, enabled, canceller, calls, failures, spent>>

ResolveWaiting(w) ==
  LET n == worker[w].node IN
  /\ worker[w].pc = "resolve"
  /\ IF Valid(w) /\ OpenWait(n)
     THEN /\ \E port \in PortsOf(n) :
               /\ (port = "expired") <=> exec[n].expired
               /\ ResolvedWait(n, port)
          /\ run' = [run EXCEPT !.wake = "due"]
          /\ Goto(w, "releaseQueued")
     ELSE Goto(w, "releaseWaiting") /\ UNCHANGED <<run, exec, attempt>>
  /\ UNCHANGED <<enabled, canceller, calls, failures, spent>>

ReleaseResolver(w) ==
  /\ worker[w].pc \in {"releaseQueued", "releaseWaiting"}
  /\ run' = IF Valid(w)
            THEN [Unlocked(run) EXCEPT !.status =
                    IF worker[w].pc = "releaseQueued" THEN "queued" ELSE "waiting"]
            ELSE run
  /\ Leave(w)
  /\ UNCHANGED <<exec, attempt, enabled, canceller, calls, failures, spent>>

-----------------------------------------------------------------------------
(* Operators.  A cancel request decides from a row it read earlier.        *)

CancelRead ==
  /\ canceller.pc = "idle" /\ run.status \in Active
  /\ spent.operator < MaxOperator /\ Spend("operator")
  /\ canceller' = [pc |-> "commit", parked |-> run.status = "waiting",
                   terminal |-> run.status # "running" \/ run.lockedBy = None]
  /\ UNCHANGED <<run, exec, attempt, worker, enabled, calls, failures>>

\* Mutant: the cancel transaction does not require the run to be active.
CancelCommitUnguarded ==
  /\ canceller.pc = "commit" /\ canceller' = NoCancel
  /\ run' = [Unlocked(run) EXCEPT !.status = "cancelled", !.cancel = TRUE]
  /\ UNCHANGED <<exec, attempt, worker, enabled, calls, failures, spent>>

\* A run that left the legacy status "running" meanwhile is a conflict.
CancelCommit ==
  /\ canceller.pc = "commit"
  /\ canceller' = NoCancel
  /\ IF run.status \in Active
     THEN /\ exec' = [n \in Node |-> IF canceller.parked /\ exec[n].status = "waiting"
                        THEN [exec[n] EXCEPT !.status = "cancelled"] ELSE exec[n]]
          /\ run' = IF canceller.terminal
                    THEN [Unlocked(run) EXCEPT !.status = "cancelled", !.cancel = TRUE]
                    ELSE [run EXCEPT !.cancel = TRUE]
     ELSE UNCHANGED <<run, exec>>
  /\ UNCHANGED <<attempt, worker, enabled, calls, failures, spent>>

RetryRun ==
  /\ spent.operator < MaxOperator /\ Spend("operator")
  /\ run.status = "failed"
  /\ \E n \in Node :
       /\ exec[n].status = "failed" /\ exec[n].retryable
       /\ run' = [Unlocked(run) EXCEPT !.status = "queued", !.retryNode = n,
                                       !.wake = "due", !.cancel = FALSE]
  /\ UNCHANGED <<exec, attempt, worker, enabled, canceller, calls, failures>>

ResolveUncertain ==
  /\ spent.operator < MaxOperator /\ Spend("operator")
  /\ run.status = "uncertain"
  /\ \E n \in Node, s \in {"succeeded", "failed"} :
       /\ Kind[n] = "action" /\ exec[n].status = "uncertain"
       /\ attempt[n].status = "uncertain"
       /\ exec' = [exec EXCEPT ![n] = [@ EXCEPT !.status = s, !.retryable = FALSE,
                     !.port = IF s = "succeeded" THEN "success" ELSE "none"]]
       /\ attempt' = [attempt EXCEPT ![n].status = s]
  /\ run' = [Unlocked(run) EXCEPT !.status = "queued", !.wake = "due"]
  /\ UNCHANGED <<worker, enabled, canceller, calls, failures>>

PauseWorkspace ==
  /\ enabled /\ ~EffectHoldsPolicy
  /\ spent.pauses < MaxPauses /\ Spend("pauses")
  /\ enabled' = FALSE
  /\ UNCHANGED <<run, exec, attempt, worker, canceller, calls, failures>>

ResumeWorkspace ==
  /\ ~enabled
  /\ enabled' = TRUE
  /\ UNCHANGED <<run, exec, attempt, worker, canceller, calls, failures, spent>>

-----------------------------------------------------------------------------
(* Faults and the clock.                                                   *)

\* runWorkflowV2 renews its lease from the claim until it returns.
Heartbeating(w) == worker[w].pc \notin {"idle", "claim", "claimWait", "resolve",
                                        "releaseQueued", "releaseWaiting"}

\* A renewal is refused once the lease is invalid; it may also fail by itself.
HeartbeatFails(w) ==
  /\ Heartbeating(w) /\ ~worker[w].lost
  /\ IF Valid(w) THEN spent.faults < MaxFaults /\ Spend("faults")
                 ELSE UNCHANGED spent
  /\ worker' = [worker EXCEPT ![w].lost = TRUE]
  /\ UNCHANGED <<run, exec, attempt, enabled, canceller, calls, failures>>

Crash(w) ==
  /\ worker[w].pc # "idle"
  /\ spent.faults < MaxFaults /\ Spend("faults")
  /\ Leave(w)
  /\ UNCHANGED <<run, exec, attempt, enabled, canceller, calls, failures>>

\* Nobody renews the lease: its holder is gone, or holds it without heartbeat.
LeaseExpires ==
  /\ run.live
  /\ ~\E w \in Worker : Heartbeating(w) /\ Valid(w)
  /\ run' = [run EXCEPT !.live = FALSE]
  /\ UNCHANGED <<exec, attempt, worker, enabled, canceller, calls, failures, spent>>

\* The holder is alive but stalled for longer than its lease.
Stall ==
  /\ run.live /\ spent.faults < MaxFaults /\ Spend("faults")
  /\ run' = [run EXCEPT !.live = FALSE]
  /\ UNCHANGED <<exec, attempt, worker, enabled, canceller, calls, failures>>

TimerFires ==
  /\ run.wake = "timer"
  /\ run' = [run EXCEPT !.wake = "due"]
  /\ UNCHANGED <<exec, attempt, worker, enabled, canceller, calls, failures, spent>>

\* The deadline of a wait is also the nextAttemptAt of the run it parked.
DeadlinePasses ==
  /\ \E n \in Node :
       /\ exec[n].status = "waiting" /\ ~exec[n].expired
       /\ exec' = [exec EXCEPT ![n].expired = TRUE]
  /\ run' = IF run.wake = "deadline" THEN [run EXCEPT !.wake = "due"] ELSE run
  /\ UNCHANGED <<attempt, worker, enabled, canceller, calls, failures, spent>>

-----------------------------------------------------------------------------

WorkerStep(w) ==
  \/ Claim(w) \/ ReconcileStale(w) \/ ResumeDue(w) \/ NextTransition(w)
  \/ DeferPaused(w) \/ AdvanceFinish(w) \/ AdvanceNext(w) \/ AdvanceWork(w)
  \/ AdvanceLost(w) \/ TransitionLimit(w) \/ RegisterWait(w) \/ WaitExists(w)
  \/ WaitRejected(w) \/ Reserve(w) \/ ReserveExisting(w) \/ ReserveRejected(w)
  \/ EvaluateCondition(w) \/ PolicyExternal(w) \/ PolicyInternal(w)
  \/ StartEffect(w) \/ FinishEffect(w) \/ ReleaseUnstarted(w) \/ Settle(w)
  \/ SettleRejected(w) \/ ScheduleRetry(w) \/ ClaimWait(w) \/ ResolveWaiting(w)
  \/ ReleaseResolver(w)

OperatorStep == CancelRead \/ RetryRun \/ ResolveUncertain \/ PauseWorkspace

Next ==
  \/ \E w \in Worker : \/ WorkerStep(w) \/ LoadRunContext(w) \/ DiscoverWait(w)
                       \/ HeartbeatFails(w) \/ Crash(w)
  \/ OperatorStep \/ CancelCommit \/ ResumeWorkspace
  \/ DeferAdmission \/ LeaseExpires \/ Stall \/ TimerFires \/ DeadlinePasses

Spec == Init /\ [][Next]_vars

\* A worker that is running takes its next step, the scheduler's cron tick loads
\* due runs, PostgreSQL's clock reaches every lease end, timer and deadline, and
\* an accepted cancel request commits.
Fairness ==
  /\ \A w \in Worker : WF_vars(WorkerStep(w)) /\ WF_vars(LoadRunContext(w))
  /\ WF_vars(CancelCommit) /\ WF_vars(ResumeWorkspace)
  /\ WF_vars(LeaseExpires) /\ WF_vars(TimerFires) /\ WF_vars(DeadlinePasses)

FairSpec == Spec /\ Fairness

-----------------------------------------------------------------------------
(* Properties.                                                             *)

PCs == {"idle", "claim", "reconcile", "resume", "loop", "advance", "defer",
        "fail", "wait", "reserve", "evaluate", "policy", "permit", "calling",
        "release", "settle", "retry", "claimWait", "resolve", "releaseQueued",
        "releaseWaiting"}
ExecStatuses == {"none", "running", "waiting", "succeeded", "failed",
                 "uncertain", "cancelled"}
Outcomes == [status : {"none", "succeeded", "failed", "uncertain"},
             port : Ports \cup {"none"}, retryable : BOOLEAN]

RunType ==
  [status : RunStatuses, cursor : Node, retryNode : Node \cup {None},
   lockedBy : Worker \cup {None}, fence : Nat, live : BOOLEAN,
   cancel : BOOLEAN, wake : {"due", "timer", "deadline"}]
ExecType ==
  [status : ExecStatuses, port : Ports \cup {"none"}, retryable : BOOLEAN,
   expired : BOOLEAN]
AttemptType == [no : Nat, fence : Nat, status : ExecStatuses \ {"cancelled"}]
WorkerType ==
  [pc : PCs, fence : Nat, cancelOnly : BOOLEAN, snap : Node \cup {None},
   node : Node \cup {None}, attemptNo : Nat, outcome : Outcomes, steps : Nat,
   lost : BOOLEAN]
SpentType == [{"faults", "operator", "pauses", "deliveries"} -> Nat]
CancelType == [pc : {"idle", "commit"}, terminal : BOOLEAN, parked : BOOLEAN]

\* Every row and every local variable stays within the columns' domains.
TypeOK ==
  /\ run \in RunType /\ exec \in [Node -> ExecType]
  /\ attempt \in [Node -> AttemptType] /\ worker \in [Worker -> WorkerType]
  /\ enabled \in BOOLEAN /\ canceller \in CancelType
  /\ calls \in [Node -> Nat] /\ failures \in [Node -> Nat]
  /\ spent \in SpentType

\* No blind replay: an effect is started again only after an earlier attempt of
\* the same node was persisted as a known failure.  A crash, a lost lease, an
\* exception or an operator's resolution never buys another call.
NoBlindReplay == \A n \in Node : calls[n] <= failures[n] + 1

\* Workspace pause: once a pause has returned, no effect is in flight, whichever
\* worker reserved it and whenever it last looked at the flag.
PauseExcludesEffects == ~enabled => \A w \in Worker : worker[w].pc # "calling"

\* The fence isolates the lease holder: while one worker's lease is valid, nothing
\* another worker does, however far it got under an older lease, changes the run
\* row, a node row or an attempt.
HolderAlone ==
  \A v, w \in Worker :
    v # w /\ Valid(v) /\ worker'[w] # worker[w] => UNCHANGED <<run, exec, attempt>>

OnlyHolderWrites == [][HolderAlone]_vars

\* A finished run is final: whatever stale workers, resolvers and cancel
\* requests still hold, only an operator's retry or resolution changes its row
\* or the recorded outcome of a node.
Evidence == [n \in Node |-> <<exec[n].status, exec[n].port, attempt[n]>>]

TerminalIsFinal ==
  [][run.status \in FinishStatuses
       => \/ RetryRun \/ ResolveUncertain
          \/ Evidence' = Evidence /\ run' = [run EXCEPT !.wake = run'.wake]]_vars

\* A node is resolved once: a succeeded row is never reopened, re-resolved
\* through another port or deleted, by a race of resolver, deadline and worker.
ResolvedOnce ==
  [][\A n \in Node : exec[n].status = "succeeded" => exec'[n] = exec[n]]_vars

\* Once a cancel request is recorded the run makes no progress: the cursor stays,
\* no node is reserved or registered and no further attempt is numbered.
CancelStopsProgress ==
  [][run.cancel /\ run'.cancel
       => /\ run'.cursor = run.cursor
          /\ \A n \in Node : /\ exec[n].status = "none" => exec'[n].status = "none"
                             /\ attempt'[n].no <= attempt[n].no]_vars

\* Every run ends, whatever one crash, stall or cancel request interrupts.
EveryRunFinishes == <>(run.status \in FinishStatuses)

-----------------------------------------------------------------------------
(* What a comment or the product plan says and the code does not keep.     *)

\* worker.ts on a failed condition: "bounded by the run's maxAttempts".  After
\* the last attempt the retry intent is still on the row, so advance asks for
\* the same node again in the same invocation.
AttemptsBounded ==
  spent.operator = 0 => \A n \in Node : attempt[n].no <= MaxAttempts

\* worker.ts: "a stale `waiting` snapshot must never overwrite a resolver's
\* queued state".  A second resolver that finds nothing to resolve releases the
\* run as waiting, and no claim ever matches it again.
WaitingRunHasOpenWait ==
  run.status = "waiting" => \E n \in Node : exec[n].status = "waiting"

\* Product plan, P06: cancellation during active work is recovered by a
\* successor with a cancellation-only lease.  A request that read the row before
\* the claim cancels the run under its worker, and nobody reconciles the node.
CancelledWorkIsReconciled ==
  run.status = "cancelled" => \A n \in Node : exec[n].status # "running"
=============================================================================
