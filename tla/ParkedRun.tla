----------------------------- MODULE ParkedRun -----------------------------
(***************************************************************************)
(* A v2 run that reaches one wait, is parked on it and is woken by the     *)
(* scheduler at the deadline or, before it, by a resolver that claims the  *)
(* parked run, decides under its own lease and hands the run back.         *)
(*                                                                         *)
(* This is the part of WorkflowRun that every kind of wait shares, cut to  *)
(* one node: ApprovalWait and EventWait extend it with what their          *)
(* resolvers decide from.  The workspace is enabled; what lies behind the  *)
(* wait is one step (MoveOn).                                              *)
(***************************************************************************)
EXTENDS Naturals

CONSTANTS
  Process,     \* server requests, event consumers and scheduler ticks
  None,        \* no process, no job
  MaxFence,    \* bound: claims of the run
  MaxFaults,   \* bound: crashes and stalls
  MaxCancels,  \* bound: cancel requests
  MaxCalls     \* bound: calls of a resolver that find the wait

ASSUME ParkedRunAssumption ==
  /\ None \notin Process
  /\ \A b \in {MaxFence, MaxFaults, MaxCancels, MaxCalls} : b \in Nat

VARIABLES
  run,        \* the workflow_runs row
  wait,       \* the workflow_node_executions row of the wait
  proc,       \* what each process keeps in memory
  canceller,  \* a cancel request between its read and its transaction
  spent       \* how much of each bound has been used

parkedVars == <<run, wait, proc, canceller, spent>>

Active == {"queued", "running", "waiting"}
IdleProc == [pc |-> "idle", fence |-> 0, cancelOnly |-> FALSE, job |-> None,
             port |-> "none"]
NoCancel == [pc |-> "idle", terminal |-> FALSE, parked |-> FALSE]

ParkedInit ==
  /\ run = [status |-> "queued", lockedBy |-> None, fence |-> 0, live |-> FALSE,
            cancel |-> FALSE]
  /\ wait = [status |-> "none", port |-> "none", expired |-> FALSE]
  /\ proc = [p \in Process |-> IdleProc]
  /\ canceller = NoCancel
  /\ spent = [faults |-> 0, cancels |-> 0, calls |-> 0]

Valid(p) ==
  /\ run.status = "running"
  /\ run.lockedBy = p
  /\ run.fence = proc[p].fence
  /\ run.live
  /\ proc[p].cancelOnly \/ ~run.cancel

\* Mutant: an expired lease is never taken over.
NotHeldOnlyReleased == run.lockedBy = None

NotHeld == run.lockedBy = None \/ ~run.live
Unlocked(r) == [r EXCEPT !.lockedBy = None, !.live = FALSE]
Goto(p, pc) == proc' = [proc EXCEPT ![p].pc = pc]
Leave(p) == proc' = [proc EXCEPT ![p] = IdleProc]
Spend(bound) == spent' = [spent EXCEPT ![bound] = @ + 1]

Granted(p, pc) ==
  /\ run' = [run EXCEPT !.status = "running", !.lockedBy = p, !.live = TRUE,
                        !.fence = @ + 1]
  /\ proc' = [proc EXCEPT ![p] = [@ EXCEPT !.pc = pc, !.fence = run.fence + 1,
                                           !.cancelOnly = run.cancel]]

-----------------------------------------------------------------------------
(* The ordinary worker.                                                    *)

\* nextAttemptAt: now when the run is queued or its wait was resolved, the
\* deadline while the wait is open, whoever holds or abandoned the run.
Due == wait.status # "waiting" \/ wait.expired
OpenExpired == wait.status = "waiting" /\ wait.expired

ClaimDue(p) ==
  /\ proc[p].pc = "idle" /\ run.fence < MaxFence
  /\ run.status \in Active /\ NotHeld
  /\ \/ run.cancel
     \/ Due /\ (run.status = "waiting" => OpenExpired)
  /\ Granted(p, "resume")
  /\ UNCHANGED <<wait, canceller, spent>>

\* Mutant: the deadline of every wait is resolved as if it were a delay.
ResumeDueAsDelay(p) ==
  /\ proc[p].pc = "resume"
  /\ wait' = IF Valid(p) /\ OpenExpired
             THEN [wait EXCEPT !.status = "succeeded", !.port = "elapsed"] ELSE wait
  /\ Goto(p, "advance")
  /\ UNCHANGED <<run, canceller, spent>>

ResumeDue(p) ==
  /\ proc[p].pc = "resume"
  /\ wait' = IF Valid(p) /\ OpenExpired
             THEN [wait EXCEPT !.status = "succeeded", !.port = "expired"] ELSE wait
  /\ Goto(p, "advance")
  /\ UNCHANGED <<run, canceller, spent>>

FinishCancelled(p) ==
  /\ proc[p].pc = "advance" /\ Valid(p) /\ run.cancel
  /\ run' = [Unlocked(run) EXCEPT !.status = "cancelled"]
  /\ Leave(p)
  /\ UNCHANGED <<wait, canceller, spent>>

Park(p) ==
  /\ proc[p].pc = "advance" /\ Valid(p) /\ ~run.cancel
  /\ wait.status \in {"none", "waiting"}
  /\ wait' = [wait EXCEPT !.status = "waiting"]
  /\ run' = [Unlocked(run) EXCEPT !.status = "waiting"]
  /\ Leave(p)
  /\ UNCHANGED <<canceller, spent>>

MoveOn(p) ==
  /\ proc[p].pc = "advance" /\ Valid(p) /\ ~run.cancel
  /\ wait.status = "succeeded"
  /\ run' = [Unlocked(run) EXCEPT !.status = "finished"]
  /\ Leave(p)
  /\ UNCHANGED <<wait, canceller, spent>>

AdvanceLost(p) ==
  /\ proc[p].pc = "advance" /\ ~Valid(p)
  /\ Leave(p)
  /\ UNCHANGED <<run, wait, canceller, spent>>

-----------------------------------------------------------------------------
(* Resolvers.                                                              *)

\* A resolver finds the wait through the join of its row and a waiting run.
FindsWait(p) ==
  /\ proc[p].pc = "idle"
  /\ run.status = "waiting" /\ wait.status = "waiting"

\* claim with allowWaiting: any active run nobody holds, whatever its timer.
ClaimParked(p, work) ==
  /\ run.fence < MaxFence
  /\ IF run.status \in Active /\ NotHeld /\ ~run.cancel
     THEN Granted(p, work) ELSE Leave(p) /\ UNCHANGED run
  /\ UNCHANGED <<wait, canceller, spent>>

\* Mutant: a resolver resolves whatever became of its lease.
ResolveWaitUnfenced(p) ==
  /\ proc[p].pc = "resolve"
  /\ IF wait.status = "waiting"
     THEN /\ wait' = [wait EXCEPT !.status = "succeeded", !.port = proc[p].port]
          /\ Goto(p, "releaseQueued")
     ELSE Goto(p, "releaseWaiting") /\ UNCHANGED wait
  /\ UNCHANGED <<run, canceller, spent>>

\* The deadline is authoritative: an answer in hand takes the expired port.
ResolveWait(p) ==
  /\ proc[p].pc = "resolve"
  /\ IF Valid(p) /\ wait.status = "waiting"
     THEN /\ wait' = [wait EXCEPT !.status = "succeeded",
                        !.port = IF wait.expired THEN "expired" ELSE proc[p].port]
          /\ Goto(p, "releaseQueued")
     ELSE Goto(p, "releaseWaiting") /\ UNCHANGED wait
  /\ UNCHANGED <<run, canceller, spent>>

Release(p) ==
  /\ proc[p].pc \in {"releaseQueued", "releaseWaiting"}
  /\ run' = IF Valid(p)
            THEN [Unlocked(run) EXCEPT !.status =
                    IF proc[p].pc = "releaseQueued" THEN "queued" ELSE "waiting"]
            ELSE run
  /\ Leave(p)
  /\ UNCHANGED <<wait, canceller, spent>>

-----------------------------------------------------------------------------
(* Cancellation, faults and the clock.                                     *)

CancelRead ==
  /\ canceller.pc = "idle" /\ run.status \in Active
  /\ spent.cancels < MaxCancels /\ Spend("cancels")
  /\ canceller' = [pc |-> "commit", parked |-> run.status = "waiting",
                   terminal |-> run.status # "running" \/ run.lockedBy = None]
  /\ UNCHANGED <<run, wait, proc>>

CancelCommit ==
  /\ canceller.pc = "commit" /\ canceller' = NoCancel
  /\ IF run.status \in Active
     THEN /\ wait' = IF canceller.parked /\ wait.status = "waiting"
                     THEN [wait EXCEPT !.status = "cancelled"] ELSE wait
          /\ run' = IF canceller.terminal
                    THEN [Unlocked(run) EXCEPT !.status = "cancelled", !.cancel = TRUE]
                    ELSE [run EXCEPT !.cancel = TRUE]
     ELSE UNCHANGED <<run, wait>>
  /\ UNCHANGED <<proc, spent>>

Crash(p) ==
  /\ proc[p].pc # "idle" /\ spent.faults < MaxFaults /\ Spend("faults")
  /\ Leave(p)
  /\ UNCHANGED <<run, wait, canceller>>

\* Only the ordinary worker renews its lease while it works.
LeaseExpires ==
  /\ run.live
  /\ ~\E p \in Process : proc[p].pc \in {"resume", "advance"} /\ Valid(p)
  /\ run' = [run EXCEPT !.live = FALSE]
  /\ UNCHANGED <<wait, proc, canceller, spent>>

Stall ==
  /\ run.live /\ spent.faults < MaxFaults /\ Spend("faults")
  /\ run' = [run EXCEPT !.live = FALSE]
  /\ UNCHANGED <<wait, proc, canceller>>

DeadlinePasses ==
  /\ wait.status = "waiting" /\ ~wait.expired
  /\ wait' = [wait EXCEPT !.expired = TRUE]
  /\ UNCHANGED <<run, proc, canceller, spent>>

-----------------------------------------------------------------------------

\* Everything but registration and resolution, which the extensions complete.
OrdinaryStep(p) ==
  ResumeDue(p) \/ FinishCancelled(p) \/ MoveOn(p) \/ AdvanceLost(p) \/ Release(p)

Surroundings ==
  \/ \E p \in Process : Crash(p)
  \/ CancelRead \/ CancelCommit \/ LeaseExpires \/ Stall \/ DeadlinePasses

PCs == {"idle", "resume", "advance", "claimVote", "vote", "claimReassign",
        "reassign", "claimEvent", "resolve", "releaseQueued", "releaseWaiting"}
WaitPorts == {"none", "approved", "rejected", "matched", "expired"}

RunType ==
  [status : Active \cup {"finished", "cancelled"}, lockedBy : Process \cup {None},
   fence : Nat, live : BOOLEAN, cancel : BOOLEAN]
WaitType ==
  [status : {"none", "waiting", "succeeded", "cancelled"}, port : WaitPorts,
   expired : BOOLEAN]
ProcType(Job) ==
  [pc : PCs, fence : Nat, cancelOnly : BOOLEAN, job : Job \cup {None},
   port : WaitPorts]
CancelType == [pc : {"idle", "commit"}, terminal : BOOLEAN, parked : BOOLEAN]
SpentType == [{"faults", "cancels", "calls"} -> Nat]

\* The rows and local variables stay within the columns' domains.
ParkedType(Job) ==
  /\ run \in RunType /\ wait \in WaitType
  /\ proc \in [Process -> ProcType(Job)]
  /\ canceller \in CancelType /\ spent \in SpentType
=============================================================================
