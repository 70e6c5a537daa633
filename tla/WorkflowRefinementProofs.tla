---------------------- MODULE WorkflowRefinementProofs ----------------------
(***************************************************************************)
(* The leased, retried and cancelled execution of one run is an execution  *)
(* of the sequential run, for every graph, every number of workers and     *)
(* every bound; and what that takes: finished runs are final, nodes are    *)
(* resolved once, and a cancellation stops progress.  The invariant is     *)
(* SInv of WorkflowRunRefinement on top of IInv.                           *)
(***************************************************************************)
EXTENDS WorkflowRunProofs, WorkflowRunRefinement

-----------------------------------------------------------------------------
(* The shapes a step has, once it is forgotten who takes it.               *)

Still == UNCHANGED <<run, exec, attempt>>

\* An active run changes hands, status or timer, and stays where it is.
Requeues ==
  /\ run.status \in Active /\ run'.status \in Active
  /\ run'.cursor = run.cursor /\ run'.cancel = run.cancel
  /\ UNCHANGED <<exec, attempt>>

\* A lease ends, a timer fires or is set.
Ticks ==
  /\ \/ run.live /\ run' = [run EXCEPT !.live = FALSE]
     \/ run' = [run EXCEPT !.wake = run'.wake]
  /\ UNCHANGED <<exec, attempt>>

OpenStatuses == {"none", "running", "waiting"}

\* The row of n is taken up, parked or put back.
Opens(n) ==
  /\ exec[n].status \in OpenStatuses /\ exec'[n].status \in OpenStatuses
  /\ exec'[n].port = "none"
  /\ exec'[n].status = "running" => Kind[n] \in {"condition", "action"}
  /\ exec'[n].status = "waiting" => Kind[n] \in WaitKinds

\* The row of n gets an outcome a node of its kind may have.
Closes(n) ==
  /\ exec[n].status \in {"running", "waiting"}
  /\ [status |-> exec'[n].status, port |-> exec'[n].port] \in Sequential!OutcomeOf(n)

\* A known failure of n is attempted again.
Reopens(n) ==
  /\ exec[n].status = "failed" /\ Kind[n] \in {"condition", "action"}
  /\ exec'[n].status = "running" /\ exec'[n].port = "none"

\* A step of the lease holder at the cursor.
NodeTurn ==
  LET c == run.cursor IN
  /\ run.status \in Active /\ run'.status \in Active
  /\ run'.cursor = c /\ run'.cancel = run.cancel
  /\ \A n \in Node \ {c} : exec'[n] = exec[n] /\ attempt'[n] = attempt[n]
  /\ exec'[c] = exec[c] \/ Opens(c) \/ Closes(c) \/ Reopens(c)
  /\ run.cancel => /\ exec[c].status = "none" => exec'[c].status = "none"
                   /\ attempt'[c].no <= attempt[c].no

\* The run ends at its cursor, released.
Ends ==
  /\ run.status \in Active /\ run'.cursor = run.cursor /\ ~run'.live
  /\ run'.status = "failed" \/ FinishesAs(run, exec, run'.status)
  /\ run'.status \in FinishStatuses
  /\ UNCHANGED <<exec, attempt>>

\* The token leaves the cursor.
Moves ==
  /\ run.status \in Active /\ run'.status = run.status
  /\ ~run.cancel /\ run'.cancel = run.cancel
  /\ MovesTo(run, exec, run'.cursor)
  /\ UNCHANGED <<exec, attempt>>

StepShape ==
  \/ Still \/ Requeues \/ Ticks \/ NodeTurn \/ Ends \/ Moves
  \/ DeadlinePasses \/ CancelCommit \/ RetryRun \/ ResolveUncertain

-----------------------------------------------------------------------------
(* Every step has one of these shapes.                                     *)

\* Steps of a worker that write no row but, perhaps, the run's.
LEMMA QuietMoves ==
  ASSUME TypeOK, NEW w \in Worker,
         \/ LoadRunContext(w) \/ DiscoverWait(w) \/ HeartbeatFails(w) \/ Crash(w)
         \/ NextTransition(w) \/ AdvanceWork(w) \/ AdvanceLost(w) \/ WaitRejected(w)
         \/ ReserveExisting(w) \/ ReserveRejected(w) \/ EvaluateCondition(w)
         \/ PolicyExternal(w) \/ PolicyInternal(w) \/ StartEffect(w) \/ FinishEffect(w)
         \/ SettleRejected(w)
  PROVE  Still
BY DEF Still, LoadRunContext, DiscoverWait, HeartbeatFails, Crash, NextTransition,
       AdvanceWork, AdvanceLost, WaitRejected, ReserveExisting, ReserveRejected,
       EvaluateCondition, PolicyExternal, PolicyInternal, StartEffect, FinishEffect,
       SettleRejected

LEMMA RequeueMoves ==
  ASSUME TypeOK, NEW w \in Worker,
         \/ Claim(w) \/ ClaimWait(w) \/ DeferPaused(w) \/ WaitExists(w)
         \/ ScheduleRetry(w) \/ ReleaseResolver(w)
  PROVE  Still \/ Requeues
<1> USE DEF TypeOK, RunType, Still, Requeues, Active, Unlocked, Valid
<1>1. CASE Claim(w)
  BY <1>1 DEF Claim, Claimable, Granted
<1>2. CASE ClaimWait(w)
  BY <1>2 DEF ClaimWait, Granted
<1>3. CASE DeferPaused(w) \/ ScheduleRetry(w) \/ ReleaseResolver(w)
  BY <1>3 DEF DeferPaused, ScheduleRetry, ReleaseResolver
<1>4. CASE WaitExists(w)
  BY <1>4 DEF WaitExists, AtCursor
<1> QED BY <1>1, <1>2, <1>3, <1>4

LEMMA EndMoves ==
  ASSUME TypeOK, NEW w \in Worker,
         AdvanceFinish(w) \/ TransitionLimit(w) \/ AdvanceNext(w)
  PROVE  Still \/ Ends \/ Moves
<1> USE DEF TypeOK, RunType, Still, Active, Unlocked, Valid
<1>1. CASE AdvanceFinish(w)
  <2>1. PICK s \in FinishStatuses :
          /\ FinishesAs(run, exec, s)
          /\ run' = [Unlocked(run) EXCEPT !.status = s, !.retryNode = None]
    BY <1>1 DEF AdvanceFinish
  <2>2. run'.status = s /\ run'.cursor = run.cursor /\ ~run'.live
    BY <2>1
  <2> QED BY <1>1, <2>1, <2>2 DEF AdvanceFinish, Ends
<1>2. CASE TransitionLimit(w)
  BY <1>2 DEF TransitionLimit, Ends, FinishStatuses
<1>3. CASE AdvanceNext(w)
  <2>1. PICK m \in Node :
          MovesTo(run, exec, m) /\ run' = [run EXCEPT !.cursor = m, !.retryNode = None]
    BY <1>3 DEF AdvanceNext
  <2>2. run'.cursor = m /\ run'.status = run.status /\ run'.cancel = run.cancel
    BY <2>1
  <2>3. ~run.cancel
    BY <2>1 DEF MovesTo
  <2> QED BY <1>3, <2>1, <2>2, <2>3 DEF AdvanceNext, Moves
<1> QED BY <1>1, <1>2, <1>3

\* A valid lease makes the run active.
LEMMA ValidIsActive == \A w \in Worker : Valid(w) => run.status \in Active
BY DEF Valid, Active

\* Both specifications read the same published graph.
LEMMA SameGraph ==
  /\ Sequential!WaitKinds = WaitKinds /\ Sequential!FinishStatuses = FinishStatuses
  /\ \A n : Sequential!PortsOf(n) = PortsOf(n)
  /\ \A n : Sequential!FailurePort(n) = FailurePort(n)
<1>1. \A n : Sequential!PortsOf(n) = PortsOf(n)
  BY DEF Sequential!PortsOf, PortsOf
<1>2. \A n : Sequential!FailurePort(n) = FailurePort(n)
  BY DEF Sequential!FailurePort, FailurePort
<1> QED BY <1>1, <1>2 DEF Sequential!WaitKinds, WaitKinds, Sequential!FinishStatuses,
                        FinishStatuses

\* The outcomes the steps of a node record are outcomes a node of its kind has.
LEMMA OutcomesFit ==
  ASSUME NEW n
  PROVE  /\ Kind[n] \in {"condition", "action"} =>
              [status |-> "uncertain", port |-> "none"] \in Sequential!OutcomeOf(n)
         /\ Kind[n] \in {"condition", "action"} =>
              [status |-> "failed", port |-> "none"] \in Sequential!OutcomeOf(n)
         /\ Kind[n] = "action" =>
              [status |-> "succeeded", port |-> "success"] \in Sequential!OutcomeOf(n)
         /\ Kind[n] # "action" => \A p \in PortsOf(n) :
              [status |-> "succeeded", port |-> p] \in Sequential!OutcomeOf(n)
<1>1. ASSUME Kind[n] \in {"condition", "action"}
      PROVE  [status |-> "uncertain", port |-> "none"] \in Sequential!OutcomeOf(n)
  BY <1>1 DEF Sequential!OutcomeOf
<1>2. ASSUME Kind[n] \in {"condition", "action"}
      PROVE  [status |-> "failed", port |-> "none"] \in Sequential!OutcomeOf(n)
  <2>1. Kind[n] \notin WaitKinds
    BY <1>2 DEF WaitKinds
  <2> QED BY <2>1, SameGraph DEF Sequential!OutcomeOf
<1>3. ASSUME Kind[n] = "action"
      PROVE  [status |-> "succeeded", port |-> "success"] \in Sequential!OutcomeOf(n)
  BY <1>3 DEF Sequential!OutcomeOf
<1>4. ASSUME Kind[n] # "action", NEW p \in PortsOf(n)
      PROVE  [status |-> "succeeded", port |-> p] \in Sequential!OutcomeOf(n)
  BY <1>4, SameGraph DEF Sequential!OutcomeOf
<1> QED BY <1>1, <1>2, <1>3, <1>4

\* Recovery puts only the node at the cursor in doubt.
LEMMA ReconcileTurn ==
  ASSUME TypeOK, RowsAtCursor, RowsFit, NEW w \in Worker, ReconcileStale(w)
  PROVE  Still \/ NodeTurn
<1> DEFINE c == run.cursor
<1>0. c \in Node  BY DEF TypeOK, RunType
<1> SUFFICES ASSUME Valid(w) PROVE NodeTurn
  BY DEF ReconcileStale, Still
<1>1. /\ \A n \in Node : exec'[n] = IF Stale(n, worker[w].fence)
            THEN [exec[n] EXCEPT !.status = "uncertain", !.retryable = FALSE] ELSE exec[n]
      /\ \A n \in Node : attempt'[n] = IF Stale(n, worker[w].fence)
            THEN [attempt[n] EXCEPT !.status = "uncertain"] ELSE attempt[n]
      /\ run' = run
  BY DEF ReconcileStale
<1>2. \A n \in Node \ {c} : exec'[n] = exec[n] /\ attempt'[n] = attempt[n]
  BY <1>1 DEF Stale, RowsAtCursor
<1>3. attempt'[c].no <= attempt[c].no
  <2>1. attempt[c] \in AttemptType
    BY <1>0 DEF TypeOK
  <2>2. attempt'[c].no = attempt[c].no /\ attempt[c].no \in Nat
    BY <1>0, <1>1, <2>1 DEF AttemptType
  <2> HIDE DEF c
  <2> QED BY <2>2
<1>4. CASE Stale(c, worker[w].fence)
  <2>1. exec'[c].status = "uncertain" /\ exec'[c].port = exec[c].port
    BY <1>0, <1>1, <1>4 DEF TypeOK, ExecType
  <2>2. exec[c].status = "running" /\ exec[c].port = "none"
        /\ Kind[c] \in {"condition", "action"}
    BY <1>0, <1>4 DEF Stale, RowsFit
  <2>3. Closes(c)
    BY <1>0, <2>1, <2>2, OutcomesFit DEF Closes
  <2> QED BY <1>0, <1>1, <1>2, <1>3, <2>2, <2>3, ValidIsActive
          DEF NodeTurn
<1>5. CASE ~Stale(c, worker[w].fence)
  <2>1. exec'[c] = exec[c]
    BY <1>0, <1>1, <1>5
  <2> QED BY <1>0, <1>1, <1>2, <1>3, <2>1, ValidIsActive
          DEF NodeTurn
<1> QED BY <1>4, <1>5

\* A wait is closed at the cursor, through one of its own ports.
LEMMA WaitTurn ==
  ASSUME TypeOK, RowsAtCursor, RowsFit, NEW n \in Node, OpenWait(n),
         NEW p \in PortsOf(n), ResolvedWait(n, p), run.status \in Active,
         run'.status = run.status, run'.cursor = run.cursor, run'.cancel = run.cancel
  PROVE  NodeTurn
<1>1. n = run.cursor
  BY DEF OpenWait, RowsAtCursor
<1>2. Kind[n] \in WaitKinds
  BY DEF OpenWait, RowsFit
<1>3. exec'[n].status = "succeeded" /\ exec'[n].port = p
  BY DEF ResolvedWait, TypeOK, ExecType
<1>4. attempt'[n].no = attempt[n].no /\ attempt[n].no \in Nat
  BY DEF ResolvedWait, TypeOK, AttemptType
<1>5. \A m \in Node \ {n} : exec'[m] = exec[m] /\ attempt'[m] = attempt[m]
  BY DEF ResolvedWait, TypeOK
<1>6. Closes(n)
  <2>1. Kind[n] # "action"
    BY <1>2 DEF WaitKinds
  <2> QED BY <1>3, <2>1, OutcomesFit DEF Closes, OpenWait
<1>7. exec[n].status # "none"
  BY DEF OpenWait
<1> QED BY <1>1, <1>4, <1>5, <1>6, <1>7 DEF NodeTurn

LEMMA ResumeTurn ==
  ASSUME TypeOK, RowsAtCursor, RowsFit, NEW w \in Worker,
         ResumeDue(w) \/ ResolveWaiting(w)
  PROVE  Still \/ Requeues \/ NodeTurn
<1>1. CASE ResumeDue(w)
  <2>1. CASE UNCHANGED <<exec, attempt>>
    BY <1>1, <2>1 DEF ResumeDue, Still
  <2>2. CASE ~UNCHANGED <<exec, attempt>>
    <3>1. PICK n \in Node :
            /\ Valid(w) /\ OpenWait(n)
            /\ ResolvedWait(n, IF Kind[n] = "delay" THEN "elapsed" ELSE "expired")
      BY <1>1, <2>2 DEF ResumeDue
    <3>2. Kind[n] \in WaitKinds
      BY <3>1 DEF OpenWait, RowsFit
    <3>3. (IF Kind[n] = "delay" THEN "elapsed" ELSE "expired") \in PortsOf(n)
      BY <3>2 DEF PortsOf, WaitKinds
    <3> QED BY <1>1, <3>1, <3>3, WaitTurn, ValidIsActive DEF ResumeDue
  <2> QED BY <2>1, <2>2
<1>2. CASE ResolveWaiting(w)
  <2> DEFINE n == worker[w].node
  <2>1. CASE ~(Valid(w) /\ OpenWait(n))
    BY <1>2, <2>1 DEF ResolveWaiting, Still
  <2>2. CASE Valid(w) /\ OpenWait(n)
    <3>1. PICK p \in PortsOf(n) : ResolvedWait(n, p)
      BY <1>2, <2>2 DEF ResolveWaiting
    <3>2. run' = [run EXCEPT !.wake = "due"]
      BY <1>2, <2>2 DEF ResolveWaiting
    <3>3. run'.status = run.status /\ run'.cursor = run.cursor /\ run'.cancel = run.cancel
      BY <3>2 DEF TypeOK, RunType
    <3>4. CASE n \in Node
      BY <2>2, <3>1, <3>3, <3>4, WaitTurn, ValidIsActive
    <3>5. CASE n \notin Node
      <4>1. UNCHANGED <<exec, attempt>>
        BY <3>1, <3>5 DEF ResolvedWait, TypeOK
      <4> QED BY <2>2, <3>3, <4>1, ValidIsActive DEF Requeues
    <3> QED BY <3>4, <3>5
  <2> QED BY <2>1, <2>2
<1> QED BY <1>1, <1>2

\* A wait is registered at the cursor, and not for a run that is being cancelled.
LEMMA RegisterTurn ==
  ASSUME TypeOK, WorkFits, CancelOnlyIdles, RowsFit, NEW w \in Worker, RegisterWait(w)
  PROVE  NodeTurn
<1> DEFINE c == run.cursor
<1>1. Valid(w) /\ worker[w].node = c /\ c \in Node /\ exec[c].status = "none"
  BY DEF RegisterWait, AtCursor, TypeOK, RunType
<1>2. ~run.cancel
  BY <1>1 DEF RegisterWait, CancelOnlyIdles, OnNode, Valid
<1>3. Kind[c] \in WaitKinds
  BY <1>1 DEF RegisterWait, WorkFits, FitsItsNode
<1>4. /\ exec' = [exec EXCEPT ![c] = [NoExec EXCEPT !.status = "waiting"]]
      /\ attempt' = [attempt EXCEPT ![c] = [no |-> 1, fence |-> worker[w].fence,
                                            status |-> "waiting"]]
      /\ run' = [Unlocked(run) EXCEPT !.status = "waiting", !.wake = "deadline"]
  BY <1>1 DEF RegisterWait
<1>5. exec'[c].status = "waiting" /\ exec'[c].port = "none"
  BY <1>1, <1>4 DEF NoExec, TypeOK
<1>6. \A n \in Node \ {c} : exec'[n] = exec[n] /\ attempt'[n] = attempt[n]
  BY <1>4 DEF TypeOK
<1>7. run'.status \in Active /\ run'.cursor = c /\ run'.cancel = run.cancel
  BY <1>4 DEF Unlocked, TypeOK, RunType, Active
<1>8. Opens(c)
  BY <1>1, <1>3, <1>5 DEF Opens, OpenStatuses
<1> QED BY <1>1, <1>2, <1>6, <1>7, <1>8, ValidIsActive DEF NodeTurn

\* An attempt is reserved at the cursor, and not for a run that is being cancelled.
LEMMA ReserveTurn ==
  ASSUME TypeOK, WorkFits, CancelOnlyIdles, RowsFit, NEW w \in Worker, Reserve(w)
  PROVE  NodeTurn
<1> DEFINE c == run.cursor
<1>1. Valid(w) /\ worker[w].node = c /\ c \in Node /\ MayAttempt(w, c)
  BY DEF Reserve, AtCursor, TypeOK, RunType
<1>2. ~run.cancel
  BY <1>1 DEF Reserve, CancelOnlyIdles, OnNode, Valid
<1>3. Kind[c] \in {"condition", "action"}
  BY <1>1 DEF Reserve, WorkFits, FitsItsNode
<1>4. /\ exec' = [exec EXCEPT ![c] = [NoExec EXCEPT !.status = "running"]]
      /\ run' = run
  BY <1>1 DEF Reserve
<1>5. exec'[c].status = "running" /\ exec'[c].port = "none"
  BY <1>1, <1>4 DEF NoExec, TypeOK
<1>6. \A n \in Node \ {c} : exec'[n] = exec[n] /\ attempt'[n] = attempt[n]
  BY <1>1 DEF Reserve, TypeOK
<1>7. Opens(c) \/ Reopens(c)
  BY <1>1, <1>3, <1>5 DEF Opens, Reopens, OpenStatuses, MayAttempt, WaitKinds
<1> QED BY <1>1, <1>2, <1>4, <1>6, <1>7, ValidIsActive DEF NodeTurn

\* An attempt that was not started is put back at the cursor.
LEMMA ReleaseTurn ==
  ASSUME TypeOK, HolderAtCursor, RowsFit, NEW w \in Worker, ReleaseUnstarted(w)
  PROVE  Still \/ NodeTurn
<1> DEFINE c == run.cursor
<1> SUFFICES ASSUME OwnAttempt(w) PROVE NodeTurn
  BY DEF ReleaseUnstarted, Still
<1>1. Valid(w) /\ worker[w].node = c /\ c \in Node /\ exec[c].status = "running"
  BY DEF ReleaseUnstarted, OwnAttempt, HolderAtCursor, OnNode, TypeOK, RunType
<1>2. /\ exec' = [exec EXCEPT ![c] = NoExec] /\ attempt' = [attempt EXCEPT ![c] = NoAttempt]
      /\ run' = run
  BY <1>1 DEF ReleaseUnstarted
<1>3. exec'[c].status = "none" /\ exec'[c].port = "none"
  BY <1>1, <1>2 DEF NoExec, TypeOK
<1>4. attempt'[c].no <= attempt[c].no
  <2>1. attempt[c] \in AttemptType
    BY <1>1 DEF TypeOK
  <2>2. attempt'[c].no = 0 /\ attempt[c].no \in Nat
    BY <1>1, <1>2, <2>1 DEF TypeOK, AttemptType, NoAttempt
  <2> HIDE DEF c
  <2> QED BY <2>2
<1>5. \A n \in Node \ {c} : exec'[n] = exec[n] /\ attempt'[n] = attempt[n]
  BY <1>2 DEF TypeOK
<1>6. Opens(c)
  BY <1>1, <1>3 DEF Opens, OpenStatuses
<1> QED BY <1>1, <1>2, <1>4, <1>5, <1>6, ValidIsActive DEF NodeTurn

\* The holder settles the attempt at the cursor, with an outcome its node may have.
LEMMA SettleTurn ==
  ASSUME TypeOK, HolderAtCursor, RowsFit, WorkFits, NEW w \in Worker, Settle(w)
  PROVE  NodeTurn
<1> DEFINE c == run.cursor
           o == worker[w].outcome
<1>1. Valid(w) /\ worker[w].node = c /\ c \in Node /\ exec[c].status = "running"
  BY DEF Settle, OwnAttempt, HolderAtCursor, OnNode, TypeOK, RunType
<1>2. /\ exec' = [exec EXCEPT ![c] = [exec[c] EXCEPT !.status = o.status, !.port = o.port,
                                                     !.retryable = o.retryable]]
      /\ attempt' = [attempt EXCEPT ![c].status = o.status]
      /\ run' = run
  BY <1>1 DEF Settle
<1>3. [status |-> o.status, port |-> o.port] \in Sequential!OutcomeOf(c)
  BY <1>1 DEF Settle, WorkFits, FitsItsNode
<1> HIDE DEF c, o
<1>4. exec'[c].status = o.status /\ exec'[c].port = o.port
  BY <1>1, <1>2 DEF TypeOK, ExecType
<1>5. attempt'[c].no <= attempt[c].no
  <2>1. attempt[c] \in AttemptType
    BY <1>1 DEF TypeOK
  <2>2. attempt'[c].no = attempt[c].no /\ attempt[c].no \in Nat
    BY <1>1, <1>2, <2>1 DEF TypeOK, AttemptType
  <2> QED BY <2>2
<1>6. \A n \in Node \ {c} : exec'[n] = exec[n] /\ attempt'[n] = attempt[n]
  BY <1>2 DEF TypeOK
<1>7. Closes(c)
  BY <1>1, <1>3, <1>4 DEF Closes
<1> QED BY <1>1, <1>2, <1>5, <1>6, <1>7, ValidIsActive DEF NodeTurn, c

\* What nobody's local state takes part in.
LEMMA AmbientShape ==
  ASSUME TypeOK, Ambient
  PROVE  \/ Still \/ Requeues \/ Ticks
         \/ DeadlinePasses \/ CancelCommit \/ RetryRun \/ ResolveUncertain
<1> USE DEF TypeOK, RunType
<1>1. CASE CancelRead \/ PauseWorkspace \/ ResumeWorkspace
  BY <1>1 DEF CancelRead, PauseWorkspace, ResumeWorkspace, Still
<1>2. CASE DeferAdmission
  <2>1. run' = [run EXCEPT !.wake = "timer"]
    BY <1>2 DEF DeferAdmission
  <2> QED BY <1>2, <2>1 DEF DeferAdmission, Ticks
<1>3. CASE LeaseExpires \/ Stall \/ TimerFires
  BY <1>3 DEF LeaseExpires, Stall, TimerFires, Ticks
<1> QED BY <1>1, <1>2, <1>3 DEF Ambient, OperatorStep

LEMMA ShapeOfStep == IInv /\ SInv /\ [Next]_vars => StepShape
<1> SUFFICES ASSUME IInv, SInv, [Next]_vars PROVE StepShape
  OBVIOUS
<1> USE DEF IInv, SInv, StepShape
<1>1. ASSUME NEW w \in Worker, Moving(w) PROVE StepShape
  <2>1. CASE \/ LoadRunContext(w) \/ DiscoverWait(w) \/ HeartbeatFails(w) \/ Crash(w)
             \/ NextTransition(w) \/ AdvanceWork(w) \/ AdvanceLost(w) \/ WaitRejected(w)
             \/ ReserveExisting(w) \/ ReserveRejected(w) \/ EvaluateCondition(w)
             \/ PolicyExternal(w) \/ PolicyInternal(w) \/ StartEffect(w)
             \/ FinishEffect(w) \/ SettleRejected(w)
    BY <2>1, QuietMoves
  <2>2. CASE \/ Claim(w) \/ ClaimWait(w) \/ DeferPaused(w) \/ WaitExists(w)
             \/ ScheduleRetry(w) \/ ReleaseResolver(w)
    BY <2>2, RequeueMoves
  <2>3. CASE AdvanceFinish(w) \/ TransitionLimit(w) \/ AdvanceNext(w)
    BY <2>3, EndMoves
  <2>4. CASE ReconcileStale(w)
    BY <2>4, ReconcileTurn
  <2>5. CASE ResumeDue(w) \/ ResolveWaiting(w)
    BY <2>5, ResumeTurn
  <2>6. CASE RegisterWait(w)
    BY <2>6, RegisterTurn
  <2>7. CASE Reserve(w)
    BY <2>7, ReserveTurn
  <2>8. CASE ReleaseUnstarted(w)
    BY <2>8, ReleaseTurn
  <2>9. CASE Settle(w)
    BY <2>9, SettleTurn
  <2> QED BY <1>1, <2>1, <2>2, <2>3, <2>4, <2>5, <2>6, <2>7, <2>8, <2>9
          DEF Moving, WorkerStep
<1>2. CASE Ambient
  BY <1>2, AmbientShape
<1>3. CASE UNCHANGED vars
  BY <1>3 DEF vars, Still
<1> QED BY <1>1, <1>2, <1>3, StepKinds

-----------------------------------------------------------------------------
(* The invariant.                                                          *)

LEMMA OutcomeFields ==
  ASSUME NEW n \in Node, NEW s, NEW p,
         [status |-> s, port |-> p] \in Sequential!OutcomeOf(n)
  PROVE  /\ s \in {"succeeded", "failed", "uncertain"}
         /\ s # "succeeded" => p = "none" /\ Kind[n] \notin WaitKinds
<1> DEFINE x == [status |-> s, port |-> p]
<1>0. x.status = s /\ x.port = p  OBVIOUS
<1>1. \/ x.status \in {"succeeded"}
      \/ Kind[n] \notin WaitKinds /\ x.status = "failed" /\ x.port = "none"
      \/ Kind[n] \in {"condition", "action"} /\ x.status = "uncertain" /\ x.port = "none"
  BY SameGraph DEF Sequential!OutcomeOf
<1> QED BY <1>0, <1>1 DEF WaitKinds

LEMMA TurnKeepsRows ==
  ASSUME TypeOK, RowsAtCursor, RowsFit, NodeTurn
  PROVE  RowsAtCursor' /\ RowsFit'
<1> DEFINE c == run.cursor
<1>0. c \in Node  BY DEF TypeOK, RunType
<1>1. run'.cursor = c /\ \A n \in Node \ {c} : exec'[n] = exec[n]
  BY DEF NodeTurn
<1>2. RowsAtCursor'
  BY <1>1 DEF RowsAtCursor
<1>3. ASSUME NEW n \in Node
      PROVE  /\ exec'[n].status # "succeeded" => exec'[n].port = "none"
             /\ exec'[n].status # "none" => Kind[n] \in WaitKinds \cup {"condition", "action"}
             /\ exec'[n].status \in {"running", "failed", "uncertain"}
                  => Kind[n] \in {"condition", "action"}
             /\ exec'[n].status = "waiting" => Kind[n] \in WaitKinds
  <2>1. CASE n # c \/ exec'[c] = exec[c]
    BY <1>1, <2>1 DEF RowsFit
  <2>2. CASE n = c /\ Opens(c)
    BY <2>2 DEF Opens, OpenStatuses
  <2>3. CASE n = c /\ Reopens(c)
    BY <2>3 DEF Reopens
  <2>4. CASE n = c /\ Closes(c)
    <3>1. /\ exec'[c].status \in {"succeeded", "failed", "uncertain"}
          /\ exec'[c].status # "succeeded" => exec'[c].port = "none" /\ Kind[c] \notin WaitKinds
      BY <1>0, <2>4, OutcomeFields DEF Closes
    <3>2. Kind[c] \in WaitKinds \cup {"condition", "action"}
      BY <1>0, <2>4 DEF Closes, RowsFit
    <3> QED BY <2>4, <3>1, <3>2
  <2> QED BY <2>1, <2>2, <2>3, <2>4 DEF NodeTurn
<1> QED BY <1>2, <1>3 DEF RowsFit

\* The token leaves nothing open behind.
LEMMA MoveLeavesNothing ==
  ASSUME TypeOK, RowsAtCursor, RowsFit, Moves
  PROVE  \A n \in Node : exec[n].status \notin {"running", "waiting", "uncertain"}
<1> DEFINE c == run.cursor
<1>0. c \in Node  BY DEF TypeOK, RunType
<1>1. ChosenPorts(run, exec) # {}
  BY DEF Moves, MovesTo
<1>2. Kind[c] = "trigger" \/ exec[c].status \in {"succeeded", "failed"}
  BY <1>1 DEF ChosenPorts
<1>3. Kind[c] = "trigger" => exec[c].status = "none"
  BY <1>0 DEF RowsFit, WaitKinds
<1> QED BY <1>2, <1>3 DEF RowsAtCursor

LEMMA RowsStep ==
  ASSUME IInv, SInv, StepShape
  PROVE  RowsAtCursor' /\ RowsFit' /\ FinishedIsReleased'
<1>0. TypeOK /\ RowsAtCursor /\ RowsFit /\ FinishedIsReleased /\ ParkedEndsRun
  BY DEF IInv, SInv
<1>00. /\ run.cursor \in Node /\ \A n \in Node : exec[n] \in ExecType
       /\ run \in RunType /\ exec \in [Node -> ExecType]
  BY <1>0 DEF TypeOK, RunType
<1>a. Active \cap FinishStatuses = {}
  BY DEF Active, FinishStatuses
<1>1. CASE Still
  BY <1>0, <1>1 DEF Still, RowsAtCursor, RowsFit, FinishedIsReleased
<1>2. CASE Requeues
  BY <1>0, <1>2, <1>a DEF Requeues, RowsAtCursor, RowsFit, FinishedIsReleased
<1>3. CASE Ticks
  BY <1>0, <1>00, <1>3 DEF Ticks, RowsAtCursor, RowsFit, FinishedIsReleased, RunType
<1>4. CASE NodeTurn
  <2>1. FinishedIsReleased'
    BY <1>4, <1>a DEF NodeTurn, FinishedIsReleased
  <2> QED BY <1>0, <1>4, <2>1, TurnKeepsRows
<1>5. CASE Ends
  BY <1>0, <1>5 DEF Ends, RowsAtCursor, RowsFit, FinishedIsReleased
<1>6. CASE Moves
  <2>1. FinishedIsReleased'
    BY <1>6, <1>a DEF Moves, FinishedIsReleased
  <2>2. exec' = exec
    BY <1>6 DEF Moves
  <2> QED BY <1>0, <1>6, <2>1, <2>2, MoveLeavesNothing DEF RowsAtCursor, RowsFit
<1>7. CASE DeadlinePasses
  <2>1. PICK n \in Node : exec' = [exec EXCEPT ![n].expired = TRUE]
    BY <1>7 DEF DeadlinePasses
  <2>2. \A m \in Node : exec'[m].status = exec[m].status /\ exec'[m].port = exec[m].port
    BY <1>00, <2>1 DEF ExecType
  <2>3. run'.cursor = run.cursor /\ run'.status = run.status /\ run'.live = run.live
    BY <1>00, <1>7 DEF DeadlinePasses, RunType
  <2> QED BY <1>0, <2>2, <2>3 DEF RowsAtCursor, RowsFit, FinishedIsReleased
<1>8. CASE CancelCommit
  <2>1. \A m \in Node : \/ exec'[m] = exec[m]
                        \/ /\ exec[m].status = "waiting" /\ exec'[m].status = "cancelled"
                           /\ exec'[m].port = exec[m].port
    BY <1>00, <1>8 DEF CancelCommit, ExecType
  <2>2. run'.cursor = run.cursor /\ (run'.status \in FinishStatuses => ~run'.live)
    BY <1>0, <1>00, <1>8, <1>a DEF CancelCommit, RunType, Unlocked, FinishedIsReleased
  <2> QED BY <1>0, <2>1, <2>2 DEF RowsAtCursor, RowsFit, FinishedIsReleased, WaitKinds
<1>9. CASE RetryRun
  <2>1. exec' = exec /\ run'.cursor = run.cursor /\ ~run'.live
    BY <1>00, <1>9 DEF RetryRun, RunType, Unlocked
  <2> QED BY <1>0, <2>1 DEF RowsAtCursor, RowsFit, FinishedIsReleased
<1>10. CASE ResolveUncertain
  <2>1. PICK n \in Node, s \in {"succeeded", "failed"} :
          /\ Kind[n] = "action" /\ exec[n].status = "uncertain"
          /\ exec' = [exec EXCEPT ![n] = [exec[n] EXCEPT !.status = s, !.retryable = FALSE,
                         !.port = IF s = "succeeded" THEN "success" ELSE "none"]]
    BY <1>10 DEF ResolveUncertain
  <2>2. /\ exec'[n].status = s /\ (s # "succeeded" => exec'[n].port = "none")
        /\ \A m \in Node \ {n} : exec'[m] = exec[m]
    BY <1>00, <2>1 DEF ExecType
  <2>3. run'.cursor = run.cursor /\ ~run'.live
    BY <1>00, <1>10 DEF ResolveUncertain, RunType, Unlocked
  <2> QED BY <1>0, <2>1, <2>2, <2>3 DEF RowsAtCursor, RowsFit, FinishedIsReleased
<1> QED BY <1>1, <1>2, <1>3, <1>4, <1>5, <1>6, <1>7, <1>8, <1>9, <1>10 DEF StepShape

\* What conditions and effects return are outcomes of their kind of node.
LEMMA KindOutcomes ==
  ASSUME NEW n
  PROVE  /\ Kind[n] = "condition" =>
              \A o \in {Succeeded("true"), Succeeded("false"), Failed(TRUE)} :
                [status |-> o.status, port |-> o.port] \in Sequential!OutcomeOf(n)
         /\ Kind[n] = "action" =>
              \A o \in {Succeeded("success"), Failed(TRUE), Failed(FALSE), Uncertain} :
                [status |-> o.status, port |-> o.port] \in Sequential!OutcomeOf(n)
<1>1. ASSUME NEW b
      PROVE  Failed(b).status = "failed" /\ Failed(b).port = "none"
  BY DEF Failed
<1>2. ASSUME NEW p
      PROVE  Succeeded(p).status = "succeeded" /\ Succeeded(p).port = p
  BY DEF Succeeded
<1>3. Uncertain.status = "uncertain" /\ Uncertain.port = "none"
  BY DEF Uncertain
<1>4. ASSUME Kind[n] = "condition",
             NEW o \in {Succeeded("true"), Succeeded("false"), Failed(TRUE)}
      PROVE  [status |-> o.status, port |-> o.port] \in Sequential!OutcomeOf(n)
  <2>1. {"true", "false"} = PortsOf(n)
    BY <1>4 DEF PortsOf
  <2>2. CASE o = Failed(TRUE)
    BY <1>1, <1>4, <2>2, OutcomesFit
  <2>3. ASSUME NEW p \in {"true", "false"}, o = Succeeded(p)
        PROVE  [status |-> o.status, port |-> o.port] \in Sequential!OutcomeOf(n)
    <3>1. o.status = "succeeded" /\ o.port = p
      BY <1>2, <2>3
    <3> QED BY <1>4, <2>1, <3>1, OutcomesFit
  <2> QED BY <1>4, <2>2, <2>3
<1>5. ASSUME Kind[n] = "action",
             NEW o \in {Succeeded("success"), Failed(TRUE), Failed(FALSE), Uncertain}
      PROVE  [status |-> o.status, port |-> o.port] \in Sequential!OutcomeOf(n)
  <2>1. CASE o = Failed(TRUE) \/ o = Failed(FALSE)
    BY <1>1, <1>5, <2>1, OutcomesFit
  <2>2. CASE o = Succeeded("success")
    BY <1>2, <1>5, <2>2, OutcomesFit
  <2>3. CASE o = Uncertain
    BY <1>3, <1>5, <2>3, OutcomesFit
  <2> QED BY <1>5, <2>1, <2>2, <2>3
<1> QED BY <1>4, <1>5

\* What a worker holds as an outcome is one its node may have.
LEMMA WorkFitsStep ==
  ASSUME TypeOK, WorkFits, [Next]_vars
  PROVE  WorkFits'
<1>1. ASSUME NEW w \in Worker, Moving(w) PROVE FitsItsNode(w)'
  <2> DEFINE n == worker[w].node
  <2> USE WorkerEffects DEF TypeOK
  <2>0. FitsItsNode(w)
    BY DEF WorkFits
  <2>a. CASE worker'[w].pc \notin OnNode
    BY <2>a DEF FitsItsNode, OnNode
  <2>b. SUFFICES ASSUME worker'[w].pc \in OnNode PROVE FitsItsNode(w)'
    BY <2>a
  <2>c. \/ HeartbeatFails(w) \/ AdvanceWork(w) \/ Reserve(w) \/ EvaluateCondition(w)
        \/ PolicyExternal(w) \/ PolicyInternal(w) \/ StartEffect(w) \/ FinishEffect(w)
    BY <1>1, <2>b, PcAfter DEF Moving, WorkerStep, OnNode
  <2>d. ASSUME NEW o, Holding(w, o), Kind[n] \in {"condition", "action"},
               [status |-> o.status, port |-> o.port] \in Sequential!OutcomeOf(n)
        PROVE  FitsItsNode(w)'
    BY <2>d DEF FitsItsNode
  <2>1. CASE HeartbeatFails(w)
    <3>1. /\ worker'[w].pc = worker[w].pc /\ worker'[w].node = worker[w].node
          /\ worker'[w].outcome = worker[w].outcome
      BY <2>1 DEF HeartbeatFails, WorkerType
    <3> QED BY <2>0, <3>1 DEF FitsItsNode
  <2>2. CASE AdvanceWork(w)
    <3>1. /\ worker'[w].node = run.cursor
          /\ worker'[w].pc = IF Kind[run.cursor] \in WaitKinds THEN "wait" ELSE "reserve"
      BY <2>2 DEF AdvanceWork, WorkerType
    <3>2. Kind[run.cursor] \in WaitKinds \cup {"condition", "action"}
      BY <2>2 DEF AdvanceWork, RequestsWork
    <3> QED BY <3>1, <3>2 DEF FitsItsNode
  <2>3. CASE Reserve(w)
    <3>1. /\ worker'[w].node = n
          /\ worker'[w].pc = IF Kind[n] = "condition" THEN "evaluate" ELSE "policy"
      BY <2>3 DEF Reserve, WorkerType
    <3>2. Kind[n] \in {"condition", "action"}
      BY <2>0, <2>3 DEF Reserve, FitsItsNode
    <3> QED BY <3>1, <3>2 DEF FitsItsNode
  <2>4. CASE EvaluateCondition(w)
    <3>1. Kind[n] = "condition"
      BY <2>0, <2>4 DEF EvaluateCondition, FitsItsNode
    <3>2. \A o \in {Succeeded("true"), Succeeded("false"), Failed(TRUE)} :
            [status |-> o.status, port |-> o.port] \in Sequential!OutcomeOf(n)
      BY <3>1, KindOutcomes
    <3> QED BY <2>4, <2>d, <3>1, <3>2 DEF EvaluateCondition
  <2>5. CASE PolicyExternal(w)
    <3>1. Kind[n] = "action"
      BY <2>0, <2>5 DEF PolicyExternal, FitsItsNode
    <3>2. [status |-> Failed(FALSE).status, port |-> Failed(FALSE).port]
            \in Sequential!OutcomeOf(n)
      BY <3>1, KindOutcomes
    <3>3. Goto(w, "release") \/ Goto(w, "permit") \/ Holding(w, Failed(FALSE))
      BY <2>5 DEF PolicyExternal
    <3>4. CASE Goto(w, "release") \/ Goto(w, "permit")
      BY <3>1, <3>4 DEF FitsItsNode
    <3> QED BY <2>d, <3>1, <3>2, <3>3, <3>4
  <2>6. CASE PolicyInternal(w) \/ (StartEffect(w) /\ ~Holding(w, Uncertain))
    <3>1. Kind[n] = "action"
      BY <2>0, <2>6 DEF PolicyInternal, StartEffect, FitsItsNode
    <3>2. Goto(w, "permit") \/ Goto(w, "release") \/ Goto(w, "calling")
      BY <2>6 DEF PolicyInternal, StartEffect
    <3> QED BY <3>1, <3>2 DEF FitsItsNode
  <2>7. CASE StartEffect(w) /\ Holding(w, Uncertain)
    <3>1. Kind[n] = "action"
      BY <2>0, <2>7 DEF StartEffect, FitsItsNode
    <3>2. [status |-> Uncertain.status, port |-> Uncertain.port] \in Sequential!OutcomeOf(n)
      BY <3>1, KindOutcomes
    <3> QED BY <2>7, <2>d, <3>1, <3>2
  <2>8. CASE FinishEffect(w)
    <3>1. Kind[n] = "action"
      BY <2>0, <2>8 DEF FinishEffect, FitsItsNode
    <3>2. \A o \in {Succeeded("success"), Failed(TRUE), Failed(FALSE), Uncertain} :
            [status |-> o.status, port |-> o.port] \in Sequential!OutcomeOf(n)
      BY <3>1, KindOutcomes
    <3> QED BY <2>8, <2>d, <3>1, <3>2 DEF FinishEffect
  <2> QED BY <2>c, <2>1, <2>2, <2>3, <2>4, <2>5, <2>6, <2>7, <2>8
<1>2. ASSUME NEW w \in Worker, Moving(w) PROVE WorkFits'
  BY <1>1, <1>2, OnlyTheMover DEF WorkFits, FitsItsNode
<1>3. CASE Ambient \/ UNCHANGED vars
  BY <1>3, AmbientKeepsWorkers DEF WorkFits, FitsItsNode, vars
<1> QED BY <1>2, <1>3, StepKinds

\* Only a claim gives a lease for a cancellation, and it reads the flag it is for.
LEMMA CancelOnlySeesStep ==
  ASSUME TypeOK, CancelOnlySees, [Next]_vars
  PROVE  CancelOnlySees'
<1>0. TypeOK'  BY TypeStep
<1> SUFFICES ASSUME NEW v \in Worker, Valid(v)', worker'[v].cancelOnly PROVE run'.cancel
  BY DEF CancelOnlySees
<1>a. v # None
  BY WorkflowRunAssumption
<1>1. ASSUME Unrevived, worker'[v].fence = worker[v].fence,
             worker'[v].cancelOnly = worker[v].cancelOnly
      PROVE  run'.cancel
  <2>1. Valid(v)
    BY <1>1, <1>a DEF Unrevived, Valid
  <2> QED BY <1>1, <2>1 DEF Unrevived, CancelOnlySees, Valid
<1>2. CASE Ambient
  BY <1>1, <1>2, AmbientRun, AmbientKeepsWorkers
<1>3. CASE UNCHANGED vars
  BY <1>3 DEF vars, CancelOnlySees, Valid
<1>4. ASSUME NEW w \in Worker, Moving(w) PROVE run'.cancel
  <2>1. CASE Claims(w)
    <3>1. run'.lockedBy = w /\ run'.cancel = run.cancel
      BY <2>1 DEF Claims, Granted, TypeOK, RunType
    <3>2. worker'[w].cancelOnly = run.cancel
      BY <2>1 DEF Claims, Granted, TypeOK, WorkerType
    <3> QED BY <3>1, <3>2 DEF Valid
  <2>2. CASE Unrevived /\ v # w
    BY <1>1, <1>4, <2>2, OnlyTheMover
  <2>3. CASE Unrevived /\ v = w
    <3>1. worker'[w] # IdleWorker
      BY <2>3 DEF IdleWorker
    <3> QED BY <1>1, <1>4, <2>1, <2>3, <3>1, LocalMoves DEF KeepsFence
  <2> QED BY <1>4, <2>1, <2>2, <2>3, MoverRun
<1> QED BY <1>2, <1>3, <1>4, StepKinds

LEMMA CancelOnlyIdlesStep ==
  ASSUME TypeOK, CancelOnlySees, CancelOnlyIdles, [Next]_vars
  PROVE  CancelOnlyIdles'
<1>1. ASSUME NEW w \in Worker, Moving(w), worker'[w].pc \in OnNode
      PROVE  ~worker'[w].cancelOnly
  <2>1. CASE worker'[w] = IdleWorker
    BY <2>1 DEF IdleWorker
  <2>2. CASE Claims(w)
    BY <1>1, <2>2, WorkerEffects DEF Claims, OnNode, TypeOK
  <2>3. CASE KeepsFence(w)
    <3>1. CASE AdvanceWork(w)
      <4>1. Valid(w) /\ ~run.cancel
        BY <3>1 DEF AdvanceWork, RequestsWork
      <4> QED BY <2>3, <4>1 DEF KeepsFence, CancelOnlySees
    <3>2. CASE worker[w].pc \in OnNode
      BY <2>3, <3>2 DEF KeepsFence, CancelOnlyIdles
    <3> QED BY <1>1, <3>1, <3>2, MoverOnNode
  <2> QED BY <1>1, <2>1, <2>2, <2>3, LocalMoves
<1>2. ASSUME NEW w \in Worker, Moving(w) PROVE CancelOnlyIdles'
  BY <1>1, <1>2, OnlyTheMover DEF CancelOnlyIdles
<1>3. CASE Ambient \/ UNCHANGED vars
  BY <1>3, AmbientKeepsWorkers DEF CancelOnlyIdles, vars
<1> QED BY <1>2, <1>3, StepKinds

LEMMA MoverKeepsCanceller ==
  ASSUME NEW w \in Worker, Moving(w)
  PROVE  canceller' = canceller
<1>1. CASE \/ LoadRunContext(w) \/ DiscoverWait(w) \/ HeartbeatFails(w) \/ Crash(w)
           \/ Claim(w) \/ ClaimWait(w) \/ ReconcileStale(w) \/ ResumeDue(w)
           \/ NextTransition(w) \/ DeferPaused(w)
  BY <1>1 DEF LoadRunContext, DiscoverWait, HeartbeatFails, Crash, Claim, ClaimWait,
     ReconcileStale, ResumeDue, NextTransition, DeferPaused
<1>2. CASE \/ AdvanceFinish(w) \/ AdvanceNext(w) \/ AdvanceWork(w) \/ AdvanceLost(w)
           \/ TransitionLimit(w) \/ RegisterWait(w) \/ WaitExists(w) \/ WaitRejected(w)
           \/ Reserve(w) \/ ReserveExisting(w) \/ ReserveRejected(w)
  BY <1>2 DEF AdvanceFinish, AdvanceNext, AdvanceWork, AdvanceLost, TransitionLimit,
     RegisterWait, WaitExists, WaitRejected, Reserve, ReserveExisting, ReserveRejected
<1>3. CASE \/ EvaluateCondition(w) \/ PolicyExternal(w) \/ PolicyInternal(w)
           \/ StartEffect(w) \/ FinishEffect(w) \/ ReleaseUnstarted(w) \/ Settle(w)
           \/ SettleRejected(w) \/ ScheduleRetry(w) \/ ResolveWaiting(w)
           \/ ReleaseResolver(w)
  BY <1>3 DEF EvaluateCondition, PolicyExternal, PolicyInternal, StartEffect, FinishEffect,
     ReleaseUnstarted, Settle, SettleRejected, ScheduleRetry, ResolveWaiting, ReleaseResolver
<1> QED BY <1>1, <1>2, <1>3 DEF Moving, WorkerStep

LEMMA ParkedEndsRunStep ==
  ASSUME TypeOK, ParkedEndsRun, [Next]_vars
  PROVE  ParkedEndsRun'
<1>1. CASE CancelRead
  BY <1>1 DEF CancelRead, ParkedEndsRun
<1>2. CASE CancelCommit
  BY <1>2 DEF CancelCommit, ParkedEndsRun, NoCancel
<1>3. CASE canceller' = canceller
  BY <1>3 DEF ParkedEndsRun
<1>4. Ambient => CancelRead \/ CancelCommit \/ canceller' = canceller
  BY DEF Ambient, OperatorStep, RetryRun, ResolveUncertain, PauseWorkspace,
         ResumeWorkspace, DeferAdmission, LeaseExpires, Stall, TimerFires, DeadlinePasses
<1> QED BY <1>1, <1>2, <1>3, <1>4, StepKinds, MoverKeepsCanceller DEF vars

LEMMA SInvInit == Init => SInv
<1> SUFFICES ASSUME Init PROVE SInv
  OBVIOUS
<1>1. \A n \in Node : exec[n].status = "none" /\ exec[n].port = "none"
  BY DEF Init, NoExec
<1>2. \A w \in Worker : worker[w].pc = "idle" /\ ~worker[w].cancelOnly
  BY DEF Init, IdleWorker
<1>3. ~run.live /\ ~canceller.parked
  BY DEF Init, NoCancel
<1> QED BY <1>1, <1>2, <1>3 DEF SInv, RowsAtCursor, RowsFit, WorkFits, FitsItsNode,
        ParkedEndsRun, FinishedIsReleased, CancelOnlySees, CancelOnlyIdles, OnNode

LEMMA SInvStep == IInv /\ SInv /\ [Next]_vars => SInv'
<1> SUFFICES ASSUME IInv, SInv, [Next]_vars PROVE SInv'
  OBVIOUS
<1>0. TypeOK  BY DEF IInv
<1>1. RowsAtCursor' /\ RowsFit' /\ FinishedIsReleased'
  BY ShapeOfStep, RowsStep
<1> QED BY <1>0, <1>1, WorkFitsStep, CancelOnlySeesStep, CancelOnlyIdlesStep,
           ParkedEndsRunStep DEF SInv

\* What the rows, the cursor, the workers and a cancellation say about each other
\* holds in every reachable state.
THEOREM SequentialInvariant == Spec => [](IInv /\ SInv)
<1>1. Init => SInv  BY SInvInit
<1>2. IInv /\ SInv /\ [Next]_vars => SInv'  BY SInvStep
<1> QED BY <1>1, <1>2, InvariantHolds, PTL DEF Spec

-----------------------------------------------------------------------------
(* What the invariant buys.                                                *)

LEMMA FinalStep ==
  ASSUME IInv, SInv, StepShape, run.status \in FinishStatuses
  PROVE  \/ RetryRun \/ ResolveUncertain
         \/ Evidence' = Evidence /\ run' = [run EXCEPT !.wake = run'.wake]
<1>0. run \in RunType /\ exec \in [Node -> ExecType]
  BY DEF IInv, TypeOK
<1>1. run.status \notin Active
  BY DEF Active, FinishStatuses
<1>2. ASSUME UNCHANGED <<exec, attempt>> PROVE Evidence' = Evidence
  BY <1>2 DEF Evidence
<1>3. CASE Still
  BY <1>0, <1>2, <1>3 DEF Still, RunType
<1>4. CASE Ticks
  <2>1. ~run.live
    BY DEF SInv, FinishedIsReleased
  <2> QED BY <1>0, <1>2, <1>4, <2>1 DEF Ticks, RunType
<1>5. CASE DeadlinePasses
  <2>1. run' = [run EXCEPT !.wake = run'.wake]
    BY <1>0, <1>5 DEF DeadlinePasses, RunType
  <2>2. PICK n \in Node : exec' = [exec EXCEPT ![n].expired = TRUE]
    BY <1>5 DEF DeadlinePasses
  <2>3. \A m \in Node : exec'[m].status = exec[m].status /\ exec'[m].port = exec[m].port
    BY <1>0, <2>2 DEF ExecType
  <2>4. attempt' = attempt
    BY <1>5 DEF DeadlinePasses
  <2>5. Evidence' = Evidence
    BY <2>3, <2>4 DEF Evidence
  <2> QED BY <2>1, <2>5
<1>6. CASE CancelCommit
  <2>1. UNCHANGED <<run, exec, attempt>>
    BY <1>1, <1>6 DEF CancelCommit
  <2> QED BY <1>0, <1>2, <2>1 DEF RunType
<1>7. ~Requeues /\ ~NodeTurn /\ ~Ends /\ ~Moves
  BY <1>1 DEF Requeues, NodeTurn, Ends, Moves
<1> QED BY <1>3, <1>4, <1>5, <1>6, <1>7 DEF StepShape

\* A finished run is final for stale workers, resolvers, timers and cancel requests:
\* only retryWorkflowV2Run and resolveUncertainNode change it.
THEOREM FinishedRunsAreFinal == Spec => TerminalIsFinal
<1>1. IInv /\ SInv /\ [Next]_vars
        => [run.status \in FinishStatuses
              => \/ RetryRun \/ ResolveUncertain
                 \/ Evidence' = Evidence /\ run' = [run EXCEPT !.wake = run'.wake]]_vars
  BY ShapeOfStep, FinalStep
<1> QED BY <1>1, SequentialInvariant, PTL DEF Spec, TerminalIsFinal

LEMMA ResolvedStep ==
  ASSUME IInv, SInv, StepShape, NEW n \in Node, exec[n].status = "succeeded"
  PROVE  exec'[n] = exec[n]
<1>0. exec \in [Node -> ExecType]
  BY DEF IInv, TypeOK
<1>1. CASE Still \/ Requeues \/ Ticks \/ Ends \/ Moves \/ RetryRun
  BY <1>1 DEF Still, Requeues, Ticks, Ends, Moves, RetryRun
<1>2. CASE NodeTurn
  BY <1>2 DEF NodeTurn, Opens, Closes, Reopens, OpenStatuses
<1>3. CASE DeadlinePasses
  BY <1>0, <1>3 DEF DeadlinePasses
<1>4. CASE CancelCommit
  BY <1>0, <1>4 DEF CancelCommit
<1>5. CASE ResolveUncertain
  BY <1>0, <1>5 DEF ResolveUncertain
<1> QED BY <1>1, <1>2, <1>3, <1>4, <1>5 DEF StepShape

\* A succeeded node is never reopened, deleted or resolved through another port,
\* whether resolver, deadline, worker and operator race for it.
THEOREM NodesResolveOnce == Spec => ResolvedOnce
<1>1. IInv /\ SInv /\ [Next]_vars
        => [\A n \in Node : exec[n].status = "succeeded" => exec'[n] = exec[n]]_vars
  BY ShapeOfStep, ResolvedStep
<1> QED BY <1>1, SequentialInvariant, PTL DEF Spec, ResolvedOnce

LEMMA CancelledStep ==
  ASSUME IInv, SInv, StepShape, run.cancel, run'.cancel
  PROVE  /\ run'.cursor = run.cursor
         /\ \A n \in Node : /\ exec[n].status = "none" => exec'[n].status = "none"
                            /\ attempt'[n].no <= attempt[n].no
<1>0. /\ run \in RunType /\ exec \in [Node -> ExecType]
      /\ attempt \in [Node -> AttemptType]
  BY DEF IInv, TypeOK
<1>1. \A n \in Node : attempt[n].no \in Nat
  BY <1>0 DEF AttemptType
<1>2. ASSUME \A n \in Node : /\ exec[n].status = "none" => exec'[n].status = "none"
                             /\ attempt'[n].no = attempt[n].no
      PROVE  \A n \in Node : /\ exec[n].status = "none" => exec'[n].status = "none"
                             /\ attempt'[n].no <= attempt[n].no
  BY <1>1, <1>2
<1>3. CASE Still \/ Requeues \/ Ticks \/ Ends
  <2>1. UNCHANGED <<exec, attempt>> /\ run'.cursor = run.cursor
    BY <1>0, <1>3 DEF Still, Requeues, Ticks, Ends, RunType
  <2> QED BY <1>2, <2>1
<1>4. CASE NodeTurn
  <2>1. \A n \in Node \ {run.cursor} : exec'[n] = exec[n] /\ attempt'[n] = attempt[n]
    BY <1>4 DEF NodeTurn
  <2>2. /\ run'.cursor = run.cursor
        /\ exec[run.cursor].status = "none" => exec'[run.cursor].status = "none"
        /\ attempt'[run.cursor].no <= attempt[run.cursor].no
    BY <1>4 DEF NodeTurn
  <2>3. ASSUME NEW n \in Node \ {run.cursor} PROVE attempt'[n].no <= attempt[n].no
    BY <1>1, <2>1
  <2> QED BY <2>1, <2>2, <2>3
<1>5. CASE Moves \/ RetryRun
  <2>1. CASE Moves
    BY <2>1 DEF Moves
  <2>2. CASE RetryRun
    BY <1>0, <2>2 DEF RetryRun, Unlocked, RunType
  <2> QED BY <1>5, <2>1, <2>2
<1>6. CASE DeadlinePasses
  <2>1. run'.cursor = run.cursor /\ attempt' = attempt
    BY <1>0, <1>6 DEF DeadlinePasses, RunType
  <2>2. \A n \in Node : exec'[n].status = exec[n].status
    BY <1>0, <1>6 DEF DeadlinePasses, ExecType
  <2> QED BY <1>2, <2>1, <2>2
<1>7. CASE CancelCommit
  <2>1. run'.cursor = run.cursor /\ attempt' = attempt
    BY <1>0, <1>7 DEF CancelCommit, Unlocked, RunType
  <2>2. \A n \in Node : exec[n].status = "none" => exec'[n].status = "none"
    BY <1>0, <1>7 DEF CancelCommit
  <2> QED BY <1>2, <2>1, <2>2
<1>8. CASE ResolveUncertain
  <2>1. run'.cursor = run.cursor
    BY <1>0, <1>8 DEF ResolveUncertain, Unlocked, RunType
  <2>2. PICK m \in Node, s \in {"succeeded", "failed"} :
          /\ exec[m].status = "uncertain"
          /\ \A n \in Node \ {m} : exec'[n] = exec[n]
          /\ attempt' = [attempt EXCEPT ![m].status = s]
    BY <1>0, <1>8 DEF ResolveUncertain
  <2>3. \A n \in Node : attempt'[n].no = attempt[n].no
    BY <1>0, <2>2 DEF AttemptType
  <2>4. \A n \in Node : exec[n].status = "none" => exec'[n].status = "none"
    BY <2>2
  <2> QED BY <1>2, <2>1, <2>3, <2>4
<1> QED BY <1>3, <1>4, <1>5, <1>6, <1>7, <1>8 DEF StepShape

\* Once a cancel request is recorded, the run's worker reserves, registers and
\* advances nothing more, whatever it had already decided to do.
THEOREM CancellationStopsProgress == Spec => CancelStopsProgress
<1>1. IInv /\ SInv /\ [Next]_vars
        => [run.cancel /\ run'.cancel
              => /\ run'.cursor = run.cursor
                 /\ \A n \in Node :
                      /\ exec[n].status = "none" => exec'[n].status = "none"
                      /\ attempt'[n].no <= attempt[n].no]_vars
  BY ShapeOfStep, CancelledStep
<1> QED BY <1>1, SequentialInvariant, PTL DEF Spec, CancelStopsProgress

-----------------------------------------------------------------------------
(* The refinement of the sequential run.                                   *)

\* The record of a node follows its row.
LEMMA RecordOfRow ==
  /\ \A n \in Node : /\ Recorded[n] = [status |-> RecordedStatus(n), port |-> exec[n].port]
                     /\ Recorded[n].status = RecordedStatus(n)
                     /\ Recorded[n].port = exec[n].port
  /\ \A n \in Node : exec[n].status \notin OpenStatuses => RecordedStatus(n) = exec[n].status
  /\ \A n \in Node : exec[n].status \in OpenStatuses => RecordedStatus(n) = "pending"
BY DEF Recorded, RecordedStatus, OpenStatuses

\* Rows whose status and port stay leave the record as it is.
LEMMA RecordKept ==
  ASSUME \A n \in Node : /\ RecordedStatus(n)' = RecordedStatus(n)
                         /\ exec'[n].port = exec[n].port
  PROVE  Recorded' = Recorded
BY DEF Recorded

\* One row that changes changes its own record.
LEMMA RecordOne ==
  ASSUME NEW c \in Node, \A n \in Node \ {c} : exec'[n] = exec[n]
  PROVE  Recorded' = [Recorded EXCEPT ![c] = [status |-> RecordedStatus(c)',
                                              port |-> exec'[c].port]]
<1>1. \A n \in Node \ {c} : RecordedStatus(n)' = RecordedStatus(n)
  BY DEF RecordedStatus
<1> QED BY <1>1 DEF Recorded

LEMMA SameWarnings == Sequential!HasWarnings(Recorded) = HasWarnings(exec)
<1>1. \A n \in Node : Recorded[n].status = "failed" <=> exec[n].status = "failed"
  BY DEF Recorded, RecordedStatus
<1> QED BY <1>1 DEF Sequential!HasWarnings, HasWarnings

LEMMA PhaseFacts ==
  /\ run.status \in Active => Phase = "open"
  /\ run.status \notin Active => Phase = run.status
BY DEF Phase

LEMMA SequentialInit == Init => Sequential!SeqInit
<1> SUFFICES ASSUME Init PROVE Sequential!SeqInit
  OBVIOUS
<1>1. Phase = "open" /\ run.cursor = Entry
  BY DEF Init, Phase, Active
<1>2. \A n \in Node : RecordedStatus(n) = "pending" /\ exec[n].port = "none"
  BY DEF Init, NoExec, RecordedStatus
<1>3. Recorded = [n \in Node |-> Sequential!Unsettled]
  BY <1>2 DEF Recorded, Sequential!Unsettled
<1> QED BY <1>1, <1>3 DEF Sequential!SeqInit

\* A turn at the cursor is its work, another attempt at it, or nothing to the token.
LEMMA TurnRefines ==
  ASSUME TypeOK, RowsFit, NodeTurn
  PROVE  [Sequential!SeqNext]_(Sequential!seqVars)
<1>0. PICK c \in Node : c = run.cursor /\ run'.cursor = c
  BY DEF TypeOK, RunType, NodeTurn
<1>1. Phase = "open" /\ Phase' = "open"
  BY PhaseFacts DEF NodeTurn, Phase
<1>2. \A n \in Node \ {c} : exec'[n] = exec[n]
  BY <1>0 DEF NodeTurn
<1>3. exec[c].status # "succeeded" => exec[c].port = "none"
  BY <1>0 DEF RowsFit
<1>4. CASE exec'[c] = exec[c]
  <2>1. Recorded' = Recorded
    BY <1>2, <1>4, RecordKept DEF RecordedStatus
  <2> QED BY <1>0, <1>1, <2>1 DEF Sequential!seqVars
<1>5. CASE Opens(c)
  <2>1. RecordedStatus(c)' = RecordedStatus(c) /\ exec'[c].port = exec[c].port
    BY <1>3, <1>5 DEF Opens, OpenStatuses, RecordedStatus
  <2>2. Recorded' = Recorded
    BY <1>2, <2>1, RecordKept DEF RecordedStatus
  <2> QED BY <1>0, <1>1, <2>2 DEF Sequential!seqVars
<1>6. CASE Closes(c)
  <2>1. Recorded[c] = Sequential!Unsettled
    BY <1>0, <1>3, <1>6, RecordOfRow DEF Closes, OpenStatuses, Sequential!Unsettled
  <2>2. exec'[c].status \in {"succeeded", "failed", "uncertain"}
    BY <1>0, <1>6, OutcomeFields DEF Closes
  <2>3. RecordedStatus(c)' = exec'[c].status
    BY <2>2 DEF RecordedStatus
  <2>4. Recorded' = [Recorded EXCEPT ![c] = [status |-> exec'[c].status,
                                             port |-> exec'[c].port]]
    BY <1>0, <1>2, <2>3, RecordOne
  <2>5. PICK o \in Sequential!OutcomeOf(c) : Recorded' = [Recorded EXCEPT ![c] = o]
    BY <1>6, <2>4 DEF Closes
  <2>6. Sequential!Work
    BY <1>0, <1>1, <2>1, <2>5 DEF Sequential!Work
  <2> QED BY <2>6 DEF Sequential!SeqNext
<1>7. CASE Reopens(c)
  <2>1. Recorded[c].status = "failed"
    BY <1>0, <1>7, RecordOfRow DEF Reopens, OpenStatuses
  <2>2. RecordedStatus(c)' = "pending" /\ exec'[c].port = "none"
    BY <1>7 DEF Reopens, RecordedStatus
  <2>3. Recorded' = [Recorded EXCEPT ![c] = Sequential!Unsettled]
    BY <1>0, <1>2, <2>2, RecordOne DEF Sequential!Unsettled
  <2>4. Sequential!Reattempt
    BY <1>0, <1>1, <2>1, <2>3 DEF Sequential!Reattempt
  <2> QED BY <2>4 DEF Sequential!SeqNext
<1> QED BY <1>0, <1>4, <1>5, <1>6, <1>7 DEF NodeTurn

\* The token leaves by the port of the outcome it has.
LEMMA MoveRefines ==
  ASSUME TypeOK, Moves
  PROVE  Sequential!SeqNext
<1> DEFINE c == run.cursor
<1>0. c \in Node  BY DEF TypeOK, RunType
<1>1. Phase = "open" /\ Phase' = "open"
  BY DEF Moves, Phase
<1>2. Recorded' = Recorded
  BY DEF Moves, Recorded, RecordedStatus
<1>3. PICK p \in ChosenPorts(run, exec) : run'.cursor = Target[c][p]
  BY DEF Moves, MovesTo
<1>4. p \in Sequential!LeavingPorts
  <2>1. Recorded[c].port = exec[c].port
    BY <1>0, RecordOfRow
  <2>2. exec[c].status \in {"succeeded", "failed"} => Recorded[c].status = exec[c].status
    BY <1>0, RecordOfRow DEF OpenStatuses
  <2>3. CASE Kind[c] = "trigger"
    BY <1>3, <2>3 DEF ChosenPorts, Sequential!LeavingPorts
  <2>4. CASE Kind[c] # "trigger" /\ exec[c].status = "succeeded"
    BY <1>3, <2>1, <2>2, <2>4 DEF ChosenPorts, Sequential!LeavingPorts
  <2>5. CASE Kind[c] # "trigger" /\ exec[c].status = "failed"
    BY <1>3, <2>2, <2>5, SameGraph DEF ChosenPorts, Sequential!LeavingPorts
  <2>6. CASE Kind[c] # "trigger" /\ exec[c].status \notin {"succeeded", "failed"}
    BY <1>3, <2>6 DEF ChosenPorts
  <2> QED BY <2>3, <2>4, <2>5, <2>6
<1>5. Sequential!Move
  BY <1>1, <1>2, <1>3, <1>4 DEF Sequential!Move
<1> QED BY <1>5 DEF Sequential!SeqNext

\* A run ends as the node at the token and the recorded outcomes say.
LEMMA EndRefines ==
  ASSUME TypeOK, Ends
  PROVE  Sequential!SeqNext
<1> DEFINE c == run.cursor
<1>0. c \in Node  BY DEF TypeOK, RunType
<1>1. PICK s \in FinishStatuses : s = run'.status
  BY DEF Ends
<1>2. Phase = "open" /\ Phase' = s /\ run'.cursor = run.cursor
  BY <1>1 DEF Ends, Phase, Active, FinishStatuses
<1>3. Recorded' = Recorded
  BY DEF Ends, Recorded, RecordedStatus
<1>4. exec[c].status = "uncertain" => Recorded[c].status = "uncertain"
  BY <1>0, RecordOfRow DEF OpenStatuses
<1>5. s = "failed" \/ FinishesAs(run, exec, s)
  BY <1>1 DEF Ends
<1>6. s \in {"stopped", "succeeded", "completed_with_warnings"}
        => Kind[c] \in {"end", "stop"} /\ s = EndStatus(run, exec)
  BY <1>5 DEF FinishesAs
<1>7. s = "uncertain" => Recorded[c].status = "uncertain"
  BY <1>4, <1>5 DEF FinishesAs, EndStatus
<1>8. s = "stopped" => Kind[c] = "stop"
  BY <1>6 DEF EndStatus
<1>9. s = "succeeded" => Kind[c] = "end" /\ ~HasWarnings(exec)
  BY <1>6 DEF EndStatus
<1>10. s = "completed_with_warnings" => Kind[c] = "end" /\ HasWarnings(exec)
  BY <1>6 DEF EndStatus
<1>11. Sequential!Finish(s)
  BY <1>2, <1>3, <1>7, <1>8, <1>9, <1>10, SameWarnings DEF Sequential!Finish
<1> QED BY <1>1, <1>11, SameGraph DEF Sequential!SeqNext

\* A cancel request ends the run with, or without, the wait it is parked on.
LEMMA CancelRefines ==
  ASSUME TypeOK, RowsAtCursor, RowsFit, ParkedEndsRun, CancelCommit
  PROVE  [Sequential!SeqNext]_(Sequential!seqVars)
<1>0. PICK c \in Node : c = run.cursor /\ run'.cursor = c
  BY DEF TypeOK, RunType, CancelCommit, Unlocked
<1>1. \A n \in Node : exec'[n] = exec[n]
        \/ /\ canceller.parked /\ exec[n].status = "waiting" /\ n = c
           /\ exec'[n].status = "cancelled" /\ exec'[n].port = exec[n].port
  BY <1>0 DEF CancelCommit, RowsAtCursor, TypeOK, ExecType
<1>2. CASE Phase' = Phase /\ \A n \in Node : exec'[n] = exec[n]
  <2>1. Recorded' = Recorded
    BY <1>2, RecordKept DEF RecordedStatus
  <2> QED BY <1>0, <1>2, <2>1 DEF Sequential!seqVars
<1>3. CASE run.status \in Active /\ canceller.terminal
  <2>1. Phase = "open" /\ Phase' = "cancelled"
    BY <1>3 DEF CancelCommit, Phase, Active, Unlocked, TypeOK, RunType
  <2>2. CASE exec'[c] = exec[c]
    <3>1. Recorded' = Recorded
      BY <1>1, <2>2, RecordKept DEF RecordedStatus
    <3>2. Sequential!Cancel
      BY <1>0, <2>1, <3>1 DEF Sequential!Cancel
    <3> QED BY <3>2 DEF Sequential!SeqNext
  <2>3. CASE exec'[c] # exec[c]
    <3>1. /\ exec[c].status = "waiting" /\ exec'[c].status = "cancelled"
          /\ exec'[c].port = exec[c].port
      BY <1>0, <1>1, <2>3
    <3>2. Kind[c] \in WaitKinds /\ exec[c].port = "none"
      BY <1>0, <3>1 DEF RowsFit
    <3>3. Recorded[c] = Sequential!Unsettled
      BY <1>0, <3>1, <3>2, RecordOfRow DEF OpenStatuses, Sequential!Unsettled
    <3>4. RecordedStatus(c)' = "cancelled"
      BY <3>1 DEF RecordedStatus
    <3>5. Recorded' = [Recorded EXCEPT ![c] = [status |-> "cancelled", port |-> "none"]]
      BY <1>0, <1>1, <3>1, <3>2, <3>4, RecordOne
    <3>6. [Recorded[c] EXCEPT !.status = "cancelled"]
            = [status |-> "cancelled", port |-> "none"]
      BY <3>3 DEF Sequential!Unsettled
    <3>7. Recorded' = [Recorded EXCEPT ![c].status = "cancelled"]
      BY <3>5, <3>6
    <3>8. Sequential!Cancel
      BY <1>0, <2>1, <3>2, <3>3, <3>7, SameGraph DEF Sequential!Cancel
    <3> QED BY <3>8 DEF Sequential!SeqNext
  <2> QED BY <2>2, <2>3
<1>4. CASE run.status \in Active /\ ~canceller.terminal
  <2>1. ~canceller.parked
    BY <1>4 DEF ParkedEndsRun
  <2>2. Phase' = Phase
    BY <1>4 DEF CancelCommit, Phase, TypeOK, RunType
  <2> QED BY <1>1, <1>2, <2>1, <2>2
<1>5. CASE run.status \notin Active
  <2>1. UNCHANGED <<run, exec>>
    BY <1>5 DEF CancelCommit
  <2> QED BY <1>2, <2>1 DEF Phase
<1> QED BY <1>3, <1>4, <1>5

\* An operator's retry and resolution are the sequential run's own.
LEMMA OperatorRefines ==
  ASSUME TypeOK, RowsAtCursor, RetryRun \/ ResolveUncertain
  PROVE  Sequential!SeqNext
<1>0. PICK c \in Node : c = run.cursor /\ run'.cursor = c
  BY DEF TypeOK, RunType, RetryRun, ResolveUncertain, Unlocked
<1>1. Phase' = "open"
  BY DEF TypeOK, RunType, RetryRun, ResolveUncertain, Unlocked, Phase, Active
<1>2. CASE RetryRun
  <2>1. Phase = "failed" /\ Recorded' = Recorded
    BY <1>2 DEF RetryRun, Phase, Active, Recorded, RecordedStatus
  <2>2. \E n \in Node : Recorded[n].status = "failed"
    BY <1>2, RecordOfRow DEF RetryRun, OpenStatuses
  <2>3. Sequential!Retry
    BY <1>0, <1>1, <2>1, <2>2 DEF Sequential!Retry
  <2> QED BY <2>3 DEF Sequential!SeqNext
<1>3. CASE ResolveUncertain
  <2>1. PICK n \in Node, s \in {"succeeded", "failed"} :
          /\ Kind[n] = "action" /\ exec[n].status = "uncertain"
          /\ exec' = [exec EXCEPT ![n] = [exec[n] EXCEPT !.status = s, !.retryable = FALSE,
                         !.port = IF s = "succeeded" THEN "success" ELSE "none"]]
    BY <1>3 DEF ResolveUncertain
  <2>2. n = c
    BY <1>0, <2>1 DEF RowsAtCursor
  <2>3. /\ exec'[c].status = s
        /\ exec'[c].port = IF s = "succeeded" THEN "success" ELSE "none"
        /\ \A m \in Node \ {c} : exec'[m] = exec[m]
    BY <2>1, <2>2 DEF TypeOK, ExecType
  <2>4. [status |-> s, port |-> exec'[c].port] \in Sequential!OutcomeOf(c)
    BY <2>1, <2>2, <2>3, OutcomesFit
  <2>5. RecordedStatus(c)' = s
    BY <2>3 DEF RecordedStatus
  <2>6. Recorded' = [Recorded EXCEPT ![c] = [status |-> s, port |-> exec'[c].port]]
    BY <1>0, <2>3, <2>5, RecordOne
  <2>7. PICK o \in Sequential!OutcomeOf(c) :
          o.status # "uncertain" /\ Recorded' = [Recorded EXCEPT ![c] = o]
    BY <2>4, <2>6
  <2>8. Phase = "uncertain" /\ Recorded[c].status = "uncertain" /\ Kind[c] = "action"
    <3>1. Phase = "uncertain"
      BY <1>3 DEF ResolveUncertain, Phase, Active
    <3>2. Recorded[c].status = exec[c].status
      BY <2>1, <2>2, RecordOfRow DEF OpenStatuses
    <3> QED BY <2>1, <2>2, <3>1, <3>2
  <2>9. Sequential!Resolve
    BY <1>0, <1>1, <2>7, <2>8 DEF Sequential!Resolve
  <2> QED BY <2>9 DEF Sequential!SeqNext
<1> QED BY <1>2, <1>3

\* Leases, timers, deadlines and hand-overs are invisible to the token.
LEMMA QuietRefines ==
  ASSUME TypeOK, Still \/ Requeues \/ Ticks \/ DeadlinePasses
  PROVE  UNCHANGED Sequential!seqVars
<1>1. Phase' = Phase /\ run'.cursor = run.cursor
  BY DEF TypeOK, RunType, Still, Requeues, Ticks, DeadlinePasses, Phase
<1>2. \A n \in Node : RecordedStatus(n)' = RecordedStatus(n) /\ exec'[n].port = exec[n].port
  <2>1. \A n \in Node : exec'[n].status = exec[n].status /\ exec'[n].port = exec[n].port
    BY DEF TypeOK, ExecType, Still, Requeues, Ticks, DeadlinePasses
  <2> QED BY <2>1 DEF RecordedStatus
<1>3. Recorded' = Recorded
  BY <1>2, RecordKept
<1> QED BY <1>1, <1>3 DEF Sequential!seqVars

\* Whatever workers, leases, crashes, deadlines, resolvers and operators do to a run,
\* one token walks its graph and each node has one outcome: the run engine implements
\* the sequential run.
THEOREM RunRefinesSequential == Spec => RefinesSequentialRun
<1>1. IInv /\ SInv /\ [Next]_vars => [Sequential!SeqNext]_(Sequential!seqVars)
  <2> SUFFICES ASSUME IInv, SInv, StepShape
               PROVE  [Sequential!SeqNext]_(Sequential!seqVars)
    BY ShapeOfStep
  <2>0. TypeOK /\ RowsAtCursor /\ RowsFit /\ ParkedEndsRun
    BY DEF IInv, SInv
  <2> QED BY <2>0, TurnRefines, MoveRefines, EndRefines, CancelRefines, OperatorRefines,
             QuietRefines DEF StepShape
<1> QED BY <1>1, SequentialInit, SequentialInvariant, PTL
        DEF Spec, RefinesSequentialRun, Sequential!SeqSpec
=============================================================================
