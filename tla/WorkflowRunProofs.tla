------------------------- MODULE WorkflowRunProofs -------------------------
(***************************************************************************)
(* Theorems about a durable workflow run, for every graph, every number of *)
(* workers and every bound.                                                *)
(***************************************************************************)
EXTENDS WorkflowRunInv, TLAPS

\* The idle values are well typed.
LEMMA IdleTypes ==
  /\ NoExec \in ExecType /\ NoAttempt \in AttemptType /\ NoOutcome \in Outcomes
  /\ IdleWorker \in WorkerType
BY DEF NoExec, NoAttempt, NoOutcome, IdleWorker, ExecType, AttemptType, WorkerType,
       Outcomes, ExecStatuses, PCs, Ports

\* The ports of a node are ports.
LEMMA PortsTyped == \A n \in Node : PortsOf(n) \subseteq Ports
BY DEF PortsOf, Ports

\* Leaving, moving and holding an outcome keep the workers well typed.
LEMMA WorkerMoves ==
  ASSUME worker \in [Worker -> WorkerType], NEW w \in Worker
  PROVE  /\ Leave(w) => worker' \in [Worker -> WorkerType]
         /\ \A pc \in PCs : Goto(w, pc) => worker' \in [Worker -> WorkerType]
         /\ \A pc \in PCs : Continue(w, pc) => worker' \in [Worker -> WorkerType]
         /\ \A o \in Outcomes : Holding(w, o) => worker' \in [Worker -> WorkerType]
<1>1. Leave(w) => worker' \in [Worker -> WorkerType]
  BY IdleTypes DEF Leave
<1>2. ASSUME NEW pc \in PCs, Goto(w, pc) PROVE worker' \in [Worker -> WorkerType]
  BY <1>2 DEF Goto, WorkerType
<1>3. ASSUME NEW pc \in PCs, Continue(w, pc) PROVE worker' \in [Worker -> WorkerType]
  BY <1>3, IdleTypes DEF Continue, WorkerType
<1>4. ASSUME NEW o \in Outcomes, Holding(w, o) PROVE worker' \in [Worker -> WorkerType]
  <2>1. "settle" \in PCs  BY DEF PCs
  <2> QED BY <1>4, <2>1 DEF Holding, WorkerType
<1> QED BY <1>1, <1>2, <1>3, <1>4

\* The outcomes a condition or an effect returns.
LEMMA OutcomesTyped ==
  /\ \A p \in Ports : Succeeded(p) \in Outcomes
  /\ \A b \in BOOLEAN : Failed(b) \in Outcomes
  /\ Uncertain \in Outcomes
BY DEF Succeeded, Failed, Uncertain, Outcomes

\* A bound that is spent stays a count.
LEMMA SpendTyped ==
  ASSUME spent \in SpentType,
         NEW b \in {"faults", "operator", "pauses", "deliveries"}, Spend(b)
  PROVE  spent' \in SpentType
BY DEF Spend, SpentType
-----------------------------------------------------------------------------

LEMMA TypeInit == Init => TypeOK
<1> SUFFICES ASSUME Init PROVE TypeOK
  OBVIOUS
<1>1. run \in RunType
  BY GraphAssumption DEF Init, RunType, RunStatuses, Active
<1>2. exec \in [Node -> ExecType] /\ attempt \in [Node -> AttemptType]
      /\ worker \in [Worker -> WorkerType]
  BY IdleTypes DEF Init
<1>3. canceller \in CancelType
  BY DEF Init, NoCancel, CancelType
<1>4. spent \in SpentType
  BY DEF Init, SpentType
<1> QED BY <1>1, <1>2, <1>3, <1>4 DEF Init, TypeOK


\* Releasing, claiming and moving keep the run row well typed.
LEMMA RunMoves ==
  ASSUME run \in RunType
  PROVE  /\ Unlocked(run) \in RunType
         /\ \A s \in RunStatuses : [Unlocked(run) EXCEPT !.status = s] \in RunType
         /\ \A k \in {"due", "timer", "deadline"} : [run EXCEPT !.wake = k] \in RunType
         /\ \A r \in RunType, k \in {"due", "timer", "deadline"} :
              [r EXCEPT !.wake = k] \in RunType
         /\ \A r \in RunType, n \in Node \cup {None} :
              [r EXCEPT !.retryNode = n] \in RunType
         /\ \A r \in RunType, b \in BOOLEAN :
              [r EXCEPT !.cancel = b] \in RunType
BY DEF Unlocked, RunType

\* Resolving a wait keeps the rows of the node well typed.
LEMMA WaitTyped ==
  ASSUME exec \in [Node -> ExecType], attempt \in [Node -> AttemptType]
  PROVE  \A n \in Node : \A p \in Ports :
           ResolvedWait(n, p) => /\ exec' \in [Node -> ExecType]
                                 /\ attempt' \in [Node -> AttemptType]
<1> SUFFICES ASSUME NEW n \in Node, NEW p \in Ports, ResolvedWait(n, p)
             PROVE  exec' \in [Node -> ExecType] /\ attempt' \in [Node -> AttemptType]
  OBVIOUS
<1>1. "succeeded" \in ExecStatuses \ {"cancelled"}
  BY DEF ExecStatuses
<1>2. /\ [exec[n] EXCEPT !.status = "succeeded", !.port = p] \in ExecType
      /\ [attempt[n] EXCEPT !.status = "succeeded"] \in AttemptType
  BY <1>1 DEF ExecType, AttemptType
<1> QED BY <1>2 DEF ResolvedWait

LEMMA TypeClaims ==
  ASSUME TypeOK, NEW w \in Worker,
         \/ LoadRunContext(w) \/ Claim(w) \/ DiscoverWait(w) \/ ClaimWait(w)
  PROVE  TypeOK'
<1> USE DEF TypeOK
<1>1. CASE LoadRunContext(w)
  <2>1. "claim" \in PCs  BY DEF PCs
  <2>2. worker' \in [Worker -> WorkerType]
    BY <1>1, <2>1 DEF LoadRunContext, WorkerType, RunType
  <2> QED BY <1>1, <2>2 DEF LoadRunContext
<1>2. ASSUME NEW pc \in PCs, Granted(w, pc)
      PROVE  run' \in RunType /\ worker' \in [Worker -> WorkerType]
  <2>1. "running" \in RunStatuses  BY DEF RunStatuses, Active
  <2>2. run.fence + 1 \in Nat /\ run.cancel \in BOOLEAN
    BY DEF RunType
  <2>3. run' \in RunType
    BY <1>2, <2>1, <2>2 DEF Granted, RunType
  <2>4. [worker[w] EXCEPT !.pc = pc, !.fence = run.fence + 1, !.cancelOnly = run.cancel]
          \in WorkerType
    BY <2>2 DEF WorkerType
  <2> QED BY <1>2, <2>3, <2>4 DEF Granted
<1>3. CASE Claim(w)
  <2>1. "reconcile" \in PCs  BY DEF PCs
  <2> QED BY <1>2, <1>3, <2>1, WorkerMoves DEF Claim
<1>4. CASE DiscoverWait(w)
  <2>1. "claimWait" \in PCs  BY DEF PCs
  <2>2. \A n \in Node :
          [worker[w] EXCEPT !.pc = "claimWait", !.node = n] \in WorkerType
    BY <2>1 DEF WorkerType
  <2>3. worker' \in [Worker -> WorkerType]
    BY <1>4, <2>2 DEF DiscoverWait
  <2> QED BY <1>4, <2>3, SpendTyped DEF DiscoverWait
<1>5. CASE ClaimWait(w)
  <2>1. "resolve" \in PCs  BY DEF PCs
  <2> QED BY <1>2, <1>5, <2>1, WorkerMoves, RunMoves DEF ClaimWait
<1> QED BY <1>1, <1>3, <1>4, <1>5

LEMMA TypeRecovery ==
  ASSUME TypeOK, NEW w \in Worker,
         ReconcileStale(w) \/ ResumeDue(w) \/ NextTransition(w) \/ DeferPaused(w)
  PROVE  TypeOK'
<1> USE DEF TypeOK
<1>0. /\ {"resume", "loop", "fail", "defer", "advance"} \subseteq PCs
      /\ {"uncertain", "succeeded"} \subseteq ExecStatuses \ {"cancelled"}
      /\ {"elapsed", "expired"} \subseteq Ports /\ "queued" \in RunStatuses
  BY DEF PCs, ExecStatuses, Ports, RunStatuses, Active
<1>1. CASE ReconcileStale(w)
  <2>1. \A n \in Node :
          /\ [exec[n] EXCEPT !.status = "uncertain", !.retryable = FALSE] \in ExecType
          /\ [attempt[n] EXCEPT !.status = "uncertain"] \in AttemptType
    BY <1>0 DEF ExecType, AttemptType
  <2>2. exec' \in [Node -> ExecType] /\ attempt' \in [Node -> AttemptType]
    BY <1>1, <2>1 DEF ReconcileStale
  <2> QED BY <1>0, <1>1, <2>1, <2>2, WorkerMoves DEF ReconcileStale
<1>2. CASE ResumeDue(w)
  <2>1. exec' \in [Node -> ExecType] /\ attempt' \in [Node -> AttemptType]
    BY <1>0, <1>2, WaitTyped DEF ResumeDue
  <2> QED BY <1>0, <1>2, <2>1, WorkerMoves DEF ResumeDue
<1>3. CASE NextTransition(w)
  <2>1. [worker[w] EXCEPT !.pc = "advance", !.steps = worker[w].steps + 1] \in WorkerType
    <3>1. worker[w].steps + 1 \in Nat  BY DEF WorkerType
    <3> QED BY <1>0, <3>1 DEF WorkerType
  <2>2. worker' \in [Worker -> WorkerType]
    <3>1. CASE Leave(w) \/ Goto(w, "fail") \/ Goto(w, "defer")
      BY <1>0, <3>1, WorkerMoves
    <3>2. CASE worker' = [worker EXCEPT ![w] = [@ EXCEPT !.pc = "advance",
                                                  !.steps = worker[w].steps + 1]]
      BY <2>1, <3>2
    <3> QED BY <1>3, <3>1, <3>2 DEF NextTransition
  <2> QED BY <1>3, <2>2 DEF NextTransition
<1>4. CASE DeferPaused(w)
  <2>1. run' \in RunType
    BY <1>0, <1>4 DEF DeferPaused, Unlocked, RunType
  <2> QED BY <1>4, <2>1, WorkerMoves DEF DeferPaused
<1> QED BY <1>1, <1>2, <1>3, <1>4

LEMMA TypeAdvance ==
  ASSUME TypeOK, NEW w \in Worker,
         \/ AdvanceFinish(w) \/ AdvanceNext(w) \/ AdvanceWork(w) \/ AdvanceLost(w)
         \/ TransitionLimit(w)
  PROVE  TypeOK'
<1> USE DEF TypeOK
<1>0. /\ {"loop", "wait", "reserve"} \subseteq PCs
      /\ FinishStatuses \subseteq RunStatuses /\ "failed" \in RunStatuses
  BY DEF PCs, RunStatuses, FinishStatuses
<1>1. CASE AdvanceFinish(w)
  <2>1. \A s \in FinishStatuses :
          [Unlocked(run) EXCEPT !.status = s, !.retryNode = None] \in RunType
    BY <1>0 DEF Unlocked, RunType
  <2> QED BY <1>1, <2>1, WorkerMoves DEF AdvanceFinish
<1>2. CASE AdvanceNext(w)
  <2>1. \A m \in Node : [run EXCEPT !.cursor = m, !.retryNode = None] \in RunType
    BY DEF RunType
  <2> QED BY <1>0, <1>2, <2>1, WorkerMoves DEF AdvanceNext
<1>3. CASE AdvanceWork(w)
  <2>1. \A pc \in PCs : [worker[w] EXCEPT !.node = run.cursor, !.pc = pc] \in WorkerType
    BY DEF WorkerType, RunType
  <2>2. worker' \in [Worker -> WorkerType]
    BY <1>0, <1>3, <2>1 DEF AdvanceWork
  <2> QED BY <1>3, <2>2 DEF AdvanceWork
<1>4. CASE AdvanceLost(w)
  BY <1>4, WorkerMoves DEF AdvanceLost
<1>5. CASE TransitionLimit(w)
  BY <1>0, <1>5, WorkerMoves, RunMoves DEF TransitionLimit
<1> QED BY <1>1, <1>2, <1>3, <1>4, <1>5

LEMMA TypeWaits ==
  ASSUME TypeOK, NEW w \in Worker, RegisterWait(w) \/ WaitExists(w) \/ WaitRejected(w)
  PROVE  TypeOK'
<1> USE DEF TypeOK
<1>0. "waiting" \in RunStatuses /\ "waiting" \in ExecStatuses \ {"cancelled"}
      /\ "loop" \in PCs
  BY DEF RunStatuses, Active, ExecStatuses, PCs
<1>1. CASE RegisterWait(w)
  <2>1. [NoExec EXCEPT !.status = "waiting"] \in ExecType
    BY <1>0, IdleTypes DEF ExecType
  <2>2. [no |-> 1, fence |-> worker[w].fence, status |-> "waiting"] \in AttemptType
    BY <1>0 DEF AttemptType, WorkerType
  <2>3. [Unlocked(run) EXCEPT !.status = "waiting", !.wake = "deadline"] \in RunType
    BY <1>0 DEF Unlocked, RunType
  <2> QED BY <1>1, <2>1, <2>2, <2>3, WorkerMoves DEF RegisterWait
<1>2. CASE WaitExists(w)
  BY <1>0, <1>2, WorkerMoves, RunMoves DEF WaitExists
<1>3. CASE WaitRejected(w)
  BY <1>3, WorkerMoves DEF WaitRejected
<1> QED BY <1>1, <1>2, <1>3

LEMMA TypeReserve ==
  ASSUME TypeOK, NEW w \in Worker,
         \/ Reserve(w) \/ ReserveExisting(w) \/ ReserveRejected(w)
         \/ EvaluateCondition(w) \/ PolicyExternal(w) \/ PolicyInternal(w)
  PROVE  TypeOK'
<1> USE DEF TypeOK
<1>0. /\ {"loop", "evaluate", "policy", "permit", "release"} \subseteq PCs
      /\ "running" \in ExecStatuses \ {"cancelled"}
      /\ {"true", "false"} \subseteq Ports
  BY DEF PCs, ExecStatuses, Ports
<1>1. CASE Reserve(w)
  <2> DEFINE n == worker[w].node
  <2>1. n \in Node
    BY <1>1 DEF Reserve, AtCursor, RunType
  <2>2. attempt[n].no + 1 \in Nat /\ worker[w].fence \in Nat
    BY <2>1 DEF AttemptType, WorkerType
  <2>3. [NoExec EXCEPT !.status = "running"] \in ExecType
    BY <1>0, IdleTypes DEF ExecType
  <2>4. [no |-> attempt[n].no + 1, fence |-> worker[w].fence, status |-> "running"]
          \in AttemptType
    BY <1>0, <2>2 DEF AttemptType
  <2>5. \A pc \in PCs :
          [worker[w] EXCEPT !.attemptNo = attempt[n].no + 1, !.pc = pc] \in WorkerType
    BY <2>2 DEF WorkerType
  <2>6. worker' \in [Worker -> WorkerType]
    BY <1>0, <1>1, <2>5 DEF Reserve
  <2> QED BY <1>1, <2>3, <2>4, <2>6 DEF Reserve
<1>2. CASE ReserveExisting(w)
  BY <1>0, <1>2, WorkerMoves DEF ReserveExisting
<1>3. CASE ReserveRejected(w)
  BY <1>3, WorkerMoves DEF ReserveRejected
<1>4. CASE EvaluateCondition(w)
  BY <1>0, <1>4, WorkerMoves, OutcomesTyped DEF EvaluateCondition
<1>5. CASE PolicyExternal(w)
  BY <1>0, <1>5, WorkerMoves, OutcomesTyped, SpendTyped DEF PolicyExternal
<1>6. CASE PolicyInternal(w)
  BY <1>0, <1>6, WorkerMoves DEF PolicyInternal
<1> QED BY <1>1, <1>2, <1>3, <1>4, <1>5, <1>6

LEMMA TypeEffects ==
  ASSUME TypeOK, NEW w \in Worker,
         \/ StartEffect(w) \/ FinishEffect(w) \/ ReleaseUnstarted(w)
         \/ Settle(w) \/ SettleRejected(w) \/ ScheduleRetry(w)
  PROVE  TypeOK'
<1> USE DEF TypeOK
<1>0. /\ {"calling", "release", "defer", "retry", "loop"} \subseteq PCs
      /\ "success" \in Ports /\ "retrying" \in RunStatuses
  BY DEF PCs, Ports, RunStatuses, Active
<1>1. CASE StartEffect(w)
  <2>1. calls' \in [Node -> Nat] /\ spent' \in SpentType
    BY <1>1, SpendTyped DEF StartEffect
  <2>2. worker' \in [Worker -> WorkerType]
    BY <1>0, <1>1, WorkerMoves, OutcomesTyped DEF StartEffect
  <2> QED BY <1>1, <2>1, <2>2 DEF StartEffect
<1>2. CASE FinishEffect(w)
  BY <1>0, <1>2, WorkerMoves, OutcomesTyped DEF FinishEffect
<1>3. CASE ReleaseUnstarted(w)
  BY <1>0, <1>3, WorkerMoves, IdleTypes DEF ReleaseUnstarted
<1>4. CASE Settle(w)
  <2> DEFINE n == worker[w].node
             o == worker[w].outcome
  <2>1. /\ o.status \in ExecStatuses \ {"cancelled"} /\ o.retryable \in BOOLEAN
        /\ o.port \in Ports \cup {"none"}
    BY DEF WorkerType, Outcomes, ExecStatuses
  <2>2. exec' \in [Node -> ExecType]
    <3>1. \A m \in Node : [exec[m] EXCEPT !.status = o.status, !.port = o.port,
                                          !.retryable = o.retryable] \in ExecType
      BY <2>1 DEF ExecType
    <3> QED BY <1>4, <3>1 DEF Settle
  <2>3. attempt' \in [Node -> AttemptType]
    <3>1. \A m \in Node : [attempt[m] EXCEPT !.status = o.status] \in AttemptType
      BY <2>1 DEF AttemptType
    <3> QED BY <1>4, <3>1 DEF Settle
  <2>4. failures' \in [Node -> Nat]
    <3>1. \A m \in Node : failures[m] + 1 \in Nat  OBVIOUS
    <3> QED BY <1>4, <3>1 DEF Settle
  <2> QED BY <1>0, <1>4, <2>2, <2>3, <2>4, WorkerMoves DEF Settle
<1>5. CASE SettleRejected(w)
  BY <1>5, WorkerMoves DEF SettleRejected
<1>6. CASE ScheduleRetry(w)
  <2>1. [Unlocked(run) EXCEPT !.status = "retrying", !.wake = "timer",
                              !.retryNode = run.cursor] \in RunType
    BY <1>0 DEF Unlocked, RunType
  <2> QED BY <1>6, <2>1, WorkerMoves DEF ScheduleRetry
<1> QED BY <1>1, <1>2, <1>3, <1>4, <1>5, <1>6

LEMMA TypeResolver ==
  ASSUME TypeOK, NEW w \in Worker, ResolveWaiting(w) \/ ReleaseResolver(w)
  PROVE  TypeOK'
<1> USE DEF TypeOK
<1>0. /\ {"releaseQueued", "releaseWaiting"} \subseteq PCs
      /\ {"queued", "waiting"} \subseteq RunStatuses
  BY DEF PCs, RunStatuses, Active
<1>1. CASE ResolveWaiting(w)
  <2>1. CASE Valid(w) /\ OpenWait(worker[w].node)
    <3>1. PICK p \in PortsOf(worker[w].node) : ResolvedWait(worker[w].node, p)
      BY <1>1, <2>1 DEF ResolveWaiting
    <3>2. p \in Ports
      BY <3>1 DEF PortsOf, Ports
    <3>3. exec' \in [Node -> ExecType] /\ attempt' \in [Node -> AttemptType]
      <4>1. CASE worker[w].node \in Node
        BY <3>1, <3>2, <4>1, WaitTyped
      <4>2. CASE worker[w].node \notin Node
        BY <3>1, <4>2 DEF ResolvedWait
      <4> QED BY <4>1, <4>2
    <3> QED BY <1>0, <1>1, <2>1, <3>3, WorkerMoves, RunMoves DEF ResolveWaiting
  <2>2. CASE ~(Valid(w) /\ OpenWait(worker[w].node))
    BY <1>0, <1>1, <2>2, WorkerMoves DEF ResolveWaiting
  <2> QED BY <2>1, <2>2
<1>2. CASE ReleaseResolver(w)
  BY <1>0, <1>2, WorkerMoves, RunMoves DEF ReleaseResolver
<1> QED BY <1>1, <1>2

LEMMA TypeOperators ==
  ASSUME TypeOK, CancelRead \/ CancelCommit \/ RetryRun \/ ResolveUncertain
                 \/ PauseWorkspace \/ ResumeWorkspace
  PROVE  TypeOK'
<1> USE DEF TypeOK
<1>0. /\ {"queued", "cancelled"} \subseteq RunStatuses
      /\ {"succeeded", "failed"} \subseteq ExecStatuses \ {"cancelled"}
      /\ "cancelled" \in ExecStatuses /\ "success" \in Ports
  BY DEF RunStatuses, Active, FinishStatuses, ExecStatuses, Ports
<1>1. CASE CancelRead
  <2>1. canceller' \in CancelType
    BY <1>1 DEF CancelRead, CancelType
  <2> QED BY <1>1, <2>1, SpendTyped DEF CancelRead
<1>2. CASE CancelCommit
  <2>1. \A n \in Node : [exec[n] EXCEPT !.status = "cancelled"] \in ExecType
    BY <1>0 DEF ExecType
  <2>2. /\ [Unlocked(run) EXCEPT !.status = "cancelled", !.cancel = TRUE] \in RunType
        /\ [run EXCEPT !.cancel = TRUE] \in RunType
    BY <1>0 DEF Unlocked, RunType
  <2>3. NoCancel \in CancelType
    BY DEF NoCancel, CancelType
  <2> QED BY <1>2, <2>1, <2>2, <2>3 DEF CancelCommit
<1>3. CASE RetryRun
  <2>1. \A n \in Node : [Unlocked(run) EXCEPT !.status = "queued", !.retryNode = n,
                           !.wake = "due", !.cancel = FALSE] \in RunType
    BY <1>0 DEF Unlocked, RunType
  <2> QED BY <1>3, <2>1, SpendTyped DEF RetryRun
<1>4. CASE ResolveUncertain
  <2>1. PICK n \in Node, s \in {"succeeded", "failed"} :
          /\ exec' = [exec EXCEPT ![n] = [@ EXCEPT !.status = s, !.retryable = FALSE,
                         !.port = IF s = "succeeded" THEN "success" ELSE "none"]]
          /\ attempt' = [attempt EXCEPT ![n].status = s]
    BY <1>4 DEF ResolveUncertain
  <2>2. [Unlocked(run) EXCEPT !.status = "queued", !.wake = "due"] \in RunType
    BY <1>0 DEF Unlocked, RunType
  <2>3. exec' \in [Node -> ExecType]
    <3>1. [exec[n] EXCEPT !.status = s, !.retryable = FALSE,
             !.port = IF s = "succeeded" THEN "success" ELSE "none"] \in ExecType
      BY <1>0 DEF ExecType
    <3> QED BY <2>1, <3>1
  <2>4. attempt' \in [Node -> AttemptType]
    <3>1. [attempt[n] EXCEPT !.status = s] \in AttemptType
      BY <1>0 DEF AttemptType
    <3> QED BY <2>1, <3>1
  <2> QED BY <1>4, <2>2, <2>3, <2>4, SpendTyped DEF ResolveUncertain
<1>5. CASE PauseWorkspace
  BY <1>5, SpendTyped DEF PauseWorkspace
<1>6. CASE ResumeWorkspace
  BY <1>6 DEF ResumeWorkspace
<1> QED BY <1>1, <1>2, <1>3, <1>4, <1>5, <1>6

LEMMA TypeFaults ==
  ASSUME TypeOK,
         \/ \E w \in Worker : HeartbeatFails(w) \/ Crash(w)
         \/ DeferAdmission \/ LeaseExpires \/ Stall \/ TimerFires \/ DeadlinePasses
  PROVE  TypeOK'
<1> USE DEF TypeOK
<1>1. ASSUME NEW w \in Worker, HeartbeatFails(w) PROVE TypeOK'
  <2>1. [worker[w] EXCEPT !.lost = TRUE] \in WorkerType
    BY DEF WorkerType
  <2> QED BY <1>1, <2>1, SpendTyped DEF HeartbeatFails
<1>2. ASSUME NEW w \in Worker, Crash(w) PROVE TypeOK'
  BY <1>2, WorkerMoves, SpendTyped DEF Crash
<1>3. CASE DeferAdmission
  BY <1>3, RunMoves, SpendTyped DEF DeferAdmission
<1>4. [run EXCEPT !.live = FALSE] \in RunType
  BY DEF RunType
<1>5. CASE LeaseExpires
  BY <1>4, <1>5 DEF LeaseExpires
<1>6. CASE Stall
  BY <1>4, <1>6, SpendTyped DEF Stall
<1>7. CASE TimerFires
  BY <1>7, RunMoves DEF TimerFires
<1>8. CASE DeadlinePasses
  <2>1. \A n \in Node : [exec[n] EXCEPT !.expired = TRUE] \in ExecType
    BY DEF ExecType
  <2> QED BY <1>8, <2>1, RunMoves DEF DeadlinePasses
<1> QED BY <1>1, <1>2, <1>3, <1>5, <1>6, <1>7, <1>8

\* Every step of the system keeps every row and local variable well typed.
LEMMA TypeStep == TypeOK /\ [Next]_vars => TypeOK'
<1> SUFFICES ASSUME TypeOK, [Next]_vars PROVE TypeOK'
  OBVIOUS
<1>1. CASE \E w \in Worker : WorkerStep(w) \/ LoadRunContext(w) \/ DiscoverWait(w)
  BY <1>1, TypeClaims, TypeRecovery, TypeAdvance, TypeWaits, TypeReserve,
     TypeEffects, TypeResolver DEF WorkerStep
<1>2. CASE \/ \E w \in Worker : HeartbeatFails(w) \/ Crash(w)
           \/ DeferAdmission \/ LeaseExpires \/ Stall \/ TimerFires \/ DeadlinePasses
  BY <1>2, TypeFaults
<1>3. CASE OperatorStep \/ CancelCommit \/ ResumeWorkspace
  BY <1>3, TypeOperators DEF OperatorStep
<1>4. CASE UNCHANGED vars
  BY <1>4 DEF vars, TypeOK
<1> QED BY <1>1, <1>2, <1>3, <1>4 DEF Next

\* Type correctness: in every reachable state, for every graph and any number of
\* workers, each row and each local variable of the run engine is in its domain.
THEOREM TypeCorrect == Spec => []TypeOK
<1>1. Init => TypeOK  BY TypeInit
<1>2. TypeOK /\ [Next]_vars => TypeOK'  BY TypeStep
<1> QED BY <1>1, <1>2, PTL DEF Spec

-----------------------------------------------------------------------------
(***************************************************************************)
(* No blind replay, pause exclusion and the fence, from the invariant of   *)
(* WorkflowRunInv.                                                         *)
(***************************************************************************)

\* A step one worker takes.
Moving(w) ==
  WorkerStep(w) \/ LoadRunContext(w) \/ DiscoverWait(w) \/ HeartbeatFails(w) \/ Crash(w)

\* A step nobody's local state takes part in.
Ambient ==
  \/ OperatorStep \/ CancelCommit \/ ResumeWorkspace \/ DeferAdmission
  \/ LeaseExpires \/ Stall \/ TimerFires \/ DeadlinePasses

LEMMA StepKinds == [Next]_vars => (\E w \in Worker : Moving(w)) \/ Ambient \/ UNCHANGED vars
BY DEF Next, Moving, Ambient

\* What each kind of local move does to the state of the worker that moves.
LEMMA WorkerEffects ==
  ASSUME worker \in [Worker -> WorkerType], NEW w \in Worker
  PROVE  /\ Leave(w) => /\ worker'[w] = IdleWorker
                        /\ \A v \in Worker \ {w} : worker'[v] = worker[v]
         /\ \A pc : Goto(w, pc) =>
              /\ worker'[w].pc = pc /\ worker'[w].fence = worker[w].fence
              /\ worker'[w].node = worker[w].node
              /\ worker'[w].outcome = worker[w].outcome
              /\ worker'[w].cancelOnly = worker[w].cancelOnly
              /\ \A v \in Worker \ {w} : worker'[v] = worker[v]
         /\ \A pc : Continue(w, pc) =>
              /\ worker'[w].pc = pc /\ worker'[w].fence = worker[w].fence
              /\ worker'[w].node = None /\ worker'[w].outcome = NoOutcome
              /\ worker'[w].cancelOnly = worker[w].cancelOnly
              /\ \A v \in Worker \ {w} : worker'[v] = worker[v]
         /\ \A o : Holding(w, o) =>
              /\ worker'[w].pc = "settle" /\ worker'[w].fence = worker[w].fence
              /\ worker'[w].node = worker[w].node /\ worker'[w].outcome = o
              /\ worker'[w].cancelOnly = worker[w].cancelOnly
              /\ \A v \in Worker \ {w} : worker'[v] = worker[v]
         /\ \A pc : Granted(w, pc) =>
              /\ worker'[w].pc = pc /\ worker'[w].fence = run.fence + 1
              /\ worker'[w].node = worker[w].node
              /\ worker'[w].outcome = worker[w].outcome
              /\ \A v \in Worker \ {w} : worker'[v] = worker[v]
<1>1. Leave(w) => /\ worker'[w] = IdleWorker
                  /\ \A v \in Worker \ {w} : worker'[v] = worker[v]
  BY DEF Leave
<1>2. ASSUME NEW pc, Goto(w, pc)
      PROVE  /\ worker'[w].pc = pc /\ worker'[w].fence = worker[w].fence
             /\ worker'[w].node = worker[w].node
             /\ worker'[w].outcome = worker[w].outcome
             /\ worker'[w].cancelOnly = worker[w].cancelOnly
             /\ \A v \in Worker \ {w} : worker'[v] = worker[v]
  BY <1>2 DEF Goto, WorkerType
<1>3. ASSUME NEW pc, Continue(w, pc)
      PROVE  /\ worker'[w].pc = pc /\ worker'[w].fence = worker[w].fence
             /\ worker'[w].node = None /\ worker'[w].outcome = NoOutcome
             /\ worker'[w].cancelOnly = worker[w].cancelOnly
             /\ \A v \in Worker \ {w} : worker'[v] = worker[v]
  BY <1>3 DEF Continue, WorkerType
<1>4. ASSUME NEW o, Holding(w, o)
      PROVE  /\ worker'[w].pc = "settle" /\ worker'[w].fence = worker[w].fence
             /\ worker'[w].node = worker[w].node /\ worker'[w].outcome = o
             /\ worker'[w].cancelOnly = worker[w].cancelOnly
             /\ \A v \in Worker \ {w} : worker'[v] = worker[v]
  BY <1>4 DEF Holding, WorkerType
<1>5. ASSUME NEW pc, Granted(w, pc)
      PROVE  /\ worker'[w].pc = pc /\ worker'[w].fence = run.fence + 1
             /\ worker'[w].node = worker[w].node
             /\ worker'[w].outcome = worker[w].outcome
             /\ \A v \in Worker \ {w} : worker'[v] = worker[v]
  BY <1>5 DEF Granted, WorkerType
<1> QED BY <1>1, <1>2, <1>3, <1>4, <1>5

\* Where each step leaves the program counter of its worker.
LEMMA PcAfter ==
  ASSUME TypeOK, NEW w \in Worker
  PROVE  /\ LoadRunContext(w) => worker'[w].pc \in {"claim"}
         /\ DiscoverWait(w) => worker'[w].pc \in {"claimWait"}
         /\ HeartbeatFails(w) => worker'[w].pc \in {worker[w].pc}
         /\ Crash(w) => worker'[w].pc \in {"idle"}
         /\ Claim(w) => worker'[w].pc \in {"reconcile", "idle"}
         /\ ReconcileStale(w) => worker'[w].pc \in {"resume"}
         /\ ResumeDue(w) => worker'[w].pc \in {"loop"}
         /\ NextTransition(w) => worker'[w].pc \in {"fail", "idle", "defer", "advance"}
         /\ DeferPaused(w) => worker'[w].pc \in {"idle"}
         /\ AdvanceFinish(w) => worker'[w].pc \in {"idle"}
         /\ AdvanceNext(w) => worker'[w].pc \in {"loop"}
         /\ AdvanceWork(w) => worker'[w].pc \in {"wait", "reserve"}
         /\ AdvanceLost(w) => worker'[w].pc \in {"idle"}
         /\ TransitionLimit(w) => worker'[w].pc \in {"idle"}
         /\ RegisterWait(w) => worker'[w].pc \in {"idle"}
         /\ WaitExists(w) => worker'[w].pc \in {"loop", "idle"}
         /\ WaitRejected(w) => worker'[w].pc \in {"idle"}
         /\ Reserve(w) => worker'[w].pc \in {"evaluate", "policy"}
         /\ ReserveExisting(w) => worker'[w].pc \in {"loop"}
         /\ ReserveRejected(w) => worker'[w].pc \in {"idle"}
         /\ EvaluateCondition(w) => worker'[w].pc \in {"settle"}
         /\ PolicyExternal(w) => worker'[w].pc \in {"release", "settle", "permit"}
         /\ PolicyInternal(w) => worker'[w].pc \in {"permit", "release"}
         /\ StartEffect(w) => worker'[w].pc \in {"calling", "release", "settle"}
         /\ FinishEffect(w) => worker'[w].pc \in {"settle"}
         /\ ReleaseUnstarted(w) => worker'[w].pc \in {"defer"}
         /\ Settle(w) => worker'[w].pc \in {"retry", "loop"}
         /\ SettleRejected(w) => worker'[w].pc \in {"idle"}
         /\ ScheduleRetry(w) => worker'[w].pc \in {"idle"}
         /\ ClaimWait(w) => worker'[w].pc \in {"resolve", "idle"}
         /\ ResolveWaiting(w) => worker'[w].pc \in {"releaseQueued", "releaseWaiting"}
         /\ ReleaseResolver(w) => worker'[w].pc \in {"idle"}
<1> USE WorkerEffects DEF TypeOK
<1>0. IdleWorker.pc = "idle"
  BY DEF IdleWorker
<1>1. LoadRunContext(w) => worker'[w].pc \in {"claim"}
  BY DEF LoadRunContext, WorkerType
<1>2. DiscoverWait(w) => worker'[w].pc \in {"claimWait"}
  BY DEF DiscoverWait, WorkerType
<1>3. HeartbeatFails(w) => worker'[w].pc \in {worker[w].pc}
  BY DEF HeartbeatFails, WorkerType
<1>4. Crash(w) => worker'[w].pc \in {"idle"}
  BY <1>0 DEF Crash
<1>5. Claim(w) => worker'[w].pc \in {"reconcile", "idle"}
  BY <1>0 DEF Claim
<1>6. ReconcileStale(w) => worker'[w].pc \in {"resume"}
  <2>1. ReconcileStale(w) => Goto(w, "resume")
    BY DEF ReconcileStale
  <2> QED BY <2>1
<1>7. ResumeDue(w) => worker'[w].pc \in {"loop"}
  BY DEF ResumeDue
<1>8. NextTransition(w) => worker'[w].pc \in {"fail", "idle", "defer", "advance"}
  <2>1. CASE Leave(w) \/ Goto(w, "fail") \/ Goto(w, "defer")
    BY <1>0, <2>1
  <2>2. CASE worker' = [worker EXCEPT ![w] = [@ EXCEPT !.pc = "advance",
                                                !.steps = worker[w].steps + 1]]
    BY <2>2 DEF WorkerType
  <2> QED BY <2>1, <2>2 DEF NextTransition
<1>9. DeferPaused(w) => worker'[w].pc \in {"idle"}
  BY <1>0 DEF DeferPaused
<1>10. AdvanceFinish(w) => worker'[w].pc \in {"idle"}
  BY <1>0 DEF AdvanceFinish
<1>11. AdvanceNext(w) => worker'[w].pc \in {"loop"}
  BY DEF AdvanceNext
<1>12. AdvanceWork(w) => worker'[w].pc \in {"wait", "reserve"}
  BY DEF AdvanceWork, WorkerType
<1>13. AdvanceLost(w) => worker'[w].pc \in {"idle"}
  BY <1>0 DEF AdvanceLost
<1>14. TransitionLimit(w) => worker'[w].pc \in {"idle"}
  BY <1>0 DEF TransitionLimit
<1>15. RegisterWait(w) => worker'[w].pc \in {"idle"}
  BY <1>0 DEF RegisterWait
<1>16. WaitExists(w) => worker'[w].pc \in {"loop", "idle"}
  BY <1>0 DEF WaitExists
<1>17. WaitRejected(w) => worker'[w].pc \in {"idle"}
  BY <1>0 DEF WaitRejected
<1>18. Reserve(w) => worker'[w].pc \in {"evaluate", "policy"}
  BY DEF Reserve, WorkerType
<1>19. ReserveExisting(w) => worker'[w].pc \in {"loop"}
  BY DEF ReserveExisting
<1>20. ReserveRejected(w) => worker'[w].pc \in {"idle"}
  BY <1>0 DEF ReserveRejected
<1>21. EvaluateCondition(w) => worker'[w].pc \in {"settle"}
  BY DEF EvaluateCondition
<1>22. PolicyExternal(w) => worker'[w].pc \in {"release", "settle", "permit"}
  BY DEF PolicyExternal
<1>23. PolicyInternal(w) => worker'[w].pc \in {"permit", "release"}
  BY DEF PolicyInternal
<1>24. StartEffect(w) => worker'[w].pc \in {"calling", "release", "settle"}
  BY DEF StartEffect
<1>25. FinishEffect(w) => worker'[w].pc \in {"settle"}
  BY DEF FinishEffect
<1>26. ReleaseUnstarted(w) => worker'[w].pc \in {"defer"}
  BY DEF ReleaseUnstarted
<1>27. Settle(w) => worker'[w].pc \in {"retry", "loop"}
  BY DEF Settle
<1>28. SettleRejected(w) => worker'[w].pc \in {"idle"}
  BY <1>0 DEF SettleRejected
<1>29. ScheduleRetry(w) => worker'[w].pc \in {"idle"}
  BY <1>0 DEF ScheduleRetry
<1>30. ClaimWait(w) => worker'[w].pc \in {"resolve", "idle"}
  BY <1>0 DEF ClaimWait
<1>31. ResolveWaiting(w) => worker'[w].pc \in {"releaseQueued", "releaseWaiting"}
  BY DEF ResolveWaiting
<1>32. ReleaseResolver(w) => worker'[w].pc \in {"idle"}
  BY <1>0 DEF ReleaseResolver
<1> QED BY <1>1, <1>2, <1>3, <1>4, <1>5, <1>6, <1>7, <1>8, <1>9, <1>10, <1>11, <1>12,
           <1>13, <1>14, <1>15, <1>16, <1>17, <1>18, <1>19, <1>20, <1>21, <1>22,
           <1>23, <1>24, <1>25, <1>26, <1>27, <1>28, <1>29, <1>30, <1>31, <1>32

\* No step touches the local state of a worker other than the one that moves.
LEMMA OnlyTheMover ==
  ASSUME TypeOK, NEW w \in Worker, Moving(w)
  PROVE  \A v \in Worker \ {w} : worker'[v] = worker[v]
<1> USE DEF TypeOK, Leave, Goto, Continue, Holding, Granted
<1>1. CASE LoadRunContext(w) \/ DiscoverWait(w) \/ HeartbeatFails(w) \/ Crash(w)
  BY <1>1 DEF LoadRunContext, DiscoverWait, HeartbeatFails, Crash
<1>2. CASE Claim(w) \/ ClaimWait(w)
  BY <1>2 DEF Claim, ClaimWait
<1>3. CASE ReconcileStale(w) \/ ResumeDue(w) \/ NextTransition(w) \/ DeferPaused(w)
  BY <1>3 DEF ReconcileStale, ResumeDue, NextTransition, DeferPaused
<1>4. CASE \/ AdvanceFinish(w) \/ AdvanceNext(w) \/ AdvanceWork(w) \/ AdvanceLost(w)
           \/ TransitionLimit(w)
  BY <1>4 DEF AdvanceFinish, AdvanceNext, AdvanceWork, AdvanceLost, TransitionLimit
<1>5. CASE RegisterWait(w) \/ WaitExists(w) \/ WaitRejected(w)
  BY <1>5 DEF RegisterWait, WaitExists, WaitRejected
<1>6. CASE \/ Reserve(w) \/ ReserveExisting(w) \/ ReserveRejected(w)
           \/ EvaluateCondition(w) \/ PolicyExternal(w) \/ PolicyInternal(w)
  BY <1>6 DEF Reserve, ReserveExisting, ReserveRejected, EvaluateCondition,
              PolicyExternal, PolicyInternal
<1>7. CASE StartEffect(w) \/ FinishEffect(w) \/ ReleaseUnstarted(w) \/ Settle(w)
           \/ SettleRejected(w) \/ ScheduleRetry(w)
  BY <1>7 DEF StartEffect, FinishEffect, ReleaseUnstarted, Settle, SettleRejected,
              ScheduleRetry
<1>8. CASE ResolveWaiting(w) \/ ReleaseResolver(w)
  BY <1>8 DEF ResolveWaiting, ReleaseResolver
<1> QED BY <1>1, <1>2, <1>3, <1>4, <1>5, <1>6, <1>7, <1>8 DEF Moving, WorkerStep

\* Only the operator changes the workspace policy.
LEMMA MoverKeepsPolicy ==
  ASSUME NEW w \in Worker, Moving(w)
  PROVE  enabled' = enabled
<1>1. CASE \/ LoadRunContext(w) \/ DiscoverWait(w) \/ HeartbeatFails(w) \/ Crash(w)
           \/ Claim(w) \/ ClaimWait(w) \/ ReconcileStale(w) \/ ResumeDue(w)
           \/ NextTransition(w) \/ DeferPaused(w)
  BY <1>1 DEF LoadRunContext, DiscoverWait, HeartbeatFails, Crash, Claim, ClaimWait,
     ReconcileStale, ResumeDue, NextTransition, DeferPaused
<1>2. CASE \/ AdvanceFinish(w) \/ AdvanceNext(w) \/ AdvanceWork(w) \/ AdvanceLost(w)
           \/ TransitionLimit(w) \/ RegisterWait(w) \/ WaitExists(w) \/ WaitRejected(w)
           \/ Reserve(w) \/ ReserveExisting(w) \/ ReserveRejected(w)
  BY <1>2 DEF AdvanceFinish, AdvanceNext, AdvanceWork, AdvanceLost, TransitionLimit,
     RegisterWait, WaitExists, WaitRejected, Reserve, ReserveExisting, ReserveRejected
<1>3. CASE \/ EvaluateCondition(w) \/ PolicyExternal(w) \/ PolicyInternal(w)
           \/ StartEffect(w) \/ FinishEffect(w) \/ ReleaseUnstarted(w) \/ Settle(w)
           \/ SettleRejected(w) \/ ScheduleRetry(w) \/ ResolveWaiting(w)
           \/ ReleaseResolver(w)
  BY <1>3 DEF EvaluateCondition, PolicyExternal, PolicyInternal, StartEffect, FinishEffect,
     ReleaseUnstarted, Settle, SettleRejected, ScheduleRetry, ResolveWaiting, ReleaseResolver
<1> QED BY <1>1, <1>2, <1>3 DEF Moving, WorkerStep

\* Ambient steps leave every worker as it is.
LEMMA AmbientKeepsWorkers == Ambient => UNCHANGED worker
BY DEF Ambient, OperatorStep, CancelRead, CancelCommit, RetryRun, ResolveUncertain,
       PauseWorkspace, ResumeWorkspace, DeferAdmission, LeaseExpires, Stall,
       TimerFires, DeadlinePasses

-----------------------------------------------------------------------------
(* The lease.                                                              *)

\* A lease has one holder.
LEMMA OneHolder ==
  \A v, w \in Worker : Valid(v) /\ Valid(w) => v = w
BY DEF Valid

\* The fence at work: while one worker's lease is valid, a step of any other
\* worker changes no row.
LEMMA OthersWriteNothing ==
  ASSUME TypeOK, NEW v \in Worker, NEW w \in Worker, v # w, Valid(v), Moving(w)
  PROVE  UNCHANGED <<run, exec, attempt>>
<1>1. ~Valid(w)  BY OneHolder
<1>2. ~NotHeld /\ run.status = "running"
  BY WorkflowRunAssumption DEF Valid, NotHeld
<1> USE <1>1, <1>2
<1>3. CASE LoadRunContext(w) \/ DiscoverWait(w) \/ HeartbeatFails(w) \/ Crash(w)
  BY <1>3 DEF LoadRunContext, DiscoverWait, HeartbeatFails, Crash
<1>4. CASE Claim(w) \/ ClaimWait(w)
  BY <1>4 DEF Claim, ClaimWait, Claimable
<1>5. CASE ReconcileStale(w) \/ ResumeDue(w) \/ NextTransition(w) \/ DeferPaused(w)
  BY <1>5 DEF ReconcileStale, ResumeDue, NextTransition, DeferPaused
<1>6. CASE \/ AdvanceFinish(w) \/ AdvanceNext(w) \/ AdvanceWork(w) \/ AdvanceLost(w)
           \/ TransitionLimit(w)
  BY <1>6 DEF AdvanceFinish, AdvanceNext, AdvanceWork, AdvanceLost, TransitionLimit
<1>7. CASE RegisterWait(w) \/ WaitExists(w) \/ WaitRejected(w)
  BY <1>7 DEF RegisterWait, WaitExists, WaitRejected, AtCursor
<1>8. CASE \/ Reserve(w) \/ ReserveExisting(w) \/ ReserveRejected(w)
           \/ EvaluateCondition(w) \/ PolicyExternal(w) \/ PolicyInternal(w)
  BY <1>8 DEF Reserve, ReserveExisting, ReserveRejected, EvaluateCondition,
              PolicyExternal, PolicyInternal, AtCursor
<1>9. CASE StartEffect(w) \/ FinishEffect(w) \/ ReleaseUnstarted(w) \/ Settle(w)
           \/ SettleRejected(w) \/ ScheduleRetry(w)
  BY <1>9 DEF StartEffect, FinishEffect, ReleaseUnstarted, Settle, SettleRejected,
              ScheduleRetry, OwnAttempt
<1>10. CASE ResolveWaiting(w) \/ ReleaseResolver(w)
  BY <1>10 DEF ResolveWaiting, ReleaseResolver
<1> QED BY <1>3, <1>4, <1>5, <1>6, <1>7, <1>8, <1>9, <1>10 DEF Moving, WorkerStep

\* The run row after a step that is no claim: nothing revives a lease.
Unrevived ==
  /\ run'.fence = run.fence
  /\ run'.status = "running" => run.status = "running" /\ (run.cancel => run'.cancel)
  /\ run'.lockedBy # None => run'.lockedBy = run.lockedBy
  /\ run'.live => run.live

Claims(w) == \E pc \in {"reconcile", "resolve"} : Granted(w, pc)

LEMMA MoverRun ==
  ASSUME TypeOK, NEW w \in Worker, Moving(w)
  PROVE  Claims(w) \/ Unrevived
<1> USE DEF TypeOK, RunType, Unrevived, Unlocked
<1>1. CASE LoadRunContext(w) \/ DiscoverWait(w) \/ HeartbeatFails(w) \/ Crash(w)
  BY <1>1 DEF LoadRunContext, DiscoverWait, HeartbeatFails, Crash
<1>2. CASE Claim(w)
  BY <1>2 DEF Claim, Claims
<1>3. CASE ClaimWait(w)
  BY <1>3 DEF ClaimWait, Claims
<1>4. CASE ReconcileStale(w) \/ ResumeDue(w) \/ NextTransition(w) \/ DeferPaused(w)
  BY <1>4 DEF ReconcileStale, ResumeDue, NextTransition, DeferPaused
<1>5. CASE AdvanceFinish(w) \/ TransitionLimit(w)
  BY <1>5 DEF AdvanceFinish, TransitionLimit, FinishStatuses
<1>6. CASE AdvanceNext(w) \/ AdvanceWork(w) \/ AdvanceLost(w)
  BY <1>6 DEF AdvanceNext, AdvanceWork, AdvanceLost
<1>7. CASE RegisterWait(w) \/ WaitExists(w) \/ WaitRejected(w)
  BY <1>7 DEF RegisterWait, WaitExists, WaitRejected
<1>8. CASE \/ Reserve(w) \/ ReserveExisting(w) \/ ReserveRejected(w)
           \/ EvaluateCondition(w) \/ PolicyExternal(w) \/ PolicyInternal(w)
  BY <1>8 DEF Reserve, ReserveExisting, ReserveRejected, EvaluateCondition,
              PolicyExternal, PolicyInternal
<1>9. CASE StartEffect(w) \/ FinishEffect(w) \/ ReleaseUnstarted(w) \/ Settle(w)
           \/ SettleRejected(w)
  BY <1>9 DEF StartEffect, FinishEffect, ReleaseUnstarted, Settle, SettleRejected
<1>10. CASE ScheduleRetry(w) \/ ResolveWaiting(w) \/ ReleaseResolver(w)
  BY <1>10 DEF ScheduleRetry, ResolveWaiting, ReleaseResolver
<1> QED BY <1>1, <1>2, <1>3, <1>4, <1>5, <1>6, <1>7, <1>8, <1>9, <1>10
        DEF Moving, WorkerStep

LEMMA AmbientRun ==
  ASSUME TypeOK, Ambient
  PROVE  Unrevived
<1> USE DEF TypeOK, RunType, Unrevived, Unlocked
<1>1. CASE CancelRead \/ PauseWorkspace \/ ResumeWorkspace
  BY <1>1 DEF CancelRead, PauseWorkspace, ResumeWorkspace
<1>2. CASE RetryRun
  BY <1>2 DEF RetryRun
<1>3. CASE ResolveUncertain
  BY <1>3 DEF ResolveUncertain
<1>4. CASE CancelCommit
  BY <1>4 DEF CancelCommit
<1>5. CASE DeferAdmission \/ LeaseExpires \/ Stall \/ TimerFires \/ DeadlinePasses
  BY <1>5 DEF DeferAdmission, LeaseExpires, Stall, TimerFires, DeadlinePasses
<1> QED BY <1>1, <1>2, <1>3, <1>4, <1>5 DEF Ambient, OperatorStep


\* A step keeps the fence its worker holds, takes a new one, or drops it.
KeepsFence(w) ==
  /\ worker'[w].fence = worker[w].fence
  /\ worker'[w].cancelOnly = worker[w].cancelOnly
  /\ worker'[w].pc \notin Unclaimed => worker[w].pc \notin Unclaimed

LEMMA LocalMoves ==
  ASSUME TypeOK, NEW w \in Worker, Moving(w)
  PROVE  worker'[w] = IdleWorker \/ Claims(w) \/ KeepsFence(w)
<1> USE WorkerEffects DEF TypeOK, KeepsFence, Unclaimed
<1>1. CASE LoadRunContext(w) \/ DiscoverWait(w) \/ HeartbeatFails(w) \/ Crash(w)
  <2>1. CASE LoadRunContext(w)
    BY <2>1 DEF LoadRunContext, WorkerType
  <2>2. CASE DiscoverWait(w)
    BY <2>2 DEF DiscoverWait, WorkerType
  <2>3. CASE HeartbeatFails(w) \/ Crash(w)
    BY <2>3 DEF HeartbeatFails, Crash, WorkerType
  <2> QED BY <1>1, <2>1, <2>2, <2>3
<1>2. CASE Claim(w) \/ ClaimWait(w)
  BY <1>2 DEF Claim, ClaimWait, Claims
<1>3. CASE ReconcileStale(w) \/ ResumeDue(w) \/ DeferPaused(w)
  <2>1. CASE ReconcileStale(w)
    BY <2>1 DEF ReconcileStale
  <2>2. CASE ResumeDue(w)
    BY <2>2 DEF ResumeDue
  <2>3. CASE DeferPaused(w)
    BY <2>3 DEF DeferPaused
  <2> QED BY <1>3, <2>1, <2>2, <2>3
<1>4. CASE NextTransition(w) \/ AdvanceWork(w) \/ Reserve(w)
  <2>1. CASE NextTransition(w)
    <3>1. CASE Leave(w) \/ Goto(w, "fail") \/ Goto(w, "defer")
      BY <2>1, <3>1 DEF NextTransition
    <3>2. CASE worker' = [worker EXCEPT ![w] = [@ EXCEPT !.pc = "advance",
                                                  !.steps = worker[w].steps + 1]]
      BY <2>1, <3>2 DEF NextTransition, WorkerType
    <3> QED BY <2>1, <3>1, <3>2 DEF NextTransition
  <2>2. CASE AdvanceWork(w)
    BY <2>2 DEF AdvanceWork, WorkerType
  <2>3. CASE Reserve(w)
    BY <2>3 DEF Reserve, WorkerType
  <2> QED BY <1>4, <2>1, <2>2, <2>3
<1>5. CASE AdvanceFinish(w) \/ AdvanceNext(w) \/ AdvanceLost(w) \/ TransitionLimit(w)
  BY <1>5 DEF AdvanceFinish, AdvanceNext, AdvanceLost, TransitionLimit
<1>6. CASE RegisterWait(w) \/ WaitExists(w) \/ WaitRejected(w)
  BY <1>6 DEF RegisterWait, WaitExists, WaitRejected
<1>7. CASE \/ ReserveExisting(w) \/ ReserveRejected(w)
           \/ EvaluateCondition(w) \/ PolicyExternal(w) \/ PolicyInternal(w)
  BY <1>7 DEF ReserveExisting, ReserveRejected, EvaluateCondition,
              PolicyExternal, PolicyInternal
<1>8. CASE StartEffect(w) \/ FinishEffect(w) \/ ReleaseUnstarted(w) \/ Settle(w)
           \/ SettleRejected(w) \/ ScheduleRetry(w)
  BY <1>8 DEF StartEffect, FinishEffect, ReleaseUnstarted, Settle, SettleRejected,
              ScheduleRetry
<1>9. CASE ResolveWaiting(w) \/ ReleaseResolver(w)
  BY <1>9 DEF ResolveWaiting, ReleaseResolver
<1> QED BY <1>1, <1>2, <1>3, <1>4, <1>5, <1>6, <1>7, <1>8, <1>9 DEF Moving, WorkerStep

LEMMA FencesStep ==
  ASSUME TypeOK, FencesDistinct, [Next]_vars
  PROVE  FencesDistinct'
<1>0. TypeOK'  BY TypeStep
<1>1. ASSUME NEW w \in Worker, Moving(w) PROVE FencesDistinct'
  <2>1. \A v \in Worker \ {w} : worker'[v] = worker[v]
    BY <1>1, OnlyTheMover
  <2>2. CASE Claims(w)
    <3>1. run'.fence = run.fence + 1
      BY <2>2 DEF Claims, Granted, TypeOK, RunType
    <3>2. worker'[w].fence = run.fence + 1
      BY <2>2, WorkerEffects DEF Claims, TypeOK
    <3>3. run.fence \in Nat /\ \A v \in Worker : worker[v].fence \in Nat
      BY DEF TypeOK, RunType, WorkerType
    <3> QED BY <2>1, <3>1, <3>2, <3>3 DEF FencesDistinct
  <2>3. CASE ~Claims(w)
    <3>1. run'.fence = run.fence
      BY <1>1, <2>3, MoverRun DEF Unrevived
    <3>2. CASE worker'[w] = IdleWorker
      <4>1. worker'[w].fence = 0 /\ worker'[w].pc \in Unclaimed
        BY <3>2 DEF IdleWorker, Unclaimed
      <4>2. run.fence \in Nat /\ \A v \in Worker : worker[v].fence \in Nat
        BY DEF TypeOK, RunType, WorkerType
      <4> QED BY <2>1, <3>1, <4>1, <4>2 DEF FencesDistinct
    <3>3. CASE KeepsFence(w)
      BY <2>1, <3>1, <3>3 DEF FencesDistinct, KeepsFence
    <3> QED BY <1>1, <2>3, <3>2, <3>3, LocalMoves
  <2> QED BY <2>2, <2>3
<1>2. CASE Ambient
  BY <1>2, AmbientKeepsWorkers, AmbientRun DEF FencesDistinct, Unrevived
<1>3. CASE UNCHANGED vars
  BY <1>3 DEF FencesDistinct, vars
<1> QED BY <1>1, <1>2, <1>3, StepKinds

\* Outside a claim, a lease that is valid after a step was valid before it.
LEMMA ValidShrinks ==
  ASSUME TypeOK, [Next]_vars, NEW v \in Worker, Valid(v)',
         worker'[v].pc \notin Unclaimed \cup {"reconcile", "resolve"}
  PROVE  Valid(v)
<1>1. CASE UNCHANGED vars
  BY <1>1 DEF Valid, vars
<1>2. CASE Ambient
  BY <1>2, AmbientRun, AmbientKeepsWorkers, WorkflowRunAssumption
     DEF Unrevived, Valid, TypeOK, RunType
<1>3. ASSUME NEW w \in Worker, Moving(w) PROVE Valid(v)
  <2>1. CASE Claims(w)
    <3>1. run'.lockedBy = w
      BY <2>1 DEF Claims, Granted, TypeOK, RunType
    <3>2. worker'[w].pc \in {"reconcile", "resolve"}
      BY <2>1, WorkerEffects DEF Claims, TypeOK
    <3> QED BY <3>1, <3>2 DEF Valid
  <2>2. CASE Unrevived /\ v # w
    <3>1. worker'[v] = worker[v]
      BY <1>3, <2>2, OnlyTheMover
    <3>2. v # None
      BY WorkflowRunAssumption
    <3> QED BY <2>2, <3>1, <3>2 DEF Unrevived, Valid, TypeOK, RunType
  <2>3. CASE Unrevived /\ v = w
    <3>1. worker'[w] # IdleWorker
      BY <2>3 DEF IdleWorker, Unclaimed
    <3>2. CASE KeepsFence(w)
      BY <2>3, <3>2, WorkflowRunAssumption
         DEF Unrevived, KeepsFence, Valid, TypeOK, RunType
    <3> QED BY <1>3, <2>1, <3>1, <3>2, LocalMoves
  <2> QED BY <1>3, <2>1, <2>2, <2>3, MoverRun
<1> QED BY <1>1, <1>2, <1>3, StepKinds

\* What an ambient step leaves to a worker whose lease stays valid.
LEMMA AmbientLeavesHolder ==
  ASSUME TypeOK, NEW v \in Worker, Valid(v), Valid(v)', Ambient
  PROVE  /\ run'.cursor = run.cursor /\ run'.retryNode = run.retryNode
         /\ \A n \in Node :
              /\ (exec'[n].status = "failed") <=> (exec[n].status = "failed")
              /\ exec[n].status = "failed" => exec'[n] = exec[n]
<1>0. run.status = "running" /\ run'.status = "running"
  BY DEF Valid
<1> USE <1>0 DEF TypeOK, RunType
<1>1. CASE CancelRead \/ PauseWorkspace \/ ResumeWorkspace
  BY <1>1 DEF CancelRead, PauseWorkspace, ResumeWorkspace
<1>2. CASE RetryRun \/ ResolveUncertain
  BY <1>2 DEF RetryRun, ResolveUncertain
<1>3. CASE CancelCommit
  <2>1. run'.cursor = run.cursor /\ run'.retryNode = run.retryNode
    BY <1>3 DEF CancelCommit, Unlocked
  <2>2. \A n \in Node :
          \/ exec'[n] = exec[n]
          \/ exec[n].status = "waiting" /\ exec'[n].status = "cancelled"
    BY <1>3 DEF CancelCommit, ExecType
  <2> QED BY <2>1, <2>2
<1>4. CASE DeferAdmission \/ LeaseExpires \/ Stall \/ TimerFires
  BY <1>4 DEF DeferAdmission, LeaseExpires, Stall, TimerFires
<1>5. CASE DeadlinePasses
  BY <1>5 DEF DeadlinePasses, ExecType
<1> QED BY <1>1, <1>2, <1>3, <1>4, <1>5 DEF Ambient, OperatorStep


-----------------------------------------------------------------------------
(* The cursor, the retry intent and its evidence.                          *)

\* A step that leaves its worker on a node either has just put it there or works
\* on at the same node without moving the cursor.
LEMMA MoverOnNode ==
  ASSUME TypeOK, NEW w \in Worker, Moving(w), worker'[w].pc \in OnNode
  PROVE  /\ run' = run
         /\ \/ AdvanceWork(w) /\ worker'[w].node = run.cursor
            \/ worker[w].pc \in OnNode /\ worker'[w].node = worker[w].node
<1> USE WorkerEffects DEF TypeOK, OnNode
<1>1. \/ HeartbeatFails(w) \/ AdvanceWork(w) \/ Reserve(w) \/ EvaluateCondition(w)
      \/ PolicyExternal(w) \/ PolicyInternal(w) \/ StartEffect(w) \/ FinishEffect(w)
  BY PcAfter DEF Moving, WorkerStep
<1>2. CASE HeartbeatFails(w)
  BY <1>2 DEF HeartbeatFails, WorkerType
<1>3. CASE AdvanceWork(w)
  BY <1>3 DEF AdvanceWork, WorkerType
<1>4. CASE Reserve(w)
  BY <1>4 DEF Reserve, WorkerType
<1>5. CASE EvaluateCondition(w) \/ FinishEffect(w)
  BY <1>5 DEF EvaluateCondition, FinishEffect
<1>6. CASE PolicyExternal(w)
  BY <1>6 DEF PolicyExternal
<1>7. CASE PolicyInternal(w) \/ StartEffect(w)
  BY <1>7 DEF PolicyInternal, StartEffect
<1> QED BY <1>1, <1>2, <1>3, <1>4, <1>5, <1>6, <1>7

LEMMA HolderAtCursorStep ==
  ASSUME TypeOK, HolderAtCursor, [Next]_vars
  PROVE  HolderAtCursor'
<1> SUFFICES ASSUME NEW v \in Worker, Valid(v)', worker'[v].pc \in OnNode
             PROVE  worker'[v].node = run'.cursor
  BY DEF HolderAtCursor
<1>1. Valid(v)
  BY ValidShrinks DEF OnNode, Unclaimed
<1>2. CASE Moving(v)
  BY <1>1, <1>2, MoverOnNode DEF HolderAtCursor
<1>3. ASSUME NEW w \in Worker, Moving(w), v # w PROVE worker'[v].node = run'.cursor
  BY <1>1, <1>3, OnlyTheMover, OthersWriteNothing DEF HolderAtCursor
<1>4. CASE Ambient
  BY <1>1, <1>4, AmbientKeepsWorkers, AmbientLeavesHolder DEF HolderAtCursor
<1>5. CASE UNCHANGED vars
  BY <1>1, <1>5 DEF HolderAtCursor, vars
<1> QED BY <1>2, <1>3, <1>4, <1>5, StepKinds


\* What a worker holds as retryable is a failure.
LEMMA RetryableStep ==
  ASSUME TypeOK, RetryableIsFailed, [Next]_vars
  PROVE  RetryableIsFailed'
<1>1. ASSUME NEW w \in Worker, Moving(w)
      PROVE  worker'[w].outcome.retryable => worker'[w].outcome.status = "failed"
  <2> USE WorkerEffects DEF TypeOK, RetryableIsFailed
  <2>1. CASE worker'[w].outcome = worker[w].outcome
    BY <2>1
  <2>2. CASE worker'[w].outcome = NoOutcome
    BY <2>2 DEF NoOutcome
  <2>3. CASE worker'[w] = IdleWorker
    BY <2>3 DEF IdleWorker, NoOutcome
  <2>4. CASE EvaluateCondition(w) \/ PolicyExternal(w) \/ StartEffect(w) \/ FinishEffect(w)
    <3>1. ASSUME NEW o, Holding(w, o), o.retryable => o.status = "failed"
          PROVE  worker'[w].outcome.retryable => worker'[w].outcome.status = "failed"
      BY <3>1
    <3>2. /\ \A b \in BOOLEAN : Failed(b).status = "failed"
          /\ \A p : ~Succeeded(p).retryable
          /\ ~Uncertain.retryable
      BY DEF Failed, Succeeded, Uncertain
    <3>3. CASE EvaluateCondition(w)
      BY <3>1, <3>2, <3>3 DEF EvaluateCondition
    <3>4. CASE PolicyExternal(w)
      <4>1. Goto(w, "release") \/ Goto(w, "permit") \/ Holding(w, Failed(FALSE))
        BY <3>4 DEF PolicyExternal
      <4> QED BY <2>1, <3>1, <3>2, <4>1
    <3>5. CASE FinishEffect(w)
      BY <3>1, <3>2, <3>5 DEF FinishEffect
    <3>6. CASE StartEffect(w)
      <4>1. Goto(w, "release") \/ Goto(w, "calling") \/ Holding(w, Uncertain)
        BY <3>6 DEF StartEffect
      <4> QED BY <2>1, <3>1, <3>2, <4>1
    <3> QED BY <2>4, <3>3, <3>4, <3>5, <3>6
  <2>5. CASE LoadRunContext(w)
    BY <2>1, <2>5 DEF LoadRunContext, WorkerType
  <2>6. CASE DiscoverWait(w)
    BY <2>1, <2>6 DEF DiscoverWait, WorkerType
  <2>7. CASE HeartbeatFails(w) \/ Crash(w)
    BY <2>1, <2>3, <2>7 DEF HeartbeatFails, Crash, WorkerType
  <2>8. CASE Claim(w) \/ ClaimWait(w)
    BY <2>1, <2>3, <2>8 DEF Claim, ClaimWait
  <2>9. CASE ReconcileStale(w) \/ ResumeDue(w)
    BY <2>1, <2>9 DEF ReconcileStale, ResumeDue
  <2>10. CASE NextTransition(w)
    <3>1. CASE worker' = [worker EXCEPT ![w] = [@ EXCEPT !.pc = "advance",
                                                  !.steps = worker[w].steps + 1]]
      BY <2>1, <3>1 DEF WorkerType
    <3> QED BY <2>1, <2>3, <2>10, <3>1 DEF NextTransition
  <2>11. CASE \/ DeferPaused(w) \/ AdvanceFinish(w) \/ AdvanceNext(w) \/ AdvanceLost(w)
              \/ TransitionLimit(w)
    BY <2>1, <2>3, <2>11 DEF DeferPaused, AdvanceFinish, AdvanceNext, AdvanceLost,
                             TransitionLimit
  <2>12. CASE AdvanceWork(w)
    BY <2>1, <2>12 DEF AdvanceWork, WorkerType
  <2>13. CASE RegisterWait(w) \/ WaitExists(w) \/ WaitRejected(w)
    BY <2>2, <2>3, <2>13 DEF RegisterWait, WaitExists, WaitRejected
  <2>14. CASE Reserve(w)
    BY <2>1, <2>14 DEF Reserve, WorkerType
  <2>15. CASE ReserveExisting(w) \/ ReserveRejected(w) \/ PolicyInternal(w)
    BY <2>1, <2>2, <2>3, <2>15 DEF ReserveExisting, ReserveRejected, PolicyInternal
  <2>16. CASE ReleaseUnstarted(w) \/ Settle(w) \/ SettleRejected(w)
    BY <2>1, <2>2, <2>3, <2>16 DEF ReleaseUnstarted, Settle, SettleRejected
  <2>17. CASE ScheduleRetry(w) \/ ResolveWaiting(w) \/ ReleaseResolver(w)
    BY <2>1, <2>3, <2>17 DEF ScheduleRetry, ResolveWaiting, ReleaseResolver
  <2> QED BY <1>1, <2>4, <2>5, <2>6, <2>7, <2>8, <2>9, <2>10, <2>11, <2>12, <2>13,
             <2>14, <2>15, <2>16, <2>17 DEF Moving, WorkerStep
<1>2. CASE \E w \in Worker : Moving(w)
  BY <1>1, <1>2, OnlyTheMover DEF RetryableIsFailed
<1>3. CASE Ambient \/ UNCHANGED vars
  BY <1>3, AmbientKeepsWorkers DEF RetryableIsFailed, vars
<1> QED BY <1>2, <1>3, StepKinds

LEMMA OutcomeKnownStep ==
  ASSUME TypeOK, OutcomeKnown, [Next]_vars
  PROVE  OutcomeKnown'
<1>1. ASSUME NEW w \in Worker, Moving(w), worker'[w].pc = "settle"
      PROVE  worker'[w].outcome.status # "none"
  <2> USE WorkerEffects DEF TypeOK
  <2>1. \/ HeartbeatFails(w) \/ EvaluateCondition(w) \/ PolicyExternal(w)
        \/ StartEffect(w) \/ FinishEffect(w)
    BY <1>1, PcAfter DEF Moving, WorkerStep
  <2>2. ASSUME NEW o, Holding(w, o), o.status # "none"
        PROVE  worker'[w].outcome.status # "none"
    BY <2>2
  <2>3. /\ \A b \in BOOLEAN : Failed(b).status # "none"
        /\ \A p : Succeeded(p).status # "none"
        /\ Uncertain.status # "none"
    BY DEF Failed, Succeeded, Uncertain
  <2>4. CASE HeartbeatFails(w)
    <3>1. worker'[w].outcome = worker[w].outcome /\ worker'[w].pc = worker[w].pc
      BY <2>4 DEF HeartbeatFails, WorkerType
    <3> QED BY <1>1, <3>1 DEF OutcomeKnown
  <2>5. CASE EvaluateCondition(w)
    BY <2>2, <2>3, <2>5 DEF EvaluateCondition
  <2>6. CASE PolicyExternal(w)
    <3>1. Goto(w, "release") \/ Goto(w, "permit") \/ Holding(w, Failed(FALSE))
      BY <2>6 DEF PolicyExternal
    <3>2. /\ Goto(w, "release") => worker'[w].pc = "release"
          /\ Goto(w, "permit") => worker'[w].pc = "permit"
      OBVIOUS
    <3>3. Holding(w, Failed(FALSE))
      BY <1>1, <3>1, <3>2
    <3> QED BY <2>2, <2>3, <3>3
  <2>7. CASE FinishEffect(w)
    BY <2>2, <2>3, <2>7 DEF FinishEffect
  <2>8. CASE StartEffect(w)
    <3>1. Goto(w, "release") \/ Goto(w, "calling") \/ Holding(w, Uncertain)
      BY <2>8 DEF StartEffect
    <3>2. /\ Goto(w, "release") => worker'[w].pc = "release"
          /\ Goto(w, "calling") => worker'[w].pc = "calling"
      OBVIOUS
    <3> QED BY <1>1, <2>2, <2>3, <3>1, <3>2
  <2> QED BY <2>1, <2>4, <2>5, <2>6, <2>7, <2>8
<1>2. ASSUME NEW w \in Worker, Moving(w) PROVE OutcomeKnown'
  BY <1>1, <1>2, OnlyTheMover DEF OutcomeKnown
<1>3. CASE Ambient \/ UNCHANGED vars
  BY <1>3, AmbientKeepsWorkers DEF OutcomeKnown, vars
<1> QED BY <1>2, <1>3, StepKinds

LEMMA RetryIsIntendedStep ==
  ASSUME TypeOK, RetryIsIntended, HolderAtCursor, [Next]_vars
  PROVE  RetryIsIntended'
<1>0. TypeOK'  BY TypeStep
<1> SUFFICES ASSUME NEW v \in Worker, Valid(v)', worker'[v].pc = "reserve",
                    exec'[worker'[v].node].status = "failed"
             PROVE  run'.retryNode = worker'[v].node
  BY DEF RetryIsIntended
<1>1. Valid(v)
  BY ValidShrinks DEF Unclaimed
<1>2. CASE AdvanceWork(v)
  <2>1. worker'[v].node = run.cursor
    BY <1>2 DEF AdvanceWork, TypeOK, WorkerType
  <2> QED BY <1>2, <2>1 DEF AdvanceWork, RequestsWork, RetryRequested
<1>3. CASE HeartbeatFails(v)
  BY <1>1, <1>3 DEF HeartbeatFails, RetryIsIntended, TypeOK, WorkerType
<1>4. CASE Moving(v)
  <2>1. AdvanceWork(v) \/ HeartbeatFails(v)
    BY <1>4, PcAfter DEF Moving, WorkerStep
  <2> QED BY <1>2, <1>3, <2>1
<1>5. ASSUME NEW w \in Worker, Moving(w), v # w PROVE run'.retryNode = worker'[v].node
  BY <1>1, <1>5, OnlyTheMover, OthersWriteNothing DEF RetryIsIntended
<1>6. CASE Ambient
  <2>1. worker[v].node \in Node
    BY <1>1, <1>6, AmbientKeepsWorkers DEF HolderAtCursor, OnNode, TypeOK, RunType
  <2> QED BY <1>1, <1>6, <2>1, AmbientKeepsWorkers, AmbientLeavesHolder
          DEF RetryIsIntended
<1>7. CASE UNCHANGED vars
  BY <1>1, <1>7 DEF RetryIsIntended, vars
<1> QED BY <1>4, <1>5, <1>6, <1>7, StepKinds


LEMMA RetryHasEvidenceStep ==
  ASSUME TypeOK, RetryHasEvidence, HolderAtCursor, RetryableIsFailed, [Next]_vars
  PROVE  RetryHasEvidence'
<1>0. TypeOK'  BY TypeStep
<1> SUFFICES ASSUME NEW v \in Worker, Valid(v)', worker'[v].pc = "retry"
             PROVE  exec'[run'.cursor].status = "failed" /\ exec'[run'.cursor].retryable
  BY DEF RetryHasEvidence
<1>1. Valid(v)
  BY ValidShrinks DEF Unclaimed
<1>2. CASE Settle(v)
  <2>1. worker[v].node = run.cursor /\ run.cursor \in Node /\ run' = run
    BY <1>1, <1>2 DEF Settle, HolderAtCursor, OnNode, TypeOK, RunType
  <2>2. worker[v].outcome.retryable
    BY <1>2, WorkerEffects DEF Settle, TypeOK
  <2>3. worker[v].outcome.status = "failed"
    BY <2>2 DEF RetryableIsFailed
  <2> QED BY <1>2, <2>1, <2>2, <2>3 DEF Settle, TypeOK, ExecType
<1>3. CASE HeartbeatFails(v)
  BY <1>1, <1>3, PcAfter DEF HeartbeatFails, RetryHasEvidence
<1>4. CASE Moving(v)
  <2>1. Settle(v) \/ HeartbeatFails(v)
    BY <1>4, PcAfter DEF Moving, WorkerStep
  <2> QED BY <1>2, <1>3, <2>1
<1>5. ASSUME NEW w \in Worker, Moving(w), v # w
      PROVE  exec'[run'.cursor].status = "failed" /\ exec'[run'.cursor].retryable
  BY <1>1, <1>5, OnlyTheMover, OthersWriteNothing DEF RetryHasEvidence
<1>6. CASE Ambient
  <2>1. run.cursor \in Node  BY DEF TypeOK, RunType
  <2> QED BY <1>1, <1>6, <2>1, AmbientKeepsWorkers, AmbientLeavesHolder
          DEF RetryHasEvidence
<1>7. CASE UNCHANGED vars
  BY <1>1, <1>7 DEF RetryHasEvidence, vars
<1> QED BY <1>4, <1>5, <1>6, <1>7, StepKinds

LEMMA DoubtDropsIntentStep ==
  ASSUME TypeOK, DoubtDropsIntent, [Next]_vars
  PROVE  DoubtDropsIntent'
<1> USE DEF TypeOK, RunType, Unlocked, DoubtDropsIntent
<1>1. CASE UNCHANGED vars
  BY <1>1 DEF vars
<1>2. CASE Ambient
  <2>1. CASE RetryRun \/ ResolveUncertain
    BY <2>1 DEF RetryRun, ResolveUncertain
  <2>2. CASE CancelCommit
    BY <2>2 DEF CancelCommit, Active
  <2>3. CASE \/ CancelRead \/ PauseWorkspace \/ ResumeWorkspace \/ DeferAdmission
             \/ LeaseExpires \/ Stall \/ TimerFires \/ DeadlinePasses
    BY <2>3 DEF CancelRead, PauseWorkspace, ResumeWorkspace, DeferAdmission,
                LeaseExpires, Stall, TimerFires, DeadlinePasses
  <2> QED BY <1>2, <2>1, <2>2, <2>3 DEF Ambient, OperatorStep
<1>3. ASSUME NEW w \in Worker, Moving(w) PROVE DoubtDropsIntent'
  <2>1. CASE Claim(w) \/ ClaimWait(w)
    BY <2>1 DEF Claim, ClaimWait, Granted, Active
  <2>2. CASE AdvanceFinish(w)
    BY <2>2 DEF AdvanceFinish
  <2>3. CASE AdvanceNext(w)
    BY <2>3 DEF AdvanceNext, Valid
  <2>4. CASE DeferPaused(w) \/ TransitionLimit(w) \/ ScheduleRetry(w)
    BY <2>4 DEF DeferPaused, TransitionLimit, ScheduleRetry
  <2>5. CASE RegisterWait(w) \/ WaitExists(w)
    BY <2>5 DEF RegisterWait, WaitExists
  <2>6. CASE ResolveWaiting(w) \/ ReleaseResolver(w)
    BY <2>6 DEF ResolveWaiting, ReleaseResolver
  <2>7. CASE run' = run
    BY <2>7
  <2>8. CASE \/ LoadRunContext(w) \/ DiscoverWait(w) \/ HeartbeatFails(w) \/ Crash(w)
             \/ ReconcileStale(w) \/ ResumeDue(w) \/ NextTransition(w)
             \/ AdvanceWork(w) \/ AdvanceLost(w) \/ WaitRejected(w)
    BY <2>7, <2>8 DEF LoadRunContext, DiscoverWait, HeartbeatFails, Crash,
       ReconcileStale, ResumeDue, NextTransition, AdvanceWork, AdvanceLost, WaitRejected
  <2>9. CASE \/ Reserve(w) \/ ReserveExisting(w) \/ ReserveRejected(w)
             \/ EvaluateCondition(w) \/ PolicyExternal(w) \/ PolicyInternal(w)
             \/ StartEffect(w) \/ FinishEffect(w) \/ ReleaseUnstarted(w) \/ Settle(w)
             \/ SettleRejected(w)
    BY <2>7, <2>9 DEF Reserve, ReserveExisting, ReserveRejected, EvaluateCondition,
       PolicyExternal, PolicyInternal, StartEffect, FinishEffect, ReleaseUnstarted,
       Settle, SettleRejected
  <2> QED BY <1>3, <2>1, <2>2, <2>3, <2>4, <2>5, <2>6, <2>8, <2>9 DEF Moving, WorkerStep
<1> QED BY <1>1, <1>2, <1>3, StepKinds


-----------------------------------------------------------------------------
(* The account of calls and persisted failures.                            *)

\* Nothing that could buy another call of n happens to n.
QuietRow(n) ==
  /\ exec'[n].status = "none" => exec[n].status = "none"
  /\ exec'[n].status = "running" =>
       exec[n].status = "running" /\ attempt'[n].fence = attempt[n].fence
  /\ exec'[n].status = "failed" /\ (exec'[n].retryable \/ run'.retryNode = n) =>
       exec[n].status = "failed" /\ (exec[n].retryable \/ run.retryNode = n)

QuietWorker(w) ==
  worker'[w].pc \in {"policy", "permit", "release"} =>
    /\ worker[w].pc \in {"policy", "permit", "release"}
    /\ worker'[w].node = worker[w].node
    /\ worker'[w].fence = worker[w].fence

LEMMA QuietStep ==
  ASSUME CallsAccounted, UNCHANGED <<calls, failures>>,
         \A n \in Node : QuietRow(n), \A w \in Worker : QuietWorker(w)
  PROVE  CallsAccounted'
<1>1. \A n \in Node, w \in Worker :
        Pending(w, n)' => Pending(w, n) /\ worker'[w].fence = worker[w].fence
  BY DEF Pending, QuietWorker
<1>2. \A n \in Node : Clean(n) => Clean(n)'
  BY <1>1 DEF Clean
<1> QED BY <1>1, <1>2 DEF CallsAccounted, QuietRow

\* Only a reservation makes an attempt pending.
LEMMA PendingMoves ==
  ASSUME TypeOK, NEW w \in Worker, Moving(w), ~Reserve(w)
  PROVE  \A v \in Worker : QuietWorker(v)
<1>1. \A v \in Worker \ {w} : QuietWorker(v)
  BY OnlyTheMover DEF QuietWorker
<1> USE WorkerEffects DEF TypeOK, QuietWorker
<1>2. SUFFICES ASSUME worker'[w].pc \in {"policy", "permit", "release"}
               PROVE  QuietWorker(w)
  BY <1>1
<1>3. \/ HeartbeatFails(w) \/ PolicyExternal(w) \/ PolicyInternal(w) \/ StartEffect(w)
  BY <1>2, PcAfter DEF Moving, WorkerStep
<1>4. CASE HeartbeatFails(w)
  BY <1>2, <1>4 DEF HeartbeatFails, WorkerType
<1>5. CASE PolicyExternal(w)
  BY <1>5 DEF PolicyExternal
<1>6. CASE PolicyInternal(w) \/ StartEffect(w)
  BY <1>6 DEF PolicyInternal, StartEffect
<1> QED BY <1>3, <1>4, <1>5, <1>6

\* Rows after the steps that reserve, release and settle nothing.
LEMMA MoverRows ==
  ASSUME TypeOK, RetryHasEvidence, NEW w \in Worker, Moving(w),
         ~Reserve(w), ~ReleaseUnstarted(w), ~Settle(w)
  PROVE  \A n \in Node : QuietRow(n)
<1> USE DEF TypeOK, QuietRow, RunType, Unlocked
<1>1. CASE UNCHANGED <<exec, attempt>> /\ run'.retryNode = run.retryNode
  BY <1>1
<1>2. CASE UNCHANGED <<exec, attempt>> /\ run'.retryNode = None
  BY <1>2, WorkflowRunAssumption
<1>3. CASE \/ LoadRunContext(w) \/ DiscoverWait(w) \/ HeartbeatFails(w) \/ Crash(w)
           \/ NextTransition(w) \/ AdvanceWork(w) \/ AdvanceLost(w) \/ WaitRejected(w)
  BY <1>1, <1>3 DEF LoadRunContext, DiscoverWait, HeartbeatFails, Crash,
     NextTransition, AdvanceWork, AdvanceLost, WaitRejected
<1>4. CASE Claim(w) \/ ClaimWait(w)
  BY <1>1, <1>4 DEF Claim, ClaimWait, Granted
<1>5. CASE DeferPaused(w) \/ TransitionLimit(w) \/ WaitExists(w) \/ ReleaseResolver(w)
  BY <1>1, <1>5 DEF DeferPaused, TransitionLimit, WaitExists, ReleaseResolver
<1>6. CASE AdvanceFinish(w) \/ AdvanceNext(w)
  BY <1>2, <1>6 DEF AdvanceFinish, AdvanceNext
<1>7. CASE \/ ReserveExisting(w) \/ ReserveRejected(w)
           \/ EvaluateCondition(w) \/ PolicyExternal(w) \/ PolicyInternal(w)
           \/ StartEffect(w) \/ FinishEffect(w) \/ SettleRejected(w)
  BY <1>1, <1>7 DEF ReserveExisting, ReserveRejected, EvaluateCondition,
     PolicyExternal, PolicyInternal, StartEffect, FinishEffect, SettleRejected
<1>8. CASE ReconcileStale(w)
  <2>1. run' = run
    BY <1>8 DEF ReconcileStale
  <2>2. ASSUME NEW n \in Node
        PROVE  (exec'[n] = exec[n] /\ attempt'[n] = attempt[n]) \/ exec'[n].status = "uncertain"
    <3>1. CASE ~Valid(w)
      BY <1>8, <3>1 DEF ReconcileStale
    <3>2. CASE Valid(w) /\ ~Stale(n, worker[w].fence)
      BY <1>8, <3>2 DEF ReconcileStale
    <3>3. CASE Valid(w) /\ Stale(n, worker[w].fence)
      BY <1>8, <3>3 DEF ReconcileStale, ExecType
    <3> QED BY <3>1, <3>2, <3>3
  <2> QED BY <2>1, <2>2
<1>9. ASSUME NEW m, NEW port, ResolvedWait(m, port), run'.retryNode = run.retryNode
      PROVE  \A n \in Node : QuietRow(n)
  BY <1>9 DEF ResolvedWait, ExecType, AttemptType
<1>10. CASE ResumeDue(w)
  BY <1>1, <1>9, <1>10 DEF ResumeDue
<1>11. CASE ResolveWaiting(w)
  BY <1>1, <1>9, <1>11 DEF ResolveWaiting
<1>12. CASE RegisterWait(w)
  BY <1>12 DEF RegisterWait, NoExec, ExecType
<1>13. CASE ScheduleRetry(w)
  BY <1>1, <1>13 DEF ScheduleRetry, RetryHasEvidence
<1> QED BY <1>3, <1>4, <1>5, <1>6, <1>7, <1>8, <1>10, <1>11, <1>12, <1>13
        DEF Moving, WorkerStep

LEMMA AmbientQuiet ==
  ASSUME TypeOK, DoubtDropsIntent, Ambient
  PROVE  \A n \in Node : QuietRow(n)
<1> USE DEF TypeOK, QuietRow, RunType, Unlocked
<1>1. CASE \/ CancelRead \/ PauseWorkspace \/ ResumeWorkspace \/ DeferAdmission
           \/ LeaseExpires \/ Stall \/ TimerFires
  BY <1>1 DEF CancelRead, PauseWorkspace, ResumeWorkspace, DeferAdmission,
              LeaseExpires, Stall, TimerFires
<1>2. CASE DeadlinePasses
  BY <1>2 DEF DeadlinePasses, ExecType
<1>3. CASE CancelCommit
  <2>1. run'.retryNode = run.retryNode /\ attempt' = attempt
    BY <1>3 DEF CancelCommit
  <2>2. \A n \in Node : exec'[n] = exec[n] \/ exec'[n].status = "cancelled"
    BY <1>3 DEF CancelCommit, ExecType
  <2> QED BY <2>1, <2>2
<1>4. CASE RetryRun
  BY <1>4 DEF RetryRun
<1>5. CASE ResolveUncertain
  <2>1. run'.retryNode = None
    BY <1>5 DEF ResolveUncertain, DoubtDropsIntent
  <2>2. \A n \in Node : \/ exec'[n] = exec[n] /\ attempt'[n] = attempt[n]
                        \/ /\ exec'[n].status \in {"succeeded", "failed"}
                           /\ ~exec'[n].retryable
    BY <1>5 DEF ResolveUncertain, ExecType, AttemptType
  <2> QED BY <2>1, <2>2, WorkflowRunAssumption
<1> QED BY <1>1, <1>2, <1>3, <1>4, <1>5 DEF Ambient, OperatorStep


\* The four steps that change the account of a node.

LEMMA ReserveAccount ==
  ASSUME TypeOK, CallsAccounted, RetryIsIntended, NEW w \in Worker, Reserve(w)
  PROVE  CallsAccounted'
<1>0. PICK n : n = worker[w].node
  OBVIOUS
<1>1. n \in Node
  BY <1>0 DEF Reserve, AtCursor, TypeOK, RunType
<1>2. Clean(n)
  BY <1>0, <1>1 DEF Reserve, AtCursor, MayAttempt, RetryIsIntended, CallsAccounted
<1>3. /\ exec'[n].status = "running"
      /\ attempt'[n].fence = worker[w].fence
      /\ \A m \in Node \ {n} : exec'[m] = exec[m] /\ attempt'[m] = attempt[m]
      /\ UNCHANGED <<run, calls, failures>>
  BY <1>0, <1>1 DEF Reserve, TypeOK, NoExec, ExecType
<1>4. /\ worker'[w].node = n /\ worker'[w].fence = worker[w].fence
      /\ \A v \in Worker \ {w} : worker'[v] = worker[v]
  BY <1>0 DEF Reserve, TypeOK, WorkerType
<1>5. \A v \in Worker, m \in Node : v # w \/ m # n => (Pending(v, m)' => Pending(v, m))
  BY <1>4 DEF Pending
<1>6. \A v \in Worker : ~Pending(v, n)
  BY <1>2 DEF Clean
<1>7. \A m \in Node \ {n} : Clean(m) => Clean(m)'
  BY <1>3, <1>5 DEF Clean
<1>8. ASSUME NEW m \in Node \ {n}
      PROVE  /\ calls'[m] <= failures'[m] + 1
             /\ \A v \in Worker : Pending(v, m)' =>
                  /\ calls'[m] <= failures'[m]
                  /\ \A u \in Worker \ {v} : ~Pending(u, m)'
                  /\ exec'[m].status = "running" => worker'[v].fence = attempt'[m].fence
             /\ exec'[m].status = "none" => Clean(m)'
             /\ exec'[m].status = "failed" /\ (exec'[m].retryable \/ run'.retryNode = m)
                  => Clean(m)'
  <2>1. \A v \in Worker : worker'[v].fence = worker[v].fence
    BY <1>4
  <2> QED BY <1>3, <1>5, <1>7, <2>1 DEF CallsAccounted
<1>9. /\ calls'[n] <= failures'[n] + 1
      /\ \A v \in Worker : Pending(v, n)' =>
           /\ calls'[n] <= failures'[n]
           /\ \A u \in Worker \ {v} : ~Pending(u, n)'
           /\ exec'[n].status = "running" => worker'[v].fence = attempt'[n].fence
      /\ exec'[n].status # "none" /\ exec'[n].status # "failed"
  <2>1. calls[n] <= failures[n] /\ calls[n] \in Nat /\ failures[n] \in Nat
    BY <1>1, <1>2 DEF Clean, TypeOK
  <2>2. \A v \in Worker : Pending(v, n)' => v = w
    BY <1>1, <1>5, <1>6
  <2> QED BY <1>3, <1>4, <2>1, <2>2
<1> QED BY <1>8, <1>9 DEF CallsAccounted

LEMMA StartAccount ==
  ASSUME TypeOK, CallsAccounted, NEW w \in Worker, StartEffect(w)
  PROVE  CallsAccounted'
<1>0. PICK n : n = worker[w].node
  OBVIOUS
<1>1. /\ Pending(w, n)
      /\ UNCHANGED <<run, exec, attempt, failures>>
  BY <1>0 DEF StartEffect, Pending
<1>2. /\ worker'[w].node = n /\ worker'[w].fence = worker[w].fence
      /\ \A v \in Worker \ {w} : worker'[v] = worker[v]
  BY <1>0, WorkerEffects DEF StartEffect, TypeOK
<1>3. \A v \in Worker, m \in Node : Pending(v, m)' => Pending(v, m)
  BY <1>1, <1>2 DEF Pending
<1>4. \A v \in Worker : worker'[v].fence = worker[v].fence
  BY <1>2
<1>5. CASE calls' = calls
  <2>1. \A m \in Node : Clean(m) => Clean(m)'
    BY <1>1, <1>3, <1>5 DEF Clean
  <2> QED BY <1>1, <1>3, <1>4, <1>5, <2>1 DEF CallsAccounted
<1>6. CASE calls' = [calls EXCEPT ![n] = @ + 1] /\ worker'[w].pc = "calling"
  <2>1. ~Pending(w, n)'
    BY <1>6 DEF Pending
  <2>2. \A m \in Node \ {n} : calls'[m] = calls[m]
    BY <1>6 DEF TypeOK
  <2>3. \A m \in Node \ {n} : Clean(m) => Clean(m)'
    BY <1>1, <1>3, <2>2 DEF Clean
  <2>4. ASSUME n \in Node
        PROVE  /\ calls'[n] <= failures'[n] + 1
               /\ \A v \in Worker : ~Pending(v, n)'
               /\ ~Clean(n)
    <3>1. calls[n] <= failures[n] /\ \A v \in Worker \ {w} : ~Pending(v, n)
      BY <1>1, <2>4 DEF CallsAccounted
    <3>2. calls'[n] = calls[n] + 1
      BY <1>6, <2>4 DEF TypeOK
    <3>3. calls[n] \in Nat /\ failures[n] \in Nat
      BY <2>4 DEF TypeOK
    <3>4. ~Clean(n)
      BY <1>1 DEF Clean
    <3>5. \A v \in Worker : ~Pending(v, n)'
      BY <1>3, <2>1, <2>4, <3>1
    <3> QED BY <1>1, <3>1, <3>2, <3>3, <3>4, <3>5
  <2> QED BY <1>1, <1>3, <1>4, <2>2, <2>3, <2>4 DEF CallsAccounted
<1>7. /\ worker'[w].pc = "calling" \/ calls' = calls
      /\ calls' = calls \/ calls' = [calls EXCEPT ![n] = @ + 1]
  BY <1>0, WorkerEffects DEF StartEffect, TypeOK
<1> QED BY <1>5, <1>6, <1>7

LEMMA ReleaseAccount ==
  ASSUME TypeOK, CallsAccounted, HolderAtCursor, NEW w \in Worker, ReleaseUnstarted(w)
  PROVE  CallsAccounted'
<1>0. PICK n : n = worker[w].node
  OBVIOUS
<1>1. /\ UNCHANGED <<run, calls, failures>>
      /\ Pending(w, n)
      /\ Continue(w, "defer")
  BY <1>0 DEF ReleaseUnstarted, Pending
<1>2. /\ worker'[w].pc = "defer"
      /\ \A v \in Worker \ {w} : worker'[v] = worker[v]
  BY <1>1, WorkerEffects DEF TypeOK
<1>3. \A v \in Worker, m \in Node : Pending(v, m)' => Pending(v, m) /\ v # w
  BY <1>2 DEF Pending
<1>4. CASE ~OwnAttempt(w)
  <2>1. UNCHANGED <<exec, attempt>>
    BY <1>4 DEF ReleaseUnstarted
  <2> QED BY <1>1, <1>2, <2>1, QuietStep DEF QuietRow, QuietWorker
<1>5. CASE OwnAttempt(w)
  <2>1. n \in Node
    BY <1>0, <1>1, <1>5 DEF OwnAttempt, HolderAtCursor, Pending, OnNode, TypeOK, RunType
  <2>2. /\ exec' = [exec EXCEPT ![n] = NoExec]
        /\ attempt' = [attempt EXCEPT ![n] = NoAttempt]
    BY <1>0, <1>5 DEF ReleaseUnstarted
  <2>3. /\ exec'[n].status = "none"
        /\ \A m \in Node \ {n} : exec'[m] = exec[m] /\ attempt'[m] = attempt[m]
    BY <2>1, <2>2 DEF TypeOK, NoExec
  <2>4. calls[n] <= failures[n] /\ \A v \in Worker : ~Pending(v, n)'
    BY <1>1, <1>3, <2>1 DEF CallsAccounted
  <2>5. \A m \in Node : Clean(m) => Clean(m)'
    BY <1>1, <1>3 DEF Clean
  <2>6. Clean(n)'
    BY <1>1, <2>4 DEF Clean
  <2>7. \A v \in Worker \ {w} : worker'[v].fence = worker[v].fence
    BY <1>2
  <2>8. ASSUME NEW m \in Node \ {n}
        PROVE  /\ calls'[m] <= failures'[m] + 1
               /\ \A v \in Worker : Pending(v, m)' =>
                    /\ calls'[m] <= failures'[m]
                    /\ \A u \in Worker \ {v} : ~Pending(u, m)'
                    /\ exec'[m].status = "running" => worker'[v].fence = attempt'[m].fence
               /\ exec'[m].status = "none" => Clean(m)'
               /\ exec'[m].status = "failed" /\ (exec'[m].retryable \/ run'.retryNode = m)
                    => Clean(m)'
    BY <1>1, <1>3, <2>3, <2>5, <2>7 DEF CallsAccounted
  <2>9. calls'[n] <= failures'[n] + 1
    BY <1>1, <2>1 DEF CallsAccounted
  <2> QED BY <2>3, <2>4, <2>6, <2>8, <2>9 DEF CallsAccounted
<1> QED BY <1>4, <1>5

LEMMA SettleAccount ==
  ASSUME TypeOK, CallsAccounted, HolderAtCursor, FencesDistinct, OutcomeKnown,
         NEW w \in Worker, Settle(w)
  PROVE  CallsAccounted'
<1>0. PICK n : n = worker[w].node
  OBVIOUS
<1>1. PICK s : s = worker[w].outcome.status
  OBVIOUS
<1>2. /\ OwnAttempt(w) /\ worker[w].pc = "settle" /\ UNCHANGED <<run, calls>>
      /\ s # "none" /\ s # "running"
  BY <1>1 DEF Settle, OutcomeKnown, TypeOK, WorkerType, Outcomes
<1>3. n \in Node
  BY <1>0, <1>2 DEF OwnAttempt, HolderAtCursor, OnNode, TypeOK, RunType
<1>4. exec[n].status = "running" /\ attempt[n].fence = worker[w].fence /\ Valid(w)
  BY <1>0, <1>2 DEF OwnAttempt
<1>5. /\ exec'[n].status = s
      /\ \A m \in Node \ {n} : exec'[m] = exec[m] /\ attempt'[m] = attempt[m]
  BY <1>0, <1>1, <1>3 DEF Settle, TypeOK, ExecType
<1>6. PICK pc : Continue(w, pc) /\ pc \in {"retry", "loop"}
  BY DEF Settle
<1>7. /\ worker'[w].pc \in {"retry", "loop"}
      /\ \A v \in Worker \ {w} : worker'[v] = worker[v]
  BY <1>6, WorkerEffects DEF TypeOK
<1>8. \A v \in Worker, m \in Node : Pending(v, m)' => Pending(v, m) /\ v # w
  BY <1>7 DEF Pending
<1>9. worker[w].fence > 0
  BY <1>2 DEF FencesDistinct, Unclaimed
<1>10. \A v \in Worker : ~Pending(v, n)'
  <2>1. ASSUME NEW v \in Worker, Pending(v, n), v # w PROVE FALSE
    <3>1. worker[v].fence = attempt[n].fence
      BY <1>3, <1>4, <2>1 DEF CallsAccounted
    <3> QED BY <1>4, <1>9, <2>1, <3>1 DEF FencesDistinct
  <2> QED BY <1>3, <1>8, <2>1
<1>11. /\ failures'[n] = IF s = "failed" THEN failures[n] + 1 ELSE failures[n]
       /\ \A m \in Node \ {n} : failures'[m] = failures[m]
  BY <1>0, <1>1, <1>3 DEF Settle, TypeOK
<1>12. \A m \in Node \ {n} : Clean(m) => Clean(m)'
  BY <1>2, <1>8, <1>11 DEF Clean
<1>13. \A v \in Worker \ {w} : worker'[v].fence = worker[v].fence
  BY <1>7
<1>14. ASSUME NEW m \in Node \ {n}
       PROVE  /\ calls'[m] <= failures'[m] + 1
              /\ \A v \in Worker : Pending(v, m)' =>
                   /\ calls'[m] <= failures'[m]
                   /\ \A u \in Worker \ {v} : ~Pending(u, m)'
                   /\ exec'[m].status = "running" => worker'[v].fence = attempt'[m].fence
              /\ exec'[m].status = "none" => Clean(m)'
              /\ exec'[m].status = "failed" /\ (exec'[m].retryable \/ run'.retryNode = m)
                   => Clean(m)'
  BY <1>2, <1>5, <1>8, <1>11, <1>12, <1>13 DEF CallsAccounted
<1>15. calls[n] \in Nat /\ failures[n] \in Nat /\ calls[n] <= failures[n] + 1
  BY <1>3 DEF CallsAccounted, TypeOK
<1>16. calls'[n] <= failures'[n] + 1 /\ (s = "failed" => calls'[n] <= failures'[n])
  BY <1>2, <1>11, <1>15
<1>17. s = "failed" => Clean(n)'
  BY <1>10, <1>16 DEF Clean
<1> QED BY <1>2, <1>3, <1>5, <1>10, <1>14, <1>16, <1>17 DEF CallsAccounted

LEMMA CallsAccountedStep ==
  ASSUME TypeOK, CallsAccounted, HolderAtCursor, FencesDistinct, OutcomeKnown,
         RetryIsIntended, RetryHasEvidence, DoubtDropsIntent, [Next]_vars
  PROVE  CallsAccounted'
<1>1. CASE UNCHANGED vars
  <2>1. UNCHANGED <<run, exec, attempt, worker, calls, failures>>
    BY <1>1 DEF vars
  <2>2. (\A n \in Node : QuietRow(n)) /\ \A w \in Worker : QuietWorker(w)
    BY <2>1 DEF QuietRow, QuietWorker
  <2> QED BY <2>1, <2>2, QuietStep
<1>2. CASE Ambient
  <2>1. UNCHANGED <<calls, failures>>
    BY <1>2 DEF Ambient, OperatorStep, CancelRead, CancelCommit, RetryRun,
       ResolveUncertain, PauseWorkspace, ResumeWorkspace, DeferAdmission,
       LeaseExpires, Stall, TimerFires, DeadlinePasses
  <2>2. \A w \in Worker : QuietWorker(w)
    BY <1>2, AmbientKeepsWorkers DEF QuietWorker
  <2> QED BY <1>2, <2>1, <2>2, AmbientQuiet, QuietStep
<1>3. ASSUME NEW w \in Worker, Moving(w) PROVE CallsAccounted'
  <2>1. CASE Reserve(w) \/ StartEffect(w) \/ ReleaseUnstarted(w) \/ Settle(w)
    <3>1. CASE Reserve(w)
      BY <3>1, ReserveAccount
    <3>2. CASE StartEffect(w)
      BY <3>2, StartAccount
    <3>3. CASE ReleaseUnstarted(w)
      BY <3>3, ReleaseAccount
    <3>4. CASE Settle(w)
      BY <3>4, SettleAccount
    <3> QED BY <2>1, <3>1, <3>2, <3>3, <3>4
  <2>2. CASE ~(Reserve(w) \/ StartEffect(w) \/ ReleaseUnstarted(w) \/ Settle(w))
    <3>1. UNCHANGED <<calls, failures>>
      <4>1. CASE \/ LoadRunContext(w) \/ DiscoverWait(w) \/ HeartbeatFails(w) \/ Crash(w)
                 \/ Claim(w) \/ ClaimWait(w) \/ ReconcileStale(w) \/ ResumeDue(w)
                 \/ NextTransition(w) \/ DeferPaused(w)
        BY <4>1 DEF LoadRunContext, DiscoverWait, HeartbeatFails, Crash, Claim, ClaimWait,
           ReconcileStale, ResumeDue, NextTransition, DeferPaused
      <4>2. CASE \/ AdvanceFinish(w) \/ AdvanceNext(w) \/ AdvanceWork(w) \/ AdvanceLost(w)
                 \/ TransitionLimit(w) \/ RegisterWait(w) \/ WaitExists(w)
                 \/ WaitRejected(w) \/ ReserveExisting(w) \/ ReserveRejected(w)
        BY <4>2 DEF AdvanceFinish, AdvanceNext, AdvanceWork, AdvanceLost, TransitionLimit,
           RegisterWait, WaitExists, WaitRejected, ReserveExisting, ReserveRejected
      <4>3. CASE \/ EvaluateCondition(w) \/ PolicyExternal(w) \/ PolicyInternal(w)
                 \/ FinishEffect(w) \/ SettleRejected(w) \/ ScheduleRetry(w)
                 \/ ResolveWaiting(w) \/ ReleaseResolver(w)
        BY <4>3 DEF EvaluateCondition, PolicyExternal, PolicyInternal, FinishEffect,
           SettleRejected, ScheduleRetry, ResolveWaiting, ReleaseResolver
      <4> QED BY <1>3, <2>2, <4>1, <4>2, <4>3 DEF Moving, WorkerStep
    <3> QED BY <1>3, <2>2, <3>1, MoverRows, PendingMoves, QuietStep
  <2> QED BY <2>1, <2>2
<1> QED BY <1>1, <1>2, <1>3, StepKinds

-----------------------------------------------------------------------------
(* The theorems.                                                           *)

LEMMA InvInit == Init => IInv
<1> SUFFICES ASSUME Init PROVE IInv
  OBVIOUS
<1>1. TypeOK
  BY TypeInit
<1>2. \A w \in Worker : worker[w] = IdleWorker
  BY DEF Init
<1>3. \A w \in Worker : ~Valid(w)
  BY WorkflowRunAssumption DEF Init, Valid
<1>4. /\ IdleWorker.pc = "idle" /\ IdleWorker.fence = 0
      /\ IdleWorker.outcome.retryable = FALSE
  BY DEF IdleWorker, NoOutcome
<1>5. FencesDistinct
  BY <1>2, <1>4 DEF Init, FencesDistinct, Unclaimed
<1>6. HolderAtCursor /\ RetryIsIntended /\ RetryHasEvidence
  BY <1>3 DEF HolderAtCursor, RetryIsIntended, RetryHasEvidence
<1>7. RetryableIsFailed /\ OutcomeKnown
  BY <1>2, <1>4 DEF RetryableIsFailed, OutcomeKnown
<1>8. DoubtDropsIntent
  BY DEF Init, DoubtDropsIntent
<1>9. \A n \in Node : Clean(n) /\ exec[n].status = "none" /\ calls[n] <= failures[n] + 1
  <2>1. \A n \in Node, w \in Worker : ~Pending(w, n)
    BY <1>2, <1>4 DEF Pending
  <2>2. \A n \in Node : exec[n].status = "none" /\ calls[n] = 0 /\ failures[n] = 0
    BY DEF Init, NoExec
  <2>3. \A n \in Node : calls[n] <= failures[n] /\ calls[n] <= failures[n] + 1
    <3>1. 0 <= 0 /\ 0 <= 0 + 1
      OBVIOUS
    <3> QED BY <2>2, <3>1
  <2> QED BY <2>1, <2>2, <2>3 DEF Clean
<1>10. CallsAccounted
  BY <1>9 DEF CallsAccounted, Clean
<1> QED BY <1>1, <1>5, <1>6, <1>7, <1>8, <1>10 DEF IInv

LEMMA InvStep == IInv /\ [Next]_vars => IInv'
<1> SUFFICES ASSUME IInv, [Next]_vars PROVE IInv'
  OBVIOUS
<1>1. TypeOK'
  BY TypeStep DEF IInv
<1>2. FencesDistinct'
  BY FencesStep DEF IInv
<1>3. HolderAtCursor'
  BY HolderAtCursorStep DEF IInv
<1>4. RetryableIsFailed' /\ OutcomeKnown'
  BY RetryableStep, OutcomeKnownStep DEF IInv
<1>5. RetryIsIntended'
  BY RetryIsIntendedStep DEF IInv
<1>6. RetryHasEvidence'
  BY RetryHasEvidenceStep DEF IInv
<1>7. DoubtDropsIntent'
  BY DoubtDropsIntentStep DEF IInv
<1>8. CallsAccounted'
  BY CallsAccountedStep DEF IInv
<1> QED BY <1>1, <1>2, <1>3, <1>4, <1>5, <1>6, <1>7, <1>8 DEF IInv

\* The invariant that relates fences, cursor, retry intent and node rows holds in
\* every reachable state of the run, however many workers and faults there are.
THEOREM InvariantHolds == Spec => []IInv
BY InvInit, InvStep, PTL DEF Spec

\* Whatever crashes, lost leases, exceptions, retries and operator resolutions
\* happen, an effect of a node is started again only after an earlier attempt of
\* it was persisted as a known failure (reserveActionAttempt, settleAction).
THEOREM NeverReplaysBlindly == Spec => []NoBlindReplay
<1>1. IInv => NoBlindReplay
  BY DEF IInv, CallsAccounted, NoBlindReplay
<1> QED BY <1>1, InvariantHolds, PTL

\* A workspace pause and an effect in flight exclude each other: the effect holds
\* the policy row it read the flag from (withWorkspaceAutomationEffectPermit).
THEOREM PauseIsExclusive == Spec => []PauseExcludesEffects
<1>1. Init => PauseExcludesEffects
  BY DEF Init, PauseExcludesEffects
<1>2. TypeOK /\ PauseExcludesEffects /\ [Next]_vars => PauseExcludesEffects'
  <2> SUFFICES ASSUME TypeOK, PauseExcludesEffects, [Next]_vars
               PROVE  PauseExcludesEffects'
    OBVIOUS
  <2>1. ASSUME NEW w \in Worker, Moving(w)
        PROVE  /\ enabled' = enabled
               /\ worker'[w].pc = "calling" => enabled \/ worker[w].pc = "calling"
    <3>1. enabled' = enabled
      BY <2>1, MoverKeepsPolicy
    <3>2. worker'[w].pc = "calling" => StartEffect(w) \/ HeartbeatFails(w)
      BY <2>1, PcAfter DEF Moving, WorkerStep
    <3>3. HeartbeatFails(w) => worker'[w].pc = worker[w].pc
      BY PcAfter
    <3>4. StartEffect(w) /\ worker'[w].pc = "calling" => enabled
      BY WorkerEffects DEF StartEffect, TypeOK
    <3> QED BY <3>1, <3>2, <3>3, <3>4
  <2>2. ASSUME NEW w \in Worker, Moving(w) PROVE PauseExcludesEffects'
    BY <2>1, <2>2, OnlyTheMover DEF PauseExcludesEffects
  <2>3. CASE PauseWorkspace
    BY <2>3, AmbientKeepsWorkers DEF Ambient, OperatorStep, PauseWorkspace, EffectHoldsPolicy,
       PauseExcludesEffects
  <2>4. CASE ResumeWorkspace
    BY <2>4 DEF ResumeWorkspace, PauseExcludesEffects
  <2>5. CASE Ambient /\ enabled' = enabled
    BY <2>5, AmbientKeepsWorkers DEF PauseExcludesEffects
  <2>6. Ambient => PauseWorkspace \/ ResumeWorkspace \/ enabled' = enabled
    BY DEF Ambient, OperatorStep, CancelRead, CancelCommit, RetryRun, ResolveUncertain,
       DeferAdmission, LeaseExpires, Stall, TimerFires, DeadlinePasses
  <2>7. CASE UNCHANGED vars
    BY <2>7 DEF vars, PauseExcludesEffects
  <2> QED BY <2>2, <2>3, <2>4, <2>5, <2>6, <2>7, StepKinds
<1> QED BY <1>1, <1>2, TypeCorrect, PTL DEF Spec

\* While a worker's lease is valid, no step of another worker changes the run row,
\* a node row or an attempt: the fence of every write (valid in run-store.ts).
THEOREM HolderWritesAlone == Spec => OnlyHolderWrites
<1>1. TypeOK /\ [Next]_vars => [HolderAlone]_vars
  <2> SUFFICES ASSUME TypeOK, Next, NEW v \in Worker, NEW w \in Worker, v # w,
                      Valid(v), worker'[w] # worker[w]
               PROVE  UNCHANGED <<run, exec, attempt>>
    BY DEF HolderAlone
  <2>1. CASE UNCHANGED vars
    BY <2>1 DEF vars
  <2>2. ASSUME NEW u \in Worker, Moving(u) PROVE UNCHANGED <<run, exec, attempt>>
    <3>1. u = w  BY <2>2, OnlyTheMover
    <3> QED BY <2>2, <3>1, OthersWriteNothing
  <2>3. ~Ambient  BY AmbientKeepsWorkers
  <2> QED BY <2>1, <2>2, <2>3, StepKinds
<1> QED BY <1>1, TypeCorrect, PTL DEF Spec, OnlyHolderWrites
=============================================================================
