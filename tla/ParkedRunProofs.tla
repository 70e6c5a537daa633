-------------------------- MODULE ParkedRunProofs --------------------------
(***************************************************************************)
(* Facts about the steps that every kind of wait shares, for any number of *)
(* processes and any job a resolver may carry.                             *)
(***************************************************************************)
EXTENDS ParkedRun, TLAPS

\* What a process becomes when it leaves or moves is well typed.
LEMMA ProcMoves ==
  ASSUME NEW Job, proc \in [Process -> ProcType(Job)], NEW p \in Process
  PROVE  /\ Leave(p) => proc' \in [Process -> ProcType(Job)]
         /\ \A pc \in PCs : Goto(p, pc) => proc' \in [Process -> ProcType(Job)]
<1>1. IdleProc \in ProcType(Job)
  BY DEF IdleProc, ProcType, PCs, WaitPorts
<1>2. Leave(p) => proc' \in [Process -> ProcType(Job)]
  BY <1>1 DEF Leave
<1>3. ASSUME NEW pc \in PCs, Goto(p, pc)
      PROVE  proc' \in [Process -> ProcType(Job)]
  BY <1>3 DEF Goto, ProcType
<1> QED BY <1>2, <1>3

\* What a release, a park, a claim or a cancellation makes of the run is typed.
LEMMA RunMoves ==
  ASSUME run \in RunType
  PROVE  /\ \A s \in Active \cup {"finished", "cancelled"} :
              /\ [Unlocked(run) EXCEPT !.status = s] \in RunType
              /\ [Unlocked(run) EXCEPT !.status = s, !.cancel = TRUE] \in RunType
         /\ [run EXCEPT !.cancel = TRUE] \in RunType
         /\ [run EXCEPT !.live = FALSE] \in RunType
BY DEF Unlocked, RunType

\* A bound that is spent stays a count.
LEMMA SpendTyped ==
  ASSUME spent \in SpentType, NEW b \in {"faults", "cancels", "calls"}, Spend(b)
  PROVE  spent' \in SpentType
BY DEF Spend, SpentType

\* The initial state is well typed.
LEMMA ParkedInitTyped == ASSUME NEW Job, ParkedInit PROVE ParkedType(Job)
<1>1. run \in RunType
  BY DEF ParkedInit, RunType, Active
<1>2. wait \in WaitType
  BY DEF ParkedInit, WaitType, WaitPorts
<1>3. proc \in [Process -> ProcType(Job)]
  BY DEF ParkedInit, IdleProc, ProcType, PCs, WaitPorts
<1>4. canceller \in CancelType /\ spent \in SpentType
  BY DEF ParkedInit, NoCancel, CancelType, SpentType
<1> QED BY <1>1, <1>2, <1>3, <1>4 DEF ParkedType

\* A claim keeps the run and the claimant well typed.
LEMMA GrantedTyped ==
  ASSUME NEW Job, ParkedType(Job), NEW p \in Process, NEW pc \in PCs, Granted(p, pc)
  PROVE  run' \in RunType /\ proc' \in [Process -> ProcType(Job)]
<1>1. run.fence + 1 \in Nat /\ run.cancel \in BOOLEAN
  BY DEF ParkedType, RunType
<1>2. run' \in RunType
  BY <1>1 DEF ParkedType, Granted, RunType, Active
<1>3. [proc[p] EXCEPT !.pc = pc, !.fence = run.fence + 1, !.cancelOnly = run.cancel]
        \in ProcType(Job)
  BY <1>1 DEF ParkedType, ProcType
<1> QED BY <1>2, <1>3 DEF ParkedType, Granted

\* So do the ordinary worker, the release, registration and resolution.
LEMMA OrdinaryTyped ==
  ASSUME NEW Job, ParkedType(Job), NEW p \in Process,
         OrdinaryStep(p) \/ Park(p) \/ ResolveWait(p) \/ ClaimDue(p)
  PROVE  ParkedType(Job)'
<1> USE DEF ParkedType
<1>0. {"advance", "releaseQueued", "releaseWaiting", "resume"} \subseteq PCs
      /\ {"waiting", "queued", "finished", "cancelled"}
           \subseteq Active \cup {"finished", "cancelled"}
  BY DEF PCs, Active
<1>1. CASE ResumeDue(p)
  <2>1. wait' \in WaitType
    BY <1>1 DEF ResumeDue, WaitType, WaitPorts
  <2> QED BY <1>0, <1>1, <2>1, ProcMoves DEF ResumeDue
<1>2. CASE FinishCancelled(p)
  BY <1>0, <1>2, ProcMoves, RunMoves DEF FinishCancelled
<1>3. CASE MoveOn(p)
  BY <1>0, <1>3, ProcMoves, RunMoves DEF MoveOn
<1>4. CASE AdvanceLost(p)
  BY <1>4, ProcMoves DEF AdvanceLost
<1>5. CASE Release(p)
  BY <1>0, <1>5, ProcMoves, RunMoves DEF Release
<1>6. CASE Park(p)
  <2>1. wait' \in WaitType
    BY <1>6 DEF Park, WaitType
  <2> QED BY <1>0, <1>6, <2>1, ProcMoves, RunMoves DEF Park
<1>7. CASE ResolveWait(p)
  <2>1. proc[p].port \in WaitPorts
    BY DEF ProcType
  <2>2. wait' \in WaitType
    BY <1>7, <2>1 DEF ResolveWait, WaitType, WaitPorts
  <2> QED BY <1>0, <1>7, <2>2, ProcMoves DEF ResolveWait
<1>8. CASE ClaimDue(p)
  BY <1>0, <1>8, GrantedTyped DEF ClaimDue
<1> QED BY <1>1, <1>2, <1>3, <1>4, <1>5, <1>6, <1>7, <1>8 DEF OrdinaryStep

\* And the claim of a parked run by a resolver.
LEMMA ClaimParkedTyped ==
  ASSUME NEW Job, ParkedType(Job), NEW p \in Process, NEW pc \in PCs,
         ClaimParked(p, pc)
  PROVE  ParkedType(Job)'
BY GrantedTyped, ProcMoves DEF ClaimParked, ParkedType

\* And cancellation, faults and the clock.
LEMMA SurroundingsTyped ==
  ASSUME NEW Job, ParkedType(Job), Surroundings
  PROVE  ParkedType(Job)'
<1> USE DEF ParkedType
<1>1. ASSUME NEW p \in Process, Crash(p) PROVE ParkedType(Job)'
  BY <1>1, ProcMoves, SpendTyped DEF Crash
<1>2. CASE CancelRead
  <2>1. canceller' \in CancelType
    BY <1>2 DEF CancelRead, CancelType
  <2> QED BY <1>2, <2>1, SpendTyped DEF CancelRead
<1>3. CASE CancelCommit
  <2>1. wait' \in WaitType
    BY <1>3 DEF CancelCommit, WaitType
  <2>2. run' \in RunType
    BY <1>3, RunMoves DEF CancelCommit
  <2>3. canceller' \in CancelType
    BY <1>3 DEF CancelCommit, NoCancel, CancelType
  <2> QED BY <1>3, <2>1, <2>2, <2>3 DEF CancelCommit
<1>4. CASE LeaseExpires
  BY <1>4, RunMoves DEF LeaseExpires
<1>5. CASE Stall
  BY <1>5, RunMoves, SpendTyped DEF Stall
<1>6. CASE DeadlinePasses
  <2>1. wait' \in WaitType
    BY <1>6 DEF DeadlinePasses, WaitType
  <2> QED BY <1>6, <2>1 DEF DeadlinePasses
<1> QED BY <1>1, <1>2, <1>3, <1>4, <1>5, <1>6 DEF Surroundings
=============================================================================
