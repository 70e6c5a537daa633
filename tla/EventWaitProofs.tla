-------------------------- MODULE EventWaitProofs ---------------------------
(***************************************************************************)
(* Event waits, proved for every number of processes, events and bounds:   *)
(* type correctness, and that no event at or before the cursor wakes the   *)
(* run as long as every dispatch knew its event's identity.                *)
(*                                                                         *)
(* A consumer compares the cursor before it claims the run and resolves    *)
(* two transactions later.  The invariant is that the comparison still     *)
(* holds then: the cursor moves only while there is no wait, and a process *)
(* carries an event only once there is one.                                *)
(***************************************************************************)
EXTENDS EventWait, ParkedRunProofs, WellFoundedInduction

-----------------------------------------------------------------------------
(* The high-water mark exists.                                             *)

LEMMA NatMin ==
  ASSUME NEW T \in SUBSET Nat, T # {}
  PROVE  \E x \in T : \A y \in T : x <= y
<1> DEFINE Less == {ss \in Nat \X Nat : ss[1] < ss[2]}
<1>1. OpToRel(<, Nat) = Less
  BY Zenon DEF OpToRel
<1>2. PICK x \in T : \A y \in T : ~(<<y, x>> \in Less)
  BY <1>1, NatLessThanWellFounded, WFMin, Zenon
<1>3. \A y \in Nat, z \in Nat : y < z => <<y, z>> \in Less
  BY SMT
<1>4. ASSUME NEW y \in T PROVE x <= y
  <2>1. ~(y < x)
    BY <1>2, <1>3, Zenon
  <2> QED BY <2>1
<1> QED BY <1>4

LEMMA MaxBounded ==
  ASSUME NEW N \in Nat, NEW S, S \subseteq 0..N, S # {}
  PROVE  Max(S) \in S /\ \A x \in S : x <= Max(S)
<1> DEFINE T == {y \in 0..N : N - y \in S}
<1>1. T # {}
  <2>1. PICK s \in S : TRUE
    OBVIOUS
  <2>2. N - s \in 0..N /\ N - (N - s) = s
    OBVIOUS
  <2> QED BY <2>2
<1>2. PICK t \in T : \A y \in T : t <= y
  <2>1. T \in SUBSET Nat
    OBVIOUS
  <2> QED BY <1>1, <2>1, NatMin
<1>3. ASSUME NEW x \in S PROVE N - t >= x
  <2>1. N - x \in 0..N /\ N - (N - x) = x
    OBVIOUS
  <2>2. t <= N - x
    BY <1>2, <2>1
  <2> QED BY <2>2
<1> QED BY <1>3 DEF Max

-----------------------------------------------------------------------------
(* The inductive invariant.                                                *)

Carries(p) == proc[p].pc \in {"claimEvent", "resolve"}

\* A consumer carries a committed match of a wait that exists.
JobFits ==
  \A p \in Process :
    Carries(p) => proc[p].job \in Job /\ wait.status # "none"

\* Nothing is heard before there is a wait.
HeardOnce == heard # 0 => wait.status # "none"

CarriesAfterCursor ==
  spent.calls = 0 => \A p \in Process : Carries(p) => proc[p].job.event > cursor

IInv ==
  /\ TypeOK /\ JobFits /\ HeardOnce
  /\ CarriesAfterCursor /\ OlderEventNeverWakes

\* The steps that leave cursor and history alone and give nobody an event.
OtherStep ==
  \/ \E p \in Process : OrdinaryStep(p) \/ ClaimDue(p)
  \/ Surroundings

-----------------------------------------------------------------------------
(* Lemmas about the steps.                                                 *)

LEMMA InitInv == Init => IInv
<1> SUFFICES ASSUME Init PROVE IInv
  OBVIOUS
<1>1. ParkedType(Job)
  BY ParkedInitTyped DEF Init
<1>2. TypeOK
  BY <1>1, EventWaitAssumption DEF Init, TypeOK
<1>3. \A p \in Process : ~Carries(p)
  BY DEF Init, ParkedInit, IdleProc, Carries
<1> QED BY <1>2, <1>3
        DEF Init, IInv, JobFits, HeardOnce, CarriesAfterCursor, OlderEventNeverWakes

\* A process that leaves, moves on or claims a due run carries no event.
LEMMA MovesDrop ==
  ASSUME proc \in [Process -> ProcType(Job)], NEW p \in Process,
         \/ Leave(p)
         \/ \E pc \in {"advance", "releaseQueued", "releaseWaiting"} : Goto(p, pc)
         \/ Granted(p, "resume")
  PROVE  \A q \in Process : proc'[q] = proc[q] \/ proc'[q].pc \notin {"claimEvent", "resolve"}
<1>1. CASE Leave(p)
  BY <1>1 DEF Leave, IdleProc
<1>2. ASSUME NEW pc \in {"advance", "releaseQueued", "releaseWaiting"}, Goto(p, pc)
      PROVE  \A q \in Process : proc'[q] = proc[q]
                                \/ proc'[q].pc \notin {"claimEvent", "resolve"}
  BY <1>2 DEF ProcType, Goto
<1>3. CASE Granted(p, "resume")
  BY <1>3 DEF ProcType, Granted
<1> QED BY <1>1, <1>2, <1>3

\* What carries over when no process picks up an event and no wait disappears.
LEMMA InvKept ==
  ASSUME IInv, TypeOK', UNCHANGED heard,
         \A q \in Process : proc'[q] = proc[q] \/ proc'[q].pc \notin {"claimEvent", "resolve"},
         wait.status # "none" => wait'.status # "none",
         spent'.calls = 0 => spent.calls = 0,
         cursor' = cursor \/ wait.status = "none"
  PROVE  IInv'
<1>1. \A q \in Process : Carries(q)' => Carries(q) /\ proc'[q] = proc[q]
  BY DEF Carries
<1>2. JobFits'
  BY <1>1 DEF IInv, JobFits
<1>3. HeardOnce'
  BY DEF IInv, HeardOnce
<1>4. CarriesAfterCursor'
  BY <1>1 DEF IInv, CarriesAfterCursor, JobFits
<1>5. OlderEventNeverWakes'
  BY DEF IInv, OlderEventNeverWakes, HeardOnce
<1> QED BY <1>2, <1>3, <1>4, <1>5 DEF IInv

LEMMA OtherInv == ASSUME IInv, OtherStep, UNCHANGED eventVars PROVE IInv'
<1>0. ParkedType(Job) /\ TypeOK
  BY DEF IInv, TypeOK
<1>1. ParkedType(Job)'
  BY <1>0, OrdinaryTyped, SurroundingsTyped DEF OtherStep
<1>2. TypeOK'
  BY <1>0, <1>1 DEF TypeOK, eventVars
<1>3. \/ UNCHANGED proc
      \/ \E p \in Process :
           \/ Leave(p)
           \/ \E pc \in {"advance", "releaseQueued", "releaseWaiting"} : Goto(p, pc)
           \/ Granted(p, "resume")
  BY DEF OtherStep, OrdinaryStep, Surroundings, ResumeDue, FinishCancelled, MoveOn,
         AdvanceLost, Release, ClaimDue, Crash, CancelRead, CancelCommit,
         LeaseExpires, Stall, DeadlinePasses
<1>4. \A q \in Process : proc'[q] = proc[q] \/ proc'[q].pc \notin {"claimEvent", "resolve"}
  BY <1>0, <1>3, MovesDrop DEF ParkedType
<1>5. wait.status # "none" => wait'.status # "none"
  BY <1>0 DEF OtherStep, OrdinaryStep, Surroundings, ResumeDue, FinishCancelled, MoveOn,
         AdvanceLost, Release, ClaimDue, Crash, CancelRead, CancelCommit,
         LeaseExpires, Stall, DeadlinePasses, ParkedType, WaitType
<1>6. spent'.calls = spent.calls
  BY <1>0 DEF OtherStep, OrdinaryStep, Surroundings, ResumeDue, FinishCancelled, MoveOn,
         AdvanceLost, Release, ClaimDue, Crash, CancelRead, CancelCommit,
         LeaseExpires, Stall, DeadlinePasses, Spend, ParkedType, SpentType
<1> QED BY <1>2, <1>4, <1>5, <1>6, InvKept DEF eventVars

\* Producers insert and commit in any order.
LEMMA ProducerInv ==
  ASSUME IInv, NEW e \in Event, InsertEvent(e) \/ CommitEvent(e)
  PROVE  IInv'
<1>1. TypeOK'
  <2>1. outbox' \in [Event -> {"none", "inserted", "committed"}]
    BY DEF IInv, TypeOK, InsertEvent, CommitEvent
  <2>2. late' \subseteq Event /\ inTime' \subseteq late'
    BY DEF IInv, TypeOK, InsertEvent, CommitEvent
  <2> QED BY <2>1, <2>2 DEF IInv, TypeOK, ParkedType, InsertEvent, CommitEvent
<1> QED BY <1>1, InvKept DEF InsertEvent, CommitEvent

\* Registration moves the cursor only when there is no wait yet.
LEMMA RegisterInv ==
  ASSUME IInv, NEW p \in Process, RegisterWait(p)
  PROVE  IInv'
<1>0. ParkedType(Job) /\ TypeOK
  BY DEF IInv, TypeOK
<1>1. HighWater \in 0..MaxEvents
  <2>1. {0} \cup Committed \subseteq 0..MaxEvents
    BY EventWaitAssumption DEF Committed, Event
  <2> QED BY <2>1, MaxBounded, EventWaitAssumption DEF HighWater
<1>2. TypeOK'
  <2>1. ParkedType(Job)'
    BY <1>0, OrdinaryTyped DEF RegisterWait
  <2> QED BY <1>0, <1>1, <2>1 DEF RegisterWait, TypeOK
<1>3. \A q \in Process : proc'[q] = proc[q] \/ proc'[q].pc \notin {"claimEvent", "resolve"}
  BY <1>0, MovesDrop DEF RegisterWait, Park, ParkedType
<1>4. wait'.status # "none"
  BY <1>0 DEF RegisterWait, Park, ParkedType, WaitType
<1>5. spent' = spent
  BY DEF RegisterWait, Park
<1> QED BY <1>2, <1>3, <1>4, <1>5, InvKept DEF RegisterWait

\* A delivery picks up an event after the cursor of an open wait.
LEMMA DeliverInv ==
  ASSUME IInv, NEW p \in Process, NEW e \in Event, wait.status = "waiting",
         Delivers(p, e), spent' \in SpentType,
         spent'.calls = 0 => spent.calls = 0 /\ e > cursor,
         UNCHANGED <<run, wait, canceller, outbox, cursor, heard, late, inTime, crowd>>
  PROVE  IInv'
<1>0. ParkedType(Job) /\ TypeOK
  BY DEF IInv, TypeOK
<1>1. [event |-> e] \in Job
  BY DEF Job
<1>2. proc' \in [Process -> ProcType(Job)]
  BY <1>0, <1>1 DEF Delivers, ParkedType, ProcType, PCs, WaitPorts
<1>3. TypeOK'
  BY <1>0, <1>2 DEF TypeOK, ParkedType
<1>4. proc'[p].job = [event |-> e] /\ \A q \in Process \ {p} : proc'[q] = proc[q]
  BY <1>0 DEF Delivers, ParkedType, ProcType
<1>5. JobFits'
  BY <1>1, <1>4 DEF IInv, JobFits, Carries
<1>6. CarriesAfterCursor'
  BY <1>4 DEF IInv, CarriesAfterCursor, Carries
<1> QED BY <1>3, <1>5, <1>6 DEF IInv, HeardOnce, OlderEventNeverWakes

LEMMA DeliveriesInv ==
  ASSUME IInv, NEW p \in Process,
         \/ Reconcile(p)
         \/ \E e \in Event : Dispatch(p, e) \/ DispatchUnordered(p, e)
  PROVE  IInv'
<1>0. spent \in SpentType
  BY DEF IInv, TypeOK, ParkedType
<1>1. CASE Reconcile(p)
  BY <1>0, <1>1, DeliverInv DEF Reconcile, AfterCursor, FindsWait
<1>2. ASSUME NEW e \in Event, Dispatch(p, e) PROVE IInv'
  BY <1>0, <1>2, DeliverInv DEF Dispatch, AfterCursor, FindsWait
<1>3. ASSUME NEW e \in Event, DispatchUnordered(p, e) PROVE IInv'
  <2>1. spent'.calls # 0
    BY <1>0, <1>3 DEF DispatchUnordered, Spend, SpentType
  <2> QED BY <1>0, <1>3, <2>1, SpendTyped, DeliverInv DEF DispatchUnordered, FindsWait
<1> QED BY <1>1, <1>2, <1>3

\* A claim takes the event along.
LEMMA ClaimEventInv ==
  ASSUME IInv, NEW p \in Process, ClaimEvent(p)
  PROVE  IInv'
<1>0. ParkedType(Job) /\ TypeOK
  BY DEF IInv, TypeOK
<1>1. UNCHANGED <<wait, cursor, heard, outbox, late, inTime, crowd, spent>>
  BY DEF ClaimEvent, ClaimParked, eventVars
<1>2. TypeOK'
  <2>1. "resolve" \in PCs
    BY DEF PCs
  <2> QED BY <1>0, <1>1, <2>1, ClaimParkedTyped DEF ClaimEvent, TypeOK
<1>3. \A q \in Process : Carries(q)' => Carries(q) /\ proc'[q].job = proc[q].job
  <2>1. CASE Leave(p)
    BY <1>0, <2>1 DEF Leave, IdleProc, Carries, ParkedType
  <2>2. CASE Granted(p, "resolve")
    BY <1>0, <2>2 DEF ClaimEvent, Granted, Carries, ParkedType, ProcType
  <2> QED BY <2>1, <2>2 DEF ClaimEvent, ClaimParked
<1>4. JobFits' /\ CarriesAfterCursor'
  BY <1>1, <1>3 DEF IInv, JobFits, CarriesAfterCursor
<1> QED BY <1>1, <1>2, <1>4 DEF IInv, HeardOnce, OlderEventNeverWakes

\* A resolution hears the event it carries, which is still after the cursor.
LEMMA ResolveInv ==
  ASSUME IInv, NEW p \in Process, Resolve(p)
  PROVE  IInv'
<1>0. ParkedType(Job) /\ TypeOK
  BY DEF IInv, TypeOK
<1>1. Carries(p) /\ proc[p].job \in Job
  BY DEF Resolve, ResolveWait, Carries, IInv, JobFits
<1>2. heard' \in {heard, proc[p].job.event}
      /\ UNCHANGED <<cursor, outbox, late, inTime, crowd, spent>>
  BY DEF Resolve, ResolveWait
<1>3. proc[p].job.event \in Event
  BY <1>1 DEF Job
<1>4. TypeOK'
  <2>1. ParkedType(Job)'
    BY <1>0, OrdinaryTyped DEF Resolve
  <2>2. heard' \in 0..MaxEvents
    BY <1>0, <1>2, <1>3 DEF TypeOK, Event
  <2> QED BY <1>0, <1>2, <2>1, <2>2 DEF TypeOK
<1>5. \A q \in Process : proc'[q] = proc[q] \/ proc'[q].pc \notin {"claimEvent", "resolve"}
  BY <1>0, MovesDrop DEF Resolve, ResolveWait, ParkedType
<1>6. wait.status # "none" /\ wait'.status # "none"
  BY <1>0, <1>1 DEF IInv, JobFits, Resolve, ResolveWait, ParkedType, WaitType
<1>7. JobFits' /\ HeardOnce'
  BY <1>5, <1>6 DEF IInv, JobFits, HeardOnce, Carries
<1>8. CarriesAfterCursor'
  BY <1>2, <1>5 DEF IInv, CarriesAfterCursor, Carries
<1>9. OlderEventNeverWakes'
  BY <1>1, <1>2 DEF IInv, CarriesAfterCursor, OlderEventNeverWakes
<1> QED BY <1>4, <1>7, <1>8, <1>9 DEF IInv

LEMMA NextInv == IInv /\ [Next]_vars => IInv'
<1> SUFFICES ASSUME IInv, [Next]_vars PROVE IInv'
  OBVIOUS
<1>1. ASSUME NEW p \in Process, ProcessStep(p) PROVE IInv'
  BY <1>1, OtherInv, RegisterInv, ClaimEventInv, ResolveInv DEF ProcessStep, OtherStep
<1>2. ASSUME NEW p \in Process, ClaimDue(p) /\ UNCHANGED eventVars PROVE IInv'
  BY <1>2, OtherInv DEF OtherStep
<1>3. CASE Surroundings /\ UNCHANGED eventVars
  BY <1>3, OtherInv DEF OtherStep
<1>4. CASE UNCHANGED vars
  <2>1. UNCHANGED <<run, wait, proc, canceller, spent, outbox, cursor, heard, late,
                    inTime, crowd>>
    BY <1>4 DEF vars
  <2>2. TypeOK'
    BY <2>1 DEF IInv, TypeOK, ParkedType
  <2> QED BY <2>1, <2>2, InvKept
<1>5. CASE CrowdChanges
  <2>1. TypeOK'
    BY <1>5 DEF CrowdChanges, IInv, TypeOK, ParkedType
  <2> QED BY <1>5, <2>1, InvKept DEF CrowdChanges
<1> QED BY <1>1, <1>2, <1>3, <1>4, <1>5, DeliveriesInv, ProducerInv DEF Next

LEMMA Invariance == Spec => []IInv
BY InitInv, NextInv, PTL DEF Spec

-----------------------------------------------------------------------------
(* The theorems.                                                           *)

\* Rows and local variables stay within their domains.
THEOREM TypeCorrect == Spec => []TypeOK
<1>1. IInv => TypeOK
  BY DEF IInv
<1> QED BY <1>1, Invariance, PTL

\* No delivery at or before the cursor wakes the run, however long its consumer
\* takes to claim and resolve, unless some dispatch did not know its event's
\* identity.
THEOREM OlderEventsNeverWake == Spec => []OlderEventNeverWakes
<1>1. IInv => OlderEventNeverWakes
  BY DEF IInv
<1> QED BY <1>1, Invariance, PTL
=============================================================================
