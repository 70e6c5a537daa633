----------------------------- MODULE EventWait -----------------------------
(***************************************************************************)
(* A wait for a domain event: the outbox, the cursor that registration     *)
(* captures, and the consumers that wake the run (node-store.ts:           *)
(* registerWait; dispatch.ts: dispatchWorkflowEvent; worker.ts:            *)
(* resumeWorkflowEventWaits and reconcileMissedWorkflowEventWaits).        *)
(*                                                                         *)
(* An event's identity is drawn when its row is inserted, in the producer's *)
(* own transaction; it is visible when that transaction commits.           *)
(***************************************************************************)
EXTENDS ParkedRun, FiniteSetsExt

CONSTANTS
  MaxEvents,       \* bound: matching events produced
  ReconcileLimit,  \* open event waits one pass of the scheduler reads
  MaxCrowd         \* bound: open event waits of other runs

ASSUME EventWaitAssumption ==
  MaxEvents \in Nat /\ ReconcileLimit \in Nat \ {0} /\ MaxCrowd \in Nat

VARIABLES
  outbox,  \* the domain_event_outbox rows, by identity
  cursor,  \* waiting_event_cursor
  heard,   \* history: the event that woke the run, 0 if none did
  late,    \* history: events committed after the wait was registered
  inTime,  \* history: those of them committed before the deadline
  crowd    \* open event waits of other runs whose rows are older

vars == <<run, wait, proc, canceller, spent, outbox, cursor, heard, late, inTime, crowd>>
eventVars == <<outbox, cursor, heard, late, inTime, crowd>>

Event == 1..MaxEvents
Job == [event : Event]
Committed == {e \in Event : outbox[e] = "committed"}

Init ==
  /\ ParkedInit
  /\ outbox = [e \in Event |-> "none"]
  /\ cursor = 0 /\ heard = 0 /\ late = {} /\ inTime = {} /\ crowd = 0

-----------------------------------------------------------------------------
(* Producers.                                                              *)

InsertEvent(e) ==
  /\ outbox[e] = "none" /\ \A d \in Event : d < e => outbox[d] # "none"
  /\ outbox' = [outbox EXCEPT ![e] = "inserted"]
  /\ UNCHANGED <<run, wait, proc, canceller, spent, cursor, heard, late, inTime, crowd>>

CommitEvent(e) ==
  /\ outbox[e] = "inserted"
  /\ outbox' = [outbox EXCEPT ![e] = "committed"]
  /\ late' = IF wait.status = "none" THEN late ELSE late \cup {e}
  /\ inTime' = IF wait.status = "none" \/ wait.expired THEN inTime
               ELSE inTime \cup {e}
  /\ UNCHANGED <<run, wait, proc, canceller, spent, cursor, heard, crowd>>

-----------------------------------------------------------------------------
(* Registration and delivery.                                              *)

HighWater == Max({0} \cup Committed)

\* A wait that is already registered keeps the cursor it captured.
RegisterWait(p) ==
  /\ Park(p)
  /\ cursor' = IF wait.status = "none" THEN HighWater ELSE cursor
  /\ UNCHANGED <<outbox, heard, late, inTime, crowd>>

\* Mutant: a delivery ignores the cursor.
AfterCursorIgnored(e) == e \in Committed

\* Mutant: the event next to the cursor is taken for one before it.
AfterCursorSkipsOne(e) == e \in Committed /\ e > cursor + 1

AfterCursor(e) == e \in Committed /\ e > cursor

Delivers(p, e) ==
  proc' = [proc EXCEPT ![p] = [@ EXCEPT !.pc = "claimEvent", !.job = [event |-> e],
                                        !.port = "matched"]]

\* The dispatcher delivers an event it was handed, in any order and any number
\* of times (fast path and cron overlap).  The reconciliation of the run's own wait
\* right after its registration delivers like this: it ignores its failure.
Dispatch(p, e) ==
  /\ FindsWait(p) /\ AfterCursor(e)
  /\ Delivers(p, e)
  /\ UNCHANGED <<run, wait, canceller, spent, outbox, cursor, heard, late, inTime, crowd>>

\* The lookup of the event's identity failed: the cursor is not compared.
DispatchUnordered(p, e) ==
  /\ FindsWait(p) /\ e \in Committed
  /\ spent.calls < MaxCalls /\ Spend("calls")
  /\ Delivers(p, e)
  /\ UNCHANGED <<run, wait, canceller, outbox, cursor, heard, late, inTime, crowd>>

\* The waits of other runs come and go: one whose run a resolver holds is not read, and
\* read again when it is put back.
CrowdChanges ==
  /\ crowd' \in 0..MaxCrowd
  /\ UNCHANGED <<run, wait, proc, canceller, spent, outbox, cursor, heard, late, inTime>>

\* A pass of the scheduler reads the waits whose rows were updated least recently; one for
\* which there is no event keeps its place.
Reached == crowd < ReconcileLimit

\* The reconciler takes the first event after the cursor from the outbox.
Reconcile(p) ==
  /\ FindsWait(p) /\ Reached
  /\ \E e \in Event :
       /\ AfterCursor(e) /\ \A d \in Event : AfterCursor(d) => e <= d
       /\ Delivers(p, e)
  /\ UNCHANGED <<run, wait, canceller, spent, outbox, cursor, heard, late, inTime, crowd>>

ClaimEvent(p) ==
  /\ proc[p].pc = "claimEvent" /\ ClaimParked(p, "resolve")
  /\ UNCHANGED eventVars

Resolve(p) ==
  /\ ResolveWait(p)
  /\ heard' = IF wait'.port = "matched" /\ wait.status = "waiting"
              THEN proc[p].job.event ELSE heard
  /\ UNCHANGED <<outbox, cursor, late, inTime, crowd>>

-----------------------------------------------------------------------------

ProcessStep(p) ==
  \/ OrdinaryStep(p) /\ UNCHANGED eventVars
  \/ RegisterWait(p) \/ ClaimEvent(p) \/ Resolve(p)

Next ==
  \/ \E p \in Process : \/ ProcessStep(p) \/ Reconcile(p)
                        \/ ClaimDue(p) /\ UNCHANGED eventVars
                        \/ \E e \in Event : Dispatch(p, e) \/ DispatchUnordered(p, e)
  \/ \E e \in Event : InsertEvent(e) \/ CommitEvent(e)
  \/ CrowdChanges
  \/ Surroundings /\ UNCHANGED eventVars

Spec == Init /\ [][Next]_vars

\* The cron tick reconciles waits and claims due runs, and leases run out; nothing
\* is assumed of the dispatcher (best effort), of producers or of the deadline.
Fairness ==
  /\ \A p \in Process : /\ WF_vars(ProcessStep(p))
                        /\ WF_vars(ClaimDue(p) /\ UNCHANGED eventVars)
  /\ WF_vars(\E p \in Process : Reconcile(p))
  /\ WF_vars(LeaseExpires /\ UNCHANGED eventVars)

FairSpec == Spec /\ Fairness

-----------------------------------------------------------------------------
(* Properties.                                                             *)

\* Every row and every local variable stays within its domain.
TypeOK ==
  /\ ParkedType(Job)
  /\ outbox \in [Event -> {"none", "inserted", "committed"}]
  /\ cursor \in 0..MaxEvents /\ heard \in 0..MaxEvents /\ crowd \in 0..MaxCrowd
  /\ late \subseteq Event /\ inTime \subseteq late

\* Product plan, line 797: a delivery that precedes the cursor cannot wake a
\* later wait, however late its dispatch, reconciliation or resolver runs - as
\* long as every dispatch knew its event's identity.
OlderEventNeverWakes == spent.calls = 0 /\ heard # 0 => heard > cursor

Abandoned == run.status = "running" /\ ~run.live

Heard(e) ==
  (wait.status = "waiting" /\ outbox[e] = "committed" /\ e > cursor)
    ~> (wait.status # "waiting" \/ wait.expired \/ run.cancel \/ Abandoned)

\* An event after the cursor is not missed, whether its dispatch was lost, early or
\* overtaken: once the wait is, and stays, among those a pass of the scheduler reads, the
\* event wakes the run, unless the wait is over, overdue or cancelled or a resolver died
\* holding the run.
EveryEventHeard == <>[]Reached => \A e \in Event : Heard(e)

\* worker.ts: "The durable scheduler repeats this reconciliation."  Not for a wait behind
\* so many older ones that no pass comes to it.
SchedulerHearsEveryEvent == \A e \in Event : Heard(e)

\* node-store.ts on the cursor: events committed after the query receive a
\* greater identity.  One inserted before the query and committed after it, when
\* a younger event committed in between, lies below the cursor and is never heard.
CursorCoversLaterCommits == \A e \in late : e > cursor

\* Product plan, section 13: a wait expires when no domain fact was completed
\* within the term, and timeout consumers check before they expire it.
ExpiresOnlyWithoutFact == wait.port = "expired" => \A e \in inTime : e <= cursor
=============================================================================
