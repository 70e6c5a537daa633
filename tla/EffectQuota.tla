----------------------------- MODULE EffectQuota -----------------------------
(***************************************************************************)
(* The capacity an external effect of a workflow run takes before its      *)
(* provider is called (features/automations/runtime/operational-policy.ts  *)
(* and the external branch of the loop in worker.ts): a slot of the        *)
(* workspace's minute, one of the workflow's minute and one of the run     *)
(* chain's budget, reserved in one transaction, given back when a pause    *)
(* refuses the permit; and the circuit breaker the outcomes feed.          *)
(*                                                                         *)
(* One workspace.  An effect is one external node of a run, with the       *)
(* worker that executes it.  Every effect belongs to the same run chain.   *)
(***************************************************************************)
EXTENDS Integers, FiniteSets

CONSTANTS
  Effect, Flow,
  FlowOf,          \* FlowOf[x]: the workflow of the effect's run
  SpaceLimit,      \* maxExternalActionsPerMinute of the workspace
  FlowLimit,       \* and of every workflow
  LineageLimit,    \* MAX_LINEAGE_EXTERNAL_ACTIONS
  Threshold,       \* circuitBreakerThreshold
  MaxMinute, MaxQuotaFaults

ASSUME EffectQuotaAssumption ==
  /\ IsFiniteSet(Effect) /\ FlowOf \in [Effect -> Flow]
  /\ {SpaceLimit, FlowLimit, LineageLimit, Threshold} \subseteq Nat \ {0}
  /\ {MaxMinute, MaxQuotaFaults} \subseteq Nat

VARIABLES
  call,        \* call[x]: where its worker is, the minute of its receipt, when it may retry
  minute,      \* the current minute bucket
  bucket,      \* the reserved counts: of the workspace and of each workflow, per minute
  lineage,     \* lineageExternalActions of the root run
  breaker,     \* breaker[f]: consecutive failures, circuit open
  switch,      \* automations of the workspace are enabled
  quotaFaults

quotaVars == <<call, minute, bucket, lineage, breaker, switch, quotaFaults>>

Minute == 0 .. MaxMinute

Places == {"ready", "reserved", "running", "refused", "succeeded", "failed", "uncertain",
           "settled", "rejected", "lost"}

QuotaTypeOK ==
  /\ call \in [Effect -> [at: Places, receipt: Minute, after: 0 .. MaxMinute + 1,
                          started: BOOLEAN]]
  /\ minute \in Minute
  /\ bucket \in [Minute -> [space: 0 .. SpaceLimit, flow: [Flow -> 0 .. FlowLimit]]]
  /\ lineage \in 0 .. LineageLimit
  /\ breaker \in [Flow -> [failures: Nat, open: BOOLEAN]]
  /\ switch \in BOOLEAN /\ quotaFaults \in 0 .. MaxQuotaFaults

QuotaInit ==
  /\ call = [x \in Effect |-> [at |-> "ready", receipt |-> 0, after |-> 0, started |-> FALSE]]
  /\ minute = 0
  /\ bucket = [m \in Minute |-> [space |-> 0, flow |-> [f \in Flow |-> 0]]]
  /\ lineage = 0
  /\ breaker = [f \in Flow |-> [failures |-> 0, open |-> FALSE]]
  /\ switch = TRUE /\ quotaFaults = 0

Leads(x, place) == call' = [call EXCEPT ![x].at = place]

QuotaFault == quotaFaults < MaxQuotaFaults /\ quotaFaults' = quotaFaults + 1

\* A running effect holds the policy row, shared: a reservation and a pause, which lock
\* it exclusively, wait for it.
PolicyHeld == \E x \in Effect : call[x].at = "running"

-----------------------------------------------------------------------------
\* reserveExternalActionPolicy: all the counters move, or none.
Asks(x) == call[x].at = "ready" /\ call[x].after <= minute /\ ~PolicyHeld

Admissible(x) ==
  /\ switch /\ ~breaker[FlowOf[x]].open
  /\ bucket[minute].space < SpaceLimit
  /\ bucket[minute].flow[FlowOf[x]] < FlowLimit
  /\ lineage < LineageLimit

Reserve(x) ==
  /\ Asks(x) /\ Admissible(x)
  /\ call' = [call EXCEPT ![x].at = "reserved", ![x].receipt = minute]
  /\ bucket' = [bucket EXCEPT ![minute].space = @ + 1, ![minute].flow[FlowOf[x]] = @ + 1]
  /\ lineage' = lineage + 1
  /\ UNCHANGED <<minute, breaker, switch, quotaFaults>>

\* A pause or a full workspace minute puts the run off to the next minute.
Deferred(x) ==
  ~switch \/ (~breaker[FlowOf[x]].open /\ bucket[minute].space >= SpaceLimit)

PutOff(x) ==
  /\ Asks(x) /\ Deferred(x)
  /\ call' = [call EXCEPT ![x].after = minute + 1]
  /\ UNCHANGED <<minute, bucket, lineage, breaker, switch, quotaFaults>>

\* An open circuit, the workflow's minute or the chain's budget fails the node for good.
Reject(x) ==
  /\ Asks(x) /\ ~Admissible(x) /\ ~Deferred(x)
  /\ Leads(x, "rejected")
  /\ UNCHANGED <<minute, bucket, lineage, breaker, switch, quotaFaults>>

\* withWorkspaceAutomationEffectPermit: the pause is looked at again, under the lock.
Permit(x) ==
  /\ call[x].at = "reserved"
  /\ call' = [call EXCEPT ![x].at = IF switch THEN "running" ELSE "refused",
                          ![x].started = switch]
  /\ UNCHANGED <<minute, bucket, lineage, breaker, switch, quotaFaults>>

\* Mutants: the slots of the current minute, or without the chain's budget.
GivesBackNow(x) ==
  /\ bucket' = [bucket EXCEPT ![minute].space = @ - 1, ![minute].flow[FlowOf[x]] = @ - 1]
  /\ lineage' = lineage - 1

GivesBackBuckets(x) ==
  LET m == call[x].receipt
  IN /\ bucket' = [bucket EXCEPT ![m].space = @ - 1, ![m].flow[FlowOf[x]] = @ - 1]
     /\ lineage' = lineage

\* What releaseUnstartedExternalActionReservation gives back: the slots of the receipt's
\* own minute, which may have passed.
GivesBack(x) ==
  LET m == call[x].receipt
  IN /\ bucket' = [bucket EXCEPT ![m].space = @ - 1, ![m].flow[FlowOf[x]] = @ - 1]
     /\ lineage' = lineage - 1

Refund(x) ==
  /\ call[x].at = "refused"
  /\ GivesBack(x)
  /\ call' = [call EXCEPT ![x].at = "ready", ![x].after = minute + 1]
  /\ UNCHANGED <<minute, breaker, switch, quotaFaults>>

\* The refund throws, before or after its commit: caught as an uncertain outcome.
RefundThrows(x) ==
  /\ call[x].at = "refused" /\ QuotaFault
  /\ GivesBack(x) \/ UNCHANGED <<bucket, lineage>>
  /\ Leads(x, "uncertain")
  /\ UNCHANGED <<minute, breaker, switch>>

Outcome(x, outcome) ==
  /\ call[x].at = "running"
  /\ Leads(x, outcome)
  /\ UNCHANGED <<minute, bucket, lineage, breaker, switch, quotaFaults>>

\* recordExternalActionOutcome, in the order in which outcomes arrive.
After(b, outcome) ==
  IF outcome = "succeeded" THEN [failures |-> 0, open |-> FALSE]
  ELSE [failures |-> b.failures + 1, open |-> b.open \/ b.failures + 1 >= Threshold]

RecordEffect(x) ==
  /\ call[x].at \in {"succeeded", "failed", "uncertain"}
  /\ breaker' = [breaker EXCEPT ![FlowOf[x]] = After(@, call[x].at)]
  /\ Leads(x, "settled")
  /\ UNCHANGED <<minute, bucket, lineage, switch, quotaFaults>>

\* The worker dies; its receipt is never given back.
WorkerLost(x) ==
  /\ call[x].at \in {"reserved", "running", "refused", "succeeded", "failed", "uncertain"}
  /\ QuotaFault
  /\ Leads(x, "lost")
  /\ UNCHANGED <<minute, bucket, lineage, breaker, switch>>

\* The circuit's cooldown ends; nothing singles out a first call after it.
CoolsDown(f) ==
  /\ breaker[f].open
  /\ breaker' = [breaker EXCEPT ![f].open = FALSE]
  /\ UNCHANGED <<call, minute, bucket, lineage, switch, quotaFaults>>

NextMinute ==
  /\ minute < MaxMinute
  /\ minute' = minute + 1
  /\ UNCHANGED <<call, bucket, lineage, breaker, switch, quotaFaults>>

Switch ==
  /\ ~PolicyHeld
  /\ switch' = ~switch
  /\ UNCHANGED <<call, minute, bucket, lineage, breaker, quotaFaults>>

QuotaNext ==
  \/ \E x \in Effect :
       \/ Reserve(x) \/ PutOff(x) \/ Reject(x) \/ Permit(x) \/ Refund(x) \/ RefundThrows(x)
       \/ \E o \in {"succeeded", "failed", "uncertain"} : Outcome(x, o)
       \/ RecordEffect(x) \/ WorkerLost(x)
  \/ \E f \in Flow : CoolsDown(f)
  \/ NextMinute \/ Switch

QuotaSpec == QuotaInit /\ [][QuotaNext]_quotaVars

-----------------------------------------------------------------------------
(* Properties.                                                             *)

\* The effects that hold a slot of minute m: about to start, or started.
Holding(m) == {x \in Effect : call[x].receipt = m /\ (call[x].at = "reserved" \/ call[x].started)}

HoldingEver == UNION {Holding(m) : m \in Minute}

\* Every effect that starts, or still may, is covered by a slot in every counter that
\* limits it: no refund, late, repeated or after a crash, frees the slot of another.
EffectsCharged ==
  /\ \A m \in Minute :
       /\ Cardinality(Holding(m)) <= bucket[m].space
       /\ \A f \in Flow : Cardinality({x \in Holding(m) : FlowOf[x] = f}) <= bucket[m].flow[f]
  /\ Cardinality(HoldingEver) <= lineage

\* A slot is lost only to a fault: what is charged and not held is a refund on its way.
NoSlotLeaks ==
  lineage <= Cardinality(HoldingEver)
               + Cardinality({x \in Effect : call[x].at = "refused"}) + quotaFaults
=============================================================================
