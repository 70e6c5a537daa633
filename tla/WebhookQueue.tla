---------------------------- MODULE WebhookQueue ----------------------------
(***************************************************************************)
(* Outgoing webhooks (apps/web/src/server/webhooks/dispatch.ts, emit.ts):  *)
(* a delivery is queued, sent at once by a call of its own and retried by  *)
(* the cron sweep until the endpoint answers or the attempts are used up.  *)
(*                                                                         *)
(* The cron key is locked, so there is one cron sweep at a time; the call  *)
(* that follows an insert claims its own row only.  All deliveries go to   *)
(* one endpoint, which may be disabled.  A call that ends or dies is       *)
(* replaced by one with another worker id: LostCall stands for its id.     *)
(***************************************************************************)
EXTENDS Naturals

CONSTANTS
  Hook,        \* webhook_deliveries, ordered by created_at
  Sweep,       \* the cron's call of dispatchDueWebhooks
  Nobody,      \* no lock owner, no delivery in hand
  LostCall,    \* the worker id of a call that no longer runs
  MaxTries,    \* MAX_WEBHOOK_ATTEMPTS
  MaxHookFaults

ASSUME WebhookQueueAssumption ==
  /\ Hook \subseteq Nat /\ Sweep \notin Hook
  /\ Nobody \notin Hook \cup {Sweep, LostCall} /\ LostCall \notin Hook \cup {Sweep}
  /\ MaxTries \in Nat \ {0} /\ MaxHookFaults \in Nat

VARIABLES
  hook,        \* hook[d]: status, lock, attempts, whether it is due
  caller,      \* caller[c]: the claimed deliveries left, the one sent, its outcome
  endpoint,    \* the endpoint is enabled
  demo,        \* isDemoMode(): fixed for a deployment
  received,    \* received[d]: requests the endpoint processed (history)
  hookFaults

hookVars == <<hook, caller, endpoint, demo, received, hookFaults>>

Caller == Hook \cup {Sweep}

\* The attempt of a call, or the call's place between two attempts.
Steps == {"idle", "claimed", "loop", "answered", "refused", "done"}

HookTypeOK ==
  /\ hook \in [Hook -> [status: {"absent", "pending", "processing", "failed",
                                 "success", "exhausted"},
                        owner: Caller \cup {Nobody, LostCall}, stale: BOOLEAN,
                        tries: 0 .. MaxTries, due: BOOLEAN]]
  /\ caller \in [Caller -> [batch: SUBSET Hook, item: Hook \cup {Nobody}, step: Steps]]
  /\ endpoint \in BOOLEAN /\ demo \in BOOLEAN
  /\ received \in [Hook -> Nat]
  /\ hookFaults \in 0 .. MaxHookFaults

IdleCaller == [batch |-> {}, item |-> Nobody, step |-> "idle"]

HookInit ==
  /\ hook = [d \in Hook |-> [status |-> "absent", owner |-> Nobody, stale |-> FALSE,
                             tries |-> 0, due |-> TRUE]]
  /\ caller = [c \in Caller |-> IdleCaller]
  /\ endpoint = TRUE /\ demo \in BOOLEAN
  /\ received = [d \in Hook |-> 0] /\ hookFaults = 0

HookFault == hookFaults < MaxHookFaults /\ hookFaults' = hookFaults + 1

Owned(d, c) == hook[d].status = "processing" /\ hook[d].owner = c

Free(x) == [x EXCEPT !.owner = Nobody, !.stale = FALSE]

-----------------------------------------------------------------------------
\* emitWebhookEvent, replayWebhookDelivery and the test ping insert a delivery; only the
\* first looks whether the endpoint is enabled.
QueueHook(d) ==
  /\ hook[d].status = "absent"
  /\ hook' = [hook EXCEPT ![d].status = "pending"]
  /\ UNCHANGED <<caller, endpoint, demo, received, hookFaults>>

\* Mutants: a lock that does not count, a stale claim that is never taken over.
DueHookAnyLock(d) ==
  \/ hook[d].status \in {"pending", "failed"} /\ hook[d].due
  \/ hook[d].status = "processing"

DueHookNeverReclaims(d) == hook[d].status \in {"pending", "failed"} /\ hook[d].due

DueHook(d) ==
  \/ hook[d].status \in {"pending", "failed"} /\ hook[d].due
  \/ hook[d].status = "processing" /\ hook[d].stale

\* The cron claims whatever is due; the call for one delivery only that one, once.
ClaimHooks(c) ==
  LET scope == IF c = Sweep THEN Hook ELSE {c}
      taken == {d \in scope : DueHook(d)}
  IN /\ caller[c].step = "idle" /\ endpoint /\ taken # {}
     /\ hook' = [d \in Hook |->
          IF d \in taken
          THEN [hook[d] EXCEPT !.status = "processing", !.owner = c, !.stale = FALSE]
          ELSE hook[d]]
     /\ caller' = [caller EXCEPT ![c] = [batch |-> taken, item |-> Nobody, step |-> "claimed"]]
     /\ UNCHANGED <<endpoint, demo, received, hookFaults>>

\* The read after the claim: rows whose endpoint was disabled meanwhile go back.
ReadClaimed(c) ==
  /\ caller[c].step = "claimed"
  /\ LET due == {d \in caller[c].batch : endpoint /\ hook[d].owner = c}
     IN /\ hook' = [d \in Hook |->
             IF d \in caller[c].batch \ due /\ hook[d].owner = c
             THEN [Free(hook[d]) EXCEPT !.status = "pending"]
             ELSE hook[d]]
        /\ caller' = [caller EXCEPT ![c].batch = due, ![c].step = "loop"]
  /\ UNCHANGED <<endpoint, demo, received, hookFaults>>

\* deliverWebhook up to the endpoint's answer.  Nothing looks at the row again first.
SendHook(c, d, answer) ==
  /\ caller[c].step = "loop" /\ caller[c].item = Nobody /\ ~demo
  /\ d \in caller[c].batch /\ \A e \in caller[c].batch : d <= e
  /\ caller' = [caller EXCEPT ![c] = [batch |-> @.batch \ {d}, item |-> d, step |-> answer]]

Answered(c, d) ==
  /\ SendHook(c, d, "answered")
  /\ received' = [received EXCEPT ![d] = @ + 1]
  /\ UNCHANGED <<hook, endpoint, demo, hookFaults>>

Refused(c, d) ==
  /\ SendHook(c, d, "refused")
  /\ UNCHANGED <<hook, endpoint, demo, received, hookFaults>>

\* The endpoint processed the request, but no answer came within the timeout.
AnswerLost(c, d) ==
  /\ SendHook(c, d, "refused") /\ HookFault
  /\ received' = [received EXCEPT ![d] = @ + 1]
  /\ UNCHANGED <<hook, endpoint, demo>>

\* In demo mode nothing is sent, and the row is left as it was claimed.
Suppress(c, d) ==
  /\ caller[c].step = "loop" /\ demo
  /\ d \in caller[c].batch /\ \A e \in caller[c].batch : d <= e
  /\ caller' = [caller EXCEPT ![c].batch = @ \ {d}]
  /\ UNCHANGED <<hook, endpoint, demo, received, hookFaults>>

Tried(x, answer) ==
  LET n == x.tries + 1
  IN [Free(x) EXCEPT !.tries = n, !.due = FALSE,
        !.status = IF answer = "answered" THEN "success"
                   ELSE IF n >= MaxTries THEN "exhausted" ELSE "failed"]

\* Mutant: the result is written whoever holds the row.
StillClaimedUnchecked(c, d) == TRUE

\* A result counts only while the row is still claimed by this call.
StillClaimed(c, d) == Owned(d, c)

RecordOutcome(c) ==
  /\ caller[c].item # Nobody
  /\ LET d == caller[c].item
     IN hook' = IF StillClaimed(c, d)
                THEN [hook EXCEPT ![d] = Tried(@, caller[c].step)] ELSE hook
  /\ caller' = [caller EXCEPT ![c].item = Nobody, ![c].step = "loop"]
  /\ UNCHANGED <<endpoint, demo, received, hookFaults>>

\* The call returns; its rows, if any are left to it, belong to nobody alive.
Orphaned(c) == [d \in Hook |-> IF hook[d].owner = c THEN [hook[d] EXCEPT !.owner = LostCall] ELSE hook[d]]

EndCall(c) ==
  /\ caller[c] = [batch |-> {}, item |-> Nobody, step |-> "loop"]
  /\ hook' = Orphaned(c)
  /\ caller' = [caller EXCEPT ![c].step = IF c = Sweep THEN "idle" ELSE "done"]
  /\ UNCHANGED <<endpoint, demo, received, hookFaults>>

\* The process of a call dies, or its write fails.
CrashCall(c) ==
  /\ caller[c].step \notin {"idle", "done"}
  /\ HookFault
  /\ hook' = Orphaned(c)
  /\ caller' = [caller EXCEPT ![c] = [IdleCaller EXCEPT !.step = IF c = Sweep THEN "idle" ELSE "done"]]
  /\ UNCHANGED <<endpoint, demo, received>>

\* Five minutes pass since the claim: of a call that stalls, or of one that is gone.
HookLockExpires(d) ==
  /\ hook[d].status = "processing" /\ ~hook[d].stale
  /\ IF hook[d].owner = LostCall THEN UNCHANGED hookFaults ELSE HookFault
  /\ hook' = [hook EXCEPT ![d].stale = TRUE]
  /\ UNCHANGED <<caller, endpoint, demo, received>>

RetryIsDue(d) ==
  /\ hook[d].status = "failed" /\ ~hook[d].due
  /\ hook' = [hook EXCEPT ![d].due = TRUE]
  /\ UNCHANGED <<caller, endpoint, demo, received, hookFaults>>

\* Disabling counts as a fault, to bound how often the endpoint flips.
ToggleEndpoint ==
  /\ endpoint' = ~endpoint
  /\ IF endpoint THEN HookFault ELSE UNCHANGED hookFaults
  /\ UNCHANGED <<hook, caller, demo, received>>

CallStep(c) ==
  \/ ClaimHooks(c) \/ ReadClaimed(c) \/ RecordOutcome(c) \/ EndCall(c)
  \/ \E d \in Hook : Answered(c, d) \/ Refused(c, d) \/ Suppress(c, d)

HookNext ==
  \/ \E c \in Caller : CallStep(c) \/ CrashCall(c) \/ \E d \in Hook : AnswerLost(c, d)
  \/ \E d \in Hook : QueueHook(d) \/ HookLockExpires(d) \/ RetryIsDue(d)
  \/ ToggleEndpoint

HookSpec == HookInit /\ [][HookNext]_hookVars

\* The cron sweeps, running calls go on, retries become due, abandoned locks age.
HookFair(c) == CallStep(c)
HookAges(d) == RetryIsDue(d) \/ (hook[d].owner = LostCall /\ HookLockExpires(d))

-----------------------------------------------------------------------------
(* Properties.                                                             *)

\* Every further copy of a delivery the endpoint processed is paid for by a fault: a
\* lost answer, a stalled call or a call that died between the answer and its record.
HooksPaid == \A d \in Hook : received[d] <= 1 + hookFaults

\* "success" and "exhausted" are final, and attempts only grow: the late result of a call
\* whose row was claimed again changes nothing (deliverWebhook's guarded update).
HookOutcomeFinal ==
  [][\A d \in Hook :
       /\ hook[d].status \in {"success", "exhausted"} => hook'[d] = hook[d]
       /\ hook'[d].tries # hook[d].tries => \E c \in Caller : Owned(d, c) /\ caller[c].item = d]_hookVars

\* A queued delivery is delivered or given up, unless its endpoint is disabled (or
\* nothing is delivered at all, in a demo).
HooksSettle ==
  \A d \in Hook : hook[d].status \in {"pending", "processing", "failed"}
                  ~> hook[d].status \in {"success", "exhausted"} \/ ~endpoint \/ demo

\* "Treat the delivery as terminally done so the queue drains instead of retrying
\* forever": a claimed delivery of a demo deployment ends.
DemoQueueDrains ==
  \A d \in Hook : demo /\ hook[d].status = "processing"
                  ~> hook[d].status \in {"success", "exhausted"} \/ ~endpoint
=============================================================================
