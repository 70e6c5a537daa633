---------------------------- MODULE EmailOutbox ----------------------------
(***************************************************************************)
(* The e-mail outbox (apps/web/src/lib/email/outbox-processor.ts): rows    *)
(* that workers claim in batches, hand to a mail provider and settle, with *)
(* locks that go stale, writes that fail and workers that die, and the     *)
(* operator's delivery log (features/email-outbox/service.ts).             *)
(*                                                                         *)
(* A row either carries a plain message or extends an offer; what the      *)
(* offer adds to a delivery is in OfferMail, which this module leaves room *)
(* for.  Time is abstract: a pending row is due, a lock is live or stale.  *)
(* A worker is one call of processEmailOutbox in a process of its own.     *)
(***************************************************************************)
EXTENDS Naturals, FiniteSets

CONSTANTS
  Row,         \* rows of email_outbox, ordered by createdAt
  OfferRow,    \* those of kind offer.extended
  Worker,      \* calls of processEmailOutbox that may run at the same time
  None,        \* no lock owner, no row in hand
  Lost,        \* the id of a worker that no longer runs
  MaxAttempts, \* MAX_ATTEMPTS
  MaxFaults,   \* crashes, stalls and failed writes
  MaxOperator  \* commands of the operator

ASSUME EmailOutboxAssumption ==
  /\ Row \subseteq Nat /\ OfferRow \subseteq Row
  /\ None \notin Worker \cup Row /\ Lost \notin Worker /\ None # Lost
  /\ IsFiniteSet(Worker)
  /\ MaxAttempts \in Nat \ {0}
  /\ MaxFaults \in Nat /\ MaxOperator \in Nat

VARIABLES
  row,        \* row[r]: the columns of a row; status "absent" before it is inserted
  worker,     \* worker[w]: the claimed rows left, the row in hand, where its delivery is
  delivered,  \* delivered[r]: provider calls that did or may have delivered (history)
  spent       \* faults, operator commands and operator retries so far (history)

mailVars == <<row, worker, delivered, spent>>

Statuses == {"absent", "pending", "processing", "sent", "failed", "cancelled"}

Phases == {"between", "checked", "ready", "accepted", "recorded", "settling",
           "refused", "unknown"}

OutboxRow == [status: Statuses, owner: Worker \cup {None, Lost}, stale: BOOLEAN,
              attempts: 0 .. MaxAttempts, accepted: BOOLEAN, unknown: BOOLEAN]

Call == [batch: SUBSET Row, row: Row \cup {None}, phase: Phases]

Spent == [faults: 0 .. MaxFaults, operator: 0 .. MaxOperator, retries: 0 .. MaxOperator]

MailTypeOK ==
  /\ row \in [Row -> OutboxRow]
  /\ worker \in [Worker -> Call]
  /\ delivered \in [Row -> Nat]
  /\ spent \in Spent

Idle == [batch |-> {}, row |-> None, phase |-> "between"]

MailInit ==
  /\ row = [r \in Row |-> [status |-> "absent", owner |-> None, stale |-> FALSE,
                           attempts |-> 0, accepted |-> FALSE, unknown |-> FALSE]]
  /\ worker = [w \in Worker |-> Idle]
  /\ delivered = [r \in Row |-> 0]
  /\ spent = [faults |-> 0, operator |-> 0, retries |-> 0]

-----------------------------------------------------------------------------
(* What a write leaves in a row.                                           *)

Unlocked(x) == [x EXCEPT !.owner = None, !.stale = FALSE]

\* markSent, and the updates of deliverOffer (these keep lastError, which nothing reads
\* once the row is accepted).
Sent(x) == [Unlocked(x) EXCEPT !.status = "sent", !.accepted = TRUE, !.unknown = FALSE]

\* settleAccepted when the success write keeps failing: held, with the provider's id.
Held(x) == [Unlocked(x) EXCEPT !.status = "failed", !.accepted = TRUE, !.unknown = FALSE]

\* Mutant: the last attempt counted wrongly.
FailedOffByOne(x) == [Unlocked(x) EXCEPT
                       !.status = IF x.attempts > MaxAttempts THEN "failed" ELSE "pending",
                       !.unknown = FALSE]

\* markFailed: another attempt, or the end of them.
Failed(x) == [Unlocked(x) EXCEPT
               !.status = IF x.attempts >= MaxAttempts THEN "failed" ELSE "pending",
               !.unknown = FALSE]

\* markStale, and the sweep of a claim that used every attempt.
Ended(x) == [Unlocked(x) EXCEPT !.status = "failed", !.unknown = FALSE]

\* Mutant: an unknown outcome is tried again like a refusal.
OutcomeUnknownRetried(x) == Failed(x)

OutcomeUnknown(x) == [Unlocked(x) EXCEPT !.status = "failed", !.unknown = TRUE]

\* What a write that never landed leaves: the lock of a worker that moved on.
Abandoned(x, w) == IF x.owner = w THEN [x EXCEPT !.owner = Lost] ELSE x

Released(x) == [Unlocked(x) EXCEPT !.status = "pending", !.attempts = @ - 1]

Cancelled(x) == [Unlocked(x) EXCEPT !.status = "cancelled"]

Requeued(x) == [Unlocked(x) EXCEPT !.status = "pending", !.attempts = 0]

-----------------------------------------------------------------------------
(* Producers and operators.                                                *)

\* enqueueEmailOutbox inserts a row, or finds the one with the same dedupe key and,
\* for an explicit send, resets it when it is terminal, nobody accepted it and its
\* outcome is known.
Resettable(x) == x.status \in {"failed", "cancelled"} /\ ~x.accepted /\ ~x.unknown

Enqueued(x, resetTerminal) ==
  IF x.status = "absent" THEN [x EXCEPT !.status = "pending"]
  ELSE IF resetTerminal /\ Resettable(x) THEN Requeued(x)
  ELSE x

\* A producer that never resets: the row of a plain message.
EnqueuePlain(r) ==
  /\ r \notin OfferRow
  /\ row' = [row EXCEPT ![r] = Enqueued(@, FALSE)]
  /\ UNCHANGED <<worker, delivered, spent>>

\* retryDelivery: lastError stays, so an unknown outcome is still on the row.
RetryDelivery(r) ==
  /\ spent.operator < MaxOperator
  /\ row[r].status \in {"failed", "pending"} /\ ~row[r].accepted
  /\ row' = [row EXCEPT ![r] = Requeued(@)]
  /\ spent' = [spent EXCEPT !.operator = @ + 1, !.retries = @ + 1]
  /\ UNCHANGED <<worker, delivered>>

CancelDelivery(r) ==
  /\ spent.operator < MaxOperator
  /\ row[r].status \in {"failed", "pending"} /\ ~row[r].accepted
  /\ row' = [row EXCEPT ![r] = Cancelled(@)]
  /\ spent' = [spent EXCEPT !.operator = @ + 1]
  /\ UNCHANGED <<worker, delivered>>

-----------------------------------------------------------------------------
(* processEmailOutbox: claim a batch, then take its rows in order.         *)

Exhausted(r) == row[r].status = "processing" /\ row[r].stale /\ row[r].attempts >= MaxAttempts

\* Mutant: a stale claim is never taken over.
ClaimablePendingOnly(r) == row[r].status = "pending"

Claimable(r) ==
  \/ row[r].status = "pending"
  \/ row[r].status = "processing" /\ row[r].stale /\ row[r].attempts < MaxAttempts

\* The attempts of a pending row are below the limit, so a claim stays within it.
ClaimedBy(x, w) == [x EXCEPT !.status = "processing", !.owner = w, !.stale = FALSE,
                             !.attempts = @ + 1]

\* scope is the whole queue, or the ids a request has just enqueued.
Claim(w, scope) ==
  /\ worker[w] = Idle
  /\ \E r \in scope : Exhausted(r) \/ Claimable(r)
  /\ row' = [r \in Row |->
       CASE r \in scope /\ Exhausted(r) -> Ended(row[r])
         [] r \in scope /\ Claimable(r) -> ClaimedBy(row[r], w)
         [] OTHER -> row[r]]
  /\ worker' = [worker EXCEPT ![w].batch = {r \in scope : Claimable(r)}]
  /\ UNCHANGED <<delivered, spent>>

IsNext(w, r) ==
  /\ worker[w].phase = "between"
  /\ r \in worker[w].batch
  /\ \A q \in worker[w].batch : r <= q

Mine(w, r) == row[r].status = "processing" /\ row[r].owner = w

Take(w, r, phase) ==
  worker' = [worker EXCEPT ![w] = [batch |-> @.batch \ {r}, row |-> r, phase |-> phase]]

Skip(w, r) == worker' = [worker EXCEPT ![w].batch = @ \ {r}]

\* The time budget of the run is used up: the claim is undone where it still stands.
ReleaseUnstarted(w, r) ==
  /\ IsNext(w, r)
  /\ row' = IF Mine(w, r)
            THEN [row EXCEPT ![r] = Released(@)]
            ELSE row
  /\ Skip(w, r)
  /\ UNCHANGED <<delivered, spent>>

\* deliverRowOnce reads the row: accepted before, no longer this worker's, or to deliver.
StartRow(w, r) ==
  /\ IsNext(w, r)
  /\ IF row[r].accepted THEN Take(w, r, "settling")
     ELSE IF Mine(w, r) THEN Take(w, r, IF r \in OfferRow THEN "checked" ELSE "ready")
     ELSE Skip(w, r)
  /\ UNCHANGED <<row, delivered, spent>>

-----------------------------------------------------------------------------
(* sendRecorded and the writes that settle a delivery.  None of them asks  *)
(* whether the row is still this worker's.                                 *)

InHand(w, phase) == worker[w].row # None /\ worker[w].phase = phase

Moves(w, phase) == worker' = [worker EXCEPT ![w].phase = phase]

Finishes(w) == worker' = [worker EXCEPT ![w].row = None, ![w].phase = "between"]

Writes(w, x) == row' = [row EXCEPT ![worker[w].row] = x]

Fault ==
  /\ spent.faults < MaxFaults
  /\ spent' = [spent EXCEPT !.faults = @ + 1]

\* The provider takes the message, or stops answering after it was handed over.
Deliver(w, phase) ==
  /\ InHand(w, "ready")
  /\ delivered' = [delivered EXCEPT ![worker[w].row] = @ + 1]
  /\ Moves(w, phase)
  /\ UNCHANGED <<row, spent>>

ProviderAccepts(w) == Deliver(w, "accepted")

OutcomeLost(w) == Deliver(w, "unknown")

\* No sender, an unusable payload, a rendering error or a refusal.
ProviderRefuses(w) ==
  /\ InHand(w, "ready")
  /\ Moves(w, "refused")
  /\ UNCHANGED <<row, delivered, spent>>

RecordAcceptance(w) ==
  /\ InHand(w, "accepted")
  /\ Writes(w, [row[worker[w].row] EXCEPT !.accepted = TRUE])
  /\ Moves(w, "recorded")
  /\ UNCHANGED <<delivered, spent>>

\* Every attempt of the write fails; the worker goes on to markSent.
AcceptanceNotRecorded(w) ==
  /\ InHand(w, "accepted")
  /\ Fault
  /\ Moves(w, "recorded")
  /\ UNCHANGED <<row, delivered>>

MarkSent(w) ==
  /\ InHand(w, "recorded") /\ worker[w].row \notin OfferRow
  /\ Writes(w, Sent(row[worker[w].row]))
  /\ Finishes(w)
  /\ UNCHANGED <<delivered, spent>>

\* markSent, or the transaction of deliverOffer, throws: caught by deliverRowOnce.
SuccessWriteThrows(w) ==
  /\ InHand(w, "recorded")
  /\ Fault
  /\ Moves(w, "settling")
  /\ UNCHANGED <<row, delivered>>

SettleAccepted(w) ==
  /\ InHand(w, "settling")
  /\ Writes(w, Sent(row[worker[w].row]))
  /\ Finishes(w)
  /\ UNCHANGED <<delivered, spent>>

\* The success write keeps failing: the row is held, unless that write fails too.
SettleFails(w) ==
  /\ InHand(w, "settling")
  /\ Fault
  /\ \E x \in {Held(row[worker[w].row]), Abandoned(row[worker[w].row], w)} : Writes(w, x)
  /\ Finishes(w)
  /\ UNCHANGED delivered

MarkFailed(w) ==
  /\ InHand(w, "refused")
  /\ Writes(w, Failed(row[worker[w].row]))
  /\ Finishes(w)
  /\ UNCHANGED <<delivered, spent>>

\* Mutant: the row is finalized without that look.
FinalizeUnchecked(w) ==
  /\ InHand(w, "refused")
  /\ Writes(w, Sent(row[worker[w].row]))
  /\ Finishes(w)
  /\ UNCHANGED <<delivered, spent>>

\* The refusal was an exception: finalizeIfAccepted looks at the row first.
FinalizeIfAccepted(w) ==
  /\ InHand(w, "refused") /\ row[worker[w].row].accepted
  /\ Writes(w, Sent(row[worker[w].row]))
  /\ Finishes(w)
  /\ UNCHANGED <<delivered, spent>>

SettleUnknown(w) ==
  /\ InHand(w, "unknown")
  /\ Writes(w, OutcomeUnknown(row[worker[w].row]))
  /\ Finishes(w)
  /\ UNCHANGED <<delivered, spent>>

UnknownNotRecorded(w) ==
  /\ InHand(w, "unknown")
  /\ Fault
  /\ Writes(w, Abandoned(row[worker[w].row], w))
  /\ Finishes(w)
  /\ UNCHANGED delivered

\* The process dies, or a write that nothing retries throws out of the batch.
Crash(w) ==
  /\ worker[w] # Idle
  /\ Fault
  /\ row' = [r \in Row |-> Abandoned(row[r], w)]
  /\ worker' = [worker EXCEPT ![w] = Idle]
  /\ UNCHANGED delivered

\* Five minutes pass since the claim.  Locks are not renewed, so a slow batch
\* outlives the locks of the rows it has not reached.
LockExpires(r) ==
  /\ row[r].status = "processing" /\ ~row[r].stale
  /\ IF row[r].owner = Lost THEN UNCHANGED spent ELSE Fault
  /\ row' = [row EXCEPT ![r].stale = TRUE]
  /\ UNCHANGED <<worker, delivered>>

-----------------------------------------------------------------------------
WorkerStep(w) ==
  \/ \E r \in Row : ReleaseUnstarted(w, r) \/ StartRow(w, r)
  \/ ProviderAccepts(w) \/ OutcomeLost(w) \/ ProviderRefuses(w)
  \/ RecordAcceptance(w) \/ MarkSent(w) \/ SettleAccepted(w)
  \/ MarkFailed(w) \/ FinalizeIfAccepted(w) \/ SettleUnknown(w)

WorkerFault(w) ==
  \/ AcceptanceNotRecorded(w) \/ SuccessWriteThrows(w) \/ SettleFails(w)
  \/ UnknownNotRecorded(w) \/ Crash(w)

MailStep ==
  \/ \E r \in Row : \/ EnqueuePlain(r) \/ RetryDelivery(r) \/ CancelDelivery(r)
                    \/ LockExpires(r)
  \/ \E w \in Worker :
       \/ Claim(w, Row) \/ \E r \in Row : Claim(w, {r})
       \/ WorkerStep(w) \/ WorkerFault(w)

-----------------------------------------------------------------------------
(* Properties.                                                             *)

\* A message reaches its recipient once.  Every further copy is paid for by a fault of
\* a worker or a connection, or by an operator's explicit retry; refusals, claims,
\* releases and explicit sends alone never repeat a delivery (sendRecorded,
\* settleAccepted, enqueueEmailOutbox).
DeliveriesPaid ==
  \A r \in Row : delivered[r] <= 1 + spent.faults + spent.retries

\* A plain row that counts as accepted or sent was handed to the provider: no sweep,
\* operator or late write of another worker calls an undelivered message sent.
NothingSentUndelivered ==
  \A r \in Row \ OfferRow : row[r].status = "sent" \/ row[r].accepted => delivered[r] >= 1

\* A queued row still has an attempt left: no claim exceeds MAX_ATTEMPTS, and no
\* pending row is left that the sweep has to end.
PendingHasAttempt ==
  \A r \in Row : row[r].status = "pending" => row[r].attempts < MaxAttempts

\* Why DeliveriesPaid holds: the workers that may still deliver row r, and the claims
\* that may still be made of it, are paid for like the deliveries already made.
Engaged(r) == {w \in Worker : worker[w].row = r /\ worker[w].phase \in {"checked", "ready", "refused"}}

\* What keeps the counters in range: a claim was counted, a row starts with none, and
\* retries are operator commands.
ClaimsCounted ==
  /\ \A r \in Row : /\ row[r].status = "processing" => row[r].attempts >= 1
                    /\ row[r].status = "absent" => row[r].attempts = 0
  /\ spent.retries <= spent.operator

AboutToStart(r) == {w \in Worker : r \in worker[w].batch /\ Mine(w, r)}

Unclaimed(r) ==
  \/ row[r].status \in {"absent", "pending"}
  \/ row[r].status = "processing" /\ (row[r].stale \/ row[r].owner = Lost)
  \/ Resettable(row[r])

Paid(r) ==
  delivered[r] + Cardinality(Engaged(r)) + Cardinality(AboutToStart(r))
    + (IF Unclaimed(r) THEN 1 ELSE 0) <= 1 + spent.faults + spent.retries

PotentialPaid == \A r \in Row : Paid(r)
=============================================================================
