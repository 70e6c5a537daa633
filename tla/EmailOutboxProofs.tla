------------------------- MODULE EmailOutboxProofs -------------------------
(***************************************************************************)
(* What the outbox promises about deliveries, for any number of rows,      *)
(* workers, attempts, faults and operator commands.                        *)
(***************************************************************************)
EXTENDS OfferMail, TLAPS, FiniteSetTheorems

USE EmailOutboxAssumption, OfferMailAssumption DEF Mine

-----------------------------------------------------------------------------
(* What the writes of a row return.                                        *)

Typed == OfferMailTypeOK /\ PendingHasAttempt /\ ClaimsCounted

LEMMA InitTyped == OfferMailInit => Typed
BY DEF OfferMailInit, MailInit, Typed, OfferMailTypeOK, MailTypeOK, PendingHasAttempt,
       ClaimsCounted, OutboxRow, Statuses, Call, Phases, Spent, Idle

\* One row is written, by an operator that keeps a row well formed.
WellFormed(x) ==
  /\ x \in OutboxRow
  /\ x.status = "pending" => x.attempts < MaxAttempts
  /\ x.status = "processing" => x.attempts >= 1
  /\ x.status = "absent" => x.attempts = 0

LEMMA StatusWellFormed ==
  ASSUME NEW x, WellFormed(x), NEW s \in Statuses, NEW a \in 0 .. MaxAttempts,
         s = "pending" => a < MaxAttempts, s = "processing" => a >= 1, s = "absent" => a = 0
  PROVE  WellFormed([x EXCEPT !.status = s, !.attempts = a])
BY DEF WellFormed, OutboxRow

LEMMA WritesWellFormed ==
  ASSUME NEW x, WellFormed(x)
  PROVE  /\ WellFormed(Sent(x)) /\ WellFormed(Held(x)) /\ WellFormed(Failed(x))
         /\ WellFormed(Ended(x)) /\ WellFormed(OutcomeUnknown(x))
         /\ WellFormed(Requeued(x)) /\ \A w \in Worker : WellFormed(Abandoned(x, w))
<1>0. WellFormed(Unlocked(x)) /\ Unlocked(x).attempts = x.attempts
  BY DEF WellFormed, OutboxRow, Statuses, Unlocked
<1>1. \A y : WellFormed(y) => WellFormed([y EXCEPT !.status = "sent", !.accepted = TRUE,
                                                  !.unknown = FALSE])
  BY DEF WellFormed, OutboxRow, Statuses
<1>2. \A y : WellFormed(y) => WellFormed([y EXCEPT !.status = "failed", !.accepted = TRUE,
                                                  !.unknown = FALSE])
  BY DEF WellFormed, OutboxRow, Statuses
<1>3. \A y, b : WellFormed(y) /\ b \in BOOLEAN
         => WellFormed([y EXCEPT !.status = "failed", !.unknown = b])
  BY DEF WellFormed, OutboxRow, Statuses
<1>4. WellFormed(Failed(x))
  <2>1. \A y, s : WellFormed(y) /\ s \in {"failed", "pending"}
                   /\ (s = "pending" => y.attempts < MaxAttempts)
           => WellFormed([y EXCEPT !.status = s, !.unknown = FALSE])
    BY DEF WellFormed, OutboxRow, Statuses
  <2>2. ~(x.attempts >= MaxAttempts) => x.attempts < MaxAttempts
    BY DEF WellFormed, OutboxRow
  <2> QED BY <1>0, <2>1, <2>2 DEF Failed
<1>5. \A w \in Worker : WellFormed(Abandoned(x, w))
  BY DEF WellFormed, OutboxRow, Statuses, Abandoned
<1>6. WellFormed(Requeued(x))
  <2>1. 0 \in 0 .. MaxAttempts /\ 0 < MaxAttempts
    OBVIOUS
  <2> QED BY <1>0, <2>1, StatusWellFormed DEF Requeued, Statuses
<1> QED BY <1>0, <1>1, <1>2, <1>3, <1>4, <1>5, <1>6 DEF Sent, Held, Ended, OutcomeUnknown

LEMMA QueueWritesWellFormed ==
  ASSUME NEW x, WellFormed(x)
  PROVE  /\ WellFormed([x EXCEPT !.accepted = TRUE])
         /\ WellFormed([x EXCEPT !.stale = TRUE])
         /\ WellFormed(Cancelled(x))
         /\ WellFormed(Enqueued(x, FALSE)) /\ WellFormed(Enqueued(x, TRUE))
         /\ x.attempts < MaxAttempts => \A w \in Worker : WellFormed(ClaimedBy(x, w))
         /\ x.status = "processing"
              => WellFormed(Released(x))
<1>1. WellFormed([x EXCEPT !.accepted = TRUE])
  BY DEF WellFormed, OutboxRow
<1>2. WellFormed([x EXCEPT !.stale = TRUE])
  BY DEF WellFormed, OutboxRow
<1>3. WellFormed(Cancelled(x))
  BY DEF WellFormed, OutboxRow, Statuses, Unlocked, Cancelled
<1>4. x.status = "absent" => WellFormed([x EXCEPT !.status = "pending"])
  BY DEF WellFormed, OutboxRow, Statuses
<1>5. WellFormed(Enqueued(x, FALSE)) /\ WellFormed(Enqueued(x, TRUE))
  BY <1>4, WritesWellFormed DEF Enqueued
<1>6. x.attempts < MaxAttempts => \A w \in Worker : WellFormed(ClaimedBy(x, w))
  <2> SUFFICES ASSUME x.attempts < MaxAttempts, NEW w \in Worker
               PROVE  WellFormed(ClaimedBy(x, w))
    OBVIOUS
  <2>1. WellFormed([x EXCEPT !.owner = w, !.stale = FALSE])
    BY DEF WellFormed, OutboxRow
  <2>2. x.attempts + 1 \in 0 .. MaxAttempts /\ x.attempts + 1 >= 1
    BY DEF WellFormed, OutboxRow
  <2>3. WellFormed([[x EXCEPT !.owner = w, !.stale = FALSE]
                      EXCEPT !.status = "processing", !.attempts = x.attempts + 1])
    BY <2>1, <2>2, StatusWellFormed DEF Statuses
  <2>4. ClaimedBy(x, w) = [[x EXCEPT !.owner = w, !.stale = FALSE]
                      EXCEPT !.status = "processing", !.attempts = x.attempts + 1]
    BY DEF ClaimedBy, WellFormed, OutboxRow
  <2> QED BY <2>3, <2>4
<1>7. x.status = "processing"
        => WellFormed(Released(x))
  <2> SUFFICES ASSUME x.status = "processing"
               PROVE  WellFormed(Released(x))
    OBVIOUS
  <2>1. x.attempts - 1 \in 0 .. MaxAttempts /\ x.attempts - 1 < MaxAttempts
    BY DEF WellFormed, OutboxRow
  <2>2. WellFormed(Unlocked(x)) /\ Unlocked(x).attempts = x.attempts
    BY DEF WellFormed, OutboxRow, Unlocked
  <2> QED BY <2>1, <2>2, StatusWellFormed DEF Statuses, Released
<1> QED BY <1>1, <1>2, <1>3, <1>5, <1>6, <1>7 DEF WellFormed

-----------------------------------------------------------------------------
(* Typing.                                                                 *)

RowsOK == row \in [Row -> OutboxRow] /\ \A r \in Row : WellFormed(row[r])
CallsOK == worker \in [Worker -> Call]
SpentOK == spent \in Spent /\ spent.retries <= spent.operator
OfferOK ==
  /\ offer \in [status: {"draft", "sent", "accepted", "declined", "withdrawn"}, terms: Terms]
  /\ active \in BOOLEAN
  /\ sender \in Terms \cup {None}
  /\ editor \in {"idle", "read", "checked"}

LEMMA TypedNow ==
  Typed => RowsOK /\ CallsOK /\ SpentOK /\ OfferOK /\ delivered \in [Row -> Nat]
<1>1. Typed => RowsOK
  <2> SUFFICES ASSUME Typed, NEW r \in Row PROVE WellFormed(row[r])
    BY DEF Typed, RowsOK, OfferMailTypeOK, MailTypeOK
  <2>1. row[r] \in OutboxRow
    BY DEF Typed, OfferMailTypeOK, MailTypeOK
  <2>2. /\ row[r].status = "pending" => row[r].attempts < MaxAttempts
        /\ row[r].status = "processing" => row[r].attempts >= 1
        /\ row[r].status = "absent" => row[r].attempts = 0
    <3>1. PendingHasAttempt /\ ClaimsCounted
      BY DEF Typed
    <3> QED BY <3>1 DEF PendingHasAttempt, ClaimsCounted
  <2> QED BY <2>1, <2>2 DEF WellFormed
<1>2. Typed => CallsOK /\ SpentOK /\ OfferOK /\ delivered \in [Row -> Nat]
  BY DEF Typed, CallsOK, SpentOK, OfferOK, OfferMailTypeOK, MailTypeOK, ClaimsCounted
<1> QED BY <1>1, <1>2

LEMMA TypedNext ==
  RowsOK' /\ CallsOK' /\ SpentOK' /\ OfferOK' /\ delivered' \in [Row -> Nat] => Typed'
BY DEF Typed, RowsOK, CallsOK, SpentOK, OfferOK, OfferMailTypeOK, MailTypeOK,
         PendingHasAttempt, ClaimsCounted, WellFormed

LEMMA WriteKeepsRows ==
  ASSUME RowsOK, NEW r \in Row, NEW x, WellFormed(x), row' = [row EXCEPT ![r] = x]
  PROVE  RowsOK'
BY DEF RowsOK, WellFormed

LEMMA RowIsTyped ==
  ASSUME RowsOK, CallsOK, NEW w \in Worker, NEW phase, InHand(w, phase)
  PROVE  worker[w].row \in Row /\ WellFormed(row[worker[w].row])
BY DEF RowsOK, CallsOK, InHand, Call

LEMMA FaultKeepsSpent == SpentOK /\ Fault => SpentOK'
BY DEF SpentOK, Fault, Spent

LEMMA CallMoves ==
  ASSUME CallsOK, NEW w \in Worker
  PROVE  /\ \A phase \in Phases : Moves(w, phase) => CallsOK'
         /\ Finishes(w) => CallsOK'
         /\ \A r \in Row : Skip(w, r) => CallsOK'
         /\ \A r \in Row, phase \in Phases : Take(w, r, phase) => CallsOK'
<1>1. \A phase \in Phases : Moves(w, phase) => CallsOK'
  BY DEF CallsOK, Call, Moves
<1>2. Finishes(w) => CallsOK'
  <2>1. [worker[w] EXCEPT !.row = None, !.phase = "between"] \in Call
    BY DEF CallsOK, Call, Phases
  <2>2. Finishes(w) => worker' = [worker EXCEPT
                          ![w] = [worker[w] EXCEPT !.row = None, !.phase = "between"]]
    BY DEF Finishes
  <2> QED BY <2>1, <2>2 DEF CallsOK
<1>3. \A r \in Row : Skip(w, r) => CallsOK'
  BY DEF CallsOK, Call, Skip
<1>4. \A r \in Row, phase \in Phases : Take(w, r, phase) => CallsOK'
  BY DEF CallsOK, Call, Take
<1> QED BY <1>1, <1>2, <1>3, <1>4

LEMMA QueueTyped ==
  ASSUME Typed, NEW r \in Row, UNCHANGED offerVars,
         EnqueuePlain(r) \/ RetryDelivery(r) \/ CancelDelivery(r) \/ LockExpires(r)
  PROVE  Typed'
<1> USE TypedNow, TypedNext DEF offerVars
<1>0. WellFormed(row[r]) /\ OfferOK'
  BY DEF RowsOK, OfferOK
<1>1. CASE EnqueuePlain(r)
  BY <1>0, <1>1, QueueWritesWellFormed, WriteKeepsRows DEF EnqueuePlain, CallsOK, SpentOK
<1>2. CASE RetryDelivery(r)
  <2>1. RowsOK'
    <3>1. WellFormed(Requeued(row[r])) /\ row' = [row EXCEPT ![r] = Requeued(row[r])]
      BY <1>0, <1>2, WritesWellFormed DEF RetryDelivery
    <3> QED BY <3>1, WriteKeepsRows
  <2>2. SpentOK'
    <3>1. /\ spent \in Spent /\ spent.retries <= spent.operator
          /\ spent.operator < MaxOperator
          /\ spent' = [spent EXCEPT !.operator = @ + 1, !.retries = @ + 1]
      BY <1>2 DEF RetryDelivery, SpentOK
    <3>2. /\ spent.operator + 1 \in 0 .. MaxOperator
          /\ spent.retries + 1 \in 0 .. MaxOperator
          /\ spent.retries + 1 <= spent.operator + 1
      BY <3>1 DEF Spent
    <3> QED BY <3>1, <3>2 DEF SpentOK, Spent
  <2> QED BY <1>0, <1>2, <2>1, <2>2 DEF RetryDelivery, CallsOK
<1>3. CASE CancelDelivery(r)
  <2>1. RowsOK'
    BY <1>0, <1>3, QueueWritesWellFormed, WriteKeepsRows DEF CancelDelivery
  <2>2. SpentOK'
    BY <1>3 DEF CancelDelivery, SpentOK, Spent
  <2> QED BY <1>0, <1>3, <2>1, <2>2 DEF CancelDelivery, CallsOK
<1>4. CASE LockExpires(r)
  <2>1. RowsOK'
    BY <1>0, <1>4, QueueWritesWellFormed, WriteKeepsRows DEF LockExpires, RowsOK
  <2>2. SpentOK'
    BY <1>4, FaultKeepsSpent DEF LockExpires, SpentOK
  <2> QED BY <1>0, <1>4, <2>1, <2>2 DEF LockExpires, CallsOK
<1> QED BY <1>1, <1>2, <1>3, <1>4

LEMMA ClaimTyped ==
  ASSUME Typed, NEW w \in Worker, NEW scope \in SUBSET Row, Claim(w, scope), UNCHANGED offerVars
  PROVE  Typed'
<1> USE TypedNow, TypedNext DEF offerVars
<1>1. RowsOK'
  <2> SUFFICES ASSUME NEW r \in Row
               PROVE  row'[r] \in OutboxRow /\ WellFormed(row'[r])
    BY DEF Claim, RowsOK
  <2>1. WellFormed(row[r])
    BY DEF RowsOK
  <2>2. Claimable(r) => row[r].attempts < MaxAttempts
    BY <2>1 DEF Claimable, WellFormed, OutboxRow
  <2>3. WellFormed(Ended(row[r])) /\ (Claimable(r) => WellFormed(ClaimedBy(row[r], w)))
    BY <2>1, <2>2, WritesWellFormed, QueueWritesWellFormed
  <2>4. row'[r] = Ended(row[r]) \/ (Claimable(r) /\ row'[r] = ClaimedBy(row[r], w))
        \/ row'[r] = row[r]
    BY DEF Claim
  <2> QED BY <2>1, <2>3, <2>4 DEF WellFormed
<1>2. CallsOK'
  BY DEF Claim, CallsOK, Call, Idle
<1> QED BY <1>1, <1>2 DEF Claim, SpentOK, OfferOK

LEMMA StartTyped ==
  ASSUME Typed, NEW w \in Worker, NEW r \in Row, UNCHANGED offerVars,
         ReleaseUnstarted(w, r) \/ StartRow(w, r)
  PROVE  Typed'
<1> USE TypedNow, TypedNext DEF offerVars
<1>1. CASE ReleaseUnstarted(w, r)
  <2>1. RowsOK'
    <3>1. WellFormed(row[r])
      BY DEF RowsOK
    <3>2. CASE Mine(w, r)
      <4>1. WellFormed(Released(row[r])) /\ row' = [row EXCEPT ![r] = Released(row[r])]
        BY <1>1, <3>1, <3>2, QueueWritesWellFormed DEF ReleaseUnstarted
      <4> QED BY <4>1, WriteKeepsRows
    <3>3. CASE ~Mine(w, r)
      BY <1>1, <3>3 DEF ReleaseUnstarted, RowsOK
    <3> QED BY <3>2, <3>3
  <2>2. CallsOK'
    BY <1>1, CallMoves DEF ReleaseUnstarted
  <2> QED BY <1>1, <2>1, <2>2 DEF ReleaseUnstarted, SpentOK, OfferOK
<1>2. CASE StartRow(w, r)
  <2>1. CallsOK'
    <3>1. "settling" \in Phases /\ "checked" \in Phases /\ "ready" \in Phases
      BY DEF Phases
    <3> QED BY <1>2, <3>1, CallMoves DEF StartRow
  <2> QED BY <1>2, <2>1 DEF StartRow, SpentOK, OfferOK, RowsOK
<1> QED BY <1>1, <1>2

LEMMA DeliveryTyped ==
  ASSUME Typed, NEW w \in Worker, UNCHANGED offerVars,
         \/ ProviderAccepts(w) \/ OutcomeLost(w) \/ ProviderRefuses(w) \/ AcceptanceNotRecorded(w)
         \/ SuccessWriteThrows(w)
  PROVE  Typed'
<1> USE TypedNow, TypedNext DEF offerVars
<1>0. /\ "accepted" \in Phases /\ "unknown" \in Phases /\ "refused" \in Phases
      /\ "recorded" \in Phases /\ "settling" \in Phases
  BY DEF Phases
<1>1. CASE ProviderAccepts(w) \/ OutcomeLost(w)
  <2>1. CallsOK'
    BY <1>0, <1>1, CallMoves DEF ProviderAccepts, OutcomeLost, Deliver
  <2>2. delivered' \in [Row -> Nat]
    BY <1>1, RowIsTyped DEF ProviderAccepts, OutcomeLost, Deliver
  <2> QED BY <1>1, <2>1, <2>2 DEF ProviderAccepts, OutcomeLost, Deliver, RowsOK, SpentOK, OfferOK
<1>2. CASE ProviderRefuses(w)
  BY <1>0, <1>2, CallMoves DEF ProviderRefuses, RowsOK, SpentOK, OfferOK
<1>3. CASE AcceptanceNotRecorded(w) \/ SuccessWriteThrows(w)
  <2>1. CallsOK' /\ SpentOK'
    BY <1>0, <1>3, CallMoves, FaultKeepsSpent DEF AcceptanceNotRecorded, SuccessWriteThrows
  <2> QED BY <1>3, <2>1 DEF AcceptanceNotRecorded, SuccessWriteThrows, RowsOK, OfferOK
<1> QED BY <1>1, <1>2, <1>3

LEMMA SettleTyped ==
  ASSUME Typed, NEW w \in Worker, UNCHANGED offerVars,
         \/ RecordAcceptance(w) \/ MarkSent(w) \/ SettleAccepted(w) \/ MarkFailed(w)
         \/ FinalizeIfAccepted(w) \/ SettleUnknown(w) \/ SettleFails(w) \/ UnknownNotRecorded(w)
  PROVE  Typed'
<1> USE TypedNow, TypedNext DEF offerVars
<1> DEFINE x == row[worker[w].row]
<1>0. worker[w].row \in Row /\ WellFormed(x)
  BY RowIsTyped DEF RecordAcceptance, MarkSent, SettleAccepted, MarkFailed, FinalizeIfAccepted,
                    SettleUnknown, SettleFails, UnknownNotRecorded
<1>1. /\ WellFormed(Sent(x)) /\ WellFormed(Held(x)) /\ WellFormed(Failed(x))
      /\ WellFormed(OutcomeUnknown(x)) /\ WellFormed(Abandoned(x, w))
      /\ WellFormed([x EXCEPT !.accepted = TRUE])
  BY <1>0, WritesWellFormed, QueueWritesWellFormed
<1>2. RowsOK'
  <2>1. \E y : WellFormed(y) /\ Writes(w, y)
    BY <1>1 DEF RecordAcceptance, MarkSent, SettleAccepted, MarkFailed, FinalizeIfAccepted,
                SettleUnknown, SettleFails, UnknownNotRecorded
  <2> QED BY <1>0, <2>1, WriteKeepsRows DEF Writes
<1>3. CallsOK'
  <2>1. "recorded" \in Phases
    BY DEF Phases
  <2> QED BY <2>1, CallMoves DEF RecordAcceptance, MarkSent, SettleAccepted, MarkFailed,
          FinalizeIfAccepted, SettleUnknown, SettleFails, UnknownNotRecorded
<1>4. SpentOK' /\ delivered' = delivered
  BY FaultKeepsSpent DEF RecordAcceptance, MarkSent, SettleAccepted, MarkFailed,
     FinalizeIfAccepted, SettleUnknown, SettleFails, UnknownNotRecorded, SpentOK
<1> QED BY <1>2, <1>3, <1>4 DEF OfferOK

LEMMA CrashTyped ==
  ASSUME Typed, NEW w \in Worker, Crash(w), UNCHANGED offerVars
  PROVE  Typed'
<1> USE TypedNow, TypedNext DEF offerVars
<1>1. RowsOK'
  <2> SUFFICES ASSUME NEW r \in Row
               PROVE  row'[r] \in OutboxRow /\ WellFormed(row'[r])
    BY DEF Crash, RowsOK
  <2> QED BY WritesWellFormed DEF Crash, RowsOK, WellFormed
<1>2. CallsOK'
  BY DEF Crash, CallsOK, Call, Idle, Phases
<1> QED BY <1>1, <1>2, FaultKeepsSpent DEF Crash, OfferOK

LEMMA RecruiterTyped ==
  ASSUME Typed,
         \/ SendReads \/ SendEnqueues \/ EditReads \/ EditChecks \/ Withdraw \/ CloseApplication
         \/ \E t \in Terms : EditWrites(t)
         \/ \E d \in {"accepted", "declined"} : Decide(d)
  PROVE  Typed'
<1> USE TypedNow, TypedNext DEF mailVars
<1>1. CASE SendReads
  <2>1. SpentOK'
    <3>1. /\ spent \in Spent /\ spent.retries <= spent.operator
          /\ spent.operator < MaxOperator /\ spent' = [spent EXCEPT !.operator = @ + 1]
      BY <1>1 DEF SendReads, SpentOK
    <3>2. spent.operator + 1 \in 0 .. MaxOperator /\ spent.retries <= spent.operator + 1
      BY <3>1 DEF Spent
    <3> QED BY <3>1, <3>2 DEF SpentOK, Spent
  <2> QED BY <1>1, <2>1 DEF SendReads, RowsOK, CallsOK, OfferOK
<1>2. CASE SendEnqueues
  <2>1. RowsOK'
    <3>1. PICK r \in OfferRow : row' = [row EXCEPT ![r] = Enqueued(row[r], TRUE)]
      BY <1>2 DEF SendEnqueues
    <3>2. r \in Row /\ WellFormed(Enqueued(row[r], TRUE))
      BY QueueWritesWellFormed DEF RowsOK
    <3> QED BY <3>1, <3>2, WriteKeepsRows
  <2> QED BY <1>2, <2>1 DEF SendEnqueues, CallsOK, SpentOK, OfferOK
<1>3. CASE EditReads \/ EditChecks \/ CloseApplication
  BY <1>3 DEF EditReads, EditChecks, CloseApplication, RowsOK, CallsOK, SpentOK, OfferOK
<1>4. CASE Withdraw \/ (\E t \in Terms : EditWrites(t))
           \/ (\E d \in {"accepted", "declined"} : Decide(d))
  <2>1. OfferOK'
    BY <1>4 DEF Withdraw, EditWrites, Decide, OfferBecomes, OfferOK
  <2> QED BY <1>4, <2>1 DEF Withdraw, EditWrites, Decide, RowsOK, CallsOK, SpentOK
<1> QED BY <1>1, <1>2, <1>3, <1>4

LEMMA DeliverOfferTyped ==
  ASSUME Typed, NEW w \in Worker, DeliverOffer(w)
  PROVE  Typed'
<1> USE TypedNow, TypedNext DEF offerVars
<1> DEFINE x == row[worker[w].row]
<1>1. CASE OfferChecked(w)
  <2>1. "ready" \in Phases
    BY DEF Phases
  <2> QED BY <1>1, <2>1, CallMoves DEF OfferChecked, RowsOK, SpentOK, OfferOK
<1>2. CASE Acknowledge(w) \/ NotDeliverable(w) \/ TermsChanged(w) \/ Extend(w)
  <2>1. worker[w].row \in Row /\ WellFormed(x)
    BY <1>2, RowIsTyped DEF Acknowledge, NotDeliverable, TermsChanged, Extend
  <2>2. WellFormed(Sent(x)) /\ WellFormed(Failed(x)) /\ WellFormed(Ended(x))
    BY <2>1, WritesWellFormed
  <2>3. RowsOK'
    <3>1. \E y : WellFormed(y) /\ Writes(w, y)
      BY <1>2, <2>2 DEF Acknowledge, NotDeliverable, TermsChanged, Extend, RowInHand
    <3> QED BY <2>1, <3>1, WriteKeepsRows DEF Writes
  <2>4. CallsOK'
    BY <1>2, CallMoves DEF Acknowledge, NotDeliverable, TermsChanged, Extend
  <2>5. OfferOK'
    BY <1>2 DEF Acknowledge, NotDeliverable, TermsChanged, Extend, OfferBecomes, OfferOK
  <2> QED BY <1>2, <2>3, <2>4, <2>5 DEF Acknowledge, NotDeliverable, TermsChanged, Extend, SpentOK
<1> QED BY <1>1, <1>2 DEF DeliverOffer

LEMMA StepTyped == Typed /\ [OfferMailNext]_offerMailVars => Typed'
<1> SUFFICES ASSUME Typed, [OfferMailNext]_offerMailVars PROVE Typed'
  OBVIOUS
<1>1. CASE MailStep /\ UNCHANGED offerVars
  BY <1>1, QueueTyped, ClaimTyped, StartTyped, DeliveryTyped, SettleTyped, CrashTyped
     DEF MailStep, WorkerStep, WorkerFault
<1>2. CASE \E w \in Worker : DeliverOffer(w)
  BY <1>2, DeliverOfferTyped
<1>3. CASE UNCHANGED offerMailVars
  BY <1>3, TypedNow, TypedNext
     DEF offerMailVars, mailVars, offerVars, RowsOK, CallsOK, SpentOK, OfferOK
<1> QED BY <1>1, <1>2, <1>3, RecruiterTyped DEF OfferMailNext

\* Every row, call and offer is well formed, no claim exceeds the attempt limit
\* (processEmailOutbox, markFailed) and a pending row always has an attempt left.
THEOREM OutboxTyped == OfferMailSpec => [](OfferMailTypeOK /\ PendingHasAttempt)
<1>1. OfferMailSpec => []Typed
  BY InitTyped, StepTyped, PTL DEF OfferMailSpec
<1>2. Typed => OfferMailTypeOK /\ PendingHasAttempt
  BY DEF Typed
<1> QED BY <1>1, <1>2, PTL

-----------------------------------------------------------------------------
(* Deliveries are paid for: what one step does to the potential of a row.  *)

Budget == spent.faults + spent.retries
Open(r) == IF Unclaimed(r) THEN 1 ELSE 0

LEMMA WorkerSets ==
  /\ \A S \in SUBSET Worker : IsFiniteSet(S) /\ Cardinality(S) \in Nat
  /\ \A S \in SUBSET Worker : \A T \in SUBSET S : Cardinality(T) <= Cardinality(S)
  /\ \A S \in SUBSET Worker : \A w \in S : \A T \in SUBSET (S \ {w}) :
       Cardinality(T) + 1 <= Cardinality(S)
  /\ \A S \in SUBSET Worker : \A w \in Worker : \A T \in SUBSET (S \cup {w}) :
       Cardinality(T) <= Cardinality(S) + 1
<1>1. \A S \in SUBSET Worker : IsFiniteSet(S) /\ Cardinality(S) \in Nat
  BY FS_Subset, FS_CardinalityType
<1>2. \A S \in SUBSET Worker : \A T \in SUBSET S : Cardinality(T) <= Cardinality(S)
  BY <1>1, FS_Subset
<1>3. \A S \in SUBSET Worker : \A w \in S : \A T \in SUBSET (S \ {w}) :
        Cardinality(T) + 1 <= Cardinality(S)
  <2> SUFFICES ASSUME NEW S \in SUBSET Worker, NEW w \in S, NEW T \in SUBSET (S \ {w})
               PROVE  Cardinality(T) + 1 <= Cardinality(S)
    OBVIOUS
  <2>1. Cardinality(S \ {w}) = Cardinality(S) - 1
    BY <1>1, FS_RemoveElement
  <2>2. Cardinality(T) <= Cardinality(S \ {w})
    BY <1>2
  <2>3. Cardinality(T) \in Nat /\ Cardinality(S) \in Nat
    BY <1>1
  <2> QED BY <2>1, <2>2, <2>3
<1>4. \A S \in SUBSET Worker : \A w \in Worker : \A T \in SUBSET (S \cup {w}) :
        Cardinality(T) <= Cardinality(S) + 1
  <2> SUFFICES ASSUME NEW S \in SUBSET Worker, NEW w \in Worker, NEW T \in SUBSET (S \cup {w})
               PROVE  Cardinality(T) <= Cardinality(S) + 1
    OBVIOUS
  <2>1. Cardinality(S \cup {w}) <= Cardinality(S) + 1
    BY <1>1, FS_AddElement
  <2>2. Cardinality(T) <= Cardinality(S \cup {w})
    BY <1>2
  <2>3. Cardinality(T) \in Nat /\ Cardinality(S) \in Nat /\ Cardinality(S \cup {w}) \in Nat
    BY <1>1
  <2> QED BY <2>1, <2>2, <2>3
<1> QED BY <1>1, <1>2, <1>3, <1>4

\* The step adds at most one to one term, at the cost of another or of the budget.
LEMMA PaidStep ==
  ASSUME Typed, Typed', NEW r \in Row, Paid(r), NEW w \in Worker \cup {None},
         \/ /\ Engaged(r)' \subseteq Engaged(r) /\ AboutToStart(r)' \subseteq AboutToStart(r)
            /\ delivered'[r] + Open(r)' + Budget <= delivered[r] + Open(r) + Budget'
         \/ /\ w \in Engaged(r) /\ Engaged(r)' \subseteq Engaged(r) \ {w}
            /\ AboutToStart(r)' \subseteq AboutToStart(r)
            /\ delivered'[r] + Open(r)' + Budget <= delivered[r] + Open(r) + Budget' + 1
         \/ /\ w \in AboutToStart(r) /\ AboutToStart(r)' \subseteq AboutToStart(r) \ {w}
            /\ \/ Engaged(r)' \subseteq Engaged(r)
                 /\ delivered'[r] + Open(r)' + Budget <= delivered[r] + Open(r) + Budget' + 1
               \/ Engaged(r)' \subseteq Engaged(r) \cup {w}
                 /\ delivered'[r] + Open(r)' + Budget <= delivered[r] + Open(r) + Budget'
         \/ /\ w \in Worker /\ AboutToStart(r)' \subseteq AboutToStart(r) \cup {w}
            /\ Engaged(r)' \subseteq Engaged(r)
            /\ delivered'[r] + Open(r)' + Budget + 1 <= delivered[r] + Open(r) + Budget'
  PROVE  Paid(r)'
<1> DEFINE e == Cardinality(Engaged(r))
           f == Cardinality(Engaged(r)')
           a == Cardinality(AboutToStart(r))
           b == Cardinality(AboutToStart(r)')
<1>1. /\ Engaged(r) \in SUBSET Worker /\ AboutToStart(r) \in SUBSET Worker
      /\ Engaged(r)' \in SUBSET Worker /\ AboutToStart(r)' \in SUBSET Worker
  BY DEF Engaged, AboutToStart
<1>2. e \in Nat /\ a \in Nat /\ f \in Nat /\ b \in Nat
  BY <1>1, WorkerSets
<1>3. /\ delivered[r] \in Nat /\ delivered'[r] \in Nat /\ Open(r) \in Nat /\ Open(r)' \in Nat
      /\ Budget \in Nat /\ Budget' \in Nat
  <2>1. delivered[r] \in Nat /\ delivered'[r] \in Nat /\ spent \in Spent /\ spent' \in Spent
    BY DEF Typed, OfferMailTypeOK, MailTypeOK
  <2>2. Budget \in Nat /\ Budget' \in Nat
    BY <2>1 DEF Budget, Spent
  <2>3. Open(r) \in Nat /\ Open(r)' \in Nat
    BY DEF Open
  <2> QED BY <2>1, <2>2, <2>3
<1>4. f + b + delivered'[r] + Open(r)' + Budget <= e + a + delivered[r] + Open(r) + Budget'
  <2>1. Engaged(r)' \subseteq Engaged(r) => f <= e
    BY <1>1, WorkerSets
  <2>2. AboutToStart(r)' \subseteq AboutToStart(r) => b <= a
    BY <1>1, WorkerSets
  <2>3. w \in Engaged(r) /\ Engaged(r)' \subseteq Engaged(r) \ {w} => f + 1 <= e
    BY <1>1, WorkerSets
  <2>4. w \in AboutToStart(r) /\ AboutToStart(r)' \subseteq AboutToStart(r) \ {w} => b + 1 <= a
    BY <1>1, WorkerSets
  <2>5. w \in Worker /\ Engaged(r)' \subseteq Engaged(r) \cup {w} => f <= e + 1
    BY <1>1, WorkerSets
  <2>6. w \in Worker /\ AboutToStart(r)' \subseteq AboutToStart(r) \cup {w} => b <= a + 1
    BY <1>1, WorkerSets
  <2>7. w \in AboutToStart(r) => w \in Worker
    BY <1>1
  <2> HIDE DEF e, f, a, b, Open, Budget
  <2> QED BY <1>2, <1>3, <2>1, <2>2, <2>3, <2>4, <2>5, <2>6, <2>7
<1>5. Paid(r) <=> delivered[r] + e + a + Open(r) <= 1 + Budget
  <2>1. spent \in Spent
    BY DEF Typed, OfferMailTypeOK, MailTypeOK
  <2> QED BY <1>2, <1>3, <2>1 DEF Paid, Open, Budget, Spent
<1>6. Paid(r)' <=> delivered'[r] + f + b + Open(r)' <= 1 + Budget'
  <2>1. spent' \in Spent
    BY DEF Typed, OfferMailTypeOK, MailTypeOK
  <2> QED BY <1>2, <1>3, <2>1 DEF Paid, Open, Budget, Spent
<1> HIDE DEF e, f, a, b
<1> QED BY <1>2, <1>3, <1>4, <1>5, <1>6

LEMMA BudgetFacts ==
  ASSUME Typed, Typed'
  PROVE  /\ Budget \in Nat /\ Budget' \in Nat
         /\ \A r \in Row : delivered[r] \in Nat /\ delivered'[r] \in Nat
         /\ \A r : Open(r) \in 0 .. 1 /\ Open(r)' \in 0 .. 1
         /\ spent' = spent => Budget' = Budget
         /\ Fault => Budget' = Budget + 1
<1>1. spent \in Spent /\ spent' \in Spent
  BY DEF Typed, OfferMailTypeOK, MailTypeOK
<1>2. Budget \in Nat /\ Budget' \in Nat
  BY <1>1 DEF Budget, Spent
<1>3. \A r \in Row : delivered[r] \in Nat /\ delivered'[r] \in Nat
  BY DEF Typed, OfferMailTypeOK, MailTypeOK
<1>4. \A r : Open(r) \in 0 .. 1 /\ Open(r)' \in 0 .. 1
  BY DEF Open
<1>5. Fault => Budget' = Budget + 1
  BY <1>1 DEF Fault, Budget, Spent
<1> QED BY <1>2, <1>3, <1>4, <1>5 DEF Budget

\* The rows a step leaves alone, and calls that do not reach them.
LEMMA Untouched ==
  ASSUME Typed, Typed', NEW q \in Row, Paid(q),
         row'[q] = row[q], delivered'[q] = delivered[q], Budget <= Budget',
         Engaged(q)' \subseteq Engaged(q), AboutToStart(q)' \subseteq AboutToStart(q)
  PROVE  Paid(q)'
<1>1. Open(q)' = Open(q)
  BY DEF Open, Unclaimed, Resettable
<1>2. delivered'[q] + Open(q)' + Budget <= delivered[q] + Open(q) + Budget'
  BY <1>1, BudgetFacts
<1>3. None \in Worker \cup {None}
  OBVIOUS
<1> QED BY <1>2, <1>3, PaidStep

\* What a worker's step does to the workers at a row that is not in its hands.
LEMMA OtherRows ==
  ASSUME Typed, NEW w \in Worker, NEW q \in Row, row'[q] = row[q],
         \/ Finishes(w)
         \/ (\E phase \in Phases : Moves(w, phase)) /\ worker[w].row # q
         \/ worker' = worker
  PROVE  Engaged(q)' \subseteq Engaged(q) /\ AboutToStart(q)' \subseteq AboutToStart(q)
<1>0. worker \in [Worker -> Call]
  BY TypedNow DEF CallsOK
<1>1. \A v \in Worker : worker'[v].batch = worker[v].batch
  BY <1>0 DEF Finishes, Moves, Call
<1>2. AboutToStart(q)' \subseteq AboutToStart(q)
  BY <1>1 DEF AboutToStart
<1>3. ASSUME NEW v \in Engaged(q)' PROVE v \in Engaged(q)
  <2>1. v \in Worker /\ worker'[v].row = q /\ worker'[v].phase \in {"checked", "ready", "refused"}
    BY <1>3 DEF Engaged
  <2>2. v = w => worker' = worker
    BY <1>0, <2>1 DEF Finishes, Moves, Call
  <2>3. worker'[v] = worker[v]
    BY <1>0, <2>1, <2>2 DEF Finishes, Moves
  <2> QED BY <2>1, <2>3 DEF Engaged
<1> QED BY <1>2, <1>3

\* A worker is done with the row in its hands.
LEMMA OwnRow ==
  ASSUME Typed, NEW w \in Worker, NEW r \in Row, Finishes(w), worker[w].row = r,
         \A v \in Worker : Mine(v, r)' => Mine(v, r)
  PROVE  /\ Engaged(r)' \subseteq Engaged(r) \ {w}
         /\ AboutToStart(r)' \subseteq AboutToStart(r)
<1>0. worker \in [Worker -> Call]
  BY TypedNow DEF CallsOK
<1>1. \A v \in Worker : worker'[v].batch = worker[v].batch /\ (v # w => worker'[v] = worker[v])
  BY <1>0 DEF Finishes, Call
<1>2. worker'[w].phase = "between"
  BY <1>0 DEF Finishes, Call
<1>3. AboutToStart(r)' \subseteq AboutToStart(r)
  BY <1>1 DEF AboutToStart
<1>4. Engaged(r)' \subseteq Engaged(r) \ {w}
  BY <1>1, <1>2 DEF Engaged
<1> QED BY <1>3, <1>4

\* A settling write: nobody holds the row afterwards, and it is open again only if the
\* worker was engaged with it or a fault paid for that.
LEMMA SettledPaid ==
  ASSUME Typed, Typed', PotentialPaid, NEW w \in Worker, NEW r \in Row, worker[w].row = r,
         NEW x \in OutboxRow, row' = [row EXCEPT ![r] = x], Finishes(w), delivered' = delivered,
         \A v \in Worker : x.status = "processing" /\ x.owner = v => Mine(v, r),
         \/ spent' = spent /\ (Unclaimed(r)' => w \in Engaged(r) \/ Unclaimed(r))
         \/ Fault
  PROVE  PotentialPaid'
<1>0. row \in [Row -> OutboxRow]
  BY TypedNow DEF RowsOK
<1> SUFFICES ASSUME NEW q \in Row PROVE Paid(q)'
  BY DEF PotentialPaid
<1>1. Budget <= Budget' /\ Paid(q)
  BY BudgetFacts DEF PotentialPaid
<1>2. CASE q # r
  BY <1>0, <1>1, <1>2, OtherRows, Untouched
<1>3. CASE q = r
  <2>1. \A v \in Worker : Mine(v, r)' => Mine(v, r)
    BY <1>0
  <2>2. Engaged(r)' \subseteq Engaged(r) \ {w} /\ AboutToStart(r)' \subseteq AboutToStart(r)
    BY <2>1, OwnRow
  <2>3. CASE w \in Engaged(r)
    <3>1. delivered'[r] + Open(r)' + Budget <= delivered[r] + Open(r) + Budget' + 1
      <4>1. /\ Budget \in Nat /\ Budget' \in Nat /\ delivered[r] \in Nat
            /\ Open(r) \in 0 .. 1 /\ Open(r)' \in 0 .. 1
        BY BudgetFacts
      <4> QED BY <1>1, <4>1
    <3> QED BY <1>1, <1>3, <2>2, <2>3, <3>1, PaidStep
  <2>4. CASE w \notin Engaged(r)
    <3>1. delivered'[r] + Open(r)' + Budget <= delivered[r] + Open(r) + Budget'
      <4>1. CASE Fault
        BY <4>1, BudgetFacts
      <4>2. CASE spent' = spent
        <5>1. CASE Fault
          BY <5>1, BudgetFacts
        <5>2. CASE ~Fault
          BY <2>4, <4>2, <5>2, BudgetFacts DEF Open
        <5> QED BY <5>1, <5>2
      <4> QED BY <4>1, <4>2
    <3>2. Engaged(r)' \subseteq Engaged(r)
      BY <2>2
    <3> QED BY <1>1, <1>3, <2>2, <3>1, <3>2, PaidStep
  <2> QED BY <2>3, <2>4
<1> QED BY <1>2, <1>3

-----------------------------------------------------------------------------
(* One lemma per group of actions.                                         *)

LEMMA SettlePaid ==
  ASSUME Typed, Typed', PotentialPaid, NEW w \in Worker,
         \/ MarkSent(w) \/ SettleAccepted(w) \/ MarkFailed(w)
         \/ FinalizeIfAccepted(w) \/ SettleUnknown(w) \/ SettleFails(w) \/ UnknownNotRecorded(w)
         \/ Acknowledge(w) \/ NotDeliverable(w) \/ TermsChanged(w) \/ Extend(w)
  PROVE  PotentialPaid'
<1> USE DEF RowInHand
<1>0. worker[w].row \in Row /\ WellFormed(row[worker[w].row])
  BY TypedNow, RowIsTyped DEF MarkSent, SettleAccepted, MarkFailed, FinalizeIfAccepted,
     SettleUnknown, SettleFails, UnknownNotRecorded, Acknowledge, NotDeliverable, TermsChanged,
     Extend
<1> PICK r \in Row : r = worker[w].row
  BY <1>0
<1> PICK x : x = row[r]
  OBVIOUS
<1>1. WellFormed(x)
  BY <1>0
<1>2. row \in [Row -> OutboxRow] /\ row' \in [Row -> OutboxRow]
  BY DEF Typed, OfferMailTypeOK, MailTypeOK
<1>3. Finishes(w) /\ delivered' = delivered
  BY DEF MarkSent, SettleAccepted, MarkFailed, FinalizeIfAccepted, SettleUnknown, SettleFails,
     UnknownNotRecorded, Acknowledge, NotDeliverable, TermsChanged, Extend
<1>4. CASE MarkSent(w) \/ SettleAccepted(w) \/ FinalizeIfAccepted(w) \/ SettleUnknown(w)
           \/ Acknowledge(w) \/ Extend(w)
  <2>1. PICK y \in {Sent(x), OutcomeUnknown(x)} : row' = [row EXCEPT ![r] = y]
    BY <1>4 DEF MarkSent, SettleAccepted, FinalizeIfAccepted, SettleUnknown, Acknowledge, Extend,
       Writes
  <2>2. /\ y \in OutboxRow /\ y.status \in {"sent", "failed"}
        /\ y.status = "failed" => y.unknown
    BY <1>1, <2>1 DEF WellFormed, OutboxRow, Statuses, Sent, OutcomeUnknown, Unlocked
  <2>3. ~Unclaimed(r)'
    BY <1>1, <1>2, <2>1, <2>2 DEF Unclaimed, Resettable
  <2>4. spent' = spent
    BY <1>4 DEF MarkSent, SettleAccepted, FinalizeIfAccepted, SettleUnknown, Acknowledge, Extend
  <2> QED BY <1>1, <1>3, <2>1, <2>2, <2>3, <2>4, SettledPaid
<1>5. CASE MarkFailed(w) \/ NotDeliverable(w) \/ TermsChanged(w)
  <2>1. PICK y \in {Failed(x), Ended(x)} : row' = [row EXCEPT ![r] = y]
    BY <1>5 DEF MarkFailed, NotDeliverable, TermsChanged, Writes
  <2>2. y.status \in {"pending", "failed"}
    BY <1>1, <2>1 DEF WellFormed, OutboxRow, Failed, Ended, Unlocked
  <2>3. y \in OutboxRow
    BY <1>1, <2>1, WritesWellFormed DEF WellFormed
  <2>4. w \in Engaged(r)
    BY <1>5 DEF MarkFailed, NotDeliverable, TermsChanged, InHand, Engaged
  <2>5. spent' = spent
    BY <1>5 DEF MarkFailed, NotDeliverable, TermsChanged
  <2> QED BY <1>1, <1>3, <2>1, <2>2, <2>3, <2>4, <2>5, SettledPaid
<1>6. CASE SettleFails(w) \/ UnknownNotRecorded(w)
  <2>1. PICK y \in {Held(x), Abandoned(x, w)} : row' = [row EXCEPT ![r] = y]
    BY <1>6 DEF SettleFails, UnknownNotRecorded, Writes
  <2>2. y \in OutboxRow
    BY <1>1, <2>1, WritesWellFormed DEF WellFormed
  <2>3. \A v \in Worker : y.status = "processing" /\ y.owner = v => Mine(v, r)
    BY <1>1, <2>1 DEF WellFormed, OutboxRow, Held, Abandoned, Unlocked
  <2>4. Fault
    BY <1>6 DEF SettleFails, UnknownNotRecorded
  <2>5. worker[w].row = r
    OBVIOUS
  <2> HIDE DEF Mine
  <2> QED BY ONLY Typed, Typed', PotentialPaid, w \in Worker, r \in Row,
                  <1>3, <2>1, <2>2, <2>3, <2>4, <2>5, SettledPaid
<1> QED BY <1>4, <1>5, <1>6

LEMMA DeliveryPaid ==
  ASSUME Typed, Typed', PotentialPaid, NEW w \in Worker,
         \/ ProviderAccepts(w) \/ OutcomeLost(w) \/ ProviderRefuses(w) \/ AcceptanceNotRecorded(w)
         \/ SuccessWriteThrows(w) \/ OfferChecked(w) \/ RecordAcceptance(w)
  PROVE  PotentialPaid'
<1>0. worker[w].row \in Row
  BY TypedNow, RowIsTyped DEF ProviderAccepts, OutcomeLost, ProviderRefuses, AcceptanceNotRecorded,
     SuccessWriteThrows, OfferChecked, RecordAcceptance, Deliver
<1> PICK r \in Row : r = worker[w].row
  BY <1>0
<1>1. row \in [Row -> OutboxRow] /\ worker \in [Worker -> Call]
  BY TypedNow DEF RowsOK, CallsOK
<1>2. PICK phase \in Phases : Moves(w, phase)
  BY DEF ProviderAccepts, OutcomeLost, ProviderRefuses, AcceptanceNotRecorded,
     SuccessWriteThrows, OfferChecked, RecordAcceptance, Deliver, Phases
<1>3. \A q \in Row : q # r => row'[q] = row[q] /\ delivered'[q] = delivered[q]
  BY <1>1 DEF ProviderAccepts, OutcomeLost, ProviderRefuses, AcceptanceNotRecorded,
     SuccessWriteThrows, OfferChecked, RecordAcceptance, Deliver, Writes, Typed, OfferMailTypeOK,
     MailTypeOK
<1>4. spent' = spent \/ Fault
  BY DEF ProviderAccepts, OutcomeLost, ProviderRefuses, AcceptanceNotRecorded,
     SuccessWriteThrows, OfferChecked, RecordAcceptance, Deliver
<1> SUFFICES ASSUME NEW q \in Row PROVE Paid(q)'
  BY DEF PotentialPaid
<1>5. Paid(q) /\ Budget <= Budget'
  BY <1>4, BudgetFacts DEF PotentialPaid
<1>6. CASE q # r
  BY <1>1, <1>2, <1>3, <1>5, <1>6, OtherRows, Untouched
<1>7. CASE q = r
  <2>1. \A v \in Worker : worker'[v].batch = worker[v].batch /\ (v # w => worker'[v] = worker[v])
    BY <1>1, <1>2 DEF Moves, Call
  <2>2. worker'[w].row = r /\ worker'[w].phase = phase
    BY <1>1, <1>2 DEF Moves, Call
  <2>3. row'[r] = row[r] \/ row'[r] = [row[r] EXCEPT !.accepted = TRUE]
    BY <1>1 DEF ProviderAccepts, OutcomeLost, ProviderRefuses, AcceptanceNotRecorded,
       SuccessWriteThrows, OfferChecked, RecordAcceptance, Deliver, Writes
  <2>4. \A v \in Worker : Mine(v, r)' => Mine(v, r)
    BY <1>1, <2>3 DEF OutboxRow
  <2>5. AboutToStart(r)' \subseteq AboutToStart(r)
    BY <2>1, <2>4 DEF AboutToStart
  <2>6. Open(r)' <= Open(r)
    BY <1>1, <2>3 DEF Open, Unclaimed, Resettable, OutboxRow
  <2>7. /\ delivered[r] \in Nat /\ Budget \in Nat /\ Budget' \in Nat
        /\ Open(r) \in 0 .. 1 /\ Open(r)' \in 0 .. 1
    BY <1>1, BudgetFacts
  <2>8. CASE ProviderAccepts(w) \/ OutcomeLost(w)
    <3>1. w \in Engaged(r) /\ phase \in {"accepted", "unknown"}
      BY <1>1, <1>2, <2>2, <2>8 DEF ProviderAccepts, OutcomeLost, Deliver, InHand, Engaged, Moves,
         Call
    <3>2. Engaged(r)' \subseteq Engaged(r) \ {w}
      BY <2>1, <2>2, <3>1 DEF Engaged
    <3>3. delivered'[r] = delivered[r] + 1
      BY <1>1, <2>8 DEF ProviderAccepts, OutcomeLost, Deliver, Typed, OfferMailTypeOK, MailTypeOK
    <3>4. delivered'[r] + Open(r)' + Budget <= delivered[r] + Open(r) + Budget' + 1
      BY <1>5, <2>6, <2>7, <3>3
    <3> QED BY <1>5, <1>7, <2>5, <3>1, <3>2, <3>4, PaidStep
  <2>9. CASE ~(ProviderAccepts(w) \/ OutcomeLost(w))
    <3>1. Engaged(r)' \subseteq Engaged(r)
      <4>1. phase \in {"ready", "refused"} => w \in Engaged(r)
        BY <1>1, <1>2, <2>2, <2>9 DEF ProviderRefuses, AcceptanceNotRecorded,
           SuccessWriteThrows, OfferChecked, RecordAcceptance, InHand, Engaged, Moves, Call
      <4>2. phase # "checked"
        BY <1>1, <1>2, <2>2, <2>9 DEF ProviderRefuses, AcceptanceNotRecorded,
           SuccessWriteThrows, OfferChecked, RecordAcceptance, Moves, Call
      <4> QED BY <2>1, <2>2, <4>1, <4>2 DEF Engaged
    <3>2. delivered' = delivered
      BY <2>9 DEF ProviderRefuses, AcceptanceNotRecorded, SuccessWriteThrows, OfferChecked,
         RecordAcceptance
    <3>3. delivered'[r] + Open(r)' + Budget <= delivered[r] + Open(r) + Budget'
      BY <1>5, <2>6, <2>7, <3>2
    <3>4. None \in Worker \cup {None}
      OBVIOUS
    <3> QED BY <1>5, <1>7, <2>5, <3>1, <3>3, <3>4, PaidStep
  <2> QED BY <2>8, <2>9
<1> QED BY <1>6, <1>7

\* A write of one row that no worker's step makes: no worker gains from it, and it opens
\* a closed row only at a price.
LEMMA QueueWritePaid ==
  ASSUME Typed, Typed', PotentialPaid, NEW r \in Row, NEW x, row' = [row EXCEPT ![r] = x],
         worker' = worker, delivered' = delivered,
         \A v \in Worker : Mine(v, r)' => Mine(v, r),
         \/ Budget' = Budget /\ (Unclaimed(r)' => Unclaimed(r))
         \/ Budget' = Budget + 1
  PROVE  PotentialPaid'
<1>0. row \in [Row -> OutboxRow]
  BY TypedNow DEF RowsOK
<1> SUFFICES ASSUME NEW q \in Row PROVE Paid(q)'
  BY DEF PotentialPaid
<1>1. Budget <= Budget' /\ Paid(q)
  BY BudgetFacts DEF PotentialPaid
<1>2. Engaged(q)' = Engaged(q)
  BY DEF Engaged
<1>3. AboutToStart(q)' \subseteq AboutToStart(q)
  BY <1>0 DEF AboutToStart
<1>4. /\ Budget \in Nat /\ Budget' \in Nat /\ delivered[q] \in Nat
      /\ Open(q) \in 0 .. 1 /\ Open(q)' \in 0 .. 1
  BY BudgetFacts
<1>5. Budget' = Budget => Open(q)' <= Open(q)
  <2>1. CASE q = r
    BY <1>4, <2>1 DEF Open
  <2>2. CASE q # r
    BY <1>0, <1>4, <2>2 DEF Open, Unclaimed, Resettable
  <2> QED BY <2>1, <2>2
<1>6. delivered'[q] + Open(q)' + Budget <= delivered[q] + Open(q) + Budget'
  BY <1>1, <1>4, <1>5
<1>7. None \in Worker \cup {None}
  OBVIOUS
<1> QED BY <1>1, <1>2, <1>3, <1>6, <1>7, PaidStep

LEMMA QueuePaid ==
  ASSUME Typed, Typed', PotentialPaid, NEW r \in Row,
         \/ EnqueuePlain(r) \/ RetryDelivery(r) \/ CancelDelivery(r) \/ LockExpires(r)
         \/ (r \in OfferRow /\ SendEnqueues /\ row' = [row EXCEPT ![r] = Enqueued(row[r], TRUE)])
  PROVE  PotentialPaid'
<1>0. row \in [Row -> OutboxRow] /\ WellFormed(row[r])
  BY TypedNow DEF RowsOK
<1>1. CASE EnqueuePlain(r) \/ (SendEnqueues /\ row' = [row EXCEPT ![r] = Enqueued(row[r], TRUE)])
  <2>1. PICK reset \in BOOLEAN : row' = [row EXCEPT ![r] = Enqueued(row[r], reset)]
    BY <1>1 DEF EnqueuePlain
  <2>2. \A v \in Worker : Mine(v, r)' => Mine(v, r)
    BY <1>0, <2>1 DEF Enqueued, Requeued, Unlocked, OutboxRow
  <2>3. Unclaimed(r)' => Unclaimed(r)
    BY <1>0, <2>1 DEF Enqueued, Unclaimed, Resettable, OutboxRow
  <2>4. Budget' = Budget /\ worker' = worker /\ delivered' = delivered
    BY <1>1 DEF EnqueuePlain, SendEnqueues, Budget
  <2> QED BY <2>1, <2>2, <2>3, <2>4, QueueWritePaid
<1>2. CASE RetryDelivery(r)
  <2>1. row' = [row EXCEPT ![r] = Requeued(row[r])]
    BY <1>2 DEF RetryDelivery
  <2>2. \A v \in Worker : Mine(v, r)' => Mine(v, r)
    BY <1>0, <2>1 DEF Requeued, Unlocked, OutboxRow
  <2>3. Budget' = Budget + 1 /\ worker' = worker /\ delivered' = delivered
    <3>1. spent \in Spent /\ spent' = [spent EXCEPT !.operator = @ + 1, !.retries = @ + 1]
      BY <1>2, TypedNow DEF RetryDelivery, SpentOK
    <3>2. spent'.faults = spent.faults /\ spent'.retries = spent.retries + 1
      BY <3>1 DEF Spent
    <3> QED BY <1>2, <3>1, <3>2 DEF RetryDelivery, Budget, Spent
  <2> QED BY <2>1, <2>2, <2>3, QueueWritePaid
<1>3. CASE CancelDelivery(r)
  <2>1. row' = [row EXCEPT ![r] = Cancelled(row[r])]
    BY <1>3 DEF CancelDelivery
  <2>2. \A v \in Worker : Mine(v, r)' => Mine(v, r)
    BY <1>0, <2>1 DEF Cancelled, Unlocked, OutboxRow
  <2>3. Unclaimed(r)' => Unclaimed(r)
    BY <1>0, <1>3, <2>1 DEF CancelDelivery, Cancelled, Unlocked, Unclaimed, Resettable, OutboxRow
  <2>4. Budget' = Budget /\ worker' = worker /\ delivered' = delivered
    <3>1. spent \in Spent /\ spent' = [spent EXCEPT !.operator = @ + 1]
      BY <1>3, TypedNow DEF CancelDelivery, SpentOK
    <3>2. spent'.faults = spent.faults /\ spent'.retries = spent.retries
      BY <3>1 DEF Spent
    <3> QED BY <1>3, <3>2 DEF CancelDelivery, Budget
  <2> QED BY <2>1, <2>2, <2>3, <2>4, QueueWritePaid
<1>4. CASE LockExpires(r)
  <2>1. row' = [row EXCEPT ![r] = [row[r] EXCEPT !.stale = TRUE]]
    BY <1>4 DEF LockExpires
  <2>2. \A v \in Worker : Mine(v, r)' => Mine(v, r)
    BY <1>0, <2>1 DEF OutboxRow
  <2>3. \/ Budget' = Budget /\ (Unclaimed(r)' => Unclaimed(r))
        \/ Budget' = Budget + 1
    <3>1. CASE row[r].owner = Lost
      BY <1>0, <1>4, <2>1, <3>1 DEF LockExpires, Budget, Unclaimed, Resettable, OutboxRow
    <3>2. CASE row[r].owner # Lost
      BY <1>4, <3>2, BudgetFacts DEF LockExpires
    <3> QED BY <3>1, <3>2
  <2>4. worker' = worker /\ delivered' = delivered
    BY <1>4 DEF LockExpires
  <2> QED BY <2>1, <2>2, <2>3, <2>4, QueueWritePaid
<1> QED BY <1>1, <1>2, <1>3, <1>4

LEMMA CrashPaid ==
  ASSUME Typed, Typed', PotentialPaid, NEW w \in Worker, Crash(w)
  PROVE  PotentialPaid'
<1>0. row \in [Row -> OutboxRow] /\ worker \in [Worker -> Call]
  BY TypedNow DEF RowsOK, CallsOK
<1> SUFFICES ASSUME NEW q \in Row PROVE Paid(q)'
  BY DEF PotentialPaid
<1>1. row'[q] = Abandoned(row[q], w) /\ delivered' = delivered /\ Fault
  BY DEF Crash
<1>2. \A v \in Worker : worker'[v] = IF v = w THEN Idle ELSE worker[v]
  BY <1>0 DEF Crash
<1>3. Engaged(q)' \subseteq Engaged(q)
  BY <1>2 DEF Engaged, Idle
<1>4. \A v \in Worker : Mine(v, q)' => Mine(v, q)
  BY <1>0, <1>1 DEF Abandoned, OutboxRow
<1>5. AboutToStart(q)' \subseteq AboutToStart(q)
  BY <1>2, <1>4 DEF AboutToStart, Idle
<1>6. /\ Budget \in Nat /\ Budget' = Budget + 1 /\ delivered[q] \in Nat
      /\ Open(q) \in 0 .. 1 /\ Open(q)' \in 0 .. 1
  BY <1>1, BudgetFacts
<1>7. delivered'[q] + Open(q)' + Budget <= delivered[q] + Open(q) + Budget'
  BY <1>1, <1>6
<1>8. None \in Worker \cup {None} /\ Paid(q)
  BY DEF PotentialPaid
<1> QED BY <1>3, <1>5, <1>7, <1>8, PaidStep

LEMMA ClaimPaid ==
  ASSUME Typed, Typed', PotentialPaid, NEW w \in Worker, NEW scope \in SUBSET Row, Claim(w, scope)
  PROVE  PotentialPaid'
<1>0. row \in [Row -> OutboxRow] /\ worker \in [Worker -> Call]
  BY TypedNow DEF RowsOK, CallsOK
<1> SUFFICES ASSUME NEW q \in Row PROVE Paid(q)'
  BY DEF PotentialPaid
<1>1. delivered' = delivered /\ spent' = spent
  BY DEF Claim
<1>2. \A v \in Worker : /\ worker'[v].row = worker[v].row /\ worker'[v].phase = worker[v].phase
                         /\ worker'[v].batch = IF v = w THEN {r \in scope : Claimable(r)}
                                               ELSE worker[v].batch
  BY <1>0 DEF Claim, Call
<1>3. worker[w].batch = {}
  BY DEF Claim, Idle
<1>4. Engaged(q)' \subseteq Engaged(q)
  BY <1>2 DEF Engaged
<1>5. /\ Budget \in Nat /\ Budget' = Budget /\ delivered[q] \in Nat
      /\ Open(q) \in 0 .. 1 /\ Open(q)' \in 0 .. 1
  BY <1>1, BudgetFacts
<1>6. Paid(q) /\ None \in Worker \cup {None}
  BY DEF PotentialPaid
<1>7. CASE q \in scope /\ Claimable(q)
  <2>1. row'[q] = ClaimedBy(row[q], w)
    BY <1>7 DEF Claim, Claimable, Exhausted, Typed, OfferMailTypeOK, MailTypeOK, OutboxRow
  <2>2. Unclaimed(q) /\ ~Unclaimed(q)'
    BY <1>0, <1>7, <2>1 DEF Claimable, Unclaimed, ClaimedBy, Resettable, OutboxRow
  <2>3. Open(q) = 1 /\ Open(q)' = 0
    BY <2>2 DEF Open
  <2>4. AboutToStart(q)' \subseteq AboutToStart(q) \cup {w}
    BY <1>0, <2>1 DEF AboutToStart, ClaimedBy, OutboxRow
  <2>5. delivered'[q] + Open(q)' + Budget + 1 <= delivered[q] + Open(q) + Budget'
    BY <1>1, <1>5, <2>3
  <2> QED BY <1>4, <1>6, <2>4, <2>5, PaidStep
<1>8. CASE ~(q \in scope /\ Claimable(q))
  <2>1. row'[q] = row[q] \/ (Exhausted(q) /\ row'[q] = Ended(row[q]))
    BY <1>8 DEF Claim
  <2>2. \A v \in Worker : Mine(v, q)' => Mine(v, q)
    BY <1>0, <2>1 DEF Ended, Unlocked, OutboxRow
  <2>3. AboutToStart(q)' \subseteq AboutToStart(q)
    BY <1>2, <1>8, <2>2 DEF AboutToStart
  <2>4. Unclaimed(q)' => Unclaimed(q)
    BY <1>0, <2>1 DEF Exhausted, Unclaimed, Resettable, OutboxRow
  <2>5. delivered'[q] + Open(q)' + Budget <= delivered[q] + Open(q) + Budget'
    BY <1>1, <1>5, <2>4 DEF Open
  <2> QED BY <1>4, <1>6, <2>3, <2>5, PaidStep
<1> QED BY <1>7, <1>8

LEMMA StartPaid ==
  ASSUME Typed, Typed', PotentialPaid, NEW w \in Worker, NEW r \in Row,
         ReleaseUnstarted(w, r) \/ StartRow(w, r)
  PROVE  PotentialPaid'
<1>0. row \in [Row -> OutboxRow] /\ worker \in [Worker -> Call]
  BY TypedNow DEF RowsOK, CallsOK
<1> SUFFICES ASSUME NEW q \in Row PROVE Paid(q)'
  BY DEF PotentialPaid
<1>1. /\ delivered' = delivered /\ spent' = spent
      /\ r \in worker[w].batch /\ worker[w].phase = "between"
      /\ q # r => row'[q] = row[q]
  BY <1>0 DEF ReleaseUnstarted, StartRow, IsNext
<1>2. /\ \A v \in Worker : worker'[v].batch = IF v = w THEN worker[w].batch \ {r}
                                               ELSE worker[v].batch
      /\ \A v \in Worker : v # w => worker'[v] = worker[v]
      /\ worker'[w].row \in {worker[w].row, r}
      /\ worker'[w].phase \in {"checked", "ready"} => worker'[w].row = r
      /\ worker'[w].phase \in {"checked", "ready", "settling", "between"}
  <2>1. CASE Skip(w, r)
    BY <1>0, <1>1, <2>1 DEF Skip, Call
  <2>2. CASE \E phase \in {"checked", "ready", "settling"} : Take(w, r, phase)
    <3>1. PICK phase \in {"checked", "ready", "settling"} : Take(w, r, phase)
      BY <2>2
    <3>2. worker'[w] = [batch |-> worker[w].batch \ {r}, row |-> r, phase |-> phase]
      BY <1>0, <3>1 DEF Take
    <3>3. \A v \in Worker : v # w => worker'[v] = worker[v]
      BY <1>0, <3>1 DEF Take
    <3>4. /\ worker'[w].batch = worker[w].batch \ {r} /\ worker'[w].row = r
          /\ worker'[w].phase = phase
      BY <3>2
    <3> QED BY <3>3, <3>4
  <2> QED BY <2>1, <2>2 DEF ReleaseUnstarted, StartRow
<1>3. /\ Budget \in Nat /\ Budget' = Budget /\ delivered[q] \in Nat
      /\ Open(q) \in 0 .. 1 /\ Open(q)' \in 0 .. 1
  BY <1>1, BudgetFacts
<1>4. Paid(q) /\ None \in Worker \cup {None}
  BY DEF PotentialPaid
<1>5. CASE q # r
  <2>1. Engaged(q)' \subseteq Engaged(q) /\ AboutToStart(q)' \subseteq AboutToStart(q)
    <3>1. Engaged(q)' \subseteq Engaged(q)
      BY <1>2, <1>5 DEF Engaged
    <3>2. AboutToStart(q)' \subseteq AboutToStart(q)
      BY <1>1, <1>2, <1>5 DEF AboutToStart
    <3> QED BY <3>1, <3>2
  <2> QED BY <1>1, <1>3, <1>4, <1>5, <2>1, Untouched
<1>6. CASE q = r /\ Mine(w, r)
  <2>1. w \in AboutToStart(r)
    BY <1>1, <1>6 DEF AboutToStart
  <2>2. CASE ReleaseUnstarted(w, r)
    <3>1. AboutToStart(r)' \subseteq AboutToStart(r) \ {w}
      BY <1>0, <1>2, <1>6, <2>2 DEF ReleaseUnstarted, AboutToStart, Released, Unlocked, OutboxRow
    <3>2. worker'[w].phase = "between"
      BY <1>0, <1>1, <2>2 DEF ReleaseUnstarted, Skip, Call
    <3>3. Engaged(r)' \subseteq Engaged(r)
      BY <1>2, <3>2 DEF Engaged
    <3>4. delivered'[q] + Open(q)' + Budget <= delivered[q] + Open(q) + Budget' + 1
      BY <1>1, <1>3
    <3> QED BY <1>4, <1>6, <2>1, <3>1, <3>3, <3>4, PaidStep
  <2>3. CASE StartRow(w, r)
    <3>1. row' = row
      BY <2>3 DEF StartRow
    <3>2. AboutToStart(r)' \subseteq AboutToStart(r) \ {w}
      BY <1>2, <3>1 DEF AboutToStart
    <3>3. Engaged(r)' \subseteq Engaged(r) \cup {w}
      BY <1>2 DEF Engaged
    <3>4. Open(q)' = Open(q)
      BY <3>1 DEF Open, Unclaimed, Resettable
    <3>5. delivered'[q] + Open(q)' + Budget <= delivered[q] + Open(q) + Budget'
      BY <1>1, <1>3, <3>4
    <3> QED BY <1>4, <1>6, <2>1, <3>2, <3>3, <3>5, PaidStep
  <2> QED BY <2>2, <2>3
<1>7. CASE q = r /\ ~Mine(w, r)
  <2>1. row' = row
    BY <1>7 DEF ReleaseUnstarted, StartRow
  <2>2. worker'[w].phase \in {"settling", "between"}
    BY <1>0, <1>1, <1>7 DEF ReleaseUnstarted, StartRow, Skip, Take, Call
  <2>3. Engaged(r)' \subseteq Engaged(r)
    BY <1>2, <2>2 DEF Engaged
  <2>4. AboutToStart(r)' \subseteq AboutToStart(r)
    BY <1>2, <2>1 DEF AboutToStart
  <2> QED BY <1>1, <1>3, <1>4, <1>7, <2>1, <2>3, <2>4, Untouched
<1> QED BY <1>5, <1>6, <1>7

LEMMA StepPaid ==
  Typed /\ Typed' /\ PotentialPaid /\ [OfferMailNext]_offerMailVars => PotentialPaid'
<1> SUFFICES ASSUME Typed, Typed', PotentialPaid, [OfferMailNext]_offerMailVars
             PROVE  PotentialPaid'
  OBVIOUS
<1>1. CASE MailStep /\ UNCHANGED offerVars
  BY <1>1, QueuePaid, ClaimPaid, StartPaid, DeliveryPaid, SettlePaid, CrashPaid
     DEF MailStep, WorkerStep, WorkerFault
<1>2. CASE \E w \in Worker : DeliverOffer(w)
  BY <1>2, SettlePaid, DeliveryPaid DEF DeliverOffer
<1>3. CASE SendEnqueues
  <2>1. PICK r \in OfferRow : row' = [row EXCEPT ![r] = Enqueued(row[r], TRUE)]
    BY <1>3 DEF SendEnqueues
  <2> QED BY <1>3, <2>1, QueuePaid
<1>4. CASE SendReads
  <2>1. spent \in Spent /\ spent' = [spent EXCEPT !.operator = @ + 1]
    BY <1>4, TypedNow DEF SendReads, SpentOK
  <2>2. spent'.faults = spent.faults /\ spent'.retries = spent.retries
    BY <2>1 DEF Spent
  <2> QED BY <1>4, <2>2 DEF SendReads, PotentialPaid, Paid, Engaged, AboutToStart, Unclaimed,
                           Resettable
<1>5. CASE UNCHANGED mailVars
  BY <1>5 DEF mailVars, PotentialPaid, Paid, Engaged, AboutToStart, Unclaimed, Resettable
<1>6. CASE \/ EditReads \/ EditChecks \/ Withdraw \/ CloseApplication
           \/ \E t \in Terms : EditWrites(t)
           \/ \E d \in {"accepted", "declined"} : Decide(d)
  BY <1>5, <1>6 DEF EditReads, EditChecks, Withdraw, CloseApplication, EditWrites, Decide
<1> QED BY <1>1, <1>2, <1>3, <1>4, <1>5, <1>6 DEF OfferMailNext, offerMailVars

LEMMA InitPaid == OfferMailInit => PotentialPaid
<1> SUFFICES ASSUME OfferMailInit, NEW r \in Row PROVE Paid(r)
  BY DEF PotentialPaid
<1>1. Engaged(r) = {} /\ AboutToStart(r) = {}
  BY DEF OfferMailInit, MailInit, Engaged, AboutToStart, Idle
<1>2. delivered[r] = 0 /\ spent.faults = 0 /\ spent.retries = 0
  BY DEF OfferMailInit, MailInit
<1> QED BY <1>1, <1>2, FS_EmptySet DEF Paid

\* The inductive reason: what may still be delivered is paid for as well.
THEOREM PotentialIsPaid == OfferMailSpec => []PotentialPaid
<1>1. OfferMailSpec => []Typed
  BY InitTyped, StepTyped, PTL DEF OfferMailSpec
<1> QED BY <1>1, InitPaid, StepPaid, PTL DEF OfferMailSpec

\* A message is delivered once, and again only for a fault or an operator's retry, for
\* any number of workers, attempts and rows (sendRecorded, settleAccepted, markFailed).
THEOREM RepeatsArePaid == OfferMailSpec => []DeliveriesPaid
<1>1. OfferMailSpec => []Typed
  BY InitTyped, StepTyped, PTL DEF OfferMailSpec
<1>2. Typed /\ PotentialPaid => DeliveriesPaid
  <2> SUFFICES ASSUME Typed, PotentialPaid, NEW r \in Row
               PROVE  delivered[r] <= 1 + spent.faults + spent.retries
    BY DEF DeliveriesPaid
  <2>1. Engaged(r) \in SUBSET Worker /\ AboutToStart(r) \in SUBSET Worker
    BY DEF Engaged, AboutToStart
  <2>2. Cardinality(Engaged(r)) \in Nat /\ Cardinality(AboutToStart(r)) \in Nat
    BY <2>1, WorkerSets
  <2>3. delivered[r] \in Nat /\ spent \in Spent
    BY DEF Typed, OfferMailTypeOK, MailTypeOK
  <2> QED BY <2>2, <2>3 DEF PotentialPaid, Paid, Spent
<1> QED BY <1>1, <1>2, PotentialIsPaid, PTL

-----------------------------------------------------------------------------
(* A sent offer was mailed.                                                *)

\* A worker that got past the provider has delivered the row in its hands, and only an
\* offer row waits for the checks of deliverOffer.
HandedOver ==
  \A w \in Worker : worker[w].row # None =>
    /\ worker[w].phase \in {"accepted", "recorded"} => delivered[worker[w].row] >= 1
    /\ worker[w].phase = "settling" /\ worker[w].row \notin OfferRow
         => delivered[worker[w].row] >= 1
    /\ worker[w].phase = "checked" => worker[w].row \in OfferRow

Mailed == HandedOver /\ NothingSentUndelivered /\ SentOfferWasMailed

LEMMA InitMailed == OfferMailInit => Mailed
BY DEF OfferMailInit, MailInit, Mailed, HandedOver, Idle, NothingSentUndelivered,
       SentOfferWasMailed

\* Acceptance and deliveries are never forgotten.
Grows == \A r \in Row : /\ delivered[r] <= delivered'[r]
                        /\ row[r].accepted => row'[r].accepted

LEMMA WritesGrow ==
  ASSUME NEW x \in OutboxRow
  PROVE  /\ Sent(x).accepted /\ Held(x).accepted
         /\ x.accepted => /\ Failed(x).accepted /\ Ended(x).accepted /\ OutcomeUnknown(x).accepted
                          /\ Requeued(x).accepted /\ Released(x).accepted /\ Cancelled(x).accepted
                          /\ [x EXCEPT !.accepted = TRUE].accepted
                          /\ [x EXCEPT !.stale = TRUE].accepted
                          /\ Enqueued(x, TRUE).accepted /\ Enqueued(x, FALSE).accepted
                          /\ \A w \in Worker : Abandoned(x, w).accepted /\ ClaimedBy(x, w).accepted
<1>1. /\ Sent(x).accepted /\ Held(x).accepted
      /\ x.accepted => /\ Failed(x).accepted /\ Ended(x).accepted /\ OutcomeUnknown(x).accepted
                       /\ Requeued(x).accepted /\ Released(x).accepted /\ Cancelled(x).accepted
  BY DEF OutboxRow, Sent, Held, Failed, Ended, OutcomeUnknown, Requeued, Released, Cancelled, Unlocked
<1>2. x.accepted => /\ [x EXCEPT !.accepted = TRUE].accepted
                    /\ [x EXCEPT !.stale = TRUE].accepted
                    /\ Enqueued(x, TRUE).accepted /\ Enqueued(x, FALSE).accepted
  BY <1>1 DEF OutboxRow, Enqueued
<1>3. x.accepted => \A w \in Worker : Abandoned(x, w).accepted /\ ClaimedBy(x, w).accepted
  BY DEF OutboxRow, Abandoned, ClaimedBy
<1> QED BY <1>1, <1>2, <1>3

LEMMA OneRowGrows ==
  ASSUME Typed, NEW r \in Row, NEW x, row' = [row EXCEPT ![r] = x], row[r].accepted => x.accepted,
         delivered' = delivered
  PROVE  Grows
BY DEF Typed, OfferMailTypeOK, MailTypeOK, Grows

LEMMA SettleGrows ==
  ASSUME Typed, NEW w \in Worker,
         \/ MarkSent(w) \/ SettleAccepted(w) \/ MarkFailed(w) \/ RecordAcceptance(w)
         \/ FinalizeIfAccepted(w) \/ SettleUnknown(w) \/ SettleFails(w) \/ UnknownNotRecorded(w)
         \/ Acknowledge(w) \/ NotDeliverable(w) \/ TermsChanged(w) \/ Extend(w)
  PROVE  Grows
<1>0. worker[w].row \in Row /\ row[worker[w].row] \in OutboxRow
  BY TypedNow, RowIsTyped DEF MarkSent, SettleAccepted, MarkFailed, FinalizeIfAccepted,
     SettleUnknown, SettleFails, UnknownNotRecorded, Acknowledge, NotDeliverable, TermsChanged,
     Extend, RecordAcceptance, WellFormed
<1> PICK r \in Row : r = worker[w].row
  BY <1>0
<1>1. \E x : /\ row' = [row EXCEPT ![r] = x]
             /\ \/ x \in {Sent(row[r]), Held(row[r]), Failed(row[r]), Ended(row[r]),
                           OutcomeUnknown(row[r]), Abandoned(row[r], w)}
                \/ x = [row[r] EXCEPT !.accepted = TRUE]
  BY <1>0 DEF MarkSent, SettleAccepted, MarkFailed, FinalizeIfAccepted,
     SettleUnknown, SettleFails, UnknownNotRecorded, Acknowledge, NotDeliverable, TermsChanged,
     Extend, RecordAcceptance, Writes, RowInHand
<1>2. delivered' = delivered
  BY DEF MarkSent, SettleAccepted, MarkFailed, FinalizeIfAccepted,
     SettleUnknown, SettleFails, UnknownNotRecorded, Acknowledge, NotDeliverable, TermsChanged,
     Extend, RecordAcceptance
<1> QED BY <1>0, <1>1, <1>2, WritesGrow, OneRowGrows

LEMMA StepGrows == Typed /\ [OfferMailNext]_offerMailVars => Grows
<1> SUFFICES ASSUME Typed, [OfferMailNext]_offerMailVars PROVE Grows
  OBVIOUS
<1>0. /\ row \in [Row -> OutboxRow] /\ worker \in [Worker -> Call] /\ delivered \in [Row -> Nat]
  BY DEF Typed, OfferMailTypeOK, MailTypeOK
<1>1. ASSUME NEW r \in Row,
             EnqueuePlain(r) \/ RetryDelivery(r) \/ CancelDelivery(r) \/ LockExpires(r)
      PROVE  Grows
  BY <1>0, <1>1, WritesGrow, OneRowGrows DEF EnqueuePlain, RetryDelivery, CancelDelivery, LockExpires
<1>2. ASSUME NEW w \in Worker, NEW scope \in SUBSET Row, Claim(w, scope) PROVE Grows
  <2> SUFFICES ASSUME NEW r \in Row PROVE row[r].accepted => row'[r].accepted
    BY <1>0, <1>2 DEF Claim, Grows
  <2>1. row'[r] \in {row[r], Ended(row[r]), ClaimedBy(row[r], w)}
    BY <1>2 DEF Claim
  <2>2. row[r] \in OutboxRow
    BY <1>0
  <2>3. row[r].accepted => Ended(row[r]).accepted /\ ClaimedBy(row[r], w).accepted
    BY <2>2, WritesGrow
  <2> QED BY <2>1, <2>3
<1>3. ASSUME NEW w \in Worker, NEW r \in Row, ReleaseUnstarted(w, r) \/ StartRow(w, r) PROVE Grows
  <2>1. delivered' = delivered
    BY <1>3 DEF ReleaseUnstarted, StartRow
  <2>2. row' = row \/ row' = [row EXCEPT ![r] = Released(row[r])]
    BY <1>3 DEF ReleaseUnstarted, StartRow
  <2>3. CASE row' = row
    BY <1>0, <2>1, <2>3 DEF Grows
  <2>4. CASE row' = [row EXCEPT ![r] = Released(row[r])]
    BY <1>0, <2>1, <2>4, WritesGrow, OneRowGrows
  <2> QED BY <2>2, <2>3, <2>4
<1>4. ASSUME NEW w \in Worker,
             \/ ProviderAccepts(w) \/ OutcomeLost(w) \/ ProviderRefuses(w)
             \/ AcceptanceNotRecorded(w) \/ SuccessWriteThrows(w) \/ OfferChecked(w)
      PROVE  Grows
  <2>1. row' = row
    BY <1>4 DEF ProviderAccepts, OutcomeLost, Deliver, ProviderRefuses, AcceptanceNotRecorded,
       SuccessWriteThrows, OfferChecked
  <2>2. \A r \in Row : delivered[r] <= delivered'[r]
    BY <1>0, <1>4 DEF ProviderAccepts, OutcomeLost, Deliver, ProviderRefuses,
       AcceptanceNotRecorded, SuccessWriteThrows, OfferChecked
  <2> QED BY <2>1, <2>2 DEF Grows
<1>5. ASSUME NEW w \in Worker, Crash(w) PROVE Grows
  <2> SUFFICES ASSUME NEW r \in Row PROVE row[r].accepted => row'[r].accepted
    BY <1>0, <1>5 DEF Crash, Grows
  <2>1. row[r].accepted => Abandoned(row[r], w).accepted
    BY <1>0, WritesGrow
  <2> QED BY <1>5, <2>1 DEF Crash
<1>6. CASE MailStep /\ UNCHANGED offerVars
  BY <1>1, <1>2, <1>3, <1>4, <1>5, <1>6, SettleGrows DEF MailStep, WorkerStep, WorkerFault
<1>7. CASE \E w \in Worker : DeliverOffer(w)
  BY <1>4, <1>7, SettleGrows DEF DeliverOffer
<1>8. CASE SendEnqueues
  <2>1. PICK r \in OfferRow : row' = [row EXCEPT ![r] = Enqueued(row[r], TRUE)]
    BY <1>8 DEF SendEnqueues
  <2> QED BY <1>0, <1>8, <2>1, WritesGrow, OneRowGrows DEF SendEnqueues
<1>9. CASE \/ SendReads \/ EditReads \/ EditChecks \/ Withdraw \/ CloseApplication
           \/ UNCHANGED offerMailVars
           \/ \E t \in Terms : EditWrites(t)
           \/ \E d \in {"accepted", "declined"} : Decide(d)
  <2>1. row' = row /\ delivered' = delivered
    BY <1>9 DEF SendReads, EditReads, EditChecks, Withdraw, CloseApplication, EditWrites, Decide,
       offerMailVars, mailVars
  <2> QED BY <1>0, <2>1 DEF Grows
<1> QED BY <1>6, <1>7, <1>8, <1>9 DEF OfferMailNext

LEMMA StepHandedOver ==
  Typed /\ Grows /\ Mailed /\ [OfferMailNext]_offerMailVars => HandedOver'
<1> SUFFICES ASSUME Typed, Grows, Mailed, [OfferMailNext]_offerMailVars,
                    NEW v \in Worker, worker'[v].row # None
             PROVE  /\ worker'[v].phase \in {"accepted", "recorded"}
                         => delivered'[worker'[v].row] >= 1
                    /\ worker'[v].phase = "settling" /\ worker'[v].row \notin OfferRow
                         => delivered'[worker'[v].row] >= 1
                    /\ worker'[v].phase = "checked" => worker'[v].row \in OfferRow
  BY DEF HandedOver
<1>0. /\ row \in [Row -> OutboxRow] /\ worker \in [Worker -> Call] /\ delivered \in [Row -> Nat]
  BY DEF Typed, OfferMailTypeOK, MailTypeOK
<1>1. CASE worker'[v] = worker[v]
  <2>1. worker[v].row \in Row
    BY <1>0, <1>1 DEF Call
  <2>2. delivered[worker[v].row] >= 1 => delivered'[worker[v].row] >= 1
    <3>1. delivered[worker[v].row] <= delivered'[worker[v].row] /\ delivered[worker[v].row] \in Nat
      BY <1>0, <2>1 DEF Grows
    <3>2. CASE delivered' = delivered
      BY <3>2
    <3>3. CASE \E r \in Row : delivered' = [delivered EXCEPT ![r] = @ + 1]
      BY <1>0, <2>1, <3>3
    <3>4. delivered' = delivered \/ \E r \in Row : delivered' = [delivered EXCEPT ![r] = @ + 1]
      <4>1. ASSUME NEW w \in Worker, ProviderAccepts(w) \/ OutcomeLost(w)
            PROVE  \E r \in Row : delivered' = [delivered EXCEPT ![r] = @ + 1]
        BY <1>0, <4>1 DEF ProviderAccepts, OutcomeLost, Deliver, InHand, Call
      <4>2. CASE MailStep
        BY <4>1, <4>2 DEF MailStep, WorkerStep, WorkerFault, EnqueuePlain, RetryDelivery,
           CancelDelivery, LockExpires, Claim, ReleaseUnstarted, StartRow, ProviderRefuses,
           RecordAcceptance, MarkSent, SettleAccepted, MarkFailed, FinalizeIfAccepted, SettleUnknown,
           AcceptanceNotRecorded, SuccessWriteThrows, SettleFails, UnknownNotRecorded, Crash
      <4>3. CASE ~MailStep
        BY <4>3 DEF OfferMailNext, SendReads, SendEnqueues, EditReads, EditChecks, EditWrites,
           Withdraw, CloseApplication, Decide, DeliverOffer, Acknowledge, NotDeliverable,
           TermsChanged, OfferChecked, Extend, mailVars, offerMailVars
      <4> QED BY <4>2, <4>3
    <3> QED BY <3>2, <3>3, <3>4
  <2> QED BY <1>1, <2>2 DEF Mailed, HandedOver
<1>2. CASE worker'[v] # worker[v]
  <2>1. \/ UNCHANGED offerVars /\ MailStep
        \/ DeliverOffer(v) /\ UNCHANGED delivered
    <3>1. ASSUME NEW w \in Worker, DeliverOffer(w) PROVE w = v /\ UNCHANGED delivered
      BY <1>0, <1>2, <3>1 DEF DeliverOffer, Acknowledge, NotDeliverable, TermsChanged, OfferChecked,
         Extend, Finishes, Moves
    <3> QED BY <1>2, <3>1 DEF OfferMailNext, SendReads, SendEnqueues, EditReads, EditChecks,
            EditWrites, Withdraw, CloseApplication, Decide, mailVars, offerMailVars
  <2>2. CASE DeliverOffer(v)
    <3>1. worker'[v].row = None \/ worker'[v].phase = "ready"
      BY <1>0, <2>2 DEF DeliverOffer, Acknowledge, NotDeliverable, TermsChanged, OfferChecked,
         Extend, Finishes, Moves, Call
    <3> QED BY <3>1
  <2>3. CASE MailStep
    <3>1. \/ \E scope \in SUBSET Row : Claim(v, scope)
          \/ WorkerStep(v) \/ WorkerFault(v)
      <4>1. ASSUME NEW w \in Worker, w # v PROVE ~WorkerStep(w) /\ ~WorkerFault(w)
                                                /\ \A scope \in SUBSET Row : ~Claim(w, scope)
        BY <1>0, <1>2, <4>1 DEF WorkerStep, WorkerFault, Claim, ReleaseUnstarted, StartRow, Skip,
           Take, ProviderAccepts, OutcomeLost, Deliver, ProviderRefuses,
           RecordAcceptance, MarkSent, SettleAccepted, MarkFailed, FinalizeIfAccepted, SettleUnknown,
           AcceptanceNotRecorded, SuccessWriteThrows, SettleFails, UnknownNotRecorded, Crash,
           Finishes, Moves
      <4>2. ASSUME NEW r \in Row
            PROVE  /\ ~EnqueuePlain(r) /\ ~RetryDelivery(r) /\ ~CancelDelivery(r)
                   /\ ~LockExpires(r)
        BY <1>2 DEF EnqueuePlain, RetryDelivery, CancelDelivery, LockExpires
      <4>3. \A r \in Row : {r} \in SUBSET Row
        OBVIOUS
      <4> QED BY <2>3, <4>1, <4>2, <4>3 DEF MailStep
    <3>2. CASE \E scope \in SUBSET Row : Claim(v, scope)
      BY <1>0, <3>2 DEF Claim, Call, Idle
    <3>3. CASE \E r \in Row : ReleaseUnstarted(v, r) \/ StartRow(v, r)
      <4>1. PICK r \in Row : ReleaseUnstarted(v, r) \/ StartRow(v, r)
        BY <3>3
      <4>2. CASE Skip(v, r)
        <5>1. worker'[v].phase = "between"
          BY <1>0, <4>1, <4>2 DEF ReleaseUnstarted, StartRow, IsNext, Skip, Call
        <5> QED BY <5>1
      <4>3. CASE Take(v, r, "settling") /\ row[r].accepted /\ delivered' = delivered
        <5>1. worker'[v].row = r /\ worker'[v].phase = "settling"
          BY <1>0, <4>3 DEF Take
        <5>2. r \notin OfferRow => delivered[r] >= 1
          BY <4>3 DEF Mailed, NothingSentUndelivered
        <5> QED BY <4>3, <5>1, <5>2
      <4>4. CASE Take(v, r, "checked") \/ Take(v, r, "ready")
        <5>1. worker'[v].phase \in {"checked", "ready"} /\ worker'[v].row = r
          BY <1>0, <4>4 DEF Take
        <5>2. Take(v, r, "checked") => r \in OfferRow
          BY <1>0, <4>1 DEF StartRow, ReleaseUnstarted, Take, Skip, IsNext, Call
        <5>3. worker'[v].phase = "checked" => Take(v, r, "checked")
          BY <1>0, <4>4 DEF Take
        <5> QED BY <5>1, <5>2, <5>3
      <4> QED BY <4>1, <4>2, <4>3, <4>4 DEF ReleaseUnstarted, StartRow
    <3>4. CASE \/ MarkSent(v) \/ SettleAccepted(v) \/ MarkFailed(v) \/ FinalizeIfAccepted(v)
               \/ SettleUnknown(v) \/ SettleFails(v) \/ UnknownNotRecorded(v) \/ Crash(v)
      <4>1. worker'[v].row = None
        BY <1>0, <3>4 DEF MarkSent, SettleAccepted, MarkFailed, FinalizeIfAccepted, SettleUnknown,
           SettleFails, UnknownNotRecorded, Crash, Finishes, Call, Idle
      <4> QED BY <4>1
    <3>5. CASE OutcomeLost(v) \/ ProviderRefuses(v)
      <4>1. worker'[v].phase \in {"unknown", "refused"}
        BY <1>0, <3>5 DEF OutcomeLost, Deliver, ProviderRefuses, Moves, Call
      <4> QED BY <4>1
    <3>6. CASE ProviderAccepts(v)
      <4>1. /\ worker'[v].row = worker[v].row /\ worker[v].row \in Row
            /\ delivered' = [delivered EXCEPT ![worker[v].row] = @ + 1]
            /\ worker'[v].phase # "checked"
        BY <1>0, <3>6 DEF ProviderAccepts, Deliver, Moves, InHand, Call
      <4>2. delivered'[worker[v].row] >= 1
        <5> PICK r \in Row : r = worker[v].row
          BY <4>1
        <5>1. delivered[r] \in Nat /\ delivered'[r] = delivered[r] + 1
          BY <1>0, <4>1
        <5> QED BY <5>1
      <4> QED BY <4>1, <4>2
    <3>7. CASE RecordAcceptance(v) \/ AcceptanceNotRecorded(v) \/ SuccessWriteThrows(v)
      <4>1. /\ worker[v].phase \in {"accepted", "recorded"} /\ worker[v].row # None
            /\ worker'[v].row = worker[v].row /\ delivered' = delivered
            /\ worker'[v].phase # "checked"
        BY <1>0, <3>7 DEF RecordAcceptance, AcceptanceNotRecorded, SuccessWriteThrows, InHand,
           Moves, Call
      <4> QED BY <4>1 DEF Mailed, HandedOver
    <3> QED BY <3>1, <3>2, <3>3, <3>4, <3>5, <3>6, <3>7 DEF WorkerStep, WorkerFault
  <2> QED BY <2>1, <2>2, <2>3
<1> QED BY <1>1, <1>2

\* What makes a plain row count as accepted or sent.
LEMMA StepNothingSent ==
  Typed /\ Grows /\ Mailed /\ [OfferMailNext]_offerMailVars => NothingSentUndelivered'
<1> SUFFICES ASSUME Typed, Grows, Mailed, [OfferMailNext]_offerMailVars,
                    NEW r \in Row \ OfferRow, row'[r].status = "sent" \/ row'[r].accepted
             PROVE  delivered'[r] >= 1
  BY DEF NothingSentUndelivered
<1>0. /\ row \in [Row -> OutboxRow] /\ worker \in [Worker -> Call] /\ delivered \in [Row -> Nat]
  BY DEF Typed, OfferMailTypeOK, MailTypeOK
<1>1. delivered[r] >= 1 => delivered'[r] >= 1
  <2>1. ASSUME NEW w \in Worker, ProviderAccepts(w) \/ OutcomeLost(w)
        PROVE  delivered[r] >= 1 => delivered'[r] >= 1
    BY <1>0, <2>1 DEF ProviderAccepts, OutcomeLost, Deliver, InHand, Call
  <2>2. CASE MailStep
    BY <2>1, <2>2 DEF MailStep, WorkerStep, WorkerFault, EnqueuePlain, RetryDelivery,
       CancelDelivery, LockExpires, Claim, ReleaseUnstarted, StartRow, ProviderRefuses,
       RecordAcceptance, MarkSent, SettleAccepted, MarkFailed, FinalizeIfAccepted, SettleUnknown,
       AcceptanceNotRecorded, SuccessWriteThrows, SettleFails, UnknownNotRecorded, Crash
  <2>3. CASE ~MailStep
    BY <2>3 DEF OfferMailNext, SendReads, SendEnqueues, EditReads, EditChecks, EditWrites,
       Withdraw, CloseApplication, Decide, DeliverOffer, Acknowledge, NotDeliverable,
       TermsChanged, OfferChecked, Extend, mailVars, offerMailVars
  <2> QED BY <2>2, <2>3
<1>2. row[r].status = "sent" \/ row[r].accepted => delivered[r] >= 1
  BY DEF Mailed, NothingSentUndelivered
<1> SUFFICES ASSUME ~(row[r].status = "sent" \/ row[r].accepted)
             PROVE  delivered[r] >= 1
  BY <1>1, <1>2
<1>3. ASSUME NEW w \in Worker, InHand(w, "accepted") \/ InHand(w, "recorded") \/ InHand(w, "settling"),
             worker[w].row = r
      PROVE  delivered[r] >= 1
  BY <1>3 DEF Mailed, HandedOver, InHand
<1>4. ASSUME NEW w \in Worker, NEW x,
             Writes(w, x), row[r] # row'[r]
      PROVE  worker[w].row = r /\ x = row'[r]
  BY <1>0, <1>4 DEF Writes
<1>5. row[r] # row'[r]
  OBVIOUS
<1>20. ASSUME row[r] \in OutboxRow
       PROVE  \A x \in {Failed(row[r]), Ended(row[r]), OutcomeUnknown(row[r]), Requeued(row[r]),
                         Released(row[r]), Cancelled(row[r])} : ~(x.status = "sent" \/ x.accepted)
  <2>0. ~row[r].accepted
    OBVIOUS
  <2>1. LET x == Unlocked(row[r]) IN x \in OutboxRow /\ ~x.accepted
    BY <1>20, <2>0 DEF Unlocked, OutboxRow
  <2>2. Failed(row[r]).status # "sent" /\ ~Failed(row[r]).accepted
    BY <2>1 DEF Failed, OutboxRow
  <2>3. Ended(row[r]).status # "sent" /\ ~Ended(row[r]).accepted
    BY <2>1 DEF Ended, OutboxRow
  <2>4. OutcomeUnknown(row[r]).status # "sent" /\ ~OutcomeUnknown(row[r]).accepted
    BY <2>1 DEF OutcomeUnknown, OutboxRow
  <2>5. Requeued(row[r]).status # "sent" /\ ~Requeued(row[r]).accepted
    BY <2>1 DEF Requeued, OutboxRow
  <2>6. Released(row[r]).status # "sent" /\ ~Released(row[r]).accepted
    BY <2>1 DEF Released, OutboxRow
  <2>7. Cancelled(row[r]).status # "sent" /\ ~Cancelled(row[r]).accepted
    BY <2>1 DEF Cancelled, OutboxRow
  <2> QED BY <2>2, <2>3, <2>4, <2>5, <2>6, <2>7
<1>6. ASSUME NEW x \in {Failed(row[r]), Ended(row[r]), OutcomeUnknown(row[r]), Requeued(row[r]),
                        Released(row[r]), Cancelled(row[r]), Enqueued(row[r], FALSE),
                        Enqueued(row[r], TRUE)}
                  \cup {Abandoned(row[r], w) : w \in Worker}
                  \cup {ClaimedBy(row[r], w) : w \in Worker}
      PROVE  ~(x.status = "sent" \/ x.accepted)
  <2>1. row[r] \in OutboxRow
    BY <1>0
  <2>2. CASE x \in {Failed(row[r]), Ended(row[r]), OutcomeUnknown(row[r]), Requeued(row[r]),
                    Released(row[r]), Cancelled(row[r])}
    BY <1>20, <2>1, <2>2
  <2>3. CASE x \in {Enqueued(row[r], FALSE), Enqueued(row[r], TRUE)}
    <3> DEFINE inserted == [row[r] EXCEPT !.status = "pending"]
    <3>1. Enqueued(row[r], FALSE) \in {row[r], Requeued(row[r]), inserted}
      BY DEF Enqueued
    <3>2. Enqueued(row[r], TRUE) \in {row[r], Requeued(row[r]), inserted}
      BY DEF Enqueued
    <3>3. ~(inserted.status = "sent" \/ inserted.accepted)
      BY <2>1 DEF OutboxRow
    <3>4. ~(Requeued(row[r]).status = "sent" \/ Requeued(row[r]).accepted)
      BY <1>20, <2>1
    <3> HIDE DEF inserted
    <3>5. x \in {row[r], Requeued(row[r]), inserted}
      BY <2>3, <3>1, <3>2
    <3> QED BY <3>3, <3>4, <3>5
  <2>4. CASE x \in {Abandoned(row[r], w) : w \in Worker} \cup {ClaimedBy(row[r], w) : w \in Worker}
    <3>1. ASSUME NEW w \in Worker
          PROVE  ~(Abandoned(row[r], w).status = "sent" \/ Abandoned(row[r], w).accepted)
      BY <2>1 DEF OutboxRow, Abandoned
    <3>2. ASSUME NEW w \in Worker
          PROVE  ~(ClaimedBy(row[r], w).status = "sent" \/ ClaimedBy(row[r], w).accepted)
      BY <2>1 DEF OutboxRow, ClaimedBy
    <3> QED BY <2>4, <3>1, <3>2
  <2> QED BY <1>6, <2>2, <2>3, <2>4
<1>7. ASSUME NEW q \in Row,
             \/ EnqueuePlain(q) \/ RetryDelivery(q) \/ CancelDelivery(q) \/ LockExpires(q)
      PROVE  FALSE
  <2>1. q = r
    BY <1>0, <1>5, <1>7 DEF EnqueuePlain, RetryDelivery, CancelDelivery, LockExpires
  <2>2. CASE LockExpires(q)
    BY <1>0, <2>1, <2>2 DEF LockExpires, OutboxRow
  <2>3. CASE EnqueuePlain(q) \/ RetryDelivery(q) \/ CancelDelivery(q)
    <3>1. row'[r] \in {Enqueued(row[r], FALSE), Requeued(row[r]), Cancelled(row[r])}
      BY <1>0, <2>1, <2>3 DEF EnqueuePlain, RetryDelivery, CancelDelivery
    <3> QED BY <1>6, <3>1
  <2> QED BY <1>7, <2>2, <2>3
<1>8. ASSUME NEW w \in Worker, NEW scope \in SUBSET Row, Claim(w, scope) PROVE FALSE
  <2>1. row'[r] \in {row[r], Ended(row[r]), ClaimedBy(row[r], w)}
    BY <1>8 DEF Claim
  <2> QED BY <1>5, <1>6, <2>1
<1>9. ASSUME NEW w \in Worker, NEW q \in Row, ReleaseUnstarted(w, q) \/ StartRow(w, q) PROVE FALSE
  <2>1. row'[r] = Released(row[r])
    BY <1>0, <1>5, <1>9 DEF ReleaseUnstarted, StartRow
  <2> QED BY <1>6, <2>1
<1>10. ASSUME NEW w \in Worker, MarkFailed(w) \/ SettleUnknown(w) \/ UnknownNotRecorded(w) PROVE FALSE
  <2>1. \E x \in {Failed(row[worker[w].row]), OutcomeUnknown(row[worker[w].row]),
                  Abandoned(row[worker[w].row], w)} : Writes(w, x)
    BY <1>10 DEF MarkFailed, SettleUnknown, UnknownNotRecorded
  <2>2. worker[w].row = r /\ row'[r] \in {Failed(row[r]), OutcomeUnknown(row[r]), Abandoned(row[r], w)}
    BY <1>4, <1>5, <2>1
  <2> QED BY <1>6, <2>2
<1>11. ASSUME NEW w \in Worker, SettleFails(w) \/ SettleAccepted(w) \/ MarkSent(w) \/ RecordAcceptance(w)
       PROVE  delivered[r] >= 1
  <2>1. worker[w].row = r
    BY <1>4, <1>5, <1>11 DEF SettleFails, SettleAccepted, MarkSent, RecordAcceptance
  <2> QED BY <1>3, <1>11, <2>1 DEF SettleFails, SettleAccepted, MarkSent, RecordAcceptance
<1>12. ASSUME NEW w \in Worker, FinalizeIfAccepted(w) PROVE FALSE
  BY <1>4, <1>5, <1>12 DEF FinalizeIfAccepted
<1>13. ASSUME NEW w \in Worker,
              \/ ProviderAccepts(w) \/ OutcomeLost(w) \/ ProviderRefuses(w)
              \/ AcceptanceNotRecorded(w) \/ SuccessWriteThrows(w)
       PROVE  FALSE
  BY <1>5, <1>13 DEF ProviderAccepts, OutcomeLost, Deliver, ProviderRefuses, AcceptanceNotRecorded,
     SuccessWriteThrows
<1>14. ASSUME NEW w \in Worker, Crash(w) PROVE FALSE
  <2>1. row'[r] = Abandoned(row[r], w)
    BY <1>14 DEF Crash
  <2> QED BY <1>6, <2>1
<1>15. ASSUME NEW w \in Worker, DeliverOffer(w) PROVE FALSE
  <2>1. CASE OfferChecked(w)
    BY <1>5, <2>1 DEF OfferChecked
  <2>2. CASE Extend(w)
    BY <1>4, <1>5, <2>2 DEF Extend
  <2>3. CASE Acknowledge(w) \/ NotDeliverable(w) \/ TermsChanged(w)
    <3>1. worker[w].row = r /\ InHand(w, "checked")
      BY <1>4, <1>5, <2>3 DEF Acknowledge, NotDeliverable, TermsChanged
    <3>2. r \in OfferRow
      BY <3>1 DEF Mailed, HandedOver, InHand
    <3> QED BY <3>2
  <2> QED BY <1>15, <2>1, <2>2, <2>3 DEF DeliverOffer
<1>16. CASE MailStep
  <2>1. \A q \in Row : {q} \in SUBSET Row
    OBVIOUS
  <2> QED BY <1>7, <1>8, <1>9, <1>10, <1>11, <1>12, <1>13, <1>14, <1>16, <2>1
          DEF MailStep, WorkerStep, WorkerFault
<1>17. CASE SendEnqueues
  <2>1. PICK q \in OfferRow : row' = [row EXCEPT ![q] = Enqueued(row[q], TRUE)]
    BY <1>17 DEF SendEnqueues
  <2> QED BY <1>0, <1>5, <2>1
<1>18. CASE \/ SendReads \/ EditReads \/ EditChecks \/ Withdraw \/ CloseApplication
            \/ UNCHANGED offerMailVars
            \/ \E t \in Terms : EditWrites(t)
            \/ \E d \in {"accepted", "declined"} : Decide(d)
  BY <1>5, <1>18 DEF SendReads, EditReads, EditChecks, Withdraw, CloseApplication, EditWrites,
     Decide, offerMailVars, mailVars
<1> QED BY <1>15, <1>16, <1>17, <1>18 DEF OfferMailNext

\* The offer is sent only by the worker that mailed its terms, and keeps them.
LEMMA StepSentOffer ==
  Typed /\ Grows /\ Mailed /\ HandedOver' /\ [OfferMailNext]_offerMailVars => SentOfferWasMailed'
<1> SUFFICES ASSUME Typed, Grows, Mailed, [OfferMailNext]_offerMailVars,
                    offer'.status \in {"sent", "accepted", "declined"}
             PROVE  \E r \in OfferRow : RowTerms[r] = offer'.terms /\ row'[r].accepted
                                        /\ delivered'[r] >= 1
  BY DEF SentOfferWasMailed
<1>0. /\ row \in [Row -> OutboxRow] /\ worker \in [Worker -> Call] /\ delivered \in [Row -> Nat]
      /\ offer \in [status: {"draft", "sent", "accepted", "declined", "withdrawn"}, terms: Terms]
  BY TypedNow DEF RowsOK, CallsOK, OfferOK
<1>1. ASSUME NEW r \in Row, delivered[r] >= 1 PROVE delivered'[r] >= 1
  <2>1. ASSUME NEW w \in Worker, ProviderAccepts(w) \/ OutcomeLost(w)
        PROVE  delivered'[r] >= 1
    BY <1>0, <1>1, <2>1 DEF ProviderAccepts, OutcomeLost, Deliver, InHand, Call
  <2>2. CASE MailStep
    BY <1>1, <2>1, <2>2 DEF MailStep, WorkerStep, WorkerFault, EnqueuePlain, RetryDelivery,
       CancelDelivery, LockExpires, Claim, ReleaseUnstarted, StartRow, ProviderRefuses,
       RecordAcceptance, MarkSent, SettleAccepted, MarkFailed, FinalizeIfAccepted, SettleUnknown,
       AcceptanceNotRecorded, SuccessWriteThrows, SettleFails, UnknownNotRecorded, Crash
  <2>3. CASE ~MailStep
    BY <1>1, <2>3 DEF OfferMailNext, SendReads, SendEnqueues, EditReads, EditChecks, EditWrites,
       Withdraw, CloseApplication, Decide, DeliverOffer, Acknowledge, NotDeliverable,
       TermsChanged, OfferChecked, Extend, mailVars, offerMailVars
  <2> QED BY <2>2, <2>3
<1>2. CASE offer.status \in {"sent", "accepted", "declined"} /\ offer'.terms = offer.terms
  <2>1. PICK r \in OfferRow : RowTerms[r] = offer.terms /\ row[r].accepted /\ delivered[r] >= 1
    BY <1>2 DEF Mailed, SentOfferWasMailed
  <2> QED BY <1>1, <1>2, <2>1 DEF Grows
<1>3. ASSUME NEW w \in Worker, Extend(w), offer.status = "draft"
      PROVE  \E r \in OfferRow : RowTerms[r] = offer'.terms /\ row'[r].accepted /\ delivered'[r] >= 1
  <2>1. PICK r \in OfferRow : r = worker[w].row
    BY <1>3 DEF Extend
  <2>2. StillExtendable(w) /\ offer' = [offer EXCEPT !.status = "sent"]
    BY <1>0, <1>3 DEF Extend, OfferBecomes
  <2>3. RowTerms[r] = offer'.terms
    BY <1>0, <2>1, <2>2 DEF StillExtendable
  <2>4. delivered[r] >= 1 /\ delivered' = delivered
    BY <1>3, <2>1 DEF Extend, InHand, Mailed, HandedOver
  <2>5. row'[r] = Sent(row[r])
    BY <1>0, <1>3, <2>1 DEF Extend, Writes, RowInHand
  <2>6. row'[r].accepted
    <3>1. row[r] \in OutboxRow
      BY <1>0
    <3>2. Sent(row[r]).accepted
      BY <3>1, WritesGrow
    <3> QED BY <2>5, <3>2
  <2> QED BY <2>3, <2>4, <2>6
<1>4. \/ offer' = offer
      \/ offer.status = "draft" /\ \E w \in Worker : Extend(w)
      \/ offer.status = "sent" /\ offer'.terms = offer.terms
  <2>1. CASE \/ (MailStep /\ UNCHANGED offerVars)
             \/ UNCHANGED offerMailVars
             \/ SendReads \/ SendEnqueues \/ EditReads \/ EditChecks \/ CloseApplication
    BY <2>1 DEF offerVars, offerMailVars, SendReads, SendEnqueues, EditReads, EditChecks,
       CloseApplication
  <2>2. CASE Withdraw \/ \E t \in Terms : EditWrites(t)
    BY <1>0, <2>2 DEF Withdraw, EditWrites, OfferBecomes
  <2>3. CASE \E d \in {"accepted", "declined"} : Decide(d)
    BY <1>0, <2>3 DEF Decide, OfferBecomes
  <2>4. ASSUME NEW w \in Worker, DeliverOffer(w)
        PROVE  offer' = offer \/ (offer.status = "draft" /\ Extend(w))
    BY <2>4 DEF DeliverOffer, Acknowledge, NotDeliverable, TermsChanged, OfferChecked, Extend,
       offerVars, StillExtendable
  <2> QED BY <2>1, <2>2, <2>3, <2>4 DEF OfferMailNext
<1> QED BY <1>2, <1>3, <1>4

\* No row is called sent, and no offer is extended, without a delivery
\* (recordAcceptance, deliverOffer, features/offers/actions.ts sendOffer).
THEOREM SentMeansMailed == OfferMailSpec => [](NothingSentUndelivered /\ SentOfferWasMailed)
<1>1. OfferMailSpec => []Typed
  BY InitTyped, StepTyped, PTL DEF OfferMailSpec
<1>2. Typed /\ Mailed /\ [OfferMailNext]_offerMailVars => Mailed'
  BY StepGrows, StepHandedOver, StepNothingSent, StepSentOffer DEF Mailed
<1>3. Mailed => NothingSentUndelivered /\ SentOfferWasMailed
  BY DEF Mailed
<1> QED BY <1>1, <1>2, <1>3, InitMailed, PTL DEF OfferMailSpec

\* No sweep, operator or late write of another worker calls an undelivered message sent
\* (recordAcceptance, settleAccepted, markSent).
THEOREM SentWasDelivered == OfferMailSpec => []NothingSentUndelivered
BY SentMeansMailed, PTL

\* The transaction after the provider's acceptance moves the offer only where it is still
\* a draft with the mailed terms and an active application (deliverOffer), whatever was
\* decided, edited or closed while the message was on its way.
THEOREM LateCallbacksAreHarmless == OfferMailSpec => LateCallbackHarmless
<1> DEFINE Harmless ==
      \A w \in Worker : InHand(w, "recorded") /\ worker'[w].phase = "between"
       => \/ offer' = offer
          \/ offer.status = "draft" /\ active
               /\ \E r \in OfferRow : RowTerms[r] = offer.terms /\ row'[r].status = "sent"
<1>1. ASSUME Typed, OfferMailNext PROVE Harmless
  <2>1. offer' = offer => Harmless
    OBVIOUS
  <2>2. worker' = worker => Harmless
    BY DEF InHand
  <2>3. CASE MailStep /\ UNCHANGED offerVars
    BY <2>1, <2>3 DEF offerVars
  <2>4. CASE SendReads \/ SendEnqueues \/ EditReads \/ EditChecks
    BY <2>1, <2>4 DEF SendReads, SendEnqueues, EditReads, EditChecks, mailVars
  <2>5. CASE \/ \E t \in Terms : EditWrites(t)
             \/ Withdraw \/ CloseApplication
             \/ \E d \in {"accepted", "declined"} : Decide(d)
    BY <2>2, <2>5 DEF EditWrites, Withdraw, CloseApplication, Decide, mailVars
  <2>6. ASSUME NEW w \in Worker, DeliverOffer(w) PROVE Harmless
    <3>1. CASE Acknowledge(w) \/ NotDeliverable(w) \/ TermsChanged(w) \/ OfferChecked(w)
      BY <2>1, <3>1 DEF Acknowledge, NotDeliverable, TermsChanged, OfferChecked, offerVars
    <3>2. CASE Extend(w) /\ StillExtendable(w)
      <4>1. PICK r \in OfferRow : r = worker[w].row
        BY <3>2 DEF Extend
      <4>2. row \in [Row -> OutboxRow] /\ r \in Row
        BY <1>1, <4>1, TypedNow DEF RowsOK
      <4>3. row'[r].status = "sent"
        <5>1. row' = [row EXCEPT ![r] = Sent(row[r])]
          BY <3>2, <4>1 DEF Extend, Writes, RowInHand
        <5>2. Sent(row[r]).status = "sent"
          BY <4>2 DEF Sent, Unlocked, OutboxRow
        <5> QED BY <4>2, <5>1, <5>2
      <4> QED BY <3>2, <4>1, <4>3 DEF StillExtendable
    <3>3. CASE Extend(w) /\ ~StillExtendable(w)
      BY <2>1, <3>3 DEF Extend
    <3> QED BY <2>6, <3>1, <3>2, <3>3 DEF DeliverOffer
  <2> QED BY <1>1, <2>3, <2>4, <2>5, <2>6 DEF OfferMailNext
<1>2. Typed /\ [OfferMailNext]_offerMailVars => [Harmless]_offerMailVars
  BY <1>1
<1>3. OfferMailSpec => []Typed
  BY InitTyped, StepTyped, PTL DEF OfferMailSpec
<1> QED BY <1>2, <1>3, PTL DEF OfferMailSpec, LateCallbackHarmless
=============================================================================
