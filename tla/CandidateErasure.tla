-------------------------- MODULE CandidateErasure --------------------------
(***************************************************************************)
(* The permanent erasure of a candidate: the durable deletion job          *)
(* (apps/web/src/features/candidates/deletion-jobs.ts), the purge that     *)
(* erases stored objects before it deletes rows (features/candidates/      *)
(* data.ts, permanentlyDeleteCandidate), the requests that run it at once  *)
(* and the cron call that retries it, while files are uploaded, documents  *)
(* are put under a legal hold and the candidate is restored.               *)
(*                                                                         *)
(* One candidate and one job: two requests that race to insert a job for   *)
(* each of two dedupe keys purge side by side, as they do here when a lock *)
(* goes stale.  The files stand for documents, the only data a hold can    *)
(* protect, and for their later versions, each with a row of its own that  *)
(* the document's deletion cascades to.  Retries are due at once.          *)
(***************************************************************************)
EXTENDS Naturals, FiniteSets

CONSTANTS
  File,             \* stored files of the candidate
  DocumentOf,       \* DocumentOf[f]: the document f is a version of, its first one stands for it
  Request,          \* calls of the two server actions that purge at once
  Fulfilment,       \* those of fulfilDsarErasureAction; the others delete from the trash
  HolderOf,         \* HolderOf[q]: the lock owner a request writes, one per user and action
  Reaper,           \* the cron call of candidate-deletions, one at a time
  Unowned,          \* no lock owner
  DeadReaper,       \* the id of a cron call that ended without settling
  MaxPurgeAttempts, \* MAX_ATTEMPTS
  MaxErasureFaults, \* crashes and stalls
  MaxErasureOps     \* requests and commands

Purger == Request \cup {Reaper}

Holder == {HolderOf[q] : q \in Request} \cup {Reaper}

Document == {f \in File : DocumentOf[f] = f}

ASSUME ErasureAssumption ==
  /\ DocumentOf \in [File -> Document]
  /\ Fulfilment \subseteq Request /\ Reaper \notin Request
  /\ Reaper \notin {HolderOf[q] : q \in Request}
  /\ {Unowned, DeadReaper} \cap Holder = {} /\ Unowned # DeadReaper
  /\ MaxPurgeAttempts \in Nat \ {0}
  /\ MaxErasureFaults \in Nat /\ MaxErasureOps \in Nat

VARIABLES
  candidate,    \* "active", "trashed" or "erased"
  vault,        \* the files' rows, stored objects and legal holds; those ever uploaded, and the
                \* versions added while a purge had its document collected (history)
  dsar,         \* the status of an approved erasure request of the candidate
  job,          \* the deletion job
  purger,       \* purger[p]: where a call is, and the files its purge has collected
  erasureSpent  \* faults, requests and commands so far (history)

erasureVars == <<candidate, vault, dsar, job, purger, erasureSpent>>

JobStatuses == {"none", "pending", "processing", "completed", "failed", "blocked", "dead_letter"}

PurgePhases == {"idle", "enqueue", "requeue", "start", "collect", "erase", "commit",
                "ok", "failed", "blocked", "tell"}

ErasureTypeOK ==
  /\ candidate \in {"active", "trashed", "erased"}
  /\ vault \in [rows: SUBSET File, objects: SUBSET File, held: SUBSET Document, ever: SUBSET File,
                late: SUBSET File]
  /\ dsar \in {"processing", "blocked", "completed"}
  /\ job \in [status: JobStatuses, owner: Holder \cup {Unowned, DeadReaper}, stale: BOOLEAN,
              attempts: 0 .. MaxPurgeAttempts + MaxErasureOps, forRequest: BOOLEAN]
  /\ purger \in [Purger -> [phase: PurgePhases, seen: SUBSET File]]
  /\ erasureSpent \in [faults: 0 .. MaxErasureFaults, ops: 0 .. MaxErasureOps]

AtRest == [phase |-> "idle", seen |-> {}]

ErasureInit ==
  /\ candidate = "active"
  /\ \E f \in Document :
       vault = [rows |-> {f}, objects |-> {f}, held |-> {}, ever |-> {f}, late |-> {}]
  /\ dsar = "processing"
  /\ job = [status |-> "none", owner |-> Unowned, stale |-> FALSE, attempts |-> 0,
            forRequest |-> FALSE]
  /\ purger = [p \in Purger |-> AtRest]
  /\ erasureSpent = [faults |-> 0, ops |-> 0]

-----------------------------------------------------------------------------
(* What the writes leave in the job.                                       *)

Freed(j) == [j EXCEPT !.owner = Unowned, !.stale = FALSE]

Queued(j) == [Freed(j) EXCEPT !.status = "pending"]

ClaimedFor(j, h) == [j EXCEPT !.status = "processing", !.owner = h, !.stale = FALSE,
                              !.attempts = @ + 1]

\* markCandidateDeletionFailed.
PurgeFailed(j) ==
  [Freed(j) EXCEPT !.status = IF j.attempts >= MaxPurgeAttempts THEN "dead_letter" ELSE "failed"]

-----------------------------------------------------------------------------
(* Recruiters, operators and automations.                                  *)

Command ==
  /\ erasureSpent.ops < MaxErasureOps
  /\ erasureSpent' = [erasureSpent EXCEPT !.ops = @ + 1]

Trash ==
  /\ candidate = "active"
  /\ candidate' = "trashed"
  /\ UNCHANGED <<vault, dsar, job, purger, erasureSpent>>

\* Whatever job there is, and wherever its purge is.
Restore ==
  /\ candidate = "trashed" /\ Command
  /\ candidate' = "active"
  /\ UNCHANGED <<vault, dsar, job, purger>>

Collected(d) == \E p \in Purger : purger[p].phase \in {"erase", "commit"} /\ d \in purger[p].seen

\* A new document, or a new version of one there is, whatever purge is running.
Upload(f) ==
  /\ f \notin vault.ever /\ Command
  /\ IF f \in Document THEN candidate # "erased" ELSE DocumentOf[f] \in vault.rows
  /\ vault' = [vault EXCEPT
       !.rows = @ \cup {f}, !.objects = @ \cup {f}, !.ever = @ \cup {f},
       !.late = @ \cup {g \in {f} \ Document : Collected(DocumentOf[g])}]
  /\ UNCHANGED <<candidate, dsar, job, purger>>

\* Releasing a hold keeps its row, which is all that the purge looks at.
PlaceHold(f) ==
  /\ f \in (vault.rows \cap Document) \ vault.held /\ Command
  /\ vault' = [vault EXCEPT !.held = @ \cup {f}]
  /\ UNCHANGED <<candidate, dsar, job, purger>>

\* An automation's erase action: trash and enqueue are one transaction.
QueueErasure ==
  /\ candidate # "erased" /\ Command
  /\ candidate' = "trashed"
  /\ job' = IF job.status \in {"none", "blocked", "dead_letter"} THEN Queued(job) ELSE job
  /\ UNCHANGED <<vault, dsar, purger>>

RequeueErasure ==
  /\ job.status \in {"blocked", "dead_letter", "failed"} /\ Command
  /\ job' = [Queued(job) EXCEPT !.attempts = 0]
  /\ UNCHANGED <<candidate, vault, dsar, purger>>

-----------------------------------------------------------------------------
(* The requests, up to their claim of the job.                             *)

Goes(p, phase) == purger' = [purger EXCEPT ![p].phase = phase]

Ends(p) == purger' = [purger EXCEPT ![p] = AtRest]

\* A fulfilment trashes the candidate first.
BeginRequest(q) ==
  /\ purger[q] = AtRest /\ Command
  /\ candidate # "erased"
  /\ IF q \in Fulfilment
     THEN dsar # "completed" /\ candidate' = "trashed"
     ELSE UNCHANGED candidate
  /\ Goes(q, "enqueue")
  /\ UNCHANGED <<vault, dsar, job>>

\* The job enqueueCandidateDeletionJob finds decides; a new one needs its candidate.
Enqueue(q) ==
  /\ purger[q].phase = "enqueue"
  /\ LET again == {"blocked", "dead_letter"} \cup (IF q \in Fulfilment THEN {} ELSE {"completed"})
     IN  \/ /\ job.status = "none" /\ candidate # "erased"
            /\ job' = [Queued(job) EXCEPT !.forRequest = q \in Fulfilment]
            /\ Goes(q, "start")
         \/ /\ job.status \in again
            /\ Goes(q, "requeue") /\ UNCHANGED job
         \/ /\ job.status \in {"pending", "failed"}
            /\ Goes(q, "start") /\ UNCHANGED job
         \/ /\ job.status \notin again \cup {"none", "pending", "failed"}
            /\ Ends(q) /\ UNCHANGED job
  /\ UNCHANGED <<candidate, vault, dsar, erasureSpent>>

\* The update names the job by its id alone.
Requeue(q) ==
  /\ purger[q].phase = "requeue"
  /\ job' = Queued(job)
  /\ Goes(q, "start")
  /\ UNCHANGED <<candidate, vault, dsar, erasureSpent>>

\* startCandidateDeletionJob.
Start(q) ==
  /\ purger[q].phase = "start"
  /\ IF job.status \in {"pending", "failed"}
     THEN job' = ClaimedFor(job, HolderOf[q]) /\ Goes(q, "collect")
     ELSE Ends(q) /\ UNCHANGED job
  /\ UNCHANGED <<candidate, vault, dsar, erasureSpent>>

-----------------------------------------------------------------------------
(* The cron call's claim.                                                  *)

\* Mutant: a call that dies keeps the job for ever.
DueErasureUnlocked == job.status \in {"pending", "failed"}

DueErasure ==
  \/ job.status \in {"pending", "failed"}
  \/ job.status = "processing" /\ job.stale /\ job.attempts < MaxPurgeAttempts

\* A job whose candidate is gone is completed without a purge.
ReaperClaims ==
  /\ purger[Reaper] = AtRest /\ DueErasure
  /\ job' = ClaimedFor(job, Reaper)
  /\ Goes(Reaper, IF candidate = "erased" THEN "ok" ELSE "collect")
  /\ UNCHANGED <<candidate, vault, dsar, erasureSpent>>

\* The claim first ends a stale job that has no attempt left.
SweepErasure ==
  /\ purger[Reaper] = AtRest
  /\ job.status = "processing" /\ job.stale /\ job.attempts >= MaxPurgeAttempts
  /\ job' = [Freed(job) EXCEPT !.status = "dead_letter"]
  /\ UNCHANGED <<candidate, vault, dsar, purger, erasureSpent>>

-----------------------------------------------------------------------------
(* permanentlyDeleteCandidate.                                             *)

\* Reads what the candidate has, then the holds on it.
Collect(p) ==
  /\ purger[p].phase = "collect"
  /\ IF candidate # "trashed" THEN Goes(p, "failed")
     ELSE IF vault.rows \cap vault.held # {} THEN Goes(p, "blocked")
     ELSE purger' = [purger EXCEPT ![p] = [phase |-> "erase", seen |-> vault.rows]]
  /\ UNCHANGED <<candidate, vault, dsar, job, erasureSpent>>

\* Mutant: an object that could not be erased does not stop the purge.
AllErasedIgnored(p, gone) == TRUE

AllErased(p, gone) == gone = purger[p].seen

\* Storage may refuse some objects; then the calendars and signature providers may
\* refuse as well.
EraseObjects(p) ==
  /\ purger[p].phase = "erase"
  /\ \E gone \in SUBSET purger[p].seen, outside \in BOOLEAN :
       /\ vault' = [vault EXCEPT !.objects = @ \ gone]
       /\ Goes(p, IF AllErased(p, gone) /\ outside THEN "commit" ELSE "failed")
  /\ UNCHANGED <<candidate, dsar, job, erasureSpent>>

\* Mutant: the foreign key of a hold cascades.
HoldCascades(p) == FALSE

\* The foreign key of a hold restricts the deletion of its document.
HoldRestricts(p) == purger[p].seen \cap vault.held # {}

\* Mutant: the outcome does not look at what the transaction returned.
RowDeletedAssumed == TRUE

RowDeleted == candidate = "trashed"

\* The transaction deletes the collected documents and, by cascade, every version they have
\* by then, completes the erasure request and
\* deletes the candidate if it still is in the trash; it commits in either case.
CommitPurge(p) ==
  /\ purger[p].phase = "commit" /\ ~HoldRestricts(p)
  /\ vault' = [vault EXCEPT !.rows = {f \in @ : DocumentOf[f] \notin purger[p].seen}]
  /\ dsar' = IF candidate # "erased" THEN "completed" ELSE dsar
  /\ candidate' = IF candidate = "trashed" THEN "erased" ELSE candidate
  /\ Goes(p, IF RowDeleted THEN "ok" ELSE "failed")
  /\ UNCHANGED <<job, erasureSpent>>

\* What a call that ends without settling leaves: the next cron call has another id.
Dropped(p) ==
  /\ job' = IF p = Reaper /\ job.owner = Reaper THEN [job EXCEPT !.owner = DeadReaper] ELSE job
  /\ Ends(p)

CommitThrows(p) ==
  /\ purger[p].phase = "commit" /\ HoldRestricts(p)
  /\ Dropped(p)
  /\ UNCHANGED <<candidate, vault, dsar, erasureSpent>>

-----------------------------------------------------------------------------
(* The outcome, written if the job still has the owner of this call.       *)

HolderId(p) == IF p = Reaper THEN Reaper ELSE HolderOf[p]

Holds(p) == job.status = "processing" /\ job.owner = HolderId(p)

Settles(p, x) ==
  /\ job' = IF Holds(p) THEN x ELSE job
  /\ UNCHANGED <<candidate, vault, dsar, erasureSpent>>

MarkCompleted(p) ==
  /\ purger[p].phase = "ok"
  /\ Settles(p, [Freed(job) EXCEPT !.status = "completed"])
  /\ Ends(p)

MarkPurgeFailed(p) ==
  /\ purger[p].phase = "failed"
  /\ Settles(p, PurgeFailed(job))
  /\ Ends(p)

\* The erasure request hears of it next.
MarkBlocked(p) ==
  /\ purger[p].phase = "blocked"
  /\ Settles(p, [Freed(job) EXCEPT !.status = "blocked"])
  /\ IF p \in Fulfilment \/ (p = Reaper /\ job.forRequest) THEN Goes(p, "tell") ELSE Ends(p)

TellRequest(p) ==
  /\ purger[p].phase = "tell"
  /\ dsar' = "blocked"
  /\ Ends(p)
  /\ UNCHANGED <<candidate, vault, job, erasureSpent>>

-----------------------------------------------------------------------------
ErasureFault ==
  /\ erasureSpent.faults < MaxErasureFaults
  /\ erasureSpent' = [erasureSpent EXCEPT !.faults = @ + 1]

CrashPurge(p) ==
  /\ purger[p] # AtRest /\ ErasureFault
  /\ Dropped(p)
  /\ UNCHANGED <<candidate, vault, dsar>>

Purging == {"collect", "erase", "commit", "ok", "failed", "blocked"}

Deserted == \A p \in Purger : HolderId(p) = job.owner => purger[p].phase \notin Purging

\* Ten minutes since the claim: the lock of a call that died, or of one that is slow.
LockAges ==
  /\ job.status = "processing" /\ ~job.stale
  /\ IF Deserted THEN UNCHANGED erasureSpent ELSE ErasureFault
  /\ job' = [job EXCEPT !.stale = TRUE]
  /\ UNCHANGED <<candidate, vault, dsar, purger>>

PurgeStep(p) ==
  \/ Collect(p) \/ EraseObjects(p) \/ CommitPurge(p) \/ CommitThrows(p)
  \/ MarkCompleted(p) \/ MarkPurgeFailed(p) \/ MarkBlocked(p) \/ TellRequest(p)

ErasureNext ==
  \/ Trash \/ Restore \/ QueueErasure \/ RequeueErasure
  \/ \E f \in File : Upload(f) \/ PlaceHold(f)
  \/ \E q \in Request : BeginRequest(q) \/ Enqueue(q) \/ Requeue(q) \/ Start(q)
  \/ ReaperClaims \/ SweepErasure
  \/ \E p \in Purger : PurgeStep(p) \/ CrashPurge(p)
  \/ LockAges

\* A call goes on, the scheduler calls the cron every minute, and a dead lock ages.
ErasureFairness ==
  /\ \A p \in Purger : WF_erasureVars(PurgeStep(p))
  /\ WF_erasureVars(ReaperClaims \/ SweepErasure)
  /\ WF_erasureVars(Deserted /\ LockAges)

ErasureSpec == ErasureInit /\ [][ErasureNext]_erasureVars /\ ErasureFairness

-----------------------------------------------------------------------------
(* Properties.                                                             *)

\* A completed job means an erased candidate, whatever call completed it: no call of
\* the same user, no stale one and no cron call after a restore reports an erasure that
\* did not take place (markCandidateDeletionCompleted).
CompletedMeansErased == job.status = "completed" => candidate = "erased"

\* An object stays named by a row until it is erased, so that a retry finds it, however
\* many purges run at once and wherever they stop (permanentlyDeleteCandidate): only a
\* version added after a purge had collected its document may be left without a row.
NoOrphanObjects == vault.objects \ vault.late \subseteq vault.rows

\* "Fail closed if any object cannot be erased" (data.ts, before the objects are erased):
\* no object is left that the rows do not name.
PurgeFailsClosed == vault.objects \subseteq vault.rows

\* No step deletes the row of a document under a legal hold, also when the hold is
\* placed while a purge is running (document_legal_holds).
HeldRowsSurvive ==
  [][\A f \in vault.rows \cap vault.held : f \in vault'.rows]_erasureVars

\* "The scheduler retries it until it completes, is blocked by a legal hold, or reaches
\* the dead-letter limit" (docs/operations/candidate-deletion.md).
ErasureSettles ==
  job.status \in {"pending", "processing", "failed"}
    ~> job.status \in {"completed", "blocked", "dead_letter"}

\* "Physical objects remain untouched while a hold is active" (schema.ts, the comment
\* of document_legal_holds).
HeldObjectsRemain == vault.held \subseteq vault.objects

\* "Erasure fulfilled by permanent candidate deletion": the note a purge leaves in the
\* request it completes.
FulfilledMeansErased == dsar = "completed" => candidate = "erased"
=============================================================================
