---------------------------- MODULE ServiceProofs ----------------------------
(***************************************************************************)
(* Theorems about the background services beside the runtime.  They share  *)
(* no state; each is proved about under its own specification, for every   *)
(* value of its constants.                                                 *)
(***************************************************************************)
EXTENDS CandidateErasure, EffectQuota, WebhookQueue, EventDispatch, StagePlacement,
        TLAPS, FiniteSetTheorems

-----------------------------------------------------------------------------
(***************************************************************************)
(* Candidates: what the erasure of a candidate promises, for any number of *)
(* documents, requests, users and attempts, wherever calls stop and        *)
(* however many purges run side by side.                                   *)
(***************************************************************************)

Job == [status: JobStatuses, owner: Holder \cup {Unowned, DeadReaper}, stale: BOOLEAN,
        attempts: Nat, forRequest: BOOLEAN]

PurgeCall == [phase: PurgePhases, seen: SUBSET File]

Vault == [rows: SUBSET File, objects: SUBSET File, held: SUBSET Document, ever: SUBSET File,
          late: SUBSET File]

\* The types the proof needs; that attempts are bounded is shown at the end of this section.
ErasureTyped ==
  /\ candidate \in {"active", "trashed", "erased"}
  /\ vault \in Vault
  /\ job \in Job
  /\ purger \in [Purger -> PurgeCall]

\* An object is named by a row, late versions apart, and a purge that is about to delete
\* rows has seen no object of theirs survive; a document uploaded meanwhile is none of
\* those it has seen, and a version it has not seen of one that it has is late.
ObjectsNamed ==
  /\ vault.objects \ vault.late \subseteq vault.rows /\ vault.rows \subseteq vault.ever
  /\ \A p \in Purger :
       /\ purger[p].phase \in {"erase", "commit"} =>
            /\ purger[p].seen \subseteq vault.ever
            /\ \A f \in vault.rows \ vault.late :
                 DocumentOf[f] \in purger[p].seen => f \in purger[p].seen
       /\ purger[p].phase = "commit" => purger[p].seen \cap vault.objects = {}

\* A call that is about to report success, or has, found the candidate erased.
SuccessIsErasure ==
  /\ \A p \in Purger : purger[p].phase = "ok" => candidate = "erased"
  /\ CompletedMeansErased

ErasureInv == ErasureTyped /\ ObjectsNamed /\ SuccessIsErasure

\* What the writes leave in a job is typed, and the status is the one they set.
LEMMA QueuedJob ==
  ASSUME NEW j \in Job
  PROVE  /\ Queued(j) \in Job /\ Queued(j).status = "pending"
         /\ [Queued(j) EXCEPT !.attempts = 0] \in Job
         /\ [Queued(j) EXCEPT !.attempts = 0].status = "pending"
<1>1. Queued(j) \in Job /\ Queued(j).status = "pending"
  BY DEF Freed, Queued, Job, JobStatuses
<1> QED BY <1>1 DEF Job

LEMMA QueuedJobFor ==
  ASSUME NEW j \in Job, NEW b \in BOOLEAN
  PROVE  /\ [Queued(j) EXCEPT !.forRequest = b] \in Job
         /\ [Queued(j) EXCEPT !.forRequest = b].status = "pending"
BY QueuedJob DEF Job

LEMMA ClaimedJob ==
  ASSUME NEW j \in Job, NEW h \in Holder
  PROVE  ClaimedFor(j, h) \in Job /\ ClaimedFor(j, h).status = "processing"
<1> DEFINE taken == [j EXCEPT !.status = "processing", !.owner = h, !.stale = FALSE]
<1>1. taken \in Job /\ taken.status = "processing"
  BY DEF Job, JobStatuses
<1>2. ClaimedFor(j, h) = [taken EXCEPT !.attempts = j.attempts + 1]
  BY DEF ClaimedFor
<1>3. j.attempts + 1 \in Nat
  BY DEF Job
<1> HIDE DEF taken
<1>4. \A n \in Nat : [taken EXCEPT !.attempts = n] \in Job
                     /\ [taken EXCEPT !.attempts = n].status = "processing"
  BY <1>1 DEF Job
<1> QED BY <1>2, <1>3, <1>4

LEMMA FreedJob ==
  ASSUME NEW j \in Job, NEW s \in JobStatuses
  PROVE  [Freed(j) EXCEPT !.status = s] \in Job /\ [Freed(j) EXCEPT !.status = s].status = s
<1>1. Freed(j) \in Job
  BY DEF Freed, Job
<1> QED BY <1>1 DEF Job

LEMMA MarkedJob ==
  ASSUME NEW j \in Job
  PROVE  /\ [j EXCEPT !.stale = TRUE] \in Job /\ [j EXCEPT !.stale = TRUE].status = j.status
         /\ [j EXCEPT !.owner = DeadReaper] \in Job
         /\ [j EXCEPT !.owner = DeadReaper].status = j.status
BY DEF Job

\* A failed purge leaves a job to retry or a dead letter.
LEMMA FailureWrites ==
  ASSUME NEW j \in Job
  PROVE  PurgeFailed(j) \in Job /\ PurgeFailed(j).status # "completed"
<1>1. Freed(j) \in Job
  BY DEF Freed, Job
<1> QED BY <1>1 DEF PurgeFailed, Job, JobStatuses

\* A call that goes on keeps what it has seen; one that ends forgets it.
LEMMA PurgeGoes ==
  ASSUME ErasureTyped, NEW p \in Purger, NEW phase \in PurgePhases, Goes(p, phase)
  PROVE  /\ purger' \in [Purger -> PurgeCall]
         /\ purger'[p].phase = phase /\ purger'[p].seen = purger[p].seen
         /\ \A q \in Purger \ {p} : purger'[q] = purger[q]
<1>1. [purger[p] EXCEPT !.phase = phase] = [phase |-> phase, seen |-> purger[p].seen]
  BY DEF ErasureTyped, PurgeCall
<1>2. [phase |-> phase, seen |-> purger[p].seen] \in PurgeCall
  BY DEF ErasureTyped, PurgeCall
<1> QED BY <1>1, <1>2 DEF ErasureTyped, Goes

LEMMA PurgeEnds ==
  ASSUME ErasureTyped, NEW p \in Purger, Ends(p)
  PROVE  /\ purger' \in [Purger -> PurgeCall] /\ purger'[p].phase = "idle"
         /\ \A q \in Purger \ {p} : purger'[q] = purger[q]
<1>1. AtRest \in PurgeCall /\ AtRest.phase = "idle"
  BY DEF PurgeCall, AtRest, PurgePhases
<1> QED BY <1>1 DEF ErasureTyped, Ends

LEMMA PurgePhasesNamed ==
  {"idle", "enqueue", "requeue", "start", "collect", "commit", "ok", "failed", "blocked", "tell"}
    \subseteq PurgePhases
BY DEF PurgePhases

\* The lock owners of calls are lock owners.
LEMMA HoldersTyped ==
  /\ Request \subseteq Purger /\ Reaper \in Purger /\ Reaper \in Holder
  /\ \A q \in Request : HolderOf[q] \in Holder
BY DEF Purger, Holder

-----------------------------------------------------------------------------
\* The invariant survives whatever leaves the documents alone and moves at most one call,
\* to a phase that promises nothing or keeps a promise that was made.
LEMMA QuietStep ==
  ASSUME ErasureInv, NEW p \in Purger,
         UNCHANGED vault,
         candidate' \in {"active", "trashed", "erased"},
         candidate = "erased" => candidate' = "erased",
         job' \in Job,
         job'.status = "completed" => job.status = "completed" \/ candidate = "erased",
         purger' \in [Purger -> PurgeCall],
         \A q \in Purger \ {p} : purger'[q] = purger[q],
         \/ purger'[p] = purger[p]
         \/ purger'[p].phase \notin {"erase", "commit", "ok"}
         \/ purger'[p].phase = "ok" /\ candidate' = "erased"
  PROVE  ErasureInv'
<1>1. ErasureTyped'
  BY DEF ErasureInv, ErasureTyped
<1>2. ASSUME NEW q \in Purger
      PROVE  /\ purger'[q].phase \in {"erase", "commit"}
                  => purger'[q].phase = purger[q].phase /\ purger'[q].seen = purger[q].seen
             /\ purger'[q].phase = "ok" => candidate' = "erased"
  BY DEF ErasureInv, SuccessIsErasure
<1>3. ObjectsNamed'
  BY <1>2 DEF ErasureInv, ObjectsNamed
<1>4. SuccessIsErasure'
  BY <1>2 DEF ErasureInv, SuccessIsErasure, CompletedMeansErased
<1> QED BY <1>1, <1>3, <1>4 DEF ErasureInv

\* Commands of recruiters, operators and automations.
LEMMA CommandKeeps ==
  ASSUME ErasureInv,
         \/ Trash \/ Restore \/ QueueErasure \/ RequeueErasure
         \/ \E f \in File : Upload(f) \/ PlaceHold(f)
  PROVE  ErasureInv'
<1>0. ErasureTyped /\ job \in Job /\ Reaper \in Purger /\ Reaper \in Holder
  BY HoldersTyped DEF ErasureInv, ErasureTyped
<1>1. CASE Trash \/ Restore
  <2>1. candidate # "erased" /\ candidate' \in {"active", "trashed"}
        /\ UNCHANGED <<vault, job, purger>>
    BY <1>1 DEF Trash, Restore
  <2> QED BY <1>0, <2>1, QuietStep DEF ErasureTyped
<1>2. CASE QueueErasure \/ RequeueErasure
  <2>0. /\ Queued(job) \in Job /\ Queued(job).status = "pending"
        /\ [Queued(job) EXCEPT !.attempts = 0] \in Job
        /\ [Queued(job) EXCEPT !.attempts = 0].status = "pending"
    BY <1>0, QueuedJob
  <2>1. /\ job' \in Job /\ (job'.status = "completed" => job.status = "completed")
        /\ UNCHANGED <<vault, purger>>
    <3>1. CASE QueueErasure
      BY <1>0, <2>0, <3>1 DEF QueueErasure
    <3>2. CASE RequeueErasure
      BY <1>0, <2>0, <3>2 DEF RequeueErasure
    <3> QED BY <1>2, <3>1, <3>2
  <2>2. /\ candidate' \in {"active", "trashed", "erased"}
        /\ candidate = "erased" => candidate' = "erased"
    BY <1>0, <1>2 DEF QueueErasure, RequeueErasure, ErasureTyped
  <2> QED BY <1>0, <2>1, <2>2, QuietStep DEF ErasureTyped
<1>3. ASSUME NEW f \in File, Upload(f)
      PROVE  ErasureInv'
  <2>1. /\ vault'.rows = vault.rows \cup {f} /\ vault'.objects = vault.objects \cup {f}
        /\ vault'.ever = vault.ever \cup {f} /\ f \notin vault.ever
        /\ vault'.late = vault.late \cup {g \in {f} \ Document : Collected(DocumentOf[g])}
        /\ vault' \in Vault
        /\ UNCHANGED <<candidate, job, purger>>
    BY <1>0, <1>3 DEF Upload, ErasureTyped, Vault
  <2>2. ErasureTyped' /\ SuccessIsErasure'
    BY <1>0, <2>1 DEF ErasureInv, ErasureTyped, SuccessIsErasure, CompletedMeansErased
  <2>3. ASSUME NEW p \in Purger, purger[p].phase \in {"erase", "commit"}, f \notin vault'.late
        PROVE  DocumentOf[f] \notin purger[p].seen
    <3>1. CASE f \in Document
      BY <2>1, <2>3, <3>1 DEF ErasureInv, ObjectsNamed, Document
    <3>2. CASE f \notin Document
      BY <2>1, <2>3, <3>2 DEF Collected
    <3> QED BY <3>1, <3>2
  <2>4. ObjectsNamed'
    BY <2>1, <2>3 DEF ErasureInv, ObjectsNamed
  <2> QED BY <2>2, <2>4 DEF ErasureInv
<1>4. ASSUME NEW f \in File, PlaceHold(f)
      PROVE  ErasureInv'
  <2>1. /\ vault'.rows = vault.rows /\ vault'.objects = vault.objects /\ vault'.ever = vault.ever
        /\ vault'.late = vault.late /\ vault' \in Vault
        /\ UNCHANGED <<candidate, job, purger>>
    BY <1>0, <1>4 DEF PlaceHold, ErasureTyped, Vault
  <2> QED BY <1>0, <2>1 DEF ErasureInv, ErasureTyped, ObjectsNamed, SuccessIsErasure,
             CompletedMeansErased
<1> QED BY <1>1, <1>2, <1>3, <1>4

\* The requests up to their claim.
LEMMA RequestKeeps ==
  ASSUME ErasureInv, NEW q \in Request,
         BeginRequest(q) \/ Enqueue(q) \/ Requeue(q) \/ Start(q)
  PROVE  ErasureInv'
<1>0. /\ ErasureTyped /\ job \in Job /\ q \in Purger /\ HolderOf[q] \in Holder
      /\ (q \in Fulfilment) \in BOOLEAN
  BY HoldersTyped DEF ErasureInv, ErasureTyped
<1>1. /\ Queued(job) \in Job /\ Queued(job).status = "pending"
      /\ [Queued(job) EXCEPT !.forRequest = q \in Fulfilment] \in Job
      /\ [Queued(job) EXCEPT !.forRequest = q \in Fulfilment].status = "pending"
      /\ ClaimedFor(job, HolderOf[q]) \in Job
      /\ ClaimedFor(job, HolderOf[q]).status = "processing"
  BY <1>0, QueuedJob, QueuedJobFor, ClaimedJob
<1>2. /\ \A phase \in {"enqueue", "requeue", "start", "collect"} :
           Goes(q, phase) => /\ purger' \in [Purger -> PurgeCall]
                             /\ purger'[q].phase = phase
                             /\ \A o \in Purger \ {q} : purger'[o] = purger[o]
      /\ Ends(q) => /\ purger' \in [Purger -> PurgeCall]
                    /\ purger'[q].phase = "idle"
                    /\ \A o \in Purger \ {q} : purger'[o] = purger[o]
  BY <1>0, PurgeGoes, PurgeEnds, PurgePhasesNamed
<1>3. CASE BeginRequest(q)
  <2>1. /\ candidate' \in {"active", "trashed", "erased"} /\ candidate # "erased"
        /\ Goes(q, "enqueue") /\ UNCHANGED <<vault, job>>
    BY <1>0, <1>3 DEF BeginRequest, ErasureTyped
  <2> QED BY <1>0, <1>2, <2>1, QuietStep
<1>4. CASE Enqueue(q)
  <2>1. /\ job' \in Job /\ (job'.status = "completed" => job.status = "completed")
        /\ Goes(q, "start") \/ Goes(q, "requeue") \/ Ends(q)
        /\ UNCHANGED <<candidate, vault>>
    BY <1>0, <1>1, <1>4 DEF Enqueue
  <2> QED BY <1>0, <1>2, <2>1, QuietStep DEF ErasureTyped
<1>5. CASE Requeue(q)
  <2>1. /\ job' \in Job /\ job'.status = "pending" /\ Goes(q, "start")
        /\ UNCHANGED <<candidate, vault>>
    BY <1>1, <1>5 DEF Requeue
  <2> QED BY <1>0, <1>2, <2>1, QuietStep DEF ErasureTyped
<1>6. CASE Start(q)
  <2>1. /\ job' \in Job /\ (job'.status = "completed" => job.status = "completed")
        /\ Goes(q, "collect") \/ Ends(q)
        /\ UNCHANGED <<candidate, vault>>
    BY <1>0, <1>1, <1>6 DEF Start
  <2> QED BY <1>0, <1>2, <2>1, QuietStep DEF ErasureTyped
<1> QED BY <1>3, <1>4, <1>5, <1>6

\* The claim and the sweep of the cron, and the ageing of a lock.
LEMMA CronKeeps ==
  ASSUME ErasureInv, ReaperClaims \/ SweepErasure \/ LockAges
  PROVE  ErasureInv'
<1>0. /\ ErasureTyped /\ job \in Job /\ Reaper \in Purger /\ Reaper \in Holder
      /\ "dead_letter" \in JobStatuses
  BY HoldersTyped DEF ErasureInv, ErasureTyped, JobStatuses
<1>1. /\ ClaimedFor(job, Reaper) \in Job /\ ClaimedFor(job, Reaper).status = "processing"
      /\ [Freed(job) EXCEPT !.status = "dead_letter"] \in Job
      /\ [Freed(job) EXCEPT !.status = "dead_letter"].status = "dead_letter"
      /\ [job EXCEPT !.stale = TRUE] \in Job /\ [job EXCEPT !.stale = TRUE].status = job.status
  BY <1>0, ClaimedJob, FreedJob, MarkedJob
<1>2. CASE ReaperClaims
  <2>1. /\ job' \in Job /\ job'.status = "processing" /\ UNCHANGED <<candidate, vault>>
        /\ IF candidate = "erased" THEN Goes(Reaper, "ok") ELSE Goes(Reaper, "collect")
    BY <1>1, <1>2 DEF ReaperClaims
  <2>2. \A phase \in {"ok", "collect"} :
          Goes(Reaper, phase) => /\ purger' \in [Purger -> PurgeCall]
                                 /\ purger'[Reaper].phase = phase
                                 /\ \A o \in Purger \ {Reaper} : purger'[o] = purger[o]
    BY <1>0, PurgeGoes, PurgePhasesNamed
  <2> QED BY <1>0, <2>1, <2>2, QuietStep DEF ErasureTyped
<1>3. CASE SweepErasure \/ LockAges
  <2>1. /\ job' \in Job /\ (job'.status = "completed" => job.status = "completed")
        /\ UNCHANGED <<candidate, vault, purger>>
    BY <1>1, <1>3 DEF SweepErasure, LockAges
  <2> QED BY <1>0, <2>1, QuietStep DEF ErasureTyped
<1> QED BY <1>2, <1>3

\* The outcomes, and a call that stops before it writes one.
LEMMA OutcomeKeeps ==
  ASSUME ErasureInv, NEW p \in Purger,
         \/ CommitThrows(p) \/ MarkCompleted(p) \/ MarkPurgeFailed(p)
         \/ MarkBlocked(p) \/ TellRequest(p) \/ CrashPurge(p)
  PROVE  ErasureInv'
<1>0. /\ ErasureTyped /\ job \in Job /\ Reaper \in Holder
      /\ {"completed", "blocked"} \subseteq JobStatuses
  BY HoldersTyped DEF ErasureInv, ErasureTyped, JobStatuses
<1>1. /\ \A s \in {"completed", "blocked"} :
           /\ [Freed(job) EXCEPT !.status = s] \in Job
           /\ [Freed(job) EXCEPT !.status = s].status = s
      /\ [job EXCEPT !.owner = DeadReaper] \in Job
      /\ [job EXCEPT !.owner = DeadReaper].status = job.status
      /\ PurgeFailed(job) \in Job /\ PurgeFailed(job).status # "completed"
  BY <1>0, FreedJob, MarkedJob, FailureWrites
<1>2. Goes(p, "tell") \/ Ends(p)
        => /\ purger' \in [Purger -> PurgeCall]
           /\ purger'[p].phase \in {"tell", "idle"}
           /\ \A o \in Purger \ {p} : purger'[o] = purger[o]
  BY <1>0, PurgeGoes, PurgeEnds, PurgePhasesNamed
<1>3. /\ UNCHANGED <<candidate, vault>>
      /\ Goes(p, "tell") \/ Ends(p)
      /\ job' \in Job
      /\ job'.status = "completed" => job.status = "completed" \/ candidate = "erased"
  <2>1. CASE CommitThrows(p) \/ CrashPurge(p)
    BY <1>1, <1>0, <2>1 DEF CommitThrows, CrashPurge, Dropped
  <2>2. CASE MarkCompleted(p)
    <3>1. candidate = "erased"
      BY <2>2 DEF MarkCompleted, ErasureInv, SuccessIsErasure
    <3> QED BY <1>1, <1>0, <2>2, <3>1 DEF MarkCompleted, Settles
  <2>3. CASE MarkPurgeFailed(p)
    BY <1>1, <1>0, <2>3 DEF MarkPurgeFailed, Settles
  <2>4. CASE MarkBlocked(p)
    BY <1>1, <1>0, <2>4 DEF MarkBlocked, Settles
  <2>5. CASE TellRequest(p)
    BY <1>0, <2>5 DEF TellRequest
  <2> QED BY <2>1, <2>2, <2>3, <2>4, <2>5
<1> QED BY <1>0, <1>2, <1>3, QuietStep DEF ErasureTyped

\* What a purge reads, erases and deletes.
LEMMA PurgeKeeps ==
  ASSUME ErasureInv, NEW p \in Purger, Collect(p) \/ EraseObjects(p) \/ CommitPurge(p)
  PROVE  ErasureInv'
<1>0. /\ ErasureTyped /\ job \in Job /\ ObjectsNamed /\ SuccessIsErasure
      /\ vault \in Vault
      /\ purger[p] \in PurgeCall
  BY DEF ErasureInv, ErasureTyped
<1>1. \A phase \in {"failed", "blocked", "commit", "ok"} :
        Goes(p, phase) => /\ purger' \in [Purger -> PurgeCall]
                          /\ purger'[p].phase = phase /\ purger'[p].seen = purger[p].seen
                          /\ \A o \in Purger \ {p} : purger'[o] = purger[o]
  BY <1>0, PurgeGoes, PurgePhasesNamed
<1>2. CASE Collect(p)
  <2>1. UNCHANGED <<candidate, vault, job>>
    BY <1>2 DEF Collect
  <2>2. CASE Goes(p, "failed") \/ Goes(p, "blocked")
    BY <1>0, <1>1, <2>1, <2>2, QuietStep DEF ErasureTyped
  <2>3. CASE purger' = [purger EXCEPT ![p] = [phase |-> "erase", seen |-> vault.rows]]
    <3>1. /\ purger' \in [Purger -> PurgeCall]
          /\ purger'[p].phase = "erase" /\ purger'[p].seen = vault.rows
          /\ \A o \in Purger \ {p} : purger'[o] = purger[o]
      BY <1>0, <2>3 DEF ErasureTyped, Vault, PurgeCall, PurgePhases
    <3>2. ErasureTyped' /\ SuccessIsErasure'
      BY <1>0, <2>1, <3>1 DEF ErasureTyped, SuccessIsErasure, CompletedMeansErased
    <3>3. ObjectsNamed'
      BY <1>0, <2>1, <3>1 DEF ObjectsNamed
    <3> QED BY <3>2, <3>3 DEF ErasureInv
  <2> QED BY <1>2, <2>2, <2>3 DEF Collect
<1>3. CASE EraseObjects(p)
  <2>1. purger[p].phase = "erase" /\ UNCHANGED <<candidate, job>>
    BY <1>3 DEF EraseObjects
  <2>2. PICK gone \in SUBSET purger[p].seen, outside \in BOOLEAN :
          /\ vault' = [vault EXCEPT !.objects = vault.objects \ gone]
          /\ Goes(p, IF AllErased(p, gone) /\ outside THEN "commit" ELSE "failed")
    BY <1>3 DEF EraseObjects
  <2>3. /\ vault'.rows = vault.rows /\ vault'.ever = vault.ever
        /\ vault'.objects = vault.objects \ gone
        /\ vault'.late = vault.late /\ vault' \in Vault
    BY <1>0, <2>2 DEF Vault
  <2>4. /\ purger' \in [Purger -> PurgeCall] /\ purger'[p].seen = purger[p].seen
        /\ purger'[p].phase \in {"failed", "commit"}
        /\ purger'[p].phase = "commit" => gone = purger[p].seen
        /\ \A o \in Purger \ {p} : purger'[o] = purger[o]
    BY <1>1, <2>2 DEF AllErased
  <2>5. ErasureTyped' /\ SuccessIsErasure'
    BY <1>0, <2>1, <2>3, <2>4 DEF ErasureTyped, SuccessIsErasure, CompletedMeansErased
  <2>6. ObjectsNamed'
    BY <1>0, <2>1, <2>3, <2>4 DEF ObjectsNamed
  <2> QED BY <2>5, <2>6 DEF ErasureInv
<1>4. CASE CommitPurge(p)
  <2>1. /\ purger[p].phase = "commit" /\ UNCHANGED job
        /\ candidate' = IF candidate = "trashed" THEN "erased" ELSE candidate
        /\ Goes(p, IF candidate = "trashed" THEN "ok" ELSE "failed")
    BY <1>4 DEF CommitPurge, RowDeleted
  <2>2. /\ vault'.rows = {f \in vault.rows : DocumentOf[f] \notin purger[p].seen}
        /\ vault'.ever = vault.ever
        /\ vault'.objects = vault.objects
        /\ vault'.late = vault.late /\ vault' \in Vault
    BY <1>0, <1>4 DEF CommitPurge, PurgeCall, Vault
  <2>3. /\ purger' \in [Purger -> PurgeCall] /\ purger'[p].seen = purger[p].seen
        /\ purger'[p].phase \in {"failed", "ok"}
        /\ purger'[p].phase = "ok" => candidate' = "erased"
        /\ \A o \in Purger \ {p} : purger'[o] = purger[o]
    BY <1>1, <2>1
  <2>4. candidate' \in {"active", "trashed", "erased"}
        /\ (candidate = "erased" => candidate' = "erased")
    BY <1>0, <2>1 DEF ErasureTyped
  <2>5. ErasureTyped' /\ SuccessIsErasure'
    BY <1>0, <2>1, <2>2, <2>3, <2>4 DEF ErasureTyped, SuccessIsErasure, CompletedMeansErased
  <2>6. ObjectsNamed'
    BY <1>0, <2>1, <2>2, <2>3 DEF ObjectsNamed
  <2> QED BY <2>5, <2>6 DEF ErasureInv
<1> QED BY <1>2, <1>3, <1>4

LEMMA ErasureInitInv == ErasureInit => ErasureInv
<1> SUFFICES ASSUME ErasureInit PROVE ErasureInv
  OBVIOUS
<1>1. ErasureTyped
  BY DEF ErasureInit, ErasureTyped, Vault, Document, Job, JobStatuses, PurgeCall, AtRest,
         PurgePhases
<1>2. ObjectsNamed /\ SuccessIsErasure
  BY DEF ErasureInit, ObjectsNamed, SuccessIsErasure, CompletedMeansErased, AtRest
<1> QED BY <1>1, <1>2 DEF ErasureInv

LEMMA ErasureStep == ErasureInv /\ [ErasureNext]_erasureVars => ErasureInv'
<1> SUFFICES ASSUME ErasureInv, [ErasureNext]_erasureVars PROVE ErasureInv'
  OBVIOUS
<1>1. CASE UNCHANGED erasureVars
  BY <1>1 DEF ErasureInv, ErasureTyped, ObjectsNamed, SuccessIsErasure, CompletedMeansErased, erasureVars
<1>2. CASE ErasureNext
  BY <1>2, CommandKeeps, RequestKeeps, CronKeeps, PurgeKeeps, OutcomeKeeps
     DEF ErasureNext, PurgeStep
<1> QED BY <1>1, <1>2

\* The types and the ownership of jobs and files hold wherever a call stops.
THEOREM ErasureInductive == ErasureSpec => []ErasureInv
BY ErasureInitInv, ErasureStep, PTL DEF ErasureSpec

-----------------------------------------------------------------------------
\* An object stays named by a row until it is erased, for any number of concurrent purges
\* of which any may stop anywhere (permanentlyDeleteCandidate erases before it deletes), unless
\* it is a version added after a purge had collected its document.
THEOREM ObjectsStayNamed == ErasureSpec => []NoOrphanObjects
<1>1. ErasureInv => NoOrphanObjects
  BY DEF ErasureInv, ObjectsNamed, NoOrphanObjects
<1> QED BY <1>1, ErasureInductive, PTL

\* A job is completed only when its candidate is erased, whichever call completes it and
\* whoever else holds, held or took its lock (markCandidateDeletionCompleted).
THEOREM CompletionIsErasure == ErasureSpec => []CompletedMeansErased
<1>1. ErasureInv => CompletedMeansErased
  BY DEF ErasureInv, SuccessIsErasure
<1> QED BY <1>1, ErasureInductive, PTL

\* No step deletes the row of a held document: a purge whose documents came under a hold
\* after it looked ends without its transaction (document_legal_holds).
THEOREM HoldsAreKept == ErasureSpec => HeldRowsSurvive
<1>1. ErasureInv /\ [ErasureNext]_erasureVars
        => [\A f \in vault.rows \cap vault.held : f \in vault'.rows]_erasureVars
  <2> SUFFICES ASSUME ErasureInv, ErasureNext, NEW f \in vault.rows \cap vault.held
               PROVE  f \in vault'.rows
    OBVIOUS
  <2>0. vault \in Vault
    BY DEF ErasureInv, ErasureTyped
  <2>1. CASE UNCHANGED vault
    BY <2>1
  <2>2. CASE \E g \in File : Upload(g) \/ PlaceHold(g)
    BY <2>0, <2>2 DEF Upload, PlaceHold, Vault
  <2>3. CASE \E p \in Purger : EraseObjects(p) \/ CommitPurge(p)
    BY <2>0, <2>3 DEF EraseObjects, CommitPurge, HoldRestricts, Vault, Document
  <2> QED
    BY <2>1, <2>2, <2>3
       DEF ErasureNext, PurgeStep, Trash, Restore, QueueErasure, RequeueErasure, BeginRequest,
           Enqueue, Requeue, Start, ReaperClaims, SweepErasure, Collect, CommitThrows,
           MarkCompleted, MarkPurgeFailed, MarkBlocked, TellRequest, Settles, CrashPurge, LockAges
<1> QED BY <1>1, ErasureInductive, PTL DEF ErasureSpec, HeldRowsSurvive

-----------------------------------------------------------------------------
(* The attempts of a job.                                                 *)

\* Requests that may still queue the job again.
Waiting == {q \in Request : purger[q].phase \in {"enqueue", "requeue"}}

\* The attempts of a job, the one a pending job is promised included.
Promised(j) == j.attempts + (IF j.status = "pending" THEN 1 ELSE 0)

RetryLeft(j) == j.status = "failed" => j.attempts < MaxPurgeAttempts

\* A queued job may be claimed whatever its attempts: each such claim is owed to a command
\* or a request, and a request that has not queued yet owes nothing so far.
AttemptsPaid ==
  /\ IsFiniteSet(Waiting) /\ Cardinality(Waiting) <= erasureSpent.ops
  /\ Promised(job) + Cardinality(Waiting) <= MaxPurgeAttempts + erasureSpent.ops
  /\ RetryLeft(job)

ErasureCounted ==
  /\ dsar \in {"processing", "blocked", "completed"}
  /\ erasureSpent \in [faults: 0 .. MaxErasureFaults, ops: 0 .. MaxErasureOps]
  /\ AttemptsPaid

LEMMA PromisedType == \A j \in Job : Promised(j) \in Nat /\ j.attempts \in Nat
BY DEF Promised, Job

\* A step in which no request begins, and the job is promised no more than before, or no
\* more than its attempts allow.
LEMMA PromiseKept ==
  ASSUME ErasureTyped, ErasureCounted, job' \in Job,
         dsar' \in {"processing", "blocked", "completed"},
         erasureSpent' \in [faults: 0 .. MaxErasureFaults, ops: 0 .. MaxErasureOps],
         erasureSpent'.ops = erasureSpent.ops,
         Waiting' \subseteq Waiting,
         RetryLeft(job'),
         Promised(job') <= Promised(job) \/ Promised(job') <= MaxPurgeAttempts
  PROVE  ErasureCounted'
<1>1. /\ IsFiniteSet(Waiting') /\ Cardinality(Waiting') <= Cardinality(Waiting)
      /\ Cardinality(Waiting) \in Nat /\ Cardinality(Waiting') \in Nat
  BY FS_Subset, FS_CardinalityType DEF ErasureCounted, AttemptsPaid
<1>2. Promised(job) \in Nat /\ Promised(job') \in Nat /\ erasureSpent.ops \in Nat
      /\ MaxPurgeAttempts \in Nat
  BY PromisedType, ErasureAssumption DEF ErasureTyped, ErasureCounted
<1>3. Cardinality(Waiting') <= erasureSpent'.ops
  BY <1>1, <1>2 DEF ErasureCounted, AttemptsPaid
<1>4. Promised(job') + Cardinality(Waiting') <= MaxPurgeAttempts + erasureSpent'.ops
  BY <1>1, <1>2 DEF ErasureCounted, AttemptsPaid
<1>5. AttemptsPaid'
  <2>1. Promised(job)' = Promised(job') /\ RetryLeft(job)' = RetryLeft(job')
    BY DEF Promised, RetryLeft
  <2> QED BY <1>1, <1>3, <1>4, <2>1 DEF AttemptsPaid
<1> QED BY <1>5 DEF ErasureCounted

\* A request that queues the job turns what it was owed into a promise.
LEMMA PromiseMade ==
  ASSUME ErasureTyped, ErasureCounted, job' \in Job, UNCHANGED <<dsar, erasureSpent>>,
         NEW q \in Waiting, Waiting' = Waiting \ {q},
         RetryLeft(job'), Promised(job') <= Promised(job) + 1
  PROVE  ErasureCounted'
<1>1. /\ IsFiniteSet(Waiting') /\ Cardinality(Waiting') = Cardinality(Waiting) - 1
      /\ Cardinality(Waiting) \in Nat /\ Cardinality(Waiting') \in Nat
  BY FS_RemoveElement, FS_CardinalityType DEF ErasureCounted, AttemptsPaid
<1>2. Promised(job) \in Nat /\ Promised(job') \in Nat /\ erasureSpent.ops \in Nat
      /\ MaxPurgeAttempts \in Nat
  BY PromisedType, ErasureAssumption DEF ErasureTyped, ErasureCounted
<1>3. /\ Cardinality(Waiting') <= erasureSpent'.ops
      /\ Promised(job') + Cardinality(Waiting') <= MaxPurgeAttempts + erasureSpent'.ops
  BY <1>1, <1>2 DEF ErasureCounted, AttemptsPaid
<1>4. Promised(job)' = Promised(job') /\ RetryLeft(job)' = RetryLeft(job')
  BY DEF Promised, RetryLeft
<1> QED BY <1>1, <1>3, <1>4 DEF ErasureCounted, AttemptsPaid

LEMMA CommandSpent ==
  ASSUME ErasureCounted, Command
  PROVE  /\ erasureSpent' \in [faults: 0 .. MaxErasureFaults, ops: 0 .. MaxErasureOps]
         /\ erasureSpent'.ops = erasureSpent.ops + 1 /\ erasureSpent.ops \in Nat
BY ErasureAssumption DEF ErasureCounted, Command

\* A command pays for one promise, and a request that begins for the one it may make.
LEMMA PromisePaid ==
  ASSUME ErasureTyped, ErasureCounted, job' \in Job, Command, UNCHANGED dsar,
         \/ UNCHANGED Waiting /\ RetryLeft(job')
              /\ (Promised(job') <= Promised(job) + 1 \/ Promised(job') <= MaxPurgeAttempts)
         \/ UNCHANGED job /\ \E q \in Request \ Waiting : Waiting' = Waiting \cup {q}
  PROVE  ErasureCounted'
<1>1. /\ IsFiniteSet(Waiting') /\ Cardinality(Waiting) \in Nat /\ Cardinality(Waiting') \in Nat
      /\ \/ UNCHANGED Waiting /\ Cardinality(Waiting') = Cardinality(Waiting)
         \/ Waiting' # Waiting /\ UNCHANGED job /\ Cardinality(Waiting') = Cardinality(Waiting) + 1
  <2>1. IsFiniteSet(Waiting) /\ Cardinality(Waiting) \in Nat
    BY FS_CardinalityType DEF ErasureCounted, AttemptsPaid
  <2>2. CASE UNCHANGED Waiting
    BY <2>1, <2>2
  <2>3. ASSUME NEW q \in Request \ Waiting, Waiting' = Waiting \cup {q}, UNCHANGED job
        PROVE  /\ IsFiniteSet(Waiting') /\ Cardinality(Waiting') \in Nat
               /\ Waiting' # Waiting /\ Cardinality(Waiting') = Cardinality(Waiting) + 1
    BY <2>1, <2>3, FS_AddElement, FS_CardinalityType
  <2> QED BY <2>1, <2>2, <2>3
<1>2. Promised(job) \in Nat /\ Promised(job') \in Nat /\ MaxPurgeAttempts \in Nat
  BY PromisedType, ErasureAssumption DEF ErasureTyped
<1>3. RetryLeft(job')
  BY DEF ErasureCounted, AttemptsPaid
<1>4. /\ Cardinality(Waiting') <= erasureSpent'.ops
      /\ Promised(job') + Cardinality(Waiting') <= MaxPurgeAttempts + erasureSpent'.ops
  BY <1>1, <1>2, CommandSpent DEF ErasureCounted, AttemptsPaid
<1>5. Promised(job)' = Promised(job') /\ RetryLeft(job)' = RetryLeft(job')
  BY DEF Promised, RetryLeft
<1> QED BY <1>1, <1>3, <1>4, <1>5, CommandSpent DEF ErasureCounted, AttemptsPaid

\* What the writes of a job promise.
LEMMA PromiseOfQueue ==
  ASSUME NEW j \in Job, NEW x, x.status = "pending", x.attempts \in {0, j.attempts}
  PROVE  /\ RetryLeft(x)
         /\ Promised(x) <= Promised(j) + 1
BY ErasureAssumption DEF RetryLeft, Promised, Job

LEMMA PromiseOfMark ==
  ASSUME NEW j \in Job, RetryLeft(j), NEW x, x.status = j.status, x.attempts = j.attempts
  PROVE  RetryLeft(x) /\ Promised(x) <= Promised(j)
BY DEF RetryLeft, Promised, Job

LEMMA PromiseOfEnd ==
  ASSUME NEW j \in Job, NEW x, x.attempts = j.attempts, x.status # "pending",
         x.status = "failed" => j.attempts < MaxPurgeAttempts
  PROVE  RetryLeft(x) /\ Promised(x) <= Promised(j)
BY DEF RetryLeft, Promised, Job

LEMMA PromiseOfClaim ==
  ASSUME NEW j \in Job, RetryLeft(j), NEW h,
         j.status = "pending" \/ j.attempts < MaxPurgeAttempts
  PROVE  /\ RetryLeft(ClaimedFor(j, h))
         /\ \/ Promised(ClaimedFor(j, h)) <= Promised(j)
            \/ Promised(ClaimedFor(j, h)) <= MaxPurgeAttempts
<1>1. ClaimedFor(j, h).attempts = j.attempts + 1 /\ ClaimedFor(j, h).status = "processing"
  BY DEF ClaimedFor, Job
<1>2. MaxPurgeAttempts \in Nat \ {0} /\ j.attempts \in Nat
  BY ErasureAssumption DEF Job
<1> QED BY <1>1, <1>2 DEF RetryLeft, Promised

\* Where the requests are: a step moves one call.
LEMMA WaitingMoves ==
  ASSUME ErasureTyped, NEW p \in Purger, \A o \in Purger \ {p} : purger'[o] = purger[o]
  PROVE  /\ purger'[p].phase \notin {"enqueue", "requeue"} => Waiting' \subseteq Waiting
         /\ p \in Waiting /\ purger'[p].phase \notin {"enqueue", "requeue"}
              => Waiting' = Waiting \ {p}
         /\ p \in Waiting /\ purger'[p].phase \in {"enqueue", "requeue"} => UNCHANGED Waiting
         /\ p \in Request \ Waiting /\ purger'[p].phase \in {"enqueue", "requeue"}
              => Waiting' = Waiting \cup {p}
         /\ p = Reaper => UNCHANGED Waiting
BY ErasureAssumption DEF Waiting, Purger

LEMMA CommandCounted ==
  ASSUME ErasureInv, ErasureCounted,
         \/ Trash \/ Restore \/ QueueErasure \/ RequeueErasure
         \/ \E f \in File : Upload(f) \/ PlaceHold(f)
  PROVE  ErasureCounted'
<1>0. ErasureTyped /\ job \in Job /\ ErasureInv' /\ job' \in Job /\ RetryLeft(job)
  BY CommandKeeps DEF ErasureInv, ErasureTyped, ErasureCounted, AttemptsPaid
<1>1. UNCHANGED <<purger, dsar>> /\ UNCHANGED Waiting
  BY DEF Trash, Restore, QueueErasure, RequeueErasure, Upload, PlaceHold, Waiting
<1>2. CASE Trash
  <2>1. UNCHANGED <<job, erasureSpent>>
    BY <1>2 DEF Trash
  <2> QED BY <1>1, <2>1 DEF ErasureCounted, AttemptsPaid
<1>3. CASE ~Trash
  <2>1. Command
    BY <1>3 DEF Restore, QueueErasure, RequeueErasure, Upload, PlaceHold
  <2>2. job' \in {job, Queued(job), [Queued(job) EXCEPT !.attempts = 0]}
    BY <1>3 DEF Restore, QueueErasure, RequeueErasure, Upload, PlaceHold
  <2>3. RetryLeft(job') /\ Promised(job') <= Promised(job) + 1
    <3>1. CASE job' = job
      BY <1>0, <3>1, PromisedType
    <3>2. CASE job' \in {Queued(job), [Queued(job) EXCEPT !.attempts = 0]}
      <4>1. job'.status = "pending" /\ job'.attempts \in {0, job.attempts}
        BY <1>0, <3>2 DEF Queued, Freed, Job
      <4> QED BY <1>0, <4>1, PromiseOfQueue
    <3> QED BY <2>2, <3>1, <3>2
  <2> QED BY <1>0, <1>1, <2>1, <2>3, PromisePaid
<1> QED BY <1>2, <1>3

LEMMA RequestCounted ==
  ASSUME ErasureInv, ErasureCounted, NEW q \in Request,
         BeginRequest(q) \/ Enqueue(q) \/ Requeue(q) \/ Start(q)
  PROVE  ErasureCounted'
<1>0. /\ ErasureTyped /\ job \in Job /\ q \in Purger /\ ErasureInv' /\ job' \in Job
      /\ RetryLeft(job) /\ Promised(job) \in Nat /\ UNCHANGED dsar
      /\ dsar \in {"processing", "blocked", "completed"}
      /\ erasureSpent \in [faults: 0 .. MaxErasureFaults, ops: 0 .. MaxErasureOps]
  BY RequestKeeps, HoldersTyped, PromisedType
     DEF ErasureInv, ErasureTyped, ErasureCounted, AttemptsPaid, BeginRequest, Enqueue, Requeue, Start
<1>1. /\ \A phase \in {"enqueue", "requeue", "start", "collect"} :
           Goes(q, phase) => /\ purger'[q].phase = phase
                             /\ \A o \in Purger \ {q} : purger'[o] = purger[o]
      /\ Ends(q) => /\ purger'[q].phase = "idle"
                    /\ \A o \in Purger \ {q} : purger'[o] = purger[o]
  BY <1>0, PurgeGoes, PurgeEnds, PurgePhasesNamed
<1>2. CASE BeginRequest(q)
  <2>1. /\ Command /\ UNCHANGED job /\ Goes(q, "enqueue") /\ purger[q].phase = "idle"
    BY <1>2 DEF BeginRequest, AtRest
  <2>2. q \in Request \ Waiting
    BY <2>1 DEF Waiting
  <2>3. Waiting' = Waiting \cup {q}
    BY <1>0, <1>1, <2>1, <2>2, WaitingMoves
  <2> QED BY <1>0, <2>1, <2>2, <2>3, PromisePaid
<1>3. CASE Enqueue(q)
  <2>1. q \in Waiting /\ UNCHANGED erasureSpent
    BY <1>3 DEF Enqueue, Waiting
  <2>2. /\ Goes(q, "start") \/ Goes(q, "requeue") \/ Ends(q)
        /\ \/ job' = [Queued(job) EXCEPT !.forRequest = q \in Fulfilment] /\ Goes(q, "start")
           \/ job' = job
    BY <1>3 DEF Enqueue
  <2>3. RetryLeft(job') /\ Promised(job') <= Promised(job) + 1
    <3>1. CASE job' = job
      BY <1>0, <3>1
    <3>2. CASE job' = [Queued(job) EXCEPT !.forRequest = q \in Fulfilment]
      <4>1. job'.status = "pending" /\ job'.attempts = job.attempts
        BY <1>0, <3>2 DEF Queued, Freed, Job
      <4> QED BY <1>0, <4>1, PromiseOfQueue
    <3> QED BY <2>2, <3>1, <3>2
  <2>4. CASE Goes(q, "requeue") /\ UNCHANGED job
    <3>1. UNCHANGED Waiting
      BY <1>0, <1>1, <2>1, <2>4, WaitingMoves
    <3>2. Promised(job') <= Promised(job)
      BY <1>0, <2>4
    <3> QED BY <1>0, <2>1, <2>3, <3>1, <3>2, PromiseKept
  <2>5. CASE Goes(q, "start") \/ Ends(q)
    <3>1. Waiting' = Waiting \ {q}
      BY <1>0, <1>1, <2>1, <2>5, WaitingMoves
    <3> QED BY <1>0, <2>1, <2>3, <3>1, PromiseMade
  <2>6. CASE Goes(q, "requeue") /\ Goes(q, "start")
    BY <1>1, <2>6
  <2> QED BY <2>2, <2>4, <2>5
<1>4. CASE Requeue(q)
  <2>1. /\ q \in Waiting /\ UNCHANGED erasureSpent /\ Goes(q, "start")
        /\ job'.status = "pending" /\ job'.attempts = job.attempts
    BY <1>0, <1>4 DEF Requeue, Waiting, Queued, Freed, Job
  <2>2. Waiting' = Waiting \ {q}
    BY <1>0, <1>1, <2>1, WaitingMoves
  <2>3. RetryLeft(job') /\ Promised(job') <= Promised(job) + 1
    BY <1>0, <2>1, PromiseOfQueue
  <2> QED BY <1>0, <2>1, <2>2, <2>3, PromiseMade
<1>5. CASE Start(q)
  <2>1. UNCHANGED erasureSpent /\ (Goes(q, "collect") \/ Ends(q))
    BY <1>5 DEF Start
  <2>2. Waiting' \subseteq Waiting
    BY <1>0, <1>1, <2>1, WaitingMoves
  <2>3. /\ RetryLeft(job')
        /\ Promised(job') <= Promised(job) \/ Promised(job') <= MaxPurgeAttempts
    <3>1. CASE job' = job
      BY <1>0, <3>1
    <3>2. CASE job.status \in {"pending", "failed"} /\ job' = ClaimedFor(job, HolderOf[q])
      BY <1>0, <3>2, PromiseOfClaim DEF RetryLeft
    <3> QED BY <1>5, <3>1, <3>2 DEF Start
  <2> QED BY <1>0, <2>1, <2>2, <2>3, PromiseKept
<1> QED BY <1>2, <1>3, <1>4, <1>5

LEMMA ErasureFaultSpent ==
  ASSUME ErasureCounted, ErasureFault \/ UNCHANGED erasureSpent
  PROVE  /\ erasureSpent' \in [faults: 0 .. MaxErasureFaults, ops: 0 .. MaxErasureOps]
         /\ erasureSpent'.ops = erasureSpent.ops
BY ErasureAssumption DEF ErasureCounted, ErasureFault

LEMMA CronCounted ==
  ASSUME ErasureInv, ErasureCounted, ReaperClaims \/ SweepErasure \/ LockAges
  PROVE  ErasureCounted'
<1>0. /\ ErasureTyped /\ job \in Job /\ Reaper \in Purger /\ ErasureInv' /\ job' \in Job
      /\ RetryLeft(job) /\ Promised(job) \in Nat /\ UNCHANGED dsar
      /\ dsar \in {"processing", "blocked", "completed"}
  BY CronKeeps, HoldersTyped, PromisedType
     DEF ErasureInv, ErasureTyped, ErasureCounted, AttemptsPaid, ReaperClaims, SweepErasure, LockAges
<1>1. ErasureFault \/ UNCHANGED erasureSpent
  BY DEF ReaperClaims, SweepErasure, LockAges
<1>2. Waiting' \subseteq Waiting
  <2>1. CASE ReaperClaims
    <3>1. Goes(Reaper, "ok") \/ Goes(Reaper, "collect")
      BY <2>1 DEF ReaperClaims
    <3>2. \A phase \in {"ok", "collect"} :
            Goes(Reaper, phase) => \A o \in Purger \ {Reaper} : purger'[o] = purger[o]
      BY <1>0, PurgeGoes, PurgePhasesNamed
    <3> QED BY <1>0, <3>1, <3>2, WaitingMoves
  <2>2. CASE SweepErasure \/ LockAges
    BY <2>2 DEF SweepErasure, LockAges, Waiting
  <2> QED BY <2>1, <2>2
<1>3. /\ RetryLeft(job')
      /\ Promised(job') <= Promised(job) \/ Promised(job') <= MaxPurgeAttempts
  <2>1. CASE ReaperClaims
    <3>1. job' = ClaimedFor(job, Reaper)
      BY <2>1 DEF ReaperClaims
    <3>2. job.status = "pending" \/ job.attempts < MaxPurgeAttempts
      BY <1>0, <2>1 DEF ReaperClaims, DueErasure, RetryLeft
    <3> QED BY <1>0, <3>1, <3>2, PromiseOfClaim
  <2>2. CASE SweepErasure
    <3>1. job'.status = "dead_letter" /\ job'.attempts = job.attempts
      BY <1>0, <2>2 DEF SweepErasure, Freed, Job
    <3> QED BY <1>0, <3>1, PromiseOfEnd
  <2>3. CASE LockAges
    <3>1. job'.status = job.status /\ job'.attempts = job.attempts
      BY <1>0, <2>3 DEF LockAges, Job
    <3> QED BY <1>0, <3>1, PromiseOfMark
  <2> QED BY <2>1, <2>2, <2>3
<1> QED BY <1>0, <1>1, <1>2, <1>3, ErasureFaultSpent, PromiseKept

LEMMA OutcomeCounted ==
  ASSUME ErasureInv, ErasureCounted, NEW p \in Purger, PurgeStep(p) \/ CrashPurge(p)
  PROVE  ErasureCounted'
<1>0. /\ ErasureTyped /\ job \in Job /\ ErasureInv' /\ job' \in Job
      /\ RetryLeft(job) /\ Promised(job) \in Nat
      /\ dsar \in {"processing", "blocked", "completed"}
  BY OutcomeKeeps, PurgeKeeps, PromisedType
     DEF ErasureInv, ErasureTyped, ErasureCounted, AttemptsPaid, PurgeStep
<1>1. ErasureFault \/ UNCHANGED erasureSpent
  BY DEF PurgeStep, CrashPurge, Collect, EraseObjects, CommitPurge, CommitThrows, MarkCompleted,
         MarkPurgeFailed, MarkBlocked, TellRequest, Settles
<1>2. dsar' \in {"processing", "blocked", "completed"}
  BY <1>0 DEF PurgeStep, CrashPurge, Collect, EraseObjects, CommitPurge, CommitThrows,
         MarkCompleted, MarkPurgeFailed, MarkBlocked, TellRequest, Settles
<1>3. Waiting' \subseteq Waiting
  <2>1. \/ \E phase \in {"failed", "blocked", "commit", "ok", "tell"} : Goes(p, phase)
        \/ Ends(p)
        \/ purger' = [purger EXCEPT ![p] = [phase |-> "erase", seen |-> vault.rows]]
    BY DEF PurgeStep, CrashPurge, Collect, EraseObjects, CommitPurge, CommitThrows,
         MarkCompleted, MarkPurgeFailed, MarkBlocked, TellRequest, Dropped
  <2>2. /\ purger'[p].phase \notin {"enqueue", "requeue"}
        /\ \A o \in Purger \ {p} : purger'[o] = purger[o]
    <3>1. CASE \E phase \in {"failed", "blocked", "commit", "ok", "tell"} : Goes(p, phase)
      BY <1>0, <3>1, PurgeGoes, PurgePhasesNamed
    <3>2. CASE Ends(p)
      BY <1>0, <3>2, PurgeEnds
    <3>3. CASE purger' = [purger EXCEPT ![p] = [phase |-> "erase", seen |-> vault.rows]]
      BY <1>0, <3>3 DEF ErasureTyped
    <3> QED BY <2>1, <3>1, <3>2, <3>3
  <2> QED BY <1>0, <2>2, WaitingMoves
<1>4. RetryLeft(job') /\ Promised(job') <= Promised(job)
  <2>1. CASE job' = job
    BY <1>0, <2>1
  <2>2. CASE job' = [job EXCEPT !.owner = DeadReaper]
    <3>1. job'.status = job.status /\ job'.attempts = job.attempts
      BY <1>0, <2>2 DEF Job
    <3> QED BY <1>0, <3>1, PromiseOfMark
  <2>3. CASE \E s \in {"completed", "blocked"} : job' = [Freed(job) EXCEPT !.status = s]
    <3>1. job'.status \in {"completed", "blocked"} /\ job'.attempts = job.attempts
      BY <1>0, <2>3 DEF Freed, Job
    <3> QED BY <1>0, <3>1, PromiseOfEnd
  <2>4. CASE job' = PurgeFailed(job)
    <3>1. /\ job'.attempts = job.attempts
          /\ job'.status = IF job.attempts >= MaxPurgeAttempts THEN "dead_letter" ELSE "failed"
      BY <1>0, <2>4 DEF PurgeFailed, Freed, Job
    <3>2. job.attempts \in Nat /\ MaxPurgeAttempts \in Nat
      BY <1>0, ErasureAssumption DEF Job
    <3> QED BY <1>0, <3>1, <3>2, PromiseOfEnd
  <2>5. \/ job' = job \/ job' = [job EXCEPT !.owner = DeadReaper]
        \/ \E s \in {"completed", "blocked"} : job' = [Freed(job) EXCEPT !.status = s]
        \/ job' = PurgeFailed(job)
    BY DEF PurgeStep, CrashPurge, Collect, EraseObjects, CommitPurge, CommitThrows,
           MarkCompleted, MarkPurgeFailed, MarkBlocked, TellRequest, Settles, Dropped
  <2> QED BY <2>1, <2>2, <2>3, <2>4, <2>5
<1> QED BY <1>0, <1>1, <1>2, <1>3, <1>4, ErasureFaultSpent, PromiseKept

LEMMA ErasureCountedStep ==
  ErasureInv /\ ErasureCounted /\ [ErasureNext]_erasureVars => ErasureCounted'
<1> SUFFICES ASSUME ErasureInv, ErasureCounted, [ErasureNext]_erasureVars
             PROVE  ErasureCounted'
  OBVIOUS
<1>1. CASE UNCHANGED erasureVars
  BY <1>1 DEF ErasureCounted, AttemptsPaid, Waiting, Promised, RetryLeft, erasureVars
<1>2. CASE ErasureNext
  BY <1>2, CommandCounted, RequestCounted, CronCounted, OutcomeCounted DEF ErasureNext
<1> QED BY <1>1, <1>2

LEMMA ErasureInitCounted == ErasureInit => ErasureCounted
<1> SUFFICES ASSUME ErasureInit PROVE ErasureCounted
  OBVIOUS
<1>1. Waiting = {}
  BY DEF ErasureInit, Waiting, AtRest, Purger
<1>2. IsFiniteSet(Waiting) /\ Cardinality(Waiting) = 0
  BY <1>1, FS_EmptySet
<1>3. Promised(job) = 0 /\ RetryLeft(job)
  BY DEF ErasureInit, Promised, RetryLeft
<1> QED BY <1>2, <1>3, ErasureAssumption DEF ErasureInit, ErasureCounted, AttemptsPaid

LEMMA ErasureTypes == ErasureInv /\ ErasureCounted => ErasureTypeOK
<1> SUFFICES ASSUME ErasureInv, ErasureCounted PROVE ErasureTypeOK
  OBVIOUS
<1>1. job \in Job /\ ErasureTyped
  BY DEF ErasureInv, ErasureTyped
<1>2. job.attempts \in 0 .. MaxPurgeAttempts + MaxErasureOps
  <2>1. /\ job.attempts \in Nat /\ job.attempts <= Promised(job) /\ Promised(job) \in Nat
        /\ MaxPurgeAttempts \in Nat /\ MaxErasureOps \in Nat
    BY <1>1, ErasureAssumption DEF Promised, Job
  <2>2. /\ erasureSpent.ops \in 0 .. MaxErasureOps
        /\ Promised(job) + Cardinality(Waiting) <= MaxPurgeAttempts + erasureSpent.ops
        /\ Cardinality(Waiting) \in Nat
    BY FS_CardinalityType DEF ErasureCounted, AttemptsPaid
  <2> QED BY <2>1, <2>2
<1>3. job \in [status: JobStatuses, owner: Holder \cup {Unowned, DeadReaper}, stale: BOOLEAN,
               attempts: 0 .. MaxPurgeAttempts + MaxErasureOps, forRequest: BOOLEAN]
  BY <1>1, <1>2 DEF Job
<1> QED BY <1>1, <1>3 DEF ErasureTyped, ErasureCounted, ErasureTypeOK, PurgeCall, Vault

\* Whatever is retried, requeued or taken over, a job is attempted at most MAX_ATTEMPTS
\* times and once more for each command or request that queued it again (deletion-jobs.ts).
THEOREM ErasureAttemptsAreBounded == ErasureSpec => []ErasureTypeOK
<1>1. ErasureSpec => [](ErasureInv /\ ErasureCounted)
  BY ErasureInitInv, ErasureStep, ErasureInitCounted, ErasureCountedStep, PTL DEF ErasureSpec
<1> QED BY <1>1, ErasureTypes, PTL

-----------------------------------------------------------------------------
(***************************************************************************)
(* The operational policy: for any limits, workflows and minutes, an       *)
(* effect that started holds a slot of the minute it is paid from, in the  *)
(* window of its workspace and of its workflow, and a slot that is put     *)
(* back comes back.                                                        *)
(***************************************************************************)

USE EffectQuotaAssumption

\* A slot of minute m is charged for the effect: it holds the slot, or is about to give
\* it back.
TakesSlot(x) == call[x].at \in {"reserved", "refused"} \/ call[x].started

Charged(m) == {x \in Effect : call[x].receipt = m /\ TakesSlot(x)}
ChargedTo(m, f) == {x \in Charged(m) : FlowOf[x] = f}
ChargedEver == {x \in Effect : TakesSlot(x)}

\* Every charge is covered in every counter that limits it.
SlotsCovered ==
  /\ \A m \in Minute :
       /\ Cardinality(Charged(m)) <= bucket[m].space
       /\ \A f \in Flow : Cardinality(ChargedTo(m, f)) <= bucket[m].flow[f]
  /\ Cardinality(ChargedEver) <= lineage

ChargesKept == lineage <= Cardinality(ChargedEver) + quotaFaults

\* Only an effect that was permitted has started.
StartedOnce ==
  \A x \in Effect :
    call[x].started => call[x].at \in {"running", "succeeded", "failed", "uncertain",
                                       "settled", "lost"}

QuotaInv == QuotaTypeOK /\ SlotsCovered /\ ChargesKept /\ StartedOnce

Receipt == [at: Places, receipt: Minute, after: 0 .. MaxMinute + 1, started: BOOLEAN]

LEMMA EffectSets ==
  /\ \A S \in SUBSET Effect : IsFiniteSet(S) /\ Cardinality(S) \in Nat
  /\ \A S \in SUBSET Effect : \A T \in SUBSET S : Cardinality(T) <= Cardinality(S)
  /\ \A S \in SUBSET Effect : \A x \in S :
       Cardinality(S \ {x}) = Cardinality(S) - 1
  /\ \A S \in SUBSET Effect : \A x \in Effect \ S :
       Cardinality(S \cup {x}) = Cardinality(S) + 1
<1>1. \A S \in SUBSET Effect : IsFiniteSet(S) /\ Cardinality(S) \in Nat
  BY FS_Subset, FS_CardinalityType
<1>2. \A S \in SUBSET Effect : \A T \in SUBSET S : Cardinality(T) <= Cardinality(S)
  BY <1>1, FS_Subset
<1>3. \A S \in SUBSET Effect : \A x \in S : Cardinality(S \ {x}) = Cardinality(S) - 1
  BY <1>1, FS_RemoveElement
<1>4. \A S \in SUBSET Effect : \A x \in Effect \ S : Cardinality(S \cup {x}) = Cardinality(S) + 1
  BY <1>1, FS_AddElement
<1> QED BY <1>1, <1>2, <1>3, <1>4

\* The sets of charges are sets of effects.
LEMMA ChargeSets ==
  /\ \A m, f : Charged(m) \subseteq Effect /\ ChargedTo(m, f) \subseteq Effect
  /\ ChargedEver \subseteq Effect
BY DEF Charged, ChargedTo, ChargedEver

LEMMA QuotaStart == QuotaInit => QuotaInv
<1> SUFFICES ASSUME QuotaInit PROVE QuotaInv
  OBVIOUS
<1>1. QuotaTypeOK
  BY DEF QuotaInit, QuotaTypeOK, Places, Minute
<1>2. StartedOnce
  BY DEF QuotaInit, StartedOnce
<1>3. /\ \A m \in Minute : Charged(m) = {} /\ \A f \in Flow : ChargedTo(m, f) = {}
      /\ ChargedEver = {}
  BY DEF QuotaInit, Charged, ChargedTo, ChargedEver, TakesSlot
<1>4. Cardinality({}) = 0
  BY FS_EmptySet
<1>5. SlotsCovered
  <2>1. \A m \in Minute : /\ Cardinality(Charged(m)) = 0 /\ bucket[m].space = 0
                          /\ \A f \in Flow : Cardinality(ChargedTo(m, f)) = 0 /\ bucket[m].flow[f] = 0
    BY <1>3, <1>4 DEF QuotaInit
  <2>2. Cardinality(ChargedEver) = 0 /\ lineage = 0
    BY <1>3, <1>4 DEF QuotaInit
  <2> QED BY <2>1, <2>2 DEF SlotsCovered
<1>6. ChargesKept
  BY <1>3, <1>4 DEF QuotaInit, ChargesKept
<1> QED BY <1>1, <1>2, <1>5, <1>6 DEF QuotaInv

\* The counters stay, and no effect gains a charge.
LEMMA NoNewCharge ==
  ASSUME QuotaInv, UNCHANGED <<bucket, lineage>>,
         \A y \in Effect : TakesSlot(y)' => TakesSlot(y) /\ call'[y].receipt = call[y].receipt
  PROVE  SlotsCovered'
<1>1. /\ \A m, f : Charged(m)' \subseteq Charged(m) /\ ChargedTo(m, f)' \subseteq ChargedTo(m, f)
      /\ ChargedEver' \subseteq ChargedEver
  BY DEF Charged, ChargedTo, ChargedEver
<1>2. /\ \A m, f : /\ Cardinality(Charged(m)') <= Cardinality(Charged(m))
                   /\ Cardinality(ChargedTo(m, f)') <= Cardinality(ChargedTo(m, f))
      /\ Cardinality(ChargedEver') <= Cardinality(ChargedEver)
  BY <1>1, ChargeSets, EffectSets
<1>3. /\ \A m, f : /\ Cardinality(Charged(m)) \in Nat /\ Cardinality(Charged(m)') \in Nat
                   /\ Cardinality(ChargedTo(m, f)) \in Nat /\ Cardinality(ChargedTo(m, f)') \in Nat
      /\ Cardinality(ChargedEver) \in Nat /\ Cardinality(ChargedEver') \in Nat
  BY <1>1, ChargeSets, EffectSets
<1>4. /\ \A m \in Minute : bucket[m].space \in Nat /\ \A f \in Flow : bucket[m].flow[f] \in Nat
      /\ lineage \in Nat
  BY DEF QuotaInv, QuotaTypeOK
<1> QED BY <1>2, <1>3, <1>4 DEF QuotaInv, SlotsCovered

\* And none loses it, or a fault pays for the one that does.
LEMMA ChargesStay ==
  ASSUME QuotaInv, UNCHANGED lineage,
         \/ quotaFaults' = quotaFaults /\ ChargedEver' = ChargedEver
         \/ quotaFaults' = quotaFaults + 1
              /\ \E x \in Effect : ChargedEver' \in {ChargedEver, ChargedEver \ {x}}
  PROVE  ChargesKept'
<1>1. lineage \in Nat /\ quotaFaults \in Nat /\ Cardinality(ChargedEver) \in Nat
      /\ lineage <= Cardinality(ChargedEver) + quotaFaults
  BY ChargeSets, EffectSets DEF QuotaInv, QuotaTypeOK, ChargesKept
<1>2. CASE quotaFaults' = quotaFaults /\ ChargedEver' = ChargedEver
  BY <1>1, <1>2 DEF ChargesKept
<1>3. CASE quotaFaults' = quotaFaults + 1
              /\ \E x \in Effect : ChargedEver' \in {ChargedEver, ChargedEver \ {x}}
  <2>1. Cardinality(ChargedEver') \in Nat /\ Cardinality(ChargedEver') >= Cardinality(ChargedEver) - 1
    <3>1. \A x : x \notin ChargedEver => ChargedEver \ {x} = ChargedEver
      OBVIOUS
    <3> QED BY <1>1, <1>3, <3>1, ChargeSets, EffectSets
  <2> QED BY <1>1, <1>3, <2>1 DEF ChargesKept
<1> QED BY <1>2, <1>3

\* One effect takes a slot of minute r.
LEMMA ChargeAdded ==
  ASSUME NEW x \in Effect, NEW r \in Minute,
         ~TakesSlot(x), TakesSlot(x)', call'[x].receipt = r,
         \A y \in Effect \ {x} : call'[y] = call[y]
  PROVE  /\ Cardinality(Charged(r)') = Cardinality(Charged(r)) + 1
         /\ Cardinality(ChargedTo(r, FlowOf[x])') = Cardinality(ChargedTo(r, FlowOf[x])) + 1
         /\ \A m : m # r => Charged(m)' = Charged(m)
         /\ \A m, f : m # r \/ f # FlowOf[x] => ChargedTo(m, f)' = ChargedTo(m, f)
         /\ Cardinality(ChargedEver') = Cardinality(ChargedEver) + 1
<1>1. \A y \in Effect \ {x} : TakesSlot(y)' = TakesSlot(y)
  BY DEF TakesSlot
<1>2. Charged(r)' = Charged(r) \cup {x} /\ x \notin Charged(r)
  BY <1>1 DEF Charged
<1>3. ChargedEver' = ChargedEver \cup {x} /\ x \notin ChargedEver
  BY <1>1 DEF ChargedEver
<1>4. \A m : m # r => Charged(m)' = Charged(m)
  BY <1>1 DEF Charged
<1>5. ChargedTo(r, FlowOf[x])' = ChargedTo(r, FlowOf[x]) \cup {x} /\ x \notin ChargedTo(r, FlowOf[x])
  BY <1>2 DEF ChargedTo
<1>6. \A m, f : m # r \/ f # FlowOf[x] => ChargedTo(m, f)' = ChargedTo(m, f)
  BY <1>2, <1>4 DEF ChargedTo
<1>7. /\ x \in Effect \ Charged(r) /\ x \in Effect \ ChargedEver /\ x \in Effect \ ChargedTo(r, FlowOf[x])
  BY <1>2, <1>3, <1>5
<1> QED BY <1>2, <1>3, <1>4, <1>5, <1>6, <1>7, ChargeSets, EffectSets

\* One effect gives its slot of minute r back.
LEMMA ChargeRemoved ==
  ASSUME NEW x \in Effect, NEW r \in Minute,
         TakesSlot(x), ~TakesSlot(x)', call[x].receipt = r,
         \A y \in Effect \ {x} : call'[y] = call[y]
  PROVE  /\ Cardinality(Charged(r)') = Cardinality(Charged(r)) - 1
         /\ Cardinality(ChargedTo(r, FlowOf[x])') = Cardinality(ChargedTo(r, FlowOf[x])) - 1
         /\ \A m : m # r => Charged(m)' = Charged(m)
         /\ \A m, f : m # r \/ f # FlowOf[x] => ChargedTo(m, f)' = ChargedTo(m, f)
         /\ ChargedEver' = ChargedEver \ {x}
         /\ Cardinality(ChargedEver') = Cardinality(ChargedEver) - 1
<1>1. \A y \in Effect \ {x} : TakesSlot(y)' = TakesSlot(y)
  BY DEF TakesSlot
<1>2. Charged(r)' = Charged(r) \ {x} /\ x \in Charged(r)
  BY <1>1 DEF Charged
<1>3. ChargedEver' = ChargedEver \ {x} /\ x \in ChargedEver
  BY <1>1 DEF ChargedEver
<1>4. \A m : m # r => Charged(m)' = Charged(m)
  BY <1>1 DEF Charged
<1>5. ChargedTo(r, FlowOf[x])' = ChargedTo(r, FlowOf[x]) \ {x} /\ x \in ChargedTo(r, FlowOf[x])
  BY <1>2 DEF ChargedTo
<1>6. \A m, f : m # r \/ f # FlowOf[x] => ChargedTo(m, f)' = ChargedTo(m, f)
  BY <1>2, <1>4 DEF ChargedTo
<1> QED BY <1>2, <1>3, <1>4, <1>5, <1>6, ChargeSets, EffectSets

Bucket == [space: 0 .. SpaceLimit, flow: [Flow -> 0 .. FlowLimit]]

\* The slots of minute r and flow g move by d.
BucketMoves(r, g, d) ==
  /\ bucket' \in [Minute -> Bucket]
  /\ bucket'[r].space = bucket[r].space + d
  /\ bucket'[r].flow[g] = bucket[r].flow[g] + d
  /\ \A f \in Flow \ {g} : bucket'[r].flow[f] = bucket[r].flow[f]
  /\ \A m \in Minute \ {r} : bucket'[m] = bucket[m]

LEMMA MovedBucket ==
  ASSUME bucket \in [Minute -> Bucket], NEW r \in Minute, NEW g \in Flow, NEW d \in {1, -1},
         bucket[r].space + d \in 0 .. SpaceLimit, bucket[r].flow[g] + d \in 0 .. FlowLimit,
         bucket' = [bucket EXCEPT ![r] = 
                      [space |-> bucket[r].space + d,
                       flow |-> [bucket[r].flow EXCEPT ![g] = bucket[r].flow[g] + d]]]
  PROVE  BucketMoves(r, g, d)
<1> DEFINE c == [space |-> bucket[r].space + d,
                 flow |-> [bucket[r].flow EXCEPT ![g] = bucket[r].flow[g] + d]]
<1>1. bucket[r] \in Bucket
  OBVIOUS
<1>2. c \in Bucket
  BY <1>1 DEF Bucket
<1>3. bucket' = [bucket EXCEPT ![r] = c]
  OBVIOUS
<1>4. bucket'[r] = c /\ bucket' \in [Minute -> Bucket]
  BY <1>2, <1>3
<1>5. \A m \in Minute \ {r} : bucket'[m] = bucket[m]
  BY <1>3
<1>6. c.flow[g] = bucket[r].flow[g] + d /\ \A f \in Flow \ {g} : c.flow[f] = bucket[r].flow[f]
  BY <1>1 DEF Bucket
<1> QED BY <1>4, <1>5, <1>6 DEF BucketMoves

LEMMA Counts ==
  ASSUME QuotaInv
  PROVE  /\ call \in [Effect -> Receipt] /\ minute \in Minute /\ lineage \in 0 .. LineageLimit
         /\ bucket \in [Minute -> Bucket]
         /\ quotaFaults \in 0 .. MaxQuotaFaults
         /\ \A x \in Effect : FlowOf[x] \in Flow
         /\ \A m, f : Cardinality(Charged(m)) \in Nat /\ Cardinality(ChargedTo(m, f)) \in Nat
         /\ Cardinality(ChargedEver) \in Nat
         /\ \A m \in Minute : /\ Cardinality(Charged(m)) <= bucket[m].space
                              /\ \A f \in Flow : Cardinality(ChargedTo(m, f)) <= bucket[m].flow[f]
         /\ Cardinality(ChargedEver) <= lineage
         /\ lineage <= Cardinality(ChargedEver) + quotaFaults
<1>1. /\ call \in [Effect -> Receipt] /\ minute \in Minute /\ lineage \in 0 .. LineageLimit
      /\ bucket \in [Minute -> Bucket] /\ quotaFaults \in 0 .. MaxQuotaFaults
  BY DEF QuotaInv, QuotaTypeOK, Receipt, Bucket
<1>2. /\ \A m, f : Cardinality(Charged(m)) \in Nat /\ Cardinality(ChargedTo(m, f)) \in Nat
      /\ Cardinality(ChargedEver) \in Nat
  BY ChargeSets, EffectSets
<1> QED BY <1>1, <1>2 DEF QuotaInv, SlotsCovered, ChargesKept

\* Charge and slot move together.
LEMMA ChargeWithSlot ==
  ASSUME QuotaInv, NEW x \in Effect, NEW r \in Minute, NEW d \in {1, -1},
         BucketMoves(r, FlowOf[x], d), lineage' = lineage + d,
         Cardinality(Charged(r)') = Cardinality(Charged(r)) + d,
         Cardinality(ChargedTo(r, FlowOf[x])') = Cardinality(ChargedTo(r, FlowOf[x])) + d,
         \A m : m # r => Charged(m)' = Charged(m),
         \A m, f : m # r \/ f # FlowOf[x] => ChargedTo(m, f)' = ChargedTo(m, f),
         Cardinality(ChargedEver') = Cardinality(ChargedEver) + d
  PROVE  SlotsCovered'
<1>1. \A m \in Minute : /\ bucket[m].space \in Nat
                        /\ \A f \in Flow : bucket[m].flow[f] \in Nat
  BY Counts DEF Bucket
<1>2. ASSUME NEW m \in Minute
      PROVE  Cardinality(Charged(m)') <= bucket'[m].space
  <2>1. CASE m = r
    BY <1>1, <2>1, Counts DEF BucketMoves
  <2>2. CASE m # r
    <3>1. Cardinality(Charged(m)') = Cardinality(Charged(m))
      BY <2>2
    <3>2. bucket'[m] = bucket[m]
      BY <2>2 DEF BucketMoves
    <3> QED BY <3>1, <3>2, Counts
  <2> QED BY <2>1, <2>2
<1>3. ASSUME NEW m \in Minute, NEW f \in Flow
      PROVE  Cardinality(ChargedTo(m, f)') <= bucket'[m].flow[f]
  <2>1. CASE m = r /\ f = FlowOf[x]
    BY <1>1, <2>1, Counts DEF BucketMoves
  <2>2. CASE m # r \/ f # FlowOf[x]
    <3>1. Cardinality(ChargedTo(m, f)') = Cardinality(ChargedTo(m, f))
      BY <2>2
    <3>2. bucket'[m].flow[f] = bucket[m].flow[f]
      BY <2>2 DEF BucketMoves
    <3> QED BY <3>1, <3>2, Counts
  <2> QED BY <2>1, <2>2
<1>4. Cardinality(ChargedEver') <= lineage'
  BY Counts
<1> QED BY <1>2, <1>3, <1>4 DEF SlotsCovered, Minute

LEMMA ReserveKeeps ==
  ASSUME QuotaInv, NEW x \in Effect, Reserve(x)
  PROVE  QuotaInv'
<1>1. /\ call'[x].at = "reserved" /\ call'[x].receipt = minute
      /\ call'[x].started = call[x].started
      /\ \A y \in Effect \ {x} : call'[y] = call[y]
      /\ call' \in [Effect -> Receipt]
  BY Counts DEF Reserve, Receipt, Places
<1>2. BucketMoves(minute, FlowOf[x], 1)
  <2> DEFINE b == bucket[minute]
  <2>1. b \in Bucket /\ b.space < SpaceLimit /\ b.flow[FlowOf[x]] < FlowLimit
    BY Counts DEF Reserve, Admissible
  <2>2. b.space + 1 \in 0 .. SpaceLimit /\ b.flow[FlowOf[x]] + 1 \in 0 .. FlowLimit
    BY <2>1, Counts DEF Bucket
  <2>3. bucket' = [bucket EXCEPT ![minute] =
                     [space |-> b.space + 1,
                      flow |-> [b.flow EXCEPT ![FlowOf[x]] = b.flow[FlowOf[x]] + 1]]]
    BY <2>1, Counts DEF Reserve, Bucket
  <2> QED BY <2>2, <2>3, Counts, MovedBucket
<1>3. ~TakesSlot(x) /\ TakesSlot(x)'
  BY <1>1 DEF Reserve, Asks, TakesSlot, QuotaInv, StartedOnce
<1>4. lineage' = lineage + 1 /\ lineage' \in 0 .. LineageLimit /\ quotaFaults' = quotaFaults
  BY Counts DEF Reserve, Admissible
<1>5. SlotsCovered'
  BY <1>1, <1>2, <1>3, <1>4, ChargeAdded, ChargeWithSlot, Counts
<1>6. ChargesKept'
  BY <1>1, <1>3, <1>4, ChargeAdded, Counts DEF ChargesKept
<1>7. StartedOnce'
  BY <1>1 DEF QuotaInv, StartedOnce, Reserve, Asks
<1> QED BY <1>1, <1>2, <1>4, <1>5, <1>6, <1>7
        DEF QuotaInv, QuotaTypeOK, Receipt, Reserve, BucketMoves, Bucket, Minute

\* What happens between reservation and refund, or after it, moves no counter: no effect
\* gains a charge, and one that loses its charge without a refund has met a fault.
LEMMA QuietMove ==
  ASSUME QuotaInv, NEW x \in Effect,
         call' \in [Effect -> Receipt], \A y \in Effect \ {x} : call'[y] = call[y],
         call'[x].receipt = call[x].receipt, UNCHANGED <<bucket, lineage>>,
         call'[x].started => call'[x].at \in {"running", "succeeded", "failed", "uncertain",
                                              "settled", "lost"},
         TakesSlot(x)' => TakesSlot(x),
         \/ quotaFaults' = quotaFaults /\ (TakesSlot(x) => TakesSlot(x)')
         \/ QuotaFault,
         UNCHANGED <<minute, switch>>, breaker' \in [Flow -> [failures: Nat, open: BOOLEAN]]
  PROVE  QuotaInv'
<1>1. \A y \in Effect \ {x} : TakesSlot(y)' = TakesSlot(y)
  BY DEF TakesSlot
<1>2. SlotsCovered'
  BY <1>1, NoNewCharge
<1>3. ChargesKept'
  <2>1. CASE quotaFaults' = quotaFaults /\ (TakesSlot(x) => TakesSlot(x)')
    <3>1. ChargedEver' = ChargedEver
      BY <1>1, <2>1 DEF ChargedEver
    <3> QED BY <2>1, <3>1, ChargesStay
  <2>2. CASE QuotaFault
    <3>1. ChargedEver' \in {ChargedEver, ChargedEver \ {x}}
      BY <1>1 DEF ChargedEver
    <3> QED BY <2>2, <3>1, ChargesStay DEF QuotaFault
  <2> QED BY <2>1, <2>2
<1>4. quotaFaults' \in 0 .. MaxQuotaFaults
  BY Counts DEF QuotaFault
<1>5. StartedOnce'
  BY DEF QuotaInv, StartedOnce
<1> QED BY <1>2, <1>3, <1>4, <1>5 DEF QuotaInv, QuotaTypeOK, Receipt

LEMMA WaitingKeeps ==
  ASSUME QuotaInv, NEW x \in Effect, PutOff(x) \/ Reject(x) \/ Permit(x)
  PROVE  QuotaInv'
<1>0. ~call[x].started /\ UNCHANGED <<bucket, lineage, minute, switch, quotaFaults, breaker>>
  BY DEF QuotaInv, StartedOnce, PutOff, Reject, Permit, Asks
<1>1. breaker' \in [Flow -> [failures: Nat, open: BOOLEAN]] /\ switch \in BOOLEAN
  BY <1>0 DEF QuotaInv, QuotaTypeOK
<1>2. CASE PutOff(x)
  <2>1. minute + 1 \in 0 .. MaxMinute + 1
    BY Counts DEF Minute
  <2>2. /\ call'[x] = [call[x] EXCEPT !.after = minute + 1] /\ call' \in [Effect -> Receipt]
        /\ \A y \in Effect \ {x} : call'[y] = call[y]
    BY <1>2, <2>1, Counts DEF PutOff, Receipt
  <2>3. call'[x].receipt = call[x].receipt /\ ~call'[x].started /\ call'[x].at = call[x].at
    BY <1>0, <2>2, Counts DEF Receipt
  <2> QED BY <1>0, <1>1, <2>2, <2>3, QuietMove DEF TakesSlot
<1>3. CASE Reject(x)
  <2>1. /\ call' \in [Effect -> Receipt] /\ \A y \in Effect \ {x} : call'[y] = call[y]
        /\ call'[x].receipt = call[x].receipt /\ ~call'[x].started
        /\ call'[x].at = "rejected" /\ call[x].at = "ready"
    BY <1>0, <1>3, Counts DEF Reject, Leads, Receipt, Places, Asks
  <2> QED BY <1>0, <1>1, <2>1, QuietMove DEF TakesSlot
<1>4. CASE Permit(x)
  <2>1. /\ call' \in [Effect -> Receipt] /\ \A y \in Effect \ {x} : call'[y] = call[y]
        /\ call'[x].receipt = call[x].receipt /\ call'[x].started = switch
        /\ call'[x].at = (IF switch THEN "running" ELSE "refused")
    <3>1. PICK p \in {"running", "refused"} :
            /\ p = (IF switch THEN "running" ELSE "refused")
            /\ call' = [call EXCEPT ![x].at = p, ![x].started = switch]
      BY <1>4 DEF Permit
    <3>2. /\ call'[x] = [call[x] EXCEPT !.at = p, !.started = switch]
          /\ \A y \in Effect \ {x} : call'[y] = call[y]
      BY <3>1, Counts
    <3>3. call'[x].at = p /\ call'[x].receipt = call[x].receipt /\ call'[x].started = switch
      BY <3>2, Counts DEF Receipt
    <3>4. \A c \in Receipt : [c EXCEPT !.at = p, !.started = switch] \in Receipt
      BY <1>1 DEF Receipt, Places
    <3>5. call' = [call EXCEPT ![x] = [call[x] EXCEPT !.at = p, !.started = switch]]
      BY <3>1, Counts
    <3>6. call' \in [Effect -> Receipt]
      BY <3>4, <3>5, Counts
    <3> QED BY <3>1, <3>2, <3>3, <3>6
  <2>2. call[x].at = "reserved"
    BY <1>4 DEF Permit
  <2> QED BY <1>0, <1>1, <2>1, <2>2, QuietMove DEF TakesSlot
<1> QED BY <1>2, <1>3, <1>4

LEMMA RunningKeeps ==
  ASSUME QuotaInv, NEW x \in Effect,
         \/ \E o \in {"succeeded", "failed", "uncertain"} : Outcome(x, o)
         \/ RecordEffect(x) \/ WorkerLost(x)
  PROVE  QuotaInv'
<1>0. UNCHANGED <<bucket, lineage, minute, switch>>
  BY DEF Outcome, RecordEffect, WorkerLost
<1>1. PICK p \in {"succeeded", "failed", "uncertain", "settled", "lost"} : Leads(x, p)
  BY DEF Outcome, RecordEffect, WorkerLost
<1>2. /\ call' \in [Effect -> Receipt] /\ \A y \in Effect \ {x} : call'[y] = call[y]
      /\ call'[x].receipt = call[x].receipt /\ call'[x].started = call[x].started
      /\ call'[x].at = p
  BY <1>1, Counts DEF Leads, Receipt, Places
<1>3. breaker' \in [Flow -> [failures: Nat, open: BOOLEAN]]
  <2>1. breaker \in [Flow -> [failures: Nat, open: BOOLEAN]] /\ FlowOf[x] \in Flow
    BY Counts DEF QuotaInv, QuotaTypeOK
  <2>2. \A o : \A b \in [failures: Nat, open: BOOLEAN] : After(b, o) \in [failures: Nat, open: BOOLEAN]
    BY DEF After
  <2> QED BY <2>1, <2>2 DEF Outcome, RecordEffect, WorkerLost
<1>4. WorkerLost(x) \/ (quotaFaults' = quotaFaults /\ call[x].at \in {"running", "succeeded", "failed", "uncertain"})
  BY DEF Outcome, RecordEffect
<1>5. TakesSlot(x)' => TakesSlot(x)
  BY <1>2 DEF TakesSlot
<1>6. CASE WorkerLost(x)
  BY <1>0, <1>2, <1>3, <1>5, <1>6, QuietMove DEF WorkerLost
<1>7. CASE quotaFaults' = quotaFaults /\ call[x].at \in {"running", "succeeded", "failed", "uncertain"}
  BY <1>0, <1>2, <1>3, <1>5, <1>7, QuietMove DEF TakesSlot
<1> QED BY <1>4, <1>6, <1>7

\* A refund takes the charge and its slots together.
LEMMA RefundKeeps ==
  ASSUME QuotaInv, NEW x \in Effect, call[x].at = "refused", GivesBack(x),
         call' \in [Effect -> Receipt], \A y \in Effect \ {x} : call'[y] = call[y],
         call'[x].at \notin {"reserved", "refused"}, ~call'[x].started,
         UNCHANGED <<minute, breaker, switch>>, quotaFaults' = quotaFaults \/ QuotaFault
  PROVE  QuotaInv'
<1>0. PICK m \in Minute : call[x].receipt = m
  BY Counts DEF Receipt
<1>1. TakesSlot(x) /\ ~TakesSlot(x)'
  BY Counts DEF TakesSlot, Receipt
<1>2. x \in Charged(m) /\ x \in ChargedTo(m, FlowOf[x]) /\ x \in ChargedEver
  BY <1>0, <1>1 DEF Charged, ChargedTo, ChargedEver
<1>3. /\ Cardinality(Charged(m)) >= 1 /\ Cardinality(ChargedTo(m, FlowOf[x])) >= 1
      /\ Cardinality(ChargedEver) >= 1
  <2>1. \A S \in SUBSET Effect : x \in S => Cardinality(S) >= 1
    <3> TAKE S \in SUBSET Effect
    <3> HAVE x \in S
    <3>1. Cardinality(S \ {x}) \in Nat /\ Cardinality(S \ {x}) = Cardinality(S) - 1 /\ Cardinality(S) \in Nat
      BY EffectSets
    <3> QED BY <3>1
  <2> QED BY <1>2, <2>1, ChargeSets
<1>4. BucketMoves(m, FlowOf[x], -1)
  <2> DEFINE b == bucket[m]
  <2>1. b \in Bucket
    BY <1>1, Counts
  <2>2. b.space >= 1 /\ b.flow[FlowOf[x]] >= 1
    BY <1>1, <1>3, <2>1, Counts DEF Bucket
  <2>3. b.space + (-1) \in 0 .. SpaceLimit /\ b.flow[FlowOf[x]] + (-1) \in 0 .. FlowLimit
    BY <2>1, <2>2, Counts DEF Bucket
  <2>4. bucket' = [bucket EXCEPT ![m] =
                     [space |-> b.space + (-1),
                      flow |-> [b.flow EXCEPT ![FlowOf[x]] = b.flow[FlowOf[x]] + (-1)]]]
    <3>1. b.space - 1 = b.space + (-1) /\ b.flow[FlowOf[x]] - 1 = b.flow[FlowOf[x]] + (-1)
      BY <2>1, Counts DEF Bucket
    <3>2. bucket' = [bucket EXCEPT ![m] =
                     [space |-> b.space - 1,
                      flow |-> [b.flow EXCEPT ![FlowOf[x]] = b.flow[FlowOf[x]] - 1]]]
      BY <2>1, <1>0, Counts DEF GivesBack, Bucket
    <3> QED BY <3>1, <3>2
  <2> QED BY <1>1, <2>3, <2>4, Counts, MovedBucket
<1>5. lineage' = lineage + (-1) /\ lineage' \in 0 .. LineageLimit
  BY <1>3, Counts DEF GivesBack
<1>6. SlotsCovered'
  <2>1. /\ Cardinality(Charged(m)') = Cardinality(Charged(m)) + (-1)
        /\ Cardinality(ChargedTo(m, FlowOf[x])') = Cardinality(ChargedTo(m, FlowOf[x])) + (-1)
        /\ \A k : k # m => Charged(k)' = Charged(k)
        /\ \A k, f : k # m \/ f # FlowOf[x] => ChargedTo(k, f)' = ChargedTo(k, f)
        /\ Cardinality(ChargedEver') = Cardinality(ChargedEver) + (-1)
    <3>1. \A n \in Nat : n - 1 = n + (-1)
      OBVIOUS
    <3> QED BY <1>0, <1>1, <3>1, ChargeRemoved, Counts
  <2> QED BY <1>1, <1>4, <1>5, <2>1, ChargeWithSlot
<1>7. ChargesKept' /\ quotaFaults' \in 0 .. MaxQuotaFaults
  <2>1. Cardinality(ChargedEver') = Cardinality(ChargedEver) - 1
    BY <1>0, <1>1, ChargeRemoved
  <2> QED BY <1>5, <2>1, Counts DEF ChargesKept, QuotaFault
<1>8. StartedOnce'
  BY DEF QuotaInv, StartedOnce
<1> QED BY <1>4, <1>5, <1>6, <1>7, <1>8
        DEF QuotaInv, QuotaTypeOK, Receipt, BucketMoves, Bucket

LEMMA RefundsKeep ==
  ASSUME QuotaInv, NEW x \in Effect, Refund(x) \/ RefundThrows(x)
  PROVE  QuotaInv'
<1>0. call[x].at = "refused" /\ ~call[x].started /\ UNCHANGED <<minute, breaker, switch>>
  BY DEF QuotaInv, StartedOnce, Refund, RefundThrows
<1>1. CASE Refund(x)
  <2>1. minute + 1 \in 0 .. MaxMinute + 1
    BY Counts DEF Minute
  <2>2. /\ call' \in [Effect -> Receipt] /\ \A y \in Effect \ {x} : call'[y] = call[y]
        /\ call'[x].at = "ready" /\ call'[x].started = call[x].started
    BY <1>1, <2>1, Counts DEF Refund, Receipt, Places
  <2> QED BY <1>0, <1>1, <2>2, RefundKeeps DEF Refund
<1>2. CASE RefundThrows(x)
  <2>1. /\ call' \in [Effect -> Receipt] /\ \A y \in Effect \ {x} : call'[y] = call[y]
        /\ call'[x].at = "uncertain" /\ call'[x].started = call[x].started
        /\ call'[x].receipt = call[x].receipt
    BY <1>2, Counts DEF RefundThrows, Leads, Receipt, Places
  <2>2. CASE GivesBack(x)
    BY <1>0, <1>2, <2>1, <2>2, RefundKeeps DEF RefundThrows
  <2>3. CASE UNCHANGED <<bucket, lineage>>
    <3>1. breaker' \in [Flow -> [failures: Nat, open: BOOLEAN]]
      BY <1>0 DEF QuotaInv, QuotaTypeOK
    <3> QED BY <1>0, <1>2, <2>1, <2>3, <3>1, QuietMove DEF RefundThrows, TakesSlot
  <2> QED BY <1>2, <2>2, <2>3 DEF RefundThrows
<1> QED BY <1>1, <1>2

\* The clock, the circuits and the workspace's switch move no charge.
LEMMA SurroundingsKeep ==
  ASSUME QuotaInv,
         (\E f \in Flow : CoolsDown(f)) \/ NextMinute \/ Switch \/ UNCHANGED quotaVars
  PROVE  QuotaInv'
<1>1. UNCHANGED <<call, bucket, lineage, quotaFaults>>
  BY DEF CoolsDown, NextMinute, Switch, quotaVars
<1>2. ChargedEver' = ChargedEver /\ SlotsCovered' /\ StartedOnce'
  <2>1. \A y \in Effect : TakesSlot(y)' = TakesSlot(y) /\ call'[y].receipt = call[y].receipt
    BY <1>1 DEF TakesSlot
  <2>2. StartedOnce'
    BY <1>1 DEF QuotaInv, StartedOnce
  <2> QED BY <1>1, <2>1, <2>2, NoNewCharge DEF ChargedEver
<1>3. ChargesKept'
  BY <1>1, <1>2, ChargesStay
<1>4. QuotaTypeOK'
  <2>1. minute' \in Minute
    BY Counts DEF CoolsDown, NextMinute, Switch, quotaVars, Minute
  <2>2. breaker' \in [Flow -> [failures: Nat, open: BOOLEAN]]
    <3>1. breaker \in [Flow -> [failures: Nat, open: BOOLEAN]]
      BY DEF QuotaInv, QuotaTypeOK
    <3>2. ASSUME NEW f \in Flow, CoolsDown(f)
          PROVE  breaker' \in [Flow -> [failures: Nat, open: BOOLEAN]]
      BY <3>1, <3>2 DEF CoolsDown
    <3> QED BY <3>1, <3>2 DEF NextMinute, Switch, quotaVars
  <2>3. switch' \in BOOLEAN
    BY DEF QuotaInv, QuotaTypeOK, CoolsDown, NextMinute, Switch, quotaVars
  <2> QED BY <1>1, <2>1, <2>2, <2>3 DEF QuotaInv, QuotaTypeOK, Minute
<1> QED BY <1>2, <1>3, <1>4 DEF QuotaInv

LEMMA QuotaStep == QuotaInv /\ [QuotaNext]_quotaVars => QuotaInv'
<1> SUFFICES ASSUME QuotaInv, [QuotaNext]_quotaVars PROVE QuotaInv'
  OBVIOUS
<1> QED BY ReserveKeeps, WaitingKeeps, RunningKeeps, RefundsKeep, SurroundingsKeep DEF QuotaNext

LEMMA QuotaInductive == QuotaSpec => []QuotaInv
BY QuotaStart, QuotaStep, PTL DEF QuotaSpec

\* Every counter stays between zero and its limit.
THEOREM QuotaTyped == QuotaSpec => []QuotaTypeOK
<1>1. QuotaInv => QuotaTypeOK
  BY DEF QuotaInv
<1> QED BY <1>1, QuotaInductive, PTL

LEMMA HoldingIsCharged ==
  /\ \A m : Holding(m) \subseteq Charged(m)
  /\ \A m, f : {x \in Holding(m) : FlowOf[x] = f} \subseteq ChargedTo(m, f)
BY DEF Holding, Charged, ChargedTo, TakesSlot

LEMMA HoldingEverIsAll ==
  ASSUME QuotaInv
  PROVE  HoldingEver = {x \in Effect : call[x].at = "reserved" \/ call[x].started}
BY Counts DEF HoldingEver, Holding, Receipt

\* Every effect that started, or still may, is covered by a slot of the minute it is paid
\* from and by one of its lineage, whatever refunds are late, repeated or interrupted by a
\* crash (reserveExternalActionPolicy, releaseUnstartedExternalActionReservation).
THEOREM StartedIsCharged == QuotaSpec => []EffectsCharged
<1>1. ASSUME QuotaInv PROVE EffectsCharged
  <2>1. ASSUME NEW m \in Minute
        PROVE  Cardinality(Holding(m)) <= bucket[m].space
    <3>1. Cardinality(Holding(m)) <= Cardinality(Charged(m)) /\ Cardinality(Holding(m)) \in Nat
      BY HoldingIsCharged, ChargeSets, EffectSets
    <3>2. bucket[m].space \in Nat
      BY <1>1, Counts DEF Bucket
    <3> QED BY <1>1, <3>1, <3>2, Counts
  <2>2. ASSUME NEW m \in Minute, NEW f \in Flow
        PROVE  Cardinality({x \in Holding(m) : FlowOf[x] = f}) <= bucket[m].flow[f]
    <3> DEFINE h == {x \in Holding(m) : FlowOf[x] = f}
    <3>1. Cardinality(h) <= Cardinality(ChargedTo(m, f)) /\ Cardinality(h) \in Nat
      BY HoldingIsCharged, ChargeSets, EffectSets
    <3>2. bucket[m].flow[f] \in Nat
      BY <1>1, Counts DEF Bucket
    <3> QED BY <1>1, <3>1, <3>2, Counts
  <2>3. Cardinality(HoldingEver) <= lineage
    <3>1. HoldingEver \subseteq ChargedEver
      BY <1>1, HoldingEverIsAll DEF ChargedEver, TakesSlot
    <3>2. Cardinality(HoldingEver) <= Cardinality(ChargedEver) /\ Cardinality(HoldingEver) \in Nat
      BY <3>1, ChargeSets, EffectSets
    <3> QED BY <1>1, <3>2, Counts
  <2> QED BY <2>1, <2>2, <2>3 DEF EffectsCharged
<1> QED BY <1>1, QuotaInductive, PTL

\* What a lineage is charged beyond the effects it pays for is a refund on its way, or was
\* lost to a crash (releaseUnstartedExternalActionReservation).
THEOREM SlotsComeBack == QuotaSpec => []NoSlotLeaks
<1>1. ASSUME QuotaInv PROVE NoSlotLeaks
  <2> DEFINE refused == {x \in Effect : call[x].at = "refused"}
  <2>1. ChargedEver = HoldingEver \cup refused /\ HoldingEver \cap refused = {}
    BY <1>1, HoldingEverIsAll DEF ChargedEver, TakesSlot, QuotaInv, StartedOnce
  <2>2. IsFiniteSet(HoldingEver) /\ IsFiniteSet(refused) /\ HoldingEver \subseteq Effect
    BY <1>1, HoldingEverIsAll, EffectSets
  <2>3. Cardinality(ChargedEver) = Cardinality(HoldingEver) + Cardinality(refused)
    <3> HIDE DEF refused
    <3>1. Cardinality(HoldingEver \cup refused)
            = Cardinality(HoldingEver) + Cardinality(refused) - Cardinality(HoldingEver \cap refused)
      BY <2>2, FS_Union
    <3>2. Cardinality(HoldingEver \cap refused) = 0
      BY <2>1, FS_EmptySet
    <3>3. Cardinality(HoldingEver) \in Nat /\ Cardinality(refused) \in Nat
      BY <2>2, FS_CardinalityType
    <3> QED BY <2>1, <3>1, <3>2, <3>3
  <2> QED BY <1>1, <2>3, Counts DEF NoSlotLeaks
<1> QED BY <1>1, QuotaInductive, PTL

HIDE EffectQuotaAssumption

-----------------------------------------------------------------------------
(***************************************************************************)
(* Outgoing webhooks: for any number of callers, endpoints and attempts, a *)
(* delivery is processed once, and once more for each fault, and its       *)
(* outcome is final however late another call answers.                     *)
(***************************************************************************)

USE WebhookQueueAssumption

HookRow == [status: {"absent", "pending", "processing", "failed", "success", "exhausted"},
            owner: Caller \cup {Nobody, LostCall}, stale: BOOLEAN,
            tries: 0 .. MaxTries, due: BOOLEAN]

HookCall == [batch: SUBSET Hook, item: Hook \cup {Nobody}, step: Steps]

\* A claimed row has an owner, and one that may still be tried an attempt left.
RowOK(x) ==
  /\ x \in HookRow
  /\ x.owner # Nobody <=> x.status = "processing"
  /\ x.status \notin {"success", "exhausted"} => x.tries < MaxTries

\* A call delivers what it claimed: one row at a time, and only its own row if it is not
\* the cron's.
CallOK(x, c) ==
  /\ x \in HookCall
  /\ x.step \in {"idle", "done"} => x.batch = {}
  /\ x.item # Nobody <=> x.step \in {"answered", "refused"}
  /\ x.item \notin x.batch
  /\ c # Sweep => x.batch \subseteq {c} /\ x.item \in {c, Nobody}

HooksTyped ==
  /\ hook \in [Hook -> HookRow] /\ \A d \in Hook : RowOK(hook[d])
  /\ caller \in [Caller -> HookCall] /\ \A c \in Caller : CallOK(caller[c], c)
  /\ endpoint \in BOOLEAN /\ demo \in BOOLEAN
  /\ received \in [Hook -> Nat] /\ hookFaults \in 0 .. MaxHookFaults

\* A row is left to a call only while the call still has it in hand.
OwnedIsHeld ==
  \A c \in Caller, d \in Hook :
    ~demo /\ hook[d].owner = c => d \in caller[c].batch \/ caller[c].item = d

DemoIsQuiet ==
  demo => /\ \A c \in Caller : caller[c].item = Nobody
          /\ \A d \in Hook : received[d] = 0

\* The call will send d, or has been refused and may have it sent again.
Sends(c, d) == d \in caller[c].batch \/ (caller[c].item = d /\ caller[c].step = "refused")

\* The row may be claimed again without a further fault.
HookClaimable(d) ==
  \/ hook[d].status \in {"absent", "pending", "failed"}
  \/ hook[d].status = "processing" /\ (hook[d].stale \/ hook[d].owner = LostCall)

One(b) == IF b THEN 1 ELSE 0

HookPaid(d) ==
  received[d] + One(Sends(d, d)) + One(Sends(Sweep, d)) + One(HookClaimable(d)) <= 1 + hookFaults

HookInv == HooksTyped /\ OwnedIsHeld /\ DemoIsQuiet /\ (~demo => \A d \in Hook : HookPaid(d))

LEMMA OneIsBit == \A b \in BOOLEAN : One(b) \in {0, 1} /\ (One(b) = 1 <=> b)
BY DEF One

LEMMA HookStart == HookInit => HookInv
<1> SUFFICES ASSUME HookInit PROVE HookInv
  OBVIOUS
<1>1. HooksTyped
  BY DEF HookInit, HooksTyped, RowOK, CallOK, HookRow, HookCall, IdleCaller, Steps, Caller
<1>2. OwnedIsHeld /\ DemoIsQuiet
  BY DEF HookInit, OwnedIsHeld, DemoIsQuiet, IdleCaller, Caller
<1>3. ASSUME NEW d \in Hook PROVE HookPaid(d)
  <2>1. ~Sends(d, d) /\ ~Sends(Sweep, d)
    BY DEF HookInit, Sends, IdleCaller, Caller
  <2>2. received[d] = 0 /\ hookFaults = 0
    BY DEF HookInit
  <2> QED BY <2>1, <2>2 DEF HookPaid, One
<1> QED BY <1>1, <1>2, <1>3 DEF HookInv

\* What a call or a row does elsewhere leaves a delivery's account alone; a fault pays for
\* one more, and any other step moves it from one place to the next.
LEMMA PaidMoves ==
  ASSUME NEW d \in Hook, HookPaid(d), received[d] \in Nat, hookFaults \in Nat,
         received'[d] \in Nat, hookFaults' \in Nat,
         received'[d] + One(Sends(d, d))' + One(Sends(Sweep, d))' + One(HookClaimable(d))' + hookFaults
           <= received[d] + One(Sends(d, d)) + One(Sends(Sweep, d)) + One(HookClaimable(d)) + hookFaults'
  PROVE  HookPaid(d)'
BY DEF HookPaid, One

\* One call moves, no row does.
LEMMA HookCallMoves ==
  ASSUME HookInv, NEW c \in Caller, NEW x, CallOK(x, c),
         caller' = [caller EXCEPT ![c] = x], UNCHANGED <<hook, endpoint, demo>>,
         ~demo => \A d \in Hook : hook[d].owner = c => d \in x.batch \/ x.item = d,
         demo => x.item = Nobody /\ UNCHANGED received,
         received' \in [Hook -> Nat], hookFaults' \in 0 .. MaxHookFaults,
         ~demo => \A d \in Hook :
           received'[d] + One(d \in x.batch \/ (x.item = d /\ x.step = "refused")) + hookFaults
             <= received[d] + One(Sends(c, d)) + hookFaults'
  PROVE  HookInv'
<1>1. caller'[c] = x /\ \A b \in Caller \ {c} : caller'[b] = caller[b]
  BY DEF HookInv, HooksTyped
<1>2. HooksTyped'
  BY <1>1 DEF HookInv, HooksTyped, CallOK
<1>3. OwnedIsHeld' /\ DemoIsQuiet'
  BY <1>1 DEF HookInv, OwnedIsHeld, DemoIsQuiet
<1>4. ASSUME ~demo, NEW d \in Hook PROVE HookPaid(d)'
  <2>1. HookClaimable(d)' = HookClaimable(d)
    BY DEF HookClaimable
  <2>2. \A b \in Caller \ {c} : Sends(b, d)' = Sends(b, d)
    BY <1>1 DEF Sends
  <2>3. Sends(c, d)' = (d \in x.batch \/ (x.item = d /\ x.step = "refused"))
    BY <1>1 DEF Sends
  <2>4. received[d] \in Nat /\ received'[d] \in Nat /\ hookFaults \in Nat /\ hookFaults' \in Nat
    BY DEF HookInv, HooksTyped
  <2>5. HookPaid(d) /\ d \in Caller /\ Sweep \in Caller /\ d # Sweep
    BY <1>4 DEF HookInv, Caller
  <2>6. c \notin {d, Sweep} => ~Sends(c, d) /\ ~Sends(c, d)'
    <3>1. CallOK(caller[c], c) /\ d # Nobody
      BY DEF HookInv, HooksTyped
    <3> QED BY <2>3, <3>1 DEF Sends, CallOK
  <2>7. received'[d] + One(Sends(c, d))' + hookFaults <= received[d] + One(Sends(c, d)) + hookFaults'
    BY <1>4, <2>3
  <2> QED BY <2>1, <2>2, <2>4, <2>5, <2>6, <2>7, PaidMoves DEF One
<1> QED BY <1>2, <1>3, <1>4 DEF HookInv

\* One row moves, no call does.
LEMMA RowMoves ==
  ASSUME HookInv, NEW d \in Hook, NEW x, RowOK(x),
         hook' = [hook EXCEPT ![d] = x], UNCHANGED <<caller, demo, received>>,
         endpoint' \in BOOLEAN, hookFaults' \in 0 .. MaxHookFaults, hookFaults' >= hookFaults,
         x.owner \in {hook[d].owner, Nobody, LostCall},
         \/ hookFaults' = hookFaults + 1
         \/ HookClaimable(d)
         \/ ~HookClaimable(d)'
  PROVE  HookInv'
<1>1. hook'[d] = x /\ \A e \in Hook \ {d} : hook'[e] = hook[e]
  BY DEF HookInv, HooksTyped
<1>2. HooksTyped'
  BY <1>1 DEF HookInv, HooksTyped, RowOK
<1>3. DemoIsQuiet'
  BY DEF HookInv, DemoIsQuiet
<1>5. OwnedIsHeld'
  <2>1. SUFFICES ASSUME NEW c \in Caller, NEW e \in Hook, ~demo, hook'[e].owner = c
        PROVE  e \in caller[c].batch \/ caller[c].item = e
    BY DEF OwnedIsHeld
  <2>2. Nobody \notin Caller /\ LostCall \notin Caller
    BY DEF Caller
  <2>3. hook[e].owner = c
    BY <1>1, <2>1, <2>2
  <2> QED BY <2>1, <2>3 DEF HookInv, OwnedIsHeld
<1>4. ASSUME ~demo, NEW e \in Hook PROVE HookPaid(e)'
  <2>1. Sends(e, e)' = Sends(e, e) /\ Sends(Sweep, e)' = Sends(Sweep, e)
    BY DEF Sends
  <2>2. e # d => HookClaimable(e)' = HookClaimable(e)
    BY <1>1 DEF HookClaimable
  <2>3. received[e] \in Nat /\ received'[e] \in Nat /\ hookFaults \in Nat /\ hookFaults' \in Nat
    BY DEF HookInv, HooksTyped
  <2>4. HookPaid(e) /\ received'[e] = received[e]
    BY <1>4 DEF HookInv
  <2> QED BY <2>1, <2>2, <2>3, <2>4, PaidMoves DEF One
<1> QED BY <1>2, <1>3, <1>4, <1>5 DEF HookInv

\* Queueing, the passing of the lock's five minutes and of a retry's delay.
LEMMA RowsAge ==
  ASSUME HookInv, NEW d \in Hook, QueueHook(d) \/ HookLockExpires(d) \/ RetryIsDue(d)
  PROVE  HookInv'
<1>1. RowOK(hook[d]) /\ hook[d] \in HookRow /\ hook \in [Hook -> HookRow] /\ hookFaults \in 0 .. MaxHookFaults
  BY DEF HookInv, HooksTyped
<1>2. CASE QueueHook(d)
  <2>1. hook' = [hook EXCEPT ![d] = [hook[d] EXCEPT !.status = "pending"]]
    BY <1>2 DEF QueueHook
  <2>2. RowOK([hook[d] EXCEPT !.status = "pending"])
    BY <1>1, <1>2 DEF QueueHook, RowOK, HookRow
  <2>3. HookClaimable(d)
    BY <1>2 DEF QueueHook, HookClaimable
  <2>4. [hook[d] EXCEPT !.status = "pending"].owner = hook[d].owner
    BY <1>1 DEF HookRow
  <2>5. UNCHANGED <<caller, demo, received>> /\ endpoint' \in BOOLEAN /\ hookFaults' = hookFaults
    BY <1>2 DEF QueueHook, HookInv, HooksTyped
  <2>6. hookFaults' \in 0 .. MaxHookFaults /\ hookFaults' >= hookFaults
    BY <1>1, <2>5
  <2> QED BY <1>1, <2>1, <2>2, <2>3, <2>4, <2>5, <2>6, RowMoves
<1>3. CASE HookLockExpires(d)
  <2>1. hook' = [hook EXCEPT ![d] = [hook[d] EXCEPT !.stale = TRUE]]
    BY <1>3 DEF HookLockExpires
  <2>2. RowOK([hook[d] EXCEPT !.stale = TRUE])
    BY <1>1, <1>3 DEF HookLockExpires, RowOK, HookRow
  <2>3. hookFaults' = hookFaults + 1 \/ (hookFaults' = hookFaults /\ HookClaimable(d))
    BY <1>3 DEF HookLockExpires, HookClaimable, HookFault
  <2>4. [hook[d] EXCEPT !.stale = TRUE].owner = hook[d].owner
    BY <1>1 DEF HookRow
  <2>5. UNCHANGED <<caller, demo, received>> /\ endpoint' \in BOOLEAN
    BY <1>3 DEF HookLockExpires, HookInv, HooksTyped
  <2>6. hookFaults' \in 0 .. MaxHookFaults /\ hookFaults' >= hookFaults
    BY <1>1, <1>3 DEF HookLockExpires, HookFault
  <2> QED BY <1>1, <2>1, <2>2, <2>3, <2>4, <2>5, <2>6, RowMoves
<1>4. CASE RetryIsDue(d)
  <2>1. hook' = [hook EXCEPT ![d] = [hook[d] EXCEPT !.due = TRUE]]
    BY <1>4 DEF RetryIsDue
  <2>2. RowOK([hook[d] EXCEPT !.due = TRUE])
    BY <1>1, <1>4 DEF RetryIsDue, RowOK, HookRow
  <2>3. HookClaimable(d)
    BY <1>4 DEF RetryIsDue, HookClaimable
  <2>4. [hook[d] EXCEPT !.due = TRUE].owner = hook[d].owner
    BY <1>1 DEF HookRow
  <2>5. UNCHANGED <<caller, demo, received>> /\ endpoint' \in BOOLEAN /\ hookFaults' = hookFaults
    BY <1>4 DEF RetryIsDue, HookInv, HooksTyped
  <2>6. hookFaults' \in 0 .. MaxHookFaults /\ hookFaults' >= hookFaults
    BY <1>1, <2>5
  <2> QED BY <1>1, <2>1, <2>2, <2>3, <2>4, <2>5, <2>6, RowMoves
<1> QED BY <1>2, <1>3, <1>4

LEMMA EndpointToggles == ASSUME HookInv, ToggleEndpoint PROVE HookInv'
<1>1. UNCHANGED <<hook, caller, demo, received>> /\ hookFaults' \in 0 .. MaxHookFaults /\ hookFaults' >= hookFaults
  BY DEF ToggleEndpoint, HookFault, HookInv, HooksTyped
<1>2. HooksTyped' /\ OwnedIsHeld' /\ DemoIsQuiet'
  BY <1>1 DEF ToggleEndpoint, HookInv, HooksTyped, OwnedIsHeld, DemoIsQuiet
<1>3. ASSUME ~demo, NEW d \in Hook PROVE HookPaid(d)'
  <2>1. Sends(d, d)' = Sends(d, d) /\ Sends(Sweep, d)' = Sends(Sweep, d) /\ HookClaimable(d)' = HookClaimable(d)
    BY <1>1 DEF Sends, HookClaimable
  <2>2. HookPaid(d) /\ received[d] \in Nat /\ hookFaults \in Nat /\ hookFaults' \in Nat
    BY <1>1, <1>3 DEF HookInv, HooksTyped
  <2> QED BY <1>1, <2>1, <2>2, PaidMoves DEF One
<1> QED BY <1>1, <1>2, <1>3 DEF HookInv

\* The request, whatever becomes of the answer: what was left to send is now in hand.
LEMMA CallSends ==
  ASSUME HookInv, NEW c \in Caller, NEW d \in Hook,
         Answered(c, d) \/ Refused(c, d) \/ AnswerLost(c, d)
  PROVE  HookInv'
<1>0. PICK answer \in {"answered", "refused"} : SendHook(c, d, answer) /\ (Answered(c, d) <=> answer = "answered")
  <2>1. Answered(c, d) => SendHook(c, d, "answered")
    BY DEF Answered
  <2>2. Refused(c, d) \/ AnswerLost(c, d) => SendHook(c, d, "refused")
    BY DEF Refused, AnswerLost
  <2>3. SendHook(c, d, "answered") => caller'[c].step = "answered"
    BY DEF SendHook, HookInv, HooksTyped
  <2>4. SendHook(c, d, "refused") => caller'[c].step = "refused"
    BY DEF SendHook, HookInv, HooksTyped
  <2> QED BY <2>1, <2>2, <2>3, <2>4
<1> DEFINE x == [batch |-> caller[c].batch \ {d}, item |-> d, step |-> answer]
<1>1. caller[c].step = "loop" /\ caller[c].item = Nobody /\ ~demo /\ d \in caller[c].batch
  BY <1>0 DEF SendHook
<1>2. caller' = [caller EXCEPT ![c] = x]
  BY <1>0 DEF SendHook
<1>3. CallOK(caller[c], c) /\ d # Nobody
  BY DEF HookInv, HooksTyped
<1>4. CallOK(x, c)
  BY <1>1, <1>3 DEF CallOK, HookCall, Steps
<1>5. UNCHANGED <<hook, endpoint, demo>>
  BY DEF Answered, Refused, AnswerLost
<1>6. \A e \in Hook : hook[e].owner = c => e \in x.batch \/ x.item = e
  BY <1>1, <1>3 DEF HookInv, OwnedIsHeld
<1>7. /\ received' \in [Hook -> Nat] /\ hookFaults' \in 0 .. MaxHookFaults
      /\ \A e \in Hook \ {d} : received'[e] = received[e]
      /\ received[d] \in Nat /\ hookFaults \in Nat /\ hookFaults' >= hookFaults
  <2>1. received \in [Hook -> Nat] /\ hookFaults \in 0 .. MaxHookFaults
    BY DEF HookInv, HooksTyped
  <2>2. CASE Answered(c, d)
    BY <2>1, <2>2 DEF Answered
  <2>3. CASE Refused(c, d)
    BY <2>1, <2>3 DEF Refused
  <2>4. CASE AnswerLost(c, d)
    BY <2>1, <2>4 DEF AnswerLost, HookFault
  <2> QED BY <2>2, <2>3, <2>4
<1>8. received'[d] + One(answer = "refused") + hookFaults <= received[d] + 1 + hookFaults'
  <2>1. received \in [Hook -> Nat] /\ hookFaults \in Nat
    BY DEF HookInv, HooksTyped
  <2>2. CASE Answered(c, d)
    BY <1>0, <2>1, <2>2 DEF Answered, One
  <2>3. CASE Refused(c, d)
    BY <2>1, <2>3 DEF Refused, One
  <2>4. CASE AnswerLost(c, d)
    BY <2>1, <2>4 DEF AnswerLost, HookFault, One
  <2> QED BY <2>2, <2>3, <2>4
<1>9. ASSUME NEW e \in Hook
      PROVE received'[e] + One(e \in x.batch \/ (x.item = e /\ x.step = "refused")) + hookFaults
             <= received[e] + One(Sends(c, e)) + hookFaults'
  <2>1. CASE e = d
    BY <1>1, <1>8, <2>1 DEF Sends, One
  <2>2. CASE e # d
    <3>1. e \in x.batch \/ (x.item = e /\ x.step = "refused") => Sends(c, e)
      BY <2>2 DEF Sends
    <3>2. received[e] \in Nat /\ received'[e] = received[e]
      BY <1>7, <2>2 DEF HookInv, HooksTyped
    <3> QED BY <1>7, <3>1, <3>2 DEF One
  <2> QED BY <2>1, <2>2
<1> HIDE DEF x
<1> QED BY <1>1, <1>2, <1>4, <1>5, <1>6, <1>7, <1>9, HookCallMoves

LEMMA DemoSends ==
  ASSUME HookInv, NEW c \in Caller, NEW d \in Hook, Suppress(c, d) PROVE HookInv'
<1> DEFINE x == [caller[c] EXCEPT !.batch = caller[c].batch \ {d}]
<1>1. caller' = [caller EXCEPT ![c] = x] /\ demo /\ caller[c].step = "loop"
  BY DEF Suppress
<1>2. CallOK(caller[c], c) /\ caller[c].item = Nobody
  BY <1>1 DEF HookInv, HooksTyped, DemoIsQuiet
<1>3. CallOK(x, c) /\ x.item = Nobody
  BY <1>1, <1>2 DEF CallOK, HookCall, Steps
<1>4. UNCHANGED <<hook, endpoint, demo, received, hookFaults>>
  BY DEF Suppress
<1>5. received' \in [Hook -> Nat] /\ hookFaults' \in 0 .. MaxHookFaults
  BY <1>4 DEF HookInv, HooksTyped
<1> HIDE DEF x
<1> QED BY <1>1, <1>3, <1>4, <1>5, HookCallMoves

\* A claim takes rows that may be claimed, and makes them the call's.
LEMMA CallClaims == ASSUME HookInv, NEW c \in Caller, ClaimHooks(c) PROVE HookInv'
<1>1. PICK taken \in SUBSET Hook :
        /\ taken = {d \in IF c = Sweep THEN Hook ELSE {c} : DueHook(d)}
        /\ hook' = [d \in Hook |->
             IF d \in taken
             THEN [hook[d] EXCEPT !.status = "processing", !.owner = c, !.stale = FALSE]
             ELSE hook[d]]
        /\ caller' = [caller EXCEPT ![c] = [batch |-> taken, item |-> Nobody, step |-> "claimed"]]
  BY DEF ClaimHooks, Caller
<1>2. caller[c].step = "idle" /\ UNCHANGED <<endpoint, demo, received, hookFaults>>
  BY DEF ClaimHooks
<1>3. CallOK(caller[c], c) /\ caller[c].batch = {} /\ caller[c].item = Nobody
  BY <1>2 DEF HookInv, HooksTyped, CallOK, HookCall
<1>4. /\ caller'[c] = [batch |-> taken, item |-> Nobody, step |-> "claimed"]
      /\ \A b \in Caller \ {c} : caller'[b] = caller[b]
  BY <1>1 DEF HookInv, HooksTyped
<1>5. \A d \in taken : /\ hook'[d].status = "processing" /\ hook'[d].owner = c /\ hook'[d].stale = FALSE
                       /\ DueHook(d) /\ RowOK(hook'[d])
  <2> SUFFICES ASSUME NEW d \in taken
               PROVE /\ hook'[d].status = "processing" /\ hook'[d].owner = c /\ hook'[d].stale = FALSE
                     /\ DueHook(d) /\ RowOK(hook'[d])
    OBVIOUS
  <2>1. hook[d] \in HookRow /\ RowOK(hook[d]) /\ DueHook(d) /\ c # Nobody
    BY <1>1 DEF HookInv, HooksTyped, Caller
  <2>2. hook'[d] = [hook[d] EXCEPT !.status = "processing", !.owner = c, !.stale = FALSE]
    BY <1>1
  <2> QED BY <2>1, <2>2 DEF RowOK, HookRow, DueHook
<1>6. \A d \in Hook \ taken : hook'[d] = hook[d]
  BY <1>1
<1>7. HooksTyped'
  <2>1. hook' \in [Hook -> HookRow] /\ \A d \in Hook : RowOK(hook'[d])
    <3>1. \A d \in Hook : RowOK(hook'[d])
      BY <1>5, <1>6 DEF HookInv, HooksTyped
    <3> QED BY <1>1, <3>1 DEF RowOK
  <2>2. CallOK(caller'[c], c)
    <3>1. c # Sweep => taken \subseteq {c}
      BY <1>1
    <3>2. caller'[c].batch = taken /\ caller'[c].item = Nobody /\ caller'[c].step = "claimed"
      BY <1>4
    <3>3. caller'[c] \in HookCall
      BY <1>4 DEF HookCall, Steps
    <3> HIDE DEF Caller
    <3> QED BY <3>1, <3>2, <3>3 DEF CallOK
  <2>4. caller \in [Caller -> HookCall] /\ \A b \in Caller : CallOK(caller[b], b)
    BY DEF HookInv, HooksTyped
  <2>5. caller'[c] \in HookCall
    BY <2>2 DEF CallOK
  <2>6. caller' \in [Caller -> HookCall]
    BY <1>1, <1>4, <2>4, <2>5
  <2>3. caller' \in [Caller -> HookCall] /\ \A b \in Caller : CallOK(caller'[b], b)
    BY <1>4, <2>2, <2>4, <2>6
  <2> QED BY <1>2, <2>1, <2>3 DEF HookInv, HooksTyped
<1>8. DemoIsQuiet'
  <2>1. \A b \in Caller : demo => caller'[b].item = Nobody
    BY <1>4 DEF HookInv, DemoIsQuiet
  <2> QED BY <1>2, <2>1 DEF HookInv, DemoIsQuiet
<1>9. OwnedIsHeld'
  <2> SUFFICES ASSUME NEW b \in Caller, NEW d \in Hook, ~demo, hook'[d].owner = b
        PROVE  d \in caller'[b].batch \/ caller'[b].item = d
    BY <1>2 DEF OwnedIsHeld
  <2>1. CASE d \in taken
    BY <1>4, <1>5, <2>1
  <2>2. CASE d \notin taken
    <3>1. d \in caller[b].batch \/ caller[b].item = d
      BY <1>6, <2>2 DEF HookInv, OwnedIsHeld
    <3>2. d # Nobody
      OBVIOUS
    <3> QED BY <1>3, <1>4, <3>1, <3>2
  <2> QED BY <2>1, <2>2
<1>10. ASSUME ~demo, NEW d \in Hook PROVE HookPaid(d)'
  <2>1. d \in Caller /\ Sweep \in Caller /\ d # Sweep /\ HookPaid(d)
    BY <1>10 DEF HookInv, Caller
  <2>2. received[d] \in Nat /\ received'[d] = received[d] /\ hookFaults \in Nat /\ hookFaults' = hookFaults
    BY <1>2 DEF HookInv, HooksTyped
  <2>3. \A b \in Caller \ {c} : Sends(b, d)' = Sends(b, d)
    BY <1>4 DEF Sends
  <2>4. ~Sends(c, d) /\ (Sends(c, d)' <=> d \in taken)
    BY <1>3, <1>4 DEF Sends
  <2>5. d \in taken => HookClaimable(d) /\ ~HookClaimable(d)' /\ c \in {d, Sweep}
    <3>1. c # LostCall
      BY DEF Caller
    <3> QED BY <1>1, <1>5, <3>1 DEF HookClaimable, DueHook
  <2>6. d \notin taken => HookClaimable(d)' = HookClaimable(d)
    BY <1>6 DEF HookClaimable
  <2> QED BY <2>1, <2>2, <2>3, <2>4, <2>5, <2>6, PaidMoves DEF One
<1> QED BY <1>2, <1>7, <1>8, <1>9, <1>10 DEF HookInv

\* A call writes rows it owns, and moves itself.
LEMMA CallWrites ==
  ASSUME HookInv, NEW c \in Caller, NEW x, CallOK(x, c),
         caller' = [caller EXCEPT ![c] = x], UNCHANGED <<endpoint, demo, received>>,
         hook' \in [Hook -> HookRow],
         \A d \in Hook : \/ hook'[d] = hook[d]
                         \/ hook[d].owner = c /\ RowOK(hook'[d]) /\ hook'[d].owner \in {c, Nobody, LostCall},
         ~demo => \A d \in Hook : hook'[d].owner = c => d \in x.batch \/ x.item = d,
         demo => x.item = Nobody,
         hookFaults' \in 0 .. MaxHookFaults,
         ~demo => \A d \in Hook :
           One(d \in x.batch \/ (x.item = d /\ x.step = "refused")) + One(HookClaimable(d))' + hookFaults
             <= One(Sends(c, d)) + One(HookClaimable(d)) + hookFaults',
         hookFaults' >= hookFaults
  PROVE  HookInv'
<1>1. caller'[c] = x /\ \A b \in Caller \ {c} : caller'[b] = caller[b]
  BY DEF HookInv, HooksTyped
<1>2. HooksTyped'
  <2>1. caller' \in [Caller -> HookCall] /\ \A b \in Caller : CallOK(caller'[b], b)
    BY <1>1 DEF HookInv, HooksTyped, CallOK
  <2>2. \A d \in Hook : RowOK(hook'[d])
    BY DEF HookInv, HooksTyped
  <2> QED BY <2>1, <2>2 DEF HookInv, HooksTyped
<1>3. DemoIsQuiet'
  BY <1>1 DEF HookInv, DemoIsQuiet
<1>4. OwnedIsHeld'
  <2> SUFFICES ASSUME NEW b \in Caller, NEW d \in Hook, ~demo, hook'[d].owner = b
        PROVE  d \in caller'[b].batch \/ caller'[b].item = d
    BY DEF OwnedIsHeld
  <2>1. CASE b = c
    BY <1>1, <2>1
  <2>2. CASE b # c
    <3>1. Nobody \notin Caller /\ LostCall \notin Caller
      BY DEF Caller
    <3>2. hook[d].owner = b
      BY <2>2, <3>1
    <3> QED BY <1>1, <2>2, <3>2 DEF HookInv, OwnedIsHeld
  <2> QED BY <2>1, <2>2
<1>5. ASSUME ~demo, NEW d \in Hook PROVE HookPaid(d)'
  <2>1. \A b \in Caller \ {c} : Sends(b, d)' = Sends(b, d)
    BY <1>1 DEF Sends
  <2>2. Sends(c, d)' = (d \in x.batch \/ (x.item = d /\ x.step = "refused"))
    BY <1>1 DEF Sends
  <2>3. received[d] \in Nat /\ received'[d] = received[d] /\ hookFaults \in Nat /\ hookFaults' \in Nat
    BY DEF HookInv, HooksTyped
  <2>4. HookPaid(d) /\ d \in Caller /\ Sweep \in Caller /\ d # Sweep
    BY <1>5 DEF HookInv, Caller
  <2>5. c \notin {d, Sweep} => ~Sends(c, d) /\ ~Sends(c, d)'
    <3>1. CallOK(caller[c], c) /\ d # Nobody
      BY DEF HookInv, HooksTyped
    <3> QED BY <2>2, <3>1 DEF Sends, CallOK
  <2>6. One(Sends(c, d))' + One(HookClaimable(d))' + hookFaults
          <= One(Sends(c, d)) + One(HookClaimable(d)) + hookFaults'
    BY <1>5, <2>2
  <2>7. /\ {One(HookClaimable(d)), One(Sends(d, d)), One(Sends(Sweep, d))} \subseteq {0, 1}
        /\ {One(HookClaimable(d))', One(Sends(d, d))', One(Sends(Sweep, d))'} \subseteq {0, 1}
    BY DEF One
  <2>8. received'[d] + One(Sends(d, d))' + One(Sends(Sweep, d))' + One(HookClaimable(d))' + hookFaults
          <= received[d] + One(Sends(d, d)) + One(Sends(Sweep, d)) + One(HookClaimable(d)) + hookFaults'
    <3>1. CASE c = d
      <4>1. One(Sends(Sweep, d))' = One(Sends(Sweep, d))
        BY <2>1, <2>4, <3>1 DEF One
      <4> QED BY <2>3, <2>6, <2>7, <3>1, <4>1
    <3>2. CASE c = Sweep
      <4>1. One(Sends(d, d))' = One(Sends(d, d))
        BY <2>1, <2>4, <3>2 DEF One
      <4> QED BY <2>3, <2>6, <2>7, <3>2, <4>1
    <3>3. CASE c \notin {d, Sweep}
      <4>1. One(Sends(d, d))' = One(Sends(d, d)) /\ One(Sends(Sweep, d))' = One(Sends(Sweep, d))
        BY <2>1, <2>4, <3>3 DEF One
      <4>2. One(Sends(c, d)) = 0 /\ One(Sends(c, d))' = 0
        BY <2>5, <3>3 DEF One
      <4> QED BY <2>3, <2>6, <2>7, <4>1, <4>2
    <3> QED BY <3>1, <3>2, <3>3
  <2> QED BY <2>3, <2>4, <2>8, PaidMoves
<1> QED BY <1>2, <1>3, <1>4, <1>5 DEF HookInv

LEMMA CallReads == ASSUME HookInv, NEW c \in Caller, ReadClaimed(c) PROVE HookInv'
<1>1. PICK due \in SUBSET Hook :
        /\ due = {d \in caller[c].batch : endpoint /\ hook[d].owner = c}
        /\ hook' = [d \in Hook |->
             IF d \in caller[c].batch \ due /\ hook[d].owner = c
             THEN [Free(hook[d]) EXCEPT !.status = "pending"]
             ELSE hook[d]]
        /\ caller' = [caller EXCEPT ![c] = [caller[c] EXCEPT !.batch = due, !.step = "loop"]]
  <2> DEFINE due == {d \in caller[c].batch : endpoint /\ hook[d].owner = c}
  <2>1. caller[c].batch \subseteq Hook
    BY DEF HookInv, HooksTyped, HookCall
  <2>2. due \in SUBSET Hook
    BY <2>1
  <2>3. hook' = [d \in Hook |->
             IF d \in caller[c].batch \ due /\ hook[d].owner = c
             THEN [Free(hook[d]) EXCEPT !.status = "pending"]
             ELSE hook[d]]
    BY DEF ReadClaimed
  <2>4. caller' = [caller EXCEPT ![c] = [caller[c] EXCEPT !.batch = due, !.step = "loop"]]
    <3>1. caller \in [Caller -> HookCall]
      BY DEF HookInv, HooksTyped
    <3>2. caller' = [caller EXCEPT ![c].batch = due, ![c].step = "loop"]
      BY DEF ReadClaimed
    <3> HIDE DEF due, Caller
    <3> QED BY <3>1, <3>2
  <2> HIDE DEF due
  <2>5. due = {d \in caller[c].batch : endpoint /\ hook[d].owner = c}
    BY DEF due
  <2> QED BY <2>2, <2>3, <2>4, <2>5
<1> DEFINE x == [caller[c] EXCEPT !.batch = due, !.step = "loop"]
<1>2. caller[c].step = "claimed" /\ UNCHANGED <<endpoint, demo, received, hookFaults>>
  BY DEF ReadClaimed
<1>3. CallOK(caller[c], c) /\ caller[c] \in HookCall /\ caller[c].item = Nobody
  BY <1>2 DEF HookInv, HooksTyped, CallOK, HookCall
<1>4. x.batch = due /\ x.item = Nobody /\ x.step = "loop" /\ x \in HookCall
  BY <1>3 DEF HookCall, Steps
<1>5. CallOK(x, c)
  <2>1. due \subseteq caller[c].batch
    BY <1>1
  <2> HIDE DEF x
  <2> QED BY <1>3, <1>4, <2>1 DEF CallOK
<1>6. ASSUME NEW d \in Hook, hook'[d] # hook[d]
      PROVE  /\ d \in caller[c].batch /\ hook[d].owner = c /\ d \notin due
             /\ RowOK(hook'[d]) /\ hook'[d].owner = Nobody
  <2>1. d \in caller[c].batch \ due /\ hook[d].owner = c /\ hook'[d] = [Free(hook[d]) EXCEPT !.status = "pending"]
    BY <1>1, <1>6
  <2>2. RowOK(hook[d]) /\ hook[d] \in HookRow /\ c # Nobody
    BY DEF HookInv, HooksTyped, Caller
  <2>3. /\ hook'[d].status = "pending" /\ hook'[d].owner = Nobody /\ hook'[d].tries = hook[d].tries
        /\ hook'[d] \in HookRow
    BY <2>1, <2>2 DEF Free, HookRow
  <2>4. hook[d].tries < MaxTries
    BY <2>1, <2>2 DEF RowOK
  <2> QED BY <2>1, <2>3, <2>4 DEF RowOK
<1>7. hook' \in [Hook -> HookRow]
  <2>1. \A d \in Hook : hook'[d] \in HookRow
    BY <1>6 DEF RowOK, HookInv, HooksTyped
  <2> QED BY <1>1, <2>1
<1>8. ASSUME ~demo, NEW d \in Hook, hook'[d].owner = c PROVE d \in x.batch
  <2>1. c # Nobody /\ d # Nobody
    BY DEF Caller
  <2>2. hook'[d] = hook[d]
    BY <1>6, <1>8, <2>1
  <2>3. d \in caller[c].batch
    BY <1>3, <1>8, <2>1, <2>2 DEF HookInv, OwnedIsHeld
  <2>4. ASSUME d \notin due PROVE FALSE
    <3>1. hook'[d] = [Free(hook[d]) EXCEPT !.status = "pending"]
      BY <1>1, <1>8, <2>2, <2>3, <2>4
    <3>2. hook[d] \in HookRow
      BY DEF HookInv, HooksTyped
    <3> QED BY <1>8, <2>1, <3>1, <3>2 DEF Free, HookRow
  <2> QED BY <1>4, <2>4
<1>9. ASSUME NEW d \in Hook
      PROVE  One(d \in x.batch \/ (x.item = d /\ x.step = "refused")) + One(HookClaimable(d))' + hookFaults
               <= One(Sends(c, d)) + One(HookClaimable(d)) + hookFaults'
  <2>0. hookFaults \in Nat /\ hookFaults' = hookFaults
    BY <1>2 DEF HookInv, HooksTyped
  <2>1. (d \in x.batch \/ (x.item = d /\ x.step = "refused")) <=> d \in due
    BY <1>4
  <2>2. d \in due => Sends(c, d)
    BY <1>1 DEF Sends
  <2>3. hook'[d] = hook[d] => HookClaimable(d)' = HookClaimable(d)
    BY DEF HookClaimable
  <2>4. hook'[d] # hook[d] => Sends(c, d) /\ d \notin due
    BY <1>6 DEF Sends
  <2> QED BY <2>0, <2>1, <2>2, <2>3, <2>4 DEF One
<1>10. hookFaults' \in 0 .. MaxHookFaults /\ hookFaults' >= hookFaults
  BY <1>2 DEF HookInv, HooksTyped
<1>11. caller' = [caller EXCEPT ![c] = x]
  BY <1>1
<1>12. \A d \in Hook : \/ hook'[d] = hook[d]
                       \/ hook[d].owner = c /\ RowOK(hook'[d]) /\ hook'[d].owner \in {c, Nobody, LostCall}
  BY <1>6
<1> HIDE DEF x
<1> QED BY <1>2, <1>4, <1>5, <1>7, <1>8, <1>9, <1>10, <1>11, <1>12, CallWrites

LEMMA CallRecords == ASSUME HookInv, NEW c \in Caller, RecordOutcome(c) PROVE HookInv'
<1>1. PICK d \in Hook : d = caller[c].item
  BY DEF RecordOutcome, HookInv, HooksTyped, HookCall
<1> DEFINE x == [caller[c] EXCEPT !.item = Nobody, !.step = "loop"]
<1>2. caller' = [caller EXCEPT ![c] = x] /\ UNCHANGED <<endpoint, demo, received, hookFaults>>
  BY DEF RecordOutcome
<1>3. /\ CallOK(caller[c], c) /\ caller[c] \in HookCall /\ d # Nobody /\ ~demo /\ c # Nobody
      /\ d \notin caller[c].batch /\ caller[c].step \in {"answered", "refused"}
  <2>1. CallOK(caller[c], c) /\ d # Nobody /\ c # Nobody
    BY DEF HookInv, HooksTyped, Caller
  <2>2. ~demo
    BY <1>1, <2>1 DEF HookInv, DemoIsQuiet
  <2> QED BY <1>1, <2>1, <2>2 DEF CallOK
<1>4. x.batch = caller[c].batch /\ x.item = Nobody /\ x.step = "loop" /\ x \in HookCall
  BY <1>3 DEF HookCall, Steps
<1>5. CallOK(x, c)
  <2>0. Nobody \notin caller[c].batch
    BY <1>3 DEF HookCall
  <2> HIDE DEF x
  <2> QED BY <1>3, <1>4, <2>0 DEF CallOK
<1>6. /\ Owned(d, c) => hook' = [hook EXCEPT ![d] = Tried(hook[d], caller[c].step)]
      /\ ~Owned(d, c) => hook' = hook
  BY <1>1 DEF RecordOutcome, StillClaimed
<1>7. /\ hook \in [Hook -> HookRow] /\ RowOK(hook[d]) /\ hook[d] \in HookRow /\ hookFaults \in 0 .. MaxHookFaults
      /\ Owned(d, c) <=> hook[d].owner = c
  BY <1>3 DEF HookInv, HooksTyped, RowOK, Owned
<1>8. ASSUME Owned(d, c)
      PROVE  /\ RowOK(hook'[d]) /\ hook'[d].owner = Nobody
             /\ caller[c].step = "answered" => hook'[d].status = "success"
             /\ hook'[d].status \in {"success", "exhausted", "failed"}
  <2>1. hook'[d] = Tried(hook[d], caller[c].step)
    BY <1>6, <1>7, <1>8
  <2>2. hook[d].tries \in Nat /\ hook[d].tries + 1 \in 0 .. MaxTries
    BY <1>7, <1>8 DEF RowOK, HookRow, Owned
  <2>0. Free(hook[d]) \in HookRow /\ Free(hook[d]).owner = Nobody
    BY <1>7 DEF Free, HookRow
  <2>3. PICK f : f = Free(hook[d]) /\ f \in HookRow /\ f.owner = Nobody
    BY <2>0
  <2>4. PICK n \in 0 .. MaxTries : n = hook[d].tries + 1
    BY <2>2
  <2>5. PICK st \in {"success", "exhausted", "failed"} :
          /\ st = IF caller[c].step = "answered" THEN "success"
                  ELSE IF n >= MaxTries THEN "exhausted" ELSE "failed"
          /\ st = "failed" => n < MaxTries
    BY <2>4
  <2>6. hook'[d] = [f EXCEPT !.tries = n, !.due = FALSE, !.status = st]
    BY <2>1, <2>3, <2>4, <2>5 DEF Tried
  <2>7. /\ hook'[d] \in HookRow /\ hook'[d].owner = Nobody /\ hook'[d].tries = n
        /\ hook'[d].status = st
    BY <2>3, <2>4, <2>5, <2>6 DEF HookRow
  <2> QED BY <2>5, <2>7 DEF RowOK
<1>9. \A e \in Hook \ {d} : hook'[e] = hook[e]
  BY <1>6, <1>7
<1>10. hook' \in [Hook -> HookRow]
  <2>1. Owned(d, c) => Tried(hook[d], caller[c].step) \in HookRow
    BY <1>6, <1>7, <1>8 DEF RowOK
  <2> QED BY <1>6, <1>7, <2>1
<1>11. \A e \in Hook : \/ hook'[e] = hook[e]
                       \/ hook[e].owner = c /\ RowOK(hook'[e]) /\ hook'[e].owner \in {c, Nobody, LostCall}
  BY <1>6, <1>7, <1>8, <1>9
<1>12. ASSUME NEW e \in Hook, hook'[e].owner = c PROVE e \in x.batch
  <2>1. e # d
    BY <1>3, <1>6, <1>7, <1>8, <1>12
  <2>2. e \in caller[c].batch
    BY <1>1, <1>3, <1>9, <1>12, <2>1 DEF HookInv, OwnedIsHeld
  <2> QED BY <1>4, <2>2
<1>13. ASSUME NEW e \in Hook
       PROVE  One(e \in x.batch \/ (x.item = e /\ x.step = "refused")) + One(HookClaimable(e))' + hookFaults
                <= One(Sends(c, e)) + One(HookClaimable(e)) + hookFaults'
  <2>0. hookFaults \in Nat /\ hookFaults' = hookFaults
    BY <1>2, <1>7
  <2>1. (e \in x.batch \/ (x.item = e /\ x.step = "refused")) <=> e \in caller[c].batch
    BY <1>4
  <2>2. e \in caller[c].batch => Sends(c, e)
    BY DEF Sends
  <2>3. hook'[e] = hook[e] => HookClaimable(e)' = HookClaimable(e)
    BY DEF HookClaimable
  <2>4. ASSUME hook'[e] # hook[e] PROVE e \notin caller[c].batch /\ (HookClaimable(e)' => Sends(c, e))
    <3>1. e = d /\ Owned(d, c)
      BY <1>6, <1>9, <2>4
    <3>2. HookClaimable(d)' => caller[c].step = "refused"
      BY <1>3, <1>8, <3>1 DEF HookClaimable
    <3> QED BY <1>1, <1>3, <3>1, <3>2 DEF Sends
  <2> QED BY <2>0, <2>1, <2>2, <2>3, <2>4 DEF One
<1>14. hookFaults' \in 0 .. MaxHookFaults /\ hookFaults' >= hookFaults
  BY <1>2, <1>7
<1> HIDE DEF x
<1> QED BY <1>2, <1>3, <1>4, <1>5, <1>10, <1>11, <1>12, <1>13, <1>14, CallWrites

\* A call that ends leaves no row behind; one that dies leaves what it had, for a fault.
LEMMA CallLeaves ==
  ASSUME HookInv, NEW c \in Caller, EndCall(c) \/ CrashCall(c) PROVE HookInv'
<1>1. PICK x :
        /\ caller' = [caller EXCEPT ![c] = x]
        /\ x.batch = {} /\ x.item = Nobody /\ x.step \in {"idle", "done"} /\ x \in HookCall
  <2>1. caller[c] \in HookCall /\ caller \in [Caller -> HookCall]
    BY DEF HookInv, HooksTyped
  <2>2. CASE EndCall(c)
    <3>1. caller' = [caller EXCEPT ![c] = [caller[c] EXCEPT !.step = IF c = Sweep THEN "idle" ELSE "done"]]
      BY <2>2 DEF EndCall
    <3>2. caller[c].batch = {} /\ caller[c].item = Nobody
      BY <2>2 DEF EndCall
    <3>3. [caller[c] EXCEPT !.step = IF c = Sweep THEN "idle" ELSE "done"] \in HookCall
      BY <2>1 DEF HookCall, Steps
    <3>4. PICK x : x = [caller[c] EXCEPT !.step = IF c = Sweep THEN "idle" ELSE "done"]
      OBVIOUS
    <3>5. x.batch = {} /\ x.item = Nobody /\ x.step \in {"idle", "done"}
      BY <2>1, <3>2, <3>4 DEF HookCall
    <3> QED BY <3>1, <3>3, <3>4, <3>5
  <2>3. CASE CrashCall(c)
    <3>1. PICK x : x = [IdleCaller EXCEPT !.step = IF c = Sweep THEN "idle" ELSE "done"]
      OBVIOUS
    <3>2. caller' = [caller EXCEPT ![c] = x]
      BY <2>3, <3>1 DEF CrashCall
    <3>3. x.batch = {} /\ x.item = Nobody /\ x.step \in {"idle", "done"} /\ x \in HookCall
      BY <3>1 DEF IdleCaller, HookCall, Steps
    <3> QED BY <3>2, <3>3
  <2> QED BY <2>2, <2>3
<1>2. UNCHANGED <<endpoint, demo, received>> /\ hook' = Orphaned(c)
  BY DEF EndCall, CrashCall
<1>3. CallOK(x, c) /\ \A d \in Hook : d # Nobody
  BY <1>1 DEF CallOK
<1>4. /\ hookFaults \in 0 .. MaxHookFaults /\ hookFaults' \in 0 .. MaxHookFaults
      /\ hookFaults' >= hookFaults /\ (CrashCall(c) => hookFaults' = hookFaults + 1)
  BY DEF EndCall, CrashCall, HookFault, HookInv, HooksTyped
<1>5. ASSUME NEW d \in Hook
      PROVE  /\ hook'[d] \in HookRow /\ hook'[d].owner # c
             /\ \/ hook'[d] = hook[d]
                \/ hook[d].owner = c /\ RowOK(hook'[d]) /\ hook'[d].owner = LostCall
  <2>1. hook[d] \in HookRow /\ RowOK(hook[d]) /\ c # Nobody /\ c # LostCall
    BY DEF HookInv, HooksTyped, Caller
  <2>2. CASE hook[d].owner = c
    <3>1. hook'[d] = [hook[d] EXCEPT !.owner = LostCall]
      BY <1>2, <2>2 DEF Orphaned
    <3>2. hook'[d] \in HookRow /\ hook'[d].owner = LostCall /\ hook'[d].status = hook[d].status /\ hook'[d].tries = hook[d].tries
      BY <2>1, <3>1 DEF HookRow
    <3> QED BY <2>1, <2>2, <3>2 DEF RowOK
  <2>3. CASE hook[d].owner # c
    BY <1>2, <2>1, <2>3 DEF Orphaned
  <2> QED BY <2>2, <2>3
<1>6. hook' \in [Hook -> HookRow]
  BY <1>2, <1>5 DEF Orphaned
<1>7. ASSUME ~demo, NEW d \in Hook
      PROVE  One(d \in x.batch \/ (x.item = d /\ x.step = "refused")) + One(HookClaimable(d))' + hookFaults
                <= One(Sends(c, d)) + One(HookClaimable(d)) + hookFaults'
  <2>1. ~(d \in x.batch \/ (x.item = d /\ x.step = "refused"))
    BY <1>1
  <2>2. hook'[d] = hook[d] => HookClaimable(d)' = HookClaimable(d)
    BY DEF HookClaimable
  <2>3. ASSUME hook'[d] # hook[d] PROVE hookFaults' = hookFaults + 1
    <3>1. hook[d].owner = c
      BY <1>5, <2>3
    <3>2. caller[c].batch # {} \/ caller[c].item # Nobody
      BY <1>3, <1>7, <3>1 DEF HookInv, OwnedIsHeld
    <3>3. ~EndCall(c)
      BY <3>2 DEF EndCall
    <3> QED BY <1>4, <3>3
  <2>4. One(d \in x.batch \/ (x.item = d /\ x.step = "refused")) = 0
    BY <2>1 DEF One
  <2>5. {One(Sends(c, d)), One(HookClaimable(d)), One(HookClaimable(d))'} \subseteq {0, 1}
    BY DEF One
  <2>6. CASE hook'[d] = hook[d]
    <3>1. One(HookClaimable(d))' = One(HookClaimable(d))
      BY <2>2, <2>6 DEF One
    <3> QED BY <1>4, <2>4, <2>5, <3>1
  <2>7. CASE hook'[d] # hook[d]
    BY <1>4, <2>3, <2>4, <2>5, <2>7
  <2> QED BY <2>6, <2>7
<1> QED BY <1>1, <1>2, <1>3, <1>4, <1>5, <1>6, <1>7, CallWrites

LEMMA HookStep == HookInv /\ [HookNext]_hookVars => HookInv'
<1> SUFFICES ASSUME HookInv, [HookNext]_hookVars PROVE HookInv'
  OBVIOUS
<1>1. CASE UNCHANGED hookVars
  BY <1>1 DEF hookVars, HookInv, HooksTyped, OwnedIsHeld, DemoIsQuiet, HookPaid, Sends, HookClaimable
<1>2. ASSUME NEW c \in Caller, CallStep(c) \/ CrashCall(c) \/ \E d \in Hook : AnswerLost(c, d) PROVE HookInv'
  BY <1>2, CallClaims, CallReads, CallRecords, CallLeaves, CallSends, DemoSends DEF CallStep
<1>3. ASSUME NEW d \in Hook, QueueHook(d) \/ HookLockExpires(d) \/ RetryIsDue(d) PROVE HookInv'
  BY <1>3, RowsAge
<1> QED BY <1>1, <1>2, <1>3, EndpointToggles DEF HookNext

LEMMA HookInvariant == HookSpec => []HookInv
BY HookStart, HookStep, PTL DEF HookSpec

\* The types of the webhook queue's state.
THEOREM HookTyped == HookSpec => []HookTypeOK
<1>1. HookInv => HookTypeOK
  BY DEF HookInv, HooksTyped, HookTypeOK, HookRow, HookCall
<1> QED BY <1>1, HookInvariant, PTL

\* Whatever the calls, the sweeps and the expiring locks do, the endpoint processes a
\* delivery once and one time more for each fault (deliverWebhook, dispatchDueWebhooks).
THEOREM HooksArePaid == HookSpec => []HooksPaid
<1>1. HookInv => HooksPaid
  <2> SUFFICES ASSUME HookInv, NEW d \in Hook PROVE received[d] <= 1 + hookFaults
    BY DEF HooksPaid
  <2>1. received[d] \in Nat /\ hookFaults \in Nat
    BY DEF HookInv, HooksTyped
  <2>2. CASE demo
    BY <2>1, <2>2 DEF HookInv, DemoIsQuiet
  <2>3. CASE ~demo
    <3>1. HookPaid(d)
      BY <2>3 DEF HookInv
    <3>2. One(Sends(d, d)) \in {0, 1} /\ One(Sends(Sweep, d)) \in {0, 1} /\ One(HookClaimable(d)) \in {0, 1}
      BY DEF One
    <3> QED BY <2>1, <3>1, <3>2 DEF HookPaid
  <2> QED BY <2>2, <2>3
<1> QED BY <1>1, HookInvariant, PTL

\* A delivery that succeeded or is exhausted stays as it is, and only the call that owns a
\* row adds to its attempts: the guarded update drops a late result (deliverWebhook).
THEOREM HookOutcomesAreFinal == HookSpec => HookOutcomeFinal
<1> DEFINE Kept(d) ==
      /\ hook[d].status \in {"success", "exhausted"} => hook'[d] = hook[d]
      /\ hook'[d].tries # hook[d].tries => \E c \in Caller : Owned(d, c) /\ caller[c].item = d
<1>1. ASSUME HookInv, HookNext, NEW d \in Hook PROVE Kept(d)
  <2>0. hook[d] \in HookRow /\ RowOK(hook[d]) /\ hook \in [Hook -> HookRow]
    BY <1>1 DEF HookInv, HooksTyped
  <2>1. hook'[d] = hook[d] => Kept(d)
    OBVIOUS
  <2>2. hook[d].status \notin {"success", "exhausted"} /\ hook'[d].tries = hook[d].tries => Kept(d)
    OBVIOUS
  <2>3. ASSUME NEW c \in Caller, ClaimHooks(c) PROVE Kept(d)
    <3>1. \/ hook'[d] = hook[d]
          \/ DueHook(d) /\ hook'[d] = [hook[d] EXCEPT !.status = "processing", !.owner = c, !.stale = FALSE]
      BY <2>3 DEF ClaimHooks
    <3>2. [hook[d] EXCEPT !.status = "processing", !.owner = c, !.stale = FALSE].tries = hook[d].tries
      BY <2>0 DEF HookRow
    <3> QED BY <2>1, <2>2, <3>1, <3>2 DEF DueHook
  <2>4. ASSUME NEW c \in Caller, ReadClaimed(c) PROVE Kept(d)
    <3>1. hook'[d] = hook[d] \/ (hook[d].owner = c /\ hook'[d] = [Free(hook[d]) EXCEPT !.status = "pending"])
      BY <2>4 DEF ReadClaimed
    <3>2. hook[d].owner = c => hook[d].status = "processing"
      BY <2>0 DEF RowOK, Caller
    <3>3. [Free(hook[d]) EXCEPT !.status = "pending"].tries = hook[d].tries
      BY <2>0 DEF Free, HookRow
    <3> QED BY <2>1, <2>2, <3>1, <3>2, <3>3
  <2>5. ASSUME NEW c \in Caller, RecordOutcome(c) PROVE Kept(d)
    <3>1. \/ hook'[d] = hook[d]
          \/ caller[c].item = d /\ Owned(d, c)
      BY <2>0, <2>5 DEF RecordOutcome, StillClaimed
    <3>2. Owned(d, c) => hook[d].status = "processing"
      BY DEF Owned
    <3> QED BY <2>1, <3>1, <3>2
  <2>6. ASSUME NEW c \in Caller, EndCall(c) \/ CrashCall(c) PROVE Kept(d)
    <3>1. hook'[d] = hook[d] \/ (hook[d].owner = c /\ hook'[d] = [hook[d] EXCEPT !.owner = LostCall])
      BY <2>6 DEF EndCall, CrashCall, Orphaned
    <3>2. hook[d].owner = c => hook[d].status = "processing"
      BY <2>0 DEF RowOK, Caller
    <3>3. [hook[d] EXCEPT !.owner = LostCall].tries = hook[d].tries
      BY <2>0 DEF HookRow
    <3> QED BY <2>1, <2>2, <3>1, <3>2, <3>3
  <2>7. ASSUME NEW c \in Caller, NEW e \in Hook,
               Answered(c, e) \/ Refused(c, e) \/ AnswerLost(c, e) \/ Suppress(c, e)
        PROVE Kept(d)
    BY <2>1, <2>7 DEF Answered, Refused, AnswerLost, Suppress
  <2>8. ASSUME NEW e \in Hook, QueueHook(e) \/ HookLockExpires(e) \/ RetryIsDue(e) PROVE Kept(d)
    <3>1. \/ hook'[d] = hook[d]
          \/ /\ hook[d].status \notin {"success", "exhausted"}
             /\ hook'[d] \in {[hook[d] EXCEPT !.status = "pending"], [hook[d] EXCEPT !.stale = TRUE],
                              [hook[d] EXCEPT !.due = TRUE]}
      BY <2>0, <2>8 DEF QueueHook, HookLockExpires, RetryIsDue
    <3>2. \A y \in {[hook[d] EXCEPT !.status = "pending"], [hook[d] EXCEPT !.stale = TRUE],
                    [hook[d] EXCEPT !.due = TRUE]} : y.tries = hook[d].tries
      BY <2>0 DEF HookRow
    <3> QED BY <2>1, <2>2, <3>1, <3>2
  <2>9. CASE ToggleEndpoint
    BY <2>1, <2>9 DEF ToggleEndpoint
  <2> QED BY <1>1, <2>3, <2>4, <2>5, <2>6, <2>7, <2>8, <2>9 DEF HookNext, CallStep
<1>2. HookInv /\ [HookNext]_hookVars => [\A d \in Hook : Kept(d)]_hookVars
  BY <1>1
<1> QED BY <1>2, HookInvariant, PTL DEF HookSpec, HookOutcomeFinal

HIDE WebhookQueueAssumption

-----------------------------------------------------------------------------
(***************************************************************************)
(* Domain events and the dispatch of runs: for any events, workflows, caps *)
(* and deaths, what is acknowledged is handled and what is executed was    *)
(* admitted.                                                               *)
(***************************************************************************)

USE EventDispatchAssumption

Run == [status: {"none", "deferred", "queued", "running", "orphan", "delayed", "ended"},
        fast: BOOLEAN, recent: BOOLEAN, charged: BOOLEAN]

DispatcherRow == [event: Event \cup {NoEvent}, left: SUBSET Workflow,
                  current: SUBSET Workflow, stage: Stages, defer: BOOLEAN]

Executed == {"running", "orphan", "delayed", "ended"}

\* A run was admitted before anything executes it, or may without asking again.
RunOK(r) ==
  /\ r \in Run
  /\ r.recent \/ r.charged => r.status # "none"
  /\ r.fast \/ r.status \in Executed => r.charged

ScanCharged == \A i \in scan : ~i.admits => started[i.run[1]][i.run[2]].charged

Handled(w, e) == \E f \in Kin(e) : started[w][f].status # "none"

\* What a dispatcher has behind it is handled.
DispatcherOK(x) ==
  /\ x.stage \notin {"idle", "done"} => x.event \in Event
  /\ x.stage = "loop" => x.current = {}
  /\ x.stage \in {"loop", "admit", "insert"} =>
       \A w \in setup.wants[x.event] \ (x.left \cup x.current) : Handled(w, x.event)

DispatchInv ==
  /\ DispatchTypeOK
  /\ \A w \in Workflow, e \in Event : RunOK(started[w][e])
  /\ ScanCharged
  /\ \A d \in Dispatcher : DispatcherOK(dispatcher[d])
  /\ AcknowledgedIsHandled

LEMMA DispatchParts ==
  ASSUME DispatchTypeOK
  PROVE  /\ started \in [Workflow -> [Event -> Run]]
         /\ dispatcher \in [Dispatcher -> DispatcherRow]
         /\ admitted \in Buckets /\ dispatchFaults \in 0 .. MaxDispatchFaults
         /\ setup.wants \in [Event -> SUBSET Workflow]
BY DEF DispatchTypeOK, Run, DispatcherRow

LEMMA NewMinuteOK == NewMinute \in Buckets
<1>1. 0 \in 0 .. MinuteLimit /\ 0 \in 0 .. WorkflowLimit
  OBVIOUS
<1> QED BY <1>1 DEF NewMinute, Buckets

LEMMA DispatchStart == DispatchInit => DispatchInv
<1> SUFFICES ASSUME DispatchInit PROVE DispatchInv
  OBVIOUS
<1>1. NoRun \in Run /\ RunOK(NoRun)
  BY DEF NoRun, Run, RunOK, Executed
<1>2. Resting("idle") \in DispatcherRow /\ DispatcherOK(Resting("idle"))
  BY DEF Resting, DispatcherRow, DispatcherOK, Stages
<1>3. /\ started = [w \in Workflow |-> [e \in Event |-> NoRun]]
      /\ dispatcher = [d \in Dispatcher |-> Resting("idle")]
      /\ outbox = [e \in Event |-> "absent"] /\ scan = {} /\ queue = {}
      /\ admitted = NewMinute /\ dispatchFaults = 0 /\ setup \in Setup
  BY DEF DispatchInit
<1>4. DispatchTypeOK
  <2>1. started \in [Workflow -> [Event -> Run]] /\ dispatcher \in [Dispatcher -> DispatcherRow]
    BY <1>1, <1>2, <1>3
  <2>2. NewMinute \in Buckets /\ 0 \in 0 .. MaxDispatchFaults
    BY NewMinuteOK
  <2> QED BY <1>3, <2>1, <2>2 DEF DispatchTypeOK, Run, DispatcherRow
<1>5. \A w \in Workflow, e \in Event : RunOK(started[w][e])
  BY <1>1, <1>3
<1>6. \A d \in Dispatcher : DispatcherOK(dispatcher[d])
  BY <1>2, <1>3
<1> QED BY <1>3, <1>4, <1>5, <1>6 DEF DispatchInv, ScanCharged, AcknowledgedIsHandled

\* Runs only come into being, and an admission stays.
RunsGrow ==
  \A w \in Workflow, e \in Event :
    /\ started[w][e].status # "none" => started'[w][e].status # "none"
    /\ started[w][e].charged => started'[w][e].charged

LEMMA HandledStays ==
  ASSUME NEW w \in Workflow, NEW e \in Event, Handled(w, e), RunsGrow, UNCHANGED setup
  PROVE  Handled(w, e)'
BY DEF Handled, Kin, RunsGrow

\* What is left of the invariant when the runs only grow and a dispatcher, the outbox or
\* the scan has changed as it should.
LEMMA DispatchKept ==
  ASSUME DispatchInv, RunsGrow, UNCHANGED setup, DispatchTypeOK',
         \A w \in Workflow, e \in Event : RunOK(started'[w][e]),
         \A i \in scan' \ scan : ~i.admits => started'[i.run[1]][i.run[2]].charged,
         \A d \in Dispatcher : dispatcher'[d] = dispatcher[d] \/ DispatcherOK(dispatcher[d])',
         \A e \in Event : outbox'[e] = "dispatched" =>
           outbox[e] = "dispatched" \/ \A w \in setup.wants[e] : Handled(w, e)
  PROVE  DispatchInv'
<1>0. \A e \in Event : setup.wants[e] \subseteq Workflow
  BY DispatchParts DEF DispatchInv
<1>1. ScanCharged'
  <2>1. \A i \in scan : i.run[1] \in Workflow /\ i.run[2] \in Event
    BY DEF DispatchInv, DispatchTypeOK, RunOf
  <2> QED BY <2>1 DEF DispatchInv, ScanCharged, RunsGrow
<1>2. ASSUME NEW d \in Dispatcher, dispatcher'[d] = dispatcher[d] PROVE DispatcherOK(dispatcher[d])'
  <2>1. DispatcherOK(dispatcher[d])
    BY DEF DispatchInv
  <2> QED BY <1>0, <1>2, <2>1, HandledStays DEF DispatcherOK
<1>3. AcknowledgedIsHandled'
  <2> SUFFICES ASSUME NEW e \in Event, outbox'[e] = "dispatched", NEW w \in setup.wants[e]
               PROVE Handled(w, e)'
    BY DEF AcknowledgedIsHandled, Handled
  <2>1. Handled(w, e)
    BY DEF DispatchInv, AcknowledgedIsHandled, Handled
  <2> QED BY <1>0, <2>1, HandledStays
<1> QED BY <1>1, <1>2, <1>3 DEF DispatchInv

\* One dispatcher moves, no run does.
LEMMA DispatcherMoves ==
  ASSUME DispatchInv, NEW d \in Dispatcher, NEW x, x \in DispatcherRow, DispatcherOK(x),
         dispatcher' = [dispatcher EXCEPT ![d] = x],
         UNCHANGED <<setup, started, scan>>, admitted' \in Buckets,
         dispatchFaults' \in 0 .. MaxDispatchFaults,
         queue' \subseteq Event, outbox' \in [Event -> {"absent", "stored", "dispatched"}],
         \A e \in Event : outbox'[e] = "dispatched" =>
           outbox[e] = "dispatched" \/ \A w \in setup.wants[e] : Handled(w, e)
  PROVE  DispatchInv'
<1>1. /\ dispatcher' \in [Dispatcher -> DispatcherRow] /\ dispatcher'[d] = x
      /\ \A b \in Dispatcher \ {d} : dispatcher'[b] = dispatcher[b]
  BY DispatchParts DEF DispatchInv
<1>2. DispatchTypeOK'
  BY <1>1 DEF DispatchInv, DispatchTypeOK, DispatcherRow
<1>3. \A b \in Dispatcher : dispatcher'[b] = dispatcher[b] \/ DispatcherOK(dispatcher[b])'
  <2>1. DispatcherOK(x)'
    BY DEF DispatcherOK, Handled, Kin
  <2> QED BY <1>1, <2>1 DEF DispatcherOK
<1>4. RunsGrow /\ \A w \in Workflow, e \in Event : RunOK(started'[w][e])
  BY DEF RunsGrow, DispatchInv
<1> QED BY <1>2, <1>3, <1>4, DispatchKept

\* One run moves, no dispatcher does.
LEMMA RunMoves ==
  ASSUME DispatchInv, NEW w \in Workflow, NEW e \in Event, NEW r, RunOK(r),
         started' = [started EXCEPT ![w][e] = r],
         started[w][e].status # "none" => r.status # "none",
         started[w][e].charged => r.charged,
         UNCHANGED <<setup, outbox, dispatcher, queue>>, scan' \subseteq scan,
         admitted' \in Buckets, dispatchFaults' \in 0 .. MaxDispatchFaults
  PROVE  DispatchInv'
<1>1. /\ started' \in [Workflow -> [Event -> Run]] /\ started'[w][e] = r
      /\ \A v \in Workflow, f \in Event : v # w \/ f # e => started'[v][f] = started[v][f]
  BY DispatchParts DEF DispatchInv, RunOK
<1>2. DispatchTypeOK'
  BY <1>1 DEF DispatchInv, DispatchTypeOK, Run
<1>3. RunsGrow
  BY <1>1 DEF RunsGrow
<1>4. \A v \in Workflow, f \in Event : RunOK(started'[v][f])
  BY <1>1 DEF DispatchInv
<1> QED BY <1>2, <1>3, <1>4, DispatchKept

-----------------------------------------------------------------------------
\* Emit, and the cron's next event.
LEMMA Beginnings ==
  ASSUME DispatchInv, UNCHANGED setup, NEW e \in Event, Emit(e) \/ NextEvent(e) PROVE DispatchInv'
<1>1. PICK d \in Dispatcher : Begins(d, e)
  BY DEF Emit, NextEvent, Dispatcher
<1>2. setup.wants[e] \subseteq Workflow
  BY DispatchParts DEF DispatchInv
<1>3. PICK x : x = [Resting("loop") EXCEPT !.event = e, !.left = setup.wants[e]]
  OBVIOUS
<1>4. x \in DispatcherRow /\ DispatcherOK(x)
  BY <1>2, <1>3 DEF Resting, DispatcherRow, DispatcherOK, Stages
<1>5. dispatcher' = [dispatcher EXCEPT ![d] = x]
  BY <1>1, <1>3 DEF Begins
<1>6. UNCHANGED <<setup, started, scan, dispatchFaults, admitted>>
  BY DEF Emit, NextEvent
<1>7. /\ admitted' \in Buckets /\ queue' \subseteq Event
      /\ dispatchFaults' \in 0 .. MaxDispatchFaults
  BY <1>6 DEF Emit, NextEvent, DispatchInv, DispatchTypeOK
<1>8. /\ outbox' \in [Event -> {"absent", "stored", "dispatched"}]
      /\ \A f \in Event : outbox'[f] = "dispatched" => outbox[f] = "dispatched"
  BY DEF Emit, NextEvent, DispatchInv, DispatchTypeOK
<1> QED BY <1>4, <1>5, <1>6, <1>7, <1>8, DispatcherMoves

LEMMA Checks ==
  ASSUME DispatchInv, UNCHANGED setup, NEW d \in Dispatcher, NEW w \in Workflow, CheckLoop(d, w)
  PROVE  DispatchInv'
<1>1. PICK b \in BOOLEAN : b = Reentrant(w, dispatcher[d].event)
  BY DEF Reentrant
<1>2. PICK x : x = [dispatcher[d] EXCEPT !.left = dispatcher[d].left \ {w},
                      !.current = IF b THEN {} ELSE {w}, !.stage = IF b THEN "loop" ELSE "admit"]
  OBVIOUS
<1>3. dispatcher[d] \in DispatcherRow /\ dispatcher \in [Dispatcher -> DispatcherRow] /\ DispatcherOK(dispatcher[d])
  BY DispatchParts DEF DispatchInv
<1>4. dispatcher' = [dispatcher EXCEPT ![d] = x]
  BY <1>1, <1>2, <1>3 DEF CheckLoop
<1>5. /\ x \in DispatcherRow /\ x.event = dispatcher[d].event /\ x.left = dispatcher[d].left \ {w}
      /\ x.current = (IF b THEN {} ELSE {w}) /\ x.stage = (IF b THEN "loop" ELSE "admit")
  BY <1>2, <1>3 DEF DispatcherRow, Stages
<1>6. dispatcher[d].stage = "loop" /\ dispatcher[d].current = {} /\ x.event \in Event
  BY <1>3, <1>5 DEF CheckLoop, DispatcherOK
<1>7. b => Handled(w, x.event)
  <2>1. \A f \in Event : started[w][f].recent => started[w][f].status # "none"
    BY DEF DispatchInv, RunOK
  <2> QED BY <1>1, <1>5, <2>1 DEF Reentrant, Handled, Kin
<1>8. DispatcherOK(x)
  <2>1. \A v \in setup.wants[x.event] \ dispatcher[d].left : Handled(v, x.event)
    BY <1>3, <1>5, <1>6 DEF DispatcherOK
  <2> QED BY <1>5, <1>6, <1>7, <2>1 DEF DispatcherOK
<1>9. UNCHANGED <<outbox, started, admitted, queue, scan, dispatchFaults>>
  BY DEF CheckLoop
<1>10. /\ admitted' \in Buckets /\ queue' \subseteq Event
       /\ outbox' \in [Event -> {"absent", "stored", "dispatched"}]
       /\ dispatchFaults' \in 0 .. MaxDispatchFaults
  BY <1>9 DEF DispatchInv, DispatchTypeOK
<1> QED BY <1>4, <1>5, <1>8, <1>9, <1>10, DispatcherMoves

\* An admission takes one of each bucket and stays within both.
LEMMA CountedFits ==
  ASSUME DispatchInv, NEW w \in Workflow, CanAdmit(w) PROVE Counted(w) \in Buckets
<1>1. admitted \in [space: 0 .. MinuteLimit, flow: [Workflow -> 0 .. WorkflowLimit]]
  BY DispatchParts DEF DispatchInv, Buckets
<1>2. admitted.space + 1 \in 0 .. MinuteLimit /\ admitted.flow[w] + 1 \in 0 .. WorkflowLimit
  BY <1>1 DEF CanAdmit
<1>3. [admitted.flow EXCEPT ![w] = @ + 1] \in [Workflow -> 0 .. WorkflowLimit]
  BY <1>1, <1>2
<1> QED BY <1>2, <1>3 DEF Counted, Buckets

LEMMA Bucketed ==
  ASSUME DispatchInv, NEW w \in Workflow, Admits(w) \/ Refuses(w)
  PROVE  admitted' \in Buckets /\ dispatchFaults' \in 0 .. MaxDispatchFaults
<1>1. admitted \in Buckets /\ dispatchFaults \in 0 .. MaxDispatchFaults
  BY DispatchParts DEF DispatchInv
<1> QED BY <1>1, CountedFits DEF Admits, Refuses, DispatchFault

LEMMA Admissions ==
  ASSUME DispatchInv, UNCHANGED setup, NEW d \in Dispatcher, NEW w \in Workflow, AdmitNew(d, w)
  PROVE  DispatchInv'
<1>1. PICK b \in BOOLEAN :
        /\ IF b THEN Refuses(w) ELSE Admits(w)
        /\ dispatcher' = [dispatcher EXCEPT ![d].stage = "insert", ![d].defer = b]
  BY DEF AdmitNew
<1>2. PICK x : x = [dispatcher[d] EXCEPT !.stage = "insert", !.defer = b]
  OBVIOUS
<1>3. dispatcher[d] \in DispatcherRow /\ dispatcher \in [Dispatcher -> DispatcherRow] /\ DispatcherOK(dispatcher[d])
  BY DispatchParts DEF DispatchInv
<1>4. dispatcher' = [dispatcher EXCEPT ![d] = x]
  BY <1>1, <1>2, <1>3
<1>5. /\ x \in DispatcherRow /\ x.event = dispatcher[d].event /\ x.left = dispatcher[d].left
      /\ x.current = dispatcher[d].current /\ x.stage = "insert"
  BY <1>2, <1>3 DEF DispatcherRow, Stages
<1>6. DispatcherOK(x)
  BY <1>3, <1>5 DEF DispatcherOK, AdmitNew
<1>7. UNCHANGED <<outbox, started, queue, scan>>
  BY DEF AdmitNew
<1>8. admitted' \in Buckets /\ dispatchFaults' \in 0 .. MaxDispatchFaults
  BY <1>1, Bucketed
<1>9. queue' \subseteq Event /\ outbox' \in [Event -> {"absent", "stored", "dispatched"}]
  BY <1>7 DEF DispatchInv, DispatchTypeOK
<1> QED BY <1>4, <1>5, <1>6, <1>7, <1>8, <1>9, DispatcherMoves

\* The run is there, whether this insert made it or an earlier one.
LEMMA RunInserted ==
  ASSUME DispatchInv, NEW w \in Workflow, NEW e \in Event, NEW run, RunOK(run), run.status # "none",
         started' = Inserted(w, e, run)
  PROVE  /\ started' \in [Workflow -> [Event -> Run]] /\ started'[w][e].status # "none"
         /\ RunsGrow /\ \A v \in Workflow, f \in Event : RunOK(started'[v][f])
<1>1. RunOK(started[w][e]) /\ started \in [Workflow -> [Event -> Run]]
  BY DispatchParts DEF DispatchInv
<1>2. CASE started[w][e].status = "none"
  <2>1. ~started[w][e].charged
    BY <1>1, <1>2 DEF RunOK
  <2>2. /\ started' \in [Workflow -> [Event -> Run]] /\ started'[w][e] = run
        /\ \A v \in Workflow, f \in Event : v # w \/ f # e => started'[v][f] = started[v][f]
    BY <1>1, <1>2 DEF Inserted, RunOK
  <2> QED BY <1>2, <2>1, <2>2 DEF RunsGrow, DispatchInv
<1>3. CASE started[w][e].status # "none"
  <2>1. started' = started
    BY <1>3 DEF Inserted
  <2> QED BY <1>1, <1>3, <2>1 DEF RunsGrow, DispatchInv
<1> QED BY <1>2, <1>3

LEMMA NewRunOK ==
  ASSUME NEW b \in BOOLEAN
  PROVE  /\ RunOK(NewRun(b)) /\ NewRun(b).status # "none"
         /\ RunOK([NewRun(b) EXCEPT !.fast = FALSE]) /\ [NewRun(b) EXCEPT !.fast = FALSE].status # "none"
<1>1. CASE b = TRUE
  BY <1>1 DEF NewRun, RunOK, Run, Executed
<1>2. CASE b = FALSE
  BY <1>2 DEF NewRun, RunOK, Run, Executed
<1> QED BY <1>1, <1>2

LEMMA Inserts ==
  ASSUME DispatchInv, UNCHANGED setup, NEW d \in Dispatcher, NEW w \in Workflow, InsertRun(d, w)
  PROVE  DispatchInv'
<1>1. dispatcher[d] \in DispatcherRow /\ dispatcher \in [Dispatcher -> DispatcherRow] /\ DispatcherOK(dispatcher[d])
  BY DispatchParts DEF DispatchInv
<1>2. PICK e \in Event : e = dispatcher[d].event
  BY <1>1 DEF InsertRun, DispatcherOK
<1>3. PICK x : x = [dispatcher[d] EXCEPT !.current = {}, !.stage = "loop", !.defer = FALSE]
  OBVIOUS
<1>4. dispatcher' = [dispatcher EXCEPT ![d] = x]
  BY <1>1, <1>3 DEF InsertRun
<1>5. x \in DispatcherRow /\ x.event = e /\ x.left = dispatcher[d].left /\ x.current = {} /\ x.stage = "loop"
  BY <1>1, <1>2, <1>3 DEF DispatcherRow, Stages
<1>6. dispatcher[d].defer \in BOOLEAN /\ started' = Inserted(w, e, NewRun(dispatcher[d].defer))
  BY <1>1, <1>2 DEF InsertRun, DispatcherRow
<1>7. /\ started' \in [Workflow -> [Event -> Run]] /\ started'[w][e].status # "none"
      /\ RunsGrow /\ \A v \in Workflow, f \in Event : RunOK(started'[v][f])
  BY <1>6, NewRunOK, RunInserted
<1>8. UNCHANGED <<outbox, admitted, queue, scan, dispatchFaults>>
  BY DEF InsertRun
<1>9. /\ dispatcher' \in [Dispatcher -> DispatcherRow] /\ dispatcher'[d] = x
      /\ \A b \in Dispatcher \ {d} : dispatcher'[b] = dispatcher[b]
  BY <1>1, <1>4, <1>5
<1>10. DispatchTypeOK'
  BY <1>7, <1>8, <1>9 DEF DispatchInv, DispatchTypeOK, DispatcherRow, Run
<1>11. DispatcherOK(dispatcher[d])'
  <2>1. setup.wants[e] \subseteq Workflow
    BY DispatchParts DEF DispatchInv
  <2>2. dispatcher[d].current = {w}
    BY DEF InsertRun
  <2>3. \A v \in setup.wants[e] \ (x.left \cup {w}) : Handled(v, e)
    BY <1>1, <1>2, <1>5, <2>2 DEF DispatcherOK, InsertRun
  <2>4. Handled(w, e)'
    BY <1>7 DEF Handled, Kin
  <2>5. \A v \in setup.wants[e] \ x.left : Handled(v, e)'
    BY <1>7, <2>1, <2>3, <2>4, HandledStays
  <2> QED BY <1>5, <1>9, <2>5 DEF DispatcherOK
<1> QED BY <1>7, <1>8, <1>9, <1>10, <1>11, DispatchKept

\* A dispatcher that gives up promises nothing of the event.
LEMMA GivenUp ==
  ASSUME DispatchInv, NEW d \in Dispatcher, dispatcher[d].stage \notin {"idle", "done"}, GivesUp(d)
  PROVE  /\ dispatcher' \in [Dispatcher -> DispatcherRow]
         /\ \A b \in Dispatcher : dispatcher'[b] = dispatcher[b] \/ DispatcherOK(dispatcher[b])'
<1>1. PICK x : x = [Resting("failed") EXCEPT !.event = dispatcher[d].event]
  OBVIOUS
<1>2. dispatcher \in [Dispatcher -> DispatcherRow] /\ dispatcher[d].event \in Event
  BY DispatchParts DEF DispatchInv, DispatcherOK
<1>3. x \in DispatcherRow /\ x.event \in Event /\ x.stage = "failed"
  BY <1>1, <1>2 DEF Resting, DispatcherRow, Stages
<1>4. dispatcher' = [dispatcher EXCEPT ![d] = x]
  BY <1>1 DEF GivesUp
<1>5. /\ dispatcher' \in [Dispatcher -> DispatcherRow] /\ dispatcher'[d] = x
      /\ \A b \in Dispatcher \ {d} : dispatcher'[b] = dispatcher[b]
  BY <1>2, <1>3, <1>4
<1> QED BY <1>3, <1>5 DEF DispatcherOK

LEMMA Failures ==
  ASSUME DispatchInv, UNCHANGED setup, NEW d \in Dispatcher,
         DispatchFails(d) \/ \E w \in Workflow : VersionUnreadable(d, w)
  PROVE  DispatchInv'
<1>1. DispatcherOK(dispatcher[d]) /\ dispatcher[d] \in DispatcherRow
  BY DispatchParts DEF DispatchInv
<1>2. /\ GivesUp(d) /\ dispatcher[d].stage \notin {"idle", "done"}
      /\ UNCHANGED <<outbox, queue, scan>>
  BY <1>1 DEF DispatchFails, VersionUnreadable, DispatcherOK
<1>3. /\ dispatcher' \in [Dispatcher -> DispatcherRow]
      /\ \A b \in Dispatcher : dispatcher'[b] = dispatcher[b] \/ DispatcherOK(dispatcher[b])'
  BY <1>2, GivenUp
<1>4. admitted \in Buckets /\ dispatchFaults \in 0 .. MaxDispatchFaults
  BY DispatchParts DEF DispatchInv
<1>5. dispatchFaults' \in 0 .. MaxDispatchFaults
  BY <1>4 DEF DispatchFails, VersionUnreadable, DispatchFault
<1>6. admitted' \in Buckets
  <2>1. \A w \in dispatcher[d].current : w \in Workflow
    BY <1>1 DEF DispatcherRow
  <2> QED BY <1>4, <2>1, CountedFits DEF DispatchFails, VersionUnreadable
<1>7. /\ started' \in [Workflow -> [Event -> Run]]
      /\ RunsGrow /\ \A v \in Workflow, f \in Event : RunOK(started'[v][f])
  <2>1. CASE started' = started
    BY <2>1, DispatchParts DEF DispatchInv, RunsGrow
  <2>2. ASSUME NEW w \in dispatcher[d].current,
               started' = Inserted(w, dispatcher[d].event, [NewRun(dispatcher[d].defer) EXCEPT !.fast = FALSE])
        PROVE  /\ started' \in [Workflow -> [Event -> Run]]
               /\ RunsGrow /\ \A v \in Workflow, f \in Event : RunOK(started'[v][f])
    <3>1. w \in Workflow /\ dispatcher[d].event \in Event /\ dispatcher[d].defer \in BOOLEAN
      BY <1>1, <1>2 DEF DispatcherRow, DispatcherOK
    <3> QED BY <2>2, <3>1, NewRunOK, RunInserted
  <2> QED BY <2>1, <2>2 DEF DispatchFails, VersionUnreadable
<1>8. DispatchTypeOK'
  BY <1>2, <1>3, <1>5, <1>6, <1>7 DEF DispatchInv, DispatchTypeOK, DispatcherRow, Run
<1> QED BY <1>2, <1>3, <1>7, <1>8, DispatchKept

LEMMA RestingOK ==
  ASSUME NEW s \in {"idle", "done"} PROVE Resting(s) \in DispatcherRow /\ DispatcherOK(Resting(s))
BY DEF Resting, DispatcherRow, DispatcherOK, Stages

\* An acknowledgement finds nothing left and nothing in hand.
LEMMA Returns ==
  ASSUME DispatchInv, UNCHANGED setup, NEW d \in Dispatcher, Return(d) PROVE DispatchInv'
<1>1. PICK s \in {"idle", "done"} : s = IF d = Cron THEN "idle" ELSE "done"
  OBVIOUS
<1>2. dispatcher' = [dispatcher EXCEPT ![d] = Resting(s)]
  BY <1>1 DEF Return, EndsDispatch
<1>3. UNCHANGED <<started, admitted, queue, scan, dispatchFaults>>
  BY DEF Return
<1>4. DispatcherOK(dispatcher[d]) /\ DispatchTypeOK
  BY DEF DispatchInv
<1>5. outbox' \in [Event -> {"absent", "stored", "dispatched"}]
  BY <1>4 DEF Return, DispatchTypeOK
<1>6. ASSUME NEW e \in Event, outbox'[e] = "dispatched", outbox[e] # "dispatched", NEW w \in setup.wants[e]
      PROVE  Handled(w, e)
  <2>1. Finished(d) /\ e = dispatcher[d].event
    BY <1>4, <1>6 DEF Return, DispatchTypeOK
  <2> QED BY <1>4, <1>6, <2>1 DEF Finished, DispatcherOK
<1>7. admitted' \in Buckets /\ queue' \subseteq Event /\ dispatchFaults' \in 0 .. MaxDispatchFaults
  BY <1>3, <1>4 DEF DispatchTypeOK
<1> QED BY <1>2, <1>3, <1>5, <1>6, <1>7, RestingOK, DispatcherMoves

\* A process that dies takes its fast launches with it.
LEMMA Deaths ==
  ASSUME DispatchInv, UNCHANGED setup, NEW d \in Dispatcher, DispatcherDies(d) PROVE DispatchInv'
<1>1. PICK s \in {"idle", "done"} : s = IF d = Cron THEN "idle" ELSE "done"
  OBVIOUS
<1>2. dispatcher' = [dispatcher EXCEPT ![d] = Resting(s)]
  BY <1>1 DEF DispatcherDies, EndsDispatch
<1>3. /\ dispatcher' \in [Dispatcher -> DispatcherRow] /\ dispatcher'[d] = Resting(s)
      /\ \A b \in Dispatcher \ {d} : dispatcher'[b] = dispatcher[b]
  BY <1>2, DispatchParts, RestingOK DEF DispatchInv
<1>4. ASSUME NEW w \in Workflow, NEW e \in Event
      PROVE  RunOK(started'[w][e]) /\ started'[w][e].status = started[w][e].status
               /\ started'[w][e].charged = started[w][e].charged
  <2>1. PICK b \in BOOLEAN : b = (started[w][e].fast /\ e # dispatcher[d].event)
    BY DEF DispatchInv, RunOK, Run
  <2>2. started'[w][e] = [started[w][e] EXCEPT !.fast = b]
    BY <2>1 DEF DispatcherDies
  <2>3. RunOK(started[w][e]) /\ (b => started[w][e].fast)
    BY <2>1 DEF DispatchInv
  <2> QED BY <2>2, <2>3 DEF RunOK, Run
<1>5. started' \in [Workflow -> [Event -> Run]]
  <2>1. \A w \in Workflow, e \in Event : started'[w][e] \in Run
    BY <1>4 DEF RunOK
  <2>2. started' = [w \in Workflow |-> [e \in Event |-> started'[w][e]]]
    BY DEF DispatcherDies
  <2> QED BY <2>1, <2>2
<1>6. /\ UNCHANGED <<outbox, admitted, scan>> /\ queue' \subseteq Event
      /\ dispatchFaults' \in 0 .. MaxDispatchFaults
  BY DEF DispatcherDies, DispatchFault, DispatchInv, DispatchTypeOK
<1>7. DispatchTypeOK'
  BY <1>3, <1>5, <1>6 DEF DispatchInv, DispatchTypeOK, DispatcherRow, Run
<1>8. RunsGrow
  BY <1>4 DEF RunsGrow
<1>9. \A b \in Dispatcher : dispatcher'[b] = dispatcher[b] \/ DispatcherOK(dispatcher[b])'
  BY <1>3 DEF DispatcherOK, Resting
<1> QED BY <1>4, <1>6, <1>7, <1>8, <1>9, DispatchKept

-----------------------------------------------------------------------------
\* What a scan reads as taken over was admitted once.
LEMMA Scans == ASSUME DispatchInv, UNCHANGED setup, StartScan PROVE DispatchInv'
<1>1. PICK due \in SUBSET {x \in RunOf : IsDue(x[1], x[2])} :
        scan' = {[run |-> x, admits |-> started[x[1]][x[2]].status = "queued"] : x \in due}
  BY DEF StartScan
<1>2. ASSUME NEW i \in scan'
      PROVE  /\ i \in [run: RunOf, admits: BOOLEAN]
             /\ ~i.admits => started[i.run[1]][i.run[2]].charged
  <2>1. PICK x \in due : i = [run |-> x, admits |-> started[x[1]][x[2]].status = "queued"]
    BY <1>1, <1>2
  <2>2. x \in RunOf /\ x[1] \in Workflow /\ x[2] \in Event /\ IsDue(x[1], x[2])
    BY <2>1 DEF RunOf
  <2>3. i.run = x /\ i.admits = (started[x[1]][x[2]].status = "queued")
    BY <2>1
  <2>4. i \in [run: RunOf, admits: BOOLEAN]
    BY <2>1, <2>2
  <2>5. RunOK(started[x[1]][x[2]])
    BY <2>2 DEF DispatchInv
  <2> QED BY <2>2, <2>3, <2>4, <2>5 DEF IsDue, RunOK, Executed
<1>3. UNCHANGED <<outbox, started, admitted, dispatcher, queue, dispatchFaults>>
  BY DEF StartScan
<1>4. DispatchTypeOK'
  BY <1>2, <1>3 DEF DispatchInv, DispatchTypeOK
<1>5. RunsGrow /\ \A w \in Workflow, e \in Event : RunOK(started'[w][e])
  BY <1>3 DEF RunsGrow, DispatchInv
<1> QED BY <1>2, <1>3, <1>4, <1>5, DispatchKept

\* A claim is paid for by its own admission or by an earlier one.
LEMMA Claims ==
  ASSUME DispatchInv, UNCHANGED setup, NEW w \in Workflow, NEW e \in Event, NEW admission \in BOOLEAN,
         ClaimRun(w, e, admission), admission \/ started[w][e].charged,
         UNCHANGED <<outbox, dispatcher, queue>>, scan' \subseteq scan,
         admitted' \in Buckets, dispatchFaults' \in 0 .. MaxDispatchFaults
  PROVE  DispatchInv'
<1>1. RunOK(started[w][e]) /\ started \in [Workflow -> [Event -> Run]]
  BY DispatchParts DEF DispatchInv
<1>2. PICK r : r = [started[w][e] EXCEPT !.status = "running", !.fast = FALSE, !.charged = TRUE]
  OBVIOUS
<1>3. RunOK(r) /\ r.status = "running" /\ r.charged
  BY <1>1, <1>2 DEF RunOK, Run, Executed
<1>4. started' = [started EXCEPT ![w][e] = r]
  <2>1. (started[w][e].charged \/ admission) = TRUE
    BY <1>1 DEF RunOK, Run
  <2>2. started' = [started EXCEPT ![w][e].status = "running", ![w][e].fast = FALSE,
                                   ![w][e].charged = started[w][e].charged \/ admission]
    BY <1>1 DEF ClaimRun
  <2> QED BY <1>1, <1>2, <2>1, <2>2
<1> QED BY <1>3, <1>4, RunMoves

LEMMA Launches ==
  ASSUME DispatchInv, UNCHANGED setup, NEW i \in scan, LaunchDue(i) PROVE DispatchInv'
<1>1. i \in [run: RunOf, admits: BOOLEAN]
  BY DEF DispatchInv, DispatchTypeOK
<1>2. i.run[1] \in Workflow /\ i.run[2] \in Event /\ i.admits \in BOOLEAN
  BY <1>1 DEF RunOf
<1>3. admitted' \in Buckets /\ dispatchFaults' \in 0 .. MaxDispatchFaults
  <2>1. CASE i.admits
    BY <1>2, <2>1, Bucketed DEF LaunchDue
  <2>2. CASE ~i.admits
    BY <2>2, DispatchParts DEF LaunchDue, DispatchInv
  <2> QED BY <2>1, <2>2
<1>4. UNCHANGED <<outbox, dispatcher, queue>> /\ scan' \subseteq scan
  BY DEF LaunchDue
<1>5. CASE ClaimRun(i.run[1], i.run[2], i.admits)
  <2>1. i.admits \/ started[i.run[1]][i.run[2]].charged
    BY DEF DispatchInv, ScanCharged
  <2> QED BY <1>2, <1>3, <1>4, <1>5, <2>1, Claims
<1>6. CASE UNCHANGED started
  <2>1. DispatchTypeOK'
    BY <1>3, <1>4, <1>6 DEF DispatchInv, DispatchTypeOK
  <2>2. RunsGrow /\ \A w \in Workflow, e \in Event : RunOK(started'[w][e])
    BY <1>6 DEF RunsGrow, DispatchInv
  <2> QED BY <1>4, <2>1, <2>2, DispatchKept
<1> QED BY <1>5, <1>6 DEF LaunchDue

LEMMA FastLaunches ==
  ASSUME DispatchInv, UNCHANGED setup, NEW w \in Workflow, NEW e \in Event, LaunchFast(w, e)
  PROVE  DispatchInv'
<1>1. started[w][e].charged
  BY DEF LaunchFast, DispatchInv, RunOK
<1>2. UNCHANGED <<outbox, dispatcher, queue, dispatchFaults, admitted, scan>> /\ ClaimRun(w, e, FALSE)
  BY DEF LaunchFast
<1>3. admitted' \in Buckets /\ dispatchFaults' \in 0 .. MaxDispatchFaults
  BY <1>2 DEF DispatchInv, DispatchTypeOK
<1> QED BY <1>1, <1>2, <1>3, Claims

LEMMA Deferrals ==
  ASSUME DispatchInv, UNCHANGED setup, NEW i \in scan, DeferDue(i) PROVE DispatchInv'
<1>1. PICK w \in Workflow, e \in Event : i.run[1] = w /\ i.run[2] = e
  BY DEF DispatchInv, DispatchTypeOK, RunOf
<1>2. RunOK(started[w][e]) /\ started \in [Workflow -> [Event -> Run]]
  BY DispatchParts DEF DispatchInv
<1>3. PICK st : st = Later(started[w][e].status)
  OBVIOUS
<1>4. /\ st \in {"none", "deferred", "queued", "running", "orphan", "delayed", "ended"}
      /\ st = "none" <=> started[w][e].status = "none"
      /\ st \in Executed <=> started[w][e].status \in Executed
  BY <1>2, <1>3 DEF Later, RunOK, Run, Executed
<1>5. PICK r : r = [started[w][e] EXCEPT !.status = st]
  OBVIOUS
<1>6. RunOK(r) /\ r.status = st /\ r.charged = started[w][e].charged
  BY <1>2, <1>4, <1>5 DEF RunOK, Run
<1>7. started' = [started EXCEPT ![w][e] = r]
  BY <1>1, <1>2, <1>3, <1>5 DEF DeferDue
<1>8. UNCHANGED <<outbox, dispatcher, queue>> /\ scan' \subseteq scan
  BY DEF DeferDue
<1>9. admitted' \in Buckets /\ dispatchFaults' \in 0 .. MaxDispatchFaults
  BY <1>1, Bucketed DEF DeferDue
<1> QED BY <1>4, <1>6, <1>7, <1>8, <1>9, RunMoves

\* An item the scan gives up: the run stays as it is.
LEMMA Skips ==
  ASSUME DispatchInv, UNCHANGED setup, NEW i \in scan, SkipDue(i) PROVE DispatchInv'
<1>1. i.run[1] \in Workflow
  BY DEF DispatchInv, DispatchTypeOK, RunOf
<1>2. admitted \in Buckets /\ dispatchFaults \in 0 .. MaxDispatchFaults
  BY DispatchParts DEF DispatchInv
<1>3. admitted' \in Buckets /\ dispatchFaults' \in 0 .. MaxDispatchFaults
  BY <1>1, <1>2, CountedFits DEF SkipDue, DispatchFault
<1>4. UNCHANGED <<outbox, started, dispatcher, queue>> /\ scan' \subseteq scan
  BY DEF SkipDue
<1>5. DispatchTypeOK'
  BY <1>3, <1>4 DEF DispatchInv, DispatchTypeOK
<1>6. RunsGrow /\ \A w \in Workflow, e \in Event : RunOK(started'[w][e])
  BY <1>4 DEF RunsGrow, DispatchInv
<1> QED BY <1>4, <1>5, <1>6, DispatchKept

\* A run ends, its worker dies, or it is no longer recent.
LEMMA RunsPass ==
  ASSUME DispatchInv, UNCHANGED setup, NEW w \in Workflow, NEW e \in Event,
         RunEnds(w, e) \/ WorkerDies(w, e) \/ AntiLoopWindowEnds(w, e)
  PROVE  DispatchInv'
<1>1. RunOK(started[w][e]) /\ started \in [Workflow -> [Event -> Run]]
  BY DispatchParts DEF DispatchInv
<1>2. PICK r : /\ started' = [started EXCEPT ![w][e] = r]
               /\ RunOK(r) /\ r.charged = started[w][e].charged
               /\ started[w][e].status # "none" => r.status # "none"
  <2>1. CASE RunEnds(w, e)
    <3>1. PICK r : r = [started[w][e] EXCEPT !.status = "ended", !.recent = FALSE]
      OBVIOUS
    <3>2. started' = [started EXCEPT ![w][e] = r]
      BY <1>1, <2>1, <3>1 DEF RunEnds
    <3>3. RunOK(r) /\ r.charged = started[w][e].charged /\ r.status = "ended"
      BY <1>1, <2>1, <3>1 DEF RunEnds, RunOK, Run, Executed
    <3> QED BY <3>2, <3>3
  <2>2. CASE WorkerDies(w, e)
    <3>1. PICK r : r = [started[w][e] EXCEPT !.status = "orphan"]
      OBVIOUS
    <3>2. started' = [started EXCEPT ![w][e] = r]
      BY <1>1, <2>2, <3>1 DEF WorkerDies
    <3>3. RunOK(r) /\ r.charged = started[w][e].charged /\ r.status = "orphan"
      BY <1>1, <2>2, <3>1 DEF WorkerDies, RunOK, Run, Executed
    <3> QED BY <3>2, <3>3
  <2>3. CASE AntiLoopWindowEnds(w, e)
    <3>1. PICK r : r = [started[w][e] EXCEPT !.recent = FALSE]
      OBVIOUS
    <3>2. started' = [started EXCEPT ![w][e] = r]
      BY <1>1, <2>3, <3>1 DEF AntiLoopWindowEnds
    <3>3. RunOK(r) /\ r.charged = started[w][e].charged /\ r.status = started[w][e].status
      BY <1>1, <3>1 DEF RunOK, Run
    <3> QED BY <3>2, <3>3
  <2> QED BY <2>1, <2>2, <2>3
<1>3. UNCHANGED <<outbox, admitted, dispatcher, queue, scan>> /\ dispatchFaults' \in 0 .. MaxDispatchFaults
  BY DEF RunEnds, WorkerDies, AntiLoopWindowEnds, DispatchFault, DispatchInv, DispatchTypeOK
<1>4. admitted' \in Buckets
  BY <1>3 DEF DispatchInv, DispatchTypeOK
<1> QED BY <1>2, <1>3, <1>4, RunMoves

LEMMA Minutes == ASSUME DispatchInv, UNCHANGED setup, MinutePasses PROVE DispatchInv'
<1>1. ASSUME NEW w \in Workflow, NEW e \in Event
      PROVE  RunOK(started'[w][e]) /\ started'[w][e].charged = started[w][e].charged
               /\ (started'[w][e].status = "none" <=> started[w][e].status = "none")
  <2>1. PICK st : st = Sooner(started[w][e].status)
    OBVIOUS
  <2>2. started'[w][e] = [started[w][e] EXCEPT !.status = st]
    BY <2>1 DEF MinutePasses
  <2>3. RunOK(started[w][e])
    BY DEF DispatchInv
  <2>4. /\ st \in {"none", "deferred", "queued", "running", "orphan", "delayed", "ended"}
        /\ st = "none" <=> started[w][e].status = "none"
        /\ st \in Executed <=> started[w][e].status \in Executed
    BY <2>1, <2>3 DEF Sooner, RunOK, Run, Executed
  <2> QED BY <2>2, <2>3, <2>4 DEF RunOK, Run
<1>2. started' \in [Workflow -> [Event -> Run]]
  <2>1. \A w \in Workflow, e \in Event : started'[w][e] \in Run
    BY <1>1 DEF RunOK
  <2>2. started' = [w \in Workflow |-> [e \in Event |-> started'[w][e]]]
    BY DEF MinutePasses
  <2> QED BY <2>1, <2>2
<1>3. UNCHANGED <<outbox, dispatcher, queue, scan, dispatchFaults>> /\ admitted' = NewMinute
  BY DEF MinutePasses
<1>4. DispatchTypeOK'
  BY <1>2, <1>3, NewMinuteOK DEF DispatchInv, DispatchTypeOK, Run
<1>5. RunsGrow
  BY <1>1 DEF RunsGrow
<1> QED BY <1>1, <1>3, <1>4, <1>5, DispatchKept

LEMMA Passes == ASSUME DispatchInv, UNCHANGED setup, StartPass PROVE DispatchInv'
<1>1. UNCHANGED <<outbox, started, admitted, dispatcher, scan, dispatchFaults>> /\ queue' \subseteq Event
  BY DEF StartPass, OldestPending, Pending
<1>2. DispatchTypeOK'
  BY <1>1 DEF DispatchInv, DispatchTypeOK
<1>3. RunsGrow /\ \A w \in Workflow, e \in Event : RunOK(started'[w][e])
  BY <1>1 DEF RunsGrow, DispatchInv
<1> QED BY <1>1, <1>2, <1>3, DispatchKept

LEMMA DispatchStep == DispatchInv /\ [DispatchNext]_dispatchVars => DispatchInv'
<1> SUFFICES ASSUME DispatchInv, [DispatchNext]_dispatchVars PROVE DispatchInv'
  OBVIOUS
<1>1. CASE UNCHANGED dispatchVars
  BY <1>1 DEF dispatchVars, DispatchInv, DispatchTypeOK, ScanCharged, DispatcherOK, Handled, Kin, AcknowledgedIsHandled
<1>2. CASE DispatchMoves /\ UNCHANGED setup
  <2>1. Cron \in Dispatcher /\ Event \subseteq Dispatcher
    BY DEF Dispatcher
  <2>2. CASE CronStep
    BY <1>2, <2>1, <2>2, Passes, Beginnings, Admissions, Returns, Checks, Inserts, Failures DEF CronStep
  <2>3. CASE ScanStep
    BY <1>2, <2>3, Scans, Launches, Deferrals DEF ScanStep
  <2>4. CASE MinutePasses
    BY <1>2, <2>4, Minutes
  <2>5. ASSUME NEW e \in Event, Emit(e) \/ RequestStep(e) PROVE DispatchInv'
    BY <1>2, <2>1, <2>5, Beginnings, Admissions, Returns, Checks, Inserts, Failures DEF RequestStep
  <2>6. ASSUME NEW w \in Workflow, NEW e \in Event,
               LaunchFast(w, e) \/ RunEnds(w, e) \/ WorkerDies(w, e) \/ AntiLoopWindowEnds(w, e)
        PROVE  DispatchInv'
    BY <1>2, <2>6, FastLaunches, RunsPass
  <2>7. ASSUME NEW d \in Dispatcher, DispatcherDies(d) \/ DispatchFails(d) PROVE DispatchInv'
    BY <1>2, <2>7, Deaths, Failures
  <2>8. ASSUME NEW i \in scan, SkipDue(i) PROVE DispatchInv'
    BY <1>2, <2>8, Skips
  <2> QED BY <1>2, <2>2, <2>3, <2>4, <2>5, <2>6, <2>7, <2>8 DEF DispatchMoves
<1> QED BY <1>1, <1>2 DEF DispatchNext

LEMMA DispatchInvariant == DispatchSpec => []DispatchInv
BY DispatchStart, DispatchStep, PTL DEF DispatchSpec

\* The types of the dispatch's state.
THEOREM DispatchTyped == DispatchSpec => []DispatchTypeOK
<1>1. DispatchInv => DispatchTypeOK
  BY DEF DispatchInv
<1> QED BY <1>1, DispatchInvariant, PTL

\* Request and cron together, whichever dies and however often: an event is acknowledged
\* (markDomainEventDispatched) only when every workflow it matches has a run for it, or one
\* for an event of its kin: about the same subject, or, when the event comes from an action
\* of a run, of that same parent run (dispatchWorkflowEvent, hasChildRun).
THEOREM AcknowledgementsAreHandled == DispatchSpec => []AcknowledgedIsHandled
<1>1. DispatchInv => AcknowledgedIsHandled
  BY DEF DispatchInv
<1> QED BY <1>1, DispatchInvariant, PTL

\* Whoever launches a run - the request that inserted it, a scan that read it while others
\* took it, a worker after a death - an admission was made for it
\* (reserveRunAdmissionPolicy, dispatchDueWorkflowRuns).
THEOREM ExecutionsAreAdmitted == DispatchSpec => []ExecutedIsAdmitted
<1>1. DispatchInv => ExecutedIsAdmitted
  BY DEF DispatchInv, ExecutedIsAdmitted, RunOK, Executed
<1> QED BY <1>1, DispatchInvariant, PTL
HIDE EventDispatchAssumption

-----------------------------------------------------------------------------
(***************************************************************************)
(* Pipelines: no application is stranded in a stage that is archived or    *)
(* gone, for any number of stages, applications and concurrent calls: what *)
(* each call knows when it writes, and the locks that keep it true until   *)
(* then.                                                                   *)
(***************************************************************************)
ClerkCall == [op: Ops, phase: ClerkPhases, app: Application \cup {Nowhere},
         from: Stage \cup {Nowhere}, to: Stage \cup {Nowhere},
         want: Status \cup {Nowhere}, changed: BOOLEAN,
         locked: SUBSET Stage, moving: SUBSET Application, aborts: Nat]

Placement == [at: Stage \cup {Nowhere}, status: Status \cup {Nowhere}]

PlacementTyped ==
  /\ stage \in [Stage -> StageRow]
  /\ application \in [Application -> Placement]
  /\ clerk \in [Clerk -> ClerkCall]

Moving == {"target", "write", "trail", "stay", "place", "insert", "reference"}

Applying == {"share", "entry", "insert", "reference"}

Placing == Moving \cup {"glance", "choose", "share", "entry"}

Changing == {"lifecycle", "rows", "check", "rank", "merge", "drop"}

Locking == {"rows", "check", "rank", "merge"}

\* A call has what its phase needs.
Equipped(c) ==
  /\ c.phase \in Placing => c.app \in Application
  /\ c.phase \in Moving => c.to \in Stage
  /\ c.phase \in Changing /\ c.op \in {"archive", "kind", "delete"} => c.from \in Stage
  /\ c.phase \in Changing /\ c.op = "archive" => c.from # c.to
  /\ c.phase = "target" => c.op \in {"move", "board", "bulk"}
  /\ c.phase \in {"glance", "choose", "stay", "place"} => c.want \in Status
  /\ c.phase \in Changing /\ c.op \in {"kind", "create"} => c.want \in Status
  /\ c.phase = "drop" => c.op = "delete"
  /\ c.phase \in {"rank", "merge"} => c.op = "archive"
  /\ c.phase = "rank" => c.to # Nowhere
  /\ c.moving # {} => c.phase = "merge" /\ c.to # Nowhere
  /\ c.op = "archive" => c.phase \in Changing
  /\ c.locked # {} => c.phase \in Locking
  /\ c.phase \in {"check", "rank", "merge"} => c.locked = Rows(c)

\* What a call has read of its application still holds, or the call is told otherwise; an
\* application that is being sent is in no stage, and one that is being merged is in one.
Informed(c) ==
  /\ c.phase \in {"write", "trail", "glance", "stay", "choose", "place"}
       \/ (c.phase = "target" /\ c.op = "move")
       => c.changed \/ application[c.app].at = c.from
  /\ c.phase = "trail" => ~c.changed
  /\ c.phase \in {"glance", "stay"} => c.from \in Stage /\ c.want = "active"
  /\ c.phase = "stay" => c.to = c.from /\ (c.changed \/ stage[c.from].kind = "active")
  /\ c.phase \in Applying => application[c.app].at = Nowhere /\ c.want = "active"
  /\ \A a \in c.moving : application[a].at # Nowhere

\* What the locks of a call preserve: the stage it chose, checked or inserted into, and
\* that a merge moves what is in the stage, no more and no less.
Protected(c) ==
  /\ c.phase \in {"write", "trail"} => Live(c.to, c.want)
  /\ c.phase = "place"
       => stage[c.to].state # "archived" /\ (stage[c.to].state = "live" => stage[c.to].kind = c.want)
  /\ c.phase = "reference" => stage[c.to].state = "live"
  /\ c.phase \in {"rank", "merge"} /\ c.to # Nowhere => Live(c.to, stage[c.from].kind)
  /\ c.phase = "merge" => In(c.from) = c.moving

\* An application that is being sent is the business of one call.
Apart(p) ==
  \A q \in Clerk \ {p} :
    clerk[p].phase \in Applying \/ clerk[q].phase \in Applying => clerk[q].app # clerk[p].app

\* The job row and an application have one holder, and a stage row under change has no
\* placement.
Locks ==
  /\ \A p, q \in Clerk : HoldsJob(p) /\ HoldsJob(q) => p = q
  /\ \A p, q \in Clerk, s \in Stage : ~(HoldsRow(p, s) /\ SharesRow(q, s))
  /\ \A p, q \in Clerk, a \in Application :
       HoldsApplication(p, a) /\ HoldsApplication(q, a) => p = q

\* An application that was not sent has no status.
UnsentHasNoStatus ==
  \A a \in Application : application[a].at = Nowhere => application[a].status = Nowhere

PlacementInv ==
  /\ PlacementTyped /\ Locks /\ UnsentHasNoStatus /\ PlacedInLiveStage /\ OtherwiseStatusMatches
  /\ \A p \in Clerk : /\ Equipped(clerk[p]) /\ Informed(clerk[p]) /\ Protected(clerk[p])
                       /\ Apart(p)

-----------------------------------------------------------------------------
LEMMA RestFields ==
  /\ Rest \in ClerkCall
  /\ Rest.op = "none" /\ Rest.phase = "rest" /\ Rest.app = Nowhere /\ Rest.from = Nowhere
  /\ Rest.to = Nowhere /\ Rest.want = Nowhere /\ ~Rest.changed
  /\ Rest.locked = {} /\ Rest.moving = {} /\ Rest.aborts = 0
BY DEF Rest, ClerkCall, Ops, ClerkPhases

LEMMA RestFits ==
  Rest \in ClerkCall /\ Equipped(Rest) /\ Informed(Rest) /\ Protected(Rest)
BY DEF Rest, ClerkCall, Ops, ClerkPhases, Equipped, Informed, Protected, Placing, Moving, Changing, Applying

\* A call goes on to a phase it is entitled to: nothing but itself changes.
LEMMA GoingOn ==
  ASSUME PlacementInv, NEW p \in Clerk,
         UNCHANGED <<stage, application, overtaken>>,
         clerk' \in [Clerk -> ClerkCall],
         \A q \in Clerk \ {p} : clerk'[q] = clerk[q],
         Equipped(clerk[p])', Informed(clerk[p])', Protected(clerk[p])', Apart(p)',
         HoldsJob(p)' => HoldsJob(p) \/ JobFree(p),
         \A s \in Stage : HoldsRow(p, s)' => HoldsRow(p, s) \/ RowFree(s),
         \A s \in Stage : SharesRow(p, s)' => SharesRow(p, s) \/ RowShareable(s),
         \A a \in Application : HoldsApplication(p, a)' => ApplicationFree(a)
  PROVE  PlacementInv'
<1>1. PlacementTyped' /\ UnsentHasNoStatus' /\ PlacedInLiveStage' /\ OtherwiseStatusMatches'
  BY DEF PlacementInv, PlacementTyped, UnsentHasNoStatus, PlacedInLiveStage, OtherwiseStatusMatches
<1>2. ASSUME NEW q \in Clerk \ {p}
      PROVE  /\ HoldsJob(q)' = HoldsJob(q)
             /\ \A s \in Stage : HoldsRow(q, s)' = HoldsRow(q, s) /\ SharesRow(q, s)' = SharesRow(q, s)
             /\ \A a \in Application : HoldsApplication(q, a)' = HoldsApplication(q, a)
  BY DEF HoldsJob, HoldsRow, SharesRow, HoldsApplication
<1>3. Locks'
  <2>1. ASSUME NEW q \in Clerk, NEW r \in Clerk, HoldsJob(q)', HoldsJob(r)'
        PROVE  q = r
    BY <1>2, <2>1 DEF PlacementInv, Locks, JobFree
  <2>2. ASSUME NEW q \in Clerk, NEW r \in Clerk, NEW s \in Stage,
               HoldsRow(q, s)', SharesRow(r, s)'
        PROVE  FALSE
    <3>1. CASE q = p /\ r = p
      <4>1. clerk'[p].locked # {} /\ clerk'[p].phase \in {"write", "trail", "reference"}
        BY <2>2, <3>1 DEF HoldsRow, SharesRow
      <4> QED BY <4>1 DEF Equipped, Locking
    <3>2. CASE q = p /\ r # p
      BY <1>2, <2>2, <3>2 DEF PlacementInv, Locks, RowFree
    <3>3. CASE q # p /\ r = p
      BY <1>2, <2>2, <3>3 DEF PlacementInv, Locks, RowShareable
    <3>4. CASE q # p /\ r # p
      BY <1>2, <2>2, <3>4 DEF PlacementInv, Locks
    <3> QED BY <3>1, <3>2, <3>3, <3>4
  <2>3. ASSUME NEW q \in Clerk, NEW r \in Clerk, NEW a \in Application,
               HoldsApplication(q, a)', HoldsApplication(r, a)'
        PROVE  q = r
    BY <1>2, <2>3 DEF PlacementInv, Locks, ApplicationFree
  <2> QED BY <2>1, <2>2, <2>3 DEF Locks
<1>4. ASSUME NEW q \in Clerk
      PROVE  Equipped(clerk[q])' /\ Informed(clerk[q])' /\ Protected(clerk[q])'
  <2>1. CASE q = p
    BY <2>1
  <2>2. CASE q # p
    <3>1. Equipped(clerk[q]) /\ Informed(clerk[q]) /\ Protected(clerk[q])
      BY DEF PlacementInv
    <3>2. clerk'[q] = clerk[q]
      BY <2>2
    <3> QED BY <3>1, <3>2 DEF Equipped, Informed, Protected, In, Live, Rows
  <2> QED BY <2>1, <2>2
<1>5. \A q \in Clerk : Apart(q)'
  BY DEF PlacementInv, Apart
<1> QED BY <1>1, <1>3, <1>4, <1>5 DEF PlacementInv

\* A call that goes on with the application it has.
LEMMA StaysApart ==
  ASSUME PlacementInv, NEW p \in Clerk,
         \A q \in Clerk \ {p} : clerk'[q] = clerk[q],
         clerk'[p].app = clerk[p].app,
         clerk'[p].phase \in Applying => clerk[p].phase \in Applying
  PROVE  Apart(p)'
BY DEF PlacementInv, Apart

LEMMA Ending ==
  ASSUME PlacementInv, NEW p \in Clerk, CallEnds(p)
  PROVE  PlacementInv'
<1>1. /\ clerk' \in [Clerk -> ClerkCall] /\ clerk'[p] = Rest
      /\ \A q \in Clerk \ {p} : clerk'[q] = clerk[q]
      /\ UNCHANGED <<stage, application, overtaken>>
  BY RestFits DEF CallEnds, CallGoesOn, PlacementInv, PlacementTyped
<1>2. Equipped(clerk[p])' /\ Informed(clerk[p])' /\ Protected(clerk[p])'
  BY <1>1 DEF Rest, Equipped, Informed, Protected, Placing, Moving, Changing, Applying
<1>3. /\ ~HoldsJob(p)' /\ \A s \in Stage : ~HoldsRow(p, s)' /\ ~SharesRow(p, s)'
      /\ \A a \in Application : ~HoldsApplication(p, a)'
  BY <1>1 DEF Rest, HoldsJob, HoldsRow, SharesRow, HoldsApplication
<1>4. Apart(p)'
  <2>1. \A q \in Clerk : clerk[q].phase \in Applying => clerk[q].app # Nowhere
    BY StagePlacementAssumption DEF PlacementInv, Equipped, Placing, Moving, Applying
  <2> QED BY <1>1, <2>1 DEF Apart, Rest, Applying
<1> QED BY <1>1, <1>2, <1>3, <1>4, GoingOn

\* A call commits a write of some applications, and of stages whose locks it holds.
LEMMA Committing ==
  ASSUME PlacementInv, NEW p \in Clerk, NEW written \in SUBSET Application,
         clerk' = [q \in Clerk |-> IF q = p THEN Rest
                     ELSE [clerk[q] EXCEPT !.changed = clerk[q].changed \/ clerk[q].app \in written]],
         stage' \in [Stage -> StageRow],
         application' \in [Application -> Placement],
         \A a \in Application \ written : application'[a] = application[a],
         \A a \in Application : application'[a].at # application[a].at
           => \/ HoldsJob(p)
              \/ /\ SharesRow(p, application'[a].at)
                 /\ application[a].at \in Stage => RowShareable(application[a].at),
         \A a \in written : application[a].at # Nowhere \/ a = clerk[p].app,
         \A a \in written, q \in Clerk \ {p} : ~HoldsApplication(q, a),
         \A a \in Application : application[a].at # Nowhere => application'[a].at # Nowhere,
         \A s \in Stage : stage'[s].state # stage[s].state => HoldsJob(p),
         \A s \in Stage : stage'[s].kind # stage[s].kind
           => /\ HoldsJob(p) /\ In(s) = {}
              /\ HoldsRow(p, s) \/ stage[s].state = "absent",
         \A s \in Stage : stage[s].state = "live"
           => \/ stage'[s].state = "live"
              \/ HoldsJob(p) /\ (HoldsRow(p, s) \/ RowFree(s)),
         UnsentHasNoStatus', PlacedInLiveStage', OtherwiseStatusMatches'
  PROVE  PlacementInv'
<1>1. ASSUME NEW q \in Clerk \ {p}
      PROVE  /\ clerk'[q] \in ClerkCall
             /\ clerk'[q].op = clerk[q].op /\ clerk'[q].phase = clerk[q].phase
             /\ clerk'[q].app = clerk[q].app /\ clerk'[q].from = clerk[q].from
             /\ clerk'[q].to = clerk[q].to /\ clerk'[q].moving = clerk[q].moving
             /\ clerk'[q].want = clerk[q].want /\ clerk'[q].locked = clerk[q].locked
             /\ clerk[q].changed \/ clerk[q].app \in written <=> clerk'[q].changed
  <2>1. clerk[q] \in ClerkCall /\ clerk'[q] =
          [clerk[q] EXCEPT !.changed = clerk[q].changed \/ clerk[q].app \in written]
    BY DEF PlacementInv, PlacementTyped
  <2>2. (clerk[q].changed \/ clerk[q].app \in written) \in BOOLEAN
    OBVIOUS
  <2> QED BY <2>1, <2>2 DEF ClerkCall
<1>2. clerk'[p] = Rest /\ clerk' \in [Clerk -> ClerkCall]
  BY <1>1, RestFits
<1>3. PlacementTyped'
  BY <1>2 DEF PlacementTyped
<1>4. ASSUME NEW q \in Clerk
      PROVE  /\ HoldsJob(q)' => q # p /\ HoldsJob(q)
             /\ \A s \in Stage : /\ HoldsRow(q, s)' => q # p /\ HoldsRow(q, s)
                                 /\ SharesRow(q, s)' => q # p /\ SharesRow(q, s)
             /\ \A a \in Application : HoldsApplication(q, a)' => HoldsApplication(q, a)
  <2>1. CASE q = p
    BY <1>2, <2>1 DEF Rest, HoldsJob, HoldsRow, SharesRow, HoldsApplication
  <2>2. CASE q # p
    BY <1>1, <2>2 DEF HoldsJob, HoldsRow, SharesRow, HoldsApplication
  <2> QED BY <2>1, <2>2
<1>5. Locks'
  BY <1>4 DEF PlacementInv, Locks
<1>6. ASSUME NEW q \in Clerk
      PROVE  Equipped(clerk[q])' /\ Informed(clerk[q])' /\ Protected(clerk[q])'
  <2>1. CASE q = p
    BY <1>2, <2>1 DEF Rest, Equipped, Informed, Protected, Placing, Moving, Changing, Applying
  <2>2. CASE q # p
    <3>0. /\ Equipped(clerk[q]) /\ Informed(clerk[q]) /\ Protected(clerk[q])
          /\ clerk[q] \in ClerkCall /\ Locks
      BY DEF PlacementInv, PlacementTyped
    <3>1. Equipped(clerk[q])'
      <4>1. /\ clerk'[q].op = clerk[q].op /\ clerk'[q].phase = clerk[q].phase
            /\ clerk'[q].app = clerk[q].app /\ clerk'[q].from = clerk[q].from
            /\ clerk'[q].to = clerk[q].to /\ clerk'[q].moving = clerk[q].moving
            /\ clerk'[q].want = clerk[q].want /\ clerk'[q].locked = clerk[q].locked
        BY <1>1, <2>2
      <4> QED BY <3>0, <4>1 DEF Equipped, Rows, Placing, Moving, Changing, Locking
    <3> DEFINE c == clerk[q]
    <3>2. /\ clerk'[q].phase = c.phase /\ clerk'[q].app = c.app /\ clerk'[q].op = c.op
          /\ clerk'[q].from = c.from /\ clerk'[q].to = c.to /\ clerk'[q].want = c.want
          /\ clerk'[q].moving = c.moving
          /\ c.changed \/ c.app \in written <=> clerk'[q].changed
      BY <1>1, <2>2
    <3>3. Informed(clerk[q])'
      <4>1. c.phase \in {"write", "trail", "glance", "stay", "choose", "place"}
              \/ (c.phase = "target" /\ c.op = "move")
              => clerk'[q].changed \/ application'[c.app].at = c.from
        <5>1. c.phase \in {"write", "trail", "glance", "stay", "choose", "place", "target"}
                => c.app \in Application
          BY <3>0 DEF Equipped, Placing, Moving
        <5> QED BY <3>0, <3>2, <5>1 DEF Informed
      <4>2. c.phase = "stay" => clerk'[q].changed \/ stage'[c.from].kind = "active"
        <5> SUFFICES ASSUME c.phase = "stay", ~clerk'[q].changed
                     PROVE  stage'[c.from].kind = "active"
          OBVIOUS
        <5>1. c.app \in Application /\ c.from \in Stage /\ application[c.app].at = c.from
              /\ stage[c.from].kind = "active"
          BY <3>0, <3>2 DEF Informed, Equipped, Placing, Moving
        <5>2. In(c.from) # {}
          BY <5>1 DEF In
        <5> QED BY <5>1, <5>2
      <4>3. c.phase \in Applying => application'[c.app].at = Nowhere
        <5> SUFFICES ASSUME c.phase \in Applying
                     PROVE  application'[c.app].at = Nowhere
          OBVIOUS
        <5>1. c.app \in Application /\ application[c.app].at = Nowhere
          BY <3>0 DEF Informed, Equipped, Placing, Moving, Applying
        <5>2. c.app # clerk[p].app
          BY <2>2 DEF PlacementInv, Apart
        <5> QED BY <5>1, <5>2
      <4>4. \A a \in c.moving : application'[a].at # Nowhere
        BY <3>0 DEF Informed, ClerkCall
      <4>5. c.phase = "trail" => ~clerk'[q].changed
        <5>1. c.phase = "trail" => ~c.changed /\ HoldsApplication(q, c.app)
          BY <3>0 DEF Informed, HoldsApplication
        <5>2. c.phase = "trail" => c.app \notin written
          BY <2>2, <5>1
        <5> QED BY <3>2, <5>1, <5>2
      <4> HIDE DEF c
      <4> QED BY <3>0, <3>2, <4>1, <4>2, <4>3, <4>4, <4>5 DEF Informed, c
    <3>4. Protected(clerk[q])'
      <4>0. HoldsJob(q) => ~HoldsJob(p)
        BY <2>2, <3>0 DEF Locks
      <4>1. c.phase \in {"write", "trail"}
              => stage'[c.to].state = "live" /\ stage'[c.to].kind = c.want
        <5> SUFFICES ASSUME c.phase \in {"write", "trail"}
                     PROVE  stage'[c.to].state = "live" /\ stage'[c.to].kind = c.want
          OBVIOUS
        <5>1. c.to \in Stage /\ SharesRow(q, c.to)
              /\ stage[c.to].state = "live" /\ stage[c.to].kind = c.want
          BY <3>0 DEF Protected, Equipped, Moving, Live, SharesRow
        <5>2. ~HoldsRow(p, c.to) /\ ~RowFree(c.to)
          BY <3>0, <5>1 DEF Locks, RowFree
        <5> QED BY <5>1, <5>2
      <4>2. c.phase = "place"
              => /\ stage'[c.to].state # "archived"
                 /\ stage'[c.to].state = "live" => stage'[c.to].kind = c.want
        <5> SUFFICES ASSUME c.phase = "place"
                     PROVE  stage'[c.to].state = stage[c.to].state
                            /\ stage'[c.to].kind = stage[c.to].kind
          BY <3>0 DEF Protected
        <5>1. c.to \in Stage /\ ~HoldsJob(p)
          BY <3>0, <4>0 DEF Equipped, Moving, HoldsJob
        <5> QED BY <5>1
      <4>3. c.phase = "reference" => stage'[c.to].state = "live"
        BY <2>2, <3>0 DEF Protected, Equipped, Moving, Locks, SharesRow, RowFree
      <4>4. c.phase \in {"rank", "merge"} /\ c.to # Nowhere
              => stage'[c.to].state = "live" /\ stage'[c.to].kind = stage'[c.from].kind
        <5> SUFFICES ASSUME c.phase \in {"rank", "merge"}, c.to # Nowhere
                     PROVE  stage'[c.to].state = "live" /\ stage'[c.to].kind = stage'[c.from].kind
          OBVIOUS
        <5>1. c.to \in Stage /\ c.from \in Stage /\ ~HoldsJob(p)
              /\ stage[c.to].state = "live" /\ stage[c.to].kind = stage[c.from].kind
          BY <3>0, <4>0 DEF ClerkCall, Equipped, Changing, Protected, Live, HoldsJob
        <5> QED BY <5>1
      <4>5. c.phase = "merge" => {a \in Application : application'[a].at = c.from} = c.moving
        <5> SUFFICES ASSUME c.phase = "merge", NEW a \in Application
                     PROVE  application'[a].at = c.from <=> a \in c.moving
          BY <3>0 DEF ClerkCall
        <5>1. c.op = "archive" /\ c.from \in Stage /\ c.locked = Rows(c)
          BY <3>0 DEF Equipped, Changing
        <5>2. HoldsJob(q) /\ HoldsRow(q, c.from)
          BY <5>1, StagePlacementAssumption DEF HoldsJob, HoldsRow, Rows
        <5>3. application'[a].at = c.from <=> application[a].at = c.from
          BY <2>2, <3>0, <5>1, <5>2 DEF Locks, RowShareable
        <5> QED BY <3>0, <5>3 DEF Protected, In
      <4> HIDE DEF c
      <4> QED BY <3>2, <4>1, <4>2, <4>3, <4>4, <4>5 DEF Protected, In, Live
    <3> QED BY <3>1, <3>3, <3>4
  <2> QED BY <2>1, <2>2
<1>7. \A q \in Clerk : Apart(q)'
  <2>1. \A q \in Clerk : clerk[q].phase \in Applying => clerk[q].app # Nowhere
    BY StagePlacementAssumption DEF PlacementInv, Equipped, Placing, Moving, Applying
  <2>2. /\ clerk'[p].app = Nowhere /\ clerk'[p].phase \notin Applying
        /\ \A q \in Clerk \ {p} : clerk'[q].app = clerk[q].app /\ clerk'[q].phase = clerk[q].phase
    BY <1>1, <1>2 DEF Rest, Applying
  <2> QED BY <2>1, <2>2 DEF PlacementInv, Apart
<1> QED BY <1>3, <1>5, <1>6, <1>7 DEF PlacementInv

-----------------------------------------------------------------------------
\* A call that is where no lock is held and none is relied on.
LEMMA ClerkUnlocked ==
  ASSUME PlacementInv, NEW p \in Clerk,
         UNCHANGED <<stage, application, overtaken>>,
         clerk' \in [Clerk -> ClerkCall],
         \A q \in Clerk \ {p} : clerk'[q] = clerk[q],
         clerk'[p].phase \in {"target", "glance", "stay", "choose", "share", "entry", "insert",
                              "lifecycle"},
         Equipped(clerk[p])', Informed(clerk[p])', Apart(p)'
  PROVE  PlacementInv'
<1>1. Protected(clerk[p])'
  BY DEF Protected
<1>2. /\ ~HoldsJob(p)' /\ \A s \in Stage : ~HoldsRow(p, s)' /\ ~SharesRow(p, s)'
      /\ \A a \in Application : ~HoldsApplication(p, a)'
  <2>1. clerk'[p].locked = {}
    BY DEF Equipped, Locking
  <2> QED BY <2>1 DEF HoldsJob, HoldsRow, SharesRow, HoldsApplication
<1> QED BY <1>1, <1>2, GoingOn

\* What becomes of the calls when one begins or goes on.
LEMMA Turn ==
  ASSUME PlacementInv, NEW p \in Clerk, NEW x \in ClerkCall, CallBegins(p, x) \/ CallGoesOn(p, x)
  PROVE  /\ UNCHANGED <<stage, application, overtaken>>
         /\ clerk' \in [Clerk -> ClerkCall] /\ clerk'[p] = x
         /\ \A q \in Clerk \ {p} : clerk'[q] = clerk[q]
BY DEF PlacementInv, PlacementTyped, CallBegins, CallGoesOn

\* A call that goes on to another phase with all else as it was.
LEMMA NextPhase ==
  ASSUME PlacementInv, NEW p \in Clerk, NEW phase \in ClerkPhases,
         CallGoesOn(p, [clerk[p] EXCEPT !.phase = phase])
  PROVE  /\ UNCHANGED <<stage, application, overtaken>>
         /\ clerk' \in [Clerk -> ClerkCall] /\ \A q \in Clerk \ {p} : clerk'[q] = clerk[q]
         /\ clerk'[p].phase = phase
         /\ clerk'[p].op = clerk[p].op /\ clerk'[p].app = clerk[p].app
         /\ clerk'[p].from = clerk[p].from /\ clerk'[p].to = clerk[p].to
         /\ clerk'[p].want = clerk[p].want /\ clerk'[p].changed = clerk[p].changed
         /\ clerk'[p].moving = clerk[p].moving /\ clerk'[p].locked = clerk[p].locked
<1>1. clerk[p] \in ClerkCall
  BY DEF PlacementInv, PlacementTyped
<1>2. [clerk[p] EXCEPT !.phase = phase] \in ClerkCall
  BY <1>1 DEF ClerkCall
<1>3. clerk'[p] = [clerk[p] EXCEPT !.phase = phase]
  BY DEF PlacementInv, PlacementTyped, CallGoesOn
<1>4. /\ clerk' \in [Clerk -> ClerkCall] /\ \A q \in Clerk \ {p} : clerk'[q] = clerk[q]
      /\ UNCHANGED <<stage, application, overtaken>>
  BY <1>2 DEF PlacementInv, PlacementTyped, CallGoesOn
<1> QED BY <1>1, <1>3, <1>4 DEF ClerkCall

LEMMA ClerkPhasesNamed ==
  /\ \A phase \in {"target", "write", "trail", "glance", "stay", "choose", "place", "share", "entry",
                   "insert", "reference", "lifecycle", "rows", "check", "rank", "merge", "drop"} :
       phase \in ClerkPhases
  /\ "active" \in Status /\ EndStatus \subseteq Status
BY DEF ClerkPhases, Status

\* A call that begins.
LEMMA BeginKeeps ==
  ASSUME PlacementInv, NEW p \in Clerk,
         \/ \E a \in Application :
              \/ BeginReopen(p, a) \/ BeginApply(p, a)
              \/ \E t \in Stage : BeginMove(p, a, t)
              \/ \E outcome \in EndStatus : BeginDecide(p, a, outcome)
         \/ \E s \in Stage :
              \/ BeginDelete(p, s)
              \/ \E t \in Stage \cup {Nowhere} : BeginArchive(p, s, t)
         \/ \E kind \in Status : BeginCreate(p, kind) \/ \E s \in Stage : BeginKind(p, s, kind)
  PROVE  PlacementInv'
<1>0. \A a \in Application : application[a] \in Placement /\ application[a].at \in Stage \cup {Nowhere}
  BY DEF PlacementInv, PlacementTyped, Placement
<1>1. ASSUME NEW x \in ClerkCall, CallBegins(p, x),
             x.phase \in {"target", "choose", "glance", "entry", "share", "lifecycle"},
             Equipped(x), Informed(x),
             \/ \A q \in Clerk : clerk[q].app # x.app
             \/ x.phase \notin Applying /\ (x.app # Nowhere => application[x.app].at # Nowhere)
      PROVE  PlacementInv'
  <2>1. /\ UNCHANGED <<stage, application, overtaken>>
        /\ clerk' \in [Clerk -> ClerkCall] /\ clerk'[p] = x
        /\ \A q \in Clerk \ {p} : clerk'[q] = clerk[q]
    BY <1>1, Turn
  <2>2. Equipped(clerk[p])' /\ Informed(clerk[p])'
    BY <1>1, <2>1 DEF Equipped, Informed
  <2>3. Apart(p)'
    <3>1. \A q \in Clerk : clerk[q].phase \in Applying
            => clerk[q].app # Nowhere /\ application[clerk[q].app].at = Nowhere
      BY StagePlacementAssumption DEF PlacementInv, Equipped, Informed, Placing, Moving, Applying
    <3> QED BY <1>1, <2>1, <3>1 DEF Apart
  <2> QED BY <1>1, <2>1, <2>2, <2>3, ClerkUnlocked
<1>2. ASSUME NEW a \in Application, BeginReopen(p, a)
      PROVE  PlacementInv'
  <2> DEFINE x == [Rest EXCEPT !.op = "reopen", !.phase = "glance", !.app = a,
                               !.from = application[a].at, !.want = "active"]
  <2>1. CallBegins(p, x)
    BY <1>2 DEF BeginReopen
  <2>2. application[a].at \in Stage /\ application[a].at # Nowhere
    BY <1>0, <1>2, StagePlacementAssumption
       DEF BeginReopen, PlacementInv, UnsentHasNoStatus, Status
  <2>3. x \in ClerkCall /\ x.phase = "glance" /\ Equipped(x) /\ Informed(x) /\ x.app = a
        /\ "glance" \notin Applying
    BY RestFields, <2>2
       DEF ClerkCall, Ops, ClerkPhases, Status, Equipped, Informed, Placing, Moving, Changing, Applying, Locking
  <2> HIDE DEF x
  <2> QED BY <1>1, <2>1, <2>2, <2>3
<1>3. ASSUME NEW a \in Application, BeginApply(p, a)
      PROVE  PlacementInv'
  <2> DEFINE x == [Rest EXCEPT !.op = "apply", !.phase = "entry", !.app = a, !.want = "active"]
  <2> DEFINE y == [Rest EXCEPT !.op = "apiApply", !.phase = "share", !.app = a, !.want = "active"]
  <2>1. CallBegins(p, x) \/ CallBegins(p, y)
    BY <1>3 DEF BeginApply
  <2>0. application[a].at = Nowhere /\ \A q \in Clerk : clerk[q].app # a
    BY <1>3 DEF BeginApply
  <2>2. x \in ClerkCall /\ x.phase = "entry" /\ Equipped(x) /\ Informed(x) /\ x.app = a
    BY RestFields, <2>0 DEF Informed, ClerkCall, Ops, ClerkPhases, Status, Equipped, Placing, Moving, Changing, Applying, Locking
  <2>3. y \in ClerkCall /\ y.phase = "share" /\ Equipped(y) /\ Informed(y) /\ y.app = a
    BY RestFields, <2>0 DEF Informed, ClerkCall, Ops, ClerkPhases, Status, Equipped, Placing, Moving, Changing, Applying, Locking
  <2> HIDE DEF x, y
  <2> QED BY <1>1, <2>0, <2>1, <2>2, <2>3
<1>4. ASSUME NEW a \in Application, NEW t \in Stage, BeginMove(p, a, t)
      PROVE  PlacementInv'
  <2>0. PICK op \in {"move", "board", "bulk"} :
          CallBegins(p, [Rest EXCEPT !.op = op, !.phase = "target", !.app = a,
                                     !.from = application[a].at, !.to = t])
    BY <1>4 DEF BeginMove
  <2> DEFINE x == [Rest EXCEPT !.op = op, !.phase = "target", !.app = a,
                               !.from = application[a].at, !.to = t]
  <2>1. CallBegins(p, x)
    BY <1>4, <2>0 DEF BeginMove
  <2>3. application[a].at # Nowhere
    BY <1>4 DEF BeginMove
  <2>2. x \in ClerkCall /\ x.phase = "target" /\ Equipped(x) /\ Informed(x) /\ x.app = a
        /\ "target" \notin Applying
    BY RestFields, <1>0, <1>4, <2>0
       DEF ClerkCall, Ops, ClerkPhases, Status, Equipped, Informed, Placing, Moving, Changing, Applying, Locking
  <2> HIDE DEF x
  <2> QED BY <1>1, <2>1, <2>2, <2>3
<1>5. ASSUME NEW a \in Application, NEW outcome \in EndStatus, BeginDecide(p, a, outcome)
      PROVE  PlacementInv'
  <2> DEFINE x == [Rest EXCEPT !.op = "decide", !.phase = "choose", !.app = a,
                               !.from = application[a].at, !.want = outcome]
  <2>1. CallBegins(p, x)
    BY <1>5 DEF BeginDecide
  <2>3. application[a].at # Nowhere
    BY <1>5 DEF BeginDecide
  <2>2. x \in ClerkCall /\ x.phase = "choose" /\ Equipped(x) /\ Informed(x) /\ x.app = a
        /\ "choose" \notin Applying
    BY RestFields, <1>0, <1>5
       DEF ClerkCall, Ops, ClerkPhases, Status, Equipped, Informed, Placing, Moving, Changing, Applying, Locking
  <2> HIDE DEF x
  <2> QED BY <1>1, <2>1, <2>2, <2>3
<1>6. ASSUME NEW s \in Stage, BeginDelete(p, s)
      PROVE  PlacementInv'
  <2> DEFINE x == [Rest EXCEPT !.op = "delete", !.phase = "lifecycle", !.from = s]
  <2>1. CallBegins(p, x)
    BY <1>6 DEF BeginDelete
  <2>2. x \in ClerkCall /\ x.phase = "lifecycle" /\ Equipped(x) /\ Informed(x) /\ x.app = Nowhere
        /\ "lifecycle" \notin Applying
    BY RestFields, <1>0, <1>6
       DEF ClerkCall, Ops, ClerkPhases, Status, Equipped, Informed, Placing, Moving, Changing, Applying, Locking
  <2> HIDE DEF x
  <2> QED BY <1>1, <2>1, <2>2
<1>7. ASSUME NEW s \in Stage, NEW t \in Stage \cup {Nowhere}, BeginArchive(p, s, t)
      PROVE  PlacementInv'
  <2> DEFINE x == [Rest EXCEPT !.op = "archive", !.phase = "lifecycle", !.from = s, !.to = t]
  <2>1. CallBegins(p, x)
    BY <1>7 DEF BeginArchive
  <2>2. x \in ClerkCall /\ x.phase = "lifecycle" /\ Equipped(x) /\ Informed(x) /\ x.app = Nowhere
        /\ "lifecycle" \notin Applying
    BY RestFields, <1>0, <1>7
       DEF ClerkCall, Ops, ClerkPhases, Status, Equipped, Informed, Placing, Moving, Changing, Applying, Locking, BeginArchive
  <2> HIDE DEF x
  <2> QED BY <1>1, <2>1, <2>2
<1>8. ASSUME NEW kind \in Status, BeginCreate(p, kind)
      PROVE  PlacementInv'
  <2> DEFINE x == [Rest EXCEPT !.op = "create", !.phase = "lifecycle", !.want = kind]
  <2>1. CallBegins(p, x)
    BY <1>8 DEF BeginCreate
  <2>2. x \in ClerkCall /\ x.phase = "lifecycle" /\ Equipped(x) /\ Informed(x) /\ x.app = Nowhere
        /\ "lifecycle" \notin Applying
    BY RestFields, <1>0, <1>8
       DEF ClerkCall, Ops, ClerkPhases, Status, Equipped, Informed, Placing, Moving, Changing, Applying, Locking
  <2> HIDE DEF x
  <2> QED BY <1>1, <2>1, <2>2
<1>9. ASSUME NEW kind \in Status, NEW s \in Stage, BeginKind(p, s, kind)
      PROVE  PlacementInv'
  <2> DEFINE x == [Rest EXCEPT !.op = "kind", !.phase = "lifecycle", !.from = s,
                               !.want = kind]
  <2>1. CallBegins(p, x)
    BY <1>9 DEF BeginKind
  <2>2. x \in ClerkCall /\ x.phase = "lifecycle" /\ Equipped(x) /\ Informed(x) /\ x.app = Nowhere
        /\ "lifecycle" \notin Applying
    BY RestFields, <1>0, <1>9
       DEF ClerkCall, Ops, ClerkPhases, Status, Equipped, Informed, Placing, Moving, Changing, Applying, Locking
  <2> HIDE DEF x
  <2> QED BY <1>1, <2>1, <2>2
<1> QED BY <1>2, <1>3, <1>4, <1>5, <1>6, <1>7, <1>8, <1>9

-----------------------------------------------------------------------------
\* Steps that look and lock before a placement is written.
LEMMA LookKeeps ==
  ASSUME PlacementInv, NEW p \in Clerk,
         \/ LockTarget(p) \/ Glance(p) \/ ChooseStage(p)
         \/ ShareJob(p) \/ ChooseEntry(p) \/ InsertApplication(p)
  PROVE  PlacementInv'
<1>0. /\ clerk[p] \in ClerkCall /\ Equipped(clerk[p]) /\ Informed(clerk[p]) /\ Protected(clerk[p])
      /\ stage \in [Stage -> StageRow]
      /\ \A s \in Stage : stage[s] \in StageRow /\ stage[s].kind \in Status
      /\ \A a \in Application : application[a].at \in Stage \cup {Nowhere}
  BY DEF PlacementInv, PlacementTyped, Placement, StageRow
<1>1. CASE LockTarget(p)
  <2> DEFINE c == clerk[p]
             at == application[c.app].at
  <2>1. c.phase = "target" /\ c.app \in Application /\ c.to \in Stage /\ RowShareable(c.to)
        /\ c.op \in {"move", "board", "bulk"} /\ c.moving = {} /\ c.locked = {}
    BY <1>0, <1>1 DEF LockTarget, Equipped, Placing, Moving, Locking
  <2>2. ASSUME NEW x \in ClerkCall, CallGoesOn(p, x), x.phase = "write", x.app = c.app, x.to = c.to,
               x.moving = {}, x.locked = {}, x.op = c.op, x.changed \/ at = x.from,
               stage[c.to].state = "live", x.want = stage[c.to].kind
        PROVE  PlacementInv'
    <3>1. /\ UNCHANGED <<stage, application, overtaken>>
          /\ clerk' \in [Clerk -> ClerkCall] /\ clerk'[p] = x
          /\ \A q \in Clerk \ {p} : clerk'[q] = clerk[q]
      BY <2>2, Turn
    <3>2. Equipped(clerk[p])' /\ Informed(clerk[p])' /\ Protected(clerk[p])'
      BY <2>1, <2>2, <3>1
         DEF Equipped, Informed, Protected, Live, Placing, Moving, Changing, Applying
    <3>3. /\ ~HoldsJob(p)' /\ \A s \in Stage : ~HoldsRow(p, s)'
          /\ \A s \in Stage : SharesRow(p, s)' => RowShareable(s)
          /\ \A a \in Application : ~HoldsApplication(p, a)'
      BY <2>1, <2>2, <3>1 DEF HoldsJob, HoldsRow, SharesRow, HoldsApplication
    <3>4. Apart(p)'
      BY <2>1, <2>2, <3>1, StaysApart DEF Applying
    <3> QED BY <3>1, <3>2, <3>3, <3>4, GoingOn
  <2>3. CASE c.op = "move"
    <3> DEFINE x == [c EXCEPT !.phase = "write", !.want = stage[c.to].kind]
    <3>1. CallEnds(p) \/ (CallGoesOn(p, x) /\ stage[c.to].state = "live")
      BY <1>1, <2>3 DEF LockTarget
    <3>2. /\ x \in ClerkCall /\ x.phase = "write" /\ x.app = c.app /\ x.to = c.to /\ x.moving = {}
          /\ x.locked = {} /\ x.op = c.op
          /\ x.want = stage[c.to].kind /\ x.changed = c.changed /\ x.from = c.from
      BY <1>0, <2>1 DEF ClerkCall, ClerkPhases
    <3>3. c.changed \/ at = c.from
      BY <1>0, <2>1, <2>3 DEF Informed
    <3> HIDE DEF x, c
    <3> QED BY <2>2, <3>1, <3>2, <3>3, Ending
  <2>4. CASE c.op = "board"
    <3> DEFINE read == [c EXCEPT !.changed = at # c.from]
               x == [read EXCEPT !.phase = "write", !.want = stage[c.to].kind]
    <3>1. CallEnds(p) \/ (CallGoesOn(p, x) /\ stage[c.to].state = "live")
      BY <1>1, <2>4 DEF LockTarget
    <3>2. (at # c.from) \in BOOLEAN
      OBVIOUS
    <3>3. /\ read \in ClerkCall /\ read.app = c.app /\ read.to = c.to /\ read.moving = {}
          /\ read.locked = {} /\ read.op = c.op
          /\ read.changed \/ at = read.from
      BY <1>0, <2>1, <3>2 DEF ClerkCall
    <3>4. stage[c.to].kind \in Status
      BY <1>0, <2>1
    <3> HIDE DEF read, c
    <3>5. /\ x \in ClerkCall /\ x.phase = "write" /\ x.app = c.app /\ x.to = c.to /\ x.moving = {}
          /\ x.locked = {} /\ x.op = c.op
          /\ x.want = stage[c.to].kind /\ x.changed = read.changed /\ x.from = read.from
      BY <3>3, <3>4 DEF ClerkCall, ClerkPhases
    <3> HIDE DEF x
    <3> QED BY <2>2, <3>1, <3>3, <3>5, Ending
  <2>5. CASE c.op = "bulk"
    <3> DEFINE read == [c EXCEPT !.changed = FALSE, !.from = at]
               x == [read EXCEPT !.phase = "write", !.want = stage[c.to].kind]
    <3>1. CallEnds(p) \/ (CallGoesOn(p, x) /\ stage[c.to].state = "live")
      BY <1>1, <2>5 DEF LockTarget
    <3>2. at \in Stage \cup {Nowhere} /\ stage[c.to].kind \in Status
      BY <1>0, <2>1
    <3>3. /\ read \in ClerkCall /\ read.app = c.app /\ read.to = c.to /\ read.moving = {}
          /\ read.locked = {} /\ read.op = c.op
          /\ read.from = at
      BY <1>0, <2>1, <3>2 DEF ClerkCall
    <3> HIDE DEF read, c
    <3>5. /\ x \in ClerkCall /\ x.phase = "write" /\ x.app = c.app /\ x.to = c.to /\ x.moving = {}
          /\ x.locked = {} /\ x.op = c.op
          /\ x.want = stage[c.to].kind /\ x.changed = read.changed /\ x.from = read.from
      BY <3>2, <3>3 DEF ClerkCall, ClerkPhases
    <3> HIDE DEF x
    <3> QED BY <2>2, <3>1, <3>3, <3>5, Ending
  <2> QED BY <2>1, <2>3, <2>4, <2>5
<1>2. CASE Glance(p)
  <2>1. clerk[p].phase = "glance"
    BY <1>2 DEF Glance
  <2>2. CASE /\ CallGoesOn(p, [clerk[p] EXCEPT !.phase = "stay", !.to = clerk[p].from])
             /\ Live(clerk[p].from, "active")
    <3> DEFINE x == [clerk[p] EXCEPT !.phase = "stay", !.to = clerk[p].from]
    <3>1. /\ x \in ClerkCall /\ x.phase = "stay" /\ x.to = clerk[p].from /\ x.from = clerk[p].from
          /\ x.app = clerk[p].app /\ x.changed = clerk[p].changed /\ x.want = clerk[p].want
          /\ x.moving = clerk[p].moving /\ x.locked = clerk[p].locked /\ x.op = clerk[p].op
      BY <1>0 DEF ClerkCall, ClerkPhases
    <3> HIDE DEF x
    <3>2. /\ UNCHANGED <<stage, application, overtaken>>
          /\ clerk' \in [Clerk -> ClerkCall] /\ clerk'[p] = x
          /\ \A q \in Clerk \ {p} : clerk'[q] = clerk[q]
      BY <2>2, <3>1, Turn DEF x
    <3>3. Equipped(clerk[p])' /\ Informed(clerk[p])'
      BY <1>0, <2>1, <2>2, <3>1, <3>2
         DEF Equipped, Informed, Live, Placing, Moving, Changing, Applying, Locking
    <3>4. Apart(p)'
      BY <3>1, <3>2, StaysApart DEF Applying
    <3> QED BY <3>1, <3>2, <3>3, <3>4, ClerkUnlocked
  <2>3. CASE CallGoesOn(p, [clerk[p] EXCEPT !.phase = "choose"])
    <3>1. "choose" \in ClerkPhases
      BY ClerkPhasesNamed
    <3>2. clerk'[p].phase = "choose" /\ Equipped(clerk[p])' /\ Informed(clerk[p])'
      BY <1>0, <2>1, <2>3, <3>1, NextPhase
         DEF Equipped, Informed, Placing, Moving, Changing, Applying, Locking
    <3>3. Apart(p)'
      BY <2>3, <3>1, <3>2, NextPhase, StaysApart DEF Applying
    <3> QED BY <2>3, <3>1, <3>2, <3>3, NextPhase, ClerkUnlocked
  <2> QED BY <1>2, <2>2, <2>3 DEF Glance
<1>3. CASE ChooseStage(p)
  <2>1. clerk[p].phase = "choose" /\ JobFree(p)
    BY <1>3 DEF ChooseStage
  <2>2. ASSUME NEW s \in Stage, stage[s].state # "archived",
               stage[s].state = "live" => stage[s].kind = clerk[p].want,
               CallGoesOn(p, [clerk[p] EXCEPT !.phase = "place", !.to = s])
        PROVE  PlacementInv'
    <3> DEFINE x == [clerk[p] EXCEPT !.phase = "place", !.to = s]
    <3>1. /\ x \in ClerkCall /\ x.phase = "place" /\ x.to = s
          /\ x.app = clerk[p].app /\ x.want = clerk[p].want /\ x.moving = clerk[p].moving
          /\ x.locked = clerk[p].locked /\ x.op = clerk[p].op
      BY <1>0 DEF ClerkCall, ClerkPhases
    <3> HIDE DEF x
    <3>2. /\ UNCHANGED <<stage, application, overtaken>>
          /\ clerk' \in [Clerk -> ClerkCall] /\ clerk'[p] = x
          /\ \A q \in Clerk \ {p} : clerk'[q] = clerk[q]
      BY <2>2, <3>1, Turn DEF x
    <3>3. Equipped(clerk[p])' /\ Informed(clerk[p])' /\ Protected(clerk[p])'
      <4>1. clerk[p].app \in Application /\ clerk[p].want \in Status /\ clerk[p].moving = {}
            /\ clerk[p].locked = {} /\ clerk[p].op # "archive"
            /\ (clerk[p].changed \/ application[clerk[p].app].at = clerk[p].from)
        BY <1>0, <2>1 DEF Equipped, Informed, Placing, Moving, Changing, Applying, Locking
      <4>2. x.from = clerk[p].from /\ x.changed = clerk[p].changed
        BY <1>0 DEF ClerkCall, x
      <4>3. Equipped(clerk[p])'
        BY <3>1, <3>2, <4>1 DEF Equipped, Placing, Moving, Changing
      <4>4. Informed(clerk[p])'
        BY <3>1, <3>2, <4>1, <4>2 DEF Informed, Applying
      <4>5. Protected(clerk[p])'
        BY <2>2, <3>1, <3>2 DEF Protected
      <4> QED BY <4>3, <4>4, <4>5
    <3>4. /\ \A r \in Stage : ~HoldsRow(p, r)' /\ ~SharesRow(p, r)'
          /\ \A b \in Application : ~HoldsApplication(p, b)'
      <4>1. clerk'[p].locked = {}
        BY <3>1, <3>2, <3>3 DEF Equipped, Locking
      <4> QED BY <3>1, <3>2, <4>1 DEF HoldsRow, SharesRow, HoldsApplication
    <3>5. Apart(p)'
      BY <3>1, <3>2, StaysApart DEF Applying
    <3> QED BY <2>1, <3>2, <3>3, <3>4, <3>5, GoingOn
  <2>3. \/ CallEnds(p)
        \/ \E s \in Stage : /\ stage[s].state # "archived"
                            /\ stage[s].state = "live" => stage[s].kind = clerk[p].want
                            /\ CallGoesOn(p, [clerk[p] EXCEPT !.phase = "place", !.to = s])
    BY <1>3 DEF ChooseStage, Live
  <2> QED BY <2>2, <2>3, Ending
<1>4. CASE ShareJob(p)
  <2>1. CallGoesOn(p, [clerk[p] EXCEPT !.phase = "entry"]) /\ clerk[p].phase = "share"
        /\ "entry" \in ClerkPhases
    BY <1>4, ClerkPhasesNamed DEF ShareJob
  <2>2. clerk'[p].phase = "entry" /\ Equipped(clerk[p])' /\ Informed(clerk[p])'
    BY <1>0, <2>1, NextPhase
       DEF Equipped, Informed, Placing, Moving, Changing, Applying, Locking
  <2>3. Apart(p)'
    BY <2>1, <2>2, NextPhase, StaysApart DEF Applying
  <2> QED BY <2>1, <2>2, <2>3, NextPhase, ClerkUnlocked
<1>5. CASE ChooseEntry(p)
  <2>1. ASSUME NEW s \in Stage, clerk[p].phase = "entry",
               CallGoesOn(p, [clerk[p] EXCEPT !.phase = "insert", !.to = s])
        PROVE  PlacementInv'
    <3> DEFINE x == [clerk[p] EXCEPT !.phase = "insert", !.to = s]
    <3>1. /\ x \in ClerkCall /\ x.phase = "insert" /\ x.to = s
          /\ x.app = clerk[p].app /\ x.moving = clerk[p].moving /\ x.want = clerk[p].want
          /\ x.locked = clerk[p].locked /\ x.op = clerk[p].op
      BY <1>0 DEF ClerkCall, ClerkPhases
    <3> HIDE DEF x
    <3>2. /\ UNCHANGED <<stage, application, overtaken>>
          /\ clerk' \in [Clerk -> ClerkCall] /\ clerk'[p] = x
          /\ \A q \in Clerk \ {p} : clerk'[q] = clerk[q]
      BY <2>1, <3>1, Turn DEF x
    <3>3. Equipped(clerk[p])' /\ Informed(clerk[p])'
      BY <1>0, <2>1, <3>1, <3>2
         DEF Equipped, Informed, Placing, Moving, Changing, Applying, Locking
    <3>4. Apart(p)'
      BY <2>1, <3>1, <3>2, StaysApart DEF Applying
    <3> QED BY <3>1, <3>2, <3>3, <3>4, ClerkUnlocked
  <2> QED BY <1>5, <2>1, Ending DEF ChooseEntry
<1>6. CASE InsertApplication(p)
  <2>1. CASE CallEnds(p)
    BY <2>1, Ending
  <2>2. CASE ~CallEnds(p)
    <3>1. /\ CallGoesOn(p, [clerk[p] EXCEPT !.phase = "reference"])
          /\ clerk[p].phase = "insert" /\ stage[clerk[p].to].state = "live"
          /\ RowShareable(clerk[p].to) /\ "reference" \in ClerkPhases
      BY <1>6, <2>2, ClerkPhasesNamed DEF InsertApplication, Placeable
    <3>2. /\ UNCHANGED <<stage, application, overtaken>>
          /\ clerk' \in [Clerk -> ClerkCall] /\ \A q \in Clerk \ {p} : clerk'[q] = clerk[q]
          /\ clerk'[p].phase = "reference" /\ clerk'[p].app = clerk[p].app
          /\ clerk'[p].to = clerk[p].to /\ clerk'[p].moving = clerk[p].moving
          /\ clerk'[p].want = clerk[p].want /\ clerk'[p].locked = clerk[p].locked
          /\ clerk'[p].op = clerk[p].op
      BY <3>1, NextPhase
    <3>3. Equipped(clerk[p])' /\ Informed(clerk[p])' /\ Protected(clerk[p])'
      BY <1>0, <3>1, <3>2
         DEF Equipped, Informed, Protected, Placing, Moving, Changing, Applying, Locking
    <3>4. /\ ~HoldsJob(p)' /\ \A s \in Stage : ~HoldsRow(p, s)'
          /\ \A s \in Stage : SharesRow(p, s)' => RowShareable(s)
          /\ \A a \in Application : ~HoldsApplication(p, a)'
      <4>1. clerk'[p].locked = {}
        BY <3>2, <3>3 DEF Equipped, Locking
      <4> QED BY <3>1, <3>2, <4>1 DEF HoldsJob, HoldsRow, SharesRow, HoldsApplication
    <3>5. Apart(p)'
      BY <3>1, <3>2, StaysApart DEF Applying
    <3> QED BY <3>2, <3>3, <3>4, <3>5, GoingOn
  <2> QED BY <2>1, <2>2
<1> QED BY <1>1, <1>2, <1>3, <1>4, <1>5, <1>6

\* Steps of a lifecycle change up to its write, and the victims of a deadlock.
LEMMA ChangeKeeps ==
  ASSUME PlacementInv, NEW p \in Clerk,
         \/ LockJob(p) \/ (\E s \in Stage : LockRow(p, s)) \/ RowsLocked(p)
         \/ CheckArchive(p) \/ Rank(p) \/ CheckDelete(p) \/ Abort(p)
  PROVE  PlacementInv'
<1>0. /\ clerk[p] \in ClerkCall /\ Equipped(clerk[p]) /\ Informed(clerk[p]) /\ Protected(clerk[p])
      /\ \A s \in Stage : In(s) \subseteq Application
  BY DEF PlacementInv, PlacementTyped, In
<1>1. ASSUME NEW phase \in {"rows", "check", "rank", "merge", "drop", "lifecycle"},
             CallGoesOn(p, [clerk[p] EXCEPT !.phase = phase])
      PROVE  /\ UNCHANGED <<stage, application, overtaken>>
             /\ clerk' \in [Clerk -> ClerkCall] /\ \A q \in Clerk \ {p} : clerk'[q] = clerk[q]
             /\ clerk'[p].phase = phase
             /\ clerk'[p].op = clerk[p].op /\ clerk'[p].app = clerk[p].app
             /\ clerk'[p].from = clerk[p].from /\ clerk'[p].to = clerk[p].to
             /\ clerk'[p].want = clerk[p].want /\ clerk'[p].moving = clerk[p].moving
             /\ clerk'[p].locked = clerk[p].locked
             /\ Apart(p)' /\ \A a \in Application : ~HoldsApplication(p, a)'
  <2>1. phase \in ClerkPhases
    BY ClerkPhasesNamed
  <2>2. phase \notin Applying
    BY DEF Applying
  <2>3. phase # "trail"
    OBVIOUS
  <2> QED BY <1>1, <2>1, <2>2, <2>3, NextPhase, StaysApart DEF HoldsApplication
<1>2. CASE LockJob(p)
  <2>1. CallGoesOn(p, [clerk[p] EXCEPT !.phase = "rows"]) /\ clerk[p].phase = "lifecycle"
        /\ JobFree(p)
    BY <1>2 DEF LockJob
  <2>2. Equipped(clerk[p])' /\ Informed(clerk[p])' /\ Protected(clerk[p])'
    BY <1>0, <1>1, <2>1
       DEF Equipped, Informed, Protected, Placing, Moving, Changing, Applying, Locking
  <2>3. \A s \in Stage : ~HoldsRow(p, s)' /\ ~SharesRow(p, s)'
    BY <1>0, <1>1, <2>1 DEF HoldsRow, SharesRow, Equipped, Locking
  <2> QED BY <1>1, <2>1, <2>2, <2>3, GoingOn
<1>3. ASSUME NEW r \in Stage, LockRow(p, r)
      PROVE  PlacementInv'
  <2> DEFINE held == clerk[p].locked \cup {r}
             x == [clerk[p] EXCEPT !.locked = held]
  <2>1. /\ CallGoesOn(p, x) /\ clerk[p].phase = "rows" /\ RowFree(r) /\ held \in SUBSET Stage
        /\ "rows" \notin Applying
    BY <1>0, <1>3 DEF LockRow, ClerkCall, Applying
  <2> HIDE DEF held
  <2>2. /\ x \in ClerkCall /\ x.phase = "rows" /\ x.op = clerk[p].op /\ x.from = clerk[p].from
        /\ x.to = clerk[p].to /\ x.app = clerk[p].app /\ x.want = clerk[p].want
        /\ x.moving = clerk[p].moving /\ x.locked = held
    BY <1>0, <2>1 DEF ClerkCall
  <2> HIDE DEF x
  <2>3. /\ UNCHANGED <<stage, application, overtaken>>
        /\ clerk' \in [Clerk -> ClerkCall] /\ clerk'[p] = x
        /\ \A q \in Clerk \ {p} : clerk'[q] = clerk[q]
    BY <2>1, <2>2, Turn
  <2>4. Equipped(clerk[p])' /\ Informed(clerk[p])' /\ Protected(clerk[p])'
    BY <1>0, <2>1, <2>2, <2>3
       DEF Equipped, Informed, Protected, Placing, Moving, Changing, Applying, Locking
  <2>5. Apart(p)'
    BY <2>1, <2>2, <2>3, StaysApart
  <2>6. /\ \A s \in Stage : HoldsRow(p, s)' => HoldsRow(p, s) \/ RowFree(s)
        /\ \A s \in Stage : ~SharesRow(p, s)'
        /\ \A a \in Application : ~HoldsApplication(p, a)'
    BY <2>1, <2>2, <2>3 DEF HoldsRow, SharesRow, HoldsApplication, held
  <2>7. HoldsJob(p)
    BY <2>1 DEF HoldsJob
  <2> QED BY <2>3, <2>4, <2>5, <2>6, <2>7, GoingOn
<1>9. CASE RowsLocked(p)
  <2>1. /\ CallGoesOn(p, [clerk[p] EXCEPT !.phase = "check"]) /\ clerk[p].phase = "rows"
        /\ clerk[p].locked = Rows(clerk[p])
    BY <1>9 DEF RowsLocked
  <2>2. Equipped(clerk[p])'
    BY <1>0, <1>1, <2>1 DEF Equipped, Placing, Moving, Changing, Locking, Rows
  <2>4. Informed(clerk[p])' /\ Protected(clerk[p])'
    BY <1>0, <1>1, <2>1 DEF Informed, Protected, Applying
  <2>3. /\ \A s \in Stage : HoldsRow(p, s)' => HoldsRow(p, s)
        /\ \A s \in Stage : ~SharesRow(p, s)'
    BY <1>1, <2>1 DEF HoldsRow, SharesRow
  <2>5. HoldsJob(p)
    BY <2>1 DEF HoldsJob
  <2> QED BY <1>1, <2>1, <2>2, <2>3, <2>4, <2>5, GoingOn
<1>4. CASE CheckArchive(p)
  <2> DEFINE phase == IF In(clerk[p].from) = {} THEN "merge" ELSE "rank"
  <2>1. CASE CallEnds(p)
    BY <2>1, Ending
  <2>2. CASE ~CallEnds(p)
    <3>1. /\ clerk[p].phase = "check" /\ clerk[p].op = "archive" /\ clerk[p].from \in Stage
          /\ ArchiveAllowed(clerk[p].from, clerk[p].to)
          /\ CallGoesOn(p, [clerk[p] EXCEPT !.phase = phase])
      BY <1>0, <1>4, <2>2 DEF CheckArchive, Equipped, Changing
    <3>2. /\ phase \in {"rank", "merge"}
          /\ phase = "merge" => In(clerk[p].from) = {}
          /\ phase = "rank" => In(clerk[p].from) # {}
      OBVIOUS
    <3>3. /\ clerk[p].to # Nowhere => Live(clerk[p].to, stage[clerk[p].from].kind)
          /\ In(clerk[p].from) # {} => clerk[p].to # Nowhere
      BY <3>1 DEF ArchiveAllowed
    <3> HIDE DEF phase
    <3>4. Equipped(clerk[p])' /\ Informed(clerk[p])'
      <4>1. Equipped(clerk[p])'
        BY <1>0, <1>1, <3>1, <3>2, <3>3 DEF Equipped, Placing, Moving, Changing, Locking, Rows
      <4>2. Informed(clerk[p])'
        BY <1>0, <1>1, <3>1, <3>2 DEF Informed, Applying
      <4> QED BY <4>1, <4>2
    <3>5. Protected(clerk[p])'
      <4>1. clerk[p].moving = {}
        BY <1>0, <3>1 DEF Equipped
      <4> QED BY <1>1, <3>1, <3>2, <3>3, <4>1 DEF Protected, In, Live
    <3>6. /\ \A s \in Stage : HoldsRow(p, s)' => HoldsRow(p, s)
          /\ \A s \in Stage : ~SharesRow(p, s)'
      BY <1>1, <3>1, <3>2 DEF HoldsRow, SharesRow
    <3>7. HoldsJob(p)
      BY <3>1 DEF HoldsJob
    <3> QED BY <1>1, <3>1, <3>2, <3>4, <3>5, <3>6, <3>7, GoingOn
  <2> QED BY <2>1, <2>2
<1>5. CASE Rank(p)
  <2> DEFINE x == [clerk[p] EXCEPT !.phase = "merge", !.moving = In(clerk[p].from)]
  <2>1. CallGoesOn(p, x) /\ clerk[p].phase = "rank" /\ clerk[p].op = "archive"
        /\ clerk[p].from \in Stage /\ clerk[p].to # Nowhere /\ clerk[p].from # Nowhere
    BY <1>0, <1>5, StagePlacementAssumption DEF Rank, Equipped, Changing
  <2>2. /\ x \in ClerkCall /\ x.phase = "merge" /\ x.moving = In(clerk[p].from)
        /\ x.op = clerk[p].op /\ x.from = clerk[p].from /\ x.to = clerk[p].to
        /\ x.app = clerk[p].app /\ x.locked = clerk[p].locked
    BY <1>0, <2>1 DEF ClerkCall, ClerkPhases
  <2> HIDE DEF x
  <2>3. /\ UNCHANGED <<stage, application, overtaken>>
        /\ clerk' \in [Clerk -> ClerkCall] /\ clerk'[p] = x
        /\ \A q \in Clerk \ {p} : clerk'[q] = clerk[q]
    BY <2>1, <2>2, Turn
  <2>4. Equipped(clerk[p])'
    BY <1>0, <2>1, <2>2, <2>3 DEF Equipped, Placing, Moving, Changing, Locking, Rows
  <2>5. Informed(clerk[p])'
    BY <2>1, <2>2, <2>3 DEF Informed, Applying, In
  <2>8. Protected(clerk[p])'
    <3>1. Live(clerk[p].to, stage[clerk[p].from].kind)
      BY <1>0, <2>1 DEF Protected
    <3> QED BY <2>2, <2>3, <3>1 DEF Protected, In, Live
  <2>9. Apart(p)'
    BY <2>1, <2>2, <2>3, StaysApart DEF Applying
  <2>6. /\ \A s \in Stage : HoldsRow(p, s)' => HoldsRow(p, s)
        /\ \A s \in Stage : ~SharesRow(p, s)'
        /\ \A a \in Application : ~HoldsApplication(p, a)'
    BY <2>1, <2>2, <2>3 DEF HoldsRow, SharesRow, HoldsApplication
  <2>7. HoldsJob(p)
    BY <2>1 DEF HoldsJob
  <2> QED BY <2>3, <2>4, <2>5, <2>6, <2>7, <2>8, <2>9, GoingOn
<1>6. CASE CheckDelete(p)
  <2>1. CASE CallEnds(p)
    BY <2>1, Ending
  <2>2. CASE ~CallEnds(p)
    <3>1. /\ clerk[p].phase = "check" /\ clerk[p].op = "delete" /\ HoldsJob(p)
          /\ CallGoesOn(p, [clerk[p] EXCEPT !.phase = "drop"])
      BY <1>6, <2>2 DEF CheckDelete, HoldsJob
    <3>0. clerk[p].locked = {}
      BY <1>0, <3>1 DEF Equipped, Rows
    <3>2. Equipped(clerk[p])' /\ Informed(clerk[p])' /\ Protected(clerk[p])'
      BY <1>0, <1>1, <3>0, <3>1
         DEF Equipped, Informed, Protected, Placing, Moving, Changing, Applying
    <3>3. \A s \in Stage : ~HoldsRow(p, s)' /\ ~SharesRow(p, s)'
      BY <1>1, <3>0, <3>1 DEF HoldsRow, SharesRow
    <3> QED BY <1>1, <3>1, <3>2, <3>3, GoingOn
  <2> QED BY <2>1, <2>2
<1>7. CASE Abort(p)
  <2>1. CASE CallEnds(p)
    BY <2>1, Ending
  <2>2. CASE ~CallEnds(p)
    <3> DEFINE x == [clerk[p] EXCEPT !.phase = "lifecycle", !.locked = {}, !.moving = {},
                                     !.aborts = clerk[p].aborts + 1]
    <3>1. clerk[p].op = "archive" /\ CallGoesOn(p, x) /\ clerk[p].phase \in Changing
      <4>1. clerk[p].op = "archive" /\ CallGoesOn(p, x)
        BY <1>7, <2>2 DEF Abort
      <4>2. clerk[p].phase \in Changing
        <5>1. \E q \in Clerk : WaitsFor(p, q)
          BY <1>7 DEF Abort, Deadlocked
        <5>2. clerk[p].phase \in {"target", "insert", "trail", "write", "place", "stay", "merge",
                                  "rows", "drop", "share", "reference", "choose", "lifecycle"}
          BY <5>1 DEF WaitsFor
        <5> QED BY <1>0, <4>1, <5>2 DEF Equipped, Changing
      <4> QED BY <4>1, <4>2
    <3>2. clerk[p].aborts + 1 \in Nat
      BY <1>0 DEF ClerkCall
    <3>3. \A n \in Nat :
            LET y == [clerk[p] EXCEPT !.phase = "lifecycle", !.locked = {}, !.moving = {},
                                      !.aborts = n]
            IN  /\ y \in ClerkCall /\ y.phase = "lifecycle" /\ y.op = clerk[p].op /\ y.app = clerk[p].app
                /\ y.from = clerk[p].from /\ y.to = clerk[p].to /\ y.want = clerk[p].want
                /\ y.moving = {} /\ y.locked = {}
      BY <1>0 DEF ClerkCall, ClerkPhases
    <3>4. /\ x \in ClerkCall /\ x.phase = "lifecycle" /\ x.op = clerk[p].op /\ x.app = clerk[p].app
          /\ x.from = clerk[p].from /\ x.to = clerk[p].to /\ x.want = clerk[p].want
          /\ x.moving = {} /\ x.locked = {}
      BY <3>2, <3>3
    <3> HIDE DEF x
    <3>5. /\ UNCHANGED <<stage, application, overtaken>>
          /\ clerk' \in [Clerk -> ClerkCall] /\ clerk'[p] = x
          /\ \A q \in Clerk \ {p} : clerk'[q] = clerk[q]
      BY <3>1, <3>4, Turn
    <3>6. Equipped(clerk[p])' /\ Informed(clerk[p])'
      BY <1>0, <3>1, <3>4, <3>5 DEF Equipped, Informed, Placing, Moving, Changing, Applying
    <3>7. Apart(p)'
      BY <3>4, <3>5, StaysApart DEF Applying
    <3> QED BY <3>4, <3>5, <3>6, <3>7, ClerkUnlocked
  <2> QED BY <2>1, <2>2
<1> QED BY <1>2, <1>3, <1>4, <1>5, <1>6, <1>7, <1>9

-----------------------------------------------------------------------------
\* What a write leaves in the stages it refers to.
LEMMA Remembering ==
  ASSUME PlacementInv, NEW rows
  PROVE  /\ Remembered(rows) \in [Stage -> StageRow]
         /\ \A s \in Stage : /\ Remembered(rows)[s].state = stage[s].state
                             /\ Remembered(rows)[s].kind = stage[s].kind
<1>1. ASSUME NEW s \in Stage
      PROVE  /\ [stage[s] EXCEPT !.inHistory = stage[s].inHistory \/ s \in rows] \in StageRow
             /\ [stage[s] EXCEPT !.inHistory = stage[s].inHistory \/ s \in rows].state
                  = stage[s].state
             /\ [stage[s] EXCEPT !.inHistory = stage[s].inHistory \/ s \in rows].kind
                  = stage[s].kind
  <2>1. stage[s] \in StageRow
    BY DEF PlacementInv, PlacementTyped
  <2>2. (stage[s].inHistory \/ s \in rows) \in BOOLEAN
    OBVIOUS
  <2> QED BY <2>1, <2>2 DEF StageRow
<1> QED BY <1>1 DEF Remembered

LEMMA Mutating ==
  ASSUME PlacementInv, NEW p \in Clerk, clerk[p].app \in Application, clerk[p].to \in Stage
  PROVE  /\ Mutates(p) \in [Application -> Placement]
         /\ Mutates(p)[clerk[p].app].at = clerk[p].to
         /\ Mutates(p)[clerk[p].app].status = clerk[p].want
         /\ \A a \in Application \ {clerk[p].app} : Mutates(p)[a] = application[a]
<1>1. [at |-> clerk[p].to, status |-> clerk[p].want] \in Placement
  BY DEF PlacementInv, PlacementTyped, ClerkCall, Placement
<1> QED BY <1>1 DEF PlacementInv, PlacementTyped, Mutates

\* A placement is written.
LEMMA WriteKeeps ==
  ASSUME PlacementInv, NEW p \in Clerk, WriteTrail(p) \/ Place(p) \/ ReferenceJob(p)
  PROVE  PlacementInv'
<1> DEFINE a == clerk[p].app
           t == clerk[p].to
<1>0. /\ clerk[p] \in ClerkCall /\ Equipped(clerk[p]) /\ Informed(clerk[p]) /\ Protected(clerk[p])
      /\ stage \in [Stage -> StageRow]
  BY DEF PlacementInv, PlacementTyped
<1>1. a \in Application /\ t \in Stage /\ t # Nowhere
      /\ clerk[p].phase \in {"trail", "place", "stay", "reference"}
  BY <1>0, StagePlacementAssumption DEF WriteTrail, Place, ReferenceJob, Equipped, Placing, Moving
<1>2. CASE CallEnds(p)
  BY <1>2, Ending
<1>3. CASE ~CallEnds(p)
  <2>1. application' = Mutates(p) /\ Commits(p, {a})
    BY <1>3 DEF WriteTrail, Place, ReferenceJob
  <2>2. /\ application' \in [Application -> Placement] /\ application'[a].at = t
        /\ application'[a].status = clerk[p].want
        /\ \A b \in Application \ {a} : application'[b] = application[b]
    BY <1>1, <2>1, Mutating
  <2>3. /\ stage' \in [Stage -> StageRow]
        /\ \A s \in Stage : stage'[s].state # stage[s].state \/ stage'[s].kind # stage[s].kind
             => stage[s].state = "absent" /\ HoldsJob(p)
        /\ \A s \in Stage : stage[s].state = "live" => stage'[s].state = "live"
        /\ stage'[t].state = "live"
        /\ a \notin overtaken' => stage'[t].kind = clerk[p].want
        /\ overtaken \subseteq overtaken'
    <3>1. CASE WriteTrail(p)
      <4>1. stage' = Remembered({clerk[p].from, t}) /\ stage[t].state = "live"
            /\ stage[t].kind = clerk[p].want /\ UNCHANGED overtaken
        BY <1>0, <1>3, <3>1 DEF WriteTrail, Protected, Live
      <4> QED BY <1>1, <4>1, Remembering
    <3>2. CASE ReferenceJob(p)
      <4>1. stage' = Remembered({t}) /\ stage[t].state = "live" /\ clerk[p].want = "active"
            /\ overtaken' = overtaken \cup {b \in {a} : stage[t].kind # "active"}
        BY <1>0, <3>2 DEF ReferenceJob, Protected, Informed, Applying
      <4> QED BY <1>1, <4>1, Remembering
    <3>3. CASE Place(p)
      <4> DEFINE new == [state |-> "live", kind |-> clerk[p].want, inHistory |-> TRUE]
      <4>1. PICK trail : stage' = [Remembered(trail) EXCEPT
                           ![t] = IF stage[t].state = "absent" THEN new ELSE Remembered(trail)[t]]
        BY <1>3, <3>3 DEF Place
      <4>2. /\ stage[t].state # "archived" /\ UNCHANGED overtaken
            /\ stage[t].state = "live" => stage[t].kind = clerk[p].want
            /\ stage[t].state = "absent" => HoldsJob(p)
        <5>0. UNCHANGED overtaken
          BY <1>3, <3>3 DEF Place
        <5>1. CASE clerk[p].phase = "place"
          BY <1>0, <5>0, <5>1 DEF Protected, HoldsJob
        <5>2. CASE clerk[p].phase = "stay"
          <6>1. ~clerk[p].changed
            BY <1>3, <3>3 DEF Place, UnchangedSince
          <6>2. application[a].at = t /\ stage[t].kind = "active" /\ clerk[p].want = "active"
            BY <1>0, <5>2, <6>1 DEF Informed
          <6> QED BY <1>1, <5>0, <6>2 DEF PlacementInv, PlacedInLiveStage
        <5> QED BY <3>3, <5>1, <5>2 DEF Place
      <4>3. new \in StageRow /\ new.state = "live" /\ new.kind = clerk[p].want
        BY <1>0, <3>3 DEF Place, Equipped, StageRow
      <4>4. stage[t].state \in {"absent", "live", "archived"}
        BY <1>0, <1>1 DEF StageRow
      <4> HIDE DEF new
      <4> QED BY <1>1, <4>1, <4>2, <4>3, <4>4, Remembering
    <3> QED BY <3>1, <3>2, <3>3
  <2>4. \A b \in Application : application'[b].at # application[b].at
          => \/ HoldsJob(p)
             \/ /\ SharesRow(p, application'[b].at)
                /\ application[b].at \in Stage => RowShareable(application[b].at)
    <3>1. CASE clerk[p].phase = "place"
      BY <3>1 DEF HoldsJob
    <3>2. CASE clerk[p].phase = "trail"
      <4>1. application[a].at = clerk[p].from /\ RowShareable(clerk[p].from)
        BY <1>0, <1>3, <3>2 DEF Informed, WriteTrail, Place, ReferenceJob
      <4> QED BY <2>2, <3>2, <4>1 DEF SharesRow
    <3>4. CASE clerk[p].phase = "reference"
      <4>1. application[a].at = Nowhere
        BY <1>0, <3>4 DEF Informed, Applying
      <4> QED BY <2>2, <3>4, <4>1, StagePlacementAssumption DEF SharesRow
    <3>3. CASE clerk[p].phase = "stay"
      <4>1. ~clerk[p].changed
        BY <1>3, <3>3 DEF WriteTrail, ReferenceJob, Place, UnchangedSince
      <4>2. application[a].at = t
        BY <1>0, <3>3, <4>1 DEF Informed
      <4> QED BY <2>2, <4>2
    <3> QED BY <1>1, <3>1, <3>2, <3>3, <3>4
  <2>5. UnsentHasNoStatus'
    BY <1>1, <2>2 DEF PlacementInv, UnsentHasNoStatus
  <2>6. PlacedInLiveStage'
    <3> SUFFICES ASSUME NEW b \in Application, application'[b].at # Nowhere
                 PROVE  stage'[application'[b].at].state = "live"
      BY DEF PlacedInLiveStage
    <3>1. application'[b].at \in Stage
      BY <2>2 DEF Placement
    <3> QED BY <2>2, <2>3, <3>1 DEF PlacementInv, PlacedInLiveStage
  <2>9. OtherwiseStatusMatches'
    <3> SUFFICES ASSUME NEW b \in Application, b \notin overtaken', application'[b].at # Nowhere
                 PROVE  application'[b].status = stage'[application'[b].at].kind
      BY DEF OtherwiseStatusMatches
    <3>1. CASE b = a
      BY <2>2, <2>3, <3>1
    <3>2. CASE b # a
      <4>1. application'[b] = application[b] /\ application[b].at \in Stage
        BY <2>2, <3>2 DEF Placement
      <4>2. /\ application[b].status = stage[application[b].at].kind
            /\ stage[application[b].at].state = "live"
        BY <2>3, <4>1 DEF PlacementInv, OtherwiseStatusMatches, PlacedInLiveStage
      <4> QED BY <2>3, <4>1, <4>2
    <3> QED BY <3>1, <3>2
  <2>10. /\ \A b \in Application : application[b].at # Nowhere => application'[b].at # Nowhere
         /\ \A s \in Stage : stage[s].state = "absent" => In(s) = {}
    BY <1>1, <2>2, StagePlacementAssumption DEF PlacementInv, PlacedInLiveStage, In
  <2> DEFINE written == {a}
  <2>7. clerk' = [q \in Clerk |-> IF q = p THEN Rest
                    ELSE [clerk[q] EXCEPT !.changed = clerk[q].changed \/ clerk[q].app \in written]]
    BY <2>1 DEF Commits
  <2>8. /\ written \in SUBSET Application
        /\ \A b \in Application \ written : application'[b] = application[b]
        /\ \A b \in written : b = clerk[p].app
    BY <1>1, <2>2
  <2>11. /\ \A s \in Stage : stage'[s].state # stage[s].state => HoldsJob(p)
         /\ \A s \in Stage : stage'[s].kind # stage[s].kind
              => HoldsJob(p) /\ In(s) = {} /\ (HoldsRow(p, s) \/ stage[s].state = "absent")
         /\ \A s \in Stage : stage[s].state = "live"
              => stage'[s].state = "live" \/ (HoldsJob(p) /\ (HoldsRow(p, s) \/ RowFree(s)))
    <3>1. ASSUME NEW s \in Stage,
                 stage'[s].state # stage[s].state \/ stage'[s].kind # stage[s].kind
          PROVE  stage[s].state = "absent" /\ HoldsJob(p) /\ In(s) = {}
      BY <2>3, <2>10, <3>1
    <3>2. \A s \in Stage : stage[s].state = "live" => stage'[s].state = "live"
      BY <2>3
    <3>3. \A s \in Stage : stage'[s].state # stage[s].state => HoldsJob(p)
      BY <3>1
    <3>4. \A s \in Stage : stage'[s].kind # stage[s].kind
            => HoldsJob(p) /\ In(s) = {} /\ (HoldsRow(p, s) \/ stage[s].state = "absent")
      BY <3>1
    <3> QED BY <3>2, <3>3, <3>4
  <2>13. \A b \in written, q \in Clerk \ {p} : ~HoldsApplication(q, b)
    <3>1. CASE clerk[p].phase \in {"place", "stay"}
      BY <3>1 DEF WriteTrail, Place, ReferenceJob, ApplicationFree
    <3>2. CASE clerk[p].phase = "trail"
      BY <1>1, <3>2 DEF PlacementInv, Locks, HoldsApplication
    <3>3. CASE clerk[p].phase = "reference"
      BY <1>1, <3>3 DEF PlacementInv, Apart, HoldsApplication, Applying
    <3> QED BY <1>1, <3>1, <3>2, <3>3
  <2>12. stage' \in [Stage -> StageRow] /\ application' \in [Application -> Placement]
    BY <2>2, <2>3
  <2> HIDE DEF written, a, t
  <2> QED BY <2>4, <2>5, <2>6, <2>7, <2>8, <2>9, <2>10, <2>11, <2>12, <2>13, Committing
<1> QED BY <1>2, <1>3

\* The guarded update of a move: from here on the application is the call's.
LEMMA UpdateKeeps ==
  ASSUME PlacementInv, NEW p \in Clerk, Write(p)
  PROVE  PlacementInv'
<1>0. /\ clerk[p] \in ClerkCall /\ Equipped(clerk[p]) /\ Informed(clerk[p]) /\ Protected(clerk[p])
      /\ clerk[p].phase = "write" /\ ApplicationFree(clerk[p].app)
  BY DEF PlacementInv, PlacementTyped, Write
<1>1. CASE CallEnds(p)
  BY <1>1, Ending
<1>2. CASE ~CallEnds(p)
  <2>1. CallGoesOn(p, [clerk[p] EXCEPT !.phase = "trail"]) /\ ~clerk[p].changed /\ "trail" \in ClerkPhases
    BY <1>2, ClerkPhasesNamed DEF Write, UnchangedSince
  <2>2. /\ UNCHANGED <<stage, application, overtaken>>
        /\ clerk' \in [Clerk -> ClerkCall] /\ \A q \in Clerk \ {p} : clerk'[q] = clerk[q]
        /\ clerk'[p].phase = "trail" /\ clerk'[p].app = clerk[p].app
        /\ clerk'[p].op = clerk[p].op /\ clerk'[p].from = clerk[p].from
        /\ clerk'[p].to = clerk[p].to /\ clerk'[p].moving = clerk[p].moving
        /\ clerk'[p].want = clerk[p].want /\ clerk'[p].locked = clerk[p].locked
        /\ clerk'[p].changed = clerk[p].changed
    BY <2>1, NextPhase
  <2>3. Equipped(clerk[p])'
    BY <1>0, <2>2 DEF Equipped, Placing, Moving, Changing, Locking
  <2>4. Informed(clerk[p])' /\ Protected(clerk[p])'
    BY <1>0, <2>1, <2>2 DEF Equipped, Informed, Protected, Live, Applying
  <2>5. clerk'[p].locked = {} /\ clerk[p].locked = {}
    BY <1>0, <2>2 DEF Equipped, Locking
  <2>6. /\ ~HoldsJob(p)' /\ \A s \in Stage : ~HoldsRow(p, s)'
        /\ \A s \in Stage : SharesRow(p, s)' => SharesRow(p, s)
        /\ \A a \in Application : HoldsApplication(p, a)' => ApplicationFree(a)
    BY <1>0, <2>2, <2>5 DEF HoldsJob, HoldsRow, SharesRow, HoldsApplication
  <2>7. Apart(p)'
    BY <2>2, StaysApart DEF Applying
  <2> QED BY <2>2, <2>3, <2>4, <2>6, <2>7, GoingOn
<1> QED BY <1>1, <1>2

\* The stages of a pipeline change.
LEMMA PipelineKeeps ==
  ASSUME PlacementInv, NEW p \in Clerk,
         Merge(p) \/ ChangeKind(p) \/ CreateStage(p) \/ DropStage(p)
  PROVE  PlacementInv'
<1> DEFINE s == clerk[p].from
           t == clerk[p].to
<1>0. /\ clerk[p] \in ClerkCall /\ Equipped(clerk[p]) /\ Informed(clerk[p]) /\ Protected(clerk[p])
      /\ stage \in [Stage -> StageRow] /\ application \in [Application -> Placement]
      /\ UnsentHasNoStatus /\ PlacedInLiveStage /\ OtherwiseStatusMatches
  BY DEF PlacementInv, PlacementTyped
<1>1. CASE Merge(p)
  <2>1. /\ clerk[p].phase = "merge" /\ s \in Stage /\ s # t /\ s # Nowhere
        /\ HoldsJob(p) /\ HoldsRow(p, s)
    BY <1>0, <1>1, StagePlacementAssumption
       DEF Merge, Equipped, Changing, HoldsJob, HoldsRow, Rows
  <2>12. \A a \in clerk[p].moving, q \in Clerk \ {p} : ~HoldsApplication(q, a)
    BY <1>1 DEF Merge, ApplicationFree
  <2> DEFINE written == clerk[p].moving
  <2>2. /\ application' = [a \in Application |->
             IF a \in written THEN [application[a] EXCEPT !.at = t] ELSE application[a]]
        /\ clerk' = [q \in Clerk |-> IF q = p THEN Rest
             ELSE [clerk[q] EXCEPT !.changed = clerk[q].changed \/ clerk[q].app \in written]]
    BY <1>1 DEF Merge, Commits
  <2>3. /\ written \in SUBSET Application /\ t \in Stage \cup {Nowhere}
        /\ written # {} => /\ t \in Stage /\ t # Nowhere /\ stage[t].state = "live"
                           /\ stage[t].kind = stage[s].kind
        /\ In(s) = written
        /\ \A a \in written : application[a].at # Nowhere
        /\ \A a \in written, q \in Clerk \ {p} : ~HoldsApplication(q, a)
    BY <1>0, <2>1, <2>12 DEF ClerkCall, Equipped, Protected, Informed, Live
  <2>9. UNCHANGED overtaken
    BY <1>1 DEF Merge
  <2> HIDE DEF written
  <2>4. /\ application' \in [Application -> Placement]
        /\ \A a \in written : /\ application'[a].at = t
                              /\ application'[a].status = application[a].status
        /\ \A a \in Application \ written : application'[a] = application[a]
    <3>1. ASSUME NEW a \in Application
          PROVE  /\ [application[a] EXCEPT !.at = t] \in Placement
                 /\ [application[a] EXCEPT !.at = t].at = t
                 /\ [application[a] EXCEPT !.at = t].status = application[a].status
      BY <1>0, <2>3 DEF Placement
    <3> QED BY <1>0, <2>2, <2>3, <3>1
  <2>5. PICK rows : stage' = [Remembered(rows) EXCEPT ![s].state = "archived"]
    BY <1>1 DEF Merge
  <2>6. /\ stage' \in [Stage -> StageRow] /\ stage'[s].state = "archived"
        /\ \A r \in Stage \ {s} : stage'[r].state = stage[r].state
        /\ \A r \in Stage : stage'[r].kind = stage[r].kind
    <3>1. Remembered(rows) \in [Stage -> StageRow]
      BY Remembering
    <3>2. /\ [Remembered(rows)[s] EXCEPT !.state = "archived"] \in StageRow
          /\ [Remembered(rows)[s] EXCEPT !.state = "archived"].state = "archived"
          /\ [Remembered(rows)[s] EXCEPT !.state = "archived"].kind = Remembered(rows)[s].kind
      BY <2>1, <3>1 DEF StageRow
    <3> QED BY <2>1, <2>5, <3>1, <3>2, Remembering
  <2>7. UnsentHasNoStatus'
    BY <1>0, <2>3, <2>4 DEF UnsentHasNoStatus
  <2>8. PlacedInLiveStage'
    <3> SUFFICES ASSUME NEW a \in Application, application'[a].at # Nowhere
                 PROVE  stage'[application'[a].at].state = "live"
      BY DEF PlacedInLiveStage
    <3>1. CASE a \in written
      BY <2>1, <2>3, <2>4, <2>6, <3>1
    <3>2. CASE a \notin written
      <4>1. application'[a].at = application[a].at /\ application[a].at \in Stage
        BY <1>0, <2>4, <3>2 DEF Placement
      <4>2. application[a].at # s
        BY <2>3, <3>2 DEF In
      <4> QED BY <1>0, <2>6, <4>1, <4>2 DEF PlacedInLiveStage
    <3> QED BY <3>1, <3>2
  <2>10. OtherwiseStatusMatches'
    <3> SUFFICES ASSUME NEW a \in Application, a \notin overtaken', application'[a].at # Nowhere
                 PROVE  application'[a].status = stage'[application'[a].at].kind
      BY DEF OtherwiseStatusMatches
    <3>1. CASE a \in written
      <4>1. application[a].at = s /\ a \notin overtaken
        BY <2>3, <2>9, <3>1 DEF In
      <4>2. application[a].status = stage[s].kind
        BY <1>0, <2>1, <4>1 DEF OtherwiseStatusMatches
      <4> QED BY <2>3, <2>4, <2>6, <3>1, <4>2
    <3>2. CASE a \notin written
      <4>1. application'[a] = application[a] /\ application[a].at \in Stage /\ a \notin overtaken
        BY <1>0, <2>4, <2>9, <3>2 DEF Placement
      <4>2. application[a].status = stage[application[a].at].kind
        BY <1>0, <4>1, StagePlacementAssumption DEF OtherwiseStatusMatches
      <4> QED BY <2>6, <4>1, <4>2
    <3> QED BY <3>1, <3>2
  <2>11. \A a \in Application : application[a].at # Nowhere => application'[a].at # Nowhere
    BY <2>3, <2>4
  <2> QED BY <2>1, <2>2, <2>3, <2>4, <2>6, <2>7, <2>8, <2>10, <2>11, Committing
<1>2. ASSUME NEW written \in SUBSET Application, written = {},
             clerk' = [q \in Clerk |-> IF q = p THEN Rest
               ELSE [clerk[q] EXCEPT !.changed = clerk[q].changed \/ clerk[q].app \in written]],
             UNCHANGED <<application, overtaken>>, stage' \in [Stage -> StageRow], HoldsJob(p),
             \A r \in Stage : stage'[r].kind # stage[r].kind
               => In(r) = {} /\ (HoldsRow(p, r) \/ stage[r].state = "absent"),
             \A r \in Stage : stage[r].state = "live"
               => \/ stage'[r].state = "live"
                  \/ RowFree(r) /\ In(r) = {}
      PROVE  PlacementInv'
  <2>1. UnsentHasNoStatus' /\ PlacedInLiveStage'
    BY <1>0, <1>2 DEF UnsentHasNoStatus, PlacedInLiveStage, Placement, In
  <2>2. OtherwiseStatusMatches'
    <3> SUFFICES ASSUME NEW a \in Application, a \notin overtaken, application[a].at # Nowhere
                 PROVE  application[a].status = stage'[application[a].at].kind
      BY <1>2 DEF OtherwiseStatusMatches
    <3>1. application[a].at \in Stage /\ a \in In(application[a].at)
      BY <1>0 DEF Placement, In
    <3>2. stage'[application[a].at].kind = stage[application[a].at].kind
      BY <1>2, <3>1
    <3> QED BY <1>0, <3>2 DEF OtherwiseStatusMatches
  <2> QED BY <1>0, <1>2, <2>1, <2>2, Committing
<1>3. ASSUME Commits(p, {}) PROVE
        clerk' = [q \in Clerk |-> IF q = p THEN Rest
          ELSE [clerk[q] EXCEPT !.changed = clerk[q].changed \/ clerk[q].app \in {}]]
  BY <1>3 DEF Commits
<1>4. CASE ChangeKind(p)
  <2>1. CASE CallEnds(p)
    BY <2>1, Ending
  <2>2. CASE ~CallEnds(p)
    <3>1. /\ stage' = [stage EXCEPT ![s].kind = clerk[p].want] /\ Commits(p, {})
          /\ UNCHANGED <<application, overtaken>> /\ HoldsJob(p) /\ s \in Stage /\ clerk[p].want \in Status
          /\ In(s) = {} /\ HoldsRow(p, s)
      BY <1>0, <1>4, <2>2, StagePlacementAssumption
         DEF ChangeKind, Equipped, Changing, HoldsJob, HoldsRow, Rows
    <3>2. /\ [stage[s] EXCEPT !.kind = clerk[p].want] \in StageRow
          /\ [stage[s] EXCEPT !.kind = clerk[p].want].state = stage[s].state
      BY <1>0, <3>1 DEF StageRow
    <3>3. /\ stage' \in [Stage -> StageRow]
          /\ \A r \in Stage : stage'[r].state = stage[r].state
          /\ \A r \in Stage \ {s} : stage'[r].kind = stage[r].kind
      BY <1>0, <3>1, <3>2
    <3> DEFINE none == {}
    <3>4. clerk' = [q \in Clerk |-> IF q = p THEN Rest
            ELSE [clerk[q] EXCEPT !.changed = clerk[q].changed \/ clerk[q].app \in none]]
      BY <1>3, <3>1
    <3>5. none \in SUBSET Application /\ none = {}
      OBVIOUS
    <3> HIDE DEF none
    <3> QED BY <1>2, <3>1, <3>3, <3>4, <3>5
  <2> QED BY <2>1, <2>2
<1>5. CASE CreateStage(p)
  <2>1. CASE CallEnds(p)
    BY <2>1, Ending
  <2>2. CASE ~CallEnds(p)
    <3>1. PICK r \in Stage :
            /\ stage' = [stage EXCEPT ![r].state = "live", ![r].kind = clerk[p].want]
            /\ Commits(p, {}) /\ UNCHANGED <<application, overtaken>>
            /\ stage[r].state = "absent"
      BY <1>5, <2>2 DEF CreateStage
    <3>2. HoldsJob(p) /\ clerk[p].want \in Status
      BY <1>0, <1>5 DEF CreateStage, Equipped, Changing, HoldsJob
    <3> DEFINE row == [[stage[r] EXCEPT !.state = "live"] EXCEPT !.kind = clerk[p].want]
    <3>3. row \in StageRow /\ row.state = "live"
      <4>1. [stage[r] EXCEPT !.state = "live"] \in StageRow
            /\ [stage[r] EXCEPT !.state = "live"].state = "live"
        BY <1>0, <3>1 DEF StageRow
      <4> QED BY <3>2, <4>1 DEF StageRow
    <3>4. stage' = [stage EXCEPT ![r] = row]
      BY <1>0, <3>1
    <3> HIDE DEF row
    <3>5. /\ stage' \in [Stage -> StageRow] /\ stage'[r].state = "live"
          /\ \A x \in Stage \ {r} : stage'[x] = stage[x]
      BY <1>0, <3>3, <3>4
    <3> DEFINE none == {}
    <3>6. clerk' = [q \in Clerk |-> IF q = p THEN Rest
            ELSE [clerk[q] EXCEPT !.changed = clerk[q].changed \/ clerk[q].app \in none]]
      BY <1>3, <3>1
    <3>7. none \in SUBSET Application /\ none = {}
      OBVIOUS
    <3> HIDE DEF none
    <3>8. In(r) = {}
      BY <1>0, <3>1, StagePlacementAssumption DEF PlacedInLiveStage, In
    <3> QED BY <1>2, <3>1, <3>2, <3>5, <3>6, <3>7, <3>8
  <2> QED BY <2>1, <2>2
<1>6. CASE DropStage(p)
  <2>1. CASE CallEnds(p)
    BY <2>1, Ending
  <2>2. CASE ~CallEnds(p)
    <3>1. /\ stage' = [stage EXCEPT ![s].state = "absent"] /\ Commits(p, {})
          /\ UNCHANGED <<application, overtaken>> /\ HoldsJob(p) /\ s \in Stage
          /\ RowFree(s) /\ In(s) = {}
      BY <1>0, <1>6, <2>2 DEF DropStage, Equipped, Changing, HoldsJob
    <3>2. /\ [stage[s] EXCEPT !.state = "absent"] \in StageRow
          /\ [stage[s] EXCEPT !.state = "absent"].kind = stage[s].kind
      BY <1>0, <3>1 DEF StageRow
    <3>3. /\ stage' \in [Stage -> StageRow] /\ \A r \in Stage \ {s} : stage'[r] = stage[r]
          /\ stage'[s].kind = stage[s].kind
      BY <1>0, <3>1, <3>2
    <3> DEFINE none == {}
    <3>4. clerk' = [q \in Clerk |-> IF q = p THEN Rest
            ELSE [clerk[q] EXCEPT !.changed = clerk[q].changed \/ clerk[q].app \in none]]
      BY <1>3, <3>1
    <3>5. none \in SUBSET Application /\ none = {}
      OBVIOUS
    <3> HIDE DEF none
    <3> QED BY <1>2, <3>1, <3>3, <3>4, <3>5
  <2> QED BY <2>1, <2>2
<1> QED BY <1>1, <1>4, <1>5, <1>6

-----------------------------------------------------------------------------
LEMMA PlacementInitInv == PlacementInit => PlacementInv
<1> SUFFICES ASSUME PlacementInit PROVE PlacementInv
  OBVIOUS
<1>1. PICK a \in Application, s \in Stage :
        /\ Live(s, "active") /\ overtaken = {}
        /\ application = [b \in Application |->
             IF b = a THEN [at |-> s, status |-> "active"]
                      ELSE [at |-> Nowhere, status |-> Nowhere]]
  BY DEF PlacementInit
<1>2. stage \in [Stage -> StageRow] /\ clerk = [p \in Clerk |-> Rest]
  BY StagePlacementAssumption DEF PlacementInit
<1>3. /\ [at |-> s, status |-> "active"] \in Placement
      /\ [at |-> Nowhere, status |-> Nowhere] \in Placement
  BY DEF Placement, Status
<1>4. PlacementTyped
  BY <1>1, <1>2, <1>3, RestFits DEF PlacementTyped
<1>5. Locks
  BY <1>2 DEF Locks, HoldsJob, HoldsRow, HoldsApplication, Rest
<1>6. UnsentHasNoStatus /\ PlacedInLiveStage /\ OtherwiseStatusMatches
  BY <1>1, StagePlacementAssumption
     DEF UnsentHasNoStatus, PlacedInLiveStage, OtherwiseStatusMatches, Live
<1>7. \A p \in Clerk : /\ Equipped(clerk[p]) /\ Informed(clerk[p]) /\ Protected(clerk[p])
                       /\ Apart(p)
  BY <1>2, RestFits DEF Apart, Rest, Applying
<1> QED BY <1>4, <1>5, <1>6, <1>7 DEF PlacementInv

LEMMA PlacementStepKeeps == PlacementInv /\ [PlacementNext]_stageVars => PlacementInv'
<1> SUFFICES ASSUME PlacementInv, [PlacementNext]_stageVars PROVE PlacementInv'
  OBVIOUS
<1>1. CASE UNCHANGED stageVars
  <2>1. PlacementTyped' /\ UnsentHasNoStatus' /\ PlacedInLiveStage' /\ OtherwiseStatusMatches'
    BY <1>1 DEF PlacementInv, PlacementTyped, UnsentHasNoStatus, PlacedInLiveStage,
                OtherwiseStatusMatches, stageVars
  <2>2. Locks'
    BY <1>1 DEF PlacementInv, Locks, HoldsJob, HoldsRow, SharesRow, HoldsApplication, stageVars
  <2>3. ASSUME NEW p \in Clerk
        PROVE  Equipped(clerk[p])' /\ Informed(clerk[p])' /\ Protected(clerk[p])' /\ Apart(p)'
    <3>1. /\ Equipped(clerk[p]) /\ Informed(clerk[p]) /\ Protected(clerk[p]) /\ Apart(p)
          /\ clerk' = clerk /\ stage' = stage /\ application' = application
      BY <1>1 DEF PlacementInv, stageVars
    <3> QED BY <3>1 DEF Equipped, Informed, Protected, Apart, In, Live, Rows,
                        Placing, Moving, Changing, Applying, Locking
  <2> QED BY <2>1, <2>2, <2>3 DEF PlacementInv
<1>2. CASE PlacementNext
  BY <1>2, BeginKeeps, LookKeeps, UpdateKeeps, WriteKeeps, ChangeKeeps, PipelineKeeps
     DEF PlacementNext, PlacementStep, LifecycleStep
<1> QED BY <1>1, <1>2

LEMMA PlacementInductive == PlacementSpec => []PlacementInv
BY PlacementInitInv, PlacementStepKeeps, PTL DEF PlacementSpec

-----------------------------------------------------------------------------
\* No application is stranded: whichever of a placement and an archive, merge or deletion
\* commits first, every application is in a live stage (lockStageForPlacement,
\* lockStageRows and the trigger enforce_application_stage_active).
THEOREM NeverStranded == PlacementSpec => []PlacedInLiveStage
<1>1. PlacementInv => PlacedInLiveStage
  BY DEF PlacementInv
<1> QED BY <1>1, PlacementInductive, PTL

\* Status and stage agree, however many calls race and wait for each other, but for an
\* application that was filed while its entry stage became an outcome (setApplicationStatus,
\* updateStage, archiveStage).
THEOREM StatusFollowsStage == PlacementSpec => []OtherwiseStatusMatches
<1>1. PlacementInv => OtherwiseStatusMatches
  BY DEF PlacementInv
<1> QED BY <1>1, PlacementInductive, PTL

\* A row of history names the stage that the application leaves: what was read is either
\* still so at the write or the guarded update finds no row (fromStageId).
THEOREM HistoryNamesTheStageLeft == PlacementSpec => HistoryIsChained
<1> DEFINE Chained(a) ==
      application[a].at \notin {Nowhere, application'[a].at}
        => \E p \in Clerk : /\ clerk[p].phase \in {"trail", "place", "merge"} /\ clerk'[p] = Rest
                            /\ clerk[p].from = application[a].at
<1>1. PlacementInv /\ [PlacementNext]_stageVars
        => [\A a \in Application : Chained(a)]_stageVars
  <2> SUFFICES ASSUME PlacementInv, PlacementNext, NEW a \in Application,
                      application[a].at \notin {Nowhere, application'[a].at}
               PROVE  \E p \in Clerk : /\ clerk[p].phase \in {"trail", "place", "merge"}
                                       /\ clerk'[p] = Rest
                                       /\ clerk[p].from = application[a].at
    OBVIOUS
  <2>0. \A p \in Clerk : /\ clerk[p] \in ClerkCall /\ Equipped(clerk[p]) /\ Informed(clerk[p])
                         /\ a \in Application
    BY DEF PlacementInv, PlacementTyped
  <2>5. \A p \in Clerk : Protected(clerk[p])
    BY DEF PlacementInv
  <2>2. application' # application
    OBVIOUS
  <2>1. PICK p \in Clerk : WriteTrail(p) \/ Place(p) \/ ReferenceJob(p) \/ Merge(p)
    <3>1. \A p, x : ~CallBegins(p, x) /\ ~CallGoesOn(p, x)
      BY <2>2 DEF CallBegins, CallGoesOn
    <3>2. \A p \in Clerk, b \in Application :
            /\ ~BeginReopen(p, b) /\ ~BeginApply(p, b)
            /\ \A s \in Stage : ~BeginMove(p, b, s)
            /\ \A outcome \in EndStatus : ~BeginDecide(p, b, outcome)
      BY <3>1 DEF BeginReopen, BeginApply, BeginMove, BeginDecide
    <3>3. \A p \in Clerk, s \in Stage :
            /\ ~BeginDelete(p, s)
            /\ \A t \in Stage \cup {Nowhere} : ~BeginArchive(p, s, t)
            /\ \A kind \in Status : ~BeginKind(p, s, kind)
      BY <3>1 DEF BeginDelete, BeginArchive, BeginKind
    <3>4. \A p \in Clerk, kind \in Status : ~BeginCreate(p, kind)
      BY <3>1 DEF BeginCreate
    <3>5. ASSUME NEW p \in Clerk
          PROVE  /\ ~LockTarget(p) /\ ~Glance(p) /\ ~ChooseStage(p) /\ ~ShareJob(p)
                 /\ ~ChooseEntry(p) /\ ~InsertApplication(p) /\ ~Write(p)
      <4>1. ~LockTarget(p)
        BY <3>1 DEF LockTarget, CallEnds
      <4>2. ~Glance(p) /\ ~ChooseStage(p) /\ ~ShareJob(p)
        BY <3>1 DEF Glance, ChooseStage, ShareJob, CallEnds
      <4> QED BY <3>1, <4>1, <4>2 DEF ChooseEntry, InsertApplication, Write, CallEnds
    <3>6. ASSUME NEW p \in Clerk
          PROVE  /\ ~LockJob(p) /\ (\A s : ~LockRow(p, s)) /\ ~RowsLocked(p)
                 /\ ~CheckArchive(p) /\ ~Rank(p) /\ ~CheckDelete(p) /\ ~Abort(p)
      BY <3>1 DEF LockJob, LockRow, RowsLocked, CheckArchive, Rank, CheckDelete, Abort, CallEnds
    <3>7. \A p \in Clerk : ~ChangeKind(p) /\ ~CreateStage(p) /\ ~DropStage(p)
      BY <2>2, <3>1 DEF ChangeKind, CreateStage, DropStage, CallEnds
    <3> QED BY <3>2, <3>3, <3>4, <3>5, <3>6, <3>7 DEF PlacementNext, PlacementStep, LifecycleStep
  <2>3. CASE WriteTrail(p) \/ Place(p) \/ ReferenceJob(p)
    <3>1. application' = Mutates(p) /\ Commits(p, {clerk[p].app})
      BY <2>2, <2>3 DEF WriteTrail, Place, ReferenceJob, CallEnds, CallGoesOn
    <3>2. clerk[p].app \in Application /\ clerk[p].to \in Stage
          /\ clerk[p].phase \in {"trail", "place", "stay", "reference"}
      BY <2>0, <2>3 DEF WriteTrail, Place, ReferenceJob, Equipped, Placing, Moving
    <3>3. a = clerk[p].app /\ application'[a].at = clerk[p].to
      BY <2>0, <3>1, <3>2, Mutating
    <3>4. clerk[p].phase # "reference"
      BY <2>0, <3>3 DEF Informed, Applying
    <3>5. ~clerk[p].changed
      BY <2>0, <2>2, <2>3, <3>4 DEF WriteTrail, Place, ReferenceJob, UnchangedSince, Informed, CallEnds, CallGoesOn
    <3>6. application[a].at = clerk[p].from
      BY <2>0, <3>2, <3>3, <3>4, <3>5 DEF Informed
    <3>7. clerk[p].phase # "stay"
      BY <2>0, <3>3, <3>6 DEF Informed
    <3>8. clerk'[p] = Rest
      BY <3>1 DEF Commits
    <3> QED BY <3>2, <3>4, <3>6, <3>7, <3>8
  <2>4. CASE Merge(p)
    <3>1. a \in clerk[p].moving
      BY <2>0, <2>4 DEF Merge
    <3>2. a \in In(clerk[p].from)
      BY <2>4, <2>5, <3>1 DEF Merge, Protected
    <3>3. clerk'[p] = Rest /\ clerk[p].phase = "merge"
      BY <2>4 DEF Merge, Commits
    <3> QED BY <3>2, <3>3 DEF In
  <2> QED BY <2>1, <2>3, <2>4
<1> QED BY <1>1, PlacementInductive, PTL DEF PlacementSpec, HistoryIsChained

-----------------------------------------------------------------------------
(* The calls and the aborts of a pipeline.                                 *)

\* The counters of the calls: an archive that is a victim again has an attempt left.
PlacementCounted ==
  /\ calls \in 0 .. MaxCalls /\ overtaken \subseteq Application
  /\ \A p \in Clerk : clerk[p].aborts < MaxAborts

LEMMA GoesOnCounted ==
  ASSUME PlacementTyped, PlacementCounted, NEW p \in Clerk, NEW x, CallGoesOn(p, x),
         x.aborts < MaxAborts
  PROVE  PlacementCounted'
BY DEF PlacementTyped, PlacementCounted, CallGoesOn

LEMMA EndCounted ==
  ASSUME PlacementTyped, PlacementCounted, NEW p \in Clerk, CallEnds(p)
  PROVE  PlacementCounted'
<1>1. Rest.aborts < MaxAborts
  BY StagePlacementAssumption, RestFields
<1> QED BY <1>1, GoesOnCounted DEF CallEnds

LEMMA BeginCounted ==
  ASSUME PlacementTyped, PlacementCounted, NEW p \in Clerk, NEW x,
         clerk' = [clerk EXCEPT ![p] = x], x.aborts = 0,
         calls < MaxCalls, calls' = calls + 1, UNCHANGED overtaken
  PROVE  PlacementCounted'
<1>1. calls' \in 0 .. MaxCalls
  BY StagePlacementAssumption DEF PlacementCounted
<1>2. \A q \in Clerk : clerk'[q].aborts < MaxAborts
  BY StagePlacementAssumption DEF PlacementTyped, PlacementCounted
<1> QED BY <1>1, <1>2 DEF PlacementCounted

LEMMA CommitCounted ==
  ASSUME PlacementTyped, PlacementCounted, NEW p \in Clerk, NEW m, Commits(p, m),
         overtaken' \subseteq Application
  PROVE  PlacementCounted'
<1>1. ASSUME NEW q \in Clerk PROVE clerk'[q].aborts < MaxAborts
  <2>1. CASE q = p
    BY <2>1, StagePlacementAssumption, RestFields DEF Commits
  <2>2. CASE q # p
    <3>1. clerk'[q] = [clerk[q] EXCEPT !.changed = @ \/ clerk[q].app \in m]
      BY <2>2 DEF Commits
    <3>2. clerk[q] \in ClerkCall
      BY DEF PlacementTyped
    <3> QED BY <3>1, <3>2 DEF PlacementCounted, ClerkCall
  <2> QED BY <2>1, <2>2
<1> QED BY <1>1 DEF PlacementCounted, Commits

LEMMA BeginsCounted ==
  ASSUME PlacementTyped, PlacementCounted, NEW p \in Clerk,
         \/ \E a \in Application :
              \/ BeginReopen(p, a) \/ BeginApply(p, a)
              \/ \E t \in Stage : BeginMove(p, a, t)
              \/ \E outcome \in EndStatus : BeginDecide(p, a, outcome)
         \/ \E s \in Stage :
              \/ BeginDelete(p, s)
              \/ \E t \in Stage \cup {Nowhere} : BeginArchive(p, s, t)
         \/ \E kind \in Status : BeginCreate(p, kind) \/ \E s \in Stage : BeginKind(p, s, kind)
  PROVE  PlacementCounted'
<1> DEFINE Begun(x) == /\ calls < MaxCalls /\ calls' = calls + 1 /\ UNCHANGED overtaken
                      /\ clerk' = [clerk EXCEPT ![p] = x]
<1>0. ASSUME NEW x, x.aborts = 0, Begun(x)
      PROVE  PlacementCounted'
  BY <1>0, BeginCounted
<1>1. ASSUME NEW a \in Application, BeginReopen(p, a)
      PROVE  PlacementCounted'
  <2> DEFINE x == [Rest EXCEPT !.op = "reopen", !.phase = "glance", !.app = a,
                            !.from = application[a].at, !.want = "active"]
  <2>1. x.aborts = 0
    BY RestFields DEF ClerkCall
  <2>2. Begun(x)
    BY <1>1 DEF BeginReopen, CallBegins
  <2> HIDE DEF x, Begun
  <2> QED BY <1>0, <2>1, <2>2
<1>2. ASSUME NEW a \in Application, BeginApply(p, a)
      PROVE  PlacementCounted'
  <2> DEFINE x == [Rest EXCEPT !.op = "apply", !.phase = "entry", !.app = a, !.want = "active"]
             y == [Rest EXCEPT !.op = "apiApply", !.phase = "share", !.app = a, !.want = "active"]
  <2>1. x.aborts = 0 /\ y.aborts = 0
    BY RestFields DEF ClerkCall
  <2>2. Begun(x) \/ Begun(y)
    BY <1>2 DEF BeginApply, CallBegins
  <2> HIDE DEF x, y, Begun
  <2> QED BY <1>0, <2>1, <2>2
<1>3. ASSUME NEW a \in Application, NEW outcome \in EndStatus, BeginDecide(p, a, outcome)
      PROVE  PlacementCounted'
  <2> DEFINE x == [Rest EXCEPT !.op = "decide", !.phase = "choose", !.app = a,
                            !.from = application[a].at, !.want = outcome]
  <2>1. x.aborts = 0
    BY RestFields DEF ClerkCall
  <2>2. Begun(x)
    BY <1>3 DEF BeginDecide, CallBegins
  <2> HIDE DEF x, Begun
  <2> QED BY <1>0, <2>1, <2>2
<1>4. ASSUME NEW s \in Stage, BeginDelete(p, s)
      PROVE  PlacementCounted'
  <2> DEFINE x == [Rest EXCEPT !.op = "delete", !.phase = "lifecycle", !.from = s]
  <2>1. x.aborts = 0
    BY RestFields DEF ClerkCall
  <2>2. Begun(x)
    BY <1>4 DEF BeginDelete, CallBegins
  <2> HIDE DEF x, Begun
  <2> QED BY <1>0, <2>1, <2>2
<1>5. ASSUME NEW s \in Stage, NEW t \in Stage \cup {Nowhere}, BeginArchive(p, s, t)
      PROVE  PlacementCounted'
  <2> DEFINE x == [Rest EXCEPT !.op = "archive", !.phase = "lifecycle", !.from = s, !.to = t]
  <2>1. x.aborts = 0
    BY RestFields DEF ClerkCall
  <2>2. Begun(x)
    BY <1>5 DEF BeginArchive, CallBegins
  <2> HIDE DEF x, Begun
  <2> QED BY <1>0, <2>1, <2>2
<1>6. ASSUME NEW kind \in Status, BeginCreate(p, kind)
      PROVE  PlacementCounted'
  <2> DEFINE x == [Rest EXCEPT !.op = "create", !.phase = "lifecycle", !.want = kind]
  <2>1. x.aborts = 0
    BY RestFields DEF ClerkCall
  <2>2. Begun(x)
    BY <1>6 DEF BeginCreate, CallBegins
  <2> HIDE DEF x, Begun
  <2> QED BY <1>0, <2>1, <2>2
<1>7. ASSUME NEW kind \in Status, NEW s \in Stage, BeginKind(p, s, kind)
      PROVE  PlacementCounted'
  <2> DEFINE x == [Rest EXCEPT !.op = "kind", !.phase = "lifecycle", !.from = s, !.want = kind]
  <2>1. x.aborts = 0
    BY RestFields DEF ClerkCall
  <2>2. Begun(x)
    BY <1>7 DEF BeginKind, CallBegins
  <2> HIDE DEF x, Begun
  <2> QED BY <1>0, <2>1, <2>2
<1>8. ASSUME NEW a \in Application, NEW t \in Stage, BeginMove(p, a, t)
      PROVE  PlacementCounted'
  <2>1. PICK op \in {"move", "board", "bulk"} :
          Begun([Rest EXCEPT !.op = op, !.phase = "target", !.app = a,
                             !.from = application[a].at, !.to = t])
    BY <1>8 DEF BeginMove, CallBegins
  <2> DEFINE x == [Rest EXCEPT !.op = op, !.phase = "target", !.app = a,
                               !.from = application[a].at, !.to = t]
  <2>2. x.aborts = 0
    BY RestFields DEF ClerkCall
  <2>3. Begun(x)
    BY <2>1
  <2> HIDE DEF x, Begun
  <2> QED BY <1>0, <2>2, <2>3
<1> QED BY <1>1, <1>2, <1>3, <1>4, <1>5, <1>6, <1>7, <1>8

LEMMA PlacementStepCounted ==
  ASSUME PlacementTyped, PlacementCounted, NEW p \in Clerk, Equipped(clerk[p]),
         PlacementStep(p)
  PROVE  PlacementCounted'
<1>0. clerk[p] \in ClerkCall /\ clerk[p].aborts < MaxAborts
  BY DEF PlacementTyped, PlacementCounted
<1>1. CASE \E x : CallGoesOn(p, x) /\ x.aborts = clerk[p].aborts
  BY <1>0, <1>1, GoesOnCounted
<1>2. CASE CallEnds(p)
  BY <1>2, EndCounted
<1>3. CASE \E m : Commits(p, m) /\ overtaken' \subseteq Application
  BY <1>3, CommitCounted
<1>4. CASE LockTarget(p)
  <2> DEFINE c == clerk[p]
             at == application[c.app].at
             read == CASE c.op = "move" -> c
                       [] c.op = "board" -> [c EXCEPT !.changed = at # c.from]
                       [] c.op = "bulk" -> [c EXCEPT !.changed = FALSE, !.from = at]
             x == [read EXCEPT !.phase = "write", !.want = stage[c.to].kind]
  <2>1. c.op \in {"move", "board", "bulk"}
    BY <1>4 DEF LockTarget, Equipped
  <2>2. x.aborts = clerk[p].aborts
    BY <1>0, <2>1 DEF ClerkCall
  <2>3. CallGoesOn(p, x) \/ CallEnds(p)
    BY <1>4 DEF LockTarget
  <2> QED BY <1>1, <1>2, <2>2, <2>3
<1>5. CASE Glance(p) \/ ShareJob(p) \/ InsertApplication(p) \/ Write(p)
  <2> DEFINE stays == [clerk[p] EXCEPT !.phase = "stay", !.to = clerk[p].from]
             to(phase) == [clerk[p] EXCEPT !.phase = phase]
  <2>1. stays.aborts = clerk[p].aborts /\ \A phase : to(phase).aborts = clerk[p].aborts
    BY <1>0 DEF ClerkCall
  <2>2. \/ CallEnds(p) \/ CallGoesOn(p, stays)
        \/ \E phase \in {"choose", "entry", "reference", "trail"} : CallGoesOn(p, to(phase))
    BY <1>5 DEF Glance, ShareJob, InsertApplication, Write
  <2> HIDE DEF stays, to
  <2> QED BY <1>1, <1>2, <2>1, <2>2
<1>6. CASE ChooseStage(p) \/ ChooseEntry(p)
  <2> DEFINE at(phase, s) == [clerk[p] EXCEPT !.phase = phase, !.to = s]
  <2>1. \A phase, s : at(phase, s).aborts = clerk[p].aborts
    BY <1>0 DEF ClerkCall
  <2>2. CallEnds(p) \/ \E phase \in {"place", "insert"}, s \in Stage : CallGoesOn(p, at(phase, s))
    BY <1>6 DEF ChooseStage, ChooseEntry
  <2> HIDE DEF at
  <2> QED BY <1>1, <1>2, <2>1, <2>2
<1>7. CASE WriteTrail(p) \/ Place(p)
  <2>1. CallEnds(p) \/ (Commits(p, {clerk[p].app}) /\ UNCHANGED overtaken)
    BY <1>7 DEF WriteTrail, Place
  <2> QED BY <1>2, <1>3, <2>1 DEF PlacementCounted
<1>8. CASE ReferenceJob(p)
  <2>1. clerk[p].app \in Application
    BY <1>8 DEF ReferenceJob, Equipped, Placing, Moving
  <2>2. Commits(p, {clerk[p].app}) /\ overtaken' \subseteq Application
    BY <1>8, <2>1 DEF ReferenceJob, PlacementCounted
  <2> QED BY <1>3, <2>2
<1> QED BY <1>4, <1>5, <1>6, <1>7, <1>8 DEF PlacementStep

LEMMA LifecycleStepCounted ==
  ASSUME PlacementTyped, PlacementCounted, NEW p \in Clerk,
         LifecycleStep(p) \/ Abort(p)
  PROVE  PlacementCounted'
<1>0. clerk[p] \in ClerkCall /\ clerk[p].aborts < MaxAborts
  BY DEF PlacementTyped, PlacementCounted
<1>1. CASE \E x : CallGoesOn(p, x) /\ x.aborts < MaxAborts
  BY <1>1, GoesOnCounted
<1>2. CASE CallEnds(p)
  BY <1>2, EndCounted
<1>3. CASE \E m : Commits(p, m) /\ overtaken' \subseteq Application
  BY <1>3, CommitCounted
<1>4. CASE LockJob(p) \/ RowsLocked(p) \/ CheckArchive(p) \/ Rank(p) \/ CheckDelete(p)
  <2> DEFINE to(phase) == [clerk[p] EXCEPT !.phase = phase]
             ranked == [clerk[p] EXCEPT !.phase = "merge", !.moving = In(clerk[p].from)]
  <2>1. ranked.aborts < MaxAborts /\ \A phase : to(phase).aborts < MaxAborts
    BY <1>0 DEF ClerkCall
  <2>2. \/ CallEnds(p) \/ CallGoesOn(p, ranked)
        \/ \E phase \in {"rows", "check", "merge", "rank", "drop"} : CallGoesOn(p, to(phase))
    BY <1>4 DEF LockJob, RowsLocked, CheckArchive, Rank, CheckDelete
  <2> HIDE DEF to, ranked
  <2> QED BY <1>1, <1>2, <2>1, <2>2
<1>5. CASE Merge(p)
  <2>1. Commits(p, clerk[p].moving) /\ overtaken' \subseteq Application
    BY <1>5 DEF Merge, PlacementCounted
  <2> QED BY <1>3, <2>1
<1>6. CASE ChangeKind(p) \/ CreateStage(p) \/ DropStage(p)
  <2>1. CallEnds(p) \/ (Commits(p, {}) /\ UNCHANGED overtaken)
    BY <1>6 DEF ChangeKind, CreateStage, DropStage
  <2> QED BY <1>2, <1>3, <2>1 DEF PlacementCounted
<1>7. CASE Abort(p)
  <2>1. CASE CallEnds(p)
    BY <1>2, <2>1
  <2>2. CASE ~CallEnds(p)
    <3> DEFINE x == [clerk[p] EXCEPT !.phase = "lifecycle", !.locked = {}, !.moving = {},
                                     !.aborts = clerk[p].aborts + 1]
    <3>1. clerk[p].aborts + 1 < MaxAborts /\ CallGoesOn(p, x)
      BY <1>7, <2>2 DEF Abort
    <3>2. x.aborts = clerk[p].aborts + 1
      BY <1>0 DEF ClerkCall
    <3> HIDE DEF x
    <3> QED BY <1>1, <3>1, <3>2
  <2> QED BY <2>1, <2>2
<1>8. ASSUME NEW s \in Stage, LockRow(p, s)
      PROVE  PlacementCounted'
  <2> DEFINE x == [clerk[p] EXCEPT !.locked = clerk[p].locked \cup {s}]
  <2>1. CallGoesOn(p, x) /\ x.aborts = clerk[p].aborts
    BY <1>0, <1>8 DEF LockRow, ClerkCall
  <2> HIDE DEF x
  <2> QED BY <1>0, <1>1, <2>1
<1> QED BY <1>4, <1>5, <1>6, <1>7, <1>8 DEF LifecycleStep

LEMMA PlacementCountedStep ==
  PlacementInv /\ PlacementCounted /\ [PlacementNext]_stageVars => PlacementCounted'
<1> SUFFICES ASSUME PlacementInv, PlacementCounted, [PlacementNext]_stageVars
             PROVE  PlacementCounted'
  OBVIOUS
<1>1. CASE UNCHANGED stageVars
  BY <1>1 DEF PlacementCounted, stageVars
<1>2. CASE PlacementNext
  <2>1. PlacementTyped /\ \A p \in Clerk : Equipped(clerk[p])
    BY DEF PlacementInv
  <2> QED BY <1>2, <2>1, BeginsCounted, PlacementStepCounted, LifecycleStepCounted
             DEF PlacementNext
<1> QED BY <1>1, <1>2

LEMMA PlacementInitCounted == PlacementInit => PlacementCounted
BY StagePlacementAssumption, RestFields DEF PlacementInit, PlacementCounted

LEMMA PlacementTypes == PlacementInv /\ PlacementCounted => PlacementTypeOK
<1> SUFFICES ASSUME PlacementInv, PlacementCounted PROVE PlacementTypeOK
  OBVIOUS
<1> DEFINE bounded == [op: Ops, phase: ClerkPhases, app: Application \cup {Nowhere},
                       from: Stage \cup {Nowhere}, to: Stage \cup {Nowhere},
                       want: Status \cup {Nowhere}, changed: BOOLEAN,
                       locked: SUBSET Stage, moving: SUBSET Application,
                       aborts: 0 .. MaxAborts]
<1>1. ASSUME NEW p \in Clerk PROVE clerk[p] \in bounded
  <2>1. clerk[p] \in ClerkCall /\ clerk[p].aborts < MaxAborts
    BY DEF PlacementInv, PlacementTyped, PlacementCounted
  <2>2. clerk[p].aborts \in 0 .. MaxAborts
    BY <2>1, StagePlacementAssumption DEF ClerkCall
  <2> QED BY <2>1, <2>2 DEF ClerkCall
<1>2. clerk \in [Clerk -> bounded]
  BY <1>1 DEF PlacementInv, PlacementTyped
<1> QED BY <1>2 DEF PlacementInv, PlacementTyped, PlacementCounted, PlacementTypeOK, Placement

\* Rows, calls and locks keep their domains, and an archive that is a deadlock victim is
\* tried MaxAborts times at most (archiveStage's retry).
THEOREM VictimsAreBounded == PlacementSpec => []PlacementTypeOK
<1>1. PlacementSpec => [](PlacementInv /\ PlacementCounted)
  BY PlacementInitInv, PlacementStepKeeps, PlacementInitCounted, PlacementCountedStep, PTL DEF PlacementSpec
<1> QED BY <1>1, PlacementTypes, PTL
=============================================================================
