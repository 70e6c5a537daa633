--------------------------- MODULE WorkflowRunInv ---------------------------
(***************************************************************************)
(* The inductive invariant behind NoBlindReplay: what the fences, the      *)
(* cursor, the retry intent and the rows of a node have to say about each  *)
(* other for a second effect of one node to be impossible.                 *)
(***************************************************************************)
EXTENDS WorkflowRun

\* An attempt of n was reserved, its effect has not started and still may.
Pending(w, n) ==
  worker[w].node = n /\ worker[w].pc \in {"policy", "permit", "release"}

\* Every effect of n that started is a persisted failure, and none is pending.
Clean(n) == calls[n] <= failures[n] /\ \A w \in Worker : ~Pending(w, n)

Unclaimed == {"idle", "claim", "claimWait"}
OnNode == {"wait", "reserve", "evaluate", "policy", "permit", "calling",
           "release", "settle"}

\* A fence names one claim: no two workers hold the same one.
FencesDistinct ==
  \A w \in Worker :
    /\ worker[w].fence <= run.fence
    /\ worker[w].pc \notin Unclaimed => worker[w].fence > 0
    /\ \A v \in Worker \ {w} :
         worker[w].fence > 0 => worker[v].fence # worker[w].fence

\* The lease holder works on the node the cursor is at.
HolderAtCursor ==
  \A w \in Worker :
    Valid(w) /\ worker[w].pc \in OnNode => worker[w].node = run.cursor

\* Only known failures are worth another attempt.
RetryableIsFailed ==
  \A w \in Worker : worker[w].outcome.retryable => worker[w].outcome.status = "failed"

\* A worker only settles an outcome it has seen.
OutcomeKnown ==
  \A w \in Worker : worker[w].pc = "settle" => worker[w].outcome.status # "none"

\* A failed node is worked on again only under durable retry intent.
RetryIsIntended ==
  \A w \in Worker :
    Valid(w) /\ worker[w].pc = "reserve" /\ exec[worker[w].node].status = "failed"
      => run.retryNode = worker[w].node

\* The holder that schedules a retry has just persisted a retryable failure.
RetryHasEvidence ==
  \A w \in Worker :
    Valid(w) /\ worker[w].pc = "retry"
      => exec[run.cursor].status = "failed" /\ exec[run.cursor].retryable

\* A run that ended in doubt carries no retry intent into its resolution.
DoubtDropsIntent == run.status = "uncertain" => run.retryNode = None

\* The effects of a node never outrun its persisted failures by more than one.
CallsAccounted ==
  \A n \in Node :
    /\ calls[n] <= failures[n] + 1
    /\ \A w \in Worker :
         Pending(w, n) =>
           /\ calls[n] <= failures[n]
           /\ \A v \in Worker \ {w} : ~Pending(v, n)
           /\ exec[n].status = "running" => worker[w].fence = attempt[n].fence
    /\ exec[n].status = "none" => Clean(n)
    /\ exec[n].status = "failed" /\ (exec[n].retryable \/ run.retryNode = n) => Clean(n)

\* What the proof of NoBlindReplay carries from step to step.
IInv ==
  /\ TypeOK /\ FencesDistinct /\ HolderAtCursor /\ RetryableIsFailed
  /\ OutcomeKnown /\ RetryIsIntended /\ RetryHasEvidence /\ DoubtDropsIntent
  /\ CallsAccounted
=============================================================================
