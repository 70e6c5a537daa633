----------------------- MODULE WorkflowRunRefinement -----------------------
(***************************************************************************)
(* The durable, leased, retried execution of WorkflowRun is an execution   *)
(* of the sequential run: forget who works and under which lease, and what *)
(* is left is one token and one recorded outcome per node.                 *)
(***************************************************************************)
EXTENDS WorkflowRunInv

RecordedStatus(n) ==
  IF exec[n].status \in {"none", "running", "waiting"} THEN "pending" ELSE exec[n].status

Phase == IF run.status \in Active THEN "open" ELSE run.status

Recorded == [n \in Node |-> [status |-> RecordedStatus(n), port |-> exec[n].port]]

Sequential ==
  INSTANCE SequentialRun WITH status <- Phase, cursor <- run.cursor, outcome <- Recorded

\* However workers, resolvers, operators and the clock interleave, only the node at
\* the cursor gains an outcome, a settled node keeps it, the cursor leaves by the
\* port of that outcome, and a run ends well only at an end node.
RefinesSequentialRun == Sequential!SeqSpec

-----------------------------------------------------------------------------
(* Why it does: what the rows, the cursor, the workers and a cancellation  *)
(* say about each other.                                                   *)

\* Work is open, or in doubt, only at the cursor.
RowsAtCursor ==
  \A n \in Node : exec[n].status \in {"running", "waiting", "uncertain"} => n = run.cursor

\* Only a succeeded node names a port, and a row is one its kind of node can have.
RowsFit ==
  \A n \in Node :
    /\ exec[n].status # "succeeded" => exec[n].port = "none"
    /\ exec[n].status # "none" => Kind[n] \in WaitKinds \cup {"condition", "action"}
    /\ exec[n].status \in {"running", "failed", "uncertain"}
         => Kind[n] \in {"condition", "action"}
    /\ exec[n].status = "waiting" => Kind[n] \in WaitKinds

\* A worker works on a node of the kind its step is for, and holds an outcome it may have.
FitsItsNode(w) ==
  LET n == worker[w].node
      o == worker[w].outcome
  IN /\ worker[w].pc = "wait" => Kind[n] \in WaitKinds
     /\ worker[w].pc = "reserve" => Kind[n] \in {"condition", "action"}
     /\ worker[w].pc = "evaluate" => Kind[n] = "condition"
     /\ worker[w].pc \in {"policy", "permit", "calling", "release"} => Kind[n] = "action"
     /\ worker[w].pc = "settle" =>
          /\ Kind[n] \in {"condition", "action"}
          /\ [status |-> o.status, port |-> o.port] \in Sequential!OutcomeOf(n)

WorkFits == \A w \in Worker : FitsItsNode(w)

\* A cancel request gives up a wait only together with the run.
ParkedEndsRun == canceller.parked => canceller.terminal

\* A finished run has no lease.
FinishedIsReleased == run.status \in FinishStatuses => ~run.live

\* A lease taken for a cancellation sees the cancellation as long as it is valid, and
\* works on nothing.
CancelOnlySees == \A w \in Worker : Valid(w) /\ worker[w].cancelOnly => run.cancel

CancelOnlyIdles == \A w \in Worker : worker[w].pc \in OnNode => ~worker[w].cancelOnly

SInv ==
  /\ RowsAtCursor /\ RowsFit /\ WorkFits /\ ParkedEndsRun
  /\ FinishedIsReleased /\ CancelOnlySees /\ CancelOnlyIdles
=============================================================================
