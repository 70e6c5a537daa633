--------------------------- MODULE SequentialRun ---------------------------
(***************************************************************************)
(* What the engine promises about one run, with nothing of how it keeps    *)
(* the promise: a single token walks the published graph, one node at a    *)
(* time, and the only choices left open are the outcome of the work at the *)
(* token and the operator's commands.  There are no workers, leases,       *)
(* fences, timers or crashes here; WorkflowRun is shown to implement it.   *)
(***************************************************************************)
EXTENDS WorkflowGraph

VARIABLES
  status,   \* "open", or one of FinishStatuses
  cursor,   \* the node the token is at
  outcome   \* what is recorded of each node: a status and the port taken

seqVars == <<status, cursor, outcome>>

Unsettled == [status |-> "pending", port |-> "none"]

\* The outcomes an executor, a clock or an answer may give the node at the token.
OutcomeOf(n) ==
  [status : {"succeeded"}, port : IF Kind[n] = "action" THEN {"success"} ELSE PortsOf(n)]
    \cup [status : IF Kind[n] \in WaitKinds THEN {} ELSE {"failed"}, port : {"none"}]
    \cup [status : IF Kind[n] \in {"condition", "action"} THEN {"uncertain"} ELSE {},
          port : {"none"}]

SeqInit ==
  /\ status = "open" /\ cursor = Entry
  /\ outcome = [n \in Node |-> Unsettled]

\* Only the node at the token is worked on, and only until it has an outcome.
Work ==
  /\ status = "open" /\ outcome[cursor] = Unsettled
  /\ \E o \in OutcomeOf(cursor) : outcome' = [outcome EXCEPT ![cursor] = o]
  /\ UNCHANGED <<status, cursor>>

\* A known failure may be attempted again, nothing else may.
Reattempt ==
  /\ status = "open" /\ outcome[cursor].status = "failed"
  /\ outcome' = [outcome EXCEPT ![cursor] = Unsettled]
  /\ UNCHANGED <<status, cursor>>

LeavingPorts ==
  IF Kind[cursor] = "trigger" THEN {"next"}
  ELSE CASE outcome[cursor].status = "succeeded" -> {outcome[cursor].port}
         [] outcome[cursor].status = "failed"    -> FailurePort(cursor)
         [] OTHER                                -> {}

Move ==
  /\ status = "open"
  /\ \E p \in LeavingPorts : cursor' = Target[cursor][p]
  /\ UNCHANGED <<status, outcome>>

\* A good end is only reached at an end node, doubt only ends a run in doubt.
Finish(s) ==
  /\ status = "open" /\ status' = s
  /\ CASE s = "stopped"                 -> Kind[cursor] = "stop"
       [] s = "succeeded"               -> Kind[cursor] = "end" /\ ~HasWarnings(outcome)
       [] s = "completed_with_warnings" -> Kind[cursor] = "end" /\ HasWarnings(outcome)
       [] s = "uncertain"               -> outcome[cursor].status = "uncertain"
       [] OTHER                         -> TRUE
  /\ UNCHANGED <<cursor, outcome>>

\* A cancelled run may give up the wait it is parked on.
Cancel ==
  /\ status = "open" /\ status' = "cancelled"
  /\ \/ UNCHANGED outcome
     \/ /\ Kind[cursor] \in WaitKinds /\ outcome[cursor] = Unsettled
        /\ outcome' = [outcome EXCEPT ![cursor].status = "cancelled"]
  /\ UNCHANGED cursor

Retry ==
  /\ status = "failed" /\ \E n \in Node : outcome[n].status = "failed"
  /\ status' = "open"
  /\ UNCHANGED <<cursor, outcome>>

\* Doubt is only lifted by an operator, and never into another attempt.
Resolve ==
  /\ status = "uncertain" /\ status' = "open"
  /\ Kind[cursor] = "action" /\ outcome[cursor].status = "uncertain"
  /\ \E o \in OutcomeOf(cursor) :
       o.status # "uncertain" /\ outcome' = [outcome EXCEPT ![cursor] = o]
  /\ UNCHANGED cursor

SeqNext ==
  \/ Work \/ Reattempt \/ Move \/ Cancel \/ Retry \/ Resolve
  \/ \E s \in FinishStatuses : Finish(s)

SeqSpec == SeqInit /\ [][SeqNext]_seqVars
=============================================================================
