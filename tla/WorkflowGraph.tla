--------------------------- MODULE WorkflowGraph ---------------------------
(***************************************************************************)
(* A published workflow graph and the pure decision the durable runtime    *)
(* takes at its cursor (features/automations/runtime/advance.ts).          *)
(*                                                                         *)
(* The graph is data: a kind per node, a target per node and port, and a   *)
(* failure policy per action.  The decision reads the run row (cursor,     *)
(* cancellation, retry intent) and the node-execution rows, and nothing    *)
(* else, so it is stated here as three operators of a run and its rows.    *)
(* Publication validates that every output port is connected               *)
(* (definition/validate.ts), hence GraphAssumption.                        *)
(***************************************************************************)
CONSTANTS
  Node,            \* node ids of the published graph
  Entry,           \* the trigger node
  Kind,            \* Kind[n]: what the node does
  Target,          \* Target[n][p]: the node the edge from port p leads to
  FailurePolicy    \* FailurePolicy[n]: "stop", "continue" or "route_error"

Kinds == {"trigger", "condition", "action", "delay", "approval", "event",
          "end", "stop"}

WaitKinds == {"delay", "approval", "event"}

\* Waits that another actor answers; a delay is only ended by the clock.
AnsweredKinds == {"approval", "event"}

PortsOf(n) ==
  CASE Kind[n] = "trigger"   -> {"next"}
    [] Kind[n] = "condition" -> {"true", "false"}
    [] Kind[n] = "action"    -> IF FailurePolicy[n] = "route_error"
                                THEN {"success", "error"} ELSE {"success"}
    [] Kind[n] = "delay"     -> {"elapsed"}
    [] Kind[n] = "approval"  -> {"approved", "rejected", "expired"}
    [] Kind[n] = "event"     -> {"matched", "expired"}
    [] OTHER                 -> {}

Ports == {"next", "true", "false", "success", "error", "elapsed", "approved",
          "rejected", "expired", "matched"}

ASSUME GraphAssumption ==
  /\ Entry \in Node
  /\ Kind \in [Node -> Kinds]
  /\ FailurePolicy \in [Node -> {"stop", "continue", "route_error"}]
  /\ \A n \in Node : \A p \in PortsOf(n) : Target[n][p] \in Node

FinishStatuses == {"succeeded", "completed_with_warnings", "stopped", "failed",
                   "uncertain", "cancelled"}

(***************************************************************************)
(* advance(): cancellation first, then the kind of the node, then the      *)
(* persisted outcome of the node.  A failed outcome under durable retry    *)
(* intent asks for the same work again; otherwise the failure policy of    *)
(* the action chooses a port or ends the run.                              *)
(***************************************************************************)

RetryRequested(run, exec) ==
  /\ Kind[run.cursor] \in {"condition", "action"}
  /\ exec[run.cursor].status = "failed"
  /\ run.retryNode = run.cursor

FailurePort(n) ==
  CASE Kind[n] = "action" /\ FailurePolicy[n] = "route_error" -> {"error"}
    [] Kind[n] = "action" /\ FailurePolicy[n] = "continue"    -> {"success"}
    [] OTHER                                                  -> {}

\* The ports the token leaves the cursor by: none while the node has work left.
ChosenPorts(run, exec) ==
  LET n == run.cursor IN
  IF Kind[n] = "trigger" THEN {"next"}
  ELSE IF exec[n].status = "succeeded" THEN {exec[n].port}
  ELSE IF exec[n].status = "failed" /\ ~RetryRequested(run, exec)
       THEN FailurePort(n)
  ELSE {}

\* A node that failed under the "continue" policy leaves a warning behind.
HasWarnings(exec) ==
  \E n \in Node : /\ exec[n].status = "failed"
                  /\ Kind[n] = "action" /\ FailurePolicy[n] = "continue"

EndStatus(run, exec) ==
  IF Kind[run.cursor] = "stop" THEN "stopped"
  ELSE IF HasWarnings(exec) THEN "completed_with_warnings"
  ELSE "succeeded"

RequestsWork(run, exec) ==
  /\ ~run.cancel
  /\ Kind[run.cursor] \in WaitKinds \cup {"condition", "action"}
  /\ \/ exec[run.cursor].status \notin {"succeeded", "failed", "uncertain"}
     \/ RetryRequested(run, exec)

\* The input of an action and the resource of an event wait are resolved from the trigger
\* payload and the outputs of earlier nodes; they may not resolve the first time the node
\* is reached, and a retry resolves the same frozen outputs again.
UnresolvedBinding(n, exec) == Kind[n] \in {"action", "event"} /\ exec[n].status = "none"

FinishesAs(run, exec, s) ==
  LET n == run.cursor IN
  \/ run.cancel /\ s = "cancelled"
  \/ ~run.cancel /\ Kind[n] \in {"end", "stop"} /\ s = EndStatus(run, exec)
  \/ ~run.cancel /\ exec[n].status = "uncertain" /\ s = "uncertain"
  \/ /\ ~run.cancel /\ exec[n].status = "failed" /\ s = "failed"
     /\ ~RetryRequested(run, exec) /\ FailurePort(n) = {}
  \/ /\ RequestsWork(run, exec) /\ UnresolvedBinding(n, exec) /\ s = "failed"

MovesTo(run, exec, m) ==
  /\ ~run.cancel
  /\ \E p \in ChosenPorts(run, exec) : m = Target[run.cursor][p]
=============================================================================
