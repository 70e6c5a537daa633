--------------------------- MODULE MCWorkflowRun ---------------------------
(* Small graphs on which TLC checks WorkflowRun.                           *)
EXTENDS WorkflowRunInv, WorkflowRunRefinement, TLC

CONSTANTS trigger, act, wait, cond, done, halt

\* An external action, then an approval: trigger -> act -> wait -> done.
ActWaitNodes == {trigger, act, wait, done}
ActWaitKind ==
  [n \in ActWaitNodes |-> CASE n = trigger -> "trigger" [] n = act -> "action"
                            [] n = wait -> "approval" [] n = done -> "end"]
ActWaitTarget ==
  [n \in ActWaitNodes |->
     CASE n = trigger -> [next |-> act]
       [] n = act -> [success |-> wait]
       [] n = wait -> [approved |-> done, rejected |-> done, expired |-> done]
       [] n = done -> [next |-> done]]
ActWaitPolicy == [n \in ActWaitNodes |-> "stop"]

\* A delay, then an action that may fail with a warning.
DelayActNodes == {trigger, wait, act, done}
DelayActKind ==
  [n \in DelayActNodes |-> CASE n = trigger -> "trigger" [] n = wait -> "delay"
                             [] n = act -> "action" [] n = done -> "end"]
DelayActTarget ==
  [n \in DelayActNodes |->
     CASE n = trigger -> [next |-> wait]
       [] n = wait -> [elapsed |-> act]
       [] n = act -> [success |-> done]
       [] n = done -> [next |-> done]]
DelayActPolicy == [n \in DelayActNodes |-> "continue"]

\* A condition: an action with an error port if it holds, an approval if not.
BranchNodes == {trigger, cond, act, wait, done, halt}
BranchKind ==
  [n \in BranchNodes |-> CASE n = trigger -> "trigger" [] n = cond -> "condition"
                           [] n = act -> "action" [] n = wait -> "approval"
                           [] n = done -> "end" [] n = halt -> "stop"]
BranchTarget ==
  [n \in BranchNodes |->
     CASE n = trigger -> [next |-> cond]
       [] n = cond -> ("true" :> act @@ "false" :> wait)
       [] n = act -> [success |-> done, error |-> halt]
       [] n = wait -> [approved |-> done, rejected |-> halt, expired |-> halt]
       [] n \in {done, halt} -> [next |-> done]]
BranchPolicy == [n \in BranchNodes |-> "route_error"]

\* Workers are interchangeable; used by the safety runs only.
WorkerSymmetry == Permutations(Worker)
=============================================================================
