---------------------------- MODULE ApprovalWait ----------------------------
(***************************************************************************)
(* An approval node: reviewers vote, a round can be reassigned, the wait   *)
(* closes on a quorum or at its deadline (worker.ts: resolveWorkflowApproval *)
(* and reassignWorkflowApproval; approval-policy.ts).                      *)
(*                                                                         *)
(* A vote is three transactions of one request: claim the parked run,      *)
(* record the vote and count, resolve the wait.  A vote that does not      *)
(* decide hands the run back parked.                                       *)
(***************************************************************************)
EXTENDS ParkedRun

CONSTANTS
  Actor,      \* the people who are or were members of the workspace
  Reviewers,  \* the approval node's eligibleActorIds
  NeedsAll    \* the approval node's rule is "all"

ASSUME ApprovalWaitAssumption ==
  Reviewers \subseteq Actor /\ Reviewers # {} /\ NeedsAll \in BOOLEAN

VARIABLES
  eligible,  \* the effective reviewers (inputSnapshot)
  votes,     \* the workflow_approval_votes rows of the node
  member,    \* the workspace's members
  first      \* history: the first decision recorded in the round

vars == <<run, wait, proc, canceller, spent, eligible, votes, member, first>>
roundVars == <<eligible, votes, member, first>>

Decisions == {"approved", "rejected"}
NoVotes == [a \in Actor |-> "none"]
Job == [actor : Actor, decision : Decisions] \cup [to : (SUBSET Actor) \ {{}}]

Init ==
  /\ ParkedInit
  /\ eligible = Reviewers /\ votes = NoVotes
  /\ member = Actor /\ first = "none"

-----------------------------------------------------------------------------
(* A vote.                                                                 *)

\* Discovery: any member may press the button of a wait that is not overdue.
BeginVote(p) ==
  /\ FindsWait(p) /\ ~wait.expired /\ spent.calls < MaxCalls
  /\ \E a \in member, d \in Decisions :
       proc' = [proc EXCEPT ![p] = [@ EXCEPT !.pc = "claimVote",
                                      !.job = [actor |-> a, decision |-> d]]]
  /\ Spend("calls")
  /\ UNCHANGED <<run, wait, canceller, eligible, votes, member, first>>

ClaimVote(p) ==
  /\ proc[p].pc = "claimVote" /\ ClaimParked(p, "vote")
  /\ UNCHANGED roundVars

\* Mutant: membership and assignment are not looked at again under the lease.
CountsAnyVoter(p) == Valid(p) /\ wait.status = "waiting" /\ ~wait.expired

\* The renewed lease, the reread row and the reviewer, in the vote's transaction.
Counts(p) ==
  /\ Valid(p) /\ wait.status = "waiting" /\ ~wait.expired
  /\ proc[p].job.actor \in member \cap eligible

\* Mutant: under "all" the first approval decides.
TallyFirstApproval(v, reviewers) ==
  IF \E a \in Actor : v[a] = "rejected" THEN "rejected"
  ELSE IF \E a \in Actor : v[a] = "approved" THEN "approved" ELSE "none"

Tally(v, reviewers) ==
  IF \E a \in Actor : v[a] = "rejected" THEN "rejected"
  ELSE IF IF NeedsAll THEN \A a \in reviewers : v[a] = "approved"
                      ELSE \E a \in Actor : v[a] = "approved"
       THEN "approved" ELSE "none"

\* A reviewer's first vote stands (onConflictDoNothing); the count is of all.
Recorded(p) ==
  LET j == proc[p].job IN
  IF votes[j.actor] = "none" THEN [votes EXCEPT ![j.actor] = j.decision] ELSE votes

RecordVote(p) ==
  /\ proc[p].pc = "vote" /\ Counts(p)
  /\ votes' = Recorded(p)
  /\ first' = IF first = "none" THEN proc[p].job.decision ELSE first
  /\ LET port == Tally(Recorded(p), eligible) IN
     proc' = [proc EXCEPT ![p] = [@ EXCEPT !.port = port, !.pc =
                IF port = "none" THEN "releaseWaiting" ELSE "resolve"]]
  /\ UNCHANGED <<run, wait, canceller, spent, eligible, member>>

RefuseVote(p) ==
  /\ proc[p].pc = "vote" /\ ~Counts(p)
  /\ Goto(p, "releaseWaiting")
  /\ UNCHANGED <<run, wait, canceller, spent, eligible, votes, member, first>>

-----------------------------------------------------------------------------
(* A reassignment.                                                         *)

BeginReassign(p) ==
  /\ FindsWait(p) /\ ~wait.expired /\ spent.calls < MaxCalls
  /\ \E S \in (SUBSET Actor) \ {{}} :
       proc' = [proc EXCEPT ![p] = [@ EXCEPT !.pc = "claimReassign",
                                             !.job = [to |-> S]]]
  /\ Spend("calls")
  /\ UNCHANGED <<run, wait, canceller, eligible, votes, member, first>>

ClaimReassign(p) ==
  /\ proc[p].pc = "claimReassign" /\ ClaimParked(p, "reassign")
  /\ UNCHANGED roundVars

\* Mutant: the votes of the earlier round stay.
ReassignKeepsVotes(p) ==
  /\ proc[p].pc = "reassign"
  /\ IF Valid(p) /\ wait.status = "waiting" /\ ~wait.expired
        /\ proc[p].job.to \subseteq member
     THEN eligible' = proc[p].job.to ELSE UNCHANGED eligible
  /\ Goto(p, "releaseWaiting")
  /\ UNCHANGED <<run, wait, canceller, spent, votes, member, first>>

Reassign(p) ==
  /\ proc[p].pc = "reassign"
  /\ IF /\ Valid(p) /\ wait.status = "waiting" /\ ~wait.expired
        /\ proc[p].job.to \subseteq member
     THEN eligible' = proc[p].job.to /\ votes' = NoVotes /\ first' = "none"
     ELSE UNCHANGED <<eligible, votes, first>>
  /\ Goto(p, "releaseWaiting")
  /\ UNCHANGED <<run, wait, canceller, spent, member>>

\* An administrator removes a member; recorded votes are left as they are.
RemoveMember(a) ==
  /\ a \in member /\ member' = member \ {a}
  /\ UNCHANGED <<run, wait, proc, canceller, spent, eligible, votes, first>>

-----------------------------------------------------------------------------

ProcessStep(p) ==
  \/ /\ OrdinaryStep(p) \/ Park(p) \/ ResolveWait(p)
     /\ UNCHANGED roundVars
  \/ ClaimVote(p) \/ RecordVote(p) \/ RefuseVote(p)
  \/ ClaimReassign(p) \/ Reassign(p)

Next ==
  \/ \E p \in Process : \/ ProcessStep(p) \/ BeginVote(p) \/ BeginReassign(p)
                        \/ ClaimDue(p) /\ UNCHANGED roundVars
  \/ Surroundings /\ UNCHANGED roundVars
  \/ \E a \in Actor : RemoveMember(a)

Spec == Init /\ [][Next]_vars

\* Processes that hold the run go on, the scheduler claims what is due, and the
\* database clock reaches every lease end and the deadline.
Fairness ==
  /\ \A p \in Process : /\ WF_vars(ProcessStep(p))
                        /\ WF_vars(ClaimDue(p) /\ UNCHANGED roundVars)
  /\ WF_vars(CancelCommit /\ UNCHANGED roundVars)
  /\ WF_vars(LeaseExpires /\ UNCHANGED roundVars)
  /\ WF_vars(DeadlinePasses /\ UNCHANGED roundVars)

FairSpec == Spec /\ Fairness

-----------------------------------------------------------------------------
(* Properties.                                                             *)

\* Every row and every local variable stays within its domain.
TypeOK ==
  /\ ParkedType(Job)
  /\ eligible \in (SUBSET Actor) \ {{}} /\ member \subseteq Actor
  /\ votes \in [Actor -> Decisions \cup {"none"}]
  /\ first \in Decisions \cup {"none"}

\* A closed approval is what the votes of its last round say, counted between a
\* crash, a takeover and a reassignment: approved by all reviewers of the round
\* (or one, under "any") with no refusal, rejected by one of them.
DecisionJustified ==
  /\ wait.port = "approved" =>
       /\ \A a \in eligible : votes[a] # "rejected"
       /\ \E a \in eligible : votes[a] = "approved"
       /\ NeedsAll => \A a \in eligible : votes[a] = "approved"
  /\ wait.port = "rejected" => \E a \in eligible : votes[a] = "rejected"

\* The abstract ballot: what the rows show of it.
Outcome ==
  CASE wait.status = "succeeded" -> wait.port
    [] wait.status = "cancelled" -> "cancelled"
    [] OTHER                     -> "open"

Votes == INSTANCE Ballot WITH outcome <- Outcome

\* Voters, reassignments, the scheduler and their crashes implement the ballot.
RefinesBallot == Votes!BallotSpec

\* Every approval closes, or its run is cancelled: crashed voters, undecided
\* rounds and removed reviewers leave it to the deadline at the latest.
ApprovalCloses == <>(wait.status = "succeeded" \/ run.status = "cancelled")

\* Product plan, section 14.1, rule "any": the first valid decision resolves.
\* The vote is one transaction and the resolution another: after a crash or a
\* stall between them the next reviewer's refusal decides over the approval.
FirstDecisionResolves ==
  ~NeedsAll /\ wait.port \in Decisions => wait.port = first
=============================================================================
