------------------------------- MODULE Ballot -------------------------------
(***************************************************************************)
(* What an approval node promises: rounds of votes by the reviewers of the *)
(* round, one vote each, closed once.  No leases, processes or crashes;    *)
(* ApprovalWait is proved to implement it.                                 *)
(***************************************************************************)
CONSTANTS
  Actor,      \* the members and former members of the workspace
  Reviewers,  \* the reviewers the published graph names
  NeedsAll    \* rule "all" rather than "any"

VARIABLES
  eligible,  \* the reviewers of the round
  votes,     \* the vote of each actor in the round
  outcome    \* "open", or how the ballot closed

ballotVars == <<eligible, votes, outcome>>

NoVotes == [a \in Actor |-> "none"]

BallotInit == eligible = Reviewers /\ votes = NoVotes /\ outcome = "open"

Cast(a, d) ==
  /\ outcome = "open" /\ a \in eligible /\ votes[a] = "none"
  /\ votes' = [votes EXCEPT ![a] = d]
  /\ UNCHANGED <<eligible, outcome>>

\* Approval takes every reviewer of the round, or one of them and no refusal.
Approve ==
  /\ outcome = "open" /\ outcome' = "approved"
  /\ \A a \in eligible : votes[a] # "rejected"
  /\ \E a \in eligible : votes[a] = "approved"
  /\ NeedsAll => \A a \in eligible : votes[a] = "approved"
  /\ UNCHANGED <<eligible, votes>>

Reject ==
  /\ outcome = "open" /\ outcome' = "rejected"
  /\ \E a \in eligible : votes[a] = "rejected"
  /\ UNCHANGED <<eligible, votes>>

\* A new round has new reviewers and starts without votes.
NewRound(S) ==
  /\ outcome = "open" /\ S # {}
  /\ eligible' = S /\ votes' = NoVotes
  /\ UNCHANGED outcome

Abandon(o) ==
  /\ outcome = "open" /\ outcome' = o
  /\ UNCHANGED <<eligible, votes>>

BallotNext ==
  \/ \E a \in Actor, d \in {"approved", "rejected"} : Cast(a, d)
  \/ Approve \/ Reject
  \/ \E S \in SUBSET Actor : NewRound(S)
  \/ Abandon("expired") \/ Abandon("cancelled")

BallotSpec == BallotInit /\ [][BallotNext]_ballotVars
=============================================================================
