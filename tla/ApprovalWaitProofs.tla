------------------------- MODULE ApprovalWaitProofs -------------------------
(***************************************************************************)
(* Approvals, proved for every number of processes, reviewers and bounds:  *)
(* type correctness, DecisionJustified, and that voters, reassignments,    *)
(* the scheduler and their crashes implement the abstract Ballot.          *)
(*                                                                         *)
(* The step from counting the votes to resolving the wait crosses two      *)
(* transactions.  What carries it is PendingIsTally: as long as the run is *)
(* still locked by the request that counted, its count is the count of the *)
(* rows, since every change of a round needs the lock.                     *)
(***************************************************************************)
EXTENDS ApprovalWait, ParkedRunProofs

-----------------------------------------------------------------------------
(* The inductive invariant.                                                *)

\* A request carries the kind of job its next transaction reads.
JobFits ==
  \A p \in Process :
    /\ proc[p].pc \in {"claimVote", "vote"} =>
         proc[p].job \in [actor : Actor, decision : Decisions]
    /\ proc[p].pc \in {"claimReassign", "reassign"} =>
         proc[p].job \in [to : (SUBSET Actor) \ {{}}]

VotesOfRound == \A a \in Actor : votes[a] # "none" => a \in eligible

PendingIsTally ==
  \A p \in Process :
    proc[p].pc = "resolve" /\ run.lockedBy = p =>
      proc[p].port = Tally(votes, eligible) /\ proc[p].port \in Decisions

PortSettled == wait.status # "succeeded" => wait.port = "none"

IInv ==
  /\ TypeOK /\ JobFits /\ VotesOfRound /\ PendingIsTally
  /\ PortSettled /\ DecisionJustified

\* The steps of an approval that leave the round alone.
SharedStep ==
  \/ \E p \in Process : OrdinaryStep(p) \/ Park(p) \/ ResolveWait(p) \/ ClaimDue(p)
  \/ Surroundings

-----------------------------------------------------------------------------
(* Lemmas about the parts.                                                 *)

\* A step that only moves processes away from their job leaves jobs fitting.
LEMMA JobsKept ==
  ASSUME ParkedType(Job), JobFits, NEW p \in Process,
         \/ Leave(p)
         \/ \E pc \in {"advance", "releaseQueued", "releaseWaiting"} : Goto(p, pc)
         \/ Granted(p, "resume")
         \/ UNCHANGED proc
  PROVE  JobFits'
<1> DEFINE Away == {"idle", "advance", "releaseQueued", "releaseWaiting", "resume"}
<1>1. SUFFICES \A q \in Process : proc'[q] = proc[q] \/ proc'[q].pc \in Away
  BY DEF JobFits
<1>2. CASE Leave(p)
  BY <1>2 DEF ParkedType, Leave, IdleProc
<1>3. ASSUME NEW pc \in {"advance", "releaseQueued", "releaseWaiting"}, Goto(p, pc)
      PROVE  \A q \in Process : proc'[q] = proc[q] \/ proc'[q].pc \in Away
  BY <1>3 DEF ParkedType, ProcType, Goto
<1>4. CASE Granted(p, "resume")
  BY <1>4 DEF ParkedType, ProcType, Granted
<1> QED BY <1>2, <1>3, <1>4

\* Nor does such a step leave a process resolving that was not before.
LEMMA ResolvingKept ==
  ASSUME ParkedType(Job), NEW p \in Process, NEW q \in Process,
         \/ Leave(p)
         \/ \E pc \in {"advance", "releaseQueued", "releaseWaiting"} : Goto(p, pc)
         \/ Granted(p, "resume")
         \/ UNCHANGED proc,
         proc'[q].pc = "resolve"
  PROVE  proc'[q] = proc[q]
<1>1. CASE Leave(p)
  BY <1>1 DEF ParkedType, Leave, IdleProc
<1>2. ASSUME NEW pc \in {"advance", "releaseQueued", "releaseWaiting"}, Goto(p, pc)
      PROVE  proc'[q] = proc[q]
  BY <1>2 DEF ParkedType, ProcType, Goto
<1>3. CASE Granted(p, "resume")
  BY <1>3 DEF ParkedType, ProcType, Granted
<1> QED BY <1>1, <1>2, <1>3

\* What every shared step does to the process that takes it.
LEMMA SharedMoves ==
  ASSUME SharedStep
  PROVE  \/ UNCHANGED proc
         \/ \E p \in Process :
              \/ Leave(p)
              \/ \E pc \in {"advance", "releaseQueued", "releaseWaiting"} : Goto(p, pc)
              \/ Granted(p, "resume")
BY DEF SharedStep, OrdinaryStep, Surroundings, ResumeDue, FinishCancelled, MoveOn,
       AdvanceLost, Release, Park, ResolveWait, ClaimDue, Crash, CancelRead,
       CancelCommit, LeaseExpires, Stall, DeadlinePasses

\* A shared step gives the lock to the process it grants the run, or to nobody.
LEMMA SharedLock ==
  ASSUME ParkedType(Job), SharedStep
  PROVE  \/ run'.lockedBy \in {run.lockedBy, None}
         \/ \E p \in Process : run'.lockedBy = p /\ Granted(p, "resume")
BY DEF SharedStep, OrdinaryStep, Surroundings, ResumeDue, FinishCancelled, MoveOn,
       AdvanceLost, Release, Park, ResolveWait, ClaimDue, Crash, CancelRead,
       CancelCommit, LeaseExpires, Stall, DeadlinePasses, Granted, Unlocked,
       ParkedType, RunType

\* What a shared step does to the wait: nothing, opening it, letting its deadline
\* pass, cancelling it, or closing it at the deadline or with a counted port.
WaitMoves ==
  \/ UNCHANGED wait
  \/ /\ wait.status \in {"none", "waiting"}
     /\ wait' = [wait EXCEPT !.status = "waiting"]
  \/ wait' = [wait EXCEPT !.expired = TRUE]
  \/ wait.status = "waiting" /\ wait' = [wait EXCEPT !.status = "cancelled"]
  \/ /\ wait.status = "waiting"
     /\ wait' = [wait EXCEPT !.status = "succeeded", !.port = "expired"]
  \/ /\ wait.status = "waiting"
     /\ \E p \in Process :
          /\ proc[p].pc = "resolve" /\ Valid(p)
          /\ wait' = [wait EXCEPT !.status = "succeeded", !.port = proc[p].port]

LEMMA SharedWait == SharedStep => WaitMoves
BY DEF SharedStep, OrdinaryStep, Surroundings, ResumeDue, FinishCancelled, MoveOn,
       AdvanceLost, Release, Park, ResolveWait, ClaimDue, Crash, CancelRead,
       CancelCommit, LeaseExpires, Stall, DeadlinePasses, WaitMoves, OpenExpired

\* A count that decides justifies the decision.
LEMMA TallyJustifies ==
  ASSUME VotesOfRound, eligible \in (SUBSET Actor) \ {{}}, NeedsAll \in BOOLEAN
  PROVE  /\ Tally(votes, eligible) = "approved" =>
              /\ \A a \in eligible : votes[a] # "rejected"
              /\ \E a \in eligible : votes[a] = "approved"
              /\ NeedsAll => \A a \in eligible : votes[a] = "approved"
         /\ Tally(votes, eligible) = "rejected" =>
              \E a \in eligible : votes[a] = "rejected"
BY DEF Tally, VotesOfRound

-----------------------------------------------------------------------------
(* The invariant.                                                          *)

LEMMA InitInv == Init => IInv
<1> SUFFICES ASSUME Init PROVE IInv
  OBVIOUS
<1>1. ParkedType(Job)
  BY ParkedInitTyped DEF Init
<1>2. TypeOK
  BY <1>1, ApprovalWaitAssumption DEF Init, TypeOK, NoVotes
<1>3. JobFits /\ PendingIsTally
  BY DEF Init, ParkedInit, IdleProc, JobFits, PendingIsTally
<1>4. VotesOfRound /\ PortSettled /\ DecisionJustified
  BY DEF Init, ParkedInit, NoVotes, VotesOfRound, PortSettled, DecisionJustified
<1> QED BY <1>2, <1>3, <1>4 DEF IInv

LEMMA SharedInv == IInv /\ SharedStep /\ UNCHANGED roundVars => IInv'
<1> SUFFICES ASSUME IInv, SharedStep, UNCHANGED roundVars PROVE IInv'
  OBVIOUS
<1>0. ParkedType(Job) /\ TypeOK /\ JobFits /\ VotesOfRound
  BY DEF IInv, TypeOK
<1>1. ParkedType(Job)'
  BY <1>0, OrdinaryTyped, SurroundingsTyped DEF SharedStep
<1>2. TypeOK'
  BY <1>0, <1>1 DEF TypeOK, roundVars
<1>3. JobFits'
  <2>1. CASE UNCHANGED proc
    BY <1>0, <2>1 DEF JobFits
  <2>2. ASSUME NEW p \in Process,
               \/ Leave(p)
               \/ \E pc \in {"advance", "releaseQueued", "releaseWaiting"} : Goto(p, pc)
               \/ Granted(p, "resume")
        PROVE  JobFits'
    BY <1>0, <2>2, JobsKept
  <2> QED BY <2>1, <2>2, SharedMoves
<1>4. VotesOfRound'
  BY <1>0 DEF VotesOfRound, roundVars
<1>5. PendingIsTally'
  <2> SUFFICES ASSUME NEW q \in Process, proc'[q].pc = "resolve", run'.lockedBy = q
               PROVE  /\ proc'[q].port = Tally(votes, eligible)
                      /\ proc'[q].port \in Decisions
    BY DEF PendingIsTally, roundVars, Tally
  <2>1. proc'[q] = proc[q]
    BY <1>0, SharedMoves, ResolvingKept
  <2>2. q # None
    BY ParkedRunAssumption
  <2>3. ASSUME NEW p \in Process, run'.lockedBy = p, Granted(p, "resume")
        PROVE  FALSE
    BY <1>0, <2>3 DEF Granted, ParkedType, ProcType
  <2>4. run.lockedBy = q
    BY <1>0, <2>2, <2>3, SharedLock
  <2> QED BY <2>1, <2>4 DEF IInv, PendingIsTally
<1>6. WaitMoves
  BY SharedWait
<1>7. PortSettled'
  BY <1>0, <1>6 DEF IInv, PortSettled, WaitMoves, ParkedType, WaitType
<1>8. DecisionJustified'
  <2>1. CASE \E p \in Process :
               /\ proc[p].pc = "resolve" /\ Valid(p)
               /\ wait' = [wait EXCEPT !.status = "succeeded", !.port = proc[p].port]
    <3>1. wait'.port = Tally(votes, eligible)
      BY <1>0, <2>1 DEF IInv, PendingIsTally, Valid, ParkedType, WaitType
    <3> QED BY <1>0, <3>1, TallyJustifies, ApprovalWaitAssumption
            DEF DecisionJustified, roundVars, TypeOK
  <2>2. wait'.port \in {wait.port, "expired"} => DecisionJustified'
    BY DEF IInv, DecisionJustified, roundVars
  <2> QED BY <1>0, <1>6, <2>1, <2>2 DEF WaitMoves, ParkedType, WaitType
<1> QED BY <1>2, <1>3, <1>4, <1>5, <1>7, <1>8 DEF IInv

\* A request that starts, claims or refuses changes only its own process and lock.
LEMMA RequestInv ==
  ASSUME IInv, NEW p \in Process,
         \/ BeginVote(p) \/ ClaimVote(p) \/ RefuseVote(p)
         \/ BeginReassign(p) \/ ClaimReassign(p)
  PROVE  IInv'
<1>0. ParkedType(Job) /\ TypeOK /\ JobFits /\ PendingIsTally
  BY DEF IInv, TypeOK
<1>1. UNCHANGED <<wait, eligible, votes, first>> /\ member' = member
  BY DEF BeginVote, ClaimVote, RefuseVote, BeginReassign, ClaimReassign, ClaimParked,
         roundVars
<1>2. ParkedType(Job)'
  <2>1. {"claimVote", "vote", "claimReassign", "reassign", "releaseWaiting"}
          \subseteq PCs
    BY DEF PCs
  <2>2. CASE BeginVote(p)
    <3>1. PICK a \in member, d \in Decisions :
            proc' = [proc EXCEPT ![p] = [@ EXCEPT !.pc = "claimVote",
                                           !.job = [actor |-> a, decision |-> d]]]
      BY <2>2 DEF BeginVote
    <3>2. [actor |-> a, decision |-> d] \in Job
      BY <1>0 DEF Job, TypeOK
    <3>3. proc' \in [Process -> ProcType(Job)]
      BY <1>0, <2>1, <3>1, <3>2 DEF ParkedType, ProcType
    <3> QED BY <1>0, <2>2, <3>3, SpendTyped DEF BeginVote, ParkedType
  <2>3. CASE BeginReassign(p)
    <3>1. PICK S \in (SUBSET Actor) \ {{}} :
            proc' = [proc EXCEPT ![p] = [@ EXCEPT !.pc = "claimReassign",
                                                  !.job = [to |-> S]]]
      BY <2>3 DEF BeginReassign
    <3>2. [to |-> S] \in Job
      BY DEF Job
    <3>3. proc' \in [Process -> ProcType(Job)]
      BY <1>0, <2>1, <3>1, <3>2 DEF ParkedType, ProcType
    <3> QED BY <1>0, <2>3, <3>3, SpendTyped DEF BeginReassign, ParkedType
  <2>4. CASE ClaimVote(p) \/ ClaimReassign(p)
    BY <1>0, <2>1, <2>4, ClaimParkedTyped DEF ClaimVote, ClaimReassign
  <2>5. CASE RefuseVote(p)
    BY <1>0, <2>1, <2>5, ProcMoves DEF RefuseVote, ParkedType
  <2> QED BY <2>2, <2>3, <2>4, <2>5
<1>3. TypeOK'
  BY <1>0, <1>1, <1>2 DEF TypeOK
<1>a. \A q \in Process \ {p} : proc'[q] = proc[q]
  BY <1>0 DEF BeginVote, ClaimVote, RefuseVote, BeginReassign, ClaimReassign,
              ClaimParked, Granted, Leave, Goto, ParkedType
<1>b. /\ proc'[p].pc # "resolve"
      /\ proc'[p].pc \in {"claimVote", "vote"} =>
           proc'[p].job \in [actor : Actor, decision : Decisions]
      /\ proc'[p].pc \in {"claimReassign", "reassign"} =>
           proc'[p].job \in [to : (SUBSET Actor) \ {{}}]
  <2> DEFINE Claims(pc) ==
        Leave(p) \/ proc' = [proc EXCEPT ![p] = [@ EXCEPT !.pc = pc,
                       !.fence = run.fence + 1, !.cancelOnly = run.cancel]]
  <2>1. CASE BeginVote(p)
    <3>1. PICK a \in member, d \in Decisions :
            proc' = [proc EXCEPT ![p] = [@ EXCEPT !.pc = "claimVote",
                                           !.job = [actor |-> a, decision |-> d]]]
      BY <2>1 DEF BeginVote
    <3>2. proc'[p].pc = "claimVote" /\ proc'[p].job = [actor |-> a, decision |-> d]
      BY <1>0, <3>1 DEF ParkedType, ProcType
    <3> QED BY <1>0, <3>2 DEF TypeOK
  <2>2. CASE BeginReassign(p)
    <3>1. PICK S \in (SUBSET Actor) \ {{}} :
            proc' = [proc EXCEPT ![p] = [@ EXCEPT !.pc = "claimReassign",
                                                  !.job = [to |-> S]]]
      BY <2>2 DEF BeginReassign
    <3>2. proc'[p].pc = "claimReassign" /\ proc'[p].job = [to |-> S]
      BY <1>0, <3>1 DEF ParkedType, ProcType
    <3> QED BY <3>2
  <2>3. ASSUME NEW pc \in PCs, Claims(pc)
        PROVE  \/ proc'[p].pc = "idle"
               \/ proc'[p].pc = pc /\ proc'[p].job = proc[p].job
    <3>1. CASE Leave(p)
      BY <1>0, <3>1 DEF Leave, IdleProc, ParkedType
    <3>2. CASE ~Leave(p)
      BY <1>0, <2>3, <3>2 DEF ParkedType, ProcType
    <3> QED BY <3>1, <3>2
  <2>4. CASE ClaimVote(p)
    <3>1. Claims("vote") /\ "vote" \in PCs
      BY <2>4 DEF ClaimVote, ClaimParked, Granted, PCs
    <3>2. proc[p].job \in [actor : Actor, decision : Decisions]
      BY <1>0, <2>4 DEF ClaimVote, JobFits
    <3> QED BY <2>3, <3>1, <3>2
  <2>5. CASE ClaimReassign(p)
    <3>1. Claims("reassign") /\ "reassign" \in PCs
      BY <2>5 DEF ClaimReassign, ClaimParked, Granted, PCs
    <3>2. proc[p].job \in [to : (SUBSET Actor) \ {{}}]
      BY <1>0, <2>5 DEF ClaimReassign, JobFits
    <3> QED BY <2>3, <3>1, <3>2
  <2>6. CASE RefuseVote(p)
    BY <1>0, <2>6 DEF RefuseVote, Goto, ParkedType, ProcType
  <2> QED BY <2>1, <2>2, <2>4, <2>5, <2>6
<1>4. JobFits'
  BY <1>0, <1>a, <1>b DEF JobFits
<1>5. PendingIsTally'
  <2> SUFFICES ASSUME NEW q \in Process, proc'[q].pc = "resolve", run'.lockedBy = q
               PROVE  proc[q].pc = "resolve" /\ run.lockedBy = q
                      /\ proc'[q].port = proc[q].port
    BY <1>0, <1>1 DEF PendingIsTally, Tally
  <2>1. q # p /\ proc'[q] = proc[q]
    BY <1>a, <1>b
  <2>3. run'.lockedBy \in {run.lockedBy, p}
    BY <1>0 DEF BeginVote, ClaimVote, RefuseVote, BeginReassign, ClaimReassign,
                ClaimParked, Granted, ParkedType, RunType
  <2> QED BY <2>1, <2>3
<1> QED BY <1>1, <1>3, <1>4, <1>5
        DEF IInv, VotesOfRound, PortSettled, DecisionJustified

\* A counted vote leaves in its process the count of the rows it left.
LEMMA RecordVoteInv == ASSUME IInv, NEW p \in Process, RecordVote(p) PROVE IInv'
<1> DEFINE port == Tally(Recorded(p), eligible)
<1>0. ParkedType(Job) /\ TypeOK /\ JobFits /\ PendingIsTally /\ VotesOfRound
  BY DEF IInv, TypeOK
<1>1. proc[p].job \in [actor : Actor, decision : Decisions]
  BY <1>0 DEF JobFits, RecordVote
<1>2. port \in {"none", "approved", "rejected"}
  BY DEF Tally
<1>3. proc' = [proc EXCEPT ![p] = [@ EXCEPT !.port = port, !.pc =
                 IF port = "none" THEN "releaseWaiting" ELSE "resolve"]]
  BY DEF RecordVote
<1>4. proc' \in [Process -> ProcType(Job)]
  <2> HIDE DEF port
  <2>1. proc[p] \in ProcType(Job)
    BY <1>0 DEF ParkedType
  <2>2. [proc[p] EXCEPT !.port = port, !.pc =
           IF port = "none" THEN "releaseWaiting" ELSE "resolve"] \in ProcType(Job)
    BY <1>2, <2>1 DEF ProcType, PCs, WaitPorts
  <2> QED BY <1>0, <1>3, <2>2 DEF ParkedType
<1>5. TypeOK'
  <2>1. votes' \in [Actor -> Decisions \cup {"none"}]
    BY <1>0, <1>1 DEF RecordVote, Recorded, TypeOK
  <2>2. first' \in Decisions \cup {"none"}
    BY <1>0, <1>1 DEF RecordVote, TypeOK
  <2> QED BY <1>0, <1>4, <2>1, <2>2 DEF RecordVote, TypeOK, ParkedType
<1>6. JobFits'
  <2> HIDE DEF port
  <2> QED BY <1>0, <1>3 DEF JobFits, ParkedType, ProcType
<1>7. VotesOfRound'
  BY <1>0, <1>1 DEF RecordVote, Recorded, Counts, VotesOfRound, TypeOK
<1>8. PendingIsTally'
  <2>1. run.lockedBy = p /\ UNCHANGED <<run, eligible>> /\ votes' = Recorded(p)
    BY DEF RecordVote, Counts, Valid
  <2>2. port = Tally(votes', eligible')
    BY <2>1
  <2> HIDE DEF port
  <2>3. proc'[p].pc = "resolve" => proc'[p].port = port /\ port \in Decisions
    BY <1>0, <1>2, <1>3 DEF ParkedType, ProcType, Decisions
  <2> QED BY <2>1, <2>2, <2>3 DEF PendingIsTally
<1>9. wait.status = "waiting" /\ UNCHANGED wait
  BY DEF RecordVote, Counts
<1> QED BY <1>5, <1>6, <1>7, <1>8, <1>9 DEF IInv, PortSettled, DecisionJustified

\* A reassignment starts a round without votes, and holds the lock that a
\* counted decision of the old round would need.
LEMMA ReassignInv == ASSUME IInv, NEW p \in Process, Reassign(p) PROVE IInv'
<1>0. ParkedType(Job) /\ TypeOK /\ JobFits /\ PendingIsTally /\ VotesOfRound
  BY DEF IInv, TypeOK
<1>1. proc[p].job \in [to : (SUBSET Actor) \ {{}}]
  BY <1>0 DEF JobFits, Reassign
<1>2. ParkedType(Job)'
  <2>1. "releaseWaiting" \in PCs
    BY DEF PCs
  <2> QED BY <1>0, <2>1, ProcMoves DEF Reassign, ParkedType
<1>3. TypeOK'
  BY <1>0, <1>1, <1>2 DEF TypeOK, Reassign, NoVotes
<1>4. JobFits'
  BY <1>0, JobsKept DEF Reassign
<1>5. VotesOfRound'
  BY <1>0 DEF VotesOfRound, Reassign, NoVotes
<1>6. PendingIsTally'
  <2> SUFFICES ASSUME NEW q \in Process, proc'[q].pc = "resolve", run'.lockedBy = q
               PROVE  proc'[q] = proc[q] /\ run.lockedBy = q
                      /\ UNCHANGED <<votes, eligible>>
    BY <1>0 DEF PendingIsTally, Tally
  <2>1. q # p /\ proc'[q] = proc[q]
    BY <1>0 DEF Reassign, Goto, ParkedType, ProcType
  <2> QED BY <2>1 DEF Reassign, Valid
<1>7. UNCHANGED wait /\ (wait.status # "waiting" => UNCHANGED <<votes, eligible>>)
  BY DEF Reassign
<1>8. PortSettled' /\ DecisionJustified'
  BY <1>7 DEF IInv, PortSettled, DecisionJustified
<1> QED BY <1>3, <1>4, <1>5, <1>6, <1>8 DEF IInv

\* The removal of a member leaves rounds as they are.
LEMMA RemoveInv == ASSUME IInv, NEW a \in Actor, RemoveMember(a) PROVE IInv'
<1>1. TypeOK'
  BY DEF RemoveMember, IInv, TypeOK, ParkedType
<1>2. (JobFits /\ VotesOfRound /\ PendingIsTally /\ PortSettled /\ DecisionJustified)'
  BY DEF RemoveMember, IInv, JobFits, VotesOfRound, PendingIsTally, PortSettled,
         DecisionJustified, Tally
<1> QED BY <1>1, <1>2 DEF IInv

\* The steps of an approval: shared ones, and one per request transaction.
LEMMA StepCases ==
  ASSUME Next
  PROVE  \/ SharedStep /\ UNCHANGED roundVars
         \/ \E p \in Process :
              \/ BeginVote(p) \/ ClaimVote(p) \/ RefuseVote(p)
              \/ BeginReassign(p) \/ ClaimReassign(p)
              \/ RecordVote(p) \/ Reassign(p)
         \/ \E a \in Actor : RemoveMember(a)
BY DEF Next, ProcessStep, SharedStep

LEMMA NextInv == IInv /\ [Next]_vars => IInv'
<1> SUFFICES ASSUME IInv, [Next]_vars PROVE IInv'
  OBVIOUS
<1>1. CASE Next
  BY <1>1, StepCases, SharedInv, RequestInv, RecordVoteInv, ReassignInv, RemoveInv
<1>2. CASE UNCHANGED vars
  BY <1>2 DEF vars, IInv, TypeOK, ParkedType, JobFits, VotesOfRound, PendingIsTally,
              PortSettled, DecisionJustified, Tally
<1> QED BY <1>1, <1>2

LEMMA Invariance == Spec => []IInv
BY InitInv, NextInv, PTL DEF Spec

-----------------------------------------------------------------------------
(* The theorems.                                                           *)

\* Rows and local variables stay within their domains.
THEOREM TypeCorrect == Spec => []TypeOK
<1>1. IInv => TypeOK
  BY DEF IInv
<1> QED BY <1>1, Invariance, PTL

\* A closed approval is what the votes of its last round say.
THEOREM DecisionIsJustified == Spec => []DecisionJustified
<1>1. IInv => DecisionJustified
  BY DEF IInv
<1> QED BY <1>1, Invariance, PTL

-----------------------------------------------------------------------------
(* The refinement of the ballot.                                           *)

LEMMA InitRefines == Init => Votes!BallotInit
BY DEF Init, ParkedInit, Votes!BallotInit, Votes!NoVotes, NoVotes, Outcome

\* A shared step closes the ballot with its tally, abandons it or stutters.
LEMMA SharedRefines ==
  ASSUME IInv, SharedStep, UNCHANGED roundVars
  PROVE  [Votes!BallotNext]_(Votes!ballotVars)
<1>0. wait \in WaitType /\ eligible \in (SUBSET Actor) \ {{}} /\ VotesOfRound
      /\ PendingIsTally
  BY DEF IInv, TypeOK, ParkedType
<1>1. UNCHANGED <<eligible, votes>>
  BY DEF roundVars
<1>2. ASSUME Outcome' = Outcome PROVE UNCHANGED Votes!ballotVars
  BY <1>1, <1>2 DEF Votes!ballotVars
<1>3. CASE \/ UNCHANGED wait
           \/ /\ wait.status \in {"none", "waiting"}
              /\ wait' = [wait EXCEPT !.status = "waiting"]
           \/ wait' = [wait EXCEPT !.expired = TRUE]
  <2>1. Outcome' = Outcome
    BY <1>0, <1>3 DEF Outcome, WaitType
  <2> QED BY <1>2, <2>1
<1>4. CASE wait.status = "waiting" /\ wait' = [wait EXCEPT !.status = "cancelled"]
  <2>1. Outcome = "open" /\ Outcome' = "cancelled"
    BY <1>0, <1>4 DEF Outcome, WaitType
  <2>2. Votes!Abandon("cancelled")
    BY <1>1, <2>1 DEF Votes!Abandon
  <2> QED BY <2>2 DEF Votes!BallotNext
<1>5. CASE /\ wait.status = "waiting"
           /\ wait' = [wait EXCEPT !.status = "succeeded", !.port = "expired"]
  <2>1. Outcome = "open" /\ Outcome' = "expired"
    BY <1>0, <1>5 DEF Outcome, WaitType
  <2>2. Votes!Abandon("expired")
    BY <1>1, <2>1 DEF Votes!Abandon
  <2> QED BY <2>2 DEF Votes!BallotNext
<1>6. ASSUME wait.status = "waiting", NEW p \in Process, proc[p].pc = "resolve", Valid(p),
             wait' = [wait EXCEPT !.status = "succeeded", !.port = proc[p].port]
      PROVE  Votes!BallotNext
  <2>1. proc[p].port = Tally(votes, eligible) /\ proc[p].port \in Decisions
    BY <1>0, <1>6 DEF PendingIsTally, Valid
  <2>2. Outcome = "open" /\ Outcome' = proc[p].port
    BY <1>0, <1>6 DEF Outcome, WaitType
  <2>3. CASE proc[p].port = "approved"
    <3>1. Votes!Approve
      BY <1>0, <1>1, <2>1, <2>2, <2>3, TallyJustifies, ApprovalWaitAssumption
         DEF Votes!Approve
    <3> QED BY <3>1 DEF Votes!BallotNext
  <2>4. CASE proc[p].port = "rejected"
    <3>1. Votes!Reject
      BY <1>0, <1>1, <2>1, <2>2, <2>4, TallyJustifies, ApprovalWaitAssumption
         DEF Votes!Reject
    <3> QED BY <3>1 DEF Votes!BallotNext
  <2> QED BY <2>1, <2>3, <2>4 DEF Decisions
<1> QED BY <1>3, <1>4, <1>5, <1>6, SharedWait DEF WaitMoves

\* A counted vote is cast, or was cast before and changes nothing.
LEMMA RecordRefines ==
  ASSUME IInv, NEW p \in Process, RecordVote(p)
  PROVE  [Votes!BallotNext]_(Votes!ballotVars)
<1> DEFINE a == proc[p].job.actor
           d == proc[p].job.decision
<1>1. a \in Actor /\ d \in {"approved", "rejected"}
  BY DEF IInv, JobFits, RecordVote, Decisions
<1>2. a \in eligible /\ wait.status = "waiting"
  BY DEF RecordVote, Counts
<1>3. Outcome = "open" /\ Outcome' = "open" /\ eligible' = eligible
  BY <1>2 DEF RecordVote, Outcome
<1>4. votes' = IF votes[a] = "none" THEN [votes EXCEPT ![a] = d] ELSE votes
  BY DEF RecordVote, Recorded
<1> HIDE DEF a, d
<1>5. CASE votes[a] = "none"
  <2>1. Votes!Cast(a, d)
    BY <1>2, <1>3, <1>4, <1>5 DEF Votes!Cast
  <2> QED BY <1>1, <2>1 DEF Votes!BallotNext
<1>6. CASE votes[a] # "none"
  BY <1>3, <1>4, <1>6 DEF Votes!ballotVars
<1> QED BY <1>5, <1>6

\* A reassignment is a new round, or refused.
LEMMA ReassignRefines ==
  ASSUME IInv, NEW p \in Process, Reassign(p)
  PROVE  [Votes!BallotNext]_(Votes!ballotVars)
<1>1. proc[p].job.to \in (SUBSET Actor) \ {{}}
  BY DEF IInv, JobFits, Reassign
<1>2. Outcome' = Outcome
  BY DEF Reassign, Outcome
<1>3. CASE UNCHANGED <<eligible, votes>>
  BY <1>2, <1>3 DEF Votes!ballotVars
<1>4. CASE ~UNCHANGED <<eligible, votes>>
  <2>1. wait.status = "waiting" /\ eligible' = proc[p].job.to /\ votes' = NoVotes
    BY <1>4 DEF Reassign
  <2>2. Votes!NewRound(proc[p].job.to)
    BY <1>1, <1>2, <2>1 DEF Votes!NewRound, Votes!NoVotes, NoVotes, Outcome
  <2> QED BY <1>1, <2>2 DEF Votes!BallotNext
<1> QED BY <1>3, <1>4

\* Every other step of a request, and a member's removal, is a stutter.
LEMMA RequestRefines ==
  ASSUME \/ \E p \in Process : \/ BeginVote(p) \/ ClaimVote(p) \/ RefuseVote(p)
                               \/ BeginReassign(p) \/ ClaimReassign(p)
         \/ \E a \in Actor : RemoveMember(a)
         \/ UNCHANGED vars
  PROVE  UNCHANGED Votes!ballotVars
<1>1. UNCHANGED <<wait, eligible, votes>>
  BY DEF BeginVote, ClaimVote, RefuseVote, BeginReassign, ClaimReassign, ClaimParked,
         RemoveMember, roundVars, vars
<1> QED BY <1>1 DEF Votes!ballotVars, Outcome

\* Voters, reassignments, the scheduler and their crashes, as they interleave on
\* one parked run, do nothing that the ballot does not do.
THEOREM ApprovalRefinesBallot == Spec => RefinesBallot
<1>1. Init => Votes!BallotInit
  BY InitRefines
<1>2. IInv /\ [Next]_vars => [Votes!BallotNext]_(Votes!ballotVars)
  <2> SUFFICES ASSUME IInv, [Next]_vars PROVE [Votes!BallotNext]_(Votes!ballotVars)
    OBVIOUS
  <2>1. CASE Next
    BY <2>1, StepCases, SharedRefines, RecordRefines, ReassignRefines, RequestRefines
  <2>2. CASE UNCHANGED vars
    BY <2>2, RequestRefines
  <2> QED BY <2>1, <2>2
<1> QED BY <1>1, <1>2, Invariance, PTL DEF Spec, RefinesBallot, Votes!BallotSpec
=============================================================================
