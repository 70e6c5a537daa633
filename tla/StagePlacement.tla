---------------------------- MODULE StagePlacement ----------------------------
(***************************************************************************)
(* Applications placed in the stages of a job's pipeline while the stages  *)
(* are archived, merged, created, deleted and given another kind           *)
(* (apps/web/src/features/pipeline/stage-lifecycle.ts, stage-resolver.ts,  *)
(* actions.ts, features/applications/service.ts, data.ts and the trigger   *)
(* enforce_application_stage_active), each call a READ COMMITTED           *)
(* transaction that holds row locks until it commits.                      *)
(*                                                                         *)
(* One job.  A kind stands for the status it gives: "active" for every     *)
(* open kind.  Who holds a lock is read off where the calls are: the job   *)
(* row FOR UPDATE or FOR KEY SHARE, a stage row FOR UPDATE, FOR SHARE or,  *)
(* by a foreign key of the history, FOR KEY SHARE, an application by its   *)
(* update.  What a call writes shows when it commits; its last write and   *)
(* the commit are one step.  A retry after a conflict is another call.     *)
(***************************************************************************)
EXTENDS Naturals, FiniteSets

CONSTANTS
  Stage,        \* rows of job_stages, those to be created included
  Application,
  Clerk,        \* calls at a time
  EndStatus,      \* terminal statuses
  Pipelines,    \* the pipelines to start from
  Nowhere,      \* no stage, or no application
  MaxCalls,
  MaxAborts     \* attempts of an archive that is a deadlock victim

Status == EndStatus \cup {"active"}

StageRow == [state: {"absent", "live", "archived"}, kind: Status, inHistory: BOOLEAN]

ASSUME StagePlacementAssumption ==
  /\ "active" \notin EndStatus
  /\ Nowhere \notin Stage \cup Application /\ Nowhere \notin Status
  /\ Pipelines \subseteq [Stage -> StageRow]
  /\ MaxCalls \in Nat /\ MaxAborts \in Nat \ {0}

VARIABLES
  stage,
  application,  \* application[a]: its stage and status; Nowhere before it is sent
  clerk,        \* clerk[p]: the call under way, what it has read and chosen
  calls,        \* calls begun (bounds the behaviours)
  overtaken     \* applications filed in an entry stage that had become an outcome (history)

stageVars == <<stage, application, clerk, calls, overtaken>>

Ops == {"none", "move", "board", "bulk", "decide", "reopen", "apply", "apiApply",
        "archive", "kind", "create", "delete"}

ClerkPhases == {"rest", "target", "write", "trail", "glance", "stay", "choose", "place", "share", "entry",
           "insert", "reference", "lifecycle", "rows", "check", "rank", "merge", "drop"}

Rest == [op |-> "none", phase |-> "rest", app |-> Nowhere, from |-> Nowhere, to |-> Nowhere,
         want |-> Nowhere, changed |-> FALSE, locked |-> {}, moving |-> {}, aborts |-> 0]

PlacementTypeOK ==
  /\ stage \in [Stage -> StageRow]
  /\ application \in [Application -> [at: Stage \cup {Nowhere}, status: Status \cup {Nowhere}]]
  /\ clerk \in [Clerk -> [op: Ops, phase: ClerkPhases, app: Application \cup {Nowhere},
                          from: Stage \cup {Nowhere}, to: Stage \cup {Nowhere},
                          want: Status \cup {Nowhere}, changed: BOOLEAN,
                          locked: SUBSET Stage, moving: SUBSET Application,
                          aborts: 0 .. MaxAborts]]
  /\ calls \in 0 .. MaxCalls /\ overtaken \subseteq Application

Live(s, kind) == stage[s].state = "live" /\ stage[s].kind = kind

PlacementInit ==
  /\ stage \in Pipelines
  /\ \E a \in Application, s \in Stage :
       /\ Live(s, "active") /\ stage[s].inHistory
       /\ application = [b \in Application |->
            IF b = a THEN [at |-> s, status |-> "active"] ELSE [at |-> Nowhere, status |-> Nowhere]]
  /\ clerk = [p \in Clerk |-> Rest]
  /\ calls = 0 /\ overtaken = {}

-----------------------------------------------------------------------------
(* Stages and locks.                                                       *)

In(s) == {a \in Application : application[a].at = s}

HoldsJob(p) == clerk[p].phase \in {"place", "rows", "check", "rank", "merge", "drop"}

SharesJob(p) == clerk[p].op = "apiApply" /\ clerk[p].phase \in {"entry", "insert", "reference"}

JobFree(p) == \A q \in Clerk \ {p} : ~HoldsJob(q) /\ ~SharesJob(q)

JobShareable(p) == \A q \in Clerk \ {p} : ~HoldsJob(q)

\* The rows lockStageRows takes one after the other.
Rows(c) == IF c.op \in {"archive", "kind"} THEN {c.from, c.to} \ {Nowhere} ELSE {}

HoldsRow(p, s) == s \in clerk[p].locked

SharesRow(p, s) == clerk[p].to = s /\ clerk[p].phase \in {"write", "trail", "reference"}

\* FOR SHARE and FOR KEY SHARE both wait for a lifecycle change of the stage.
RowShareable(s) == \A q \in Clerk : ~HoldsRow(q, s)

\* Mutant: a lifecycle change that does not wait for the placements under way.
RowFreeAlways(s) == TRUE

RowFree(s) == \A q \in Clerk : ~SharesRow(q, s)

\* An application updated and not yet committed keeps other updates of it waiting.
HoldsApplication(p, a) == clerk[p].phase = "trail" /\ clerk[p].app = a

ApplicationFree(a) == \A q \in Clerk : ~HoldsApplication(q, a)

\* Mutant: the database has no trigger.
PlaceableAnywhere(s) == TRUE

\* enforce_application_stage_active, and the foreign key if the row is gone.
Placeable(s) == stage[s].state = "live"

-----------------------------------------------------------------------------
(* A call begins, goes on and ends.                                        *)

CallBegins(p, x) ==
  /\ clerk[p] = Rest /\ calls < MaxCalls
  /\ calls' = calls + 1
  /\ clerk' = [clerk EXCEPT ![p] = x]
  /\ UNCHANGED <<stage, application, overtaken>>

CallGoesOn(p, x) ==
  /\ clerk' = [clerk EXCEPT ![p] = x]
  /\ UNCHANGED <<stage, application, calls, overtaken>>

CallEnds(p) == CallGoesOn(p, Rest)

\* The call of p ends with a write of these applications: what the others read of them is
\* no longer what the row says.
Commits(p, written) ==
  /\ clerk' = [q \in Clerk |-> IF q = p THEN Rest
                               ELSE [clerk[q] EXCEPT !.changed = @ \/ clerk[q].app \in written]]
  /\ UNCHANGED calls

\* Rows of history refer to these stages from now on.
Remembered(rows) == [s \in Stage |-> [stage[s] EXCEPT !.inHistory = @ \/ s \in rows]]

Mutates(p) == [application EXCEPT ![clerk[p].app] = [at |-> clerk[p].to, status |-> clerk[p].want]]

\* Mutant: the update is not guarded by the updatedAt that was read.
UnchangedSinceUnguarded(p) == TRUE

UnchangedSince(p) == ~clerk[p].changed

-----------------------------------------------------------------------------
(* moveApplicationStageForApi ("move") reads the application before its    *)
(* transaction; moveApplicationInPipeline ("board") and                    *)
(* bulkMoveApplications ("bulk") read it after they locked the target, the *)
(* former against the stage the board showed.                              *)

BeginMove(p, a, t) ==
  /\ application[a].at \notin {Nowhere, t}
  /\ \E op \in {"move", "board", "bulk"} :
       CallBegins(p, [Rest EXCEPT !.op = op, !.phase = "target", !.app = a,
                              !.from = application[a].at, !.to = t])

\* lockStageForPlacement.
LockTarget(p) ==
  /\ clerk[p].phase = "target" /\ RowShareable(clerk[p].to)
  /\ LET c == clerk[p]
         at == application[c.app].at
         read == CASE c.op = "move" -> c
                   [] c.op = "board" -> [c EXCEPT !.changed = at # c.from]
                   [] c.op = "bulk" -> [c EXCEPT !.changed = FALSE, !.from = at]
     IN  IF stage[c.to].state = "live" /\ (c.op = "bulk" => at # c.to)
         THEN CallGoesOn(p, [read EXCEPT !.phase = "write", !.want = stage[c.to].kind])
         ELSE CallEnds(p)

\* The guarded update of the application.
Write(p) ==
  /\ clerk[p].phase = "write" /\ ApplicationFree(clerk[p].app)
  /\ IF UnchangedSince(p) /\ Placeable(clerk[p].to)
     THEN CallGoesOn(p, [clerk[p] EXCEPT !.phase = "trail"])
     ELSE CallEnds(p)

\* The row of history, whose from_stage_id locks the stage that is left FOR KEY SHARE.
WriteTrail(p) ==
  /\ clerk[p].phase = "trail" /\ RowShareable(clerk[p].from)
  /\ application' = Mutates(p)
  /\ stage' = Remembered({clerk[p].from, clerk[p].to})
  /\ Commits(p, {clerk[p].app})
  /\ UNCHANGED overtaken

-----------------------------------------------------------------------------
(* setApplicationStatus, updateApplicationStatus and                       *)
(* setApplicationStatusForWorkflow.                                        *)

BeginDecide(p, a, outcome) ==
  /\ application[a].at # Nowhere
  /\ ~(application[a].status = outcome /\ stage[application[a].at].kind = outcome)
  /\ CallBegins(p, [Rest EXCEPT !.op = "decide", !.phase = "choose", !.app = a,
                            !.from = application[a].at, !.want = outcome])

BeginReopen(p, a) ==
  /\ application[a].status \in EndStatus
  /\ CallBegins(p, [Rest EXCEPT !.op = "reopen", !.phase = "glance", !.app = a,
                            !.from = application[a].at, !.want = "active"])

\* stageForApplicationStatus looks at the current stage without a lock.
Glance(p) ==
  /\ clerk[p].phase = "glance"
  /\ IF Live(clerk[p].from, "active")
     THEN CallGoesOn(p, [clerk[p] EXCEPT !.phase = "stay", !.to = clerk[p].from])
     ELSE CallGoesOn(p, [clerk[p] EXCEPT !.phase = "choose"])

\* ensureStageOfKind and the stage an application is reopened in, with the job locked: a
\* stage of that kind, for an outcome that has none a new one.
ChooseStage(p) ==
  /\ clerk[p].phase = "choose" /\ JobFree(p)
  /\ LET want == clerk[p].want
         fit == {s \in Stage : Live(s, want)}
         new == {s \in Stage : stage[s].state = "absent" /\ want \in EndStatus}
         choice == IF fit # {} THEN fit ELSE new
     IN  \/ \E s \in choice : CallGoesOn(p, [clerk[p] EXCEPT !.phase = "place", !.to = s])
         \/ choice = {} /\ CallEnds(p)

Place(p) ==
  /\ clerk[p].phase \in {"place", "stay"} /\ ApplicationFree(clerk[p].app)
  /\ IF UnchangedSince(p)
     THEN /\ application' = Mutates(p)
          /\ LET t == clerk[p].to
                 trail == IF t = clerk[p].from THEN {} ELSE {clerk[p].from, t}
             IN  stage' = [Remembered(trail) EXCEPT
                   ![t] = IF stage[t].state = "absent"
                          THEN [state |-> "live", kind |-> clerk[p].want, inHistory |-> TRUE] ELSE @]
          /\ Commits(p, {clerk[p].app})
          /\ UNCHANGED overtaken
     ELSE CallEnds(p)

-----------------------------------------------------------------------------
(* A new application: by the public form, the portal, an import or the     *)
(* pool ("apply"), or by the API, which locks the job first.               *)

BeginApply(p, a) ==
  /\ application[a].at = Nowhere
  /\ \A q \in Clerk : clerk[q].app # a
  /\ \/ CallBegins(p, [Rest EXCEPT !.op = "apply", !.phase = "entry", !.app = a, !.want = "active"])
     \/ CallBegins(p, [Rest EXCEPT !.op = "apiApply", !.phase = "share", !.app = a, !.want = "active"])

ShareJob(p) ==
  /\ clerk[p].phase = "share" /\ JobShareable(p)
  /\ CallGoesOn(p, [clerk[p] EXCEPT !.phase = "entry"])

\* resolveEntryStage.
ChooseEntry(p) ==
  /\ clerk[p].phase = "entry"
  /\ \/ \E s \in Stage : /\ Live(s, "active")
                         /\ CallGoesOn(p, [clerk[p] EXCEPT !.phase = "insert", !.to = s])
     \/ ~(\E s \in Stage : Live(s, "active")) /\ CallEnds(p)

\* The trigger locks the stage row before the foreign key locks the job row.
InsertApplication(p) ==
  /\ clerk[p].phase = "insert" /\ RowShareable(clerk[p].to)
  /\ IF Placeable(clerk[p].to)
     THEN CallGoesOn(p, [clerk[p] EXCEPT !.phase = "reference"])
     ELSE CallEnds(p)

ReferenceJob(p) ==
  /\ clerk[p].phase = "reference" /\ JobShareable(p)
  /\ application' = Mutates(p)
  /\ stage' = Remembered({clerk[p].to})
  /\ overtaken' = overtaken \cup {a \in {clerk[p].app} : stage[clerk[p].to].kind # "active"}
  /\ Commits(p, {clerk[p].app})

-----------------------------------------------------------------------------
(* Lifecycle changes of a stage: the job is locked, then the stage rows.   *)

BeginArchive(p, s, t) ==
  /\ t # s
  /\ CallBegins(p, [Rest EXCEPT !.op = "archive", !.phase = "lifecycle", !.from = s, !.to = t])

BeginKind(p, s, kind) ==
  CallBegins(p, [Rest EXCEPT !.op = "kind", !.phase = "lifecycle", !.from = s, !.want = kind])

BeginCreate(p, kind) ==
  CallBegins(p, [Rest EXCEPT !.op = "create", !.phase = "lifecycle", !.want = kind])

BeginDelete(p, s) ==
  CallBegins(p, [Rest EXCEPT !.op = "delete", !.phase = "lifecycle", !.from = s])

LockJob(p) ==
  /\ clerk[p].phase = "lifecycle" /\ JobFree(p)
  /\ CallGoesOn(p, [clerk[p] EXCEPT !.phase = "rows"])

\* In id order, whichever of the two has the lower id.
LockRow(p, s) ==
  /\ clerk[p].phase = "rows" /\ s \in Rows(clerk[p]) \ clerk[p].locked /\ RowFree(s)
  /\ CallGoesOn(p, [clerk[p] EXCEPT !.locked = @ \cup {s}])

RowsLocked(p) ==
  /\ clerk[p].phase = "rows" /\ clerk[p].locked = Rows(clerk[p])
  /\ CallGoesOn(p, [clerk[p] EXCEPT !.phase = "check"])

\* validatePipelineShape: new applicants need somewhere to enter.
KeepsEntry(s) == Live(s, "active") => \E x \in Stage \ {s} : Live(x, "active")

ArchiveAllowed(s, t) ==
  /\ stage[s].state = "live" /\ KeepsEntry(s)
  /\ t = Nowhere => In(s) = {}
  /\ t # Nowhere => Live(t, stage[s].kind)

CheckArchive(p) ==
  /\ clerk[p].phase = "check" /\ clerk[p].op = "archive"
  /\ IF ArchiveAllowed(clerk[p].from, clerk[p].to)
     THEN CallGoesOn(p, [clerk[p] EXCEPT !.phase = IF In(clerk[p].from) = {} THEN "merge" ELSE "rank"])
     ELSE CallEnds(p)

\* The update ranks the applications in the stage as its snapshot shows them.
Rank(p) ==
  /\ clerk[p].phase = "rank"
  /\ CallGoesOn(p, [clerk[p] EXCEPT !.phase = "merge", !.moving = In(clerk[p].from)])

\* It joins the ranks by id and waits for the updates of those applications under way.
Merge(p) ==
  /\ clerk[p].phase = "merge" /\ \A a \in clerk[p].moving : ApplicationFree(a)
  /\ LET c == clerk[p]
     IN  /\ application' = [a \in Application |->
              IF a \in c.moving THEN [application[a] EXCEPT !.at = c.to] ELSE application[a]]
         /\ stage' = [Remembered(IF c.moving = {} THEN {} ELSE Rows(c))
                        EXCEPT ![c.from].state = "archived"]
         /\ Commits(p, c.moving)
         /\ UNCHANGED overtaken

\* updateStage, of the kind to or from an outcome.
ChangeKind(p) ==
  /\ clerk[p].phase = "check" /\ clerk[p].op = "kind"
  /\ LET s == clerk[p].from
     IN  IF /\ stage[s].state = "live" /\ stage[s].kind # clerk[p].want
            /\ In(s) = {} /\ ~stage[s].inHistory /\ KeepsEntry(s)
         THEN /\ stage' = [stage EXCEPT ![s].kind = clerk[p].want]
              /\ Commits(p, {})
              /\ UNCHANGED <<application, overtaken>>
         ELSE CallEnds(p)

CreateStage(p) ==
  /\ clerk[p].phase = "check" /\ clerk[p].op = "create"
  /\ \/ \E s \in Stage :
          /\ stage[s].state = "absent"
          /\ stage' = [stage EXCEPT ![s].state = "live", ![s].kind = clerk[p].want]
          /\ Commits(p, {})
          /\ UNCHANGED <<application, overtaken>>
     \/ (\A s \in Stage : stage[s].state # "absent") /\ CallEnds(p)

\* deleteStage locks the row only when it deletes it.
CheckDelete(p) ==
  /\ clerk[p].phase = "check" /\ clerk[p].op = "delete"
  /\ LET s == clerk[p].from
     IN  IF stage[s].state # "absent" /\ In(s) = {} /\ ~stage[s].inHistory /\ KeepsEntry(s)
         THEN CallGoesOn(p, [clerk[p] EXCEPT !.phase = "drop"])
         ELSE CallEnds(p)

\* The foreign key of the applications restricts.
DropStage(p) ==
  /\ clerk[p].phase = "drop" /\ RowFree(clerk[p].from)
  /\ IF In(clerk[p].from) = {} /\ ~stage[clerk[p].from].inHistory
     THEN /\ stage' = [stage EXCEPT ![clerk[p].from].state = "absent"]
          /\ Commits(p, {})
          /\ UNCHANGED <<application, overtaken>>
     ELSE CallEnds(p)

-----------------------------------------------------------------------------
\* Each lock a call may wait for, and whether q has it.
WaitsFor(p, q) ==
  LET c == clerk[p]
  IN  \/ c.phase \in {"target", "insert"} /\ HoldsRow(q, c.to)
      \/ c.phase = "trail" /\ HoldsRow(q, c.from)
      \/ c.phase \in {"write", "place", "stay"} /\ HoldsApplication(q, c.app)
      \/ c.phase = "merge" /\ \E a \in c.moving : HoldsApplication(q, a)
      \/ c.phase = "rows" /\ \E s \in Rows(c) \ c.locked : SharesRow(q, s)
      \/ c.phase = "drop" /\ SharesRow(q, c.from)
      \/ c.phase \in {"share", "reference"} /\ HoldsJob(q)
      \/ c.phase \in {"choose", "lifecycle"} /\ (HoldsJob(q) \/ SharesJob(q))

\* Calls that wait for each other: an archive holds the job and the stage, or the stage
\* left, that an insert or a move waits for, and waits for the stage or the application the
\* latter holds.
Deadlocked(p) ==
  \E knot \in SUBSET Clerk :
    /\ p \in knot
    /\ \A q \in knot : (\E r \in knot : WaitsFor(q, r)) /\ (\E r \in knot : WaitsFor(r, q))

\* The database aborts one of them; only archiveStage tries again.
Abort(p) ==
  /\ Deadlocked(p)
  /\ IF clerk[p].op = "archive" /\ clerk[p].aborts + 1 < MaxAborts
     THEN CallGoesOn(p, [clerk[p] EXCEPT !.phase = "lifecycle", !.locked = {}, !.moving = {},
                                         !.aborts = @ + 1])
     ELSE CallEnds(p)

PlacementStep(p) ==
  \/ LockTarget(p) \/ Write(p) \/ WriteTrail(p) \/ Glance(p) \/ ChooseStage(p) \/ Place(p)
  \/ ShareJob(p) \/ ChooseEntry(p) \/ InsertApplication(p) \/ ReferenceJob(p)

LifecycleStep(p) ==
  \/ LockJob(p) \/ (\E s \in Stage : LockRow(p, s)) \/ RowsLocked(p) \/ CheckArchive(p) \/ Rank(p) \/ Merge(p)
  \/ ChangeKind(p) \/ CreateStage(p) \/ CheckDelete(p) \/ DropStage(p)

PlacementNext ==
  \E p \in Clerk :
    \/ PlacementStep(p) \/ LifecycleStep(p) \/ Abort(p)
    \/ \E a \in Application :
         \/ BeginReopen(p, a) \/ BeginApply(p, a)
         \/ \E t \in Stage : BeginMove(p, a, t)
         \/ \E outcome \in EndStatus : BeginDecide(p, a, outcome)
    \/ \E s \in Stage :
         \/ BeginDelete(p, s)
         \/ \E t \in Stage \cup {Nowhere} : BeginArchive(p, s, t)
    \/ \E kind \in Status : BeginCreate(p, kind) \/ \E s \in Stage : BeginKind(p, s, kind)

PlacementSpec == PlacementInit /\ [][PlacementNext]_stageVars

-----------------------------------------------------------------------------
(* Properties.                                                             *)

\* "Never stranded": no application is in a stage that is archived or gone, whichever of
\* the placement and the lifecycle change came first (stage-placement-race test).
PlacedInLiveStage ==
  \A a \in Application : application[a].at # Nowhere => stage[application[a].at].state = "live"

\* "Whichever side won, the application's status must match the stage it is in"
\* (kind-change-race test).
StatusMatchesStage ==
  \A a \in Application :
    application[a].at # Nowhere => application[a].status = stage[application[a].at].kind

\* The same, of all applications but those that were filed while their entry stage became
\* an outcome: decisions, moves, reopenings, merges and changes of kind keep status and
\* stage together, whichever of them the database aborts.
OtherwiseStatusMatches ==
  \A a \in Application \ overtaken :
    application[a].at # Nowhere => application[a].status = stage[application[a].at].kind

\* The row of history a placement writes names the stage the application really leaves,
\* however old what the call had read is (fromStageId of application_stage_history).
HistoryIsChained ==
  [][\A a \in Application :
       application[a].at \notin {Nowhere, application'[a].at}
         => \E p \in Clerk : /\ clerk[p].phase \in {"trail", "place", "merge"} /\ clerk'[p] = Rest
                             /\ clerk[p].from = application[a].at]_stageVars
=============================================================================
