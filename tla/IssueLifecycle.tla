--------------------------- MODULE IssueLifecycle ---------------------------
(***************************************************************************)
(* The life of a repository's issues: the supervisor's scheduler and jobs  *)
(* (internal/application/supervisor), the worker processes, the operator's *)
(* answers and resolutions, crashes and restarts, and the pull requests on *)
(* GitHub, all around one durable snapshot.                                *)
(*                                                                         *)
(* An action is one durable update, or one external effect, of one actor.  *)
(* The jobs hold the scheduler's lifecycle gate except while they validate *)
(* a launch and a worker runs; the operator's command line holds nothing   *)
(* but the store's lock and comes between any two actions.                 *)
(***************************************************************************)
EXTENDS IssueAggregate

CONSTANTS
  MaxAttempts,      \* queue.max_attempts
  MaxContinuations, \* worker profile's max_continuations
  MaxCrashes,       \* bound: supervisor crashes
  MaxQuestions,     \* bound: questions workers ask
  MaxResolves,      \* bound: operator resolutions
  MaxFaults,        \* bound: calls and checks that fail
  Faults            \* what the surroundings may do besides working

ASSUME BoundsAssumption ==
  /\ MaxAttempts \in Nat \ {0}
  /\ {MaxContinuations, MaxCrashes, MaxQuestions, MaxResolves, MaxFaults} \subseteq Nat

\* "github" calls fail, the "worktree" is found invalid or undigestible, a
\* "publish" fails, pull requests are "close"d or "merge"d by others, their "head"
\* moves and their "checks" fail, a "spawn" fails, a crash leaves an unrecorded
\* worker process as an "orphan".
ASSUME FaultsAssumption ==
  Faults \subseteq {"github", "worktree", "publish", "close", "merge", "head", "checks",
                    "spawn", "orphan"}

VARIABLES
  db,      \* the snapshot in the state store
  job,     \* the job under way on each issue, None between jobs
  sup,     \* the supervisor: "up", "down", or a phase of its start
  todo,    \* issues the start has still to look at
  procs,   \* live worker processes, by execution
  remote,  \* the pull request of each issue's branch
  used,    \* how much of each bound is used
  ran,     \* history: executions whose worker was recorded
  called   \* history: effects whose GitHub call succeeded

vars == <<db, job, sup, todo, procs, remote, used, ran, called>>

Pcs == {"queued", "claim", "claimed", "launch", "validate", "spawn", "record", "working",
        "result", "outcome", "publish", "published", "pull", "sync", "synced"}
Ungated == {"queued", "validate", "spawn", "record", "working", "result"}
Results == {"completed", "needs_input", "blocked", "retry", "silent",
            "workspace", "workspace_retry", "remote", "remote_retry"}

Jobs == [pc : Pcs, slot : {"worker", "maintenance"},
         seen : ManagedIssues \cup Effects \cup {None}, result : Results \cup {""}]

ASSUME JobsAssumption == None \notin Jobs

Init ==
  /\ db = [issue |-> [i \in Issues |-> None], active |-> None,
           effect |-> [i \in Issues |-> None], requests |-> {},
           quarantined |-> [i \in Issues |-> None]]
  /\ job = [i \in Issues |-> None]
  /\ sup = "up"
  /\ todo = {}
  /\ procs = {}
  /\ remote = [i \in Issues |-> "none"]
  /\ used = [crashes |-> 0, questions |-> 0, resolves |-> 0, faults |-> 0]
  /\ ran = {}
  /\ called = {}

-----------------------------------------------------------------------------
(* Jobs, the gate and the store. *)

Job(pc, slot, seen, result) == [pc |-> pc, slot |-> slot, seen |-> seen, result |-> result]

At(i, pc) == sup = "up" /\ job[i] # None /\ job[i].pc = pc

\* lifecycleMu is free.
GateFree == \A i \in Issues : job[i] # None => job[i].pc \in Ungated

Busy(slot) == \E i \in Issues : job[i] # None /\ job[i].slot = slot

\* A job that starts outside the queue takes the maintenance slot.
Goto(i, pc, seen, result) ==
  job' = [job EXCEPT ![i] = Job(pc, IF @ = None THEN "maintenance" ELSE @.slot, seen, result)]
Stop(i) == job' = [job EXCEPT ![i] = None]

Commit(i, d) == db' = Update(db, i, d)

\* The issue as the job reads it back, None when an update isolated it.
Fresh(i) == db'.issue[i]

\* Go on with the issue read back; without it the job ends in an error.
Proceed(i, pc, result) == IF Fresh(i) = None THEN Stop(i) ELSE Goto(i, pc, Fresh(i), result)

\* The job ends in an error that leaves the store as it was.
GiveUp(i) == Stop(i) /\ UNCHANGED db

\* What a job that only touches the store leaves alone.
Elsewhere == <<sup, todo, procs, ran, called>>

\* One of the surroundings' failures, as far as the bound allows.
Fault(fault) ==
  /\ fault \in Faults
  /\ used.faults < MaxFaults
  /\ used' = [used EXCEPT !.faults = @ + 1]

Digests == IF "worktree" \in Faults THEN BOOLEAN ELSE {TRUE}

-----------------------------------------------------------------------------
(* Outcomes shared by several handlers. *)

\* failIssueAtStage: stop for good, or until the operator resolves it.
FailIssue(i, blocked, stage) ==
  LET x == db.issue[i]
      to == IF blocked THEN "blocked" ELSE "failed"
      held == IF Owns(db, i, x) THEN Capture(db, i) ELSE db
      y == Apply(held.issue[i], to)
  IN IF x = None \/ x.status \notin FailFrom \/ (stage # "" /\ y.cont = None)
     THEN GiveUp(i)
     ELSE /\ \E digest \in Digests :
               LET cont == IF y.cont = None THEN None
                           ELSE [y.cont EXCEPT !.digest = digest,
                                               !.stage = IF stage = "" THEN y.cont.stage ELSE stage]
                   z == [y EXCEPT !.session = FALSE, !.cont = cont]
               IN Commit(i, SetEffect(Put(held, i, z), i,
                                      IF blocked THEN "mark_blocked" ELSE "mark_failed"))
          /\ Goto(i, "sync", None, "")

\* RetryBudget.Decide
Continues(x) == x.session /\ x.conts < MaxContinuations
Exhausted(x) == ~Continues(x) /\ x.attempts >= MaxAttempts

\* scheduleRetry for the issue as the caller saw it.
ScheduleRetry(i, seen) ==
  IF Exhausted(seen) THEN FailIssue(i, FALSE, "")
  ELSE /\ IF seen.status \in RetryFrom /\ db.issue[i] # None /\ db.issue[i].status = seen.status
          THEN Commit(i, Put(db, i, Apply(db.issue[i], "retry_wait")))
          ELSE UNCHANGED db
       /\ Stop(i)

\* schedulePublicationRetry: worker continuations do not count here.
SchedulePublicationRetry(i, seen) ==
  IF seen.attempts >= MaxAttempts THEN FailIssue(i, FALSE, "publish")
  ELSE ScheduleRetry(i, [seen EXCEPT !.conts = 0, !.attempts = 0])

\* completeIssue
Complete(i, seen) ==
  LET x == db.issue[i]
      d == IF Owns(db, i, seen) THEN [db EXCEPT !.active = None] ELSE db
      y == [Apply(x, "completed") EXCEPT !.pr = TRUE, !.session = FALSE, !.pid = FALSE]
  IN IF x = None \/ seen.status \notin CompleteFrom \/ x.status # seen.status
     THEN GiveUp(i)
     ELSE /\ Commit(i, SetEffect(Put(d, i, y), i, "mark_done"))
          /\ Goto(i, "sync", None, "")

\* blockWorkerWorkspace
BlockWorkspace(i, seen) ==
  LET x == db.issue[i]
      held == IF Owns(db, i, seen) THEN Capture(db, i) ELSE db
      y == [Apply(held.issue[i], "blocked") EXCEPT !.pid = FALSE]
  IN IF x = None \/ seen.status \notin {"launching", "running", "resolving_conflict"}
        \/ x.run # seen.run \/ x.status # seen.status
     THEN GiveUp(i)
     ELSE /\ Commit(i, SetEffect(Put(held, i, [y EXCEPT !.susp = Suspend("active", {"cancel"}, y)]),
                                 i, "mark_blocked"))
          /\ Goto(i, "sync", None, "")

AnsweredLaunch(x) ==
  x.source = "resume_pending" /\ x.cont # None /\ x.cont.kind = "needs_input"

\* rejectAnsweredContinuation: the answer stays, the worker does not go on.
RejectAnswered(i, seen) ==
  LET x == db.issue[i]
      y == [Apply(x, "blocked") EXCEPT !.pid = FALSE]
      d == [db EXCEPT !.active = None]
  IN /\ IF x # None /\ x.status = "launching" /\ Owns(db, i, seen) /\ AnsweredLaunch(seen)
        THEN Commit(i, SetEffect(Put(d, i, [y EXCEPT !.susp = Suspend("active", {"cancel"}, y)]),
                                 i, "none"))
        ELSE UNCHANGED db
     /\ Stop(i)

\* handleLaunchValidationFailure
LaunchRefused(i, seen, final) ==
  IF ~final THEN ScheduleRetry(i, seen)
  ELSE IF AnsweredLaunch(seen) THEN RejectAnswered(i, seen)
  ELSE FailIssue(i, TRUE, "")

\* AwaitChecks once the work is published.
AwaitChecks(i, seen) ==
  /\ IF /\ seen.status \in {"launching", "running", "resume_pending", "resolving_conflict"}
        /\ db.issue[i] # None /\ db.issue[i].status = seen.status
     THEN Commit(i, SetEffect(Put(db, i, [Apply(db.issue[i], "awaiting_checks") EXCEPT !.pr = TRUE]),
                              i, "none"))
     ELSE UNCHANGED db
  /\ Stop(i)

\* failCheckpointStage
FailCheckpoint(i, seen) ==
  LET x == db.issue[i]
      y == Apply(x, "failed")
  IN IF x = None \/ ~Owns(db, i, seen) \/ x.status # "launching" THEN GiveUp(i)
     ELSE /\ \E digest \in Digests :
               LET cont == IF y.cont = None THEN None ELSE [y.cont EXCEPT !.digest = digest]
                   z == [y EXCEPT !.pid = FALSE, !.cont = cont]
               IN Commit(i, SetEffect(Put(db, i, z), i, "mark_failed"))
          /\ Goto(i, "sync", None, "")

\* The question a worker asks, with the checkpoint its answer resumes.
AskOperator(i, seen) ==
  LET x == db.issue[i]
      held == Capture(db, i)
      y == Apply(held.issue[i], "needs_input")
      r == [issue |-> i, id |-> x.gen, run |-> x.run, status |-> "pending"]
  IN IF seen.status # "running" THEN GiveUp(i)
     ELSE IF x = None \/ x.status # "running" \/ ~Owns(db, i, seen) THEN ScheduleRetry(i, seen)
     ELSE /\ \E digest \in Digests :
               LET z == [y EXCEPT !.cont.kind = "needs_input", !.cont.digest = digest]
               IN Commit(i, [SetEffect(Put(held, i, z), i, "mark_needs_input")
                             EXCEPT !.requests = @ \cup {r}])
          /\ Goto(i, "sync", None, "")

\* suspendWorker
SuspendWorker(i, seen) ==
  LET x == db.issue[i]
      held == Capture(db, i)
      y == Apply(held.issue[i], "blocked")
  IN IF x = None \/ x.status # "running" \/ x.run # seen.run \/ ~Owns(db, i, x) THEN GiveUp(i)
     ELSE /\ \E digest \in Digests :
               LET z == [y EXCEPT !.cont.digest = digest]
                   susp == IF digest THEN Suspend("active", {"cancel", "resume"}, z)
                           ELSE Suspend("quarantined", {"cancel"}, z)
               IN Commit(i, SetEffect(Put(held, i, [z EXCEPT !.susp = susp]), i, "mark_blocked"))
          /\ Goto(i, "sync", None, "")

-----------------------------------------------------------------------------
(* Dispatch: the scheduler starts jobs, each of which waits for the gate.  *)

\* Variant: an effect alone does not bring its issue back to the queue.
PendingStatusOnly(i) == db.issue[i] # None /\ db.issue[i].status \in PendingDispatch

PendingStatus(i) ==
  db.issue[i] # None /\ (db.effect[i] # None \/ db.issue[i].status \in PendingDispatch)

\* pendingIssues and freeSlot: an issue with an effect to synchronise, and one
\* that waits on its pull request, takes the maintenance slot.
SlotOf(i) == IF db.effect[i] = None /\ db.issue[i].status \in DispatchesWorker
             THEN "worker" ELSE "maintenance"

CanDispatch(i) ==
  /\ sup = "up" /\ GateFree
  /\ job[i] = None /\ PendingStatus(i)
  /\ ~Busy(SlotOf(i))

Dispatch(i) ==
  /\ CanDispatch(i)
  /\ job' = [job EXCEPT ![i] = Job("queued", SlotOf(i), db.issue[i], "")]
  /\ UNCHANGED <<db, remote, used>> /\ UNCHANGED Elsewhere

\* selectReady: a new issue, only when nothing else is in progress.
Admit(i) ==
  /\ sup = "up" /\ GateFree
  /\ job[i] = None /\ ~Busy("worker")
  /\ db.issue[i] = None /\ db.quarantined[i] = None
  /\ db.active = None
  /\ \A k \in Issues : db.issue[k] # None => db.issue[k].status \notin BlocksNewAdmission
  /\ job' = [job EXCEPT ![i] = Job("queued", "worker", None, "")]
  /\ UNCHANGED <<db, remote, used>> /\ UNCHANGED Elsewhere

\* startIssue: StartExecution under the store's lock.
StartIssue(i) ==
  LET x == [NewIssue EXCEPT !.gen = 1, !.run = 1]
  IN /\ At(i, "queued") /\ GateFree
     /\ job[i].seen = None
     /\ IF db.quarantined[i] # None \/ db.issue[i] # None \/ db.active # None
        THEN GiveUp(i)
        ELSE /\ Commit(i, [Put(db, i, x) EXCEPT !.active = Execution(i, x)])
             /\ Proceed(i, "claim", "")
     /\ UNCHANGED <<remote, used>> /\ UNCHANGED Elsewhere

\* ensurePendingExecution: the checkpoint the job saw takes the slot again.
ResumeExecution(i, seen) ==
  LET x == db.issue[i]
      d == Resume(db, i)
  IN IF \/ db.active # None
        \/ x = None \/ seen.cont = None \/ x.cont = None
        \/ x.run # seen.run \/ x.gen # seen.gen \/ x.cont.id # seen.cont.id
        \/ x.status \notin {"resume_pending", "retry_wait"} \/ ~CanResume(db, i)
     THEN GiveUp(i)
     ELSE /\ Commit(i, Put(d, i, Launch(d.issue[i])))
          /\ Proceed(i, "launch", "")

\* processExisting, on the issue as it was when the job was dispatched.
Begin(i) ==
  LET seen == job[i].seen
  IN /\ At(i, "queued") /\ GateFree
     /\ seen # None
     /\ IF db.effect[i] # None THEN Goto(i, "sync", None, "") /\ UNCHANGED db
        ELSE IF seen.status \in {"awaiting_checks", "awaiting_merge"}
             THEN Goto(i, "pull", seen, "") /\ UNCHANGED db
        ELSE IF seen.status \in {"resume_pending", "retry_wait"} THEN ResumeExecution(i, seen)
        ELSE IF seen.status = "claiming" THEN Goto(i, "claim", seen, "") /\ UNCHANGED db
        ELSE Goto(i, "launch", seen, "") /\ UNCHANGED db
     /\ UNCHANGED <<remote, used>> /\ UNCHANGED Elsewhere

-----------------------------------------------------------------------------
(* From the claim to the worker. *)

\* claimAndRun: the claim on GitHub, the worktree, and their record.
Claim(i) ==
  LET x == db.issue[i]
  IN /\ At(i, "claim")
     /\ \/ Fault("github") /\ GiveUp(i)
        \/ Fault("worktree") /\ FailIssue(i, FALSE, "")
        \/ /\ UNCHANGED used
           /\ IF x = None \/ x.status # "claiming" THEN GiveUp(i)
              ELSE /\ Commit(i, Put(db, i, [Apply(x, "claimed") EXCEPT !.tree = TRUE]))
                   /\ Proceed(i, "claimed", "")
     /\ UNCHANGED remote /\ UNCHANGED Elsewhere

\* runClaimed
RunClaimed(i) ==
  LET x == db.issue[i]
  IN /\ At(i, "claimed")
     /\ IF x = None \/ x.status # "claimed" THEN GiveUp(i)
        ELSE /\ Commit(i, Put(db, i, Launch(x)))
             /\ Proceed(i, "validate", "")
     /\ UNCHANGED <<remote, used>> /\ UNCHANGED Elsewhere

\* The snapshot still holds the launch the job is about.
SameLaunch(i, seen) ==
  LET x == db.issue[i]
  IN /\ x # None /\ x.status = "launching" /\ seen.status = "launching"
     /\ x.source = seen.source
     /\ Owns(db, i, x) /\ Owns(db, i, seen)

\* The worker continues its session, within the same run.
ContinueRun(i, seen) ==
  IF ~SameLaunch(i, seen) THEN GiveUp(i)
  ELSE /\ Commit(i, Put(db, i, [db.issue[i] EXCEPT !.conts = seen.conts + 1]))
       /\ Proceed(i, "validate", "")

\* A fresh attempt is a run of its own.
StartRun(i, seen) ==
  LET d == Transfer(db, i)
  IN IF ~SameLaunch(i, seen) THEN GiveUp(i)
     ELSE /\ Commit(i, Put(d, i, [d.issue[i] EXCEPT !.attempts = seen.attempts + 1,
                                                    !.session = FALSE]))
          /\ Proceed(i, "validate", "")

\* validateRemoteLaunch, then the rest of processExisting.
LaunchStep(i) ==
  LET seen == job[i].seen
  IN /\ At(i, "launch")
     /\ \/ Fault("github") /\ LaunchRefused(i, seen, FALSE)
        \/ Fault("head") /\ seen.pr /\ LaunchRefused(i, seen, TRUE)
        \/ /\ UNCHANGED used
           /\ (~SameLaunch(i, seen) \/ (AnsweredLaunch(seen) /\ seen.pr))
           /\ LaunchRefused(i, seen, TRUE)
        \/ /\ SameLaunch(i, seen) /\ ~(AnsweredLaunch(seen) /\ seen.pr)
           /\ \/ /\ seen.source = "resume_pending" /\ seen.cont.stage = "publish"
                 /\ Goto(i, "publish", seen, "") /\ UNCHANGED <<db, used>>
              \/ /\ seen.source = "resume_pending" /\ seen.cont.stage # "publish"
                 /\ \/ Fault("github") /\ ScheduleRetry(i, seen)
                    \/ Goto(i, "validate", seen, "") /\ UNCHANGED <<db, used>>
              \/ /\ seen.source # "resume_pending" /\ UNCHANGED used
                 /\ IF Continues(seen) THEN ContinueRun(i, seen) ELSE StartRun(i, seen)
     /\ UNCHANGED remote /\ UNCHANGED Elsewhere

\* validateWorkerLaunch, with the gate released for as long as the worker runs.
Validate(i) ==
  LET seen == job[i].seen
      x == db.issue[i]
      same == SameLaunch(i, seen) /\ x.session = seen.session
  IN /\ At(i, "validate")
     /\ \/ ~same /\ Goto(i, "result", seen, "workspace") /\ UNCHANGED used
        \/ same /\ Goto(i, "spawn", seen, "") /\ UNCHANGED used
        \/ same /\ Fault("worktree")
           /\ \E result \in {"workspace", "workspace_retry"} : Goto(i, "result", seen, result)
        \/ same /\ Fault("github") /\ Goto(i, "result", seen, "remote_retry")
        \/ same /\ Fault("head") /\ seen.pr /\ Goto(i, "result", seen, "remote")
     /\ UNCHANGED <<db, remote>> /\ UNCHANGED Elsewhere

\* The worker process starts.
Spawn(i) ==
  LET seen == job[i].seen
  IN /\ At(i, "spawn")
     /\ \/ /\ procs' = procs \cup {Execution(i, seen)}
           /\ Goto(i, "record", seen, "") /\ UNCHANGED used
        \/ /\ Fault("spawn")
           /\ Goto(i, "result", seen, "silent") /\ UNCHANGED procs
     /\ UNCHANGED <<db, remote, sup, todo, ran, called>>

\* recordWorkerPID: a process that cannot be recorded is killed at once.
RecordWorkerPID(i) ==
  LET seen == job[i].seen
      x == db.issue[i]
  IN /\ At(i, "record")
     /\ IF x # None /\ x.status = "launching" /\ Owns(db, i, x) /\ Owns(db, i, seen)
        THEN /\ Commit(i, Put(db, i, [Apply(x, "running") EXCEPT !.pid = TRUE]))
             /\ ran' = ran \cup {Execution(i, seen)}
             /\ Goto(i, "working", seen, "") /\ UNCHANGED procs
        ELSE /\ procs' = procs \ {Execution(i, seen)}
             /\ Goto(i, "result", seen, "workspace") /\ UNCHANGED <<db, ran>>
     /\ UNCHANGED <<remote, used, sup, todo, called>>

\* The worker ends, or its timeout ends it.
WorkerExit(i) ==
  LET seen == job[i].seen
  IN /\ At(i, "working")
     /\ procs' = procs \ {Execution(i, seen)}
     /\ \/ /\ \E result \in {"completed", "blocked", "retry", "silent"} :
                Goto(i, "result", seen, result)
           /\ UNCHANGED used
        \/ /\ used.questions < MaxQuestions
           /\ used' = [used EXCEPT !.questions = @ + 1]
           /\ Goto(i, "result", seen, "needs_input")
     /\ UNCHANGED <<db, remote, sup, todo, ran, called>>

-----------------------------------------------------------------------------
(* From the worker to its outcome. *)

\* handleResult up to the preflight record: what the run ended in.
Result(i) ==
  LET x == db.issue[i]
      same == x # None /\ x.run = job[i].seen.run /\ x.gen = job[i].seen.gen
      current == IF same THEN x ELSE job[i].seen
      result == job[i].result
  IN /\ At(i, "result") /\ GateFree
     /\ CASE result = "workspace_retry" /\ current.status = "launching" ->
              ScheduleRetry(i, current)
          [] result = "workspace" \/ (result = "workspace_retry" /\ current.status # "launching") ->
              BlockWorkspace(i, current)
          [] result \in {"remote", "remote_retry"} ->
              LaunchRefused(i, current, result = "remote")
          [] OTHER ->
              IF x = None \/ x.run # current.run \/ x.status \in Terminal \cup {"needs_input"}
              THEN GiveUp(i)
              ELSE /\ Commit(i, Put(db, i, [x EXCEPT !.session = @ \/ result # "silent"]))
                   /\ Proceed(i, "outcome", result)
     /\ UNCHANGED <<remote, used>> /\ UNCHANGED Elsewhere

\* The publisher pushes the branch and opens the pull request; failing, it may
\* have opened it nonetheless.
Opened(i) == [remote EXCEPT ![i] = IF @ = "none" THEN "open" ELSE @]

Outcome(i) ==
  LET seen == job[i].seen
      result == job[i].result
  IN /\ At(i, "outcome")
     /\ \/ /\ result = "completed"
           /\ \/ Goto(i, "published", seen, "") /\ remote' = Opened(i) /\ UNCHANGED <<db, used>>
              \/ /\ Fault("publish") /\ SchedulePublicationRetry(i, seen)
                 /\ remote' \in {remote, Opened(i)}
        \/ /\ result \in {"retry", "silent"} /\ ScheduleRetry(i, seen)
           /\ UNCHANGED <<remote, used>>
        \/ /\ result = "needs_input" /\ AskOperator(i, seen)
           /\ UNCHANGED <<remote, used>>
        \/ /\ result = "blocked" /\ SuspendWorker(i, seen)
           /\ UNCHANGED <<remote, used>>
     /\ UNCHANGED Elsewhere

\* processPublicationCheckpoint: publish what an earlier run completed.
PublishCheckpoint(i) ==
  LET seen == job[i].seen
      matches == SameLaunch(i, seen) /\ (seen.pr = (remote[i] = "open"))
  IN /\ At(i, "publish")
     /\ \/ Fault("github") /\ GiveUp(i) /\ UNCHANGED remote
        \/ ~matches /\ FailCheckpoint(i, seen) /\ UNCHANGED <<remote, used>>
        \/ Fault("worktree") /\ FailCheckpoint(i, seen) /\ UNCHANGED remote
        \/ /\ matches /\ Fault("publish") /\ FailCheckpoint(i, seen)
           /\ remote' \in {remote, Opened(i)}
        \/ /\ matches /\ Goto(i, "published", seen, "") /\ remote' = Opened(i)
           /\ UNCHANGED <<db, used>>
     /\ UNCHANGED Elsewhere

Published(i) ==
  /\ At(i, "published")
  /\ AwaitChecks(i, job[i].seen)
  /\ UNCHANGED <<remote, used>> /\ UNCHANGED Elsewhere

\* blockPullRequestLifecycle
BlockPullRequest(i, seen) ==
  LET x == db.issue[i]
      y == [Apply(x, "blocked") EXCEPT !.pr = TRUE, !.pid = FALSE]
  IN IF x = None \/ x.status # seen.status THEN GiveUp(i)
     ELSE /\ Commit(i, SetEffect(Put(db, i, y), i, "mark_blocked"))
          /\ Goto(i, "sync", None, "")

\* failPullRequestChecks
FailChecks(i, seen) ==
  LET x == db.issue[i]
      held == IF Owns(db, i, seen) THEN Capture(db, i) ELSE db
      y == [Apply(held.issue[i], "failed") EXCEPT !.session = FALSE]
  IN IF x = None \/ x.run # seen.run \/ x.status # seen.status \/ y.cont = None THEN GiveUp(i)
     ELSE /\ Commit(i, SetEffect(Put(held, i, y), i, "mark_failed"))
          /\ Goto(i, "sync", None, "")

\* processPullRequest
PullRequest(i) ==
  LET seen == job[i].seen
      x == db.issue[i]
  IN /\ At(i, "pull")
     /\ \/ Fault("github") /\ GiveUp(i)
        \/ remote[i] = "merged" /\ Complete(i, seen) /\ UNCHANGED used
        \/ remote[i] = "closed" /\ BlockPullRequest(i, seen) /\ UNCHANGED used
        \/ remote[i] = "open" /\ Fault("worktree") /\ BlockPullRequest(i, seen)
        \/ remote[i] = "open" /\ Fault("checks")
           /\ IF Exhausted(seen) THEN FailChecks(i, seen) ELSE ScheduleRetry(i, seen)
        \/ /\ remote[i] \in {"none", "open"} \* not decided yet
           /\ GiveUp(i) /\ UNCHANGED used
        \/ /\ remote[i] = "open" /\ UNCHANGED used
           /\ x # None /\ x.status = seen.status
           /\ Commit(i, Put(db, i, [Apply(x, "awaiting_merge") EXCEPT !.pr = TRUE]))
           /\ Stop(i)
     /\ UNCHANGED remote /\ UNCHANGED Elsewhere

\* syncGitHub up to the call on GitHub.  A resolution is synchronised only for
\* the owner of the active execution.
SyncGitHub(i) ==
  LET x == db.issue[i]
      e == db.effect[i]
      due == /\ x # None /\ e # None
             /\ e.kind = "apply_resolution" => Resolved(x) /\ Owns(db, i, x)
             /\ e.kind = "mark_needs_input" => Pending(db, i) # {}
  IN /\ At(i, "sync")
     /\ \/ ~due /\ GiveUp(i) /\ UNCHANGED <<used, called>>
        \/ due /\ Fault("github") /\ GiveUp(i) /\ UNCHANGED called
        \/ /\ due
           /\ called' = called \cup {[issue |-> i, effect |-> e]}
           /\ Goto(i, "synced", e, "") /\ UNCHANGED <<db, used>>
     /\ UNCHANGED <<remote, sup, todo, procs, ran>>

\* Variant: whatever effect is pending is cleared.
SyncedAny(i) ==
  /\ At(i, "synced")
  /\ IF db.issue[i] # None THEN Commit(i, [db EXCEPT !.effect[i] = None]) ELSE UNCHANGED db
  /\ Stop(i)
  /\ UNCHANGED <<remote, used>> /\ UNCHANGED Elsewhere

\* The effect is cleared if it is still the one synchronised.
Synced(i) ==
  /\ At(i, "synced")
  /\ IF db.issue[i] # None /\ db.effect[i] = job[i].seen
     THEN Commit(i, [db EXCEPT !.effect[i] = None])
     ELSE UNCHANGED db
  /\ Stop(i)
  /\ UNCHANGED <<remote, used>> /\ UNCHANGED Elsewhere

-----------------------------------------------------------------------------
(* Reconciliation with GitHub and the worktree, outside a run. *)

\* DecideReconciliation
ReconciledStatus(i, valid) ==
  LET x == db.issue[i]
  IN CASE x.status \in Terminal ->
            IF x.status \in {"blocked", "failed"} /\ x.pr /\ db.effect[i] = None
               /\ remote[i] = "merged"
            THEN "completed" ELSE x.status
       [] x.status \notin Terminal /\ remote[i] = "merged" -> "completed"
       [] \/ x.status \notin Terminal /\ remote[i] = "closed"
          \/ x.status \notin Terminal /\ remote[i] \in {"none", "open"}
             /\ IF x.tree THEN ~valid ELSE remote[i] = "open" -> "blocked"
       [] OTHER -> IF x.status \in {"launching", "running", "claimed"} THEN "retry_wait" ELSE x.status

\* applyWebhookReconciliation, and the update of reconcileStartup.
ApplyReconciliation(i, valid) ==
  LET x == db.issue[i]
      to == ReconciledStatus(i, valid)
      kept == IF db.effect[i] = None THEN "none" ELSE db.effect[i].kind
      kind == CASE to = "completed" /\ to # x.status -> "mark_done"
                [] to = "blocked" /\ to # x.status -> "mark_blocked"
                [] OTHER -> kept
      y == [Apply(x, to) EXCEPT !.pid = FALSE,
                                !.pr = @ \/ (x.status \notin Terminal /\ remote[i] # "none")]
  IN Commit(i, SetEffect(Put(db, i, y), i, kind))

\* Variant: deliveries about any issue are applied.
WebhookAnyStatus(i) ==
  LET x == db.issue[i]
  IN /\ sup = "up" /\ GateFree
     /\ x # None
     /\ \/ ApplyReconciliation(i, TRUE) /\ UNCHANGED used
        \/ x.tree /\ Fault("worktree") /\ ApplyReconciliation(i, FALSE)
     /\ UNCHANGED <<job, remote>> /\ UNCHANGED Elsewhere

\* A webhook delivery about an issue that is terminal or waits for input.
Webhook(i) ==
  LET x == db.issue[i]
  IN /\ sup = "up" /\ GateFree
     /\ x # None /\ x.status \in {"blocked", "failed", "needs_input"}
     /\ \/ ApplyReconciliation(i, TRUE) /\ UNCHANGED used
        \/ x.tree /\ Fault("worktree") /\ ApplyReconciliation(i, FALSE)
     /\ UNCHANGED <<job, remote>> /\ UNCHANGED Elsewhere

\* reconcileTerminalPullRequest, run as a job of its own.
TerminalPullRequest(i) ==
  LET x == db.issue[i]
  IN /\ sup = "up" /\ GateFree
     /\ job[i] = None /\ ~Busy("maintenance")
     /\ x # None /\ x.status \in {"blocked", "failed"} /\ x.pr
     /\ remote[i] = "merged"
     /\ Complete(i, x)
     /\ UNCHANGED <<remote, used>> /\ UNCHANGED Elsewhere

-----------------------------------------------------------------------------
(* The operator. *)

\* RecordAnswer: the answer is taken whatever the issue does meanwhile.
Answer(r) ==
  /\ r.status = "pending"
  /\ Commit(r.issue, Replace(db, r, "answered"))
  /\ UNCHANGED <<job, remote, used>> /\ UNCHANGED Elsewhere

\* Variant: an answer goes wherever its checkpoint still stands.
CanPrepareAnyStatus(r) ==
  LET x == db.issue[r.issue]
  IN /\ sup = "up" /\ GateFree
     /\ r.status = "answered"
     /\ x # None /\ ~x.pid
     /\ db.active # None => db.active.issue # r.issue
     /\ Pending(db, r.issue) = {}
     /\ x.cont # None /\ x.cont.kind = "needs_input" /\ x.cont.id = r.id /\ r.run = x.run

\* Variant: the question is to be shown on GitHub first.
CanPrepareShown(r) ==
  LET x == db.issue[r.issue]
  IN /\ sup = "up" /\ GateFree
     /\ r.status = "answered"
     /\ x # None /\ x.status = "needs_input" /\ ~Delivered(x, r) /\ ~x.pid
     /\ db.active # None => db.active.issue # r.issue
     /\ Pending(db, r.issue) = {} /\ db.effect[r.issue] = None
     /\ x.cont # None /\ x.cont.kind = "needs_input" /\ x.cont.id = r.id /\ r.run = x.run

\* What the supervisor demands of an answer before it hands it over.
CanPrepare(r) ==
  LET x == db.issue[r.issue]
  IN /\ sup = "up" /\ GateFree
     /\ r.status = "answered"
     /\ x # None /\ x.status = "needs_input" /\ ~Delivered(x, r) /\ ~x.pid
     /\ db.active # None => db.active.issue # r.issue
     /\ Pending(db, r.issue) = {}
     /\ x.cont # None /\ x.cont.kind = "needs_input" /\ x.cont.id = r.id /\ r.run = x.run

\* PrepareAnsweredRequests: the answer reaches the issue that waits for it.
PrepareAnswer(r) ==
  LET i == r.issue
      x == db.issue[i]
      y == [Apply(x, "resume_pending") EXCEPT !.answers = Append(@, r.id)]
      d == Put(db, i, y)
      e == db.effect[i]
  IN /\ CanPrepare(r)
     /\ Commit(i, IF e # None /\ e.kind = "mark_needs_input" THEN [d EXCEPT !.effect[i] = None] ELSE d)
     /\ UNCHANGED <<job, remote, used>> /\ UNCHANGED Elsewhere

\* ResolveOperatorSuspension for resume and retry-stage: the checkpoint gets a
\* generation and the issue waits for the supervisor to act on it.
ResumeSuspended(i, action) ==
  LET d == Resume(db, i)
      x == d.issue[i]
      to == IF action = "retry-stage" /\ x.cont.stage = "checks" THEN "awaiting_checks"
            ELSE "resume_pending"
      y == Apply(x, to)
      susp == IF y.susp = None THEN None ELSE [y.susp EXCEPT !.state = "resolved"]
  IN SetEffect(Put(d, i, [y EXCEPT !.susp = susp]), i, "apply_resolution")

\* The same for adopt-pr: the pull request was merged by hand.
AdoptMerged(i) ==
  LET y == [Apply(db.issue[i], "completed") EXCEPT !.pr = TRUE]
  IN SetEffect(Put(db, i, y), i, "mark_done")

\* The same for cancel.
CancelSuspended(i) ==
  LET y == [Apply(db.issue[i], "canceled") EXCEPT !.susp.state = "resolved"]
      d == SetEffect(Put(db, i, y), i, "none")
  IN [d EXCEPT !.requests =
        {IF r.issue = i /\ r.status = "pending" THEN [r EXCEPT !.status = "canceled"] ELSE r
           : r \in @}]

\* plannedIssueActions, rechecked at the commit.
MayResolve(i, action) ==
  LET x == db.issue[i]
  IN /\ x # None /\ x.susp # None /\ ~x.pid
     /\ x.status \in {"blocked", "failed"}
     /\ action \in x.susp.actions
     /\ x.susp.state = "active" \/ (x.susp.state = "quarantined" /\ action = "cancel")
     /\ db.active # None => (action \in {"cancel", "adopt-pr"} /\ db.active.issue # i)
     /\ action # "cancel" => Pending(db, i) = {}
     /\ action \in {"resume", "retry-stage"} =>
          /\ CanResume(db, i) /\ x.susp.checkpoint = x.cont.id
          /\ x.tree /\ x.cont.stage \in {"resume", "publish"} => x.cont.digest
          /\ x.pr = (remote[i] = "open")
          /\ action = "retry-stage" => x.cont.stage # "conflict"
     /\ action = "adopt-pr" => remote[i] = "merged"

\* The operator's command resolve, at any time.
Resolve(i, action) ==
  /\ MayResolve(i, action)
  /\ used.resolves < MaxResolves
  /\ used' = [used EXCEPT !.resolves = @ + 1]
  /\ Commit(i, CASE action = "adopt-pr" -> AdoptMerged(i)
                 [] action = "cancel" -> CancelSuspended(i)
                 [] OTHER -> ResumeSuspended(i, action))
  /\ UNCHANGED <<job, remote>> /\ UNCHANGED Elsewhere

\* synchronizeIssueResolution: the command's own call on GitHub and its record.
ResolveSync(i) ==
  LET x == db.issue[i]
      e == db.effect[i]
  IN /\ e # None /\ x # None
     /\ e.kind = "apply_resolution" /\ Resolved(x)
     /\ called' = called \cup {[issue |-> i, effect |-> e]}
     /\ Commit(i, [db EXCEPT !.effect[i] = None])
     /\ UNCHANGED <<job, sup, todo, procs, remote, used, ran>>

-----------------------------------------------------------------------------
(* Crash and restart of the supervisor. *)

\* Worker processes the snapshot does not know of.
Unrecorded == {Execution(i, job[i].seen) : i \in {k \in Issues : job[k] # None /\ job[k].pc = "record"}}

Crash ==
  /\ sup # "down"
  /\ used.crashes < MaxCrashes
  /\ used' = [used EXCEPT !.crashes = @ + 1]
  /\ sup' = "down" /\ todo' = {}
  /\ job' = [i \in Issues |-> None]
  /\ procs' = IF "orphan" \in Faults THEN procs ELSE procs \ Unrecorded
  /\ UNCHANGED <<db, remote, ran, called>>

\* A worker whose supervisor is gone ends by itself.
DetachedExit(p) ==
  /\ \A i \in Issues : job[i] # None /\ job[i].pc \in {"record", "working"} =>
       p # Execution(i, job[i].seen)
  /\ procs' = procs \ {p}
  /\ UNCHANGED <<db, job, sup, todo, remote, used, ran, called>>

Restart ==
  /\ sup = "down"
  /\ sup' = "stopping"
  /\ UNCHANGED <<db, job, todo, procs, remote, used, ran, called>>

\* Variant: the worker is only forgotten.
StopWorkerKeepsProcess(i) ==
  LET x == db.issue[i]
      d == Capture(db, i)
  IN /\ sup = "stopping"
     /\ x # None /\ x.pid
     /\ IF x.status = "running" /\ Owns(db, i, x)
        THEN Commit(i, Put(d, i, Apply(d.issue[i], "retry_wait")))
        ELSE Commit(i, Put(db, i, [x EXCEPT !.pid = FALSE]))
     /\ UNCHANGED <<job, sup, todo, procs, remote, used, ran, called>>

\* StopWorkers: the recorded worker is killed before the queue goes on.
StopWorker(i) ==
  LET x == db.issue[i]
      d == Capture(db, i)
  IN /\ sup = "stopping"
     /\ x # None /\ x.pid
     /\ procs' = procs \ {Execution(i, x)}
     /\ IF x.status = "running" /\ Owns(db, i, x)
        THEN Commit(i, Put(d, i, Apply(d.issue[i], "retry_wait")))
        ELSE Commit(i, Put(db, i, [x EXCEPT !.pid = FALSE]))
     /\ UNCHANGED <<job, sup, todo, remote, used, ran, called>>

\* startupRemoteInspectionRequired
NeedsInspection(i) ==
  /\ db.issue[i] # None
  /\ db.effect[i] # None \/ db.issue[i].status \notin {"needs_input", "completed", "canceled"}

BeginReconciliation ==
  /\ sup = "stopping"
  /\ \A i \in Issues : db.issue[i] # None => ~db.issue[i].pid
  /\ sup' = "reconciling"
  /\ todo' = {i \in Issues : NeedsInspection(i)}
  /\ UNCHANGED <<db, job, procs, remote, used, ran, called>>

\* reconcileStartup for one issue: what GitHub and the worktree say decides; an
\* inspection that fails, or a retry not yet due, leaves the issue as it is.
Reconcile(i) ==
  /\ sup = "reconciling" /\ i \in todo
  /\ todo' = todo \ {i}
  /\ \/ ~NeedsInspection(i) /\ UNCHANGED <<db, used>>
     \/ NeedsInspection(i) /\ Fault("github") /\ UNCHANGED db
     \/ NeedsInspection(i) /\ db.issue[i].status = "retry_wait" /\ UNCHANGED <<db, used>>
     \/ NeedsInspection(i) /\ ApplyReconciliation(i, TRUE) /\ UNCHANGED used
     \/ /\ NeedsInspection(i) /\ db.issue[i].tree
        /\ Fault("worktree") /\ ApplyReconciliation(i, FALSE)
  /\ UNCHANGED <<job, sup, procs, remote, ran, called>>

Ready ==
  /\ sup = "reconciling" /\ todo = {}
  /\ sup' = "up"
  /\ UNCHANGED <<db, job, todo, procs, remote, used, ran, called>>

-----------------------------------------------------------------------------
(* Pull requests in the hands of others, and the whole. *)

Merge(i) ==
  /\ "merge" \in Faults /\ remote[i] = "open"
  /\ remote' = [remote EXCEPT ![i] = "merged"]
  /\ UNCHANGED <<db, job, sup, todo, procs, used, ran, called>>

Close(i) ==
  /\ "close" \in Faults /\ remote[i] = "open"
  /\ remote' = [remote EXCEPT ![i] = "closed"]
  /\ UNCHANGED <<db, job, sup, todo, procs, used, ran, called>>

\* A job goes on.
JobStep(i) ==
  \/ StartIssue(i) \/ Begin(i) \/ Claim(i) \/ RunClaimed(i) \/ LaunchStep(i) \/ Validate(i)
  \/ Spawn(i) \/ RecordWorkerPID(i) \/ WorkerExit(i) \/ Result(i) \/ Outcome(i)
  \/ PublishCheckpoint(i) \/ Published(i) \/ PullRequest(i) \/ SyncGitHub(i) \/ Synced(i)

\* The supervisor starts.
StartStep ==
  \/ Restart \/ BeginReconciliation \/ Ready
  \/ \E i \in Issues : StopWorker(i) \/ Reconcile(i)

SchedulerStep(i) ==
  Dispatch(i) \/ Admit(i) \/ Webhook(i) \/ TerminalPullRequest(i)

OperatorStep(i) == (\E action \in Actions : Resolve(i, action)) \/ ResolveSync(i)

Next ==
  \/ \E i \in Issues : \/ JobStep(i) \/ SchedulerStep(i) \/ OperatorStep(i)
                       \/ Merge(i) \/ Close(i)
  \/ \E r \in db.requests : Answer(r) \/ PrepareAnswer(r)
  \/ StartStep \/ Crash
  \/ \E p \in procs : DetachedExit(p)

Spec == Init /\ [][Next]_vars

\* The supervisor reads the answers given for an issue.
Prepare(i) == \E r \in RequestsOf(db, i) : PrepareAnswer(r)

CanStep(i) == /\ sup = "up" /\ job[i] # None
              /\ job[i].pc \in {"queued", "result"} => GateFree

\* The supervisor never stops for good, a worker ends or times out, and the gate
\* is a mutex that lets every waiting job and every pass of the scheduler in.
\* The operator, other people and the command line's synchronisation owe nothing.
\* Where a step updates the snapshot, weak and strong fairness are written with
\* the step's guard: for TLC, ENABLED over the whole of an update is out of reach.
Fairness ==
  /\ []<>(sup = "up") \/ []<><<StartStep>>_vars
  /\ \A i \in Issues :
       /\ SF_vars(Dispatch(i))
       /\ <>[]~CanStep(i) \/ []<><<JobStep(i)>>_vars
       /\ <>[](\A r \in RequestsOf(db, i) : ~CanPrepare(r)) \/ []<><<Prepare(i)>>_vars

LiveSpec == Spec /\ Fairness

-----------------------------------------------------------------------------
(* Properties. *)

\* Every variable holds what the code's types allow.
TypeOK ==
  /\ db \in Snapshots
  /\ job \in [Issues -> Jobs \cup {None}]
  /\ sup \in {"up", "down", "stopping", "reconciling"}
  /\ todo \subseteq Issues /\ procs \subseteq Executions /\ ran \subseteq Executions
  /\ remote \in [Issues -> {"none", "open", "merged", "closed"}]

Managed(i) == db.issue[i] # None

\* While a running supervisor lets workers run, no recorded worker is alive but
\* the one of the active execution: a restart kills what the snapshot knows of
\* before the queue goes on (StopWorkers, recordWorkerPID's fences).
OneRecordedWorker == sup = "up" => \A p \in procs \cap ran : db.active = p

\* From the launch's validation to the end of what its worker reported, the job's
\* run keeps the execution it was given, although the gate is free while the
\* worker runs and the operator is free all along: no result is ever late.
RunHoldsAuthority ==
  \A i \in Issues :
    (/\ job[i] # None
     /\ job[i].pc \in {"validate", "spawn", "record", "working", "result", "outcome", "published"}) =>
      db.active = Execution(i, job[i].seen)

\* A generation is spent by the worker that ran in it: crashes, retries and
\* resumptions never record a second worker for the same execution.
RunsOnce ==
  [][\A i \in Issues :
       (Managed(i) /\ Managed(i)' /\ db.issue[i].status = "launching"
          /\ db'.issue[i].status = "running") => Execution(i, db'.issue[i]) \notin ran]_vars

\* An answer reaches its issue at most once.
AnswerDeliveredOnce ==
  \A i \in Issues : Managed(i) =>
    \A m, n \in DOMAIN db.issue[i].answers :
      db.issue[i].answers[m] = db.issue[i].answers[n] => m = n

\* An effect on GitHub leaves the snapshot only after its call succeeded, or
\* because the issue moved on: no crash and no late synchronisation drops it.
EffectNotDropped ==
  [][\A i \in Issues :
       (db.effect[i] # None /\ db'.effect[i] # db.effect[i]) =>
         \/ [issue |-> i, effect |-> db.effect[i]] \in called'
         \/ ~Managed(i)'
         \/ db'.issue[i].status # db.issue[i].status]_vars

Status(i) == IF Managed(i) THEN db.issue[i].status ELSE "unmanaged"

\* A worker's run ends, and the repository is free again.
RunEnds ==
  \A i \in Issues : Status(i) \in {"launching", "running"} ~> Status(i) \notin Executing

\* A claim becomes a run or is given up.
ClaimEnds ==
  \A i \in Issues : Status(i) \in {"claiming", "claimed"} ~> Status(i) \notin {"claiming", "claimed"}

\* An issue whose question was answered goes on.
AnswerArrives ==
  \A i \in Issues :
    (Status(i) = "needs_input" /\ \E r \in RequestsOf(db, i) : r.status = "answered")
      ~> Status(i) # "needs_input"

EffectKind(i) == IF db.effect[i] = None THEN "none" ELSE db.effect[i].kind

\* What GitHub is to show is shown in the end.
EffectsSettle ==
  \A i \in Issues :
    EffectKind(i) \in DOMAIN DemandedStatus ~> EffectKind(i) \notin DOMAIN DemandedStatus

\* The same for an operator's resolution.
ResolutionSettles ==
  \A i \in Issues : EffectKind(i) = "apply_resolution" ~> EffectKind(i) # "apply_resolution"

\* At most one worker process is alive: every process is the active execution's.
OneLiveWorker == sup = "up" => \A p \in procs : db.active = p

\* The program's own steps never build an aggregate its validator refuses.
NeverQuarantined == \A i \in Issues : db.quarantined[i] = None

\* A new issue is not started while another is in progress: the scheduler looks
\* before it starts the job, and the claim looks at the execution slot only.
AdmissionWaits ==
  [][\A i \in Issues : (~Managed(i) /\ Managed(i)') =>
       \A k \in Issues \ {i} : Managed(k) => db.issue[k].status \notin BlocksNewAdmission]_vars

\* An issue that waits to be resumed is not stopped before it is resumed.
ResumptionNotUndone ==
  [][\A i \in Issues :
       (sup = "up" /\ Managed(i) /\ Managed(i)' /\ db.issue[i].status = "resume_pending") =>
         db'.issue[i].status \notin {"blocked", "failed"}]_vars

\* An operator's resumption never costs the issue its place in the snapshot.
ResumeKeepsIssue ==
  [][\A i \in Issues :
       (used'.resolves # used.resolves /\ Managed(i)) => Managed(i)']_vars
=============================================================================
