---------------------------- MODULE Publication ----------------------------
(***************************************************************************)
(* One Issue's worktree and its way to a pull request: the worktree that   *)
(* is prepared once and used by every run, the publisher that commits,     *)
(* merges, pushes and opens the pull request, the retries and the publish  *)
(* checkpoint after it failed, and the operator's commands cleanup and     *)
(* purge that remove the worktree.  Other Issues advance the base branch,  *)
(* somebody pushes to the pull request, calls fail with or without effect, *)
(* and the supervisor dies or is stopped between any two steps.            *)
(***************************************************************************)
EXTENDS Naturals

CONSTANTS
  MaxAttempts,  \* queue.max_attempts; one more run may follow a resolution
  MaxBase,      \* bound: commits of other Issues on the base branch
  MaxForeign,   \* bound: commits of others on the pull request's branch
  MaxFaults,    \* bound: failed calls of git, GitHub and the formatter
  MaxStops,     \* bound: supervisors stopped or killed
  MaxResolves,  \* bound: resolutions of the operator
  MaxRemovals,  \* bound: cleanup and purge commands
  None          \* nothing there


VARIABLES
  origin, \* GitHub's repository: the base branch and the Issue's branch
  local,  \* the repository's clone: what it knows of the base branch, the Issue's branch
  tree,   \* the Issue's worktree: the changes in it that no commit holds
  pull,   \* the pull request of the branch
  item,   \* the Issue in the snapshot
  job,    \* where the supervisor's job stands and what it carries
  sup,    \* the supervisor process
  cli,    \* where cleanup or purge stands and the Issue it read
  done,   \* history: the work that completed results stand for
  used    \* the bounds used up

vars == <<origin, local, tree, pull, item, job, sup, cli, done, used>>

Statuses == {"none", "claiming", "running", "retry_wait", "resume_pending",
             "awaiting_checks", "failed", "blocked", "completed"}
Faults == {"faults", "stops", "resolves", "removals", "foreign", "runs"}
\* A run that was cut short or resumed is one more than the attempts allow.
MaxRuns == MaxAttempts + MaxStops + MaxResolves
Units == 1 .. (MaxRuns + MaxForeign + 1)

\* A commit by what its history contains.
Commits == [base : 0 .. MaxBase, work : SUBSET Units]

ASSUME PublicationAssumption ==
  /\ {MaxAttempts, MaxBase, MaxForeign, MaxFaults, MaxStops, MaxResolves, MaxRemovals} \subseteq Nat
  /\ \A s \in SUBSET Units : s # None
  /\ None \notin Nat /\ None \notin Commits \cup {"open", "closed", "merged", "resume", "checks", "publish"}

Items == [status : Statuses, tree : BOOLEAN, base : 0 .. MaxBase \cup {None},
          pr : BOOLEAN, head : Commits \cup {None}, attempts : Nat,
          stage : {None, "resume", "checks", "publish"}, result : BOOLEAN]
Ancestor(c, d) == c.base <= d.base /\ c.work \subseteq d.work
Larger(m, n) == IF m < n THEN n ELSE m
Joined(c, d) == [base |-> Larger(c.base, d.base), work |-> c.work \cup d.work]

\* A job's place, the pull request's head it read, the checkpoint it serves, and the
\* other Issues' commits it took for changes of its own.
Idle == [pc |-> "idle", head |-> None, stage |-> None, others |-> {}]
Quiet == [pc |-> "idle", seen |-> None, force |-> FALSE]

Init ==
  /\ origin = [base |-> 0, branch |-> None]
  /\ local = [base |-> 0, branch |-> None]
  /\ tree = None /\ pull = None
  /\ item = [status |-> "none", tree |-> FALSE, base |-> None, pr |-> FALSE, head |-> None,
             attempts |-> 0, stage |-> None, result |-> FALSE]
  /\ job = Idle /\ sup = "up" /\ cli = Quiet
  /\ done = {}
  /\ used = [f \in Faults |-> 0]

Spend(f, max) == used[f] < max /\ used' = [used EXCEPT ![f] = @ + 1]
Fault == Spend("faults", MaxFaults)
Unit == used.runs + used.foreign + 1

Remote == <<origin, pull>>
Files == <<local, tree>>
Others == <<sup, cli>>

At(pc) == sup = "up" /\ job.pc = pc
Goto(pc) == job' = [job EXCEPT !.pc = pc]
End == job' = Idle

-----------------------------------------------------------------------------
(* The worktree and the runs in it. *)

\* startIssue: the base recorded is the one the clone knew before the fetch.
StartIssue ==
  /\ At("idle") /\ item.status = "none"
  /\ item' = [item EXCEPT !.status = "claiming", !.base = local.base, !.attempts = 1]
  /\ job' = [Idle EXCEPT !.pc = "ensure"]
  /\ UNCHANGED <<Remote, Files, used, done, Others>>

\* processExisting for a claim that was cut short.
ResumeClaim ==
  /\ At("idle") /\ item.status = "claiming"
  /\ job' = [Idle EXCEPT !.pc = "ensure"]
  /\ UNCHANGED <<item, Remote, Files, used, done, Others>>

\* Mutant: the worktree is always added, which git refuses when it is there.
EnsureAdds ==
  /\ At("ensure")
  /\ \/ Fault /\ End /\ UNCHANGED Files
     \/ tree # None /\ End /\ UNCHANGED <<Files, used>>
     \/ /\ tree = None /\ Goto("claimed") /\ UNCHANGED used
        /\ tree' = {}
        /\ local' = [base |-> origin.base,
                     branch |-> IF local.branch # None THEN local.branch
                                ELSE [base |-> origin.base, work |-> {}]]
  /\ UNCHANGED <<item, Remote, done, Others>>

\* Ensure: an existing worktree is taken over, an existing branch checked out.
\* A failure finds the Issue in a status that failIssue refuses.
Ensure ==
  /\ At("ensure")
  /\ \/ Fault /\ End /\ UNCHANGED Files
     \/ /\ Goto("claimed") /\ UNCHANGED used
        /\ IF tree # None THEN UNCHANGED Files
           ELSE /\ tree' = {}
                /\ local' = [base |-> origin.base,
                             branch |-> IF local.branch # None THEN local.branch
                                        ELSE [base |-> origin.base, work |-> {}]]
  /\ UNCHANGED <<item, Remote, done, Others>>

\* claimAndRun and runClaimed: the worktree is on record, the worker starts.
Claimed ==
  /\ At("claimed")
  /\ item' = [item EXCEPT !.status = "running", !.tree = TRUE]
  /\ Goto("work")
  /\ UNCHANGED <<Remote, Files, used, done, Others>>

\* captureContinuation keeps the stage of an older checkpoint.
Kept(stage) == IF item.stage = None THEN stage ELSE item.stage

\* failIssueAtStage
Fail(status, stage) == item' = [item EXCEPT !.status = status, !.stage = stage] /\ End

\* scheduleRetry and schedulePublicationRetry; a publication that failed once
\* too often leaves a checkpoint.
Retry(stage) ==
  IF item.attempts >= MaxAttempts THEN Fail("failed", stage)
  ELSE item' = [item EXCEPT !.status = "retry_wait"] /\ End

\* The worker edits its worktree and reports: completed, or a failure to retry.
Work ==
  /\ At("work")
  /\ IF tree = None THEN Fail("blocked", Kept("resume")) /\ UNCHANGED <<tree, used, done>>
     ELSE /\ tree' = tree \cup {Unit}
          /\ \/ /\ Spend("runs", MaxRuns)
                /\ done' = done \cup tree'
                /\ item' = [item EXCEPT !.result = TRUE] /\ Goto("validate")
             \/ /\ Fault /\ Retry(Kept("resume")) /\ UNCHANGED done
  /\ UNCHANGED <<Remote, local, Others>>

\* validateRemoteLaunch: the saved pull request is as it was last seen.
SamePull == item.pr => pull = "open" /\ item.head \in {None, origin.branch}

\* A retry that is due: a run of its own with the attempt counted.
StartRetry ==
  /\ At("idle") /\ item.status = "retry_wait"
  /\ IF ~SamePull THEN Fail("blocked", Kept("resume"))
     ELSE /\ item' = [item EXCEPT !.status = "running", !.attempts = @ + 1, !.result = FALSE]
          /\ job' = [Idle EXCEPT !.pc = "work"]
  /\ UNCHANGED <<Remote, Files, used, done, Others>>

\* What the operator resumed: the worker again, or (processPublicationCheckpoint)
\* the publication of a result that is still the one on file.
StartResumed ==
  /\ At("idle") /\ item.status = "resume_pending"
  /\ CASE ~SamePull -> Fail("blocked", Kept("resume"))
       [] SamePull /\ item.stage # "publish" ->
            /\ item' = [item EXCEPT !.status = "running"]
            /\ job' = [Idle EXCEPT !.pc = "work"]
       [] SamePull /\ item.stage = "publish" ->
            IF item.result /\ tree # None /\ item.pr = (pull = "open")
            THEN /\ item' = [item EXCEPT !.status = "running"]
                 /\ job' = [Idle EXCEPT !.pc = "validate", !.stage = "publish"]
            ELSE Fail("failed", "publish")
  /\ UNCHANGED <<Remote, Files, used, done, Others>>

-----------------------------------------------------------------------------
(* Publication. *)

\* Mutant: the failed publication of a checkpoint is retried like a run's.
CheckpointRetried ==
  IF job.stage = "publish" THEN item' = [item EXCEPT !.status = "retry_wait"] /\ End
  ELSE Retry("publish")

\* After a failed publication the Issue is retried, or at a publish checkpoint
\* (failCheckpointStage) fails again.
PublicationFails ==
  IF job.stage = "publish" THEN Fail("failed", "publish") ELSE Retry("publish")

\* git in a worktree that is gone, or a call that fails.
Broken == (tree = None /\ UNCHANGED used) \/ Fault

\* validateExistingPullRequest refuses.
Mismatch ==
  \/ item.pr /\ pull = None
  \/ pull \in {"closed", "merged"}
  \/ /\ pull = "open"
     /\ \/ item.base > local.branch.base
        \/ ~Ancestor(local.branch, origin.branch) /\ ~Ancestor(origin.branch, local.branch)

\* The base the changes are counted from: the one GitHub reports with a pull
\* request, unless that already contains the worktree's commits.
EffectiveBase ==
  IF pull = "open" /\ (origin.branch = local.branch \/ ~Ancestor(local.branch, origin.branch))
  THEN origin.base ELSE item.base

\* changedPaths between a base and the worktree: the commits of other Issues that
\* only one of them has (the Issue's own work is always among them).
Foreign(from) == (from + 1 .. local.branch.base) \cup (local.branch.base + 1 .. from)

\* Validation of the pull request there may be, and the list of changed paths.
ValidatePull ==
  /\ At("validate")
  /\ \/ Broken /\ PublicationFails /\ UNCHANGED local
     \/ Mismatch /\ PublicationFails /\ UNCHANGED <<local, used>>
     \/ /\ tree # None /\ ~Mismatch
        /\ local' = [local EXCEPT !.base = IF pull = "open" THEN origin.base ELSE @]
        /\ job' = [job EXCEPT !.pc = "format", !.others = Foreign(EffectiveBase),
                              !.head = IF pull = "open" THEN origin.branch ELSE None]
        /\ UNCHANGED <<used, item>>
  /\ UNCHANGED <<Remote, tree, done, Others>>

\* formatGo rewrites the changed files in place, another Issue's among them.
FormatGo ==
  /\ At("format")
  /\ \/ Broken /\ PublicationFails
     \/ tree # None /\ job' = [job EXCEPT !.pc = "commit", !.others = {}] /\ UNCHANGED <<used, item>>
  /\ UNCHANGED <<Remote, Files, done, Others>>

\* The commit of everything in the worktree.
CommitWork ==
  /\ At("commit")
  /\ \/ Broken /\ PublicationFails /\ UNCHANGED Files
     \/ /\ tree # None
        /\ local' = [local EXCEPT !.branch.work = @ \cup tree]
        /\ tree' = {}
        /\ Goto("merge")
        /\ UNCHANGED <<used, item>>
  /\ UNCHANGED <<Remote, done, Others>>

\* The published head is merged into the branch; a conflict is aborted and the
\* commit kept.
MergeHead ==
  /\ At("merge")
  /\ \/ Broken /\ PublicationFails /\ UNCHANGED local
     \/ /\ tree # None
        /\ local' = [local EXCEPT !.branch = IF job.head = None THEN @ ELSE Joined(@, job.head)]
        /\ Goto("push") /\ UNCHANGED <<used, item>>
  /\ UNCHANGED <<Remote, tree, done, Others>>

\* GitHub accepts a push that moves the branch forward.
FastForward == origin.branch # None => Ancestor(origin.branch, local.branch)

\* Mutant: a push that is rejected is taken for done.
PushUnchecked ==
  /\ At("push")
  /\ origin' = IF FastForward THEN [origin EXCEPT !.branch = local.branch] ELSE origin
  /\ Goto(IF job.head = None THEN "open" ELSE "record")
  /\ UNCHANGED <<item, used, pull, Files, done, Others>>

PushBranch ==
  LET pushed == [origin EXCEPT !.branch = local.branch]
  IN /\ At("push")
     /\ \/ ~FastForward /\ PublicationFails /\ UNCHANGED <<origin, used>>
        \/ Broken /\ PublicationFails /\ origin' \in {origin} \cup {o \in {pushed} : FastForward}
        \/ /\ FastForward /\ tree # None /\ origin' = pushed
           /\ Goto(IF job.head = None THEN "open" ELSE "record") /\ UNCHANGED <<used, item>>
     /\ UNCHANGED <<pull, Files, done, Others>>

\* openPullRequest: the one that is open, or a new one.
OpenPull ==
  /\ At("open")
  /\ \/ pull' = "open" /\ Goto("record") /\ UNCHANGED <<used, item>>
     \/ Fault /\ PublicationFails /\ pull' \in {pull, "open"}
  /\ UNCHANGED <<origin, Files, done, Others>>

\* The publication is on record; an older checkpoint stays.
RecordPull ==
  /\ At("record")
  /\ item' = [item EXCEPT !.status = "awaiting_checks", !.pr = TRUE]
  /\ End
  /\ UNCHANGED <<Remote, Files, used, done, Others>>

-----------------------------------------------------------------------------
(* The pull request's checks, reconciliation and the operator. *)

\* processPullRequest: the head is recorded, then what GitHub shows decides; a
\* branch behind its base is updated on GitHub.
Poll ==
  /\ At("idle") /\ item.status = "awaiting_checks"
  /\ LET seen == [item EXCEPT !.head = origin.branch]
     IN \/ /\ pull = "merged" /\ item' = [item EXCEPT !.status = "completed", !.stage = None]
           /\ UNCHANGED <<origin, used>>
        \/ /\ pull = "closed" \/ (pull = "open" /\ tree = None)
           /\ item' = [seen EXCEPT !.status = "blocked", !.stage = Kept("checks")]
           /\ UNCHANGED <<origin, used>>
        \/ /\ pull = "open" /\ tree # None /\ item' = seen
           /\ origin' \in {origin, [origin EXCEPT !.branch.base = origin.base]} /\ UNCHANGED used
        \/ /\ pull = "open" /\ tree # None /\ Fault /\ UNCHANGED origin
           /\ item' = IF item.attempts >= MaxAttempts
                      THEN [seen EXCEPT !.status = "failed", !.stage = "checks"]
                      ELSE [seen EXCEPT !.status = "retry_wait"]
  /\ UNCHANGED <<pull, Files, job, done, Others>>

\* DecideReconciliation for what the pull request and the worktree show.
Reconciled ==
  LET seen == [item EXCEPT !.pr = @ \/ pull # None,
                           !.head = IF pull = None THEN @ ELSE origin.branch]
  IN CASE item.status \in {"none", "completed"} -> item
       [] item.status \in {"failed", "blocked"} ->
            IF ~item.pr THEN item
            ELSE IF pull = "merged" THEN [seen EXCEPT !.status = "completed", !.stage = None] ELSE seen
       [] OTHER ->
            CASE pull = "merged" -> [seen EXCEPT !.status = "completed", !.stage = None]
              [] pull = "closed" \/ (IF item.tree THEN tree = None ELSE pull = "open") ->
                   [seen EXCEPT !.status = "blocked",
                                !.stage = Kept(IF item.status = "awaiting_checks" THEN "checks" ELSE "resume")]
              [] OTHER -> [seen EXCEPT !.status = IF @ = "running" THEN "retry_wait" ELSE @]

\* The supervisor is started again: reconcileStartup.  A retry that is not due
\* yet is left as it is.
Start ==
  /\ sup = "down" /\ sup' = "up"
  /\ item' \in {Reconciled} \cup {i \in {item} : i.status = "retry_wait"}
  /\ UNCHANGED <<Remote, Files, job, cli, used, done>>

\* The supervisor is stopped or dies, and its worker with it.
Stop ==
  /\ sup = "up" /\ Spend("stops", MaxStops)
  /\ sup' = "down" /\ End
  /\ UNCHANGED <<item, Remote, Files, cli, done>>

\* checkpointBaseAncestor and pullRequestsMatchCheckpoint
BaseKept == item.base <= local.branch.base
PullsMatch == item.pr = (pull = "open")

\* What buildIssuePlan observes of the worktree, the base, GitHub and the result.
PlanHolds ==
  /\ item.tree /\ tree # None /\ BaseKept /\ PullsMatch
  /\ item.stage = "publish" => item.result

\* The operator's resolve: the worktree is there and the pull request is the one
\* on record; checks are repeated for a clean and published head only.
Resolve ==
  /\ item.status \in {"failed", "blocked"} /\ item.stage # None
  /\ Spend("resolves", MaxResolves)
  /\ PlanHolds
  /\ IF item.stage = "checks"
     THEN /\ tree = {} /\ local.branch = origin.branch
          /\ item' = [item EXCEPT !.status = "awaiting_checks", !.head = local.branch]
     ELSE item' = [item EXCEPT !.status = "resume_pending"]
  /\ UNCHANGED <<Remote, Files, job, done, Others>>

-----------------------------------------------------------------------------
(* cleanup and purge. *)

Step(pc) == cli' = [cli EXCEPT !.pc = pc]
Finish == cli' = Quiet
Seen == [status |-> item.status, tree |-> item.tree]

\* cleanup reads the snapshot before it asks whether the supervisor is stopped.
Cleanup ==
  /\ cli.pc = "idle" /\ Spend("removals", MaxRemovals)
  /\ cli' = [pc |-> "stopped", seen |-> Seen, force |-> FALSE]
  /\ UNCHANGED <<Remote, Files, item, job, sup, done>>

\* purge asks first.
Purge ==
  /\ cli.pc = "idle" /\ Spend("removals", MaxRemovals) /\ sup = "down"
  /\ cli' = [pc |-> "inspect", seen |-> Seen, force |-> TRUE]
  /\ UNCHANGED <<Remote, Files, item, job, sup, done>>

\* requireStopped
RequireStopped ==
  /\ cli.pc = "stopped"
  /\ IF sup = "down" THEN Step("inspect") ELSE Finish
  /\ UNCHANGED <<Remote, Files, item, job, sup, used, done>>

\* worktree.Manager.Inspect: nothing uncommitted, nothing unpushed.
Clean ==
  /\ tree = {}
  /\ IF origin.branch # None THEN origin.branch = local.branch
     ELSE local.branch.work = {} /\ local.branch.base <= local.base

\* What inspect demands of a worktree that is old enough: an ended Issue, nothing
\* to lose, no open pull request.
Removable ==
  /\ cli.seen.tree /\ cli.seen.status \in {"completed", "failed"}
  /\ Clean /\ pull # "open"

InspectTree ==
  /\ cli.pc = "inspect"
  /\ IF IF cli.force THEN cli.seen.tree \/ tree # None ELSE Removable
     THEN Step("remove") ELSE Finish
  /\ UNCHANGED <<Remote, Files, item, job, sup, used, done>>

\* Mutant: cleanup removes the worktree by force.
RemoveTreeForced ==
  /\ cli.pc = "remove"
  /\ tree' = None /\ Step("record")
  /\ done' = IF tree = None \/ ~cli.force THEN done ELSE done \ tree
  /\ UNCHANGED <<Remote, local, item, job, sup, used>>

\* git worktree remove: a worktree with changes goes only by force, and then the
\* operator gives them up.  The branch stays.
RemoveTree ==
  /\ cli.pc = "remove"
  /\ IF cli.force \/ tree \in {None, {}}
     THEN /\ tree' = None /\ Step("record")
          /\ done' = IF tree = None THEN done ELSE done \ tree
     ELSE Finish /\ UNCHANGED <<tree, done>>
  /\ UNCHANGED <<Remote, local, item, job, sup, used>>

RecordRemoval ==
  /\ cli.pc = "record" /\ Finish
  /\ item' = [item EXCEPT !.tree = FALSE]
  /\ UNCHANGED <<Remote, Files, job, sup, used, done>>

\* The command dies.
Abandon ==
  /\ cli.pc # "idle" /\ Fault /\ Finish
  /\ UNCHANGED <<Remote, Files, item, job, sup, done>>

-----------------------------------------------------------------------------
(* GitHub and the others who use it. *)

AdvanceBase ==
  /\ origin.base < MaxBase
  /\ origin' = [origin EXCEPT !.base = @ + 1]
  /\ UNCHANGED <<pull, Files, item, job, used, done, Others>>

ForeignPush ==
  /\ pull = "open" /\ Spend("foreign", MaxForeign)
  /\ origin' = [origin EXCEPT !.branch.work = @ \cup {Unit}]
  /\ UNCHANGED <<pull, Files, item, job, done, Others>>

ClosePull ==
  /\ pull = "open" /\ pull' \in {"merged", "closed"}
  /\ UNCHANGED <<origin, Files, item, job, used, done, Others>>

Publish == ValidatePull \/ FormatGo \/ CommitWork \/ MergeHead \/ PushBranch \/ OpenPull \/ RecordPull
Run == StartIssue \/ ResumeClaim \/ Ensure \/ Claimed \/ Work \/ StartRetry \/ StartResumed
Remove == RequireStopped \/ InspectTree \/ RemoveTree \/ RecordRemoval
Outside == AdvanceBase \/ ForeignPush \/ ClosePull

Next ==
  \/ Run \/ Publish \/ Poll \/ Stop \/ Start \/ Resolve
  \/ Cleanup \/ Purge \/ Remove \/ Abandon
  \/ Outside

Spec == Init /\ [][Next]_vars

\* The supervisor's job goes on, what is due is started, and launchd starts the
\* supervisor again.
Fairness == WF_vars(Run) /\ WF_vars(Publish) /\ WF_vars(Start)

LiveSpec == Spec /\ Fairness

-----------------------------------------------------------------------------
(* Properties. *)

Held(c) == IF c = None THEN {} ELSE c.work

TypeOK ==
  /\ origin \in [base : 0 .. MaxBase, branch : Commits \cup {None}]
  /\ local \in [base : 0 .. MaxBase, branch : Commits \cup {None}]
  /\ tree \in (SUBSET Units) \cup {None} /\ pull \in {None, "open", "closed", "merged"}
  /\ item \in Items
  /\ sup \in {"up", "down"} /\ (sup = "down" => job = Idle)

\* Whatever fails, dies or is cleaned up between two steps, work that a completed
\* result stands for is in the worktree, on the Issue's branch or on GitHub, unless
\* the operator purged it (worktree.Manager, lifecycle.WorktreeManager, publish.go).
WorkKept == done \subseteq Held(local.branch) \cup Held(origin.branch) \cup (IF tree = None THEN {} ELSE tree)

\* An Issue waits for the checks of its pull request only once the pull request
\* holds the work of every completed result, those of runs whose publication
\* failed before included (Publish, publication retries and checkpoints).
PublishedWorkWhole == item.status = "awaiting_checks" => done \subseteq Held(origin.branch)

\* No worker starts while the checkpoint says that a completed result waits to be
\* published: the operator's retry of the stage publishes and does not repeat the
\* work (processPublicationCheckpoint, failCheckpointStage).  A pull request that
\* is there is worked on again, and a stopped supervisor forgets the stage.
WorkNotRedone ==
  (job.pc = "work" /\ item.stage = "publish") => item.pr \/ used.stops > 0

\* A claimed Issue's run comes to rest: it awaits its checks, is done, or tells the
\* operator why not, whichever step of preparing the worktree and publishing was
\* cut short (Ensure, processExisting, scheduleRetry, failIssueAtStage).
RunSettles ==
  item.status \in {"claiming", "running", "retry_wait", "resume_pending"}
    ~> item.status \in {"awaiting_checks", "failed", "blocked", "completed"}

\* A retry is stopped for its pull request only when somebody else touched it
\* (docs/specification.md 11.3.1 item 7 reuses the commits a failed push left).
OwnPushAccepted ==
  [][(sup = "up" /\ item.status = "retry_wait" /\ item'.status = "blocked") =>
       pull # "open" \/ used.foreign > 0]_vars

\* cleanup takes the worktree of an ended Issue only (docs/worktree-lifecycle.md);
\* it goes by a snapshot it read before it found the supervisor stopped.
CleanupKeepsActive ==
  [][(tree # None /\ tree' = None /\ ~cli.force) =>
       item.status \in {"completed", "failed"}]_vars

\* What is formatted and published as the Issue's changes is the Issue's alone
\* (docs/specification.md 11.3.1 item 2).
OnlyOwnChanges == job.others = {}
=============================================================================
