-------------------------- MODULE ConflictRecovery --------------------------
(***************************************************************************)
(* One Issue whose pull request conflicts with its base branch: the merge  *)
(* the supervisor prepares in the saved worktree, the conflict worker that *)
(* edits it, the verified merge commit and its push, and the ordinary      *)
(* worker path that an interrupted recovery falls back to.  The base       *)
(* branch advances, somebody pushes to the pull request, git and GitHub    *)
(* fail, and the supervisor dies between any two steps.                    *)
(***************************************************************************)
EXTENDS Naturals

CONSTANTS
  Clashes,            \* generations of the base branch that conflict with the pull request
  MaxBase,            \* bound: generations of the base branch
  MaxAttemptsPerBase, \* conflict_recovery.max_attempts_per_base
  MaxBaseUpdates,     \* conflict_recovery.max_base_updates
  MaxPushes,          \* bound: commits that GitHub or other people add to the branch
  MaxCrashes,         \* bound: supervisors killed
  MaxFaults,          \* bound: failed calls of git and of the state store
  MaxResolves,        \* bound: answers and resolutions of the operator
  LeftEarlier,        \* whether the runs before may have left a worker behind: values of left
  None                \* nothing there

ASSUME ConflictAssumption ==
  /\ MaxBase \in Nat \ {0} /\ Clashes \subseteq 2..MaxBase
  /\ {MaxAttemptsPerBase, MaxBaseUpdates} \subseteq Nat \ {0}
  /\ {MaxPushes, MaxCrashes, MaxFaults, MaxResolves} \subseteq Nat
  /\ LeftEarlier \subseteq BOOLEAN
  /\ None \notin [target : Nat, prev : Nat, head : Nat, files : BOOLEAN,
                 attempts : Nat, updates : Nat, green : BOOLEAN, running : BOOLEAN]

VARIABLES
  base,    \* GitHub: the generation of the base branch
  head,    \* GitHub: the commit the pull request's branch points to
  tree,    \* the worktree: HEAD, MERGE_HEAD, unmerged index entries, content
  item,    \* the Issue in the snapshot
  job,     \* where the supervisor's job stands and what it carries
  worker,  \* the process of the run's own worker lives
  left,    \* a worker lives that no record names: its supervisor died before it recorded it
  sup,     \* the supervisor process
  commits, \* commits made so far
  used,    \* the bounds used up
  hist     \* history: whether the worker reported its tests green for what is there, and
           \* whether a worker left behind edited after the report or the last commit

vars == <<base, head, tree, item, job, worker, left, sup, commits, used, hist>>

Statuses == {"awaiting_checks", "resolving_conflict", "launching", "running", "needs_input",
             "retry_wait", "resume_pending", "blocked", "completed"}
Contents == {"clean", "markers", "resolved", "stray"}
Authors == {"run", "recovery", "publisher", "github", "foreign"}
Idle == [pc |-> "idle", kind |-> None, green |-> FALSE, result |-> None]

Commit(n, parent, contains, merge, by, verified, touched) ==
  [n |-> n, parent |-> parent, base |-> contains, merge |-> merge, by |-> by,
   verified |-> verified, touched |-> touched]

Init ==
  /\ base = 1
  /\ head = Commit(1, 0, 1, 0, "run", TRUE, FALSE)
  /\ tree = [head |-> Commit(1, 0, 1, 0, "run", TRUE, FALSE), merge |-> 0, unmerged |-> FALSE,
             content |-> "clean"]
  /\ item = [status |-> "awaiting_checks", source |-> None, rec |-> None, stage |-> "checks",
             owns |-> FALSE, pid |-> FALSE, matches |-> TRUE, seen |-> 1]
  /\ job = Idle /\ worker = FALSE /\ left \in LeftEarlier /\ sup = "up" /\ commits = 1
  /\ used = [pushes |-> 0, crashes |-> 0, faults |-> 0, resolves |-> 0]
  /\ hist = [checked |-> FALSE, touched |-> FALSE]

\* Merging generation `to` into a commit that contains `from` conflicts.
Conflicting(from, to) == \E g \in Clashes : from < g /\ g <= to
Up == sup = "up"
At(pc) == Up /\ job.pc = pc
Goto(pc) == job' = [job EXCEPT !.pc = pc]
RemotePush == used.pushes < MaxPushes /\ used' = [used EXCEPT !.pushes = @ + 1] /\ commits' = commits + 1
Fault == used.faults < MaxFaults /\ used' = [used EXCEPT !.faults = @ + 1]

-----------------------------------------------------------------------------
(* The base branch, GitHub and other people. *)

AdvanceBase ==
  /\ base < MaxBase /\ item.status # "completed"
  /\ base' = base + 1
  /\ UNCHANGED <<head, tree, item, job, worker, left, sup, commits, used, hist>>

ForeignPush ==
  /\ item.status # "completed" /\ RemotePush
  /\ head' = Commit(commits + 1, head.n, head.base, 0, "foreign", TRUE, FALSE)
  /\ UNCHANGED <<base, tree, item, job, worker, left, sup, hist>>

-----------------------------------------------------------------------------
(* processPullRequest: the merge state decides before the checks do. *)

Poll == At("idle") /\ item.status = "awaiting_checks"
Seen(i) == [i EXCEPT !.seen = head.n]

\* "behind": GitHub merges the base into the pull request's branch.
UpdateBranch ==
  /\ Poll /\ head.base < base /\ ~Conflicting(head.base, base) /\ RemotePush
  /\ head' = Commit(commits + 1, head.n, base, 0, "github", TRUE, FALSE)
  /\ item' = Seen(item)
  /\ UNCHANGED <<base, tree, job, worker, left, sup, hist>>

MergePullRequest ==
  /\ Poll /\ head.base = base
  /\ item' = [Seen(item) EXCEPT !.status = "completed"]
  /\ UNCHANGED <<base, head, tree, job, worker, left, sup, commits, used, hist>>

\* failIssue: an execution still held leaves a checkpoint named after the status.
Blocked(i) ==
  [i EXCEPT !.status = "blocked", !.owns = FALSE, !.pid = FALSE,
            !.stage = IF i.owns THEN "resume" ELSE @, !.matches = @ \/ i.owns]
Block(i) == item' = Blocked(i) /\ job' = Idle

\* git merge --no-ff --no-commit of the fetched base; edits already there stay.
MergeBase(t) ==
  [t EXCEPT !.merge = base, !.unmerged = Conflicting(t.head.base, base),
            !.content = IF Conflicting(t.head.base, base) THEN "markers"
                        ELSE IF @ = "clean" THEN "resolved" ELSE @]

\* "dirty", which GitHub may still say of a merge it has just received:
\* beginConflictRecovery merges the base in the worktree before it records it.
BeginPrepare ==
  /\ Poll /\ (Conflicting(head.base, base) \/ item.rec # None)
  /\ \/ /\ tree.merge # 0 \/ (tree.head.base = base /\ head # tree.head)
        /\ Block(Seen(item))
        /\ UNCHANGED tree
     \/ /\ tree.merge = 0 /\ tree.head.base = base /\ head = tree.head
        /\ item' = Seen(item) /\ Goto("record_published")
        /\ UNCHANGED tree
     \/ /\ tree.merge = 0 /\ tree.head.base < base
        /\ item' = Seen(item) /\ Goto("record")
        /\ tree' = MergeBase(tree)
  /\ UNCHANGED <<base, head, worker, left, sup, commits, used, hist>>

\* Variant: the target recorded is the base as it is when the record is written.
RecordedLatest(target, files) ==
  LET old == item.rec
      same == old # None /\ old.target = base
  IN [target |-> base, prev |-> tree.head.base, head |-> tree.head.n, files |-> files,
      attempts |-> IF same THEN old.attempts ELSE 0,
      updates |-> IF old = None THEN 1 ELSE IF same THEN old.updates ELSE old.updates + 1,
      green |-> same /\ old.green, running |-> FALSE]

\* The record of a new preparation; the budgets follow the base it targets.
Recorded(target, files) ==
  LET old == item.rec
      same == old # None /\ old.target = target
  IN [target |-> target, prev |-> tree.head.base, head |-> tree.head.n, files |-> files,
      attempts |-> IF same THEN old.attempts ELSE 0,
      updates |-> IF old = None THEN 1 ELSE IF same THEN old.updates ELSE old.updates + 1,
      green |-> same /\ old.green, running |-> FALSE]

\* conflict_recovery_prepared, or conflict_recovery_base_budget_exceeded.
BeginRecord ==
  /\ At("record") \/ At("record_published")
  /\ LET rec == Recorded(IF job.pc = "record" THEN tree.merge ELSE tree.head.base, tree.unmerged)
         prepared == [item EXCEPT !.rec = rec, !.status = "resolving_conflict", !.matches = TRUE]
     IN /\ IF rec.updates > MaxBaseUpdates
           THEN Block([item EXCEPT !.rec = rec])
           ELSE /\ item' = prepared
                /\ job' = [Idle EXCEPT !.pc = IF job.pc = "record_published" THEN "finish"
                                              ELSE IF tree.unmerged THEN "acquire" ELSE "publish",
                                       !.kind = "conflict"]
  /\ UNCHANGED <<base, head, tree, worker, left, sup, commits, used, hist>>

\* describe fails after the merge, or the record of the preparation is lost.
BeginFails ==
  /\ At("record") \/ At("record_published")
  /\ Fault
  /\ job' = Idle
  /\ UNCHANGED <<base, head, tree, item, worker, left, sup, commits, hist>>

-----------------------------------------------------------------------------
(* processConflictRecovery. *)

\* ensurePendingExecution
Acquire ==
  /\ At("acquire") \/ At("idle")
  /\ item.status = "resolving_conflict" \/ (item.status = "launching" /\ item.source = "conflict")
  /\ item' = [item EXCEPT !.status = "launching", !.source = "conflict", !.owns = TRUE]
  /\ job' = [Idle EXCEPT !.pc = "prepare", !.kind = "conflict"]
  /\ UNCHANGED <<base, head, tree, worker, left, sup, commits, used, hist>>

\* The merge commit of the recorded base is there.
Merged == tree.merge = 0 /\ tree.head.merge = item.rec.target

\* AttemptBudget.Exhausted
Exhausted == item.rec.attempts >= MaxAttemptsPerBase

\* Variant: the attempt is not counted.
AttemptUncounted ==
  /\ item' = [item EXCEPT !.rec.running = TRUE, !.matches = FALSE]
  /\ Goto("spawn")

\* conflict_recovery_attempt_started: the attempt is counted before it runs.
Attempt ==
  /\ item' = [item EXCEPT !.rec.attempts = @ + 1, !.rec.running = TRUE, !.matches = FALSE]
  /\ Goto("spawn")

\* Prepare with the record: the merge under way, its commit, or else a merge of the
\* latest base; then what is published, publishable, or for a worker to resolve.
ProcessPrepare ==
  /\ At("prepare")
  /\ LET known == tree.merge # 0 \/ Merged
         fresh == ~known /\ tree.head.base < base
         after == IF fresh THEN MergeBase(tree) ELSE tree
         there == tree.merge = 0 /\ (Merged \/ tree.head.base = base)
     IN /\ tree' = after
        /\ \/ /\ tree.merge \notin {0, item.rec.target} \/ (~known /\ ~fresh /\ head # tree.head)
              /\ Block(item)
           \/ /\ there /\ head = tree.head
              /\ Goto("finish") /\ UNCHANGED item
           \/ /\ tree.merge = item.rec.target \/ fresh \/ (Merged /\ head # tree.head)
              /\ IF ~after.unmerged /\ (~item.rec.files \/ item.rec.green)
                 THEN job' = [job EXCEPT !.pc = "publish", !.green = TRUE] /\ UNCHANGED item
                 ELSE IF Exhausted THEN Block(item) ELSE Attempt
  /\ UNCHANGED <<base, head, worker, left, sup, commits, used, hist>>

\* The process of either kind of worker starts; its identity is recorded after that.
Spawn ==
  /\ At("spawn")
  /\ worker' = TRUE /\ Goto("started")
  /\ UNCHANGED <<base, head, tree, item, left, sup, commits, used, hist>>

RecordPID ==
  /\ At("started")
  /\ item' = [item EXCEPT !.status = "running", !.pid = TRUE]
  /\ Goto("working")
  /\ UNCHANGED <<base, head, tree, worker, left, sup, commits, used, hist>>

-----------------------------------------------------------------------------
(* The worker and what becomes of its result. *)

\* A worker edits the worktree, but stages and commits nothing.
Edit == \E c \in {"markers", "resolved", "stray"} : tree' = [tree EXCEPT !.content = c]
WorkerEdits ==
  /\ worker /\ Edit
  /\ hist' = [hist EXCEPT !.checked = FALSE]
  /\ UNCHANGED <<base, head, item, job, worker, left, sup, commits, used>>

\* So does a worker left behind, at any time: nobody waits for it and nobody stops it;
\* one that has ended edits no more.
\* What it changes between the staging and the commit is not in the commit, and is the
\* same as a change after it.
LeftEdits ==
  /\ left /\ Edit /\ ~At("commit")
  /\ hist' = [hist EXCEPT !.touched = TRUE]
  /\ UNCHANGED <<base, head, item, job, worker, left, sup, commits, used>>

WorkerExits ==
  /\ worker /\ ~At("started")
  /\ worker' = FALSE
  /\ IF At("working")
     THEN \E result \in {"completed", "needs_input", "retryable_failure", "blocked"}, green \in BOOLEAN :
            /\ green => result = "completed"
            /\ job' = [job EXCEPT !.pc = "result", !.result = result, !.green = green]
            /\ hist' = [hist EXCEPT !.checked = green, !.touched = @ /\ ~green]
     ELSE UNCHANGED <<job, hist>>
  /\ UNCHANGED <<base, head, tree, item, left, sup, commits, used>>

\* scheduleConflictRetry: a failure outside an attempt uses one up.
Effective == item.rec.attempts + (IF item.rec.running THEN 0 ELSE 1)
Waiting ==
  [item EXCEPT !.status = "resolving_conflict", !.owns = FALSE, !.pid = FALSE, !.matches = TRUE,
               !.rec.attempts = Effective, !.rec.running = FALSE]
ScheduleRetry(i) ==
  IF Effective < MaxAttemptsPerBase
  THEN item' = [Waiting EXCEPT !.rec.green = i.rec.green] /\ job' = Idle
  ELSE Block([i EXCEPT !.rec.attempts = Effective, !.rec.running = FALSE])

\* handleConflictResult: conflict_recovery_worker_completed and what follows it.
ConflictResult ==
  LET completed == job.result = "completed"
      told == IF completed THEN [item EXCEPT !.rec.green = job.green] ELSE item
  IN /\ At("result") /\ job.kind = "conflict"
     /\ CASE completed -> item' = told /\ Goto("publish")
          [] job.result = "needs_input" ->
               /\ item' = [item EXCEPT !.status = "needs_input", !.owns = FALSE, !.pid = FALSE,
                                       !.matches = TRUE, !.rec.running = FALSE]
               /\ job' = Idle
          [] job.result = "blocked" -> Block([item EXCEPT !.rec.running = FALSE])
          [] OTHER -> ScheduleRetry(told)
     /\ UNCHANGED <<base, head, tree, worker, left, sup, commits, used, hist>>

-----------------------------------------------------------------------------
(* Publish: verify, stage, commit, push, record. *)

\* Variant: the result of the tests is not looked at.
VerifiedAlways == TRUE

\* The worker's tests, required when files conflicted.
Verified == ~item.rec.files \/ job.green

\* The paths changed are in scope and hold no conflict markers.
InScope == tree.content \notin {"markers", "stray"}

PublishCheck ==
  /\ At("publish") /\ job.kind = "conflict"
  /\ IF ~Verified THEN ScheduleRetry(item)
     ELSE IF ~InScope \/ tree.merge \notin {0, item.rec.target} THEN Block(item)
     ELSE Goto(IF tree.merge = 0 THEN "push" ELSE "stage") /\ UNCHANGED item
  /\ UNCHANGED <<base, head, tree, worker, left, sup, commits, used, hist>>

\* git add --all takes whatever is there by now; only markers are looked for again.
StageMerge ==
  /\ At("stage") /\ job.kind = "conflict"
  /\ tree' = [tree EXCEPT !.unmerged = FALSE]
  /\ IF tree.content = "markers" THEN Block(item) ELSE Goto("commit") /\ UNCHANGED item
  /\ UNCHANGED <<base, head, worker, left, sup, commits, used, hist>>

\* git commit of the merge, by the supervisor's own path or the ordinary one.
CommitMerge ==
  /\ At("commit")
  /\ commits' = commits + 1
  /\ LET by == IF job.kind = "conflict" THEN "recovery" ELSE "publisher"
         in == IF tree.merge > tree.head.base THEN tree.merge ELSE tree.head.base
         ok == tree.content = "resolved" /\ (hist.checked \/ (job.kind = "conflict" /\ ~item.rec.files))
     IN tree' = [head |-> Commit(commits + 1, tree.head.n, in, tree.merge, by,
                                 ok /\ ~hist.touched, hist.touched),
                 merge |-> 0, unmerged |-> FALSE, content |-> "clean"]
  /\ hist' = [checked |-> FALSE, touched |-> FALSE]
  /\ Goto("push")
  /\ UNCHANGED <<base, head, item, worker, left, sup, used>>

\* The head holds the recorded base, the branch has not moved; then it is pushed.
Push ==
  /\ At("push") /\ job.kind = "conflict"
  /\ IF ~Merged THEN Block(item) /\ UNCHANGED head
     ELSE IF head = tree.head THEN Goto("finish") /\ UNCHANGED <<head, item>>
     ELSE IF head.n # item.rec.head THEN Block(item) /\ UNCHANGED head
     ELSE head' = tree.head /\ Goto("finish") /\ UNCHANGED item
  /\ UNCHANGED <<base, tree, worker, left, sup, commits, used, hist>>

\* A step of the recovery fails for once.
PublishFails ==
  /\ \E pc \in {"prepare", "publish", "stage", "commit", "push"} : At(pc)
  /\ job.kind = "conflict" /\ Fault
  /\ ScheduleRetry(item)
  /\ UNCHANGED <<base, head, tree, worker, left, sup, commits, hist>>

\* Preparing fails for once: the launch stays as it is.
PrepareFails ==
  /\ At("prepare") /\ Fault
  /\ IF Exhausted THEN Block(item) ELSE job' = Idle /\ UNCHANGED item
  /\ UNCHANGED <<base, head, tree, worker, left, sup, commits, hist>>

AwaitChecks(i) == [i EXCEPT !.status = "awaiting_checks", !.owns = FALSE, !.pid = FALSE, !.matches = TRUE]

\* conflict_recovery_published
FinishPublication ==
  /\ At("finish") /\ job.kind = "conflict"
  /\ item' = [AwaitChecks(item) EXCEPT !.rec.running = FALSE]
  /\ job' = Idle
  /\ UNCHANGED <<base, head, tree, worker, left, sup, commits, used, hist>>

-----------------------------------------------------------------------------
(* The ordinary worker, in a worktree that may hold a merge. *)

AcquireWorker ==
  /\ At("idle")
  /\ \/ item.status \in {"retry_wait", "resume_pending"}
     \/ item.status = "launching" /\ item.source \in {"retry_wait", "resume_pending"}
  /\ item' = [item EXCEPT !.status = "launching", !.owns = TRUE,
                          !.source = IF item.status = "launching" THEN @ ELSE item.status]
  /\ job' = [Idle EXCEPT !.pc = "spawn", !.kind = "worker"]
  /\ UNCHANGED <<base, head, tree, worker, left, sup, commits, used, hist>>

Retry(i) == [i EXCEPT !.status = "retry_wait", !.owns = FALSE, !.pid = FALSE, !.matches = TRUE]

WorkerResult ==
  /\ At("result") /\ job.kind = "worker"
  /\ CASE job.result = "completed" -> Goto("publish") /\ UNCHANGED item
       [] job.result = "retryable_failure" -> item' = Retry(item) /\ job' = Idle
       [] OTHER -> Block(item)
  /\ UNCHANGED <<base, head, tree, worker, left, sup, commits, used, hist>>

\* Manager.Publish stages everything; only markers stop the commit.
PublishWork ==
  /\ At("publish") /\ job.kind = "worker"
  /\ tree' = [tree EXCEPT !.unmerged = FALSE]
  /\ IF tree.content = "markers" THEN item' = Retry(item) /\ job' = Idle
     ELSE Goto(IF tree.merge = 0 /\ tree.content = "clean" THEN "push" ELSE "commit") /\ UNCHANGED item
  /\ UNCHANGED <<base, head, worker, left, sup, commits, used, hist>>

\* The published head is merged first when it is not an ancestor.
PushWork ==
  /\ At("push") /\ job.kind = "worker"
  /\ IF head.n \in {tree.head.n, tree.head.parent}
     THEN head' = tree.head /\ UNCHANGED <<tree, commits>>
     ELSE /\ commits' = commits + 1
          /\ LET contained == IF head.base > tree.head.base THEN head.base ELSE tree.head.base
             IN head' = Commit(commits + 1, tree.head.n, contained, 0, "publisher", FALSE, FALSE)
          /\ tree' = [tree EXCEPT !.head = head']
  /\ item' = AwaitChecks(item) /\ job' = Idle
  /\ UNCHANGED <<base, worker, left, sup, used, hist>>

-----------------------------------------------------------------------------
(* Operators, crashes and restarts. *)

Resolve == used.resolves < MaxResolves /\ used' = [used EXCEPT !.resolves = @ + 1]

\* The answer to a conflict worker's question.
Answer ==
  /\ item.status = "needs_input" /\ Resolve
  /\ item' = [item EXCEPT !.status = "resolving_conflict"]
  /\ UNCHANGED <<base, head, tree, job, worker, left, sup, commits, hist>>

\* issue resolve --action retry-stage
RetryStage ==
  LET fresh == IF item.rec = None THEN item ELSE [item EXCEPT !.rec.attempts = 0]
  IN /\ item.status = "blocked" /\ item.matches /\ Resolve
     /\ \/ /\ item.stage = "resume"
           /\ item' = [fresh EXCEPT !.status = "resume_pending"]
        \/ /\ item.stage = "checks" /\ head = tree.head /\ tree.merge = 0 /\ tree.content = "clean"
           /\ item' = [fresh EXCEPT !.status = "awaiting_checks", !.seen = head.n]
     /\ UNCHANGED <<base, head, tree, job, worker, left, sup, commits, hist>>

\* The operator undoes an unfinished merge of a blocked Issue by hand.
AbortMerge ==
  /\ item.status = "blocked" /\ item.stage = "checks" /\ tree.merge # 0
  /\ tree' = [tree EXCEPT !.merge = 0, !.unmerged = FALSE, !.content = "clean"]
  /\ UNCHANGED <<base, head, item, job, worker, left, sup, commits, used, hist>>

\* The supervisor is killed; its worker lives on, recorded or not.
Crash ==
  /\ Up /\ used.crashes < MaxCrashes
  /\ used' = [used EXCEPT !.crashes = @ + 1]
  /\ sup' = "down" /\ job' = Idle
  /\ worker' = (worker /\ item.pid)
  /\ left' = (left \/ (worker /\ ~item.pid))
  /\ UNCHANGED <<base, head, tree, item, commits, hist>>

\* RecoverUnstartedConflictLaunch: a conflict launch without a recorded worker must
\* fit its checkpoint and the base the run was claimed on.
Unstarted == item.status = "launching" /\ item.source = "conflict" /\ ~item.pid
Proven ==
  /\ item.matches /\ item.rec # None
  /\ item.rec.files /\ item.rec.prev = 1 /\ item.rec.head = item.seen

\* Run refuses to start, or recovers the launch, stops the recorded worker and
\* leaves its Issue for a retry.
Restart ==
  /\ sup = "down"
  /\ IF Unstarted /\ ~Proven THEN sup' = "refused" /\ UNCHANGED <<item, worker>>
     ELSE /\ sup' = "up"
          /\ IF Unstarted THEN item' = [item EXCEPT !.status = "resolving_conflict", !.owns = FALSE] /\ UNCHANGED worker
             ELSE IF item.pid THEN item' = [Retry(item) EXCEPT !.stage = "resume"] /\ worker' = FALSE
             ELSE IF item.status = "launching" THEN item' = Retry(item) /\ UNCHANGED worker
             ELSE UNCHANGED <<item, worker>>
  /\ UNCHANGED <<base, head, tree, job, left, commits, used, hist>>

Supervisor ==
  \/ BeginRecord \/ Acquire \/ ProcessPrepare \/ Spawn \/ RecordPID \/ WorkerExits
  \/ ConflictResult \/ PublishCheck \/ StageMerge \/ CommitMerge \/ Push \/ FinishPublication
  \/ AcquireWorker \/ WorkerResult \/ PublishWork \/ PushWork \/ Restart

Next ==
  \/ AdvanceBase \/ ForeignPush \/ UpdateBranch \/ MergePullRequest \/ BeginPrepare \/ BeginFails
  \/ WorkerEdits \/ LeftEdits \/ PublishFails \/ PrepareFails \/ Answer \/ RetryStage \/ AbortMerge \/ Crash
  \/ Supervisor

Spec == Init /\ [][Next]_vars

\* The scheduler keeps bringing the Issue forward, launchd restarts the supervisor,
\* a worker ends by its timeout.
FairSpec == Spec /\ WF_vars(Supervisor)

-----------------------------------------------------------------------------
(* Properties. *)

CommitType ==
  [n : Nat \ {0}, parent : Nat, base : 1..MaxBase, merge : 0..MaxBase,
   by : Authors, verified : BOOLEAN, touched : BOOLEAN]
RecType ==
  [target : 1..MaxBase, prev : 1..MaxBase, head : Nat \ {0}, files : BOOLEAN,
   attempts : 0..(MaxAttemptsPerBase + 1), updates : 1..(MaxBaseUpdates + MaxBase), green : BOOLEAN, running : BOOLEAN]

\* Every variable has its type, and the execution is held exactly by an Issue that
\* is launching or running a worker (status.go RequiresActiveExecution).
TypeOK ==
  /\ base \in 1..MaxBase /\ head \in CommitType /\ commits \in Nat
  /\ tree \in [head : CommitType, merge : 0..MaxBase, unmerged : BOOLEAN, content : Contents]
  /\ item.status \in Statuses /\ (item.rec = None \/ item.rec \in RecType)
  /\ item.stage \in {"checks", "resume"} /\ item.seen \in Nat
  /\ item.owns = (item.status \in {"launching", "running"})
  /\ item.pid = (item.status = "running")
  /\ worker \in BOOLEAN /\ left \in BOOLEAN /\ sup \in {"up", "down", "refused"}

\* A merge that the recovery commits carries a resolution within the recorded scope
\* and, where files conflicted, one whose tests a worker reported green
\* (conflict.go Publish, conflict_lifecycle.go handleConflictResult): unless a worker
\* that a dead supervisor left behind edited the worktree after that report, or after
\* the last commit when no worker was needed.
PublishedIsVerified ==
  \A c \in {head, tree.head} : c.by = "recovery" => c.verified \/ c.touched

\* The same without the exception (docs/specification.md:655): nothing in the commit
\* escaped the checks (conflict.go Publish).
CommitsAreVerified ==
  \A c \in {head, tree.head} : c.by = "recovery" => c.verified

\* A conflict worker edits the very merge that is recorded, with conflicts left in
\* the index: its prompt, scope and publication are taken from the record
\* (conflict.go Prepare).
OnRecordedMerge ==
  (job.kind = "conflict" /\ job.pc \in {"spawn", "started", "working", "result"}) =>
    /\ tree.merge = item.rec.target /\ tree.head.n = item.rec.head
    /\ tree.unmerged

\* That holds as long as the ordinary publisher has not merged the published head on
\* top of a merge: Prepare does not find the recorded base among that head's parents.
WorksOnRecordedMerge == tree.head.by # "publisher" => OnRecordedMerge

\* A recovery that is recorded ends: published, asking, blocked, or handed over
\* to the ordinary worker, unless the supervisor refuses to start.
RecoverySettles ==
  (item.status = "resolving_conflict") ~>
    (item.status \in {"awaiting_checks", "needs_input", "blocked", "retry_wait", "completed"} \/ sup = "refused")

\* A restart resumes whatever the recovery has left behind (docs/specification.md:656).
RestartResumes == sup # "refused"

\* A merge of the base reaches the pull request by way of the recovery's checks of
\* scope, markers and tests (docs/specification.md:655).
MergesAreChecked == head.merge # 0 => head.by = "recovery"
=============================================================================
