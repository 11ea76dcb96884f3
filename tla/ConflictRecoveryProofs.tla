----------------------- MODULE ConflictRecoveryProofs -----------------------
(***************************************************************************)
(* Proofs about ConflictRecovery, for every set of clashing base           *)
(* generations, every budget and every number of pushes, crashes, faults   *)
(* and resolutions: what the recovery commits has been verified, and a     *)
(* conflict worker edits the merge that is recorded.                       *)
(*                                                                         *)
(* Neither is inductive: both rest on where the supervisor's job and the   *)
(* worker process can be in each status of the Issue, across crashes, and  *)
(* on what the record says of the merge in the worktree.                   *)
(***************************************************************************)
EXTENDS ConflictRecovery, TLAPS

-----------------------------------------------------------------------------
(* The inductive invariant. *)

CommitT ==
  [n : Nat, parent : Nat, base : 1..MaxBase, merge : 0..MaxBase, by : Authors,
   verified : BOOLEAN, touched : BOOLEAN]
RecT ==
  [target : 1..MaxBase, prev : 1..MaxBase, head : Nat, files : BOOLEAN,
   attempts : Nat, updates : Nat, green : BOOLEAN, running : BOOLEAN]
Ordinary == {"retry_wait", "resume_pending"}
Places == {"idle", "record", "record_published", "acquire", "prepare", "spawn", "started",
           "working", "result", "publish", "stage", "commit", "push", "finish"}
Results == {"completed", "needs_input", "retryable_failure", "blocked"}
TreeT == [head : CommitT, merge : 0..MaxBase, unmerged : BOOLEAN, content : Contents]
ItemT ==
  [status : Statuses, source : {None, "conflict"} \cup Ordinary, rec : {None} \cup RecT,
   stage : {"checks", "resume"}, owns : BOOLEAN, pid : BOOLEAN, matches : BOOLEAN, seen : Nat]
JobT == [pc : Places, kind : {None, "conflict", "worker"}, green : BOOLEAN, result : {None} \cup Results]

TypeInv ==
  /\ base \in 1..MaxBase /\ head \in CommitT /\ commits \in Nat
  /\ tree \in TreeT /\ item \in ItemT /\ job \in JobT
  /\ worker \in BOOLEAN /\ left \in BOOLEAN /\ sup \in {"up", "down", "refused"}
  /\ used \in [pushes : Nat, crashes : Nat, faults : Nat, resolves : Nat]
  /\ hist \in [checked : BOOLEAN, touched : BOOLEAN]

Running == item.status \in {"launching", "running"}
OrdinaryRun == Running /\ item.source \in Ordinary
InRecovery ==
  \/ item.status \in {"resolving_conflict", "needs_input"}
  \/ Running /\ item.source = "conflict"
Working == {"spawn", "started", "working", "result"}
Publishing == {"publish", "stage", "commit", "push", "finish"}
Attempting == job.kind = "conflict" /\ job.pc \in Working

\* The execution is held, and the worker's identity recorded, exactly in the
\* statuses that say so.
ExecutionHeld == (item.owns <=> Running) /\ (item.pid <=> item.status = "running")

\* The status of the Issue at each place of the supervisor's job.
JobPlaced ==
  /\ job.pc = "idle" \/ sup = "up"
  /\ job.pc \in {"record", "record_published"} => item.status = "awaiting_checks"
  /\ job.pc = "record" => tree.merge # 0
  /\ job.pc = "record_published" => tree.merge = 0 /\ tree.head.by # "run" /\ item.rec # None
  /\ job.pc = "acquire" => item.status = "resolving_conflict"
  /\ job.pc = "prepare" => item.status = "launching" /\ item.source = "conflict" /\ job.kind = "conflict"
  /\ job.pc \in {"spawn", "started"} => item.status = "launching"
  /\ job.pc \in {"working", "result"} => item.status = "running"
  /\ job.pc \in Working \cup Publishing =>
       \/ job.kind = "conflict" /\ InRecovery /\ item.status # "needs_input"
       \/ job.kind = "worker" /\ OrdinaryRun
  /\ item.status = "running" => sup = "down" \/ job.pc \in {"working", "result"} \cup Publishing
  /\ job.pc \in Publishing /\ job.kind = "worker" => item.status = "running"

\* The run's worker lives only where a job waits for it, or on record, to be stopped.
WorkerPlaced ==
  worker =>
    \/ sup = "up" /\ job.pc \in {"started", "working"}
    \/ sup = "down" /\ item.status = "running"

\* What the worktree can look like, and the generations it can hold.
TreeShape ==
  /\ tree.head.merge <= tree.head.base
  /\ tree.merge <= base /\ tree.head.base <= base /\ head.base <= base
  /\ tree.merge # 0 => tree.merge > tree.head.base /\ tree.content # "clean"
  /\ tree.unmerged => tree.merge # 0
  /\ tree.head.by = "recovery" => tree.head.merge = tree.head.base
  /\ tree.head.by = "run" => tree.head.base = 1
  /\ tree.head.by \in {"run", "recovery", "publisher"}
  /\ item.rec # None => item.rec.target <= base /\ base > 1

Merging == tree.merge = item.rec.target
Contained == tree.head.base >= item.rec.target

\* A recovery that has begun keeps its record, and the recorded base is in the
\* worktree's head or being merged into it.
RecordKept ==
  /\ item.stage = "resume" \/ item.status \notin {"awaiting_checks", "blocked", "completed"} =>
       item.rec # None /\ (Contained \/ Merging)
  /\ (item.status = "awaiting_checks" \/ (item.status = "blocked" /\ item.stage = "checks"))
       /\ item.rec # None /\ item.rec.green => Contained
  /\ job.pc \in Publishing /\ item.status = "resolving_conflict" /\ item.rec.green => Contained
  /\ job.pc = "finish" => Contained
  /\ job.pc = "push" => tree.merge = 0

\* While the Issue is in recovery: the merge under way has the recorded head, its
\* conflicts leave the index only with tests reported green, and its commit is
\* found among the parents unless the ordinary publisher has committed on top.
OnRecord ==
  InRecovery =>
    /\ Merging => tree.head.n = item.rec.head
    /\ Merging /\ item.rec.files /\ ~tree.unmerged => item.rec.green /\ hist.checked
    /\ tree.merge = 0 =>
         \/ tree.head.merge = item.rec.target /\ (item.rec.files => item.rec.green)
         \/ tree.head.by = "publisher"

\* A conflict worker has conflicts to resolve, even when its supervisor is gone.
AttemptOpen ==
  /\ Attempting => ~item.matches /\ (Merging \/ tree.head.by = "publisher")
  /\ Attempting \/ (worker /\ Running /\ item.source = "conflict") => (Merging => tree.unmerged)

\* What the job carries from the report of the tests to the commit.
ChecksHold ==
  /\ Attempting /\ job.pc = "result" /\ job.green => hist.checked
  /\ job.kind = "conflict" /\ job.pc = "publish" /\ job.green /\ item.rec.files /\ Merging =>
       hist.checked /\ item.rec.green
  /\ job.kind = "conflict" /\ job.pc \in {"stage", "commit"} =>
       Merging /\ (item.rec.files => hist.checked /\ item.rec.green)

\* The content checked is what is committed, unless a worker left behind has edited it.
ContentHolds ==
  job.kind = "conflict" /\ job.pc \in {"stage", "commit"} => tree.content = "resolved" \/ hist.touched

IInv ==
  /\ TypeInv /\ ExecutionHeld /\ JobPlaced /\ WorkerPlaced /\ TreeShape
  /\ RecordKept /\ OnRecord /\ AttemptOpen /\ ChecksHold /\ ContentHolds
  /\ PublishedIsVerified

-----------------------------------------------------------------------------
(* Types. *)

\* A commit of the right parts is a commit.
LEMMA CommitTyped ==
  ASSUME NEW n \in Nat, NEW p \in Nat, NEW b \in 1..MaxBase, NEW m \in 0..MaxBase,
         NEW a \in Authors, NEW v \in BOOLEAN, NEW t \in BOOLEAN
  PROVE  Commit(n, p, b, m, a, v, t) \in CommitT
BY DEF Commit, CommitT

\* A record is something.
LEMMA RecordIsSomething == \A r \in RecT : r # None
BY ConflictAssumption DEF RecT

\* The record of a preparation is a record, and not the absence of one.
LEMMA RecordedTyped ==
  ASSUME TypeInv, NEW target \in 1..MaxBase, NEW files \in BOOLEAN
  PROVE  Recorded(target, files) \in RecT /\ Recorded(target, files) # None
<1>1. /\ tree.head.base \in 1..MaxBase /\ tree.head.n \in Nat
      /\ item.rec # None => item.rec \in RecT
  BY DEF TypeInv, TreeT, CommitT, ItemT
<1>2. Recorded(target, files) \in RecT
  BY <1>1 DEF Recorded, RecT
<1>. QED
  BY <1>2, RecordIsSomething

\* A merge of the base into the worktree is a worktree.
LEMMA MergeTyped ==
  ASSUME TypeInv
  PROVE  MergeBase(tree) \in TreeT
<1>1. Conflicting(tree.head.base, base) \in BOOLEAN
  BY DEF Conflicting
<1>2. base \in 0..MaxBase
  BY ConflictAssumption DEF TypeInv
<1>3. tree \in TreeT
  BY DEF TypeInv
<1>4. {"markers", "resolved"} \subseteq Contents /\ tree.content \in Contents
  BY DEF Contents, TypeInv, TreeT
<1>. HIDE DEF TypeInv, Contents, CommitT
<1>. QED
  BY <1>1, <1>2, <1>3, <1>4 DEF MergeBase, TreeT

\* A blocked item is an item.
LEMMA BlockedTyped ==
  ASSUME NEW i \in ItemT
  PROVE  Blocked(i) \in ItemT
BY DEF Blocked, ItemT, Statuses

\* No job is a job record too.
LEMMA IdleTyped == Idle \in JobT
BY DEF Idle, JobT, Places

\* Counters, base, commits and supervisor keep their types.
LEMMA CountersTyped ==
  ASSUME TypeInv, [Next]_vars
  PROVE  /\ used' \in [pushes : Nat, crashes : Nat, faults : Nat, resolves : Nat]
         /\ hist' \in [checked : BOOLEAN, touched : BOOLEAN]
         /\ base' \in 1..MaxBase /\ commits' \in Nat
         /\ worker' \in BOOLEAN /\ left' \in BOOLEAN /\ sup' \in {"up", "down", "refused"}
<1>. USE DEF Next, Supervisor, vars, AdvanceBase, ForeignPush, UpdateBranch, MergePullRequest,
       BeginPrepare, BeginFails, WorkerEdits, LeftEdits, Edit, PublishFails, PrepareFails, Answer, RetryStage,
       AbortMerge, Crash, BeginRecord, Acquire, ProcessPrepare, Spawn, RecordPID, WorkerExits,
       ConflictResult, PublishCheck, StageMerge, CommitMerge, Push, FinishPublication, AcquireWorker,
       WorkerResult, PublishWork, PushWork, Restart
<1>1. \/ used' = used
      \/ used' = [used EXCEPT !.pushes = @ + 1]
      \/ used' = [used EXCEPT !.faults = @ + 1]
      \/ used' = [used EXCEPT !.resolves = @ + 1]
      \/ used' = [used EXCEPT !.crashes = @ + 1]
  BY DEF RemotePush, Fault, Resolve
<1>2. \/ hist' = hist
      \/ hist' = [hist EXCEPT !.checked = FALSE]
      \/ hist' = [hist EXCEPT !.touched = TRUE]
      \/ hist' = [checked |-> FALSE, touched |-> FALSE]
      \/ \E c \in BOOLEAN : hist' = [hist EXCEPT !.checked = c, !.touched = @ /\ ~c]
  BY DEF Attempt
<1>3. base' = base \/ (base < MaxBase /\ base' = base + 1)
  OBVIOUS
<1>4. commits' \in {commits, commits + 1}
  BY DEF RemotePush
<1>a. item.pid \in BOOLEAN
  BY DEF TypeInv, ItemT
<1>5. worker' \in BOOLEAN /\ left' \in BOOLEAN /\ sup' \in {"up", "down", "refused"}
  BY <1>a DEF TypeInv
<1>. HIDE DEF Next
<1>6. used' \in [pushes : Nat, crashes : Nat, faults : Nat, resolves : Nat]
  BY <1>1 DEF TypeInv
<1>7. hist' \in [checked : BOOLEAN, touched : BOOLEAN]
  <2>1. hist \in [checked : BOOLEAN, touched : BOOLEAN]
    BY DEF TypeInv
  <2>2. ASSUME NEW c \in BOOLEAN, hist' = [hist EXCEPT !.checked = c, !.touched = @ /\ ~c]
        PROVE  hist' \in [checked : BOOLEAN, touched : BOOLEAN]
    <3>1. PICK u \in BOOLEAN : u = (hist.touched /\ ~c)
      OBVIOUS
    <3>2. hist' = [[hist EXCEPT !.checked = c] EXCEPT !.touched = u]
      BY <2>1, <2>2, <3>1
    <3>. QED
      BY ONLY <2>1, <3>2, c \in BOOLEAN, u \in BOOLEAN
  <2>3. CASE \E c \in BOOLEAN : hist' = [hist EXCEPT !.checked = c, !.touched = @ /\ ~c]
    <3>1. PICK c \in BOOLEAN : hist' = [hist EXCEPT !.checked = c, !.touched = @ /\ ~c]
      BY <2>3
    <3>. QED
      BY ONLY <2>2, <3>1
  <2>4. CASE \/ hist' = hist \/ hist' = [hist EXCEPT !.checked = FALSE]
             \/ hist' = [hist EXCEPT !.touched = TRUE]
             \/ hist' = [checked |-> FALSE, touched |-> FALSE]
    <3>1. PICK t \in BOOLEAN, f \in BOOLEAN : t = TRUE /\ f = FALSE
      OBVIOUS
    <3>2. \/ hist' = hist \/ hist' = [hist EXCEPT !.checked = f]
          \/ hist' = [hist EXCEPT !.touched = t] \/ hist' = [checked |-> f, touched |-> f]
      BY ONLY <2>4, <3>1
    <3>. QED
      BY ONLY <2>1, <3>2, t \in BOOLEAN, f \in BOOLEAN
  <2>. QED
    BY ONLY <1>2, <2>3, <2>4
<1>8. base' \in 1..MaxBase /\ commits' \in Nat
  BY <1>3, <1>4, ConflictAssumption DEF TypeInv
<1>. QED
  BY <1>5, <1>6, <1>7, <1>8

\* Every way a step changes the branch and the worktree.
LEMMA TreeMoves ==
  ASSUME [Next]_vars
  PROVE  \/ UNCHANGED <<head, tree>>
         \/ ForeignPush \/ UpdateBranch \/ BeginPrepare \/ ProcessPrepare \/ WorkerEdits
         \/ LeftEdits \/ StageMerge \/ CommitMerge \/ Push \/ PublishWork \/ PushWork \/ AbortMerge
BY DEF Next, Supervisor, vars, AdvanceBase, MergePullRequest, BeginFails, PublishFails,
       PrepareFails, Answer, RetryStage, Crash, BeginRecord, Acquire, Spawn, RecordPID,
       WorkerExits, ConflictResult, PublishCheck, FinishPublication, AcquireWorker, WorkerResult,
       Restart

\* The pull request and the worktree keep their types.
LEMMA TreeTyped ==
  ASSUME TypeInv, [Next]_vars
  PROVE  head' \in CommitT /\ tree' \in TreeT
<1>. USE DEF TypeInv
<1>1. /\ head.base \in 1..MaxBase /\ head.n \in Nat /\ tree.head \in CommitT
      /\ tree.merge \in 0..MaxBase /\ tree.head.base \in 1..MaxBase /\ tree.head.n \in Nat
      /\ commits + 1 \in Nat /\ 0 \in 0..MaxBase /\ TRUE \in BOOLEAN /\ FALSE \in BOOLEAN
  BY ConflictAssumption DEF TreeT, CommitT
<1>2. {"run", "recovery", "publisher", "github", "foreign"} \subseteq Authors
      /\ {"clean", "markers", "resolved", "stray"} \subseteq Contents
  BY DEF Authors, Contents
<1>3. CASE UNCHANGED <<head, tree>>
  BY <1>3
<1>4. CASE ForeignPush
  <2>1. Commit(commits + 1, head.n, head.base, 0, "foreign", TRUE, FALSE) \in CommitT
    BY <1>1, <1>2, CommitTyped
  <2>. QED
    BY <1>4, <2>1 DEF ForeignPush
<1>5. CASE UpdateBranch
  <2>1. Commit(commits + 1, head.n, base, 0, "github", TRUE, FALSE) \in CommitT
    BY <1>1, <1>2, CommitTyped
  <2>. QED
    BY <1>5, <2>1 DEF UpdateBranch
<1>6. CASE BeginPrepare \/ ProcessPrepare
  BY <1>6, MergeTyped DEF BeginPrepare, ProcessPrepare
<1>7. CASE WorkerEdits \/ LeftEdits \/ StageMerge \/ Push \/ PublishWork \/ AbortMerge
  BY <1>1, <1>2, <1>7 DEF WorkerEdits, LeftEdits, Edit, StageMerge, Push, PublishWork, AbortMerge, TreeT
<1>8. CASE CommitMerge
  <2>. DEFINE in == IF tree.merge > tree.head.base THEN tree.merge ELSE tree.head.base
              by == IF job.kind = "conflict" THEN "recovery" ELSE "publisher"
              ok == /\ tree.content = "resolved"
                    /\ hist.checked \/ (job.kind = "conflict" /\ ~item.rec.files)
                    /\ ~hist.touched
  <2>1. in \in 1..MaxBase /\ by \in Authors /\ ok \in BOOLEAN /\ hist.touched \in BOOLEAN
    BY <1>1 DEF Authors
  <2>2. /\ head' = head
        /\ tree' = [head |-> Commit(commits + 1, tree.head.n, in, tree.merge, by, ok, hist.touched),
                    merge |-> 0, unmerged |-> FALSE, content |-> "clean"]
    BY <1>8 DEF CommitMerge
  <2>. HIDE DEF in, by, ok
  <2>3. Commit(commits + 1, tree.head.n, in, tree.merge, by, ok, hist.touched) \in CommitT
    BY <1>1, <2>1, CommitTyped
  <2>. QED
    BY <1>1, <1>2, <2>2, <2>3 DEF TreeT
<1>9. CASE PushWork
  <2>. DEFINE in == IF head.base > tree.head.base THEN head.base ELSE tree.head.base
  <2>1. in \in 1..MaxBase
    BY <1>1
  <2>2. \/ head' = tree.head /\ tree' = tree
        \/ /\ head' = Commit(commits + 1, tree.head.n, in, 0, "publisher", FALSE, FALSE)
           /\ tree' = [tree EXCEPT !.head = head']
    BY <1>9 DEF PushWork
  <2>. HIDE DEF in
  <2>3. Commit(commits + 1, tree.head.n, in, 0, "publisher", FALSE, FALSE) \in CommitT
    BY <1>1, <1>2, <2>1, CommitTyped
  <2>4. head' \in CommitT
    BY <1>1, <2>2, <2>3
  <2>. QED
    BY <2>2, <2>4 DEF TreeT
<1>. QED
  BY <1>3, <1>4, <1>5, <1>6, <1>7, <1>8, <1>9, TreeMoves

\* Every way a step changes the Issue or the place of the job.
LEMMA ItemMoves ==
  ASSUME [Next]_vars
  PROVE  \/ UNCHANGED <<item, job>>
         \/ UpdateBranch \/ MergePullRequest \/ BeginPrepare \/ BeginRecord \/ BeginFails \/ Acquire
         \/ ProcessPrepare \/ Spawn \/ RecordPID \/ WorkerExits \/ ConflictResult \/ PublishCheck
         \/ StageMerge \/ CommitMerge \/ Push \/ PublishFails \/ PrepareFails \/ FinishPublication \/ AcquireWorker
         \/ WorkerResult \/ PublishWork \/ PushWork \/ Answer \/ RetryStage \/ Crash \/ Restart
BY DEF Next, Supervisor, vars, AdvanceBase, ForeignPush, WorkerEdits, LeftEdits, Edit, AbortMerge

\* The steps of the recovery find its record.
LEMMA RecordThere ==
  ASSUME TypeInv, JobPlaced, RecordKept,
         InRecovery \/ job.pc \in {"acquire", "prepare"} \cup Working \cup Publishing
  PROVE  item.rec \in RecT /\ item.rec # None
BY DEF TypeInv, ItemT, JobPlaced, RecordKept, InRecovery, Running, OrdinaryRun, Working, Publishing

\* What scheduling a retry leaves, with the tests as item i has them.
LEMMA RetryTyped ==
  ASSUME TypeInv, item.rec \in RecT, NEW i \in ItemT, i.rec \in RecT, ScheduleRetry(i)
  PROVE  item' \in ItemT /\ job' = Idle
<1>1. Effective \in Nat
  BY DEF Effective, RecT
<1>2. Waiting \in ItemT /\ Waiting.rec \in RecT
  BY <1>1 DEF Waiting, TypeInv, ItemT, RecT, Statuses
<1>3. [Waiting EXCEPT !.rec.green = i.rec.green] \in ItemT
  BY <1>2 DEF ItemT, RecT
<1>4. [i EXCEPT !.rec.attempts = Effective, !.rec.running = FALSE] \in ItemT
  BY <1>1 DEF ItemT, RecT
<1>. QED
  BY <1>3, <1>4, BlockedTyped DEF ScheduleRetry, Block

\* The item and the job keep their types.
LEMMA ItemTyped ==
  ASSUME TypeInv, JobPlaced, RecordKept, [Next]_vars
  PROVE  item' \in ItemT /\ job' \in JobT
<1>. USE DEF TypeInv
<1>a. /\ \A pc \in Places : [job EXCEPT !.pc = pc] \in JobT /\ [Idle EXCEPT !.pc = pc] \in JobT
      /\ \A pc \in Places, k \in {"conflict", "worker"} : [Idle EXCEPT !.pc = pc, !.kind = k] \in JobT
      /\ Idle \in JobT /\ head.n \in Nat
  BY DEF Idle, JobT, Places, CommitT
<1>b. \A pc \in Places : Goto(pc) => job' \in JobT
  BY <1>a DEF Goto
<1>c. {"record", "record_published", "acquire", "prepare", "spawn", "started",
       "working", "result", "publish", "stage", "commit", "push", "finish"} \subseteq Places
  BY DEF Places
<1>d. \A i \in ItemT : Block(i) => item' \in ItemT /\ job' \in JobT
  BY <1>a, BlockedTyped DEF Block
<1>1. CASE UNCHANGED <<item, job>>
  BY <1>1
<1>2. CASE UpdateBranch \/ MergePullRequest \/ BeginFails
  <2>1. item' \in ItemT
    BY <1>2, <1>a DEF UpdateBranch, MergePullRequest, BeginFails, Seen, ItemT, Statuses
  <2>. QED
    BY <1>2, <1>a, <2>1 DEF UpdateBranch, MergePullRequest, BeginFails
<1>3. CASE BeginPrepare
  <2>1. Seen(item) \in ItemT
    BY <1>a DEF Seen, ItemT
  <2>. QED
    BY <1>3, <1>b, <1>c, <1>d, <2>1 DEF BeginPrepare
<1>4. CASE BeginRecord
  <2>. DEFINE target == IF job.pc = "record" THEN tree.merge ELSE tree.head.base
              rec == Recorded(target, tree.unmerged)
              pc == IF job.pc = "record_published" THEN "finish"
                    ELSE IF tree.unmerged THEN "acquire" ELSE "publish"
              prepared == [item EXCEPT !.rec = rec, !.status = "resolving_conflict", !.matches = TRUE]
  <2>1. target \in 1..MaxBase /\ tree.unmerged \in BOOLEAN
    BY <1>4 DEF BeginRecord, At, JobPlaced, TreeT, CommitT
  <2>2. rec \in RecT
    BY <2>1, RecordedTyped
  <2>3. \/ Block([item EXCEPT !.rec = rec])
        \/ item' = prepared /\ job' = [Idle EXCEPT !.pc = pc, !.kind = "conflict"]
    BY <1>4 DEF BeginRecord
  <2>4. pc \in Places
    BY <1>c
  <2>. HIDE DEF rec, pc
  <2>5. [item EXCEPT !.rec = rec] \in ItemT /\ prepared \in ItemT
    BY <2>2 DEF ItemT, Statuses
  <2>. HIDE DEF prepared
  <2>. QED
    BY <1>a, <1>d, <2>3, <2>4, <2>5
<1>5. CASE Acquire \/ AcquireWorker
  <2>1. item.source \in {None, "conflict"} \cup Ordinary
    BY DEF ItemT
  <2>2. ASSUME NEW src \in {None, "conflict"} \cup Ordinary
        PROVE  [item EXCEPT !.status = "launching", !.source = src, !.owns = TRUE] \in ItemT
    BY DEF ItemT, Statuses
  <2>3. CASE Acquire
    BY <1>a, <1>c, <2>2, <2>3 DEF Acquire
  <2>4. CASE AcquireWorker
    <3>. DEFINE src == IF item.status = "launching" THEN item.source ELSE item.status
    <3>1. src \in {None, "conflict"} \cup Ordinary
      BY <2>1, <2>4 DEF AcquireWorker, Ordinary
    <3>2. item' = [item EXCEPT !.status = "launching", !.owns = TRUE, !.source = src]
      BY <2>4 DEF AcquireWorker
    <3>. HIDE DEF src
    <3>3. item' = [item EXCEPT !.status = "launching", !.source = src, !.owns = TRUE]
      BY <3>2 DEF ItemT
    <3>4. item' \in ItemT
      BY <2>2, <3>1, <3>3
    <3>5. job' \in JobT
      BY <1>a, <1>c, <2>4 DEF AcquireWorker
    <3>. QED
      BY <3>4, <3>5
  <2>. QED
    BY <1>5, <2>3, <2>4
<1>6. CASE ProcessPrepare
  <2>1. item.rec \in RecT
    BY <1>6, RecordThere DEF ProcessPrepare, At
  <2>2. \/ Block(item)
        \/ item' = item /\ Goto("finish")
        \/ item' = item /\ job' = [job EXCEPT !.pc = "publish", !.green = TRUE]
        \/ Attempt
    BY <1>6 DEF ProcessPrepare
  <2>3. [job EXCEPT !.pc = "publish", !.green = TRUE] \in JobT
    BY <1>c DEF JobT
  <2>4. CASE Attempt
    <3>. DEFINE rec == [item.rec EXCEPT !.attempts = @ + 1, !.running = TRUE]
    <3>a. item.rec.attempts + 1 \in Nat
      BY <2>1 DEF RecT
    <3>1. rec \in RecT
      BY <2>1, <3>a DEF RecT
    <3>2. item' = [item EXCEPT !.rec = rec, !.matches = FALSE]
      BY <2>1, <2>4 DEF Attempt, ItemT, RecT
    <3>3. item' \in ItemT
      BY <3>1, <3>2 DEF ItemT
    <3>. QED
      BY <1>b, <1>c, <2>4, <3>3 DEF Attempt
  <2>. QED
    BY <1>b, <1>c, <1>d, <2>2, <2>3, <2>4
<1>7. CASE Spawn \/ RecordPID \/ CommitMerge
  <2>1. item' \in ItemT
    BY <1>7 DEF Spawn, RecordPID, CommitMerge, ItemT, Statuses
  <2>. QED
    BY <1>7, <1>b, <1>c, <2>1 DEF Spawn, RecordPID, CommitMerge
<1>8. CASE WorkerExits
  <2>1. ASSUME NEW r \in Results, NEW g \in BOOLEAN
        PROVE  [job EXCEPT !.pc = "result", !.result = r, !.green = g] \in JobT
    BY <1>c DEF JobT
  <2>. QED
    BY <1>8, <2>1 DEF WorkerExits, Results
<1>9. CASE ConflictResult
  <2>1. item.rec \in RecT
    BY <1>9, RecordThere DEF ConflictResult, At, Working
  <2>. DEFINE told == [item EXCEPT !.rec.green = job.green]
              asking == [item EXCEPT !.status = "needs_input", !.owns = FALSE, !.pid = FALSE,
                                     !.matches = TRUE, !.rec.running = FALSE]
  <2>2. told \in ItemT /\ asking \in ItemT /\ [item EXCEPT !.rec.running = FALSE] \in ItemT
    BY <2>1 DEF ItemT, RecT, JobT, Statuses
  <2>3. \/ item' = told /\ Goto("publish")
        \/ item' = asking /\ job' = Idle
        \/ Block([item EXCEPT !.rec.running = FALSE])
        \/ ScheduleRetry(item)
    BY <1>9 DEF ConflictResult
  <2>. HIDE DEF told, asking
  <2>. QED
    BY <1>a, <1>b, <1>c, <1>d, <2>1, <2>2, <2>3, RetryTyped
<1>10. CASE PublishCheck \/ StageMerge \/ PublishFails
  <2>1. item.rec \in RecT
    BY <1>10, RecordThere DEF PublishCheck, StageMerge, PublishFails, At, Publishing
  <2>. QED
    BY <1>10, <1>a, <1>b, <1>c, <1>d, <2>1, RetryTyped DEF PublishCheck, StageMerge, PublishFails
<1>11. CASE Push \/ PrepareFails
  BY <1>11, <1>a, <1>b, <1>c, <1>d DEF Push, PrepareFails
<1>12. CASE FinishPublication
  <2>1. item.rec \in RecT
    BY <1>12, RecordThere DEF FinishPublication, At, Publishing
  <2>2. item' \in ItemT
    BY <1>12, <2>1 DEF FinishPublication, AwaitChecks, ItemT, RecT, Statuses
  <2>. QED
    BY <1>12, <1>a, <2>2 DEF FinishPublication
<1>13. CASE WorkerResult \/ PublishWork \/ PushWork
  <2>1. Retry(item) \in ItemT /\ AwaitChecks(item) \in ItemT
    BY DEF Retry, AwaitChecks, ItemT, Statuses
  <2>. QED
    BY <1>13, <1>a, <1>b, <1>c, <1>d, <2>1 DEF WorkerResult, PublishWork, PushWork
<1>14. CASE Answer \/ Crash
  <2>1. item' \in ItemT
    BY <1>14 DEF Answer, Crash, ItemT, Statuses
  <2>. QED
    BY <1>14, <1>a, <2>1 DEF Answer, Crash
<1>15. CASE RetryStage
  <2>. DEFINE fresh == IF item.rec = None THEN item ELSE [item EXCEPT !.rec.attempts = 0]
  <2>1. fresh \in ItemT
    BY DEF ItemT, RecT
  <2>2. /\ job' = job
        /\ \/ item' = [fresh EXCEPT !.status = "resume_pending"]
           \/ item' = [fresh EXCEPT !.status = "awaiting_checks", !.seen = head.n]
    BY <1>15 DEF RetryStage
  <2>. HIDE DEF fresh
  <2>3. item' \in ItemT
    BY <1>a, <2>1, <2>2 DEF ItemT, Statuses
  <2>. QED
    BY <2>2, <2>3
<1>16. CASE Restart
  <2>1. /\ [item EXCEPT !.status = "resolving_conflict", !.owns = FALSE] \in ItemT
        /\ [Retry(item) EXCEPT !.stage = "resume"] \in ItemT /\ Retry(item) \in ItemT
    BY DEF Retry, ItemT, Statuses
  <2>. QED
    BY <1>16, <2>1 DEF Restart
<1>. QED
  BY <1>1, <1>2, <1>3, <1>4, <1>5, <1>6, <1>7, <1>8, <1>9, <1>10, <1>11, <1>12, <1>13, <1>14,
     <1>15, <1>16, ItemMoves

\* So the type invariant is kept.
LEMMA StepKeepsTypes ==
  ASSUME TypeInv, JobPlaced, RecordKept, [Next]_vars
  PROVE  TypeInv'
BY CountersTyped, TreeTyped, ItemTyped DEF TypeInv

-----------------------------------------------------------------------------
(* Where the job, the worker and the Issue can be. *)

\* What blocking leaves.
LEMMA BlockFields ==
  ASSUME NEW i \in ItemT, Block(i)
  PROVE  /\ job' = Idle /\ item'.status = "blocked" /\ item'.owns = FALSE /\ item'.pid = FALSE
         /\ item'.stage = (IF i.owns THEN "resume" ELSE i.stage)
         /\ item'.source = i.source /\ item'.rec = i.rec
BY DEF Block, Blocked, ItemT

\* What scheduling a retry leaves, with the tests as item i has them.
LEMMA RetryFields ==
  ASSUME TypeInv, item.rec \in RecT, NEW i \in ItemT, i.rec \in RecT,
         i.stage = item.stage, i.owns = item.owns, i.rec.target = item.rec.target,
         i.rec.head = item.rec.head, i.rec.files = item.rec.files, ScheduleRetry(i)
  PROVE  /\ job' = Idle /\ item'.owns = FALSE /\ item'.pid = FALSE
         /\ \/ item'.status = "resolving_conflict" /\ item'.stage = item.stage
            \/ /\ item'.status = "blocked"
               /\ item'.stage = (IF item.owns THEN "resume" ELSE item.stage)
         /\ item'.rec # None /\ item'.rec.target = item.rec.target /\ item'.rec.head = item.rec.head
         /\ item'.rec.files = item.rec.files /\ item'.rec.green = i.rec.green
<1>1. item \in ItemT /\ Effective \in Nat
  BY DEF TypeInv, Effective, RecT
<1>2. \A r \in RecT : r # None
  BY RecordIsSomething
<1>3. CASE Effective < MaxAttemptsPerBase
  <2>. DEFINE rec == [item.rec EXCEPT !.attempts = Effective, !.running = FALSE, !.green = i.rec.green]
  <2>1. rec \in RecT
    BY <1>1 DEF RecT
  <2>2. /\ item' = [item EXCEPT !.status = "resolving_conflict", !.owns = FALSE, !.pid = FALSE,
                                !.matches = TRUE, !.rec = rec]
        /\ job' = Idle
    BY <1>1, <1>3 DEF ScheduleRetry, Waiting, ItemT, RecT
  <2>3. /\ rec.target = item.rec.target /\ rec.head = item.rec.head
        /\ rec.files = item.rec.files /\ rec.green = i.rec.green
    BY DEF RecT
  <2>. HIDE DEF rec
  <2>. QED
    BY <1>1, <1>2, <2>1, <2>2, <2>3 DEF ItemT
<1>4. CASE ~(Effective < MaxAttemptsPerBase)
  <2>. DEFINE rec == [i.rec EXCEPT !.attempts = Effective, !.running = FALSE]
              j == [i EXCEPT !.rec = rec]
  <2>1. rec \in RecT
    BY <1>1 DEF RecT
  <2>2. /\ rec.target = item.rec.target /\ rec.head = item.rec.head
        /\ rec.files = item.rec.files /\ rec.green = i.rec.green
    BY DEF RecT
  <2>3. Block(j)
    BY <1>4 DEF ScheduleRetry, ItemT, RecT
  <2>. HIDE DEF rec
  <2>4. j \in ItemT /\ j.owns = item.owns /\ j.stage = item.stage /\ j.rec = rec
    BY <2>1 DEF ItemT
  <2>. HIDE DEF j
  <2>. QED
    BY <1>2, <2>1, <2>2, <2>3, <2>4, BlockFields
<1>. QED
  BY <1>3, <1>4

\* What a step leaves of the Issue, with its execution held as its status says.
Becomes(status, stage) ==
  /\ item'.status = status /\ item'.stage = stage
  /\ (item'.owns <=> status \in {"launching", "running"}) /\ (item'.pid <=> status = "running")
Kept == item'.source = item.source /\ item'.rec = item.rec

UpdateBranchEffect ==
  Becomes(item.status, item.stage) /\ Kept /\ job' = job
  /\ item.status = "awaiting_checks" /\ job.pc = "idle"
MergePullRequestEffect ==
  Becomes("completed", item.stage) /\ Kept /\ job' = job
  /\ item.status = "awaiting_checks" /\ job.pc = "idle"
BeginPrepareEffect ==
  /\ item.status = "awaiting_checks" /\ job.pc = "idle" /\ Kept
  /\ \/ Becomes("blocked", item.stage) /\ job'.pc = "idle"
     \/ /\ Becomes("awaiting_checks", item.stage)
        /\ \/ job'.pc = "record_published" /\ tree' = tree /\ tree.merge = 0
              /\ tree.head.base = base /\ item.rec # None
           \/ job'.pc = "record" /\ tree' = MergeBase(tree) /\ tree.merge = 0
              /\ tree.head.base < base

\* What the poll of the pull request may change.
LEMMA PollEffects ==
  ASSUME TypeInv, ExecutionHeld, JobPlaced
  PROVE  /\ UpdateBranch => UpdateBranchEffect
         /\ MergePullRequest => MergePullRequestEffect
         /\ BeginPrepare => BeginPrepareEffect
<1>. USE DEF UpdateBranchEffect, MergePullRequestEffect, BeginPrepareEffect, ExecutionHeld, Running,
             Becomes, Kept
<1>a. item \in ItemT /\ job \in JobT
  BY DEF TypeInv
<1>1. ASSUME UpdateBranch
      PROVE  UpdateBranchEffect
  BY <1>a, <1>1 DEF UpdateBranch, Poll, At, Seen, ItemT
<1>2. ASSUME MergePullRequest
      PROVE  MergePullRequestEffect
  BY <1>a, <1>2 DEF MergePullRequest, Poll, At, Seen, ItemT
<1>3. ASSUME BeginPrepare
      PROVE  BeginPrepareEffect
  <2>1. /\ Seen(item) \in ItemT /\ Seen(item).owns = item.owns /\ Seen(item).pid = item.pid
        /\ Seen(item).status = item.status /\ Seen(item).stage = item.stage
        /\ Seen(item).source = item.source /\ Seen(item).rec = item.rec
    BY <1>a DEF Seen, ItemT, TypeInv, CommitT
  <2>2. item.status = "awaiting_checks" /\ job.pc = "idle"
    BY <1>3 DEF BeginPrepare, Poll, At
  <2>3. CASE Block(Seen(item))
    <3>1. /\ job' = Idle /\ item'.status = "blocked" /\ item'.owns = FALSE /\ item'.pid = FALSE
          /\ item'.stage = (IF item.owns THEN "resume" ELSE item.stage)
          /\ item'.source = item.source /\ item'.rec = item.rec
      BY <2>1, <2>3, BlockFields
    <3>. QED
      BY <2>2, <3>1 DEF Idle
  <2>4. CASE item' = Seen(item) /\ Goto("record_published") /\ tree' = tree /\ tree.merge = 0
             /\ tree.head.base = base /\ head = tree.head
    <3>1. item.rec # None
      <4>1. /\ Clashes \subseteq Nat /\ base \in Nat /\ tree.head.base = base /\ head = tree.head
            /\ Conflicting(head.base, base) \/ item.rec # None
        BY <1>3, <2>4, ConflictAssumption DEF BeginPrepare, TypeInv
      <4>2. ~Conflicting(base, base)
        BY <4>1 DEF Conflicting
      <4>. QED
        BY <4>1, <4>2
    <3>. QED
      BY <1>a, <2>1, <2>2, <2>4, <3>1 DEF Goto, JobT
  <2>5. CASE item' = Seen(item) /\ Goto("record") /\ tree' = MergeBase(tree) /\ tree.merge = 0
             /\ tree.head.base < base
    BY <1>a, <2>1, <2>2, <2>5 DEF Goto, JobT
  <2>. QED
    BY <1>3, <2>3, <2>4, <2>5 DEF BeginPrepare
<1>. QED
  BY <1>1, <1>2, <1>3

BeginRecordEffect ==
  /\ item.status = "awaiting_checks" /\ job.pc \in {"record", "record_published"}
  /\ item'.rec \in RecT /\ item'.rec # None /\ item'.source = item.source
  /\ item'.rec.target = (IF job.pc = "record" THEN tree.merge ELSE tree.head.base)
  /\ item'.rec.head = tree.head.n /\ item'.rec.files = tree.unmerged
  /\ item'.rec.green => /\ item.rec # None /\ item.rec.green
                        /\ item.rec.target = item'.rec.target
  /\ \/ Becomes("blocked", item.stage) /\ job'.pc = "idle"
     \/ /\ Becomes("resolving_conflict", item.stage) /\ job'.kind = "conflict"
        /\ ~job'.green
        /\ job'.pc = (IF job.pc = "record_published" THEN "finish"
                      ELSE IF tree.unmerged THEN "acquire" ELSE "publish")
  /\ hist'.checked = hist.checked /\ tree' = tree

\* What the record of a conflict changes (beginConflictRecovery).
LEMMA RecordEffects ==
  ASSUME TypeInv, ExecutionHeld, JobPlaced, BeginRecord
  PROVE  BeginRecordEffect
<1>. USE DEF BeginRecordEffect, ExecutionHeld, Running, Becomes
<1>a. item \in ItemT /\ item.status = "awaiting_checks" /\ job.pc \in {"record", "record_published"}
  BY DEF TypeInv, BeginRecord, At, JobPlaced
<1>. DEFINE target == IF job.pc = "record" THEN tree.merge ELSE tree.head.base
            rec == Recorded(target, tree.unmerged)
<1>1. target \in 1..MaxBase /\ tree.unmerged \in BOOLEAN
  BY <1>a DEF JobPlaced, TypeInv, TreeT, CommitT
<1>2. rec \in RecT /\ rec # None
  BY <1>1, RecordedTyped
<1>3. /\ rec.target = target /\ rec.head = tree.head.n /\ rec.files = tree.unmerged
      /\ rec.green => item.rec # None /\ item.rec.green /\ item.rec.target = target
  BY <1>1 DEF Recorded
<1>4. \/ Block([item EXCEPT !.rec = rec])
      \/ /\ item' = [item EXCEPT !.rec = rec, !.status = "resolving_conflict", !.matches = TRUE]
         /\ job' = [Idle EXCEPT !.pc = IF job.pc = "record_published" THEN "finish"
                                       ELSE IF tree.unmerged THEN "acquire" ELSE "publish",
                                !.kind = "conflict"]
  BY DEF BeginRecord
<1>5. hist'.checked = hist.checked /\ tree' = tree
  BY DEF BeginRecord, TypeInv
<1>. HIDE DEF rec
<1>6. CASE Block([item EXCEPT !.rec = rec])
  <2>. DEFINE j == [item EXCEPT !.rec = rec]
  <2>1. j \in ItemT /\ j.rec = rec /\ j.stage = item.stage /\ j.source = item.source /\ j.owns = item.owns
    BY <1>a, <1>2 DEF ItemT
  <2>. HIDE DEF j
  <2>2. /\ job' = Idle /\ item'.status = "blocked" /\ item'.owns = FALSE /\ item'.pid = FALSE
        /\ item'.stage = (IF item.owns THEN "resume" ELSE item.stage)
        /\ item'.source = item.source /\ item'.rec = rec
    BY <1>6, <2>1, BlockFields DEF j
  <2>. QED
    BY <1>a, <1>2, <1>3, <1>5, <2>2 DEF Idle
<1>7. CASE /\ item' = [item EXCEPT !.rec = rec, !.status = "resolving_conflict", !.matches = TRUE]
           /\ job' = [Idle EXCEPT !.pc = IF job.pc = "record_published" THEN "finish"
                                         ELSE IF tree.unmerged THEN "acquire" ELSE "publish",
                                  !.kind = "conflict"]
  <2>1. /\ item'.rec = rec /\ item'.status = "resolving_conflict" /\ item'.stage = item.stage
        /\ item'.source = item.source /\ item'.owns = item.owns /\ item'.pid = item.pid
    BY <1>a, <1>7 DEF ItemT
  <2>2. /\ job'.kind = "conflict" /\ ~job'.green
        /\ job'.pc = (IF job.pc = "record_published" THEN "finish"
                      ELSE IF tree.unmerged THEN "acquire" ELSE "publish")
    BY <1>7 DEF Idle
  <2>. QED
    BY <1>a, <1>2, <1>3, <1>5, <2>1, <2>2
<1>. QED
  BY <1>4, <1>6, <1>7

\* The recovery keeps what its record says of the merge; stopping short, it leaves
\* the Issue for another try or blocked.
Retained ==
  /\ item'.rec # None /\ item'.rec.target = item.rec.target
  /\ item'.rec.head = item.rec.head /\ item'.rec.files = item.rec.files
StopsShort ==
  /\ job.pc \in {"prepare", "result"} \cup Publishing /\ job.kind = "conflict" /\ job'.pc = "idle"
  /\ Retained /\ item'.rec.green = item.rec.green
  /\ \/ Becomes("resolving_conflict", item.stage)
     \/ Becomes("blocked", IF Running THEN "resume" ELSE item.stage)

\* A recovery that is blocked gives its execution up.
LEMMA BlockStopsShort ==
  ASSUME TypeInv, ExecutionHeld, item.rec \in RecT, item.rec # None, Block(item),
         job.pc \in {"prepare", "result"} \cup Publishing, job.kind = "conflict"
  PROVE  StopsShort
<1>1. item \in ItemT
  BY DEF TypeInv
<1>2. /\ job' = Idle /\ item'.status = "blocked" /\ item'.owns = FALSE /\ item'.pid = FALSE
      /\ item'.stage = (IF item.owns THEN "resume" ELSE item.stage)
      /\ item'.source = item.source /\ item'.rec = item.rec
  BY <1>1, BlockFields
<1>. QED
  BY <1>2 DEF StopsShort, Becomes, Retained, ExecutionHeld, Idle

\* A recovery to be retried gives its execution up.
LEMMA RetryStopsShort ==
  ASSUME TypeInv, ExecutionHeld, item.rec \in RecT, ScheduleRetry(item),
         job.pc \in {"prepare", "result"} \cup Publishing, job.kind = "conflict"
  PROVE  StopsShort
<1>1. item \in ItemT
  BY DEF TypeInv
<1>2. /\ job' = Idle /\ item'.owns = FALSE /\ item'.pid = FALSE
      /\ \/ item'.status = "resolving_conflict" /\ item'.stage = item.stage
         \/ /\ item'.status = "blocked"
            /\ item'.stage = (IF item.owns THEN "resume" ELSE item.stage)
      /\ item'.rec # None /\ item'.rec.target = item.rec.target /\ item'.rec.head = item.rec.head
      /\ item'.rec.files = item.rec.files /\ item'.rec.green = item.rec.green
  BY <1>1, RetryFields
<1>. QED
  BY <1>2 DEF StopsShort, Becomes, Retained, ExecutionHeld, Idle

\* Preparing, in full.
ProcessPrepareEffect ==
  /\ item.status = "launching" /\ item.source = "conflict" /\ job.kind = "conflict"
  /\ job.pc = "prepare" /\ hist'.checked = hist.checked /\ tree' \in {tree, MergeBase(tree)}
  /\ tree' # tree => tree.merge = 0 /\ tree.head.merge # item.rec.target /\ tree.head.base < base
  /\ \/ StopsShort
     \/ /\ item' = item /\ tree' = tree /\ job'.pc = "finish" /\ job'.kind = "conflict"
        /\ tree.merge = 0 /\ (tree.head.merge = item.rec.target \/ tree.head.base = base)
     \/ /\ item' = item /\ job'.pc = "publish" /\ job'.kind = "conflict"
        /\ ~tree'.unmerged /\ (~item.rec.files \/ item.rec.green)
     \/ /\ Becomes("launching", item.stage) /\ Retained /\ item'.source = "conflict"
        /\ item'.rec.green = item.rec.green /\ ~item'.matches
        /\ job'.pc = "spawn" /\ job'.kind = "conflict"
        /\ tree'.unmerged \/ (item.rec.files /\ ~item.rec.green)
        /\ \/ tree.merge = item.rec.target /\ tree' = tree
           \/ tree.merge = 0 /\ tree.head.merge # item.rec.target /\ tree.head.base < base
              /\ tree' = MergeBase(tree)
           \/ tree.merge = 0 /\ tree.head.merge = item.rec.target /\ tree' = tree

\* What Prepare changes: the record, once, and never the merge it names.
LEMMA PrepareEffects ==
  ASSUME TypeInv, ExecutionHeld, JobPlaced, RecordKept, ProcessPrepare
  PROVE  ProcessPrepareEffect
<1>. USE DEF ProcessPrepareEffect, ExecutionHeld, Running, Becomes
<1>a. /\ item \in ItemT /\ job \in JobT /\ hist \in [checked : BOOLEAN, touched : BOOLEAN]
      /\ item.status = "launching" /\ item.source = "conflict" /\ job.kind = "conflict"
      /\ job.pc = "prepare" /\ item.rec \in RecT /\ item.rec # None
  BY RecordThere DEF ProcessPrepare, At, JobPlaced, TypeInv
<1>. DEFINE known == tree.merge # 0 \/ Merged
            fresh == ~known /\ tree.head.base < base
            after == IF fresh THEN MergeBase(tree) ELSE tree
            there == tree.merge = 0 /\ (Merged \/ tree.head.base = base)
            ready == ~after.unmerged /\ (~item.rec.files \/ item.rec.green)
<1>1. /\ tree' = after
      /\ hist' = hist
      /\ \/ Block(item)
         \/ there /\ Goto("finish") /\ UNCHANGED item
         \/ ready /\ job' = [job EXCEPT !.pc = "publish", !.green = TRUE] /\ UNCHANGED item
         \/ /\ tree.merge = item.rec.target \/ fresh \/ Merged
            /\ ~ready /\ Attempt
  BY DEF ProcessPrepare
<1>2. tree.head.base \in Nat /\ base \in Nat
  BY DEF TypeInv, TreeT, CommitT
<1>3. /\ tree' \in {tree, MergeBase(tree)}
      /\ tree' # tree => tree.merge = 0 /\ tree.head.merge # item.rec.target /\ tree.head.base < base
  BY <1>1 DEF Merged
<1>4. CASE Block(item)
  BY <1>a, <1>1, <1>3, <1>4, BlockStopsShort
<1>5. CASE there /\ Goto("finish") /\ UNCHANGED item
  <2>1. ~fresh
    BY <1>2, <1>5
  <2>2. job'.pc = "finish" /\ job'.kind = "conflict"
    BY <1>a, <1>5 DEF Goto, JobT
  <2>. QED
    BY <1>a, <1>1, <1>3, <1>5, <2>1, <2>2 DEF Merged
<1>6. CASE ready /\ job' = [job EXCEPT !.pc = "publish", !.green = TRUE] /\ UNCHANGED item
  <2>1. job'.pc = "publish" /\ job'.kind = "conflict"
    BY <1>a, <1>6 DEF JobT
  <2>. QED
    BY <1>a, <1>1, <1>3, <1>6, <2>1
<1>7. CASE (tree.merge = item.rec.target \/ fresh \/ Merged) /\ ~ready /\ Attempt
  <2>. DEFINE rec == [item.rec EXCEPT !.attempts = @ + 1, !.running = TRUE]
  <2>1. item.rec.attempts + 1 \in Nat
    BY <1>a DEF RecT
  <2>2. rec \in RecT
    BY <1>a, <2>1 DEF RecT
  <2>3. /\ rec.target = item.rec.target /\ rec.head = item.rec.head
        /\ rec.files = item.rec.files /\ rec.green = item.rec.green
    BY <1>a DEF RecT
  <2>4. item' = [item EXCEPT !.rec = rec, !.matches = FALSE]
    BY <1>a, <1>7 DEF Attempt, ItemT, RecT
  <2>. HIDE DEF rec
  <2>5. rec # None
    BY <2>2, RecordIsSomething
  <2>6. /\ item'.rec = rec /\ item'.matches = FALSE /\ item'.status = item.status
        /\ item'.source = item.source /\ item'.stage = item.stage
        /\ item'.owns = item.owns /\ item'.pid = item.pid
    BY <1>a, <2>4 DEF ItemT
  <2>7. job'.pc = "spawn" /\ job'.kind = "conflict" /\ hist'.checked = hist.checked
    BY <1>a, <1>1, <1>7 DEF Attempt, Goto, JobT
  <2>8. after.unmerged \/ (item.rec.files /\ ~item.rec.green)
    BY <1>7
  <2>9. \/ tree.merge = item.rec.target /\ tree' = tree
        \/ tree.merge = 0 /\ tree.head.merge # item.rec.target /\ tree.head.base < base
           /\ tree' = MergeBase(tree)
        \/ tree.merge = 0 /\ tree.head.merge = item.rec.target /\ tree' = tree
    BY <1>a, <1>1, <1>7, ConflictAssumption DEF Merged, RecT
  <2>10. /\ Becomes("launching", item.stage) /\ Retained /\ item'.source = "conflict"
         /\ item'.rec.green = item.rec.green /\ ~item'.matches
    BY <1>a, <2>3, <2>5, <2>6 DEF Retained
  <2>. HIDE DEF after, fresh, known, Becomes
  <2>. QED
    BY <1>a, <1>1, <1>3, <2>7, <2>8, <2>9, <2>10
<1>. QED
  BY <1>1, <1>4, <1>5, <1>6, <1>7

ConflictResultEffect ==
  /\ item.status = "running" /\ job.pc = "result" /\ job.kind = "conflict"
  /\ \/ StopsShort
     \/ Becomes("needs_input", item.stage) /\ Retained /\ item'.rec.green = item.rec.green
        /\ job'.pc = "idle"
     \/ /\ Becomes("running", item.stage) /\ Retained /\ item'.source = item.source
        /\ item'.rec.green = job.green /\ item'.matches = item.matches
        /\ job'.pc = "publish" /\ job'.kind = "conflict" /\ job'.green = job.green

\* What the handling of the conflict worker's result changes.
LEMMA ResultEffects ==
  ASSUME TypeInv, ExecutionHeld, JobPlaced, RecordKept, ConflictResult
  PROVE  ConflictResultEffect
<1>. USE DEF ConflictResultEffect, ExecutionHeld, Running, Becomes
<1>a. /\ item \in ItemT /\ job \in JobT
      /\ item.status = "running" /\ job.pc = "result" /\ job.kind = "conflict"
      /\ item.rec \in RecT /\ item.rec # None
  BY RecordThere DEF ConflictResult, At, JobPlaced, TypeInv, Working
<1>. DEFINE quiet == [item.rec EXCEPT !.running = FALSE]
            told == [item.rec EXCEPT !.green = job.green]
<1>b. /\ quiet \in RecT /\ quiet # None
      /\ quiet.target = item.rec.target /\ quiet.head = item.rec.head
      /\ quiet.files = item.rec.files /\ quiet.green = item.rec.green
  BY <1>a, RecordIsSomething DEF RecT
<1>c. /\ told \in RecT /\ told # None
      /\ told.target = item.rec.target /\ told.head = item.rec.head
      /\ told.files = item.rec.files /\ told.green = job.green
  BY <1>a, RecordIsSomething DEF RecT, JobT
<1>1. \/ item' = [item EXCEPT !.rec = told] /\ Goto("publish")
      \/ item' = [item EXCEPT !.status = "needs_input", !.owns = FALSE, !.pid = FALSE,
                              !.matches = TRUE, !.rec = quiet] /\ job' = Idle
      \/ Block([item EXCEPT !.rec = quiet])
      \/ ScheduleRetry(item)
  BY <1>a DEF ConflictResult, ItemT, RecT
<1>. HIDE DEF quiet, told
<1>2. CASE item' = [item EXCEPT !.rec = told] /\ Goto("publish")
  <2>1. job'.pc = "publish" /\ job'.kind = "conflict" /\ job'.green = job.green
    BY <1>a, <1>2 DEF Goto, JobT
  <2>2. /\ item'.rec = told /\ item'.matches = item.matches /\ item'.status = item.status
        /\ item'.source = item.source /\ item'.stage = item.stage
        /\ item'.owns = item.owns /\ item'.pid = item.pid
    BY <1>a, <1>2 DEF ItemT
  <2>. QED
    BY <1>a, <1>c, <2>1, <2>2 DEF Retained
<1>3. CASE item' = [item EXCEPT !.status = "needs_input", !.owns = FALSE, !.pid = FALSE,
                                !.matches = TRUE, !.rec = quiet] /\ job' = Idle
  <2>1. /\ item'.rec = quiet /\ item'.status = "needs_input" /\ item'.stage = item.stage
        /\ item'.owns = FALSE /\ item'.pid = FALSE
    BY <1>a, <1>3 DEF ItemT
  <2>. QED
    BY <1>a, <1>b, <1>3, <2>1 DEF Retained, Idle
<1>4. CASE Block([item EXCEPT !.rec = quiet])
  <2>. DEFINE j == [item EXCEPT !.rec = quiet]
  <2>1. j \in ItemT /\ j.rec = quiet /\ j.stage = item.stage /\ j.source = item.source /\ j.owns = item.owns
    BY <1>a, <1>b DEF ItemT
  <2>. HIDE DEF j
  <2>2. /\ job' = Idle /\ item'.status = "blocked" /\ item'.owns = FALSE /\ item'.pid = FALSE
        /\ item'.stage = (IF item.owns THEN "resume" ELSE item.stage)
        /\ item'.rec = quiet
    BY <1>4, <2>1, BlockFields DEF j
  <2>. QED
    BY <1>a, <1>b, <2>2 DEF StopsShort, Retained, Idle
<1>. QED
  BY <1>a, <1>1, <1>2, <1>3, <1>4, RetryStopsShort

PublishCheckEffect ==
  /\ job.pc = "publish" /\ job.kind = "conflict"
  /\ tree' = tree /\ hist' = hist
  /\ \/ StopsShort
     \/ /\ item' = item
        /\ tree.merge \in {0, item.rec.target} /\ tree.content \in {"clean", "resolved"}
        /\ (item.rec.files => job.green) /\ job'.kind = "conflict"
        /\ job'.pc = (IF tree.merge = 0 THEN "push" ELSE "stage")
StageMergeEffect ==
  /\ job.pc = "stage" /\ job.kind = "conflict"
  /\ tree' = [tree EXCEPT !.unmerged = FALSE] /\ hist' = hist
  /\ StopsShort \/ (item' = item /\ job'.pc = "commit" /\ job'.kind = "conflict")
CommitMergeEffect ==
  item' = item /\ job.pc = "commit" /\ job'.pc = "push" /\ job'.kind = job.kind /\ tree'.merge = 0
PushEffect ==
  /\ job.pc = "push" /\ job.kind = "conflict"
  /\ \/ StopsShort
     \/ /\ item' = item /\ job'.pc = "finish" /\ job'.kind = "conflict"
        /\ tree.head.merge = item.rec.target
PublishFailsEffect ==
  StopsShort
PrepareFailsEffect ==
  StopsShort \/ (item' = item /\ job.pc = "prepare" /\ job'.pc = "idle")
FinishPublicationEffect ==
  /\ job.pc = "finish" /\ job'.pc = "idle"
  /\ Becomes("awaiting_checks", item.stage) /\ Retained
  /\ item'.rec.green = item.rec.green

\* What the steps of the publication change.
LEMMA PublishEffects ==
  ASSUME TypeInv, ExecutionHeld, JobPlaced, RecordKept
  PROVE  /\ PublishCheck => PublishCheckEffect
         /\ StageMerge => StageMergeEffect
         /\ CommitMerge => CommitMergeEffect
         /\ Push => PushEffect
         /\ PublishFails => PublishFailsEffect
         /\ PrepareFails => PrepareFailsEffect
         /\ FinishPublication => FinishPublicationEffect
<1>. USE DEF PublishCheckEffect, StageMergeEffect, CommitMergeEffect, PushEffect,
             PublishFailsEffect, PrepareFailsEffect, FinishPublicationEffect, Becomes
<1>a. item \in ItemT /\ job \in JobT
  BY DEF TypeInv
<1>1. ASSUME PublishCheck
      PROVE  PublishCheckEffect
  <2>1. job.pc = "publish" /\ job.kind = "conflict" /\ item.rec \in RecT /\ item.rec # None
    BY <1>1, RecordThere DEF PublishCheck, At, Publishing
  <2>2. tree.content \in Contents
    BY DEF TypeInv, TreeT
  <2>6. tree' = tree /\ hist' = hist
    BY <1>1 DEF PublishCheck
  <2>3. CASE ScheduleRetry(item)
    BY <2>1, <2>3, <2>6, RetryStopsShort DEF Publishing
  <2>4. CASE Block(item)
    BY <2>1, <2>4, <2>6, BlockStopsShort DEF Publishing
  <2>5. CASE /\ Verified /\ InScope /\ tree.merge \in {0, item.rec.target}
             /\ item' = item /\ Goto(IF tree.merge = 0 THEN "push" ELSE "stage")
    <3>1. job'.kind = "conflict" /\ job'.pc = (IF tree.merge = 0 THEN "push" ELSE "stage")
      BY <1>a, <2>1, <2>5 DEF Goto, JobT
    <3>. QED
      BY <2>1, <2>2, <2>5, <2>6, <3>1 DEF Verified, InScope, Contents
  <2>. QED
    BY <1>1, <2>3, <2>4, <2>5 DEF PublishCheck
<1>7. ASSUME StageMerge
      PROVE  StageMergeEffect
  <2>1. job.pc = "stage" /\ job.kind = "conflict" /\ item.rec \in RecT /\ item.rec # None
    BY <1>7, RecordThere DEF StageMerge, At, Publishing
  <2>2. tree' = [tree EXCEPT !.unmerged = FALSE] /\ hist' = hist
    BY <1>7 DEF StageMerge
  <2>3. CASE Block(item)
    BY <2>1, <2>2, <2>3, BlockStopsShort DEF Publishing, StageMergeEffect
  <2>4. CASE Goto("commit") /\ item' = item
    BY <1>a, <2>1, <2>2, <2>4 DEF Goto, JobT, StageMergeEffect
  <2>. QED
    BY <1>7, <2>3, <2>4 DEF StageMerge
<1>2. ASSUME CommitMerge
      PROVE  CommitMergeEffect
  BY <1>a, <1>2 DEF CommitMerge, At, Goto, JobT
<1>3. ASSUME Push
      PROVE  PushEffect
  <2>1. job.pc = "push" /\ job.kind = "conflict" /\ item.rec \in RecT /\ item.rec # None
    BY <1>3, RecordThere DEF Push, At, Publishing
  <2>2. \/ Block(item)
        \/ Goto("finish") /\ item' = item /\ Merged
    BY <1>3 DEF Push
  <2>3. CASE Goto("finish") /\ item' = item /\ Merged
    BY <1>a, <2>1, <2>3 DEF Goto, JobT, Merged
  <2>. QED
    BY <2>1, <2>2, <2>3, BlockStopsShort DEF Publishing
<1>4. ASSUME PublishFails
      PROVE  PublishFailsEffect
  <2>1. item.rec \in RecT
    BY <1>4, RecordThere DEF PublishFails, At, Publishing
  <2>. QED
    BY <1>4, <2>1, RetryStopsShort DEF PublishFails, At, Publishing
<1>5. ASSUME PrepareFails
      PROVE  PrepareFailsEffect
  <2>1. item.rec \in RecT /\ item.rec # None
    BY <1>5, RecordThere DEF PrepareFails, At
  <2>2. job.pc = "prepare" /\ job.kind = "conflict"
    BY <1>5 DEF PrepareFails, At, JobPlaced
  <2>. QED
    BY <1>5, <2>1, <2>2, BlockStopsShort DEF PrepareFails, Idle
<1>6. ASSUME FinishPublication
      PROVE  FinishPublicationEffect
  <2>1. job.pc = "finish" /\ item.rec \in RecT
    BY <1>6, RecordThere DEF FinishPublication, At, Publishing
  <2>. DEFINE quiet == [item.rec EXCEPT !.running = FALSE]
  <2>2. /\ quiet \in RecT
        /\ quiet.target = item.rec.target /\ quiet.head = item.rec.head
        /\ quiet.files = item.rec.files /\ quiet.green = item.rec.green
    BY <2>1 DEF RecT
  <2>3. item' = [item EXCEPT !.status = "awaiting_checks", !.owns = FALSE, !.pid = FALSE,
                             !.matches = TRUE, !.rec = quiet]
    BY <1>a, <1>6, <2>1 DEF FinishPublication, AwaitChecks, ItemT, RecT
  <2>. HIDE DEF quiet
  <2>4. /\ item'.rec = quiet /\ item'.status = "awaiting_checks" /\ item'.stage = item.stage
        /\ item'.owns = FALSE /\ item'.pid = FALSE
    BY <1>a, <2>3 DEF ItemT
  <2>5. job'.pc = "idle"
    BY <1>6 DEF FinishPublication, Idle
  <2>. QED
    BY <2>1, <2>2, <2>4, <2>5, RecordIsSomething DEF Retained
<1>. QED
  BY <1>1, <1>2, <1>3, <1>4, <1>5, <1>6, <1>7

AcquireEffect ==
  /\ sup = "up"
  /\ job.pc \in {"acquire", "idle"} /\ job'.pc = "prepare" /\ job'.kind = "conflict"
  /\ item.status = "resolving_conflict" \/ (item.status = "launching" /\ item.source = "conflict")
  /\ Becomes("launching", item.stage) /\ item'.source = "conflict" /\ item'.rec = item.rec
AcquireWorkerEffect ==
  /\ job.pc = "idle" /\ job'.pc = "spawn" /\ job'.kind = "worker"
  /\ item.status \in Ordinary \/ (item.status = "launching" /\ item.source \in Ordinary)
  /\ Becomes("launching", item.stage) /\ item'.source \in Ordinary /\ item'.rec = item.rec
SpawnEffect ==
  job.pc = "spawn" /\ job'.pc = "started" /\ job'.kind = job.kind /\ item' = item
RecordPIDEffect ==
  /\ job.pc = "started" /\ job'.pc = "working" /\ job'.kind = job.kind
  /\ Becomes("running", item.stage) /\ Kept /\ item'.matches = item.matches
WorkerExitsEffect ==
  /\ item' = item /\ sup' = sup /\ ~worker'
  /\ \/ /\ job.pc = "working" /\ job'.pc = "result" /\ job'.kind = job.kind
        /\ hist'.checked = job'.green
     \/ job.pc \notin {"started", "working"} /\ job' = job /\ hist' = hist
     \/ sup # "up" /\ job' = job /\ hist' = hist
WorkerResultEffect ==
  /\ job.pc = "result" /\ job.kind = "worker" /\ Kept
  /\ \/ job'.pc = "publish" /\ job'.kind = "worker" /\ item' = item
     \/ job'.pc = "idle" /\ Becomes("retry_wait", item.stage)
     \/ job'.pc = "idle" /\ Becomes("blocked", "resume")
PublishWorkEffect ==
  /\ job.pc = "publish" /\ job.kind = "worker" /\ Kept
  /\ \/ job'.pc = "idle" /\ Becomes("retry_wait", item.stage)
     \/ /\ job'.kind = "worker" /\ item' = item
        /\ job'.pc \in {"push", "commit"} /\ (job'.pc = "push" => tree.merge = 0)
PushWorkEffect ==
  /\ job.pc = "push" /\ job.kind = "worker" /\ Kept
  /\ job'.pc = "idle" /\ Becomes("awaiting_checks", item.stage)

\* What the worker and its start change.
LEMMA WorkerEffects ==
  ASSUME TypeInv, ExecutionHeld, JobPlaced
  PROVE  /\ Acquire => AcquireEffect
         /\ AcquireWorker => AcquireWorkerEffect
         /\ Spawn => SpawnEffect
         /\ RecordPID => RecordPIDEffect
         /\ WorkerExits => WorkerExitsEffect
         /\ WorkerResult => WorkerResultEffect
         /\ PublishWork => PublishWorkEffect
         /\ PushWork => PushWorkEffect
<1>. USE DEF AcquireEffect, AcquireWorkerEffect, SpawnEffect, RecordPIDEffect, WorkerExitsEffect,
             WorkerResultEffect, PublishWorkEffect, PushWorkEffect, Becomes
<1>a. item \in ItemT /\ job \in JobT
  BY DEF TypeInv
<1>1. ASSUME Acquire
      PROVE  AcquireEffect
  BY <1>a, <1>1 DEF Acquire, At, Up, Idle, ItemT, ExecutionHeld
<1>2. ASSUME AcquireWorker
      PROVE  AcquireWorkerEffect
  BY <1>a, <1>2 DEF AcquireWorker, At, Idle, ItemT, ExecutionHeld, Ordinary
<1>3. ASSUME Spawn
      PROVE  SpawnEffect
  BY <1>a, <1>3 DEF Spawn, At, Goto, JobT
<1>4. ASSUME RecordPID
      PROVE  RecordPIDEffect
  BY <1>a, <1>4 DEF RecordPID, At, Goto, JobT, ItemT, JobPlaced, ExecutionHeld, Running, Kept
<1>5. ASSUME WorkerExits
      PROVE  WorkerExitsEffect
  <2>1. CASE At("working")
    <3>1. PICK result \in Results, green \in BOOLEAN :
            /\ job' = [job EXCEPT !.pc = "result", !.result = result, !.green = green]
            /\ hist' = [hist EXCEPT !.checked = green, !.touched = @ /\ ~green]
      BY <1>5, <2>1 DEF WorkerExits, Results
    <3>2. hist'.checked = green
      BY <3>1 DEF TypeInv
    <3>. QED
      BY <1>a, <1>5, <2>1, <3>1, <3>2 DEF WorkerExits, At, JobT
  <2>2. CASE ~At("working")
    BY <1>5, <2>2 DEF WorkerExits, At, Up
  <2>. QED
    BY <2>1, <2>2
<1>6. ASSUME WorkerResult
      PROVE  WorkerResultEffect
  <2>1. job.pc = "result" /\ job.kind = "worker" /\ item.status = "running" /\ item.owns
    BY <1>6 DEF WorkerResult, At, JobPlaced, ExecutionHeld, Running
  <2>2. CASE Goto("publish") /\ item' = item
    BY <1>a, <2>1, <2>2 DEF Goto, JobT, Kept
  <2>3. CASE item' = Retry(item) /\ job' = Idle
    BY <1>a, <2>1, <2>3 DEF Retry, ItemT, Idle, Kept
  <2>4. CASE Block(item)
    <3>1. /\ job' = Idle /\ item'.status = "blocked" /\ item'.owns = FALSE /\ item'.pid = FALSE
          /\ item'.stage = (IF item.owns THEN "resume" ELSE item.stage)
          /\ item'.source = item.source /\ item'.rec = item.rec
      BY <1>a, <2>4, BlockFields
    <3>. QED
      BY <2>1, <3>1 DEF Idle, Kept
  <2>. QED
    BY <1>6, <2>2, <2>3, <2>4 DEF WorkerResult
<1>7. ASSUME PublishWork
      PROVE  PublishWorkEffect
  <2>1. job.pc = "publish" /\ job.kind = "worker"
    BY <1>7 DEF PublishWork, At
  <2>2. CASE item' = Retry(item) /\ job' = Idle
    BY <1>a, <2>1, <2>2 DEF Retry, ItemT, Idle, Kept
  <2>3. CASE /\ item' = item
             /\ Goto(IF tree.merge = 0 /\ tree.content = "clean" THEN "push" ELSE "commit")
    BY <1>a, <2>1, <2>3 DEF Goto, JobT, Kept
  <2>. QED
    BY <1>7, <2>2, <2>3 DEF PublishWork
<1>8. ASSUME PushWork
      PROVE  PushWorkEffect
  BY <1>a, <1>8 DEF PushWork, At, AwaitChecks, ItemT, Idle, Kept
<1>. QED
  BY <1>1, <1>2, <1>3, <1>4, <1>5, <1>6, <1>7, <1>8

AnswerEffect ==
  /\ item.status = "needs_input" /\ job' = job
  /\ Becomes("resolving_conflict", item.stage) /\ Kept
RetryStageEffect ==
  /\ item.status = "blocked" /\ job' = job
  /\ \/ item.rec = None /\ item'.rec = None
     \/ item.rec # None /\ Retained /\ item'.rec.green = item.rec.green
  /\ \/ item.stage = "resume" /\ Becomes("resume_pending", item.stage)
     \/ item.stage = "checks" /\ Becomes("awaiting_checks", item.stage)
RestartEffect ==
  /\ sup = "down" /\ job' = job /\ Kept
  /\ \/ /\ sup' = "refused" /\ worker' = worker /\ item' = item
        /\ item.status = "launching"
     \/ /\ sup' = "up" /\ worker' = worker
        /\ item.status = "launching" /\ item.source = "conflict" /\ item.matches
        /\ Becomes("resolving_conflict", item.stage)
     \/ /\ sup' = "up" /\ worker' = FALSE /\ item.status = "running"
        /\ Becomes("retry_wait", "resume")
     \/ /\ sup' = "up" /\ worker' = worker
        /\ item.status = "launching" /\ item.source # "conflict"
        /\ Becomes("retry_wait", item.stage)
     \/ sup' = "up" /\ worker' = worker /\ item' = item /\ ~Running

\* What the operator's answer, a resolution and a restart change.
LEMMA OperatorEffects ==
  ASSUME TypeInv, ExecutionHeld, JobPlaced
  PROVE  /\ Answer => AnswerEffect
         /\ RetryStage => RetryStageEffect
         /\ Restart => RestartEffect
<1>. USE DEF AnswerEffect, RetryStageEffect, RestartEffect, Becomes, ExecutionHeld, Running
<1>a. item \in ItemT /\ job \in JobT
  BY DEF TypeInv
<1>1. ASSUME Answer
      PROVE  AnswerEffect
  BY <1>a, <1>1 DEF Answer, ItemT, Kept
<1>2. ASSUME RetryStage
      PROVE  RetryStageEffect
  <2>. DEFINE rec == IF item.rec = None THEN None ELSE [item.rec EXCEPT !.attempts = 0]
  <2>1. /\ item.rec = None => rec = None
        /\ item.rec # None => /\ rec \in RecT /\ rec.target = item.rec.target
                              /\ rec.head = item.rec.head /\ rec.files = item.rec.files
                              /\ rec.green = item.rec.green
    BY <1>a DEF ItemT, RecT
  <2>2. (IF item.rec = None THEN item ELSE [item EXCEPT !.rec.attempts = 0]) = [item EXCEPT !.rec = rec]
    BY <1>a DEF ItemT
  <2>3. /\ item.status = "blocked" /\ job' = job
        /\ \/ /\ item.stage = "resume"
              /\ item' = [[item EXCEPT !.rec = rec] EXCEPT !.status = "resume_pending"]
           \/ /\ item.stage = "checks"
              /\ item' = [[item EXCEPT !.rec = rec] EXCEPT !.status = "awaiting_checks", !.seen = head.n]
    BY <1>2, <2>2 DEF RetryStage
  <2>. HIDE DEF rec
  <2>5. item'.rec = rec
    BY <1>a, <2>3 DEF ItemT
  <2>6. \/ item.stage = "resume" /\ Becomes("resume_pending", item.stage)
        \/ item.stage = "checks" /\ Becomes("awaiting_checks", item.stage)
    BY <1>a, <2>3 DEF ItemT
  <2>7. \/ item.rec = None /\ item'.rec = None
        \/ item.rec # None /\ Retained /\ item'.rec.green = item.rec.green
    BY <2>1, <2>5, RecordIsSomething DEF Retained
  <2>. QED
    BY <2>3, <2>6, <2>7
<1>3. ASSUME Restart
      PROVE  RestartEffect
  <2>1. CASE Unstarted /\ ~Proven
    BY <1>3, <2>1 DEF Restart, Unstarted, Kept
  <2>2. CASE Unstarted /\ Proven
    BY <1>a, <1>3, <2>2 DEF Restart, Unstarted, Proven, ItemT, Kept
  <2>3. CASE ~Unstarted /\ item.pid
    BY <1>a, <1>3, <2>3 DEF Restart, Retry, ItemT, Kept
  <2>4. CASE ~Unstarted /\ ~item.pid /\ item.status = "launching"
    BY <1>a, <1>3, <2>4 DEF Restart, Retry, Unstarted, ItemT, Kept
  <2>5. CASE ~Unstarted /\ ~item.pid /\ item.status # "launching"
    BY <1>a, <1>3, <2>5 DEF Restart, Kept
  <2>. QED
    BY <2>1, <2>2, <2>3, <2>4, <2>5
<1>. QED
  BY <1>1, <1>2, <1>3

-----------------------------------------------------------------------------
(* The effects of a step, together. *)

\* Every step is one of these, or changes neither item nor job.
LEMMA Effects ==
  ASSUME TypeInv, ExecutionHeld, JobPlaced, RecordKept, [Next]_vars
  PROVE  \/ UNCHANGED <<item, job, sup>>
         \/ item' = item /\ job'.pc = "idle" /\ (sup' = "down" \/ item.status = "awaiting_checks")
         \/ UpdateBranchEffect \/ MergePullRequestEffect \/ BeginPrepareEffect \/ BeginRecordEffect
         \/ AcquireEffect \/ ProcessPrepareEffect \/ ConflictResultEffect \/ PublishCheckEffect
         \/ StageMergeEffect \/ CommitMergeEffect \/ PushEffect \/ StopsShort \/ PrepareFailsEffect
         \/ FinishPublicationEffect \/ SpawnEffect \/ RecordPIDEffect \/ WorkerExitsEffect
         \/ AcquireWorkerEffect \/ WorkerResultEffect \/ PublishWorkEffect \/ PushWorkEffect
         \/ AnswerEffect \/ RetryStageEffect \/ RestartEffect
<1>1. CASE BeginFails \/ Crash
  BY <1>1 DEF BeginFails, Crash, Idle, At, JobPlaced
<1>2. CASE UNCHANGED <<item, job>>
  <2>1. sup' = sup \/ Crash \/ Restart
    BY DEF Next, Supervisor, vars, AdvanceBase, ForeignPush, UpdateBranch, MergePullRequest,
       BeginPrepare, BeginFails, WorkerEdits, LeftEdits, Edit, PublishFails, PrepareFails, Answer, RetryStage,
       AbortMerge, BeginRecord, Acquire, ProcessPrepare, Spawn, RecordPID, WorkerExits,
       ConflictResult, PublishCheck, StageMerge, CommitMerge, Push, FinishPublication, AcquireWorker,
       WorkerResult, PublishWork, PushWork
  <2>. QED
    BY <1>1, <1>2, <2>1, OperatorEffects
<1>3. PublishFailsEffect => StopsShort
  BY DEF PublishFailsEffect
<1>. QED
  BY <1>1, <1>2, <1>3, ItemMoves, PollEffects, RecordEffects, PrepareEffects, ResultEffects,
     PublishEffects, WorkerEffects, OperatorEffects

-----------------------------------------------------------------------------
(* The invariant is inductive. *)

\* The execution is held, and a worker on record, in just the statuses that say so.
LEMMA StepKeepsExecution ==
  ASSUME TypeInv, ExecutionHeld, JobPlaced, RecordKept, [Next]_vars
  PROVE  ExecutionHeld'
<1>. USE DEF ExecutionHeld, Running, Becomes
<1>1. CASE UNCHANGED item
  BY <1>1
<1>2. CASE UpdateBranchEffect \/ MergePullRequestEffect \/ BeginPrepareEffect \/ BeginRecordEffect
  BY <1>2 DEF UpdateBranchEffect, MergePullRequestEffect, BeginPrepareEffect, BeginRecordEffect
<1>3. CASE StopsShort
  BY <1>3 DEF StopsShort
<1>4. CASE \/ AcquireEffect \/ ProcessPrepareEffect \/ ConflictResultEffect \/ PublishCheckEffect
           \/ StageMergeEffect \/ CommitMergeEffect \/ PushEffect \/ PrepareFailsEffect \/ FinishPublicationEffect
  BY <1>1, <1>3, <1>4 DEF AcquireEffect, ProcessPrepareEffect, ConflictResultEffect, PublishCheckEffect,
                    StageMergeEffect, CommitMergeEffect, PushEffect, PrepareFailsEffect, FinishPublicationEffect
<1>5. CASE \/ SpawnEffect \/ RecordPIDEffect \/ WorkerExitsEffect \/ AcquireWorkerEffect
           \/ WorkerResultEffect \/ PublishWorkEffect \/ PushWorkEffect
  BY <1>1, <1>5 DEF SpawnEffect, RecordPIDEffect, WorkerExitsEffect, AcquireWorkerEffect,
                    WorkerResultEffect, PublishWorkEffect, PushWorkEffect
<1>6. CASE AnswerEffect \/ RetryStageEffect \/ RestartEffect
  BY <1>1, <1>6 DEF AnswerEffect, RetryStageEffect, RestartEffect
<1>. QED
  BY <1>1, <1>2, <1>3, <1>4, <1>5, <1>6, Effects

\* A job needs its supervisor, and the merge it will record is there.
LEMMA StepKeepsJobAlive ==
  ASSUME TypeInv, ExecutionHeld, JobPlaced, TreeShape, RecordKept, [Next]_vars
  PROVE  /\ job'.pc = "idle" \/ sup' = "up"
         /\ job'.pc = "record" => tree'.merge # 0
         /\ job'.pc = "record_published" => tree'.merge = 0 /\ tree'.head.by # "run" /\ item'.rec # None
<1>a. job.pc = "idle" \/ sup = "up"
  BY DEF JobPlaced
<1>b. Restart => job' = job /\ sup = "down"
  BY OperatorEffects DEF RestartEffect
<1>1. \/ UNCHANGED <<job, sup>> \/ (Up /\ sup' = sup) \/ job' = Idle \/ Restart
  BY DEF Next, Supervisor, vars, AdvanceBase, ForeignPush, UpdateBranch, MergePullRequest, Poll,
       BeginPrepare, BeginFails, WorkerEdits, LeftEdits, Edit, PublishFails, PrepareFails, Answer, RetryStage, At,
       AbortMerge, Crash, BeginRecord, Acquire, ProcessPrepare, Spawn, RecordPID, WorkerExits,
       ConflictResult, PublishCheck, StageMerge, CommitMerge, Push, FinishPublication, AcquireWorker,
       WorkerResult, PublishWork, PushWork
<1>2. job'.pc = "idle" \/ sup' = "up"
  BY <1>1, <1>a, <1>b DEF Up, Idle
<1>3. SUFFICES ASSUME job'.pc \in {"record", "record_published"}
               PROVE  /\ job'.pc = "record" => tree'.merge # 0
                      /\ job'.pc = "record_published" =>
                           tree'.merge = 0 /\ tree'.head.by # "run" /\ item'.rec # None
  BY <1>2
<1>4. \/ BeginPrepareEffect
      \/ job' = job /\ item.status = "awaiting_checks" /\ item'.rec = item.rec
  BY <1>3, Effects
     DEF MergePullRequestEffect, BeginRecordEffect, AcquireEffect, ProcessPrepareEffect, StopsShort,
         ConflictResultEffect, PublishCheckEffect, StageMergeEffect, CommitMergeEffect, PushEffect, PrepareFailsEffect,
         FinishPublicationEffect, SpawnEffect, RecordPIDEffect, WorkerExitsEffect, AcquireWorkerEffect,
         WorkerResultEffect, PublishWorkEffect, PushWorkEffect, AnswerEffect, RetryStageEffect,
         RestartEffect, UpdateBranchEffect, JobPlaced, Kept
<1>5. CASE BeginPrepareEffect
  <2>1. CASE tree' = MergeBase(tree) /\ job'.pc = "record"
    <3>1. MergeBase(tree).merge = base
      BY DEF MergeBase, TypeInv, TreeT
    <3>. QED
      BY <2>1, <3>1 DEF TypeInv
  <2>2. CASE /\ job'.pc = "record_published" /\ tree' = tree /\ tree.merge = 0
             /\ tree.head.base = base /\ item.rec # None
    BY <1>5, <2>2 DEF TreeShape, TypeInv, BeginPrepareEffect, Kept
  <2>. QED
    BY <1>3, <1>5, <2>1, <2>2 DEF BeginPrepareEffect
<1>6. CASE job' = job /\ item.status = "awaiting_checks" /\ item'.rec = item.rec
  <2>1. tree' = tree \/ \E c \in Contents : tree' = [tree EXCEPT !.content = c]
    <3>1. \/ UNCHANGED <<head, tree>> \/ ForeignPush \/ UpdateBranch \/ WorkerEdits \/ LeftEdits
      BY <1>3, <1>6, TreeMoves DEF BeginPrepare, ProcessPrepare, PublishCheck, StageMerge, CommitMerge, Push, PublishWork,
         PushWork, AbortMerge, Poll, At
    <3>. QED
      BY <3>1 DEF ForeignPush, UpdateBranch, WorkerEdits, LeftEdits, Edit, Contents
  <2>2. tree'.merge = tree.merge /\ tree'.head = tree.head
    BY <2>1 DEF TypeInv, TreeT
  <2>. QED
    BY <1>3, <1>6, <2>2 DEF JobPlaced
<1>. QED
  BY <1>4, <1>5, <1>6

\* The place of a job fits the status of its item.
LEMMA StepKeepsPlace ==
  ASSUME TypeInv, ExecutionHeld, JobPlaced, TreeShape, RecordKept, [Next]_vars
  PROVE  JobPlaced'
<1>a. /\ job'.pc = "idle" \/ sup' = "up"
      /\ job'.pc = "record" => tree'.merge # 0
      /\ job'.pc = "record_published" => tree'.merge = 0 /\ tree'.head.by # "run" /\ item'.rec # None
  BY StepKeepsJobAlive
<1>. USE DEF JobPlaced, Running, OrdinaryRun, InRecovery, Working, Publishing, Becomes, Kept
<1>1. CASE UNCHANGED <<item, job, sup>>
  BY <1>1, <1>a
<1>2. CASE item' = item /\ job'.pc = "idle" /\ (sup' = "down" \/ item.status = "awaiting_checks")
  BY <1>2, <1>a
<1>3. CASE UpdateBranchEffect \/ MergePullRequestEffect \/ BeginPrepareEffect
  BY <1>3, <1>a DEF UpdateBranchEffect, MergePullRequestEffect, BeginPrepareEffect
<1>4. CASE BeginRecordEffect
  BY <1>4, <1>a DEF BeginRecordEffect
<1>5. CASE StopsShort
  BY <1>5, <1>a DEF StopsShort
<1>6. CASE AcquireEffect \/ FinishPublicationEffect
  BY <1>6, <1>a DEF AcquireEffect, FinishPublicationEffect
<1>7. CASE ProcessPrepareEffect
  BY <1>5, <1>7, <1>a DEF ProcessPrepareEffect
<1>8. CASE ConflictResultEffect
  BY <1>5, <1>8, <1>a DEF ConflictResultEffect
<1>9. CASE PublishCheckEffect \/ StageMergeEffect
  BY <1>5, <1>9, <1>a DEF PublishCheckEffect, StageMergeEffect
<1>10. CASE CommitMergeEffect \/ PushEffect
  BY <1>5, <1>10, <1>a DEF CommitMergeEffect, PushEffect
<1>11. CASE PrepareFailsEffect
  BY <1>5, <1>11, <1>a DEF PrepareFailsEffect
<1>12. CASE SpawnEffect \/ RecordPIDEffect
  BY <1>12, <1>a DEF SpawnEffect, RecordPIDEffect
<1>13. CASE WorkerExitsEffect
  BY <1>13, <1>a DEF WorkerExitsEffect
<1>14. CASE AcquireWorkerEffect
  BY <1>14, <1>a DEF AcquireWorkerEffect
<1>15. CASE WorkerResultEffect \/ PublishWorkEffect \/ PushWorkEffect
  BY <1>15, <1>a DEF WorkerResultEffect, PublishWorkEffect, PushWorkEffect
<1>16. CASE AnswerEffect \/ RetryStageEffect \/ RestartEffect
  BY <1>16, <1>a DEF AnswerEffect, RetryStageEffect, RestartEffect
<1>. QED
  BY <1>1, <1>2, <1>3, <1>4, <1>5, <1>6, <1>7, <1>8, <1>9, <1>10, <1>11, <1>12, <1>13, <1>14,
     <1>15, <1>16, Effects

\* The run's worker lives only where a job waits for it, or on record.
LEMMA StepKeepsWorker ==
  ASSUME TypeInv, ExecutionHeld, JobPlaced, WorkerPlaced, RecordKept, [Next]_vars, JobPlaced'
  PROVE  WorkerPlaced'
<1>. SUFFICES ASSUME worker'
              PROVE  WorkerPlaced'
  BY DEF WorkerPlaced
<1>a. worker \/ Spawn
  BY DEF Next, Supervisor, vars, AdvanceBase, ForeignPush, UpdateBranch, MergePullRequest,
       BeginPrepare, BeginFails, WorkerEdits, LeftEdits, PublishFails, PrepareFails, Answer, RetryStage,
       AbortMerge, Crash, BeginRecord, Acquire, ProcessPrepare, RecordPID, WorkerExits,
       ConflictResult, PublishCheck, StageMerge, CommitMerge, Push, FinishPublication, AcquireWorker,
       WorkerResult, PublishWork, PushWork, Restart
<1>b. job.pc = "idle" \/ sup = "up"
  BY DEF JobPlaced
<1>c. job'.pc = "idle" \/ sup' = "up"
  BY DEF JobPlaced
<1>d. job.pc \in {"started", "working"} => Running
  BY DEF JobPlaced, Running
<1>e. sup' = sup \/ Crash \/ Restart
  BY DEF Next, Supervisor, vars, AdvanceBase, ForeignPush, UpdateBranch, MergePullRequest,
       BeginPrepare, BeginFails, WorkerEdits, LeftEdits, PublishFails, PrepareFails, Answer, RetryStage,
       AbortMerge, BeginRecord, Acquire, ProcessPrepare, Spawn, RecordPID, WorkerExits,
       ConflictResult, PublishCheck, StageMerge, CommitMerge, Push, FinishPublication, AcquireWorker,
       WorkerResult, PublishWork, PushWork
<1>1. CASE Spawn
  <2>1. job'.pc = "started"
    BY <1>1, WorkerEffects DEF SpawnEffect
  <2>. QED
    BY <2>1, <1>c DEF WorkerPlaced
<1>2. CASE Crash
  BY <1>2 DEF Crash, ExecutionHeld, WorkerPlaced
<1>3. CASE worker /\ ~Crash
  <2>1. \/ sup = "up" /\ job.pc \in {"started", "working"}
        \/ sup = "down" /\ item.status = "running" /\ job.pc = "idle"
    BY <1>3, <1>b DEF WorkerPlaced
  <2>2. CASE UNCHANGED <<item, job, sup>>
    BY <2>1, <2>2 DEF WorkerPlaced
  <2>3. CASE item' = item /\ job'.pc = "idle" /\ (sup' = "down" \/ item.status = "awaiting_checks")
    BY <1>3, <1>b, <1>d, <1>e, <2>1, <2>3, OperatorEffects DEF RestartEffect, WorkerPlaced, Running
  <2>4. CASE \/ UpdateBranchEffect \/ MergePullRequestEffect \/ BeginPrepareEffect \/ BeginRecordEffect
             \/ AnswerEffect \/ RetryStageEffect \/ AcquireEffect \/ AcquireWorkerEffect
    BY <1>d, <2>1, <2>4
       DEF UpdateBranchEffect, MergePullRequestEffect, BeginPrepareEffect, BeginRecordEffect,
           AnswerEffect, RetryStageEffect, AcquireEffect, AcquireWorkerEffect, Running, Ordinary
  <2>5. CASE \/ ProcessPrepareEffect \/ ConflictResultEffect \/ PublishCheckEffect \/ StageMergeEffect
             \/ CommitMergeEffect \/ PushEffect \/ StopsShort \/ PrepareFailsEffect \/ SpawnEffect
             \/ FinishPublicationEffect \/ WorkerResultEffect \/ PublishWorkEffect \/ PushWorkEffect
    <3>1. job.pc \in {"prepare", "result", "spawn"} \cup Publishing
      BY <2>5 DEF ProcessPrepareEffect, ConflictResultEffect, PublishCheckEffect, StageMergeEffect,
         CommitMergeEffect, PushEffect, StopsShort, PrepareFailsEffect, FinishPublicationEffect,
         WorkerResultEffect, PublishWorkEffect, PushWorkEffect, SpawnEffect, Publishing
    <3>. QED
      BY <3>1, <2>1 DEF Publishing
  <2>6. CASE RecordPIDEffect
    BY <1>c, <2>6 DEF RecordPIDEffect, WorkerPlaced
  <2>7. CASE RestartEffect
    BY <1>b, <2>1, <2>7 DEF RestartEffect, Running
  <2>8. ~WorkerExitsEffect
    BY DEF WorkerExitsEffect
  <2>. QED
    BY <2>2, <2>3, <2>4, <2>5, <2>6, <2>7, <2>8, Effects
<1>. QED
  BY <1>1, <1>2, <1>3, <1>a

\* The base a record targets changes only when a new preparation is recorded.
LEMMA TargetMoves ==
  ASSUME TypeInv, ExecutionHeld, JobPlaced, RecordKept, [Next]_vars
  PROVE  \/ item'.rec = item.rec
         \/ item.rec # None /\ Retained
         \/ BeginRecordEffect
<1>1. job.pc \in {"prepare"} \cup Working \cup Publishing => item.rec # None
  BY RecordThere
<1>2. ProcessPrepareEffect => item'.rec = item.rec \/ (item.rec # None /\ Retained)
  BY <1>1 DEF ProcessPrepareEffect, StopsShort
<1>3. ConflictResultEffect => item.rec # None /\ Retained
  BY <1>1 DEF ConflictResultEffect, StopsShort, Working
<1>4. StopsShort => item.rec # None /\ Retained
  BY <1>1 DEF StopsShort, Working
<1>5. FinishPublicationEffect => item.rec # None /\ Retained
  BY <1>1 DEF FinishPublicationEffect, Publishing
<1>6. PublishCheckEffect \/ StageMergeEffect \/ PushEffect \/ PrepareFailsEffect =>
        item' = item \/ StopsShort
  BY DEF PublishCheckEffect, StageMergeEffect, PushEffect, PrepareFailsEffect
<1>7. \/ UpdateBranchEffect \/ MergePullRequestEffect \/ BeginPrepareEffect \/ AcquireEffect
      \/ CommitMergeEffect \/ SpawnEffect \/ RecordPIDEffect \/ WorkerExitsEffect \/ AcquireWorkerEffect
      \/ WorkerResultEffect \/ PublishWorkEffect \/ PushWorkEffect \/ AnswerEffect \/ RestartEffect
      => item'.rec = item.rec
  BY DEF UpdateBranchEffect, MergePullRequestEffect, BeginPrepareEffect, AcquireEffect, Kept,
         CommitMergeEffect, SpawnEffect, RecordPIDEffect, WorkerExitsEffect, AcquireWorkerEffect,
         WorkerResultEffect, PublishWorkEffect, PushWorkEffect, AnswerEffect, RestartEffect
<1>8. RetryStageEffect => item'.rec = item.rec \/ (item.rec # None /\ Retained)
  BY DEF RetryStageEffect
<1>. QED
  BY <1>2, <1>3, <1>4, <1>5, <1>6, <1>7, <1>8, Effects

\* Merging the base puts it in MERGE_HEAD and leaves the head alone.
LEMMA MergeFields ==
  ASSUME TypeInv
  PROVE  /\ MergeBase(tree).merge = base /\ MergeBase(tree).head = tree.head
         /\ MergeBase(tree).unmerged = Conflicting(tree.head.base, base)
         /\ MergeBase(tree).content # "clean"
BY DEF MergeBase, TypeInv, TreeT

\* The commit of the merge under way.
LEMMA CommitFields ==
  ASSUME TypeInv, CommitMerge
  PROVE  /\ head' = head /\ tree'.merge = 0 /\ tree'.unmerged = FALSE
         /\ tree'.head.merge = tree.merge
         /\ tree'.head.base = (IF tree.merge > tree.head.base THEN tree.merge ELSE tree.head.base)
         /\ tree'.head.by = (IF job.kind = "conflict" THEN "recovery" ELSE "publisher")
         /\ tree'.head.verified = (/\ tree.content = "resolved"
                                   /\ hist.checked \/ (job.kind = "conflict" /\ ~item.rec.files)
                                   /\ ~hist.touched)
         /\ tree'.head.touched = hist.touched
BY DEF CommitMerge, Commit

\* The worktree has one of the shapes the recovery leaves it in.
LEMMA StepKeepsShape ==
  ASSUME TypeInv, ExecutionHeld, JobPlaced, TreeShape, RecordKept, ChecksHold, [Next]_vars, TypeInv'
  PROVE  TreeShape'
<1>a. /\ base \in 1..MaxBase /\ head.base \in 1..MaxBase /\ tree.head.base \in 1..MaxBase
      /\ tree.merge \in 0..MaxBase /\ tree.head.merge \in 0..MaxBase /\ MaxBase \in Nat
      /\ tree \in TreeT /\ base' \in 1..MaxBase
      /\ item.rec # None => item.rec.target \in 1..MaxBase
  BY ConflictAssumption DEF TypeInv, TreeT, CommitT, ItemT, RecT
<1>b. base <= base'
  <2>1. base' = base \/ base' = base + 1
    BY DEF Next, Supervisor, vars, AdvanceBase, ForeignPush, UpdateBranch, MergePullRequest,
         BeginPrepare, BeginFails, WorkerEdits, LeftEdits, Edit, PublishFails, PrepareFails, Answer, RetryStage,
         AbortMerge, Crash, BeginRecord, Acquire, ProcessPrepare, Spawn, RecordPID, WorkerExits,
         ConflictResult, PublishCheck, StageMerge, CommitMerge, Push, FinishPublication, AcquireWorker,
         WorkerResult, PublishWork, PushWork, Restart
  <2>. QED
    BY <1>a, <2>1
<1>1. item'.rec # None => item'.rec.target <= base' /\ base' > 1
  <2>1. CASE item'.rec = item.rec \/ (item.rec # None /\ Retained)
    BY <1>a, <1>b, <2>1 DEF TreeShape, Retained
  <2>2. CASE BeginRecordEffect
    BY <1>a, <1>b, <2>2 DEF TreeShape, BeginRecordEffect, JobPlaced
  <2>. QED
    BY <2>1, <2>2, TargetMoves
<1>. DEFINE Shape ==
       /\ tree'.head.merge <= tree'.head.base
       /\ tree'.merge <= base' /\ tree'.head.base <= base' /\ head'.base <= base'
       /\ tree'.merge # 0 => tree'.merge > tree'.head.base /\ tree'.content # "clean"
       /\ tree'.unmerged => tree'.merge # 0
       /\ tree'.head.by = "recovery" => tree'.head.merge = tree'.head.base
       /\ tree'.head.by = "run" => tree'.head.base = 1
       /\ tree'.head.by \in {"run", "recovery", "publisher"}
<1>2. Shape
  <2>1. CASE UNCHANGED <<head, tree>>
    BY <1>a, <1>b, <2>1 DEF TreeShape
  <2>2. CASE ForeignPush \/ UpdateBranch
    <3>1. tree' = tree /\ head'.base \in {head.base, base}
      BY <2>2 DEF ForeignPush, UpdateBranch, Commit
    <3>. QED
      BY <1>a, <1>b, <3>1 DEF TreeShape
  <2>3. CASE BeginPrepare \/ ProcessPrepare
    <3>1. head' = head /\ (tree' = tree
            \/ (tree' = MergeBase(tree) /\ tree.merge = 0 /\ tree.head.base < base))
      BY <2>3 DEF BeginPrepare, ProcessPrepare, Merged
    <3>2. CASE tree' = tree
      BY <1>a, <1>b, <3>1, <3>2 DEF TreeShape
    <3>3. CASE tree' = MergeBase(tree) /\ tree.merge = 0 /\ tree.head.base < base
      <4>1. /\ tree'.merge = base /\ tree'.head = tree.head
            /\ tree'.content # "clean"
        BY <3>3, MergeFields
      <4>. QED
        BY <1>a, <1>b, <3>1, <3>3, <4>1 DEF TreeShape
    <3>. QED
      BY <3>1, <3>2, <3>3
  <2>4. CASE WorkerEdits \/ LeftEdits \/ StageMerge \/ PublishWork \/ Push
    <3>1. /\ tree'.head = tree.head /\ tree'.merge = tree.merge
          /\ tree'.content = tree.content \/ tree'.content # "clean"
          /\ tree'.unmerged = tree.unmerged \/ ~tree'.unmerged
          /\ head' \in {head, tree.head}
      BY <1>a, <2>4 DEF WorkerEdits, LeftEdits, Edit, StageMerge, PublishWork, Push, TreeT
    <3>. QED
      BY <1>a, <1>b, <3>1 DEF TreeShape
  <2>5. CASE CommitMerge
    <3>1. job.kind = "conflict" => tree.merge > tree.head.base
      <4>1. job.pc = "commit"
        BY <2>5 DEF CommitMerge, At
      <4>2. item.rec # None
        BY <4>1, RecordThere DEF Publishing
      <4>. QED
        BY <1>a, <4>1, <4>2 DEF ChecksHold, Merging, TreeShape
    <3>2. /\ head' = head /\ tree'.merge = 0 /\ tree'.unmerged = FALSE
          /\ tree'.head.merge = tree.merge
          /\ tree'.head.base = (IF tree.merge > tree.head.base THEN tree.merge ELSE tree.head.base)
          /\ tree'.head.by = (IF job.kind = "conflict" THEN "recovery" ELSE "publisher")
      BY <2>5, CommitFields
    <3>. QED
      BY <1>a, <1>b, <3>1, <3>2 DEF TreeShape
  <2>6. CASE PushWork
    <3>1. tree.merge = 0
      BY <2>6 DEF PushWork, At, RecordKept
    <3>2. \/ head' = tree.head /\ tree' = tree
          \/ /\ head'.by = "publisher" /\ head'.merge = 0
             /\ head'.base = (IF head.base > tree.head.base THEN head.base ELSE tree.head.base)
             /\ tree'.head = head' /\ tree'.merge = tree.merge /\ tree'.content = tree.content
             /\ tree'.unmerged = tree.unmerged
      BY <1>a, <2>6 DEF PushWork, Commit, TreeT
    <3>. QED
      BY <1>a, <1>b, <3>1, <3>2 DEF TreeShape
  <2>7. CASE AbortMerge
    <3>1. tree'.head = tree.head /\ tree'.merge = 0 /\ tree'.unmerged = FALSE /\ head' = head
      BY <1>a, <2>7 DEF AbortMerge, TreeT
    <3>. QED
      BY <1>a, <1>b, <3>1 DEF TreeShape
  <2>. QED
    BY <2>1, <2>2, <2>3, <2>4, <2>5, <2>6, <2>7, TreeMoves
<1>. QED
  BY <1>1, <1>2 DEF TreeShape

\* The worktree's head only gains generations of the base, and a merge under way
\* stays, is committed, or is undone by the operator.
LEMMA TreeProgress ==
  ASSUME TypeInv, RecordKept, [Next]_vars
  PROVE  /\ tree'.head.base >= tree.head.base
         /\ tree.merge # 0 => \/ tree'.merge = tree.merge /\ tree'.head = tree.head
                              \/ tree'.head.base >= tree.merge
                              \/ item.status = "blocked" /\ item.stage = "checks" /\ UNCHANGED <<item, job>>
         /\ tree.merge = 0 => tree'.merge = 0 \/ job.pc \in {"idle", "prepare"}
<1>a. /\ head.base \in Nat /\ tree.head.base \in Nat /\ tree.merge \in Nat /\ tree \in TreeT
  BY DEF TypeInv, TreeT, CommitT
<1>1. CASE UNCHANGED <<head, tree>> \/ ForeignPush \/ UpdateBranch
  <2>1. tree' = tree
    BY <1>1 DEF ForeignPush, UpdateBranch
  <2>. QED
    BY <1>a, <2>1
<1>2. CASE BeginPrepare \/ ProcessPrepare
  <2>1. /\ tree' = tree \/ (tree' = MergeBase(tree) /\ tree.merge = 0)
        /\ job.pc \in {"idle", "prepare"}
    BY <1>2 DEF BeginPrepare, ProcessPrepare, Poll, At, Merged
  <2>. QED
    BY <1>a, <2>1, MergeFields
<1>3. CASE WorkerEdits \/ LeftEdits \/ StageMerge \/ PublishWork \/ Push
  <2>1. tree'.head = tree.head /\ tree'.merge = tree.merge
    BY <1>a, <1>3 DEF WorkerEdits, LeftEdits, Edit, StageMerge, PublishWork, Push, TreeT
  <2>. QED
    BY <1>a, <2>1
<1>4. CASE CommitMerge
  <2>1. /\ tree'.merge = 0
        /\ tree'.head.base = (IF tree.merge > tree.head.base THEN tree.merge ELSE tree.head.base)
    BY <1>4, CommitFields
  <2>. QED
    BY <1>a, <2>1
<1>5. CASE PushWork
  <2>1. \/ tree' = tree
        \/ /\ tree'.merge = tree.merge
           /\ tree'.head.base = (IF head.base > tree.head.base THEN head.base ELSE tree.head.base)
    BY <1>a, <1>5 DEF PushWork, Commit, TreeT
  <2>2. tree.merge = 0
    BY <1>5 DEF PushWork, At, RecordKept
  <2>. QED
    BY <1>a, <2>1, <2>2
<1>6. CASE AbortMerge
  BY <1>a, <1>6 DEF AbortMerge, TreeT
<1>. QED
  BY <1>1, <1>2, <1>3, <1>4, <1>5, <1>6, TreeMoves

\* A recovery keeps its record, and the recorded base is in the worktree.
LEMMA StepKeepsRecord ==
  ASSUME TypeInv, ExecutionHeld, JobPlaced, TreeShape, RecordKept, [Next]_vars, TypeInv'
  PROVE  RecordKept'
<1>a. /\ tree.head.base \in Nat /\ tree.merge \in Nat /\ tree'.head.base \in Nat /\ base \in Nat
      /\ tree.head.merge \in Nat
      /\ item.rec # None => item.rec.target \in Nat \ {0}
  BY DEF TypeInv, TreeT, CommitT, ItemT, RecT
<1>b. /\ tree'.head.base >= tree.head.base
      /\ tree.merge # 0 => \/ tree'.merge = tree.merge /\ tree'.head = tree.head
                           \/ tree'.head.base >= tree.merge
                           \/ item.status = "blocked" /\ item.stage = "checks" /\ UNCHANGED <<item, job>>
      /\ tree.merge = 0 => tree'.merge = 0 \/ job.pc \in {"idle", "prepare"}
  BY TreeProgress
<1>c. item.rec # None => item.rec.target <= base
  BY DEF TreeShape
<1>d. item.stage \in {"checks", "resume"}
  BY DEF TypeInv, ItemT
<1>1. ASSUME item.rec # None, item'.rec # None, item'.rec.target = item.rec.target
      PROVE  /\ Contained => Contained'
             /\ Contained \/ Merging =>
                  \/ Contained' \/ Merging'
                  \/ item.status = "blocked" /\ item.stage = "checks" /\ UNCHANGED <<item, job>>
  <2>. DEFINE t == item.rec.target
  <2>1. t \in Nat \ {0} /\ item'.rec.target = t
    BY <1>1, <1>a
  <2>. HIDE DEF t
  <2>2. Contained <=> tree.head.base >= t
    BY DEF Contained, t
  <2>3. Contained' <=> tree'.head.base >= t
    BY <2>1 DEF Contained
  <2>4. (Merging <=> tree.merge = t) /\ (Merging' <=> tree'.merge = t)
    BY <2>1 DEF Merging, t
  <2>. QED
    BY <2>1, <2>2, <2>3, <2>4, <1>a, <1>b
<1>e. job.pc \in {"prepare"} \cup Working \cup Publishing => item.rec # None
  BY RecordThere
<1>2. CASE UNCHANGED <<item, job>>
  <2>1. item.rec # None => /\ Contained => Contained'
                           /\ Contained \/ Merging =>
                                Contained' \/ Merging' \/ (item.status = "blocked" /\ item.stage = "checks")
    BY <1>1, <1>2
  <2>. QED
    BY <2>1, <1>2, <1>b, <1>e DEF RecordKept, Publishing
<1>3. SUFFICES ASSUME ~UNCHANGED <<item, job>>
               PROVE  RecordKept'
  BY <1>2
<1>4. CASE BeginRecordEffect
  <2>1. tree' = tree /\ item'.rec # None /\ item'.rec.target \in Nat
    BY <1>4 DEF BeginRecordEffect, RecT
  <2>2. Contained' \/ Merging'
    BY <1>4, <1>a, <2>1 DEF BeginRecordEffect, Contained, Merging
  <2>3. job.pc = "record_published" => Contained'
    BY <1>4, <1>a, <2>1 DEF BeginRecordEffect, Contained
  <2>4. item'.rec.green => Contained'
    BY <1>4, <2>1 DEF BeginRecordEffect, RecordKept, Contained
  <2>. QED
    BY <1>4, <2>1, <2>2, <2>3, <2>4 DEF BeginRecordEffect, RecordKept, Becomes, Publishing
<1>5. SUFFICES ASSUME item'.rec = item.rec \/ (item.rec # None /\ Retained)
               PROVE  RecordKept'
  BY <1>4, TargetMoves
<1>6. item.rec # None => /\ Contained => Contained'
                         /\ Contained \/ Merging => Contained' \/ Merging'
                         /\ item'.rec # None
  BY <1>1, <1>3, <1>5 DEF Retained
<1>7. item.rec = None => item'.rec = None
  BY <1>5
<1>. USE DEF RecordKept, Becomes, Publishing, Kept
<1>8. CASE item' = item /\ job'.pc = "idle"
  BY <1>6, <1>7, <1>8
<1>9. CASE UpdateBranchEffect \/ MergePullRequestEffect \/ BeginPrepareEffect
  BY <1>6, <1>7, <1>9 DEF UpdateBranchEffect, MergePullRequestEffect, BeginPrepareEffect
<1>10. CASE AcquireEffect \/ SpawnEffect \/ RecordPIDEffect \/ WorkerExitsEffect \/ AcquireWorkerEffect
  <2>1. CASE AcquireEffect
    BY <1>6, <1>7, <2>1 DEF AcquireEffect
  <2>2. CASE AcquireWorkerEffect
    BY <1>6, <1>7, <2>2 DEF AcquireWorkerEffect, Ordinary
  <2>3. CASE SpawnEffect \/ RecordPIDEffect
    <3>1. item.status = "launching"
      BY <2>3 DEF SpawnEffect, RecordPIDEffect, JobPlaced
    <3>. QED
      BY <1>6, <2>3, <3>1 DEF SpawnEffect, RecordPIDEffect
  <2>4. CASE WorkerExitsEffect
    BY <1>3, <1>6, <1>7, <2>4 DEF WorkerExitsEffect
  <2>. QED
    BY <1>10, <2>1, <2>2, <2>3, <2>4
<1>11. CASE StopsShort
  <2>1. ~Running => item.status = "resolving_conflict" /\ job.pc \in Publishing
    BY <1>11 DEF StopsShort, JobPlaced, Running, OrdinaryRun, InRecovery, Working
  <2>. QED
    BY <1>6, <1>7, <1>11, <1>e, <2>1 DEF StopsShort, Running
<1>12. CASE ProcessPrepareEffect
  <2>1. job'.pc = "finish" => Contained'
    <3>1. SUFFICES ASSUME job'.pc = "finish" PROVE Contained
      BY <1>6, <1>12, <1>e DEF ProcessPrepareEffect
    <3>2. tree.head.merge = item.rec.target \/ tree.head.base = base
      BY <1>12, <3>1 DEF ProcessPrepareEffect, StopsShort
    <3>3. tree.head.merge <= tree.head.base
      BY DEF TreeShape
    <3>. QED
      BY <1>a, <1>c, <1>e, <1>12, <3>2, <3>3 DEF ProcessPrepareEffect, Contained
  <2>. QED
    BY <1>6, <1>7, <1>11, <1>12, <1>e, <2>1 DEF ProcessPrepareEffect
<1>13. CASE ConflictResultEffect
  BY <1>6, <1>7, <1>11, <1>13, <1>e DEF ConflictResultEffect
<1>14. CASE PublishCheckEffect \/ StageMergeEffect \/ CommitMergeEffect
  <2>1. job'.pc = "push" => tree'.merge = 0
    <3>1. CASE PublishCheckEffect
      BY <1>b, <3>1 DEF PublishCheckEffect, StopsShort
    <3>2. CASE CommitMergeEffect
      BY <3>2 DEF CommitMergeEffect
    <3>3. CASE StageMergeEffect
      BY <3>3 DEF StageMergeEffect, StopsShort
    <3>. QED
      BY <1>14, <3>1, <3>2, <3>3
  <2>2. CASE StageMergeEffect
    BY <1>6, <1>7, <1>11, <1>e, <2>1, <2>2 DEF StageMergeEffect
  <2>3. CASE PublishCheckEffect \/ CommitMergeEffect
    BY <1>6, <1>7, <1>11, <1>e, <2>1, <2>3 DEF PublishCheckEffect, CommitMergeEffect
  <2>. QED
    BY <1>14, <2>2, <2>3
<1>15. CASE PushEffect
  <2>1. tree.head.merge = item.rec.target => Contained
    BY <1>a, <1>e, <1>15 DEF PushEffect, TreeShape, Contained
  <2>. QED
    BY <1>6, <1>7, <1>11, <1>15, <1>e, <2>1 DEF PushEffect
<1>16. CASE FinishPublicationEffect
  BY <1>6, <1>7, <1>16, <1>e DEF FinishPublicationEffect
<1>17. CASE WorkerResultEffect \/ PublishWorkEffect
  <2>1. Running /\ item.rec # None
    BY <1>17, <1>e DEF WorkerResultEffect, PublishWorkEffect, JobPlaced, Working, OrdinaryRun
  <2>. QED
    BY <1>6, <1>7, <1>17, <1>b, <2>1 DEF WorkerResultEffect, PublishWorkEffect, Running
<1>18. CASE PushWorkEffect
  <2>1. item.rec # None /\ tree.merge = 0 /\ Running
    BY <1>18, <1>e DEF PushWorkEffect, JobPlaced, Working, OrdinaryRun
  <2>2. Contained
    BY <1>a, <2>1 DEF Running, Contained, Merging
  <2>. QED
    BY <1>6, <1>18, <2>1, <2>2 DEF PushWorkEffect
<1>19. CASE AnswerEffect \/ RetryStageEffect \/ RestartEffect
  <2>1. job.pc \notin Publishing
    BY <1>19 DEF AnswerEffect, RetryStageEffect, RestartEffect, JobPlaced, Working, InRecovery,
                 OrdinaryRun, Running
  <2>2. CASE AnswerEffect
    BY <1>6, <1>7, <2>1, <2>2 DEF AnswerEffect
  <2>3. CASE RetryStageEffect
    BY <1>6, <1>7, <1>d, <2>1, <2>3 DEF RetryStageEffect
  <2>4. CASE RestartEffect
    BY <1>3, <1>6, <1>7, <2>1, <2>4 DEF RestartEffect
  <2>. QED
    BY <1>19, <2>2, <2>3, <2>4
<1>. QED
  BY <1>3, <1>4, <1>8, <1>9, <1>10, <1>11, <1>12, <1>13, <1>14, <1>15, <1>16, <1>17, <1>18, <1>19, Effects
     DEF PrepareFailsEffect

\* The run's worker is never there while the recovery prepares, judges a result or
\* publishes.
LEMMA EditsAreAttempts ==
  ASSUME TypeInv, JobPlaced, WorkerPlaced, worker
  PROVE  /\ InRecovery => item.source = "conflict" /\ Running
         /\ job.pc \notin {"result", "prepare"} \cup Publishing
BY DEF TypeInv, JobPlaced, WorkerPlaced, InRecovery, Running, OrdinaryRun, Ordinary, Working, Publishing

\* The steps that change the worktree or what is known of its tests.
LEMMA QuietMoves ==
  ASSUME TypeInv, [Next]_vars
  PROVE  \/ tree' = tree /\ hist' = hist
         \/ BeginPrepare \/ ProcessPrepare \/ WorkerEdits \/ LeftEdits \/ StageMerge \/ CommitMerge
         \/ PublishWork \/ PushWork \/ AbortMerge \/ (WorkerExits /\ tree' = tree)
BY DEF Next, Supervisor, vars, AdvanceBase, ForeignPush, UpdateBranch, MergePullRequest,
       BeginFails, PublishFails, PrepareFails, Answer, RetryStage, Crash, BeginRecord, Acquire,
       Spawn, RecordPID, WorkerExits, ConflictResult, Push, FinishPublication, AcquireWorker,
       WorkerResult, PublishCheck, Restart

\* An Issue comes into recovery by its record only, and stays with it.
LEMMA RecoveryMoves ==
  ASSUME TypeInv, ExecutionHeld, JobPlaced, RecordKept, [Next]_vars, InRecovery'
  PROVE  \/ BeginRecordEffect
         \/ /\ InRecovery /\ item.rec # None /\ item'.rec # None
            /\ item'.rec.target = item.rec.target /\ item'.rec.head = item.rec.head
            /\ item'.rec.files = item.rec.files
            /\ \/ item'.rec.green = item.rec.green
               \/ Attempting /\ job.pc = "result" /\ item'.rec.green = job.green
<1>. DEFINE Same == /\ InRecovery /\ item.rec # None /\ item'.rec # None
                    /\ item'.rec.target = item.rec.target /\ item'.rec.head = item.rec.head
                    /\ item'.rec.files = item.rec.files
                    /\ \/ item'.rec.green = item.rec.green
                       \/ Attempting /\ job.pc = "result" /\ item'.rec.green = job.green
<1>a. InRecovery => item.rec # None
  BY RecordThere
<1>b. InRecovery /\ item'.rec = item.rec => Same
  BY <1>a
<1>c. job.kind = "conflict" /\ job.pc \in {"prepare"} \cup Working \cup Publishing => InRecovery
  BY DEF JobPlaced, InRecovery, OrdinaryRun, Running
<1>d. job.kind = "worker" /\ job.pc \in Working \cup Publishing => OrdinaryRun
  BY DEF JobPlaced
<1>e. ~(OrdinaryRun /\ InRecovery)
  BY DEF OrdinaryRun, InRecovery, Running, Ordinary
<1>1. CASE item' = item
  BY <1>1, <1>b DEF InRecovery, Running
<1>2. CASE StopsShort
  BY <1>2, <1>a, <1>c DEF StopsShort, Retained, Working
<1>3. CASE \/ UpdateBranchEffect \/ MergePullRequestEffect \/ BeginPrepareEffect
           \/ FinishPublicationEffect \/ PushWorkEffect \/ RetryStageEffect
  BY <1>3 DEF UpdateBranchEffect, MergePullRequestEffect, BeginPrepareEffect, FinishPublicationEffect,
              PushWorkEffect, RetryStageEffect, Becomes, InRecovery, Running
<1>4. CASE AcquireEffect
  BY <1>4, <1>b DEF AcquireEffect, InRecovery, Running
<1>5. CASE ProcessPrepareEffect
  BY <1>1, <1>2, <1>5, <1>a, <1>c DEF ProcessPrepareEffect, Retained
<1>6. CASE ConflictResultEffect
  BY <1>2, <1>6, <1>a, <1>c DEF ConflictResultEffect, Retained, Attempting, Working
<1>7. CASE RecordPIDEffect
  <2>1. item.status = "launching" /\ item'.source = item.source /\ item'.status = "running"
    BY <1>7 DEF RecordPIDEffect, JobPlaced, Becomes, Kept
  <2>. QED
    BY <1>7, <1>b, <2>1 DEF RecordPIDEffect, Kept, InRecovery, Running
<1>8. CASE AcquireWorkerEffect
  BY <1>8 DEF AcquireWorkerEffect, Becomes, InRecovery, Running, Ordinary
<1>9. CASE WorkerResultEffect \/ PublishWorkEffect
  BY <1>1, <1>9 DEF WorkerResultEffect, PublishWorkEffect, Becomes, InRecovery, Running
<1>10. CASE AnswerEffect
  BY <1>10, <1>b DEF AnswerEffect, Kept, InRecovery
<1>11. CASE RestartEffect
  BY <1>1, <1>11, <1>b DEF RestartEffect, Kept, Becomes, InRecovery, Running
<1>. QED
  BY <1>1, <1>2, <1>3, <1>4, <1>5, <1>6, <1>7, <1>8, <1>9, <1>10, <1>11, Effects
     DEF PublishCheckEffect, StageMergeEffect, CommitMergeEffect, PushEffect, PrepareFailsEffect,
         SpawnEffect, WorkerExitsEffect

\* A merge that preparing begins is not that of the recorded base: the worktree's
\* head contains it already, below a commit of the ordinary publisher.
LEMMA FreshMerges ==
  ASSUME TypeInv, JobPlaced, TreeShape, RecordKept, OnRecord, ProcessPrepareEffect, tree' # tree
  PROVE  /\ tree'.merge = base /\ tree'.head = tree.head /\ tree.head.by = "publisher"
         /\ tree'.merge # item.rec.target /\ tree'.merge # 0
<1>1. /\ tree' = MergeBase(tree) /\ tree.merge = 0 /\ tree.head.merge # item.rec.target
      /\ tree.head.base < base /\ item.status = "launching" /\ item.source = "conflict"
      /\ job.pc = "prepare"
  BY DEF ProcessPrepareEffect
<1>2. tree'.merge = base /\ tree'.head = tree.head
  BY <1>1, MergeFields
<1>3. tree.head.by = "publisher"
  BY <1>1 DEF OnRecord, InRecovery, Running
<1>4. item.rec \in RecT
  BY <1>1, RecordThere
<1>5. Contained
  BY <1>1, <1>4 DEF RecordKept, Merging, RecT
<1>6. base # item.rec.target /\ base # 0
  BY <1>1, <1>4, <1>5 DEF Contained, TypeInv, TreeT, CommitT, RecT
<1>. QED
  BY <1>2, <1>3, <1>6

\* The merge in the worktree of a recovery is the one on record.
LEMMA StepKeepsOnRecord ==
  ASSUME TypeInv, ExecutionHeld, JobPlaced, WorkerPlaced, TreeShape, RecordKept, OnRecord,
         AttemptOpen, ChecksHold, [Next]_vars
  PROVE  OnRecord'
<1>. SUFFICES ASSUME InRecovery'
              PROVE  OnRecord'
  BY DEF OnRecord
<1>a. item.rec # None => item.rec.target # 0
  BY DEF TypeInv, ItemT, RecT
<1>1. CASE BeginRecordEffect
  <2>1. /\ tree' = tree /\ item'.rec.head = tree.head.n /\ item'.rec.files = tree.unmerged
        /\ item'.rec.target = (IF job.pc = "record" THEN tree.merge ELSE tree.head.base)
        /\ job.pc \in {"record", "record_published"}
    BY <1>1 DEF BeginRecordEffect
  <2>2. job.pc = "record" => tree.merge # 0
    BY DEF JobPlaced
  <2>3. tree.merge = 0 => /\ item'.rec.target = tree.head.base
                          /\ tree.head.merge = tree.head.base \/ tree.head.by = "publisher"
                          /\ ~tree.unmerged
    BY <2>1, <2>2 DEF JobPlaced, TreeShape
  <2>. QED
    BY <2>1, <2>3 DEF OnRecord, Merging
<1>2. CASE /\ InRecovery /\ item.rec # None /\ item'.rec # None
           /\ item'.rec.target = item.rec.target /\ item'.rec.head = item.rec.head
           /\ item'.rec.files = item.rec.files
           /\ \/ item'.rec.green = item.rec.green
              \/ Attempting /\ job.pc = "result" /\ item'.rec.green = job.green
  <2>. USE <1>2 DEF OnRecord, Merging
  <2>1. CASE tree' = tree /\ hist' = hist
    <3>1. CASE item'.rec.green = item.rec.green
      BY <2>1, <3>1
    <3>2. CASE Attempting
      BY <1>a, <2>1, <3>2 DEF AttemptOpen
    <3>. QED
      BY <3>1, <3>2
  <2>2. CASE ProcessPrepare
    <3>1. ProcessPrepareEffect
      BY <2>2, PrepareEffects
    <3>2. item'.rec.green = item.rec.green
      BY <3>1 DEF ProcessPrepareEffect, StopsShort
    <3>3. CASE tree' = tree
      BY <3>1, <3>2, <3>3 DEF ProcessPrepareEffect
    <3>4. CASE tree' # tree
      BY <3>1, <3>4, FreshMerges
    <3>. QED
      BY <3>3, <3>4
  <2>3. CASE WorkerEdits
    <3>1. /\ tree'.head = tree.head /\ tree'.merge = tree.merge /\ tree'.unmerged = tree.unmerged
          /\ worker /\ item' = item
      BY <2>3 DEF WorkerEdits, LeftEdits, Edit, TypeInv, TreeT
    <3>2. Merging => tree.unmerged
      BY <3>1, EditsAreAttempts DEF AttemptOpen
    <3>. QED
      BY <3>1, <3>2
  <2>8. CASE LeftEdits
    <3>1. /\ tree'.head = tree.head /\ tree'.merge = tree.merge /\ tree'.unmerged = tree.unmerged
          /\ hist'.checked = hist.checked /\ item' = item
      BY <2>8 DEF LeftEdits, Edit, TypeInv, TreeT
    <3>. QED
      BY <3>1
  <2>4. CASE StageMerge
    <3>1. StageMergeEffect
      BY <2>4, PublishEffects
    <3>2. tree'.head = tree.head /\ tree'.merge = tree.merge /\ hist' = hist
      BY <2>4 DEF StageMerge, TypeInv, TreeT
    <3>3. item'.rec.green = item.rec.green
      BY <3>1 DEF StageMergeEffect, StopsShort
    <3>4. item.rec.files /\ Merging => item.rec.green /\ hist.checked
      BY <3>1 DEF StageMergeEffect, ChecksHold
    <3>. QED
      BY <3>2, <3>3, <3>4
  <2>5. CASE CommitMerge
    <3>1. /\ job.pc = "commit" /\ item' = item
          /\ job.kind = "conflict" \/ (job.kind = "worker" /\ OrdinaryRun)
      BY <2>5 DEF CommitMerge, At, JobPlaced, Working, Publishing
    <3>2. job.kind = "conflict"
      BY <3>1 DEF OrdinaryRun, InRecovery, Running, Ordinary
    <3>3. tree.merge = item.rec.target /\ (item.rec.files => item.rec.green)
      BY <3>1, <3>2 DEF ChecksHold
    <3>4. tree'.merge = 0 /\ tree'.head.merge = tree.merge
      BY <2>5, CommitFields
    <3>. QED
      BY <1>a, <3>1, <3>3, <3>4
  <2>6. CASE WorkerExits /\ tree' = tree
    <3>1. WorkerExitsEffect
      BY <2>6, WorkerEffects
    <3>2. CASE job.pc = "working"
      <4>1. Attempting
        BY <3>2 DEF JobPlaced, Attempting, Working, OrdinaryRun, InRecovery, Running, Ordinary
      <4>. QED
        BY <2>6, <3>1, <4>1 DEF WorkerExitsEffect, AttemptOpen
    <3>3. CASE job.pc # "working"
      BY <2>6, <3>1, <3>3 DEF WorkerExitsEffect
    <3>. QED
      BY <3>2, <3>3
  <2>7. CASE BeginPrepare \/ PublishWork \/ PushWork \/ AbortMerge
    <3>1. BeginPrepareEffect \/ PublishWorkEffect \/ PushWorkEffect \/ item.status = "blocked"
      BY <2>7, PollEffects, WorkerEffects DEF AbortMerge
    <3>2. FALSE
      BY <3>1 DEF BeginPrepareEffect, PublishWorkEffect, PushWorkEffect, JobPlaced, InRecovery,
                  OrdinaryRun, Running, Ordinary, Working, Publishing
    <3>. QED
      BY <3>2
  <2>. QED
    BY <2>1, <2>2, <2>3, <2>4, <2>5, <2>6, <2>7, <2>8, QuietMoves
<1>. QED
  BY <1>1, <1>2, RecoveryMoves

\* An attempt begins by preparing it, and goes on with its record and merge.
LEMMA AttemptMoves ==
  ASSUME TypeInv, ExecutionHeld, JobPlaced, WorkerPlaced, RecordKept, [Next]_vars, Attempting'
  PROVE  \/ ProcessPrepareEffect /\ job'.pc = "spawn"
         \/ /\ Attempting /\ item'.matches = item.matches /\ item'.rec = item.rec
            /\ tree'.head = tree.head /\ tree'.merge = tree.merge /\ tree'.unmerged = tree.unmerged
<1>a. job'.kind = "conflict" /\ job'.pc \in Working
  BY DEF Attempting
<1>1. \/ ProcessPrepareEffect /\ job'.pc = "spawn"
      \/ /\ Attempting /\ item'.matches = item.matches /\ item'.rec = item.rec
  <2>1. job' = job => /\ item.status \notin {"needs_input", "blocked", "awaiting_checks"}
                      /\ sup = "up" /\ Attempting
    BY <1>a DEF Attempting, JobPlaced, Working, Publishing, InRecovery, OrdinaryRun, Running
  <2>2. CASE \/ UpdateBranchEffect \/ MergePullRequestEffect \/ AnswerEffect \/ RetryStageEffect
             \/ RestartEffect
    BY <2>1, <2>2 DEF UpdateBranchEffect, MergePullRequestEffect, AnswerEffect, RetryStageEffect,
                      RestartEffect
  <2>3. CASE SpawnEffect \/ RecordPIDEffect \/ WorkerExitsEffect \/ UNCHANGED <<item, job, sup>>
    BY <1>a, <2>1, <2>3 DEF SpawnEffect, RecordPIDEffect, WorkerExitsEffect, Kept, Attempting, Working
  <2>4. CASE ProcessPrepareEffect
    BY <1>a, <2>4 DEF ProcessPrepareEffect, StopsShort, Working
  <2>5. CASE \/ BeginPrepareEffect \/ BeginRecordEffect \/ AcquireEffect \/ ConflictResultEffect
             \/ PublishCheckEffect \/ StageMergeEffect \/ CommitMergeEffect \/ PushEffect \/ StopsShort
             \/ PrepareFailsEffect \/ FinishPublicationEffect \/ AcquireWorkerEffect \/ WorkerResultEffect \/ PublishWorkEffect
             \/ PushWorkEffect \/ job'.pc = "idle"
    BY <1>a, <2>5
       DEF BeginPrepareEffect, BeginRecordEffect, AcquireEffect, ConflictResultEffect, PublishCheckEffect,
           StageMergeEffect, CommitMergeEffect, PushEffect, StopsShort, PrepareFailsEffect,
           FinishPublicationEffect, AcquireWorkerEffect, WorkerResultEffect, PublishWorkEffect,
           PushWorkEffect, Working
  <2>. QED
    BY <2>2, <2>3, <2>4, <2>5, Effects
<1>2. CASE Attempting
  <2>1. /\ job.pc \in Working /\ job.kind = "conflict"
        /\ item.status \notin {"awaiting_checks", "blocked"}
    BY <1>2 DEF Attempting, JobPlaced, Working, Publishing, InRecovery, OrdinaryRun, Running
  <2>2. \/ tree' = tree \/ WorkerEdits \/ LeftEdits
    BY <2>1, QuietMoves
       DEF BeginPrepare, ProcessPrepare, PublishCheck, StageMerge, CommitMerge, PublishWork, PushWork,
           AbortMerge, Poll, At, Working
  <2>3. /\ tree'.head = tree.head /\ tree'.merge = tree.merge /\ tree'.unmerged = tree.unmerged
    BY <2>2 DEF WorkerEdits, LeftEdits, Edit, TypeInv, TreeT
  <2>. QED
    BY <1>1, <2>3
<1>. QED
  BY <1>1, <1>2

\* A conflict worker at work has conflicts to resolve.
LEMMA StepKeepsAttempt ==
  ASSUME TypeInv, ExecutionHeld, JobPlaced, WorkerPlaced, TreeShape, RecordKept, OnRecord,
         AttemptOpen, [Next]_vars, JobPlaced', WorkerPlaced'
  PROVE  AttemptOpen'
<1>1. ASSUME Attempting'
      PROVE  ~item'.matches /\ (Merging' \/ tree'.head.by = "publisher") /\ (Merging' => tree'.unmerged)
  <2>1. CASE ProcessPrepareEffect /\ job'.pc = "spawn"
    <3>1. /\ ~item'.matches /\ item'.rec.target = item.rec.target
          /\ tree'.unmerged \/ (item.rec.files /\ ~item.rec.green)
          /\ \/ tree.merge = item.rec.target /\ tree' = tree
             \/ tree.merge = 0 /\ tree.head.merge = item.rec.target /\ tree' = tree
             \/ tree' # tree
             \/ tree' = tree /\ tree.merge = 0
          /\ item.status = "launching" /\ item.source = "conflict" /\ job.pc = "prepare"
      BY <2>1 DEF ProcessPrepareEffect, StopsShort, Retained
    <3>2. item.rec # None /\ item.rec.target # 0
      BY <3>1, RecordThere DEF RecT
    <3>3. InRecovery
      BY <3>1 DEF InRecovery, Running
    <3>4. CASE tree' # tree
      BY <2>1, <3>1, <3>4, FreshMerges DEF Merging
    <3>5. CASE tree' = tree /\ tree.merge = item.rec.target
      BY <3>1, <3>3, <3>5 DEF OnRecord, Merging
    <3>6. CASE tree' = tree /\ tree.merge = 0
      BY <3>1, <3>2, <3>3, <3>6 DEF OnRecord, Merging, TreeShape
    <3>. QED
      BY <3>1, <3>4, <3>5, <3>6
  <2>2. CASE /\ Attempting /\ item'.matches = item.matches /\ item'.rec = item.rec
             /\ tree'.head = tree.head /\ tree'.merge = tree.merge /\ tree'.unmerged = tree.unmerged
    BY <2>2 DEF AttemptOpen, Merging
  <2>. QED
    BY <1>1, <2>1, <2>2, AttemptMoves
<1>2. ASSUME worker', Running', item'.source = "conflict", ~Attempting'
      PROVE  Merging' => tree'.unmerged
  <2>1. sup' # "up" /\ job'.pc = "idle"
    BY <1>2 DEF WorkerPlaced, JobPlaced, Attempting, Running, OrdinaryRun, Ordinary, Working, Publishing
  <2>2. worker
    BY <1>2, <2>1, WorkerEffects
       DEF Next, Supervisor, vars, AdvanceBase, ForeignPush, UpdateBranch, MergePullRequest,
       BeginPrepare, BeginFails, WorkerEdits, LeftEdits, Edit, PublishFails, PrepareFails, Answer, RetryStage,
       AbortMerge, Crash, BeginRecord, Acquire, ProcessPrepare, Spawn, RecordPID, WorkerExits, SpawnEffect,
       ConflictResult, PublishCheck, StageMerge, CommitMerge, Push, FinishPublication, AcquireWorker,
       WorkerResult, PublishWork, PushWork, Restart
  <2>3. job.pc \notin {"result", "prepare"} \cup Publishing
    BY <2>2, EditsAreAttempts
  <2>4. item' = item
    BY <1>2, <2>1, <2>3, Effects
       DEF UpdateBranchEffect, MergePullRequestEffect, BeginPrepareEffect, BeginRecordEffect, AcquireEffect,
         ProcessPrepareEffect, ConflictResultEffect, PublishCheckEffect, StageMergeEffect, CommitMergeEffect, PushEffect,
         StopsShort, PrepareFailsEffect, FinishPublicationEffect, SpawnEffect, RecordPIDEffect,
         WorkerExitsEffect, AcquireWorkerEffect, WorkerResultEffect, PublishWorkEffect, PushWorkEffect,
         AnswerEffect, RetryStageEffect, RestartEffect, Becomes, Running, Publishing
  <2>5. tree' = tree \/ WorkerEdits \/ LeftEdits
    BY <1>2, <2>3, <2>4, QuietMoves
       DEF BeginPrepare, ProcessPrepare, PublishCheck, StageMerge, CommitMerge, PublishWork, PushWork,
           AbortMerge, Poll, At, Running, Publishing
  <2>6. tree'.merge = tree.merge /\ tree'.unmerged = tree.unmerged
    BY <2>5 DEF WorkerEdits, LeftEdits, Edit, TypeInv, TreeT
  <2>. QED
    BY <1>2, <2>2, <2>4, <2>6 DEF AttemptOpen, Merging, Running
<1>. QED
  BY <1>1, <1>2 DEF AttemptOpen

\* While the recovery judges a result or publishes, only its own steps and a worker
\* left behind touch the worktree.
LEMMA PublicationQuiet ==
  ASSUME TypeInv, JobPlaced, WorkerPlaced, [Next]_vars,
         job.kind = "conflict", job.pc \in {"result"} \cup Publishing
  PROVE  \/ tree' = tree /\ hist' = hist
         \/ LeftEdits \/ StageMerge \/ CommitMerge
<1>1. ~worker /\ item.status \notin {"awaiting_checks", "blocked"}
  BY EditsAreAttempts DEF JobPlaced, InRecovery, OrdinaryRun, Running, Working
<1>. QED
  BY <1>1, QuietMoves
     DEF BeginPrepare, ProcessPrepare, WorkerEdits, PublishWork, PushWork, AbortMerge, WorkerExits,
         Poll, At, Publishing

\* How a job comes to judge, check, stage or commit.
LEMMA ChecksMoves ==
  ASSUME TypeInv, ExecutionHeld, JobPlaced, RecordKept, [Next]_vars,
         job'.kind = "conflict", job'.pc \in {"result", "publish", "stage", "commit"}
  PROVE  \/ job' = job /\ item' = item
         \/ BeginRecordEffect \/ ProcessPrepareEffect \/ ConflictResultEffect \/ PublishCheckEffect
         \/ StageMergeEffect \/ WorkerExitsEffect
<1>1. job' = job => /\ item.status \notin {"needs_input", "blocked", "awaiting_checks"}
                    /\ sup = "up" /\ job.pc # "idle"
  BY DEF JobPlaced, Working, Publishing, InRecovery, OrdinaryRun, Running
<1>. QED
  BY <1>1, Effects
     DEF UpdateBranchEffect, MergePullRequestEffect, BeginPrepareEffect, AcquireEffect,
         CommitMergeEffect, PushEffect, StopsShort, PrepareFailsEffect, FinishPublicationEffect,
         SpawnEffect, RecordPIDEffect, AcquireWorkerEffect, WorkerResultEffect, PublishWorkEffect,
         PushWorkEffect, AnswerEffect, RetryStageEffect, RestartEffect

\* The tests reported green are carried from the report to the commit.
LEMMA StepKeepsChecks ==
  ASSUME TypeInv, ExecutionHeld, JobPlaced, WorkerPlaced, TreeShape, RecordKept, OnRecord,
         ChecksHold, [Next]_vars
  PROVE  ChecksHold'
<1>. SUFFICES ASSUME job'.kind = "conflict", job'.pc \in {"result", "publish", "stage", "commit"}
              PROVE  ChecksHold'
  BY DEF ChecksHold, Attempting
<1>2. CASE job' = job /\ item' = item
  <2>1. \/ tree' = tree /\ hist' = hist
        \/ LeftEdits
    <3>1. (tree' = tree /\ hist' = hist) \/ LeftEdits \/ StageMerge \/ CommitMerge
      BY <1>2, PublicationQuiet DEF Publishing
    <3>2. (StageMerge \/ CommitMerge) => job' # job
      BY PublishEffects DEF StageMergeEffect, CommitMergeEffect, StopsShort
    <3>. QED
      BY <1>2, <3>1, <3>2
  <2>2. tree'.merge = tree.merge /\ hist'.checked = hist.checked
    BY <2>1 DEF LeftEdits, Edit, TypeInv, TreeT
  <2>. QED
    BY <1>2, <2>2 DEF ChecksHold, Attempting, Merging
<1>3. CASE BeginRecordEffect
  BY <1>3 DEF BeginRecordEffect, ChecksHold
<1>4. CASE ProcessPrepareEffect
  <2>1. /\ item' = item /\ job'.pc = "publish" /\ hist'.checked = hist.checked
        /\ ~tree'.unmerged /\ (~item.rec.files \/ item.rec.green) /\ InRecovery
    BY <1>4 DEF ProcessPrepareEffect, StopsShort, InRecovery, Running
  <2>2. CASE tree' = tree
    BY <2>1, <2>2 DEF OnRecord, ChecksHold, Merging
  <2>3. CASE tree' # tree
    <3>1. tree'.merge # item.rec.target
      BY <1>4, <2>3, FreshMerges
    <3>. QED
      BY <2>1, <3>1 DEF ChecksHold, Merging
  <2>. QED
    BY <2>2, <2>3
<1>5. CASE ConflictResultEffect
  <2>1. /\ job.kind = "conflict" /\ job.pc = "result" /\ job'.pc = "publish"
        /\ job'.green = job.green /\ item'.rec.green = job.green
    BY <1>5 DEF ConflictResultEffect, StopsShort
  <2>2. hist'.checked = hist.checked
    BY <2>1, PublicationQuiet DEF LeftEdits, StageMerge, CommitMerge, At, TypeInv
  <2>3. job.green => hist.checked
    BY <2>1 DEF ChecksHold, Attempting, Working
  <2>. QED
    BY <2>1, <2>2, <2>3 DEF ChecksHold
<1>6. CASE PublishCheckEffect
  <2>1. /\ job.kind = "conflict" /\ job.pc = "publish" /\ job'.pc = "stage" /\ item' = item
        /\ tree' = tree /\ hist' = hist /\ tree.merge = item.rec.target
        /\ item.rec.files => job.green
    BY <1>6 DEF PublishCheckEffect, StopsShort
  <2>2. item.rec.files => hist.checked /\ item.rec.green
    BY <2>1 DEF ChecksHold, Merging
  <2>. QED
    BY <2>1, <2>2 DEF ChecksHold, Merging
<1>7. CASE StageMergeEffect
  <2>1. /\ job.kind = "conflict" /\ job.pc = "stage" /\ job'.pc = "commit" /\ item' = item
        /\ hist' = hist /\ tree' = [tree EXCEPT !.unmerged = FALSE]
    BY <1>7 DEF StageMergeEffect, StopsShort
  <2>2. tree'.merge = tree.merge
    BY <2>1 DEF TypeInv, TreeT
  <2>. QED
    BY <2>1, <2>2 DEF ChecksHold, Merging
<1>8. CASE WorkerExitsEffect
  BY <1>2, <1>8 DEF WorkerExitsEffect, ChecksHold
<1>. QED
  BY <1>2, <1>3, <1>4, <1>5, <1>6, <1>7, <1>8, ChecksMoves

\* The content found in scope is what is staged, unless a worker left behind edits it.
LEMMA StepKeepsContent ==
  ASSUME TypeInv, ExecutionHeld, JobPlaced, WorkerPlaced, TreeShape, RecordKept, ContentHolds,
         [Next]_vars
  PROVE  ContentHolds'
<1>. SUFFICES ASSUME job'.kind = "conflict", job'.pc \in {"stage", "commit"}
              PROVE  tree'.content = "resolved" \/ hist'.touched
  BY DEF ContentHolds
<1>1. CASE job' = job /\ item' = item
  <2>1. (tree' = tree /\ hist' = hist) \/ LeftEdits \/ StageMerge \/ CommitMerge
    BY <1>1, PublicationQuiet DEF Publishing
  <2>2. (StageMerge \/ CommitMerge) => job' # job
    BY PublishEffects DEF StageMergeEffect, CommitMergeEffect, StopsShort
  <2>3. LeftEdits => hist'.touched
    BY DEF LeftEdits, TypeInv
  <2>. QED
    BY <1>1, <2>1, <2>2, <2>3 DEF ContentHolds
<1>2. CASE PublishCheckEffect
  <2>1. /\ tree' = tree /\ tree.merge # 0 /\ tree.content \in {"clean", "resolved"}
    BY <1>2 DEF PublishCheckEffect, StopsShort
  <2>. QED
    BY <2>1 DEF TreeShape
<1>3. CASE StageMergeEffect
  <2>1. /\ job.kind = "conflict" /\ job.pc = "stage" /\ hist' = hist
        /\ tree' = [tree EXCEPT !.unmerged = FALSE]
    BY <1>3 DEF StageMergeEffect
  <2>2. tree'.content = tree.content
    BY <2>1 DEF TypeInv, TreeT
  <2>. QED
    BY <2>1, <2>2 DEF ContentHolds
<1>4. ~(BeginRecordEffect \/ ProcessPrepareEffect \/ ConflictResultEffect)
  BY DEF BeginRecordEffect, ProcessPrepareEffect, ConflictResultEffect, StopsShort
<1>5. WorkerExitsEffect => job' = job /\ item' = item
  BY DEF WorkerExitsEffect
<1>. QED
  BY <1>1, <1>2, <1>3, <1>4, <1>5, ChecksMoves

\* Hence what the recovery commits has been verified.
LEMMA StepKeepsPublished ==
  ASSUME TypeInv, ChecksHold, ContentHolds, PublishedIsVerified, [Next]_vars
  PROVE  PublishedIsVerified'
<1>1. CASE UNCHANGED <<head, tree>>
  BY <1>1 DEF PublishedIsVerified
<1>2. CASE ForeignPush \/ UpdateBranch
  <2>1. tree' = tree /\ head'.by \in {"foreign", "github"}
    BY <1>2 DEF ForeignPush, UpdateBranch, Commit
  <2>. QED
    BY <2>1 DEF PublishedIsVerified
<1>3. CASE BeginPrepare \/ ProcessPrepare
  <2>1. head' = head /\ tree'.head = tree.head
    BY <1>3, MergeFields DEF BeginPrepare, ProcessPrepare
  <2>. QED
    BY <2>1 DEF PublishedIsVerified
<1>4. CASE WorkerEdits \/ LeftEdits \/ StageMerge \/ PublishWork \/ AbortMerge \/ Push
  <2>1. head' \in {head, tree.head} /\ tree'.head = tree.head
    BY <1>4 DEF WorkerEdits, LeftEdits, Edit, StageMerge, PublishWork, AbortMerge, Push, TypeInv, TreeT
  <2>. QED
    BY <2>1 DEF PublishedIsVerified
<1>5. CASE CommitMerge
  <2>1. /\ head' = head
        /\ tree'.head.by = (IF job.kind = "conflict" THEN "recovery" ELSE "publisher")
        /\ tree'.head.verified = (/\ tree.content = "resolved"
                                  /\ hist.checked \/ (job.kind = "conflict" /\ ~item.rec.files)
                                  /\ ~hist.touched)
        /\ tree'.head.touched = hist.touched
    BY <1>5, CommitFields
  <2>2. job.kind = "conflict" => /\ tree.content = "resolved" \/ hist.touched
                                 /\ item.rec.files => hist.checked
    BY <1>5 DEF CommitMerge, At, ChecksHold, ContentHolds
  <2>. QED
    BY <2>1, <2>2 DEF PublishedIsVerified
<1>6. CASE PushWork
  <2>1. \/ head' = tree.head /\ tree' = tree
        \/ head'.by = "publisher" /\ tree'.head = head'
    BY <1>6 DEF PushWork, Commit, TypeInv, TreeT
  <2>. QED
    BY <2>1 DEF PublishedIsVerified
<1>. QED
  BY <1>1, <1>2, <1>3, <1>4, <1>5, <1>6, TreeMoves

\* The initial state satisfies the invariant.
LEMMA InitHolds == Init => IInv
<1>. SUFFICES ASSUME Init PROVE IInv
  OBVIOUS
<1>1. /\ base = 1 /\ 1 \in 1..MaxBase /\ 0 \in 0..MaxBase
      /\ Commit(1, 0, 1, 0, "run", TRUE, FALSE) \in CommitT
  <2>1. base = 1 /\ 1 \in 1..MaxBase /\ 0 \in 0..MaxBase /\ 0 \in Nat /\ 1 \in Nat
    BY ConflictAssumption DEF Init
  <2>2. "run" \in Authors /\ TRUE \in BOOLEAN
    BY DEF Authors
  <2>. QED
    BY <2>1, <2>2, CommitTyped
<1>2. /\ head = Commit(1, 0, 1, 0, "run", TRUE, FALSE)
      /\ tree = [head |-> Commit(1, 0, 1, 0, "run", TRUE, FALSE), merge |-> 0, unmerged |-> FALSE,
                 content |-> "clean"]
      /\ tree.head.by = "run" /\ tree.head.base = 1 /\ tree.head.merge = 0 /\ head.base = 1
      /\ item = [status |-> "awaiting_checks", source |-> None, rec |-> None, stage |-> "checks",
                 owns |-> FALSE, pid |-> FALSE, matches |-> TRUE, seen |-> 1]
      /\ job = Idle /\ job.pc = "idle" /\ job.kind = None /\ worker = FALSE
      /\ left \in BOOLEAN /\ sup = "up" /\ commits = 1
      /\ used \in [pushes : Nat, crashes : Nat, faults : Nat, resolves : Nat]
      /\ hist \in [checked : BOOLEAN, touched : BOOLEAN]
  BY ConflictAssumption DEF Init, Commit, Idle
<1>3. TypeInv
  <2>1. tree \in TreeT
    BY <1>1, <1>2 DEF TreeT, Contents
  <2>2. item \in ItemT
    BY <1>2 DEF ItemT, Statuses
  <2>. QED
    BY <1>1, <1>2, <2>1, <2>2, IdleTyped DEF TypeInv
<1>4. ExecutionHeld /\ JobPlaced /\ WorkerPlaced /\ RecordKept /\ OnRecord
  BY <1>2 DEF ExecutionHeld, JobPlaced, WorkerPlaced, RecordKept, OnRecord, Running, InRecovery,
              Working, Publishing
<1>5. AttemptOpen /\ ChecksHold /\ ContentHolds
  BY <1>2 DEF AttemptOpen, ChecksHold, ContentHolds, Attempting, Working
<1>6. TreeShape /\ PublishedIsVerified
  BY <1>1, <1>2 DEF TreeShape, PublishedIsVerified, Commit
<1>. QED
  BY <1>3, <1>4, <1>5, <1>6 DEF IInv

\* Every step keeps it.
LEMMA StepHolds == IInv /\ [Next]_vars => IInv'
<1>. SUFFICES ASSUME IInv, [Next]_vars PROVE IInv'
  OBVIOUS
<1>. USE DEF IInv
<1>1. TypeInv'
  BY StepKeepsTypes
<1>2. ExecutionHeld'
  BY StepKeepsExecution
<1>3. JobPlaced'
  BY StepKeepsPlace
<1>4. WorkerPlaced'
  BY <1>3, StepKeepsWorker
<1>5. TreeShape' /\ RecordKept'
  BY <1>1, StepKeepsShape, StepKeepsRecord
<1>6. OnRecord' /\ ChecksHold' /\ ContentHolds' /\ PublishedIsVerified'
  BY StepKeepsOnRecord, StepKeepsChecks, StepKeepsContent, StepKeepsPublished
<1>7. AttemptOpen'
  BY <1>3, <1>4, StepKeepsAttempt
<1>. QED
  BY <1>1, <1>2, <1>3, <1>4, <1>5, <1>6, <1>7

-----------------------------------------------------------------------------
(* What follows. *)

\* A merge that the recovery commits or pushes carries a resolution in scope, with its
\* worker's tests green, unless a worker that a crash left behind edited the worktree
\* after the report or the last commit (conflict.go Publish, processes.go StopWorkers).
THEOREM PublishedMergesAreVerified == Spec => []PublishedIsVerified
<1>1. IInv => PublishedIsVerified
  BY DEF IInv
<1>. QED
  BY <1>1, InitHolds, StepHolds, PTL DEF Spec

\* A conflict worker edits the merge that is recorded, from the recorded head and
\* with its conflicts in the index, unless the ordinary publisher has committed on
\* top (conflict.go Prepare, conflict_lifecycle.go processConflictRecovery).
THEOREM WorkersEditTheRecordedMerge == Spec => []WorksOnRecordedMerge
<1>1. IInv => WorksOnRecordedMerge
  <2>. SUFFICES ASSUME IInv, tree.head.by # "publisher", Attempting
                PROVE  Merging /\ tree.head.n = item.rec.head /\ tree.unmerged
    BY DEF WorksOnRecordedMerge, OnRecordedMerge, Attempting, Merging, Working
  <2>1. Merging /\ tree.unmerged
    BY DEF IInv, AttemptOpen
  <2>2. InRecovery
    BY DEF IInv, JobPlaced, Attempting
  <2>. QED
    BY <2>1, <2>2 DEF IInv, OnRecord
<1>. QED
  BY <1>1, InitHolds, StepHolds, PTL DEF Spec
=============================================================================
