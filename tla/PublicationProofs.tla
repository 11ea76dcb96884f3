-------------------------- MODULE PublicationProofs --------------------------
(***************************************************************************)
(* Proofs about Publication, for every number of attempts, commits, pushes *)
(* of others, failures, stops, resolutions and removals: completed work is *)
(* not lost with its worktree, it is whole in the pull request that waits  *)
(* for its checks, and a publication that failed is not worked on again.   *)
(*                                                                         *)
(* Where completed work is kept is inductive once the Issue's branch is    *)
(* known to exist.  The other two need where the job can stand in each     *)
(* status, and that a worktree behind its commit holds no changes.         *)
(***************************************************************************)
EXTENDS Publication, TLAPS

-----------------------------------------------------------------------------
(* The inductive invariant. *)

Publishing == {"validate", "format", "commit", "merge", "push", "open", "record"}
Places == {"idle", "ensure", "claimed", "work"} \cup Publishing
JobT == [pc : Places, head : Commits \cup {None}, stage : {None, "publish"}, others : SUBSET Nat]

TypeInv ==
  /\ TypeOK /\ job \in JobT /\ done \in SUBSET Units
  /\ used \in [Faults -> Nat] /\ used["runs"] <= MaxRuns /\ used["foreign"] <= MaxForeign

\* The status of the Issue at each place of the job.
JobPlaced ==
  /\ job.pc \in {"ensure", "claimed"} => item.status = "claiming"
  /\ job.pc \in {"work"} \cup Publishing => item.status = "running"
  /\ sup = "down" => used["stops"] > 0

\* A base is on record from the start, and a branch exists once there is anything
\* that needs it; GitHub has one when there is or will be a pull request.
BranchKnown ==
  /\ item.status # "none" => item.base # None
  /\ (\/ item.status \notin {"none", "claiming"} \/ job.pc \notin {"idle", "ensure"}
      \/ item.tree \/ tree # None \/ pull # None) => local.branch # None
  /\ pull # None \/ job.pc \in {"open", "record"} => origin.branch # None

\* From its commit on the worktree of a publication has no changes, and once
\* pushed the work is on GitHub.
WorkPlaced ==
  /\ job.pc \in {"merge", "push", "open", "record"} => tree \in {None, {}}
  /\ job.pc \in {"open", "record"} => done \subseteq Held(origin.branch)

\* A publish checkpoint of an Issue without a pull request fails, is resumed, or
\* is being served by a job that knows it.
CheckpointServed ==
  item.stage = "publish" /\ ~item.pr /\ used["stops"] = 0 =>
    \/ item.status \in {"failed", "resume_pending"}
    \/ job.stage = "publish" /\ job.pc \in Publishing

IInv ==
  /\ TypeInv /\ JobPlaced /\ BranchKnown /\ WorkPlaced
  /\ WorkKept /\ PublishedWorkWhole /\ CheckpointServed

-----------------------------------------------------------------------------
(* What the parts of an action leave. *)

\* failIssue ends the job and remembers the stage to go on from.
LEMMA FailFields ==
  ASSUME item \in Items, NEW status \in Statuses, NEW stage \in {None, "resume", "checks", "publish"},
         Fail(status, stage)
  PROVE  /\ item' \in Items /\ job' = Idle /\ item'.status = status /\ item'.stage = stage
         /\ item'.tree = item.tree /\ item'.base = item.base /\ item'.pr = item.pr
BY DEF Fail, End, Items

\* A retry waits, or fails when the attempts are used up.
LEMMA RetryFields ==
  ASSUME item \in Items, NEW stage \in {None, "resume", "checks", "publish"}, Retry(stage)
  PROVE  /\ item' \in Items /\ job' = Idle
         /\ item'.tree = item.tree /\ item'.base = item.base /\ item'.pr = item.pr
         /\ \/ item'.status = "failed" /\ item'.stage = stage
            \/ item'.status = "retry_wait" /\ item'.stage = item.stage
<1>1. CASE Fail("failed", stage)
  BY <1>1, FailFields DEF Statuses
<1>2. CASE item' = [item EXCEPT !.status = "retry_wait"] /\ End
  BY <1>2 DEF End, Items, Statuses
<1>. QED
  BY <1>1, <1>2 DEF Retry

\* A failed publication likewise, with a budget of its own.
LEMMA PublicationFailsFields ==
  ASSUME item \in Items, PublicationFails
  PROVE  /\ item' \in Items /\ job' = Idle
         /\ item'.tree = item.tree /\ item'.base = item.base /\ item'.pr = item.pr
         /\ \/ item'.status = "failed" /\ item'.stage = "publish"
            \/ item'.status = "retry_wait" /\ item'.stage = item.stage /\ job.stage # "publish"
BY FailFields, RetryFields DEF PublicationFails, Statuses

\* The stage a checkpoint keeps.
LEMMA KeptStage ==
  ASSUME item \in Items, NEW stage \in {"resume", "checks"}
  PROVE  /\ Kept(stage) \in {None, "resume", "checks", "publish"}
         /\ Kept(stage) = "publish" => item.stage = "publish"
BY DEF Kept, Items

\* No job is a job record too.
LEMMA IdleTyped == Idle \in JobT
BY DEF Idle, JobT, Places

-----------------------------------------------------------------------------
(* What the steps do to the Issue and the job. *)

Same == item'.tree = item.tree /\ item'.base = item.base /\ item'.pr = item.pr
Stays == item'.stage = item.stage /\ Same
Fresh == item'.stage = "publish" => item.stage = "publish"

\* The worktree's preparation and the worker's run.
ClaimMoves ==
  \/ /\ item.status = "none" /\ item'.status = "claiming" /\ item'.base # None
     /\ item'.stage = item.stage /\ item'.tree = item.tree /\ item'.pr = item.pr
     /\ job.pc = "idle" /\ job'.pc = "ensure"
  \/ item' = item /\ item.status = "claiming" /\ job.pc = "idle" /\ job'.pc = "ensure"
  \/ item' = item /\ job.pc = "ensure" /\ job'.pc \in {"idle", "claimed"}
  \/ /\ job.pc = "claimed" /\ job'.pc = "work" /\ item'.status = "running"
     /\ item'.stage = item.stage /\ item'.base = item.base /\ item'.pr = item.pr
RunMoves ==
  \/ Stays /\ job.pc = "work" /\ job'.pc = "validate" /\ item'.status = item.status
  \/ /\ Same /\ Fresh /\ job.pc = "work" /\ job'.pc = "idle"
     /\ item'.status \in {"blocked", "failed", "retry_wait"}
  \/ /\ Same /\ job.pc = "idle" /\ item.status \in {"retry_wait", "resume_pending"}
     /\ \/ item'.status = "running" /\ item'.stage = item.stage /\ job'.pc = "work"
           /\ (item.status = "resume_pending" => item.stage # "publish")
        \/ item'.status = "running" /\ job'.pc = "validate" /\ job'.stage = "publish"
        \/ item'.status = "failed" /\ job'.pc = "idle"
           /\ item.status = "resume_pending" /\ item.stage = "publish"
        \/ item'.status = "blocked" /\ job'.pc = "idle" /\ item.pr

\* Publishing goes on, fails, or is put on record.
PublishMoves ==
  /\ job.pc \in Publishing
  /\ \/ item' = item /\ job'.pc \in Publishing /\ job'.stage = job.stage
     \/ /\ Same /\ job'.pc = "idle"
        /\ \/ item'.status = "failed" /\ item'.stage = "publish"
           \/ item'.status = "retry_wait" /\ item'.stage = item.stage /\ job.stage # "publish"
     \/ /\ job.pc = "record" /\ job'.pc = "idle" /\ item'.status = "awaiting_checks"
        /\ item'.pr /\ item'.tree = item.tree /\ item'.base = item.base

\* What reconciliation, the operator and the pull request make of an Issue at rest.
RestMoves ==
  /\ job' = job /\ job.pc = "idle"
  /\ \/ /\ item.status = "awaiting_checks" /\ Same /\ Fresh
        /\ item'.status \in {"awaiting_checks", "completed", "blocked", "failed", "retry_wait"}
     \/ /\ sup = "down" /\ item'.tree = item.tree /\ item'.base = item.base
        /\ item'.status = "awaiting_checks" => item.status = "awaiting_checks"
        /\ item'.status # "running"
        /\ item'.status = "none" <=> item.status = "none"
        /\ \/ item.status # "claiming" \/ item'.status = "claiming"
           \/ pull # None \/ item.tree
     \/ /\ item.status \in {"failed", "blocked"} /\ Stays
        /\ \/ item'.status = "resume_pending"
           \/ item'.status = "awaiting_checks" /\ item.stage = "checks" /\ tree = {}
              /\ local.branch = origin.branch

ItemMoves ==
  \/ UNCHANGED <<item, job>>
  \/ item' = item /\ job' = Idle /\ used'["stops"] > 0
  \/ ClaimMoves \/ RunMoves \/ PublishMoves \/ RestMoves
  \/ /\ job' = job /\ item'.status = item.status /\ item'.stage = item.stage
     /\ item'.base = item.base /\ item'.pr = item.pr /\ item'.tree = FALSE

\* What the claim and the making of the worktree change.
LEMMA ClaimEffects ==
  ASSUME TypeInv, StartIssue \/ ResumeClaim \/ Ensure \/ Claimed
  PROVE  ClaimMoves /\ item' \in Items /\ job' \in JobT
<1>a. item \in Items /\ job \in JobT /\ local.base \in 0 .. MaxBase
  BY DEF TypeInv, TypeOK
<1>b. local.base # None
  BY <1>a, PublicationAssumption DEF TypeInv
<1>. USE DEF ClaimMoves, At, Items, Statuses, Idle, JobT, Places, Goto, End
<1>1. CASE StartIssue
  BY <1>1, <1>a, <1>b DEF StartIssue
<1>2. CASE ResumeClaim
  BY <1>2, <1>a DEF ResumeClaim
<1>3. CASE Ensure
  BY <1>3, <1>a DEF Ensure
<1>4. CASE Claimed
  BY <1>4, <1>a DEF Claimed
<1>. QED
  BY <1>1, <1>2, <1>3, <1>4

\* What a run of the worker changes.
LEMMA RunEffects ==
  ASSUME TypeInv, JobPlaced, Work \/ StartRetry \/ StartResumed
  PROVE  RunMoves /\ item' \in Items /\ job' \in JobT
<1>a. item \in Items /\ job \in JobT
  BY DEF TypeInv, TypeOK
<1>b. /\ Kept("resume") \in {None, "resume", "checks", "publish"}
      /\ Kept("resume") = "publish" => item.stage = "publish"
      /\ {"blocked", "failed", "running"} \subseteq Statuses
  BY <1>a, KeptStage DEF Statuses
<1>c. Idle \in JobT /\ Idle.pc = "idle"
  BY IdleTyped DEF Idle
<1>1. CASE Work
  <2>1. job.pc = "work"
    BY <1>1 DEF Work, At
  <2>2. CASE Fail("blocked", Kept("resume"))
    <3>1. /\ item' \in Items /\ job' = Idle /\ item'.status = "blocked" /\ item'.stage = Kept("resume")
          /\ item'.tree = item.tree /\ item'.base = item.base /\ item'.pr = item.pr
      BY <1>a, <1>b, <2>2, FailFields
    <3>. QED
      BY <1>b, <1>c, <2>1, <3>1 DEF RunMoves, Same, Fresh
  <2>3. CASE Retry(Kept("resume"))
    <3>1. /\ item' \in Items /\ job' = Idle
          /\ item'.tree = item.tree /\ item'.base = item.base /\ item'.pr = item.pr
          /\ \/ item'.status = "failed" /\ item'.stage = Kept("resume")
             \/ item'.status = "retry_wait" /\ item'.stage = item.stage
      BY <1>a, <1>b, <2>3, RetryFields
    <3>. QED
      BY <1>b, <1>c, <2>1, <3>1 DEF RunMoves, Same, Fresh
  <2>4. CASE item' = [item EXCEPT !.result = TRUE] /\ Goto("validate")
    BY <1>a, <2>1, <2>4 DEF RunMoves, Stays, Same, Items, JobT, Places, Publishing, Goto
  <2>. QED
    BY <1>1, <2>2, <2>3, <2>4 DEF Work
<1>2. ASSUME Fail("blocked", Kept("resume")), ~SamePull, job.pc = "idle",
             item.status \in {"retry_wait", "resume_pending"}
      PROVE  RunMoves /\ item' \in Items /\ job' \in JobT
  <2>1. /\ item' \in Items /\ job' = Idle /\ item'.status = "blocked"
        /\ item'.tree = item.tree /\ item'.base = item.base /\ item'.pr = item.pr
    BY <1>a, <1>b, <1>2, FailFields
  <2>2. item.pr
    BY <1>2 DEF SamePull
  <2>. QED
    BY <1>c, <1>2, <2>1, <2>2 DEF RunMoves, Same
<1>3. CASE StartRetry
  <2>1. CASE SamePull
    <3>1. /\ item' = [item EXCEPT !.status = "running", !.attempts = @ + 1, !.result = FALSE]
          /\ job' = [Idle EXCEPT !.pc = "work"] /\ job.pc = "idle" /\ item.status = "retry_wait"
      BY <1>3, <2>1 DEF StartRetry, At
    <3>2. job' \in JobT /\ job'.pc = "work"
      BY <3>1 DEF Idle, JobT, Places
    <3>3. /\ item' \in Items /\ item'.status = "running" /\ item'.stage = item.stage
          /\ item'.tree = item.tree /\ item'.base = item.base /\ item'.pr = item.pr
      <4>1. item.attempts + 1 \in Nat
        BY <1>a DEF Items
      <4>. QED
        BY <1>a, <3>1, <4>1 DEF Items, Statuses
    <3>. QED
      BY <3>1, <3>2, <3>3 DEF RunMoves, Same
  <2>2. CASE ~SamePull
    BY <1>2, <1>3, <2>2 DEF StartRetry, At
  <2>. QED
    BY <2>1, <2>2
<1>4. CASE StartResumed
  <2>1. job.pc = "idle" /\ item.status = "resume_pending"
    BY <1>4 DEF StartResumed, At
  <2>2. CASE ~SamePull
    BY <1>2, <1>4, <2>1, <2>2 DEF StartResumed
  <2>3. CASE item' = [item EXCEPT !.status = "running"] /\ job' = [Idle EXCEPT !.pc = "work"]
             /\ item.stage # "publish"
    BY <1>a, <2>1, <2>3 DEF RunMoves, Same, Items, Statuses, Idle, JobT, Places
  <2>4. CASE item' = [item EXCEPT !.status = "running"]
             /\ job' = [Idle EXCEPT !.pc = "validate", !.stage = "publish"]
    BY <1>a, <2>1, <2>4 DEF RunMoves, Same, Items, Statuses, Idle, JobT, Places, Publishing
  <2>5. CASE Fail("failed", "publish") /\ item.stage = "publish"
    <3>1. /\ item' \in Items /\ job' = Idle /\ item'.status = "failed"
          /\ item'.tree = item.tree /\ item'.base = item.base /\ item'.pr = item.pr
      BY <1>a, <1>b, <2>5, FailFields
    <3>. QED
      BY <1>c, <2>1, <2>5, <3>1 DEF RunMoves, Same
  <2>. QED
    BY <1>4, <2>2, <2>3, <2>4, <2>5 DEF StartResumed
<1>. QED
  BY <1>1, <1>3, <1>4

\* What the publication changes.
LEMMA PublishEffects ==
  ASSUME TypeInv, JobPlaced, BranchKnown, Publish
  PROVE  PublishMoves /\ item' \in Items /\ job' \in JobT
<1>a. item \in Items /\ job \in JobT /\ origin.branch \in Commits \cup {None}
  BY DEF TypeInv, TypeOK
<1>b. job.pc \in Publishing
  BY DEF Publish, Publishing, At, ValidatePull, FormatGo, CommitWork, MergeHead, PushBranch, OpenPull, RecordPull
<1>c. Idle \in JobT /\ Idle.pc = "idle"
  BY IdleTyped DEF Idle
<1>1. CASE PublicationFails
  <2>1. /\ item' \in Items /\ job' = Idle
        /\ item'.tree = item.tree /\ item'.base = item.base /\ item'.pr = item.pr
        /\ \/ item'.status = "failed" /\ item'.stage = "publish"
           \/ item'.status = "retry_wait" /\ item'.stage = item.stage /\ job.stage # "publish"
    BY <1>a, <1>1, PublicationFailsFields
  <2>. QED
    BY <1>b, <1>c, <2>1 DEF PublishMoves, Same
<1>2. ASSUME NEW pc \in Publishing, Goto(pc), item' = item
      PROVE  PublishMoves /\ item' \in Items /\ job' \in JobT
  BY <1>a, <1>b, <1>2 DEF PublishMoves, Goto, JobT, Places
<1>3. CASE ValidatePull
  <2>. DEFINE branch == IF pull = "open" THEN origin.branch ELSE None
  <2>1. CASE job' = [job EXCEPT !.pc = "format", !.others = Foreign(EffectiveBase), !.head = branch]
             /\ item' = item
    <3>1. Foreign(EffectiveBase) \in SUBSET Nat /\ branch \in Commits \cup {None}
      <4>1. /\ item.base # None /\ local.branch # None
        BY <1>b DEF BranchKnown, JobPlaced, Publishing
      <4>2. item.base \in Nat /\ local.branch.base \in Nat /\ origin.base \in Nat
        BY <4>1, <1>a DEF TypeInv, TypeOK, Items, Commits
      <4>3. EffectiveBase \in Nat
        BY <4>2 DEF EffectiveBase
      <4>. QED
        BY <1>a, <4>2, <4>3 DEF Foreign
    <3>. HIDE DEF branch
    <3>. QED
      BY <1>a, <1>b, <2>1, <3>1 DEF PublishMoves, JobT, Places, Publishing
  <2>. QED
    BY <1>1, <1>3, <2>1 DEF ValidatePull
<1>4. CASE FormatGo
  <2>1. CASE job' = [job EXCEPT !.pc = "commit", !.others = {}] /\ item' = item
    BY <1>a, <1>b, <2>1 DEF PublishMoves, JobT, Places, Publishing
  <2>. QED
    BY <1>1, <1>4, <2>1 DEF FormatGo
<1>5. CASE CommitWork \/ MergeHead \/ PushBranch \/ OpenPull
  BY <1>1, <1>2, <1>5 DEF CommitWork, MergeHead, PushBranch, OpenPull, Publishing
<1>6. CASE RecordPull
  <2>1. /\ item' = [item EXCEPT !.status = "awaiting_checks", !.pr = TRUE] /\ job' = Idle
        /\ job.pc = "record"
    BY <1>6 DEF RecordPull, End, At
  <2>. QED
    BY <1>a, <1>b, <1>c, <2>1 DEF PublishMoves, Items, Statuses
<1>. QED
  BY <1>3, <1>4, <1>5, <1>6 DEF Publish

\* What polls, starts and resolutions change.
LEMMA RestEffects ==
  ASSUME TypeInv, JobPlaced, BranchKnown, Poll \/ Start \/ Resolve
  PROVE  RestMoves /\ item' \in Items /\ job' \in JobT
<1>a. item \in Items /\ job \in JobT
      /\ origin.branch \in Commits \cup {None} /\ local.branch \in Commits \cup {None}
  BY DEF TypeInv, TypeOK
<1>b. \A stage \in {"checks", "resume"} : /\ Kept(stage) \in {None, "resume", "checks", "publish"}
                                          /\ Kept(stage) = "publish" => item.stage = "publish"
  BY <1>a, KeptStage
<1>c. "publish" # None
  BY PublicationAssumption
<1>1. CASE Poll
  <2>1. job' = job /\ job.pc = "idle" /\ item.status = "awaiting_checks"
    BY <1>1 DEF Poll, At
  <2>. DEFINE seen == [item EXCEPT !.head = origin.branch]
  <2>2. \/ item' = [item EXCEPT !.status = "completed", !.stage = None]
        \/ item' = [seen EXCEPT !.status = "blocked", !.stage = Kept("checks")]
        \/ item' = seen
        \/ item' = [seen EXCEPT !.status = "failed", !.stage = "checks"]
        \/ item' = [seen EXCEPT !.status = "retry_wait"]
    BY <1>1 DEF Poll
  <2>3. /\ seen \in Items /\ seen.tree = item.tree /\ seen.base = item.base /\ seen.pr = item.pr
        /\ seen.status = item.status /\ seen.stage = item.stage
    BY <1>a DEF Items
  <2>. HIDE DEF seen
  <2>4. /\ item' \in Items
        /\ item'.status \in {"awaiting_checks", "completed", "blocked", "failed", "retry_wait"}
        /\ item'.tree = item.tree /\ item'.base = item.base /\ item'.pr = item.pr
        /\ item'.stage = "publish" => item.stage = "publish"
    <3>1. CASE item' = [item EXCEPT !.status = "completed", !.stage = None]
      BY <1>a, <1>c, <3>1 DEF Items, Statuses
    <3>2. CASE item' = [seen EXCEPT !.status = "blocked", !.stage = Kept("checks")]
      BY <1>b, <2>3, <3>2 DEF Items, Statuses
    <3>3. CASE item' = seen
      BY <2>1, <2>3, <3>3
    <3>4. CASE \/ item' = [seen EXCEPT !.status = "failed", !.stage = "checks"]
               \/ item' = [seen EXCEPT !.status = "retry_wait"]
      BY <2>3, <3>4 DEF Items, Statuses
    <3>. QED
      BY <2>2, <3>1, <3>2, <3>3, <3>4
  <2>. QED
    BY <1>a, <2>1, <2>4 DEF RestMoves, Same, Fresh
<1>2. CASE Start
  <2>1. job' = job /\ job.pc = "idle" /\ sup = "down" /\ item' \in {Reconciled, item}
    BY <1>2 DEF Start, TypeInv, TypeOK, Idle
  <2>2. item.status # "running" \/ item' = Reconciled
    BY <1>2 DEF Start
  <2>. DEFINE seen == [item EXCEPT !.pr = @ \/ pull # None,
                                   !.head = IF pull = None THEN @ ELSE origin.branch]
              held == Kept(IF item.status = "awaiting_checks" THEN "checks" ELSE "resume")
  <2>3. \/ item' = item /\ item.status # "running"
        \/ item' = [seen EXCEPT !.status = "completed", !.stage = None]
           /\ item.status # "none" /\ pull = "merged"
        \/ item' = seen /\ item.status \in {"failed", "blocked"}
        \/ item' = [seen EXCEPT !.status = "blocked", !.stage = held] /\ item.status # "none"
           /\ (pull = "closed" \/ pull = "open" \/ item.tree)
        \/ item' = [seen EXCEPT !.status = IF @ = "running" THEN "retry_wait" ELSE @]
    BY <2>1, <2>2 DEF Reconciled
  <2>4. /\ seen \in Items /\ seen.tree = item.tree /\ seen.base = item.base
        /\ seen.status = item.status /\ held \in {None, "resume", "checks", "publish"}
    BY <1>a, <1>b DEF Items
  <2>5. pull \in {"merged", "closed", "open"} => pull # None
    BY PublicationAssumption
  <2>. HIDE DEF seen, held
  <2>6. /\ item' \in Items /\ item'.tree = item.tree /\ item'.base = item.base
        /\ item'.status = "awaiting_checks" => item.status = "awaiting_checks"
        /\ item'.status # "running"
        /\ item'.status = "none" <=> item.status = "none"
        /\ \/ item.status # "claiming" \/ item'.status = "claiming"
           \/ pull # None \/ item.tree
    <3>1. CASE item' = item /\ item.status # "running"
      BY <1>a, <3>1
    <3>2. CASE item' = [seen EXCEPT !.status = "completed", !.stage = None]
               /\ item.status # "none" /\ pull = "merged"
      BY <2>4, <2>5, <3>2 DEF Items, Statuses
    <3>3. CASE item' = seen /\ item.status \in {"failed", "blocked"}
      BY <2>4, <3>3
    <3>4. CASE item' = [seen EXCEPT !.status = "blocked", !.stage = held] /\ item.status # "none"
               /\ (pull = "closed" \/ pull = "open" \/ item.tree)
      BY <2>4, <2>5, <3>4 DEF Items, Statuses
    <3>5. CASE item' = [seen EXCEPT !.status = IF @ = "running" THEN "retry_wait" ELSE @]
      BY <2>4, <3>5 DEF Items, Statuses
    <3>. QED
      BY <2>3, <3>1, <3>2, <3>3, <3>4, <3>5
  <2>. QED
    BY <1>a, <2>1, <2>6 DEF RestMoves
<1>3. CASE Resolve
  <2>1. /\ job' = job /\ item.status \in {"failed", "blocked"}
        /\ \/ item' = [item EXCEPT !.status = "awaiting_checks", !.head = local.branch]
              /\ item.stage = "checks" /\ tree = {} /\ local.branch = origin.branch
           \/ item' = [item EXCEPT !.status = "resume_pending"]
    BY <1>3 DEF Resolve
  <2>2. job.pc = "idle"
    BY <1>a, <2>1 DEF JobPlaced, JobT, Places
  <2>3. /\ item' \in Items /\ item'.stage = item.stage /\ item'.tree = item.tree
        /\ item'.base = item.base /\ item'.pr = item.pr
        /\ \/ item'.status = "resume_pending"
           \/ item'.status = "awaiting_checks" /\ item.stage = "checks" /\ tree = {}
              /\ local.branch = origin.branch
    BY <1>a, <2>1 DEF Items, Statuses
  <2>. QED
    BY <1>a, <2>1, <2>2, <2>3 DEF RestMoves, Stays, Same
<1>. QED
  BY <1>1, <1>2, <1>3

\* Every step is one of these.
LEMMA Effects ==
  ASSUME TypeInv, JobPlaced, BranchKnown, [Next]_vars
  PROVE  ItemMoves /\ item' \in Items /\ job' \in JobT
<1>a. item \in Items /\ job \in JobT
  BY DEF TypeInv, TypeOK
<1>1. \/ UNCHANGED <<item, job>> \/ Stop \/ RecordRemoval \/ Publish
      \/ StartIssue \/ ResumeClaim \/ Ensure \/ Claimed \/ Work \/ StartRetry \/ StartResumed
      \/ Poll \/ Start \/ Resolve
  BY DEF Next, Run, Remove, Outside, vars, Cleanup, Purge, RequireStopped, InspectTree, RemoveTree,
         Abandon, AdvanceBase, ForeignPush, ClosePull
<1>2. CASE Stop
  <2>1. item' = item /\ job' = Idle /\ used' = [used EXCEPT !["stops"] = @ + 1]
    BY <1>2 DEF Stop, Spend, End
  <2>2. used'["stops"] > 0
    BY <2>1 DEF TypeInv, Faults
  <2>. QED
    BY <1>a, <2>1, <2>2, IdleTyped DEF ItemMoves
<1>3. CASE RecordRemoval
  <2>1. item' = [item EXCEPT !.tree = FALSE] /\ job' = job
    BY <1>3 DEF RecordRemoval
  <2>. QED
    BY <1>a, <2>1 DEF ItemMoves, Items
<1>4. CASE UNCHANGED <<item, job>>
  BY <1>a, <1>4 DEF ItemMoves
<1>. QED
  BY <1>1, <1>2, <1>3, <1>4, ClaimEffects, RunEffects, PublishEffects, RestEffects DEF ItemMoves

\* Every way a step changes the repositories, the worktree or the work done.
LEMMA FileMoves ==
  ASSUME [Next]_vars
  PROVE  \/ UNCHANGED <<origin, local, tree, pull, done>>
         \/ Ensure \/ Work \/ ValidatePull \/ CommitWork \/ MergeHead \/ PushBranch \/ OpenPull
         \/ Poll \/ RemoveTree \/ AdvanceBase \/ ForeignPush \/ ClosePull
BY DEF Next, Run, Publish, Remove, Outside, vars, StartIssue, ResumeClaim, Claimed, StartRetry, StartResumed,
       FormatGo, RecordPull, Start, Stop, Resolve, Cleanup, Purge, RequireStopped, InspectTree,
       RecordRemoval, Abandon, Remote, Files

\* The unit of work a run makes is a unit.
LEMMA UnitTyped == TypeInv => Unit \in Units
BY PublicationAssumption DEF TypeInv, Faults, Unit, Units, MaxRuns

\* Branches are only added to.
LEMMA BranchesGrow ==
  ASSUME TypeInv, JobPlaced, BranchKnown, [Next]_vars
  PROVE  /\ local' \in [base : 0 .. MaxBase, branch : Commits \cup {None}]
         /\ origin' \in [base : 0 .. MaxBase, branch : Commits \cup {None}]
         /\ local.branch # None => local'.branch # None /\ local.branch.work \subseteq local'.branch.work
         /\ origin.branch # None => origin'.branch # None /\ origin.branch.work \subseteq origin'.branch.work
<1>. DEFINE Repo == [base : 0 .. MaxBase, branch : Commits \cup {None}]
            Grown(a, b) == a # None => b # None /\ a.work \subseteq b.work
<1>. SUFFICES /\ local' \in Repo /\ origin' \in Repo
              /\ Grown(local.branch, local'.branch) /\ Grown(origin.branch, origin'.branch)
  OBVIOUS
<1>a. local \in Repo /\ origin \in Repo /\ tree \in (SUBSET Units) \cup {None} /\ job \in JobT
  BY DEF TypeInv, TypeOK
<1>b. \A c \in Commits : c # None
  BY PublicationAssumption
<1>c. UNCHANGED local => local' \in Repo /\ Grown(local.branch, local'.branch)
  BY <1>a
<1>d. UNCHANGED origin => origin' \in Repo /\ Grown(origin.branch, origin'.branch)
  BY <1>a
<1>1. CASE UNCHANGED <<local, origin>>
  BY <1>1, <1>c, <1>d
<1>2. CASE Ensure
  <2>1. UNCHANGED origin /\ (UNCHANGED local \/
          local' = [base |-> origin.base,
                    branch |-> IF local.branch # None THEN local.branch
                               ELSE [base |-> origin.base, work |-> {}]])
    BY <1>2 DEF Ensure, Remote, Files
  <2>2. [base |-> origin.base, work |-> {}] \in Commits
    BY <1>a DEF Commits
  <2>. QED
    BY <1>a, <1>b, <1>c, <1>d, <2>1, <2>2
<1>3. CASE ValidatePull
  <2>1. UNCHANGED origin /\ (UNCHANGED local \/
          local' = [local EXCEPT !.base = IF pull = "open" THEN origin.base ELSE @])
    BY <1>3 DEF ValidatePull, Remote
  <2>2. local'.branch = local.branch /\ local' \in Repo
    BY <1>a, <2>1
  <2>. QED
    BY <1>a, <1>d, <2>1, <2>2
<1>4. CASE CommitWork
  <2>1. UNCHANGED origin /\ (UNCHANGED local \/
          (tree # None /\ local' = [local EXCEPT !.branch.work = @ \cup tree]))
    BY <1>4 DEF CommitWork, Remote, Files
  <2>2. CASE tree # None /\ local' = [local EXCEPT !.branch.work = @ \cup tree]
    <3>0. local.branch # None
      BY <2>2 DEF BranchKnown
    <3>a. tree # None
      BY <2>2
    <3>b. local.branch \in Commits
      BY <1>a, <3>0
    <3>c. tree \in SUBSET Units
      BY <1>a, <3>a
    <3>1. local.branch \in Commits /\ tree \in SUBSET Units
      BY <3>b, <3>c
    <3>. DEFINE c == [local.branch EXCEPT !.work = @ \cup tree]
    <3>2. c \in Commits /\ local.branch.work \subseteq c.work
      BY <3>1 DEF Commits
    <3>3. local' = [local EXCEPT !.branch = c]
      BY <2>2
    <3>. HIDE DEF c
    <3>4. local' \in Repo /\ local'.branch = c
      BY <1>a, <3>2, <3>3
    <3>. QED
      BY <1>b, <1>d, <2>1, <3>2, <3>4
  <2>. QED
    BY <1>c, <1>d, <2>1, <2>2
<1>5. CASE MergeHead
  <2>1. UNCHANGED origin /\ (UNCHANGED local \/
          (job.head # None /\ local' = [local EXCEPT !.branch = Joined(@, job.head)]))
    BY <1>a, <1>5 DEF MergeHead, Remote
  <2>2. CASE job.head # None /\ local' = [local EXCEPT !.branch = Joined(@, job.head)]
    <3>1. local.branch \in Commits /\ job.head \in Commits
      BY <1>5, <1>a, <2>2 DEF BranchKnown, MergeHead, At, JobT
    <3>. DEFINE c == Joined(local.branch, job.head)
    <3>2. c \in Commits /\ local.branch.work \subseteq c.work
      BY <3>1, PublicationAssumption DEF Commits, Joined, Larger
    <3>3. local' = [local EXCEPT !.branch = c]
      BY <2>2
    <3>. HIDE DEF c
    <3>4. local' \in Repo /\ local'.branch = c
      BY <1>a, <3>2, <3>3
    <3>. QED
      BY <1>b, <1>d, <2>1, <3>2, <3>4
  <2>. QED
    BY <1>c, <1>d, <2>1, <2>2
<1>6. CASE PushBranch
  <2>1. UNCHANGED local /\ (UNCHANGED origin \/
          (FastForward /\ origin' = [origin EXCEPT !.branch = local.branch]))
    BY <1>6 DEF PushBranch, Files
  <2>2. local.branch # None
    BY <1>6 DEF BranchKnown, PushBranch, At
  <2>3. CASE FastForward /\ origin' = [origin EXCEPT !.branch = local.branch]
    <3>1. origin' \in Repo /\ origin'.branch = local.branch
      BY <1>a, <2>3
    <3>. QED
      BY <1>c, <2>1, <2>2, <2>3, <3>1 DEF FastForward, Ancestor
  <2>. QED
    BY <1>c, <1>d, <2>1, <2>3
<1>7. CASE Poll \/ ForeignPush
  <2>1. UNCHANGED local
    BY <1>7 DEF Poll, ForeignPush, Files
  <2>2. \/ UNCHANGED origin
        \/ pull = "open" /\ origin' = [origin EXCEPT !.branch.base = origin.base]
        \/ pull = "open" /\ origin' = [origin EXCEPT !.branch.work = @ \cup {Unit}]
    BY <1>7 DEF Poll, ForeignPush
  <2>3. CASE UNCHANGED origin
    BY <1>c, <1>d, <2>1, <2>3
  <2>4. CASE ~UNCHANGED origin
    <3>1. origin.branch \in Commits
      BY <1>a, <2>2, <2>4, PublicationAssumption DEF BranchKnown
    <3>. DEFINE b == [origin.branch EXCEPT !.base = origin.base]
                w == [origin.branch EXCEPT !.work = @ \cup {Unit}]
    <3>2. /\ b \in Commits /\ origin.branch.work \subseteq b.work
          /\ w \in Commits /\ origin.branch.work \subseteq w.work
      BY <1>a, <3>1, UnitTyped DEF Commits
    <3>3. \/ origin' = [origin EXCEPT !.branch = b]
          \/ origin' = [origin EXCEPT !.branch = w]
      BY <2>2, <2>4
    <3>. HIDE DEF b, w
    <3>4. origin' \in Repo /\ origin'.branch \in {b, w}
      BY <1>a, <3>2, <3>3
    <3>. QED
      BY <1>b, <1>c, <2>1, <3>2, <3>4
  <2>. QED
    BY <2>3, <2>4
<1>8. CASE AdvanceBase
  <2>1. UNCHANGED local /\ origin.base < MaxBase /\ origin' = [origin EXCEPT !.base = @ + 1]
    BY <1>8 DEF AdvanceBase, Files
  <2>2. origin' \in Repo /\ origin'.branch = origin.branch
    BY <1>a, <2>1, PublicationAssumption
  <2>. QED
    BY <1>a, <1>c, <2>1, <2>2
<1>9. CASE Work \/ OpenPull \/ RemoveTree \/ ClosePull
  BY <1>9, <1>1 DEF Work, OpenPull, RemoveTree, ClosePull, Remote, Files
<1>. QED
  BY <1>1, <1>2, <1>3, <1>4, <1>5, <1>6, <1>7, <1>8, <1>9, FileMoves

\* What a step makes of the changes in the worktree and of the work done.
LEMMA WorkMoves ==
  ASSUME TypeInv, [Next]_vars
  PROVE  /\ tree' \in (SUBSET Units) \cup {None} /\ done' \in SUBSET Units
         /\ \/ UNCHANGED <<tree, done>>
            \/ Ensure /\ tree = None /\ tree' = {} /\ done' = done
            \/ /\ job.pc = "work" /\ tree # None /\ tree' # None /\ tree \subseteq tree'
               /\ done' \subseteq done \cup tree' /\ UNCHANGED <<local, origin>>
            \/ CommitWork /\ tree # None /\ tree' = {} /\ done' = done
            \/ /\ tree' = None /\ UNCHANGED <<local, origin>>
               /\ \/ tree \in {None, {}} /\ done' \subseteq done
                  \/ done' = done \ tree
<1>a. tree \in (SUBSET Units) \cup {None} /\ done \in SUBSET Units
  BY DEF TypeInv, TypeOK
<1>b. \A t \in SUBSET Units : t # None
  BY PublicationAssumption
<1>1. CASE Work
  <2>1. CASE tree = None
    BY <1>1, <1>a, <2>1 DEF Work, Remote
  <2>2. CASE tree # None
    <3>1. tree' = tree \cup {Unit} /\ done' \in {done, done \cup tree'} /\ UNCHANGED <<local, origin>>
          /\ job.pc = "work"
      BY <1>1, <2>2 DEF Work, Remote, At
    <3>a. tree \in SUBSET Units
      BY <1>a, <2>2
    <3>2. tree' \in SUBSET Units
      BY <3>a, <3>1, UnitTyped
    <3>. QED
      BY <1>a, <1>b, <2>2, <3>1, <3>2
  <2>. QED
    BY <2>1, <2>2
<1>2. CASE RemoveTree
  <2>1. \/ UNCHANGED <<tree, done>>
        \/ /\ tree' = None /\ UNCHANGED <<local, origin>>
           /\ done' = IF tree = None THEN done ELSE done \ tree
    BY <1>2 DEF RemoveTree, Remote
  <2>2. done \ tree \in SUBSET Units
    BY <1>a
  <2>. QED
    BY <1>a, <2>1, <2>2
<1>3. CASE Ensure \/ CommitWork
  BY <1>3, <1>a DEF Ensure, CommitWork, Files
<1>4. CASE ~(Work \/ RemoveTree \/ Ensure \/ CommitWork)
  <2>1. UNCHANGED <<tree, done>>
    BY <1>4, FileMoves DEF ValidatePull, MergeHead, PushBranch, OpenPull, Poll, AdvanceBase,
       ForeignPush, ClosePull, Files
  <2>. QED
    BY <1>a, <2>1
<1>. QED
  BY <1>1, <1>2, <1>3, <1>4

\* One bound at a time is used up, and only so far.
LEMMA BoundMoves ==
  ASSUME [Next]_vars
  PROVE  \/ used' = used
         \/ \E f \in Faults : /\ used' = [used EXCEPT ![f] = @ + 1]
                              /\ f = "runs" => used["runs"] < MaxRuns
                              /\ f = "foreign" => used["foreign"] < MaxForeign
<1>1. \/ used' = used \/ Fault \/ Spend("runs", MaxRuns) \/ Spend("foreign", MaxForeign)
      \/ Spend("stops", MaxStops) \/ Spend("resolves", MaxResolves)
      \/ Spend("removals", MaxRemovals)
  BY DEF Next, Run, Publish, Remove, Outside, vars, StartIssue, ResumeClaim, Ensure,
     Claimed, Work, StartRetry, StartResumed, ValidatePull, FormatGo, CommitWork, MergeHead,
     PushBranch, OpenPull, RecordPull, Poll, Start, Stop, Resolve, Cleanup, Purge, RequireStopped,
     InspectTree, RemoveTree, RecordRemoval, Abandon, AdvanceBase, ForeignPush, ClosePull, Broken
<1>. QED
  BY <1>1 DEF Fault, Spend, Faults

\* The type invariant is kept.
LEMMA StepKeepsTypes ==
  ASSUME TypeInv, JobPlaced, BranchKnown, [Next]_vars
  PROVE  TypeInv'
<1>1. /\ item' \in Items /\ job' \in JobT
  BY Effects
<1>2. /\ local' \in [base : 0 .. MaxBase, branch : Commits \cup {None}]
      /\ origin' \in [base : 0 .. MaxBase, branch : Commits \cup {None}]
  BY BranchesGrow
<1>3. tree' \in (SUBSET Units) \cup {None} /\ done' \in SUBSET Units
  BY WorkMoves
<1>4. pull' \in {None, "open", "closed", "merged"}
  BY FileMoves DEF TypeInv, TypeOK, Ensure, Work, ValidatePull, CommitWork, MergeHead, PushBranch,
     OpenPull, Poll, RemoveTree, AdvanceBase, ForeignPush, ClosePull, Remote
<1>5. sup' \in {"up", "down"} /\ (sup' = "down" => job' = Idle)
  BY DEF TypeInv, TypeOK, Next, Run, Publish, Remove, Outside, vars, StartIssue, ResumeClaim, Ensure,
         Claimed, Work, StartRetry, StartResumed, ValidatePull, FormatGo, CommitWork, MergeHead,
         PushBranch, OpenPull, RecordPull, Poll, Start, Stop, Resolve, Cleanup, Purge, RequireStopped,
         InspectTree, RemoveTree, RecordRemoval, Abandon, AdvanceBase, ForeignPush, ClosePull, Others,
         At, End
<1>6. /\ used' \in [Faults -> Nat] /\ used'["runs"] <= MaxRuns /\ used'["foreign"] <= MaxForeign
  <2>1. \/ used' = used
        \/ \E f \in Faults : /\ used' = [used EXCEPT ![f] = @ + 1]
                             /\ f = "runs" => used["runs"] < MaxRuns
                             /\ f = "foreign" => used["foreign"] < MaxForeign
    BY BoundMoves
  <2>2. used \in [Faults -> Nat] /\ used["runs"] <= MaxRuns /\ used["foreign"] <= MaxForeign
        /\ MaxRuns \in Nat /\ MaxForeign \in Nat /\ {"runs", "foreign"} \subseteq Faults
    BY PublicationAssumption DEF TypeInv, MaxRuns, Faults
  <2>. HIDE DEF Faults
  <2>. QED
    BY <2>1, <2>2
<1>. QED
  BY <1>1, <1>2, <1>3, <1>4, <1>5, <1>6 DEF TypeInv, TypeOK

-----------------------------------------------------------------------------
(* The invariant is inductive. *)

\* The place of a job fits the status of its item.
LEMMA StepKeepsPlace ==
  ASSUME TypeInv, JobPlaced, BranchKnown, [Next]_vars
  PROVE  JobPlaced'
<1>1. ItemMoves
  BY Effects
<1>2. /\ job'.pc \in {"ensure", "claimed"} => item'.status = "claiming"
      /\ job'.pc \in {"work"} \cup Publishing => item'.status = "running"
  BY <1>1 DEF JobPlaced, ItemMoves, ClaimMoves, RunMoves, PublishMoves, RestMoves, Stays, Same,
     Publishing, Idle
<1>3. sup' = "down" => used'["stops"] > 0
  <2>1. used' = used \/ \E f \in Faults : used' = [used EXCEPT ![f] = @ + 1]
    BY BoundMoves
  <2>2. used["stops"] > 0 => used'["stops"] > 0
    BY <2>1 DEF TypeInv, Faults
  <2>3. sup' = sup \/ sup' = "up" \/ Stop
    BY DEF Next, Run, Publish, Remove, Outside, vars, StartIssue, ResumeClaim, Ensure,
       Claimed, Work, StartRetry, StartResumed, ValidatePull, FormatGo, CommitWork, MergeHead,
       PushBranch, OpenPull, RecordPull, Poll, Start, Resolve, Cleanup, Purge, RequireStopped,
       InspectTree, RemoveTree, RecordRemoval, Abandon, AdvanceBase, ForeignPush, ClosePull, Others
  <2>4. Stop => used'["stops"] > 0
    BY DEF Stop, Spend, TypeInv, Faults
  <2>. QED
    BY <2>2, <2>3, <2>4 DEF JobPlaced
<1>. QED
  BY <1>2, <1>3 DEF JobPlaced

\* How the job gets behind its commit, and behind its push.
LEMMA StageMoves ==
  ASSUME TypeInv, JobPlaced, BranchKnown, [Next]_vars
  PROVE  /\ job'.pc \in {"merge", "push", "open", "record"} =>
              job.pc \in {"merge", "push", "open", "record"} \/ (CommitWork /\ tree' = {})
         /\ job'.pc \in {"open", "record"} =>
              \/ job.pc \in {"open", "record"}
              \/ PushBranch /\ FastForward /\ origin' = [origin EXCEPT !.branch = local.branch]
<1>1. \/ UNCHANGED job \/ job'.pc \in Places \ {"merge", "push", "open", "record"} \/ Publish
  <2>1. ItemMoves
    BY Effects
  <2>2. Publish \/ job.pc \notin Publishing \/ UNCHANGED job \/ job' = Idle
    BY DEF Next, Run, Remove, Outside, vars, StartIssue, ResumeClaim, Ensure,
       Claimed, Work, StartRetry, StartResumed, Poll, Start, Stop, Resolve, Cleanup, Purge,
       RequireStopped, InspectTree, RemoveTree, RecordRemoval, Abandon, AdvanceBase, ForeignPush,
       ClosePull, Others, At, End, Publishing
  <2>. QED
    BY <2>1, <2>2 DEF ItemMoves, ClaimMoves, RunMoves, PublishMoves, RestMoves, Places, Publishing, Idle
<1>2. CASE Publish
  <2>1. CASE PublicationFails
    <3>1. job' = Idle
      BY <2>1, PublicationFailsFields DEF TypeInv, TypeOK
    <3>. QED
      BY <3>1 DEF Idle
  <2>2. CASE ~PublicationFails
    <3>1. job \in [pc : Places, head : Commits \cup {None}, stage : {None, "publish"}, others : SUBSET Nat]
      BY DEF TypeInv, JobT
    <3>. QED
      BY <1>2, <2>2, <3>1 DEF Publish, ValidatePull, FormatGo, CommitWork, MergeHead, PushBranch,
         OpenPull, RecordPull, Goto, End, Idle, At
  <2>. QED
    BY <2>1, <2>2
<1>. QED
  BY <1>1, <1>2 DEF Places

\* Base and branches exist once something needs them.
LEMMA StepKeepsBranch ==
  ASSUME TypeInv, JobPlaced, BranchKnown, [Next]_vars
  PROVE  BranchKnown'
<1>a. /\ local.branch # None => local'.branch # None
      /\ origin.branch # None => origin'.branch # None
  BY BranchesGrow
<1>b. ItemMoves
  BY Effects
<1>c. local \in [base : 0 .. MaxBase, branch : Commits \cup {None}]
      /\ origin \in [base : 0 .. MaxBase, branch : Commits \cup {None}]
  BY DEF TypeInv, TypeOK
<1>d. pull' = pull \/ pull # None \/ job.pc = "open"
  BY FileMoves, PublicationAssumption DEF Ensure, Work, ValidatePull, CommitWork, MergeHead, PushBranch,
     OpenPull, Poll, RemoveTree, AdvanceBase, ForeignPush, ClosePull, Remote, At
<1>1. item'.status # "none" => item'.base # None
  BY <1>b DEF BranchKnown, JobPlaced, ItemMoves, ClaimMoves, RunMoves, PublishMoves, RestMoves,
     Stays, Same, Publishing
<1>2. pull' # None \/ job'.pc \in {"open", "record"} => origin'.branch # None
  <2>1. CASE PushBranch /\ FastForward /\ origin' = [origin EXCEPT !.branch = local.branch]
    BY <1>c, <2>1 DEF PushBranch, At, BranchKnown
  <2>2. CASE job'.pc \in {"open", "record"} => job.pc \in {"open", "record"}
    BY <1>a, <1>d, <2>2 DEF BranchKnown
  <2>. QED
    BY <2>1, <2>2, StageMoves
<1>3. (\/ item'.status \notin {"none", "claiming"} \/ job'.pc \notin {"idle", "ensure"}
       \/ item'.tree \/ tree' # None \/ pull' # None) => local'.branch # None
  <2>1. CASE Ensure
    <3>1. \/ UNCHANGED <<local, tree>> /\ (tree # None \/ (job' = Idle /\ item' = item))
          \/ local'.branch = IF local.branch # None THEN local.branch
                             ELSE [base |-> origin.base, work |-> {}]
      BY <2>1 DEF Ensure, Files, End
    <3>2. [base |-> origin.base, work |-> {}] # None
      <4>1. [base |-> origin.base, work |-> {}] \in Commits
        BY <1>c DEF Commits
      <4>. QED
        BY <4>1, PublicationAssumption
    <3>3. pull' = pull
      BY <2>1 DEF Ensure, Remote
    <3>. QED
      BY <3>1, <3>2, <3>3 DEF BranchKnown, Idle
  <2>2. CASE ~Ensure
    <3>1. tree' = tree \/ tree # None \/ tree' = None
      BY <2>2, WorkMoves
    <3>2. job.pc = "ensure" => job'.pc \in {"idle", "ensure"}
      BY <2>2 DEF Next, Run, Publish, Remove, Outside, vars, StartIssue, ResumeClaim,
         Claimed, Work, StartRetry, StartResumed, ValidatePull, FormatGo, CommitWork, MergeHead,
         PushBranch, OpenPull, RecordPull, Poll, Start, Stop, Resolve, Cleanup, Purge,
         RequireStopped, InspectTree, RemoveTree, RecordRemoval, Abandon, AdvanceBase, ForeignPush,
         ClosePull, Others, At, End, Idle
    <3>3. \/ item.status \notin {"none", "claiming"} \/ job.pc \notin {"idle", "ensure"}
          \/ item.tree \/ tree # None \/ pull # None
          \/ /\ item'.status \in {"none", "claiming"} /\ job'.pc \in {"idle", "ensure"}
             /\ ~item'.tree /\ tree' = None /\ pull' = None
      <4>1. \/ item.status \notin {"none", "claiming"} \/ job.pc \notin {"idle", "ensure"}
            \/ item.tree \/ pull # None
            \/ /\ item'.status \in {"none", "claiming"} /\ job'.pc \in {"idle", "ensure"}
               /\ item'.tree = FALSE
        BY <1>b, <3>2 DEF ItemMoves, ClaimMoves, RunMoves, PublishMoves, RestMoves, Stays, Same,
           Publishing, Idle, TypeInv, TypeOK, Items
      <4>. QED
        BY <1>d, <3>1, <4>1
    <3>. QED
      BY <1>a, <3>3 DEF BranchKnown
  <2>. QED
    BY <2>1, <2>2
<1>. QED
  BY <1>1, <1>2, <1>3 DEF BranchKnown

\* Neither the local branch nor the pushed one loses a commit.
LEMMA HeldGrows ==
  ASSUME TypeInv, JobPlaced, BranchKnown, [Next]_vars
  PROVE  /\ Held(local.branch) \subseteq Held(local'.branch)
         /\ Held(origin.branch) \subseteq Held(origin'.branch)
BY BranchesGrow DEF Held

\* The work done grows in the worker's run only.
LEMMA DoneGrows ==
  ASSUME TypeInv, [Next]_vars, job.pc # "work"
  PROVE  done' \subseteq done
BY WorkMoves

\* From its commit on, the work of a publication is on its branch, then on GitHub.
LEMMA StepKeepsWork ==
  ASSUME IInv, [Next]_vars
  PROVE  WorkPlaced'
<1>a. TypeInv /\ JobPlaced /\ BranchKnown /\ WorkPlaced /\ WorkKept
  BY DEF IInv
<1>b. /\ job'.pc \in {"merge", "push", "open", "record"} =>
           job.pc \in {"merge", "push", "open", "record"} \/ (CommitWork /\ tree' = {})
      /\ job'.pc \in {"open", "record"} =>
           \/ job.pc \in {"open", "record"}
           \/ PushBranch /\ FastForward /\ origin' = [origin EXCEPT !.branch = local.branch]
  BY <1>a, StageMoves
<1>1. job'.pc \in {"merge", "push", "open", "record"} => tree' \in {None, {}}
  <2>1. CASE job.pc \in {"merge", "push", "open", "record"}
    BY <1>a, <2>1, WorkMoves DEF WorkPlaced, Ensure, At
  <2>. QED
    BY <1>b, <2>1
<1>2. job'.pc \in {"open", "record"} => done' \subseteq Held(origin'.branch)
  <2>1. CASE job.pc \in {"open", "record"}
    <3>1. done' \subseteq done
      BY <1>a, <2>1, DoneGrows
    <3>2. Held(origin.branch) \subseteq Held(origin'.branch)
      BY <1>a, HeldGrows
    <3>. QED
      BY <1>a, <2>1, <3>1, <3>2 DEF WorkPlaced
  <2>2. CASE PushBranch /\ FastForward /\ origin' = [origin EXCEPT !.branch = local.branch]
    <3>1. job.pc = "push" /\ done' = done
      BY <2>2 DEF PushBranch, At
    <3>2. done \subseteq Held(local.branch) \cup Held(origin.branch)
      BY <1>a, <3>1 DEF WorkPlaced, WorkKept
    <3>3. local.branch # None /\ origin'.branch = local.branch
      BY <1>a, <2>2, <3>1 DEF BranchKnown, TypeInv, TypeOK
    <3>4. Held(origin.branch) \subseteq Held(local.branch)
      BY <2>2, <3>3 DEF FastForward, Ancestor, Held
    <3>. QED
      BY <3>1, <3>2, <3>3, <3>4
  <2>. QED
    BY <1>b, <2>1, <2>2
<1>. QED
  BY <1>1, <1>2 DEF WorkPlaced

\* Hence no step loses it.
LEMMA StepKeepsKept ==
  ASSUME IInv, [Next]_vars
  PROVE  WorkKept'
<1>a. TypeInv /\ JobPlaced /\ BranchKnown /\ WorkKept
  BY DEF IInv
<1>b. /\ Held(local.branch) \subseteq Held(local'.branch)
      /\ Held(origin.branch) \subseteq Held(origin'.branch)
  BY <1>a, HeldGrows
<1>. DEFINE Tree == IF tree = None THEN {} ELSE tree
<1>c. done \subseteq Held(local.branch) \cup Held(origin.branch) \cup Tree
  BY <1>a DEF WorkKept
<1>. SUFFICES done' \subseteq Held(local'.branch) \cup Held(origin'.branch) \cup Tree'
  BY DEF WorkKept
<1>1. CASE UNCHANGED <<tree, done>>
  BY <1>1, <1>b, <1>c
<1>2. CASE Ensure /\ tree = None /\ tree' = {} /\ done' = done
  BY <1>2, <1>b, <1>c
<1>3. CASE tree # None /\ tree' # None /\ tree \subseteq tree' /\ done' \subseteq done \cup tree'
  BY <1>3, <1>b, <1>c
<1>4. CASE CommitWork /\ tree # None /\ tree' = {} /\ done' = done
  <2>1. local.branch # None /\ local.branch \in Commits
    BY <1>a, <1>4 DEF BranchKnown, TypeInv, TypeOK
  <2>2. (local' = local /\ tree = {}) \/ local' = [local EXCEPT !.branch.work = @ \cup tree]
    BY <1>4 DEF CommitWork, Files
  <2>3. CASE local' = [local EXCEPT !.branch.work = @ \cup tree]
    <3>. DEFINE c == [local.branch EXCEPT !.work = @ \cup tree]
    <3>1. c.work = local.branch.work \cup tree
      BY <2>1 DEF Commits
    <3>2. local' = [local EXCEPT !.branch = c]
      BY <2>3
    <3>. HIDE DEF c
    <3>3. local'.branch = c
      BY <1>a, <3>2 DEF TypeInv, TypeOK
    <3>4. local'.branch # None
      BY <1>a, <2>1, BranchesGrow
    <3>5. tree \subseteq Held(local'.branch)
      BY <3>1, <3>3, <3>4 DEF Held
    <3>. QED
      BY <1>4, <1>b, <1>c, <3>5
  <2>4. CASE local' = local /\ tree = {}
    BY <1>4, <1>b, <1>c, <2>4
  <2>. QED
    BY <2>2, <2>3, <2>4
<1>5. CASE tree' = None /\ ((tree \in {None, {}} /\ done' \subseteq done) \/ done' = done \ tree)
  BY <1>5, <1>b, <1>c
<1>. QED
  BY <1>a, <1>1, <1>2, <1>3, <1>4, <1>5, WorkMoves

\* Work that is published is published as a whole.
LEMMA StepKeepsWhole ==
  ASSUME IInv, [Next]_vars
  PROVE  PublishedWorkWhole'
<1>a. /\ TypeInv /\ JobPlaced /\ BranchKnown /\ WorkPlaced /\ WorkKept /\ PublishedWorkWhole
  BY DEF IInv
<1>. SUFFICES ASSUME item'.status = "awaiting_checks"
              PROVE  done' \subseteq Held(origin'.branch)
  BY DEF PublishedWorkWhole
<1>1. \/ item.status = "awaiting_checks" \/ job.pc = "record"
      \/ job.pc = "idle" /\ tree = {} /\ local.branch = origin.branch
  BY <1>a, Effects DEF ItemMoves, ClaimMoves, RunMoves, PublishMoves, RestMoves, Same, Stays, JobPlaced
<1>2. done \subseteq Held(origin.branch)
  BY <1>a, <1>1 DEF WorkPlaced, WorkKept, PublishedWorkWhole
<1>3. job.pc # "work"
  BY <1>a, <1>1 DEF JobPlaced
<1>4. done' \subseteq done
  BY <1>a, <1>3, DoneGrows
<1>. QED
  BY <1>a, <1>2, <1>4, HeldGrows

\* A checkpoint of the publication is failed, resumed, or served by publishing.
LEMMA StepKeepsCheckpoint ==
  ASSUME IInv, [Next]_vars
  PROVE  CheckpointServed'
<1>a. TypeInv /\ JobPlaced /\ BranchKnown /\ CheckpointServed
  BY DEF IInv
<1>b. item \in Items /\ item' \in Items
  BY <1>a, Effects DEF TypeInv, TypeOK
<1>. SUFFICES ASSUME item'.stage = "publish", ~item'.pr, used'["stops"] = 0
              PROVE  \/ item'.status \in {"failed", "resume_pending"}
                     \/ job'.stage = "publish" /\ job'.pc \in Publishing
  BY DEF CheckpointServed
<1>1. used["stops"] = 0
  BY <1>a, BoundMoves DEF TypeInv, Faults
<1>2. sup # "down"
  BY <1>1, <1>a DEF JobPlaced
<1>3. item.stage = "publish" /\ ~item.pr =>
        \/ item.status \in {"failed", "resume_pending"}
        \/ job.stage = "publish" /\ job.pc \in Publishing
  BY <1>1, <1>a DEF CheckpointServed
<1>4. ItemMoves
  BY <1>a, Effects
<1>5. CASE UNCHANGED <<item, job>>
  BY <1>3, <1>5
<1>6. CASE ClaimMoves
  BY <1>3, <1>6, <1>a, <1>b DEF ClaimMoves, JobPlaced, Publishing
<1>7. CASE RunMoves
  BY <1>3, <1>7, <1>a, <1>b DEF RunMoves, JobPlaced, Publishing, Stays, Same, Fresh
<1>8. CASE PublishMoves
  BY <1>3, <1>8, <1>a, <1>b DEF PublishMoves, JobPlaced, Publishing, Same
<1>9. CASE RestMoves
  BY <1>2, <1>3, <1>9, <1>a, <1>b DEF RestMoves, Publishing, Stays, Same, Fresh
<1>10. CASE \/ item' = item /\ job' = Idle /\ used'["stops"] > 0
            \/ /\ job' = job /\ item'.status = item.status /\ item'.stage = item.stage
               /\ item'.base = item.base /\ item'.pr = item.pr /\ item'.tree = FALSE
  BY <1>3, <1>10
<1>. QED
  BY <1>4, <1>5, <1>6, <1>7, <1>8, <1>9, <1>10 DEF ItemMoves

\* The initial state satisfies the invariant.
LEMMA InitHolds == Init => IInv
<1>. SUFFICES ASSUME Init PROVE IInv
  OBVIOUS
<1>1. TypeOK
  BY PublicationAssumption DEF Init, TypeOK, Items, Statuses
<1>2. job \in JobT /\ done \in SUBSET Units
  BY DEF Init, Idle, JobT, Places
<1>3. used \in [Faults -> Nat] /\ used["runs"] <= MaxRuns /\ used["foreign"] <= MaxForeign
  BY PublicationAssumption DEF Init, Faults, MaxRuns
<1>4. JobPlaced /\ BranchKnown /\ WorkPlaced
  BY DEF Init, JobPlaced, BranchKnown, WorkPlaced, Idle, Publishing
<1>5. WorkKept /\ PublishedWorkWhole /\ CheckpointServed
  BY PublicationAssumption DEF Init, WorkKept, PublishedWorkWhole, CheckpointServed
<1>. QED
  BY <1>1, <1>2, <1>3, <1>4, <1>5 DEF IInv, TypeInv

\* Every step keeps it.
LEMMA StepHolds == IInv /\ [Next]_vars => IInv'
<1>. SUFFICES ASSUME IInv, [Next]_vars PROVE IInv'
  OBVIOUS
<1>1. TypeInv /\ JobPlaced /\ BranchKnown
  BY DEF IInv
<1>2. TypeInv' /\ JobPlaced' /\ BranchKnown'
  BY <1>1, StepKeepsTypes, StepKeepsPlace, StepKeepsBranch
<1>3. WorkPlaced' /\ WorkKept' /\ PublishedWorkWhole' /\ CheckpointServed'
  BY StepKeepsWork, StepKeepsKept, StepKeepsWhole, StepKeepsCheckpoint
<1>. QED
  BY <1>2, <1>3 DEF IInv

\* The inductive invariant holds.
LEMMA Invariance == Spec => []IInv
BY InitHolds, StepHolds, PTL DEF Spec

-----------------------------------------------------------------------------
(* The results. *)

\* Whatever fails, dies or is cleaned up between two steps, work that a completed
\* result stands for stays in the worktree, on the Issue's branch or on GitHub,
\* unless the operator purged it (worktree.Manager, publish.go).
THEOREM CompletedWorkIsKept == Spec => []WorkKept
<1>1. IInv => WorkKept
  BY DEF IInv
<1>. QED
  BY <1>1, Invariance, PTL

\* An Issue that waits for its checks has the work of every completed result in the
\* branch of its pull request (Publish, its retries and the publish checkpoint).
THEOREM PublishedWorkIsWhole == Spec => []PublishedWorkWhole
<1>1. IInv => PublishedWorkWhole
  BY DEF IInv
<1>. QED
  BY <1>1, Invariance, PTL

\* A publication that waits at its checkpoint is published and its work not done
\* again (processPublicationCheckpoint, failCheckpointStage).
THEOREM CheckpointsArePublished == Spec => []WorkNotRedone
<1>1. IInv => WorkNotRedone
  BY DEF IInv, TypeInv, Faults, JobPlaced, CheckpointServed, WorkNotRedone, Publishing
<1>. QED
  BY <1>1, Invariance, PTL
=============================================================================
