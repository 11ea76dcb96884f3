------------------------ MODULE IssueLifecycleProofs ------------------------
(***************************************************************************)
(* Proofs about IssueLifecycle, for every set of issues, every budget and  *)
(* every number of crashes, questions, resolutions and failures: the one   *)
(* recorded worker is the active execution's, a run holds its execution    *)
(* until its outcome, a generation is spent by one worker, an answer is    *)
(* delivered once, and no effect on GitHub is dropped.                     *)
(*                                                                         *)
(* The argument: what the store's boundary makes of any update that a      *)
(* handler asks for is valid, and an update for one issue never takes the  *)
(* execution of another; what the operator may do to the issue that        *)
(* executes is stored exactly as asked, and a worker that was recorded is  *)
(* watched by its job or, after a crash, still on record.                  *)
(***************************************************************************)
EXTENDS IssueLifecycle, TLAPS

-----------------------------------------------------------------------------
(* The parts of a stored snapshot. *)

\* Nothing is left to settle.
Rested(d) == \A i \in Issues : Settle(d.issue[i]) = d.issue[i]

Stored(d) == d \in Snapshots /\ Valid(d) /\ Rested(d)

\* What an update for issue i leaves alone.
Confined(d, i, after) ==
  /\ after \in Snapshots
  /\ \A k \in Issues \ {i} : after.issue[k] = d.issue[k] /\ after.effect[k] = d.effect[k]
  /\ after.quarantined = d.quarantined
  /\ after.issue[i] # None
  /\ d.active # None /\ d.active.issue # i => after.active = d.active
  /\ after.active # None /\ after.active # d.active => after.active.issue = i

\* The identity of an issue, its status and what it was told.
SameIssue(x, y) ==
  /\ y \in ManagedIssues
  /\ y.status = x.status /\ y.run = x.run /\ y.gen = x.gen /\ y.answers = x.answers

-----------------------------------------------------------------------------
(* Transitions of one issue. *)

\* The tables of statuses (the From columns of the transitions) name only statuses.
LEMMA StatusSets ==
  /\ Executing \subseteq Statuses /\ Terminal \subseteq Statuses
  /\ LaunchSources \subseteq Statuses /\ FailFrom \subseteq Statuses
  /\ RetryFrom \subseteq Statuses /\ CompleteFrom \subseteq Statuses
BY DEF Executing, Terminal, LaunchSources, FailFrom, RetryFrom, CompleteFrom, Statuses,
       BlocksNewAdmission, PendingDispatch, DispatchesWorker

\* Apply changes the status and what goes with it.
LEMMA ApplyFields ==
  ASSUME NEW x \in ManagedIssues, NEW to \in Statuses
  PROVE  /\ Apply(x, to) \in ManagedIssues
         /\ Apply(x, to).status = to
         /\ Apply(x, to).run = x.run /\ Apply(x, to).gen = x.gen
         /\ Apply(x, to).answers = x.answers /\ Apply(x, to).pid = x.pid
         /\ Apply(x, to).cont = IF to = "completed" THEN None ELSE x.cont
         /\ Apply(x, to).susp \in {x.susp, None}
         /\ to \notin Terminal => Apply(x, to).susp = x.susp
         /\ x.status = "launching" /\ to # "launching" => Apply(x, to).source = ""
         /\ x.status # "launching" => Apply(x, to).source = x.source
<1>1. "completed" \in Terminal
  BY DEF Terminal
<1>. QED
  BY <1>1 DEF Apply, ManagedIssues

\* A launch changes the status and remembers the one left behind.
LEMMA LaunchFields ==
  ASSUME NEW x \in ManagedIssues, x.status \in LaunchSources
  PROVE  /\ Launch(x) \in ManagedIssues
         /\ Launch(x).status = "launching"
         /\ Launch(x).run = x.run /\ Launch(x).gen = x.gen /\ Launch(x).answers = x.answers
<1>1. "launching" \in Statuses
  BY DEF Statuses, BlocksNewAdmission, PendingDispatch, DispatchesWorker
<1>2. Apply(x, "launching") \in ManagedIssues
      /\ Apply(x, "launching").status = "launching"
      /\ Apply(x, "launching").run = x.run /\ Apply(x, "launching").gen = x.gen
      /\ Apply(x, "launching").answers = x.answers
  BY <1>1, ApplyFields
<1>. QED
  BY <1>2 DEF Launch, ManagedIssues

\* Every status has a stage to go on from.
LEMMA StageTyped == \A status : StageFor(status) \in Stages
BY DEF StageFor, Stages

\* A checkpoint made of typed parts is one the snapshot may hold.
LEMMA CheckpointTyped ==
  ASSUME NEW gen \in Nat, NEW run \in Nat, NEW kind \in {"", "needs_input"}, NEW stage \in Stages,
         NEW digest \in BOOLEAN
  PROVE  Checkpoint(gen, run, kind, stage, digest) \in Checkpoints
BY DEF Checkpoint, Checkpoints

\* The store's own checkpoint leaves what an issue has been through alone.
LEMMA CapturedFields ==
  ASSUME NEW x \in ManagedIssues, NEW a \in Executions
  PROVE  SameIssue(x, Captured(x, a))
<1>. DEFINE fresh == \/ x.cont = None
                     \/ /\ x.cont.kind = "needs_input"
                        /\ x.cont.run # a.run \/ x.cont.gen # a.gen
            new == Checkpoint(a.gen, a.run, "", StageFor(x.status), FALSE)
            old == IF fresh THEN new ELSE x.cont
            cont == [old EXCEPT !.run = a.run, !.gen = a.gen]
            susp == IF fresh /\ Resolved(x) THEN None ELSE x.susp
<1>1. a.gen \in Nat /\ a.run \in Nat
  BY DEF Executions
<1>2. new \in Checkpoints
  BY <1>1, StageTyped, CheckpointTyped
<1>3. old \in Checkpoints
  BY <1>2 DEF ManagedIssues
<1>4. cont \in Checkpoints
  <2>. HIDE DEF old
  <2>. QED
    BY <1>1, <1>3 DEF Checkpoints
<1>5. susp \in Suspensions \cup {None}
  BY DEF ManagedIssues
<1>6. Captured(x, a) = [x EXCEPT !.cont = cont, !.susp = susp]
  BY DEF Captured
<1>. HIDE DEF cont, susp
<1>. QED
  BY <1>4, <1>5, <1>6 DEF SameIssue, ManagedIssues

\* A suspension made by Suspend is one the snapshot may hold.
LEMMA SuspendTyped ==
  ASSUME NEW x \in ManagedIssues, NEW state \in {"active", "quarantined", "resolved"},
         NEW actions \in SUBSET Actions
  PROVE  Suspend(state, actions, x) \in Suspensions
BY DEF Suspend, Suspensions, ManagedIssues, Checkpoints

\* Settling an issue is idempotent and touches no issue that executes.
LEMMA SettleFields ==
  ASSUME NEW x \in ManagedIssues
  PROVE  /\ SameIssue(x, Settle(x))
         /\ Settle(Settle(x)) = Settle(x)
         /\ x.status \in Executing => Settle(x) = x
<1>0. x # None
  BY NoneAssumption
<1>1. CASE x.status = "completed"
  <2>1. Settle(x) = [x EXCEPT !.cont = None, !.susp = None]
    BY <1>0, <1>1 DEF Settle
  <2>2. SameIssue(x, Settle(x)) /\ Settle(x).cont = None /\ Settle(x).susp = None
    BY <2>1 DEF SameIssue, ManagedIssues
  <2>3. Settle(x) # None /\ Settle(x).status = "completed"
    BY <1>1, <2>2, NoneAssumption DEF SameIssue
  <2>4. Settle(Settle(x)) = [Settle(x) EXCEPT !.cont = None, !.susp = None]
    BY <2>3 DEF Settle
  <2>. QED
    BY <1>1, <2>1, <2>2, <2>4 DEF Executing, ManagedIssues
<1>2. CASE x.status \in {"blocked", "failed"} /\ x.susp = None
  <2>1. TerminalSuspension(x) \in Suspensions
    <3>. DEFINE undigested == x.cont # None /\ x.cont.stage \in {"resume", "publish"} /\ ~x.cont.digest
                stageAction == IF x.cont = None THEN {}
                               ELSE IF x.cont.stage = "resume" THEN {"resume"} ELSE {"retry-stage"}
                state == IF undigested \/ ~x.tree THEN "quarantined" ELSE "active"
                actions == IF undigested THEN {"cancel"}
                           ELSE {"cancel"} \cup stageAction
                                \cup (IF x.pr THEN {"adopt-pr", "retry-stage"} ELSE {})
    <3>1. state \in {"active", "quarantined", "resolved"} /\ actions \in SUBSET Actions
      BY DEF Actions
    <3>2. TerminalSuspension(x) = Suspend(state, actions, x)
      BY DEF TerminalSuspension
    <3>. HIDE DEF state, actions
    <3>. QED
      BY <3>1, <3>2, SuspendTyped
  <2>2. Settle(x) = [x EXCEPT !.susp = TerminalSuspension(x)]
    BY <1>0, <1>2 DEF Settle
  <2>3. SameIssue(x, Settle(x)) /\ Settle(x).susp = TerminalSuspension(x)
    BY <2>1, <2>2 DEF SameIssue, ManagedIssues
  <2>4. Settle(x).susp # None /\ Settle(x).status \in {"blocked", "failed"}
    BY <1>2, <2>1, <2>3, NoneAssumption DEF SameIssue
  <2>5. Settle(Settle(x)) = Settle(x)
    BY <2>4 DEF Settle
  <2>. QED
    BY <1>2, <2>3, <2>5 DEF Executing
<1>3. CASE ~(x.status = "completed") /\ ~(x.status \in {"blocked", "failed"} /\ x.susp = None)
  <2>1. Settle(x) = x
    BY <1>0, <1>3 DEF Settle
  <2>. QED
    BY <2>1 DEF SameIssue
<1>. QED
  BY <1>1, <1>2, <1>3

-----------------------------------------------------------------------------
(* The boundary. *)

\* Release gives up an execution whose issue does not execute any more.
LEMMA ReleaseFields ==
  ASSUME NEW d \in Snapshots
  PROVE  /\ Release(d) \in Snapshots
         /\ Release(d).effect = d.effect /\ Release(d).requests = d.requests
         /\ Release(d).quarantined = d.quarantined
         /\ \A k \in Issues : \/ Release(d).issue[k] = d.issue[k]
                              \/ /\ d.active # None /\ d.active.issue = k
                                 /\ d.issue[k] # None /\ d.issue[k].status \notin Executing
                                 /\ SameIssue(d.issue[k], Release(d).issue[k])
         /\ \/ Release(d).active = d.active
            \/ /\ d.active # None /\ Release(d).active = None
               /\ \/ d.issue[d.active.issue] = None
                  \/ d.issue[d.active.issue].status \notin Executing
<1>1. CASE d.active = None
  BY <1>1 DEF Release
<1>2. CASE d.active # None
  <2>. DEFINE i == d.active.issue
              x == d.issue[i]
              kept == IF x.status \in {"completed", "canceled"} THEN x ELSE Captured(x, d.active)
              y == [kept EXCEPT !.pid = FALSE]
  <2>1. d.active \in Executions /\ i \in Issues /\ x \in ManagedIssues \cup {None}
    BY <1>2 DEF Snapshots, Executions
  <2>2. CASE x = None
    <3>1. Release(d) = [d EXCEPT !.active = None]
      BY <1>2, <2>2 DEF Release
    <3>. QED
      BY <1>2, <2>2, <3>1 DEF Snapshots
  <2>3. CASE x # None /\ x.status \in Executing
    <3>1. Release(d) = d
      BY <1>2, <2>3 DEF Release
    <3>. QED
      BY <3>1
  <2>4. CASE x # None /\ x.status \notin Executing
    <3>1. x \in ManagedIssues
      BY <2>1, <2>4
    <3>2. SameIssue(x, kept)
      BY <2>1, <3>1, CapturedFields DEF SameIssue
    <3>3. SameIssue(x, y)
      <4>. HIDE DEF x, kept
      <4>. QED
        BY <3>2 DEF SameIssue, ManagedIssues
    <3>4. Release(d) = [Put(d, i, y) EXCEPT !.active = None]
      BY <1>2, <2>4 DEF Release
    <3>. HIDE DEF kept, y
    <3>5. /\ Release(d).issue = [d.issue EXCEPT ![i] = y] /\ Release(d).active = None
          /\ Release(d).effect = d.effect /\ Release(d).requests = d.requests
          /\ Release(d).quarantined = d.quarantined
          /\ Release(d) = [issue |-> Release(d).issue, active |-> None, effect |-> d.effect,
                           requests |-> d.requests, quarantined |-> d.quarantined]
      BY <3>4 DEF Put, Snapshots
    <3>6. [d.issue EXCEPT ![i] = y] \in [Issues -> ManagedIssues \cup {None}]
      BY <2>1, <3>3 DEF Snapshots, SameIssue
    <3>7. Release(d) \in Snapshots
      BY <3>5, <3>6 DEF Snapshots
    <3>8. \A k \in Issues : Release(d).issue[k] = IF k = i THEN y ELSE d.issue[k]
      BY <3>5 DEF Snapshots
    <3>. QED
      BY <1>2, <2>1, <2>4, <3>3, <3>5, <3>7, <3>8
  <2>. QED
    BY <2>2, <2>3, <2>4
<1>. QED
  BY <1>1, <1>2

\* Finalize releases and settles.
LEMMA FinalizeFields ==
  ASSUME NEW d \in Snapshots
  PROVE  /\ Finalize(d) \in Snapshots /\ Rested(Finalize(d))
         /\ Finalize(d).effect = d.effect /\ Finalize(d).requests = d.requests
         /\ Finalize(d).quarantined = d.quarantined
         /\ Finalize(d).active = Release(d).active
         /\ Finalize(d).issue = [k \in Issues |-> Settle(Release(d).issue[k])]
         /\ \A k \in Issues : d.issue[k] # None => SameIssue(d.issue[k], Finalize(d).issue[k])
<1>. DEFINE r == Release(d)
            f == [k \in Issues |-> Settle(r.issue[k])]
<1>1. r \in Snapshots
  BY ReleaseFields
<1>2. Finalize(d) = [r EXCEPT !.issue = f]
  BY DEF Finalize
<1>3. ASSUME NEW k \in Issues
      PROVE  /\ Settle(r.issue[k]) \in ManagedIssues \cup {None}
             /\ Settle(Settle(r.issue[k])) = Settle(r.issue[k])
             /\ d.issue[k] # None => SameIssue(d.issue[k], Settle(r.issue[k]))
  <2>1. r.issue[k] \in ManagedIssues \cup {None}
    BY <1>1 DEF Snapshots
  <2>2. CASE r.issue[k] = None
    <3>1. d.issue[k] = None
      BY <2>2, ReleaseFields, NoneAssumption DEF SameIssue
    <3>. QED
      BY <2>2, <3>1 DEF Settle
  <2>3. CASE r.issue[k] \in ManagedIssues
    <3>1. d.issue[k] \in ManagedIssues \cup {None}
      BY DEF Snapshots
    <3>2. d.issue[k] # None => SameIssue(d.issue[k], r.issue[k])
      BY <2>3, <3>1, ReleaseFields DEF SameIssue
    <3>3. SameIssue(r.issue[k], Settle(r.issue[k]))
          /\ Settle(Settle(r.issue[k])) = Settle(r.issue[k])
      BY <2>3, SettleFields
    <3>. QED
      BY <3>2, <3>3 DEF SameIssue
  <2>. QED
    BY <2>1, <2>2, <2>3
<1>4. f \in [Issues -> ManagedIssues \cup {None}] /\ \A k \in Issues : f[k] = Settle(r.issue[k])
  BY <1>3
<1>5. /\ r.effect = d.effect /\ r.requests = d.requests /\ r.quarantined = d.quarantined
  BY ReleaseFields
<1>. HIDE DEF f, r
<1>6. /\ Finalize(d) \in Snapshots /\ Finalize(d).issue = f /\ Finalize(d).active = r.active
      /\ Finalize(d).effect = d.effect /\ Finalize(d).requests = d.requests
      /\ Finalize(d).quarantined = d.quarantined
  BY <1>1, <1>2, <1>4, <1>5 DEF Snapshots
<1>7. Rested(Finalize(d))
  BY <1>3, <1>4, <1>6 DEF Rested
<1>8. \A k \in Issues : d.issue[k] # None => SameIssue(d.issue[k], Finalize(d).issue[k])
  BY <1>3, <1>4, <1>6
<1>. QED
  BY <1>6, <1>7, <1>8 DEF f, r

\* Isolation takes one issue out, with its requests, and leaves the others alone.
LEMMA IsolateFields ==
  ASSUME NEW d \in Snapshots, NEW before \in Snapshots, NEW i \in Issues, Rested(d)
  PROVE  /\ Isolate(d, i, before) \in Snapshots /\ Rested(Isolate(d, i, before))
         /\ Isolate(d, i, before).issue[i] = None
         /\ Isolate(d, i, before).quarantined[i] # None
         /\ \A k \in Issues \ {i} :
              /\ Isolate(d, i, before).issue[k] = d.issue[k]
              /\ Isolate(d, i, before).effect[k] = d.effect[k]
              /\ Isolate(d, i, before).quarantined[k] = d.quarantined[k]
         /\ d.active.issue # i => Isolate(d, i, before).active = d.active
<1>. DEFINE q == [requests |-> RequestsOf(d, i),
                  answers |-> IF before.issue[i] = None THEN <<>> ELSE before.issue[i].answers]
            r == Isolate(d, i, before)
<1>1. q \in Quarantines
  <2>1. RequestsOf(d, i) \in SUBSET Requests
    BY DEF RequestsOf, Snapshots
  <2>2. (IF before.issue[i] = None THEN <<>> ELSE before.issue[i].answers) \in Seq(Nat)
    <3>1. before.issue[i] \in ManagedIssues \cup {None}
      BY DEF Snapshots
    <3>2. before.issue[i] \in ManagedIssues => before.issue[i].answers \in Seq(Nat)
      BY DEF ManagedIssues
    <3>3. <<>> \in Seq(Nat)
      OBVIOUS
    <3>. QED
      BY <3>1, <3>2, <3>3
  <2>. QED
    BY <2>1, <2>2 DEF Quarantines
<1>2. q # None
  BY <1>1, NoneAssumption
<1>3. /\ r.issue = [d.issue EXCEPT ![i] = None]
      /\ r.active = IF d.active # None /\ d.active.issue = i THEN None ELSE d.active
      /\ r.effect = [d.effect EXCEPT ![i] = None]
      /\ r.requests = d.requests \ RequestsOf(d, i)
      /\ r.quarantined = [d.quarantined EXCEPT ![i] = q]
      /\ r = [issue |-> r.issue, active |-> r.active, effect |-> r.effect,
              requests |-> r.requests, quarantined |-> r.quarantined]
  BY DEF Isolate
<1>. HIDE DEF q, r
<1>4. /\ r.issue \in [Issues -> ManagedIssues \cup {None}] /\ r.effect \in [Issues -> Effects \cup {None}]
      /\ r.active \in Executions \cup {None} /\ r.requests \in SUBSET Requests
      /\ r.quarantined \in [Issues -> Quarantines \cup {None}]
  BY <1>1, <1>3 DEF Snapshots
<1>5. r \in Snapshots
  BY <1>3, <1>4 DEF Snapshots
<1>6. /\ r.issue[i] = None /\ r.quarantined[i] # None
      /\ \A k \in Issues \ {i} : /\ r.issue[k] = d.issue[k] /\ r.effect[k] = d.effect[k]
                                /\ r.quarantined[k] = d.quarantined[k]
  BY <1>2, <1>3 DEF Snapshots
<1>7. Rested(r)
  BY <1>6 DEF Rested, Settle
<1>. QED
  BY <1>3, <1>5, <1>6, <1>7 DEF r

\* In a valid snapshot an issue executes in the active execution and nowhere else.
LEMMA ExecutingOwns ==
  ASSUME NEW d \in Snapshots, Valid(d), NEW i \in Issues
  PROVE  /\ d.issue[i] # None /\ d.issue[i].status \in Executing => Owns(d, i, d.issue[i])
         /\ d.active # None =>
              /\ d.active.issue \in Issues
              /\ d.issue[d.active.issue] # None /\ d.issue[d.active.issue].status \in Executing
              /\ d.active = Execution(d.active.issue, d.issue[d.active.issue])
<1>1. ValidExecution(d)
  BY DEF Valid
<1>2. \A k \in Issues : Execution(k, d.issue[k]).issue = k
  BY DEF Execution
<1>. QED
  BY <1>1, <1>2 DEF ValidExecution, Owns

\* What is stored is a valid snapshot at rest; the other issues, and an execution
\* of theirs, are as they were; and of issue i it is what was asked for, unless
\* the update is refused or the issue is isolated.
LEMMA UpdateFields ==
  ASSUME NEW d, Stored(d), NEW i \in Issues, NEW after, Confined(d, i, after),
         NEW r, r = Update(d, i, after)
  PROVE  /\ Stored(r)
         /\ \A k \in Issues \ {i} : /\ r.issue[k] = d.issue[k] /\ r.effect[k] = d.effect[k]
                                   /\ r.quarantined[k] = d.quarantined[k]
         /\ d.active # None /\ d.active.issue # i => r.active = d.active
         /\ \/ r = d
            \/ r.issue[i] = None /\ r.quarantined[i] # None
            \/ /\ SameIssue(after.issue[i], r.issue[i])
               /\ r.effect = after.effect /\ r.quarantined = d.quarantined
<1>. DEFINE final == Finalize(after)
            isolated == Isolate(final, i, d)
<1>a. d \in Snapshots /\ Valid(d) /\ Rested(d) /\ after \in Snapshots
  BY DEF Stored, Confined
<1>b. \/ r = final /\ Valid(final)
      \/ r = isolated /\ Valid(isolated)
      \/ r = d
  BY DEF Update
<1>1. /\ final \in Snapshots /\ Rested(final)
      /\ final.effect = after.effect /\ final.quarantined = after.quarantined
      /\ final.active = Release(after).active
      /\ final.issue = [k \in Issues |-> Settle(Release(after).issue[k])]
      /\ after.issue[i] # None => SameIssue(after.issue[i], final.issue[i])
  BY <1>a, FinalizeFields
<1>2. d.active # None =>
        /\ d.active.issue \in Issues
        /\ d.issue[d.active.issue] # None /\ d.issue[d.active.issue].status \in Executing
  BY <1>a, ExecutingOwns
<1>3. d.active # None /\ d.active.issue # i => final.active = d.active
  <2>. SUFFICES ASSUME d.active # None, d.active.issue # i PROVE final.active = d.active
    OBVIOUS
  <2>1. after.active = d.active /\ after.issue[d.active.issue] = d.issue[d.active.issue]
    BY <1>2 DEF Confined
  <2>2. Release(after).active = after.active
    BY <1>2, <1>a, <2>1, ReleaseFields
  <2>. QED
    BY <1>1, <2>1, <2>2
<1>4. ASSUME NEW k \in Issues \ {i}
      PROVE  final.issue[k] = d.issue[k]
  <2>1. after.issue[k] = d.issue[k] /\ Settle(d.issue[k]) = d.issue[k]
    BY <1>a DEF Confined, Rested
  <2>2. Release(after).issue[k] = after.issue[k]
    <3>1. CASE after.active # None /\ after.active.issue = k
      <4>1. after.active = d.active
        BY <3>1 DEF Confined
      <4>2. after.issue[k].status \in Executing
        BY <1>2, <2>1, <3>1, <4>1
      <4>. QED
        BY <1>a, <4>2, ReleaseFields
    <3>2. CASE ~(after.active # None /\ after.active.issue = k)
      BY <1>a, <3>2, ReleaseFields
    <3>. QED
      BY <3>1, <3>2
  <2>3. final.issue[k] = Settle(Release(after).issue[k])
    BY <1>1
  <2>. QED
    BY <2>1, <2>2, <2>3
<1>. HIDE DEF final
<1>5. /\ isolated \in Snapshots /\ Rested(isolated)
      /\ isolated.issue[i] = None /\ isolated.quarantined[i] # None
      /\ \A k \in Issues \ {i} :
           /\ isolated.issue[k] = final.issue[k] /\ isolated.effect[k] = final.effect[k]
           /\ isolated.quarantined[k] = final.quarantined[k]
      /\ final.active.issue # i => isolated.active = final.active
  <2>1. final \in Snapshots /\ Rested(final) /\ d \in Snapshots
    BY <1>1, <1>a
  <2>. QED
    BY <2>1, IsolateFields
<1>. HIDE DEF isolated
<1>6. CASE r = final /\ Valid(final)
  BY <1>1, <1>3, <1>4, <1>6 DEF Stored, Confined
<1>7. CASE r = isolated /\ Valid(isolated)
  BY <1>1, <1>3, <1>4, <1>5, <1>7 DEF Stored, Confined
<1>8. CASE r = d
  BY <1>8
<1>. QED
  BY <1>b, <1>6, <1>7, <1>8

\* A valid update that leaves nothing to finalize is stored as it is.
LEMMA UpdateExact ==
  ASSUME NEW d, NEW i \in Issues, NEW after \in Snapshots, Valid(after), Rested(after)
  PROVE  Update(d, i, after) = after
<1>1. Release(after) = after
  <2>1. after.active # None =>
          /\ after.issue[after.active.issue] # None
          /\ after.issue[after.active.issue].status \in Executing
    BY ExecutingOwns
  <2>. QED
    BY <2>1 DEF Release
<1>2. [k \in Issues |-> Settle(after.issue[k])] = after.issue
  BY DEF Rested, Snapshots
<1>3. Finalize(after) = after
  <2>1. Finalize(after) = [after EXCEPT !.issue = [k \in Issues |-> Settle(after.issue[k])]]
    BY <1>1 DEF Finalize
  <2>. QED
    BY <1>2, <2>1 DEF Snapshots
<1>. QED
  BY <1>3 DEF Update

-----------------------------------------------------------------------------
(* The handlers' helpers. *)

\* Put replaces one issue.
LEMMA PutFields ==
  ASSUME NEW d \in Snapshots, NEW i \in Issues, NEW x \in ManagedIssues
  PROVE  /\ Put(d, i, x) \in Snapshots
         /\ Put(d, i, x).issue[i] = x
         /\ \A k \in Issues \ {i} : Put(d, i, x).issue[k] = d.issue[k]
         /\ Put(d, i, x).active = d.active /\ Put(d, i, x).effect = d.effect
         /\ Put(d, i, x).requests = d.requests /\ Put(d, i, x).quarantined = d.quarantined
BY DEF Put, Snapshots

\* Replacing the active execution replaces nothing else.
LEMMA SetActiveFields ==
  ASSUME NEW d \in Snapshots, NEW a \in Executions \cup {None}
  PROVE  /\ [d EXCEPT !.active = a] \in Snapshots
         /\ [d EXCEPT !.active = a].active = a /\ [d EXCEPT !.active = a].issue = d.issue
         /\ [d EXCEPT !.active = a].effect = d.effect /\ [d EXCEPT !.active = a].requests = d.requests
         /\ [d EXCEPT !.active = a].quarantined = d.quarantined
BY DEF Snapshots

\* The execution of an issue carries its run and generation.
LEMMA ExecutionTyped ==
  ASSUME NEW i \in Issues, NEW x \in ManagedIssues
  PROVE  /\ Execution(i, x) \in Executions /\ Execution(i, x).issue = i
         /\ Execution(i, x).run = x.run /\ Execution(i, x).gen = x.gen
         /\ Execution(i, x) # None
<1>1. x.run \in Nat /\ x.gen \in Nat
  BY DEF ManagedIssues
<1>2. Execution(i, x) \in Executions
  BY <1>1 DEF Execution, Executions
<1>. QED
  BY <1>2, NoneAssumption DEF Execution

\* Setting an issue's effect touches no other effect, issue or request.
LEMMA SetEffectFields ==
  ASSUME NEW d \in Snapshots, NEW i \in Issues, d.issue[i] # None,
         NEW kind \in EffectKinds \cup {"none"}
  PROVE  /\ SetEffect(d, i, kind) \in Snapshots
         /\ \A k \in Issues \ {i} : SetEffect(d, i, kind).effect[k] = d.effect[k]
         /\ SetEffect(d, i, kind).issue = d.issue /\ SetEffect(d, i, kind).active = d.active
         /\ SetEffect(d, i, kind).requests = d.requests
         /\ SetEffect(d, i, kind).quarantined = d.quarantined
         /\ (\/ kind = "none" /\ d.effect[i] = None
             \/ d.effect[i] # None /\ kind # "none" /\ d.effect[i].kind = kind
                /\ d.effect[i].run = d.issue[i].run)
            => SetEffect(d, i, kind).effect[i] = d.effect[i]
<1>. DEFINE x == d.issue[i]
            e == d.effect[i]
            new == CASE kind = "none" -> None
                     [] kind # "none" /\ e # None /\ e.kind = kind /\ e.run = x.run -> e
                     [] OTHER -> [kind |-> kind, run |-> x.run, gen |-> x.gen]
<1>1. x \in ManagedIssues /\ e \in Effects \cup {None}
  BY DEF Snapshots
<1>2. new \in Effects \cup {None}
  BY <1>1 DEF Effects, ManagedIssues
<1>3. SetEffect(d, i, kind) = [d EXCEPT !.effect[i] = new]
  BY DEF SetEffect
<1>4. (\/ kind = "none" /\ e = None
       \/ e # None /\ kind # "none" /\ e.kind = kind /\ e.run = x.run) => new = e
  OBVIOUS
<1>. HIDE DEF new
<1>. QED
  BY <1>2, <1>3, <1>4 DEF Snapshots

\* Capture keeps a checkpoint of the execution and gives it up.
LEMMA CaptureFields ==
  ASSUME NEW d \in Snapshots, NEW i \in Issues, d.issue[i] # None
  PROVE  /\ Capture(d, i) \in Snapshots
         /\ SameIssue(d.issue[i], Capture(d, i).issue[i])
         /\ Capture(d, i).issue[i].cont # None /\ Capture(d, i).issue[i] # None
         /\ \A k \in Issues \ {i} : Capture(d, i).issue[k] = d.issue[k]
         /\ Capture(d, i).active = None /\ Capture(d, i).effect = d.effect
         /\ Capture(d, i).requests = d.requests /\ Capture(d, i).quarantined = d.quarantined
<1>. DEFINE x == d.issue[i]
            cont == Checkpoint(x.gen, x.run, "", StageFor(x.status), FALSE)
            susp == IF Resolved(x) THEN None ELSE x.susp
            y == [x EXCEPT !.cont = cont, !.susp = susp, !.pid = FALSE]
<1>1. x \in ManagedIssues
  BY DEF Snapshots
<1>2. cont \in Checkpoints /\ susp \in Suspensions \cup {None}
  BY <1>1, CheckpointTyped, StageTyped DEF ManagedIssues
<1>3. SameIssue(x, y) /\ y.cont = cont
  <2>. HIDE DEF x, cont, susp
  <2>. QED
    BY <1>1, <1>2 DEF SameIssue, ManagedIssues
<1>4. Capture(d, i) = [Put(d, i, y) EXCEPT !.active = None]
  BY DEF Capture
<1>. HIDE DEF y, cont
<1>5. y \in ManagedIssues /\ y # None /\ y.cont # None
  BY <1>2, <1>3, NoneAssumption DEF SameIssue
<1>. DEFINE p == Put(d, i, y)
<1>6. /\ p \in Snapshots /\ p.issue[i] = y /\ p.effect = d.effect /\ p.requests = d.requests
      /\ p.quarantined = d.quarantined /\ \A k \in Issues \ {i} : p.issue[k] = d.issue[k]
  BY <1>5, PutFields
<1>7. Capture(d, i) = [p EXCEPT !.active = None]
  BY <1>4
<1>. HIDE DEF p, x
<1>8. /\ Capture(d, i) \in Snapshots /\ Capture(d, i).issue = p.issue
      /\ Capture(d, i).active = None /\ Capture(d, i).effect = p.effect
      /\ Capture(d, i).requests = p.requests /\ Capture(d, i).quarantined = p.quarantined
  BY <1>6, <1>7, SetActiveFields
<1>. QED
  BY <1>3, <1>5, <1>6, <1>8 DEF x

\* The issue with the execution slot for its own.
Slotted(d, i, z) == [Put(d, i, z) EXCEPT !.active = Execution(i, z)]

\* An issue written together with its execution holds the slot.
LEMMA SlottedFields ==
  ASSUME NEW d \in Snapshots, NEW i \in Issues, NEW z \in ManagedIssues
  PROVE  /\ Slotted(d, i, z) \in Snapshots /\ Slotted(d, i, z).issue[i] = z
         /\ \A k \in Issues \ {i} : Slotted(d, i, z).issue[k] = d.issue[k]
         /\ Slotted(d, i, z).active.issue = i /\ Slotted(d, i, z).effect = d.effect
         /\ Slotted(d, i, z).requests = d.requests
         /\ Slotted(d, i, z).quarantined = d.quarantined
<1>. DEFINE p == Put(d, i, z)
            a == Execution(i, z)
<1>1. /\ p \in Snapshots /\ p.issue[i] = z /\ p.effect = d.effect /\ p.requests = d.requests
      /\ p.quarantined = d.quarantined /\ \A k \in Issues \ {i} : p.issue[k] = d.issue[k]
  BY PutFields
<1>2. a \in Executions /\ a.issue = i
  BY ExecutionTyped
<1>3. Slotted(d, i, z) = [p EXCEPT !.active = a]
  BY DEF Slotted
<1>. DEFINE r == Slotted(d, i, z)
<1>. HIDE DEF p, a, r
<1>4. /\ r \in Snapshots /\ r.issue = p.issue /\ r.active = a /\ r.effect = p.effect
      /\ r.requests = p.requests /\ r.quarantined = p.quarantined
  BY <1>1, <1>2, <1>3, SetActiveFields DEF r
<1>5. /\ r \in Snapshots /\ r.issue[i] = z /\ \A k \in Issues \ {i} : r.issue[k] = d.issue[k]
      /\ r.active.issue = i /\ r.effect = d.effect /\ r.requests = d.requests
      /\ r.quarantined = d.quarantined
  BY <1>1, <1>2, <1>4
<1>. QED
  BY <1>5 DEF r

\* Resume and Transfer give the issue a generation of its own.
Renumbered(x, run) == [x EXCEPT !.gen = x.gen + 1, !.run = run]

\* A new generation changes the run and the generation only.
LEMMA RenumberedFields ==
  ASSUME NEW x \in ManagedIssues, NEW run \in Nat
  PROVE  /\ Renumbered(x, run) \in ManagedIssues
         /\ Renumbered(x, run).gen = x.gen + 1 /\ Renumbered(x, run).status = x.status
         /\ Renumbered(x, run).answers = x.answers /\ Renumbered(x, run).cont = x.cont
         /\ Renumbered(x, run).susp = x.susp /\ Renumbered(x, run).pid = x.pid
<1>1. x.gen \in Nat
  BY DEF ManagedIssues
<1>2. x.gen + 1 \in Nat
  BY <1>1
<1>. QED
  BY <1>2 DEF Renumbered, ManagedIssues

\* ResumeContinuation and TransferExecution are the two renumberings that take the
\* slot.
LEMMA ResumeIs ==
  ASSUME NEW d \in Snapshots, NEW i \in Issues, d.issue[i] # None
  PROVE  /\ Resume(d, i) = Slotted(d, i, Renumbered(d.issue[i], d.issue[i].run))
         /\ Transfer(d, i) = Slotted(d, i, Renumbered(d.issue[i], d.issue[i].gen + 1))
         /\ d.issue[i] \in ManagedIssues
         /\ d.issue[i].run \in Nat /\ d.issue[i].gen + 1 \in Nat
<1>. DEFINE x == d.issue[i]
<1>1. x \in ManagedIssues
  BY DEF Snapshots
<1>2. x.run \in Nat /\ x.gen \in Nat
  BY <1>1 DEF ManagedIssues
<1>3. x.gen + 1 \in Nat
  BY <1>2
<1>4. [x EXCEPT !.gen = x.gen + 1] = Renumbered(x, x.run)
  <2>. HIDE DEF x
  <2>. QED
    BY <1>1 DEF Renumbered, ManagedIssues
<1>5. [x EXCEPT !.gen = x.gen + 1, !.run = x.gen + 1] = Renumbered(x, x.gen + 1)
  BY DEF Renumbered
<1>6. Resume(d, i) = Slotted(d, i, [x EXCEPT !.gen = x.gen + 1])
  BY DEF Resume, Slotted
<1>7. Transfer(d, i) = Slotted(d, i, [x EXCEPT !.gen = x.gen + 1, !.run = x.gen + 1])
  BY DEF Transfer, Slotted
<1>. QED
  BY <1>1, <1>2, <1>3, <1>4, <1>5, <1>6, <1>7

-----------------------------------------------------------------------------
(* The inductive invariant. *)

Unstarted == {"claiming", "claimed", "launching"}
Held == {"validate", "spawn", "record", "working", "result", "outcome", "published"}

\* A job is about the issue it read, and from the validation to the outcome its
\* execution is the active one; around the worker's start the issue is as the job
\* knows it.
JobOk(i) ==
  job[i] # None =>
    /\ job[i].pc \notin {"queued", "sync", "synced"} => job[i].seen \in ManagedIssues
    /\ job[i].pc = "queued" => job[i].seen \in ManagedIssues \cup {None}
    /\ job[i].pc = "pull" => job[i].seen.status \in {"awaiting_checks", "awaiting_merge"}
    /\ job[i].pc = "synced" =>
         job[i].seen \in Effects /\ [issue |-> i, effect |-> job[i].seen] \in called
    /\ job[i].pc \in Held => db.active = Execution(i, job[i].seen)
    /\ job[i].pc \in {"spawn", "record"} => db.issue[i].status = "launching"
    /\ job[i].pc = "working" => db.issue[i].status = "running" /\ db.issue[i].pid

JobsOk == job \in [Issues -> Jobs \cup {None}] /\ \A i \in Issues : JobOk(i)

\* Only a supervisor that is up has jobs.
JobsUp == sup # "up" => \A i \in Issues : job[i] = None

\* A worker that lives and was recorded is the active execution's, is on record, and
\* is watched by its job; none is left when the start reconciles the issues.
WorkersKnown ==
  /\ procs \subseteq Executions /\ ran \subseteq Executions
  /\ \A p \in procs \cap ran :
       /\ db.active = p /\ db.issue[p.issue].pid = TRUE /\ sup # "reconciling"
       /\ sup = "up" => job[p.issue] # None /\ job[p.issue].pc = "working"

\* The generations of workers are behind: an issue that has not started its worker
\* has a generation in which none ran.
Spent ==
  \A p \in ran :
    /\ db.issue[p.issue] = None => db.quarantined[p.issue] # None
    /\ db.issue[p.issue] # None =>
         /\ p.gen <= db.issue[p.issue].gen
         /\ p.gen = db.issue[p.issue].gen => db.issue[p.issue].status \notin Unstarted

IInv ==
  Stored(db) /\ JobsOk /\ JobsUp /\ WorkersKnown /\ Spent /\ AnswerDeliveredOnce

-----------------------------------------------------------------------------
(* What one update does. *)

\* What an update for issue i makes of it.
Moves(i, after) ==
  LET x == db.issue[i]
      y == after.issue[i]
  IN /\ x = None => db.quarantined[i] = None /\ y.answers = <<>> /\ y.status # "running"
     /\ x # None =>
          /\ y.gen >= x.gen
          /\ \/ y.answers = x.answers
             \/ \E id \in Nat : /\ \A k \in DOMAIN x.answers : x.answers[k] # id
                                /\ y.answers = Append(x.answers, id)
          /\ y.status \in Unstarted => y.gen > x.gen \/ x.status \in Unstarted
          /\ y.status = "running" => y.gen = x.gen
          /\ \/ after.effect[i] = db.effect[i] \/ y.status # x.status
             \/ [issue |-> i, effect |-> db.effect[i]] \in called'

Writes(i) ==
  \/ UNCHANGED db
  \/ \E after : Confined(db, i, after) /\ Moves(i, after) /\ db' = Update(db, i, after)

\* The status an update asks for, if the store takes it.
Becomes(i, status) == db'.issue[i] # None => db'.issue[i].status \in {db.issue[i].status, status}

\* What an update starts from: the snapshot, without the execution of issue i or not.
Based(i, d) ==
  /\ d \in Snapshots
  /\ \A k \in Issues \ {i} : d.issue[k] = db.issue[k]
  /\ SameIssue(db.issue[i], d.issue[i])
  /\ d.effect = db.effect /\ d.quarantined = db.quarantined
  /\ d.active = db.active \/ (d.active = None /\ (db.active # None => db.active.issue = i))

Leaves(i) == Stop(i) \/ Goto(i, "sync", None, "")

\* The snapshot itself, with or without the issue's execution released, is a base.
LEMMA BasedOn ==
  ASSUME Stored(db), NEW i \in Issues, db.issue[i] # None
  PROVE  /\ Based(i, db)
         /\ \A x : Owns(db, i, x) => /\ Based(i, Capture(db, i)) /\ Capture(db, i).issue[i].cont # None
                                     /\ Based(i, [db EXCEPT !.active = None])
<1>1. db \in Snapshots /\ db.issue[i] \in ManagedIssues
  BY DEF Stored, Snapshots
<1>2. SameIssue(db.issue[i], db.issue[i])
  BY <1>1 DEF SameIssue
<1>3. Based(i, db)
  BY <1>1, <1>2 DEF Based
<1>4. ASSUME NEW x, Owns(db, i, x)
      PROVE  db.active.issue = i
  BY <1>4 DEF Owns, Execution
<1>5. ASSUME NEW x, Owns(db, i, x)
      PROVE  Based(i, Capture(db, i)) /\ Capture(db, i).issue[i].cont # None
  BY <1>1, <1>4, <1>5, CaptureFields DEF Based
<1>6. ASSUME NEW x, Owns(db, i, x)
      PROVE  Based(i, [db EXCEPT !.active = None])
  BY <1>1, <1>2, <1>4, <1>6, SetActiveFields DEF Based
<1>. QED
  BY <1>3, <1>5, <1>6

\* An issue that keeps its generation and its answers is put back.
LEMMA PutMoves ==
  ASSUME Stored(db), NEW i \in Issues, db.issue[i] # None, NEW d, Based(i, d), NEW z \in ManagedIssues,
         z.gen = db.issue[i].gen, z.answers = db.issue[i].answers,
         z.status \in Unstarted => db.issue[i].status \in Unstarted
  PROVE  /\ Confined(db, i, Put(d, i, z)) /\ Moves(i, Put(d, i, z))
         /\ \A kind \in EffectKinds \cup {"none"} :
              z.status # db.issue[i].status =>
                Confined(db, i, SetEffect(Put(d, i, z), i, kind)) /\ Moves(i, SetEffect(Put(d, i, z), i, kind))
<1>. DEFINE p == Put(d, i, z)
<1>1. z # None /\ z.gen \in Nat
  BY NoneAssumption DEF ManagedIssues
<1>2. /\ p \in Snapshots /\ p.issue[i] = z /\ \A k \in Issues \ {i} : p.issue[k] = d.issue[k]
      /\ p.active = d.active /\ p.effect = d.effect /\ p.quarantined = d.quarantined
  BY PutFields DEF Based
<1>. HIDE DEF p
<1>3. Confined(db, i, p)
  <2>1. /\ p.quarantined = db.quarantined /\ p.issue[i] # None
        /\ \A k \in Issues \ {i} : p.issue[k] = db.issue[k] /\ p.effect[k] = db.effect[k]
    BY <1>1, <1>2 DEF Based
  <2>2. p.active = db.active \/ (p.active = None /\ (db.active # None => db.active.issue = i))
    BY <1>2 DEF Based
  <2>. QED
    BY <1>2, <2>1, <2>2 DEF Confined
<1>4. Moves(i, p)
  BY <1>1, <1>2 DEF Moves, Based
<1>5. ASSUME NEW kind \in EffectKinds \cup {"none"}, z.status # db.issue[i].status
      PROVE  Confined(db, i, SetEffect(p, i, kind)) /\ Moves(i, SetEffect(p, i, kind))
  <2>. DEFINE e == SetEffect(p, i, kind)
  <2>1. /\ e \in Snapshots /\ e.issue = p.issue /\ e.active = p.active
        /\ e.quarantined = p.quarantined /\ \A k \in Issues \ {i} : e.effect[k] = p.effect[k]
    BY <1>1, <1>2, SetEffectFields
  <2>. HIDE DEF e
  <2>2. Confined(db, i, e)
    BY <1>1, <1>2, <1>3, <2>1 DEF Confined
  <2>3. Moves(i, e)
    BY <1>1, <1>2, <1>5, <2>1 DEF Moves
  <2>. QED
    BY <2>2, <2>3 DEF e
<1>. QED
  BY <1>3, <1>4, <1>5 DEF p

\* A commit that names the status it asks for leaves the issue there or where it was.
LEMMA CommitBecomes ==
  ASSUME Stored(db), NEW i \in Issues, NEW after, Confined(db, i, after), Commit(i, after)
  PROVE  Becomes(i, after.issue[i].status)
<1>1. \/ db' = db
      \/ db'.issue[i] = None
      \/ SameIssue(after.issue[i], db'.issue[i])
  BY UpdateFields DEF Commit
<1>. QED
  BY <1>1 DEF Becomes, SameIssue

\* The same as the updates of the handlers.
LEMMA PutWrites ==
  ASSUME Stored(db), NEW i \in Issues, db.issue[i] # None, NEW d, Based(i, d), NEW z \in ManagedIssues,
         z.gen = db.issue[i].gen, z.answers = db.issue[i].answers,
         z.status \in Unstarted => db.issue[i].status \in Unstarted
  PROVE  /\ Commit(i, Put(d, i, z)) => Writes(i) /\ Becomes(i, z.status)
         /\ \A kind \in EffectKinds \cup {"none"} :
              z.status # db.issue[i].status /\ Commit(i, SetEffect(Put(d, i, z), i, kind)) => Writes(i)
<1>1. ASSUME Commit(i, Put(d, i, z)) PROVE Writes(i) /\ Becomes(i, z.status)
  <2>1. Confined(db, i, Put(d, i, z)) /\ Moves(i, Put(d, i, z))
    BY PutMoves
  <2>2. Put(d, i, z).issue[i] = z
    BY PutFields DEF Based
  <2>3. Becomes(i, z.status)
    BY <1>1, <2>1, <2>2, CommitBecomes
  <2>. QED
    BY <1>1, <2>1, <2>3 DEF Commit, Writes
<1>2. \A kind \in EffectKinds \cup {"none"} :
        z.status # db.issue[i].status /\ Commit(i, SetEffect(Put(d, i, z), i, kind)) => Writes(i)
  BY PutMoves DEF Commit, Writes
<1>. QED
  BY <1>1, <1>2

-----------------------------------------------------------------------------
(* The outcomes shared by several handlers. *)

\* failIssue writes its own issue and leaves the job.
LEMMA FailIssueWrites ==
  ASSUME Stored(db), NEW i \in Issues, NEW blocked \in BOOLEAN, NEW stage \in Stages \cup {""},
         FailIssue(i, blocked, stage)
  PROVE  Writes(i) /\ Leaves(i)
<1>. DEFINE x == db.issue[i]
            to == IF blocked THEN "blocked" ELSE "failed"
            held == IF Owns(db, i, x) THEN Capture(db, i) ELSE db
            y == Apply(held.issue[i], to)
            kind == IF blocked THEN "mark_blocked" ELSE "mark_failed"
            cont(digest) == IF y.cont = None THEN None
                            ELSE [y.cont EXCEPT !.digest = digest,
                                                !.stage = IF stage = "" THEN y.cont.stage ELSE stage]
            z(digest) == [y EXCEPT !.session = FALSE, !.cont = cont(digest)]
<1>1. CASE GiveUp(i)
  BY <1>1 DEF GiveUp, Writes, Leaves
<1>2. CASE x # None /\ x.status \in FailFrom /\ Goto(i, "sync", None, "")
           /\ \E digest \in Digests : Commit(i, SetEffect(Put(held, i, z(digest)), i, kind))
  <2>1. PICK digest \in Digests : Commit(i, SetEffect(Put(held, i, z(digest)), i, kind))
    BY <1>2
  <2>2. digest \in BOOLEAN
    BY <2>1 DEF Digests
  <2>3. Based(i, held)
    BY <1>2, BasedOn
  <2>4. to \in Statuses /\ to \notin FailFrom /\ to \notin Unstarted
    BY StatusSets DEF FailFrom, Unstarted, Terminal
  <2>5. /\ y \in ManagedIssues /\ y.status = to /\ y.gen = x.gen /\ y.answers = x.answers
    <3>. HIDE DEF held, to
    <3>. QED
      BY <2>3, <2>4, ApplyFields DEF Based, SameIssue
  <2>. HIDE DEF y
  <2>6. cont(digest) \in Checkpoints \cup {None}
    <3>1. y.cont \in Checkpoints \cup {None}
      BY <2>5 DEF ManagedIssues
    <3>. QED
      BY <2>2, <3>1 DEF Checkpoints
  <2>. HIDE DEF cont
  <2>8. z(digest) \in ManagedIssues /\ z(digest).status = to
        /\ z(digest).gen = x.gen /\ z(digest).answers = x.answers
    BY <2>5, <2>6 DEF ManagedIssues
  <2>9. kind \in EffectKinds \cup {"none"}
    BY DEF EffectKinds, DemandedStatus
  <2>. HIDE DEF z, held, kind, to
  <2>. QED
    BY <1>2, <2>1, <2>3, <2>4, <2>8, <2>9, PutWrites DEF Leaves
<1>. QED
  BY <1>1, <1>2 DEF FailIssue

\* The statuses the handlers name.
LEMMA Literals ==
  /\ "failed" \in Statuses /\ "blocked" \in Statuses /\ "retry_wait" \in Statuses
  /\ "completed" \in Statuses /\ "canceled" \in Statuses /\ "needs_input" \in Statuses
  /\ "resume_pending" \in Statuses /\ "awaiting_checks" \in Statuses /\ "awaiting_merge" \in Statuses
  /\ "claiming" \in Statuses /\ "claimed" \in Statuses /\ "launching" \in Statuses
  /\ "running" \in Statuses
  /\ "none" \in EffectKinds \cup {"none"} /\ "mark_done" \in EffectKinds \cup {"none"}
  /\ "mark_failed" \in EffectKinds \cup {"none"} /\ "mark_blocked" \in EffectKinds \cup {"none"}
  /\ "mark_needs_input" \in EffectKinds \cup {"none"} /\ "apply_resolution" \in EffectKinds \cup {"none"}
  /\ "publish" \in Stages /\ "cancel" \in Actions /\ "resume" \in Actions
BY DEF Statuses, Terminal, BlocksNewAdmission, PendingDispatch, DispatchesWorker, EffectKinds,
       DemandedStatus, Stages, Actions

\* scheduleRetry writes its own issue and leaves the job.
LEMMA ScheduleRetryWrites ==
  ASSUME Stored(db), NEW i \in Issues, NEW seen, ScheduleRetry(i, seen)
  PROVE  Writes(i) /\ Leaves(i)
<1>1. CASE Exhausted(seen)
  <2>1. FailIssue(i, FALSE, "")
    BY <1>1 DEF ScheduleRetry
  <2>. QED
    BY <2>1, FailIssueWrites
<1>2. CASE ~Exhausted(seen)
  <2>1. /\ Stop(i)
        /\ \/ UNCHANGED db
           \/ Commit(i, Put(db, i, Apply(db.issue[i], "retry_wait"))) /\ db.issue[i] # None
    BY <1>2 DEF ScheduleRetry
  <2>2. CASE UNCHANGED db
    BY <2>1, <2>2 DEF Writes, Leaves
  <2>3. CASE Commit(i, Put(db, i, Apply(db.issue[i], "retry_wait"))) /\ db.issue[i] # None
    <3>1. Based(i, db) /\ db.issue[i] \in ManagedIssues
      BY <2>3, BasedOn DEF Stored, Snapshots
    <3>. DEFINE z == Apply(db.issue[i], "retry_wait")
    <3>2. /\ z \in ManagedIssues /\ z.gen = db.issue[i].gen /\ z.answers = db.issue[i].answers
          /\ z.status \notin Unstarted
      <4>1. "retry_wait" \in Statuses /\ "retry_wait" \notin Unstarted
        BY Literals DEF Unstarted
      <4>. QED
        BY <3>1, <4>1, ApplyFields
    <3>. HIDE DEF z
    <3>3. Writes(i)
      BY <2>3, <3>1, <3>2, PutWrites DEF z
    <3>. QED
      BY <2>1, <3>3 DEF Leaves
  <2>. QED
    BY <2>1, <2>2, <2>3
<1>. QED
  BY <1>1, <1>2

\* The retry of a publication likewise.
LEMMA PublicationRetryWrites ==
  ASSUME Stored(db), NEW i \in Issues, NEW seen, SchedulePublicationRetry(i, seen)
  PROVE  Writes(i) /\ Leaves(i)
BY FailIssueWrites, ScheduleRetryWrites, Literals DEF SchedulePublicationRetry

\* completeIssue likewise.
LEMMA CompleteWrites ==
  ASSUME Stored(db), NEW i \in Issues, NEW seen, Complete(i, seen)
  PROVE  Writes(i) /\ Leaves(i)
<1>. DEFINE x == db.issue[i]
            d == IF Owns(db, i, seen) THEN [db EXCEPT !.active = None] ELSE db
            y == Apply(x, "completed")
            z == [y EXCEPT !.pr = TRUE, !.session = FALSE, !.pid = FALSE]
<1>1. CASE GiveUp(i)
  BY <1>1 DEF GiveUp, Writes, Leaves
<1>2. CASE /\ x # None /\ x.status \in CompleteFrom
           /\ Goto(i, "sync", None, "") /\ Commit(i, SetEffect(Put(d, i, z), i, "mark_done"))
  <2>1. Based(i, d) /\ x \in ManagedIssues
    BY <1>2, BasedOn DEF Stored, Snapshots
  <2>2. /\ y \in ManagedIssues /\ y.gen = x.gen /\ y.answers = x.answers /\ y.status = "completed"
    BY <2>1, ApplyFields, Literals
  <2>. HIDE DEF y
  <2>3. /\ z \in ManagedIssues /\ z.gen = x.gen /\ z.answers = x.answers /\ z.status = "completed"
    BY <2>2 DEF ManagedIssues
  <2>4. z.status # x.status /\ z.status \notin Unstarted
    BY <1>2, <2>3 DEF CompleteFrom, RetryFrom, Unstarted
  <2>. HIDE DEF z, d
  <2>. QED
    BY <1>2, <2>1, <2>3, <2>4, PutWrites, Literals DEF Leaves
<1>. QED
  BY <1>1, <1>2 DEF Complete

\* A run stopped over its worktree likewise.
LEMMA BlockWorkspaceWrites ==
  ASSUME Stored(db), NEW i \in Issues, NEW seen, BlockWorkspace(i, seen)
  PROVE  Writes(i) /\ Leaves(i)
<1>. DEFINE x == db.issue[i]
            held == IF Owns(db, i, seen) THEN Capture(db, i) ELSE db
            a == Apply(held.issue[i], "blocked")
            y == [a EXCEPT !.pid = FALSE]
            susp == Suspend("active", {"cancel"}, y)
            z == [y EXCEPT !.susp = susp]
<1>1. CASE GiveUp(i)
  BY <1>1 DEF GiveUp, Writes, Leaves
<1>2. CASE /\ x # None /\ x.status \in {"launching", "running", "resolving_conflict"}
           /\ Goto(i, "sync", None, "") /\ Commit(i, SetEffect(Put(held, i, z), i, "mark_blocked"))
  <2>1. Based(i, held)
    BY <1>2, BasedOn
  <2>. HIDE DEF held
  <2>2. /\ a \in ManagedIssues /\ a.gen = x.gen /\ a.answers = x.answers /\ a.status = "blocked"
    <3>1. "blocked" \in Statuses
      BY Literals
    <3>2. SameIssue(x, held.issue[i])
      BY <2>1 DEF Based
    <3>. QED
      BY <3>1, <3>2, ApplyFields DEF SameIssue
  <2>. HIDE DEF a
  <2>3. /\ y \in ManagedIssues /\ y.gen = x.gen /\ y.answers = x.answers /\ y.status = "blocked"
    BY <2>2 DEF ManagedIssues
  <2>. HIDE DEF y
  <2>4. susp \in Suspensions
    BY <2>3, SuspendTyped, Literals
  <2>. HIDE DEF susp
  <2>5. /\ z \in ManagedIssues /\ z.gen = x.gen /\ z.answers = x.answers /\ z.status = "blocked"
    BY <2>3, <2>4 DEF ManagedIssues
  <2>6. z.status # x.status /\ z.status \notin Unstarted
    BY <1>2, <2>5 DEF Unstarted
  <2>. HIDE DEF z
  <2>. QED
    BY <1>2, <2>1, <2>5, <2>6, PutWrites, Literals DEF Leaves
<1>. QED
  BY <1>1, <1>2 DEF BlockWorkspace

\* An answered launch that is refused likewise.
LEMMA RejectWrites ==
  ASSUME Stored(db), NEW i \in Issues, NEW seen, RejectAnswered(i, seen)
  PROVE  Writes(i) /\ Leaves(i)
<1>. DEFINE x == db.issue[i]
            d == [db EXCEPT !.active = None]
            a == Apply(x, "blocked")
            y == [a EXCEPT !.pid = FALSE]
            susp == Suspend("active", {"cancel"}, y)
            z == [y EXCEPT !.susp = susp]
<1>1. CASE Stop(i) /\ UNCHANGED db
  BY <1>1 DEF Writes, Leaves
<1>2. CASE /\ x # None /\ x.status = "launching" /\ Owns(db, i, seen) /\ Stop(i)
           /\ Commit(i, SetEffect(Put(d, i, z), i, "none"))
  <2>1. Based(i, d) /\ x \in ManagedIssues
    BY <1>2, BasedOn DEF Stored, Snapshots
  <2>2. /\ a \in ManagedIssues /\ a.gen = x.gen /\ a.answers = x.answers /\ a.status = "blocked"
    <3>1. "blocked" \in Statuses
      BY Literals
    <3>. QED
      BY <2>1, <3>1, ApplyFields
  <2>. HIDE DEF a
  <2>3. /\ y \in ManagedIssues /\ y.gen = x.gen /\ y.answers = x.answers /\ y.status = "blocked"
    BY <2>2 DEF ManagedIssues
  <2>. HIDE DEF y
  <2>4. susp \in Suspensions
    BY <2>3, SuspendTyped, Literals
  <2>. HIDE DEF susp
  <2>5. /\ z \in ManagedIssues /\ z.gen = x.gen /\ z.answers = x.answers /\ z.status = "blocked"
    BY <2>3, <2>4 DEF ManagedIssues
  <2>6. z.status # x.status /\ z.status \notin Unstarted
    BY <1>2, <2>5 DEF Unstarted
  <2>. HIDE DEF z, d
  <2>. QED
    BY <1>2, <2>1, <2>5, <2>6, PutWrites, Literals DEF Leaves
<1>. QED
  BY <1>1, <1>2 DEF RejectAnswered

\* Every refusal of a launch likewise.
LEMMA RefusedWrites ==
  ASSUME Stored(db), NEW i \in Issues, NEW seen, NEW final, LaunchRefused(i, seen, final)
  PROVE  Writes(i) /\ Leaves(i)
BY FailIssueWrites, ScheduleRetryWrites, RejectWrites DEF LaunchRefused

\* The transition of an issue that an update starts from.
LEMMA Transition ==
  ASSUME NEW i \in Issues, NEW d, Based(i, d), NEW to \in Statuses
  PROVE  /\ Apply(d.issue[i], to) \in ManagedIssues /\ Apply(d.issue[i], to).status = to
         /\ Apply(d.issue[i], to).gen = db.issue[i].gen
         /\ Apply(d.issue[i], to).answers = db.issue[i].answers
         /\ to # "completed" => Apply(d.issue[i], to).cont = d.issue[i].cont
<1>1. SameIssue(db.issue[i], d.issue[i])
  BY DEF Based
<1>. QED
  BY <1>1, ApplyFields DEF SameIssue

\* awaitChecks likewise.
LEMMA AwaitChecksWrites ==
  ASSUME Stored(db), NEW i \in Issues, NEW seen, AwaitChecks(i, seen)
  PROVE  Writes(i) /\ Leaves(i)
<1>. DEFINE x == db.issue[i]
            y == Apply(x, "awaiting_checks")
            z == [y EXCEPT !.pr = TRUE]
<1>1. CASE Stop(i) /\ UNCHANGED db
  BY <1>1 DEF Writes, Leaves
<1>2. CASE /\ x # None /\ x.status \in {"launching", "running", "resume_pending", "resolving_conflict"}
           /\ Stop(i) /\ Commit(i, SetEffect(Put(db, i, z), i, "none"))
  <2>1. Based(i, db) /\ "awaiting_checks" \in Statuses
    BY <1>2, BasedOn, Literals
  <2>2. /\ y \in ManagedIssues /\ y.gen = x.gen /\ y.answers = x.answers /\ y.status = "awaiting_checks"
    BY <2>1, Transition
  <2>. HIDE DEF y
  <2>3. /\ z \in ManagedIssues /\ z.gen = x.gen /\ z.answers = x.answers /\ z.status = "awaiting_checks"
    BY <2>2 DEF ManagedIssues
  <2>4. z.status # x.status /\ z.status \notin Unstarted
    BY <1>2, <2>3 DEF Unstarted
  <2>. HIDE DEF z
  <2>. QED
    BY <1>2, <2>1, <2>3, <2>4, PutWrites, Literals DEF Leaves
<1>. QED
  BY <1>1, <1>2 DEF AwaitChecks

\* A checkpoint that cannot be published likewise.
LEMMA FailCheckpointWrites ==
  ASSUME Stored(db), NEW i \in Issues, NEW seen, FailCheckpoint(i, seen)
  PROVE  Writes(i) /\ Leaves(i)
<1>. DEFINE x == db.issue[i]
            y == Apply(x, "failed")
            cont(digest) == IF y.cont = None THEN None ELSE [y.cont EXCEPT !.digest = digest]
            z(digest) == [y EXCEPT !.pid = FALSE, !.cont = cont(digest)]
<1>1. CASE GiveUp(i)
  BY <1>1 DEF GiveUp, Writes, Leaves
<1>2. CASE /\ x # None /\ x.status = "launching" /\ Goto(i, "sync", None, "")
           /\ \E digest \in Digests : Commit(i, SetEffect(Put(db, i, z(digest)), i, "mark_failed"))
  <2>1. PICK digest \in Digests : Commit(i, SetEffect(Put(db, i, z(digest)), i, "mark_failed"))
    BY <1>2
  <2>2. digest \in BOOLEAN
    BY <2>1 DEF Digests
  <2>3. Based(i, db) /\ "failed" \in Statuses
    BY <1>2, BasedOn, Literals
  <2>4. /\ y \in ManagedIssues /\ y.gen = x.gen /\ y.answers = x.answers /\ y.status = "failed"
    BY <2>3, Transition
  <2>. HIDE DEF y
  <2>5. cont(digest) \in Checkpoints \cup {None}
    BY <2>2, <2>4 DEF ManagedIssues, Checkpoints
  <2>. HIDE DEF cont
  <2>6. /\ z(digest) \in ManagedIssues /\ z(digest).gen = x.gen
        /\ z(digest).answers = x.answers /\ z(digest).status = "failed"
    BY <2>4, <2>5 DEF ManagedIssues
  <2>7. z(digest).status # x.status /\ z(digest).status \notin Unstarted
    BY <1>2, <2>6 DEF Unstarted
  <2>. HIDE DEF z
  <2>. QED
    BY <1>2, <2>1, <2>3, <2>6, <2>7, PutWrites, Literals DEF Leaves
<1>. QED
  BY <1>1, <1>2 DEF FailCheckpoint

\* A worker that stopped without a session likewise.
LEMMA SuspendWorkerWrites ==
  ASSUME Stored(db), NEW i \in Issues, NEW seen, SuspendWorker(i, seen)
  PROVE  Writes(i) /\ Leaves(i)
<1>. DEFINE x == db.issue[i]
            held == Capture(db, i)
            y == Apply(held.issue[i], "blocked")
            z(digest) == [y EXCEPT !.cont.digest = digest]
            susp(digest) == IF digest THEN Suspend("active", {"cancel", "resume"}, z(digest))
                            ELSE Suspend("quarantined", {"cancel"}, z(digest))
            w(digest) == [z(digest) EXCEPT !.susp = susp(digest)]
<1>1. CASE GiveUp(i)
  BY <1>1 DEF GiveUp, Writes, Leaves
<1>2. CASE /\ x # None /\ x.status = "running" /\ Owns(db, i, x) /\ Goto(i, "sync", None, "")
           /\ \E digest \in Digests : Commit(i, SetEffect(Put(held, i, w(digest)), i, "mark_blocked"))
  <2>1. PICK digest \in Digests : Commit(i, SetEffect(Put(held, i, w(digest)), i, "mark_blocked"))
    BY <1>2
  <2>2. digest \in BOOLEAN
    BY <2>1 DEF Digests
  <2>3. Based(i, held) /\ held.issue[i].cont # None /\ "blocked" \in Statuses
    BY <1>2, BasedOn, Literals
  <2>. HIDE DEF held
  <2>4. /\ y \in ManagedIssues /\ y.gen = x.gen /\ y.answers = x.answers /\ y.status = "blocked"
        /\ y.cont # None
    BY <2>3, Transition
  <2>. HIDE DEF y
  <2>5. y.cont \in Checkpoints
    BY <2>4 DEF ManagedIssues
  <2>6. [y.cont EXCEPT !.digest = digest] \in Checkpoints
    BY <2>2, <2>5 DEF Checkpoints
  <2>7. /\ z(digest) \in ManagedIssues /\ z(digest).gen = x.gen
        /\ z(digest).answers = x.answers /\ z(digest).status = "blocked"
    BY <2>4, <2>6 DEF ManagedIssues
  <2>. HIDE DEF z
  <2>8. susp(digest) \in Suspensions
    BY <2>7, SuspendTyped, Literals
  <2>. HIDE DEF susp
  <2>9. /\ w(digest) \in ManagedIssues /\ w(digest).gen = x.gen
        /\ w(digest).answers = x.answers /\ w(digest).status = "blocked"
    BY <2>7, <2>8 DEF ManagedIssues
  <2>10. w(digest).status # x.status /\ w(digest).status \notin Unstarted
    BY <1>2, <2>9 DEF Unstarted
  <2>. HIDE DEF w
  <2>. QED
    BY <1>2, <2>1, <2>3, <2>9, <2>10, PutWrites, Literals DEF Leaves
<1>. QED
  BY <1>1, <1>2 DEF SuspendWorker

\* A pull request that is no longer the issue's likewise.
LEMMA BlockPullRequestWrites ==
  ASSUME Stored(db), NEW i \in Issues, NEW seen, seen.status \in {"awaiting_checks", "awaiting_merge"},
         BlockPullRequest(i, seen)
  PROVE  Writes(i) /\ Leaves(i)
<1>. DEFINE x == db.issue[i]
            y == Apply(x, "blocked")
            z == [y EXCEPT !.pr = TRUE, !.pid = FALSE]
<1>1. CASE GiveUp(i)
  BY <1>1 DEF GiveUp, Writes, Leaves
<1>2. CASE /\ x # None /\ x.status \in {"awaiting_checks", "awaiting_merge"}
           /\ Goto(i, "sync", None, "") /\ Commit(i, SetEffect(Put(db, i, z), i, "mark_blocked"))
  <2>1. Based(i, db) /\ "blocked" \in Statuses
    BY <1>2, BasedOn, Literals
  <2>2. /\ y \in ManagedIssues /\ y.gen = x.gen /\ y.answers = x.answers /\ y.status = "blocked"
    BY <2>1, Transition
  <2>. HIDE DEF y
  <2>3. /\ z \in ManagedIssues /\ z.gen = x.gen /\ z.answers = x.answers /\ z.status = "blocked"
    BY <2>2 DEF ManagedIssues
  <2>4. z.status # x.status /\ z.status \notin Unstarted
    BY <1>2, <2>3 DEF Unstarted
  <2>. HIDE DEF z
  <2>. QED
    BY <1>2, <2>1, <2>3, <2>4, PutWrites, Literals DEF Leaves
<1>. QED
  BY <1>1, <1>2 DEF BlockPullRequest

\* Failed checks likewise.
LEMMA FailChecksWrites ==
  ASSUME Stored(db), NEW i \in Issues, NEW seen, seen.status \in {"awaiting_checks", "awaiting_merge"},
         FailChecks(i, seen)
  PROVE  Writes(i) /\ Leaves(i)
<1>. DEFINE x == db.issue[i]
            held == IF Owns(db, i, seen) THEN Capture(db, i) ELSE db
            y == Apply(held.issue[i], "failed")
            z == [y EXCEPT !.session = FALSE]
<1>1. CASE GiveUp(i)
  BY <1>1 DEF GiveUp, Writes, Leaves
<1>2. CASE /\ x # None /\ x.status \in {"awaiting_checks", "awaiting_merge"}
           /\ Goto(i, "sync", None, "") /\ Commit(i, SetEffect(Put(held, i, z), i, "mark_failed"))
  <2>1. Based(i, held) /\ "failed" \in Statuses
    BY <1>2, BasedOn, Literals
  <2>. HIDE DEF held
  <2>2. /\ y \in ManagedIssues /\ y.gen = x.gen /\ y.answers = x.answers /\ y.status = "failed"
    BY <2>1, Transition
  <2>. HIDE DEF y
  <2>3. /\ z \in ManagedIssues /\ z.gen = x.gen /\ z.answers = x.answers /\ z.status = "failed"
    BY <2>2 DEF ManagedIssues
  <2>4. z.status # x.status /\ z.status \notin Unstarted
    BY <1>2, <2>3 DEF Unstarted
  <2>. HIDE DEF z
  <2>. QED
    BY <1>2, <2>1, <2>3, <2>4, PutWrites, Literals DEF Leaves
<1>. QED
  BY <1>1, <1>2 DEF FailChecks

\* What is asked of the operator is beside the point.
LEMMA OnlyRequests ==
  ASSUME NEW i \in Issues, NEW e, Confined(db, i, e), Moves(i, e), NEW asked \in SUBSET Requests,
         Commit(i, [e EXCEPT !.requests = asked])
  PROVE  Writes(i)
<1>. DEFINE f == [e EXCEPT !.requests = asked]
<1>1. e \in Snapshots
  BY DEF Confined
<1>2. /\ f \in Snapshots /\ f.issue = e.issue /\ f.active = e.active /\ f.effect = e.effect
      /\ f.quarantined = e.quarantined
  BY <1>1 DEF Snapshots
<1>. HIDE DEF f
<1>3. Confined(db, i, f)
  BY <1>2 DEF Confined
<1>4. Moves(i, f)
  BY <1>2 DEF Moves
<1>. QED
  BY <1>3, <1>4 DEF f, Commit, Writes

\* A worker's question likewise: the request and the status go in together.
LEMMA AskOperatorWrites ==
  ASSUME Stored(db), NEW i \in Issues, NEW seen, AskOperator(i, seen)
  PROVE  Writes(i) /\ Leaves(i)
<1>. DEFINE x == db.issue[i]
            held == Capture(db, i)
            y == Apply(held.issue[i], "needs_input")
            r == [issue |-> i, id |-> x.gen, run |-> x.run, status |-> "pending"]
            z(digest) == [y EXCEPT !.cont.kind = "needs_input", !.cont.digest = digest]
            e(digest) == SetEffect(Put(held, i, z(digest)), i, "mark_needs_input")
<1>1. CASE GiveUp(i)
  BY <1>1 DEF GiveUp, Writes, Leaves
<1>2. CASE ScheduleRetry(i, seen)
  BY <1>2, ScheduleRetryWrites
<1>3. CASE /\ x # None /\ x.status = "running" /\ Owns(db, i, seen) /\ Goto(i, "sync", None, "")
           /\ \E digest \in Digests : Commit(i, [e(digest) EXCEPT !.requests = @ \cup {r}])
  <2>1. PICK digest \in Digests : Commit(i, [e(digest) EXCEPT !.requests = @ \cup {r}])
    BY <1>3
  <2>2. digest \in BOOLEAN
    BY <2>1 DEF Digests
  <2>3. Based(i, held) /\ held.issue[i].cont # None /\ "needs_input" \in Statuses
    BY <1>3, BasedOn, Literals
  <2>4. r \in Requests
    <3>1. x \in ManagedIssues
      BY <1>3 DEF Stored, Snapshots
    <3>2. x.gen \in Nat /\ x.run \in Nat
      BY <3>1 DEF ManagedIssues
    <3>. QED
      BY <3>2 DEF Requests
  <2>. HIDE DEF held
  <2>5. /\ y \in ManagedIssues /\ y.gen = x.gen /\ y.answers = x.answers /\ y.status = "needs_input"
        /\ y.cont # None
    BY <2>3, Transition
  <2>. HIDE DEF y
  <2>6. y.cont \in Checkpoints
    BY <2>5 DEF ManagedIssues
  <2>7. [y.cont EXCEPT !.kind = "needs_input", !.digest = digest] \in Checkpoints
    BY <2>2, <2>6 DEF Checkpoints
  <2>8. z(digest) = [y EXCEPT !.cont = [y.cont EXCEPT !.kind = "needs_input", !.digest = digest]]
    BY <2>5, <2>6 DEF ManagedIssues, Checkpoints
  <2>9. /\ z(digest) \in ManagedIssues /\ z(digest).gen = x.gen
        /\ z(digest).answers = x.answers /\ z(digest).status = "needs_input"
    BY <2>5, <2>7, <2>8 DEF ManagedIssues
  <2>10. z(digest).status # x.status /\ z(digest).status \notin Unstarted
    BY <1>3, <2>9 DEF Unstarted
  <2>. HIDE DEF z
  <2>11. Confined(db, i, e(digest)) /\ Moves(i, e(digest))
    BY <1>3, <2>3, <2>9, <2>10, PutMoves, Literals
  <2>. HIDE DEF e, r
  <2>12. e(digest).requests \cup {r} \in SUBSET Requests
    BY <2>4, <2>11 DEF Confined, Snapshots
  <2>13. Writes(i)
    BY <2>1, <2>11, <2>12, OnlyRequests
  <2>. QED
    BY <1>3, <2>13 DEF Leaves
<1>. QED
  BY <1>1, <1>2, <1>3 DEF AskOperator

\* Reconciliation keeps the status, completes, blocks or retries.
LEMMA ReconciledIs ==
  ASSUME NEW i \in Issues, db.issue[i] \in ManagedIssues, NEW valid
  PROVE  /\ ReconciledStatus(i, valid) \in Statuses
         /\ \/ ReconciledStatus(i, valid) = db.issue[i].status
            \/ ReconciledStatus(i, valid) \in {"completed", "blocked", "retry_wait"}
<1>. DEFINE to == ReconciledStatus(i, valid)
<1>1. to = db.issue[i].status \/ to \in {"completed", "blocked", "retry_wait"}
  BY DEF ReconciledStatus
<1>2. db.issue[i].status \in Statuses
  BY DEF ManagedIssues
<1>. QED
  BY <1>1, <1>2, Literals

\* The reconciliation of the start writes the issue it looks at.
LEMMA ReconciliationWrites ==
  ASSUME Stored(db), NEW i \in Issues, db.issue[i] # None, NEW valid, ApplyReconciliation(i, valid)
  PROVE  Writes(i)
<1>. DEFINE x == db.issue[i]
            to == ReconciledStatus(i, valid)
            kept == IF db.effect[i] = None THEN "none" ELSE db.effect[i].kind
            kind == CASE to = "completed" /\ to # x.status -> "mark_done"
                      [] to = "blocked" /\ to # x.status -> "mark_blocked"
                      [] OTHER -> kept
            a == Apply(x, to)
            pr == a.pr \/ (x.status \notin Terminal /\ remote[i] # "none")
            y == [a EXCEPT !.pid = FALSE, !.pr = pr]
            p == Put(db, i, y)
<1>1. Based(i, db) /\ x \in ManagedIssues
  BY BasedOn DEF Stored, Snapshots
<1>2. to \in Statuses /\ (to = x.status \/ to \in {"completed", "blocked", "retry_wait"})
  BY <1>1, ReconciledIs
<1>3. db.effect[i] \in Effects \cup {None}
  BY DEF Stored, Snapshots
<1>4. kept \in EffectKinds \cup {"none"} /\ kind \in EffectKinds \cup {"none"}
  BY <1>3, Literals DEF Effects
<1>5. Commit(i, SetEffect(p, i, kind))
  BY DEF ApplyReconciliation
<1>6. to = x.status => kind = kept
  OBVIOUS
<1>. HIDE DEF to, kind
<1>7. /\ a \in ManagedIssues /\ a.gen = x.gen /\ a.answers = x.answers /\ a.status = to
      /\ a.run = x.run
  BY <1>1, <1>2, ApplyFields
<1>. HIDE DEF a
<1>8. pr \in BOOLEAN
  BY <1>7 DEF ManagedIssues
<1>. HIDE DEF pr
<1>9. /\ y \in ManagedIssues /\ y.gen = x.gen /\ y.answers = x.answers /\ y.status = to
      /\ y.run = x.run
  BY <1>7, <1>8 DEF ManagedIssues
<1>10. y.status \in Unstarted => x.status \in Unstarted
  BY <1>2, <1>9 DEF Unstarted
<1>. HIDE DEF y
<1>11. CASE to # x.status
  <2>. HIDE DEF p
  <2>1. y.status # x.status
    BY <1>9, <1>11
  <2>. QED
    BY <1>1, <1>4, <1>5, <1>9, <1>10, <2>1, PutWrites DEF p
<1>12. CASE to = x.status
  <2>. DEFINE e == SetEffect(p, i, kept)
  <2>1. Confined(db, i, p) /\ Moves(i, p)
    BY <1>1, <1>9, <1>10, PutMoves
  <2>2. /\ p \in Snapshots /\ p.issue[i] = y /\ p.effect = db.effect
    BY <1>1, <1>9, PutFields DEF Based
  <2>3. p.issue[i] # None
    BY <2>1 DEF Confined
  <2>4. db.effect[i] # None => db.effect[i].run = x.run /\ db.effect[i].kind \in EffectKinds
    <3>1. ValidEffect(db, i)
      BY DEF Stored, Valid
    <3>. QED
      BY <1>3, <3>1 DEF ValidEffect, Effects
  <2>. HIDE DEF p
  <2>5. "none" \notin EffectKinds
    BY DEF EffectKinds, DemandedStatus
  <2>6. /\ e \in Snapshots /\ e.issue = p.issue /\ e.active = p.active /\ e.effect[i] = p.effect[i]
        /\ e.quarantined = p.quarantined /\ \A k \in Issues \ {i} : e.effect[k] = p.effect[k]
    <3>1. \/ kept = "none" /\ p.effect[i] = None
          \/ /\ p.effect[i] # None /\ kept # "none" /\ p.effect[i].kind = kept
             /\ p.effect[i].run = p.issue[i].run
      BY <1>9, <2>2, <2>4, <2>5
    <3>. HIDE DEF kept
    <3>. QED
      BY <1>4, <2>2, <2>3, <3>1, SetEffectFields
  <2>7. Commit(i, e)
    BY <1>5, <1>6, <1>12
  <2>. HIDE DEF e
  <2>8. Confined(db, i, e)
    BY <2>1, <2>6 DEF Confined
  <2>9. Moves(i, e)
    BY <2>1, <2>2, <2>6 DEF Moves
  <2>. QED
    BY <2>7, <2>8, <2>9 DEF Commit, Writes
<1>. QED
  BY <1>11, <1>12

-----------------------------------------------------------------------------
(* The other updates of the jobs, of the start and of the operator. *)

\* An issue taken up for the first time has had no worker.
LEMMA StartWrites ==
  ASSUME Stored(db), NEW i \in Issues, db.issue[i] = None, db.quarantined[i] = None, db.active = None,
         Commit(i, [Put(db, i, [NewIssue EXCEPT !.gen = 1, !.run = 1])
                    EXCEPT !.active = Execution(i, [NewIssue EXCEPT !.gen = 1, !.run = 1])])
  PROVE  Writes(i)
<1>. DEFINE x == [NewIssue EXCEPT !.gen = 1, !.run = 1]
            s == Slotted(db, i, x)
<1>1. NewIssue \in ManagedIssues /\ NewIssue.answers = <<>> /\ NewIssue.status = "claiming"
  <2>1. <<>> \in Seq(Nat)
    OBVIOUS
  <2>. QED
    BY <2>1, Literals DEF NewIssue, ManagedIssues
<1>2. x \in ManagedIssues /\ x.answers = <<>> /\ x.status = "claiming"
  BY <1>1 DEF ManagedIssues
<1>3. Commit(i, s)
  BY DEF Slotted
<1>. HIDE DEF x
<1>4. /\ s \in Snapshots /\ s.issue[i] = x /\ \A k \in Issues \ {i} : s.issue[k] = db.issue[k]
      /\ s.active.issue = i /\ s.effect = db.effect /\ s.quarantined = db.quarantined
  BY <1>2, SlottedFields DEF Stored
<1>. HIDE DEF s
<1>5. x # None
  BY <1>2, NoneAssumption
<1>6. Confined(db, i, s)
  BY <1>4, <1>5 DEF Confined
<1>7. Moves(i, s)
  BY <1>2, <1>4 DEF Moves
<1>. QED
  BY <1>3, <1>6, <1>7 DEF Commit, Writes

\* An issue that takes the slot for a generation of its own.
LEMMA SlotMoves ==
  ASSUME Stored(db), NEW i \in Issues, db.issue[i] # None, db.active = None \/ db.active.issue = i,
         NEW d, d = Resume(db, i) \/ d = Transfer(db, i)
  PROVE  /\ d \in Snapshots
         /\ d.issue[i] \in ManagedIssues /\ d.issue[i].gen = db.issue[i].gen + 1
         /\ d.issue[i].answers = db.issue[i].answers /\ d.issue[i].status = db.issue[i].status
         /\ d.issue[i].cont = db.issue[i].cont /\ d.issue[i].susp = db.issue[i].susp
         /\ \A z \in ManagedIssues :
              z.gen = d.issue[i].gen /\ z.answers = d.issue[i].answers /\ z.status # "running" =>
                /\ Confined(db, i, Put(d, i, z)) /\ Moves(i, Put(d, i, z))
                /\ \A kind \in EffectKinds \cup {"none"} :
                     z.status # db.issue[i].status =>
                       /\ Confined(db, i, SetEffect(Put(d, i, z), i, kind))
                       /\ Moves(i, SetEffect(Put(d, i, z), i, kind))
<1>. DEFINE x == db.issue[i]
<1>1. db \in Snapshots /\ x \in ManagedIssues /\ x.gen \in Nat
  BY DEF Stored, Snapshots, ManagedIssues
<1>2. PICK run \in Nat : d = Slotted(db, i, Renumbered(x, run))
  <2>1. /\ Resume(db, i) = Slotted(db, i, Renumbered(x, x.run))
        /\ Transfer(db, i) = Slotted(db, i, Renumbered(x, x.gen + 1))
        /\ x.run \in Nat /\ x.gen + 1 \in Nat
    BY <1>1, ResumeIs
  <2>. QED
    BY <2>1
<1>. DEFINE w == Renumbered(x, run)
<1>3. /\ w \in ManagedIssues /\ w.gen = x.gen + 1 /\ w.answers = x.answers /\ w.status = x.status
      /\ w.cont = x.cont /\ w.susp = x.susp
  BY <1>1, <1>2, RenumberedFields
<1>. HIDE DEF w
<1>4. /\ d \in Snapshots /\ d.issue[i] = w /\ \A k \in Issues \ {i} : d.issue[k] = db.issue[k]
      /\ d.active.issue = i /\ d.effect = db.effect /\ d.quarantined = db.quarantined
  BY <1>1, <1>2, <1>3, SlottedFields DEF w
<1>5. ASSUME NEW z \in ManagedIssues, z.gen = d.issue[i].gen, z.answers = d.issue[i].answers,
             z.status # "running"
      PROVE  /\ Confined(db, i, Put(d, i, z)) /\ Moves(i, Put(d, i, z))
             /\ \A kind \in EffectKinds \cup {"none"} :
                  z.status # x.status =>
                    /\ Confined(db, i, SetEffect(Put(d, i, z), i, kind))
                    /\ Moves(i, SetEffect(Put(d, i, z), i, kind))
  <2>. DEFINE p == Put(d, i, z)
  <2>1. z # None /\ z.gen = x.gen + 1 /\ z.answers = x.answers
    BY <1>3, <1>4, <1>5, NoneAssumption
  <2>2. /\ p \in Snapshots /\ p.issue[i] = z /\ \A k \in Issues \ {i} : p.issue[k] = db.issue[k]
        /\ p.active.issue = i /\ p.effect = db.effect /\ p.quarantined = db.quarantined
    BY <1>4, <1>5, PutFields
  <2>. HIDE DEF p
  <2>3. Confined(db, i, p)
    BY <2>1, <2>2 DEF Confined
  <2>4. Moves(i, p)
    BY <1>1, <1>5, <2>1, <2>2 DEF Moves
  <2>5. ASSUME NEW kind \in EffectKinds \cup {"none"}, z.status # x.status
        PROVE  Confined(db, i, SetEffect(p, i, kind)) /\ Moves(i, SetEffect(p, i, kind))
    <3>. DEFINE e == SetEffect(p, i, kind)
    <3>1. /\ e \in Snapshots /\ e.issue = p.issue /\ e.active = p.active
          /\ e.quarantined = p.quarantined /\ \A k \in Issues \ {i} : e.effect[k] = p.effect[k]
      BY <2>1, <2>2, SetEffectFields
    <3>. HIDE DEF e
    <3>2. Confined(db, i, e)
      BY <2>1, <2>2, <2>3, <3>1 DEF Confined
    <3>3. Moves(i, e)
      BY <1>1, <1>5, <2>1, <2>2, <2>5, <3>1 DEF Moves
    <3>. QED
      BY <3>2, <3>3 DEF e
  <2>. QED
    BY <2>3, <2>4, <2>5 DEF p
<1>. QED
  BY <1>3, <1>4, <1>5

\* A launch out of a waiting status takes a generation of its own.
LEMMA ResumeWrites ==
  ASSUME Stored(db), NEW i \in Issues, db.issue[i] # None, db.active = None,
         db.issue[i].status \in {"resume_pending", "retry_wait"},
         Commit(i, Put(Resume(db, i), i, Launch(Resume(db, i).issue[i])))
  PROVE  Writes(i)
<1>. DEFINE d == Resume(db, i)
            z == Launch(d.issue[i])
<1>1. /\ d.issue[i] \in ManagedIssues /\ d.issue[i].status = db.issue[i].status
  BY SlotMoves
<1>2. d.issue[i].status \in LaunchSources
  BY <1>1 DEF LaunchSources
<1>3. /\ z \in ManagedIssues /\ z.status = "launching" /\ z.gen = d.issue[i].gen
      /\ z.answers = d.issue[i].answers
  <2>. HIDE DEF d
  <2>. QED
    BY <1>1, <1>2, LaunchFields
<1>4. Commit(i, Put(d, i, z))
  OBVIOUS
<1>. HIDE DEF z
<1>5. Confined(db, i, Put(d, i, z)) /\ Moves(i, Put(d, i, z))
  BY <1>3, SlotMoves
<1>. QED
  BY <1>4, <1>5 DEF Commit, Writes

\* A fresh run takes the slot over with a generation of its own.
LEMMA StartRunWrites ==
  ASSUME Stored(db), NEW i \in Issues, NEW attempts \in Nat, db.issue[i] # None,
         db.issue[i].status = "launching", Owns(db, i, db.issue[i]),
         Commit(i, Put(Transfer(db, i), i,
                       [Transfer(db, i).issue[i] EXCEPT !.attempts = attempts, !.session = FALSE]))
  PROVE  Writes(i) /\ Becomes(i, "launching")
<1>. DEFINE d == Transfer(db, i)
            w == d.issue[i]
            z == [w EXCEPT !.attempts = attempts, !.session = FALSE]
<1>1. db.active.issue = i
  BY DEF Owns, Execution
<1>2. w \in ManagedIssues /\ w.status = "launching"
  BY <1>1, SlotMoves
<1>3. Commit(i, Put(d, i, z))
  OBVIOUS
<1>. HIDE DEF w
<1>4. /\ z \in ManagedIssues /\ z.status = "launching" /\ z.gen = w.gen /\ z.answers = w.answers
  BY <1>2 DEF ManagedIssues
<1>. HIDE DEF z
<1>5. Confined(db, i, Put(d, i, z)) /\ Moves(i, Put(d, i, z))
  BY <1>1, <1>4, SlotMoves DEF w
<1>6. Put(d, i, z).issue[i] = z
  BY <1>1, <1>4, SlotMoves, PutFields
<1>7. Becomes(i, "launching")
  BY <1>3, <1>4, <1>5, <1>6, CommitBecomes
<1>. QED
  BY <1>3, <1>5, <1>7 DEF Commit, Writes

\* Updates that keep the generation and the answers, given by what they put back.
LEMMA PlainWrites ==
  ASSUME Stored(db), NEW i \in Issues, db.issue[i] # None
  PROVE  /\ db.issue[i].status = "claiming"
              /\ Commit(i, Put(db, i, [Apply(db.issue[i], "claimed") EXCEPT !.tree = TRUE])) => Writes(i)
         /\ db.issue[i].status = "claimed" /\ Commit(i, Put(db, i, Launch(db.issue[i]))) =>
              Writes(i) /\ Becomes(i, "launching")
         /\ \A conts \in Nat :
              Commit(i, Put(db, i, [db.issue[i] EXCEPT !.conts = conts])) =>
                Writes(i) /\ Becomes(i, db.issue[i].status)
         /\ \A session \in BOOLEAN :
              Commit(i, Put(db, i, [db.issue[i] EXCEPT !.session = session])) =>
                Writes(i) /\ Becomes(i, db.issue[i].status)
         /\ Commit(i, Put(db, i, [Apply(db.issue[i], "awaiting_merge") EXCEPT !.pr = TRUE])) => Writes(i)
         /\ Commit(i, Put(db, i, [db.issue[i] EXCEPT !.pid = FALSE])) => Writes(i)
<1>. DEFINE x == db.issue[i]
<1>1. Based(i, db) /\ x \in ManagedIssues
  BY BasedOn DEF Stored, Snapshots
<1>2. ASSUME NEW z \in ManagedIssues, z.gen = x.gen, z.answers = x.answers,
             z.status \in Unstarted => x.status \in Unstarted, Commit(i, Put(db, i, z))
      PROVE  Writes(i) /\ Becomes(i, z.status)
  BY <1>1, <1>2, PutWrites
<1>3. ASSUME x.status = "claiming",
             Commit(i, Put(db, i, [Apply(x, "claimed") EXCEPT !.tree = TRUE]))
      PROVE  Writes(i)
  <2>. DEFINE y == Apply(x, "claimed")
              z == [y EXCEPT !.tree = TRUE]
  <2>1. /\ y \in ManagedIssues /\ y.gen = x.gen /\ y.answers = x.answers
    BY <1>1, Transition, Literals
  <2>. HIDE DEF y
  <2>2. z \in ManagedIssues /\ z.gen = x.gen /\ z.answers = x.answers
    BY <2>1 DEF ManagedIssues
  <2>3. x.status \in Unstarted
    BY <1>3 DEF Unstarted
  <2>4. Commit(i, Put(db, i, z))
    BY <1>3 DEF y
  <2>. HIDE DEF z
  <2>. QED
    BY <1>2, <2>2, <2>3, <2>4
<1>4. ASSUME x.status = "claimed", Commit(i, Put(db, i, Launch(x)))
      PROVE  Writes(i) /\ Becomes(i, "launching")
  <2>1. x.status \in LaunchSources /\ x.status \in Unstarted
    BY <1>4 DEF LaunchSources, Unstarted
  <2>2. /\ Launch(x) \in ManagedIssues /\ Launch(x).gen = x.gen /\ Launch(x).answers = x.answers
        /\ Launch(x).status = "launching"
    BY <1>1, <2>1, LaunchFields
  <2>. QED
    BY <1>2, <1>4, <2>1, <2>2
<1>5. ASSUME NEW conts \in Nat, Commit(i, Put(db, i, [x EXCEPT !.conts = conts]))
      PROVE  Writes(i) /\ Becomes(i, x.status)
  <2>. DEFINE z == [x EXCEPT !.conts = conts]
  <2>1. z \in ManagedIssues /\ z.gen = x.gen /\ z.answers = x.answers /\ z.status = x.status
    <3>. HIDE DEF x
    <3>. QED
      BY <1>1 DEF ManagedIssues
  <2>2. Commit(i, Put(db, i, z))
    BY <1>5
  <2>. HIDE DEF z
  <2>. QED
    BY <1>2, <2>1, <2>2
<1>6. ASSUME NEW session \in BOOLEAN, Commit(i, Put(db, i, [x EXCEPT !.session = session]))
      PROVE  Writes(i) /\ Becomes(i, x.status)
  <2>. DEFINE z == [x EXCEPT !.session = session]
  <2>1. z \in ManagedIssues /\ z.gen = x.gen /\ z.answers = x.answers /\ z.status = x.status
    <3>. HIDE DEF x
    <3>. QED
      BY <1>1 DEF ManagedIssues
  <2>2. Commit(i, Put(db, i, z))
    BY <1>6
  <2>. HIDE DEF z
  <2>. QED
    BY <1>2, <2>1, <2>2
<1>7. ASSUME Commit(i, Put(db, i, [Apply(x, "awaiting_merge") EXCEPT !.pr = TRUE]))
      PROVE  Writes(i)
  <2>. DEFINE y == Apply(x, "awaiting_merge")
              z == [y EXCEPT !.pr = TRUE]
  <2>1. /\ y \in ManagedIssues /\ y.gen = x.gen /\ y.answers = x.answers /\ y.status = "awaiting_merge"
    BY <1>1, Transition, Literals
  <2>. HIDE DEF y
  <2>2. /\ z \in ManagedIssues /\ z.gen = x.gen /\ z.answers = x.answers
        /\ z.status = "awaiting_merge"
    BY <2>1 DEF ManagedIssues
  <2>3. z.status \notin Unstarted
    BY <2>2 DEF Unstarted
  <2>4. Commit(i, Put(db, i, z))
    BY <1>7 DEF y
  <2>. HIDE DEF z
  <2>. QED
    BY <1>2, <2>2, <2>3, <2>4
<1>8. ASSUME Commit(i, Put(db, i, [x EXCEPT !.pid = FALSE]))
      PROVE  Writes(i)
  <2>. DEFINE z == [x EXCEPT !.pid = FALSE]
  <2>1. z \in ManagedIssues /\ z.gen = x.gen /\ z.answers = x.answers /\ z.status = x.status
    <3>. HIDE DEF x
    <3>. QED
      BY <1>1 DEF ManagedIssues
  <2>2. Commit(i, Put(db, i, z))
    BY <1>8
  <2>. HIDE DEF z
  <2>. QED
    BY <1>2, <2>1, <2>2
<1>. QED
  BY <1>3, <1>4, <1>5, <1>6, <1>7, <1>8

\* Stopping a worker of a dead supervisor writes that issue.
LEMMA StopWorkerWrites ==
  ASSUME Stored(db), NEW i \in Issues, StopWorker(i)
  PROVE  Writes(i)
<1>. DEFINE x == db.issue[i]
            d == Capture(db, i)
            z == Apply(d.issue[i], "retry_wait")
<1>1. CASE x # None /\ Commit(i, Put(db, i, [x EXCEPT !.pid = FALSE]))
  BY <1>1, PlainWrites
<1>2. CASE x # None /\ Owns(db, i, x) /\ Commit(i, Put(d, i, z))
  <2>1. Based(i, d) /\ "retry_wait" \in Statuses /\ "retry_wait" \notin Unstarted
    BY <1>2, BasedOn, Literals DEF Unstarted
  <2>. HIDE DEF d
  <2>2. /\ z \in ManagedIssues /\ z.gen = x.gen /\ z.answers = x.answers /\ z.status = "retry_wait"
    BY <2>1, Transition
  <2>. HIDE DEF z
  <2>. QED
    BY <1>2, <2>1, <2>2, PutWrites
<1>. QED
  BY <1>1, <1>2 DEF StopWorker

\* An effect leaves an issue that stays as it is only once it was called.
LEMMA SyncedWrites ==
  ASSUME Stored(db), NEW i \in Issues, db.issue[i] # None, db.effect[i] # None,
         [issue |-> i, effect |-> db.effect[i]] \in called',
         Commit(i, [db EXCEPT !.effect[i] = None])
  PROVE  Writes(i)
<1>. DEFINE d == [db EXCEPT !.effect[i] = None]
<1>1. db \in Snapshots /\ db.issue[i] \in ManagedIssues
  BY DEF Stored, Snapshots
<1>2. /\ d \in Snapshots /\ d.issue = db.issue /\ d.active = db.active
      /\ d.quarantined = db.quarantined /\ \A k \in Issues \ {i} : d.effect[k] = db.effect[k]
  BY <1>1 DEF Snapshots
<1>3. db.issue[i].gen \in Nat
  BY <1>1 DEF ManagedIssues
<1>. HIDE DEF d
<1>4. Confined(db, i, d)
  BY <1>2 DEF Confined
<1>5. Moves(i, d)
  BY <1>2, <1>3 DEF Moves
<1>. QED
  BY <1>4, <1>5 DEF d, Commit, Writes

\* An answer is taken up once.
LEMMA PrepareWrites ==
  ASSUME Stored(db), NEW r \in Requests, PrepareAnswer(r)
  PROVE  Writes(r.issue)
<1>. DEFINE i == r.issue
            x == db.issue[i]
            a == Apply(x, "resume_pending")
            answers == Append(a.answers, r.id)
            y == [a EXCEPT !.answers = answers]
            d == Put(db, i, y)
            after == IF db.effect[i] # None /\ db.effect[i].kind = "mark_needs_input"
                     THEN [d EXCEPT !.effect[i] = None] ELSE d
<1>1. i \in Issues /\ r.id \in Nat
  BY DEF Requests
<1>2. x \in ManagedIssues /\ x.status = "needs_input" /\ ~Delivered(x, r)
  BY <1>1 DEF PrepareAnswer, CanPrepare, Stored, Snapshots
<1>3. Based(i, db)
  BY <1>1, <1>2, BasedOn, NoneAssumption
<1>4. /\ a \in ManagedIssues /\ a.gen = x.gen /\ a.answers = x.answers /\ a.status = "resume_pending"
  BY <1>1, <1>3, Transition, Literals
<1>5. Commit(i, after)
  BY DEF PrepareAnswer
<1>6. x.answers \in Seq(Nat)
  BY <1>2 DEF ManagedIssues
<1>. HIDE DEF a
<1>7. answers \in Seq(Nat) /\ answers = Append(x.answers, r.id)
  BY <1>1, <1>4, <1>6
<1>. HIDE DEF answers
<1>8. y \in ManagedIssues /\ y.gen = x.gen /\ y.answers = answers /\ y.status = "resume_pending"
  BY <1>4, <1>7 DEF ManagedIssues
<1>. HIDE DEF y
<1>9. /\ d \in Snapshots /\ d.issue[i] = y /\ d.active = db.active /\ d.quarantined = db.quarantined
      /\ d.effect = db.effect /\ \A k \in Issues \ {i} : d.issue[k] = db.issue[k]
  BY <1>1, <1>3, <1>8, PutFields DEF Based
<1>. HIDE DEF d
<1>10. /\ after \in Snapshots /\ after.issue = d.issue /\ after.active = d.active
       /\ after.quarantined = d.quarantined /\ \A k \in Issues \ {i} : after.effect[k] = d.effect[k]
  BY <1>1, <1>9 DEF Snapshots
<1>. HIDE DEF after
<1>11. y # None
  BY <1>8, NoneAssumption
<1>12. Confined(db, i, after)
  BY <1>9, <1>10, <1>11 DEF Confined
<1>13. \A k \in DOMAIN x.answers : x.answers[k] # r.id
  BY <1>2 DEF Delivered
<1>14. y.status \notin Unstarted /\ y.status # "running" /\ y.status # x.status
  BY <1>2, <1>8 DEF Unstarted
<1>15. y.gen >= x.gen
  <2>1. x.gen \in Nat
    BY <1>2 DEF ManagedIssues
  <2>. HIDE DEF x
  <2>. QED
    BY <1>8, <2>1
<1>16. Moves(i, after)
  <2>1. after.issue[i] = y /\ x # None
    BY <1>2, <1>9, <1>10, NoneAssumption
  <2>. HIDE DEF i
  <2>. QED
    BY <1>1, <1>7, <1>8, <1>13, <1>14, <1>15, <2>1 DEF Moves
<1>. QED
  BY <1>5, <1>12, <1>16 DEF Commit, Writes

\* The operator adopting a merged pull request writes that issue.
LEMMA AdoptWrites ==
  ASSUME Stored(db), NEW i \in Issues, db.issue[i] # None,
         db.issue[i].status \in {"blocked", "failed"}, Commit(i, AdoptMerged(i))
  PROVE  Writes(i)
<1>. DEFINE x == db.issue[i]
            a == Apply(x, "completed")
            y == [a EXCEPT !.pr = TRUE]
<1>1. Based(i, db) /\ "completed" \in Statuses
  BY BasedOn, Literals
<1>2. a \in ManagedIssues /\ a.gen = x.gen /\ a.answers = x.answers /\ a.status = "completed"
  BY <1>1, Transition
<1>3. Commit(i, SetEffect(Put(db, i, y), i, "mark_done"))
  BY DEF AdoptMerged
<1>. HIDE DEF a
<1>4. y \in ManagedIssues /\ y.gen = x.gen /\ y.answers = x.answers /\ y.status = "completed"
  BY <1>2 DEF ManagedIssues
<1>5. y.status # x.status /\ y.status \notin Unstarted
  BY <1>4 DEF Unstarted
<1>. HIDE DEF y
<1>. QED
  BY <1>1, <1>3, <1>4, <1>5, PutWrites, Literals

\* The operator canceling a stopped issue writes that issue.
LEMMA CancelWrites ==
  ASSUME Stored(db), NEW i \in Issues, db.issue[i] # None, db.issue[i].susp # None,
         db.issue[i].status \in {"blocked", "failed"}, Commit(i, CancelSuspended(i))
  PROVE  Writes(i)
<1>. DEFINE x == db.issue[i]
            a == Apply(x, "canceled")
            y == [a EXCEPT !.susp.state = "resolved"]
            d == SetEffect(Put(db, i, y), i, "none")
            asked == {IF r.issue = i /\ r.status = "pending" THEN [r EXCEPT !.status = "canceled"] ELSE r
                        : r \in d.requests}
<1>1. Based(i, db) /\ "canceled" \in Statuses /\ x \in ManagedIssues
  BY BasedOn, Literals DEF Stored, Snapshots
<1>2. a \in ManagedIssues /\ a.gen = x.gen /\ a.answers = x.answers /\ a.status = "canceled"
  BY <1>1, Transition
<1>3. a.susp \in Suspensions
  <2>1. a.susp = x.susp
    <3>1. x.status \in Terminal
      BY DEF Terminal
    <3>2. "canceled" # "completed"
      OBVIOUS
    <3>. HIDE DEF x
    <3>. QED
      BY <1>1, <3>1, <3>2 DEF Apply, ManagedIssues
  <2>. QED
    BY <1>1, <2>1 DEF ManagedIssues
<1>4. Commit(i, [d EXCEPT !.requests = asked])
  BY DEF CancelSuspended
<1>. HIDE DEF a
<1>5. [a.susp EXCEPT !.state = "resolved"] \in Suspensions
  BY <1>3 DEF Suspensions
<1>6. y \in ManagedIssues /\ y.gen = x.gen /\ y.answers = x.answers /\ y.status = "canceled"
  BY <1>2, <1>5 DEF ManagedIssues
<1>7. y.status # x.status /\ y.status \notin Unstarted
  BY <1>6 DEF Unstarted
<1>. HIDE DEF y
<1>8. Confined(db, i, d) /\ Moves(i, d)
  BY <1>1, <1>6, <1>7, PutMoves, Literals
<1>. HIDE DEF d
<1>9. asked \in SUBSET Requests
  <2>1. d.requests \in SUBSET Requests
    BY <1>8 DEF Confined, Snapshots
  <2>2. \A r \in Requests : [r EXCEPT !.status = "canceled"] \in Requests
    BY DEF Requests
  <2>. QED
    BY <2>1, <2>2
<1>. HIDE DEF asked
<1>. QED
  BY <1>4, <1>8, <1>9, OnlyRequests

\* The operator resuming a stopped issue writes that issue.
LEMMA ResumeSuspendedWrites ==
  ASSUME Stored(db), NEW i \in Issues, NEW action, db.issue[i] # None, db.active = None,
         db.issue[i].status \in {"blocked", "failed"}, Commit(i, ResumeSuspended(i, action))
  PROVE  Writes(i)
<1>. DEFINE d == Resume(db, i)
            x == d.issue[i]
            to == IF action = "retry-stage" /\ x.cont.stage = "checks" THEN "awaiting_checks"
                  ELSE "resume_pending"
            y == Apply(x, to)
            susp == IF y.susp = None THEN None ELSE [y.susp EXCEPT !.state = "resolved"]
            z == [y EXCEPT !.susp = susp]
<1>1. /\ x \in ManagedIssues
      /\ \A v \in ManagedIssues :
           v.gen = x.gen /\ v.answers = x.answers /\ v.status # "running" =>
             \A kind \in EffectKinds \cup {"none"} :
               v.status # db.issue[i].status =>
                 /\ Confined(db, i, SetEffect(Put(d, i, v), i, kind))
                 /\ Moves(i, SetEffect(Put(d, i, v), i, kind))
  BY SlotMoves
<1>2. to \in Statuses /\ to \in {"awaiting_checks", "resume_pending"}
  BY Literals
<1>3. Commit(i, SetEffect(Put(d, i, z), i, "apply_resolution"))
  BY DEF ResumeSuspended
<1>. HIDE DEF d, x, to
<1>4. y \in ManagedIssues /\ y.gen = x.gen /\ y.answers = x.answers /\ y.status = to
  BY <1>1, <1>2, ApplyFields
<1>. HIDE DEF y
<1>5. y.susp \in Suspensions \cup {None}
  BY <1>4 DEF ManagedIssues
<1>6. susp \in Suspensions \cup {None}
  BY <1>5 DEF Suspensions
<1>. HIDE DEF susp
<1>7. z \in ManagedIssues /\ z.gen = x.gen /\ z.answers = x.answers /\ z.status = to
  BY <1>4, <1>6 DEF ManagedIssues
<1>8. z.status # db.issue[i].status /\ z.status # "running"
  BY <1>2, <1>7
<1>. HIDE DEF z
<1>9. "apply_resolution" \in EffectKinds \cup {"none"}
  BY Literals
<1>10. /\ Confined(db, i, SetEffect(Put(d, i, z), i, "apply_resolution"))
       /\ Moves(i, SetEffect(Put(d, i, z), i, "apply_resolution"))
  BY <1>1, <1>7, <1>8, <1>9
<1>. QED
  BY <1>3, <1>10 DEF Commit, Writes

\* Every resolution is of a stopped issue, and writes that issue.
LEMMA ResolveWrites ==
  ASSUME Stored(db), NEW i \in Issues, NEW action \in Actions, Resolve(i, action)
  PROVE  Writes(i) /\ db.issue[i] # None /\ db.issue[i].status \in {"blocked", "failed"}
<1>1. /\ db.issue[i] # None /\ db.issue[i].susp # None /\ db.issue[i].status \in {"blocked", "failed"}
      /\ action \in {"resume", "retry-stage"} => db.active = None
  BY DEF Resolve, MayResolve, CanResume
<1>2. CASE action = "adopt-pr"
  <2>1. Commit(i, AdoptMerged(i))
    BY <1>2 DEF Resolve
  <2>. QED
    BY <1>1, <2>1, AdoptWrites
<1>3. CASE action = "cancel"
  <2>1. Commit(i, CancelSuspended(i))
    BY <1>3 DEF Resolve
  <2>. QED
    BY <1>1, <2>1, CancelWrites
<1>4. CASE action \in {"resume", "retry-stage"}
  <2>1. Commit(i, ResumeSuspended(i, action))
    BY <1>4 DEF Resolve
  <2>. QED
    BY <1>1, <1>4, <2>1, ResumeSuspendedWrites
<1>. QED
  BY <1>2, <1>3, <1>4 DEF Actions

-----------------------------------------------------------------------------
(* A step about one issue. *)

\* What the store makes of an update.
Written(i) ==
  \/ db' = db
  \/ db'.issue[i] = None /\ db'.quarantined[i] # None
  \/ db'.issue[i] \in ManagedIssues /\ Moves(i, db')

\* An update for one issue leaves the others, and another issue's execution, alone.
LEMMA WritesFrame ==
  ASSUME Stored(db), NEW i \in Issues, Writes(i)
  PROVE  /\ Stored(db') /\ Written(i)
         /\ \A k \in Issues \ {i} : /\ db'.issue[k] = db.issue[k] /\ db'.effect[k] = db.effect[k]
                                   /\ db'.quarantined[k] = db.quarantined[k]
         /\ db.active # None /\ db.active.issue # i => db'.active = db.active
<1>1. CASE UNCHANGED db
  BY <1>1 DEF Written
<1>2. CASE \E after : Confined(db, i, after) /\ Moves(i, after) /\ db' = Update(db, i, after)
  <2>1. PICK after : Confined(db, i, after) /\ Moves(i, after) /\ db' = Update(db, i, after)
    BY <1>2
  <2>2. /\ Stored(db')
        /\ \A k \in Issues \ {i} : /\ db'.issue[k] = db.issue[k] /\ db'.effect[k] = db.effect[k]
                                  /\ db'.quarantined[k] = db.quarantined[k]
        /\ db.active # None /\ db.active.issue # i => db'.active = db.active
        /\ \/ db' = db
           \/ db'.issue[i] = None /\ db'.quarantined[i] # None
           \/ /\ SameIssue(after.issue[i], db'.issue[i])
              /\ db'.effect = after.effect /\ db'.quarantined = db.quarantined
    BY <2>1, UpdateFields
  <2>3. ASSUME SameIssue(after.issue[i], db'.issue[i]), db'.effect = after.effect,
               db'.quarantined = db.quarantined
        PROVE  db'.issue[i] \in ManagedIssues /\ Moves(i, db')
    BY <2>1, <2>3 DEF SameIssue, Moves
  <2>. QED
    BY <2>2, <2>3 DEF Written
<1>. QED
  BY <1>1, <1>2 DEF Writes

\* What the step properties ask of a step.
Careful ==
  /\ \A i \in Issues :
       (Managed(i) /\ Managed(i)' /\ db.issue[i].status = "launching"
          /\ db'.issue[i].status = "running") => Execution(i, db'.issue[i]) \notin ran
  /\ \A i \in Issues :
       (db.effect[i] # None /\ db'.effect[i] # db.effect[i]) =>
         \/ [issue |-> i, effect |-> db.effect[i]] \in called'
         \/ ~Managed(i)'
         \/ db'.issue[i].status # db.issue[i].status

\* An update for one issue is a careful one: no second worker, no effect dropped.
LEMMA WrittenCareful ==
  ASSUME IInv, NEW i \in Issues, Written(i),
         \A k \in Issues \ {i} : db'.issue[k] = db.issue[k] /\ db'.effect[k] = db.effect[k]
  PROVE  Careful
<1>1. ASSUME NEW k \in Issues, Managed(k), Managed(k)', db.issue[k].status = "launching",
             db'.issue[k].status = "running"
      PROVE  Execution(k, db'.issue[k]) \notin ran
  <2>. DEFINE p == Execution(k, db'.issue[k])
  <2>1. k = i /\ db' # db
    BY <1>1
  <2>2. db.issue[i] # None /\ db'.issue[i] # None
    BY <1>1, <2>1 DEF Managed
  <2>3. db'.issue[i].gen = db.issue[i].gen
    BY <1>1, <2>1, <2>2 DEF Written, Moves
  <2>4. p.issue = i /\ p.gen = db.issue[i].gen
    BY <2>1, <2>3 DEF Execution
  <2>5. db.issue[i].status \in Unstarted
    BY <1>1, <2>1 DEF Unstarted
  <2>. HIDE DEF p
  <2>6. p \notin ran
    BY <2>2, <2>4, <2>5 DEF IInv, Spent
  <2>. QED
    BY <2>6 DEF p
<1>2. ASSUME NEW k \in Issues, db.effect[k] # None, db'.effect[k] # db.effect[k], Managed(k)',
             db'.issue[k].status = db.issue[k].status
      PROVE  [issue |-> k, effect |-> db.effect[k]] \in called'
  <2>1. k = i /\ db' # db
    BY <1>2
  <2>2. db'.issue[i] # None
    BY <1>2, <2>1 DEF Managed
  <2>3. db.issue[i] # None
    <3>1. ValidEffect(db, i)
      BY DEF IInv, Stored, Valid
    <3>. QED
      BY <1>2, <2>1, <3>1 DEF ValidEffect
  <2>. QED
    BY <1>2, <2>1, <2>2, <2>3 DEF Written, Moves
<1>. QED
  BY <1>1, <1>2 DEF Careful

\* Generations in which a worker ran stay behind.
LEMMA WrittenSpent ==
  ASSUME IInv, NEW i \in Issues, Written(i), ran' = ran,
         \A k \in Issues \ {i} : db'.issue[k] = db.issue[k] /\ db'.quarantined[k] = db.quarantined[k]
  PROVE  Spent'
<1>. SUFFICES ASSUME NEW p \in ran
              PROVE  /\ db'.issue[p.issue] = None => db'.quarantined[p.issue] # None
                     /\ db'.issue[p.issue] # None =>
                          /\ p.gen <= db'.issue[p.issue].gen
                          /\ p.gen = db'.issue[p.issue].gen => db'.issue[p.issue].status \notin Unstarted
  BY DEF Spent
<1>1. p.issue \in Issues /\ p.gen \in Nat
  BY DEF IInv, WorkersKnown, Executions
<1>2. /\ db.issue[p.issue] = None => db.quarantined[p.issue] # None
      /\ db.issue[p.issue] # None =>
           /\ p.gen <= db.issue[p.issue].gen
           /\ p.gen = db.issue[p.issue].gen => db.issue[p.issue].status \notin Unstarted
  BY DEF IInv, Spent
<1>3. CASE p.issue # i \/ db' = db
  BY <1>1, <1>2, <1>3
<1>4. CASE p.issue = i /\ db'.issue[i] = None /\ db'.quarantined[i] # None
  BY <1>4
<1>5. CASE p.issue = i /\ db'.issue[i] \in ManagedIssues /\ Moves(i, db')
  <2>1. db.issue[i] # None
    BY <1>2, <1>5 DEF Moves
  <2>2. db.issue[i].gen \in Nat /\ db'.issue[i].gen \in Nat
    <3>1. db.issue[i] \in ManagedIssues
      BY <2>1 DEF IInv, Stored, Snapshots
    <3>. QED
      BY <1>5, <3>1 DEF ManagedIssues
  <2>3. /\ db'.issue[i].gen >= db.issue[i].gen
        /\ db'.issue[i].status \in Unstarted =>
             db'.issue[i].gen > db.issue[i].gen \/ db.issue[i].status \in Unstarted
    BY <1>5, <2>1 DEF Moves
  <2>4. db'.issue[i] # None
    BY <1>5, NoneAssumption
  <2>. QED
    BY <1>1, <1>2, <1>5, <2>1, <2>2, <2>3, <2>4
<1>. QED
  BY <1>3, <1>4, <1>5 DEF Written

\* Nothing that is written delivers an answer twice.
LEMMA WrittenAnswers ==
  ASSUME IInv, NEW i \in Issues, Written(i),
         \A k \in Issues \ {i} : db'.issue[k] = db.issue[k]
  PROVE  AnswerDeliveredOnce'
<1>. SUFFICES ASSUME NEW k \in Issues, db'.issue[k] # None,
                     NEW m \in DOMAIN db'.issue[k].answers, NEW n \in DOMAIN db'.issue[k].answers,
                     db'.issue[k].answers[m] = db'.issue[k].answers[n]
              PROVE  m = n
  BY DEF AnswerDeliveredOnce, Managed
<1>1. db.issue[k] # None =>
        \A a, b \in DOMAIN db.issue[k].answers :
          db.issue[k].answers[a] = db.issue[k].answers[b] => a = b
  BY DEF IInv, AnswerDeliveredOnce, Managed
<1>2. CASE k # i \/ db' = db
  BY <1>1, <1>2
<1>3. CASE k = i /\ db'.issue[i] \in ManagedIssues /\ Moves(i, db')
  <2>. DEFINE s == db.issue[i].answers
              t == db'.issue[i].answers
  <2>1. CASE db.issue[i] = None
    <3>1. t = <<>>
      BY <1>3, <2>1 DEF Moves
    <3>. QED
      BY <1>3, <3>1
  <2>2. CASE db.issue[i] # None
    <3>1. \/ t = s
          \/ \E id \in Nat : (\A a \in DOMAIN s : s[a] # id) /\ t = Append(s, id)
      BY <1>3, <2>2 DEF Moves
    <3>2. s \in Seq(Nat)
      BY <2>2 DEF IInv, Stored, Snapshots, ManagedIssues
    <3>3. CASE t = s
      BY <1>1, <1>3, <2>2, <3>3
    <3>4. ASSUME NEW id \in Nat, \A a \in DOMAIN s : s[a] # id, t = Append(s, id)
          PROVE  m = n
      <4>1. m \in DOMAIN t /\ n \in DOMAIN t /\ t[m] = t[n]
        BY <1>3
      <4>2. \A a, b \in DOMAIN s : s[a] = s[b] => a = b
        BY <1>1, <1>3, <2>2
      <4>. HIDE DEF s, t
      <4>3. Len(s) \in Nat /\ DOMAIN s = 1..Len(s) /\ DOMAIN t = 1..(Len(s) + 1)
        BY <3>2, <3>4
      <4>4. t[Len(s) + 1] = id /\ \A a \in 1..Len(s) : t[a] = s[a]
        BY <3>2, <3>4
      <4>. QED
        BY <3>4, <4>1, <4>2, <4>3, <4>4
    <3>. QED
      BY <3>1, <3>3, <3>4
  <2>. QED
    BY <2>1, <2>2
<1>. QED
  BY <1>2, <1>3 DEF Written

\* A step about issue i, which has no worker left that was recorded.
Tame(i) ==
  /\ Writes(i)
  /\ job' \in [Issues -> Jobs \cup {None}] /\ \A k \in Issues \ {i} : job'[k] = job[k]
  /\ JobOk(i)'
  /\ sup' = sup /\ (sup # "up" => job'[i] = None)
  /\ ran' = ran /\ procs' \subseteq Executions /\ procs' \cap ran \subseteq procs
  /\ called \subseteq called'
  /\ \A p \in procs' \cap ran : p.issue # i

\* The job of an issue that a step leaves alone still knows what it knew.
LEMMA OtherJob ==
  ASSUME IInv, NEW k \in Issues, job'[k] = job[k], db'.issue[k] = db.issue[k], called \subseteq called',
         db.active # None /\ db.active.issue = k => db'.active = db.active
  PROVE  JobOk(k)'
<1>1. JobOk(k) /\ job[k] \in Jobs \cup {None}
  BY DEF IInv, JobsOk
<1>2. job[k] # None /\ job[k].pc \in Held => db'.active = Execution(k, job[k].seen)
  <2>. SUFFICES ASSUME job[k] # None, job[k].pc \in Held
                PROVE  db'.active = Execution(k, job[k].seen)
    OBVIOUS
  <2>1. job[k].seen \in ManagedIssues
    BY <1>1 DEF JobOk, Held
  <2>2. db.active = Execution(k, job[k].seen)
    BY <1>1 DEF JobOk
  <2>3. db.active # None /\ db.active.issue = k
    BY <2>1, <2>2, ExecutionTyped
  <2>. QED
    BY <2>2, <2>3
<1>. QED
  BY <1>1, <1>2 DEF JobOk

\* A tame step keeps the invariant.
LEMMA TameKept ==
  ASSUME IInv, NEW i \in Issues, Tame(i)
  PROVE  IInv' /\ Careful
<1>1. /\ Stored(db') /\ Written(i)
      /\ \A k \in Issues \ {i} : /\ db'.issue[k] = db.issue[k] /\ db'.effect[k] = db.effect[k]
                                /\ db'.quarantined[k] = db.quarantined[k]
      /\ db.active # None /\ db.active.issue # i => db'.active = db.active
  BY WritesFrame DEF IInv, Tame
<1>2. Careful
  BY <1>1, WrittenCareful
<1>3. JobsOk'
  <2>1. ASSUME NEW k \in Issues PROVE JobOk(k)'
    <3>1. CASE k = i
      BY <3>1 DEF Tame
    <3>2. CASE k # i
      <4>1. /\ job'[k] = job[k] /\ db'.issue[k] = db.issue[k] /\ called \subseteq called'
            /\ db.active # None /\ db.active.issue = k => db'.active = db.active
        BY <1>1, <3>2 DEF Tame
      <4>. QED
        BY <4>1, OtherJob
    <3>. QED
      BY <3>1, <3>2
  <2>2. job' \in [Issues -> Jobs \cup {None}]
    BY DEF Tame
  <2>. QED
    BY <2>1, <2>2 DEF JobsOk
<1>4. JobsUp'
  <2>. SUFFICES ASSUME sup' # "up", NEW k \in Issues PROVE job'[k] = None
    BY DEF JobsUp
  <2>. QED
    BY DEF IInv, JobsUp, Tame
<1>5. WorkersKnown'
  <2>1. procs' \subseteq Executions /\ ran' \subseteq Executions
    BY DEF Tame, IInv, WorkersKnown
  <2>2. ASSUME NEW p \in procs' \cap ran'
        PROVE  /\ db'.active = p /\ db'.issue[p.issue].pid = TRUE /\ sup' # "reconciling"
               /\ sup' = "up" => job'[p.issue] # None /\ job'[p.issue].pc = "working"
    <3>1. p \in procs \cap ran /\ p.issue # i
      BY DEF Tame
    <3>2. p \in Executions /\ p.issue \in Issues /\ p # None
      BY <3>1, NoneAssumption DEF IInv, WorkersKnown, Executions
    <3>3. /\ db.active = p /\ db.issue[p.issue].pid = TRUE /\ sup # "reconciling"
          /\ sup = "up" => job[p.issue] # None /\ job[p.issue].pc = "working"
      BY <3>1 DEF IInv, WorkersKnown
    <3>. QED
      BY <1>1, <3>1, <3>2, <3>3 DEF Tame
  <2>. QED
    BY <2>1, <2>2 DEF WorkersKnown
<1>6. Spent'
  BY <1>1, WrittenSpent DEF Tame
<1>7. AnswerDeliveredOnce'
  BY <1>1, WrittenAnswers
<1>8. Stored(db)'
  BY <1>1
<1>. QED
  BY <1>2, <1>3, <1>4, <1>5, <1>6, <1>7, <1>8 DEF IInv

\* No recorded worker is the issue's, unless its job watches it.
LEMMA Unwatched ==
  ASSUME IInv, NEW i \in Issues,
         \/ sup = "up" /\ (job[i] = None \/ job[i].pc # "working")
         \/ sup = "reconciling"
         \/ db.issue[i] # None /\ db.issue[i].status \notin Executing
  PROVE  \A p \in procs \cap ran : p.issue # i
<1>. SUFFICES ASSUME NEW p \in procs \cap ran, p.issue = i PROVE FALSE
  OBVIOUS
<1>1. /\ db.active = p /\ sup # "reconciling"
      /\ sup = "up" => job[i] # None /\ job[i].pc = "working"
  BY DEF IInv, WorkersKnown
<1>2. p # None
  BY NoneAssumption DEF IInv, WorkersKnown
<1>3. db.issue[i].status \in Executing
  <2>1. db \in Snapshots /\ Valid(db)
    BY DEF IInv, Stored
  <2>. QED
    BY <1>1, <1>2, <2>1, ExecutingOwns
<1>. QED
  BY <1>1, <1>3

-----------------------------------------------------------------------------
(* What becomes of the job. *)

\* A job that goes on has the place, copy and result it was given.
LEMMA GotoFields ==
  ASSUME JobsOk, NEW i \in Issues, NEW pc \in Pcs, NEW seen \in ManagedIssues \cup Effects \cup {None},
         NEW result \in Results \cup {""}, Goto(i, pc, seen, result)
  PROVE  /\ job' \in [Issues -> Jobs \cup {None}] /\ \A k \in Issues \ {i} : job'[k] = job[k]
         /\ job'[i].pc = pc /\ job'[i].seen = seen /\ job'[i].result = result
         /\ job'[i] # None
<1>. DEFINE slot == IF job[i] = None THEN "maintenance" ELSE job[i].slot
<1>1. job' = [job EXCEPT ![i] = Job(pc, slot, seen, result)]
  BY DEF Goto
<1>2. job \in [Issues -> Jobs \cup {None}]
  BY DEF JobsOk
<1>3. slot \in {"worker", "maintenance"}
  BY <1>2 DEF Jobs
<1>. HIDE DEF slot
<1>4. /\ Job(pc, slot, seen, result) \in Jobs /\ Job(pc, slot, seen, result).pc = pc
      /\ Job(pc, slot, seen, result).seen = seen /\ Job(pc, slot, seen, result).result = result
  BY <1>3 DEF Job, Jobs
<1>. QED
  BY <1>1, <1>2, <1>4, JobsAssumption

\* A job that ends is gone.
LEMMA StopFields ==
  ASSUME JobsOk, NEW i \in Issues, Stop(i)
  PROVE  /\ job' \in [Issues -> Jobs \cup {None}] /\ \A k \in Issues \ {i} : job'[k] = job[k]
         /\ job'[i] = None /\ JobOk(i)'
<1>1. job \in [Issues -> Jobs \cup {None}]
  BY DEF JobsOk
<1>. QED
  BY <1>1 DEF Stop, JobOk

\* A job that ends, or goes on to synchronise, holds nothing.
LEMMA LeavesFields ==
  ASSUME JobsOk, NEW i \in Issues, Leaves(i)
  PROVE  /\ job' \in [Issues -> Jobs \cup {None}] /\ \A k \in Issues \ {i} : job'[k] = job[k]
         /\ JobOk(i)'
<1>1. CASE Stop(i)
  BY <1>1, StopFields
<1>2. CASE Goto(i, "sync", None, "")
  <2>1. /\ job' \in [Issues -> Jobs \cup {None}] /\ \A k \in Issues \ {i} : job'[k] = job[k]
        /\ job'[i].pc = "sync"
    BY <1>2, GotoFields DEF Pcs
  <2>2. JobOk(i)'
    BY <2>1 DEF JobOk, Held
  <2>. QED
    BY <2>1, <2>2
<1>. QED
  BY <1>1, <1>2 DEF Leaves

\* A job goes on with what it reads back, which it executes if it is to hold it.
LEMMA ProceedFields ==
  ASSUME JobsOk, Stored(db'), NEW i \in Issues, NEW pc \in {"claim", "claimed", "launch", "validate", "outcome"},
         NEW result \in Results \cup {""}, Proceed(i, pc, result),
         pc \in Held /\ db'.issue[i] # None => db'.issue[i].status \in Executing
  PROVE  /\ job' \in [Issues -> Jobs \cup {None}] /\ \A k \in Issues \ {i} : job'[k] = job[k]
         /\ JobOk(i)'
<1>1. CASE db'.issue[i] = None
  <2>1. Stop(i)
    BY <1>1 DEF Proceed, Fresh
  <2>. QED
    BY <2>1, StopFields
<1>2. CASE db'.issue[i] # None
  <2>. DEFINE seen == db'.issue[i]
  <2>1. Goto(i, pc, seen, result)
    BY <1>2 DEF Proceed, Fresh
  <2>2. db' \in Snapshots /\ Valid(db') /\ seen \in ManagedIssues
    BY <1>2 DEF Stored, Snapshots
  <2>3. pc \in Pcs
    BY DEF Pcs
  <2>4. /\ job' \in [Issues -> Jobs \cup {None}] /\ \A k \in Issues \ {i} : job'[k] = job[k]
        /\ job'[i].pc = pc /\ job'[i].seen = seen
    <3>1. seen \in ManagedIssues \cup Effects \cup {None}
      BY <2>2
    <3>. HIDE DEF seen
    <3>. QED
      BY <2>1, <2>3, <3>1, GotoFields
  <2>5. pc \in Held => db'.active = Execution(i, seen)
    BY <1>2, <2>2, ExecutingOwns DEF Owns
  <2>6. JobOk(i)'
    BY <2>2, <2>4, <2>5 DEF JobOk
  <2>. QED
    BY <2>4, <2>6
<1>. QED
  BY <1>1, <1>2

-----------------------------------------------------------------------------
(* The steps of the scheduler and of the jobs, outside the worker's run. *)

\* A step of issue i's job, which does not watch a worker.
Steady(i) ==
  /\ sup = "up" /\ (job[i] = None \/ job[i].pc # "working")
  /\ UNCHANGED <<sup, procs, ran>> /\ called \subseteq called'

\* A step is tame when it writes its issue and its job ends up in order.
LEMMA TameJob ==
  ASSUME IInv, NEW i \in Issues, Steady(i), Writes(i), JobOk(i)',
         job' \in [Issues -> Jobs \cup {None}], \A k \in Issues \ {i} : job'[k] = job[k]
  PROVE  Tame(i)
<1>1. \A p \in procs \cap ran : p.issue # i
  BY Unwatched DEF Steady
<1>2. procs \subseteq Executions
  BY DEF IInv, WorkersKnown
<1>. QED
  BY <1>1, <1>2 DEF Steady, Tame

\* A job that leaves after an update is tame.
LEMMA TameLeaves ==
  ASSUME IInv, NEW i \in Issues, Steady(i), Writes(i), Leaves(i)
  PROVE  Tame(i)
BY TameJob, LeavesFields DEF IInv

\* A job that goes on without an update is tame.
LEMMA TameGoto ==
  ASSUME IInv, NEW i \in Issues, Steady(i), UNCHANGED db, NEW pc \in Pcs,
         NEW seen \in ManagedIssues \cup Effects \cup {None}, NEW result \in Results \cup {""},
         Goto(i, pc, seen, result),
         pc \notin {"sync", "synced"} => seen \in ManagedIssues,
         pc = "pull" => seen.status \in {"awaiting_checks", "awaiting_merge"},
         pc = "synced" => seen \in Effects /\ [issue |-> i, effect |-> seen] \in called',
         pc \in Held => db.active = Execution(i, seen),
         pc \in {"spawn", "record"} => db.issue[i].status = "launching",
         pc # "working"
  PROVE  Tame(i)
<1>1. /\ job' \in [Issues -> Jobs \cup {None}] /\ \A k \in Issues \ {i} : job'[k] = job[k]
      /\ job'[i].pc = pc /\ job'[i].seen = seen
  BY GotoFields DEF IInv
<1>2. JobOk(i)'
  BY <1>1 DEF JobOk
<1>3. Writes(i)
  BY DEF Writes
<1>. QED
  BY <1>1, <1>2, <1>3, TameJob

\* A job that goes on after an update, or ends because its issue was isolated, is
\* tame.
LEMMA TameProceed ==
  ASSUME IInv, NEW i \in Issues, Steady(i), Writes(i),
         NEW pc \in {"claim", "claimed", "launch", "validate", "outcome"},
         NEW result \in Results \cup {""}, Proceed(i, pc, result),
         pc \in Held /\ db'.issue[i] # None => db'.issue[i].status \in Executing
  PROVE  Tame(i)
<1>1. Stored(db')
  BY WritesFrame DEF IInv
<1>2. /\ job' \in [Issues -> Jobs \cup {None}] /\ \A k \in Issues \ {i} : job'[k] = job[k]
      /\ JobOk(i)'
  BY <1>1, ProceedFields DEF IInv
<1>. QED
  BY <1>2, TameJob

\* An error returned by a job ends it and writes nothing.
LEMMA GiveUpTame ==
  ASSUME IInv, NEW i \in Issues, Steady(i), GiveUp(i)
  PROVE  Tame(i)
BY TameLeaves DEF GiveUp, Writes, Leaves

\* What a job that holds its execution knows of the snapshot.
LEMMA HeldFacts ==
  ASSUME IInv, NEW i \in Issues, job[i] # None, job[i].pc \in Held
  PROVE  /\ job[i].seen \in ManagedIssues
         /\ db.active = Execution(i, job[i].seen) /\ db.active # None /\ db.active.issue = i
         /\ db.issue[i] \in ManagedIssues /\ db.issue[i] # None /\ db.issue[i].status \in Executing
         /\ db.active = Execution(i, db.issue[i])
         /\ db.issue[i].run = job[i].seen.run /\ db.issue[i].gen = job[i].seen.gen
<1>1. job[i].seen \in ManagedIssues /\ db.active = Execution(i, job[i].seen)
  BY DEF IInv, JobsOk, JobOk, Held
<1>2. db.active # None /\ db.active.issue = i
  BY <1>1, ExecutionTyped
<1>3. db \in Snapshots /\ Valid(db)
  BY DEF IInv, Stored
<1>4. db.issue[i] # None /\ db.issue[i].status \in Executing /\ db.active = Execution(i, db.issue[i])
  BY <1>2, <1>3, ExecutingOwns
<1>5. db.issue[i] \in ManagedIssues
  BY <1>3, <1>4 DEF Snapshots
<1>. QED
  BY <1>1, <1>2, <1>4, <1>5 DEF Execution

\* Taking an issue into a job writes nothing.
LEMMA DispatchTame ==
  ASSUME IInv, NEW i \in Issues, Dispatch(i) \/ Admit(i)
  PROVE  Tame(i)
<1>1. Steady(i) /\ UNCHANGED db /\ job[i] = None
  BY DEF Dispatch, CanDispatch, Admit, Steady, Elsewhere
<1>2. PICK slot \in {"worker", "maintenance"}, seen \in ManagedIssues \cup {None} :
        job' = [job EXCEPT ![i] = Job("queued", slot, seen, "")]
  <2>1. CASE Dispatch(i)
    <3>1. db.issue[i] \in ManagedIssues
      BY <2>1 DEF Dispatch, CanDispatch, PendingStatus, IInv, Stored, Snapshots
    <3>2. SlotOf(i) \in {"worker", "maintenance"}
      BY DEF SlotOf
    <3>. QED
      BY <2>1, <3>1, <3>2 DEF Dispatch
  <2>2. CASE Admit(i)
    BY <2>2 DEF Admit
  <2>. QED
    BY <2>1, <2>2
<1>3. /\ Job("queued", slot, seen, "") \in Jobs
      /\ Job("queued", slot, seen, "").pc = "queued" /\ Job("queued", slot, seen, "").seen = seen
  BY DEF Job, Jobs, Pcs
<1>4. job \in [Issues -> Jobs \cup {None}]
  BY DEF IInv, JobsOk
<1>5. /\ job' \in [Issues -> Jobs \cup {None}] /\ \A k \in Issues \ {i} : job'[k] = job[k]
      /\ job'[i] = Job("queued", slot, seen, "")
  BY <1>2, <1>3, <1>4
<1>6. JobOk(i)'
  <2>1. job'[i].pc = "queued" /\ job'[i].seen = seen
    BY <1>3, <1>5
  <2>. QED
    BY <2>1 DEF JobOk, Held
<1>. QED
  BY <1>1, <1>5, <1>6, TameJob DEF Writes

\* The job that starts an issue (startIssue) is tame.
LEMMA StartIssueTame ==
  ASSUME IInv, NEW i \in Issues, StartIssue(i)
  PROVE  Tame(i)
<1>1. Steady(i)
  BY DEF StartIssue, At, Steady, Elsewhere
<1>2. CASE GiveUp(i)
  BY <1>1, <1>2, GiveUpTame
<1>3. CASE ~GiveUp(i)
  <2>1. /\ db.quarantined[i] = None /\ db.issue[i] = None /\ db.active = None
        /\ Commit(i, [Put(db, i, [NewIssue EXCEPT !.gen = 1, !.run = 1])
                      EXCEPT !.active = Execution(i, [NewIssue EXCEPT !.gen = 1, !.run = 1])])
        /\ Proceed(i, "claim", "")
    BY <1>3 DEF StartIssue
  <2>2. Writes(i)
    BY <2>1, StartWrites DEF IInv
  <2>. QED
    BY <1>1, <2>1, <2>2, TameProceed DEF Held
<1>. QED
  BY <1>2, <1>3

\* So is processExisting, whichever way it goes.
LEMMA BeginTame ==
  ASSUME IInv, NEW i \in Issues, Begin(i)
  PROVE  Tame(i)
<1>. DEFINE seen == job[i].seen
<1>1. Steady(i) /\ job[i] # None /\ job[i].pc = "queued" /\ seen # None
  BY DEF Begin, At, Steady, Elsewhere
<1>2. seen \in ManagedIssues
  BY <1>1 DEF IInv, JobsOk, JobOk
<1>3. CASE Goto(i, "sync", None, "") /\ UNCHANGED db
  BY <1>1, <1>3, TameLeaves DEF Writes, Leaves
<1>4. CASE /\ seen.status \in {"awaiting_checks", "awaiting_merge"}
           /\ Goto(i, "pull", seen, "") /\ UNCHANGED db
  <2>. HIDE DEF seen
  <2>. QED
    BY <1>1, <1>2, <1>4, TameGoto DEF Pcs, Held
<1>5. CASE ResumeExecution(i, seen)
  <2>. HIDE DEF seen
  <2>1. CASE GiveUp(i)
    BY <1>1, <2>1, GiveUpTame
  <2>2. CASE ~GiveUp(i)
    <3>1. /\ db.issue[i] # None /\ db.active = None
          /\ db.issue[i].status \in {"resume_pending", "retry_wait"}
          /\ Commit(i, Put(Resume(db, i), i, Launch(Resume(db, i).issue[i])))
          /\ Proceed(i, "launch", "")
      BY <1>5, <2>2 DEF ResumeExecution
    <3>2. Writes(i)
      BY <3>1, ResumeWrites DEF IInv
    <3>. QED
      BY <1>1, <3>1, <3>2, TameProceed DEF Held
  <2>. QED
    BY <2>1, <2>2
<1>6. CASE (Goto(i, "claim", seen, "") \/ Goto(i, "launch", seen, "")) /\ UNCHANGED db
  <2>. HIDE DEF seen
  <2>1. "claim" \in Pcs /\ "launch" \in Pcs /\ "claim" \notin Held /\ "launch" \notin Held
    BY DEF Pcs, Held
  <2>2. CASE Goto(i, "claim", seen, "")
    BY <1>1, <1>2, <1>6, <2>1, <2>2, TameGoto
  <2>3. CASE Goto(i, "launch", seen, "")
    BY <1>1, <1>2, <1>6, <2>1, <2>3, TameGoto
  <2>. QED
    BY <1>6, <2>2, <2>3
<1>. QED
  BY <1>3, <1>4, <1>5, <1>6 DEF Begin

\* So is the claim of the issue on GitHub.
LEMMA ClaimTame ==
  ASSUME IInv, NEW i \in Issues, Claim(i)
  PROVE  Tame(i)
<1>1. Steady(i)
  BY DEF Claim, At, Steady, Elsewhere
<1>2. CASE GiveUp(i)
  BY <1>1, <1>2, GiveUpTame
<1>3. CASE FailIssue(i, FALSE, "")
  BY <1>1, <1>3, FailIssueWrites, TameLeaves DEF IInv
<1>4. CASE /\ db.issue[i] # None /\ db.issue[i].status = "claiming"
           /\ Commit(i, Put(db, i, [Apply(db.issue[i], "claimed") EXCEPT !.tree = TRUE]))
           /\ Proceed(i, "claimed", "")
  <2>1. Writes(i)
    BY <1>4, PlainWrites DEF IInv
  <2>. QED
    BY <1>1, <1>4, <2>1, TameProceed DEF Held
<1>. QED
  BY <1>2, <1>3, <1>4 DEF Claim

\* So is the launch of a claimed issue.
LEMMA RunClaimedTame ==
  ASSUME IInv, NEW i \in Issues, RunClaimed(i)
  PROVE  Tame(i)
<1>1. Steady(i)
  BY DEF RunClaimed, At, Steady, Elsewhere
<1>2. CASE GiveUp(i)
  BY <1>1, <1>2, GiveUpTame
<1>3. CASE /\ db.issue[i] # None /\ db.issue[i].status = "claimed"
           /\ Commit(i, Put(db, i, Launch(db.issue[i])))
           /\ Proceed(i, "validate", "")
  <2>1. Writes(i) /\ Becomes(i, "launching")
    BY <1>3, PlainWrites DEF IInv
  <2>2. db'.issue[i] # None => db'.issue[i].status \in Executing
    BY <1>3, <2>1 DEF Becomes, Executing
  <2>. QED
    BY <1>1, <1>3, <2>1, <2>2, TameProceed
<1>. QED
  BY <1>2, <1>3 DEF RunClaimed

\* So is a launch that continues the run.
LEMMA ContinueRunTame ==
  ASSUME IInv, NEW i \in Issues, Steady(i), NEW seen \in ManagedIssues, ContinueRun(i, seen)
  PROVE  Tame(i)
<1>1. CASE GiveUp(i)
  BY <1>1, GiveUpTame
<1>2. CASE /\ SameLaunch(i, seen) /\ Proceed(i, "validate", "")
           /\ Commit(i, Put(db, i, [db.issue[i] EXCEPT !.conts = seen.conts + 1]))
  <2>1. db.issue[i] # None /\ db.issue[i].status = "launching"
    BY <1>2 DEF SameLaunch
  <2>2. seen.conts \in Nat
    BY DEF ManagedIssues
  <2>3. seen.conts + 1 \in Nat
    BY <2>2
  <2>4. Writes(i) /\ Becomes(i, db.issue[i].status)
    BY <1>2, <2>1, <2>3, PlainWrites DEF IInv
  <2>5. db'.issue[i] # None => db'.issue[i].status \in Executing
    BY <2>1, <2>4 DEF Becomes, Executing
  <2>. QED
    BY <1>2, <2>4, <2>5, TameProceed
<1>. QED
  BY <1>1, <1>2 DEF ContinueRun

\* So is a launch that starts a fresh run.
LEMMA StartRunTame ==
  ASSUME IInv, NEW i \in Issues, Steady(i), NEW seen \in ManagedIssues, StartRun(i, seen)
  PROVE  Tame(i)
<1>1. CASE GiveUp(i)
  BY <1>1, GiveUpTame
<1>2. CASE /\ SameLaunch(i, seen) /\ Proceed(i, "validate", "")
           /\ Commit(i, Put(Transfer(db, i), i,
                            [Transfer(db, i).issue[i] EXCEPT !.attempts = seen.attempts + 1,
                                                             !.session = FALSE]))
  <2>1. db.issue[i] # None /\ db.issue[i].status = "launching" /\ Owns(db, i, db.issue[i])
    BY <1>2 DEF SameLaunch
  <2>2. seen.attempts \in Nat
    BY DEF ManagedIssues
  <2>3. seen.attempts + 1 \in Nat
    BY <2>2
  <2>4. Writes(i) /\ Becomes(i, "launching")
    BY <1>2, <2>1, <2>3, StartRunWrites DEF IInv
  <2>5. db'.issue[i] # None => db'.issue[i].status \in Executing
    BY <2>1, <2>4 DEF Becomes, Executing
  <2>. QED
    BY <1>2, <2>4, <2>5, TameProceed
<1>. QED
  BY <1>1, <1>2 DEF StartRun

\* So is the launch as a whole.
LEMMA LaunchStepTame ==
  ASSUME IInv, NEW i \in Issues, LaunchStep(i)
  PROVE  Tame(i)
<1>. DEFINE seen == job[i].seen
<1>1. Steady(i) /\ job[i] # None /\ job[i].pc = "launch"
  BY DEF LaunchStep, At, Steady, Elsewhere
<1>2. seen \in ManagedIssues
  BY <1>1 DEF IInv, JobsOk, JobOk
<1>3. \/ LaunchRefused(i, seen, FALSE) \/ LaunchRefused(i, seen, TRUE)
      \/ SameLaunch(i, seen) /\ UNCHANGED db
         /\ (Goto(i, "publish", seen, "") \/ Goto(i, "validate", seen, ""))
      \/ ScheduleRetry(i, seen)
      \/ ContinueRun(i, seen) \/ StartRun(i, seen)
  BY DEF LaunchStep
<1>. HIDE DEF seen
<1>4. CASE LaunchRefused(i, seen, FALSE) \/ LaunchRefused(i, seen, TRUE)
  BY <1>1, <1>4, RefusedWrites, TameLeaves DEF IInv
<1>5. CASE ScheduleRetry(i, seen)
  BY <1>1, <1>5, ScheduleRetryWrites, TameLeaves DEF IInv
<1>6. CASE SameLaunch(i, seen) /\ UNCHANGED db /\ Goto(i, "publish", seen, "")
  BY <1>1, <1>2, <1>6, TameGoto DEF Pcs, Held
<1>7. CASE SameLaunch(i, seen) /\ UNCHANGED db /\ Goto(i, "validate", seen, "")
  <2>1. db.active = Execution(i, seen)
    BY <1>7 DEF SameLaunch, Owns
  <2>. QED
    BY <1>1, <1>2, <1>7, <2>1, TameGoto DEF Pcs
<1>8. CASE ContinueRun(i, seen)
  BY <1>1, <1>2, <1>8, ContinueRunTame
<1>9. CASE StartRun(i, seen)
  BY <1>1, <1>2, <1>9, StartRunTame
<1>. QED
  BY <1>3, <1>4, <1>5, <1>6, <1>7, <1>8, <1>9

\* So is the last validation before the worker: it makes sure of the execution.
LEMMA ValidateTame ==
  ASSUME IInv, NEW i \in Issues, Validate(i)
  PROVE  Tame(i)
<1>. DEFINE seen == job[i].seen
<1>1. Steady(i) /\ job[i] # None /\ job[i].pc = "validate" /\ UNCHANGED db
  BY DEF Validate, At, Steady, Elsewhere
<1>2. seen \in ManagedIssues /\ db.active = Execution(i, seen)
  BY <1>1, HeldFacts DEF Held
<1>3. \/ \E result \in Results : Goto(i, "result", seen, result)
      \/ SameLaunch(i, seen) /\ Goto(i, "spawn", seen, "")
  BY DEF Validate, Results
<1>. HIDE DEF seen
<1>4. CASE \E result \in Results : Goto(i, "result", seen, result)
  BY <1>1, <1>2, <1>4, TameGoto DEF Pcs
<1>5. CASE SameLaunch(i, seen) /\ Goto(i, "spawn", seen, "")
  <2>1. db.issue[i].status = "launching"
    BY <1>5 DEF SameLaunch
  <2>. QED
    BY <1>1, <1>2, <1>5, <2>1, TameGoto DEF Pcs
<1>. QED
  BY <1>3, <1>4, <1>5

\* So is the handling of the worker's result.
LEMMA ResultTame ==
  ASSUME IInv, NEW i \in Issues, Result(i)
  PROVE  Tame(i)
<1>. DEFINE x == db.issue[i]
            same == x # None /\ x.run = job[i].seen.run /\ x.gen = job[i].seen.gen
            current == IF same THEN x ELSE job[i].seen
            result == job[i].result
            session == x.session \/ result # "silent"
<1>1. Steady(i) /\ job[i] # None /\ job[i].pc = "result"
  BY DEF Result, At, Steady, Elsewhere
<1>2. x \in ManagedIssues /\ x # None /\ x.status \in Executing
  BY <1>1, HeldFacts DEF Held
<1>3. result \in Results \cup {""}
  BY <1>1 DEF IInv, JobsOk, Jobs
<1>4. \/ ScheduleRetry(i, current) \/ BlockWorkspace(i, current)
      \/ LaunchRefused(i, current, result = "remote")
      \/ GiveUp(i)
      \/ Commit(i, Put(db, i, [x EXCEPT !.session = session])) /\ Proceed(i, "outcome", result)
  BY DEF Result
<1>. HIDE DEF current, result
<1>5. CASE ScheduleRetry(i, current)
  BY <1>1, <1>5, ScheduleRetryWrites, TameLeaves DEF IInv
<1>6. CASE BlockWorkspace(i, current)
  BY <1>1, <1>6, BlockWorkspaceWrites, TameLeaves DEF IInv
<1>7. CASE LaunchRefused(i, current, result = "remote")
  BY <1>1, <1>7, RefusedWrites, TameLeaves DEF IInv
<1>8. CASE GiveUp(i)
  BY <1>1, <1>8, GiveUpTame
<1>9. CASE Commit(i, Put(db, i, [x EXCEPT !.session = session])) /\ Proceed(i, "outcome", result)
  <2>1. session \in BOOLEAN
    BY <1>2 DEF ManagedIssues
  <2>. HIDE DEF session
  <2>2. Writes(i) /\ Becomes(i, x.status)
    BY <1>2, <1>9, <2>1, PlainWrites DEF IInv
  <2>3. db'.issue[i] # None => db'.issue[i].status \in Executing
    BY <1>2, <2>2 DEF Becomes
  <2>. QED
    BY <1>1, <1>3, <1>9, <2>2, <2>3, TameProceed
<1>. QED
  BY <1>4, <1>5, <1>6, <1>7, <1>8, <1>9

\* So is the handling of its outcome, once the worktree was looked at.
LEMMA OutcomeTame ==
  ASSUME IInv, NEW i \in Issues, Outcome(i)
  PROVE  Tame(i)
<1>. DEFINE seen == job[i].seen
<1>1. Steady(i) /\ job[i] # None /\ job[i].pc = "outcome"
  BY DEF Outcome, At, Steady, Elsewhere
<1>2. seen \in ManagedIssues /\ db.active = Execution(i, seen)
  BY <1>1, HeldFacts DEF Held
<1>3. \/ Goto(i, "published", seen, "") /\ UNCHANGED db
      \/ SchedulePublicationRetry(i, seen) \/ ScheduleRetry(i, seen)
      \/ AskOperator(i, seen) \/ SuspendWorker(i, seen)
  BY DEF Outcome
<1>. HIDE DEF seen
<1>4. CASE Goto(i, "published", seen, "") /\ UNCHANGED db
  BY <1>1, <1>2, <1>4, TameGoto DEF Pcs
<1>5. CASE \/ SchedulePublicationRetry(i, seen) \/ ScheduleRetry(i, seen)
           \/ AskOperator(i, seen) \/ SuspendWorker(i, seen)
  <2>1. Writes(i) /\ Leaves(i)
    BY <1>5, PublicationRetryWrites, ScheduleRetryWrites, AskOperatorWrites, SuspendWorkerWrites DEF IInv
  <2>. QED
    BY <1>1, <2>1, TameLeaves
<1>. QED
  BY <1>3, <1>4, <1>5

\* So is the publication of a checkpoint.
LEMMA PublishTame ==
  ASSUME IInv, NEW i \in Issues, PublishCheckpoint(i) \/ Published(i)
  PROVE  Tame(i)
<1>. DEFINE seen == job[i].seen
<1>1. Steady(i) /\ job[i] # None
  BY DEF PublishCheckpoint, Published, At, Steady, Elsewhere
<1>2. \/ GiveUp(i) \/ FailCheckpoint(i, seen) \/ AwaitChecks(i, seen)
      \/ /\ job[i].pc = "publish" /\ SameLaunch(i, seen)
         /\ Goto(i, "published", seen, "") /\ UNCHANGED db
  BY DEF PublishCheckpoint, Published, At
<1>3. job[i].pc = "publish" => seen \in ManagedIssues
  BY <1>1 DEF IInv, JobsOk, JobOk
<1>. HIDE DEF seen
<1>4. CASE GiveUp(i)
  BY <1>1, <1>4, GiveUpTame
<1>5. CASE FailCheckpoint(i, seen) \/ AwaitChecks(i, seen)
  <2>1. Writes(i) /\ Leaves(i)
    BY <1>5, FailCheckpointWrites, AwaitChecksWrites DEF IInv
  <2>. QED
    BY <1>1, <2>1, TameLeaves
<1>6. CASE /\ job[i].pc = "publish" /\ SameLaunch(i, seen)
           /\ Goto(i, "published", seen, "") /\ UNCHANGED db
  <2>1. db.active = Execution(i, seen)
    BY <1>6 DEF SameLaunch, Owns
  <2>. QED
    BY <1>1, <1>3, <1>6, <2>1, TameGoto DEF Pcs
<1>. QED
  BY <1>2, <1>4, <1>5, <1>6

\* So is the check of a pull request.
LEMMA PullRequestTame ==
  ASSUME IInv, NEW i \in Issues, PullRequest(i)
  PROVE  Tame(i)
<1>. DEFINE seen == job[i].seen
<1>1. Steady(i) /\ job[i] # None /\ job[i].pc = "pull"
  BY DEF PullRequest, At, Steady, Elsewhere
<1>2. seen.status \in {"awaiting_checks", "awaiting_merge"}
  BY <1>1 DEF IInv, JobsOk, JobOk
<1>3. \/ GiveUp(i) \/ Complete(i, seen) \/ BlockPullRequest(i, seen)
      \/ FailChecks(i, seen) \/ ScheduleRetry(i, seen)
      \/ /\ db.issue[i] # None /\ Stop(i)
         /\ Commit(i, Put(db, i, [Apply(db.issue[i], "awaiting_merge") EXCEPT !.pr = TRUE]))
  BY DEF PullRequest
<1>. HIDE DEF seen
<1>4. CASE GiveUp(i)
  BY <1>1, <1>4, GiveUpTame
<1>5. CASE \/ Complete(i, seen) \/ BlockPullRequest(i, seen)
           \/ FailChecks(i, seen) \/ ScheduleRetry(i, seen)
  <2>1. Writes(i) /\ Leaves(i)
    BY <1>2, <1>5, CompleteWrites, BlockPullRequestWrites, FailChecksWrites, ScheduleRetryWrites DEF IInv
  <2>. QED
    BY <1>1, <2>1, TameLeaves
<1>6. CASE /\ db.issue[i] # None /\ Stop(i)
           /\ Commit(i, Put(db, i, [Apply(db.issue[i], "awaiting_merge") EXCEPT !.pr = TRUE]))
  <2>1. Writes(i)
    BY <1>6, PlainWrites DEF IInv
  <2>. QED
    BY <1>1, <1>6, <2>1, TameLeaves DEF Leaves
<1>. QED
  BY <1>3, <1>4, <1>5, <1>6

\* So is the synchronisation of an effect: it is removed only after its call.
LEMMA SyncTame ==
  ASSUME IInv, NEW i \in Issues, SyncGitHub(i) \/ Synced(i)
  PROVE  Tame(i)
<1>1. Steady(i) /\ job[i] # None
  BY DEF SyncGitHub, Synced, At, Steady, Elsewhere
<1>2. CASE SyncGitHub(i)
  <2>. DEFINE e == db.effect[i]
  <2>1. \/ GiveUp(i)
        \/ /\ e # None /\ called' = called \cup {[issue |-> i, effect |-> e]}
           /\ Goto(i, "synced", e, "") /\ UNCHANGED db
    BY <1>2 DEF SyncGitHub
  <2>2. CASE GiveUp(i)
    BY <1>1, <2>2, GiveUpTame
  <2>3. CASE /\ e # None /\ called' = called \cup {[issue |-> i, effect |-> e]}
             /\ Goto(i, "synced", e, "") /\ UNCHANGED db
    <3>1. e \in Effects
      BY <2>3 DEF IInv, Stored, Snapshots
    <3>. HIDE DEF e
    <3>. QED
      BY <1>1, <2>3, <3>1, TameGoto DEF Pcs, Held
  <2>. QED
    BY <2>1, <2>2, <2>3
<1>3. CASE Synced(i)
  <2>1. /\ job[i].seen # None /\ [issue |-> i, effect |-> job[i].seen] \in called
        /\ called' = called
    BY <1>3, NoneAssumption DEF Synced, At, Elsewhere, IInv, JobsOk, JobOk
  <2>2. Stop(i)
    BY <1>3 DEF Synced
  <2>3. \/ UNCHANGED db
        \/ /\ db.issue[i] # None /\ db.effect[i] = job[i].seen
           /\ Commit(i, [db EXCEPT !.effect[i] = None])
    BY <1>3 DEF Synced
  <2>4. CASE UNCHANGED db
    BY <1>1, <2>2, <2>4, TameLeaves DEF Writes, Leaves
  <2>5. CASE /\ db.issue[i] # None /\ db.effect[i] = job[i].seen
             /\ Commit(i, [db EXCEPT !.effect[i] = None])
    <3>1. [issue |-> i, effect |-> db.effect[i]] \in called'
      BY <2>1, <2>5
    <3>2. Writes(i)
      BY <2>1, <2>5, <3>1, SyncedWrites DEF IInv
    <3>. QED
      BY <1>1, <2>2, <3>2, TameLeaves DEF Leaves
  <2>. QED
    BY <2>3, <2>4, <2>5
<1>. QED
  BY <1>2, <1>3

\* The operator and GitHub's deliveries touch issues that do not execute, whatever
\* their job is doing.
LEMMA TameIdle ==
  ASSUME IInv, NEW i \in Issues, Writes(i), db.issue[i] # None, db.issue[i].status \notin Executing,
         UNCHANGED <<job, sup, procs, ran, called>>
  PROVE  Tame(i)
<1>1. \A p \in procs \cap ran : p.issue # i
  BY Unwatched
<1>2. job[i] # None => job[i].pc \notin Held
  BY HeldFacts
<1>3. JobOk(i)'
  <2>1. JobOk(i)
    BY DEF IInv, JobsOk
  <2>. QED
    BY <1>2, <2>1 DEF JobOk, Held
<1>4. procs \subseteq Executions /\ job \in [Issues -> Jobs \cup {None}]
      /\ (sup # "up" => job[i] = None)
  BY DEF IInv, WorkersKnown, JobsOk, JobsUp
<1>. QED
  BY <1>1, <1>3, <1>4 DEF Tame

\* So is every step of the scheduler about one issue.
LEMMA SchedulerTame ==
  ASSUME IInv, NEW i \in Issues, SchedulerStep(i)
  PROVE  Tame(i)
<1>1. CASE Dispatch(i) \/ Admit(i)
  BY <1>1, DispatchTame
<1>2. CASE Webhook(i)
  <2>1. /\ db.issue[i] # None /\ db.issue[i].status \notin Executing
        /\ UNCHANGED <<job, sup, procs, ran, called>>
    BY <1>2 DEF Webhook, Executing, Elsewhere
  <2>2. Writes(i)
    BY <1>2, <2>1, ReconciliationWrites DEF Webhook, IInv
  <2>. QED
    BY <2>1, <2>2, TameIdle
<1>3. CASE TerminalPullRequest(i)
  <2>1. Steady(i) /\ Complete(i, db.issue[i])
    BY <1>3 DEF TerminalPullRequest, Steady, Elsewhere
  <2>. QED
    BY <2>1, CompleteWrites, TameLeaves DEF IInv
<1>. QED
  BY <1>1, <1>2, <1>3 DEF SchedulerStep

\* So are the operator's resolutions and the hand-over of an answer.
LEMMA OperatorTame ==
  ASSUME IInv
  PROVE  /\ \A i \in Issues, action \in Actions : Resolve(i, action) => Tame(i)
         /\ \A r \in Requests : PrepareAnswer(r) => Tame(r.issue)
<1>1. ASSUME NEW i \in Issues, NEW action \in Actions, Resolve(i, action) PROVE Tame(i)
  <2>1. Writes(i) /\ db.issue[i] # None /\ db.issue[i].status \in {"blocked", "failed"}
    BY <1>1, ResolveWrites DEF IInv
  <2>2. db.issue[i].status \notin Executing
    BY <2>1 DEF Executing
  <2>3. UNCHANGED <<job, sup, procs, ran, called>>
    BY <1>1 DEF Resolve, Elsewhere
  <2>. QED
    BY <2>1, <2>2, <2>3, TameIdle
<1>2. ASSUME NEW r \in Requests, PrepareAnswer(r) PROVE Tame(r.issue)
  <2>1. Writes(r.issue) /\ r.issue \in Issues
    BY <1>2, PrepareWrites DEF IInv, Requests
  <2>2. db.issue[r.issue] # None /\ db.issue[r.issue].status \notin Executing
    BY <1>2 DEF PrepareAnswer, CanPrepare, Executing
  <2>3. UNCHANGED <<job, sup, procs, ran, called>>
    BY <1>2 DEF PrepareAnswer, Elsewhere
  <2>. QED
    BY <2>1, <2>2, <2>3, TameIdle
<1>. QED
  BY <1>1, <1>2

\* The start: what is stopped or reconciled has no job, and no worker left.
LEMMA StartTame ==
  ASSUME IInv, NEW i \in Issues, StopWorker(i) \/ Reconcile(i)
  PROVE  Tame(i)
<1>1. /\ UNCHANGED <<job, sup, ran, called>> /\ procs' \subseteq procs /\ sup # "up"
  BY DEF StopWorker, Reconcile
<1>2. job[i] = None /\ job' \in [Issues -> Jobs \cup {None}] /\ procs' \subseteq Executions
  BY <1>1 DEF IInv, JobsUp, JobsOk, WorkersKnown
<1>3. JobOk(i)'
  BY <1>1, <1>2 DEF JobOk
<1>4. Writes(i)
  <2>1. CASE StopWorker(i)
    BY <2>1, StopWorkerWrites DEF IInv
  <2>2. CASE Reconcile(i)
    <3>1. UNCHANGED db \/ (db.issue[i] # None /\ \E valid : ApplyReconciliation(i, valid))
      BY <2>2 DEF Reconcile, NeedsInspection
    <3>. QED
      BY <3>1, ReconciliationWrites DEF IInv, Writes
  <2>. QED
    BY <2>1, <2>2
<1>5. \A p \in procs' \cap ran : p.issue # i
  <2>1. CASE StopWorker(i)
    <3>. SUFFICES ASSUME NEW p \in procs' \cap ran, p.issue = i PROVE FALSE
      OBVIOUS
    <3>1. p \in procs /\ p # Execution(i, db.issue[i])
      BY <2>1 DEF StopWorker
    <3>2. db.active = p /\ p # None
      BY <3>1, NoneAssumption DEF IInv, WorkersKnown
    <3>3. db.active = Execution(i, db.issue[i])
      <4>1. db \in Snapshots /\ Valid(db)
        BY DEF IInv, Stored
      <4>. QED
        BY <3>2, <4>1, ExecutingOwns
    <3>. QED
      BY <3>1, <3>2, <3>3
  <2>2. CASE Reconcile(i)
    BY <1>1, <2>2, Unwatched DEF Reconcile
  <2>. QED
    BY <2>1, <2>2
<1>. QED
  BY <1>1, <1>2, <1>3, <1>4, <1>5 DEF Tame

-----------------------------------------------------------------------------
(* The worker. *)

\* So is the start of the worker process.
LEMMA SpawnTame ==
  ASSUME IInv, NEW i \in Issues, Spawn(i)
  PROVE  Tame(i)
<1>. DEFINE seen == job[i].seen
            p == Execution(i, seen)
<1>1. /\ sup = "up" /\ job[i] # None /\ job[i].pc = "spawn" /\ UNCHANGED <<db, sup, ran, called>>
      /\ procs' \subseteq procs \cup {p}
      /\ Goto(i, "record", seen, "") \/ Goto(i, "result", seen, "silent")
  BY DEF Spawn, At
<1>2. /\ seen \in ManagedIssues /\ db.active = p /\ db.issue[i] # None
      /\ db.issue[i].gen = seen.gen /\ db.issue[i].status = "launching"
  <2>1. db.issue[i].status = "launching"
    BY <1>1 DEF IInv, JobsOk, JobOk
  <2>. QED
    BY <1>1, <2>1, HeldFacts DEF Held
<1>3. p \in Executions /\ p.issue = i /\ p.gen = db.issue[i].gen
  BY <1>2, ExecutionTyped
<1>. HIDE DEF seen, p
<1>4. p \notin ran
  BY <1>2, <1>3 DEF IInv, Spent, Unstarted
<1>5. \A q \in procs \cap ran : q.issue # i
  BY <1>1, Unwatched
<1>6. /\ procs' \subseteq Executions /\ procs' \cap ran \subseteq procs
      /\ \A q \in procs' \cap ran : q.issue # i
  BY <1>1, <1>3, <1>4, <1>5 DEF IInv, WorkersKnown
<1>7. /\ job' \in [Issues -> Jobs \cup {None}] /\ \A k \in Issues \ {i} : job'[k] = job[k]
      /\ job'[i].pc \in {"record", "result"} /\ job'[i].seen = seen
  <2>1. CASE Goto(i, "record", seen, "")
    BY <1>2, <2>1, GotoFields DEF IInv, Pcs
  <2>2. CASE Goto(i, "result", seen, "silent")
    BY <1>2, <2>2, GotoFields DEF IInv, Pcs, Results
  <2>. QED
    BY <1>1, <2>1, <2>2
<1>8. JobOk(i)'
  <2>1. db'.active = Execution(i, seen) /\ db'.issue[i].status = "launching"
    BY <1>1, <1>2 DEF p
  <2>. QED
    BY <1>2, <1>7, <2>1 DEF JobOk
<1>. QED
  BY <1>1, <1>6, <1>7, <1>8 DEF Tame, Writes

\* So is its end, after which the execution is watched by nobody and needs nobody.
LEMMA WorkerExitTame ==
  ASSUME IInv, NEW i \in Issues, WorkerExit(i)
  PROVE  Tame(i)
<1>. DEFINE seen == job[i].seen
            p == Execution(i, seen)
<1>1. /\ sup = "up" /\ job[i] # None /\ job[i].pc = "working" /\ UNCHANGED <<db, sup, ran, called>>
      /\ procs' = procs \ {p}
      /\ \E result \in Results : Goto(i, "result", seen, result)
  BY DEF WorkerExit, At, Results
<1>2. seen \in ManagedIssues /\ db.active = p
  BY <1>1, HeldFacts DEF Held
<1>. HIDE DEF seen, p
<1>3. \A q \in procs' \cap ran : q.issue # i
  BY <1>1, <1>2 DEF IInv, WorkersKnown
<1>4. procs' \subseteq Executions
  BY <1>1 DEF IInv, WorkersKnown
<1>5. /\ job' \in [Issues -> Jobs \cup {None}] /\ \A k \in Issues \ {i} : job'[k] = job[k]
      /\ job'[i].pc = "result" /\ job'[i].seen = seen
  BY <1>1, <1>2, GotoFields DEF IInv, Pcs
<1>6. JobOk(i)'
  BY <1>1, <1>2, <1>5 DEF JobOk, p
<1>. QED
  BY <1>1, <1>3, <1>4, <1>5, <1>6 DEF Tame, Writes

\* The launched issue as it is once its worker is recorded.
Recorded(x) == [Apply(x, "running") EXCEPT !.pid = TRUE]

\* An issue whose worker is recorded.
LEMMA RecordedFields ==
  ASSUME NEW x \in ManagedIssues, x.status = "launching"
  PROVE  /\ Recorded(x) \in ManagedIssues /\ Recorded(x) # None
         /\ Recorded(x).status = "running" /\ Recorded(x).pid = TRUE /\ Recorded(x).source = ""
         /\ Recorded(x).run = x.run /\ Recorded(x).gen = x.gen /\ Recorded(x).answers = x.answers
         /\ Recorded(x).cont = x.cont /\ Recorded(x).susp = x.susp
<1>. DEFINE y == Apply(x, "running")
<1>1. "running" \in Statuses /\ "running" \notin Terminal
  BY Literals DEF Terminal
<1>2. /\ y \in ManagedIssues /\ y.status = "running" /\ y.run = x.run /\ y.gen = x.gen
      /\ y.answers = x.answers /\ y.cont = x.cont /\ y.susp = x.susp /\ y.source = ""
  BY <1>1, ApplyFields
<1>3. Recorded(x) = [y EXCEPT !.pid = TRUE]
  BY DEF Recorded
<1>. HIDE DEF y
<1>4. /\ Recorded(x) \in ManagedIssues
      /\ Recorded(x).status = "running" /\ Recorded(x).pid = TRUE /\ Recorded(x).source = ""
      /\ Recorded(x).run = x.run /\ Recorded(x).gen = x.gen /\ Recorded(x).answers = x.answers
      /\ Recorded(x).cont = x.cont /\ Recorded(x).susp = x.susp
  BY <1>2, <1>3 DEF ManagedIssues
<1>. QED
  BY <1>4, NoneAssumption

\* The record of a worker is stored as it is: the validator has nothing against it.
LEMMA RecordedStored ==
  ASSUME Stored(db), NEW i \in Issues, db.issue[i] # None, db.issue[i].status = "launching"
  PROVE  Stored(Put(db, i, Recorded(db.issue[i])))
<1>. DEFINE x == db.issue[i]
            z == Recorded(x)
            d == Put(db, i, z)
<1>1. db \in Snapshots /\ Valid(db) /\ Rested(db) /\ x \in ManagedIssues
  BY DEF Stored, Snapshots
<1>2. /\ z \in ManagedIssues /\ z # None
      /\ z.status = "running" /\ z.pid = TRUE /\ z.source = ""
      /\ z.run = x.run /\ z.gen = x.gen /\ z.answers = x.answers
      /\ z.cont = x.cont /\ z.susp = x.susp
  BY <1>1, RecordedFields
<1>3. /\ d \in Snapshots /\ d.issue[i] = z /\ \A k \in Issues \ {i} : d.issue[k] = db.issue[k]
      /\ d.active = db.active /\ d.effect = db.effect /\ d.requests = db.requests
      /\ d.quarantined = db.quarantined
  BY <1>1, <1>2, PutFields
<1>. HIDE DEF z, d
<1>4. ValidExecution(d)
  <2>1. \A k \in Issues : (d.issue[k] # None /\ d.issue[k].status \in Executing)
                            <=> (db.issue[k] # None /\ db.issue[k].status \in Executing)
    BY <1>2, <1>3 DEF Executing
  <2>2. \A k \in Issues : Execution(k, d.issue[k]) = Execution(k, db.issue[k])
    BY <1>2, <1>3 DEF Execution
  <2>3. ValidExecution(db)
    BY <1>1 DEF Valid
  <2>. HIDE DEF x
  <2>. QED
    BY <1>3, <2>1, <2>2, <2>3 DEF ValidExecution, Owns
<1>5. ASSUME NEW k \in Issues, d.issue[k] # None
      PROVE  /\ ValidLifecycle(d.issue[k]) /\ ValidSuspension(d.issue[k])
             /\ ValidAnsweredLaunch(d, k) /\ d.quarantined[k] = None
  <2>1. db.issue[k] # None
    BY <1>3, <1>5
  <2>2. /\ ValidLifecycle(db.issue[k]) /\ ValidSuspension(db.issue[k])
        /\ ValidAnsweredLaunch(db, k) /\ db.quarantined[k] = None
    BY <1>1, <2>1 DEF Valid
  <2>3. CASE k # i
    BY <1>3, <2>2, <2>3 DEF ValidAnsweredLaunch, RequestsOf
  <2>4. CASE k = i
    <3>1. ValidLifecycle(z)
      BY <1>2, <2>2, <2>4 DEF ValidLifecycle, Executing
    <3>2. ValidSuspension(z)
      BY <1>2, <2>2, <2>4 DEF ValidSuspension, Terminal
    <3>3. ValidAnsweredLaunch(d, i)
      BY <1>2, <1>3 DEF ValidAnsweredLaunch
    <3>. QED
      BY <1>3, <2>2, <2>4, <3>1, <3>2, <3>3
  <2>. QED
    BY <2>3, <2>4
<1>6. ASSUME NEW k \in Issues
      PROVE  ValidEffect(d, k)
  <2>1. ValidEffect(db, k)
    BY <1>1 DEF Valid
  <2>2. CASE k # i
    BY <1>3, <2>1, <2>2 DEF ValidEffect
  <2>3. CASE k = i
    <3>1. db.effect[i] # None => db.effect[i].kind \in EffectKinds
      BY <1>1 DEF Snapshots, Effects
    <3>2. \A kind \in EffectKinds \ {"apply_resolution"} : DemandedStatus[kind] # "launching"
      BY DEF EffectKinds, DemandedStatus
    <3>3. ValidEffect(db, i)
      BY <2>1, <2>3
    <3>4. db.effect[i] # None =>
            /\ x.run = db.effect[i].run /\ db.effect[i].kind = "apply_resolution" /\ Resolved(x)
      BY <3>1, <3>2, <3>3 DEF ValidEffect
    <3>5. db.effect[i] # None =>
            z.run = db.effect[i].run /\ z.status \notin Terminal /\ Resolved(z)
      BY <1>2, <3>4 DEF Resolved, Terminal
    <3>. QED
      BY <1>2, <1>3, <2>3, <3>4, <3>5 DEF ValidEffect
  <2>. QED
    BY <2>2, <2>3
<1>7. ASSUME NEW r \in d.requests
      PROVE  ValidRequest(d, r)
  <2>1. ValidRequest(db, r) /\ r.issue \in Issues
    BY <1>1, <1>3 DEF Valid, Snapshots, Requests
  <2>2. CASE r.issue # i
    BY <1>3, <2>1, <2>2 DEF ValidRequest
  <2>3. CASE r.issue = i
    <3>1. x.status # "completed" /\ x # None
      BY <1>1, NoneAssumption
    <3>2. Delivered(z, r) <=> Delivered(x, r)
      BY <1>2 DEF Delivered
    <3>. HIDE DEF x
    <3>. QED
      BY <1>2, <1>3, <2>1, <2>3, <3>1, <3>2 DEF ValidRequest, x
  <2>. QED
    BY <2>2, <2>3
<1>8. Valid(d)
  BY <1>4, <1>5, <1>6, <1>7 DEF Valid
<1>9. Rested(d)
  <2>1. Settle(z) = z
    BY <1>2 DEF Settle
  <2>. QED
    BY <1>1, <1>3, <2>1 DEF Rested
<1>. QED
  BY <1>3, <1>8, <1>9 DEF Stored, z, d

\* An update to a snapshot that is valid and at rest is stored exactly.
LEMMA StoredExact ==
  ASSUME NEW i \in Issues, NEW after, Stored(after), Commit(i, after)
  PROVE  db' = after
BY UpdateExact DEF Stored, Commit

\* Recording the worker keeps the invariant: its generation had none.
LEMMA RecordKept ==
  ASSUME IInv, NEW i \in Issues, RecordWorkerPID(i)
  PROVE  IInv' /\ Careful
<1>. DEFINE seen == job[i].seen
            x == db.issue[i]
            z == Recorded(x)
            p == Execution(i, seen)
<1>1. /\ sup = "up" /\ job[i] # None /\ job[i].pc = "record" /\ UNCHANGED <<sup, called>>
  BY DEF RecordWorkerPID, At
<1>2. /\ seen \in ManagedIssues /\ db.active = p /\ db.active # None /\ x \in ManagedIssues /\ x # None
      /\ db.active = Execution(i, x) /\ x.gen = seen.gen /\ x.status = "launching"
  <2>1. x.status = "launching"
    BY <1>1 DEF IInv, JobsOk, JobOk
  <2>. QED
    BY <1>1, <2>1, HeldFacts DEF Held
<1>3. /\ Commit(i, Put(db, i, z)) /\ ran' = ran \cup {p} /\ procs' = procs
      /\ Goto(i, "working", seen, "")
  <2>1. x # None /\ x.status = "launching" /\ Owns(db, i, x) /\ Owns(db, i, seen)
    BY <1>2 DEF Owns
  <2>. QED
    BY <2>1 DEF RecordWorkerPID, Recorded
<1>4. /\ z \in ManagedIssues /\ z # None /\ z.status = "running" /\ z.pid = TRUE
      /\ z.gen = x.gen /\ z.answers = x.answers
  BY <1>2, RecordedFields
<1>5. Stored(Put(db, i, z))
  BY <1>2, RecordedStored DEF IInv
<1>. HIDE DEF z
<1>6. db' = Put(db, i, z)
  BY <1>3, <1>5, StoredExact
<1>7. /\ db'.issue[i] = z /\ \A k \in Issues \ {i} : db'.issue[k] = db.issue[k]
      /\ db'.active = db.active /\ db'.effect = db.effect /\ db'.quarantined = db.quarantined
  BY <1>4, <1>6, PutFields DEF IInv, Stored
<1>8. p \in Executions /\ p.issue = i /\ p.gen = x.gen
  BY <1>2, ExecutionTyped
<1>9. Written(i)
  <2>1. x.gen \in Nat
    BY <1>2 DEF ManagedIssues
  <2>. QED
    BY <1>2, <1>4, <1>7, <2>1 DEF Written, Moves, Unstarted
<1>10. /\ job' \in [Issues -> Jobs \cup {None}] /\ \A k \in Issues \ {i} : job'[k] = job[k]
       /\ job'[i].pc = "working" /\ job'[i].seen = seen /\ job'[i] # None
  <2>1. seen \in ManagedIssues \cup Effects \cup {None} /\ "working" \in Pcs /\ JobsOk
    BY <1>2 DEF IInv, Pcs
  <2>2. Goto(i, "working", seen, "")
    BY <1>3
  <2>3. PICK v \in ManagedIssues \cup Effects \cup {None} : v = seen
    BY <2>1
  <2>4. Goto(i, "working", v, "") /\ "" \in Results \cup {""}
    BY <2>2, <2>3
  <2>5. /\ job' \in [Issues -> Jobs \cup {None}] /\ \A k \in Issues \ {i} : job'[k] = job[k]
        /\ job'[i].pc = "working" /\ job'[i].seen = v /\ job'[i] # None
    BY <2>1, <2>4, GotoFields
  <2>. QED
    BY <2>3, <2>5
<1>. HIDE DEF seen, p
<1>12. Careful
  BY <1>7, <1>9, WrittenCareful
<1>13. JobsOk'
  <2>1. JobOk(i)'
    BY <1>2, <1>4, <1>7, <1>10 DEF JobOk, p
  <2>2. \A k \in Issues \ {i} : JobOk(k)'
    BY <1>1, <1>7, <1>10, OtherJob
  <2>. QED
    BY <1>10, <2>1, <2>2 DEF JobsOk
<1>14. JobsUp'
  BY <1>1 DEF JobsUp
<1>15. WorkersKnown'
  <2>1. procs' \subseteq Executions /\ ran' \subseteq Executions
    BY <1>3, <1>8 DEF IInv, WorkersKnown
  <2>2. ASSUME NEW q \in procs' \cap ran'
        PROVE  q = p
    <3>1. CASE q \in ran
      <4>1. db.active = q
        BY <1>3, <2>2, <3>1 DEF IInv, WorkersKnown
      <4>. QED
        BY <1>2, <4>1
    <3>. QED
      BY <1>3, <3>1
  <2>3. db'.active = p /\ db'.issue[p.issue].pid = TRUE /\ sup' = "up"
        /\ job'[p.issue] # None /\ job'[p.issue].pc = "working"
    BY <1>1, <1>2, <1>4, <1>7, <1>8, <1>10
  <2>. QED
    BY <2>1, <2>2, <2>3 DEF WorkersKnown
<1>16. Spent'
  <2>. SUFFICES ASSUME NEW q \in ran'
                PROVE  /\ db'.issue[q.issue] = None => db'.quarantined[q.issue] # None
                       /\ db'.issue[q.issue] # None =>
                            /\ q.gen <= db'.issue[q.issue].gen
                            /\ q.gen = db'.issue[q.issue].gen =>
                                 db'.issue[q.issue].status \notin Unstarted
    BY DEF Spent
  <2>1. q.issue \in Issues /\ q.gen \in Nat
    BY <1>3, <1>8 DEF IInv, WorkersKnown, Executions
  <2>2. CASE q.issue = i
    <3>1. q.gen <= z.gen
      <4>1. x.gen \in Nat
        BY <1>2 DEF ManagedIssues
      <4>2. q \in ran => q.gen <= x.gen
        BY <1>2, <2>2 DEF IInv, Spent
      <4>3. q = p => q.gen <= x.gen
        BY <1>8, <4>1
      <4>. QED
        BY <1>3, <1>4, <4>2, <4>3
    <3>. QED
      BY <1>4, <1>7, <2>2, <3>1 DEF Unstarted
  <2>3. CASE q.issue # i
    BY <1>3, <1>7, <1>8, <2>1, <2>3 DEF IInv, Spent
  <2>. QED
    BY <2>2, <2>3
<1>17. AnswerDeliveredOnce'
  BY <1>7, <1>9, WrittenAnswers
<1>18. Stored(db')
  BY <1>5, <1>6
<1>. QED
  BY <1>12, <1>13, <1>14, <1>15, <1>16, <1>17, <1>18 DEF IInv

-----------------------------------------------------------------------------
(* What the operator may do to the issue that executes is stored as asked. *)

\* An answered request leaves a snapshot that is valid and at rest.
LEMMA AnsweredStored ==
  ASSUME Stored(db), NEW r \in db.requests, r.status = "pending"
  PROVE  /\ r \in Requests /\ Stored(Replace(db, r, "answered"))
         /\ Replace(db, r, "answered").issue = db.issue
         /\ Replace(db, r, "answered").active = db.active
         /\ Replace(db, r, "answered").effect = db.effect
         /\ Replace(db, r, "answered").quarantined = db.quarantined
<1>. DEFINE a == [r EXCEPT !.status = "answered"]
            d == Replace(db, r, "answered")
<1>1. db \in Snapshots /\ Valid(db) /\ Rested(db) /\ r \in Requests
  BY DEF Stored, Snapshots
<1>2. /\ a \in Requests /\ a.status = "answered" /\ a.issue = r.issue /\ a.id = r.id /\ a.run = r.run
  BY <1>1 DEF Requests
<1>3. d = [db EXCEPT !.requests = (db.requests \ {r}) \cup {a}]
  BY DEF Replace
<1>. HIDE DEF a
<1>4. /\ d \in Snapshots /\ d.issue = db.issue /\ d.active = db.active /\ d.effect = db.effect
      /\ d.requests = (db.requests \ {r}) \cup {a} /\ d.quarantined = db.quarantined
  BY <1>1, <1>2, <1>3 DEF Snapshots
<1>. HIDE DEF d
<1>5. ValidExecution(d)
  <2>1. ValidExecution(db)
    BY <1>1 DEF Valid
  <2>. QED
    BY <1>4, <2>1 DEF ValidExecution, Owns
<1>6. ASSUME NEW k \in Issues, d.issue[k] # None
      PROVE  /\ ValidLifecycle(d.issue[k]) /\ ValidSuspension(d.issue[k])
             /\ ValidAnsweredLaunch(d, k) /\ d.quarantined[k] = None
  <2>1. /\ ValidLifecycle(d.issue[k]) /\ ValidSuspension(d.issue[k])
        /\ ValidAnsweredLaunch(db, k) /\ d.quarantined[k] = None
    BY <1>1, <1>4, <1>6 DEF Valid
  <2>2. \A q \in RequestsOf(db, k) : q.status = "answered" => q \in RequestsOf(d, k)
    BY <1>4 DEF RequestsOf
  <2>3. ValidAnsweredLaunch(d, k)
    BY <1>4, <2>1, <2>2 DEF ValidAnsweredLaunch
  <2>. QED
    BY <2>1, <2>3
<1>7. \A k \in Issues : ValidEffect(d, k)
  BY <1>1, <1>4 DEF Valid, ValidEffect
<1>8. ASSUME NEW q \in d.requests
      PROVE  ValidRequest(d, q)
  <2>1. CASE q \in db.requests
    <3>1. ValidRequest(db, q)
      BY <1>1, <2>1 DEF Valid
    <3>. QED
      BY <1>4, <3>1 DEF ValidRequest
  <2>2. CASE q = a
    <3>1. ValidRequest(db, r)
      BY <1>1 DEF Valid
    <3>. QED
      BY <1>2, <1>4, <2>2, <3>1 DEF ValidRequest
  <2>. QED
    BY <1>4, <2>1, <2>2
<1>9. Valid(d)
  BY <1>5, <1>6, <1>7, <1>8 DEF Valid
<1>10. Rested(d)
  BY <1>1, <1>4 DEF Rested
<1>11. Stored(d)
  BY <1>4, <1>9, <1>10 DEF Stored
<1>. QED
  BY <1>1, <1>4, <1>11 DEF d

\* So does the removal of an issue's effect.
LEMMA ResolvedStored ==
  ASSUME Stored(db), NEW i \in Issues
  PROVE  /\ Stored([db EXCEPT !.effect[i] = None])
         /\ [db EXCEPT !.effect[i] = None].issue = db.issue
         /\ [db EXCEPT !.effect[i] = None].active = db.active
         /\ [db EXCEPT !.effect[i] = None].quarantined = db.quarantined
         /\ \A k \in Issues \ {i} : [db EXCEPT !.effect[i] = None].effect[k] = db.effect[k]
<1>. DEFINE d == [db EXCEPT !.effect[i] = None]
<1>1. db \in Snapshots /\ Valid(db) /\ Rested(db)
  BY DEF Stored
<1>2. /\ d \in Snapshots /\ d.issue = db.issue /\ d.active = db.active
      /\ d.requests = db.requests /\ d.quarantined = db.quarantined
      /\ d.effect[i] = None /\ \A k \in Issues \ {i} : d.effect[k] = db.effect[k]
  BY <1>1 DEF Snapshots
<1>. HIDE DEF d
<1>3. ValidExecution(d)
  <2>1. ValidExecution(db)
    BY <1>1 DEF Valid
  <2>. QED
    BY <1>2, <2>1 DEF ValidExecution, Owns
<1>4. ASSUME NEW k \in Issues, d.issue[k] # None
      PROVE  /\ ValidLifecycle(d.issue[k]) /\ ValidSuspension(d.issue[k])
             /\ ValidAnsweredLaunch(d, k) /\ d.quarantined[k] = None
  <2>1. /\ ValidLifecycle(d.issue[k]) /\ ValidSuspension(d.issue[k])
        /\ ValidAnsweredLaunch(db, k) /\ d.quarantined[k] = None
    BY <1>1, <1>2, <1>4 DEF Valid
  <2>2. ValidAnsweredLaunch(d, k)
    BY <1>2, <2>1 DEF ValidAnsweredLaunch, RequestsOf
  <2>. QED
    BY <2>1, <2>2
<1>5. \A k \in Issues : ValidEffect(d, k)
  BY <1>1, <1>2 DEF Valid, ValidEffect
<1>6. \A q \in d.requests : ValidRequest(d, q)
  BY <1>1, <1>2 DEF Valid, ValidRequest
<1>7. Valid(d)
  BY <1>3, <1>4, <1>5, <1>6 DEF Valid
<1>8. Rested(d)
  BY <1>1, <1>2 DEF Rested
<1>9. Stored(d)
  BY <1>2, <1>7, <1>8 DEF Stored
<1>. QED
  BY <1>2, <1>9 DEF d

\* Steps that leave the issues and the execution as they are.
LEMMA ExactKept ==
  ASSUME IInv, Stored(db'), db'.issue = db.issue, db'.active = db.active,
         db'.quarantined = db.quarantined,
         \A k \in Issues : db'.effect[k] = db.effect[k]
                             \/ [issue |-> k, effect |-> db.effect[k]] \in called',
         UNCHANGED <<job, sup, ran>>, procs' \subseteq procs, called \subseteq called'
  PROVE  IInv' /\ Careful
<1>1. JobsOk'
  <2>1. \A k \in Issues : JobOk(k)'
    BY OtherJob
  <2>. QED
    BY <2>1 DEF IInv, JobsOk
<1>2. JobsUp' /\ WorkersKnown' /\ Spent' /\ AnswerDeliveredOnce'
  BY DEF IInv, JobsUp, WorkersKnown, Spent, AnswerDeliveredOnce, Managed
<1>3. Careful
  BY DEF Careful, Managed
<1>. QED
  BY <1>1, <1>2, <1>3 DEF IInv

\* An answer keeps the invariant.
LEMMA AnswerKept ==
  ASSUME IInv, NEW r \in db.requests, Answer(r)
  PROVE  IInv' /\ Careful
<1>. DEFINE d == Replace(db, r, "answered")
<1>1. /\ r.status = "pending" /\ Commit(r.issue, d)
      /\ UNCHANGED <<job, sup, ran, procs, called>>
  BY DEF Answer, Elsewhere
<1>2. /\ r \in Requests /\ Stored(d) /\ d.issue = db.issue /\ d.active = db.active
      /\ d.effect = db.effect /\ d.quarantined = db.quarantined
  BY <1>1, AnsweredStored DEF IInv
<1>3. r.issue \in Issues
  BY <1>2 DEF Requests
<1>. HIDE DEF d
<1>4. db' = d
  BY <1>1, <1>2, <1>3, StoredExact
<1>. QED
  BY <1>1, <1>2, <1>4, ExactKept

\* The command line's synchronisation keeps the invariant.
LEMMA ResolveSyncKept ==
  ASSUME IInv, NEW i \in Issues, ResolveSync(i)
  PROVE  IInv' /\ Careful
<1>. DEFINE d == [db EXCEPT !.effect[i] = None]
<1>1. /\ Commit(i, d) /\ UNCHANGED <<job, sup, ran, procs>>
      /\ called' = called \cup {[issue |-> i, effect |-> db.effect[i]]}
  BY DEF ResolveSync
<1>2. /\ Stored(d) /\ d.issue = db.issue /\ d.active = db.active
      /\ d.quarantined = db.quarantined /\ \A k \in Issues \ {i} : d.effect[k] = db.effect[k]
  BY ResolvedStored DEF IInv
<1>. HIDE DEF d
<1>3. db' = d
  BY <1>1, <1>2, StoredExact
<1>4. \A k \in Issues : db'.effect[k] = db.effect[k]
                          \/ [issue |-> k, effect |-> db.effect[k]] \in called'
  BY <1>1, <1>2, <1>3
<1>. QED
  BY <1>1, <1>2, <1>3, <1>4, ExactKept

-----------------------------------------------------------------------------
(* The supervisor goes down and comes up; everything together. *)

\* A crash and the phases of a start keep the invariant.
LEMMA SupervisorKept ==
  ASSUME IInv, Crash \/ Restart \/ BeginReconciliation \/ Ready
  PROVE  IInv' /\ Careful
<1>1. /\ UNCHANGED <<db, ran, called>> /\ procs' \subseteq procs
      /\ job' \in [Issues -> Jobs \cup {None}] /\ \A i \in Issues : job'[i] = None
  <2>1. CASE Crash
    BY <2>1 DEF Crash, Unrecorded
  <2>2. CASE Restart \/ BeginReconciliation \/ Ready
    BY <2>2 DEF Restart, BeginReconciliation, Ready, IInv, JobsUp, JobsOk
  <2>. QED
    BY <2>1, <2>2
<1>2. JobsOk' /\ JobsUp'
  BY <1>1 DEF JobsOk, JobOk, JobsUp
<1>3. WorkersKnown'
  <2>1. procs' \subseteq Executions /\ ran' \subseteq Executions
    BY <1>1 DEF IInv, WorkersKnown
  <2>2. \A p \in procs' \cap ran' : p \in procs \cap ran /\ db'.active = p /\ db'.issue[p.issue].pid = TRUE
    BY <1>1 DEF IInv, WorkersKnown
  <2>3. CASE Crash \/ Restart
    BY <2>1, <2>2, <2>3 DEF WorkersKnown, Crash, Restart
  <2>4. CASE Ready
    <3>1. procs' \cap ran' = {}
      BY <1>1, <2>4 DEF Ready, IInv, WorkersKnown
    <3>. QED
      BY <2>1, <3>1 DEF WorkersKnown
  <2>5. CASE BeginReconciliation
    <3>1. ASSUME NEW p \in procs' \cap ran'
          PROVE  FALSE
      <4>1. /\ db.active = p /\ db.issue[p.issue].pid = TRUE /\ p # None
        BY <1>1, <2>2, <3>1, NoneAssumption DEF IInv, WorkersKnown
      <4>2. p.issue \in Issues /\ db.issue[p.issue] # None
        <5>1. db \in Snapshots /\ Valid(db)
          BY DEF IInv, Stored
        <5>2. p.issue \in Issues
          BY <3>1, <2>1 DEF Executions
        <5>. QED
          BY <4>1, <5>1, <5>2, ExecutingOwns
      <4>. QED
        BY <2>5, <4>1, <4>2 DEF BeginReconciliation
    <3>. QED
      BY <2>1, <3>1 DEF WorkersKnown
  <2>. QED
    BY <2>3, <2>4, <2>5
<1>4. Stored(db') /\ Spent' /\ AnswerDeliveredOnce'
  BY <1>1 DEF IInv, Spent, AnswerDeliveredOnce, Managed
<1>5. Careful
  BY <1>1 DEF Careful
<1>. QED
  BY <1>2, <1>3, <1>4, <1>5 DEF IInv

\* The empty snapshot satisfies the invariant.
LEMMA InitIInv == Init => IInv
<1>. SUFFICES ASSUME Init PROVE IInv
  OBVIOUS
<1>1. /\ db.issue = [i \in Issues |-> None] /\ db.active = None
      /\ db.effect = [i \in Issues |-> None] /\ db.requests = {}
      /\ db.quarantined = [i \in Issues |-> None] /\ db \in Snapshots
  BY DEF Init, Snapshots
<1>2. Valid(db)
  BY <1>1 DEF Valid, ValidExecution, ValidEffect
<1>3. Rested(db)
  BY <1>1 DEF Rested, Settle
<1>4. JobsOk /\ JobsUp
  BY DEF Init, JobsOk, JobOk, JobsUp
<1>5. WorkersKnown /\ Spent
  BY DEF Init, WorkersKnown, Spent
<1>6. AnswerDeliveredOnce
  BY <1>1 DEF AnswerDeliveredOnce, Managed
<1>. QED
  BY <1>1, <1>2, <1>3, <1>4, <1>5, <1>6 DEF IInv, Stored

\* Every step keeps the invariant and is careful.
LEMMA NextKept == IInv /\ [Next]_vars => IInv' /\ [Careful]_vars
<1>. SUFFICES ASSUME IInv, [Next]_vars PROVE IInv' /\ [Careful]_vars
  OBVIOUS
<1>1. CASE UNCHANGED vars
  <2>1. IInv'
    BY <1>1 DEF vars, IInv, JobsOk, JobOk, JobsUp, WorkersKnown, Spent, AnswerDeliveredOnce, Managed
  <2>. QED
    BY <1>1, <2>1
<1>2. ASSUME NEW i \in Issues, JobStep(i) PROVE IInv' /\ Careful
  <2>1. CASE RecordWorkerPID(i)
    BY <2>1, RecordKept
  <2>2. CASE ~RecordWorkerPID(i)
    <3>1. Tame(i)
      BY <1>2, <2>2, StartIssueTame, BeginTame, ClaimTame, RunClaimedTame, LaunchStepTame, ValidateTame,
         SpawnTame, WorkerExitTame, ResultTame, OutcomeTame, PublishTame, PullRequestTame, SyncTame
         DEF JobStep
    <3>. QED
      BY <3>1, TameKept
  <2>. QED
    BY <2>1, <2>2
<1>3. ASSUME NEW i \in Issues, SchedulerStep(i) PROVE IInv' /\ Careful
  BY <1>3, SchedulerTame, TameKept
<1>4. ASSUME NEW i \in Issues, OperatorStep(i) PROVE IInv' /\ Careful
  <2>1. CASE ResolveSync(i)
    BY <2>1, ResolveSyncKept
  <2>2. CASE \E action \in Actions : Resolve(i, action)
    BY <2>2, OperatorTame, TameKept
  <2>. QED
    BY <1>4, <2>1, <2>2 DEF OperatorStep
<1>5. ASSUME NEW i \in Issues, Merge(i) \/ Close(i) PROVE IInv' /\ Careful
  <2>1. UNCHANGED <<db, job, sup, procs, ran, called>>
    BY <1>5 DEF Merge, Close
  <2>. QED
    BY <2>1, ExactKept DEF IInv
<1>6. ASSUME NEW r \in db.requests, Answer(r) \/ PrepareAnswer(r) PROVE IInv' /\ Careful
  <2>1. r \in Requests /\ r.issue \in Issues
    BY DEF IInv, Stored, Snapshots, Requests
  <2>2. CASE Answer(r)
    BY <2>2, AnswerKept
  <2>3. CASE PrepareAnswer(r)
    <3>1. Tame(r.issue)
      BY <2>1, <2>3, OperatorTame
    <3>. QED
      BY <2>1, <3>1, TameKept
  <2>. QED
    BY <1>6, <2>2, <2>3
<1>7. ASSUME StartStep PROVE IInv' /\ Careful
  <2>1. CASE \E i \in Issues : StopWorker(i) \/ Reconcile(i)
    BY <2>1, StartTame, TameKept
  <2>2. CASE Restart \/ BeginReconciliation \/ Ready
    BY <2>2, SupervisorKept
  <2>. QED
    BY <1>7, <2>1, <2>2 DEF StartStep
<1>8. ASSUME Crash PROVE IInv' /\ Careful
  BY <1>8, SupervisorKept
<1>9. ASSUME NEW p \in procs, DetachedExit(p) PROVE IInv' /\ Careful
  <2>1. UNCHANGED <<db, job, sup, ran, called>> /\ procs' \subseteq procs
    BY <1>9 DEF DetachedExit
  <2>. QED
    BY <2>1, ExactKept DEF IInv
<1>. QED
  BY <1>1, <1>2, <1>3, <1>4, <1>5, <1>6, <1>7, <1>8, <1>9 DEF Next

-----------------------------------------------------------------------------
(* The theorems. *)

\* The inductive invariant holds.
LEMMA Invariance == Spec => []IInv
<1>1. Init => IInv
  BY InitIInv
<1>2. IInv /\ [Next]_vars => IInv'
  BY NextKept
<1>. QED
  BY <1>1, <1>2, PTL DEF Spec

\* The rest of the types: the supervisor's phases, what the start has still to look
\* at, and the pull requests.
RestTyped ==
  /\ sup \in {"up", "down", "stopping", "reconciling"} /\ todo \subseteq Issues
  /\ remote \in [Issues -> {"none", "open", "merged", "closed"}]

\* The variables the invariant says nothing of keep their types.
LEMMA RestKept == RestTyped /\ [Next]_vars => RestTyped'
<1>. SUFFICES ASSUME RestTyped, [Next]_vars PROVE RestTyped'
  OBVIOUS
<1>1. ASSUME NEW i \in Issues PROVE Opened(i) \in [Issues -> {"none", "open", "merged", "closed"}]
  BY DEF RestTyped, Opened
<1>2. CASE UNCHANGED <<sup, todo, remote>>
  BY <1>2 DEF RestTyped
<1>3. ASSUME NEW i \in Issues, Outcome(i) \/ PublishCheckpoint(i) \/ Merge(i) \/ Close(i)
             \/ StopWorker(i) \/ Reconcile(i)
      PROVE  RestTyped'
  BY <1>1, <1>3 DEF RestTyped, Outcome, PublishCheckpoint, Elsewhere, Merge, Close, StopWorker, Reconcile
<1>4. CASE Restart \/ BeginReconciliation \/ Ready \/ Crash
  BY <1>4 DEF RestTyped, Restart, BeginReconciliation, Ready, Crash
<1>5. ASSUME NEW i \in Issues, JobStep(i)
      PROVE  RestTyped'
  <2>1. \/ Outcome(i) \/ PublishCheckpoint(i) \/ UNCHANGED <<sup, todo, remote>>
    BY <1>5 DEF JobStep, StartIssue, Begin, Claim, RunClaimed, LaunchStep, Validate, Spawn,
       RecordWorkerPID, WorkerExit, Result, Published, PullRequest, SyncGitHub, Synced, Elsewhere
  <2>. QED
    BY <1>2, <1>3, <2>1
<1>6. ASSUME NEW i \in Issues, SchedulerStep(i) \/ OperatorStep(i)
      PROVE  RestTyped'
  BY <1>2, <1>6 DEF SchedulerStep, Dispatch, Admit, Webhook, TerminalPullRequest, OperatorStep, Resolve,
     ResolveSync, Elsewhere
<1>7. ASSUME NEW r, Answer(r) \/ PrepareAnswer(r)
      PROVE  RestTyped'
  BY <1>2, <1>7 DEF Answer, PrepareAnswer, Elsewhere
<1>8. ASSUME NEW p, DetachedExit(p)
      PROVE  RestTyped'
  BY <1>2, <1>8 DEF DetachedExit
<1>. QED
  BY <1>2, <1>3, <1>4, <1>5, <1>6, <1>7, <1>8 DEF Next, StartStep, vars

\* Every variable keeps to the code's types, whatever the store isolates or refuses.
THEOREM TypesHold == Spec => []TypeOK
<1>1. Init => RestTyped
  BY DEF Init, RestTyped
<1>2. IInv /\ RestTyped => TypeOK
  BY DEF IInv, Stored, JobsOk, WorkersKnown, RestTyped, TypeOK
<1>. QED
  BY <1>1, <1>2, RestKept, Invariance, PTL DEF Spec

\* A running supervisor lets no recorded worker live but the active execution's,
\* whatever crashed before: the start kills what is on record (StopWorkers).
THEOREM OneWorkerOnRecord == Spec => []OneRecordedWorker
<1>1. IInv => OneRecordedWorker
  BY DEF IInv, WorkersKnown, OneRecordedWorker
<1>. QED
  BY <1>1, Invariance, PTL

\* From a launch's validation to the worker's outcome the execution stays the
\* job's, whatever the operator, GitHub and other issues do meanwhile.
THEOREM RunKeepsAuthority == Spec => []RunHoldsAuthority
<1>1. IInv => RunHoldsAuthority
  BY DEF IInv, JobsOk, JobOk, Held, RunHoldsAuthority
<1>. QED
  BY <1>1, Invariance, PTL

\* PrepareAnsweredRequests hands an answer to its issue at most once.
THEOREM AnswersGoOnce == Spec => []AnswerDeliveredOnce
<1>1. IInv => AnswerDeliveredOnce
  BY DEF IInv
<1>. QED
  BY <1>1, Invariance, PTL

\* recordWorkerPID never records a second worker for the same execution.
THEOREM GenerationsRunOnce == Spec => RunsOnce
<1>1. IInv /\ [Next]_vars =>
        [\A i \in Issues :
           (Managed(i) /\ Managed(i)' /\ db.issue[i].status = "launching"
              /\ db'.issue[i].status = "running") => Execution(i, db'.issue[i]) \notin ran]_vars
  BY NextKept DEF Careful
<1>. QED
  BY <1>1, Invariance, PTL DEF Spec, RunsOnce

\* An effect leaves the snapshot after its call on GitHub succeeded, or with the
\* status that wanted it.
THEOREM EffectsAreNotDropped == Spec => EffectNotDropped
<1>1. IInv /\ [Next]_vars =>
        [\A i \in Issues :
           (db.effect[i] # None /\ db'.effect[i] # db.effect[i]) =>
             \/ [issue |-> i, effect |-> db.effect[i]] \in called'
             \/ ~Managed(i)'
             \/ db'.issue[i].status # db.issue[i].status]_vars
  BY NextKept DEF Careful
<1>. QED
  BY <1>1, Invariance, PTL DEF Spec, EffectNotDropped
=============================================================================
