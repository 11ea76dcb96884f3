--------------------------- MODULE IssueAggregate ---------------------------
(***************************************************************************)
(* The managed part of a repository's snapshot and the rules every update  *)
(* of it obeys (internal/domain/issue, internal/domain/snapshot and the    *)
(* aggregate helpers of internal/adapter/state).                           *)
(*                                                                         *)
(* A snapshot d is a record: the managed issues, the one active execution, *)
(* the pending GitHub effects, the requests put to the operator and the    *)
(* quarantined issues.  An execution is identified by a run and a          *)
(* generation; a run is named by the generation in which it began, and a   *)
(* request or a checkpoint by the generation whose execution made it.      *)
(***************************************************************************)
EXTENDS Integers, Sequences, FiniteSets

CONSTANTS Issues, \* issue numbers
          None    \* nothing recorded

Executing == {"claiming", "claimed", "launching", "running"}
Terminal == {"completed", "failed", "blocked", "canceled"}
\* Variant: a launch cut short is not taken up again.
DispatchesWorkerOnce == {"claiming", "resume_pending", "retry_wait", "resolving_conflict"}

DispatchesWorker ==
  {"claiming", "launching", "resume_pending", "retry_wait", "resolving_conflict"}
PendingDispatch == DispatchesWorker \cup {"awaiting_checks", "awaiting_merge"}
BlocksNewAdmission == PendingDispatch \cup {"claimed", "running"}
Statuses == Terminal \cup BlocksNewAdmission \cup {"needs_input"}

LaunchSources == {"claimed", "resume_pending", "retry_wait", "resolving_conflict"}
Stages == {"resume", "publish", "checks", "conflict"}
Actions == {"cancel", "resume", "retry-stage", "adopt-pr"}

\* The status an effect kind demands of its issue.
DemandedStatus ==
  [mark_done |-> "completed", mark_needs_input |-> "needs_input",
   mark_failed |-> "failed", mark_blocked |-> "blocked"]
EffectKinds == DOMAIN DemandedStatus \cup {"apply_resolution"}

StageFor(status) ==
  CASE status \in {"awaiting_checks", "awaiting_merge"} -> "checks"
    [] status = "resolving_conflict" -> "conflict"
    [] OTHER -> "resume"

-----------------------------------------------------------------------------
(* What a snapshot may hold (internal/domain/snapshot). *)

Executions == [issue : Issues, run : Nat, gen : Nat]
Effects == [kind : EffectKinds, run : Nat, gen : Nat]
Requests == [issue : Issues, id : Nat, run : Nat,
             status : {"pending", "answered", "canceled"}]
Checkpoints == [id : Nat, run : Nat, gen : Nat, kind : {"", "needs_input"}, stage : Stages,
                digest : BOOLEAN]
Suspensions == [state : {"active", "quarantined", "resolved"}, actions : SUBSET Actions,
                checkpoint : Nat]
ManagedIssues ==
  [status : Statuses, source : LaunchSources \cup {""}, run : Nat, gen : Nat, pid : BOOLEAN,
   tree : BOOLEAN, pr : BOOLEAN, session : BOOLEAN, attempts : Nat, conts : Nat,
   cont : Checkpoints \cup {None}, susp : Suspensions \cup {None}, answers : Seq(Nat)]
Quarantines == [requests : SUBSET Requests, answers : Seq(Nat)]

Snapshots ==
  [issue : [Issues -> ManagedIssues \cup {None}], active : Executions \cup {None},
   effect : [Issues -> Effects \cup {None}], requests : SUBSET Requests,
   quarantined : [Issues -> Quarantines \cup {None}]]

ASSUME NoneAssumption ==
  /\ None \notin ManagedIssues /\ None \notin Executions /\ None \notin Effects
  /\ None \notin Checkpoints /\ None \notin Suspensions /\ None \notin Quarantines

-----------------------------------------------------------------------------
(* Transitions of one issue. *)

Resolved(x) == x.susp # None /\ x.susp.state = "resolved"

\* ApplyIssueTransition, once the transition's From matched.
Apply(x, to) ==
  [x EXCEPT
     !.status = to,
     !.source = IF x.status = "launching" /\ to # "launching" THEN "" ELSE @,
     !.cont = IF to = "completed" THEN None ELSE @,
     !.susp = IF \/ to = "completed"
                 \/ to \in Terminal /\ x.status \notin Terminal /\ Resolved(x)
              THEN None ELSE @]

\* Launch: the status left behind is remembered as the launch source.
Launch(x) == [Apply(x, "launching") EXCEPT !.source = x.status]

FailFrom == {"claimed", "launching", "running", "awaiting_checks", "awaiting_merge",
             "resume_pending", "resolving_conflict", "retry_wait"}
RetryFrom == {"launching", "running", "awaiting_checks", "awaiting_merge"}
CompleteFrom == RetryFrom \cup {"resume_pending", "blocked", "failed"}

-----------------------------------------------------------------------------
(* Execution authority and continuation checkpoints. *)

Execution(i, x) == [issue |-> i, run |-> x.run, gen |-> x.gen]

\* OwnsActiveExecution for the identity x carried when it was read.
Owns(d, i, x) == d.active # None /\ d.active = Execution(i, x)

Put(d, i, x) == [d EXCEPT !.issue[i] = x]

Checkpoint(gen, run, kind, stage, digest) ==
  [id |-> gen, run |-> run, gen |-> gen, kind |-> kind, stage |-> stage, digest |-> digest]

\* CaptureContinuation followed by ReleaseExecution.
Capture(d, i) ==
  LET x == d.issue[i]
  IN [Put(d, i, [x EXCEPT !.cont = Checkpoint(x.gen, x.run, "", StageFor(x.status), FALSE),
                          !.susp = IF Resolved(x) THEN None ELSE @,
                          !.pid = FALSE])
      EXCEPT !.active = None]

\* The checkpoint the store takes itself when a status gives up execution.
Captured(x, active) ==
  LET fresh == \/ x.cont = None
               \/ /\ x.cont.kind = "needs_input"
                  /\ x.cont.run # active.run \/ x.cont.gen # active.gen
      old == IF fresh
             THEN Checkpoint(active.gen, active.run, "", StageFor(x.status), FALSE)
             ELSE x.cont
  IN [x EXCEPT !.cont = [old EXCEPT !.run = active.run, !.gen = active.gen],
               !.susp = IF fresh /\ Resolved(x) THEN None ELSE @]

\* ResumeContinuation: a new generation of the same run takes the slot.
CanResume(d, i) ==
  LET x == d.issue[i]
  IN /\ d.active = None
     /\ x.cont # None
     /\ x.cont.run = x.run
     /\ x.cont.gen \in 1..x.gen

\* Variant: the generation is kept.
ResumeSameGeneration(d, i) == [d EXCEPT !.active = Execution(i, d.issue[i])]

Resume(d, i) ==
  LET x == [d.issue[i] EXCEPT !.gen = @ + 1]
  IN [Put(d, i, x) EXCEPT !.active = Execution(i, x)]

\* TransferExecution: a new run takes over the generation's slot.
Transfer(d, i) ==
  LET x == [d.issue[i] EXCEPT !.gen = @ + 1, !.run = d.issue[i].gen + 1]
  IN [Put(d, i, x) EXCEPT !.active = Execution(i, x)]

-----------------------------------------------------------------------------
(* Effects and requests. *)

SetEffect(d, i, kind) ==
  LET x == d.issue[i]
      e == d.effect[i]
  IN [d EXCEPT !.effect[i] =
        CASE kind = "none" -> None
          [] kind # "none" /\ e # None /\ e.kind = kind /\ e.run = x.run -> e
          [] OTHER -> [kind |-> kind, run |-> x.run, gen |-> x.gen]]

RequestsOf(d, i) == {r \in d.requests : r.issue = i}
Pending(d, i) == {r \in RequestsOf(d, i) : r.status = "pending"}

Delivered(x, r) == \E k \in DOMAIN x.answers : x.answers[k] = r.id

Replace(d, r, status) == [d EXCEPT !.requests = (@ \ {r}) \cup {[r EXCEPT !.status = status]}]

-----------------------------------------------------------------------------
(* The boundary every update passes: finalize, validate, isolate. *)

Suspend(state, actions, x) ==
  [state |-> state, actions |-> actions,
   checkpoint |-> IF x.cont = None THEN 0 ELSE x.cont.id]

\* ensureTerminalSuspension: what the operator may do about a stopped issue.
TerminalSuspension(x) ==
  LET undigested == x.cont # None /\ x.cont.stage \in {"resume", "publish"} /\ ~x.cont.digest
      stageAction == IF x.cont = None THEN {}
                     ELSE IF x.cont.stage = "resume" THEN {"resume"} ELSE {"retry-stage"}
  IN Suspend(IF undigested \/ ~x.tree THEN "quarantined" ELSE "active",
             IF undigested THEN {"cancel"}
             ELSE {"cancel"} \cup stageAction
                  \cup (IF x.pr THEN {"adopt-pr", "retry-stage"} ELSE {}),
             x)

Settle(x) ==
  IF x = None THEN None
  ELSE IF x.status = "completed" THEN [x EXCEPT !.cont = None, !.susp = None]
  ELSE IF x.status \in {"blocked", "failed"} /\ x.susp = None
       THEN [x EXCEPT !.susp = TerminalSuspension(x)]
  ELSE x

\* finalizeLifecycleBoundaries: execution ends with the status that held it.
Release(d) ==
  LET i == d.active.issue
      x == d.issue[i]
      kept == IF x.status \in {"completed", "canceled"} THEN x ELSE Captured(x, d.active)
  IN IF d.active = None THEN d
     ELSE IF x = None THEN [d EXCEPT !.active = None]
     ELSE IF x.status \in Executing THEN d
     ELSE [Put(d, i, [kept EXCEPT !.pid = FALSE]) EXCEPT !.active = None]

Finalize(d) ==
  LET released == Release(d)
  IN [released EXCEPT !.issue = [i \in Issues |-> Settle(released.issue[i])]]

-----------------------------------------------------------------------------
(* Validate: what every stored snapshot satisfies. *)

\* validateExecutionState
ValidExecution(d) ==
  LET running == {i \in Issues : d.issue[i] # None /\ d.issue[i].status \in Executing}
  IN IF running = {} THEN d.active = None
     ELSE \E i \in running : running = {i} /\ Owns(d, i, d.issue[i])

\* LegacyWorkerLaunchSource, for a launch out of an answered question.
ValidAnsweredLaunch(d, i) ==
  LET x == d.issue[i]
      unstarted == /\ x.status = "launching" /\ ~x.pid
                   /\ x.cont # None /\ x.cont.kind = "needs_input"
                   /\ x.source \in {"resume_pending", "retry_wait"}
  IN unstarted =>
       /\ x.source = "resume_pending"
       /\ x.cont.run = x.run /\ x.cont.gen + 1 = x.gen
       /\ \E r \in RequestsOf(d, i) :
            r.id = x.cont.id /\ r.run = x.cont.run /\ r.status = "answered"
       /\ Cardinality({k \in DOMAIN x.answers : x.answers[k] = x.cont.id}) = 1

\* validateIssueAggregate
ValidLifecycle(x) ==
  /\ x.pid => x.status \in Executing
  /\ x.status = "running" => x.pid
  /\ IF x.status = "launching" THEN x.source \in LaunchSources ELSE x.source = ""
  /\ x.cont # None => x.cont.gen <= x.gen

\* validateSuspension
ValidSuspension(x) ==
  x.susp # None =>
    /\ x.status # "completed"
    /\ x.status \notin Terminal \/ x.status = "canceled" => x.susp.state = "resolved"
    /\ x.susp.checkpoint # 0 => x.cont # None /\ x.cont.id = x.susp.checkpoint

\* validateEffectIntent
ValidEffect(d, i) ==
  LET x == d.issue[i]
      e == d.effect[i]
  IN e # None =>
       /\ x # None /\ x.run = e.run
       /\ IF e.kind = "apply_resolution"
          THEN x.status \notin Terminal /\ Resolved(x)
          ELSE x.status = DemandedStatus[e.kind]

\* ValidateRequestAggregate
ValidRequest(d, r) ==
  LET x == d.issue[r.issue]
  IN /\ x # None
     /\ r.run = x.run \/ r.status = "answered"
     /\ \/ r.status = "answered" /\ Delivered(x, r)
        \/ r.status = "answered" /\ x.status = "completed" /\ x.cont = None
        \/ x.cont # None /\ x.cont.id = r.id /\ x.cont.kind = "needs_input"

Valid(d) ==
  /\ ValidExecution(d)
  /\ \A i \in Issues :
       /\ d.issue[i] # None =>
            /\ ValidLifecycle(d.issue[i])
            /\ ValidSuspension(d.issue[i])
            /\ ValidAnsweredLaunch(d, i)
            /\ d.quarantined[i] = None
       /\ ValidEffect(d, i)
  /\ \A r \in d.requests : ValidRequest(d, r)

\* isolateInvalidIssue: the issue leaves the managed part with its requests
\* and what was last known of it.
Isolate(d, i, before) ==
  [issue |-> [d.issue EXCEPT ![i] = None],
   active |-> IF d.active # None /\ d.active.issue = i THEN None ELSE d.active,
   effect |-> [d.effect EXCEPT ![i] = None],
   requests |-> d.requests \ RequestsOf(d, i),
   quarantined |->
     [d.quarantined EXCEPT ![i] =
        [requests |-> RequestsOf(d, i),
         answers |-> IF before.issue[i] = None THEN <<>> ELSE before.issue[i].answers]]]

\* Store.Update on behalf of issue i: what is written when the operation's
\* own change of `before' is `after'.
Update(before, i, after) ==
  LET final == Finalize(after)
      isolated == Isolate(final, i, before)
  IN CASE Valid(final) -> final
       [] ~Valid(final) /\ Valid(isolated) -> isolated
       [] OTHER -> before

NewIssue ==
  [status |-> "claiming", source |-> "", run |-> 0, gen |-> 0, pid |-> FALSE,
   tree |-> FALSE, pr |-> FALSE, session |-> FALSE, attempts |-> 1, conts |-> 0,
   cont |-> None, susp |-> None, answers |-> <<>>]
=============================================================================
