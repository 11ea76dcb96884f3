----------------------------- MODULE Assignment -----------------------------
(***************************************************************************)
(* agent-loop delivery assignment: the repository's binary is switched to  *)
(* another immutable slot under a fence, by a transaction that rolls the   *)
(* runtime back when the new slot is not healthy, and that a later command *)
(* takes up when this one is cut short.                                    *)
(***************************************************************************)
EXTENDS OperatorControl

CONSTANT MaxFaults  \* bound: launchd and health checks that fail

ASSUME AssignmentAssumption == MaxFaults \in Nat

VARIABLES
  assignment,  \* the committed assignment of the delivery config
  asg,         \* the repository's assignment transaction
  faults       \* bound used

delivery == <<assignment, asg, faults>>

AssignmentPhases == {"planned", "draining", "applying", "validating", "rolling_back",
                     "succeeded", "rolled_back", "rollback_failed"}

Assignments == [ref : Slots, prev : Slots \cup {None}, gen : 1..(MaxCommands + 2)]
AssignmentTransactions ==
  [op : {"apply", "rollback"}, phase : AssignmentPhases,
   result : AssignmentPhases \cup {"", "deferred", "retrying"}, gen : 2..(MaxCommands + 2),
   cur : Slots, des : Slots, wasLoaded : BOOLEAN]

ASSUME AssignmentsAssumption == None \notin AssignmentTransactions

\* The first assignment of the repository, or a later one.
AssignmentInit ==
  /\ \/ assignment = [ref |-> 1, prev |-> None, gen |-> 1]
     \/ \E s \in Slots \ {1} : assignment = [ref |-> 1, prev |-> s, gen |-> 2]
  /\ asg = None
  /\ faults = 0

Fault == faults < MaxFaults /\ faults' = faults + 1

\* A drain that timed out leaves a transaction that binds nobody.
Deferred == asg # None /\ asg.phase = "draining" /\ asg.result = "deferred"
Open == asg # None /\ asg.phase \notin {"succeeded", "rolled_back"} /\ ~Deferred

\* SaveAssignmentTransaction
Save(phase, result) == asg' = [asg EXCEPT !.phase = phase, !.result = result]

InSwitch(pc) == CliAt(pc) /\ cli.cmd = "switch"

OutOfFence == <<super, starts, crashes>>

\* health: the plist names the slot, and it runs, or is at rest in a stopped snapshot.
Sound(ref, wasLoaded) ==
  /\ agent.plist = ref
  /\ IF wasLoaded THEN agent.loaded # None /\ super # None
     ELSE snap.state = "stopped" /\ ~snap.worker

HealthFails == Fault \/ (~Sound(cli.target, asg.wasLoaded) /\ UNCHANGED faults)

\* inspectAssignmentStop
MayStop == ~snap.worker /\ snap.exec = None

-----------------------------------------------------------------------------
(* The command is checked against the config, the transaction and the fence. *)

\* The transaction's committed switch is only to be closed.
Resuming(desired, g) ==
  /\ Open /\ asg.des = desired /\ asg.gen = g + 1
  /\ assignment.gen = asg.gen /\ assignment.ref = desired

Accepted(op, desired, g) ==
  /\ Deferred => /\ asg.gen = assignment.gen + 1 /\ asg.cur = assignment.ref
                 /\ fence.assignment = None
  /\ Open => asg.op = op
  /\ assignment.gen = g \/ Resuming(desired, g)

\* The retained transaction and its fence, of which a retry is a retry.
Retained(op, desired, g) ==
  /\ asg # None /\ asg.phase = "rollback_failed"
  /\ asg.op = op /\ asg.gen = g + 1 /\ asg.cur = assignment.ref /\ asg.des = desired
  /\ fence.assignment = asg.gen

\* runtimeAssignmentProtocol: what runs is what is assigned.
Recognized == agent.loaded = None \/ agent.plist = assignment.ref

Enter(pc, target) ==
  /\ cli = None /\ commands < MaxCommands
  /\ commands' = commands + 1
  /\ cli' = [cmd |-> "switch", pc |-> pc, target |-> target, loaded |-> agent.loaded # None,
             seen |-> FALSE]

\* switchTo up to the plan of a new transaction, or the phase to go on from.
BeginSwitch(op, desired, g) ==
  /\ Accepted(op, desired, g)
  /\ IF assignment.ref = desired
     THEN Resuming(desired, g) /\ Enter("closing", desired) /\ UNCHANGED asg
     ELSE /\ op = "apply" => desired >= assignment.ref
          /\ Open => asg.des = desired /\ asg.phase # "rollback_failed"
          /\ IF Open /\ asg.phase = "rolling_back"
             THEN Enter("rolling", assignment.ref) /\ UNCHANGED asg
             ELSE /\ Recognized
                  /\ Enter("fence", desired)
                  /\ IF Open THEN UNCHANGED asg
                     ELSE asg' = [op |-> op, phase |-> "planned", result |-> "",
                                  gen |-> assignment.gen + 1, cur |-> assignment.ref,
                                  des |-> desired, wasLoaded |-> agent.loaded # None]
  /\ UNCHANGED <<runtime, ctl, broker, starter, assignment, faults>>

\* Rollback: to the target of an unfinished rollback, or to the previous slot.
BeginRollback(g) ==
  LET pending == /\ asg # None /\ asg.phase \notin {"succeeded", "rolled_back"}
                 /\ asg.op = "rollback" /\ asg.gen = g + 1
  IN /\ pending \/ assignment.prev # None
     /\ BeginSwitch("rollback", IF pending THEN asg.des ELSE assignment.prev, g)

\* Retry of the switch whose rollback failed.
BeginRetry ==
  /\ asg # None
  /\ Retained(asg.op, asg.des, assignment.gen)
  /\ IF agent.loaded # None THEN MayStop ELSE ~snap.worker
  /\ Enter("retry", asg.des)
  /\ UNCHANGED <<runtime, ctl, broker, starter, delivery>>

\* RetryRollback of the rollback that failed.
BeginRetryRollback ==
  /\ asg # None
  /\ Retained(asg.op, asg.des, assignment.gen)
  /\ (agent.loaded # None) = asg.wasLoaded
  /\ agent.loaded # None => MayStop
  /\ Enter("rollback stop", assignment.ref)
  /\ UNCHANGED <<runtime, ctl, broker, starter, delivery>>

-----------------------------------------------------------------------------
(* A retry stops what runs and settles the snapshot of a stopped repository. *)

RetryStop ==
  /\ InSwitch("retry")
  /\ RequestStop /\ CliGoto("retry stopped")
  /\ UNCHANGED <<snap, alive, fence, seen, OutOfFence, control, delivery>>

\* ReconcileStoppedAssignment, which ends the command when it refuses.
RetryRefused ==
  /\ InSwitch("retry stopped") /\ Unloaded
  /\ ~asg.wasLoaded /\ (Refused \/ snap.worker)
  /\ cli' = None
  /\ UNCHANGED <<runtime, control, delivery>>

RetryPlan ==
  LET held == RecoverUnstarted(snap)
  IN /\ InSwitch("retry stopped") /\ Unloaded
     /\ asg.wasLoaded \/ ~Refused
     /\ cli' = [cli EXCEPT !.pc = "fence", !.loaded = FALSE]
     /\ IF asg.wasLoaded THEN UNCHANGED snap
        ELSE ~snap.worker /\ snap' = [held EXCEPT !.exec = None, !.state = "stopped", !.pid = 0]
     /\ Save("planned", "retrying")
     /\ UNCHANGED <<agent, alive, fence, seen, OutOfFence, control, assignment, faults>>

-----------------------------------------------------------------------------
(* The switch. *)

WriteAssignmentFence ==
  /\ InSwitch("fence")
  /\ SetFence([fence EXCEPT !.assignment = asg.gen])
  /\ CliGoto("fenced")
  /\ UNCHANGED <<agent, snap, alive, OutOfFence, control, delivery>>

RecordDraining ==
  /\ InSwitch("fenced")
  /\ Save("draining", "draining")
  /\ CliGoto(IF cli.loaded THEN "await" ELSE "switch")
  /\ UNCHANGED <<runtime, control, assignment, faults>>

\* waitForDrain
AwaitDrained ==
  /\ InSwitch("await") /\ Ready
  /\ cli' = [cli EXCEPT !.pc = "halt", !.seen = seen]
  /\ UNCHANGED <<runtime, control, delivery>>

\* The deadline: the transaction is deferred, then the fence goes.
Defer ==
  /\ InSwitch("await") /\ ~Ready
  /\ Save("draining", "deferred") /\ CliGoto("deferred")
  /\ UNCHANGED <<runtime, control, assignment, faults>>

ReleaseDeferred ==
  /\ InSwitch("deferred")
  /\ ClearFence("assignment") /\ cli' = None
  /\ UNCHANGED <<agent, snap, alive, OutOfFence, control, delivery>>

Halt ==
  /\ InSwitch("halt")
  /\ RequestStop /\ CliGoto("halting")
  /\ UNCHANGED <<snap, alive, fence, seen, OutOfFence, control, delivery>>

\* The runtime is down, or does not go down in time.
Halted ==
  /\ InSwitch("halting")
  /\ \/ Unloaded /\ CliGoto("switch") /\ UNCHANGED faults
     \/ Fault /\ CliGoto("rolling")
  /\ UNCHANGED <<runtime, control, assignment, asg>>

\* ensureDeliveryController may fail; the host's delivery agent is not modelled.
RecordApplying ==
  /\ InSwitch("switch")
  /\ \/ Save("applying", "applying") /\ CliGoto("plist") /\ UNCHANGED faults
     \/ asg.op = "apply" /\ Fault /\ CliGoto("rolling") /\ UNCHANGED asg
  /\ UNCHANGED <<runtime, control, assignment>>

WritePlist ==
  /\ InSwitch("plist")
  /\ agent' = [agent EXCEPT !.plist = cli.target]
  /\ CliGoto("start")
  /\ UNCHANGED <<snap, alive, fence, seen, OutOfFence, control, delivery>>

StartAssigned ==
  /\ InSwitch("start")
  /\ IF asg.wasLoaded THEN Load ELSE UNCHANGED agent
  /\ CliGoto("started")
  /\ UNCHANGED <<snap, alive, fence, seen, OutOfFence, control, delivery>>

RecordValidating ==
  /\ InSwitch("started")
  /\ Save("validating", "validating") /\ CliGoto("validate")
  /\ UNCHANGED <<runtime, control, assignment, faults>>

\* The health check decides: the assignment is committed, or rolled back.
Commit ==
  /\ InSwitch("validate")
  /\ \/ /\ Sound(cli.target, asg.wasLoaded)
        /\ assignment' = [ref |-> cli.target, prev |-> assignment.ref, gen |-> asg.gen]
        /\ CliGoto("committed") /\ UNCHANGED faults
     \/ HealthFails /\ CliGoto("rolling") /\ UNCHANGED assignment
  /\ UNCHANGED <<runtime, control, asg>>

\* The fence goes, also when a committed switch is resumed and found healthy.
ReleaseCommitted ==
  /\ \/ InSwitch("committed")
     \/ InSwitch("closing") /\ Sound(cli.target, asg.wasLoaded)
  /\ ClearFence("assignment") /\ CliGoto("closed")
  /\ UNCHANGED <<agent, snap, alive, OutOfFence, control, delivery>>

ClosingFails ==
  /\ InSwitch("closing")
  /\ HealthFails /\ cli' = None
  /\ UNCHANGED <<runtime, control, assignment, asg>>

RecordClosed ==
  /\ InSwitch("closed")
  /\ Save(IF asg.op = "rollback" THEN "rolled_back" ELSE "succeeded", "succeeded")
  /\ cli' = None
  /\ UNCHANGED <<runtime, control, assignment, faults>>

-----------------------------------------------------------------------------
(* rollbackSwitch, and RetryRollback after its checks. *)

\* Does this command close the transaction itself when the rollback fails?
RollsBack == asg.phase = "rolling_back"

\* Variant: the slot that failed is installed once more.
RecordRollingBackKeepsTarget ==
  /\ InSwitch("rolling")
  /\ Save("rolling_back", "rolling_back")
  /\ CliGoto(IF MayStop THEN "rollback stop" ELSE "rollback failed")
  /\ UNCHANGED <<runtime, control, assignment, faults>>

RecordRollingBack ==
  /\ InSwitch("rolling")
  /\ Save("rolling_back", "rolling_back")
  /\ cli' = [cli EXCEPT !.pc = IF MayStop THEN "rollback stop" ELSE "rollback failed",
                        !.target = assignment.ref]
  /\ UNCHANGED <<runtime, control, assignment, faults>>

RollbackStop ==
  /\ InSwitch("rollback stop")
  /\ RequestStop /\ CliGoto("rollback stopping")
  /\ UNCHANGED <<snap, alive, fence, seen, OutOfFence, control, delivery>>

\* rollbackSwitch goes on when the stop takes too long, RetryRollback does not.
RollbackPlist ==
  /\ InSwitch("rollback stopping")
  /\ \/ Unloaded /\ UNCHANGED faults
     \/ ~Unloaded /\ RollsBack /\ Fault
  /\ agent' = [agent EXCEPT !.plist = cli.target]
  /\ CliGoto("rollback start")
  /\ UNCHANGED <<snap, alive, fence, seen, OutOfFence, control, assignment, asg>>

RetryRollbackStuck ==
  /\ InSwitch("rollback stopping") /\ ~Unloaded /\ ~RollsBack
  /\ Fault /\ cli' = None
  /\ UNCHANGED <<runtime, control, assignment, asg>>

RollbackStart ==
  /\ InSwitch("rollback start")
  /\ IF asg.wasLoaded THEN Load ELSE UNCHANGED agent
  /\ CliGoto("rollback health")
  /\ UNCHANGED <<snap, alive, fence, seen, OutOfFence, control, delivery>>

RollbackHealth ==
  /\ InSwitch("rollback health")
  /\ \/ Sound(cli.target, asg.wasLoaded) /\ CliGoto("rollback done") /\ UNCHANGED faults
     \/ HealthFails /\ CliGoto("rollback failed")
  /\ UNCHANGED <<runtime, control, assignment, asg>>

\* The fence and the transaction stay.
RollbackFails ==
  /\ InSwitch("rollback failed")
  /\ cli' = None
  /\ IF RollsBack THEN Save("rollback_failed", "rollback_failed") ELSE UNCHANGED asg
  /\ UNCHANGED <<runtime, control, assignment, faults>>

ReleaseRolledBack ==
  /\ InSwitch("rollback done")
  /\ ClearFence("assignment") /\ CliGoto("rollback closed")
  /\ UNCHANGED <<agent, snap, alive, OutOfFence, control, delivery>>

RecordRolledBack ==
  /\ InSwitch("rollback closed")
  /\ Save("rolled_back", "rolled_back") /\ cli' = None
  /\ UNCHANGED <<runtime, control, assignment, faults>>

AssignmentStep ==
  \/ \E desired \in Slots, g \in 1..(assignment.gen + 1) : BeginSwitch("apply", desired, g)
  \/ \E g \in 1..(assignment.gen + 1) : BeginRollback(g)
  \/ BeginRetry \/ BeginRetryRollback \/ RetryStop \/ RetryPlan \/ RetryRefused
  \/ WriteAssignmentFence \/ RecordDraining \/ AwaitDrained \/ Defer \/ ReleaseDeferred
  \/ Halt \/ Halted \/ RecordApplying \/ WritePlist \/ StartAssigned \/ RecordValidating
  \/ Commit \/ ReleaseCommitted \/ ClosingFails \/ RecordClosed
  \/ RecordRollingBack \/ RollbackStop \/ RollbackPlist \/ RetryRollbackStuck \/ RollbackStart \/ RollbackHealth
  \/ RollbackFails \/ ReleaseRolledBack \/ RecordRolledBack

AssignmentTypeOK ==
  /\ assignment \in Assignments
  /\ asg \in AssignmentTransactions \cup {None}
  /\ fence.assignment \in (2..(MaxCommands + 2)) \cup {None}
  /\ faults \in 0..MaxFaults
=============================================================================
