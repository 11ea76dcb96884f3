----------------------------- MODULE Maintenance -----------------------------
(***************************************************************************)
(* The commands that stop, restart and reassign a repository, composed     *)
(* with its supervisor, under interruptions of the commands, kills of the  *)
(* supervisor and reboots of the host.                                     *)
(***************************************************************************)
EXTENDS Assignment

CONSTANT MaxInterrupts  \* bound: commands cut short

ASSUME InterruptsAssumption == MaxInterrupts \in Nat

\* None is no running command.
ASSUME CommandsAssumption ==
  None \notin [cmd : {"switch"}, pc : {"deferred"}, target : Slots, loaded : BOOLEAN,
               seen : BOOLEAN]

VARIABLES
  interrupts,  \* bound used
  cut          \* history: the generation of the transaction cut between the record of
               \* its deferral and the removal of its fence

vars == <<runtime, cli, control, delivery, interrupts, cut>>

Init == RuntimeInit /\ ControlInit /\ AssignmentInit /\ interrupts = 0 /\ cut = None

NoteCut == cut' = IF InSwitch("deferred") THEN asg.gen ELSE cut

\* The command dies, and the kernel releases its locks.
Interrupt ==
  /\ cli # None /\ interrupts < MaxInterrupts
  /\ interrupts' = interrupts + 1
  /\ cli' = None
  /\ NoteCut
  /\ UNCHANGED <<runtime, control, delivery>>

\* Nothing survives the host's reboot but its files; at login launchd loads the plist.
Reboot ==
  /\ crashes < MaxCrashes
  /\ crashes' = crashes + 1
  /\ cli' = None /\ starter' = "none" /\ super' = None /\ alive' = FALSE
  /\ agent' = [agent EXCEPT !.loaded = agent.plist, !.unload = FALSE, !.raced = FALSE]
  /\ broker' = Webhooks
  /\ NoteCut
  /\ UNCHANGED <<snap, fence, starts, seen, ctl, commands, delivery, interrupts>>

Next ==
  \/ (SupervisorStep \/ Crash) /\ UNCHANGED <<cli, control, delivery, interrupts, cut>>
  \/ ControlStep /\ UNCHANGED <<delivery, interrupts, cut>>
  \/ AssignmentStep /\ UNCHANGED <<interrupts, cut>>
  \/ Interrupt \/ Reboot

Spec == Init /\ [][Next]_vars

-----------------------------------------------------------------------------
(* Properties. *)

\* The composed state is well typed: OperatorControl, Assignment and their runtime.
TypeOK == RuntimeTypeOK /\ ControlTypeOK /\ AssignmentTypeOK /\ interrupts \in 0..MaxInterrupts

\* A command has seen the drain complete and is about to stop the LaunchAgent.
Drained ==
  \/ CliAt("drained") \/ CliAt("halt")
  \/ InControl("step") /\ ctl.phase = "stopping" /\ cli.seen

\* When a scheduler has looked at the fence, the drain that waitForOperatorDrain and
\* waitForDrain report is real: no job is under way in any supervisor that may
\* have come and gone since, and none starts before the LaunchAgent is stopped.
DrainedMeansIdle ==
  Drained /\ cli.seen /\ super # None => super.job = "none" /\ ~super.cycle

\* The same of every drain (specification.md:305): only a scheduler without active
\* jobs is drained.
DrainIsDurable == Drained /\ super # None => super.job = "none"

\* The transaction is that of the next assignment, or its switch is committed.
Matching ==
  \/ asg.gen = assignment.gen + 1 /\ asg.cur = assignment.ref
  \/ asg.gen = assignment.gen /\ asg.des = assignment.ref

\* A fence nobody holds would close the repository for good.  The operator's belongs to
\* its active control transaction.  The assignment's, when no command runs, belongs to
\* the open transaction of its generation, which still matches the committed assignment
\* as its command demands (assignment_controller.go:570-594).  The one exception is a
\* switch cut between the record of its deferral and the removal of its fence, which
\* no command accepts any more (DeferredHoldsNoFence).
FencesExplained ==
  /\ fence.operator # None => ControlActive /\ ctl.gen = fence.operator
  /\ fence.assignment # None => asg # None /\ asg.gen = fence.assignment
  /\ fence.assignment # None /\ cli = None /\ cut # fence.assignment
       => Open /\ Matching

\* Whatever was interrupted, applied or rolled back: with no transaction open the
\* LaunchAgent's program is the assigned slot, in the plist and, unless it is being
\* unloaded or a start loaded it in the middle of a switch, as loaded.  A start between
\* two commands, also over an interrupted switch, changes nothing about that.
AssignmentInstalled ==
  ~Open /\ ~CliAt("retry") =>
    /\ agent.plist = assignment.ref
    /\ agent.loaded \notin {assignment.ref, None} => agent.unload \/ agent.raced

\* The runtime is the assigned one (docs/adr/0004-per-repository-stable-assignment.md:23),
\* whatever start runs beside a switch.
AssignedRuns ==
  ~Open /\ ~CliAt("retry") => agent.loaded \in {assignment.ref, None} \/ agent.unload

\* An assignment that was deferred at its deadline holds no fence
\* (per-repository-delivery.md:11).
DeferredHoldsNoFence == cli = None /\ Deferred => fence.assignment = None

\* A rollback that fails keeps its fence and transaction
\* (per-repository-delivery.md:12): one reported as done is not about to leave the
\* repository, which was running, unloaded.
RolledBackRuns ==
  [][asg # None /\ asg'.phase = "rolled_back" /\ asg'.result = "rolled_back" /\ asg # asg'
       /\ asg.wasLoaded => ~agent.unload]_vars

\* A restart that was cut short can be taken up (specification.md:307): while it
\* waits for health its fence is there for the supervisor to come to rest under.
RestartResumable ==
  cli = None /\ ControlActive /\ ctl.phase = "health_check" => fence.operator = ctl.gen
=============================================================================
