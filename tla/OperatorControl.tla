--------------------------- MODULE OperatorControl ---------------------------
(***************************************************************************)
(* agent-loop start, stop and restart: the durable control transaction     *)
(* that a command leaves behind at every step, and that the next run of    *)
(* the same command takes up.                                              *)
(***************************************************************************)
EXTENDS RepositoryRuntime

CONSTANTS
  Webhooks,     \* the repository uses the webhook broker
  MaxCommands   \* bound: commands given

ASSUME ControlAssumption == Webhooks \in BOOLEAN /\ MaxCommands \in Nat

VARIABLES
  ctl,       \* operator-control.json
  broker,    \* the broker's LaunchAgent is loaded
  starter,   \* a running start command
  commands   \* commands given; the number of the last is its generation

control == <<ctl, broker, starter, commands>>

Operations == {"stop", "restart"}
Phases == {"draining", "stopping", "starting", "stopping_broker", "starting_broker",
           "starting_repository", "health_check", "succeeded", "timed_out"}

Transactions == [op : Operations, phase : Phases, pid : 0..MaxStarts,
                 gen : 1..MaxCommands, broker : BOOLEAN]

ASSUME TransactionsAssumption == None \notin Transactions

ControlInit == ctl = None /\ broker = Webhooks /\ starter = "none" /\ commands = 0

\* Transaction.Active
ControlActive == ctl # None /\ ctl.phase \notin {"succeeded", "timed_out"}

\* operatorcontrol.Save
Phase(p) == ctl' = [ctl EXCEPT !.phase = p]

InControl(pc) == CliAt(pc) /\ cli.cmd \in Operations

-----------------------------------------------------------------------------
(* stop and restart: drainControl and forceControl. *)

\* The locks are taken; a transaction left behind is taken up, by its own
\* operation only. The forced form starts over at the stop.
BeginControl(op, force) ==
  /\ cli = None /\ commands < MaxCommands
  /\ fence.assignment = None
  /\ ControlActive => ctl.op = op
  /\ commands' = commands + 1
  /\ cli' = [cmd |-> op, force |-> force, pc |-> IF force THEN "fence" ELSE "check",
             seen |-> FALSE]
  /\ IF force
     THEN ctl' = [op |-> op, phase |-> "stopping", pid |-> 0,
                  gen |-> IF ControlActive THEN ctl.gen ELSE commands + 1,
                  broker |-> IF ControlActive THEN ctl.broker ELSE op = "restart" /\ Webhooks]
     ELSE IF ControlActive THEN UNCHANGED ctl
     ELSE ctl' = [op |-> op, phase |-> "draining", pid |-> snap.pid, gen |-> commands + 1,
                  broker |-> op = "restart" /\ Webhooks]
  /\ UNCHANGED <<runtime, broker, starter>>

\* Is there anything to drain?
CheckDrain ==
  /\ InControl("check")
  /\ IF ctl.phase # "draining" THEN CliGoto("step")
     ELSE IF agent.loaded # None \/ snap.exec # None \/ snap.worker THEN CliGoto("fence")
     ELSE CliGoto("drained")
  /\ UNCHANGED <<runtime, control>>

\* ensureOperatorFence, and the wake.
WriteOperatorFence ==
  /\ InControl("fence")
  /\ fence.operator \in {None, ctl.gen}
  /\ SetFence([fence EXCEPT !.operator = ctl.gen])
  /\ CliGoto(IF cli.force THEN "step" ELSE "wait")
  /\ UNCHANGED <<agent, super, snap, alive, starts, crashes, control>>

\* waitForOperatorDrain
ObserveDrained ==
  /\ InControl("wait") /\ Ready
  /\ cli' = [cli EXCEPT !.pc = "drained", !.seen = seen]
  /\ UNCHANGED <<runtime, control>>

RecoverLaunch ==
  /\ cli # None /\ cli.pc \in {"wait", "await"}
  /\ Recoverable
  /\ snap' = RecoverUnstarted(snap)
  /\ UNCHANGED <<agent, super, alive, fence, starts, crashes, seen, cli, control>>

\* Retained work of a supervisor that is gone.
Orphaned == ctl.pid > 0 /\ snap.pid # ctl.pid /\ (snap.exec # None \/ snap.worker)

\* Variant: the deadline ends the command and leaves the fence.
DrainTimesOutKeepsFence ==
  /\ InControl("wait") /\ ~Ready
  /\ IF Orphaned THEN cli' = None ELSE CliGoto("timed_out")
  /\ UNCHANGED <<runtime, control>>

\* The deadline: scheduling is restored, unless work was left behind.
DrainTimesOut ==
  /\ InControl("wait") /\ ~Ready
  /\ IF Orphaned
     THEN cli' = None /\ UNCHANGED <<fence, seen>>
     ELSE ClearFence("operator") /\ CliGoto("timed_out")
  /\ UNCHANGED <<agent, super, snap, alive, starts, crashes, control>>

RecordTimeout ==
  /\ InControl("timed_out")
  /\ Phase("timed_out") /\ cli' = None
  /\ UNCHANGED <<runtime, broker, starter, commands>>

RecordDrained ==
  /\ InControl("drained")
  /\ Phase("stopping") /\ CliGoto("step")
  /\ UNCHANGED <<runtime, broker, starter, commands>>

StopRepository ==
  /\ InControl("step") /\ ctl.phase = "stopping"
  /\ RequestStop /\ CliGoto("unloading")
  /\ UNCHANGED <<super, snap, alive, fence, starts, crashes, seen, control>>

\* The LaunchAgent is unloaded; the forced form kills the worker the snapshot knows.
RepositoryStopped ==
  /\ InControl("unloading") /\ Unloaded
  /\ CliGoto("stopped")
  /\ IF cli.force /\ snap.worker
     THEN alive' = FALSE /\ snap' = [snap EXCEPT !.worker = FALSE, !.exec = None]
     ELSE UNCHANGED <<alive, snap>>
  /\ UNCHANGED <<agent, super, fence, starts, crashes, seen, control>>

\* recordStopped for a stop; a restart goes on.
RecordStopped ==
  /\ InControl("stopped")
  /\ IF ctl.op = "stop"
     THEN /\ snap' = [snap EXCEPT !.state = "stopped", !.pid = 0]
          /\ CliGoto("finish") /\ UNCHANGED ctl
     ELSE Phase("starting") /\ CliGoto("step") /\ UNCHANGED snap
  /\ UNCHANGED <<agent, super, alive, fence, starts, crashes, seen, broker, starter, commands>>

\* recordSupervisorControl
RecordStarting ==
  /\ InControl("step") /\ ctl.phase = "starting"
  /\ snap' = [snap EXCEPT !.state = "starting", !.pid = 0]
  /\ Phase(IF ctl.broker THEN "stopping_broker" ELSE "starting_repository")
  /\ UNCHANGED <<agent, super, alive, fence, starts, crashes, seen, cli, broker, starter, commands>>

StopBroker ==
  /\ InControl("step") /\ ctl.phase = "stopping_broker"
  /\ broker' = FALSE /\ Phase("starting_broker")
  /\ UNCHANGED <<runtime, cli, starter, commands>>

StartBroker ==
  /\ InControl("step") /\ ctl.phase = "starting_broker"
  /\ broker' = TRUE /\ Phase("starting_repository")
  /\ UNCHANGED <<runtime, cli, starter, commands>>

StartRepository ==
  /\ InControl("step") /\ ctl.phase = "starting_repository"
  /\ Load /\ Phase("health_check")
  /\ UNCHANGED <<super, snap, alive, fence, starts, crashes, seen, cli, broker, starter, commands>>

\* waitForControlHealth: the supervisor runs and has come to rest under the fence.
Healthy ==
  /\ agent.loaded # None /\ super # None /\ (ctl.broker => broker)
  /\ snap.state = "maintenance" /\ snap.pid > 0

CheckHealth ==
  /\ InControl("step") /\ ctl.phase = "health_check"
  /\ IF Healthy THEN CliGoto("finish") ELSE cli' = None
  /\ UNCHANGED <<runtime, control>>

\* finishControl: the fence goes first, the transaction ends after it.
FinishControl ==
  /\ InControl("finish")
  /\ ClearFence("operator") /\ CliGoto("cleared")
  /\ UNCHANGED <<agent, super, snap, alive, starts, crashes, control>>

RecordSucceeded ==
  /\ InControl("cleared")
  /\ Phase("succeeded") /\ cli' = None
  /\ UNCHANGED <<runtime, broker, starter, commands>>

-----------------------------------------------------------------------------
(* start, which takes no lock: it runs beside any command. *)

StartCheck ==
  /\ starter = "none" /\ commands < MaxCommands
  /\ ~ControlActive /\ fence.operator = None
  /\ starter' = "checked" /\ commands' = commands + 1
  /\ UNCHANGED <<runtime, cli, ctl, broker>>

StartRecord ==
  /\ starter = "checked"
  /\ starter' = "recorded"
  /\ IF agent.loaded = None THEN snap' = [snap EXCEPT !.state = "starting", !.pid = 0]
     ELSE UNCHANGED snap
  /\ broker' = (broker \/ Webhooks)
  /\ UNCHANGED <<agent, super, alive, fence, starts, crashes, seen, cli, ctl, commands>>

StartLoad ==
  /\ starter = "recorded"
  /\ starter' = "none"
  /\ agent' = IF agent.loaded = None
              THEN [agent EXCEPT !.loaded = agent.plist,
                                 !.raced = cli # None /\ cli.cmd = "switch"]
              ELSE agent
  /\ UNCHANGED <<super, snap, alive, fence, starts, crashes, seen, cli, ctl, broker, commands>>

ControlStep ==
  \/ CheckDrain \/ WriteOperatorFence \/ ObserveDrained \/ RecoverLaunch \/ DrainTimesOut
  \/ RecordTimeout \/ RecordDrained \/ StopRepository \/ RepositoryStopped \/ RecordStopped
  \/ RecordStarting \/ StopBroker \/ StartBroker \/ StartRepository \/ CheckHealth
  \/ FinishControl \/ RecordSucceeded \/ StartCheck \/ StartRecord \/ StartLoad
  \/ \E op \in Operations, force \in BOOLEAN : BeginControl(op, force)

ControlTypeOK ==
  /\ ctl \in Transactions \cup {None}
  /\ fence.operator \in (1..MaxCommands) \cup {None}
  /\ broker \in BOOLEAN /\ starter \in {"none", "checked", "recorded"}
  /\ commands \in 0..MaxCommands
=============================================================================
