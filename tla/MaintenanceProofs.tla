------------------------- MODULE MaintenanceProofs -------------------------
(***************************************************************************)
(* Proofs about Maintenance for any number of commands, interruptions,     *)
(* crashes, reboots and slots.                                             *)
(***************************************************************************)
EXTENDS Maintenance, TLAPS

-----------------------------------------------------------------------------
(* The running command, and the types. *)

ControlPcs == {"check", "fence", "wait", "drained", "step", "unloading", "stopped", "finish",
               "cleared", "timed_out"}

SwitchPcs == {"retry", "retry stopped", "fence", "fenced", "await", "deferred", "halt", "halting",
              "switch", "plist", "start", "started", "validate", "committed", "closing", "closed",
              "rolling", "rollback stop", "rollback stopping", "rollback start",
              "rollback health", "rollback done", "rollback closed", "rollback failed"}

ControlClis == [cmd : Operations, force : BOOLEAN, pc : ControlPcs, seen : BOOLEAN]
SwitchClis == [cmd : {"switch"}, pc : SwitchPcs, target : Slots, loaded : BOOLEAN,
               seen : BOOLEAN]

\* A stop or a restart, or a switch, is at one of these places.
Controls(pcs) == cli # None /\ cli.cmd \in Operations /\ cli.pc \in pcs
Switches(pcs) == cli # None /\ cli.cmd = "switch" /\ cli.pc \in pcs

Fences == [operator : (1..MaxCommands) \cup {None},
           assignment : (2..(MaxCommands + 2)) \cup {None}]

\* A switch has a transaction, a control command too, and generations follow the commands.
TypeInv ==
  /\ RuntimeTypeOK /\ ControlTypeOK /\ AssignmentTypeOK /\ interrupts \in 0..MaxInterrupts
  /\ seen \in BOOLEAN /\ fence \in Fences
  /\ cli \in ControlClis \cup SwitchClis \cup {None}
  /\ Controls(ControlPcs) => ctl \in Transactions
  /\ Switches(SwitchPcs) => asg \in AssignmentTransactions
  /\ assignment.gen <= commands + 2
  /\ asg # None => asg.gen <= commands + 2

-----------------------------------------------------------------------------
(* What the helpers of the model do to the records. *)

\* A running command goes on at another place.
LEMMA CliMoves ==
  ASSUME cli \in ControlClis \cup SwitchClis \cup {None}, cli # None, NEW p, CliGoto(p)
  PROVE  /\ cli'.cmd = cli.cmd /\ cli'.pc = p /\ cli'.seen = cli.seen
         /\ cli.cmd \in Operations /\ p \in ControlPcs =>
              cli' \in ControlClis /\ cli'.force = cli.force
         /\ cli.cmd = "switch" => cli'.target = cli.target /\ cli'.loaded = cli.loaded
         /\ cli.cmd = "switch" /\ p \in SwitchPcs => cli' \in SwitchClis
<1>1. CASE cli \in ControlClis
  BY <1>1 DEF CliGoto, ControlClis, SwitchClis, Operations
<1>2. CASE cli \in SwitchClis
  BY <1>2 DEF CliGoto, ControlClis, SwitchClis, Operations
<1> QED BY <1>1, <1>2

\* The control transaction is saved in another phase.
LEMMA PhaseMoves ==
  ASSUME ctl \in Transactions, NEW p \in Phases, Phase(p)
  PROVE  /\ ctl' \in Transactions /\ ctl'.phase = p /\ ctl'.gen = ctl.gen
         /\ ctl'.op = ctl.op /\ ctl'.broker = ctl.broker
BY DEF Phase, Transactions

\* The assignment transaction is saved in another phase.
LEMMA SaveMoves ==
  ASSUME asg \in AssignmentTransactions, NEW p \in AssignmentPhases,
         NEW r \in AssignmentPhases \cup {"", "deferred", "retrying"}, Save(p, r)
  PROVE  /\ asg' \in AssignmentTransactions /\ asg'.phase = p /\ asg'.result = r
         /\ asg'.gen = asg.gen /\ asg'.des = asg.des /\ asg'.cur = asg.cur /\ asg'.op = asg.op
         /\ asg'.wasLoaded = asg.wasLoaded
BY DEF Save, AssignmentTransactions

\* A fence is written or removed.
LEMMA OperatorFence ==
  ASSUME fence \in Fences, NEW g, SetFence([fence EXCEPT !.operator = g])
  PROVE  /\ fence'.operator = g /\ fence'.assignment = fence.assignment
         /\ g \in (1..MaxCommands) \cup {None} => fence' \in Fences
         /\ seen' = (seen /\ Fenced /\ (g # None \/ fence.assignment # None))
BY DEF SetFence, Fences

\* The same of the assignment's fence.
LEMMA AssignmentFence ==
  ASSUME fence \in Fences, NEW g, SetFence([fence EXCEPT !.assignment = g])
  PROVE  /\ fence'.assignment = g /\ fence'.operator = fence.operator
         /\ g \in (2..(MaxCommands + 2)) \cup {None} => fence' \in Fences
         /\ seen' = (seen /\ Fenced /\ (fence.operator # None \/ g # None))
BY DEF SetFence, Fences

\* A fence is removed.
LEMMA FenceClears ==
  ASSUME fence \in Fences
  PROVE  /\ ClearFence("operator") =>
              /\ fence'.operator = None /\ fence'.assignment = fence.assignment
              /\ fence' \in Fences /\ seen' = (seen /\ Fenced /\ fence.assignment # None)
         /\ ClearFence("assignment") =>
              /\ fence'.assignment = None /\ fence'.operator = fence.operator
              /\ fence' \in Fences /\ seen' = (seen /\ Fenced /\ fence.operator # None)
BY DEF ClearFence, SetFence, Fences

Agents == [loaded : Slots \cup {None}, plist : Slots, unload : BOOLEAN, raced : BOOLEAN]

\* launchd loads what the plist names, or is asked to unload; the plist is rewritten.
LEMMA AgentMoves ==
  ASSUME agent \in Agents
  PROVE  /\ Load => /\ agent' \in Agents /\ agent'.plist = agent.plist
                    /\ agent'.unload = agent.unload /\ agent'.raced = agent.raced
                    /\ agent'.loaded = IF agent.loaded = None THEN agent.plist ELSE agent.loaded
         /\ RequestStop => /\ agent' \in Agents /\ agent'.plist = agent.plist
                           /\ agent'.loaded = agent.loaded
                           /\ agent'.unload = (agent.loaded # None)
                           /\ agent'.raced = agent.raced
         /\ \A s \in Slots : agent' = [agent EXCEPT !.plist = s] =>
              /\ agent' \in Agents /\ agent'.plist = s
              /\ agent'.loaded = agent.loaded /\ agent'.unload = agent.unload
              /\ agent'.raced = agent.raced
         /\ agent' = [agent EXCEPT !.loaded = None, !.unload = FALSE, !.raced = FALSE] =>
              /\ agent' \in Agents /\ agent'.plist = agent.plist
              /\ agent'.loaded = None /\ agent'.unload = FALSE
         /\ agent' = [agent EXCEPT !.loaded = agent.plist, !.unload = FALSE, !.raced = FALSE] =>
              /\ agent' \in Agents /\ agent'.plist = agent.plist
              /\ agent'.loaded = agent.plist /\ agent'.unload = FALSE
<1>1. Load => /\ agent' \in Agents /\ agent'.plist = agent.plist
              /\ agent'.unload = agent.unload /\ agent'.raced = agent.raced
              /\ agent'.loaded = IF agent.loaded = None THEN agent.plist ELSE agent.loaded
  BY DEF Load, Agents
<1>2. RequestStop => /\ agent' \in Agents /\ agent'.plist = agent.plist
                     /\ agent'.loaded = agent.loaded
                     /\ agent'.unload = (agent.loaded # None)
                     /\ agent'.raced = agent.raced
  BY DEF RequestStop, Agents
<1>3. \A s \in Slots : agent' = [agent EXCEPT !.plist = s] =>
        /\ agent' \in Agents /\ agent'.plist = s
        /\ agent'.loaded = agent.loaded /\ agent'.unload = agent.unload
        /\ agent'.raced = agent.raced
  BY DEF Agents
<1>4. agent' = [agent EXCEPT !.loaded = None, !.unload = FALSE, !.raced = FALSE] =>
        /\ agent' \in Agents /\ agent'.plist = agent.plist
        /\ agent'.loaded = None /\ agent'.unload = FALSE
  BY DEF Agents
<1>5. agent' = [agent EXCEPT !.loaded = agent.plist, !.unload = FALSE, !.raced = FALSE] =>
        /\ agent' \in Agents /\ agent'.plist = agent.plist
        /\ agent'.loaded = agent.plist /\ agent'.unload = FALSE
  BY DEF Agents
<1> QED BY <1>1, <1>2, <1>3, <1>4, <1>5

\* A start loads what the plist names, beside a switch or not.
LEMMA StartLoads ==
  ASSUME agent \in Agents, StartLoad
  PROVE  /\ agent' \in Agents /\ agent'.plist = agent.plist /\ agent'.unload = agent.unload
         /\ agent.loaded # None => agent' = agent
         /\ agent.loaded = None =>
              /\ agent'.loaded = agent.plist
              /\ agent'.raced = (cli # None /\ cli.cmd = "switch")
<1>1. CASE agent.loaded # None
  BY <1>1 DEF StartLoad
<1>2. CASE agent.loaded = None
  <2>1. PICK b \in BOOLEAN : b = (cli # None /\ cli.cmd = "switch")
    OBVIOUS
  <2>2. agent' = [agent EXCEPT !.loaded = agent.plist, !.raced = b]
    BY <1>2, <2>1 DEF StartLoad
  <2> QED BY <1>2, <2>1, <2>2 DEF Agents
<1> QED BY <1>1, <1>2

\* RecoverUnstarted keeps all but an execution that never started.
LEMMA Recovered ==
  ASSUME NEW s \in Snapshots
  PROVE  /\ RecoverUnstarted(s) \in Snapshots
         /\ RecoverUnstarted(s).state = s.state /\ RecoverUnstarted(s).pid = s.pid
BY DEF Snapshots, RecoverUnstarted

\* The recorded attempt.
LEMMA AttemptedType ==
  ASSUME snap \in Snapshots
  PROVE  Attempted \in Snapshots /\ Attempted.state = snap.state
<1>1. CASE Unstarted(snap)
  <2>1. snap.exec \in [kind : Kinds, by : 1..MaxStarts]
    BY <1>1 DEF Unstarted, Snapshots
  <2>2. [snap.exec EXCEPT !.kind = "attempt"] \in [kind : Kinds, by : 1..MaxStarts]
    BY <2>1 DEF Kinds
  <2>3. Attempted = [snap EXCEPT !.exec = [snap.exec EXCEPT !.kind = "attempt"]]
    BY <1>1 DEF Attempted
  <2>4. \A e \in [kind : Kinds, by : 1..MaxStarts] :
          [snap EXCEPT !.exec = e] \in Snapshots /\ [snap EXCEPT !.exec = e].state = snap.state
    BY DEF Snapshots
  <2> QED BY <2>2, <2>3, <2>4
<1>2. CASE ~Unstarted(snap)
  BY <1>2 DEF Attempted
<1> QED BY <1>1, <1>2

Supers == [bin : Slots, pid : 1..MaxStarts, phase : {"boot", "start", "run"}, job : Jobs,
           cycle : BOOLEAN]

\* The supervisor's job and phase move on.
LEMMA SuperMoves ==
  ASSUME NEW u \in Supers, NEW j \in Jobs, NEW p \in {"boot", "start", "run"}
  PROVE  /\ [u EXCEPT !.job = j] \in Supers /\ [u EXCEPT !.phase = p] \in Supers
         /\ [u EXCEPT !.cycle = TRUE] \in Supers /\ [u EXCEPT !.cycle = FALSE] \in Supers
         /\ [u EXCEPT !.job = j, !.cycle = FALSE] \in Supers
         /\ [u EXCEPT !.job = j].cycle = u.cycle /\ [u EXCEPT !.job = j].job = j
         /\ [u EXCEPT !.phase = p].cycle = u.cycle /\ [u EXCEPT !.phase = p].job = u.job
         /\ [u EXCEPT !.cycle = TRUE].job = u.job /\ [u EXCEPT !.cycle = FALSE].job = u.job
<1>1. [u EXCEPT !.job = j] \in Supers /\ [u EXCEPT !.phase = p] \in Supers
  BY DEF Supers
<1>2. [u EXCEPT !.cycle = TRUE] \in Supers /\ [u EXCEPT !.cycle = FALSE] \in Supers
      /\ [u EXCEPT !.job = j, !.cycle = FALSE] \in Supers
  BY DEF Supers
<1>3. /\ [u EXCEPT !.job = j].cycle = u.cycle /\ [u EXCEPT !.job = j].job = j
      /\ [u EXCEPT !.phase = p].cycle = u.cycle /\ [u EXCEPT !.phase = p].job = u.job
  BY DEF Supers
<1>4. [u EXCEPT !.cycle = TRUE].job = u.job /\ [u EXCEPT !.cycle = FALSE].job = u.job
  BY DEF Supers
<1> QED BY <1>1, <1>2, <1>3, <1>4

-----------------------------------------------------------------------------
(* Every step keeps the types. *)

\* The steps of the supervisor and its worker.
LEMMA SupervisorType ==
  ASSUME TypeInv, SupervisorStep \/ Crash
  PROVE  RuntimeTypeOK' /\ seen' \in BOOLEAN /\ fence' = fence
<1> USE DEF RuntimeTypeOK
<1>0. /\ snap \in Snapshots /\ (super = None \/ super \in Supers) /\ agent \in Agents
      /\ seen \in BOOLEAN
  BY DEF TypeInv, Supers, Agents
<1>a. ASSUME super # None, NEW j \in Jobs, Goto(j)
      PROVE  super' \in Supers
  BY <1>0, <1>a DEF Goto, Supers
<1>b. super # None => /\ [super EXCEPT !.cycle = TRUE] \in Supers
                      /\ [super EXCEPT !.cycle = FALSE] \in Supers
                      /\ [super EXCEPT !.job = "queued", !.cycle = FALSE] \in Supers
  BY <1>0 DEF Supers, Jobs
<1>c. {"none", "effect", "claim", "launch", "record", "working", "result"} \subseteq Jobs
  BY DEF Jobs
<1>1. CASE Boot
  <2>1. super' \in Supers
    BY <1>0, <1>1, RuntimeAssumption DEF Boot, Supers, Agents, TypeInv, Jobs
  <2> QED BY <1>1, <2>1, RuntimeAssumption DEF Boot, TypeInv, Supers
<1>2. CASE Reconcile
  <2>1. super' \in Supers
    BY <1>0, <1>2, SuperMoves DEF Reconcile, Jobs
  <2>2. snap' \in Snapshots
    <3>1. RecoverUnstarted(snap) \in Snapshots
      BY <1>0, Recovered
    <3>2. [RecoverUnstarted(snap) EXCEPT !.worker = FALSE, !.exec = None] \in Snapshots
      BY <3>1 DEF Snapshots
    <3> QED BY <1>2, <3>1, <3>2 DEF Reconcile
  <2> QED BY <1>2, <2>1, <2>2 DEF Reconcile, TypeInv, Supers
<1>3. CASE RecordStarted
  <2>1. super \in Supers /\ super' \in Supers
    BY <1>0, <1>3, SuperMoves DEF RecordStarted, Jobs
  <2>2. snap' \in Snapshots
    <3>1. super.pid \in 0..MaxStarts /\ "running" \in States
      BY <2>1, RuntimeAssumption DEF Supers, States
    <3>2. \A n \in 0..MaxStarts :
            [snap EXCEPT !.state = "running", !.pid = n] \in Snapshots
      BY <1>0, <3>1 DEF Snapshots
    <3> QED BY <1>3, <3>1, <3>2 DEF RecordStarted
  <2> QED BY <1>3, <2>1, <2>2 DEF RecordStarted, TypeInv, Supers
<1>4. CASE ObserveFence
  <2> DEFINE held == IF super.job = "none" THEN RecoverUnstarted(snap) ELSE snap
  <2>1. held \in Snapshots
    BY <1>0, Recovered
  <2>2. \A x \in States : [held EXCEPT !.state = x] \in Snapshots
    <3> HIDE DEF held
    <3> QED BY <2>1 DEF Snapshots
  <2>3. snap' \in Snapshots
    BY <1>4, <2>2 DEF ObserveFence, States
  <2> QED BY <1>4, <2>3 DEF ObserveFence, TypeInv
<1>5. CASE BeginCycle \/ EndCycle
  <2>1. super' \in Supers
    BY <1>0, <1>5, <1>b DEF BeginCycle, EndCycle, Up
  <2>2. snap' \in Snapshots
    BY <1>0, <1>5 DEF BeginCycle, EndCycle, Snapshots, States
  <2> QED BY <1>5, <2>1, <2>2 DEF BeginCycle, EndCycle, TypeInv, Supers
<1>6. CASE TakeGate \/ RecordWorker \/ StoreResult \/ FinishEffect
  <2>1. super' \in Supers
    BY <1>0, <1>6, <1>a, <1>c DEF TakeGate, RecordWorker, StoreResult, FinishEffect, Up
  <2>2. snap' \in Snapshots
    BY <1>0, <1>6 DEF TakeGate, RecordWorker, StoreResult, FinishEffect, Snapshots
  <2> QED BY <1>6, <2>1, <2>2
       DEF TakeGate, RecordWorker, StoreResult, FinishEffect, TypeInv, Supers
<1>7. CASE ClaimExecution
  <2>1. super \in Supers /\ super' \in Supers
    BY <1>0, <1>7, <1>a, <1>c DEF ClaimExecution, Up
  <2>2. snap' \in Snapshots
    <3>1. \A k \in {"worker", "conflict"} :
            [kind |-> k, by |-> super.pid] \in [kind : Kinds, by : 1..MaxStarts]
      BY <2>1 DEF Kinds, Supers
    <3>2. \A e \in [kind : Kinds, by : 1..MaxStarts] :
            [snap EXCEPT !.exec = e, !.state = "running"] \in Snapshots
      BY <1>0 DEF Snapshots, States
    <3>3. ASSUME NEW k \in {"worker", "conflict"},
                 snap' = [snap EXCEPT !.exec = [kind |-> k, by |-> super.pid],
                                      !.state = "running"]
          PROVE  snap' \in Snapshots
      <4> DEFINE e == [kind |-> k, by |-> super.pid]
      <4>1. /\ e \in [kind : Kinds, by : 1..MaxStarts]
            /\ snap' = [snap EXCEPT !.exec = e, !.state = "running"]
        BY <3>1, <3>3
      <4> HIDE DEF e
      <4> QED BY <3>2, <4>1
    <3>4. \/ snap' = snap
          \/ \E k \in {"worker", "conflict"} :
               snap' = [snap EXCEPT !.exec = [kind |-> k, by |-> super.pid], !.state = "running"]
      BY <1>7 DEF ClaimExecution
    <3> QED BY <1>0, <3>3, <3>4
  <2> QED BY <1>7, <2>1, <2>2 DEF ClaimExecution, TypeInv, Supers
<1>8. CASE Launch
  <2>1. super' \in Supers
    BY <1>0, <1>8, <1>a, <1>c DEF Launch, Up
  <2> QED BY <1>0, <1>8, <2>1, AttemptedType DEF Launch, TypeInv, Supers
<1>9. CASE WorkerExits
  <2>1. super' = None \/ super' \in Supers
    BY <1>0, <1>9, <1>a, <1>c DEF WorkerExits, Up
  <2> QED BY <1>9, <2>1 DEF WorkerExits, TypeInv, Supers
<1>10. CASE Terminate
  <2>1. agent' \in Agents
    BY <1>0, <1>10, AgentMoves DEF Terminate
  <2>2. snap' \in Snapshots
    <3>1. "stopped" \in States /\ 0 \in 0..MaxStarts
      BY RuntimeAssumption DEF States
    <3>2. /\ [snap EXCEPT !.state = "stopped", !.pid = 0] \in Snapshots
          /\ [snap EXCEPT !.state = "stopped", !.pid = 0, !.exec = None, !.worker = FALSE]
               \in Snapshots
      BY <1>0, <3>1 DEF Snapshots
    <3> QED BY <1>0, <1>10, <3>2 DEF Terminate
  <2>3. alive' \in BOOLEAN
    BY <1>10 DEF Terminate, TypeInv
  <2> QED BY <1>10, <2>1, <2>2, <2>3 DEF Terminate, TypeInv, Agents
<1>11. CASE Crash
  BY <1>11, RuntimeAssumption DEF Crash, TypeInv
<1> QED
  BY <1>1, <1>2, <1>3, <1>4, <1>5, <1>6, <1>7, <1>8, <1>9, <1>10, <1>11 DEF SupervisorStep

\* What a step of start, stop or restart has to establish.
LEMMA ControlFrame ==
  ASSUME TypeInv, RuntimeTypeOK', seen' \in BOOLEAN, fence' \in Fences,
         ctl' \in Transactions \cup {None}, broker' \in BOOLEAN,
         starter' \in {"none", "checked", "recorded"},
         commands' \in 0..MaxCommands, commands' >= commands,
         \/ cli' = None
         \/ cli' = cli /\ ctl' = ctl
         \/ cli' = cli /\ ctl' \in Transactions
         \/ cli' \in ControlClis /\ ctl' \in Transactions,
         UNCHANGED <<delivery, interrupts>>
  PROVE  TypeInv'
<1> USE DEF delivery
<1>1. AssignmentTypeOK' /\ ControlTypeOK'
  BY DEF AssignmentTypeOK, ControlTypeOK, TypeInv, Fences
<1>2. cli' \in ControlClis \cup SwitchClis \cup {None}
  BY DEF TypeInv
<1>3. (Controls(ControlPcs) => ctl \in Transactions)'
  BY DEF TypeInv, Controls
<1>4. (Switches(SwitchPcs) => asg \in AssignmentTransactions)'
  BY DEF TypeInv, Switches, ControlClis, Operations
<1>5. assignment'.gen <= commands' + 2 /\ (asg' # None => asg'.gen <= commands' + 2)
  <2>1. /\ assignment.gen \in Nat /\ commands \in Nat /\ commands' \in Nat
        /\ asg # None => asg.gen \in Nat
    <3>1. assignment \in Assignments /\ (asg # None => asg \in AssignmentTransactions)
          /\ commands \in 0..MaxCommands
      BY DEF TypeInv, AssignmentTypeOK, ControlTypeOK
    <3>2. assignment.gen \in 1..(MaxCommands + 2)
      BY <3>1 DEF Assignments
    <3>3. asg # None => asg.gen \in 2..(MaxCommands + 2)
      BY <3>1 DEF AssignmentTransactions
    <3> QED BY <3>1, <3>2, <3>3, ControlAssumption
  <2> QED BY <2>1 DEF TypeInv
<1> QED BY <1>1, <1>2, <1>3, <1>4, <1>5 DEF TypeInv

\* A stop or restart begins with a transaction of its own, or with the one left behind.
LEMMA BeginsTransaction ==
  ASSUME TypeInv, NEW o \in Operations, NEW force \in BOOLEAN, BeginControl(o, force)
  PROVE  ctl' \in Transactions
<1>0. /\ snap \in Snapshots /\ commands \in 0..MaxCommands /\ MaxCommands \in Nat
      /\ ctl \in Transactions \cup {None}
  BY ControlAssumption DEF TypeInv, RuntimeTypeOK, ControlTypeOK
<1>1. /\ commands + 1 \in 1..MaxCommands /\ commands' = commands + 1
      /\ Webhooks \in BOOLEAN /\ snap.pid \in 0..MaxStarts /\ 0 \in 0..MaxStarts
  BY <1>0, ControlAssumption, RuntimeAssumption DEF BeginControl, Snapshots
<1>2. \A ph \in Phases, n \in 0..MaxStarts, g \in 1..MaxCommands, b \in BOOLEAN :
        [op |-> o, phase |-> ph, pid |-> n, gen |-> g, broker |-> b] \in Transactions
  BY DEF Transactions
<1>3. ControlActive => ctl.gen \in 1..MaxCommands /\ ctl.broker \in BOOLEAN /\ ctl \in Transactions
  BY <1>0 DEF ControlActive, Transactions
<1>4. "stopping" \in Phases /\ "draining" \in Phases
      /\ (o = "restart" /\ Webhooks) \in BOOLEAN
  BY <1>1 DEF Phases
<1>5. CASE force /\ ControlActive
  BY <1>1, <1>2, <1>3, <1>4, <1>5 DEF BeginControl
<1>6. CASE force /\ ~ControlActive
  BY <1>1, <1>2, <1>4, <1>6 DEF BeginControl
<1>7. CASE ~force /\ ControlActive
  BY <1>3, <1>7 DEF BeginControl
<1>8. CASE ~force /\ ~ControlActive
  BY <1>1, <1>2, <1>4, <1>8 DEF BeginControl
<1> QED BY <1>5, <1>6, <1>7, <1>8

\* The steps of a running stop or restart.
LEMMA ControlType ==
  ASSUME TypeInv, ControlStep, UNCHANGED <<delivery, interrupts>>
  PROVE  TypeInv'
<1> USE DEF control, runtime
<1>0. /\ snap \in Snapshots /\ agent \in Agents /\ fence \in Fences /\ RuntimeTypeOK
      /\ cli \in ControlClis \cup SwitchClis \cup {None} /\ seen \in BOOLEAN
      /\ ctl \in Transactions \cup {None} /\ broker \in BOOLEAN
      /\ starter \in {"none", "checked", "recorded"} /\ commands \in 0..MaxCommands
      /\ commands \in Nat /\ MaxCommands \in Nat
  BY ControlAssumption DEF TypeInv, RuntimeTypeOK, ControlTypeOK, Agents
<1>1. \A pc \in ControlPcs : InControl(pc) =>
        /\ ctl \in Transactions /\ cli # None /\ cli.cmd \in Operations
  BY DEF TypeInv, InControl, CliAt, Controls
<1>2. ASSUME NEW p \in ControlPcs, CliGoto(p), cli # None, cli.cmd \in Operations
      PROVE  cli' \in ControlClis
  BY <1>0, <1>2, CliMoves
<1>3. ASSUME NEW p \in Phases, Phase(p), ctl \in Transactions
      PROVE  ctl' \in Transactions
  BY <1>3, PhaseMoves
<1>4. /\ {"stopped", "starting"} \subseteq States /\ 0 \in 0..MaxStarts
      /\ \A x \in {"stopped", "starting"} :
           [snap EXCEPT !.state = x, !.pid = 0] \in Snapshots
  <2>1. {"stopped", "starting"} \subseteq States /\ 0 \in 0..MaxStarts
    BY RuntimeAssumption DEF States
  <2> QED BY <1>0, <2>1 DEF Snapshots
<1>5. CASE CheckDrain
  <2>1. ctl \in Transactions /\ cli' \in ControlClis
    BY <1>1, <1>2, <1>5 DEF CheckDrain, InControl, CliAt, ControlPcs
  <2> QED BY <1>0, <1>5, <2>1, ControlFrame DEF CheckDrain, RuntimeTypeOK
<1>6. CASE WriteOperatorFence
  <2>1. ctl \in Transactions /\ cli' \in ControlClis
    BY <1>1, <1>2, <1>6 DEF WriteOperatorFence, InControl, CliAt, ControlPcs
  <2>2. ctl.gen \in (1..MaxCommands) \cup {None}
    BY <2>1 DEF Transactions
  <2>3. fence' \in Fences /\ seen' \in BOOLEAN
    BY <1>0, <1>6, <2>2, OperatorFence DEF WriteOperatorFence
  <2> QED BY <1>0, <1>6, <2>1, <2>3, ControlFrame DEF WriteOperatorFence, RuntimeTypeOK
<1>7. CASE ObserveDrained
  <2>1. ctl \in Transactions /\ cli \in ControlClis
    BY <1>0, <1>1, <1>7
       DEF ObserveDrained, InControl, CliAt, ControlPcs, SwitchClis, Operations
  <2>2. [cli EXCEPT !.pc = "drained", !.seen = seen] \in ControlClis
    BY <1>0, <2>1 DEF ControlClis, ControlPcs
  <2> QED BY <1>0, <1>7, <2>1, <2>2, ControlFrame DEF ObserveDrained, RuntimeTypeOK
<1>8. CASE RecoverLaunch
  BY <1>0, <1>8, Recovered, ControlFrame DEF RecoverLaunch, RuntimeTypeOK
<1>9. CASE DrainTimesOut
  <2>1. ctl \in Transactions /\ (cli' = None \/ cli' \in ControlClis)
    BY <1>1, <1>2, <1>9 DEF DrainTimesOut, InControl, CliAt, ControlPcs
  <2>2. fence' \in Fences /\ seen' \in BOOLEAN
    BY <1>0, <1>9, FenceClears DEF DrainTimesOut
  <2> QED BY <1>0, <1>9, <2>1, <2>2, ControlFrame DEF DrainTimesOut, RuntimeTypeOK
<1>10. CASE RecordTimeout \/ RecordSucceeded
  <2>1. ctl' \in Transactions
    BY <1>1, <1>3, <1>10 DEF RecordTimeout, RecordSucceeded, ControlPcs, Phases
  <2> QED BY <1>0, <1>10, <2>1, ControlFrame DEF RecordTimeout, RecordSucceeded, RuntimeTypeOK
<1>11. CASE RecordDrained
  <2>1. ctl' \in Transactions /\ cli' \in ControlClis
    BY <1>1, <1>2, <1>3, <1>11 DEF RecordDrained, InControl, CliAt, ControlPcs, Phases
  <2> QED BY <1>0, <1>11, <2>1, ControlFrame DEF RecordDrained, RuntimeTypeOK
<1>12. CASE StopRepository
  <2>1. ctl \in Transactions /\ cli' \in ControlClis
    BY <1>1, <1>2, <1>12 DEF StopRepository, InControl, CliAt, ControlPcs
  <2>2. agent' \in Agents
    BY <1>0, <1>12, AgentMoves DEF StopRepository
  <2> QED BY <1>0, <1>12, <2>1, <2>2, ControlFrame DEF StopRepository, RuntimeTypeOK, Agents
<1>13. CASE RepositoryStopped
  <2>1. ctl \in Transactions /\ cli' \in ControlClis
    BY <1>1, <1>2, <1>13 DEF RepositoryStopped, InControl, CliAt, ControlPcs
  <2>2. [snap EXCEPT !.worker = FALSE, !.exec = None] \in Snapshots
    BY <1>0 DEF Snapshots
  <2>3. snap' \in Snapshots /\ alive' \in BOOLEAN
    BY <1>0, <1>13, <2>2 DEF RepositoryStopped, RuntimeTypeOK
  <2> QED BY <1>0, <1>13, <2>1, <2>3, ControlFrame DEF RepositoryStopped, RuntimeTypeOK
<1>14. CASE RecordStopped
  <2>1. ctl' \in Transactions /\ cli' \in ControlClis
    BY <1>1, <1>2, <1>3, <1>14 DEF RecordStopped, InControl, CliAt, ControlPcs, Phases
  <2>2. snap' \in Snapshots
    BY <1>0, <1>4, <1>14 DEF RecordStopped
  <2> QED BY <1>0, <1>14, <2>1, <2>2, ControlFrame DEF RecordStopped, RuntimeTypeOK
<1>15. CASE RecordStarting
  <2>1. ctl' \in Transactions
    BY <1>1, <1>3, <1>15 DEF RecordStarting, InControl, CliAt, ControlPcs, Phases
  <2>2. snap' \in Snapshots
    BY <1>4, <1>15 DEF RecordStarting
  <2> QED BY <1>0, <1>15, <2>1, <2>2, ControlFrame DEF RecordStarting, RuntimeTypeOK
<1>16. CASE StopBroker \/ StartBroker
  <2>1. ctl' \in Transactions
    BY <1>1, <1>3, <1>16 DEF StopBroker, StartBroker, ControlPcs, Phases
  <2>2. CASE StopBroker
    <3>1. broker' \in BOOLEAN
      BY <2>2 DEF StopBroker
    <3>2. UNCHANGED <<runtime, cli, starter, commands>>
      BY <2>2 DEF StopBroker
    <3> QED BY <1>0, <2>1, <3>1, <3>2, ControlFrame DEF RuntimeTypeOK
  <2>3. CASE StartBroker
    BY <1>0, <2>1, <2>3, ControlFrame DEF StartBroker, RuntimeTypeOK
  <2> QED BY <1>16, <2>2, <2>3
<1>17. CASE StartRepository
  <2>1. ctl' \in Transactions
    BY <1>1, <1>3, <1>17 DEF StartRepository, ControlPcs, Phases
  <2>2. agent' \in Agents
    BY <1>0, <1>17, AgentMoves DEF StartRepository
  <2> QED BY <1>0, <1>17, <2>1, <2>2, ControlFrame DEF StartRepository, RuntimeTypeOK, Agents
<1>18. CASE CheckHealth
  <2>1. ctl \in Transactions /\ (cli' = None \/ cli' \in ControlClis)
    BY <1>1, <1>2, <1>18 DEF CheckHealth, InControl, CliAt, ControlPcs
  <2> QED BY <1>0, <1>18, <2>1, ControlFrame DEF CheckHealth, RuntimeTypeOK
<1>19. CASE FinishControl
  <2>1. ctl \in Transactions /\ cli' \in ControlClis
    BY <1>1, <1>2, <1>19 DEF FinishControl, InControl, CliAt, ControlPcs
  <2>2. fence' \in Fences /\ seen' \in BOOLEAN
    BY <1>0, <1>19, FenceClears DEF FinishControl
  <2> QED BY <1>0, <1>19, <2>1, <2>2, ControlFrame DEF FinishControl, RuntimeTypeOK
<1>20. CASE StartCheck
  BY <1>0, <1>20, ControlFrame DEF StartCheck, RuntimeTypeOK
<1>21. CASE StartRecord
  <2>1. snap' \in Snapshots /\ broker' \in BOOLEAN
    BY <1>0, <1>4, <1>21, ControlAssumption DEF StartRecord
  <2> QED BY <1>0, <1>21, <2>1, ControlFrame DEF StartRecord, RuntimeTypeOK
<1>22. CASE StartLoad
  <2>1. agent' \in Agents
    BY <1>0, <1>22, StartLoads
  <2> QED BY <1>0, <1>22, <2>1, ControlFrame DEF StartLoad, RuntimeTypeOK, Agents
<1>23. ASSUME NEW o \in Operations, NEW force \in BOOLEAN, BeginControl(o, force)
       PROVE  TypeInv'
  <2>1. cli' \in ControlClis
    BY <1>23 DEF BeginControl, ControlClis, ControlPcs
  <2>2. commands' = commands + 1 /\ commands' \in 0..MaxCommands
    BY <1>0, <1>23 DEF BeginControl
  <2>3. ctl' \in Transactions
    BY <1>23, BeginsTransaction
  <2> QED BY <1>0, <1>23, <2>1, <2>2, <2>3, ControlFrame DEF BeginControl, RuntimeTypeOK
<1> QED
  BY <1>5, <1>6, <1>7, <1>8, <1>9, <1>10, <1>11, <1>12, <1>13, <1>14, <1>15, <1>16, <1>17,
     <1>18, <1>19, <1>20, <1>21, <1>22, <1>23 DEF ControlStep

\* A transaction has a generation.
LEMMA Generations ==
  ASSUME NEW t \in AssignmentTransactions
  PROVE  t.gen \in 2..(MaxCommands + 2)
BY DEF AssignmentTransactions

\* What a step of a switch has to establish.
LEMMA AssignmentFrame ==
  ASSUME TypeInv, RuntimeTypeOK', seen' \in BOOLEAN, fence' \in Fences,
         assignment' \in Assignments, asg' \in AssignmentTransactions \cup {None},
         faults' \in 0..MaxFaults, commands' \in 0..MaxCommands,
         assignment'.gen <= commands' + 2, asg' # None => asg'.gen <= commands' + 2,
         cli' = None \/ (cli' \in SwitchClis /\ asg' \in AssignmentTransactions),
         UNCHANGED <<ctl, broker, starter, interrupts>>
  PROVE  TypeInv'
<1>1. AssignmentTypeOK' /\ ControlTypeOK'
  BY DEF AssignmentTypeOK, ControlTypeOK, TypeInv, Fences
<1>2. (Controls(ControlPcs) => ctl \in Transactions)'
  BY DEF TypeInv, Controls, SwitchClis, Operations
<1>3. (Switches(SwitchPcs) => asg \in AssignmentTransactions)'
  BY DEF TypeInv, Switches
<1> QED BY <1>1, <1>2, <1>3 DEF TypeInv

\* The same once it is under way and before it commits.
LEMMA SwitchFrame ==
  ASSUME TypeInv, RuntimeTypeOK', seen' \in BOOLEAN, fence' \in Fences,
         asg \in AssignmentTransactions, asg' \in AssignmentTransactions, asg'.gen = asg.gen,
         faults' \in 0..MaxFaults, cli' = None \/ cli' \in SwitchClis,
         UNCHANGED <<control, assignment, interrupts>>
  PROVE  TypeInv'
<1>1. asg # None
  BY AssignmentsAssumption
<1> QED BY <1>1, AssignmentFrame DEF TypeInv, control, AssignmentTypeOK, ControlTypeOK

\* The steps of an assignment.
LEMMA AssignmentType ==
  ASSUME TypeInv, AssignmentStep, UNCHANGED interrupts
  PROVE  TypeInv'
<1> USE DEF runtime, OutOfFence
<1>0. /\ snap \in Snapshots /\ agent \in Agents /\ fence \in Fences /\ RuntimeTypeOK
      /\ cli \in ControlClis \cup SwitchClis \cup {None} /\ seen \in BOOLEAN
      /\ faults \in 0..MaxFaults /\ commands \in 0..MaxCommands
      /\ commands \in Nat /\ MaxCommands \in Nat
      /\ assignment \in Assignments /\ asg \in AssignmentTransactions \cup {None}
  BY ControlAssumption DEF TypeInv, RuntimeTypeOK, ControlTypeOK, AssignmentTypeOK, Agents
<1>1. \A pc \in SwitchPcs : InSwitch(pc) =>
        /\ asg \in AssignmentTransactions /\ cli \in SwitchClis /\ cli.target \in Slots
        /\ cli # None /\ cli.cmd = "switch"
  <2>1. cli \in ControlClis => cli.cmd # "switch"
    BY DEF ControlClis, Operations
  <2>2. cli \in SwitchClis => cli.target \in Slots
    BY DEF SwitchClis
  <2> QED BY <1>0, <2>1, <2>2 DEF TypeInv, InSwitch, CliAt, Switches
<1>2. ASSUME NEW p \in SwitchPcs, CliGoto(p), cli # None, cli.cmd = "switch"
      PROVE  cli' \in SwitchClis
  BY <1>0, <1>2, CliMoves
<1>3. ASSUME NEW p \in AssignmentPhases,
             NEW r \in AssignmentPhases \cup {"", "deferred", "retrying"},
             Save(p, r), asg \in AssignmentTransactions
      PROVE  asg' \in AssignmentTransactions /\ asg'.gen = asg.gen
  BY <1>3, SaveMoves
<1>4. Fault => faults' \in 0..MaxFaults
  BY <1>0, AssignmentAssumption DEF Fault
<1>5. HealthFails => faults' \in 0..MaxFaults
  BY <1>0, <1>4 DEF HealthFails
<1>6. ASSUME NEW p \in SwitchPcs, NEW t \in Slots, Enter(p, t),
             \/ asg \in AssignmentTransactions /\ UNCHANGED asg
             \/ asg' \in AssignmentTransactions /\ asg'.gen = assignment.gen + 1,
             UNCHANGED <<runtime, ctl, broker, starter, assignment, faults>>
      PROVE  TypeInv'
  <2>1. cli' \in SwitchClis
    BY <1>6 DEF Enter, SwitchClis
  <2>2. commands' \in 0..MaxCommands /\ commands' = commands + 1
    BY <1>0, <1>6 DEF Enter
  <2>3. assignment.gen \in Nat /\ assignment.gen <= commands + 2
    BY <1>0 DEF Assignments, TypeInv
  <2>4. asg \in AssignmentTransactions => asg.gen \in Nat /\ asg.gen <= commands + 2
    <3>1. asg \in AssignmentTransactions => asg # None /\ asg.gen \in 2..(MaxCommands + 2)
      BY AssignmentsAssumption, Generations
    <3> QED BY <1>0, <3>1 DEF TypeInv
  <2>5. assignment'.gen <= commands' + 2 /\ asg' \in AssignmentTransactions
        /\ asg'.gen <= commands' + 2
    BY <1>0, <1>6, <2>2, <2>3, <2>4
  <2> QED BY <1>0, <1>6, <2>1, <2>2, <2>5, AssignmentFrame DEF RuntimeTypeOK
<1>7. ASSUME NEW o \in {"apply", "rollback"}, NEW desired \in Slots, NEW g,
             BeginSwitch(o, desired, g)
      PROVE  TypeInv'
  <2>1. CASE assignment.ref = desired
    <3>1. asg \in AssignmentTransactions
      BY <1>0, <1>7, <2>1 DEF BeginSwitch, Resuming, Open
    <3> QED BY <1>6, <1>7, <2>1, <3>1 DEF BeginSwitch, SwitchPcs
  <2>2. CASE assignment.ref # desired /\ Open /\ asg.phase = "rolling_back"
    <3>1. asg \in AssignmentTransactions /\ assignment.ref \in Slots
      BY <1>0, <2>2 DEF Open, Assignments
    <3> QED BY <1>6, <1>7, <2>2, <3>1 DEF BeginSwitch, SwitchPcs
  <2>3. CASE assignment.ref # desired /\ Open /\ asg.phase # "rolling_back"
    <3>1. asg \in AssignmentTransactions
      BY <1>0, <2>3 DEF Open
    <3> QED BY <1>6, <1>7, <2>3, <3>1 DEF BeginSwitch, SwitchPcs
  <2>4. CASE assignment.ref # desired /\ ~Open
    <3>1. /\ Enter("fence", desired)
          /\ UNCHANGED <<runtime, ctl, broker, starter, assignment, faults>>
          /\ asg' = [op |-> o, phase |-> "planned", result |-> "",
                     gen |-> assignment.gen + 1, cur |-> assignment.ref,
                     des |-> desired, wasLoaded |-> agent.loaded # None]
      BY <1>7, <2>4 DEF BeginSwitch
    <3>2. assignment.gen + 1 \in 2..(MaxCommands + 2) /\ assignment.ref \in Slots
      <4>1. assignment.gen \in Nat \ {0} /\ assignment.gen <= commands + 2
            /\ assignment.ref \in Slots
        BY <1>0 DEF Assignments, TypeInv
      <4>2. commands < MaxCommands
        BY <3>1 DEF Enter
      <4> QED BY <1>0, <4>1, <4>2
    <3>3. asg' \in AssignmentTransactions /\ asg'.gen = assignment.gen + 1
      BY <3>1, <3>2 DEF AssignmentTransactions, AssignmentPhases
    <3> QED BY <1>6, <3>1, <3>3 DEF SwitchPcs
  <2> QED BY <2>1, <2>2, <2>3, <2>4
<1>8. CASE \E desired \in Slots, g \in 1..(assignment.gen + 1) : BeginSwitch("apply", desired, g)
  BY <1>7, <1>8
<1>9. CASE \E g \in 1..(assignment.gen + 1) : BeginRollback(g)
  <2>1. asg # None => asg.des \in Slots
    BY <1>0 DEF AssignmentTransactions
  <2>2. assignment.prev # None => assignment.prev \in Slots
    BY <1>0 DEF Assignments
  <2> QED BY <1>7, <1>9, <2>1, <2>2 DEF BeginRollback
<1>10. CASE BeginRetry \/ BeginRetryRollback
  <2>1. asg \in AssignmentTransactions
    BY <1>0, <1>10 DEF BeginRetry, BeginRetryRollback
  <2>2. asg.des \in Slots /\ assignment.ref \in Slots
    BY <1>0, <2>1 DEF AssignmentTransactions, Assignments
  <2> QED BY <1>6, <1>10, <2>1, <2>2 DEF BeginRetry, BeginRetryRollback, SwitchPcs, delivery
<1>11. CASE RetryStop \/ Halt \/ RollbackStop
  <2>1. asg \in AssignmentTransactions /\ cli' \in SwitchClis
    BY <1>1, <1>2, <1>11 DEF RetryStop, Halt, RollbackStop, SwitchPcs
  <2>2. agent' \in Agents
    BY <1>0, <1>11, AgentMoves DEF RetryStop, Halt, RollbackStop
  <2> QED BY <1>0, <1>11, <2>1, <2>2, SwitchFrame
       DEF RetryStop, Halt, RollbackStop, delivery, RuntimeTypeOK, Agents
<1>12. CASE RetryRefused \/ ClosingFails \/ RetryRollbackStuck
  <2>1. asg \in AssignmentTransactions
    BY <1>1, <1>12 DEF RetryRefused, ClosingFails, RetryRollbackStuck, SwitchPcs
  <2>2. faults' \in 0..MaxFaults
    BY <1>0, <1>4, <1>5, <1>12 DEF RetryRefused, ClosingFails, RetryRollbackStuck, delivery
  <2> QED BY <1>0, <1>12, <2>1, <2>2, SwitchFrame
       DEF RetryRefused, ClosingFails, RetryRollbackStuck, delivery, RuntimeTypeOK
<1>13. CASE RetryPlan
  <2>1. asg \in AssignmentTransactions /\ cli \in SwitchClis
    BY <1>1, <1>13 DEF RetryPlan, SwitchPcs
  <2>2. cli' \in SwitchClis
    BY <1>13, <2>1 DEF RetryPlan, SwitchClis, SwitchPcs
  <2>3. asg' \in AssignmentTransactions /\ asg'.gen = asg.gen
    BY <1>3, <1>13, <2>1 DEF RetryPlan, AssignmentPhases
  <2>4. snap' \in Snapshots
    <3>1. RecoverUnstarted(snap) \in Snapshots
      BY <1>0, Recovered
    <3>2. "stopped" \in States /\ 0 \in 0..MaxStarts
      BY RuntimeAssumption DEF States
    <3>3. [RecoverUnstarted(snap) EXCEPT !.exec = None, !.state = "stopped", !.pid = 0]
            \in Snapshots
      BY <3>1, <3>2 DEF Snapshots
    <3> QED BY <1>0, <1>13, <3>3 DEF RetryPlan
  <2> QED BY <1>0, <1>13, <2>1, <2>2, <2>3, <2>4, SwitchFrame DEF RetryPlan, RuntimeTypeOK
<1>14. CASE WriteAssignmentFence
  <2>1. asg \in AssignmentTransactions /\ cli' \in SwitchClis
    BY <1>1, <1>2, <1>14 DEF WriteAssignmentFence, SwitchPcs
  <2>2. asg.gen \in (2..(MaxCommands + 2)) \cup {None}
    BY <2>1 DEF AssignmentTransactions
  <2>3. fence' \in Fences /\ seen' \in BOOLEAN
    BY <1>0, <1>14, <2>2, AssignmentFence DEF WriteAssignmentFence
  <2> QED BY <1>0, <1>14, <2>1, <2>3, SwitchFrame DEF WriteAssignmentFence, delivery, RuntimeTypeOK
<1>15. CASE RecordDraining \/ Defer \/ RecordValidating
  <2>1. asg \in AssignmentTransactions /\ cli' \in SwitchClis
    BY <1>1, <1>2, <1>15 DEF RecordDraining, Defer, RecordValidating, SwitchPcs
  <2>2. asg' \in AssignmentTransactions /\ asg'.gen = asg.gen
    BY <1>3, <1>15, <2>1 DEF RecordDraining, Defer, RecordValidating, AssignmentPhases
  <2> QED BY <1>0, <1>15, <2>1, <2>2, SwitchFrame
       DEF RecordDraining, Defer, RecordValidating, RuntimeTypeOK
<1>16. CASE AwaitDrained
  <2>1. asg \in AssignmentTransactions /\ cli \in SwitchClis
    BY <1>1, <1>16 DEF AwaitDrained, SwitchPcs
  <2>2. cli' \in SwitchClis
    BY <1>0, <1>16, <2>1 DEF AwaitDrained, SwitchClis, SwitchPcs
  <2> QED BY <1>0, <1>16, <2>1, <2>2, SwitchFrame DEF AwaitDrained, delivery, RuntimeTypeOK
<1>17. CASE ReleaseDeferred \/ ReleaseCommitted \/ ReleaseRolledBack
  <2>1. asg \in AssignmentTransactions /\ (cli' = None \/ cli' \in SwitchClis)
    BY <1>1, <1>2, <1>17 DEF ReleaseDeferred, ReleaseCommitted, ReleaseRolledBack, SwitchPcs
  <2>2. fence' \in Fences /\ seen' \in BOOLEAN
    BY <1>0, <1>17, FenceClears DEF ReleaseDeferred, ReleaseCommitted, ReleaseRolledBack
  <2> QED BY <1>0, <1>17, <2>1, <2>2, SwitchFrame
       DEF ReleaseDeferred, ReleaseCommitted, ReleaseRolledBack, delivery, RuntimeTypeOK
<1>18. CASE Halted
  <2>1. asg \in AssignmentTransactions /\ cli' \in SwitchClis
    BY <1>1, <1>2, <1>18 DEF Halted, SwitchPcs
  <2> QED BY <1>0, <1>4, <1>18, <2>1, SwitchFrame DEF Halted, RuntimeTypeOK
<1>19. CASE RecordApplying
  <2>1. asg \in AssignmentTransactions /\ cli' \in SwitchClis
    BY <1>1, <1>2, <1>19 DEF RecordApplying, SwitchPcs
  <2>2. asg' \in AssignmentTransactions /\ asg'.gen = asg.gen
    BY <1>3, <1>19, <2>1 DEF RecordApplying, AssignmentPhases
  <2>3. faults' \in 0..MaxFaults
    BY <1>0, <1>4, <1>19 DEF RecordApplying
  <2> QED BY <1>0, <1>19, <2>1, <2>2, <2>3, SwitchFrame DEF RecordApplying, RuntimeTypeOK
<1>20. CASE WritePlist \/ RollbackPlist
  <2>1. /\ asg \in AssignmentTransactions /\ cli' \in SwitchClis /\ cli.target \in Slots
    BY <1>1, <1>2, <1>20 DEF WritePlist, RollbackPlist, SwitchPcs
  <2>2. agent' \in Agents
    BY <1>0, <1>20, <2>1, AgentMoves DEF WritePlist, RollbackPlist
  <2>3. faults' \in 0..MaxFaults
    BY <1>0, <1>4, <1>20 DEF WritePlist, RollbackPlist, delivery
  <2> QED BY <1>0, <1>20, <2>1, <2>2, <2>3, SwitchFrame
       DEF WritePlist, RollbackPlist, delivery, RuntimeTypeOK, Agents
<1>21. CASE StartAssigned \/ RollbackStart
  <2>1. asg \in AssignmentTransactions /\ cli' \in SwitchClis
    BY <1>1, <1>2, <1>21 DEF StartAssigned, RollbackStart, SwitchPcs
  <2>2. agent' \in Agents
    BY <1>0, <1>21, AgentMoves DEF StartAssigned, RollbackStart
  <2> QED BY <1>0, <1>21, <2>1, <2>2, SwitchFrame
       DEF StartAssigned, RollbackStart, delivery, RuntimeTypeOK, Agents
<1>22. CASE Commit
  <2>1. /\ asg \in AssignmentTransactions /\ cli' \in SwitchClis /\ cli.target \in Slots
        /\ asg # None
    BY <1>1, <1>2, <1>22, AssignmentsAssumption DEF Commit, SwitchPcs
  <2>2. faults' \in 0..MaxFaults
    BY <1>0, <1>5, <1>22 DEF Commit
  <2>3. [ref |-> cli.target, prev |-> assignment.ref, gen |-> asg.gen] \in Assignments
    <3>1. asg.gen \in 1..(MaxCommands + 2)
      BY <1>0, <2>1, Generations
    <3>2. assignment.ref \in Slots
      BY <1>0 DEF Assignments
    <3> QED BY <2>1, <3>1, <3>2 DEF Assignments
  <2>4. asg.gen <= commands + 2 /\ assignment.gen <= commands + 2
    BY <2>1 DEF TypeInv
  <2>5. assignment' \in Assignments /\ assignment'.gen <= commands + 2
    BY <1>0, <1>22, <2>3, <2>4 DEF Commit
  <2> QED BY <1>0, <1>22, <2>1, <2>2, <2>4, <2>5, AssignmentFrame DEF Commit, RuntimeTypeOK, control
<1>23. CASE RecordClosed \/ RecordRolledBack
  <2>1. asg \in AssignmentTransactions
    BY <1>1, <1>23 DEF RecordClosed, RecordRolledBack, SwitchPcs
  <2>2. asg' \in AssignmentTransactions /\ asg'.gen = asg.gen
    BY <1>3, <1>23, <2>1 DEF RecordClosed, RecordRolledBack, AssignmentPhases
  <2> QED BY <1>0, <1>23, <2>1, <2>2, SwitchFrame DEF RecordClosed, RecordRolledBack, RuntimeTypeOK
<1>24. CASE RecordRollingBack
  <2>1. asg \in AssignmentTransactions /\ cli \in SwitchClis
    BY <1>1, <1>24 DEF RecordRollingBack, SwitchPcs
  <2>2. cli' \in SwitchClis
    <3>1. assignment.ref \in Slots
      BY <1>0 DEF Assignments
    <3>2. \A p \in SwitchPcs, t \in Slots :
            [cli EXCEPT !.pc = p, !.target = t] \in SwitchClis
      BY <2>1 DEF SwitchClis
    <3> QED BY <1>24, <3>1, <3>2 DEF RecordRollingBack, SwitchPcs
  <2>3. asg' \in AssignmentTransactions /\ asg'.gen = asg.gen
    BY <1>3, <1>24, <2>1 DEF RecordRollingBack, AssignmentPhases
  <2> QED BY <1>0, <1>24, <2>1, <2>2, <2>3, SwitchFrame DEF RecordRollingBack, RuntimeTypeOK
<1>25. CASE RollbackHealth
  <2>1. asg \in AssignmentTransactions /\ cli' \in SwitchClis
    BY <1>1, <1>2, <1>25 DEF RollbackHealth, SwitchPcs
  <2> QED BY <1>0, <1>5, <1>25, <2>1, SwitchFrame DEF RollbackHealth, RuntimeTypeOK
<1>26. CASE RollbackFails
  <2>1. asg \in AssignmentTransactions
    BY <1>1, <1>26 DEF RollbackFails, SwitchPcs
  <2>2. asg' \in AssignmentTransactions /\ asg'.gen = asg.gen
    BY <1>3, <1>26, <2>1 DEF RollbackFails, AssignmentPhases
  <2> QED BY <1>0, <1>26, <2>1, <2>2, SwitchFrame DEF RollbackFails, RuntimeTypeOK
<1> QED
  BY <1>8, <1>9, <1>10, <1>11, <1>12, <1>13, <1>14, <1>15, <1>16, <1>17, <1>18, <1>19, <1>20,
     <1>21, <1>22, <1>23, <1>24, <1>25, <1>26 DEF AssignmentStep

-----------------------------------------------------------------------------
(* Whose the fences are. *)

\* A fence belongs to the open transaction that wrote it, or to one whose deferral was cut;
\* a running command works on an open one and has removed its fence before it records the
\* end.
FenceInv ==
  /\ fence.operator # None => ControlActive /\ ctl.gen = fence.operator
  /\ fence.assignment # None => (Open \/ Deferred) /\ asg.gen = fence.assignment
  /\ Controls(ControlPcs) => ControlActive
  /\ Controls({"timed_out", "cleared"}) => fence.operator = None
  /\ Switches(SwitchPcs) => IF cli.pc = "deferred" THEN Deferred ELSE Open
  /\ Switches({"closed", "rollback closed"}) => fence.assignment = None
  /\ Deferred /\ fence.assignment # None => Switches({"deferred"}) \/ cut = fence.assignment

\* A running control command, whose transaction stays active.
LEMMA ControlPlaced ==
  ASSUME TypeInv, NEW pc \in ControlPcs, InControl(pc)
  PROVE  /\ Controls(ControlPcs) /\ ctl \in Transactions /\ cli \in ControlClis
         /\ cli # None /\ cli.cmd \in Operations /\ cli.cmd # "switch" /\ cli.pc = pc
         /\ ~Switches(SwitchPcs)
BY DEF TypeInv, InControl, CliAt, Controls, Switches, SwitchClis, Operations

\* A running switch.
LEMMA SwitchPlaced ==
  ASSUME TypeInv, NEW pc \in SwitchPcs, InSwitch(pc)
  PROVE  /\ Switches(SwitchPcs) /\ asg \in AssignmentTransactions /\ cli \in SwitchClis
         /\ cli # None /\ cli.cmd = "switch" /\ cli.pc = pc /\ cli.target \in Slots
         /\ cli.loaded \in BOOLEAN
<1>1. Switches(SwitchPcs) /\ cli # None /\ cli.cmd = "switch" /\ cli.pc = pc
      /\ asg \in AssignmentTransactions
  BY DEF TypeInv, InSwitch, CliAt, Switches
<1>2. cli \in SwitchClis
  BY <1>1 DEF TypeInv, ControlClis, Operations
<1> QED BY <1>1, <1>2 DEF SwitchClis

\* A step that leaves the fences and the assignment alone.
LEMMA ControlKeepsFences ==
  ASSUME TypeInv, FenceInv, UNCHANGED <<fence, delivery, cut>>,
         \/ ctl' = ctl
         \/ /\ Controls(ControlPcs)
            /\ ctl' \in Transactions /\ ctl'.phase \notin {"succeeded", "timed_out"}
            /\ ctl'.gen = ctl.gen,
         \/ cli' = cli
         \/ /\ Controls(ControlPcs)
            /\ \/ cli' = None
               \/ cli'.cmd = cli.cmd /\ cli'.pc \notin {"timed_out", "cleared"}
  PROVE  FenceInv'
<1>1. ControlActive => ControlActive' /\ ctl'.gen = ctl.gen
  BY TransactionsAssumption DEF ControlActive
<1>2. /\ (Controls(ControlPcs) => ControlActive)'
      /\ (Controls({"timed_out", "cleared"}) => fence.operator = None)'
  BY <1>1 DEF FenceInv, Controls
<1>3. /\ (Switches(SwitchPcs) => IF cli.pc = "deferred" THEN Deferred ELSE Open)'
      /\ (Switches({"closed", "rollback closed"}) => fence.assignment = None)'
      /\ (Deferred /\ fence.assignment # None
            => Switches({"deferred"}) \/ cut = fence.assignment)'
  BY DEF FenceInv, Controls, Switches, Operations, delivery, Deferred, Open
<1> QED BY <1>1, <1>2, <1>3 DEF FenceInv, delivery, Open, Deferred

\* The steps of stop, restart and start.
LEMMA ControlFences ==
  ASSUME TypeInv, TypeInv', FenceInv, ControlStep, UNCHANGED <<delivery, cut>>
  PROVE  FenceInv'
<1> USE DEF control, runtime
<1>0. fence \in Fences /\ cli \in ControlClis \cup SwitchClis \cup {None}
  BY DEF TypeInv
<1>1. ASSUME NEW p, CliGoto(p), Controls(ControlPcs)
      PROVE  cli'.cmd = cli.cmd /\ cli'.pc = p
  BY <1>0, <1>1, CliMoves DEF Controls
<1>2. CASE CheckDrain \/ ObserveDrained \/ CheckHealth
  <2>1. Controls(ControlPcs)
    BY <1>2, ControlPlaced DEF CheckDrain, ObserveDrained, CheckHealth, ControlPcs
  <2>2. cli \in ControlClis
    BY <1>2, ControlPlaced DEF CheckDrain, ObserveDrained, CheckHealth, ControlPcs
  <2>3. ObserveDrained => cli'.cmd = cli.cmd /\ cli'.pc = "drained"
    BY <2>2 DEF ObserveDrained, ControlClis
  <2>4. cli' = None \/ (cli'.cmd = cli.cmd /\ cli'.pc \notin {"timed_out", "cleared"})
    <3>1. CASE CheckDrain
      BY <1>1, <2>1, <3>1 DEF CheckDrain
    <3>2. CASE CheckHealth
      BY <1>1, <2>1, <3>2 DEF CheckHealth
    <3> QED BY <1>2, <2>3, <3>1, <3>2
  <2> QED BY <1>2, <2>1, <2>4, ControlKeepsFences DEF CheckDrain, ObserveDrained, CheckHealth
<1>3. CASE RecoverLaunch \/ StartCheck \/ StartRecord \/ StartLoad
  BY <1>3, ControlKeepsFences DEF RecoverLaunch, StartCheck, StartRecord, StartLoad
<1>4. CASE StopRepository \/ RepositoryStopped
  <2>1. Controls(ControlPcs)
    BY <1>4, ControlPlaced DEF StopRepository, RepositoryStopped, ControlPcs
  <2>2. cli'.cmd = cli.cmd /\ cli'.pc \in {"unloading", "stopped"}
    BY <1>1, <1>4, <2>1 DEF StopRepository, RepositoryStopped
  <2> QED BY <1>4, <2>1, <2>2, ControlKeepsFences DEF StopRepository, RepositoryStopped
<1>5. CASE RecordDrained \/ RecordStopped \/ RecordStarting \/ StopBroker \/ StartBroker
           \/ StartRepository
  <2>1. Controls(ControlPcs) /\ ctl \in Transactions
    BY <1>5, ControlPlaced DEF RecordDrained, RecordStopped, RecordStarting, StopBroker,
       StartBroker, StartRepository, ControlPcs
  <2>2. cli' = cli \/ (cli'.cmd = cli.cmd /\ cli'.pc \in {"step", "finish"})
    <3>1. CASE RecordDrained
      BY <1>1, <2>1, <3>1 DEF RecordDrained
    <3>2. CASE RecordStopped
      BY <1>1, <2>1, <3>2 DEF RecordStopped
    <3> QED BY <1>5, <3>1, <3>2 DEF RecordStarting, StopBroker, StartBroker, StartRepository
  <2>3. ctl' = ctl \/ \E p \in Phases \ {"succeeded", "timed_out"} : Phase(p)
    BY <1>5 DEF RecordDrained, RecordStopped, RecordStarting, StopBroker,
       StartBroker, StartRepository, Phases
  <2>4. ctl' = ctl \/ (/\ ctl' \in Transactions /\ ctl'.phase \notin {"succeeded", "timed_out"}
                      /\ ctl'.gen = ctl.gen)
    BY <2>1, <2>3, PhaseMoves
  <2>5. UNCHANGED fence
    BY <1>5 DEF RecordDrained, RecordStopped, RecordStarting, StopBroker,
       StartBroker, StartRepository
  <2> QED BY <2>1, <2>2, <2>4, <2>5, ControlKeepsFences
<1>6. CASE WriteOperatorFence
  <2>1. Controls(ControlPcs) /\ ctl' = ctl
    BY <1>6, ControlPlaced DEF WriteOperatorFence, ControlPcs
  <2>2. cli'.cmd = cli.cmd /\ cli'.pc \in {"step", "wait"} /\ cli.cmd # "switch"
    BY <1>1, <1>6, <2>1 DEF WriteOperatorFence, Controls, Operations
  <2>3. fence'.operator = ctl.gen /\ fence'.assignment = fence.assignment
    BY <1>0, <1>6, OperatorFence DEF WriteOperatorFence
  <2> QED BY <2>1, <2>2, <2>3
       DEF FenceInv, Controls, Switches, ControlActive, delivery, Open, Deferred
<1>7. CASE DrainTimesOut
  <2>1. Controls(ControlPcs) /\ ctl' = ctl
    BY <1>7, ControlPlaced DEF DrainTimesOut, ControlPcs
  <2>2. CASE Orphaned
    BY <1>7, <2>1, <2>2, ControlKeepsFences DEF DrainTimesOut
  <2>3. CASE ~Orphaned
    <3>1. cli'.cmd = cli.cmd /\ cli'.pc = "timed_out" /\ cli.cmd # "switch"
      BY <1>1, <1>7, <2>1, <2>3 DEF DrainTimesOut, Controls, Operations
    <3>2. fence'.operator = None /\ fence'.assignment = fence.assignment
      BY <1>0, <1>7, <2>3, FenceClears DEF DrainTimesOut
    <3> QED BY <2>1, <3>1, <3>2
         DEF FenceInv, Controls, Switches, ControlActive, delivery, Open, Deferred
  <2> QED BY <2>2, <2>3
<1>8. CASE FinishControl
  <2>1. Controls(ControlPcs) /\ ctl' = ctl
    BY <1>8, ControlPlaced DEF FinishControl, ControlPcs
  <2>2. cli'.cmd = cli.cmd /\ cli'.pc = "cleared" /\ cli.cmd # "switch"
    BY <1>1, <1>8, <2>1 DEF FinishControl, Controls, Operations
  <2>3. fence'.operator = None /\ fence'.assignment = fence.assignment
    BY <1>0, <1>8, FenceClears DEF FinishControl
  <2> QED BY <2>1, <2>2, <2>3
       DEF FenceInv, Controls, Switches, ControlActive, delivery, Open, Deferred
<1>9. CASE RecordTimeout \/ RecordSucceeded
  <2>1. fence.operator = None /\ fence' = fence /\ cli' = None
    BY <1>9 DEF RecordTimeout, RecordSucceeded, InControl, CliAt, FenceInv, Controls
  <2>2. ~Switches({"deferred"})
    BY <1>9 DEF RecordTimeout, RecordSucceeded, InControl, CliAt, Switches
  <2> QED BY <2>1, <2>2 DEF FenceInv, Controls, Switches, delivery, Open, Deferred
<1>10. ASSUME NEW o \in Operations, NEW force \in BOOLEAN, BeginControl(o, force)
       PROVE  FenceInv'
  <2>1. /\ cli' = [cmd |-> o, force |-> force, pc |-> IF force THEN "fence" ELSE "check",
                  seen |-> FALSE]
        /\ fence' = fence /\ fence.assignment = None
    BY <1>10 DEF BeginControl
  <2>2. cli'.cmd \in Operations /\ cli'.cmd # "switch" /\ cli'.pc \in {"fence", "check"}
    BY <2>1 DEF Operations
  <2>3. ControlActive' /\ (ControlActive => ctl'.gen = ctl.gen)
    <3>1. ctl' = ctl \/ ctl'.phase \in {"stopping", "draining"}
      BY <1>10 DEF BeginControl
    <3>2. ctl' # None
      BY <1>10, BeginsTransaction, TransactionsAssumption
    <3>3. ControlActive => ctl'.gen = ctl.gen
      BY <1>10 DEF BeginControl
    <3>4. ctl' = ctl => ControlActive \/ ctl'.phase \in {"stopping", "draining"}
      BY <1>10 DEF BeginControl
    <3> QED BY <3>1, <3>2, <3>3, <3>4 DEF ControlActive
  <2> QED BY ONLY FenceInv, UNCHANGED <<delivery, cut>>, <2>1, <2>2, <2>3
       DEF FenceInv, Controls, Switches, delivery, Open, Deferred
<1> QED
  BY <1>2, <1>3, <1>4, <1>5, <1>6, <1>7, <1>8, <1>9, <1>10 DEF ControlStep

\* A step of a switch that goes on under its fence, or is given up.
LEMMA SwitchKeepsFences ==
  ASSUME TypeInv, FenceInv, UNCHANGED <<fence, ctl, cut>>,
         Switches(SwitchPcs), cli.pc # "deferred",
         \/ asg' = asg
         \/ /\ asg' \in AssignmentTransactions /\ asg'.gen = asg.gen
            /\ asg'.phase \notin {"succeeded", "rolled_back"} /\ asg'.result # "deferred",
         \/ cli' = None
         \/ cli'.cmd = "switch" /\ cli'.pc \notin {"deferred", "closed", "rollback closed"}
  PROVE  FenceInv'
<1>1. Open /\ asg # None
  BY DEF FenceInv, Open
<1>2. Open' /\ asg'.gen = asg.gen
  BY <1>1, AssignmentsAssumption DEF Open, Deferred
<1>3. /\ (Controls(ControlPcs) => ControlActive)'
      /\ (Controls({"timed_out", "cleared"}) => fence.operator = None)'
  BY DEF Controls, Operations
<1>4. /\ (Switches(SwitchPcs) => IF cli.pc = "deferred" THEN Deferred ELSE Open)'
      /\ (Switches({"closed", "rollback closed"}) => fence.assignment = None)'
      /\ (Deferred /\ fence.assignment # None
            => Switches({"deferred"}) \/ cut = fence.assignment)'
  BY <1>2 DEF Switches, Open
<1> QED BY <1>2, <1>3, <1>4 DEF FenceInv, ControlActive

\* The beginning of a switch opens a transaction, or finds one open.
LEMMA BeginsSwitch ==
  ASSUME TypeInv, FenceInv, NEW o \in {"apply", "rollback"}, NEW desired \in Slots, NEW g,
         BeginSwitch(o, desired, g)
  PROVE  /\ Open' /\ UNCHANGED <<runtime, ctl, broker, starter, assignment, faults>>
         /\ Open => asg' = asg
         /\ ~Open => fence.assignment = None
         /\ \/ /\ desired = assignment.ref /\ asg' = asg
               /\ Enter("closing", assignment.ref)
            \/ /\ desired # assignment.ref /\ asg' = asg
               /\ Enter("rolling", assignment.ref)
            \/ /\ desired # assignment.ref /\ asg'.des = desired /\ Recognized
               /\ Enter("fence", desired)
<1>1. UNCHANGED <<runtime, ctl, broker, starter, assignment, faults>>
  BY DEF BeginSwitch
<1>2. ~Open => fence.assignment = None
  BY DEF FenceInv, BeginSwitch, Accepted
<1>3. CASE desired = assignment.ref
  BY <1>1, <1>2, <1>3 DEF BeginSwitch, Resuming, Open, Deferred
<1>4. CASE desired # assignment.ref /\ Open /\ asg.phase = "rolling_back"
  BY <1>1, <1>2, <1>4 DEF BeginSwitch, Open, Deferred
<1>5. CASE desired # assignment.ref /\ Open /\ asg.phase # "rolling_back"
  BY <1>1, <1>2, <1>5 DEF BeginSwitch, Open, Deferred
<1>6. CASE desired # assignment.ref /\ ~Open
  <2>1. /\ Enter("fence", desired) /\ Recognized
        /\ asg' = [op |-> o, phase |-> "planned", result |-> "",
                   gen |-> assignment.gen + 1, cur |-> assignment.ref,
                   des |-> desired, wasLoaded |-> agent.loaded # None]
    BY <1>6 DEF BeginSwitch
  <2>2. asg' # None
    <3>1. assignment.gen + 1 \in 2..(MaxCommands + 2) /\ assignment.ref \in Slots
      <4>1. assignment \in Assignments /\ assignment.gen <= commands + 2
            /\ commands \in 0..MaxCommands /\ MaxCommands \in Nat
        BY ControlAssumption DEF TypeInv, AssignmentTypeOK, ControlTypeOK
      <4>2. assignment.gen \in Nat \ {0} /\ assignment.ref \in Slots
        BY <4>1 DEF Assignments
      <4>3. commands < MaxCommands
        BY <2>1 DEF Enter
      <4> QED BY <4>1, <4>2, <4>3
    <3>2. asg' \in AssignmentTransactions
      BY <2>1, <3>1 DEF AssignmentTransactions, AssignmentPhases
    <3> QED BY <3>2, AssignmentsAssumption
  <2>3. asg'.phase = "planned" /\ asg'.des = desired
    BY <2>1
  <2>4. Open'
    BY <2>2, <2>3 DEF Open, Deferred
  <2> QED BY <1>1, <1>2, <1>6, <2>1, <2>3, <2>4
<1> QED BY <1>3, <1>4, <1>5, <1>6

\* The steps of an assignment.
LEMMA AssignmentFences ==
  ASSUME TypeInv, FenceInv, AssignmentStep, UNCHANGED cut
  PROVE  FenceInv'
<1> USE DEF control, runtime, delivery
<1>0. fence \in Fences /\ cli \in ControlClis \cup SwitchClis \cup {None}
  BY DEF TypeInv
<1>1. ASSUME NEW p, CliGoto(p), Switches(SwitchPcs)
      PROVE  cli'.cmd = "switch" /\ cli'.pc = p
  BY <1>0, <1>1, CliMoves DEF Switches
<1>2. ASSUME NEW p \in AssignmentPhases,
             NEW r \in AssignmentPhases \cup {"", "deferred", "retrying"},
             Save(p, r), asg \in AssignmentTransactions
      PROVE  /\ asg' \in AssignmentTransactions /\ asg'.gen = asg.gen
             /\ asg'.phase = p /\ asg'.result = r
  BY <1>2, SaveMoves
<1>3. ASSUME NEW p \in SwitchPcs \ {"deferred", "closed", "rollback closed"},
             NEW t, Enter(p, t), Open', fence' = fence, ctl' = ctl, Open => asg' = asg,
             ~Open => fence.assignment = None
      PROVE  FenceInv'
  <2>1. cli'.cmd = "switch" /\ cli'.pc = p
    BY <1>3 DEF Enter
  <2> QED BY <1>3, <2>1 DEF FenceInv, Controls, Switches, Operations, ControlActive, Open
<1>4. ASSUME NEW o \in {"apply", "rollback"}, NEW desired \in Slots, NEW g,
             BeginSwitch(o, desired, g)
      PROVE  FenceInv'
  BY <1>3, <1>4, BeginsSwitch DEF SwitchPcs
<1>5. CASE \E desired \in Slots, g \in 1..(assignment.gen + 1) : BeginSwitch("apply", desired, g)
  BY <1>4, <1>5
<1>6. CASE \E g \in 1..(assignment.gen + 1) : BeginRollback(g)
  <2>1. asg # None => asg.des \in Slots
    BY DEF TypeInv, AssignmentTypeOK, AssignmentTransactions
  <2>2. assignment.prev # None => assignment.prev \in Slots
    BY DEF TypeInv, AssignmentTypeOK, Assignments
  <2> QED BY <1>4, <1>6, <2>1, <2>2 DEF BeginRollback
<1>7. CASE BeginRetry \/ BeginRetryRollback
  <2>1. Open /\ asg' = asg /\ fence' = fence /\ ctl' = ctl
    BY <1>7 DEF BeginRetry, BeginRetryRollback, Retained, Open, Deferred
  <2>2. Open'
    BY <2>1 DEF Open, Deferred
  <2> QED BY <1>3, <1>7, <2>1, <2>2 DEF BeginRetry, BeginRetryRollback, SwitchPcs
<1>8. CASE RetryStop \/ Halt \/ Halted \/ WritePlist \/ StartAssigned
           \/ RollbackStop \/ RollbackPlist \/ RollbackStart \/ RollbackHealth
  <2>1. Switches(SwitchPcs) /\ cli.pc # "deferred"
    BY <1>8, SwitchPlaced DEF RetryStop, Halt, Halted, WritePlist, StartAssigned,
       RollbackStop, RollbackPlist, RollbackStart, RollbackHealth, SwitchPcs
  <2>2. \E p \in {"retry stopped", "halting", "switch", "rolling", "start", "started",
                  "rollback stopping", "rollback start", "rollback health", "rollback done",
                  "rollback failed"} : CliGoto(p)
    BY <1>8 DEF RetryStop, Halt, Halted, WritePlist, StartAssigned,
       RollbackStop, RollbackPlist, RollbackStart, RollbackHealth
  <2>3. UNCHANGED <<fence, ctl, asg>>
    BY <1>8 DEF RetryStop, Halt, Halted, WritePlist, StartAssigned, OutOfFence,
       RollbackStop, RollbackPlist, RollbackStart, RollbackHealth
  <2> QED BY <1>1, <2>1, <2>2, <2>3, SwitchKeepsFences
<1>9. CASE AwaitDrained \/ Commit \/ RetryRefused \/ ClosingFails \/ RetryRollbackStuck
  <2>1. Switches(SwitchPcs) /\ cli.pc # "deferred" /\ cli \in SwitchClis
    BY <1>9, SwitchPlaced DEF AwaitDrained, Commit, RetryRefused, ClosingFails,
       RetryRollbackStuck, SwitchPcs
  <2>2. UNCHANGED <<fence, ctl, asg>>
    BY <1>9 DEF AwaitDrained, Commit, RetryRefused, ClosingFails, RetryRollbackStuck
  <2>3. cli' = None \/ (cli'.cmd = "switch" /\ cli'.pc \in {"halt", "committed", "rolling"})
    <3>1. AwaitDrained => cli'.cmd = "switch" /\ cli'.pc = "halt"
      BY <2>1 DEF AwaitDrained, SwitchClis
    <3>2. Commit => cli'.cmd = "switch" /\ cli'.pc \in {"committed", "rolling"}
      BY <1>1, <2>1 DEF Commit
    <3> QED BY <1>9, <3>1, <3>2 DEF RetryRefused, ClosingFails, RetryRollbackStuck
  <2> QED BY <2>1, <2>2, <2>3, SwitchKeepsFences
<1>10. CASE RetryPlan \/ RecordDraining \/ RecordApplying \/ RecordValidating
            \/ RecordRollingBack \/ RollbackFails
  <2>1. /\ Switches(SwitchPcs) /\ cli.pc # "deferred" /\ cli \in SwitchClis
        /\ asg \in AssignmentTransactions
    BY <1>10, SwitchPlaced DEF RetryPlan, RecordDraining, RecordApplying, RecordValidating,
       RecordRollingBack, RollbackFails, SwitchPcs
  <2>2. UNCHANGED <<fence, ctl>>
    BY <1>10 DEF RetryPlan, RecordDraining, RecordApplying, RecordValidating,
       RecordRollingBack, RollbackFails
  <2>3. \/ asg' = asg
        \/ Save("planned", "retrying")
        \/ \E p \in AssignmentPhases \ {"succeeded", "rolled_back"} : Save(p, p)
    BY <1>10 DEF RetryPlan, RecordDraining, RecordApplying, RecordValidating,
       RecordRollingBack, RollbackFails, AssignmentPhases
  <2>4. \/ asg' = asg
        \/ /\ asg' \in AssignmentTransactions /\ asg'.gen = asg.gen
           /\ asg'.phase \notin {"succeeded", "rolled_back"} /\ asg'.result # "deferred"
    <3>1. ASSUME Save("planned", "retrying")
          PROVE  /\ asg' \in AssignmentTransactions /\ asg'.gen = asg.gen
                 /\ asg'.phase \notin {"succeeded", "rolled_back"} /\ asg'.result # "deferred"
      <4>1. "planned" \in AssignmentPhases
            /\ "retrying" \in AssignmentPhases \cup {"", "deferred", "retrying"}
        BY DEF AssignmentPhases
      <4>2. /\ asg' \in AssignmentTransactions /\ asg'.gen = asg.gen
            /\ asg'.phase = "planned" /\ asg'.result = "retrying"
        BY <2>1, <3>1, <4>1, SaveMoves
      <4> QED BY <4>2
    <3>2. ASSUME NEW p \in AssignmentPhases \ {"succeeded", "rolled_back"}, Save(p, p)
          PROVE  /\ asg' \in AssignmentTransactions /\ asg'.gen = asg.gen
                 /\ asg'.phase \notin {"succeeded", "rolled_back"} /\ asg'.result # "deferred"
      <4>1. p # "deferred"
        BY DEF AssignmentPhases
      <4> QED BY <1>2, <2>1, <3>2, <4>1
    <3> QED BY <2>3, <3>1, <3>2
  <2>5. \/ cli' = None
        \/ cli'.cmd = "switch" /\ cli'.pc \notin {"deferred", "closed", "rollback closed"}
    <3>1. RetryPlan \/ RecordRollingBack =>
            /\ cli'.cmd = "switch"
            /\ cli'.pc \in {"fence", "rollback stop", "rollback failed"}
      BY <2>1 DEF RetryPlan, RecordRollingBack, SwitchClis
    <3>2. RecordDraining \/ RecordApplying \/ RecordValidating =>
            \E p \in {"await", "switch", "plist", "rolling", "validate"} : CliGoto(p)
      BY DEF RecordDraining, RecordApplying, RecordValidating
    <3> QED BY <1>1, <1>10, <2>1, <3>1, <3>2 DEF RollbackFails
  <2> QED BY <2>1, <2>2, <2>4, <2>5, SwitchKeepsFences
<1>11. CASE Defer
  <2>1. Switches(SwitchPcs) /\ asg \in AssignmentTransactions /\ cli.pc = "await"
    BY <1>11, SwitchPlaced DEF Defer, SwitchPcs
  <2>2. cli'.cmd = "switch" /\ cli'.pc = "deferred"
    BY <1>1, <1>11, <2>1 DEF Defer
  <2>3. asg'.gen = asg.gen /\ Deferred'
    BY <1>2, <1>11, <2>1, AssignmentsAssumption DEF Defer, AssignmentPhases, Deferred
  <2>4. UNCHANGED <<fence, ctl>>
    BY <1>11 DEF Defer
  <2>5. cli' # None
    <3>1. cli \in [cmd : {"switch"}, pc : SwitchPcs, target : Slots, loaded : BOOLEAN,
                   seen : BOOLEAN]
      BY <1>11, SwitchPlaced DEF Defer, SwitchPcs, SwitchClis
    <3>2. cli' \in [cmd : {"switch"}, pc : {"deferred"}, target : Slots, loaded : BOOLEAN,
                    seen : BOOLEAN]
      BY <1>11, <3>1 DEF Defer, CliGoto
    <3> QED BY <3>2, CommandsAssumption
  <2> QED BY <2>2, <2>3, <2>4, <2>5 DEF FenceInv, Controls, Switches, Operations, ControlActive
<1>12. CASE ReleaseDeferred \/ ReleaseCommitted \/ ReleaseRolledBack
  <2>1. /\ fence'.assignment = None /\ fence'.operator = fence.operator
        /\ asg' = asg /\ ctl' = ctl
    BY <1>0, <1>12, FenceClears DEF ReleaseDeferred, ReleaseCommitted, ReleaseRolledBack
  <2>2. Switches(SwitchPcs) /\ (ReleaseDeferred \/ cli.pc # "deferred")
    BY <1>12, SwitchPlaced DEF ReleaseDeferred, ReleaseCommitted, ReleaseRolledBack, SwitchPcs
  <2>3. \/ cli' = None
        \/ /\ cli'.cmd = "switch" /\ cli'.pc \in {"closed", "rollback closed"}
           /\ cli.pc # "deferred"
    BY <1>1, <1>12, <2>2 DEF ReleaseDeferred, ReleaseCommitted, ReleaseRolledBack
  <2> QED BY <2>1, <2>2, <2>3
       DEF FenceInv, Controls, Switches, Operations, ControlActive, Open, Deferred
<1>13. CASE RecordClosed \/ RecordRolledBack
  <2>1. fence.assignment = None /\ cli' = None /\ UNCHANGED <<fence, ctl>>
    BY <1>13 DEF RecordClosed, RecordRolledBack, InSwitch, CliAt, FenceInv, Switches
  <2> QED BY <2>1 DEF FenceInv, Controls, Switches, ControlActive
<1>14. CASE WriteAssignmentFence
  <2>1. /\ Switches(SwitchPcs) /\ cli.pc = "fence"
    BY <1>14, SwitchPlaced DEF WriteAssignmentFence, SwitchPcs
  <2>2. cli'.cmd = "switch" /\ cli'.pc = "fenced"
    BY <1>1, <1>14, <2>1 DEF WriteAssignmentFence
  <2>3. /\ fence'.assignment = asg.gen /\ fence'.operator = fence.operator
        /\ UNCHANGED <<asg, ctl>>
    BY <1>0, <1>14, AssignmentFence DEF WriteAssignmentFence
  <2> QED BY <2>1, <2>2, <2>3
       DEF FenceInv, Controls, Switches, Operations, ControlActive, Open, Deferred
<1> QED
  BY <1>5, <1>6, <1>7, <1>8, <1>9, <1>10, <1>11, <1>12, <1>13, <1>14 DEF AssignmentStep

-----------------------------------------------------------------------------
(* What a drain has seen. *)

\* Once a scheduler has looked at the fence in place, no cycle is under way, and the
\* maintenance state in the snapshot means that no job is.
SeenInv ==
  /\ seen => Fenced
  /\ seen /\ super # None => ~super.cycle
  /\ seen /\ super # None /\ snap.state = "maintenance" => super.job = "none"

Idle == super # None => super.job = "none"

\* A command that waits for the drain has its fence in place, and one that has seen it
\* complete keeps it there until the runtime is down.
LookedInv ==
  /\ Controls({"check", "fence", "wait"}) => ~cli.seen
  /\ Controls({"wait"}) => fence.operator # None
  /\ Switches({"fenced", "await", "halt"}) => fence.assignment # None
  /\ Controls({"drained", "step", "unloading", "stopped"}) /\ cli.seen =>
       fence.operator # None /\ seen /\ Idle
  /\ Switches({"halt"}) /\ cli.seen => seen /\ Idle

\* The steps of the supervisor.
LEMMA SupervisorDrains ==
  ASSUME TypeInv, SeenInv, LookedInv, SupervisorStep \/ Crash, UNCHANGED cli
  PROVE  SeenInv' /\ LookedInv'
<1>0. /\ snap \in Snapshots /\ (super = None \/ super \in Supers)
  BY DEF TypeInv, RuntimeTypeOK, Supers
<1>a. ASSUME NEW j, Goto(j), super # None
      PROVE  super'.job = j /\ super'.cycle = super.cycle
  BY <1>0, <1>a DEF Goto, Supers
<1>b. ASSUME fence' = fence, seen' = seen, Idle => Idle' \/ ~seen
      PROVE  LookedInv'
  BY <1>b DEF LookedInv, Controls, Switches
<1>1. CASE Boot
  <2>1. super'.cycle = FALSE /\ super'.job = "none"
    BY <1>1 DEF Boot
  <2> QED BY <1>1, <1>b, <2>1 DEF Boot, SeenInv, Idle, Fenced
<1>2. CASE Reconcile
  <2>1. super'.cycle = super.cycle /\ super'.job = super.job /\ super # None
    BY <1>0, <1>2 DEF Reconcile, Supers
  <2>2. snap'.state = snap.state
    <3>1. /\ RecoverUnstarted(snap) \in Snapshots
          /\ RecoverUnstarted(snap).state = snap.state
      BY <1>0, Recovered
    <3>2. [RecoverUnstarted(snap) EXCEPT !.worker = FALSE, !.exec = None].state = snap.state
      BY <3>1 DEF Snapshots
    <3> QED BY <1>2, <3>1, <3>2 DEF Reconcile
  <2> QED BY <1>2, <1>b, <2>1, <2>2 DEF Reconcile, SeenInv, Idle, Fenced
<1>3. CASE RecordStarted
  <2>1. super'.cycle = super.cycle /\ super'.job = super.job /\ super # None
    BY <1>0, <1>3 DEF RecordStarted, Supers
  <2>2. snap'.state = "running"
    BY <1>0, <1>3 DEF RecordStarted, Snapshots
  <2> QED BY <1>3, <1>b, <2>1, <2>2 DEF RecordStarted, SeenInv, Idle, Fenced
<1>4. CASE ObserveFence
  <2> DEFINE held == IF super.job = "none" THEN RecoverUnstarted(snap) ELSE snap
             idle == super.job = "none" /\ held.exec = None /\ ~held.worker
  <2>1. held \in Snapshots
    BY <1>0, Recovered
  <2>2. snap'.state = IF idle THEN "maintenance" ELSE "draining"
    <3>1. snap' = [held EXCEPT !.state = IF idle THEN "maintenance" ELSE "draining"]
      BY <1>4 DEF ObserveFence
    <3> HIDE DEF held, idle
    <3> QED BY <2>1, <3>1 DEF Snapshots
  <2>3. snap'.state = "maintenance" => super.job = "none"
    BY <2>2
  <2>4. ~super.cycle /\ Fenced /\ seen' = TRUE /\ super' = super /\ fence' = fence
    BY <1>4 DEF ObserveFence, GateFree
  <2>5. SeenInv'
    BY <2>3, <2>4 DEF SeenInv, Fenced
  <2>6. LookedInv'
    BY <2>4 DEF LookedInv, Controls, Switches, Idle
  <2> QED BY <2>5, <2>6
<1>5. CASE BeginCycle \/ EndCycle
  <2>1. ~seen /\ UNCHANGED <<seen, fence>>
    BY <1>5 DEF BeginCycle, EndCycle, SeenInv, Up
  <2> QED BY <2>1, <1>b DEF SeenInv
<1>6. CASE TakeGate \/ ClaimExecution \/ Launch \/ RecordWorker \/ StoreResult \/ FinishEffect
  <2>1. /\ super # None /\ super.job # "none" /\ super'.cycle = super.cycle
        /\ UNCHANGED <<seen, fence>>
    BY <1>6, <1>a DEF TakeGate, ClaimExecution, Launch, RecordWorker, StoreResult, FinishEffect, Up
  <2>2. seen => snap.state # "maintenance"
    BY <2>1 DEF SeenInv
  <2>3. snap'.state = snap.state \/ snap'.state = "running"
    <3>1. CASE TakeGate \/ FinishEffect
      BY <3>1 DEF TakeGate, FinishEffect
    <3>2. CASE ClaimExecution
      BY <1>0, <3>2 DEF ClaimExecution, Snapshots
    <3>3. CASE Launch
      BY <1>0, <3>3, AttemptedType DEF Launch
    <3>4. CASE RecordWorker \/ StoreResult
      BY <1>0, <3>4 DEF RecordWorker, StoreResult, Snapshots
    <3> QED BY <1>6, <3>1, <3>2, <3>3, <3>4
  <2> QED BY <1>b, <2>1, <2>2, <2>3 DEF SeenInv, Idle, Fenced
<1>7. CASE WorkerExits
  <2>1. \/ super' = super
        \/ super # None /\ super.job = "working" /\ super'.cycle = super.cycle
    BY <1>7, <1>a DEF WorkerExits, Up
  <2>2. UNCHANGED <<seen, fence, snap>>
    BY <1>7 DEF WorkerExits
  <2> QED BY <1>b, <2>1, <2>2 DEF SeenInv, Idle, Fenced
<1>8. CASE Terminate \/ Crash
  BY <1>8, <1>b DEF Terminate, Crash, SeenInv, Idle, Fenced
<1> QED
  BY <1>1, <1>2, <1>3, <1>4, <1>5, <1>6, <1>7, <1>8 DEF SupervisorStep

\* A step of a command may only take the fence away from what was seen under it.
LEMMA SeenKept ==
  ASSUME SeenInv, UNCHANGED super, seen' => seen /\ Fenced',
         snap'.state = snap.state \/ snap'.state # "maintenance"
  PROVE  SeenInv'
BY DEF SeenInv

\* The steps of stop, restart and start.
LEMMA ControlDrains ==
  ASSUME TypeInv, SeenInv, LookedInv, ControlStep
  PROVE  SeenInv' /\ LookedInv'
<1> USE DEF control, runtime
<1>0. /\ fence \in Fences /\ cli \in ControlClis \cup SwitchClis \cup {None}
      /\ snap \in Snapshots
  BY DEF TypeInv, RuntimeTypeOK
<1>1. ASSUME NEW p, CliGoto(p), Controls(ControlPcs)
      PROVE  cli'.cmd = cli.cmd /\ cli'.pc = p /\ cli'.seen = cli.seen /\ cli.cmd # "switch"
  BY <1>0, <1>1, CliMoves DEF Controls, Operations
<1>2. fence' = fence /\ seen' = seen => Fenced' = Fenced
  BY DEF Fenced
<1>3. CASE StartCheck \/ StartRecord \/ StartLoad \/ RecoverLaunch
  <2>1. UNCHANGED <<super, seen, fence, cli>>
    BY <1>3 DEF StartCheck, StartRecord, StartLoad, RecoverLaunch
  <2>2. snap'.state = snap.state \/ snap'.state # "maintenance"
    <3>1. StartRecord => snap'.state = snap.state \/ snap'.state = "starting"
      BY <1>0 DEF StartRecord, Snapshots
    <3>2. RecoverLaunch => snap'.state = snap.state
      BY <1>0, Recovered DEF RecoverLaunch
    <3> QED BY <1>3, <3>1, <3>2 DEF StartCheck, StartLoad
  <2>3. SeenInv'
    BY <2>1, <2>2, <1>2, SeenKept DEF SeenInv
  <2> QED BY <2>1, <2>3 DEF LookedInv, Controls, Switches, Idle
<1>4. CASE CheckDrain
  <2>1. Controls(ControlPcs) /\ cli.pc = "check"
    BY <1>4, ControlPlaced DEF CheckDrain, ControlPcs
  <2>2. ~cli.seen
    BY <2>1 DEF LookedInv, Controls
  <2>3. UNCHANGED <<super, seen, fence, snap>>
    BY <1>4 DEF CheckDrain
  <2>4. /\ cli'.cmd # "switch" /\ cli'.seen = cli.seen
        /\ cli'.pc \in {"step", "fence", "drained"}
    BY <1>1, <1>4, <2>1 DEF CheckDrain
  <2>5. SeenInv'
    BY <1>2, <2>3, SeenKept DEF SeenInv
  <2> QED BY <2>2, <2>4, <2>5 DEF LookedInv, Controls, Switches
<1>5. CASE ObserveDrained
  <2>1. Controls(ControlPcs) /\ cli.pc = "wait" /\ cli \in ControlClis
    BY <1>5, ControlPlaced DEF ObserveDrained, ControlPcs
  <2>2. cli'.cmd = cli.cmd /\ cli'.pc = "drained" /\ cli'.seen = seen /\ cli.cmd # "switch"
    BY <1>5, <2>1 DEF ObserveDrained, ControlClis, Operations
  <2>3. UNCHANGED <<super, seen, fence, snap>> /\ snap.state = "maintenance"
    BY <1>5 DEF ObserveDrained, Ready
  <2>4. fence.operator # None
    BY <2>1 DEF LookedInv, Controls
  <2>5. SeenInv'
    BY <1>2, <2>3, SeenKept DEF SeenInv
  <2> QED BY <2>2, <2>3, <2>4, <2>5 DEF LookedInv, Controls, Switches, SeenInv, Idle
<1>6. CASE WriteOperatorFence
  <2>1. Controls(ControlPcs) /\ ctl \in Transactions /\ cli.pc = "fence"
    BY <1>6, ControlPlaced DEF WriteOperatorFence, ControlPcs
  <2>2. ctl.gen # None
    BY <2>1, RuntimeAssumption, ControlAssumption DEF Transactions
  <2>3. /\ fence'.operator = ctl.gen /\ (seen' => seen)
        /\ UNCHANGED <<super, snap>>
    BY <1>0, <1>6, OperatorFence DEF WriteOperatorFence
  <2>4. /\ cli'.cmd # "switch" /\ cli'.seen = cli.seen /\ cli'.pc \in {"step", "wait"}
    BY <1>1, <1>6, <2>1 DEF WriteOperatorFence
  <2>5. ~cli.seen
    BY <2>1 DEF LookedInv, Controls
  <2>6. SeenInv'
    BY <2>2, <2>3, SeenKept DEF Fenced
  <2> QED BY <2>2, <2>3, <2>4, <2>5, <2>6 DEF LookedInv, Controls, Switches
<1>7. CASE DrainTimesOut \/ FinishControl
  <2>1. Controls(ControlPcs)
    BY <1>7, ControlPlaced DEF DrainTimesOut, FinishControl, ControlPcs
  <2>2. cli' = None \/ (cli'.cmd # "switch" /\ cli'.pc \in {"timed_out", "cleared"})
    BY <1>1, <1>7, <2>1 DEF DrainTimesOut, FinishControl
  <2>3. /\ \/ UNCHANGED <<fence, seen>>
           \/ /\ fence'.operator = None /\ fence'.assignment = fence.assignment
              /\ seen' = (seen /\ Fenced /\ fence.assignment # None)
        /\ UNCHANGED <<super, snap>>
    BY <1>0, <1>7, FenceClears DEF DrainTimesOut, FinishControl
  <2>4. seen' => seen /\ Fenced'
    BY <1>2, <2>3 DEF Fenced, SeenInv
  <2>5. SeenInv'
    BY <2>3, <2>4, SeenKept
  <2> QED BY <2>2, <2>5 DEF LookedInv, Controls, Switches
<1>8. CASE RecordTimeout \/ RecordSucceeded \/ CheckHealth
  <2>1. UNCHANGED <<super, seen, fence, snap>>
    BY <1>8 DEF RecordTimeout, RecordSucceeded, CheckHealth
  <2>2. cli' = None \/ (cli'.cmd # "switch" /\ cli'.pc = "finish")
    <3>1. CASE CheckHealth
      <4>1. Controls(ControlPcs)
        BY <3>1, ControlPlaced DEF CheckHealth, ControlPcs
      <4> QED BY <1>1, <3>1, <4>1 DEF CheckHealth
    <3> QED BY <1>8, <3>1 DEF RecordTimeout, RecordSucceeded
  <2>3. SeenInv'
    BY <1>2, <2>1, SeenKept DEF SeenInv
  <2> QED BY <2>2, <2>3 DEF LookedInv, Controls, Switches
<1>9. CASE RecordDrained \/ StopRepository \/ RepositoryStopped \/ RecordStopped
           \/ RecordStarting \/ StopBroker \/ StartBroker \/ StartRepository
  <2>1. UNCHANGED <<super, seen, fence>>
    BY <1>9 DEF RecordDrained, StopRepository, RepositoryStopped, RecordStopped,
       RecordStarting, StopBroker, StartBroker, StartRepository
  <2>2. Controls(ControlPcs) /\ cli.pc \in {"drained", "step", "unloading", "stopped"}
    BY <1>9, ControlPlaced DEF RecordDrained, StopRepository, RepositoryStopped, RecordStopped,
       RecordStarting, StopBroker, StartBroker, StartRepository, ControlPcs
  <2>3. \/ cli' = cli
        \/ \E p \in {"step", "unloading", "stopped", "finish"} : CliGoto(p)
    BY <1>9 DEF RecordDrained, StopRepository, RepositoryStopped, RecordStopped,
       RecordStarting, StopBroker, StartBroker, StartRepository
  <2>4. \/ cli' = cli
        \/ /\ cli'.cmd = cli.cmd /\ cli'.cmd # "switch" /\ cli'.seen = cli.seen
           /\ cli'.pc \in {"step", "unloading", "stopped", "finish"}
    BY <1>1, <2>2, <2>3
  <2>5. snap'.state = snap.state \/ snap'.state # "maintenance"
    <3>1. CASE RepositoryStopped
      BY <1>0, <3>1 DEF RepositoryStopped, Snapshots
    <3>2. CASE RecordStopped
      BY <1>0, <3>2 DEF RecordStopped, Snapshots
    <3>3. CASE RecordStarting
      BY <1>0, <3>3 DEF RecordStarting, Snapshots
    <3> QED BY <1>9, <3>1, <3>2, <3>3
         DEF RecordDrained, StopRepository, StopBroker, StartBroker, StartRepository
  <2>6. SeenInv'
    BY <1>2, <2>1, <2>5, SeenKept DEF SeenInv
  <2> QED BY <2>1, <2>2, <2>4, <2>6 DEF LookedInv, Controls, Switches, Idle
<1>10. ASSUME NEW o \in Operations, NEW force \in BOOLEAN, BeginControl(o, force)
       PROVE  SeenInv' /\ LookedInv'
  <2>1. UNCHANGED <<super, seen, fence, snap>>
    BY <1>10 DEF BeginControl
  <2>2. ~cli'.seen /\ cli'.cmd # "switch" /\ cli'.pc \in {"fence", "check"}
    BY <1>10 DEF BeginControl, Operations
  <2>3. SeenInv'
    BY <1>2, <2>1, SeenKept DEF SeenInv
  <2> QED BY <2>2, <2>3 DEF LookedInv, Controls, Switches
<1> QED
  BY <1>3, <1>4, <1>5, <1>6, <1>7, <1>8, <1>9, <1>10 DEF ControlStep

\* The steps of an assignment.
LEMMA AssignmentDrains ==
  ASSUME TypeInv, SeenInv, LookedInv, AssignmentStep
  PROVE  SeenInv' /\ LookedInv'
<1> USE DEF control, runtime, delivery, OutOfFence
<1>0. /\ fence \in Fences /\ cli \in ControlClis \cup SwitchClis \cup {None}
      /\ snap \in Snapshots
  BY DEF TypeInv, RuntimeTypeOK
<1>1. ASSUME NEW p, CliGoto(p), Switches(SwitchPcs)
      PROVE  cli'.cmd = "switch" /\ cli'.pc = p /\ cli'.seen = cli.seen
  BY <1>0, <1>1, CliMoves DEF Switches
<1>2. ASSUME UNCHANGED <<super, seen, fence>>,
             snap'.state = snap.state \/ snap'.state # "maintenance",
             \/ cli' = None
             \/ cli'.cmd = "switch" /\ cli'.pc \notin {"fenced", "await", "halt"}
      PROVE  SeenInv' /\ LookedInv'
  <2>1. SeenInv'
    BY <1>2, SeenKept DEF SeenInv, Fenced
  <2> QED BY <1>2, <2>1 DEF LookedInv, Controls, Switches, Operations
<1>3. CASE \/ \E desired \in Slots, g \in 1..(assignment.gen + 1) : BeginSwitch("apply", desired, g)
           \/ \E g \in 1..(assignment.gen + 1) : BeginRollback(g)
           \/ BeginRetry \/ BeginRetryRollback
  <2>1. UNCHANGED <<super, seen, fence, snap>>
    BY <1>3 DEF BeginSwitch, BeginRollback, BeginRetry, BeginRetryRollback
  <2>2. \E p \in {"closing", "rolling", "fence", "retry", "rollback stop"} : \E t : Enter(p, t)
    BY <1>3 DEF BeginSwitch, BeginRollback, BeginRetry, BeginRetryRollback
  <2>3. cli'.cmd = "switch" /\ cli'.pc \notin {"fenced", "await", "halt"}
    <3>1. PICK p \in {"closing", "rolling", "fence", "retry", "rollback stop"} :
            \E t : Enter(p, t)
      BY <2>2
    <3>2. PICK t : Enter(p, t)
      BY <3>1
    <3>3. cli' = [cmd |-> "switch", pc |-> p, target |-> t, loaded |-> agent.loaded # None,
                  seen |-> FALSE]
      BY <3>2 DEF Enter
    <3> QED BY <3>3
  <2> QED BY <1>2, <2>1, <2>3
<1>4. CASE RetryStop \/ Defer \/ Halt \/ Halted \/ RecordApplying \/ WritePlist
           \/ StartAssigned \/ RecordValidating \/ Commit \/ RollbackStop \/ RollbackPlist
           \/ RollbackStart \/ RollbackHealth
  <2>1. UNCHANGED <<super, seen, fence, snap>>
    BY <1>4 DEF RetryStop, Defer, Halt, Halted, RecordApplying, WritePlist, StartAssigned,
       RecordValidating, Commit, RollbackStop, RollbackPlist, RollbackStart, RollbackHealth
  <2>2. Switches(SwitchPcs)
    BY <1>4, SwitchPlaced DEF RetryStop, Defer, Halt, Halted, RecordApplying, WritePlist,
       StartAssigned, RecordValidating, Commit, RollbackStop, RollbackPlist, RollbackStart,
       RollbackHealth, SwitchPcs
  <2>3. \E p \in SwitchPcs \ {"fenced", "await", "halt"} : CliGoto(p)
    BY <1>4 DEF RetryStop, Defer, Halt, Halted, RecordApplying, WritePlist, StartAssigned,
       RecordValidating, Commit, RollbackStop, RollbackPlist, RollbackStart, RollbackHealth,
       SwitchPcs
  <2> QED BY <1>1, <1>2, <2>1, <2>2, <2>3
<1>5. CASE RetryRefused \/ ClosingFails \/ RecordClosed \/ RetryRollbackStuck \/ RollbackFails
           \/ RecordRolledBack
  BY <1>2, <1>5 DEF RetryRefused, ClosingFails, RecordClosed, RetryRollbackStuck, RollbackFails,
     RecordRolledBack
<1>6. CASE RetryPlan \/ RecordRollingBack
  <2>1. cli \in SwitchClis
    BY <1>6, SwitchPlaced DEF RetryPlan, RecordRollingBack, SwitchPcs
  <2>2. /\ cli'.cmd = "switch"
        /\ cli'.pc \in {"fence", "rollback stop", "rollback failed"}
    BY <1>6, <2>1 DEF RetryPlan, RecordRollingBack, SwitchClis
  <2>3. snap'.state = snap.state \/ snap'.state # "maintenance"
    <3>1. RecoverUnstarted(snap) \in Snapshots
      BY <1>0, Recovered
    <3>2. [RecoverUnstarted(snap) EXCEPT !.exec = None, !.state = "stopped", !.pid = 0].state
            = "stopped"
      BY <3>1 DEF Snapshots
    <3> QED BY <1>6, <3>2 DEF RetryPlan, RecordRollingBack
  <2>4. UNCHANGED <<super, seen, fence>>
    BY <1>6 DEF RetryPlan, RecordRollingBack
  <2> QED BY <1>2, <2>2, <2>3, <2>4
<1>7. CASE WriteAssignmentFence
  <2>1. Switches(SwitchPcs) /\ asg \in AssignmentTransactions
    BY <1>7, SwitchPlaced DEF WriteAssignmentFence, SwitchPcs
  <2>2. cli'.cmd = "switch" /\ cli'.pc = "fenced"
    BY <1>1, <1>7, <2>1 DEF WriteAssignmentFence
  <2>3. asg.gen # None
    <3>1. asg.gen \in 2..(MaxCommands + 2)
      BY <2>1, Generations
    <3> QED BY <3>1, RuntimeAssumption, ControlAssumption
  <2>4. fence'.assignment = asg.gen /\ (seen' => seen) /\ UNCHANGED <<super, snap>>
    BY <1>0, <1>7, AssignmentFence DEF WriteAssignmentFence
  <2>5. SeenInv'
    BY <2>3, <2>4, SeenKept DEF Fenced
  <2> QED BY <2>2, <2>3, <2>4, <2>5 DEF LookedInv, Controls, Switches, Operations
<1>8. CASE RecordDraining
  <2>1. Switches(SwitchPcs) /\ cli.pc = "fenced"
    BY <1>8, SwitchPlaced DEF RecordDraining, SwitchPcs
  <2>2. cli'.cmd = "switch" /\ cli'.pc \in {"await", "switch"}
    BY <1>1, <1>8, <2>1 DEF RecordDraining
  <2>3. UNCHANGED <<super, seen, fence, snap>>
    BY <1>8 DEF RecordDraining
  <2>4. fence.assignment # None
    BY <2>1 DEF LookedInv, Switches
  <2>5. SeenInv'
    BY <2>3, SeenKept DEF SeenInv, Fenced
  <2> QED BY <2>2, <2>3, <2>4, <2>5 DEF LookedInv, Controls, Switches, Operations
<1>9. CASE AwaitDrained
  <2>1. Switches(SwitchPcs) /\ cli.pc = "await" /\ cli \in SwitchClis
    BY <1>9, SwitchPlaced DEF AwaitDrained, SwitchPcs
  <2>2. cli'.cmd = "switch" /\ cli'.pc = "halt" /\ cli'.seen = seen
    BY <1>9, <2>1 DEF AwaitDrained, SwitchClis
  <2>3. UNCHANGED <<super, seen, fence, snap>> /\ snap.state = "maintenance"
    BY <1>9 DEF AwaitDrained, Ready
  <2>4. fence.assignment # None
    BY <2>1 DEF LookedInv, Switches
  <2>5. SeenInv'
    BY <2>3, SeenKept DEF SeenInv, Fenced
  <2> QED BY <2>2, <2>3, <2>4, <2>5
       DEF LookedInv, Controls, Switches, Operations, SeenInv, Idle
<1>10. CASE ReleaseDeferred \/ ReleaseCommitted \/ ReleaseRolledBack
  <2>1. Switches(SwitchPcs)
    BY <1>10, SwitchPlaced DEF ReleaseDeferred, ReleaseCommitted, ReleaseRolledBack, SwitchPcs
  <2>2. \/ cli' = None
        \/ cli'.cmd = "switch" /\ cli'.pc \in {"closed", "rollback closed"}
    BY <1>1, <1>10, <2>1 DEF ReleaseDeferred, ReleaseCommitted, ReleaseRolledBack
  <2>3. /\ fence'.operator = fence.operator /\ seen' = (seen /\ Fenced /\ fence.operator # None)
        /\ UNCHANGED <<super, snap>>
    BY <1>0, <1>10, FenceClears DEF ReleaseDeferred, ReleaseCommitted, ReleaseRolledBack
  <2>4. SeenInv'
    BY <2>3, SeenKept DEF Fenced
  <2> QED BY <2>2, <2>4 DEF LookedInv, Controls, Switches, Operations
<1> QED
  BY <1>3, <1>4, <1>5, <1>6, <1>7, <1>8, <1>9, <1>10 DEF AssignmentStep

-----------------------------------------------------------------------------
(* The program that launchd runs. *)

\* The plist names the assigned slot, or the one an open transaction installs; what is
\* loaded besides is being unloaded, or a start loaded it beside a switch.
\* The rest is what a switch has done by each place.
InstallInv ==
  /\ agent.unload => agent.loaded # None
  /\ agent.plist # assignment.ref => Open /\ agent.plist = asg.des
  /\ agent.plist = assignment.ref /\ agent.loaded \notin {assignment.ref, None} =>
       agent.unload \/ agent.raced
  /\ Switches({"retry", "retry stopped", "fence", "fenced", "await", "deferred", "halt",
               "halting", "switch", "plist", "start", "started", "validate"})
       => cli.target = asg.des
  /\ Switches({"committed", "closing", "closed", "rollback stop", "rollback stopping",
               "rollback start", "rollback health", "rollback done", "rollback closed"})
       => cli.target = assignment.ref
  /\ Switches({"fence", "fenced"}) =>
       IF cli.loaded THEN agent.plist = assignment.ref ELSE agent.loaded = None \/ agent.raced
  /\ Switches({"await", "deferred", "halt", "halting"}) => agent.plist = assignment.ref
  /\ Switches({"switch", "plist", "start"}) => agent.loaded = None \/ agent.raced
  /\ Switches({"start", "started", "validate", "committed", "closed", "rollback start",
               "rollback health", "rollback done", "rollback closed"})
       => agent.plist = cli.target
  /\ Switches({"started", "validate"}) => agent.loaded \in {None, agent.plist} \/ agent.raced
  /\ Switches({"rollback stopping"}) => (agent.loaded # None => agent.unload \/ agent.raced)

\* The steps of the supervisor.
LEMMA SupervisorInstalls ==
  ASSUME TypeInv, InstallInv, SupervisorStep \/ Crash, UNCHANGED <<cli, control, delivery>>
  PROVE  InstallInv'
<1> USE DEF control, delivery
<1>1. CASE Terminate
  <2>1. agent'.plist = agent.plist /\ agent'.loaded = None /\ agent'.unload = FALSE
    BY <1>1, AgentMoves DEF Terminate, TypeInv, RuntimeTypeOK, Agents
  <2> QED BY <2>1 DEF InstallInv, Switches, Open, Deferred
<1>2. CASE UNCHANGED agent
  BY <1>2 DEF InstallInv, Switches, Open, Deferred
<1> QED
  BY <1>1, <1>2 DEF SupervisorStep, Boot, Reconcile, RecordStarted, ObserveFence, BeginCycle,
     EndCycle, TakeGate, ClaimExecution, Launch, RecordWorker, WorkerExits, StoreResult,
     FinishEffect, Crash

\* A step while no switch runs.
LEMMA NoSwitchInstalls ==
  ASSUME InstallInv, UNCHANGED delivery,
         cli' # None => cli'.cmd # "switch",
         \/ agent' = agent
         \/ /\ agent'.plist = agent.plist /\ agent'.unload = agent.unload
            /\ agent'.loaded = IF agent.loaded = None THEN agent.plist ELSE agent.loaded
            /\ agent'.loaded # None
            /\ agent.loaded # None => agent'.raced = agent.raced
         \/ /\ agent'.plist = agent.plist /\ agent'.loaded = agent.loaded
            /\ agent'.unload = (agent.loaded # None) /\ agent'.raced = agent.raced
  PROVE  InstallInv'
<1> USE DEF delivery
<1>1. /\ agent'.plist = agent.plist
      /\ agent'.unload => agent'.loaded # None
      /\ agent'.plist = assignment'.ref /\ agent'.loaded \notin {assignment'.ref, None}
           => agent'.unload \/ agent'.raced
  BY DEF InstallInv
<1> QED BY <1>1 DEF InstallInv, Switches, Open, Deferred

\* The steps of stop, restart and start.
LEMMA ControlInstalls ==
  ASSUME TypeInv, InstallInv, ControlStep, UNCHANGED delivery
  PROVE  InstallInv'
<1> USE DEF control, runtime
<1>0. /\ agent \in Agents /\ cli \in ControlClis \cup SwitchClis \cup {None}
      /\ agent.plist # None
  BY RuntimeAssumption DEF TypeInv, RuntimeTypeOK, Agents
<1>1. Load => /\ agent'.plist = agent.plist /\ agent'.unload = agent.unload
              /\ agent'.loaded = IF agent.loaded = None THEN agent.plist ELSE agent.loaded
              /\ agent'.loaded # None /\ agent'.raced = agent.raced
  <2>1. agent.plist # None
    BY <1>0, RuntimeAssumption DEF Agents
  <2> QED BY <1>0, <2>1, AgentMoves
<1>2. RequestStop => /\ agent'.plist = agent.plist /\ agent'.loaded = agent.loaded
                     /\ agent'.unload = (agent.loaded # None) /\ agent'.raced = agent.raced
  BY <1>0, AgentMoves
<1>3. ASSUME NEW p, CliGoto(p), Controls(ControlPcs)
      PROVE  cli'.cmd # "switch"
  BY <1>0, <1>3, CliMoves DEF Controls, Operations
<1>5. CASE RecoverLaunch \/ StartCheck \/ StartRecord
  <2>1. UNCHANGED <<agent, cli>>
    BY <1>5 DEF RecoverLaunch, StartCheck, StartRecord
  <2> QED BY <2>1 DEF InstallInv, Switches, Open, Deferred, delivery
<1>6. CASE StartLoad
  <2>1. cli' = cli
    BY <1>6 DEF StartLoad
  <2>2. /\ agent'.plist = agent.plist /\ agent'.unload = agent.unload
        /\ agent.loaded # None => agent' = agent
        /\ agent.loaded = None =>
             agent'.loaded = agent.plist /\ agent'.raced = (cli # None /\ cli.cmd = "switch")
    BY <1>0, <1>6, StartLoads
  <2>3. CASE agent.loaded # None
    BY <2>1, <2>2, <2>3 DEF InstallInv, Switches, Open, Deferred, delivery
  <2>4. CASE agent.loaded = None
    BY <1>0, <2>1, <2>2, <2>4 DEF InstallInv, Switches, Open, Deferred, delivery
  <2> QED BY <2>3, <2>4
<1>7. CASE \/ CheckDrain \/ WriteOperatorFence \/ ObserveDrained \/ DrainTimesOut
           \/ RecordTimeout \/ RecordDrained \/ StopRepository \/ RepositoryStopped
           \/ RecordStopped \/ RecordStarting \/ StopBroker \/ StartBroker
           \/ StartRepository \/ CheckHealth \/ FinishControl \/ RecordSucceeded
  <2>1. Controls(ControlPcs) /\ cli \in ControlClis /\ cli.cmd # "switch"
    BY <1>7, ControlPlaced
       DEF CheckDrain, WriteOperatorFence, ObserveDrained, DrainTimesOut, RecordTimeout,
           RecordDrained, StopRepository, RepositoryStopped, RecordStopped, RecordStarting,
           StopBroker, StartBroker, StartRepository, CheckHealth, FinishControl,
           RecordSucceeded, ControlPcs
  <2>3. agent' = agent \/ Load \/ RequestStop
    BY <1>7
       DEF CheckDrain, WriteOperatorFence, ObserveDrained, DrainTimesOut, RecordTimeout,
           RecordDrained, StopRepository, RepositoryStopped, RecordStopped, RecordStarting,
           StopBroker, StartBroker, StartRepository, CheckHealth, FinishControl,
           RecordSucceeded
  <2>4. cli' = None \/ cli' = cli \/ cli'.cmd # "switch"
    <3>1. ObserveDrained => cli'.cmd # "switch"
      BY <2>1 DEF ObserveDrained, ControlClis
    <3>2. ObserveDrained \/ cli' = None \/ cli' = cli \/ \E p : CliGoto(p)
      BY <1>7
         DEF CheckDrain, WriteOperatorFence, DrainTimesOut, RecordTimeout,
             RecordDrained, StopRepository, RepositoryStopped, RecordStopped, RecordStarting,
             StopBroker, StartBroker, StartRepository, CheckHealth, FinishControl,
             RecordSucceeded
    <3> QED BY <1>3, <2>1, <3>1, <3>2
  <2> QED BY <1>1, <1>2, <2>1, <2>3, <2>4, NoSwitchInstalls
<1>8. ASSUME NEW o \in Operations, NEW force \in BOOLEAN, BeginControl(o, force)
      PROVE  InstallInv'
  <2>1. agent' = agent /\ cli'.cmd # "switch"
    BY <1>8 DEF BeginControl, Operations
  <2> QED BY <2>1, NoSwitchInstalls
<1> QED
  BY <1>5, <1>6, <1>7, <1>8 DEF ControlStep

\* The steps of an assignment.
LEMMA AssignmentInstalls ==
  ASSUME TypeInv, FenceInv, InstallInv, AssignmentStep
  PROVE  InstallInv'
<1> USE DEF control, runtime, delivery, OutOfFence
<1>0. /\ cli \in ControlClis \cup SwitchClis \cup {None}
      /\ agent \in Agents /\ assignment.ref \in Slots /\ None \notin Slots
      /\ agent.plist \in Slots
  BY RuntimeAssumption DEF TypeInv, RuntimeTypeOK, Agents, AssignmentTypeOK, Assignments
<1>1. ASSUME NEW p, CliGoto(p), Switches(SwitchPcs)
      PROVE  /\ cli'.cmd = "switch" /\ cli'.pc = p
             /\ cli'.target = cli.target /\ cli'.loaded = cli.loaded
  BY <1>0, <1>1, CliMoves DEF Switches
<1>2. ASSUME NEW p \in AssignmentPhases,
             NEW r \in AssignmentPhases \cup {"", "deferred", "retrying"},
             Save(p, r), asg \in AssignmentTransactions
      PROVE  /\ asg' # None /\ asg'.phase = p /\ asg'.result = r /\ asg'.des = asg.des
             /\ asg'.gen = asg.gen /\ asg'.cur = asg.cur
  BY <1>2, SaveMoves, AssignmentsAssumption
<1>3. Switches(SwitchPcs) /\ cli.pc # "deferred" => Open
  BY DEF FenceInv, Switches
<1>4. ASSUME NEW o \in {"apply", "rollback"}, NEW desired \in Slots, NEW g,
             BeginSwitch(o, desired, g)
      PROVE  InstallInv'
  <2>1. /\ Open' /\ agent' = agent /\ assignment' = assignment /\ (Open => asg' = asg)
    BY <1>4, BeginsSwitch
  <2>2. \A p, t : Enter(p, t) => /\ cli'.cmd = "switch" /\ cli'.pc = p /\ cli'.target = t
                                /\ cli'.loaded = (agent.loaded # None)
    BY DEF Enter
  <2>3. \/ /\ cli'.cmd = "switch" /\ cli'.pc = "closing" /\ cli'.target = assignment.ref
        \/ /\ cli'.cmd = "switch" /\ cli'.pc = "rolling"
        \/ /\ cli'.cmd = "switch" /\ cli'.pc = "fence" /\ cli'.target = asg'.des
           /\ cli'.loaded = (agent.loaded # None) /\ Recognized
    BY <1>4, <2>2, BeginsSwitch
  <2>4. agent.plist # assignment.ref => agent'.plist = asg'.des
    BY <2>1 DEF InstallInv
  <2> QED BY <1>0, <2>1, <2>3, <2>4 DEF InstallInv, Switches, Recognized
<1>5. CASE \E desired \in Slots, g \in 1..(assignment.gen + 1) : BeginSwitch("apply", desired, g)
  BY <1>4, <1>5
<1>6. CASE \E g \in 1..(assignment.gen + 1) : BeginRollback(g)
  <2>1. asg # None => asg.des \in Slots
    BY DEF TypeInv, AssignmentTypeOK, AssignmentTransactions
  <2>2. assignment.prev # None => assignment.prev \in Slots
    BY DEF TypeInv, AssignmentTypeOK, Assignments
  <2> QED BY <1>4, <1>6, <2>1, <2>2 DEF BeginRollback
<1>7. CASE BeginRetry \/ BeginRetryRollback
  <2>1. UNCHANGED <<agent, assignment, asg>>
    BY <1>7 DEF BeginRetry, BeginRetryRollback
  <2>2. \/ cli'.cmd = "switch" /\ cli'.pc = "retry" /\ cli'.target = asg.des
        \/ cli'.cmd = "switch" /\ cli'.pc = "rollback stop" /\ cli'.target = assignment.ref
    <3>1. \A p, t : Enter(p, t) => cli'.cmd = "switch" /\ cli'.pc = p /\ cli'.target = t
      BY DEF Enter
    <3> QED BY <1>7, <3>1 DEF BeginRetry, BeginRetryRollback
  <2> QED BY <1>0, <2>1, <2>2 DEF InstallInv, Switches, Open, Deferred
<1>8. CASE RetryStop \/ Halt \/ RollbackStop
  <2>1. Switches(SwitchPcs) /\ cli.pc \in {"retry", "halt", "rollback stop"}
    BY <1>8, SwitchPlaced DEF RetryStop, Halt, RollbackStop, SwitchPcs
  <2>2. /\ agent'.plist = agent.plist /\ agent'.loaded = agent.loaded
        /\ agent'.unload = (agent.loaded # None)
    BY <1>0, <1>8, AgentMoves DEF RetryStop, Halt, RollbackStop
  <2>3. UNCHANGED <<assignment, asg>>
    BY <1>8 DEF RetryStop, Halt, RollbackStop
  <2>4. /\ cli'.cmd = "switch" /\ cli'.target = cli.target
        /\ \/ cli.pc = "retry" /\ cli'.pc = "retry stopped"
           \/ cli.pc = "halt" /\ cli'.pc = "halting"
           \/ cli.pc = "rollback stop" /\ cli'.pc = "rollback stopping"
    BY <1>1, <1>8, <2>1 DEF RetryStop, Halt, RollbackStop, InSwitch, CliAt
  <2> QED BY <1>0, <2>1, <2>2, <2>3, <2>4 DEF InstallInv, Switches, Open, Deferred
<1>9. CASE RetryRefused \/ ClosingFails \/ RetryRollbackStuck \/ ReleaseDeferred
  BY <1>0, <1>9 DEF RetryRefused, ClosingFails, RetryRollbackStuck, ReleaseDeferred,
     InstallInv, Switches, Open, Deferred
<1>10. CASE RetryPlan
  <2>1. Switches(SwitchPcs) /\ cli.pc = "retry stopped" /\ cli \in SwitchClis
        /\ asg \in AssignmentTransactions
    BY <1>10, SwitchPlaced DEF RetryPlan, SwitchPcs
  <2>2. /\ cli'.cmd = "switch" /\ cli'.pc = "fence" /\ cli'.loaded = FALSE
        /\ cli'.target = cli.target
    BY <1>10, <2>1 DEF RetryPlan, SwitchClis
  <2>3. UNCHANGED <<agent, assignment>> /\ agent.loaded = None
    BY <1>10 DEF RetryPlan, Unloaded
  <2>4. asg'.des = asg.des /\ Open'
    <3>1. "planned" \in AssignmentPhases
          /\ "retrying" \in AssignmentPhases \cup {"", "deferred", "retrying"}
          /\ Save("planned", "retrying")
      BY <1>10 DEF AssignmentPhases, RetryPlan
    <3>2. asg' # None /\ asg'.phase = "planned" /\ asg'.des = asg.des
      BY <1>2, <2>1, <3>1
    <3> QED BY <3>2 DEF Open, Deferred
  <2>5. cli.target = asg.des
    BY <2>1 DEF InstallInv, Switches
  <2> QED BY <1>0, <2>1, <2>2, <2>3, <2>4, <2>5 DEF InstallInv, Switches
<1>11. CASE WriteAssignmentFence \/ AwaitDrained
  <2>1. Switches(SwitchPcs) /\ cli \in SwitchClis
        /\ \/ cli.pc = "fence" /\ WriteAssignmentFence
           \/ cli.pc = "await" /\ AwaitDrained
    BY <1>11, SwitchPlaced DEF WriteAssignmentFence, AwaitDrained, SwitchPcs
  <2>2. UNCHANGED <<agent, assignment, asg>>
    BY <1>11 DEF WriteAssignmentFence, AwaitDrained
  <2>3. WriteAssignmentFence => cli'.cmd = "switch" /\ cli'.pc = "fenced"
                                /\ cli'.target = cli.target /\ cli'.loaded = cli.loaded
    BY <1>1, <2>1 DEF WriteAssignmentFence
  <2>4. AwaitDrained => cli'.cmd = "switch" /\ cli'.pc = "halt" /\ cli'.target = cli.target
    BY <2>1 DEF AwaitDrained, SwitchClis
  <2> QED BY <1>0, <2>1, <2>2, <2>3, <2>4 DEF InstallInv, Switches, Open, Deferred
<1>12. CASE RecordDraining \/ RecordValidating \/ RecordApplying
  <2>1. Switches(SwitchPcs) /\ asg \in AssignmentTransactions
        /\ cli.pc \in {"fenced", "started", "switch"} /\ cli.loaded \in BOOLEAN
    BY <1>12, SwitchPlaced DEF RecordDraining, RecordValidating, RecordApplying, SwitchPcs
  <2>2. UNCHANGED <<agent, assignment>>
    BY <1>12 DEF RecordDraining, RecordValidating, RecordApplying
  <2>3. asg'.des = asg.des /\ Open'
    <3>1. \/ asg' = asg
          \/ \E p \in {"draining", "validating", "applying"} : Save(p, p)
      BY <1>12 DEF RecordDraining, RecordValidating, RecordApplying
    <3>2. {"draining", "validating", "applying"} \subseteq AssignmentPhases
      BY DEF AssignmentPhases
    <3>3. ASSUME NEW p \in {"draining", "validating", "applying"}, Save(p, p)
          PROVE  asg'.des = asg.des /\ Open'
      <4>1. asg' # None /\ asg'.phase = p /\ asg'.result = p /\ asg'.des = asg.des
        BY <1>2, <2>1, <3>2, <3>3
      <4> QED BY <4>1 DEF Open, Deferred
    <3> QED BY <1>3, <2>1, <3>1, <3>3 DEF Open, Deferred
  <2>4. /\ cli'.cmd = "switch" /\ cli'.target = cli.target
        /\ \/ cli.pc = "fenced" /\ cli.loaded /\ cli'.pc = "await"
           \/ cli.pc = "fenced" /\ ~cli.loaded /\ cli'.pc = "switch"
           \/ cli.pc = "switch" /\ cli'.pc \in {"plist", "rolling"}
           \/ cli.pc = "started" /\ cli'.pc = "validate"
    BY <1>1, <1>12, <2>1 DEF RecordDraining, RecordValidating, RecordApplying, InSwitch, CliAt
  <2> QED BY <1>0, <2>1, <2>2, <2>3, <2>4 DEF InstallInv, Switches
<1>13. CASE Defer
  <2>1. Switches(SwitchPcs) /\ asg \in AssignmentTransactions /\ cli.pc = "await"
    BY <1>13, SwitchPlaced DEF Defer, SwitchPcs
  <2>2. agent.plist = assignment.ref /\ cli.target = asg.des
    BY <2>1 DEF InstallInv, Switches
  <2>3. /\ cli'.cmd = "switch" /\ cli'.pc = "deferred" /\ cli'.target = cli.target
    BY <1>1, <1>13, <2>1 DEF Defer
  <2>4. asg'.des = asg.des /\ UNCHANGED <<agent, assignment>>
    BY <1>2, <1>13, <2>1 DEF Defer, AssignmentPhases
  <2> QED BY <1>0, <2>2, <2>3, <2>4 DEF InstallInv, Switches
<1>14. CASE Halted
  <2>1. Switches(SwitchPcs) /\ cli.pc = "halting"
    BY <1>14, SwitchPlaced DEF Halted, SwitchPcs
  <2>2. /\ cli'.cmd = "switch" /\ cli'.target = cli.target
        /\ \/ cli'.pc = "switch" /\ agent.loaded = None
           \/ cli'.pc = "rolling"
    BY <1>1, <1>14, <2>1 DEF Halted, Unloaded
  <2>3. UNCHANGED <<agent, assignment, asg>>
    BY <1>14 DEF Halted
  <2> QED BY <1>0, <2>1, <2>2, <2>3 DEF InstallInv, Switches, Open, Deferred
<1>15. CASE WritePlist
  <2>1. Switches(SwitchPcs) /\ cli.pc = "plist" /\ cli.target \in Slots
    BY <1>15, SwitchPlaced DEF WritePlist, SwitchPcs
  <2>2. /\ agent'.plist = cli.target /\ agent'.loaded = agent.loaded
        /\ agent'.unload = agent.unload /\ agent'.raced = agent.raced
    BY <1>0, <1>15, <2>1, AgentMoves DEF WritePlist
  <2>3. cli'.cmd = "switch" /\ cli'.target = cli.target /\ cli'.pc = "start"
    BY <1>1, <1>15, <2>1 DEF WritePlist
  <2>4. UNCHANGED <<assignment, asg>>
    BY <1>15 DEF WritePlist
  <2>5. Open' /\ (agent.loaded = None \/ agent.raced) /\ cli.target = asg.des
    BY <1>3, <2>1, <2>4 DEF InstallInv, Switches, Open, Deferred
  <2> QED BY <1>0, <2>1, <2>2, <2>3, <2>4, <2>5 DEF InstallInv, Switches
<1>16. CASE StartAssigned \/ RollbackStart
  <2>1. Switches(SwitchPcs) /\ cli.pc \in {"start", "rollback start"}
    BY <1>16, SwitchPlaced DEF StartAssigned, RollbackStart, SwitchPcs
  <2>2. /\ agent'.plist = agent.plist /\ agent'.unload = agent.unload
        /\ agent'.raced = agent.raced
        /\ \/ agent'.loaded = agent.loaded
           \/ agent.loaded = None /\ agent'.loaded = agent.plist
    BY <1>0, <1>16, AgentMoves DEF StartAssigned, RollbackStart
  <2>3. /\ cli'.cmd = "switch" /\ cli'.target = cli.target
        /\ \/ cli.pc = "start" /\ cli'.pc = "started"
           \/ cli.pc = "rollback start" /\ cli'.pc = "rollback health"
    BY <1>1, <1>16, <2>1 DEF StartAssigned, RollbackStart, InSwitch, CliAt
  <2>4. UNCHANGED <<assignment, asg>>
    BY <1>16 DEF StartAssigned, RollbackStart
  <2> QED BY <1>0, <2>1, <2>2, <2>3, <2>4 DEF InstallInv, Switches, Open, Deferred
<1>17. CASE Commit
  <2>1. Switches(SwitchPcs) /\ cli.pc = "validate"
    BY <1>17, SwitchPlaced DEF Commit, SwitchPcs
  <2>2. UNCHANGED <<agent, asg>>
    BY <1>17 DEF Commit
  <2>3. /\ cli'.cmd = "switch" /\ cli'.target = cli.target
        /\ \/ cli'.pc = "committed" /\ assignment'.ref = cli.target
           \/ cli'.pc = "rolling" /\ assignment' = assignment
    BY <1>1, <1>17, <2>1 DEF Commit
  <2>4. agent.plist = cli.target /\ (agent.loaded \in {None, agent.plist} \/ agent.raced)
    BY <2>1 DEF InstallInv, Switches
  <2> QED BY <1>0, <2>1, <2>2, <2>3, <2>4 DEF InstallInv, Switches, Open, Deferred
<1>18. CASE ReleaseCommitted \/ ReleaseRolledBack \/ RollbackHealth
  <2>1. Switches(SwitchPcs)
        /\ cli.pc \in {"committed", "closing", "rollback done", "rollback health"}
    BY <1>18, SwitchPlaced DEF ReleaseCommitted, ReleaseRolledBack, RollbackHealth, SwitchPcs
  <2>2. UNCHANGED <<agent, assignment, asg>>
    BY <1>18 DEF ReleaseCommitted, ReleaseRolledBack, RollbackHealth
  <2>3. cli.pc = "closing" => agent.plist = cli.target
    BY <1>18, <2>1 DEF ReleaseCommitted, ReleaseRolledBack, RollbackHealth, InSwitch, CliAt, Sound
  <2>4. /\ cli'.cmd = "switch" /\ cli'.target = cli.target
        /\ cli'.pc \in {"closed", "rollback closed", "rollback done", "rollback failed"}
    BY <1>1, <1>18, <2>1 DEF ReleaseCommitted, ReleaseRolledBack, RollbackHealth
  <2> QED BY <1>0, <2>1, <2>2, <2>3, <2>4 DEF InstallInv, Switches, Open, Deferred
<1>19. CASE RecordClosed \/ RecordRolledBack
  <2>1. Switches(SwitchPcs) /\ cli.pc \in {"closed", "rollback closed"}
    BY <1>19, SwitchPlaced DEF RecordClosed, RecordRolledBack, SwitchPcs
  <2>2. agent.plist = assignment.ref
    BY <2>1 DEF InstallInv, Switches
  <2>3. UNCHANGED <<agent, assignment>> /\ cli' = None
    BY <1>19 DEF RecordClosed, RecordRolledBack
  <2> QED BY <1>0, <2>2, <2>3 DEF InstallInv, Switches
<1>20. CASE RecordRollingBack \/ RollbackFails
  <2>1. Switches(SwitchPcs) /\ cli.pc # "deferred" /\ cli \in SwitchClis
        /\ asg \in AssignmentTransactions
    BY <1>20, SwitchPlaced DEF RecordRollingBack, RollbackFails, SwitchPcs
  <2>2. UNCHANGED <<agent, assignment>>
    BY <1>20 DEF RecordRollingBack, RollbackFails
  <2>3. asg'.des = asg.des /\ Open'
    <3>1. \/ asg' = asg
          \/ \E p \in {"rolling_back", "rollback_failed"} : Save(p, p)
      BY <1>20 DEF RecordRollingBack, RollbackFails
    <3>2. {"rolling_back", "rollback_failed"} \subseteq AssignmentPhases
      BY DEF AssignmentPhases
    <3>3. ASSUME NEW p \in {"rolling_back", "rollback_failed"}, Save(p, p)
          PROVE  asg'.des = asg.des /\ Open'
      <4>1. asg' # None /\ asg'.phase = p /\ asg'.result = p /\ asg'.des = asg.des
        BY <1>2, <2>1, <3>2, <3>3
      <4> QED BY <4>1 DEF Open, Deferred
    <3> QED BY <1>3, <2>1, <3>1, <3>3 DEF Open, Deferred
  <2>4. \/ cli' = None
        \/ /\ cli'.cmd = "switch" /\ cli'.target = assignment.ref
           /\ cli'.pc \in {"rollback stop", "rollback failed"}
    BY <1>20, <2>1 DEF RecordRollingBack, RollbackFails, SwitchClis
  <2> QED BY <1>0, <2>1, <2>2, <2>3, <2>4 DEF InstallInv, Switches
<1>21. CASE RollbackPlist
  <2>1. Switches(SwitchPcs) /\ cli.pc = "rollback stopping" /\ cli.target \in Slots
    BY <1>21, SwitchPlaced DEF RollbackPlist, SwitchPcs
  <2>2. /\ agent'.plist = cli.target /\ agent'.loaded = agent.loaded
        /\ agent'.unload = agent.unload /\ agent'.raced = agent.raced
    BY <1>0, <1>21, <2>1, AgentMoves DEF RollbackPlist
  <2>3. cli'.cmd = "switch" /\ cli'.target = cli.target /\ cli'.pc = "rollback start"
    BY <1>1, <1>21, <2>1 DEF RollbackPlist
  <2>4. UNCHANGED <<assignment, asg>>
    BY <1>21 DEF RollbackPlist
  <2>5. cli.target = assignment.ref /\ (agent.loaded # None => agent.unload \/ agent.raced)
    BY <2>1 DEF InstallInv, Switches
  <2> QED BY <1>0, <2>1, <2>2, <2>3, <2>4, <2>5 DEF InstallInv, Switches
<1> QED
  BY <1>5, <1>6, <1>7, <1>8, <1>9, <1>10, <1>11, <1>12, <1>13, <1>14, <1>15, <1>16, <1>17,
     <1>18, <1>19, <1>20, <1>21 DEF AssignmentStep

\* An open transaction matches the assignment.
MatchInv == Open => Matching

\* The steps of an assignment: one begins with a match, and only the commit moves on.
LEMMA AssignmentMatches ==
  ASSUME TypeInv, FenceInv, InstallInv, MatchInv, AssignmentStep
  PROVE  MatchInv'
<1> USE DEF control, runtime, delivery, OutOfFence
<1>1. ASSUME UNCHANGED <<asg, assignment>>
      PROVE  MatchInv'
  BY <1>1 DEF MatchInv, Matching, Open, Deferred
<1>2. ASSUME NEW p \in AssignmentPhases,
             NEW r \in AssignmentPhases \cup {"", "deferred", "retrying"},
             Save(p, r), asg \in AssignmentTransactions, Open, UNCHANGED assignment
      PROVE  MatchInv'
  <2>1. asg'.gen = asg.gen /\ asg'.cur = asg.cur /\ asg'.des = asg.des
    BY <1>2, SaveMoves
  <2> QED BY <1>2, <2>1 DEF MatchInv, Matching
<1>3. Switches(SwitchPcs) /\ cli.pc # "deferred" => Open
  BY DEF FenceInv, Switches
<1>4. ASSUME NEW o \in {"apply", "rollback"}, NEW desired \in Slots, NEW g,
             BeginSwitch(o, desired, g)
      PROVE  MatchInv'
  <2>1. CASE UNCHANGED asg
    BY <1>1, <1>4, <2>1 DEF BeginSwitch
  <2>2. CASE ~UNCHANGED asg
    <3>1. /\ asg' = [op |-> o, phase |-> "planned", result |-> "",
                     gen |-> assignment.gen + 1, cur |-> assignment.ref,
                     des |-> desired, wasLoaded |-> agent.loaded # None]
          /\ assignment' = assignment
      BY <1>4, <2>2 DEF BeginSwitch
    <3> QED BY <3>1 DEF MatchInv, Matching
  <2> QED BY <2>1, <2>2
<1>5. CASE \E desired \in Slots, g \in 1..(assignment.gen + 1) : BeginSwitch("apply", desired, g)
  BY <1>4, <1>5
<1>6. CASE \E g \in 1..(assignment.gen + 1) : BeginRollback(g)
  <2>1. asg # None => asg.des \in Slots
    BY DEF TypeInv, AssignmentTypeOK, AssignmentTransactions
  <2>2. assignment.prev # None => assignment.prev \in Slots
    BY DEF TypeInv, AssignmentTypeOK, Assignments
  <2> QED BY <1>4, <1>6, <2>1, <2>2 DEF BeginRollback
<1>7. CASE \/ BeginRetry \/ BeginRetryRollback \/ RetryStop \/ RetryRefused
           \/ WriteAssignmentFence \/ AwaitDrained \/ ReleaseDeferred \/ Halt \/ Halted
           \/ WritePlist \/ StartAssigned \/ ReleaseCommitted \/ ClosingFails
           \/ RollbackStop \/ RollbackPlist \/ RetryRollbackStuck \/ RollbackStart
           \/ RollbackHealth \/ ReleaseRolledBack
  BY <1>1, <1>7
     DEF BeginRetry, BeginRetryRollback, RetryStop, RetryRefused,
         WriteAssignmentFence, AwaitDrained, ReleaseDeferred, Halt, Halted,
         WritePlist, StartAssigned, ReleaseCommitted, ClosingFails,
         RollbackStop, RollbackPlist, RetryRollbackStuck, RollbackStart,
         RollbackHealth, ReleaseRolledBack
<1>8. CASE \/ RetryPlan \/ RecordDraining \/ RecordApplying \/ RecordValidating \/ Defer
           \/ RecordRollingBack \/ RollbackFails \/ RecordClosed \/ RecordRolledBack
  <2>1. Open /\ asg \in AssignmentTransactions
    BY <1>3, <1>8, SwitchPlaced
       DEF RetryPlan, RecordDraining, RecordApplying, RecordValidating, Defer,
           RecordRollingBack, RollbackFails, RecordClosed, RecordRolledBack, SwitchPcs
  <2>2. \/ asg' = asg
        \/ \E p \in AssignmentPhases, r \in AssignmentPhases \cup {"", "deferred", "retrying"} :
             Save(p, r)
    BY <1>8
       DEF RetryPlan, RecordDraining, RecordApplying, RecordValidating, Defer,
           RecordRollingBack, RollbackFails, RecordClosed, RecordRolledBack, AssignmentPhases
  <2>3. assignment' = assignment
    BY <1>8
       DEF RetryPlan, RecordDraining, RecordApplying, RecordValidating, Defer,
           RecordRollingBack, RollbackFails, RecordClosed, RecordRolledBack
  <2> QED BY <1>1, <1>2, <2>1, <2>2, <2>3
<1>9. CASE Commit
  <2>1. CASE UNCHANGED assignment
    BY <1>1, <1>9, <2>1 DEF Commit
  <2>2. CASE ~UNCHANGED assignment
    <3>1. /\ assignment' = [ref |-> cli.target, prev |-> assignment.ref, gen |-> asg.gen]
          /\ asg' = asg
      BY <1>9, <2>2 DEF Commit
    <3>2. cli.target = asg.des
      BY <1>9, SwitchPlaced DEF Commit, SwitchPcs, InstallInv, Switches
    <3> QED BY <3>1, <3>2 DEF MatchInv, Matching
  <2> QED BY <2>1, <2>2
<1> QED BY <1>5, <1>6, <1>7, <1>8, <1>9 DEF AssignmentStep

-----------------------------------------------------------------------------
(* The theorems. *)

\* A repository starts without a command, a fence or a transaction.
LEMMA Starts ==
  ASSUME Init
  PROVE  TypeInv /\ FenceInv /\ SeenInv /\ LookedInv /\ InstallInv /\ MatchInv
<1> USE RuntimeAssumption, ControlAssumption, AssignmentAssumption, InterruptsAssumption
    DEF Init, RuntimeInit, ControlInit, AssignmentInit
<1>1. snap \in Snapshots
  <2>1. CASE snap = [state |-> "polling", pid |-> 1, exec |-> None, worker |-> FALSE]
    BY <2>1 DEF Snapshots, States
  <2>2. CASE snap \in [state : {"stopped"}, pid : {0}, worker : {FALSE},
                      exec : [kind : Kinds, by : {1}] \cup {None}]
    <3>1. snap.exec \in [kind : Kinds, by : 1..MaxStarts] \cup {None}
      <4>1. \A e \in [kind : Kinds, by : {1}] : e \in [kind : Kinds, by : 1..MaxStarts]
        OBVIOUS
      <4> QED BY <2>2, <4>1
    <3>2. snap = [state |-> "stopped", pid |-> 0, worker |-> FALSE, exec |-> snap.exec]
      BY <2>2
    <3>3. \A e \in [kind : Kinds, by : 1..MaxStarts] \cup {None} :
            [state |-> "stopped", pid |-> 0, worker |-> FALSE, exec |-> e] \in Snapshots
      BY DEF Snapshots, States
    <3> QED BY <3>1, <3>2, <3>3
  <2> QED BY <2>1, <2>2
<1>2. super = None \/ super \in Supers
  <2>1. 1 \in Slots /\ 1 \in 1..MaxStarts
    OBVIOUS
  <2>2. [bin |-> 1, pid |-> 1, phase |-> "run", job |-> "none", cycle |-> FALSE] \in Supers
    BY <2>1 DEF Supers, Jobs
  <2> QED BY <2>2
<1>3. RuntimeTypeOK
  <2>1. agent \in Agents
    <3>1. 1 \in Slots
      BY RuntimeAssumption
    <3>2. agent = [loaded |-> 1, plist |-> 1, unload |-> FALSE, raced |-> FALSE]
          \/ agent = [loaded |-> None, plist |-> 1, unload |-> FALSE, raced |-> FALSE]
      OBVIOUS
    <3>3. [loaded |-> 1, plist |-> 1, unload |-> FALSE, raced |-> FALSE] \in Agents
      BY <3>1 DEF Agents
    <3>4. [loaded |-> None, plist |-> 1, unload |-> FALSE, raced |-> FALSE] \in Agents
      BY <3>1 DEF Agents
    <3> QED BY <3>2, <3>3, <3>4
  <2>2. starts \in 1..MaxStarts /\ crashes \in 0..MaxCrashes
    <3>1. starts = 1 /\ crashes = 0
      OBVIOUS
    <3>2. MaxStarts \in Nat \ {0} /\ MaxCrashes \in Nat
      BY RuntimeAssumption
    <3> QED BY ONLY <3>1, <3>2
  <2>3. alive = FALSE
    OBVIOUS
  <2>4. alive \in BOOLEAN
    BY <2>3
  <2> QED BY <1>1, <1>2, <2>1, <2>2, <2>4 DEF RuntimeTypeOK, Supers, Agents
<1>4. fence \in Fences /\ fence.operator = None /\ fence.assignment = None
  BY DEF Fences
<1>5. assignment \in Assignments /\ assignment.gen <= 2 /\ assignment.ref = 1
  BY DEF Assignments
<1>6. TypeInv
  <2>1. ControlTypeOK
    BY <1>4 DEF ControlTypeOK
  <2>2. AssignmentTypeOK
    BY <1>4, <1>5 DEF AssignmentTypeOK
  <2>3. interrupts \in 0..MaxInterrupts
    <3>1. interrupts = 0
      OBVIOUS
    <3>2. MaxInterrupts \in Nat
      BY InterruptsAssumption
    <3> QED BY ONLY <3>1, <3>2
  <2>4. asg = None /\ cli = None /\ commands = 0
    OBVIOUS
  <2>5. seen = FALSE
    OBVIOUS
  <2>6. seen \in BOOLEAN
    BY ONLY <2>5
  <2> QED BY ONLY <1>3, <1>4, <1>5, <2>1, <2>2, <2>3, <2>4, <2>6 DEF TypeInv, Controls, Switches
<1>7. FenceInv /\ SeenInv /\ LookedInv
  BY <1>4 DEF FenceInv, SeenInv, LookedInv, Controls, Switches
<1>8. InstallInv
  <2>1. agent = [loaded |-> 1, plist |-> 1, unload |-> FALSE, raced |-> FALSE]
        \/ agent = [loaded |-> None, plist |-> 1, unload |-> FALSE, raced |-> FALSE]
    OBVIOUS
  <2>2. agent.loaded \in {1, None} /\ agent.plist = 1
    BY ONLY <2>1
  <2>3. ~agent.unload
    BY ONLY <2>1
  <2>4. starter = "none" /\ cli = None
    OBVIOUS
  <2> QED BY ONLY <1>5, <2>2, <2>3, <2>4 DEF InstallInv, Switches
<1>9. MatchInv
  BY DEF MatchInv, Open
<1> QED BY <1>6, <1>7, <1>8, <1>9

\* A command cut short, and a reboot of the host.
LEMMA CutShort ==
  ASSUME TypeInv, FenceInv, SeenInv, LookedInv, InstallInv, MatchInv, Interrupt \/ Reboot
  PROVE  TypeInv' /\ FenceInv' /\ SeenInv' /\ LookedInv' /\ InstallInv' /\ MatchInv'
<1> USE DEF control, runtime, delivery
<1>1. /\ cli' = None /\ UNCHANGED <<snap, fence, starts, seen, ctl, commands, delivery>>
      /\ starter' \in {starter, "none"} /\ super' \in {super, None}
      /\ alive' \in {alive, FALSE} /\ broker' \in {broker, Webhooks}
  BY DEF Interrupt, Reboot
<1>2. agent' \in Agents /\ agent'.plist = agent.plist
      /\ \/ agent' = agent
         \/ agent'.loaded = agent.plist /\ agent'.unload = FALSE
  BY AgentMoves DEF Interrupt, Reboot, TypeInv, RuntimeTypeOK, Agents
<1>3. crashes' \in 0..MaxCrashes /\ interrupts' \in 0..MaxInterrupts
  BY RuntimeAssumption, InterruptsAssumption DEF Interrupt, Reboot, TypeInv, RuntimeTypeOK
<1>4. RuntimeTypeOK'
  BY <1>1, <1>2, <1>3 DEF TypeInv, RuntimeTypeOK, Agents
<1>5. ControlTypeOK' /\ AssignmentTypeOK'
  BY <1>1, ControlAssumption DEF TypeInv, ControlTypeOK, AssignmentTypeOK
<1>6. TypeInv'
  BY <1>1, <1>3, <1>4, <1>5 DEF TypeInv, Controls, Switches
<1>7. FenceInv'
  <2>1. Deferred /\ fence.assignment # None => cut' = fence.assignment
    <3>1. CASE InSwitch("deferred")
      BY <3>1 DEF FenceInv, Interrupt, Reboot, NoteCut
    <3>2. CASE ~InSwitch("deferred")
      BY <3>2 DEF FenceInv, Interrupt, Reboot, NoteCut, InSwitch, CliAt, Switches
    <3> QED BY <3>1, <3>2
  <2> QED BY <1>1, <2>1 DEF FenceInv, Controls, Switches, ControlActive, Open, Deferred
<1>8. SeenInv' /\ LookedInv'
  BY <1>1 DEF SeenInv, LookedInv, Controls, Switches, Fenced
<1>9. InstallInv'
  <2>1. agent.plist # None
    BY RuntimeAssumption DEF TypeInv, RuntimeTypeOK
  <2> QED BY <1>1, <1>2, <2>1 DEF InstallInv, Switches, Open, Deferred
<1>10. MatchInv'
  BY <1>1 DEF MatchInv, Matching, Open, Deferred
<1> QED BY <1>6, <1>7, <1>8, <1>9, <1>10

\* What holds whatever starts beside the commands.
SafeInv == TypeInv /\ FenceInv /\ SeenInv /\ LookedInv /\ InstallInv /\ MatchInv

\* Every step keeps it.
LEMMA StepSafe ==
  ASSUME SafeInv, [Next]_vars
  PROVE  SafeInv'
<1> USE DEF SafeInv
<1>1. CASE (SupervisorStep \/ Crash) /\ UNCHANGED <<cli, control, delivery, interrupts, cut>>
  <2>1. TypeInv' /\ FenceInv'
    <3>1. RuntimeTypeOK' /\ seen' \in BOOLEAN /\ fence' = fence
      BY <1>1, SupervisorType
    <3>2. ControlTypeOK' /\ AssignmentTypeOK'
      BY <1>1, <3>1 DEF TypeInv, ControlTypeOK, AssignmentTypeOK, control, delivery
    <3>3. TypeInv'
      BY <1>1, <3>1, <3>2 DEF TypeInv, control, delivery, Controls, Switches
    <3>4. FenceInv'
      BY <1>1, <3>1
         DEF FenceInv, control, delivery, Controls, Switches, ControlActive, Open, Deferred
    <3> QED BY <3>3, <3>4
  <2>2. MatchInv'
    BY <1>1 DEF MatchInv, Matching, Open, Deferred, delivery
  <2> QED BY <1>1, <2>1, <2>2, SupervisorDrains, SupervisorInstalls
<1>2. CASE ControlStep /\ UNCHANGED <<delivery, interrupts, cut>>
  <2>1. TypeInv'
    BY <1>2, ControlType
  <2>2. MatchInv'
    BY <1>2 DEF MatchInv, Matching, Open, Deferred, delivery
  <2> QED BY <1>2, <2>1, <2>2, ControlFences, ControlDrains, ControlInstalls
<1>3. CASE AssignmentStep /\ UNCHANGED <<interrupts, cut>>
  BY <1>3, AssignmentType, AssignmentFences, AssignmentDrains, AssignmentInstalls,
     AssignmentMatches
<1>4. CASE Interrupt \/ Reboot
  BY <1>4, CutShort
<1>5. CASE UNCHANGED vars
  <2> USE <1>5 DEF vars, runtime, control, delivery, Controls, Switches
  <2>1. RuntimeTypeOK' /\ ControlTypeOK' /\ AssignmentTypeOK'
    BY DEF TypeInv, RuntimeTypeOK, ControlTypeOK, AssignmentTypeOK
  <2>2. TypeInv'
    BY <2>1 DEF TypeInv
  <2>3. FenceInv'
    BY DEF FenceInv, ControlActive, Open, Deferred
  <2>4. SeenInv' /\ LookedInv'
    BY DEF SeenInv, LookedInv, Idle, Fenced
  <2>5. InstallInv'
    BY DEF InstallInv, Open, Deferred
  <2>6. MatchInv'
    BY DEF MatchInv, Matching, Open, Deferred
  <2> QED BY <2>2, <2>3, <2>4, <2>5, <2>6
<1> QED BY <1>1, <1>2, <1>3, <1>4, <1>5 DEF Next

\* The invariant behind the drain and the fences.
LEMMA Safe == Spec => []SafeInv
<1>1. Init => SafeInv
  BY Starts DEF SafeInv
<1>2. SafeInv /\ [Next]_vars => SafeInv'
  BY StepSafe
<1> QED BY <1>1, <1>2, PTL DEF Spec

\* The runtime, its commands and their transactions keep their types.
THEOREM TypeCorrect == Spec => []TypeOK
<1>1. SafeInv => TypeOK
  BY DEF SafeInv, TypeInv, TypeOK
<1> QED BY <1>1, Safe, PTL

\* A drain that a scheduler has seen is real: when stop, restart or a switch goes on to
\* unload the LaunchAgent, no job and no cycle is under way, whatever crashed meanwhile
\* (drain.Ready, waitForOperatorDrain, waitForDrain).
THEOREM DrainsAreReal == Spec => []DrainedMeansIdle
<1>1. SafeInv => DrainedMeansIdle
  <2>1. SUFFICES ASSUME SafeInv, Drained, cli.seen, super # None
                 PROVE  super.job = "none" /\ ~super.cycle
    BY DEF DrainedMeansIdle
  <2>2. cli \in ControlClis \cup SwitchClis \cup {None}
    BY <2>1 DEF SafeInv, TypeInv
  <2>3. \/ Controls({"drained", "step", "unloading", "stopped"})
        \/ Switches({"halt"})
    <3>1. CASE cli \in ControlClis
      BY <2>1, <3>1 DEF Drained, CliAt, InControl, Controls, ControlClis, ControlPcs
    <3>2. CASE cli \in SwitchClis
      BY <2>1, <3>2 DEF Drained, CliAt, InControl, Switches, SwitchClis, SwitchPcs, Operations
    <3> QED BY <2>1, <2>2, <3>1, <3>2 DEF Drained, CliAt, InControl
  <2> QED BY <2>1, <2>3 DEF SafeInv, LookedInv, SeenInv, Idle
<1> QED BY <1>1, Safe, PTL

\* However the commands were cut short, a fence is of a transaction on record, and while no
\* command runs the assignment's is of an open one that matches the committed
\* assignment, unless its deferral was cut before the fence went (switchTo, drainControl).
THEOREM FencesHaveOwners == Spec => []FencesExplained
<1>1. SafeInv => FencesExplained
  <2>1. SUFFICES ASSUME SafeInv
                 PROVE  FencesExplained
    OBVIOUS
  <2>2. ASSUME fence.assignment # None, cli = None, cut # fence.assignment
        PROVE  Open /\ Matching
    BY <2>1, <2>2 DEF SafeInv, FenceInv, MatchInv, Switches
  <2>3. fence.assignment # None => asg # None
    BY <2>1 DEF SafeInv, FenceInv, Open, Deferred
  <2> QED BY <2>1, <2>2, <2>3 DEF SafeInv, FenceInv, FencesExplained
<1> QED BY <1>1, Safe, PTL

\* With no transaction open, what launchd runs is the assigned slot, or what a start loaded
\* in the middle of a switch (switchTo, rollbackSwitch, RetryRollback, start).
THEOREM AssignedIsInstalled == Spec => []AssignmentInstalled
<1>1. SafeInv => AssignmentInstalled
  BY DEF SafeInv, InstallInv, AssignmentInstalled
<1> QED BY <1>1, Safe, PTL
=============================================================================
