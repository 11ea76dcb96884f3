------------------------- MODULE RepositoryRuntime -------------------------
(***************************************************************************)
(* One repository's LaunchAgent and supervisor as its operators see them:  *)
(* what launchd has loaded, the supervisor process, the part of the        *)
(* snapshot that a drain reads, the maintenance fences, and the work of    *)
(* the scheduler reduced to where one job stands.                          *)
(***************************************************************************)
EXTENDS Naturals

CONSTANTS
  Slots,      \* immutable slots of the agent-loop binary, ordered by version
  None,       \* nothing there
  MaxStarts,  \* bound: supervisor processes ever started
  MaxCrashes  \* bound: supervisors killed, hosts rebooted

ASSUME RuntimeAssumption ==
  /\ Slots \subseteq Nat \ {0} /\ 1 \in Slots /\ None \notin Nat
  /\ MaxStarts \in Nat \ {0} /\ MaxCrashes \in Nat

VARIABLES
  agent,   \* launchd: the program loaded, the program the plist names, unloading asked;
           \* its "raced" is a history: a start loaded it while a switch was under way
  super,   \* the supervisor process, None when there is none
  snap,    \* the snapshot: supervisor state and PID, active execution, worker recorded
  alive,   \* the worker process lives
  fence,   \* the maintenance fences of the operator and of the assignment
  starts,  \* supervisor processes started; the last one's PID
  crashes, \* bound used
  seen,    \* history: a scheduler has looked at the fence in place
  cli      \* the command that holds the host's delivery lock; its "seen" is that history

runtime == <<agent, super, snap, alive, fence, starts, crashes, seen>>

States == {"running", "polling", "draining", "maintenance", "starting", "stopped"}
Jobs == {"none", "queued", "effect", "claim", "launch", "record", "working", "result"}
Kinds == {"worker", "conflict", "attempt"}
Snapshots == [state : States, pid : 0..MaxStarts, worker : BOOLEAN,
              exec : [kind : Kinds, by : 1..MaxStarts] \cup {None}]

\* The repository runs idle, or has been stopped: by force, a launch without a recorded
\* worker is left as it was.
RuntimeInit ==
  /\ \/ /\ agent = [loaded |-> 1, plist |-> 1, unload |-> FALSE, raced |-> FALSE]
        /\ super = [bin |-> 1, pid |-> 1, phase |-> "run", job |-> "none", cycle |-> FALSE]
        /\ snap = [state |-> "polling", pid |-> 1, exec |-> None, worker |-> FALSE]
     \/ /\ agent = [loaded |-> None, plist |-> 1, unload |-> FALSE, raced |-> FALSE]
        /\ super = None
        /\ snap \in [state : {"stopped"}, pid : {0}, worker : {FALSE},
                     exec : [kind : Kinds, by : {1}] \cup {None}]
  /\ alive = FALSE
  /\ fence = [operator |-> None, assignment |-> None]
  /\ starts = 1 /\ crashes = 0 /\ seen = FALSE
  /\ cli = None

\* drain.Requested on the fences of the operator and of the assignment.
Fenced == fence.operator # None \/ fence.assignment # None

\* drain.Ready
Ready == snap.state = "maintenance" /\ snap.exec = None /\ ~snap.worker

\* drain.RecoverableUnstartedConflictLaunch
Recoverable ==
  /\ snap.state \in {"draining", "maintenance"}
  /\ snap.exec # None /\ snap.exec.kind = "conflict" /\ snap.exec.by # starts
  /\ ~snap.worker

\* validateUnstartedConflictLaunch: once the attempt is counted, the checkpoint is that
\* of another run.
Refused == snap.exec # None /\ snap.exec.kind = "attempt" /\ ~snap.worker

\* Store.RecoverUnstartedConflictLaunch
Unstarted(s) == s.exec # None /\ s.exec.kind = "conflict" /\ ~s.worker
RecoverUnstarted(s) == IF Unstarted(s) THEN [s EXCEPT !.exec = None] ELSE s

\* A fence file is written or removed.
SetFence(f) ==
  /\ fence' = f
  /\ seen' = (seen /\ Fenced /\ (f.operator # None \/ f.assignment # None))
ClearFence(name) == SetFence([fence EXCEPT ![name] = None])

\* launchd.Manager.Start and RequestStop: no-ops when there is nothing to do.
Load == agent' = IF agent.loaded = None THEN [agent EXCEPT !.loaded = agent.plist] ELSE agent
RequestStop == agent' = [agent EXCEPT !.unload = agent.loaded # None]
Unloaded == agent.loaded = None /\ ~agent.unload

\* The running command goes on at pc, or ends and releases its locks.
CliGoto(pc) == cli' = [cli EXCEPT !.pc = pc]
CliAt(pc) == cli # None /\ cli.pc = pc

-----------------------------------------------------------------------------
(* The supervisor starts and schedules. *)

Up == super # None /\ super.phase = "run"

\* launchd starts the loaded program; also again after it died (KeepAlive).  A launch
\* that cannot be recovered makes it exit at once, and launchd leaves it at that.
Boot ==
  /\ agent.loaded # None /\ super = None /\ starts < MaxStarts
  /\ ~Refused
  /\ starts' = starts + 1
  /\ super' = [bin |-> agent.loaded, pid |-> starts + 1, phase |-> "boot", job |-> "none",
               cycle |-> FALSE]
  /\ UNCHANGED <<agent, snap, alive, fence, crashes, seen>>

\* Run up to the reconciliation: without a fence the recorded worker is stopped
\* and its issue waits for a retry.
Reconcile ==
  LET recovered == RecoverUnstarted(snap)
  IN /\ super # None /\ super.phase = "boot"
     /\ super' = [super EXCEPT !.phase = "start"]
     /\ IF ~Fenced /\ recovered.worker
        THEN snap' = [recovered EXCEPT !.worker = FALSE, !.exec = None] /\ alive' = FALSE
        ELSE snap' = recovered /\ UNCHANGED alive
     /\ UNCHANGED <<agent, fence, starts, crashes, seen>>

\* supervisor_started and supervisor_running
RecordStarted ==
  /\ super # None /\ super.phase = "start"
  /\ super' = [super EXCEPT !.phase = "run"]
  /\ snap' = [snap EXCEPT !.state = "running", !.pid = super.pid]
  /\ UNCHANGED <<agent, alive, fence, starts, crashes, seen>>

\* The lifecycle gate is free.
GateFree == ~super.cycle /\ super.job \in {"none", "queued", "launch", "record", "working", "result"}

\* Variant: maintenance is what the snapshot shows, jobs under way do not count.
ObserveFenceSnapshotOnly ==
  LET held == IF super.job = "none" THEN RecoverUnstarted(snap) ELSE snap
      idle == held.exec = None /\ ~held.worker
  IN /\ Up /\ GateFree /\ Fenced
     /\ snap' = [held EXCEPT !.state = IF idle THEN "maintenance" ELSE "draining"]
     /\ seen' = TRUE
     /\ UNCHANGED <<agent, super, alive, fence, starts, crashes>>

\* schedule under a fence: no job is started.
ObserveFence ==
  LET held == IF super.job = "none" THEN RecoverUnstarted(snap) ELSE snap
      idle == super.job = "none" /\ held.exec = None /\ ~held.worker
  IN /\ Up /\ GateFree /\ Fenced
     /\ snap' = [held EXCEPT !.state = IF idle THEN "maintenance" ELSE "draining"]
     /\ seen' = TRUE
     /\ UNCHANGED <<agent, super, alive, fence, starts, crashes>>

\* schedule without a fence reads the fences once and goes on for long.
BeginCycle ==
  /\ Up /\ GateFree /\ ~Fenced
  /\ super' = [super EXCEPT !.cycle = TRUE]
  /\ UNCHANGED <<agent, snap, alive, fence, starts, crashes, seen>>

\* A job is dispatched, or an idle scheduler is marked as polling.
EndCycle ==
  /\ Up /\ super.cycle
  /\ \/ /\ super.job = "none"
        /\ super' = [super EXCEPT !.job = "queued", !.cycle = FALSE]
        /\ UNCHANGED snap
     \/ /\ super.job = "none"
        /\ super' = [super EXCEPT !.cycle = FALSE]
        /\ snap' = [snap EXCEPT !.state = "polling"]
     \/ /\ super.job # "none"
        /\ super' = [super EXCEPT !.cycle = FALSE]
        /\ UNCHANGED snap
  /\ UNCHANGED <<agent, alive, fence, starts, crashes, seen>>

-----------------------------------------------------------------------------
(* The job. *)

Goto(pc) == super' = [super EXCEPT !.job = pc]

\* The job takes the gate: it brings a pull request or a GitHub effect forward, or
\* it runs a worker, a new one or one whose execution was left behind.
TakeGate ==
  /\ Up /\ ~super.cycle /\ super.job = "queued"
  /\ \/ Goto("effect")
     \/ Goto("claim") /\ snap.exec = None
     \/ Goto("launch") /\ snap.exec # None /\ ~snap.worker
  /\ UNCHANGED <<agent, snap, alive, fence, starts, crashes, seen>>

\* The claim makes the execution durable; the launch is then validated outside the gate.
ClaimExecution ==
  /\ Up /\ super.job = "claim"
  /\ \/ /\ \E kind \in {"worker", "conflict"} :
             snap' = [snap EXCEPT !.exec = [kind |-> kind, by |-> super.pid], !.state = "running"]
        /\ Goto("launch")
     \/ Goto("none") /\ UNCHANGED snap
  /\ UNCHANGED <<agent, alive, fence, starts, crashes, seen>>

\* The attempt of a conflict worker is recorded before the process starts.
Attempted == IF Unstarted(snap) THEN [snap EXCEPT !.exec.kind = "attempt"] ELSE snap

Launch ==
  /\ Up /\ ~super.cycle /\ super.job = "launch"
  /\ \/ Goto("record") /\ alive' = TRUE
     \/ Goto("result") /\ UNCHANGED alive
  /\ snap' = Attempted
  /\ UNCHANGED <<agent, fence, starts, crashes, seen>>

\* The started callback records the process.
RecordWorker ==
  /\ Up /\ super.job = "record"
  /\ snap' = [snap EXCEPT !.worker = TRUE]
  /\ Goto("working")
  /\ UNCHANGED <<agent, alive, fence, starts, crashes, seen>>

WorkerExits ==
  /\ alive
  /\ alive' = FALSE
  /\ IF Up /\ super.job = "working" THEN Goto("result")
     ELSE ~(Up /\ super.job = "record") /\ UNCHANGED super
  /\ UNCHANGED <<agent, snap, fence, starts, crashes, seen>>

\* The result is stored; what it asks for next is one more effect.
StoreResult ==
  /\ Up /\ ~super.cycle /\ super.job = "result"
  /\ snap' = [snap EXCEPT !.exec = None, !.worker = FALSE]
  /\ Goto("effect") \/ Goto("none")
  /\ UNCHANGED <<agent, alive, fence, starts, crashes, seen>>

FinishEffect ==
  /\ Up /\ super.job = "effect"
  /\ Goto("none")
  /\ UNCHANGED <<agent, snap, alive, fence, starts, crashes, seen>>

-----------------------------------------------------------------------------
(* The supervisor ends. *)

\* The supervisor is told to end: its jobs are cancelled, which kills the worker,
\* and it records that it stopped; launchd kills one that takes too long.
Terminate ==
  /\ agent.unload
  /\ super' = None
  /\ agent' = [agent EXCEPT !.loaded = None, !.unload = FALSE, !.raced = FALSE]
  /\ IF super = None THEN UNCHANGED <<snap, alive>>
     ELSE /\ alive' = (alive /\ super.job \notin {"record", "working"})
          /\ \/ snap' = [snap EXCEPT !.state = "stopped", !.pid = 0]
             \/ snap' = [snap EXCEPT !.state = "stopped", !.pid = 0, !.exec = None, !.worker = FALSE]
             \/ UNCHANGED snap
  /\ UNCHANGED <<fence, starts, crashes, seen>>

\* The process is killed; its worker may live on. launchd starts it again.
Crash ==
  /\ super # None /\ crashes < MaxCrashes
  /\ crashes' = crashes + 1
  /\ super' = None
  /\ UNCHANGED <<agent, snap, alive, fence, starts, seen>>

\* The scheduler and its job go on, or the worker does.
SupervisorStep ==
  \/ Boot \/ Reconcile \/ RecordStarted \/ ObserveFence \/ BeginCycle \/ EndCycle
  \/ TakeGate \/ ClaimExecution \/ Launch \/ RecordWorker \/ WorkerExits \/ StoreResult
  \/ FinishEffect \/ Terminate

RuntimeTypeOK ==
  /\ agent \in [loaded : Slots \cup {None}, plist : Slots, unload : BOOLEAN, raced : BOOLEAN]
  /\ super = None \/ super \in [bin : Slots, pid : 1..MaxStarts, phase : {"boot", "start", "run"},
                                job : Jobs, cycle : BOOLEAN]
  /\ snap \in Snapshots
  /\ alive \in BOOLEAN
  /\ starts \in 1..MaxStarts /\ crashes \in 0..MaxCrashes
=============================================================================
