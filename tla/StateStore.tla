----------------------------- MODULE StateStore -----------------------------
(***************************************************************************)
(* The durable store of one repository (internal/adapter/state).           *)
(*                                                                         *)
(* A repository's state lives in three files: the snapshot state.json, the *)
(* event log events.jsonl and, while an update is being committed, the     *)
(* write-ahead record state.txn.json.  An operation takes the exclusive    *)
(* file lock state.lock, recovers the three files to a consistent state,   *)
(* and then commits one update.  The lock serialises the supervisor and    *)
(* the command-line tools, so one operation is under way at a time; a      *)
(* crash or an I/O error may cut it between any two durable writes.        *)
(*                                                                         *)
(* One action stands for one durable write together with the decisions the *)
(* code takes, under the lock, before the next one.  The contents of the   *)
(* snapshot are abstracted to the sequence of payloads applied to it.      *)
(***************************************************************************)
EXTENDS Integers, Sequences

CONSTANTS
  Payloads,       \* what one update writes
  None,           \* an absent file
  Unreadable,     \* a file that does not decode
  MaxRevision,    \* bound: updates stop at this state revision
  MaxInterrupts,  \* bound: operations cut before their end
  MaxDamage       \* bound: files damaged by something outside the program

VARIABLES
  state,      \* state.json
  events,     \* the complete lines of events.jsonl
  torn,       \* events.jsonl ends in bytes that no newline closes
  txn,        \* state.txn.json
  marker,     \* quarantine-recovery.txn.json
  backups,    \* the directories under recovery/, oldest first
  pc,         \* where the operation that holds state.lock is
  op,         \* which operation that is
  interrupts, \* operations cut so far
  damage,     \* external damages so far
  committed,  \* history: the payloads of every update ever prepared
  confirmed,  \* history: those whose caller was told of the success
  evidence,   \* history: the files as they were when a fault was detected
  cut         \* history: an isolation was cut before its marker was written

disk == <<state, events, torn, txn, marker, backups>>
history == <<committed, confirmed, evidence, cut>>
vars == <<disk, pc, op, interrupts, damage, history>>

Operations == {"load", "initialize", "update"}

EventKinds == {"update", "event_log_tail_truncated", "event_log_checkpoint",
               "recovery_blocked", "quarantine_recovered", "garbage"}

Snapshot == [revision : Nat, value : Seq(Payloads), backup : Nat, sound : BOOLEAN]
Event == [sequence : Nat \ {0}, kind : EventKinds, payload : Seq(Payloads)]
Transaction == [snapshot : Snapshot, event : Event]

ASSUME NoneAssumption ==
  /\ None \notin Snapshot \cup Transaction \cup [state : Snapshot, events : Seq(Event)]
  /\ Unreadable \notin Snapshot \cup Transaction
  /\ None # Unreadable

ASSUME BoundsAssumption ==
  MaxRevision \in Nat /\ MaxInterrupts \in Nat /\ MaxDamage \in Nat

-----------------------------------------------------------------------------
(* Snapshots, events and what the code reads off them. *)

EmptySnapshot == [revision |-> 0, value |-> <<>>, backup |-> 0, sound |-> TRUE]

\* The snapshot an operation works on once the files are recovered.
Current == IF state = None THEN EmptySnapshot ELSE state

\* Recovery.Status = blocked; the marker names the backup directory.
Blocked(s) == s.backup # 0

LastSequence(log) == IF log = <<>> THEN 0 ELSE log[Len(log)].sequence

\* The log decodes line by line.
Readable(log) == \A i \in DOMAIN log : log[i].kind # "garbage"

\* Sequences rise by one, from 1 or from a checkpoint.
Contiguous(log) ==
  \A i \in DOMAIN log :
    \/ i = 1 /\ log[1].kind = "event_log_checkpoint" /\ log[1].sequence > 0
    \/ i = 1 /\ log[1].kind # "event_log_checkpoint" /\ log[1].sequence = 1
    \/ i > 1 /\ log[i].sequence = log[i-1].sequence + 1

\* The log is contiguous up to the snapshot's revision.
ValidEventSequence(s, log) == Contiguous(log) /\ LastSequence(log) = s.revision

Consistent(s, log) == ValidEventSequence(s, log) /\ s.sound

ValidTransaction(t) ==
  /\ t.event.sequence > 0
  /\ t.snapshot.revision = t.event.sequence
  /\ t.snapshot.sound

\* Appending to a log whose last line is unfinished spoils that line.
Appended(event) ==
  Append(events, IF torn THEN [event EXCEPT !.kind = "garbage"] ELSE event)

-----------------------------------------------------------------------------
(* Initial state: no file exists. *)

Init ==
  /\ state = None /\ events = <<>> /\ torn = FALSE /\ txn = None
  /\ marker = None /\ backups = <<>>
  /\ pc = "idle" /\ op = "load"
  /\ interrupts = 0 /\ damage = 0
  /\ committed = <<>> /\ confirmed = <<>> /\ evidence = None /\ cut = FALSE

\* An operation acquires state.lock.
Begin(o) ==
  /\ pc = "idle"
  /\ op' = o /\ pc' = "recover"
  /\ UNCHANGED <<disk, interrupts, damage, history>>

-----------------------------------------------------------------------------
(* Finishing an interrupted manual restore (completeQuarantineRecovery). *)

CompleteEvents ==
  /\ pc = "recover" /\ marker # None
  /\ events' = marker.events /\ torn' = FALSE
  /\ pc' = "restoreState"
  /\ UNCHANGED <<state, txn, marker, backups, op, interrupts, damage, history>>

CompleteState ==
  /\ pc = "restoreState"
  /\ state' = marker.state
  /\ pc' = "dropMarker"
  /\ UNCHANGED <<events, torn, txn, marker, backups, op, interrupts, damage, history>>

DropMarker ==
  /\ pc = "dropMarker"
  /\ marker' = None /\ pc' = "recover"
  /\ evidence' = None
  /\ UNCHANGED <<state, events, torn, txn, backups, op, interrupts, damage,
                 committed, confirmed, cut>>

-----------------------------------------------------------------------------
(* Recovery of the three files (recoverUnlocked). *)

\* The first durable write of an isolation moves state.json away.
Isolate ==
  /\ backups' = Append(backups, [state |-> state, events |-> <<>>, torn |-> FALSE,
                                 txn |-> None])
  /\ evidence' = [state |-> state, events |-> events, torn |-> torn, txn |-> txn]
  /\ state' = None
  /\ pc' = "isolateEvents"
  /\ UNCHANGED <<events, torn, txn, marker, op, interrupts, damage, committed,
                 confirmed, cut>>

\* A file does not decode, or the prepared transaction is not valid.
ReadFailed ==
  \/ state = Unreadable
  \/ ~Readable(events)
  \/ txn = Unreadable
  \/ txn # None /\ txn # Unreadable /\ ~ValidTransaction(txn)

RejectUnreadable ==
  /\ pc = "recover" /\ marker = None /\ ReadFailed
  /\ Isolate

\* Variant: the unfinished line is left where it is.
ReplayKeepsTail ==
  /\ pc = "recover" /\ marker = None /\ ~ReadFailed /\ txn # None
  /\ pc' = "replayEvent"
  /\ UNCHANGED <<state, events, torn, txn, marker, backups, op, interrupts, damage, history>>

\* Variant: the transaction is rolled back instead of forward.
ReplayRollsBack ==
  /\ pc = "recover" /\ marker = None /\ ~ReadFailed /\ txn # None
  /\ torn' = FALSE /\ txn' = None
  /\ pc' = "settle"
  /\ UNCHANGED <<state, events, marker, backups, op, interrupts, damage, history>>

ReplayTruncate ==
  /\ pc = "recover" /\ marker = None /\ ~ReadFailed /\ txn # None
  /\ torn' = FALSE
  /\ pc' = "replayEvent"
  /\ UNCHANGED <<state, events, txn, marker, backups, op, interrupts, damage, history>>

ReplayEvent ==
  /\ pc = "replayEvent"
  /\ LET last == LastSequence(events) IN
       \/ /\ last = txn.event.sequence /\ events[Len(events)] = txn.event
          /\ events' = events
       \/ /\ last + 1 = txn.event.sequence
          /\ events' = Appended(txn.event)
  /\ pc' = "replaySnapshot"
  /\ UNCHANGED <<state, torn, txn, marker, backups, op, interrupts, damage, history>>

\* The event of the transaction conflicts with the log, or leaves a gap.
RejectReplayEvent ==
  /\ pc = "replayEvent"
  /\ LET last == LastSequence(events) IN
       \/ last = txn.event.sequence /\ events[Len(events)] # txn.event
       \/ last # txn.event.sequence /\ last + 1 # txn.event.sequence
  /\ Isolate

\* Variant: a snapshot that is already there is not rewritten.
ReplaySkipsSnapshot ==
  /\ pc = "replaySnapshot"
  /\ \/ state = None
     \/ state # None /\ state.revision < txn.snapshot.revision
     \/ state = txn.snapshot
  /\ state' = IF state = None THEN txn.snapshot ELSE state
  /\ pc' = "replayRemove"
  /\ UNCHANGED <<events, torn, txn, marker, backups, op, interrupts, damage, history>>

ReplaySnapshot ==
  /\ pc = "replaySnapshot"
  /\ \/ state = None
     \/ state # None /\ state.revision < txn.snapshot.revision
     \/ state = txn.snapshot
  /\ state' = txn.snapshot
  /\ pc' = "replayRemove"
  /\ UNCHANGED <<events, torn, txn, marker, backups, op, interrupts, damage, history>>

RejectReplaySnapshot ==
  /\ pc = "replaySnapshot" /\ state # None
  /\ \/ state.revision > txn.snapshot.revision
     \/ state.revision = txn.snapshot.revision /\ state # txn.snapshot
  /\ Isolate

\* Variant: a failure to remove the transaction file is ignored.
ReplayForgetsRemove ==
  /\ pc = "replayRemove"
  /\ pc' = "settle"
  /\ UNCHANGED <<disk, op, interrupts, damage, history>>

ReplayRemove ==
  /\ pc = "replayRemove"
  /\ txn' = None /\ pc' = "settle"
  /\ UNCHANGED <<state, events, torn, marker, backups, op, interrupts, damage, history>>

NothingPrepared ==
  /\ pc = "recover" /\ marker = None /\ ~ReadFailed /\ txn = None
  /\ pc' = "settle"
  /\ UNCHANGED <<disk, op, interrupts, damage, history>>

\* Variant: a missing snapshot counts as a fresh store.
SettleFresh ==
  /\ pc = "settle" /\ ~torn
  /\ \/ state = None
     \/ state # None /\ Consistent(state, events)
  /\ events' = IF state = None THEN <<>> ELSE events
  /\ pc' = "recovered"
  /\ UNCHANGED <<state, torn, txn, marker, backups, op, interrupts, damage, history>>

\* Snapshot and log agree, or nothing was ever written.
Settle ==
  /\ pc = "settle" /\ ~torn
  /\ \/ state = None /\ events = <<>>
     \/ state # None /\ Consistent(state, events)
  /\ pc' = "recovered"
  /\ UNCHANGED <<disk, op, interrupts, damage, history>>

\* An unfinished last line behind the snapshot's own event is cut off.
SettleTail ==
  /\ pc = "settle" /\ torn
  /\ state # None /\ state.revision = LastSequence(events)
  /\ torn' = FALSE
  /\ pc' = "repair"
  /\ UNCHANGED <<state, events, txn, marker, backups, op, interrupts, damage, history>>

RejectSettle ==
  /\ pc = "settle"
  /\ \/ state = None /\ (events # <<>> \/ torn)
     \/ state # None /\ torn /\ state.revision # LastSequence(events)
     \/ state # None /\ ~torn /\ ~Consistent(state, events)
  /\ Isolate

-----------------------------------------------------------------------------
(* Isolation of inconsistent files (quarantineUnlocked), after state.json. *)

Backup == Len(backups)

IsolateEvents ==
  /\ pc = "isolateEvents"
  /\ backups' = [backups EXCEPT ![Backup].events = events, ![Backup].torn = torn]
  /\ events' = <<>> /\ torn' = FALSE
  /\ pc' = "isolateTransaction"
  /\ UNCHANGED <<state, txn, marker, op, interrupts, damage, history>>

\* Variant: the transaction is removed instead of moved to the backup.
IsolateDropsTransaction ==
  /\ pc = "isolateTransaction"
  /\ txn' = None
  /\ pc' = "recordBlocked"
  /\ UNCHANGED <<state, events, torn, marker, backups, op, interrupts, damage, history>>

IsolateTransaction ==
  /\ pc = "isolateTransaction"
  /\ backups' = [backups EXCEPT ![Backup].txn = txn]
  /\ txn' = None
  /\ pc' = "recordBlocked"
  /\ UNCHANGED <<state, events, torn, marker, op, interrupts, damage, history>>

RecordBlocked ==
  /\ pc = "recordBlocked"
  /\ events' = Appended([sequence |-> 1, kind |-> "recovery_blocked", payload |-> <<>>])
  /\ pc' = "writeBlocked"
  /\ UNCHANGED <<state, torn, txn, marker, backups, op, interrupts, damage, history>>

WriteBlocked ==
  /\ pc = "writeBlocked"
  /\ state' = [EmptySnapshot EXCEPT !.revision = 1, !.backup = Backup]
  /\ pc' = "recovered"
  /\ UNCHANGED <<events, torn, txn, marker, backups, op, interrupts, damage, history>>

-----------------------------------------------------------------------------
(* Committing an update (Store.Update) or a repair (recordRepairUnlocked). *)

\* Variant: the event takes the revision the snapshot had.
PrepareStaleSequence(p) ==
  /\ pc = "recovered" /\ op = "update"
  /\ ~Blocked(Current)
  /\ Current.revision < MaxRevision
  /\ LET next == [Current EXCEPT !.revision = @ + 1, !.value = Append(@, p)] IN
       /\ txn' = [snapshot |-> next,
                  event |-> [sequence |-> Current.revision, kind |-> "update",
                             payload |-> <<p>>]]
       /\ committed' = next.value
  /\ pc' = "append"
  /\ UNCHANGED <<state, events, torn, marker, backups, op, interrupts, damage,
                 confirmed, evidence, cut>>

\* The mutation succeeded: the transaction is the point of no return.
Prepare(p) ==
  /\ pc = "recovered" /\ op = "update"
  /\ ~Blocked(Current)
  /\ Current.revision < MaxRevision
  /\ LET next == [Current EXCEPT !.revision = @ + 1, !.value = Append(@, p)] IN
       /\ txn' = [snapshot |-> next,
                  event |-> [sequence |-> next.revision, kind |-> "update",
                             payload |-> <<p>>]]
       /\ committed' = next.value
  /\ pc' = "append"
  /\ UNCHANGED <<state, events, torn, marker, backups, op, interrupts, damage,
                 confirmed, evidence, cut>>

\* The store is blocked, or the mutation returns an error.
Refuse ==
  /\ pc = "recovered" /\ op = "update"
  /\ pc' = "idle"
  /\ UNCHANGED <<disk, op, interrupts, damage, history>>

AppendEvent ==
  /\ pc \in {"append", "repairAppend"}
  /\ events' = Appended(txn.event)
  /\ pc' = IF pc = "append" THEN "write" ELSE "repairWrite"
  /\ UNCHANGED <<state, torn, txn, marker, backups, op, interrupts, damage, history>>

WriteSnapshot ==
  /\ pc \in {"write", "repairWrite"}
  /\ state' = txn.snapshot
  /\ pc' = IF pc = "write" THEN "remove" ELSE "repairRemove"
  /\ UNCHANGED <<events, torn, txn, marker, backups, op, interrupts, damage, history>>

RemoveTransaction ==
  /\ pc \in {"remove", "repairRemove"}
  /\ txn' = None
  /\ pc' = IF pc = "remove" THEN "rotate" ELSE "settle"
  /\ UNCHANGED <<state, events, torn, marker, backups, op, interrupts, damage, history>>

\* The log is archived and replaced by a checkpoint when the retention policy
\* asks for it; a failure to do so is only logged.
Rotate ==
  /\ pc = "rotate"
  /\ \/ events' = events
     \/ events' = <<[sequence |-> state.revision, kind |-> "event_log_checkpoint",
                     payload |-> <<>>]>>
  /\ confirmed' = state.value
  /\ pc' = "idle"
  /\ UNCHANGED <<state, torn, txn, marker, backups, op, interrupts, damage,
                 committed, evidence, cut>>

Repair ==
  /\ pc = "repair" /\ state.sound
  /\ LET next == [state EXCEPT !.revision = @ + 1] IN
       txn' = [snapshot |-> next,
               event |-> [sequence |-> next.revision,
                          kind |-> "event_log_tail_truncated", payload |-> <<>>]]
  /\ pc' = "repairAppend"
  /\ UNCHANGED <<state, events, torn, marker, backups, op, interrupts, damage, history>>

RefuseRepair ==
  /\ pc = "repair" /\ ~state.sound
  /\ pc' = "idle"
  /\ UNCHANGED <<disk, op, interrupts, damage, history>>

-----------------------------------------------------------------------------
(* The other operations. *)

\* Store.Load returns the snapshot it recovered.
Return ==
  /\ pc = "recovered" /\ op = "load"
  /\ pc' = "idle"
  /\ UNCHANGED <<disk, op, interrupts, damage, history>>

\* Store.Initialize writes the empty snapshot unless one is there.
Initialize ==
  /\ pc = "recovered" /\ op = "initialize"
  /\ state' = Current
  /\ pc' = "idle"
  /\ UNCHANGED <<events, torn, txn, marker, backups, op, interrupts, damage, history>>

\* The operator confirms the backup of a snapshot that an older release wrote
\* and this one's validator rejects; the repaired files are staged, and the
\* marker makes the restore complete itself from then on.
Restorable(b) ==
  /\ b.state # None /\ b.state # Unreadable
  /\ b.txn = None /\ ~b.torn /\ Readable(b.events)
  /\ ~b.state.sound /\ ValidEventSequence(b.state, b.events)

StageRestore ==
  /\ pc = "idle"
  /\ state # None /\ state # Unreadable /\ Blocked(state) /\ state.revision = 1
  /\ ~torn /\ Len(events) = 1 /\ events[1].kind = "recovery_blocked"
  /\ ValidEventSequence(state, events)
  /\ LET b == backups[state.backup]
         next == [b.state EXCEPT !.revision = @ + 1, !.sound = TRUE]
     IN /\ Restorable(b)
        /\ marker' = [state |-> next,
                      events |-> Append(b.events, [sequence |-> next.revision,
                                  kind |-> "quarantine_recovered", payload |-> <<>>])]
  /\ op' = "load" /\ pc' = "recover"
  /\ UNCHANGED <<state, events, torn, txn, backups, interrupts, damage, history>>

-----------------------------------------------------------------------------
(* The environment. *)

\* The phases whose write is an append to the event log.
Appending ==
  \/ pc \in {"append", "repairAppend", "recordBlocked"}
  \/ pc = "replayEvent" /\ LastSequence(events) + 1 = txn.event.sequence

Isolating == {"isolateEvents", "isolateTransaction", "recordBlocked", "writeBlocked"}

\* The process dies, or a write fails and the operation returns an error; what
\* is on disk stays, and an append may leave part of its line behind.
Interrupt ==
  /\ pc # "idle" /\ interrupts < MaxInterrupts
  /\ interrupts' = interrupts + 1
  /\ \/ torn' = torn
     \/ Appending /\ torn' = TRUE
  /\ cut' = (cut \/ pc \in Isolating)
  /\ pc' = "idle"
  /\ UNCHANGED <<state, events, txn, marker, backups, op, damage, committed,
                 confirmed, evidence>>

\* Something outside the program harms one file while no operation runs.
DamageState ==
  /\ state # None
  /\ \/ state' \in {None, Unreadable}
     \/ /\ state # Unreadable
        /\ \E r \in {state.revision - 1, state.revision + 1} \cap Nat :
             state' = [state EXCEPT !.revision = r]
  /\ UNCHANGED <<events, torn, txn>>


DamageTransaction ==
  /\ txn # None /\ txn # Unreadable
  /\ txn' = Unreadable
  /\ UNCHANGED <<state, events, torn>>

DamageEvents ==
  /\ \/ events # <<>> /\ events' = SubSeq(events, 1, Len(events) - 1)
        /\ torn' \in BOOLEAN
     \/ \E i \in DOMAIN events :
          events' = [events EXCEPT ![i].kind = "garbage"] /\ torn' = torn
     \/ ~torn /\ torn' = TRUE /\ events' = events
  /\ UNCHANGED <<state, txn>>

Damage ==
  /\ pc = "idle" /\ damage < MaxDamage
  /\ DamageState \/ DamageTransaction \/ DamageEvents
  /\ damage' = damage + 1
  /\ UNCHANGED <<marker, backups, pc, op, interrupts, history>>

\* A new release is installed whose validator rejects what the old one wrote.
Upgrade ==
  /\ pc = "idle"
  /\ state # None /\ state # Unreadable
  /\ ~Blocked(state) /\ state.sound /\ state.revision < MaxRevision
  /\ state' = [state EXCEPT !.sound = FALSE]
  /\ txn' = IF txn = None \/ txn = Unreadable THEN txn
            ELSE [txn EXCEPT !.snapshot.sound = FALSE]
  /\ UNCHANGED <<events, torn, marker, backups, pc, op, interrupts, damage, history>>

-----------------------------------------------------------------------------
Recovery ==
  \/ CompleteEvents \/ CompleteState \/ DropMarker
  \/ RejectUnreadable \/ ReplayTruncate \/ ReplayEvent \/ RejectReplayEvent
  \/ ReplaySnapshot \/ RejectReplaySnapshot \/ ReplayRemove \/ NothingPrepared
  \/ Settle \/ SettleTail \/ RejectSettle \/ Repair \/ RefuseRepair
  \/ IsolateEvents \/ IsolateTransaction \/ RecordBlocked \/ WriteBlocked

Commit ==
  \/ \E p \in Payloads : Prepare(p)
  \/ Refuse \/ AppendEvent \/ WriteSnapshot \/ RemoveTransaction \/ Rotate

Finish == Return \/ Initialize

\* What the program does, crashes included.
Step ==
  \/ \E o \in Operations : Begin(o)
  \/ Recovery \/ Commit \/ Finish \/ StageRestore \/ Interrupt

Next == Step \/ Damage \/ Upgrade

Spec == Init /\ [][Next]_vars

\* The program alone, on a disk that keeps what was written.
CrashSpec == Init /\ [][Step]_vars

\* The supervisor is restarted and loads its state for ever, and an operation
\* that is not cut goes on.
LiveSpec == CrashSpec /\ WF_vars(Recovery) /\ WF_vars(Commit) /\ WF_vars(Finish)
                      /\ WF_vars(Begin("load"))

-----------------------------------------------------------------------------
(* Properties. *)

Phases == {"idle", "recover", "restoreState", "dropMarker", "replayEvent",
           "replaySnapshot", "replayRemove", "settle", "repair", "repairAppend",
           "repairWrite", "repairRemove", "recovered", "append", "write",
           "remove", "rotate"} \cup Isolating

Files == [state : Snapshot \cup {None, Unreadable}, events : Seq(Event),
          torn : BOOLEAN, txn : Transaction \cup {None, Unreadable}]

\* Type invariant: what every file and every local of the store may hold.
TypeOK ==
  /\ state \in Snapshot \cup {None, Unreadable}
  /\ events \in Seq(Event)
  /\ torn \in BOOLEAN
  /\ txn \in Transaction \cup {None, Unreadable}
  /\ marker \in [state : Snapshot, events : Seq(Event)] \cup {None}
  /\ backups \in Seq(Files)
  /\ pc \in Phases /\ op \in Operations
  /\ interrupts \in Nat /\ damage \in Nat
  /\ committed \in Seq(Payloads) /\ confirmed \in Seq(Payloads)
  /\ evidence \in Files \cup {None}
  /\ cut \in BOOLEAN

\* recoverUnlocked hands every operation exactly the updates that were ever
\* prepared: none is lost to a crash or to a damaged file, none is applied
\* twice, and a damage that makes this impossible leaves the store blocked.
RecoveryIsExact ==
  pc = "recovered" /\ ~Blocked(Current) /\ ~cut => Current.value = committed

\* ReadStatusSnapshot takes state.json at face value when no transaction file
\* is there: what it then serves is the last committed update.
StatusReadsCommitted ==
  pc = "idle" /\ txn = None /\ marker = None /\ ~cut
  /\ state # None /\ state # Unreadable /\ ~Blocked(state)
    => state.value = committed

\* An append never lands behind an unfinished line, which it would spoil.
AppendsToWholeLines ==
  Appending => ~torn

\* The backup a blocked store names holds all the files as they were when the
\* fault was detected, until the operator restores them.
EvidenceKept ==
  state # None /\ state # Unreadable /\ Blocked(state) /\ ~cut /\ evidence # None
    => backups[state.backup] = evidence

\* docs/specification.md 6.8: the restore replaces the marker by a consistent
\* snapshot and event chain; the marker does not come back after it.
RestoreReplacesMarker ==
  state # None /\ state # Unreadable /\ Blocked(state) => evidence # None

\* docs/specification.md 12.3: inconsistent files are isolated, the reason is
\* saved in a new snapshot, and updates are refused until a manual recovery.
IsolationSurvivesCrash ==
  [][pc = "recovered" /\ pc' = "append" => evidence = None]_vars

\* A transaction that a crash left prepared is completed by a later load.
PreparedCompletes == txn # None ~> txn = None

\* What is durable: the prepared transaction wins over state.json.
StoredValue ==
  IF txn # None THEN txn.snapshot.value
  ELSE IF state # None THEN state.value ELSE <<>>

Log == INSTANCE DurableLog WITH value <- StoredValue

\* The three files, crashes included, are one atomic log of updates.
ImplementsDurableLog == Log!Spec
=============================================================================
