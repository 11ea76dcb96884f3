-------------------------- MODULE StateStoreProofs --------------------------
(***************************************************************************)
(* Proofs about StateStore for every set of payloads and every bound.      *)
(*                                                                         *)
(* On a disk that keeps what was written (CrashSpec), a crash between any  *)
(* two writes leaves the three files in one of four shapes, from which     *)
(* recoverUnlocked always reaches the committed snapshot and never         *)
(* isolates anything.  The shapes are the inductive invariant.             *)
(***************************************************************************)
EXTENDS StateStore, TLAPS, SequenceTheorems

-----------------------------------------------------------------------------
(* The event log. *)

\* Appending the event that follows the last one keeps the log contiguous.
LEMMA AppendKeepsContiguous ==
  ASSUME NEW log \in Seq(Event), NEW e \in Event,
         Contiguous(log), e.kind # "event_log_checkpoint",
         e.sequence = LastSequence(log) + 1
  PROVE  /\ Contiguous(Append(log, e))
         /\ LastSequence(Append(log, e)) = e.sequence
         /\ Append(log, e)[Len(Append(log, e))] = e
<1> DEFINE l == Append(log, e)
<1>1. /\ l \in Seq(Event) /\ Len(l) = Len(log) + 1 /\ Len(log) \in Nat
      /\ DOMAIN l = 1 .. Len(log) + 1 /\ DOMAIN log = 1 .. Len(log)
      /\ l[Len(log) + 1] = e
      /\ \A i \in 1 .. Len(log) : l[i] = log[i] /\ log[i] \in Event
  OBVIOUS
<1>2. LastSequence(l) = e.sequence /\ l[Len(l)] = e
  BY <1>1 DEF LastSequence
<1>3. Contiguous(l)
  <2>1. CASE log = <<>>
    BY <1>1, <2>1 DEF Contiguous, LastSequence
  <2>2. CASE log # <<>>
    <3>1. Len(log) >= 1 /\ LastSequence(log) = log[Len(log)].sequence
      BY <1>1, <2>2 DEF LastSequence
    <3>2. SUFFICES ASSUME NEW i \in 1 .. Len(log) + 1
                   PROVE \/ i = 1 /\ l[1].kind = "event_log_checkpoint" /\ l[1].sequence > 0
                         \/ i = 1 /\ l[1].kind # "event_log_checkpoint" /\ l[1].sequence = 1
                         \/ i > 1 /\ l[i].sequence = l[i-1].sequence + 1
      BY <1>1 DEF Contiguous
    <3>3. CASE i = Len(log) + 1
      BY <1>1, <3>1, <3>3
    <3>4. CASE i # Len(log) + 1
      BY <1>1, <3>1, <3>4 DEF Contiguous
    <3> QED BY <3>3, <3>4
  <2> QED BY <2>1, <2>2
<1> QED BY <1>2, <1>3

\* Appending a whole line keeps the log readable.
LEMMA AppendKeepsReadable ==
  ASSUME NEW log \in Seq(Event), NEW e \in Event, Readable(log), e.kind # "garbage"
  PROVE  /\ Append(log, e) \in Seq(Event) /\ Append(log, e) # <<>>
         /\ Readable(Append(log, e))
<1>1. /\ Append(log, e) \in Seq(Event) /\ Len(Append(log, e)) = Len(log) + 1
      /\ Len(log) \in Nat /\ DOMAIN log = 1 .. Len(log)
      /\ DOMAIN Append(log, e) = 1 .. Len(log) + 1
      /\ Append(log, e)[Len(log) + 1] = e
      /\ \A i \in 1 .. Len(log) : Append(log, e)[i] = log[i]
  OBVIOUS
<1>2. \A i \in 1 .. Len(log) + 1 : Append(log, e)[i].kind # "garbage"
  BY <1>1 DEF Readable
<1>3. Append(log, e) # <<>>
  BY <1>1
<1> QED BY <1>1, <1>2, <1>3 DEF Readable

\* A log whose last sequence is 0 is empty, since sequences are positive.
LEMMA EmptyLog ==
  ASSUME NEW log \in Seq(Event), LastSequence(log) = 0
  PROVE  log = <<>>
<1> SUFFICES ASSUME log # <<>> PROVE FALSE
  OBVIOUS
<1>1. Len(log) \in DOMAIN log /\ log[Len(log)] \in Event
  OBVIOUS
<1>2. log[Len(log)].sequence \in Nat \ {0}
  BY <1>1 DEF Event
<1> QED BY <1>2 DEF LastSequence

\* The log that retention leaves behind: one checkpoint.
LEMMA CheckpointLog ==
  ASSUME NEW e \in Event, e.kind = "event_log_checkpoint"
  PROVE  /\ <<e>> \in Seq(Event) /\ Contiguous(<<e>>) /\ Readable(<<e>>)
         /\ LastSequence(<<e>>) = e.sequence
BY DEF Contiguous, Readable, LastSequence, Event

-----------------------------------------------------------------------------
(* The inductive invariant of CrashSpec. *)

\* Without external damage a file is absent or holds what was written to it.
FilesOK ==
  /\ state \in Snapshot \cup {None}
  /\ state # None => state.backup = 0 /\ state.sound
  /\ events \in Seq(Event) /\ Contiguous(events) /\ Readable(events)
  /\ torn \in BOOLEAN
  /\ txn \in Transaction \cup {None}
  /\ marker = None
  /\ pc \in Phases /\ op \in Operations
  /\ committed \in Seq(Payloads) /\ confirmed \in Seq(Payloads)

\* No update is under way: log and snapshot agree.
Quiet ==
  /\ txn = None /\ ~torn
  /\ LastSequence(events) = Current.revision
  /\ committed = Current.value

\* A transaction is prepared for the update after the snapshot's.
Prepared ==
  /\ txn # None /\ ValidTransaction(txn)
  /\ txn.event.kind = "update"
  /\ txn.snapshot.backup = 0
  /\ committed = txn.snapshot.value

\* Its event is not in the log yet, nor its snapshot in state.json.
Unlogged ==
  /\ Prepared
  /\ txn.snapshot.revision = Current.revision + 1
  /\ LastSequence(events) = Current.revision

\* Its event is the last of the log, its snapshot not in state.json.
Logged ==
  /\ Prepared /\ ~torn
  /\ txn.snapshot.revision = Current.revision + 1
  /\ events # <<>> /\ events[Len(events)] = txn.event

\* Its event is the last of the log and its snapshot is in state.json.
Written ==
  /\ Prepared /\ ~torn
  /\ events # <<>> /\ events[Len(events)] = txn.event
  /\ state = txn.snapshot

\* Which shapes each phase of an operation may meet.
PhaseOK ==
  /\ pc \in {"idle", "recover"} => Quiet \/ Unlogged \/ Logged \/ Written
  /\ pc \in {"settle", "recovered", "rotate"} => Quiet
  /\ pc = "rotate" => state # None /\ state.revision > 0
  /\ pc = "replayEvent" => (Unlogged /\ ~torn) \/ Logged \/ Written
  /\ pc = "append" => Unlogged /\ ~torn
  /\ pc = "replaySnapshot" => Logged \/ Written
  /\ pc = "write" => Logged
  /\ pc \in {"replayRemove", "remove"} => Written
  /\ pc \notin {"repair", "repairAppend", "repairWrite", "repairRemove",
                 "restoreState", "dropMarker"} \cup Isolating

CrashInv == FilesOK /\ PhaseOK

-----------------------------------------------------------------------------
(* Every step keeps the invariant. *)

USE DEF Blocked

\* The log up to a prepared transaction's event, once that event is appended.
LEMMA AppendPrepared ==
  ASSUME FilesOK, Unlogged, ~torn
  PROVE  LET log == Appended(txn.event) IN
         /\ log \in Seq(Event) /\ Contiguous(log) /\ Readable(log)
         /\ log # <<>> /\ log[Len(log)] = txn.event
         /\ LastSequence(log) = txn.snapshot.revision
<1> DEFINE e == txn.event
           log == Append(events, e)
<1>1. e \in Event /\ events \in Seq(Event) /\ txn.snapshot \in Snapshot
  BY DEF FilesOK, Unlogged, Prepared, Transaction
<1>2. Appended(e) = log
  BY DEF Appended
<1>3. e.kind = "update" /\ e.sequence = txn.snapshot.revision
      /\ e.sequence = LastSequence(events) + 1
  BY DEF Unlogged, Prepared, ValidTransaction
<1>4. Contiguous(log) /\ LastSequence(log) = e.sequence /\ log[Len(log)] = e
  BY <1>1, <1>3, AppendKeepsContiguous DEF FilesOK
<1>5. log \in Seq(Event) /\ log # <<>> /\ Readable(log)
  BY <1>1, <1>3, AppendKeepsReadable DEF FilesOK
<1> QED BY <1>2, <1>3, <1>4, <1>5

\* The last event of a log that holds the transaction's is that one.
LEMMA LoggedSequence ==
  ASSUME FilesOK, Logged \/ Written
  PROVE  LastSequence(events) = txn.event.sequence
BY DEF Logged, Written, LastSequence

\* The snapshot that an update prepares.
LEMMA NextSnapshot ==
  ASSUME NEW c \in Snapshot, NEW p \in Payloads
  PROVE  LET n == [c EXCEPT !.revision = @ + 1, !.value = Append(@, p)] IN
         /\ n \in Snapshot /\ n.revision = c.revision + 1
         /\ n.value = Append(c.value, p) /\ n.value \in Seq(Payloads)
         /\ n.backup = c.backup /\ n.sound = c.sound
<1>1. /\ c.revision + 1 \in Nat /\ Append(c.value, p) \in Seq(Payloads)
      /\ c.backup \in Nat /\ c.sound \in BOOLEAN
  BY DEF Snapshot
<1>2. DOMAIN c = {"revision", "value", "backup", "sound"}
  BY DEF Snapshot
<1> QED BY <1>1, <1>2 DEF Snapshot

\* Once the transaction file is gone, what it held is the state.
LEMMA RemovedIsQuiet ==
  ASSUME FilesOK, Written, txn' = None, UNCHANGED <<state, events, torn, committed>>
  PROVE  Quiet'
<1>1. state = txn.snapshot /\ state # None
  BY NoneAssumption DEF Written, Prepared, FilesOK, Transaction
<1>2. LastSequence(events) = txn.snapshot.revision
  BY LoggedSequence DEF Written, Prepared, ValidTransaction
<1> QED BY <1>1, <1>2 DEF Quiet, Written, Prepared, Current, LastSequence

\* The snapshot an operation works on is a snapshot.
LEMMA CurrentType ==
  ASSUME FilesOK
  PROVE  /\ Current \in Snapshot /\ Current.backup = 0 /\ Current.sound
         /\ EmptySnapshot \in Snapshot
         /\ txn # None => txn \in Transaction /\ txn.snapshot \in Snapshot
                          /\ txn.event \in Event
<1>1. EmptySnapshot \in Snapshot /\ EmptySnapshot.backup = 0 /\ EmptySnapshot.sound
  BY DEF EmptySnapshot, Snapshot
<1> QED BY <1>1 DEF FilesOK, Current, Transaction

LEMMA InitCrashInv == Init => CrashInv
<1> SUFFICES ASSUME Init PROVE CrashInv
  OBVIOUS
<1>1. FilesOK
  <2>1. events = <<>> /\ committed = <<>> /\ confirmed = <<>>
    BY DEF Init
  <2>2. events \in Seq(Event) /\ committed \in Seq(Payloads) /\ confirmed \in Seq(Payloads)
    BY <2>1
  <2>3. Contiguous(events) /\ Readable(events)
    BY <2>1 DEF Contiguous, Readable
  <2> QED BY <2>2, <2>3 DEF Init, FilesOK, Phases, Operations
<1>2. Quiet
  BY DEF Init, Quiet, LastSequence, Current, EmptySnapshot
<1> QED BY <1>1, <1>2 DEF CrashInv, PhaseOK, Init, Isolating

\* Beginning and cutting an operation leave the shape of the files alone.
LEMMA BoundaryKeepsInv ==
  ASSUME CrashInv, (\E o \in Operations : Begin(o)) \/ Interrupt
  PROVE  CrashInv'
<1>1. CASE \E o \in Operations : Begin(o)
  <2>1. FilesOK' /\ UNCHANGED <<state, events, torn, txn, committed>>
        /\ pc = "idle" /\ pc' = "recover"
    BY <1>1 DEF CrashInv, FilesOK, Begin, disk, history, Phases
  <2>2. Current' = Current
    BY <2>1 DEF Current
  <2>3. (Quiet \/ Unlogged \/ Logged \/ Written)'
    BY <2>1, <2>2 DEF CrashInv, PhaseOK, Quiet, Unlogged, Logged, Written, Prepared
  <2> QED BY <2>1, <2>3 DEF CrashInv, PhaseOK, Isolating
<1>2. CASE Interrupt
  <2>1. FilesOK' /\ UNCHANGED <<state, events, txn, committed>> /\ pc' = "idle"
        /\ pc # "idle"
    BY <1>2 DEF CrashInv, FilesOK, Interrupt, Phases
  <2>2. Current' = Current
    BY <2>1 DEF Current
  <2>3. torn' = torn \/ Unlogged
    <3>1. CASE pc = "replayEvent" /\ torn' # torn
      <4>1. LastSequence(events) + 1 = txn.event.sequence
        BY <1>2, <3>1 DEF Interrupt, Appending
      <4>2. txn # None => txn.event.sequence \in Nat
        BY CurrentType DEF CrashInv, Event
      <4>3. ~(Logged \/ Written)
        BY <4>1, <4>2, LoggedSequence DEF CrashInv, Logged, Written, Prepared
      <4> QED BY <3>1, <4>3 DEF CrashInv, PhaseOK
    <3>2. CASE pc # "replayEvent" /\ torn' # torn
      BY <1>2, <3>2 DEF Interrupt, Appending, CrashInv, PhaseOK, Isolating
    <3> QED BY <3>1, <3>2
  <2>4. Quiet \/ Unlogged \/ Logged \/ Written
    BY <1>2 DEF Interrupt, CrashInv, PhaseOK, FilesOK, Phases, Isolating
  <2>5. (Quiet \/ Unlogged \/ Logged \/ Written)'
    <3>1. CASE torn' = torn
      BY <2>1, <2>2, <2>4, <3>1 DEF Quiet, Unlogged, Logged, Written, Prepared
    <3>2. CASE Unlogged
      BY <2>1, <2>2, <3>2 DEF Unlogged, Prepared
    <3> QED BY <2>3, <3>1, <3>2
  <2> QED BY <2>1, <2>5 DEF CrashInv, PhaseOK, Isolating
<1> QED BY <1>1, <1>2

\* Recovery replays what was prepared and never isolates anything.
LEMMA RecoveryKeepsInv ==
  ASSUME CrashInv, Recovery
  PROVE  CrashInv'
<1> USE DEF CrashInv
<1>1. pc \notin {"repair", "repairAppend", "repairWrite", "repairRemove",
                 "restoreState", "dropMarker"} \cup Isolating
  BY DEF PhaseOK
<1>2. ~CompleteEvents /\ ~CompleteState /\ ~DropMarker /\ ~Repair /\ ~RefuseRepair
      /\ ~IsolateEvents /\ ~IsolateTransaction /\ ~RecordBlocked /\ ~WriteBlocked
  BY <1>1 DEF CompleteEvents, CompleteState, DropMarker, Repair, RefuseRepair,
     IsolateEvents, IsolateTransaction, RecordBlocked, WriteBlocked, FilesOK, Isolating
<1>3. CASE RejectUnreadable \/ ReplayTruncate \/ NothingPrepared
  <2>1. pc = "recover" /\ (Quiet \/ Unlogged \/ Logged \/ Written)
    BY <1>3 DEF RejectUnreadable, ReplayTruncate, NothingPrepared, PhaseOK
  <2>2. ~ReadFailed
    BY <2>1, NoneAssumption DEF ReadFailed, FilesOK, Quiet, Unlogged, Logged, Written,
       Prepared
  <2>3. CASE ReplayTruncate
    <3>1. UNCHANGED <<state, events, txn, marker, op, committed, confirmed>>
          /\ torn' = FALSE /\ pc' = "replayEvent" /\ txn # None
      BY <2>3 DEF ReplayTruncate, history
    <3>2. Current' = Current
      BY <3>1 DEF Current
    <3>3. FilesOK'
      BY <3>1 DEF FilesOK, Phases
    <3>4. (Unlogged \/ Logged \/ Written)'
      BY <2>1, <3>1, <3>2 DEF Quiet, Unlogged, Logged, Written, Prepared
    <3> QED BY <3>1, <3>3, <3>4 DEF PhaseOK, Isolating
  <2>4. CASE NothingPrepared
    <3>1. UNCHANGED <<state, events, torn, txn, marker, op, committed, confirmed>>
          /\ pc' = "settle" /\ txn = None
      BY <2>4 DEF NothingPrepared, history, disk
    <3>2. Current' = Current
      BY <3>1 DEF Current
    <3>3. FilesOK'
      BY <3>1 DEF FilesOK, Phases
    <3>4. Quiet'
      BY <2>1, <3>1, <3>2 DEF Quiet, Unlogged, Logged, Written, Prepared
    <3> QED BY <3>1, <3>3, <3>4 DEF PhaseOK, Isolating
  <2> QED BY <1>3, <2>2, <2>3, <2>4 DEF RejectUnreadable
<1>4. CASE ReplayEvent \/ RejectReplayEvent
  <2>1. pc = "replayEvent" /\ ((Unlogged /\ ~torn) \/ Logged \/ Written)
    BY <1>4 DEF ReplayEvent, RejectReplayEvent, PhaseOK
  <2>2. /\ txn \in Transaction /\ txn.event.sequence \in Nat
        /\ Current.revision \in Nat
    BY <2>1, CurrentType DEF Event, Unlogged, Logged, Written, Prepared, Snapshot
  <2>3. Unlogged => LastSequence(events) + 1 = txn.event.sequence
    BY DEF Unlogged, Prepared, ValidTransaction
  <2>4. Logged \/ Written => LastSequence(events) = txn.event.sequence
                             /\ events[Len(events)] = txn.event
    BY LoggedSequence DEF Logged, Written
  <2>5. ~RejectReplayEvent
    BY <2>1, <2>2, <2>3, <2>4 DEF RejectReplayEvent
  <2>6. /\ UNCHANGED <<state, torn, txn, marker, op, committed, confirmed>>
        /\ pc' = "replaySnapshot"
        /\ \/ events' = events /\ LastSequence(events) = txn.event.sequence
           \/ /\ events' = Appended(txn.event)
              /\ LastSequence(events) + 1 = txn.event.sequence
    BY <1>4, <2>5 DEF ReplayEvent, history
  <2>7. Current' = Current
    BY <2>6 DEF Current
  <2>8. CASE events' = events /\ LastSequence(events) = txn.event.sequence
    <3>1. Logged \/ Written
      BY <2>1, <2>2, <2>3, <2>8
    <3>2. (Logged \/ Written)'
      BY <2>6, <2>7, <2>8, <3>1 DEF Logged, Written, Prepared
    <3>3. FilesOK'
      BY <2>6, <2>8 DEF FilesOK, Phases
    <3> QED BY <2>6, <3>2, <3>3 DEF PhaseOK, Isolating
  <2>9. CASE events' = Appended(txn.event) /\ LastSequence(events) + 1 = txn.event.sequence
    <3>1. Unlogged /\ ~torn
      BY <2>1, <2>2, <2>4, <2>9
    <3>2. /\ events' \in Seq(Event) /\ Contiguous(events') /\ Readable(events')
          /\ events' # <<>> /\ events'[Len(events')] = txn.event
      BY <2>9, <3>1, AppendPrepared
    <3>3. FilesOK'
      BY <2>6, <3>2 DEF FilesOK, Phases, Contiguous, Readable
    <3>4. Logged'
      BY <2>6, <2>7, <3>1, <3>2 DEF Logged, Unlogged, Prepared
    <3> QED BY <2>6, <3>3, <3>4 DEF PhaseOK, Isolating
  <2> QED BY <1>4, <2>5, <2>6, <2>8, <2>9
<1>5. CASE ReplaySnapshot \/ RejectReplaySnapshot
  <2>1. pc = "replaySnapshot" /\ (Logged \/ Written)
    BY <1>5 DEF ReplaySnapshot, RejectReplaySnapshot, PhaseOK
  <2>2. /\ txn \in Transaction /\ txn.snapshot \in Snapshot
        /\ txn.snapshot.revision \in Nat /\ Current.revision \in Nat
        /\ txn.snapshot.backup = 0 /\ txn.snapshot.sound
    BY <2>1, CurrentType DEF Logged, Written, Prepared, Snapshot, ValidTransaction
  <2>3. ~RejectReplaySnapshot
    BY <2>1, <2>2 DEF RejectReplaySnapshot, Logged, Written, Current
  <2>4. /\ UNCHANGED <<events, torn, txn, marker, op, committed, confirmed>>
        /\ pc' = "replayRemove" /\ state' = txn.snapshot
    BY <1>5, <2>3 DEF ReplaySnapshot, history
  <2>5. FilesOK'
    BY <2>2, <2>4 DEF FilesOK, Phases
  <2>6. Written'
    BY <2>1, <2>4 DEF Logged, Written, Prepared
  <2> QED BY <2>4, <2>5, <2>6 DEF PhaseOK, Isolating
<1>6. CASE ReplayRemove
  <2>1. /\ UNCHANGED <<state, events, torn, marker, op, committed, confirmed>>
        /\ pc' = "settle" /\ txn' = None /\ Written
    BY <1>6 DEF ReplayRemove, history, PhaseOK
  <2>2. FilesOK'
    BY <2>1 DEF FilesOK, Phases
  <2>3. Quiet'
    BY <2>1, RemovedIsQuiet
  <2> QED BY <2>1, <2>2, <2>3 DEF PhaseOK, Isolating
<1>7. CASE Settle \/ SettleTail \/ RejectSettle
  <2>1. pc = "settle" /\ Quiet
    BY <1>7 DEF Settle, SettleTail, RejectSettle, PhaseOK
  <2>2. ~SettleTail
    BY <2>1 DEF SettleTail, Quiet
  <2>3. ~RejectSettle
    <3>1. CASE state = None
      BY <2>1, <3>1, EmptyLog DEF RejectSettle, Quiet, Current, EmptySnapshot, FilesOK
    <3>2. CASE state # None
      BY <2>1, <3>2 DEF RejectSettle, Quiet, Current, FilesOK, Consistent,
         ValidEventSequence
    <3> QED BY <3>1, <3>2
  <2>4. UNCHANGED <<state, events, torn, txn, marker, op, committed, confirmed>>
        /\ pc' = "recovered"
    BY <1>7, <2>2, <2>3 DEF Settle, history, disk
  <2>5. FilesOK' /\ Quiet'
    BY <2>1, <2>4 DEF FilesOK, Phases, Quiet, Current
  <2> QED BY <2>4, <2>5 DEF PhaseOK, Isolating
<1> QED BY <1>2, <1>3, <1>4, <1>5, <1>6, <1>7 DEF Recovery

\* Committing an update walks through the shapes in order.
LEMMA CommitKeepsInv ==
  ASSUME CrashInv, Commit
  PROVE  CrashInv'
<1> USE DEF CrashInv
<1>1. ASSUME NEW p \in Payloads, Prepare(p) PROVE CrashInv'
  <2> DEFINE next == [Current EXCEPT !.revision = @ + 1, !.value = Append(@, p)]
             e == [sequence |-> next.revision, kind |-> "update", payload |-> <<p>>]
  <2>1. /\ UNCHANGED <<state, events, torn, marker, op, confirmed>>
        /\ pc' = "append" /\ pc = "recovered" /\ Quiet
        /\ txn' = [snapshot |-> next, event |-> e] /\ committed' = next.value
    BY <1>1 DEF Prepare, PhaseOK
  <2>2. /\ Current.revision \in Nat /\ Current.value \in Seq(Payloads)
        /\ Current \in Snapshot /\ Current.backup = 0 /\ Current.sound
    BY CurrentType DEF Snapshot
  <2>3. /\ next \in Snapshot /\ next.revision = Current.revision + 1
        /\ next.value \in Seq(Payloads) /\ next.backup = 0 /\ next.sound
    BY <2>2, NextSnapshot
  <2>4. e \in Event /\ e.sequence = next.revision /\ e.kind = "update"
    <3>1. <<p>> \in Seq(Payloads)
      OBVIOUS
    <3> QED BY <2>2, <2>3, <3>1 DEF Event, EventKinds
  <2>5. /\ txn' \in Transaction /\ txn'.snapshot = next /\ txn'.event = e
    BY <2>1, <2>3, <2>4 DEF Transaction
  <2>6. Current' = Current /\ txn' # None
    BY <2>1, <2>5, NoneAssumption DEF Current
  <2>7. FilesOK'
    BY <2>1, <2>3, <2>5 DEF FilesOK, Phases
  <2>8. Unlogged' /\ ~torn'
    <3>1. next.revision > 0
      BY <2>2, <2>3
    <3> HIDE DEF next, e
    <3>2. Prepared'
      BY <2>1, <2>3, <2>4, <2>5, <2>6, <3>1 DEF Prepared, ValidTransaction
    <3>3. LastSequence(events') = Current'.revision /\ ~torn'
      BY <2>1, <2>6 DEF Quiet, LastSequence
    <3> QED BY <2>3, <2>5, <2>6, <3>2, <3>3 DEF Unlogged
  <2> QED BY <2>1, <2>7, <2>8 DEF PhaseOK, Isolating
<1>2. CASE Refuse
  <2>1. UNCHANGED <<state, events, torn, txn, marker, op, committed, confirmed>>
        /\ pc' = "idle" /\ Quiet
    BY <1>2 DEF Refuse, disk, history, PhaseOK
  <2>2. FilesOK' /\ Quiet'
    BY <2>1 DEF FilesOK, Phases, Quiet, Current
  <2> QED BY <2>1, <2>2 DEF PhaseOK, Isolating
<1>3. CASE AppendEvent
  <2>1. /\ UNCHANGED <<state, torn, txn, marker, op, committed, confirmed>>
        /\ pc' = "write" /\ events' = Appended(txn.event) /\ Unlogged /\ ~torn
    BY <1>3 DEF AppendEvent, history, PhaseOK
  <2>2. /\ events' \in Seq(Event) /\ Contiguous(events') /\ Readable(events')
        /\ events' # <<>> /\ events'[Len(events')] = txn.event
    BY <2>1, AppendPrepared
  <2>3. FilesOK'
    BY <2>1, <2>2 DEF FilesOK, Phases, Contiguous, Readable
  <2>4. Logged'
    BY <2>1, <2>2 DEF Logged, Unlogged, Prepared, Current
  <2> QED BY <2>1, <2>3, <2>4 DEF PhaseOK, Isolating
<1>4. CASE WriteSnapshot
  <2>1. /\ UNCHANGED <<events, torn, txn, marker, op, committed, confirmed>>
        /\ pc' = "remove" /\ state' = txn.snapshot /\ Logged
    BY <1>4 DEF WriteSnapshot, history, PhaseOK
  <2>2. txn.snapshot \in Snapshot /\ txn.snapshot.backup = 0 /\ txn.snapshot.sound
    BY <2>1, CurrentType DEF Logged, Prepared, ValidTransaction
  <2>3. FilesOK'
    BY <2>1, <2>2 DEF FilesOK, Phases
  <2>4. Written'
    BY <2>1 DEF Logged, Written, Prepared
  <2> QED BY <2>1, <2>3, <2>4 DEF PhaseOK, Isolating
<1>5. CASE RemoveTransaction
  <2>1. /\ UNCHANGED <<state, events, torn, marker, op, committed, confirmed>>
        /\ pc' = "rotate" /\ txn' = None /\ Written
    BY <1>5 DEF RemoveTransaction, history, PhaseOK
  <2>2. FilesOK'
    BY <2>1 DEF FilesOK, Phases
  <2>3. Quiet'
    BY <2>1, RemovedIsQuiet
  <2>4. state = txn.snapshot /\ state # None /\ state.revision > 0
    BY <2>1, NoneAssumption DEF Written, Prepared, FilesOK, Transaction,
       ValidTransaction
  <2> QED BY <2>1, <2>2, <2>3, <2>4 DEF PhaseOK, Isolating
<1>6. CASE Rotate
  <2> DEFINE c == [sequence |-> state.revision, kind |-> "event_log_checkpoint",
                   payload |-> <<>>]
  <2>1. /\ UNCHANGED <<state, torn, txn, marker, op, committed>>
        /\ pc' = "idle" /\ confirmed' = state.value
        /\ events' = events \/ events' = <<c>>
        /\ Quiet /\ state # None /\ state.revision > 0
    BY <1>6 DEF Rotate, PhaseOK
  <2>2. state \in Snapshot /\ state.revision \in Nat \ {0} /\ state.value \in Seq(Payloads)
    BY <2>1 DEF FilesOK, Snapshot
  <2>3. c \in Event /\ c.sequence = state.revision
    <3>1. <<>> \in Seq(Payloads)
      OBVIOUS
    <3> QED BY <2>2, <3>1 DEF Event, EventKinds
  <2>4. /\ events' \in Seq(Event) /\ Contiguous(events') /\ Readable(events')
        /\ LastSequence(events') = state.revision
    <3>1. CASE events' = events
      BY <2>1, <3>1 DEF FilesOK, Quiet, Current
    <3>2. CASE events' = <<c>>
      BY <2>3, <3>2, CheckpointLog
    <3> QED BY <2>1, <3>1, <3>2
  <2>5. FilesOK'
    BY <2>1, <2>2, <2>4 DEF FilesOK, Phases, Contiguous, Readable
  <2>6. Quiet'
    BY <2>1, <2>4 DEF Quiet, Current, LastSequence
  <2> QED BY <2>1, <2>5, <2>6 DEF PhaseOK, Isolating
<1> QED BY <1>1, <1>2, <1>3, <1>4, <1>5, <1>6 DEF Commit

\* The other operations only read, or write the snapshot that is implied.
LEMMA FinishKeepsInv ==
  ASSUME CrashInv, Finish \/ StageRestore
  PROVE  CrashInv'
<1> USE DEF CrashInv
<1>1. CASE Return
  <2>1. UNCHANGED <<state, events, torn, txn, marker, op, committed, confirmed>>
        /\ pc' = "idle" /\ Quiet
    BY <1>1 DEF Return, disk, history, PhaseOK
  <2>2. FilesOK' /\ Quiet'
    BY <2>1 DEF FilesOK, Phases, Quiet, Current
  <2> QED BY <2>1, <2>2 DEF PhaseOK, Isolating
<1>2. CASE Initialize
  <2>1. UNCHANGED <<events, torn, txn, marker, op, committed, confirmed>>
        /\ pc' = "idle" /\ Quiet /\ state' = Current
    BY <1>2 DEF Initialize, history, PhaseOK
  <2>2. Current \in Snapshot /\ Current.backup = 0 /\ Current.sound
    BY CurrentType
  <2>3. FilesOK'
    BY <2>1, <2>2 DEF FilesOK, Phases
  <2>4. Current' = Current
    BY <2>1, <2>2, NoneAssumption DEF Current
  <2>5. Quiet'
    BY <2>1, <2>4 DEF Quiet
  <2> QED BY <2>1, <2>3, <2>5 DEF PhaseOK, Isolating
<1>3. ~StageRestore
  BY DEF StageRestore, FilesOK
<1> QED BY <1>1, <1>2, <1>3 DEF Finish

LEMMA StepKeepsInv == CrashInv /\ [Step]_vars => CrashInv'
<1> SUFFICES ASSUME CrashInv, [Step]_vars PROVE CrashInv'
  OBVIOUS
<1>1. CASE Step
  BY <1>1, BoundaryKeepsInv, RecoveryKeepsInv, CommitKeepsInv, FinishKeepsInv DEF Step
<1>2. CASE UNCHANGED vars
  BY <1>2 DEF vars, disk, history, CrashInv, FilesOK, PhaseOK, Quiet, Unlogged,
     Logged, Written, Prepared, Current, Isolating
<1> QED BY <1>1, <1>2

\* A crash between any two writes of an update or of a recovery leaves the
\* files in one of the four shapes (Store.Update, recoverUnlocked).
THEOREM CrashInvariant == CrashSpec => []CrashInv
<1>1. Init => CrashInv
  BY InitCrashInv
<1>2. CrashInv /\ [Step]_vars => CrashInv'
  BY StepKeepsInv
<1> QED BY <1>1, <1>2, PTL DEF CrashSpec

-----------------------------------------------------------------------------
(* What follows from the invariant. *)

\* An interrupted update is neither lost nor applied twice: what recoverUnlocked
\* hands to an operation is every update ever prepared, in order.
THEOREM ExactRecovery == CrashSpec => []RecoveryIsExact
<1>1. CrashInv => RecoveryIsExact
  BY DEF CrashInv, PhaseOK, Quiet, RecoveryIsExact
<1> QED BY <1>1, CrashInvariant, PTL

\* ReadStatusSnapshot, which repairs nothing, serves the last committed update
\* whenever it finds no transaction file.
THEOREM ExactStatus == CrashSpec => []StatusReadsCommitted
<1>1. CrashInv => StatusReadsCommitted
  BY DEF CrashInv, PhaseOK, Quiet, StatusReadsCommitted, Current, Unlogged, Logged,
     Written, Prepared
<1> QED BY <1>1, CrashInvariant, PTL

\* No event is ever appended behind the remains of an interrupted append.
THEOREM WholeLines == CrashSpec => []AppendsToWholeLines
<1>1. CrashInv => AppendsToWholeLines
  <2> SUFFICES ASSUME CrashInv, Appending PROVE ~torn
    BY DEF AppendsToWholeLines
  <2>1. CASE pc = "replayEvent"
    BY <2>1 DEF CrashInv, PhaseOK, Logged, Written
  <2>2. CASE pc # "replayEvent"
    BY <2>2 DEF CrashInv, PhaseOK, Appending, Isolating
  <2> QED BY <2>1, <2>2
<1> QED BY <1>1, CrashInvariant, PTL

-----------------------------------------------------------------------------
(* The store implements one atomic log of updates. *)

\* Whatever the shape of the files, they hold the updates prepared so far.
LEMMA StoredIsCommitted ==
  ASSUME CrashInv
  PROVE  StoredValue = committed
<1>1. CASE Quiet
  BY <1>1 DEF Quiet, StoredValue, Current, EmptySnapshot
<1>2. CASE Prepared
  BY <1>2 DEF Prepared, StoredValue
<1>3. Quiet \/ Prepared
  BY DEF CrashInv, FilesOK, PhaseOK, Phases, Isolating, Unlogged, Logged, Written
<1> QED BY <1>1, <1>2, <1>3

\* The three files implement an atomic, durable log: an update takes effect when
\* its transaction is written, and what a caller is told of is there to stay.
THEOREM StoreImplementsLog == CrashSpec => ImplementsDurableLog
<1>1. Init => Log!Init
  BY DEF Init, Log!Init, StoredValue
<1>2. CrashInv /\ CrashInv' /\ [Step]_vars => [Log!Next]_(Log!vars)
  <2> SUFFICES ASSUME CrashInv, CrashInv', [Step]_vars
               PROVE  [Log!Next]_(Log!vars)
    OBVIOUS
  <2>1. StoredValue = committed /\ StoredValue' = committed'
    <3>1. StoredValue = committed
      BY StoredIsCommitted
    <3>2. (StoredValue = committed)'
      BY StoredIsCommitted, PTL
    <3> QED BY <3>1, <3>2
  <2>2. CASE UNCHANGED <<committed, confirmed>>
    BY <2>1, <2>2 DEF Log!vars
  <2>3. ASSUME NEW p \in Payloads, Prepare(p) PROVE Log!Next
    <3>1. committed' = Append(committed, p) /\ UNCHANGED confirmed
      <4> DEFINE next == [Current EXCEPT !.revision = @ + 1, !.value = Append(@, p)]
      <4>1. committed' = next.value /\ UNCHANGED confirmed /\ committed = Current.value
        BY <2>3 DEF Prepare, CrashInv, PhaseOK, Quiet
      <4>2. Current \in Snapshot
        BY CurrentType DEF CrashInv
      <4>3. next.value = Append(Current.value, p)
        BY <4>2, NextSnapshot
      <4> QED BY <4>1, <4>3
    <3> QED BY <2>1, <3>1 DEF Log!Next, Log!Commit
  <2>4. CASE Rotate
    <3>1. confirmed' = committed /\ UNCHANGED committed
      BY <2>4 DEF Rotate, CrashInv, PhaseOK, Quiet, Current
    <3> QED BY <2>1, <3>1 DEF Log!Next, Log!Confirm
  <2>5. UNCHANGED <<committed, confirmed>> \/ (\E p \in Payloads : Prepare(p)) \/ Rotate
    BY DEF Step, Recovery, Commit, Finish, history, vars, Begin, Interrupt,
       StageRestore, CompleteEvents, CompleteState, DropMarker, RejectUnreadable,
       ReplayTruncate, ReplayEvent, RejectReplayEvent, ReplaySnapshot,
       RejectReplaySnapshot, ReplayRemove, NothingPrepared, Settle, SettleTail,
       RejectSettle, Repair, RefuseRepair, IsolateEvents, IsolateTransaction,
       RecordBlocked, WriteBlocked, Isolate, Refuse, AppendEvent, WriteSnapshot,
       RemoveTransaction, Return, Initialize
  <2> QED BY <2>2, <2>3, <2>4, <2>5
<1> QED BY <1>1, <1>2, CrashInvariant, PTL DEF CrashSpec, ImplementsDurableLog, Log!Spec

-----------------------------------------------------------------------------
(***************************************************************************)
(* The type invariant, with files damaged from outside and releases        *)
(* upgraded (Spec).                                                        *)
(*                                                                         *)
(* A file may hold anything a damage leaves, so the invariant says what an *)
(* operation has made sure of by the time it reaches each of its phases,   *)
(* and that a snapshot never names a backup that is not there.             *)
(***************************************************************************)

\* A snapshot names a backup that exists, if any.
Refers(s) == s.backup <= Len(backups)

\* Every snapshot on disk does.
BackupsOK ==
  /\ state \in Snapshot => Refers(state)
  /\ txn \in Transaction => Refers(txn.snapshot)
  /\ marker # None => Refers(marker.state)
  /\ \A n \in DOMAIN backups : backups[n].state \in Snapshot => Refers(backups[n].state)

\* What an operation has made sure of when it reaches a phase.
KnownOK ==
  /\ pc \notin {"idle", "recover", "restoreState"} => state # Unreadable
  /\ pc \in {"replayEvent", "replaySnapshot", "replayRemove", "append", "write",
             "remove", "repairAppend", "repairWrite", "repairRemove"} => txn \in Transaction
  /\ pc \in {"append", "write"} => txn.snapshot.revision > 0
  /\ pc \in {"repair", "remove", "rotate"} => state # None
  /\ pc \in {"remove", "rotate"} => state.revision > 0
  /\ pc \in {"restoreState", "dropMarker"} => marker # None
  /\ pc \in Isolating => Len(backups) > 0

TypeInv == TypeOK /\ BackupsOK /\ KnownOK

-----------------------------------------------------------------------------
(* What the operators of the store return. *)

\* The values that stand for files are told apart from the absent and the
\* unreadable file.
LEMMA FileValues ==
  /\ None \notin Snapshot /\ Unreadable \notin Snapshot
  /\ None \notin Transaction /\ Unreadable \notin Transaction
  /\ None # Unreadable
  /\ EmptySnapshot \in Snapshot /\ EmptySnapshot.backup = 0
BY NoneAssumption DEF EmptySnapshot, Snapshot

\* A snapshot carried one revision further.
LEMMA Successor ==
  ASSUME NEW s \in Snapshot, NEW v \in Seq(Payloads)
  PROVE  /\ LET n == [s EXCEPT !.revision = @ + 1] IN
            n \in Snapshot /\ n.revision = s.revision + 1 /\ n.backup = s.backup
         /\ LET n == [s EXCEPT !.revision = @ + 1, !.value = v] IN
            /\ n \in Snapshot /\ n.revision = s.revision + 1 /\ n.backup = s.backup
            /\ n.value = v
         /\ LET n == [s EXCEPT !.revision = @ + 1, !.sound = TRUE] IN
            n \in Snapshot /\ n.revision = s.revision + 1 /\ n.backup = s.backup
<1>1. /\ s.revision + 1 \in Nat /\ s.value \in Seq(Payloads)
      /\ s.backup \in Nat /\ s.sound \in BOOLEAN
      /\ DOMAIN s = {"revision", "value", "backup", "sound"}
  BY DEF Snapshot
<1>2. LET n == [s EXCEPT !.revision = @ + 1] IN
      n \in Snapshot /\ n.revision = s.revision + 1 /\ n.backup = s.backup
  BY <1>1 DEF Snapshot
<1>3. LET n == [s EXCEPT !.revision = @ + 1, !.value = v] IN
      /\ n \in Snapshot /\ n.revision = s.revision + 1 /\ n.backup = s.backup
      /\ n.value = v
  BY <1>1 DEF Snapshot
<1>4. LET n == [s EXCEPT !.revision = @ + 1, !.sound = TRUE] IN
      n \in Snapshot /\ n.revision = s.revision + 1 /\ n.backup = s.backup
  BY <1>1 DEF Snapshot
<1> QED BY <1>2, <1>3, <1>4

\* Appending keeps the log a sequence of events.
LEMMA AppendedType ==
  ASSUME events \in Seq(Event), NEW e \in Event
  PROVE  Appended(e) \in Seq(Event)
<1>1. [e EXCEPT !.kind = "garbage"] \in Event
  BY DEF Event, EventKinds
<1> QED BY <1>1 DEF Appended

\* A step that leaves the files alone leaves the types of all of them alone.
LEMMA UntouchedFiles ==
  ASSUME TypeInv, UNCHANGED disk
  PROVE  BackupsOK'
BY DEF TypeInv, BackupsOK, Refers, disk

LEMMA InitTypeInv == Init => TypeInv
<1> SUFFICES ASSUME Init PROVE TypeInv
  OBVIOUS
<1>1. <<>> \in Seq(Event) /\ <<>> \in Seq(Files) /\ <<>> \in Seq(Payloads)
  OBVIOUS
<1>2. TypeOK
  BY <1>1 DEF Init, TypeOK, Phases, Operations
<1>3. BackupsOK
  BY FileValues DEF Init, BackupsOK
<1>4. KnownOK
  BY FileValues DEF Init, KnownOK, Isolating
<1> QED BY <1>2, <1>3, <1>4 DEF TypeInv

\* The first step of an isolation, from whatever phase finds the fault.
LEMMA IsolateType ==
  ASSUME TypeInv, Isolate
  PROVE  TypeInv'
<1> DEFINE b == [state |-> state, events |-> <<>>, torn |-> FALSE, txn |-> None]
<1>1. b \in Files /\ backups \in Seq(Files)
  <2>1. <<>> \in Seq(Event)
    OBVIOUS
  <2> QED BY <2>1 DEF TypeInv, TypeOK, Files
<1>2. /\ backups' = Append(backups, b) /\ backups' \in Seq(Files)
      /\ Len(backups') = Len(backups) + 1
      /\ \A n \in DOMAIN backups' : IF n = Len(backups) + 1 THEN backups'[n] = b
                                    ELSE n \in DOMAIN backups /\ backups'[n] = backups[n]
  BY <1>1 DEF Isolate
<1>3. Len(backups) \in Nat
  BY <1>1
<1>4. TypeOK'
  BY <1>2 DEF Isolate, TypeInv, TypeOK, Files, Phases, Isolating
<1>5. BackupsOK'
  <2>1. ASSUME NEW s, s \in Snapshot, s.backup <= Len(backups)
        PROVE  s.backup <= Len(backups')
    BY <1>2, <1>3, <2>1 DEF Snapshot
  <2>2. state' \notin Snapshot
    BY FileValues DEF Isolate
  <2>3. txn \in Transaction => txn.snapshot \in Snapshot
    BY DEF Transaction
  <2>4. marker # None => marker.state \in Snapshot
    BY DEF TypeInv, TypeOK
  <2>5. ASSUME NEW n \in DOMAIN backups', backups'[n].state \in Snapshot
        PROVE  backups'[n].state.backup <= Len(backups')
    <3>1. CASE n = Len(backups) + 1
      BY <1>2, <2>1, <2>5, <3>1 DEF TypeInv, BackupsOK, Refers
    <3>2. CASE n # Len(backups) + 1
      BY <1>2, <2>1, <2>5, <3>2 DEF TypeInv, BackupsOK, Refers
    <3> QED BY <3>1, <3>2
  <2> QED BY <2>1, <2>2, <2>3, <2>4, <2>5 DEF TypeInv, BackupsOK, Refers, Isolate
<1>6. KnownOK'
  BY <1>2, <1>3, FileValues DEF Isolate, KnownOK, Isolating
<1> QED BY <1>4, <1>5, <1>6 DEF TypeInv

-----------------------------------------------------------------------------
(* Every step keeps the invariant. *)

\* An operation begins, is cut, or ends without a write.
LEMMA BoundaryType ==
  ASSUME TypeInv,
         \/ \E o \in Operations : Begin(o)
         \/ Interrupt \/ Refuse \/ Return \/ RefuseRepair
  PROVE  TypeInv'
<1>1. TypeOK'
  <2>1. CASE \E o \in Operations : Begin(o)
    BY <2>1 DEF Begin, disk, history, TypeInv, TypeOK, Phases
  <2>2. CASE Interrupt
    <3>1. torn' \in BOOLEAN
      BY <2>2 DEF Interrupt, TypeInv, TypeOK
    <3>2. cut' \in BOOLEAN
      BY <2>2, Zenon DEF Interrupt
    <3> QED BY <2>2, <3>1, <3>2 DEF Interrupt, TypeInv, TypeOK, Phases
  <2>3. CASE Refuse \/ Return \/ RefuseRepair
    BY <2>3 DEF Refuse, Return, RefuseRepair, disk, history, TypeInv, TypeOK, Phases
  <2> QED BY <2>1, <2>2, <2>3
<1>2. BackupsOK'
  BY DEF Begin, Interrupt, Refuse, Return, RefuseRepair, disk, TypeInv, BackupsOK, Refers
<1>3. KnownOK'
  BY DEF Begin, Interrupt, Refuse, Return, RefuseRepair, KnownOK, Isolating
<1> QED BY <1>1, <1>2, <1>3 DEF TypeInv

\* The manual restore, from its marker to its end.
LEMMA RestoreType ==
  ASSUME TypeInv, StageRestore \/ CompleteEvents \/ CompleteState \/ DropMarker
  PROVE  TypeInv'
<1>1. CASE StageRestore
  <2> DEFINE b == backups[state.backup]
             next == [b.state EXCEPT !.revision = @ + 1, !.sound = TRUE]
             e == [sequence |-> next.revision, kind |-> "quarantine_recovered",
                   payload |-> <<>>]
  <2>1. state \in Snapshot /\ state.backup \in DOMAIN backups
    BY <1>1 DEF StageRestore, TypeInv, TypeOK, BackupsOK, Refers, Snapshot, Blocked
  <2>2. b \in Files /\ b.state \in Snapshot
    <3>1. b \in Files
      BY <2>1 DEF TypeInv, TypeOK
    <3>2. b.state # None /\ b.state # Unreadable
      BY <1>1 DEF StageRestore, Restorable
    <3> QED BY <3>1, <3>2 DEF Files
  <2>3. /\ next \in Snapshot /\ next.revision = b.state.revision + 1
        /\ next.backup = b.state.backup
    <3>1. <<>> \in Seq(Payloads)
      OBVIOUS
    <3> QED BY <2>2, <3>1, Successor
  <2>4. e \in Event
    BY <2>2, <2>3 DEF Event, EventKinds, Snapshot
  <2>5. marker' = [state |-> next, events |-> Append(b.events, e)]
    BY <1>1 DEF StageRestore
  <2>6. marker' \in [state : Snapshot, events : Seq(Event)]
    BY <2>2, <2>3, <2>4, <2>5 DEF Files
  <2>7. TypeOK'
    BY <1>1, <2>6 DEF StageRestore, TypeInv, TypeOK, history, Phases, Operations
  <2>8. BackupsOK'
    <3>1. marker'.state.backup <= Len(backups)
      BY <2>1, <2>2, <2>3, <2>5 DEF TypeInv, BackupsOK, Refers
    <3> QED BY <1>1, <3>1 DEF StageRestore, TypeInv, BackupsOK, Refers
  <2>9. KnownOK'
    BY <1>1 DEF StageRestore, KnownOK, Isolating
  <2> QED BY <2>7, <2>8, <2>9 DEF TypeInv
<1>2. CASE CompleteEvents
  <2>1. TypeOK'
    BY <1>2 DEF CompleteEvents, TypeInv, TypeOK, history, Phases
  <2>2. BackupsOK'
    BY <1>2 DEF CompleteEvents, TypeInv, BackupsOK, Refers
  <2>3. KnownOK'
    BY <1>2 DEF CompleteEvents, KnownOK, Isolating
  <2> QED BY <2>1, <2>2, <2>3 DEF TypeInv
<1>3. CASE CompleteState
  <2>1. marker # None /\ marker.state \in Snapshot
    BY <1>3 DEF CompleteState, TypeInv, TypeOK, KnownOK
  <2>2. TypeOK'
    BY <1>3, <2>1 DEF CompleteState, TypeInv, TypeOK, history, Phases
  <2>3. BackupsOK'
    BY <1>3, <2>1 DEF CompleteState, TypeInv, BackupsOK, Refers
  <2>4. KnownOK'
    BY <1>3, <2>1, FileValues DEF CompleteState, KnownOK, Isolating
  <2> QED BY <2>2, <2>3, <2>4 DEF TypeInv
<1>4. CASE DropMarker
  <2>1. TypeOK'
    BY <1>4 DEF DropMarker, TypeInv, TypeOK, Phases
  <2>2. BackupsOK'
    BY <1>4 DEF DropMarker, TypeInv, BackupsOK, Refers
  <2>3. KnownOK'
    BY <1>4 DEF DropMarker, KnownOK, Isolating
  <2> QED BY <2>1, <2>2, <2>3 DEF TypeInv
<1> QED BY <1>1, <1>2, <1>3, <1>4

\* The isolation goes on.
LEMMA IsolatingType ==
  ASSUME TypeInv, IsolateEvents \/ IsolateTransaction \/ RecordBlocked \/ WriteBlocked
  PROVE  TypeInv'
<1>1. Len(backups) \in Nat \ {0} /\ Backup \in DOMAIN backups
      /\ backups[Backup] \in Files /\ backups \in Seq(Files)
  BY DEF IsolateEvents, IsolateTransaction, RecordBlocked, WriteBlocked, TypeInv, TypeOK,
     KnownOK, Isolating, Backup
<1>2. CASE IsolateEvents
  <2> DEFINE b == [backups[Backup] EXCEPT !.events = events, !.torn = torn]
  <2>1. b \in Files /\ b.state = backups[Backup].state
    BY <1>1 DEF TypeInv, TypeOK, Files
  <2>2. backups' = [backups EXCEPT ![Backup] = b]
    BY <1>1, <1>2 DEF IsolateEvents
  <2>3. /\ backups' \in Seq(Files) /\ Len(backups') = Len(backups)
        /\ DOMAIN backups' = DOMAIN backups
        /\ \A n \in DOMAIN backups : backups'[n].state = backups[n].state
    BY <1>1, <2>1, <2>2
  <2>4. <<>> \in Seq(Event)
    OBVIOUS
  <2>5. TypeOK'
    BY <1>2, <2>3, <2>4 DEF IsolateEvents, TypeInv, TypeOK, history, Phases, Isolating
  <2>6. BackupsOK'
    BY <1>2, <2>3 DEF IsolateEvents, TypeInv, BackupsOK, Refers
  <2>7. KnownOK'
    BY <1>1, <1>2, <2>3 DEF IsolateEvents, TypeInv, KnownOK, Isolating
  <2> QED BY <2>5, <2>6, <2>7 DEF TypeInv
<1>3. CASE IsolateTransaction
  <2> DEFINE b == [backups[Backup] EXCEPT !.txn = txn]
  <2>1. b \in Files /\ b.state = backups[Backup].state
    BY <1>1 DEF TypeInv, TypeOK, Files
  <2>2. backups' = [backups EXCEPT ![Backup] = b]
    BY <1>1, <1>3 DEF IsolateTransaction
  <2>3. /\ backups' \in Seq(Files) /\ Len(backups') = Len(backups)
        /\ DOMAIN backups' = DOMAIN backups
        /\ \A n \in DOMAIN backups : backups'[n].state = backups[n].state
    BY <1>1, <2>1, <2>2
  <2>4. TypeOK'
    BY <1>3, <2>3 DEF IsolateTransaction, TypeInv, TypeOK, history, Phases, Isolating
  <2>5. BackupsOK'
    BY <1>3, <2>3, FileValues DEF IsolateTransaction, TypeInv, BackupsOK, Refers
  <2>6. KnownOK'
    BY <1>1, <1>3, <2>3 DEF IsolateTransaction, TypeInv, KnownOK, Isolating
  <2> QED BY <2>4, <2>5, <2>6 DEF TypeInv
<1>4. CASE RecordBlocked
  <2>1. [sequence |-> 1, kind |-> "recovery_blocked", payload |-> <<>>] \in Event
    <3>1. <<>> \in Seq(Payloads)
      OBVIOUS
    <3> QED BY <3>1 DEF Event, EventKinds
  <2>2. events' \in Seq(Event)
    BY <1>4, <2>1, AppendedType DEF RecordBlocked, TypeInv, TypeOK
  <2>3. TypeOK'
    BY <1>4, <2>2 DEF RecordBlocked, TypeInv, TypeOK, history, Phases, Isolating
  <2>4. BackupsOK'
    BY <1>4 DEF RecordBlocked, TypeInv, BackupsOK, Refers
  <2>5. KnownOK'
    BY <1>1, <1>4 DEF RecordBlocked, TypeInv, KnownOK, Isolating
  <2> QED BY <2>3, <2>4, <2>5 DEF TypeInv
<1>5. CASE WriteBlocked
  <2>1. state' \in Snapshot /\ state'.backup = Backup
    <3>1. EmptySnapshot \in Snapshot /\ Backup \in Nat
      BY <1>1, FileValues
    <3>2. state' = [revision |-> 1, value |-> <<>>, backup |-> Backup, sound |-> TRUE]
      BY <1>5 DEF WriteBlocked, EmptySnapshot
    <3>3. <<>> \in Seq(Payloads)
      OBVIOUS
    <3> QED BY <3>1, <3>2, <3>3 DEF Snapshot
  <2>2. TypeOK'
    BY <1>5, <2>1 DEF WriteBlocked, TypeInv, TypeOK, history, Phases
  <2>3. BackupsOK'
    BY <1>1, <1>5, <2>1 DEF WriteBlocked, TypeInv, BackupsOK, Refers, Backup
  <2>4. KnownOK'
    BY <1>5, <2>1, FileValues DEF WriteBlocked, KnownOK, Isolating
  <2> QED BY <2>2, <2>3, <2>4 DEF TypeInv
<1> QED BY <1>2, <1>3, <1>4, <1>5

\* A prepared transaction that is well-formed holds a snapshot and an event.
LEMMA TransactionParts ==
  ASSUME txn \in Transaction
  PROVE  txn.snapshot \in Snapshot /\ txn.event \in Event
BY DEF Transaction

\* The replay of a prepared transaction and the comparison of log and snapshot.
LEMMA ReplayType ==
  ASSUME TypeInv,
         \/ RejectUnreadable \/ ReplayTruncate \/ ReplayEvent \/ RejectReplayEvent
         \/ ReplaySnapshot \/ RejectReplaySnapshot \/ ReplayRemove \/ NothingPrepared
         \/ Settle \/ SettleTail \/ RejectSettle
  PROVE  TypeInv'
<1>1. CASE RejectUnreadable \/ RejectReplayEvent \/ RejectReplaySnapshot \/ RejectSettle
  BY <1>1, IsolateType
     DEF RejectUnreadable, RejectReplayEvent, RejectReplaySnapshot, RejectSettle
<1>2. CASE ReplayTruncate
  <2>1. state # Unreadable /\ txn \in Transaction
    BY <1>2 DEF ReplayTruncate, ReadFailed, TypeInv, TypeOK
  <2>2. TypeOK'
    BY <1>2 DEF ReplayTruncate, history, TypeInv, TypeOK, Phases
  <2>3. BackupsOK'
    BY <1>2 DEF ReplayTruncate, TypeInv, BackupsOK, Refers
  <2>4. KnownOK'
    BY <1>2, <2>1 DEF ReplayTruncate, KnownOK, Isolating
  <2> QED BY <2>2, <2>3, <2>4 DEF TypeInv
<1>3. CASE ReplayEvent
  <2>1. txn.event \in Event
    BY <1>3, TransactionParts DEF ReplayEvent, TypeInv, KnownOK
  <2>2. events' \in Seq(Event)
    BY <1>3, <2>1, AppendedType DEF ReplayEvent, TypeInv, TypeOK
  <2>3. TypeOK'
    BY <1>3, <2>2 DEF ReplayEvent, history, TypeInv, TypeOK, Phases
  <2>4. BackupsOK'
    BY <1>3 DEF ReplayEvent, TypeInv, BackupsOK, Refers
  <2>5. KnownOK'
    BY <1>3 DEF ReplayEvent, TypeInv, KnownOK, Isolating
  <2> QED BY <2>3, <2>4, <2>5 DEF TypeInv
<1>4. CASE ReplaySnapshot
  <2>1. txn \in Transaction /\ state' = txn.snapshot /\ state' \in Snapshot
    BY <1>4, TransactionParts DEF ReplaySnapshot, TypeInv, KnownOK
  <2>2. TypeOK'
    BY <1>4, <2>1 DEF ReplaySnapshot, history, TypeInv, TypeOK, Phases
  <2>3. BackupsOK'
    BY <1>4, <2>1 DEF ReplaySnapshot, TypeInv, BackupsOK, Refers
  <2>4. KnownOK'
    BY <1>4, <2>1, FileValues DEF ReplaySnapshot, TypeInv, KnownOK, Isolating
  <2> QED BY <2>2, <2>3, <2>4 DEF TypeInv
<1>5. CASE ReplayRemove
  <2>1. TypeOK'
    BY <1>5, FileValues DEF ReplayRemove, disk, history, TypeInv, TypeOK, KnownOK, Transaction, Phases
  <2>2. BackupsOK'
    BY <1>5, FileValues DEF ReplayRemove, disk, TypeInv, BackupsOK, KnownOK, Refers
  <2>3. KnownOK'
    BY <1>5, FileValues DEF ReplayRemove, disk, TypeInv, KnownOK, Isolating
  <2> QED BY <2>1, <2>2, <2>3 DEF TypeInv
<1>6. CASE NothingPrepared
  <2>1. state # Unreadable
    BY <1>6 DEF NothingPrepared, ReadFailed
  <2>2. TypeOK'
    BY <1>6 DEF NothingPrepared, disk, history, TypeInv, TypeOK, Phases
  <2>3. BackupsOK'
    BY <1>6, UntouchedFiles DEF NothingPrepared, disk
  <2>4. KnownOK'
    BY <1>6, <2>1 DEF NothingPrepared, disk, KnownOK, Isolating
  <2> QED BY <2>2, <2>3, <2>4 DEF TypeInv
<1>7. CASE Settle
  <2>1. TypeOK'
    BY <1>7 DEF Settle, disk, history, TypeInv, TypeOK, KnownOK, Transaction, Phases
  <2>2. BackupsOK'
    BY <1>7 DEF Settle, disk, TypeInv, BackupsOK, KnownOK, Refers
  <2>3. KnownOK'
    BY <1>7 DEF Settle, disk, TypeInv, KnownOK, Isolating
  <2> QED BY <2>1, <2>2, <2>3 DEF TypeInv
<1>8. CASE SettleTail
  <2>1. TypeOK'
    BY <1>8 DEF SettleTail, disk, history, TypeInv, TypeOK, KnownOK, Transaction, Phases
  <2>2. BackupsOK'
    BY <1>8 DEF SettleTail, disk, TypeInv, BackupsOK, KnownOK, Refers
  <2>3. KnownOK'
    BY <1>8 DEF SettleTail, disk, TypeInv, KnownOK, Isolating
  <2> QED BY <2>1, <2>2, <2>3 DEF TypeInv
<1> QED BY <1>1, <1>2, <1>3, <1>4, <1>5, <1>6, <1>7, <1>8

\* An update or a repair is prepared.
LEMMA PrepareType ==
  ASSUME TypeInv, Repair \/ \E p \in Payloads : Prepare(p)
  PROVE  TypeInv'
<1>1. CASE Repair
  <2> DEFINE next == [state EXCEPT !.revision = @ + 1]
             e == [sequence |-> next.revision, kind |-> "event_log_tail_truncated",
                   payload |-> <<>>]
  <2>1. state \in Snapshot
    BY <1>1 DEF Repair, TypeInv, TypeOK, KnownOK
  <2>2. next \in Snapshot /\ next.revision = state.revision + 1
        /\ next.backup = state.backup
    <3>1. <<>> \in Seq(Payloads)
      OBVIOUS
    <3> QED BY <2>1, <3>1, Successor
  <2>3. e \in Event
    BY <2>1, <2>2 DEF Event, EventKinds, Snapshot
  <2>4. txn' = [snapshot |-> next, event |-> e] /\ txn' \in Transaction
    BY <1>1, <2>2, <2>3 DEF Repair, Transaction
  <2>5. TypeOK'
    BY <1>1, <2>4 DEF Repair, history, TypeInv, TypeOK, Phases
  <2>6. BackupsOK'
    <3>1. txn'.snapshot = next /\ Refers(state)
      BY <2>1, <2>4 DEF TypeInv, BackupsOK
    <3> QED BY <1>1, <2>2, <3>1 DEF Repair, TypeInv, BackupsOK, Refers
  <2>7. KnownOK'
    BY <1>1, <2>4 DEF Repair, TypeInv, KnownOK, Isolating
  <2> QED BY <2>5, <2>6, <2>7 DEF TypeInv
<1>2. ASSUME NEW p \in Payloads, Prepare(p)
      PROVE  TypeInv'
  <2> DEFINE next == [Current EXCEPT !.revision = @ + 1, !.value = Append(@, p)]
             e == [sequence |-> next.revision, kind |-> "update", payload |-> <<p>>]
  <2>1. Current \in Snapshot /\ Current.backup <= Len(backups)
    <3>1. ~Blocked(Current) /\ backups \in Seq(Files)
      BY <1>2 DEF Prepare, TypeInv, TypeOK
    <3>2. Current \in Snapshot
      BY <1>2, FileValues DEF Prepare, Current, TypeInv, TypeOK, KnownOK
    <3>3. Current.backup = 0 /\ Len(backups) \in Nat
      BY <3>1 DEF Blocked
    <3> QED BY <3>2, <3>3
  <2>2. Append(Current.value, p) \in Seq(Payloads)
    BY <1>2, <2>1 DEF Snapshot
  <2>3. /\ next \in Snapshot /\ next.revision = Current.revision + 1
        /\ next.backup = Current.backup /\ next.value \in Seq(Payloads)
    BY <2>1, <2>2, Successor
  <2>4. next.revision > 0 /\ e \in Event
    <3>1. next.revision \in Nat \ {0} /\ <<p>> \in Seq(Payloads)
      BY <1>2, <2>1, <2>3 DEF Snapshot
    <3> QED BY <3>1 DEF Event, EventKinds
  <2>5. txn' = [snapshot |-> next, event |-> e] /\ committed' = next.value
    BY <1>2 DEF Prepare
  <2>6. txn' \in Transaction /\ txn'.snapshot = next
    BY <2>3, <2>4, <2>5 DEF Transaction
  <2>7. TypeOK'
    BY <1>2, <2>3, <2>5, <2>6 DEF Prepare, TypeInv, TypeOK, Phases
  <2>8. BackupsOK'
    BY <1>2, <2>1, <2>3, <2>6 DEF Prepare, TypeInv, BackupsOK, Refers
  <2>9. KnownOK'
    BY <1>2, <2>4, <2>6 DEF Prepare, TypeInv, KnownOK, Isolating
  <2> QED BY <2>7, <2>8, <2>9 DEF TypeInv
<1> QED BY <1>1, <1>2

\* What was prepared is written.
LEMMA WriteType ==
  ASSUME TypeInv,
         AppendEvent \/ WriteSnapshot \/ RemoveTransaction \/ Rotate \/ Initialize
  PROVE  TypeInv'
<1>1. CASE AppendEvent
  <2>1. txn.event \in Event
    BY <1>1, TransactionParts DEF AppendEvent, TypeInv, KnownOK
  <2>2. events' \in Seq(Event)
    BY <1>1, <2>1, AppendedType DEF AppendEvent, TypeInv, TypeOK
  <2>3. TypeOK'
    BY <1>1, <2>2 DEF AppendEvent, history, TypeInv, TypeOK, Phases
  <2>4. BackupsOK'
    BY <1>1 DEF AppendEvent, TypeInv, BackupsOK, Refers
  <2>5. KnownOK'
    BY <1>1 DEF AppendEvent, TypeInv, KnownOK, Isolating
  <2> QED BY <2>3, <2>4, <2>5 DEF TypeInv
<1>2. CASE WriteSnapshot
  <2>1. txn \in Transaction /\ state' = txn.snapshot /\ state' \in Snapshot
    BY <1>2, TransactionParts DEF WriteSnapshot, TypeInv, KnownOK
  <2>2. TypeOK'
    BY <1>2, <2>1 DEF WriteSnapshot, history, TypeInv, TypeOK, Phases
  <2>3. BackupsOK'
    BY <1>2, <2>1 DEF WriteSnapshot, TypeInv, BackupsOK, Refers
  <2>4. KnownOK'
    BY <1>2, <2>1, FileValues DEF WriteSnapshot, TypeInv, KnownOK, Isolating
  <2> QED BY <2>2, <2>3, <2>4 DEF TypeInv
<1>3. CASE RemoveTransaction
  <2>1. TypeOK'
    BY <1>3, FileValues DEF RemoveTransaction, disk, history, TypeInv, TypeOK, KnownOK, Transaction, Phases
  <2>2. BackupsOK'
    BY <1>3, FileValues DEF RemoveTransaction, disk, TypeInv, BackupsOK, KnownOK, Refers
  <2>3. KnownOK'
    BY <1>3, FileValues DEF RemoveTransaction, disk, TypeInv, KnownOK, Isolating
  <2> QED BY <2>1, <2>2, <2>3 DEF TypeInv
<1>4. CASE Rotate
  <2>1. state \in Snapshot /\ state.revision > 0
    BY <1>4 DEF Rotate, TypeInv, TypeOK, KnownOK
  <2> DEFINE e == [sequence |-> state.revision, kind |-> "event_log_checkpoint",
                   payload |-> <<>>]
  <2>2. e \in Event /\ confirmed' \in Seq(Payloads)
    <3>1. <<>> \in Seq(Payloads)
      OBVIOUS
    <3> QED BY <1>4, <2>1, <3>1 DEF Rotate, Snapshot, Event, EventKinds
  <2>3. <<e>> \in Seq(Event)
    BY <2>2
  <2>4. events' \in Seq(Event)
    BY <1>4, <2>3 DEF Rotate, TypeInv, TypeOK
  <2>5. TypeOK'
    BY <1>4, <2>2, <2>4 DEF Rotate, TypeInv, TypeOK, Phases
  <2>6. BackupsOK'
    BY <1>4 DEF Rotate, TypeInv, BackupsOK, Refers
  <2>7. KnownOK'
    BY <1>4 DEF Rotate, KnownOK, Isolating
  <2> QED BY <2>5, <2>6, <2>7 DEF TypeInv
<1>5. CASE Initialize
  <2>1. state' \in Snapshot /\ (state = None => state'.backup = 0)
        /\ (state # None => state' = state)
    BY <1>5, FileValues DEF Initialize, Current, TypeInv, TypeOK, KnownOK
  <2>2. TypeOK'
    BY <1>5, <2>1 DEF Initialize, history, TypeInv, TypeOK, Phases
  <2>3. BackupsOK'
    <3>1. state'.backup <= Len(backups)
      BY <2>1 DEF TypeInv, TypeOK, BackupsOK, Refers
    <3> QED BY <1>5, <3>1 DEF Initialize, TypeInv, BackupsOK, Refers
  <2>4. KnownOK'
    BY <1>5 DEF Initialize, KnownOK, Isolating
  <2> QED BY <2>2, <2>3, <2>4 DEF TypeInv
<1> QED BY <1>1, <1>2, <1>3, <1>4, <1>5

\* Files are damaged between operations, and releases upgraded.
LEMMA EnvironmentType ==
  ASSUME TypeInv, Damage \/ Upgrade
  PROVE  TypeInv'
<1>1. CASE Damage
  <2>1. pc = "idle" /\ UNCHANGED <<marker, backups, pc, op, interrupts, history>>
    BY <1>1 DEF Damage
  <2>2. state' \in Snapshot \cup {None, Unreadable}
        /\ (state' \in Snapshot => state \in Snapshot /\ state'.backup = state.backup)
    <3>1. CASE DamageState
      <4>1. CASE state' \in {None, Unreadable}
        BY <4>1, FileValues
      <4>2. CASE state # Unreadable /\ \E r \in {state.revision - 1, state.revision + 1} \cap Nat :
                   state' = [state EXCEPT !.revision = r]
        <5>1. state \in Snapshot
          BY <3>1, <4>2 DEF DamageState, TypeInv, TypeOK
        <5> QED BY <4>2, <5>1 DEF Snapshot
      <4> QED BY <3>1, <4>1, <4>2 DEF DamageState
    <3>2. CASE DamageTransaction \/ DamageEvents
      BY <3>2 DEF DamageTransaction, DamageEvents, TypeInv, TypeOK
    <3> QED BY <1>1, <3>1, <3>2 DEF Damage
  <2>3. txn' = txn \/ txn' = Unreadable
    BY <1>1 DEF Damage, DamageState, DamageTransaction, DamageEvents
  <2>4. events' \in Seq(Event) /\ torn' \in BOOLEAN
    <3>1. CASE DamageEvents
      <4>1. CASE events # <<>> /\ events' = SubSeq(events, 1, Len(events) - 1)
                 /\ torn' \in BOOLEAN
        BY <4>1 DEF TypeInv, TypeOK
      <4>2. CASE \E i \in DOMAIN events :
                   events' = [events EXCEPT ![i].kind = "garbage"] /\ torn' = torn
        <5>1. PICK i \in DOMAIN events :
                events' = [events EXCEPT ![i].kind = "garbage"] /\ torn' = torn
          BY <4>2
        <5>2. [events[i] EXCEPT !.kind = "garbage"] \in Event
          <6>1. events[i] \in Event
            BY DEF TypeInv, TypeOK
          <6> QED BY <6>1 DEF Event, EventKinds
        <5>3. events' = [events EXCEPT ![i] = [events[i] EXCEPT !.kind = "garbage"]]
          BY <5>1
        <5> QED BY <5>1, <5>2, <5>3 DEF TypeInv, TypeOK
      <4>3. CASE torn' = TRUE /\ events' = events
        BY <4>3 DEF TypeInv, TypeOK
      <4> QED BY <3>1, <4>1, <4>2, <4>3 DEF DamageEvents
    <3>2. CASE DamageState \/ DamageTransaction
      BY <3>2 DEF DamageState, DamageTransaction, TypeInv, TypeOK
    <3> QED BY <1>1, <3>1, <3>2 DEF Damage
  <2>5. damage' \in Nat
    BY <1>1 DEF Damage, TypeInv, TypeOK
  <2>6. TypeOK'
    BY <2>1, <2>2, <2>3, <2>4, <2>5 DEF history, TypeInv, TypeOK
  <2>7. BackupsOK'
    BY <2>1, <2>2, <2>3, FileValues DEF TypeInv, BackupsOK, Refers
  <2>8. KnownOK'
    BY <2>1 DEF KnownOK, Isolating
  <2> QED BY <2>6, <2>7, <2>8 DEF TypeInv
<1>2. CASE Upgrade
  <2>1. state \in Snapshot /\ state' = [state EXCEPT !.sound = FALSE]
    BY <1>2 DEF Upgrade, TypeInv, TypeOK
  <2>2. state' \in Snapshot /\ state'.backup = state.backup
    BY <2>1 DEF Snapshot
  <2>3. txn' \in Transaction \cup {None, Unreadable}
        /\ (txn' \in Transaction => txn \in Transaction
                                    /\ txn'.snapshot.backup = txn.snapshot.backup)
    <3>1. CASE txn = None \/ txn = Unreadable
      BY <1>2, <3>1, FileValues DEF Upgrade
    <3>2. CASE txn \in Transaction
      <4>1. txn' = [txn EXCEPT !.snapshot = [txn.snapshot EXCEPT !.sound = FALSE]]
        BY <1>2, <3>2, FileValues DEF Upgrade
      <4>2. LET s == [txn.snapshot EXCEPT !.sound = FALSE] IN
            s \in Snapshot /\ s.backup = txn.snapshot.backup
        BY <3>2, TransactionParts DEF Snapshot
      <4> QED BY <3>2, <4>1, <4>2 DEF Transaction
    <3> QED BY <3>1, <3>2 DEF TypeInv, TypeOK
  <2>4. TypeOK'
    BY <1>2, <2>2, <2>3 DEF Upgrade, history, TypeInv, TypeOK
  <2>5. BackupsOK'
    BY <1>2, <2>1, <2>2, <2>3 DEF Upgrade, TypeInv, BackupsOK, Refers
  <2>6. KnownOK'
    BY <1>2 DEF Upgrade, KnownOK, Isolating
  <2> QED BY <2>4, <2>5, <2>6 DEF TypeInv
<1> QED BY <1>1, <1>2

\* A step that changes nothing keeps the invariant.
LEMMA StutterType ==
  ASSUME TypeInv, UNCHANGED vars
  PROVE  TypeInv'
BY DEF vars, disk, history, TypeInv, TypeOK, BackupsOK, Refers, KnownOK, Isolating

\* Every step keeps the type invariant.
LEMMA StepType == TypeInv /\ [Next]_vars => TypeInv'
<1> SUFFICES ASSUME TypeInv, [Next]_vars PROVE TypeInv'
  OBVIOUS
<1>1. CASE UNCHANGED vars
  BY <1>1, StutterType
<1>2. CASE Damage \/ Upgrade
  BY <1>2, EnvironmentType
<1>3. CASE Step
  BY <1>3, BoundaryType, RestoreType, IsolatingType, ReplayType, PrepareType, WriteType
     DEF Step, Recovery, Commit, Finish
<1> QED BY <1>1, <1>2, <1>3 DEF Next

\* Files, history and locals of the store stay of the types the code gives them,
\* whatever is cut, damaged or upgraded, and what an operation relies on in each
\* phase was established before it.
THEOREM TypeCorrect == Spec => []TypeOK
<1>1. Init => TypeInv
  BY InitTypeInv
<1>2. TypeInv /\ [Next]_vars => TypeInv'
  BY StepType
<1>3. TypeInv => TypeOK
  BY DEF TypeInv
<1> QED BY <1>1, <1>2, <1>3, PTL DEF Spec

-----------------------------------------------------------------------------
(***************************************************************************)
(* The evidence of an isolation, with damage and upgrades (Spec).          *)
(*                                                                         *)
(* quarantineUnlocked moves the files one by one and may be cut between    *)
(* them.  The invariant says what each phase has moved, that a blocked     *)
(* snapshot, on disk or prepared, names the last backup, and that no       *)
(* restore brings a blocked snapshot back from an older one.               *)
(***************************************************************************)

\* The phases that will write, or have written, the snapshot of the transaction.
Writing == {"replayEvent", "replaySnapshot", "replayRemove", "append", "write",
            "repairAppend", "repairWrite", "repairRemove"}

\* What a validator rejects is no blocked snapshot.
Open(s) == s.sound \/ ~Blocked(s)

\* A blocked snapshot names the last backup, which holds the evidence.
Named(s) ==
  Blocked(s) /\ evidence # None =>
    s.backup = Len(backups) /\ Len(backups) > 0 /\ backups[Len(backups)] = evidence

\* A restore never brings a blocked snapshot back.
Restores ==
  /\ state \in Snapshot => Open(state)
  /\ marker # None => ~Blocked(marker.state)
  /\ \A n \in DOMAIN backups : backups[n].state \in Snapshot => Open(backups[n].state)
  /\ pc \in Writing => Open(txn.snapshot)

\* How much of the evidence an isolation under way has moved to the backup.
Moved ==
  /\ state = None /\ evidence \in Files /\ Len(backups) > 0
  /\ pc = "isolateEvents" =>
       /\ backups[Len(backups)] =
            [state |-> evidence.state, events |-> <<>>, torn |-> FALSE, txn |-> None]
       /\ events = evidence.events /\ torn = evidence.torn /\ txn = evidence.txn
  /\ pc = "isolateTransaction" =>
       backups[Len(backups)] = [evidence EXCEPT !.txn = None] /\ txn = evidence.txn
  /\ pc \in {"recordBlocked", "writeBlocked"} => backups[Len(backups)] = evidence /\ txn = None

EvidenceInv ==
  /\ Restores
  /\ ~cut /\ pc \in Isolating => Moved
  /\ ~cut /\ pc \notin Isolating =>
       /\ state \in Snapshot => Named(state)
       /\ txn \in Transaction => Named(txn.snapshot)

\* A step outside an isolation: what is written is not blocked, or was there before.
Keeps ==
  /\ backups' = backups /\ evidence' \in {evidence, None}
  /\ pc \notin Isolating \/ cut'
  /\ pc' \notin Isolating /\ (cut => cut')
  /\ state' \in Snapshot =>
       \/ state'.backup = 0
       \/ state \in Snapshot /\ state'.backup = state.backup /\ state'.sound = state.sound
       \/ pc \in Writing /\ txn \in Transaction /\ state' = txn.snapshot
  /\ txn' \in Transaction =>
       \/ txn'.snapshot.backup = 0
       \/ state \in Snapshot /\ txn'.snapshot.backup = state.backup
       \/ txn \in Transaction /\ txn'.snapshot.backup = txn.snapshot.backup
  /\ marker' # None => ~Blocked(marker'.state)
  /\ pc' \in Writing => Open(txn'.snapshot)

\* A step outside an isolation keeps the invariant.
LEMMA KeepsEvidence ==
  ASSUME EvidenceInv, Keeps
  PROVE  EvidenceInv'
<1>1. Restores'
  BY DEF Keeps, EvidenceInv, Restores, Open, Blocked
<1>2. ASSUME ~cut', NEW s, s.backup = 0 \/ (state \in Snapshot /\ s.backup = state.backup)
                       \/ (txn \in Transaction /\ s.backup = txn.snapshot.backup)
      PROVE  Blocked(s) /\ evidence' # None =>
               /\ s.backup = Len(backups') /\ Len(backups') > 0
               /\ backups'[Len(backups')] = evidence'
  BY <1>2 DEF Keeps, EvidenceInv, Named, Blocked
<1>3. ~cut' /\ state' \in Snapshot => Named(state)'
  BY <1>2 DEF Keeps, Named, Blocked
<1>4. ~cut' /\ txn' \in Transaction => Named(txn.snapshot)'
  BY <1>2 DEF Keeps, Named, Blocked
<1> QED BY <1>1, <1>3, <1>4 DEF EvidenceInv, Keeps

\* The first step of an isolation.
LEMMA IsolateEvidence ==
  ASSUME TypeInv, EvidenceInv, Isolate, pc \notin Isolating
  PROVE  EvidenceInv'
<1> DEFINE b == [state |-> state, events |-> <<>>, torn |-> FALSE, txn |-> None]
<1>1. b \in Files /\ backups \in Seq(Files)
  <2>1. <<>> \in Seq(Event)
    OBVIOUS
  <2> QED BY <2>1 DEF TypeInv, TypeOK, Files
<1>2. b.state = state
  OBVIOUS
<1>3. backups' = Append(backups, b) /\ state' = None /\ pc' = "isolateEvents"
  BY DEF Isolate
<1>4. /\ Len(backups') = Len(backups) + 1 /\ Len(backups) \in Nat /\ backups'[Len(backups')] = b
      /\ \A n \in DOMAIN backups' : \/ backups'[n] = b
                                    \/ n \in DOMAIN backups /\ backups'[n] = backups[n]
  <2> HIDE DEF b
  <2> QED BY <1>1, <1>3
<1>5. Restores'
  BY <1>2, <1>3, <1>4, FileValues DEF EvidenceInv, Restores, Writing, Isolate, Open, Blocked
<1>6. /\ evidence' = [state |-> state, events |-> events, torn |-> torn, txn |-> txn]
      /\ evidence' \in Files
  BY DEF Isolate, TypeInv, TypeOK, Files
<1>7. Moved'
  BY <1>3, <1>4, <1>6 DEF Moved, Isolate
<1> QED BY <1>3, <1>5, <1>7 DEF EvidenceInv, Isolating

\* A store's files with another event log.
LEMMA FilesWithEvents ==
  ASSUME NEW r \in Files, NEW x \in Seq(Event), NEW y \in BOOLEAN
  PROVE  [r EXCEPT !.events = x, !.torn = y] =
           [state |-> r.state, events |-> x, torn |-> y, txn |-> r.txn]
<1> DEFINE m == [state |-> r.state, events |-> x, torn |-> r.torn, txn |-> r.txn]
<1>1. [r EXCEPT !.events = x] = m
  BY DEF Files
<1>2. m \in Files
  BY DEF Files
<1>3. ASSUME NEW A, NEW B, NEW C, NEW D, NEW t,
             NEW q \in [state : A, events : B, torn : C, txn : D]
      PROVE  [q EXCEPT !.torn = t] =
               [state |-> q.state, events |-> q.events, torn |-> t, txn |-> q.txn]
  OBVIOUS
<1>4. [m EXCEPT !.torn = y] = [state |-> r.state, events |-> x, torn |-> y, txn |-> r.txn]
  <2>1. m.state = r.state /\ m.events = x /\ m.txn = r.txn
    OBVIOUS
  <2> HIDE DEF m
  <2> QED BY <1>2, <1>3, <2>1 DEF Files
<1>5. [r EXCEPT !.events = x, !.torn = y] = [[r EXCEPT !.events = x] EXCEPT !.torn = y]
  OBVIOUS
<1> QED BY <1>1, <1>4, <1>5

\* What is left of a store's files without the prepared transaction.
LEMMA FilesWithoutTransaction ==
  ASSUME NEW r \in Files
  PROVE  [r EXCEPT !.txn = None] =
           [state |-> r.state, events |-> r.events, torn |-> r.torn, txn |-> None]
BY DEF Files

\* The isolation goes on, file by file.
LEMMA IsolatingEvidence ==
  ASSUME TypeInv, EvidenceInv, TypeInv',
         IsolateEvents \/ IsolateTransaction \/ RecordBlocked \/ WriteBlocked
  PROVE  EvidenceInv'
<1>1. /\ Len(backups) \in Nat \ {0} /\ Backup \in DOMAIN backups /\ Backup = Len(backups)
      /\ backups[Backup] \in Files /\ backups \in Seq(Files) /\ pc \in Isolating
  BY DEF IsolateEvents, IsolateTransaction, RecordBlocked, WriteBlocked, TypeInv, TypeOK,
     KnownOK, Isolating, Backup
<1>2. CASE IsolateEvents
  <2> DEFINE b == [backups[Backup] EXCEPT !.events = events, !.torn = torn]
  <2>1. b.state = backups[Backup].state
    BY <1>1 DEF Files
  <2>2. backups' = [backups EXCEPT ![Backup] = b]
    BY <1>1, <1>2 DEF IsolateEvents
  <2>3. /\ DOMAIN backups' = DOMAIN backups /\ Len(backups') = Len(backups)
        /\ \A n \in DOMAIN backups : backups'[n].state = backups[n].state
        /\ backups'[Backup] = b
    <3> HIDE DEF b
    <3> QED BY <1>1, <2>1, <2>2
  <2>4. Restores'
    BY <1>2, <2>3 DEF IsolateEvents, EvidenceInv, Restores, Writing, Open, Blocked
  <2>5. ~cut => Moved'
    <3>1. SUFFICES ASSUME ~cut PROVE Moved'
      OBVIOUS
    <3>2. /\ Moved /\ evidence \in Files /\ events = evidence.events /\ torn = evidence.torn
          /\ backups[Backup] =
               [state |-> evidence.state, events |-> <<>>, torn |-> FALSE, txn |-> None]
      BY <1>1, <1>2, <3>1 DEF EvidenceInv, Moved, IsolateEvents
    <3>3. b = [state |-> evidence.state, events |-> evidence.events,
               torn |-> evidence.torn, txn |-> None]
      <4>1. events \in Seq(Event) /\ torn \in BOOLEAN
        BY DEF TypeInv, TypeOK
      <4>2. b = [state |-> backups[Backup].state, events |-> events, torn |-> torn,
                 txn |-> backups[Backup].txn]
        BY <1>1, <4>1, FilesWithEvents
      <4>3. backups[Backup].state = evidence.state /\ backups[Backup].txn = None
        BY <3>2
      <4> QED BY <3>2, <4>2, <4>3
    <3>4. [evidence EXCEPT !.txn = None] = b
      BY <3>2, <3>3, FilesWithoutTransaction
    <3> QED BY <1>1, <1>2, <2>3, <3>2, <3>4 DEF IsolateEvents, Moved, history
  <2> QED BY <1>2, <2>4, <2>5 DEF EvidenceInv, IsolateEvents, Isolating, history
<1>3. CASE IsolateTransaction
  <2> DEFINE b == [backups[Backup] EXCEPT !.txn = txn]
  <2>1. b.state = backups[Backup].state
    BY <1>1 DEF Files
  <2>2. backups' = [backups EXCEPT ![Backup] = b]
    BY <1>1, <1>3 DEF IsolateTransaction
  <2>3. /\ DOMAIN backups' = DOMAIN backups /\ Len(backups') = Len(backups)
        /\ \A n \in DOMAIN backups : backups'[n].state = backups[n].state
        /\ backups'[Backup] = b
    <3> HIDE DEF b
    <3> QED BY <1>1, <2>1, <2>2
  <2>4. Restores'
    BY <1>3, <2>3 DEF IsolateTransaction, EvidenceInv, Restores, Writing, Open, Blocked
  <2>5. ~cut => Moved'
    <3>1. SUFFICES ASSUME ~cut PROVE Moved'
      OBVIOUS
    <3>2. /\ Moved /\ evidence \in Files /\ txn = evidence.txn
          /\ backups[Backup] = [evidence EXCEPT !.txn = None]
      BY <1>1, <1>3, <3>1 DEF EvidenceInv, Moved, IsolateTransaction
    <3>3. b = evidence
      BY <3>2 DEF Files
    <3> QED BY <1>1, <1>3, <2>3, <3>2, <3>3 DEF IsolateTransaction, Moved, history
  <2> QED BY <1>3, <2>4, <2>5 DEF EvidenceInv, IsolateTransaction, Isolating, history
<1>4. CASE RecordBlocked
  <2>1. Restores'
    BY <1>4 DEF RecordBlocked, EvidenceInv, Restores, Writing, Open, Blocked
  <2>2. ~cut => Moved'
    BY <1>1, <1>4 DEF RecordBlocked, EvidenceInv, Moved, history
  <2> QED BY <1>4, <2>1, <2>2 DEF EvidenceInv, RecordBlocked, Isolating, history
<1>5. CASE WriteBlocked
  <2>1. state' = [revision |-> 1, value |-> <<>>, backup |-> Backup, sound |-> TRUE]
    BY <1>5 DEF WriteBlocked, EmptySnapshot
  <2>2. Restores'
    <3>1. state'.sound
      BY <2>1
    <3> QED BY <1>5, <3>1 DEF WriteBlocked, EvidenceInv, Restores, Writing, Open, Blocked
  <2>3. ~cut => Named(state)' /\ txn' = None
    BY <1>1, <1>5, <2>1 DEF WriteBlocked, EvidenceInv, Moved, Named, history
  <2> QED BY <1>5, <2>2, <2>3, FileValues DEF EvidenceInv, WriteBlocked, Isolating, history
<1> QED BY <1>2, <1>3, <1>4, <1>5

\* Every step but those of an isolation keeps what it names.
LEMMA OtherSteps ==
  ASSUME TypeInv, EvidenceInv, TypeInv', [Next]_vars
  PROVE  \/ Keeps \/ UNCHANGED vars
         \/ Isolate /\ pc \notin Isolating
         \/ IsolateEvents \/ IsolateTransaction \/ RecordBlocked \/ WriteBlocked
<1> USE FileValues
<1>1. CASE \/ \E o \in Operations : Begin(o)
           \/ Interrupt \/ Refuse \/ Return \/ RefuseRepair
  BY <1>1 DEF Begin, Interrupt, Refuse, Return, RefuseRepair, Keeps, EvidenceInv, Restores,
              Writing, Isolating, disk, history
<1>2. CASE CompleteEvents \/ CompleteState \/ DropMarker
  BY <1>2 DEF CompleteEvents, CompleteState, DropMarker, Keeps, EvidenceInv, Restores, Writing,
              Isolating, history, Blocked, TypeInv, TypeOK, KnownOK, Snapshot
<1>3. CASE StageRestore
  <2> DEFINE b == backups[state.backup]
             next == [b.state EXCEPT !.revision = @ + 1, !.sound = TRUE]
  <2>1. state \in Snapshot /\ state.backup \in DOMAIN backups
    BY <1>3 DEF StageRestore, TypeInv, TypeOK, BackupsOK, Refers, Snapshot, Blocked
  <2>2. b.state \in Snapshot /\ ~b.state.sound
    <3>1. b \in Files
      BY <2>1 DEF TypeInv, TypeOK
    <3>2. b.state # None /\ b.state # Unreadable /\ ~b.state.sound
      BY <1>3 DEF StageRestore, Restorable
    <3> QED BY <3>1, <3>2 DEF Files
  <2>3. b.state.backup = 0
    BY <2>1, <2>2 DEF EvidenceInv, Restores, Open, Blocked
  <2>4. next.backup = 0
    <3>1. <<>> \in Seq(Payloads)
      OBVIOUS
    <3> QED BY <2>2, <2>3, <3>1, Successor
  <2>5. ~Blocked(marker'.state)
    BY <1>3, <2>4 DEF StageRestore, Blocked
  <2> QED BY <1>3, <2>5 DEF StageRestore, Keeps, Writing, Isolating, history, TypeInv, TypeOK
<1>4. CASE RejectUnreadable \/ RejectReplayEvent \/ RejectReplaySnapshot \/ RejectSettle
  BY <1>4 DEF RejectUnreadable, RejectReplayEvent, RejectReplaySnapshot, RejectSettle, Isolating
<1>5. CASE ReplayTruncate
  <2>1. txn \in Transaction /\ txn.snapshot.sound
    BY <1>5 DEF ReplayTruncate, ReadFailed, ValidTransaction, TypeInv, TypeOK
  <2> QED BY <1>5, <2>1 DEF ReplayTruncate, Keeps, EvidenceInv, Restores, Open, Isolating, history
<1>6. CASE ReplayEvent \/ ReplayRemove \/ NothingPrepared \/ Settle \/ SettleTail
  BY <1>6 DEF ReplayEvent, ReplayRemove, NothingPrepared, Settle, SettleTail,
              Keeps, EvidenceInv, Restores, Writing, Isolating, disk, history
<1>7. CASE ReplaySnapshot \/ AppendEvent \/ WriteSnapshot \/ RemoveTransaction \/ Rotate
  BY <1>7 DEF ReplaySnapshot, AppendEvent, WriteSnapshot, RemoveTransaction, Rotate,
              Keeps, EvidenceInv, Restores, Writing, Isolating, history, TypeInv, KnownOK
<1>8. CASE Initialize
  BY <1>8 DEF Initialize, Current, Keeps, EvidenceInv, Restores, Writing, Isolating, history
<1>9. CASE Repair
  <2> DEFINE next == [state EXCEPT !.revision = @ + 1]
  <2>1. state \in Snapshot
    BY <1>9 DEF Repair, TypeInv, TypeOK, KnownOK
  <2>2. next.backup = state.backup /\ next.sound = state.sound
    BY <2>1 DEF Snapshot
  <2>3. txn'.snapshot = next
    BY <1>9 DEF Repair
  <2> QED BY <1>9, <2>1, <2>2, <2>3
       DEF Repair, Keeps, EvidenceInv, Restores, Open, Writing, Isolating, history
<1>10. ASSUME NEW p \in Payloads, Prepare(p)
       PROVE  Keeps
  <2> DEFINE next == [Current EXCEPT !.revision = @ + 1, !.value = Append(@, p)]
  <2>1. Current \in Snapshot /\ Current.backup = 0
    BY <1>10 DEF Prepare, Current, Blocked, TypeInv, TypeOK, KnownOK
  <2>2. next.backup = 0
    BY <2>1 DEF Snapshot
  <2>3. txn'.snapshot = next
    BY <1>10 DEF Prepare
  <2> QED BY <1>10, <2>2, <2>3
       DEF Prepare, Keeps, EvidenceInv, Restores, Open, Blocked, Writing, Isolating
<1>11. CASE Damage
  <2>1. state' \in Snapshot => state \in Snapshot /\ state'.backup = state.backup
                               /\ state'.sound = state.sound
    <3>1. CASE state' \in Snapshot /\ state' # state
      <4>1. state # None /\ state # Unreadable
            /\ \E r \in {state.revision - 1, state.revision + 1} \cap Nat :
                 state' = [state EXCEPT !.revision = r]
        BY <1>11, <3>1 DEF Damage, DamageState, DamageTransaction, DamageEvents
      <4>2. state \in Snapshot
        BY <4>1 DEF TypeInv, TypeOK
      <4> QED BY <4>1, <4>2 DEF Snapshot
    <3> QED BY <3>1
  <2>2. txn' = txn \/ txn' = Unreadable
    BY <1>11 DEF Damage, DamageState, DamageTransaction, DamageEvents
  <2> QED BY <1>11, <2>1, <2>2 DEF Damage, Keeps, EvidenceInv, Restores, Writing, Isolating, history
<1>12. CASE Upgrade
  <2>1. state \in Snapshot /\ state.backup = 0 /\ state' = [state EXCEPT !.sound = FALSE]
    BY <1>12 DEF Upgrade, Blocked, TypeInv, TypeOK
  <2>2. state'.backup = 0
    BY <2>1 DEF Snapshot
  <2>3. txn' \in Transaction => txn \in Transaction
                                /\ txn'.snapshot.backup = txn.snapshot.backup
    <3>1. CASE txn \in Transaction
      <4>1. txn' = [txn EXCEPT !.snapshot = [txn.snapshot EXCEPT !.sound = FALSE]]
        BY <1>12, <3>1 DEF Upgrade
      <4>2. [txn.snapshot EXCEPT !.sound = FALSE].backup = txn.snapshot.backup
        BY <3>1, TransactionParts DEF Snapshot
      <4> QED BY <3>1, <4>1, <4>2 DEF Transaction
    <3>2. CASE txn \notin Transaction
      BY <1>12, <3>2 DEF Upgrade, TypeInv, TypeOK
    <3> QED BY <3>1, <3>2
  <2> QED BY <1>12, <2>2, <2>3
       DEF Upgrade, Keeps, EvidenceInv, Restores, Writing, Isolating, history
<1> QED
  BY <1>1, <1>2, <1>3, <1>4, <1>5, <1>6, <1>7, <1>8, <1>9, <1>10, <1>11, <1>12
     DEF Next, Step, Recovery, Commit, Finish

\* While the store is blocked, the backup its snapshot names holds the files as they
\* were when the fault was found (quarantineUnlocked), whatever is damaged, upgraded,
\* repaired or restored afterwards.
THEOREM EvidenceIsKept == Spec => []EvidenceKept
<1>1. Init => TypeInv /\ EvidenceInv
  <2>1. Init => EvidenceInv
    BY FileValues DEF Init, EvidenceInv, Restores, Writing, Isolating
  <2> QED BY <2>1, InitTypeInv
<1>2. TypeInv /\ EvidenceInv /\ [Next]_vars => TypeInv' /\ EvidenceInv'
  <2> SUFFICES ASSUME TypeInv, EvidenceInv, [Next]_vars PROVE TypeInv' /\ EvidenceInv'
    OBVIOUS
  <2>1. TypeInv'
    BY StepType
  <2>2. CASE UNCHANGED vars
    <3>1. Restores' /\ (~cut' /\ pc' \in Isolating => Moved')
      BY <2>2 DEF vars, disk, history, EvidenceInv, Restores, Moved, Open, Blocked
    <3>2. ~cut' /\ pc' \notin Isolating /\ state' \in Snapshot => Named(state)'
      BY <2>2 DEF vars, disk, history, EvidenceInv, Named, Blocked
    <3>3. ~cut' /\ pc' \notin Isolating /\ txn' \in Transaction => Named(txn.snapshot)'
      BY <2>2 DEF vars, disk, history, EvidenceInv, Named, Blocked
    <3> QED BY <2>1, <3>1, <3>2, <3>3 DEF EvidenceInv
  <2> QED BY <2>1, <2>2, OtherSteps, KeepsEvidence, IsolateEvidence, IsolatingEvidence
<1>3. TypeInv /\ EvidenceInv => EvidenceKept
  <2>1. SUFFICES ASSUME TypeInv, EvidenceInv, state # None, state # Unreadable,
                        Blocked(state), ~cut, evidence # None
                 PROVE  backups[state.backup] = evidence
    BY DEF EvidenceKept
  <2>2. state \in Snapshot
    BY <2>1 DEF TypeInv, TypeOK
  <2>3. pc \notin Isolating
    BY <2>1 DEF EvidenceInv, Moved
  <2> QED BY <2>1, <2>2, <2>3 DEF EvidenceInv, Named
<1> QED BY <1>1, <1>2, <1>3, PTL DEF Spec
=============================================================================
