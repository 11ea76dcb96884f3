------------------------------ MODULE Migration ------------------------------
(***************************************************************************)
(* The conversion of every repository's snapshot and event log from        *)
(* version 5 to version 6, and its paired rollback                         *)
(* (application/migration): one journal and one checksummed backup for all *)
(* repositories, files replaced one at a time, and runtimes of both        *)
(* versions that start, commit, crash and stop around it.                  *)
(*                                                                         *)
(* migration.lock, every supervisor.lock and every state.lock are taken    *)
(* without waiting, so at most one process is between its first and last   *)
(* write: the variable op.                                                 *)
(***************************************************************************)
EXTENDS Naturals, Sequences, FiniteSets

CONSTANTS
  NumRepos,    \* the number of repositories, in the order of their directories
  OldStatuses, \* the journal's statuses in which somebody starts the old binary
  MaxWork,     \* bound: the commits of all runtimes
  MaxStops,    \* bound: the crashes and failed writes of a migration
  MaxBackups   \* bound: the migrations prepared

Repos == 1..NumRepos

Statuses == {"none", "prepared", "completed", "rolled_back"}

ASSUME ReposAssumption == NumRepos \in Nat \ {0}
ASSUME StatusesAssumption == OldStatuses \subseteq Statuses
ASSUME BoundsAssumption == MaxWork \in Nat /\ MaxStops \in Nat /\ MaxBackups \in Nat

VARIABLES
  snap,    \* per repository, state.json: version, revision, and whether it
           \* records unfinished work (execution, worker, request, effect)
  log,     \* per repository, events.jsonl: version, and what each event is of
  txn,     \* the old runtime left a prepared transaction
  journal, \* migration.json: status, migration ID, and the backup it names
  runtime, \* per repository, the supervisor
  op,      \* the migration or rollback under way, and the files still to write
  done,    \* history: the work every repository was told is durable
  undone,  \* history: the repositories where a rollback went back behind the old binary
  stops

migrationVars == <<snap, log, txn, journal, runtime, op, done, undone, stops>>

\* An event of the log: some work, or the audit of a migration.
Work == 0
IDs == 1..MaxBackups

NoBackup == <<>>
NoOp == [kind |-> "none", repo |-> 0, todo |-> {}]

\* A runtime that holds its supervisor lock; "blocked" ended with a BlockedError,
\* which exits 0, so that launchd leaves it alone.
Locking == {"old", "starting", "up"}

-----------------------------------------------------------------------------

\* What planSnapshots makes of one repository's files.
Readable(s, l) == s.version = l.version /\ s.revision = Len(l.entries)

Convertible(s, l, pending) ==
  /\ Readable(s, l)
  /\ s.version = 5 => ~s.busy /\ ~pending

ConvertedSnap(s) ==
  IF s.version = 5 THEN [s EXCEPT !.version = 6, !.revision = @ + 1] ELSE s

ConvertedLog(s, l, id) ==
  IF s.version = 5 THEN [version |-> 6, entries |-> Append(l.entries, id)] ELSE l

Files == Repos \X {"snap", "log"}

\* The next of the files todo, which are written by repository and of each repository
\* the file called first before the other.
IsNext(f, todo, first) ==
  /\ f \in todo
  /\ \A g \in todo \ {f} : f[1] < g[1] \/ (f[1] = g[1] /\ f[2] = first)

\* The files that a migration replaces, in the order of their paths: log, then snap.
Outputs(files) == {f \in Files : files[f[1]].snap.version = 5}

\* The files that a rollback writes back, in the order of the backup's manifest: snap,
\* then log.
Entries == Files

Current == [r \in Repos |-> [snap |-> snap[r], log |-> log[r]]]

MustMigrate == \E r \in Repos : snap[r].version = 5

Prepared == journal.status = "prepared"

-----------------------------------------------------------------------------
\* ApplySnapshots.

\* lockSnapshotStores: every supervisor lock but the caller's own (repo; 0 is
\* the command line) and every state lock.
StoresFree(repo) == \A r \in Repos \ {repo} : runtime[r] \notin Locking

\* A prepared migration goes on only over files that are the backup's or its own
\* outputs.
Unprogressed ==
  \A r \in Repos :
    LET b == journal.backup[r] IN
    /\ snap[r] \in {b.snap, ConvertedSnap(b.snap)}
    /\ log[r] \in {b.log, ConvertedLog(b.snap, b.log, journal.id)}

\* The whole of the inputs is validated, backed up and journalled before the
\* first of them is replaced.
Begin(kind, repo) ==
  /\ StoresFree(repo)
  /\ \/ /\ Prepared
        /\ Unprogressed
        /\ op' = [kind |-> kind, repo |-> repo, todo |-> Outputs(journal.backup)]
        /\ UNCHANGED journal
     \/ /\ ~Prepared
        /\ MustMigrate
        /\ journal.id < MaxBackups
        /\ \A r \in Repos : Convertible(snap[r], log[r], txn[r])
        /\ journal' = [status |-> "prepared", id |-> journal.id + 1, backup |-> Current]
        /\ op' = [kind |-> kind, repo |-> repo, todo |-> Outputs(Current)]

\* The conversion of the next file, always from the backup.
Convert ==
  /\ op.kind \in {"startup", "apply"}
  /\ \E r \in Repos, file \in {"snap", "log"} :
       /\ IsNext(<<r, file>>, op.todo, "log")
       /\ op' = [op EXCEPT !.todo = @ \ {<<r, file>>}]
       /\ LET b == journal.backup[r] IN
          IF file = "snap"
          THEN /\ snap' = [snap EXCEPT ![r] = ConvertedSnap(b.snap)]
               /\ UNCHANGED log
          ELSE /\ log' = [log EXCEPT ![r] = ConvertedLog(b.snap, b.log, journal.id)]
               /\ UNCHANGED snap
  /\ UNCHANGED <<txn, journal, runtime, done, undone, stops>>

\* The files are planned again and must need nothing; a supervisor that migrated
\* goes on to load its store.
Complete ==
  /\ op.kind \in {"startup", "apply"}
  /\ op.todo = {}
  /\ ~MustMigrate
  /\ \A r \in Repos : Readable(snap[r], log[r])
  /\ journal' = [journal EXCEPT !.status = "completed"]
  /\ op' = NoOp
  /\ runtime' = IF op.kind = "startup" THEN [runtime EXCEPT ![op.repo] = "up"] ELSE runtime
  /\ UNCHANGED <<snap, log, txn, done, undone, stops>>

-----------------------------------------------------------------------------
\* Restore.

\* Mutant: the revision is not compared.
MayRestoreUnchecked ==
  /\ journal.status # "none"
  /\ \A r \in Repos : ~snap[r].busy

\* The current files name no execution or continuation, and hold exactly the
\* revision of the migration; or, while it is prepared, the backup's bytes.
MayRestore ==
  /\ journal.status # "none"
  /\ \A r \in Repos :
       LET b == journal.backup[r] IN
       /\ ~snap[r].busy
       /\ \/ Prepared /\ snap[r] = b.snap
          \/ snap[r].revision = ConvertedSnap(b.snap).revision

\* What the old binary has done since the backup was taken, which its revision alone
\* does not tell from the migration's.
OldProgress == {r \in Repos : snap[r].version = 5 /\ snap[r] # journal.backup[r].snap}

\* Mutant: the LaunchAgents are not asked for.
BeginRollbackLoaded ==
  /\ op = NoOp
  /\ MayRestore
  /\ op' = [kind |-> "rollback", repo |-> 0, todo |-> Entries]
  /\ undone' = undone \cup OldProgress
  /\ UNCHANGED <<snap, log, txn, journal, runtime, done, stops>>

\* agent-loop migrate --rollback, with every LaunchAgent unloaded.
BeginRollback ==
  /\ op = NoOp
  /\ \A r \in Repos : runtime[r] = "off"
  /\ MayRestore
  /\ op' = [kind |-> "rollback", repo |-> 0, todo |-> Entries]
  /\ undone' = undone \cup OldProgress
  /\ UNCHANGED <<snap, log, txn, journal, runtime, done, stops>>

RestoreFile ==
  /\ op.kind = "rollback"
  /\ \E r \in Repos, file \in {"snap", "log"} :
       /\ IsNext(<<r, file>>, op.todo, "snap")
       /\ op' = [op EXCEPT !.todo = @ \ {<<r, file>>}]
       /\ IF file = "snap"
          THEN /\ snap' = [snap EXCEPT ![r] = journal.backup[r].snap]
               /\ UNCHANGED log
          ELSE /\ log' = [log EXCEPT ![r] = journal.backup[r].log]
               /\ UNCHANGED snap
  /\ UNCHANGED <<txn, journal, runtime, done, undone, stops>>

EndRollback ==
  /\ op.kind = "rollback"
  /\ op.todo = {}
  /\ journal' = [journal EXCEPT !.status = "rolled_back"]
  /\ op' = NoOp
  /\ UNCHANGED <<snap, log, txn, runtime, done, undone, stops>>

\* The process dies, which releases its locks, or a write fails.
Stop ==
  /\ op # NoOp
  /\ stops < MaxStops
  /\ stops' = stops + 1
  /\ op' = NoOp
  /\ IF op.kind = "startup"
     THEN \E s \in {"off", "blocked"} : runtime' = [runtime EXCEPT ![op.repo] = s]
     ELSE UNCHANGED runtime
  /\ UNCHANGED <<snap, log, txn, journal, done, undone>>

-----------------------------------------------------------------------------
\* The command line: start, restart and migrate --apply.

Apply ==
  /\ op = NoOp
  /\ Begin("apply", 0)
  /\ UNCHANGED <<snap, log, txn, runtime, done, undone, stops>>

\* The supervisor of the new binary: Run takes its supervisor lock, converts,
\* and loads its store, which the prepared journal would refuse.
Start(r) ==
  /\ runtime[r] \in {"off", "blocked"}
  /\ op = NoOp
  /\ runtime' = [runtime EXCEPT ![r] = "starting"]
  /\ UNCHANGED <<snap, log, txn, journal, op, done, undone, stops>>

StartConverted(r) ==
  /\ runtime[r] = "starting"
  /\ op = NoOp
  /\ ~Prepared
  /\ snap[r].version = 6
  /\ runtime' = [runtime EXCEPT ![r] = "up"]
  /\ UNCHANGED <<snap, log, txn, journal, op, done, undone, stops>>

StartConverts(r) ==
  /\ runtime[r] = "starting"
  /\ op = NoOp
  /\ Prepared \/ snap[r].version = 5
  /\ Begin("startup", r)
  /\ UNCHANGED <<snap, log, txn, runtime, done, undone, stops>>

\* The guards of StartConverted and StartConverts both fail: a BlockedError.
StartRefused(r) ==
  /\ runtime[r] = "starting"
  /\ op.repo # r
  /\ ~(op = NoOp /\ ~Prepared /\ snap[r].version = 6)
  /\ ~(op = NoOp /\ StoresFree(r) /\
         IF Prepared THEN Unprogressed
         ELSE \A q \in Repos : Convertible(snap[q], log[q], txn[q]))
  /\ runtime' = [runtime EXCEPT ![r] = "blocked"]
  /\ UNCHANGED <<snap, log, txn, journal, op, done, undone, stops>>

\* A commit of a store: of the supervisor, or of a command while no migration
\* holds the state lock.
Commit(r, busy) ==
  /\ snap' = [snap EXCEPT ![r].revision = @ + 1, ![r].busy = busy]
  /\ log' = [log EXCEPT ![r].entries = Append(@, Work)]
  /\ done' = [done EXCEPT ![r] = @ + 1]

\* Mutant: the store does not look at the journal.
UpdateUnbarred(r) ==
  /\ op = NoOp
  /\ snap[r].version = 6
  /\ Readable(snap[r], log[r])
  /\ \E busy \in BOOLEAN : Commit(r, busy)
  /\ UNCHANGED <<txn, journal, runtime, op, undone, stops>>

Update(r) ==
  /\ op = NoOp
  /\ ~Prepared
  /\ snap[r].version = 6
  /\ Readable(snap[r], log[r])
  /\ \E busy \in BOOLEAN : Commit(r, busy)
  /\ UNCHANGED <<txn, journal, runtime, op, undone, stops>>

Exit(r) ==
  /\ runtime[r] \in {"up", "blocked"}
  /\ runtime' = [runtime EXCEPT ![r] = "off"]
  /\ UNCHANGED <<snap, log, txn, journal, op, done, undone, stops>>

-----------------------------------------------------------------------------
\* The old binary (external). It reads version 5 only, holds the same supervisor
\* lock, and replays a prepared transaction when it starts.

OldStart(r) ==
  /\ runtime[r] = "off"
  /\ op = NoOp
  /\ journal.status \in OldStatuses
  /\ snap[r].version = 5
  /\ Readable(snap[r], log[r])
  /\ runtime' = [runtime EXCEPT ![r] = "old"]
  /\ txn' = [txn EXCEPT ![r] = FALSE]
  /\ IF txn[r] THEN Commit(r, snap[r].busy) ELSE UNCHANGED <<snap, log, done>>
  /\ UNCHANGED <<journal, op, undone, stops>>

OldUpdate(r) ==
  /\ runtime[r] = "old"
  /\ \E busy \in BOOLEAN : Commit(r, busy)
  /\ UNCHANGED <<txn, journal, runtime, op, undone, stops>>

\* It stops, or dies while it commits.
OldEnd(r) ==
  /\ runtime[r] = "old"
  /\ runtime' = [runtime EXCEPT ![r] = "off"]
  /\ \E pending \in BOOLEAN : txn' = [txn EXCEPT ![r] = pending]
  /\ UNCHANGED <<snap, log, journal, op, done, undone, stops>>

-----------------------------------------------------------------------------

TotalWork ==
  LET Sum[n \in Repos \cup {0}] == IF n = 0 THEN 0 ELSE Sum[n - 1] + done[n]
  IN Sum[NumRepos]

MayWork == TotalWork < MaxWork

MigrationInit ==
  /\ snap = [r \in Repos |-> [version |-> 5, revision |-> 0, busy |-> FALSE]]
  /\ log = [r \in Repos |-> [version |-> 5, entries |-> <<>>]]
  /\ txn = [r \in Repos |-> FALSE]
  /\ journal = [status |-> "none", id |-> 0, backup |-> NoBackup]
  /\ runtime = [r \in Repos |-> "off"]
  /\ op = NoOp
  /\ done = [r \in Repos |-> 0]
  /\ undone = {}
  /\ stops = 0

MigrationNext ==
  \/ Convert
  \/ Complete
  \/ BeginRollback
  \/ RestoreFile
  \/ EndRollback
  \/ Stop
  \/ Apply
  \/ \E r \in Repos :
       \/ Start(r)
       \/ StartConverted(r)
       \/ StartConverts(r)
       \/ StartRefused(r)
       \/ MayWork /\ Update(r)
       \/ Exit(r)
       \/ MayWork /\ OldStart(r)
       \/ MayWork /\ OldUpdate(r)
       \/ OldEnd(r)

MigrationSpec == MigrationInit /\ [][MigrationNext]_migrationVars

-----------------------------------------------------------------------------

Snapshots == [version : {5, 6}, revision : Nat, busy : BOOLEAN]
Logs == [version : {5, 6}, entries : Seq(IDs \cup {Work})]
\* The type invariant; a journal that exists names a whole backup.
MigrationTypeOK ==
  /\ snap \in [Repos -> Snapshots]
  /\ log \in [Repos -> Logs]
  /\ txn \in [Repos -> BOOLEAN]
  /\ \/ journal = [status |-> "none", id |-> 0, backup |-> NoBackup]
     \/ journal \in [status : Statuses \ {"none"}, id : IDs,
                     backup : [Repos -> [snap : Snapshots, log : Logs]]]
  /\ runtime \in [Repos -> {"off", "old", "starting", "up", "blocked"}]
  /\ op \in [kind : {"none", "startup", "apply", "rollback"}, repo : Repos \cup {0},
            todo : SUBSET Files]
  /\ done \in [Repos -> Nat] /\ undone \subseteq Repos
  /\ stops \in 0..MaxStops

WorkIn(entries) == Cardinality({i \in DOMAIN entries : entries[i] = Work})

Durable(r) == WorkIn(log[r].entries) = done[r]

\* Neither a migration, nor one that is taken up again, nor a rollback drops work that
\* a runtime was told is durable (planSnapshots keeps every event,
\* ensureRollbackHasNoProgress refuses to go back over later ones); except that a
\* rollback takes one commit of the old binary for the migration's own.
MigrationKeepsWork == \A r \in Repos \ undone : Durable(r)

\* The same without the exception (docs/migration.md:49): a rollback refuses wherever
\* a runtime, of either version, has gone on (ensureRollbackHasNoProgress).
NoWorkDropped == \A r \in Repos : Durable(r)

\* While a runtime of the new binary runs, its snapshot and its log are of the
\* new version and agree; a half migrated or half restored pair is never loaded.
RuntimeSeesWhole ==
  \A r \in Repos : runtime[r] = "up" => snap[r].version = 6 /\ Readable(snap[r], log[r])

\* A migration that was interrupted can always be taken up again: every file is
\* still the backup's or already the converted one, unless the old runtime
\* was started meanwhile.
PreparedResumable == Prepared /\ "prepared" \notin OldStatuses => Unprogressed

\* A rollback that was interrupted can be run again, or the migration repeated.
RollbackRestartable ==
  op = NoOp /\ journal.status # "none" /\ (\A r \in Repos : ~snap[r].busy /\ ~txn[r]) =>
    MayRestore \/ (\A r \in Repos : Readable(snap[r], log[r]))
=============================================================================
