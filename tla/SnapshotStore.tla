---------------------------- MODULE SnapshotStore ----------------------------
(* Metadata snapshots in SQLite and the processes that import them: the host *)
(* server and the command line call Il2CppDumpImporter.import_file on the    *)
(* same database (metadata/importer.py, storage/database.py), and queries    *)
(* keep keys of the members they found (metadata/repository.py).             *)
(*                                                                           *)
(* A snapshot is named by the digest of its dump.  The importer hashes the   *)
(* file, reads the snapshot's state outside any transaction, and only then   *)
(* takes the write lock; the file is opened again for the import.             *)
EXTENDS DumpRows

CONSTANTS Importers,    \* processes that import
          Paths,        \* dump files
          Dumps,        \* dumps; a digest is identified with the dump it is of
          Content,      \* the entries of each dump
          None,
          MaxImports,   \* bound on the imports that are started
          MaxRewrites   \* bound on the times a file is overwritten

ASSUME ConstantsOK ==
    /\ None \notin Dumps \cup Paths
    /\ DOMAIN Content = Dumps /\ \A d \in Dumps : IsDump(Content[d])
    /\ MaxImports \in Nat /\ MaxRewrites \in Nat

VARIABLES file,      \* contents of each path
          row,       \* snapshot rows: None, or state, contents and first member key
          active,    \* the snapshot with active = 1, or None
          lastKey,   \* sqlite_sequence: the largest member key ever committed
          search,    \* keys in members_fts, with their snapshot
          lock,      \* the importer that holds SQLite's write lock, or None
          imp,       \* the importers' local state
          held,      \* members that a query found and its caller kept
          lost,      \* complete snapshots that were replaced or removed
          started, rewrites

vars == <<file, row, active, lastKey, search, lock, imp, held, lost, started, rewrites>>

\* The member rows of each dump, in the order of their keys.
Rows == [d \in Dumps |-> Members(Content[d])]

Rejected == {d \in Dumps : Collides(Content[d])}

Idle == [pc |-> "idle", path |-> None, digest |-> None, seen |-> None, activate |-> FALSE]

Steps == {"idle", "hashed", "reuse", "begin", "inserting", "failed"}

Seen == {None, "absent", "complete", "failed"}

Row == [state : {"complete", "failed"}, dump : Dumps \cup {None}, base : Nat]

ASSUME NoneIsApart == None \notin Row \cup Importers

TypeOK ==
    /\ file \in [Paths -> Dumps]
    /\ row \in [Dumps -> Row \cup {None}]
    /\ active \in Dumps \cup {None}
    /\ lastKey \in Nat
    /\ \A s \in search : s.snapshot \in Dumps /\ s.key \in 1..lastKey
    /\ lock \in Importers \cup {None}
    /\ imp \in [Importers -> [pc : Steps, path : Paths \cup {None}, digest : Dumps \cup {None},
                              seen : Seen, activate : BOOLEAN]]
    /\ lock # None => imp[lock].pc = "inserting"
    /\ lost \subseteq Dumps

Init ==
    /\ file \in [Paths -> Dumps]
    /\ row = [d \in Dumps |-> None]
    /\ active = None /\ lastKey = 0 /\ search = {} /\ lock = None
    /\ imp = [i \in Importers |-> Idle]
    /\ held = {} /\ lost = {} /\ started = 0 /\ rewrites = 0

-----------------------------------------------------------------------------
(* What the tables say *)

StateOf(d) == IF row[d] = None THEN "absent" ELSE row[d].state

\* The keys of the members of a snapshot row.
KeysOf(r) == IF r = None \/ r.dump = None THEN {}
             ELSE r.base + 1 .. r.base + Len(Rows[r.dump])

\* member_by_pk: the member a key denotes in a snapshot, or None.
MemberByPk(d, key) ==
    IF key \in KeysOf(row[d]) THEN Rows[row[d].dump][key - row[d].base] ELSE None

\* _activate, and what deleting the row of the active snapshot comes to.
Activated(d, r) == IF r # None /\ r.state = "complete" THEN d ELSE None

-----------------------------------------------------------------------------
(* import_file, one step per statement that other processes can see between *)

Goto(i, pc) == imp' = [imp EXCEPT ![i].pc = pc]

Finish(i) == imp' = [imp EXCEPT ![i] = Idle]

\* The call, up to the digest.
Hash(i, p, activate) ==
    /\ imp[i].pc = "idle" /\ started < MaxImports
    /\ imp' = [imp EXCEPT ![i] = [pc |-> "hashed", path |-> p, digest |-> file[p],
                                  seen |-> None, activate |-> activate]]
    /\ started' = started + 1
    /\ UNCHANGED <<file, row, active, lastKey, search, lock, held, lost, rewrites>>

\* Seeded fault: a dump is imported again whenever its snapshot exists.
ReusableNever(state) == FALSE

\* A snapshot is imported once.
Reusable(state) == state = "complete"

\* SELECT import_state: its own transaction.
ReadState(i) ==
    /\ imp[i].pc = "hashed"
    /\ LET state == StateOf(imp[i].digest)
       IN  imp' = [imp EXCEPT ![i].seen = state,
                              ![i].pc = IF Reusable(state) THEN "reuse" ELSE "begin"]
    /\ UNCHANGED <<file, row, active, lastKey, search, lock, held, lost, started, rewrites>>

\* The dump is there already: activate it, if asked, and report its counts.
Reuse(i) ==
    /\ imp[i].pc = "reuse"
    /\ imp[i].activate => lock = None
    /\ LET d == imp[i].digest
       IN  active' = IF imp[i].activate THEN Activated(d, row[d]) ELSE active
    /\ Finish(i)
    /\ UNCHANGED <<file, row, lastKey, search, lock, held, lost, started, rewrites>>

\* BEGIN IMMEDIATE, DELETE and INSERT; the INSERT is refused when a row that
\* was not there has appeared, and closing the connection ends the transaction.
Begin(i) ==
    /\ imp[i].pc = "begin" /\ lock = None
    /\ IF imp[i].seen = "absent" /\ row[imp[i].digest] # None
       THEN Finish(i) /\ lock' = lock
       ELSE Goto(i, "inserting") /\ lock' = i
    /\ UNCHANGED <<file, row, active, lastKey, search, held, lost, started, rewrites>>

\* SQLite gives up on the lock after busy_timeout: the error leaves import_file.
LockTimeout(i) ==
    /\ lock # None /\ lock # i
    /\ \/ imp[i].pc \in {"begin", "failed"}
       \/ imp[i].pc = "reuse" /\ imp[i].activate
    /\ Finish(i)
    /\ UNCHANGED <<file, row, active, lastKey, search, lock, held, lost, started, rewrites>>

\* Seeded fault: members lose AUTOINCREMENT and keys of deleted rows come back.
LastKeyInUse ==
    LET keys == UNION {KeysOf(row[d]) : d \in Dumps}
    IN  IF keys = {} THEN 0 ELSE CHOOSE k \in keys : \A j \in keys : j <= k

\* AUTOINCREMENT: new keys follow the largest key there ever was.
LastKey == lastKey

\* Seeded fault: the active snapshot is put out of use before the question
\* whether to activate the new one.
ActiveAfterAlways(i) == IF imp[i].activate THEN imp[i].digest ELSE None

\* The active snapshot once an import is committed; a replaced row is inactive.
ActiveAfter(i) ==
    IF imp[i].activate THEN imp[i].digest
    ELSE IF active = imp[i].digest THEN None ELSE active

\* The file as it is now is read to its end and everything is committed.  The
\* foreign keys delete all rows of a replaced snapshot but the full-text ones.
Commit(i) ==
    /\ imp[i].pc = "inserting"
    /\ LET d == imp[i].digest
           dump == file[imp[i].path]
           new == [state |-> "complete", dump |-> dump, base |-> LastKey]
       IN  /\ dump \notin Rejected
           /\ row' = [row EXCEPT ![d] = new]
           /\ lastKey' = LastKey + Len(Rows[dump])
           /\ search' = search \cup {[snapshot |-> d, key |-> k] : k \in KeysOf(new)}
           /\ active' = ActiveAfter(i)
           /\ lost' = IF StateOf(d) = "complete" THEN lost \cup {d} ELSE lost
    /\ lock' = None
    /\ Finish(i)
    /\ UNCHANGED <<file, held, started, rewrites>>

\* Seeded fault: the failure is recorded inside the open transaction.
RollbackNever(i) ==
    /\ imp[i].pc = "inserting"
    /\ Goto(i, "failed")
    /\ UNCHANGED <<file, row, active, lastKey, search, lock, held, lost, started, rewrites>>

\* The import raises, at the latest at a row the schema rejects: rollback.
Rollback(i) ==
    /\ imp[i].pc = "inserting"
    /\ lock' = None
    /\ Goto(i, "failed")
    /\ UNCHANGED <<file, row, active, lastKey, search, held, lost, started, rewrites>>

\* A second connection replaces the snapshot's row by a failed one.
RecordFailure(i) ==
    /\ imp[i].pc = "failed" /\ lock = None
    /\ LET d == imp[i].digest
       IN  /\ row' = [row EXCEPT ![d] = [state |-> "failed", dump |-> None, base |-> 0]]
           /\ active' = IF active = d THEN None ELSE active
           /\ lost' = IF StateOf(d) = "complete" THEN lost \cup {d} ELSE lost
    /\ Finish(i)
    /\ UNCHANGED <<file, lastKey, search, lock, held, started, rewrites>>

\* The process dies: SQLite rolls its transaction back.
Die(i) ==
    /\ imp[i].pc # "idle"
    /\ lock' = IF lock = i THEN None ELSE lock
    /\ Finish(i)
    /\ UNCHANGED <<file, row, active, lastKey, search, held, lost, started, rewrites>>

-----------------------------------------------------------------------------
(* Everyone else *)

\* A dump is written to a path that was imported from.
Rewrite(p, d) ==
    /\ rewrites < MaxRewrites /\ file[p] # d
    /\ file' = [file EXCEPT ![p] = d]
    /\ rewrites' = rewrites + 1
    /\ UNCHANGED <<row, active, lastKey, search, lock, imp, held, lost, started>>

\* A query finds a member; the caller keeps its snapshot and key in a MemberRef.
LookUp(d, key) ==
    /\ held = {}
    /\ MemberByPk(d, key) # None
    /\ held' = {[snapshot |-> d, key |-> key, member |-> MemberByPk(d, key)]}
    /\ UNCHANGED <<file, row, active, lastKey, search, lock, imp, lost, started, rewrites>>

Step(i) ==
    \/ ReadState(i) \/ Reuse(i) \/ Begin(i) \/ LockTimeout(i)
    \/ Commit(i) \/ Rollback(i) \/ RecordFailure(i)

Next ==
    \/ \E i \in Importers :
          \/ \E p \in Paths, activate \in BOOLEAN : Hash(i, p, activate)
          \/ ReadState(i) \/ Reuse(i) \/ Begin(i) \/ LockTimeout(i)
          \/ Commit(i) \/ Rollback(i) \/ RecordFailure(i) \/ Die(i)
    \/ \E p \in Paths, d \in Dumps : Rewrite(p, d)
    \/ \E d \in Dumps : \E key \in KeysOf(row[d]) : LookUp(d, key)

Spec == Init /\ [][Next]_vars

\* Every importer that lives goes on.
LiveSpec == Spec /\ \A i \in Importers : WF_vars(Step(i))

-----------------------------------------------------------------------------
(* Properties *)

\* Whatever happens to the snapshot a member was found in, the key of the
\* member never comes to denote another one: member_by_pk finds it or nothing.
KeysDenoteOneMember ==
    \A h \in held : MemberByPk(h.snapshot, h.key) \in {h.member, None}

\* The members of the dump are its rows, and the search index knows them.
IsSearchable(d) == \A key \in KeysOf(row[d]) : [snapshot |-> d, key |-> key] \in search

\* Edges lead from the type that declares a member to a type of the member.
EdgesJoin(dump) ==
    \A e \in Edges(Content[dump]) : e.member # <<>> =>
        \E m \in Range(Rows[dump]) :
            /\ StableKey(m) = e.member /\ m.owner = e.source
            /\ e.target \in {m.type} \cup Range(m.params)

\* No logical property is listed twice, once as declared and once as inferred.
PropertiesOnce(dump) ==
    LET logical == {k \in DOMAIN Rows[dump] :
                      Rows[dump][k].kind \in {"tdb_property", "synthetic_property"}}
    IN  \A j, k \in logical :
           LET m == Rows[dump][j]
               n == Rows[dump][k]
           IN  <<m.owner, m.name, m.params>> = <<n.owner, n.name, n.params>> => j = k

\* What queries use when they name no snapshot is completely imported, is the
\* dump it is named after unless the file was overwritten, and hangs together.
ActiveIsWhole ==
    active # None =>
        LET r == row[active]
        IN  /\ r # None /\ r.state = "complete"
            /\ rewrites = 0 => r.dump = active
            /\ IsSearchable(active) /\ EdgesJoin(r.dump) /\ PropertiesOnce(r.dump)

\* What queries rely on: tables of the declared form, an active snapshot that
\* is whole, and keys that do not change their meaning.
StoreIsSound == TypeOK /\ ActiveIsWhole /\ KeysDenoteOneMember

\* Every import comes to an end, also when two wait for one lock.
ImportsEnd == \A i \in Importers : imp[i].pc # "idle" ~> imp[i].pc = "idle"

\* A complete snapshot is only replaced or removed by an import of its own dump
\* that had not seen it complete: no other import, failure or death touches it.
CompleteIsKept ==
    [][\A d \in Dumps : StateOf(d) = "complete" /\ row'[d] # row[d] =>
          \E i \in Importers : imp[i].digest = d /\ imp[i].seen # "complete"]_vars

\* There is an active snapshot from the first activation on, unless a complete
\* one has been removed by a second import of its dump.
ActiveIsKept == [][active # None => active' # None \/ lost' # {}]_vars
=============================================================================
