------------------------------ MODULE ModuleDB ------------------------------
(***************************************************************************)
(* How the ORM layer hands out databases: BaseDao and the registry of the  *)
(* one database that is open (BaseDao.kt, ModuleDB.kt), the open helper    *)
(* each opening makes (ModuleDatabaseHelper.kt), and the creation or       *)
(* upgrade of the file it runs (module ModuleDBMigration).                 *)
(*                                                                         *)
(* Nothing in the registry is locked, so a thread takes one step for each  *)
(* field it reads or assigns; a condition that reads several is one step.  *)
(* Nor is dbName of the one ModuleDBMigrationHelper of the process, which  *)
(* an upgrade assigns and later reads: only the monitor of a helper and    *)
(* the transaction on a file keep upgrades apart, and two of different     *)
(* databases share neither.                                                *)
(* The platform's SQLiteOpenHelper is external: it holds its monitor while *)
(* it opens, and runs the upgrade in an exclusive transaction, but reads   *)
(* the file's version before it begins that transaction.  A crash ends     *)
(* every thread and every transaction and loses what is in memory.         *)
(***************************************************************************)
EXTENDS ModuleDBMigration, FiniteSets

CONSTANTS
  Thread,    \* threads that call DAOs
  Instances, \* bound: ModuleDB objects in use at once
  Helpers,   \* bound: helpers in use at once
  Firsts,    \* what the files may hold at first
  Faults,    \* what goes wrong: "open", "busy", "create", "copy", "restore",
             \* "drop" (a statement nobody catches), "commit", "crash"
  MaxFaults, \* bound: how often something does
  MaxCalls,  \* bound: calls of getDatabase for each name
  None       \* null

Instance == 1..Instances
Helper == 1..Helpers

ASSUME RegistryAssumption ==
  /\ Firsts \subseteq [Name -> Contents]
  /\ \A first \in Firsts : \A n \in Name : Found(first[n])
  /\ None \notin Thread \cup Name \cup Instance \cup Helper
  /\ {Instances, Helpers, MaxFaults} \subseteq Nat
  /\ MaxCalls \in [Name -> Nat]

VARIABLES
  mInstance, \* ModuleDB.mInstance
  moduleDB,  \* BaseDao.moduleDB of the one DAO
  fields,    \* db, currentDb and helper of each ModuleDB; a database object is
             \* named by the helper that opened it
  dbName,    \* dbName of ModuleDBMigrationHelper.mInstance
  helpers,   \* of each helper: its database's name, whether mDatabase is open
  call,      \* what each thread does
  disk,      \* the committed content of each file
  writing,   \* the thread that is in an exclusive transaction on each file
  work,      \* the content it sees
  faults,    \* faults so far
  calls      \* calls of getDatabase for each name so far

vars == <<mInstance, moduleDB, fields, dbName, helpers, call, disk, writing, work,
          faults, calls>>
registry == <<mInstance, moduleDB, fields, dbName>>
files == <<disk, writing, work>>
bounds == <<faults, calls>>

NoFields == [db |-> None, currentDb |-> None, helper |-> None]
NoHelper == [name |-> None, open |-> FALSE]
Idle == [at |-> "idle", name |-> None, again |-> FALSE, self |-> None,
         made |-> None, helper |-> None, version |-> 0, next |-> 0, stale |-> FALSE]

Registry == {"create", "new", "open", "writable", "assign", "current", "close",
             "closeHelper", "forget", "made", "get", "return", "has"}
Upgrade == {"migrate", "copy", "rebuild", "restore", "sweep", "delete", "setVersion"}
InHelper == {"begin", "onCreate", "doomed"} \cup Upgrade

\* The objects something still refers to.
UsedInstances ==
  ({mInstance, moduleDB} \cup {call[t].self : t \in Thread} \cup {call[t].made : t \in Thread})
    \ {None}
UsedHelpers ==
  (UNION {{fields[i].db, fields[i].helper} : i \in UsedInstances})
    \cup {call[t].helper : t \in Thread}

IsOpen(h) == h # None /\ helpers[h].open
HeldByOther(h, t) ==
  \E u \in Thread \ {t} : call[u].at \in InHelper /\ call[u].helper = h

Fault(kind) ==
  /\ kind \in Faults /\ faults < MaxFaults
  /\ faults' = faults + 1 /\ UNCHANGED calls
\* Thread t goes on at the place named, or lets an exception out.
Goes(t, place) == call' = [call EXCEPT ![t].at = place]
Throws(t) == call' = [call EXCEPT ![t] = Idle]

Init ==
  /\ mInstance = None /\ moduleDB = None /\ dbName = None
  /\ fields = [i \in Instance |-> NoFields]
  /\ helpers = [h \in Helper |-> NoHelper]
  /\ call = [t \in Thread |-> Idle]
  /\ disk \in Firsts /\ work = disk
  /\ writing = [n \in Name |-> None]
  /\ faults = 0 /\ calls = [n \in Name |-> 0]

----------------------------------------------------------------------------
(* BaseDao.getDatabase and ModuleDB.create, getDatabase and close.         *)

\* create: what it does depends on the database that is open.
OtherIsOpen(n) ==
  /\ fields[mInstance].db # None
  /\ fields[mInstance].currentDb # n

Creates(n) ==
  IF mInstance = None THEN "new" ELSE IF OtherIsOpen(n) THEN "close" ELSE "made"

GetDatabase(t, n) ==
  /\ call[t].at = "idle"
  /\ calls[n] < MaxCalls[n]
  /\ calls' = [calls EXCEPT ![n] = @ + 1]
  /\ call' = [call EXCEPT ![t] = [Idle EXCEPT !.at = Creates(n), !.name = n]]
  /\ UNCHANGED <<registry, helpers, files, faults>>

CreateAgain(t) ==
  /\ call[t].at = "create"
  /\ Goes(t, Creates(call[t].name))
  /\ UNCHANGED <<registry, helpers, files, bounds>>

NewInstance(t) ==
  /\ call[t].at = "new"
  /\ \E i \in Instance \ UsedInstances :
       /\ \A j \in Instance \ UsedInstances : i <= j
       /\ mInstance' = i
       /\ fields' = [j \in Instance |-> IF j \in UsedInstances THEN fields[j] ELSE NoFields]
  /\ Goes(t, "open")
  /\ UNCHANGED <<moduleDB, dbName, helpers, files, bounds>>

\* mInstance!!.open(dbName), on the instance that is there by now.
Open(t) ==
  /\ call[t].at = "open"
  /\ \/ /\ mInstance = None
        /\ Throws(t)
        /\ UNCHANGED <<registry, helpers>>
     \/ /\ mInstance # None
        /\ \E h \in Helper \ UsedHelpers :
             /\ \A k \in Helper \ UsedHelpers : h <= k
             /\ helpers' = [k \in Helper |-> IF k \in UsedHelpers THEN helpers[k]
                  ELSE [NoHelper EXCEPT !.name = IF k = h THEN call[t].name ELSE None]]
             /\ fields' = [fields EXCEPT ![mInstance].helper = h]
        /\ call' = [call EXCEPT ![t].at = "writable", ![t].made = mInstance]
        /\ UNCHANGED <<mInstance, moduleDB, dbName>>
  /\ UNCHANGED <<files, bounds>>

AssignDb(t) ==
  /\ call[t].at = "assign"
  /\ fields' = [fields EXCEPT ![call[t].made].db = call[t].helper]
  /\ call' = [call EXCEPT ![t] = [Idle EXCEPT !.at = "current",
       !.name = call[t].name, !.again = call[t].again, !.self = call[t].self]]
  /\ UNCHANGED <<mInstance, moduleDB, dbName, helpers, files, bounds>>

\* mInstance!!.currentDb = dbName, on the instance that is there by now.
AssignCurrentDb(t) ==
  /\ call[t].at = "current"
  /\ \/ /\ mInstance = None
        /\ Throws(t)
        /\ UNCHANGED fields
     \/ /\ mInstance # None
        /\ fields' = [fields EXCEPT ![mInstance].currentDb = call[t].name]
        /\ Goes(t, "made")
  /\ UNCHANGED <<mInstance, moduleDB, dbName, helpers, files, bounds>>

Closed(h) == IF h = None THEN helpers ELSE [helpers EXCEPT ![h].open = FALSE]

CloseDb(t) ==
  /\ call[t].at = "close"
  /\ helpers' = IF mInstance = None THEN helpers ELSE Closed(fields[mInstance].db)
  /\ Goes(t, IF mInstance = None THEN "new" ELSE "closeHelper")
  /\ UNCHANGED <<registry, files, bounds>>

\* helper!!.close() waits for the helper's monitor.
CloseHelper(t) ==
  /\ call[t].at = "closeHelper"
  /\ \/ /\ mInstance = None
        /\ Throws(t)
        /\ UNCHANGED <<fields, helpers>>
     \/ /\ mInstance # None
        /\ ~HeldByOther(fields[mInstance].helper, t)
        /\ helpers' = Closed(fields[mInstance].helper)
        /\ fields' = [fields EXCEPT ![mInstance].helper = None]
        /\ Goes(t, "forget")
  /\ UNCHANGED <<mInstance, moduleDB, dbName, files, bounds>>

Forget(t) ==
  /\ call[t].at = "forget"
  /\ mInstance' = None
  /\ Goes(t, "new")
  /\ UNCHANGED <<moduleDB, fields, dbName, helpers, files, bounds>>

\* create returns mInstance: to connectionDB, which keeps it, or to getDatabase.
Made(t) ==
  /\ call[t].at = "made"
  /\ moduleDB' = IF call[t].again THEN moduleDB ELSE mInstance
  /\ Goes(t, IF call[t].again THEN "return" ELSE "get")
  /\ UNCHANGED <<mInstance, fields, dbName, helpers, files, bounds>>

Get(t) ==
  /\ call[t].at = "get"
  /\ \/ /\ moduleDB = None
        /\ Throws(t)
     \/ /\ moduleDB # None
        /\ LET open == IsOpen(fields[moduleDB].db)
           IN  call' = [call EXCEPT ![t].at = IF open THEN "return" ELSE "create",
                                    ![t].again = ~open, ![t].self = moduleDB]
  /\ UNCHANGED <<registry, helpers, files, bounds>>

\* return db!!
Return(t) ==
  /\ call[t].at = "return"
  /\ LET db == fields[call[t].self].db
     IN  IF db = None THEN Throws(t)
         ELSE call' = [call EXCEPT ![t] = [Idle EXCEPT !.at = "has", !.helper = db]]
  /\ UNCHANGED <<registry, helpers, files, bounds>>

\* The DAO inserts a row, outside any transaction, and is done.
Insert(t, table, row) ==
  LET h == call[t].helper
      n == helpers[h].name
  IN  /\ call[t].at = "has"
      /\ helpers[h].open
      /\ writing[n] = None
      /\ table \in TablesOf(disk[n])
      /\ row \notin disk[n].rows[table]
      /\ disk' = [disk EXCEPT ![n].rows[table] = @ \cup {row},
                              ![n].written[table] = @ \cup {row}]
      /\ Throws(t)
      /\ UNCHANGED <<registry, helpers, writing, work, bounds>>

Done(t) ==
  /\ call[t].at = "has"
  /\ Throws(t)
  /\ UNCHANGED <<registry, helpers, files, bounds>>

----------------------------------------------------------------------------
(* SQLiteOpenHelper.getWritableDatabase, with the callbacks of             *)
(* ModuleDatabaseHelper.                                                   *)

\* The file thread t opens.
FileOf(t) == helpers[call[t].helper].name

IsCurrent_Created(version) == version # 0

IsCurrent(version) == version = New

\* The version is read, which decides whether anything is to be done.
GetWritable(t) ==
  /\ call[t].at = "writable"
  /\ LET h == fields[call[t].made].helper
     IN  \/ /\ \/ h = None /\ UNCHANGED bounds
               \/ h # None /\ Fault("open")
            /\ Throws(t)
            /\ UNCHANGED helpers
         \/ /\ h # None
            /\ ~HeldByOther(h, t)
            /\ LET version == disk[helpers[h].name].version
                   ready == helpers[h].open \/ IsCurrent(version)
               IN  /\ call' = [call EXCEPT ![t].helper = h, ![t].version = version,
                                           ![t].at = IF ready THEN "assign" ELSE "begin"]
                   /\ helpers' = [helpers EXCEPT ![h].open = ready]
            /\ UNCHANGED bounds
  /\ UNCHANGED <<registry, files>>

\* endTransaction without success: the file is as it was.
RollsBack(t) ==
  /\ writing' = [writing EXCEPT ![FileOf(t)] = None]
  /\ work' = [work EXCEPT ![FileOf(t)] = disk[FileOf(t)]]
  /\ UNCHANGED disk

\* An exception leaves the helper, which closes the database.
Aborts(kind, t) ==
  /\ Fault(kind)
  /\ RollsBack(t)
  /\ Throws(t)
  /\ UNCHANGED <<registry, helpers>>

\* The transaction sees the content c, and the thread goes on with what follows.
Sees(t, c, followed) ==
  /\ work' = [work EXCEPT ![FileOf(t)] = c]
  /\ call' = [call EXCEPT ![t] = followed]
  /\ UNCHANGED <<registry, helpers, disk, writing>>
Runs(t, c, followed) == Sees(t, c, followed) /\ UNCHANGED bounds
Fails(kind, t, c, followed) == Fault(kind) /\ Sees(t, c, followed)

UpdateList(t) == Updates[FileOf(t)][call[t].version]
DeleteList(t) == Deletes[FileOf(t)][call[t].version]

\* onUpgrade looks up the lists of the version it comes from.
UpgradeFrom(n, v) == IF Updates[n][v] = <<>> THEN "delete" ELSE "migrate"

Begin(t) ==
  /\ call[t].at = "begin"
  /\ \/ /\ writing[FileOf(t)] = None
        /\ writing' = [writing EXCEPT ![FileOf(t)] = t]
        /\ work' = [work EXCEPT ![FileOf(t)] = disk[FileOf(t)]]
        /\ call' = [call EXCEPT ![t].next = 1, ![t].stale = FALSE,
             ![t].at = IF call[t].version = 0 THEN "onCreate"
                      ELSE UpgradeFrom(FileOf(t), call[t].version)]
        /\ UNCHANGED bounds
     \/ /\ writing[FileOf(t)] # None
        /\ Fault("busy")
        /\ Throws(t)
        /\ UNCHANGED <<writing, work>>
  /\ UNCHANGED <<registry, helpers, disk>>

\* What createAllTables throws is caught, but its transaction is nested in the
\* helper's and ends without success, which undoes both; the helper is not told.
OnCreate(t) ==
  /\ call[t].at = "onCreate"
  /\ \/ Runs(t, AllTablesCreated(work[FileOf(t)], FileOf(t)), [call[t] EXCEPT !.at = "setVersion"])
     \/ Fails("create", t, work[FileOf(t)], [call[t] EXCEPT !.at = "doomed"])

EndDoomed(t) ==
  /\ call[t].at = "doomed"
  /\ RollsBack(t)
  /\ helpers' = [helpers EXCEPT ![call[t].helper].open = TRUE]
  /\ Goes(t, "assign")
  /\ UNCHANGED <<registry, bounds>>

\* The next table of the update list, or what follows the loop over them.
NextTable(t, followed) ==
  IF call[t].next < Len(UpdateList(t)) THEN [call[t] EXCEPT !.next = @ + 1]
  ELSE [call[t] EXCEPT !.at = followed, !.next = 1]

\* migrateSpecifyTable begins: from here on, until another upgrade comes here, the
\* one migration helper takes every file it works on for that of this database.
MigrateSpecifyTable(t) ==
  /\ call[t].at = "migrate"
  /\ dbName' = FileOf(t)
  /\ Goes(t, "copy")
  /\ UNCHANGED <<mInstance, moduleDB, fields, helpers, files, bounds>>

BuildTempTable(t) ==
  LET c == work[FileOf(t)]
      table == UpdateList(t)[call[t].next]
      on == NextTable(t, "rebuild")
  IN  /\ call[t].at = "copy"
      /\ \/ /\ table \notin TablesOf(c)
            /\ Runs(t, c, on)
         \/ /\ table \in TablesOf(c)
            /\ \/ Runs(t, CopiedAside(c, table), on)
               \/ Fails("copy", t, TempCreateFails(c, table), on)
               \/ Fails("copy", t, TempInsertFails(c, table), on)

\* One round; there are as many as tables in the list.
RebuildSpecifyTables(t) ==
  LET n == FileOf(t)
  IN  /\ call[t].at = "rebuild"
      /\ \/ Runs(t, Rebuilt(work[n], ToSet(UpdateList(t)), n, dbName), NextTable(t, "restore"))
         \/ Aborts("drop", t)

\* A failed INSERT stays in the builder, for the tables after it.
RestoreTable(t) ==
  LET c == work[FileOf(t)]
      table == UpdateList(t)[call[t].next]
      stale == call[t].stale
      on == NextTable(t, "sweep")
      later == ToSet(SubSeq(UpdateList(t), call[t].next, Len(UpdateList(t))))
      stuck == [on EXCEPT !.stale = TRUE]
  IN  /\ call[t].at = "restore"
      /\ \/ /\ table \notin DOMAIN c.temps
            /\ Runs(t, c, on)
         \/ /\ table \in DOMAIN c.temps
            /\ \/ /\ CanRestore(c, table, stale)
                  /\ \E kept \in KeptRows(c, table, FileOf(t)) :
                       Runs(t, Restored(c, table, kept), on)
               \/ stale /\ Runs(t, RestoreStale(c, table), on)
               \/ /\ ~stale /\ ~HasOwnForm(c, table, FileOf(t))
                  /\ Runs(t, RestoreFails(c, table, later), stuck)
               \/ ~stale /\ Fails("restore", t, RestoreFails(c, table, later), stuck)
               \/ Fails("restore", t, RestoreSkipped(c, table), on)
               \/ Aborts("drop", t)

SweepTemps(t) ==
  /\ call[t].at = "sweep"
  /\ \/ Runs(t, SweptTemps(work[FileOf(t)], ToSet(UpdateList(t))), [call[t] EXCEPT !.at = "delete"])
     \/ Aborts("drop", t)

DropSpecifyTable(t) ==
  /\ call[t].at = "delete"
  /\ \/ Runs(t, Deleted(work[FileOf(t)], ToSet(DeleteList(t))), [call[t] EXCEPT !.at = "setVersion"])
     \/ Aborts("drop", t)

\* setVersion, setTransactionSuccessful and endTransaction.
Versioned(c) == [c EXCEPT !.version = New]

Commit(t) ==
  /\ call[t].at = "setVersion"
  /\ \/ /\ disk' = [disk EXCEPT ![FileOf(t)] = Versioned(work[FileOf(t)])]
        /\ work' = [work EXCEPT ![FileOf(t)] = Versioned(@)]
        /\ writing' = [writing EXCEPT ![FileOf(t)] = None]
        /\ helpers' = [helpers EXCEPT ![call[t].helper].open = TRUE]
        /\ Goes(t, "assign")
        /\ UNCHANGED <<registry, bounds>>
     \/ Aborts("commit", t)

Crash ==
  /\ Fault("crash")
  /\ mInstance' = None /\ moduleDB' = None /\ dbName' = None
  /\ fields' = [i \in Instance |-> NoFields]
  /\ helpers' = [h \in Helper |-> NoHelper]
  /\ call' = [t \in Thread |-> Idle]
  /\ writing' = [n \in Name |-> None]
  /\ work' = disk
  /\ UNCHANGED disk

DaoStep(t) ==
  \/ CreateAgain(t) \/ NewInstance(t) \/ Open(t) \/ AssignDb(t) \/ AssignCurrentDb(t)
  \/ CloseDb(t) \/ CloseHelper(t) \/ Forget(t) \/ Made(t) \/ Get(t) \/ Return(t)
  \/ \E table \in Table, row \in Row : Insert(t, table, row)
  \/ Done(t)

HelperStep(t) ==
  \/ GetWritable(t) \/ Begin(t) \/ OnCreate(t) \/ EndDoomed(t)
  \/ MigrateSpecifyTable(t) \/ BuildTempTable(t) \/ RebuildSpecifyTables(t) \/ RestoreTable(t)
  \/ SweepTemps(t) \/ DropSpecifyTable(t) \/ Commit(t)

Next ==
  \/ \E t \in Thread, n \in Name : GetDatabase(t, n)
  \/ \E t \in Thread : DaoStep(t) \/ HelperStep(t)
  \/ Crash

Spec == Init /\ [][Next]_vars

----------------------------------------------------------------------------
(* Properties.                                                             *)

TypeOK ==
  /\ mInstance \in Instance \cup {None} /\ moduleDB \in Instance \cup {None}
  /\ fields \in [Instance -> [db : Helper \cup {None}, currentDb : Name \cup {None},
                              helper : Helper \cup {None}]]
  /\ dbName \in Name \cup {None}
  /\ helpers \in [Helper -> [name : Name \cup {None}, open : BOOLEAN]]
  /\ \A t \in Thread : call[t].at \in {"idle"} \cup Registry \cup InHelper
  /\ disk \in [Name -> Contents] /\ work \in [Name -> Contents]
  /\ writing \in [Name -> Thread \cup {None}]
  /\ faults \in 0..MaxFaults /\ \A n \in Name : calls[n] \in 0..MaxCalls[n]

\* Whatever threads, helpers, failures and crashes did, an upgrade, run again
\* by a helper that had read the old version or begun again after a crash, has
\* lost a row only where a statement for that table, or for one restored before
\* it, threw, or where its table was made anew by another database's list: the
\* tables are copied aside, made anew and filled in one transaction.
UpgradeKeepsRows ==
  \A n \in Name : \A table \in Table :
    LET c == disk[n]
    IN  \/ IF table \in TablesOf(c) THEN c.written[table] \subseteq c.rows[table]
           ELSE c.written[table] = {}
        \/ MayLose(n, c, table)

\* Database m was found with a version that has tables to update.
HadUpdates(m) ==
  LET v == disk[m].first IN v \in 1..(New - 1) /\ Updates[m][v] # <<>>

\* A file has the new version only with the new tables: those of the update list
\* are there as its own CREATE says, those of the delete list are gone, and no
\* temporary table is left to be found by the next upgrade.  The exceptions are
\* tables made anew by another database's list, which takes a second database
\* that has tables to update.
VersionMeansSchema ==
  \A n \in Name :
    LET v == disk[n].first
        c == disk[n]
        own == DOMAIN CreateSqls[n]
    IN  /\ c.astray # {} => \E m \in Name \ {n} : HadUpdates(m)
        /\ c.version = New /\ v # New =>
             IF v = 0 THEN \A table \in own : HasOwnForm(c, table, n)
             ELSE /\ \A table \in (ToSet(Updates[n][v]) \cap own) \ ToSet(Deletes[n][v]) :
                       table \in c.astray \/ HasOwnForm(c, table, n)
                  /\ TablesOf(c) \cap ToSet(Deletes[n][v]) = {}
                  /\ DOMAIN c.temps \subseteq (ToSet(Updates[n][v]) \ own) \cup c.astray

\* Not so: an upgrade creates its tables from its own list.  Two threads that have
\* both found mInstance null upgrade two databases at once, the second assigns
\* dbName before buildTables of the first reads it, and the first commits the new
\* version without its tables, or with those of the other database.
OwnListsOnly == \A n \in Name : disk[n].astray = {}

\* A DAO is handed a database whose file has been created or upgraded, with one
\* exception: createAllTables swallows a failure, and the file is left empty.
HandedIsUpgraded ==
  \A t \in Thread : call[t].at = "has" =>
    LET c == disk[FileOf(t)]
    IN  c.version = New \/ ("create" \in Faults /\ c.version = 0 /\ TablesOf(c) = {})

\* Not so: a DAO is handed the database it asked for.  Two threads that ask for
\* different ones set db and currentDb of the same ModuleDB, or of two, in turns.
HandedAsAsked ==
  [][\A t \in Thread : call[t].at = "return" /\ call'[t].at = "has" =>
       helpers[call'[t].helper].name = call[t].name]_vars
=============================================================================
