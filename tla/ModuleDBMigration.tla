------------------------- MODULE ModuleDBMigration -------------------------
(***************************************************************************)
(* What an upgrade of the ORM layer does to a database file                *)
(* (ModuleDatabaseHelper.kt, ModuleDBMigrationHelper.kt): the tables of    *)
(* the update list are copied aside, dropped, created anew and filled      *)
(* again, the tables of the delete list are dropped.  The lists are those  *)
(* of one database; the statements that create its tables anew are those   *)
(* of whichever database the migration helper takes it for.                *)
(*                                                                         *)
(* A file's content is a value and an operator the effect of the           *)
(* statements of one method; which statement throws is the choice of the   *)
(* module that runs them.  A row stands for its values in the columns that *)
(* the old and the new table have in common: the others are not copied.    *)
(***************************************************************************)
EXTENDS Naturals, Sequences, SequencesExt, Functions

CONSTANTS
  Name,       \* database names
  Table,      \* table names, without the temporary ones
  Row,        \* rows
  Schema,     \* what a CREATE says of a table
  New,        \* the version of the configuration (ModuleDBConfig.dbVersion): one for
              \* all databases, since versions of different ones never meet
  CreateSqls, \* CreateSqls[n]: the CREATE TABLE IF NOT EXISTS of database n
  EndsWith,   \* EndsWith[s]: the tables whose name ends with s
  Updates,    \* Updates[n][v]: the tables to update in n from version v
  Deletes     \* Deletes[n][v]: the tables to delete in n from version v

Schemas == UNION {[T -> Schema] : T \in SUBSET Table}

ASSUME MigrationAssumption ==
  /\ New \in Nat \ {0}
  /\ CreateSqls \in [Name -> Schemas]
  /\ EndsWith \in [Table -> SUBSET Table]
  /\ \A s \in Table : s \in EndsWith[s]
  /\ \A n \in Name : \A v \in 1..(New - 1) :
       /\ Updates[n][v] \in Seq(Table) /\ Deletes[n][v] \in Seq(Table)
       /\ IsInjective(Updates[n][v]) /\ IsInjective(Deletes[n][v])

(***************************************************************************)
(* schema[t] is what the CREATE of table t said; temps holds the rows of   *)
(* the temporary tables.  Four fields the program does not have: hurt, the *)
(* tables excused for losing rows because a statement for that table       *)
(* threw, or the INSERT that restores a table before it in the list;       *)
(* astray, the tables ever rebuilt from another database's list, which     *)
(* says something else of them; first, the version the file had at first;  *)
(* and written, what was inserted into it.                                 *)
(***************************************************************************)
Contents ==
  [version : 0..New, schema : Schemas,
   rows : UNION {[T -> SUBSET Row] : T \in SUBSET Table},
   temps : UNION {[T -> SUBSET Row] : T \in SUBSET Table},
   hurt : SUBSET Table, astray : SUBSET Table,
   first : 0..New, written : [Table -> SUBSET Row]]

Empty == [version |-> 0, schema |-> <<>>, rows |-> <<>>, temps |-> <<>>,
          hurt |-> {}, astray |-> {}, first |-> 0, written |-> [t \in Table |-> {}]]

TablesOf(c) == DOMAIN c.schema

\* A file as it is found: what was ever inserted into it is there, and one of
\* version 0 is new.
Found(c) ==
  /\ c.first = c.version /\ c.hurt = {} /\ c.astray = {}
  /\ c.version = 0 => TablesOf(c) = {}
  /\ DOMAIN c.rows = TablesOf(c)
  /\ \A t \in Table : c.written[t] \subseteq IF t \in TablesOf(c) THEN c.rows[t] ELSE {}

Without(f, T) == Restrict(f, DOMAIN f \ T)
Set(f, x, y) == [z \in DOMAIN f \cup {x} |-> IF z = x THEN y ELSE f[z]]

\* The CREATE TABLE IF NOT EXISTS of sqls, DROP TABLE IF EXISTS for each of T.
CreateTables(c, sqls) ==
  LET old == TablesOf(c)
      all == old \cup DOMAIN sqls
  IN  [c EXCEPT !.schema = [t \in all |-> IF t \in old THEN @[t] ELSE sqls[t]],
                !.rows = [t \in all |-> IF t \in old THEN @[t] ELSE {}]]
DropTables(c, T) == [c EXCEPT !.schema = Without(@, T), !.rows = Without(@, T)]
DropTemps(c, T) == [c EXCEPT !.temps = Without(@, T)]

\* createAllTables
AllTablesCreated(c, n) == CreateTables(c, CreateSqls[n])

\* What the configuration of n says of table t: one schema, or none.
CreateOf(n, t) == {CreateSqls[n][s] : s \in DOMAIN CreateSqls[n] \cap {t}}

----------------------------------------------------------------------------
(* generateTempTable: whatever it throws is caught and the upgrade goes on.*)

TempRows(c, t) == IF t \in DOMAIN c.temps THEN c.temps[t] ELSE {}

\* CREATE TABLE IF NOT EXISTS t_TEMP, INSERT INTO t_TEMP SELECT FROM t
CopiedAside(c, t) ==
  [c EXCEPT !.temps = Set(@, t, TempRows(c, t) \cup c.rows[t])]
TempCreateFails(c, t) == [c EXCEPT !.hurt = @ \cup {t}]
TempInsertFails(c, t) ==
  [c EXCEPT !.temps = Set(@, t, TempRows(c, t)), !.hurt = @ \cup {t}]

----------------------------------------------------------------------------
(* rebuildSpecifyTables, one round of its loop: cleanTables, then          *)
(* buildTables, which runs each CREATE whose text contains "<name> (" for  *)
(* a name of the list.  It looks them up under the name m that is in       *)
(* dbName by then, whatever database n the file is.                        *)

Chosen(m, list) ==
  Restrict(CreateSqls[m], DOMAIN CreateSqls[m] \cap UNION {EndsWith[s] : s \in list})

Rebuilt_NotDropped(c, list, n, m) == CreateTables(c, Chosen(m, list))

Rebuilt(c, list, n, m) ==
  [CreateTables(DropTables(c, list), Chosen(m, list))
     EXCEPT !.astray = @ \cup {t \in list : CreateOf(m, t) # CreateOf(n, t)}]

----------------------------------------------------------------------------
(* restoreTable, one round of its loop.                                    *)

\* The INSERT needs the temporary table and the table; and the text it is in,
\* which a failed INSERT leaves in the builder, must be its own.
CanRestore(c, t, stale) ==
  /\ ~stale
  /\ t \in TablesOf(c)

\* The table is there as the configuration of n says.
HasOwnForm(c, t, n) == t \in TablesOf(c) /\ c.schema[t] \in CreateOf(n, t)

\* The rows that keep their values: in a table that another database's CREATE
\* made, columns of the row may be missing, and they are left out of the INSERT;
\* which throws if no column is left.
KeptRows(c, t, n) ==
  IF HasOwnForm(c, t, n) THEN {c.temps[t]} ELSE SUBSET c.temps[t]

Restored_TempFirst(c, t, kept) ==
  LET d == DropTemps(c, {t}) IN [d EXCEPT !.rows[t] = @ \cup (kept \cap TempRows(d, t))]

Restored(c, t, kept) == DropTemps([c EXCEPT !.rows[t] = @ \cup kept], {t})
RestoreFails(c, t, later) ==
  DropTemps([c EXCEPT !.hurt = @ \cup {t} \cup later], {t})
\* A query about the temporary table throws, which counts as "not there".
RestoreSkipped(c, t) == [c EXCEPT !.hurt = @ \cup {t}]
\* An earlier INSERT was left in the builder and fails again in its place.
RestoreStale(c, t) == DropTemps(c, {t})

\* The loop after it: temporary tables of tables that exist.
SweptTemps(c, list) == DropTemps(c, list \cap TablesOf(c))

\* dropSpecifyTable
Deleted(c, list) == DropTables(c, list)

----------------------------------------------------------------------------
(* What an upgrade promises about a file.                                  *)

\* A table of database n loses rows only because it is in the delete list, because
\* it is in the update list and nothing creates it again, because another
\* database's list was used to create it, or because of a statement that threw.
MayLose(n, c, t) ==
  LET v == c.first
  IN  \/ t \in c.hurt \cup c.astray
      \/ /\ v \in 1..(New - 1)
         /\ t \in ToSet(Deletes[n][v]) \cup (ToSet(Updates[n][v]) \ DOMAIN CreateSqls[n])
============================================================================
