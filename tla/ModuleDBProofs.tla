--------------------------- MODULE ModuleDBProofs ---------------------------
(***************************************************************************)
(* Proofs about the ORM layer's registry and its upgrades (ModuleDB and    *)
(* ModuleDBMigration): an upgrade loses rows only where a statement threw, *)
(* a file has the new version only with the new tables, and a DAO is       *)
(* handed a database whose file was created or upgraded.  They hold for    *)
(* any number of threads, databases, tables and rows, any lists of tables  *)
(* to update and to delete, and any number of faults and crashes.  Tables  *)
(* that were made anew by another database's list are excepted, and where  *)
(* at most one database has tables to update there are none.               *)
(***************************************************************************)
EXTENDS ModuleDB, TLAPS, SequenceTheorems

-----------------------------------------------------------------------------
(* The content of a file.                                                  *)

RowMaps == UNION {[T -> SUBSET Row] : T \in SUBSET Table}

\* Contents whose rows are those of its tables.
WellFormed(c) == c \in Contents /\ DOMAIN c.rows = TablesOf(c)

\* What was inserted into table t is in it, or in its temporary table.
KeptIn(c, t) == c.written[t] \subseteq IF t \in TablesOf(c) THEN c.rows[t] ELSE {}
AsideIn(c, t) == c.written[t] \subseteq TempRows(c, t)
AllKept(n, c) == \A t \in Table : MayLose(n, c, t) \/ KeptIn(c, t)

\* No file has temporary tables at first.
NoTempsAtFirst == \A first \in Firsts : \A n \in Name : DOMAIN first[n].temps = {}

UpdateSet(n, v) == ToSet(Updates[n][v])
DeleteSet(n, v) == ToSet(Deletes[n][v])
TempsWithin(c, T) == NoTempsAtFirst => DOMAIN c.temps \subseteq T

\* The temporary tables an upgrade may leave: nothing creates their tables again, or
\* another database's list made them.
Leftovers(n, c) == (UpdateSet(n, c.first) \ DOMAIN CreateSqls[n]) \cup c.astray

\* A table of another database's list may have been made in the place of t.
Sound(n, c, t) == t \in c.astray \/ HasOwnForm(c, t, n)

\* The tables to update are there in the new form.
UpdatedIn(n, c) ==
  \A t \in UpdateSet(n, c.first) \cap DOMAIN CreateSqls[n] : Sound(n, c, t)

\* What a file has when its version is set to the new one.
HasSchema(n, c) ==
  IF c.first = 0 THEN \A t \in DOMAIN CreateSqls[n] : HasOwnForm(c, t, n)
  ELSE /\ \A t \in (UpdateSet(n, c.first) \cap DOMAIN CreateSqls[n]) \ DeleteSet(n, c.first) :
            Sound(n, c, t)
       /\ TablesOf(c) \cap DeleteSet(n, c.first) = {}
       /\ TempsWithin(c, Leftovers(n, c))

\* A committed file: as it was found, or upgraded.
FileOk(n, c) ==
  /\ WellFormed(c) /\ AllKept(n, c)
  /\ c.version \in {c.first, New}
  /\ c.version = 0 => TablesOf(c) = {}
  /\ c.first \in 1 .. New - 1 => TempsWithin(c, Leftovers(n, c))
  /\ c.version = New /\ c.first # New => HasSchema(n, c)

\* A file that may be handed to a DAO.
Ready(c) == c.version = New \/ ("create" \in Faults /\ c.version = 0 /\ TablesOf(c) = {})

-----------------------------------------------------------------------------
(* How far an upgrade of database n has got with the content c it sees; r  *)
(* is the call that runs it.                                               *)

\* r upgrades a file that was there.
InUpgrade(r) == r.version \in 1 .. New - 1

Copying(n, r, c) ==
  LET s == Updates[n][r.version] IN
  /\ InUpgrade(r) /\ ~r.stale /\ r.next \in 1 .. Len(s)
  /\ AllKept(n, c) /\ TempsWithin(c, ToSet(s) \cup c.astray)
  /\ \A i \in 1 .. r.next - 1 : MayLose(n, c, s[i]) \/ AsideIn(c, s[i])

Rebuilding(n, r, c) ==
  LET s == Updates[n][r.version] IN
  /\ InUpgrade(r) /\ ~r.stale /\ r.next \in 1 .. Len(s)
  /\ TempsWithin(c, ToSet(s) \cup c.astray)
  /\ \A t \in Table \ ToSet(s) : MayLose(n, c, t) \/ KeptIn(c, t)
  /\ \A i \in 1 .. Len(s) : MayLose(n, c, s[i]) \/ AsideIn(c, s[i])

Restoring(n, r, c) ==
  LET s == Updates[n][r.version] IN
  /\ InUpgrade(r) /\ r.next \in 1 .. Len(s)
  /\ UpdatedIn(n, c) /\ TempsWithin(c, ToSet(s) \cup c.astray)
  /\ \A t \in Table : \/ \E i \in r.next .. Len(s) : t = s[i]
                      \/ MayLose(n, c, t) \/ KeptIn(c, t)
  /\ \A i \in r.next .. Len(s) : MayLose(n, c, s[i]) \/ AsideIn(c, s[i])
  /\ r.stale => \A i \in r.next .. Len(s) : s[i] \in c.hurt

Sweeping(n, r, c) ==
  /\ InUpgrade(r) /\ UpdatedIn(n, c) /\ AllKept(n, c)
  /\ TempsWithin(c, UpdateSet(n, r.version) \cup c.astray)

Deleting(n, r, c) ==
  /\ InUpgrade(r) /\ UpdatedIn(n, c) /\ AllKept(n, c)
  /\ TempsWithin(c, Leftovers(n, c))

\* A file that is to be created has no table that is not its own.
OwnForms(n, c) == \A t \in TablesOf(c) \cap DOMAIN CreateSqls[n] : HasOwnForm(c, t, n)

Stage(n, r, c) ==
  /\ WellFormed(c) /\ c.first = r.version
  /\ r.at = "onCreate" => r.version = 0 /\ AllKept(n, c) /\ OwnForms(n, c)
  /\ r.at = "doomed" => r.version = 0 /\ "create" \in Faults
  /\ r.at = "migrate" => Copying(n, r, c)
  /\ r.at = "copy" => Copying(n, r, c)
  /\ r.at = "rebuild" => Rebuilding(n, r, c)
  /\ r.at = "restore" => Restoring(n, r, c)
  /\ r.at = "sweep" => Sweeping(n, r, c)
  /\ r.at = "delete" => Deleting(n, r, c)
  /\ r.at = "setVersion" => AllKept(n, c) /\ HasSchema(n, c)

-----------------------------------------------------------------------------
(* The registry and the threads.                                           *)

InTransaction == {"onCreate", "doomed"} \cup Upgrade

CallRecord ==
  [at : {"idle"} \cup Registry \cup InHelper, name : Name \cup {None}, again : BOOLEAN,
   self : Instance \cup {None}, made : Instance \cup {None}, helper : Helper \cup {None},
   version : 0..New, next : Nat, stale : BOOLEAN]

Typed ==
  /\ mInstance \in Instance \cup {None} /\ moduleDB \in Instance \cup {None}
  /\ fields \in [Instance -> [db : Helper \cup {None}, currentDb : Name \cup {None},
                              helper : Helper \cup {None}]]
  /\ dbName \in Name \cup {None}
  /\ helpers \in [Helper -> [name : Name \cup {None}, open : BOOLEAN]]
  /\ call \in [Thread -> CallRecord]
  /\ disk \in [Name -> Contents] /\ work \in [Name -> Contents]
  /\ writing \in [Name -> Thread \cup {None}]

\* A helper somebody refers to has a file, and one that has opened it, a ready one.
HelperOk(h) ==
  /\ h \in Helper /\ helpers[h].name \in Name
  /\ helpers[h].open => Ready(disk[helpers[h].name])

Serves(h) == HelperOk(h) /\ Ready(disk[helpers[h].name])

InstanceOk(i) ==
  /\ fields[i].helper # None => HelperOk(fields[i].helper)
  /\ fields[i].db # None => Serves(fields[i].db)

ThreadOk(t) ==
  LET r == call[t] IN
  /\ r.at \notin {"idle", "has"} => r.name \in Name
  /\ r.at \in {"writable", "assign"} \cup InHelper => r.made \in Instance
  /\ r.at = "return" \/ r.again => r.self \in Instance
  /\ r.helper # None => HelperOk(r.helper)
  /\ r.at \in {"assign", "has"} => r.helper # None /\ Serves(r.helper)
  /\ r.at \in InHelper => /\ r.helper # None /\ r.version # New
                          /\ r.version = disk[FileOf(t)].first
  /\ r.at \in InTransaction => writing[FileOf(t)] = t /\ Stage(FileOf(t), r, work[FileOf(t)])
  /\ r.at \in {"copy", "rebuild"} => dbName # None

\* The inductive invariant of the registry.
RegistryInvariant ==
  /\ Typed
  /\ \A n \in Name : FileOk(n, disk[n])
  /\ \A i \in UsedInstances : InstanceOk(i)
  /\ \A t \in Thread : ThreadOk(t)

-----------------------------------------------------------------------------
(* What the statements of an upgrade do to a content.                      *)

\* A content is a record of these fields.
LEMMA ContentsFields ==
  Contents = [version : 0..New, schema : Schemas, rows : RowMaps, temps : RowMaps,
              hurt : SUBSET Table, astray : SUBSET Table, first : 0..New,
              written : [Table -> SUBSET Row]]
  BY DEF Contents, RowMaps

\* What is a map of rows, or of schemas.
LEMMA MapFacts ==
  /\ \A f \in RowMaps : DOMAIN f \in SUBSET Table /\ \A t \in DOMAIN f : f[t] \in SUBSET Row
  /\ \A f \in Schemas : DOMAIN f \in SUBSET Table /\ \A t \in DOMAIN f : f[t] \in Schema
  /\ \A T \in SUBSET Table : \A f \in [T -> SUBSET Row] : f \in RowMaps
  /\ \A T \in SUBSET Table : \A f \in [T -> Schema] : f \in Schemas
  BY DEF RowMaps, Schemas

\* Dropping names from a map, and setting one.
LEMMA WithoutFacts ==
  ASSUME NEW f, NEW T
  PROVE  /\ DOMAIN Without(f, T) = DOMAIN f \ T
         /\ \A t \in DOMAIN f \ T : Without(f, T)[t] = f[t]
         /\ f \in RowMaps => Without(f, T) \in RowMaps
         /\ f \in Schemas => Without(f, T) \in Schemas
  <1>1. /\ DOMAIN Without(f, T) = DOMAIN f \ T
        /\ \A t \in DOMAIN f \ T : Without(f, T)[t] = f[t]
    BY DEF Without, Restrict
  <1>2. Without(f, T) = [t \in DOMAIN f \ T |-> f[t]]
    BY DEF Without, Restrict
  <1>3. ASSUME f \in RowMaps PROVE Without(f, T) \in RowMaps
    <2>1. /\ DOMAIN f \ T \in SUBSET Table
          /\ \A t \in DOMAIN f \ T : f[t] \in SUBSET Row
      BY <1>3, MapFacts
    <2>2. Without(f, T) \in [DOMAIN f \ T -> SUBSET Row]
      BY <1>2, <2>1
    <2> QED
      BY <2>1, <2>2, MapFacts
  <1>4. ASSUME f \in Schemas PROVE Without(f, T) \in Schemas
    <2>1. /\ DOMAIN f \ T \in SUBSET Table
          /\ \A t \in DOMAIN f \ T : f[t] \in Schema
      BY <1>4, MapFacts
    <2>2. Without(f, T) \in [DOMAIN f \ T -> Schema]
      BY <1>2, <2>1
    <2> QED
      BY <2>1, <2>2, MapFacts
  <1> QED
    BY <1>1, <1>3, <1>4

\* Setting an entry makes a map of rows that differs there only.
LEMMA SetFacts ==
  ASSUME NEW f \in RowMaps, NEW x \in Table, NEW y \in SUBSET Row
  PROVE  /\ Set(f, x, y) \in RowMaps
         /\ DOMAIN Set(f, x, y) = DOMAIN f \cup {x}
         /\ Set(f, x, y)[x] = y
         /\ \A t \in DOMAIN f \ {x} : Set(f, x, y)[t] = f[t]
  <1>1. /\ DOMAIN f \cup {x} \in SUBSET Table
        /\ \A t \in DOMAIN f : f[t] \in SUBSET Row
    BY MapFacts
  <1>2. Set(f, x, y) \in [DOMAIN f \cup {x} -> SUBSET Row]
    BY <1>1 DEF Set
  <1> QED
    BY <1>1, <1>2, MapFacts DEF Set

\* Nothing but tables, or nothing but temporary tables, differs.
OnlyTables(c, d) ==
  /\ d.version = c.version /\ d.first = c.first /\ d.written = c.written
  /\ d.temps = c.temps /\ d.hurt = c.hurt /\ d.astray = c.astray
OnlyTemps(c, d) ==
  /\ d.version = c.version /\ d.first = c.first /\ d.written = c.written
  /\ d.schema = c.schema /\ d.rows = c.rows /\ d.astray = c.astray

\* CREATE TABLE IF NOT EXISTS adds empty tables and leaves those there are.
LEMMA CreateTablesFacts ==
  ASSUME NEW c, WellFormed(c), NEW sqls \in Schemas
  PROVE  LET d == CreateTables(c, sqls)
         IN  /\ WellFormed(d) /\ OnlyTables(c, d) /\ TablesOf(d) = TablesOf(c) \cup DOMAIN sqls
             /\ \A t \in TablesOf(c) : d.schema[t] = c.schema[t] /\ d.rows[t] = c.rows[t]
             /\ \A t \in DOMAIN sqls \ TablesOf(c) : d.schema[t] = sqls[t] /\ d.rows[t] = {}
  <1> DEFINE old == TablesOf(c)
             all == old \cup DOMAIN sqls
             s == [t \in all |-> IF t \in old THEN c.schema[t] ELSE sqls[t]]
             r == [t \in all |-> IF t \in old THEN c.rows[t] ELSE {}]
             d == CreateTables(c, sqls)
  <1>1. /\ c \in Contents /\ c.schema \in Schemas /\ c.rows \in RowMaps /\ c.hurt \in SUBSET Table
        /\ DOMAIN c.rows = old /\ old \in SUBSET Table /\ DOMAIN sqls \in SUBSET Table
    BY ContentsFields, MapFacts DEF WellFormed, TablesOf
  <1>2. /\ \A t \in old : c.schema[t] \in Schema /\ c.rows[t] \in SUBSET Row
        /\ \A t \in DOMAIN sqls : sqls[t] \in Schema
    BY <1>1, MapFacts DEF TablesOf
  <1>3. s \in [all -> Schema] /\ r \in [all -> SUBSET Row]
    BY <1>2
  <1>4. s \in Schemas /\ r \in RowMaps
    BY <1>1, <1>3, MapFacts
  <1>5. d = [c EXCEPT !.schema = s, !.rows = r]
    BY DEF CreateTables
  <1> HIDE DEF d
  <1>6. /\ d \in Contents /\ d.schema = s /\ d.rows = r /\ OnlyTables(c, d)
    <2> HIDE DEF s, r
    <2> QED  BY <1>1, <1>4, <1>5, ContentsFields DEF OnlyTables
  <1>7. TablesOf(d) = all /\ DOMAIN d.rows = all
    BY <1>6 DEF TablesOf
  <1> QED
    BY <1>6, <1>7 DEF WellFormed, d

\* DROP TABLE takes the tables and leaves the others as they are.
LEMMA DropTablesFacts ==
  ASSUME NEW c, WellFormed(c), NEW T
  PROVE  LET d == DropTables(c, T)
         IN  /\ WellFormed(d) /\ OnlyTables(c, d) /\ TablesOf(d) = TablesOf(c) \ T
             /\ \A t \in TablesOf(d) : d.schema[t] = c.schema[t] /\ d.rows[t] = c.rows[t]
  <1> DEFINE s == Without(c.schema, T)
             r == Without(c.rows, T)
             d == DropTables(c, T)
  <1>1. /\ c \in Contents /\ c.schema \in Schemas /\ c.rows \in RowMaps /\ c.hurt \in SUBSET Table
        /\ DOMAIN c.rows = TablesOf(c)
    BY ContentsFields DEF WellFormed
  <1>2. /\ s \in Schemas /\ r \in RowMaps
        /\ DOMAIN s = TablesOf(c) \ T /\ DOMAIN r = TablesOf(c) \ T
        /\ \A t \in TablesOf(c) \ T : s[t] = c.schema[t] /\ r[t] = c.rows[t]
    <2>1. /\ s \in Schemas /\ DOMAIN s = TablesOf(c) \ T
          /\ \A t \in TablesOf(c) \ T : s[t] = c.schema[t]
      BY <1>1, WithoutFacts DEF TablesOf
    <2>2. /\ r \in RowMaps /\ DOMAIN r = TablesOf(c) \ T
          /\ \A t \in TablesOf(c) \ T : r[t] = c.rows[t]
      <3>1. /\ r \in RowMaps /\ DOMAIN r = DOMAIN c.rows \ T
            /\ \A t \in DOMAIN c.rows \ T : r[t] = c.rows[t]
        BY <1>1, WithoutFacts
      <3> QED
        BY <1>1, <3>1
    <2> QED
      BY <2>1, <2>2
  <1>3. d = [c EXCEPT !.schema = s, !.rows = r]
    BY DEF DropTables
  <1> HIDE DEF d, s, r
  <1>4. d \in Contents /\ d.schema = s /\ d.rows = r /\ OnlyTables(c, d)
    BY <1>1, <1>2, <1>3, ContentsFields DEF OnlyTables
  <1> QED
    BY <1>2, <1>4 DEF WellFormed, TablesOf, d

\* Dropping temporary tables leaves everything else.
LEMMA DropTempsFacts ==
  ASSUME NEW c, WellFormed(c), NEW T
  PROVE  LET d == DropTemps(c, T)
         IN  /\ WellFormed(d) /\ OnlyTemps(c, d) /\ d.hurt = c.hurt
             /\ DOMAIN d.temps = DOMAIN c.temps \ T
             /\ \A t \in Table \ T : TempRows(d, t) = TempRows(c, t)
  <1> DEFINE r == Without(c.temps, T)
             d == DropTemps(c, T)
  <1>1. c.temps \in RowMaps /\ c.hurt \in SUBSET Table /\ c \in Contents
    BY ContentsFields DEF WellFormed
  <1>2. /\ r \in RowMaps /\ DOMAIN r = DOMAIN c.temps \ T
        /\ \A t \in DOMAIN c.temps \ T : r[t] = c.temps[t]
    BY <1>1, WithoutFacts
  <1>3. d = [c EXCEPT !.temps = r, !.hurt = c.hurt]
    BY <1>1, ContentsFields DEF DropTemps
  <1> HIDE DEF d, r
  <1>4. WellFormed(d) /\ OnlyTemps(c, d) /\ d.temps = r /\ d.hurt = c.hurt
    <2>1. /\ d \in Contents /\ OnlyTemps(c, d) /\ d.temps = r /\ d.hurt = c.hurt
      BY <1>1, <1>2, <1>3, ContentsFields DEF OnlyTemps
    <2> QED
      BY <2>1 DEF WellFormed, TablesOf, OnlyTemps
  <1> QED
    BY <1>2, <1>4 DEF TempRows, d

\* The rows of a temporary table.
LEMMA TempRowsType ==
  ASSUME NEW c, WellFormed(c), NEW t \in Table
  PROVE  TempRows(c, t) \in SUBSET Row /\ (t \in TablesOf(c) => c.rows[t] \in SUBSET Row)
  <1>1. c.temps \in RowMaps /\ c.rows \in RowMaps /\ DOMAIN c.rows = TablesOf(c)
    BY ContentsFields DEF WellFormed
  <1> QED
    BY <1>1, MapFacts DEF TempRows

\* The temporary table of t holds the rows y.
TempBecomes(c, d, t, y) ==
  d \in Contents /\ OnlyTemps(c, d) /\ d.temps = Set(c.temps, t, y)

\* A temporary table that is filled disturbs no other.
LEMMA SetTempFacts ==
  ASSUME NEW c, NEW d, WellFormed(c), NEW t \in Table, NEW y \in SUBSET Row,
         TempBecomes(c, d, t, y)
  PROVE  /\ WellFormed(d) /\ DOMAIN d.temps = DOMAIN c.temps \cup {t}
         /\ \A u \in Table : TempRows(d, u) = IF u = t THEN y ELSE TempRows(c, u)
  <1>1. c.temps \in RowMaps
    BY ContentsFields DEF WellFormed
  <1>2. /\ DOMAIN d.temps = DOMAIN c.temps \cup {t} /\ d.temps[t] = y
        /\ \A u \in DOMAIN c.temps \ {t} : d.temps[u] = c.temps[u]
    <2> DEFINE f == c.temps
               g == Set(f, t, y)
    <2>1. f \in RowMaps
      BY <1>1
    <2> HIDE DEF f
    <2>2. /\ DOMAIN g = DOMAIN f \cup {t} /\ g[t] = y
          /\ \A u \in DOMAIN f \ {t} : g[u] = f[u]
      BY <2>1, SetFacts, ZenonT(60)
    <2>3. d.temps = g
      BY DEF f, TempBecomes
    <2> HIDE DEF g
    <2> QED
      BY <2>2, <2>3 DEF f
  <1>3. WellFormed(d)
    BY DEF WellFormed, OnlyTemps, TablesOf, TempBecomes
  <1> QED
    BY <1>2, <1>3 DEF TempRows

-----------------------------------------------------------------------------
(* The stages of an upgrade follow each other.                             *)

\* The update and delete lists of a version.
LEMMA ListFacts ==
  ASSUME NEW n \in Name, NEW v \in 1 .. New - 1
  PROVE  LET s == Updates[n][v]
         IN  /\ s \in Seq(Table) /\ Len(s) \in Nat
             /\ s # <<>> => Len(s) > 0
             /\ \A i \in 1 .. Len(s) : s[i] \in Table /\ s[i] \in UpdateSet(n, v)
             /\ \A t \in UpdateSet(n, v) : t \in Table /\ \E i \in 1 .. Len(s) : t = s[i]
             /\ \A i, j \in 1 .. Len(s) : s[i] = s[j] => i = j
             /\ DeleteSet(n, v) \subseteq Table
  <1> DEFINE s == Updates[n][v]
  <1>1. /\ s \in Seq(Table) /\ Deletes[n][v] \in Seq(Table) /\ IsInjective(s)
    BY MigrationAssumption
  <1>2. /\ Len(s) \in Nat /\ DOMAIN s = 1 .. Len(s)
        /\ (s # <<>> => Len(s) > 0) /\ \A i \in 1 .. Len(s) : s[i] \in Table
    BY <1>1, LenProperties, EmptySeq, ElementOfSeq
  <1>3. DeleteSet(n, v) \subseteq Table
    BY <1>1, LenProperties, ElementOfSeq DEF DeleteSet, ToSet
  <1> QED
    BY <1>1, <1>2, <1>3 DEF UpdateSet, ToSet, IsInjective

\* Who is excused for losing rows stays so, and a table a statement threw for is.
LEMMA ExcusedFacts ==
  ASSUME NEW n, NEW c, NEW d, d.first = c.first, c.hurt \subseteq d.hurt, c.astray \subseteq d.astray
  PROVE  /\ \A t \in Table : MayLose(n, c, t) => MayLose(n, d, t)
         /\ \A t \in d.hurt : MayLose(n, d, t)
         /\ c.hurt = d.hurt /\ c.astray = d.astray => \A t \in Table : MayLose(n, c, t) <=> MayLose(n, d, t)
  BY DEF MayLose

\* Table t of database n is dealt with by the loop that copies tables aside.
CopiedOne(n, c, d, t) ==
  /\ WellFormed(d) /\ OnlyTemps(c, d) /\ c.hurt \subseteq d.hurt
  /\ MayLose(n, d, t) \/ AsideIn(d, t)
  /\ \A u \in Table \ {t} : TempRows(d, u) = TempRows(c, u)
  /\ DOMAIN d.temps \subseteq DOMAIN c.temps \cup {t}

\* Whichever way copying one table goes, its rows are aside or excused, and nothing else
\* changes.
LEMMA CopiedCases ==
  ASSUME NEW n, NEW c, WellFormed(c), NEW t \in Table, MayLose(n, c, t) \/ KeptIn(c, t), NEW d,
         \/ t \notin TablesOf(c) /\ d = c
         \/ t \in TablesOf(c) /\ d = CopiedAside(c, t)
         \/ d = TempCreateFails(c, t)
         \/ d = TempInsertFails(c, t)
  PROVE  CopiedOne(n, c, d, t)
  <1>0. c.hurt \in SUBSET Table /\ c \in Contents
    BY ContentsFields DEF WellFormed
  <1>1. CASE t \notin TablesOf(c) /\ d = c
    BY <1>1 DEF CopiedOne, OnlyTemps, KeptIn, AsideIn
  <1>2. CASE t \in TablesOf(c) /\ d = CopiedAside(c, t)
    <2>1. PICK y \in SUBSET Row : y = TempRows(c, t) \cup c.rows[t]
      BY <1>2, TempRowsType
    <2>2. d = [c EXCEPT !.temps = Set(c.temps, t, y)]
      BY <1>2, <2>1 DEF CopiedAside
    <2>3. OnlyTemps(c, d) /\ d.hurt = c.hurt /\ TempBecomes(c, d, t, y)
      <3>1. Set(c.temps, t, y) \in RowMaps
        BY <1>0, <2>1, SetFacts, ContentsFields
      <3> QED
        BY <1>0, <2>2, <3>1, ContentsFields DEF OnlyTemps, TempBecomes
    <2>4. /\ WellFormed(d) /\ DOMAIN d.temps = DOMAIN c.temps \cup {t}
          /\ \A u \in Table : TempRows(d, u) = IF u = t THEN y ELSE TempRows(c, u)
      BY <2>3, SetTempFacts
    <2>5. MayLose(n, d, t) \/ AsideIn(d, t)
      BY <1>2, <2>1, <2>3, <2>4 DEF MayLose, KeptIn, AsideIn, OnlyTemps
    <2> QED
      BY <2>3, <2>4, <2>5 DEF CopiedOne
  <1>3. CASE d = TempCreateFails(c, t)
    <2>1. /\ d \in Contents /\ OnlyTemps(c, d) /\ d.temps = c.temps /\ d.hurt = c.hurt \cup {t}
      BY <1>0, <1>3, ContentsFields DEF TempCreateFails, OnlyTemps
    <2>2. WellFormed(d) /\ \A u \in Table : TempRows(d, u) = TempRows(c, u)
      BY <2>1 DEF WellFormed, OnlyTemps, TablesOf, TempRows
    <2> QED
      BY <2>1, <2>2 DEF CopiedOne, MayLose
  <1>4. CASE d = TempInsertFails(c, t)
    <2> DEFINE y == TempRows(c, t)
    <2>1. d = [c EXCEPT !.temps = Set(c.temps, t, y), !.hurt = c.hurt \cup {t}]
      BY <1>4 DEF TempInsertFails
    <2>2. y \in SUBSET Row
      BY TempRowsType
    <2> HIDE DEF y
    <2>3. OnlyTemps(c, d) /\ d.hurt = c.hurt \cup {t} /\ TempBecomes(c, d, t, y)
      <3>1. Set(c.temps, t, y) \in RowMaps
        BY <1>0, <2>2, SetFacts, ContentsFields
      <3> QED
        BY <1>0, <2>1, <3>1, ContentsFields DEF OnlyTemps, TempBecomes
    <2>4. /\ WellFormed(d) /\ DOMAIN d.temps = DOMAIN c.temps \cup {t}
          /\ \A u \in Table : TempRows(d, u) = IF u = t THEN y ELSE TempRows(c, u)
      BY <2>2, <2>3, SetTempFacts
    <2> QED
      BY <2>3, <2>4 DEF CopiedOne, MayLose
  <1> QED
    BY <1>1, <1>2, <1>3, <1>4

\* One table further, the tables passed are aside; after the last, all are.
LEMMA CopyStage ==
  ASSUME NEW n \in Name, NEW r, NEW c, NEW d, NEW q, Stage(n, r, c), r.at = "copy",
         CopiedOne(n, c, d, Updates[n][r.version][r.next]),
         q.version = r.version, q.stale = r.stale,
         IF r.next < Len(Updates[n][r.version]) THEN q.at = "copy" /\ q.next = r.next + 1
                                             ELSE q.at = "rebuild" /\ q.next = 1
  PROVE  Stage(n, q, d)
  <1> DEFINE s == Updates[n][r.version]
             k == r.next
  <1>1. /\ r.version \in 1 .. New - 1 /\ c.first = r.version /\ ~r.stale
        /\ k \in 1 .. Len(s) /\ AllKept(n, c) /\ TempsWithin(c, ToSet(s) \cup c.astray)
        /\ \A i \in 1 .. k - 1 : MayLose(n, c, s[i]) \/ AsideIn(c, s[i])
    BY DEF Stage, Copying, InUpgrade
  <1>2. /\ Len(s) \in Nat /\ ToSet(s) = UpdateSet(n, r.version)
        /\ \A i \in 1 .. Len(s) : s[i] \in Table /\ s[i] \in UpdateSet(n, r.version)
    BY <1>1, ListFacts DEF UpdateSet
  <1>3. /\ WellFormed(d) /\ OnlyTemps(c, d) /\ c.hurt \subseteq d.hurt
        /\ MayLose(n, d, s[k]) \/ AsideIn(d, s[k])
        /\ \A u \in Table \ {s[k]} : TempRows(d, u) = TempRows(c, u)
        /\ DOMAIN d.temps \subseteq DOMAIN c.temps \cup {s[k]}
    BY DEF CopiedOne
  <1> HIDE DEF s, k
  <1>4. d.first = c.first /\ d.written = c.written
    BY <1>3 DEF OnlyTemps
  <1>5. \A t \in Table : MayLose(n, c, t) => MayLose(n, d, t)
    BY <1>3, <1>4, ExcusedFacts DEF OnlyTemps
  <1>6. AllKept(n, d)
    BY <1>1, <1>3, <1>5 DEF AllKept, KeptIn, OnlyTemps, TablesOf
  <1>7. TempsWithin(d, ToSet(s) \cup d.astray)
    BY <1>1, <1>2, <1>3 DEF TempsWithin, OnlyTemps
  <1>8. \A i \in 1 .. k : MayLose(n, d, s[i]) \/ AsideIn(d, s[i])
    BY <1>1, <1>2, <1>3, <1>4, <1>5, SMTT(30) DEF AsideIn
  <1>9. CASE k < Len(s)
    <2>1. q.at = "copy" /\ q.next = k + 1
      BY <1>9 DEF s, k
    <2>2. k + 1 \in 1 .. Len(s) /\ 1 .. (k + 1) - 1 = 1 .. k
      BY <1>1, <1>2, <1>9
    <2>3. Copying(n, q, d)
      BY <1>1, <1>6, <1>7, <1>8, <2>1, <2>2 DEF Copying, InUpgrade, s
    <2> QED
      BY <1>1, <1>3, <1>4, <2>1, <2>3 DEF Stage
  <1>10. CASE ~(k < Len(s))
    <2>1. q.at = "rebuild" /\ q.next = 1
      BY <1>10 DEF s, k
    <2>2. k = Len(s) /\ Len(s) > 0
      BY <1>1, <1>2, <1>10
    <2>3. Rebuilding(n, q, d)
      BY <1>1, <1>6, <1>7, <1>8, <2>1, <2>2 DEF Rebuilding, InUpgrade, AllKept, s
    <2> QED
      BY <1>1, <1>3, <1>4, <2>1, <2>3 DEF Stage
  <1> QED
    BY <1>9, <1>10

\* What the configuration says of a table is one schema, or nothing.
LEMMA CreateFacts ==
  ASSUME NEW m \in Name, NEW t \in Table
  PROVE  /\ CreateSqls[m] \in Schemas /\ DOMAIN CreateSqls[m] \subseteq Table
         /\ t \in DOMAIN CreateSqls[m] => CreateOf(m, t) = {CreateSqls[m][t]}
         /\ t \notin DOMAIN CreateSqls[m] => CreateOf(m, t) = {}
  <1>1. CreateSqls[m] \in Schemas
    BY MigrationAssumption
  <1>2. DOMAIN CreateSqls[m] \subseteq Table
    BY <1>1, MapFacts
  <1> QED
    BY <1>1, <1>2 DEF CreateOf

\* The statements that a round of the rebuilding picks are those of its list at least.
LEMMA ChosenFacts ==
  ASSUME NEW m \in Name, NEW T \in SUBSET Table
  PROVE  /\ Chosen(m, T) \in Schemas
         /\ \A t \in T \cap DOMAIN CreateSqls[m] :
              t \in DOMAIN Chosen(m, T) /\ Chosen(m, T)[t] = CreateSqls[m][t]
  <1> DEFINE f == CreateSqls[m]
             X == DOMAIN f \cap UNION {EndsWith[x] : x \in T}
             g == [t \in X |-> f[t]]
  <1>1. f \in Schemas
    BY MigrationAssumption
  <1>2. DOMAIN f \in SUBSET Table /\ \A t \in DOMAIN f : f[t] \in Schema
    BY <1>1, MapFacts
  <1>3. Chosen(m, T) = g
    BY DEF Chosen, Restrict
  <1>4. \A t \in T \cap DOMAIN f : t \in X
    BY MigrationAssumption
  <1>5. X \in SUBSET Table /\ \A t \in X : f[t] \in Schema
    BY <1>2
  <1> HIDE DEF f, X
  <1>6. g \in [X -> Schema]
    BY <1>5
  <1>7. g \in Schemas
    BY <1>5, <1>6, MapFacts
  <1> QED
    BY <1>3, <1>4, <1>7 DEF f

\* What one round of the rebuilding of tables T of database n makes of a content, with the
\* list of m.
RebuiltOnce(n, m, T, c, d) ==
  /\ WellFormed(d) /\ d.first = c.first /\ d.written = c.written /\ d.temps = c.temps
  /\ d.hurt = c.hurt /\ c.astray \subseteq d.astray
  /\ \A t \in TablesOf(c) \ T : t \in TablesOf(d) /\ d.rows[t] = c.rows[t]
  /\ \A t \in T \cap DOMAIN CreateSqls[n] : Sound(n, d, t)
  /\ d.astray # c.astray => m # n

\* The other tables keep their rows, and the tables are there as the configuration of n
\* says, or the list of another database said something else of them.
LEMMA RebuiltFacts ==
  ASSUME NEW n \in Name, NEW m \in Name, NEW T \in SUBSET Table, NEW c, WellFormed(c),
         NEW d, d = Rebuilt(c, T, n, m)
  PROVE  RebuiltOnce(n, m, T, c, d)
  <1> DEFINE e == DropTables(c, T)
             f == CreateTables(e, Chosen(m, T))
             Astray == {t \in T : CreateOf(m, t) # CreateOf(n, t)}
  <1>1. /\ WellFormed(e) /\ OnlyTables(c, e) /\ TablesOf(e) = TablesOf(c) \ T
        /\ \A t \in TablesOf(e) : e.schema[t] = c.schema[t] /\ e.rows[t] = c.rows[t]
    BY DropTablesFacts
  <1>2. d = [f EXCEPT !.astray = @ \cup Astray]
    BY DEF Rebuilt
  <1>3. Chosen(m, T) \in Schemas
    BY ChosenFacts
  <1> HIDE DEF e
  <1>4. /\ WellFormed(f) /\ OnlyTables(e, f)
        /\ TablesOf(f) = TablesOf(e) \cup DOMAIN Chosen(m, T)
        /\ \A t \in TablesOf(e) : f.schema[t] = e.schema[t] /\ f.rows[t] = e.rows[t]
        /\ \A t \in DOMAIN Chosen(m, T) \ TablesOf(e) :
             f.schema[t] = Chosen(m, T)[t] /\ f.rows[t] = {}
    BY <1>1, <1>3, CreateTablesFacts
  <1> HIDE DEF f
  <1>5. Astray \in SUBSET Table /\ f \in Contents /\ f.astray \in SUBSET Table
    BY <1>4, ContentsFields DEF WellFormed
  <1>6. \A t \in Astray : t \in T /\ CreateOf(m, t) # CreateOf(n, t)
    OBVIOUS
  <1>7. \A t \in T : t \notin Astray => CreateOf(m, t) = CreateOf(n, t)
    OBVIOUS
  <1> HIDE DEF Astray
  <1>8. /\ d \in Contents /\ d.astray = f.astray \cup Astray /\ d.schema = f.schema
        /\ d.rows = f.rows /\ d.temps = f.temps /\ d.hurt = f.hurt /\ d.first = f.first
        /\ d.written = f.written
    BY <1>2, <1>5, ContentsFields
  <1>9. /\ WellFormed(d) /\ TablesOf(d) = TablesOf(f)
    BY <1>4, <1>8 DEF WellFormed, TablesOf
  <1>10. ASSUME NEW t \in T \cap DOMAIN CreateSqls[n], t \notin Astray
         PROVE  HasOwnForm(d, t, n)
    <2>1. CreateOf(m, t) = CreateOf(n, t)
      BY <1>7, <1>10
    <2>2. CreateOf(n, t) = {CreateSqls[n][t]}
      BY CreateFacts
    <2>3. t \in DOMAIN CreateSqls[m] /\ CreateSqls[m][t] \in CreateOf(n, t)
      BY <2>1, <2>2, CreateFacts
    <2>4. t \in DOMAIN Chosen(m, T) /\ Chosen(m, T)[t] = CreateSqls[m][t]
      BY <2>3, ChosenFacts
    <2>5. t \notin TablesOf(e)
      BY <1>1
    <2>6. t \in TablesOf(f) /\ f.schema[t] = CreateSqls[m][t]
      BY <1>4, <2>4, <2>5
    <2> QED
      BY <1>8, <1>9, <2>3, <2>6 DEF HasOwnForm
  <1>11. \A t \in T \cap DOMAIN CreateSqls[n] : Sound(n, d, t)
    BY <1>8, <1>10 DEF Sound
  <1>12. d.astray # c.astray => m # n
    <2>1. f.astray = c.astray
      BY <1>1, <1>4 DEF OnlyTables
    <2> QED
      BY <1>6, <1>8, <2>1
  <1>13. \A t \in TablesOf(c) \ T : t \in TablesOf(d) /\ d.rows[t] = c.rows[t]
    BY <1>1, <1>4, <1>8, <1>9
  <1>14. /\ d.first = c.first /\ d.written = c.written /\ d.temps = c.temps
         /\ d.hurt = c.hurt /\ c.astray \subseteq d.astray
    BY <1>1, <1>4, <1>8 DEF OnlyTables
  <1> QED
    BY <1>9, <1>11, <1>12, <1>13, <1>14 DEF RebuiltOnce

\* Once all rows are aside, dropping the tables loses none, and the new ones are there,
\* whichever round of the loop it is and whatever database's list it takes.
LEMMA RebuildStage ==
  ASSUME NEW n \in Name, NEW r, NEW c, NEW d, NEW q, Stage(n, r, c), r.at = "rebuild",
         NEW m \in Name, d = Rebuilt(c, UpdateSet(n, r.version), n, m),
         q.version = r.version, q.stale = r.stale,
         IF r.next < Len(Updates[n][r.version]) THEN q.at = "rebuild" /\ q.next = r.next + 1
                                                ELSE q.at = "restore" /\ q.next = 1
  PROVE  Stage(n, q, d)
  <1> DEFINE s == Updates[n][r.version]
             T == UpdateSet(n, r.version)
             k == r.next
  <1>1. /\ r.version \in 1 .. New - 1 /\ c.first = r.version /\ ~r.stale /\ WellFormed(c)
        /\ k \in 1 .. Len(s) /\ TempsWithin(c, T \cup c.astray)
        /\ \A t \in Table \ T : MayLose(n, c, t) \/ KeptIn(c, t)
        /\ \A i \in 1 .. Len(s) : MayLose(n, c, s[i]) \/ AsideIn(c, s[i])
    BY DEF Stage, Rebuilding, InUpgrade, UpdateSet
  <1>2. /\ Len(s) \in Nat /\ T \in SUBSET Table /\ T = ToSet(s)
        /\ \A t \in T : \E i \in 1 .. Len(s) : t = s[i]
        /\ \A i \in 1 .. Len(s) : s[i] \in T
    <2>1. T = ToSet(s)
      BY DEF UpdateSet
    <2>2. /\ Len(s) \in Nat
          /\ \A t \in T : t \in Table /\ \E i \in 1 .. Len(s) : t = s[i]
          /\ \A i \in 1 .. Len(s) : s[i] \in T
      <3>1. r.version \in 1 .. New - 1
        BY <1>1
      <3> HIDE DEF k
      <3> QED
        BY <3>1, ListFacts
    <2> HIDE DEF s, T
    <2> QED
      BY <2>1, <2>2
  <1> HIDE DEF s, T, k
  <1>3. /\ WellFormed(d) /\ d.first = c.first /\ d.written = c.written /\ d.temps = c.temps
        /\ d.hurt = c.hurt /\ c.astray \subseteq d.astray
        /\ \A t \in TablesOf(c) \ T : t \in TablesOf(d) /\ d.rows[t] = c.rows[t]
        /\ \A t \in T \cap DOMAIN CreateSqls[n] : Sound(n, d, t)
    <2>1. d = Rebuilt(c, T, n, m) /\ WellFormed(c) /\ T \in SUBSET Table
      BY <1>1, <1>2 DEF T
    <2>2. RebuiltOnce(n, m, T, c, d)
      BY <2>1, RebuiltFacts
    <2> QED
      BY <2>2 DEF RebuiltOnce
  <1>4. \A t \in Table : MayLose(n, c, t) => MayLose(n, d, t)
    BY <1>3, ExcusedFacts
  <1>5. UpdatedIn(n, d)
    BY <1>1, <1>3 DEF UpdatedIn, T
  <1>6. TempsWithin(d, ToSet(s) \cup d.astray)
    BY <1>1, <1>2, <1>3 DEF TempsWithin
  <1>7. ASSUME NEW t \in Table \ T PROVE MayLose(n, d, t) \/ KeptIn(d, t)
    BY <1>1, <1>3, <1>4 DEF KeptIn
  <1>8. \A i \in 1 .. Len(s) : MayLose(n, d, s[i]) \/ AsideIn(d, s[i])
    <2>1. \A i \in 1 .. Len(s) : s[i] \in Table
      BY <1>2
    <2> QED
      BY <1>1, <1>3, <1>4, <2>1 DEF AsideIn, TempRows
  <1>9. CASE k < Len(s)
    <2>1. q.at = "rebuild" /\ q.next = k + 1
      BY <1>9 DEF s, k
    <2>2. k + 1 \in 1 .. Len(s)
      BY <1>1, <1>2, <1>9
    <2>3. Rebuilding(n, q, d)
      BY <1>1, <1>2, <1>6, <1>7, <1>8, <2>1, <2>2 DEF Rebuilding, InUpgrade, s
    <2> QED
      BY <1>1, <1>3, <2>1, <2>3 DEF Stage
  <1>10. CASE ~(k < Len(s))
    <2>1. q.at = "restore" /\ q.next = 1
      BY <1>10 DEF s, k
    <2>2. 1 \in 1 .. Len(s) /\ ~q.stale
      BY <1>1, <1>2
    <2>3. \A t \in Table : (\E i \in 1 .. Len(s) : t = s[i]) \/ MayLose(n, d, t) \/ KeptIn(d, t)
      BY <1>2, <1>7
    <2>4. Restoring(n, q, d)
      BY <1>1, <1>5, <1>6, <1>8, <2>1, <2>2, <2>3 DEF Restoring, InUpgrade, s
    <2> QED
      BY <1>1, <1>3, <2>1, <2>4 DEF Stage
  <1> QED
    BY <1>9, <1>10

\* Table t of database n is dealt with by the loop that restores tables.
RestoredOne(n, c, d, t) ==
  /\ WellFormed(d) /\ d.first = c.first /\ d.written = c.written /\ d.schema = c.schema
  /\ c.hurt \subseteq d.hurt /\ d.astray = c.astray
  /\ MayLose(n, d, t) \/ KeptIn(d, t)
  /\ \A u \in Table \ {t} : /\ TempRows(d, u) = TempRows(c, u)
                            /\ u \in TablesOf(c) => d.rows[u] = c.rows[u]
  /\ DOMAIN d.temps \subseteq DOMAIN c.temps

\* Dropping the temporary table of one that was restored, or is excused.
LEMMA TempDropped ==
  ASSUME NEW n, NEW c, NEW d, NEW e, NEW t \in Table, RestoredOne(n, c, e, t), d = DropTemps(e, {t})
  PROVE  RestoredOne(n, c, d, t)
  <1>1. /\ WellFormed(d) /\ OnlyTemps(e, d) /\ d.hurt = e.hurt
        /\ DOMAIN d.temps = DOMAIN e.temps \ {t}
        /\ \A u \in Table \ {t} : TempRows(d, u) = TempRows(e, u)
    BY DropTempsFacts DEF RestoredOne
  <1>2. MayLose(n, d, t) \/ KeptIn(d, t)
    BY <1>1 DEF RestoredOne, MayLose, KeptIn, OnlyTemps, TablesOf
  <1> QED
    BY <1>1, <1>2 DEF RestoredOne, OnlyTemps

\* Whichever way restoring one table goes, its rows are back or excused, and the others
\* are untouched.
LEMMA RestoredCases ==
  ASSUME NEW n, NEW c, WellFormed(c), NEW t \in Table,
         MayLose(n, c, t) \/ (AsideIn(c, t) /\ (t \in TablesOf(c) => HasOwnForm(c, t, n))), NEW kept,
         NEW stale, stale => t \in c.hurt, NEW later \in SUBSET Table, NEW d,
         \/ t \notin DOMAIN c.temps /\ d = c
         \/ t \in DOMAIN c.temps /\ CanRestore(c, t, stale)
            /\ kept \in KeptRows(c, t, n) /\ d = Restored(c, t, kept)
         \/ stale /\ d = RestoreStale(c, t)
         \/ d = RestoreFails(c, t, later)
         \/ d = RestoreSkipped(c, t)
  PROVE  RestoredOne(n, c, d, t)
  <1>0. c \in Contents /\ c.hurt \in SUBSET Table /\ DOMAIN c.rows = TablesOf(c)
    BY ContentsFields DEF WellFormed
  <1>1. CASE t \notin DOMAIN c.temps /\ d = c
    <2>1. TempRows(c, t) = {}
      BY <1>1 DEF TempRows
    <2>2. MayLose(n, c, t) \/ KeptIn(c, t)
      BY <2>1 DEF AsideIn, KeptIn
    <2> QED
      BY <1>1, <2>2 DEF RestoredOne
  <1>2. CASE t \in DOMAIN c.temps /\ CanRestore(c, t, stale)
            /\ kept \in KeptRows(c, t, n) /\ d = Restored(c, t, kept)
    <2> DEFINE rows == [c.rows EXCEPT ![t] = c.rows[t] \cup kept]
               e == [c EXCEPT !.rows[t] = @ \cup kept]
    <2>1. t \in TablesOf(c) /\ TempRows(c, t) = c.temps[t] /\ d = DropTemps(e, {t})
      BY <1>2 DEF CanRestore, TempRows, Restored
    <2>2. /\ c.rows \in RowMaps /\ c.temps \in RowMaps
      BY <1>0, ContentsFields
    <2>0. /\ kept \in SUBSET Row
          /\ HasOwnForm(c, t, n) => kept = c.temps[t]
      <3>1. c.temps[t] \in SUBSET Row
        BY <1>2, <2>2, MapFacts
      <3>2. CASE HasOwnForm(c, t, n)
        BY <1>2, <3>1, <3>2 DEF KeptRows
      <3>3. CASE ~HasOwnForm(c, t, n)
        BY <1>2, <3>1, <3>3 DEF KeptRows
      <3> QED
        BY <3>2, <3>3
    <2>3. /\ DOMAIN rows = TablesOf(c) /\ rows[t] = c.rows[t] \cup kept
          /\ \A u \in TablesOf(c) \ {t} : rows[u] = c.rows[u]
          /\ rows \in RowMaps
      <3>1. rows \in [TablesOf(c) -> SUBSET Row] /\ TablesOf(c) \in SUBSET Table
        BY <1>0, <2>1, <2>2, <2>0, MapFacts
      <3> QED
        BY <1>0, <2>1, <3>1, MapFacts
    <2>4. e = [c EXCEPT !.rows = rows]
      OBVIOUS
    <2> HIDE DEF rows, e
    <2>5. /\ e \in Contents /\ e.rows = rows /\ e.schema = c.schema /\ e.temps = c.temps
          /\ e.hurt = c.hurt /\ e.astray = c.astray /\ e.first = c.first /\ e.written = c.written
      BY <1>0, <2>3, <2>4, ContentsFields
    <2>6. WellFormed(e) /\ \A u \in Table : TempRows(e, u) = TempRows(c, u)
      BY <2>3, <2>5 DEF WellFormed, TablesOf, TempRows
    <2>7. MayLose(n, e, t) \/ KeptIn(e, t)
      BY <2>1, <2>3, <2>5, <2>0 DEF MayLose, KeptIn, AsideIn, TablesOf
    <2>8. RestoredOne(n, c, e, t)
      BY <2>3, <2>5, <2>6, <2>7 DEF RestoredOne
    <2> QED
      BY <2>1, <2>8, TempDropped
  <1>3. CASE stale /\ d = RestoreStale(c, t)
    <2>1. d = DropTemps(c, {t}) /\ MayLose(n, c, t)
      BY <1>3 DEF RestoreStale, MayLose
    <2>2. RestoredOne(n, c, c, t)
      BY <2>1 DEF RestoredOne
    <2> QED
      BY <2>1, <2>2, TempDropped
  <1>4. CASE d = RestoreFails(c, t, later)
    <2> DEFINE e == [c EXCEPT !.hurt = @ \cup {t} \cup later]
    <2>1. d = DropTemps(e, {t})
      BY <1>4 DEF RestoreFails
    <2>2. /\ e \in Contents /\ e.rows = c.rows /\ e.schema = c.schema /\ e.temps = c.temps
          /\ e.hurt = c.hurt \cup {t} \cup later /\ e.astray = c.astray /\ e.first = c.first /\ e.written = c.written
      BY <1>0, ContentsFields
    <2> HIDE DEF e
    <2>3. RestoredOne(n, c, e, t)
      BY <2>2 DEF RestoredOne, WellFormed, TablesOf, MayLose, TempRows
    <2> QED
      BY <2>1, <2>3, TempDropped
  <1>5. CASE d = RestoreSkipped(c, t)
    <2>1. /\ d \in Contents /\ d.rows = c.rows /\ d.schema = c.schema /\ d.temps = c.temps
          /\ d.hurt = c.hurt \cup {t} /\ d.astray = c.astray /\ d.first = c.first /\ d.written = c.written
      BY <1>0, <1>5, ContentsFields DEF RestoreSkipped
    <2> QED
      BY <2>1 DEF RestoredOne, WellFormed, TablesOf, MayLose, TempRows
  <1> QED
    BY <1>1, <1>2, <1>3, <1>4, <1>5

\* A failed INSERT excuses the tables after it as well.
LEMMA FailureExcuses ==
  ASSUME NEW c, WellFormed(c), NEW t \in Table, NEW later \in SUBSET Table, NEW d,
         d = RestoreFails(c, t, later)
  PROVE  later \subseteq d.hurt
  <1> DEFINE e == [c EXCEPT !.hurt = @ \cup {t} \cup later]
  <1>1. d = DropTemps(e, {t})
    BY DEF RestoreFails
  <1>2. e \in Contents /\ e.hurt = c.hurt \cup {t} \cup later
    BY ContentsFields DEF WellFormed
  <1> HIDE DEF e
  <1>3. d.hurt = e.hurt
    <2>1. e.temps \in RowMaps
      BY <1>2, ContentsFields
    <2> QED
      BY <1>1, <1>2, ContentsFields DEF DropTemps
  <1> QED
    BY <1>2, <1>3

\* One table further, those passed are back; a text that stays in the builder excuses
\* the rest.
LEMMA RestoreStage ==
  ASSUME NEW n \in Name, NEW r, NEW c, NEW d, NEW q, Stage(n, r, c), r.at = "restore",
         RestoredOne(n, c, d, Updates[n][r.version][r.next]), q.version = r.version,
         q.stale => \/ r.stale
                    \/ \A i \in r.next .. Len(Updates[n][r.version]) : Updates[n][r.version][i] \in d.hurt,
         IF r.next < Len(Updates[n][r.version]) THEN q.at = "restore" /\ q.next = r.next + 1
                                             ELSE q.at = "sweep"
  PROVE  Stage(n, q, d)
  <1> DEFINE s == Updates[n][r.version]
             k == r.next
  <1>1. /\ r.version \in 1 .. New - 1 /\ c.first = r.version
        /\ k \in 1 .. Len(s) /\ UpdatedIn(n, c) /\ TempsWithin(c, ToSet(s) \cup c.astray)
        /\ \A t \in Table : (\E i \in k .. Len(s) : t = s[i]) \/ MayLose(n, c, t) \/ KeptIn(c, t)
        /\ \A i \in k .. Len(s) : MayLose(n, c, s[i]) \/ AsideIn(c, s[i])
        /\ r.stale => \A i \in k .. Len(s) : s[i] \in c.hurt
    BY DEF Stage, Restoring, InUpgrade
  <1>2. /\ Len(s) \in Nat /\ ToSet(s) = UpdateSet(n, r.version)
        /\ \A i \in 1 .. Len(s) : s[i] \in Table
        /\ \A i, j \in 1 .. Len(s) : s[i] = s[j] => i = j
    BY <1>1, ListFacts DEF UpdateSet
  <1>3. /\ WellFormed(d) /\ d.first = c.first /\ d.written = c.written /\ d.schema = c.schema
        /\ c.hurt \subseteq d.hurt /\ d.astray = c.astray
        /\ MayLose(n, d, s[k]) \/ KeptIn(d, s[k])
        /\ \A u \in Table \ {s[k]} : /\ TempRows(d, u) = TempRows(c, u)
                                     /\ u \in TablesOf(c) => d.rows[u] = c.rows[u]
        /\ DOMAIN d.temps \subseteq DOMAIN c.temps
    BY DEF RestoredOne
  <1>4. q.stale => \A i \in k .. Len(s) : s[i] \in d.hurt
    BY <1>1, <1>3
  <1> HIDE DEF s, k
  <1>5. \A t \in Table : MayLose(n, c, t) => MayLose(n, d, t)
    BY <1>3, ExcusedFacts
  <1>6. UpdatedIn(n, d)
    BY <1>1, <1>3 DEF UpdatedIn, Sound, HasOwnForm, TablesOf
  <1>7. TempsWithin(d, ToSet(s) \cup d.astray)
    BY <1>1, <1>3 DEF TempsWithin
  <1>8. ASSUME NEW t \in Table, ~MayLose(n, d, t), ~KeptIn(d, t)
        PROVE  \E i \in k + 1 .. Len(s) : t = s[i]
    <2>1. t # s[k] /\ ~MayLose(n, c, t)
      BY <1>3, <1>5, <1>8
    <2>2. ~KeptIn(c, t)
      BY <1>3, <1>8, <2>1 DEF KeptIn, TablesOf
    <2>3. PICK i \in k .. Len(s) : t = s[i]
      BY <1>1, <2>1, <2>2
    <2>4. i # k /\ i \in k + 1 .. Len(s)
      BY <1>1, <1>2, <2>1, <2>3
    <2> QED
      BY <2>3, <2>4
  <1>9. ASSUME NEW i \in k + 1 .. Len(s) PROVE MayLose(n, d, s[i]) \/ AsideIn(d, s[i])
    <2>1. i \in k .. Len(s) /\ i \in 1 .. Len(s) /\ i # k
      BY <1>1, <1>2
    <2>2. s[i] \in Table \ {s[k]}
      BY <1>1, <1>2, <2>1
    <2>3. MayLose(n, c, s[i]) \/ AsideIn(c, s[i])
      BY <1>1, <2>1
    <2> QED
      BY <1>3, <1>5, <2>2, <2>3 DEF AsideIn
  <1>10. CASE k < Len(s)
    <2>1. q.at = "restore" /\ q.next = k + 1
      BY <1>10 DEF s, k
    <2>2. k + 1 \in 1 .. Len(s) /\ \A i \in k + 1 .. Len(s) : i \in k .. Len(s)
      BY <1>1, <1>2, <1>10
    <2>3. \A t \in Table : (\E i \in k + 1 .. Len(s) : t = s[i]) \/ MayLose(n, d, t) \/ KeptIn(d, t)
      BY <1>8
    <2>4. q.stale => \A i \in k + 1 .. Len(s) : s[i] \in d.hurt
      BY <1>4, <2>2
    <2>5. Restoring(n, q, d)
      BY <1>1, <1>6, <1>7, <1>9, <2>1, <2>2, <2>3, <2>4 DEF Restoring, InUpgrade, s
    <2> QED
      BY <1>1, <1>3, <2>1, <2>5 DEF Stage
  <1>11. CASE ~(k < Len(s))
    <2>1. q.at = "sweep"
      BY <1>11 DEF s, k
    <2>2. \A i \in k + 1 .. Len(s) : FALSE
      BY <1>1, <1>2, <1>11
    <2>3. AllKept(n, d)
      BY <1>8, <2>2 DEF AllKept
    <2>4. Sweeping(n, q, d)
      BY <1>1, <1>2, <1>6, <1>7, <2>3 DEF Sweeping, InUpgrade, s
    <2> QED
      BY <1>1, <1>3, <2>1, <2>4 DEF Stage
  <1> QED
    BY <1>10, <1>11

\* When all rows are back, the temporary tables may go.
LEMMA SweepStage ==
  ASSUME NEW n \in Name, NEW r, NEW c, NEW d, NEW q, Stage(n, r, c), r.at = "sweep",
         d = SweptTemps(c, UpdateSet(n, r.version)), q.version = r.version, q.at = "delete"
  PROVE  Stage(n, q, d)
  <1> DEFINE L == UpdateSet(n, r.version)
  <1>1. /\ r.version \in 1 .. New - 1 /\ c.first = r.version /\ WellFormed(c)
        /\ UpdatedIn(n, c) /\ AllKept(n, c) /\ TempsWithin(c, L \cup c.astray)
    BY DEF Stage, Sweeping, InUpgrade
  <1>2. /\ WellFormed(d) /\ OnlyTemps(c, d) /\ d.hurt = c.hurt
        /\ DOMAIN d.temps = DOMAIN c.temps \ (L \cap TablesOf(c))
    BY <1>1, DropTempsFacts DEF SweptTemps
  <1>3. \A t \in L \cap DOMAIN CreateSqls[n] : t \in TablesOf(c) \cup c.astray
    BY <1>1 DEF UpdatedIn, Sound, HasOwnForm
  <1>4. TempsWithin(d, Leftovers(n, d))
    BY <1>1, <1>2, <1>3 DEF TempsWithin, Leftovers, OnlyTemps
  <1>5. UpdatedIn(n, d) /\ AllKept(n, d)
    BY <1>1, <1>2 DEF UpdatedIn, Sound, HasOwnForm, AllKept, KeptIn, MayLose, OnlyTemps, TablesOf
  <1>6. Deleting(n, q, d)
    BY <1>1, <1>4, <1>5 DEF Deleting, InUpgrade
  <1> QED
    BY <1>1, <1>2, <1>6 DEF Stage, OnlyTemps

\* Dropping the delete list loses only what was to be deleted, and gives the schema of
\* the new version.
LEMMA DeleteStage ==
  ASSUME NEW n \in Name, NEW r, NEW c, NEW d, NEW q, Stage(n, r, c), r.at = "delete",
         d = Deleted(c, DeleteSet(n, r.version)), q.version = r.version, q.at = "setVersion"
  PROVE  Stage(n, q, d)
  <1> DEFINE L == UpdateSet(n, r.version)
             D == DeleteSet(n, r.version)
  <1>1. /\ r.version \in 1 .. New - 1 /\ c.first = r.version /\ WellFormed(c)
        /\ UpdatedIn(n, c) /\ AllKept(n, c) /\ TempsWithin(c, Leftovers(n, c))
    BY DEF Stage, Deleting, InUpgrade
  <1>2. /\ WellFormed(d) /\ OnlyTables(c, d) /\ TablesOf(d) = TablesOf(c) \ D
        /\ \A t \in TablesOf(d) : d.schema[t] = c.schema[t] /\ d.rows[t] = c.rows[t]
    BY <1>1, DropTablesFacts DEF Deleted
  <1>3. /\ d.first = c.first /\ d.written = c.written /\ d.temps = c.temps /\ d.hurt = c.hurt
        /\ d.astray = c.astray
    BY <1>2 DEF OnlyTables
  <1>4. \A t \in Table : /\ MayLose(n, d, t) <=> MayLose(n, c, t)
                         /\ t \in D => MayLose(n, d, t)
    BY <1>1, <1>3 DEF MayLose, DeleteSet
  <1>5. AllKept(n, d)
    BY <1>1, <1>2, <1>3, <1>4 DEF AllKept, KeptIn
  <1>6. HasSchema(n, d)
    <2>1. \A t \in (L \cap DOMAIN CreateSqls[n]) \ D : Sound(n, d, t)
      BY <1>1, <1>2, <1>3 DEF UpdatedIn, Sound, HasOwnForm
    <2>2. TempsWithin(d, Leftovers(n, d))
      BY <1>1, <1>3 DEF TempsWithin, Leftovers
    <2>3. d.first # 0 /\ d.first = r.version
      BY <1>1, <1>3
    <2> QED
      BY <1>2, <2>1, <2>2, <2>3 DEF HasSchema
  <1> QED
    BY <1>1, <1>2, <1>3, <1>5, <1>6 DEF Stage

\* A new file gets every table, and has no rows to lose.
LEMMA CreateStage ==
  ASSUME NEW n \in Name, NEW r, NEW c, NEW d, NEW q, Stage(n, r, c), r.at = "onCreate",
         d = AllTablesCreated(c, n), q.version = r.version, q.at = "setVersion"
  PROVE  Stage(n, q, d)
  <1>1. r.version = 0 /\ c.first = 0 /\ WellFormed(c) /\ AllKept(n, c) /\ OwnForms(n, c)
    BY DEF Stage
  <1>2. /\ WellFormed(d) /\ OnlyTables(c, d) /\ TablesOf(d) = TablesOf(c) \cup DOMAIN CreateSqls[n]
        /\ \A t \in TablesOf(c) : d.schema[t] = c.schema[t] /\ d.rows[t] = c.rows[t]
        /\ \A t \in DOMAIN CreateSqls[n] \ TablesOf(c) : d.schema[t] = CreateSqls[n][t] /\ d.rows[t] = {}
    BY <1>1, MigrationAssumption, CreateTablesFacts DEF AllTablesCreated
  <1>3. /\ d.first = c.first /\ d.written = c.written /\ d.hurt = c.hurt /\ d.astray = c.astray
    BY <1>2 DEF OnlyTables
  <1>4. AllKept(n, d)
    BY <1>1, <1>2, <1>3 DEF AllKept, KeptIn, MayLose
  <1>5. HasSchema(n, d)
    BY <1>1, <1>2, <1>3 DEF HasSchema, OwnForms, HasOwnForm, CreateOf
  <1> QED
    BY <1>1, <1>2, <1>3, <1>4, <1>5 DEF Stage

\* Where the upgrade of a committed file begins.
LEMMA BeginStage ==
  ASSUME NEW n \in Name, NEW c, NEW q, FileOk(n, c), c.first \in 0 .. New - 1, q.version = c.first,
         q.next = 1, ~q.stale,
         q.at = IF q.version = 0 THEN "onCreate" ELSE UpgradeFrom(n, q.version)
  PROVE  Stage(n, q, c)
  <1>1. /\ WellFormed(c) /\ AllKept(n, c) /\ c.version \in {c.first, New}
        /\ c.version = 0 => TablesOf(c) = {}
        /\ c.first \in 1 .. New - 1 => TempsWithin(c, Leftovers(n, c))
        /\ c.version = New /\ c.first # New => HasSchema(n, c)
    BY DEF FileOk
  <1>2. CASE q.version = 0
    <2>1. c.first = 0 /\ c.first # New
      BY <1>2, MigrationAssumption
    <2>2. OwnForms(n, c)
      BY <1>1, <2>1 DEF HasSchema, OwnForms
    <2> QED
      BY <1>1, <1>2, <2>2 DEF Stage
  <1>3. CASE q.version # 0
    <2>1. q.version \in 1 .. New - 1 /\ c.first = q.version
      BY <1>3, MigrationAssumption
    <2>2. CASE Updates[n][q.version] = <<>>
      <3>1. UpdateSet(n, q.version) = {}
        BY <2>2, LenProperties DEF UpdateSet, ToSet
      <3>2. UpdatedIn(n, c)
        BY <2>1, <3>1 DEF UpdatedIn
      <3> QED
        BY <1>1, <1>3, <2>1, <2>2, <3>2 DEF Stage, UpgradeFrom, Deleting, InUpgrade
    <2>3. CASE Updates[n][q.version] # <<>>
      <3>1. Len(Updates[n][q.version]) > 0 /\ Len(Updates[n][q.version]) \in Nat
        BY <2>1, <2>3, ListFacts
      <3>2. TempsWithin(c, ToSet(Updates[n][q.version]) \cup c.astray)
        BY <1>1, <2>1 DEF TempsWithin, UpdateSet, Leftovers
      <3>3. Copying(n, q, c)
        BY <1>1, <2>1, <3>1, <3>2 DEF Copying, InUpgrade
      <3> QED
        BY <1>1, <1>3, <2>1, <2>3, <3>3 DEF Stage, UpgradeFrom
    <2> QED
      BY <2>2, <2>3
  <1> QED
    BY <1>2, <1>3

\* What is committed at the end of an upgrade.
LEMMA CommitOk ==
  ASSUME NEW n \in Name, NEW r, NEW c, NEW d, Stage(n, r, c), r.at = "setVersion", r.version \in 0 .. New - 1,
         d = Versioned(c)
  PROVE  FileOk(n, d) /\ Ready(d) /\ d.first = c.first
  <1>1. WellFormed(c) /\ c.first = r.version /\ AllKept(n, c) /\ HasSchema(n, c)
    BY DEF Stage
  <1>2. New \in 0..New /\ New # 0
    BY MigrationAssumption
  <1>3. /\ d \in Contents /\ d.version = New /\ d.first = c.first /\ d.written = c.written
        /\ d.schema = c.schema /\ d.rows = c.rows /\ d.temps = c.temps /\ d.hurt = c.hurt
        /\ d.astray = c.astray
    BY <1>1, <1>2, ContentsFields DEF Versioned, WellFormed
  <1>4. WellFormed(d) /\ AllKept(n, d)
    BY <1>1, <1>3 DEF WellFormed, AllKept, KeptIn, MayLose, TablesOf
  <1>5. HasSchema(n, d)
    BY <1>1, <1>3 DEF HasSchema, TempsWithin, TablesOf, Leftovers, Sound, HasOwnForm
  <1>6. d.first \in 1 .. New - 1 => TempsWithin(d, Leftovers(n, d))
    BY <1>5, MigrationAssumption DEF HasSchema
  <1> QED
    BY <1>2, <1>3, <1>4, <1>5, <1>6 DEF FileOk, Ready

-----------------------------------------------------------------------------
(* What a step leaves as it is.                                            *)

\* Helper h keeps its file, and has it open only if it is ready.
HelperKept(h) ==
  /\ helpers'[h].name = helpers[h].name
  /\ helpers'[h].open => helpers[h].open \/ Ready(disk'[helpers[h].name])

\* A file that may be handed out stays so.
FileKept(n) == disk'[n].first = disk[n].first /\ (Ready(disk[n]) => Ready(disk'[n]))

\* The transaction that thread u is in on file n goes on.
TransactionKept(u, n) == writing[n] = u => writing'[n] = u /\ work'[n] = work[n]

\* Who is referred to.
LEMMA UsedFacts ==
  /\ \A i : i \in UsedInstances <=>
       /\ i # None
       /\ \/ i = mInstance \/ i = moduleDB
          \/ \E t \in Thread : i = call[t].self \/ i = call[t].made
  /\ \A h : h \in UsedHelpers <=>
       \/ \E i \in UsedInstances : h = fields[i].db \/ h = fields[i].helper
       \/ \E t \in Thread : h = call[t].helper
  <1>1. \A i : i \in UsedInstances <=>
          /\ i # None
          /\ \/ i = mInstance \/ i = moduleDB
             \/ \E t \in Thread : i = call[t].self \/ i = call[t].made
    BY DEF UsedInstances
  <1>2. ASSUME NEW h
        PROVE  h \in UNION {{fields[i].db, fields[i].helper} : i \in UsedInstances}
                 <=> \E i \in UsedInstances : h = fields[i].db \/ h = fields[i].helper
    OBVIOUS
  <1>3. ASSUME NEW h
        PROVE  h \in UsedHelpers <=>
                 \/ h \in UNION {{fields[i].db, fields[i].helper} : i \in UsedInstances}
                 \/ \E t \in Thread : h = call[t].helper
    BY DEF UsedHelpers
  <1>4. \A h : h \in UsedHelpers <=>
          \/ \E i \in UsedInstances : h = fields[i].db \/ h = fields[i].helper
          \/ \E t \in Thread : h = call[t].helper
    BY <1>2, <1>3
  <1> QED
    BY <1>1, <1>4

\* The types of the registry's parts.
LEMMA TypedFacts ==
  ASSUME Typed
  PROVE  /\ \A i \in Instance : /\ fields[i].db \in Helper \cup {None}
                                /\ fields[i].helper \in Helper \cup {None}
                                /\ fields[i].currentDb \in Name \cup {None}
         /\ \A h \in Helper : helpers[h].name \in Name \cup {None} /\ helpers[h].open \in BOOLEAN
         /\ \A t \in Thread : call[t] \in CallRecord
         /\ UsedInstances \subseteq Instance
         /\ UsedHelpers \subseteq Helper \cup {None}
         /\ None \notin Thread \cup Name \cup Instance \cup Helper
  <1>1. \A i \in Instance : /\ fields[i].db \in Helper \cup {None}
                            /\ fields[i].helper \in Helper \cup {None}
                            /\ fields[i].currentDb \in Name \cup {None}
    BY DEF Typed
  <1>2. \A t \in Thread : call[t] \in CallRecord
    BY DEF Typed
  <1>3. UsedInstances \subseteq Instance
    BY <1>2 DEF Typed, UsedInstances, CallRecord
  <1>4. UsedHelpers \subseteq Helper \cup {None}
    BY <1>1, <1>2, <1>3, UsedFacts DEF CallRecord
  <1> QED
    BY <1>1, <1>2, <1>3, <1>4, RegistryAssumption DEF Typed

\* A helper that is kept, keeps what is promised of it.
LEMMA HelperStaysOk ==
  ASSUME NEW h, HelperOk(h), HelperKept(h), \A n \in Name : FileKept(n)
  PROVE  HelperOk(h)' /\ (Serves(h) => Serves(h)') /\ helpers'[h].name = helpers[h].name
  <1>1. /\ h \in Helper /\ helpers[h].name \in Name /\ helpers'[h].name = helpers[h].name
        /\ helpers[h].open => Ready(disk[helpers[h].name])
        /\ helpers'[h].open => helpers[h].open \/ Ready(disk'[helpers[h].name])
        /\ Ready(disk[helpers[h].name]) => Ready(disk'[helpers[h].name])
    BY DEF HelperOk, HelperKept, FileKept
  <1>2. HelperOk(h)'
    BY <1>1 DEF HelperOk
  <1> QED
    BY <1>1, <1>2 DEF Serves

\* An instance that is not assigned to stays right if its helpers keep their files, and
\* ready files stay ready.
LEMMA InstanceStaysOk ==
  ASSUME Typed, NEW i \in Instance, InstanceOk(i), fields'[i] = fields[i],
         \A n \in Name : FileKept(n),
         \A h \in Helper : h \in {fields[i].db, fields[i].helper} => HelperKept(h)
  PROVE  InstanceOk(i)'
  <1>1. fields[i].helper # None => HelperOk(fields[i].helper)'
    BY TypedFacts, HelperStaysOk DEF InstanceOk
  <1>2. fields[i].db # None => Serves(fields[i].db)'
    BY TypedFacts, HelperStaysOk DEF InstanceOk, Serves
  <1> QED
    BY <1>1, <1>2 DEF InstanceOk

\* What is promised of a thread that does not step.
LEMMA ThreadStaysOk ==
  ASSUME Typed, NEW u \in Thread, ThreadOk(u), call'[u] = call[u],
         \A n \in Name : FileKept(n) /\ TransactionKept(u, n),
         \A h \in Helper : h = call[u].helper => HelperKept(h), dbName' \in {dbName} \cup Name
  PROVE  ThreadOk(u)'
  <1>r. PICK r : r = call[u]
    OBVIOUS
  <1>n. PICK n : n = helpers[r.helper].name
    OBVIOUS
  <1>1. /\ r.at \notin {"idle", "has"} => r.name \in Name
        /\ r.at \in {"writable", "assign"} \cup InHelper => r.made \in Instance
        /\ r.at = "return" \/ r.again => r.self \in Instance
        /\ r.helper # None => HelperOk(r.helper)
        /\ r.at \in {"assign", "has"} => r.helper # None /\ Serves(r.helper)
        /\ r.at \in InHelper => /\ r.helper # None /\ r.version # New
                                /\ r.version = disk[n].first
        /\ r.at \in InTransaction => writing[n] = u /\ Stage(n, r, work[n])
        /\ r.at \in {"copy", "rebuild"} => dbName # None
    BY <1>r, <1>n DEF ThreadOk, FileOf
  <1>2. ASSUME r.helper # None
        PROVE  /\ HelperOk(r.helper)' /\ (Serves(r.helper) => Serves(r.helper)')
               /\ helpers'[r.helper].name = n /\ n \in Name
    <2>1. HelperOk(r.helper) /\ r.helper \in Helper
      BY <1>1, <1>2 DEF HelperOk
    <2>2. HelperKept(r.helper)
      BY <1>r, <2>1
    <2> QED
      BY <1>n, <2>1, <2>2, HelperStaysOk DEF HelperOk
  <1>3. call'[u] = r
    BY <1>r
  <1>4. r.helper # None => HelperOk(r.helper)'
    BY <1>2
  <1>5. r.at \in {"assign", "has"} => r.helper # None /\ Serves(r.helper)'
    BY <1>1, <1>2
  <1>6. r.at \in InHelper => r.version = disk'[helpers'[r.helper].name].first
    BY <1>1, <1>2 DEF FileKept
  <1>7. r.at \in InTransaction =>
          /\ writing'[helpers'[r.helper].name] = u
          /\ Stage(helpers'[r.helper].name, r, work'[helpers'[r.helper].name])
    BY <1>1, <1>2 DEF TransactionKept, InTransaction, InHelper
  <1>8. r.at \in {"copy", "rebuild"} => dbName' # None
    BY <1>1, RegistryAssumption
  <1> QED
    BY <1>1, <1>3, <1>4, <1>5, <1>6, <1>7, <1>8 DEF ThreadOk, FileOf

\* Only those are referred to that were, or that thread t refers to now.
LEMMA UsedStays ==
  ASSUME NEW t \in Thread, \A u \in Thread \ {t} : call'[u] = call[u],
         NEW X, {mInstance', moduleDB', call'[t].self, call'[t].made}
                  \subseteq UsedInstances \cup {None} \cup X
  PROVE  UsedInstances' \subseteq UsedInstances \cup X
  <1> SUFFICES ASSUME NEW i, i \in UsedInstances' PROVE i \in UsedInstances \cup X
    OBVIOUS
  <1>1. /\ i # None
        /\ \/ i = mInstance' \/ i = moduleDB'
           \/ \E u \in Thread : i = call'[u].self \/ i = call'[u].made
    BY UsedFacts DEF UsedInstances
  <1>2. CASE i \in {mInstance', moduleDB', call'[t].self, call'[t].made}
    BY <1>1, <1>2
  <1>3. CASE i \notin {mInstance', moduleDB', call'[t].self, call'[t].made}
    <2>1. PICK u \in Thread : i = call'[u].self \/ i = call'[u].made
      BY <1>1, <1>3
    <2>2. u # t
      BY <1>3, <2>1
    <2> QED
      BY <1>1, <2>1, <2>2, UsedFacts
  <1> QED
    BY <1>2, <1>3

\* A step of thread t preserves the invariant if it does not disturb the others.
LEMMA StepKeeps ==
  ASSUME RegistryInvariant, NEW t \in Thread, Typed', ThreadOk(t)', dbName' \in {dbName} \cup Name,
         \A n \in Name : FileOk(n, disk'[n]) /\ FileKept(n),
         \A u \in Thread \ {t} : /\ call'[u] = call[u]
                                 /\ \A n \in Name : TransactionKept(u, n),
         \A h \in UsedHelpers : h \in Helper => HelperKept(h),
         \A i \in UsedInstances' :
           InstanceOk(i)' \/ (i \in UsedInstances /\ fields'[i] = fields[i])
  PROVE  RegistryInvariant'
  <1>1. /\ Typed /\ \A i \in UsedInstances : i \in Instance /\ InstanceOk(i)
        /\ \A u \in Thread : ThreadOk(u)
    BY TypedFacts DEF RegistryInvariant
  <1>2. ASSUME NEW u \in Thread PROVE ThreadOk(u)'
    <2>1. \A h \in Helper : h = call[u].helper => HelperKept(h)
      BY UsedFacts
    <2>2. CASE u # t
      <3>1. call'[u] = call[u] /\ \A n \in Name : FileKept(n) /\ TransactionKept(u, n)
        BY <2>2
      <3> QED
        BY <1>1, <2>1, <3>1, ThreadStaysOk
    <2> QED
      BY <2>2
  <1>3. ASSUME NEW i \in UsedInstances' PROVE InstanceOk(i)'
    <2>1. CASE i \in UsedInstances /\ fields'[i] = fields[i]
      <3>1. \A h \in Helper : h \in {fields[i].db, fields[i].helper} => HelperKept(h)
        BY <2>1, UsedFacts
      <3> QED
        BY <1>1, <2>1, <3>1, InstanceStaysOk
    <2> QED
      BY <2>1
  <1>4. (\A n \in Name : FileOk(n, disk[n]))'
    OBVIOUS
  <1> QED
    BY <1>2, <1>3, <1>4 DEF RegistryInvariant

-----------------------------------------------------------------------------
(* How the record of a call changes.                                       *)

\* The call of thread t becomes q.
LEMMA CallBecomes ==
  ASSUME Typed, NEW t \in Thread, NEW q \in CallRecord, call' = [call EXCEPT ![t] = q]
  PROVE  /\ call' \in [Thread -> CallRecord] /\ call'[t] = q
         /\ \A u \in Thread \ {t} : call'[u] = call[u]
  BY DEF Typed

\* Nothing is promised of a thread that is back.
LEMMA IdleFacts ==
  /\ Idle \in CallRecord /\ Idle.at = "idle" /\ ~Idle.again
  /\ Idle.self = None /\ Idle.made = None /\ Idle.helper = None
  BY MigrationAssumption DEF Idle, CallRecord

\* A thread that leaves with an exception keeps no reference.
LEMMA ThrowsOk ==
  ASSUME Typed, NEW t \in Thread, Throws(t)
  PROVE  /\ call' \in [Thread -> CallRecord] /\ ThreadOk(t)'
         /\ \A u \in Thread \ {t} : call'[u] = call[u]
         /\ call'[t].self = None /\ call'[t].made = None
  <1>1. /\ call' \in [Thread -> CallRecord] /\ call'[t] = Idle
        /\ \A u \in Thread \ {t} : call'[u] = call[u]
    BY IdleFacts, CallBecomes DEF Throws
  <1>2. ThreadOk(t)'
    BY <1>1, IdleFacts DEF ThreadOk, InHelper, InTransaction, Upgrade
  <1> QED
    BY <1>1, <1>2, IdleFacts

\* The places of a call that uses nothing but the registry.
Plain == {"create", "new", "open", "current", "close", "closeHelper", "forget", "made", "get"}

\* A thread that goes on to a step that asks nothing more of it stays right.
LEMMA GoesOk ==
  ASSUME RegistryInvariant, NEW t \in Thread, NEW place, Goes(t, place),
         call[t].at \notin {"idle", "has"},
         place \in Plain \/ (place = "return" /\ call[t].again),
         \A n \in Name : FileKept(n),
         \A h \in UsedHelpers : h \in Helper => HelperKept(h)
  PROVE  /\ call' \in [Thread -> CallRecord] /\ ThreadOk(t)'
         /\ \A u \in Thread \ {t} : call'[u] = call[u]
         /\ call'[t].self = call[t].self /\ call'[t].made = call[t].made
  <1>1. PICK r \in CallRecord : r = call[t]
    BY DEF RegistryInvariant, Typed
  <1>2. PICK q : q = [r EXCEPT !.at = place]
    OBVIOUS
  <1>3. place \in Registry
    BY DEF Plain, Registry
  <1>4. /\ q \in CallRecord /\ q.at = place /\ q.name = r.name /\ q.again = r.again
        /\ q.self = r.self /\ q.made = r.made /\ q.helper = r.helper
    BY <1>2, <1>3 DEF CallRecord
  <1>5. call' = [call EXCEPT ![t] = q]
    BY <1>1, <1>2 DEF Goes
  <1>6. /\ call' \in [Thread -> CallRecord] /\ call'[t] = q
        /\ \A u \in Thread \ {t} : call'[u] = call[u]
    BY <1>4, <1>5, CallBecomes DEF RegistryInvariant
  <1>7. /\ r.name \in Name
        /\ r.at = "return" \/ r.again => r.self \in Instance
        /\ r.helper # None => HelperOk(r.helper)
    BY <1>1 DEF RegistryInvariant, ThreadOk
  <1>8. r.helper # None => HelperOk(r.helper)'
    <2>1. r.helper \in UsedHelpers
      BY <1>1, UsedFacts
    <2> QED
      BY <1>7, <2>1, HelperStaysOk DEF HelperOk
  <1>9. ThreadOk(t)'
    <2>1. /\ q.at \notin {"writable", "assign", "has"} \cup InHelper
          /\ q.at \notin InTransaction /\ q.at \notin {"copy", "rebuild"}
          /\ q.at = "return" => q.again
      BY <1>1, <1>4 DEF Plain, InHelper, InTransaction, Upgrade
    <2> QED
      BY <1>4, <1>6, <1>7, <1>8, <2>1 DEF ThreadOk
  <1> QED
    BY <1>1, <1>4, <1>6, <1>9

\* A step that changes neither helpers nor files disturbs nobody.
LEMMA Undisturbed ==
  ASSUME RegistryInvariant, UNCHANGED <<helpers, files>>
  PROVE  /\ \A n \in Name : FileOk(n, disk'[n]) /\ FileKept(n)
         /\ \A u \in Thread : \A n \in Name : TransactionKept(u, n)
         /\ \A h \in UsedHelpers : h \in Helper => HelperKept(h)
  BY DEF RegistryInvariant, FileKept, TransactionKept, HelperKept, files

\* A step that opens no file and commits nothing keeps the invariant if the stepping
\* thread and the new instance are right.
LEMMA RegistryStepKeeps ==
  ASSUME RegistryInvariant, NEW t \in Thread, UNCHANGED <<helpers, files, dbName>>, Typed', ThreadOk(t)',
         \A u \in Thread \ {t} : call'[u] = call[u],
         \A i \in UsedInstances' :
           InstanceOk(i)' \/ (i \in UsedInstances /\ fields'[i] = fields[i])
  PROVE  RegistryInvariant'
  BY Undisturbed, StepKeeps

-----------------------------------------------------------------------------
(* The steps of BaseDao and ModuleDB.                                      *)

\* What an instance that is referred to holds, and where a call may go from create.
LEMMA HeldFacts ==
  ASSUME RegistryInvariant
  PROVE  /\ \A i \in {mInstance, moduleDB} : i # None => i \in UsedInstances
         /\ \A t \in Thread : \A i \in {call[t].self, call[t].made} : i # None => i \in UsedInstances
         /\ \A i \in UsedInstances : i \in Instance /\ InstanceOk(i)
         /\ \A n \in Name : Creates(n) \in {"new", "close", "made"}
  BY UsedFacts, TypedFacts DEF RegistryInvariant, Creates

\* A step that goes on, and neither makes instances nor changes their fields.
LEMMA PlainStepKeeps ==
  ASSUME RegistryInvariant, NEW t \in Thread, NEW place, Goes(t, place),
         call[t].at \notin {"idle", "has"},
         place \in Plain \/ (place = "return" /\ call[t].again),
         UNCHANGED <<helpers, files, fields, dbName>>,
         {mInstance', moduleDB'} \subseteq UsedInstances \cup {None}
  PROVE  RegistryInvariant'
  <1>1. /\ call' \in [Thread -> CallRecord] /\ ThreadOk(t)'
        /\ \A u \in Thread \ {t} : call'[u] = call[u]
        /\ call'[t].self = call[t].self /\ call'[t].made = call[t].made
    BY Undisturbed, GoesOk
  <1>2. UsedInstances' \subseteq UsedInstances
    <2>1. {mInstance', moduleDB', call'[t].self, call'[t].made} \subseteq UsedInstances \cup {None} \cup {}
      BY <1>1, HeldFacts
    <2> QED
      BY <1>1, <2>1, UsedStays
  <1>3. Typed'
    BY <1>1, HeldFacts DEF RegistryInvariant, Typed, files
  <1> QED
    BY <1>1, <1>2, <1>3, RegistryStepKeeps

\* A call that ends, and changes nothing else but the registry's references.
LEMMA ThrowingStepKeeps ==
  ASSUME RegistryInvariant, NEW t \in Thread, Throws(t), UNCHANGED <<helpers, files>>,
         UNCHANGED <<mInstance, moduleDB, fields, dbName>>
  PROVE  RegistryInvariant'
  <1>1. /\ call' \in [Thread -> CallRecord] /\ ThreadOk(t)'
        /\ \A u \in Thread \ {t} : call'[u] = call[u]
        /\ call'[t].self = None /\ call'[t].made = None
    BY ThrowsOk DEF RegistryInvariant
  <1>2. UsedInstances' \subseteq UsedInstances
    <2>1. {mInstance', moduleDB', call'[t].self, call'[t].made} \subseteq UsedInstances \cup {None} \cup {}
      BY <1>1, HeldFacts
    <2> QED
      BY <1>1, <2>1, UsedStays
  <1>3. Typed'
    BY <1>1 DEF RegistryInvariant, Typed, files
  <1> QED
    BY <1>1, <1>2, <1>3, RegistryStepKeeps

\* The call that starts refers to nothing yet.
LEMMA GetDatabaseKeeps ==
  ASSUME RegistryInvariant, NEW t \in Thread, NEW n \in Name, GetDatabase(t, n)
  PROVE  RegistryInvariant'
  <1>1. PICK q : q = [Idle EXCEPT !.at = Creates(n), !.name = n]
    OBVIOUS
  <1>2. /\ q \in CallRecord /\ q.at \in {"new", "close", "made"} /\ q.name = n /\ ~q.again
        /\ q.self = None /\ q.made = None /\ q.helper = None
    BY <1>1, HeldFacts, IdleFacts DEF CallRecord, Registry
  <1>3. call' = [call EXCEPT ![t] = q]
    BY <1>1 DEF GetDatabase
  <1>4. /\ call' \in [Thread -> CallRecord] /\ call'[t] = q
        /\ \A u \in Thread \ {t} : call'[u] = call[u]
    BY <1>2, <1>3, CallBecomes DEF RegistryInvariant
  <1>5. UNCHANGED <<helpers, files>> /\ UNCHANGED <<mInstance, moduleDB, fields, dbName>>
    BY DEF GetDatabase, registry
  <1>6. UsedInstances' \subseteq UsedInstances
    <2>1. {mInstance', moduleDB', call'[t].self, call'[t].made} \subseteq UsedInstances \cup {None} \cup {}
      BY <1>2, <1>4, <1>5, HeldFacts
    <2> QED
      BY <1>4, <2>1, UsedStays
  <1>7. ThreadOk(t)'
    BY <1>2, <1>4 DEF ThreadOk, InHelper, InTransaction, Upgrade
  <1>8. Typed'
    BY <1>4, <1>5 DEF RegistryInvariant, Typed, files
  <1> QED
    BY <1>4, <1>5, <1>6, <1>7, <1>8, RegistryStepKeeps

\* A second create of a database that is there goes on with the instance it read.
LEMMA CreateAgainKeeps ==
  ASSUME RegistryInvariant, NEW t \in Thread, CreateAgain(t)
  PROVE  RegistryInvariant'
  <1>1. /\ call[t].at = "create" /\ Goes(t, Creates(call[t].name))
        /\ UNCHANGED <<helpers, files>> /\ UNCHANGED <<mInstance, moduleDB, fields, dbName>>
    BY DEF CreateAgain, registry
  <1>2. Creates(call[t].name) \in Plain
    BY <1>1, HeldFacts DEF RegistryInvariant, ThreadOk, Plain
  <1>3. {mInstance', moduleDB'} \subseteq UsedInstances \cup {None}
    BY <1>1, HeldFacts
  <1> QED
    BY <1>1, <1>2, <1>3, PlainStepKeeps

\* Clearing the static instance takes nothing from a thread that has read it.
LEMMA ForgetKeeps ==
  ASSUME RegistryInvariant, NEW t \in Thread, Forget(t)
  PROVE  RegistryInvariant'
  <1>1. /\ call[t].at = "forget" /\ Goes(t, "new") /\ UNCHANGED <<helpers, files>>
        /\ UNCHANGED <<fields, dbName>> /\ mInstance' = None /\ moduleDB' = moduleDB
    BY DEF Forget
  <1>2. {mInstance', moduleDB'} \subseteq UsedInstances \cup {None} /\ "new" \in Plain
    BY <1>1, HeldFacts DEF Plain
  <1> QED
    BY <1>1, <1>2, PlainStepKeeps

\* Publishing an instance says nothing about its file.
LEMMA MadeKeeps ==
  ASSUME RegistryInvariant, NEW t \in Thread, Made(t)
  PROVE  RegistryInvariant'
  <1>1. PICK place : place = IF call[t].again THEN "return" ELSE "get"
    OBVIOUS
  <1>2. /\ call[t].at = "made" /\ Goes(t, place) /\ UNCHANGED <<helpers, files>>
        /\ UNCHANGED <<fields, dbName>> /\ mInstance' = mInstance /\ moduleDB' \in {mInstance, moduleDB}
    BY <1>1 DEF Made
  <1>3. {mInstance', moduleDB'} \subseteq UsedInstances \cup {None}
    BY <1>2, HeldFacts
  <1>4. place \in Plain \/ (place = "return" /\ call[t].again)
    BY <1>1 DEF Plain
  <1> QED
    BY <1>2, <1>3, <1>4, PlainStepKeeps

\* A thread that is done lets go of its database.
LEMMA DoneKeeps ==
  ASSUME RegistryInvariant, NEW t \in Thread, Done(t)
  PROVE  RegistryInvariant'
  BY ThrowingStepKeeps DEF Done, registry

\* A new ModuleDB refers to nothing.
LEMMA NewInstanceKeeps ==
  ASSUME RegistryInvariant, NEW t \in Thread, NewInstance(t)
  PROVE  RegistryInvariant'
  <1>1. /\ call[t].at = "new" /\ Goes(t, "open") /\ UNCHANGED <<helpers, files>>
        /\ moduleDB' = moduleDB /\ dbName' = dbName
    BY DEF NewInstance
  <1>2. PICK i \in Instance \ UsedInstances :
          /\ mInstance' = i
          /\ fields' = [j \in Instance |-> IF j \in UsedInstances THEN fields[j] ELSE NoFields]
    BY DEF NewInstance
  <1>3. /\ call' \in [Thread -> CallRecord] /\ ThreadOk(t)'
        /\ \A u \in Thread \ {t} : call'[u] = call[u]
        /\ call'[t].self = call[t].self /\ call'[t].made = call[t].made
    <2>1. "open" \in Plain
      BY DEF Plain
    <2> QED
      BY <1>1, <2>1, Undisturbed, GoesOk
  <1>4. UsedInstances' \subseteq UsedInstances \cup {i}
    <2>1. {mInstance', moduleDB', call'[t].self, call'[t].made} \subseteq UsedInstances \cup {None} \cup {i}
      BY <1>1, <1>2, <1>3, HeldFacts
    <2> QED
      BY <1>3, <2>1, UsedStays
  <1>5. /\ \A j \in UsedInstances : fields'[j] = fields[j]
        /\ fields'[i] = NoFields
    BY <1>2, HeldFacts
  <1>6. InstanceOk(i)'
    BY <1>5 DEF InstanceOk, NoFields
  <1>7. Typed'
    <2>1. fields' \in [Instance -> [db : Helper \cup {None}, currentDb : Name \cup {None},
                                    helper : Helper \cup {None}]]
      BY <1>2 DEF RegistryInvariant, Typed, NoFields
    <2> QED
      BY <1>1, <1>2, <1>3, <2>1 DEF RegistryInvariant, Typed, files
  <1> QED
    BY <1>1, <1>3, <1>4, <1>5, <1>6, <1>7, RegistryStepKeeps

\* A new helper has a file and has not opened it.
LEMMA OpenKeeps ==
  ASSUME RegistryInvariant, NEW t \in Thread, Open(t)
  PROVE  RegistryInvariant'
  <1>1. CASE mInstance = None
    BY <1>1, ThrowingStepKeeps DEF Open, registry
  <1>2. CASE mInstance # None
    <2>1. PICK h \in Helper \ UsedHelpers :
            /\ helpers' = [k \in Helper |-> IF k \in UsedHelpers THEN helpers[k]
                 ELSE [NoHelper EXCEPT !.name = IF k = h THEN call[t].name ELSE None]]
            /\ fields' = [fields EXCEPT ![mInstance].helper = h]
      BY <1>2 DEF Open
    <2>2. /\ call[t].at = "open" /\ UNCHANGED files /\ UNCHANGED <<mInstance, moduleDB, dbName>>
          /\ call' = [call EXCEPT ![t].at = "writable", ![t].made = mInstance]
      BY <1>2 DEF Open
    <2>3. PICK r \in CallRecord : r = call[t]
      BY DEF RegistryInvariant, Typed
    <2>4. PICK q : q = [r EXCEPT !.at = "writable", !.made = mInstance]
      OBVIOUS
    <2>5. mInstance \in Instance /\ mInstance \in UsedInstances
      BY <1>2, HeldFacts
    <2>6. /\ q \in CallRecord /\ q.at = "writable" /\ q.name = r.name /\ q.again = r.again
          /\ q.self = r.self /\ q.made = mInstance /\ q.helper = r.helper
      BY <2>4, <2>5 DEF CallRecord, Registry
    <2>7. call' = [call EXCEPT ![t] = q]
      BY <2>2, <2>3, <2>4
    <2>8. /\ call' \in [Thread -> CallRecord] /\ call'[t] = q
          /\ \A u \in Thread \ {t} : call'[u] = call[u]
      BY <2>6, <2>7, CallBecomes DEF RegistryInvariant
    <2>9. /\ r.name \in Name
          /\ r.at = "return" \/ r.again => r.self \in Instance
          /\ r.helper # None => HelperOk(r.helper)
      BY <2>2, <2>3 DEF RegistryInvariant, ThreadOk
    <2>10. /\ \A k \in UsedHelpers : k \in Helper => helpers'[k] = helpers[k] /\ HelperKept(k)
           /\ helpers'[h].name \in Name /\ ~helpers'[h].open
      BY <2>1, <2>3, <2>9 DEF HelperKept, NoHelper
    <2>11. \A n \in Name : FileOk(n, disk'[n]) /\ FileKept(n)
      BY <2>2 DEF RegistryInvariant, FileKept, files
    <2>12. ThreadOk(t)'
      <3>1. r.helper # None => HelperOk(r.helper)'
        <4>1. r.helper \in UsedHelpers
          BY <2>3, UsedFacts
        <4> QED
          BY <2>9, <2>10, <2>11, <4>1, HelperStaysOk DEF HelperOk
      <3> QED
        BY <2>5, <2>6, <2>8, <2>9, <3>1 DEF ThreadOk, InHelper, InTransaction, Upgrade
    <2>13. InstanceOk(mInstance)'
      <3>1. /\ fields'[mInstance].helper = h /\ fields'[mInstance].db = fields[mInstance].db
            /\ h \in Helper
        BY <2>1, <2>5 DEF RegistryInvariant, Typed
      <3>2. HelperOk(h)'
        BY <2>10, <3>1 DEF HelperOk
      <3>3. PICK d : d = fields[mInstance].db
        OBVIOUS
      <3>4. d # None => Serves(d)'
        <4>1. d \in UsedHelpers
          BY <2>5, <3>3, UsedFacts
        <4>2. d # None => Serves(d)
          BY <2>5, <3>3, HeldFacts DEF InstanceOk
        <4> QED
          BY <2>10, <2>11, <4>1, <4>2, HelperStaysOk DEF Serves, HelperOk
      <3>5. /\ fields'[mInstance'].helper = h /\ fields'[mInstance'].db = d
        BY <2>2, <3>1, <3>3
      <3> QED
        BY <2>2, <3>1, <3>2, <3>3, <3>4 DEF InstanceOk
    <2>14. UsedInstances' \subseteq UsedInstances
      <3>1. {mInstance', moduleDB', call'[t].self, call'[t].made} \subseteq UsedInstances \cup {None} \cup {}
        BY <2>2, <2>3, <2>5, <2>6, <2>8, HeldFacts
      <3> QED
        BY <2>8, <3>1, UsedStays
    <2>15. \A i \in UsedInstances' :
             InstanceOk(i)' \/ (i \in UsedInstances /\ fields'[i] = fields[i])
      <3> SUFFICES ASSUME NEW i, i \in UsedInstances', i # mInstance PROVE fields'[i] = fields[i]
        BY <2>2, <2>13, <2>14
      <3> QED
        BY <2>1, <2>14, HeldFacts DEF RegistryInvariant, Typed
    <2>16. Typed'
      <3>1. helpers' \in [Helper -> [name : Name \cup {None}, open : BOOLEAN]]
        BY <2>1, <2>3, <2>9 DEF RegistryInvariant, Typed, NoHelper
      <3>2. fields' \in [Instance -> [db : Helper \cup {None}, currentDb : Name \cup {None},
                                      helper : Helper \cup {None}]]
        BY <2>1, <2>5 DEF RegistryInvariant, Typed
      <3> QED
        BY <2>2, <2>8, <3>1, <3>2 DEF RegistryInvariant, Typed, files
    <2>17. \A u \in Thread : \A n \in Name : TransactionKept(u, n)
      BY <2>2 DEF TransactionKept, files
    <2> QED
      BY <2>2, <2>8, <2>10, <2>11, <2>12, <2>15, <2>16, <2>17, StepKeeps
  <1> QED
    BY <1>1, <1>2

\* Setting a field of an instance that is referred to.
LEMMA FieldStepKeeps ==
  ASSUME RegistryInvariant, NEW t \in Thread, UNCHANGED <<mInstance, moduleDB, dbName>>,
         UNCHANGED <<helpers, files>>, call' \in [Thread -> CallRecord], ThreadOk(t)',
         \A u \in Thread \ {t} : call'[u] = call[u],
         {call'[t].self, call'[t].made} \subseteq UsedInstances \cup {None},
         NEW i \in UsedInstances, fields' \in [Instance -> [db : Helper \cup {None},
           currentDb : Name \cup {None}, helper : Helper \cup {None}]],
         \A j \in Instance : j # i => fields'[j] = fields[j],
         InstanceOk(i)'
  PROVE  RegistryInvariant'
  <1>1. UsedInstances' \subseteq UsedInstances
    <2>1. {mInstance', moduleDB', call'[t].self, call'[t].made} \subseteq UsedInstances \cup {None} \cup {}
      BY HeldFacts
    <2> QED
      BY <2>1, UsedStays
  <1>2. Typed'
    BY DEF RegistryInvariant, Typed, files
  <1>3. \A j \in UsedInstances' :
          InstanceOk(j)' \/ (j \in UsedInstances /\ fields'[j] = fields[j])
    <2> SUFFICES ASSUME NEW j, j \in UsedInstances', j # i PROVE fields'[j] = fields[j]
      BY <1>1
    <2> QED
      BY <1>1, HeldFacts
  <1> QED
    BY <1>2, <1>3, RegistryStepKeeps

\* The database assigned to an instance is that of a helper that serves.
LEMMA AssignDbKeeps ==
  ASSUME RegistryInvariant, NEW t \in Thread, AssignDb(t)
  PROVE  RegistryInvariant'
  <1>1. PICK r \in CallRecord : r = call[t]
    BY DEF RegistryInvariant, Typed
  <1>2. /\ r.at = "assign" /\ UNCHANGED <<mInstance, moduleDB, dbName>> /\ UNCHANGED <<helpers, files>>
        /\ fields' = [fields EXCEPT ![r.made].db = r.helper]
        /\ call' = [call EXCEPT ![t] = [Idle EXCEPT !.at = "current",
             !.name = r.name, !.again = r.again, !.self = r.self]]
    BY <1>1 DEF AssignDb
  <1>3. /\ r.name \in Name /\ r.made \in Instance /\ (r.again => r.self \in Instance)
        /\ r.helper # None /\ Serves(r.helper) /\ r.helper \in Helper
    BY <1>1, <1>2 DEF RegistryInvariant, ThreadOk, Serves, HelperOk
  <1>4. r.made \in UsedInstances /\ r.self \in UsedInstances \cup {None}
    BY <1>1, <1>3, HeldFacts, RegistryAssumption
  <1>5. PICK q : q = [Idle EXCEPT !.at = "current", !.name = r.name, !.again = r.again, !.self = r.self]
    OBVIOUS
  <1>6. /\ q \in CallRecord /\ q.at = "current" /\ q.name = r.name /\ q.again = r.again
        /\ q.self = r.self /\ q.made = None /\ q.helper = None
    BY <1>5, IdleFacts DEF CallRecord, Registry
  <1>7. /\ call' \in [Thread -> CallRecord] /\ call'[t] = q
        /\ \A u \in Thread \ {t} : call'[u] = call[u]
    BY <1>2, <1>5, <1>6, CallBecomes DEF RegistryInvariant
  <1>8. ThreadOk(t)'
    <2>1. /\ q.at \notin {"idle", "has", "writable", "assign", "return", "copy", "rebuild"}
          /\ q.at \notin InHelper /\ q.at \notin InTransaction
      BY <1>6 DEF InHelper, InTransaction, Upgrade
    <2> QED
      BY <1>3, <1>6, <1>7, <2>1 DEF ThreadOk
  <1>9. fields' \in [Instance -> [db : Helper \cup {None}, currentDb : Name \cup {None},
                                  helper : Helper \cup {None}]]
    BY <1>2, <1>3 DEF RegistryInvariant, Typed
  <1>10. /\ fields'[r.made].db = r.helper /\ fields'[r.made].helper = fields[r.made].helper
         /\ \A j \in Instance : j # r.made => fields'[j] = fields[j]
    BY <1>2, <1>3 DEF RegistryInvariant, Typed
  <1>11. \A h \in Helper : (HelperOk(h) => HelperOk(h)') /\ (Serves(h) => Serves(h)')
    BY <1>2 DEF HelperOk, Serves, files
  <1>12. InstanceOk(r.made)'
    BY <1>3, <1>4, <1>10, <1>11, HeldFacts DEF InstanceOk, HelperOk
  <1>13. PICK i \in UsedInstances : i = r.made
    BY <1>4
  <1>14. /\ {call'[t].self, call'[t].made} \subseteq UsedInstances \cup {None}
         /\ \A j \in Instance : j # i => fields'[j] = fields[j]
         /\ InstanceOk(i)'
    BY <1>4, <1>6, <1>7, <1>10, <1>12, <1>13 DEF InstanceOk
  <1> QED
    BY <1>2, <1>7, <1>8, <1>9, <1>14, FieldStepKeeps

\* The name of the current database is not relied on.
LEMMA AssignCurrentDbKeeps ==
  ASSUME RegistryInvariant, NEW t \in Thread, AssignCurrentDb(t)
  PROVE  RegistryInvariant'
  <1>1. CASE mInstance = None
    BY <1>1, ThrowingStepKeeps DEF AssignCurrentDb
  <1>2. CASE mInstance # None
    <2>1. PICK i : i = mInstance
      OBVIOUS
    <2>2. PICK name : name = call[t].name
      OBVIOUS
    <2>3. /\ call[t].at = "current" /\ UNCHANGED <<mInstance, moduleDB, dbName>>
          /\ UNCHANGED <<helpers, files>> /\ Goes(t, "made")
          /\ fields' = [fields EXCEPT ![i].currentDb = name]
      BY <1>2, <2>1, <2>2 DEF AssignCurrentDb
    <2>4. i \in UsedInstances /\ i \in Instance /\ name \in Name
      BY <1>2, <2>1, <2>2, <2>3, HeldFacts DEF RegistryInvariant, ThreadOk
    <2>5. /\ call' \in [Thread -> CallRecord] /\ ThreadOk(t)'
          /\ \A u \in Thread \ {t} : call'[u] = call[u]
          /\ call'[t].self = call[t].self /\ call'[t].made = call[t].made
      <3>1. "made" \in Plain
        BY DEF Plain
      <3> QED
        BY <2>3, <3>1, Undisturbed, GoesOk
    <2>6. fields' \in [Instance -> [db : Helper \cup {None}, currentDb : Name \cup {None},
                                    helper : Helper \cup {None}]]
      BY <2>3, <2>4 DEF RegistryInvariant, Typed
    <2>7. /\ fields'[i].db = fields[i].db /\ fields'[i].helper = fields[i].helper
          /\ \A j \in Instance : j # i => fields'[j] = fields[j]
      BY <2>3, <2>4 DEF RegistryInvariant, Typed
    <2>8. \A h : (HelperOk(h) => HelperOk(h)') /\ (Serves(h) => Serves(h)')
      BY <2>3 DEF HelperOk, Serves, files
    <2>9. InstanceOk(i)'
      BY <2>4, <2>7, <2>8, HeldFacts DEF InstanceOk
    <2> QED
      BY <2>3, <2>4, <2>5, <2>6, <2>7, <2>9, HeldFacts, FieldStepKeeps
  <1> QED
    BY <1>1, <1>2

\* What a DAO is handed is the field of an instance, which serves, or null.
LEMMA GetKeeps ==
  ASSUME RegistryInvariant, NEW t \in Thread, Get(t)
  PROVE  RegistryInvariant'
  <1>1. CASE moduleDB = None
    BY <1>1, ThrowingStepKeeps DEF Get, registry
  <1>2. CASE moduleDB # None
    <2>1. PICK r \in CallRecord : r = call[t]
      BY DEF RegistryInvariant, Typed
    <2>2. \E again \in BOOLEAN : again <=> ~IsOpen(fields[moduleDB].db)
      OBVIOUS
    <2>3. PICK again \in BOOLEAN : again <=> ~IsOpen(fields[moduleDB].db)
      BY <2>2
    <2>4. PICK q : q = [r EXCEPT !.at = IF again THEN "create" ELSE "return",
                                 !.again = again, !.self = moduleDB]
      OBVIOUS
    <2>5. /\ r.at = "get" /\ UNCHANGED <<mInstance, moduleDB, fields, dbName>> /\ UNCHANGED <<helpers, files>>
          /\ call' = [call EXCEPT ![t] = q]
      <3>1. again = ~IsOpen(fields[moduleDB].db)
        BY <2>3
      <3>2. \/ again = TRUE /\ IsOpen(fields[moduleDB].db) = FALSE
            \/ again = FALSE /\ IsOpen(fields[moduleDB].db) = TRUE
        BY <2>3 DEF IsOpen
      <3> QED
        BY <1>2, <2>1, <2>4, <3>2 DEF Get, registry
    <2>6. moduleDB \in Instance /\ moduleDB \in UsedInstances
      BY <1>2, HeldFacts
    <2>7. /\ q \in CallRecord /\ q.at \in {"create", "return"} /\ q.name = r.name
          /\ q.self = moduleDB /\ q.made = r.made /\ q.helper = r.helper
      <3>1. PICK at : at = IF again THEN "create" ELSE "return"
        OBVIOUS
      <3>2. at \in {"create", "return"} /\ {"create", "return"} \subseteq Registry
        BY <3>1 DEF Registry
      <3>3. q = [r EXCEPT !.at = at, !.again = again, !.self = moduleDB]
        BY <2>4, <3>1
      <3> QED
        BY <2>3, <2>6, <3>2, <3>3 DEF CallRecord
    <2>8. /\ call' \in [Thread -> CallRecord] /\ call'[t] = q
          /\ \A u \in Thread \ {t} : call'[u] = call[u]
      BY <2>5, <2>7, CallBecomes DEF RegistryInvariant
    <2>9. r.name \in Name /\ (r.helper # None => HelperOk(r.helper))
      BY <2>1, <2>5 DEF RegistryInvariant, ThreadOk
    <2>10. ThreadOk(t)'
      <3>1. r.helper # None => HelperOk(r.helper)'
        BY <2>5, <2>9 DEF HelperOk, files
      <3> QED
        BY <2>6, <2>7, <2>8, <2>9, <3>1 DEF ThreadOk, InHelper, InTransaction, Upgrade
    <2>11. UsedInstances' \subseteq UsedInstances
      <3>1. {mInstance', moduleDB', call'[t].self, call'[t].made} \subseteq UsedInstances \cup {None} \cup {}
        BY <2>1, <2>5, <2>6, <2>7, <2>8, HeldFacts
      <3> QED
        BY <2>8, <3>1, UsedStays
    <2>12. Typed'
      BY <2>5, <2>8 DEF RegistryInvariant, Typed, files
    <2> QED
      BY <2>5, <2>8, <2>10, <2>11, <2>12, RegistryStepKeeps
  <1> QED
    BY <1>1, <1>2

\* A database that is handed out serves: its file has been created or upgraded.
LEMMA ReturnKeeps ==
  ASSUME RegistryInvariant, NEW t \in Thread, Return(t)
  PROVE  RegistryInvariant'
  <1>1. PICK d : d = fields[call[t].self].db
    OBVIOUS
  <1>2. CASE d = None
    BY <1>1, <1>2, ThrowingStepKeeps DEF Return, registry
  <1>3. CASE d # None
    <2>1. PICK q : q = [Idle EXCEPT !.at = "has", !.helper = d]
      OBVIOUS
    <2>2. /\ call[t].at = "return" /\ UNCHANGED <<mInstance, moduleDB, fields, dbName>>
          /\ UNCHANGED <<helpers, files>> /\ call' = [call EXCEPT ![t] = q]
      BY <1>1, <1>3, <2>1 DEF Return, registry
    <2>3. Serves(d) /\ d \in Helper
      <3>1. call[t].self \in Instance
        BY <2>2 DEF RegistryInvariant, ThreadOk
      <3>2. InstanceOk(call[t].self)
        BY <3>1, HeldFacts, RegistryAssumption
      <3> QED
        BY <1>1, <1>3, <3>2 DEF InstanceOk, Serves, HelperOk
    <2>4. /\ q \in CallRecord /\ q.at = "has" /\ ~q.again
          /\ q.self = None /\ q.made = None /\ q.helper = d
      BY <2>1, <2>3, IdleFacts DEF CallRecord, Registry
    <2>5. /\ call' \in [Thread -> CallRecord] /\ call'[t] = q
          /\ \A u \in Thread \ {t} : call'[u] = call[u]
      BY <2>2, <2>4, CallBecomes DEF RegistryInvariant
    <2>6. ThreadOk(t)'
      <3>1. Serves(d)' /\ HelperOk(d)'
        BY <2>2, <2>3 DEF Serves, HelperOk, files
      <3> QED
        BY <1>3, <2>4, <2>5, <3>1 DEF ThreadOk, InHelper, InTransaction, Upgrade
    <2>7. UsedInstances' \subseteq UsedInstances
      <3>1. {mInstance', moduleDB', call'[t].self, call'[t].made} \subseteq UsedInstances \cup {None} \cup {}
        BY <2>2, <2>4, <2>5, HeldFacts
      <3> QED
        BY <2>5, <3>1, UsedStays
    <2>8. Typed'
      BY <2>2, <2>5 DEF RegistryInvariant, Typed, files
    <2> QED
      BY <2>2, <2>5, <2>6, <2>7, <2>8, RegistryStepKeeps
  <1> QED
    BY <1>2, <1>3

\* Closing a helper's database.
LEMMA ClosedFacts ==
  ASSUME Typed, NEW h \in Helper \cup {None}, helpers' = Closed(h)
  PROVE  /\ helpers' \in [Helper -> [name : Name \cup {None}, open : BOOLEAN]]
         /\ \A k \in Helper : HelperKept(k)
  BY DEF Typed, Closed, HelperKept

\* Closing a database closes its helper's, and its file stays ready.
LEMMA CloseDbKeeps ==
  ASSUME RegistryInvariant, NEW t \in Thread, CloseDb(t)
  PROVE  RegistryInvariant'
  <1>1. PICK h \in Helper \cup {None} : helpers' = Closed(h)
    <2>1. CASE mInstance = None
      BY <2>1 DEF CloseDb, Closed
    <2>2. CASE mInstance # None
      BY <2>2, HeldFacts, TypedFacts DEF CloseDb, RegistryInvariant
    <2> QED
      BY <2>1, <2>2
  <1>2. PICK place : place = IF mInstance = None THEN "new" ELSE "closeHelper"
    OBVIOUS
  <1>3. /\ call[t].at = "close" /\ Goes(t, place) /\ place \in Plain
        /\ UNCHANGED <<mInstance, moduleDB, fields, dbName>> /\ UNCHANGED files
    BY <1>2 DEF CloseDb, registry, Plain
  <1>4. /\ helpers' \in [Helper -> [name : Name \cup {None}, open : BOOLEAN]]
        /\ \A k \in Helper : HelperKept(k)
    BY <1>1, ClosedFacts DEF RegistryInvariant
  <1>5. /\ \A n \in Name : FileOk(n, disk'[n]) /\ FileKept(n)
        /\ \A u \in Thread : \A n \in Name : TransactionKept(u, n)
    BY <1>3 DEF RegistryInvariant, FileKept, TransactionKept, files
  <1>6. /\ call' \in [Thread -> CallRecord] /\ ThreadOk(t)'
        /\ \A u \in Thread \ {t} : call'[u] = call[u]
        /\ call'[t].self = call[t].self /\ call'[t].made = call[t].made
    BY <1>3, <1>4, <1>5, GoesOk
  <1>7. UsedInstances' \subseteq UsedInstances
    <2>1. {mInstance', moduleDB', call'[t].self, call'[t].made} \subseteq UsedInstances \cup {None} \cup {}
      BY <1>3, <1>6, HeldFacts
    <2> QED
      BY <1>6, <2>1, UsedStays
  <1>8. Typed'
    BY <1>3, <1>4, <1>6 DEF RegistryInvariant, Typed, files
  <1> QED
    BY <1>3, <1>4, <1>5, <1>6, <1>7, <1>8, StepKeeps

\* So does closing a helper.
LEMMA CloseHelperKeeps ==
  ASSUME RegistryInvariant, NEW t \in Thread, CloseHelper(t)
  PROVE  RegistryInvariant'
  <1>1. CASE mInstance = None
    BY <1>1, ThrowingStepKeeps DEF CloseHelper
  <1>2. CASE mInstance # None
    <2>1. PICK i : i = mInstance
      OBVIOUS
    <2>2. i \in UsedInstances /\ i \in Instance
      BY <1>2, <2>1, HeldFacts
    <2>3. /\ call[t].at = "closeHelper" /\ Goes(t, "forget") /\ "forget" \in Plain
          /\ UNCHANGED <<mInstance, moduleDB, dbName>> /\ UNCHANGED files
          /\ fields' = [fields EXCEPT ![i].helper = None]
          /\ helpers' = Closed(fields[i].helper)
      BY <1>2, <2>1 DEF CloseHelper, Plain
    <2>4. /\ helpers' \in [Helper -> [name : Name \cup {None}, open : BOOLEAN]]
          /\ \A k \in Helper : HelperKept(k)
      <3>1. fields[i].helper \in Helper \cup {None}
        BY <2>2, TypedFacts DEF RegistryInvariant
      <3> QED
        BY <2>3, <3>1, ClosedFacts DEF RegistryInvariant
    <2>5. /\ \A n \in Name : FileOk(n, disk'[n]) /\ FileKept(n)
          /\ \A u \in Thread : \A n \in Name : TransactionKept(u, n)
      BY <2>3 DEF RegistryInvariant, FileKept, TransactionKept, files
    <2>6. /\ call' \in [Thread -> CallRecord] /\ ThreadOk(t)'
          /\ \A u \in Thread \ {t} : call'[u] = call[u]
          /\ call'[t].self = call[t].self /\ call'[t].made = call[t].made
      BY <2>3, <2>4, <2>5, GoesOk
    <2>7. UsedInstances' \subseteq UsedInstances
      <3>1. {mInstance', moduleDB', call'[t].self, call'[t].made} \subseteq UsedInstances \cup {None} \cup {}
        BY <2>3, <2>6, HeldFacts
      <3> QED
        BY <2>6, <3>1, UsedStays
    <2>8. /\ fields' \in [Instance -> [db : Helper \cup {None}, currentDb : Name \cup {None},
                                       helper : Helper \cup {None}]]
          /\ fields'[i].db = fields[i].db /\ fields'[i].helper = None
          /\ \A j \in Instance : j # i => fields'[j] = fields[j]
      BY <2>2, <2>3 DEF RegistryInvariant, Typed
    <2>9. Typed'
      BY <2>3, <2>4, <2>6, <2>8 DEF RegistryInvariant, Typed, files
    <2>10. InstanceOk(i)'
      <3>1. PICK d : d = fields[i].db
        OBVIOUS
      <3>2. d # None => Serves(d)
        BY <2>2, <3>1, HeldFacts DEF InstanceOk
      <3>3. d # None => Serves(d)'
        BY <2>4, <2>5, <3>2, HelperStaysOk DEF Serves, HelperOk
      <3> QED
        BY <2>8, <3>1, <3>3 DEF InstanceOk
    <2>11. \A j \in UsedInstances' :
             InstanceOk(j)' \/ (j \in UsedInstances /\ fields'[j] = fields[j])
      <3> SUFFICES ASSUME NEW j, j \in UsedInstances', j # i PROVE fields'[j] = fields[j]
        BY <2>7, <2>10
      <3> QED
        BY <2>7, <2>8, HeldFacts
    <2> QED
      BY <2>3, <2>4, <2>5, <2>6, <2>9, <2>11, StepKeeps
  <1> QED
    BY <1>1, <1>2

\* A row that is inserted outside any transaction is where it belongs.
Inserted(c, table, row) ==
  [c EXCEPT !.rows[table] = @ \cup {row}, !.written[table] = @ \cup {row}]

\* An insert into a table of a file is one more row that is kept.
LEMMA InsertedOk ==
  ASSUME NEW n, NEW c, FileOk(n, c), NEW table \in TablesOf(c), NEW row \in Row, NEW d,
         d = Inserted(c, table, row)
  PROVE  FileOk(n, d) /\ d.first = c.first /\ (Ready(c) => Ready(d))
  <1>1. c \in Contents /\ DOMAIN c.rows = TablesOf(c) /\ AllKept(n, c)
    BY DEF FileOk, WellFormed
  <1>2. PICK rows : rows = [c.rows EXCEPT ![table] = @ \cup {row}]
    OBVIOUS
  <1>3. PICK written : written = [c.written EXCEPT ![table] = @ \cup {row}]
    OBVIOUS
  <1>4. d = [c EXCEPT !.rows = rows, !.written = written]
    BY <1>2, <1>3 DEF Inserted
  <1>5. /\ c.rows \in RowMaps /\ c.written \in [Table -> SUBSET Row] /\ c.schema \in Schemas
        /\ TablesOf(c) \in SUBSET Table
    BY <1>1, ContentsFields, MapFacts DEF TablesOf
  <1>6. /\ rows \in RowMaps /\ DOMAIN rows = TablesOf(c)
        /\ \A t \in TablesOf(c) : rows[t] = IF t = table THEN c.rows[t] \cup {row} ELSE c.rows[t]
    <2>1. c.rows \in [TablesOf(c) -> SUBSET Row]
      <3>1. PICK T \in SUBSET Table : c.rows \in [T -> SUBSET Row]
        BY <1>5 DEF RowMaps
      <3> QED
        BY <1>1, <3>1
    <2>2. rows \in [TablesOf(c) -> SUBSET Row]
      BY <1>2, <2>1
    <2> QED
      BY <1>2, <1>5, <2>1, <2>2, MapFacts
  <1>7. /\ written \in [Table -> SUBSET Row]
        /\ \A t \in Table : written[t] = IF t = table THEN c.written[t] \cup {row} ELSE c.written[t]
    BY <1>3, <1>5
  <1>8. /\ d \in Contents /\ d.version = c.version /\ d.first = c.first /\ d.written = written
        /\ d.schema = c.schema /\ d.rows = rows /\ d.temps = c.temps /\ d.hurt = c.hurt
        /\ d.astray = c.astray
    BY <1>1, <1>4, <1>6, <1>7, ContentsFields
  <1>9. TablesOf(d) = TablesOf(c) /\ \A t \in Table : MayLose(n, d, t) <=> MayLose(n, c, t)
    BY <1>8 DEF TablesOf, MayLose
  <1>10. WellFormed(d) /\ AllKept(n, d)
    BY <1>1, <1>5, <1>6, <1>7, <1>8, <1>9 DEF WellFormed, AllKept, KeptIn
  <1>11. \A T : TempsWithin(c, T) <=> TempsWithin(d, T)
    BY <1>8 DEF TempsWithin
  <1>12. HasSchema(n, c) => HasSchema(n, d)
    BY <1>8, <1>9, <1>11 DEF HasSchema, Leftovers, Sound, HasOwnForm
  <1>13. /\ d.version = c.version /\ d.first = c.first /\ TablesOf(d) = TablesOf(c)
    BY <1>8, <1>9
  <1>14. FileOk(n, d)
    BY <1>8, <1>10, <1>11, <1>12, <1>13 DEF FileOk, Leftovers
  <1>15. Ready(c) => Ready(d)
    BY <1>13, Zenon DEF Ready
  <1> QED
    BY <1>13, <1>14, <1>15

\* A DAO inserts into a file whose tables it finds.
LEMMA InsertKeeps ==
  ASSUME RegistryInvariant, NEW t \in Thread, NEW table \in Table, NEW row \in Row,
         Insert(t, table, row)
  PROVE  RegistryInvariant'
  <1>1. PICK n : n = helpers[call[t].helper].name
    OBVIOUS
  <1>2. PICK c : c = disk[n]
    OBVIOUS
  <1>3. PICK d : d = Inserted(c, table, row)
    OBVIOUS
  <1>4. /\ call[t].at = "has" /\ writing[n] = None /\ table \in TablesOf(c) /\ Throws(t)
        /\ UNCHANGED <<mInstance, moduleDB, fields, dbName>> /\ UNCHANGED <<helpers, writing, work>>
        /\ disk' = [disk EXCEPT ![n] = d]
    <2>1. disk' = [disk EXCEPT ![n].rows[table] = @ \cup {row}, ![n].written[table] = @ \cup {row}]
      BY <1>1 DEF Insert
    <2>2. disk' = [disk EXCEPT ![n] = d]
      BY <1>2, <1>3, <2>1 DEF Inserted
    <2> QED
      BY <1>1, <1>2, <2>2 DEF Insert, registry
  <1>5. n \in Name
    BY <1>1, <1>4 DEF RegistryInvariant, ThreadOk, Serves, HelperOk
  <1>6. FileOk(n, d) /\ d.first = c.first /\ (Ready(c) => Ready(d))
    <2>1. FileOk(n, c)
      BY <1>2, <1>5 DEF RegistryInvariant
    <2> QED
      BY <1>3, <1>4, <2>1, InsertedOk
  <1>7. disk' \in [Name -> Contents] /\ \A m \in Name : disk'[m] = IF m = n THEN d ELSE disk[m]
    BY <1>4, <1>5, <1>6 DEF RegistryInvariant, Typed, FileOk, WellFormed
  <1>8. \A m \in Name : FileOk(m, disk'[m]) /\ FileKept(m)
    BY <1>2, <1>6, <1>7 DEF RegistryInvariant, FileKept
  <1>9. /\ \A u \in Thread : \A m \in Name : TransactionKept(u, m)
        /\ \A h \in UsedHelpers : h \in Helper => HelperKept(h)
    BY <1>4 DEF TransactionKept, HelperKept
  <1>10. /\ call' \in [Thread -> CallRecord] /\ ThreadOk(t)'
         /\ \A u \in Thread \ {t} : call'[u] = call[u]
         /\ call'[t].self = None /\ call'[t].made = None
    BY <1>4, ThrowsOk DEF RegistryInvariant
  <1>11. UsedInstances' \subseteq UsedInstances
    <2>1. {mInstance', moduleDB', call'[t].self, call'[t].made} \subseteq UsedInstances \cup {None} \cup {}
      BY <1>4, <1>10, HeldFacts
    <2> QED
      BY <1>10, <2>1, UsedStays
  <1>12. Typed'
    BY <1>4, <1>7, <1>10 DEF RegistryInvariant, Typed
  <1> QED
    BY <1>4, <1>8, <1>9, <1>10, <1>11, <1>12, StepKeeps

-----------------------------------------------------------------------------
(* The steps of a helper that opens its database.                          *)

\* The call r goes on as q, within the helper or out of it.
GoesOn(r, q) ==
  /\ q \in CallRecord /\ q.name = r.name /\ q.again = r.again /\ q.self = r.self
  /\ q.made = r.made /\ q.helper = r.helper /\ q.version = r.version

\* What the helper that thread t is in knows.
LEMMA InHelperFacts ==
  ASSUME RegistryInvariant, NEW t \in Thread, call[t].at \in InHelper
  PROVE  /\ call[t] \in CallRecord /\ FileOf(t) \in Name /\ call[t].helper \in Helper
         /\ HelperOk(call[t].helper) /\ FileOf(t) = helpers[call[t].helper].name
         /\ call[t].version \in 0 .. New - 1 /\ call[t].version = disk[FileOf(t)].first
         /\ FileOk(FileOf(t), disk[FileOf(t)])
         /\ call[t].at \in InTransaction => writing[FileOf(t)] = t /\ Stage(FileOf(t), call[t], work[FileOf(t)])
         /\ call[t].at \in {"copy", "rebuild"} => dbName \in Name
  <1>1. call[t] \in CallRecord
    BY DEF RegistryInvariant, Typed
  <1>2. /\ call[t].helper # None /\ HelperOk(call[t].helper) /\ call[t].version # New
        /\ call[t].version = disk[FileOf(t)].first
        /\ call[t].at \in InTransaction => writing[FileOf(t)] = t /\ Stage(FileOf(t), call[t], work[FileOf(t)])
        /\ call[t].at \in {"copy", "rebuild"} => dbName # None
    BY DEF RegistryInvariant, ThreadOk
  <1>3. call[t].version \in 0 .. New - 1
    BY <1>1, <1>2, MigrationAssumption DEF CallRecord
  <1>4. FileOf(t) = helpers[call[t].helper].name /\ FileOf(t) \in Name /\ call[t].helper \in Helper
    BY <1>2 DEF FileOf, HelperOk
  <1> QED
    BY <1>1, <1>2, <1>3, <1>4 DEF RegistryInvariant, Typed

\* A step within a transaction: the content it sees becomes c, and the call q.
LEMMA SeesKeeps ==
  ASSUME RegistryInvariant, NEW t \in Thread, call[t].at \in InTransaction,
         NEW c, NEW q, Sees(t, c, q), GoesOn(call[t], q), q.at \in InTransaction, Stage(FileOf(t), q, c),
         q.at \in {"copy", "rebuild"} => dbName # None
  PROVE  RegistryInvariant'
  <1>1. PICK r : r = call[t]
    OBVIOUS
  <1>2. PICK n : n = FileOf(t)
    OBVIOUS
  <1>3. call[t].at \in InHelper /\ q.at \in InHelper
    BY DEF InTransaction, InHelper
  <1>4. /\ r \in CallRecord /\ n \in Name /\ r.helper \in Helper /\ HelperOk(r.helper)
        /\ n = helpers[r.helper].name /\ r.version \in 0 .. New - 1 /\ r.version = disk[n].first
        /\ writing[n] = t
    BY <1>1, <1>2, <1>3, InHelperFacts
  <1>5. /\ work' = [work EXCEPT ![n] = c] /\ call' = [call EXCEPT ![t] = q]
        /\ UNCHANGED <<mInstance, moduleDB, fields, dbName>> /\ UNCHANGED <<helpers, disk, writing>>
    BY <1>2 DEF Sees, registry
  <1>6. /\ call' \in [Thread -> CallRecord] /\ call'[t] = q
        /\ \A u \in Thread \ {t} : call'[u] = call[u]
    BY <1>5, CallBecomes DEF RegistryInvariant, GoesOn
  <1>7. /\ work' \in [Name -> Contents] /\ work'[n] = c
        /\ \A m \in Name : m # n => work'[m] = work[m]
    BY <1>4, <1>5 DEF RegistryInvariant, Typed, Stage, WellFormed
  <1>8. /\ \A m \in Name : FileOk(m, disk'[m]) /\ FileKept(m)
        /\ \A h \in UsedHelpers : h \in Helper => HelperKept(h)
        /\ \A u \in Thread \ {t} : \A m \in Name : TransactionKept(u, m)
    BY <1>4, <1>5, <1>7 DEF RegistryInvariant, FileKept, HelperKept, TransactionKept
  <1>9. ThreadOk(t)'
    <2>1. /\ r.name \in Name /\ r.made \in Instance /\ (r.again => r.self \in Instance)
      BY <1>1, <1>3 DEF RegistryInvariant, ThreadOk, InHelper, Upgrade
    <2>2. HelperOk(r.helper)'
      BY <1>4, <1>5 DEF HelperOk
    <2>3. /\ q.name \in Name /\ q.made \in Instance /\ (q.again => q.self \in Instance)
          /\ q.helper = r.helper /\ q.version = r.version
      BY <1>1, <2>1 DEF GoesOn
    <2>4. FileOf(t)' = n
      BY <1>4, <1>5, <1>6, <2>3 DEF FileOf
    <2>5. q.at \notin {"idle", "has", "assign", "return"} /\ r.helper # None /\ q.version # New
      BY <1>4, <2>3, RegistryAssumption, MigrationAssumption DEF InTransaction, Upgrade
    <2>6. Stage(n, q, c) /\ (q.at \in {"copy", "rebuild"} => dbName' # None)
      BY <1>2, <1>5
    <2>7. /\ writing'[n] = t /\ work'[n] = c /\ disk'[n].first = disk[n].first /\ call'[t] = q
      BY <1>4, <1>5, <1>6, <1>7
    <2> QED
      BY <1>3, <1>4, <2>2, <2>3, <2>4, <2>5, <2>6, <2>7 DEF ThreadOk
  <1>10. UsedInstances' \subseteq UsedInstances
    <2>1. {mInstance', moduleDB', call'[t].self, call'[t].made} \subseteq UsedInstances \cup {None} \cup {}
      BY <1>1, <1>5, <1>6, HeldFacts DEF GoesOn
    <2> QED
      BY <1>6, <2>1, UsedStays
  <1>11. Typed'
    BY <1>5, <1>6, <1>7 DEF RegistryInvariant, Typed
  <1> QED
    BY <1>5, <1>6, <1>8, <1>9, <1>10, <1>11, StepKeeps

\* An exception that nothing catches: the transaction is undone.
LEMMA AbortsKeeps ==
  ASSUME RegistryInvariant, NEW t \in Thread, call[t].at \in InTransaction, NEW kind, Aborts(kind, t)
  PROVE  RegistryInvariant'
  <1>1. PICK n : n = FileOf(t)
    OBVIOUS
  <1>2. call[t].at \in InHelper
    BY DEF InTransaction, InHelper
  <1>3. n \in Name /\ writing[n] = t
    BY <1>1, <1>2, InHelperFacts
  <1>4. /\ writing' = [writing EXCEPT ![n] = None] /\ work' = [work EXCEPT ![n] = disk[n]]
        /\ Throws(t) /\ UNCHANGED <<mInstance, moduleDB, fields, dbName>> /\ UNCHANGED <<helpers, disk>>
    BY <1>1 DEF Aborts, RollsBack, registry
  <1>5. /\ call' \in [Thread -> CallRecord] /\ ThreadOk(t)'
        /\ \A u \in Thread \ {t} : call'[u] = call[u]
        /\ call'[t].self = None /\ call'[t].made = None
    BY <1>4, ThrowsOk DEF RegistryInvariant
  <1>6. /\ \A m \in Name : FileOk(m, disk'[m]) /\ FileKept(m)
        /\ \A h \in UsedHelpers : h \in Helper => HelperKept(h)
    BY <1>4 DEF RegistryInvariant, FileKept, HelperKept
  <1>7. \A u \in Thread \ {t} : \A m \in Name : TransactionKept(u, m)
    BY <1>3, <1>4 DEF RegistryInvariant, Typed, TransactionKept
  <1>8. UsedInstances' \subseteq UsedInstances
    <2>1. {mInstance', moduleDB', call'[t].self, call'[t].made} \subseteq UsedInstances \cup {None} \cup {}
      BY <1>4, <1>5, HeldFacts
    <2> QED
      BY <1>5, <2>1, UsedStays
  <1>9. Typed'
    BY <1>3, <1>4, <1>5 DEF RegistryInvariant, Typed
  <1> QED
    BY <1>4, <1>5, <1>6, <1>7, <1>8, <1>9, StepKeeps

\* A helper opens without a transaction only a file that is ready.
LEMMA GetWritableKeeps ==
  ASSUME RegistryInvariant, NEW t \in Thread, GetWritable(t)
  PROVE  RegistryInvariant'
  <1>1. PICK r \in CallRecord : r = call[t]
    BY DEF RegistryInvariant, Typed
  <1>2. PICK h : h = fields[r.made].helper
    OBVIOUS
  <1>3. PICK version : version = disk[helpers[h].name].version
    OBVIOUS
  <1>4. \E ready \in BOOLEAN : ready <=> (helpers[h].open \/ IsCurrent(version))
    OBVIOUS
  <1>5. PICK ready \in BOOLEAN : ready <=> (helpers[h].open \/ IsCurrent(version))
    BY <1>4
  <1>6. /\ r.at = "writable" /\ UNCHANGED files /\ UNCHANGED <<mInstance, moduleDB, fields, dbName>>
    BY <1>1 DEF GetWritable, registry
  <1>7. /\ r.name \in Name /\ r.made \in Instance /\ (r.again => r.self \in Instance)
        /\ r.helper # None => HelperOk(r.helper)
    BY <1>1, <1>6 DEF RegistryInvariant, ThreadOk
  <1>8. CASE Throws(t) /\ helpers' = helpers
    BY <1>6, <1>8, ThrowingStepKeeps
  <1>9. CASE /\ h # None
             /\ call' = [call EXCEPT ![t].helper = h, ![t].version = version,
                                     ![t].at = IF ready THEN "assign" ELSE "begin"]
             /\ helpers' = [helpers EXCEPT ![h].open = ready]
    <2>1. h \in Helper /\ HelperOk(h)
      <3>1. InstanceOk(r.made)
        BY <1>1, <1>7, HeldFacts, RegistryAssumption
      <3> QED
        BY <1>2, <1>9, <3>1 DEF InstanceOk, HelperOk
    <2>2. PICK n : n = helpers[h].name
      OBVIOUS
    <2>3. /\ n \in Name /\ FileOk(n, disk[n]) /\ version = disk[n].version
          /\ (helpers[h].open => Ready(disk[n]))
      BY <1>3, <2>1, <2>2 DEF HelperOk, RegistryInvariant
    <2>4. version \in 0..New /\ version \in {disk[n].first, New}
      BY <2>3, ContentsFields DEF FileOk, WellFormed
    <2>5. ready => Ready(disk[n])
      BY <1>5, <2>3 DEF IsCurrent, Ready
    <2>6. ~ready => version # New /\ version = disk[n].first
      BY <1>5, <2>4 DEF IsCurrent
    <2>7. PICK q : q = [r EXCEPT !.helper = h, !.version = version,
                                 !.at = IF ready THEN "assign" ELSE "begin"]
      OBVIOUS
    <2>8. /\ q \in CallRecord /\ q.at = (IF ready THEN "assign" ELSE "begin")
          /\ q.name = r.name /\ q.again = r.again /\ q.self = r.self /\ q.made = r.made
          /\ q.helper = h /\ q.version = version
      BY <2>1, <2>4, <2>7, ZenonT(60) DEF CallRecord, Registry, InHelper
    <2>9. call' = [call EXCEPT ![t] = q]
      BY <1>1, <1>9, <2>7
    <2>10. /\ call' \in [Thread -> CallRecord] /\ call'[t] = q
           /\ \A u \in Thread \ {t} : call'[u] = call[u]
      BY <2>8, <2>9, CallBecomes DEF RegistryInvariant
    <2>11. /\ helpers' \in [Helper -> [name : Name \cup {None}, open : BOOLEAN]]
           /\ helpers'[h].name = n /\ (helpers'[h].open <=> ready)
           /\ \A k \in Helper : HelperKept(k)
      <3>1. /\ helpers' \in [Helper -> [name : Name \cup {None}, open : BOOLEAN]]
            /\ helpers'[h].name = n /\ helpers'[h].open = ready
            /\ \A k \in Helper : k # h => helpers'[k] = helpers[k]
        BY <1>9, <2>1, <2>2 DEF RegistryInvariant, Typed
      <3>2. disk' = disk
        BY <1>6 DEF files
      <3> QED
        BY <2>2, <2>5, <3>1, <3>2 DEF HelperKept
    <2>12. /\ \A m \in Name : FileOk(m, disk'[m]) /\ FileKept(m)
           /\ \A u \in Thread : \A m \in Name : TransactionKept(u, m)
           /\ disk'[n] = disk[n]
      BY <1>6 DEF RegistryInvariant, FileKept, TransactionKept, files
    <2>13. ThreadOk(t)'
      <3>1. HelperOk(h)'
        BY <2>1, <2>3, <2>5, <2>11, <2>12 DEF HelperOk
      <3>2. ready => Serves(h)'
        BY <2>5, <2>11, <2>12, <3>1 DEF Serves
      <3>3. FileOf(t)' = n
        BY <2>8, <2>10, <2>11 DEF FileOf
      <3>4. /\ q.at \in {"assign", "begin"} /\ (q.at = "assign" => ready)
            /\ (q.at = "begin" => ~ready)
        BY <2>8
      <3> QED
        BY <1>7, <1>9, <2>6, <2>8, <2>10, <2>12, <3>1, <3>2, <3>3, <3>4
        DEF ThreadOk, InHelper, InTransaction, Upgrade
    <2>14. UsedInstances' \subseteq UsedInstances
      <3>1. {mInstance', moduleDB', call'[t].self, call'[t].made} \subseteq UsedInstances \cup {None} \cup {}
        BY <1>1, <1>6, <2>8, <2>10, HeldFacts
      <3> QED
        BY <2>10, <3>1, UsedStays
    <2>15. Typed'
      BY <1>6, <2>10, <2>11 DEF RegistryInvariant, Typed, files
    <2> QED
      BY <1>6, <2>10, <2>11, <2>12, <2>13, <2>14, <2>15, StepKeeps
  <1>10. \/ Throws(t) /\ helpers' = helpers
         \/ /\ h # None
            /\ call' = [call EXCEPT ![t].helper = h, ![t].version = version,
                                    ![t].at = IF ready THEN "assign" ELSE "begin"]
            /\ helpers' = [helpers EXCEPT ![h].open = ready]
    <2>1. \/ ready = TRUE /\ (helpers[h].open \/ IsCurrent(version)) = TRUE
          \/ ready = FALSE /\ (helpers[h].open \/ IsCurrent(version)) = FALSE
      BY <1>5 DEF IsCurrent
    <2> QED
      BY <1>1, <1>2, <1>3, <2>1 DEF GetWritable
  <1> QED
    BY <1>8, <1>9, <1>10

\* The transaction starts with the committed file, which is right for the first stage.
LEMMA BeginKeeps ==
  ASSUME RegistryInvariant, NEW t \in Thread, Begin(t)
  PROVE  RegistryInvariant'
  <1>1. PICK r \in CallRecord : r = call[t]
    BY DEF RegistryInvariant, Typed
  <1>2. PICK n : n = FileOf(t)
    OBVIOUS
  <1>3. r.at = "begin" /\ r.at \in InHelper
    BY <1>1 DEF Begin, InHelper
  <1>4. /\ n \in Name /\ r.helper \in Helper /\ HelperOk(r.helper)
        /\ n = helpers[r.helper].name /\ r.version \in 0 .. New - 1 /\ r.version = disk[n].first
        /\ FileOk(n, disk[n])
    BY <1>1, <1>2, <1>3, InHelperFacts
  <1>5. /\ UNCHANGED <<mInstance, moduleDB, fields, dbName>> /\ UNCHANGED <<helpers, disk>>
    BY DEF Begin, registry
  <1>6. CASE writing[n] # None
    BY <1>2, <1>5, <1>6, ThrowingStepKeeps DEF Begin, files
  <1>7. CASE writing[n] = None
    <2>1. PICK place : place = IF r.version = 0 THEN "onCreate" ELSE UpgradeFrom(n, r.version)
      OBVIOUS
    <2>2. PICK q : q = [r EXCEPT !.next = 1, !.stale = FALSE, !.at = place]
      OBVIOUS
    <2>3. /\ writing' = [writing EXCEPT ![n] = t] /\ work' = [work EXCEPT ![n] = disk[n]]
          /\ call' = [call EXCEPT ![t] = q]
      BY <1>1, <1>2, <1>7, <2>1, <2>2 DEF Begin
    <2>4. place \in {"onCreate", "delete", "migrate"} /\ place \in InTransaction /\ place \in InHelper
      <3>1. place \in {"onCreate", "delete", "migrate"}
        BY <2>1 DEF UpgradeFrom
      <3>2. {"onCreate", "delete", "migrate"} \subseteq InTransaction \cap InHelper
        BY DEF InTransaction, InHelper, Upgrade
      <3> QED
        BY <3>1, <3>2
    <2>5. /\ GoesOn(r, q) /\ q.at = place /\ q.next = 1 /\ ~q.stale
      BY <2>2, <2>4 DEF GoesOn, CallRecord
    <2>6. Stage(n, q, disk[n])
      <3>1. PICK c : c = disk[n]
        OBVIOUS
      <3>2. /\ FileOk(n, c) /\ c.first \in 0 .. New - 1 /\ q.version = c.first
            /\ q.at = IF q.version = 0 THEN "onCreate" ELSE UpgradeFrom(n, q.version)
        BY <1>4, <2>1, <2>5, <3>1 DEF GoesOn
      <3>3. Stage(n, q, c)
        BY <1>4, <2>5, <3>2, BeginStage
      <3> QED
        BY <3>1, <3>3
    <2>7. /\ call' \in [Thread -> CallRecord] /\ call'[t] = q
          /\ \A u \in Thread \ {t} : call'[u] = call[u]
      BY <2>3, <2>5, CallBecomes DEF RegistryInvariant, GoesOn
    <2>8. /\ writing' \in [Name -> Thread \cup {None}] /\ writing'[n] = t
          /\ work' \in [Name -> Contents] /\ work'[n] = disk[n]
          /\ \A m \in Name : m # n => writing'[m] = writing[m] /\ work'[m] = work[m]
      BY <1>4, <2>3 DEF RegistryInvariant, Typed
    <2>9. /\ \A m \in Name : FileOk(m, disk'[m]) /\ FileKept(m)
          /\ \A h \in UsedHelpers : h \in Helper => HelperKept(h)
          /\ \A u \in Thread \ {t} : \A m \in Name : TransactionKept(u, m)
      <3>1. None \notin Thread
        BY RegistryAssumption
      <3> QED
        BY <1>5, <1>7, <2>8, <3>1 DEF RegistryInvariant, FileKept, HelperKept, TransactionKept
    <2>10. ThreadOk(t)'
      <3>1. /\ r.name \in Name /\ r.made \in Instance /\ (r.again => r.self \in Instance)
        BY <1>1, <1>3 DEF RegistryInvariant, ThreadOk
      <3>2. HelperOk(r.helper)'
        BY <1>4, <1>5 DEF HelperOk
      <3>3. /\ q.name \in Name /\ q.made \in Instance /\ (q.again => q.self \in Instance)
            /\ q.helper = r.helper /\ q.version = r.version
        BY <2>5, <3>1 DEF GoesOn
      <3>4. FileOf(t)' = n
        BY <1>4, <1>5, <2>7, <3>3 DEF FileOf
      <3>5. q.at \notin {"idle", "has", "assign", "return"} /\ r.helper # None /\ q.version # New
        BY <1>4, <2>4, <2>5, <3>3, RegistryAssumption, MigrationAssumption
      <3> QED
        BY <1>4, <1>5, <2>4, <2>5, <2>6, <2>7, <2>8, <3>2, <3>3, <3>4, <3>5 DEF ThreadOk
    <2>11. UsedInstances' \subseteq UsedInstances
      <3>1. {mInstance', moduleDB', call'[t].self, call'[t].made} \subseteq UsedInstances \cup {None} \cup {}
        BY <1>1, <1>5, <2>5, <2>7, HeldFacts DEF GoesOn
      <3> QED
        BY <2>7, <3>1, UsedStays
    <2>12. Typed'
      BY <1>5, <2>7, <2>8 DEF RegistryInvariant, Typed
    <2> QED
      BY <1>5, <2>7, <2>9, <2>10, <2>11, <2>12, StepKeeps
  <1> QED
    BY <1>6, <1>7

\* The transaction ends with a file that may be handed out, and the helper has it open.
LEMMA LeavesKeeps ==
  ASSUME RegistryInvariant, NEW t \in Thread, call[t].at \in InTransaction,
         NEW n, n = FileOf(t), NEW d, FileOk(n, d), Ready(d), d.first = disk[n].first,
         disk' = [disk EXCEPT ![n] = d], work' = [work EXCEPT ![n] = d],
         writing' = [writing EXCEPT ![n] = None],
         helpers' = [helpers EXCEPT ![call[t].helper].open = TRUE],
         Goes(t, "assign"), UNCHANGED <<mInstance, moduleDB, fields, dbName>>
  PROVE  RegistryInvariant'
  <1>1. PICK r : r = call[t]
    OBVIOUS
  <1>2. call[t].at \in InHelper
    BY DEF InTransaction, InHelper
  <1>3. /\ r \in CallRecord /\ n \in Name /\ r.helper \in Helper /\ HelperOk(r.helper)
        /\ n = helpers[r.helper].name /\ writing[n] = t
    BY <1>1, <1>2, InHelperFacts
  <1>4. PICK q : q = [r EXCEPT !.at = "assign"]
    OBVIOUS
  <1>5. GoesOn(r, q) /\ q.at = "assign"
    BY <1>3, <1>4 DEF GoesOn, CallRecord, Registry
  <1>6. call' = [call EXCEPT ![t] = q]
    BY <1>1, <1>4 DEF Goes
  <1>7. /\ call' \in [Thread -> CallRecord] /\ call'[t] = q
        /\ \A u \in Thread \ {t} : call'[u] = call[u]
    BY <1>5, <1>6, CallBecomes DEF RegistryInvariant, GoesOn
  <1>8. /\ disk' \in [Name -> Contents] /\ work' \in [Name -> Contents]
        /\ writing' \in [Name -> Thread \cup {None}] /\ disk'[n] = d
        /\ \A m \in Name : m # n => /\ writing'[m] = writing[m] /\ work'[m] = work[m]
                                    /\ disk'[m] = disk[m]
    BY <1>3 DEF RegistryInvariant, Typed, FileOk, WellFormed
  <1>9. /\ helpers' \in [Helper -> [name : Name \cup {None}, open : BOOLEAN]]
        /\ helpers'[r.helper].name = n
        /\ \A k \in Helper : k # r.helper => helpers'[k] = helpers[k]
    BY <1>1, <1>3 DEF RegistryInvariant, Typed
  <1>10. /\ \A m \in Name : FileOk(m, disk'[m])
         /\ \A m \in Name : FileKept(m)
    BY <1>3, <1>8 DEF RegistryInvariant, FileKept
  <1>11. \A u \in Thread \ {t} : \A m \in Name : TransactionKept(u, m)
    BY <1>3, <1>8 DEF TransactionKept
  <1>12. \A h \in Helper : HelperKept(h)
    BY <1>3, <1>8, <1>9 DEF HelperKept
  <1>13. ThreadOk(t)'
    <2>1. /\ r.name \in Name /\ r.made \in Instance /\ (r.again => r.self \in Instance)
      BY <1>1, <1>2 DEF RegistryInvariant, ThreadOk, InHelper, Upgrade
    <2>2. HelperOk(r.helper)'
      BY <1>3, <1>8, <1>9 DEF HelperOk
    <2>3. Serves(r.helper)'
      BY <1>8, <1>9, <2>2 DEF Serves
    <2>4. /\ q.name \in Name /\ q.made \in Instance /\ (q.again => q.self \in Instance)
          /\ q.helper = r.helper
      BY <1>5, <2>1 DEF GoesOn
    <2>5. q.at \notin InHelper /\ q.at \notin InTransaction /\ r.helper # None
      BY <1>3, <1>5, RegistryAssumption DEF InHelper, InTransaction, Upgrade
    <2> QED
      BY <1>5, <1>7, <2>2, <2>3, <2>4, <2>5 DEF ThreadOk
  <1>14. UsedInstances' \subseteq UsedInstances
    <2>1. {mInstance', moduleDB', call'[t].self, call'[t].made} \subseteq UsedInstances \cup {None} \cup {}
      BY <1>1, <1>5, <1>7, HeldFacts DEF GoesOn
    <2> QED
      BY <1>7, <2>1, UsedStays
  <1>15. Typed'
    BY <1>7, <1>8, <1>9 DEF RegistryInvariant, Typed
  <1> QED
    BY <1>7, <1>10, <1>11, <1>12, <1>13, <1>14, <1>15, StepKeeps

\* A creation that failed half way leaves the file as it was, empty.
LEMMA EndDoomedKeeps ==
  ASSUME RegistryInvariant, NEW t \in Thread, EndDoomed(t)
  PROVE  RegistryInvariant'
  <1>1. PICK n : n = FileOf(t)
    OBVIOUS
  <1>2. call[t].at = "doomed" /\ call[t].at \in InTransaction /\ call[t].at \in InHelper
    BY DEF EndDoomed, InTransaction, InHelper
  <1>3. PICK d : d = disk[n]
    OBVIOUS
  <1>4. n \in Name /\ FileOk(n, d) /\ d.first = 0 /\ "create" \in Faults
    BY <1>1, <1>2, <1>3, InHelperFacts DEF Stage
  <1>5. Ready(d)
    BY <1>4 DEF FileOk, Ready
  <1>6. disk' = [disk EXCEPT ![n] = d] /\ work' = [work EXCEPT ![n] = d]
    <2>1. disk' = disk /\ work' = [work EXCEPT ![n] = disk[n]]
      BY <1>1 DEF EndDoomed, RollsBack
    <2> QED
      BY <1>3, <1>4, <2>1 DEF RegistryInvariant, Typed
  <1>7. /\ writing' = [writing EXCEPT ![n] = None]
        /\ helpers' = [helpers EXCEPT ![call[t].helper].open = TRUE]
        /\ Goes(t, "assign") /\ UNCHANGED <<mInstance, moduleDB, fields, dbName>>
    BY <1>1 DEF EndDoomed, RollsBack, registry
  <1> QED
    BY <1>1, <1>2, <1>3, <1>4, <1>5, <1>6, <1>7, LeavesKeeps

\* What is committed has been through all stages: the file is ready from then on.
LEMMA CommitKeeps ==
  ASSUME RegistryInvariant, NEW t \in Thread, Commit(t)
  PROVE  RegistryInvariant'
  <1>1. PICK n : n = FileOf(t)
    OBVIOUS
  <1>2. call[t].at = "setVersion" /\ call[t].at \in InTransaction /\ call[t].at \in InHelper
    BY DEF Commit, InTransaction, InHelper, Upgrade
  <1>3. CASE Aborts("commit", t)
    BY <1>2, <1>3, AbortsKeeps
  <1>4. CASE ~Aborts("commit", t)
    <2>1. PICK c : c = work[n]
      OBVIOUS
    <2>2. PICK d : d = Versioned(c)
      OBVIOUS
    <2>3. PICK r : r = call[t]
      OBVIOUS
    <2>4. /\ n \in Name /\ r.version \in 0 .. New - 1 /\ r.version = disk[n].first
          /\ Stage(n, r, c) /\ r.at = "setVersion"
      BY <1>1, <1>2, <2>1, <2>3, InHelperFacts
    <2>5. FileOk(n, d) /\ Ready(d) /\ d.first = c.first
      BY <2>2, <2>4, CommitOk
    <2>6. d.first = disk[n].first
      BY <2>4, <2>5 DEF Stage
    <2>7. /\ disk' = [disk EXCEPT ![n] = d] /\ work' = [work EXCEPT ![n] = d]
          /\ writing' = [writing EXCEPT ![n] = None]
          /\ helpers' = [helpers EXCEPT ![call[t].helper].open = TRUE]
          /\ Goes(t, "assign") /\ UNCHANGED <<mInstance, moduleDB, fields, dbName>>
      BY <1>1, <1>4, <2>1, <2>2 DEF Commit, registry
    <2> QED
      BY <1>1, <1>2, <2>5, <2>6, <2>7, LeavesKeeps
  <1> QED
    BY <1>3, <1>4

\* onCreate creates all tables, or swallows a failure.
LEMMA OnCreateKeeps ==
  ASSUME RegistryInvariant, NEW t \in Thread, OnCreate(t)
  PROVE  RegistryInvariant'
  <1>1. PICK r \in CallRecord : r = call[t]
    BY DEF RegistryInvariant, Typed
  <1>0. PICK n \in Name : n = FileOf(t)
    <2>1. call[t].at \in InHelper
      BY DEF OnCreate, InHelper
    <2> QED
      BY <2>1, InHelperFacts
  <1>2. PICK c : c = work[n]
    OBVIOUS
  <1>3. /\ call[t].at = "onCreate" /\ r.at = "onCreate" /\ call[t].at \in InTransaction
        /\ call[t].at \in InHelper
    BY <1>1 DEF OnCreate, InTransaction, InHelper
  <1>4. Stage(n, r, c)
    BY <1>0, <1>1, <1>2, <1>3, InHelperFacts
  <1>5. CASE Runs(t, AllTablesCreated(c, n), [r EXCEPT !.at = "setVersion"])
    <2>1. PICK d : d = AllTablesCreated(c, n)
      OBVIOUS
    <2>2. PICK q : q = [r EXCEPT !.at = "setVersion"]
      OBVIOUS
    <2>3. GoesOn(call[t], q) /\ q.at = "setVersion" /\ q.at \in InTransaction /\ q.version = r.version
      BY <1>1, <2>2 DEF GoesOn, CallRecord, InHelper, InTransaction, Upgrade
    <2>4. Stage(n, q, d)
      BY <1>3, <1>4, <2>1, <2>3, CreateStage
    <2>5. Sees(t, d, q)
      BY <1>5, <2>1, <2>2 DEF Runs
    <2> QED
      BY <1>0, <1>3, <2>3, <2>4, <2>5, SeesKeeps
  <1>6. CASE Fails("create", t, c, [r EXCEPT !.at = "doomed"])
    <2>1. PICK q : q = [r EXCEPT !.at = "doomed"]
      OBVIOUS
    <2>2. GoesOn(call[t], q) /\ q.at = "doomed" /\ q.at \in InTransaction /\ q.version = r.version
      BY <1>1, <2>1 DEF GoesOn, CallRecord, InHelper, InTransaction, Upgrade
    <2>3. Sees(t, c, q) /\ "create" \in Faults
      BY <1>6, <2>1 DEF Fails, Fault
    <2>4. Stage(n, q, c)
      BY <1>3, <1>4, <2>2, <2>3 DEF Stage
    <2> QED
      BY <1>0, <1>3, <2>2, <2>3, <2>4, SeesKeeps
  <1> QED
    BY <1>0, <1>1, <1>2, <1>5, <1>6 DEF OnCreate

\* The call after one round of a loop over the update list.
LEMMA NextFacts ==
  ASSUME NEW t \in Thread, call[t] \in CallRecord, call[t].at \in InTransaction, NEW n, n = FileOf(t),
         NEW followed \in Upgrade, NEW q, q = NextTable(t, followed)
  PROVE  /\ GoesOn(call[t], q) /\ q.stale = call[t].stale /\ q.at \in InTransaction
         /\ IF call[t].next < Len(Updates[n][call[t].version])
              THEN q.at = call[t].at /\ q.next = call[t].next + 1
              ELSE q.at = followed /\ q.next = 1
  <1>1. PICK r \in CallRecord : r = call[t]
    OBVIOUS
  <1>2. followed \in InTransaction /\ followed \in InHelper
    BY DEF InTransaction, InHelper
  <1>3. CASE r.next < Len(Updates[n][r.version])
    <2>1. q = [r EXCEPT !.next = @ + 1]
      BY <1>1, <1>3 DEF NextTable, UpdateList
    <2> QED
      BY <1>1, <1>3, <2>1 DEF GoesOn, CallRecord
  <1>4. CASE ~(r.next < Len(Updates[n][r.version]))
    <2>1. q = [r EXCEPT !.at = followed, !.next = 1]
      BY <1>1, <1>4 DEF NextTable, UpdateList
    <2>2. /\ q \in CallRecord /\ q.name = r.name /\ q.again = r.again /\ q.self = r.self
          /\ q.made = r.made /\ q.helper = r.helper /\ q.version = r.version
          /\ q.stale = r.stale /\ q.at = followed /\ q.next = 1
      <3>1. followed \in {"idle"} \cup Registry \cup InHelper
        BY <1>2
      <3>2. q \in CallRecord
        <4> SUFFICES ASSUME NEW p \in {"idle"} \cup Registry \cup InHelper
                     PROVE  [r EXCEPT !.at = p, !.next = 1] \in CallRecord
          BY <2>1, <3>1
        <4>1. [r EXCEPT !.at = p] \in CallRecord
          BY DEF CallRecord
        <4> QED
          BY <4>1 DEF CallRecord
      <3> QED
        BY <2>1, <3>1, <3>2 DEF CallRecord
    <2> QED
      BY <1>1, <1>2, <1>4, <2>2 DEF GoesOn
  <1> QED
    BY <1>3, <1>4

\* The upgrade begins: dbName names its database now, whoever else relied on it.
LEMMA MigrateKeeps ==
  ASSUME RegistryInvariant, NEW t \in Thread, MigrateSpecifyTable(t)
  PROVE  RegistryInvariant'
  <1>1. PICK r \in CallRecord : r = call[t]
    BY DEF RegistryInvariant, Typed
  <1>2. PICK n : n = FileOf(t)
    OBVIOUS
  <1>3. PICK q : q = [r EXCEPT !.at = "copy"]
    OBVIOUS
  <1>4. /\ r.at = "migrate" /\ r.at \in InTransaction /\ r.at \in InHelper
        /\ dbName' = n /\ call' = [call EXCEPT ![t] = q]
        /\ UNCHANGED <<mInstance, moduleDB, fields>> /\ UNCHANGED <<helpers, files>>
    BY <1>1, <1>2, <1>3 DEF MigrateSpecifyTable, Goes, InTransaction, InHelper, Upgrade
  <1>5. /\ n \in Name /\ r.helper \in Helper /\ HelperOk(r.helper)
        /\ n = helpers[r.helper].name /\ r.version \in 0 .. New - 1 /\ r.version = disk[n].first
        /\ writing[n] = t /\ Stage(n, r, work[n])
    BY <1>1, <1>2, <1>4, InHelperFacts
  <1>6. GoesOn(r, q) /\ q.at = "copy" /\ q.next = r.next /\ q.stale = r.stale
    BY <1>3 DEF GoesOn, CallRecord, InHelper, Upgrade
  <1>7. /\ call' \in [Thread -> CallRecord] /\ call'[t] = q
        /\ \A u \in Thread \ {t} : call'[u] = call[u]
    BY <1>4, <1>6, CallBecomes DEF RegistryInvariant, GoesOn
  <1>8. Stage(n, q, work[n])
    BY <1>4, <1>5, <1>6 DEF Stage, Copying, InUpgrade, GoesOn
  <1>9. ThreadOk(t)'
    <2>1. /\ r.name \in Name /\ r.made \in Instance /\ (r.again => r.self \in Instance)
      BY <1>1, <1>4 DEF RegistryInvariant, ThreadOk
    <2>2. HelperOk(r.helper)'
      BY <1>4, <1>5 DEF HelperOk, files
    <2>3. /\ q.name \in Name /\ q.made \in Instance /\ (q.again => q.self \in Instance)
          /\ q.helper = r.helper /\ q.version = r.version
      BY <1>6, <2>1 DEF GoesOn
    <2>4. FileOf(t)' = n
      BY <1>4, <1>5, <1>7, <2>3 DEF FileOf
    <2>5. /\ q.at \in InHelper /\ q.at \in InTransaction
          /\ r.helper # None /\ q.version # New /\ dbName' # None
      BY <1>4, <1>5, <1>6, <2>3, RegistryAssumption, MigrationAssumption
      DEF InHelper, InTransaction, Upgrade
    <2>6. writing' = writing /\ work' = work /\ disk' = disk
      BY <1>4 DEF files
    <2> QED
      BY <1>5, <1>6, <1>7, <1>8, <2>2, <2>3, <2>4, <2>5, <2>6 DEF ThreadOk
  <1>10. UsedInstances' \subseteq UsedInstances
    <2>1. {mInstance', moduleDB', call'[t].self, call'[t].made} \subseteq UsedInstances \cup {None} \cup {}
      BY <1>1, <1>4, <1>6, <1>7, HeldFacts DEF GoesOn
    <2> QED
      BY <1>7, <2>1, UsedStays
  <1>11. Typed'
    BY <1>4, <1>5, <1>7 DEF RegistryInvariant, Typed, files
  <1> QED
    BY <1>4, <1>5, <1>7, <1>9, <1>10, <1>11, Undisturbed, StepKeeps

\* buildTempTable copies the next table aside.
LEMMA BuildTempTableKeeps ==
  ASSUME RegistryInvariant, NEW t \in Thread, BuildTempTable(t)
  PROVE  RegistryInvariant'
  <1>1. PICK r \in CallRecord : r = call[t]
    BY DEF RegistryInvariant, Typed
  <1>0. PICK n : n = FileOf(t)
    OBVIOUS
  <1>2. PICK c : c = work[n]
    OBVIOUS
  <1>3. PICK q : q = NextTable(t, "rebuild")
    OBVIOUS
  <1>4. PICK table : table = Updates[n][r.version][r.next]
    OBVIOUS
  <1>5. /\ r.at = "copy" /\ call[t].at \in InTransaction /\ call[t].at \in InHelper
        /\ "rebuild" \in Upgrade
    BY <1>1 DEF BuildTempTable, InTransaction, InHelper, Upgrade
  <1>6. Stage(n, r, c) /\ n \in Name /\ dbName \in Name
    BY <1>0, <1>1, <1>2, <1>5, InHelperFacts
  <1>7. /\ GoesOn(call[t], q) /\ q.stale = r.stale /\ q.at \in InTransaction
        /\ IF r.next < Len(Updates[n][r.version]) THEN q.at = "copy" /\ q.next = r.next + 1
                                               ELSE q.at = "rebuild" /\ q.next = 1
    BY <1>0, <1>1, <1>3, <1>5, NextFacts
  <1>8. PICK d : /\ Sees(t, d, q)
                 /\ \/ table \notin TablesOf(c) /\ d = c
                    \/ table \in TablesOf(c) /\ d = CopiedAside(c, table)
                    \/ d = TempCreateFails(c, table)
                    \/ d = TempInsertFails(c, table)
    BY <1>0, <1>1, <1>2, <1>3, <1>4 DEF BuildTempTable, UpdateList, Runs, Fails
  <1>9. /\ WellFormed(c) /\ table \in Table /\ (MayLose(n, c, table) \/ KeptIn(c, table))
    <2>1. /\ r.version \in 1 .. New - 1 /\ r.next \in 1 .. Len(Updates[n][r.version])
          /\ AllKept(n, c) /\ WellFormed(c)
      BY <1>5, <1>6 DEF Stage, Copying, InUpgrade
    <2>2. table \in Table
      BY <1>4, <1>6, <2>1, ListFacts
    <2> QED
      BY <2>1, <2>2 DEF AllKept
  <1>10. CopiedOne(n, c, d, table)
    BY <1>8, <1>9, CopiedCases
  <1>11. Stage(n, q, d)
    <2>1. q.version = r.version
      BY <1>1, <1>7 DEF GoesOn
    <2> QED
      BY <1>4, <1>5, <1>6, <1>7, <1>10, <2>1, CopyStage
  <1> QED
    BY <1>0, <1>5, <1>6, <1>7, <1>8, <1>11, RegistryAssumption, SeesKeeps

\* The tables are dropped, and the list of the database that is in dbName is looked up.
LEMMA RebuildKeeps ==
  ASSUME RegistryInvariant, NEW t \in Thread, RebuildSpecifyTables(t)
  PROVE  RegistryInvariant'
  <1>1. PICK r \in CallRecord : r = call[t]
    BY DEF RegistryInvariant, Typed
  <1>0. PICK n : n = FileOf(t)
    OBVIOUS
  <1>2. PICK c : c = work[n]
    OBVIOUS
  <1>3. /\ r.at = "rebuild" /\ call[t].at \in InTransaction /\ call[t].at \in InHelper
        /\ "restore" \in Upgrade
    BY <1>1 DEF RebuildSpecifyTables, InTransaction, InHelper, Upgrade
  <1>4. CASE Aborts("drop", t)
    BY <1>3, <1>4, AbortsKeeps
  <1>5. CASE ~Aborts("drop", t)
    <2>1. PICK d : d = Rebuilt(c, UpdateSet(n, r.version), n, dbName)
      OBVIOUS
    <2>2. PICK q : q = NextTable(t, "restore")
      OBVIOUS
    <2>3. Stage(n, r, c) /\ n \in Name /\ dbName \in Name
      BY <1>0, <1>1, <1>2, <1>3, InHelperFacts
    <2>4. /\ GoesOn(call[t], q) /\ q.stale = r.stale /\ q.at \in InTransaction
          /\ IF r.next < Len(Updates[n][r.version]) THEN q.at = "rebuild" /\ q.next = r.next + 1
                                                    ELSE q.at = "restore" /\ q.next = 1
      BY <1>0, <1>1, <1>3, <2>2, NextFacts
    <2>5. Sees(t, d, q)
      BY <1>0, <1>1, <1>2, <1>5, <2>1, <2>2 DEF RebuildSpecifyTables, Runs, UpdateList, UpdateSet
    <2>6. Stage(n, q, d)
      <3>1. PICK m \in Name : m = dbName
        BY <2>3
      <3>2. d = Rebuilt(c, UpdateSet(n, r.version), n, m) /\ q.version = r.version
        BY <1>1, <2>1, <2>4, <3>1 DEF GoesOn
      <3> QED
        BY <1>3, <2>3, <2>4, <3>2, RebuildStage
    <2> QED
      BY <1>0, <1>3, <2>3, <2>4, <2>5, <2>6, RegistryAssumption, SeesKeeps
  <1> QED
    BY <1>4, <1>5

\* The temporary tables are dropped.
LEMMA SweepKeeps ==
  ASSUME RegistryInvariant, NEW t \in Thread, SweepTemps(t)
  PROVE  RegistryInvariant'
  <1>1. PICK r \in CallRecord : r = call[t]
    BY DEF RegistryInvariant, Typed
  <1>0. PICK n : n = FileOf(t)
    OBVIOUS
  <1>2. PICK c : c = work[n]
    OBVIOUS
  <1>3. r.at = "sweep" /\ call[t].at \in InTransaction /\ call[t].at \in InHelper
    BY <1>1 DEF SweepTemps, InTransaction, InHelper, Upgrade
  <1>4. CASE Aborts("drop", t)
    BY <1>3, <1>4, AbortsKeeps
  <1>5. CASE ~Aborts("drop", t)
    <2>1. PICK d : d = SweptTemps(c, UpdateSet(n, r.version))
      OBVIOUS
    <2>2. PICK q : q = [r EXCEPT !.at = "delete"]
      OBVIOUS
    <2>3. Stage(n, r, c) /\ n \in Name
      BY <1>0, <1>1, <1>2, <1>3, InHelperFacts
    <2>4. /\ GoesOn(call[t], q) /\ q.at = "delete" /\ q.at \in InTransaction
          /\ q.version = r.version
      BY <1>1, <2>2 DEF GoesOn, CallRecord, InHelper, InTransaction, Upgrade
    <2>5. Sees(t, d, q)
      BY <1>0, <1>1, <1>2, <1>5, <2>1, <2>2 DEF SweepTemps, Runs, UpdateList, UpdateSet
    <2>6. Stage(n, q, d)
      BY <1>3, <2>1, <2>3, <2>4, SweepStage
    <2> QED
      BY <1>0, <1>3, <2>4, <2>5, <2>6, SeesKeeps
  <1> QED
    BY <1>4, <1>5

\* The tables of the delete list are dropped.
LEMMA DeleteKeeps ==
  ASSUME RegistryInvariant, NEW t \in Thread, DropSpecifyTable(t)
  PROVE  RegistryInvariant'
  <1>1. PICK r \in CallRecord : r = call[t]
    BY DEF RegistryInvariant, Typed
  <1>0. PICK n : n = FileOf(t)
    OBVIOUS
  <1>2. PICK c : c = work[n]
    OBVIOUS
  <1>3. r.at = "delete" /\ call[t].at \in InTransaction /\ call[t].at \in InHelper
    BY <1>1 DEF DropSpecifyTable, InTransaction, InHelper, Upgrade
  <1>4. CASE Aborts("drop", t)
    BY <1>3, <1>4, AbortsKeeps
  <1>5. CASE ~Aborts("drop", t)
    <2>1. PICK d : d = Deleted(c, DeleteSet(n, r.version))
      OBVIOUS
    <2>2. PICK q : q = [r EXCEPT !.at = "setVersion"]
      OBVIOUS
    <2>3. Stage(n, r, c) /\ n \in Name
      BY <1>0, <1>1, <1>2, <1>3, InHelperFacts
    <2>4. /\ GoesOn(call[t], q) /\ q.at = "setVersion" /\ q.at \in InTransaction
          /\ q.version = r.version
      BY <1>1, <2>2 DEF GoesOn, CallRecord, InHelper, InTransaction, Upgrade
    <2>5. Sees(t, d, q)
      BY <1>0, <1>1, <1>2, <1>5, <2>1, <2>2 DEF DropSpecifyTable, Runs, DeleteList, DeleteSet
    <2>6. Stage(n, q, d)
      BY <1>3, <2>1, <2>3, <2>4, DeleteStage
    <2> QED
      BY <1>0, <1>3, <2>4, <2>5, <2>6, SeesKeeps
  <1> QED
    BY <1>4, <1>5

\* The tables after one whose INSERT failed.
LEMMA LaterFacts ==
  ASSUME NEW n \in Name, NEW v \in 1 .. New - 1, NEW k \in 1 .. Len(Updates[n][v]),
         NEW later, later = ToSet(SubSeq(Updates[n][v], k, Len(Updates[n][v])))
  PROVE  later \in SUBSET Table /\ \A i \in k .. Len(Updates[n][v]) : Updates[n][v][i] \in later
  <1> DEFINE s == Updates[n][v]
             u == SubSeq(s, k, Len(s))
  <1>1. s \in Seq(Table) /\ Len(s) \in Nat
    <2>1. s \in Seq(Table)
      BY MigrationAssumption
    <2> HIDE DEF s
    <2> QED
      BY <2>1, LenProperties
  <1>2. /\ u \in Seq(Table) /\ Len(u) = Len(s) - k + 1
        /\ \A i \in 1 .. Len(s) - k + 1 : u[i] = s[k + i - 1]
    <2>1. k \in 1 .. Len(s)
      OBVIOUS
    <2> HIDE DEF s
    <2>2. k \in Int /\ Len(s) \in Int /\ k <= Len(s)
      BY <1>1, <2>1
    <2>3. \A i \in k .. Len(s) : s[i] \in Table
      BY <1>1, <2>1, ElementOfSeq
    <2> QED
      BY <2>2, <2>3, SubSeqProperties
  <1>3. later = {u[i] : i \in 1 .. Len(u)}
    BY <1>2, LenProperties DEF ToSet
  <1> HIDE DEF s, u
  <1>4. later \in SUBSET Table
    BY <1>2, <1>3, ElementOfSeq
  <1>5. ASSUME NEW i \in k .. Len(s) PROVE s[i] \in later
    <2>1. (i - k) + 1 \in 1 .. Len(s) - k + 1 /\ k + ((i - k) + 1) - 1 = i
      BY <1>1
    <2>2. u[(i - k) + 1] = s[i]
      BY <1>2, <2>1
    <2> QED
      BY <1>2, <1>3, <2>1, <2>2
  <1> QED
    BY <1>4, <1>5 DEF s

\* restoreTable fills the next table again.
LEMMA RestoreKeeps ==
  ASSUME RegistryInvariant, NEW t \in Thread, RestoreTable(t)
  PROVE  RegistryInvariant'
  <1>1. PICK r \in CallRecord : r = call[t]
    BY DEF RegistryInvariant, Typed
  <1>0. PICK n : n = FileOf(t)
    OBVIOUS
  <1>2. PICK c : c = work[n]
    OBVIOUS
  <1>3. PICK on : on = NextTable(t, "sweep")
    OBVIOUS
  <1>4. PICK table : table = Updates[n][r.version][r.next]
    OBVIOUS
  <1>5. PICK later : later = ToSet(SubSeq(Updates[n][r.version], r.next, Len(Updates[n][r.version])))
    OBVIOUS
  <1>6. PICK stuck : stuck = [on EXCEPT !.stale = TRUE]
    OBVIOUS
  <1>7. /\ r.at = "restore" /\ call[t].at \in InTransaction /\ call[t].at \in InHelper
        /\ "sweep" \in Upgrade
    BY <1>1 DEF RestoreTable, InTransaction, InHelper, Upgrade
  <1>8. CASE Aborts("drop", t)
    BY <1>7, <1>8, AbortsKeeps
  <1>9. CASE ~Aborts("drop", t)
    <2>1. Stage(n, r, c) /\ n \in Name
      BY <1>0, <1>1, <1>2, <1>7, InHelperFacts
    <2>2. /\ GoesOn(call[t], on) /\ on.stale = r.stale /\ on.at \in InTransaction
          /\ IF r.next < Len(Updates[n][r.version]) THEN on.at = "restore" /\ on.next = r.next + 1
                                                 ELSE on.at = "sweep" /\ on.next = 1
      BY <1>0, <1>1, <1>3, <1>7, NextFacts
    <2>3. /\ stuck \in CallRecord /\ stuck.name = on.name /\ stuck.again = on.again
          /\ stuck.self = on.self /\ stuck.made = on.made /\ stuck.helper = on.helper
          /\ stuck.version = on.version /\ stuck.at = on.at /\ stuck.next = on.next
      <3>1. on \in CallRecord
        BY <2>2 DEF GoesOn
      <3> QED
        BY <1>6, <3>1 DEF CallRecord
    <2>4. PICK d, q, kept :
            /\ Sees(t, d, q)
            /\ \/ /\ q = on
                  /\ \/ table \notin DOMAIN c.temps /\ d = c
                     \/ table \in DOMAIN c.temps /\ CanRestore(c, table, r.stale)
                        /\ kept \in KeptRows(c, table, n) /\ d = Restored(c, table, kept)
                     \/ r.stale /\ d = RestoreStale(c, table)
                     \/ d = RestoreSkipped(c, table)
               \/ q = stuck /\ d = RestoreFails(c, table, later)
      BY <1>0, <1>1, <1>2, <1>3, <1>4, <1>5, <1>6, <1>9 DEF RestoreTable, UpdateList, Runs, Fails
    <2>5. /\ r.version \in 1 .. New - 1 /\ r.next \in 1 .. Len(Updates[n][r.version])
          /\ WellFormed(c) /\ table \in Table
          /\ \/ MayLose(n, c, table)
             \/ AsideIn(c, table) /\ (table \in TablesOf(c) => HasOwnForm(c, table, n))
          /\ r.stale => table \in c.hurt
      <3>1. /\ r.version \in 1 .. New - 1 /\ r.next \in 1 .. Len(Updates[n][r.version])
            /\ WellFormed(c) /\ UpdatedIn(n, c) /\ c.first = r.version
            /\ \A i \in r.next .. Len(Updates[n][r.version]) :
                 MayLose(n, c, Updates[n][r.version][i]) \/ AsideIn(c, Updates[n][r.version][i])
            /\ r.stale => \A i \in r.next .. Len(Updates[n][r.version]) : Updates[n][r.version][i] \in c.hurt
        BY <1>7, <2>1 DEF Stage, Restoring, InUpgrade
      <3>2. r.next \in r.next .. Len(Updates[n][r.version])
        BY <2>1, <3>1, ListFacts
      <3>3. table \in UpdateSet(n, r.version) /\ table \in Table
        BY <1>4, <2>1, <3>1, ListFacts
      <3>4. MayLose(n, c, table) \/ HasOwnForm(c, table, n)
        BY <3>1, <3>3 DEF UpdatedIn, Sound, MayLose, UpdateSet
      <3> QED
        BY <1>4, <3>1, <3>2, <3>3, <3>4
    <2>6. table \in Table /\ later \in SUBSET Table
          /\ \A i \in r.next .. Len(Updates[n][r.version]) : Updates[n][r.version][i] \in later
      BY <1>4, <1>5, <2>1, <2>5, ListFacts, LaterFacts
    <2>7. RestoredOne(n, c, d, table)
      BY <2>4, <2>5, <2>6, RestoredCases
    <2>8. GoesOn(call[t], q) /\ q.at \in InTransaction /\ q.version = r.version
      BY <1>1, <2>2, <2>3, <2>4 DEF GoesOn
    <2>9. IF r.next < Len(Updates[n][r.version]) THEN q.at = "restore" /\ q.next = r.next + 1
                                              ELSE q.at = "sweep"
      BY <2>2, <2>3, <2>4
    <2>10. q.stale => \/ r.stale
                      \/ \A i \in r.next .. Len(Updates[n][r.version]) : Updates[n][r.version][i] \in d.hurt
      <3>1. CASE q = on
        BY <2>2, <3>1
      <3>2. CASE d = RestoreFails(c, table, later)
        <4>1. later \subseteq d.hurt
          BY <2>5, <2>6, <3>2, FailureExcuses
        <4> QED
          BY <2>6, <4>1
      <3> QED
        BY <2>4, <3>1, <3>2
    <2>11. Stage(n, q, d)
      BY <1>4, <1>7, <2>1, <2>7, <2>8, <2>9, <2>10, RestoreStage
    <2> QED
      BY <1>0, <1>7, <2>4, <2>8, <2>9, <2>11, SeesKeeps
  <1> QED
    BY <1>8, <1>9

-----------------------------------------------------------------------------
(* The registry as a whole.                                                *)

\* A crash leaves nothing but the committed files.
LEMMA CrashKeeps ==
  ASSUME RegistryInvariant, Crash
  PROVE  RegistryInvariant'
  <1>1. /\ mInstance' = None /\ moduleDB' = None /\ dbName' = None /\ fields' = [i \in Instance |-> NoFields]
        /\ helpers' = [h \in Helper |-> NoHelper] /\ call' = [t \in Thread |-> Idle]
        /\ writing' = [n \in Name |-> None] /\ work' = disk /\ disk' = disk
    BY DEF Crash
  <1>2. Typed'
    BY <1>1, IdleFacts DEF RegistryInvariant, Typed, NoFields, NoHelper
  <1>3. UsedInstances' = {}
    BY <1>1, IdleFacts DEF UsedInstances
  <1>4. ASSUME NEW t \in Thread PROVE ThreadOk(t)'
    <2>1. call'[t] = Idle
      BY <1>1
    <2> QED
      BY <2>1, IdleFacts DEF ThreadOk, InHelper, InTransaction, Upgrade
  <1>5. (\A n \in Name : FileOk(n, disk[n]))'
    BY <1>1 DEF RegistryInvariant
  <1> QED
    BY <1>2, <1>3, <1>4, <1>5 DEF RegistryInvariant

\* A file as it is found is a file as an upgrade leaves it.
LEMMA FoundIsOk ==
  ASSUME NEW first \in Firsts, NEW n \in Name
  PROVE  first[n] \in Contents /\ FileOk(n, first[n])
  <1>1. PICK c : c = first[n]
    OBVIOUS
  <1>2. c \in Contents /\ Found(c)
    BY <1>1, RegistryAssumption
  <1>3. /\ c.first = c.version /\ c.hurt = {} /\ c.astray = {} /\ DOMAIN c.rows = TablesOf(c)
        /\ c.version = 0 => TablesOf(c) = {}
        /\ \A t \in Table : KeptIn(c, t)
    BY <1>2 DEF Found, KeptIn
  <1>4. NoTempsAtFirst => DOMAIN c.temps = {}
    BY <1>1 DEF NoTempsAtFirst
  <1>5. \A T : TempsWithin(c, T)
    BY <1>4 DEF TempsWithin
  <1> QED
    BY <1>1, <1>2, <1>3, <1>5 DEF FileOk, WellFormed, AllKept

\* The files are as found, and no thread is under way.
LEMMA RegistryInit ==
  ASSUME Init
  PROVE  RegistryInvariant
  <1>1. /\ mInstance = None /\ moduleDB = None /\ dbName = None /\ fields = [i \in Instance |-> NoFields]
        /\ helpers = [h \in Helper |-> NoHelper] /\ call = [t \in Thread |-> Idle]
        /\ writing = [n \in Name |-> None] /\ work = disk /\ disk \in Firsts
    BY DEF Init
  <1>2. disk \in [Name -> Contents]
    BY <1>1, RegistryAssumption
  <1>3. Typed
    BY <1>1, <1>2, IdleFacts DEF Typed, NoFields, NoHelper
  <1>4. UsedInstances = {}
    BY <1>1, IdleFacts DEF UsedInstances
  <1>5. ASSUME NEW t \in Thread PROVE ThreadOk(t)
    <2>1. call[t] = Idle
      BY <1>1
    <2> QED
      BY <2>1, IdleFacts DEF ThreadOk, InHelper, InTransaction, Upgrade
  <1>6. \A n \in Name : FileOk(n, disk[n])
    BY <1>1, FoundIsOk
  <1> QED
    BY <1>3, <1>4, <1>5, <1>6 DEF RegistryInvariant

\* A step that changes nothing.
LEMMA RegistryStutters ==
  ASSUME RegistryInvariant, UNCHANGED vars
  PROVE  RegistryInvariant'
  <1>1. /\ mInstance' = mInstance /\ moduleDB' = moduleDB /\ fields' = fields /\ dbName' = dbName
        /\ helpers' = helpers /\ call' = call /\ disk' = disk /\ writing' = writing /\ work' = work
    BY DEF vars
  <1>2. /\ \A n \in Name : FileOk(n, disk'[n]) /\ FileKept(n)
        /\ \A u \in Thread : \A n \in Name : TransactionKept(u, n)
        /\ \A h : HelperKept(h)
    BY <1>1 DEF RegistryInvariant, FileKept, TransactionKept, HelperKept
  <1>3. UsedInstances' = UsedInstances
    BY <1>1 DEF UsedInstances
  <1>4. ASSUME NEW i \in UsedInstances PROVE InstanceOk(i)'
    BY <1>1, <1>2, HeldFacts, InstanceStaysOk DEF RegistryInvariant
  <1>5. ASSUME NEW t \in Thread PROVE ThreadOk(t)'
    BY <1>1, <1>2, ThreadStaysOk DEF RegistryInvariant
  <1>6. Typed'
    BY <1>1 DEF RegistryInvariant, Typed
  <1>7. (\A n \in Name : FileOk(n, disk[n]))'
    BY <1>2
  <1> QED
    BY <1>3, <1>4, <1>5, <1>6, <1>7 DEF RegistryInvariant

\* Every step keeps the invariant of the registry.
LEMMA RegistryStep ==
  ASSUME RegistryInvariant, [Next]_vars
  PROVE  RegistryInvariant'
  <1>1. ASSUME NEW t \in Thread, NEW n \in Name, GetDatabase(t, n) PROVE RegistryInvariant'
    BY <1>1, GetDatabaseKeeps
  <1>2. ASSUME NEW t \in Thread, DaoStep(t) PROVE RegistryInvariant'
    BY <1>2, CreateAgainKeeps, NewInstanceKeeps, OpenKeeps, AssignDbKeeps, AssignCurrentDbKeeps,
       CloseDbKeeps, CloseHelperKeeps, ForgetKeeps, MadeKeeps, GetKeeps, ReturnKeeps,
       InsertKeeps, DoneKeeps DEF DaoStep
  <1>3. ASSUME NEW t \in Thread, HelperStep(t) PROVE RegistryInvariant'
    BY <1>3, GetWritableKeeps, BeginKeeps, OnCreateKeeps, EndDoomedKeeps, MigrateKeeps,
       BuildTempTableKeeps, RebuildKeeps, RestoreKeeps, SweepKeeps, DeleteKeeps, CommitKeeps DEF HelperStep
  <1> QED
    BY <1>1, <1>2, <1>3, CrashKeeps, RegistryStutters DEF Next

\* The inductive invariant of the registry and of the upgrades holds for any number of
\* threads, databases, tables, rows and faults.
THEOREM RegistryInvariantHolds == Spec => []RegistryInvariant
  <1>1. Init => RegistryInvariant
    BY RegistryInit
  <1>2. RegistryInvariant /\ [Next]_vars => RegistryInvariant'
    BY RegistryStep
  <1> QED
    BY <1>1, <1>2, PTL DEF Spec

\* An upgrade (ModuleDatabaseHelper.onUpgrade, ModuleDBMigrationHelper.kt) that is
\* interrupted, repeated or fails halfway, or takes the wrong list because another one
\* assigned dbName, loses rows of no table but one that it deletes, that nothing
\* creates again, that a statement threw for, or that the wrong list says something
\* else of.
THEOREM UpgradesKeepRows == Spec => []UpgradeKeepsRows
  <1>1. RegistryInvariant => UpgradeKeepsRows
    <2> SUFFICES ASSUME RegistryInvariant, NEW n \in Name, NEW table \in Table,
                        ~MayLose(n, disk[n], table)
                 PROVE  IF table \in TablesOf(disk[n])
                        THEN disk[n].written[table] \subseteq disk[n].rows[table]
                        ELSE disk[n].written[table] = {}
      BY DEF UpgradeKeepsRows
    <2>1. KeptIn(disk[n], table)
      BY DEF RegistryInvariant, FileOk, AllKept
    <2> QED
      BY <2>1 DEF KeptIn
  <1> QED
    BY <1>1, RegistryInvariantHolds, PTL

-----------------------------------------------------------------------------
(* Whose list an upgrade takes.  A table is made anew by another list only *)
(* if the upgrade of another database, which has tables to update, has     *)
(* assigned dbName.                                                        *)

\* Another database than n was found with tables to update.
OthersUpdate(n) == \E m \in Name \ {n} : HadUpdates(m)

\* dbName names a database with tables to update.
DbNameInvariant == dbName # None => HadUpdates(dbName)

\* Only an upgrade that has tables to update, while another database has, takes the
\* wrong list.
AstrayInvariant ==
  \A n \in Name : disk[n].astray \cup work[n].astray # {} => HadUpdates(n) /\ OthersUpdate(n)

\* The version a file was found with is never touched, and the tables made anew by
\* another list are those of the transaction, when that commits.
LEMMA DiskFacts ==
  ASSUME RegistryInvariant, [Next]_vars, NEW n \in Name
  PROVE  /\ disk'[n].first = disk[n].first
         /\ disk'[n].astray \in {disk[n].astray, work[n].astray}
  <1>1. disk \in [Name -> Contents] /\ work \in [Name -> Contents]
    BY DEF RegistryInvariant, Typed
  <1>2. CASE UNCHANGED disk
    BY <1>2
  <1>3. ASSUME NEW t \in Thread, NEW table \in Table, NEW row \in Row, Insert(t, table, row)
        PROVE  disk'[n].first = disk[n].first /\ disk'[n].astray = disk[n].astray
    <2>1. PICK m : m = helpers[call[t].helper].name
      OBVIOUS
    <2>2. PICK d : d = Inserted(disk[m], table, row)
      OBVIOUS
    <2>3. disk' = [disk EXCEPT ![m] = d]
      <3>1. disk' = [disk EXCEPT ![m].rows[table] = @ \cup {row},
                                 ![m].written[table] = @ \cup {row}]
        BY <1>3, <2>1 DEF Insert
      <3> QED
        BY <2>2, <3>1 DEF Inserted
    <2>4. m \in Name => d.first = disk[m].first /\ d.astray = disk[m].astray
      BY <1>1, <2>2, ContentsFields DEF Inserted
    <2> QED
      BY <1>1, <2>3, <2>4
  <1>4. ASSUME NEW t \in Thread, Commit(t), ~UNCHANGED disk
        PROVE  /\ disk'[n].first = disk[n].first
               /\ disk'[n].astray \in {disk[n].astray, work[n].astray}
    <2>1. PICK m : m = FileOf(t)
      OBVIOUS
    <2>2. call[t].at \in InTransaction /\ call[t].at \in InHelper
      BY <1>4 DEF Commit, InTransaction, InHelper, Upgrade
    <2>3. m \in Name /\ work[m].first = disk[m].first
      BY <2>1, <2>2, InHelperFacts DEF Stage
    <2>4. disk' = [disk EXCEPT ![m] = Versioned(work[m])]
      BY <1>4, <2>1 DEF Commit, Aborts, RollsBack
    <2>5. /\ Versioned(work[m]).first = work[m].first
          /\ Versioned(work[m]).astray = work[m].astray
      BY <1>1, <2>3, ContentsFields DEF Versioned
    <2> QED
      BY <1>1, <2>3, <2>4, <2>5
  <1>5. ASSUME NEW t \in Thread, NEW m \in Name, GetDatabase(t, m) PROVE UNCHANGED disk
    BY <1>5 DEF GetDatabase, files
  <1>6. ASSUME NEW t \in Thread, DaoStep(t),
               ~\E table \in Table, row \in Row : Insert(t, table, row)
        PROVE  UNCHANGED disk
    BY <1>6 DEF DaoStep, CreateAgain, NewInstance, Open, AssignDb, AssignCurrentDb, CloseDb,
       CloseHelper, Forget, Made, Get, Return, Done, files
  <1>7. ASSUME NEW t \in Thread, HelperStep(t), ~Commit(t) PROVE UNCHANGED disk
    BY <1>7 DEF HelperStep, GetWritable, Begin, OnCreate, EndDoomed, MigrateSpecifyTable,
       BuildTempTable, RebuildSpecifyTables, RestoreTable, SweepTemps, DropSpecifyTable,
       Aborts, RollsBack, Runs, Fails, Sees, files
  <1>8. Crash \/ UNCHANGED vars => UNCHANGED disk
    BY DEF Crash, vars
  <1> QED
    BY <1>2, <1>3, <1>4, <1>5, <1>6, <1>7, <1>8 DEF Next

\* What a statement of an upgrade other than the rebuilding does, when it is done or has
\* thrown, makes no table anew.
SameLists(c, d) == d.first = c.first /\ d.astray = c.astray

\* No statement but those of the rebuilding takes a list.
LEMMA ListFreeFacts ==
  ASSUME NEW c, WellFormed(c), NEW n \in Name, NEW t, NEW T, NEW kept
  PROVE  /\ SameLists(c, AllTablesCreated(c, n)) /\ SameLists(c, CopiedAside(c, t))
         /\ SameLists(c, TempCreateFails(c, t)) /\ SameLists(c, TempInsertFails(c, t))
         /\ SameLists(c, Restored(c, t, kept)) /\ SameLists(c, RestoreFails(c, t, T))
         /\ SameLists(c, RestoreSkipped(c, t)) /\ SameLists(c, RestoreStale(c, t))
         /\ SameLists(c, SweptTemps(c, T)) /\ SameLists(c, Deleted(c, T))
  <1>1. c \in Contents
    BY DEF WellFormed
  <1>2. \A e \in Contents : \A X :
          SameLists(e, DropTemps(e, X)) /\ SameLists(e, DropTables(e, X))
    BY ContentsFields DEF SameLists, DropTemps, DropTables
  <1>3. SameLists(c, AllTablesCreated(c, n))
    BY <1>1, ContentsFields DEF SameLists, AllTablesCreated, CreateTables
  <1>4. /\ SameLists(c, CopiedAside(c, t)) /\ SameLists(c, TempCreateFails(c, t))
        /\ SameLists(c, TempInsertFails(c, t)) /\ SameLists(c, RestoreSkipped(c, t))
    BY <1>1, ContentsFields
    DEF SameLists, CopiedAside, TempCreateFails, TempInsertFails, RestoreSkipped
  <1>5. SameLists(c, Restored(c, t, kept))
    BY <1>1, ContentsFields DEF SameLists, Restored, DropTemps
  <1>6. SameLists(c, RestoreFails(c, t, T))
    BY <1>1, ContentsFields DEF SameLists, RestoreFails, DropTemps
  <1>7. /\ SameLists(c, RestoreStale(c, t)) /\ SameLists(c, SweptTemps(c, T))
        /\ SameLists(c, Deleted(c, T))
    BY <1>1, <1>2 DEF RestoreStale, SweptTemps, Deleted
  <1> QED
    BY <1>3, <1>4, <1>5, <1>6, <1>7

\* A transaction sees tables made anew by another list only where those were there when it
\* began or dbName names another database.
LEMMA WorkFacts ==
  ASSUME RegistryInvariant, [Next]_vars, NEW n \in Name
  PROVE  \/ work'[n].astray \in {disk[n].astray, work[n].astray}
         \/ dbName \in Name \ {n} /\ HadUpdates(n)
  <1> DEFINE Same == work'[n].astray \in {disk[n].astray, work[n].astray}
  <1>1. disk \in [Name -> Contents] /\ work \in [Name -> Contents]
    BY DEF RegistryInvariant, Typed
  <1>2. UNCHANGED work \/ work' = disk => Same
    OBVIOUS
  <1>3. ASSUME NEW m, NEW c, work' = [work EXCEPT ![m] = c],
               m = n => c.astray \in {disk[m].astray, work[m].astray}
        PROVE  Same
    BY <1>1, <1>3
  <1>4. ASSUME NEW t \in Thread, RollsBack(t) PROVE Same
    BY <1>3, <1>4 DEF RollsBack
  <1>5. ASSUME NEW t \in Thread, NEW c, NEW q, Sees(t, c, q),
               FileOf(t) = n => c.astray = work[n].astray
        PROVE  Same
    BY <1>3, <1>5 DEF Sees
  <1> HIDE DEF Same
  <1>6. ASSUME NEW t \in Thread, call[t].at \in InTransaction, FileOf(t) = n
        PROVE  WellFormed(work[n])
    BY <1>6, InHelperFacts DEF InTransaction, InHelper, Stage
  <1>7. ASSUME NEW t \in Thread, OnCreate(t) PROVE Same
    <2>1. call[t].at \in InTransaction
      BY <1>7 DEF OnCreate, InTransaction
    <2>2. FileOf(t) = n => SameLists(work[n], AllTablesCreated(work[n], n))
      BY <1>6, <2>1, ListFreeFacts
    <2> QED
      BY <1>5, <1>7, <2>2 DEF OnCreate, Runs, Fails, SameLists
  <1>8. ASSUME NEW t \in Thread, BuildTempTable(t) PROVE Same
    <2>1. call[t].at \in InTransaction
      BY <1>8 DEF BuildTempTable, InTransaction, Upgrade
    <2>2. PICK c, table, d, q :
            /\ c = work[FileOf(t)] /\ Sees(t, d, q)
            /\ d \in {c, CopiedAside(c, table), TempCreateFails(c, table), TempInsertFails(c, table)}
      BY <1>8 DEF BuildTempTable, Runs, Fails
    <2>3. FileOf(t) = n => SameLists(c, d)
      BY <1>6, <2>1, <2>2, ListFreeFacts DEF SameLists
    <2> QED
      BY <1>5, <2>2, <2>3 DEF SameLists
  <1>9. ASSUME NEW t \in Thread, RebuildSpecifyTables(t) PROVE Same \/ (dbName \in Name \ {n} /\ HadUpdates(n))
    <2>1. call[t].at \in InTransaction /\ call[t].at \in InHelper /\ call[t].at = "rebuild"
      BY <1>9 DEF RebuildSpecifyTables, InTransaction, InHelper, Upgrade
    <2>2. CASE Aborts("drop", t)
      BY <1>4, <2>2 DEF Aborts
    <2>3. CASE ~Aborts("drop", t)
      <3>1. PICK T, q : /\ T = ToSet(UpdateList(t))
                        /\ Sees(t, Rebuilt(work[FileOf(t)], T, FileOf(t), dbName), q)
        BY <1>9, <2>3 DEF RebuildSpecifyTables, Runs
      <3>2. CASE FileOf(t) = n
        <4>1. /\ Stage(n, call[t], work[n]) /\ dbName \in Name
          BY <2>1, <3>2, InHelperFacts
        <4>2. /\ WellFormed(work[n]) /\ call[t].version \in 1 .. New - 1
              /\ call[t].next \in 1 .. Len(Updates[n][call[t].version])
          BY <2>1, <4>1 DEF Stage, Rebuilding, InUpgrade
        <4>6. HadUpdates(n)
          <5>1. call[t].version = disk[n].first
            BY <2>1, <3>2, InHelperFacts
          <5>2. Updates[n][call[t].version] # <<>>
            BY <4>2
          <5> QED
            BY <4>2, <5>1, <5>2 DEF HadUpdates
        <4>3. T \in SUBSET Table
          BY <3>1, <3>2, <4>2, ListFacts DEF UpdateList, UpdateSet
        <4>4. PICK d : d = Rebuilt(work[n], T, n, dbName)
          OBVIOUS
        <4>5. d.astray # work[n].astray => dbName # n
          <5>1. RebuiltOnce(n, dbName, T, work[n], d)
            BY <4>1, <4>2, <4>3, <4>4, RebuiltFacts
          <5> QED
            BY <5>1 DEF RebuiltOnce
        <4> QED
          BY <1>5, <3>1, <3>2, <4>1, <4>4, <4>5, <4>6
      <3> QED
        BY <1>5, <3>1, <3>2
    <2> QED
      BY <2>2, <2>3
  <1>10. ASSUME NEW t \in Thread, RestoreTable(t) PROVE Same
    <2>1. call[t].at \in InTransaction
      BY <1>10 DEF RestoreTable, InTransaction, Upgrade
    <2>2. CASE Aborts("drop", t)
      BY <1>4, <2>2 DEF Aborts
    <2>3. CASE ~Aborts("drop", t)
      <3>1. PICK c, table, kept, later, d, q :
              /\ c = work[FileOf(t)] /\ Sees(t, d, q)
              /\ d \in {c, Restored(c, table, kept), RestoreStale(c, table),
                        RestoreFails(c, table, later), RestoreSkipped(c, table)}
        BY <1>10, <2>3 DEF RestoreTable, Runs, Fails
      <3>2. FileOf(t) = n => SameLists(c, d)
        BY <1>6, <2>1, <3>1, ListFreeFacts DEF SameLists
      <3> QED
        BY <1>5, <3>1, <3>2 DEF SameLists
    <2> QED
      BY <2>2, <2>3
  <1>11. ASSUME NEW t \in Thread, SweepTemps(t) \/ DropSpecifyTable(t) PROVE Same
    <2>1. call[t].at \in InTransaction
      BY <1>11 DEF SweepTemps, DropSpecifyTable, InTransaction, Upgrade
    <2>2. CASE Aborts("drop", t)
      BY <1>4, <2>2 DEF Aborts
    <2>3. CASE ~Aborts("drop", t)
      <3>1. PICK c, T, d, q : /\ c = work[FileOf(t)] /\ Sees(t, d, q)
                              /\ d \in {SweptTemps(c, T), Deleted(c, T)}
        BY <1>11, <2>3 DEF SweepTemps, DropSpecifyTable, Runs
      <3>2. FileOf(t) = n => SameLists(c, d)
        BY <1>6, <2>1, <3>1, ListFreeFacts DEF SameLists
      <3> QED
        BY <1>5, <3>1, <3>2 DEF SameLists
    <2> QED
      BY <2>2, <2>3
  <1>12. ASSUME NEW t \in Thread, Commit(t) PROVE Same
    <2>1. CASE Aborts("commit", t)
      BY <1>4, <2>1 DEF Aborts
    <2>2. CASE ~Aborts("commit", t)
      <3>1. PICK m, c : /\ m = FileOf(t) /\ c = Versioned(work[m])
                        /\ work' = [work EXCEPT ![m] = c]
        BY <1>12, <2>2 DEF Commit
      <3>2. m = n => c.astray = work[m].astray
        BY <1>1, <3>1, ContentsFields DEF Versioned
      <3> QED
        BY <1>3, <3>1, <3>2
    <2> QED
      BY <2>1, <2>2
  <1>13. ASSUME NEW t \in Thread, Begin(t) PROVE Same
    <2>1. CASE UNCHANGED work
      BY <1>2, <2>1
    <2>2. CASE ~UNCHANGED work
      <3>1. work' = [work EXCEPT ![FileOf(t)] = disk[FileOf(t)]]
        BY <1>13, <2>2 DEF Begin
      <3> QED
        BY <1>3, <3>1
    <2> QED
      BY <2>1, <2>2
  <1>14. ASSUME NEW t \in Thread, EndDoomed(t) PROVE Same
    BY <1>4, <1>14 DEF EndDoomed
  <1>15. ASSUME NEW t \in Thread, GetWritable(t) \/ MigrateSpecifyTable(t) PROVE UNCHANGED work
    BY <1>15 DEF GetWritable, MigrateSpecifyTable, files
  <1>16. ASSUME NEW t \in Thread, NEW m \in Name, GetDatabase(t, m) PROVE UNCHANGED work
    BY <1>16 DEF GetDatabase, files
  <1>17. ASSUME NEW t \in Thread, DaoStep(t) PROVE UNCHANGED work
    BY <1>17 DEF DaoStep, CreateAgain, NewInstance, Open, AssignDb, AssignCurrentDb, CloseDb,
       CloseHelper, Forget, Made, Get, Return, Insert, Done, files
  <1>18. Crash \/ UNCHANGED vars => UNCHANGED work \/ work' = disk
    BY DEF Crash, vars
  <1> QED
    BY <1>2, <1>7, <1>8, <1>9, <1>10, <1>11, <1>12, <1>13, <1>14, <1>15, <1>16, <1>17, <1>18
    DEF Next, HelperStep, Same

\* Who assigns dbName has tables to update.
LEMMA DbNameFacts ==
  ASSUME RegistryInvariant, [Next]_vars
  PROVE  dbName' \in {dbName, None} \/ (dbName' \in Name /\ HadUpdates(dbName'))
  <1>1. ASSUME NEW t \in Thread, MigrateSpecifyTable(t)
        PROVE  dbName' \in Name /\ HadUpdates(dbName')
    <2>1. PICK n : n = FileOf(t)
      OBVIOUS
    <2>2. /\ call[t].at \in InTransaction /\ call[t].at \in InHelper /\ call[t].at = "migrate"
          /\ dbName' = n
      BY <1>1, <2>1 DEF MigrateSpecifyTable, InTransaction, InHelper, Upgrade
    <2>3. /\ n \in Name /\ call[t].version = disk[n].first /\ Stage(n, call[t], work[n])
      BY <2>1, <2>2, InHelperFacts
    <2>4. Copying(n, call[t], work[n])
      BY <2>2, <2>3 DEF Stage
    <2>5. /\ call[t].version \in 1 .. New - 1
          /\ call[t].next \in 1 .. Len(Updates[n][call[t].version])
      BY <2>4 DEF Copying, InUpgrade
    <2>6. Updates[n][call[t].version] # <<>>
      BY <2>5
    <2> QED
      BY <2>2, <2>3, <2>5, <2>6 DEF HadUpdates
  <1>2. ASSUME NEW t \in Thread, NEW n \in Name, GetDatabase(t, n) PROVE UNCHANGED dbName
    BY <1>2 DEF GetDatabase, registry
  <1>3. ASSUME NEW t \in Thread, DaoStep(t) PROVE UNCHANGED dbName
    BY <1>3 DEF DaoStep, CreateAgain, NewInstance, Open, AssignDb, AssignCurrentDb, CloseDb,
       CloseHelper, Forget, Made, Get, Return, Insert, Done, registry
  <1>4. ASSUME NEW t \in Thread, HelperStep(t), ~MigrateSpecifyTable(t) PROVE UNCHANGED dbName
    BY <1>4 DEF HelperStep, GetWritable, Begin, OnCreate, EndDoomed, BuildTempTable,
       RebuildSpecifyTables, RestoreTable, SweepTemps, DropSpecifyTable, Commit,
       Aborts, Runs, Fails, Sees, registry
  <1>5. Crash \/ UNCHANGED vars => dbName' \in {dbName, None}
    BY DEF Crash, vars
  <1> QED
    BY <1>1, <1>2, <1>3, <1>4, <1>5 DEF Next

\* Both invariants hold whatever upgrades run at once.
LEMMA ListsInvariantHolds == Spec => [](DbNameInvariant /\ AstrayInvariant)
  <1> DEFINE Inv == DbNameInvariant /\ AstrayInvariant
  <1>1. Init => Inv
    <2> SUFFICES ASSUME Init PROVE Inv
      OBVIOUS
    <2>1. \A n \in Name : disk[n].astray = {} /\ work[n].astray = {}
      BY RegistryAssumption DEF Init, Found
    <2> QED
      BY <2>1 DEF Init, DbNameInvariant, AstrayInvariant
  <1>2. RegistryInvariant /\ Inv /\ [Next]_vars => Inv'
    <2> SUFFICES ASSUME RegistryInvariant, DbNameInvariant, AstrayInvariant, [Next]_vars
                 PROVE  DbNameInvariant' /\ AstrayInvariant'
      OBVIOUS
    <2>1. \A m \in Name : HadUpdates(m)' <=> HadUpdates(m)
      BY DiskFacts DEF HadUpdates
    <2>2. dbName \in Name \cup {None} /\ None \notin Name
      BY RegistryAssumption DEF RegistryInvariant, Typed
    <2>3. DbNameInvariant'
      <3>1. PICK m : m = dbName'
        OBVIOUS
      <3>2. m # None => m \in Name /\ HadUpdates(m)
        BY <2>2, <3>1, DbNameFacts DEF DbNameInvariant
      <3>3. m # None => HadUpdates(m)'
        BY <2>1, <3>2
      <3> QED
        BY <3>1, <3>3 DEF DbNameInvariant, HadUpdates
    <2>4. ASSUME NEW n \in Name, (disk[n].astray \cup work[n].astray # {})'
          PROVE  HadUpdates(n)' /\ OthersUpdate(n)'
      <3>1. HadUpdates(n) /\ OthersUpdate(n)
        <4>1. CASE dbName \in Name \ {n} /\ HadUpdates(n)
          BY <2>2, <4>1 DEF DbNameInvariant, OthersUpdate
        <4>2. CASE ~(dbName \in Name \ {n} /\ HadUpdates(n))
          <5>1. /\ disk'[n].astray \in {disk[n].astray, work[n].astray}
                /\ work'[n].astray \in {disk[n].astray, work[n].astray}
            BY <4>2, DiskFacts, WorkFacts
          <5> QED
            BY <2>4, <5>1 DEF AstrayInvariant
        <4> QED
          BY <4>1, <4>2
      <3> QED
        BY <2>1, <3>1 DEF OthersUpdate
    <2> QED
      BY <2>3, <2>4 DEF AstrayInvariant
  <1> QED
    BY <1>1, <1>2, RegistryInvariantHolds, PTL DEF Spec

\* A file has the new version only with the new tables (ModuleDatabaseHelper.kt,
\* onCreate and onUpgrade), if no temporary tables were found in it at first.  Excepted
\* are tables of whose making dbName was assigned by another upgrade, and this takes
\* another database that has tables to update.
THEOREM VersionsMeanSchemas == NoTempsAtFirst => (Spec => []VersionMeansSchema)
  <1> SUFFICES ASSUME NoTempsAtFirst PROVE Spec => []VersionMeansSchema
    OBVIOUS
  <1>1. RegistryInvariant /\ AstrayInvariant => VersionMeansSchema
    <2> SUFFICES ASSUME RegistryInvariant, AstrayInvariant PROVE VersionMeansSchema
      OBVIOUS
    <2>1. ASSUME NEW n \in Name, disk[n].astray # {} PROVE \E m \in Name \ {n} : HadUpdates(m)
      BY <2>1 DEF AstrayInvariant, OthersUpdate
    <2>2. ASSUME NEW n \in Name, NEW c, c = disk[n], c.version = New, c.first # New
          PROVE  LET v == c.first
                     own == DOMAIN CreateSqls[n]
                 IN  IF v = 0 THEN \A table \in own : HasOwnForm(c, table, n)
                     ELSE /\ \A table \in (ToSet(Updates[n][v]) \cap own) \ ToSet(Deletes[n][v]) :
                               table \in c.astray \/ HasOwnForm(c, table, n)
                          /\ TablesOf(c) \cap ToSet(Deletes[n][v]) = {}
                          /\ DOMAIN c.temps \subseteq (ToSet(Updates[n][v]) \ own) \cup c.astray
      <3>1. HasSchema(n, c)
        BY <2>2 DEF RegistryInvariant, FileOk
      <3> QED
        BY <3>1 DEF HasSchema, UpdateSet, DeleteSet, TempsWithin, Leftovers, Sound
    <2> QED
      BY <2>1, <2>2 DEF VersionMeansSchema
  <1>2. Spec => []AstrayInvariant
    BY ListsInvariantHolds, PTL
  <1> QED
    BY <1>1, <1>2, RegistryInvariantHolds, PTL

\* Database n of version v has tables to update.
UpdatesFrom(n, v) == v \in 1..(New - 1) /\ Updates[n][v] # <<>>

\* At most one database is found with tables to update.
OneUpdatesAtFirst ==
  \A first \in Firsts : \A m, n \in Name :
    UpdatesFrom(m, first[m].version) /\ UpdatesFrom(n, first[n].version) => m = n

\* Where at most one database is found with tables to update, the field that all
\* upgrades share (dbName, ModuleDBMigrationHelper.kt) does no harm: every upgrade
\* takes its own list.
THEOREM OneUpgradeTakesItsOwnList == OneUpdatesAtFirst => (Spec => []OwnListsOnly)
  <1> SUFFICES ASSUME OneUpdatesAtFirst PROVE Spec => []OwnListsOnly
    OBVIOUS
  <1> DEFINE Alone == \A m, n \in Name : HadUpdates(m) /\ HadUpdates(n) => m = n
  <1>1. Init => Alone
    <2> SUFFICES ASSUME Init, NEW m \in Name, NEW n \in Name, HadUpdates(m), HadUpdates(n)
                 PROVE  m = n
      OBVIOUS
    <2>1. disk \in Firsts /\ disk[m].first = disk[m].version /\ disk[n].first = disk[n].version
      BY RegistryAssumption DEF Init, Found
    <2> QED
      BY <2>1 DEF OneUpdatesAtFirst, UpdatesFrom, HadUpdates
  <1>2. RegistryInvariant /\ Alone /\ [Next]_vars => Alone'
    <2> SUFFICES ASSUME RegistryInvariant, Alone, [Next]_vars PROVE Alone'
      OBVIOUS
    <2>1. \A m \in Name : HadUpdates(m)' <=> HadUpdates(m)
      BY DiskFacts DEF HadUpdates
    <2> QED
      BY <2>1
  <1>3. Alone /\ AstrayInvariant => OwnListsOnly
    BY DEF AstrayInvariant, OthersUpdate, OwnListsOnly
  <1>4. Spec => []AstrayInvariant
    BY ListsInvariantHolds, PTL
  <1> HIDE DEF Alone
  <1> QED
    BY <1>1, <1>2, <1>3, <1>4, RegistryInvariantHolds, PTL DEF Spec

\* A DAO (BaseDao.getDatabase) is handed a database whose file has been created or
\* upgraded, or that a creation which failed has left empty.
THEOREM HandedDatabasesAreUpgraded == Spec => []HandedIsUpgraded
  <1>1. RegistryInvariant => HandedIsUpgraded
    BY DEF RegistryInvariant, ThreadOk, Serves, Ready, HandedIsUpgraded, FileOf
  <1> QED
    BY <1>1, RegistryInvariantHolds, PTL

-----------------------------------------------------------------------------
(* Types.                                                                  *)

\* The bounds of the model are kept to.
Bounded ==
  /\ faults \in 0..MaxFaults
  /\ calls \in [Name -> Nat] /\ \A n \in Name : calls[n] <= MaxCalls[n]

\* Who throws a fault leaves room for it, and every other step leaves both counters.
LEMMA FaultBounded ==
  ASSUME Bounded, NEW kind, Fault(kind)
  PROVE  Bounded'
  <1>1. MaxFaults \in Nat
    BY RegistryAssumption
  <1> QED
    BY <1>1 DEF Bounded, Fault

\* No step goes beyond the bounds.
LEMMA BoundsStay ==
  ASSUME Bounded, [Next]_vars
  PROVE  Bounded'
  <1>1. UNCHANGED bounds => Bounded'
    BY DEF Bounded, bounds
  <1>2. ASSUME NEW t \in Thread, NEW n \in Name, GetDatabase(t, n) PROVE Bounded'
    <2>1. MaxCalls \in [Name -> Nat]
      BY RegistryAssumption
    <2>2. /\ faults' = faults /\ calls' = [calls EXCEPT ![n] = calls[n] + 1]
          /\ calls[n] < MaxCalls[n]
      BY <1>2 DEF GetDatabase
    <2>3. calls' \in [Name -> Nat]
      BY <2>2 DEF Bounded
    <2>4. ASSUME NEW m \in Name PROVE calls'[m] <= MaxCalls[m]
      BY <2>1, <2>2 DEF Bounded
    <2> QED
      BY <2>2, <2>3, <2>4 DEF Bounded
  <1>3. ASSUME NEW t \in Thread, DaoStep(t) PROVE UNCHANGED bounds
    BY <1>3 DEF DaoStep, CreateAgain, NewInstance, Open, AssignDb, AssignCurrentDb, CloseDb,
       CloseHelper, Forget, Made, Get, Return, Insert, Done
  <1>4. ASSUME NEW t \in Thread, HelperStep(t)
        PROVE  UNCHANGED bounds \/ \E kind \in Faults : Fault(kind)
    BY <1>4 DEF HelperStep, GetWritable, Begin, OnCreate, EndDoomed, MigrateSpecifyTable,
       BuildTempTable, RebuildSpecifyTables, RestoreTable, SweepTemps, DropSpecifyTable, Commit, Aborts,
       Runs, Fails, Fault
  <1>5. Crash => Fault("crash")
    BY DEF Crash
  <1>6. UNCHANGED vars => UNCHANGED bounds
    BY DEF vars, bounds
  <1> QED
    BY <1>1, <1>2, <1>3, <1>4, <1>5, <1>6, FaultBounded DEF Next

\* Every variable of the registry keeps its type, the counters of the bounds included.
THEOREM RegistryTypesHold == Spec => []TypeOK
  <1>1. Init => Bounded
    BY RegistryAssumption DEF Init, Bounded
  <1>2. Bounded /\ [Next]_vars => Bounded'
    BY BoundsStay
  <1>3. RegistryInvariant /\ Bounded => TypeOK
    <2> SUFFICES ASSUME RegistryInvariant, Bounded PROVE TypeOK
      OBVIOUS
    <2>1. Typed /\ \A t \in Thread : call[t].at \in {"idle"} \cup Registry \cup InHelper
      BY DEF RegistryInvariant, Typed, CallRecord
    <2>2. \A n \in Name : calls[n] \in 0..MaxCalls[n]
      BY RegistryAssumption DEF Bounded
    <2> QED
      BY <2>1, <2>2 DEF TypeOK, Typed, Bounded
  <1> QED
    BY <1>1, <1>2, <1>3, RegistryInvariantHolds, PTL DEF Spec
=============================================================================
