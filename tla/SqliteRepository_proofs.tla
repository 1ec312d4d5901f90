------------------------ MODULE SqliteRepository_proofs ------------------------
(***************************************************************************)
(* Proofs about the repository, for any number of processes that migrate,  *)
(* write, sweep and die at once: the version of the file is that of its    *)
(* schema, and the tables kept by key are the port's.                      *)
(***************************************************************************)
EXTENDS SqliteRepository, TLAPS

States == {"down", "migrating", "up", "pruning", "sweeping"}

ProcTypeOK == DOMAIN proc = Processes /\ \A p \in Processes : proc[p].at \in States

(* What a process has left to migrate is all that follows some version     *)
(* that has been reached.                                                  *)
TodoIsSuffix ==
  \A p \in Processes : proc[p].at = "migrating" =>
    \E n \in {0, 1} : n <= user_version /\ proc[p].todo = (n + 1) .. 2

VersionInv == ProcTypeOK /\ user_version \in 0 .. 2 /\ TodoIsSuffix /\ SchemaIsVersioned

-----------------------------------------------------------------------------
(* The two migrations, and the three schemas they lead through.            *)
LEMMA TwoMigrations == Versions = {1, 2} /\ Len(migrations) = 2
  BY DEF Versions, migrations

LEMMA SchemaOf ==
  /\ UNION {migrations[v] : v \in 1 .. 0} = {}
  /\ UNION {migrations[v] : v \in 1 .. 1} = migrations[1]
  /\ UNION {migrations[v] : v \in 1 .. 2} = migrations[1] \union migrations[2]
<1>1. 1 .. 0 = {} /\ 1 .. 1 = {1} /\ 1 .. 2 = {1, 2}
  OBVIOUS
<1> QED BY <1>1

LEMMA MigrationsApart ==
  /\ migrations[1] \intersect migrations[2] = {}
  /\ migrations[1] # {} /\ migrations[2] # {}
  BY DEF migrations

(* A migration applies to the schema just before it, and to no later one.  *)
LEMMA AppliesOnce ==
  ASSUME VersionInv, NEW n \in {0, 1}, n <= user_version, Applies(n + 1)
  PROVE  user_version = n
<1> USE DEF VersionInv
<1>1. CASE n = 0
  <2>1. user_version \in {1, 2} => migrations[1] \subseteq schema
    BY SchemaOf DEF SchemaIsVersioned
  <2> QED BY <1>1, <2>1, MigrationsApart DEF Applies
<1>2. CASE n = 1
  <2>1. user_version = 2 => migrations[2] \subseteq schema
    BY SchemaOf DEF SchemaIsVersioned
  <2> QED BY <1>2, <2>1, MigrationsApart DEF Applies
<1> QED BY <1>1, <1>2

(* One migration with its version.                                         *)
LEMMA MigrateKeeps ==
  ASSUME VersionInv, NEW p \in Processes, Migrate(p)
  PROVE  VersionInv'
<1> USE DEF VersionInv
<1> DEFINE version == CHOOSE v \in proc[p].todo : \A w \in proc[p].todo : v <= w
           left    == proc[p].todo \ {version}
<1>1. PICK n \in {0, 1} : n <= user_version /\ proc[p].todo = (n + 1) .. 2
  BY DEF Migrate, TodoIsSuffix
<1>2. version = n + 1
  BY <1>1
<1>3. left = (n + 2) .. 2
  BY <1>1, <1>2
<1> HIDE DEF version, left
<1>4. CASE Applies(n + 1)
  <2>1. user_version = n
    BY <1>1, <1>4, AppliesOnce
  <2>2. /\ schema' = schema \union migrations[n + 1]
        /\ user_version' = n + 1
        /\ proc' = [proc EXCEPT ![p] = IF left = {} THEN Up ELSE [at |-> "migrating", todo |-> left]]
    BY <1>2, <1>4 DEF Migrate, version, left
  <2>3. left = {} <=> n = 1
    BY <1>3
  <2>4. schema' = UNION {migrations[v] : v \in 1 .. user_version'}
    <3>1. CASE n = 0
      BY <2>1, <2>2, <3>1, SchemaOf DEF SchemaIsVersioned
    <3>2. CASE n = 1
      BY <2>1, <2>2, <3>2, SchemaOf DEF SchemaIsVersioned
    <3> QED BY <3>1, <3>2
  <2>5. ProcTypeOK'
    BY <1>3, <2>2 DEF ProcTypeOK, Up, States
  <2>6. TodoIsSuffix'
    <3> SUFFICES ASSUME NEW q \in Processes, proc'[q].at = "migrating"
                 PROVE  \E m \in {0, 1} : m <= user_version' /\ proc'[q].todo = (m + 1) .. 2
      BY DEF TodoIsSuffix
    <3>1. CASE q = p
      <4>1. n = 0 /\ proc'[q].todo = 2 .. 2
        BY <1>3, <2>2, <2>3, <3>1 DEF ProcTypeOK, Up
      <4> QED BY <2>2, <4>1
    <3>2. CASE q # p
      <4>1. proc'[q] = proc[q]
        BY <2>2, <3>2 DEF ProcTypeOK
      <4>2. PICK m \in {0, 1} : m <= user_version /\ proc[q].todo = (m + 1) .. 2
        BY <4>1 DEF TodoIsSuffix
      <4> QED BY <2>1, <2>2, <4>1, <4>2
    <3> QED BY <3>1, <3>2
  <2>7. ASSUME NEW q \in Processes, proc'[q].at \notin {"down", "migrating"}
        PROVE  user_version' = Len(migrations)
    <3>1. CASE q = p
      BY <2>2, <2>3, <2>7, <3>1, TwoMigrations DEF ProcTypeOK
    <3>2. CASE q # p
      <4>1. proc'[q] = proc[q]
        BY <2>2, <3>2 DEF ProcTypeOK
      <4> QED BY <2>1, <2>7, <4>1, TwoMigrations DEF SchemaIsVersioned
    <3> QED BY <3>1, <3>2
  <2> QED BY <2>2, <2>4, <2>5, <2>6, <2>7 DEF SchemaIsVersioned
<1>5. CASE ~Applies(n + 1)
  <2>1. proc' = [proc EXCEPT ![p] = Down] /\ UNCHANGED <<schema, user_version>>
    BY <1>2, <1>5 DEF Migrate, version
  <2> QED BY <2>1 DEF ProcTypeOK, Down, States, TodoIsSuffix, SchemaIsVersioned
<1> QED BY <1>4, <1>5

(* A process opens the file, dies, or begins or ends a deletion.           *)
LEMMA ProcessKeeps ==
  ASSUME VersionInv, NEW p \in Processes,
         \/ openDb(p) \/ Exit(p)
         \/ beginPrune(p) \/ endPrune(p) \/ beginSweep(p) \/ endSweep(p)
  PROVE  VersionInv'
<1> USE DEF VersionInv
<1>1. UNCHANGED <<user_version, schema>>
  BY DEF openDb, Exit, beginPrune, endPrune, beginSweep, endSweep, fileVars
<1>2. CASE openDb(p)
  <2> DEFINE pending == {v \in Versions : v > user_version}
  <2>1. proc' = [proc EXCEPT ![p] = IF pending = {} THEN Up ELSE [at |-> "migrating", todo |-> pending]]
    BY <1>2 DEF openDb
  <2>2. pending = (user_version + 1) .. 2
    <3>1. pending = {v \in {1, 2} : v > user_version}
      BY TwoMigrations
    <3>2. user_version = 0 \/ user_version = 1 \/ user_version = 2
      OBVIOUS
    <3> HIDE DEF pending
    <3> QED BY <3>1, <3>2
  <2>3. pending = {} <=> user_version = 2
    <3>1. user_version # 2 => 2 \in (user_version + 1) .. 2
      OBVIOUS
    <3>2. user_version = 2 => (user_version + 1) .. 2 = {}
      OBVIOUS
    <3> HIDE DEF pending
    <3> QED BY <2>2, <3>1, <3>2
  <2>4. ProcTypeOK'
    BY <2>1, <2>2 DEF ProcTypeOK, Up, States
  <2> HIDE DEF pending
  <2>5. TodoIsSuffix'
    <3> SUFFICES ASSUME NEW q \in Processes, proc'[q].at = "migrating"
                 PROVE  \E m \in {0, 1} : m <= user_version' /\ proc'[q].todo = (m + 1) .. 2
      BY DEF TodoIsSuffix
    <3>1. CASE q = p
      <4>1. user_version \in {0, 1} /\ proc'[q].todo = pending
        BY <2>1, <2>3, <3>1 DEF ProcTypeOK, Up
      <4> QED BY <1>1, <2>2, <4>1
    <3>2. CASE q # p
      BY <1>1, <2>1, <3>2 DEF ProcTypeOK, TodoIsSuffix
    <3> QED BY <3>1, <3>2
  <2>6. SchemaIsVersioned'
    BY <1>1, <2>1, <2>3, TwoMigrations DEF ProcTypeOK, SchemaIsVersioned
  <2> QED BY <1>1, <2>4, <2>5, <2>6
<1>3. CASE Exit(p)
  <2>1. proc' = [proc EXCEPT ![p] = Down]
    BY <1>3 DEF Exit
  <2> QED BY <1>1, <2>1 DEF ProcTypeOK, Down, States, TodoIsSuffix, SchemaIsVersioned
<1>4. CASE beginPrune(p) \/ endPrune(p) \/ beginSweep(p) \/ endSweep(p)
  <2>1. PICK where \in {"up", "pruning", "sweeping"} : \E todo :
          proc' = [proc EXCEPT ![p] = [at |-> where, todo |-> todo]]
    BY <1>4 DEF beginPrune, endPrune, beginSweep, endSweep, Up
  <2>2. proc[p].at \in {"up", "pruning", "sweeping"}
    BY <1>4 DEF beginPrune, endPrune, beginSweep, endSweep, Up
  <2>3. user_version = 2
    BY <2>2, TwoMigrations DEF SchemaIsVersioned
  <2> QED BY <1>1, <2>1, <2>3, TwoMigrations
      DEF ProcTypeOK, States, TodoIsSuffix, SchemaIsVersioned
<1> QED BY <1>2, <1>3, <1>4

(* A statement on a table, or the clock.                                   *)
StatementStep ==
  \/ \E watch \in Watches : createWatch(watch) \/ updateWatch(watch)
  \/ \E id \in Ids : removeWatch(id) \/ getWatch(id)
  \/ listWatches
  \/ \E s \in Sessions : putSession(s)
  \/ \E provider \in ProviderName : getSession(provider)
  \/ \E e \in Entries : putPrefs(e) \/ getPrefs(e)
  \/ \E e \in Events : recordActivity(e)
  \/ \E type \in {NULL} \union {e.type : e \in Events}, limit \in Limits : recentActivity(type, limit)
  \/ \E e \in Drops : recordDrop(e)
  \/ \E venue \in Venues : stats(venue)
  \/ \E key \in Names : upsertSeen(key, Absent) \/ upsertSeen(key, now) \/ getSeen(key)
  \/ \E seenBefore \in {now - 1, now} : markAbsent(seenBefore)
  \/ Tick

ProcessStep(p) ==
  openDb(p) \/ Exit(p) \/ beginPrune(p) \/ endPrune(p) \/ beginSweep(p) \/ endSweep(p)

LEMMA StepsAre == Next <=> StatementStep \/ \E p \in Processes : Migrate(p) \/ ProcessStep(p)
  BY DEF Next, StatementStep, ProcessStep

LEMMA StatementKeeps ==
  ASSUME StatementStep
  PROVE  UNCHANGED <<use, user_version, schema, proc>>
  BY DEF StatementStep, createWatch, updateWatch, removeWatch, getWatch, listWatches, putSession,
     getSession, putPrefs, getPrefs, recordActivity, recentActivity, recordDrop, stats, upsertSeen,
     getSeen, markAbsent, Tick, Writes, Reads, fileVars

LEMMA VersionInit == Init => VersionInv
<1> SUFFICES ASSUME Init PROVE VersionInv
  OBVIOUS
<1>1. \A p \in Processes : proc[p].at = "down"
  BY DEF Init, Down
<1>2. schema = UNION {migrations[v] : v \in 1 .. user_version}
  BY SchemaOf DEF Init
<1> QED BY <1>1, <1>2 DEF Init, VersionInv, ProcTypeOK, States, TodoIsSuffix, SchemaIsVersioned

LEMMA VersionKeeps ==
  ASSUME VersionInv, [Next]_vars
  PROVE  VersionInv'
<1>1. CASE UNCHANGED <<user_version, schema, proc>>
  BY <1>1 DEF VersionInv, ProcTypeOK, TodoIsSuffix, SchemaIsVersioned
<1>2. CASE UNCHANGED vars
  BY <1>1, <1>2 DEF vars, fileVars
<1>3. CASE Next
  BY <1>1, <1>3, StepsAre, StatementKeeps, MigrateKeeps, ProcessKeeps DEF ProcessStep
<1> QED BY <1>2, <1>3

LEMMA VersionInvariant == Spec => []VersionInv
  BY VersionInit, VersionKeeps, PTL DEF Spec

(* "Safe to call on every startup": however many processes migrate at once *)
(* or die on the way, the version recorded in the file is that of its      *)
(* schema, and whoever is up has the whole of it.                          *)
THEOREM VersionIsOfSchema == Spec => []SchemaIsVersioned
<1>1. VersionInv => SchemaIsVersioned
  BY DEF VersionInv
<1> QED BY <1>1, VersionInvariant, PTL

-----------------------------------------------------------------------------
(* The seen table: what its rows are, and that nobody prunes it.           *)
SeenTypeOK ==
  /\ now \in Time
  /\ DOMAIN rows \subseteq Names
  /\ \A k \in DOMAIN rows :
       /\ rows[k].last_seen_at \in Time
       /\ DOMAIN rows[k] = {"key", "last_seen_at", "disappeared_at"}
  /\ \A p \in Processes : proc[p].at # "pruning"

SweepInv == ProcTypeOK /\ (use = "seen" => SeenTypeOK)

(* The statements on the seen table.                                       *)
LEMMA UpsertKeepsSweep ==
  ASSUME SweepInv, use = "seen", NEW key \in Names, NEW STATE gone, upsertSeen(key, gone)
  PROVE  SweepInv'
<1> USE DEF SweepInv
<1>1. rows' = Put(rows, key, [key |-> key, last_seen_at |-> now, disappeared_at |-> Nullable(gone)])
  BY DEF upsertSeen
<1>2. UNCHANGED <<use, proc, now>>
  BY DEF upsertSeen
<1>3. SeenTypeOK'
  BY <1>1, <1>2 DEF SeenTypeOK, Put
<1> QED BY <1>2, <1>3 DEF ProcTypeOK

LEMMA MarkKeepsSweep ==
  ASSUME SweepInv, use = "seen", NEW before, markAbsent(before)
  PROVE  SweepInv'
<1> USE DEF SweepInv
<1>1. rows' = [k \in DOMAIN rows |->
         IF rows[k].last_seen_at < before /\ rows[k].disappeared_at = NULL
         THEN [rows[k] EXCEPT !.disappeared_at = now] ELSE rows[k]]
  BY DEF markAbsent, Writes
<1>2. UNCHANGED <<use, proc, now>>
  BY DEF markAbsent, Writes
<1>3. DOMAIN rows' = DOMAIN rows
  BY <1>1
<1>4. ASSUME NEW k \in DOMAIN rows
      PROVE  /\ rows'[k].last_seen_at = rows[k].last_seen_at
             /\ DOMAIN rows'[k] = DOMAIN rows[k]
  <2>1. rows'[k] \in {rows[k], [rows[k] EXCEPT !.disappeared_at = now]}
    BY <1>1
  <2>2. "last_seen_at" \in DOMAIN rows[k]
    BY DEF SeenTypeOK
  <2> QED BY <2>1, <2>2
<1>5. SeenTypeOK'
  BY <1>2, <1>3, <1>4 DEF SeenTypeOK
<1> QED BY <1>2, <1>5 DEF ProcTypeOK

(* A sweep chooses what is old, and deletes what it chose; a process dies. *)
LEMMA ProcessKeepsSweep ==
  ASSUME SweepInv, use = "seen", NEW p \in Processes, Migrate(p) \/ ProcessStep(p)
  PROVE  SweepInv'
<1> USE DEF SweepInv
<1>1. CASE openDb(p) \/ Migrate(p)
  <2>1. PICK where \in {"up", "migrating", "down"} : \E todo : proc' = [proc EXCEPT ![p] = [at |-> where, todo |-> todo]]
    <3>1. CASE openDb(p)
      BY <3>1 DEF openDb, Up
    <3>2. CASE Migrate(p)
      BY <3>2 DEF Migrate, Up, Down
    <3> QED BY <1>1, <3>1, <3>2
  <2>2. UNCHANGED <<use, rows, now>>
    BY <1>1 DEF openDb, Migrate, fileVars
  <2> QED BY <2>1, <2>2 DEF ProcTypeOK, States, SeenTypeOK
<1>2. CASE Exit(p)
  <2>1. proc' = [proc EXCEPT ![p] = Down] /\ UNCHANGED <<use, rows, now>>
    BY <1>2 DEF Exit, fileVars
  <2> QED BY <2>1 DEF Down, ProcTypeOK, States, SeenTypeOK
<1>3. CASE beginSweep(p)
  <2> DEFINE stale == {k \in DOMAIN rows : rows[k].last_seen_at < now - Retention \/ Past(k)}
  <2>1. proc' = [proc EXCEPT ![p] = [at |-> "sweeping", todo |-> stale]]
    BY <1>3 DEF beginSweep
  <2>2. UNCHANGED <<use, rows, now>>
    BY <1>3 DEF beginSweep, fileVars
  <2> QED BY <2>1, <2>2 DEF ProcTypeOK, States, SeenTypeOK
<1>4. CASE endSweep(p)
  <2>1. /\ rows' = Without(rows, proc[p].todo)
        /\ proc' = [proc EXCEPT ![p] = Up]
        /\ UNCHANGED <<use, now>>
    BY <1>4 DEF endSweep
  <2>3. /\ DOMAIN rows' \subseteq DOMAIN rows
        /\ \A k \in DOMAIN rows' : rows'[k] = rows[k]
    BY <2>1 DEF Without
  <2> QED BY <2>1, <2>3 DEF Up, ProcTypeOK, States, SeenTypeOK
<1>5. ~(beginPrune(p) \/ endPrune(p))
  BY DEF beginPrune, endPrune, SeenTypeOK
<1> QED BY <1>1, <1>2, <1>3, <1>4, <1>5 DEF ProcessStep

(* The other statements on the table read it; no other table is in use.    *)
LEMMA StatementKeepsSweep ==
  ASSUME SweepInv, use = "seen", StatementStep
  PROVE  SweepInv'
<1> USE DEF SweepInv
<1>1. CASE \E key \in Names : upsertSeen(key, Absent) \/ upsertSeen(key, now)
  BY <1>1, UpsertKeepsSweep
<1>2. CASE \E before \in {now - 1, now} : markAbsent(before)
  BY <1>2, MarkKeepsSweep
<1>3. CASE \E key \in Names : getSeen(key)
  <2>1. UNCHANGED <<use, rows, proc, now>>
    BY <1>3 DEF getSeen, Reads, fileVars
  <2> QED BY <2>1 DEF ProcTypeOK, SeenTypeOK
<1>4. CASE Tick
  <2>1. now' = now + 1 /\ now < MaxTime /\ UNCHANGED <<use, rows, proc>>
    BY <1>4 DEF Tick, fileVars
  <2>2. SeenTypeOK'
    BY <2>1, TypeConstants DEF SeenTypeOK, Time
  <2> QED BY <2>1, <2>2 DEF ProcTypeOK
<1> QED
  BY <1>1, <1>2, <1>3, <1>4
  DEF StatementStep, createWatch, updateWatch, removeWatch, getWatch, listWatches, putSession,
      getSession, putPrefs, getPrefs, recordActivity, recentActivity, recordDrop, stats,
      Writes, Reads, Statement

(* "use" never changes, and only a behaviour about the seen table matters. *)
LEMMA UseIsFixed ==
  ASSUME [Next]_vars
  PROVE  use' = use
<1>1. CASE Next
  BY <1>1, StepsAre, StatementKeeps
  DEF ProcessStep, openDb, Migrate, Exit, beginPrune, endPrune, beginSweep, endSweep
<1> QED BY <1>1 DEF vars

LEMMA DomainKept ==
  ASSUME ProcTypeOK, [Next]_vars
  PROVE  ProcTypeOK'
<1>1. CASE UNCHANGED proc
  BY <1>1 DEF ProcTypeOK
<1>2. ASSUME NEW p \in Processes, Migrate(p) \/ ProcessStep(p)
      PROVE  ProcTypeOK'
  <2>1. PICK where \in States : \E todo : proc' = [proc EXCEPT ![p] = [at |-> where, todo |-> todo]]
    BY <1>2
    DEF ProcessStep, openDb, Migrate, Exit, beginPrune, endPrune, beginSweep, endSweep, Up, Down, States
  <2> QED BY <2>1 DEF ProcTypeOK
<1> QED BY <1>1, <1>2, StepsAre, StatementKeeps DEF vars

LEMMA SweepInit == Init => SweepInv
<1> SUFFICES ASSUME Init PROVE SweepInv
  OBVIOUS
<1>1. \A p \in Processes : proc[p].at = "down"
  BY DEF Init, Down
<1>2. 0 \in Time
  BY TypeConstants DEF Time
<1>3. DOMAIN rows = {}
  BY DEF Init
<1> QED BY <1>1, <1>2, <1>3 DEF Init, SweepInv, ProcTypeOK, States, SeenTypeOK

LEMMA SweepKeeps ==
  ASSUME SweepInv, [Next]_vars
  PROVE  SweepInv'
<1>1. CASE use # "seen"
  BY <1>1, UseIsFixed, DomainKept DEF SweepInv
<1>2. CASE use = "seen" /\ UNCHANGED vars
  BY <1>2 DEF vars, fileVars, SweepInv, ProcTypeOK, SeenTypeOK
<1>3. CASE use = "seen" /\ Next
  BY <1>3, StepsAre, StatementKeepsSweep, ProcessKeepsSweep
<1> QED BY <1>1, <1>2, <1>3

-----------------------------------------------------------------------------
(* The tables that are kept by key implement the port.  (The logs have     *)
(* answers that are sorted or counted, which is for the model checker.)    *)
ByKey == Uses \subseteq {"watches", "sessions", "seat_prefs", "seen"}

(* A date range comes back in the form it was given in.                    *)
LEMMA RangeComesBack ==
  ASSUME NEW range \in DateRange,
         NEW row, LET columns == splitDateRange(range) IN
           /\ row.date_range_start = columns.start /\ row.date_range_end = columns.end
           /\ row.date_range_rolling_days = columns.rollingDays
  PROVE  toDateRange(row) = range
<1>1. CASE range \in [start : Time, end : Time]
  <2>1. "rollingDays" \notin DOMAIN range /\ range = [start |-> range.start, end |-> range.end]
    BY <1>1
  <2> QED BY <2>1 DEF splitDateRange, toDateRange
<1>2. CASE range \in [rollingDays : Nat \ {0}]
  <2>1. "rollingDays" \in DOMAIN range /\ range = [rollingDays |-> range.rollingDays] /\ range.rollingDays \in Nat
    BY <1>2
  <2>2. row.date_range_rolling_days = range.rollingDays
    BY <2>1 DEF splitDateRange
  <2> QED BY <2>1, <2>2, NullIsNoValue DEF toDateRange
<1> QED BY <1>1, <1>2 DEF DateRange

(* So does what is absent, as absent, and what is not, as it was.          *)
LEMMA JsonComesBack ==
  ASSUME NEW value \in Optional(Names) \union Optional(SUBSET Names) \union Optional(SeatingPreference)
  PROVE  fromJson(toJson(value)) = value
<1>1. CASE value = Absent
  BY <1>1 DEF fromJson, toJson
<1>2. CASE value # Absent
  <2>1. value \in Names \union (SUBSET Names) \union SeatingPreference
    BY <1>2 DEF Optional
  <2>2. [json |-> value] # NULL
    BY <2>1, NullIsNoValue
  <2> QED BY <1>2, <2>2 DEF fromJson, toJson
<1> QED BY <1>1, <1>2

LEMMA ColumnComesBack ==
  ASSUME NEW value \in Optional(Names \union Nat)
  PROVE  Undefined(Nullable(value)) = value
  BY NullIsNoValue DEF Optional, Undefined, Nullable

(* A watch comes back from its row as it was stored.                       *)
LEMMA WatchComesBack ==
  ASSUME NEW watch \in Watch
  PROVE  rowToWatch(watchToParams(watch)) = watch
<1> DEFINE row == watchToParams(watch)
<1>1. /\ row.id = watch.id /\ row.provider = watch.provider /\ row.label = watch.label
      /\ row.venue_slug = Nullable(watch.slug) /\ row.item_json = toJson(watch.item)
      /\ row.tiers_json = toJson(watch.tiers) /\ row.seating_json = toJson(watch.seating)
      /\ row.autobook = (IF watch.autobook THEN 1 ELSE 0)
      /\ row.enabled = (IF watch.enabled THEN 1 ELSE 0) /\ row.created_at = watch.createdAt
  BY DEF watchToParams
<1>2. /\ row.date_range_start = splitDateRange(watch.dateRange).start
      /\ row.date_range_end = splitDateRange(watch.dateRange).end
      /\ row.date_range_rolling_days = splitDateRange(watch.dateRange).rollingDays
  BY DEF watchToParams
<1> HIDE DEF row
<1>3. /\ watch.slug \in Optional(Names \union Nat)
      /\ watch.item \in Optional(Names) /\ watch.tiers \in Optional(SUBSET Names)
      /\ watch.seating \in Optional(SeatingPreference) /\ watch.dateRange \in DateRange
      /\ watch.autobook \in BOOLEAN /\ watch.enabled \in BOOLEAN
  BY DEF Watch, Optional
<1>4. toDateRange(row) = watch.dateRange
  BY <1>2, <1>3, RangeComesBack
<1>5. /\ fromJson(row.item_json) = watch.item /\ fromJson(row.tiers_json) = watch.tiers
      /\ fromJson(row.seating_json) = watch.seating
  BY <1>1, <1>3, JsonComesBack
<1>6. Undefined(row.venue_slug) = watch.slug
  BY <1>1, <1>3, ColumnComesBack
<1>7. (row.autobook = 1) = watch.autobook /\ (row.enabled = 1) = watch.enabled
  BY <1>1, <1>3
<1>8. rowToWatch(row) =
        [id |-> watch.id, provider |-> watch.provider, label |-> watch.label, slug |-> watch.slug,
         item |-> watch.item, tiers |-> watch.tiers, seating |-> watch.seating, dateRange |-> watch.dateRange,
         autobook |-> watch.autobook, enabled |-> watch.enabled, createdAt |-> watch.createdAt]
  BY <1>1, <1>4, <1>5, <1>6, <1>7 DEF rowToWatch
<1>9. watch =
        [id |-> watch.id, provider |-> watch.provider, label |-> watch.label, slug |-> watch.slug,
         item |-> watch.item, tiers |-> watch.tiers, seating |-> watch.seating, dateRange |-> watch.dateRange,
         autobook |-> watch.autobook, enabled |-> watch.enabled, createdAt |-> watch.createdAt]
  BY DEF Watch
<1> QED BY <1>8, <1>9 DEF row

(* So do a session, but for data that was left out, and the seats drawn    *)
(* for a room.                                                             *)
Stored(s) == IF s.data = Absent THEN [s EXCEPT !.data = JsonNull] ELSE s

LEMMA SessionComesBack ==
  ASSUME NEW s \in Session,
         NEW row, row = [provider |-> s.provider, state |-> s.state,
                         data |-> [json |-> IF s.data = Absent THEN JsonNull ELSE s.data],
                         expires_at |-> Nullable(s.expiresAt), updated_at |-> s.updatedAt]
  PROVE  rowToSession(row) = Stored(s) /\ Stored(s) \in Session
<1>1. s.expiresAt \in Optional(Names \union Nat)
  BY DEF Session, Optional, Time
<1>2. Undefined(row.expires_at) = s.expiresAt
  BY <1>1, ColumnComesBack
<1>3. s = [provider |-> s.provider, state |-> s.state, data |-> s.data,
           expiresAt |-> s.expiresAt, updatedAt |-> s.updatedAt]
  BY DEF Session
<1>4. /\ row.provider = s.provider /\ row.state = s.state /\ row.updated_at = s.updatedAt
      /\ row.data.json = IF s.data = Absent THEN JsonNull ELSE s.data
  OBVIOUS
<1>5. Stored(s) = [provider |-> s.provider, state |-> s.state,
                   data |-> IF s.data = Absent THEN JsonNull ELSE s.data,
                   expiresAt |-> s.expiresAt, updatedAt |-> s.updatedAt]
  BY <1>3 DEF Stored
<1>6. Stored(s) \in Session
  BY <1>5 DEF Session
<1> QED BY <1>2, <1>4, <1>5, <1>6 DEF rowToSession

LEMMA PrefsComeBack ==
  ASSUME NEW e \in SeatPrefEntry,
         NEW row, row = [provider |-> e.provider, venue_id |-> e.venueId, layout_key |-> e.layoutKey,
                         seats |-> [json |-> e.seats]]
  PROVE  rowToPrefs(row) = e
<1>1. e = [provider |-> e.provider, venueId |-> e.venueId, layoutKey |-> e.layoutKey, seats |-> e.seats]
  BY DEF SeatPrefEntry
<1>2. row.seats.json = e.seats
  OBVIOUS
<1> QED BY <1>1, <1>2 DEF rowToPrefs

-----------------------------------------------------------------------------
(* What is known of a behaviour about one of these tables: its rows are of *)
(* their types, and nobody prunes.                                         *)
DeletesKnown ==
  \A p \in Processes :
    /\ proc[p].at # "pruning"
    /\ proc[p].at = "sweeping" => use = "seen" /\ proc[p].todo \subseteq Names

RowsTyped ==
  /\ use = "watches" => \A k \in DOMAIN rows : rowToWatch(rows[k]) \in Watch
  /\ use = "sessions" => \A k \in DOMAIN rows : rowToSession(rows[k]) \in Session
  /\ use = "seat_prefs" => \A k \in DOMAIN rows : rowToPrefs(rows[k]) \in SeatPrefEntry
  /\ use = "seen" => \A k \in DOMAIN rows : rowToEntry(rows[k]) \in SeenEntry

PortInv ==
  /\ VersionInv /\ SweepInv /\ DeletesKnown /\ RowsTyped
  /\ use \in Uses /\ now \in Time /\ lastId = 0

(* The invariant holds of an empty file.                                   *)
LEMMA PortInit == Init => PortInv
<1> SUFFICES ASSUME Init PROVE PortInv
  OBVIOUS
<1>1. VersionInv /\ SweepInv
  BY VersionInit, SweepInit
<1>2. DOMAIN rows = {} /\ 0 \in Time /\ \A p \in Processes : proc[p].at = "down"
  BY TypeConstants DEF Init, Down, Time
<1> QED BY <1>1, <1>2 DEF Init, PortInv, DeletesKnown, RowsTyped

(* The rows as a statement leaves them: one put or taken away, or one      *)
(* column set.                                                             *)
LEMMA WatchRows ==
  ASSUME PortInv, use = "watches", StatementStep
  PROVE  RowsTyped'
<1> USE DEF PortInv, RowsTyped
<1>0. use' = use
  BY StatementKeeps
<1>1. ASSUME NEW watch \in Watches, createWatch(watch) \/ updateWatch(watch) PROVE RowsTyped'
  <2>1. rowToWatch(watchToParams(watch)) \in Watch
    BY StoredConstants, WatchComesBack
  <2>2. \A k \in DOMAIN rows' : (k \in DOMAIN rows /\ rows'[k] = rows[k]) \/ rows'[k] = watchToParams(watch)
    BY <1>1 DEF createWatch, updateWatch, Writes, Put, SetColumns
  <2> QED BY <1>0, <2>1, <2>2
<1>2. ASSUME NEW id \in Ids, removeWatch(id) PROVE RowsTyped'
  <2>1. \A k \in DOMAIN rows' : k \in DOMAIN rows /\ rows'[k] = rows[k]
    BY <1>2 DEF removeWatch, Writes, Without
  <2> QED BY <1>0, <2>1
<1>3. CASE UNCHANGED rows
  BY <1>0, <1>3
<1>4. \/ \E watch \in Watches : createWatch(watch) \/ updateWatch(watch)
      \/ \E id \in Ids : removeWatch(id)
      \/ UNCHANGED rows
  BY DEF StatementStep, getWatch, listWatches, putSession, getSession, putPrefs, getPrefs, recordActivity,
         recentActivity, recordDrop, stats, upsertSeen, getSeen, markAbsent, Tick, Writes, Reads, Statement, fileVars
<1> QED BY <1>1, <1>2, <1>3, <1>4

LEMMA KeyedRows ==
  ASSUME PortInv, use \in {"sessions", "seat_prefs"}, StatementStep
  PROVE  RowsTyped'
<1> USE DEF PortInv, RowsTyped
<1>0. use' = use
  BY StatementKeeps
<1>1. ASSUME NEW s \in Sessions, putSession(s) PROVE RowsTyped'
  <2>1. PICK row : row = [provider |-> s.provider, state |-> s.state,
                          data |-> [json |-> IF s.data = Absent THEN JsonNull ELSE s.data],
                          expires_at |-> Nullable(s.expiresAt), updated_at |-> s.updatedAt]
    OBVIOUS
  <2>2. rowToSession(row) \in Session
    BY <2>1, SessionComesBack, StoredConstants
  <2>3. use = "sessions" /\ \A k \in DOMAIN rows' : (k \in DOMAIN rows /\ rows'[k] = rows[k]) \/ rows'[k] = row
    BY <1>1, <2>1 DEF putSession, Writes, Statement, Put
  <2> QED BY <1>0, <2>2, <2>3
<1>2. ASSUME NEW e \in Entries, putPrefs(e) PROVE RowsTyped'
  <2>1. PICK row : row = [provider |-> e.provider, venue_id |-> e.venueId, layout_key |-> e.layoutKey,
                          seats |-> [json |-> e.seats]]
    OBVIOUS
  <2>2. rowToPrefs(row) \in SeatPrefEntry
    BY <2>1, PrefsComeBack, StoredConstants
  <2>3. use = "seat_prefs" /\ \A k \in DOMAIN rows' : (k \in DOMAIN rows /\ rows'[k] = rows[k]) \/ rows'[k] = row
    BY <1>2, <2>1 DEF putPrefs, Writes, Statement, Put
  <2> QED BY <1>0, <2>2, <2>3
<1>3. CASE UNCHANGED rows
  BY <1>0, <1>3
<1>4. \/ \E s \in Sessions : putSession(s)
      \/ \E e \in Entries : putPrefs(e)
      \/ UNCHANGED rows
  BY DEF StatementStep, createWatch, updateWatch, removeWatch, getWatch, listWatches, getSession, getPrefs, recordActivity,
         recentActivity, recordDrop, stats, upsertSeen, getSeen, markAbsent, Tick, Writes, Reads, Statement, fileVars
<1> QED BY <1>1, <1>2, <1>3, <1>4

LEMMA SeenRows ==
  ASSUME PortInv, use = "seen", StatementStep
  PROVE  RowsTyped'
<1> USE DEF PortInv, RowsTyped
<1>0. use' = use
  BY StatementKeeps
<1>1. ASSUME NEW key \in Names, NEW STATE gone, gone \in {Absent, now}, upsertSeen(key, gone)
      PROVE  RowsTyped'
  <2>1. PICK row : row = [key |-> key, last_seen_at |-> now, disappeared_at |-> Nullable(gone)]
    OBVIOUS
  <2>2. rowToEntry(row) \in SeenEntry
    <3>1. gone \in Optional(Names \union Nat) /\ gone \in Optional(Time)
      BY <1>1, TypeConstants DEF Optional, Time
    <3>2. Undefined(row.disappeared_at) = gone
      BY <2>1, <3>1, ColumnComesBack
    <3> QED BY <2>1, <3>1, <3>2 DEF rowToEntry, SeenEntry
  <2>3. \A k \in DOMAIN rows' : (k \in DOMAIN rows /\ rows'[k] = rows[k]) \/ rows'[k] = row
    BY <1>1, <2>1 DEF upsertSeen, Put
  <2> QED BY <1>0, <2>2, <2>3
<1>2. ASSUME NEW before, markAbsent(before)
      PROVE  RowsTyped'
  <2>1. rows' = [k \in DOMAIN rows |-> IF rows[k].last_seen_at < before /\ rows[k].disappeared_at = NULL
                                       THEN [rows[k] EXCEPT !.disappeared_at = now] ELSE rows[k]]
    BY <1>2 DEF markAbsent, Writes
  <2>2. ASSUME NEW k \in DOMAIN rows PROVE rowToEntry(rows'[k]) \in SeenEntry
    <3>1. CASE rows'[k] = rows[k]
      BY <3>1
    <3>2. CASE rows'[k] = [rows[k] EXCEPT !.disappeared_at = now]
      <4>1. DOMAIN rows[k] = {"key", "last_seen_at", "disappeared_at"}
        BY DEF SweepInv, SeenTypeOK
      <4>2. /\ rows'[k].key = rows[k].key /\ rows'[k].last_seen_at = rows[k].last_seen_at
            /\ rows'[k].disappeared_at = now
        BY <3>2, <4>1
      <4>3. rows[k].key \in Names /\ rows[k].last_seen_at \in Time
        <5>1. rowToEntry(rows[k]) \in SeenEntry
          OBVIOUS
        <5> QED BY <5>1 DEF rowToEntry, SeenEntry
      <4>4. Undefined(now) = now /\ now \in Optional(Time)
        BY NullIsNoValue, TypeConstants DEF Undefined, Optional, Time
      <4> QED BY <4>2, <4>3, <4>4 DEF rowToEntry, SeenEntry
    <3> QED BY <2>1, <3>1, <3>2
  <2>3. DOMAIN rows' = DOMAIN rows
    BY <2>1
  <2> QED BY <1>0, <2>1, <2>2, <2>3
<1>3. CASE UNCHANGED rows
  BY <1>0, <1>3
<1>4. \/ \E key \in Names : upsertSeen(key, Absent) \/ upsertSeen(key, now)
      \/ \E before \in {now - 1, now} : markAbsent(before)
      \/ UNCHANGED rows
  BY DEF StatementStep, createWatch, updateWatch, removeWatch, getWatch, listWatches, putSession, getSession, putPrefs,
         getPrefs, recordActivity, recentActivity, recordDrop, stats, getSeen, Tick, Writes, Reads, Statement, fileVars
<1> QED BY <1>1, <1>2, <1>3, <1>4

(* Every step keeps what is known.                                         *)
LEMMA DeletesStayKnown ==
  ASSUME ByKey, PortInv, [Next]_vars
  PROVE  DeletesKnown'
<1> USE DEF PortInv, VersionInv, ProcTypeOK
<1>0. use' = use
  BY UseIsFixed
<1>1. CASE UNCHANGED proc
  BY <1>0, <1>1 DEF DeletesKnown
<1>2. ASSUME NEW p \in Processes, Migrate(p) \/ ProcessStep(p)
      PROVE  DeletesKnown'
  <2>1. ~beginPrune(p)
    BY DEF beginPrune, ByKey
  <2>2. CASE beginSweep(p)
    <3>1. PICK stale \in SUBSET DOMAIN rows : proc' = [proc EXCEPT ![p] = [at |-> "sweeping", todo |-> stale]]
      BY <2>2 DEF beginSweep
    <3>2. use = "seen" /\ stale \subseteq Names
      BY <2>2, <3>1 DEF beginSweep, SweepInv, SeenTypeOK
    <3> QED BY <1>0, <3>1, <3>2 DEF DeletesKnown
  <2>3. CASE ~beginSweep(p)
    <3>1. PICK where \in {"up", "down", "migrating"} : \E todo : proc' = [proc EXCEPT ![p] = [at |-> where, todo |-> todo]]
      BY <1>2, <2>1, <2>3 DEF ProcessStep, openDb, Migrate, Exit, endPrune, endSweep, Up, Down
    <3> QED BY <1>0, <3>1 DEF DeletesKnown
  <2> QED BY <2>2, <2>3
<1> QED BY <1>1, <1>2, StepsAre, StatementKeeps DEF vars

LEMMA PortKeeps ==
  ASSUME ByKey, PortInv, [Next]_vars
  PROVE  PortInv'
<1>1. VersionInv' /\ SweepInv' /\ DeletesKnown'
  BY VersionKeeps, SweepKeeps, DeletesStayKnown DEF PortInv
<1>2. use' = use
  BY UseIsFixed
<1>3. CASE UNCHANGED vars
  BY <1>1, <1>3 DEF vars, fileVars, PortInv, RowsTyped
<1>4. CASE StatementStep
  <2>1. RowsTyped'
    BY <1>4, WatchRows, KeyedRows, SeenRows, SqliteConstants DEF ByKey, PortInv
  <2>2. now' \in Time
    <3>1. now' = now \/ (now < MaxTime /\ now' = now + 1)
      BY <1>4
      DEF StatementStep, createWatch, updateWatch, removeWatch, getWatch, listWatches, putSession, getSession, putPrefs,
          getPrefs, recordActivity, recentActivity, recordDrop, stats, upsertSeen, getSeen, markAbsent, Tick,
          Writes, Reads
    <3> QED BY <3>1, TypeConstants DEF PortInv, Time
  <2>4. lastId' = lastId
    BY <1>4
    DEF StatementStep, createWatch, updateWatch, removeWatch, getWatch, listWatches, putSession, getSession, putPrefs,
        getPrefs, recordActivity, recentActivity, recordDrop, stats, upsertSeen, getSeen, markAbsent, Tick,
        Writes, Reads, Statement, fileVars, PortInv, ByKey
  <2> QED BY <1>1, <1>2, <2>1, <2>2, <2>4 DEF PortInv
<1>5. ASSUME NEW p \in Processes, Migrate(p) \/ ProcessStep(p)
      PROVE  PortInv'
  <2>1. /\ now' = now /\ lastId' = lastId
        /\ \A k \in DOMAIN rows' : k \in DOMAIN rows /\ rows'[k] = rows[k]
    BY <1>5
    DEF PortInv, DeletesKnown, ProcessStep, openDb, Migrate, Exit, beginPrune, endPrune, beginSweep, endSweep,
        fileVars, Without
  <2>2. RowsTyped'
    BY <1>2, <2>1 DEF PortInv, RowsTyped
  <2> QED BY <1>1, <1>2, <2>1, <2>2 DEF PortInv
<1> QED BY <1>3, <1>4, <1>5, StepsAre

LEMMA PortInvariant == ByKey => (Spec => []PortInv)
<1> SUFFICES ASSUME ByKey PROVE Spec => []PortInv
  OBVIOUS
<1>1. Init => PortInv
  BY PortInit
<1>2. PortInv /\ [Next]_vars => PortInv'
  BY PortKeeps
<1> QED BY <1>1, <1>2, PTL DEF Spec

(* The types follow.                                                       *)
LEMMA PortTypes == ByKey /\ PortInv => TypeOK
<1> SUFFICES ASSUME ByKey, PortInv PROVE TypeOK
  OBVIOUS
<1> USE DEF PortInv
<1>1. user_version \in 0 .. Len(migrations) /\ schema \subseteq UNION {migrations[v] : v \in Versions}
  <2>1. 1 .. user_version \subseteq {1, 2}
    BY DEF VersionInv
  <2> QED BY <2>1, TwoMigrations DEF VersionInv, SchemaIsVersioned
<1>2. ASSUME NEW p \in Processes
      PROVE  /\ proc[p].at \in {"down", "migrating", "up", "pruning", "sweeping"}
             /\ proc[p].at = "migrating" => proc[p].todo \subseteq Versions
             /\ proc[p].at = "pruning" => proc[p].todo \subseteq Nat
             /\ proc[p].at = "sweeping" => proc[p].todo \subseteq Names
  <2>1. proc[p].at \in States
    BY DEF VersionInv, ProcTypeOK
  <2>2. proc[p].at = "migrating" => proc[p].todo \subseteq {1, 2}
    BY DEF VersionInv, TodoIsSuffix
  <2> QED BY <2>1, <2>2, TwoMigrations DEF States, DeletesKnown
<1>3. CASE use # "seen" \/ use = "seen"
  BY <1>1, <1>2, SqliteConstants DEF TypeOK, RowsTyped, ByKey
<1> QED BY <1>3

-----------------------------------------------------------------------------
(* What the port sees of the file, table by table.                         *)
portTables == <<Forms("watches", rowToWatch), Forms("sessions", rowToSession), Forms("seat_prefs", rowToPrefs),
                Forms("activity", rowToEvent), Forms("droplog", DropForm)>>
portAnswer == IF use = "seen" THEN Absent ELSE answer

(* What leaves the rows alone, and says nothing, is the port's rest.       *)
LEMMA RestIsRest ==
  ASSUME PortInv, use' = use, UNCHANGED rows \/ use = "seen", answer' = Absent \/ use = "seen"
  PROVE  Port!Next \/ UNCHANGED Port!portVars
<1>1. UNCHANGED portTables /\ (portAnswer' = Absent)
  BY DEF portTables, portAnswer, Forms
<1>2. Port!Answered
  BY <1>1 DEF Port!Answered, portTables, portAnswer
<1> QED BY <1>2 DEF Port!Next

(* The statements on a table are the port's calls on what it holds.        *)
LEMMA TableOfWatches ==
  ASSUME PortInv, use = "watches", StatementStep
  PROVE  Port!Next \/ UNCHANGED Port!portVars
<1>0. use' = use
  BY StatementKeeps
<1>1. UNCHANGED <<Forms("sessions", rowToSession), Forms("seat_prefs", rowToPrefs),
                  Forms("activity", rowToEvent), Forms("droplog", DropForm)>>
  BY <1>0 DEF Forms
<1>2. DOMAIN Forms("watches", rowToWatch) = DOMAIN rows
  BY DEF Forms
<1>3. ASSUME NEW watch \in Watches, createWatch(watch) PROVE Port!Create(watch)
  <2>1. answer' = Absent /\ watch.id \notin DOMAIN rows /\ rows' = Put(rows, watch.id, watchToParams(watch))
    BY <1>3 DEF createWatch, Writes
  <2>2. rowToWatch(watchToParams(watch)) = watch
    BY StoredConstants, WatchComesBack
  <2>3. Forms("watches", rowToWatch)' = Put(Forms("watches", rowToWatch), watch.id, watch)
    BY <1>0, <2>1, <2>2 DEF Forms, Put
  <2> QED BY <1>0, <1>1, <1>2, <2>1, <2>3 DEF Port!Create, Port!Put, Put
<1>4. ASSUME NEW watch \in Watches, updateWatch(watch) PROVE Port!Update(watch) \/ Port!Answered
  <2>1. /\ answer' = Absent
        /\ rows' = [id \in DOMAIN rows |-> IF id = watch.id THEN watchToParams(watch) ELSE rows[id]]
    BY <1>4 DEF updateWatch, Writes, SetColumns
  <2>2. rowToWatch(watchToParams(watch)) = watch
    BY StoredConstants, WatchComesBack
  <2>3. CASE watch.id \in DOMAIN rows
    <3>1. Forms("watches", rowToWatch)' = [Forms("watches", rowToWatch) EXCEPT ![watch.id] = watch]
      BY <1>0, <2>1, <2>2 DEF Forms
    <3> QED BY <1>0, <1>1, <1>2, <2>1, <2>3, <3>1 DEF Port!Update
  <2>4. CASE watch.id \notin DOMAIN rows
    <3>1. Forms("watches", rowToWatch)' = Forms("watches", rowToWatch)
      BY <1>0, <2>1, <2>4 DEF Forms
    <3> QED BY <1>0, <1>1, <2>1, <3>1 DEF Port!Answered
  <2> QED BY <2>3, <2>4
<1>5. ASSUME NEW id \in Ids, removeWatch(id) PROVE Port!Remove(id)
  <2>1. answer' = Absent /\ rows' = Without(rows, {id})
    BY <1>5 DEF removeWatch, Writes
  <2>2. Forms("watches", rowToWatch)' = Without(Forms("watches", rowToWatch), {id})
    BY <1>0, <2>1 DEF Forms, Without
  <2> QED BY <1>0, <1>1, <2>1, <2>2 DEF Port!Remove, Port!Without, Without
<1>6. ASSUME NEW id \in Ids, getWatch(id) PROVE Port!GetOf(Forms("watches", rowToWatch), id)
  <2>1. rows' = rows /\ answer' = <<"get", IF id \in DOMAIN rows THEN rowToWatch(rows[id]) ELSE Absent>>
    BY <1>6 DEF getWatch, Reads, Row, fileVars
  <2>2. Forms("watches", rowToWatch)' = Forms("watches", rowToWatch)
    BY <1>0, <2>1 DEF Forms
  <2>3. Get(Forms("watches", rowToWatch), id) = IF id \in DOMAIN rows THEN rowToWatch(rows[id]) ELSE Absent
    BY DEF Get, Forms
  <2> QED BY <1>0, <1>1, <2>1, <2>2, <2>3 DEF Port!GetOf, Port!Answers, Port!Get, Get
<1>7. CASE listWatches
  <2> DEFINE table == Forms("watches", rowToWatch)
  <2>1. PICK order \in [1..Cardinality(DOMAIN rows) -> DOMAIN rows] :
          /\ IsInjective(order)
          /\ \A i, j \in DOMAIN order : i < j => rows[order[i]].created_at <= rows[order[j]].created_at
          /\ rows' = rows /\ answer' = <<"list", [i \in DOMAIN order |-> rowToWatch(rows[order[i]])]>>
    BY <1>7 DEF listWatches, Reads, fileVars
  <2>2. table' = table
    BY <1>0, <2>1 DEF Forms
  <2>3. \A k \in DOMAIN rows : table[k] = rowToWatch(rows[k]) /\ table[k].createdAt = rows[k].created_at
    BY DEF Forms, rowToWatch
  <2>4. /\ \A i, j \in DOMAIN order : i # j => order[i] # order[j]
        /\ \A i, j \in DOMAIN order : i < j => table[order[i]].createdAt <= table[order[j]].createdAt
    <3>1. \A i \in DOMAIN order : order[i] \in DOMAIN rows
      BY <2>1
    <3> HIDE DEF table
    <3> QED BY <2>1, <2>3, <3>1 DEF IsInjective
  <2>5. [i \in DOMAIN order |-> rowToWatch(rows[order[i]])] = [i \in DOMAIN order |-> table[order[i]]]
    BY <2>1, <2>3
  <2>6. order \in [1..Cardinality(DOMAIN table) -> DOMAIN table]
    BY <1>2
  <2>7. answer' = <<"list", [i \in DOMAIN order |-> table[order[i]]]>>
    BY <2>1, <2>5
  <2>8. Port!Answers("list", [i \in DOMAIN order |-> table[order[i]]])
    BY <1>0, <1>1, <2>2, <2>7 DEF Port!Answers
  <2>9. Port!ListWatches
    BY <2>4, <2>6, <2>8 DEF Port!ListWatches, Port!Cardinality, Cardinality
  <2> QED BY <2>9 DEF Port!Next
<1>8. \/ \E watch \in Watches : createWatch(watch) \/ updateWatch(watch)
      \/ \E id \in Ids : removeWatch(id) \/ getWatch(id)
      \/ listWatches
  BY DEF StatementStep, putSession, getSession, putPrefs, getPrefs, recordActivity,
         recentActivity, recordDrop, stats, upsertSeen, getSeen, markAbsent, Tick, Writes, Reads, Statement
<1>9. CASE \E watch \in Watches : createWatch(watch) \/ updateWatch(watch)
  BY <1>3, <1>4, <1>9 DEF Port!Next
<1>10. CASE \E id \in Ids : removeWatch(id) \/ getWatch(id)
  BY <1>5, <1>6, <1>10 DEF Port!Next
<1> QED BY <1>7, <1>8, <1>9, <1>10

LEMMA TableOfSessions ==
  ASSUME PortInv, use = "sessions", StatementStep
  PROVE  Port!Next \/ UNCHANGED Port!portVars
<1>0. use' = use
  BY StatementKeeps
<1>1. UNCHANGED <<Forms("watches", rowToWatch), Forms("seat_prefs", rowToPrefs),
                  Forms("activity", rowToEvent), Forms("droplog", DropForm)>>
  BY <1>0 DEF Forms
<1>2. ASSUME NEW s \in Sessions, putSession(s) PROVE Port!PutSession(s)
  <2>1. PICK row : row = [provider |-> s.provider, state |-> s.state,
                          data |-> [json |-> IF s.data = Absent THEN JsonNull ELSE s.data],
                          expires_at |-> Nullable(s.expiresAt), updated_at |-> s.updatedAt]
    OBVIOUS
  <2>2. answer' = Absent /\ rows' = Put(rows, s.provider, row)
    BY <1>2, <2>1 DEF putSession, Writes
  <2>3. rowToSession(row) = Stored(s)
    BY <2>1, SessionComesBack, StoredConstants
  <2>4. Forms("sessions", rowToSession)' = Put(Forms("sessions", rowToSession), s.provider, Stored(s))
    BY <1>0, <2>2, <2>3 DEF Forms, Put
  <2> QED BY <1>0, <1>1, <2>2, <2>4 DEF Port!PutSession, Port!Put, Put, Port!Stored, Stored
<1>3. ASSUME NEW p \in ProviderName, getSession(p) PROVE Port!GetOf(Forms("sessions", rowToSession), p)
  <2>1. rows' = rows /\ answer' = <<"get", IF p \in DOMAIN rows THEN rowToSession(rows[p]) ELSE Absent>>
    BY <1>3 DEF getSession, Reads, Row, fileVars
  <2>2. Forms("sessions", rowToSession)' = Forms("sessions", rowToSession)
    BY <1>0, <2>1 DEF Forms
  <2>3. Get(Forms("sessions", rowToSession), p) = IF p \in DOMAIN rows THEN rowToSession(rows[p]) ELSE Absent
    BY DEF Get, Forms
  <2> QED BY <1>0, <1>1, <2>1, <2>2, <2>3 DEF Port!GetOf, Port!Answers, Port!Get, Get
<1>4. (\E s \in Sessions : putSession(s)) \/ (\E p \in ProviderName : getSession(p))
  BY DEF StatementStep, createWatch, updateWatch, removeWatch, getWatch, listWatches, putPrefs, getPrefs, recordActivity,
         recentActivity, recordDrop, stats, upsertSeen, getSeen, markAbsent, Tick, Writes, Reads, Statement
<1> QED BY <1>2, <1>3, <1>4 DEF Port!Next

LEMMA TableOfPrefs ==
  ASSUME PortInv, use = "seat_prefs", StatementStep
  PROVE  Port!Next \/ UNCHANGED Port!portVars
<1>0. use' = use
  BY StatementKeeps
<1>1. UNCHANGED <<Forms("watches", rowToWatch), Forms("sessions", rowToSession),
                  Forms("activity", rowToEvent), Forms("droplog", DropForm)>>
  BY <1>0 DEF Forms
<1>2. ASSUME NEW e \in Entries, putPrefs(e) PROVE Port!PutPrefs(e)
  <2>1. PICK row : row = [provider |-> e.provider, venue_id |-> e.venueId, layout_key |-> e.layoutKey,
                          seats |-> [json |-> e.seats]]
    OBVIOUS
  <2>2. answer' = Absent /\ rows' = Put(rows, <<e.provider, e.venueId, e.layoutKey>>, row)
    BY <1>2, <2>1 DEF putPrefs, Writes
  <2>3. rowToPrefs(row) = e
    BY <2>1, PrefsComeBack, StoredConstants
  <2>4. Forms("seat_prefs", rowToPrefs)' = Put(Forms("seat_prefs", rowToPrefs), <<e.provider, e.venueId, e.layoutKey>>, e)
    BY <1>0, <2>2, <2>3 DEF Forms, Put
  <2> QED BY <1>0, <1>1, <2>2, <2>4 DEF Port!PutPrefs, Port!Put, Put
<1>3. ASSUME NEW e \in Entries, getPrefs(e)
      PROVE  Port!GetOf(Forms("seat_prefs", rowToPrefs), <<e.provider, e.venueId, e.layoutKey>>)
  <2>0. PICK k : k = <<e.provider, e.venueId, e.layoutKey>>
    OBVIOUS
  <2>1. rows' = rows /\ answer' = <<"get", IF k \in DOMAIN rows THEN rowToPrefs(rows[k]) ELSE Absent>>
    BY <1>3, <2>0 DEF getPrefs, Reads, Row, fileVars
  <2>2. Forms("seat_prefs", rowToPrefs)' = Forms("seat_prefs", rowToPrefs)
    BY <1>0, <2>1 DEF Forms
  <2>3. Get(Forms("seat_prefs", rowToPrefs), k) = IF k \in DOMAIN rows THEN rowToPrefs(rows[k]) ELSE Absent
    BY DEF Get, Forms
  <2> QED BY <1>0, <1>1, <2>0, <2>1, <2>2, <2>3 DEF Port!GetOf, Port!Answers, Port!Get, Get
<1>4. \E e \in Entries : putPrefs(e) \/ getPrefs(e)
  BY DEF StatementStep, createWatch, updateWatch, removeWatch, getWatch, listWatches, putSession, getSession, recordActivity,
         recentActivity, recordDrop, stats, upsertSeen, getSeen, markAbsent, Tick, Writes, Reads, Statement
<1> QED BY <1>2, <1>3, <1>4 DEF Port!Next

(* "honours the same contract", of the tables that are kept by key: every  *)
(* call, restart, migration and sweep of any number of processes on one    *)
(* file is a call of the port that takes effect at once, or nothing; what  *)
(* is stored comes back as it was, what is absent as absent (but a         *)
(* session's data, as null).                                               *)
THEOREM TablesByKeyAreThePort == ByKey => (Spec => ImplementsPort)
<1> SUFFICES ASSUME ByKey PROVE Spec => ImplementsPort
  OBVIOUS
<1>1. Init => Port!Init
  BY DEF Init, Port!Init, Forms
<1>2. ASSUME PortInv, [Next]_vars
      PROVE  Port!Next \/ UNCHANGED Port!portVars
  <2>0. use' = use /\ use \in {"watches", "sessions", "seat_prefs", "seen"}
    BY <1>2, UseIsFixed DEF PortInv, ByKey
  <2>1. CASE UNCHANGED vars
    BY <2>1 DEF vars, fileVars, Port!portVars, Forms
  <2>2. ASSUME NEW p \in Processes, Migrate(p) \/ ProcessStep(p)
        PROVE  (UNCHANGED rows \/ use = "seen") /\ answer' = Absent
    BY <1>2, <2>2
    DEF ProcessStep, openDb, Migrate, Exit, beginPrune, endPrune, beginSweep, endSweep, fileVars, PortInv, DeletesKnown
  <2>3. CASE \E p \in Processes : Migrate(p) \/ ProcessStep(p)
    BY <1>2, <2>0, <2>2, <2>3, RestIsRest
  <2>4. CASE StatementStep
    BY <1>2, <2>0, <2>4, TableOfWatches, TableOfSessions, TableOfPrefs, RestIsRest
  <2> QED BY <1>2, <2>1, <2>3, <2>4, StepsAre
<1>3. PortInv => TypeOK
  BY PortTypes
<1> QED BY <1>1, <1>2, <1>3, PortInvariant, PTL DEF Spec, ImplementsPort, Port!Spec

=============================================================================
