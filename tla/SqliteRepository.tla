-------------------------- MODULE SqliteRepository --------------------------
(***************************************************************************)
(* The repository over one SQLite file (packages/core/src/adapters/        *)
(* persistence), opened by several processes at once: the server, the CLI  *)
(* and the MCP server.  A statement, or a transaction, is a step; between  *)
(* two of them another process may take its own, and a process may die.    *)
(* The file survives.  A process begins by migrating the schema; activity. *)
(* prune and seen.sweep choose the rows they delete in a statement of      *)
(* their own.                                                              *)
(***************************************************************************)
EXTENDS RepositoryTypes, SequencesExt

CONSTANTS
  Processes, NULL,
  Uses,             \* the tables: no statement is about two, a behaviour uses one
  Retention,        \* days of activity, and of seen entries, that are kept
  ReservationOf,    \* the date in a dedupe key, or Absent for a key without one
  MaxRows           \* bound: rows of the logs

ASSUME SqliteConstants ==
  /\ Retention \in Nat /\ MaxRows \in Nat
  /\ Uses \subseteq {"watches", "sessions", "seat_prefs", "activity", "droplog", "seen"}
  /\ ReservationOf \in [Names -> Time \union {Absent}]
ASSUME NullIsNoValue ==
  /\ NULL \notin Names /\ NULL \notin Nat
  /\ NULL \notin [json : Names \union {JsonNull} \union (SUBSET Names) \union SeatingPreference]

VARIABLES
  use,            \* the table this behaviour is about
  user_version,   \* the file: its version,
  schema,         \* the tables and columns there are,
  rows,           \* the table's rows: by their key, or a log in the order of its ids
  lastId,         \* the AUTOINCREMENT counter
  proc,           \* what each process is at, and what it has left to do
  answer,         \* what the last call answered, if it was a read
  now

fileVars == <<user_version, schema, rows, lastId>>
vars == <<use, fileVars, proc, answer, now>>

Up   == [at |-> "up", todo |-> {}]
Down == [at |-> "down", todo |-> {}]

(* The schema migrations: what each version creates or adds.               *)
migrations ==
  <<{"watches", "sessions", "seen", "activity", "droplog"},
    {"watches.item_json", "watches.tiers_json", "watches.seating_json", "seat_prefs"}>>
Versions == DOMAIN migrations

-----------------------------------------------------------------------------
(* Columns.                                                                *)
toJson(value) == IF value = Absent THEN NULL ELSE [json |-> value]
fromJson(column) == IF column = NULL THEN Absent ELSE column.json
Nullable(value) == IF value = Absent THEN NULL ELSE value
Undefined(column) == IF column = NULL THEN Absent ELSE column

splitDateRange(range) ==
  IF "rollingDays" \in DOMAIN range
  THEN [start |-> NULL, end |-> NULL, rollingDays |-> range.rollingDays]
  ELSE [start |-> range.start, end |-> range.end, rollingDays |-> NULL]

toDateRange(row) ==
  IF row.date_range_rolling_days # NULL
  THEN [rollingDays |-> row.date_range_rolling_days]
  ELSE [start |-> row.date_range_start, end |-> row.date_range_end]

watchToParams(watch) ==
  LET range == splitDateRange(watch.dateRange) IN
  [id |-> watch.id, provider |-> watch.provider, label |-> watch.label, venue_slug |-> Nullable(watch.slug),
   item_json |-> toJson(watch.item), tiers_json |-> toJson(watch.tiers), seating_json |-> toJson(watch.seating),
   date_range_start |-> range.start, date_range_end |-> range.end, date_range_rolling_days |-> range.rollingDays,
   autobook |-> IF watch.autobook THEN 1 ELSE 0, enabled |-> IF watch.enabled THEN 1 ELSE 0,
   created_at |-> watch.createdAt]

rowToWatch(row) ==
  [id |-> row.id, provider |-> row.provider, label |-> row.label, slug |-> Undefined(row.venue_slug),
   item |-> fromJson(row.item_json), tiers |-> fromJson(row.tiers_json), seating |-> fromJson(row.seating_json),
   dateRange |-> toDateRange(row), autobook |-> row.autobook = 1, enabled |-> row.enabled = 1,
   createdAt |-> row.created_at]

rowToSession(row) ==
  [provider |-> row.provider, state |-> row.state, data |-> row.data.json,
   expiresAt |-> Undefined(row.expires_at), updatedAt |-> row.updated_at]

rowToPrefs(row) ==
  [provider |-> row.provider, venueId |-> row.venue_id, layoutKey |-> row.layout_key, seats |-> row.seats.json]

rowToEvent(row) == [at |-> row.at, type |-> row.type, watchId |-> Undefined(row.watch_id)]

rowToEntry(row) ==
  [key |-> row.key, lastSeenAt |-> row.last_seen_at, disappearedAt |-> Undefined(row.disappeared_at)]

-----------------------------------------------------------------------------
TypeOK ==
  /\ use \in Uses /\ now \in Time
  /\ user_version \in 0..Len(migrations) /\ schema \subseteq UNION {migrations[v] : v \in Versions}
  /\ lastId \in Nat
  /\ \A p \in Processes :
       /\ proc[p].at \in {"down", "migrating", "up", "pruning", "sweeping"}
       /\ proc[p].at = "migrating" => proc[p].todo \subseteq Versions
       /\ proc[p].at = "pruning" => proc[p].todo \subseteq Nat
       /\ proc[p].at = "sweeping" => proc[p].todo \subseteq Names
  /\ CASE use = "watches"    -> \A k \in DOMAIN rows : rowToWatch(rows[k]) \in Watch
       [] use = "sessions"   -> \A k \in DOMAIN rows : rowToSession(rows[k]) \in Session
       [] use = "seat_prefs" -> \A k \in DOMAIN rows : rowToPrefs(rows[k]) \in SeatPrefEntry
       [] use = "activity"   -> \A k \in DOMAIN rows : rows[k].id \in Nat /\ rowToEvent(rows[k]) \in ActivityEvent
       [] use = "seen"       -> \A k \in DOMAIN rows : rowToEntry(rows[k]) \in SeenEntry
       [] use = "droplog"    -> rows \in Seq([venue_id : Venues, hours_until_reservation : Int])

Init ==
  /\ use \in Uses
  /\ user_version = 0 /\ schema = {} /\ rows = <<>> /\ lastId = 0
  /\ proc = [p \in Processes |-> Down]
  /\ answer = Absent /\ now = 0

-----------------------------------------------------------------------------
(* openDb: the version is read, and with it what there is to migrate.      *)
openDb(p) ==
  /\ proc[p] = Down
  /\ LET pending == {v \in Versions : v > user_version}
     IN  proc' = [proc EXCEPT ![p] = IF pending = {} THEN Up ELSE [at |-> "migrating", todo |-> pending]]
  /\ UNCHANGED <<use, fileVars, now>> /\ answer' = Absent

(* Mutant of Applies: tables are created IF NOT EXISTS.                    *)
AppliesAnyway(version) == TRUE
Applies(version) == migrations[version] \intersect schema = {}

(* One migration and its version, in a transaction; one that another       *)
(* process has applied since throws, and the process does not come up.     *)
Migrate(p) ==
  /\ proc[p].at = "migrating"
  /\ LET version == CHOOSE v \in proc[p].todo : \A w \in proc[p].todo : v <= w
         left    == proc[p].todo \ {version}
     IN  IF Applies(version)
         THEN /\ schema' = schema \union migrations[version] /\ user_version' = version
              /\ proc' = [proc EXCEPT ![p] = IF left = {} THEN Up ELSE [at |-> "migrating", todo |-> left]]
         ELSE proc' = [proc EXCEPT ![p] = Down] /\ UNCHANGED <<schema, user_version>>
  /\ UNCHANGED <<use, rows, lastId, now>> /\ answer' = Absent

(* A process exits, or is killed.                                          *)
Exit(p) ==
  /\ proc[p] # Down
  /\ proc' = [proc EXCEPT ![p] = Down]
  /\ UNCHANGED <<use, fileVars, now>> /\ answer' = Absent

-----------------------------------------------------------------------------
(* A statement on a table, by a process that is up.                        *)
Statement(table) == use = table /\ \E p \in Processes : proc[p] = Up
Writes(table, rows2) == Statement(table) /\ rows' = rows2 /\ UNCHANGED <<use, user_version, schema, lastId, proc, now>> /\ answer' = Absent
Reads(table, call, value)  == Statement(table) /\ answer' = <<call, value>> /\ UNCHANGED <<use, fileVars, proc, now>>

(* The row under a key, in the form the port has it.                       *)
Row(key, converted) == IF key \in DOMAIN rows THEN converted ELSE Absent

createWatch(watch) == watch.id \notin DOMAIN rows /\ Writes("watches", Put(rows, watch.id, watchToParams(watch)))

SetColumns(row, params) == params

updateWatch(watch) ==
  Writes("watches", [id \in DOMAIN rows |-> IF id = watch.id THEN SetColumns(rows[id], watchToParams(watch)) ELSE rows[id]])

removeWatch(id) == Writes("watches", Without(rows, {id}))
getWatch(id) == Reads("watches", "get", Row(id, rowToWatch(rows[id])))

(* ORDER BY created_at: those created at once may come in any order.       *)
listWatches ==
  /\ Statement("watches")
  /\ \E order \in [1..Cardinality(DOMAIN rows) -> DOMAIN rows] :
       /\ IsInjective(order)
       /\ \A i, j \in DOMAIN order : i < j => rows[order[i]].created_at <= rows[order[j]].created_at
       /\ Reads("watches", "list", [i \in DOMAIN order |-> rowToWatch(rows[order[i]])])

putSession(s) ==
  Writes("sessions", Put(rows, s.provider,
    [provider |-> s.provider, state |-> s.state, data |-> [json |-> IF s.data = Absent THEN JsonNull ELSE s.data],
     expires_at |-> Nullable(s.expiresAt), updated_at |-> s.updatedAt]))
getSession(provider) == Reads("sessions", "get", Row(provider, rowToSession(rows[provider])))

putPrefs(e) ==
  Writes("seat_prefs", Put(rows, <<e.provider, e.venueId, e.layoutKey>>,
    [provider |-> e.provider, venue_id |-> e.venueId, layout_key |-> e.layoutKey, seats |-> [json |-> e.seats]]))
getPrefs(e) == Reads("seat_prefs", "get", Row(<<e.provider, e.venueId, e.layoutKey>>, rowToPrefs(rows[<<e.provider, e.venueId, e.layoutKey>>])))

-----------------------------------------------------------------------------
(* The activity log.  Ids are never given twice.                           *)
(* Mutant of NextId: one more than the greatest there is (no AUTOINCREMENT)*)
AfterGreatest == IF rows = <<>> THEN 1 ELSE Last(rows).id + 1
NextId == lastId + 1

recordActivity(e) ==
  /\ Statement("activity") /\ Len(rows) < MaxRows
  /\ e.at \in {now - 1, now}
  /\ rows' = Append(rows, [id |-> NextId, at |-> e.at, type |-> e.type, watch_id |-> Nullable(e.watchId)])
  /\ lastId' = NextId
  /\ UNCHANGED <<use, user_version, schema, proc, now>> /\ answer' = Absent

recentActivity(type, limit) ==
  LET matching == {r \in Range(rows) : type = NULL \/ r.type = type}
      sorted   == SetToSortSeq(matching, LAMBDA a, b : a.at > b.at \/ (a.at = b.at /\ a.id > b.id))
      first    == IF limit < 0 \/ limit > Len(sorted) THEN sorted ELSE SubSeq(sorted, 1, limit)
  IN  Reads("activity", "recent", [i \in DOMAIN first |-> rowToEvent(first[i])])

(* prune: the ids to delete are chosen, then deleted in a transaction.     *)
beginPrune(p) ==
  /\ use = "activity" /\ proc[p] = Up
  /\ LET stale == {rows[i].id : i \in {j \in DOMAIN rows : rows[j].at < now - Retention}}
     IN  stale # {} /\ proc' = [proc EXCEPT ![p] = [at |-> "pruning", todo |-> stale]]
  /\ UNCHANGED <<use, fileVars, now>> /\ answer' = Absent

endPrune(p) ==
  /\ proc[p].at = "pruning"
  /\ rows' = SelectSeq(rows, LAMBDA row : row.id \notin proc[p].todo)
  /\ proc' = [proc EXCEPT ![p] = Up]
  /\ UNCHANGED <<use, user_version, schema, lastId, now>> /\ answer' = Absent

-----------------------------------------------------------------------------
(* The drop log: an observation per row, counted when statistics are asked.*)
recordDrop(e) ==
  /\ Statement("droplog") /\ Len(rows) < MaxRows
  /\ Writes("droplog", Append(rows, [venue_id |-> e.venueId, hours_until_reservation |-> e.hoursUntilReservation]))

bucketForHours(hours) ==
  CASE hours < 1  -> "0-1"   [] hours >= 1 /\ hours < 6   -> "1-6"
    [] hours >= 6 /\ hours < 24 -> "6-24"  [] hours >= 24 /\ hours < 30 -> "24-30"
    [] hours >= 30 /\ hours < 48 -> "30-48" [] hours >= 48 -> "48+"

stats(venue) ==
  LET of    == SelectSeq(rows, LAMBDA row : row.venue_id = venue)
      none  == [label \in Range(HOURS_UNTIL_BUCKETS) |-> 0]
      Count(counts, row) == [counts EXCEPT ![bucketForHours(row.hours_until_reservation)] = @ + 1]
  IN  Reads("droplog", "stats", [venueId |-> venue, sampleCount |-> Len(of),
                        byHoursUntilBucket |-> FoldLeft(Count, none, of)])

-----------------------------------------------------------------------------
(* The dedupe entries.                                                     *)
upsertSeen(key, disappeared) ==
  /\ Statement("seen")
  /\ rows' = Put(rows, key, [key |-> key, last_seen_at |-> now, disappeared_at |-> Nullable(disappeared)])
  /\ UNCHANGED <<use, user_version, schema, lastId, proc, now>> /\ answer' = Absent

getSeen(key) == Reads("seen", "get", Row(key, rowToEntry(rows[key])))

markAbsent(seenBefore) ==
  Writes("seen", [k \in DOMAIN rows |->
    IF rows[k].last_seen_at < seenBefore /\ rows[k].disappeared_at = NULL
    THEN [rows[k] EXCEPT !.disappeared_at = now] ELSE rows[k]])

(* parseDedupeKey(...).reservationDate < toCalendarDate(now): the one is a  *)
(* date of the venue's, the other of UTC.  One count of days stands for    *)
(* both here; what comes of their difference is ScanEngine's.              *)
Past(key) == ReservationOf[key] # Absent /\ ReservationOf[key] < now

beginSweep(p) ==
  /\ use = "seen" /\ proc[p] = Up
  /\ LET stale == {k \in DOMAIN rows : rows[k].last_seen_at < now - Retention \/ Past(k)}
     IN  stale # {} /\ proc' = [proc EXCEPT ![p] = [at |-> "sweeping", todo |-> stale]]
  /\ UNCHANGED <<use, fileVars, now>> /\ answer' = Absent

endSweep(p) ==
  /\ proc[p].at = "sweeping"
  /\ rows' = Without(rows, proc[p].todo)
  /\ proc' = [proc EXCEPT ![p] = Up]
  /\ UNCHANGED <<use, user_version, schema, lastId, now>> /\ answer' = Absent

-----------------------------------------------------------------------------
Tick == now < MaxTime /\ use \in {"activity", "seen"} /\ now' = now + 1 /\ UNCHANGED <<use, fileVars, proc>> /\ answer' = Absent

Next ==
  \/ \E p \in Processes : openDb(p) \/ Migrate(p) \/ Exit(p)
                          \/ beginPrune(p) \/ endPrune(p) \/ beginSweep(p) \/ endSweep(p)
  \/ \E watch \in Watches : createWatch(watch) \/ updateWatch(watch)
  \/ \E id \in Ids : removeWatch(id) \/ getWatch(id)
  \/ listWatches
  \/ \E s \in Sessions : putSession(s)
  \/ \E provider \in ProviderName : getSession(provider)
  \/ \E e \in Entries : putPrefs(e) \/ getPrefs(e)
  \/ \E e \in Events : recordActivity(e)
  \/ \E type \in {NULL} \union {e.type : e \in Events}, limit \in Limits : recentActivity(type, limit)
  \/ \E e \in Drops : recordDrop(e)
  \/ \E venue \in Venues : stats(venue)
  \/ \E key \in Names : upsertSeen(key, Absent) \/ upsertSeen(key, now) \/ getSeen(key)
  \/ \E seenBefore \in {now - 1, now} : markAbsent(seenBefore)
  \/ Tick

Spec == Init /\ [][Next]_vars

-----------------------------------------------------------------------------
Forms(table, form(_)) == IF use = table THEN [k \in DOMAIN rows |-> form(rows[k])] ELSE <<>>
DropForm(row) == [venueId |-> row.venue_id, hoursUntilReservation |-> row.hours_until_reservation]

Port == INSTANCE RepositoryPort WITH
  watches  <- Forms("watches", rowToWatch),
  sessions <- Forms("sessions", rowToSession),
  prefs    <- Forms("seat_prefs", rowToPrefs),
  activity <- Forms("activity", rowToEvent),
  drops    <- Forms("droplog", DropForm),
  answer   <- IF use = "seen" THEN Absent ELSE answer

(* "honours the same contract": every call, restart and migration of any   *)
(* of the processes is a call of the port that takes effect at once, or    *)
(* nothing; what is absent stays absent (a session's data becomes null), a *)
(* date range keeps its form, the log is pruned of what is old and of      *)
(* nothing else; and rows keep types.                                      *)
ImplementsPort == Port!Spec /\ []TypeOK

(* "Safe to call on every startup": whatever processes migrate at once or  *)
(* die on the way, the version is that of the schema, so the next process  *)
(* can open the file; and a process that is up has the whole schema.       *)
SchemaIsVersioned ==
  /\ schema = UNION {migrations[v] : v \in 1..user_version}
  /\ \A p \in Processes : proc[p].at \notin {"down", "migrating"} => user_version = Len(migrations)

(* "Drop entries past their reservation date or older than the retention   *)
(* window" (repository.ts:79): what a step takes from the table is old as  *)
(* the row stands, not as it stood when the sweep chose its key.           *)
SweepsDropTheOld ==
  [][use = "seen" => \A k \in DOMAIN rows \ DOMAIN rows' :
       rows[k].last_seen_at < now - Retention \/ Past(k)]_vars

=============================================================================
