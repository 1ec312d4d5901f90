--------------------------- MODULE RepositoryPort ---------------------------
(***************************************************************************)
(* The contract of the persistence port (packages/core/src/ports/          *)
(* repository.ts): what each call makes of what was stored before, and     *)
(* what it answers.  Every call takes effect at once; which process makes  *)
(* it is of no account, and restarts change nothing.  The dedupe entries   *)
(* are not part of it: a sweep need not happen at once (SqliteRepository). *)
(***************************************************************************)
EXTENDS RepositoryTypes

VARIABLES
  watches,    \* id -> Watch
  sessions,   \* provider -> Session
  prefs,      \* <<provider, venue, layout>> -> SeatPrefEntry
  activity,   \* the events recorded and not pruned, in the order recorded
  drops,      \* the drop events, in the order recorded
  answer      \* what the last call answered, if it was a read

portVars == <<watches, sessions, prefs, activity, drops, answer>>

Init ==
  /\ watches = <<>> /\ sessions = <<>> /\ prefs = <<>>
  /\ activity = <<>> /\ drops = <<>> /\ answer = Absent

Create(watch) ==
  /\ watch.id \notin DOMAIN watches
  /\ watches' = Put(watches, watch.id, watch)
  /\ UNCHANGED <<sessions, prefs, activity, drops>> /\ answer' = Absent

(* An update replaces what is there, and stores nothing where nothing is.  *)
Update(watch) ==
  /\ watch.id \in DOMAIN watches
  /\ watches' = [watches EXCEPT ![watch.id] = watch]
  /\ UNCHANGED <<sessions, prefs, activity, drops>> /\ answer' = Absent

Remove(id) ==
  /\ watches' = Without(watches, {id})
  /\ UNCHANGED <<sessions, prefs, activity, drops>> /\ answer' = Absent

(* Data that is left out is kept as null.                                  *)
Stored(session) == IF session.data = Absent THEN [session EXCEPT !.data = JsonNull] ELSE session

PutSession(session) ==
  /\ sessions' = Put(sessions, session.provider, Stored(session))
  /\ UNCHANGED <<watches, prefs, activity, drops>> /\ answer' = Absent

PutPrefs(entry) ==
  /\ prefs' = Put(prefs, <<entry.provider, entry.venueId, entry.layoutKey>>, entry)
  /\ UNCHANGED <<watches, sessions, activity, drops>> /\ answer' = Absent

RecordActivity(event) ==
  /\ activity' = Append(activity, event)
  /\ UNCHANGED <<watches, sessions, prefs, drops>> /\ answer' = Absent

(* Everything older than the cutoff goes, and nothing else; the cutoff is  *)
(* the caller's.                                                           *)
Prune(cutoff) ==
  /\ activity' = SelectSeq(activity, LAMBDA event : event.at >= cutoff)
  /\ UNCHANGED <<watches, sessions, prefs, drops>> /\ answer' = Absent

RecordDrop(event) ==
  /\ drops' = Append(drops, event)
  /\ UNCHANGED <<watches, sessions, prefs, activity>> /\ answer' = Absent

(* The answer has been used.                                               *)
Answered == answer' = Absent /\ UNCHANGED <<watches, sessions, prefs, activity, drops>>

-----------------------------------------------------------------------------
Answers(call, value) == answer' = <<call, value>> /\ UNCHANGED <<watches, sessions, prefs, activity, drops>>

(* The watches, oldest first: any order of those created at once.          *)
ListWatches ==
  \E order \in [1..Cardinality(DOMAIN watches) -> DOMAIN watches] :
    /\ \A i, j \in DOMAIN order : i # j => order[i] # order[j]
    /\ \A i, j \in DOMAIN order : i < j => watches[order[i]].createdAt <= watches[order[j]].createdAt
    /\ Answers("list", [i \in DOMAIN order |-> watches[order[i]]])

GetOf(table, key) == Answers("get", Get(table, key))

(* The events of a type, newest first: of those of one time the one that   *)
(* was recorded last comes first.                                          *)
Recent(types, limit) ==
  LET of    == {i \in DOMAIN activity : activity[i].type \in types}
      newer(i) == {j \in of : activity[j].at > activity[i].at \/ (activity[j].at = activity[i].at /\ j > i)}
      nth(n) == CHOOSE i \in of : Cardinality(newer(i)) = n - 1
      size == IF limit < 0 \/ limit > Cardinality(of) THEN Cardinality(of) ELSE limit
  IN  Answers("recent", [n \in 1..size |-> activity[nth(n)]])

(* The bucket of a label holds the hours from its bound to the next one's; *)
(* the first has whatever is less.                                         *)
Stats(venue) ==
  LET bound == <<0, 1, 6, 24, 30, 48>>
      of == {i \in DOMAIN drops : drops[i].venueId = venue}
      In(n) == {i \in of : /\ n > 1 => drops[i].hoursUntilReservation >= bound[n]
                           /\ n < 6 => drops[i].hoursUntilReservation < bound[n + 1]}
      nthOf(label) == CHOOSE n \in 1..6 : HOURS_UNTIL_BUCKETS[n] = label
  IN  Answers("stats", [venueId |-> venue, sampleCount |-> Cardinality(of),
                         byHoursUntilBucket |-> [l \in {HOURS_UNTIL_BUCKETS[n] : n \in 1..6} |-> Cardinality(In(nthOf(l)))]])

Next ==
  \/ Answered
  \/ \E watch \in Watches : Create(watch) \/ Update(watch)
  \/ \E id \in Ids : Remove(id) \/ GetOf(watches, id)
  \/ ListWatches
  \/ \E s \in Sessions : PutSession(s)
  \/ \E p \in ProviderName : GetOf(sessions, p)
  \/ \E e \in Entries : PutPrefs(e) \/ GetOf(prefs, <<e.provider, e.venueId, e.layoutKey>>)
  \/ \E e \in ActivityEvent : RecordActivity(e)
  \/ \E cutoff \in -MaxTime..MaxTime : Prune(cutoff)
  \/ \E types \in {ActivityType} \union {{t} : t \in ActivityType}, limit \in Limits : Recent(types, limit)
  \/ \E e \in Drops : RecordDrop(e)
  \/ \E v \in Venues : Stats(v)

Spec == Init /\ [][Next]_portVars

=============================================================================
