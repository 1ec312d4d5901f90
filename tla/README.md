# Bookr verification

TLA+ models of [Bookr](../src/README.md), the TLC configurations that check
them on small instances, and proofs checked by TLAPS. Bookr watches restaurants
(Resy) and cinemas (AMC) for slots that match the user's watches, alerts on new
or re-freed ones, and books a slot where a provider allows it and the watch
opts in.

Paths below are relative to `src/packages/core/src/` unless they start with
`apps/`, `tools/` or `packages/`.

- [1. Inventory of the system](#1-inventory-of-the-system)
- [2. The modules and the code](#2-the-modules-and-the-code)
- [3. The runs](#3-the-runs)
- [4. The proofs](#4-the-proofs)
- [5. What the code does against its own words](#5-what-the-code-does-against-its-own-words)
- [6. What is not modelled](#6-what-is-not-modelled)
- [7. The plan](#7-the-plan)

Running: `tlc -workers 2 -config scan_crash.cfg MCScanEngine` checks one run,
`tlapm ScanEngine_proofs.tla` the proofs of one module. Beside the standard
modules the project uses SequencesExt (Listing, SqliteRepository, MCSeating),
TLAPS (the proof modules), FiniteSetTheorems (Console_proofs, Provider_proofs),
SequenceTheorems (Provider_proofs) and WellFoundedInduction (Scheduler_proofs).

## 1. Inventory of the system

One Node.js process runs per host: the server (scheduler, HTTP API, dashboard),
the CLI, the MCP server. Each builds its own services with
`app/create-bookr.ts` over one SQLite database (better-sqlite3: every
repository call is synchronous and atomic), the provider APIs and an Apprise
notifier. Within a process concurrency is cooperative: code runs alone between
two `await`s, and every `await` is a point where anything else may run. Across
processes only the database is shared.

| Component | State | Operations | Interacts with | What is hard, and what makes it correct |
|---|---|---|---|---|
| scan engine, `services/scan.ts` | the promise `tail`; the `seen` table | `runOnce` (all watches, or one) | sessions, provider `find`, seating gate, `seen`, drop log, notifier, booking | Passes overlap at awaits, throw, or die half-way; a slot must be alerted once per opening, never lost, and absence must be judged only by passes that could see it |
| session lifecycle, `services/session.ts` | the `sessions` table | `ensureLiveSession`, `raiseChallenge` | credential provider, provider `authenticate`/`refresh`, notifier | The row is read before and written after an await; a challenge must pause the provider until a handover, be announced once and not be retried |
| credential service, `services/credentials.ts` | the `sessions` table | `ingestSession`, `status` | session lifecycle | A handover races a login under way |
| scheduler, `scheduler/` | `isRunning`, `inFlight`, `backoffStates`, `pausedNotified` | `start`, `stop`, `pass` | scan engine, notifier, watches | Slow passes, throwing passes, hosts that call `pass()`, watches edited during a pass; scanning must never stop silently, and a pause is warned of once |
| booking, `services/booking.ts` | the activity log | `attemptBook`, `book` | sessions, provider `find`/`book` | An answer may be lost or misread; a retry must not reserve twice; what is recorded as booked must be held |
| Resy provider, `adapters/providers/resy/` | `apiKey`, `apiKeyHealed` | `authenticate`, `refresh`, `find`, `book`, `cancel`, `resolveVenue`, ... | Resy's API | One key field shared by all calls; a 401 scrapes a new key once per process |
| AMC provider, `adapters/providers/amc/` | the cached theatre directory | `find`, `seatMap`, `bookingUrl`, `resolveVenue` | AMC's pages | A page lists showings of the day after; a showing without a seat map must not end the find; slow fetches of the directory land in any order; the link pre-selects seats |
| seating, `seating/`, `services/seating.ts` | the `seat_prefs` table | gate, summary, signature, `screenings`, `map`, `getPrefs`, `putPrefs` | scan engine, dashboard | Adjacency across aisles, zone borders, geometry that stays the same while the room fills |
| watch service, `services/watches.ts` | the `watches` table | `create`, `update`, `setEnabled`, `remove` | everything reads it | Edits race with passes that hold a snapshot, and with edits of other processes, in two statements each |
| credential providers, `adapters/credentials/` | the loaded vault | `init`, `getProviderCredentials`, `getSecret` | session lifecycle, notifier | Loaded once per process |
| notifier, `adapters/notify/` | none | `notify` | Apprise | Several channels, one result |
| persistence, `adapters/persistence/` | the tables, the schema version | repositories, migrations | all services | Processes migrate one file at once and die on the way; a date range and a missing field keep their form through the row; prune and sweep choose rows and delete them in two statements |
| drop log, `droplog/` | the `droplog` table | `record`, histogram | scan engine | Append-only |
| time, dedupe keys, `services/time.ts`, `packages/shared/src/dedupe.ts` | none | date and window arithmetic, key round trip | scan engine, seen sweep | Windows that wrap midnight, venue time zones |
| availability, venues, activity, health, `services/` | none | queries | providers, tables | They go through `ensureLiveSession` |
| server, `apps/server` | HTTP sessions, rate limits | routes, start, shutdown | all services, scheduler | Shutdown races the pass in flight; an asynchronous handler that rejects never answers |
| CLI, `apps/cli` | none | one service call per command | all services | A second process on the same database |
| MCP server, `apps/mcp` | the table of HTTP transports | tools | all services | Session table, stale ids |
| dashboard, `apps/web` | component state | pages, the watch form, seat picker, `useAsync` | server API | Answers that come late, out of order, after the page is gone, or never; selections that belong to another room |
| login tool, `tools/login` | none | browser login, push of the session | server | A captured session must be whole |

`PROJECT.json` lists the hazards, each at its line, with the properties that
would catch it going wrong.

## 2. The modules and the code

| Module | Models | State and its counterpart |
|---|---|---|
| `PassQueue` | `runExclusive` and `tail`, scan.ts:92-100, per process | `status[i]`: the promise of call *i*; `after[i]`: the promise it captured; `tail[p]` |
| `ScanEngine` (extends `PassQueue`) | `runOnce`, `scanWatch`, scan.ts:102-272; `get`, `upsert`, `markAbsent`, `sweep` of seen-repository.ts | `seen`: the table; `pc[i]`, `local[i]`: where pass *i* is and its local variables; `open`: what the provider lists; `rows`: the watches table; `now` |
| `AlertLedger` | what the engine promises: unknown, announced, gone; one alert on becoming announced | abstract specification, implemented by `ScanEngine` (`ImplementsLedger`) |
| `SessionLifecycle` | session.ts, sessions-repository.ts, `ingestSession` | `row[p]`: the table; `pc[c]`, `copy[c]`: a call and the row it has read |
| `Backoff` | backoff.ts, pure | records `[multiplier, challenges, paused]` |
| `Scheduler` (extends `Backoff`) | scheduler.ts: loop, `pass`, `updateBackoff`, `nextSleepMs` | `inFlight`, `states`, `warned`, `outcomes` as in the class; `watches`, `challenged`: tables |
| `Booking` | `attemptBook`, `book`, Resy's details/book flow and its payment retry | `pc[a]`, `answer[a]`; `free`, `held[a]`: what the provider really holds; `log[a]`: the activity record |
| `ResyKey` | the `apiKey` field and the self-heal of resy/provider.ts | `key`, `healed`; `row`: the stored session; `sent[c]`: the key in a request under way; `site`: the key Resy accepts |
| `Seating` | summary.ts, gate.ts, signature.ts, seat-prefs-repository.ts, scan.ts:141-158, the pre-selection of AMC's link | `fetch`: the room and the order its seats were listed in; `map`, `watch`, `prefs`; the digest is an operator on them |
| `RepositoryTypes`, `RepositoryPort` | shared types.ts; ports/repository.ts: what each call makes of what was stored | abstract specification, implemented by `SqliteRepository` (`ImplementsPort`) |
| `SqliteRepository` | adapters/persistence: `openDb`, `runMigrations`, every repository with its row conversion | `user_version`, `schema`, `rows`, `lastId`: the file; `proc[p]`: what a process is at; `answer`: what the last read returned |
| `Console` | apps/web: App, pages, `useAsync`, api/client; the routes of apps/server they use; services/watches.ts in two processes | `hook[l]`: `useAsync` of a loader; `calls`: requests in flight, sent, handled or answered; `table`, `busy`, `other`: the watches, and updates half done |
| `SeatMapPicker`, `WatchForm` (extends it) | apps/web/src/components: SeatMapPicker.tsx, WatchForm.tsx; the save of WatchesPage.tsx | `form`: the form's fields; `shown`, `meta`: schedule, seat map, badges; `calls`: lookups in flight with what they captured |
| `Listing` | `find` of amc/provider.ts and resy/provider.ts, flight.ts, layouts, time.ts, dedupe.ts, availability.ts, the filters of scan.ts, the theatre directory | `pc`, `day`, `todo`, `found`, `kept`: a find under way; `sitemap`, `lookups`: the directory and the calls that wait for it; `site`: what the venue has |

`MC*` modules hold the instances, `*_proofs` modules the theorems:
`ScanEngine_proofs` those of `PassQueue` too, `Provider_proofs` those of
`ResyKey`, `Listing` and `Seating` (whose specifications are named `KeySpec`,
`Spec` and `RoomSpec`).

**Granularity.** An action is the code between two `await`s (or two repository
calls where a failure in between matters: `LookUp` and `Refresh`/`Announce` are
split so that a throw or crash may fall between the decision and the upsert,
and between the upsert and the alert). The database is synchronous, so a
repository call is atomic.

**Abstractions.**
- A dedupe key is a model value with a date; the filters on window, tier and
  date range are folded into which keys match which watch (`KeysOf`) and which
  are on offer. A slot that the seat gate refuses is not upserted, hence not on
  offer; the gate itself is in `Seating`.
- Time in `ScanEngine` is counted in ticks, `DayTicks` to a day; UTC leads the
  venue by `UtcLead` ticks; retention is `Retention` ticks.
- In `Scheduler` a scan pass is one await: what it took, which providers were
  challenged and what it reported. In `Booking` and `ResyKey` the session is
  reduced to what the provider looks at.
- Jitter only adds to a delay and is left out; `backoffDelay` is the floor.
- The blocks of a summary are a set in `Seating`, in the order of `Better`; of a
  row the code sorts by the same scores, `FirstOf` takes the first. A signature
  is what the code hashes: that two of them share a hash is left out, and a
  seat's id goes with its position.
- Wording, logging, HTTP headers and layout are left out.
- `SqliteRepository` keeps of a row the keys, the fields that may be absent,
  those with two forms and those a query goes by. No statement is about two
  tables, so a behaviour is about one (`use`). It counts time in days, of which
  UTC and the venue have the same (for the difference see `scan_utc`). The
  port's `Prune` takes any cutoff; that it is the retention period is the only
  caller's affair (scan.ts:259). Session data that is left out comes back as
  null, which is the port's `Stored`.
- `Listing` counts time in hours, `DayLength` to a day; a zone has one change of
  the clocks. Titles and tiers are sets of words, a key a sequence of parts.
- In `Console` the server handles a request in one step, but for an update,
  which is two statements there and in the other process. In `WatchForm` two
  equal lookups in flight are one, and the probe of a schedule's showtimes takes
  them one per step, in any order.
- A key that Resy refuses once, an answer of 402 and one of 404 say for certain
  that there is no reservation; a server error, an answer that reads like a
  captcha, one without ids and one that never came say nothing (`Booking`).
- `stop` and `start` in `Scheduler` may leave two loops running, as in the code,
  when the first one is still in its sleep or pass; that passes never come
  faster than the base delay (backoff.ts) does not hold then, and is no property.

## 3. The runs

Types (`TypeOK`) are proved for every instance where section 4 says so; the
types of the logs of `SqliteRepository` are checked with `ImplementsPort`.
`Exclusive`, which follows from `InCallOrder`, is proved. Each run's `cfg` says
which failures and edits (`Faults`) the instance admits.

| Run | What it asks | Bounds |
|---|---|---|
| `scan_crash` | Under failing sessions and finds, repository errors, rejected passes, edits, auto-booking and crashes: passes run in call order, one at a time (`InCallOrder`); what counts as present was seen since the last full pass (`SeenSinceHorizon`); a second alert in one opening needs a pass that forgot the slot unseen, once each (`RealertNeedsBlindPass`); the engine implements `AlertLedger` | 1 slot, 1 watch that is edited, disabled, removed; 3 calls, 3 ticks |
| `scan_shared` | With no failure but rejected passes, each opening of a slot is alerted once, whatever full and single-watch passes there are (`OneAlertPerOpening`); nothing that counts as known has missed its alert (`NoAlertLost`); every call of `runOnce` is answered (`EveryPassSettles`) | 1 slot shared by 2 of 3 watches, 3 calls, 3 ticks |
| `scan_utc` (violation) | `OneAlertPerOpening` west of Greenwich | 1 slot, UTC one tick ahead |
| `session_one_caller` | A challenge pauses the provider until a handover (`PausedUntilHandover`), without further logins (`NoLoginWhilePaused`), announced once (`AnnouncedOnce`); a login that was revoked is replaced or paused in the end (`RevokedLoginRecovers`) | 1 caller at a time, a headless provider and one that is not |
| `scheduler_pause` | One pass at a time, bookkeeping included (`SingleFlight`); warned of exactly the paused venues (`WarnedIffPaused`); a pause over a challenged session lasts until a handover, whatever `find` answers (`LoginPauseNeedsHandover`); scanning goes on (`PassesGoOn`) | 1 venue, 2 watches, two loops and a host, multiplier up to 4, pause after 2 challenges |
| `booking` | No attempt reserves twice (`OneReservationPerAttempt`); booked means held (`BookedIsHeld`) | a pass and the operator, 2 tables, other guests; errors, lost and misread answers, failing records, crashes |
| `resy_key` | One scrape per process (`ScrapedOnce`) | 2 concurrent calls, one rotation |
| `seating` | The gate opens exactly when the party can sit together in acceptable free seats (`GateSeatsTheParty`); the link pre-selects such seats only (`LinkHoldsUsersSeats`); picks saved from a map of a room are those of every later map of it, however listed or filled, and of no other room (`PicksFollowTheRoom`); a room turned around has the opposite zones and depths (`ZonesAreSymmetric`) | a hall of 5 columns with an aisle and a row without seats, 2 rooms of 3 seats that differ in the type of one, seats listed forwards or backwards, every occupancy, parties of 1 to 3 |
| `repository` | The version is that of the schema, whatever processes migrate at once or die (`SchemaIsVersioned`); every call implements the port (`ImplementsPort`) | 2 processes, 1 file, 4 days; of each table the records of `MCSqliteRepository` |
| `watch_form` | A watch is saved for a kind its provider has (`SavedKindIsOffered`); the put of the seats, failed or not, is followed by the save (`SaveIsAsked`) | 2 providers, 2 venues, 2 showings in 2 rooms, 2 dates, 2 lookups of a kind in flight |
| `console` | A page shows what was asked for last, or waits for it and for nothing else (`PagesFollowTheLastAsked`: `ShownIsAsked`, `LoadingHasACall`); the list catches up with the table (`ListCatchesUp`); a deleted watch stays deleted (`NoResurrection`); a toggle leaves what it does not name (`TogglesKeepLabel`) | 1 watch, 3 requests in flight, 5 moves of the operator, the other process and mishap together |
| `listing` | An opening is found once (`FoundOnce`); the provider's filters lose nothing the scan would keep (`NothingMissed`); a showing without a map costs only itself (`DriftCostsOneShow`); instants and keys are read back (`SlotsAreReadBack`: `LeadIsTrue`, `KeysAreRead`); the directory served is of the last day (`DirectoryIsOfToday`) | 2 showings around midnight and a change of the clocks, 2 zones, days of 6 hours, 2 lookups |

**Why the bounds are enough.**
- *Three calls of `runOnce`* give a full pass that sees, one that does not, and
  one that judges after both, with a third queued behind a rejected one; the
  promise chain itself is proved for any number. *Ticks*: with a retention of
  one, the two that pass let `sweep` drop entries, and let `lastSeenAt` be
  before, at and after `startedAt`. *Two watches sharing a key*, beside a third
  that does not match it, are what a single-watch pass must not judge for.
- *One caller* in `SessionLifecycle` is the scheduler's situation: the passes of
  a process are serialised (`InCallOrder`), and within a pass watches are scanned
  one after the other. A manual booking or the availability service can be a
  second caller; see section 5.
- *Two watches on one venue* make outcomes of a venue combine (`challenged`
  sticks) and let it be disabled while it is paused. *Threshold 2* makes a
  pause take two challenges in a row; *multiplier 4, delay 3* reach both caps.
- *Two tables* in `Booking` let one attempt take both if the code allowed it.
- *The hall* has each zone and depth, an aisle inside a row, a row without seats
  (which the code does not count), and a width that 3 does not divide. The two
  rooms of three seats differ in a seat's type alone, and two orders of listing
  are enough for a signature that keeps the order to differ.
- *Two processes* on a file race in every pair of steps there is; *four days*
  pass a retention of one and the two reservation dates.
- *A second showing, in another room* lets an answer be late for each lookup of
  the form. One seat is enough where no property tells seats apart; the picker's
  rectangles are checked with two by `watch_form_rooms` (section 5).
- *Five moves* of `Console` reach a toggle of a list that is behind, a deletion
  by the other process between two statements, a page left and shown again
  with requests under way. The server and the page follow without a bound.
- *Days of six hours* are whole hours before, at and after midnight, a window
  that wraps it, a range of dates that ends before it begins; the clocks go
  forward in one zone and back in the other.
- Counters are capped by `MaxWarnings` (guard of `RaiseChallenge`; it must
  exceed 1 for `AnnouncedOnce` to mean anything), `MaxPasses`, `MaxTime`,
  `PauseThreshold` (challenges beyond it make no difference), `tries`, which
  `MayRetry` bounds, `MaxRows` (rows of the logs), `MaxNow`, `MaxCalls`, `MaxMoves`.

**Deadlock** is not checked where the instance really ends: all calls made and
the clock at its bound (scan), all attempts done (booking), the scheduler
stopped. The session and key instances switch it off because an instance
without failures may have nothing left to do. The instances of `Console`,
`Listing` and `SqliteRepository` end when their moves or their time are used up,
and a form that is closed stays closed. The `seating` run checks it.

**Fairness.** Every request the code awaits settles: `fetch` gives up on
headers and body after 300 s, and every rejection is caught; so a step of a pass
or call that is enabled is taken (`WF`). Timers fire (`Wake`, in `LoopStep`);
the server starts the loop at boot (`WF(StartLoop)`). A host's `pass()` is only
fair once begun. In `SessionLifecycle` strong fairness says that failures,
restarts and other providers' calls do not take every turn for ever: the
scheduler's passes ask for each provider's session again and again, and a
provider that keeps being asked answers in the end. Nothing obliges the operator to act: no handover, edit or stop
is fair. In `WatchForm` the put of the seats ends (`PutEnds`), since the
browser's `fetch` does; no other request of the dashboard need be answered, and
`Console` and the modules of persistence state safety only.

## 4. The proofs

All theorems hold for every value of the constants that satisfies the named
assumptions of the module.

**`ScanEngine_proofs`, the queue: `PassesNeverOverlap`** (`QueueSpec => []Exclusive`).
Exclusive is not inductive: that a queued call waits for the promise it
captured says nothing of the others. The inductive invariant `QueueIInv` adds
what the chain remembers. `InCallOrder`: a call that runs or has run has only
finished calls before it. `ChainInv`: whatever lies between a call and the
promise it captured, and whatever lies after `tail`, is over, which after a
restart is so because a restart kills what was pending. `QueueStepKeeps` has
one lemma per action; `Exclusive` follows, since of two running calls the
earlier would have to be over. `PassesRunInCallOrder` is the order itself.
Assumed: `MaxPasses` is a natural number, and no
process is `NoProc`.

**`SessionLifecycle_proofs`**: `SessionTypes`, `ChallengeAnnouncedOnce`,
`PauseLastsUntilHandover`, `PausedIsLeftAlone`, all of the form
`SingleCaller => (Spec => ...)`, for any providers and any failures. The
invariant is `SessionIInv`: `TypeOK`, `AuthFromUnpaused` (a call at a login or
refresh works for a provider that is not challenged: it read the row so, and
with a single caller nobody else can have challenged it since) and
`WarnedIsPaused` (a provider has been warned of at most once since its last
handover, and is challenged if it has been). `PausedUntilHandover` and
`NoLoginWhilePaused` are action properties: each step is shown to satisfy them
from the invariant. `SingleCaller` is a real restriction, see section 5.

**`ScanEngine_proofs`, the engine**. `EngineStepsQueue` shows that every step of the engine
steps the queue or leaves it alone, which carries the queue's theorem over:
`EnginePassesNeverOverlap`, `EnginePassesInCallOrder`. `EngineTypes` is type correctness.
`PresentIsSeenSinceJudged` (`SingleProcess => (Spec => []SeenSinceHorizon)`)
needs `LoneInv`: of the passes of the one process one is awake at a time
(`OneAwake`), its `startedAt` lies between `horizon` and `now`, and the row it
looked up is still the row of the table when it writes.

**`ScanEngine_proofs`, the alerts**. `EngineKeepsLedger` is the refinement: under
`SingleProcess`, each step of the engine is a step or a stutter of `AlertLedger`,
by cases on the actions (`PassStepsLedger`). `KnownIsAlerted` is `[]NoAlertLost`
under `SingleProcess /\ NoLoss`. `RepeatNeedsBlindPass` needs `OpeningInv`: a key
alerted in this opening, unknown to the table and forgotten by no blind pass
(`Stranded`) is not on offer, and no pass holds it among the slots it found; it
assumes `SingleProcess /\ SameDays`. `OneAlert` is `OneAlertPerOpening` under
`OnlyRejects` and `Young` besides. By `AlertInv` a full pass has seen, or is yet
to see, whatever was announced and is on offer (`EyeInv`); so none that ends is
blind for it, and `OpeningInv` leaves no key that could be announced again.

The assumptions are the code's real limits. `SingleProcess`: the promise chain
orders the passes of one process only, while the server and a CLI share the
table. `NoLoss` (no repository error, no crash): the upsert precedes the alert,
and what falls between them loses the alert. `SameDays` (`UtcLead = 0`): `sweep`
compares a venue's date with the UTC date (run `scan_utc`). `OnlyRejects`: a
watch whose `find` failed is blind (section 5). `Young` (`MaxTime <=
Retention`): single-watch passes alone, for longer than the retention period,
would let `sweep` drop what is still on offer.

**`Scheduler_proofs`**. `PassesAreSingleFlight`: `FlightInv` adds that `inFlight`
is up while any pass is under way, and that one is. `WarnedOfExactlyThePaused`:
`WarnedIffPaused` is inductive by itself, since the pruning drops from both
sides. `ChallengedStaysPaused` (`Spec => LoginPauseNeedsHandover`), with
challenges of `find` among the failures: the history `since` tells by what a
venue was challenged last. In `PauseInv`, a venue challenged over its session
and not handed one since has its provider challenged still; a pass under way
has taken every enabled watch of such a venue and knows its provider to be
challenged; so the only outcome left to process for it is `challenged`
(`LoginOutcome`), which lifts no pause. Of challenges by `find` alone it says nothing: see
`scheduler_find_challenge` in section 5.
`SchedulerTypes` bounds multipliers, challenge counts and the sleep by their
caps (`BackoffTypes`, `SleepIsBounded`); that a set of delays has a greatest
(`GreatestDelay`) is the library's theorem on minima of well-founded relations.

**`Booking_proofs`**: `BookingTypes`, `AttemptReservesOnce`, `BookedIsReserved`,
without further assumption. `BookingIInv` says, for each
attempt, that it holds nothing before its first answer (`NoTraceBefore`), what
the answer it has got tells of what it holds (`AnswerTells`), and what the log
tells of the answer (`LogTells`).

**`Provider_proofs`, the api key**: `KeyTypes`; `ScrapesAtMostOnce` from `FlagCounts` (the flag
counts the scrapes).

**`SqliteRepository_proofs`**: `VersionIsOfSchema` (`Spec => []SchemaIsVersioned`),
for any number of processes. It needs `TodoIsSuffix`: what a process has left to
migrate are all versions after one the file has reached, so that a migration
which still applies is the next one (`AppliesOnce`); another process may have
been faster, and then it throws.

`TablesByKeyAreThePort` is the refinement of `RepositoryPort` for the tables
kept by key (`ByKey`). Per table, each statement is the port's call on what the
port sees (`TableOfWatches`, `TableOfSessions`, `TableOfPrefs`); it comes down
to `WatchComesBack` and its like: a record written as a row and read is the
record it was, with what is absent absent, a date range in its form, and the
data of a session that has none null. That
needs `NullIsNoValue` (no stored value is SQL's NULL) and the types of the rows
(`PortInv`). Watches created at once may be listed in any order.

**`Console_proofs`**: `ConsoleTypes`, `PagesFollow`, `ListFollows`,
`NothingComesBack`, `TogglesKeep`. Four invariants are kept together. `TypeInv`:
among the types, that the loaders are those of the page shown, and every request
is well formed (`Formed`). `PageInv`: a loader that waits has its one call,
which asks for what the page shows now, and a page that is gone is told nothing.
`WorkInv`: one update at a time is half done, and the row it holds is the
table's, unless the other process wrote in between (`mixed`). `FreshInv`: on the
watches page, with no action to report and nobody having written behind it,
answers under way and the list shown are the table (`Current`). `NoResurrection`
and `TogglesKeepLabel` are action properties that follow from `WorkInv`.
Assumed: `None` is no value of anything else.

**`WatchForm_proofs`**: `FormTypesHold`, `SavedKindsAreOffered`. `SavedKindIsOffered`
says nothing of how a watch comes to be saved; `FormInv` adds that the form's
kind is one of its provider's, and that so is the kind in every save under way,
those waiting for the put of their seats included. Assumed: a watch being edited
is of a kind of its provider, as every watch is that the form writes.

**`Provider_proofs`, finding openings**: `OpeningsFoundOnce`,
`ScanMissesNothing`, `DriftContained`, `ReadingBack`, for any shows, zones,
watches and refusals. `FindInv` says how far a find is: AMC goes through the
dates in order, and at a date through what is left to do of its page (`AmcInv`),
Resy through the days that have something (`ResyInv`); whatever is behind is
found (`AmcCovers`, `ResyCovers`), no show twice (`ShowsDiffer`).
`DirectoryFresh` needs `DirectoryInv`: the directory is as of no earlier than
the moment it is kept under. Assumed: no show's id is the empty string (a key
would lose its last part), and a change of the clocks moves them by a day at
most. The clock stands still once the answer is handed on: the property is about
that moment.

**`Provider_proofs`, seating**: `GateIsExact`, `LinkIsTheUsers`,
`NoSideIsFavoured`, for a room of any size. They need that the loop over the
columns leaves the longest runs of seats: after *n* columns the runs are in order, each is maximal, and seats of the row
that are together are in one (`RunsInv`). The loop is a recursive function of
the column, so that this holds after any number of them is shown by a smallest
column at which it would fail. A party fits exactly if some run is as long as it
is; the block the link names exists because five scores in turn have a greatest
(`FirstExists`); and the longest runs of the room turned around are the runs
turned around, whose rows lie as far from the back as they did from the front.

TLC checks the same properties on the instances above.

Only model-checked:

- liveness (`EveryPassSettles`, `RevokedLoginRecovers`, `PassesGoOn`,
  `SaveIsAsked`), which is out of the prover's reach under fairness;
- `PicksFollowTheRoom`: a signature sorts the seats, and that sorting undoes any
  order of listing is an induction over sequences;
- `ImplementsPort` of the two logs: what is recent is sorted, statistics are a
  fold, pruning filters a sequence, none of which the provers can unfold for
  sequences of any length.

Every other property of the passing runs is a theorem. Of several processes on one
database, the order of each one's passes, the types, the migrations and the
tables kept by key are proved; section 5 says what goes wrong between
processes where two statements belong together.

## 5. What the code does against its own words

Run `scan_utc` shows: `sweep` (seen-repository.ts:83) compares a venue-local
date with the UTC date. In the evening, west of Greenwich, every pass deletes
the entries of tonight's slots and the next one alerts them again.

Eight configurations, kept beside the runs, show one more each. TLC finds the
property of each violated:

- `session_handover_lost` (`MCSessionLifecycle`, `HandoverKept`):
  `raiseChallenge` (session.ts:70) writes back the row it read before the await,
  over a session handed over meanwhile.
- `scheduler_find_challenge` (`MCScheduler`, `PauseNeedsHandover`): challenges of
  `find` (the only ones AMC raises) pause the venue in the scheduler only; its
  session stays active, every pass asks again, and the next success lifts the
  pause without a handover, against scheduler.ts:7-8. `LoginPauseNeedsHandover`
  is what does hold with such challenges among the failures.
- `booking_unlogged` (`MCBooking`, `OutcomesAreLogged`): `attemptBook` records
  what `book` returns; when it throws (a 419, or no answer) there is no record,
  and a pass swallows the error, against booking.ts:4-5.
- `resy_key_stale` (`MCResyKey`, `StaleKeyReplaced`): `find` and `refresh`
  (resy/provider.ts:191, 154) put the key of the session back over the scraped
  one, and the heal runs once per process.
- `repository_sweep` (`MCSqliteRepository`, `SweepsDropTheOld`): `sweep` chooses
  keys with one statement and deletes them by key later; an entry that another
  process has seen again in between is gone, against ports/repository.ts:79.
- `listing_utc` (`MCListing`, `ChecksNeedNoZone`): an ad-hoc check runs in UTC
  (availability.ts:25), said there to be of no account. AMC's `find` compares
  the date of a page with that of a showing in the watch's zone, and drops
  evening showings of the date asked for.
- `watch_form_provider` (`MCWatchForm`, `ProviderHoldsTogether`): late answers are
  applied to whatever the form has become. Matches of one provider are offered,
  and picked, under another; a seat map asked for before a switch of providers
  is shown after it, against WatchForm.tsx:199-201.
- `watch_form_rooms` (`MCWatchForm`, `SavedForTheirRoom`): seats drawn in one
  auditorium stay selected when a showing in another is opened, and are saved
  under the signature of that one (WatchForm.tsx:362-365).

Seen while modelling; no run checks them:

- A watch whose session or `find` failed in a full pass has its entries marked
  absent by that same pass, and alerted again when `find` works. The property
  `RealertNeedsBlindPass` bounds the damage; the failing pass is the blind one.
- The promise chain is per process. The server and a CLI `scan` overlap, and
  may both alert a slot.
- Two concurrent calls of `ensureLiveSession` (a pass and a manual booking) may
  log in at once: a challenge is announced twice, or overwritten by the other's
  login. That is why the session theorems assume a single caller.
- A handed-over session has no `expiresAt`; when the provider revokes it,
  nothing notices, and `ensureLiveSession` serves it for ever.
- An error of a watch disabled while the pass runs re-enters its venue in the
  backoff states after the pruning, and can size one sleep.
- The retry after a scrape goes out under `apiKey` as it is after the await
  (resy/provider.ts:572): another call may have put an old key back by then.
- A reservation whose answer mentions a captcha is logged as `book-failed`:
  the text is read before the status (resy/provider.ts:445).
- `stop` and `start` within one sleep leave two loops running.
- A manual booking is not serialised with a pass; both may book the slot.
- Auto-booking goes by the opt-in of the snapshot: opting out during a pass
  does not stop it.
- The block that an alert's link pre-selects is the best one (center before
  size), not one that seats the party.
- The headers of a call replace the default ones (apps/web/src/api/client.ts:50-53),
  so a hand-over submitted from the dashboard goes out without its content type,
  is not parsed, and is refused every time.
- An asynchronous route handler that rejects is answered by nobody (Express 4,
  apps/server/src/api.ts): the page that waits for it waits for ever.
- Saved seats that arrive late replace those drawn meanwhile (WatchForm.tsx:312).
- An edit cannot clear seats or a film: left empty, a field falls back on what
  the watch had, and an undefined field is no change for the server.
- `update` (services/watches.ts:43) reads a row and writes all of it; what another
  process wrote between the two is lost.
- packages/shared/src/types.ts calls the seat columns zero-based; the AMC
  adapter and `zoneOf` count them from one.

## 6. What is not modelled

- *Credential providers*: loaded once, before the services exist, and only read
  after that; in `SessionLifecycle` the fetch of credentials succeeds or fails.
- *Notifier*: keeps nothing; a notification is one await that settles, which is
  how `ScanEngine` and `SessionLifecycle` have it. Truncation is wording.
- *Application wiring* constructs the services once, before anything runs;
  *activity and health services* forward reads.
- *Login tool*: a browser driven through a login, and one POST; the handover it
  ends in is a step of `SessionLifecycle`.
- Of the *Resy provider*: `cancel`, `resolveVenue` and deep links. Of *AMC*: the
  text of its pages. Of *seating*: percentages of occupancy.
- Of the *server*: headers, cookies, static files; of the *MCP server*: the table
  of transports; of the *dashboard*: rendering and the components of `ui/`.
- *Types, schemas and fixtures* have no behaviour beyond what `RepositoryTypes`,
  `Listing` and `WatchForm` take from them.

## 7. The plan

Done: the scan engine, sessions, scheduler, booking, api key and seating; then
persistence against its port, the watch form and its seat picker, the pages of
the dashboard over the server next to a second process, and the finding of
openings with its dates, windows, keys and the theatre directory; then the
theorems on all of them.

What is left, by worth:

1. The logs of `SqliteRepository` against the port, as theorems.
2. The promise chain and the sessions for more than one caller: what still
   holds when a manual booking is the second.
3. Abstract specifications: a session gate (live, paused) implemented by
   `SessionLifecycle` and used by `Scheduler`; an at-most-once reservation
   implemented by `Booking`.
4. The MCP server's transports and the start of a process: vault, database,
   services, in the order `create-bookr` has them, with a part that fails.
5. The fixed `sweep`, `raiseChallenge` and seat saving beside those of the code.
