----------------------------- MODULE ScanEngine -----------------------------
(***************************************************************************)
(* The scan engine of packages/core/src/services/scan.ts over the `seen`   *)
(* table of adapters/persistence/seen-repository.ts.                       *)
(*                                                                         *)
(* A pass is queued by runExclusive (module PassQueue), takes its watches  *)
(* from the repository once, and goes through them one at a time.  Every   *)
(* await of scanWatch (session, find, notify, book) is a point where the   *)
(* slots on offer, the clock, the watches and, with several processes on   *)
(* one data directory, the `seen` table may change.                        *)
(*                                                                         *)
(* A key stands for a slot that matches its watches' date range, window    *)
(* and tiers; it is on offer while the provider lists it with a block of   *)
(* acceptable seats (a slot the seat gate refuses is never upserted, so it *)
(* is not on offer).  Time is counted in ticks; a calendar day is DayTicks *)
(* long and UTC is UtcLead ticks ahead of the venue.                       *)
(***************************************************************************)
EXTENDS PassQueue, Integers

CONSTANTS
  Keys,        \* dedupe keys
  DateOf,      \* DateOf[k]: the reservation date in the key, as a day number
  Watches,
  KeysOf,      \* KeysOf[w]: the keys whose slots match watch w
  Autobook,    \* whether the provider can book programmatically
  Faults,      \* the failures and edits this instance admits
  DayTicks, UtcLead, Retention,
  MaxTime      \* bound: the last tick of the clock

ASSUME ScanConstants ==
  /\ DateOf \in [Keys -> Nat]
  /\ KeysOf \in [Watches -> SUBSET Keys]
  /\ Autobook \in BOOLEAN
  /\ DayTicks \in Nat \ {0} /\ UtcLead \in Nat /\ Retention \in Nat /\ MaxTime \in Nat
  /\ Faults \subseteq {"session", "find", "store", "reject", "crash", "edit"}
ASSUME NoneIsNothing == "full" \notin Watches /\ "none" \notin Watches \union Keys

VARIABLES
  now,      \* the clock the processes share
  open,     \* the keys on offer at the provider
  rows,     \* the watches table
  seen,     \* the seen table
  pc,       \* pc[i]: what pass i does next
  local,    \* local[i]: the local variables of pass i
  alerted,  \* history: keys whose alert was decided since they last came on offer
  blind,    \* history: keys forgotten, while on offer, by a pass that did not see them
  told,     \* history: keys alerted (or notify-failed) since they were last forgotten
  horizon   \* history: startedAt of the last full pass that completed

storeVars == <<now, open, rows, seen>>
passVars  == <<pc, local>>
history   == <<alerted, blind, told, horizon>>
vars == <<queueVars, storeVars, passVars, history>>

(* Where the provider cannot book, an opt-in makes no difference.          *)
Row   == [state : {"enabled", "disabled", "removed"}, autobook : {FALSE, Autobook}]
Time  == 0 .. MaxTime
Entry == [present : BOOLEAN, lastSeen : Time, gone : BOOLEAN]
NoEntry == [present |-> FALSE, lastSeen |-> 0, gone |-> FALSE]

Local == [scope   : Watches \union {"full"},  \* the watchId argument of runOnce
          started : Time,                     \* startedAt
          todo    : SUBSET Watches,           \* watches of the snapshot still to scan
          auto    : SUBSET Watches,           \* those with autobook in the snapshot
          watch   : Watches \union {"none"},  \* the watch being scanned
          found   : SUBSET Keys,              \* matching slots still to process
          slot    : Keys \union {"none"},     \* the slot being processed
          stamp   : Time,                     \* nowIso
          fresh   : BOOLEAN]                  \* isNew || reappeared
NoLocal == [scope |-> "full", started |-> 0, todo |-> {}, auto |-> {}, watch |-> "none",
            found |-> {}, slot |-> "none", stamp |-> 0, fresh |-> FALSE]

PC == {"idle", "next", "session", "find", "slots", "record", "notify", "book"}

TypeOK ==
  /\ QueueTypeOK
  /\ now \in Time
  /\ open \subseteq Keys
  /\ rows \in [Watches -> Row]
  /\ seen \in [Keys -> Entry]
  /\ pc \in [Passes -> PC]
  /\ local \in [Passes -> Local]
  /\ alerted \subseteq Keys /\ blind \subseteq Keys /\ told \subseteq Keys
  /\ horizon \in Time

Init ==
  /\ QueueInit
  /\ now = 0
  /\ open = {}
  /\ rows \in [Watches -> {row \in Row : row.state = "enabled"}]
  /\ seen = [k \in Keys |-> NoEntry]
  /\ pc = [i \in Passes |-> "idle"]
  /\ local = [i \in Passes |-> NoLocal]
  /\ alerted = {} /\ blind = {} /\ told = {}
  /\ horizon = 0

LocalDate(t) == t \div DayTicks
UtcDate(t)   == (t + UtcLead) \div DayTicks

Goto(i, where) == pc' = [pc EXCEPT ![i] = where]

-----------------------------------------------------------------------------
(* The outside: the clock, the provider's inventory, the operator.         *)

(* Slots of a day that is over at the venue are no longer on offer.  A     *)
(* pass takes less than Retention (14 days), so the clock waits for it.    *)
Tick ==
  /\ now < MaxTime
  /\ \A i \in Passes : status[i] = "running" => now < local[i].started + Retention
  /\ now' = now + 1
  /\ open' = {k \in open : LocalDate(now + 1) <= DateOf[k]}
  /\ UNCHANGED <<queueVars, rows, seen, passVars, history>>

SlotOpens(k) ==
  /\ k \notin open
  /\ LocalDate(now) <= DateOf[k]
  /\ open' = open \union {k}
  /\ alerted' = alerted \ {k}
  /\ blind' = blind \ {k}
  /\ UNCHANGED <<queueVars, now, rows, seen, passVars, told, horizon>>

SlotCloses(k) ==
  /\ k \in open
  /\ open' = open \ {k}
  /\ UNCHANGED <<queueVars, now, rows, seen, passVars, history>>

(* setEnabled, update and remove of the watch service; a removed id never  *)
(* comes back.                                                             *)
EditWatch(w) ==
  /\ "edit" \in Faults
  /\ rows[w].state # "removed"
  /\ \E row \in Row : row # rows[w] /\ rows' = [rows EXCEPT ![w] = row]
  /\ UNCHANGED <<queueVars, now, open, seen, passVars, history>>

-----------------------------------------------------------------------------
(* runOnce: the call, the snapshot of the watches, the loop over them.     *)

CallPass(p) ==
  /\ Call(p)
  /\ \E scope \in Watches \union {"full"} :
       local' = [local EXCEPT ![calls + 1].scope = scope]
  /\ UNCHANGED <<storeVars, pc, history>>

Enabled == {w \in Watches : rows[w].state = "enabled"}

Snapshot(scope) ==
  IF scope = "full" THEN Enabled ELSE {w \in {scope} : rows[w].state # "removed"}

StartPass(i) ==
  /\ Start(i)
  /\ Goto(i, "next")
  /\ LET todo == Snapshot(local[i].scope) IN
     local' = [local EXCEPT ![i].started = now, ![i].todo = todo,
                             ![i].auto = {w \in todo : rows[w].autobook}]
  /\ UNCHANGED <<storeVars, history>>

(* The next watch: ask for a live session.                                 *)
BeginWatch(i, w) ==
  /\ pc[i] = "next"
  /\ w \in local[i].todo
  /\ Goto(i, "session")
  /\ local' = [local EXCEPT ![i].todo = @ \ {w}, ![i].watch = w]
  /\ UNCHANGED <<queueVars, storeVars, history>>

SessionLive(i) ==
  /\ pc[i] = "session"
  /\ Goto(i, "find")
  /\ UNCHANGED <<queueVars, storeVars, local, history>>

(* No provider, or no live session: the error goes into the report only.   *)
SessionFails(i) ==
  /\ "session" \in Faults
  /\ pc[i] = "session"
  /\ Goto(i, "next")
  /\ UNCHANGED <<queueVars, storeVars, local, history>>

(* The provider answers find with what it has on offer at this moment; the *)
(* answer is processed later.                                              *)
FindAnswers(i) ==
  /\ pc[i] = "find"
  /\ Goto(i, "slots")
  /\ local' = [local EXCEPT ![i].found = open \intersect KeysOf[local[i].watch]]
  /\ UNCHANGED <<queueVars, storeVars, history>>

FindFails(i) ==
  /\ "find" \in Faults
  /\ pc[i] = "find"
  /\ Goto(i, "next")
  /\ UNCHANGED <<queueVars, storeVars, local, history>>

-----------------------------------------------------------------------------
(* The loop over the matching slots.                                       *)

(* Mutant of IsFresh: only re-freed slots alert, new ones do not.          *)
IsReappeared(k) == seen[k].present /\ seen[k].gone

(* isNew || reappeared.                                                    *)
IsFresh(k) == ~seen[k].present \/ seen[k].gone

(* seen.get, and the decision it leads to.                                 *)
LookUp(i, k) ==
  /\ pc[i] = "slots"
  /\ k \in local[i].found
  /\ Goto(i, "record")
  /\ local' = [local EXCEPT ![i].found = @ \ {k}, ![i].slot = k, ![i].stamp = now,
                             ![i].fresh = IsFresh(k)]
  /\ UNCHANGED <<queueVars, storeVars, history>>

(* The entry that upsert leaves.                                           *)
Sighted(t) == [present |-> TRUE, lastSeen |-> t, gone |-> FALSE]

(* A known slot: refresh lastSeenAt (the upsert clears disappearedAt).     *)
Refresh(i) ==
  /\ pc[i] = "record"
  /\ ~local[i].fresh
  /\ seen' = [seen EXCEPT ![local[i].slot] = Sighted(local[i].stamp)]
  /\ Goto(i, "slots")
  /\ UNCHANGED <<queueVars, now, open, rows, local, history>>

(* A new or re-freed slot: persist it as notified, then start the alert.   *)
Announce(i) ==
  LET k == local[i].slot IN
  /\ pc[i] = "record"
  /\ local[i].fresh
  /\ seen' = [seen EXCEPT ![k] = Sighted(local[i].stamp)]
  /\ Goto(i, "notify")
  /\ alerted' = alerted \union {k}
  /\ blind' = blind \ {k}
  /\ told' = told \ {k}
  /\ UNCHANGED <<queueVars, now, open, rows, local, horizon>>

(* notify resolves: delivered, or logged as notify-failed.                 *)
NotifyReturns(i) ==
  /\ pc[i] = "notify"
  /\ told' = told \union {local[i].slot}
  /\ Goto(i, IF Autobook /\ local[i].watch \in local[i].auto THEN "book" ELSE "slots")
  /\ UNCHANGED <<queueVars, storeVars, local, alerted, blind, horizon>>

(* attemptBook returns or throws; a booking may take the slot off offer.   *)
BookReturns(i) ==
  /\ pc[i] = "book"
  /\ open' \in {open, open \ {local[i].slot}}
  /\ Goto(i, "slots")
  /\ UNCHANGED <<queueVars, now, rows, seen, local, history>>

EndWatch(i) ==
  /\ pc[i] = "slots"
  /\ local[i].found = {}
  /\ Goto(i, "next")
  /\ UNCHANGED <<queueVars, storeVars, local, history>>

(* The repository or the drop log throws: runOnce catches it and goes on   *)
(* with the next watch.  Thrown after the upsert of a fresh slot, the      *)
(* alert is never sent.                                                    *)
WatchThrows(i) ==
  /\ "store" \in Faults
  /\ \/ /\ pc[i] \in {"slots", "record"}
        /\ UNCHANGED <<seen, alerted, told>>
     \/ /\ pc[i] = "record" /\ local[i].fresh
        /\ seen' = [seen EXCEPT ![local[i].slot] = Sighted(local[i].stamp)]
        /\ alerted' = alerted \union {local[i].slot}
        /\ told' = told \ {local[i].slot}
  /\ Goto(i, "next")
  /\ local' = [local EXCEPT ![i].found = {}]
  /\ UNCHANGED <<queueVars, now, open, rows, blind, horizon>>

-----------------------------------------------------------------------------
(* The end of a pass.                                                      *)

(* Mutants of MarkAbsent: off by one at either side of startedAt.          *)
MarkAbsentUpTo(entries, seenBefore) ==
  [k \in Keys |-> IF entries[k].present /\ entries[k].lastSeen <= seenBefore
                  THEN [entries[k] EXCEPT !.gone = TRUE] ELSE entries[k]]
MarkAbsentLate(entries, seenBefore) ==
  [k \in Keys |-> IF entries[k].present /\ entries[k].lastSeen + 1 < seenBefore
                  THEN [entries[k] EXCEPT !.gone = TRUE] ELSE entries[k]]

(* markAbsent: entries last seen before the pass began have disappeared.   *)
MarkAbsent(entries, seenBefore) ==
  [k \in Keys |-> IF entries[k].present /\ entries[k].lastSeen < seenBefore
                  THEN [entries[k] EXCEPT !.gone = TRUE] ELSE entries[k]]

(* sweep: entries of past reservations and entries not seen for Retention. *)
Sweep(entries, t) ==
  [k \in Keys |-> IF entries[k].lastSeen + Retention < t \/ DateOf[k] < UtcDate(t)
                  THEN NoEntry ELSE entries[k]]

(* Mutant of Judge: every pass judges, whatever its scope.                 *)
JudgeAlways(i) == MarkAbsent(seen, local[i].started)

(* A single-watch pass cannot judge other watches' entries.                *)
Judge(i) ==
  IF local[i].scope = "full" THEN MarkAbsent(seen, local[i].started) ELSE seen

Known(entries) == {k \in Keys : entries[k].present /\ ~entries[k].gone}

(* Of the keys a pass forgets, those on offer that it has not seen itself. *)
Unseen(i, forgotten) ==
  {k \in forgotten \intersect open : seen[k].lastSeen < local[i].started}

(* The history variables follow what the pass has forgotten.               *)
Forget(i) ==
  LET forgotten == Known(seen) \ Known(seen') IN
  /\ blind' = blind \union Unseen(i, forgotten)
  /\ told' = told \ forgotten

FinishPass(i) ==
  /\ pc[i] = "next"
  /\ local[i].todo = {}
  /\ Settle(i, "fulfilled")
  /\ Goto(i, "idle")
  /\ seen' = Sweep(Judge(i), now)
  /\ Forget(i)
  /\ horizon' = IF local[i].scope = "full" THEN local[i].started ELSE horizon
  /\ local' = [local EXCEPT ![i] = NoLocal]
  /\ UNCHANGED <<now, open, rows, alerted>>

(* The repository throws outside the loop (at the snapshot, or before,     *)
(* between or after markAbsent and the sweep): the promise is rejected.    *)
PassThrows(i) ==
  /\ "reject" \in Faults
  /\ pc[i] = "next"
  /\ \/ local[i].watch = "none" /\ seen' = seen
     \/ local[i].todo = {} /\ seen' \in {seen, Judge(i), Sweep(Judge(i), now)}
  /\ Settle(i, "rejected")
  /\ Goto(i, "idle")
  /\ Forget(i)
  /\ local' = [local EXCEPT ![i] = NoLocal]
  /\ UNCHANGED <<now, open, rows, alerted, horizon>>

(* The process dies at any point and is started again on the same data.    *)
Crash(p) ==
  /\ "crash" \in Faults
  /\ Restart(p)
  /\ pc' = [i \in Passes |-> IF owner[i] = p THEN "idle" ELSE pc[i]]
  /\ local' = [i \in Passes |-> IF owner[i] = p THEN NoLocal ELSE local[i]]
  /\ UNCHANGED <<storeVars, history>>

-----------------------------------------------------------------------------
PassStep(i) ==
  \/ StartPass(i)
  \/ \E w \in Watches : BeginWatch(i, w)
  \/ SessionLive(i) \/ SessionFails(i)
  \/ FindAnswers(i) \/ FindFails(i)
  \/ \E k \in Keys : LookUp(i, k)
  \/ Refresh(i) \/ Announce(i)
  \/ NotifyReturns(i) \/ BookReturns(i)
  \/ EndWatch(i) \/ WatchThrows(i)
  \/ FinishPass(i) \/ PassThrows(i)

Outside ==
  \/ Tick
  \/ \E k \in Keys : SlotOpens(k) \/ SlotCloses(k)
  \/ \E w \in Watches : EditWatch(w)

Next ==
  \/ Outside
  \/ \E p \in Procs : CallPass(p) \/ Crash(p)
  \/ \E i \in Passes : PassStep(i)

Spec == Init /\ [][Next]_vars

(* Every promise a pass awaits settles (each HTTP request has a timeout),  *)
(* so the event loop always gets back to a running or queued pass.         *)
FairSpec == Spec /\ \A i \in Passes : WF_vars(PassStep(i))

-----------------------------------------------------------------------------
Announced(i) == pc[i] = "record" /\ pc'[i] = "notify"

(* "alerts on genuinely new or re-freed slots": within one opening of a    *)
(* slot, that is until it goes off offer and comes back, the alert for it  *)
(* is decided once, whatever passes, scopes and watches overlap.           *)
OneAlertPerOpening ==
  [][\A i \in Passes : Announced(i) => local[i].slot \notin alerted]_vars

(* With failures, edits and crashes: a slot that never left is announced   *)
(* again only if a pass that did not see it itself has forgotten it, and   *)
(* once per such pass.                                                     *)
RealertNeedsBlindPass ==
  [][\A i \in Passes : Announced(i) /\ local[i].slot \in alerted
                          => local[i].slot \in blind]_vars

(* A completed full pass has judged every entry: one that still counts as  *)
(* present was seen since that pass began, so a slot that went away before *)
(* it is armed to alert again, across failures and restarts.               *)
SeenSinceHorizon == \A k \in Known(seen) : seen[k].lastSeen >= horizon

(* An entry is persisted as notified before its alert is sent: as long as  *)
(* nothing throws or dies in between, every slot the engine holds for      *)
(* known has been alerted since it last forgot it, or is being alerted.    *)
NoAlertLost ==
  \A k \in Known(seen) :
    k \in told \/ \E i \in Passes : pc[i] = "notify" /\ local[i].slot = k

(* "Callers queue behind the in-flight pass rather than being dropped":    *)
(* every call of runOnce is answered, even after passes that threw.        *)
EveryPassSettles ==
  \A i \in Passes : status[i] = "queued" ~> status[i] \in Settled

-----------------------------------------------------------------------------
(* The engine implements the alert ledger: the `seen` table is its book,   *)
(* and the passes waiting for notify are its ringing alerts.               *)
LedgerState(e) ==
  IF ~e.present THEN "unknown" ELSE IF e.gone THEN "gone" ELSE "announced"

Ledger == INSTANCE AlertLedger WITH
  book    <- [k \in Keys |-> LedgerState(seen[k])],
  ringing <- {local[i].slot : i \in {j \in Passes : pc[j] = "notify"}}

ImplementsLedger == Ledger!LedgerSpec

=============================================================================
