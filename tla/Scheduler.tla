----------------------------- MODULE Scheduler -----------------------------
(***************************************************************************)
(* The polling scheduler of packages/core/src/scheduler/scheduler.ts: its  *)
(* loop, the single-flight guard of pass(), the per-venue backoff kept     *)
(* from the reports of the scan passes, and the "Provider paused" warning. *)
(*                                                                         *)
(* A scan pass is one await here: what matters of it is which watches it   *)
(* took, whose session was challenged, and the errors it reports.  The     *)
(* session layer lets a challenged provider go only on a handover (module  *)
(* SessionLifecycle).                                                      *)
(***************************************************************************)
EXTENDS Backoff

CONSTANTS
  Loops,       \* bound: runs of loop() alive at once
  Hosts,       \* other callers of pass(): hosts that trigger a pass on demand
  Watches,
  Venues,
  ProviderOf,  \* ProviderOf[v]: the provider of venue v
  Providers,
  Faults       \* which failures and edits this instance admits

ASSUME SchedulerConstants ==
  /\ ProviderOf \in [Venues -> Providers]
  /\ Hosts \intersect Loops = {}
  /\ Faults \subseteq {"error", "login", "find403", "throw", "edit", "stop"}

Agents == Hosts \union Loops

VARIABLES
  isRunning,
  inFlight,
  pc,          \* pc[a]: where a loop, or a host's pass, is
  watches,     \* watches[w]: [enabled, venue], the watches table
  challenged,  \* providers whose session is challenged
  scanned,     \* what the pass in flight has taken: watches and challenged providers
  states,      \* backoffStates: a partial map from venues to backoff states
  warned,      \* pausedNotified
  outcomes,    \* outcomeByVenue: what is left of it to process
  delay,       \* the last sleep, in base intervals
  since        \* history: what a venue has seen last of a challenged session,
               \* another challenge, or a handover or edit of a watch there

env  == <<isRunning, watches, challenged>>
book == <<states, warned, outcomes>>
vars == <<env, book, inFlight, pc, scanned, delay, since>>

Watch == [enabled : BOOLEAN, venue : Venues]
Maps(S, T) == UNION {[D -> T] : D \in SUBSET S}
NoMap == [v \in {} |-> "none"]

TypeOK ==
  /\ isRunning \in BOOLEAN /\ inFlight \in BOOLEAN
  /\ pc \in [Agents -> {"idle", "test", "scan", "update", "warn", "sleep"}]
  /\ watches \in [Watches -> Watch]
  /\ challenged \subseteq Providers
  /\ scanned \in [watches : SUBSET Watches, challenged : SUBSET Providers]
  /\ DOMAIN states \subseteq Venues /\ \A v \in DOMAIN states : states[v] \in BackoffState
  /\ warned \subseteq Venues
  /\ DOMAIN outcomes \subseteq Venues /\ \A v \in DOMAIN outcomes : outcomes[v] \in Outcomes
  /\ delay \in 0 .. MaxDelay
  /\ since \in [Venues -> {"login", "find", "renewal"}]

NothingScanned == [watches |-> {}, challenged |-> {}]

Init ==
  /\ isRunning = FALSE /\ inFlight = FALSE
  /\ pc = [a \in Agents |-> "idle"]
  /\ watches \in [Watches -> Watch]
  /\ challenged = {}
  /\ scanned = NothingScanned
  /\ states = NoMap /\ warned = {} /\ outcomes = NoMap
  /\ delay = 0
  /\ since = [v \in Venues |-> "renewal"]

Goto(a, where) == pc' = [pc EXCEPT ![a] = where]

-----------------------------------------------------------------------------
(* start and stop, as a host calls them.  A loop that was stopped in its   *)
(* sleep or in a pass is still there, and goes on if it is started again   *)
(* before it looks: then there are two.                                    *)
StartLoop ==
  /\ ~isRunning
  /\ isRunning' = TRUE
  /\ \E l \in Loops : pc[l] = "idle" /\ Goto(l, "test")
  /\ UNCHANGED <<watches, challenged, book, inFlight, scanned, delay, since>>

StopLoop ==
  /\ "stop" \in Faults
  /\ isRunning
  /\ isRunning' = FALSE
  /\ UNCHANGED <<watches, challenged, book, inFlight, pc, scanned, delay, since>>

(* A loop's test: stopped, or on to a pass.                                *)
LoopEnds(l) ==
  /\ pc[l] = "test"
  /\ ~isRunning
  /\ Goto(l, "idle")
  /\ UNCHANGED <<env, book, inFlight, scanned, delay, since>>

Wake(l) ==
  /\ pc[l] = "sleep"
  /\ Goto(l, "test")
  /\ UNCHANGED <<env, book, inFlight, scanned, delay, since>>

Calls(a) == IF a \in Loops THEN pc[a] = "test" /\ isRunning ELSE pc[a] = "idle"

Enabled == {w \in Watches : watches[w].enabled}

(* Mutant of BeginPass: no single-flight guard.                            *)
BeginPassUnguarded(a) ==
  /\ Calls(a)
  /\ inFlight' = TRUE
  /\ scanned' = [watches |-> Enabled, challenged |-> challenged]
  /\ Goto(a, "scan")
  /\ UNCHANGED <<env, book, delay, since>>

(* pass(): single-flight, then the scan.                                   *)
BeginPass(a) ==
  /\ Calls(a)
  /\ ~inFlight
  /\ inFlight' = TRUE
  /\ scanned' = [watches |-> Enabled, challenged |-> challenged]
  /\ Goto(a, "scan")
  /\ UNCHANGED <<env, book, delay, since>>

(* nextSleepMs: the most backed-off venue that is not paused.              *)
Delays(st) == {1} \union {backoffDelay(st[v]) : v \in {u \in DOMAIN st : ~st[u].paused}}
NextSleep(st) == CHOOSE d \in Delays(st) : \A e \in Delays(st) : e <= d

(* Where pass() returns to: its caller; a loop goes to sleep if it has     *)
(* not been stopped meanwhile.                                             *)
Return(a) ==
  IF a \in Loops /\ isRunning
  THEN Goto(a, "sleep") /\ delay' = NextSleep(states')
  ELSE Goto(a, "idle") /\ UNCHANGED delay

SkipPass(a) ==
  /\ Calls(a)
  /\ inFlight
  /\ UNCHANGED <<env, book, inFlight, scanned, since>>
  /\ Return(a)

-----------------------------------------------------------------------------
(* The report of a pass: the error class of each watch taken, or "none".   *)
(* A watch of a provider that stayed challenged reports challenged; a      *)
(* login may challenge a provider (fresh), and the provider may answer     *)
(* find with a challenge, which leaves its session as it is.               *)
ProviderOfWatch(w) == ProviderOf[watches[w].venue]

MayReport(w, class, fresh) ==
  LET p == ProviderOfWatch(w)
      stayed == p \in scanned.challenged /\ p \in challenged
  IN CASE class = "challenged" -> p \in scanned.challenged \union fresh \/ "find403" \in Faults
       [] class = "error"      -> ~stayed /\ "error" \in Faults
       [] class = "none"       -> ~stayed

Reports(fresh) ==
  {r \in [scanned.watches -> {"none", "error", "challenged"}] :
     /\ \A w \in scanned.watches : MayReport(w, r[w], fresh)
     /\ \A p \in fresh : \E w \in scanned.watches : ProviderOfWatch(w) = p /\ r[w] = "challenged"}

EnabledVenues == {watches[w].venue : w \in Enabled}

(* updateBackoff, lines 157-166: every enabled venue starts as a success;  *)
(* each error counts for the venue its watch has now; challenged sticks.   *)
OutcomeByVenue(r) ==
  LET errors(v) == {r[w] : w \in {u \in DOMAIN r : r[u] # "none" /\ watches[u].venue = v}}
  IN [v \in EnabledVenues \union {watches[w].venue : w \in {u \in DOMAIN r : r[u] # "none"}} |->
        IF "challenged" \in errors(v) THEN "challenged"
        ELSE IF errors(v) # {} THEN "error" ELSE "success"]

(* Mutant of Prune: nothing is dropped.                                    *)
PruneNothing(st) == st

(* Drop the backoff state of venues that are no longer enabled.            *)
Prune(st) == [v \in DOMAIN st \intersect EnabledVenues |-> st[v]]

DropDisabled ==
  /\ states' = Prune(states)
  /\ warned' = warned \intersect EnabledVenues

(* What challenged a venue: the session its provider has, one handed over  *)
(* since the pass began, or find.                                          *)
Challenge(v, now) ==
  IF ProviderOf[v] \in now THEN "login"
  ELSE IF ProviderOf[v] \in scanned.challenged THEN since[v] ELSE "find"

ScanReturns(a) ==
  /\ pc[a] = "scan"
  /\ \E fresh \in SUBSET (Providers \ challenged) :
     \E r \in Reports(fresh) :
       /\ fresh # {} => "login" \in Faults
       /\ challenged' = challenged \union fresh
       /\ outcomes' = OutcomeByVenue(r)
       /\ since' = [v \in Venues |-> IF v \in DOMAIN outcomes' /\ outcomes'[v] = "challenged"
                                     THEN Challenge(v, challenged') ELSE since[v]]
  /\ DropDisabled
  /\ Goto(a, "update")
  /\ UNCHANGED <<isRunning, watches, inFlight, scanned, delay>>

(* Mutant of ScanThrows: without the finally, the guard stays up.          *)
ScanThrowsHeld(a) ==
  /\ "throw" \in Faults
  /\ pc[a] = "scan"
  /\ scanned' = NothingScanned
  /\ UNCHANGED <<env, book, inFlight, since>>
  /\ Return(a)

(* runOnce rejects, or the repository throws in updateBackoff before or    *)
(* after the pruning: finally clears the guard, and the loop logs the      *)
(* fault and continues.                                                    *)
ScanThrows(a) ==
  /\ "throw" \in Faults
  /\ pc[a] = "scan"
  /\ inFlight' = FALSE
  /\ scanned' = NothingScanned
  /\ \/ UNCHANGED <<states, warned>>
     \/ DropDisabled
  /\ UNCHANGED <<env, outcomes, since>>
  /\ Return(a)

(* One venue of outcomeByVenue: its next state, and the warning when the   *)
(* venue has just been paused.                                             *)
UpdateVenue(a, v) ==
  LET previous == IF v \in DOMAIN states THEN states[v] ELSE initialBackoffState
      state    == nextDelay(previous, outcomes[v])
      notify   == state.paused /\ v \notin warned
  IN
  /\ pc[a] = "update"
  /\ v \in DOMAIN outcomes
  /\ states' = [u \in DOMAIN states \union {v} |-> IF u = v THEN state ELSE states[u]]
  /\ outcomes' = [u \in DOMAIN outcomes \ {v} |-> outcomes[u]]
  /\ warned' = IF state.paused THEN warned \union {v} ELSE warned \ {v}
  /\ Goto(a, IF notify THEN "warn" ELSE "update")
  /\ UNCHANGED <<env, inFlight, scanned, delay, since>>

WarnReturns(a) ==
  /\ pc[a] = "warn"
  /\ Goto(a, "update")
  /\ UNCHANGED <<env, book, inFlight, scanned, delay, since>>

EndPass(a) ==
  /\ pc[a] = "update"
  /\ DOMAIN outcomes = {}
  /\ inFlight' = FALSE
  /\ scanned' = NothingScanned
  /\ UNCHANGED <<env, book, since>>
  /\ Return(a)

-----------------------------------------------------------------------------
(* The operator: hands over a session, edits a watch.                      *)
Handover(p) ==
  /\ p \in challenged
  /\ challenged' = challenged \ {p}
  /\ since' = [v \in Venues |-> IF ProviderOf[v] = p THEN "renewal" ELSE since[v]]
  /\ UNCHANGED <<isRunning, watches, book, inFlight, pc, scanned, delay>>

EditWatch(w) ==
  /\ "edit" \in Faults
  /\ \E row \in Watch :
       /\ row # watches[w]
       /\ watches' = [watches EXCEPT ![w] = row]
       /\ since' = [since EXCEPT ![watches[w].venue] = "renewal", ![row.venue] = "renewal"]
  /\ UNCHANGED <<isRunning, challenged, book, inFlight, pc, scanned, delay>>

AgentStep(a) ==
  \/ BeginPass(a) \/ SkipPass(a)
  \/ ScanReturns(a) \/ ScanThrows(a)
  \/ \E v \in Venues : UpdateVenue(a, v)
  \/ WarnReturns(a) \/ EndPass(a)

LoopStep(l) == LoopEnds(l) \/ Wake(l) \/ AgentStep(l)

Next ==
  \/ StartLoop \/ StopLoop
  \/ \E l \in Loops : LoopEnds(l) \/ Wake(l)
  \/ \E a \in Agents : AgentStep(a)
  \/ \E p \in Providers : Handover(p)
  \/ \E w \in Watches : EditWatch(w)

Spec == Init /\ [][Next]_vars

(* The server starts a loop; the timer of a sleep fires, and what a pass   *)
(* awaits settles, for the loops and for a host that has begun one.        *)
FairSpec ==
  /\ Spec
  /\ WF_vars(StartLoop)
  /\ \A l \in Loops : WF_vars(LoopStep(l))
  /\ \A a \in Hosts : WF_vars(AgentStep(a) /\ pc[a] # "idle")

-----------------------------------------------------------------------------
Busy(a) == pc[a] \in {"scan", "update", "warn"}

(* "single-flight (a slow pass never overlaps the next tick)", nor a       *)
(* host's: one pass at a time, and its bookkeeping is part of it.          *)
SingleFlight == \A a, b \in Agents : Busy(a) /\ Busy(b) => a = b

(* "warned once": the venues the operator has been warned of are exactly   *)
(* the paused ones, so each pause rings once, and a new pause rings again. *)
WarnedIffPaused == warned = {v \in DOMAIN states : states[v].paused}

(* "A repeatedly-challenged provider is warned once and left paused until  *)
(* a fresh session is handed over" (scheduler.ts): a pause is lifted only  *)
(* after a session was handed over, or a watch edited, at the venue.       *)
PauseNeedsHandover ==
  [][\A v \in DOMAIN states \intersect DOMAIN states' :
       states[v].paused /\ ~states'[v].paused => since[v] = "renewal"]_vars

(* A venue whose provider a pass has found with a challenged session stays *)
(* paused until a handover to that provider (or an edit of a watch there,  *)
(* since a venue enabled again while a pass runs counts as a success):     *)
(* whatever find answers, a pass that overlaps the challenge, the handover *)
(* or the other watches of the venue never reads as a success for it.      *)
LoginPauseNeedsHandover ==
  [][\A v \in DOMAIN states \intersect DOMAIN states' :
       states[v].paused /\ ~states'[v].paused => since[v] # "login"]_vars

(* "logged and the loop continues rather than dying": while the scheduler  *)
(* runs, a pass is always begun again, whatever the last one did.          *)
PassesGoOn == []<>((\E a \in Agents : pc[a] = "scan") \/ ~isRunning)

=============================================================================
