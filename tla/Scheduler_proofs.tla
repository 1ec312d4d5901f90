--------------------------- MODULE Scheduler_proofs ---------------------------
(***************************************************************************)
(* Proofs about the scheduler, for any venues, watches, hosts, thresholds  *)
(* and failures: passes are single-flight, the operator has been warned of *)
(* exactly the paused venues, and a challenged session keeps a paused      *)
(* venue paused until a handover, whatever find answers meanwhile.         *)
(***************************************************************************)
EXTENDS Scheduler, WellFoundedInduction, TLAPS

ControlTypeOK ==
  /\ pc \in [Agents -> {"idle", "test", "scan", "update", "warn", "sleep"}]
  /\ inFlight \in BOOLEAN

(* The guard is up while any pass is under way.                            *)
GuardIsUp == \A a \in Agents : Busy(a) => inFlight

FlightInv == ControlTypeOK /\ GuardIsUp /\ SingleFlight

(* A pass returns to its caller and is over.                               *)
LEMMA ReturnEnds ==
  ASSUME ControlTypeOK, NEW a \in Agents, Return(a)
  PROVE  \E where \in {"idle", "sleep"} : pc' = [pc EXCEPT ![a] = where]
  BY DEF Return, Goto

(* Every step keeps the guard: only a pass raises it, and only its end, by *)
(* whichever way, lowers it.                                               *)
LEMMA FlightKeeps ==
  ASSUME FlightInv, [Next]_vars
  PROVE  FlightInv'
<1> USE DEF FlightInv, ControlTypeOK
<1>1. CASE UNCHANGED <<pc, inFlight>>
  BY <1>1 DEF GuardIsUp, SingleFlight, Busy
<1>2. CASE StartLoop \/ \E l \in Loops : LoopEnds(l) \/ Wake(l)
  <2>1. PICK l \in Loops, where \in {"idle", "test"} : pc' = [pc EXCEPT ![l] = where]
    BY <1>2 DEF StartLoop, LoopEnds, Wake, Goto
  <2>2. l \in Agents
    BY DEF Agents
  <2>3. UNCHANGED inFlight
    BY <1>2 DEF StartLoop, LoopEnds, Wake, env, book
  <2> QED BY <2>1, <2>2, <2>3 DEF GuardIsUp, SingleFlight, Busy
<1>3. ASSUME NEW a \in Agents, BeginPass(a)
      PROVE  FlightInv'
  <2>1. \A b \in Agents : ~Busy(b)
    BY <1>3 DEF BeginPass, GuardIsUp
  <2> QED BY <1>3, <2>1 DEF BeginPass, Goto, GuardIsUp, SingleFlight, Busy
<1>4. ASSUME NEW a \in Agents, SkipPass(a)
      PROVE  FlightInv'
  <2>1. PICK where \in {"idle", "sleep"} : pc' = [pc EXCEPT ![a] = where]
    BY <1>4, ReturnEnds DEF SkipPass
  <2> QED BY <1>4, <2>1 DEF SkipPass, GuardIsUp, SingleFlight, Busy
<1>5. ASSUME NEW a \in Agents,
             ScanReturns(a) \/ WarnReturns(a) \/ \E v \in Venues : UpdateVenue(a, v)
      PROVE  FlightInv'
  <2>1. PICK where \in {"update", "warn"} : pc' = [pc EXCEPT ![a] = where]
    BY <1>5 DEF ScanReturns, WarnReturns, UpdateVenue, Goto
  <2>2. UNCHANGED inFlight /\ Busy(a)
    BY <1>5 DEF ScanReturns, WarnReturns, UpdateVenue, Busy
  <2> QED BY <2>1, <2>2 DEF GuardIsUp, SingleFlight, Busy
<1>6. ASSUME NEW a \in Agents, ScanThrows(a) \/ EndPass(a)
      PROVE  FlightInv'
  <2>1. PICK where \in {"idle", "sleep"} : pc' = [pc EXCEPT ![a] = where]
    BY <1>6, ReturnEnds DEF ScanThrows, EndPass
  <2>2. inFlight' = FALSE /\ Busy(a)
    BY <1>6 DEF ScanThrows, EndPass, Busy
  <2>3. \A b \in Agents : b # a => ~Busy(b)
    BY <2>2 DEF SingleFlight
  <2> QED BY <2>1, <2>2, <2>3 DEF GuardIsUp, SingleFlight, Busy
<1>7. CASE StopLoop \/ (\E p \in Providers : Handover(p)) \/ (\E w \in Watches : EditWatch(w))
           \/ UNCHANGED vars
  BY <1>1, <1>7 DEF StopLoop, Handover, EditWatch, vars
<1> QED BY <1>2, <1>3, <1>4, <1>5, <1>6, <1>7 DEF Next, AgentStep

(* The guard is up throughout a pass.                                      *)
LEMMA FlightInvariant == Spec => []FlightInv
<1>1. Init => FlightInv
  BY DEF Init, FlightInv, ControlTypeOK, GuardIsUp, SingleFlight, Busy
<1>2. FlightInv /\ [Next]_vars => FlightInv'
  BY FlightKeeps
<1> QED BY <1>1, <1>2, PTL DEF Spec

(* "single-flight (a slow pass never overlaps the next tick)", nor a       *)
(* host's, however many hosts there are and whatever throws.               *)
THEOREM PassesAreSingleFlight == Spec => []SingleFlight
<1>1. FlightInv => SingleFlight
  BY DEF FlightInv
<1> QED BY <1>1, FlightInvariant, PTL

-----------------------------------------------------------------------------
(* "warned once": the set of venues warned of is exactly the set of paused *)
(* ones, through edits of the watches, errors and throwing passes.         *)
THEOREM WarnedOfExactlyThePaused == Spec => []WarnedIffPaused
<1>1. Init => WarnedIffPaused
  BY DEF Init, NoMap, WarnedIffPaused
<1>2. ASSUME WarnedIffPaused, [Next]_vars
      PROVE  WarnedIffPaused'
  <2> USE <1>2 DEF WarnedIffPaused
  <2>1. CASE UNCHANGED <<states, warned>>
    BY <2>1
  <2>2. CASE DropDisabled
    BY <2>2 DEF DropDisabled, Prune
  <2>3. ASSUME NEW a \in Agents, NEW v \in Venues, UpdateVenue(a, v)
        PROVE  WarnedIffPaused'
    <3> DEFINE state == nextDelay(IF v \in DOMAIN states THEN states[v] ELSE initialBackoffState, outcomes[v])
    <3>1. /\ states' = [u \in DOMAIN states \union {v} |-> IF u = v THEN state ELSE states[u]]
          /\ warned' = IF state.paused THEN warned \union {v} ELSE warned \ {v}
      BY <2>3 DEF UpdateVenue
    <3> HIDE DEF state
    <3> QED BY <3>1
  <2>4. ASSUME NEW a \in Agents, ScanReturns(a) \/ ScanThrows(a)
        PROVE  WarnedIffPaused'
    BY <2>1, <2>2, <2>4 DEF ScanReturns, ScanThrows
  <2>5. CASE \/ UNCHANGED vars \/ StartLoop \/ StopLoop \/ \E l \in Loops : LoopEnds(l) \/ Wake(l)
             \/ \E a \in Agents : BeginPass(a) \/ SkipPass(a) \/ WarnReturns(a) \/ EndPass(a)
             \/ \E p \in Providers : Handover(p)
             \/ \E w \in Watches : EditWatch(w)
    BY <2>1, <2>5 DEF vars, book, StartLoop, StopLoop, LoopEnds, Wake, BeginPass, SkipPass, WarnReturns,
       EndPass, Handover, EditWatch
  <2> QED BY <1>2, <2>3, <2>4, <2>5 DEF Next, AgentStep
<1> QED BY <1>1, <1>2, PTL DEF Spec

-----------------------------------------------------------------------------
(* A pause that a challenged session keeps ends by a handover.             *)
TablesTypeOK ==
  /\ watches \in [Watches -> Watch]
  /\ scanned.watches \subseteq Watches

SinceTypeOK == since \in [Venues -> {"login", "find", "renewal"}]

(* What was challenged by its session has its provider challenged still.   *)
LoginIsChallenged == \A v \in Venues : since[v] = "login" => ProviderOf[v] \in challenged

(* The pass under way has taken all its watches and knows it challenged.   *)
ScanKnows ==
  (\E a \in Agents : pc[a] = "scan") =>
    \A v \in Venues : since[v] = "login" =>
      /\ ProviderOf[v] \in scanned.challenged
      /\ \A w \in Enabled : watches[w].venue = v => w \in scanned.watches

(* So no outcome but challenged is left to process for it.                 *)
LoginOutcome == \A v \in DOMAIN outcomes : v \in Venues /\ (since[v] = "login" => outcomes[v] = "challenged")

PauseInv == FlightInv /\ TablesTypeOK /\ SinceTypeOK /\ LoginIsChallenged /\ ScanKnows /\ LoginOutcome

(* The report of such a pass.                                              *)
LEMMA ReportOfChallenged ==
  ASSUME PauseInv, NEW a \in Agents, ScanReturns(a)
  PROVE  SinceTypeOK' /\ LoginIsChallenged' /\ LoginOutcome'
<1>0. watches \in [Watches -> Watch] /\ scanned.watches \subseteq Watches
  BY DEF PauseInv, TablesTypeOK
<1>a. PICK fresh \in SUBSET (Providers \ challenged) :
        \E r \in Reports(fresh) :
          /\ challenged' = challenged \union fresh
          /\ outcomes' = OutcomeByVenue(r)
          /\ since' = [v \in Venues |-> IF v \in DOMAIN outcomes' /\ outcomes'[v] = "challenged"
                                       THEN Challenge(v, challenged') ELSE since[v]]
  BY DEF ScanReturns
<1>1. PICK r \in Reports(fresh) :
        /\ challenged' = challenged \union fresh
        /\ outcomes' = OutcomeByVenue(r)
        /\ since' = [v \in Venues |-> IF v \in DOMAIN outcomes' /\ outcomes'[v] = "challenged"
                                     THEN Challenge(v, challenged') ELSE since[v]]
  BY <1>a
<1>2. /\ r \in [scanned.watches -> {"none", "error", "challenged"}]
      /\ DOMAIN r = scanned.watches
      /\ \A w \in scanned.watches : MayReport(w, r[w], fresh)
  BY DEF Reports
<1> DEFINE errors(v) == {r[w] : w \in {u \in DOMAIN r : r[u] # "none" /\ watches[u].venue = v}}
<1>3. /\ DOMAIN outcomes' = EnabledVenues \union {watches[w].venue : w \in {u \in DOMAIN r : r[u] # "none"}}
      /\ \A v \in DOMAIN outcomes' :
           outcomes'[v] = IF "challenged" \in errors(v) THEN "challenged"
                          ELSE IF errors(v) # {} THEN "error" ELSE "success"
  BY <1>1 DEF OutcomeByVenue
<1>4. DOMAIN outcomes' \subseteq Venues
  BY <1>0, <1>2, <1>3 DEF EnabledVenues, Enabled, Watch
<1>5. ASSUME NEW v \in DOMAIN outcomes', since[v] = "login"
      PROVE  outcomes'[v] = "challenged"
  <2>1. /\ v \in Venues /\ ProviderOf[v] \in challenged /\ ProviderOf[v] \in scanned.challenged
        /\ \A w \in Enabled : watches[w].venue = v => w \in scanned.watches
    BY <1>4, <1>5 DEF PauseInv, LoginIsChallenged, ScanKnows, ScanReturns
  <2>2. \A w \in scanned.watches : watches[w].venue = v => r[w] = "challenged"
    BY <1>2, <2>1 DEF MayReport, ProviderOfWatch
  <2>3. \E w \in scanned.watches : watches[w].venue = v
    BY <1>2, <1>3, <2>1 DEF EnabledVenues
  <2> QED BY <1>2, <1>3, <2>2, <2>3
<1> HIDE DEF errors
<1>6. SinceTypeOK'
  <2>1. \A v \in Venues : Challenge(v, challenged') \in {"login", "find", "renewal"}
    BY DEF Challenge, PauseInv, SinceTypeOK
  <2> QED BY <1>1, <2>1 DEF PauseInv, SinceTypeOK
<1>7. ASSUME NEW v \in Venues, since'[v] = "login"
      PROVE  /\ ProviderOf[v] \in challenged'
             /\ v \in DOMAIN outcomes' => since[v] = "login" \/ outcomes'[v] = "challenged"
  <2>1. CASE v \in DOMAIN outcomes' /\ outcomes'[v] = "challenged"
    <3>1. Challenge(v, challenged') = "login"
      BY <1>1, <1>7, <2>1
    <3>2. ProviderOf[v] \in challenged' \/ since[v] = "login"
      BY <3>1 DEF Challenge
    <3>3. challenged \subseteq challenged'
      BY <1>1
    <3> QED BY <2>1, <3>2, <3>3 DEF PauseInv, LoginIsChallenged
  <2>2. CASE ~(v \in DOMAIN outcomes' /\ outcomes'[v] = "challenged")
    <3>1. since[v] = "login"
      BY <1>1, <1>7, <2>2
    <3>2. challenged \subseteq challenged'
      BY <1>1
    <3> QED BY <3>1, <3>2 DEF PauseInv, LoginIsChallenged
  <2> QED BY <2>1, <2>2
<1>8. LoginIsChallenged'
  BY <1>7 DEF LoginIsChallenged
<1>9. LoginOutcome'
  BY <1>4, <1>5, <1>7 DEF LoginOutcome
<1> QED BY <1>6, <1>8, <1>9

(* Every step keeps PauseInv.                                              *)
LEMMA PauseKeeps ==
  ASSUME PauseInv, [Next]_vars
  PROVE  PauseInv'
<1>0. FlightInv'
  BY FlightKeeps DEF PauseInv
<1>1. pc \in [Agents -> {"idle", "test", "scan", "update", "warn", "sleep"}]
  BY DEF PauseInv, FlightInv, ControlTypeOK
<1>2. ASSUME UNCHANGED <<watches, challenged, scanned, outcomes, since>>,
             \A a \in Agents : pc'[a] = "scan" => pc[a] = "scan"
      PROVE  PauseInv'
  BY <1>0, <1>2 DEF PauseInv, TablesTypeOK, SinceTypeOK, LoginIsChallenged, ScanKnows, LoginOutcome, Enabled
<1>3. CASE UNCHANGED vars \/ StartLoop \/ StopLoop \/ \E l \in Loops : LoopEnds(l) \/ Wake(l)
  <2>1. UNCHANGED <<watches, challenged, scanned, outcomes, since>>
    BY <1>3 DEF vars, env, book, StartLoop, StopLoop, LoopEnds, Wake
  <2>2. \A a \in Agents : pc'[a] = "scan" => pc[a] = "scan"
    BY <1>1, <1>3 DEF vars, StartLoop, StopLoop, LoopEnds, Wake, Goto
  <2> QED BY <1>2, <2>1, <2>2
<1>4. ASSUME NEW a \in Agents, BeginPass(a)
      PROVE  PauseInv'
  <2>1. /\ UNCHANGED <<watches, challenged, outcomes, since>>
        /\ scanned' = [watches |-> Enabled, challenged |-> challenged]
    BY <1>4 DEF BeginPass, env, book
  <2> QED BY <1>0, <2>1 DEF PauseInv, TablesTypeOK, SinceTypeOK, LoginIsChallenged, ScanKnows, LoginOutcome, Enabled
<1>5. ASSUME NEW a \in Agents, SkipPass(a)
      PROVE  PauseInv'
  <2>1. UNCHANGED <<watches, challenged, scanned, outcomes, since>>
    BY <1>5 DEF SkipPass, env, book
  <2>2. \E where \in {"idle", "sleep"} : pc' = [pc EXCEPT ![a] = where]
    BY <1>5, ReturnEnds DEF SkipPass, PauseInv, FlightInv
  <2> QED BY <1>1, <1>2, <2>1, <2>2
<1>6. ASSUME NEW a \in Agents, ScanReturns(a)
      PROVE  PauseInv'
  <2>1. \A b \in Agents : pc'[b] # "scan"
    <3>1. pc' = [pc EXCEPT ![a] = "update"] /\ Busy(a)
      BY <1>6 DEF ScanReturns, Goto, Busy
    <3>2. \A b \in Agents : b # a => ~Busy(b)
      BY <3>1 DEF PauseInv, FlightInv, SingleFlight
    <3> QED BY <1>1, <3>1, <3>2 DEF Busy
  <2>2. UNCHANGED <<watches, scanned>>
    BY <1>6 DEF ScanReturns
  <2> QED BY <1>0, <1>6, <2>1, <2>2, ReportOfChallenged DEF PauseInv, TablesTypeOK, ScanKnows
<1>7. ASSUME NEW a \in Agents, ScanThrows(a) \/ EndPass(a)
      PROVE  PauseInv'
  <2>1. UNCHANGED <<watches, challenged, outcomes, since>> /\ scanned' = NothingScanned /\ Busy(a)
    BY <1>7 DEF ScanThrows, EndPass, env, book, Busy
  <2>2. \E where \in {"idle", "sleep"} : pc' = [pc EXCEPT ![a] = where]
    BY <1>7, ReturnEnds DEF ScanThrows, EndPass, PauseInv, FlightInv
  <2>3. \A b \in Agents : pc'[b] # "scan"
    <3>1. \A b \in Agents : b # a => ~Busy(b)
      BY <2>1 DEF PauseInv, FlightInv, SingleFlight
    <3> QED BY <1>1, <2>2, <3>1 DEF Busy
  <2> QED BY <1>0, <2>1, <2>3 DEF PauseInv, TablesTypeOK, SinceTypeOK, LoginIsChallenged, ScanKnows, LoginOutcome,
            NothingScanned
<1>8. ASSUME NEW a \in Agents, NEW v \in Venues, UpdateVenue(a, v)
      PROVE  PauseInv'
  <2>1. /\ UNCHANGED <<watches, challenged, scanned, since>>
        /\ outcomes' = [u \in DOMAIN outcomes \ {v} |-> outcomes[u]]
    BY <1>8 DEF UpdateVenue, env
  <2>2. \A b \in Agents : pc'[b] = "scan" => pc[b] = "scan"
    BY <1>1, <1>8 DEF UpdateVenue, Goto
  <2> QED BY <1>0, <2>1, <2>2 DEF PauseInv, TablesTypeOK, SinceTypeOK, LoginIsChallenged, ScanKnows, LoginOutcome, Enabled
<1>9. ASSUME NEW a \in Agents, WarnReturns(a)
      PROVE  PauseInv'
  <2>1. UNCHANGED <<watches, challenged, scanned, outcomes, since>>
    BY <1>9 DEF WarnReturns, env, book
  <2>2. \A b \in Agents : pc'[b] = "scan" => pc[b] = "scan"
    BY <1>1, <1>9 DEF WarnReturns, Goto
  <2> QED BY <1>2, <2>1, <2>2
<1>10. ASSUME NEW p \in Providers, Handover(p)
       PROVE  PauseInv'
  <2>1. /\ UNCHANGED <<watches, scanned, outcomes, pc>>
        /\ challenged' = challenged \ {p}
        /\ since' = [v \in Venues |-> IF ProviderOf[v] = p THEN "renewal" ELSE since[v]]
    BY <1>10 DEF Handover, book
  <2> QED BY <1>0, <2>1 DEF PauseInv, TablesTypeOK, SinceTypeOK, LoginIsChallenged, ScanKnows, LoginOutcome, Enabled
<1>11. ASSUME NEW w \in Watches, EditWatch(w)
       PROVE  PauseInv'
  <2>1. PICK row \in Watch :
          /\ watches' = [watches EXCEPT ![w] = row]
          /\ since' = [since EXCEPT ![watches[w].venue] = "renewal", ![row.venue] = "renewal"]
    BY <1>11 DEF EditWatch
  <2>2. UNCHANGED <<challenged, scanned, outcomes, pc>>
    BY <1>11 DEF EditWatch, book
  <2>3. /\ watches' \in [Watches -> Watch]
        /\ \A u \in Watches : u # w => watches'[u] = watches[u]
        /\ watches'[w] = row
    BY <2>1 DEF PauseInv, TablesTypeOK
  <2> QED BY <1>0, <2>1, <2>2, <2>3 DEF PauseInv, TablesTypeOK, SinceTypeOK, LoginIsChallenged, ScanKnows, LoginOutcome, Enabled
<1> QED BY <1>3, <1>4, <1>5, <1>6, <1>7, <1>8, <1>9, <1>10, <1>11 DEF Next, AgentStep

(* A venue whose provider a pass has found with a challenged session stays *)
(* paused until a handover to that provider, or an edit of a watch there,  *)
(* for any watches, hosts and loops, and whatever find answers meanwhile.  *)
THEOREM ChallengedStaysPaused == Spec => LoginPauseNeedsHandover
<1>1. Init => PauseInv
  <2> SUFFICES ASSUME Init PROVE PauseInv
    OBVIOUS
  <2>1. FlightInv
    BY DEF Init, FlightInv, ControlTypeOK, GuardIsUp, SingleFlight, Busy
  <2> QED BY <2>1 DEF Init, PauseInv, TablesTypeOK, SinceTypeOK, LoginIsChallenged, ScanKnows, LoginOutcome,
            NothingScanned, NoMap
<1>2. PauseInv /\ [Next]_vars => PauseInv'
  BY PauseKeeps
<1>3. ASSUME PauseInv, [Next]_vars
      PROVE  \A v \in DOMAIN states \intersect DOMAIN states' :
               states[v].paused /\ ~states'[v].paused => since[v] # "login"
  <2>1. CASE UNCHANGED states \/ DropDisabled
    BY <2>1 DEF DropDisabled, Prune
  <2>2. ASSUME NEW a \in Agents, NEW u \in Venues, UpdateVenue(a, u)
        PROVE  \A v \in DOMAIN states \intersect DOMAIN states' :
                 states[v].paused /\ ~states'[v].paused => since[v] # "login"
    <3> DEFINE state == nextDelay(IF u \in DOMAIN states THEN states[u] ELSE initialBackoffState, outcomes[u])
    <3>1. states' = [v \in DOMAIN states \union {u} |-> IF v = u THEN state ELSE states[v]]
      BY <2>2 DEF UpdateVenue
    <3>2. u \in DOMAIN states /\ states[u].paused /\ outcomes[u] = "challenged" => state.paused
      BY DEF nextDelay, AfterChallenge
    <3>3. since[u] = "login" => outcomes[u] = "challenged"
      BY <1>3, <2>2 DEF PauseInv, LoginOutcome, UpdateVenue
    <3> HIDE DEF state
    <3> QED BY <3>1, <3>2, <3>3
  <2>3. ASSUME NEW a \in Agents, ScanReturns(a) \/ ScanThrows(a)
        PROVE  UNCHANGED states \/ DropDisabled
    BY <2>3 DEF ScanReturns, ScanThrows
  <2>4. CASE \/ UNCHANGED vars \/ StartLoop \/ StopLoop \/ \E l \in Loops : LoopEnds(l) \/ Wake(l)
             \/ \E a \in Agents : BeginPass(a) \/ SkipPass(a) \/ WarnReturns(a) \/ EndPass(a)
             \/ \E p \in Providers : Handover(p)
             \/ \E w \in Watches : EditWatch(w)
    BY <2>1, <2>4 DEF vars, book, StartLoop, StopLoop, LoopEnds, Wake, BeginPass, SkipPass, WarnReturns,
       EndPass, Handover, EditWatch
  <2> QED BY <1>3, <2>1, <2>2, <2>3, <2>4 DEF Next, AgentStep
<1> QED BY <1>1, <1>2, <1>3, PTL DEF Spec, LoginPauseNeedsHandover

-----------------------------------------------------------------------------
(* A set of delays has a greatest: its differences to MaxDelay have a      *)
(* least.                                                                  *)
LEMMA GreatestDelay ==
  ASSUME NEW S \in SUBSET (1 .. MaxDelay), S # {}
  PROVE  \E d \in S : \A e \in S : e <= d
<1> DEFINE T == {MaxDelay - d : d \in S}
<1>1. T \subseteq Nat /\ T # {}
  <2>1. MaxDelay \in Nat
    BY BackoffConstants
  <2>2. \A d \in S : MaxDelay - d \in Nat
    BY <2>1
  <2>3. PICK d \in S : TRUE
    OBVIOUS
  <2> QED BY <2>2, <2>3
<1>2. IsWellFoundedOn(OpToRel(<, Nat), Nat)
  BY NatLessThanWellFounded
<1>3. PICK m \in T : \A n \in T : ~(<<n, m>> \in OpToRel(<, Nat))
  <2> HIDE DEF T
  <2> QED BY <1>1, <1>2, WFMin
<1>4. \A n \in T : m <= n
  <2> SUFFICES ASSUME NEW n \in T PROVE m <= n
    OBVIOUS
  <2>1. m \in Nat /\ n \in Nat
    BY <1>1
  <2>2. ~(n < m)
    <3>1. <<n, m>> \notin {ss \in Nat \X Nat : ss[1] < ss[2]}
      BY <1>3 DEF OpToRel
    <3> HIDE DEF T
    <3> QED BY <2>1, <3>1
  <2> QED BY <2>1, <2>2
<1>5. PICK d \in S : m = MaxDelay - d
  OBVIOUS
<1>6. ASSUME NEW e \in S
      PROVE  e <= d
  <2>1. m <= MaxDelay - e
    BY <1>4
  <2> QED BY <1>5, <2>1, BackoffConstants
<1> QED BY <1>6

(* The backoff states stay within their caps, whatever the outcome.        *)
LEMMA BackoffTypes ==
  ASSUME NEW s \in BackoffState, NEW outcome \in Outcomes
  PROVE  /\ nextDelay(s, outcome) \in BackoffState
         /\ backoffDelay(s) \in 1 .. MaxDelay
<1> USE BackoffConstants DEF BackoffState
<1>1. AfterSuccess(s) \in BackoffState
  BY DEF AfterSuccess, Greater
<1>2. AfterError(s) \in BackoffState
  BY DEF AfterError, Lesser
<1>3. AfterChallenge(s) \in BackoffState
  BY DEF AfterChallenge, Lesser
<1>4. backoffDelay(s) \in 1 .. MaxDelay
  BY DEF backoffDelay, Lesser
<1> QED BY <1>1, <1>2, <1>3, <1>4 DEF nextDelay, Outcomes

BackoffMap(st) == DOMAIN st \subseteq Venues /\ \A v \in DOMAIN st : st[v] \in BackoffState

(* The loop sleeps for a delay of one of the venues, or for one interval.  *)
LEMMA SleepIsBounded ==
  ASSUME NEW st, BackoffMap(st)
  PROVE  NextSleep(st) \in 0 .. MaxDelay
<1>1. ASSUME NEW v \in DOMAIN st
      PROVE  backoffDelay(st[v]) \in 1 .. MaxDelay
  <2>1. st[v] \in BackoffState
    BY DEF BackoffMap
  <2> QED BY <2>1, BackoffTypes DEF Outcomes
<1>2. Delays(st) \in SUBSET (1 .. MaxDelay) /\ Delays(st) # {}
  BY <1>1, BackoffConstants DEF Delays
<1>3. \E d \in Delays(st) : \A e \in Delays(st) : e <= d
  BY <1>2, GreatestDelay
<1>4. NextSleep(st) \in Delays(st)
  BY <1>3 DEF NextSleep
<1> QED BY <1>2, <1>4

SchedulerTypeInv ==
  /\ ControlTypeOK /\ TablesTypeOK
  /\ isRunning \in BOOLEAN /\ challenged \subseteq Providers
  /\ scanned \in [watches : SUBSET Watches, challenged : SUBSET Providers]
  /\ BackoffMap(states) /\ warned \subseteq Venues
  /\ DOMAIN outcomes \subseteq Venues /\ \A v \in DOMAIN outcomes : outcomes[v] \in Outcomes
  /\ delay \in 0 .. MaxDelay /\ SinceTypeOK

(* The types at the start.                                                 *)
LEMMA SchedulerTypeInit == Init => SchedulerTypeInv
<1> SUFFICES ASSUME Init PROVE SchedulerTypeInv
  OBVIOUS
<1>1. DOMAIN states = {} /\ DOMAIN outcomes = {}
  BY DEF Init, NoMap
<1>2. ControlTypeOK /\ TablesTypeOK
  BY DEF Init, ControlTypeOK, TablesTypeOK, NothingScanned
<1>3. scanned \in [watches : SUBSET Watches, challenged : SUBSET Providers]
  BY DEF Init, NothingScanned
<1>4. delay \in 0 .. MaxDelay
  BY BackoffConstants DEF Init
<1> QED BY <1>1, <1>2, <1>3, <1>4 DEF Init, SchedulerTypeInv, SinceTypeOK, BackoffMap

(* Where a pass returns to, the delay it leaves is one of the states'.     *)
LEMMA ReturnTypes ==
  ASSUME SchedulerTypeInv, NEW a \in Agents, Return(a), BackoffMap(states')
  PROVE  /\ delay' \in 0 .. MaxDelay
         /\ pc' \in [Agents -> {"idle", "test", "scan", "update", "warn", "sleep"}]
  BY SleepIsBounded DEF Return, Goto, SchedulerTypeInv, ControlTypeOK

(* The pruning of the states.                                              *)
LEMMA PruningTypes ==
  ASSUME SchedulerTypeInv, DropDisabled \/ UNCHANGED <<states, warned>>
  PROVE  BackoffMap(states') /\ warned' \subseteq Venues
  BY DEF SchedulerTypeInv, DropDisabled, Prune, BackoffMap

(* The report of a pass: an outcome for each enabled venue, and for each   *)
(* that an error is about.                                                 *)
LEMMA OutcomeTypes ==
  ASSUME SchedulerTypeInv, NEW fresh, NEW r \in Reports(fresh)
  PROVE  /\ DOMAIN OutcomeByVenue(r) \subseteq Venues
         /\ \A v \in DOMAIN OutcomeByVenue(r) : OutcomeByVenue(r)[v] \in Outcomes
<1>1. r \in [scanned.watches -> {"none", "error", "challenged"}] /\ scanned.watches \subseteq Watches
  BY DEF Reports, SchedulerTypeInv
<1>2. \A w \in Watches : watches[w].venue \in Venues
  BY DEF SchedulerTypeInv, TablesTypeOK, Watch
<1>3. EnabledVenues \subseteq Venues
  BY <1>2 DEF EnabledVenues, Enabled
<1>4. {watches[w].venue : w \in {u \in DOMAIN r : r[u] # "none"}} \subseteq Venues
  BY <1>1, <1>2
<1> QED BY <1>3, <1>4 DEF OutcomeByVenue, Outcomes

(* Steps of a pass under way.                                              *)
LEMMA PassTypes ==
  ASSUME SchedulerTypeInv, NEW a \in Agents, AgentStep(a)
  PROVE  SchedulerTypeInv'
<1>1. CASE BeginPass(a)
  BY <1>1 DEF BeginPass, Goto, env, book, Enabled, SchedulerTypeInv, ControlTypeOK, TablesTypeOK, SinceTypeOK, BackoffMap
<1>2. CASE SkipPass(a)
  <2>1. BackoffMap(states')
    BY <1>2 DEF SkipPass, book, SchedulerTypeInv, BackoffMap
  <2>2. Return(a)
    BY <1>2 DEF SkipPass
  <2> QED BY <1>2, <2>1, <2>2, ReturnTypes
      DEF SkipPass, env, book, SchedulerTypeInv, ControlTypeOK, TablesTypeOK, SinceTypeOK
<1>3. CASE ScanReturns(a)
  <2>1. PICK fresh \in SUBSET (Providers \ challenged) : \E r \in Reports(fresh) :
          /\ challenged' = challenged \union fresh
          /\ outcomes' = OutcomeByVenue(r)
    BY <1>3 DEF ScanReturns
  <2>2. DOMAIN outcomes' \subseteq Venues /\ \A v \in DOMAIN outcomes' : outcomes'[v] \in Outcomes
    BY <2>1, OutcomeTypes
  <2>3. BackoffMap(states') /\ warned' \subseteq Venues
    BY <1>3, PruningTypes DEF ScanReturns
  <2>4. challenged' \subseteq Providers
    BY <2>1 DEF SchedulerTypeInv
  <2>5. SinceTypeOK'
    <3>1. \A v \in Venues : Challenge(v, challenged') \in {"login", "find", "renewal"}
      BY DEF Challenge, SchedulerTypeInv, SinceTypeOK
    <3> QED BY <1>3, <3>1 DEF ScanReturns, SchedulerTypeInv, SinceTypeOK
  <2> QED BY <1>3, <2>2, <2>3, <2>4, <2>5
      DEF ScanReturns, Goto, SchedulerTypeInv, ControlTypeOK, TablesTypeOK, SinceTypeOK
<1>4. CASE ScanThrows(a)
  <2>1. BackoffMap(states') /\ warned' \subseteq Venues
    BY <1>4, PruningTypes DEF ScanThrows
  <2>2. Return(a)
    BY <1>4 DEF ScanThrows
  <2> QED BY <1>4, <2>1, <2>2, ReturnTypes
      DEF ScanThrows, NothingScanned, env, SchedulerTypeInv, ControlTypeOK, TablesTypeOK, SinceTypeOK
<1>5. ASSUME NEW v \in Venues, UpdateVenue(a, v)
      PROVE  SchedulerTypeInv'
  <2> DEFINE previous == IF v \in DOMAIN states THEN states[v] ELSE initialBackoffState
             state == nextDelay(previous, outcomes[v])
  <2>1. previous \in BackoffState
    BY BackoffConstants DEF SchedulerTypeInv, BackoffMap, initialBackoffState, BackoffState
  <2>2. outcomes[v] \in Outcomes
    BY <1>5 DEF UpdateVenue, SchedulerTypeInv
  <2>3. state \in BackoffState
    <3> HIDE DEF previous
    <3> QED BY <2>1, <2>2, BackoffTypes
  <2>4. states' = [u \in DOMAIN states \union {v} |-> IF u = v THEN state ELSE states[u]]
    BY <1>5 DEF UpdateVenue
  <2>5. BackoffMap(states')
    <3> HIDE DEF state
    <3> QED BY <2>3, <2>4 DEF SchedulerTypeInv, BackoffMap
  <2>6. warned' \in {warned \union {v}, warned \ {v}}
    BY <1>5 DEF UpdateVenue
  <2>7. /\ DOMAIN outcomes' \subseteq Venues
        /\ \A u \in DOMAIN outcomes' : outcomes'[u] \in Outcomes
    BY <1>5 DEF UpdateVenue, SchedulerTypeInv
  <2>8. PICK where \in {"warn", "update"} : pc' = [pc EXCEPT ![a] = where]
    BY <1>5 DEF UpdateVenue, Goto
  <2>9. UNCHANGED <<env, inFlight, scanned, delay, since>>
    BY <1>5 DEF UpdateVenue
  <2> QED BY <2>5, <2>6, <2>7, <2>8, <2>9 DEF env, SchedulerTypeInv, ControlTypeOK, TablesTypeOK, SinceTypeOK
<1>6. CASE WarnReturns(a)
  BY <1>6 DEF WarnReturns, Goto, env, book, SchedulerTypeInv, ControlTypeOK, TablesTypeOK, SinceTypeOK, BackoffMap
<1>7. CASE EndPass(a)
  <2>1. BackoffMap(states')
    BY <1>7 DEF EndPass, book, SchedulerTypeInv, BackoffMap
  <2>2. Return(a)
    BY <1>7 DEF EndPass
  <2> QED BY <1>7, <2>1, <2>2, ReturnTypes
      DEF EndPass, NothingScanned, env, book, SchedulerTypeInv, ControlTypeOK, TablesTypeOK, SinceTypeOK
<1> QED BY <1>1, <1>2, <1>3, <1>4, <1>5, <1>6, <1>7 DEF AgentStep

(* The rest: the loop, the operator.                                       *)
LEMMA OtherTypes ==
  ASSUME SchedulerTypeInv,
         \/ StartLoop \/ StopLoop \/ UNCHANGED vars
         \/ \E l \in Loops : LoopEnds(l) \/ Wake(l)
         \/ \E p \in Providers : Handover(p)
         \/ \E w \in Watches : EditWatch(w)
  PROVE  SchedulerTypeInv'
<1> USE DEF SchedulerTypeInv, ControlTypeOK, TablesTypeOK, SinceTypeOK, BackoffMap, env, book
<1>1. CASE StartLoop \/ StopLoop \/ \E l \in Loops : LoopEnds(l) \/ Wake(l)
  BY <1>1 DEF StartLoop, StopLoop, LoopEnds, Wake, Goto
<1>2. CASE UNCHANGED vars
  BY <1>2 DEF vars
<1>3. CASE \E p \in Providers : Handover(p)
  BY <1>3 DEF Handover
<1>4. CASE \E w \in Watches : EditWatch(w)
  <2>1. PICK w \in Watches, row \in Watch : /\ watches' = [watches EXCEPT ![w] = row]
                                           /\ since' = [since EXCEPT ![watches[w].venue] = "renewal", ![row.venue] = "renewal"]
    BY <1>4 DEF EditWatch
  <2>2. watches[w].venue \in Venues /\ row.venue \in Venues
    BY DEF Watch
  <2> QED BY <1>4, <2>1, <2>2 DEF EditWatch
<1> QED BY <1>1, <1>2, <1>3, <1>4

(* Multipliers, counts and the sleep stay within their caps whatever       *)
(* outcomes come, and states are kept for venues only.                     *)
THEOREM SchedulerTypes == Spec => []TypeOK
<1>1. Init => SchedulerTypeInv
  BY SchedulerTypeInit
<1>2. SchedulerTypeInv /\ [Next]_vars => SchedulerTypeInv'
  BY PassTypes, OtherTypes DEF Next
<1>3. SchedulerTypeInv => TypeOK
  BY DEF SchedulerTypeInv, TypeOK, ControlTypeOK, TablesTypeOK, SinceTypeOK, BackoffMap
<1> QED BY <1>1, <1>2, <1>3, PTL DEF Spec

=============================================================================
