-------------------------- MODULE SessionLifecycle --------------------------
(***************************************************************************)
(* The credential state machine of packages/core/src/services/session.ts:  *)
(* ensureLiveSession run by its callers (a scan pass, a manual booking,    *)
(* the availability and seating services), the providers' answers, and the *)
(* operator who hands a session over (credentials.ts).                     *)
(*                                                                         *)
(* Each await of ensureLiveSession is a control point; between two of them *)
(* a caller runs alone.  The rows of the sessions table are shared.        *)
(***************************************************************************)
EXTENDS Naturals

CONSTANTS
  Callers,    \* the concurrent calls of ensureLiveSession
  Providers,
  Headless,   \* the providers with capabilities.headlessAuth
  Faults,     \* which failures this instance admits
  MaxWarnings \* bound: warnings counted between two handovers

ASSUME SessionConstants ==
  /\ Headless \subseteq Providers
  /\ Faults \subseteq {"error", "challenge", "vault", "revoke", "crash"}
  /\ MaxWarnings \in Nat \ {0}

VARIABLES
  row,      \* row[p]: provider p's row of the sessions table
  pc,       \* pc[c]: which await caller c is at
  for,      \* for[c]: the provider caller c needs
  copy,     \* copy[c]: `existing`, the row that caller c has read
  warnings  \* history: warnings raised for p since its last handover

callerVars == <<pc, for, copy>>
vars == <<row, callerVars, warnings>>

(* origin says who made the session; near, that it expires within the      *)
(* refresh lead; dead, that the provider has revoked it.                   *)
Session == [state : {"missing", "active", "challenged"},
            origin : {"none", "login", "handover"}, near : BOOLEAN, dead : BOOLEAN]
Missing == [state |-> "missing", origin |-> "none", near |-> FALSE, dead |-> FALSE]
Fresh(who) == [state |-> "active", origin |-> who, near |-> FALSE, dead |-> FALSE]

PC == {"idle", "credentials", "login", "refresh", "warn", "live"}

(* A session with an expiry came from a login, and no handover does: the   *)
(* row that ingestSession writes has no expiresAt.                         *)
TypeOK ==
  /\ row \in [Providers -> Session]
  /\ \A p \in Providers : row[p].near => row[p].origin = "login"
  /\ \A c \in Callers : copy[c].near => copy[c].origin = "login"
  /\ pc \in [Callers -> PC]
  /\ copy \in [Callers -> Session]
  /\ for \in [Callers -> Providers]
  /\ warnings \in [Providers -> 0 .. MaxWarnings]

Init ==
  /\ row = [p \in Providers |-> Missing]
  /\ pc = [c \in Callers |-> "idle"]
  /\ for \in [Callers -> Providers]
  /\ copy = [c \in Callers |-> Missing]
  /\ warnings = [p \in Providers |-> 0]

Goto(c, where) == pc' = [pc EXCEPT ![c] = where]
Row(c) == row[for[c]]

-----------------------------------------------------------------------------
(* ensureLiveSession is called, and asks for the provider's credentials.   *)
Ask(c) ==
  /\ pc[c] = "idle"
  /\ Goto(c, "credentials")
  /\ \E p \in Providers : for' = [for EXCEPT ![c] = p]
  /\ UNCHANGED <<row, copy, warnings>>

CredentialsFail(c) ==
  /\ "vault" \in Faults
  /\ pc[c] = "credentials"
  /\ Goto(c, "idle")
  /\ UNCHANGED <<row, for, copy, warnings>>

(* Mutant of RaiseChallenge: announced, but not persisted.                 *)
RaiseUnpersisted(c, base) ==
  /\ warnings[for[c]] < MaxWarnings
  /\ warnings' = [warnings EXCEPT ![for[c]] = @ + 1]
  /\ Goto(c, "warn")
  /\ UNCHANGED row

(* raiseChallenge(base): persist, then announce.                           *)
RaiseChallenge(c, base) ==
  /\ warnings[for[c]] < MaxWarnings
  /\ row' = [row EXCEPT ![for[c]] = [base EXCEPT !.state = "challenged"]]
  /\ warnings' = [warnings EXCEPT ![for[c]] = @ + 1]
  /\ Goto(c, "warn")

(* The rest runs on the row as it is when the credentials arrive.          *)
ReadPaused(c) ==
  /\ pc[c] = "credentials"
  /\ Row(c).state = "challenged"
  /\ Goto(c, "idle")
  /\ UNCHANGED <<row, for, copy, warnings>>

(* Mutant of ReadMissing: a challenged session is taken for none.          *)
ReadNotActive(c) ==
  /\ pc[c] = "credentials"
  /\ Row(c).state # "active"
  /\ IF for[c] \in Headless
     THEN Goto(c, "login") /\ UNCHANGED <<row, warnings>>
     ELSE RaiseChallenge(c, Row(c))
  /\ copy' = [copy EXCEPT ![c] = Row(c)]
  /\ UNCHANGED for

ReadMissing(c) ==
  /\ pc[c] = "credentials"
  /\ Row(c).state = "missing"
  /\ IF for[c] \in Headless
     THEN Goto(c, "login") /\ UNCHANGED <<row, warnings>>
     ELSE RaiseChallenge(c, Row(c))
  /\ copy' = [copy EXCEPT ![c] = Row(c)]
  /\ UNCHANGED for

(* Mutant of isNearExpiry: an expiry is never near.                        *)
neverNearExpiry(session) == FALSE

isNearExpiry(session) == session.near

(* Mutant of ReadNearExpiry: the refresh comes before the challenge check. *)
ReadNearExpiryFirst(c) ==
  /\ pc[c] = "credentials"
  /\ isNearExpiry(Row(c))
  /\ Goto(c, "refresh")
  /\ copy' = [copy EXCEPT ![c] = Row(c)]
  /\ UNCHANGED <<row, for, warnings>>

ReadNearExpiry(c) ==
  /\ pc[c] = "credentials"
  /\ Row(c).state = "active" /\ isNearExpiry(Row(c))
  /\ Goto(c, "refresh")
  /\ copy' = [copy EXCEPT ![c] = Row(c)]
  /\ UNCHANGED <<row, for, warnings>>

ReadActive(c) ==
  /\ pc[c] = "credentials"
  /\ Row(c).state = "active" /\ ~isNearExpiry(Row(c))
  /\ Goto(c, "live")
  /\ UNCHANGED <<row, for, copy, warnings>>

(* The provider renews the session, or mints a new one: it is written over *)
(* whatever the row holds by now.                                          *)
AuthOk(c) ==
  /\ pc[c] \in {"login", "refresh"}
  /\ row' = [row EXCEPT ![for[c]] = Fresh("login")]
  /\ Goto(c, "live")
  /\ UNCHANGED <<for, copy, warnings>>

AuthChallenged(c) ==
  /\ "challenge" \in Faults
  /\ pc[c] \in {"login", "refresh"}
  /\ RaiseChallenge(c, copy[c])
  /\ UNCHANGED <<for, copy>>

(* The refresh reports auth-expired: log in again.                         *)
RefreshExpired(c) ==
  /\ pc[c] = "refresh"
  /\ Goto(c, "login")
  /\ UNCHANGED <<row, for, copy, warnings>>

AuthError(c) ==
  /\ "error" \in Faults
  /\ pc[c] \in {"login", "refresh"}
  /\ Goto(c, "idle")
  /\ UNCHANGED <<row, for, copy, warnings>>

(* The warning is out (or failed: the result is not looked at); throw.     *)
WarnReturns(c) ==
  /\ pc[c] = "warn"
  /\ Goto(c, "idle")
  /\ UNCHANGED <<row, for, copy, warnings>>

(* The caller uses the session.  Whatever the provider answers, even that  *)
(* the session is dead, nothing is written back.                           *)
Use(c) ==
  /\ pc[c] = "live"
  /\ Goto(c, "idle")
  /\ UNCHANGED <<row, for, copy, warnings>>

-----------------------------------------------------------------------------
(* The operator hands over a session; nothing orders it after the calls    *)
(* that are under way.                                                     *)
IngestSession(p) ==
  /\ row' = [row EXCEPT ![p] = Fresh("handover")]
  /\ warnings' = [warnings EXCEPT ![p] = 0]
  /\ UNCHANGED callerVars

(* A session with an expiry comes within the refresh lead of it.           *)
Age(p) ==
  /\ row[p].state = "active" /\ row[p].origin = "login" /\ ~row[p].near
  /\ row' = [row EXCEPT ![p].near = TRUE]
  /\ UNCHANGED <<callerVars, warnings>>

Revoke(p) ==
  /\ "revoke" \in Faults
  /\ row[p].state = "active" /\ ~row[p].dead
  /\ row' = [row EXCEPT ![p].dead = TRUE]
  /\ UNCHANGED <<callerVars, warnings>>

Crash ==
  /\ "crash" \in Faults
  /\ pc' = [c \in Callers |-> "idle"]
  /\ UNCHANGED <<row, for, copy, warnings>>

Read(c) == ReadPaused(c) \/ ReadMissing(c) \/ ReadNearExpiry(c) \/ ReadActive(c)

Answered(c) == AuthOk(c) \/ AuthChallenged(c)

CallerStep(c) ==
  \/ Ask(c) \/ CredentialsFail(c)
  \/ Read(c)
  \/ Answered(c) \/ RefreshExpired(c) \/ AuthError(c)
  \/ WarnReturns(c) \/ Use(c)

Next ==
  \/ \E c \in Callers : CallerStep(c)
  \/ \E p \in Providers : IngestSession(p) \/ Age(p) \/ Revoke(p)
  \/ Crash

Spec == Init /\ [][Next]_vars

(* The scheduler's passes keep asking for each provider's session, every   *)
(* request settles, and time passes; failures and crashes do not go on     *)
(* for ever: who keeps reading the row reads it in the end, and a provider *)
(* that keeps being asked answers.  The operator need not act.             *)
FairSpec ==
  /\ Spec
  /\ \A c \in Callers : WF_vars(CallerStep(c))
  /\ \A c \in Callers, p \in Providers :
       /\ SF_vars(Ask(c) /\ for'[c] = p)
       /\ SF_vars(for[c] = p /\ Read(c))
       /\ SF_vars(for[c] = p /\ Answered(c))
  /\ \A p \in Providers : WF_vars(Age(p))

-----------------------------------------------------------------------------
(* "The provider stays paused until a fresh session is handed over":       *)
(* nothing but a handover takes a challenged session away.                 *)
PausedUntilHandover ==
  [][\A p \in Providers : row[p].state = "challenged" /\ row'[p].state # "challenged"
                             => row'[p] = Fresh("handover")]_vars

(* "subsequent calls short-circuit on it without touching the provider":   *)
(* no login or refresh is begun while the session is challenged.           *)
NoLoginWhilePaused ==
  [][\A c \in Callers : pc'[c] \in {"login", "refresh"} /\ pc'[c] # pc[c]
                          => Row(c).state # "challenged"]_vars

(* "announced once": between two handovers the operator is warned of a     *)
(* challenge at most once.                                                 *)
AnnouncedOnce == \A p \in Providers : warnings[p] <= 1

(* A handover is the last word: no call that began before it puts the      *)
(* provider back to challenged.  (A handed-over session has no expiry, so  *)
(* no auth step ever starts from it.)                                      *)
HandoverKept ==
  [][\A p \in Providers : row[p].origin = "handover" /\ row[p].state = "active"
                             => row'[p].state = "active"]_vars

Recovered(p) == ~row[p].dead \/ row[p].state = "challenged"

(* A session made by a login that the provider has revoked is replaced, or *)
(* the provider is paused: it nears its expiry and is refreshed.           *)
RevokedLoginRecovers ==
  \A p \in Providers : row[p].origin = "login" /\ row[p].dead ~> Recovered(p)

(* What makes the three inductive for a single caller: a call at an auth   *)
(* step began from a row that is not challenged, nobody else can have      *)
(* challenged it since, and who has been warned of a challenge has one.    *)
AuthFromUnpaused ==
  \A c \in Callers : pc[c] \in {"login", "refresh"} => Row(c).state # "challenged"

WarnedIsPaused ==
  \A p \in Providers : warnings[p] \in {0, 1} /\ (warnings[p] = 1 => row[p].state = "challenged")

=============================================================================
