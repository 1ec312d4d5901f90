------------------------ MODULE SessionLifecycle_proofs ------------------------
(***************************************************************************)
(* Proofs about the credential state machine for one caller at a time      *)
(* (the passes of one process, which run one after another), any set of    *)
(* providers and any failures: a challenge pauses its provider until a     *)
(* handover, without a login attempt in between, and is announced once.    *)
(***************************************************************************)
EXTENDS SessionLifecycle, TLAPS

(* No call of ensureLiveSession runs beside another one.                   *)
SingleCaller == \A c, d \in Callers : c = d

SessionIInv == TypeOK /\ AuthFromUnpaused /\ WarnedIsPaused

(* Nothing is paused at the start, and nobody is at an auth step.          *)
LEMMA SessionInitInv == Init => SessionIInv
  BY SessionConstants
  DEF Init, SessionIInv, TypeOK, AuthFromUnpaused, WarnedIsPaused, Session, Missing, PC, Row

(* What a challenge leaves behind: one warning, on a row that was not      *)
(* challenged before, and no caller at an auth step.                       *)
LEMMA RaiseKeeps ==
  ASSUME SingleCaller, SessionIInv, NEW c \in Callers, NEW base \in Session,
         Row(c).state # "challenged", base.near => base.origin = "login",
         RaiseChallenge(c, base), UNCHANGED for, copy' \in [Callers -> Session],
         \A d \in Callers : copy'[d].near => copy'[d].origin = "login"
  PROVE  SessionIInv'
<1> DEFINE p == for[c]
<1>1. p \in Providers /\ warnings[p] = 0
  BY DEF SessionIInv, TypeOK, WarnedIsPaused, Row
<1>2. /\ row' = [row EXCEPT ![p] = [base EXCEPT !.state = "challenged"]]
      /\ warnings' = [warnings EXCEPT ![p] = @ + 1]
      /\ pc' = [pc EXCEPT ![c] = "warn"]
      /\ warnings[p] < MaxWarnings
  BY DEF RaiseChallenge, Goto
<1>3. TypeOK'
  <2>1. [base EXCEPT !.state = "challenged"] \in Session
    BY DEF Session
  <2>2. row' \in [Providers -> Session]
    BY <1>2, <2>1 DEF SessionIInv, TypeOK
  <2>3. \A q \in Providers : row'[q].near => row'[q].origin = "login"
    BY <1>1, <1>2 DEF SessionIInv, TypeOK, Session
  <2>4. warnings' \in [Providers -> 0 .. MaxWarnings]
    BY <1>1, <1>2, SessionConstants DEF SessionIInv, TypeOK
  <2>5. pc' \in [Callers -> PC]
    BY <1>2 DEF SessionIInv, TypeOK, PC
  <2> QED BY <2>2, <2>3, <2>4, <2>5 DEF SessionIInv, TypeOK
<1>4. AuthFromUnpaused'
  BY <1>2 DEF SingleCaller, SessionIInv, TypeOK, AuthFromUnpaused
<1>5. WarnedIsPaused'
  BY <1>1, <1>2 DEF SessionIInv, TypeOK, WarnedIsPaused, Session
<1> QED BY <1>3, <1>4, <1>5 DEF SessionIInv

(* The steps of a caller that leave the rows and the warnings alone: only  *)
(* those that go to an auth step have something to show.                   *)
LEMMA MoveKeeps ==
  ASSUME SingleCaller, SessionIInv, NEW c \in Callers, NEW where \in PC, Goto(c, where),
         where \in {"login", "refresh"} => row[for'[c]].state # "challenged",
         UNCHANGED <<row, warnings>>,
         for' \in [Callers -> Providers], copy' \in [Callers -> Session],
         \A d \in Callers : copy'[d].near => copy'[d].origin = "login"
  PROVE  SessionIInv'
<1>1. TypeOK'
  BY DEF SessionIInv, TypeOK, Goto
<1>2. AuthFromUnpaused'
  BY DEF SingleCaller, SessionIInv, TypeOK, AuthFromUnpaused, Goto, Row
<1>3. WarnedIsPaused'
  BY DEF SessionIInv, WarnedIsPaused
<1> QED BY <1>1, <1>2, <1>3 DEF SessionIInv

(* Every step of a caller keeps the invariant.                             *)
LEMMA CallerKeeps ==
  ASSUME SingleCaller, SessionIInv, NEW c \in Callers, CallerStep(c)
  PROVE  SessionIInv'
<1> USE DEF SessionIInv
<1>0. /\ TypeOK /\ AuthFromUnpaused /\ WarnedIsPaused
      /\ for[c] \in Providers /\ row[for[c]] \in Session /\ copy[c] \in Session
  BY DEF TypeOK
<1>1. CASE Ask(c)
  <2>1. PICK p \in Providers : for' = [for EXCEPT ![c] = p]
    BY <1>1 DEF Ask
  <2>2. for' \in [Callers -> Providers]
    BY <2>1 DEF TypeOK
  <2> QED BY <1>1, <2>2, MoveKeeps DEF Ask, PC, TypeOK
<1>2. CASE CredentialsFail(c)
  BY <1>2, MoveKeeps DEF CredentialsFail, PC, TypeOK
<1>3. CASE ReadPaused(c)
  BY <1>3, MoveKeeps DEF ReadPaused, PC, TypeOK
<1>4. CASE ReadMissing(c)
  <2>1. /\ copy' \in [Callers -> Session]
        /\ \A d \in Callers : copy'[d].near => copy'[d].origin = "login"
        /\ UNCHANGED for /\ Row(c).state = "missing" /\ Row(c) \in Session
    BY <1>0, <1>4 DEF ReadMissing, Row, TypeOK
  <2>2. CASE for[c] \in Headless
    BY <1>4, <2>1, <2>2, MoveKeeps DEF ReadMissing, PC, Row, TypeOK
  <2>3. CASE for[c] \notin Headless
    <3>1. RaiseChallenge(c, Row(c))
      BY <1>4, <2>3 DEF ReadMissing
    <3>2. Row(c).near => Row(c).origin = "login"
      BY <1>0 DEF TypeOK, Row
    <3> QED BY <2>1, <3>1, <3>2, RaiseKeeps
  <2> QED BY <2>2, <2>3
<1>5. CASE ReadNearExpiry(c)
  <2>1. /\ copy' \in [Callers -> Session]
        /\ \A d \in Callers : copy'[d].near => copy'[d].origin = "login"
    BY <1>0, <1>5 DEF ReadNearExpiry, Row, TypeOK
  <2> QED BY <1>5, <2>1, MoveKeeps DEF ReadNearExpiry, PC, Row, TypeOK
<1>6. CASE ReadActive(c)
  BY <1>6, MoveKeeps DEF ReadActive, PC, TypeOK
<1>7. CASE AuthOk(c)
  <2>1. Row(c).state # "challenged"
    BY <1>0, <1>7 DEF AuthOk, AuthFromUnpaused
  <2>2. TypeOK'
    BY <1>0, <1>7 DEF AuthOk, Fresh, Session, Goto, PC, TypeOK
  <2>3. AuthFromUnpaused'
    BY <1>0, <1>7 DEF AuthOk, AuthFromUnpaused, Goto, SingleCaller, TypeOK
  <2>4. WarnedIsPaused'
    BY <1>0, <1>7, <2>1 DEF AuthOk, WarnedIsPaused, Row, TypeOK
  <2> QED BY <2>2, <2>3, <2>4
<1>8. CASE AuthChallenged(c)
  <2>1. Row(c).state # "challenged" /\ UNCHANGED <<for, copy>> /\ RaiseChallenge(c, copy[c])
    BY <1>0, <1>8 DEF AuthChallenged, AuthFromUnpaused
  <2> QED BY <1>0, <2>1, RaiseKeeps DEF TypeOK
<1>9. CASE RefreshExpired(c)
  BY <1>0, <1>9, MoveKeeps DEF RefreshExpired, AuthFromUnpaused, PC, Row, TypeOK
<1>10. CASE AuthError(c)
  BY <1>10, MoveKeeps DEF AuthError, PC, TypeOK
<1>11. CASE WarnReturns(c)
  BY <1>11, MoveKeeps DEF WarnReturns, PC, TypeOK
<1>12. CASE Use(c)
  BY <1>12, MoveKeeps DEF Use, PC, TypeOK
<1> QED
  BY <1>1, <1>2, <1>3, <1>4, <1>5, <1>6, <1>7, <1>8, <1>9, <1>10, <1>11, <1>12
  DEF CallerStep, Read, Answered

(* The operator, time and the provider change single rows, never into a    *)
(* challenged one.                                                         *)
LEMMA OutsideKeeps ==
  ASSUME SessionIInv, NEW p \in Providers, IngestSession(p) \/ Age(p) \/ Revoke(p)
  PROVE  SessionIInv'
<1> USE DEF SessionIInv, TypeOK, callerVars
<1>1. CASE IngestSession(p)
  <2>1. TypeOK'
    BY <1>1, SessionConstants DEF IngestSession, Fresh, Session
  <2>2. AuthFromUnpaused' /\ WarnedIsPaused'
    BY <1>1 DEF IngestSession, Fresh, AuthFromUnpaused, WarnedIsPaused, Row
  <2> QED BY <2>1, <2>2
<1>2. CASE Age(p)
  <2>1. TypeOK'
    <3>1. row[p] \in Session
      OBVIOUS
    <3>2. [row[p] EXCEPT !.near = TRUE] \in Session
      BY <3>1 DEF Session
    <3>3. row' = [row EXCEPT ![p] = [row[p] EXCEPT !.near = TRUE]] /\ UNCHANGED <<pc, for, copy, warnings>>
      BY <1>2 DEF Age
    <3>4. row' \in [Providers -> Session]
      BY <3>2, <3>3
    <3>5. \A q \in Providers : row'[q].near => row'[q].origin = "login"
      BY <1>2, <3>1, <3>3 DEF Age, Session
    <3> QED BY <3>3, <3>4, <3>5
  <2>2. AuthFromUnpaused' /\ WarnedIsPaused'
    BY <1>2 DEF Age, Session, AuthFromUnpaused, WarnedIsPaused, Row
  <2> QED BY <2>1, <2>2
<1>3. CASE Revoke(p)
  <2>1. TypeOK'
    <3>1. row[p] \in Session
      OBVIOUS
    <3>2. [row[p] EXCEPT !.dead = TRUE] \in Session
      BY <3>1 DEF Session
    <3>3. row' = [row EXCEPT ![p] = [row[p] EXCEPT !.dead = TRUE]] /\ UNCHANGED <<pc, for, copy, warnings>>
      BY <1>3 DEF Revoke
    <3>4. row' \in [Providers -> Session]
      BY <3>2, <3>3
    <3>5. \A q \in Providers : row'[q].near => row'[q].origin = "login"
      BY <1>3, <3>1, <3>3 DEF Revoke, Session
    <3> QED BY <3>3, <3>4, <3>5
  <2>2. AuthFromUnpaused' /\ WarnedIsPaused'
    BY <1>3 DEF Revoke, Session, AuthFromUnpaused, WarnedIsPaused, Row
  <2> QED BY <2>1, <2>2
<1> QED BY <1>1, <1>2, <1>3

(* A crash forgets the calls and keeps the table.                          *)
LEMMA CrashKeeps == SessionIInv /\ Crash => SessionIInv'
  BY DEF SessionIInv, TypeOK, AuthFromUnpaused, WarnedIsPaused, Crash, PC, Row

(* The invariant is inductive for a single caller.                         *)
LEMMA SessionStepKeeps ==
  ASSUME SingleCaller, SessionIInv, [Next]_vars
  PROVE  SessionIInv'
<1>1. CASE UNCHANGED vars
  BY <1>1 DEF vars, callerVars, SessionIInv, TypeOK, AuthFromUnpaused, WarnedIsPaused, Row
<1>2. CASE Next
  BY <1>2, CallerKeeps, OutsideKeeps, CrashKeeps DEF Next
<1> QED BY <1>1, <1>2

(* Every reachable state satisfies it.                                     *)
LEMMA SessionInvariant == SingleCaller => (Spec => []SessionIInv)
<1> SUFFICES ASSUME SingleCaller PROVE Spec => []SessionIInv
  OBVIOUS
<1>1. Init => SessionIInv
  BY SessionInitInv
<1>2. SessionIInv /\ [Next]_vars => SessionIInv'
  BY SessionStepKeeps
<1> QED BY <1>1, <1>2, PTL DEF Spec

(* The rows keep what the state machine reads of them (a row near its      *)
(* expiry was written by a login), and the warnings keep their bound.      *)
THEOREM SessionTypes == SingleCaller => (Spec => []TypeOK)
<1> SUFFICES ASSUME SingleCaller PROVE Spec => []TypeOK
  OBVIOUS
<1>1. SessionIInv => TypeOK
  BY DEF SessionIInv
<1> QED BY <1>1, SessionInvariant, PTL

(* "announced once" (session.ts, raiseChallenge): with one caller at a     *)
(* time, a challenge of any provider rings once until the next handover.   *)
THEOREM ChallengeAnnouncedOnce == SingleCaller => (Spec => []AnnouncedOnce)
<1> SUFFICES ASSUME SingleCaller PROVE Spec => []AnnouncedOnce
  OBVIOUS
<1>1. SessionIInv => AnnouncedOnce
  BY DEF SessionIInv, WarnedIsPaused, AnnouncedOnce
<1> QED BY <1>1, SessionInvariant, PTL

(* A step that takes a challenged session away is a handover: an auth step *)
(* would have to begin from a challenged row.                              *)
LEMMA OnlyHandoverResumes ==
  ASSUME SingleCaller, SessionIInv, Next, NEW p \in Providers,
         row[p].state = "challenged", row'[p].state # "challenged"
  PROVE  row'[p] = Fresh("handover")
<1> USE DEF SessionIInv, TypeOK
<1>1. ASSUME NEW c \in Callers, CallerStep(c) PROVE FALSE
  <2>1. row[for[c]] \in Session /\ for[c] \in Providers
    OBVIOUS
  <2>2. ASSUME NEW base, RaiseChallenge(c, base) PROVE row'[p].state = "challenged" \/ for[c] = p
    BY <2>2 DEF RaiseChallenge
  <2>3. CASE AuthOk(c)
    BY <2>1, <2>3 DEF AuthOk, AuthFromUnpaused, Row
  <2>4. CASE AuthChallenged(c)
    BY <2>1, <2>2, <2>4 DEF AuthChallenged, AuthFromUnpaused, Row
  <2>5. CASE ReadMissing(c)
    BY <2>1, <2>2, <2>5 DEF ReadMissing, Row
  <2>6. CASE UNCHANGED row
    BY <2>6
  <2> QED
    BY <1>1, <2>3, <2>4, <2>5, <2>6
    DEF CallerStep, Read, Answered, Ask, CredentialsFail, ReadPaused, ReadNearExpiry, ReadActive,
        RefreshExpired, AuthError, WarnReturns, Use
<1>2. ASSUME NEW q \in Providers, IngestSession(q) PROVE row'[p] = Fresh("handover")
  BY <1>2 DEF IngestSession
<1>3. ASSUME NEW q \in Providers, Age(q) \/ Revoke(q) PROVE FALSE
  BY <1>3 DEF Age, Revoke, Session
<1>4. ~Crash
  BY DEF Crash
<1> QED BY <1>1, <1>2, <1>3, <1>4 DEF Next

(* "The provider stays paused until a fresh session is handed over"        *)
(* (session.ts, raiseChallenge), for one caller at a time.                 *)
THEOREM PauseLastsUntilHandover == SingleCaller => (Spec => PausedUntilHandover)
<1> SUFFICES ASSUME SingleCaller PROVE Spec => PausedUntilHandover
  OBVIOUS
<1>1. SessionIInv /\ [Next]_vars =>
        [\A p \in Providers : row[p].state = "challenged" /\ row'[p].state # "challenged"
                                => row'[p] = Fresh("handover")]_vars
  BY OnlyHandoverResumes
<1> QED BY <1>1, SessionInvariant, PTL DEF Spec, PausedUntilHandover

(* A step that comes to an auth step starts from a row that is not         *)
(* challenged: it is missing, near its expiry, or the refresh has just     *)
(* been refused.                                                           *)
LEMMA LoginNeedsUnpaused ==
  ASSUME SingleCaller, SessionIInv, Next, NEW c \in Callers,
         pc'[c] \in {"login", "refresh"}, pc'[c] # pc[c]
  PROVE  Row(c).state # "challenged"
<1> USE DEF SessionIInv, TypeOK
<1>1. ASSUME NEW d \in Callers, CallerStep(d) PROVE Row(c).state # "challenged"
  <2>1. d = c
    BY DEF SingleCaller
  <2>2. CASE ReadMissing(d)
    BY <2>1, <2>2 DEF ReadMissing
  <2>3. CASE ReadNearExpiry(d)
    BY <2>1, <2>3 DEF ReadNearExpiry
  <2>4. CASE RefreshExpired(d)
    BY <2>1, <2>4 DEF RefreshExpired, AuthFromUnpaused
  <2>5. CASE pc'[d] \notin {"login", "refresh"}
    BY <2>1, <2>5
  <2> QED
    BY <1>1, <2>2, <2>3, <2>4, <2>5
    DEF CallerStep, Read, Answered, Goto, Ask, CredentialsFail, ReadPaused, ReadActive,
        AuthOk, AuthChallenged, RaiseChallenge, AuthError, WarnReturns, Use
<1>2. ASSUME NEW q \in Providers PROVE ~(IngestSession(q) \/ Age(q) \/ Revoke(q))
  BY DEF IngestSession, Age, Revoke, callerVars
<1>3. ~Crash
  BY DEF Crash
<1> QED BY <1>1, <1>2, <1>3 DEF Next

(* "subsequent calls short-circuit on it without touching the provider"    *)
(* (session.ts, raiseChallenge), for one caller at a time.                 *)
THEOREM PausedIsLeftAlone == SingleCaller => (Spec => NoLoginWhilePaused)
<1> SUFFICES ASSUME SingleCaller PROVE Spec => NoLoginWhilePaused
  OBVIOUS
<1>1. SessionIInv /\ [Next]_vars =>
        [\A c \in Callers : pc'[c] \in {"login", "refresh"} /\ pc'[c] # pc[c]
                               => Row(c).state # "challenged"]_vars
  BY LoginNeedsUnpaused
<1> QED BY <1>1, SessionInvariant, PTL DEF Spec, NoLoginWhilePaused

=============================================================================
