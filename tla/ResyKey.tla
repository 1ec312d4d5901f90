------------------------------- MODULE ResyKey -------------------------------
(***************************************************************************)
(* The web api_key of the Resy provider                                    *)
(* (packages/core/src/adapters/providers/resy/provider.ts): one field,     *)
(* this.apiKey, that every call of the process shares, overwrites with the *)
(* key of its session or credentials, and reads again at each request; and *)
(* the self-heal, which scrapes resy.com for the key once per process.     *)
(*                                                                         *)
(* A call is one ensureLiveSession followed by a find (cancel and book set *)
(* the key as find does).  The requests of one find are all like its first *)
(* and count as one.                                                       *)
(***************************************************************************)
EXTENDS Naturals

CONSTANTS
  Callers,    \* the concurrent calls of a process
  OldKey,     \* RESY_DEFAULT_API_KEY, the baked-in key
  NewKey,     \* the key that resy.com rotates to
  NoKey,
  CredsKey,   \* creds.apiKey, or NoKey
  Faults      \* which failures this instance admits

ASSUME ResyKeyConstants ==
  /\ OldKey # NewKey /\ NoKey \notin {OldKey, NewKey}
  /\ CredsKey \in {OldKey, NewKey, NoKey}
  /\ Faults \subseteq {"scrape", "revoke", "restart", "handover"}

VARIABLES
  siteKey,  \* the key that Resy accepts
  row,      \* the stored session
  key,      \* this.apiKey
  healed,   \* this.apiKeyHealed
  stage,    \* stage[c]: how far caller c is
  op,       \* op[c]: the request that caller c has sent
  sess,     \* sess[c]: the session caller c works with
  sent,     \* sent[c]: the key in the Authorization header of its request
  scrapes   \* history: self-heals since the process started

callerVars == <<stage, op, sess, sent>>
keyVars == <<siteKey, row, key, healed, callerVars, scrapes>>

Keys == {OldKey, NewKey}
(* near: within the refresh lead of its expiry; handed: handed over, and   *)
(* so without an expiry.                                                   *)
Session == [key : Keys \union {NoKey}, near : BOOLEAN, dead : BOOLEAN, handed : BOOLEAN]
NoSession == [key |-> NoKey, near |-> TRUE, dead |-> TRUE, handed |-> FALSE]
Minted(k) == [key |-> k, near |-> FALSE, dead |-> FALSE, handed |-> FALSE]

KeyTypeOK ==
  /\ siteKey \in Keys /\ key \in Keys
  /\ row \in Session
  /\ healed \in BOOLEAN
  /\ stage \in [Callers -> {"idle", "sent", "heal", "healed", "resent"}]
  /\ op \in [Callers -> {"login", "refresh", "profile", "find"}]
  /\ sess \in [Callers -> Session]
  /\ sent \in [Callers -> Keys]
  /\ scrapes \in Nat

KeyInit ==
  /\ siteKey = OldKey /\ key = OldKey
  /\ row = NoSession
  /\ healed = FALSE
  /\ stage = [c \in Callers |-> "idle"]
  /\ op = [c \in Callers |-> "find"]
  /\ sess = [c \in Callers |-> NoSession]
  /\ sent = [c \in Callers |-> OldKey]
  /\ scrapes = 0

Or(k, otherwise) == IF k # NoKey THEN k ELSE otherwise

(* Set this.apiKey, and send a request under it (rawFetch).                *)
Send(c, request, k) ==
  /\ key' = k
  /\ sent' = [sent EXCEPT ![c] = k]
  /\ op' = [op EXCEPT ![c] = request]
  /\ stage' = [stage EXCEPT ![c] = "sent"]

(* authenticate(creds).                                                    *)
Login(c) == Send(c, "login", Or(CredsKey, key))

(* refresh(session, creds): the key of the session has the last word.      *)
Refresh(c, s) == Send(c, "refresh", Or(s.key, Or(CredsKey, key)))

Find(c, s) == Send(c, "find", Or(s.key, key))

(* ensureLiveSession: log in, refresh, or use the session as it is.        *)
StartCall(c) ==
  /\ stage[c] = "idle"
  /\ sess' = [sess EXCEPT ![c] = row]
  /\ IF row = NoSession THEN Login(c)
     ELSE IF row.near THEN Refresh(c, row)
     ELSE Find(c, row)
  /\ UNCHANGED <<siteKey, row, healed, scrapes>>

-----------------------------------------------------------------------------
(* What follows an accepted request: a login or refresh makes a session    *)
(* with this.apiKey as it is by then, and asks for the profile.            *)
Succeed(c) ==
  CASE op[c] \in {"login", "refresh"} ->
         /\ sess' = [sess EXCEPT ![c] = Minted(key)]
         /\ Send(c, "profile", key)
         /\ UNCHANGED row
    [] op[c] = "profile" ->
         /\ row' = sess[c]
         /\ Find(c, sess[c])
         /\ UNCHANGED sess
    [] op[c] = "find" ->
         /\ stage' = [stage EXCEPT ![c] = "idle"]
         /\ UNCHANGED <<key, op, sent, sess, row>>

(* And a request that failed for good: an expired refresh logs in, the     *)
(* profile is optional, the others throw.                                  *)
Fail(c) ==
  CASE op[c] = "refresh" ->
         /\ Login(c)
         /\ UNCHANGED <<sess, row>>
    [] op[c] = "profile" -> Succeed(c)
    [] op[c] \in {"login", "find"} ->
         /\ stage' = [stage EXCEPT ![c] = "idle"]
         /\ UNCHANGED <<key, op, sent, sess, row>>

(* Resy answers 401 to a wrong key and to a dead token alike.              *)
Accepts(c) == sent[c] = siteKey /\ (op[c] = "login" \/ ~sess[c].dead)

ReplyOk(c) ==
  /\ stage[c] \in {"sent", "resent"}
  /\ Accepts(c)
  /\ Succeed(c)
  /\ UNCHANGED <<siteKey, healed, scrapes>>

(* Mutant of SetOnHeal: the flag is left for later.                        *)
SetLater == healed

SetOnHeal == TRUE

(* The first 401 of the process starts the self-heal; the flag is set      *)
(* before the scrape is awaited.                                           *)
ReplyHeal(c) ==
  /\ stage[c] = "sent"
  /\ ~Accepts(c)
  /\ ~healed
  /\ healed' = SetOnHeal
  /\ scrapes' = scrapes + 1
  /\ stage' = [stage EXCEPT ![c] = "heal"]
  /\ UNCHANGED <<siteKey, row, key, op, sess, sent>>

ReplyFail(c) ==
  /\ stage[c] \in {"sent", "resent"}
  /\ ~Accepts(c)
  /\ stage[c] = "sent" => healed
  /\ Fail(c)
  /\ UNCHANGED <<siteKey, healed, scrapes>>

(* The scrape ends, with a key for everybody or without one.               *)
Scraped(c) ==
  /\ stage[c] = "heal"
  /\ key' \in {siteKey} \union (IF "scrape" \in Faults THEN {key} ELSE {})
  /\ stage' = [stage EXCEPT ![c] = "healed"]
  /\ UNCHANGED <<siteKey, row, healed, op, sess, sent, scrapes>>

(* Then the request goes out again under this.apiKey as it is by now:      *)
(* another call may have put its own key back after the scrape.            *)
Resend(c) ==
  /\ stage[c] = "healed"
  /\ sent' = [sent EXCEPT ![c] = key]
  /\ stage' = [stage EXCEPT ![c] = "resent"]
  /\ UNCHANGED <<siteKey, row, key, healed, op, sess, scrapes>>

-----------------------------------------------------------------------------
Rotate ==
  /\ siteKey = OldKey
  /\ siteKey' = NewKey
  /\ UNCHANGED <<row, key, healed, callerVars, scrapes>>

(* The session comes within the refresh lead of its expiry.                *)
Age ==
  /\ row # NoSession /\ ~row.near /\ ~row.handed
  /\ row' = [row EXCEPT !.near = TRUE]
  /\ UNCHANGED <<siteKey, key, healed, callerVars, scrapes>>

Revoke ==
  /\ "revoke" \in Faults
  /\ row # NoSession /\ ~row.dead
  /\ row' = [row EXCEPT !.dead = TRUE]
  /\ UNCHANGED <<siteKey, key, healed, callerVars, scrapes>>

(* The operator hands over a session captured in a browser, with the key   *)
(* in force or without one.                                                *)
Handover ==
  /\ "handover" \in Faults
  /\ \E k \in {siteKey, NoKey} : row' = [Minted(k) EXCEPT !.handed = TRUE]
  /\ UNCHANGED <<siteKey, key, healed, callerVars, scrapes>>

Restart ==
  /\ "restart" \in Faults
  /\ key' = OldKey /\ healed' = FALSE /\ scrapes' = 0
  /\ stage' = [c \in Callers |-> "idle"]
  /\ UNCHANGED <<siteKey, row, op, sess, sent>>

CallerStep(c) ==
  \/ StartCall(c)
  \/ ReplyOk(c) \/ ReplyHeal(c) \/ ReplyFail(c)
  \/ Scraped(c) \/ Resend(c)

KeyNext ==
  \/ \E c \in Callers : CallerStep(c)
  \/ Rotate \/ Age \/ Revoke \/ Handover \/ Restart

KeySpec == KeyInit /\ [][KeyNext]_keyVars

(* Passes go on, requests settle, and sessions near their expiry.          *)
FairKeySpec == KeySpec /\ WF_keyVars(Age) /\ \A c \in Callers : WF_keyVars(CallerStep(c))

-----------------------------------------------------------------------------
(* "scrapes a fresh api_key and retries once": however many calls are      *)
(* refused at the same time, a process scrapes resy.com at most once.      *)
ScrapedOnce == scrapes <= 1

(* "The web api_key in force; may be self-healed from resy.com if the      *)
(* baked-in key is rejected" (session.ts:27): a stored session whose key   *)
(* Resy no longer accepts does not keep it for ever.  In the code it does: *)
(* find and refresh put the session's own key back before they send.       *)
StaleKeyReplaced ==
  row.key # NoKey /\ row.key # siteKey ~> row.key = siteKey \/ row.key = NoKey

=============================================================================
