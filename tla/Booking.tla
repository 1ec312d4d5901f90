------------------------------- MODULE Booking -------------------------------
(***************************************************************************)
(* Booking one slot: attemptBook and book of                               *)
(* packages/core/src/services/booking.ts, over the details -> book flow of *)
(* the Resy provider (adapters/providers/resy/provider.ts).                *)
(*                                                                         *)
(* An attempt is manual (the operator's book call) or made by a scan pass  *)
(* with autobook, which works on the watch as it was when the pass began.  *)
(* Attempts interleave at their awaits, and only the provider serialises   *)
(* them.  A request may be processed without its answer arriving, and a    *)
(* server error or an answer without ids leaves open whether it was.       *)
(***************************************************************************)
EXTENDS Integers

CONSTANTS
  Attempts,
  ByPasses,   \* the attempts made by scan passes
  Tables,     \* how many reservations the slot has room for
  Faults      \* which failures and edits this instance admits

ASSUME BookingConstants ==
  /\ ByPasses \subseteq Attempts
  /\ Tables \in Nat
  /\ Faults \subseteq {"error", "lost", "record", "edit", "crash"}

VARIABLES
  optedIn,  \* watch.autobook in the watches table
  free,     \* what is left of the slot at the provider
  healed,   \* apiKeyHealed: the process has used its one self-heal (module ResyKey)
  pc,
  card,     \* card[a]: whether preferredPaymentMethod has found one
  tries,    \* tries[a]: how often book has asked for /3/book
  answer,   \* answer[a]: the provider's last answer
  log,      \* log[a]: the type of the activity record the attempt has left
  held      \* history: held[a]: the reservations the provider made for the attempt

vars == <<optedIn, free, healed, pc, card, tries, answer, log, held>>

PC == {"idle", "session", "find", "alert", "details", "book", "answered", "done"}

(* Answers to /3/book: with a reservation id or token; accepted, without   *)
(* ids; 402; 404; 403, or a text that reads like a captcha whatever the    *)
(* status; 419; 401; 5xx; none at all.                                     *)
Answers == {"confirmed", "no-id", "pay", "gone", "captcha", "unauthorized", "key", "error", "lost"}

TypeOK ==
  /\ optedIn \in BOOLEAN
  /\ free \in 0 .. Tables
  /\ healed \in BOOLEAN
  /\ pc \in [Attempts -> PC]
  /\ card \in [Attempts -> BOOLEAN]
  /\ tries \in [Attempts -> 0 .. 2]
  /\ answer \in [Attempts -> Answers \union {"none"}]
  /\ log \in [Attempts -> {"none", "booked", "book-failed"}]
  /\ held \in [Attempts -> Nat]

Init ==
  /\ optedIn \in BOOLEAN
  /\ free = Tables
  /\ healed = FALSE
  /\ pc = [a \in Attempts |-> "idle"]
  /\ card \in [Attempts -> BOOLEAN]
  /\ tries = [a \in Attempts |-> 0]
  /\ answer = [a \in Attempts |-> "none"]
  /\ log = [a \in Attempts |-> "none"]
  /\ held = [a \in Attempts |-> 0]

Goto(a, where) == pc' = [pc EXCEPT ![a] = where]
provider == <<free, healed, held, tries, answer>>

-----------------------------------------------------------------------------
(* book(watchId, key): refused at once, or on to a session and a find.     *)
CallBook(a) ==
  /\ a \notin ByPasses
  /\ pc[a] = "idle"
  /\ Goto(a, IF optedIn THEN "session" ELSE "done")
  /\ UNCHANGED <<optedIn, provider, card, log>>

(* A pass takes the watch, with autobook set, into its snapshot and will   *)
(* come to the booking after the alert.                                    *)
Snapshot(a) ==
  /\ a \in ByPasses
  /\ pc[a] = "idle"
  /\ Goto(a, IF optedIn THEN "alert" ELSE "done")
  /\ UNCHANGED <<optedIn, provider, card, log>>

Alerted(a) ==
  /\ pc[a] = "alert"
  /\ Goto(a, "details")
  /\ UNCHANGED <<optedIn, provider, card, log>>

SessionLive(a) ==
  /\ pc[a] = "session"
  /\ Goto(a, "find")
  /\ UNCHANGED <<optedIn, provider, card, log>>

(* find lists the slot while there is room in it; a slot that is gone is   *)
(* the failed result of a call, without a record.                          *)
FindAnswers(a) ==
  /\ pc[a] = "find"
  /\ Goto(a, IF free > 0 THEN "details" ELSE "done")
  /\ UNCHANGED <<optedIn, provider, card, log>>

(* ensureLiveSession, find or /3/details fails: the attempt throws.        *)
Throws(a) ==
  /\ "error" \in Faults
  /\ pc[a] \in {"session", "find", "details"}
  /\ Goto(a, "done")
  /\ UNCHANGED <<optedIn, provider, card, log>>

(* activity.record: the write may throw, and the attempt ends with it.     *)
Record(a, type) ==
  \/ log' = [log EXCEPT ![a] = type]
  \/ "record" \in Faults /\ UNCHANGED log

(* /3/details: a book token, or a failed result, which is recorded (404,   *)
(* no token, or a token that is no longer valid).                          *)
DetailsToken(a) ==
  /\ pc[a] = "details"
  /\ free > 0
  /\ Goto(a, "book")
  /\ UNCHANGED <<optedIn, provider, card, log>>

DetailsRefused(a) ==
  /\ pc[a] = "details"
  /\ free = 0 \/ "error" \in Faults
  /\ Record(a, "book-failed")
  /\ Goto(a, "done")
  /\ UNCHANGED <<optedIn, provider, card>>

-----------------------------------------------------------------------------
(* What the provider does with a /3/book request: it makes a reservation,  *)
(* or it does not (it may ask for a payment method, whether or not it was  *)
(* given one), and answers, or the answer never arrives.  isCaptcha reads  *)
(* the text before anything else, so a reservation may look like a captcha.*)
Reserved == {"confirmed", "no-id"} \union (IF "error" \in Faults THEN {"captcha", "error"} ELSE {})
                                   \union (IF "lost" \in Faults THEN {"lost"} ELSE {})
NotReserved == {"pay"} \union (IF "error" \in Faults THEN {"no-id", "captcha", "unauthorized", "key", "error"} ELSE {})
                       \union (IF "lost" \in Faults THEN {"lost"} ELSE {})

Reserve(a) ==
  /\ free > 0
  /\ free' = free - 1
  /\ held' = [held EXCEPT ![a] = @ + 1]
  /\ \E ans \in Reserved : answer' = [answer EXCEPT ![a] = ans]

Refuse(a) ==
  /\ UNCHANGED <<free, held>>
  /\ \E ans \in NotReserved \union (IF free = 0 THEN {"gone"} ELSE {}) :
       answer' = [answer EXCEPT ![a] = ans]

Submit(a) ==
  /\ tries' = [tries EXCEPT ![a] = @ + 1]
  /\ Goto(a, "answered")
  /\ Reserve(a) \/ Refuse(a)
  /\ UNCHANGED <<optedIn, healed, card, log>>

SubmitFirst(a) == pc[a] = "book" /\ Submit(a)

(* Inside request(): the first 401 of the process scrapes a new api_key    *)
(* and sends the same request again.                                       *)
MayHeal(a) == answer[a] = "key" /\ ~healed

ResendHealed(a) ==
  /\ pc[a] = "answered"
  /\ MayHeal(a)
  /\ healed' = TRUE
  /\ Reserve(a) \/ Refuse(a)
  /\ UNCHANGED <<optedIn, pc, card, tries, log>>

(* Mutant of MayRetry: after any failure.                                  *)
MayRetryAnyFailure(a) == tries[a] = 1 /\ answer[a] # "confirmed" /\ card[a]

(* Payment required, and there is a card: once more, with the card.        *)
MayRetry(a) == tries[a] = 1 /\ answer[a] = "pay" /\ card[a]

SubmitWithCard(a) == pc[a] = "answered" /\ MayRetry(a) /\ Submit(a)

(* Mutant of StatusOf: every accepted request counts as booked.            *)
StatusIfAccepted(ans) ==
  CASE ans \in {"confirmed", "no-id"} -> "booked"
    [] ans \in {"captcha", "pay", "gone", "key", "error"} -> "failed"
    [] OTHER -> "throw"

(* interpretBookResponse.                                                  *)
StatusOf(ans) ==
  CASE ans = "confirmed" -> "booked"
    [] ans = "no-id"     -> "locked-unconfirmed"
    [] ans = "captcha"   -> "challenged"
    [] ans \in {"pay", "gone", "key", "error"} -> "failed"
    [] OTHER -> "throw"

(* The type of the record attemptBook makes of a result.                   *)
Outcome(status) == IF status = "booked" THEN "booked" ELSE "book-failed"

(* attemptBook records the result; when book has thrown, nobody does, and  *)
(* a pass swallows what either of them throws.                             *)
Conclude(a) ==
  LET status == StatusOf(answer[a]) IN
  /\ pc[a] = "answered"
  /\ ~MayRetry(a) /\ ~MayHeal(a)
  /\ IF status = "throw" THEN UNCHANGED log ELSE Record(a, Outcome(status))
  /\ Goto(a, "done")
  /\ UNCHANGED <<optedIn, provider, card>>

-----------------------------------------------------------------------------
(* Other guests take tables, and the operator opts in and out.             *)
OtherGuest ==
  /\ free > 0
  /\ free' = free - 1
  /\ UNCHANGED <<optedIn, healed, pc, card, tries, answer, log, held>>

(* Some other request of the process has met the first 401.                *)
HealedElsewhere ==
  /\ "error" \in Faults
  /\ ~healed
  /\ healed' = TRUE
  /\ UNCHANGED <<optedIn, free, pc, card, tries, answer, log, held>>

ToggleAutobook ==
  /\ "edit" \in Faults
  /\ optedIn' = ~optedIn
  /\ UNCHANGED <<provider, pc, card, log>>

(* The process dies, with or without an answer that is not recorded.       *)
Crash ==
  /\ "crash" \in Faults
  /\ pc' = [a \in Attempts |-> IF pc[a] = "idle" THEN "idle" ELSE "done"]
  /\ healed' = FALSE
  /\ UNCHANGED <<optedIn, free, held, tries, answer, card, log>>

AttemptStep(a) ==
  \/ Alerted(a) \/ SessionLive(a) \/ FindAnswers(a) \/ Throws(a)
  \/ DetailsToken(a) \/ DetailsRefused(a)
  \/ SubmitFirst(a) \/ ResendHealed(a) \/ SubmitWithCard(a) \/ Conclude(a)

Next ==
  \/ \E a \in Attempts : CallBook(a) \/ Snapshot(a) \/ AttemptStep(a)
  \/ OtherGuest \/ HealedElsewhere \/ ToggleAutobook \/ Crash

Spec == Init /\ [][Next]_vars

-----------------------------------------------------------------------------
(* The payment retry never repeats a request that may have been processed: *)
(* one attempt makes at most one reservation, whatever the answers say.    *)
OneReservationPerAttempt == \A a \in Attempts : held[a] <= 1

(* "rather than reporting a false success": what the activity log calls    *)
(* booked is a reservation at the provider.                                *)
BookedIsHeld == \A a \in Attempts : log[a] = "booked" => held[a] = 1

(* "every outcome is written to the activity log" (booking.ts:4-5): an     *)
(* attempt that has asked the provider for a table leaves a record.  The   *)
(* code leaves none when book throws: after a 419, or a lost answer.       *)
OutcomesAreLogged ==
  \A a \in Attempts : pc[a] = "done" /\ tries[a] > 0 => log[a] # "none"

=============================================================================
