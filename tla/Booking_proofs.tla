---------------------------- MODULE Booking_proofs ----------------------------
(***************************************************************************)
(* Proofs about booking, for any number of attempts, tables and other      *)
(* guests, and any failures: an attempt reserves at most once, and what    *)
(* the activity log calls booked is held at the provider.                  *)
(***************************************************************************)
EXTENDS Booking, TLAPS

Before == {"idle", "session", "find", "alert", "details", "book"}

(* Until an attempt submits, it has left no trace anywhere.                *)
NoTraceBefore(a) ==
  pc[a] \in Before =>
    tries[a] = 0 /\ held[a] = 0 /\ answer[a] = "none" /\ log[a] = "none"

(* What the last answer says of the provider: asked to pay, or refused     *)
(* for its key, the attempt holds nothing; confirmed, it holds one.  That  *)
(* is why asking again after these two answers cannot reserve twice.       *)
AnswerTells(a) ==
  /\ held[a] \in {0, 1}
  /\ answer[a] \in {"pay", "key"} => held[a] = 0
  /\ answer[a] = "confirmed" => held[a] = 1

(* What the log says of the answer.                                        *)
LogTells(a) ==
  /\ pc[a] = "answered" => log[a] = "none" /\ tries[a] \in {1, 2}
  /\ log[a] = "booked" => answer[a] = "confirmed"

AttemptInv(a) == NoTraceBefore(a) /\ AnswerTells(a) /\ LogTells(a)

BookingIInv == TypeOK /\ \A a \in Attempts : AttemptInv(a)

(* At the start no attempt has been made.                                  *)
LEMMA BookingInitInv == Init => BookingIInv
<1> SUFFICES ASSUME Init PROVE BookingIInv
  OBVIOUS
<1>1. TypeOK
  <2>1. free \in 0 .. Tables
    BY BookingConstants DEF Init
  <2>0. healed \in BOOLEAN
    BY DEF Init
  <2>2. /\ pc \in [Attempts -> PC] /\ tries \in [Attempts -> 0 .. 2]
        /\ answer \in [Attempts -> Answers \union {"none"}]
        /\ log \in [Attempts -> {"none", "booked", "book-failed"}]
        /\ held \in [Attempts -> Nat]
    BY DEF Init, PC
  <2> QED BY <2>0, <2>1, <2>2 DEF Init, TypeOK
<1>2. \A a \in Attempts : AttemptInv(a)
  BY DEF Init, AttemptInv, NoTraceBefore, AnswerTells, LogTells
<1> QED BY <1>1, <1>2 DEF BookingIInv

(* Steps of an attempt that neither reach the provider nor write the log.  *)
LEMMA QuietKeeps ==
  ASSUME BookingIInv, NEW a \in Attempts, NEW where \in PC \ {"answered"},
         pc[a] \in Before, Goto(a, where), UNCHANGED <<optedIn, provider, card, log>>
  PROVE  BookingIInv'
<1> USE DEF BookingIInv
<1>1. TypeOK'
  BY DEF TypeOK, Goto, provider
<1>2. ASSUME NEW b \in Attempts
      PROVE  AttemptInv(b)'
  <2>1. AttemptInv(b)
    OBVIOUS
  <2> QED BY <2>1 DEF AttemptInv, NoTraceBefore, AnswerTells, LogTells, TypeOK, Goto, provider, Before, PC
<1> QED BY <1>1, <1>2

(* A request to the provider, when the attempt is known to hold nothing.   *)
LEMMA RequestKeeps ==
  ASSUME BookingIInv, NEW a \in Attempts, held[a] = 0, log[a] = "none",
         Reserve(a) \/ Refuse(a),
         pc' = [pc EXCEPT ![a] = "answered"],
         tries' \in [Attempts -> 0 .. 2], tries'[a] \in {1, 2},
         \A b \in Attempts : b # a => tries'[b] = tries[b],
         healed' \in BOOLEAN, UNCHANGED <<optedIn, card, log>>
  PROVE  BookingIInv'
<1> USE DEF BookingIInv
<1>1. /\ free' \in 0 .. Tables /\ held' \in [Attempts -> Nat]
      /\ held'[a] \in {0, 1} /\ answer' \in [Attempts -> Answers \union {"none"}]
      /\ answer'[a] \in {"pay", "key"} => held'[a] = 0
      /\ answer'[a] = "confirmed" => held'[a] = 1
      /\ \A b \in Attempts : b # a => held'[b] = held[b] /\ answer'[b] = answer[b]
  <2>1. CASE Reserve(a)
    BY <2>1, BookingConstants DEF TypeOK, Reserve, Reserved, Answers
  <2>2. CASE Refuse(a)
    BY <2>2, BookingConstants DEF TypeOK, Refuse, NotReserved, Answers
  <2> QED BY <2>1, <2>2
<1>2. TypeOK'
  BY <1>1 DEF TypeOK, PC
<1>3. ASSUME NEW b \in Attempts
      PROVE  AttemptInv(b)'
  <2>1. AttemptInv(b)
    OBVIOUS
  <2>2. CASE b = a
    BY <2>2, <1>1 DEF AttemptInv, NoTraceBefore, AnswerTells, LogTells, TypeOK, Before
  <2>3. CASE b # a
    BY <2>1, <2>3, <1>1 DEF AttemptInv, NoTraceBefore, AnswerTells, LogTells, TypeOK, Before
  <2> QED BY <2>2, <2>3
<1> QED BY <1>2, <1>3

(* The steps of an attempt.                                                *)
LEMMA AttemptKeeps ==
  ASSUME BookingIInv, NEW a \in Attempts, CallBook(a) \/ Snapshot(a) \/ AttemptStep(a)
  PROVE  BookingIInv'
<1>0. AttemptInv(a) /\ TypeOK
  BY DEF BookingIInv
<1>1. CASE \/ CallBook(a) \/ Snapshot(a) \/ Alerted(a) \/ SessionLive(a) \/ FindAnswers(a)
           \/ Throws(a) \/ DetailsToken(a)
  <2>1. PICK where \in PC \ {"answered"} : Goto(a, where)
    BY <1>1 DEF CallBook, Snapshot, Alerted, SessionLive, FindAnswers, Throws, DetailsToken, PC
  <2>2. pc[a] \in Before /\ UNCHANGED <<optedIn, provider, card, log>>
    BY <1>1 DEF CallBook, Snapshot, Alerted, SessionLive, FindAnswers, Throws, DetailsToken, Before
  <2> QED BY <2>1, <2>2, QuietKeeps
<1>2. CASE DetailsRefused(a)
  <2>1. TypeOK'
    BY <1>0, <1>2 DEF TypeOK, DetailsRefused, Record, Goto, provider, PC
  <2>2. ASSUME NEW b \in Attempts
        PROVE  AttemptInv(b)'
    <3>1. AttemptInv(b)
      BY DEF BookingIInv
    <3> QED BY <3>1, <1>0, <1>2 DEF AttemptInv, NoTraceBefore, AnswerTells, LogTells, TypeOK,
              DetailsRefused, Record, Goto, provider, Before, PC
  <2> QED BY <2>1, <2>2 DEF BookingIInv
<1>3. CASE SubmitFirst(a) \/ SubmitWithCard(a)
  <2>1. Submit(a) /\ held[a] = 0 /\ log[a] = "none" /\ tries[a] \in {0, 1}
    BY <1>0, <1>3 DEF SubmitFirst, SubmitWithCard, MayRetry, AttemptInv, NoTraceBefore, AnswerTells, LogTells, Before
  <2>2. /\ tries' \in [Attempts -> 0 .. 2] /\ tries'[a] \in {1, 2}
        /\ \A b \in Attempts : b # a => tries'[b] = tries[b]
    BY <1>0, <2>1 DEF Submit, TypeOK
  <2> QED BY <1>0, <2>1, <2>2, RequestKeeps DEF Submit, Goto, TypeOK
<1>4. CASE ResendHealed(a)
  <2>1. held[a] = 0 /\ log[a] = "none" /\ tries[a] \in {1, 2} /\ pc[a] = "answered"
    BY <1>0, <1>4 DEF ResendHealed, MayHeal, AttemptInv, AnswerTells, LogTells
  <2>2. pc' = [pc EXCEPT ![a] = "answered"] /\ tries' = tries /\ healed' \in BOOLEAN
    BY <1>0, <2>1, <1>4 DEF ResendHealed, TypeOK
  <2> QED BY <1>0, <1>4, <2>1, <2>2, RequestKeeps DEF ResendHealed, TypeOK
<1>5. CASE Conclude(a)
  <2>1. log'[a] \in {"none", "book-failed", "booked"} /\ (log'[a] = "booked" => answer[a] = "confirmed")
    BY <1>0, <1>5 DEF Conclude, Record, StatusOf, Outcome, TypeOK, Answers, AttemptInv, LogTells
  <2>2. /\ log' \in [Attempts -> {"none", "booked", "book-failed"}]
        /\ \A b \in Attempts : b # a => log'[b] = log[b]
    BY <1>0, <1>5 DEF Conclude, Record, Outcome, TypeOK
  <2>3. pc' = [pc EXCEPT ![a] = "done"] /\ UNCHANGED <<optedIn, free, healed, held, tries, answer, card>>
    BY <1>5 DEF Conclude, Goto, provider
  <2>4. TypeOK'
    BY <1>0, <2>2, <2>3 DEF TypeOK, PC
  <2>5. ASSUME NEW b \in Attempts
        PROVE  AttemptInv(b)'
    <3>1. AttemptInv(b)
      BY DEF BookingIInv
    <3>2. CASE b = a
      BY <3>1, <3>2, <1>0, <2>1, <2>3 DEF AttemptInv, NoTraceBefore, AnswerTells, LogTells, TypeOK, Before
    <3>3. CASE b # a
      BY <3>1, <3>3, <1>0, <2>2, <2>3 DEF AttemptInv, NoTraceBefore, AnswerTells, LogTells, TypeOK, Before
    <3> QED BY <3>2, <3>3
  <2> QED BY <2>4, <2>5 DEF BookingIInv
<1> QED BY <1>1, <1>2, <1>3, <1>4, <1>5 DEF AttemptStep

(* The outside, and a crash, which ends every attempt where it is.         *)
LEMMA OutsideKeeps ==
  ASSUME BookingIInv, OtherGuest \/ HealedElsewhere \/ ToggleAutobook \/ Crash \/ UNCHANGED vars
  PROVE  BookingIInv'
<1>0. TypeOK /\ \A b \in Attempts : AttemptInv(b)
  BY DEF BookingIInv
<1>1. CASE OtherGuest \/ HealedElsewhere \/ ToggleAutobook \/ UNCHANGED vars
  <2>1. TypeOK'
    <3>1. CASE OtherGuest
      BY <1>0, <3>1, BookingConstants DEF TypeOK, OtherGuest
    <3>2. CASE HealedElsewhere
      BY <1>0, <3>2 DEF TypeOK, HealedElsewhere
    <3>3. CASE ToggleAutobook
      <4>1. optedIn' \in BOOLEAN
        BY <3>3 DEF ToggleAutobook
      <4> QED BY <1>0, <4>1, <3>3 DEF TypeOK, ToggleAutobook, provider
    <3>4. CASE UNCHANGED vars
      BY <1>0, <3>4 DEF TypeOK, vars
    <3> QED BY <1>1, <3>1, <3>2, <3>3, <3>4
  <2>2. UNCHANGED <<pc, tries, held, answer, log>>
    BY <1>1 DEF OtherGuest, HealedElsewhere, ToggleAutobook, vars, provider
  <2> QED BY <1>0, <2>1, <2>2 DEF BookingIInv, AttemptInv, NoTraceBefore, AnswerTells, LogTells
<1>2. CASE Crash
  <2>1. TypeOK'
    BY <1>0, <1>2 DEF TypeOK, Crash, PC, Answers
  <2>2. ASSUME NEW b \in Attempts
        PROVE  AttemptInv(b)'
    BY <1>0, <1>2 DEF Crash, AttemptInv, NoTraceBefore, AnswerTells, LogTells, TypeOK, PC, Before
  <2> QED BY <2>1, <2>2 DEF BookingIInv
<1> QED BY <1>1, <1>2

(* Nothing has happened, or one of the two lemmas above applies.           *)
LEMMA BookingInvariant == Spec => []BookingIInv
<1>1. Init => BookingIInv
  BY BookingInitInv
<1>2. BookingIInv /\ [Next]_vars => BookingIInv'
  BY AttemptKeeps, OutsideKeeps DEF Next
<1> QED BY <1>1, <1>2, PTL DEF Spec

(* Both retries together submit twice at most, and whatever guests and     *)
(* attempts do, the provider gives away no table it does not have.         *)
THEOREM BookingTypes == Spec => []TypeOK
<1>1. BookingIInv => TypeOK
  BY DEF BookingIInv
<1> QED BY <1>1, BookingInvariant, PTL

(* The payment retry and the retry after a self-heal never repeat a        *)
(* request that may have been processed: one attempt, one reservation.     *)
THEOREM AttemptReservesOnce == Spec => []OneReservationPerAttempt
<1>1. BookingIInv => OneReservationPerAttempt
  <2>1. ASSUME BookingIInv, NEW a \in Attempts
        PROVE  held[a] <= 1
    <3>1. held[a] = 0 \/ held[a] = 1
      BY <2>1 DEF BookingIInv, AttemptInv, AnswerTells
    <3> QED BY <3>1
  <2> QED BY <2>1 DEF OneReservationPerAttempt
<1> QED BY <1>1, BookingInvariant, PTL

(* "rather than reporting a false success": what is logged as booked is    *)
(* held at the provider.                                                   *)
THEOREM BookedIsReserved == Spec => []BookedIsHeld
<1>1. BookingIInv => BookedIsHeld
  BY DEF BookingIInv, AttemptInv, AnswerTells, LogTells, BookedIsHeld
<1> QED BY <1>1, BookingInvariant, PTL

=============================================================================
