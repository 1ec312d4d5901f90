----------------------------- MODULE AlertLedger -----------------------------
(***************************************************************************)
(* What the scan engine promises about its alerts, whatever passes, slots  *)
(* and watches there are (the header of packages/core/src/services/scan.ts *)
(* and the comment of createScanService): a slot is unknown, announced or  *)
(* gone; an alert goes out exactly on becoming announced, one at a time    *)
(* per slot; a slot that is announced is not announced again before the    *)
(* ledger has let go of it.                                                *)
(***************************************************************************)
CONSTANT Keys

VARIABLES
  book,     \* book[k]: what the ledger holds of slot k
  ringing   \* the slots whose alert is on its way out

ledgerVars == <<book, ringing>>

LedgerInit ==
  /\ book = [k \in Keys |-> "unknown"]
  /\ ringing = {}

(* A new or re-freed slot: enter it and send its alert.                    *)
Ring(k) ==
  /\ book[k] # "announced"
  /\ k \notin ringing
  /\ book' = [book EXCEPT ![k] = "announced"]
  /\ ringing' = ringing \union {k}

(* The alert is delivered, or logged as failed.                            *)
Rung(k) ==
  /\ k \in ringing
  /\ ringing' = ringing \ {k}
  /\ UNCHANGED book

(* A failure after a slot is entered: its alert is never sent.             *)
Muffle(k) ==
  /\ book[k] # "announced"
  /\ k \notin ringing
  /\ book' = [book EXCEPT ![k] = "announced"]
  /\ UNCHANGED ringing

(* A crash: the alerts on their way out are lost.                          *)
Silence ==
  /\ ringing' \in SUBSET ringing
  /\ UNCHANGED book

(* A pass judges the ledger: slots it has not seen are gone, and entries   *)
(* that are past or old are dropped.  No alert is on its way out then.     *)
Judgement(k) ==
  \/ book'[k] = book[k]
  \/ book[k] = "announced" /\ book'[k] = "gone"
  \/ book'[k] = "unknown"

Reconsider ==
  /\ ringing = {}
  /\ book' \in [Keys -> {"unknown", "announced", "gone"}]
  /\ \A k \in Keys : Judgement(k)
  /\ UNCHANGED ringing

LedgerNext ==
  \/ \E k \in Keys : Ring(k) \/ Rung(k) \/ Muffle(k)
  \/ Silence
  \/ Reconsider

LedgerSpec == LedgerInit /\ [][LedgerNext]_ledgerVars

=============================================================================
