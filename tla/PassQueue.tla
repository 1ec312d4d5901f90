------------------------------ MODULE PassQueue ------------------------------
(***************************************************************************)
(* The promise chain that serialises scan passes: runExclusive and the     *)
(* `tail` variable of packages/core/src/services/scan.ts.                  *)
(*                                                                         *)
(* Every process that builds the application (server, CLI, MCP) has its    *)
(* own scan service and so its own `tail`.  runExclusive captures the      *)
(* promise `tail` holds, replaces `tail` by the promise of the new call,   *)
(* and runs the call when the captured promise settles, however it         *)
(* settles.  Passes are numbered in the order in which they are called.    *)
(***************************************************************************)
EXTENDS Naturals

CONSTANTS
  Procs,       \* the processes built over one data directory
  NoProc,      \* the owner of a pass that is not called yet
  MaxPasses    \* bound: how many passes are ever called

ASSUME MaxPassesIsNat == MaxPasses \in Nat
ASSUME NoProcIsNoProc == NoProc \notin Procs

NoPass == 0
Passes == 1 .. MaxPasses

VARIABLES
  calls,    \* how many passes have been called so far
  owner,    \* owner[i]: the process whose scan service pass i was called on
  after,    \* after[i]: the pass whose promise call i captured, or NoPass
  tail,     \* tail[p]: the pass whose promise `tail` holds in process p
  status    \* status[i]: where the promise of pass i is

queueVars == <<calls, owner, after, tail, status>>

Settled == {"fulfilled", "rejected"}
Status  == {"uncalled", "queued", "running", "dead"} \union Settled

QueueTypeOK ==
  /\ calls \in 0 .. MaxPasses
  /\ owner \in [Passes -> Procs \union {NoProc}]
  /\ after \in [Passes -> Passes \union {NoPass}]
  /\ tail \in [Procs -> Passes \union {NoPass}]
  /\ status \in [Passes -> Status]

QueueInit ==
  /\ calls = 0
  /\ owner = [i \in Passes |-> NoProc]
  /\ after = [i \in Passes |-> NoPass]
  /\ tail = [p \in Procs |-> NoPass]
  /\ status = [i \in Passes |-> "uncalled"]

(* Mutant of Call: `tail` is not replaced by the new promise.              *)
CallKeepsTail(p) ==
  LET i == calls + 1 IN
  /\ i \in Passes
  /\ calls' = i
  /\ owner' = [owner EXCEPT ![i] = p]
  /\ after' = [after EXCEPT ![i] = tail[p]]
  /\ status' = [status EXCEPT ![i] = "queued"]
  /\ UNCHANGED tail

(* runExclusive(fn): queue behind the promise in `tail` and become it.     *)
Call(p) ==
  LET i == calls + 1 IN
  /\ i \in Passes
  /\ calls' = i
  /\ owner' = [owner EXCEPT ![i] = p]
  /\ after' = [after EXCEPT ![i] = tail[p]]
  /\ tail' = [tail EXCEPT ![p] = i]
  /\ status' = [status EXCEPT ![i] = "queued"]

(* Mutants of MayStart: no chaining at all; and tail.then(fn), which a     *)
(* rejected pass would break for good.                                     *)
MayStartAtOnce(i) == TRUE
MayStartIfFulfilled(i) == after[i] # NoPass => status[after[i]] = "fulfilled"

(* tail.then(fn, fn): the captured promise has settled, either way.        *)
MayStart(i) == after[i] # NoPass => status[after[i]] \in Settled

Start(i) ==
  /\ status[i] = "queued"
  /\ MayStart(i)
  /\ status' = [status EXCEPT ![i] = "running"]
  /\ UNCHANGED <<calls, owner, after, tail>>

(* The pass returns its report, or throws.                                 *)
Settle(i, how) ==
  /\ status[i] = "running"
  /\ status' = [status EXCEPT ![i] = how]
  /\ UNCHANGED <<calls, owner, after, tail>>

(* Process p dies and is started again: its pending promises are gone and  *)
(* the new scan service starts from a resolved `tail`.                     *)
Restart(p) ==
  /\ status' = [i \in Passes |->
                  IF owner[i] = p /\ status[i] \in {"queued", "running"}
                  THEN "dead" ELSE status[i]]
  /\ tail' = [tail EXCEPT ![p] = NoPass]
  /\ UNCHANGED <<calls, owner, after>>

QueueNext ==
  \/ \E p \in Procs : Call(p) \/ Restart(p)
  \/ \E i \in Passes : Start(i) \/ \E how \in Settled : Settle(i, how)

QueueSpec == QueueInit /\ [][QueueNext]_queueVars

-----------------------------------------------------------------------------
(* "Serialize passes so an on-demand scan can never overlap a scheduled    *)
(* pass": no two passes of one process run at the same time.               *)
Exclusive ==
  \A i, j \in Passes :
    status[i] = "running" /\ status[j] = "running" /\ owner[i] = owner[j] => i = j

Over == Settled \union {"dead"}

(* Callers are served in the order of their calls, and none is dropped: a  *)
(* pass runs or has run only when every earlier call on its process is     *)
(* over.  It is the strengthening that makes Exclusive inductive.          *)
InCallOrder ==
  \A i, j \in Passes :
    i < j /\ owner[i] = owner[j] /\ status[j] \in {"running"} \union Settled
      => status[i] \in Over

(* What the chain of promises remembers: a call can only have skipped      *)
(* earlier calls of its process that are over, and so can `tail`.          *)
ChainInv ==
  /\ \A i \in Passes : i <= calls <=> status[i] # "uncalled"
  /\ \A i \in Passes : i <= calls => owner[i] \in Procs
  /\ \A p \in Procs :
       /\ tail[p] <= calls
       /\ tail[p] # NoPass => owner[tail[p]] = p
       /\ \A i \in Passes : owner[i] = p /\ tail[p] < i => status[i] \in Over
  /\ \A j \in Passes :
       /\ after[j] <= calls
       /\ after[j] # NoPass => owner[after[j]] = owner[j] /\ after[j] < j
       /\ \A i \in Passes :
            owner[i] = owner[j] /\ after[j] < i /\ i < j /\ status[j] # "uncalled"
              => status[i] \in Over

QueueIInv == QueueTypeOK /\ ChainInv /\ InCallOrder

=============================================================================
