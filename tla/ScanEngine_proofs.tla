-------------------------- MODULE ScanEngine_proofs --------------------------
(***************************************************************************)
(* Proofs about the scan engine, for any slots, watches and number of      *)
(* calls, from those about the promise chain that its passes run in, for   *)
(* any number of processes.  Those that are about the `seen` table assume  *)
(* a single process over the data directory, as nothing serialises two.    *)
(***************************************************************************)
EXTENDS ScanEngine, TLAPS

(* The chain invariant holds at the start: nothing has been called.        *)
LEMMA QueueInitInv == QueueInit => QueueIInv
  BY MaxPassesIsNat, NoProcIsNoProc
  DEF QueueInit, QueueIInv, QueueTypeOK, ChainInv, InCallOrder, Passes, NoPass, Status, Settled, Over

(* A call extends the chain by its own promise.                            *)
LEMMA CallKeeps ==
  ASSUME QueueIInv, NEW p \in Procs, Call(p)
  PROVE  QueueIInv'
<1>1. QueueTypeOK'
  BY MaxPassesIsNat, NoProcIsNoProc
  DEF QueueIInv, QueueTypeOK, Call, ChainInv, Passes, NoPass, Status, Settled
<1>2. ChainInv'
  <2> DEFINE n == calls + 1
  <2> USE MaxPassesIsNat, NoProcIsNoProc DEF QueueIInv, QueueTypeOK, Passes, NoPass
  <2>1. /\ n \in Passes /\ calls' = n
        /\ owner' = [owner EXCEPT ![n] = p]
        /\ after' = [after EXCEPT ![n] = tail[p]]
        /\ tail' = [tail EXCEPT ![p] = n]
        /\ status' = [status EXCEPT ![n] = "queued"]
    BY DEF Call
  <2>2. /\ status[n] = "uncalled"
        /\ \A i \in Passes : i # n => /\ owner'[i] = owner[i] /\ after'[i] = after[i]
                                      /\ status'[i] = status[i]
        /\ owner'[n] = p /\ after'[n] = tail[p] /\ status'[n] = "queued"
    BY <2>1 DEF ChainInv
  <2> HIDE DEF n
  <2>3. /\ \A i \in Passes : i <= calls' <=> status'[i] # "uncalled"
        /\ \A i \in Passes : i <= calls' => owner'[i] \in Procs
    BY <2>1, <2>2 DEF ChainInv, n
  <2>4. ASSUME NEW q \in Procs
        PROVE  /\ tail'[q] <= calls'
               /\ tail'[q] # NoPass => owner'[tail'[q]] = q
               /\ \A i \in Passes : owner'[i] = q /\ tail'[q] < i => status'[i] \in Over
    <3>1. CASE q = p
      <4>1. tail'[q] = n
        BY <2>1, <3>1
      <4>2. \A i \in Passes : n < i => owner'[i] # p \/ status'[i] \in Over
        <5>1. \A i \in Passes : tail[p] < i /\ owner[i] = p => status[i] \in Over
          BY DEF ChainInv
        <5>2. \A i \in Passes : n < i => tail[p] < i /\ i # n
          BY <2>1 DEF ChainInv, n
        <5> QED BY <5>1, <5>2, <2>2
      <4> QED BY <4>1, <4>2, <3>1, <2>1, <2>2
    <3>2. CASE q # p
      <4>1. tail'[q] = tail[q]
        BY <2>1, <3>2
      <4>2. tail[q] <= calls /\ tail[q] # n
        BY <2>1 DEF ChainInv, n
      <4>3. tail[q] # NoPass => owner[tail[q]] = q
        BY DEF ChainInv
      <4>4. \A i \in Passes : owner[i] = q /\ tail[q] < i => status[i] \in Over
        BY DEF ChainInv
      <4> QED BY <4>1, <4>2, <4>3, <4>4, <3>2, <2>1, <2>2 DEF n
    <3> QED BY <3>1, <3>2
  <2>5. ASSUME NEW j \in Passes
        PROVE  /\ after'[j] <= calls'
               /\ after'[j] # NoPass => owner'[after'[j]] = owner'[j] /\ after'[j] < j
               /\ \A i \in Passes :
                    owner'[i] = owner'[j] /\ after'[j] < i /\ i < j /\ status'[j] # "uncalled"
                      => status'[i] \in Over
    <3>1. CASE j = n
      <4>1. after'[j] = tail[p] /\ owner'[j] = p /\ tail[p] < n
        BY <3>1, <2>1, <2>2 DEF ChainInv, n
      <4>2. tail[p] # NoPass => owner'[tail[p]] = p
        BY <4>1, <2>1, <2>2 DEF ChainInv
      <4>3. \A i \in Passes : owner[i] = p /\ tail[p] < i => status[i] \in Over
        BY DEF ChainInv
      <4> QED BY <4>1, <4>2, <4>3, <3>1, <2>1, <2>2
    <3>2. CASE j # n
      <4>1. after[j] # n
        BY <2>1, <2>2 DEF ChainInv, n
      <4>2. n < j => status[j] = "uncalled"
        BY <2>1 DEF ChainInv, n
      <4>3. /\ after[j] <= calls
            /\ after[j] # NoPass => owner[after[j]] = owner[j] /\ after[j] < j
            /\ \A i \in Passes :
                 owner[i] = owner[j] /\ after[j] < i /\ i < j /\ status[j] # "uncalled"
                   => status[i] \in Over
        BY DEF ChainInv
      <4>4. after'[j] = after[j] /\ owner'[j] = owner[j] /\ status'[j] = status[j]
        BY <3>2, <2>2
      <4>5. after[j] <= calls'
        BY <4>3, <2>1 DEF n
      <4>6. after[j] # NoPass => owner'[after[j]] = owner[after[j]]
        BY <4>1, <2>2
      <4>7. \A i \in Passes :
              owner'[i] = owner[j] /\ after[j] < i /\ i < j /\ status[j] # "uncalled"
                => i # n /\ owner'[i] = owner[i] /\ status'[i] = status[i]
        BY <4>2, <2>2
      <4> QED BY <4>3, <4>4, <4>5, <4>6, <4>7
    <3> QED BY <3>1, <3>2
  <2> QED BY <2>3, <2>4, <2>5 DEF ChainInv
<1>3. InCallOrder'
  BY MaxPassesIsNat, NoProcIsNoProc
  DEF QueueIInv, QueueTypeOK, Call, ChainInv, InCallOrder, Passes, NoPass, Status, Settled, Over
<1> QED BY <1>1, <1>2, <1>3 DEF QueueIInv

(* A pass starts only behind a settled promise, and every earlier call of  *)
(* its process is then over.                                               *)
LEMMA StartKeeps ==
  ASSUME QueueIInv, NEW i \in Passes, Start(i)
  PROVE  QueueIInv'
<1>1. QueueTypeOK'
  BY DEF QueueIInv, QueueTypeOK, Start, Status, Settled
<1>2. ChainInv'
  BY MaxPassesIsNat
  DEF QueueIInv, QueueTypeOK, Start, ChainInv, Passes, NoPass, Status, Settled, Over
<1>3. InCallOrder'
  BY MaxPassesIsNat
  DEF QueueIInv, QueueTypeOK, Start, MayStart, ChainInv, InCallOrder, Passes, NoPass, Status, Settled, Over
<1> QED BY <1>1, <1>2, <1>3 DEF QueueIInv

(* A pass that returns or throws is over, and settles only its own promise.*)
LEMMA SettleKeeps ==
  ASSUME QueueIInv, NEW i \in Passes, NEW how \in Settled, Settle(i, how)
  PROVE  QueueIInv'
<1>1. QueueTypeOK'
  BY DEF QueueIInv, QueueTypeOK, Settle, Status, Settled
<1>2. ChainInv'
  BY MaxPassesIsNat
  DEF QueueIInv, QueueTypeOK, Settle, ChainInv, Passes, NoPass, Status, Settled, Over
<1>3. InCallOrder'
  BY DEF QueueIInv, QueueTypeOK, Settle, InCallOrder, Status, Settled, Over
<1> QED BY <1>1, <1>2, <1>3 DEF QueueIInv

(* A restart leaves nothing pending in the process it restarts.            *)
LEMMA RestartKeeps ==
  ASSUME QueueIInv, NEW p \in Procs, Restart(p)
  PROVE  QueueIInv'
<1>1. QueueTypeOK'
  BY DEF QueueIInv, QueueTypeOK, Restart, Status, Settled, NoPass
<1>2. ChainInv'
  BY MaxPassesIsNat, NoProcIsNoProc
  DEF QueueIInv, QueueTypeOK, Restart, ChainInv, Passes, NoPass, Status, Settled, Over
<1>3. InCallOrder'
  BY DEF QueueIInv, QueueTypeOK, Restart, InCallOrder, Status, Settled, Over
<1> QED BY <1>1, <1>2, <1>3 DEF QueueIInv

(* Every step of the queue, and every step that does not touch it, keeps   *)
(* the chain invariant; the scan engine's proof cites it too.              *)
LEMMA QueueStepKeeps ==
  ASSUME QueueIInv, [QueueNext]_queueVars
  PROVE  QueueIInv'
<1>1. CASE UNCHANGED queueVars
  BY <1>1 DEF queueVars, QueueIInv, QueueTypeOK, ChainInv, InCallOrder
<1>2. CASE QueueNext
  BY <1>2, CallKeeps, StartKeeps, SettleKeeps, RestartKeeps DEF QueueNext
<1> QED BY <1>1, <1>2

(* In call order, the later of two running passes would need the earlier   *)
(* one to be over.                                                         *)
LEMMA OrderExcludes == QueueIInv => Exclusive
  BY MaxPassesIsNat DEF QueueIInv, QueueTypeOK, InCallOrder, Exclusive, Over, Settled, Passes

(* "Serialize passes so an on-demand scan ... can never overlap a          *)
(* scheduled pass" (scan.ts): for any number of processes and of calls, a  *)
(* process never runs two passes at the same time.                         *)
THEOREM PassesNeverOverlap == QueueSpec => []Exclusive
<1>1. QueueInit => QueueIInv
  BY QueueInitInv
<1>2. QueueIInv /\ [QueueNext]_queueVars => QueueIInv'
  BY QueueStepKeeps
<1>3. QueueIInv => Exclusive
  BY OrderExcludes
<1> QED BY <1>1, <1>2, <1>3, PTL DEF QueueSpec


(* "a tail promise that chains each pass after the previous one": whatever *)
(* rejects or restarts in between, the passes of a process run in the      *)
(* order in which they were asked for.                                     *)
THEOREM PassesRunInCallOrder == QueueSpec => []InCallOrder
<1>1. QueueInit => QueueIInv
  BY QueueInitInv
<1>2. QueueIInv /\ [QueueNext]_queueVars => QueueIInv'
  BY QueueStepKeeps
<1>3. QueueIInv => InCallOrder
  BY DEF QueueIInv
<1> QED BY <1>1, <1>2, <1>3, PTL DEF QueueSpec

-----------------------------------------------------------------------------
(* Every step of the engine is a step of the promise chain or leaves it    *)
(* alone.                                                                  *)
LEMMA EngineStepsQueue ==
  ASSUME [Next]_vars
  PROVE  [QueueNext]_queueVars
<1>1. CASE UNCHANGED vars
  BY <1>1 DEF vars
<1>2. CASE Outside
  BY <1>2 DEF Outside, Tick, SlotOpens, SlotCloses, EditWatch
<1>3. ASSUME NEW p \in Procs, CallPass(p) \/ Crash(p)
      PROVE  QueueNext
  BY <1>3 DEF CallPass, Crash, QueueNext
<1>4. ASSUME NEW i \in Passes, PassStep(i)
      PROVE  [QueueNext]_queueVars
  <2>1. CASE StartPass(i)
    BY <2>1 DEF StartPass, QueueNext
  <2>2. CASE FinishPass(i)
    BY <2>2 DEF FinishPass, QueueNext, Settled
  <2>3. CASE PassThrows(i)
    BY <2>3 DEF PassThrows, QueueNext, Settled
  <2>4. CASE \/ \E w \in Watches : BeginWatch(i, w)
             \/ SessionLive(i) \/ SessionFails(i) \/ FindAnswers(i) \/ FindFails(i)
             \/ \E k \in Keys : LookUp(i, k)
             \/ Refresh(i) \/ Announce(i) \/ NotifyReturns(i) \/ BookReturns(i)
             \/ EndWatch(i) \/ WatchThrows(i)
    BY <2>4 DEF BeginWatch, SessionLive, SessionFails, FindAnswers, FindFails, LookUp,
                Refresh, Announce, NotifyReturns, BookReturns, EndWatch, WatchThrows
  <2> QED BY <1>4, <2>1, <2>2, <2>3, <2>4 DEF PassStep
<1> QED BY <1>1, <1>2, <1>3, <1>4 DEF Next

(* The engine inherits the chain's invariant.                              *)
LEMMA EngineQueueInvariant == Spec => []QueueIInv
<1>1. Init => QueueIInv
  BY QueueInitInv DEF Init
<1>2. QueueIInv /\ [Next]_vars => QueueIInv'
  BY EngineStepsQueue, QueueStepKeeps
<1> QED BY <1>1, <1>2, PTL DEF Spec

(* "Serialize passes so an on-demand scan ... can never overlap a          *)
(* scheduled pass" (scan.ts), now of the engine itself, whatever the       *)
(* passes do and whichever processes crash.                                *)
THEOREM EnginePassesNeverOverlap == Spec => []Exclusive
  BY EngineQueueInvariant, OrderExcludes, PTL

(* "a tail promise that chains each pass after the previous one": the      *)
(* passes of the engine run in the order of the calls of their process.    *)
THEOREM EnginePassesInCallOrder == Spec => []InCallOrder
<1>1. QueueIInv => InCallOrder
  BY DEF QueueIInv
<1> QED BY <1>1, EngineQueueInvariant, PTL

-----------------------------------------------------------------------------
(* Type correctness.                                                       *)

(* The types of everything but the chain.                                  *)
StoreTypeOK ==
  /\ now \in Time
  /\ open \subseteq Keys
  /\ rows \in [Watches -> Row]
  /\ seen \in [Keys -> Entry]
  /\ alerted \subseteq Keys /\ blind \subseteq Keys /\ told \subseteq Keys
  /\ horizon \in Time

PassTypeOK ==
  /\ pc \in [Passes -> PC]
  /\ local \in [Passes -> Local]

(* A pass at an await works on a watch and a slot of the system.           *)
WorksOn(i) ==
  /\ pc[i] \in {"session", "find"} => local[i].watch \in Watches
  /\ pc[i] \in {"record", "notify", "book"} => local[i].slot \in Keys

TypeInv == StoreTypeOK /\ PassTypeOK /\ \A i \in Passes : WorksOn(i)

(* TypeOK in three parts: the queue, the tables, the passes.               *)
LEMMA TypeOKIs == TypeOK <=> QueueTypeOK /\ StoreTypeOK /\ PassTypeOK
  BY DEF TypeOK, StoreTypeOK, PassTypeOK

(* The local variables of a call that has not begun.                       *)
LEMMA NoLocalType == NoLocal \in Local
  BY ScanConstants DEF NoLocal, Local, Time

(* The types hold at the start.                                            *)
LEMMA TypeInit == Init => TypeInv
<1> SUFFICES ASSUME Init PROVE TypeInv
  OBVIOUS
<1>1. StoreTypeOK
  <2>1. rows \in [Watches -> Row]
    BY DEF Init, Row
  <2>2. NoEntry \in Entry
    BY ScanConstants DEF NoEntry, Entry, Time
  <2> QED BY <2>1, <2>2, ScanConstants DEF Init, StoreTypeOK, Time
<1>2. PassTypeOK
  BY NoLocalType DEF Init, PassTypeOK, PC
<1>3. \A i \in Passes : WorksOn(i)
  BY DEF Init, WorksOn
<1> QED BY <1>1, <1>2, <1>3 DEF TypeInv

(* A move of one pass: its program counter, its local variables, or both.  *)
LEMMA MoveType ==
  ASSUME TypeInv, NEW i \in Passes, NEW where \in PC, NEW l \in Local,
         pc' = [pc EXCEPT ![i] = where], local' = [local EXCEPT ![i] = l],
         where \in {"session", "find"} => l.watch \in Watches,
         where \in {"record", "notify", "book"} => l.slot \in Keys
  PROVE  PassTypeOK' /\ \A j \in Passes : WorksOn(j)'
  BY DEF TypeInv, PassTypeOK, WorksOn

(* The row of a slot that has been seen.                                   *)
LEMMA SightedType ==
  ASSUME NEW t \in Time PROVE Sighted(t) \in Entry
  BY DEF Sighted, Entry

(* What markAbsent and sweep make of the table.                            *)
LEMMA JudgedType ==
  ASSUME NEW entries \in [Keys -> Entry], NEW t
  PROVE  MarkAbsent(entries, t) \in [Keys -> Entry] /\ Sweep(entries, t) \in [Keys -> Entry]
<1>1. NoEntry \in Entry
  BY ScanConstants DEF NoEntry, Entry, Time
<1>2. \A k \in Keys : [entries[k] EXCEPT !.gone = TRUE] \in Entry
  BY DEF Entry
<1> QED BY <1>1, <1>2 DEF MarkAbsent, Sweep

(* The moves of a pass between its awaits.                                 *)
LEMMA MovesKeepType ==
  ASSUME TypeInv, NEW i \in Passes,
         \/ StartPass(i) \/ \E w \in Watches : BeginWatch(i, w)
         \/ SessionLive(i) \/ SessionFails(i) \/ FindAnswers(i) \/ FindFails(i)
         \/ \E k \in Keys : LookUp(i, k)
         \/ EndWatch(i)
  PROVE  TypeInv'
<1> USE DEF TypeInv
<1>0. local[i] \in Local /\ pc[i] \in PC
  BY DEF PassTypeOK
<1>1. StoreTypeOK'
  BY DEF StoreTypeOK, StartPass, BeginWatch, SessionLive, SessionFails, FindAnswers, FindFails,
         LookUp, EndWatch, storeVars, history
<1>2. PassTypeOK' /\ \A j \in Passes : WorksOn(j)'
  <2>1. CASE StartPass(i)
    <3> DEFINE l == [local[i] EXCEPT !.started = now, !.todo = Snapshot(local[i].scope),
                       !.auto = {w \in Snapshot(local[i].scope) : rows[w].autobook}]
    <3>1. Snapshot(local[i].scope) \subseteq Watches
      BY <1>0 DEF Snapshot, Enabled, Local
    <3>2. l \in Local
      BY <1>0, <3>1 DEF Local, StoreTypeOK
    <3>3. local' = [local EXCEPT ![i] = l] /\ pc' = [pc EXCEPT ![i] = "next"]
      BY <2>1, <1>0 DEF StartPass, Goto, PassTypeOK
    <3> QED BY <3>2, <3>3, MoveType DEF PC
  <2>2. CASE \E w \in Watches : BeginWatch(i, w)
    <3>1. PICK w \in Watches : BeginWatch(i, w)
      BY <2>2
    <3> DEFINE l == [local[i] EXCEPT !.todo = @ \ {w}, !.watch = w]
    <3>2. l \in Local /\ l.watch = w
      BY <1>0 DEF Local
    <3>3. local' = [local EXCEPT ![i] = l] /\ pc' = [pc EXCEPT ![i] = "session"]
      BY <3>1 DEF BeginWatch, Goto
    <3> QED BY <3>2, <3>3, MoveType DEF PC
  <2>3. CASE SessionLive(i) \/ SessionFails(i) \/ FindFails(i) \/ EndWatch(i)
    <3>1. PICK where \in PC : /\ pc' = [pc EXCEPT ![i] = where]
                              /\ where = "find" => local[i].watch \in Watches
                              /\ where \in {"next", "find"}
      BY <2>3 DEF SessionLive, SessionFails, FindFails, EndWatch, Goto, PC, WorksOn
    <3>2. local' = [local EXCEPT ![i] = local[i]]
      BY <2>3 DEF SessionLive, SessionFails, FindFails, EndWatch, PassTypeOK
    <3> QED BY <1>0, <3>1, <3>2, MoveType
  <2>4. CASE FindAnswers(i)
    <3> DEFINE l == [local[i] EXCEPT !.found = open \intersect KeysOf[local[i].watch]]
    <3>1. l \in Local
      BY <1>0 DEF Local, StoreTypeOK
    <3>2. local' = [local EXCEPT ![i] = l] /\ pc' = [pc EXCEPT ![i] = "slots"]
      BY <2>4 DEF FindAnswers, Goto
    <3> QED BY <3>1, <3>2, MoveType DEF PC
  <2>5. CASE \E k \in Keys : LookUp(i, k)
    <3>1. PICK k \in Keys : LookUp(i, k)
      BY <2>5
    <3> DEFINE l == [local[i] EXCEPT !.found = @ \ {k}, !.slot = k, !.stamp = now, !.fresh = IsFresh(k)]
    <3>2. IsFresh(k) \in BOOLEAN
      BY DEF IsFresh, StoreTypeOK, Entry
    <3>3. l \in Local /\ l.slot = k
      BY <1>0, <3>2 DEF Local, StoreTypeOK
    <3>4. local' = [local EXCEPT ![i] = l] /\ pc' = [pc EXCEPT ![i] = "record"]
      BY <3>1 DEF LookUp, Goto
    <3> QED BY <3>3, <3>4, MoveType DEF PC
  <2> QED BY <2>1, <2>2, <2>3, <2>4, <2>5
<1> QED BY <1>1, <1>2

(* The steps that write the `seen` table or report to the operator.        *)
LEMMA WritesKeepType ==
  ASSUME TypeInv, NEW i \in Passes,
         Refresh(i) \/ Announce(i) \/ NotifyReturns(i) \/ BookReturns(i) \/ WatchThrows(i)
  PROVE  TypeInv'
<1> USE DEF TypeInv
<1>0. /\ local[i] \in Local /\ local[i].stamp \in Time
      /\ pc[i] \in {"record", "notify", "book"} => local[i].slot \in Keys
  BY DEF PassTypeOK, Local, WorksOn
<1>1. Sighted(local[i].stamp) \in Entry
  BY <1>0, SightedType
<1>2. StoreTypeOK'
  <2>1. CASE Refresh(i)
    BY <2>1, <1>0, <1>1 DEF Refresh, StoreTypeOK, history
  <2>2. CASE Announce(i)
    BY <2>2, <1>0, <1>1 DEF Announce, StoreTypeOK
  <2>3. CASE NotifyReturns(i)
    BY <2>3, <1>0 DEF NotifyReturns, StoreTypeOK, storeVars
  <2>4. CASE BookReturns(i)
    BY <2>4 DEF BookReturns, StoreTypeOK, history
  <2>5. CASE WatchThrows(i)
    BY <2>5, <1>0, <1>1 DEF WatchThrows, StoreTypeOK
  <2> QED BY <2>1, <2>2, <2>3, <2>4, <2>5
<1>3. PassTypeOK' /\ \A j \in Passes : WorksOn(j)'
  <2>1. CASE Refresh(i) \/ Announce(i) \/ NotifyReturns(i) \/ BookReturns(i)
    <3>1. PICK where \in {"slots", "notify", "book"} :
            /\ pc' = [pc EXCEPT ![i] = where]
            /\ where # "slots" => local[i].slot \in Keys
      BY <2>1, <1>0 DEF Refresh, Announce, NotifyReturns, BookReturns, Goto
    <3>2. local' = [local EXCEPT ![i] = local[i]]
      BY <2>1 DEF Refresh, Announce, NotifyReturns, BookReturns, PassTypeOK
    <3> QED BY <1>0, <3>1, <3>2, MoveType DEF PC
  <2>2. CASE WatchThrows(i)
    <3> DEFINE l == [local[i] EXCEPT !.found = {}]
    <3>1. l \in Local
      BY <1>0 DEF Local
    <3>2. local' = [local EXCEPT ![i] = l] /\ pc' = [pc EXCEPT ![i] = "next"]
      BY <2>2 DEF WatchThrows, Goto
    <3> QED BY <3>1, <3>2, MoveType DEF PC
  <2> QED BY <2>1, <2>2
<1> QED BY <1>2, <1>3

(* The end of a pass.                                                      *)
LEMMA EndsKeepType ==
  ASSUME TypeInv, NEW i \in Passes, FinishPass(i) \/ PassThrows(i)
  PROVE  TypeInv'
<1> USE DEF TypeInv
<1>0. seen \in [Keys -> Entry] /\ local[i] \in Local
  BY DEF StoreTypeOK, PassTypeOK
<1>1. Judge(i) \in [Keys -> Entry]
  BY <1>0, JudgedType DEF Judge
<1>2. seen' \in [Keys -> Entry]
  BY <1>0, <1>1, JudgedType DEF FinishPass, PassThrows
<1>3. blind' \subseteq Keys /\ told' \subseteq Keys
  BY DEF FinishPass, PassThrows, Forget, Unseen, Known, StoreTypeOK
<1>4. horizon' \in Time
  BY <1>0 DEF FinishPass, PassThrows, StoreTypeOK, Local
<1>5. StoreTypeOK'
  BY <1>2, <1>3, <1>4 DEF FinishPass, PassThrows, StoreTypeOK
<1>6. pc' = [pc EXCEPT ![i] = "idle"] /\ local' = [local EXCEPT ![i] = NoLocal]
  BY DEF FinishPass, PassThrows, Goto
<1> QED BY <1>5, <1>6, NoLocalType, MoveType DEF PC

(* Calls, crashes, and what happens outside.                               *)
LEMMA RestKeepsType ==
  ASSUME TypeInv, Outside \/ \E p \in Procs : CallPass(p) \/ Crash(p)
  PROVE  TypeInv'
<1> USE DEF TypeInv
<1>1. CASE Outside
  <2>1. StoreTypeOK'
    BY <1>1, ScanConstants DEF Outside, Tick, SlotOpens, SlotCloses, EditWatch, StoreTypeOK, history, Time
  <2>2. UNCHANGED <<pc, local>>
    BY <1>1 DEF Outside, Tick, SlotOpens, SlotCloses, EditWatch, passVars
  <2> QED BY <2>1, <2>2 DEF PassTypeOK, WorksOn
<1>2. ASSUME NEW p \in Procs, CallPass(p)
      PROVE  TypeInv'
  <2>1. PICK scope \in Watches \union {"full"} : local' = [local EXCEPT ![calls + 1].scope = scope]
    BY <1>2 DEF CallPass
  <2> DEFINE n == calls + 1
             l == [local[n] EXCEPT !.scope = scope]
  <2>2. n \in Passes
    BY <1>2 DEF CallPass, Call
  <2>3. local[n] \in Local
    BY <2>2 DEF PassTypeOK
  <2>4. l \in Local /\ l.watch = local[n].watch /\ l.slot = local[n].slot
    BY <2>3 DEF Local
  <2>5. local' = [local EXCEPT ![n] = l] /\ pc' = [pc EXCEPT ![n] = pc[n]]
    BY <1>2, <2>1, <2>2 DEF CallPass, PassTypeOK
  <2>6. PassTypeOK' /\ \A j \in Passes : WorksOn(j)'
    BY <2>2, <2>4, <2>5 DEF PassTypeOK, WorksOn
  <2>7. StoreTypeOK'
    BY <1>2 DEF CallPass, storeVars, history, StoreTypeOK
  <2> QED BY <2>6, <2>7
<1>3. ASSUME NEW p \in Procs, Crash(p)
      PROVE  TypeInv'
  <2>1. StoreTypeOK'
    BY <1>3 DEF Crash, storeVars, history, StoreTypeOK
  <2>2. PassTypeOK' /\ \A j \in Passes : WorksOn(j)'
    BY <1>3, NoLocalType DEF Crash, PassTypeOK, WorksOn, PC
  <2> QED BY <2>1, <2>2
<1> QED BY <1>1, <1>2, <1>3

(* Every step keeps the types.                                             *)
LEMMA TypeKeeps ==
  ASSUME TypeInv, [Next]_vars
  PROVE  TypeInv'
<1>1. CASE UNCHANGED vars
  BY <1>1 DEF vars, storeVars, passVars, history, TypeInv, StoreTypeOK, PassTypeOK, WorksOn
<1>2. ASSUME NEW i \in Passes, PassStep(i)
      PROVE  TypeInv'
  BY <1>2, MovesKeepType, WritesKeepType, EndsKeepType DEF PassStep
<1> QED BY <1>1, <1>2, RestKeepsType DEF Next

(* Type correctness of the engine.                                         *)
THEOREM EngineTypes == Spec => []TypeOK
<1>1. Init => TypeInv
  BY TypeInit
<1>2. TypeInv /\ [Next]_vars => TypeInv'
  BY TypeKeeps
<1>3. TypeInv /\ QueueIInv => TypeOK
  BY TypeOKIs DEF TypeInv, QueueIInv
<1> QED BY <1>1, <1>2, <1>3, EngineQueueInvariant, PTL DEF Spec

-----------------------------------------------------------------------------
(* Who is awake.                                                           *)

(* A pass is somewhere in its code exactly while its promise is pending.   *)
AwakeIsRunning == \A i \in Passes : pc[i] # "idle" <=> status[i] = "running"

BaseInv == QueueIInv /\ TypeInv /\ AwakeIsRunning

(* No call is awake at the start.                                          *)
LEMMA AwakeInit == Init => AwakeIsRunning
  BY DEF Init, QueueInit, AwakeIsRunning

(* A call is awake only while the queue has it running.                    *)
LEMMA AwakeKeeps ==
  ASSUME BaseInv, [Next]_vars
  PROVE  AwakeIsRunning'
<1> USE DEF BaseInv
<1>0. pc \in [Passes -> PC] /\ status \in [Passes -> Status]
  BY DEF TypeInv, PassTypeOK, QueueIInv, QueueTypeOK
<1>1. CASE UNCHANGED vars \/ Outside
  BY <1>1 DEF vars, passVars, queueVars, Outside, Tick, SlotOpens, SlotCloses, EditWatch, AwakeIsRunning
<1>2. ASSUME NEW p \in Procs, CallPass(p)
      PROVE  AwakeIsRunning'
  <2>1. status[calls + 1] = "uncalled" /\ calls + 1 \in Passes
    BY <1>2, MaxPassesIsNat DEF CallPass, Call, QueueIInv, QueueTypeOK, ChainInv, Passes
  <2> QED BY <1>0, <1>2, <2>1 DEF CallPass, Call, AwakeIsRunning
<1>3. ASSUME NEW p \in Procs, Crash(p)
      PROVE  AwakeIsRunning'
  BY <1>0, <1>3 DEF Crash, Restart, AwakeIsRunning
<1>4. ASSUME NEW i \in Passes, PassStep(i)
      PROVE  AwakeIsRunning'
  <2>1. CASE StartPass(i)
    BY <1>0, <2>1 DEF StartPass, Start, Goto, AwakeIsRunning
  <2>2. CASE FinishPass(i)
    BY <1>0, <2>2 DEF FinishPass, Settle, Goto, AwakeIsRunning
  <2>3. CASE PassThrows(i)
    BY <1>0, <2>3 DEF PassThrows, Settle, Goto, AwakeIsRunning
  <2>4. CASE \/ \E w \in Watches : BeginWatch(i, w)
             \/ SessionLive(i) \/ SessionFails(i) \/ FindAnswers(i) \/ FindFails(i)
             \/ \E k \in Keys : LookUp(i, k)
             \/ Refresh(i) \/ Announce(i) \/ NotifyReturns(i) \/ BookReturns(i)
             \/ EndWatch(i) \/ WatchThrows(i)
    <3>1. UNCHANGED status /\ pc[i] # "idle"
      BY <2>4 DEF BeginWatch, SessionLive, SessionFails, FindAnswers, FindFails, LookUp,
                  Refresh, Announce, NotifyReturns, BookReturns, EndWatch, WatchThrows, queueVars
    <3>2. PICK where \in PC \ {"idle"} : pc' = [pc EXCEPT ![i] = where]
      BY <2>4 DEF BeginWatch, SessionLive, SessionFails, FindAnswers, FindFails, LookUp,
                  Refresh, Announce, NotifyReturns, BookReturns, EndWatch, WatchThrows, Goto, PC
    <3> QED BY <1>0, <3>1, <3>2 DEF AwakeIsRunning
  <2> QED BY <1>4, <2>1, <2>2, <2>3, <2>4 DEF PassStep
<1> QED BY <1>1, <1>2, <1>3, <1>4 DEF Next

(* Every step keeps the types, the queue and who is awake.                 *)
LEMMA BaseKeeps ==
  ASSUME BaseInv, [Next]_vars
  PROVE  BaseInv'
  BY AwakeKeeps, TypeKeeps, EngineStepsQueue, QueueStepKeeps DEF BaseInv

(* They hold throughout.                                                   *)
LEMMA BaseInvariant == Spec => []BaseInv
<1>1. Init => BaseInv
  BY AwakeInit, TypeInit, QueueInitInv DEF Init, BaseInv
<1>2. BaseInv /\ [Next]_vars => BaseInv'
  BY BaseKeeps
<1> QED BY <1>1, <1>2, PTL DEF Spec

(* A single process over the data directory.                               *)
SingleProcess == \A p, q \in Procs : p = q

(* Its passes are awake one at a time.                                     *)
LEMMA OneAwake ==
  ASSUME SingleProcess, BaseInv, NEW i \in Passes, NEW j \in Passes,
         pc[i] # "idle", pc[j] # "idle"
  PROVE  i = j
<1>1. status[i] = "running" /\ status[j] = "running"
  BY DEF BaseInv, AwakeIsRunning
<1>2. owner[i] \in Procs /\ owner[j] \in Procs
  BY <1>1 DEF BaseInv, QueueIInv, ChainInv
<1>3. Exclusive
  BY OrderExcludes DEF BaseInv
<1> QED BY <1>1, <1>2, <1>3 DEF SingleProcess, Exclusive

(* While a pass takes a step all others are asleep.                        *)
LEMMA OthersSleep ==
  ASSUME SingleProcess, BaseInv, NEW i \in Passes, PassStep(i),
         NEW j \in Passes, j # i
  PROVE  pc[j] = "idle" /\ pc'[j] = "idle"
<1>1. BaseInv'
  BY BaseKeeps DEF Next
<1>2. pc'[j] = pc[j]
  BY DEF BaseInv, TypeInv, PassTypeOK, PassStep, StartPass, BeginWatch, SessionLive, SessionFails,
         FindAnswers, FindFails, LookUp, Refresh, Announce, NotifyReturns, BookReturns, EndWatch,
         WatchThrows, FinishPass, PassThrows, Goto
<1>3. CASE StartPass(i)
  <2>1. pc'[i] # "idle"
    BY <1>3 DEF StartPass, Goto, BaseInv, TypeInv, PassTypeOK
  <2>2. pc'[j] # "idle" => i = j
    <3>1. SUFFICES ASSUME pc'[j] # "idle" PROVE i = j
      OBVIOUS
    <3>2. status'[i] = "running" /\ status'[j] = "running"
      BY <1>1, <2>1, <3>1 DEF BaseInv, AwakeIsRunning
    <3>3. owner'[i] = owner'[j]
      <4>1. owner'[i] \in Procs /\ owner'[j] \in Procs
        BY <1>1, <3>2 DEF BaseInv, QueueIInv, ChainInv
      <4> QED BY <4>1 DEF SingleProcess
    <3>4. ~(i < j) /\ ~(j < i)
      BY <1>1, <3>2, <3>3 DEF BaseInv, QueueIInv, InCallOrder, Over, Settled
    <3> QED BY <3>4, MaxPassesIsNat DEF Passes
  <2> QED BY <1>2, <2>2
<1>4. CASE ~StartPass(i)
  <2>1. pc[i] # "idle"
    BY <1>4 DEF PassStep, BeginWatch, SessionLive, SessionFails, FindAnswers, FindFails, LookUp,
         Refresh, Announce, NotifyReturns, BookReturns, EndWatch, WatchThrows, FinishPass, PassThrows
  <2> QED BY <1>2, <2>1, OneAwake
<1> QED BY <1>3, <1>4

-----------------------------------------------------------------------------
(* The clock of a pass, and what it has read.                              *)

(* A pass begins after the last one that judged, and what it records is    *)
(* stamped after its beginning.                                            *)
ClockInv(i) ==
  pc[i] # "idle" =>
    /\ horizon <= local[i].started /\ local[i].started <= now
    /\ now <= local[i].started + Retention
    /\ pc[i] = "record" => local[i].started <= local[i].stamp

(* Nobody changes an entry between its look-up and the upsert.             *)
LookInv(i) ==
  pc[i] = "record" => (local[i].fresh <=> local[i].slot \notin Known(seen))

LoneInv ==
  /\ BaseInv
  /\ horizon <= now
  /\ SeenSinceHorizon
  /\ \A i \in Passes : ClockInv(i) /\ LookInv(i)

(* isNew, as scan.ts decides it, means not known.                          *)
LEMMA FreshIsUnknown ==
  ASSUME NEW k \in Keys PROVE IsFresh(k) <=> k \notin Known(seen)
  BY DEF IsFresh, Known

(* LoneInv holds at the start.                                             *)
LEMMA LoneInit == Init => LoneInv
<1> SUFFICES ASSUME Init PROVE LoneInv
  OBVIOUS
<1>1. BaseInv
  BY AwakeInit, TypeInit, QueueInitInv DEF Init, BaseInv
<1>2. horizon <= now
  BY DEF Init
<1>3. SeenSinceHorizon
  BY DEF Init, SeenSinceHorizon, Known, NoEntry
<1>4. \A i \in Passes : ClockInv(i) /\ LookInv(i)
  BY DEF Init, ClockInv, LookInv
<1> QED BY <1>1, <1>2, <1>3, <1>4 DEF LoneInv

(* The numbers of the invariant are naturals.                              *)
LEMMA LoneNumbers ==
  ASSUME BaseInv
  PROVE  /\ now \in Nat /\ horizon \in Nat
         /\ \A i \in Passes : local[i].started \in Nat /\ local[i].stamp \in Nat
         /\ \A k \in Keys : seen[k].lastSeen \in Nat
  BY ScanConstants DEF BaseInv, TypeInv, StoreTypeOK, PassTypeOK, Local, Entry, Time

(* The steps that move a pass on and write nothing keep LoneInv.           *)
LEMMA MovesKeepLone ==
  ASSUME SingleProcess, LoneInv, NEW i \in Passes, PassStep(i),
         \/ StartPass(i) \/ \E w \in Watches : BeginWatch(i, w)
         \/ SessionLive(i) \/ SessionFails(i) \/ FindAnswers(i) \/ FindFails(i)
         \/ \E k \in Keys : LookUp(i, k)
         \/ EndWatch(i)
  PROVE  LoneInv'
<1>0. BaseInv /\ TypeInv /\ local \in [Passes -> Local] /\ pc \in [Passes -> PC]
  BY DEF LoneInv, BaseInv, TypeInv, PassTypeOK
<1>1. BaseInv'
  BY <1>0, BaseKeeps DEF Next
<1>2. UNCHANGED <<now, horizon, seen>>
  BY DEF StartPass, BeginWatch, SessionLive, SessionFails, FindAnswers, FindFails, LookUp, EndWatch,
         storeVars, history
<1>3. horizon' <= now' /\ SeenSinceHorizon'
  BY <1>2 DEF LoneInv, SeenSinceHorizon, Known
<1>4. ClockInv(i)' /\ LookInv(i)'
  <2>0. ClockInv(i) /\ LookInv(i) /\ local[i] \in Local
    BY <1>0 DEF LoneInv
  <2>1. CASE StartPass(i)
    <3>1. local'[i].started = now /\ pc'[i] = "next"
      BY <1>0, <2>0, <2>1 DEF StartPass, Goto, Local
    <3> QED BY <1>0, <1>2, <3>1, LoneNumbers, ScanConstants DEF LoneInv, ClockInv, LookInv
  <2>2. CASE \E k \in Keys : LookUp(i, k)
    <3>1. PICK k \in Keys : LookUp(i, k)
      BY <2>2
    <3>2. /\ local'[i].started = local[i].started /\ local'[i].stamp = now
          /\ local'[i].slot = k /\ (local'[i].fresh <=> IsFresh(k))
          /\ pc[i] = "slots" /\ pc'[i] = "record"
      BY <1>0, <2>0, <3>1 DEF LookUp, Goto, Local
    <3> QED BY <1>2, <2>0, <3>2, FreshIsUnknown DEF ClockInv, LookInv, Known
  <2>3. CASE ~StartPass(i) /\ ~\E k \in Keys : LookUp(i, k)
    <3>1. /\ local'[i].started = local[i].started
          /\ pc[i] # "idle" /\ pc'[i] # "record"
      <4>1. CASE \E w \in Watches : BeginWatch(i, w)
        BY <1>0, <2>0, <4>1 DEF BeginWatch, Goto, Local
      <4>2. CASE \/ SessionLive(i) \/ SessionFails(i) \/ FindAnswers(i) \/ FindFails(i)
                 \/ EndWatch(i)
        BY <1>0, <2>0, <4>2 DEF SessionLive, SessionFails, FindAnswers, FindFails, EndWatch, Goto, Local
      <4> QED BY <2>3, <4>1, <4>2
    <3> QED BY <1>2, <2>0, <3>1 DEF ClockInv, LookInv
  <2> QED BY <2>1, <2>2, <2>3
<1>5. \A j \in Passes : ClockInv(j)' /\ LookInv(j)'
  BY <1>0, <1>4, OthersSleep DEF ClockInv, LookInv
<1> QED BY <1>1, <1>3, <1>5 DEF LoneInv

(* The upserts, the alert and the booking of a pass keep it: they write    *)
(* what was looked up.                                                     *)
LEMMA WritesKeepLone ==
  ASSUME SingleProcess, LoneInv, NEW i \in Passes, PassStep(i),
         Refresh(i) \/ Announce(i) \/ NotifyReturns(i) \/ BookReturns(i) \/ WatchThrows(i)
  PROVE  LoneInv'
<1>0. /\ BaseInv /\ ClockInv(i)
      /\ local \in [Passes -> Local] /\ local[i] \in Local /\ pc \in [Passes -> PC]
      /\ seen \in [Keys -> Entry]
      /\ pc[i] = "record" => local[i].slot \in Keys
  BY DEF LoneInv, BaseInv, TypeInv, PassTypeOK, StoreTypeOK, WorksOn
<1>1. BaseInv'
  BY <1>0, BaseKeeps DEF Next
<1>2. UNCHANGED <<now, horizon>> /\ horizon' <= now'
  BY DEF Refresh, Announce, NotifyReturns, BookReturns, WatchThrows, storeVars, history, LoneInv
<1>3. \/ seen' = seen
      \/ /\ pc[i] = "record"
         /\ seen' = [seen EXCEPT ![local[i].slot] = Sighted(local[i].stamp)]
  BY DEF Refresh, Announce, NotifyReturns, BookReturns, WatchThrows, storeVars
<1>4. SeenSinceHorizon'
  <2>1. CASE seen' = seen
    BY <1>2, <2>1 DEF LoneInv, SeenSinceHorizon, Known
  <2>2. CASE /\ pc[i] = "record"
             /\ seen' = [seen EXCEPT ![local[i].slot] = Sighted(local[i].stamp)]
    <3>1. horizon <= local[i].stamp
      BY <1>0, <2>2, LoneNumbers DEF ClockInv
    <3>2. ASSUME NEW k \in Keys, k \in Known(seen')
          PROVE  seen'[k].lastSeen >= horizon
      <4>1. CASE k = local[i].slot
        BY <1>0, <2>2, <3>1, <4>1, LoneNumbers DEF Sighted
      <4>2. CASE k # local[i].slot
        <5>1. seen'[k] = seen[k]
          BY <1>0, <2>2, <4>2
        <5> QED BY <3>2, <5>1 DEF LoneInv, SeenSinceHorizon, Known
      <4> QED BY <4>1, <4>2
    <3> QED BY <1>2, <3>2 DEF SeenSinceHorizon, Known
  <2> QED BY <1>3, <2>1, <2>2
<1>5. ClockInv(i)' /\ LookInv(i)'
  <2>1. /\ local'[i].started = local[i].started
        /\ pc[i] # "idle" /\ pc'[i] # "record"
    BY <1>0 DEF Refresh, Announce, NotifyReturns, BookReturns, WatchThrows, Goto, Local
  <2> QED BY <1>0, <1>2, <2>1 DEF ClockInv, LookInv
<1>6. \A j \in Passes : ClockInv(j)' /\ LookInv(j)'
  BY <1>0, <1>5, OthersSleep DEF ClockInv, LookInv
<1> QED BY <1>1, <1>2, <1>4, <1>6 DEF LoneInv

(* The end of a pass leaves in the table only what was there, and a full   *)
(* pass only what was seen since it began.                                 *)
LEMMA JudgedEntries ==
  ASSUME BaseInv, NEW i \in Passes, FinishPass(i) \/ PassThrows(i)
  PROVE  \A k \in Keys : k \in Known(seen') =>
           /\ k \in Known(seen) /\ seen'[k] = seen[k]
           /\ FinishPass(i) /\ local[i].scope = "full" => seen[k].lastSeen >= local[i].started
<1>0. seen \in [Keys -> Entry] /\ local[i].started \in Nat
  BY LoneNumbers DEF BaseInv, TypeInv, StoreTypeOK
<1>1. ASSUME NEW entries \in [Keys -> Entry], NEW t \in Nat, NEW k \in Keys
      PROVE  /\ k \in Known(MarkAbsent(entries, t)) =>
                  k \in Known(entries) /\ MarkAbsent(entries, t)[k] = entries[k] /\ entries[k].lastSeen >= t
             /\ k \in Known(Sweep(entries, t)) =>
                  k \in Known(entries) /\ Sweep(entries, t)[k] = entries[k]
  <2>1. entries[k] \in Entry /\ entries[k].lastSeen \in Nat
    BY ScanConstants DEF Entry, Time
  <2>2. k \in Known(MarkAbsent(entries, t)) =>
          k \in Known(entries) /\ MarkAbsent(entries, t)[k] = entries[k] /\ entries[k].lastSeen >= t
    BY <2>1 DEF Known, MarkAbsent, Entry
  <2>3. k \in Known(Sweep(entries, t)) => k \in Known(entries) /\ Sweep(entries, t)[k] = entries[k]
    BY <2>1 DEF Known, Sweep, NoEntry
  <2> QED BY <2>2, <2>3
<1>2. /\ Judge(i) \in [Keys -> Entry]
      /\ \A k \in Keys : k \in Known(Judge(i)) =>
           /\ k \in Known(seen) /\ Judge(i)[k] = seen[k]
           /\ local[i].scope = "full" => seen[k].lastSeen >= local[i].started
  BY <1>0, <1>1, JudgedType DEF Judge
<1>3. now \in Nat
  BY LoneNumbers
<1>4. \A k \in Keys : k \in Known(Sweep(Judge(i), now)) =>
        k \in Known(Judge(i)) /\ Sweep(Judge(i), now)[k] = Judge(i)[k]
  BY <1>1, <1>2, <1>3
<1>5. /\ FinishPass(i) => seen' = Sweep(Judge(i), now)
      /\ PassThrows(i) => seen' \in {seen, Judge(i), Sweep(Judge(i), now)}
  BY DEF FinishPass, PassThrows
<1>6. ~FinishPass(i) \/ ~PassThrows(i)
  BY DEF FinishPass, PassThrows, Settle, BaseInv, QueueIInv, QueueTypeOK
<1> QED BY <1>2, <1>4, <1>5, <1>6

(* The end of a pass keeps it: a full pass marks absent what it has not    *)
(* seen.                                                                   *)
LEMMA EndsKeepLone ==
  ASSUME SingleProcess, LoneInv, NEW i \in Passes, PassStep(i), FinishPass(i) \/ PassThrows(i)
  PROVE  LoneInv'
<1>0. BaseInv /\ ClockInv(i) /\ pc \in [Passes -> PC]
  BY DEF LoneInv, BaseInv, TypeInv, PassTypeOK
<1>1. BaseInv'
  BY <1>0, BaseKeeps DEF Next
<1>2. /\ now' = now
      /\ \/ horizon' = horizon
         \/ horizon' = local[i].started /\ FinishPass(i) /\ local[i].scope = "full"
      /\ pc[i] # "idle" /\ pc'[i] = "idle"
  BY <1>0 DEF FinishPass, PassThrows, Goto
<1>3. horizon' <= now'
  BY <1>0, <1>2, LoneNumbers DEF LoneInv, ClockInv
<1>4. SeenSinceHorizon'
  BY <1>0, <1>2, JudgedEntries DEF LoneInv, SeenSinceHorizon, Known
<1>5. \A j \in Passes : ClockInv(j)' /\ LookInv(j)'
  BY <1>0, <1>2, OthersSleep DEF ClockInv, LookInv
<1> QED BY <1>1, <1>3, <1>4, <1>5 DEF LoneInv

(* So do calls, crashes and what happens outside the processes.            *)
LEMMA RestKeepsLone ==
  ASSUME LoneInv, Outside \/ \E p \in Procs : CallPass(p) \/ Crash(p)
  PROVE  LoneInv'
<1>0. /\ BaseInv /\ pc \in [Passes -> PC] /\ local \in [Passes -> Local]
      /\ AwakeIsRunning
  BY DEF LoneInv, BaseInv, TypeInv, PassTypeOK
<1>1. BaseInv'
  BY <1>0, BaseKeeps DEF Next
<1>2. UNCHANGED <<seen, horizon>> /\ (now' = now \/ Tick)
  BY DEF Outside, Tick, SlotOpens, SlotCloses, EditWatch, CallPass, Crash, storeVars, history
<1>3. horizon' <= now' /\ SeenSinceHorizon'
  BY <1>0, <1>2, LoneNumbers DEF Tick, LoneInv, SeenSinceHorizon, Known
<1>4. ASSUME NEW j \in Passes
      PROVE  ClockInv(j)' /\ LookInv(j)'
  <2>0. ClockInv(j) /\ LookInv(j)
    BY DEF LoneInv
  <2>1. CASE Tick
    <3>1. pc[j] # "idle" => now < local[j].started + Retention
      BY <1>0, <2>1 DEF Tick, AwakeIsRunning
    <3>2. UNCHANGED <<pc, local, seen, horizon>> /\ now' = now + 1
      BY <2>1 DEF Tick, passVars, history
    <3> QED BY <1>0, <2>0, <3>1, <3>2, LoneNumbers, ScanConstants DEF ClockInv, LookInv, Known
  <2>2. CASE Outside /\ ~Tick
    <3>1. UNCHANGED <<pc, local, seen, horizon, now>>
      BY <2>2 DEF Outside, SlotOpens, SlotCloses, EditWatch, passVars, history
    <3> QED BY <2>0, <3>1 DEF ClockInv, LookInv, Known
  <2>3. ASSUME NEW p \in Procs, CallPass(p)
        PROVE  ClockInv(j)' /\ LookInv(j)'
    <3>1. /\ UNCHANGED <<pc, seen, horizon, now>>
          /\ local'[j].started = local[j].started /\ local'[j].stamp = local[j].stamp
          /\ local'[j].slot = local[j].slot /\ local'[j].fresh = local[j].fresh
      BY <1>0, <2>3 DEF CallPass, storeVars, history, Local
    <3> QED BY <2>0, <3>1 DEF ClockInv, LookInv, Known
  <2>4. ASSUME NEW p \in Procs, Crash(p)
        PROVE  ClockInv(j)' /\ LookInv(j)'
    BY <1>0, <2>0, <2>4 DEF Crash, storeVars, history, ClockInv, LookInv, Known
  <2> QED BY <2>1, <2>2, <2>3, <2>4
<1> QED BY <1>1, <1>3, <1>4 DEF LoneInv

(* Every step of a lone process keeps LoneInv.                             *)
LEMMA LoneKeeps ==
  ASSUME SingleProcess, LoneInv, [Next]_vars
  PROVE  LoneInv'
<1>1. CASE UNCHANGED vars
  <2>1. BaseInv'
    BY BaseKeeps DEF LoneInv
  <2> QED BY <1>1, <2>1 DEF vars, storeVars, passVars, history, LoneInv, SeenSinceHorizon, Known, ClockInv, LookInv
<1>2. ASSUME NEW i \in Passes, PassStep(i)
      PROVE  LoneInv'
  BY <1>2, MovesKeepLone, WritesKeepLone, EndsKeepLone DEF PassStep
<1> QED BY <1>1, <1>2, RestKeepsLone DEF Next

(* LoneInv holds throughout, in a single process.                          *)
LEMMA LoneInvariant == SingleProcess => (Spec => []LoneInv)
<1> SUFFICES ASSUME SingleProcess PROVE Spec => []LoneInv
  OBVIOUS
<1>1. Init => LoneInv
  BY LoneInit
<1>2. LoneInv /\ [Next]_vars => LoneInv'
  BY LoneKeeps
<1> QED BY <1>1, <1>2, PTL DEF Spec

(* A completed full pass has judged every entry: whatever counts as        *)
(* present was seen since that pass began, whichever passes fail, throw    *)
(* or crash afterwards; a slot that went away before it can alert again.   *)
THEOREM PresentIsSeenSinceJudged == SingleProcess => (Spec => []SeenSinceHorizon)
<1>1. LoneInv => SeenSinceHorizon
  BY DEF LoneInv
<1> QED BY <1>1, LoneInvariant, PTL

-----------------------------------------------------------------------------
(* The alerts: what is known was announced, nothing is lost while nothing *)
(* throws or dies, and an alert is repeated only after a blind pass.       *)

Book    == [k \in Keys |-> LedgerState(seen[k])]
Ringing == {local[i].slot : i \in {j \in Passes : pc[j] = "notify"}}

(* The engine and its ledger agree on what is known.                       *)
LEMMA LedgerReads ==
  ASSUME NEW k \in Keys
  PROVE  /\ Book[k] \in {"unknown", "announced", "gone"}
         /\ Book[k] = "announced" <=> k \in Known(seen)
         /\ Book[k] # "unknown" <=> seen[k].present
  BY DEF Book, LedgerState, Known

(* Around a step of a pass, the alert on its way out is that pass's own.   *)
LEMMA RingingIs ==
  ASSUME SingleProcess, BaseInv, NEW i \in Passes, PassStep(i)
  PROVE  /\ Ringing = IF pc[i] = "notify" THEN {local[i].slot} ELSE {}
         /\ Ringing' = IF pc'[i] = "notify" THEN {local'[i].slot} ELSE {}
<1>1. \A j \in Passes : j # i => pc[j] # "notify" /\ pc'[j] # "notify"
  BY OthersSleep
<1> QED BY <1>1 DEF Ringing

(* The end of a pass invents no entry.                                     *)
LEMMA EndsInventNothing ==
  ASSUME BaseInv, NEW i \in Passes, FinishPass(i) \/ PassThrows(i), NEW k \in Keys, seen'[k].present
  PROVE  seen[k].present
<1>0. seen \in [Keys -> Entry]
  BY DEF BaseInv, TypeInv, StoreTypeOK
<1>1. ASSUME NEW entries \in [Keys -> Entry], NEW t
      PROVE  /\ MarkAbsent(entries, t)[k].present => entries[k].present
             /\ Sweep(entries, t)[k].present => entries[k].present
  BY DEF MarkAbsent, Sweep, NoEntry, Entry
<1>2. Judge(i) \in [Keys -> Entry] /\ (Judge(i)[k].present => seen[k].present)
  BY <1>0, <1>1, JudgedType DEF Judge
<1>3. Sweep(Judge(i), now)[k].present => seen[k].present
  BY <1>1, <1>2
<1> QED BY <1>2, <1>3 DEF FinishPass, PassThrows

(* A step of the ledger on one key is a step of the ledger.                *)
LEMMA LedgerSteps ==
  ASSUME NEW k \in Keys, Ledger!Ring(k) \/ Ledger!Rung(k) \/ Ledger!Muffle(k)
  PROVE  Ledger!LedgerNext
  BY DEF Ledger!LedgerNext

(* Each step of a pass is a step of the ledger, or none.                   *)
LEMMA PassStepsLedger ==
  ASSUME SingleProcess, LoneInv, NEW i \in Passes, PassStep(i)
  PROVE  Ledger!LedgerNext \/ UNCHANGED <<Book, Ringing>>
<1>0. /\ BaseInv /\ LookInv(i)
      /\ local \in [Passes -> Local] /\ pc \in [Passes -> PC] /\ seen \in [Keys -> Entry]
      /\ pc[i] \in {"record", "notify", "book"} => local[i].slot \in Keys
  BY DEF LoneInv, BaseInv, TypeInv, PassTypeOK, StoreTypeOK, WorksOn
<1>1. CASE \/ StartPass(i) \/ \E w \in Watches : BeginWatch(i, w)
           \/ SessionLive(i) \/ SessionFails(i) \/ FindAnswers(i) \/ FindFails(i)
           \/ \E l \in Keys : LookUp(i, l)
           \/ EndWatch(i) \/ BookReturns(i)
  <2>1. UNCHANGED seen
    BY <1>1 DEF StartPass, BeginWatch, SessionLive, SessionFails, FindAnswers, FindFails, LookUp,
                EndWatch, BookReturns, storeVars
  <2>2. pc[i] # "notify"
    BY <1>1, <1>0 DEF StartPass, Start, BeginWatch, SessionLive, SessionFails, FindAnswers, FindFails,
                LookUp, EndWatch, BookReturns, BaseInv, AwakeIsRunning
  <2>3. pc'[i] # "notify"
    BY <1>1, <1>0 DEF StartPass, BeginWatch, SessionLive, SessionFails, FindAnswers, FindFails, LookUp,
                EndWatch, BookReturns, Goto
  <2> QED BY <1>0, <2>1, <2>2, <2>3, RingingIs DEF Book
<1>2. CASE \/ Refresh(i)
           \/ Announce(i)
           \/ /\ WatchThrows(i) /\ pc[i] = "record" /\ local[i].fresh
              /\ seen' = [seen EXCEPT ![local[i].slot] = Sighted(local[i].stamp)]
  <2>0. PICK k \in Keys : k = local[i].slot
    BY <1>0, <1>2 DEF Refresh, Announce
  <2>1. /\ pc[i] = "record" /\ k \in Keys
        /\ seen' = [seen EXCEPT ![k] = Sighted(local[i].stamp)]
        /\ Book' = [Book EXCEPT ![k] = "announced"]
    <3>1. pc[i] = "record" /\ seen' = [seen EXCEPT ![k] = Sighted(local[i].stamp)]
      BY <1>2, <2>0 DEF Refresh, Announce
    <3>2. /\ LedgerState(seen'[k]) = "announced"
          /\ \A l \in Keys : l # k => seen'[l] = seen[l]
      BY <1>0, <3>1 DEF Sighted, LedgerState
    <3>3. Book' = [Book EXCEPT ![k] = "announced"]
      BY <3>2 DEF Book
    <3> QED BY <3>1, <3>3
  <2>2. Ringing = {}
    BY <1>0, <2>1, RingingIs
  <2>3. CASE Refresh(i)
    <3>1. Book[k] = "announced" /\ pc'[i] # "notify"
      BY <1>0, <2>0, <2>1, <2>3, LedgerReads DEF Refresh, LookInv, Goto
    <3>2. Book' = Book
      BY <2>1, <3>1 DEF Book
    <3>3. Ringing' = Ringing
      BY <1>0, <2>2, <3>1, RingingIs
    <3> QED BY <3>2, <3>3
  <2>4. CASE Announce(i)
    <3>1. Book[k] # "announced" /\ pc'[i] = "notify" /\ local' = local
      BY <1>0, <2>0, <2>1, <2>4, LedgerReads DEF Announce, LookInv, Goto
    <3>2. Ringing' = Ringing \union {k}
      BY <1>0, <2>0, <2>2, <3>1, RingingIs
    <3>3. Ledger!Ring(k)
      BY <2>1, <2>2, <3>1, <3>2 DEF Ledger!Ring, Book, Ringing
    <3>4. Ledger!LedgerNext
      BY <2>1, <3>3, LedgerSteps
    <3> QED BY <3>4
  <2>5. CASE WatchThrows(i) /\ local[i].fresh
    <3>1. Book[k] # "announced" /\ pc'[i] # "notify"
      BY <1>0, <2>0, <2>1, <2>5, LedgerReads DEF WatchThrows, LookInv, Goto
    <3>2. Ringing' = Ringing
      BY <1>0, <2>2, <3>1, RingingIs
    <3>3. Ledger!Muffle(k)
      BY <2>1, <2>2, <3>1, <3>2 DEF Ledger!Muffle, Book, Ringing
    <3>4. Ledger!LedgerNext
      BY <2>1, <3>3, LedgerSteps
    <3> QED BY <3>4
  <2> QED BY <1>2, <2>3, <2>4, <2>5
<1>3. CASE NotifyReturns(i)
  <2>0. PICK k \in Keys : k = local[i].slot
    BY <1>0, <1>3 DEF NotifyReturns
  <2>1. pc[i] = "notify" /\ pc'[i] # "notify" /\ UNCHANGED seen
    BY <1>0, <1>3 DEF NotifyReturns, Goto, storeVars
  <2>2. k \in Ringing /\ Ringing' = Ringing \ {k}
    BY <1>0, <2>0, <2>1, RingingIs
  <2>3. Ledger!Rung(k)
    BY <2>1, <2>2 DEF Ledger!Rung, Book, Ringing
  <2>4. Ledger!LedgerNext
    BY <1>0, <2>1, <2>3, LedgerSteps
  <2> QED BY <2>4
<1>4. CASE WatchThrows(i) /\ UNCHANGED seen
  <2>1. pc[i] # "notify" /\ pc'[i] # "notify"
    BY <1>0, <1>4 DEF WatchThrows, Goto
  <2> QED BY <1>0, <1>4, <2>1, RingingIs DEF Book
<1>5. CASE FinishPass(i) \/ PassThrows(i)
  <2>1. pc[i] # "notify" /\ pc'[i] # "notify"
    BY <1>0, <1>5 DEF FinishPass, PassThrows, Goto
  <2>2. Ringing = {} /\ Ringing' = {}
    BY <1>0, <2>1, RingingIs
  <2>3. Book' \in [Keys -> {"unknown", "announced", "gone"}]
    BY DEF Book, LedgerState
  <2>4. ASSUME NEW l \in Keys
        PROVE  \/ Book'[l] = Book[l]
               \/ Book[l] = "announced" /\ Book'[l] = "gone"
               \/ Book'[l] = "unknown"
    <3>1. l \in Known(seen') => l \in Known(seen)
      BY <1>0, <1>5, JudgedEntries
    <3>2. seen'[l].present => seen[l].present
      BY <1>0, <1>5, EndsInventNothing
    <3> QED BY <3>1, <3>2 DEF Book, LedgerState, Known
  <2>5. Ledger!Reconsider
    BY <2>2, <2>3, <2>4 DEF Ledger!Reconsider, Ledger!Judgement, Book, Ringing
  <2>6. Ledger!LedgerNext
    BY <2>5 DEF Ledger!LedgerNext
  <2> QED BY <2>6
<1>6. WatchThrows(i) => \/ UNCHANGED seen
                        \/ /\ seen' = [seen EXCEPT ![local[i].slot] = Sighted(local[i].stamp)]
                           /\ pc[i] = "record" /\ local[i].fresh
  BY DEF WatchThrows
<1>7. CASE WatchThrows(i)
  BY <1>2, <1>4, <1>6, <1>7
<1> QED BY <1>1, <1>2, <1>3, <1>5, <1>7 DEF PassStep

(* Every step of the engine is one of the ledger, or leaves it alone: the  *)
(* steps outside the passes at most cut an alert short.                    *)
LEMMA StepsLedger ==
  ASSUME SingleProcess, LoneInv, [Next]_vars
  PROVE  Ledger!LedgerNext \/ UNCHANGED <<Book, Ringing>>
<1>0. local \in [Passes -> Local] /\ pc \in [Passes -> PC]
  BY DEF LoneInv, BaseInv, TypeInv, PassTypeOK
<1>1. CASE UNCHANGED vars \/ Outside
  BY <1>1 DEF vars, storeVars, passVars, Outside, Tick, SlotOpens, SlotCloses, EditWatch, Book, Ringing
<1>2. ASSUME NEW p \in Procs, CallPass(p)
      PROVE  UNCHANGED <<Book, Ringing>>
  <2>1. UNCHANGED <<seen, pc>> /\ \A j \in Passes : local'[j].slot = local[j].slot
    BY <1>0, <1>2 DEF CallPass, storeVars, Local
  <2> QED BY <2>1 DEF Book, Ringing
<1>3. ASSUME NEW p \in Procs, Crash(p)
      PROVE  Ledger!LedgerNext
  <2>1. UNCHANGED seen /\ \A j \in Passes : pc'[j] = "notify" => pc[j] = "notify" /\ local'[j] = local[j]
    BY <1>0, <1>3 DEF Crash, storeVars
  <2>2. Ringing' \in SUBSET Ringing
    BY <2>1 DEF Ringing
  <2>3. Ledger!Silence
    BY <2>1, <2>2 DEF Ledger!Silence, Book, Ringing
  <2> QED BY <2>3 DEF Ledger!LedgerNext
<1>4. ASSUME NEW i \in Passes, PassStep(i)
      PROVE  Ledger!LedgerNext \/ UNCHANGED <<Book, Ringing>>
  BY <1>4, PassStepsLedger
<1> QED BY <1>1, <1>2, <1>3, <1>4 DEF Next

(* The engine keeps the ledger's promise (AlertLedger): an alert goes out  *)
(* exactly on becoming announced, one at a time per slot, and a slot that  *)
(* is announced is not announced again before the table lets go of it.     *)
THEOREM EngineKeepsLedger == SingleProcess => (Spec => ImplementsLedger)
<1> SUFFICES ASSUME SingleProcess PROVE Spec => ImplementsLedger
  OBVIOUS
<1>1. Init => Ledger!LedgerInit
  BY DEF Init, Ledger!LedgerInit, LedgerState, NoEntry
<1>2. LoneInv /\ [Next]_vars => [Ledger!LedgerNext]_Ledger!ledgerVars
  BY StepsLedger DEF Ledger!ledgerVars, Book, Ringing
<1> QED BY <1>1, <1>2, LoneInvariant, PTL DEF Spec, ImplementsLedger, Ledger!LedgerSpec

-----------------------------------------------------------------------------
(* No alert is lost while the repository does not throw and the process    *)
(* does not die.                                                           *)
NoLoss == Faults \intersect {"store", "crash"} = {}

(* NoAlertLost, in terms of the alerts under way.                          *)
LEMMA NoAlertLostIs == NoAlertLost <=> \A k \in Known(seen) : k \in told \union Ringing
  BY DEF NoAlertLost, Ringing

(* A step of a pass that neither throws nor dies keeps it.                 *)
LEMMA PassKeepsTold ==
  ASSUME SingleProcess, NoLoss, LoneInv, NEW i \in Passes, PassStep(i),
         \A k \in Known(seen) : k \in told \union Ringing
  PROVE  \A k \in Known(seen') : k \in told' \union Ringing'
<1>0. /\ BaseInv /\ LookInv(i)
      /\ local \in [Passes -> Local] /\ pc \in [Passes -> PC] /\ seen \in [Keys -> Entry]
      /\ pc[i] \in {"record", "notify", "book"} => local[i].slot \in Keys
  BY DEF LoneInv, BaseInv, TypeInv, PassTypeOK, StoreTypeOK, WorksOn
<1>1. CASE \/ StartPass(i) \/ \E w \in Watches : BeginWatch(i, w)
           \/ SessionLive(i) \/ SessionFails(i) \/ FindAnswers(i) \/ FindFails(i)
           \/ \E l \in Keys : LookUp(i, l)
           \/ EndWatch(i) \/ BookReturns(i)
  <2>1. UNCHANGED <<seen, told>>
    BY <1>1 DEF StartPass, BeginWatch, SessionLive, SessionFails, FindAnswers, FindFails, LookUp,
                EndWatch, BookReturns, storeVars, history
  <2>2. pc[i] # "notify"
    BY <1>1, <1>0 DEF StartPass, Start, BeginWatch, SessionLive, SessionFails, FindAnswers, FindFails,
                LookUp, EndWatch, BookReturns, BaseInv, AwakeIsRunning
  <2> QED BY <1>0, <2>1, <2>2, RingingIs DEF Known
<1>2. CASE Refresh(i) \/ Announce(i)
  <2>1. /\ pc[i] = "record" /\ seen' = [seen EXCEPT ![local[i].slot] = Sighted(local[i].stamp)]
        /\ local[i].slot \in Keys
    BY <1>0, <1>2 DEF Refresh, Announce
  <2>2. Ringing = {}
    BY <1>0, <2>1, RingingIs
  <2>3. \A k \in Known(seen') : k # local[i].slot => k \in Known(seen)
    BY <1>0, <2>1 DEF Known
  <2>4. CASE Refresh(i)
    <3>1. told' = told /\ local[i].slot \in Known(seen)
      BY <1>0, <2>1, <2>4 DEF Refresh, LookInv, history
    <3> QED BY <2>2, <2>3, <3>1
  <2>5. CASE Announce(i)
    <3>1. told' = told \ {local[i].slot} /\ Ringing' = {local[i].slot}
      BY <1>0, <2>5, RingingIs DEF Announce, Goto
    <3> QED BY <2>2, <2>3, <3>1
  <2> QED BY <1>2, <2>4, <2>5
<1>3. CASE NotifyReturns(i)
  <2>1. pc[i] = "notify" /\ UNCHANGED seen /\ told' = told \union {local[i].slot}
    BY <1>3 DEF NotifyReturns, storeVars
  <2> QED BY <1>0, <2>1, RingingIs DEF Known
<1>4. CASE FinishPass(i) \/ PassThrows(i)
  <2>1. pc[i] # "notify" /\ told' = told \ (Known(seen) \ Known(seen'))
    BY <1>4 DEF FinishPass, PassThrows, Forget
  <2>2. Known(seen') \subseteq Known(seen)
    BY <1>0, <1>4, JudgedEntries DEF Known
  <2> QED BY <1>0, <2>1, <2>2, RingingIs
<1>5. ~WatchThrows(i)
  BY DEF WatchThrows, NoLoss
<1> QED BY <1>1, <1>2, <1>3, <1>4, <1>5 DEF PassStep

(* An entry is persisted as notified before its alert is sent; still, as   *)
(* long as nothing throws or dies in between, whatever the engine holds    *)
(* for known has been alerted since it last forgot it, or is being so.     *)
THEOREM KnownIsAlerted == SingleProcess /\ NoLoss => (Spec => []NoAlertLost)
<1> SUFFICES ASSUME SingleProcess, NoLoss PROVE Spec => []NoAlertLost
  OBVIOUS
<1>1. Init => NoAlertLost
  BY DEF Init, NoAlertLost, Known, NoEntry
<1>2. ASSUME LoneInv, NoAlertLost, [Next]_vars
      PROVE  NoAlertLost'
  <2>0. local \in [Passes -> Local]
    BY <1>2 DEF LoneInv, BaseInv, TypeInv, PassTypeOK
  <2>1. CASE UNCHANGED vars \/ Outside
    BY <1>2, <2>1 DEF vars, storeVars, passVars, history, Outside, Tick, SlotOpens, SlotCloses, EditWatch,
                NoAlertLost, Known
  <2>2. ASSUME NEW p \in Procs, CallPass(p)
        PROVE  NoAlertLost'
    <3>1. UNCHANGED <<seen, pc, told>> /\ \A j \in Passes : local'[j].slot = local[j].slot
      BY <2>0, <2>2 DEF CallPass, storeVars, history, Local
    <3> QED BY <1>2, <3>1 DEF NoAlertLost, Known
  <2>3. ASSUME NEW i \in Passes, PassStep(i)
        PROVE  NoAlertLost'
    BY <1>2, <2>3, PassKeepsTold, NoAlertLostIs DEF NoAlertLost, Ringing
  <2>4. ~\E p \in Procs : Crash(p)
    BY DEF Crash, NoLoss
  <2> QED BY <1>2, <2>1, <2>2, <2>3, <2>4 DEF Next
<1> QED BY <1>1, <1>2, LoneInvariant, PTL DEF Spec

-----------------------------------------------------------------------------
(* A repeated alert needs a blind pass, where UTC and the venue have the   *)
(* same days (that they do not is what run scan_utc is about).             *)
SameDays == UtcLead = 0

(* A key that was alerted in this opening, that no blind pass has          *)
(* forgotten and that the table does not hold: it is off offer, and no     *)
(* pass has it among the slots it found.                                   *)
Stranded(k) == k \in alerted /\ k \notin blind /\ k \notin Known(seen)

Unfound(k, i) ==
  k \notin local[i].found /\ ~(pc[i] = "record" /\ local[i].slot = k)

OpeningInv ==
  /\ LoneInv
  /\ \A k \in open : LocalDate(now) <= DateOf[k]
  /\ \A i \in Passes : pc[i] = "idle" => local[i].found = {}
  /\ \A k \in Keys : Stranded(k) => k \notin open /\ \A i \in Passes : Unfound(k, i)

(* At the start nothing is on offer and nothing has been alerted.          *)
LEMMA OpeningInit == Init => OpeningInv
<1> SUFFICES ASSUME Init PROVE OpeningInv
  OBVIOUS
<1>1. LoneInv
  BY LoneInit
<1>2. open = {} /\ alerted = {} /\ \A i \in Passes : local[i].found = {}
  BY DEF Init, NoLocal
<1> QED BY <1>1, <1>2 DEF OpeningInv, Stranded

(* A pass does not forget what it has seen on offer.                       *)
LEMMA PassKeepsSeen ==
  ASSUME SameDays, BaseInv, NEW i \in Passes, pc[i] # "idle", ClockInv(i),
         FinishPass(i) \/ PassThrows(i),
         NEW k \in Keys, k \in Known(seen), seen[k].lastSeen >= local[i].started,
         LocalDate(now) <= DateOf[k]
  PROVE  k \in Known(seen')
<1>0. /\ seen[k].lastSeen \in Nat /\ local[i].started \in Nat /\ now \in Nat /\ Retention \in Nat
      /\ DateOf[k] \in Nat
  BY LoneNumbers, ScanConstants
<1>1. Judge(i)[k] = seen[k]
  BY <1>0 DEF Judge, MarkAbsent
<1>2. ~(seen[k].lastSeen + Retention < now)
  BY <1>0 DEF ClockInv
<1>3. ~(DateOf[k] < UtcDate(now))
  <2>1. UtcDate(now) = LocalDate(now)
    BY <1>0 DEF UtcDate, LocalDate, SameDays
  <2>2. LocalDate(now) \in Int
    BY <1>0, ScanConstants DEF LocalDate
  <2> QED BY <1>0, <2>1, <2>2
<1>4. Sweep(Judge(i), now)[k] = seen[k]
  BY <1>1, <1>2, <1>3 DEF Sweep
<1> QED BY <1>1, <1>4 DEF FinishPass, PassThrows, Known

(* The steps of a pass keep OpeningInv: a pass forgets a slot it has seen  *)
(* only if the slot has left.                                              *)
LEMMA PassKeepsOpening ==
  ASSUME SingleProcess, SameDays, OpeningInv, NEW i \in Passes, PassStep(i)
  PROVE  OpeningInv'
<1>0. /\ LoneInv /\ BaseInv /\ LookInv(i) /\ ClockInv(i)
      /\ local \in [Passes -> Local] /\ local[i] \in Local
      /\ pc \in [Passes -> PC] /\ seen \in [Keys -> Entry]
      /\ open \subseteq Keys /\ alerted \subseteq Keys
      /\ pc[i] \in {"record", "notify", "book"} => local[i].slot \in Keys
  BY DEF OpeningInv, LoneInv, BaseInv, TypeInv, PassTypeOK, StoreTypeOK, WorksOn
<1>1. LoneInv'
  BY <1>0, LoneKeeps DEF Next
<1>2. now' = now /\ open' \subseteq open
  BY DEF PassStep, StartPass, BeginWatch, SessionLive, SessionFails, FindAnswers, FindFails, LookUp,
         Refresh, Announce, NotifyReturns, BookReturns, EndWatch, WatchThrows, FinishPass, PassThrows, storeVars
<1>3. \A k \in open' : LocalDate(now') <= DateOf[k]
  BY <1>2 DEF OpeningInv, LocalDate
<1>4. \A j \in Passes : j # i => pc[j] = "idle" /\ pc'[j] = "idle" /\ local'[j] = local[j]
  <2>1. \A j \in Passes : j # i => local'[j] = local[j]
    BY <1>0 DEF PassStep, StartPass, BeginWatch, SessionLive, SessionFails, FindAnswers, FindFails, LookUp,
         Refresh, Announce, NotifyReturns, BookReturns, EndWatch, WatchThrows, FinishPass, PassThrows
  <2> QED BY <1>0, <2>1, OthersSleep
<1>5. \A j \in Passes : j # i => local'[j].found = {} /\ pc'[j] = "idle"
  BY <1>4 DEF OpeningInv
<1>6. ASSUME /\ pc'[i] = "idle" => local'[i].found = {}
             /\ \A k \in Keys : Stranded(k)' => k \notin open' /\ Unfound(k, i)'
      PROVE  OpeningInv'
  BY <1>1, <1>3, <1>5, <1>6 DEF OpeningInv, Unfound
<1>7. CASE \/ StartPass(i) \/ SessionLive(i) \/ SessionFails(i) \/ FindFails(i) \/ EndWatch(i)
           \/ NotifyReturns(i) \/ BookReturns(i)
  <2>1. UNCHANGED <<seen, alerted, blind>> /\ local'[i].found = local[i].found
    BY <1>0, <1>7 DEF StartPass, SessionLive, SessionFails, FindFails, EndWatch, NotifyReturns, BookReturns,
                storeVars, history, Local
  <2>2. pc'[i] \notin {"idle", "record"}
    BY <1>0, <1>7 DEF StartPass, SessionLive, SessionFails, FindFails, EndWatch, NotifyReturns, BookReturns, Goto
  <2> QED BY <1>2, <1>6, <2>1, <2>2 DEF OpeningInv, Stranded, Unfound, Known
<1>8. CASE \E w \in Watches : BeginWatch(i, w)
  <2>1. UNCHANGED <<seen, alerted, blind>> /\ local'[i].found = local[i].found /\ pc'[i] = "session"
    BY <1>0, <1>8 DEF BeginWatch, storeVars, history, Local, Goto
  <2> QED BY <1>2, <1>6, <2>1 DEF OpeningInv, Stranded, Unfound, Known
<1>9. CASE FindAnswers(i)
  <2>1. UNCHANGED <<seen, alerted, blind, open>> /\ local'[i].found \subseteq open /\ pc'[i] = "slots"
    BY <1>0, <1>9 DEF FindAnswers, storeVars, history, Local, Goto
  <2> QED BY <1>6, <2>1 DEF OpeningInv, Stranded, Unfound, Known
<1>10. CASE \E k \in Keys : LookUp(i, k)
  <2>1. /\ UNCHANGED <<seen, alerted, blind, open>> /\ pc'[i] = "record"
        /\ local'[i].found \subseteq local[i].found /\ local'[i].slot \in local[i].found
    BY <1>0, <1>10 DEF LookUp, storeVars, history, Local, Goto
  <2> QED BY <1>6, <2>1 DEF OpeningInv, Stranded, Unfound, Known
<1>11. CASE Refresh(i) \/ Announce(i) \/ WatchThrows(i)
  <2>1. local'[i].found \subseteq local[i].found
    BY <1>0, <1>11 DEF Refresh, Announce, WatchThrows, Local
  <2>2. pc'[i] \in {"slots", "notify", "next"}
    BY <1>0, <1>11 DEF Refresh, Announce, WatchThrows, Goto
  <2>3. \/ UNCHANGED <<seen, alerted, blind>>
        \/ /\ seen' = [seen EXCEPT ![local[i].slot] = Sighted(local[i].stamp)]
           /\ local[i].slot \in Keys
           /\ alerted' \subseteq alerted \union {local[i].slot} /\ blind \subseteq blind' \union {local[i].slot}
    BY <1>0, <1>11 DEF Refresh, Announce, WatchThrows, history
  <2>4. ASSUME NEW k \in Keys, Stranded(k)'
        PROVE  Stranded(k)
    <3>1. CASE UNCHANGED <<seen, alerted, blind>>
      BY <2>4, <3>1 DEF Stranded, Known
    <3>2. CASE k = local[i].slot /\ seen' = [seen EXCEPT ![local[i].slot] = Sighted(local[i].stamp)]
      <4>1. seen'[k] = Sighted(local[i].stamp)
        BY <1>0, <3>2
      <4> QED BY <2>4, <4>1 DEF Stranded, Known, Sighted
    <3>3. CASE k # local[i].slot /\ seen' = [seen EXCEPT ![local[i].slot] = Sighted(local[i].stamp)]
      <4>1. seen'[k] = seen[k]
        BY <1>0, <3>3
      <4> QED BY <2>3, <2>4, <3>3, <4>1 DEF Stranded, Known
    <3> QED BY <2>3, <3>1, <3>2, <3>3
  <2> QED BY <1>2, <1>6, <2>1, <2>2, <2>4 DEF OpeningInv, Unfound
<1>12. CASE FinishPass(i) \/ PassThrows(i)
  <2>1. /\ open' = open /\ alerted' = alerted /\ pc[i] # "idle" /\ pc'[i] = "idle"
        /\ local'[i] = NoLocal
        /\ blind' = blind \union Unseen(i, Known(seen) \ Known(seen'))
    BY <1>0, <1>12 DEF FinishPass, PassThrows, Forget, Goto
  <2>2. ASSUME NEW k \in Keys, Stranded(k)'
        PROVE  k \notin open
    <3>1. CASE k \notin Known(seen)
      BY <2>1, <2>2, <3>1 DEF Stranded, OpeningInv
    <3>2. CASE k \in Known(seen) /\ k \in open
      <4>1. ~(seen[k].lastSeen < local[i].started)
        BY <2>1, <2>2, <3>2 DEF Stranded, Unseen
      <4>2. seen[k].lastSeen >= local[i].started
        BY <1>0, <4>1, LoneNumbers
      <4>3. k \in Known(seen')
        BY <1>0, <1>12, <2>1, <3>2, <4>2, PassKeepsSeen DEF OpeningInv
      <4> QED BY <2>2, <4>3 DEF Stranded
    <3> QED BY <3>1, <3>2
  <2> QED BY <1>6, <2>1, <2>2 DEF Unfound, NoLocal
<1> QED BY <1>7, <1>8, <1>9, <1>10, <1>11, <1>12 DEF PassStep

(* So do the calls and crashes of processes and what happens outside them. *)
LEMMA RestKeepsOpening ==
  ASSUME SingleProcess, OpeningInv, UNCHANGED vars \/ Outside \/ \E p \in Procs : CallPass(p) \/ Crash(p)
  PROVE  OpeningInv'
<1>0. LoneInv /\ local \in [Passes -> Local] /\ pc \in [Passes -> PC] /\ BaseInv
  BY DEF OpeningInv, LoneInv, BaseInv, TypeInv, PassTypeOK
<1>1. LoneInv'
  BY <1>0, LoneKeeps DEF Next
<1>2. CASE UNCHANGED vars \/ \E w \in Watches : EditWatch(w)
  BY <1>1, <1>2 DEF vars, storeVars, passVars, history, EditWatch, OpeningInv, Stranded, Unfound, Known, LocalDate
<1>3. CASE Tick
  BY <1>1, <1>3 DEF Tick, passVars, history, OpeningInv, Stranded, Unfound, Known
<1>4. ASSUME NEW k \in Keys, SlotOpens(k) \/ SlotCloses(k)
      PROVE  OpeningInv'
  <2>1. /\ UNCHANGED <<now, seen, pc, local>>
        /\ \A l \in Keys : Stranded(l)' => Stranded(l) /\ (l # k \/ open' \subseteq open)
        /\ open' \subseteq open \union {k} /\ (open' \subseteq open \/ LocalDate(now) <= DateOf[k])
    BY <1>4 DEF SlotOpens, SlotCloses, passVars, history, Stranded, Known
  <2> QED BY <1>1, <2>1 DEF OpeningInv, Unfound, LocalDate
<1>5. ASSUME NEW p \in Procs, CallPass(p)
      PROVE  OpeningInv'
  <2>1. /\ UNCHANGED <<now, open, seen, pc, alerted, blind>>
        /\ \A j \in Passes : local'[j].found = local[j].found /\ local'[j].slot = local[j].slot
    BY <1>0, <1>5 DEF CallPass, storeVars, history, Local
  <2> QED BY <1>1, <2>1 DEF OpeningInv, Stranded, Unfound, Known, LocalDate
<1>6. ASSUME NEW p \in Procs, Crash(p)
      PROVE  OpeningInv'
  <2>1. /\ UNCHANGED <<now, open, seen, alerted, blind>>
        /\ \A j \in Passes : \/ pc'[j] = "idle" /\ local'[j].found = {}
                             \/ pc'[j] = pc[j] /\ local'[j] = local[j]
    BY <1>0, <1>6 DEF Crash, storeVars, history, NoLocal
  <2> QED BY <1>1, <2>1 DEF OpeningInv, Stranded, Unfound, Known, LocalDate
<1> QED BY <1>2, <1>3, <1>4, <1>5, <1>6 DEF Outside

(* What a pass announces, the table does not hold at that moment.          *)
LEMMA AnnouncedIsUnknown ==
  ASSUME SingleProcess, LoneInv, [Next]_vars, NEW i \in Passes, Announced(i)
  PROVE  local[i].slot \notin Known(seen)
<1>0. pc \in [Passes -> PC] /\ BaseInv /\ LookInv(i)
  BY DEF LoneInv, BaseInv, TypeInv, PassTypeOK
<1>1. pc[i] = "record" /\ pc'[i] = "notify"
  BY DEF Announced
<1>2. ~(UNCHANGED vars \/ Outside \/ \E p \in Procs : CallPass(p) \/ Crash(p))
  BY <1>0, <1>1 DEF vars, passVars, Outside, Tick, SlotOpens, SlotCloses, EditWatch, CallPass, Crash
<1>3. PICK j \in Passes : PassStep(j)
  BY <1>2 DEF Next
<1>4. j = i
  BY <1>0, <1>1, <1>3, OthersSleep
<1>5. Announce(i)
  BY <1>0, <1>1, <1>3, <1>4 DEF PassStep, StartPass, BeginWatch, SessionLive, SessionFails, FindAnswers,
     FindFails, LookUp, Refresh, NotifyReturns, BookReturns, EndWatch, WatchThrows, FinishPass, PassThrows, Goto
<1> QED BY <1>0, <1>1, <1>5 DEF Announce, LookInv

(* A slot that never left is announced again only if a pass that did not   *)
(* see it has forgotten it, and once per such pass, whatever else fails,   *)
(* throws, crashes or is edited.                                           *)
THEOREM RepeatNeedsBlindPass == SingleProcess /\ SameDays => (Spec => RealertNeedsBlindPass)
<1> SUFFICES ASSUME SingleProcess, SameDays PROVE Spec => RealertNeedsBlindPass
  OBVIOUS
<1>1. Init => OpeningInv
  BY OpeningInit
<1>2. OpeningInv /\ [Next]_vars => OpeningInv'
  BY PassKeepsOpening, RestKeepsOpening DEF Next
<1>3. ASSUME OpeningInv, [Next]_vars
      PROVE  \A i \in Passes : Announced(i) /\ local[i].slot \in alerted => local[i].slot \in blind
  <2>1. ASSUME NEW i \in Passes, Announced(i), local[i].slot \in alerted
        PROVE  local[i].slot \in blind
    <3>1. local[i].slot \in Keys /\ pc[i] = "record"
      BY <1>3, <2>1 DEF Announced, OpeningInv, LoneInv, BaseInv, TypeInv, WorksOn
    <3>2. local[i].slot \notin Known(seen)
      BY <1>3, <2>1, AnnouncedIsUnknown DEF OpeningInv
    <3> QED BY <1>3, <2>1, <3>1, <3>2 DEF OpeningInv, Stranded, Unfound
  <2> QED BY <2>1
<1> QED BY <1>1, <1>2, <1>3, PTL DEF Spec, RealertNeedsBlindPass

-----------------------------------------------------------------------------
(* One alert per opening: while no session, find or write fails, no        *)
(* process dies and no watch is edited, and for as long as the sweep has   *)
(* no entry to take by its age, no pass is blind for what was announced.   *)
OnlyRejects == Faults \subseteq {"reject"}
Young == MaxTime <= Retention

Matched == UNION {KeysOf[w] : w \in Watches}

(* What pass i has still before it of slot k.                              *)
ToSee(k, i) ==
  \/ \E w \in local[i].todo : k \in KeysOf[w]
  \/ pc[i] \in {"session", "find"} /\ k \in KeysOf[local[i].watch]
  \/ k \in local[i].found
  \/ pc[i] = "record" /\ local[i].slot = k

(* A full pass has seen, or is yet to see, whatever was announced and is   *)
(* still on offer.                                                         *)
EyeInv(i) ==
  /\ local[i].found \subseteq Matched
  /\ pc[i] = "record" => local[i].slot \in Matched
  /\ pc[i] \in {"next", "session", "find"} => local[i].found = {}
  /\ pc[i] # "idle" /\ local[i].scope = "full" =>
       \A k \in open \intersect alerted : seen[k].lastSeen >= local[i].started \/ ToSee(k, i)

AlertInv ==
  /\ OpeningInv
  /\ \A w \in Watches : rows[w].state = "enabled"
  /\ alerted \subseteq Matched
  /\ alerted \intersect blind = {}
  /\ \A i \in Passes : EyeInv(i)

(* At the start nothing has been announced.                                *)
LEMMA AlertInit == Init => AlertInv
<1> SUFFICES ASSUME Init PROVE AlertInv
  OBVIOUS
<1>1. OpeningInv
  BY OpeningInit
<1>2. \A w \in Watches : rows[w].state = "enabled"
  BY DEF Init
<1>3. /\ alerted = {} /\ open = {}
      /\ \A i \in Passes : local[i].found = {} /\ pc[i] = "idle"
  BY DEF Init, NoLocal
<1> QED BY <1>1, <1>2, <1>3 DEF AlertInv, EyeInv

(* The types that the steps below need.                                    *)
LEMMA AlertTypes ==
  ASSUME AlertInv
  PROVE  /\ LoneInv /\ BaseInv
         /\ local \in [Passes -> Local] /\ pc \in [Passes -> PC] /\ seen \in [Keys -> Entry]
         /\ open \subseteq Keys /\ alerted \subseteq Keys /\ Matched \subseteq Keys
         /\ \A i \in Passes : pc[i] \in {"record", "notify", "book"} => local[i].slot \in Keys
  BY ScanConstants DEF AlertInv, OpeningInv, LoneInv, BaseInv, TypeInv, PassTypeOK, StoreTypeOK, WorksOn, Matched

(* While pass i takes a step, the others are asleep and have found nothing.*)
LEMMA OneEye ==
  ASSUME SingleProcess, AlertInv, NEW i \in Passes, PassStep(i), EyeInv(i)'
  PROVE  \A j \in Passes : EyeInv(j)'
<1>0. BaseInv /\ local \in [Passes -> Local]
  BY AlertTypes
<1>1. ASSUME NEW j \in Passes, j # i PROVE EyeInv(j)'
  <2>1. pc[j] = "idle" /\ pc'[j] = "idle"
    BY <1>0, <1>1, OthersSleep
  <2>2. local'[j] = local[j]
    BY <1>0, <1>1 DEF PassStep, StartPass, BeginWatch, SessionLive, SessionFails, FindAnswers, FindFails, LookUp,
         Refresh, Announce, NotifyReturns, BookReturns, EndWatch, WatchThrows, FinishPass, PassThrows
  <2>3. local[j].found = {}
    BY <2>1 DEF AlertInv, OpeningInv
  <2> QED BY <2>1, <2>2, <2>3 DEF EyeInv
<1> QED BY <1>1

(* A full pass begins with every watch before it, so with every slot that  *)
(* was ever announced.                                                     *)
LEMMA StartSeesAll ==
  ASSUME AlertInv, NEW i \in Passes, StartPass(i)
  PROVE  EyeInv(i)' /\ UNCHANGED <<open, rows, alerted, blind>>
<1>0. /\ local \in [Passes -> Local] /\ local[i] \in Local /\ pc \in [Passes -> PC]
      /\ status[i] = "queued" /\ BaseInv
  BY AlertTypes DEF StartPass, Start
<1>1. /\ pc'[i] = "next" /\ local'[i].found = local[i].found /\ local'[i].scope = local[i].scope
      /\ local'[i].todo = Snapshot(local[i].scope)
      /\ UNCHANGED <<open, rows, alerted, blind>>
  BY <1>0 DEF StartPass, Goto, Local, storeVars, history
<1>2. local[i].found = {}
  BY <1>0 DEF BaseInv, AwakeIsRunning, AlertInv, OpeningInv
<1>3. local[i].scope = "full" => Snapshot(local[i].scope) = Watches
  BY DEF Snapshot, Enabled, AlertInv
<1>4. local'[i].scope = "full" => \A k \in alerted : \E w \in local'[i].todo : k \in KeysOf[w]
  BY <1>1, <1>3 DEF AlertInv, Matched
<1> QED BY <1>1, <1>2, <1>4 DEF EyeInv, ToSee

(* On its way through the watches and their slots a pass leaves none out.  *)
LEMMA MovesKeepEye ==
  ASSUME SingleProcess, AlertInv, NEW i \in Passes,
         \/ \E w \in Watches : BeginWatch(i, w)
         \/ SessionLive(i) \/ FindAnswers(i) \/ (\E k \in Keys : LookUp(i, k)) \/ EndWatch(i)
         \/ NotifyReturns(i) \/ BookReturns(i)
  PROVE  EyeInv(i)' /\ UNCHANGED <<rows, alerted, blind>>
<1>0. /\ local \in [Passes -> Local] /\ local[i] \in Local /\ pc \in [Passes -> PC] /\ EyeInv(i)
      /\ open \subseteq Keys /\ Matched \subseteq Keys /\ BaseInv
  BY AlertTypes DEF AlertInv
<1>1. /\ UNCHANGED <<rows, seen, alerted, blind>> /\ open' \subseteq open /\ pc[i] # "idle"
  BY DEF BeginWatch, SessionLive, FindAnswers, LookUp, EndWatch, NotifyReturns, BookReturns, storeVars, history
<1>2. ASSUME local'[i].scope = local[i].scope, local'[i].started = local[i].started,
             \A k \in open' \intersect alerted : ToSee(k, i) => ToSee(k, i)',
             local'[i].found \subseteq Matched, pc'[i] = "record" => local'[i].slot \in Matched,
             pc'[i] \in {"next", "session", "find"} => local'[i].found = {}
      PROVE  EyeInv(i)'
  BY <1>0, <1>1, <1>2 DEF EyeInv
<1>3. ASSUME NEW w \in Watches, BeginWatch(i, w) PROVE EyeInv(i)'
  <2>1. /\ local'[i].scope = local[i].scope /\ local'[i].started = local[i].started
        /\ local'[i].found = local[i].found /\ local'[i].todo = local[i].todo \ {w}
        /\ local'[i].watch = w /\ pc[i] = "next" /\ pc'[i] = "session"
    BY <1>0, <1>3 DEF BeginWatch, Goto, Local
  <2> QED BY <1>0, <1>2, <2>1 DEF EyeInv, ToSee
<1>4. CASE SessionLive(i)
  <2>1. local'[i] = local[i] /\ pc[i] = "session" /\ pc'[i] = "find"
    BY <1>0, <1>4 DEF SessionLive, Goto
  <2> QED BY <1>0, <1>1, <1>2, <2>1 DEF EyeInv, ToSee
<1>5. CASE FindAnswers(i)
  <2>1. /\ local'[i].scope = local[i].scope /\ local'[i].started = local[i].started
        /\ local'[i].found = open \intersect KeysOf[local[i].watch] /\ local'[i].todo = local[i].todo
        /\ pc[i] = "find" /\ pc'[i] = "slots"
    BY <1>0, <1>5 DEF FindAnswers, Goto, Local
  <2>2. local[i].watch \in Watches
    BY <1>0, <2>1 DEF BaseInv, TypeInv, WorksOn
  <2>3. local[i].found = {}
    BY <1>0, <2>1 DEF EyeInv
  <2>4. local'[i].found \subseteq Matched
    BY <2>1, <2>2 DEF Matched
  <2>5. \A k \in open' \intersect alerted : ToSee(k, i) => ToSee(k, i)'
    BY <1>1, <2>1, <2>3 DEF ToSee
  <2> QED BY <1>1, <1>2, <2>1, <2>4, <2>5
<1>6. ASSUME NEW k \in Keys, LookUp(i, k) PROVE EyeInv(i)'
  <2>1. /\ local'[i].scope = local[i].scope /\ local'[i].started = local[i].started
        /\ local'[i].found = local[i].found \ {k} /\ local'[i].todo = local[i].todo
        /\ local'[i].slot = k /\ k \in local[i].found
        /\ pc[i] = "slots" /\ pc'[i] = "record"
    BY <1>0, <1>6 DEF LookUp, Goto, Local
  <2> QED BY <1>0, <1>2, <2>1 DEF EyeInv, ToSee
<1>7. CASE EndWatch(i)
  <2>1. local'[i] = local[i] /\ pc[i] = "slots" /\ pc'[i] = "next" /\ local[i].found = {}
    BY <1>0, <1>7 DEF EndWatch, Goto
  <2> QED BY <1>0, <1>1, <1>2, <2>1 DEF EyeInv, ToSee
<1>8. CASE NotifyReturns(i) \/ BookReturns(i)
  <2>1. local'[i] = local[i] /\ pc[i] \in {"notify", "book"} /\ pc'[i] \in {"book", "slots"}
    BY <1>0, <1>8 DEF NotifyReturns, BookReturns, Goto
  <2> QED BY <1>0, <1>1, <1>2, <2>1 DEF EyeInv, ToSee
<1> QED BY <1>1, <1>3, <1>4, <1>5, <1>6, <1>7, <1>8

(* What a pass records it has seen since it began.                         *)
LEMMA WritesKeepEye ==
  ASSUME SingleProcess, AlertInv, NEW i \in Passes, Refresh(i) \/ Announce(i)
  PROVE  /\ EyeInv(i)' /\ UNCHANGED rows
         /\ alerted' \subseteq Matched /\ alerted' \intersect blind' = {}
<1>0. /\ local[i] \in Local /\ pc \in [Passes -> PC] /\ EyeInv(i) /\ BaseInv
      /\ seen \in [Keys -> Entry] /\ ClockInv(i)
      /\ open \subseteq Keys /\ alerted \subseteq Keys
  BY AlertTypes DEF AlertInv, LoneInv
<1> DEFINE k == local[i].slot
<1>1. /\ pc[i] = "record" /\ k \in Matched /\ k \in Keys
      /\ seen' = [seen EXCEPT ![k] = Sighted(local[i].stamp)]
      /\ local' = local /\ UNCHANGED <<open, rows>> /\ pc'[i] \in {"slots", "notify"}
  <2>1. pc[i] = "record" /\ k \in Keys
    BY AlertTypes DEF Refresh, Announce
  <2> QED BY <1>0, <2>1 DEF Refresh, Announce, EyeInv, Goto
<1>2. /\ alerted' = alerted \/ alerted' = alerted \union {k}
      /\ blind' \subseteq blind /\ (k \in alerted' => k \notin blind' \/ alerted' = alerted)
  BY DEF Refresh, Announce, history
<1>3. alerted' \subseteq Matched /\ alerted' \intersect blind' = {}
  BY <1>1, <1>2 DEF AlertInv
<1>4. seen'[k].lastSeen >= local[i].started
  <2>1. seen'[k] = Sighted(local[i].stamp)
    BY <1>0, <1>1
  <2>2. local[i].started <= local[i].stamp
    BY <1>0, <1>1 DEF ClockInv
  <2> QED BY <1>0, <2>1, <2>2, LoneNumbers DEF Sighted
<1>5. ASSUME local[i].scope = "full", NEW l \in open \intersect alerted'
      PROVE  seen'[l].lastSeen >= local[i].started \/ ToSee(l, i)'
  <2>1. CASE l = k
    BY <1>4, <2>1
  <2>2. CASE l # k
    <3>1. seen'[l] = seen[l] /\ l \in open \intersect alerted
      BY <1>0, <1>1, <1>2, <1>5, <2>2
    <3>2. seen[l].lastSeen >= local[i].started \/ ToSee(l, i)
      BY <1>0, <1>1, <1>5, <3>1 DEF EyeInv
    <3>3. ToSee(l, i) => ToSee(l, i)'
      BY <1>1, <2>2 DEF ToSee
    <3> QED BY <3>1, <3>2, <3>3
  <2> QED BY <2>1, <2>2
<1>6. EyeInv(i)'
  BY <1>0, <1>1, <1>5 DEF EyeInv
<1> QED BY <1>1, <1>3, <1>6

(* The end of a pass is blind for nothing that was announced.              *)
LEMMA EndsAreNotBlind ==
  ASSUME SingleProcess, SameDays, Young, AlertInv, NEW i \in Passes, FinishPass(i) \/ PassThrows(i)
  PROVE  EyeInv(i)' /\ UNCHANGED <<open, rows, alerted>> /\ alerted' \intersect blind' = {}
<1>0. /\ local \in [Passes -> Local] /\ pc \in [Passes -> PC] /\ EyeInv(i) /\ BaseInv
      /\ seen \in [Keys -> Entry] /\ ClockInv(i) /\ open \subseteq Keys /\ alerted \subseteq Keys
  BY AlertTypes DEF AlertInv, LoneInv
<1>1. /\ UNCHANGED <<now, open, rows, alerted>> /\ pc[i] = "next" /\ pc'[i] = "idle"
      /\ local'[i] = NoLocal
      /\ blind' = blind \union Unseen(i, Known(seen) \ Known(seen'))
  BY <1>0 DEF FinishPass, PassThrows, Forget, Goto
<1>2. EyeInv(i)'
  BY <1>1 DEF EyeInv, NoLocal
<1>3. ASSUME NEW k \in alerted, k \in Unseen(i, Known(seen) \ Known(seen'))
      PROVE  FALSE
  <2>1. k \in open /\ k \in Keys /\ k \in Known(seen) /\ k \notin Known(seen') /\ seen[k].lastSeen < local[i].started
    BY <1>0, <1>3 DEF Unseen, Known
  <2>2. local[i].todo = {} \/ seen' = seen
    BY DEF FinishPass, PassThrows
  <2>3. local[i].todo = {}
    BY <2>1, <2>2 DEF Known
  <2>4. ~ToSee(k, i)
    BY <1>0, <1>1, <2>3 DEF ToSee, EyeInv
  <2>5. local[i].scope # "full"
    <3>1. ~(seen[k].lastSeen >= local[i].started)
      BY <1>0, <2>1, LoneNumbers
    <3> QED BY <1>0, <1>1, <1>3, <2>1, <2>4, <3>1 DEF EyeInv
  <2>6. Judge(i) = seen
    BY <2>5 DEF Judge
  <2>7. Sweep(seen, now)[k] = seen[k]
    <3>1. /\ seen[k].lastSeen \in Nat /\ now \in 0 .. MaxTime /\ UtcLead = 0 /\ DateOf[k] \in Nat
          /\ LocalDate(now) <= DateOf[k]
      BY <1>0, <2>1, LoneNumbers, ScanConstants
      DEF SameDays, BaseInv, TypeInv, StoreTypeOK, Time, AlertInv, OpeningInv
    <3>2. ~(seen[k].lastSeen + Retention < now)
      BY <3>1, ScanConstants DEF Young
    <3>3. UtcDate(now) = LocalDate(now) /\ LocalDate(now) \in Int
      BY <3>1, ScanConstants DEF UtcDate, LocalDate
    <3>4. ~(DateOf[k] < UtcDate(now))
      BY <3>1, <3>3
    <3> QED BY <2>1, <3>2, <3>4 DEF Sweep
  <2>8. seen'[k] = seen[k]
    BY <2>6, <2>7 DEF FinishPass, PassThrows
  <2> QED BY <2>1, <2>8 DEF Known
<1> QED BY <1>1, <1>2, <1>3 DEF AlertInv

(* Every step keeps AlertInv.                                              *)
LEMMA AlertKeeps ==
  ASSUME SingleProcess, SameDays, OnlyRejects, Young, AlertInv, [Next]_vars
  PROVE  AlertInv'
<1>0. /\ local \in [Passes -> Local] /\ pc \in [Passes -> PC] /\ BaseInv
      /\ OpeningInv /\ \A i \in Passes : EyeInv(i)
  BY AlertTypes DEF AlertInv
<1>1. OpeningInv'
  BY <1>0, PassKeepsOpening, RestKeepsOpening DEF Next
<1>2. CASE UNCHANGED vars
  BY <1>0, <1>1, <1>2 DEF vars, storeVars, passVars, history, AlertInv, EyeInv, ToSee
<1>3. CASE Outside
  <2>1. /\ UNCHANGED <<rows, seen, pc, local>> /\ blind' \subseteq blind /\ alerted' \subseteq alerted
        /\ open' \intersect alerted' \subseteq open \intersect alerted
    BY <1>3 DEF Outside, Tick, SlotOpens, SlotCloses, EditWatch, passVars, history, OnlyRejects
  <2>2. \A i \in Passes : EyeInv(i)'
    BY <1>0, <2>1 DEF EyeInv, ToSee
  <2> QED BY <1>1, <2>1, <2>2 DEF AlertInv
<1>4. ASSUME NEW p \in Procs, CallPass(p)
      PROVE  AlertInv'
  <2>1. UNCHANGED <<rows, seen, pc, open, alerted, blind>>
    BY <1>4 DEF CallPass, storeVars, history
  <2>2. status[calls + 1] = "uncalled" /\ calls + 1 \in Passes
    BY <1>0, <1>4, MaxPassesIsNat DEF CallPass, Call, BaseInv, QueueIInv, QueueTypeOK, ChainInv, Passes
  <2>3. pc[calls + 1] = "idle"
    BY <1>0, <2>2 DEF BaseInv, AwakeIsRunning
  <2>4. ASSUME NEW i \in Passes PROVE EyeInv(i)'
    <3>1. /\ local'[i].found = local[i].found /\ local'[i].todo = local[i].todo
          /\ local'[i].started = local[i].started /\ local'[i].watch = local[i].watch
          /\ local'[i].slot = local[i].slot
          /\ i # calls + 1 => local'[i].scope = local[i].scope
      BY <1>0, <1>4 DEF CallPass, Local
    <3> QED BY <1>0, <2>1, <2>3, <3>1 DEF EyeInv, ToSee
  <2> QED BY <1>1, <2>1, <2>4 DEF AlertInv
<1>5. ~\E p \in Procs : Crash(p)
  BY DEF Crash, OnlyRejects
<1>6. ASSUME NEW i \in Passes, PassStep(i)
      PROVE  AlertInv'
  <2>1. ~SessionFails(i) /\ ~FindFails(i) /\ ~WatchThrows(i)
    BY DEF SessionFails, FindFails, WatchThrows, OnlyRejects
  <2>2. /\ EyeInv(i)' /\ UNCHANGED rows
        /\ alerted' \subseteq Matched /\ alerted' \intersect blind' = {}
    <3>1. CASE StartPass(i)
      BY <3>1, StartSeesAll DEF AlertInv
    <3>2. CASE \/ \E w \in Watches : BeginWatch(i, w)
               \/ SessionLive(i) \/ FindAnswers(i) \/ (\E k \in Keys : LookUp(i, k)) \/ EndWatch(i)
               \/ NotifyReturns(i) \/ BookReturns(i)
      <4>1. EyeInv(i)' /\ UNCHANGED <<rows, alerted, blind>>
        BY <3>2, MovesKeepEye
      <4> QED BY <4>1 DEF AlertInv
    <3>3. CASE Refresh(i) \/ Announce(i)
      BY <3>3, WritesKeepEye
    <3>4. CASE FinishPass(i) \/ PassThrows(i)
      BY <3>4, EndsAreNotBlind DEF AlertInv
    <3> QED BY <1>6, <2>1, <3>1, <3>2, <3>3, <3>4 DEF PassStep
  <2>3. \A j \in Passes : EyeInv(j)'
    BY <1>6, <2>2, OneEye
  <2> QED BY <1>1, <2>2, <2>3 DEF AlertInv, Matched
<1> QED BY <1>2, <1>3, <1>4, <1>5, <1>6 DEF Next

(* "alerts on genuinely new or re-freed slots": within one opening of a    *)
(* slot its alert is decided once, whatever passes, scopes and watches     *)
(* overlap and whichever passes are rejected, while nothing else fails and *)
(* for as long as no entry reaches the age at which the sweep drops it.    *)
THEOREM OneAlert == SingleProcess /\ SameDays /\ OnlyRejects /\ Young => (Spec => OneAlertPerOpening)
<1> SUFFICES ASSUME SingleProcess, SameDays, OnlyRejects, Young PROVE Spec => OneAlertPerOpening
  OBVIOUS
<1>1. Init => AlertInv
  BY AlertInit
<1>2. AlertInv /\ [Next]_vars => AlertInv'
  BY AlertKeeps
<1>3. ASSUME AlertInv, [Next]_vars
      PROVE  \A i \in Passes : Announced(i) => local[i].slot \notin alerted
  <2>1. ASSUME NEW i \in Passes, Announced(i), local[i].slot \in alerted
        PROVE  FALSE
    <3>1. LoneInv /\ OpeningInv /\ local[i].slot \in Keys /\ pc[i] = "record"
      BY <1>3, <2>1, AlertTypes DEF Announced, AlertInv
    <3>2. local[i].slot \notin Known(seen)
      BY <1>3, <2>1, <3>1, AnnouncedIsUnknown
    <3>3. local[i].slot \in blind
      BY <2>1, <3>1, <3>2 DEF OpeningInv, Stranded, Unfound
    <3> QED BY <1>3, <2>1, <3>3 DEF AlertInv
  <2> QED BY <2>1
<1> QED BY <1>1, <1>2, <1>3, PTL DEF Spec, OneAlertPerOpening

=============================================================================
