----------------------- MODULE TransferManagerProofs -----------------------
(***************************************************************************)
(* Proofs about module TransferManager, for every set of calls and keys    *)
(* and every concurrency limit.                                            *)
(***************************************************************************)
EXTENDS TransferManager, FiniteSetTheorems, TLAPS

\* The counter counts the slot holders, and stays within the limit.
SlotInv ==
    /\ IsFiniteSet(SlotHolders)
    /\ activeTransfers = Cardinality(SlotHolders)
    /\ activeTransfers <= concurrencyLimit

\* A queued transfer waits for start and is in the queue once; the queue is
\* empty while a slot is free.
QueueInv ==
    /\ \A i \in 1..Len(waitingTransfers) :
          /\ ~start[waitingTransfers[i]]
          /\ mgr[waitingTransfers[i]] = "selectBoth"
    /\ \A i, j \in 1..Len(waitingTransfers) :
          waitingTransfers[i] = waitingTransfers[j] => i = j
    /\ waitingTransfers # << >> => activeTransfers >= concurrencyLimit

\* How far the DoFunc of a transfer is, against its channels and its manager.
LifeInv ==
    \A x \in Calls :
        /\ doFunc[x] = "none" <=> mgr[x] = "none"
        /\ mgr[x] = "none" => /\ watchers[x] = {}
                              /\ ~start[x]
                              /\ ~cancelled[x]
        /\ doFunc[x] \in {"active", "passive", "finished"} => start[x]
        /\ inactive[x] => doFunc[x] \in {"passive", "finished"}
        /\ mgr[x] = "selectDone" => inactive[x]
        /\ mgr[x] \in {"closing", "exited"} => doFunc[x] = "finished"
        /\ closed[x] <=> mgr[x] = "exited"

\* The map holds the tracked transfers, each under its key.
MapInv ==
    /\ \A x \in Calls : x \in Tracked => transfers[key[x]] = x
    /\ \A k \in Keys : transfers[k] # None => /\ transfers[k] \in Tracked
                                              /\ key[transfers[k]] = k

\* watchers records exactly the calls that look at the transfer.
WatchInv ==
    \A c \in Calls :
        /\ pc[c] \in {"checking", "watching"} => at[c] \in Calls
        /\ \A x \in Calls :
              c \in watchers[x] <=> at[c] = x /\ pc[c] \in {"checking", "watching"}
        /\ pc[c] \in {"calling", "checking", "detaching", "awaiting"} =>
              mgr[c] = "none"

\* tm.mu is kept by the call that checks or leaves a tracked transfer.
LockInv ==
    \A c \in Calls :
        /\ pc[c] \in {"checking", "detaching"} => tmHolder = c
        /\ pc[c] = "checking" => at[c] \in Tracked

\* The inductive invariant: the parts above and the properties that need no
\* strengthening of their own.
IInv == /\ TypeOK
        /\ SlotInv
        /\ QueueInv
        /\ LifeInv
        /\ MapInv
        /\ WatchInv
        /\ LockInv
        /\ WatchedNotCancelled
        /\ ReleasedExactlyOnce
        /\ UnwatchedIsCancelled

-----------------------------------------------------------------------------

\* No transfer exists at first.
LEMMA InitIInv == Init => IInv
<1>1. SUFFICES ASSUME Init PROVE IInv
  OBVIOUS
<1>2. TypeOK
  BY <1>1, LimitAssumption DEF Init, TypeOK, CallStates, DoStates, MgrStates
<1>3. SlotHolders = {}
  BY <1>1 DEF Init, SlotHolders
<1>4. SlotInv
  BY <1>1, <1>3, FS_EmptySet, LimitAssumption DEF Init, SlotInv
<1>5. QueueInv /\ LifeInv /\ MapInv /\ WatchInv /\ LockInv
  BY <1>1, NoneAssumption
  DEF Init, QueueInv, LifeInv, MapInv, WatchInv, LockInv, Tracked
<1>6. WatchedNotCancelled /\ ReleasedExactlyOnce /\ UnwatchedIsCancelled
  BY <1>1 DEF Init, WatchedNotCancelled, ReleasedExactlyOnce, UnwatchedIsCancelled
<1>7. QED
  BY <1>2, <1>4, <1>5, <1>6 DEF IInv

\* Types of what TakeSlot changes.
LEMMA TakeSlotType ==
    ASSUME TypeOK, NEW c \in Calls, TakeSlot(c)
    PROVE  /\ activeTransfers' \in Nat
           /\ waitingTransfers' \in Seq(Calls)
           /\ start' \in [Calls -> BOOLEAN]
<1>1. activeTransfers' \in Nat
  BY DEF TypeOK, TakeSlot
<1>2. waitingTransfers' \in Seq(Calls)
  <2>1. waitingTransfers \in Seq(Calls)
    BY DEF TypeOK
  <2>2. waitingTransfers' \in {waitingTransfers, Append(waitingTransfers, c)}
    BY DEF TakeSlot
  <2>3. QED
    BY <2>1, <2>2
<1>3. start' \in [Calls -> BOOLEAN]
  BY ZenonT(30) DEF TypeOK, TakeSlot
<1>4. QED
  BY <1>1, <1>2, <1>3

\* Types of what DropWatcher changes.
LEMMA DropWatcherType ==
    ASSUME TypeOK, NEW x \in Calls, NEW c \in Calls, DropWatcher(x, c)
    PROVE  /\ watchers' \in [Calls -> SUBSET Calls]
           /\ cancelled' \in [Calls -> BOOLEAN]
           /\ released' \in [Calls -> Nat]
<1>1. watchers' \in [Calls -> SUBSET Calls]
  BY DEF TypeOK, DropWatcher
<1>2. cancelled' \in [Calls -> BOOLEAN]
  BY ZenonT(30) DEF TypeOK, DropWatcher
<1>3. released' \in [Calls -> Nat]
  <2>1. released \in [Calls -> Nat]
    BY DEF TypeOK
  <2>2. \/ released' = released
        \/ released' = [released EXCEPT ![x] = IF @ = 0 THEN 1 ELSE @]
    BY DEF DropWatcher
  <2>3. QED
    BY <2>1, <2>2
<1>4. QED
  BY <1>1, <1>2, <1>3

\* A call that finds no tracked transfer takes a slot or queues up.
LEMMA TransferNewSlots ==
    ASSUME IInv, NEW c \in Calls, TransferNew(c)
    PROVE  \/ /\ Cardinality(SlotHolders) < concurrencyLimit
              /\ SlotHolders' = SlotHolders \cup {c}
              /\ waitingTransfers' = waitingTransfers
              /\ activeTransfers' = activeTransfers + 1
           \/ /\ Cardinality(SlotHolders) >= concurrencyLimit
              /\ SlotHolders' = SlotHolders
              /\ waitingTransfers' = Append(waitingTransfers, c)
              /\ activeTransfers' = activeTransfers
<1>1. mgr[c] = "none" /\ ~start[c]
  BY DEF IInv, WatchInv, LifeInv, TransferNew
<1>2. CASE activeTransfers < concurrencyLimit
  <2>1. SlotHolders' = SlotHolders \cup {c}
    BY <1>1, <1>2, LimitAssumption
    DEF IInv, TypeOK, SlotHolders, TransferNew, TakeSlot
  <2>2. QED
    BY <1>2, <2>1, LimitAssumption DEF IInv, TypeOK, SlotInv, TransferNew, TakeSlot
<1>3. CASE activeTransfers >= concurrencyLimit
  <2>1. SlotHolders' = SlotHolders
    BY <1>1, <1>3, LimitAssumption
    DEF IInv, TypeOK, SlotHolders, TransferNew, TakeSlot
  <2>2. QED
    BY <1>3, <2>1, LimitAssumption DEF IInv, TypeOK, SlotInv, TransferNew, TakeSlot
<1>4. QED
  BY <1>2, <1>3, LimitAssumption DEF IInv, TypeOK

\* A transfer whose manager goroutine runs inactivate holds a slot, and hands
\* it to the head of the queue or gives it back.
LEMMA InactivateSlots ==
    ASSUME IInv, NEW x \in Calls, mgr[x] = "selectBoth", start[x], inactivate(x),
           \E s \in {"selectDone", "closing"} : mgr' = [mgr EXCEPT ![x] = s]
    PROVE  /\ x \in SlotHolders
           /\ \/ /\ waitingTransfers # << >>
                 /\ Head(waitingTransfers) \in Calls
                 /\ Head(waitingTransfers) # x
                 /\ Head(waitingTransfers) \notin SlotHolders
                 /\ SlotHolders' = (SlotHolders \ {x}) \cup {Head(waitingTransfers)}
                 /\ waitingTransfers' = Tail(waitingTransfers)
                 /\ activeTransfers' = activeTransfers
              \/ /\ waitingTransfers = << >>
                 /\ SlotHolders' = SlotHolders \ {x}
                 /\ waitingTransfers' = waitingTransfers
                 /\ activeTransfers' = activeTransfers - 1
<1>1. x \in SlotHolders
  BY DEF SlotHolders
<1>2. CASE waitingTransfers # << >>
  <2>1. /\ Head(waitingTransfers) \in Calls
        /\ ~start[Head(waitingTransfers)]
        /\ mgr[Head(waitingTransfers)] = "selectBoth"
    BY <1>2 DEF IInv, TypeOK, QueueInv
  <2>2. /\ start' = [start EXCEPT ![Head(waitingTransfers)] = TRUE]
        /\ waitingTransfers' = Tail(waitingTransfers)
        /\ activeTransfers' = activeTransfers
    BY <1>2 DEF inactivate
  <2>3. SlotHolders' = (SlotHolders \ {x}) \cup {Head(waitingTransfers)}
    BY <2>1, <2>2 DEF IInv, TypeOK, SlotHolders
  <2>4. QED
    BY <1>1, <1>2, <2>1, <2>2, <2>3 DEF SlotHolders
<1>3. CASE waitingTransfers = << >>
  <2>1. /\ start' = start
        /\ waitingTransfers' = waitingTransfers
        /\ activeTransfers' = activeTransfers - 1
    BY <1>3 DEF inactivate
  <2>2. SlotHolders' = SlotHolders \ {x}
    BY <2>1 DEF IInv, TypeOK, SlotHolders
  <2>3. QED
    BY <1>1, <1>3, <2>1, <2>2
<1>4. QED
  BY <1>2, <1>3

\* TransferNew: a new transfer joins the slots or the queue, the map and the watchers.
LEMMA TransferNewIInv ==
    ASSUME IInv, NEW c \in Calls, TransferNew(c)
    PROVE  IInv'
<1> USE DEF tmVars, callVars, lifeVars, workVars
<1>a. TypeOK /\ SlotInv /\ QueueInv /\ LifeInv /\ MapInv /\ WatchInv /\ LockInv
  BY DEF IInv
<1>b. WatchedNotCancelled /\ ReleasedExactlyOnce /\ UnwatchedIsCancelled
  BY DEF IInv
<1>1. TypeOK'
  <2>1. /\ activeTransfers' \in Nat
        /\ waitingTransfers' \in Seq(Calls)
        /\ start' \in [Calls -> BOOLEAN]
    BY <1>a, TakeSlotType DEF TransferNew
  <2>2. /\ watchers' \in [Calls -> SUBSET Calls]
        /\ transfers' \in [Keys -> Calls \cup {None}]
        /\ at' \in [Calls -> Calls \cup {None}]
    BY <1>a DEF TypeOK, TransferNew
  <2>3. QED
    BY <1>a, <2>1, <2>2
    DEF TypeOK, TransferNew, CallStates, DoStates, MgrStates
<1>2. SlotInv'
  <2>1. c \notin SlotHolders
    BY <1>a DEF WatchInv, SlotHolders, TransferNew
  <2>2. /\ IsFiniteSet(SlotHolders \cup {c})
        /\ Cardinality(SlotHolders \cup {c}) = Cardinality(SlotHolders) + 1
    BY <1>a, <2>1, FS_AddElement DEF SlotInv
  <2>3. \/ /\ Cardinality(SlotHolders) < concurrencyLimit
           /\ SlotHolders' = SlotHolders \cup {c}
           /\ activeTransfers' = activeTransfers + 1
        \/ /\ SlotHolders' = SlotHolders
           /\ activeTransfers' = activeTransfers
    BY TransferNewSlots
  <2>4. activeTransfers \in Nat
    BY <1>a DEF TypeOK
  <2>5. /\ IsFiniteSet(SlotHolders')
        /\ activeTransfers' = Cardinality(SlotHolders')
        /\ activeTransfers' <= concurrencyLimit
    BY SMTT(30), <1>a, <2>2, <2>3, <2>4, LimitAssumption DEF SlotInv
  <2>6. QED
    BY <2>5 DEF SlotInv
<1>3. QueueInv'
  <2>1. mgr[c] = "none" /\ ~start[c]
    BY <1>a DEF WatchInv, LifeInv, TransferNew
  <2>2. \A i \in 1..Len(waitingTransfers) : waitingTransfers[i] \in Calls \ {c}
    BY <1>a, <2>1 DEF TypeOK, QueueInv
  <2>3. mgr'[c] = "selectBoth" /\ \A x \in Calls \ {c} : mgr'[x] = mgr[x]
    BY <1>a DEF TypeOK, TransferNew
  <2>4. CASE activeTransfers < concurrencyLimit
    <3>1. /\ \A x \in Calls \ {c} : start'[x] = start[x]
          /\ waitingTransfers' = waitingTransfers
      BY <1>a, <2>4, LimitAssumption DEF TypeOK, TransferNew, TakeSlot
    <3>2. waitingTransfers = << >>
      BY <1>a, <2>4, LimitAssumption DEF QueueInv, TypeOK
    <3>3. QED
      BY <3>1, <3>2 DEF QueueInv
  <2>5. CASE activeTransfers >= concurrencyLimit
    <3>1. /\ start' = start
          /\ waitingTransfers' = Append(waitingTransfers, c)
          /\ activeTransfers' = activeTransfers
      BY <1>a, <2>5, LimitAssumption DEF TypeOK, TransferNew, TakeSlot
    <3>2. /\ Len(waitingTransfers') = Len(waitingTransfers) + 1
          /\ Len(waitingTransfers) \in Nat
          /\ waitingTransfers'[Len(waitingTransfers) + 1] = c
          /\ \A i \in 1..Len(waitingTransfers) :
                waitingTransfers'[i] = waitingTransfers[i]
      BY <1>a, <3>1 DEF TypeOK
    <3>3. \A i \in 1..Len(waitingTransfers') :
             ~start'[waitingTransfers'[i]] /\ mgr'[waitingTransfers'[i]] = "selectBoth"
      BY <1>a, <2>1, <2>2, <2>3, <3>1, <3>2 DEF QueueInv
    <3>4. \A i, j \in 1..Len(waitingTransfers') :
             waitingTransfers'[i] = waitingTransfers'[j] => i = j
      BY <1>a, <2>2, <3>2 DEF QueueInv
    <3>5. QED
      BY <2>5, <3>1, <3>3, <3>4 DEF QueueInv
  <2>6. QED
    BY <1>a, <2>4, <2>5, LimitAssumption DEF TypeOK
<1>4. LifeInv'
  BY <1>a DEF TransferNew, TakeSlot, LifeInv, TypeOK, WatchInv
<1>5. MapInv'
  BY <1>a, NoneAssumption DEF TransferNew, MapInv, TypeOK, Tracked
<1>6. WatchInv'
  BY <1>a DEF TransferNew, WatchInv, TypeOK, LifeInv
<1>7. LockInv'
  BY <1>a DEF TransferNew, LockInv, Tracked
<1>8. WatchedNotCancelled'
  BY <1>a, <1>b
  DEF TransferNew, WatchedNotCancelled, TypeOK, LifeInv, WatchInv
<1>9. ReleasedExactlyOnce'
  BY <1>a, <1>b DEF TransferNew, ReleasedExactlyOnce, LifeInv, WatchInv
<1>10. UnwatchedIsCancelled'
  BY <1>a, <1>b DEF TransferNew, UnwatchedIsCancelled, TypeOK, WatchInv
<1>11. QED
  BY <1>1, <1>2, <1>3, <1>4, <1>5, <1>6, <1>7, <1>8, <1>9, <1>10 DEF IInv

\* WatchTracked: one more watcher, and tm.mu is kept.
LEMMA WatchTrackedIInv ==
    ASSUME IInv, NEW c \in Calls, WatchTracked(c)
    PROVE  IInv'
<1> USE DEF tmVars, callVars, lifeVars, workVars
<1>a. TypeOK /\ SlotInv /\ QueueInv /\ LifeInv /\ MapInv /\ WatchInv /\ LockInv
  BY DEF IInv
<1>b. WatchedNotCancelled /\ ReleasedExactlyOnce /\ UnwatchedIsCancelled
  BY DEF IInv
<1>1. TypeOK'
  BY <1>a DEF WatchTracked, TypeOK, CallStates
<1>2. LifeInv'
  BY <1>a DEF WatchTracked, LifeInv, TypeOK, MapInv, Tracked
<1>3. WatchInv'
  BY <1>a DEF WatchTracked, WatchInv, TypeOK
<1>4. LockInv'
  BY <1>a, NoneAssumption DEF WatchTracked, LockInv, TypeOK, MapInv, Tracked
<1>5. WatchedNotCancelled'
  BY <1>b DEF WatchTracked, WatchedNotCancelled
<1>6. ReleasedExactlyOnce'
  <2>0. transfers[key[c]] \in Tracked
    BY <1>a DEF WatchTracked, TypeOK, MapInv
  <2>1. transfers[key[c]] \in Calls /\ ~closed[transfers[key[c]]]
    BY <1>a, <2>0 DEF LifeInv, Tracked
  <2>2. \A x \in Calls \ {transfers[key[c]]} : watchers'[x] = watchers[x]
    BY <1>a DEF WatchTracked, TypeOK
  <2>3. QED
    BY <1>a, <1>b, <2>1, <2>2 DEF WatchTracked, ReleasedExactlyOnce
<1>7. UnwatchedIsCancelled'
  BY <1>b DEF WatchTracked, UnwatchedIsCancelled
<1>8. SlotInv' /\ QueueInv' /\ MapInv'
  BY <1>a, <1>b
  DEF WatchTracked, SlotInv, QueueInv, MapInv, SlotHolders, Tracked
<1>9. QED
  BY <1>1, <1>2, <1>3, <1>4, <1>5, <1>6, <1>7, <1>8 DEF IInv

\* JoinTracked: the watched transfer is not cancelled.
LEMMA JoinTrackedIInv ==
    ASSUME IInv, NEW c \in Calls, JoinTracked(c)
    PROVE  IInv'
<1> USE DEF tmVars, callVars, lifeVars, workVars
<1>a. TypeOK /\ SlotInv /\ QueueInv /\ LifeInv /\ MapInv /\ WatchInv /\ LockInv
  BY DEF IInv
<1>b. WatchedNotCancelled /\ ReleasedExactlyOnce /\ UnwatchedIsCancelled
  BY DEF IInv
<1>1. TypeOK'
  BY <1>a DEF JoinTracked, TypeOK, CallStates
<1>2. WatchInv'
  BY <1>a DEF JoinTracked, WatchInv
<1>3. LockInv'
  BY <1>a DEF JoinTracked, LockInv, TypeOK
<1>4. WatchedNotCancelled'
  BY SMTT(30), <1>b DEF JoinTracked, WatchedNotCancelled
<1>5. /\ SlotInv'
      /\ QueueInv'
      /\ LifeInv'
      /\ MapInv'
      /\ ReleasedExactlyOnce'
      /\ UnwatchedIsCancelled'
  BY <1>a, <1>b
  DEF JoinTracked, SlotInv, QueueInv, LifeInv, MapInv, ReleasedExactlyOnce,
      UnwatchedIsCancelled, SlotHolders, Tracked
<1>6. QED
  BY <1>1, <1>2, <1>3, <1>4, <1>5 DEF IInv

\* LeaveCancelled: the transfer was cancelled before, and is tracked.
LEMMA LeaveCancelledIInv ==
    ASSUME IInv, NEW c \in Calls, LeaveCancelled(c)
    PROVE  IInv'
<1> USE DEF tmVars, callVars, lifeVars, workVars
<1>a. TypeOK /\ SlotInv /\ QueueInv /\ LifeInv /\ MapInv /\ WatchInv /\ LockInv
  BY DEF IInv
<1>b. WatchedNotCancelled /\ ReleasedExactlyOnce /\ UnwatchedIsCancelled
  BY DEF IInv
<1>1. TypeOK'
  <2>1. at[c] \in Calls
    BY <1>a DEF WatchInv, LeaveCancelled
  <2>2. /\ watchers' \in [Calls -> SUBSET Calls]
        /\ cancelled' \in [Calls -> BOOLEAN]
        /\ released' \in [Calls -> Nat]
    BY <1>a, <2>1, DropWatcherType DEF LeaveCancelled
  <2>3. QED
    BY <1>a, <2>2 DEF TypeOK, LeaveCancelled, CallStates
<1>2. LifeInv'
  BY <1>a DEF LeaveCancelled, DropWatcher, LifeInv, TypeOK
<1>3. WatchInv'
  BY <1>a DEF LeaveCancelled, DropWatcher, WatchInv, TypeOK
<1>4. LockInv'
  BY <1>a DEF LeaveCancelled, LockInv, Tracked
<1>5. WatchedNotCancelled'
  BY <1>a, <1>b
  DEF LeaveCancelled, DropWatcher, WatchedNotCancelled, TypeOK, WatchInv
<1>6. ReleasedExactlyOnce'
  BY <1>a, <1>b
  DEF LeaveCancelled, DropWatcher, ReleasedExactlyOnce, LifeInv, Tracked,
      LockInv
<1>7. UnwatchedIsCancelled'
  BY SMTT(30), <1>a, <1>b DEF LeaveCancelled, DropWatcher, UnwatchedIsCancelled, TypeOK
<1>8. SlotInv' /\ QueueInv' /\ MapInv'
  BY <1>a, <1>b
  DEF LeaveCancelled, SlotInv, QueueInv, MapInv, SlotHolders, Tracked
<1>9. QED
  BY <1>1, <1>2, <1>3, <1>4, <1>5, <1>6, <1>7, <1>8 DEF IInv

\* Unlock: only tm.mu changes.
LEMMA UnlockIInv ==
    ASSUME IInv, NEW c \in Calls, Unlock(c)
    PROVE  IInv'
<1> USE DEF tmVars, callVars, lifeVars, workVars
<1>a. TypeOK /\ SlotInv /\ QueueInv /\ LifeInv /\ MapInv /\ WatchInv /\ LockInv
  BY DEF IInv
<1>b. WatchedNotCancelled /\ ReleasedExactlyOnce /\ UnwatchedIsCancelled
  BY DEF IInv
<1>1. TypeOK'
  BY <1>a DEF Unlock, TypeOK, CallStates
<1>2. WatchInv'
  BY <1>a DEF Unlock, WatchInv
<1>3. LockInv'
  BY <1>a DEF Unlock, LockInv, TypeOK
<1>4. WatchedNotCancelled'
  BY SMTT(30), <1>b DEF Unlock, WatchedNotCancelled
<1>5. /\ SlotInv'
      /\ QueueInv'
      /\ LifeInv'
      /\ MapInv'
      /\ ReleasedExactlyOnce'
      /\ UnwatchedIsCancelled'
  BY SMTT(30), <1>a, <1>b
  DEF Unlock, SlotInv, QueueInv, LifeInv, MapInv, ReleasedExactlyOnce,
      UnwatchedIsCancelled, SlotHolders, Tracked
<1>6. QED
  BY <1>1, <1>2, <1>3, <1>4, <1>5 DEF IInv

\* RetryAfterDone: the call starts over.
LEMMA RetryAfterDoneIInv ==
    ASSUME IInv, NEW c \in Calls, RetryAfterDone(c)
    PROVE  IInv'
<1> USE DEF tmVars, callVars, lifeVars, workVars
<1>a. TypeOK /\ SlotInv /\ QueueInv /\ LifeInv /\ MapInv /\ WatchInv /\ LockInv
  BY DEF IInv
<1>b. WatchedNotCancelled /\ ReleasedExactlyOnce /\ UnwatchedIsCancelled
  BY DEF IInv
<1>1. TypeOK'
  BY SMTT(30), <1>a DEF RetryAfterDone, TypeOK, CallStates
<1>2. WatchInv'
  BY <1>a DEF RetryAfterDone, WatchInv
<1>3. LockInv'
  <2>1. Tracked' = Tracked
    BY DEF RetryAfterDone, Tracked
  <2>2. \A d \in Calls : pc'[d] \in {"checking", "detaching"} =>
                          pc[d] = pc'[d] /\ at'[d] = at[d]
    BY <1>a DEF RetryAfterDone, TypeOK
  <2>3. QED
    BY SMTT(30), <1>a, <2>1, <2>2 DEF RetryAfterDone, LockInv
<1>4. WatchedNotCancelled'
  BY <1>b DEF RetryAfterDone, WatchedNotCancelled
<1>5. /\ SlotInv'
      /\ QueueInv'
      /\ LifeInv'
      /\ MapInv'
      /\ ReleasedExactlyOnce'
      /\ UnwatchedIsCancelled'
  <2>1. SlotHolders' = SlotHolders /\ Tracked' = Tracked
    BY DEF RetryAfterDone, SlotHolders, Tracked
  <2>2. SlotInv' /\ QueueInv' /\ MapInv'
    BY <1>a, <2>1 DEF RetryAfterDone, SlotInv, QueueInv, MapInv
  <2>3. LifeInv'
    BY <1>a DEF RetryAfterDone, LifeInv
  <2>4. ReleasedExactlyOnce' /\ UnwatchedIsCancelled'
    BY <1>b, <2>1 DEF RetryAfterDone, ReleasedExactlyOnce, UnwatchedIsCancelled
  <2>5. QED
    BY <2>2, <2>3, <2>4
<1>6. QED
  BY <1>1, <1>2, <1>3, <1>4, <1>5 DEF IInv

\* Release: the last watcher cancels the transfer or closes released.
LEMMA ReleaseIInv ==
    ASSUME IInv, NEW c \in Calls, Release(c)
    PROVE  IInv'
<1> USE DEF tmVars, callVars, lifeVars, workVars
<1>a. TypeOK /\ SlotInv /\ QueueInv /\ LifeInv /\ MapInv /\ WatchInv /\ LockInv
  BY DEF IInv
<1>b. WatchedNotCancelled /\ ReleasedExactlyOnce /\ UnwatchedIsCancelled
  BY DEF IInv
<1>1. TypeOK'
  <2>1. at[c] \in Calls
    BY <1>a DEF WatchInv, Release
  <2>2. /\ watchers' \in [Calls -> SUBSET Calls]
        /\ cancelled' \in [Calls -> BOOLEAN]
        /\ released' \in [Calls -> Nat]
    BY SMTT(30), <1>a, <2>1, DropWatcherType DEF Release
  <2>3. QED
    BY <1>a, <2>2 DEF TypeOK, Release, CallStates
<1>2. LifeInv'
  BY <1>a DEF Release, DropWatcher, LifeInv, TypeOK, WatchInv
<1>3. WatchInv'
  BY <1>a DEF Release, DropWatcher, WatchInv, TypeOK
<1>4. LockInv'
  BY <1>a DEF Release, LockInv, Tracked
<1>5. WatchedNotCancelled'
  BY SMTT(30), <1>a, <1>b
  DEF Release, DropWatcher, WatchedNotCancelled, TypeOK, WatchInv
<1>6. ReleasedExactlyOnce'
  BY <1>a, <1>b DEF Release, DropWatcher, ReleasedExactlyOnce, TypeOK
<1>7. UnwatchedIsCancelled'
  BY <1>a, <1>b DEF Release, DropWatcher, UnwatchedIsCancelled, TypeOK
<1>8. SlotInv' /\ QueueInv' /\ MapInv'
  <2>1. SlotHolders' = SlotHolders /\ Tracked' = Tracked
    BY DEF Release, SlotHolders, Tracked
  <2>2. SlotInv'
    BY <1>a, <2>1 DEF Release, SlotInv
  <2>3. QueueInv'
    BY <1>a DEF Release, QueueInv
  <2>4. MapInv'
    BY <1>a, <2>1 DEF Release, MapInv
  <2>5. QED
    BY <2>2, <2>3, <2>4
<1>9. QED
  BY <1>1, <1>2, <1>3, <1>4, <1>5, <1>6, <1>7, <1>8 DEF IInv

\* A step that leaves all but doFunc and inactive as it is disturbs none of the
\* parts that speak of neither.
LEMMA WorkFrame ==
    ASSUME IInv, UNCHANGED <<tmVars, key, callVars, lifeVars, start, mgr>>
    PROVE  /\ SlotInv' /\ QueueInv' /\ MapInv' /\ WatchInv' /\ LockInv'
           /\ WatchedNotCancelled' /\ ReleasedExactlyOnce'
           /\ UnwatchedIsCancelled'
<1> USE DEF tmVars, callVars, lifeVars
<1>1. SlotHolders' = SlotHolders
  BY DEF SlotHolders
<1>2. Tracked' = Tracked
  BY DEF Tracked
<1>3. SlotInv'
  BY <1>1 DEF IInv, SlotInv
<1>4. QueueInv'
  BY DEF IInv, QueueInv
<1>5. MapInv'
  BY <1>2 DEF IInv, MapInv
<1>6. WatchInv'
  BY DEF IInv, WatchInv
<1>7. LockInv'
  BY <1>2 DEF IInv, LockInv
<1>8. WatchedNotCancelled'
  BY DEF IInv, WatchedNotCancelled
<1>9. ReleasedExactlyOnce'
  BY DEF IInv, ReleasedExactlyOnce
<1>10. UnwatchedIsCancelled'
  BY DEF IInv, UnwatchedIsCancelled
<1>11. QED
  BY <1>3, <1>4, <1>5, <1>6, <1>7, <1>8, <1>9, <1>10

\* Begin: start is closed.
LEMMA BeginIInv ==
    ASSUME IInv, NEW x \in Calls, Begin(x)
    PROVE  IInv'
<1> USE DEF tmVars, callVars, lifeVars, workVars
<1>a. TypeOK /\ LifeInv
  BY DEF IInv
<1>1. TypeOK'
  BY <1>a DEF Begin, TypeOK, DoStates
<1>2. LifeInv'
  BY <1>a DEF Begin, LifeInv
<1>3. /\ SlotInv'
      /\ QueueInv'
      /\ MapInv'
      /\ WatchInv'
      /\ LockInv'
      /\ WatchedNotCancelled'
      /\ ReleasedExactlyOnce'
      /\ UnwatchedIsCancelled'
  BY WorkFrame DEF Begin
<1>4. QED
  BY <1>1, <1>2, <1>3 DEF IInv

\* BecomeInactive: the slot is kept until the manager goroutine sees it.
LEMMA BecomeInactiveIInv ==
    ASSUME IInv, NEW x \in Calls, BecomeInactive(x)
    PROVE  IInv'
<1> USE DEF tmVars, callVars, lifeVars, workVars
<1>a. TypeOK /\ LifeInv
  BY DEF IInv
<1>1. TypeOK'
  BY <1>a DEF BecomeInactive, TypeOK, DoStates
<1>2. LifeInv'
  BY <1>a DEF BecomeInactive, LifeInv, TypeOK
<1>3. /\ SlotInv'
      /\ QueueInv'
      /\ MapInv'
      /\ WatchInv'
      /\ LockInv'
      /\ WatchedNotCancelled'
      /\ ReleasedExactlyOnce'
      /\ UnwatchedIsCancelled'
  BY WorkFrame DEF BecomeInactive
<1>4. QED
  BY <1>1, <1>2, <1>3 DEF IInv

\* Finish: the DoFunc had been started.
LEMMA FinishIInv ==
    ASSUME IInv, NEW x \in Calls, Finish(x)
    PROVE  IInv'
<1> USE DEF tmVars, callVars, lifeVars, workVars
<1>a. TypeOK /\ LifeInv
  BY DEF IInv
<1>1. TypeOK'
  BY <1>a DEF Finish, TypeOK, DoStates
<1>2. LifeInv'
  BY <1>a DEF Finish, LifeInv, TypeOK
<1>3. /\ SlotInv'
      /\ QueueInv'
      /\ MapInv'
      /\ WatchInv'
      /\ LockInv'
      /\ WatchedNotCancelled'
      /\ ReleasedExactlyOnce'
      /\ UnwatchedIsCancelled'
  BY WorkFrame DEF Finish
<1>4. QED
  BY <1>1, <1>2, <1>3 DEF IInv

\* ManagerInactive: the slot moves on.
LEMMA ManagerInactiveIInv ==
    ASSUME IInv, NEW x \in Calls, ManagerInactive(x)
    PROVE  IInv'
<1> USE DEF tmVars, callVars, lifeVars, workVars
<1>a. TypeOK /\ SlotInv /\ QueueInv /\ LifeInv /\ MapInv /\ WatchInv /\ LockInv
  BY DEF IInv
<1>b. WatchedNotCancelled /\ ReleasedExactlyOnce /\ UnwatchedIsCancelled
  BY DEF IInv
<1>c. start[x]
  BY <1>a DEF ManagerInactive, LifeInv
<1>d. waitingTransfers # << >> =>
         /\ Head(waitingTransfers) \in Calls
         /\ mgr[Head(waitingTransfers)] = "selectBoth"
         /\ Tail(waitingTransfers) \in Seq(Calls)
  BY <1>a DEF TypeOK, QueueInv
<1>1. TypeOK'
  <2>1. /\ activeTransfers' \in Nat
        /\ waitingTransfers' \in Seq(Calls)
        /\ start' \in [Calls -> BOOLEAN]
    <3>1. waitingTransfers = << >> /\ mgr[x] = "selectBoth" => activeTransfers - 1 \in Nat
      <4>1. mgr[x] = "selectBoth" => x \in SlotHolders
        BY <1>c DEF SlotHolders
      <4>2. QED
        BY <1>a, <4>1, FS_EmptySet DEF TypeOK, SlotInv
    <3>2. QED
      BY ZenonT(30), <1>a, <1>c, <1>d, <3>1 DEF TypeOK, ManagerInactive, inactivate
  <2>2. QED
    BY <1>a, <2>1, NoneAssumption DEF TypeOK, ManagerInactive, MgrStates
<1>2. SlotInv'
  <2>1. CASE mgr[x] = "selectBoth"
    <3>1. inactivate(x) /\ mgr' = [mgr EXCEPT ![x] = "selectDone"]
      BY <2>1 DEF ManagerInactive
    <3>2. x \in SlotHolders
      BY <1>c, <2>1 DEF SlotHolders
    <3>3. /\ IsFiniteSet(SlotHolders \ {x})
          /\ Cardinality(SlotHolders \ {x}) = Cardinality(SlotHolders) - 1
      BY <1>a, <3>2, FS_RemoveElement DEF SlotInv
    <3>4. CASE waitingTransfers # << >>
      <4>1. /\ Head(waitingTransfers) \notin SlotHolders \ {x}
            /\ SlotHolders' = (SlotHolders \ {x}) \cup {Head(waitingTransfers)}
            /\ activeTransfers' = activeTransfers
        BY ZenonT(30), <1>c, <2>1, <3>1, <3>4, InactivateSlots
      <4>2. /\ IsFiniteSet(SlotHolders')
            /\ Cardinality(SlotHolders') = Cardinality(SlotHolders) - 1 + 1
        BY <3>3, <4>1, FS_AddElement
      <4>3. QED
        BY <1>a, <4>1, <4>2 DEF SlotInv, TypeOK
    <3>5. CASE waitingTransfers = << >>
      <4>1. /\ SlotHolders' = SlotHolders \ {x}
            /\ activeTransfers' = activeTransfers - 1
        BY ZenonT(30), <1>c, <2>1, <3>1, <3>5, InactivateSlots
      <4>2. QED
        BY <1>a, <3>3, <4>1, LimitAssumption DEF SlotInv, TypeOK
    <3>6. QED
      BY <3>4, <3>5
  <2>2. QED
    BY <2>1 DEF ManagerInactive
<1>3. QueueInv'
  <2>1. CASE mgr[x] = "selectBoth"
    <3>1. inactivate(x) /\ mgr' = [mgr EXCEPT ![x] = "selectDone"]
      BY <2>1 DEF ManagerInactive
    <3>2. CASE waitingTransfers # << >>
      <4>1. /\ start' = [start EXCEPT ![Head(waitingTransfers)] = TRUE]
            /\ waitingTransfers' = Tail(waitingTransfers)
            /\ activeTransfers' = activeTransfers
        BY <1>c, <3>1, <3>2 DEF inactivate
      <4>2. /\ Len(waitingTransfers') = Len(waitingTransfers) - 1
            /\ Len(waitingTransfers) \in Nat
            /\ \A i \in 1..Len(waitingTransfers') :
                  /\ i + 1 \in 1..Len(waitingTransfers)
                  /\ waitingTransfers'[i] = waitingTransfers[i + 1]
                  /\ waitingTransfers[i + 1] \in Calls
        BY <1>a, <3>2, <4>1 DEF TypeOK
      <4>3. /\ 1 \in 1..Len(waitingTransfers)
            /\ Head(waitingTransfers) = waitingTransfers[1]
        BY <1>a, <3>2 DEF TypeOK
      <4>4. \A i \in 1..Len(waitingTransfers') :
               /\ waitingTransfers'[i] # Head(waitingTransfers)
               /\ waitingTransfers'[i] # x
        <5>1. SUFFICES ASSUME NEW i \in 1..Len(waitingTransfers')
                       PROVE  /\ waitingTransfers[i + 1] # waitingTransfers[1]
                              /\ waitingTransfers[i + 1] # x
          BY <4>2, <4>3
        <5>2. i + 1 \in 1..Len(waitingTransfers) /\ i + 1 # 1
          BY <4>2
        <5>3. QED
          BY <1>a, <1>c, <4>3, <5>2 DEF QueueInv
      <4>5. \A i \in 1..Len(waitingTransfers') :
               ~start'[waitingTransfers'[i]] /\ mgr'[waitingTransfers'[i]] = "selectBoth"
        <5>1. SUFFICES ASSUME NEW i \in 1..Len(waitingTransfers')
                       PROVE  /\ ~start'[waitingTransfers'[i]]
                              /\ mgr'[waitingTransfers'[i]] = "selectBoth"
          OBVIOUS
        <5>2. /\ waitingTransfers'[i] \in Calls
              /\ ~start[waitingTransfers'[i]]
              /\ mgr[waitingTransfers'[i]] = "selectBoth"
          BY <1>a, <4>2 DEF QueueInv
        <5>3. QED
          BY <1>a, <3>1, <4>1, <4>4, <5>2 DEF TypeOK
      <4>6. \A i, j \in 1..Len(waitingTransfers') :
               waitingTransfers'[i] = waitingTransfers'[j] => i = j
        BY <1>a, <4>2 DEF QueueInv
      <4>7. QED
        BY <1>a, <3>2, <4>1, <4>5, <4>6 DEF QueueInv
    <3>3. CASE waitingTransfers = << >>
      BY SMTT(30), <1>c, <3>1, <3>3 DEF inactivate, QueueInv
    <3>4. QED
      BY <3>2, <3>3
  <2>2. QED
    BY <2>1 DEF ManagerInactive
<1>4. LifeInv'
  <2>1. \A y \in Calls : /\ start[y] => start'[y]
                         /\ mgr[y] = "none" => start'[y] = start[y]
    BY <1>a, <1>d DEF TypeOK, ManagerInactive, inactivate
  <2>2. QED
    BY <1>a, <2>1 DEF LifeInv, TypeOK, ManagerInactive
<1>5. MapInv'
  BY <1>a DEF ManagerInactive, MapInv, Tracked
<1>6. WatchInv'
  BY <1>a DEF ManagerInactive, WatchInv
<1>7. LockInv'
  BY <1>a DEF ManagerInactive, LockInv, Tracked
<1>8. UnwatchedIsCancelled'
  BY <1>b DEF ManagerInactive, UnwatchedIsCancelled
<1>9. WatchedNotCancelled' /\ ReleasedExactlyOnce'
  BY SMTT(30), <1>a, <1>b DEF ManagerInactive, WatchedNotCancelled, ReleasedExactlyOnce
<1>10. QED
  BY SMTT(30), <1>1, <1>2, <1>3, <1>4, <1>5, <1>6, <1>7, <1>8, <1>9 DEF IInv

\* ManagerDone: the slot moves on, unless it did before, and the map entry goes.
LEMMA ManagerDoneIInv ==
    ASSUME IInv, NEW x \in Calls, ManagerDone(x)
    PROVE  IInv'
<1> USE DEF tmVars, callVars, lifeVars, workVars
<1>a. TypeOK /\ SlotInv /\ QueueInv /\ LifeInv /\ MapInv /\ WatchInv /\ LockInv
  BY DEF IInv
<1>b. WatchedNotCancelled /\ ReleasedExactlyOnce /\ UnwatchedIsCancelled
  BY DEF IInv
<1>c. start[x]
  BY <1>a DEF ManagerDone, LifeInv, Done
<1>d. waitingTransfers # << >> =>
         /\ Head(waitingTransfers) \in Calls
         /\ mgr[Head(waitingTransfers)] = "selectBoth"
         /\ Tail(waitingTransfers) \in Seq(Calls)
  BY <1>a DEF TypeOK, QueueInv
<1>1. TypeOK'
  <2>1. /\ activeTransfers' \in Nat
        /\ waitingTransfers' \in Seq(Calls)
        /\ start' \in [Calls -> BOOLEAN]
    <3>1. waitingTransfers = << >> /\ mgr[x] = "selectBoth" => activeTransfers - 1 \in Nat
      <4>1. mgr[x] = "selectBoth" => x \in SlotHolders
        BY <1>c DEF SlotHolders
      <4>2. QED
        BY <1>a, <4>1, FS_EmptySet DEF TypeOK, SlotInv
    <3>2. QED
      BY ZenonT(30), <1>a, <1>c, <1>d, <3>1 DEF TypeOK, ManagerDone, inactivate
  <2>2. QED
    BY <1>a, <2>1, NoneAssumption DEF TypeOK, ManagerDone, MgrStates
<1>2. SlotInv'
  <2>1. CASE mgr[x] = "selectBoth"
    <3>1. inactivate(x) /\ mgr' = [mgr EXCEPT ![x] = "closing"]
      BY <2>1 DEF ManagerDone
    <3>2. x \in SlotHolders
      BY <1>c, <2>1 DEF SlotHolders
    <3>3. /\ IsFiniteSet(SlotHolders \ {x})
          /\ Cardinality(SlotHolders \ {x}) = Cardinality(SlotHolders) - 1
      BY <1>a, <3>2, FS_RemoveElement DEF SlotInv
    <3>4. CASE waitingTransfers # << >>
      <4>1. /\ Head(waitingTransfers) \notin SlotHolders \ {x}
            /\ SlotHolders' = (SlotHolders \ {x}) \cup {Head(waitingTransfers)}
            /\ activeTransfers' = activeTransfers
        BY ZenonT(30), <1>c, <2>1, <3>1, <3>4, InactivateSlots
      <4>2. /\ IsFiniteSet(SlotHolders')
            /\ Cardinality(SlotHolders') = Cardinality(SlotHolders) - 1 + 1
        BY <3>3, <4>1, FS_AddElement
      <4>3. QED
        BY <1>a, <4>1, <4>2 DEF SlotInv, TypeOK
    <3>5. CASE waitingTransfers = << >>
      <4>1. /\ SlotHolders' = SlotHolders \ {x}
            /\ activeTransfers' = activeTransfers - 1
        BY ZenonT(30), <1>c, <2>1, <3>1, <3>5, InactivateSlots
      <4>2. QED
        BY <1>a, <3>3, <4>1, LimitAssumption DEF SlotInv, TypeOK
    <3>6. QED
      BY <3>4, <3>5
  <2>2. CASE mgr[x] = "selectDone"
    <3>1. UNCHANGED <<activeTransfers, waitingTransfers, start>>
      BY <2>2 DEF ManagerDone
    <3>2. mgr' = [mgr EXCEPT ![x] = "closing"]
      BY DEF ManagerDone
    <3>3. SlotHolders' = SlotHolders
      BY SMTT(30), <1>a, <2>2, <3>1, <3>2 DEF SlotHolders, TypeOK
    <3>4. QED
      BY <1>a, <3>1, <3>3 DEF SlotInv
  <2>3. QED
    BY <2>1, <2>2 DEF ManagerDone
<1>3. QueueInv'
  <2>1. CASE mgr[x] = "selectBoth"
    <3>1. inactivate(x) /\ mgr' = [mgr EXCEPT ![x] = "closing"]
      BY <2>1 DEF ManagerDone
    <3>2. CASE waitingTransfers # << >>
      <4>1. /\ start' = [start EXCEPT ![Head(waitingTransfers)] = TRUE]
            /\ waitingTransfers' = Tail(waitingTransfers)
            /\ activeTransfers' = activeTransfers
        BY SMTT(30), <1>c, <3>1, <3>2 DEF inactivate
      <4>2. /\ Len(waitingTransfers') = Len(waitingTransfers) - 1
            /\ Len(waitingTransfers) \in Nat
            /\ \A i \in 1..Len(waitingTransfers') :
                  /\ i + 1 \in 1..Len(waitingTransfers)
                  /\ waitingTransfers'[i] = waitingTransfers[i + 1]
                  /\ waitingTransfers[i + 1] \in Calls
        BY <1>a, <3>2, <4>1 DEF TypeOK
      <4>3. /\ 1 \in 1..Len(waitingTransfers)
            /\ Head(waitingTransfers) = waitingTransfers[1]
        BY <1>a, <3>2 DEF TypeOK
      <4>4. \A i \in 1..Len(waitingTransfers') :
               /\ waitingTransfers'[i] # Head(waitingTransfers)
               /\ waitingTransfers'[i] # x
        <5>1. SUFFICES ASSUME NEW i \in 1..Len(waitingTransfers')
                       PROVE  /\ waitingTransfers[i + 1] # waitingTransfers[1]
                              /\ waitingTransfers[i + 1] # x
          BY <4>2, <4>3
        <5>2. i + 1 \in 1..Len(waitingTransfers) /\ i + 1 # 1
          BY <4>2
        <5>3. QED
          BY <1>a, <1>c, <4>3, <5>2 DEF QueueInv
      <4>5. \A i \in 1..Len(waitingTransfers') :
               ~start'[waitingTransfers'[i]] /\ mgr'[waitingTransfers'[i]] = "selectBoth"
        <5>1. SUFFICES ASSUME NEW i \in 1..Len(waitingTransfers')
                       PROVE  /\ ~start'[waitingTransfers'[i]]
                              /\ mgr'[waitingTransfers'[i]] = "selectBoth"
          OBVIOUS
        <5>2. /\ waitingTransfers'[i] \in Calls
              /\ ~start[waitingTransfers'[i]]
              /\ mgr[waitingTransfers'[i]] = "selectBoth"
          BY <1>a, <4>2 DEF QueueInv
        <5>3. QED
          BY <1>a, <3>1, <4>1, <4>4, <5>2 DEF TypeOK
      <4>6. \A i, j \in 1..Len(waitingTransfers') :
               waitingTransfers'[i] = waitingTransfers'[j] => i = j
        BY <1>a, <4>2 DEF QueueInv
      <4>7. QED
        BY <1>a, <3>2, <4>1, <4>5, <4>6 DEF QueueInv
    <3>3. CASE waitingTransfers = << >>
      BY <1>c, <3>1, <3>3 DEF inactivate, QueueInv
    <3>4. QED
      BY <3>2, <3>3
  <2>2. CASE mgr[x] = "selectDone"
    <3>1. UNCHANGED <<activeTransfers, waitingTransfers, start>>
      BY <2>2 DEF ManagerDone
    <3>2. mgr' = [mgr EXCEPT ![x] = "closing"]
      BY DEF ManagerDone
    <3>3. \A i \in 1..Len(waitingTransfers) :
             /\ waitingTransfers[i] \in Calls
             /\ waitingTransfers[i] # x
      BY SMTT(30), <1>a, <2>2 DEF QueueInv, TypeOK
    <3>4. QED
      BY <1>a, <3>1, <3>2, <3>3 DEF QueueInv, TypeOK
  <2>3. QED
    BY <2>1, <2>2 DEF ManagerDone
<1>4. LifeInv'
  <2>1. \A y \in Calls : /\ start[y] => start'[y]
                         /\ mgr[y] = "none" => start'[y] = start[y]
    BY SMTT(30), <1>a, <1>d DEF TypeOK, ManagerDone, inactivate
  <2>2. QED
    BY <1>a, <2>1 DEF LifeInv, TypeOK, ManagerDone, Done
<1>5. MapInv'
  BY <1>a DEF ManagerDone, MapInv, TypeOK, Tracked
<1>6. WatchInv'
  BY SMTT(30), <1>a DEF ManagerDone, WatchInv, TypeOK, MgrStates
<1>7. LockInv'
  BY ZenonT(30), <1>a, NoneAssumption DEF ManagerDone, LockInv
<1>8. UnwatchedIsCancelled'
  BY <1>b DEF ManagerDone, UnwatchedIsCancelled
<1>9. WatchedNotCancelled' /\ ReleasedExactlyOnce'
  BY <1>a, <1>b DEF ManagerDone, WatchedNotCancelled, ReleasedExactlyOnce
<1>10. QED
  BY <1>1, <1>2, <1>3, <1>4, <1>5, <1>6, <1>7, <1>8, <1>9 DEF IInv

\* Close: released is closed if nobody watches.
LEMMA CloseIInv ==
    ASSUME IInv, NEW x \in Calls, Close(x)
    PROVE  IInv'
<1> USE DEF tmVars, callVars, lifeVars, workVars
<1>a. TypeOK /\ SlotInv /\ QueueInv /\ LifeInv /\ MapInv /\ WatchInv /\ LockInv
  BY DEF IInv
<1>b. WatchedNotCancelled /\ ReleasedExactlyOnce /\ UnwatchedIsCancelled
  BY DEF IInv
<1>1. TypeOK'
  BY SMTT(30), <1>a DEF Close, TypeOK, MgrStates
<1>2. SlotInv'
  BY ZenonT(30), <1>a, <1>b, LimitAssumption, NoneAssumption
  DEF Close, SlotInv, TypeOK, SlotHolders, QueueInv, LifeInv
<1>3. QueueInv'
  BY <1>a DEF Close, QueueInv, TypeOK
<1>4. LifeInv'
  BY <1>a DEF Close, LifeInv, TypeOK
<1>5. MapInv'
  <2>1. Tracked' = Tracked
    BY <1>a DEF Close, Tracked, TypeOK
  <2>2. QED
    BY <1>a, <2>1 DEF Close, MapInv
<1>6. WatchInv'
  BY <1>a DEF Close, WatchInv
<1>7. LockInv'
  BY <1>a DEF Close, LockInv, Tracked
<1>8. ReleasedExactlyOnce'
  BY <1>a, <1>b DEF Close, ReleasedExactlyOnce, TypeOK, LifeInv
<1>9. UnwatchedIsCancelled'
  BY SMTT(30), <1>a, <1>b DEF Close, UnwatchedIsCancelled, TypeOK
<1>10. WatchedNotCancelled'
  BY <1>a, <1>b DEF Close, WatchedNotCancelled
<1>11. QED
  BY SMTT(30), <1>1, <1>2, <1>3, <1>4, <1>5, <1>6, <1>7, <1>8, <1>9, <1>10 DEF IInv

-----------------------------------------------------------------------------

\* The inductive invariant is preserved by every step, stuttering included.
LEMMA NextIInv ==
    ASSUME IInv, [Next]_vars
    PROVE  IInv'
<1>1. ASSUME NEW c \in Calls, CallStep(c) PROVE IInv'
  BY <1>1, TransferNewIInv, WatchTrackedIInv, JoinTrackedIInv,
     LeaveCancelledIInv, UnlockIInv, RetryAfterDoneIInv DEF CallStep
<1>2. ASSUME NEW x \in Calls, WorkStep(x) PROVE IInv'
  BY <1>2, BeginIInv, FinishIInv DEF WorkStep
<1>3. ASSUME NEW x \in Calls, ManagerStep(x) PROVE IInv'
  BY <1>3, ManagerInactiveIInv, ManagerDoneIInv, CloseIInv DEF ManagerStep
<1>4. CASE UNCHANGED vars
  <2>1. TypeOK'
    BY <1>4 DEF IInv, TypeOK, vars, tmVars, callVars, lifeVars, workVars
  <2>2. LifeInv'
    BY <1>4 DEF IInv, LifeInv, vars, lifeVars, workVars
  <2>3. QED
    BY <1>4, <2>1, <2>2, WorkFrame DEF IInv, vars, workVars
<1>5. QED
  BY <1>1, <1>2, <1>3, <1>4, ReleaseIInv, BecomeInactiveIInv DEF Next, AllReturned

\* The inductive invariant holds in every reachable state.
THEOREM Invariance == Spec => []IInv
<1>1. Init => IInv
  BY InitIInv
<1>2. IInv /\ [Next]_vars => IInv'
  BY NextIInv
<1>3. QED
  BY <1>1, <1>2, PTL DEF Spec

\* The state of the manager, of the calls and of the transfers is well typed.
THEOREM TypeCorrect == Spec => []TypeOK
<1>1. IInv => TypeOK
  BY DEF IInv
<1>2. QED
  BY <1>1, Invariance, PTL

\* For every limit and any number of calls, no more than concurrencyLimit
\* DoFuncs are between <-start and the close of inactive or of the progress
\* channel.
THEOREM ConcurrencyBounded == Spec => []ConcurrencyBound
<1> DEFINE Active == {x \in Calls : doFunc[x] = "active"}
<1>1. ASSUME IInv PROVE ConcurrencyBound
  <2>1. Active \subseteq SlotHolders
    BY ZenonT(30), <1>1 DEF IInv, LifeInv, TypeOK, MgrStates, SlotHolders
  <2>2. IsFiniteSet(SlotHolders) /\ Cardinality(SlotHolders) <= concurrencyLimit
    BY <1>1 DEF IInv, SlotInv
  <2>3. /\ Cardinality(Active) <= Cardinality(SlotHolders)
        /\ Cardinality(Active) \in Nat
        /\ Cardinality(SlotHolders) \in Nat
    BY <2>1, <2>2, FS_Subset, FS_CardinalityType
  <2>4. Cardinality(Active) <= concurrencyLimit
    BY <2>2, <2>3, LimitAssumption
  <2>5. QED
    BY <2>4 DEF ConcurrencyBound
<1>2. QED
  BY <1>1, Invariance, PTL

\* A key has at most one tracked transfer, the one the map holds.
THEOREM DedupCorrect == Spec => []OneTransferPerKey
<1>1. ASSUME IInv PROVE OneTransferPerKey
  BY <1>1, NoneAssumption DEF IInv, TypeOK, MapInv, OneTransferPerKey
<1>2. QED
  BY <1>1, Invariance, PTL

\* A transfer is never cancelled under a watcher that Transfer has returned.
THEOREM WatchSafe == Spec => []WatchedNotCancelled
<1>1. IInv => WatchedNotCancelled
  BY DEF IInv
<1>2. QED
  BY <1>1, Invariance, PTL

\* released is closed once, and exactly when tracking and watching are over.
THEOREM ReleaseExact == Spec => []ReleasedExactlyOnce
<1>1. IInv => ReleasedExactlyOnce
  BY DEF IInv
<1>2. QED
  BY <1>1, Invariance, PTL

\* A transfer that lost its last watcher while tracked is cancelled.
THEOREM UnwatchedCancelled == Spec => []UnwatchedIsCancelled
<1>1. IInv => UnwatchedIsCancelled
  BY DEF IInv
<1>2. QED
  BY <1>1, Invariance, PTL

-----------------------------------------------------------------------------

\* A step that leaves start, mgr and the queue alone is a stutter of the pool.
LEMMA SlotStutter ==
    ASSUME UNCHANGED <<start, mgr, waitingTransfers>>
    PROVE  UNCHANGED <<SlotHolders, waitingTransfers>>
BY DEF SlotHolders

\* A new transfer acquires a slot or gets in line.
LEMMA TransferNewAcquires ==
    ASSUME IInv, NEW c \in Calls, TransferNew(c)
    PROVE  Slots!Acquire(c)
<1>1. mgr[c] = "none"
  BY DEF IInv, WatchInv, TransferNew
<1>2. c \notin SlotHolders /\ ~Slots!InLine(c)
  BY <1>1 DEF SlotHolders, Slots!InLine, IInv, QueueInv
<1>3. Slots!Cardinality(SlotHolders) = Cardinality(SlotHolders)
  BY DEF Slots!Cardinality, Cardinality
<1>4. QED
  BY <1>2, <1>3, TransferNewSlots DEF Slots!Acquire

\* A manager goroutine that calls inactivate yields the slot of its transfer.
LEMMA InactivateYields ==
    ASSUME IInv, NEW x \in Calls, start[x], mgr[x] = "selectBoth", inactivate(x),
           NEW s \in {"selectDone", "closing"}, mgr' = [mgr EXCEPT ![x] = s]
    PROVE  Slots!Yield(x)
<1>1. x \in SlotHolders
  BY DEF SlotHolders
<1>2. CASE waitingTransfers # << >>
  <2>1. /\ SlotHolders' = (SlotHolders \ {x}) \cup {Head(waitingTransfers)}
        /\ waitingTransfers' = Tail(waitingTransfers)
    BY ZenonT(30), <1>2, InactivateSlots DEF inactivate
  <2>2. QED
    BY <1>1, <1>2, <2>1 DEF Slots!Yield
<1>3. CASE waitingTransfers = << >>
  <2>1. SlotHolders' = SlotHolders \ {x} /\ waitingTransfers' = waitingTransfers
    BY ZenonT(30), <1>3, InactivateSlots DEF inactivate
  <2>2. QED
    BY <1>1, <1>3, <2>1 DEF Slots!Yield
<1>4. QED
  BY <1>2, <1>3

\* The manager goroutine's steps are steps or stutters of the pool.
LEMMA ManagerStepMaps ==
    ASSUME IInv, NEW x \in Calls, ManagerStep(x)
    PROVE  Slots!Yield(x) \/ UNCHANGED <<SlotHolders, waitingTransfers>>
<1>a. TypeOK /\ LifeInv
  BY DEF IInv
<1>1. CASE ManagerInactive(x)
  <2>1. start[x]
    BY <1>a, <1>1 DEF LifeInv, ManagerInactive
  <2>2. QED
    BY ZenonT(30), <1>1, <2>1, InactivateYields DEF ManagerInactive
<1>2. CASE ManagerDone(x)
  <2>1. start[x]
    BY SMTT(30), <1>a, <1>2 DEF LifeInv, ManagerDone, Done
  <2>2. CASE mgr[x] = "selectBoth"
    BY ZenonT(30), <1>2, <2>1, <2>2, InactivateYields DEF ManagerDone
  <2>3. CASE mgr[x] = "selectDone"
    <3>1. UNCHANGED <<waitingTransfers, start>> /\ mgr' = [mgr EXCEPT ![x] = "closing"]
      BY <1>2, <2>3 DEF ManagerDone
    <3>2. SlotHolders' = SlotHolders
      BY <1>a, <2>3, <3>1 DEF SlotHolders, TypeOK
    <3>3. QED
      BY <3>1, <3>2
  <2>4. QED
    BY <1>2, <2>2, <2>3 DEF ManagerDone
<1>3. CASE Close(x)
  <2>1. SlotHolders' = SlotHolders
    BY <1>a, <1>3 DEF Close, SlotHolders, TypeOK
  <2>2. QED
    BY <1>3, <2>1 DEF Close, tmVars
<1>4. QED
  BY <1>1, <1>2, <1>3 DEF ManagerStep

\* The counter, the start channels and the queue of the transfer manager
\* implement the abstract slot pool: TransferNew is Acquire, inactivate is
\* Yield, and every other step leaves the pool alone.
THEOREM SlotsRefined == Spec => SlotsImplemented
<1>1. Init => Slots!Init
  BY DEF Init, Slots!Init, SlotHolders
<1>2. ASSUME IInv, [Next]_vars
      PROVE  [Slots!Next]_<<SlotHolders, waitingTransfers>>
  <2> USE DEF tmVars, callVars, lifeVars, workVars
  <2>1. ASSUME NEW c \in Calls, TransferNew(c) PROVE Slots!Next
    BY <1>2, <2>1, TransferNewAcquires DEF Slots!Next
  <2>2. ASSUME NEW x \in Calls, ManagerStep(x)
        PROVE  Slots!Next \/ UNCHANGED <<SlotHolders, waitingTransfers>>
    BY <1>2, <2>2, ManagerStepMaps DEF Slots!Next
  <2>3. ASSUME NEW c \in Calls,
               \/ CallStep(c) /\ ~TransferNew(c)
               \/ Release(c) \/ WorkStep(c) \/ BecomeInactive(c)
        PROVE  UNCHANGED <<SlotHolders, waitingTransfers>>
    <3>1. UNCHANGED <<start, mgr, waitingTransfers>>
      BY ZenonT(30), <2>3 DEF CallStep, WatchTracked, JoinTracked, LeaveCancelled, Unlock,
         RetryAfterDone, Release, WorkStep, Begin, Finish, BecomeInactive
    <3>2. QED
      BY SMTT(30), <3>1, SlotStutter
  <2>4. ASSUME AllReturned \/ UNCHANGED vars
        PROVE  UNCHANGED <<SlotHolders, waitingTransfers>>
    BY <2>4, SlotStutter DEF AllReturned, vars
  <2>5. QED
    BY <1>2, <2>1, <2>2, <2>3, <2>4 DEF Next
<1>3. QED
  BY <1>1, <1>2, Invariance, PTL DEF Spec, SlotsImplemented, Slots!Spec
=============================================================================
