-------------------------- MODULE TransferManager --------------------------
(***************************************************************************)
(* The scheduler and deduplicator of layer transfers                       *)
(* (distribution/xfer/transfer.go, types transferManager and transfer).    *)
(*                                                                         *)
(* A member of Calls is one call of transferManager.Transfer together with *)
(* the Release of the watcher it returns.  A transfer object is named by   *)
(* the call whose xferFunc created it, so Calls also names the transfers.  *)
(* Every transfer has three goroutines: the DoFunc that moves data, the    *)
(* broadcaster that closes running once the DoFunc has closed its progress *)
(* channel, and the manager goroutine that gives the slot back and         *)
(* untracks the transfer.  What the broadcaster does with progress events  *)
(* is the subject of module TransferProgress.                              *)
(*                                                                         *)
(* Steps that run under tm.mu or t.mu without blocking are single actions. *)
(* The one place where tm.mu is kept across a blocking call (Release of a  *)
(* cancelled transfer inside Transfer) has the holder in tmHolder.         *)
(***************************************************************************)
EXTENDS Naturals, Sequences, FiniteSets

CONSTANTS Calls,             \* calls of Transfer, and the transfers they create
          Keys,              \* deduplication keys
          concurrencyLimit,  \* transferManager.concurrencyLimit
          None               \* no transfer, no call

ASSUME LimitAssumption == concurrencyLimit \in Nat
ASSUME NoneAssumption == None \notin Calls

VARIABLES
    tmHolder,         \* the call that keeps tm.mu across a blocking step, or None
    activeTransfers,  \* tm.activeTransfers
    transfers,        \* tm.transfers: key -> tracked transfer or None
    waitingTransfers, \* tm.waitingTransfers: queue of start channels
    key,              \* the key argument of each call
    pc,               \* where each call is
    at,               \* the transfer a call has looked up or watches
    watchers,         \* t.watchers
    cancelled,        \* t.ctx is done
    closed,           \* t.closed
    released,         \* how often close(t.released) has run
    start,            \* the start channel has been closed
    inactive,         \* the inactive channel has been closed
    doFunc,           \* where the DoFunc goroutine is
    mgr               \* where the manager goroutine is

tmVars == <<tmHolder, activeTransfers, transfers, waitingTransfers>>
callVars == <<pc, at>>
lifeVars == <<watchers, cancelled, closed, released>>
workVars == <<start, inactive, doFunc, mgr>>
vars == <<tmVars, key, callVars, lifeVars, workVars>>

CallStates == {"calling", "checking", "detaching", "awaiting", "watching",
               "returned"}
DoStates == {"none", "waiting", "active", "passive", "finished"}
\* "selectBoth": the select loop still has a non-nil inactive channel;
\* "selectDone": inactive is nil; "closing": untracked, Close not yet called.
MgrStates == {"none", "selectBoth", "selectDone", "closing", "exited"}

\* t.running is closed.
Done(x) == doFunc[x] = "finished"

Init ==
    /\ tmHolder = None
    /\ activeTransfers = 0
    /\ transfers = [k \in Keys |-> None]
    /\ waitingTransfers = << >>
    /\ key \in [Calls -> Keys]
    /\ pc = [c \in Calls |-> "calling"]
    /\ at = [c \in Calls |-> None]
    /\ watchers = [x \in Calls |-> {}]
    /\ cancelled = [x \in Calls |-> FALSE]
    /\ closed = [x \in Calls |-> FALSE]
    /\ released = [x \in Calls |-> 0]
    /\ start = [x \in Calls |-> FALSE]
    /\ inactive = [x \in Calls |-> FALSE]
    /\ doFunc = [x \in Calls |-> "none"]
    /\ mgr = [x \in Calls |-> "none"]

-----------------------------------------------------------------------------
(* Steps of a call of Transfer.                                            *)

\* Mutant: off by one in the comparison with the limit.
TakeSlot_OffByOne(c) ==
    \/ /\ activeTransfers <= concurrencyLimit
       /\ start' = [start EXCEPT ![c] = TRUE]
       /\ activeTransfers' = activeTransfers + 1
       /\ UNCHANGED waitingTransfers
    \/ /\ activeTransfers > concurrencyLimit
       /\ waitingTransfers' = Append(waitingTransfers, c)
       /\ UNCHANGED <<activeTransfers, start>>

\* A new transfer starts at once if a slot is free, or joins the queue.
TakeSlot(c) ==
    \/ /\ activeTransfers < concurrencyLimit
       /\ start' = [start EXCEPT ![c] = TRUE]
       /\ activeTransfers' = activeTransfers + 1
       /\ UNCHANGED waitingTransfers
    \/ /\ activeTransfers >= concurrencyLimit
       /\ waitingTransfers' = Append(waitingTransfers, c)
       /\ UNCHANGED <<activeTransfers, start>>

\* No transfer with this key is tracked: create, watch and track one.
TransferNew(c) ==
    /\ pc[c] = "calling"
    /\ tmHolder = None
    /\ transfers[key[c]] = None
    /\ TakeSlot(c)
    /\ doFunc' = [doFunc EXCEPT ![c] = "waiting"]
    /\ watchers' = [watchers EXCEPT ![c] = {c}]
    /\ transfers' = [transfers EXCEPT ![key[c]] = c]
    /\ mgr' = [mgr EXCEPT ![c] = "selectBoth"]
    /\ pc' = [pc EXCEPT ![c] = "watching"]
    /\ at' = [at EXCEPT ![c] = c]
    /\ UNCHANGED <<tmHolder, key, cancelled, closed, released, inactive>>

\* A transfer with this key is tracked: watch it, then look at its context.
WatchTracked(c) ==
    /\ pc[c] = "calling"
    /\ tmHolder = None
    /\ transfers[key[c]] # None
    /\ watchers' = [watchers EXCEPT ![transfers[key[c]]] = @ \cup {c}]
    /\ at' = [at EXCEPT ![c] = transfers[key[c]]]
    /\ pc' = [pc EXCEPT ![c] = "checking"]
    /\ tmHolder' = c
    /\ UNCHANGED <<activeTransfers, transfers, waitingTransfers, key,
                   cancelled, closed, released, workVars>>

\* Mutant: Transfer returns whatever it finds, cancelled or not.
JoinTracked_AnyContext(c) ==
    /\ pc[c] = "checking"
    /\ pc' = [pc EXCEPT ![c] = "watching"]
    /\ tmHolder' = None
    /\ UNCHANGED <<activeTransfers, transfers, waitingTransfers, key, at,
                   lifeVars, workVars>>

\* The context is live: return the tracked transfer and the watcher.
JoinTracked(c) ==
    /\ pc[c] = "checking"
    /\ ~cancelled[at[c]]
    /\ pc' = [pc EXCEPT ![c] = "watching"]
    /\ tmHolder' = None
    /\ UNCHANGED <<activeTransfers, transfers, waitingTransfers, key, at,
                   lifeVars, workVars>>

\* The part of Release that runs under t.mu: the last watcher to go closes
\* released if the transfer is untracked, and cancels it otherwise.
DropWatcher(x, c) ==
    /\ watchers' = [watchers EXCEPT ![x] = @ \ {c}]
    /\ \/ /\ watchers[x] \ {c} # {}
          /\ UNCHANGED <<cancelled, released>>
       \/ /\ watchers[x] \ {c} = {}
          /\ closed[x]
          /\ released' = [released EXCEPT ![x] = IF @ = 0 THEN 1 ELSE @]
          /\ UNCHANGED cancelled
       \/ /\ watchers[x] \ {c} = {}
          /\ ~closed[x]
          /\ cancelled' = [cancelled EXCEPT ![x] = TRUE]
          /\ UNCHANGED released

\* The context is done: Release the watcher, with tm.mu still held.
LeaveCancelled(c) ==
    /\ pc[c] = "checking"
    /\ cancelled[at[c]]
    /\ DropWatcher(at[c], c)
    /\ pc' = [pc EXCEPT ![c] = "detaching"]
    /\ UNCHANGED <<tmVars, key, at, closed, workVars>>

\* The watcher goroutine has ended, Release returns and tm.mu is given up.
Unlock(c) ==
    /\ pc[c] = "detaching"
    /\ pc' = [pc EXCEPT ![c] = "awaiting"]
    /\ tmHolder' = None
    /\ UNCHANGED <<activeTransfers, transfers, waitingTransfers, key, at,
                   lifeVars, workVars>>

\* <-xfer.Done(), then another round of the loop.
RetryAfterDone(c) ==
    /\ pc[c] = "awaiting"
    /\ Done(at[c])
    /\ pc' = [pc EXCEPT ![c] = "calling"]
    /\ at' = [at EXCEPT ![c] = None]
    /\ UNCHANGED <<tmVars, key, lifeVars, workVars>>

\* The caller releases the watcher that Transfer returned.  (Release also waits
\* for the watcher goroutine, which module TransferProgress shows to end.)
Release(c) ==
    /\ pc[c] = "watching"
    /\ DropWatcher(at[c], c)
    /\ pc' = [pc EXCEPT ![c] = "returned"]
    /\ UNCHANGED <<tmVars, key, at, closed, workVars>>

-----------------------------------------------------------------------------
(* Steps of the DoFunc of a transfer.  The three DoFuncs of the code       *)
(* (makeDownloadFunc, makeDownloadFuncFromDownload, makeUploadFunc) wait   *)
(* for start before anything else, may close inactive once, and end by     *)
(* closing the progress channel.                                           *)

\* <-start
Begin(x) ==
    /\ doFunc[x] = "waiting"
    /\ start[x]
    /\ doFunc' = [doFunc EXCEPT ![x] = "active"]
    /\ UNCHANGED <<tmVars, key, callVars, lifeVars, start, inactive, mgr>>

\* close(inactive)
BecomeInactive(x) ==
    /\ doFunc[x] = "active"
    /\ doFunc' = [doFunc EXCEPT ![x] = "passive"]
    /\ inactive' = [inactive EXCEPT ![x] = TRUE]
    /\ UNCHANGED <<tmVars, key, callVars, lifeVars, start, mgr>>

\* The deferred close(progressChan), with or without an error; Broadcast sees
\* the channel closed and closes running.
Finish(x) ==
    /\ doFunc[x] \in {"active", "passive"}
    /\ doFunc' = [doFunc EXCEPT ![x] = "finished"]
    /\ UNCHANGED <<tmVars, key, callVars, lifeVars, start, inactive, mgr>>

-----------------------------------------------------------------------------
(* Steps of the manager goroutine of a transfer.                           *)

\* Mutant: the queue is not served when a slot comes back.
inactivate_NoHandOver(x) ==
    \/ /\ ~start[x]
       /\ UNCHANGED <<activeTransfers, waitingTransfers, start>>
    \/ /\ start[x]
       /\ activeTransfers' = activeTransfers - 1
       /\ UNCHANGED <<waitingTransfers, start>>

\* A started transfer gives its slot to the head of the queue, or back.
inactivate(x) ==
    \/ /\ ~start[x]
       /\ UNCHANGED <<activeTransfers, waitingTransfers, start>>
    \/ /\ start[x]
       /\ waitingTransfers # << >>
       /\ start' = [start EXCEPT ![Head(waitingTransfers)] = TRUE]
       /\ waitingTransfers' = Tail(waitingTransfers)
       /\ UNCHANGED activeTransfers
    \/ /\ start[x]
       /\ waitingTransfers = << >>
       /\ activeTransfers' = activeTransfers - 1
       /\ UNCHANGED <<waitingTransfers, start>>

\* case <-inactive
ManagerInactive(x) ==
    /\ mgr[x] = "selectBoth"
    /\ inactive[x]
    /\ tmHolder = None
    /\ inactivate(x)
    /\ mgr' = [mgr EXCEPT ![x] = "selectDone"]
    /\ UNCHANGED <<tmHolder, transfers, key, callVars, lifeVars, inactive, doFunc>>

\* Mutant: the slot is given back on Done even if it was given back before.
ManagerDone_Twice(x) ==
    /\ mgr[x] \in {"selectBoth", "selectDone"}
    /\ Done(x)
    /\ tmHolder = None
    /\ inactivate(x)
    /\ transfers' = [transfers EXCEPT ![key[x]] = None]
    /\ mgr' = [mgr EXCEPT ![x] = "closing"]
    /\ UNCHANGED <<tmHolder, key, callVars, lifeVars, inactive, doFunc>>

\* Mutant: the finished transfer stays in the map.
ManagerDone_KeepEntry(x) ==
    /\ mgr[x] \in {"selectBoth", "selectDone"}
    /\ Done(x)
    /\ tmHolder = None
    /\ \/ mgr[x] = "selectBoth" /\ inactivate(x)
       \/ /\ mgr[x] = "selectDone"
          /\ UNCHANGED <<activeTransfers, waitingTransfers, start>>
    /\ mgr' = [mgr EXCEPT ![x] = "closing"]
    /\ UNCHANGED <<tmHolder, transfers, key, callVars, lifeVars, inactive, doFunc>>

\* case <-xfer.Done()
ManagerDone(x) ==
    /\ mgr[x] \in {"selectBoth", "selectDone"}
    /\ Done(x)
    /\ tmHolder = None
    /\ \/ mgr[x] = "selectBoth" /\ inactivate(x)
       \/ /\ mgr[x] = "selectDone"
          /\ UNCHANGED <<activeTransfers, waitingTransfers, start>>
    /\ transfers' = [transfers EXCEPT ![key[x]] = None]
    /\ mgr' = [mgr EXCEPT ![x] = "closing"]
    /\ UNCHANGED <<tmHolder, key, callVars, lifeVars, inactive, doFunc>>

\* Mutant: Close closes released while somebody still watches.
Close_Always(x) ==
    /\ mgr[x] = "closing"
    /\ closed' = [closed EXCEPT ![x] = TRUE]
    /\ released' = [released EXCEPT ![x] = @ + 1]
    /\ mgr' = [mgr EXCEPT ![x] = "exited"]
    /\ UNCHANGED <<tmVars, key, callVars, watchers, cancelled, start,
                   inactive, doFunc>>

\* xfer.Close(): the transfer is untracked; with no watcher left it is released.
Close(x) ==
    /\ mgr[x] = "closing"
    /\ closed' = [closed EXCEPT ![x] = TRUE]
    /\ released' = [released EXCEPT ![x] = IF watchers[x] = {} THEN @ + 1 ELSE @]
    /\ mgr' = [mgr EXCEPT ![x] = "exited"]
    /\ UNCHANGED <<tmVars, key, callVars, watchers, cancelled, start,
                   inactive, doFunc>>

-----------------------------------------------------------------------------

CallStep(c) == \/ TransferNew(c)
               \/ WatchTracked(c)
               \/ JoinTracked(c)
               \/ LeaveCancelled(c)
               \/ Unlock(c)
               \/ RetryAfterDone(c)

WorkStep(x) == \/ Begin(x)
               \/ Finish(x)

ManagerStep(x) == \/ ManagerInactive(x)
                  \/ ManagerDone(x)
                  \/ Close(x)

\* Every caller is gone: nothing new is asked of the manager.
AllReturned ==
    /\ \A c \in Calls : pc[c] = "returned"
    /\ UNCHANGED vars

Next == \/ \E c \in Calls : \/ CallStep(c)
                            \/ Release(c)
                            \/ WorkStep(c)
                            \/ BecomeInactive(c)
                            \/ ManagerStep(c)
        \/ AllReturned

Spec == Init /\ [][Next]_vars

(***************************************************************************)
(* Goroutines that can run do run, and a DoFunc ends (its retries are      *)
(* bounded and its network operations end or time out).  Nothing makes a   *)
(* caller release its watcher, or a DoFunc close inactive.  The manager    *)
(* goroutine competes for tm.mu with calls that retry in a loop; such a    *)
(* call yields to it (runtime.Gosched), hence strong fairness.             *)
(***************************************************************************)
Fairness == \A c \in Calls : /\ SF_vars(CallStep(c))
                             /\ WF_vars(WorkStep(c))
                             /\ SF_vars(ManagerStep(c))

FairSpec == Spec /\ Fairness

-----------------------------------------------------------------------------
(* Properties.                                                             *)

\* Transfers that were started and whose slot has not been given back.
SlotHolders == {x \in Calls : start[x] /\ mgr[x] = "selectBoth"}

\* Transfers the manager has created and not yet untracked.
Tracked == {x \in Calls : mgr[x] \in {"selectBoth", "selectDone"}}

\* Type invariant of the manager's, the calls' and the transfers' state.
TypeOK ==
    /\ tmHolder \in Calls \cup {None}
    /\ activeTransfers \in Nat
    /\ transfers \in [Keys -> Calls \cup {None}]
    /\ waitingTransfers \in Seq(Calls)
    /\ key \in [Calls -> Keys]
    /\ pc \in [Calls -> CallStates]
    /\ at \in [Calls -> Calls \cup {None}]
    /\ watchers \in [Calls -> SUBSET Calls]
    /\ cancelled \in [Calls -> BOOLEAN]
    /\ closed \in [Calls -> BOOLEAN]
    /\ released \in [Calls -> Nat]
    /\ start \in [Calls -> BOOLEAN]
    /\ inactive \in [Calls -> BOOLEAN]
    /\ doFunc \in [Calls -> DoStates]
    /\ mgr \in [Calls -> MgrStates]

\* No more than concurrencyLimit DoFuncs move data at the same time
\* (activeTransfers, start and inactive of transferManager).
ConcurrencyBound ==
    Cardinality({x \in Calls : doFunc[x] = "active"}) <= concurrencyLimit

\* At any time at most one transfer per key is tracked, and it is the one
\* Transfer finds in the map: two calls never move the same layer twice at once.
OneTransferPerKey ==
    \A x \in Calls : x \in Tracked <=> transfers[key[x]] = x

\* A transfer whose watcher has been returned and not released is not
\* cancelled: nobody else's Release can take it away, and Transfer never
\* returns a transfer that was cancelled before.
WatchedNotCancelled ==
    \A c \in Calls : pc[c] = "watching" => ~cancelled[at[c]]

\* released is closed exactly when the transfer is untracked and the last
\* watcher is gone, and it is never closed twice (close of a closed channel
\* panics): a layer kept for the watchers is neither dropped early nor leaked.
ReleasedExactlyOnce ==
    \A x \in Calls :
        released[x] = IF closed[x] /\ watchers[x] = {} THEN 1 ELSE 0

\* A transfer that nobody watches any more has been told to stop.
UnwatchedIsCancelled ==
    \A x \in Calls :
        mgr[x] # "none" /\ ~closed[x] /\ watchers[x] = {} => cancelled[x]

\* The counter and the channels of the manager implement the pool of slots.
Slots == INSTANCE SlotPool WITH Jobs <- Calls, limit <- concurrencyLimit,
                                holding <- SlotHolders, line <- waitingTransfers

\* Every step of the manager is a step of the abstract slot pool: slots are
\* taken and given back once each, and the queue is served first in first out.
SlotsImplemented == Slots!Spec

\* Every transfer that waits for a slot gets one: slots are not lost, also
\* when a transfer fails or is cancelled while it waits.
EveryTransferStarts ==
    \A x \in Calls : doFunc[x] = "waiting" ~> doFunc[x] # "waiting"

\* Every call of Transfer returns a transfer: waiting for a cancelled transfer
\* to go away, with tm.mu held during its Release, does not block for ever.
EveryCallReturns ==
    \A c \in Calls : pc[c] = "calling" ~> pc[c] = "watching"

=============================================================================
