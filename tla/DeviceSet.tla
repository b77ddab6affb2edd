------------------------------ MODULE DeviceSet ------------------------------
(***************************************************************************)
(* The devicemapper graph driver (daemon/graphdriver/devmapper): the table *)
(* of thin devices, its metadata files, the transactions that tie both to  *)
(* the thin pool, deferred removal and deletion, and the recovery that     *)
(* runs when the daemon starts again.                                      *)
(*                                                                         *)
(* A devInfo is a heap object: callers keep a pointer to it from their     *)
(* lookup until they hold its lock, and in between it may be unregistered. *)
(* devices.Lock() is devLock; devInfo.lock is the field lock.              *)
(*                                                                         *)
(* Of the transaction ids only one comparison matters, that of the id in   *)
(* the transaction file with the id in the pool: pending is TRUE when the  *)
(* file's is the larger one.  Opening a transaction writes the file with   *)
(* TransactionID + 1, closing it moves the pool to that id.                *)
(*                                                                         *)
(* The thin pool, the device nodes and the mounts belong to the kernel and *)
(* are external; they outlive the daemon, and all but the pool end with a  *)
(* reboot.                                                                 *)
(***************************************************************************)
EXTENDS Naturals, FiniteSets

CONSTANTS Clients, Worker, Daemon, Hashes, Base, maxDeviceID, Infos, None,
          Setups, maxMounts, maxFaults, maxUint

Actors == Clients \cup {Worker, Daemon}
DeviceIDs == 0..maxDeviceID
Files == [id : DeviceIDs, deleted : BOOLEAN, init : BOOLEAN]
\* Deferred deletion cannot be had without deferred removal.
Deferrals == {"none", "removal", "deletion"}
\* The pool uses loopback files that this daemon has created, or that were
\* there; or it is a device the user has given, empty at first, then taken.
Pools == {"created", "kept", "given", "taken"}

ASSUME DeviceSetAssumption ==
    /\ Base \in Hashes /\ IsFiniteSet(Hashes) /\ IsFiniteSet(Clients)
    /\ maxDeviceID \in Nat /\ maxMounts \in Nat /\ maxFaults \in Nat
    /\ maxUint \in Nat /\ maxUint > Cardinality(Hashes)
    /\ Setups \subseteq [deferred : Deferrals, discard : BOOLEAN, pool : Pools,
                        foreign : SUBSET DeviceIDs]
    /\ \A s \in Setups : s.foreign # {} => s.pool = "kept"
    /\ Worker \notin Clients /\ Daemon \notin Clients \cup {Worker}
    /\ None \notin Hashes \cup Actors \cup DeviceIDs \cup Files \cup {"discarded", "foreign"}
    /\ {"discarded", "foreign"} \cap Hashes = {}
\* The heap has room for every devInfo somebody can refer to.
ASSUME HeapAssumption ==
    /\ Infos \subseteq Nat \ {0} /\ IsFiniteSet(Infos)
    /\ Cardinality(Infos) > Cardinality(Hashes) + Cardinality(Clients) + 2

VARIABLES
    \* memory of the daemon
    Devices,           \* hash -> its devInfo, or 0
    info,              \* the devInfo objects
    devLock,           \* holder of devices.Lock()
    deviceIDMap,       \* device ids marked used
    NextDeviceID, nrDeletedDevices,
    call,              \* the call each actor is in
    up,                \* "down", "starting", "up" or "stopping"
    devs,              \* devInfos Shutdown has still to visit
    \* the metadata directory
    metadata,          \* hash -> its file
    txFile, pending,   \* the transaction file
    savedNext,         \* NextDeviceID in the device set's file, or None
    \* the kernel
    thin,              \* device id -> the hash it was created for, or None
    active,            \* name of a hash -> the device id it maps to, or None
    deferredRemoval,   \* names the kernel removes on their last close
    mounts, leaks,     \* opens of a name: by the daemon's mounts, by containers
    \* options, bounds and history
    deferred,          \* dm.use_deferred_removal and dm.use_deferred_deletion
    doBlkDiscard,      \* dm.blkdiscard
    pool,              \* dm.thinpooldev or loopback files, see Pools
    faults,            \* failures and crashes so far
    expected,          \* what the callers were promised of a hash
    gets,              \* mounts the callers have still to give back
    reused             \* an id was given out while a devInfo or a file still named it

memVars == <<Devices, info, devLock, deviceIDMap, NextDeviceID, nrDeletedDevices,
             call, up, devs>>
tableVars == <<Devices, info>>
idVars == <<deviceIDMap, NextDeviceID>>
procVars == <<up, devs>>
fileVars == <<metadata, txFile, pending, savedNext>>
nameVars == <<active, deferredRemoval, mounts, leaks>>
kernelVars == <<thin, nameVars>>
settings == <<deferred, doBlkDiscard>>
optionVars == <<settings, pool>>
vars == <<memVars, fileVars, kernelVars, optionVars, faults, expected, reused, gets>>

NoInfo == [hash |-> None, id |-> 0, deleted |-> FALSE, init |-> FALSE,
           mountCount |-> 0, lock |-> None]
Idle == [op |-> "none", pc |-> "idle", hash |-> None, info |-> 0, id |-> 0]
AddBase == [Idle EXCEPT !.op = "add", !.pc = "held", !.hash = Base]

Init ==
    /\ Devices = [h \in Hashes |-> 0]
    /\ info = [i \in Infos |-> NoInfo]
    /\ devLock = None
    /\ deviceIDMap = {}
    /\ NextDeviceID = 0 /\ nrDeletedDevices = 0
    /\ call = [a \in Actors |-> Idle]
    /\ up = "down" /\ devs = {}
    /\ metadata = [h \in Hashes |-> None]
    /\ txFile = None /\ pending = FALSE
    /\ savedNext = None
    /\ \E s \in Setups :
        /\ deferred = s.deferred /\ doBlkDiscard = s.discard /\ pool = s.pool
        /\ thin = [d \in DeviceIDs |-> IF d \in s.foreign THEN "foreign" ELSE None]
    /\ active = [h \in Hashes |-> None]
    /\ deferredRemoval = {}
    /\ mounts = [h \in Hashes |-> 0] /\ leaks = [h \in Hashes |-> 0]
    /\ faults = 0
    /\ expected = [h \in Hashes |-> "none"]
    /\ gets = [h \in Hashes |-> 0]
    /\ reused = FALSE

-----------------------------------------------------------------------------
(* Building blocks *)

Fault == faults < maxFaults /\ faults' = faults + 1
NoFault == UNCHANGED faults

Opens(h) == mounts[h] + leaks[h]
\* The pool refuses to delete a device that some name maps to: ErrBusy.
Busy(d) == \E h \in Hashes : active[h] = d

Referenced(table, calls) ==
    {table[h] : h \in Hashes} \cup {calls[a].info : a \in Actors}
FreshInfo == CHOOSE i \in Infos : i \notin Referenced(Devices, call)

File(i) == [id |-> i.id, deleted |-> i.deleted, init |-> i.init]
FromFile(h) == [NoInfo EXCEPT !.hash = h, !.id = metadata[h].id,
                !.deleted = metadata[h].deleted, !.init = metadata[h].init]

At(a, op, pc) == call[a].op = op /\ call[a].pc = pc
Holds(a) == devLock = a
Goto(a, pc) == call' = [call EXCEPT ![a].pc = pc]
My(a) == info[call[a].info]

\* The call of a ends: both locks are released, and a devInfo that nobody
\* refers to is garbage.  inf holds the devInfos as the step leaves them.
Finish(a, inf, last) ==
    /\ call' = [call EXCEPT ![a] = last]
    /\ devLock' = IF devLock = a THEN None ELSE devLock
    /\ info' = [i \in Infos |->
                  IF i \in Referenced(Devices', call')
                  THEN [inf[i] EXCEPT !.lock = IF @ = a THEN None ELSE @]
                  ELSE NoInfo]
Return(a, inf) == Finish(a, inf, Idle)
\* An error: the daemon gives up starting, any other actor is free again.
Fail(a) == Finish(a, info, IF a = Daemon THEN [Idle EXCEPT !.pc = "failed"] ELSE Idle)

\* lookupDevice loads the devInfo of h when only its file is there.
Found(h) == IF Devices[h] = 0 THEN FreshInfo ELSE Devices[h]
Loaded(h) == IF Devices[h] = 0 THEN [info EXCEPT ![FreshInfo] = FromFile(h)] ELSE info
Known(h) == Devices[h] # 0 \/ metadata[h] # None

isDeviceIDFree(d) == d \notin deviceIDMap
\* The first free id after NextDeviceID, in cyclic order.
NextFree(d) ==
    LET after(k) == (NextDeviceID + k) % (maxDeviceID + 1)
    IN  \E k \in 1..(maxDeviceID + 1) :
            /\ d = after(k) /\ isDeviceIDFree(d)
            /\ \A j \in 1..(k - 1) : ~isDeviceIDFree(after(j))
getNextFreeDeviceID(d) ==
    /\ NextFree(d)
    /\ NextDeviceID' = d
    /\ deviceIDMap' = deviceIDMap \cup {d}
NoneFree == \A d \in DeviceIDs : ~isDeviceIDFree(d)

OpenUnsaved(h, d) == UNCHANGED <<txFile, pending>>   \* mutant
openTransaction(h, d) == txFile' = [hash |-> h, id |-> d] /\ pending' = TRUE
closeTransaction ==
    pending' = FALSE /\ pool' = IF pool = "given" THEN "taken" ELSE pool
deferredRemove == deferred # "none"
deferredDelete == deferred = "deletion"

-----------------------------------------------------------------------------
(* Calls: the lookup under devices.Lock(), then the lock of the devInfo,   *)
(* then devices.Lock() again.                                              *)

\* AddDevice(h, b) looks up the base b, the other calls look up h itself.
Lookup(a, op, h, of) ==
    /\ up \in {"up", "stopping"} /\ call[a] = Idle /\ devLock = None
    /\ Known(of)
    /\ Devices' = [Devices EXCEPT ![of] = Found(of)]
    /\ info' = Loaded(of)
    /\ op \in {"add", "mount"} => ~info'[Found(of)].deleted
    /\ call' = [call EXCEPT ![a] =
                  [op |-> op, pc |-> "found", hash |-> h, info |-> Found(of), id |-> 0]]
    /\ UNCHANGED <<devLock, idVars, nrDeletedDevices, procVars,
                   fileVars, kernelVars, optionVars, faults, reused>>

\* The hash of a new device is drawn at random: no other call knows it.
Create(c, h, parent) ==
    /\ expected[h] = "none" /\ h # Base /\ \A b \in Actors : call[b].hash # h
    /\ Lookup(c, "add", h, parent) /\ UNCHANGED <<expected, gets>>
Remove(c, h) ==
    /\ h # Base /\ expected[h] \in {"present", "deleting"}
    /\ Lookup(c, "delete", h, h) /\ UNCHANGED gets
    /\ expected' = [expected EXCEPT ![h] = "deleting"]
\* What an earlier daemon has left mounted is mounted once more.
Get(c, h) ==
    /\ h # Base /\ expected[h] \in {"present", "deleting"}
    /\ gets[h] + Cardinality({b \in Actors : call[b].op \in {"mount", "unmount"}
                                             /\ call[b].hash = h}) < maxMounts
    /\ Lookup(c, "mount", h, h) /\ UNCHANGED <<expected, gets>>
Put(c, h) ==
    /\ gets[h] > 0 /\ gets' = [gets EXCEPT ![h] = @ - 1]
    /\ Lookup(c, "unmount", h, h) /\ UNCHANGED expected

\* The ticker of the deletion worker, which initMetaData starts: not the daemon
\* that has created the loopback files.
HasWorker == deferredDelete /\ pool # "created"
SomeLeft == nrDeletedDevices > 1   \* mutant
AnyDeleted == nrDeletedDevices > 0
cleanupDeletedDevices(h) ==
    /\ HasWorker /\ up = "up" /\ AnyDeleted
    /\ Devices[h] # 0 /\ info[Devices[h]].deleted
    /\ Lookup(Worker, "delete", h, h) /\ UNCHANGED <<expected, gets>>

LockInfo(a) ==
    /\ call[a].pc = "found" /\ My(a).lock = None
    /\ info' = [info EXCEPT ![call[a].info].lock = a]
    /\ Goto(a, "held")
    /\ UNCHANGED <<Devices, devLock, idVars, nrDeletedDevices, procVars, fileVars, kernelVars, optionVars, faults, expected, reused, gets>>

Lock(a) == devLock = None /\ devLock' = a

-----------------------------------------------------------------------------
(* createRegisterDevice and createRegisterSnapDevice *)

AddExists(a) ==
    LET h == call[a].hash
    IN  /\ At(a, "add", "held") /\ devLock = None
        /\ Known(h)
        /\ Devices' = [Devices EXCEPT ![h] = Found(h)]
        /\ Return(a, Loaded(h))
        /\ UNCHANGED <<idVars, nrDeletedDevices, procVars, fileVars, kernelVars,
                       optionVars, faults, expected, reused, gets>>
\* No id is free, or the transaction cannot be saved.
AddRefused(a) ==
    /\ At(a, "add", "held") /\ devLock = None
    /\ ~Known(call[a].hash)
    /\ \/ NoneFree /\ UNCHANGED NextDeviceID /\ NoFault
       \/ Fault /\ \E d \in DeviceIDs : NextFree(d) /\ NextDeviceID' = d
    /\ UNCHANGED Devices
    /\ Fail(a)
    /\ UNCHANGED <<deviceIDMap, nrDeletedDevices, procVars, fileVars, kernelVars,
                   optionVars, expected, reused, gets>>

OpenAdd(a) ==
    /\ At(a, "add", "held") /\ Lock(a)
    /\ ~Known(call[a].hash)
    /\ \E d \in DeviceIDs :
        /\ getNextFreeDeviceID(d)
        /\ openTransaction(call[a].hash, d)
        /\ call' = [call EXCEPT ![a].pc = "opened", ![a].id = d]
    /\ UNCHANGED <<tableVars, nrDeletedDevices, procVars, metadata, savedNext,
                   kernelVars, optionVars, faults, expected, reused, gets>>

markDeviceIDFree(d) == deviceIDMap' = deviceIDMap \ {d}

\* The parent of a snapshot must be in the pool; the base has no parent.
Creatable(a) == call[a].info # 0 => thin[My(a).id] # None
CreateDevice(a) ==
    /\ At(a, "add", "opened") /\ Holds(a)
    /\ thin[call[a].id] = None /\ Creatable(a)
    /\ thin' = [thin EXCEPT ![call[a].id] = call[a].hash]
    /\ reused' = \/ reused
                 \/ \E i \in Referenced(Devices, call) \ {0} : info[i].id = call[a].id
                 \/ \E h \in Hashes : metadata[h] # None /\ metadata[h].id = call[a].id
    /\ Goto(a, "created")
    /\ UNCHANGED <<tableVars, devLock, idVars,
                   nrDeletedDevices, procVars, fileVars, nameVars, optionVars, faults, expected, gets>>
CreateFails(a) ==
    /\ At(a, "add", "opened") /\ Holds(a)
    /\ IF Creatable(a) THEN thin[call[a].id] = None /\ Fault ELSE NoFault
    /\ markDeviceIDFree(call[a].id)
    /\ UNCHANGED Devices
    /\ Fail(a)
    /\ UNCHANGED <<NextDeviceID, nrDeletedDevices, procVars, fileVars, kernelVars,
                   optionVars, expected, reused, gets>>
\* "Device ID exists in pool but it is supposed to be unused": the id stays
\* marked, and the error of refreshTransaction is dropped.
IDExists(a) ==
    /\ At(a, "add", "opened") /\ Holds(a)
    /\ thin[call[a].id] # None /\ Creatable(a)
    /\ UNCHANGED <<Devices, nrDeletedDevices, procVars, metadata, savedNext,
                   kernelVars, optionVars, expected, reused, gets>>
    /\ \/ \E d \in DeviceIDs :
            /\ getNextFreeDeviceID(d)
            /\ call' = [call EXCEPT ![a].id = d]
            /\ \/ openTransaction(call[a].hash, d) /\ NoFault
               \/ UNCHANGED <<txFile, pending>> /\ Fault
            /\ UNCHANGED <<info, devLock>>
       \/ /\ NoneFree /\ NoFault
          /\ Fail(a)
          /\ UNCHANGED <<idVars, txFile, pending>>

registerDevice(a) ==
    LET i == FreshInfo
        new == [NoInfo EXCEPT !.hash = call[a].hash, !.id = call[a].id]
    IN  /\ At(a, "add", "created") /\ Holds(a)
        /\ Devices' = [Devices EXCEPT ![call[a].hash] = i]
        /\ info' = [info EXCEPT ![i] = new]
        /\ metadata' = [metadata EXCEPT ![call[a].hash] = File(new)]
        /\ Goto(a, "registered")
        /\ UNCHANGED <<devLock, idVars, nrDeletedDevices, procVars, txFile, pending, savedNext, kernelVars, optionVars,
                       faults, expected, reused, gets>>

RegisterFails(a) ==
    /\ At(a, "add", "created") /\ Holds(a)
    /\ Fault
    /\ thin' = [thin EXCEPT ![call[a].id] = None]
    /\ markDeviceIDFree(call[a].id)
    /\ UNCHANGED Devices
    /\ Fail(a)
    /\ UNCHANGED <<NextDeviceID, nrDeletedDevices, procVars, fileVars, nameVars, optionVars, expected, reused, gets>>

CloseAdd(a) ==
    /\ At(a, "add", "registered") /\ Holds(a)
    /\ closeTransaction
    /\ UNCHANGED Devices
    /\ IF a = Daemon
       THEN Finish(a, info, [Idle EXCEPT !.pc = "format"]) /\ UNCHANGED expected
       ELSE /\ Return(a, info)
            /\ expected' = [expected EXCEPT ![call[a].hash] = "present"]
    /\ UNCHANGED <<idVars, nrDeletedDevices, procVars, metadata,
                   txFile, savedNext, kernelVars, settings, faults, reused, gets>>
CloseAddFails(a) ==
    /\ At(a, "add", "registered") /\ Holds(a)
    /\ Fault
    /\ Devices' = [Devices EXCEPT ![call[a].hash] = 0]
    /\ metadata' = [metadata EXCEPT ![call[a].hash] = None]
    /\ thin' = [thin EXCEPT ![call[a].id] = None]
    /\ markDeviceIDFree(call[a].id)
    /\ Fail(a)
    /\ UNCHANGED <<NextDeviceID, nrDeletedDevices, procVars, txFile, pending,
                   savedNext, nameVars, optionVars,
                   expected, reused, gets>>

-----------------------------------------------------------------------------
(* deleteDevice, deleteTransaction, and the deactivation of a device, which *)
(* UnmountDevice shares                                                    *)

NeverInUse(i) == FALSE   \* mutant
InUse(i) == i.mountCount # 0
DeleteRefused(a) ==
    /\ At(a, "delete", "held") /\ devLock = None
    /\ InUse(My(a))
    /\ UNCHANGED Devices
    /\ Fail(a)
    /\ UNCHANGED <<idVars, nrDeletedDevices, procVars, fileVars, kernelVars,
                   optionVars, faults, expected, reused, gets>>

\* issueDiscard activates the device under its name, and throws the blocks
\* away unless the device is open.  Its errors are dropped.
Named(h, d) == IF active[h] = None THEN d ELSE active[h]
issueDiscard(a) ==
    LET h == My(a).hash
        d == Named(h, My(a).id)
    IN  /\ At(a, "delete", "held") /\ Lock(a)
        /\ ~InUse(My(a))
        /\ \/ /\ IF doBlkDiscard THEN Fault ELSE NoFault
              /\ UNCHANGED <<thin, active, deferredRemoval>>
           \/ /\ doBlkDiscard /\ NoFault
              /\ thin' = IF thin[d] # None /\ Opens(h) = 0
                         THEN [thin EXCEPT ![d] = "discarded"] ELSE thin
              /\ active' = [active EXCEPT ![h] = IF thin[d] = None THEN @ ELSE d]
              /\ deferredRemoval' = deferredRemoval \ {h}
        /\ Goto(a, "removing")
        /\ UNCHANGED <<tableVars, idVars, nrDeletedDevices, procVars, fileVars,
                       mounts, leaks, optionVars, expected, reused, gets>>

\* A removed name is gone at once, or with its last close when that is allowed.
Deactivated(h) ==
    /\ active' = [active EXCEPT ![h] = IF Opens(h) = 0 THEN None ELSE @]
    /\ deferredRemoval' = IF Opens(h) > 0 /\ active[h] # None
                          THEN deferredRemoval \cup {h} ELSE deferredRemoval \ {h}
Removable(h) == deferredRemove \/ active[h] = None \/ Opens(h) = 0

deactivateDevice(a) ==
    /\ call[a].pc = "removing" /\ Holds(a)
    /\ Removable(My(a).hash)
    /\ Deactivated(My(a).hash)
    /\ IF call[a].op = "delete"
       THEN Goto(a, "opening") /\ UNCHANGED <<tableVars, devLock>>
       ELSE UNCHANGED Devices /\ Return(a, info)
    /\ UNCHANGED <<idVars, nrDeletedDevices, procVars, fileVars, thin, mounts,
                   leaks, optionVars, faults, expected, reused, gets>>
\* removeDevice: the device is open, so retry in a while without the lock.
Sleep(a) ==
    /\ call[a].pc = "removing" /\ Holds(a)
    /\ ~Removable(My(a).hash)
    /\ devLock' = None
    /\ Goto(a, "sleeping")
    /\ UNCHANGED <<tableVars, idVars, nrDeletedDevices, procVars, fileVars,
                   kernelVars, optionVars, faults, expected, reused, gets>>
Wake(a) ==
    /\ call[a].pc = "sleeping" /\ Lock(a)
    /\ Goto(a, "removing")
    /\ UNCHANGED <<tableVars, idVars, nrDeletedDevices, procVars, fileVars,
                   kernelVars, optionVars, faults, expected, reused, gets>>
\* The last of the tries: ErrBusy goes to the caller.
GiveUp(a) ==
    /\ call[a].pc = "removing" /\ Holds(a)
    /\ ~Removable(My(a).hash)
    /\ UNCHANGED Devices
    /\ Fail(a)
    /\ UNCHANGED <<idVars, nrDeletedDevices, procVars, fileVars, kernelVars,
                   optionVars, faults, expected, reused, gets>>

OpenDelete(a) ==
    /\ At(a, "delete", "opening") /\ Holds(a)
    /\ \/ /\ openTransaction(call[a].hash, My(a).id) /\ NoFault
          /\ Goto(a, "deleting")
          /\ UNCHANGED <<tableVars, devLock>>
       \/ /\ Fault
          /\ UNCHANGED <<Devices, txFile, pending>>
          /\ Fail(a)
    /\ UNCHANGED <<idVars, nrDeletedDevices, procVars, metadata, savedNext,
                   kernelVars, optionVars, expected, reused, gets>>

\* The base is deleted with syncDelete.
DeleteThin(a) ==
    LET d == My(a).id
    IN  /\ At(a, "delete", "deleting") /\ Holds(a)
        /\ \/ /\ thin[d] # None /\ ~Busy(d) /\ NoFault
              /\ thin' = [thin EXCEPT ![d] = None]
              /\ Goto(a, "dropping")
           \/ /\ thin[d] # None /\ Busy(d) /\ NoFault
              /\ Goto(a, IF deferredDelete /\ a # Daemon THEN "marking" ELSE "closing")
              /\ UNCHANGED thin
           \/ /\ IF thin[d] = None THEN NoFault ELSE Fault
              /\ Goto(a, "closing")
              /\ UNCHANGED thin
        /\ UNCHANGED <<tableVars, devLock, idVars, nrDeletedDevices, procVars,
                       fileVars, nameVars, optionVars, expected, reused, gets>>

\* nrDeletedDevices is unsigned, and wraps at both ends.
Incremented(n) == IF n = maxUint THEN 0 ELSE n + 1
Decremented(n) == IF n = 0 THEN maxUint ELSE n - 1
unregisterDevice(a) ==
    /\ At(a, "delete", "dropping") /\ Holds(a)
    /\ Devices' = [Devices EXCEPT ![call[a].hash] = 0]
    /\ \/ /\ NoFault
          /\ metadata' = [metadata EXCEPT ![call[a].hash] = None]
          /\ nrDeletedDevices' = IF My(a).deleted THEN Decremented(nrDeletedDevices)
                                 ELSE nrDeletedDevices
          /\ markDeviceIDFree(My(a).id)
       \/ Fault /\ UNCHANGED <<metadata, nrDeletedDevices, deviceIDMap>>
    /\ Goto(a, "closing")
    /\ UNCHANGED <<info, devLock, NextDeviceID, procVars, txFile, pending, savedNext,
                   kernelVars, optionVars, expected, reused, gets>>

markForDeferredDeletion(a) ==
    LET i == call[a].info
    IN  /\ At(a, "delete", "marking") /\ Holds(a)
        /\ \/ /\ ~info[i].deleted /\ NoFault
              /\ info' = [info EXCEPT ![i].deleted = TRUE]
              /\ metadata' = [metadata EXCEPT ![call[a].hash] = File(info'[i])]
              /\ nrDeletedDevices' = Incremented(nrDeletedDevices)
           \/ /\ IF info[i].deleted THEN NoFault ELSE Fault
              /\ UNCHANGED <<info, metadata, nrDeletedDevices>>
        /\ Goto(a, "closing")
        /\ UNCHANGED <<Devices, devLock, idVars, procVars, txFile, pending, savedNext,
                       kernelVars, optionVars, expected, reused, gets>>

\* The deferred closeTransaction; its error is dropped.
CloseDelete(a) ==
    LET h == call[a].hash
        gone == ~Known(h)
    IN  /\ At(a, "delete", "closing") /\ Holds(a)
        /\ \/ closeTransaction /\ NoFault
           \/ UNCHANGED <<pending, pool>> /\ Fault
        /\ UNCHANGED Devices
        /\ IF a = Daemon /\ gone THEN Finish(a, info, AddBase)
           ELSE IF a = Daemon THEN Fail(a) ELSE Return(a, info)
        /\ expected' = IF gone THEN [expected EXCEPT ![h] = IF h = Base THEN "none" ELSE "gone"]
                       ELSE expected
        /\ UNCHANGED <<idVars, nrDeletedDevices, procVars, metadata, txFile, savedNext,
                       kernelVars, settings, reused, gets>>

-----------------------------------------------------------------------------
(* MountDevice and UnmountDevice *)

MountAgain(a) ==
    /\ At(a, "mount", "held") /\ devLock = None
    /\ My(a).mountCount > 0
    /\ UNCHANGED Devices
    /\ Return(a, [info EXCEPT ![call[a].info].mountCount = @ + 1])
    /\ gets' = [gets EXCEPT ![call[a].hash] = @ + 1]
    /\ UNCHANGED <<idVars, nrDeletedDevices, procVars, fileVars, kernelVars,
                   optionVars, faults, expected, reused>>

\* activateDeviceIfNeeded and the mount, which needs a file system; a mount
\* that fails leaves the name.  A layer counts its mount before it is made, and
\* puts it all the same.  The retries of cancelDeferredRemoval give up the lock
\* and change nothing.
MountDevice(a) ==
    LET h == My(a).hash
        d == Named(h, My(a).id)
        fails == Fail(a) /\ gets' = [gets EXCEPT ![h] = @ + 1] /\ UNCHANGED mounts
    IN  /\ At(a, "mount", "held") /\ devLock = None
        /\ My(a).mountCount = 0
        /\ UNCHANGED Devices
        /\ \/ /\ IF My(a).deleted \/ thin[d] = None THEN NoFault ELSE Fault
              /\ fails /\ UNCHANGED <<active, deferredRemoval>>
           \/ /\ ~My(a).deleted /\ thin[d] # None
              /\ active' = [active EXCEPT ![h] = d]
              /\ deferredRemoval' = deferredRemoval \ {h}
              /\ \/ /\ thin[d] # "discarded" /\ NoFault
                    /\ mounts' = [mounts EXCEPT ![h] = @ + 1]
                    /\ gets' = [gets EXCEPT ![h] = @ + 1]
                    /\ Return(a, [info EXCEPT ![call[a].info].mountCount = 1])
                 \/ (IF thin[d] = "discarded" THEN NoFault ELSE Fault) /\ fails
        /\ UNCHANGED <<idVars, nrDeletedDevices, procVars, fileVars, thin, leaks,
                       optionVars, expected, reused>>

\* The kernel removes a name that waits for its last close.
Closed(h) ==
    LET last == mounts'[h] + leaks'[h] = 0 /\ h \in deferredRemoval
    IN  /\ active' = [active EXCEPT ![h] = IF last THEN None ELSE @]
        /\ deferredRemoval' = IF last THEN deferredRemoval \ {h} ELSE deferredRemoval
\* MNT_DETACH takes the mount away; a container may keep the device open.
Detach(h) ==
    /\ mounts' = [mounts EXCEPT ![h] = @ - 1]
    /\ \E l \in {leaks[h], 1} : leaks' = [leaks EXCEPT ![h] = l]
    /\ Closed(h)
\* External: the last container that keeps the device open ends.
CloseLeak(h) ==
    /\ leaks[h] = 1
    /\ leaks' = [leaks EXCEPT ![h] = 0]
    /\ UNCHANGED mounts
    /\ Closed(h)
    /\ UNCHANGED <<memVars, fileVars, thin, optionVars, faults, expected, reused, gets>>

\* The count never falls below 0.  A failed unmount keeps what it has counted.
UnmountDevice(a) ==
    LET h == My(a).hash
        i == call[a].info
        n == IF info[i].mountCount = 0 THEN 0 ELSE info[i].mountCount - 1
    IN  /\ At(a, "unmount", "held") /\ devLock = None
        /\ \/ /\ IF n > 0 \/ mounts[h] = 0 THEN NoFault ELSE Fault
              /\ UNCHANGED <<Devices, nameVars>>
              /\ Return(a, [info EXCEPT ![i].mountCount = n])
           \/ /\ n = 0 /\ mounts[h] > 0 /\ NoFault
              /\ devLock' = a
              /\ info' = [info EXCEPT ![i].mountCount = 0]
              /\ Detach(h)
              /\ Goto(a, "removing")
              /\ UNCHANGED Devices
        /\ UNCHANGED <<idVars, nrDeletedDevices, procVars, fileVars, thin, optionVars,
                       expected, reused, gets>>

-----------------------------------------------------------------------------
(* initMetaData, setupBaseImage, Shutdown and crashes *)

RecordLeft == txFile # None   \* mutant
Unfinished == pending
CountNone(there) == 0   \* mutant
countDeletedDevices(there) == Cardinality({h \in there : metadata[h].deleted})

\* The files are loaded, and an open transaction is rolled back: whatever it
\* was, its device is deleted.  The devInfo that was just loaded stays.
Start ==
    LET there == {h \in Hashes : metadata[h] # None}
        slot == CHOOSE f \in [there -> Infos] :
                    \A g, h \in there : f[g] = f[h] => g = h
        ids == {metadata[h].id : h \in there}
    IN  /\ up = "down" /\ up' = "starting"
        /\ Devices' = [h \in Hashes |-> IF h \in there THEN slot[h] ELSE 0]
        /\ info' = [i \in Infos |->
                      IF \E h \in there : slot[h] = i
                      THEN FromFile(CHOOSE h \in there : slot[h] = i) ELSE NoInfo]
        /\ nrDeletedDevices' = countDeletedDevices(there)
        /\ NextDeviceID' = IF savedNext = None THEN 0 ELSE savedNext
        /\ IF ~Unfinished
           THEN /\ deviceIDMap' = ids
                /\ UNCHANGED <<metadata, txFile, pending, thin, faults>>
           ELSE /\ thin' = IF Busy(txFile.id) THEN thin
                           ELSE [thin EXCEPT ![txFile.id] = None]
                /\ \/ /\ NoFault
                      /\ metadata' = [metadata EXCEPT ![txFile.hash] = None]
                      /\ deviceIDMap' = ids \ {txFile.id}
                   \/ /\ Fault
                      /\ deviceIDMap' = ids
                      /\ UNCHANGED metadata
                /\ txFile' = None /\ pending' = FALSE
        /\ UNCHANGED <<devLock, call, devs, savedNext, nameVars, optionVars, expected,
                       reused, gets>>

\* setupBaseImage: a base that was never formatted is deleted and made again.
\* checkThinPool refuses a pool without a base that has seen a transaction.
setupBaseImage ==
    /\ up = "starting" /\ call[Daemon] = Idle
    /\ \/ /\ ~Known(Base)
          /\ call' = [call EXCEPT ![Daemon] = IF pool = "taken" THEN [Idle EXCEPT !.pc = "failed"]
                                              ELSE AddBase]
          /\ UNCHANGED <<up, info>>
       \/ /\ Known(Base) /\ info[Devices[Base]].init /\ ~info[Devices[Base]].deleted
          /\ IF savedNext = None THEN Goto(Daemon, "formatted") /\ UNCHANGED up
                                 ELSE up' = "up" /\ UNCHANGED call
          /\ UNCHANGED info
       \/ /\ Known(Base) /\ (~info[Devices[Base]].init \/ info[Devices[Base]].deleted)
          /\ call' = [call EXCEPT ![Daemon] = [Idle EXCEPT
                        !.op = "delete", !.pc = "held", !.hash = Base, !.info = Devices[Base]]]
          /\ info' = [info EXCEPT ![Devices[Base]].lock = Daemon]
          /\ UNCHANGED up
    /\ UNCHANGED <<Devices, devLock, idVars, nrDeletedDevices, devs, fileVars,
                   kernelVars, optionVars, faults, expected, reused, gets>>

\* createBaseImage after the registration: activate, format, save Initialized.
createBaseImage ==
    LET i == Devices[Base]
    IN  /\ call[Daemon].pc = "format"
        /\ active' = [active EXCEPT ![Base] = Named(Base, info[i].id)]
        /\ \/ /\ NoFault
              /\ info' = [info EXCEPT ![i].init = TRUE]
              /\ metadata' = [metadata EXCEPT ![Base] = File(info'[i])]
              /\ expected' = [expected EXCEPT ![Base] = "present"]
              /\ Goto(Daemon, "formatted")
           \/ /\ Fault
              /\ Goto(Daemon, "failed")
              /\ UNCHANGED <<info, metadata, expected>>
        /\ UNCHANGED <<Devices, devLock, idVars, nrDeletedDevices, procVars, txFile, pending,
                       savedNext, thin, deferredRemoval, mounts, leaks, optionVars, reused, gets>>
\* The device set's file holds the UUID of the base, too.
saveBaseDeviceUUID ==
    /\ call[Daemon].pc = "formatted"
    /\ active' = [active EXCEPT ![Base] = None]
    /\ \/ /\ NoFault
          /\ savedNext' = NextDeviceID
          /\ call' = [call EXCEPT ![Daemon] = Idle]
          /\ up' = "up"
       \/ Fault /\ Goto(Daemon, "failed") /\ UNCHANGED <<savedNext, up>>
    /\ UNCHANGED <<tableVars, devLock, idVars, nrDeletedDevices, devs, metadata, txFile, pending,
                   thin, deferredRemoval, mounts, leaks, optionVars, expected, reused, gets>>

\* Shutdown saves NextDeviceID, then visits the devices it has seen.
Shutdown ==
    /\ up = "up" /\ devLock = None
    /\ Fault
    /\ up' = "stopping"
    /\ savedNext' = NextDeviceID
    /\ devs' = {Devices[h] : h \in Hashes} \ {0}
    /\ UNCHANGED <<tableVars, devLock, idVars, nrDeletedDevices, call, metadata,
                   txFile, pending, kernelVars, optionVars, expected, reused, gets>>
ShutdownDevice(i) ==
    LET h == info[i].hash
    IN  /\ up = "stopping" /\ i \in devs
        /\ info[i].lock = None /\ devLock = None
        /\ devs' = devs \ {i}
        /\ IF info[i].mountCount > 0
           THEN /\ mounts' = [mounts EXCEPT ![h] = IF @ = 0 THEN 0 ELSE @ - 1]
                /\ \E l \in {leaks[h], 1} : leaks' = [leaks EXCEPT ![h] = l]
                /\ LET open == mounts'[h] + leaks'[h] > 0
                   IN  /\ active' = [active EXCEPT ![h] = IF open THEN @ ELSE None]
                       /\ deferredRemoval' =
                            IF open /\ deferredRemove /\ active[h] # None
                            THEN deferredRemoval \cup {h} ELSE deferredRemoval \ {h}
           ELSE UNCHANGED nameVars
        /\ UNCHANGED <<tableVars, devLock, idVars, nrDeletedDevices, call, up,
                       fileVars, thin, optionVars, faults, expected, reused, gets>>

\* The process ends and its memory is lost.
Down ==
    /\ up' = "down" /\ devs' = {}
    /\ Devices' = [h \in Hashes |-> 0]
    /\ info' = [i \in Infos |-> NoInfo]
    /\ devLock' = None
    /\ deviceIDMap' = {} /\ NextDeviceID' = 0 /\ nrDeletedDevices' = 0
    /\ call' = [a \in Actors |-> Idle]
    /\ gets' = [h \in Hashes |-> 0]
    /\ pool' = IF pool = "created" THEN "kept" ELSE pool
    /\ UNCHANGED <<fileVars, thin, settings, expected, reused>>
Exit ==
    /\ (up = "stopping" /\ devs = {}) \/ call[Daemon].pc = "failed"
    /\ UNCHANGED <<nameVars, faults>> /\ Down
Crash == up # "down" /\ Fault /\ UNCHANGED nameVars /\ Down
Reboot ==
    /\ up # "down" /\ Fault
    /\ active' = [h \in Hashes |-> None] /\ deferredRemoval' = {}
    /\ mounts' = [h \in Hashes |-> 0] /\ leaks' = [h \in Hashes |-> 0]
    /\ Down

-----------------------------------------------------------------------------
Call(c) ==
    \E h \in Hashes :
        \/ \E parent \in Hashes : Create(c, h, parent)
        \/ Remove(c, h)
        \/ Get(c, h)
        \/ Put(c, h)
Step(a) ==
    /\ call[a] # Idle
    /\ \/ LockInfo(a)
       \/ call[a].op = "add" /\ (\/ AddExists(a) \/ AddRefused(a) \/ OpenAdd(a)
                                \/ CreateDevice(a) \/ CreateFails(a) \/ IDExists(a)
                                \/ registerDevice(a) \/ RegisterFails(a)
                                \/ CloseAdd(a) \/ CloseAddFails(a))
       \/ call[a].op = "delete" /\ (\/ DeleteRefused(a) \/ issueDiscard(a)
                                   \/ OpenDelete(a) \/ DeleteThin(a) \/ unregisterDevice(a)
                                   \/ markForDeferredDeletion(a) \/ CloseDelete(a))
       \/ deactivateDevice(a) \/ Sleep(a) \/ Wake(a) \/ GiveUp(a)
       \/ MountAgain(a) \/ MountDevice(a) \/ UnmountDevice(a)
Kernel == \E h \in Hashes : CloseLeak(h)
Boot == Start \/ setupBaseImage \/ createBaseImage \/ saveBaseDeviceUUID
Stop == Shutdown \/ (\E i \in Infos : ShutdownDevice(i)) \/ Exit

Next ==
    \/ \E c \in Clients : Call(c)
    \/ \E h \in Hashes : cleanupDeletedDevices(h)
    \/ \E a \in Actors : Step(a)
    \/ Kernel
    \/ Boot
    \/ Stop
    \/ Crash
    \/ Reboot

\* The goroutines go on, that of the daemon's start and end included, and so
\* does the ticker of the worker; containers end.  Nobody has to call, and
\* nothing has to fail.  The base is neither mounted nor marked for deletion.
Main == Step(Daemon) \/ Boot \/ (Stop /\ up # "up")
Fairness ==
    /\ WF_vars(Main)
    /\ \A a \in Clients \cup {Worker} : WF_vars(Step(a))
    /\ \A h \in Hashes \ {Base} : SF_vars(cleanupDeletedDevices(h)) /\ WF_vars(CloseLeak(h))
Spec == Init /\ [][Next]_vars /\ Fairness

-----------------------------------------------------------------------------
(* Properties *)

\* The variables have their types.
TypeOK ==
    /\ Devices \in [Hashes -> Infos \cup {0}]
    /\ \A i \in Infos : info[i].id \in DeviceIDs /\ info[i].mountCount \in 0..maxMounts
    /\ devLock \in Actors \cup {None}
    /\ deviceIDMap \subseteq DeviceIDs /\ NextDeviceID \in DeviceIDs
    /\ nrDeletedDevices \in 0..maxUint
    /\ \A d \in DeviceIDs : thin[d] \in Hashes \cup {None, "discarded", "foreign"}
    /\ \A h \in Hashes : active[h] \in DeviceIDs \cup {None}
    /\ up \in {"down", "starting", "up", "stopping"}

\* A device that AddDevice has reported and that nobody has asked to delete
\* keeps its metadata file and its data in the pool under the id in that file,
\* whatever else is added, deleted, interrupted by a crash and rolled back.
DataKept ==
    \A h \in Hashes : expected[h] = "present" =>
        /\ metadata[h] # None /\ ~metadata[h].deleted
        /\ thin[metadata[h].id] = h
\* The same, as long as no id is given out while a devInfo or a file still
\* names it.
DataSafe == ~reused => DataKept

\* A registered device with a positive mount count is mounted, through a name
\* that maps to the device itself: no delete, worker or second mount of a
\* caller that looked it up earlier takes it away.
MountedIsActive ==
    \A h \in Hashes : Devices[h] # 0 /\ ~reused /\ up = "up" =>
        LET i == info[Devices[h]]
        IN  i.mountCount > 0 => /\ mounts[h] > 0 /\ active[h] = i.id
                                /\ thin[i.id] = h /\ ~i.deleted

\* The worker does nothing while nrDeletedDevices is 0, so the counter must
\* cover every registered device that waits for its deletion.
DeletedCounted ==
    devLock = None /\ ~reused =>
        nrDeletedDevices >= Cardinality({h \in Hashes : Devices[h] # 0
                                           /\ info[Devices[h]].deleted})

\* The pool gains and loses devices only while the transaction file on disk
\* names an unfinished transaction, so that a crash can be recovered from.
WriteAhead ==
    [][\A d \in DeviceIDs : (thin[d] = None) # (thin'[d] = None) => pending]_vars

\* A device marked for deletion leaves the pool, or is forgotten by a rollback,
\* once no mount of the daemon keeps it; but for a daemon that has created the
\* loopback files itself and so has no deletion worker.
DeferredDeleteEnds ==
    \A h \in Hashes :
        (metadata[h] # None /\ metadata[h].deleted /\ mounts[h] = 0 /\ HasWorker)
            ~> (metadata[h] = None \/ thin[metadata[h].id] = None \/ mounts[h] > 0)

=============================================================================
