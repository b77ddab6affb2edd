----------------------------- MODULE MountStore -----------------------------
(***************************************************************************)
(* The writable layers of the layer store (layer/layer_store.go,           *)
(* mounted_layer.go, filestore.go) on top of module LayerStore: creation,  *)
(* mounting and release under mountL, with layerL taken inside it, failing *)
(* driver and file operations, and a crash with a restart at any point.    *)
(*                                                                         *)
(* mountL is held by at most one client, whose progress is in rw.  Such a  *)
(* client has pc "elsewhere" until it enters the loop of releaseLayer.  A  *)
(* client holds at most one reference to each mount; a reference that has  *)
(* been released (activityCount -1) is one that mrefs does not list.       *)
(***************************************************************************)
EXTENDS LayerStore

CONSTANTS
    Names,       \* names of writable layers
    maxActivity  \* bound: nested mounts through one reference

ASSUME MountAssumption == maxActivity \in Nat \ {0} /\ IsFiniteSet(Names)

VARIABLES
    mounts,       \* names in ls.mounts
    mparent,      \* mountedLayer.parent, or None
    mrefs,        \* mountedLayer.references: the clients that hold one
    activity,     \* referencedRWLayer.activityCount of each name and client
    mountL,       \* holder of mountL across several steps, or None
    rw,           \* what that holder is doing: [at, name, ch]
    mountDir,     \* files of each mount: mount-id there or not, and parent
    mountData,    \* external: names whose driver layer exists
    driverMounts  \* external: Get calls minus Put calls of the driver

mountVars == <<mounts, mparent, mrefs, activity, mountL, rw, mountDir, mountData,
               driverMounts>>
storeVars == <<layerVars, mountVars>>

NoRW == [at |-> "none", name |-> None, ch |-> None]
NoFiles == [id |-> FALSE, parent |-> None]

MountInit ==
    /\ mounts = {}
    /\ mparent = [n \in Names |-> None]
    /\ mrefs = [n \in Names |-> {}]
    /\ activity = [n \in Names |-> [c \in Clients |-> 0]]
    /\ mountL = None
    /\ rw = NoRW
    /\ mountDir = [n \in Names |-> NoFiles]
    /\ mountData = {}
    /\ driverMounts = [n \in Names |-> 0]

\* Client c, holding mountL, goes to step s of its operation.
At(c, s) ==
    /\ rw' = [rw EXCEPT !.at = s]
    /\ UNCHANGED <<mountL, pc, tgt>>

\* Client c returns from its operation and gives mountL up.
Done(c) ==
    /\ rw' = NoRW
    /\ mountL' = None
    /\ Go(c, "idle", None)

Holds(c, s) == mountL = c /\ rw.at = s

-----------------------------------------------------------------------------
(* CreateRWLayer and GetRWLayer.                                           *)

\* CreateRWLayer takes mountL for a name that is free.
CreateRWLayer(c, n, ch) ==
    /\ pc[c] = "idle"
    /\ mountL = None
    /\ n \notin mounts
    /\ mountL' = c
    /\ rw' = [at |-> IF ch = None THEN "create" ELSE "get", name |-> n, ch |-> ch]
    /\ Go(c, "elsewhere", None)
    /\ UNCHANGED <<layerMap, parent, referenceCount, references, pins, layerL,
                   panicked, diskVars, mounts, mparent, mrefs, activity, mountDir,
                   mountData, driverMounts>>

\* Mutant: layerL is not given up again.
GetParent_KeepLock(c) ==
    /\ Holds(c, "get")
    /\ layerL = None
    /\ \/ /\ getWithoutLock(rw.ch)
          /\ pins' = [pins EXCEPT ![rw.ch] = @ + 1]
          /\ layerL' = c
          /\ At(c, "create")
       \/ /\ rw.ch \notin layerMap
          /\ Done(c)
          /\ UNCHANGED <<referenceCount, pins, layerL>>
    /\ UNCHANGED <<layerMap, parent, references, panicked, diskVars, mounts,
                   mparent, mrefs, activity, mountDir, mountData, driverMounts>>

\* ls.get(parent) under layerL, or ErrLayerDoesNotExist.
GetParent(c) ==
    /\ Holds(c, "get")
    /\ layerL = None
    /\ \/ /\ getWithoutLock(rw.ch)
          /\ pins' = [pins EXCEPT ![rw.ch] = @ + 1]
          /\ At(c, "create")
       \/ /\ rw.ch \notin layerMap
          /\ Done(c)
          /\ UNCHANGED <<referenceCount, pins>>
    /\ UNCHANGED <<layerMap, parent, references, layerL, panicked, diskVars, mounts,
                   mparent, mrefs, activity, mountDir, mountData, driverMounts>>

\* CreateRWLayer fails: the deferred function gives the parent back.
FailCreate(c) == IF rw.ch = None THEN Done(c) ELSE At(c, "drop")

\* initMount and driver.Create, with a fresh mountID.
CreateDriverLayer(c) ==
    /\ Holds(c, "create")
    /\ \/ /\ mountData' = mountData \cup {rw.name}
          /\ driverMounts' = [driverMounts EXCEPT ![rw.name] = 0]
          /\ At(c, "setMountID")
       \/ FailCreate(c) /\ UNCHANGED <<mountData, driverMounts>>
    /\ UNCHANGED <<layerMap, parent, referenceCount, references, pins, layerL,
                   panicked, diskVars, mounts, mparent, mrefs, activity, mountDir>>

\* saveMount: the files mount-id and init-id.
SetMountID(c) ==
    /\ Holds(c, "setMountID")
    /\ \/ /\ mountDir' = [mountDir EXCEPT ![rw.name].id = TRUE]
          /\ At(c, "setMountParent")
       \/ FailCreate(c) /\ UNCHANGED mountDir
    /\ UNCHANGED <<layerMap, parent, referenceCount, references, pins, layerL,
                   panicked, diskVars, mounts, mparent, mrefs, activity, mountData,
                   driverMounts>>

\* saveMount: the file parent, if there is one, and the entry in ls.mounts; then
\* getReference, and CreateRWLayer returns.
SetMountParent(c) ==
    /\ Holds(c, "setMountParent")
    /\ \/ /\ mountDir' = IF rw.ch = None THEN mountDir
                         ELSE [mountDir EXCEPT ![rw.name].parent = rw.ch]
          /\ mounts' = mounts \cup {rw.name}
          /\ mparent' = [mparent EXCEPT ![rw.name] = rw.ch]
          /\ mrefs' = [mrefs EXCEPT ![rw.name] = {c}]
          /\ activity' = [activity EXCEPT ![rw.name][c] = 0]
          /\ Done(c)
       \/ /\ rw.ch # None
          /\ FailCreate(c)
          /\ UNCHANGED <<mountDir, mounts, mparent, mrefs, activity>>
    /\ UNCHANGED <<layerMap, parent, referenceCount, references, pins, layerL,
                   panicked, diskVars, mountData, driverMounts>>

\* GetRWLayer of a name that exists.
GetRWLayer(c, n) ==
    /\ pc[c] = "idle"
    /\ mountL = None
    /\ n \in mounts
    /\ c \notin mrefs[n]
    /\ mrefs' = [mrefs EXCEPT ![n] = @ \cup {c}]
    /\ activity' = [activity EXCEPT ![n][c] = 0]
    /\ UNCHANGED <<layerVars, mounts, mparent, mountL, rw, mountDir, mountData,
                   driverMounts>>

-----------------------------------------------------------------------------
(* Mount and Unmount, under the activityL of the reference.                *)

\* Mount counts the activity, then asks the driver, which may refuse.
Mount(c, n) ==
    /\ pc[c] = "idle"
    /\ c \in mrefs[n]
    /\ activity[n][c] < maxActivity
    /\ activity' = [activity EXCEPT ![n][c] = @ + 1]
    /\ \/ driverMounts' = [driverMounts EXCEPT ![n] = @ + 1]
       \/ UNCHANGED driverMounts
    /\ UNCHANGED <<layerVars, mounts, mparent, mrefs, mountL, rw, mountDir, mountData>>

\* Unmount of an active reference.
Unmount(c, n) ==
    /\ pc[c] = "idle"
    /\ c \in mrefs[n]
    /\ activity[n][c] > 0
    /\ activity' = [activity EXCEPT ![n][c] = @ - 1]
    /\ driverMounts' = [driverMounts EXCEPT ![n] = IF @ = 0 THEN 0 ELSE @ - 1]
    /\ UNCHANGED <<layerVars, mounts, mparent, mrefs, mountL, rw, mountDir, mountData>>

-----------------------------------------------------------------------------
(* ReleaseRWLayer.                                                         *)

\* Mutant: the activity of the reference is not looked at.
ReleaseRWLayer_Active(c, n) ==
    /\ pc[c] = "idle"
    /\ mountL = None
    /\ c \in mrefs[n]
    /\ mrefs' = [mrefs EXCEPT ![n] = @ \ {c}]
    /\ IF mrefs'[n] # {} THEN UNCHANGED <<mountL, rw, pc, tgt>>
       ELSE /\ mountL' = c
            /\ rw' = [at |-> "remove", name |-> n, ch |-> mparent[n]]
            /\ Go(c, "elsewhere", None)
    /\ UNCHANGED <<layerMap, parent, referenceCount, references, pins, layerL,
                   panicked, diskVars, mounts, mparent, activity, mountDir, mountData,
                   driverMounts>>

\* deleteReference of a reference that is not active; with other references
\* left, ReleaseRWLayer returns.
ReleaseRWLayer(c, n) ==
    /\ pc[c] = "idle"
    /\ mountL = None
    /\ c \in mrefs[n]
    /\ activity[n][c] = 0
    /\ mrefs' = [mrefs EXCEPT ![n] = @ \ {c}]
    /\ IF mrefs'[n] # {} THEN UNCHANGED <<mountL, rw, pc, tgt>>
       ELSE /\ mountL' = c
            /\ rw' = [at |-> "remove", name |-> n, ch |-> mparent[n]]
            /\ Go(c, "elsewhere", None)
    /\ UNCHANGED <<layerMap, parent, referenceCount, references, pins, layerL,
                   panicked, diskVars, mounts, mparent, activity, mountDir, mountData,
                   driverMounts>>

\* driver.Remove of the mount and of its init layer; each may fail.
RemoveDriverLayer(c) ==
    /\ Holds(c, "remove")
    /\ \/ mountData' = mountData \ {rw.name} /\ At(c, "removeMount")
       \/ mountData' \in {mountData, mountData \ {rw.name}} /\ Done(c)
    /\ UNCHANGED <<layerMap, parent, referenceCount, references, pins, layerL,
                   panicked, diskVars, mounts, mparent, mrefs, activity, mountDir,
                   driverMounts>>

\* What RemoveAll may leave of the files of n when it fails or is cut short.
MountRemains(n) ==
    {[id |-> i, parent |-> p] : i \in {mountDir[n].id, FALSE},
                                p \in {mountDir[n].parent, None}}

\* Mutant: the entry of ls.mounts stays.
RemoveMount_KeepEntry(c) ==
    /\ Holds(c, "removeMount")
    /\ \/ /\ mountDir' = [mountDir EXCEPT ![rw.name] = NoFiles]
          /\ UNCHANGED mounts
          /\ At(c, "drop")
       \/ /\ \E left \in MountRemains(rw.name) :
                mountDir' = [mountDir EXCEPT ![rw.name] = left]
          /\ Done(c)
          /\ UNCHANGED mounts
    /\ UNCHANGED <<layerMap, parent, referenceCount, references, pins, layerL,
                   panicked, diskVars, mparent, mrefs, activity, mountData,
                   driverMounts>>

\* store.RemoveMount, and the name leaves ls.mounts; or an error.
RemoveMount(c) ==
    /\ Holds(c, "removeMount")
    /\ \/ /\ mountDir' = [mountDir EXCEPT ![rw.name] = NoFiles]
          /\ mounts' = mounts \ {rw.name}
          /\ At(c, "drop")
       \/ /\ \E left \in MountRemains(rw.name) :
                mountDir' = [mountDir EXCEPT ![rw.name] = left]
          /\ Done(c)
          /\ UNCHANGED mounts
    /\ UNCHANGED <<layerMap, parent, referenceCount, references, pins, layerL,
                   panicked, diskVars, mparent, mrefs, activity, mountData,
                   driverMounts>>

\* The parent is given back: layerL is taken with mountL still held.
DropParent(c) ==
    /\ Holds(c, "drop")
    /\ layerL = None
    /\ \/ /\ rw.ch = None
          /\ Done(c)
          /\ UNCHANGED <<layerL, pins>>
       \/ /\ rw.ch # None
          /\ EnterRelease(c, rw.ch)
          /\ pins' = [pins EXCEPT ![rw.ch] = @ - 1]
          /\ rw' = [rw EXCEPT !.at = "dropping"]
          /\ UNCHANGED mountL
    /\ UNCHANGED <<layerMap, parent, referenceCount, references, panicked, diskVars,
                   mounts, mparent, mrefs, activity, mountDir, mountData,
                   driverMounts>>

\* A step of LayerStore; the end of a releaseLayer called with mountL held is
\* also the end of the operation on the mount.
ReadOnlyStep(c) ==
    /\ LayerStep(c)
    /\ IF mountL = c /\ pc'[c] = "idle" THEN mountL' = None /\ rw' = NoRW
                                        ELSE UNCHANGED <<mountL, rw>>
    /\ UNCHANGED <<mounts, mparent, mrefs, activity, mountDir, mountData, driverMounts>>

-----------------------------------------------------------------------------
(* Crash and restart: loadMount.                                           *)

\* Mutant: a mount is loaded although its parent is not.
LoadedMounts_AnyParent(meta, dirs) == {n \in Names : dirs[n].id}

\* The mounts that loadMount accepts: a mount-id, and no parent or one that
\* can be loaded.
LoadedMounts(meta, dirs) ==
    {n \in Names : dirs[n].id /\ dirs[n].parent \in Loadable(meta) \cup {None}}

\* What a crash leaves of the files of the mounts.
CrashedMountDirs ==
    {dirs \in [Names -> [id : BOOLEAN, parent : Chains \cup {None}]] :
        \A n \in Names :
            \/ dirs[n] = mountDir[n]
            \/ rw.at = "removeMount" /\ rw.name = n /\ dirs[n] \in MountRemains(n)}

\* The process dies and a new one loads layers and mounts.
RestartStore ==
    /\ \E dirs \in CrashedMountDirs :
          /\ mountDir' = dirs
          /\ \E meta \in CrashedMetadata :
                /\ metadata' = meta
                /\ mounts' = LoadedMounts(meta, dirs)
                /\ Load(meta, [ch \in Chains |->
                        Cardinality({n \in mounts' : dirs[n].parent = ch})])
          /\ mparent' = [n \in Names |-> dirs[n].parent]
    /\ ForgetClients
    /\ mrefs' = [n \in Names |-> {}]
    /\ activity' = [n \in Names |-> [c \in Clients |-> 0]]
    /\ mountL' = None
    /\ rw' = NoRW
    /\ driverMounts' = [n \in Names |-> 0]
    /\ UNCHANGED mountData

-----------------------------------------------------------------------------

MountStep(c) ==
    \/ \E n \in Names : \/ \E ch \in Chains \cup {None} : CreateRWLayer(c, n, ch)
                        \/ GetRWLayer(c, n)
                        \/ Mount(c, n)
                        \/ Unmount(c, n)
                        \/ ReleaseRWLayer(c, n)
    \/ GetParent(c)
    \/ CreateDriverLayer(c)
    \/ SetMountID(c)
    \/ SetMountParent(c)
    \/ RemoveDriverLayer(c)
    \/ RemoveMount(c)
    \/ DropParent(c)

StoreInit == LayerInit /\ MountInit

StoreNext == \/ \E c \in Clients : ReadOnlyStep(c) \/ MountStep(c)
             \/ RestartStore

StoreSpec == StoreInit /\ [][StoreNext]_storeVars

-----------------------------------------------------------------------------
(* Properties.                                                             *)

\* Type invariant of the writable layers.
MountTypeOK ==
    /\ LayerTypeOK
    /\ mounts \subseteq Names
    /\ mparent \in [Names -> Chains \cup {None}]
    /\ mrefs \in [Names -> SUBSET Clients]
    /\ activity \in [Names -> [Clients -> 0..maxActivity]]
    /\ mountL \in Clients \cup {None}
    /\ rw.name \in Names \cup {None} /\ rw.ch \in Chains \cup {None}
    /\ mountDir \in [Names -> [id : BOOLEAN, parent : Chains \cup {None}]]
    /\ mountData \subseteq Names
    /\ driverMounts \in [Names -> Nat]

\* Names whose mount is in the map with parent ch.
MountsOn(ch) == {n \in mounts : mparent[n] = ch}

\* The counts that the read-only layers owe to mounts are those of the mounts in
\* the map and of the creation or removal under way, whatever has failed.
PinsExact ==
    \A ch \in Chains :
        pins[ch] = Cardinality(MountsOn(ch))
                   + IF /\ rw.ch = ch
                        /\ rw.at \in {"create", "setMountID", "setMountParent", "drop"}
                     THEN 1 ELSE 0

\* A mount keeps the whole chain it stands on: loaded, on disk and with its data,
\* unless a removal within that chain had failed before.
MountStandsOnChain ==
    \A n \in mounts :
        mparent[n] # None =>
            /\ mparent[n] \in layerMap
            /\ \/ \E k \in Chain(mparent[n]) : k \in doomed
               \/ \A k \in Chain(mparent[n]) : k \in layerMap \cap data
                                               /\ metadata[k] = "whole"

\* The data of a writable layer goes only when no reference is left, so that
\* nobody can have it mounted.
MountedStays ==
    [][\A n \in mountData \ mountData' :
          /\ mrefs[n] = {}
          /\ \A c \in Clients : activity[n][c] = 0]_storeVars

\* layerL is taken inside mountL and never the other way round: as long as an
\* operation is under way, one of those under way can go on.
NoLockCycle ==
    (\E c \in Clients : pc[c] # "idle") =>
        \E c \in Clients : pc[c] # "idle" /\ ENABLED (ReadOnlyStep(c) \/ MountStep(c))

=============================================================================
