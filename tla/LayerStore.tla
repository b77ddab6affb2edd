----------------------------- MODULE LayerStore -----------------------------
(***************************************************************************)
(* The store of read-only layers (layer/layer_store.go, ro_layer.go,       *)
(* filestore.go): reference counts under layerL, the metadata directories  *)
(* and the graph driver's data on disk, failing operations, and a crash    *)
(* with a restart at any point.                                            *)
(*                                                                         *)
(* A member of Chains is a ChainID.  The content of a chain fixes its      *)
(* parent, parentOf.  At any time the store holds at most one roLayer per  *)
(* chain, so the fields of the roLayer are functions of the chain.  A      *)
(* client is a goroutine that uses the store and holds at most one         *)
(* reference to each chain.                                                *)
(*                                                                         *)
(* Retained counts that this module does not know (those of the writable   *)
(* layers) are kept in pins, which only module MountStore changes.         *)
(***************************************************************************)
EXTENDS Naturals, FiniteSets

CONSTANTS Clients, Chains, parentOf, maxLayerDepth, None

ASSUME ChainAssumption ==
    /\ parentOf \in [Chains -> Chains \cup {None}]
    /\ None \notin Chains \cup Clients
    /\ maxLayerDepth \in Nat \ {0}
    /\ \A S \in SUBSET Chains : S # {} => \E ch \in S : parentOf[ch] \notin S

\* There are finitely many goroutines, and directories of layers.
ASSUME FiniteAssumption == IsFiniteSet(Clients) /\ IsFiniteSet(Chains)

VARIABLES
    layerMap,        \* chains in ls.layerMap
    parent,          \* roLayer.parent
    referenceCount,  \* roLayer.referenceCount
    references,      \* roLayer.references: the clients that hold one
    pins,            \* counts held by mounted layers, per chain
    layerL,          \* holder of layerL across the release loop, or None
    pc, tgt,         \* where each client is, and with which chain
    panicked,        \* releaseLayer has panicked
    metadata,        \* metadata directory of each chain
    data,            \* external: chains whose graph driver layer exists
    doomed           \* history: chains whose removal has begun since the commit

memVars == <<layerMap, parent, referenceCount, references, pins, layerL, pc, tgt,
             panicked>>
diskVars == <<metadata, data, doomed>>
layerVars == <<memVars, diskVars>>

\* "getting": counted, before getReference; "registering": parent counted;
\* "committing": driver layer and transaction are ready; "undoing": the parent
\* has to be given back; "releasing", "removing": in the loop of releaseLayer.
PCs == {"idle", "getting", "registering", "committing", "undoing", "releasing",
        "removing", "elsewhere"}
\* "noparent": the parent file is gone, "broken": another file is gone.
DirStates == {"absent", "whole", "noparent", "broken"}

LayerInit ==
    /\ layerMap = {}
    /\ parent = [ch \in Chains |-> None]
    /\ referenceCount = [ch \in Chains |-> 0]
    /\ references = [ch \in Chains |-> {}]
    /\ pins = [ch \in Chains |-> 0]
    /\ layerL = None
    /\ pc = [c \in Clients |-> "idle"]
    /\ tgt = [c \in Clients |-> None]
    /\ panicked = FALSE
    /\ metadata = [ch \in Chains |-> "absent"]
    /\ data = {}
    /\ doomed = {}

\* What os.RemoveAll may leave of a directory when it fails or is cut short.
Remains(ch) ==
    CASE metadata[ch] = "whole" -> IF parentOf[ch] = None THEN {"whole", "broken"}
                                   ELSE {"whole", "noparent", "broken"}
      [] metadata[ch] = "noparent" -> {"noparent", "broken"}
      [] OTHER -> {metadata[ch]}

\* The layers above which ch would be a layer too many: roLayer.depth.
depth[ch \in Chains] ==
    IF parent[ch] = None THEN 1 ELSE depth[parent[ch]] + 1

\* Client c goes to state s with chain ch.
Go(c, s, ch) ==
    /\ pc' = [pc EXCEPT ![c] = s]
    /\ tgt' = [tgt EXCEPT ![c] = ch]

-----------------------------------------------------------------------------
(* Get and Register.                                                       *)

\* The layer is in the map: count one more use of it.
getWithoutLock(ch) ==
    /\ ch \in layerMap
    /\ referenceCount' = [referenceCount EXCEPT ![ch] = @ + 1]

\* ls.get, the locked half of Get.
Get(c, ch) ==
    /\ pc[c] = "idle"
    /\ c \notin references[ch]
    /\ layerL = None
    /\ getWithoutLock(ch)
    /\ Go(c, "getting", ch)
    /\ UNCHANGED <<layerMap, parent, references, pins, layerL, panicked, diskVars>>

\* layer.getReference(), after layerL has been given up.
GetReference(c) ==
    /\ pc[c] = "getting"
    /\ references' = [references EXCEPT ![tgt[c]] = @ \cup {c}]
    /\ Go(c, "idle", None)
    /\ UNCHANGED <<layerMap, parent, referenceCount, pins, layerL, panicked,
                   diskVars>>

\* Register fails: the deferred function gives the parent back, if there is one.
Undo(c) ==
    IF parentOf[tgt[c]] = None THEN Go(c, "idle", None)
                               ELSE Go(c, "undoing", tgt[c])

\* Register retains the parent, and refuses a chain that is too deep.
Register(c, ch) ==
    /\ pc[c] = "idle"
    /\ c \notin references[ch]
    /\ \/ /\ parentOf[ch] = None
          /\ Go(c, "registering", ch)
          /\ UNCHANGED referenceCount
       \/ /\ parentOf[ch] # None
          /\ layerL = None
          /\ getWithoutLock(parentOf[ch])
          /\ Go(c, IF depth[parentOf[ch]] >= maxLayerDepth THEN "undoing"
                                                           ELSE "registering", ch)
    /\ UNCHANGED <<layerMap, parent, references, pins, layerL, panicked, diskVars>>

\* driver.Create, StartTransaction, applyTar and storeLayer, on names that
\* nobody else knows yet.
Prepare(c) ==
    /\ pc[c] = "registering"
    /\ Go(c, "committing", tgt[c]) \/ Undo(c)
    /\ UNCHANGED <<layerMap, parent, referenceCount, references, pins, layerL,
                   panicked, diskVars>>

\* Mutant: a chain that somebody else has registered meanwhile is replaced.
CommitLayer_Replace(c) ==
    /\ pc[c] = "committing"
    /\ layerL = None
    /\ layerMap' = layerMap \cup {tgt[c]}
    /\ parent' = [parent EXCEPT ![tgt[c]] = parentOf[tgt[c]]]
    /\ referenceCount' = [referenceCount EXCEPT ![tgt[c]] = 1]
    /\ references' = [references EXCEPT ![tgt[c]] = {c}]
    /\ metadata' = [metadata EXCEPT ![tgt[c]] = "whole"]
    /\ data' = data \cup {tgt[c]}
    /\ doomed' = doomed \ {tgt[c]}
    /\ Go(c, "idle", None)
    /\ UNCHANGED <<pins, layerL, panicked>>

\* Mutant: the error of Commit is not looked at.
CommitLayer_KeepGoing(c) ==
    /\ pc[c] = "committing"
    /\ layerL = None
    /\ \/ /\ getWithoutLock(tgt[c])
          /\ references' = [references EXCEPT ![tgt[c]] = @ \cup {c}]
          /\ Undo(c)
          /\ UNCHANGED <<layerMap, parent, diskVars>>
       \/ /\ tgt[c] \notin layerMap
          /\ metadata[tgt[c]] \in {"absent", "broken"}
          /\ layerMap' = layerMap \cup {tgt[c]}
          /\ parent' = [parent EXCEPT ![tgt[c]] = parentOf[tgt[c]]]
          /\ referenceCount' = [referenceCount EXCEPT ![tgt[c]] = 1]
          /\ references' = [references EXCEPT ![tgt[c]] = {c}]
          /\ metadata' = [metadata EXCEPT ![tgt[c]] = "whole"]
          /\ data' = data \cup {tgt[c]}
          /\ doomed' = doomed \ {tgt[c]}
          /\ Go(c, "idle", None)
       \/ /\ tgt[c] \notin layerMap
          /\ layerMap' = layerMap \cup {tgt[c]}
          /\ parent' = [parent EXCEPT ![tgt[c]] = parentOf[tgt[c]]]
          /\ referenceCount' = [referenceCount EXCEPT ![tgt[c]] = 1]
          /\ references' = [references EXCEPT ![tgt[c]] = {c}]
          /\ Go(c, "idle", None)
          /\ UNCHANGED diskVars
    /\ UNCHANGED <<pins, layerL, panicked>>

\* The last part of Register, under layerL: the chain exists, or it is committed
\* (the transaction directory is renamed, which needs the place to be free).
CommitLayer(c) ==
    /\ pc[c] = "committing"
    /\ layerL = None
    /\ \/ /\ getWithoutLock(tgt[c])
          /\ references' = [references EXCEPT ![tgt[c]] = @ \cup {c}]
          /\ Undo(c)
          /\ UNCHANGED <<layerMap, parent, diskVars>>
       \/ /\ tgt[c] \notin layerMap
          /\ metadata[tgt[c]] \in {"absent", "broken"}
          /\ layerMap' = layerMap \cup {tgt[c]}
          /\ parent' = [parent EXCEPT ![tgt[c]] = parentOf[tgt[c]]]
          /\ referenceCount' = [referenceCount EXCEPT ![tgt[c]] = 1]
          /\ references' = [references EXCEPT ![tgt[c]] = {c}]
          /\ metadata' = [metadata EXCEPT ![tgt[c]] = "whole"]
          /\ data' = data \cup {tgt[c]}
          /\ doomed' = doomed \ {tgt[c]}
          /\ Go(c, "idle", None)
       \/ /\ tgt[c] \notin layerMap
          /\ Undo(c)
          /\ UNCHANGED <<layerMap, parent, referenceCount, references, diskVars>>
    /\ UNCHANGED <<pins, layerL, panicked>>

-----------------------------------------------------------------------------
(* Release and releaseLayer.                                               *)

\* Take layerL and enter releaseLayer with chain ch.
EnterRelease(c, ch) ==
    /\ layerL = None
    /\ layerL' = c
    /\ Go(c, "releasing", ch)

\* releaseLayer returns, and the lock is given up.
LeaveRelease(c) ==
    /\ layerL' = None
    /\ Go(c, "idle", None)

\* The deferred ls.releaseLayer(p) of a Register that does not keep its parent.
ReleaseParent(c) ==
    /\ pc[c] = "undoing"
    /\ EnterRelease(c, parentOf[tgt[c]])
    /\ UNCHANGED <<layerMap, parent, referenceCount, references, pins, panicked,
                   diskVars>>

\* Release of a reference that the client holds.
Release(c, ch) ==
    /\ pc[c] = "idle"
    /\ c \in references[ch]
    /\ ch \in layerMap
    /\ references' = [references EXCEPT ![ch] = @ \ {c}]
    /\ EnterRelease(c, ch)
    /\ UNCHANGED <<layerMap, parent, referenceCount, pins, panicked, diskVars>>

\* driver.Remove of the graph driver: the data is gone, or an error with the
\* data there or not (devmapper drops the device before the mount point, which
\* may fail); the error ends the loop.
DriverRemove(c) ==
    \/ /\ data' = data \ {tgt[c]}
       /\ Go(c, "removing", tgt[c])
       /\ UNCHANGED layerL
    \/ /\ data' \in {data, data \ {tgt[c]}}
       /\ LeaveRelease(c)

\* Mutant: a layer goes with its last reference, whatever still counts on it.
releaseLayer_ByReference(c) ==
    /\ pc[c] = "releasing"
    /\ referenceCount' = [referenceCount EXCEPT ![tgt[c]] = IF @ = 0 THEN 0 ELSE @ - 1]
    /\ \/ /\ references[tgt[c]] # {}
          /\ LeaveRelease(c)
          /\ UNCHANGED <<data, panicked>>
       \/ /\ references[tgt[c]] = {}
          /\ data' = data \ {tgt[c]}
          /\ Go(c, "removing", tgt[c])
          /\ UNCHANGED <<layerL, panicked>>
    /\ doomed' = IF data' = data THEN doomed ELSE doomed \cup {tgt[c]}
    /\ UNCHANGED <<layerMap, parent, references, pins, metadata>>

\* One round of the loop up to driver.Remove: count down, and remove the driver
\* layer of a layer that is no longer used.
releaseLayer(c) ==
    /\ pc[c] = "releasing"
    /\ \/ /\ referenceCount[tgt[c]] = 0
          /\ panicked' = TRUE
          /\ UNCHANGED <<referenceCount, layerL, pc, tgt, data, doomed>>
       \/ /\ referenceCount[tgt[c]] > 0
          /\ referenceCount' = [referenceCount EXCEPT ![tgt[c]] = @ - 1]
          /\ \/ /\ referenceCount[tgt[c]] > 1
                /\ LeaveRelease(c)
                /\ UNCHANGED <<data, doomed, panicked>>
             \/ /\ referenceCount[tgt[c]] = 1
                /\ references[tgt[c]] # {}
                /\ panicked' = TRUE
                /\ UNCHANGED <<layerL, pc, tgt, data, doomed>>
             \/ /\ referenceCount[tgt[c]] = 1
                /\ references[tgt[c]] = {}
                /\ DriverRemove(c)
                /\ doomed' = doomed \cup {tgt[c]}
                /\ UNCHANGED panicked
    /\ UNCHANGED <<layerMap, parent, references, pins, metadata>>

\* The rest of the round: store.Remove, delete from the map, on to the parent.
removeMetadata(c) ==
    /\ pc[c] = "removing"
    /\ \/ /\ metadata' = [metadata EXCEPT ![tgt[c]] = "absent"]
          /\ layerMap' = layerMap \ {tgt[c]}
          /\ \/ parent[tgt[c]] = None /\ LeaveRelease(c)
             \/ /\ parent[tgt[c]] # None
                /\ Go(c, "releasing", parent[tgt[c]])
                /\ UNCHANGED layerL
       \/ /\ \E left \in Remains(tgt[c]) :
                metadata' = [metadata EXCEPT ![tgt[c]] = left]
          /\ LeaveRelease(c)
          /\ UNCHANGED layerMap
    /\ UNCHANGED <<parent, referenceCount, references, pins, panicked, data, doomed>>

-----------------------------------------------------------------------------
(* Crash and restart: NewStoreFromGraphDriver and loadLayer.               *)

\* The chains for which loadLayer succeeds, given what is on disk.
Loadable(meta) ==
    LET load[ch \in Chains] ==
            \/ meta[ch] = "noparent"
            \/ meta[ch] = "whole" /\ (parentOf[ch] = None \/ load[parentOf[ch]])
    IN  {ch \in Chains : load[ch]}

\* The parent that the metadata directory of ch gives.
LoadedParent(meta, ch) == IF meta[ch] = "whole" THEN parentOf[ch] ELSE None

\* Mutant: the children of a layer are not counted again.
Load_NoChildren(meta, mountPins) ==
    /\ layerMap' = Loadable(meta)
    /\ parent' = [ch \in Chains |-> LoadedParent(meta, ch)]
    /\ pins' = mountPins
    /\ referenceCount' = mountPins

\* The store as NewStoreFromGraphDriver builds it from the directories meta,
\* with mountPins counts from the mounts it has loaded.
Load(meta, mountPins) ==
    /\ layerMap' = Loadable(meta)
    /\ parent' = [ch \in Chains |-> LoadedParent(meta, ch)]
    /\ pins' = mountPins
    /\ referenceCount' =
          [ch \in Chains |->
              mountPins[ch] + Cardinality({k \in Loadable(meta) :
                                              LoadedParent(meta, k) = ch})]

\* What a crash leaves of the directories: RemoveAll may be half done.
CrashedMetadata ==
    {meta \in [Chains -> DirStates] :
        \A ch \in Chains :
            \/ meta[ch] = metadata[ch]
            \/ /\ \E c \in Clients : pc[c] = "removing" /\ tgt[c] = ch
               /\ meta[ch] \in Remains(ch) \cup {"absent"}}

\* References, locks and operations under way are lost with the process.
ForgetClients ==
    /\ references' = [ch \in Chains |-> {}]
    /\ layerL' = None
    /\ pc' = [c \in Clients |-> "idle"]
    /\ tgt' = [c \in Clients |-> None]
    /\ panicked' = FALSE
    /\ UNCHANGED <<data, doomed>>

\* The process dies and a new one loads the store.
Restart ==
    /\ \E meta \in CrashedMetadata :
          metadata' = meta /\ Load(meta, [ch \in Chains |-> 0])
    /\ ForgetClients

-----------------------------------------------------------------------------

LayerStep(c) == \/ \E ch \in Chains : Get(c, ch) \/ Register(c, ch) \/ Release(c, ch)
                \/ GetReference(c)
                \/ Prepare(c)
                \/ CommitLayer(c)
                \/ ReleaseParent(c)
                \/ releaseLayer(c)
                \/ removeMetadata(c)

LayerNext == \/ \E c \in Clients : LayerStep(c)
             \/ Restart

LayerSpec == LayerInit /\ [][LayerNext]_layerVars

-----------------------------------------------------------------------------
(* Properties.                                                             *)

\* Type invariant of the layer store.
LayerTypeOK ==
    /\ layerMap \subseteq Chains
    /\ parent \in [Chains -> Chains \cup {None}]
    /\ referenceCount \in [Chains -> Nat]
    /\ references \in [Chains -> SUBSET Clients]
    /\ pins \in [Chains -> Nat]
    /\ layerL \in Clients \cup {None}
    /\ pc \in [Clients -> PCs]
    /\ tgt \in [Clients -> Chains \cup {None}]
    /\ panicked \in BOOLEAN
    /\ metadata \in [Chains -> DirStates]
    /\ data \subseteq Chains
    /\ doomed \subseteq Chains

\* Layers of the map whose parent is ch.
ChildrenOf(ch) == {k \in layerMap : parent[k] = ch}

\* The chain of ch: itself and what it is built on.
Chain(ch) ==
    LET chain[k \in Chains] == {k} \cup IF parentOf[k] = None THEN {}
                                       ELSE chain[parentOf[k]]
    IN  chain[ch]

\* Clients in the middle of an operation that has counted a use of ch.
InFlight(ch) ==
    {c \in Clients :
        \/ pc[c] = "getting" /\ tgt[c] = ch
        \/ pc[c] \in {"registering", "committing", "undoing"} /\ parentOf[tgt[c]] = ch
        \/ pc[c] = "releasing" /\ tgt[c] = ch}

\* The assertions of releaseLayer ("layer not retained", "cannot delete
\* referenced layer") hold in every interleaving, with failures and restarts.
NoPanic == ~panicked

\* The count of a layer is the number of references, children, mounts and
\* operations under way that rely on it: nothing is leaked and nothing is
\* given back twice.
CountsExact ==
    \A ch \in layerMap :
        referenceCount[ch] = Cardinality(references[ch]) + Cardinality(ChildrenOf(ch))
                             + pins[ch] + Cardinality(InFlight(ch))

\* Whatever is in use stays: the data and the metadata of a layer are removed
\* only when nobody holds it, builds on it or is about to hold it.
OnlyUnusedRemoved ==
    [][\A ch \in Chains :
          \/ ch \in data /\ ch \notin data'
          \/ metadata[ch] # "absent" /\ metadata'[ch] # metadata[ch]
                                     /\ metadata'[ch] # "whole"
          => /\ references[ch] = {}
             /\ ChildrenOf(ch) = {}
             /\ pins[ch] = 0
             /\ \A c \in InFlight(ch) : pc[c] = "releasing"]_layerVars

\* A layer that a client holds is all there, in memory and on disk down to the
\* bottom of its chain, so that it can be read and a restart brings it back.
\* The exception is a chain of which a removal has failed or was cut short:
\* the layer stays in the map, or returns to it, without its data.
HeldIsWhole ==
    \A ch \in layerMap :
        references[ch] # {} =>
            \/ \E k \in Chain(ch) : k \in doomed
            \/ \A k \in Chain(ch) : /\ k \in layerMap \cap data
                                    /\ metadata[k] = "whole"
                                    /\ parent[k] = parentOf[k]
=============================================================================
