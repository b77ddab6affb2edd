-------------------------- MODULE MountStoreProofs --------------------------
(***************************************************************************)
(* Proofs about the layer store: the read-only layers of module LayerStore *)
(* and the writable layers of module MountStore, for every finite set of   *)
(* clients, chains and names and every depth limit.                        *)
(***************************************************************************)
EXTENDS MountStore, FiniteSetTheorems, TLAPS

-----------------------------------------------------------------------------
(* Read-only layers *)

\* The layers of the map are closed under parents, and nobody holds or counts on
\* a layer that is not in the map.
MapInv ==
    /\ \A ch \in Chains : parent[ch] \in {None, parentOf[ch]}
    /\ \A ch \in layerMap : parent[ch] # None => parent[ch] \in layerMap
    /\ \A ch \in Chains \ layerMap : references[ch] = {} /\ pins[ch] = 0

\* A client in the middle of an operation: who has layerL, which layer of the map
\* the operation counts on, and that a layer being removed is not used.
ClientInv(c) ==
    /\ pc[c] \in {"releasing", "removing"} <=> layerL = c
    /\ pc[c] \in {"idle", "elsewhere"} <=> tgt[c] = None
    /\ pc[c] \in {"getting", "releasing", "removing"} => tgt[c] \in layerMap
    /\ pc[c] \in {"registering", "committing", "undoing"} =>
          parentOf[tgt[c]] \in layerMap \cup {None}
    /\ pc[c] = "undoing" => parentOf[tgt[c]] # None
    /\ pc[c] \in {"getting", "registering", "committing"} => c \notin references[tgt[c]]
    /\ pc[c] = "removing" => referenceCount[tgt[c]] = 0 /\ tgt[c] \in doomed

\* A layer whose removal has not begun is whole on disk, or not there at all.
DiskInv ==
    /\ \A ch \in Chains \ doomed :
          \/ metadata[ch] = "whole" /\ ch \in data
          \/ metadata[ch] = "absent"
    /\ \A ch \in layerMap \ doomed : /\ metadata[ch] = "whole"
                                     /\ parent[ch] = parentOf[ch]

LayerInv ==
    /\ LayerTypeOK
    /\ MapInv
    /\ \A c \in Clients : ClientInv(c)
    /\ DiskInv
    /\ CountsExact
    /\ NoPanic
-----------------------------------------------------------------------------
(* The recursive functions of the model.  Each is the fixed point of an      *)
(* equation on the chains; that there is one is shown by giving it.          *)

\* loadLayer loads a chain whose directory has no parent file, and one with a
\* whole directory whose parent, if any, is loaded.
LEMMA LoadableDef ==
    ASSUME NEW meta, NEW ch \in Chains
    PROVE  ch \in Loadable(meta) <=>
              \/ meta[ch] = "noparent"
              \/ meta[ch] = "whole" /\ (parentOf[ch] = None \/ parentOf[ch] \in Loadable(meta))
<1> DEFINE F(S) == {k \in Chains : \/ meta[k] = "noparent"
                                   \/ meta[k] = "whole" /\ (parentOf[k] = None \/ parentOf[k] \in S)}
           G == UNION {S \in SUBSET Chains : S \subseteq F(S)}
           g == [k \in Chains |-> k \in G]
           IsLoad(f) == f = [k \in Chains |->
                               \/ meta[k] = "noparent"
                               \/ meta[k] = "whole" /\ (parentOf[k] = None \/ f[parentOf[k]])]
           load == CHOOSE f : IsLoad(f)
<1>1. G \subseteq F(G)
  BY Zenon
<1>2. F(G) \subseteq F(F(G))
  BY Zenon, <1>1
<1>3. F(G) \subseteq G
  BY Zenon, <1>2
<1>4. IsLoad(g)
  <2>1. ASSUME NEW k \in Chains
        PROVE  g[k] = (\/ meta[k] = "noparent"
                       \/ meta[k] = "whole" /\ (parentOf[k] = None \/ g[parentOf[k]]))
    <3>1. parentOf[k] # None => parentOf[k] \in Chains
      BY Zenon, ChainAssumption
    <3>2. parentOf[k] # None => (g[parentOf[k]] = (parentOf[k] \in G))
      BY Zenon, <3>1
    <3>3. (k \in G) <=> \/ meta[k] = "noparent"
                        \/ meta[k] = "whole" /\ (parentOf[k] = None \/ parentOf[k] \in G)
      BY Zenon, <1>1, <1>3
    <3>4. g[k] = (k \in G)
      BY Zenon
    <3> HIDE DEF g, G
    <3> DEFINE rhs == \/ meta[k] = "noparent"
                      \/ meta[k] = "whole" /\ (parentOf[k] = None \/ g[parentOf[k]])
    <3>5. rhs <=> k \in G
      BY Zenon, <3>2, <3>3
    <3>6. rhs \in BOOLEAN /\ (k \in G) \in BOOLEAN
      OBVIOUS
    <3> HIDE DEF rhs
    <3>7. g[k] = rhs
      BY Zenon, <3>4, <3>5, <3>6
    <3>8. QED
      BY Zenon, <3>7 DEF rhs
  <2>2. QED
    BY Zenon, <2>1
<1>5. IsLoad(load)
  BY Zenon, <1>4
<1>6. Loadable(meta) = {k \in Chains : load[k]}
  BY Zenon DEF Loadable
<1> HIDE DEF load
<1>7. load[ch] <=> \/ meta[ch] = "noparent"
                   \/ meta[ch] = "whole" /\ (parentOf[ch] = None \/ load[parentOf[ch]])
  BY Zenon, <1>5
<1>8. parentOf[ch] # None => (parentOf[ch] \in Loadable(meta) <=> load[parentOf[ch]])
  BY Zenon, <1>6, ChainAssumption
<1>9. QED
  BY Zenon, <1>6, <1>7, <1>8
\* The chain of a layer is the layer itself and the chain of its parent.
LEMMA ChainDef ==
    ASSUME NEW ch \in Chains
    PROVE  Chain(ch) = {ch} \cup IF parentOf[ch] = None THEN {} ELSE Chain(parentOf[ch])
<1> DEFINE Closed(S) == \A k \in S : parentOf[k] # None => parentOf[k] \in S
           C(k) == {j \in Chains : \A S \in SUBSET Chains : k \in S /\ Closed(S) => j \in S}
           g == [k \in Chains |-> C(k)]
           IsChain(f) == f = [k \in Chains |-> {k} \cup IF parentOf[k] = None THEN {}
                                                         ELSE f[parentOf[k]]]
           chain == CHOOSE f : IsChain(f)
<1>1. IsChain(g)
  <2>1. ASSUME NEW k \in Chains
        PROVE  C(k) = {k} \cup IF parentOf[k] = None THEN {} ELSE C(parentOf[k])
    <3>1. k \in C(k)
      BY Zenon
    <3>2. CASE parentOf[k] = None
      <4>1. Closed({k}) /\ {k} \in SUBSET Chains
        BY Zenon, <3>2
      <4>2. C(k) \subseteq {k}
        BY Zenon, <4>1
      <4>3. QED
        BY Zenon, <3>1, <3>2, <4>2
    <3>3. CASE parentOf[k] # None
      <4> DEFINE T == {k} \cup C(parentOf[k])
      <4>1. parentOf[k] \in Chains
        BY Zenon, <3>3, ChainAssumption
      <4>2. C(parentOf[k]) \subseteq C(k)
        BY Zenon, <3>3
      <4>3. Closed(C(parentOf[k]))
        BY Zenon, ChainAssumption
      <4>4. parentOf[k] \in C(parentOf[k])
        BY Zenon, <4>1
      <4>5. Closed(T) /\ T \in SUBSET Chains /\ k \in T
        BY Zenon, <4>3, <4>4
      <4>6. C(k) \subseteq T
        BY Zenon, <4>5
      <4>7. QED
        BY Zenon, <3>1, <3>3, <4>2, <4>6
    <3>4. QED
      BY Zenon, <3>2, <3>3
  <2>2. \A k \in Chains : parentOf[k] # None => g[parentOf[k]] = C(parentOf[k])
    BY Zenon, ChainAssumption
  <2> HIDE DEF C
  <2>3. QED
    BY Zenon, <2>1, <2>2
<1>2. IsChain(chain)
  BY Zenon, <1>1
<1>3. \A k \in Chains : Chain(k) = chain[k]
  BY Zenon DEF Chain
<1> HIDE DEF chain
<1>4. chain[ch] = {ch} \cup IF parentOf[ch] = None THEN {} ELSE chain[parentOf[ch]]
  BY Zenon, <1>2
<1>5. QED
  BY Zenon, <1>3, <1>4, ChainAssumption

\* A set of chains that contains the parent of each of its members outside D
\* contains the whole chain of a member, unless that chain meets D.
LEMMA ChainWithin ==
    ASSUME NEW S \in SUBSET Chains, NEW D,
           \A k \in S \ D : parentOf[k] # None => parentOf[k] \in S,
           NEW ch \in S, Chain(ch) \cap D = {}
    PROVE  Chain(ch) \subseteq S
<1> DEFINE B == {k \in S : Chain(k) \cap D = {} /\ ~(Chain(k) \subseteq S)}
<1>1. SUFFICES ASSUME B # {} PROVE FALSE
  BY Zenon
<1>2. PICK k \in B : parentOf[k] \notin B
  BY Zenon, <1>1, ChainAssumption
<1>3. Chain(k) = {k} \cup IF parentOf[k] = None THEN {} ELSE Chain(parentOf[k])
  BY Zenon, ChainDef
<1>4. k \notin D
  BY Zenon, <1>3
<1>5. CASE parentOf[k] = None
  BY Zenon, <1>3, <1>5
<1>6. CASE parentOf[k] # None
  <2>1. parentOf[k] \in S
    BY Zenon, <1>4, <1>6
  <2>2. Chain(parentOf[k]) \subseteq S
    BY Zenon, <1>2, <1>3, <1>6, <2>1
  <2>3. QED
    BY Zenon, <1>3, <1>6, <2>2
<1>7. QED
  BY Zenon, <1>5, <1>6

\* No layer is its own parent.
LEMMA ParentDiffers ==
    ASSUME NEW ch \in Chains
    PROVE  parentOf[ch] # ch
<1>1. {ch} \in SUBSET Chains
  BY Zenon
<1>2. QED
  BY Zenon, <1>1, ChainAssumption

-----------------------------------------------------------------------------
(* Counting.                                                               *)

\* Two sets that differ at most in x, and their sizes.
LEMMA CardChange ==
    ASSUME NEW A, NEW B, NEW x, IsFiniteSet(A), A \ {x} = B \ {x}
    PROVE  /\ IsFiniteSet(B)
           /\ Cardinality(A) \in Nat
           /\ Cardinality(B) \in Nat
           /\ (x \in A <=> x \in B) => A = B
           /\ x \notin A /\ x \in B => Cardinality(B) = Cardinality(A) + 1
           /\ x \in A /\ x \notin B => Cardinality(A) = Cardinality(B) + 1
<1>1. CASE x \in A <=> x \in B
  <2>1. A = B
    BY <1>1
  <2>2. QED
    BY Zenon, <2>1, FS_CardinalityType
<1>2. CASE x \notin A /\ x \in B
  <2>1. B = A \cup {x}
    BY Zenon, <1>2
  <2>2. QED
    BY Zenon, <1>2, <2>1, FS_AddElement, FS_CardinalityType
<1>3. CASE x \in A /\ x \notin B
  <2>1. B = A \ {x}
    BY Zenon, <1>3
  <2>2. IsFiniteSet(B) /\ A = B \cup {x}
    BY Zenon, <1>3, <2>1, FS_RemoveElement
  <2>3. QED
    BY Zenon, <1>3, <2>2, FS_AddElement, FS_CardinalityType
<1>4. QED
  BY Zenon, <1>1, <1>2, <1>3

\* The sets that the count of a layer adds up are finite.
LEMMA UsesFinite ==
    ASSUME LayerTypeOK, NEW ch \in Chains
    PROVE  /\ IsFiniteSet(references[ch]) /\ Cardinality(references[ch]) \in Nat
           /\ IsFiniteSet(ChildrenOf(ch)) /\ Cardinality(ChildrenOf(ch)) \in Nat
           /\ IsFiniteSet(InFlight(ch)) /\ Cardinality(InFlight(ch)) \in Nat
<1>1. /\ references[ch] \subseteq Clients
      /\ ChildrenOf(ch) \subseteq Chains
      /\ InFlight(ch) \subseteq Clients
  BY Zenon DEF LayerTypeOK, ChildrenOf, InFlight
<1>2. QED
  BY Zenon, <1>1, FiniteAssumption, FS_Subset, FS_CardinalityType

\* Nothing relies on a layer of the map whose count is 0.
LEMMA CountZero ==
    ASSUME LayerTypeOK, CountsExact, NEW ch \in layerMap, referenceCount[ch] = 0
    PROVE  /\ references[ch] = {}
           /\ ChildrenOf(ch) = {}
           /\ pins[ch] = 0
           /\ InFlight(ch) = {}
<1>1. ch \in Chains /\ pins[ch] \in Nat
  BY Zenon DEF LayerTypeOK
<1>2. /\ Cardinality(references[ch]) = 0
      /\ Cardinality(ChildrenOf(ch)) = 0
      /\ pins[ch] = 0
      /\ Cardinality(InFlight(ch)) = 0
  <2>1. 0 = Cardinality(references[ch]) + Cardinality(ChildrenOf(ch))
            + pins[ch] + Cardinality(InFlight(ch))
    BY Zenon DEF CountsExact
  <2>2. /\ Cardinality(references[ch]) \in Nat /\ Cardinality(ChildrenOf(ch)) \in Nat
        /\ Cardinality(InFlight(ch)) \in Nat
    BY Zenon, <1>1, UsesFinite
  <2> DEFINE i == Cardinality(references[ch])
             j == Cardinality(ChildrenOf(ch))
             k == pins[ch]
             l == Cardinality(InFlight(ch))
  <2>3. i \in Nat /\ j \in Nat /\ k \in Nat /\ l \in Nat /\ 0 = i + j + k + l
    BY Zenon, <1>1, <2>1, <2>2
  <2> HIDE DEF i, j, k, l
  <2>4. i = 0 /\ j = 0 /\ k = 0 /\ l = 0
    BY <2>3
  <2>5. QED
    BY Zenon, <2>4 DEF i, j, k, l
<1>3. QED
  BY Zenon, <1>1, <1>2, UsesFinite, FS_EmptySet

\* If the count is 1 and a client is about to give its use back, that client is
\* the last one.
LEMMA LastUse ==
    ASSUME LayerTypeOK, CountsExact, NEW ch \in layerMap, referenceCount[ch] = 1,
           NEW c \in InFlight(ch)
    PROVE  /\ references[ch] = {}
           /\ ChildrenOf(ch) = {}
           /\ pins[ch] = 0
           /\ InFlight(ch) = {c}
<1>1. ch \in Chains /\ pins[ch] \in Nat
  BY Zenon DEF LayerTypeOK
<1>2. Cardinality(InFlight(ch)) # 0
  BY Zenon, <1>1, UsesFinite, FS_EmptySet
<1>3. /\ Cardinality(references[ch]) = 0
      /\ Cardinality(ChildrenOf(ch)) = 0
      /\ pins[ch] = 0
      /\ Cardinality(InFlight(ch)) = 1
  BY <1>1, <1>2, UsesFinite DEF CountsExact
<1>4. PICK d : InFlight(ch) = {d}
  BY Zenon, <1>1, <1>3, UsesFinite, FS_Singleton
<1>5. QED
  BY Zenon, <1>1, <1>3, <1>4, UsesFinite, FS_EmptySet

\* A client in state s with chain t has counted a use of ch.
CountsOn(s, t, ch) ==
    \/ s = "getting" /\ t = ch
    \/ s \in {"registering", "committing", "undoing"} /\ parentOf[t] = ch
    \/ s = "releasing" /\ t = ch

One(b) == IF b THEN 1 ELSE 0

\* How the number of operations under way that rely on ch changes when client c
\* goes to state s with chain t.
LEMMA InFlightStep ==
    ASSUME LayerTypeOK, NEW c \in Clients, NEW s, NEW t, Go(c, s, t), NEW ch \in Chains
    PROVE  /\ c \in InFlight(ch) <=> CountsOn(pc[c], tgt[c], ch)
           /\ c \in InFlight(ch)' <=> CountsOn(s, t, ch)
           /\ InFlight(ch)' \ {c} = InFlight(ch) \ {c}
           /\ Cardinality(InFlight(ch)) \in Nat
           /\ Cardinality(InFlight(ch)') \in Nat
           /\ Cardinality(InFlight(ch)') + One(CountsOn(pc[c], tgt[c], ch))
                 = Cardinality(InFlight(ch)) + One(CountsOn(s, t, ch))
<1>1. pc'[c] = s /\ tgt'[c] = t
  BY Zenon DEF Go, LayerTypeOK
<1>2. \A d \in Clients \ {c} : pc'[d] = pc[d] /\ tgt'[d] = tgt[d]
  BY Zenon DEF Go, LayerTypeOK
<1>3. c \in InFlight(ch) <=> CountsOn(pc[c], tgt[c], ch)
  BY Zenon DEF InFlight, CountsOn
<1>4. c \in InFlight(ch)' <=> CountsOn(s, t, ch)
  BY Zenon, <1>1 DEF InFlight, CountsOn
<1>5. InFlight(ch)' \ {c} = InFlight(ch) \ {c}
  BY Zenon, <1>2 DEF InFlight
<1>6. IsFiniteSet(InFlight(ch))
  BY Zenon, UsesFinite
<1>7. /\ Cardinality(InFlight(ch)) \in Nat
      /\ Cardinality(InFlight(ch)') \in Nat
      /\ (c \in InFlight(ch) <=> c \in InFlight(ch)') => InFlight(ch) = InFlight(ch)'
      /\ c \notin InFlight(ch) /\ c \in InFlight(ch)' =>
            Cardinality(InFlight(ch)') = Cardinality(InFlight(ch)) + 1
      /\ c \in InFlight(ch) /\ c \notin InFlight(ch)' =>
            Cardinality(InFlight(ch)) = Cardinality(InFlight(ch)') + 1
  BY <1>5, <1>6, CardChange
<1>8. QED
  BY <1>3, <1>4, <1>5, <1>7 DEF One

-----------------------------------------------------------------------------
(* Steps of one client.                                                    *)

\* What client c adds to the count of ch and takes from it in a step to state s
\* with chain t is what its references, its operation and the mounts rely on.
Balanced(c, s, t, ch) ==
    referenceCount'[ch] + One(c \in references[ch])
        + One(CountsOn(pc[c], tgt[c], ch)) + pins[ch]
    = referenceCount[ch] + One(c \in references'[ch])
        + One(CountsOn(s, t, ch)) + pins'[ch]

\* A step of client c that leaves the map alone, changes no other client's
\* references, and counts under layerL.
KeepsMap(c, s, t) ==
    /\ Go(c, s, t)
    /\ UNCHANGED <<layerMap, parent, panicked>>
    /\ \A d \in Clients \ {c} : layerL' = d <=> layerL = d
    /\ referenceCount' = referenceCount \/ layerL \in {None, c}
    /\ doomed \subseteq doomed'
    /\ \A ch \in Chains : references'[ch] \ {c} = references[ch] \ {c}
    /\ \A ch \in Chains \ layerMap : references'[ch] = {} /\ pins'[ch] = 0
    /\ \A ch \in layerMap : Balanced(c, s, t, ch)

\* Such a step keeps the counts exact and what is said of the other clients.
LEMMA SameMap ==
    ASSUME LayerInv, LayerTypeOK', NEW c \in Clients, NEW s, NEW t, KeepsMap(c, s, t)
    PROVE  /\ MapInv'
           /\ \A d \in Clients \ {c} : ClientInv(d)'
           /\ CountsExact'
           /\ NoPanic'
<1>1. MapInv'
  BY Zenon DEF LayerInv, MapInv, KeepsMap
<1>2. NoPanic'
  BY Zenon DEF LayerInv, NoPanic, KeepsMap
<1>3. ASSUME NEW d \in Clients \ {c}
      PROVE  ClientInv(d)'
  <2>1. ClientInv(d)
    BY Zenon DEF LayerInv
  <2>2. pc'[d] = pc[d] /\ tgt'[d] = tgt[d] /\ layerMap' = layerMap
    BY Zenon DEF KeepsMap, Go, LayerInv, LayerTypeOK
  <2>3. layerL' = d <=> layerL = d
    BY Zenon DEF KeepsMap
  <2>4. \A ch \in Chains : d \in references'[ch] <=> d \in references[ch]
    BY Zenon DEF KeepsMap
  <2>5. pc[d] = "removing" => referenceCount'[tgt[d]] = referenceCount[tgt[d]]
    BY <2>1, ChainAssumption DEF KeepsMap, ClientInv
  <2>6. doomed \subseteq doomed'
    BY Zenon DEF KeepsMap
  <2>7. pc[d] \notin {"idle", "elsewhere"} => tgt[d] \in Chains
    BY <2>1 DEF ClientInv, LayerInv, LayerTypeOK
  <2>8. QED
    BY Zenon, <2>1, <2>2, <2>3, <2>4, <2>5, <2>6, <2>7 DEF ClientInv
<1>4. CountsExact'
  <2>1. SUFFICES ASSUME NEW ch \in layerMap
                 PROVE  referenceCount'[ch] = Cardinality(references'[ch])
                          + Cardinality(ChildrenOf(ch)') + pins'[ch]
                          + Cardinality(InFlight(ch)')
    BY Zenon DEF CountsExact, KeepsMap
  <2>2. ch \in Chains
    BY Zenon DEF LayerInv, LayerTypeOK
  <2>3. ChildrenOf(ch)' = ChildrenOf(ch)
    BY Zenon DEF ChildrenOf, KeepsMap
  <2>4. /\ Cardinality(references[ch]) \in Nat
        /\ Cardinality(ChildrenOf(ch)) \in Nat
    BY Zenon, <2>2, UsesFinite DEF LayerInv
  <2>5. /\ Cardinality(references'[ch]) \in Nat
        /\ Cardinality(references'[ch]) + One(c \in references[ch])
              = Cardinality(references[ch]) + One(c \in references'[ch])
    <3>1. references[ch] \ {c} = references'[ch] \ {c}
      BY Zenon, <2>2 DEF KeepsMap
    <3>2. IsFiniteSet(references[ch])
      BY Zenon, <2>2, UsesFinite DEF LayerInv
    <3> DEFINE A == references[ch]
               B == references'[ch]
    <3>3. A \ {c} = B \ {c} /\ IsFiniteSet(A)
      BY Zenon, <3>1, <3>2
    <3> HIDE DEF A, B
    <3>4. /\ Cardinality(B) \in Nat
          /\ Cardinality(B) + One(c \in A) = Cardinality(A) + One(c \in B)
      BY <3>3, CardChange DEF One
    <3>5. QED
      BY Zenon, <3>4 DEF A, B
  <2>6. /\ Cardinality(InFlight(ch)) \in Nat
        /\ Cardinality(InFlight(ch)') \in Nat
        /\ Cardinality(InFlight(ch)') + One(CountsOn(pc[c], tgt[c], ch))
              = Cardinality(InFlight(ch)) + One(CountsOn(s, t, ch))
    BY Zenon, <2>2, InFlightStep DEF LayerInv, KeepsMap
  <2>7. Balanced(c, s, t, ch)
    BY Zenon DEF KeepsMap
  <2>8. /\ referenceCount[ch] \in Nat /\ referenceCount'[ch] \in Nat
        /\ pins[ch] \in Nat /\ pins'[ch] \in Nat
    BY Zenon, <2>2 DEF LayerInv, LayerTypeOK
  <2>9. referenceCount[ch] = Cardinality(references[ch]) + Cardinality(ChildrenOf(ch))
                             + pins[ch] + Cardinality(InFlight(ch))
    BY Zenon DEF LayerInv, CountsExact
  <2>10. \A b : One(b) \in {0, 1}
    BY Zenon DEF One
  <2>11. QED
    BY <2>3, <2>4, <2>5, <2>6, <2>7, <2>8, <2>9, <2>10 DEF Balanced
<1>5. QED
  BY Zenon, <1>1, <1>2, <1>3, <1>4

\* Nothing changes on disk when the map and the directories stay.
LEMMA SameDisk ==
    ASSUME LayerInv, UNCHANGED <<layerMap, parent, diskVars>>
    PROVE  DiskInv'
BY Zenon DEF LayerInv, DiskInv, diskVars

\* Get counts under layerL.
LEMMA GetInv ==
    ASSUME LayerInv, NEW c \in Clients, NEW ch \in Chains, Get(c, ch)
    PROVE  LayerInv'
<1> USE DEF Get, getWithoutLock
<1>1. LayerTypeOK'
  BY DEF LayerInv, LayerTypeOK, Go, PCs, diskVars
<1>2. KeepsMap(c, "getting", ch)
  <2>1. ASSUME NEW k \in layerMap
        PROVE  Balanced(c, "getting", ch, k)
    BY DEF LayerInv, LayerTypeOK, Balanced, CountsOn, One
  <2>2. QED
    BY Zenon, <2>1 DEF LayerInv, MapInv, KeepsMap, diskVars
<1>3. ClientInv(c)'
  BY ChainAssumption DEF LayerInv, LayerTypeOK, ClientInv, Go
<1>4. DiskInv'
  BY Zenon, SameDisk
<1>5. QED
  BY Zenon, <1>1, <1>2, <1>3, <1>4, SameMap DEF LayerInv

\* getReference turns the use that Get has counted into a reference.
LEMMA GetReferenceInv ==
    ASSUME LayerInv, NEW c \in Clients, GetReference(c)
    PROVE  LayerInv'
<1> USE DEF GetReference
<1>0. /\ tgt[c] \in layerMap /\ tgt[c] \in Chains
      /\ c \notin references[tgt[c]]
      /\ layerL # c
  BY Zenon DEF LayerInv, LayerTypeOK, ClientInv
<1>1. LayerTypeOK'
  BY Zenon, <1>0 DEF LayerInv, LayerTypeOK, Go, PCs, diskVars
<1>2. KeepsMap(c, "idle", None)
  <2>1. ASSUME NEW k \in layerMap
        PROVE  Balanced(c, "idle", None, k)
    BY <1>0 DEF LayerInv, LayerTypeOK, Balanced, CountsOn, One
  <2>2. QED
    BY Zenon, <1>0, <2>1 DEF LayerInv, LayerTypeOK, MapInv, KeepsMap, diskVars
<1>3. ClientInv(c)'
  BY Zenon, <1>0 DEF LayerInv, LayerTypeOK, ClientInv, Go
<1>4. DiskInv'
  BY Zenon, SameDisk
<1>5. QED
  BY Zenon, <1>1, <1>2, <1>3, <1>4, SameMap DEF LayerInv

\* Register counts the parent under layerL, whether or not it goes on.
LEMMA RegisterInv ==
    ASSUME LayerInv, NEW c \in Clients, NEW ch \in Chains, Register(c, ch)
    PROVE  LayerInv'
<1>0. PICK s \in {"registering", "undoing"} :
         /\ Go(c, s, ch)
         /\ s = "undoing" => parentOf[ch] # None
         /\ IF parentOf[ch] = None THEN UNCHANGED referenceCount
            ELSE layerL = None /\ getWithoutLock(parentOf[ch])
  BY Zenon DEF Register
<1>a. /\ pc[c] = "idle"
      /\ c \notin references[ch]
      /\ UNCHANGED <<layerMap, parent, references, pins, layerL, panicked, diskVars>>
  BY Zenon DEF Register
<1>b. parentOf[ch] \in Chains \cup {None} /\ None \notin Chains /\ None \notin Clients
  BY Zenon, ChainAssumption
<1> USE DEF getWithoutLock
<1>1. LayerTypeOK'
  BY <1>0, <1>a DEF LayerInv, LayerTypeOK, Go, PCs, diskVars
<1>2. KeepsMap(c, s, ch)
  <2>1. ASSUME NEW k \in layerMap
        PROVE  Balanced(c, s, ch, k)
    BY <1>0, <1>a, <1>b DEF LayerInv, LayerTypeOK, Balanced, CountsOn, One
  <2>2. QED
    BY Zenon, <1>0, <1>a, <2>1 DEF LayerInv, MapInv, KeepsMap, diskVars
<1>3. ClientInv(c)'
  BY <1>0, <1>a, <1>b DEF LayerInv, LayerTypeOK, ClientInv, Go
<1>4. DiskInv'
  BY Zenon, <1>a, SameDisk
<1>5. QED
  BY Zenon, <1>1, <1>2, <1>3, <1>4, SameMap DEF LayerInv

\* A failing Register keeps the use of its parent until ReleaseParent.
LEMMA UndoState ==
    ASSUME LayerInv, NEW c \in Clients, pc[c] \in {"registering", "committing"}, Undo(c)
    PROVE  /\ tgt[c] \in Chains
           /\ \E s \in {"idle", "undoing"}, t \in Chains \cup {None} :
                 /\ Go(c, s, t)
                 /\ s = "idle" => t = None /\ parentOf[tgt[c]] = None
                 /\ s = "undoing" => t = tgt[c] /\ parentOf[tgt[c]] # None
<1>1. tgt[c] \in Chains
  BY DEF LayerInv, LayerTypeOK, ClientInv
<1>2. QED
  BY Zenon, <1>1 DEF Undo

\* Applying the archive fails or leads to the commit.
LEMMA PrepareInv ==
    ASSUME LayerInv, NEW c \in Clients, Prepare(c)
    PROVE  LayerInv'
<1>0. /\ pc[c] = "registering" /\ tgt[c] \in Chains
      /\ layerL # c
      /\ c \notin references[tgt[c]]
      /\ parentOf[tgt[c]] \in layerMap \cup {None}
      /\ UNCHANGED <<layerMap, parent, referenceCount, references, pins, layerL,
                     panicked, diskVars>>
  BY Zenon DEF LayerInv, LayerTypeOK, ClientInv, Prepare
<1>a. PICK s \in {"idle", "undoing", "committing"}, t \in Chains \cup {None} :
         /\ Go(c, s, t)
         /\ s = "idle" => t = None /\ parentOf[tgt[c]] = None
         /\ s # "idle" => t = tgt[c]
         /\ s = "undoing" => parentOf[tgt[c]] # None
  BY Zenon, <1>0, UndoState DEF Prepare
<1>b. None \notin Chains
  BY Zenon, ChainAssumption
<1>1. LayerTypeOK'
  BY Zenon, <1>0, <1>a DEF LayerInv, LayerTypeOK, Go, PCs, diskVars
<1>2. KeepsMap(c, s, t)
  <2>1. ASSUME NEW k \in layerMap
        PROVE  Balanced(c, s, t, k)
    BY Zenon, <1>0, <1>a, <1>b DEF LayerInv, LayerTypeOK, Balanced, CountsOn, One
  <2>2. QED
    BY Zenon, <1>0, <1>a, <2>1 DEF LayerInv, MapInv, KeepsMap, diskVars
<1>3. ClientInv(c)'
  BY Zenon, <1>0, <1>a, <1>b DEF LayerInv, LayerTypeOK, ClientInv, Go
<1>4. DiskInv'
  BY Zenon, <1>0, SameDisk
<1>5. QED
  BY Zenon, <1>1, <1>2, <1>3, <1>4, SameMap DEF LayerInv

\* ReleaseParent takes layerL; the use of the parent is now the loop's.
LEMMA ReleaseParentInv ==
    ASSUME LayerInv, NEW c \in Clients, ReleaseParent(c)
    PROVE  LayerInv'
<1>0. /\ tgt[c] \in Chains
      /\ parentOf[tgt[c]] \in layerMap
      /\ parentOf[tgt[c]] \in Chains
      /\ None \notin Chains /\ None \notin Clients
  BY ChainAssumption DEF LayerInv, LayerTypeOK, ClientInv, ReleaseParent
<1> DEFINE p == parentOf[tgt[c]]
<1>a. /\ pc[c] = "undoing" /\ layerL = None /\ layerL' = c
      /\ Go(c, "releasing", p)
      /\ UNCHANGED <<layerMap, parent, referenceCount, references, pins, panicked,
                     diskVars>>
  BY Zenon DEF ReleaseParent, EnterRelease
<1>b. p \in layerMap /\ p \in Chains
  BY Zenon, <1>0
<1>1. LayerTypeOK'
  BY Zenon, <1>a, <1>b DEF LayerInv, LayerTypeOK, Go, PCs, diskVars
<1>2. KeepsMap(c, "releasing", p)
  <2>1. ASSUME NEW k \in layerMap
        PROVE  Balanced(c, "releasing", p, k)
    BY Zenon, <1>0, <1>a DEF LayerInv, LayerTypeOK, Balanced, CountsOn, One
  <2>2. QED
    BY Zenon, <1>0, <1>a, <2>1 DEF LayerInv, MapInv, KeepsMap, diskVars
<1>3. ClientInv(c)'
  BY <1>0, <1>a DEF LayerInv, LayerTypeOK, ClientInv, Go
<1>4. DiskInv'
  BY Zenon, <1>a, SameDisk
<1>5. QED
  BY Zenon, <1>1, <1>2, <1>3, <1>4, SameMap DEF LayerInv

\* Release turns a reference into a use by the loop.
LEMMA ReleaseInv ==
    ASSUME LayerInv, NEW c \in Clients, NEW ch \in Chains, Release(c, ch)
    PROVE  LayerInv'
<1> USE DEF Release, EnterRelease
<1>1. LayerTypeOK'
  BY Zenon DEF LayerInv, LayerTypeOK, Go, PCs, diskVars
<1>2. KeepsMap(c, "releasing", ch)
  <2>1. ASSUME NEW k \in layerMap
        PROVE  Balanced(c, "releasing", ch, k)
    BY SMTT(30) DEF LayerInv, LayerTypeOK, Balanced, CountsOn, One
  <2>2. QED
    BY <2>1, ChainAssumption DEF LayerInv, LayerTypeOK, MapInv, KeepsMap, diskVars
<1>3. ClientInv(c)'
  BY ChainAssumption DEF LayerInv, LayerTypeOK, ClientInv, Go
<1>4. DiskInv'
  BY Zenon, SameDisk
<1>5. QED
  BY Zenon, <1>1, <1>2, <1>3, <1>4, SameMap DEF LayerInv

\* The assertions of releaseLayer: the layer is still retained, and a count that
\* is about to reach 0 leaves no reference.
LEMMA ReleasingRetained ==
    ASSUME LayerInv, NEW c \in Clients, pc[c] = "releasing"
    PROVE  /\ tgt[c] \in layerMap /\ tgt[c] \in Chains
           /\ c \in InFlight(tgt[c])
           /\ layerL = c
           /\ referenceCount[tgt[c]] \in Nat \ {0}
           /\ referenceCount[tgt[c]] = 1 => references[tgt[c]] = {}
<1>1. tgt[c] \in layerMap /\ tgt[c] \in Chains /\ layerL = c
  BY Zenon DEF LayerInv, LayerTypeOK, ClientInv
<1>2. c \in InFlight(tgt[c])
  BY Zenon DEF InFlight
<1>3. referenceCount[tgt[c]] \in Nat
  BY Zenon, <1>1 DEF LayerInv, LayerTypeOK
<1>4. LayerTypeOK /\ CountsExact
  BY Zenon DEF LayerInv
<1>5. referenceCount[tgt[c]] # 0
  BY Zenon, <1>1, <1>2, <1>4, CountZero
<1>6. QED
  BY Zenon, <1>1, <1>2, <1>3, <1>4, <1>5, LastUse

\* A round of the loop gives one use back.
LEMMA releaseLayerInv ==
    ASSUME LayerInv, NEW c \in Clients, releaseLayer(c)
    PROVE  LayerInv'
<1> DEFINE ch == tgt[c]
<1>0. /\ pc[c] = "releasing" /\ layerL = c
      /\ ch \in layerMap /\ ch \in Chains
      /\ referenceCount[ch] \in Nat \ {0}
      /\ referenceCount[ch] = 1 => references[ch] = {}
  BY Zenon, ReleasingRetained DEF releaseLayer
<1>a. /\ referenceCount' = [referenceCount EXCEPT ![ch] = @ - 1]
      /\ UNCHANGED <<layerMap, parent, references, pins, metadata, panicked>>
  BY Zenon, <1>0 DEF releaseLayer
<1>b. PICK s \in {"idle", "removing"}, t \in {None, ch} :
         /\ Go(c, s, t)
         /\ s = "idle" => t = None /\ layerL' = None
         /\ s = "removing" => /\ t = ch /\ layerL' = c
                              /\ referenceCount[ch] = 1 /\ ch \in doomed'
  BY Zenon, <1>0 DEF releaseLayer, DriverRemove, LeaveRelease
<1>c. \/ data' = data /\ doomed' = doomed
      \/ data' \in {data, data \ {ch}} /\ doomed' = doomed \cup {ch}
  BY Zenon, <1>0 DEF releaseLayer, DriverRemove
<1>d. None \notin Chains /\ None \notin Clients
  BY Zenon, ChainAssumption
<1> HIDE DEF ch
<1>1. LayerTypeOK'
  <2>1. referenceCount' \in [Chains -> Nat]
    BY <1>0, <1>a DEF LayerInv, LayerTypeOK
  <2>2. pc' \in [Clients -> PCs] /\ tgt' \in [Clients -> Chains \cup {None}]
        /\ layerL' \in Clients \cup {None}
    BY Zenon, <1>0, <1>b DEF LayerInv, LayerTypeOK, Go, PCs
  <2>3. data' \subseteq Chains /\ doomed' \subseteq Chains
    BY Zenon, <1>0, <1>c DEF LayerInv, LayerTypeOK
  <2>4. QED
    BY Zenon, <1>a, <2>1, <2>2, <2>3 DEF LayerInv, LayerTypeOK
<1>2. KeepsMap(c, s, t)
  <2>1. ASSUME NEW k \in layerMap
        PROVE  Balanced(c, s, t, k)
    BY SMTT(30), <1>0, <1>a, <1>b DEF LayerInv, LayerTypeOK, Balanced, CountsOn, One, ch
  <2>2. QED
    BY Zenon, <1>0, <1>a, <1>b, <1>c, <1>d, <2>1 DEF LayerInv, LayerTypeOK, MapInv, KeepsMap
<1>3. ClientInv(c)'
  BY SMTT(30), <1>0, <1>a, <1>b, <1>d DEF LayerInv, LayerTypeOK, ClientInv, Go
<1>4. DiskInv'
  BY Zenon, <1>a, <1>c DEF LayerInv, DiskInv
<1>5. QED
  BY Zenon, <1>1, <1>2, <1>3, <1>4, SameMap DEF LayerInv

\* What is left of a directory is a directory.
LEMMA RemainsType ==
    ASSUME LayerTypeOK, NEW ch \in Chains
    PROVE  Remains(ch) \subseteq DirStates
BY Zenon DEF LayerTypeOK, Remains, DirStates

\* A layer that is being removed is not used.
LEMMA RemovingUnused ==
    ASSUME LayerInv, NEW c \in Clients, pc[c] = "removing"
    PROVE  /\ tgt[c] \in layerMap /\ tgt[c] \in Chains
           /\ layerL = c
           /\ tgt[c] \in doomed
           /\ referenceCount[tgt[c]] = 0
           /\ references[tgt[c]] = {}
           /\ ChildrenOf(tgt[c]) = {}
           /\ pins[tgt[c]] = 0
           /\ InFlight(tgt[c]) = {}
<1>1. /\ tgt[c] \in layerMap /\ tgt[c] \in Chains /\ layerL = c
      /\ tgt[c] \in doomed /\ referenceCount[tgt[c]] = 0
  BY Zenon DEF LayerInv, LayerTypeOK, ClientInv
<1>2. LayerTypeOK /\ CountsExact
  BY Zenon DEF LayerInv
<1>3. QED
  BY Zenon, <1>1, <1>2, CountZero

\* The layer leaves the map, and its use of the parent becomes the loop's; or the
\* removal of the directory fails.
LEMMA removeMetadataInv ==
    ASSUME LayerInv, NEW c \in Clients, removeMetadata(c)
    PROVE  LayerInv'
<1> DEFINE ch == tgt[c]
<1>0. /\ pc[c] = "removing" /\ layerL = c
      /\ ch \in layerMap /\ ch \in Chains /\ ch \in doomed
      /\ references[ch] = {}
      /\ ChildrenOf(ch) = {}
      /\ pins[ch] = 0
      /\ InFlight(ch) = {}
  BY Zenon, RemovingUnused DEF removeMetadata
<1>a. UNCHANGED <<parent, referenceCount, references, pins, panicked, data, doomed>>
  BY Zenon DEF removeMetadata
<1>b. None \notin Chains /\ None \notin Clients
  BY Zenon, ChainAssumption
<1>c. \A d \in Clients \ {c} : pc'[d] = pc[d] /\ tgt'[d] = tgt[d]
  BY DEF LayerInv, LayerTypeOK, removeMetadata, LeaveRelease, Go
<1>1. CASE /\ metadata' = [metadata EXCEPT ![ch] = "absent"]
           /\ layerMap' = layerMap \ {ch}
           /\ \/ parent[ch] = None /\ LeaveRelease(c)
              \/ /\ parent[ch] # None
                 /\ Go(c, "releasing", parent[ch])
                 /\ UNCHANGED layerL
  <2>0. parent[ch] # None => parent[ch] \in layerMap \ {ch} /\ parent[ch] \in Chains
    BY Zenon, <1>0, ParentDiffers DEF LayerInv, LayerTypeOK, MapInv
  <2>1. PICK s \in {"idle", "releasing"} :
           /\ s = "idle" => parent[ch] = None /\ layerL' = None
           /\ s = "releasing" => parent[ch] # None /\ layerL' = c
           /\ Go(c, s, parent[ch])
    BY Zenon, <1>0, <1>1 DEF LeaveRelease
  <2>2. LayerTypeOK'
    BY Zenon, <1>0, <1>1, <1>a, <2>0, <2>1 DEF LayerInv, LayerTypeOK, Go, PCs, DirStates
  <2>3. MapInv'
    BY Zenon, <1>0, <1>1, <1>a DEF LayerInv, LayerTypeOK, MapInv, ChildrenOf
  <2>4. ClientInv(c)'
    BY SMTT(30), <1>0, <1>1, <1>b, <2>0, <2>1 DEF LayerInv, LayerTypeOK, ClientInv, Go
  <2>5. ASSUME NEW d \in Clients \ {c}
        PROVE  ClientInv(d)'
    <3>1. ClientInv(d) /\ pc'[d] = pc[d] /\ tgt'[d] = tgt[d] /\ pc[d] # "removing"
      BY Zenon, <1>0, <1>c DEF LayerInv, ClientInv
    <3>2. layerL' # d /\ layerL # d
      BY Zenon, <1>0, <1>b, <2>1
    <3>3. d \notin InFlight(ch)
      BY Zenon, <1>0
    <3>4. QED
      BY Zenon, <1>1, <1>a, <3>1, <3>2, <3>3 DEF ClientInv, InFlight
  <2>6. DiskInv'
    BY Zenon, <1>0, <1>1, <1>a DEF LayerInv, LayerTypeOK, DiskInv
  <2>7. CountsExact'
    <3>1. SUFFICES ASSUME NEW k \in layerMap \ {ch}
                   PROVE  referenceCount[k] = Cardinality(references[k])
                            + Cardinality(ChildrenOf(k)') + pins[k]
                            + Cardinality(InFlight(k)')
      BY Zenon, <1>1, <1>a DEF CountsExact
    <3>2. k \in Chains /\ pins[k] \in Nat
      BY Zenon DEF LayerInv, LayerTypeOK
    <3>3. ch \notin ChildrenOf(k)' /\ (ch \in ChildrenOf(k) <=> parent[ch] = k)
      BY Zenon, <1>0, <1>1, <1>a DEF ChildrenOf
    <3>4. ChildrenOf(k)' \ {ch} = ChildrenOf(k) \ {ch}
      BY Zenon, <1>1, <1>a DEF ChildrenOf
    <3>5. /\ Cardinality(references[k]) \in Nat
          /\ Cardinality(ChildrenOf(k)) \in Nat
          /\ Cardinality(ChildrenOf(k)') \in Nat
          /\ Cardinality(ChildrenOf(k)) = Cardinality(ChildrenOf(k)')
                                          + One(parent[ch] = k)
      BY <3>2, <3>3, <3>4, UsesFinite, CardChange DEF LayerInv, One
    <3>6. /\ Cardinality(InFlight(k)) \in Nat
          /\ Cardinality(InFlight(k)') \in Nat
          /\ Cardinality(InFlight(k)') + One(CountsOn(pc[c], tgt[c], k))
                = Cardinality(InFlight(k)) + One(CountsOn(s, parent[ch], k))
      BY Zenon, <2>1, <3>2, InFlightStep DEF LayerInv
    <3>7. ~ CountsOn(pc[c], tgt[c], k) /\ (CountsOn(s, parent[ch], k) <=> parent[ch] = k)
      BY Zenon, <1>0, <1>b, <2>1, <3>2 DEF CountsOn
    <3>8. Cardinality(InFlight(k)') = Cardinality(InFlight(k)) + One(parent[ch] = k)
      BY SMTT(30), <3>6, <3>7 DEF One
    <3>9. referenceCount[k] = Cardinality(references[k]) + Cardinality(ChildrenOf(k))
                              + pins[k] + Cardinality(InFlight(k))
      BY Zenon DEF LayerInv, CountsExact
    <3>10. One(parent[ch] = k) \in {0, 1}
      BY Zenon DEF One
    <3>11. QED
      BY <3>2, <3>5, <3>6, <3>8, <3>9, <3>10
  <2>8. NoPanic'
    BY Zenon, <1>a DEF LayerInv, NoPanic
  <2>9. QED
    BY Zenon, <2>2, <2>3, <2>4, <2>5, <2>6, <2>7, <2>8 DEF LayerInv
<1>2. CASE /\ \E left \in Remains(ch) : metadata' = [metadata EXCEPT ![ch] = left]
           /\ LeaveRelease(c)
           /\ UNCHANGED layerMap
  <2>1. LayerTypeOK'
    <3>1. metadata' \in [Chains -> DirStates]
      BY <1>0, <1>2, RemainsType DEF LayerInv, LayerTypeOK
    <3>2. QED
      BY Zenon, <1>2, <1>a, <3>1 DEF LayerInv, LayerTypeOK, LeaveRelease, Go, PCs
  <2>2. KeepsMap(c, "idle", None)
    <3>1. ASSUME NEW k \in layerMap
          PROVE  Balanced(c, "idle", None, k)
      BY Zenon, <1>0, <1>a DEF Balanced, CountsOn, One
    <3>2. QED
      BY Zenon, <1>0, <1>2, <1>a, <1>b, <3>1 DEF LayerInv, MapInv, KeepsMap, LeaveRelease
  <2>3. ClientInv(c)'
    BY SMTT(30), <1>2, <1>b DEF LayerInv, LayerTypeOK, ClientInv, Go, LeaveRelease
  <2>4. DiskInv'
    BY SMTT(30), <1>0, <1>2, <1>a DEF LayerInv, LayerTypeOK, DiskInv
  <2>5. QED
    BY Zenon, <2>1, <2>2, <2>3, <2>4, SameMap DEF LayerInv
<1>3. QED
  BY Zenon, <1>1, <1>2 DEF removeMetadata

\* The chain has been registered meanwhile, is committed, or fails to be.
LEMMA CommitLayerInv ==
    ASSUME LayerInv, NEW c \in Clients, CommitLayer(c)
    PROVE  LayerInv'
<1>0. PICK ch \in Chains :
         /\ pc[c] = "committing" /\ layerL = None /\ tgt[c] = ch
         /\ c \notin references[ch]
         /\ parentOf[ch] \in layerMap \cup {None}
  BY SMTT(30) DEF LayerInv, LayerTypeOK, ClientInv, CommitLayer
<1>a. UNCHANGED <<pins, layerL, panicked>>
  BY Zenon DEF CommitLayer
<1>b. None \notin Chains /\ None \notin Clients
  BY Zenon, ChainAssumption
<1>1. CASE /\ \/ /\ getWithoutLock(ch)
                 /\ references' = [references EXCEPT ![ch] = @ \cup {c}]
              \/ UNCHANGED <<referenceCount, references>>
           /\ Undo(c)
           /\ UNCHANGED <<layerMap, parent, diskVars>>
  <2>1. PICK s \in {"idle", "undoing"}, t \in Chains \cup {None} :
           /\ Go(c, s, t)
           /\ s = "idle" => t = None /\ parentOf[ch] = None
           /\ s = "undoing" => t = ch /\ parentOf[ch] # None
    BY Zenon, <1>0, <1>1, UndoState
  <2>2. LayerTypeOK'
    BY SMTT(30), <1>0, <1>1, <1>a, <2>1 DEF LayerInv, LayerTypeOK, getWithoutLock, Go, PCs, diskVars
  <2>3. KeepsMap(c, s, t)
    <3>1. ASSUME NEW k \in layerMap
          PROVE  Balanced(c, s, t, k)
      BY SMTT(30), <1>0, <1>1, <1>a, <1>b, <2>1
         DEF LayerInv, LayerTypeOK, Balanced, CountsOn, One, getWithoutLock
    <3>2. QED
      BY SMTT(30), <1>0, <1>1, <1>a, <2>1, <3>1
         DEF LayerInv, LayerTypeOK, MapInv, KeepsMap, diskVars, getWithoutLock
  <2>4. ClientInv(c)'
    BY SMTT(40), <1>0, <1>1, <1>a, <1>b, <2>1 DEF LayerInv, LayerTypeOK, ClientInv, Go
  <2>5. DiskInv'
    BY Zenon, <1>1, SameDisk
  <2>6. QED
    BY Zenon, <2>2, <2>3, <2>4, <2>5, SameMap DEF LayerInv
<1>2. CASE /\ ch \notin layerMap
           /\ layerMap' = layerMap \cup {ch}
           /\ parent' = [parent EXCEPT ![ch] = parentOf[ch]]
           /\ referenceCount' = [referenceCount EXCEPT ![ch] = 1]
           /\ references' = [references EXCEPT ![ch] = {c}]
           /\ metadata' = [metadata EXCEPT ![ch] = "whole"]
           /\ data' = data \cup {ch}
           /\ doomed' = doomed \ {ch}
           /\ Go(c, "idle", None)
  <2>1. LayerTypeOK'
    BY <1>0, <1>2, <1>a, ChainAssumption DEF LayerInv, LayerTypeOK, Go, PCs, DirStates
  <2>2. MapInv'
    BY SMTT(30), <1>0, <1>2, <1>a DEF LayerInv, LayerTypeOK, MapInv
  <2>3. ClientInv(c)'
    BY SMTT(30), <1>0, <1>2, <1>a, <1>b DEF LayerInv, LayerTypeOK, ClientInv, Go
  <2>4. ASSUME NEW d \in Clients \ {c}
        PROVE  ClientInv(d)'
    <3>1. ClientInv(d) /\ pc'[d] = pc[d] /\ tgt'[d] = tgt[d] /\ pc[d] # "removing"
      BY SMTT(30), <1>0, <1>2, <1>b DEF LayerInv, LayerTypeOK, ClientInv, Go
    <3>2. layerL' # d /\ layerL # d
      BY Zenon, <1>0, <1>a, <1>b
    <3>3. pc[d] \notin {"idle", "elsewhere"} => tgt[d] \in Chains
      BY Zenon, <3>1 DEF ClientInv, LayerInv, LayerTypeOK
    <3>4. \A k \in Chains : d \in references'[k] => d \in references[k]
      BY Zenon, <1>2 DEF LayerInv, LayerTypeOK
    <3>5. QED
      BY Zenon, <1>2, <3>1, <3>2, <3>3, <3>4 DEF ClientInv
  <2>5. DiskInv'
    BY SMTT(30), <1>0, <1>2 DEF LayerInv, LayerTypeOK, DiskInv
  <2>6. NoPanic'
    BY Zenon, <1>a DEF LayerInv, NoPanic
  <2>7. ChildrenOf(ch)' = {} /\ pins[ch] = 0
    <3>1. parentOf[ch] # ch
      BY Zenon, <1>0, ParentDiffers
    <3>2. QED
      BY SMTT(30), <1>0, <1>2, <1>b, <3>1 DEF LayerInv, LayerTypeOK, MapInv, ChildrenOf
  <2>8. InFlight(ch)' = {}
    <3>1. c \notin InFlight(ch)'
      BY Zenon, <1>2 DEF LayerInv, LayerTypeOK, InFlight, Go
    <3>2. ASSUME NEW d \in Clients \ {c}
          PROVE  d \notin InFlight(ch)'
      BY SMTT(30), <1>0, <1>2, <1>b DEF LayerInv, LayerTypeOK, ClientInv, InFlight, Go
    <3>3. QED
      BY Zenon, <3>1, <3>2 DEF InFlight
  <2>9. ASSUME NEW k \in layerMap
        PROVE  referenceCount'[k] = Cardinality(references'[k])
                  + Cardinality(ChildrenOf(k)') + pins'[k] + Cardinality(InFlight(k)')
    <3>1. /\ k \in Chains /\ k # ch /\ pins[k] \in Nat /\ pins'[k] = pins[k]
          /\ referenceCount'[k] = referenceCount[k] /\ references'[k] = references[k]
      BY Zenon, <1>2, <1>a DEF LayerInv, LayerTypeOK
    <3>2. ch \notin ChildrenOf(k) /\ (ch \in ChildrenOf(k)' <=> parentOf[ch] = k)
      BY Zenon, <1>0, <1>2 DEF LayerInv, LayerTypeOK, ChildrenOf
    <3>3. ChildrenOf(k) \ {ch} = ChildrenOf(k)' \ {ch}
      BY Zenon, <1>2 DEF LayerInv, LayerTypeOK, ChildrenOf
    <3>4. /\ Cardinality(references[k]) \in Nat
          /\ Cardinality(ChildrenOf(k)) \in Nat
          /\ Cardinality(ChildrenOf(k)') \in Nat
          /\ Cardinality(ChildrenOf(k)') = Cardinality(ChildrenOf(k))
                                           + One(parentOf[ch] = k)
      BY SMTT(30), <3>1, <3>2, <3>3, UsesFinite, CardChange DEF LayerInv, One
    <3>5. /\ Cardinality(InFlight(k)) \in Nat
          /\ Cardinality(InFlight(k)') \in Nat
          /\ Cardinality(InFlight(k)') + One(CountsOn(pc[c], tgt[c], k))
                = Cardinality(InFlight(k)) + One(CountsOn("idle", None, k))
      BY Zenon, <1>2, <3>1, InFlightStep DEF LayerInv
    <3>6. ~ CountsOn("idle", None, k) /\ (CountsOn(pc[c], tgt[c], k) <=> parentOf[ch] = k)
      BY Zenon, <1>0 DEF CountsOn
    <3>7. Cardinality(InFlight(k)') + One(parentOf[ch] = k) = Cardinality(InFlight(k))
      BY <3>5, <3>6 DEF One
    <3>8. referenceCount[k] = Cardinality(references[k]) + Cardinality(ChildrenOf(k))
                              + pins[k] + Cardinality(InFlight(k))
      BY Zenon DEF LayerInv, CountsExact
    <3>9. One(parentOf[ch] = k) \in {0, 1}
      BY Zenon DEF One
    <3>10. QED
      BY <3>1, <3>4, <3>5, <3>7, <3>8, <3>9
  <2>10. CountsExact'
    <3>1. references'[ch] = {c} /\ referenceCount'[ch] = 1 /\ pins'[ch] = 0
      BY Zenon, <1>0, <1>2, <1>a, <2>7 DEF LayerInv, LayerTypeOK
    <3>2. Cardinality({}) = 0 /\ Cardinality({c}) = 1
      BY Zenon, FS_EmptySet, FS_Singleton
    <3>3. referenceCount'[ch] = Cardinality(references'[ch])
             + Cardinality(ChildrenOf(ch)') + pins'[ch] + Cardinality(InFlight(ch)')
      BY <2>7, <2>8, <3>1, <3>2
    <3>4. \A k \in layerMap \cup {ch} : referenceCount'[k] = Cardinality(references'[k])
             + Cardinality(ChildrenOf(k)') + pins'[k] + Cardinality(InFlight(k)')
      BY Zenon, <2>9, <3>3
    <3>5. QED
      BY Zenon, <1>2, <3>4 DEF CountsExact
  <2>11. QED
    BY Zenon, <2>1, <2>2, <2>3, <2>4, <2>5, <2>6, <2>10 DEF LayerInv
<1>3. QED
  BY Zenon, <1>0, <1>1, <1>2 DEF CommitLayer

-----------------------------------------------------------------------------
(* The initial state, and the restart.                                     *)

\* A store that has never had a layer satisfies the invariant.
LEMMA LayerInitInv ==
    ASSUME LayerInit
    PROVE  LayerInv
<1> USE DEF LayerInit
<1>1. LayerTypeOK
  BY Zenon DEF LayerTypeOK, PCs, DirStates
<1>2. MapInv /\ DiskInv /\ CountsExact /\ NoPanic
  BY Zenon DEF MapInv, DiskInv, CountsExact, NoPanic
<1>3. ASSUME NEW c \in Clients
      PROVE  ClientInv(c)
  BY Zenon, ChainAssumption DEF ClientInv
<1>4. QED
  BY Zenon, <1>1, <1>2, <1>3 DEF LayerInv

\* A crash damages only directories whose removal had begun.
LEMMA CrashedOnlyDoomed ==
    ASSUME LayerInv, NEW meta \in CrashedMetadata, NEW ch \in Chains,
           meta[ch] # metadata[ch]
    PROVE  /\ ch \in layerMap /\ ch \in doomed
           /\ references[ch] = {}
           /\ ChildrenOf(ch) = {}
           /\ pins[ch] = 0
           /\ InFlight(ch) = {}
<1>1. PICK c \in Clients : pc[c] = "removing" /\ tgt[c] = ch
  BY Zenon DEF CrashedMetadata
<1>2. QED
  BY Zenon, <1>1, RemovingUnused

\* NewStoreFromGraphDriver restores the invariant from what a crash has left, if
\* the mounts it loads stand on layers that it has loaded.
LEMMA LoadInv ==
    ASSUME LayerInv, NEW meta \in CrashedMetadata, NEW mountPins \in [Chains -> Nat],
           metadata' = meta, Load(meta, mountPins), ForgetClients,
           \A ch \in Chains : mountPins[ch] # 0 => ch \in Loadable(meta)
    PROVE  LayerInv'
<1> DEFINE Kids(ch) == {k \in Loadable(meta) : LoadedParent(meta, k) = ch}
<1>0. meta \in [Chains -> DirStates]
  BY Zenon DEF CrashedMetadata
<1>a. Loadable(meta) \subseteq Chains
  BY Zenon DEF Loadable
<1>b. \A ch : IsFiniteSet(Kids(ch)) /\ Cardinality(Kids(ch)) \in Nat
  <2>1. \A ch : Kids(ch) \subseteq Chains
    BY Zenon, <1>a
  <2> HIDE DEF Kids
  <2>2. QED
    BY Zenon, <2>1, FiniteAssumption, FS_Subset, FS_CardinalityType
<1>c. \A ch \in Chains : parent'[ch] = LoadedParent(meta, ch)
  BY Zenon DEF Load
<1>d. \A ch \in Chains : referenceCount'[ch] = mountPins[ch] + Cardinality(Kids(ch))
  BY Zenon DEF Load
<1>1. LayerTypeOK'
  <2>1. referenceCount' \in [Chains -> Nat]
    <3>1. referenceCount' = [ch \in Chains |-> mountPins[ch] + Cardinality(Kids(ch))]
      BY Zenon DEF Load
    <3> HIDE DEF Kids
    <3>2. \A ch \in Chains : mountPins[ch] + Cardinality(Kids(ch)) \in Nat
      BY <1>b
    <3>3. QED
      BY Zenon, <3>1, <3>2
  <2>2. parent' \in [Chains -> Chains \cup {None}]
    BY Zenon, ChainAssumption DEF Load, LoadedParent
  <2>3. layerMap' \subseteq Chains /\ pins' \in [Chains -> Nat]
    BY Zenon, <1>a DEF Load
  <2>4. QED
    BY Zenon, <1>0, <2>1, <2>2, <2>3 DEF LayerInv, LayerTypeOK, ForgetClients, PCs
<1>2. MapInv'
  <2>1. \A ch \in Chains : parent'[ch] \in {None, parentOf[ch]}
    BY Zenon, <1>c DEF LoadedParent
  <2>2. ASSUME NEW ch \in layerMap', parent'[ch] # None
        PROVE  parent'[ch] \in layerMap'
    <3>1. ch \in Chains /\ ch \in Loadable(meta) /\ layerMap' = Loadable(meta)
      BY Zenon, <1>a DEF Load
    <3>2. meta[ch] = "whole" /\ parent'[ch] = parentOf[ch]
      BY Zenon, <1>c, <2>2, <3>1 DEF LoadedParent
    <3>3. QED
      BY Zenon, <2>2, <3>1, <3>2, LoadableDef
  <2>3. \A ch \in Chains \ layerMap' : references'[ch] = {} /\ pins'[ch] = 0
    BY Zenon DEF Load, ForgetClients
  <2>4. QED
    BY Zenon, <2>1, <2>2, <2>3 DEF MapInv
<1>3. ASSUME NEW c \in Clients
      PROVE  ClientInv(c)'
  BY Zenon, ChainAssumption DEF ClientInv, ForgetClients
<1>4. DiskInv'
  <2>1. \A ch \in Chains \ doomed : meta[ch] = metadata[ch]
    BY Zenon, CrashedOnlyDoomed
  <2>2. ASSUME NEW ch \in layerMap' \ doomed
        PROVE  meta[ch] = "whole" /\ parent'[ch] = parentOf[ch]
    <3>1. ch \in Chains /\ ch \in Loadable(meta)
      BY Zenon, <1>a DEF Load
    <3>2. meta[ch] \in {"whole", "noparent"}
      BY Zenon, <3>1, LoadableDef
    <3>3. meta[ch] \in {"whole", "absent"}
      BY Zenon, <2>1, <3>1 DEF LayerInv, DiskInv
    <3>4. QED
      BY Zenon, <1>c, <3>1, <3>2, <3>3 DEF LoadedParent
  <2>3. QED
    BY Zenon, <2>1, <2>2 DEF LayerInv, DiskInv, ForgetClients
<1>5. CountsExact'
  <2>1. SUFFICES ASSUME NEW ch \in layerMap'
                 PROVE  referenceCount'[ch] = Cardinality(references'[ch])
                          + Cardinality(ChildrenOf(ch)') + pins'[ch]
                          + Cardinality(InFlight(ch)')
    BY Zenon DEF CountsExact
  <2>2. ch \in Chains
    BY Zenon, <1>1 DEF LayerTypeOK
  <2>3. references'[ch] = {} /\ InFlight(ch)' = {} /\ pins'[ch] = mountPins[ch]
    BY Zenon, <2>2 DEF InFlight, ForgetClients, Load
  <2>4. ChildrenOf(ch)' = Kids(ch)
    BY Zenon, <1>a, <1>c DEF ChildrenOf, Load
  <2>5. mountPins[ch] \in Nat
    BY Zenon, <2>2
  <2> HIDE DEF Kids
  <2>6. QED
    BY SMTT(30), <1>b, <1>d, <2>2, <2>3, <2>4, <2>5, FS_EmptySet
<1>6. NoPanic'
  BY Zenon DEF NoPanic, ForgetClients
<1>7. QED
  BY Zenon, <1>1, <1>2, <1>3, <1>4, <1>5, <1>6 DEF LayerInv

\* A step of one client keeps the invariant.
LEMMA LayerStepInv ==
    ASSUME LayerInv, NEW c \in Clients, LayerStep(c)
    PROVE  LayerInv'
BY Zenon, GetInv, RegisterInv, ReleaseInv, GetReferenceInv, PrepareInv, CommitLayerInv,
   ReleaseParentInv, releaseLayerInv, removeMetadataInv DEF LayerStep

\* The restart of the layer store alone: nothing is mounted.
LEMMA RestartInv ==
    ASSUME LayerInv, Restart
    PROVE  LayerInv'
<1> DEFINE mountPins == [ch \in Chains |-> 0]
<1>1. PICK meta \in CrashedMetadata : metadata' = meta /\ Load(meta, mountPins)
  BY Zenon DEF Restart
<1>2. mountPins \in [Chains -> Nat] /\ \A ch \in Chains : mountPins[ch] = 0
  BY Zenon
<1> HIDE DEF mountPins
<1>3. ForgetClients
  BY Zenon DEF Restart
<1>4. QED
  BY Zenon, <1>1, <1>2, <1>3, LoadInv

\* A layer of the map is all there down to the bottom of its chain, if the removal
\* of no layer of that chain has begun.
LEMMA ChainWhole ==
    ASSUME LayerInv, NEW ch \in layerMap, ~ \E k \in Chain(ch) : k \in doomed
    PROVE  \A k \in Chain(ch) : /\ k \in layerMap \cap data
                                /\ metadata[k] = "whole"
                                /\ parent[k] = parentOf[k]
<1>1. layerMap \in SUBSET Chains
  BY Zenon DEF LayerInv, LayerTypeOK
<1>2. \A k \in layerMap \ doomed : /\ metadata[k] = "whole"
                                   /\ parent[k] = parentOf[k]
                                   /\ parentOf[k] # None => parentOf[k] \in layerMap
  BY Zenon, <1>1 DEF LayerInv, DiskInv, MapInv
<1>3. Chain(ch) \cap doomed = {}
  BY Zenon
<1>4. Chain(ch) \subseteq layerMap
  BY Zenon, <1>1, <1>2, <1>3, ChainWithin
<1>5. \A k \in layerMap \ doomed : k \in data
  BY Zenon, <1>1, <1>2 DEF LayerInv, DiskInv
<1>6. QED
  BY Zenon, <1>2, <1>3, <1>4, <1>5

\* What a step of a client removes from the disk was not in use.
LEMMA StepRemovesUnused ==
    ASSUME LayerInv, NEW c \in Clients, LayerStep(c), NEW ch \in Chains,
           \/ ch \in data /\ ch \notin data'
           \/ metadata[ch] # "absent" /\ metadata'[ch] # metadata[ch]
                                      /\ metadata'[ch] # "whole"
    PROVE  /\ references[ch] = {}
           /\ ChildrenOf(ch) = {}
           /\ pins[ch] = 0
           /\ \A d \in InFlight(ch) : pc[d] = "releasing"
<1> USE DEF LayerStep
<1>1. CASE releaseLayer(c)
  <2>1. /\ pc[c] = "releasing" /\ tgt[c] = ch
        /\ referenceCount[tgt[c]] \notin Nat \ {0, 1}
    BY Zenon, <1>1 DEF releaseLayer, DriverRemove
  <2>2. /\ tgt[c] \in layerMap /\ c \in InFlight(tgt[c])
        /\ referenceCount[tgt[c]] = 1
    BY Zenon, <2>1, ReleasingRetained
  <2>3. LayerTypeOK /\ CountsExact
    BY Zenon DEF LayerInv
  <2>4. ch \in layerMap /\ c \in InFlight(ch) /\ referenceCount[ch] = 1
    BY Zenon, <2>1, <2>2
  <2>5. references[ch] = {} /\ ChildrenOf(ch) = {} /\ pins[ch] = 0 /\ InFlight(ch) = {c}
    BY Zenon, <2>3, <2>4, LastUse
  <2>6. QED
    BY Zenon, <2>1, <2>5
<1>2. CASE removeMetadata(c)
  <2>1. pc[c] = "removing" /\ tgt[c] = ch
    BY Zenon, <1>2 DEF removeMetadata, LayerInv, LayerTypeOK
  <2>2. QED
    BY Zenon, <2>1, RemovingUnused
<1>3. CASE CommitLayer(c)
  BY Zenon, <1>3 DEF CommitLayer, LayerInv, LayerTypeOK, diskVars
<1>4. CASE \E k \in Chains : Get(c, k) \/ Register(c, k) \/ Release(c, k)
  BY Zenon, <1>4 DEF Get, Register, Release, diskVars
<1>5. CASE GetReference(c) \/ Prepare(c) \/ ReleaseParent(c)
  BY Zenon, <1>5 DEF GetReference, Prepare, ReleaseParent, diskVars
<1>6. QED
  BY Zenon, <1>1, <1>2, <1>3, <1>4, <1>5

\* The layer store does not change.
LEMMA LayerSame ==
    ASSUME LayerInv, UNCHANGED layerVars
    PROVE  LayerInv'
<1> USE DEF layerVars, memVars, diskVars
<1>1. LayerTypeOK' /\ NoPanic'
  BY Zenon DEF LayerInv, LayerTypeOK, NoPanic
<1>2. MapInv' /\ DiskInv'
  BY Zenon DEF LayerInv, MapInv, DiskInv
<1>3. \A c \in Clients : ClientInv(c)'
  BY Zenon DEF LayerInv, ClientInv
<1>4. CountsExact'
  <2>1. \A ch : ChildrenOf(ch)' = ChildrenOf(ch) /\ InFlight(ch)' = InFlight(ch)
    BY Zenon DEF ChildrenOf, InFlight
  <2>2. QED
    BY Zenon, <2>1 DEF LayerInv, CountsExact
<1>5. QED
  BY Zenon, <1>1, <1>2, <1>3, <1>4 DEF LayerInv

-----------------------------------------------------------------------------
(* The theorems.                                                           *)

\* The inductive invariant holds through every interleaving of Get, Register and
\* Release, every failure and every crash.
THEOREM LayerInvariant == LayerSpec => []LayerInv
<1>1. LayerInit => LayerInv
  BY Zenon, LayerInitInv
<1>2. LayerInv /\ [LayerNext]_layerVars => LayerInv'
  <2>1. SUFFICES ASSUME LayerInv, [LayerNext]_layerVars
                 PROVE  LayerInv'
    BY Zenon
  <2>2. CASE LayerNext
    BY Zenon, <2>1, <2>2, LayerStepInv, RestartInv DEF LayerNext
  <2>3. CASE UNCHANGED layerVars
    BY Zenon, <2>1, <2>3, LayerSame
  <2>4. QED
    BY Zenon, <2>1, <2>2, <2>3
<1>3. QED
  BY <1>1, <1>2, PTL DEF LayerSpec

\* The assertions in releaseLayer never fail.
THEOREM LayerNeverPanics == LayerSpec => []NoPanic
<1>1. LayerInv => NoPanic
  BY Zenon DEF LayerInv
<1>2. QED
  BY <1>1, LayerInvariant, PTL

\* The count of every layer in the map is the number of its users, so no layer is
\* leaked or given back twice.
THEOREM LayerCountsExact == LayerSpec => []CountsExact
<1>1. LayerInv => CountsExact
  BY Zenon DEF LayerInv
<1>2. QED
  BY <1>1, LayerInvariant, PTL

\* A layer that a client holds is whole, in memory and on disk, down to the bottom
\* of its chain, unless a removal within that chain has begun before.
THEOREM HeldLayersAreWhole == LayerSpec => []HeldIsWhole
<1>1. LayerInv => HeldIsWhole
  BY Zenon, ChainWhole DEF HeldIsWhole
<1>2. QED
  BY <1>1, LayerInvariant, PTL

\* Neither Release nor a crash removes the data or the directory of a layer that
\* somebody holds, builds on or is about to hold.
THEOREM UsedLayersStay == LayerSpec => OnlyUnusedRemoved
<1> DEFINE Lost(ch) == \/ ch \in data /\ ch \notin data'
                       \/ metadata[ch] # "absent" /\ metadata'[ch] # metadata[ch]
                                                  /\ metadata'[ch] # "whole"
           Unused(ch) == /\ references[ch] = {}
                         /\ ChildrenOf(ch) = {}
                         /\ pins[ch] = 0
                         /\ \A c \in InFlight(ch) : pc[c] = "releasing"
<1>1. ASSUME LayerInv, LayerNext, NEW ch \in Chains, Lost(ch)
      PROVE  Unused(ch)
  <2>1. CASE \E c \in Clients : LayerStep(c)
    BY Zenon, <1>1, <2>1, StepRemovesUnused
  <2>2. CASE Restart
    <3>1. PICK meta \in CrashedMetadata : metadata' = meta /\ data' = data
      BY Zenon, <2>2 DEF Restart, ForgetClients
    <3>2. meta[ch] # metadata[ch]
      BY Zenon, <1>1, <3>1
    <3>3. QED
      BY Zenon, <1>1, <3>2, CrashedOnlyDoomed
  <2>3. QED
    BY Zenon, <1>1, <2>1, <2>2 DEF LayerNext
<1>2. LayerInv /\ [LayerNext]_layerVars =>
         [\A ch \in Chains : Lost(ch) => Unused(ch)]_layerVars
  BY Zenon, <1>1
<1>3. QED
  BY <1>2, LayerInvariant, PTL DEF LayerSpec, OnlyUnusedRemoved

-----------------------------------------------------------------------------
(* Writable layers: the inductive invariant, and the steps that make and   *)
(* remove a mount                                                          *)

Creating == {"get", "create", "setMountID", "setMountParent"}
Removing == {"remove", "removeMount"}

\* The operation under mountL: who runs it, and what it knows of its mount.
OperationInv ==
    /\ rw \in [at : Creating \cup Removing \cup {"none", "drop", "dropping"},
               name : Names \cup {None}, ch : Chains \cup {None}]
    /\ mountL = None <=> rw.at = "none"
    /\ mountL = None => rw = NoRW
    /\ rw.at = "get" => rw.ch # None
    /\ rw.at \in Creating => rw.name \in Names \ mounts
    /\ rw.at \in Removing => /\ rw.name \in mounts
                             /\ rw.ch = mparent[rw.name]
                             /\ mrefs[rw.name] = {}
    /\ \A c \in Clients :
          /\ pc[c] = "elsewhere" <=> mountL = c /\ rw.at # "dropping"
          /\ mountL = c /\ rw.at = "dropping" => pc[c] \in {"releasing", "removing"}

\* References are to mounts of the map, and only a reference is active.
ReferencesInv ==
    /\ \A n \in Names \ mounts : mrefs[n] = {}
    /\ \A n \in Names : \A c \in Clients \ mrefs[n] : activity[n][c] = 0

StoreInv ==
    /\ LayerInv
    /\ MountTypeOK
    /\ OperationInv
    /\ ReferencesInv
    /\ PinsExact
-----------------------------------------------------------------------------
(* What the read-only layers see of a step on a mount.                     *)

\* A client begins or ends an operation on a mount.
LEMMA AsideInv ==
    ASSUME LayerInv, NEW c \in Clients, pc[c] \in {"idle", "elsewhere"},
           NEW s \in {"idle", "elsewhere"}, Go(c, s, None),
           UNCHANGED <<layerMap, parent, referenceCount, references, pins, layerL,
                       panicked, diskVars>>
    PROVE  LayerInv'
<1>1. LayerTypeOK'
  BY Zenon DEF LayerInv, LayerTypeOK, Go, PCs, diskVars
<1>2. KeepsMap(c, s, None)
  <2>1. ASSUME NEW k \in layerMap
        PROVE  Balanced(c, s, None, k)
    BY Zenon DEF Balanced, CountsOn, One
  <2>2. layerL # c
    BY Zenon DEF LayerInv, ClientInv
  <2>3. QED
    BY Zenon, <2>1, <2>2 DEF LayerInv, MapInv, KeepsMap, diskVars
<1>3. ClientInv(c)'
  BY ChainAssumption DEF LayerInv, LayerTypeOK, ClientInv, Go
<1>4. DiskInv'
  BY Zenon, SameDisk
<1>5. QED
  BY Zenon, <1>1, <1>2, <1>3, <1>4, SameMap DEF LayerInv

\* The use that CreateRWLayer counts under layerL is a pin.
LEMMA PinInv ==
    ASSUME LayerInv, NEW c \in Clients, pc[c] = "elsewhere", NEW ch \in Chains,
           layerL = None, getWithoutLock(ch), pins' = [pins EXCEPT ![ch] = @ + 1],
           UNCHANGED <<layerMap, parent, references, layerL, pc, tgt, panicked, diskVars>>
    PROVE  LayerInv'
<1>0. tgt[c] = None
  BY Zenon DEF LayerInv, ClientInv
<1>1. LayerTypeOK'
  BY DEF LayerInv, LayerTypeOK, getWithoutLock, diskVars
<1>2. KeepsMap(c, "elsewhere", None)
  <2>1. ASSUME NEW k \in layerMap
        PROVE  Balanced(c, "elsewhere", None, k)
    BY DEF LayerInv, LayerTypeOK, Balanced, CountsOn, One, getWithoutLock
  <2>2. Go(c, "elsewhere", None)
    BY Zenon, <1>0 DEF LayerInv, LayerTypeOK, Go
  <2>3. QED
    BY Zenon, <2>1, <2>2 DEF LayerInv, LayerTypeOK, MapInv, KeepsMap, diskVars, getWithoutLock
<1>3. ClientInv(c)'
  BY Zenon, <1>0, ChainAssumption DEF LayerInv, LayerTypeOK, ClientInv
<1>4. DiskInv'
  BY Zenon, SameDisk
<1>5. QED
  BY Zenon, <1>1, <1>2, <1>3, <1>4, SameMap DEF LayerInv

\* A pin that is given back is a use by the loop of releaseLayer.
LEMMA UnpinInv ==
    ASSUME LayerInv, NEW c \in Clients, pc[c] = "elsewhere", NEW ch \in Chains,
           pins[ch] # 0, EnterRelease(c, ch), pins' = [pins EXCEPT ![ch] = @ - 1],
           UNCHANGED <<layerMap, parent, referenceCount, references, panicked, diskVars>>
    PROVE  LayerInv'
<1>0. ch \in layerMap /\ None \notin Clients /\ None \notin Chains
  BY Zenon, ChainAssumption DEF LayerInv, MapInv
<1>1. LayerTypeOK'
  BY DEF LayerInv, LayerTypeOK, EnterRelease, Go, PCs, diskVars
<1>2. KeepsMap(c, "releasing", ch)
  <2>1. ASSUME NEW k \in layerMap
        PROVE  Balanced(c, "releasing", ch, k)
    BY DEF LayerInv, LayerTypeOK, Balanced, CountsOn, One
  <2>2. QED
    BY Zenon, <1>0, <2>1 DEF LayerInv, LayerTypeOK, MapInv, KeepsMap, diskVars, EnterRelease
<1>3. ClientInv(c)'
  BY <1>0 DEF LayerInv, LayerTypeOK, ClientInv, Go, EnterRelease
<1>4. DiskInv'
  BY Zenon, SameDisk
<1>5. QED
  BY Zenon, <1>1, <1>2, <1>3, <1>4, SameMap DEF LayerInv

-----------------------------------------------------------------------------
(* Steps on the mounts.                                                    *)

\* A creation or removal under way counts on ch.
Owed(r, ch) ==
    One(r.ch = ch /\ r.at \in {"create", "setMountID", "setMountParent", "drop"})

\* The mounts on a layer are finitely many.
LEMMA MountsFinite ==
    ASSUME mounts \subseteq Names, NEW ch
    PROVE  IsFiniteSet(MountsOn(ch)) /\ Cardinality(MountsOn(ch)) \in Nat
<1>1. MountsOn(ch) \subseteq Names
  BY Zenon DEF MountsOn
<1>2. QED
  BY Zenon, <1>1, MountAssumption, FS_Subset, FS_CardinalityType

\* As long as the mounts of the map stay, a pin is taken or given back exactly
\* when the operation under way begins or ceases to count on the layer.
LEMMA PinsSame ==
    ASSUME StoreInv, pins' \in [Chains -> Nat], UNCHANGED <<mounts, mparent>>,
           \A ch \in Chains : pins'[ch] + Owed(rw, ch) = pins[ch] + Owed(rw', ch)
    PROVE  PinsExact'
<1>1. SUFFICES ASSUME NEW ch \in Chains
               PROVE  pins'[ch] = Cardinality(MountsOn(ch)') + Owed(rw', ch)
  BY Zenon DEF PinsExact, Owed, One
<1>2. MountsOn(ch)' = MountsOn(ch)
  BY Zenon DEF MountsOn
<1>3. pins[ch] = Cardinality(MountsOn(ch)) + Owed(rw, ch)
  BY Zenon DEF StoreInv, PinsExact, Owed, One
<1>4. Cardinality(MountsOn(ch)) \in Nat
  BY Zenon, MountsFinite DEF StoreInv, MountTypeOK
<1>5. pins[ch] \in Nat /\ pins'[ch] \in Nat
  BY Zenon DEF StoreInv, LayerInv, LayerTypeOK
<1>6. Owed(rw, ch) \in {0, 1} /\ Owed(rw', ch) \in {0, 1}
  BY Zenon DEF Owed, One
<1>7. QED
  BY <1>2, <1>3, <1>4, <1>5, <1>6

\* The holder of mountL, outside releaseLayer.
LEMMA HolderState ==
    ASSUME StoreInv, NEW c \in Clients, NEW s, Holds(c, s), s # "dropping"
    PROVE  /\ mountL = c /\ rw.at = s /\ c # None /\ s # "none"
           /\ pc[c] = "elsewhere" /\ tgt[c] = None /\ layerL # c
           /\ rw.ch \in Chains \cup {None}
           /\ rw.name \in Names \cup {None}
           /\ s \in Creating \cup Removing => rw.name \in Names
BY ChainAssumption DEF StoreInv, Holds, OperationInv, LayerInv, ClientInv, MountTypeOK,
   Creating, Removing

\* The holder of mountL returns.
LEMMA DoneOperation ==
    ASSUME StoreInv, NEW c \in Clients, mountL = c, Done(c)
    PROVE  OperationInv'
<1>1. rw' = NoRW /\ mountL' = None /\ pc'[c] = "idle"
      /\ \A d \in Clients \ {c} : pc'[d] = pc[d]
  BY Zenon DEF Done, Go, StoreInv, LayerInv, LayerTypeOK
<1>2. \A d \in Clients : pc'[d] # "elsewhere"
  BY Zenon, <1>1 DEF StoreInv, OperationInv
<1>3. QED
  BY Zenon, <1>1, <1>2, ChainAssumption DEF OperationInv, NoRW, Creating, Removing

\* The holder of mountL goes on to step s.
LEMMA AtOperation ==
    ASSUME StoreInv, NEW c \in Clients, mountL = c, rw.at # "dropping",
           NEW s \in (Creating \ {"get"}) \cup Removing \cup {"drop"}, At(c, s),
           s \in Creating => rw.name \in Names \ mounts',
           s \in Removing => /\ rw.name \in mounts'
                             /\ rw.ch = mparent'[rw.name]
                             /\ mrefs'[rw.name] = {}
    PROVE  OperationInv' /\ rw'.ch = rw.ch /\ rw'.at = s
<1>1. /\ rw' = [at |-> s, name |-> rw.name, ch |-> rw.ch]
      /\ UNCHANGED <<mountL, pc, tgt>>
  BY Zenon DEF At, StoreInv, OperationInv
<1>2. rw.name \in Names \cup {None} /\ rw.ch \in Chains \cup {None}
  BY Zenon DEF StoreInv, OperationInv
<1>3. s # "none" /\ s # "dropping" /\ s # "get" /\ c # None
  BY Zenon, ChainAssumption DEF Creating, Removing
<1>4. \A d \in Clients : pc[d] = "elsewhere" <=> mountL = d
  BY Zenon DEF StoreInv, OperationInv
<1>5. QED
  BY Zenon, <1>1, <1>2, <1>3, <1>4 DEF OperationInv

\* A step that changes only files, driver layers and the operation.
LEMMA MapUntouched ==
    ASSUME StoreInv, LayerInv', OperationInv', PinsExact',
           UNCHANGED <<mounts, mparent, mrefs, activity>>,
           mountL' \in Clients \cup {None},
           mountDir' \in [Names -> [id : BOOLEAN, parent : Chains \cup {None}]],
           mountData' \subseteq Names,
           driverMounts' \in [Names -> Nat]
    PROVE  StoreInv'
<1>1. LayerTypeOK'
  BY Zenon DEF LayerInv
<1>2. ReferencesInv'
  BY Zenon DEF StoreInv, ReferencesInv
<1>3. rw'.name \in Names \cup {None} /\ rw'.ch \in Chains \cup {None}
  BY Zenon DEF OperationInv
<1>4. MountTypeOK
  BY Zenon DEF StoreInv
<1>5. MountTypeOK'
  BY Zenon, <1>1, <1>3, <1>4 DEF MountTypeOK
<1>6. QED
  BY Zenon, <1>2, <1>5 DEF StoreInv

\* The types of the files and of the driver's state.
LEMMA FileTypes ==
    ASSUME StoreInv
    PROVE  /\ mountDir \in [Names -> [id : BOOLEAN, parent : Chains \cup {None}]]
           /\ mountData \subseteq Names
           /\ driverMounts \in [Names -> Nat]
           /\ mountL \in Clients \cup {None}
           /\ pins \in [Chains -> Nat]
BY Zenon DEF StoreInv, MountTypeOK, LayerInv, LayerTypeOK

\* CreateRWLayer takes mountL.
LEMMA CreateRWLayerInv ==
    ASSUME StoreInv, NEW c \in Clients, NEW n \in Names, NEW ch \in Chains \cup {None},
           CreateRWLayer(c, n, ch)
    PROVE  StoreInv'
<1> USE DEF CreateRWLayer
<1>1. LayerInv'
  BY Zenon, AsideInv DEF StoreInv
<1>2. PICK s \in {"create", "get"} :
         /\ rw' = [at |-> s, name |-> n, ch |-> ch]
         /\ s = "create" <=> ch = None
  BY Zenon
<1>3. OperationInv'
  <2>1. pc'[c] = "elsewhere" /\ \A d \in Clients \ {c} : pc'[d] = pc[d]
    BY Zenon DEF Go, StoreInv, LayerInv, LayerTypeOK
  <2>2. \A d \in Clients : pc[d] # "elsewhere"
    BY Zenon, ChainAssumption DEF StoreInv, OperationInv
  <2>3. QED
    BY <1>2, <2>1, <2>2, ChainAssumption DEF OperationInv, Creating, Removing
<1>4. ReferencesInv'
  BY Zenon DEF StoreInv, ReferencesInv
<1>5. PinsExact'
  <2>1. rw = NoRW
    BY Zenon DEF StoreInv, OperationInv
  <2>2. \A k \in Chains : pins'[k] + Owed(rw, k) = pins[k] + Owed(rw', k)
    BY <1>2, <2>1, ChainAssumption DEF Owed, One, NoRW
  <2>3. pins' \in [Chains -> Nat]
    BY Zenon, <1>1 DEF LayerInv, LayerTypeOK
  <2>4. QED
    BY Zenon, <2>2, <2>3, PinsSame
<1>6. MountTypeOK'
  <2>1. LayerTypeOK'
    BY Zenon, <1>1 DEF LayerInv
  <2>2. QED
    BY <1>2, <2>1 DEF StoreInv, MountTypeOK
<1>7. QED
  BY Zenon, <1>1, <1>3, <1>4, <1>5, <1>6 DEF StoreInv

\* ls.get(parent): the parent is pinned, or CreateRWLayer returns.
LEMMA GetParentInv ==
    ASSUME StoreInv, NEW c \in Clients, GetParent(c)
    PROVE  StoreInv'
<1>0. Holds(c, "get") /\ layerL = None
  BY Zenon DEF GetParent
<1>1. UNCHANGED <<layerMap, parent, references, layerL, panicked, diskVars, mounts,
                  mparent, mrefs, activity, mountDir, mountData, driverMounts>>
  BY Zenon DEF GetParent
<1>2. mountL = c /\ rw.at = "get" /\ pc[c] = "elsewhere" /\ rw.ch \in Chains \cup {None}
  BY Zenon, <1>0, HolderState
<1>3. rw.ch \in Chains /\ rw.name \in Names \ mounts
  BY Zenon, <1>2 DEF StoreInv, OperationInv, Creating
<1>4. /\ mountDir' \in [Names -> [id : BOOLEAN, parent : Chains \cup {None}]]
      /\ mountData' \subseteq Names
      /\ driverMounts' \in [Names -> Nat]
      /\ pins \in [Chains -> Nat]
  BY Zenon, <1>1, FileTypes
<1>5. CASE /\ getWithoutLock(rw.ch)
           /\ pins' = [pins EXCEPT ![rw.ch] = @ + 1]
           /\ At(c, "create")
  <2>1. UNCHANGED <<mountL, pc, tgt>>
    BY Zenon, <1>5 DEF At
  <2>2. LayerInv'
    BY Zenon, <1>0, <1>1, <1>2, <1>3, <1>5, <2>1, PinInv DEF StoreInv
  <2>3. OperationInv' /\ rw'.ch = rw.ch /\ rw'.at = "create"
    BY Zenon, <1>1, <1>2, <1>3, <1>5, AtOperation DEF Creating, Removing
  <2>4. PinsExact'
    <3>1. \A k \in Chains : pins'[k] + Owed(rw, k) = pins[k] + Owed(rw', k)
      BY <1>2, <1>3, <1>4, <1>5, <2>3 DEF Owed, One
    <3>2. pins' \in [Chains -> Nat]
      BY Zenon, <2>2 DEF LayerInv, LayerTypeOK
    <3>3. QED
      BY Zenon, <1>1, <3>1, <3>2, PinsSame
  <2>5. QED
    BY Zenon, <1>1, <1>2, <1>4, <2>1, <2>2, <2>3, <2>4, MapUntouched
<1>6. CASE Done(c) /\ UNCHANGED <<referenceCount, pins>>
  <2>1. rw' = NoRW /\ mountL' = None /\ Go(c, "idle", None)
    BY Zenon, <1>6 DEF Done
  <2>2. LayerInv'
    BY Zenon, <1>1, <1>2, <1>6, <2>1, AsideInv DEF StoreInv
  <2>3. OperationInv'
    BY Zenon, <1>2, <1>6, DoneOperation
  <2>4. PinsExact'
    <3>1. \A k \in Chains : pins'[k] + Owed(rw, k) = pins[k] + Owed(rw', k)
      BY Zenon, <1>2, <1>6, <2>1 DEF Owed, One, NoRW
    <3>2. QED
      BY Zenon, <1>1, <1>4, <1>6, <3>1, PinsSame
  <2>5. QED
    BY Zenon, <1>1, <1>4, <2>1, <2>2, <2>3, <2>4, MapUntouched
<1>7. QED
  BY Zenon, <1>5, <1>6 DEF GetParent

\* The files and the driver layer of the mount that is being created or removed
\* change; the operation goes on, gives its pin back, or returns without one.
LEMMA InsideInv ==
    ASSUME StoreInv, NEW c \in Clients,
           NEW s \in (Creating \ {"get"}) \cup Removing, Holds(c, s),
           UNCHANGED <<layerMap, parent, referenceCount, references, pins, layerL,
                       panicked, diskVars, mounts, mparent, mrefs, activity>>,
           \/ Done(c) /\ (s \in Creating => rw.ch = None)
           \/ \E q \in (Creating \ {"get"}) \cup {"drop"} : s \in Creating /\ At(c, q)
           \/ \E q \in Removing : s \in Removing /\ At(c, q),
           mountDir' \in [Names -> [id : BOOLEAN, parent : Chains \cup {None}]],
           mountData' \subseteq Names,
           driverMounts' \in [Names -> Nat]
    PROVE  StoreInv'
<1>a. /\ s # "dropping" /\ s # "get" /\ s # "drop"
      /\ s \in Creating <=> s \notin Removing
      /\ "get" \notin Removing /\ "drop" \notin Creating \cup Removing
  BY Zenon DEF Creating, Removing
<1>0. /\ mountL = c /\ rw.at = s /\ pc[c] = "elsewhere"
      /\ rw.ch \in Chains \cup {None}
  BY Zenon, <1>a, HolderState
<1>b. pins' = pins /\ pins \in [Chains -> Nat] /\ None \notin Chains
  BY Zenon, FileTypes, ChainAssumption
<1>1. CASE Done(c) /\ (s \in Creating => rw.ch = None)
  <2>0. rw' = NoRW /\ mountL' = None /\ Go(c, "idle", None)
    BY Zenon, <1>1 DEF Done
  <2>1. LayerInv'
    BY Zenon, <1>0, <2>0, AsideInv DEF StoreInv
  <2>2. OperationInv'
    BY Zenon, <1>0, <1>1, DoneOperation
  <2>3. PinsExact'
    <3>1. \A k \in Chains : Owed(rw, k) = Owed(rw', k)
      BY Zenon, <1>0, <1>1, <1>a, <1>b, <2>0 DEF Owed, One, NoRW, Creating, Removing
    <3>2. QED
      BY Zenon, <1>b, <3>1, PinsSame DEF Owed, One
  <2>4. QED
    BY Zenon, <2>0, <2>1, <2>2, <2>3, MapUntouched
<1>2. ASSUME NEW q \in (Creating \ {"get"}) \cup Removing \cup {"drop"}, At(c, q),
             q \in Removing <=> s \in Removing
      PROVE  StoreInv'
  <2>0. UNCHANGED <<mountL, pc, tgt>>
    BY Zenon, <1>2 DEF At
  <2>1. LayerInv'
    BY Zenon, <2>0, LayerSame DEF StoreInv, layerVars, memVars
  <2>2. OperationInv' /\ rw'.ch = rw.ch /\ rw'.at = q
    <3>1. q \in Creating => rw.name \in Names \ mounts
      BY Zenon, <1>0, <1>2, <1>a DEF StoreInv, OperationInv, Creating, Removing
    <3>2. q \in Removing => /\ rw.name \in mounts
                            /\ rw.ch = mparent[rw.name]
                            /\ mrefs[rw.name] = {}
      BY Zenon, <1>0, <1>2 DEF StoreInv, OperationInv
    <3>3. QED
      BY Zenon, <1>0, <1>2, <1>a, <3>1, <3>2, AtOperation
  <2>3. PinsExact'
    <3>1. \A k \in Chains : Owed(rw, k) = Owed(rw', k)
      BY Zenon, <1>0, <1>2, <1>a, <2>2 DEF Owed, One, Creating, Removing
    <3>2. QED
      BY Zenon, <1>b, <3>1, PinsSame DEF Owed, One
  <2>4. QED
    BY Zenon, <1>0, <2>0, <2>1, <2>2, <2>3, MapUntouched
<1>3. QED
  BY Zenon, <1>1, <1>2, <1>a DEF Creating, Removing

\* driver.Create, or its failure.
LEMMA CreateDriverLayerInv ==
    ASSUME StoreInv, NEW c \in Clients, CreateDriverLayer(c)
    PROVE  StoreInv'
<1>1. Holds(c, "create") /\ rw.name \in Names
  BY Zenon, HolderState DEF CreateDriverLayer, Creating
<1>2. mountData' \subseteq Names /\ driverMounts' \in [Names -> Nat]
  <2>1. mountData \subseteq Names /\ driverMounts \in [Names -> Nat]
    BY Zenon, FileTypes
  <2>2. CASE /\ mountData' = mountData \cup {rw.name}
             /\ driverMounts' = [driverMounts EXCEPT ![rw.name] = 0]
    BY Zenon, <1>1, <2>1, <2>2
  <2>3. CASE UNCHANGED <<mountData, driverMounts>>
    BY Zenon, <2>1, <2>3
  <2>4. QED
    BY Zenon, <2>2, <2>3 DEF CreateDriverLayer
<1>3. \/ Done(c) /\ rw.ch = None
      \/ \E q \in {"setMountID", "drop"} : At(c, q)
  BY Zenon DEF CreateDriverLayer, FailCreate
<1>4. mountDir' \in [Names -> [id : BOOLEAN, parent : Chains \cup {None}]]
  BY Zenon DEF CreateDriverLayer, StoreInv, MountTypeOK
<1>5. QED
  BY Zenon, <1>1, <1>2, <1>3, <1>4, InsideInv DEF CreateDriverLayer, Creating

\* The file mount-id is written, or is not.
LEMMA SetMountIDInv ==
    ASSUME StoreInv, NEW c \in Clients, SetMountID(c)
    PROVE  StoreInv'
<1>1. Holds(c, "setMountID") /\ rw.name \in Names
  BY Zenon, HolderState DEF SetMountID, Creating
<1>2. mountDir' \in [Names -> [id : BOOLEAN, parent : Chains \cup {None}]]
  <2> DEFINE Dir == [id : BOOLEAN, parent : Chains \cup {None}]
  <2>1. mountDir \in [Names -> Dir]
    BY Zenon DEF StoreInv, MountTypeOK
  <2>2. [mountDir[rw.name] EXCEPT !.id = TRUE] \in Dir
    BY Zenon, <1>1, <2>1
  <2>3. mountDir' \in {mountDir,
                      [mountDir EXCEPT ![rw.name] = [mountDir[rw.name] EXCEPT !.id = TRUE]]}
    BY Zenon, <1>1, <2>1 DEF SetMountID
  <2> HIDE DEF Dir
  <2>4. mountDir' \in [Names -> Dir]
    BY Zenon, <1>1, <2>1, <2>2, <2>3
  <2>5. QED
    BY Zenon, <2>4 DEF Dir
<1>3. \/ Done(c) /\ rw.ch = None
      \/ \E q \in {"setMountParent", "drop"} : At(c, q)
  BY Zenon DEF SetMountID, FailCreate
<1>4. mountData' \subseteq Names /\ driverMounts' \in [Names -> Nat]
  BY Zenon DEF SetMountID, StoreInv, MountTypeOK
<1>5. QED
  BY Zenon, <1>1, <1>2, <1>3, <1>4, InsideInv DEF SetMountID, Creating

\* driver.Remove, or its failure.
LEMMA RemoveDriverLayerInv ==
    ASSUME StoreInv, NEW c \in Clients, RemoveDriverLayer(c)
    PROVE  StoreInv'
<1>1. Holds(c, "remove")
  BY Zenon DEF RemoveDriverLayer
<1>2. Done(c) \/ At(c, "removeMount")
  BY Zenon DEF RemoveDriverLayer
<1>3. /\ mountDir' \in [Names -> [id : BOOLEAN, parent : Chains \cup {None}]]
      /\ mountData' \subseteq Names
      /\ driverMounts' \in [Names -> Nat]
  BY Zenon DEF RemoveDriverLayer, StoreInv, MountTypeOK
<1>4. QED
  BY Zenon, <1>1, <1>2, <1>3, InsideInv DEF RemoveDriverLayer, Removing, Creating

\* The pin of the creation becomes that of the mount in the map.
LEMMA SetMountParentInv ==
    ASSUME StoreInv, NEW c \in Clients, SetMountParent(c)
    PROVE  StoreInv'
<1> DEFINE Dir == [id : BOOLEAN, parent : Chains \cup {None}]
<1>0. PICK n \in Names \ mounts, ch \in Chains \cup {None} :
         /\ rw.name = n /\ rw.ch = ch
         /\ mountL = c /\ rw.at = "setMountParent" /\ pc[c] = "elsewhere"
  BY Zenon, HolderState DEF SetMountParent, StoreInv, OperationInv, Creating
<1>a. None \notin Chains
  BY Zenon, ChainAssumption
<1>1. CASE /\ mountDir' = IF ch = None THEN mountDir
                          ELSE [mountDir EXCEPT ![n].parent = ch]
           /\ mounts' = mounts \cup {n}
           /\ mparent' = [mparent EXCEPT ![n] = ch]
           /\ mrefs' = [mrefs EXCEPT ![n] = {c}]
           /\ activity' = [activity EXCEPT ![n][c] = 0]
           /\ Done(c)
  <2>1. LayerInv'
    BY Zenon, <1>0, <1>1, AsideInv DEF StoreInv, Done, SetMountParent
  <2>2. OperationInv'
    BY Zenon, <1>0, <1>1, DoneOperation
  <2>3. ReferencesInv'
    BY <1>0, <1>1 DEF StoreInv, MountTypeOK, ReferencesInv
  <2>4. mountDir' \in [Names -> Dir]
    <3>1. mountDir \in [Names -> Dir]
      BY Zenon DEF StoreInv, MountTypeOK
    <3>2. [mountDir[n] EXCEPT !.parent = ch] \in Dir
      BY Zenon, <3>1
    <3>3. mountDir' \in {mountDir,
                         [mountDir EXCEPT ![n] = [mountDir[n] EXCEPT !.parent = ch]]}
      BY Zenon, <1>1, <3>1
    <3> HIDE DEF Dir
    <3>4. QED
      BY Zenon, <3>1, <3>2, <3>3
  <2>5. activity' \in [Names -> [Clients -> 0..maxActivity]]
    <3>1. activity \in [Names -> [Clients -> 0..maxActivity]] /\ 0 \in 0..maxActivity
      BY MountAssumption DEF StoreInv, MountTypeOK
    <3>2. [activity[n] EXCEPT ![c] = 0] \in [Clients -> 0..maxActivity]
      BY Zenon, <3>1
    <3>3. activity' = [activity EXCEPT ![n] = [activity[n] EXCEPT ![c] = 0]]
      BY Zenon, <1>1, <3>1
    <3>4. QED
      BY Zenon, <3>1, <3>2, <3>3
  <2>6. MountTypeOK'
    BY <1>0, <1>1, <2>1, <2>2, <2>4, <2>5
       DEF StoreInv, LayerInv, MountTypeOK, OperationInv, Done, SetMountParent
  <2>7. PinsExact'
    <3>1. SUFFICES ASSUME NEW k \in Chains
                   PROVE  pins'[k] = Cardinality(MountsOn(k)') + Owed(rw', k)
      BY Zenon DEF PinsExact, Owed, One
    <3>2. pins'[k] = pins[k]
      BY Zenon DEF SetMountParent
    <3>3. pins[k] = Cardinality(MountsOn(k)) + One(ch = k) /\ Owed(rw', k) = 0
      BY Zenon, <1>0, <1>1 DEF StoreInv, PinsExact, Owed, One, Done, NoRW
    <3>4. n \notin MountsOn(k) /\ (n \in MountsOn(k)' <=> ch = k)
      BY Zenon, <1>0, <1>1 DEF StoreInv, MountTypeOK, MountsOn
    <3>5. MountsOn(k) \ {n} = MountsOn(k)' \ {n}
      BY Zenon, <1>1 DEF StoreInv, MountTypeOK, MountsOn
    <3>6. IsFiniteSet(MountsOn(k))
      BY Zenon, MountsFinite DEF StoreInv, MountTypeOK
    <3>7. /\ Cardinality(MountsOn(k)') \in Nat
          /\ Cardinality(MountsOn(k)') = Cardinality(MountsOn(k)) + One(ch = k)
      BY <3>4, <3>5, <3>6, CardChange DEF One
    <3>8. QED
      BY <3>2, <3>3, <3>7
  <2>8. QED
    BY Zenon, <2>1, <2>2, <2>3, <2>6, <2>7 DEF StoreInv
<1>2. CASE /\ ch # None
           /\ FailCreate(c)
           /\ UNCHANGED <<mountDir, mounts, mparent, mrefs, activity>>
  <2>1. Holds(c, "setMountParent") /\ At(c, "drop")
    BY Zenon, <1>0, <1>2 DEF FailCreate, Holds
  <2>2. /\ mountDir' \in [Names -> Dir]
        /\ mountData' \subseteq Names
        /\ driverMounts' \in [Names -> Nat]
    BY Zenon, <1>2 DEF SetMountParent, StoreInv, MountTypeOK
  <2>3. QED
    BY Zenon, <1>2, <2>1, <2>2, InsideInv DEF SetMountParent, Creating
<1>3. QED
  BY Zenon, <1>0, <1>1, <1>2 DEF SetMountParent

\* The pin of a mount that leaves the map becomes that of its removal.
LEMMA RemoveMountInv ==
    ASSUME StoreInv, NEW c \in Clients, RemoveMount(c)
    PROVE  StoreInv'
<1> DEFINE Dir == [id : BOOLEAN, parent : Chains \cup {None}]
<1>0. PICK n \in Names :
         /\ rw.name = n /\ n \in mounts /\ rw.ch = mparent[n] /\ mrefs[n] = {}
         /\ mountL = c /\ rw.at = "removeMount" /\ pc[c] = "elsewhere"
  BY Zenon, HolderState DEF RemoveMount, StoreInv, OperationInv, Removing
<1>a. mountDir \in [Names -> Dir] /\ NoFiles \in Dir
  BY Zenon, FileTypes DEF NoFiles
<1>1. CASE /\ mountDir' = [mountDir EXCEPT ![n] = NoFiles]
           /\ mounts' = mounts \ {n}
           /\ At(c, "drop")
  <2>1. LayerInv'
    BY Zenon, <1>1, LayerSame DEF StoreInv, At, RemoveMount, layerVars, memVars
  <2>2. OperationInv' /\ rw'.ch = rw.ch /\ rw'.at = "drop"
    BY Zenon, <1>0, <1>1, AtOperation DEF Creating, Removing
  <2>3. ReferencesInv'
    BY Zenon, <1>0, <1>1 DEF StoreInv, ReferencesInv, RemoveMount
  <2>4. MountTypeOK'
    BY Zenon, <1>0, <1>1, <1>a, <2>1, <2>2
       DEF StoreInv, LayerInv, MountTypeOK, OperationInv, At, RemoveMount
  <2>5. PinsExact'
    <3>1. SUFFICES ASSUME NEW k \in Chains
                   PROVE  pins'[k] = Cardinality(MountsOn(k)') + Owed(rw', k)
      BY Zenon DEF PinsExact, Owed, One
    <3>2. pins'[k] = pins[k] /\ mparent' = mparent
      BY Zenon DEF RemoveMount
    <3>3. pins[k] = Cardinality(MountsOn(k)) /\ Owed(rw', k) = One(mparent[n] = k)
      BY SMTT(30), <1>0, <2>2, MountsFinite DEF StoreInv, MountTypeOK, PinsExact, Owed, One
    <3>4. n \notin MountsOn(k)' /\ (n \in MountsOn(k) <=> mparent[n] = k)
      BY Zenon, <1>0, <1>1 DEF MountsOn
    <3>5. MountsOn(k) \ {n} = MountsOn(k)' \ {n}
      BY Zenon, <1>1, <3>2 DEF MountsOn
    <3>6. IsFiniteSet(MountsOn(k))
      BY Zenon, MountsFinite DEF StoreInv, MountTypeOK
    <3>7. /\ Cardinality(MountsOn(k)') \in Nat
          /\ Cardinality(MountsOn(k)) = Cardinality(MountsOn(k)') + One(mparent[n] = k)
      BY <3>4, <3>5, <3>6, CardChange DEF One
    <3>8. QED
      BY Zenon, <3>2, <3>3, <3>7
  <2>6. QED
    BY Zenon, <2>1, <2>2, <2>3, <2>4, <2>5 DEF StoreInv
<1>2. CASE /\ \E left \in MountRemains(n) : mountDir' = [mountDir EXCEPT ![n] = left]
           /\ Done(c)
           /\ UNCHANGED mounts
  <2>1. MountRemains(n) \subseteq Dir
    <3>1. mountDir[n].id \in BOOLEAN /\ mountDir[n].parent \in Chains \cup {None}
      BY Zenon, <1>a
    <3>2. SUFFICES ASSUME NEW left \in MountRemains(n)
                   PROVE  left \in Dir
      BY Zenon
    <3>3. PICK i \in {mountDir[n].id, FALSE}, p \in {mountDir[n].parent, None} :
             left = [id |-> i, parent |-> p]
      BY DEF MountRemains
    <3>4. i \in BOOLEAN /\ p \in Chains \cup {None}
      BY Zenon, <3>1
    <3>5. QED
      BY Zenon, <3>3, <3>4
  <2> HIDE DEF Dir
  <2>2. mountDir' \in [Names -> Dir]
    BY Zenon, <1>2, <1>a, <2>1
  <2> USE DEF Dir
  <2>3. Holds(c, "removeMount")
    BY Zenon DEF RemoveMount
  <2>4. mountData' \subseteq Names /\ driverMounts' \in [Names -> Nat]
    BY Zenon, FileTypes DEF RemoveMount
  <2>5. UNCHANGED <<layerMap, parent, referenceCount, references, pins, layerL,
                    panicked, diskVars, mounts, mparent, mrefs, activity>>
    BY Zenon, <1>2 DEF RemoveMount
  <2>6. /\ "removeMount" \in (Creating \ {"get"}) \cup Removing
        /\ "removeMount" \notin Creating
    BY Zenon DEF Removing, Creating
  <2>7. QED
    BY Zenon, <1>2, <2>2, <2>3, <2>4, <2>5, <2>6, InsideInv
<1>3. QED
  BY Zenon, <1>0, <1>1, <1>2 DEF RemoveMount

\* The pin of an operation that ends becomes a use by the loop of releaseLayer.
LEMMA DropParentInv ==
    ASSUME StoreInv, NEW c \in Clients, DropParent(c)
    PROVE  StoreInv'
<1> USE DEF DropParent
<1>0. /\ mountL = c /\ rw.at = "drop" /\ pc[c] = "elsewhere" /\ c # None
      /\ rw.ch \in Chains \cup {None} /\ rw.name \in Names \cup {None}
      /\ None \notin Chains
  BY Zenon, HolderState, ChainAssumption
<1>1. CASE rw.ch = None /\ Done(c) /\ UNCHANGED <<layerL, pins>>
  <2>1. LayerInv'
    BY Zenon, <1>0, <1>1, AsideInv DEF StoreInv, Done
  <2>2. OperationInv'
    BY Zenon, <1>0, <1>1, DoneOperation
  <2>3. PinsExact'
    <3>1. \A k \in Chains : pins'[k] + Owed(rw, k) = pins[k] + Owed(rw', k)
      BY Zenon, <1>0, <1>1 DEF Owed, One, Done, NoRW
    <3>2. pins' \in [Chains -> Nat]
      BY Zenon, <2>1 DEF LayerInv, LayerTypeOK
    <3>3. QED
      BY Zenon, <3>1, <3>2, PinsSame
  <2>4. QED
    BY <1>1, <2>1, <2>2, <2>3 DEF StoreInv, LayerInv, MountTypeOK, ReferencesInv,
       OperationInv, Done
<1>2. CASE /\ rw.ch # None
           /\ EnterRelease(c, rw.ch)
           /\ pins' = [pins EXCEPT ![rw.ch] = @ - 1]
           /\ rw' = [rw EXCEPT !.at = "dropping"]
           /\ UNCHANGED mountL
  <2>0. rw.ch \in Chains /\ pins[rw.ch] \in Nat \ {0}
    <3>1. rw.ch \in Chains
      BY Zenon, <1>0, <1>2
    <3>2. pins[rw.ch] = Cardinality(MountsOn(rw.ch)) + 1
      BY Zenon, <1>0, <3>1 DEF StoreInv, PinsExact
    <3>3. Cardinality(MountsOn(rw.ch)) \in Nat
      BY Zenon, MountsFinite DEF StoreInv, MountTypeOK
    <3>4. QED
      BY <3>1, <3>2, <3>3
  <2>1. LayerInv'
    BY Zenon, <1>0, <1>2, <2>0, UnpinInv DEF StoreInv
  <2>2. rw' = [at |-> "dropping", name |-> rw.name, ch |-> rw.ch]
    BY Zenon, <1>2 DEF StoreInv, OperationInv
  <2>3. OperationInv'
    <3>1. pc'[c] = "releasing" /\ \A d \in Clients \ {c} : pc'[d] = pc[d]
      BY Zenon, <1>2 DEF EnterRelease, Go, StoreInv, LayerInv, LayerTypeOK
    <3>2. \A d \in Clients \ {c} : pc[d] # "elsewhere"
      BY Zenon, <1>0 DEF StoreInv, OperationInv
    <3>3. rw'.at = "dropping" /\ mountL' = c
      BY Zenon, <1>0, <1>2, <2>2
    <3>4. rw' \in [at : Creating \cup Removing \cup {"none", "drop", "dropping"},
                  name : Names \cup {None}, ch : Chains \cup {None}]
      BY Zenon, <1>0, <2>2
    <3>5. "dropping" \notin Creating \cup Removing
      BY Zenon DEF Creating, Removing
    <3>6. QED
      BY <1>0, <3>1, <3>2, <3>3, <3>4, <3>5 DEF OperationInv
  <2>4. PinsExact'
    <3>1. ASSUME NEW k \in Chains
          PROVE  pins'[k] + Owed(rw, k) = pins[k] + Owed(rw', k)
      <4>1. Owed(rw, k) = One(rw.ch = k) /\ Owed(rw', k) = 0
        BY Zenon, <1>0, <2>2 DEF Owed, One
      <4>2. pins[k] \in Nat /\ pins'[k] = IF rw.ch = k THEN pins[k] - 1 ELSE pins[k]
        BY Zenon, <1>2, <2>0 DEF StoreInv, LayerInv, LayerTypeOK
      <4>3. QED
        BY <4>1, <4>2 DEF One
    <3>2. pins' \in [Chains -> Nat]
      BY Zenon, <2>1 DEF LayerInv, LayerTypeOK
    <3>3. QED
      BY Zenon, <3>1, <3>2, PinsSame
  <2>5. QED
    BY <1>2, <2>1, <2>3, <2>4 DEF StoreInv, LayerInv, MountTypeOK, ReferencesInv,
       OperationInv
<1>3. QED
  BY Zenon, <1>1, <1>2

-----------------------------------------------------------------------------
(* The other steps, and the theorems *)

\* The last reference goes, and the removal of the mount begins under mountL.
LEMMA ReleaseRWLayerInv ==
    ASSUME StoreInv, NEW c \in Clients, NEW n \in Names, ReleaseRWLayer(c, n)
    PROVE  StoreInv'
<1> USE DEF ReleaseRWLayer
<1>0. n \in mounts /\ mparent[n] \in Chains \cup {None} /\ c # None
  BY Zenon, ChainAssumption DEF StoreInv, ReferencesInv, MountTypeOK
<1>1. ReferencesInv' /\ mrefs' \in [Names -> SUBSET Clients]
  BY Zenon, <1>0 DEF StoreInv, MountTypeOK, ReferencesInv
<1>2. rw = NoRW /\ \A d \in Clients : pc[d] # "elsewhere"
  BY Zenon, ChainAssumption DEF StoreInv, OperationInv
<1>3. CASE mrefs'[n] # {}
  <2>1. UNCHANGED <<mountL, rw, pc, tgt>>
    BY Zenon, <1>3
  <2>2. LayerInv'
    BY Zenon, <2>1, LayerSame DEF StoreInv, layerVars, memVars
  <2>3. OperationInv'
    BY Zenon, <1>2, <2>1 DEF StoreInv, OperationInv, NoRW, Creating, Removing
  <2>4. PinsExact'
    BY Zenon, <2>1 DEF StoreInv, PinsExact, MountsOn
  <2>5. QED
    BY Zenon, <1>1, <2>1, <2>2, <2>3, <2>4 DEF StoreInv, LayerInv, MountTypeOK
<1>4. CASE mrefs'[n] = {}
  <2>1. /\ mountL' = c
        /\ rw' = [at |-> "remove", name |-> n, ch |-> mparent[n]]
        /\ Go(c, "elsewhere", None)
    BY Zenon, <1>4
  <2>2. LayerInv'
    BY Zenon, <2>1, AsideInv DEF StoreInv
  <2>3. OperationInv'
    <3>1. pc'[c] = "elsewhere" /\ \A d \in Clients \ {c} : pc'[d] = pc[d]
      BY Zenon, <2>1 DEF Go, StoreInv, LayerInv, LayerTypeOK
    <3>2. QED
      BY Zenon, <1>0, <1>2, <1>4, <2>1, <3>1 DEF OperationInv, Creating, Removing
  <2>4. PinsExact'
    <3>1. \A k \in Chains : pins'[k] + Owed(rw, k) = pins[k] + Owed(rw', k)
      BY Zenon, <1>2, <2>1 DEF Owed, One, NoRW
    <3>2. pins' \in [Chains -> Nat]
      BY Zenon, <2>2 DEF LayerInv, LayerTypeOK
    <3>3. QED
      BY Zenon, <3>1, <3>2, PinsSame
  <2>5. QED
    BY Zenon, <1>0, <1>1, <2>1, <2>2, <2>3, <2>4 DEF StoreInv, LayerInv, MountTypeOK
<1>5. QED
  BY Zenon, <1>3, <1>4

\* GetRWLayer, Mount and Unmount change references and activities only.
LEMMA ActivityInv ==
    ASSUME StoreInv, NEW c \in Clients, NEW n \in Names,
           GetRWLayer(c, n) \/ Mount(c, n) \/ Unmount(c, n)
    PROVE  StoreInv'
<1> USE DEF GetRWLayer, Mount, Unmount
<1>0. UNCHANGED <<layerVars, mounts, mparent, mountL, rw, mountDir, mountData>>
  BY Zenon
<1>1. LayerInv' /\ UNCHANGED <<pins, pc>>
  BY Zenon, <1>0, LayerSame DEF StoreInv, layerVars, memVars
<1>2. /\ activity[n] \in [Clients -> 0..maxActivity]
      /\ activity[n][c] \in Nat /\ maxActivity \in Nat
      /\ activity \in [Names -> [Clients -> 0..maxActivity]]
  BY SMTT(40), MountAssumption DEF StoreInv, MountTypeOK
<1>3. PICK k \in 0..maxActivity :
         /\ activity' = [activity EXCEPT ![n] = [activity[n] EXCEPT ![c] = k]]
         /\ c \in mrefs'[n] \/ k = 0
  <2> DEFINE Set(k) == [activity EXCEPT ![n] = [activity[n] EXCEPT ![c] = k]]
  <2>1. CASE GetRWLayer(c, n)
    <3>1. activity' = Set(0) /\ 0 \in 0..maxActivity
      BY <1>2, <2>1
    <3>2. QED
      BY Zenon, <3>1
  <2>2. CASE Mount(c, n)
    <3>1. /\ activity' = Set(activity[n][c] + 1)
          /\ activity[n][c] + 1 \in 0..maxActivity
          /\ c \in mrefs'[n]
      BY SMTT(30), <1>2, <2>2
    <3>2. QED
      BY Zenon, <3>1
  <2>3. CASE Unmount(c, n)
    <3>1. /\ activity' = Set(activity[n][c] - 1)
          /\ activity[n][c] - 1 \in 0..maxActivity
          /\ c \in mrefs'[n]
      BY <1>2, <2>3
    <3>2. QED
      BY Zenon, <3>1
  <2>4. QED
    BY Zenon, <2>1, <2>2, <2>3
<1>4. activity' \in [Names -> [Clients -> 0..maxActivity]]
  <2>1. [activity[n] EXCEPT ![c] = k] \in [Clients -> 0..maxActivity]
    BY Zenon, <1>2
  <2>2. QED
    BY Zenon, <1>2, <1>3, <2>1
<1>5. /\ mrefs' \in [Names -> SUBSET Clients]
      /\ \A m \in Names : mrefs[m] \subseteq mrefs'[m]
      /\ \A m \in Names \ mounts : mrefs'[m] = mrefs[m]
      /\ mountL = None \/ mrefs' = mrefs
  <2>1. mrefs \in [Names -> SUBSET Clients]
    BY Zenon DEF StoreInv, MountTypeOK
  <2>2. CASE GetRWLayer(c, n)
    BY Zenon, <2>1, <2>2
  <2>3. CASE Mount(c, n) \/ Unmount(c, n)
    <3>1. mrefs' = mrefs
      BY Zenon, <2>3
    <3>2. QED
      BY Zenon, <2>1, <3>1
  <2>4. QED
    BY Zenon, <2>2, <2>3
<1>6. driverMounts' \in [Names -> Nat]
  <2>1. driverMounts \in [Names -> Nat]
    BY Zenon DEF StoreInv, MountTypeOK
  <2>2. (IF driverMounts[n] = 0 THEN 0 ELSE driverMounts[n] - 1) \in Nat
    BY SMTT(30), <2>1
  <2>3. PICK m \in Nat : driverMounts' = driverMounts
                          \/ driverMounts' = [driverMounts EXCEPT ![n] = m]
    BY <2>1, <2>2
  <2>4. QED
    BY Zenon, <2>1, <2>3
<1>7. ReferencesInv'
  BY SMTT(30), <1>0, <1>2, <1>3, <1>5 DEF StoreInv, ReferencesInv
<1>8. OperationInv'
  BY Zenon, <1>0, <1>1, <1>5 DEF StoreInv, OperationInv, NoRW, Creating, Removing
<1>9. PinsExact'
  BY Zenon, <1>0, <1>1 DEF StoreInv, PinsExact, MountsOn
<1>10. QED
  BY Zenon, <1>0, <1>1, <1>4, <1>5, <1>6, <1>7, <1>8, <1>9 DEF StoreInv, LayerInv, MountTypeOK

\* What a step on the read-only layers leaves alone.
LEMMA LayerStepFrame ==
    ASSUME LayerTypeOK, NEW c \in Clients, LayerStep(c)
    PROVE  /\ pins' = pins
           /\ \A d \in Clients \ {c} : pc'[d] = pc[d]
           /\ pc[c] # "elsewhere" /\ pc'[c] # "elsewhere"
           /\ pc[c] \in {"releasing", "removing"} =>
                 pc'[c] \in {"idle", "releasing", "removing"}
<1> USE DEF LayerTypeOK, Go
<1>1. CASE \E ch \in Chains : Get(c, ch) \/ Release(c, ch)
  BY SMTT(30), <1>1 DEF Get, Release, EnterRelease
<1>2. CASE \E ch \in Chains : Register(c, ch)
  <2>1. PICK ch \in Chains : Register(c, ch)
    BY Zenon, <1>2
  <2>2. pins' = pins /\ pc[c] = "idle"
        /\ \E s \in {"undoing", "registering"} : pc' = [pc EXCEPT ![c] = s]
    BY Zenon, <2>1 DEF Register
  <2>3. QED
    BY Zenon, <2>2
<1>3. CASE GetReference(c) \/ ReleaseParent(c)
  BY Zenon, <1>3 DEF GetReference, ReleaseParent, EnterRelease
<1>4. CASE Prepare(c)
  BY Zenon, <1>4 DEF Prepare, Undo
<1>5. CASE CommitLayer(c)
  BY Zenon, <1>5 DEF CommitLayer, Undo
<1>6. CASE releaseLayer(c)
  BY SMTT(30), <1>6 DEF releaseLayer, LeaveRelease, DriverRemove
<1>7. CASE removeMetadata(c)
  BY SMTT(30), <1>7 DEF removeMetadata, LeaveRelease
<1>8. QED
  BY Zenon, <1>1, <1>2, <1>3, <1>4, <1>5, <1>6, <1>7 DEF LayerStep

\* A step on the read-only layers, which may end an operation on a mount.
LEMMA ReadOnlyStepInv ==
    ASSUME StoreInv, NEW c \in Clients, ReadOnlyStep(c)
    PROVE  StoreInv'
<1> USE DEF ReadOnlyStep
<1>1. LayerInv'
  BY Zenon, LayerStepInv DEF StoreInv
<1>2. /\ pins' = pins
      /\ \A d \in Clients \ {c} : pc'[d] = pc[d]
      /\ pc[c] # "elsewhere" /\ pc'[c] # "elsewhere"
      /\ pc[c] \in {"releasing", "removing"} =>
            pc'[c] \in {"idle", "releasing", "removing"}
  BY Zenon, LayerStepFrame DEF StoreInv, LayerInv
<1>3. CASE mountL = c /\ pc'[c] = "idle"
  <2>1. mountL' = None /\ rw' = NoRW /\ rw.at = "dropping"
    BY Zenon, <1>2, <1>3 DEF StoreInv, OperationInv
  <2>2. OperationInv'
    BY Zenon, <1>2, <1>3, <2>1, ChainAssumption
       DEF StoreInv, OperationInv, NoRW, Creating, Removing
  <2>3. PinsExact'
    <3>1. \A k \in Chains : pins'[k] + Owed(rw, k) = pins[k] + Owed(rw', k)
      BY Zenon, <1>2, <2>1 DEF Owed, One, NoRW
    <3>2. pins' \in [Chains -> Nat]
      BY Zenon, <1>1 DEF LayerInv, LayerTypeOK
    <3>3. QED
      BY Zenon, <3>1, <3>2, PinsSame
  <2>4. QED
    BY ZenonT(30), <1>1, <2>1, <2>2, <2>3 DEF StoreInv, LayerInv, MountTypeOK, ReferencesInv,
       OperationInv
<1>4. CASE ~(mountL = c /\ pc'[c] = "idle")
  <2>1. UNCHANGED <<mountL, rw>>
    BY Zenon, <1>4
  <2>2. OperationInv'
    BY Zenon, <1>2, <1>4, <2>1 DEF StoreInv, OperationInv
  <2>3. PinsExact'
    BY Zenon, <1>2, <2>1 DEF StoreInv, PinsExact, MountsOn
  <2>4. QED
    BY Zenon, <1>1, <2>1, <2>2, <2>3 DEF StoreInv, LayerInv, MountTypeOK, ReferencesInv
<1>5. QED
  BY Zenon, <1>3, <1>4

\* loadMount takes a mount only if it has loaded the layer it stands on.
LEMMA RestartStoreInv ==
    ASSUME StoreInv, RestartStore
    PROVE  StoreInv'
<1>1. PICK dirs \in CrashedMountDirs, meta \in CrashedMetadata :
         /\ mountDir' = dirs /\ metadata' = meta
         /\ mounts' = LoadedMounts(meta, dirs)
         /\ Load(meta, [ch \in Chains |->
                 Cardinality({n \in LoadedMounts(meta, dirs) : dirs[n].parent = ch})])
         /\ mparent' = [n \in Names |-> dirs[n].parent]
  BY Zenon DEF RestartStore
<1> DEFINE On(ch) == {n \in LoadedMounts(meta, dirs) : dirs[n].parent = ch}
           mountPins == [ch \in Chains |-> Cardinality(On(ch))]
<1>2. LoadedMounts(meta, dirs) \subseteq Names
  BY Zenon DEF LoadedMounts
<1>3. dirs \in [Names -> [id : BOOLEAN, parent : Chains \cup {None}]]
  BY Zenon DEF CrashedMountDirs
<1>4. ASSUME NEW ch \in Chains
      PROVE  IsFiniteSet(On(ch)) /\ Cardinality(On(ch)) \in Nat
  <2>1. On(ch) \subseteq Names
    BY Zenon, <1>2
  <2> HIDE DEF On
  <2>2. QED
    BY Zenon, <2>1, MountAssumption, FS_Subset, FS_CardinalityType
<1>5. ASSUME NEW ch \in Chains, Cardinality(On(ch)) # 0
      PROVE  ch \in Loadable(meta)
  <2>1. On(ch) # {}
    BY Zenon, <1>5, FS_EmptySet
  <2>2. PICK n \in On(ch) : TRUE
    BY Zenon, <2>1
  <2>3. QED
    BY Zenon, <2>2, ChainAssumption DEF LoadedMounts
<1>6. Load(meta, mountPins)
  BY Zenon, <1>1
<1>7. \A ch \in Chains : MountsOn(ch)' = On(ch)
  BY Zenon, <1>1, <1>2 DEF MountsOn
<1> HIDE DEF On
<1>8. mountPins \in [Chains -> Nat] /\ \A ch \in Chains : mountPins[ch] = Cardinality(On(ch))
  BY Zenon, <1>4
<1> HIDE DEF mountPins
<1>9. ForgetClients
  BY Zenon DEF RestartStore
<1>10. LayerInv'
  BY Zenon, <1>1, <1>5, <1>6, <1>8, <1>9, LoadInv DEF StoreInv
<1>11. mountL' = None /\ rw' = NoRW /\ \A c \in Clients : pc'[c] = "idle"
  BY Zenon DEF RestartStore, ForgetClients
<1>12. OperationInv'
  BY Zenon, <1>11, ChainAssumption DEF OperationInv, NoRW, Creating, Removing
<1>13. PinsExact'
  <2>1. SUFFICES ASSUME NEW ch \in Chains
                 PROVE  pins'[ch] = Cardinality(MountsOn(ch)') + Owed(rw', ch)
    BY Zenon DEF PinsExact, Owed, One
  <2>2. pins'[ch] = Cardinality(On(ch)) /\ Owed(rw', ch) = 0
    BY Zenon, <1>6, <1>8, <1>11 DEF Load, Owed, One, NoRW
  <2>3. QED
    BY <1>4, <1>7, <2>2
<1>14. ReferencesInv'
  BY Zenon DEF RestartStore, ReferencesInv
<1>15. MountTypeOK'
  <2>1. /\ mounts' \subseteq Names
        /\ mparent' \in [Names -> Chains \cup {None}]
        /\ mountDir' \in [Names -> [id : BOOLEAN, parent : Chains \cup {None}]]
    BY Zenon, <1>1, <1>2, <1>3
  <2>2. /\ mrefs' \in [Names -> SUBSET Clients]
        /\ activity' \in [Names -> [Clients -> 0..maxActivity]]
        /\ driverMounts' \in [Names -> Nat]
        /\ mountData' \subseteq Names
    BY SMTT(40), MountAssumption DEF RestartStore, StoreInv, MountTypeOK
  <2>3. QED
    BY Zenon, <1>10, <1>11, <1>12, <2>1, <2>2 DEF LayerInv, MountTypeOK, OperationInv
<1>16. QED
  BY Zenon, <1>10, <1>12, <1>13, <1>14, <1>15 DEF StoreInv

-----------------------------------------------------------------------------
(* The theorems.                                                           *)

\* A store without mounts satisfies the invariant.
LEMMA StoreInitInv ==
    ASSUME StoreInit
    PROVE  StoreInv
<1> USE DEF StoreInit, MountInit
<1>1. LayerInv
  BY Zenon, LayerInitInv
<1>2. /\ \A c \in Clients : pc[c] = "idle"
      /\ \A ch \in Chains : pins[ch] = 0
  BY Zenon DEF LayerInit
<1>3. OperationInv
  BY Zenon, <1>2, ChainAssumption DEF OperationInv, NoRW, Creating, Removing
<1>4. MountTypeOK
  BY SMTT(30), <1>1, <1>3, MountAssumption DEF LayerInv, MountTypeOK, OperationInv, NoFiles
<1>5. PinsExact
  <2>1. SUFFICES ASSUME NEW ch \in Chains
                 PROVE  pins[ch] = Cardinality(MountsOn(ch)) + Owed(rw, ch)
    BY Zenon DEF PinsExact, Owed, One
  <2>2. MountsOn(ch) = {}
    BY Zenon DEF MountsOn
  <2>3. Owed(rw, ch) = 0
    BY Zenon DEF Owed, One, NoRW
  <2>4. QED
    BY <1>2, <2>2, <2>3, FS_EmptySet
<1>6. QED
  BY Zenon, <1>1, <1>3, <1>4, <1>5 DEF StoreInv, ReferencesInv

\* Every step keeps it: the steps on layers, those on mounts, and the restart.
LEMMA StoreNextInv ==
    ASSUME StoreInv, StoreNext
    PROVE  StoreInv'
<1>1. ASSUME NEW c \in Clients, MountStep(c)
      PROVE  StoreInv'
  <2>1. CASE \E n \in Names, ch \in Chains \cup {None} : CreateRWLayer(c, n, ch)
    BY Zenon, <2>1, CreateRWLayerInv
  <2>2. CASE \E n \in Names : GetRWLayer(c, n) \/ Mount(c, n) \/ Unmount(c, n)
    BY Zenon, <2>2, ActivityInv
  <2>3. CASE \E n \in Names : ReleaseRWLayer(c, n)
    BY Zenon, <2>3, ReleaseRWLayerInv
  <2>4. CASE GetParent(c) \/ CreateDriverLayer(c) \/ SetMountID(c) \/ SetMountParent(c)
    BY Zenon, <2>4, GetParentInv, CreateDriverLayerInv, SetMountIDInv, SetMountParentInv
  <2>5. CASE RemoveDriverLayer(c) \/ RemoveMount(c) \/ DropParent(c)
    BY Zenon, <2>5, RemoveDriverLayerInv, RemoveMountInv, DropParentInv
  <2>6. QED
    BY Zenon, <1>1, <2>1, <2>2, <2>3, <2>4, <2>5 DEF MountStep
<1>2. QED
  BY Zenon, <1>1, ReadOnlyStepInv, RestartStoreInv DEF StoreNext

\* The inductive invariant of the whole layer store, which contains that of the
\* read-only layers: mounts cannot break what LayerStore promises.
THEOREM StoreInvariant == StoreSpec => []StoreInv
<1>1. StoreInit => StoreInv
  BY Zenon, StoreInitInv
<1>2. StoreInv /\ [StoreNext]_storeVars => StoreInv'
  <2>1. SUFFICES ASSUME StoreInv, [StoreNext]_storeVars
                 PROVE  StoreInv'
    BY Zenon
  <2>2. CASE UNCHANGED storeVars
    <3>1. LayerInv'
      BY Zenon, <2>1, <2>2, LayerSame DEF StoreInv, storeVars
    <3>2. UNCHANGED <<mountVars, pc, pins>>
      BY Zenon, <2>2 DEF storeVars, layerVars, memVars
    <3>3. QED
      BY SMTT(40), <2>1, <3>1, <3>2 DEF StoreInv, mountVars, LayerInv, MountTypeOK, OperationInv,
         ReferencesInv, PinsExact, MountsOn
  <2>3. QED
    BY Zenon, <2>1, <2>2, StoreNextInv
<1>3. QED
  BY <1>1, <1>2, PTL DEF StoreSpec

\* The counts that the read-only layers owe to mounts are those of the mounts in
\* the map and of the operation under way, whatever has failed.
THEOREM PinsAreExact == StoreSpec => []PinsExact
<1>1. StoreInv => PinsExact
  BY Zenon DEF StoreInv
<1>2. QED
  BY <1>1, StoreInvariant, PTL

\* A mount keeps the whole chain that it stands on.
THEOREM MountsStandOnChains == StoreSpec => []MountStandsOnChain
<1>1. ASSUME StoreInv, NEW n \in mounts, mparent[n] # None
      PROVE  /\ mparent[n] \in layerMap
             /\ \/ \E k \in Chain(mparent[n]) : k \in doomed
                \/ \A k \in Chain(mparent[n]) : k \in layerMap \cap data
                                                /\ metadata[k] = "whole"
  <2>1. mparent[n] \in Chains
    BY Zenon, <1>1 DEF StoreInv, MountTypeOK
  <2>2. n \in MountsOn(mparent[n])
    BY Zenon DEF MountsOn
  <2>3. pins[mparent[n]] # 0
    <3>1. /\ IsFiniteSet(MountsOn(mparent[n]))
          /\ Cardinality(MountsOn(mparent[n])) \in Nat
      BY Zenon, <1>1, MountsFinite DEF StoreInv, MountTypeOK
    <3>2. Cardinality(MountsOn(mparent[n])) # 0
      BY Zenon, <2>2, <3>1, FS_EmptySet
    <3>3. QED
      BY SMTT(40), <1>1, <2>1, <3>1, <3>2 DEF StoreInv, PinsExact
  <2>4. mparent[n] \in layerMap
    BY Zenon, <1>1, <2>1, <2>3 DEF StoreInv, LayerInv, MapInv
  <2>5. LayerInv
    BY Zenon, <1>1 DEF StoreInv
  <2>6. QED
    BY Zenon, <2>4, <2>5, ChainWhole
<1>2. StoreInv => MountStandsOnChain
  BY Zenon, <1>1 DEF MountStandsOnChain
<1>3. QED
  BY <1>2, StoreInvariant, PTL

\* The data of a writable layer goes only when nobody holds or has it mounted.
THEOREM MountedDataStays == StoreSpec => MountedStays
<1> DEFINE Safe == \A n \in mountData \ mountData' :
                      /\ mrefs[n] = {}
                      /\ \A c \in Clients : activity[n][c] = 0
<1>1. ASSUME StoreInv, StoreNext
      PROVE  Safe
  <2>1. CASE \E c \in Clients : RemoveDriverLayer(c)
    <3>1. PICK c \in Clients : RemoveDriverLayer(c)
      BY Zenon, <2>1
    <3>2. rw.name \in Names /\ mrefs[rw.name] = {}
      BY Zenon, <1>1, <3>1 DEF RemoveDriverLayer, Holds, StoreInv, OperationInv, MountTypeOK,
         Removing
    <3>3. \A n \in mountData \ mountData' : n = rw.name
      BY Zenon, <3>1 DEF RemoveDriverLayer
    <3>4. QED
      BY Zenon, <1>1, <3>2, <3>3 DEF StoreInv, ReferencesInv
  <2>2. CASE ~ \E c \in Clients : RemoveDriverLayer(c)
    <3>1. mountData \subseteq mountData'
      <4>1. CASE RestartStore
        BY Zenon, <4>1 DEF RestartStore
      <4>2. ASSUME NEW c \in Clients, ReadOnlyStep(c)
            PROVE  mountData \subseteq mountData'
        BY Zenon, <4>2 DEF ReadOnlyStep
      <4>3. ASSUME NEW c \in Clients, MountStep(c)
            PROVE  mountData \subseteq mountData'
        BY Zenon, <2>2, <4>3 DEF MountStep, CreateRWLayer, GetRWLayer, Mount, Unmount,
           ReleaseRWLayer, GetParent, CreateDriverLayer, SetMountID, SetMountParent,
           RemoveMount, DropParent
      <4>4. QED
        BY Zenon, <1>1, <4>1, <4>2, <4>3 DEF StoreNext
    <3>2. QED
      BY Zenon, <3>1
  <2>3. QED
    BY Zenon, <2>1, <2>2
<1>2. StoreInv /\ [StoreNext]_storeVars => [Safe]_storeVars
  BY Zenon, <1>1
<1>3. QED
  BY <1>2, StoreInvariant, PTL DEF StoreSpec, MountedStays

\* With writable layers mounted, created and removed at the same time, the
\* assertions of releaseLayer still hold, the counts are exact and what a client
\* holds is whole.
THEOREM StoreKeepsLayers == StoreSpec => [](NoPanic /\ CountsExact /\ HeldIsWhole)
<1>1. StoreInv => NoPanic /\ CountsExact /\ HeldIsWhole
  BY Zenon, ChainWhole DEF StoreInv, LayerInv, HeldIsWhole
<1>2. QED
  BY <1>1, StoreInvariant, PTL
=============================================================================
