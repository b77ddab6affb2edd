--------------------------- MODULE DownloadProofs ---------------------------
(***************************************************************************)
(* Proofs about Download.tla: the layer store has exactly the layers that  *)
(* an image, a call or a transfer holds, and a Download that has succeeded *)
(* has all its layers.                                                     *)
(***************************************************************************)
EXTENDS Download, SequenceTheorems, WellFoundedInduction, TLAPS

CallRecords == [pc : {"idle", "lookup", "transfer", "return", "have", "unwind"},
                todo : Seq(Blobs), key : Seq(Blobs), top : Seq(Blobs),
                watches : Seq(Nat), source : Seq([blob : Blobs, xfer : Nat]),
                missing : BOOLEAN]

XferRecords == [key : Seq(Blobs) \ {<<>>}, pc : {"fetch", "register", "done"},
                watchers : SUBSET Clients, tracked : BOOLEAN, cancelled : BOOLEAN,
                err : BOOLEAN, layer : BOOLEAN, parent : Nat, source : Nat,
                slot : {"active", "inactive", "waiting"}]

\* The types of the part of the state that the argument is about.
DownloadTypeOK ==
    /\ images \subseteq Seq(Blobs)
    /\ call \in [Clients -> CallRecords]
    /\ xfers \in Seq(XferRecords)

\* The store has the layers that somebody holds, and no others: every chain a
\* holder names has all its layers, and a layer goes with its last holder.
StoreIsHeld == layers = Held

\* A transfer that ended well has its layer until it is unused.
LayersInv == \A t \in DOMAIN xfers :
    xfers[t].pc = "done" /\ ~ xfers[t].err => xfers[t].layer \/ Unused(t)

\* The transfers that a call watches are for longer and longer parts of the image.
WatchesInv(a) ==
    \A i \in DOMAIN call[a].watches :
        /\ call[a].watches[i] \in DOMAIN xfers
        /\ call[a].pc # "unwind" =>
             /\ a \in xfers[call[a].watches[i]].watchers
             /\ \A j \in DOMAIN call[a].watches : i < j =>
                   Len(xfers[call[a].watches[i]].key) < Len(xfers[call[a].watches[j]].key)

\* The last one is for everything looked at so far, or all of it was there.
TopInv(a) ==
    LET c == call[a] IN
    /\ c.pc = "idle" => c.top = <<>>
    /\ c.pc = "lookup" => (c.missing <=> c.watches # <<>>)
    /\ c.pc = "transfer" => /\ c.key # <<>> /\ c.missing
                            /\ \A i \in DOMAIN c.watches : Len(xfers[c.watches[i]].key) < Len(c.key)
    /\ c.pc \in {"lookup", "return", "have"} /\ c.watches # <<>> => xfers[Top(a)].key = c.key
    /\ c.pc \in {"lookup", "have"} /\ c.watches = <<>> => c.top = c.key
    /\ c.pc = "return" => c.watches # <<>>
    /\ c.pc \in {"return", "have"} /\ c.watches # <<>> =>
         xfers[Top(a)].pc = "done" /\ ~ xfers[Top(a)].err

DownloadInv == /\ DownloadTypeOK
               /\ StoreIsHeld
               /\ LayersInv
               /\ \A a \in Clients : WatchesInv(a) /\ TopInv(a)

-----------------------------------------------------------------------------
(* Chains, and who holds them *)

\* The chains below a chain are chains, and have their own below them.
LEMMA PrefixFacts ==
    ASSUME NEW c \in Seq(Blobs), NEW d \in Prefixes(c)
    PROVE  d \in Seq(Blobs) /\ d # <<>> /\ Prefixes(d) \subseteq Prefixes(c)
<1>1. PICK n \in 1..Len(c) : d = SubSeq(c, 1, n)
  BY Zenon DEF Prefixes
<1>2. n \in Nat /\ n >= 1 /\ n <= Len(c)
  BY <1>1
<1>3. /\ d \in Seq(Blobs) /\ Len(d) = n
      /\ \A i \in 1..n : d[i] = c[i]
  BY <1>1, <1>2
<1>4. ASSUME NEW e \in Prefixes(d) PROVE e \in Prefixes(c)
  <2>1. PICK m \in 1..Len(d) : e = SubSeq(d, 1, m)
    BY Zenon DEF Prefixes
  <2>2. m \in 1..Len(c) /\ m <= n
    BY <1>2, <1>3, <2>1
  <2>3. e \in Seq(Blobs) /\ Len(e) = m /\ \A i \in 1..m : e[i] = c[i]
    BY <1>3, <2>1, <2>2
  <2>4. /\ SubSeq(c, 1, m) \in Seq(Blobs) /\ Len(SubSeq(c, 1, m)) = m
        /\ \A i \in 1..m : SubSeq(c, 1, m)[i] = c[i]
    BY <2>2
  <2>5. e = SubSeq(c, 1, m)
    BY Zenon, <2>3, <2>4, SeqEqual
  <2>6. QED
    BY Zenon, <2>2, <2>5 DEF Prefixes
<1>5. QED
  BY <1>2, <1>3, <1>4

\* A chain is its own last layer, on top of the chain below it.
LEMMA PrefixStep ==
    ASSUME NEW c \in Seq(Blobs), c # <<>>
    PROVE  /\ c \in Prefixes(c)
           /\ SubSeq(c, 1, Len(c) - 1) \in Seq(Blobs)
           /\ Prefixes(c) = {c} \cup Prefixes(SubSeq(c, 1, Len(c) - 1))
<1> DEFINE b == SubSeq(c, 1, Len(c) - 1)
<1>1. Len(c) \in Nat /\ Len(c) >= 1 /\ Len(c) \in 1..Len(c)
  OBVIOUS
<1>2. /\ SubSeq(c, 1, Len(c)) \in Seq(Blobs) /\ Len(SubSeq(c, 1, Len(c))) = Len(c)
      /\ \A i \in 1..Len(c) : SubSeq(c, 1, Len(c))[i] = c[i]
  BY <1>1
<1>3. SubSeq(c, 1, Len(c)) = c
  BY Zenon, <1>2, SeqEqual
<1>4. c \in Prefixes(c)
  BY Zenon, <1>1, <1>3 DEF Prefixes
<1>5. /\ b \in Seq(Blobs) /\ Len(b) = Len(c) - 1
      /\ \A i \in 1..(Len(c) - 1) : b[i] = c[i]
  BY SMTT(30), <1>1
<1>6. ASSUME NEW n \in 1..(Len(c) - 1) PROVE SubSeq(b, 1, n) = SubSeq(c, 1, n)
  <2>1. n \in Nat /\ n <= Len(b) /\ n <= Len(c)
    BY <1>1, <1>5
  <2>2. /\ SubSeq(b, 1, n) \in Seq(Blobs) /\ Len(SubSeq(b, 1, n)) = n
        /\ SubSeq(c, 1, n) \in Seq(Blobs) /\ Len(SubSeq(c, 1, n)) = n
    BY <1>5, <2>1
  <2>3. \A i \in 1..n : SubSeq(b, 1, n)[i] = c[i] /\ SubSeq(c, 1, n)[i] = c[i]
    BY <1>1, <1>5, <2>1
  <2>4. QED
    BY Zenon, <2>2, <2>3, SeqEqual
<1>7. Prefixes(b) = {SubSeq(c, 1, n) : n \in 1..(Len(c) - 1)}
  BY Zenon, <1>5, <1>6 DEF Prefixes
<1>8. 1..Len(c) = 1..(Len(c) - 1) \cup {Len(c)}
  BY <1>1
<1>9. Prefixes(c) = {SubSeq(c, 1, n) : n \in 1..(Len(c) - 1)} \cup {SubSeq(c, 1, Len(c))}
  BY Zenon, <1>8 DEF Prefixes
<1>10. QED
  BY Zenon, <1>3, <1>4, <1>5, <1>7, <1>9

\* When one reference is given back, and at most one is taken, to a chain whose
\* layers are there, the store has what is held then.
LEMMA ReleaseHeld ==
    ASSUME StoreIsHeld, NEW c, NEW d, Release(c),
           Holders \subseteq Holders' \cup {c}, Holders' \subseteq Holders \cup {d},
           Prefixes(d) \subseteq layers
    PROVE  StoreIsHeld'
<1>1. Held \subseteq Held' \cup Prefixes(c)
  BY Zenon DEF Held
<1>2. Held' \subseteq layers
  BY Zenon DEF Held, StoreIsHeld
<1>3. layers' = layers \ (Prefixes(c) \ Held')
  BY Zenon DEF Release
<1>4. layers' = Held'
  BY Zenon, <1>1, <1>2, <1>3 DEF StoreIsHeld
<1>5. QED
  BY Zenon, <1>4 DEF StoreIsHeld

\* A step that changes no reference and not the store.
LEMMA SameHeld ==
    ASSUME StoreIsHeld, layers' = layers, Holders' = Holders
    PROVE  StoreIsHeld'
BY Zenon DEF StoreIsHeld, Held

-----------------------------------------------------------------------------
(* Transfers *)

\* Nothing that the calls rely on changes: a transfer stays the transfer of its
\* key, keeps the watchers in W, and once it has ended, its result.
Kept(t, W) ==
    /\ t \in DOMAIN xfers'
    /\ xfers'[t].key = xfers[t].key
    /\ xfers[t].watchers \cap W \subseteq xfers'[t].watchers
    /\ xfers[t].pc = "done" => xfers'[t].pc = "done" /\ (xfers'[t].err <=> xfers[t].err)

\* The holders of layers among the transfers.
XferHolders == {xfers[t].key : t \in {u \in DOMAIN xfers : xfers[u].layer}}

\* Replacing one transfer's record leaves the others as they are.
LEMMA ReplaceFacts ==
    ASSUME NEW X \in Seq(XferRecords), NEW t \in DOMAIN X, NEW r \in XferRecords
    PROVE  LET Y == [X EXCEPT ![t] = r] IN
           /\ Y \in Seq(XferRecords) /\ DOMAIN Y = DOMAIN X
           /\ Y[t] = r /\ \A u \in DOMAIN X : u # t => Y[u] = X[u]
<1>1. [X EXCEPT ![t] = r] \in Seq(XferRecords)
  BY ExceptSeq
<1>2. QED
  BY Zenon, <1>1

\* Two records of a transfer that agree on everything but slot and cancelled.
Alike(x, y) == /\ x.key = y.key /\ x.pc = y.pc
               /\ x.watchers = y.watchers /\ x.tracked = y.tracked
               /\ x.err = y.err /\ x.layer = y.layer

\* What inactivate does: the slot changes hands and nothing else is touched.
LEMMA InactivatedFacts ==
    ASSUME xfers \in Seq(XferRecords), NEW t \in DOMAIN xfers, NEW r \in XferRecords
    PROVE  LET X == Inactivated(t, r) IN
           /\ X \in Seq(XferRecords)
           /\ DOMAIN X = DOMAIN xfers
           /\ Alike(X[t], r)
           /\ \A u \in DOMAIN xfers : u # t => Alike(X[u], xfers[u])
<1> DEFINE free == [r EXCEPT !.slot = "inactive"]
           freed == [xfers EXCEPT ![t] = free]
<1>1. free \in XferRecords /\ Alike(free, r)
  BY Zenon DEF XferRecords, Alike
<1>2. /\ freed \in Seq(XferRecords) /\ DOMAIN freed = DOMAIN xfers
      /\ freed[t] = free /\ \A u \in DOMAIN xfers : u # t => freed[u] = xfers[u]
  BY Zenon, <1>1, ReplaceFacts
<1>3. Alike(freed[t], r) /\ \A u \in DOMAIN xfers : u # t => Alike(freed[u], xfers[u])
  BY Zenon, <1>1, <1>2 DEF Alike
<1>4. CASE Inactivated(t, r) = freed
  BY Zenon, <1>2, <1>3, <1>4
<1>5. CASE Inactivated(t, r) = [freed EXCEPT ![Head(waiting)].slot = "active"]
  <2> DEFINE h == Head(waiting)
             got == [freed[h] EXCEPT !.slot = "active"]
             Y == [freed EXCEPT ![h] = got]
  <2>1. CASE h \in DOMAIN freed
    <3>1. got \in XferRecords /\ Alike(got, freed[h])
      <4>1. freed[h] \in XferRecords
        BY <1>2, <2>1
      <4>2. QED
        BY Zenon, <4>1 DEF XferRecords, Alike
    <3>2. Inactivated(t, r) = Y
      BY Zenon, <1>5
    <3>3. /\ Y \in Seq(XferRecords) /\ DOMAIN Y = DOMAIN freed
          /\ Y[h] = got /\ \A u \in DOMAIN freed : u # h => Y[u] = freed[u]
      BY <1>2, <2>1, <3>1, ReplaceFacts
    <3> HIDE DEF freed, got, Y, h
    <3>4. \A u \in DOMAIN xfers : Alike(Y[u], freed[u])
      BY Zenon, <1>2, <3>1, <3>3 DEF Alike
    <3>5. Alike(Y[t], r) /\ \A u \in DOMAIN xfers : u # t => Alike(Y[u], xfers[u])
      BY <1>3, <3>4 DEF Alike
    <3>6. QED
      BY Zenon, <1>2, <3>2, <3>3, <3>5
  <2>2. CASE h \notin DOMAIN freed
    <3>1. [freed EXCEPT ![h].slot = "active"] = freed
      BY Zenon, <1>2, <2>2
    <3>2. Inactivated(t, r) = freed
      BY Zenon, <1>5, <3>1
    <3>3. QED
      BY Zenon, <1>4, <3>2
  <2>3. QED
    BY Zenon, <2>1, <2>2
<1>6. QED
  BY Zenon, <1>4, <1>5 DEF Inactivated

\* What the release of a watcher does.
LEMMA UnwatchedFacts ==
    ASSUME xfers \in Seq(XferRecords), NEW t \in DOMAIN xfers, NEW a \in Clients
    PROVE  LET X == Unwatched(t, a) IN
           /\ X \in Seq(XferRecords)
           /\ DOMAIN X = DOMAIN xfers
           /\ \A u \in DOMAIN xfers :
                /\ X[u].key = xfers[u].key /\ X[u].pc = xfers[u].pc
                /\ X[u].tracked = xfers[u].tracked
                /\ X[u].err = xfers[u].err /\ X[u].layer = xfers[u].layer
                /\ u # t => X[u].watchers = xfers[u].watchers
           /\ X[t].watchers = xfers[t].watchers \ {a}
<1> DEFINE w == xfers[t].watchers \ {a}
           r == [xfers[t] EXCEPT !.watchers = w,
                                 !.cancelled = @ \/ (w = {} /\ xfers[t].tracked)]
<1>1. xfers[t] \in XferRecords
  OBVIOUS
<1>2. /\ r \in XferRecords
      /\ r.key = xfers[t].key /\ r.pc = xfers[t].pc /\ r.tracked = xfers[t].tracked
      /\ r.err = xfers[t].err /\ r.layer = xfers[t].layer /\ r.watchers = w
  BY Zenon, <1>1 DEF XferRecords
<1>3. Unwatched(t, a) = [xfers EXCEPT ![t] = r]
  BY Zenon, <1>1 DEF Unwatched, XferRecords
<1>4. LET Y == [xfers EXCEPT ![t] = r] IN
      /\ Y \in Seq(XferRecords) /\ DOMAIN Y = DOMAIN xfers
      /\ Y[t] = r /\ \A u \in DOMAIN xfers : u # t => Y[u] = xfers[u]
  BY Zenon, <1>2, ReplaceFacts
<1>5. QED
  BY Zenon, <1>2, <1>3, <1>4

-----------------------------------------------------------------------------
(* What a step leaves as it was *)

\* A call that does not move relies only on transfers that are kept for it.
LEMMA CallKept ==
    ASSUME DownloadTypeOK, NEW a \in Clients, WatchesInv(a), TopInv(a),
           call'[a] = call[a], \A t \in DOMAIN xfers : Kept(t, {a})
    PROVE  WatchesInv(a)' /\ TopInv(a)'
<1> DEFINE c == call[a]
           w == call[a].watches
<1>1. c \in CallRecords /\ w \in Seq(Nat)
  BY Zenon DEF DownloadTypeOK, CallRecords
<1>2. \A i \in DOMAIN w : /\ w[i] \in DOMAIN xfers /\ w[i] \in DOMAIN xfers'
                          /\ xfers'[w[i]].key = xfers[w[i]].key
                          /\ a \in xfers[w[i]].watchers => a \in xfers'[w[i]].watchers
  BY Zenon DEF WatchesInv, Kept
<1>3. WatchesInv(a)'
  BY <1>2 DEF WatchesInv
<1>4. w # <<>> => Len(w) \in DOMAIN w /\ Top(a) = w[Len(w)]
  BY <1>1 DEF Top
<1>5. Top(a)' = Top(a)
  BY Zenon DEF Top
<1>6. w # <<>> => /\ xfers'[Top(a)].key = xfers[Top(a)].key
                  /\ xfers[Top(a)].pc = "done" => /\ xfers'[Top(a)].pc = "done"
                                                  /\ xfers'[Top(a)].err <=> xfers[Top(a)].err
  BY Zenon, <1>2, <1>4 DEF Kept
<1>7. TopInv(a)'
  <2>1. /\ c.pc = "idle" => c.top = <<>>
        /\ c.pc = "lookup" => (c.missing <=> w # <<>>)
        /\ c.pc \in {"lookup", "have"} /\ w = <<>> => c.top = c.key
        /\ c.pc = "return" => w # <<>>
    BY Zenon DEF TopInv
  <2>2. c.pc = "transfer" =>
           /\ c.key # <<>> /\ c.missing
           /\ \A i \in DOMAIN w : Len(xfers'[w[i]].key) < Len(c.key)
    BY Zenon, <1>2 DEF TopInv
  <2>3. c.pc \in {"lookup", "return", "have"} /\ w # <<>> => xfers'[Top(a)].key = c.key
    BY Zenon, <1>6 DEF TopInv
  <2>4. c.pc \in {"return", "have"} /\ w # <<>> =>
           xfers'[Top(a)].pc = "done" /\ ~ xfers'[Top(a)].err
    BY Zenon, <1>6 DEF TopInv
  <2>5. QED
    BY Zenon, <1>5, <2>1, <2>2, <2>3, <2>4 DEF TopInv
<1>8. QED
  BY Zenon, <1>3, <1>7

\* Transfers that do not change are kept.
LEMMA SameXfers ==
    ASSUME xfers' = xfers, NEW t \in DOMAIN xfers, NEW W
    PROVE  Kept(t, W)
BY Zenon DEF Kept

\* A layer kept by a transfer that ended well is not lost while it is used.
LEMMA LayersKept ==
    ASSUME LayersInv,
           \A t \in DOMAIN xfers' : xfers'[t].pc = "done" /\ ~ xfers'[t].err /\ ~ xfers'[t].layer =>
              \/ Unused(t)'
              \/ /\ t \in DOMAIN xfers /\ xfers[t].pc = "done" /\ ~ xfers[t].err
                 /\ ~ xfers[t].layer /\ (Unused(t) => Unused(t)')
    PROVE  LayersInv'
BY Zenon DEF LayersInv

\* The transfers that hold a layer are the same if none gets or loses one.
LEMMA SameXferHolders ==
    ASSUME DOMAIN xfers' = DOMAIN xfers,
           \A t \in DOMAIN xfers : /\ xfers'[t].key = xfers[t].key
                                   /\ xfers'[t].layer = xfers[t].layer
    PROVE  XferHolders' = XferHolders
BY Zenon DEF XferHolders

\* The holders of layers are the images, the calls and the transfers.
LEMMA HoldersAre ==
    /\ Holders = images \cup {call[b].top : b \in Clients} \cup XferHolders
    /\ Holders' = images' \cup {call'[b].top : b \in Clients} \cup XferHolders'
BY Zenon DEF Holders, XferHolders

\* Holders name chains.
LEMMA HoldersTyped ==
    ASSUME DownloadInv PROVE Holders \subseteq Seq(Blobs)
<1>1. images \subseteq Seq(Blobs)
  BY Zenon DEF DownloadInv, DownloadTypeOK
<1>2. \A b \in Clients : call[b].top \in Seq(Blobs)
  BY Zenon DEF DownloadInv, DownloadTypeOK, CallRecords
<1>3. \A t \in DOMAIN xfers : xfers[t].key \in Seq(Blobs)
  <2>1. ASSUME NEW t \in DOMAIN xfers PROVE xfers[t] \in XferRecords
    BY DEF DownloadInv, DownloadTypeOK
  <2>2. QED
    BY Zenon, <2>1 DEF XferRecords
<1>4. QED
  BY Zenon, <1>1, <1>2, <1>3 DEF Holders

\* No transfer that a call watches is for more than the call has looked at.
LEMMA WatchedShorter ==
    ASSUME DownloadInv, NEW a \in Clients, call[a].pc = "lookup",
           NEW i \in DOMAIN call[a].watches
    PROVE  /\ Len(xfers[call[a].watches[i]].key) \in Nat
           /\ Len(xfers[call[a].watches[i]].key) <= Len(call[a].key)
<1> DEFINE w == call[a].watches
<1>1. /\ w \in Seq(Nat) /\ call[a].key \in Seq(Blobs) /\ WatchesInv(a) /\ TopInv(a)
  BY Zenon DEF DownloadInv, DownloadTypeOK, CallRecords
<1>2. \A j \in DOMAIN w : xfers[w[j]].key \in Seq(Blobs)
  <2>1. ASSUME NEW j \in DOMAIN w PROVE xfers[w[j]] \in XferRecords
    BY <1>1 DEF WatchesInv, DownloadInv, DownloadTypeOK
  <2>2. QED
    BY Zenon, <2>1 DEF XferRecords
<1>3. i \in 1..Len(w) /\ Len(w) \in DOMAIN w /\ w # <<>>
  BY <1>1
<1>4. xfers[w[Len(w)]].key = call[a].key
  BY Zenon, <1>1, <1>3 DEF TopInv, Top
<1>5. CASE i = Len(w)
  BY <1>2, <1>4, <1>5
<1>6. CASE i < Len(w)
  <2>1. Len(xfers[w[i]].key) < Len(xfers[w[Len(w)]].key)
    BY Zenon, <1>1, <1>3, <1>6 DEF WatchesInv
  <2>2. Len(xfers[w[i]].key) \in Nat /\ Len(call[a].key) \in Nat
    <3>1. xfers[w[i]].key \in Seq(Blobs) /\ call[a].key \in Seq(Blobs)
      BY Zenon, <1>1, <1>2
    <3>2. QED
      BY Zenon, <3>1, LenProperties
  <2>3. QED
    BY <1>4, <2>1, <2>2
<1>7. QED
  BY <1>1, <1>3, <1>5, <1>6
-----------------------------------------------------------------------------
(* Steps of a call that leave the transfers alone *)

\* What the invariant says of one call.
LEMMA CallFacts ==
    ASSUME DownloadInv, NEW a \in Clients
    PROVE  /\ StoreIsHeld /\ LayersInv /\ WatchesInv(a) /\ TopInv(a)
           /\ call \in [Clients -> CallRecords] /\ call[a] \in CallRecords
           /\ xfers \in Seq(XferRecords) /\ images \subseteq Seq(Blobs)
BY Zenon DEF DownloadInv, DownloadTypeOK

\* What a step of one call has to show.
LEMMA OwnStep ==
    ASSUME DownloadInv, NEW a \in Clients,
           call' \in [Clients -> CallRecords],
           \A b \in Clients : b # a => call'[b] = call[b],
           images' = images, xfers' = xfers,
           WatchesInv(a)', TopInv(a)', StoreIsHeld'
    PROVE  DownloadInv'
<1>1. DownloadTypeOK'
  BY Zenon DEF DownloadInv, DownloadTypeOK
<1>2. LayersInv'
  BY Zenon, LayersKept DEF DownloadInv, Unused
<1>3. ASSUME NEW b \in Clients PROVE WatchesInv(b)' /\ TopInv(b)'
  <2>1. CASE b = a
    BY Zenon, <2>1
  <2>2. CASE b # a
    BY Zenon, <2>2, CallKept, SameXfers DEF DownloadInv
  <2>3. QED
    BY Zenon, <2>1, <2>2
<1>4. QED
  BY Zenon, <1>1, <1>2, <1>3 DEF DownloadInv

\* How such a step changes who holds what.
LEMMA OwnHolders ==
    ASSUME NEW a \in Clients,
           \A b \in Clients : b # a => call'[b] = call[b],
           images' = images, xfers' = xfers
    PROVE  /\ Holders \subseteq Holders' \cup {call[a].top}
           /\ Holders' \subseteq Holders \cup {call'[a].top}
           /\ call'[a].top = call[a].top => Holders' = Holders
<1>1. XferHolders' = XferHolders
  BY Zenon, SameXferHolders
<1>2. /\ {call[b].top : b \in Clients} \subseteq {call'[b].top : b \in Clients} \cup {call[a].top}
      /\ {call'[b].top : b \in Clients} \subseteq {call[b].top : b \in Clients} \cup {call'[a].top}
  BY Zenon
<1>3. call[a].top \in {call[b].top : b \in Clients} /\ call'[a].top \in {call'[b].top : b \in Clients}
  BY Zenon
<1>4. QED
  BY Zenon, <1>1, <1>2, <1>3, HoldersAre

\* Begin: a call with nothing looked at yet.
LEMMA BeginInv ==
    ASSUME DownloadInv, NEW a \in Clients, Begin(a)
    PROVE  DownloadInv'
<1>1. PICK m \in Manifests[a] :
         call' = [call EXCEPT ![a] = [Idle EXCEPT !.pc = "lookup", !.todo = m]]
  BY Zenon DEF Begin
<1>2. call \in [Clients -> CallRecords] /\ call[a].pc = "idle" /\ TopInv(a)
  BY Zenon, CallFacts DEF Begin
<1>3. m \in Seq(Blobs)
  BY Zenon, DownloadAssumption
<1> DEFINE r == [Idle EXCEPT !.pc = "lookup", !.todo = m]
<1>4. /\ r \in CallRecords /\ r.pc = "lookup" /\ r.key = <<>> /\ r.top = <<>>
      /\ r.watches = <<>> /\ r.missing = FALSE
  <2>1. /\ <<>> \in Seq(Blobs) /\ <<>> \in Seq(Nat)
        /\ <<>> \in Seq([blob : Blobs, xfer : Nat])
    OBVIOUS
  <2>2. Idle \in CallRecords
    BY Zenon, <2>1 DEF Idle, CallRecords
  <2>3. r \in CallRecords
    BY Zenon, <1>3, <2>2 DEF CallRecords
  <2>4. /\ r.pc = "lookup" /\ r.key = Idle.key /\ r.top = Idle.top
        /\ r.watches = Idle.watches /\ r.missing = Idle.missing
    BY Zenon, <2>2 DEF CallRecords
  <2>5. QED
    BY Zenon, <2>3, <2>4 DEF Idle
<1>5. /\ call' \in [Clients -> CallRecords] /\ call'[a] = r
      /\ \A b \in Clients : b # a => call'[b] = call[b]
  BY Zenon, <1>1, <1>2, <1>4
<1>6. WatchesInv(a)'
  BY <1>4, <1>5 DEF WatchesInv
<1>7. TopInv(a)'
  BY Zenon, <1>4, <1>5 DEF TopInv
<1>8. images' = images /\ xfers' = xfers /\ layers' = layers
  BY Zenon DEF Begin
<1>9. call'[a].top = call[a].top
  BY Zenon, <1>2, <1>4, <1>5 DEF TopInv
<1>10. StoreIsHeld'
  BY Zenon, <1>5, <1>8, <1>9, OwnHolders, SameHeld DEF DownloadInv
<1>11. QED
  BY Zenon, <1>5, <1>6, <1>7, <1>8, <1>10, OwnStep

\* The key of the next layer is one blob longer.
LEMMA NextKey ==
    ASSUME NEW s \in Seq(Blobs), NEW todo \in Seq(Blobs), todo # <<>>
    PROVE  /\ Append(s, Head(todo)) \in Seq(Blobs) /\ Append(s, Head(todo)) # <<>>
           /\ Len(Append(s, Head(todo))) = Len(s) + 1 /\ Tail(todo) \in Seq(Blobs)
<1>1. Head(todo) \in Blobs /\ Tail(todo) \in Seq(Blobs)
  OBVIOUS
<1>2. QED
  BY <1>1

\* Lookup: topLayer moves up to a layer that is there, or a transfer is needed.
LEMMA LookupInv ==
    ASSUME DownloadInv, NEW a \in Clients, Lookup(a)
    PROVE  DownloadInv'
<1> DEFINE c == call[a]
           key == Append(c.key, Head(c.todo))
<1>1. call \in [Clients -> CallRecords] /\ StoreIsHeld /\ TopInv(a) /\ WatchesInv(a)
  BY Zenon, CallFacts
<1>2. /\ c.pc = "lookup" /\ c.todo # <<>> /\ images' = images /\ xfers' = xfers
      /\ Release(c.top)
  BY Zenon DEF Lookup
<1>3. /\ c \in CallRecords /\ c.todo \in Seq(Blobs) /\ c.key \in Seq(Blobs)
      /\ c.watches \in Seq(Nat)
  BY Zenon, <1>1 DEF CallRecords
<1>4. key \in Seq(Blobs) /\ key # <<>> /\ Len(key) = Len(c.key) + 1 /\ Tail(c.todo) \in Seq(Blobs)
  BY Zenon, <1>2, <1>3, NextKey
<1>5. CASE /\ ~ c.missing /\ Head(c.todo) \in known /\ key \in layers
           /\ call' = [call EXCEPT ![a].key = key, ![a].todo = Tail(@), ![a].top = key]
  <2>1. /\ call' \in [Clients -> CallRecords]
        /\ \A b \in Clients : b # a => call'[b] = call[b]
    BY Zenon, <1>1, <1>3, <1>4, <1>5 DEF CallRecords
  <2>2. /\ call'[a].pc = "lookup" /\ call'[a].key = key /\ call'[a].top = key
        /\ call'[a].watches = c.watches /\ call'[a].missing = c.missing
    BY Zenon, <1>1, <1>2, <1>3, <1>5 DEF CallRecords
  <2>3. c.watches = <<>>
    BY Zenon, <1>1, <1>2, <1>5 DEF TopInv
  <2>4. WatchesInv(a)'
    BY <2>2, <2>3 DEF WatchesInv
  <2>5. TopInv(a)'
    BY Zenon, <1>5, <2>2, <2>3 DEF TopInv
  <2>6. Prefixes(key) \subseteq layers
    <3>1. PICK h \in Holders : key \in Prefixes(h)
      BY Zenon, <1>1, <1>5 DEF StoreIsHeld, Held
    <3>2. h \in Seq(Blobs)
      BY Zenon, HoldersTyped
    <3>3. Prefixes(key) \subseteq Prefixes(h)
      BY Zenon, <3>1, <3>2, PrefixFacts
    <3>4. QED
      BY Zenon, <1>1, <3>3 DEF StoreIsHeld, Held
  <2>7. StoreIsHeld'
    <3>1. Holders \subseteq Holders' \cup {c.top} /\ Holders' \subseteq Holders \cup {key}
      BY Zenon, <1>2, <2>1, <2>2, OwnHolders
    <3>2. QED
      BY Zenon, <1>1, <1>2, <2>6, <3>1, ReleaseHeld
  <2>8. QED
    BY Zenon, <1>2, <2>1, <2>4, <2>5, <2>7, OwnStep
<1>6. CASE call' = [call EXCEPT ![a].key = key, ![a].todo = Tail(@), ![a].missing = TRUE,
                                ![a].pc = "transfer"]
  <2>1. /\ call' \in [Clients -> CallRecords]
        /\ \A b \in Clients : b # a => call'[b] = call[b]
    BY Zenon, <1>1, <1>3, <1>4, <1>6 DEF CallRecords
  <2>2. /\ call'[a].pc = "transfer" /\ call'[a].key = key /\ call'[a].top = c.top
        /\ call'[a].watches = c.watches /\ call'[a].missing = TRUE
    BY Zenon, <1>1, <1>2, <1>3, <1>6 DEF CallRecords
  <2>3. WatchesInv(a)'
    BY Zenon, <1>1, <1>2, <2>2 DEF WatchesInv
  <2>4. ASSUME NEW i \in DOMAIN c.watches PROVE Len(xfers[c.watches[i]].key) < Len(key)
    <3>1. /\ Len(xfers[c.watches[i]].key) \in Nat
          /\ Len(xfers[c.watches[i]].key) <= Len(c.key)
      BY Zenon, <1>2, WatchedShorter
    <3>2. Len(c.key) \in Nat
      BY <1>3
    <3> HIDE DEF c, key
    <3>3. QED
      BY <1>4, <3>1, <3>2
  <2>5. TopInv(a)'
    BY Zenon, <1>2, <1>4, <2>2, <2>4 DEF TopInv
  <2>6. StoreIsHeld'
    <3>1. Holders' = Holders
      BY Zenon, <1>2, <2>1, <2>2, OwnHolders
    <3>2. c.top \in Holders /\ Prefixes(c.top) \subseteq layers
      BY Zenon, <1>1 DEF Holders, Held, StoreIsHeld
    <3>3. QED
      BY Zenon, <1>1, <1>2, <3>1, <3>2, ReleaseHeld
  <2>7. QED
    BY Zenon, <1>2, <2>1, <2>3, <2>5, <2>6, OwnStep
<1>7. QED
  BY Zenon, <1>5, <1>6 DEF Lookup

\* Wait and Cancel: the call goes on to return or to give everything back.
LEMMA WaitInv ==
    ASSUME DownloadInv, NEW a \in Clients, Wait(a) \/ Cancel(a)
    PROVE  DownloadInv'
<1> DEFINE c == call[a]
<1>1. /\ call \in [Clients -> CallRecords] /\ StoreIsHeld /\ TopInv(a) /\ WatchesInv(a)
      /\ c \in CallRecords
  BY Zenon, CallFacts
<1>2. c.pc = "lookup" /\ images' = images /\ xfers' = xfers /\ layers' = layers
  BY Zenon DEF Wait, Cancel
<1>3. PICK q \in {"have", "return", "unwind"} :
         /\ call' = [call EXCEPT ![a].pc = q]
         /\ q = "have" => c.watches = <<>>
         /\ q = "return" => /\ c.watches # <<>> /\ xfers[Top(a)].pc = "done"
                            /\ ~ xfers[Top(a)].err
  <2>1. CASE c.watches = <<>> /\ call' = [call EXCEPT ![a].pc = "have"]
    BY Zenon, <2>1
  <2>2. CASE /\ c.watches # <<>> /\ xfers[Top(a)].pc = "done" /\ xfers[Top(a)].err
             /\ call' = [call EXCEPT ![a].pc = "unwind"]
    BY Zenon, <2>2
  <2>3. CASE /\ c.watches # <<>> /\ xfers[Top(a)].pc = "done" /\ ~ xfers[Top(a)].err
             /\ call' = [call EXCEPT ![a].pc = "return"]
    BY Zenon, <2>3
  <2>4. CASE Cancel(a)
    BY Zenon, <2>4 DEF Cancel
  <2>5. QED
    BY Zenon, <2>1, <2>2, <2>3, <2>4 DEF Wait
<1>4. /\ call' \in [Clients -> CallRecords]
      /\ \A b \in Clients : b # a => call'[b] = call[b]
  BY Zenon, <1>1, <1>3 DEF CallRecords
<1>5. /\ call'[a].pc = q /\ call'[a].key = c.key /\ call'[a].top = c.top
      /\ call'[a].watches = c.watches /\ call'[a].missing = c.missing
  BY Zenon, <1>1, <1>3 DEF CallRecords
<1>6. WatchesInv(a)'
  BY Zenon, <1>1, <1>2, <1>5 DEF WatchesInv
<1>7. Top(a)' = Top(a)
  BY Zenon, <1>5 DEF Top
<1>8. TopInv(a)'
  BY Zenon, <1>1, <1>2, <1>3, <1>5, <1>7 DEF TopInv
<1>9. StoreIsHeld'
  BY Zenon, <1>1, <1>2, <1>4, <1>5, OwnHolders, SameHeld
<1>10. QED
  BY Zenon, <1>2, <1>4, <1>6, <1>8, <1>9, OwnStep

\* A call gives topLayer back while it returns or unwinds.
LEMMA DropTopInv ==
    ASSUME DownloadInv, NEW a \in Clients,
           call[a].pc \in {"return", "have", "unwind"},
           NEW q \in {"return", "unwind"}, q = "return" => call[a].pc = "return",
           call' \in [Clients -> CallRecords],
           \A b \in Clients : b # a => call'[b] = call[b],
           call'[a].pc = q, call'[a].key = call[a].key, call'[a].top = <<>>,
           call'[a].watches = call[a].watches,
           images' = images, xfers' = xfers, Release(call[a].top)
    PROVE  DownloadInv'
<1>1. StoreIsHeld /\ TopInv(a) /\ WatchesInv(a)
  BY Zenon, CallFacts
<1>2. WatchesInv(a)'
  BY Zenon, <1>1 DEF WatchesInv
<1>3. Top(a)' = Top(a)
  BY Zenon DEF Top
<1>4. TopInv(a)'
  BY Zenon, <1>1, <1>3 DEF TopInv
<1>5. Prefixes(<<>>) = {}
  BY DEF Prefixes
<1>6. StoreIsHeld'
  <2>1. Holders \subseteq Holders' \cup {call[a].top} /\ Holders' \subseteq Holders \cup {<<>>}
    BY Zenon, OwnHolders
  <2>2. Prefixes(<<>>) \subseteq layers
    BY Zenon, <1>5
  <2>3. QED
    BY Zenon, <1>1, <2>1, <2>2, ReleaseHeld
<1>7. QED
  BY Zenon, <1>2, <1>4, <1>6, OwnStep

\* A call that has nothing left ends, and one that kept its last transfer has it.
LEMMA EndCallInv ==
    ASSUME DownloadInv, NEW a \in Clients, call[a].top = <<>>,
           \/ call' = [call EXCEPT ![a] = Idle]
           \/ /\ call[a].pc = "return" /\ Len(call[a].watches) = 1
              /\ call' = [call EXCEPT ![a].pc = "have"],
           images' = images, xfers' = xfers, layers' = layers
    PROVE  DownloadInv'
<1> DEFINE c == call[a]
<1>1. /\ call \in [Clients -> CallRecords] /\ StoreIsHeld /\ TopInv(a) /\ WatchesInv(a)
      /\ c \in CallRecords
  BY Zenon, CallFacts
<1>2. Idle \in CallRecords /\ Idle.top = <<>> /\ Idle.pc = "idle" /\ Idle.watches = <<>>
  <2>1. /\ <<>> \in Seq(Blobs) /\ <<>> \in Seq(Nat)
        /\ <<>> \in Seq([blob : Blobs, xfer : Nat])
    OBVIOUS
  <2>2. QED
    BY Zenon, <2>1 DEF Idle, CallRecords
<1>3. CASE call' = [call EXCEPT ![a] = Idle]
  <2>1. /\ call' \in [Clients -> CallRecords] /\ call'[a] = Idle
        /\ \A b \in Clients : b # a => call'[b] = call[b]
    BY Zenon, <1>1, <1>2, <1>3
  <2>2. call'[a].pc = "idle" /\ call'[a].top = <<>> /\ call'[a].watches = <<>>
    BY Zenon, <1>2, <2>1
  <2>3. WatchesInv(a)'
    BY <2>2 DEF WatchesInv
  <2>4. TopInv(a)'
    BY Zenon, <2>2 DEF TopInv
  <2>5. StoreIsHeld'
    BY Zenon, <1>1, <2>1, <2>2, OwnHolders, SameHeld
  <2>6. QED
    BY Zenon, <2>1, <2>3, <2>4, <2>5, OwnStep
<1>4. CASE /\ c.pc = "return" /\ Len(c.watches) = 1
           /\ call' = [call EXCEPT ![a].pc = "have"]
  <2>1. /\ call' \in [Clients -> CallRecords]
        /\ \A b \in Clients : b # a => call'[b] = call[b]
    BY Zenon, <1>1, <1>4 DEF CallRecords
  <2>2. /\ call'[a].pc = "have" /\ call'[a].key = c.key /\ call'[a].top = c.top
        /\ call'[a].watches = c.watches
    BY Zenon, <1>1, <1>4 DEF CallRecords
  <2>3. Top(a)' = Top(a)
    BY Zenon, <2>2 DEF Top
  <2>4. WatchesInv(a)'
    BY Zenon, <1>1, <1>4, <2>2 DEF WatchesInv
  <2>5. TopInv(a)'
    BY Zenon, <1>1, <1>4, <2>2, <2>3 DEF TopInv
  <2>6. StoreIsHeld'
    BY Zenon, <1>1, <2>1, <2>2, OwnHolders, SameHeld
  <2>7. QED
    BY Zenon, <2>1, <2>4, <2>5, <2>6, OwnStep
<1>5. QED
  BY Zenon, <1>3, <1>4

-----------------------------------------------------------------------------
(* Steps of a call that change a transfer *)

\* What a step of one call on the transfers has to show.
LEMMA OwnXferStep ==
    ASSUME DownloadInv, NEW a \in Clients,
           call' \in [Clients -> CallRecords],
           \A b \in Clients : b # a => call'[b] = call[b],
           call'[a].top = call[a].top,
           images' = images, layers' = layers, xfers' \in Seq(XferRecords),
           \A t \in DOMAIN xfers : Kept(t, Clients \ {a}),
           XferHolders' = XferHolders,
           LayersInv', WatchesInv(a)', TopInv(a)'
    PROVE  DownloadInv'
<1>1. DownloadTypeOK'
  BY Zenon DEF DownloadInv, DownloadTypeOK
<1>2. ASSUME NEW b \in Clients PROVE WatchesInv(b)' /\ TopInv(b)'
  <2>1. CASE b = a
    BY Zenon, <2>1
  <2>2. CASE b # a
    <3>1. \A t \in DOMAIN xfers : Kept(t, {b})
      BY Zenon, <2>2 DEF Kept
    <3>2. QED
      BY Zenon, <2>2, <3>1, CallKept DEF DownloadInv
  <2>3. QED
    BY Zenon, <2>1, <2>2
<1>3. {call'[b].top : b \in Clients} = {call[b].top : b \in Clients}
  BY Zenon
<1>4. StoreIsHeld'
  <2>1. Holders' = Holders
    BY Zenon, <1>3, HoldersAre
  <2>2. QED
    BY Zenon, <2>1, SameHeld DEF DownloadInv
<1>5. QED
  BY Zenon, <1>1, <1>2, <1>4 DEF DownloadInv

\* Releasing a watcher keeps what the others rely on.
LEMMA UnwatchKept ==
    ASSUME DownloadInv, NEW a \in Clients, NEW t \in DOMAIN xfers,
           xfers' = Unwatched(t, a)
    PROVE  /\ xfers' \in Seq(XferRecords) /\ DOMAIN xfers' = DOMAIN xfers
           /\ \A u \in DOMAIN xfers : Kept(u, Clients \ {a})
           /\ \A u \in DOMAIN xfers : u # t => Kept(u, Clients)
           /\ XferHolders' = XferHolders
           /\ LayersInv'
<1>1. xfers \in Seq(XferRecords) /\ LayersInv
  BY Zenon, CallFacts
<1>2. xfers' \in Seq(XferRecords) /\ DOMAIN xfers' = DOMAIN xfers
  BY Zenon, <1>1, UnwatchedFacts
<1>3. \A u \in DOMAIN xfers :
         /\ xfers'[u].key = xfers[u].key /\ xfers'[u].pc = xfers[u].pc
         /\ xfers'[u].tracked = xfers[u].tracked
         /\ xfers'[u].err = xfers[u].err /\ xfers'[u].layer = xfers[u].layer
         /\ u # t => xfers'[u].watchers = xfers[u].watchers
  BY <1>1, UnwatchedFacts
<1> xfers'[t].watchers = xfers[t].watchers \ {a}
  BY Zenon, <1>1, UnwatchedFacts
<1>4. /\ \A u \in DOMAIN xfers : Kept(u, Clients \ {a})
      /\ \A u \in DOMAIN xfers : u # t => Kept(u, Clients)
  BY Zenon, <1>2, <1>3 DEF Kept
<1>5. XferHolders' = XferHolders
  BY Zenon, <1>2, <1>3, SameXferHolders
<1>6. LayersInv'
  BY <1>1, <1>2, <1>3, LayersKept DEF Unused
<1>7. QED
  BY Zenon, <1>2, <1>4, <1>5, <1>6

\* A sequence without its last member but one has the others, in their order.
LEMMA WithoutLastButOne ==
    ASSUME NEW w \in Seq(Nat), Len(w) > 1
    PROVE  LET v == SubSeq(w, 1, Len(w) - 2) \o <<w[Len(w)]>> IN
           /\ v \in Seq(Nat) /\ v # <<>> /\ v[Len(v)] = w[Len(w)]
           /\ \A i \in DOMAIN v : \E k \in DOMAIN w : k # Len(w) - 1 /\ v[i] = w[k]
           /\ \A i, j \in DOMAIN v : i < j =>
                \E k, l \in DOMAIN w : k < l /\ v[i] = w[k] /\ v[j] = w[l]
<1> DEFINE n == Len(w)
           u == SubSeq(w, 1, n - 2)
           v == u \o <<w[n]>>
<1>1. n \in Nat /\ n > 1 /\ DOMAIN w = 1..n /\ w[n] \in Nat
  OBVIOUS
<1>2. u \in Seq(Nat) /\ Len(u) = n - 2 /\ \A i \in 1..(n - 2) : u[i] = w[i]
  BY <1>1
<1>3. <<w[n]>> \in Seq(Nat) /\ Len(<<w[n]>>) = 1 /\ <<w[n]>>[1] = w[n]
  BY <1>1
<1>4. /\ v \in Seq(Nat) /\ Len(v) = n - 1
      /\ \A i \in 1..(n - 1) : v[i] = IF i <= n - 2 THEN u[i] ELSE <<w[n]>>[i - (n - 2)]
  <2> HIDE DEF u
  <2>1. /\ v \in Seq(Nat) /\ Len(v) = Len(u) + Len(<<w[n]>>)
        /\ \A i \in 1..(Len(u) + Len(<<w[n]>>)) :
              v[i] = IF i <= Len(u) THEN u[i] ELSE <<w[n]>>[i - Len(u)]
    BY <1>2, <1>3, ConcatProperties
  <2>2. Len(u) + Len(<<w[n]>>) = n - 1
    BY <1>1, <1>2, <1>3
  <2>3. QED
    BY Zenon, <1>2, <2>1, <2>2
<1> HIDE DEF u, v
<1>5. DOMAIN v = 1..(n - 1) /\ v # <<>>
  BY <1>1, <1>4
<1>6. v[n - 1] = w[n] /\ \A i \in 1..(n - 2) : v[i] = w[i]
  <2>1. n - 1 \in 1..(n - 1) /\ ~(n - 1 <= n - 2) /\ (n - 1) - (n - 2) = 1
    BY <1>1
  <2>2. v[n - 1] = <<w[n]>>[1]
    BY Zenon, <1>4, <2>1
  <2>3. ASSUME NEW i \in 1..(n - 2) PROVE v[i] = w[i]
    <3>1. i \in 1..(n - 1) /\ i <= n - 2
      BY <1>1
    <3>2. QED
      BY Zenon, <1>2, <1>4, <3>1
  <2>4. QED
    BY Zenon, <1>3, <2>2, <2>3
<1>a. n \in Nat /\ n > 1
  BY Zenon, <1>1
<1>b. DOMAIN w = 1..n
  BY Zenon, <1>1
<1> HIDE DEF n
<1>7. ASSUME NEW i \in DOMAIN v
      PROVE  \E k \in DOMAIN w : k # n - 1 /\ v[i] = w[k] /\ k >= i /\ (i < n - 1 => k = i)
  <2>1. CASE i = n - 1
    <3>1. n \in 1..n /\ n # n - 1 /\ n >= i /\ ~(i < n - 1)
      BY <1>a, <2>1
    <3>2. v[i] = w[n]
      BY Zenon, <1>6, <2>1
    <3>3. QED
      BY Zenon, <1>b, <3>1, <3>2
  <2>2. CASE i \in 1..(n - 2)
    <3>1. i \in 1..n /\ i # n - 1 /\ i >= i
      BY <1>a, <2>2
    <3>2. v[i] = w[i]
      BY Zenon, <1>6, <2>2
    <3>3. QED
      BY Zenon, <1>b, <3>1, <3>2
  <2>3. i \in 1..(n - 1)
    BY Zenon, <1>5
  <2>4. i = n - 1 \/ i \in 1..(n - 2)
    BY <1>a, <2>3
  <2>5. QED
    BY Zenon, <2>1, <2>2, <2>4
<1>8. ASSUME NEW i \in DOMAIN v, NEW j \in DOMAIN v, i < j
      PROVE  \E k, l \in DOMAIN w : k < l /\ v[i] = w[k] /\ v[j] = w[l]
  <2>1. i \in 1..(n - 1) /\ j \in 1..(n - 1)
    BY Zenon, <1>5
  <2>2. i < n - 1 /\ i \in 1..n
    BY <1>a, <1>8, <2>1
  <2>3. PICK k \in DOMAIN w : v[i] = w[k] /\ k = i
    BY Zenon, <1>7, <2>2
  <2>4. PICK l \in DOMAIN w : v[j] = w[l] /\ l >= j
    BY Zenon, <1>7
  <2>5. k < l
    <3>1. k = i /\ l >= j /\ l \in 1..n
      BY Zenon, <1>b, <2>3, <2>4
    <3>2. QED
      BY <1>a, <1>8, <2>1, <3>1
  <2>6. QED
    BY Zenon, <2>3, <2>4, <2>5
<1>9. QED
  <2>1. v[Len(v)] = w[n]
    BY Zenon, <1>4, <1>6
  <2>2. QED
    BY Zenon, <1>4, <1>5, <1>7, <1>8, <2>1 DEF n, u, v

\* A call that watches other transfers is otherwise the same.
LEMMA SetWatches ==
    ASSUME NEW c \in CallRecords, NEW v
    PROVE  LET r == [c EXCEPT !.watches = v] IN
           r.pc = c.pc /\ r.key = c.key /\ r.top = c.top /\ r.watches = v
BY DEF CallRecords

\* The transfers that a call watches are different ones.
LEMMA WatchesDiffer ==
    ASSUME DownloadInv, NEW a \in Clients, call[a].pc # "unwind",
           NEW i \in DOMAIN call[a].watches, NEW j \in DOMAIN call[a].watches, i # j
    PROVE  call[a].watches[i] # call[a].watches[j]
<1> DEFINE w == call[a].watches
<1>1. WatchesInv(a) /\ w \in Seq(Nat) /\ xfers \in Seq(XferRecords)
  BY Zenon, CallFacts DEF CallRecords
<1>2. i < j \/ j < i
  BY <1>1
<1>3. SUFFICES ASSUME w[i] = w[j] PROVE FALSE
  BY Zenon
<1>4. w[i] \in DOMAIN xfers /\ Len(xfers[w[i]].key) < Len(xfers[w[i]].key)
  BY Zenon, <1>1, <1>2, <1>3 DEF WatchesInv
<1>5. xfers[w[i]] \in XferRecords
  BY <1>1, <1>4
<1>6. Len(xfers[w[i]].key) \in Nat
  BY Zenon, <1>5, LenProperties DEF XferRecords
<1>7. QED
  BY <1>4, <1>6
\* Return gives back the watcher of the last transfer but one.
LEMMA ReturnUnwatchInv ==
    ASSUME DownloadInv, NEW a \in Clients, call[a].pc = "return",
           Len(call[a].watches) > 1,
           xfers' = Unwatched(call[a].watches[Len(call[a].watches) - 1], a),
           call' = [call EXCEPT ![a].watches =
                       SubSeq(@, 1, Len(call[a].watches) - 2) \o <<Top(a)>>],
           images' = images, layers' = layers
    PROVE  DownloadInv'
<1> DEFINE c == call[a]
           w == call[a].watches
           v == SubSeq(w, 1, Len(w) - 2) \o <<w[Len(w)]>>
           t == w[Len(w) - 1]
<1>1. /\ call \in [Clients -> CallRecords] /\ TopInv(a) /\ WatchesInv(a)
      /\ c \in CallRecords /\ w \in Seq(Nat) /\ Top(a) = w[Len(w)]
  BY Zenon, CallFacts DEF CallRecords, Top
<1>2. Len(w) - 1 \in DOMAIN w /\ Len(w) \in DOMAIN w /\ Len(w) # Len(w) - 1 /\ w # <<>>
  BY <1>1
<1>3. /\ v \in Seq(Nat) /\ v # <<>> /\ v[Len(v)] = w[Len(w)]
      /\ \A i \in DOMAIN v : \E k \in DOMAIN w : k # Len(w) - 1 /\ v[i] = w[k]
      /\ \A i, j \in DOMAIN v : i < j =>
            \E k, l \in DOMAIN w : k < l /\ v[i] = w[k] /\ v[j] = w[l]
  BY Zenon, <1>1, WithoutLastButOne
<1>4. call' = [call EXCEPT ![a].watches = v]
  BY Zenon, <1>1
<1> HIDE DEF v
<1>5. /\ call' \in [Clients -> CallRecords]
      /\ \A b \in Clients : b # a => call'[b] = call[b]
  <2>1. [c EXCEPT !.watches = v] \in CallRecords
    BY Zenon, <1>1, <1>3 DEF CallRecords
  <2>2. call' = [call EXCEPT ![a] = [c EXCEPT !.watches = v]]
    BY Zenon, <1>4
  <2>3. QED
    BY Zenon, <1>1, <2>1, <2>2
<1>6. /\ call'[a].pc = "return" /\ call'[a].key = c.key /\ call'[a].top = c.top
      /\ call'[a].watches = v
  <2> DEFINE r == [c EXCEPT !.watches = v]
  <2>1. call'[a] = r
    BY Zenon, <1>1, <1>4
  <2>2. r.pc = "return" /\ r.key = c.key /\ r.top = c.top /\ r.watches = v
    BY Zenon, <1>1, SetWatches
  <2> HIDE DEF r
  <2>3. QED
    BY Zenon, <2>1, <2>2
<1>7. \A k \in DOMAIN w : w[k] \in DOMAIN xfers /\ a \in xfers[w[k]].watchers
  BY Zenon, <1>1 DEF WatchesInv
<1>8. \A k \in DOMAIN w : k # Len(w) - 1 => w[k] # t
  BY Zenon, <1>2, WatchesDiffer
<1>9. t \in DOMAIN xfers
  BY Zenon, <1>2, <1>7
<1>10. /\ xfers' \in Seq(XferRecords)
       /\ \A u \in DOMAIN xfers : Kept(u, Clients \ {a})
       /\ \A u \in DOMAIN xfers : u # t => Kept(u, Clients)
       /\ XferHolders' = XferHolders
       /\ LayersInv'
  BY Zenon, <1>9, UnwatchKept
<1> HIDE DEF t
<1>11. \A k \in DOMAIN w : k # Len(w) - 1 => Kept(w[k], Clients)
  BY Zenon, <1>7, <1>8, <1>10
<1>12. \A i \in DOMAIN v : Kept(v[i], Clients) /\ a \in xfers[v[i]].watchers
  BY Zenon, <1>3, <1>7, <1>11
<1>13. WatchesInv(a)'
  <2>1. \A i \in DOMAIN v : v[i] \in DOMAIN xfers' /\ a \in xfers'[v[i]].watchers
    BY Zenon, <1>12 DEF Kept
  <2>2. \A i, j \in DOMAIN v : i < j => Len(xfers[v[i]].key) < Len(xfers[v[j]].key)
    BY ZenonT(30), <1>1, <1>3 DEF WatchesInv
  <2>3. \A i, j \in DOMAIN v : i < j => Len(xfers'[v[i]].key) < Len(xfers'[v[j]].key)
    BY Zenon, <1>12, <2>2 DEF Kept
  <2>4. QED
    BY ZenonT(30), <1>6, <2>1, <2>3 DEF WatchesInv
<1>14. Top(a)' = Top(a)
  BY Zenon, <1>1, <1>3, <1>6 DEF Top
<1>15. TopInv(a)'
  <2>1. xfers[Top(a)].key = c.key /\ xfers[Top(a)].pc = "done" /\ ~ xfers[Top(a)].err
    BY Zenon, <1>1, <1>2 DEF TopInv
  <2>2. Kept(Top(a), Clients)
    BY Zenon, <1>1, <1>2, <1>11
  <2>3. xfers'[Top(a)].key = c.key /\ xfers'[Top(a)].pc = "done" /\ ~ xfers'[Top(a)].err
    BY Zenon, <2>1, <2>2 DEF Kept
  <2>4. QED
    BY Zenon, <1>3, <1>6, <1>14, <2>3 DEF TopInv
<1>16. QED
  BY Zenon, <1>5, <1>6, <1>10, <1>13, <1>15, OwnXferStep

\* Return: what a successful Download gives back before it returns.
LEMMA ReturnInv ==
    ASSUME DownloadInv, NEW a \in Clients, Return(a)
    PROVE  DownloadInv'
<1> DEFINE c == call[a]
           n == Len(call[a].watches)
<1>1. /\ call \in [Clients -> CallRecords] /\ c \in CallRecords
  BY Zenon, CallFacts
<1>2. c.pc = "return" /\ images' = images
  BY Zenon DEF Return
<1>3. CASE /\ call' = [call EXCEPT ![a].top = <<>>] /\ xfers' = xfers /\ Release(c.top)
  <2>1. /\ call' \in [Clients -> CallRecords]
        /\ \A b \in Clients : b # a => call'[b] = call[b]
    <3>1. [c EXCEPT !.top = <<>>] \in CallRecords
      <4>1. <<>> \in Seq(Blobs)
        OBVIOUS
      <4>2. QED
        BY Zenon, <1>1, <4>1 DEF CallRecords
    <3>2. call' = [call EXCEPT ![a] = [c EXCEPT !.top = <<>>]]
      BY Zenon, <1>3
    <3>3. QED
      BY Zenon, <1>1, <3>1, <3>2
  <2>2. /\ call'[a].pc = "return" /\ call'[a].key = c.key /\ call'[a].top = <<>>
        /\ call'[a].watches = c.watches
    BY Zenon, <1>1, <1>2, <1>3 DEF CallRecords
  <2>3. QED
    BY Zenon, <1>2, <1>3, <2>1, <2>2, DropTopInv
<1>4. CASE /\ n > 1 /\ xfers' = Unwatched(call[a].watches[n - 1], a)
           /\ call' = [call EXCEPT ![a].watches = SubSeq(@, 1, n - 2) \o <<Top(a)>>]
           /\ layers' = layers
  BY Zenon, <1>2, <1>4, ReturnUnwatchInv
<1>5. CASE /\ c.top = <<>> /\ n = 1 /\ call' = [call EXCEPT ![a].pc = "have"]
           /\ layers' = layers /\ xfers' = xfers
  BY Zenon, <1>2, <1>5, EndCallInv
<1>6. QED
  BY Zenon, <1>3, <1>4, <1>5 DEF Return

\* Unwind: the last transfer, topLayer and the other transfers are given back.
LEMMA UnwindInv ==
    ASSUME DownloadInv, NEW a \in Clients, Unwind(a)
    PROVE  DownloadInv'
<1> DEFINE c == call[a]
           n == Len(call[a].watches)
<1>1. /\ call \in [Clients -> CallRecords] /\ c \in CallRecords /\ WatchesInv(a)
      /\ c.watches \in Seq(Nat)
  BY Zenon, CallFacts DEF CallRecords
<1>2. c.pc \in {"have", "unwind"} /\ images' = images
  BY Zenon DEF Unwind
<1>3. CASE /\ n > 0 /\ xfers' = Unwatched(Top(a), a) /\ layers' = layers
           /\ call' = [call EXCEPT ![a].watches = SubSeq(@, 1, n - 1), ![a].pc = "unwind"]
  <2> DEFINE v == SubSeq(c.watches, 1, n - 1)
  <2>1. /\ v \in Seq(Nat) /\ n \in DOMAIN c.watches
        /\ \A i \in DOMAIN v : i \in DOMAIN c.watches /\ v[i] = c.watches[i]
    BY <1>1, <1>3
  <2>2. Top(a) = c.watches[n] /\ Top(a) \in DOMAIN xfers
    BY Zenon, <1>1, <2>1 DEF Top, WatchesInv
  <2>3. call' = [call EXCEPT ![a].watches = v, ![a].pc = "unwind"]
    BY Zenon, <1>3
  <2> HIDE DEF v
  <2>4. /\ call' \in [Clients -> CallRecords]
        /\ \A b \in Clients : b # a => call'[b] = call[b]
    BY Zenon, <1>1, <2>1, <2>3 DEF CallRecords
  <2>5. call'[a].pc = "unwind" /\ call'[a].top = c.top /\ call'[a].watches = v
    BY Zenon, <1>1, <2>3 DEF CallRecords
  <2>6. /\ xfers' \in Seq(XferRecords) /\ DOMAIN xfers' = DOMAIN xfers
        /\ \A u \in DOMAIN xfers : Kept(u, Clients \ {a})
        /\ XferHolders' = XferHolders /\ LayersInv'
    BY Zenon, <1>3, <2>2, UnwatchKept
  <2>7. WatchesInv(a)'
    BY Zenon, <1>1, <2>1, <2>5, <2>6 DEF WatchesInv
  <2>8. TopInv(a)'
    BY Zenon, <2>5 DEF TopInv
  <2>9. QED
    BY Zenon, <1>2, <1>3, <2>4, <2>5, <2>6, <2>7, <2>8, OwnXferStep
<1>4. CASE /\ call' = [call EXCEPT ![a].top = <<>>, ![a].pc = "unwind"]
           /\ xfers' = xfers /\ Release(c.top)
  <2>1. /\ call' \in [Clients -> CallRecords]
        /\ \A b \in Clients : b # a => call'[b] = call[b]
    <3>1. [c EXCEPT !.top = <<>>, !.pc = "unwind"] \in CallRecords
      <4>1. <<>> \in Seq(Blobs)
        OBVIOUS
      <4>2. QED
        BY Zenon, <1>1, <4>1 DEF CallRecords
    <3>2. call' = [call EXCEPT ![a] = [c EXCEPT !.top = <<>>, !.pc = "unwind"]]
      BY Zenon, <1>1, <1>4
    <3>3. QED
      BY Zenon, <1>1, <3>1, <3>2
  <2>2. /\ call'[a].pc = "unwind" /\ call'[a].key = c.key /\ call'[a].top = <<>>
        /\ call'[a].watches = c.watches
    BY Zenon, <1>1, <1>4 DEF CallRecords
  <2>3. QED
    BY Zenon, <1>2, <1>4, <2>1, <2>2, DropTopInv
<1>5. CASE /\ c.top = <<>> /\ call' = [call EXCEPT ![a] = Idle]
           /\ layers' = layers /\ xfers' = xfers
  BY Zenon, <1>2, <1>5, EndCallInv
<1>6. QED
  BY Zenon, <1>3, <1>4, <1>5 DEF Unwind

\* The sequence v is q with e after it.
IsAppended(v, q, e, S) ==
    /\ v \in Seq(S) /\ v # <<>> /\ Len(v) = Len(q) + 1 /\ v[Len(v)] = e
    /\ \A i \in DOMAIN q : i \in DOMAIN v /\ v[i] = q[i]
    /\ \A i \in DOMAIN v : i \in DOMAIN q \/ i = Len(v)

\* What is appended to a sequence comes last.
LEMMA AppendFacts ==
    ASSUME NEW S, NEW q \in Seq(S), NEW e \in S
    PROVE  IsAppended(Append(q, e), q, e, S)
<1> DEFINE v == Append(q, e)
<1>1. v \in Seq(S) /\ Len(v) = Len(q) + 1 /\ v[Len(q) + 1] = e
  OBVIOUS
<1>2. DOMAIN q = 1..Len(q) /\ Len(q) \in Nat /\ DOMAIN v = 1..(Len(q) + 1)
  BY <1>1
<1>3. v # <<>> /\ \A i \in DOMAIN v : i \in DOMAIN q \/ i = Len(v)
  BY <1>1, <1>2
<1>4. \A i \in DOMAIN q : i \in DOMAIN v /\ v[i] = q[i]
  BY <1>1, <1>2
<1>5. QED
  BY Zenon, <1>1, <1>3, <1>4 DEF IsAppended

\* Transfer has made or joined transfer t: the call watches it from now on.
LEMMA WatchStep ==
    ASSUME DownloadInv, NEW a \in Clients, call[a].pc = "transfer",
           NEW t \in Nat, NEW blob \in Blobs, Watch(a, t, blob),
           xfers' \in Seq(XferRecords), t \in DOMAIN xfers',
           xfers'[t].key = call[a].key, a \in xfers'[t].watchers,
           \A u \in DOMAIN xfers : Kept(u, Clients),
           XferHolders' = XferHolders, LayersInv',
           images' = images, layers' = layers
    PROVE  DownloadInv'
<1> DEFINE c == call[a]
           w == call[a].watches
           v == Append(w, t)
           s == Append(c.source, [blob |-> blob, xfer |-> t])
           r == [c EXCEPT !.pc = "lookup", !.watches = v, !.source = s]
<1>1. /\ call \in [Clients -> CallRecords] /\ TopInv(a) /\ WatchesInv(a) /\ c \in CallRecords
  BY Zenon, CallFacts
<1>2. w \in Seq(Nat) /\ c.source \in Seq([blob : Blobs, xfer : Nat])
  BY Zenon, <1>1 DEF CallRecords
<1>3. /\ v \in Seq(Nat) /\ v # <<>> /\ Len(v) = Len(w) + 1 /\ v[Len(v)] = t
      /\ \A i \in DOMAIN w : i \in DOMAIN v /\ v[i] = w[i]
      /\ \A i \in DOMAIN v : i \in DOMAIN w \/ i = Len(v)
  <2>1. IsAppended(v, w, t, Nat)
    BY <1>2, AppendFacts, Zenon
  <2> HIDE DEF v
  <2>2. QED
    BY <2>1, Zenon DEF IsAppended
<1>4. s \in Seq([blob : Blobs, xfer : Nat])
  BY <1>2
<1>5. call' = [call EXCEPT ![a] = r]
  BY Zenon, <1>1 DEF Watch, CallRecords
<1> HIDE DEF v, s
<1>6. /\ r \in CallRecords /\ r.pc = "lookup" /\ r.key = c.key /\ r.top = c.top
      /\ r.watches = v /\ r.missing = c.missing
  BY Zenon, <1>1, <1>3, <1>4 DEF CallRecords
<1> HIDE DEF r
<1>7. /\ call' \in [Clients -> CallRecords] /\ call'[a] = r
      /\ \A b \in Clients : b # a => call'[b] = call[b]
  BY Zenon, <1>1, <1>5, <1>6
<1>8. \A i \in DOMAIN w : /\ w[i] \in DOMAIN xfers /\ a \in xfers[w[i]].watchers
                          /\ Len(xfers[w[i]].key) < Len(c.key)
  BY Zenon, <1>1 DEF WatchesInv, TopInv
<1>9. \A i \in DOMAIN w : /\ w[i] \in DOMAIN xfers' /\ a \in xfers'[w[i]].watchers
                          /\ xfers'[w[i]].key = xfers[w[i]].key
  BY Zenon, <1>8 DEF Kept
<1>10. \A i \in DOMAIN v : v[i] \in DOMAIN xfers' /\ a \in xfers'[v[i]].watchers
  BY Zenon, <1>3, <1>9
<1>11. ASSUME NEW i \in DOMAIN v, NEW j \in DOMAIN v, i < j
       PROVE  Len(xfers'[v[i]].key) < Len(xfers'[v[j]].key)
  <2>1. i \in DOMAIN w
    <3>1. Len(v) \in Nat /\ DOMAIN v = 1..Len(v)
      BY <1>3
    <3>2. i # Len(v)
      BY <1>11, <3>1
    <3>3. QED
      BY Zenon, <1>3, <3>2
  <2>2. CASE j \in DOMAIN w
    <3>1. Len(xfers[w[i]].key) < Len(xfers[w[j]].key)
      BY Zenon, <1>1, <1>11, <2>1, <2>2 DEF WatchesInv
    <3>2. QED
      BY Zenon, <1>3, <1>9, <2>1, <2>2, <3>1
  <2>3. CASE j = Len(v)
    BY ZenonT(30), <1>3, <1>8, <1>9, <2>1, <2>3
  <2>4. QED
    BY Zenon, <1>3, <2>2, <2>3
<1>12. WatchesInv(a)'
  BY Zenon, <1>6, <1>7, <1>10, <1>11 DEF WatchesInv
<1>13. Top(a)' = t
  BY Zenon, <1>3, <1>6, <1>7 DEF Top
<1>14. TopInv(a)'
  <2>1. c.missing
    BY Zenon, <1>1 DEF TopInv
  <2>2. /\ call'[a].pc = "lookup" /\ call'[a].missing /\ call'[a].watches # <<>>
        /\ xfers'[Top(a)'].key = call'[a].key
    BY Zenon, <1>3, <1>6, <1>7, <1>13, <2>1
  <2>3. QED
    BY Zenon, <2>2 DEF TopInv
<1>15. \A u \in DOMAIN xfers : Kept(u, Clients \ {a})
  BY Zenon DEF Kept
<1>16. QED
  BY Zenon, <1>6, <1>7, <1>12, <1>14, <1>15, OwnXferStep

\* What a new watcher changes.
LEMMA JoinedFacts ==
    ASSUME xfers \in Seq(XferRecords), NEW t \in DOMAIN xfers, NEW a \in Clients
    PROVE  LET X == [xfers EXCEPT ![t].watchers = @ \cup {a}] IN
           /\ X \in Seq(XferRecords)
           /\ DOMAIN X = DOMAIN xfers
           /\ \A u \in DOMAIN xfers :
                /\ X[u].key = xfers[u].key /\ X[u].pc = xfers[u].pc
                /\ X[u].tracked = xfers[u].tracked
                /\ X[u].err = xfers[u].err /\ X[u].layer = xfers[u].layer
                /\ u # t => X[u].watchers = xfers[u].watchers
           /\ X[t].watchers = xfers[t].watchers \cup {a}
<1> DEFINE r == [xfers[t] EXCEPT !.watchers = @ \cup {a}]
<1>1. xfers[t] \in XferRecords
  OBVIOUS
<1>2. /\ r \in XferRecords
      /\ r.key = xfers[t].key /\ r.pc = xfers[t].pc /\ r.tracked = xfers[t].tracked
      /\ r.err = xfers[t].err /\ r.layer = xfers[t].layer
      /\ r.watchers = xfers[t].watchers \cup {a}
  BY Zenon, <1>1 DEF XferRecords
<1>3. LET Y == [xfers EXCEPT ![t] = r] IN
      /\ Y \in Seq(XferRecords) /\ DOMAIN Y = DOMAIN xfers
      /\ Y[t] = r /\ \A u \in DOMAIN xfers : u # t => Y[u] = xfers[u]
  BY Zenon, <1>2, ReplaceFacts
<1>4. QED
  BY Zenon, <1>2, <1>3

\* Transfer, when it finds a transfer with the same key.
LEMMA JoinInv ==
    ASSUME DownloadInv, NEW a \in Clients, call[a].pc = "transfer",
           NEW t \in Live, xfers[t].key = call[a].key, NEW blob \in Blobs,
           xfers' = [xfers EXCEPT ![t].watchers = @ \cup {a}], Watch(a, t, blob),
           images' = images, layers' = layers
    PROVE  DownloadInv'
<1>1. xfers \in Seq(XferRecords) /\ LayersInv
  BY Zenon, CallFacts
<1>2. t \in DOMAIN xfers /\ t \in Nat /\ xfers[t].tracked
  BY <1>1 DEF Live
<1>3. xfers' \in Seq(XferRecords) /\ DOMAIN xfers' = DOMAIN xfers
  BY Zenon, <1>1, <1>2, JoinedFacts
<1>4. \A u \in DOMAIN xfers :
         /\ xfers'[u].key = xfers[u].key /\ xfers'[u].pc = xfers[u].pc
         /\ xfers'[u].tracked = xfers[u].tracked
         /\ xfers'[u].err = xfers[u].err /\ xfers'[u].layer = xfers[u].layer
         /\ u # t => xfers'[u].watchers = xfers[u].watchers
  BY <1>1, <1>2, JoinedFacts
<1>5. xfers'[t].watchers = xfers[t].watchers \cup {a}
  BY ZenonT(30), <1>1, <1>2, JoinedFacts
<1>6. \A u \in DOMAIN xfers : Kept(u, Clients)
  BY <1>3, <1>4, <1>5 DEF Kept
<1>7. XferHolders' = XferHolders
  BY Zenon, <1>3, <1>4, SameXferHolders
<1>8. LayersInv'
  <2>1. ASSUME NEW u \in DOMAIN xfers', xfers'[u].pc = "done", ~ xfers'[u].err,
               ~ xfers'[u].layer
        PROVE  /\ u \in DOMAIN xfers /\ xfers[u].pc = "done" /\ ~ xfers[u].err
               /\ ~ xfers[u].layer /\ (Unused(u) => Unused(u)')
    BY <1>2, <1>3, <1>4, <2>1 DEF Unused
  <2>2. QED
    BY Zenon, <1>1, <2>1, LayersKept
<1>9. xfers'[t].key = call[a].key /\ a \in xfers'[t].watchers
  BY Zenon, <1>2, <1>4, <1>5
<1>10. QED
  BY Zenon, <1>2, <1>3, <1>6, <1>7, <1>8, <1>9, WatchStep

\* Transfer, when it makes a transfer.
LEMMA MakeInv ==
    ASSUME DownloadInv, NEW a \in Clients, call[a].pc = "transfer",
           NEW r \in XferRecords, r.key = call[a].key, r.pc = "fetch",
           r.watchers = {a}, ~ r.layer, NEW blob \in Blobs,
           xfers' = Append(xfers, r), Watch(a, Len(xfers) + 1, blob),
           images' = images, layers' = layers
    PROVE  DownloadInv'
<1> DEFINE t == Len(xfers) + 1
<1>1. xfers \in Seq(XferRecords) /\ LayersInv
  BY Zenon, CallFacts
<1>2. /\ xfers' \in Seq(XferRecords) /\ t \in Nat /\ t \in DOMAIN xfers' /\ xfers'[t] = r
      /\ \A u \in DOMAIN xfers : u \in DOMAIN xfers' /\ xfers'[u] = xfers[u]
      /\ \A u \in DOMAIN xfers' : u \in DOMAIN xfers \/ u = t
  BY <1>1
<1> HIDE DEF t
<1>3. \A u \in DOMAIN xfers : Kept(u, Clients)
  BY Zenon, <1>2 DEF Kept
<1>4. XferHolders' = XferHolders
  BY <1>2 DEF XferHolders
<1>5. LayersInv'
  BY Zenon, <1>1, <1>2, LayersKept DEF Unused
<1>6. xfers'[t].key = call[a].key /\ a \in xfers'[t].watchers
  BY Zenon, <1>2
<1>7. QED
  BY Zenon, <1>2, <1>3, <1>4, <1>5, <1>6, WatchStep DEF t

\* What a sequence has at a place is a member of what it is over.
LEMMA SeqMember ==
    ASSUME NEW S, NEW q \in Seq(S), NEW i \in DOMAIN q
    PROVE  q[i] \in S
OBVIOUS

\* A set of numbers that is not empty has a least member.
LEMMA MinIsMember ==
    ASSUME NEW S \in SUBSET Nat, S # {}
    PROVE  Min(S) \in S
<1>1. IsWellFoundedOn(OpToRel(<, Nat), Nat)
  BY Zenon, NatLessThanWellFounded
<1>2. PICK n \in S : \A m \in S : ~(<<m, n>> \in OpToRel(<, Nat))
  BY Zenon, <1>1, WFMin
<1>3. \A m \in S : n <= m
  <2>1. ASSUME NEW m \in S PROVE n <= m
    <3>1. n \in Nat /\ m \in Nat
      BY Zenon
    <3>2. ~(m < n)
      BY Zenon, <1>2, <3>1 DEF OpToRel
    <3>3. QED
      BY <3>1, <3>2
  <2>2. QED
    BY Zenon, <2>1
<1>4. QED
  BY Zenon, <1>2, <1>3 DEF Min

\* Transfer joins the transfer of a key or makes one.
LEMMA TransferInv ==
    ASSUME DownloadInv, NEW a \in Clients, Transfer(a)
    PROVE  DownloadInv'
<1> DEFINE c == call[a]
           blob == c.key[Len(c.key)]
           source == {i \in DOMAIN c.source : c.source[i].blob = blob}
           free == Cardinality(Active) < concurrencyLimit
           r == [key |-> c.key, pc |-> "fetch", watchers |-> {a}, tracked |-> TRUE,
                 cancelled |-> FALSE, err |-> FALSE, layer |-> FALSE,
                 parent |-> IF c.watches = <<>> THEN 0 ELSE c.watches[Len(c.watches)],
                 source |-> IF source = {} THEN 0 ELSE c.source[Min(source)].xfer,
                 slot |-> IF free THEN "active" ELSE "waiting"]
<1>1. c.pc = "transfer" /\ images' = images /\ layers' = layers
  BY Zenon DEF Transfer
<1>2. c \in CallRecords /\ TopInv(a)
  BY Zenon, CallFacts
<1>3. /\ c.key \in Seq(Blobs) /\ c.key # <<>> /\ c.watches \in Seq(Nat)
      /\ c.source \in Seq([blob : Blobs, xfer : Nat])
  BY Zenon, <1>1, <1>2 DEF TopInv, CallRecords
<1>4. blob \in Blobs
  BY <1>3
<1>5. ASSUME NEW t \in Live, xfers[t].key = c.key,
             xfers' = [xfers EXCEPT ![t].watchers = @ \cup {a}], Watch(a, t, blob)
      PROVE  DownloadInv'
  BY Zenon, <1>1, <1>4, <1>5, JoinInv
<1>6. ASSUME xfers' = Append(xfers, r), Watch(a, Len(xfers) + 1, blob)
      PROVE  DownloadInv'
  <2>1. r.parent \in Nat
    BY <1>3
  <2>2. r.source \in Nat
    <3>1. CASE source = {}
      BY Zenon, <3>1
    <3>2. CASE source # {}
      <4>1. source \subseteq Nat /\ source \subseteq DOMAIN c.source
        BY <1>3
      <4>2. Min(source) \in source
        BY Zenon, <3>2, <4>1, MinIsMember
      <4>3. Min(source) \in DOMAIN c.source
        BY <4>1, <4>2, Zenon
      <4>4. c.source[Min(source)] \in [blob : Blobs, xfer : Nat]
        BY <1>3, <4>3, SeqMember, Zenon
      <4> HIDE DEF source
      <4>5. c.source[Min(source)].xfer \in Nat
        BY Zenon, <4>4
      <4>6. r.source = c.source[Min(source)].xfer
        BY Zenon, <3>2
      <4>7. QED
        BY Zenon, <4>5, <4>6
    <3>3. QED
      BY Zenon, <3>1, <3>2
  <2>3. r.slot \in {"active", "inactive", "waiting"}
    BY Zenon
  <2>4. r \in XferRecords
    BY Zenon, <1>3, <2>1, <2>2, <2>3 DEF XferRecords
  <2>5. r.key = c.key /\ r.pc = "fetch" /\ r.watchers = {a} /\ ~ r.layer
    BY Zenon
  <2> HIDE DEF r
  <2>6. QED
    BY Zenon, <1>1, <1>4, <1>6, <2>4, <2>5, MakeInv
<1>7. QED
  BY Zenon, <1>5, <1>6 DEF Transfer

-----------------------------------------------------------------------------
(* Steps of the transfers and of those who delete images *)

\* What a step of a transfer has to show.
LEMMA XferStepInv ==
    ASSUME DownloadInv, call' = call, images' \subseteq images,
           xfers' \in Seq(XferRecords), \A u \in DOMAIN xfers : Kept(u, Clients),
           LayersInv', StoreIsHeld'
    PROVE  DownloadInv'
<1>1. DownloadTypeOK'
  BY Zenon DEF DownloadInv, DownloadTypeOK
<1>2. ASSUME NEW b \in Clients PROVE WatchesInv(b)' /\ TopInv(b)'
  <2>1. \A u \in DOMAIN xfers : Kept(u, {b})
    BY Zenon DEF Kept
  <2>2. QED
    BY Zenon, <2>1, CallKept DEF DownloadInv
<1>3. QED
  BY Zenon, <1>1, <1>2 DEF DownloadInv

\* A transfer moves on, and gives its slot back if it has one.
LEMMA MoveFacts ==
    ASSUME DownloadInv, NEW t \in DOMAIN xfers, xfers[t].pc # "done",
           NEW r \in XferRecords, r.key = xfers[t].key, r.watchers = xfers[t].watchers,
           r.pc = "done" /\ ~ r.err => r.layer,
           xfers' = Inactivated(t, r)
    PROVE  /\ xfers' \in Seq(XferRecords)
           /\ \A u \in DOMAIN xfers : Kept(u, Clients)
           /\ LayersInv'
           /\ r.layer = xfers[t].layer => XferHolders' = XferHolders
           /\ r.layer => XferHolders' = XferHolders \cup {xfers[t].key}
<1>1. xfers \in Seq(XferRecords) /\ LayersInv
  BY Zenon DEF DownloadInv, DownloadTypeOK
<1>2. xfers' \in Seq(XferRecords) /\ DOMAIN xfers' = DOMAIN xfers
  BY Zenon, <1>1, InactivatedFacts
<1>3. Alike(xfers'[t], r) /\ \A u \in DOMAIN xfers : u # t => Alike(xfers'[u], xfers[u])
  BY Zenon, <1>1, InactivatedFacts
<1>4. \A u \in DOMAIN xfers : Kept(u, Clients)
  BY <1>2, <1>3 DEF Kept, Alike
<1>5. LayersInv'
  <2>1. ASSUME NEW u \in DOMAIN xfers', xfers'[u].pc = "done", ~ xfers'[u].err,
               ~ xfers'[u].layer
        PROVE  /\ u \in DOMAIN xfers /\ xfers[u].pc = "done" /\ ~ xfers[u].err
               /\ ~ xfers[u].layer /\ (Unused(u) => Unused(u)')
    <3>1. u # t
      BY Zenon, <1>3, <2>1 DEF Alike
    <3>2. QED
      BY <1>2, <1>3, <2>1, <3>1 DEF Alike, Unused
  <2>2. QED
    BY Zenon, <1>1, <2>1, LayersKept
<1>6. r.layer = xfers[t].layer => XferHolders' = XferHolders
  BY <1>2, <1>3, SameXferHolders DEF Alike
<1>7. ASSUME r.layer PROVE XferHolders' = XferHolders \cup {xfers[t].key}
  <2> DEFINE A == {u \in DOMAIN xfers : xfers[u].layer}
             B == {u \in DOMAIN xfers' : xfers'[u].layer}
  <2>1. B = A \cup {t}
    BY Zenon, <1>2, <1>3, <1>7 DEF Alike
  <2>2. \A u \in DOMAIN xfers : xfers'[u].key = xfers[u].key
    BY Zenon, <1>3 DEF Alike
  <2>3. {xfers'[u].key : u \in B} = {xfers[u].key : u \in A \cup {t}}
    BY <2>1, <2>2
  <2>4. QED
    BY Zenon, <2>3 DEF XferHolders
<1>8. QED
  BY Zenon, <1>2, <1>4, <1>5, <1>6, <1>7

\* Fetch, and the ways Register ends without a layer.
LEMMA NoLayerInv ==
    ASSUME DownloadInv, NEW t \in DOMAIN xfers, xfers[t].pc # "done",
           \/ xfers' = Inactivated(t, [xfers[t] EXCEPT !.pc = "register"])
           \/ End(t, Failed(t)),
           call' = call, images' = images, layers' = layers
    PROVE  DownloadInv'
<1>1. xfers \in Seq(XferRecords) /\ StoreIsHeld
  BY Zenon DEF DownloadInv, DownloadTypeOK
<1>2. xfers[t] \in XferRecords
  BY <1>1
<1>3. PICK r \in XferRecords :
         /\ r.key = xfers[t].key /\ r.watchers = xfers[t].watchers
         /\ r.layer = xfers[t].layer /\ (r.pc = "done" => r.err)
         /\ xfers' = Inactivated(t, r)
  <2>1. CASE xfers' = Inactivated(t, [xfers[t] EXCEPT !.pc = "register"])
    <3> DEFINE r == [xfers[t] EXCEPT !.pc = "register"]
    <3>1. /\ r \in XferRecords /\ r.key = xfers[t].key /\ r.watchers = xfers[t].watchers
          /\ r.layer = xfers[t].layer /\ r.pc = "register"
      BY Zenon, <1>2 DEF XferRecords
    <3>2. QED
      BY Zenon, <2>1, <3>1
  <2>2. CASE End(t, Failed(t))
    <3> DEFINE r == [Failed(t) EXCEPT !.pc = "done"]
    <3>1. /\ r \in XferRecords /\ r.key = xfers[t].key /\ r.watchers = xfers[t].watchers
          /\ r.layer = xfers[t].layer /\ r.pc = "done" /\ r.err = TRUE
      BY Zenon, <1>2 DEF XferRecords, Failed
    <3>2. xfers' = Inactivated(t, r)
      BY Zenon, <2>2 DEF End
    <3> HIDE DEF r
    <3>3. QED
      BY Zenon, <3>1, <3>2
  <2>3. QED
    BY Zenon, <2>1, <2>2
<1>4. /\ xfers' \in Seq(XferRecords) /\ LayersInv' /\ XferHolders' = XferHolders
      /\ \A u \in DOMAIN xfers : Kept(u, Clients)
  BY Zenon, <1>3, MoveFacts
<1>5. StoreIsHeld'
  <2>1. Holders' = Holders
    BY Zenon, <1>4, HoldersAre
  <2>2. QED
    BY Zenon, <1>1, <2>1, SameHeld
<1>6. QED
  BY Zenon, <1>4, <1>5, XferStepInv

\* Register: the layer comes on top of layers that are there.
LEMMA NewLayerInv ==
    ASSUME DownloadInv, NEW t \in DOMAIN xfers, xfers[t].pc = "register",
           {SubSeq(xfers[t].key, 1, Len(xfers[t].key) - 1)} \ {<<>>} \subseteq layers,
           End(t, [xfers[t] EXCEPT !.layer = TRUE]),
           layers' = layers \cup {xfers[t].key}, call' = call, images' = images
    PROVE  DownloadInv'
<1> DEFINE k == xfers[t].key
           b == SubSeq(k, 1, Len(k) - 1)
           r == [[xfers[t] EXCEPT !.layer = TRUE] EXCEPT !.pc = "done"]
<1>1. xfers \in Seq(XferRecords) /\ StoreIsHeld
  BY Zenon DEF DownloadInv, DownloadTypeOK
<1>2. xfers[t] \in XferRecords
  BY <1>1
<1>3. k \in Seq(Blobs) /\ k # <<>>
  BY Zenon, <1>2 DEF XferRecords
<1>4. /\ r \in XferRecords /\ r.key = xfers[t].key /\ r.watchers = xfers[t].watchers
      /\ r.layer = TRUE
  BY Zenon, <1>2 DEF XferRecords
<1>5. xfers' = Inactivated(t, r)
  BY Zenon DEF End
<1> HIDE DEF r
<1>6. /\ xfers' \in Seq(XferRecords) /\ LayersInv'
      /\ \A u \in DOMAIN xfers : Kept(u, Clients)
      /\ XferHolders' = XferHolders \cup {k}
  BY Zenon, <1>4, <1>5, MoveFacts
<1>7. b \in Seq(Blobs) /\ Prefixes(k) = {k} \cup Prefixes(b)
  BY Zenon, <1>3, PrefixStep
<1>8. Prefixes(b) \subseteq layers
  <2>1. CASE b = <<>>
    <3>1. Prefixes(b) = {}
      BY <2>1 DEF Prefixes
    <3>2. QED
      BY Zenon, <3>1
  <2>2. CASE b # <<>>
    <3>1. b \in layers
      BY Zenon, <2>2
    <3>2. PICK h \in Holders : b \in Prefixes(h)
      BY Zenon, <1>1, <3>1 DEF StoreIsHeld, Held
    <3>3. Prefixes(b) \subseteq Prefixes(h)
      BY Zenon, <3>2, HoldersTyped, PrefixFacts
    <3>4. QED
      BY Zenon, <1>1, <3>2, <3>3 DEF StoreIsHeld, Held
  <2>3. QED
    BY Zenon, <2>1, <2>2
<1>9. Holders' = Holders \cup {k}
  BY Zenon, <1>6, HoldersAre
<1>10. Held' = Held \cup Prefixes(k)
  BY Zenon, <1>9 DEF Held
<1>11. StoreIsHeld'
  <2>1. layers' = Held'
    BY Zenon, <1>1, <1>7, <1>8, <1>10 DEF StoreIsHeld
  <2>2. QED
    BY Zenon, <2>1 DEF StoreIsHeld
<1>12. QED
  BY Zenon, <1>6, <1>11, XferStepInv

\* Fetch and Register: the DoFunc of a transfer.
LEMMA DoFuncInv ==
    ASSUME DownloadInv, NEW t \in DOMAIN xfers, Fetch(t) \/ Register(t)
    PROVE  DownloadInv'
<1>1. CASE Fetch(t)
  <2>1. /\ xfers[t].pc # "done" /\ call' = call /\ images' = images /\ layers' = layers
        /\ \/ xfers' = Inactivated(t, [xfers[t] EXCEPT !.pc = "register"])
           \/ End(t, Failed(t))
    BY Zenon, <1>1 DEF Fetch
  <2>2. QED
    BY Zenon, <2>1, NoLayerInv
<1>2. CASE Register(t)
  <2>1. xfers[t].pc = "register" /\ call' = call /\ images' = images
    BY Zenon, <1>2 DEF Register
  <2>2. \/ End(t, Failed(t)) /\ layers' = layers
        \/ /\ {SubSeq(xfers[t].key, 1, Len(xfers[t].key) - 1)} \ {<<>>} \subseteq layers
           /\ End(t, [xfers[t] EXCEPT !.layer = TRUE])
           /\ layers' = layers \cup {xfers[t].key}
    BY Zenon, <1>2 DEF Register
  <2>3. QED
    BY Zenon, <2>1, <2>2, NoLayerInv, NewLayerInv
<1>3. QED
  BY Zenon, <1>1, <1>2

\* The manager forgets a transfer.
LEMMA UntrackInv ==
    ASSUME DownloadInv, NEW t \in DOMAIN xfers, Untrack(t)
    PROVE  DownloadInv'
<1> DEFINE r == [xfers[t] EXCEPT !.tracked = FALSE]
<1>1. xfers \in Seq(XferRecords) /\ StoreIsHeld /\ LayersInv
  BY Zenon DEF DownloadInv, DownloadTypeOK
<1>2. xfers[t] \in XferRecords
  BY <1>1
<1>3. /\ r \in XferRecords /\ r.key = xfers[t].key /\ r.watchers = xfers[t].watchers
      /\ r.pc = xfers[t].pc /\ r.err = xfers[t].err /\ r.layer = xfers[t].layer
      /\ r.tracked = FALSE
  BY Zenon, <1>2 DEF XferRecords
<1>4. /\ call' = call /\ images' = images /\ layers' = layers
      /\ xfers' = [xfers EXCEPT ![t] = r]
  BY Zenon DEF Untrack
<1> HIDE DEF r
<1>5. /\ xfers' \in Seq(XferRecords) /\ DOMAIN xfers' = DOMAIN xfers
      /\ xfers'[t] = r /\ \A u \in DOMAIN xfers : u # t => xfers'[u] = xfers[u]
  BY Zenon, <1>1, <1>3, <1>4, ReplaceFacts
<1>6. \A u \in DOMAIN xfers : Kept(u, Clients)
  BY Zenon, <1>3, <1>5 DEF Kept
<1>7. LayersInv'
  <2>1. ASSUME NEW u \in DOMAIN xfers', xfers'[u].pc = "done", ~ xfers'[u].err,
               ~ xfers'[u].layer
        PROVE  /\ u \in DOMAIN xfers /\ xfers[u].pc = "done" /\ ~ xfers[u].err
               /\ ~ xfers[u].layer /\ (Unused(u) => Unused(u)')
    BY Zenon, <1>3, <1>5, <2>1 DEF Unused
  <2>2. QED
    BY Zenon, <1>1, <2>1, LayersKept
<1>8. XferHolders' = XferHolders
  BY Zenon, <1>3, <1>5, SameXferHolders
<1>9. StoreIsHeld'
  <2>1. Holders' = Holders
    BY Zenon, <1>4, <1>8, HoldersAre
  <2>2. QED
    BY Zenon, <1>1, <1>4, <2>1, SameHeld
<1>10. QED
  BY Zenon, <1>4, <1>5, <1>6, <1>7, <1>9, XferStepInv

\* A transfer that nobody uses any more gives its layer back.
LEMMA ReleasedInv ==
    ASSUME DownloadInv, NEW t \in DOMAIN xfers, Released(t)
    PROVE  DownloadInv'
<1> DEFINE r == [xfers[t] EXCEPT !.layer = FALSE]
           k == xfers[t].key
<1>1. xfers \in Seq(XferRecords) /\ StoreIsHeld /\ LayersInv
  BY Zenon DEF DownloadInv, DownloadTypeOK
<1>2. xfers[t] \in XferRecords
  BY <1>1
<1>3. /\ r \in XferRecords /\ r.key = k /\ r.watchers = xfers[t].watchers
      /\ r.pc = xfers[t].pc /\ r.err = xfers[t].err /\ r.layer = FALSE
      /\ r.tracked = xfers[t].tracked
  BY Zenon, <1>2 DEF XferRecords
<1>4. /\ call' = call /\ images' = images /\ Release(k) /\ Unused(t) /\ xfers[t].layer
      /\ xfers' = [xfers EXCEPT ![t] = r]
  BY Zenon DEF Released
<1> HIDE DEF r
<1>5. /\ xfers' \in Seq(XferRecords) /\ DOMAIN xfers' = DOMAIN xfers
      /\ xfers'[t] = r /\ \A u \in DOMAIN xfers : u # t => xfers'[u] = xfers[u]
  BY Zenon, <1>1, <1>3, <1>4, ReplaceFacts
<1>6. \A u \in DOMAIN xfers : Kept(u, Clients)
  BY Zenon, <1>3, <1>5 DEF Kept
<1>7. LayersInv'
  <2>1. Unused(t)'
    BY Zenon, <1>3, <1>4, <1>5 DEF Unused
  <2>2. ASSUME NEW u \in DOMAIN xfers', xfers'[u].pc = "done", ~ xfers'[u].err,
               ~ xfers'[u].layer, u # t
        PROVE  /\ u \in DOMAIN xfers /\ xfers[u].pc = "done" /\ ~ xfers[u].err
               /\ ~ xfers[u].layer /\ (Unused(u) => Unused(u)')
    BY Zenon, <1>5, <2>2 DEF Unused
  <2>3. QED
    BY Zenon, <1>1, <2>1, <2>2, LayersKept
<1>8. XferHolders' \subseteq XferHolders /\ XferHolders \subseteq XferHolders' \cup {k}
  BY <1>3, <1>5 DEF XferHolders
<1>9. k \in XferHolders
  BY Zenon, <1>4 DEF XferHolders
<1>10. StoreIsHeld'
  <2>1. /\ Holders \subseteq Holders' \cup {k} /\ Holders' \subseteq Holders \cup {k}
        /\ k \in Holders
    BY Zenon, <1>4, <1>8, <1>9, HoldersAre
  <2>2. Prefixes(k) \subseteq layers
    BY Zenon, <1>1, <2>1 DEF StoreIsHeld, Held
  <2>3. QED
    BY Zenon, <1>1, <1>4, <2>1, <2>2, ReleaseHeld
<1>11. QED
  BY Zenon, <1>4, <1>5, <1>6, <1>7, <1>10, XferStepInv

\* Somebody deletes an image.
LEMMA RemoveImageInv ==
    ASSUME DownloadInv, NEW c \in images, RemoveImage(c)
    PROVE  DownloadInv'
<1>1. /\ xfers \in Seq(XferRecords) /\ StoreIsHeld /\ LayersInv
  BY Zenon DEF DownloadInv, DownloadTypeOK
<1>2. call' = call /\ xfers' = xfers /\ images' = images \ {c} /\ Release(c)
  BY Zenon DEF RemoveImage
<1>3. LayersInv'
  BY Zenon, <1>1, <1>2 DEF LayersInv, Unused
<1>4. XferHolders' = XferHolders
  BY Zenon, <1>2 DEF XferHolders
<1>5. StoreIsHeld'
  <2>1. /\ Holders \subseteq Holders' \cup {c} /\ Holders' \subseteq Holders \cup {c}
        /\ c \in Holders
    BY Zenon, <1>2, <1>4, HoldersAre
  <2>2. Prefixes(c) \subseteq layers
    BY Zenon, <1>1, <2>1 DEF StoreIsHeld, Held
  <2>3. QED
    BY Zenon, <1>1, <1>2, <2>1, <2>2, ReleaseHeld
<1>6. \A u \in DOMAIN xfers : Kept(u, Clients)
  BY Zenon, <1>2, SameXfers
<1>7. QED
  BY Zenon, <1>1, <1>2, <1>3, <1>5, <1>6, XferStepInv

-----------------------------------------------------------------------------
(* The invariant, and what follows from it *)

\* At the start the store has the layers of the images, and nothing is under way.
LEMMA DownloadInitInv == Init => DownloadInv
<1> SUFFICES ASSUME Init PROVE DownloadInv
  BY Zenon
<1>1. /\ images \subseteq Seq(Blobs) /\ xfers = <<>> /\ call = [a \in Clients |-> Idle]
      /\ layers = UNION {Prefixes(c) : c \in images}
  BY Zenon, DownloadAssumption DEF Init
<1>2. Idle \in CallRecords
  <2>1. /\ <<>> \in Seq(Blobs) /\ <<>> \in Seq(Nat)
        /\ <<>> \in Seq([blob : Blobs, xfer : Nat])
    OBVIOUS
  <2>2. QED
    BY <2>1, Zenon DEF Idle, CallRecords
<1>3. <<>> \in Seq(XferRecords) /\ DOMAIN <<>> = {}
  OBVIOUS
<1>4. DownloadTypeOK
  BY Zenon, <1>1, <1>2, <1>3 DEF DownloadTypeOK
<1>5. StoreIsHeld
  <2>1. Prefixes(<<>>) = {}
    BY DEF Prefixes
  <2>2. \A a \in Clients : call[a].top = <<>>
    BY Zenon, <1>1 DEF Idle
  <2>3. Holders = images \cup {call[a].top : a \in Clients}
    BY Zenon, <1>1, <1>3 DEF Holders
  <2>4. Held = UNION {Prefixes(c) : c \in images}
    BY Zenon, <2>1, <2>2, <2>3 DEF Held
  <2>5. QED
    BY Zenon, <1>1, <2>4 DEF StoreIsHeld
<1>6. LayersInv
  BY Zenon, <1>1, <1>3 DEF LayersInv
<1>7. ASSUME NEW a \in Clients PROVE WatchesInv(a) /\ TopInv(a)
  <2>1. call[a].pc = "idle" /\ call[a].top = <<>> /\ call[a].watches = <<>>
    BY Zenon, <1>1 DEF Idle
  <2>2. DOMAIN <<>> = {}
    OBVIOUS
  <2>3. QED
    BY Zenon, <2>1, <2>2 DEF WatchesInv, TopInv
<1>8. QED
  BY Zenon, <1>4, <1>5, <1>6, <1>7 DEF DownloadInv

\* Every step keeps it, one lemma for each action.
LEMMA DownloadNextInv == DownloadInv /\ [Next]_vars => DownloadInv'
<1> SUFFICES ASSUME DownloadInv, [Next]_vars PROVE DownloadInv'
  BY Zenon
<1>1. ASSUME NEW a \in Clients, Begin(a) \/ CallStep(a) \/ Cancel(a) PROVE DownloadInv'
  BY <1>1, BeginInv, LookupInv, TransferInv, WaitInv, ReturnInv, UnwindInv, Zenon DEF CallStep
<1>2. ASSUME NEW t \in DOMAIN xfers, XferStep(t) PROVE DownloadInv'
  BY <1>2, DoFuncInv, UntrackInv, ReleasedInv, Zenon DEF XferStep
<1>3. ASSUME NEW c \in images, RemoveImage(c) PROVE DownloadInv'
  BY <1>3, RemoveImageInv, Zenon
<1>4. CASE UNCHANGED vars
  <2>1. xfers' = xfers /\ call' = call /\ images' = images /\ layers' = layers
    BY Zenon, <1>4 DEF vars
  <2>2. xfers \in Seq(XferRecords) /\ StoreIsHeld /\ LayersInv
    BY Zenon DEF DownloadInv, DownloadTypeOK
  <2>3. LayersInv'
    BY Zenon, <2>1, <2>2 DEF LayersInv, Unused
  <2>4. Holders' = Holders
    BY Zenon, <2>1 DEF Holders
  <2>5. StoreIsHeld'
    BY Zenon, <2>1, <2>2, <2>4, SameHeld
  <2>6. \A u \in DOMAIN xfers : Kept(u, Clients)
    BY Zenon, <2>1, SameXfers
  <2>7. QED
    BY Zenon, <2>1, <2>2, <2>3, <2>5, <2>6, XferStepInv
<1>5. QED
  BY <1>1, <1>2, <1>3, <1>4, Zenon DEF Next

\* The inductive invariant: every chain that an image, a call's topLayer or a
\* transfer's layer names is wholly in the store and nothing else is, a transfer
\* that ended well keeps its layer while it has a watcher, and a call watches the
\* transfers of what it has asked for, the last for all of it.
THEOREM DownloadInvariant == Spec => []DownloadInv
<1>1. QED
  BY DownloadInitInv, DownloadNextInv, PTL DEF Spec

\* Whatever calls, transfers and deletions of images are under way, the store has
\* exactly the layers that some image, topLayer or transfer holds: none is lost
\* while it is held and none stays when its last holder is gone.
THEOREM StoreHoldsExactly == Spec => []StoreIsHeld
<1>1. DownloadInv => StoreIsHeld
  BY Zenon DEF DownloadInv
<1>2. QED
  BY <1>1, DownloadInvariant, PTL

\* A Download that has returned, and has not been released, has all the layers it
\* was asked for in the store, however many other calls shared its transfers, were
\* cancelled or failed, and whatever images were deleted meanwhile.
THEOREM DownloadedStays == Spec => []DownloadedIsPresent
<1>1. ASSUME DownloadInv, NEW a \in Clients, call[a].pc = "have"
      PROVE  Prefixes(call[a].key) \subseteq layers
  <2> DEFINE c == call[a]
             w == call[a].watches
  <2>1. /\ StoreIsHeld /\ LayersInv /\ WatchesInv(a) /\ TopInv(a)
        /\ w \in Seq(Nat)
    BY Zenon, <1>1 DEF DownloadInv, DownloadTypeOK, CallRecords
  <2>2. c.key \in Holders
    <3>1. CASE w = <<>>
      BY Zenon, <1>1, <2>1, <3>1 DEF TopInv, Holders
    <3>2. CASE w # <<>>
      <4> DEFINE t == Top(a)
      <4>1. Len(w) \in DOMAIN w /\ t = w[Len(w)]
        BY <2>1, <3>2 DEF Top
      <4>2. t \in DOMAIN xfers /\ a \in xfers[t].watchers
        BY Zenon, <1>1, <2>1, <4>1 DEF WatchesInv
      <4>3. xfers[t].pc = "done" /\ ~ xfers[t].err /\ xfers[t].key = c.key
        BY Zenon, <1>1, <2>1, <3>2 DEF TopInv
      <4>4. xfers[t].layer
        BY Zenon, <2>1, <4>2, <4>3 DEF LayersInv, Unused
      <4>5. QED
        BY Zenon, <4>2, <4>3, <4>4 DEF Holders
    <3>3. QED
      BY Zenon, <3>1, <3>2
  <2>3. QED
    BY Zenon, <2>1, <2>2 DEF StoreIsHeld, Held
<1>2. DownloadInv => DownloadedIsPresent
  BY Zenon, <1>1 DEF DownloadedIsPresent
<1>3. QED
  BY <1>2, DownloadInvariant, PTL
=============================================================================
