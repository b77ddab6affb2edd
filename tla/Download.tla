------------------------------ MODULE Download ------------------------------
(***************************************************************************)
(* LayerDownloadManager: concurrent Download calls that share transfers by *)
(* key, the transfers themselves, which fetch a blob and register it as a  *)
(* layer on top of their parent's, and the references everybody holds on   *)
(* the layer store.                                                        *)
(*                                                                         *)
(* A layer is named by its chain, the sequence of blobs up to it, which is *)
(* also the key of the transfer that makes it.  The transfer manager is    *)
(* the one of TransferManager.tla: here it hands out slots in order, joins *)
(* callers with the same key, and cancels a transfer without watchers.     *)
(***************************************************************************)
EXTENDS Naturals, Sequences, FiniteSets, FiniteSetsExt, Functions

CONSTANTS
    Clients,
    Manifests,      \* the sequences of blobs each client may ask for
    Stored,         \* chains of the images there may be at the start
    concurrencyLimit, maxCalls, maxFaults

\* The blobs of the chains and manifests there may be.
Blobs == UNION {Range(m) : m \in Stored \cup UNION {Manifests[a] : a \in Clients}}

ASSUME DownloadAssumption ==
    /\ concurrencyLimit \in Nat \ {0} /\ maxCalls \in Nat /\ maxFaults \in Nat
    /\ Stored \subseteq Seq(Blobs)
    /\ \A a \in Clients : Manifests[a] \subseteq Seq(Blobs)

VARIABLES
    layers,     \* chains in the layer store
    known,      \* blobs whose DiffID the metadata service knows
    images,     \* chains held by an image
    xfers,      \* every transfer, in the order they were made
    waiting,    \* waitingTransfers: transfers without a slot, as indexes of xfers
    call,       \* the Download call of each client
    calls, faults,
    blameless   \* no registration has failed for want of a layer it builds on

vars == <<layers, known, images, xfers, waiting, call, calls, faults, blameless>>

\* todo: blobs not looked at yet; key: those looked at; top: chain of topLayer;
\* watches: the transfers it watches, topDownload last; source: downloadsByKey.
Idle == [pc |-> "idle", todo |-> <<>>, key |-> <<>>, top |-> <<>>, watches |-> <<>>,
         source |-> <<>>, missing |-> FALSE]

Prefixes(c) == {SubSeq(c, 1, n) : n \in 1..Len(c)}

Init ==
    /\ images \in SUBSET Stored
    /\ layers = UNION {Prefixes(c) : c \in images}
    /\ known = UNION {Range(c) : c \in images}
    /\ xfers = <<>> /\ waiting = <<>>
    /\ call = [a \in Clients |-> Idle]
    /\ calls = [a \in Clients |-> 0] /\ faults = 0 /\ blameless = TRUE

Fault == faults < maxFaults /\ faults' = faults + 1
NoFault == UNCHANGED faults

-----------------------------------------------------------------------------
(* The layer store *)

Holders == images \cup {call[a].top : a \in Clients}
                  \cup {xfers[t].key : t \in {u \in DOMAIN xfers : xfers[u].layer}}
Held == UNION {Prefixes(c) : c \in Holders}
Release(c) == layers' = layers \ (Prefixes(c) \ Held')

-----------------------------------------------------------------------------
(* The transfer manager *)

Live == {t \in DOMAIN xfers : xfers[t].tracked}
Active == {t \in DOMAIN xfers : xfers[t].slot = "active"}

KeepWaiting(t, r) == [xfers EXCEPT ![t] = [r EXCEPT !.slot = "inactive"]] \* mutant

\* inactivate: the slot goes to the first transfer that waits for one.
Inactivated(t, r) ==
    LET freed == [xfers EXCEPT ![t] = [r EXCEPT !.slot = "inactive"]] IN
    IF xfers[t].slot # "active" \/ waiting = <<>> THEN freed
    ELSE [freed EXCEPT ![Head(waiting)].slot = "active"]
NextWaiting(t) == IF xfers[t].slot # "active" \/ waiting = <<>> THEN waiting ELSE Tail(waiting)

\* The transfer function returns: Done is closed.
End(t, r) ==
    /\ xfers' = Inactivated(t, [r EXCEPT !.pc = "done"])
    /\ waiting' = NextWaiting(t)

\* Release of a watcher; a transfer that loses its last watcher is
\* cancelled unless it has ended and been closed.
Unwatched(t, a) ==
    LET w == xfers[t].watchers \ {a} IN
    [xfers EXCEPT ![t].watchers = w, ![t].cancelled = @ \/ (w = {} /\ xfers[t].tracked)]

-----------------------------------------------------------------------------
(* Download *)

Begin(a) ==
    /\ call[a].pc = "idle" /\ calls[a] < maxCalls /\ calls' = [calls EXCEPT ![a] = @ + 1]
    /\ \E m \in Manifests[a] : call' = [call EXCEPT ![a] = [Idle EXCEPT !.pc = "lookup", !.todo = m]]
    /\ UNCHANGED <<layers, known, images, xfers, waiting, faults, blameless>>

\* The layers that exist are skipped, from the bottom up to the first that
\* is missing; topLayer holds the last.
Lookup(a) ==
    /\ call[a].pc = "lookup" /\ call[a].todo # <<>>
    /\ LET c == call[a]
           key == Append(c.key, Head(c.todo))
       IN IF ~ c.missing /\ Head(c.todo) \in known /\ key \in layers
          THEN call' = [call EXCEPT ![a].key = key, ![a].todo = Tail(@), ![a].top = key]
          ELSE call' = [call EXCEPT ![a].key = key, ![a].todo = Tail(@), ![a].missing = TRUE,
                                    ![a].pc = "transfer"]
    /\ UNCHANGED images /\ UNCHANGED xfers
    /\ Release(call[a].top)
    /\ UNCHANGED <<known, waiting, calls, faults, blameless>>

Watch(a, t, blob) ==
    call' = [call EXCEPT ![a].pc = "lookup", ![a].watches = Append(@, t),
                         ![a].source = Append(@, [blob |-> blob, xfer |-> t])]

\* Transfer joins the transfer with the same key or makes one.  While one
\* with that key is cancelled but not yet removed, it waits.  A blob that
\* this call already downloads is copied from there.
Transfer(a) ==
    /\ call[a].pc = "transfer"
    /\ LET c == call[a]
           blob == c.key[Len(c.key)]
           same == {t \in Live : xfers[t].key = c.key}
           new == Len(xfers) + 1
           source == {i \in DOMAIN c.source : c.source[i].blob = blob}
       IN \/ \E t \in same :
               /\ ~ xfers[t].cancelled
               /\ xfers' = [xfers EXCEPT ![t].watchers = @ \cup {a}]
               /\ Watch(a, t, blob)
               /\ UNCHANGED waiting
          \/ /\ same = {}
             /\ xfers' = Append(xfers,
                  [key |-> c.key, pc |-> "fetch", watchers |-> {a}, tracked |-> TRUE,
                   cancelled |-> FALSE, err |-> FALSE, layer |-> FALSE,
                   parent |-> IF c.watches = <<>> THEN 0 ELSE c.watches[Len(c.watches)],
                   source |-> IF source = {} THEN 0 ELSE c.source[Min(source)].xfer,
                   slot |-> IF Cardinality(Active) < concurrencyLimit
                            THEN "active" ELSE "waiting"])
             /\ waiting' = IF Cardinality(Active) < concurrencyLimit
                           THEN waiting ELSE Append(waiting, new)
             /\ Watch(a, new, blob)
    /\ UNCHANGED <<layers, known, images, calls, faults, blameless>>

Top(a) == call[a].watches[Len(call[a].watches)]

\* Everything was there, or the last transfer is done.
Wait(a) ==
    /\ call[a].pc = "lookup" /\ call[a].todo = <<>>
    /\ \/ call[a].watches = <<>> /\ call' = [call EXCEPT ![a].pc = "have"]
       \/ /\ call[a].watches # <<>> /\ xfers[Top(a)].pc = "done"
          /\ call' = [call EXCEPT ![a].pc = IF xfers[Top(a)].err THEN "unwind" ELSE "return"]
    /\ UNCHANGED <<layers, known, images, xfers, waiting, calls, faults, blameless>>

\* The client has gone away.
Cancel(a) ==
    /\ call[a].pc = "lookup" /\ call[a].todo = <<>> /\ call[a].watches # <<>>
    /\ call' = [call EXCEPT ![a].pc = "unwind"]
    /\ UNCHANGED <<layers, known, images, xfers, waiting, calls, faults, blameless>>

\* The deferred calls of a Download that succeeded: topLayer, then the
\* watchers of all but the last transfer, the last first.
Return(a) ==
    /\ call[a].pc = "return"
    /\ LET n == Len(call[a].watches) IN
       \/ /\ call[a].top # <<>>
          /\ call' = [call EXCEPT ![a].top = <<>>]
          /\ UNCHANGED images /\ UNCHANGED xfers
          /\ Release(call[a].top)
       \/ /\ call[a].top = <<>> /\ n > 1
          /\ xfers' = Unwatched(call[a].watches[n - 1], a)
          /\ call' = [call EXCEPT ![a].watches = SubSeq(@, 1, n - 2) \o <<Top(a)>>]
          /\ UNCHANGED layers
       \/ /\ call[a].top = <<>> /\ n = 1
          /\ call' = [call EXCEPT ![a].pc = "have"]
          /\ UNCHANGED <<layers, xfers>>
    /\ UNCHANGED <<known, images, waiting, calls, faults, blameless>>

\* After an error, a cancellation, or by the caller's release everything is
\* given back: the last transfer, topLayer, the other transfers.
Unwind(a) ==
    /\ call[a].pc \in {"have", "unwind"}
    /\ LET c == call[a]
           n == Len(c.watches)
       IN \/ /\ n > 0 /\ (Len(c.source) = n \/ c.top = <<>>)
             /\ xfers' = Unwatched(Top(a), a)
             /\ call' = [call EXCEPT ![a].watches = SubSeq(@, 1, n - 1), ![a].pc = "unwind"]
             /\ UNCHANGED layers
          \/ /\ (n = 0 \/ Len(c.source) # n) /\ c.top # <<>>
             /\ call' = [call EXCEPT ![a].top = <<>>, ![a].pc = "unwind"]
             /\ UNCHANGED images /\ UNCHANGED xfers
             /\ Release(c.top)
          \/ /\ n = 0 /\ c.top = <<>>
             /\ call' = [call EXCEPT ![a] = Idle]
             /\ UNCHANGED <<layers, xfers>>
    /\ UNCHANGED <<known, images, waiting, calls, faults, blameless>>

-----------------------------------------------------------------------------
(* The transfer functions, makeDownloadFunc and makeDownloadFuncFromDownload *)

Needs(t) == {xfers[t].parent, xfers[t].source} \ {0}
Failed(t) == [xfers[t] EXCEPT !.err = TRUE]
NeedFailed(t) == \E u \in Needs(t) : xfers[u].pc = "done" /\ xfers[u].err

\* It starts when it gets a slot, cancelled or not, and fails at once if its
\* parent has.  Once the blob is there it is inactive: it gives the slot back
\* before it waits for its parent.
Fetch(t) ==
    /\ xfers[t].pc = "fetch" /\ xfers[t].slot = "active"
    /\ LET copy == xfers[t].source # 0
           orphan == ~ copy /\ NeedFailed(t)
       IN \/ /\ ~ copy
             /\ IF orphan \/ xfers[t].cancelled THEN NoFault ELSE Fault
             /\ End(t, Failed(t))
          \/ /\ ~ orphan
             /\ xfers' = Inactivated(t, [xfers[t] EXCEPT !.pc = "register"])
             /\ waiting' = NextWaiting(t)
             /\ NoFault
    /\ UNCHANGED <<layers, known, images, call, calls, blameless>>

\* Register on top of the parent's layer, unless the transfer is cancelled or
\* what it waits for failed; the data of a copy come from the source's layer.
Register(t) ==
    /\ xfers[t].pc = "register"
    /\ LET key == xfers[t].key
           below == {SubSeq(key, 1, Len(key) - 1)} \cup {xfers[u].key : u \in Needs(t)}
           ready == \A u \in Needs(t) : xfers[u].pc = "done" /\ ~ xfers[u].err
           missing == ~ (below \ {<<>>} \subseteq layers)
       IN \/ /\ xfers[t].cancelled \/ NeedFailed(t) \/ (ready /\ missing)
             /\ End(t, Failed(t))
             /\ blameless' = (blameless /\ (ready /\ missing => xfers[t].cancelled))
             /\ NoFault /\ UNCHANGED <<layers, known>>
          \/ /\ ready /\ Fault
             /\ End(t, Failed(t))
             /\ UNCHANGED <<layers, known, blameless>>
          \/ /\ ready /\ ~ missing
             /\ layers' = layers \cup {key}
             /\ known' = known \cup {key[Len(key)]}
             /\ End(t, [xfers[t] EXCEPT !.layer = TRUE])
             /\ NoFault /\ UNCHANGED blameless
    /\ UNCHANGED <<images, call, calls>>

\* The manager forgets a transfer that is done.
Untrack(t) ==
    /\ xfers[t].pc = "done" /\ xfers[t].tracked
    /\ xfers' = [xfers EXCEPT ![t].tracked = FALSE]
    /\ UNCHANGED <<layers, known, images, waiting, call, calls, faults, blameless>>

UnusedOnceDone(t) == ~ xfers[t].tracked \* mutant
UnusedUnlessCancelled(t) == ~ xfers[t].tracked /\ xfers[t].watchers = {} /\ ~ xfers[t].cancelled \* mutant
Unused(t) == ~ xfers[t].tracked /\ xfers[t].watchers = {}

\* Released: nobody watches and the manager has forgotten it.
Released(t) ==
    /\ Unused(t) /\ xfers[t].layer
    /\ xfers' = [xfers EXCEPT ![t].layer = FALSE]
    /\ UNCHANGED images /\ UNCHANGED call
    /\ Release(xfers[t].key)
    /\ UNCHANGED <<known, waiting, calls, faults, blameless>>

\* Somebody deletes an image: imageStore.Delete forgets it, releases its layer.
RemoveImage(c) ==
    /\ images' = images \ {c}
    /\ UNCHANGED xfers /\ UNCHANGED call
    /\ Release(c)
    /\ UNCHANGED <<known, waiting, calls, faults, blameless>>

-----------------------------------------------------------------------------
CallStep(a) == Lookup(a) \/ Transfer(a) \/ Wait(a) \/ Return(a) \/ Unwind(a)
XferStep(t) == Fetch(t) \/ Register(t) \/ Untrack(t) \/ Released(t)

Next ==
    \/ \E a \in Clients : Begin(a) \/ CallStep(a) \/ Cancel(a)
    \/ \E t \in DOMAIN xfers : XferStep(t)
    \/ \E c \in images : RemoveImage(c)

\* Some goroutine runs as long as one can; the registry answers or fails.
\* There is always only a finite amount of work, so nobody is starved.
Fairness == WF_vars((\E a \in Clients : CallStep(a)) \/ (\E t \in DOMAIN xfers : XferStep(t)))

Spec == Init /\ [][Next]_vars /\ Fairness

-----------------------------------------------------------------------------
(* Properties *)

\* From the return of a successful Download until its release function is
\* called all the layers asked for are in the store.
DownloadedIsPresent == \A a \in Clients : call[a].pc = "have" => Prefixes(call[a].key) \subseteq layers

\* A transfer that somebody watches never fails because a layer it builds on
\* has been removed from the store.
ParentIsPresent == blameless

\* Every reference is given back: once no call is under way and no transfer
\* has anything left to do, the store has the layers of images and no others.
NothingLeaks ==
    LET over == /\ \A a \in Clients : call[a].pc = "idle"
                /\ \A t \in DOMAIN xfers : ~ ENABLED XferStep(t)
    IN over => layers = UNION {Prefixes(c) : c \in images}

\* Every Download returns, though transfers wait for slots and for parents.
DownloadEnds == \A a \in Clients : []<>(call[a].pc = "idle")
=============================================================================
