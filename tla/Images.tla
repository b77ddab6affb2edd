------------------------------- MODULE Images -------------------------------
(***************************************************************************)
(* The images of the daemon: pull, load, commit, tag, rmi and the creation *)
(* and removal of containers as concurrent calls on three stores that each *)
(* lock only themselves: the image store, the reference store (tags) and   *)
(* the layer store; and what a crash leaves of them on disk.               *)
(*                                                                         *)
(* A call is a record with the labels of the steps it has still to take.   *)
(* A layer is in the layer store as long as an image in memory, a          *)
(* container or a call holds a layer above it; a layer that nobody held    *)
(* when the daemon went down stays.                                        *)
(***************************************************************************)
EXTENDS Naturals, Sequences, FiniteSets

CONSTANTS Clients, Images, Refs, Containers, LayersOf, pulled, committed,
          maxCalls, maxFaults, None

ASSUME ImagesAssumption ==
    /\ {pulled, committed} \subseteq Images /\ pulled # committed /\ None \notin Images
    /\ maxCalls \in Nat /\ maxFaults \in Nat

VARIABLES
    \* image.store in memory, and its files
    images,         \* IDs of the images map; each holds its layer
    children,       \* imageMeta.children
    lock,           \* its mutex, held over a Delete: a client or None
    content,        \* IDs with a config file
    parent,         \* the "parent" metadata file of each ID, or None
    \* reference.store and repositories.json
    refs, saved,
    \* the layer store, and the containers with the image each was made from
    layers,
    containers,     \* state is "none", "rw" (only its RW layer exists), "stopped" or "running"
    call, up,
    calls, faults,
    undeleted,      \* images whose config file could not be removed
    raced,          \* images deleted between the two halves of a Create of the same image
    stray,          \* images made children when deleted, or without a parent file
    dangling        \* images whose parent file may name an image that is gone

fileVars == <<content, parent>>
storeVars == <<images, children, lock>>
refVars == <<refs, saved>>
ghostVars == <<undeleted, raced, stray, dangling>>
vars == <<storeVars, fileVars, refVars, layers, containers, call, up, calls, faults, ghostVars>>

Idle == [todo |-> <<>>, img |-> None, ref |-> None, con |-> None, holds |-> None,
         force |-> FALSE, byID |-> FALSE, listed |-> {}, par |-> None]

Init ==
    /\ images = {} /\ children = [i \in Images |-> {}] /\ lock = None
    /\ content = {} /\ parent = [i \in Images |-> None]
    /\ refs = [r \in Refs |-> None] /\ saved = refs
    /\ layers = {}
    /\ containers = [c \in Containers |-> [state |-> "none", image |-> None]]
    /\ call = [a \in Clients |-> Idle]
    /\ up = TRUE /\ calls = 0 /\ faults = 0 /\ undeleted = {} /\ raced = {}
    /\ stray = {} /\ dangling = {}

Fault == faults < maxFaults /\ faults' = faults + 1
NoFault == UNCHANGED faults
Request == up /\ calls < maxCalls /\ calls' = calls + 1

At(a, label) == call[a].todo # <<>> /\ Head(call[a].todo) = label
Advance(a, r) == call' = [call EXCEPT ![a] = IF Len(r.todo) = 1 THEN Idle
                                             ELSE [r EXCEPT !.todo = Tail(@)]]
Proceed(a) == Advance(a, call[a])
\* An error: what is left to do is the deferred release of the layer.
Fail(a) == call' = [call EXCEPT ![a] = IF @.holds = None THEN Idle
                                       ELSE [@ EXCEPT !.todo = <<"release">>]]

-----------------------------------------------------------------------------
(* The layer store *)

Holders == images \cup {containers[c].image : c \in Containers} \cup {call[a].holds : a \in Clients}
Held == UNION {LayersOf[i] : i \in Holders \ {None}}
Release(i) == layers' = layers \ (LayersOf[i] \ Held')

-----------------------------------------------------------------------------
(* The reference store.  Its memory is changed before it is saved, and not *)
(* changed back when that fails.                                           *)

References(i) == {r \in Refs : refs[r] = i}
Without(rs) == [r \in Refs |-> IF r \in rs THEN None ELSE refs[r]]
save(a, new, ok) ==
    /\ refs' = new
    /\ \/ saved' = new /\ NoFault /\ ok
       \/ Fault /\ UNCHANGED saved /\ Fail(a)

-----------------------------------------------------------------------------
(* Pull, load and commit *)

\* pullSchema2 does not download an image it already has.
pullSchema2(a) ==
    /\ At(a, "get")
    /\ IF call[a].img \in content
       THEN call' = [call EXCEPT ![a].todo = <<"tag">>]
       ELSE Proceed(a)
    /\ UNCHANGED <<storeVars, fileVars, refVars, layers, containers, up, calls, faults, ghostVars>>

\* Commit reads the config of the container's image.
readImage(a) ==
    /\ At(a, "read")
    /\ IF call[a].par \in content THEN Proceed(a) ELSE Fail(a)
    /\ UNCHANGED <<storeVars, fileVars, refVars, layers, containers, up, calls, faults, ghostVars>>

\* Download, loadLayer and Register: from here on the call holds the layer.
\* A commit registers on top of the layers its container holds.
Download(a) ==
    /\ At(a, "download")
    /\ \/ /\ NoFault
          /\ layers' = layers \cup LayersOf[call[a].img]
          /\ Advance(a, [call[a] EXCEPT !.holds = call[a].img])
       \/ Fault /\ Fail(a) /\ UNCHANGED layers
    /\ UNCHANGED <<storeVars, fileVars, refVars, containers, up, calls, ghostVars>>

NotWritten(i) == content    \* mutant
Written(i) == content \cup {i}

\* Create writes the config before it takes the lock, under another name first.
Set(a) ==
    /\ At(a, "set")
    /\ \/ /\ NoFault
          /\ content' = Written(call[a].img)
          /\ undeleted' = undeleted \ {call[a].img} /\ raced' = raced \ {call[a].img}
          /\ Proceed(a)
       \/ Fault /\ Fail(a) /\ UNCHANGED <<content, undeleted, raced>>
    /\ UNCHANGED <<storeVars, parent, refVars, layers, containers, up, calls, stray, dangling>>

Create(a) ==
    /\ At(a, "create") /\ lock = None
    /\ LET i == call[a].img IN
       IF i \in images THEN Proceed(a) /\ UNCHANGED images
       ELSE IF LayersOf[i] \subseteq layers THEN Proceed(a) /\ images' = images \cup {i}
       ELSE Fail(a) /\ UNCHANGED images
    /\ UNCHANGED <<children, lock, fileVars, refVars, layers, containers, up, calls, faults,
                   ghostVars>>

\* The parent learns of its child before the metadata file is written,
\* which fails when the child is gone; it stays a child.
SetParent(a) ==
    /\ At(a, "setParent") /\ lock = None
    /\ LET i == call[a].img  p == call[a].par IN
       IF p \notin images
       THEN Fail(a) /\ NoFault /\ UNCHANGED <<children, parent, stray, dangling>>
       ELSE /\ children' = [children EXCEPT ![p] = @ \cup {i}]
            /\ \/ /\ i \in content /\ NoFault
                  /\ parent' = [parent EXCEPT ![i] = p] /\ Proceed(a)
                  /\ dangling' = IF p \in content THEN dangling \ {i} ELSE dangling \cup {i}
                  /\ stray' = stray \cup ({i} \ images)
               \/ /\ IF i \in content THEN Fault ELSE NoFault
                  /\ Fail(a) /\ UNCHANGED <<parent, dangling>>
                  /\ stray' = stray \cup {i}
    /\ UNCHANGED <<images, lock, content, refVars, layers, containers, up, calls, undeleted, raced>>

\* AddTag with force.  TagImage, which commit calls, looks the image up first.
AddTag(a) ==
    /\ At(a, "tag")
    /\ LET i == call[a].img IN
       IF call[a].par # None /\ i \notin content
       THEN Fail(a) /\ NoFault /\ UNCHANGED refVars
       ELSE save(a, [refs EXCEPT ![call[a].ref] = i], Proceed(a))
    /\ UNCHANGED <<storeVars, fileVars, layers, containers, up, calls, ghostVars>>

ReleaseLayer(a) ==
    /\ At(a, "release")
    /\ Advance(a, [call[a] EXCEPT !.holds = None])
    /\ UNCHANGED images /\ UNCHANGED containers
    /\ Release(call[a].holds)
    /\ UNCHANGED <<children, lock, fileVars, refVars, up, calls, faults, ghostVars>>

-----------------------------------------------------------------------------
(* ImageDelete *)

Running(i) == \E c \in Containers : containers[c].state = "running" /\ containers[c].image = i
Stopped(i) == \E c \in Containers : containers[c].state = "stopped" /\ containers[c].image = i
conflictHard(i) == children[i] # {} \/ Running(i)

\* Metadata is only read for an ID that has a config file.
GetParent(i) == IF i \in content THEN parent[i] ELSE None

Helper == <<"check", "list", "untagAll", "delete", "releaseImage">>

Resolved(a, r, i, labels) ==
    call' = [call EXCEPT ![a].ref = r, ![a].img = i, ![a].todo = labels]

\* By reference: the only reference of an image that containers use is kept.
\* By ID: an only reference is removed first.
ImageDelete(a) ==
    /\ At(a, "resolve")
    /\ LET c == call[a]
           i == IF c.byID THEN c.img ELSE refs[c.ref]
           only == Cardinality(References(i)) = 1
       IN IF ~ c.byID
          THEN IF i = None \/ (~ c.force /\ only /\ (Running(i) \/ Stopped(i))) THEN Fail(a)
               ELSE Resolved(a, c.ref, i, <<"untag">> \o Helper)
          ELSE IF i \notin content \/ (only /\ (conflictHard(i) \/ (~ c.force /\ Stopped(i))))
               THEN Fail(a)
               ELSE IF only
                    THEN \E r \in References(i) : Resolved(a, r, i, <<"untag">> \o Helper)
                    ELSE Resolved(a, c.ref, i, Helper)
    /\ UNCHANGED <<storeVars, fileVars, refVars, layers, containers, up, calls, faults, ghostVars>>

\* The reference may have moved to another image by now.
removeImageRef(a) ==
    /\ At(a, "untag")
    /\ IF refs[call[a].ref] = None THEN Fail(a) /\ NoFault /\ UNCHANGED refVars
       ELSE LET new == Without({call[a].ref}) IN
            save(a, new, IF ~ call[a].byID /\ \E r \in Refs : new[r] = call[a].img
                         THEN Fail(a) ELSE Proceed(a))
    /\ UNCHANGED <<storeVars, fileVars, layers, containers, up, calls, ghostVars>>

Conflict(i, force) ==
    conflictHard(i) \/ (~ force /\ (References(i) # {} \/ Stopped(i)))

checkImageDeleteConflict(a) ==
    /\ At(a, "check")
    /\ IF Conflict(call[a].img, call[a].force) THEN Fail(a) ELSE Proceed(a)
    /\ UNCHANGED <<storeVars, fileVars, refVars, layers, containers, up, calls, faults, ghostVars>>

\* A reference that was added since the check is deleted too.
ListReferences(a) ==
    /\ At(a, "list")
    /\ LET i == call[a].img
       IN Advance(a, [call[a] EXCEPT !.listed = References(i), !.par = GetParent(i)])
    /\ UNCHANGED <<storeVars, fileVars, refVars, layers, containers, up, calls, faults, ghostVars>>

\* Each of the listed references is deleted by its name; one that is gone
\* ends the call.
removeAllReferencesToImageID(a) ==
    /\ At(a, "untagAll")
    /\ LET gone == {r \in call[a].listed : refs[r] = None} IN
       \/ gone = {} /\ save(a, Without(call[a].listed), Proceed(a))
       \/ /\ gone # {} /\ \E rs \in SUBSET call[a].listed : save(a, Without(rs), Fail(a))
    /\ UNCHANGED <<storeVars, fileVars, layers, containers, up, calls, ghostVars>>

OrphanNone(i, kept) == parent    \* mutant
\* The children of a deleted image lose their parent files, and it its own.
Orphaned(i, kept) ==
    [j \in Images |-> IF j \in (children[i] \cup {i}) \ kept THEN None ELSE parent[j]]

StillLinked(i) == [children EXCEPT ![i] = {}]    \* mutant
Unlinked(i) == [j \in Images |-> IF j = i THEN {} ELSE IF j = GetParent(i)
                                 THEN children[j] \ {i} ELSE children[j]]
NotRemoved(i) == content    \* mutant
Removed(i) == content \ {i}

\* The parent file of a child, the metadata of the image or its config cannot
\* be removed; Delete ignores all three.
RemoveFiles(i) ==
    \E kept \in {{}} \cup {{j} : j \in children[i] \cup {i}}, removed \in BOOLEAN :
        /\ kept # {} => removed = (i \notin kept)
        /\ IF kept = {} /\ removed THEN NoFault ELSE Fault
        /\ parent' = Orphaned(i, kept)
        /\ dangling' = {j \in dangling \cup kept : parent'[j] # None}
        /\ content' = IF removed THEN Removed(i) ELSE content
        /\ undeleted' = IF removed THEN undeleted ELSE undeleted \cup {i}

\* Delete up to the removal of the files.
Delete(a) ==
    /\ At(a, "delete") /\ lock = None
    /\ LET i == call[a].img IN
       IF i \notin images
       THEN Fail(a) /\ NoFault /\ UNCHANGED <<storeVars, fileVars, undeleted, raced, dangling>>
       ELSE /\ lock' = a
            /\ RemoveFiles(i)
            /\ children' = Unlinked(i)
            /\ images' = images \ {i}
            /\ raced' = IF \E b \in Clients : At(b, "create") /\ call[b].img = i
                        THEN raced \cup {i} ELSE raced
            /\ Advance(a, [call[a] EXCEPT !.holds = i])
    /\ UNCHANGED <<refVars, layers, containers, up, calls, stray>>

\* The layer of the image is released; with prune, the parent is next.
ReleaseImage(a) ==
    /\ At(a, "releaseImage")
    /\ call' = [call EXCEPT ![a] =
                  IF @.par = None THEN Idle
                  ELSE [Idle EXCEPT !.todo = Helper, !.img = call[a].par]]
    /\ UNCHANGED images /\ UNCHANGED containers
    /\ Release(call[a].img)
    /\ lock' = None
    /\ UNCHANGED <<children, fileVars, refVars, up, calls, faults, ghostVars>>

-----------------------------------------------------------------------------
(* Containers *)

GetImage(a) ==
    /\ At(a, "getImage")
    /\ LET i == refs[call[a].ref] IN
       IF i \in content THEN Advance(a, [call[a] EXCEPT !.img = i]) ELSE Fail(a)
    /\ UNCHANGED <<storeVars, fileVars, refVars, layers, containers, up, calls, faults, ghostVars>>

setRWLayer(a) ==
    /\ At(a, "rwLayer")
    /\ LET i == call[a].img IN
       IF i \in content /\ LayersOf[i] \subseteq layers
       THEN /\ containers' = [containers EXCEPT ![call[a].con] = [state |-> "rw", image |-> i]]
            /\ Proceed(a)
       ELSE Fail(a) /\ UNCHANGED containers
    /\ UNCHANGED <<storeVars, fileVars, refVars, layers, up, calls, faults, ghostVars>>

Register(a) ==
    /\ At(a, "register")
    /\ containers' = [containers EXCEPT ![call[a].con].state = "stopped"]
    /\ Proceed(a)
    /\ UNCHANGED <<storeVars, fileVars, refVars, layers, up, calls, faults, ghostVars>>

ContainerStart(c) ==
    /\ Request /\ containers[c].state = "stopped"
    /\ containers' = [containers EXCEPT ![c].state = "running"]
    /\ UNCHANGED <<storeVars, fileVars, refVars, layers, call, up, faults, ghostVars>>

ContainerRm(c) ==
    /\ Request /\ containers[c].state \in {"stopped", "running"}
    /\ containers' = [containers EXCEPT ![c] = [state |-> "none", image |-> None]]
    /\ UNCHANGED images /\ UNCHANGED call
    /\ Release(containers[c].image)
    /\ UNCHANGED <<children, lock, fileVars, refVars, up, faults, ghostVars>>

-----------------------------------------------------------------------------
Pull(r) == [Idle EXCEPT !.todo = <<"get", "download", "set", "create", "release", "tag">>,
                        !.img = pulled, !.ref = r]
Load(r) == [Idle EXCEPT !.todo = <<"download", "set", "create", "tag", "release">>,
                        !.img = pulled, !.ref = r]
Commit(c, r) ==
    [Idle EXCEPT !.todo = <<"read", "download", "set", "create", "setParent", "tag", "release">>,
                 !.img = committed, !.ref = r, !.par = containers[c].image]
New(c, r) == [Idle EXCEPT !.todo = <<"getImage", "rwLayer", "register">>, !.con = c, !.ref = r]
RmiRef(r, force) == [Idle EXCEPT !.todo = <<"resolve">>, !.ref = r, !.force = force]
RmiID(i, force) == [Idle EXCEPT !.todo = <<"resolve">>, !.img = i, !.byID = TRUE, !.force = force]

\* Every commit makes a new ID; this model has one, of which nothing is left
\* when it is used again.
Committable(c) ==
    /\ containers[c].state \in {"stopped", "running"} /\ containers[c].image = pulled
    /\ committed \notin content \cup images \cup children[pulled] \cup stray
    /\ \A r \in Refs : committed \notin {refs[r], saved[r]}
    /\ \A a \in Clients : call[a].img # committed

Call(a) ==
    /\ Request /\ call[a].todo = <<>>
    /\ \/ \E r \in Refs : \/ call' = [call EXCEPT ![a] = Pull(r)]
                          \/ call' = [call EXCEPT ![a] = Load(r)]
                          \/ \E f \in BOOLEAN : call' = [call EXCEPT ![a] = RmiRef(r, f)]
       \/ \E i \in Images, f \in BOOLEAN : call' = [call EXCEPT ![a] = RmiID(i, f)]
       \/ \E c \in Containers, r \in Refs :
            \/ Committable(c) /\ call' = [call EXCEPT ![a] = Commit(c, r)]
            \/ /\ containers[c].state = "none" /\ \A b \in Clients : call[b].con # c
               /\ call' = [call EXCEPT ![a] = New(c, r)]
    /\ UNCHANGED <<storeVars, fileVars, refVars, layers, containers, up, faults, ghostVars>>

Crash ==
    /\ up /\ Fault
    /\ up' = FALSE
    /\ images' = {} /\ children' = [i \in Images |-> {}] /\ lock' = None
    /\ call' = [a \in Clients |-> Idle]
    /\ containers' = [c \in Containers |-> [containers[c] EXCEPT
                        !.state = IF @ = "running" THEN "stopped" ELSE @]]
    /\ UNCHANGED <<fileVars, refVars, layers, calls, ghostVars>>

\* NewImageStore fails, and the daemon with it, when a layer is missing.
restore ==
    /\ ~ up
    /\ \A i \in content : LayersOf[i] \subseteq layers
    /\ up' = TRUE
    /\ images' = content
    /\ children' = [p \in Images |-> {i \in content : p \in content /\ parent[i] = p}]
    /\ refs' = saved
    /\ undeleted' = {} /\ raced' = {} /\ stray' = {}
    /\ dangling' = {i \in dangling : parent[i] \notin content}
    /\ UNCHANGED <<lock, fileVars, saved, layers, containers, call, calls, faults>>

Step(a) ==
    \/ pullSchema2(a) \/ readImage(a) \/ Download(a) \/ Set(a) \/ Create(a) \/ SetParent(a)
    \/ AddTag(a) \/ ReleaseLayer(a) \/ ImageDelete(a) \/ removeImageRef(a)
    \/ checkImageDeleteConflict(a) \/ ListReferences(a) \/ removeAllReferencesToImageID(a)
    \/ Delete(a) \/ ReleaseImage(a) \/ GetImage(a) \/ setRWLayer(a) \/ Register(a)

Next ==
    \/ \E a \in Clients : Call(a) \/ Step(a)
    \/ \E c \in Containers : ContainerStart(c) \/ ContainerRm(c)
    \/ Crash \/ restore

Spec == Init /\ [][Next]_vars

-----------------------------------------------------------------------------
(* Properties *)

\* Type invariant.
TypeOK ==
    /\ images \subseteq Images /\ content \subseteq Images
    /\ children \in [Images -> SUBSET Images]
    /\ parent \in [Images -> Images \cup {None}]
    /\ refs \in [Refs -> Images \cup {None}] /\ saved \in [Refs -> Images \cup {None}]
    /\ lock \in Clients \cup {None}
    /\ Held \subseteq layers

\* The daemon can start again after a crash at any moment: NewImageStore
\* finds the layers of every image that has a config file.  The exception is
\* an image whose file Delete could not remove before it released the layer.
RestartSucceeds == \A i \in content \ undeleted : LayersOf[i] \subseteq layers

\* No image has a parent that does not exist, though commits set parents
\* while deletions and crashes remove them.  The exceptions are an image whose
\* parent was raced when SetParent found it in memory, which a restart forgets,
\* and one whose parent file Delete could not remove.
ParentExists ==
    \A i \in content \ dangling : up /\ parent[i] # None => parent[i] \in images

\* An image that the store lists has its config file, unless a Delete came
\* between the two halves of a Create of the same image.
ImageHasContent == images \subseteq content \cup raced

\* The children for which Conflict keeps an image exist, unless a child was
\* deleted between its Create and the SetParent of its commit, or SetParent
\* could not write its parent file, from which Delete learns of the parent.
ChildrenExist == \A p \in images : children[p] \subseteq images \cup stray
=============================================================================
