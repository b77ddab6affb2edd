---------------------------- MODULE ImagesProofs ----------------------------
(***************************************************************************)
(* The properties of Images.tla for any number of clients, references and  *)
(* containers.  Spec keeps ImagesInv; the four properties that TLC checks  *)
(* follow from it.                                                         *)
(***************************************************************************)
EXTENDS Images, SequenceTheorems, TLAPS

-----------------------------------------------------------------------------
(* A call: the order of its steps, and what it knows at each of them *)

Labels ==
    {"get", "read", "download", "set", "create", "setParent", "tag", "release", "getImage",
     "rwLayer", "register", "resolve", "untag", "check", "list", "untagAll", "delete",
     "releaseImage"}
Order ==
    {<<"get", "download">>, <<"read", "download">>, <<"download", "set">>, <<"set", "create">>,
     <<"create", "release">>, <<"create", "tag">>, <<"create", "setParent">>,
     <<"setParent", "tag">>, <<"release", "tag">>, <<"tag", "release">>,
     <<"getImage", "rwLayer">>, <<"rwLayer", "register">>,
     <<"untag", "check">>, <<"check", "list">>, <<"list", "untagAll">>,
     <<"untagAll", "delete">>, <<"delete", "releaseImage">>}
Last == {"tag", "release", "register", "resolve", "releaseImage"}
IsPlan(s) ==
    /\ \A k \in 1..(Len(s) - 1) : <<s[k], s[k + 1]>> \in Order
    /\ s # <<>> => s[Len(s)] \in Last
SetsParent(s) == \E k \in 1..Len(s) : s[k] = "setParent"

CallType ==
    [todo : Seq(Labels), img : Images \cup {None}, ref : Refs \cup {None},
     con : Containers \cup {None}, holds : Images \cup {None}, force : BOOLEAN, byID : BOOLEAN,
     listed : SUBSET Refs, par : Images \cup {None}]

Label(c) == IF c.todo = <<>> THEN "idle" ELSE Head(c.todo)
Early == {"get", "read", "download", "set", "create"}
Deleting == {"untag", "check", "list", "untagAll", "delete"}
Making == Early \cup {"setParent", "tag", "release"}
Makes(c) == c.img = committed /\ Label(c) \in Making

\* What holds of a call whatever the stores are.
CallOK(c) ==
    /\ c \in CallType
    /\ IsPlan(c.todo)
    /\ Label(c) \in Early \cup Deleting => c.img \in Images
    /\ Label(c) \in {"set", "create"} => c.holds = c.img
    /\ Label(c) \notin Making \cup {"releaseImage"} => c.holds = None
    /\ Label(c) = "resolve" /\ ~ c.byID => c.ref \in Refs
    /\ Label(c) \notin Making => ~ SetsParent(c.todo)
    /\ SetsParent(c.todo) => c.img = committed /\ c.par = pulled

\* c moves on to d: it ends, or its next step is at the head of d.
Moved(c, d) ==
    /\ d \in CallType /\ IsPlan(d.todo)
    /\ SetsParent(d.todo) => SetsParent(c.todo)
    /\ \/ d = Idle /\ Label(c) \in Last
       \/ <<Label(c), Label(d)>> \in Order

Stepped(r) == IF Len(r.todo) = 1 THEN Idle ELSE [r EXCEPT !.todo = Tail(@)]
Failed(c) == IF c.holds = None THEN Idle ELSE [c EXCEPT !.todo = <<"release">>]

\* The rest of a plan is a plan, and its head may follow the head of the
\* whole.
LEMMA PlanTail ==
    ASSUME NEW s \in Seq(Labels), s # <<>>, IsPlan(s), Len(s) # 1
    PROVE  /\ Tail(s) \in Seq(Labels) /\ Tail(s) # <<>> /\ IsPlan(Tail(s))
           /\ <<Head(s), Head(Tail(s))>> \in Order
           /\ SetsParent(Tail(s)) => SetsParent(s)
<1>1. Len(s) \in Nat /\ Len(s) > 1
  <2> DEFINE n == Len(s)
  <2>1. n \in Nat /\ n # 0
    BY Zenon, EmptySeq
  <2>2. n # 1
    BY Zenon
  <2> HIDE DEF n
  <2>3. n > 1
    BY <2>1, <2>2
  <2> QED
    BY Zenon, <2>1, <2>3 DEF n
<1>2. /\ Tail(s) \in Seq(Labels) /\ Len(Tail(s)) = Len(s) - 1
      /\ \A k \in 1..Len(Tail(s)) : Tail(s)[k] = s[k + 1]
  BY <1>1
<1>3. Tail(s) # <<>>
  <2>1. Len(Tail(s)) # 0
    BY <1>1, <1>2
  <2>2. Len(<<>>) = 0
    BY Zenon
  <2> QED
    BY <2>1, <2>2, Zenon
<1>4. \A k \in 1..(Len(Tail(s)) - 1) : <<Tail(s)[k], Tail(s)[k + 1]>> \in Order
  <2> TAKE k \in 1..(Len(Tail(s)) - 1)
  <2>1. k + 1 \in 1..(Len(s) - 1) /\ k \in 1..Len(Tail(s)) /\ k + 1 \in 1..Len(Tail(s))
    BY <1>1, <1>2
  <2>2. <<s[k + 1], s[(k + 1) + 1]>> \in Order
    BY Zenon, <2>1 DEF IsPlan
  <2> QED
    BY Zenon, <1>2, <2>1, <2>2
<1>5. Tail(s)[Len(Tail(s))] \in Last
  <2>1. Len(Tail(s)) \in 1..Len(Tail(s)) /\ Len(Tail(s)) + 1 = Len(s)
    BY <1>1, <1>2
  <2> QED
    BY Zenon, <1>2, <2>1 DEF IsPlan
<1>6. <<Head(s), Head(Tail(s))>> \in Order
  <2>1. 1 \in 1..(Len(s) - 1) /\ Head(s) = s[1] /\ Head(Tail(s)) = s[1 + 1]
    BY <1>1, <1>2
  <2> QED
    BY Zenon, <2>1 DEF IsPlan
<1>7. ASSUME SetsParent(Tail(s)) PROVE SetsParent(s)
  <2>1. PICK k \in 1..Len(Tail(s)) : Tail(s)[k] = "setParent"
    BY Zenon, <1>7 DEF SetsParent
  <2>2. k + 1 \in 1..Len(s) /\ s[k + 1] = "setParent"
    BY <2>1, <1>1, <1>2
  <2> QED
    BY Zenon, <2>2 DEF SetsParent
<1> QED
  BY Zenon, <1>2, <1>3, <1>4, <1>5, <1>6, <1>7 DEF IsPlan

\* A client without a call is at no step and makes no image.
LEMMA IdleOK == CallOK(Idle) /\ Label(Idle) = "idle" /\ ~ Makes(Idle)
<1>1. <<>> \in Seq(Labels) /\ Len(<<>>) = 0
  OBVIOUS
<1>2. Idle \in CallType
  BY Zenon, <1>1 DEF Idle, CallType
<1>3. IsPlan(<<>>) /\ ~ SetsParent(<<>>)
  BY <1>1 DEF IsPlan, SetsParent
<1> QED
  BY Zenon, <1>2, <1>3, ImagesAssumption DEF CallOK, Label, Makes, Making, Early, Deleting, Idle

\* Advance moves a call to the next label of its plan or ends it.
LEMMA StepMoves ==
    ASSUME NEW c, CallOK(c), c.todo # <<>>, NEW r \in CallType, r.todo = c.todo
    PROVE  /\ Moved(c, Stepped(r))
           /\ Stepped(r) # Idle => /\ Stepped(r).img = r.img
                                      /\ Stepped(r).holds = r.holds
                                      /\ Stepped(r).par = r.par
<1>1. c.todo \in Seq(Labels) /\ IsPlan(c.todo)
  BY Zenon DEF CallOK, CallType
<1>2. CASE Len(r.todo) = 1
  <2>1. Label(c) \in Last
    BY <1>1, <1>2 DEF IsPlan, Label
  <2>2. Stepped(r) = Idle
    BY Zenon, <1>2 DEF Stepped
  <2> QED
    BY <2>1, <2>2, IdleOK DEF Moved, CallOK, Idle, SetsParent
<1>3. CASE Len(r.todo) # 1
  <2> DEFINE d == [r EXCEPT !.todo = Tail(r.todo)]
  <2>1. Stepped(r) = d
    BY Zenon, <1>3 DEF Stepped
  <2>2. /\ Tail(c.todo) \in Seq(Labels) /\ Tail(c.todo) # <<>> /\ IsPlan(Tail(c.todo))
        /\ <<Head(c.todo), Head(Tail(c.todo))>> \in Order
        /\ SetsParent(Tail(c.todo)) => SetsParent(c.todo)
    BY Zenon, <1>1, <1>3, PlanTail
  <2>3. /\ d \in CallType /\ d.todo = Tail(c.todo)
        /\ d.img = r.img /\ d.holds = r.holds /\ d.par = r.par
    BY Zenon, <2>2 DEF CallType
  <2> HIDE DEF d
  <2> QED
    BY Zenon, <2>1, <2>2, <2>3 DEF Moved, Label
<1> QED
  BY Zenon, <1>2, <1>3

\* Fail ends a call, or leaves it the release of the layer that it holds.
LEMMA FailMoves ==
    ASSUME NEW c, CallOK(c)
    PROVE  /\ CallOK(Failed(c)) /\ Failed(c).holds = c.holds
           /\ \/ Failed(c) = Idle
              \/ /\ Label(Failed(c)) = "release" /\ Failed(c).img = c.img
                 /\ Label(c) \in Making \cup {"releaseImage"}
<1>1. CASE c.holds = None
  <2>1. Failed(c) = Idle
    BY Zenon, <1>1 DEF Failed
  <2>2. Idle.holds = None
    BY Zenon DEF Idle
  <2> QED
    BY Zenon, <1>1, <2>1, <2>2, IdleOK
<1>2. CASE c.holds # None
  <2> DEFINE d == [c EXCEPT !.todo = <<"release">>]
  <2>0. <<"release">> \in Seq(Labels)
    BY DEF Labels
  <2>1. /\ Len(<<"release">>) = 1 /\ <<"release">>[1] = "release"
        /\ Head(<<"release">>) = "release" /\ <<"release">> # <<>>
    OBVIOUS
  <2>2. c \in CallType
    BY Zenon DEF CallOK
  <2>3. /\ d \in CallType /\ d.todo = <<"release">>
        /\ d.img = c.img /\ d.holds = c.holds
    BY Zenon, <2>0, <2>2 DEF CallType
  <2>4. IsPlan(<<"release">>) /\ ~ SetsParent(<<"release">>)
    BY <2>1 DEF IsPlan, SetsParent, Last
  <2>5. Failed(c) = d
    BY Zenon, <1>2 DEF Failed
  <2> HIDE DEF d
  <2>6. Label(d) = "release"
    BY Zenon, <2>1, <2>3 DEF Label
  <2>7. CallOK(d)
    BY Zenon, <2>3, <2>4, <2>6 DEF CallOK, Making, Early, Deleting
  <2>8. Label(c) \in Making \cup {"releaseImage"}
    BY Zenon, <1>2 DEF CallOK
  <2> QED
    BY Zenon, <2>3, <2>5, <2>6, <2>7, <2>8
<1> QED
  BY Zenon, <1>1, <1>2

\* A step keeps what a call knows, when its record changes as the steps do.
LEMMA StepOK ==
    ASSUME NEW c, CallOK(c), c.todo # <<>>, NEW r \in CallType, r.todo = c.todo,
           Label(c) \in Early \cup Deleting => r.img = c.img,
           SetsParent(c.todo) => r.img = c.img /\ r.par = c.par,
           \/ Label(c) # "download" /\ r.holds = c.holds
           \/ Label(c) = "download" /\ r.holds = c.img
           \/ Label(c) \in {"delete", "release"}
    PROVE  CallOK(Stepped(r))
<1> DEFINE d == Stepped(r)
<1>1. /\ Moved(c, d)
      /\ d # Idle => d.img = r.img /\ d.holds = r.holds /\ d.par = r.par
  BY Zenon, StepMoves
<1> HIDE DEF d
<1>2. CASE d = Idle
  BY Zenon, <1>2, IdleOK DEF d
<1>3. CASE d # Idle
  <2>1. <<Label(c), Label(d)>> \in Order /\ d \in CallType /\ IsPlan(d.todo)
    BY Zenon, <1>1, <1>3 DEF Moved
  <2>2. d.img = r.img /\ d.holds = r.holds /\ d.par = r.par
    BY Zenon, <1>1, <1>3
  <2>3. SetsParent(d.todo) => SetsParent(c.todo)
    BY Zenon, <1>1 DEF Moved
  <2>4. Label(d) \in Early \cup Deleting => d.img \in Images
    <3>1. Label(d) \in Early \cup Deleting => Label(c) \in Early \cup Deleting
      BY Zenon, <2>1 DEF Order, Early, Deleting
    <3> QED
      BY Zenon, <2>2, <3>1 DEF CallOK
  <2>5. Label(d) \in {"set", "create"} => d.holds = d.img
    <3>1. Label(d) \in {"set", "create"} => Label(c) \in {"download", "set"}
      BY Zenon, <2>1 DEF Order
    <3> QED
      BY Zenon, <2>2, <3>1 DEF CallOK, Early
  <2>6. Label(d) \notin Making \cup {"releaseImage"} => d.holds = None
    <3>1. Label(d) \notin Making \cup {"releaseImage"} =>
             Label(c) \notin Making \cup {"releaseImage", "delete"}
      BY Zenon, <2>1 DEF Order, Making, Early
    <3> QED
      BY Zenon, <2>2, <3>1 DEF CallOK, Making, Early
  <2>7. Label(d) \notin Making => ~ SetsParent(d.todo)
    <3>1. Label(d) \notin Making => Label(c) \notin Making
      BY Zenon, <2>1 DEF Order, Making, Early
    <3> QED
      BY Zenon, <2>3, <3>1 DEF CallOK
  <2>8. SetsParent(d.todo) => d.img = committed /\ d.par = pulled
    BY Zenon, <2>2, <2>3 DEF CallOK
  <2>9. Label(d) # "resolve"
    BY Zenon, <2>1 DEF Order
  <2> QED
    BY Zenon, <2>1, <2>4, <2>5, <2>6, <2>7, <2>8, <2>9 DEF CallOK, d
<1> QED
  BY Zenon, <1>2, <1>3

\* A call that goes on with the same record stays where it was among the
\* calls that make an image.
LEMMA SameMaker ==
    ASSUME NEW c, CallOK(c), c.todo # <<>>
    PROVE  /\ Makes(Stepped(c)) => Makes(c)
           /\ Stepped(c).img = committed /\ Label(Stepped(c)) \in Early =>
                c.img = committed /\ Label(c) \in Early
           /\ Label(Stepped(c)) = "create" => Label(c) = "set" /\ Stepped(c).img = c.img
           /\ Stepped(c).holds \in {None, c.holds}
<1> DEFINE d == Stepped(c)
<1>1. /\ Moved(c, d)
      /\ d # Idle => d.img = c.img /\ d.holds = c.holds
  BY Zenon, StepMoves DEF CallOK
<1> HIDE DEF d
<1>2. CASE d = Idle
  <2>1. d.holds = None
    BY Zenon, <1>2 DEF Idle
  <2> QED
    BY Zenon, <1>2, <2>1, IdleOK DEF d, Early
<1>3. CASE d # Idle
  <2>1. <<Label(c), Label(d)>> \in Order /\ d.img = c.img /\ d.holds = c.holds
    BY Zenon, <1>1, <1>3 DEF Moved
  <2>2. Label(d) \in Making => Label(c) \in Making
    BY Zenon, <2>1 DEF Order, Making, Early
  <2>3. Label(d) \in Early => Label(c) \in Early
    BY Zenon, <2>1 DEF Order, Early
  <2>4. Label(d) = "create" => Label(c) = "set"
    BY Zenon, <2>1 DEF Order
  <2> QED
    BY Zenon, <2>1, <2>2, <2>3, <2>4 DEF Makes, d
<1> QED
  BY Zenon, <1>2, <1>3

-----------------------------------------------------------------------------
(* The invariant *)

States == {"none", "rw", "stopped", "running"}

TypeInv ==
    /\ images \subseteq Images /\ content \subseteq Images
    /\ children \in [Images -> SUBSET Images]
    /\ parent \in [Images -> Images \cup {None}]
    /\ lock \in Clients \cup {None}
    /\ containers \in [Containers -> [state : States, image : Images \cup {None}]]
    /\ call \in [Clients -> CallType]
    /\ up \in BOOLEAN

RefsInv == refs \in [Refs -> Images \cup {None}] /\ saved \in [Refs -> Images \cup {None}]

\* A call between the halves of Create finds its config file, or was raced;
\* one that makes the committed image does not find it in memory.
CallInv(c) ==
    /\ CallOK(c)
    /\ Label(c) = "create" => c.img \in content \cup raced
    /\ Label(c) \in Early /\ c.img = committed => committed \notin images
    /\ ~ up => c = Idle
CallsInv == \A a \in Clients : CallInv(call[a])

OneMaker == \A a, b \in Clients : Makes(call[a]) /\ Makes(call[b]) => a = b

HeldInv == \A i \in Holders \ {None} : LayersOf[i] \subseteq layers

Creating(i) == \E a \in Clients : Label(call[a]) = "create" /\ call[a].img = i

\* While the daemon is up, an image with a config file is in memory or about
\* to be, and so holds its layers; while it is down, they are there.
FilesInv ==
    \A i \in content \ undeleted :
        IF up THEN i \in images \/ Creating(i) ELSE LayersOf[i] \subseteq layers

MemoryInv == images \subseteq content \cup raced /\ committed \notin raced

\* Only the committed image has a parent, and they know of each other.
ParentInv ==
    /\ \A i \in Images : parent[i] # None => i = committed /\ parent[i] = pulled /\ i \in content
    /\ parent[committed] = pulled /\ committed \notin dangling =>
         /\ pulled \in content
         /\ up => pulled \in images /\ committed \in children[pulled]
ChildInv ==
    /\ \A p \in Images : children[p] \subseteq {committed} /\ (p # pulled => children[p] = {})
    /\ committed \in children[pulled] /\ committed \notin stray =>
          committed \in images /\ committed \in content /\ parent[committed] = pulled

ImagesInv ==
    /\ TypeInv /\ RefsInv /\ CallsInv /\ OneMaker /\ HeldInv /\ FilesInv /\ MemoryInv
    /\ ParentInv /\ ChildInv

-----------------------------------------------------------------------------
(* Steps that change only their call and the references *)

storeFrame == <<images, children, lock, content, parent, layers, containers, up, ghostVars>>

\* Steps that change one call and no image keep the invariant, when parents
\* and children still agree.
LEMMA BaseStep ==
    ASSUME ImagesInv, RefsInv', HeldInv', ParentInv', ChildInv', up, NEW a \in Clients, NEW d,
           CallOK(d), call' = [call EXCEPT ![a] = d],
           UNCHANGED <<images, content, up, undeleted, raced>>,
           children' \in [Images -> SUBSET Images],
           parent' \in [Images -> Images \cup {None}],
           lock' \in Clients \cup {None},
           containers' \in [Containers -> [state : States, image : Images \cup {None}]],
           Label(call[a]) # "create", Label(d) # "create",
           Makes(d) => Makes(call[a]) \/ \A b \in Clients : ~ Makes(call[b]),
           Label(d) \in Early /\ d.img = committed => committed \notin images
    PROVE  ImagesInv'
<1>0. /\ images' = images /\ content' = content /\ up' = up
      /\ undeleted' = undeleted /\ raced' = raced
  BY Zenon
<1>1. call \in [Clients -> CallType] /\ d \in CallType
  BY Zenon DEF ImagesInv, TypeInv, CallOK
<1>2. /\ call' \in [Clients -> CallType] /\ call'[a] = d
      /\ \A b \in Clients : b # a => call'[b] = call[b]
  BY Zenon, <1>1
<1>3. TypeInv'
  BY Zenon, <1>0, <1>2 DEF ImagesInv, TypeInv
<1>4. CallsInv'
  <2> SUFFICES ASSUME NEW b \in Clients PROVE CallInv(call[b])'
    BY Zenon DEF CallsInv
  <2>1. CASE b = a
    BY <1>0, <1>2, <2>1 DEF CallInv
  <2>2. CASE b # a
    BY <1>0, <1>2, <2>2 DEF ImagesInv, CallsInv, CallInv
  <2> QED
    BY Zenon, <2>1, <2>2
<1>5. OneMaker'
  BY Zenon, <1>2 DEF ImagesInv, OneMaker
<1>6. FilesInv'
  <2>1. ASSUME NEW i, Creating(i) PROVE Creating(i)'
    BY Zenon, <1>2, <2>1 DEF Creating
  <2> QED
    BY <1>0, <2>1 DEF ImagesInv, FilesInv
<1>7. MemoryInv'
  BY Zenon, <1>0 DEF ImagesInv, MemoryInv
<1> QED
  BY Zenon, <1>3, <1>4, <1>5, <1>6, <1>7 DEF ImagesInv

\* The same, when parents and children do not change.
LEMMA CallStep ==
    ASSUME ImagesInv, RefsInv', HeldInv', up, NEW a \in Clients, NEW d, CallOK(d),
           call' = [call EXCEPT ![a] = d],
           UNCHANGED <<images, children, content, parent, up, ghostVars>>,
           lock' \in Clients \cup {None},
           containers' \in [Containers -> [state : States, image : Images \cup {None}]],
           Label(call[a]) # "create", Label(d) # "create",
           Makes(d) => Makes(call[a]) \/ \A b \in Clients : ~ Makes(call[b]),
           Label(d) \in Early /\ d.img = committed => committed \notin images
    PROVE  ImagesInv'
<1>1. /\ images' = images /\ children' = children /\ content' = content
      /\ parent' = parent /\ up' = up
      /\ undeleted' = undeleted /\ raced' = raced /\ stray' = stray /\ dangling' = dangling
  BY Zenon DEF ghostVars
<1>2. ParentInv' /\ ChildInv'
  BY Zenon, <1>1 DEF ImagesInv, ParentInv, ChildInv
<1>3. children' \in [Images -> SUBSET Images] /\ parent' \in [Images -> Images \cup {None}]
  BY Zenon, <1>1 DEF ImagesInv, TypeInv
<1> QED
  BY Zenon, <1>1, <1>2, <1>3, BaseStep

\* Who holds an image after a step that changes one call, and who did before.
LEMMA HoldersStep ==
    ASSUME ImagesInv, NEW a \in Clients, NEW d, call' = [call EXCEPT ![a] = d],
           NEW i \in Holders'
    PROVE  \/ i \in images'
           \/ \E c \in Containers : i = containers'[c].image
           \/ i = d.holds
           \/ i \in Holders
<1>1. i \in images' \/ (\E c \in Containers : i = containers'[c].image)
         \/ \E b \in Clients : i = call'[b].holds
  BY Zenon DEF Holders
<1>2. \A b \in Clients : call'[b] = IF b = a THEN d ELSE call[b]
  BY Zenon DEF ImagesInv, TypeInv
<1> QED
  BY Zenon, <1>1, <1>2 DEF Holders

\* The same, when the stores do not change and the call takes no layer.
LEMMA QuietStep ==
    ASSUME ImagesInv, RefsInv', up, NEW a \in Clients, NEW d, CallOK(d),
           call' = [call EXCEPT ![a] = d], UNCHANGED storeFrame,
           d.holds \in {None, call[a].holds},
           Label(call[a]) # "create", Label(d) # "create",
           Makes(d) => Makes(call[a]) \/ \A b \in Clients : ~ Makes(call[b]),
           Label(d) \in Early /\ d.img = committed => committed \notin images
    PROVE  ImagesInv'
<1>1. /\ UNCHANGED <<images, children, content, parent, up, ghostVars>>
      /\ images' = images /\ layers' = layers /\ containers' = containers /\ lock' = lock
  BY Zenon DEF storeFrame
<1>2. HeldInv'
  <2> SUFFICES ASSUME NEW i \in Holders', i # None PROVE LayersOf[i] \subseteq layers
    BY Zenon, <1>1 DEF HeldInv
  <2>1. i \in Holders
    BY Zenon, <1>1, HoldersStep DEF Holders
  <2> QED
    BY Zenon, <2>1 DEF ImagesInv, HeldInv
<1>3. /\ lock' \in Clients \cup {None}
      /\ containers' \in [Containers -> [state : States, image : Images \cup {None}]]
  BY Zenon, <1>1 DEF ImagesInv, TypeInv
<1> QED
  BY Zenon, <1>1, <1>2, <1>3, CallStep

\* A client that has something to do has a good call, and the daemon is up.
LEMMA CallFacts ==
    ASSUME ImagesInv, NEW a \in Clients
    PROVE  /\ CallOK(call[a]) /\ call[a] \in CallType
           /\ call[a].todo # <<>> => up /\ Label(call[a]) = Head(call[a].todo)
           /\ Label(call[a]) \in Early /\ call[a].img = committed => committed \notin images
<1>1. CallInv(call[a])
  BY Zenon DEF ImagesInv, CallsInv
<1>2. Idle.todo = <<>>
  BY Zenon DEF Idle
<1> QED
  BY Zenon, <1>1, <1>2 DEF CallInv, CallOK, Label

\* Proceed keeps the invariant where it only moves the call on.
LEMMA ProceedStep ==
    ASSUME ImagesInv, RefsInv', NEW a \in Clients, call[a].todo # <<>>,
           Label(call[a]) \notin {"download", "set", "create"},
           Proceed(a), UNCHANGED storeFrame
    PROVE  ImagesInv'
<1> DEFINE c == call[a]
           d == Stepped(c)
<1>1. CallOK(c) /\ c \in CallType /\ up
  BY Zenon, CallFacts
<1>2. call' = [call EXCEPT ![a] = d]
  BY Zenon DEF Proceed, Advance, Stepped
<1>3. CallOK(d)
  BY Zenon, <1>1, StepOK
<1>4. /\ Makes(d) => Makes(c)
      /\ d.img = committed /\ Label(d) \in Early => c.img = committed /\ Label(c) \in Early
      /\ Label(d) = "create" => Label(c) = "set"
      /\ d.holds \in {None, c.holds}
  BY Zenon, <1>1, SameMaker
<1>5. c.img = committed /\ Label(c) \in Early => committed \notin images
  BY Zenon, CallFacts
<1> HIDE DEF d
<1> QED
  BY Zenon, <1>1, <1>2, <1>3, <1>4, <1>5, QuietStep

\* An error that changes only its call keeps the invariant.
LEMMA FailStep ==
    ASSUME ImagesInv, RefsInv', NEW a \in Clients, call[a].todo # <<>>,
           Label(call[a]) \notin {"create", "releaseImage"},
           Fail(a), UNCHANGED storeFrame
    PROVE  ImagesInv'
<1> DEFINE c == call[a]
           d == Failed(c)
<1>1. CallOK(c) /\ up
  BY Zenon, CallFacts
<1>2. call' = [call EXCEPT ![a] = d]
  BY Zenon DEF Fail, Failed
<1>3. /\ CallOK(d) /\ d.holds = c.holds
      /\ d = Idle \/ (Label(d) = "release" /\ Label(c) \in Making /\ d.img = c.img)
  BY Zenon, <1>1, FailMoves
<1> HIDE DEF d
<1>4. Label(d) \notin Early /\ Label(d) # "create" /\ (Makes(d) => Makes(c))
  BY Zenon, <1>3, IdleOK DEF Early, Makes
<1> QED
  BY Zenon, <1>1, <1>2, <1>3, <1>4, QuietStep

-----------------------------------------------------------------------------
(* The plans with which calls start *)

\* p is the plan of a call that starts with label and makes no child.
Starts(p, label) ==
    /\ p \in Seq(Labels) /\ IsPlan(p) /\ ~ SetsParent(p) /\ p # <<>> /\ Head(p) = label

\* The steps of imageDeleteHelper are a plan.
LEMMA HelperPlan == Starts(Helper, "check")
<1>1. Helper \in Seq(Labels) /\ Len(Helper) = 5
  BY DEF Helper, Labels
<1>2. /\ Helper[1] = "check" /\ Helper[2] = "list" /\ Helper[3] = "untagAll"
      /\ Helper[4] = "delete" /\ Helper[5] = "releaseImage"
  BY Zenon DEF Helper
<1>3. IsPlan(Helper)
  BY <1>1, <1>2 DEF IsPlan, Order, Last
<1>4. ~ SetsParent(Helper)
  BY <1>1, <1>2 DEF SetsParent
<1>5. Helper # <<>> /\ Head(Helper) = "check"
  BY <1>1, <1>2 DEF Helper
<1> QED
  BY Zenon, <1>1, <1>3, <1>4, <1>5 DEF Starts

\* So are they after the removal of a reference.
LEMMA UntagPlan == Starts(<<"untag">> \o Helper, "untag")
<1> DEFINE u == <<"untag">>
           p == u \o Helper
<1>1. /\ Helper \in Seq(Labels) /\ Len(Helper) = 5
      /\ Helper[1] = "check" /\ Helper[2] = "list" /\ Helper[3] = "untagAll"
      /\ Helper[4] = "delete" /\ Helper[5] = "releaseImage"
  BY DEF Helper, Labels
<1>2. u \in Seq(Labels) /\ Len(u) = 1 /\ u[1] = "untag"
  BY DEF Labels
<1> HIDE DEF u
<1>3. /\ p \in Seq(Labels) /\ Len(p) = 6
      /\ p[1] = "untag" /\ p[2] = Helper[1] /\ p[3] = Helper[2] /\ p[4] = Helper[3]
      /\ p[5] = Helper[4] /\ p[6] = Helper[5]
  <2>1. /\ p \in Seq(Labels) /\ Len(p) = Len(u) + Len(Helper)
        /\ \A k \in 1 .. Len(u) + Len(Helper) :
              p[k] = IF k <= Len(u) THEN u[k] ELSE Helper[k - Len(u)]
    BY <1>1, <1>2, ConcatProperties, Zenon
  <2> HIDE DEF p
  <2> QED
    BY <1>1, <1>2, <2>1
<1> HIDE DEF p
<1>4. IsPlan(p)
  BY <1>1, <1>3 DEF IsPlan, Order, Last
<1>5. ~ SetsParent(p)
  BY <1>1, <1>3 DEF SetsParent
<1>6. p # <<>> /\ Head(p) = "untag"
  BY <1>3
<1> QED
  BY Zenon, <1>3, <1>4, <1>5, <1>6 DEF Starts, p, u

\* The steps of a pull are a plan.
LEMMA PullPlan == Starts(<<"get", "download", "set", "create", "release", "tag">>, "get")
<1> DEFINE p == <<"get", "download", "set", "create", "release", "tag">>
<1>1. p \in Seq(Labels)
  BY DEF Labels
<1>2. IsPlan(p)
  BY DEF IsPlan, Order, Last
<1>3. ~ SetsParent(p)
  BY DEF SetsParent
<1>4. p # <<>> /\ Head(p) = "get"
  OBVIOUS
<1> QED
  BY Zenon, <1>1, <1>2, <1>3, <1>4 DEF Starts

\* The steps of a load are a plan.
LEMMA LoadPlan == Starts(<<"download", "set", "create", "tag", "release">>, "download")
<1> DEFINE p == <<"download", "set", "create", "tag", "release">>
<1>1. p \in Seq(Labels)
  BY DEF Labels
<1>2. IsPlan(p)
  BY DEF IsPlan, Order, Last
<1>3. ~ SetsParent(p)
  BY DEF SetsParent
<1>4. p # <<>> /\ Head(p) = "download"
  OBVIOUS
<1> QED
  BY Zenon, <1>1, <1>2, <1>3, <1>4 DEF Starts

\* The steps of the creation of a container are a plan.
LEMMA NewPlan == Starts(<<"getImage", "rwLayer", "register">>, "getImage")
<1> DEFINE p == <<"getImage", "rwLayer", "register">>
<1>1. p \in Seq(Labels)
  BY DEF Labels
<1>2. IsPlan(p)
  BY DEF IsPlan, Order, Last
<1>3. ~ SetsParent(p)
  BY DEF SetsParent
<1>4. p # <<>> /\ Head(p) = "getImage"
  OBVIOUS
<1> QED
  BY Zenon, <1>1, <1>2, <1>3, <1>4 DEF Starts

\* A last step alone is a plan.
LEMMA ShortPlan ==
    ASSUME NEW l \in Last
    PROVE  Starts(<<l>>, l)
<1> DEFINE p == <<l>>
<1>1. p \in Seq(Labels) /\ Len(p) = 1 /\ p[1] = l /\ Head(p) = l
  BY DEF Labels, Last
<1>2. p # <<>>
  BY Zenon
<1> HIDE DEF p
<1>3. IsPlan(p)
  BY <1>1 DEF IsPlan
<1>4. ~ SetsParent(p)
  BY <1>1 DEF SetsParent, Last
<1> QED
  BY Zenon, <1>1, <1>2, <1>3, <1>4 DEF Starts, p

\* The steps of a commit are a plan.
LEMMA CommitPlan ==
    LET p == <<"read", "download", "set", "create", "setParent", "tag", "release">>
    IN  p \in Seq(Labels) /\ IsPlan(p) /\ p # <<>> /\ Head(p) = "read"
<1> DEFINE p == <<"read", "download", "set", "create", "setParent", "tag", "release">>
<1>1. p \in Seq(Labels)
  BY DEF Labels
<1>2. IsPlan(p)
  BY DEF IsPlan, Order, Last
<1>3. p # <<>> /\ Head(p) = "read"
  OBVIOUS
<1> QED
  BY Zenon, <1>1, <1>2, <1>3

-----------------------------------------------------------------------------
(* The steps of pull, load and commit that change no image *)

\* At in terms of Label.
LEMMA AtLabel ==
    ASSUME NEW a, NEW l, At(a, l)
    PROVE  call[a].todo # <<>> /\ Label(call[a]) = l
BY Zenon DEF At, Label

\* References that do not change have their types.
LEMMA SameRefs ==
    ASSUME ImagesInv, UNCHANGED refVars
    PROVE  RefsInv'
BY Zenon DEF ImagesInv, RefsInv, refVars

\* save leaves references of their types.
LEMMA SaveRefs ==
    ASSUME ImagesInv, NEW new \in [Refs -> Images \cup {None}], refs' = new,
           saved' = new \/ saved' = saved
    PROVE  RefsInv'
BY Zenon DEF ImagesInv, RefsInv

\* The references without some of them have their types.
LEMMA WithoutType ==
    ASSUME ImagesInv, NEW rs
    PROVE  Without(rs) \in [Refs -> Images \cup {None}]
BY Zenon DEF ImagesInv, RefsInv, Without

\* pullSchema2 keeps the invariant: it goes on, or only has to tag.
LEMMA PullSchema2Inv ==
    ASSUME ImagesInv, NEW a \in Clients, pullSchema2(a)
    PROVE  ImagesInv'
<1>1. Label(call[a]) = "get" /\ call[a].todo # <<>>
  BY Zenon, AtLabel DEF pullSchema2
<1>2. RefsInv' /\ UNCHANGED storeFrame
  BY Zenon, SameRefs DEF pullSchema2, storeFrame, storeVars, fileVars
<1>3. CASE Proceed(a)
  BY Zenon, <1>1, <1>2, <1>3, ProceedStep
<1>4. CASE call' = [call EXCEPT ![a].todo = <<"tag">>]
  <2> DEFINE c == call[a]
             d == [c EXCEPT !.todo = <<"tag">>]
  <2>1. CallOK(c) /\ c \in CallType /\ up
    BY Zenon, <1>1, CallFacts
  <2>2. Starts(<<"tag">>, "tag")
    BY Zenon, ShortPlan DEF Last
  <2>3. /\ d \in CallType /\ d.todo = <<"tag">> /\ d.img = c.img /\ d.holds = c.holds
    BY Zenon, <2>1, <2>2 DEF CallType, Starts
  <2>4. call' = [call EXCEPT ![a] = d]
    BY Zenon, <1>4
  <2> HIDE DEF d
  <2>5. Label(d) = "tag" /\ IsPlan(d.todo) /\ ~ SetsParent(d.todo)
    BY Zenon, <2>2, <2>3 DEF Label, Starts
  <2>6. CallOK(d)
    BY Zenon, <2>3, <2>5 DEF CallOK, Making, Early, Deleting
  <2>7. Makes(d) => Makes(c)
    BY Zenon, <1>1, <2>3 DEF Makes, Making, Early
  <2> QED
    BY Zenon, <1>1, <1>2, <2>1, <2>3, <2>4, <2>5, <2>6, <2>7, QuietStep DEF Early
<1> QED
  BY Zenon, <1>3, <1>4 DEF pullSchema2

\* The read of the parent config by Commit keeps the invariant.
LEMMA ReadImageInv ==
    ASSUME ImagesInv, NEW a \in Clients, readImage(a)
    PROVE  ImagesInv'
<1>1. Label(call[a]) = "read" /\ call[a].todo # <<>>
  BY Zenon, AtLabel DEF readImage
<1>2. RefsInv' /\ UNCHANGED storeFrame
  BY Zenon, SameRefs DEF readImage, storeFrame, storeVars, fileVars
<1>3. Proceed(a) \/ Fail(a)
  BY Zenon DEF readImage
<1> QED
  BY Zenon, <1>1, <1>2, <1>3, ProceedStep, FailStep

\* AddTag keeps the invariant, whether it can save the references or not.
LEMMA AddTagInv ==
    ASSUME ImagesInv, NEW a \in Clients, AddTag(a)
    PROVE  ImagesInv'
<1>1. Label(call[a]) = "tag" /\ call[a].todo # <<>>
  BY Zenon, AtLabel DEF AddTag
<1>2. UNCHANGED storeFrame
  BY Zenon DEF AddTag, storeFrame, storeVars, fileVars
<1>3. RefsInv' /\ (Proceed(a) \/ Fail(a))
  <2> DEFINE new == [refs EXCEPT ![call[a].ref] = call[a].img]
  <2>1. CASE Fail(a) /\ UNCHANGED refVars
    BY Zenon, <2>1, SameRefs
  <2>2. CASE save(a, new, Proceed(a))
    <3>1. call[a].img \in Images \cup {None}
      BY Zenon, CallFacts DEF CallType
    <3>2. new \in [Refs -> Images \cup {None}]
      BY Zenon, <3>1 DEF ImagesInv, RefsInv
    <3> HIDE DEF new
    <3>3. refs' = new /\ (saved' = new \/ saved' = saved) /\ (Proceed(a) \/ Fail(a))
      BY Zenon, <2>2 DEF save
    <3> QED
      BY Zenon, <3>2, <3>3, SaveRefs
  <2> QED
    BY Zenon, <2>1, <2>2 DEF AddTag
<1> QED
  BY Zenon, <1>1, <1>2, <1>3, ProceedStep, FailStep

-----------------------------------------------------------------------------
(* The steps of rmi that change no image *)

\* The resolution of what rmi was given keeps the invariant.
LEMMA ImageDeleteInv ==
    ASSUME ImagesInv, NEW a \in Clients, ImageDelete(a)
    PROVE  ImagesInv'
<1> DEFINE c == call[a]
           i == IF c.byID THEN c.img ELSE refs[c.ref]
<1>1. Label(c) = "resolve" /\ c.todo # <<>>
  BY Zenon, AtLabel DEF ImageDelete
<1>2. RefsInv' /\ UNCHANGED storeFrame
  BY Zenon, SameRefs DEF ImageDelete, storeFrame, storeVars, fileVars
<1>3. CASE Fail(a)
  BY Zenon, <1>1, <1>2, <1>3, FailStep
<1>4. ASSUME NEW r \in Refs \cup {None}, NEW p, NEW j \in Images, Resolved(a, r, j, p),
             Starts(p, "untag") \/ Starts(p, "check")
      PROVE  ImagesInv'
  <2> DEFINE d == [c EXCEPT !.ref = r, !.img = j, !.todo = p]
  <2>1. CallOK(c) /\ c \in CallType /\ up
    BY Zenon, <1>1, CallFacts
  <2>2. c.holds = None
    BY Zenon, <1>1, <2>1 DEF CallOK, Making, Early
  <2>3. /\ p \in Seq(Labels) /\ IsPlan(p) /\ ~ SetsParent(p)
        /\ p # <<>> /\ Head(p) \in {"untag", "check"}
    BY Zenon, <1>4 DEF Starts
  <2>4. /\ d \in CallType /\ d.todo = p /\ d.img = j /\ d.holds = None
    BY ZenonT(30), <2>1, <2>2, <2>3 DEF CallType
  <2>5. call' = [call EXCEPT ![a] = d]
    BY Zenon, <1>4 DEF Resolved
  <2> HIDE DEF d
  <2>6. Label(d) \in {"untag", "check"}
    BY Zenon, <2>3, <2>4 DEF Label
  <2>7. CallOK(d)
    BY Zenon, <2>3, <2>4, <2>6 DEF CallOK, Making, Early, Deleting
  <2>8. ~ Makes(d) /\ Label(d) \notin Early
    BY Zenon, <2>6 DEF Makes, Making, Early
  <2> QED
    BY Zenon, <1>1, <1>2, <2>1, <2>4, <2>5, <2>6, <2>7, <2>8, QuietStep
<1>5. c.ref \in Refs \cup {None} /\ c.img \in Images \cup {None}
  BY Zenon, CallFacts DEF CallType
<1>6. content \subseteq Images
  BY Zenon DEF ImagesInv, TypeInv
<1>7. CASE ~ c.byID /\ i # None /\ Resolved(a, c.ref, i, <<"untag">> \o Helper)
  <2>1. c.ref \in Refs
    BY Zenon, <1>1, <1>7, CallFacts DEF CallOK
  <2>2. i \in Images
    BY Zenon, <1>7, <2>1 DEF ImagesInv, RefsInv
  <2> QED
    BY Zenon, <1>4, <1>5, <1>7, <2>2, UntagPlan
<1>8. CASE i \in content /\ \E r \in References(i) : Resolved(a, r, i, <<"untag">> \o Helper)
  BY Zenon, <1>4, <1>6, <1>8, UntagPlan DEF References
<1>9. CASE i \in content /\ Resolved(a, c.ref, i, Helper)
  BY Zenon, <1>4, <1>5, <1>6, <1>9, HelperPlan
<1> QED
  BY Zenon, <1>3, <1>7, <1>8, <1>9 DEF ImageDelete

\* The removal of one reference keeps the invariant.
LEMMA RemoveImageRefInv ==
    ASSUME ImagesInv, NEW a \in Clients, removeImageRef(a)
    PROVE  ImagesInv'
<1>1. Label(call[a]) = "untag" /\ call[a].todo # <<>>
  BY Zenon, AtLabel DEF removeImageRef
<1>2. UNCHANGED storeFrame
  BY Zenon DEF removeImageRef, storeFrame, storeVars, fileVars
<1>3. RefsInv' /\ (Proceed(a) \/ Fail(a))
  <2> DEFINE new == Without({call[a].ref})
             ok == IF ~ call[a].byID /\ \E r \in Refs : new[r] = call[a].img
                   THEN Fail(a) ELSE Proceed(a)
  <2>1. CASE Fail(a) /\ UNCHANGED refVars
    BY Zenon, <2>1, SameRefs
  <2>2. CASE save(a, new, ok)
    <3>1. new \in [Refs -> Images \cup {None}]
      BY Zenon, WithoutType
    <3>2. ok => Proceed(a) \/ Fail(a)
      BY Zenon
    <3> HIDE DEF new, ok
    <3>3. refs' = new /\ (saved' = new \/ saved' = saved) /\ (Proceed(a) \/ Fail(a))
      BY Zenon, <2>2, <3>2 DEF save
    <3> QED
      BY Zenon, <3>1, <3>3, SaveRefs
  <2> QED
    BY Zenon, <2>1, <2>2 DEF removeImageRef
<1> QED
  BY Zenon, <1>1, <1>2, <1>3, ProceedStep, FailStep

\* The check for conflicts keeps the invariant.
LEMMA CheckInv ==
    ASSUME ImagesInv, NEW a \in Clients, checkImageDeleteConflict(a)
    PROVE  ImagesInv'
<1>1. Label(call[a]) = "check" /\ call[a].todo # <<>>
  BY Zenon, AtLabel DEF checkImageDeleteConflict
<1>2. RefsInv' /\ UNCHANGED storeFrame
  BY Zenon, SameRefs DEF checkImageDeleteConflict, storeFrame, storeVars, fileVars
<1>3. Proceed(a) \/ Fail(a)
  BY Zenon DEF checkImageDeleteConflict
<1> QED
  BY Zenon, <1>1, <1>2, <1>3, ProceedStep, FailStep

\* A step that records something in its call and moves on to a label at
\* which no image is made.
LEMMA RecordStep ==
    ASSUME ImagesInv, RefsInv', NEW a \in Clients, call[a].todo # <<>>, NEW r \in CallType,
           r.todo = call[a].todo, r.holds = call[a].holds,
           Label(call[a]) \in {"list", "getImage"},
           Label(call[a]) = "list" => r.img = call[a].img,
           Advance(a, r), UNCHANGED storeFrame
    PROVE  ImagesInv'
<1> DEFINE c == call[a]
           d == Stepped(r)
<1>1. CallOK(c) /\ up
  BY Zenon, CallFacts
<1>2. call' = [call EXCEPT ![a] = d]
  BY Zenon DEF Advance, Stepped
<1>3. ~ SetsParent(c.todo)
  BY Zenon, <1>1 DEF CallOK, Making, Early
<1>4. CallOK(d)
  <2>1. Label(c) \in Early \cup Deleting => r.img = c.img
    BY Zenon DEF Early, Deleting
  <2> QED
    BY Zenon, <1>1, <1>3, <2>1, StepOK
<1>5. /\ Moved(c, d)
      /\ d # Idle => d.holds = c.holds
  BY Zenon, <1>1, StepMoves
<1> HIDE DEF d
<1>6. d = Idle \/ Label(d) \in {"untagAll", "rwLayer"}
  BY Zenon, <1>5 DEF Moved, Order
<1>7. ~ Makes(d) /\ Label(d) \notin Early /\ Label(d) # "create"
  BY Zenon, <1>6, IdleOK DEF Makes, Making, Early
<1>8. d.holds \in {None, c.holds}
  BY <1>5 DEF Idle
<1> QED
  BY Zenon, <1>1, <1>2, <1>4, <1>7, <1>8, QuietStep

\* The list of references and the read of the parent keep the invariant.
LEMMA ListReferencesInv ==
    ASSUME ImagesInv, NEW a \in Clients, ListReferences(a)
    PROVE  ImagesInv'
<1> DEFINE c == call[a]
           r == [c EXCEPT !.listed = References(c.img), !.par = GetParent(c.img)]
<1>1. Label(c) = "list" /\ c.todo # <<>>
  BY Zenon, AtLabel DEF ListReferences
<1>2. RefsInv' /\ UNCHANGED storeFrame
  BY Zenon, SameRefs DEF ListReferences, storeFrame, storeVars, fileVars
<1>3. CallOK(c) /\ c \in CallType
  BY Zenon, CallFacts
<1>4. GetParent(c.img) \in Images \cup {None} /\ References(c.img) \in SUBSET Refs
  BY Zenon DEF GetParent, References, ImagesInv, TypeInv
<1>5. r \in CallType /\ r.todo = c.todo /\ r.holds = c.holds /\ r.img = c.img
  BY Zenon, <1>3, <1>4 DEF CallType
<1>6. Advance(a, r)
  BY Zenon DEF ListReferences
<1> HIDE DEF r
<1> QED
  BY Zenon, <1>1, <1>2, <1>5, <1>6, RecordStep

\* The removal of the listed references keeps the invariant.
LEMMA RemoveAllReferencesInv ==
    ASSUME ImagesInv, NEW a \in Clients, removeAllReferencesToImageID(a)
    PROVE  ImagesInv'
<1>1. Label(call[a]) = "untagAll" /\ call[a].todo # <<>>
  BY Zenon, AtLabel DEF removeAllReferencesToImageID
<1>2. UNCHANGED storeFrame
  BY Zenon DEF removeAllReferencesToImageID, storeFrame, storeVars, fileVars
<1>3. RefsInv' /\ (Proceed(a) \/ Fail(a))
  <2>1. \E rs : save(a, Without(rs), Proceed(a)) \/ save(a, Without(rs), Fail(a))
    BY Zenon DEF removeAllReferencesToImageID
  <2>2. PICK rs : /\ refs' = Without(rs) /\ (saved' = Without(rs) \/ saved' = saved)
                  /\ Proceed(a) \/ Fail(a)
    BY Zenon, <2>1 DEF save
  <2>3. Without(rs) \in [Refs -> Images \cup {None}]
    BY Zenon, WithoutType
  <2> QED
    BY Zenon, <2>2, <2>3, SaveRefs
<1> QED
  BY Zenon, <1>1, <1>2, <1>3, ProceedStep, FailStep

\* The lookup of the image of a new container keeps the invariant.
LEMMA GetImageInv ==
    ASSUME ImagesInv, NEW a \in Clients, GetImage(a)
    PROVE  ImagesInv'
<1> DEFINE c == call[a]
           i == refs[c.ref]
           r == [c EXCEPT !.img = i]
<1>1. Label(c) = "getImage" /\ c.todo # <<>>
  BY Zenon, AtLabel DEF GetImage
<1>2. RefsInv' /\ UNCHANGED storeFrame
  BY Zenon, SameRefs DEF GetImage, storeFrame, storeVars, fileVars
<1>3. CASE Fail(a)
  BY Zenon, <1>1, <1>2, <1>3, FailStep
<1>4. CASE i \in content /\ Advance(a, r)
  <2>1. i \in Images /\ c \in CallType
    BY Zenon, <1>4, CallFacts DEF ImagesInv, TypeInv
  <2>2. r \in CallType /\ r.todo = c.todo /\ r.holds = c.holds
    BY Zenon, <2>1 DEF CallType
  <2>3. Advance(a, r)
    BY Zenon, <1>4
  <2> HIDE DEF r
  <2> QED
    BY Zenon, <1>1, <1>2, <2>2, <2>3, RecordStep
<1> QED
  BY Zenon, <1>3, <1>4 DEF GetImage

-----------------------------------------------------------------------------
(* New calls *)

\* A call that makes no child starts.
LEMMA StartStep ==
    ASSUME ImagesInv, RefsInv', up, NEW a \in Clients, call[a].todo = <<>>,
           NEW d \in CallType, NEW l, Starts(d.todo, l), d.holds = None,
           \/ l \in {"get", "download"} /\ d.img = pulled
           \/ l = "resolve" /\ (d.byID \/ d.ref \in Refs)
           \/ l = "getImage",
           call' = [call EXCEPT ![a] = d], UNCHANGED storeFrame
    PROVE  ImagesInv'
<1>1. IsPlan(d.todo) /\ ~ SetsParent(d.todo) /\ Label(d) = l
  BY Zenon DEF Starts, Label
<1>2. CallOK(d)
  BY Zenon, <1>1, ImagesAssumption DEF CallOK, Making, Early, Deleting
<1>3. ~ Makes(d) /\ ~ (Label(d) \in Early /\ d.img = committed) /\ Label(d) # "create"
  BY Zenon, <1>1, ImagesAssumption DEF Makes, Making, Early
<1>4. Label(call[a]) # "create"
  BY Zenon DEF Label
<1> QED
  BY Zenon, <1>2, <1>3, <1>4, QuietStep

\* Every call that starts keeps the invariant.
LEMMA CallInvariant ==
    ASSUME ImagesInv, NEW a \in Clients, Call(a)
    PROVE  ImagesInv'
<1>1. RefsInv' /\ UNCHANGED storeFrame
  BY Zenon, SameRefs DEF Call, storeFrame, storeVars, fileVars
<1>2. up /\ call[a].todo = <<>>
  BY Zenon DEF Call, Request
<1>3. ASSUME NEW r \in Refs, call' = [call EXCEPT ![a] = Pull(r)] PROVE ImagesInv'
  <2> DEFINE d == Pull(r)
  <2>1. Starts(d.todo, "get")
    BY Zenon, PullPlan DEF Pull, Idle
  <2>2. d \in CallType /\ d.holds = None /\ d.img = pulled
    BY Zenon, PullPlan, ImagesAssumption DEF Pull, Idle, CallType, Starts
  <2> HIDE DEF d
  <2>3. call' = [call EXCEPT ![a] = d]
    BY Zenon, <1>3 DEF d
  <2> QED
    BY Zenon, <1>1, <1>2, <2>1, <2>2, <2>3, StartStep
<1>4. ASSUME NEW r \in Refs, call' = [call EXCEPT ![a] = Load(r)] PROVE ImagesInv'
  <2> DEFINE d == Load(r)
  <2>1. Starts(d.todo, "download")
    BY Zenon, LoadPlan DEF Load, Idle
  <2>2. d \in CallType /\ d.holds = None /\ d.img = pulled
    BY Zenon, LoadPlan, ImagesAssumption DEF Load, Idle, CallType, Starts
  <2> HIDE DEF d
  <2>3. call' = [call EXCEPT ![a] = d]
    BY Zenon, <1>4 DEF d
  <2> QED
    BY Zenon, <1>1, <1>2, <2>1, <2>2, <2>3, StartStep
<1>5. ASSUME NEW r \in Refs, NEW f \in BOOLEAN, call' = [call EXCEPT ![a] = RmiRef(r, f)]
      PROVE  ImagesInv'
  <2> DEFINE d == RmiRef(r, f)
  <2>1. Starts(<<"resolve">>, "resolve")
    BY Zenon, ShortPlan DEF Last
  <2>2. d \in CallType /\ d.holds = None /\ d.todo = <<"resolve">> /\ d.ref \in Refs
    BY Zenon, <2>1 DEF RmiRef, Idle, CallType, Starts
  <2> HIDE DEF d
  <2>3. call' = [call EXCEPT ![a] = d]
    BY Zenon, <1>5 DEF d
  <2> QED
    BY Zenon, <1>1, <1>2, <2>1, <2>2, <2>3, StartStep
<1>6. ASSUME NEW i \in Images, NEW f \in BOOLEAN, call' = [call EXCEPT ![a] = RmiID(i, f)]
      PROVE  ImagesInv'
  <2> DEFINE d == RmiID(i, f)
  <2>1. Starts(<<"resolve">>, "resolve")
    BY Zenon, ShortPlan DEF Last
  <2>2. d \in CallType /\ d.holds = None /\ d.todo = <<"resolve">> /\ d.byID
    BY Zenon, <2>1 DEF RmiID, Idle, CallType, Starts
  <2> HIDE DEF d
  <2>3. call' = [call EXCEPT ![a] = d]
    BY Zenon, <1>6 DEF d
  <2> QED
    BY Zenon, <1>1, <1>2, <2>1, <2>2, <2>3, StartStep
<1>7. ASSUME NEW c \in Containers, NEW r \in Refs, call' = [call EXCEPT ![a] = New(c, r)]
      PROVE  ImagesInv'
  <2> DEFINE d == New(c, r)
  <2>1. Starts(d.todo, "getImage")
    BY Zenon, NewPlan DEF New, Idle
  <2>2. d \in CallType /\ d.holds = None
    BY Zenon, NewPlan DEF New, Idle, CallType, Starts
  <2> HIDE DEF d
  <2>3. call' = [call EXCEPT ![a] = d]
    BY Zenon, <1>7 DEF d
  <2> QED
    BY Zenon, <1>1, <1>2, <2>1, <2>2, <2>3, StartStep
<1>8. ASSUME NEW c \in Containers, NEW r \in Refs, Committable(c),
             call' = [call EXCEPT ![a] = Commit(c, r)]
      PROVE  ImagesInv'
  <2> DEFINE d == Commit(c, r)
             p == <<"read", "download", "set", "create", "setParent", "tag", "release">>
  <2>1. p \in Seq(Labels) /\ IsPlan(p) /\ p # <<>> /\ Head(p) = "read"
    BY Zenon, CommitPlan
  <2> HIDE DEF p
  <2>2. containers[c].image = pulled
    BY Zenon, <1>8 DEF Committable
  <2>3. d \in CallType /\ d.todo = p /\ d.holds = None /\ d.img = committed /\ d.par = pulled
    BY Zenon, <2>1, <2>2, ImagesAssumption DEF Commit, Idle, CallType, p
  <2> HIDE DEF d
  <2>4. Label(d) = "read"
    BY Zenon, <2>1, <2>3 DEF Label
  <2>5. CallOK(d)
    BY Zenon, <2>1, <2>3, <2>4, ImagesAssumption DEF CallOK, Making, Early, Deleting
  <2>6. committed \notin images /\ \A b \in Clients : ~ Makes(call[b])
    BY Zenon, <1>8 DEF Committable, Makes
  <2>7. Label(call[a]) # "create"
    BY Zenon, <1>2 DEF Label
  <2>8. call' = [call EXCEPT ![a] = d]
    BY Zenon, <1>8 DEF d
  <2> QED
    BY Zenon, <1>1, <1>2, <2>3, <2>4, <2>5, <2>6, <2>7, <2>8, QuietStep
<1> QED
  BY Zenon, <1>3, <1>4, <1>5, <1>6, <1>7, <1>8 DEF Call

-----------------------------------------------------------------------------
(* Steps that take or release layers *)

\* A layer that is still held is not removed with the one released.
LEMMA ReleaseKeeps ==
    ASSUME ImagesInv, NEW i, Release(i), \A j \in Holders' \ {None} : j \in Holders
    PROVE  HeldInv'
<1> SUFFICES ASSUME NEW j \in Holders', j # None, NEW x \in LayersOf[j]
             PROVE  x \in layers'
  BY Zenon DEF HeldInv
<1>1. x \in layers
  BY Zenon DEF ImagesInv, HeldInv
<1>2. x \in Held'
  BY Zenon DEF Held
<1> QED
  BY Zenon, <1>1, <1>2 DEF Release

\* Download keeps the invariant: the layers it adds are held by the call.
LEMMA DownloadInv ==
    ASSUME ImagesInv, NEW a \in Clients, Download(a)
    PROVE  ImagesInv'
<1> DEFINE c == call[a]
           r == [c EXCEPT !.holds = c.img]
           d == Stepped(r)
<1>1. Label(c) = "download" /\ c.todo # <<>>
  BY Zenon, AtLabel DEF Download
<1>2. /\ RefsInv'
      /\ UNCHANGED <<images, children, content, parent, up, ghostVars, lock, containers>>
  BY Zenon, SameRefs DEF Download, storeVars, fileVars
<1>3. CASE Fail(a) /\ UNCHANGED layers
  BY Zenon, <1>1, <1>2, <1>3, FailStep DEF storeFrame
<1>4. CASE layers' = layers \cup LayersOf[c.img] /\ Advance(a, r)
  <2>1. CallOK(c) /\ c \in CallType /\ up
    BY Zenon, <1>1, CallFacts
  <2>2. r \in CallType /\ r.todo = c.todo /\ r.holds = c.img /\ r.img = c.img /\ r.par = c.par
    BY Zenon, <2>1 DEF CallType
  <2>3. call' = [call EXCEPT ![a] = d]
    BY Zenon, <1>4 DEF Advance, Stepped
  <2>4. CallOK(d)
    BY Zenon, <1>1, <2>1, <2>2, StepOK
  <2>5. Moved(c, d) /\ (d # Idle => d.img = c.img /\ d.holds = c.img)
    BY Zenon, <1>1, <2>1, <2>2, StepMoves
  <2> HIDE DEF r, d
  <2>6. d = Idle \/ Label(d) = "set"
    BY Zenon, <1>1, <2>5 DEF Moved, Order
  <2>7. /\ Label(c) \in Making /\ Label(c) \in Early /\ Label(c) # "create"
        /\ Label(d) # "create" /\ (Makes(d) => Makes(c))
    BY Zenon, <1>1, <2>5, <2>6, IdleOK DEF Making, Early, Makes
  <2>8. Label(d) \in Early /\ d.img = committed => committed \notin images
    BY Zenon, <2>5, <2>6, <2>7, IdleOK, CallFacts DEF Early
  <2>9. HeldInv'
    <3> SUFFICES ASSUME NEW i \in Holders', i # None PROVE LayersOf[i] \subseteq layers'
      BY Zenon DEF HeldInv
    <3>1. i \in Holders \/ i = d.holds
      BY Zenon, <1>2, <2>3, HoldersStep DEF Holders
    <3>2. d.holds \in {None, c.img}
      BY <2>5 DEF Idle
    <3> QED
      BY Zenon, <1>4, <3>1, <3>2 DEF ImagesInv, HeldInv
  <2>10. /\ lock' \in Clients \cup {None}
         /\ containers' \in [Containers -> [state : States, image : Images \cup {None}]]
    BY Zenon, <1>2 DEF ImagesInv, TypeInv
  <2> QED
    BY Zenon, <1>2, <2>1, <2>3, <2>4, <2>7, <2>8, <2>9, <2>10, CallStep
<1> QED
  BY Zenon, <1>3, <1>4 DEF Download

\* The deferred release of a layer keeps the invariant.
LEMMA ReleaseLayerInv ==
    ASSUME ImagesInv, NEW a \in Clients, ReleaseLayer(a)
    PROVE  ImagesInv'
<1> DEFINE c == call[a]
           r == [c EXCEPT !.holds = None]
           d == Stepped(r)
<1>1. Label(c) = "release" /\ c.todo # <<>>
  BY Zenon, AtLabel DEF ReleaseLayer
<1>2. /\ RefsInv'
      /\ UNCHANGED <<images, children, content, parent, up, ghostVars, lock, containers>>
  BY Zenon, SameRefs DEF ReleaseLayer, storeVars, fileVars
<1>3. CallOK(c) /\ c \in CallType /\ up
  BY Zenon, <1>1, CallFacts
<1>4. r \in CallType /\ r.todo = c.todo /\ r.holds = None /\ r.img = c.img /\ r.par = c.par
  BY Zenon, <1>3 DEF CallType
<1>5. call' = [call EXCEPT ![a] = d]
  BY Zenon DEF ReleaseLayer, Advance, Stepped
<1>6. CallOK(d)
  BY Zenon, <1>1, <1>3, <1>4, StepOK
<1>7. Moved(c, d) /\ (d # Idle => d.img = c.img /\ d.holds = None)
  BY Zenon, <1>1, <1>3, <1>4, StepMoves
<1> HIDE DEF r, d
<1>8. d = Idle \/ Label(d) = "tag"
  BY Zenon, <1>1, <1>7 DEF Moved, Order
<1>9. /\ Label(c) # "create" /\ Label(d) # "create" /\ Label(d) \notin Early
      /\ Makes(d) => Makes(c)
  BY Zenon, <1>1, <1>7, <1>8, IdleOK DEF Making, Early, Makes
<1>10. d.holds = None
  BY <1>7 DEF Idle
<1>11. HeldInv'
  <2>1. \A j \in Holders' \ {None} : j \in Holders
    BY Zenon, <1>2, <1>5, <1>10, HoldersStep DEF Holders
  <2>2. Release(c.holds)
    BY Zenon DEF ReleaseLayer
  <2> QED
    BY Zenon, <2>1, <2>2, ReleaseKeeps
<1>12. /\ lock' \in Clients \cup {None}
       /\ containers' \in [Containers -> [state : States, image : Images \cup {None}]]
  BY Zenon, <1>2 DEF ImagesInv, TypeInv
<1> QED
  BY Zenon, <1>2, <1>3, <1>5, <1>6, <1>9, <1>11, <1>12, CallStep

\* The end of Delete, which releases the layer of the image, keeps the
\* invariant; the parent comes next.
LEMMA ReleaseImageInv ==
    ASSUME ImagesInv, NEW a \in Clients, ReleaseImage(a)
    PROVE  ImagesInv'
<1> DEFINE c == call[a]
           e == [Idle EXCEPT !.todo = Helper, !.img = c.par]
           d == IF c.par = None THEN Idle ELSE e
<1>1. Label(c) = "releaseImage" /\ c.todo # <<>>
  BY Zenon, AtLabel DEF ReleaseImage
<1>2. /\ RefsInv'
      /\ UNCHANGED <<images, children, content, parent, up, ghostVars, containers>>
      /\ lock' \in Clients \cup {None}
  BY Zenon, SameRefs DEF ReleaseImage, storeVars, fileVars
<1>3. CallOK(c) /\ c \in CallType /\ up
  BY Zenon, <1>1, CallFacts
<1>4. call' = [call EXCEPT ![a] = d]
  BY Zenon DEF ReleaseImage
<1>5. ASSUME c.par # None PROVE CallOK(e) /\ Label(e) = "check" /\ e.holds = None
  <2>1. c.par \in Images
    BY Zenon, <1>3, <1>5 DEF CallType
  <2>2. e \in CallType /\ e.todo = Helper /\ e.img \in Images /\ e.holds = None
    BY Zenon, <2>1, HelperPlan DEF CallType, Idle, Starts
  <2> HIDE DEF e
  <2>3. Label(e) = "check" /\ IsPlan(e.todo) /\ ~ SetsParent(e.todo)
    BY Zenon, <2>2, HelperPlan DEF Label, Starts
  <2> QED
    BY Zenon, <2>2, <2>3 DEF CallOK, Making, Early, Deleting
<1> HIDE DEF e
<1>6. CallOK(d) /\ d.holds = None /\ (d = Idle \/ Label(d) = "check")
  BY Zenon, <1>5, IdleOK DEF Idle
<1> HIDE DEF d
<1>7. /\ Label(c) # "create" /\ Label(d) # "create" /\ Label(d) \notin Early /\ ~ Makes(d)
  BY Zenon, <1>1, <1>6, IdleOK DEF Making, Early, Makes
<1>8. HeldInv'
  <2>1. \A j \in Holders' \ {None} : j \in Holders
    BY Zenon, <1>2, <1>4, <1>6, HoldersStep DEF Holders
  <2>2. Release(c.img)
    BY Zenon DEF ReleaseImage
  <2> QED
    BY Zenon, <2>1, <2>2, ReleaseKeeps
<1>9. containers' \in [Containers -> [state : States, image : Images \cup {None}]]
  BY Zenon, <1>2 DEF ImagesInv, TypeInv
<1> QED
  BY Zenon, <1>2, <1>3, <1>4, <1>6, <1>7, <1>8, <1>9, CallStep

-----------------------------------------------------------------------------
(* Containers *)

\* The containers of the next state hold what they held or what is there.
ContainersKeep ==
    /\ containers' \in [Containers -> [state : States, image : Images \cup {None}]]
    /\ \A c \in Containers : \/ containers'[c].image = containers[c].image
                             \/ LayersOf[containers'[c].image] \subseteq layers

\* The steps of the creation of a container keep the invariant when the
\* layers of its image are there.
LEMMA ContainerCallStep ==
    ASSUME ImagesInv, RefsInv', NEW a \in Clients, call[a].todo # <<>>,
           Label(call[a]) \in {"rwLayer", "register"}, Proceed(a), ContainersKeep,
           UNCHANGED <<images, children, lock, content, parent, layers, up, ghostVars>>
    PROVE  ImagesInv'
<1> DEFINE c == call[a]
           d == Stepped(c)
<1>1. CallOK(c) /\ c \in CallType /\ up
  BY Zenon, CallFacts
<1>2. call' = [call EXCEPT ![a] = d]
  BY Zenon DEF Proceed, Advance, Stepped
<1>3. CallOK(d)
  BY Zenon, <1>1, StepOK
<1>4. /\ Makes(d) => Makes(c)
      /\ d.img = committed /\ Label(d) \in Early => c.img = committed /\ Label(c) \in Early
      /\ Label(d) = "create" => Label(c) = "set"
      /\ d.holds \in {None, c.holds}
  BY Zenon, <1>1, SameMaker
<1>5. c.img = committed /\ Label(c) \in Early => committed \notin images
  BY Zenon, CallFacts
<1> HIDE DEF d
<1>6. HeldInv'
  <2> SUFFICES ASSUME NEW i \in Holders', i # None PROVE LayersOf[i] \subseteq layers
    BY Zenon DEF HeldInv
  <2>1. i \in Holders \/ LayersOf[i] \subseteq layers
    BY Zenon, <1>2, <1>4, HoldersStep DEF Holders, ContainersKeep
  <2> QED
    BY Zenon, <2>1 DEF ImagesInv, HeldInv
<1>7. lock' \in Clients \cup {None}
  BY Zenon DEF ImagesInv, TypeInv
<1> QED
  BY Zenon, <1>1, <1>2, <1>3, <1>4, <1>5, <1>6, <1>7, CallStep DEF ContainersKeep

\* The RW layer of a new container keeps the invariant.
LEMMA SetRWLayerInv ==
    ASSUME ImagesInv, NEW a \in Clients, setRWLayer(a)
    PROVE  ImagesInv'
<1>1. Label(call[a]) = "rwLayer" /\ call[a].todo # <<>>
  BY Zenon, AtLabel DEF setRWLayer
<1>2. /\ RefsInv'
      /\ UNCHANGED <<images, children, lock, content, parent, layers, up, ghostVars>>
  BY Zenon, SameRefs DEF setRWLayer, storeVars, fileVars
<1>3. CASE Fail(a) /\ UNCHANGED containers
  BY Zenon, <1>1, <1>2, <1>3, FailStep DEF storeFrame
<1>4. ASSUME NEW i \in content, LayersOf[i] \subseteq layers, Proceed(a),
             containers' = [containers EXCEPT ![call[a].con] = [state |-> "rw", image |-> i]]
      PROVE  ImagesInv'
  <2>1. ContainersKeep
    BY Zenon, <1>4 DEF ContainersKeep, ImagesInv, TypeInv, States
  <2> QED
    BY Zenon, <1>1, <1>2, <1>4, <2>1, ContainerCallStep
<1> QED
  BY Zenon, <1>3, <1>4 DEF setRWLayer

\* The registration of a new container keeps the invariant.
LEMMA RegisterInv ==
    ASSUME ImagesInv, NEW a \in Clients, Register(a)
    PROVE  ImagesInv'
<1>1. Label(call[a]) = "register" /\ call[a].todo # <<>>
  BY Zenon, AtLabel DEF Register
<1>2. /\ RefsInv'
      /\ UNCHANGED <<images, children, lock, content, parent, layers, up, ghostVars>>
  BY Zenon, SameRefs DEF Register, storeVars, fileVars
<1>3. ContainersKeep /\ Proceed(a)
  BY ZenonT(30) DEF Register, ContainersKeep, ImagesInv, TypeInv, States
<1> QED
  BY Zenon, <1>1, <1>2, <1>3, ContainerCallStep

\* Steps that change only containers and what they hold keep the invariant.
LEMMA ContainerStep ==
    ASSUME ImagesInv, RefsInv', HeldInv', up,
           UNCHANGED <<images, children, lock, content, parent, call, up, ghostVars>>,
           containers' \in [Containers -> [state : States, image : Images \cup {None}]]
    PROVE  ImagesInv'
<1>1. /\ images' = images /\ children' = children /\ content' = content /\ lock' = lock
      /\ parent' = parent /\ up' = up /\ call' = call
      /\ undeleted' = undeleted /\ raced' = raced /\ stray' = stray /\ dangling' = dangling
  BY Zenon DEF ghostVars
<1>2. TypeInv'
  BY Zenon, <1>1 DEF ImagesInv, TypeInv
<1>3. CallsInv' /\ OneMaker'
  BY <1>1 DEF ImagesInv, CallsInv, CallInv, OneMaker
<1>4. FilesInv' /\ MemoryInv'
  BY <1>1 DEF ImagesInv, FilesInv, Creating, MemoryInv
<1>5. ParentInv' /\ ChildInv'
  BY Zenon, <1>1 DEF ImagesInv, ParentInv, ChildInv
<1> QED
  BY Zenon, <1>2, <1>3, <1>4, <1>5 DEF ImagesInv

\* The start of a container keeps the invariant.
LEMMA ContainerStartInv ==
    ASSUME ImagesInv, NEW c \in Containers, ContainerStart(c)
    PROVE  ImagesInv'
<1>1. /\ RefsInv' /\ up
      /\ UNCHANGED <<images, children, lock, content, parent, call, up, ghostVars>>
      /\ images' = images /\ call' = call /\ layers' = layers
  BY Zenon, SameRefs DEF ContainerStart, Request, storeVars, fileVars
<1>2. /\ containers' \in [Containers -> [state : States, image : Images \cup {None}]]
      /\ \A e \in Containers : containers'[e].image = containers[e].image
  BY Zenon DEF ContainerStart, ImagesInv, TypeInv, States
<1>3. HeldInv'
  <2>1. Holders' = Holders
    BY Zenon, <1>1, <1>2 DEF Holders
  <2> QED
    BY Zenon, <1>1, <2>1 DEF ImagesInv, HeldInv
<1> QED
  BY Zenon, <1>1, <1>2, <1>3, ContainerStep

\* The removal of a container, which releases its layers, keeps the
\* invariant.
LEMMA ContainerRmInv ==
    ASSUME ImagesInv, NEW c \in Containers, ContainerRm(c)
    PROVE  ImagesInv'
<1>1. /\ RefsInv' /\ up
      /\ UNCHANGED <<images, children, lock, content, parent, call, up, ghostVars>>
      /\ images' = images /\ call' = call
  BY Zenon, SameRefs DEF ContainerRm, Request, storeVars, fileVars
<1>2. /\ containers' \in [Containers -> [state : States, image : Images \cup {None}]]
      /\ \A e \in Containers : containers'[e].image \in {None, containers[e].image}
  BY Zenon DEF ContainerRm, ImagesInv, TypeInv, States
<1>3. HeldInv'
  <2>1. \A j \in Holders' \ {None} : j \in Holders
    BY Zenon, <1>1, <1>2 DEF Holders
  <2>2. Release(containers[c].image)
    BY Zenon DEF ContainerRm
  <2> QED
    BY Zenon, <2>1, <2>2, ReleaseKeeps
<1> QED
  BY Zenon, <1>1, <1>2, <1>3, ContainerStep

-----------------------------------------------------------------------------
(* The two halves of Create, and SetParent *)

\* The first half of Create keeps the invariant: the image that now has a
\* config file is about to be in memory, and the call holds its layers.
LEMMA SetWrittenInv ==
    ASSUME ImagesInv, NEW a \in Clients, Set(a), content' = Written(call[a].img),
           undeleted' = undeleted \ {call[a].img}, raced' = raced \ {call[a].img}, Proceed(a)
    PROVE  ImagesInv'
<1> DEFINE c == call[a]
           d == Stepped(c)
<1>1. Label(c) = "set" /\ c.todo # <<>>
  BY Zenon, AtLabel DEF Set
<1>2. CallOK(c) /\ c \in CallType /\ up
  BY Zenon, <1>1, CallFacts
<1>3. /\ RefsInv'
      /\ images' = images /\ children' = children /\ lock' = lock /\ parent' = parent
      /\ layers' = layers /\ containers' = containers /\ up' = up
      /\ stray' = stray /\ dangling' = dangling
      /\ content' = content \cup {c.img}
      /\ undeleted' = undeleted \ {c.img} /\ raced' = raced \ {c.img}
  BY Zenon, SameRefs DEF Set, storeVars, Written
<1>4. call' = [call EXCEPT ![a] = d]
  BY Zenon DEF Proceed, Advance, Stepped
<1>5. CallOK(d)
  BY Zenon, <1>1, <1>2, StepOK
<1>6. Moved(c, d) /\ (d # Idle => d.img = c.img /\ d.holds = c.holds)
  BY Zenon, <1>1, <1>2, StepMoves
<1> HIDE DEF d
<1>7. Label(d) = "create" /\ d.img = c.img /\ d.holds = c.holds
  <2>1. Label(c) \notin Last
    BY Zenon, <1>1 DEF Last
  <2>2. <<Label(c), Label(d)>> \in Order
    BY Zenon, <1>6, <2>1 DEF Moved
  <2>3. Label(d) = "create"
    BY Zenon, <1>1, <2>2 DEF Order
  <2> QED
    BY Zenon, <1>6, <2>3, IdleOK
<1>8. call' \in [Clients -> CallType] /\ \A b \in Clients : call'[b] = IF b = a THEN d ELSE call[b]
  BY Zenon, <1>4, <1>5 DEF ImagesInv, TypeInv, CallOK
<1>9. c.img \in Images
  BY Zenon, <1>1, <1>2 DEF CallOK, Early
<1>10. TypeInv'
  BY Zenon, <1>3, <1>8, <1>9 DEF ImagesInv, TypeInv
<1>11. CallsInv'
  <2> SUFFICES ASSUME NEW b \in Clients PROVE CallInv(call[b])'
    BY Zenon DEF CallsInv
  <2>1. CASE b = a
    <3>1. c.img = committed => committed \notin images
      BY Zenon, <1>1, CallFacts DEF Early
    <3> QED
      BY Zenon, <1>2, <1>3, <1>5, <1>7, <1>8, <2>1, <3>1 DEF CallInv
  <2>2. CASE b # a
    BY Zenon, <1>3, <1>8, <2>2 DEF ImagesInv, CallsInv, CallInv
  <2> QED
    BY Zenon, <2>1, <2>2
<1>12. OneMaker'
  <2>1. Makes(d) => Makes(c)
    BY Zenon, <1>1, <1>7 DEF Makes, Making, Early
  <2> QED
    BY Zenon, <1>8, <2>1 DEF ImagesInv, OneMaker
<1>13. HeldInv'
  <2>1. Holders' \subseteq Holders
    BY Zenon, <1>3, <1>4, <1>7, HoldersStep DEF Holders
  <2> QED
    BY Zenon, <1>3, <2>1 DEF ImagesInv, HeldInv
<1>14. FilesInv'
  <2> SUFFICES ASSUME NEW i \in content', i \notin undeleted'
               PROVE  i \in images \/ Creating(i)'
    BY Zenon, <1>2, <1>3 DEF FilesInv
  <2>1. CASE i = c.img
    BY Zenon, <1>7, <1>8, <2>1 DEF Creating
  <2>2. CASE i # c.img
    <3>1. i \in images \/ Creating(i)
      BY Zenon, <1>2, <1>3, <2>2 DEF ImagesInv, FilesInv
    <3>2. Creating(i) => Creating(i)'
      BY Zenon, <1>1, <1>8 DEF Creating
    <3> QED
      BY Zenon, <3>1, <3>2
  <2> QED
    BY Zenon, <2>1, <2>2
<1>15. MemoryInv' /\ ParentInv' /\ ChildInv'
  BY Zenon, <1>3 DEF ImagesInv, MemoryInv, ParentInv, ChildInv
<1> QED
  BY Zenon, <1>3, <1>10, <1>11, <1>12, <1>13, <1>14, <1>15 DEF ImagesInv

\* So does a config file that cannot be written: the call ends and lets go
\* of the layers.
LEMMA SetInv ==
    ASSUME ImagesInv, NEW a \in Clients, Set(a)
    PROVE  ImagesInv'
<1>1. CASE Fail(a) /\ UNCHANGED <<content, undeleted, raced>>
  <2>1. Label(call[a]) = "set" /\ call[a].todo # <<>>
    BY Zenon, AtLabel DEF Set
  <2>2. RefsInv' /\ UNCHANGED storeFrame
    BY Zenon, <1>1, SameRefs DEF Set, storeVars, storeFrame, ghostVars
  <2> QED
    BY Zenon, <1>1, <2>1, <2>2, FailStep
<1> QED
  BY Zenon, <1>1, SetWrittenInv DEF Set

\* The second half of Create keeps the invariant.  The layers are there as
\* the call holds them, and no other call makes the committed image.
LEMMA CreateInv ==
    ASSUME ImagesInv, NEW a \in Clients, Create(a)
    PROVE  ImagesInv'
<1> DEFINE c == call[a]
           i == c.img
           d == Stepped(c)
<1>1. Label(c) = "create" /\ c.todo # <<>>
  BY Zenon, AtLabel DEF Create
<1>2. CallOK(c) /\ c \in CallType /\ up /\ i \in content \cup raced
  BY Zenon, <1>1, CallFacts DEF ImagesInv, CallsInv, CallInv
<1>3. i \in Images /\ i # None /\ c.holds = i
  BY Zenon, <1>1, <1>2, ImagesAssumption DEF CallOK, Early
<1>4. LayersOf[i] \subseteq layers
  BY Zenon, <1>3 DEF ImagesInv, HeldInv, Holders
<1>5. /\ RefsInv'
      /\ children' = children /\ lock' = lock /\ content' = content /\ parent' = parent
      /\ layers' = layers /\ containers' = containers /\ up' = up
      /\ undeleted' = undeleted /\ raced' = raced /\ stray' = stray /\ dangling' = dangling
  BY Zenon, SameRefs DEF Create, fileVars, ghostVars
<1>6. images' = images \cup {i} /\ Proceed(a)
  BY Zenon, <1>4 DEF Create
<1>7. call' = [call EXCEPT ![a] = d]
  BY Zenon, <1>6 DEF Proceed, Advance, Stepped
<1>8. CallOK(d)
  BY Zenon, <1>1, <1>2, StepOK
<1>9. Moved(c, d) /\ (d # Idle => d.img = c.img /\ d.holds = c.holds)
  BY Zenon, <1>1, <1>2, StepMoves
<1> HIDE DEF d
<1>10. d = Idle \/ Label(d) \in {"release", "tag", "setParent"}
  BY Zenon, <1>1, <1>9 DEF Moved, Order
<1>11. Label(d) \notin Early /\ Label(d) # "create" /\ (Makes(d) => Makes(c))
  BY Zenon, <1>1, <1>9, <1>10, IdleOK DEF Makes, Making, Early
<1>12. call' \in [Clients -> CallType] /\ \A b \in Clients : call'[b] = IF b = a THEN d ELSE call[b]
  BY Zenon, <1>7, <1>8 DEF ImagesInv, TypeInv, CallOK
<1>13. TypeInv'
  BY Zenon, <1>3, <1>5, <1>6, <1>12 DEF ImagesInv, TypeInv
<1>14. CallsInv'
  <2> SUFFICES ASSUME NEW b \in Clients PROVE CallInv(call[b])'
    BY Zenon DEF CallsInv
  <2>1. CASE b = a
    BY Zenon, <1>2, <1>5, <1>8, <1>11, <1>12, <2>1 DEF CallInv
  <2>2. CASE b # a
    <3>1. CallInv(call[b])
      BY Zenon DEF ImagesInv, CallsInv
    <3>2. i = committed => ~ (Label(call[b]) \in Early /\ call[b].img = committed)
      BY Zenon, <1>1, <2>2 DEF ImagesInv, OneMaker, Makes, Making, Early
    <3> QED
      BY Zenon, <1>5, <1>6, <1>12, <2>2, <3>1, <3>2 DEF CallInv
  <2> QED
    BY Zenon, <2>1, <2>2
<1>15. OneMaker'
  BY Zenon, <1>11, <1>12 DEF ImagesInv, OneMaker
<1>16. HeldInv'
  <2> SUFFICES ASSUME NEW j \in Holders', j # None PROVE LayersOf[j] \subseteq layers
    BY Zenon, <1>5 DEF HeldInv
  <2>1. d.holds \in {None, i}
    BY <1>3, <1>9 DEF Idle
  <2>2. j \in Holders \/ j = i
    BY Zenon, <1>5, <1>6, <1>7, <2>1, HoldersStep DEF Holders
  <2> QED
    BY Zenon, <1>4, <2>2 DEF ImagesInv, HeldInv
<1>17. FilesInv'
  <2> SUFFICES ASSUME NEW j \in content, j \notin undeleted
               PROVE  j \in images' \/ Creating(j)'
    BY Zenon, <1>2, <1>5 DEF FilesInv
  <2>1. j \in images \/ Creating(j)
    BY Zenon, <1>2 DEF ImagesInv, FilesInv
  <2>2. Creating(j) => j = i \/ Creating(j)'
    BY Zenon, <1>12 DEF Creating
  <2> QED
    BY Zenon, <1>6, <2>1, <2>2
<1>18. MemoryInv' /\ ParentInv' /\ ChildInv'
  BY Zenon, <1>2, <1>5, <1>6 DEF ImagesInv, MemoryInv, ParentInv, ChildInv
<1> QED
  BY Zenon, <1>5, <1>13, <1>14, <1>15, <1>16, <1>17, <1>18 DEF ImagesInv

\* SetParent keeps the invariant, also when the child is gone already or its
\* parent file cannot be written: then the child is stray.
LEMMA SetParentInv ==
    ASSUME ImagesInv, NEW a \in Clients, SetParent(a)
    PROVE  ImagesInv'
<1> DEFINE c == call[a]
<1>1. Label(c) = "setParent" /\ c.todo # <<>>
  BY Zenon, AtLabel DEF SetParent
<1>2. CallOK(c) /\ c \in CallType /\ up
  BY Zenon, <1>1, CallFacts
<1>3. c.img = committed /\ c.par = pulled
  <2>1. c.todo \in Seq(Labels) /\ Head(c.todo) = "setParent"
    BY Zenon, <1>1, <1>2 DEF CallType, Label
  <2>2. 1 \in 1..Len(c.todo) /\ c.todo[1] = "setParent"
    BY <1>1, <2>1
  <2>3. SetsParent(c.todo)
    BY Zenon, <2>2 DEF SetsParent
  <2> QED
    BY Zenon, <1>2, <2>3 DEF CallOK
<1>4. /\ RefsInv'
      /\ images' = images /\ lock' = lock /\ content' = content
      /\ layers' = layers /\ containers' = containers /\ up' = up
      /\ undeleted' = undeleted /\ raced' = raced
  BY Zenon, SameRefs DEF SetParent
<1>5. CASE Fail(a) /\ UNCHANGED <<children, parent, stray, dangling>>
  BY Zenon, <1>1, <1>4, <1>5, FailStep DEF storeFrame, ghostVars
<1>6. ASSUME pulled \in images,
             children' = [children EXCEPT ![pulled] = @ \cup {committed}],
             \/ /\ committed \in content /\ Proceed(a)
                /\ stray' = stray \cup ({committed} \ images)
                /\ parent' = [parent EXCEPT ![committed] = pulled]
                /\ dangling' = IF pulled \in content THEN dangling \ {committed}
                               ELSE dangling \cup {committed}
             \/ /\ Fail(a) /\ parent' = parent /\ dangling' = dangling
                /\ stray' = stray \cup {committed}
      PROVE  ImagesInv'
  <2>1. /\ children \in [Images -> SUBSET Images] /\ parent \in [Images -> Images \cup {None}]
        /\ pulled \in Images /\ committed \in Images /\ pulled # committed /\ pulled # None
    BY Zenon, ImagesAssumption DEF ImagesInv, TypeInv
  <2>2. /\ children' \in [Images -> SUBSET Images] /\ parent' \in [Images -> Images \cup {None}]
    BY Zenon, <1>6, <2>1
  <2>3. ParentInv'
    BY Zenon, <1>2, <1>4, <1>6, <2>1 DEF ImagesInv, ParentInv
  <2>4. ChildInv'
    BY Zenon, <1>4, <1>6, <2>1 DEF ImagesInv, ChildInv, MemoryInv
  <2>5. PICK d : /\ call' = [call EXCEPT ![a] = d] /\ CallOK(d)
                 /\ d.holds \in {None, c.holds} /\ Label(d) # "create"
                 /\ Makes(d) => Makes(c)
                 /\ Label(d) \notin Early
    <3>1. CASE Proceed(a)
      <4> DEFINE d == Stepped(c)
      <4>1. call' = [call EXCEPT ![a] = d]
        BY Zenon, <3>1 DEF Proceed, Advance, Stepped
      <4>2. CallOK(d)
        BY Zenon, <1>1, <1>2, StepOK
      <4>3. /\ Makes(d) => Makes(c)
            /\ d.holds \in {None, c.holds}
        BY Zenon, <1>1, <1>2, SameMaker
      <4>4. Moved(c, d)
        BY Zenon, <1>1, <1>2, StepMoves
      <4> HIDE DEF d
      <4>5. Label(d) # "create" /\ Label(d) \notin Early
        BY Zenon, <1>1, <4>4, IdleOK DEF Moved, Order, Early
      <4> QED
        BY Zenon, <4>1, <4>2, <4>3, <4>5
    <3>2. CASE Fail(a)
      <4> DEFINE d == Failed(c)
      <4>1. call' = [call EXCEPT ![a] = d]
        BY Zenon, <3>2 DEF Fail, Failed
      <4>2. /\ CallOK(d) /\ d.holds = c.holds
            /\ d = Idle \/ (Label(d) = "release" /\ d.img = c.img)
        BY Zenon, <1>2, FailMoves
      <4> HIDE DEF d
      <4>3. Label(d) # "create" /\ Label(d) \notin Early /\ (Makes(d) => Makes(c))
        BY Zenon, <1>1, <4>2, IdleOK DEF Early, Making, Makes
      <4> QED
        BY Zenon, <4>1, <4>2, <4>3
    <3> QED
      BY Zenon, <1>6, <3>1, <3>2
  <2>6. HeldInv'
    <3> SUFFICES ASSUME NEW i \in Holders', i # None PROVE LayersOf[i] \subseteq layers
      BY Zenon, <1>4 DEF HeldInv
    <3>1. i \in Holders
      BY Zenon, <1>4, <2>5, HoldersStep DEF Holders
    <3> QED
      BY Zenon, <3>1 DEF ImagesInv, HeldInv
  <2>7. /\ lock' \in Clients \cup {None}
        /\ containers' \in [Containers -> [state : States, image : Images \cup {None}]]
    BY Zenon, <1>4 DEF ImagesInv, TypeInv
  <2>8. Label(c) # "create"
    BY Zenon, <1>1
  <2> QED
    BY Zenon, <1>2, <1>4, <2>2, <2>3, <2>4, <2>5, <2>6, <2>7, <2>8, BaseStep
<1> QED
  BY Zenon, <1>3, <1>5, <1>6 DEF SetParent

-----------------------------------------------------------------------------
(* Delete, crashes and restarts *)

\* Delete keeps the invariant, whether it can remove the files or not: no
\* parent keeps it as child, and a child that keeps it as parent is dangling.
LEMMA DeleteInv ==
    ASSUME ImagesInv, NEW a \in Clients, Delete(a)
    PROVE  ImagesInv'
<1> DEFINE c == call[a]
           i == c.img
           r == [c EXCEPT !.holds = i]
           d == Stepped(r)
<1>1. Label(c) = "delete" /\ c.todo # <<>>
  BY Zenon, AtLabel DEF Delete
<1>2. CallOK(c) /\ c \in CallType /\ up
  BY Zenon, <1>1, CallFacts
<1>3. /\ RefsInv' /\ layers' = layers /\ containers' = containers /\ up' = up
      /\ stray' = stray
  BY Zenon, SameRefs DEF Delete
<1>4. CASE Fail(a) /\ UNCHANGED <<storeVars, fileVars, undeleted, raced, dangling>>
  BY Zenon, <1>1, <1>3, <1>4, FailStep DEF storeFrame, storeVars, fileVars, ghostVars
<1>5. ASSUME i \in images, lock' = a, children' = Unlinked(i), images' = images \ {i},
             NEW kept, parent' = Orphaned(i, kept), i \in kept => content' = content,
             dangling' = {j \in dangling \cup kept : parent'[j] # None},
             \/ content' = content \ {i} /\ undeleted' = undeleted
             \/ content' = content /\ undeleted' = undeleted \cup {i},
             raced' = IF \E b \in Clients : At(b, "create") /\ call[b].img = i
                      THEN raced \cup {i} ELSE raced,
             Advance(a, r)
      PROVE  ImagesInv'
  <2>1. i \in Images
    BY Zenon, <1>5 DEF ImagesInv, TypeInv
  <2>2. r \in CallType /\ r.todo = c.todo /\ r.holds = i /\ r.img = i /\ r.par = c.par
    BY Zenon, <1>2, <2>1 DEF CallType
  <2>3. call' = [call EXCEPT ![a] = d]
    BY Zenon, <1>5 DEF Advance, Stepped
  <2>4. CallOK(d)
    BY Zenon, <1>1, <1>2, <2>2, StepOK
  <2>5. Moved(c, d) /\ (d # Idle => d.holds = i)
    BY Zenon, <1>1, <1>2, <2>2, StepMoves
  <2> HIDE DEF r, d
  <2>6. d = Idle \/ Label(d) = "releaseImage"
    BY Zenon, <1>1, <2>5 DEF Moved, Order
  <2>7. Label(d) \notin Early /\ Label(d) # "create" /\ ~ Makes(d)
    BY Zenon, <2>6, IdleOK DEF Makes, Making, Early
  <2>8. d.holds \in {None, i}
    BY <2>5 DEF Idle
  <2>9. /\ call' \in [Clients -> CallType]
        /\ \A b \in Clients : call'[b] = IF b = a THEN d ELSE call[b]
    BY Zenon, <2>3, <2>4 DEF ImagesInv, TypeInv, CallOK
  <2>10. raced \subseteq raced' /\ raced' \subseteq raced \cup {i}
         /\ (i \in raced' => i \in raced \/ Creating(i)) /\ (Creating(i) => i \in raced')
    <3>1. (\E b \in Clients : At(b, "create") /\ call[b].img = i) <=> Creating(i)
      BY Zenon DEF At, Creating, Label
    <3> QED
      BY Zenon, <1>5, <3>1
  <2>11. i = committed => ~ Creating(i)
    BY Zenon, <1>5, CallFacts DEF Creating, Early
  <2>12. content' \subseteq content /\ content \subseteq content' \cup {i}
         /\ content' \ undeleted' = (content \ undeleted) \ {i}
    BY Zenon, <1>5
  <2>13. /\ children \in [Images -> SUBSET Images] /\ parent \in [Images -> Images \cup {None}]
         /\ pulled \in Images /\ committed \in Images /\ pulled # committed /\ pulled # None
    BY Zenon, ImagesAssumption DEF ImagesInv, TypeInv
  <2>14. /\ children' \in [Images -> SUBSET Images] /\ parent' \in [Images -> Images \cup {None}]
         /\ \A j \in Images : parent'[j] = IF j \in (children[i] \cup {i}) \ kept THEN None
                                           ELSE parent[j]
         /\ \A j \in Images : children'[j] = IF j = i THEN {} ELSE IF j = GetParent(i)
                                             THEN children[j] \ {i} ELSE children[j]
    BY Zenon, <1>5, <2>13 DEF Orphaned, Unlinked
  <2>15. TypeInv'
    BY Zenon, <1>3, <1>5, <2>9, <2>12, <2>14 DEF ImagesInv, TypeInv
  <2>16. CallsInv'
    <3> SUFFICES ASSUME NEW b \in Clients PROVE CallInv(call[b])'
      BY Zenon DEF CallsInv
    <3>1. CASE b = a
      BY Zenon, <1>2, <1>3, <2>4, <2>7, <2>9, <3>1 DEF CallInv
    <3>2. CASE b # a
      <4>1. CallInv(call[b])
        BY Zenon DEF ImagesInv, CallsInv
      <4>2. Label(call[b]) = "create" => call[b].img \in content' \cup raced'
        <5>1. Label(call[b]) = "create" /\ call[b].img = i => Creating(i)
          BY Zenon DEF Creating
        <5> QED
          BY Zenon, <2>10, <2>12, <4>1, <5>1 DEF CallInv
      <4> QED
        BY Zenon, <1>3, <1>5, <2>9, <3>2, <4>1, <4>2 DEF CallInv
    <3> QED
      BY Zenon, <3>1, <3>2
  <2>17. OneMaker'
    BY Zenon, <2>7, <2>9 DEF ImagesInv, OneMaker
  <2>18. HeldInv'
    <3> SUFFICES ASSUME NEW j \in Holders', j # None PROVE LayersOf[j] \subseteq layers
      BY Zenon, <1>3 DEF HeldInv
    <3>1. j \in Holders
      BY Zenon, <1>3, <1>5, <2>3, <2>8, HoldersStep DEF Holders
    <3> QED
      BY Zenon, <3>1 DEF ImagesInv, HeldInv
  <2>19. FilesInv'
    <3> SUFFICES ASSUME NEW j \in content' \ undeleted' PROVE j \in images' \/ Creating(j)'
      BY Zenon, <1>2, <1>3 DEF FilesInv
    <3>1. j # i /\ (j \in images \/ Creating(j))
      BY Zenon, <1>2, <2>12 DEF ImagesInv, FilesInv
    <3>2. Creating(j) => Creating(j)'
      BY Zenon, <1>1, <2>9 DEF Creating
    <3> QED
      BY Zenon, <1>5, <3>1, <3>2
  <2>20. MemoryInv'
    BY Zenon, <1>5, <2>10, <2>11, <2>12 DEF ImagesInv, MemoryInv
  <2>21. ParentInv'
    <3>1. ASSUME NEW j \in Images, parent'[j] # None
          PROVE  j = committed /\ parent'[j] = pulled /\ j \in content'
      <4>1. parent[j] # None /\ parent'[j] = parent[j] /\ (j = i => i \in kept)
        BY Zenon, <2>14, <3>1
      <4>2. j = committed /\ parent[j] = pulled /\ j \in content
        BY Zenon, <4>1 DEF ImagesInv, ParentInv
      <4> QED
        BY Zenon, <1>5, <2>12, <4>1, <4>2
    <3>2. ASSUME parent'[committed] = pulled, committed \notin dangling'
          PROVE  pulled \in content' /\ pulled \in images' /\ committed \in children'[pulled]
      <4>0. committed \notin dangling \cup kept
        BY Zenon, <1>5, <2>13, <3>2
      <4>1. /\ committed \notin children[i] /\ committed # i /\ parent[committed] = pulled
        BY Zenon, <2>13, <2>14, <3>2, <4>0
      <4>2. pulled \in content /\ pulled \in images /\ committed \in children[pulled]
        BY Zenon, <1>2, <4>0, <4>1 DEF ImagesInv, ParentInv
      <4>3. pulled # i
        BY Zenon, <4>1, <4>2
      <4> QED
        BY ZenonT(30), <1>5, <2>12, <2>13, <2>14, <4>1, <4>2, <4>3
    <3> QED
      BY Zenon, <3>1, <3>2 DEF ParentInv
  <2>22. ChildInv'
    <3>1. \A p \in Images : children[p] \subseteq {committed} /\ (p # pulled => children[p] = {})
      BY Zenon DEF ImagesInv, ChildInv
    <3>2. \A p \in Images : children'[p] \subseteq {committed} /\ (p # pulled => children'[p] = {})
      BY <2>14, <3>1
    <3>3. ASSUME committed \in children'[pulled], committed \notin stray'
          PROVE  committed \in images' /\ committed \in content' /\ parent'[committed] = pulled
      <4>1. pulled # i /\ committed \in children[pulled]
        BY Zenon, <2>13, <2>14, <3>3
      <4>2. committed \in images /\ committed \in content /\ parent[committed] = pulled
        BY Zenon, <1>3, <3>3, <4>1 DEF ImagesInv, ChildInv
      <4>3. committed # i
        BY <2>13, <2>14, <3>3, <4>1, <4>2 DEF GetParent
      <4>4. children[i] = {}
        BY Zenon, <2>1, <3>1, <4>1
      <4> QED
        BY Zenon, <1>5, <2>12, <2>13, <2>14, <4>2, <4>3, <4>4
    <3> QED
      BY Zenon, <3>2, <3>3 DEF ChildInv
  <2> QED
    BY Zenon, <1>3, <2>15, <2>16, <2>17, <2>18, <2>19, <2>20, <2>21, <2>22 DEF ImagesInv
<1>6. ASSUME i \in images, lock' = a, children' = Unlinked(i), images' = images \ {i},
             RemoveFiles(i),
             raced' = IF \E b \in Clients : At(b, "create") /\ call[b].img = i
                      THEN raced \cup {i} ELSE raced,
             Advance(a, r)
      PROVE  ImagesInv'
  <2>1. PICK kept \in {{}} \cup {{j} : j \in children[i] \cup {i}}, removed \in BOOLEAN :
             /\ kept # {} => removed = (i \notin kept)
             /\ parent' = Orphaned(i, kept)
             /\ dangling' = {j \in dangling \cup kept : parent'[j] # None}
             /\ content' = IF removed THEN Removed(i) ELSE content
             /\ undeleted' = IF removed THEN undeleted ELSE undeleted \cup {i}
    BY Zenon, <1>6 DEF RemoveFiles
  <2>2. i \in kept => content' = content
    BY Zenon, <2>1
  <2>3. \/ content' = content \ {i} /\ undeleted' = undeleted
        \/ content' = content /\ undeleted' = undeleted \cup {i}
    BY Zenon, <2>1 DEF Removed
  <2> QED
    BY Zenon, <1>5, <1>6, <2>1, <2>2, <2>3
<1> QED
  BY Zenon, <1>4, <1>6 DEF Delete

\* A crash keeps the invariant: what was held in memory is on disk.
LEMMA CrashInv ==
    ASSUME ImagesInv, Crash
    PROVE  ImagesInv'
<1>1. /\ RefsInv' /\ up /\ up' = FALSE
      /\ images' = {} /\ children' = [i \in Images |-> {}] /\ lock' = None
      /\ content' = content /\ parent' = parent /\ layers' = layers
      /\ undeleted' = undeleted /\ raced' = raced /\ stray' = stray /\ dangling' = dangling
  BY Zenon, SameRefs DEF Crash, fileVars, ghostVars
<1>2. /\ containers' \in [Containers -> [state : States, image : Images \cup {None}]]
      /\ \A c \in Containers : containers'[c].image = containers[c].image
  BY DEF Crash, ImagesInv, TypeInv, States
<1>3. call' \in [Clients -> CallType] /\ \A b \in Clients : call'[b] = Idle
  BY Zenon, IdleOK DEF Crash, CallOK
<1>4. TypeInv'
  BY Zenon, <1>1, <1>2, <1>3 DEF ImagesInv, TypeInv
<1>5. CallsInv' /\ OneMaker'
  BY Zenon, <1>1, <1>3, IdleOK DEF CallsInv, CallInv, OneMaker, Early
<1>6. HeldInv'
  <2> SUFFICES ASSUME NEW i \in Holders', i # None PROVE LayersOf[i] \subseteq layers
    BY Zenon, <1>1 DEF HeldInv
  <2>1. i \in Holders
    BY <1>1, <1>2, <1>3 DEF Holders, Idle
  <2> QED
    BY Zenon, <2>1 DEF ImagesInv, HeldInv
<1>7. FilesInv'
  <2> SUFFICES ASSUME NEW i \in content, i \notin undeleted PROVE LayersOf[i] \subseteq layers
    BY Zenon, <1>1 DEF FilesInv
  <2>1. i \in images \/ Creating(i)
    BY Zenon, <1>1 DEF ImagesInv, FilesInv
  <2>2. i \in Images /\ i # None
    BY Zenon, ImagesAssumption DEF ImagesInv, TypeInv
  <2>3. Creating(i) => i \in Holders
    BY Zenon DEF Creating, ImagesInv, CallsInv, CallInv, CallOK, Holders
  <2> QED
    BY Zenon, <2>1, <2>2, <2>3 DEF ImagesInv, HeldInv, Holders
<1>8. MemoryInv' /\ ParentInv' /\ ChildInv'
  BY Zenon, <1>1, ImagesAssumption DEF ImagesInv, MemoryInv, ParentInv, ChildInv
<1> QED
  BY Zenon, <1>1, <1>4, <1>5, <1>6, <1>7, <1>8 DEF ImagesInv

\* restore keeps the invariant: children follow from the parent files.
LEMMA RestoreInv ==
    ASSUME ImagesInv, restore
    PROVE  ImagesInv'
<1>1. /\ ~ up /\ up' = TRUE /\ images' = content /\ lock' = lock
      /\ children' = [p \in Images |-> {i \in content : p \in content /\ parent[i] = p}]
      /\ content' = content /\ parent' = parent /\ layers' = layers
      /\ containers' = containers /\ call' = call
      /\ undeleted' = {} /\ raced' = {} /\ stray' = {}
      /\ dangling' = {i \in dangling : parent[i] \notin content}
  BY Zenon DEF restore, fileVars
<1>2. RefsInv'
  BY Zenon DEF ImagesInv, RefsInv, restore
<1>3. content \subseteq Images /\ \A b \in Clients : call[b] = Idle
  BY Zenon, <1>1 DEF ImagesInv, TypeInv, CallsInv, CallInv
<1>4. TypeInv'
  BY Zenon, <1>1, <1>3 DEF ImagesInv, TypeInv
<1>5. CallsInv' /\ OneMaker'
  BY Zenon, <1>1, <1>3, IdleOK DEF CallsInv, CallInv, OneMaker, Early
<1>6. HeldInv'
  BY <1>1 DEF ImagesInv, HeldInv, Holders, restore
<1>7. FilesInv' /\ MemoryInv'
  BY Zenon, <1>1 DEF FilesInv, MemoryInv
<1>8. ParentInv'
  <2>1. ASSUME parent[committed] = pulled, committed \notin dangling'
        PROVE  committed \in content /\ pulled \in content
    BY Zenon, <1>1, <2>1, ImagesAssumption DEF ImagesInv, ParentInv
  <2>2. pulled \in Images /\ committed \in Images
    BY Zenon, ImagesAssumption
  <2> QED
    BY Zenon, <1>1, <2>1, <2>2 DEF ImagesInv, ParentInv
<1>9. ChildInv'
  BY <1>1, <1>3, ImagesAssumption DEF ImagesInv, ParentInv, ChildInv
<1> QED
  BY Zenon, <1>2, <1>4, <1>5, <1>6, <1>7, <1>8, <1>9 DEF ImagesInv

-----------------------------------------------------------------------------
(* The theorems *)

\* The invariant holds of an empty store.
LEMMA InitInv ==
    ASSUME Init
    PROVE  ImagesInv
<1>1. /\ images = {} /\ children = [i \in Images |-> {}] /\ lock = None
      /\ content = {} /\ parent = [i \in Images |-> None]
      /\ refs = [r \in Refs |-> None] /\ saved = refs /\ layers = {}
      /\ containers = [c \in Containers |-> [state |-> "none", image |-> None]]
      /\ call = [a \in Clients |-> Idle] /\ up = TRUE
      /\ undeleted = {} /\ raced = {} /\ stray = {} /\ dangling = {}
  BY Zenon DEF Init
<1>2. TypeInv /\ RefsInv
  BY Zenon, <1>1, IdleOK DEF TypeInv, RefsInv, CallOK, States
<1>3. CallsInv /\ OneMaker
  BY Zenon, <1>1, IdleOK DEF CallsInv, CallInv, OneMaker, Early
<1>4. HeldInv
  <2>1. Idle.holds = None
    BY Zenon DEF Idle
  <2> QED
    BY Zenon, <1>1, <2>1 DEF HeldInv, Holders
<1>5. FilesInv /\ MemoryInv
  BY Zenon, <1>1 DEF FilesInv, MemoryInv
<1>6. ParentInv /\ ChildInv
  BY Zenon, <1>1, ImagesAssumption DEF ParentInv, ChildInv
<1> QED
  BY Zenon, <1>2, <1>3, <1>4, <1>5, <1>6 DEF ImagesInv

\* A step that changes nothing keeps the invariant.
LEMMA StutterInv ==
    ASSUME ImagesInv, UNCHANGED vars
    PROVE  ImagesInv'
<1>1. /\ images' = images /\ children' = children /\ lock' = lock
      /\ content' = content /\ parent' = parent /\ refs' = refs /\ saved' = saved
      /\ layers' = layers /\ containers' = containers /\ call' = call /\ up' = up
      /\ undeleted' = undeleted /\ raced' = raced /\ stray' = stray /\ dangling' = dangling
  BY Zenon DEF vars, storeVars, fileVars, refVars, ghostVars
<1>2. TypeInv' /\ RefsInv'
  BY Zenon, <1>1 DEF ImagesInv, TypeInv, RefsInv
<1>3. CallsInv' /\ OneMaker'
  BY Zenon, <1>1 DEF ImagesInv, CallsInv, CallInv, OneMaker
<1>4. HeldInv' /\ FilesInv' /\ MemoryInv'
  BY Zenon, <1>1 DEF ImagesInv, HeldInv, Holders, FilesInv, Creating, MemoryInv
<1>5. ParentInv' /\ ChildInv'
  BY Zenon, <1>1 DEF ImagesInv, ParentInv, ChildInv
<1> QED
  BY Zenon, <1>2, <1>3, <1>4, <1>5 DEF ImagesInv

\* Every step of a call keeps the invariant.
LEMMA StepInv ==
    ASSUME ImagesInv, NEW a \in Clients, Step(a)
    PROVE  ImagesInv'
BY Zenon, PullSchema2Inv, ReadImageInv, DownloadInv, SetInv, CreateInv, SetParentInv, AddTagInv,
   ReleaseLayerInv, ImageDeleteInv, RemoveImageRefInv, CheckInv, ListReferencesInv,
   RemoveAllReferencesInv, DeleteInv, ReleaseImageInv, GetImageInv, SetRWLayerInv, RegisterInv
   DEF Step

\* The invariant of the image store, the references and the layers: every
\* call of pull, load, commit, tag, rmi and of containers keeps it, in any
\* interleaving and through any crashes.
THEOREM ImagesInvariant == Spec => []ImagesInv
<1>1. ImagesInv /\ [Next]_vars => ImagesInv'
  <2> SUFFICES ASSUME ImagesInv, [Next]_vars PROVE ImagesInv'
    BY Zenon
  <2>1. ASSUME NEW a \in Clients, Call(a) \/ Step(a) PROVE ImagesInv'
    BY Zenon, <2>1, CallInvariant, StepInv
  <2>2. ASSUME NEW c \in Containers, ContainerStart(c) \/ ContainerRm(c) PROVE ImagesInv'
    BY Zenon, <2>2, ContainerStartInv, ContainerRmInv
  <2> QED
    BY Zenon, <2>1, <2>2, CrashInv, RestoreInv, StutterInv DEF Next
<1> QED
  BY <1>1, InitInv, PTL DEF Spec

\* However many clients pull, load, commit and delete, and whenever the
\* daemon dies, restore finds the layers of every image that has a config
\* file which Delete did not fail to remove.
THEOREM RestartAlwaysSucceeds == Spec => []RestartSucceeds
<1>1. ImagesInv => RestartSucceeds
  <2> SUFFICES ASSUME ImagesInv, NEW i \in content, i \notin undeleted
               PROVE  LayersOf[i] \subseteq layers
    BY Zenon DEF RestartSucceeds
  <2>1. CASE ~ up
    BY Zenon, <2>1 DEF ImagesInv, FilesInv
  <2>2. CASE up
    <3>1. i \in images \/ Creating(i)
      BY Zenon, <2>2 DEF ImagesInv, FilesInv
    <3>2. i \in Images /\ i # None
      BY Zenon, ImagesAssumption DEF ImagesInv, TypeInv
    <3>3. Creating(i) => i \in Holders
      BY Zenon DEF Creating, ImagesInv, CallsInv, CallInv, CallOK, Holders
    <3> QED
      BY Zenon, <3>1, <3>2, <3>3 DEF ImagesInv, HeldInv, Holders
  <2> QED
    BY Zenon, <2>1, <2>2
<1> QED
  BY <1>1, ImagesInvariant, PTL

\* The parent that SetParent wrote for a committed image is in the store as
\* long as the image is, unless it had lost its config file by then or Delete
\* could not remove the child's parent file.
THEOREM ParentsExist == Spec => []ParentExists
<1>1. ImagesInv => ParentExists
  <2> SUFFICES ASSUME ImagesInv, NEW i \in content, i \notin dangling, up, parent[i] # None
               PROVE  parent[i] \in images
    BY Zenon DEF ParentExists
  <2>1. i = committed /\ parent[i] = pulled
    BY Zenon DEF ImagesInv, TypeInv, ParentInv
  <2> QED
    BY Zenon, <2>1 DEF ImagesInv, ParentInv
<1> QED
  BY <1>1, ImagesInvariant, PTL

\* Every image that the store lists has its config file, unless a Delete
\* came between the two halves of a Create.
THEOREM ImagesHaveContent == Spec => []ImageHasContent
<1>1. ImagesInv => ImageHasContent
  BY Zenon DEF ImagesInv, MemoryInv, ImageHasContent
<1> QED
  BY <1>1, ImagesInvariant, PTL

\* Every child for which Conflict refuses to delete an image is an image
\* itself, unless it was deleted before its SetParent or SetParent could not
\* write its parent file.
THEOREM AllChildrenExist == Spec => []ChildrenExist
<1>1. ImagesInv => ChildrenExist
  <2> SUFFICES ASSUME ImagesInv, NEW p \in images
               PROVE  children[p] \subseteq images \cup stray
    BY Zenon DEF ChildrenExist
  <2>1. p \in Images
    BY Zenon DEF ImagesInv, TypeInv
  <2> QED
    BY Zenon, <2>1 DEF ImagesInv, ChildInv
<1> QED
  BY <1>1, ImagesInvariant, PTL
=============================================================================
