----------------------------- MODULE PushProofs -----------------------------
(***************************************************************************)
(* Proofs about module Push, for any pushes, images, concurrency limit and *)
(* number of attempts.                                                     *)
(***************************************************************************)
EXTENDS Push, TransferManagerProofs, WellFoundedInduction

\* The call of Transfer for the descriptor at place i of the image.
CallOf(p, i) == <<p, tag[p], Image(p)[i]>>

\* x is the call for one of the uploads of the current image.
Asked(p, x) == \E i \in Uploads(p) : x = CallOf(p, i)

\* The states of a call that has not returned a watcher.
Looking == {"calling", "checking", "detaching", "awaiting"}

\* What the upload transfers are: a call looks up and watches transfers of its
\* own layer, and an upload that ended without an error left its layer in the
\* registry.
UploadInv ==
    /\ \A c \in Calls : key[c] = LayerOf(c)
    /\ \A c \in Calls :
          pc[c] \in {"checking", "watching"} => LayerOf(at[c]) = LayerOf(c)
    /\ \A x \in Calls : doFunc[x] # "none" => at[x] = x
    /\ \A x \in Calls : Done(x) /\ err[x] = "nil" => LayerOf(x) \in remote
    /\ \A x \in Calls : ~Done(x) => retries[x] < maxUploadAttempts

\* The transfer of the call for place i has ended, and the registry has the layer.
Uploaded(p, i) == /\ at[CallOf(p, i)] \in Calls
                  /\ Done(at[CallOf(p, i)])
                  /\ Image(p)[i] \in remote

\* The loops of Upload are at an upload of a tag that the push has.
PlaceInv(p) == tag[p] <= Len(images[p]) /\ idx[p] \in Uploads(p)

\* The calls for later tags, and for layers the image does not have, are not
\* made.  The transfers that calls for earlier tags created have ended.
TagsInv(p) ==
    /\ \A x \in Calls : Owner(x) = p /\ x[2] > tag[p] => pc[x] = "calling"
    /\ ppc[p] # "ended" => \A x \in Calls : Owner(x) = p =>
          /\ x[2] < tag[p] => doFunc[x] \in {"none", "finished"}
          /\ x[2] = tag[p] /\ ~Asked(p, x) => pc[x] = "calling"

\* The first loop: the uploads before idx are watched, those after it not asked.
SubmitInv(p) == ppc[p] = "submit" => \A i \in Uploads(p) :
    /\ i < idx[p] => pc[CallOf(p, i)] = "watching"
    /\ i = idx[p] => pc[CallOf(p, i)] \in Looking
    /\ i > idx[p] => pc[CallOf(p, i)] = "calling"

\* The second loop: the uploads before idx have ended without an error.
WaitInv(p) == ppc[p] = "wait" => \A i \in Uploads(p) :
    /\ pc[CallOf(p, i)] = "watching"
    /\ i < idx[p] => Uploaded(p, i)

\* The deferred releases, from the last upload down to the first.
UnwindInv(p) == ppc[p] = "unwind" => \A i \in Uploads(p) :
    /\ i <= idx[p] => pc[CallOf(p, i)] = "watching"
    /\ i > idx[p] => pc[CallOf(p, i)] = "returned"
    /\ result[p] = "nil" => Uploaded(p, i)

\* Upload has returned nil.
ManifestInv(p) == ppc[p] = "manifest" => \A i \in Uploads(p) : Uploaded(p, i)

\* The calls of a push and the transfers they have, by the loop it is in.
CallsInv(p) == /\ PlaceInv(p)
               /\ TagsInv(p)
               /\ SubmitInv(p)
               /\ WaitInv(p)
               /\ UnwindInv(p)
               /\ ManifestInv(p)

\* The inductive invariant of a system of pushes.
PushInv == /\ IInv
           /\ PushTypeOK
           /\ UploadInv
           /\ EntriesTrue
           /\ \A p \in Pushes : CallsInv(p)

-----------------------------------------------------------------------------

\* The image that a push pushes is a list of layers, and its first descriptor
\* is an upload.
LEMMA ImageFacts ==
    ASSUME PushTypeOK, NEW p \in Pushes, tag[p] <= Len(images[p])
    PROVE  /\ tag[p] \in 1..Len(images[p])
           /\ tag[p] \in 1..maxTags
           /\ Image(p) \in Seq(Layers)
           /\ Image(p) # << >>
           /\ DOMAIN Image(p) = 1..Len(Image(p))
           /\ Uploads(p) \subseteq Nat
           /\ 1 \in Uploads(p)
<1>1. tag[p] \in 1..maxTags /\ maxTags \in Nat
  BY Zenon, PushAssumption DEF PushTypeOK
<1>2. Len(images[p]) \in 1..maxTags
  BY Zenon, PushAssumption
<1>3. tag[p] \in 1..Len(images[p])
  BY <1>1, <1>2
<1>4. Image(p) \in Seq(Layers) /\ Image(p) # << >>
  BY Zenon, <1>3, PushAssumption DEF Image
<1>5. DOMAIN Image(p) = 1..Len(Image(p)) /\ Len(Image(p)) \in Nat /\ Len(Image(p)) # 0
  BY <1>4
<1>6. 1 \in DOMAIN Image(p) /\ 1..(1 - 1) = {}
  BY <1>5
<1>7. 1 \in Uploads(p)
  BY Zenon, <1>6 DEF Uploads
<1>8. Uploads(p) \subseteq Nat
  BY <1>5 DEF Uploads
<1>9. QED
  BY Zenon, <1>1, <1>3, <1>4, <1>5, <1>7, <1>8

\* The call for an upload: whose it is, for which tag and for which layer.
LEMMA CallFacts ==
    ASSUME PushTypeOK, NEW p \in Pushes, tag[p] <= Len(images[p]),
           NEW i \in Uploads(p)
    PROVE  /\ CallOf(p, i) \in Calls
           /\ Owner(CallOf(p, i)) = p
           /\ CallOf(p, i)[2] = tag[p]
           /\ LayerOf(CallOf(p, i)) = Image(p)[i]
<1>1. Image(p)[i] \in Layers /\ tag[p] \in 1..maxTags
  BY ImageFacts DEF Uploads
<1>2. QED
  BY Zenon, <1>1, PushAssumption DEF CallOf, Owner, LayerOf

\* Two uploads of an image are made by two calls (dedupDescriptors).
LEMMA CallsDiffer ==
    ASSUME PushTypeOK, NEW p \in Pushes, tag[p] <= Len(images[p]),
           NEW i \in Uploads(p), NEW j \in Uploads(p), CallOf(p, i) = CallOf(p, j)
    PROVE  i = j
<1>1. Image(p)[i] = Image(p)[j]
  BY Zenon DEF CallOf
<1>2. DOMAIN Image(p) = 1..Len(Image(p))
  BY Zenon, ImageFacts
<1>3. i \in 1..Len(Image(p)) /\ j \in 1..Len(Image(p))
  BY Zenon, <1>2 DEF Uploads
<1>4. ~(i < j) /\ ~(j < i)
  <2>1. ASSUME i < j PROVE FALSE
    <3>1. i \in 1..(j - 1)
      BY <1>3, <2>1
    <3>2. QED
      BY Zenon, <1>1, <3>1 DEF Uploads
  <2>2. ASSUME j < i PROVE FALSE
    <3>1. j \in 1..(i - 1)
      BY <1>3, <2>2
    <3>2. QED
      BY Zenon, <1>1, <3>1 DEF Uploads
  <2>3. QED
    BY Zenon, <2>1, <2>2
<1>5. QED
  BY <1>3, <1>4

\* Every layer of the image has an upload: the one at its first place.
LEMMA EveryLayerHasUpload ==
    ASSUME PushTypeOK, NEW p \in Pushes, tag[p] <= Len(images[p]),
           NEW n \in DOMAIN Image(p)
    PROVE  \E i \in Uploads(p) : Image(p)[i] = Image(p)[n]
<1> DEFINE Same == {m \in Nat : m \in DOMAIN Image(p) /\ Image(p)[m] = Image(p)[n]}
<1>1. DOMAIN Image(p) = 1..Len(Image(p))
  BY Zenon, ImageFacts
<1>2. Same \subseteq Nat /\ n \in Same
  BY <1>1
<1>3. IsWellFoundedOn(OpToRel(<, Nat), Nat)
  BY Zenon, NatLessThanWellFounded
<1>4. PICK m \in Same : \A j \in Same : <<j, m>> \notin OpToRel(<, Nat)
  BY Zenon, <1>2, <1>3, WFMin
<1>5. \A j \in Same : ~(j < m)
  BY Zenon, <1>4 DEF OpToRel
<1>6. \A j \in 1..(m - 1) : Image(p)[j] # Image(p)[m]
  <2>1. SUFFICES ASSUME NEW j \in 1..(m - 1), Image(p)[j] = Image(p)[m] PROVE FALSE
    BY Zenon
  <2>2. j \in Nat /\ j \in DOMAIN Image(p) /\ j < m
    BY <1>1, <2>1
  <2>3. j \in Same
    BY Zenon, <2>1, <2>2
  <2>4. QED
    BY Zenon, <1>5, <2>2, <2>3
<1>7. QED
  BY Zenon, <1>6 DEF Uploads

-----------------------------------------------------------------------------

\* A call that looks for its transfer has not created one.
LEMMA LookingHasNone ==
    ASSUME IInv, NEW c \in Calls, pc[c] \in Looking
    PROVE  doFunc[c] = "none" /\ mgr[c] = "none"
BY Zenon DEF IInv, WatchInv, LifeInv, Looking

\* What a step of Transfer leaves alone, and where it leaves the call.
LEMMA CallStepEffect ==
    ASSUME IInv, NEW c \in Calls, CallStep(c)
    PROVE  /\ pc[c] \in Looking
           /\ pc'[c] \in Looking \cup {"watching"}
           /\ key' = key
           /\ \A d \in Calls \ {c} :
                 pc'[d] = pc[d] /\ at'[d] = at[d] /\ doFunc'[d] = doFunc[d]
           /\ doFunc[c] = "none"
           /\ doFunc'[c] \in {"none", "waiting"}
           /\ doFunc'[c] = "waiting" => at'[c] = c
<1>1. pc[c] \in Looking
  BY Zenon DEF CallStep, TransferNew, WatchTracked, JoinTracked, LeaveCancelled, Unlock,
         RetryAfterDone, Looking
<1>2. doFunc[c] = "none"
  BY Zenon, <1>1, LookingHasNone
<1>3. /\ pc \in [Calls -> CallStates] /\ at \in [Calls -> Calls \cup {None}]
      /\ doFunc \in [Calls -> DoStates]
  BY Zenon DEF IInv, TypeOK
<1>4. CASE TransferNew(c)
  BY Zenon, <1>1, <1>2, <1>3, <1>4 DEF TransferNew
<1>5. CASE WatchTracked(c)
  BY Zenon, <1>1, <1>2, <1>3, <1>5 DEF WatchTracked, workVars, Looking
<1>6. CASE JoinTracked(c)
  BY Zenon, <1>1, <1>2, <1>3, <1>6 DEF JoinTracked, workVars, lifeVars
<1>7. CASE LeaveCancelled(c)
  BY Zenon, <1>1, <1>2, <1>3, <1>7 DEF LeaveCancelled, workVars, Looking
<1>8. CASE Unlock(c)
  BY Zenon, <1>1, <1>2, <1>3, <1>8 DEF Unlock, workVars, lifeVars, Looking
<1>9. CASE RetryAfterDone(c)
  BY Zenon, <1>1, <1>2, <1>3, <1>9 DEF RetryAfterDone, workVars, lifeVars, tmVars, Looking
<1>10. QED
  BY Zenon, <1>4, <1>5, <1>6, <1>7, <1>8, <1>9 DEF CallStep

\* The transfer that a call finds or creates is one of its layer.
LEMMA CallStepLayer ==
    ASSUME IInv, UploadInv, NEW c \in Calls, CallStep(c),
           pc'[c] \in {"checking", "watching"}
    PROVE  LayerOf(at'[c]) = LayerOf(c)
<1>1. /\ pc \in [Calls -> CallStates] /\ at \in [Calls -> Calls \cup {None}]
      /\ key \in [Calls -> Keys] /\ transfers \in [Keys -> Calls \cup {None}]
  BY Zenon DEF IInv, TypeOK
<1>2. CASE TransferNew(c)
  BY Zenon, <1>1, <1>2 DEF TransferNew
<1>3. CASE WatchTracked(c)
  <2>1. at'[c] = transfers[key[c]] /\ transfers[key[c]] # None /\ key[c] \in Keys
    BY Zenon, <1>1, <1>3 DEF WatchTracked
  <2>2. at'[c] \in Calls /\ key[at'[c]] = key[c]
    BY Zenon, <1>1, <2>1 DEF IInv, MapInv
  <2>3. QED
    BY Zenon, <2>2 DEF UploadInv
<1>4. CASE JoinTracked(c)
  BY Zenon, <1>1, <1>4 DEF JoinTracked, UploadInv
<1>5. CASE LeaveCancelled(c)
  BY Zenon, <1>1, <1>5 DEF LeaveCancelled
<1>6. CASE Unlock(c)
  BY Zenon, <1>1, <1>6 DEF Unlock
<1>7. CASE RetryAfterDone(c)
  BY Zenon, <1>1, <1>7 DEF RetryAfterDone
<1>8. QED
  BY Zenon, <1>2, <1>3, <1>4, <1>5, <1>6, <1>7 DEF CallStep

\* What the Release of a watcher leaves alone.
LEMMA ReleaseEffect ==
    ASSUME IInv, NEW c \in Calls, Release(c)
    PROVE  /\ pc[c] = "watching"
           /\ pc' = [pc EXCEPT ![c] = "returned"]
           /\ key' = key /\ at' = at /\ doFunc' = doFunc
BY Zenon DEF Release, workVars

-----------------------------------------------------------------------------

\* A step that leaves push p where it is and its calls as they are: transfers
\* may end, and the registry may get layers.
Quiet(p) ==
    /\ tag'[p] = tag[p] /\ ppc'[p] = ppc[p] /\ idx'[p] = idx[p]
    /\ result'[p] = result[p]
    /\ \A x \in Calls : Owner(x) = p =>
          /\ pc'[x] = pc[x] /\ at'[x] = at[x]
          /\ doFunc[x] = "none" => doFunc'[x] = "none"
    /\ \A x \in Calls : Done(x) => doFunc'[x] = "finished"
    /\ remote \subseteq remote'

\* A push that stays at its tag has the same uploads and calls.
LEMMA SameTag ==
    ASSUME NEW p \in Pushes, tag'[p] = tag[p]
    PROVE  /\ Image(p)' = Image(p)
           /\ Uploads(p)' = Uploads(p)
           /\ \A i : CallOf(p, i)' = CallOf(p, i)
           /\ \A x : Asked(p, x)' <=> Asked(p, x)
<1>1. Image(p)' = Image(p)
  BY Zenon DEF Image
<1>2. Uploads(p)' = Uploads(p)
  BY Zenon, <1>1 DEF Uploads
<1>3. \A i : CallOf(p, i)' = CallOf(p, i)
  BY Zenon, <1>1 DEF CallOf
<1>4. \A x : Asked(p, x)' <=> Asked(p, x)
  BY Zenon, <1>2, <1>3 DEF Asked
<1>5. QED
  BY Zenon, <1>1, <1>2, <1>3, <1>4

\* What is uploaded stays uploaded, as long as the call keeps its transfer.
LEMMA StaysUploaded ==
    ASSUME NEW p \in Pushes, tag'[p] = tag[p], NEW i \in Uploads(p), Uploaded(p, i),
           at'[CallOf(p, i)] = at[CallOf(p, i)],
           \A x \in Calls : Done(x) => doFunc'[x] = "finished",
           remote \subseteq remote'
    PROVE  Uploaded(p, i)'
<1>1. CallOf(p, i)' = CallOf(p, i) /\ Image(p)' = Image(p)
  BY Zenon, SameTag
<1>2. QED
  BY Zenon, <1>1 DEF Uploaded, Done

\* Steps of others do not disturb what is known of a push.
LEMMA QuietCalls ==
    ASSUME PushTypeOK, NEW p \in Pushes, CallsInv(p), Quiet(p)
    PROVE  CallsInv(p)'
<1>1. /\ tag'[p] = tag[p] /\ ppc'[p] = ppc[p] /\ idx'[p] = idx[p]
      /\ result'[p] = result[p]
  BY Zenon DEF Quiet
<1>2. /\ Uploads(p)' = Uploads(p)
      /\ \A i : CallOf(p, i)' = CallOf(p, i)
      /\ \A x : Asked(p, x)' <=> Asked(p, x)
  BY Zenon, <1>1, SameTag
<1>3. tag[p] <= Len(images[p])
  BY Zenon DEF CallsInv, PlaceInv
<1>4. \A i \in Uploads(p) : CallOf(p, i) \in Calls /\ Owner(CallOf(p, i)) = p
  BY Zenon, <1>3, CallFacts
<1>5. \A i \in Uploads(p) : /\ pc'[CallOf(p, i)] = pc[CallOf(p, i)]
                            /\ at'[CallOf(p, i)] = at[CallOf(p, i)]
  BY Zenon, <1>4 DEF Quiet
<1>6. \A i \in Uploads(p) : Uploaded(p, i) => Uploaded(p, i)'
  BY Zenon, <1>1, <1>5, StaysUploaded DEF Quiet
<1>7. \A x \in Calls : Owner(x) = p =>
         /\ pc'[x] = pc[x]
         /\ doFunc[x] \in {"none", "finished"} => doFunc'[x] \in {"none", "finished"}
  BY Zenon DEF Quiet, Done
<1>8. /\ PlaceInv(p) /\ TagsInv(p) /\ SubmitInv(p) /\ WaitInv(p)
      /\ UnwindInv(p) /\ ManifestInv(p)
  BY Zenon DEF CallsInv
<1>9. PlaceInv(p)'
  BY Zenon, <1>1, <1>2, <1>8 DEF PlaceInv
<1>10. TagsInv(p)'
  BY Zenon, <1>1, <1>2, <1>7, <1>8 DEF TagsInv, Owner
<1>11. SubmitInv(p)'
  <2>1. SUFFICES ASSUME ppc[p] = "submit", NEW i \in Uploads(p)
                 PROVE  /\ i < idx[p] => pc'[CallOf(p, i)] = "watching"
                        /\ i = idx[p] => pc'[CallOf(p, i)] \in Looking
                        /\ i > idx[p] => pc'[CallOf(p, i)] = "calling"
    BY <1>1, <1>2, Zenon DEF SubmitInv
  <2>2. QED
    BY <1>5, <1>8, <2>1, Zenon DEF SubmitInv
<1>12. WaitInv(p)'
  BY Zenon, <1>1, <1>2, <1>5, <1>6, <1>8 DEF WaitInv
<1>13. UnwindInv(p)'
  BY Zenon, <1>1, <1>2, <1>5, <1>6, <1>8 DEF UnwindInv
<1>14. ManifestInv(p)'
  BY Zenon, <1>1, <1>2, <1>6, <1>8 DEF ManifestInv
<1>15. QED
  BY <1>9, <1>10, <1>11, <1>12, <1>13, <1>14, Zenon DEF CallsInv

-----------------------------------------------------------------------------

\* The facts about push p that its own steps use.
LEMMA OwnFacts ==
    ASSUME PushInv, NEW p \in Pushes
    PROVE  /\ PushTypeOK /\ CallsInv(p)
           /\ tag[p] <= Len(images[p])
           /\ tag[p] \in Nat
           /\ Uploads(p) \subseteq Nat
           /\ idx[p] \in Uploads(p)
           /\ CallAt(p) = CallOf(p, idx[p])
           /\ CallAt(p) \in Calls
           /\ Owner(CallAt(p)) = p
           /\ CallAt(p)[2] = tag[p]
           /\ Asked(p, CallAt(p))
           /\ \A i \in Uploads(p) : CallOf(p, i) \in Calls
           /\ \A i \in Uploads(p) : CallOf(p, i) = CallAt(p) => i = idx[p]
<1>1. PushTypeOK /\ CallsInv(p)
  BY Zenon DEF PushInv
<1>2. tag[p] <= Len(images[p]) /\ idx[p] \in Uploads(p)
  BY Zenon, <1>1 DEF CallsInv, PlaceInv
<1>3. Uploads(p) \subseteq Nat /\ tag[p] \in Nat
  BY <1>1, <1>2, ImageFacts
<1>4. CallAt(p) = CallOf(p, idx[p])
  BY Zenon DEF CallAt, CallOf
<1>5. CallAt(p) \in Calls /\ Owner(CallAt(p)) = p /\ CallAt(p)[2] = tag[p]
  BY <1>1, <1>2, <1>4, CallFacts
<1>6. Asked(p, CallAt(p))
  BY Zenon, <1>2, <1>4 DEF Asked
<1>7. \A i \in Uploads(p) : CallOf(p, i) \in Calls
  BY Zenon, <1>1, <1>2, CallFacts
<1>8. \A i \in Uploads(p) : CallOf(p, i) = CallAt(p) => i = idx[p]
  BY Zenon, <1>1, <1>2, <1>4, CallsDiffer
<1>9. QED
  BY Zenon, <1>1, <1>2, <1>3, <1>4, <1>5, <1>6, <1>7, <1>8

\* One step of Transfer for the upload at idx: the calls for the uploads before
\* it have returned, those after it are not made yet.
LEMMA SubmitCalls ==
    ASSUME PushInv, NEW p \in Pushes, Submit(p)
    PROVE  CallsInv(p)'
<1> DEFINE c == CallAt(p)
<1>1. /\ PushTypeOK /\ CallsInv(p) /\ tag[p] <= Len(images[p]) /\ tag[p] \in Nat
      /\ Uploads(p) \subseteq Nat /\ idx[p] \in Uploads(p)
      /\ c = CallOf(p, idx[p]) /\ c \in Calls /\ Owner(c) = p /\ c[2] = tag[p]
      /\ Asked(p, c)
      /\ \A i \in Uploads(p) : CallOf(p, i) \in Calls
      /\ \A i \in Uploads(p) : CallOf(p, i) = c => i = idx[p]
  BY Zenon, OwnFacts
<1>2. ppc[p] = "submit" /\ CallStep(c) /\ tag' = tag /\ result' = result
  BY Zenon DEF Submit
<1>3. IInv
  BY Zenon DEF PushInv
<1> HIDE DEF c
<1>4. /\ pc'[c] \in Looking \cup {"watching"}
      /\ \A d \in Calls \ {c} : pc'[d] = pc[d] /\ doFunc'[d] = doFunc[d]
  BY <1>1, <1>2, <1>3, CallStepEffect
<1>5. /\ Uploads(p)' = Uploads(p)
      /\ \A i : CallOf(p, i)' = CallOf(p, i)
      /\ \A x : Asked(p, x)' <=> Asked(p, x)
  BY Zenon, <1>2, SameTag
<1>6. \/ /\ pc'[c] # "watching" /\ ppc'[p] = "submit" /\ idx'[p] = idx[p]
      \/ /\ pc'[c] = "watching" /\ ppc'[p] = "submit"
         /\ idx'[p] \in Uploads(p) /\ Follows(p, idx[p], idx'[p])
      \/ /\ pc'[c] = "watching" /\ ppc'[p] = "wait" /\ idx'[p] = 1
         /\ IsLast(p, idx[p])
  BY Zenon, <1>1, <1>2 DEF Submit, PushTypeOK, c
<1>7. idx'[p] \in Uploads(p)
  BY Zenon, <1>1, <1>6, ImageFacts
<1>8. TagsInv(p)'
  <2>1. TagsInv(p) /\ tag'[p] = tag[p]
    BY Zenon, <1>1, <1>2 DEF CallsInv
  <2>2. ASSUME NEW x \in Calls, Owner(x) = p, x[2] # tag[p] \/ ~Asked(p, x)
        PROVE  pc'[x] = pc[x] /\ doFunc'[x] = doFunc[x]
    BY Zenon, <1>1, <1>4, <2>2
  <2>3. ASSUME NEW x \in Calls, Owner(x) = p, x[2] > tag[p]
        PROVE  pc'[x] = "calling"
    <3>1. x[2] # tag[p]
      BY <1>1, <2>3
    <3>2. QED
      BY Zenon, <2>1, <2>2, <2>3, <3>1 DEF TagsInv
  <2>4. ASSUME NEW x \in Calls, Owner(x) = p, x[2] < tag[p]
        PROVE  doFunc'[x] \in {"none", "finished"}
    <3>1. x[2] # tag[p]
      BY <1>1, <2>4
    <3>2. QED
      BY Zenon, <1>2, <2>1, <2>2, <2>4, <3>1 DEF TagsInv
  <2>5. ASSUME NEW x \in Calls, Owner(x) = p, x[2] = tag[p], ~Asked(p, x)
        PROVE  pc'[x] = "calling"
    BY Zenon, <1>2, <2>1, <2>2, <2>5 DEF TagsInv
  <2>6. QED
    BY Zenon, <1>5, <2>1, <2>3, <2>4, <2>5 DEF TagsInv, Owner
<1>9. \A i \in Uploads(p) :
         /\ i < idx[p] => pc'[CallOf(p, i)] = "watching"
         /\ i = idx[p] => pc'[CallOf(p, i)] = pc'[c]
         /\ i > idx[p] => pc'[CallOf(p, i)] = "calling"
  BY Zenon, <1>1, <1>2, <1>4 DEF CallsInv, SubmitInv
<1>10. SubmitInv(p)'
  <2>1. SUFFICES ASSUME ppc'[p] = "submit", NEW i \in Uploads(p)
                 PROVE  /\ i < idx'[p] => pc'[CallOf(p, i)] = "watching"
                        /\ i = idx'[p] => pc'[CallOf(p, i)] \in Looking
                        /\ i > idx'[p] => pc'[CallOf(p, i)] = "calling"
    BY Zenon, <1>5 DEF SubmitInv
  <2>2. i \in Nat /\ idx[p] \in Nat /\ idx'[p] \in Nat /\ "calling" \in Looking
    BY Zenon, <1>1, <1>7 DEF Looking
  <2>3. CASE pc'[c] # "watching" /\ idx'[p] = idx[p]
    BY Zenon, <1>4, <1>9, <2>3
  <2>4. CASE pc'[c] = "watching" /\ Follows(p, idx[p], idx'[p])
    BY <1>9, <2>2, <2>4 DEF Follows
  <2>5. QED
    BY Zenon, <1>6, <2>1, <2>3, <2>4
<1>11. WaitInv(p)'
  <2>1. SUFFICES ASSUME ppc'[p] = "wait", NEW i \in Uploads(p)
                 PROVE  pc'[CallOf(p, i)] = "watching" /\ ~(i < idx'[p])
    BY Zenon, <1>5 DEF WaitInv
  <2>2. pc'[c] = "watching" /\ idx'[p] = 1 /\ i <= idx[p]
    BY Zenon, <1>6, <2>1 DEF IsLast
  <2>3. i \in Nat /\ idx[p] \in Nat /\ i # 0
    BY SMTT(30), <1>1, ImageFacts DEF Uploads
  <2>4. QED
    BY <1>9, <2>2, <2>3
<1>12. UnwindInv(p)' /\ ManifestInv(p)'
  BY Zenon, <1>6 DEF UnwindInv, ManifestInv
<1>13. PlaceInv(p)'
  BY Zenon, <1>1, <1>2, <1>5, <1>7 DEF PlaceInv
<1>14. QED
  BY Zenon, <1>8, <1>10, <1>11, <1>12, <1>13 DEF CallsInv

\* An upload that ended without an error has put its layer into the registry.
LEMMA UploadAtDone ==
    ASSUME PushInv, NEW p \in Pushes, ppc[p] = "wait", Done(UploadAt(p)),
           err[UploadAt(p)] = "nil"
    PROVE  Uploaded(p, idx[p])
<1> DEFINE c == CallAt(p)
<1>1. /\ PushTypeOK /\ CallsInv(p) /\ tag[p] <= Len(images[p])
      /\ idx[p] \in Uploads(p) /\ c = CallOf(p, idx[p]) /\ c \in Calls
  BY Zenon, OwnFacts
<1>2. pc[c] = "watching"
  BY Zenon, <1>1 DEF CallsInv, WaitInv
<1>3. at[c] \in Calls
  BY Zenon, <1>1, <1>2 DEF PushInv, IInv, WatchInv
<1>4. LayerOf(at[c]) = LayerOf(c) /\ LayerOf(at[c]) \in remote
  BY Zenon, <1>1, <1>2, <1>3 DEF PushInv, UploadInv, UploadAt
<1>5. LayerOf(c) = Image(p)[idx[p]]
  BY SMTT(30), <1>1, CallFacts
<1>6. QED
  BY Zenon, <1>1, <1>3, <1>4, <1>5 DEF Uploaded, UploadAt

\* A step that only moves push p within Upload leaves the calls as they are.
LEMMA WaitCalls ==
    ASSUME PushInv, NEW p \in Pushes, ppc[p] = "wait",
           UNCHANGED <<vars, tag, remote>>, idx'[p] \in Uploads(p),
           \/ /\ ppc'[p] = "wait"
              /\ \A i \in Uploads(p) : i < idx'[p] => Uploaded(p, i)
           \/ /\ ppc'[p] = "unwind" /\ IsLast(p, idx'[p])
              /\ result'[p] = "nil" => \A i \in Uploads(p) : Uploaded(p, i)
    PROVE  CallsInv(p)'
<1>1. /\ PushTypeOK /\ CallsInv(p) /\ tag[p] <= Len(images[p])
      /\ Uploads(p) \subseteq Nat
  BY Zenon, OwnFacts
<1>2. pc' = pc /\ at' = at /\ doFunc' = doFunc /\ tag'[p] = tag[p] /\ remote' = remote
  BY Zenon DEF vars, callVars, workVars
<1>3. /\ Uploads(p)' = Uploads(p)
      /\ \A i : CallOf(p, i)' = CallOf(p, i)
      /\ \A x : Asked(p, x)' <=> Asked(p, x)
  BY Zenon, <1>2, SameTag
<1>4. \A i \in Uploads(p) : Uploaded(p, i) => Uploaded(p, i)'
  BY Zenon, <1>2, StaysUploaded DEF Done
<1>5. \A i \in Uploads(p) : pc'[CallOf(p, i)] = "watching"
  BY Zenon, <1>1, <1>2 DEF CallsInv, WaitInv
<1>6. ppc'[p] = "unwind" => \A i \in Uploads(p) : i <= idx'[p] /\ ~(i > idx'[p])
  <2>1. SUFFICES ASSUME ppc'[p] = "unwind", NEW i \in Uploads(p)
                 PROVE  i <= idx'[p] /\ ~(i > idx'[p])
    BY Zenon
  <2>2. i <= idx'[p]
    BY Zenon, <2>1 DEF IsLast
  <2>3. i \in Nat /\ idx'[p] \in Nat
    BY Zenon, <1>1
  <2>4. QED
    BY <2>2, <2>3
<1>7. PlaceInv(p)'
  BY Zenon, <1>1, <1>2, <1>3 DEF PlaceInv
<1>8. TagsInv(p)'
  BY Zenon, <1>1, <1>2, <1>3 DEF CallsInv, TagsInv, Owner
<1>9. WaitInv(p)'
  BY Zenon, <1>3, <1>4, <1>5 DEF WaitInv
<1>10. UnwindInv(p)'
  BY Zenon, <1>3, <1>4, <1>5, <1>6 DEF UnwindInv
<1>11. SubmitInv(p)' /\ ManifestInv(p)'
  BY Zenon DEF SubmitInv, ManifestInv
<1>12. QED
  BY Zenon, <1>7, <1>8, <1>9, <1>10, <1>11 DEF CallsInv

\* The wait for an upload is over, or is given up.
LEMMA AwaitCalls ==
    ASSUME PushInv, NEW p \in Pushes, AwaitDone(p) \/ AwaitCancelled(p)
    PROVE  CallsInv(p)'
<1>1. /\ PushTypeOK /\ CallsInv(p) /\ idx[p] \in Uploads(p) /\ Uploads(p) \subseteq Nat
  BY Zenon, OwnFacts
<1>2. ppc[p] = "wait"
  BY Zenon DEF AwaitDone, AwaitCancelled
<1>3. \A i \in Uploads(p) : i < idx[p] => Uploaded(p, i)
  BY Zenon, <1>1, <1>2 DEF CallsInv, WaitInv
<1>4. ASSUME NEW r \in Results, Return(p, r),
             r = "nil" => \A i \in Uploads(p) : Uploaded(p, i)
      PROVE  CallsInv(p)'
  <2>1. /\ ppc'[p] = "unwind" /\ result'[p] = r
        /\ idx'[p] \in Uploads(p) /\ IsLast(p, idx'[p])
        /\ UNCHANGED <<vars, tag, remote>>
    BY Zenon, <1>1, <1>4 DEF Return, PushTypeOK
  <2>2. QED
    BY Zenon, <1>2, <1>4, <2>1, WaitCalls
<1>5. CASE AwaitCancelled(p)
  BY Zenon, <1>4, <1>5 DEF AwaitCancelled, Results
<1>6. CASE AwaitDone(p) /\ err[UploadAt(p)] # "nil"
  <2>1. Return(p, err[UploadAt(p)])
    BY Zenon, <1>6 DEF AwaitDone
  <2>2. err[UploadAt(p)] \in Results
    <3>1. CallAt(p) \in Calls /\ pc[CallAt(p)] = "watching"
      <4>1. /\ CallsInv(p) /\ idx[p] \in Uploads(p) /\ CallAt(p) = CallOf(p, idx[p])
            /\ CallAt(p) \in Calls
        BY Zenon, OwnFacts
      <4>2. QED
        BY Zenon, <1>2, <4>1 DEF CallsInv, WaitInv
    <3>2. UploadAt(p) \in Calls
      BY Zenon, <3>1 DEF PushInv, IInv, WatchInv, UploadAt
    <3>3. QED
      BY Zenon, <1>1, <3>2 DEF PushTypeOK
  <2>3. QED
    BY Zenon, <1>4, <1>6, <2>1, <2>2
<1>7. CASE AwaitDone(p) /\ err[UploadAt(p)] = "nil"
  <2>1. Advance(p) /\ Done(UploadAt(p))
    BY Zenon, <1>7 DEF AwaitDone
  <2>2. Uploaded(p, idx[p])
    BY Zenon, <1>2, <1>7, <2>1, UploadAtDone
  <2>3. \A i \in Uploads(p) : i <= idx[p] => Uploaded(p, i)
    BY <1>1, <1>3, <2>2
  <2>4. CASE IsLast(p, idx[p]) /\ Return(p, "nil")
    BY Zenon, <1>4, <2>3, <2>4 DEF IsLast, Results
  <2>5. ASSUME NEW n \in Uploads(p), Follows(p, idx[p], n),
               idx' = [idx EXCEPT ![p] = n], UNCHANGED <<vars, ppc, tag, remote>>
        PROVE  CallsInv(p)'
    <3>1. idx'[p] = n /\ ppc'[p] = "wait"
      BY Zenon, <1>1, <1>2, <2>5 DEF PushTypeOK
    <3>2. \A i \in Uploads(p) : i < n => i <= idx[p]
      BY <1>1, <2>5 DEF Follows
    <3>3. QED
      BY Zenon, <1>2, <2>3, <2>5, <3>1, <3>2, WaitCalls
  <2>6. QED
    BY Zenon, <2>1, <2>4, <2>5 DEF Advance
<1>8. QED
  BY Zenon, <1>5, <1>6, <1>7

\* A deferred Release: the uploads are released from the last to the first.
LEMMA UnwindCalls ==
    ASSUME PushInv, NEW p \in Pushes, Unwind(p)
    PROVE  CallsInv(p)'
<1> DEFINE c == CallAt(p)
<1>1. /\ PushTypeOK /\ CallsInv(p) /\ tag[p] <= Len(images[p]) /\ tag[p] \in Nat
      /\ Uploads(p) \subseteq Nat /\ idx[p] \in Uploads(p)
      /\ c = CallOf(p, idx[p]) /\ c \in Calls /\ Owner(c) = p /\ c[2] = tag[p]
      /\ Asked(p, c)
      /\ \A i \in Uploads(p) : CallOf(p, i) \in Calls
      /\ \A i \in Uploads(p) : CallOf(p, i) = c => i = idx[p]
  BY Zenon, OwnFacts
<1>2. /\ ppc[p] = "unwind" /\ Release(c)
      /\ tag'[p] = tag[p] /\ result' = result /\ remote' = remote
  BY Zenon DEF Unwind
<1>3. IInv
  BY Zenon DEF PushInv
<1> HIDE DEF c
<1>4. /\ pc' = [pc EXCEPT ![c] = "returned"] /\ at' = at /\ doFunc' = doFunc
      /\ pc \in [Calls -> CallStates]
  BY Zenon, <1>1, <1>2, <1>3, ReleaseEffect DEF IInv, TypeOK
<1>5. pc'[c] = "returned" /\ \A d \in Calls \ {c} : pc'[d] = pc[d]
  BY Zenon, <1>1, <1>4
<1>6. /\ Image(p)' = Image(p)
      /\ Uploads(p)' = Uploads(p)
      /\ \A i : CallOf(p, i)' = CallOf(p, i)
      /\ \A x : Asked(p, x)' <=> Asked(p, x)
  BY Zenon, <1>2, SameTag
<1>7. \A i \in Uploads(p) : Uploaded(p, i) => Uploaded(p, i)'
  BY Zenon, <1>2, <1>4, StaysUploaded DEF Done
<1>8. \/ /\ ppc'[p] = "unwind" /\ idx'[p] \in Uploads(p)
         /\ Follows(p, idx'[p], idx[p])
      \/ /\ ppc'[p] = (IF result[p] = "nil" THEN "manifest" ELSE "ended")
         /\ idx'[p] = idx[p]
  BY Zenon, <1>1, <1>2 DEF Unwind, PushTypeOK
<1>9. idx'[p] \in Uploads(p) /\ result'[p] = result[p]
  BY Zenon, <1>1, <1>2, <1>8
<1>10. PlaceInv(p)'
  BY Zenon, <1>1, <1>2, <1>6, <1>9 DEF PlaceInv
<1>11. TagsInv(p)'
  <2>1. TagsInv(p)
    BY Zenon, <1>1 DEF CallsInv
  <2>2. ASSUME NEW x \in Calls, Owner(x) = p, x[2] # tag[p] \/ ~Asked(p, x)
        PROVE  pc'[x] = pc[x]
    BY Zenon, <1>1, <1>5, <2>2
  <2>3. ASSUME NEW x \in Calls, Owner(x) = p, x[2] > tag[p]
        PROVE  pc'[x] = "calling"
    <3>1. x[2] # tag[p]
      BY <1>1, <2>3
    <3>2. QED
      BY Zenon, <2>1, <2>2, <2>3, <3>1 DEF TagsInv
  <2>4. ASSUME NEW x \in Calls, Owner(x) = p, x[2] < tag[p]
        PROVE  doFunc'[x] \in {"none", "finished"}
    BY Zenon, <1>2, <1>4, <2>1, <2>4 DEF TagsInv
  <2>5. ASSUME NEW x \in Calls, Owner(x) = p, x[2] = tag[p], ~Asked(p, x)
        PROVE  pc'[x] = "calling"
    BY Zenon, <1>2, <2>1, <2>2, <2>5 DEF TagsInv
  <2>6. QED
    BY Zenon, <1>2, <1>6, <2>3, <2>4, <2>5 DEF TagsInv, Owner
<1>12. ASSUME NEW i \in Uploads(p)
       PROVE  /\ i < idx[p] => pc'[CallOf(p, i)] = "watching"
              /\ i >= idx[p] => pc'[CallOf(p, i)] = "returned"
  <2>1. i \in Nat /\ idx[p] \in Nat
    BY Zenon, <1>1
  <2>2. CASE i = idx[p]
    <3>1. ~(i < idx[p]) /\ CallOf(p, i) = c
      BY SMTT(30), <1>1, <2>1, <2>2
    <3>2. QED
      BY Zenon, <1>5, <3>1
  <2>3. CASE i < idx[p]
    <3>1. ~(i >= idx[p]) /\ i <= idx[p] /\ i # idx[p]
      BY <2>1, <2>3
    <3>2. pc[CallOf(p, i)] = "watching"
      BY Zenon, <1>1, <1>2, <3>1 DEF CallsInv, UnwindInv
    <3>3. QED
      BY Zenon, <1>1, <1>5, <3>1, <3>2
  <2>4. CASE i > idx[p]
    <3>1. ~(i < idx[p]) /\ i # idx[p]
      BY <2>1, <2>4
    <3>2. pc[CallOf(p, i)] = "returned"
      BY Zenon, <1>1, <1>2, <2>4 DEF CallsInv, UnwindInv
    <3>3. QED
      BY Zenon, <1>1, <1>5, <3>1, <3>2
  <2>5. QED
    BY <2>1, <2>2, <2>3, <2>4
<1>13. ASSUME result[p] = "nil", NEW i \in Uploads(p) PROVE Uploaded(p, i)'
  BY Zenon, <1>1, <1>2, <1>7, <1>13 DEF CallsInv, UnwindInv
<1>14. UnwindInv(p)'
  <2>1. SUFFICES ASSUME ppc'[p] = "unwind", NEW i \in Uploads(p)
                 PROVE  /\ i <= idx'[p] => pc'[CallOf(p, i)] = "watching"
                        /\ i > idx'[p] => pc'[CallOf(p, i)] = "returned"
    BY Zenon, <1>6, <1>9, <1>13 DEF UnwindInv
  <2>2. idx'[p] < idx[p] /\ (i <= idx'[p] \/ idx[p] <= i)
    BY Zenon, <1>8, <2>1 DEF Follows
  <2>3. i \in Nat /\ idx[p] \in Nat /\ idx'[p] \in Nat
    BY Zenon, <1>1, <1>9
  <2>4. (i <= idx'[p] => i < idx[p]) /\ (i > idx'[p] => i >= idx[p])
    BY <2>2, <2>3
  <2>5. QED
    BY Zenon, <1>12, <2>4
<1>15. ManifestInv(p)'
  BY Zenon, <1>6, <1>8, <1>13 DEF ManifestInv
<1>16. SubmitInv(p)' /\ WaitInv(p)'
  BY Zenon, <1>8 DEF SubmitInv, WaitInv
<1>17. QED
  BY Zenon, <1>10, <1>11, <1>14, <1>15, <1>16 DEF CallsInv

\* When the manifest is built, the transfers that the calls of the push created
\* have ended: the push waited for those it watched, and had no others.
LEMMA OwnUploadsEnded ==
    ASSUME PushInv, NEW p \in Pushes, ppc[p] = "manifest",
           NEW x \in Calls, Owner(x) = p
    PROVE  doFunc[x] \in {"none", "finished"}
<1>1. PushTypeOK /\ CallsInv(p) /\ tag[p] \in Nat /\ IInv /\ UploadInv
  BY Zenon, OwnFacts DEF PushInv
<1>2. pc[x] = "calling" => doFunc[x] = "none"
  BY Zenon, <1>1, LookingHasNone DEF Looking
<1>3. x[2] \in Nat
  BY PushAssumption
<1>4. CASE x[2] < tag[p]
  BY Zenon, <1>1, <1>4 DEF CallsInv, TagsInv
<1>5. CASE x[2] > tag[p]
  BY Zenon, <1>1, <1>2, <1>5 DEF CallsInv, TagsInv
<1>6. CASE x[2] = tag[p] /\ ~Asked(p, x)
  BY Zenon, <1>1, <1>2, <1>6 DEF CallsInv, TagsInv
<1>7. CASE Asked(p, x)
  <2>1. PICK i \in Uploads(p) : x = CallOf(p, i)
    BY Zenon, <1>7 DEF Asked
  <2>2. Done(at[x])
    BY Zenon, <1>1, <2>1 DEF CallsInv, ManifestInv, Uploaded
  <2>3. doFunc[x] # "none" => at[x] = x
    BY Zenon, <1>1 DEF UploadInv
  <2>4. QED
    BY Zenon, <2>2, <2>3 DEF Done
<1>8. QED
  BY SMTT(30), <1>1, <1>3, <1>4, <1>5, <1>6, <1>7

\* The manifest is put or is not: the push goes on with its next tag, whose
\* calls are still to be made, or ends.
LEMMA PutCalls ==
    ASSUME PushInv, NEW p \in Pushes, PutManifest(p) \/ PutFails(p)
    PROVE  CallsInv(p)'
<1>1. /\ PushTypeOK /\ CallsInv(p) /\ tag[p] <= Len(images[p]) /\ tag[p] \in Nat
      /\ idx[p] \in Uploads(p)
  BY Zenon, OwnFacts
<1>2. /\ ppc[p] = "manifest" /\ pc' = pc /\ at' = at /\ doFunc' = doFunc
  BY Zenon DEF PutManifest, PutFails, vars, callVars, workVars
<1>3. \/ /\ ppc'[p] = "ended" /\ tag'[p] = tag[p] /\ idx'[p] = idx[p]
      \/ /\ ppc'[p] = "submit" /\ tag'[p] = tag[p] + 1 /\ idx'[p] = 1
         /\ tag[p] < Len(images[p])
  BY Zenon, <1>1 DEF PutManifest, PutFails, PushTypeOK
<1>4. ppc'[p] \in {"ended", "submit"}
  BY Zenon, <1>3
<1>5. WaitInv(p)' /\ UnwindInv(p)' /\ ManifestInv(p)'
  BY Zenon, <1>4 DEF WaitInv, UnwindInv, ManifestInv
<1>6. CASE ppc'[p] = "ended" /\ tag'[p] = tag[p] /\ idx'[p] = idx[p]
  <2>1. PlaceInv(p)'
    BY Zenon, <1>1, <1>6, SameTag DEF PlaceInv
  <2>2. TagsInv(p)' /\ SubmitInv(p)'
    BY Zenon, <1>1, <1>2, <1>6 DEF CallsInv, TagsInv, SubmitInv, Owner
  <2>3. QED
    BY Zenon, <1>5, <2>1, <2>2 DEF CallsInv
<1>7. CASE /\ ppc'[p] = "submit" /\ tag'[p] = tag[p] + 1 /\ idx'[p] = 1
           /\ tag[p] < Len(images[p])
  <2>1. Len(images[p]) \in Nat /\ maxTags \in Nat /\ Len(images[p]) <= maxTags
    BY PushAssumption
  <2>2. /\ tag'[p] \in 1..Len(images[p]) /\ tag'[p] \in 1..maxTags
        /\ \A m \in Nat : m >= tag'[p] => m > tag[p]
    BY SMTT(30), <1>1, <1>7, <2>1
  <2>3. Image(p)' \in Seq(Layers) /\ Image(p)' # << >>
    BY Zenon, <2>2, PushAssumption DEF Image
  <2>4. /\ DOMAIN Image(p)' = 1..Len(Image(p)') /\ Len(Image(p)') \in Nat
        /\ 1 \in DOMAIN Image(p)' /\ 1..(1 - 1) = {}
    BY <2>3
  <2>5. 1 \in Uploads(p)'
    BY Zenon, <2>4 DEF Uploads
  <2>6. \A x \in Calls : x[2] \in Nat
    BY PushAssumption
  <2>7. \A x \in Calls : Owner(x) = p /\ x[2] >= tag'[p] => pc'[x] = "calling"
    BY Zenon, <1>1, <1>2, <2>2, <2>6 DEF CallsInv, TagsInv
  <2>8. \A x \in Calls : Owner(x) = p => doFunc'[x] \in {"none", "finished"}
    BY Zenon, <1>2, OwnUploadsEnded
  <2>9. ASSUME NEW i \in Uploads(p)'
        PROVE  pc'[CallOf(p, i)'] = "calling" /\ i \in Nat /\ ~(i < 1)
    <3>1. i \in 1..Len(Image(p)')
      BY Zenon, <2>4, <2>9 DEF Uploads
    <3>2. Image(p)'[i] \in Layers
      BY <2>3, <3>1
    <3>3. CallOf(p, i)' = <<p, tag'[p], Image(p)'[i]>>
      BY Zenon DEF CallOf
    <3>4. /\ CallOf(p, i)' \in Calls /\ Owner(CallOf(p, i)') = p
          /\ CallOf(p, i)'[2] = tag'[p] /\ tag'[p] >= tag'[p]
      BY SMTT(30), <2>2, <3>2, <3>3, PushAssumption DEF Owner
    <3>5. i \in Nat /\ ~(i < 1)
      BY <2>4, <3>1
    <3>6. QED
      BY Zenon, <2>7, <3>4, <3>5
  <2>10. TagsInv(p)'
    <3>1. \A x \in Calls : /\ x[2] > tag'[p] => x[2] >= tag'[p]
                           /\ x[2] = tag'[p] => x[2] >= tag'[p]
      BY <2>2, <2>6
    <3>2. \A x \in Calls : Owner(x) = p /\ x[2] > tag'[p] => pc'[x] = "calling"
      BY Zenon, <2>7, <3>1
    <3>3. \A x \in Calls : Owner(x) = p /\ x[2] = tag'[p] => pc'[x] = "calling"
      BY Zenon, <2>7, <3>1
    <3>4. QED
      BY Zenon, <2>8, <3>2, <3>3 DEF TagsInv, Owner
  <2>11. SubmitInv(p)'
    BY Zenon, <1>7, <2>9 DEF SubmitInv, Looking
  <2>12. PlaceInv(p)'
    BY SMTT(30), <1>7, <2>2, <2>5 DEF PlaceInv
  <2>13. QED
    BY Zenon, <1>5, <2>10, <2>11, <2>12 DEF CallsInv
<1>8. QED
  BY Zenon, <1>3, <1>6, <1>7

-----------------------------------------------------------------------------

\* What an attempt of the DoFunc of x does: it ends the DoFunc or leaves the
\* manager's state alone, it does not forget a failure, and an end without an
\* error means that the registry has the layer.
Tried(x) ==
    /\ Finish(x) \/ UNCHANGED vars
    /\ \A y \in Calls \ {x} : err'[y] = err[y] /\ retries'[y] = retries[y]
    /\ Done(x)' /\ err'[x] = "nil" => LayerOf(x) \in remote'
    /\ ~Done(x)' => retries'[x] < maxUploadAttempts
    /\ remote \subseteq remote' /\ remote' \subseteq Layers
    /\ remoteLayers' \in [Pushes -> SUBSET Layers]
    /\ EntriesTrue'
    /\ retries' \in [Calls -> 0..maxUploadAttempts]
    /\ delaying' \in [Calls -> BOOLEAN]
    /\ err' \in [Calls -> Results]
    /\ UNCHANGED <<ppc, tag, idx, ctxDone, result>>

\* A failed attempt ends the DoFunc with an error, or leaves an attempt.
LEMMA FailEffect ==
    ASSUME PushInv, NEW x \in Calls, doFunc[x] = "active", NEW d \in BOOLEAN,
           FailAttempt(x, d)
    PROVE  /\ Finish(x) \/ UNCHANGED vars
           /\ \A y \in Calls \ {x} : err'[y] = err[y] /\ retries'[y] = retries[y]
           /\ doFunc'[x] = "finished" => err'[x] # "nil"
           /\ doFunc'[x] # "finished" => retries'[x] < maxUploadAttempts
           /\ retries' \in [Calls -> 0..maxUploadAttempts]
           /\ delaying' \in [Calls -> BOOLEAN]
           /\ err' \in [Calls -> Results]
<1>1. /\ retries \in [Calls -> 0..maxUploadAttempts] /\ err \in [Calls -> Results]
      /\ delaying \in [Calls -> BOOLEAN] /\ doFunc \in [Calls -> DoStates]
      /\ maxUploadAttempts \in Nat
  BY Zenon, PushAssumption DEF PushInv, PushTypeOK, IInv, TypeOK
<1>2. retries[x] < maxUploadAttempts
  BY Zenon DEF PushInv, UploadInv, Done
<1>3. Finish(x) => doFunc'[x] = "finished"
  BY Zenon, <1>1 DEF Finish
<1>4. CASE /\ err' = [err EXCEPT ![x] = "cancelled"] /\ Finish(x)
           /\ UNCHANGED <<retries, delaying>>
  BY Zenon, <1>1, <1>3, <1>4 DEF Results
<1>5. CASE /\ retries' = [retries EXCEPT ![x] = @ + 1]
           /\ err' = [err EXCEPT ![x] = "failed"] /\ Finish(x) /\ UNCHANGED delaying
  BY <1>1, <1>2, <1>3, <1>5 DEF Results
<1>6. CASE /\ retries' = [retries EXCEPT ![x] = @ + 1]
           /\ retries[x] + 1 # maxUploadAttempts
           /\ delaying' = [delaying EXCEPT ![x] = TRUE] /\ UNCHANGED <<vars, err>>
  <2>1. doFunc' = doFunc
    BY Zenon, <1>6 DEF vars, workVars
  <2>2. /\ retries' \in [Calls -> 0..maxUploadAttempts]
        /\ retries'[x] < maxUploadAttempts
        /\ \A y \in Calls \ {x} : retries'[y] = retries[y]
    BY <1>1, <1>2, <1>6
  <2>3. delaying' \in [Calls -> BOOLEAN]
    BY Zenon, <1>1, <1>6
  <2>4. QED
    BY Zenon, <1>1, <1>6, <2>1, <2>2, <2>3
<1>7. QED
  BY Zenon, <1>4, <1>5, <1>6 DEF FailAttempt

\* An entry is only made for a layer that the registry has.
LEMMA KnowEffect ==
    ASSUME PushInv, NEW x \in Calls, remote \subseteq remote', LayerOf(x) \in remote',
           KnowLayer(x) \/ UNCHANGED remoteLayers
    PROVE  remoteLayers' \in [Pushes -> SUBSET Layers] /\ EntriesTrue'
<1>1. remoteLayers \in [Pushes -> SUBSET Layers] /\ EntriesTrue
  BY Zenon DEF PushInv, PushTypeOK
<1>2. Owner(x) \in Pushes /\ LayerOf(x) \in Layers
  BY Zenon, PushAssumption DEF Owner, LayerOf
<1>3. CASE UNCHANGED remoteLayers
  BY Zenon, <1>1, <1>3 DEF EntriesTrue
<1>4. CASE KnowLayer(x)
  <2>1. remoteLayers' = [remoteLayers EXCEPT ![Owner(x)] = @ \cup {LayerOf(x)}]
    BY Zenon, <1>4 DEF KnowLayer
  <2>2. remoteLayers' \in [Pushes -> SUBSET Layers]
    BY Zenon, <1>1, <1>2, <2>1
  <2>3. \A p \in Pushes : remoteLayers'[p] \subseteq remote'
    BY Zenon, <1>1, <1>2, <2>1 DEF EntriesTrue
  <2>4. QED
    BY Zenon, <2>2, <2>3 DEF EntriesTrue
<1>5. QED
  BY Zenon, <1>3, <1>4

\* An attempt of v2PushDescriptor.Upload is one of the steps Tried describes.
LEMMA AttemptTried ==
    ASSUME PushInv, NEW x \in Calls, Attempt(x)
    PROVE  Tried(x)
<1>1. /\ doFunc[x] = "active" /\ UNCHANGED <<ppc, tag, idx, ctxDone, result>>
  BY Zenon DEF Attempt
<1>2. LayerOf(x) \in Layers /\ remote \subseteq Layers /\ Owner(x) \in Pushes
  BY Zenon, PushAssumption DEF PushInv, PushTypeOK, Owner, LayerOf
<1>3. /\ retries \in [Calls -> 0..maxUploadAttempts] /\ err \in [Calls -> Results]
      /\ delaying \in [Calls -> BOOLEAN] /\ doFunc \in [Calls -> DoStates]
  BY Zenon DEF PushInv, PushTypeOK, IInv, TypeOK
<1>4. ASSUME Succeed(x), remote \subseteq remote', remote' \subseteq Layers,
             LayerOf(x) \in remote', KnowLayer(x) \/ UNCHANGED remoteLayers
      PROVE  Tried(x)
  <2>1. doFunc'[x] = "finished" /\ Finish(x) /\ UNCHANGED <<retries, delaying, err>>
    BY Zenon, <1>3, <1>4 DEF Succeed, Finish
  <2>2. remoteLayers' \in [Pushes -> SUBSET Layers] /\ EntriesTrue'
    BY Zenon, <1>4, KnowEffect
  <2>3. QED
    BY Zenon, <1>1, <1>3, <1>4, <2>1, <2>2 DEF Tried, Done
<1>5. ASSUME NEW d \in BOOLEAN, FailAttempt(x, d), remote \subseteq remote',
             remote' \subseteq Layers,
             \/ UNCHANGED remoteLayers
             \/ KnowLayer(x) /\ LayerOf(x) \in remote'
      PROVE  Tried(x)
  <2>1. remoteLayers' \in [Pushes -> SUBSET Layers] /\ EntriesTrue'
    <3>1. CASE UNCHANGED remoteLayers
      BY Zenon, <1>5, <3>1 DEF PushInv, PushTypeOK, EntriesTrue
    <3>2. CASE KnowLayer(x) /\ LayerOf(x) \in remote'
      BY Zenon, <1>5, <3>2, KnowEffect
    <3>3. QED
      BY Zenon, <1>5, <3>1, <3>2
  <2>2. QED
    BY Zenon, <1>1, <1>5, <2>1, FailEffect DEF Tried, Done
<1>6. CASE AlreadyKnown(x)
  <2>1. LayerOf(x) \in remote
    BY Zenon, <1>2, <1>6 DEF AlreadyKnown, PushInv, EntriesTrue
  <2>2. QED
    BY Zenon, <1>2, <1>4, <1>6, <2>1 DEF AlreadyKnown
<1>7. CASE AlreadyExists(x)
  BY Zenon, <1>2, <1>4, <1>7 DEF AlreadyExists
<1>8. CASE Mounted(x)
  BY Zenon, <1>2, <1>4, <1>5, <1>8 DEF Mounted
<1>9. CASE Committed(x)
  BY Zenon, <1>2, <1>4, <1>5, <1>9 DEF Committed
<1>10. CASE Broken(x)
  <2>1. PICK d \in BOOLEAN : FailAttempt(x, d)
    BY Zenon, <1>10 DEF Broken
  <2>2. remote \subseteq remote' /\ remote' \subseteq Layers /\ UNCHANGED remoteLayers
    BY Zenon, <1>2, <1>10 DEF Broken
  <2>3. QED
    BY Zenon, <1>5, <2>1, <2>2
<1>11. QED
  BY Zenon, <1>6, <1>7, <1>8, <1>9, <1>10 DEF Attempt

\* The end of a retry delay is one of them, too.
LEMMA EndDelayTried ==
    ASSUME PushInv, NEW x \in Calls, EndDelay(x)
    PROVE  Tried(x)
<1>1. /\ retries \in [Calls -> 0..maxUploadAttempts] /\ err \in [Calls -> Results]
      /\ delaying \in [Calls -> BOOLEAN] /\ doFunc \in [Calls -> DoStates]
      /\ remote \subseteq Layers /\ remoteLayers \in [Pushes -> SUBSET Layers]
  BY Zenon DEF PushInv, PushTypeOK, IInv, TypeOK
<1>2. /\ UNCHANGED <<ppc, tag, idx, ctxDone, result, remoteLayers, retries, remote>>
      /\ delaying' = [delaying EXCEPT ![x] = FALSE]
  BY Zenon DEF EndDelay
<1>3. EntriesTrue'
  BY Zenon, <1>2 DEF PushInv, EntriesTrue
<1>4. delaying' \in [Calls -> BOOLEAN]
  BY Zenon, <1>1, <1>2
<1>5. CASE UNCHANGED <<vars, err>>
  <2>1. doFunc' = doFunc
    BY Zenon, <1>5 DEF vars, workVars
  <2>2. /\ Done(x) /\ err[x] = "nil" => LayerOf(x) \in remote
        /\ ~Done(x) => retries[x] < maxUploadAttempts
    BY Zenon DEF PushInv, UploadInv
  <2>3. QED
    BY Zenon, <1>1, <1>2, <1>3, <1>4, <1>5, <2>1, <2>2 DEF Tried, Done
<1>6. CASE err' = [err EXCEPT ![x] = "cancelled"] /\ Finish(x)
  <2>1. doFunc'[x] = "finished" /\ err'[x] = "cancelled"
    BY Zenon, <1>1, <1>6 DEF Finish
  <2>2. err' \in [Calls -> Results] /\ \A y \in Calls \ {x} : err'[y] = err[y]
    BY Zenon, <1>1, <1>6 DEF Results
  <2>3. QED
    BY Zenon, <1>1, <1>2, <1>3, <1>4, <1>6, <2>1, <2>2 DEF Tried, Done
<1>7. QED
  BY Zenon, <1>5, <1>6 DEF EndDelay

\* What a step of the manager goroutine, or the start of the DoFunc, leaves alone.
LEMMA WorkEffect ==
    ASSUME IInv, NEW x \in Calls, ManagerStep(x) \/ Begin(x) \/ Finish(x)
    PROVE  /\ key' = key /\ pc' = pc /\ at' = at
           /\ \A y \in Calls \ {x} : doFunc'[y] = doFunc[y]
           /\ doFunc[x] = "none" => doFunc'[x] = "none"
           /\ Done(x) => doFunc'[x] = "finished"
           /\ ~Finish(x) => (doFunc'[x] = "finished" <=> Done(x))
<1>1. doFunc \in [Calls -> DoStates]
  BY Zenon DEF IInv, TypeOK
<1>2. CASE ManagerStep(x)
  BY Zenon, <1>2 DEF ManagerStep, ManagerInactive, ManagerDone, Close, callVars, Done
<1>3. CASE Begin(x)
  BY Zenon, <1>1, <1>3 DEF Begin, callVars, Done
<1>4. CASE Finish(x)
  BY Zenon, <1>1, <1>4 DEF Finish, callVars, Done
<1>5. QED
  BY Zenon, <1>2, <1>3, <1>4

\* The transfers after an attempt.
LEMMA TriedUploads ==
    ASSUME PushInv, NEW x \in Calls, Tried(x)
    PROVE  UploadInv' /\ PushTypeOK'
<1>1. /\ IInv /\ UploadInv
  BY Zenon DEF PushInv
<1>2. /\ key' = key /\ pc' = pc /\ at' = at
      /\ \A y \in Calls \ {x} : doFunc'[y] = doFunc[y]
      /\ doFunc[x] = "none" => doFunc'[x] = "none"
  <2>1. CASE Finish(x)
    BY Zenon, <1>1, <2>1, WorkEffect
  <2>2. CASE UNCHANGED vars
    BY Zenon, <2>2 DEF vars, callVars, workVars
  <2>3. QED
    BY Zenon, <2>1, <2>2 DEF Tried
<1>3. /\ (\A c \in Calls : key[c] = LayerOf(c))'
      /\ (\A c \in Calls :
            pc[c] \in {"checking", "watching"} => LayerOf(at[c]) = LayerOf(c))'
  BY Zenon, <1>1, <1>2 DEF UploadInv, LayerOf
<1>4. (\A y \in Calls : doFunc[y] # "none" => at[y] = y)'
  BY Zenon, <1>1, <1>2 DEF UploadInv
<1>5. (\A y \in Calls : Done(y) /\ err[y] = "nil" => LayerOf(y) \in remote)'
  BY Zenon, <1>1, <1>2 DEF UploadInv, Tried, Done, LayerOf
<1>6. (\A y \in Calls : ~Done(y) => retries[y] < maxUploadAttempts)'
  BY Zenon, <1>1, <1>2 DEF UploadInv, Tried, Done
<1>7. UploadInv'
  BY Zenon, <1>3, <1>4, <1>5, <1>6 DEF UploadInv
<1>8. PushTypeOK'
  BY Zenon DEF Tried, PushInv, PushTypeOK
<1>9. QED
  BY Zenon, <1>7, <1>8

\* A step that leaves the retry loops alone and creates no transfer.
LEMMA SameUploads ==
    ASSUME PushInv, UNCHANGED <<err, retries, remote, key, at>>,
           \A c \in Calls : pc'[c] \in {"checking", "watching"} => pc'[c] = pc[c],
           \A x \in Calls : /\ doFunc[x] = "none" => doFunc'[x] = "none"
                            /\ doFunc'[x] = "finished" <=> Done(x)
    PROVE  UploadInv'
<1>1. UploadInv
  BY Zenon DEF PushInv
<1>2. /\ (\A c \in Calls : key[c] = LayerOf(c))'
      /\ (\A c \in Calls :
            pc[c] \in {"checking", "watching"} => LayerOf(at[c]) = LayerOf(c))'
  BY Zenon, <1>1 DEF UploadInv, LayerOf
<1>3. (\A y \in Calls : doFunc[y] # "none" => at[y] = y)'
  BY Zenon, <1>1 DEF UploadInv
<1>4. /\ (\A y \in Calls : Done(y) /\ err[y] = "nil" => LayerOf(y) \in remote)'
      /\ (\A y \in Calls : ~Done(y) => retries[y] < maxUploadAttempts)'
  BY Zenon, <1>1 DEF UploadInv, Done, LayerOf
<1>5. QED
  BY Zenon, <1>2, <1>3, <1>4 DEF UploadInv

\* A step of Transfer: the transfer it finds or creates is for its layer.
LEMMA CallStepUploads ==
    ASSUME PushInv, UNCHANGED <<err, retries, remote>>, NEW c \in Calls, CallStep(c)
    PROVE  UploadInv'
<1>1. IInv /\ UploadInv
  BY Zenon DEF PushInv
<1>2. /\ key' = key
      /\ \A d \in Calls \ {c} :
            pc'[d] = pc[d] /\ at'[d] = at[d] /\ doFunc'[d] = doFunc[d]
      /\ doFunc[c] = "none" /\ doFunc'[c] \in {"none", "waiting"}
      /\ doFunc'[c] = "waiting" => at'[c] = c
  BY Zenon, <1>1, CallStepEffect
<1>3. pc'[c] \in {"checking", "watching"} => LayerOf(at'[c]) = LayerOf(c)
  BY Zenon, <1>1, CallStepLayer
<1>4. /\ (\A d \in Calls : key[d] = LayerOf(d))'
      /\ (\A d \in Calls :
            pc[d] \in {"checking", "watching"} => LayerOf(at[d]) = LayerOf(d))'
  BY SMTT(30), <1>1, <1>2, <1>3 DEF UploadInv, LayerOf
<1>5. (\A y \in Calls : doFunc[y] # "none" => at[y] = y)'
  BY Zenon, <1>1, <1>2 DEF UploadInv
<1>6. /\ (\A y \in Calls : Done(y) /\ err[y] = "nil" => LayerOf(y) \in remote)'
      /\ (\A y \in Calls : ~Done(y) => retries[y] < maxUploadAttempts)'
  BY Zenon, <1>1, <1>2 DEF UploadInv, Done, LayerOf
<1>7. QED
  BY Zenon, <1>4, <1>5, <1>6 DEF UploadInv

-----------------------------------------------------------------------------

\* Every step of the pushes is a step of the transfer manager, or leaves it alone.
LEMMA PushIsTransferStep ==
    ASSUME PushInv, [PushNext]_allVars
    PROVE  [Next]_vars
<1>1. ASSUME NEW p \in Pushes, PushStep(p) \/ Cancel(p) PROVE [Next]_vars
  <2>1. CallAt(p) \in Calls
    BY Zenon, OwnFacts
  <2>2. CASE Submit(p)
    BY Zenon, <2>1, <2>2 DEF Submit, Next
  <2>3. CASE Unwind(p)
    BY Zenon, <2>1, <2>3 DEF Unwind, Next
  <2>4. CASE AwaitDone(p) \/ AwaitCancelled(p)
    BY Zenon, <2>4 DEF AwaitDone, AwaitCancelled, Advance, Return
  <2>5. CASE PutManifest(p) \/ PutFails(p) \/ Cancel(p)
    BY Zenon, <2>5 DEF PutManifest, PutFails, Cancel
  <2>6. QED
    BY Zenon, <1>1, <2>2, <2>3, <2>4, <2>5 DEF PushStep
<1>2. ASSUME NEW x \in Calls, UploadStep(x) \/ ManageUpload(x) PROVE [Next]_vars
  <2>1. CASE StartUpload(x)
    BY Zenon, <2>1 DEF StartUpload, Next, WorkStep
  <2>2. CASE Attempt(x) \/ EndDelay(x)
    <3>1. Finish(x) \/ UNCHANGED vars
      BY Zenon, <2>2, AttemptTried, EndDelayTried DEF Tried
    <3>2. QED
      BY Zenon, <3>1 DEF Next, WorkStep
  <2>3. CASE ManageUpload(x)
    BY Zenon, <2>3 DEF ManageUpload, Next
  <2>4. QED
    BY Zenon, <1>2, <2>1, <2>2, <2>3 DEF UploadStep
<1>3. CASE AllPushed \/ UNCHANGED allVars
  BY Zenon, <1>3 DEF AllPushed, allVars
<1>4. QED
  BY Zenon, <1>1, <1>2, <1>3 DEF PushNext

\* A step of one push leaves the others where they are.
LEMMA OthersQuiet ==
    ASSUME PushInv, NEW p \in Pushes, NEW q \in Pushes, q # p,
           PushStep(p) \/ Cancel(p)
    PROVE  Quiet(q)
<1>1. /\ ppc \in [Pushes -> PushStates] /\ tag \in [Pushes -> 1..maxTags]
      /\ idx \in [Pushes -> Nat] /\ result \in [Pushes -> Results]
      /\ pc \in [Calls -> CallStates] /\ IInv
  BY Zenon DEF PushInv, PushTypeOK, IInv, TypeOK
<1>2. CallAt(p) \in Calls /\ Owner(CallAt(p)) = p
  BY Zenon, OwnFacts
<1>3. CASE Submit(p)
  <2>1. /\ \A d \in Calls \ {CallAt(p)} :
              pc'[d] = pc[d] /\ at'[d] = at[d] /\ doFunc'[d] = doFunc[d]
        /\ doFunc[CallAt(p)] = "none"
    BY Zenon, <1>1, <1>2, <1>3, CallStepEffect DEF Submit
  <2>2. /\ tag'[q] = tag[q] /\ ppc'[q] = ppc[q] /\ idx'[q] = idx[q]
        /\ result'[q] = result[q] /\ remote' = remote
    BY Zenon, <1>1, <1>3 DEF Submit
  <2>3. QED
    BY Zenon, <1>2, <2>1, <2>2 DEF Quiet, Done
<1>4. CASE Unwind(p)
  <2>1. /\ pc' = [pc EXCEPT ![CallAt(p)] = "returned"]
        /\ at' = at /\ doFunc' = doFunc
    BY Zenon, <1>1, <1>2, <1>4, ReleaseEffect DEF Unwind
  <2>2. /\ tag'[q] = tag[q] /\ ppc'[q] = ppc[q] /\ idx'[q] = idx[q]
        /\ result'[q] = result[q] /\ remote' = remote
    BY Zenon, <1>1, <1>4 DEF Unwind
  <2>3. QED
    BY Zenon, <1>1, <1>2, <2>1, <2>2 DEF Quiet, Done
<1>5. CASE ~Submit(p) /\ ~Unwind(p)
  <2>1. UNCHANGED vars /\ remote' = remote
    BY Zenon, <1>5 DEF PushStep, AwaitDone, AwaitCancelled, Advance, Return, PutManifest,
                PutFails, Cancel
  <2>2. /\ tag'[q] = tag[q] /\ ppc'[q] = ppc[q] /\ idx'[q] = idx[q]
        /\ result'[q] = result[q]
    BY Zenon, <1>1, <1>5 DEF PushStep, AwaitDone, AwaitCancelled, Advance, Return,
                      PutManifest, PutFails, Cancel
  <2>3. QED
    BY Zenon, <2>1, <2>2 DEF Quiet, Done, vars, callVars, workVars
<1>6. QED
  BY Zenon, <1>3, <1>4, <1>5

\* A cancelled context, a step of an upload or of the manager goroutine leaves
\* every push where it is.
LEMMA AllQuiet ==
    ASSUME PushInv, NEW p \in Pushes,
           \/ \E q \in Pushes : Cancel(q)
           \/ \E x \in Calls : UploadStep(x) \/ ManageUpload(x)
           \/ UNCHANGED allVars
    PROVE  Quiet(p)
<1>1. IInv
  BY Zenon DEF PushInv
<1>2. ASSUME UNCHANGED <<vars, ppc, tag, idx, result, remote>> PROVE Quiet(p)
  BY Zenon, <1>2 DEF Quiet, Done, vars, callVars, workVars
<1>3. ASSUME NEW x \in Calls, ManagerStep(x) \/ Begin(x) \/ Finish(x),
             UNCHANGED <<ppc, tag, idx, result>>, remote \subseteq remote'
      PROVE  Quiet(p)
  <2>1. /\ pc' = pc /\ at' = at
        /\ \A y \in Calls \ {x} : doFunc'[y] = doFunc[y]
        /\ doFunc[x] = "none" => doFunc'[x] = "none"
        /\ Done(x) => doFunc'[x] = "finished"
    BY Zenon, <1>1, <1>3, WorkEffect
  <2>2. QED
    BY Zenon, <1>3, <2>1 DEF Quiet, Done
<1>4. CASE \E q \in Pushes : Cancel(q)
  BY Zenon, <1>2, <1>4 DEF Cancel
<1>5. CASE \E x \in Calls : UploadStep(x) \/ ManageUpload(x)
  <2>1. PICK x \in Calls : UploadStep(x) \/ ManageUpload(x)
    BY Zenon, <1>5
  <2>2. CASE StartUpload(x) \/ ManageUpload(x)
    BY Zenon, <1>3, <2>2 DEF StartUpload, ManageUpload, pushVars
  <2>3. CASE Attempt(x) \/ EndDelay(x)
    <3>1. Tried(x)
      BY Zenon, <2>3, AttemptTried, EndDelayTried
    <3>2. CASE Finish(x)
      BY Zenon, <1>3, <3>1, <3>2 DEF Tried
    <3>3. CASE UNCHANGED vars
      BY Zenon, <3>1, <3>3 DEF Tried, Quiet, Done, vars, callVars, workVars
    <3>4. QED
      BY Zenon, <3>1, <3>2, <3>3 DEF Tried
  <2>4. QED
    BY Zenon, <2>1, <2>2, <2>3 DEF UploadStep
<1>6. CASE UNCHANGED allVars
  BY Zenon, <1>2, <1>6 DEF allVars, pushVars
<1>7. QED
  BY Zenon, <1>4, <1>5, <1>6

\* What is known of the calls of every push survives every step.
LEMMA NextCalls ==
    ASSUME PushInv, [PushNext]_allVars, NEW p \in Pushes
    PROVE  CallsInv(p)'
<1>1. PushTypeOK /\ CallsInv(p)
  BY Zenon DEF PushInv
<1>2. CASE PushStep(p)
  BY Zenon, <1>2, SubmitCalls, AwaitCalls, UnwindCalls, PutCalls DEF PushStep
<1>3. CASE \E q \in Pushes : q # p /\ PushStep(q)
  BY Zenon, <1>1, <1>3, OthersQuiet, QuietCalls
<1>4. CASE \/ \E q \in Pushes : Cancel(q)
           \/ \E x \in Calls : UploadStep(x) \/ ManageUpload(x)
           \/ UNCHANGED allVars
  BY Zenon, <1>1, <1>4, AllQuiet, QuietCalls
<1>5. QED
  BY Zenon, <1>2, <1>3, <1>4 DEF PushNext, AllPushed

\* The types, the entries and the transfers after a step of a push.
LEMMA PushStepUploads ==
    ASSUME PushInv, NEW p \in Pushes, PushStep(p) \/ Cancel(p)
    PROVE  PushTypeOK' /\ UploadInv' /\ EntriesTrue'
<1>1. /\ PushTypeOK /\ IInv /\ CallAt(p) \in Calls /\ Uploads(p) \subseteq Nat
      /\ tag[p] \in Nat
  BY Zenon, OwnFacts DEF PushInv
<1>2. UNCHANGED <<remoteLayers, retries, delaying, err, remote>>
  BY Zenon DEF PushStep, Submit, AwaitDone, AwaitCancelled, Advance, Return, Unwind,
         PutManifest, PutFails, Cancel
<1>3. EntriesTrue'
  BY Zenon, <1>2 DEF PushInv, EntriesTrue
<1>4. UploadInv'
  <2>1. CASE Submit(p)
    BY Zenon, <1>1, <1>2, <2>1, CallStepUploads DEF Submit
  <2>2. CASE Unwind(p)
    <3>1. /\ pc' = [pc EXCEPT ![CallAt(p)] = "returned"]
          /\ key' = key /\ at' = at /\ doFunc' = doFunc
      BY Zenon, <1>1, <2>2, ReleaseEffect DEF Unwind
    <3>2. pc \in [Calls -> CallStates]
      BY Zenon, <1>1 DEF IInv, TypeOK
    <3>3. \A c \in Calls : pc'[c] \in {"checking", "watching"} => pc'[c] = pc[c]
      BY Zenon, <3>1, <3>2
    <3>4. QED
      BY Zenon, <1>2, <3>1, <3>3, SameUploads DEF Done
  <2>3. CASE ~Submit(p) /\ ~Unwind(p)
    <3>1. UNCHANGED vars
      BY Zenon, <2>3 DEF PushStep, AwaitDone, AwaitCancelled, Advance, Return, PutManifest,
                  PutFails, Cancel
    <3>2. key' = key /\ at' = at /\ pc' = pc /\ doFunc' = doFunc
      BY Zenon, <3>1 DEF vars, callVars, workVars
    <3>3. QED
      BY Zenon, <1>2, <3>2, SameUploads DEF Done
  <2>4. QED
    BY Zenon, <2>1, <2>2, <2>3
<1>5. PushTypeOK'
  <2>1. ppc' \in [Pushes -> PushStates]
    BY Zenon, <1>1 DEF PushStep, Submit, AwaitDone, AwaitCancelled, Advance, Return, Unwind,
                PutManifest, PutFails, Cancel, PushTypeOK, PushStates
  <2>2. tag' \in [Pushes -> 1..maxTags]
    <3>1. CASE tag' = tag
      BY Zenon, <1>1, <3>1 DEF PushTypeOK
    <3>2. CASE tag' = [tag EXCEPT ![p] = @ + 1] /\ tag[p] < Len(images[p])
      <4>1. tag[p] + 1 \in 1..maxTags
        <5>1. /\ tag[p] \in 1..maxTags /\ maxTags \in Nat
              /\ Len(images[p]) \in 1..maxTags
          BY Zenon, <1>1, PushAssumption DEF PushTypeOK
        <5>2. QED
          BY <3>2, <5>1
      <4>2. QED
        BY Zenon, <1>1, <3>2, <4>1 DEF PushTypeOK
    <3>3. QED
      BY Zenon, <3>1, <3>2 DEF PushStep, Submit, AwaitDone, AwaitCancelled, Advance, Return,
                        Unwind, PutManifest, PutFails, Cancel
  <2>3. idx' \in [Pushes -> Nat]
    <3>1. \/ idx' = idx
          \/ idx' = [idx EXCEPT ![p] = 1]
          \/ \E i \in Uploads(p) : idx' = [idx EXCEPT ![p] = i]
      BY Zenon DEF PushStep, Submit, AwaitDone, AwaitCancelled, Advance, Return,
             Unwind, PutManifest, PutFails, Cancel
    <3>2. QED
      BY <1>1, <3>1 DEF PushTypeOK
  <2>4. ctxDone' \in [Pushes -> BOOLEAN]
    <3>1. ctxDone' = ctxDone \/ ctxDone' = [ctxDone EXCEPT ![p] = TRUE]
      BY Zenon DEF PushStep, Submit, AwaitDone, AwaitCancelled, Advance, Return, Unwind,
             PutManifest, PutFails, Cancel
    <3>2. QED
      BY Zenon, <1>1, <3>1 DEF PushTypeOK
  <2>5. result' \in [Pushes -> Results]
    <3>1. ASSUME AwaitDone(p) PROVE err[UploadAt(p)] \in Results
      <4>1. pc[CallAt(p)] = "watching"
        <5>1. /\ CallsInv(p) /\ ppc[p] = "wait"
              /\ idx[p] \in Uploads(p) /\ CallAt(p) = CallOf(p, idx[p])
          BY Zenon, <3>1, OwnFacts DEF AwaitDone
        <5>2. QED
          BY Zenon, <5>1 DEF CallsInv, WaitInv
      <4>2. UploadAt(p) \in Calls
        BY Zenon, <1>1, <4>1 DEF IInv, WatchInv, UploadAt
      <4>3. QED
        BY Zenon, <1>1, <4>2 DEF PushTypeOK
    <3>2. \E r \in Results : result' \in {result, [result EXCEPT ![p] = r]}
      BY Zenon, <3>1 DEF PushStep, Submit, AwaitDone, AwaitCancelled, Advance, Return, Unwind,
                  PutManifest, PutFails, Cancel, Results
    <3>3. QED
      BY Zenon, <1>1, <3>2 DEF PushTypeOK
  <2>6. QED
    BY Zenon, <1>1, <1>2, <2>1, <2>2, <2>3, <2>4, <2>5 DEF PushTypeOK
<1>6. QED
  BY Zenon, <1>3, <1>4, <1>5

\* The types, the entries and the transfers after any other step.
LEMMA OtherStepUploads ==
    ASSUME PushInv,
           \/ \E x \in Calls : UploadStep(x) \/ ManageUpload(x)
           \/ UNCHANGED allVars
    PROVE  PushTypeOK' /\ UploadInv' /\ EntriesTrue'
<1>1. PushTypeOK /\ IInv /\ EntriesTrue
  BY Zenon DEF PushInv
<1>2. ASSUME UNCHANGED pushVars PROVE PushTypeOK' /\ EntriesTrue'
  BY Zenon, <1>1, <1>2 DEF pushVars, PushTypeOK, EntriesTrue
<1>3. ASSUME NEW x \in Calls, StartUpload(x) \/ ManageUpload(x)
      PROVE  PushTypeOK' /\ UploadInv' /\ EntriesTrue'
  <2>1. (ManagerStep(x) \/ Begin(x)) /\ UNCHANGED pushVars
    BY Zenon, <1>3 DEF StartUpload, ManageUpload
  <2>2. /\ key' = key /\ pc' = pc /\ at' = at
        /\ \A y \in Calls \ {x} : doFunc'[y] = doFunc[y]
        /\ doFunc[x] = "none" => doFunc'[x] = "none"
        /\ ~Finish(x) => (doFunc'[x] = "finished" <=> Done(x))
    BY Zenon, <1>1, <2>1, WorkEffect
  <2>3. ~Finish(x)
    <3>1. doFunc \in [Calls -> DoStates]
      BY Zenon, <1>1 DEF IInv, TypeOK
    <3>2. QED
      BY Zenon, <2>1, <3>1
      DEF ManagerStep, ManagerInactive, ManagerDone, Close, Begin, Finish
  <2>4. UploadInv'
    BY Zenon, <2>1, <2>2, <2>3, SameUploads DEF pushVars, Done
  <2>5. QED
    BY Zenon, <1>2, <2>1, <2>4
<1>4. ASSUME NEW x \in Calls, Attempt(x) \/ EndDelay(x)
      PROVE  PushTypeOK' /\ UploadInv' /\ EntriesTrue'
  BY Zenon, <1>4, AttemptTried, EndDelayTried, TriedUploads DEF Tried
<1>5. CASE UNCHANGED allVars
  <2>1. key' = key /\ at' = at /\ pc' = pc /\ doFunc' = doFunc /\ UNCHANGED pushVars
    BY Zenon, <1>5 DEF allVars, vars, callVars, workVars
  <2>2. UploadInv'
    BY Zenon, <2>1, SameUploads DEF pushVars, Done
  <2>3. QED
    BY Zenon, <1>2, <2>1, <2>2
<1>6. QED
  BY Zenon, <1>3, <1>4, <1>5 DEF UploadStep

\* The invariant holds at first: no call is made.
LEMMA PushInitInv == PushInit => PushInv
<1>1. SUFFICES ASSUME PushInit PROVE PushInv
  BY Zenon
<1>2. IInv
  BY Zenon, <1>1, InitIInv DEF PushInit
<1>3. maxTags \in Nat /\ \A p \in Pushes : 1 \in 1..Len(images[p]) /\ 1 \in 1..maxTags
  BY PushAssumption
<1>4. PushTypeOK
  <2>1. /\ "submit" \in PushStates /\ "nil" \in Results
        /\ 0 \in 0..maxUploadAttempts
    BY SMTT(40), PushAssumption DEF PushStates, Results
  <2>2. tag \in [Pushes -> 1..maxTags] /\ idx \in [Pushes -> Nat]
    BY Zenon, <1>1, <1>3 DEF PushInit
  <2>3. /\ ppc \in [Pushes -> PushStates] /\ result \in [Pushes -> Results]
        /\ retries \in [Calls -> 0..maxUploadAttempts] /\ err \in [Calls -> Results]
    BY Zenon, <1>1, <2>1 DEF PushInit
  <2>4. /\ ctxDone \in [Pushes -> BOOLEAN] /\ delaying \in [Calls -> BOOLEAN]
        /\ remoteLayers \in [Pushes -> SUBSET Layers] /\ remote \subseteq Layers
    BY Zenon, <1>1 DEF PushInit
  <2>5. QED
    BY Zenon, <2>2, <2>3, <2>4 DEF PushTypeOK
<1>5. /\ pc = [c \in Calls |-> "calling"] /\ doFunc = [x \in Calls |-> "none"]
      /\ key = [c \in Calls |-> c[3]] /\ retries = [x \in Calls |-> 0]
  BY Zenon, <1>1 DEF PushInit, Init
<1>6. UploadInv
  BY SMTT(30), <1>5, PushAssumption DEF UploadInv, LayerOf, Done
<1>7. EntriesTrue
  BY Zenon, <1>1 DEF PushInit, EntriesTrue
<1>8. ASSUME NEW p \in Pushes PROVE CallsInv(p)
  <2>1. tag[p] = 1 /\ idx[p] = 1 /\ ppc[p] = "submit" /\ tag[p] <= Len(images[p])
    BY SMTT(30), <1>1, <1>3 DEF PushInit
  <2>2. 1 \in Uploads(p) /\ Uploads(p) \subseteq Nat
    BY Zenon, <1>4, <2>1, ImageFacts
  <2>3. \A i \in Uploads(p) : CallOf(p, i) \in Calls
    BY Zenon, <1>4, <2>1, CallFacts
  <2>4. \A i \in Uploads(p) : ~(i < 1) /\ pc[CallOf(p, i)] = "calling"
    <3>1. \A i \in Uploads(p) : i \in 1..Len(Image(p))
      BY Zenon, <1>4, <2>1, ImageFacts DEF Uploads
    <3>2. QED
      BY SMTT(30), <1>5, <2>2, <2>3, <3>1
  <2>5. QED
    BY Zenon, <1>5, <2>1, <2>2, <2>4
    DEF CallsInv, PlaceInv, TagsInv, SubmitInv, WaitInv, UnwindInv, ManifestInv,
        Looking
<1>9. QED
  BY Zenon, <1>2, <1>4, <1>6, <1>7, <1>8 DEF PushInv

\* The invariant is preserved by every step.
LEMMA PushNextInv ==
    ASSUME PushInv, [PushNext]_allVars
    PROVE  PushInv'
<1>1. IInv'
  BY Zenon, PushIsTransferStep, NextIInv DEF PushInv
<1>2. \A p \in Pushes : CallsInv(p)'
  BY Zenon, NextCalls
<1>3. PushTypeOK' /\ UploadInv' /\ EntriesTrue'
  BY Zenon, PushStepUploads, OtherStepUploads DEF PushNext, AllPushed
<1>4. QED
  BY Zenon, <1>1, <1>2, <1>3 DEF PushInv

\* The inductive invariant holds in every reachable state of the pushes.
THEOREM PushInvariant == PushSpec => []PushInv
<1>1. PushInit => PushInv
  BY Zenon, PushInitInv
<1>2. PushInv /\ [PushNext]_allVars => PushInv'
  BY Zenon, PushNextInv
<1>3. QED
  BY <1>1, <1>2, PTL DEF PushSpec

\* The pushes use the transfer manager as module TransferManager describes it:
\* a system of pushes, with its loops, retries and deferred releases, behaves
\* like callers of the manager, so that its theorems hold for uploads.
LEMMA PushImplementsManager == PushSpec => Spec
<1>1. PushInit => Init
  BY Zenon DEF PushInit
<1>2. PushInv /\ [PushNext]_allVars => [Next]_vars
  BY Zenon, PushIsTransferStep
<1>3. QED
  BY <1>1, <1>2, PushInvariant, PTL DEF PushSpec, Spec

\* When Upload has returned nil, the registry has every layer of the image, also
\* those that another push uploaded or that occur twice in the image.
THEOREM UploadedIsRemote == PushSpec => []UploadEnsuresRemote
<1>1. ASSUME PushInv PROVE UploadEnsuresRemote
  <2>1. SUFFICES ASSUME NEW p \in Pushes, ppc[p] = "manifest", NEW n \in DOMAIN Image(p)
                 PROVE  Image(p)[n] \in remote
    BY Zenon DEF UploadEnsuresRemote
  <2>2. PushTypeOK /\ CallsInv(p) /\ tag[p] <= Len(images[p])
    BY Zenon, <1>1, OwnFacts
  <2>3. PICK i \in Uploads(p) : Image(p)[i] = Image(p)[n]
    BY Zenon, <2>2, EveryLayerHasUpload
  <2>4. QED
    BY Zenon, <2>1, <2>2, <2>3 DEF CallsInv, ManifestInv, Uploaded
<1>2. QED
  BY <1>1, PushInvariant, PTL

\* The entries in remoteLayers are true for every push at any time.
THEOREM EntriesAreTrue == PushSpec => []EntriesTrue
<1>1. PushInv => EntriesTrue
  BY Zenon DEF PushInv
<1>2. QED
  BY <1>1, PushInvariant, PTL

\* When a push reads remoteLayers without the lock, no upload that it created is
\* still running: the transfers it watched have ended, and those of its earlier
\* tags ended before.
THEOREM UnlockedReadIsSafe == PushSpec => []UnlockedReadSafe
<1>1. ASSUME PushInv PROVE UnlockedReadSafe
  BY Zenon, <1>1, OwnUploadsEnded DEF UnlockedReadSafe
<1>2. QED
  BY <1>1, PushInvariant, PTL

\* The bound on the transfers that move data at the same time holds for uploads.
THEOREM UploadsBounded == PushSpec => []ConcurrencyBound
BY PushImplementsManager, ConcurrencyBounded, PTL

-----------------------------------------------------------------------------

\* An upload ends as cancelled only when its transfer was, and a push only when
\* its client went away.
CancelInv == /\ \A x \in Calls : err[x] = "cancelled" => cancelled[x]
             /\ CancelledByOwnClient

\* A cancelled transfer stays cancelled.
LEMMA CancelledStays ==
    ASSUME IInv, [Next]_vars, NEW x \in Calls, cancelled[x]
    PROVE  cancelled'[x]
<1>1. cancelled \in [Calls -> BOOLEAN]
  BY Zenon DEF IInv, TypeOK
<1>2. ASSUME NEW y, NEW c, DropWatcher(y, c) PROVE cancelled'[x]
  BY Zenon, <1>1, <1>2 DEF DropWatcher
<1>3. CASE UNCHANGED cancelled
  BY Zenon, <1>3
<1>4. ASSUME NEW c \in Calls, CallStep(c) \/ Release(c) PROVE cancelled'[x]
  <2>1. CASE LeaveCancelled(c) \/ Release(c)
    BY Zenon, <1>2, <2>1 DEF LeaveCancelled, Release
  <2>2. CASE TransferNew(c) \/ WatchTracked(c)
    BY Zenon, <1>3, <2>2 DEF TransferNew, WatchTracked
  <2>3. CASE JoinTracked(c) \/ Unlock(c) \/ RetryAfterDone(c)
    BY Zenon, <1>3, <2>3 DEF JoinTracked, Unlock, RetryAfterDone, lifeVars
  <2>4. QED
    BY Zenon, <1>4, <2>1, <2>2, <2>3 DEF CallStep
<1>5. ASSUME NEW y \in Calls, WorkStep(y) \/ BecomeInactive(y) \/ ManagerStep(y)
      PROVE  cancelled'[x]
  BY Zenon, <1>3, <1>5
  DEF WorkStep, Begin, BecomeInactive, Finish, ManagerStep, ManagerInactive,
      ManagerDone, Close, lifeVars
<1>6. CASE AllReturned \/ UNCHANGED vars
  BY Zenon, <1>3, <1>6 DEF AllReturned, vars, lifeVars
<1>7. QED
  BY Zenon, <1>4, <1>5, <1>6 DEF Next

\* Only an upload that finds its transfer cancelled ends as cancelled.
LEMMA CancelledUploads ==
    ASSUME PushInv, CancelInv, [PushNext]_allVars, NEW x \in Calls,
           err'[x] = "cancelled"
    PROVE  cancelled'[x]
<1>1. err \in [Calls -> Results]
  BY Zenon DEF PushInv, PushTypeOK
<1>2. cancelled[x]
  <2>1. CASE err'[x] = err[x]
    BY Zenon, <2>1 DEF CancelInv
  <2>2. ASSUME NEW y \in Calls, NEW d, FailAttempt(y, d) PROVE cancelled[x]
    <3>1. CASE cancelled[y] /\ err' = [err EXCEPT ![y] = "cancelled"]
      BY Zenon, <1>1, <2>1, <3>1
    <3>2. CASE err' = [err EXCEPT ![y] = "failed"] \/ UNCHANGED err
      <4>1. err'[x] = err[x] \/ err'[x] = "failed"
        BY Zenon, <1>1, <3>2
      <4>2. QED
        BY <2>1, <4>1
    <3>3. QED
      BY Zenon, <2>2, <3>1, <3>2 DEF FailAttempt
  <2>3. ASSUME NEW y \in Calls, Attempt(y) PROVE cancelled[x]
    BY Zenon, <2>1, <2>2, <2>3
    DEF Attempt, AlreadyKnown, AlreadyExists, Mounted, Committed, Broken, Succeed
  <2>4. ASSUME NEW y \in Calls, EndDelay(y) PROVE cancelled[x]
    BY Zenon, <1>1, <2>1, <2>4 DEF EndDelay
  <2>5. ASSUME NEW y \in Calls, StartUpload(y) \/ ManageUpload(y) PROVE cancelled[x]
    BY Zenon, <2>1, <2>5 DEF StartUpload, ManageUpload, pushVars
  <2>6. ASSUME NEW p \in Pushes, PushStep(p) \/ Cancel(p) PROVE cancelled[x]
    BY Zenon, <2>1, <2>6
    DEF PushStep, Submit, AwaitDone, AwaitCancelled, Advance, Return, Unwind,
        PutManifest, PutFails, Cancel
  <2>7. CASE AllPushed \/ UNCHANGED allVars
    BY Zenon, <2>1, <2>7 DEF AllPushed, allVars, pushVars
  <2>8. QED
    BY Zenon, <2>3, <2>4, <2>5, <2>6, <2>7 DEF PushNext, UploadStep
<1>3. QED
  BY Zenon, <1>2, PushIsTransferStep, CancelledStays DEF PushInv

\* What a push waits for is not cancelled, because the push watches it: it ends
\* as cancelled only by its own context.
LEMMA CancelledPushes ==
    ASSUME PushInv, CancelInv, [PushNext]_allVars
    PROVE  CancelledByOwnClient'
<1>1. result \in [Pushes -> Results] /\ ctxDone \in [Pushes -> BOOLEAN]
  BY Zenon DEF PushInv, PushTypeOK
<1>2. CASE UNCHANGED <<ctxDone, result>>
  BY Zenon, <1>2 DEF CancelInv, CancelledByOwnClient
<1>3. ASSUME NEW p \in Pushes, NEW r, r = "cancelled" => ctxDone[p], ctxDone' = ctxDone,
             result' = [result EXCEPT ![p] = r]
      PROVE  CancelledByOwnClient'
  BY Zenon, <1>1, <1>3 DEF CancelInv, CancelledByOwnClient
<1>4. ASSUME NEW p \in Pushes, PushStep(p) PROVE CancelledByOwnClient'
  <2>1. CASE AwaitDone(p)
    <3>1. /\ CallsInv(p) /\ idx[p] \in Uploads(p)
          /\ CallAt(p) = CallOf(p, idx[p]) /\ CallAt(p) \in Calls
      BY Zenon, OwnFacts
    <3>2. pc[CallAt(p)] = "watching"
      BY Zenon, <2>1, <3>1 DEF AwaitDone, CallsInv, WaitInv
    <3>3. ~cancelled[UploadAt(p)] /\ UploadAt(p) \in Calls
      BY Zenon, <3>1, <3>2 DEF PushInv, IInv, WatchedNotCancelled, WatchInv, UploadAt
    <3>4. err[UploadAt(p)] # "cancelled"
      BY Zenon, <3>3 DEF CancelInv
    <3>5. CASE Advance(p)
      <4>1. "nil" # "cancelled"
        OBVIOUS
      <4>2. QED
        BY Zenon, <1>2, <1>3, <3>5, <4>1 DEF Advance, Return
    <3>6. CASE Return(p, err[UploadAt(p)])
      BY Zenon, <1>3, <3>4, <3>6 DEF Return
    <3>7. QED
      BY Zenon, <2>1, <3>5, <3>6 DEF AwaitDone
  <2>2. CASE AwaitCancelled(p)
    BY Zenon, <1>3, <2>2 DEF AwaitCancelled, Return
  <2>3. CASE PutFails(p)
    <3>1. "failed" # "cancelled"
      OBVIOUS
    <3>2. QED
      BY Zenon, <1>3, <2>3, <3>1 DEF PutFails
  <2>4. CASE Submit(p) \/ Unwind(p) \/ PutManifest(p)
    BY Zenon, <1>2, <2>4 DEF Submit, Unwind, PutManifest
  <2>5. QED
    BY Zenon, <1>4, <2>1, <2>2, <2>3, <2>4 DEF PushStep
<1>5. ASSUME NEW p \in Pushes, Cancel(p) PROVE CancelledByOwnClient'
  BY Zenon, <1>1, <1>5 DEF Cancel, CancelInv, CancelledByOwnClient
<1>6. ASSUME NEW x \in Calls, UploadStep(x) \/ ManageUpload(x) PROVE CancelledByOwnClient'
  BY Zenon, <1>2, <1>6
  DEF UploadStep, StartUpload, Attempt, EndDelay, ManageUpload, pushVars
<1>7. CASE AllPushed \/ UNCHANGED allVars
  BY Zenon, <1>2, <1>7 DEF AllPushed, allVars, pushVars
<1>8. QED
  BY Zenon, <1>4, <1>5, <1>6, <1>7 DEF PushNext

\* A push is told that it was cancelled only when its own client has gone away,
\* whoever began the upload it waits for and however often that is retried.
THEOREM OnlyOwnClientCancels == PushSpec => []CancelledByOwnClient
<1>1. PushInit => CancelInv
  <2>1. "nil" # "cancelled"
    OBVIOUS
  <2>2. QED
    BY Zenon, <2>1 DEF PushInit, CancelInv, CancelledByOwnClient
<1>2. PushInv /\ CancelInv /\ [PushNext]_allVars => CancelInv'
  BY Zenon, CancelledUploads, CancelledPushes DEF CancelInv
<1>3. CancelInv => CancelledByOwnClient
  BY Zenon DEF CancelInv
<1>4. QED
  BY <1>1, <1>2, <1>3, PushInvariant, PTL DEF PushSpec
=============================================================================
