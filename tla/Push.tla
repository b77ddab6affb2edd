-------------------------------- MODULE Push --------------------------------
(***************************************************************************)
(* Concurrent pushes to one repository of a registry                       *)
(* (distribution/push_v2.go on distribution/xfer/upload.go), on top of the *)
(* transfer manager of the upload manager.                                 *)
(*                                                                         *)
(* A push is one v2Pusher; it pushes the images of its tags one after the  *)
(* other with pushV2Tag.  The call <<p, t, l>> of Transfer is the one that *)
(* push p makes for layer l of its t-th tag, and names the upload transfer *)
(* if that call creates it.  All pushes go to the same repository, so the  *)
(* key of an upload ("v2push:" + repository + DiffID) is its layer.        *)
(***************************************************************************)
EXTENDS TransferManager

CONSTANTS Pushes,            \* v2Pushers
          Layers,            \* DiffIDs
          images,            \* per push, per tag: the layers, top layer first
          maxTags,           \* bound on the tags of a push
          maxUploadAttempts  \* maxUploadAttempts of upload.go

ASSUME PushAssumption ==
    /\ Calls = Pushes \X (1..maxTags) \X Layers
    /\ Keys = Layers
    /\ maxTags \in Nat
    /\ \A p \in Pushes : /\ Len(images[p]) \in 1..maxTags
                         /\ \A t \in 1..Len(images[p]) :
                               images[p][t] \in Seq(Layers) \ {<< >>}
    /\ maxUploadAttempts \in Nat \ {0}

VARIABLES
    ppc,           \* where each push is
    tag,           \* the tag it pushes
    idx,           \* place in the image of the descriptor the loops of Upload are at
    ctxDone,       \* the client's context is cancelled
    result,        \* what Upload, then pushV2Tag, returns
    remoteLayers,  \* pushState.remoteLayers: layers that have an entry
    retries,       \* retries of each upload transfer
    delaying,      \* the upload transfer is in its retry delay
    err,           \* uploadTransfer.err
    remote         \* external: the blobs the registry has

pushVars == <<ppc, tag, idx, ctxDone, result, remoteLayers, retries, delaying,
              err, remote>>
allVars == <<vars, pushVars>>

PushStates == {"submit", "wait", "unwind", "manifest", "ended"}
Results == {"nil", "failed", "cancelled"}

\* The descriptors of the tag that p pushes.
Image(p) == images[p][tag[p]]
\* The places of the descriptors an upload is made for: those whose key is not
\* yet in dedupDescriptors.
Uploads(p) ==
    {i \in DOMAIN Image(p) : \A j \in 1..(i - 1) : Image(p)[j] # Image(p)[i]}
\* Upload i comes right after upload h, and is the last one.
Follows(p, h, i) == /\ h < i
                    /\ \A j \in Uploads(p) : j <= h \/ i <= j
IsLast(p, i) == \A j \in Uploads(p) : j <= i

CallAt(p) == <<p, tag[p], Image(p)[idx[p]]>>
\* The transfer that watched upload idx[p] of p has.
UploadAt(p) == at[CallAt(p)]

PushInit ==
    /\ Init
    /\ key = [c \in Calls |-> c[3]]
    /\ ppc = [p \in Pushes |-> "submit"]
    /\ tag = [p \in Pushes |-> 1]
    /\ idx = [p \in Pushes |-> 1]
    /\ ctxDone = [p \in Pushes |-> FALSE]
    /\ result = [p \in Pushes |-> "nil"]
    /\ remoteLayers = [p \in Pushes |-> {}]
    /\ retries = [x \in Calls |-> 0]
    /\ delaying = [x \in Calls |-> FALSE]
    /\ err = [x \in Calls |-> "nil"]
    /\ remote \in SUBSET Layers

-----------------------------------------------------------------------------
(* The push: LayerUploadManager.Upload inside pushV2Tag.                   *)

\* One step of tm.Transfer for the next descriptor; after the last one, wait.
Submit(p) ==
    /\ ppc[p] = "submit"
    /\ CallStep(CallAt(p))
    /\ \/ /\ pc'[CallAt(p)] # "watching"
          /\ UNCHANGED <<ppc, idx>>
       \/ /\ pc'[CallAt(p)] = "watching"
          /\ \E i \in Uploads(p) : /\ Follows(p, idx[p], i)
                                   /\ idx' = [idx EXCEPT ![p] = i]
          /\ UNCHANGED ppc
       \/ /\ pc'[CallAt(p)] = "watching"
          /\ IsLast(p, idx[p])
          /\ idx' = [idx EXCEPT ![p] = 1]
          /\ ppc' = [ppc EXCEPT ![p] = "wait"]
    /\ UNCHANGED <<tag, ctxDone, result, remoteLayers, retries, delaying, err,
                   remote>>

\* Upload returns r: the deferred Releases run next, the last one first.
Return(p, r) ==
    /\ ppc' = [ppc EXCEPT ![p] = "unwind"]
    /\ result' = [result EXCEPT ![p] = r]
    /\ \E i \in Uploads(p) : IsLast(p, i) /\ idx' = [idx EXCEPT ![p] = i]
    /\ UNCHANGED <<vars, tag, ctxDone, remoteLayers, retries, delaying, err, remote>>

\* Mutant: Upload returns as soon as one upload is done.
Advance_FirstOnly(p) == Return(p, "nil")

\* The wait for this upload is over: look at the next one, or return nil.
Advance(p) ==
    \/ /\ \E i \in Uploads(p) : /\ Follows(p, idx[p], i)
                                /\ idx' = [idx EXCEPT ![p] = i]
       /\ UNCHANGED <<vars, ppc, tag, ctxDone, result, remoteLayers, retries,
                      delaying, err, remote>>
    \/ /\ IsLast(p, idx[p])
       /\ Return(p, "nil")

\* Mutant: the error of the upload is not looked at.
AwaitDone_IgnoreError(p) ==
    /\ ppc[p] = "wait"
    /\ Done(UploadAt(p))
    /\ Advance(p)

\* case <-upload.Transfer.Done()
AwaitDone(p) ==
    /\ ppc[p] = "wait"
    /\ Done(UploadAt(p))
    /\ \/ err[UploadAt(p)] = "nil" /\ Advance(p)
       \/ err[UploadAt(p)] # "nil" /\ Return(p, err[UploadAt(p)])

\* case <-ctx.Done()
AwaitCancelled(p) ==
    /\ ppc[p] = "wait"
    /\ ctxDone[p]
    /\ Return(p, "cancelled")

\* One deferred upload.Release(watcher); after the last one pushV2Tag goes on.
Unwind(p) ==
    /\ ppc[p] = "unwind"
    /\ Release(CallAt(p))
    /\ \/ /\ \E i \in Uploads(p) : /\ Follows(p, i, idx[p])
                                   /\ idx' = [idx EXCEPT ![p] = i]
          /\ UNCHANGED ppc
       \/ /\ idx[p] = 1
          /\ ppc' = [ppc EXCEPT ![p] =
                        IF result[p] = "nil" THEN "manifest" ELSE "ended"]
          /\ UNCHANGED idx
    /\ UNCHANGED <<tag, ctxDone, result, remoteLayers, retries, delaying, err,
                   remote>>

\* manifestFromBuilder and manSvc.Put succeed: go on with the next tag, or end.
PutManifest(p) ==
    /\ ppc[p] = "manifest"
    /\ \/ /\ tag[p] < Len(images[p])
          /\ tag' = [tag EXCEPT ![p] = @ + 1]
          /\ ppc' = [ppc EXCEPT ![p] = "submit"]
          /\ idx' = [idx EXCEPT ![p] = 1]
       \/ /\ tag[p] = Len(images[p])
          /\ ppc' = [ppc EXCEPT ![p] = "ended"]
          /\ UNCHANGED <<tag, idx>>
    /\ UNCHANGED <<vars, ctxDone, result, remoteLayers, retries, delaying, err,
                   remote>>

\* Building the manifest fails, or both the schema2 and the schema1 Put do.
PutFails(p) ==
    /\ ppc[p] = "manifest"
    /\ ppc' = [ppc EXCEPT ![p] = "ended"]
    /\ result' = [result EXCEPT ![p] = "failed"]
    /\ UNCHANGED <<vars, tag, idx, ctxDone, remoteLayers, retries, delaying, err,
                   remote>>

\* The client that asked for the push goes away.
Cancel(p) ==
    /\ ppc[p] # "ended"
    /\ ~ctxDone[p]
    /\ ctxDone' = [ctxDone EXCEPT ![p] = TRUE]
    /\ UNCHANGED <<vars, ppc, tag, idx, result, remoteLayers, retries, delaying,
                   err, remote>>

-----------------------------------------------------------------------------
(* The DoFunc of an upload transfer: attempts of v2PushDescriptor.Upload   *)
(* with the descriptor of the push that created the transfer.              *)

Owner(x) == x[1]
LayerOf(x) == x[3]

\* The attempt succeeds: break out of the retry loop.
Succeed(x) ==
    /\ Finish(x)
    /\ UNCHANGED <<retries, delaying, err>>

\* The attempt returns an error.
FailAttempt(x, doNotRetry) ==
    \/ /\ cancelled[x]
       /\ err' = [err EXCEPT ![x] = "cancelled"]
       /\ Finish(x)
       /\ UNCHANGED <<retries, delaying>>
    \/ /\ ~cancelled[x]
       /\ retries' = [retries EXCEPT ![x] = @ + 1]
       /\ \/ /\ doNotRetry \/ retries[x] + 1 = maxUploadAttempts
             /\ err' = [err EXCEPT ![x] = "failed"]
             /\ Finish(x)
             /\ UNCHANGED delaying
          \/ /\ ~doNotRetry /\ retries[x] + 1 # maxUploadAttempts
             /\ delaying' = [delaying EXCEPT ![x] = TRUE]
             /\ UNCHANGED <<vars, err>>

KnowLayer(x) ==
    remoteLayers' = [remoteLayers EXCEPT ![Owner(x)] = @ \cup {LayerOf(x)}]

\* The push has an entry for the layer, from an earlier tag.
AlreadyKnown(x) ==
    /\ LayerOf(x) \in remoteLayers[Owner(x)]
    /\ Succeed(x)
    /\ UNCHANGED <<remoteLayers, remote>>

\* The metadata gives a digest that the registry knows.
AlreadyExists(x) ==
    /\ LayerOf(x) \notin remoteLayers[Owner(x)]
    /\ LayerOf(x) \in remote
    /\ KnowLayer(x)
    /\ Succeed(x)
    /\ UNCHANGED remote

\* Create reports that the blob was mounted from another repository; saving the
\* metadata works or does not.
Mounted(x) ==
    /\ LayerOf(x) \notin remoteLayers[Owner(x)]
    /\ remote' = remote \cup {LayerOf(x)}
    /\ KnowLayer(x)
    /\ Succeed(x) \/ FailAttempt(x, TRUE)

\* Mutant: the layer gets its entry before Commit has succeeded.
Committed_Early(x) ==
    /\ LayerOf(x) \notin remoteLayers[Owner(x)]
    /\ KnowLayer(x)
    /\ \/ remote' = remote \cup {LayerOf(x)} /\ Succeed(x)
       \/ remote' = remote /\ FailAttempt(x, FALSE)

\* Commit succeeds; the entry is made only if the metadata can be saved.
Committed(x) ==
    /\ LayerOf(x) \notin remoteLayers[Owner(x)]
    /\ remote' = remote \cup {LayerOf(x)}
    /\ \/ KnowLayer(x) /\ Succeed(x)
       \/ FailAttempt(x, TRUE) /\ UNCHANGED remoteLayers

\* Stat, Create, TarStream, ReadFrom or Commit fails; a Commit whose answer is
\* lost may have stored the blob.
Broken(x) ==
    /\ LayerOf(x) \notin remoteLayers[Owner(x)]
    /\ remote' \in {remote, remote \cup {LayerOf(x)}}
    /\ \E doNotRetry \in BOOLEAN : FailAttempt(x, doNotRetry)
    /\ UNCHANGED remoteLayers

\* descriptor.Upload and what the loop does with its answer.
Attempt(x) ==
    /\ doFunc[x] = "active"
    /\ ~delaying[x]
    /\ \/ AlreadyKnown(x)
       \/ AlreadyExists(x)
       \/ Mounted(x)
       \/ Committed(x)
       \/ Broken(x)
    /\ UNCHANGED <<ppc, tag, idx, ctxDone, result>>

\* Mutant: the ticker never ends the delay.
EndDelay_OnlyCancelled(x) ==
    /\ delaying[x]
    /\ cancelled[x]
    /\ delaying' = [delaying EXCEPT ![x] = FALSE]
    /\ err' = [err EXCEPT ![x] = "cancelled"]
    /\ Finish(x)
    /\ UNCHANGED <<ppc, tag, idx, ctxDone, result, remoteLayers, retries, remote>>

\* The retry delay is over, or the context of the transfer is done.
EndDelay(x) ==
    /\ delaying[x]
    /\ delaying' = [delaying EXCEPT ![x] = FALSE]
    /\ \/ UNCHANGED <<vars, err>>
       \/ /\ cancelled[x]
          /\ err' = [err EXCEPT ![x] = "cancelled"]
          /\ Finish(x)
    /\ UNCHANGED <<ppc, tag, idx, ctxDone, result, remoteLayers, retries, remote>>

\* <-start
StartUpload(x) == Begin(x) /\ UNCHANGED pushVars

\* The manager goroutine of the transfer.
ManageUpload(x) == ManagerStep(x) /\ UNCHANGED pushVars

-----------------------------------------------------------------------------

PushStep(p) == \/ Submit(p)
               \/ AwaitDone(p)
               \/ AwaitCancelled(p)
               \/ Unwind(p)
               \/ PutManifest(p)
               \/ PutFails(p)

UploadStep(x) == StartUpload(x) \/ Attempt(x) \/ EndDelay(x)

AllPushed ==
    /\ \A p \in Pushes : ppc[p] = "ended"
    /\ UNCHANGED allVars

PushNext == \/ \E p \in Pushes : PushStep(p) \/ Cancel(p)
            \/ \E x \in Calls : UploadStep(x) \/ ManageUpload(x)
            \/ AllPushed

PushSpec == PushInit /\ [][PushNext]_allVars

\* The goroutines of the pushes, the uploads and the manager run; tm.mu is
\* contended as in TransferManager.  Nothing makes a client cancel.
PushFairness ==
    /\ \A p \in Pushes : SF_allVars(PushStep(p))
    /\ \A x \in Calls : WF_allVars(UploadStep(x)) /\ SF_allVars(ManageUpload(x))

FairPushSpec == PushSpec /\ PushFairness

-----------------------------------------------------------------------------
(* Properties.                                                             *)

\* Type invariant; the retry counter stays below maxUploadAttempts until the
\* last failure, so an upload makes at most maxUploadAttempts attempts.
PushTypeOK ==
    /\ ppc \in [Pushes -> PushStates]
    /\ tag \in [Pushes -> 1..maxTags]
    /\ idx \in [Pushes -> Nat]
    /\ ctxDone \in [Pushes -> BOOLEAN]
    /\ result \in [Pushes -> Results]
    /\ remoteLayers \in [Pushes -> SUBSET Layers]
    /\ retries \in [Calls -> 0..maxUploadAttempts]
    /\ delaying \in [Calls -> BOOLEAN]
    /\ err \in [Calls -> Results]
    /\ remote \subseteq Layers

\* A push is told that it was cancelled only when its own client has gone: an
\* upload that another push created and gave up, in an attempt, in its retry
\* delay or while it waited for a slot, is not what this push waits for.
CancelledByOwnClient ==
    \A p \in Pushes : result[p] = "cancelled" => ctxDone[p]

\* "Upload is a blocking function which ensures the listed layers are present
\* on the remote registry": when Upload has returned nil, the registry has every
\* layer of the image, whoever uploaded it.
UploadEnsuresRemote ==
    \A p \in Pushes : ppc[p] = "manifest" =>
        \A i \in DOMAIN Image(p) : Image(p)[i] \in remote

\* The entries a push keeps are true: the registry has the layer, although the
\* entry outlives failed attempts and is reused for later tags.
EntriesTrue ==
    \A p \in Pushes : remoteLayers[p] \subseteq remote

\* Descriptor reads remoteLayers without the lock: when the manifest is built,
\* no upload that could still write the entries of this push is running.
UnlockedReadSafe ==
    \A p \in Pushes : ppc[p] = "manifest" =>
        \A x \in Calls : Owner(x) = p => doFunc[x] \in {"none", "finished"}

\* Every push ends: it is not stuck behind a cancelled upload of another push,
\* a retry delay, a queue for slots or its own deferred releases.
EveryPushEnds ==
    \A p \in Pushes : <>(ppc[p] = "ended")
=============================================================================
