# TLA+ models of hypercli: images, layers, devices and containers

hypercli is the command line client of Hyper.sh, a fork of the Docker 1.10 tree.
The repository holds the whole tree: the client that `build.sh` builds, the
packages that move images and keep layers, and the daemon, behind the build tag
`daemon`. The concurrent and persistent part of it is what this directory
models: goroutines that share transfers, reference counts under several locks,
stores that lock only themselves, a supervisor that restarts processes while
calls stop them, and files that must make sense again after a crash. TLC checks
the models on small instances; TLAPS proves the safety of transfers, pushes,
downloads, the layer store and the image store for every instance.

Contents: inventory, modules, runs, bounds, fairness, proofs, findings, limits.

## 1. Inventory

| Part | State | Operations | What is hard | What makes it correct |
|---|---|---|---|---|
| Transfer manager (`distribution/xfer/transfer.go`) | counter of active transfers, map key to transfer, queue of start channels; per transfer its watchers, context, channels | `Transfer`, `Watch`, `Release`, `Broadcast`, `inactivate`, `Close` | callers join a transfer that others are leaving; `inactive` and `Done` race; `Release` under `tm.mu` | limit kept, one transfer per key, nobody is left with a cancelled transfer, `released` closed once, nobody waits for ever |
| Progress of a transfer (same file) | `lastProgress`, one goroutine and signal channel per watcher | `Broadcast`, the loop of `Watch`, `Release` | detaching while an event is in the broadcaster's hand | what was received before `Release` is written |
| Upload manager and push (`xfer/upload.go`, `push_v2.go`) | retries of each upload, `remoteLayers` of each push | `Upload`, `makeUploadFunc`, `pushV2Tag` | the transfer of one push works for another | success means that the blobs are in the registry; every push ends |
| Download manager (`xfer/download.go`) | a chain of transfers, one per layer, each waiting for its parent | `Download`, `makeDownloadFunc`, `makeDownloadFuncFromDownload` | layer references that live as long as a transfer is watched | the layers are there when `Download` returns, and nothing is held afterwards |
| Read-only layers (`layer/layer_store.go`, `ro_layer.go`, `filestore.go`) | `layerMap`, counts, references, directories, driver layers | `Register`, `Get`, `Release`, `NewStoreFromGraphDriver` | two registrations of one chain, removal that fails half way, crash and reload | exact counts, no panic, only unused layers go |
| Writable layers (`layer_store.go`, `mounted_layer.go`) | `mounts`, references, activity counts | `CreateRWLayer`, `GetRWLayer`, `Mount`, `Unmount`, `ReleaseRWLayer` | two locks, five fallible steps to create and four to remove | a mount's parent stays and is counted once; no lock cycle |
| Images (`image/store.go`, `fs.go`, `reference/store.go`, `daemon/image_delete.go`, `commit.go`) | images, children, files, tags | pull, load, commit, tag, rmi, create and rm of containers | three stores with a lock each; file and memory change in different critical sections | the next daemon can restore what is on disk |
| Containers (`daemon/*.go`, `container/state.go`, `monitor.go`) | `State`, the monitor, config.json, mounts, names | create, start, stop, kill, restart, pause, copy, export, rename, rm, shutdown, restore | the monitor restarts what calls stop; waits on a channel that is replaced; crash | a stopped container is stopped, a running one is on disk, nothing leaks, nobody waits for ever |
| Thin devices (`daemon/graphdriver/devmapper`) | table of devices, ids, metadata files, a transaction record, the pool, names and mounts in the kernel | `AddDevice`, `DeleteDevice`, `MountDevice`, `UnmountDevice`, deletion worker, start, shutdown | two locks, one of which is given up while waiting; write-ahead record; deferred removal | no layer loses its device |
| Everything else | see `PROJECT.json` | | | |

How the parts interact: a push or pull turns every layer into a call of the
transfer manager, whose key decides who shares a transfer. A download registers
what it has fetched in the layer store and keeps the reference until `Released`;
an upload reads a layer of the store. An image in memory holds its top layer, a
container holds a writable layer that pins the image's. The layer store relies
on a graph driver, of which devicemapper is one, and on the file system, each of
which may fail at every call. The monitor of a container runs beside the calls of
the API and shares `State` and its lock with them.

`PROJECT.json` lists every part with its files, and the hazards with the line
at which each bites.

## 2. Modules

| Module | Models | Role |
|---|---|---|
| `TransferManager` | `transfer.go`: `Transfer`, `inactivate`, `Watch`/`Release` as seen by the scheduler, `Close` | detailed specification |
| `SlotPool` | the promise of the concurrency limit: a set of holders and a queue | abstract specification |
| `TransferProgress` | `transfer.go`: `Broadcast`, the goroutine of `Watch`, `Release` | detailed specification of one transfer |
| `Push` | `upload.go` and the layers and tags of `push_v2.go` | composition with `TransferManager` |
| `Download` | `download.go` on a reduced transfer manager and layer store | composition of three parts |
| `LayerStore` | read-only layers | detailed specification with crash and restart |
| `MountStore` | writable layers | extends `LayerStore` |
| `Images` | image store, reference store, image deletion, pull, load, commit | composition of three stores, with crash and restart |
| `Container` | state, monitor and calls of one container, shutdown and restore | detailed specification with crash and restart |
| `DeviceSet` | `deviceset.go` | detailed specification with crash, reboot and recovery |
| `TransferManagerProofs`, `TransferProgressProofs`, `PushProofs`, `DownloadProofs` | | theorems about `TransferManager`, `TransferProgress`, `Push`, `Download` |
| `MountStoreProofs` | | theorems about `LayerStore` and `MountStore` |
| `ImagesProofs` | | theorems about `Images` |
| `MC*` | | instances for TLC |

### TransferManager

A member of `Calls` is one call of `Transfer` and, if the call creates a
transfer, also names that transfer, so that the number of transfers needs no bound
of its own. `key` gives every call its key. `tmHolder` is `tm.mu`; it is explicit
because `Transfer` keeps the lock from finding a transfer until the watcher it has
put on a cancelled one is gone. The actions:

- `TransferNew` (no tracked transfer: create, watch, `TakeSlot`),
  `WatchTracked`, then `JoinTracked` or `LeaveCancelled` according to the
  context, `Unlock`, `RetryAfterDone` are the loop of `Transfer`;
- `Release` is the caller's release; `DropWatcher` is what both releases do
  under `t.mu`;
- `Begin`, `BecomeInactive`, `Finish` are the `DoFunc`, of which only the
  channels matter;
- `ManagerInactive`, `ManagerDone`, `Close` are the goroutine that `Transfer`
  starts per transfer, with `inactivate` as an operator.

### SlotPool

Jobs take a slot or queue, and a holder's slot goes to the head of the queue or
back to the pool. `SlotsImplemented` maps `activeTransfers`, `waitingTransfers`
and `start` to it; a lost, doubled or out-of-order slot is a step of the manager
that the pool does not have.

### TransferProgress

Events are the numbers 1 to `maxEvents`, in the order in which the `DoFunc` sends
them. The broadcaster receives (`Receive`), publishes under the lock and signals
every watcher whose goroutine happens to be in its `select` (`Publish`), and at the
end marks the transfer done (`MarkDone`) and closes `running`
(`CloseRunning`). A watcher reads the last event, writes it (on its last round only
if it differs from what it wrote before), and waits for a signal, its release or the
end. Release is three steps, because a detached watcher first pings the broadcaster. `due` records, for the properties
only, what the broadcaster had received when a release began.

### Push

Every push has a list of tags, each a list of layers; `Uploads` are the places of
an image whose layer does not occur before, which is `Upload`'s treatment of repeated
layers, and `Follows` and `IsLast` run its loops over them. A call of the transfer manager is the triple of push,
tag and layer. `Submit` calls the actions of `TransferManager` for one layer,
`AwaitDone` and `AwaitCancelled` are the wait loop, `Unwind` the deferred releases,
`PutManifest` and `PutFails` the end of a tag, `Cancel` the caller's context.
`Attempt` is one round of the retry loop with its ways out: known from an earlier
tag, already in the registry, mounted from another repository, committed, or an
error that may or may not be retried. The registry is external: a set of blobs
that a failed commit may have changed.

### Download

A layer is named by its chain, the sequence of blobs up to it, which is also the
key of the transfer that makes it. `Begin`, `Lookup`, `Transfer`, `Wait`, `Return`
and `Unwind` are `Download` with its deferred releases in the order in which Go runs
them; `Cancel` is the client's context. `Fetch` and `Register` are the two halves
of a transfer function, before and after `close(inactive)`, for a fetched blob
and for one copied from another transfer of the same call. `Untrack` and `Released`
are the manager goroutine and the goroutine that waits for `Released`. The
transfer manager is reduced to its slots, its queue, joining by key and
cancellation, as `TransferManager` specifies them. The layer store is the set of
chains that somebody holds a chain above. `blameless` records that no
registration has failed for want of the layer below it.

### LayerStore

A chain is a model value with a parent (`parentOf`), since a ChainID determines
its parent. In memory a layer is an entry of `layerMap` with its parent, count and
references; a zombie, a layer that was removed from the map while
somebody still points to it, keeps its count. On disk there are the metadata
directory (absent, whole, without its parent file, or a leftover) and the driver's
data. `layerL` is explicit for the two operations that keep it over several
fallible steps. `Register` is split where it gives up the lock (the parent is
retained in `Register`, then `Prepare`, `CommitLayer`, `ReleaseParent`), `Get` where the reference is entered
after the unlock (`GetReference`), and a release loops over `releaseLayer` and
`removeMetadata`, each of which may fail. `Restart` may happen at every point; it
keeps the files, drops the clients and recomputes everything that
`NewStoreFromGraphDriver` computes.

### MountStore

It adds the map `mounts`, the mount directories with their two files, driver mounts
and `mountL`. `CreateRWLayer` runs through `GetParent`, `CreateDriverLayer`,
`SetMountID`, `SetMountParent`, each with its failure; `ReleaseRWLayer` through
`RemoveDriverLayer`, `RemoveMount`, `DropParent`. `ReadOnlyStep` interleaves all of
`LayerStore`, and `RestartStore` extends its restart. `pins` counts what mounts add
to the counts of read-only layers.

### Images

A call is a record with the labels of the steps it still has to take, so that the
order of the steps of pull, load, commit, container creation and rmi can be read
off `Pull`, `Load`, `Commit`, `New`, `RmiRef` and `RmiID`. A step is what one store does under
its own lock: `Set` and `Create` are the two halves of `image.store.Create`, the
file before the lock and the map under it; `Delete` keeps the lock over its file
operations. `ImageDelete` resolves the name, `checkImageDeleteConflict`,
`ListReferences`, `removeAllReferencesToImageID`, `Delete` and `ReleaseImage` are the
helper, which goes on with the parent when that is to be pruned. Every write and removal of a
file may fail: `Set` then leaves no file, `SetParent` a child without a parent file,
and `RemoveFiles` says which of the config file and the children's parent files a `Delete`, which
ignores these errors, leaves behind. A crash keeps the files; `restore` is
`NewImageStore`, which fails, and the daemon with it, when a layer of an image is
missing. Four history variables name the failures and races the code does have:
`undeleted`, `raced`, `stray` and `dangling`.

### Container

One container. A call is a label and a stack of frames (where to go on after
success and after an error), because `rm` calls `Kill` and `containerStop`, `restart`
calls stop and start, and so on. `lock` is the mutex of `State`; it is explicit
because a start keeps it until the process runs and a copy until the archive is
read. The monitor is a record with its own label: `Run`, `callback`, `saveRunning`,
`RunReturns`, `Decide`, `SetRestartingLocking`, `waitForNextRestart`, `Close`. `WaitStop` is
two steps, taking the channel and being woken or timing out, and `Fired` is
the closing of the channel. Creation saves twice (`setHostConfig`, `saveCreated`), and
`createFailed` is its deferred removal. A driver mount, the release of the network or of the layer, a
removal and every save may fail; `ToDisk` truncates config.json before it writes, so
that a failed save, and a crash during one (`Saving`), can leave a file that the next daemon
cannot read. `Shutdown`, `Exit`, `Crash` and `restore` end a daemon and start
the next one; the process and config.json outlive it. Pause and unpause, which
only look and freeze under the lock, are steps without an actor.

### DeviceSet

A `devInfo` is a heap object with an address, since a caller keeps the pointer from
its lookup until it has the lock, and in between the device may be unregistered.
`devLock` is `devices.Lock()`, the field `lock` is `info.lock`. `AddDevice` is
`Create`, `LockInfo`, `OpenAdd`, `CreateDevice`, `registerDevice`, `CloseAdd` with a failure for each
system call; a deletion is `Remove` or `cleanupDeletedDevices`, `issueDiscard`,
`deactivateDevice` (with `Sleep`, `Wake` and `GiveUp` for a busy device), `OpenDelete`,
`DeleteThin`, `unregisterDevice` or `markForDeferredDeletion`, `CloseDelete`. `Start` is
`initMetaData` with the rollback of a pending transaction. Of transaction ids
only one comparison matters, and `pending` is its outcome. The pool, the names that
map to its devices and the mounts are the kernel's; they outlive the daemon, and
all but the pool end with a `Reboot`. `nrDeletedDevices` is unsigned and wraps at
`maxUint`. `Setups` are the initial states: the options for deferred removal, deferred deletion and
discards, and a pool on loopback files that this daemon creates or that were there, or
on a device the user gives, which `checkThinPool` wants empty (`pool`). `setupBaseImage`,
`createBaseImage` and `saveBaseDeviceUUID` make the base, activating it to format it. Only a daemon
that runs `initMetaData` starts the deletion worker (`HasWorker`). The history variable `reused` records
that an id was given out while a `devInfo` that somebody refers to, or a file, still
named it.

## 3. Runs

| Run | Instance | Question | Result |
|---|---|---|---|
| `transfer_manager` | 3 calls, two of them with one key, limit 1 | scheduler: safety, refinement of the pool, liveness | holds |
| `progress` | 2 watchers, 2 events | nothing missed at a release, every release returns | holds |
| `push_safety` | 2 pushes, up to 2 tags, 2 layers, limit 1 | success means remote; entries are true; the unlocked read never meets a write | holds |
| `push_retry` | 2 pushes of one layer, 2 attempts | every push ends; only its own client cancels a push | holds |
| `layer_safety` | 2 clients, stack of 3 chains, depth limit 2 | counts, panics, removal, wholeness, with failures and restarts | holds |
| `mount_safety` | 2 clients, 1 chain, 1 name | the same with writable layers; lock order | holds |
| `download` | 2 clients, images of 2 layers, one with a repeated blob, limit 1, 1 failure, the first layer there or not | success means present; nothing leaks; every download ends | holds |
| `download_parent` | the same | does a registration always find the layer below it? | violated |
| `images` | 3 clients, 5 calls, 2 images, 1 tag, 1 container, 2 failures or crashes | can the stores be restored; do files, parents and children agree? | holds |
| `container` | 2 clients, 2 calls after the creation, `on-failure` with 1 retry, 1 failure, shutdown or crash | released, saved, removed, stopped; do calls end? | holds |
| `devices` | 2 callers and the worker, base and 1 device, 4 setups, 2 failures or crashes | data, mounts, counts, write-ahead record, deferred deletion | holds |
| `device_lost` | 1 caller, base and 2 devices, ids 0 to 7, 1 crash | is data kept although ids are reused? | violated |

What the properties say is in the comment above each. The ones that carry most:

- `WatchedNotCancelled`: `Transfer` puts its watcher on the transfer before it
  looks at the context. In the other order, the last watcher could leave in
  between.
- `ReleasedExactlyOnce`: `released` is closed by whoever comes last of `Close`
  and the last `Release`; a second close would panic.
- `NothingMissed`: the ping in `Watch` (the receive from `broadcastSyncChan` in
  the code) is what makes it hold.
- `UnlockedReadSafe`: `Descriptor` reads the map without the lock, after all uploads
  of the push have ended, and that is sufficient, also for uploads created by this
  push and joined by another.
- `CancelledByOwnClient`: a push that has joined the upload of another one, waits for
  it through its retries and delays, and is not cancelled with the client that
  began it; the transfer's own context and the order of watching and looking in `Transfer`
  make it so.
- `CountsExact`: the count of a layer is the number of references to it,
  in-flight operations, children in the map and mounts, also after a reload from a
  half-removed directory.
- `HeldIsWhole`: a layer that a client holds has its data and metadata unless
  a removal of it has failed half way before (`doomed`): such a layer stays in the
  map with count 0 and is handed out again.
- `NothingLeaks`: when every client is idle and no transfer can take a step, the
  layer store holds what the images hold and no more.
- `RestartSucceeds`: every image with a configuration file has its layers, in every
  state, so that a crash at any point leaves a daemon that starts.
- `RunningIsOnDisk`: the saves of stop, rename, removal, monitor and callback
  overwrite each other's config.json, but never so that a running process is
  forgotten, unless the last save failed or was cut off (`unsaved`).
- `Released`: whatever failed in between, a container that is not running has given back
  its network and its mounts, but for a release that failed and was only
  logged (`sandboxLeft`) and driver mounts that failed after they were counted (`failedMounts`).
- `StopMeansStoppedUnlessMissed`: when `containerStop` is done, the process is gone
  although the monitor may have restarted it in between; excepted is a stop that
  met the monitor after its last look at `shouldStop` (`missed`).
- `CallsEnd`: no wake-up of `waitChan` is lost and no lock is kept.
- `DataSafe` and `MountedIsActive`: no deletion, rollback, worker or second mount
  takes the device of somebody else, as long as no id was given out while a `devInfo`
  or a file still named it; `device_lost` shows what happens then.
- `DeletedCounted` and `DeferredDeleteEnds`: the worker sleeps while its counter is 0; the
  counter covers what waits for a deletion, and where there is a worker the deletion is
  carried out.
- `WriteAhead`: the pool gains and loses devices only under a record on disk.

Where a property has an exception (`doomed`, `undeleted`, `raced`,
`stray`, `dangling`, `missed`, `unsaved`, `failedMounts`, `sandboxLeft`, `Lost`, `reused`),
the exception is a history variable or a state that marks one definite race or
failure of the code, and TLC refutes the property without it: on the run's own instance,
except for `reused`, which takes the instance of `device_lost`. Section 6 lists them.

Every property has a mutant of a mapped definition, a plausible slip in the code
such as an off-by-one, a dropped guard or a forgotten count, that TLC refutes with
the same configuration. Each module with state also has a type invariant
(`TypeOK`, `LayerTypeOK`, ...); it holds on the same instances and is left out of
the runs. Section 4 says which are proved.

### Bounds

Three calls with two on one key and one slot are the least with which a transfer
is joined, another one queues and a slot changes hands. Two watchers suffice because watchers do not
see each other except through the broadcaster. Two events allow one to be
published while another is in hand. In `push_safety` one push has two tags and one
image has a repeated layer, so that an upload is met as known, as running under the
other push, and as finished. The stack of three chains with depth limit 2 has a
chain that may be registered, one at the limit and one beyond it, and a release that
cascades. Two clients race for the same chain or the same name. The run with
writable layers has one chain, because two chains and two clients give more than
3.7 million states; one client with two chains (267,693 states) holds too.

In `download` each client makes one call; two calls can share, inherit and lose
each other's transfers, and the repeated blob gives a transfer with two transfers to wait
for (437,118 states). Five calls in `images` suffice for a pull, a container, a commit, a
removal and one call that races with any of them, three clients for a deletion
between the halves of a `Create` while a commit is on its way to `SetParent`, and two faults
for a crash after a failed write (1,179,655 states). `container` has 414,008 states;
the creation and two calls are what a race needs, the retry allows one automatic
restart between them, and the one fault is a failing step, a shutdown or a crash. With
`unless-stopped` beside `on-failure` (844,000 states) it holds too, but takes longer than a
run should. `devices` has 296,882 states: two callers and the worker on one device, four setups
(among them a pool with a foreign device and one without a free id), and two faults,
so that a crash may follow a failure. On this instance no id is given out while a stale `devInfo` still names it
(`reused` stays false), so the exception in `DataSafe`, `MountedIsActive` and `DeletedCounted` hides
nothing here; the instance of `device_lost`, with two devices, reaches it.

`maxActivity`, `maxEvents`, `maxTags`, `maxUploadAttempts`, `maxCalls`, `maxFaults`, `maxMounts` and
`maxDeviceID` are the named bounds; in the code an id has 24 bits, and most of the
others have no limit; `maxUint` stands for the width of a counter. Where clients are
interchangeable (`LayerStore`, `MountStore`, `Images`) their
permutations are declared as symmetry; these runs check no liveness. Deadlock is
checked in the runs of the transfer manager, progress, push, layers and mounts, where the end of the
work is an explicit stuttering action. In `download`, `images`, `container` and `devices` the bound on
calls and faults ends every behaviour; there `DownloadEnds`, `CallsEnd` and
`DeferredDeleteEnds` say that nothing is left waiting.

### Fairness

Weak fairness is given to goroutines that only wait for the scheduler: the
broadcaster, the watchers, the `DoFunc`, calls that have begun, the monitor,
the recovery of the device set. That the `DoFunc` goes on is an
assumption about the network: its requests return. Strong fairness is
given to steps that take `tm.mu` (callers and manager goroutines) and to the tick of
the deletion worker: a waiter for a mutex is assumed to get it in the end, however
often others are faster. In `Container` and `Download` weak fairness of all calls together is
enough, because there are only so many calls. Timers fire, a process dies of SIGKILL
unless it is frozen, and a container that keeps a device open ends. A client that copies or
exports reads its archive to the end or goes away: `CallsEnd` rests on this, because
a copy keeps the lock of the container until its archive is closed. No fairness is
given to what a user decides: calling, cancelling, releasing a progress watcher,
sending one more event, nor to a process that ends by itself, nor to failures,
crashes and reboots.

## 4. Proofs

TLAPS checks the theorems below for every value of the constants that satisfies the
assumptions named in the modules, so for any number of clients, calls, layers,
mounts, references, containers, failures and restarts. Every invariant was first checked by TLC.

| Theorem | States |
|---|---|
| `TypeCorrect`, `ConcurrencyBounded`, `DedupCorrect`, `WatchSafe`, `ReleaseExact`, `UnwatchedCancelled` | `TransferManager`: `TypeOK`, `ConcurrencyBound`, `OneTransferPerKey`, `WatchedNotCancelled`, `ReleasedExactlyOnce`, `UnwatchedIsCancelled` |
| `SlotsRefined` | `TransferManager` implements `SlotPool` (`SlotsImplemented`) |
| `ProgressTypeCorrect`, `NothingIsMissed`, `LastEventIsWritten` | `TransferProgress`: types, `NothingMissed`, `LastEventWritten` |
| `UploadedIsRemote`, `EntriesAreTrue`, `UnlockedReadIsSafe`, `UploadsBounded`, `OnlyOwnClientCancels` | `Push`: `UploadEnsuresRemote`, `EntriesTrue`, `UnlockedReadSafe`, `ConcurrencyBound`, `CancelledByOwnClient` |
| `StoreHoldsExactly`, `DownloadedStays` | `Download`: `StoreIsHeld`, `DownloadedIsPresent` |
| `LayerNeverPanics`, `LayerCountsExact`, `HeldLayersAreWhole`, `UsedLayersStay` | `LayerStore`: `NoPanic`, `CountsExact`, `HeldIsWhole`, `OnlyUnusedRemoved` (an action property) |
| `PinsAreExact`, `MountsStandOnChains`, `MountedDataStays`, `StoreKeepsLayers` | `MountStore`: `PinsExact`, `MountStandsOnChain`, `MountedStays` (an action property), and the invariants of `LayerStore` beside mounts |
| `RestartAlwaysSucceeds`, `ParentsExist`, `ImagesHaveContent`, `AllChildrenExist` | `Images`: `RestartSucceeds`, `ParentExists`, `ImageHasContent`, `ChildrenExist` |

Each module has one inductive invariant, one lemma per action that it is kept, and
a theorem that it always holds, from which the others follow. Why the properties alone
are not inductive, and what the invariants add:

**Transfer manager** (`IInv`; `LimitAssumption`, `NoneAssumption`: the limit is a natural number, and `None` is no
call).

- `SlotInv`: the counter is the number of started transfers whose manager still
  waits for `inactive`. `ConcurrencyBound` says nothing of the counter, on which
  `TakeSlot` decides.
- `QueueInv`: a queued transfer has not started, is queued once, and there is a
  queue only while no slot is free. It makes the hand-over in `inactivate` a step
  that leaves the number of holders as it is.
- `LifeInv`: how far `DoFunc`, channels and manager goroutine can be apart. It
  excludes that `ManagerDone` gives back a slot the transfer never had.
- `MapInv`: the map and the tracked transfers determine each other.
- `WatchInv`: `watchers` are exactly the calls that look at the transfer.
- `LockInv`: a call between watching and deciding has `tm.mu`, and what it
  looks at is still tracked, because `ManagerDone` needs the lock.

`TransferNewSlots` and `InactivateSlots` contain the reasoning about cardinalities. In the
refinement the two actions that touch the pool map to its steps, all others stutter.

**Progress** (`ProgressInv`; `ProgressAssumption`). `BroadcastInv` relates what was received, published and
signalled to where the broadcaster is; `WatcherInv` says what a watcher in each state has
read and written, against what it owes to a release.

**Push** (`PushInv`; `PushAssumption`: the calls are push, tag and layer, and every push has a
tag and every image a layer). It contains `IInv`, kept because every step is one of
the manager or leaves it alone. `UploadInv`: a call watches transfers of its own layer only, and a
transfer that ended without an error left its layer in the registry. `CallsInv` says for
each loop of `Upload` which calls have been made, have ended, have been released, and
that the transfers of earlier tags have ended; that is why the unlocked read
meets no writer. `ConcurrencyBound` then holds because `Push` implements `TransferManager`
(the lemma `PushImplementsManager`). `CancelInv` adds that an upload ends as cancelled only when its
transfer was: a push watches what it waits for, and `WatchedNotCancelled` says that this is not
cancelled, so only the push's own context can end it so.

**Download** (`DownloadInv`; `DownloadAssumption`). The store has exactly the layers somebody holds
(`StoreIsHeld`), a transfer that ended well keeps its layer while it is watched (`LayersInv`), and
the transfers a call watches are for longer and longer parts of its image, the last for
all of it (`WatchesInv`, `TopInv`).

**Layer store** (`LayerInv`, `StoreInv`; `ChainAssumption`: chains are well founded; `FiniteAssumption`,
`MountAssumption`: finitely many clients, chains and names). `MapInv`: the map is closed under
parents, and nobody counts on a layer outside it. `ClientInv`: what an operation
under way has locked and counted. `DiskInv`: a layer whose removal has not begun is
whole on disk or not there at all. The counts are cardinalities, and most of the work is
that a step changes a count and a set of users together (`Balanced`). `StoreInv` adds
the operation under `mountL` (`OperationInv`) and the references to mounts (`ReferencesInv`); a mount's
share of a count is `pins`, so that `LayerInv` is kept as it stands.

**Images** (`ImagesInv`; `ImagesAssumption`: the pulled and the committed image differ). The argument
goes through the calls: `CallInv` says what a call at each label may rely on, `OneMaker` that one
commit at a time makes the committed image, `HeldInv` that the layers of what somebody
holds are there, `FilesInv` that an image with a file is in memory or about to be, `MemoryInv`
the converse, and `ParentInv` and `ChildInv` that the two directions of the relation
agree across crashes and files that could not be written or removed.

Only model-checked: all liveness properties (fairness is out of the prover's reach);
`NoLockCycle` and `NothingLeaks`, which use `ENABLED`; everything about `DeviceSet`
and `Container`; that the numbers of mounts and calls stay within the bounds of the model.

## 5. Findings

Two runs show behaviour that contradicts what the source says of itself.

1. `device_lost`: a daemon that crashes during a deletion rolls it back at the next
   start, deleting the device and its file and freeing its id, but the
   entry was loaded into memory before and stays. The id goes to the next layer. The
   first layer is still known to the layer store, which removes it again; the
   stale entry now names the other layer's device, which is discarded and deleted.
2. `download_parent`: client 1 downloads `x` and `xy`; client 2 looks for `x` before it is
   registered, and asks for its transfer when that is done and forgotten, so that it
   makes a new one; for `xy` it joins the transfer of client 1, whose parent is
   the old transfer of `x`. Client 1 goes away, the old transfer is released and the
   layer `x` removed, and the transfer of `xy`, which client 2 watches, fails.

## 6. What TLC found besides

These are reached in the models above, too, but are no runs of their own. The
first five contradict a comment.

- `push_v2.go` 396 says every layer has an entry in `remoteLayers` when `Descriptor` is
  called. A push that joins the upload of another push gets none.
- `transfer.go` 24 says the watcher is signalled when there is new progress. The signal is
  lost while the watcher is busy (123); the newest event then waits for the next one, or
  for the end.
- A failed `Mount` leaves the activity counted (`mounted_layer.go` 127), and `ReleaseRWLayer`
  refuses with `ErrActiveMount` a layer that is not mounted (`layer.go` 39); a container
  whose mount once failed keeps its layer when it is removed (`failedMounts`).
- A crash between `mount-id` and `parent` (`layer_store.go` 527) brings a writable layer back without
  its parent (`layer.go` 114).
- `RemovalInProgress` is saved although `state.go` 24 says it need not be: after a crash
  during a removal, later removals report success and do nothing.
- A stop or kill that meets a restarting container after the monitor's last look
  sends no signal (`missed`). A daemon that dies between the start of the process and
  its save, or while it writes config.json, forgets the process (`unsaved`). A network that
  could not be released stays allocated (`sandboxLeft`). When `Run` fails after the callback of a first
  start, the container stays marked as running without a monitor (`Lost`).
- A failed rename of a container that was removed meanwhile reserves the old name
  again.
- `Create` of an image that is being deleted leaves it in memory without a file
  (`raced`); `Delete` ignores that the file could not be removed (`undeleted`), nor the
  parent file of a child, which then names an image that is gone (`dangling`); `SetParent` makes a
  deleted image a child, keeps a child whose parent file it could not write, which
  blocks the deletion of the parent until a restart (`stray`), and accepts a parent that is in
  memory without a file (`dangling`); a tag can be put on an image that was deleted
  during the pull, though `image_delete.go` 45 calls that a hard conflict.
- The daemon that has just created its loopback files has no deletion worker
  (`deviceset.go` 734 and 1765): a device whose deletion it defers waits for the next start.
- On a given pool, a crash after the base is registered and a failure between the
  deletion of that unformatted base and the creation of the next one leave a pool that
  every later daemon refuses, because it has seen a transaction (`deviceset.go` 1034, 1164).
- The rollback at a start (`deviceset.go` 1326) may leave the file when its removal fails, as
  the entry in memory always stays; a device counted as deleted twice would take the
  unsigned counter below 0 (1876), which `DeletedCounted` excludes while no id is reused.
- Two hazards of the layer store are left without a property: the data race on
  the map of references (`ro_layer.go` 77, taken as an atomic step), and a chain that grows
  past `maxLayerDepth` after a restart has lost a parent (`layer_store.go` 251).

## 7. Not modelled

The map covers a small share of the tree, because most of its 87,500 lines have no
concurrent or persistent state: they are option tables, flag and
request structures, printing, platform variants, archive and file formats,
generated lists and the helpers of the integration tests, where a model would
only repeat the code. `PROJECT.json` gives the reason part by part. In short:

- Contents of layers, digests, manifests, tar streams and progress texts are data
  that no property tells apart. HTTP, authentication, the registry and the Hyper service
  are outside the repository.
- Commands of the client send one request and print the answer. The streams of
  run, attach and exec copy bytes between a terminal and a peer that is not in the
  repository.
- Networks, links, volumes, exec, logs and stats of a container: `Container` keeps
  the network sandbox and the mount of the writable layer, which its properties
  are about. Volumes and their mount points are independent of it except for
  `delete.go` 47, where a forced removal that failed still removes mount points.
- The other graph drivers: `LayerStore` and `MountStore` model a driver by its promise,
  each of whose calls may fail.
- The composition of pushes with the layer store (an upload that reads a layer whose
  reference its push has given up, `push_v2.go` 339): the product of the two models is beyond
  what TLC finishes.
- The distribution metadata is a cache in files; its unlocked read and write
  (`v2_metadata_service.go` 73) may lose an entry, on which nothing depends.
- Failures that only leave something nobody refers to (the driver layer of a failing
  `StartTransaction`, the writable layer of a container whose removal was
  interrupted after its directory was gone) are not tracked beyond the step.
- The wrap of 24-bit device ids, the growing of a device's filesystem, and the upgrade of
  old metadata files. The migration of old graph directories runs alone, before
  the store opens.
- Only one container, so that links and conflicts of names between containers do not
  occur, and one level of parents among the images.
