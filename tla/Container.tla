------------------------------ MODULE Container ------------------------------
(***************************************************************************)
(* The life of one container in the daemon: creation, start, the monitor   *)
(* that supervises its process and applies the restart policy, stop, kill, *)
(* pause, copy, export, rename and removal by concurrent API calls, and    *)
(* what a shutdown or a crash of the daemon leaves for the next daemon to  *)
(* restore.                                                                *)
(*                                                                         *)
(* container.Lock() is the mutex of its State.  Calls hold it for a single *)
(* step of this model, except for a start, which holds it until the        *)
(* process runs, and a copy, which holds it until the archive is read.     *)
(*                                                                         *)
(* A call is a record with the label of its next step and the frames of    *)
(* the calls it is nested in: where to go on after success, and after an   *)
(* error.  Every exit code but 0 is 1.  The channel State.waitChan is      *)
(* closed and replaced at every change of state, which wakes the calls     *)
(* that wait on it.                                                        *)
(***************************************************************************)
EXTENDS Naturals, Sequences, FiniteSets

CONSTANTS Clients, Daemon, Ops, Policies, MaximumRetryCount, maxCalls, maxFaults,
          None, oldName, newName

ASSUME ContainerAssumption ==
    /\ Daemon \notin Clients
    /\ Policies \subseteq {"no", "always", "unless-stopped", "on-failure"}
    /\ MaximumRetryCount \in Nat /\ maxCalls \in Nat /\ maxFaults \in Nat
    /\ oldName # newName

Actors == Clients \cup {Daemon}

VARIABLES
    policy,         \* HostConfig.RestartPolicy.Name
    \* memory of the daemon
    state,          \* container.State, Name and HasBeenManuallyStopped
    lock,           \* holder of the container's lock, or None
    monitor,        \* the containerMonitor
    call,           \* the call each actor is in
    registered,     \* daemon.containers and idIndex know the container
    nameIndex,      \* names reserved for the container
    activityCount,  \* mounts of the RW layer
    up,             \* "down", "restoring", "up" or "stopping"
    \* the disk
    root, disk,     \* the container's directory and what its config.json decodes to, or None
    rwLayer,        \* the RW layer exists
    \* the exec driver, the kernel and libnetwork
    process,        \* "none", "alive", "killed" (SIGKILL sent) or "exited"
    frozen,         \* its freezer cgroup
    active,         \* the driver's activeContainers
    sandbox,        \* the network sandbox
    \* bounds and history
    calls, faults,  \* requests made and failures met so far
    orphan,         \* a process of an earlier daemon runs on, unknown to this one
    unsaved,        \* the last save failed, or was cut off by the end of the daemon
    failedMounts,   \* driver mounts that failed after they had been counted
    sandboxLeft,    \* a release of the network failed and was only logged
    mounted,        \* mounts that exports and restarts have to give back
    missed,         \* a kill found the container restarting, too late to stop it
    stopper         \* stop calls that no start call overlaps

stateVars == <<state, lock, monitor, call>>
indexVars == <<registered, nameIndex, activityCount, up>>
diskVars == <<root, disk, rwLayer>>
kernelVars == <<process, frozen, active, sandbox>>
boundVars == <<calls, faults>>
crashVars == <<orphan, unsaved>>
leakVars == <<failedMounts, sandboxLeft>>
historyVars == <<crashVars, leakVars, mounted, missed, stopper>>
ghostVars == <<boundVars, historyVars>>
vars == <<policy, stateVars, indexVars, diskVars, kernelVars, ghostVars>>

NewState == [Running |-> FALSE, Paused |-> FALSE, Restarting |-> FALSE,
             RemovalInProgress |-> FALSE, Dead |-> FALSE, ExitCode |-> 0,
             HasBeenManuallyStopped |-> FALSE, Name |-> oldName]
NoMonitor == [pc |-> "none", shouldStop |-> FALSE, startSignal |-> FALSE, err |-> FALSE,
              first |-> TRUE, failureCount |-> 0, exitCode |-> 0]
Idle == [pc |-> "idle", stack |-> <<>>, wait |-> "no", force |-> FALSE]

Init ==
    /\ policy \in Policies
    /\ state = NewState /\ lock = None /\ monitor = NoMonitor
    /\ \E c \in {d \in Clients : "create" \in Ops[d]} :
         call = [a \in Actors |-> IF a = c THEN [Idle EXCEPT !.pc = "create"] ELSE Idle]
    /\ registered = FALSE /\ nameIndex = {} /\ activityCount = 0
    /\ up = "up"
    /\ root = FALSE /\ disk = None /\ rwLayer = FALSE
    /\ process = "none" /\ frozen = FALSE /\ active = FALSE /\ sandbox = FALSE
    /\ calls = 0 /\ faults = 0 /\ orphan = FALSE /\ unsaved = FALSE
    /\ failedMounts = 0 /\ sandboxLeft = FALSE
    /\ mounted = {} /\ missed = FALSE /\ stopper = {}

-----------------------------------------------------------------------------
(* Building blocks *)

Fault == faults < maxFaults /\ faults' = faults + 1
NoFault == UNCHANGED faults
\* At most one of the calls that a step makes fails; f says which.
Fails(f) == IF f = "none" THEN NoFault ELSE Fault
Request == calls < maxCalls /\ calls' = calls + 1
Free == lock = None

At(a, pc) == call[a].pc = pc
\* The call of a goes on at label pc; "ok" and "err" return from the
\* innermost call.  The last return leaves the actor idle.
Step(r, pc) ==
    IF pc \notin {"ok", "err"} THEN [r EXCEPT !.pc = pc, !.wait = "no"]
    ELSE IF r.stack = <<>> THEN Idle
    ELSE [r EXCEPT !.pc = Head(r.stack)[pc], !.stack = Tail(@), !.wait = "no"]
Goto(a, pc) == call' = [call EXCEPT ![a] = Step(@, pc)]
Enter(a, pc, frames) ==
    call' = [call EXCEPT ![a].pc = pc, ![a].wait = "no", ![a].stack = frames \o @]
Leave(a) == call' = [call EXCEPT ![a] = Idle]

NotFired == UNCHANGED call    \* mutant
\* close(waitChan) wakes whoever waits on it.
Fired == call' = [a \in Actors |-> IF call[a].wait = "waiting"
                                   THEN [call[a] EXCEPT !.wait = "woken"] ELSE call[a]]

\* os.Create truncates config.json before json.Encode writes it, and the host
\* config follows: a failed save leaves the old file, an empty one, which does
\* not decode, or the new one.  It always fails when the directory is gone.
ToDisk(s, f) ==
    IF ~ root THEN UNCHANGED <<disk, unsaved>>
    ELSE IF f = "save" THEN disk' \in {disk, None, s} /\ unsaved' = TRUE
    ELSE disk' = s /\ unsaved' = FALSE
Fell(n) == IF n = 0 THEN 0 ELSE n - 1    \* Unmount of a layer that is not mounted fails

CleanupKeepsNetwork(f) ==    \* mutant
    UNCHANGED <<sandbox, sandboxLeft>> /\ activityCount' = Fell(activityCount)
\* Cleanup runs after every exit of a monitor and after a failed start.  That
\* the sandbox was not found or not deleted is only logged.
Cleanup(f) ==
    /\ sandbox' = (sandbox /\ f = "network")
    /\ sandboxLeft' = (sandboxLeft \/ sandbox')
    /\ activityCount' = Fell(activityCount)

SetRunning(s) == [s EXCEPT !.Running = TRUE, !.Paused = FALSE, !.Restarting = FALSE,
                  !.ExitCode = 0]
SetStopped(s, code) == [s EXCEPT !.Running = FALSE, !.Restarting = FALSE, !.ExitCode = code]
SetRestarting(s, code) == [s EXCEPT !.Running = TRUE, !.Restarting = TRUE, !.ExitCode = code]

-----------------------------------------------------------------------------
(* WaitStop.  Of the waits of stop, kill, shutdown and wait, those with a   *)
(* time limit have an entry for it.                                        *)

Waits == [waitStop    |-> [then |-> "stopped",      late |-> "force"],
          waitForce   |-> [then |-> "stopped",      late |-> None],
          waitRefused |-> [then |-> "stillRunning", late |-> "stillRunning"],
          waitDirect  |-> [then |-> "waitDead",     late |-> "direct"],
          waitDead    |-> [then |-> "ok",           late |-> None],
          waitTerm    |-> [then |-> "stop",         late |-> "shutdownKill"],
          waitEnd     |-> [then |-> "exit",         late |-> None]]

AtWait(a) == call[a].pc \in DOMAIN Waits

WaitStop(a) ==
    /\ AtWait(a) /\ call[a].wait = "no" /\ Free
    /\ IF state.Running THEN call' = [call EXCEPT ![a].wait = "waiting"]
                        ELSE Goto(a, Waits[call[a].pc].then)
    /\ UNCHANGED <<policy, state, lock, monitor, indexVars, diskVars, kernelVars, ghostVars>>

Woken(a) ==
    /\ AtWait(a) /\ call[a].wait = "woken"
    /\ Goto(a, Waits[call[a].pc].then)
    /\ UNCHANGED <<policy, state, lock, monitor, indexVars, diskVars, kernelVars, ghostVars>>

Timeout(a) ==
    /\ AtWait(a) /\ call[a].wait = "waiting" /\ Waits[call[a].pc].late # None
    /\ IF Waits[call[a].pc].late = "force"
       THEN Enter(a, "kill", <<[ok |-> "stopped", err |-> "waitForce"]>>)
       ELSE Goto(a, Waits[call[a].pc].late)
    /\ UNCHANGED <<policy, state, lock, monitor, indexVars, diskVars, kernelVars, ghostVars>>

-----------------------------------------------------------------------------
(* daemon.create.  An error is followed by a forced removal.  Before        *)
(* Register that removal does not find the container.                      *)

newContainer(a) ==
    /\ At(a, "create")
    /\ nameIndex' = {oldName}
    /\ \/ NoFault /\ rwLayer' = TRUE /\ Goto(a, "register")
       \/ Fault /\ UNCHANGED rwLayer /\ Goto(a, "err")
    /\ UNCHANGED <<policy, state, lock, monitor, registered, activityCount, up, root, disk,
                   kernelVars, calls, historyVars>>

Register(a) ==
    /\ At(a, "register")
    /\ registered' = TRUE
    /\ Goto(a, "mkRoot")
    /\ UNCHANGED <<policy, state, lock, monitor, nameIndex, activityCount, up,
                   diskVars, kernelVars, ghostVars>>

\* The deferred ContainerRm of create.
createFailed(a) ==
    IF registered THEN call' = [call EXCEPT ![a].pc = "setRemoval", ![a].force = TRUE]
                  ELSE Goto(a, "err")

\* A mount that fails in the driver stays counted.
MountFails ==
    activityCount' = activityCount + 1 /\ failedMounts' = failedMounts + 1

\* The directory, and setHostConfig with its save.
setHostConfig(a) ==
    /\ At(a, "mkRoot") /\ Free
    /\ root' = TRUE
    /\ \/ NoFault /\ disk' = state /\ unsaved' = FALSE /\ Goto(a, "settings")
       \/ /\ Fault /\ createFailed(a)
          /\ UNCHANGED <<disk, unsaved>> \/ (disk' \in {None, state} /\ unsaved' = TRUE)
    /\ UNCHANGED <<policy, state, lock, monitor, registered, nameIndex, activityCount, up,
                   rwLayer, kernelVars, calls, orphan, leakVars, mounted, missed, stopper>>

\* The volumes are made while the layer is mounted.
createSettings(a) ==
    /\ At(a, "settings")
    /\ \/ /\ rwLayer /\ NoFault /\ Goto(a, "save")
          /\ UNCHANGED <<activityCount, failedMounts>>
       \/ /\ IF rwLayer THEN Fault ELSE NoFault
          /\ createFailed(a)
          /\ UNCHANGED <<activityCount, failedMounts>> \/ (rwLayer /\ MountFails)
    /\ UNCHANGED <<policy, state, lock, monitor, registered, nameIndex, up, diskVars, kernelVars,
                   calls, crashVars, sandboxLeft, mounted, missed, stopper>>

saveCreated(a) ==
    /\ At(a, "save") /\ Free
    /\ \E f \in {"none", "save"} :
         /\ Fails(f) /\ ToDisk(state, f)
         /\ IF root /\ f = "none" THEN Goto(a, "ok") ELSE createFailed(a)
    /\ UNCHANGED <<policy, state, lock, monitor, indexVars, root, rwLayer, kernelVars, calls,
                   orphan, leakVars, mounted, missed, stopper>>

-----------------------------------------------------------------------------
(* Start *)

\* ContainerStart refuses a paused container; a restart and restore do not
\* come through it.
containerStart(a) ==
    /\ call[a].pc \in {"start", "containerStart"} /\ Free
    /\ IF state.Running \/ (At(a, "start") /\ state.Paused) THEN Goto(a, "ok") /\ UNCHANGED lock
       ELSE IF state.RemovalInProgress \/ state.Dead THEN Goto(a, "err") /\ UNCHANGED lock
       ELSE lock' = a /\ Goto(a, "setup")
    /\ UNCHANGED <<policy, state, monitor, indexVars, diskVars, kernelVars, ghostVars>>

\* The deferred function of containerStart after an error, but for Cleanup.
startFailed(a, f) ==
    /\ state' = [state EXCEPT !.ExitCode = IF @ = 0 THEN 1 ELSE @]
    /\ ToDisk(state', f)
    /\ lock' = None
    /\ Goto(a, "err")

\* The RW layer is mounted, the network allocated, the volumes mounted and
\* the monitor started.  What fails is cleaned up: Cleanup unmounts the layer,
\* too, when Mount has already done so because the driver changed the path.
StartMonitor(a) ==
    /\ At(a, "setup")
    /\ \/ /\ rwLayer /\ root    \* allocateNetwork writes the host config
          /\ activityCount' = activityCount + 1
          /\ sandbox' = TRUE
          /\ monitor' = [NoMonitor EXCEPT !.pc = "launch"]
          /\ state' = [state EXCEPT !.HasBeenManuallyStopped = FALSE]
          /\ Goto(a, "starting")
          /\ stopper' = {}
          /\ NoFault
          /\ UNCHANGED <<lock, disk, unsaved, sandboxLeft>>
       \/ /\ \E f \in {"none", "save", "network"} :
               /\ IF rwLayer /\ root THEN Fault /\ f = "none" ELSE Fails(f)
               /\ startFailed(a, f)
               /\ sandbox' = (sandbox /\ f = "network")
               /\ sandboxLeft' = (sandboxLeft \/ sandbox')
          /\ activityCount' \in {activityCount, Fell(activityCount)}
          /\ UNCHANGED <<monitor, stopper>>
    /\ UNCHANGED <<policy, registered, nameIndex, up, root, rwLayer, process, frozen, active,
                   calls, orphan, failedMounts, mounted, missed>>

\* The select of wait: the process runs, or the monitor has returned an error.
Started(a) ==
    /\ At(a, "starting") /\ monitor.startSignal
    /\ lock' = None
    /\ Goto(a, "ok")
    /\ UNCHANGED <<policy, state, monitor, indexVars, diskVars, kernelVars, ghostVars>>

NotStarted(a) ==
    /\ At(a, "starting") /\ monitor.err
    /\ \E f \in {"none", "save", "network"} : Fails(f) /\ Cleanup(f) /\ startFailed(a, f)
    /\ UNCHANGED <<policy, monitor, registered, nameIndex, up, root, rwLayer, process, frozen,
                   active, calls, orphan, failedMounts, mounted, missed, stopper>>

-----------------------------------------------------------------------------
(* The monitor *)

Monitor(pc) == monitor.pc = pc
ToPC(pc) == monitor' = [monitor EXCEPT !.pc = pc]

\* StartLogging fails, or the driver fails to start the process, which also
\* sets the exit code in the first run.  An error of the first run is
\* returned without a change of the state to stopped.
LaunchFails ==
    /\ Monitor("launch") /\ Fault
    /\ IF monitor.first
       THEN ToPC("failed") /\ state' \in {state, [state EXCEPT !.ExitCode = 1]}
       ELSE /\ \/ ToPC("finish")
               \/ monitor' = [monitor EXCEPT !.pc = "reaped", !.exitCode = 1]
            /\ UNCHANGED state
    /\ UNCHANGED <<policy, lock, call, indexVars, diskVars, kernelVars, calls, historyVars>>

Run ==
    /\ Monitor("launch")
    /\ active' = TRUE /\ process' = "alive" /\ frozen' = FALSE
    /\ ToPC("callback")
    /\ UNCHANGED <<policy, state, lock, call, indexVars, diskVars, sandbox, ghostVars>>

\* The callback does not take the lock: containerStart holds it when the
\* container is first started, and nobody need hold it at a restart.
callback ==
    /\ Monitor("callback")
    /\ state' = SetRunning(state)
    /\ Fired
    /\ monitor' = [monitor EXCEPT !.pc = "save", !.startSignal = TRUE]
    /\ UNCHANGED <<policy, lock, indexVars, diskVars, kernelVars, ghostVars>>

SaveNothing == Monitor("save") /\ Free /\ ToPC("run")    \* mutant
    /\ UNCHANGED <<policy, state, lock, call, indexVars, diskVars, kernelVars, ghostVars>>
\* That the save failed is only logged.
saveRunning ==
    /\ Monitor("save") /\ Free
    /\ \E f \in {"none", "save"} : Fails(f) /\ ToDisk(state, f)
    /\ ToPC("run")
    /\ UNCHANGED <<policy, state, lock, call, indexVars, root, rwLayer, kernelVars, calls,
                   orphan, leakVars, mounted, missed, stopper>>

\* The driver's Run returns once the process is gone.  When its wait fails
\* in the first run, the monitor takes it for a failure to start.
RunReturns ==
    /\ Monitor("run") /\ process = "exited"
    /\ process' = "none" /\ frozen' = FALSE /\ active' = FALSE
    /\ \/ /\ \E code \in {0, 1} : monitor' = [monitor EXCEPT !.pc = "reaped", !.exitCode = code]
          /\ NoFault /\ UNCHANGED state
       \/ /\ Fault /\ monitor.first
          /\ ToPC("failed")
          /\ state' = [state EXCEPT !.ExitCode = 1]
    /\ UNCHANGED <<policy, lock, call, indexVars, diskVars, sandbox, calls, historyVars>>

Capped(n) == IF n > MaximumRetryCount + 1 THEN MaximumRetryCount + 1 ELSE n
shouldRestart(code, failures) ==
    /\ ~ monitor.shouldStop
    /\ \/ policy \in {"always", "unless-stopped"}
       \/ /\ policy = "on-failure" /\ code # 0
          /\ MaximumRetryCount # 0 => failures <= MaximumRetryCount

\* resetMonitor and shouldRestart.
Decide ==
    /\ Monitor("reaped")
    /\ LET failures == IF monitor.exitCode = 0 THEN 0 ELSE Capped(monitor.failureCount + 1)
       IN monitor' = [monitor EXCEPT !.failureCount = failures,
                        !.pc = IF shouldRestart(monitor.exitCode, failures)
                               THEN "restarting" ELSE "finish"]
    /\ state' = IF monitor.shouldStop
                THEN [state EXCEPT !.HasBeenManuallyStopped = up # "stopping"] ELSE state
    /\ UNCHANGED <<policy, lock, call, indexVars, diskVars, kernelVars, ghostVars>>

SetRestartingLocking ==
    /\ Monitor("restarting") /\ Free
    /\ state' = SetRestarting(state, monitor.exitCode)
    /\ Fired
    /\ ToPC("backoff")
    /\ UNCHANGED <<policy, lock, indexVars, diskVars, kernelVars, ghostVars>>

Uninterrupted == FALSE    \* mutant
Interrupted == monitor.shouldStop

\* The delay is over or stopChan is closed; shouldStop is read without its mutex.
waitForNextRestart ==
    /\ Monitor("backoff")
    /\ monitor' = IF Interrupted THEN [monitor EXCEPT !.pc = "finish"]
                  ELSE [monitor EXCEPT !.pc = "launch", !.first = FALSE]
    /\ UNCHANGED <<policy, state, lock, call, indexVars, diskVars, kernelVars, ghostVars>>

\* The deferred function of start: SetStopped and Close.
Close ==
    /\ Monitor("finish") /\ Free
    /\ state' = SetStopped(state, monitor.exitCode)
    /\ \E f \in {"none", "save", "network"} : Fails(f) /\ Cleanup(f) /\ ToDisk(state', f)
    /\ Fired
    /\ ToPC("none")
    /\ UNCHANGED <<policy, lock, registered, nameIndex, up, root, rwLayer, process, frozen,
                   active, calls, orphan, failedMounts, mounted, missed, stopper>>

CloseFailed ==
    /\ Monitor("failed")
    /\ \E f \in {"none", "save", "network"} : Fails(f) /\ Cleanup(f) /\ ToDisk(state, f)
    /\ monitor' = [monitor EXCEPT !.pc = "none", !.err = TRUE]
    /\ UNCHANGED <<policy, state, lock, call, registered, nameIndex, up, root, rwLayer, process,
                   frozen, active, calls, orphan, failedMounts, mounted, missed, stopper>>

\* The process ends by itself or by a signal it does not ignore.
ProcessExits ==
    /\ process \in {"alive", "killed"} /\ ~ frozen
    /\ process' = "exited"
    /\ UNCHANGED <<policy, stateVars, indexVars, diskVars, frozen, active, sandbox, ghostVars>>

-----------------------------------------------------------------------------
(* Stop and kill *)

\* Sent to a process that has exited but is not reaped yet, a signal may
\* get through or not.
Delivered == active /\ process # "none"
Refused == ~ active \/ process \in {"none", "exited"}

NoExitOnNext == UNCHANGED monitor    \* mutant
ExitOnNext == monitor' = [monitor EXCEPT !.shouldStop = TRUE]

\* killWithSignal: ok and err are where the call goes on.
killWithSignal(a, sigkill, ok, err) ==
    IF state.Paused \/ ~ state.Running
    THEN Goto(a, err) /\ UNCHANGED <<monitor, process, missed>>
    ELSE /\ ExitOnNext
         /\ \/ /\ state.Restarting
               /\ Goto(a, ok)
               /\ missed' = (missed \/ monitor.pc \in {"launch", "callback"})
               /\ UNCHANGED process
            \/ /\ ~ state.Restarting /\ Delivered
               /\ process' = IF sigkill /\ process = "alive" THEN "killed" ELSE process
               /\ Goto(a, ok)
               /\ UNCHANGED missed
            \/ /\ ~ state.Restarting /\ Refused
               /\ Goto(a, err)
               /\ UNCHANGED <<process, missed>>

\* containerStop: IsRunning and the stop signal.  A container that stops
\* between the two makes it fail.
containerStop(a) ==
    /\ At(a, "stop") /\ Free
    /\ \/ /\ state.Running
          /\ killWithSignal(a, FALSE, "waitStop", "stopKill")
          /\ stopper' = stopper \cup {a}
       \/ /\ ~ state.Running
          /\ Goto(a, "ok") \/ Goto(a, "err")
          /\ UNCHANGED <<monitor, process, missed, stopper>>
    /\ UNCHANGED <<policy, state, lock, indexVars, diskVars, frozen, active, sandbox,
                   boundVars, crashVars, leakVars, mounted>>

stopKill(a) ==
    /\ At(a, "stopKill") /\ Free
    /\ killWithSignal(a, TRUE, "waitStop", "err")
    /\ UNCHANGED <<policy, state, lock, indexVars, diskVars, frozen, active, sandbox,
                   boundVars, crashVars, leakVars, mounted, stopper>>

Stopped(a) ==
    /\ At(a, "stopped")
    /\ Goto(a, "ok")
    /\ stopper' = stopper \ {a}
    /\ UNCHANGED <<policy, state, lock, monitor, indexVars, diskVars, kernelVars, boundVars,
                   crashVars, leakVars, mounted, missed>>

\* Kill: IsRunning and SIGKILL.  A container that stops between the two is
\* waited for.
Kill(a) ==
    /\ At(a, "kill") /\ Free
    /\ \/ state.Running /\ killWithSignal(a, TRUE, "waitDirect", "waitRefused")
       \/ /\ ~ state.Running
          /\ Goto(a, "err") \/ Goto(a, "waitRefused")
          /\ UNCHANGED <<monitor, process, missed>>
    /\ UNCHANGED <<policy, state, lock, indexVars, diskVars, frozen, active, sandbox,
                   boundVars, crashVars, leakVars, mounted, stopper>>

stillRunning(a) ==
    /\ At(a, "stillRunning") /\ Free
    /\ Goto(a, IF state.Running THEN "err" ELSE "waitDirect")
    /\ UNCHANGED <<policy, state, lock, monitor, indexVars, diskVars, kernelVars, ghostVars>>

\* The last resort: SIGKILL by pid, which is 0 while the container restarts.
killProcessDirectly(a) ==
    /\ At(a, "direct") /\ Free
    /\ process' = IF state.Running /\ ~ state.Restarting /\ process = "alive"
                  THEN "killed" ELSE process
    /\ Goto(a, "waitDead")
    /\ UNCHANGED <<policy, state, lock, monitor, indexVars, diskVars, frozen, active, sandbox,
                   ghostVars>>

-----------------------------------------------------------------------------
(* Pause, unpause, copy, export, restart, rename *)

containerPause ==
    /\ Request /\ up \in {"up", "stopping"} /\ registered /\ Free
    /\ state.Running /\ ~ state.Paused /\ ~ state.Restarting /\ active
    /\ frozen' = TRUE
    /\ state' = [state EXCEPT !.Paused = TRUE]
    /\ UNCHANGED <<policy, lock, monitor, call, indexVars, diskVars, process, active, sandbox,
                   faults, historyVars>>

containerUnpause ==
    /\ up \in {"up", "stopping"} /\ registered /\ Free
    /\ state.Running /\ state.Paused /\ active
    /\ frozen' = FALSE
    /\ state' = [state EXCEPT !.Paused = FALSE]
    /\ UNCHANGED <<policy, lock, monitor, call, indexVars, diskVars, process, active, sandbox,
                   ghostVars>>

\* docker cp: the lock is held until the client has read the archive.  What
\* fails after the mount undoes it.
containerArchivePath(a) ==
    /\ At(a, "copy") /\ Free
    /\ \/ /\ rwLayer /\ NoFault
          /\ lock' = a /\ activityCount' = activityCount + 1 /\ Goto(a, "copied")
          /\ UNCHANGED failedMounts
       \/ /\ IF rwLayer THEN Fault ELSE NoFault
          /\ Goto(a, "err") /\ UNCHANGED lock
          /\ UNCHANGED <<activityCount, failedMounts>> \/ (rwLayer /\ MountFails)
    /\ UNCHANGED <<policy, state, monitor, registered, nameIndex, up, diskVars, kernelVars, calls,
                   crashVars, sandboxLeft, mounted, missed, stopper>>

ArchiveClosed(a) ==
    /\ At(a, "copied")
    /\ lock' = None /\ activityCount' = Fell(activityCount)
    /\ Goto(a, "ok")
    /\ UNCHANGED <<policy, state, monitor, registered, nameIndex, up, diskVars,
                   kernelVars, ghostVars>>

\* docker export and docker restart mount the layer without the lock; a
\* restart goes on when the mount fails.
Mount(a) ==
    /\ call[a].pc \in {"export", "restart"}
    /\ \/ /\ rwLayer /\ NoFault
          /\ activityCount' = activityCount + 1 /\ mounted' = mounted \cup {a}
          /\ UNCHANGED failedMounts
       \/ rwLayer /\ Fault /\ MountFails /\ UNCHANGED mounted
       \/ ~ rwLayer /\ NoFault /\ UNCHANGED <<activityCount, mounted, failedMounts>>
    /\ IF At(a, "restart")
       THEN Enter(a, "stop", <<[ok |-> "containerStart", err |-> "unmount"],
                               [ok |-> "unmount", err |-> "unmount"]>>)
       ELSE Goto(a, IF a \in mounted' THEN "unmount" ELSE "err")
    /\ UNCHANGED <<policy, state, lock, monitor, registered, nameIndex, up, diskVars,
                   kernelVars, calls, crashVars, sandboxLeft, missed, stopper>>

Unmount(a) ==
    /\ At(a, "unmount")
    /\ activityCount' = IF a \in mounted THEN Fell(activityCount) ELSE activityCount
    /\ mounted' = mounted \ {a}
    /\ Leave(a)
    /\ UNCHANGED <<policy, state, lock, monitor, registered, nameIndex, up, diskVars,
                   kernelVars, boundVars, crashVars, leakVars, missed, stopper>>

\* The container may be removed between the lookup of the call and the
\* lock.  Then the save fails, and what undoes the change of name reserves
\* the old name again.  Nothing is saved to undo a save that failed itself.
ContainerRename(a) ==
    /\ At(a, "rename") /\ Free
    /\ LET old == state.Name
           new == IF old = oldName THEN newName ELSE oldName
           named(n) == [state EXCEPT !.Name = n]
       IN \/ /\ root /\ NoFault
             /\ state' = named(new) /\ ToDisk(named(new), "none")
             /\ nameIndex' = (nameIndex \ {old}) \cup {new}
          \/ /\ \/ root /\ Fault /\ ToDisk(named(new), "save")
                \/ root /\ Fault /\ state.Running /\ ToDisk(named(old), "none")
                \/ ~ root /\ NoFault /\ ToDisk(named(new), "none")
             /\ nameIndex' = (nameIndex \ {new}) \cup {old}
             /\ UNCHANGED state
    /\ Goto(a, "ok")
    /\ UNCHANGED <<policy, lock, monitor, registered, activityCount, up, root, rwLayer,
                   kernelVars, calls, orphan, leakVars, mounted, missed, stopper>>

-----------------------------------------------------------------------------
(* Removal *)

SetRemovalInProgress(a) ==
    /\ At(a, "setRemoval") /\ Free
    /\ IF state.RemovalInProgress THEN Goto(a, "ok") /\ UNCHANGED state
       ELSE /\ state' = [state EXCEPT !.RemovalInProgress = TRUE]
            /\ Goto(a, IF registered THEN "cleanup" ELSE "resetRemoval")
    /\ UNCHANGED <<policy, lock, monitor, indexVars, diskVars, kernelVars, ghostVars>>

cleanupContainer(a) ==
    /\ At(a, "cleanup") /\ Free
    /\ LET stop == [ok |-> "setDead", err |-> "resetRemoval"]
           kill == [ok |-> "stop", err |-> "resetRemoval"]
       IN IF ~ state.Running THEN Enter(a, "stop", <<stop>>)
          ELSE IF call[a].force THEN Enter(a, "kill", <<kill, stop>>)
          ELSE Goto(a, "resetRemoval")
    /\ UNCHANGED <<policy, state, lock, monitor, indexVars, diskVars, kernelVars, ghostVars>>

\* SetDead and the save that follows it.
SetDead(a) ==
    /\ At(a, "setDead") /\ Free
    /\ state' = [state EXCEPT !.Dead = TRUE]
    /\ \E f \in {"none", "save"} : Fails(f) /\ ToDisk(state', f)
    /\ Goto(a, "removeRoot")
    /\ UNCHANGED <<policy, lock, monitor, indexVars, root, rwLayer, kernelVars, calls, orphan,
                   leakVars, mounted, missed, stopper>>

\* The deferred function of cleanupContainer takes the container out of the
\* indexes, after an error only when the removal is forced.
Deregister(gone) ==
    /\ registered' = IF gone THEN FALSE ELSE registered
    /\ nameIndex' = IF gone THEN {} ELSE nameIndex

RemoveRoot(a) ==
    /\ At(a, "removeRoot")
    /\ \/ /\ NoFault /\ root' = FALSE /\ disk' = None
          /\ Goto(a, "releaseLayer")
          /\ UNCHANGED <<registered, nameIndex>>
       \/ /\ Fault /\ Deregister(call[a].force)
          /\ Goto(a, "resetRemoval")
          /\ UNCHANGED <<root, disk>>
    /\ UNCHANGED <<policy, state, lock, monitor, activityCount, up, rwLayer, kernelVars, calls,
                   historyVars>>

\* A layer whose mounts are counted is not released.  The driver may fail to
\* remove it, and the exec driver's Clean may fail afterwards.
ReleaseRWLayer(a) ==
    /\ At(a, "releaseLayer")
    /\ \/ activityCount = 0 /\ NoFault /\ rwLayer' = FALSE /\ Deregister(TRUE)
       \/ activityCount > 0 /\ NoFault /\ UNCHANGED rwLayer /\ Deregister(call[a].force)
       \/ activityCount = 0 /\ Fault /\ rwLayer' \in {rwLayer, FALSE} /\ Deregister(call[a].force)
    /\ Goto(a, "resetRemoval")
    /\ UNCHANGED <<policy, state, lock, monitor, activityCount, up, root, disk, kernelVars, calls,
                   historyVars>>

ResetRemovalInProgress(a) ==
    /\ At(a, "resetRemoval") /\ Free
    /\ state' = [state EXCEPT !.RemovalInProgress = FALSE]
    /\ Leave(a)
    /\ UNCHANGED <<policy, lock, monitor, indexVars, diskVars, kernelVars, ghostVars>>

-----------------------------------------------------------------------------
(* API calls *)

FirstStep == [start |-> "start", stop |-> "stop", kill |-> "kill", restart |-> "restart",
              remove |-> "setRemoval", copy |-> "copy", export |-> "export",
              rename |-> "rename"]

\* GetContainer finds the container and the call begins.
Call(c) ==
    /\ c \in Clients /\ up = "up" /\ registered /\ At(c, "idle") /\ Request
    /\ \E op \in Ops[c] :
         /\ op \in DOMAIN FirstStep
         /\ \E force \in (IF op = "remove" THEN BOOLEAN ELSE {FALSE}) :
              call' = [call EXCEPT ![c].pc = FirstStep[op], ![c].force = force]
    /\ UNCHANGED <<policy, state, lock, monitor, indexVars, diskVars, kernelVars, faults, historyVars>>

-----------------------------------------------------------------------------
(* Shutdown, crash and restore *)

Shutdown ==
    /\ Fault /\ up = "up" /\ At(Daemon, "idle") /\ Free
    /\ up' = "stopping"
    /\ IF registered /\ state.Running
       THEN Enter(Daemon, IF state.Paused THEN "shutdownPaused" ELSE "stop",
                  <<[ok |-> "waitEnd", err |-> "exit"]>>)
       ELSE Goto(Daemon, "exit")
    /\ UNCHANGED <<policy, state, lock, monitor, registered, nameIndex, activityCount,
                   diskVars, kernelVars, calls, historyVars>>

\* A paused container gets SIGTERM and is then unpaused.
shutdownPaused ==
    /\ At(Daemon, "shutdownPaused") /\ Free
    /\ IF state.Running /\ state.Paused /\ active
       THEN /\ frozen' = FALSE /\ state' = [state EXCEPT !.Paused = FALSE]
            /\ Goto(Daemon, "waitTerm")
       ELSE Goto(Daemon, "exit") /\ UNCHANGED <<frozen, state>>
    /\ UNCHANGED <<policy, lock, monitor, indexVars, diskVars, process, active, sandbox, ghostVars>>

shutdownKill ==
    /\ At(Daemon, "shutdownKill")
    /\ process' = IF active /\ process = "alive" THEN "killed" ELSE process
    /\ Goto(Daemon, "waitEnd")
    /\ UNCHANGED <<policy, state, lock, monitor, indexVars, diskVars, frozen, active, sandbox,
                   ghostVars>>

\* Somebody is about to save, or in the middle of it: config.json may be empty.
Saving ==
    /\ root
    /\ \/ monitor.pc \in {"save", "finish"} /\ Free
       \/ monitor.pc = "failed"
       \/ \E a \in Actors : \/ call[a].pc \in {"save", "rename", "setDead"} /\ Free
                            \/ call[a].pc = "setup" \/ (call[a].pc = "starting" /\ monitor.err)

\* The memory of the daemon is gone; the process and the disk are not.
Down ==
    /\ \E torn \in BOOLEAN :
         /\ torn => Saving
         /\ disk' = IF torn THEN None ELSE disk
         /\ unsaved' = (unsaved \/ torn \/ monitor.pc \in {"callback", "save"})
    /\ up' = "down"
    /\ state' = NewState /\ lock' = None /\ monitor' = NoMonitor
    /\ call' = [a \in Actors |-> Idle]
    /\ registered' = FALSE /\ nameIndex' = {} /\ activityCount' = 0
    /\ active' = FALSE /\ sandbox' = FALSE
    /\ mounted' = {} /\ stopper' = {} /\ missed' = FALSE
    /\ failedMounts' = 0 /\ sandboxLeft' = FALSE
    /\ UNCHANGED <<policy, root, rwLayer, process, frozen, orphan, calls>>

Exit == At(Daemon, "exit") /\ Down /\ NoFault
Crash == up # "down" /\ Fault /\ Down

\* A container that was running is stopped and its process killed.
Restored(s) == IF s.Running THEN SetStopped(s, 1) ELSE s
ShouldRestart(s) ==
    \/ policy = "always"
    \/ policy = "unless-stopped" /\ ~ s.HasBeenManuallyStopped
    \/ policy = "on-failure" /\ s.ExitCode # 0

\* A config.json that is missing or does not decode is passed over.
restore ==
    /\ up = "down"
    /\ IF disk # None /\ rwLayer
       THEN /\ state' = Restored(disk)
            /\ IF disk.Running
               THEN \E f \in {"none", "save"} : Fails(f) /\ ToDisk(Restored(disk), f)
               ELSE NoFault /\ UNCHANGED <<disk, unsaved>>
            /\ registered' = TRUE /\ nameIndex' = {disk.Name}
            /\ orphan' = (orphan \/ (~ disk.Running /\ process \in {"alive", "killed"}))
            /\ IF ShouldRestart(Restored(disk))
               THEN up' = "restoring" /\ Goto(Daemon, "containerStart")
               ELSE up' = "up" /\ UNCHANGED call
       ELSE /\ up' = "up"
            /\ orphan' = (orphan \/ process \in {"alive", "killed"})
            /\ NoFault
            /\ UNCHANGED <<state, disk, unsaved, registered, nameIndex, call>>
    /\ process' = "none" /\ frozen' = FALSE
    /\ UNCHANGED <<policy, lock, monitor, activityCount, root, rwLayer, active, sandbox,
                   calls, leakVars, mounted, missed, stopper>>

Serve ==
    /\ up = "restoring" /\ At(Daemon, "idle")
    /\ up' = "up"
    /\ UNCHANGED <<policy, stateVars, registered, nameIndex, activityCount, diskVars,
                   kernelVars, ghostVars>>

-----------------------------------------------------------------------------
ActorStep(a) ==
    \/ WaitStop(a) \/ Woken(a) \/ Timeout(a)
    \/ newContainer(a) \/ Register(a) \/ setHostConfig(a) \/ createSettings(a) \/ saveCreated(a)
    \/ containerStart(a) \/ StartMonitor(a) \/ Started(a) \/ NotStarted(a)
    \/ containerStop(a) \/ stopKill(a) \/ Stopped(a) \/ Kill(a) \/ stillRunning(a) \/ killProcessDirectly(a)
    \/ containerArchivePath(a) \/ ArchiveClosed(a)
    \/ Mount(a) \/ Unmount(a) \/ ContainerRename(a)
    \/ SetRemovalInProgress(a) \/ cleanupContainer(a) \/ SetDead(a)
    \/ RemoveRoot(a) \/ ReleaseRWLayer(a) \/ ResetRemovalInProgress(a)

MonitorStep ==
    \/ LaunchFails \/ Run \/ callback \/ saveRunning \/ RunReturns \/ Decide
    \/ SetRestartingLocking \/ waitForNextRestart \/ Close \/ CloseFailed

ShutdownStep == shutdownPaused \/ shutdownKill \/ Exit

Next ==
    \/ \E a \in Actors : Call(a) \/ ActorStep(a)
    \/ MonitorStep \/ ProcessExits
    \/ containerPause \/ containerUnpause
    \/ Shutdown \/ ShutdownStep \/ Crash \/ restore \/ Serve

\* Goroutines run on, timers fire and a process dies of SIGKILL.  A mutex
\* is left free for ever once no call takes it, so weak fairness is enough;
\* there are only so many calls, so none of them can starve the others.
\* A client reads the archive of its copy or export to the end or closes the
\* connection: a copy keeps the lock until then.  Nobody need make a call.
Fairness ==
    /\ WF_vars((\E a \in Actors : ActorStep(a)) \/ ShutdownStep)
    /\ WF_vars(MonitorStep \/ (process = "killed" /\ ProcessExits))

Spec == Init /\ [][Next]_vars /\ Fairness

-----------------------------------------------------------------------------
(* Properties *)

\* Type invariant.
TypeOK ==
    /\ policy \in Policies
    /\ \A s \in {state} \cup ({disk} \ {None}) :
         /\ {s.Running, s.Paused, s.Restarting, s.RemovalInProgress, s.Dead,
             s.HasBeenManuallyStopped} \subseteq BOOLEAN
         /\ s.ExitCode \in {0, 1} /\ s.Name \in {oldName, newName}
    /\ lock \in Actors \cup {None}
    /\ monitor.failureCount \in 0..(MaximumRetryCount + 1)
    /\ nameIndex \subseteq {oldName, newName}
    /\ failedMounts \in 0..maxFaults
    /\ activityCount \in 0..(Cardinality(Actors) + 1 + maxFaults)
    /\ process \in {"none", "alive", "killed", "exited"}
    /\ disk # None => root

\* Cleanup gives everything back: once a container is not running and nobody
\* holds its lock, it has no network sandbox that was not reported as left
\* behind, and its RW layer is counted as mounted no more often than the
\* exports and restarts under way have mounted it and mounts have failed.
Released ==
    Free /\ ~ state.Running => /\ sandbox => sandboxLeft
                              /\ activityCount <= Cardinality(mounted) + failedMounts

\* What the callback has saved outlives the daemon: while a process runs,
\* config.json says so, whatever calls, restarts and crashes came since, so
\* that the next daemon kills the process and does not start a second one.
\* The exception is a last save that failed or was cut off by a crash.
RunningIsOnDisk ==
    process = "alive" /\ monitor.pc \notin {"callback", "save"} /\ ~ unsaved
        => disk # None /\ disk.Running

\* A container that is marked dead or was removed has no process, though the
\* monitor restarts processes while a removal stops them.
RemovedIsStopped ==
    state.Dead \/ (~ registered /\ up = "up") => process \notin {"alive", "killed"}

\* When containerStop has seen the container stop, its process is gone,
\* unless another call has started it since.
StopMeansStopped ==
    \A a \in stopper : At(a, "stopped") => process \notin {"alive", "killed"}

\* The same, but for a stop that met the monitor just before a restart.
StopMeansStoppedUnlessMissed == ~ missed => StopMeansStopped

\* A process whose Run failed in the wait is gone and its monitor with it,
\* but the container still counts as running.
Lost == state.Running /\ monitor.pc = "none"

\* No wake-up is lost and nobody waits in a circle: a call only stays
\* unfinished while a process runs that was not sent SIGKILL or cannot take
\* it because it is frozen, or while the container is lost.
CallsEnd ==
    \A c \in Clients : []<>(At(c, "idle") \/ process = "alive" \/ frozen \/ Lost)
=============================================================================
