-------------------------- MODULE TransferProgress --------------------------
(***************************************************************************)
(* How one transfer passes its progress on (distribution/xfer/transfer.go: *)
(* Broadcast, Watch, Release).  The DoFunc sends events on an unbuffered   *)
(* channel; the goroutine of Broadcast keeps the latest one and signals    *)
(* the goroutines of the watchers, without waiting for them; a watcher     *)
(* that detaches pings the broadcaster first.                              *)
(*                                                                         *)
(* Events are numbered in the order they are sent, 0 stands for none.  A   *)
(* rendezvous on an unbuffered channel is one step of both sides; a select *)
(* takes any case that is ready.  Sections under t.mu are single steps.    *)
(***************************************************************************)
EXTENDS Naturals, FiniteSets, Sequences

CONSTANTS
    Watchers,   \* calls of Watch, each with its later Release
    maxEvents   \* bound: events the DoFunc sends

ASSUME ProgressAssumption == maxEvents \in Nat

VARIABLES
    producer,       \* the DoFunc: "working", "sending" (blocked) or "closed"
    sends,          \* events it has begun to send
    bpc,            \* where the goroutine of Broadcast is
    inHand,         \* event it has received last
    lastProgress,   \* t.lastProgress, 0 if hasLastProgress is false
    broadcastDone,  \* t.broadcastDone
    running,        \* t.running is open
    watchers,       \* t.watchers
    wpc,            \* where the goroutine of each watcher is
    done,           \* its variable done
    seen,           \* its copy lastProgress
    output,         \* events written to its progressOutput; lastWritten is the last
    rpc,            \* where the call of Release is
    due             \* history: latest event received when Release was called

producerVars == <<producer, sends>>
broadcastVars == <<bpc, inHand, lastProgress, broadcastDone, running>>
watcherVars == <<wpc, done, seen, output>>
progressVars == <<producerVars, broadcastVars, watchers, watcherVars, rpc, due>>

ProgressInit ==
    /\ producer = "working"
    /\ sends = 0
    /\ bpc = "select"
    /\ inHand = 0
    /\ lastProgress = 0
    /\ broadcastDone = FALSE
    /\ running = TRUE
    /\ watchers = {}
    /\ wpc = [w \in Watchers |-> "none"]
    /\ done = [w \in Watchers |-> FALSE]
    /\ seen = [w \in Watchers |-> 0]
    /\ output = [w \in Watchers |-> << >>]
    /\ rpc = [w \in Watchers |-> "none"]
    /\ due = [w \in Watchers |-> 0]

-----------------------------------------------------------------------------
(* The DoFunc's end of the channel.                                        *)

\* WriteProgress: blocked until Broadcast receives the event.
Send ==
    /\ producer = "working"
    /\ sends < maxEvents
    /\ producer' = "sending"
    /\ sends' = sends + 1
    /\ UNCHANGED <<broadcastVars, watchers, watcherVars, rpc, due>>

\* close(progressChan).
CloseProgress ==
    /\ producer = "working"
    /\ producer' = "closed"
    /\ UNCHANGED <<sends, broadcastVars, watchers, watcherVars, rpc, due>>

-----------------------------------------------------------------------------
(* Broadcast.                                                              *)

\* A receive from the channel, in the outer or the inner select: an event, or
\* the news that it is closed.
Receive ==
    /\ bpc \in {"select", "depleted"}
    /\ \/ /\ producer = "sending"
          /\ producer' = "working"
          /\ inHand' = sends
          /\ bpc' = "publish"
       \/ /\ producer = "closed"
          /\ bpc' = "finish"
          /\ UNCHANGED <<producer, inHand>>
    /\ UNCHANGED <<sends, lastProgress, broadcastDone, running, watchers, watcherVars,
                   rpc, due>>

\* The default case: nothing to receive, so pings are answered as well.
Deplete ==
    /\ bpc = "select"
    /\ producer = "working"
    /\ bpc' = "depleted"
    /\ UNCHANGED <<producerVars, inHand, lastProgress, broadcastDone, running,
                   watchers, watcherVars, rpc, due>>

\* The section under t.mu: the event is kept, and the watchers that stand in
\* their select get the signal.
Publish ==
    /\ bpc = "publish"
    /\ lastProgress' = inHand
    /\ wpc' = [w \in Watchers |-> IF w \in watchers /\ wpc[w] = "waiting"
                                  THEN "reading" ELSE wpc[w]]
    /\ bpc' = "select"
    /\ UNCHANGED <<producerVars, inHand, broadcastDone, running, watchers, done, seen,
                   output, rpc, due>>

\* The section under t.mu after the channel has closed.
MarkDone ==
    /\ bpc = "finish"
    /\ broadcastDone' = TRUE
    /\ bpc' = "closing"
    /\ UNCHANGED <<producerVars, inHand, lastProgress, running, watchers, watcherVars,
                   rpc, due>>

\* Mutant: Broadcast returns and leaves t.running open.
CloseRunning_Missing ==
    /\ bpc = "closing"
    /\ bpc' = "returned"
    /\ UNCHANGED <<producerVars, inHand, lastProgress, broadcastDone, running,
                   watchers, watcherVars, rpc, due>>

\* close(t.running), and Broadcast returns.
CloseRunning ==
    /\ bpc = "closing"
    /\ running' = FALSE
    /\ bpc' = "returned"
    /\ UNCHANGED <<producerVars, inHand, lastProgress, broadcastDone, watchers,
                   watcherVars, rpc, due>>

-----------------------------------------------------------------------------
(* Watch, its goroutine, and Release.                                      *)

\* Watch; without a goroutine if there is nothing more to come.
Watch(w) ==
    /\ wpc[w] = "none"
    /\ watchers' = watchers \cup {w}
    /\ wpc' = [wpc EXCEPT ![w] = IF broadcastDone THEN "late" ELSE "reading"]
    /\ UNCHANGED <<producerVars, broadcastVars, done, seen, output, rpc, due>>

\* The copy of the latest event, under t.mu.
ReadLast(w) ==
    /\ wpc[w] = "reading"
    /\ seen' = [seen EXCEPT ![w] = lastProgress]
    /\ wpc' = [wpc EXCEPT ![w] = "writing"]
    /\ UNCHANGED <<producerVars, broadcastVars, watchers, done, output, rpc, due>>

\* lastWritten, or 0 if hasLastWritten is false.
lastWritten(w) == IF output[w] = << >> THEN 0 ELSE output[w][Len(output[w])]

\* Write the copy, unless there is none or a watcher that is done has written it
\* already; then on to the select, or close(w.running).
WriteLast(w) ==
    /\ wpc[w] = "writing"
    /\ output' = IF seen[w] # 0 /\ (~done[w] \/ seen[w] # lastWritten(w))
                 THEN [output EXCEPT ![w] = Append(@, seen[w])]
                 ELSE output
    /\ wpc' = [wpc EXCEPT ![w] = IF done[w] THEN "ended" ELSE "waiting"]
    /\ UNCHANGED <<producerVars, broadcastVars, watchers, done, seen, rpc, due>>

\* Mutant: the watcher detaches without a ping.
SeeRelease_NoPing(w) ==
    /\ wpc[w] = "waiting"
    /\ rpc[w] = "closed"
    /\ done' = [done EXCEPT ![w] = TRUE]
    /\ wpc' = [wpc EXCEPT ![w] = "reading"]
    /\ UNCHANGED <<producerVars, broadcastVars, watchers, seen, output, rpc, due>>

\* releaseChan is closed: the watcher is going to detach.
SeeRelease(w) ==
    /\ wpc[w] = "waiting"
    /\ rpc[w] = "closed"
    /\ done' = [done EXCEPT ![w] = TRUE]
    /\ wpc' = [wpc EXCEPT ![w] = "pinging"]
    /\ UNCHANGED <<producerVars, broadcastVars, watchers, seen, output, rpc, due>>

\* The rendezvous on broadcastSyncChan; Broadcast goes round its loop.
Ping(w) ==
    /\ wpc[w] = "pinging"
    /\ bpc = "depleted"
    /\ bpc' = "select"
    /\ wpc' = [wpc EXCEPT ![w] = "reading"]
    /\ UNCHANGED <<producerVars, inHand, lastProgress, broadcastDone, running,
                   watchers, done, seen, output, rpc, due>>

\* Mutant: the watcher ends at once, without a last look.
SeeDone_NoLook(w) ==
    /\ wpc[w] \in {"waiting", "pinging"}
    /\ ~running
    /\ done' = [done EXCEPT ![w] = TRUE]
    /\ wpc' = [wpc EXCEPT ![w] = "ended"]
    /\ UNCHANGED <<producerVars, broadcastVars, watchers, seen, output, rpc, due>>

\* t.running is closed, seen from either select.
SeeDone(w) ==
    /\ wpc[w] \in {"waiting", "pinging"}
    /\ ~running
    /\ done' = [done EXCEPT ![w] = TRUE]
    /\ wpc' = [wpc EXCEPT ![w] = "reading"]
    /\ UNCHANGED <<producerVars, broadcastVars, watchers, seen, output, rpc, due>>

\* Release: the section under t.mu.
Release(w) ==
    /\ w \in watchers
    /\ rpc[w] = "none"
    /\ watchers' = watchers \ {w}
    /\ rpc' = [rpc EXCEPT ![w] = "detached"]
    /\ due' = [due EXCEPT ![w] = inHand]
    /\ UNCHANGED <<producerVars, broadcastVars, watcherVars>>

\* close(watcher.releaseChan).
CloseRelease(w) ==
    /\ rpc[w] = "detached"
    /\ rpc' = [rpc EXCEPT ![w] = "closed"]
    /\ UNCHANGED <<producerVars, broadcastVars, watchers, watcherVars, due>>

\* <-watcher.running, and Release returns.
ReleaseReturns(w) ==
    /\ rpc[w] = "closed"
    /\ wpc[w] \in {"ended", "late"}
    /\ rpc' = [rpc EXCEPT ![w] = "returned"]
    /\ UNCHANGED <<producerVars, broadcastVars, watchers, watcherVars, due>>

-----------------------------------------------------------------------------

BroadcastStep == Receive \/ Deplete \/ Publish \/ MarkDone \/ CloseRunning

WatcherStep(w) == ReadLast(w) \/ WriteLast(w) \/ SeeRelease(w) \/ Ping(w) \/ SeeDone(w)

ReleaseStep(w) == CloseRelease(w) \/ ReleaseReturns(w)

\* Broadcast is over; the callers may keep their watchers as long as they like.
TransferOver == bpc = "returned" /\ UNCHANGED progressVars

ProgressNext ==
    \/ Send
    \/ CloseProgress
    \/ BroadcastStep
    \/ \E w \in Watchers : Watch(w) \/ Release(w) \/ WatcherStep(w) \/ ReleaseStep(w)
    \/ TransferOver

ProgressSpec == ProgressInit /\ [][ProgressNext]_progressVars

\* Go runs every goroutine that can run, and progressOutput takes what is written.
\* Nothing is assumed of the DoFunc and of the callers of Watch and Release.
FairProgressSpec ==
    /\ ProgressSpec
    /\ WF_progressVars(BroadcastStep)
    /\ \A w \in Watchers : /\ WF_progressVars(WatcherStep(w))
                           /\ WF_progressVars(ReleaseStep(w))

-----------------------------------------------------------------------------
(* Properties.                                                             *)

\* Type invariant of the progress machinery.
ProgressTypeOK ==
    /\ producer \in {"working", "sending", "closed"}
    /\ sends \in 0..maxEvents
    /\ bpc \in {"select", "depleted", "publish", "finish", "closing", "returned"}
    /\ inHand \in 0..maxEvents
    /\ lastProgress \in 0..maxEvents
    /\ broadcastDone \in BOOLEAN /\ running \in BOOLEAN
    /\ watchers \subseteq Watchers
    /\ wpc \in [Watchers -> {"none", "late", "reading", "writing", "waiting", "pinging",
                             "ended"}]
    /\ done \in [Watchers -> BOOLEAN]
    /\ seen \in [Watchers -> 0..maxEvents]
    /\ output \in [Watchers -> Seq(1..maxEvents)]
    /\ rpc \in [Watchers -> {"none", "detached", "closed", "returned"}]
    /\ due \in [Watchers -> 0..maxEvents]

\* broadcastSyncChan "ensures a detaching watcher won't miss an event that was
\* sent before it started detaching": when Release returns, the watcher has
\* written every state of the progress up to the last event that Broadcast had
\* received when Release was called, or a later one.
NothingMissed ==
    \A w \in Watchers :
        rpc[w] = "returned" /\ wpc[w] = "ended" => lastWritten(w) >= due[w]

\* A watcher that stays to the end has written the last event of the transfer.
LastEventWritten ==
    \A w \in Watchers :
        wpc[w] = "ended" /\ rpc[w] = "none" => lastWritten(w) = sends

\* Release does not hang: neither on a DoFunc that sends nothing more nor on one
\* that keeps sending while watchers leave.
ReleaseEnds == \A w \in Watchers : rpc[w] = "detached" ~> rpc[w] = "returned"
=============================================================================
