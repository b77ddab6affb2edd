----------------------- MODULE TransferProgressProofs -----------------------
(***************************************************************************)
(* Proofs about module TransferProgress, for every set of watchers and     *)
(* every number of events.                                                 *)
(***************************************************************************)
EXTENDS TransferProgress, TLAPS

\* What Broadcast has received and published, against its program counter.
BroadcastInv ==
    /\ sends = IF producer = "sending" THEN inHand + 1 ELSE inHand
    /\ lastProgress <= inHand
    /\ bpc # "publish" => lastProgress = inHand
    /\ bpc \in {"finish", "closing", "returned"} => producer = "closed"
    /\ running <=> bpc # "returned"

\* What watcher w has read and written, against what it owes to Release.  A
\* watcher that is done before it is released has seen running closed; one that
\* reads for the last time finds everything that was due published.
WatcherInv(w) ==
    /\ due[w] <= inHand
    /\ seen[w] <= lastProgress
    /\ lastWritten(w) <= lastProgress
    /\ done[w] => wpc[w] \in {"pinging", "reading", "writing", "ended"}
    /\ wpc[w] \in {"pinging", "ended"} => done[w]
    /\ wpc[w] = "pinging" => rpc[w] # "none"
    /\ done[w] /\ rpc[w] = "none" => bpc = "returned"
    /\ done[w] /\ wpc[w] = "reading" => lastProgress >= due[w]
    /\ done[w] /\ wpc[w] = "writing" => seen[w] >= due[w]
    /\ done[w] /\ wpc[w] = "writing" /\ rpc[w] = "none" => seen[w] = sends
    /\ wpc[w] = "ended" => lastWritten(w) >= due[w]
    /\ wpc[w] = "ended" /\ rpc[w] = "none" => lastWritten(w) = sends

ProgressInv ==
    /\ ProgressTypeOK
    /\ BroadcastInv
    /\ \A w \in Watchers : WatcherInv(w)

-----------------------------------------------------------------------------

\* Nothing has been sent, and nobody watches.
LEMMA ProgressInitInv == ProgressInit => ProgressInv
<1> SUFFICES ASSUME ProgressInit PROVE ProgressInv
  OBVIOUS
<1>1. ProgressTypeOK
  <2>1. << >> \in Seq(1..maxEvents) /\ 0 \in 0..maxEvents
    BY ProgressAssumption
  <2>2. output \in [Watchers -> Seq(1..maxEvents)]
    BY <2>1 DEF ProgressInit
  <2>3. QED
    BY <2>1, <2>2 DEF ProgressInit, ProgressTypeOK
<1>2. BroadcastInv
  BY DEF ProgressInit, BroadcastInv
<1>3. ASSUME NEW w \in Watchers PROVE WatcherInv(w)
  <2>1. lastWritten(w) = 0
    BY DEF ProgressInit, lastWritten
  <2>2. QED
    BY <2>1 DEF ProgressInit, WatcherInv
<1>4. QED
  BY <1>1, <1>2, <1>3 DEF ProgressInv

\* What a watcher has written is a number of an event, or 0.
LEMMA LastWrittenType ==
    ASSUME ProgressTypeOK, NEW w \in Watchers
    PROVE  lastWritten(w) \in 0..maxEvents
BY ProgressAssumption DEF ProgressTypeOK, lastWritten

\* WriteLast makes the copy the last event written, except where there is none or
\* a watcher that is done has written it before.
LEMMA WriteLastWrites ==
    ASSUME ProgressTypeOK, NEW w \in Watchers, WriteLast(w)
    PROVE  /\ output' \in [Watchers -> Seq(1..maxEvents)]
           /\ lastWritten(w)' = IF seen[w] = 0 THEN lastWritten(w) ELSE seen[w]
           /\ \A v \in Watchers \ {w} : lastWritten(v)' = lastWritten(v)
<1>1. CASE seen[w] # 0 /\ (~done[w] \/ seen[w] # lastWritten(w))
  <2>1. output' = [output EXCEPT ![w] = Append(@, seen[w])]
    BY <1>1 DEF WriteLast
  <2>2. seen[w] \in 1..maxEvents /\ output[w] \in Seq(1..maxEvents)
    BY <1>1, ProgressAssumption DEF ProgressTypeOK
  <2>3. output'[w] = Append(output[w], seen[w])
    BY <2>1 DEF ProgressTypeOK
  <2>4. output' \in [Watchers -> Seq(1..maxEvents)]
    BY <2>1, <2>2 DEF ProgressTypeOK
  <2>5. output'[w] # << >> /\ output'[w][Len(output'[w])] = seen[w]
    BY <2>2, <2>3
  <2>6. \A v \in Watchers \ {w} : output'[v] = output[v]
    BY <2>1 DEF ProgressTypeOK
  <2>7. QED
    BY <1>1, <2>4, <2>5, <2>6 DEF lastWritten
<1>2. CASE ~(seen[w] # 0 /\ (~done[w] \/ seen[w] # lastWritten(w)))
  <2>1. output' = output
    BY <1>2 DEF WriteLast
  <2>2. QED
    BY <1>2, <2>1 DEF lastWritten, ProgressTypeOK
<1>3. QED
  BY <1>1, <1>2
\* A step that leaves the watchers' output alone leaves lastWritten alone.
LEMMA LastWrittenUnchanged ==
    ASSUME NEW w \in Watchers, UNCHANGED output
    PROVE  lastWritten(w)' = lastWritten(w)
BY DEF lastWritten

\* The producer's steps: an event begun is not yet in hand.
LEMMA ProducerStepInv ==
    ASSUME ProgressInv, Send \/ CloseProgress
    PROVE  ProgressInv'
<1>1. ProgressTypeOK'
  BY ProgressAssumption
  DEF ProgressInv, ProgressTypeOK, Send, CloseProgress, broadcastVars, watcherVars
<1>2. BroadcastInv'
  BY ProgressAssumption
  DEF ProgressInv, ProgressTypeOK, BroadcastInv, Send, CloseProgress, broadcastVars
<1>3. ASSUME NEW w \in Watchers PROVE WatcherInv(w)'
  <2>1. lastWritten(w)' = lastWritten(w)
    BY LastWrittenUnchanged DEF Send, CloseProgress, watcherVars
  <2>2. producer = "working" /\ bpc # "returned"
    BY DEF ProgressInv, BroadcastInv, Send, CloseProgress
  <2>3. WatcherInv(w)
    BY DEF ProgressInv
  <2>4. QED
    BY <2>1, <2>2, <2>3 DEF WatcherInv, Send, CloseProgress, broadcastVars, watcherVars
<1>4. QED
  BY <1>1, <1>2, <1>3 DEF ProgressInv

\* The steps of Broadcast: Publish alone moves what watchers can read.
LEMMA BroadcastStepInv ==
    ASSUME ProgressInv, BroadcastStep
    PROVE  ProgressInv'
<1>1. ProgressTypeOK'
  BY DEF ProgressInv, ProgressTypeOK, BroadcastStep, Receive, Deplete, Publish,
         MarkDone, CloseRunning, producerVars, watcherVars
<1>2. BroadcastInv'
  BY DEF ProgressInv, ProgressTypeOK, BroadcastInv, BroadcastStep, Receive, Deplete,
         Publish, MarkDone, CloseRunning, producerVars
<1>3. ASSUME NEW w \in Watchers PROVE WatcherInv(w)'
  <2>1. lastWritten(w)' = lastWritten(w)
    BY LastWrittenUnchanged
    DEF BroadcastStep, Receive, Deplete, Publish, MarkDone, CloseRunning, watcherVars
  <2>2. WatcherInv(w) /\ lastWritten(w) \in Nat
    BY LastWrittenType, ProgressAssumption DEF ProgressInv
  <2>3. CASE Receive \/ Deplete \/ MarkDone \/ CloseRunning
    BY <2>1, <2>2, <2>3, <1>1
    DEF ProgressInv, ProgressTypeOK, BroadcastInv, WatcherInv, Receive, Deplete,
        MarkDone, CloseRunning, producerVars, watcherVars
  <2>4. CASE Publish
    <3>1. /\ lastProgress' = inHand /\ lastProgress <= inHand /\ bpc # "returned"
          /\ UNCHANGED <<inHand, sends, done, seen, rpc, due>>
      BY <2>4 DEF ProgressInv, BroadcastInv, Publish, producerVars
    <3>2. \/ wpc'[w] = wpc[w]
          \/ wpc[w] = "waiting" /\ wpc'[w] = "reading"
      BY <2>4 DEF Publish
    <3>3. QED
      BY <2>1, <2>2, <3>1, <3>2 DEF WatcherInv, ProgressInv, ProgressTypeOK
  <2>5. QED
    BY <2>3, <2>4 DEF BroadcastStep
<1>4. QED
  BY <1>1, <1>2, <1>3 DEF ProgressInv
\* Watch, Release and its two further steps.  What is due was in hand when Release
\* was called, and a watcher that is done by then has seen the end.
LEMMA ReleaseStepInv ==
    ASSUME ProgressInv, NEW v \in Watchers, Watch(v) \/ Release(v) \/ ReleaseStep(v)
    PROVE  ProgressInv'
<1>1. ProgressTypeOK'
  <2>1. CASE Watch(v)
    BY <2>1 DEF ProgressInv, ProgressTypeOK, Watch, producerVars, broadcastVars
  <2>2. CASE Release(v)
    BY <2>2
    DEF ProgressInv, ProgressTypeOK, Release, producerVars, broadcastVars, watcherVars
  <2>3. CASE ReleaseStep(v)
    BY <2>3
    DEF ProgressInv, ProgressTypeOK, ReleaseStep, CloseRelease, ReleaseReturns,
        producerVars, broadcastVars, watcherVars
  <2>4. QED
    BY <2>1, <2>2, <2>3
<1>2. BroadcastInv'
  BY DEF ProgressInv, BroadcastInv, Watch, Release, ReleaseStep, CloseRelease,
         ReleaseReturns, producerVars, broadcastVars
<1>3. ASSUME NEW w \in Watchers PROVE WatcherInv(w)'
  <2>1. lastWritten(w)' = lastWritten(w)
    BY LastWrittenUnchanged
    DEF Watch, Release, ReleaseStep, CloseRelease, ReleaseReturns, watcherVars
  <2>2. WatcherInv(w) /\ lastWritten(w) \in Nat
    BY LastWrittenType, ProgressAssumption DEF ProgressInv
  <2>3. BroadcastInv /\ UNCHANGED <<producerVars, broadcastVars, done, seen>>
    BY DEF ProgressInv, Watch, Release, ReleaseStep, CloseRelease, ReleaseReturns,
           watcherVars
  <2>4. CASE w # v
    BY <2>1, <2>2, <2>3, <2>4
    DEF ProgressInv, ProgressTypeOK, WatcherInv, Watch, Release, ReleaseStep,
        CloseRelease, ReleaseReturns, producerVars, broadcastVars, watcherVars
  <2>5. CASE w = v /\ Watch(v)
    BY <2>1, <2>2, <2>3, <2>5
    DEF ProgressInv, ProgressTypeOK, WatcherInv, Watch, producerVars, broadcastVars
  <2>6. CASE w = v /\ Release(v)
    BY <2>1, <2>2, <2>3, <2>6
    DEF ProgressInv, ProgressTypeOK, BroadcastInv, WatcherInv, Release, producerVars,
        broadcastVars, watcherVars
  <2>7. CASE w = v /\ ReleaseStep(v)
    BY <2>1, <2>2, <2>3, <2>7
    DEF ProgressInv, ProgressTypeOK, WatcherInv, ReleaseStep, CloseRelease,
        ReleaseReturns, producerVars, broadcastVars, watcherVars
  <2>8. QED
    BY <2>4, <2>5, <2>6, <2>7
<1>4. QED
  BY <1>1, <1>2, <1>3 DEF ProgressInv

\* The steps of a watcher's goroutine.  The ping is answered, and running is closed,
\* only when everything in hand is published.
LEMMA WatcherStepInv ==
    ASSUME ProgressInv, NEW v \in Watchers, WatcherStep(v)
    PROVE  ProgressInv'
<1>1. ProgressTypeOK'
  <2>1. output' \in [Watchers -> Seq(1..maxEvents)]
    BY WriteLastWrites
    DEF ProgressInv, ProgressTypeOK, WatcherStep, ReadLast, SeeRelease, Ping, SeeDone
  <2>2. CASE ReadLast(v)
    BY <2>1, <2>2
    DEF ProgressInv, ProgressTypeOK, ReadLast, producerVars, broadcastVars
  <2>3. CASE WriteLast(v)
    <3>1. /\ wpc' = [wpc EXCEPT ![v] = IF done[v] THEN "ended" ELSE "waiting"]
          /\ UNCHANGED <<producerVars, broadcastVars, watchers, done, seen, rpc, due>>
      BY <2>3 DEF WriteLast
    <3>2. QED
      BY <2>1, <3>1 DEF ProgressInv, ProgressTypeOK, producerVars, broadcastVars
  <2>4. CASE SeeRelease(v) \/ SeeDone(v)
    BY <2>1, <2>4
    DEF ProgressInv, ProgressTypeOK, SeeRelease, SeeDone, producerVars, broadcastVars
  <2>5. CASE Ping(v)
    BY <2>1, <2>5 DEF ProgressInv, ProgressTypeOK, Ping, producerVars
  <2>6. QED
    BY <2>2, <2>3, <2>4, <2>5 DEF WatcherStep
<1>2. BroadcastInv'
  BY DEF ProgressInv, ProgressTypeOK, BroadcastInv, WatcherStep, ReadLast, WriteLast,
         SeeRelease, Ping, SeeDone, producerVars, broadcastVars
<1>3. ASSUME NEW w \in Watchers PROVE WatcherInv(w)'
  <2>1. /\ WatcherInv(w) /\ BroadcastInv /\ lastWritten(w) \in Nat
        /\ lastProgress \in Nat /\ inHand \in Nat /\ sends \in Nat /\ seen[w] \in Nat
        /\ due[w] \in Nat
    BY LastWrittenType, ProgressAssumption DEF ProgressInv, ProgressTypeOK
  <2>2. UNCHANGED <<inHand, lastProgress, sends, running, rpc, due>>
    BY DEF WatcherStep, ReadLast, WriteLast, SeeRelease, Ping, SeeDone, producerVars,
           broadcastVars
  <2>3. \/ bpc' = bpc
        \/ bpc = "depleted" /\ bpc' = "select"
    BY DEF WatcherStep, ReadLast, WriteLast, SeeRelease, Ping, SeeDone, broadcastVars
  <2>4. CASE w # v
    <3>1. lastWritten(w)' = lastWritten(w)
      BY <2>4, LastWrittenUnchanged, WriteLastWrites
      DEF ProgressInv, WatcherStep, ReadLast, SeeRelease, Ping, SeeDone
    <3>2. wpc'[w] = wpc[w] /\ done'[w] = done[w] /\ seen'[w] = seen[w]
      BY <2>4
      DEF ProgressInv, ProgressTypeOK, WatcherStep, ReadLast, WriteLast, SeeRelease, Ping,
          SeeDone
    <3>3. QED
      BY <2>1, <2>2, <2>3, <3>1, <3>2 DEF WatcherInv
  <2>5. CASE w = v /\ WriteLast(v)
    <3>1. lastWritten(w)' = IF seen[w] = 0 THEN lastWritten(w) ELSE seen[w]
      BY <2>5, WriteLastWrites DEF ProgressInv
    <3>2. /\ wpc[w] = "writing"
          /\ wpc'[w] = IF done[w] THEN "ended" ELSE "waiting"
          /\ UNCHANGED <<done, seen, bpc>>
      BY <2>5 DEF ProgressInv, ProgressTypeOK, WriteLast, broadcastVars
    <3>3. QED
      BY <2>1, <2>2, <3>1, <3>2 DEF WatcherInv, BroadcastInv
  <2>6. CASE w = v /\ ~WriteLast(v)
    <3>1. lastWritten(w)' = lastWritten(w)
      BY <2>6, LastWrittenUnchanged DEF WatcherStep, ReadLast, SeeRelease, Ping, SeeDone
    <3>2. QED
      BY <2>1, <2>2, <2>6, <3>1
      DEF ProgressInv, ProgressTypeOK, WatcherInv, BroadcastInv, WatcherStep, ReadLast,
          SeeRelease, Ping, SeeDone, broadcastVars
  <2>7. QED
    BY <2>4, <2>5, <2>6
<1>4. QED
  BY <1>1, <1>2, <1>3 DEF ProgressInv

\* The inductive invariant holds in every reachable state.
THEOREM ProgressInvariant == ProgressSpec => []ProgressInv
<1>1. ProgressInv /\ [ProgressNext]_progressVars => ProgressInv'
  <2> SUFFICES ASSUME ProgressInv, [ProgressNext]_progressVars PROVE ProgressInv'
    OBVIOUS
  <2>1. CASE ProgressNext /\ ~TransferOver
    BY <2>1, ProducerStepInv, BroadcastStepInv, ReleaseStepInv, WatcherStepInv
    DEF ProgressNext
  <2>2. CASE UNCHANGED progressVars
    <3>1. \A w \in Watchers : lastWritten(w)' = lastWritten(w)
      BY <2>2, LastWrittenUnchanged DEF progressVars, watcherVars
    <3>2. QED
      BY <2>2, <3>1
      DEF ProgressInv, ProgressTypeOK, BroadcastInv, WatcherInv, progressVars,
          producerVars, broadcastVars, watcherVars
  <2>3. QED
    BY <2>1, <2>2 DEF TransferOver
<1>2. QED
  BY ProgressInitInv, <1>1, PTL DEF ProgressSpec

\* The state of the progress machinery keeps its types.
THEOREM ProgressTypeCorrect == ProgressSpec => []ProgressTypeOK
BY ProgressInvariant, PTL DEF ProgressInv

\* "broadcastSyncChan ensures a detaching watcher won't miss an event that was sent
\* before it started detaching", for any number of watchers and of events.
THEOREM NothingIsMissed == ProgressSpec => []NothingMissed
<1>1. ProgressInv => NothingMissed
  BY DEF ProgressInv, WatcherInv, NothingMissed
<1>2. QED
  BY <1>1, ProgressInvariant, PTL

\* A watcher that stays to the end of the transfer writes its last event.
THEOREM LastEventIsWritten == ProgressSpec => []LastEventWritten
<1>1. ProgressInv => LastEventWritten
  BY DEF ProgressInv, WatcherInv, LastEventWritten
<1>2. QED
  BY <1>1, ProgressInvariant, PTL
=============================================================================
