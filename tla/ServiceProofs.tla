----------------------------- MODULE ServiceProofs -----------------------------
(***************************************************************************)
(* A collector in service has recovered the past of every symbol, and from *)
(* the opening of the WebSocket on loses nothing of the present.           *)
(***************************************************************************)
EXTENDS CollectorProofs

USE RepositoryAssumption, CollectorAssumption

Covered(s) == \A m \in now - BootstrapMinutes .. since - 1 : Closed(s, m)

(* How far the first recovery of a connection has come: the symbols before  *)
(* the current one are covered, and while in service all of them are.       *)
Progress ==
    /\ pc \in RecoveryPCs => since - 1 <= job.last /\ job.cover <= now - BootstrapMinutes
    /\ (pc \in RecoveryPCs /\ job.type = "BACKFILL") =>
          \A s \in Symbols : s < job.symbol => Covered(s)
    /\ pc = "publish" => Covered(job.symbol)
    /\ pc = "golive" => \A s \in Symbols : Covered(s)
    /\ InService => \A s \in Symbols : Covered(s)

(* The invariant behind ServiceMeansRecovered. *)
ServiceInv == Typed /\ since <= now /\ Progress

(* What a step does to "now" and "since", other than at a new connection.   *)
LEMMA ClockStep ==
    ASSUME Typed, [Next]_vars
    PROVE  /\ now <= now' /\ now' \in Minutes /\ now \in Minutes /\ since \in Minutes
           /\ Start \/ Reconnect \/ since' = since
<1> USE DEF database, stream, history
<1>1. now \in Minutes /\ now' \in Minutes /\ since \in Minutes
  <2>1. Typed'
    BY TypedStep
  <2>2. now \in BootstrapMinutes .. MaxMinute /\ now' \in BootstrapMinutes .. MaxMinute
    BY <2>1 DEF Typed, TypeOK
  <2>3. since \in Minutes
    BY DEF Typed, TypeOK
  <2> QED
    BY <2>2, <2>3 DEF Minutes
<1>2. Tick \/ now' = now
  BY DEF Next, Recover, GoOn, Fault, vars, Connect, Start, Reconnect, BeginConnection,
         ReceiveUpdate, ReceiveFinal, ReceiveTrade, Receive, StreamFails, Crash,
         MarkAllDisconnected, MarkAllDisconnectedFails, MarkAllLive, NoticeStreamEnd,
         StartReconciliation, TakeEvent, GatherBatch, PersistLiveBatch, Announce,
         LiveStepFails, SkipCovered, RecordSuccessfulReconciliation, OpenRun, FetchPage,
         FetchPageWithGap, VerifyAndFinish, FindIncomplete, PublishBackfill,
         RecoveryStepFails, RecordFailure, RecoveryBookkeepingFails
<1>3. Start \/ Reconnect \/ since' = since
  BY DEF Next, Recover, GoOn, Fault, vars, Tick, Connect, StreamFails, Crash,
         ReceiveUpdate, ReceiveFinal, ReceiveTrade, Receive,
         MarkAllDisconnected, MarkAllDisconnectedFails, MarkAllLive, NoticeStreamEnd,
         StartReconciliation, TakeEvent, GatherBatch, PersistLiveBatch, Announce,
         LiveStepFails, SkipCovered, RecordSuccessfulReconciliation, OpenRun, FetchPage,
         FetchPageWithGap, VerifyAndFinish, FindIncomplete, PublishBackfill,
         RecoveryStepFails, RecordFailure, RecoveryBookkeepingFails
<1>4. now <= now'
  <2>1. now' = now + 1 \/ now' = now
    BY <1>2 DEF Tick
  <2> QED
    BY <1>1, <2>1 DEF Minutes
<1> QED
  BY <1>1, <1>3, <1>4

(* Once covered, a symbol stays covered until the next connection. *)
LEMMA CoveredStays ==
    ASSUME Typed, [Next]_vars, since' = since, NEW s \in Symbols, Covered(s)
    PROVE  Covered(s)'
<1> SUFFICES ASSUME NEW m \in now' - BootstrapMinutes .. since - 1
             PROVE  candles'[s][m].is_closed
  BY DEF Covered, Closed
<1>1. m \in now - BootstrapMinutes .. since - 1 /\ m \in Minutes
  <2>1. now \in BootstrapMinutes .. MaxMinute /\ now' \in Minutes /\ since \in Minutes /\ now <= now'
    BY ClockStep DEF Typed, TypeOK
  <2>2. PICK later : later = now'
    OBVIOUS
  <2>3. m \in later - BootstrapMinutes .. since - 1
    BY <2>2, Zenon
  <2>4. later \in Nat /\ now \in Nat /\ BootstrapMinutes <= now /\ now <= later
        /\ since \in Nat /\ since <= MaxMinute
    BY <2>1, <2>2 DEF Minutes
  <2> QED
    BY <2>3, <2>4 DEF Minutes
<1>2. candles[s][m].is_closed
  BY <1>1 DEF Covered, Closed
<1> QED
  BY <1>1, <1>2, CandlesOnlyAdvance

(* Where the coverage check found nothing missing, the symbol is covered.   *)
LEMMA NoneMissingMeansCovered ==
    ASSUME ServiceInv, pc \in RecoveryPCs, FirstMissing = NoMinute
    PROVE  Covered(job.symbol)
<1>1. \A m \in job.cover .. job.last : candles[job.symbol][m].is_closed
  BY FirstMissingOfJob DEF ServiceInv
<1>2. since - 1 <= job.last /\ job.cover <= now - BootstrapMinutes
  BY DEF ServiceInv, Progress
<1>3. job.cover \in Int /\ job.last \in Int /\ since \in Int /\ now \in Int
  BY DEF ServiceInv, Typed, TypeOK, Minutes
<1> QED
  BY <1>1, <1>2, <1>3 DEF Covered, Closed

(* Moving on to the next symbol, or to the end of the pass. *)
LEMMA NextSymbolProgress ==
    ASSUME ServiceInv, NextSymbol, pc \in RecoveryPCs, now' = now, since' = since,
           \A s \in Symbols : Covered(s) => Covered(s)',
           job.type = "BACKFILL" => Covered(job.symbol)
    PROVE  Progress'
<1>1. /\ job.symbol \in Symbols /\ job.type \in RunTypes /\ now \in Int /\ since \in Int
      /\ since <= now
  BY DEF ServiceInv, Typed, TypeOK, RunMatchesJob, Minutes
<1>2. job.type = "RECONCILIATION" => \A s \in Symbols : Covered(s)'
  BY DEF ServiceInv, Progress, InService
<1>3. job.type = "BACKFILL" => \A s \in Symbols : s <= job.symbol => Covered(s)'
  BY <1>1 DEF ServiceInv, Progress, Symbols
<1>4. CASE job.symbol < NumSymbols
  <2>1. /\ pc' = "check" /\ job' = NewJob(job.symbol + 1, job.type)
        /\ job.symbol + 1 \in Symbols
    BY <1>1, <1>4 DEF NextSymbol, Symbols
  <2>2. /\ job'.symbol = job.symbol + 1 /\ job'.type = job.type
        /\ job'.cover = now - BootstrapMinutes /\ job'.last = now - 1
    BY <2>1 DEF NewJob
  <2>3. since' - 1 <= job'.last /\ job'.cover <= now' - BootstrapMinutes
    BY <1>1, <2>2
  <2>4. \A s \in Symbols : s < job.symbol + 1 => s <= job.symbol
    BY <1>1 DEF Symbols
  <2> QED
    BY <1>1, <1>2, <1>3, <2>1, <2>2, <2>3, <2>4
    DEF Progress, InService, RecoveryPCs, LivePCs, RunTypes
<1>5. CASE ~ (job.symbol < NumSymbols)
  <2>1. \A s \in Symbols : Covered(s)'
    <3>1. \A s \in Symbols : s <= job.symbol
      BY <1>1, <1>5 DEF Symbols
    <3> QED
      BY <1>1, <1>2, <1>3, <3>1 DEF RunTypes
  <2>2. pc' \in {"golive", "wait"} /\ job' = NoJob
    BY <1>5 DEF NextSymbol
  <2> QED
    BY <2>1, <2>2 DEF Progress, InService, RecoveryPCs
<1> QED
  BY <1>4, <1>5

(* A step that ends the connection leaves nothing to show. *)
LEMMA OutOfServiceProgress ==
    ASSUME pc' \in {"down", "disconnect", "backoff", "dead"}, job' = NoJob
    PROVE  Progress'
  BY DEF Progress, InService, RecoveryPCs, LivePCs, NoJob

(* A step that stays where it is, or goes on within one symbol's recovery   *)
(* short of publishing it, or within the live loop.                         *)
LEMMA SameJobProgress ==
    ASSUME ServiceInv, [Next]_vars, since' = since,
           \A s \in Symbols : Covered(s) => Covered(s)',
           job'.symbol = job.symbol, job'.type = job.type,
           job'.cover = job.cover, job'.last = job.last,
           \/ pc' = pc
           \/ pc \in RecoveryPCs /\ pc' \in RecoveryPCs \ {"publish"}
           \/ pc \in LivePCs /\ pc' \in LivePCs
    PROVE  Progress'
<1>1. now <= now' /\ now \in Int /\ now' \in Int
  BY ClockStep DEF ServiceInv, Minutes
<1>2. pc' \in RecoveryPCs => pc \in RecoveryPCs
  BY DEF RecoveryPCs, LivePCs
<1>3. pc' = "publish" => pc = "publish"
  BY DEF LivePCs, RecoveryPCs
<1>4. pc' = "golive" => pc = "golive"
  BY DEF LivePCs, RecoveryPCs
<1>5. InService' => InService
  BY DEF InService, LivePCs, RecoveryPCs
<1>6. pc \in RecoveryPCs => job.symbol \in Symbols /\ job.cover \in Int
  BY DEF ServiceInv, Typed, TypeOK, RunMatchesJob, Minutes
<1>7. pc' \in RecoveryPCs => since' - 1 <= job'.last
  BY <1>2 DEF ServiceInv, Progress
<1>8. pc' \in RecoveryPCs => job'.cover <= now' - BootstrapMinutes
  BY <1>1, <1>2, <1>6 DEF ServiceInv, Progress
<1>9. pc' = "publish" => Covered(job.symbol)'
  BY <1>3, <1>6 DEF ServiceInv, Progress, RecoveryPCs
<1>10. (pc' \in RecoveryPCs /\ job'.type = "BACKFILL") =>
          \A s \in Symbols : s < job'.symbol => Covered(s)'
  BY <1>2 DEF ServiceInv, Progress
<1>11. (pc' = "golive" \/ InService') => \A s \in Symbols : Covered(s)'
  BY <1>4, <1>5 DEF ServiceInv, Progress
<1> QED
  BY <1>7, <1>8, <1>9, <1>10, <1>11 DEF Progress, Covered, Closed

LEMMA ServiceStep == ServiceInv /\ [Next]_vars => ServiceInv'
<1> SUFFICES ASSUME ServiceInv, [Next]_vars PROVE ServiceInv'
  OBVIOUS
<1> USE DEF database, stream, history
<1>1. Typed /\ Typed' /\ now <= now' /\ now \in Minutes /\ now' \in Minutes /\ since \in Minutes
  BY TypedStep, ClockStep DEF ServiceInv
<1>2. pc \notin RecoveryPCs => job = NoJob
  BY DEF ServiceInv, Typed, RunMatchesJob
<1>3. since' = since => since' <= now'
  BY <1>1 DEF ServiceInv, Minutes
<1>4. since' = since => \A s \in Symbols : Covered(s) => Covered(s)'
  BY <1>1, CoveredStays
<1>5. CASE Start \/ Reconnect
  <2>1. /\ pc' = "check" /\ job' = NewJob(1, "BACKFILL") /\ since' = now /\ now' = now
    BY <1>5 DEF Start, Reconnect, BeginConnection
  <2>2. /\ job'.symbol = 1 /\ job'.type = "BACKFILL"
        /\ job'.cover = now - BootstrapMinutes /\ job'.last = now - 1
    BY <2>1 DEF NewJob
  <2>3. \A s \in Symbols : ~ (s < 1)
    BY DEF Symbols
  <2>4. since' - 1 <= job'.last /\ job'.cover <= now' - BootstrapMinutes /\ since' <= now'
    BY <1>1, <2>1, <2>2 DEF Minutes
  <2>5. Progress'
    BY <2>1, <2>2, <2>3, <2>4 DEF Progress, InService, LivePCs
  <2> QED
    BY <1>1, <2>4, <2>5 DEF ServiceInv
<1>6. CASE since' = since /\ pc' = pc /\ job' = job
  BY <1>1, <1>3, <1>4, <1>6, SameJobProgress DEF ServiceInv
<1>7. CASE Tick \/ Connect \/ StreamFails \/ UNCHANGED vars
           \/ \E s \in Symbols : ReceiveUpdate(s) \/ ReceiveFinal(s) \/ ReceiveTrade(s)
  BY <1>6, <1>7 DEF Tick, Connect, StreamFails, vars, ReceiveUpdate, ReceiveFinal,
                    ReceiveTrade, Receive
<1>8. CASE Crash \/ NoticeStreamEnd \/ LiveStepFails
  <2>1. since' = since /\ pc' \in {"down", "disconnect"} /\ job' = NoJob
    BY <1>8 DEF Crash, NoticeStreamEnd, LiveStepFails, Teardown
  <2> QED
    BY <1>1, <1>3, <2>1, OutOfServiceProgress DEF ServiceInv
<1>9. CASE MarkAllDisconnected \/ MarkAllDisconnectedFails
  <2>1. since' = since /\ pc' \in {"backoff", "dead"} /\ job' = NoJob
    BY <1>2, <1>9 DEF MarkAllDisconnected, MarkAllDisconnectedFails, RecoveryPCs
  <2> QED
    BY <1>1, <1>3, <2>1, OutOfServiceProgress DEF ServiceInv
<1>10. CASE MarkAllLive
  <2>1. since' = since /\ pc = "golive" /\ pc' = "wait" /\ job' = NoJob
    BY <1>2, <1>10 DEF MarkAllLive, RecoveryPCs
  <2>2. \A s \in Symbols : Covered(s)'
    BY <1>4, <2>1 DEF ServiceInv, Progress
  <2>3. Progress'
    BY <2>1, <2>2 DEF Progress, RecoveryPCs
  <2> QED
    BY <1>1, <1>3, <2>1, <2>3 DEF ServiceInv
<1>11. CASE StartReconciliation
  <2>1. /\ since' = since /\ now' = now /\ pc = "wait" /\ pc' = "check"
        /\ job' = NewJob(1, "RECONCILIATION")
    BY <1>11 DEF StartReconciliation
  <2>2. /\ job'.symbol = 1 /\ job'.type = "RECONCILIATION"
        /\ job'.cover = now - BootstrapMinutes /\ job'.last = now - 1
    BY <2>1 DEF NewJob
  <2>3. \A s \in Symbols : Covered(s)'
    BY <1>4, <2>1 DEF ServiceInv, Progress, InService, LivePCs
  <2>4. since' - 1 <= job'.last /\ job'.cover <= now' - BootstrapMinutes
    BY <1>1, <1>3, <2>1, <2>2 DEF Minutes
  <2>5. Progress'
    BY <2>1, <2>2, <2>3, <2>4 DEF Progress
  <2> QED
    BY <1>1, <1>3, <2>1, <2>5 DEF ServiceInv
<1>12. CASE TakeEvent \/ GatherBatch \/ PersistLiveBatch \/ Announce
  <2>1. since' = since /\ job' = job /\ pc \in LivePCs /\ pc' \in LivePCs
    BY <1>12 DEF TakeEvent, GatherBatch, PersistLiveBatch, Announce, LivePCs
  <2> QED
    BY <1>1, <1>3, <1>4, <2>1, SameJobProgress DEF ServiceInv
<1>13. CASE SkipCovered \/ RecordSuccessfulReconciliation \/ PublishBackfill
  <2>1. /\ since' = since /\ now' = now /\ pc \in RecoveryPCs /\ NextSymbol
        /\ pc = "publish" \/ FirstMissing = NoMinute
    BY <1>13 DEF SkipCovered, RecordSuccessfulReconciliation, PublishBackfill, RecoveryPCs
  <2>2. Covered(job.symbol)
    BY <2>1, NoneMissingMeansCovered DEF ServiceInv, Progress
  <2> QED
    BY <1>1, <1>3, <1>4, <2>1, <2>2, NextSymbolProgress DEF ServiceInv
<1>14. CASE RecordFailure \/ RecoveryBookkeepingFails
  <2>1. /\ since' = since /\ now' = now /\ pc \in RecoveryPCs /\ RecoveryRaised
    BY <1>14 DEF RecordFailure, RecoveryBookkeepingFails, RecoveryPCs
  <2>2. CASE Teardown
    <3>1. pc' = "disconnect" /\ job' = NoJob
      BY <2>2 DEF Teardown
    <3> QED
      BY <1>1, <1>3, <2>1, <3>1, OutOfServiceProgress DEF ServiceInv
  <2>3. CASE job.type = "RECONCILIATION" /\ NextSymbol
    BY <1>1, <1>3, <1>4, <2>1, <2>3, NextSymbolProgress DEF ServiceInv
  <2> QED
    BY <2>1, <2>2, <2>3 DEF RecoveryRaised
<1>15. CASE OpenRun \/ FetchPage \/ FetchPageWithGap \/ FindIncomplete \/ RecoveryStepFails
  <2>1. job \in [symbol : 0 .. NumSymbols, type : RunTypes \cup {"NONE"},
                 cover : Minutes, last : Minutes, next : Minutes]
    BY <1>1 DEF Typed, TypeOK
  <2>2. job' = job \/ \E next : job' = [job EXCEPT !.next = next]
    BY <1>15 DEF OpenRun, FetchPage, FetchPageWithGap, StorePage, FindIncomplete,
                 RecoveryStepFails
  <2>3. /\ job'.symbol = job.symbol /\ job'.type = job.type
        /\ job'.cover = job.cover /\ job'.last = job.last
    BY <2>1, <2>2
  <2>4. since' = since /\ pc \in RecoveryPCs /\ pc' \in RecoveryPCs \ {"publish"}
    BY <1>15 DEF OpenRun, FetchPage, FetchPageWithGap, StorePage, FindIncomplete,
                 RecoveryStepFails, RecoveryPCs
  <2> QED
    BY <1>1, <1>3, <1>4, <2>3, <2>4, SameJobProgress DEF ServiceInv
<1>16. CASE VerifyAndFinish
  <2>1. /\ since' = since /\ now' = now /\ job' = job /\ pc = "verify" /\ pc' = "publish"
        /\ pc \in RecoveryPCs /\ FirstMissing = NoMinute
    BY <1>16 DEF VerifyAndFinish, RecoveryPCs
  <2>2. job.symbol \in Symbols
    BY <1>1, <2>1 DEF Typed, RunMatchesJob
  <2>3. Covered(job.symbol)'
    BY <1>4, <2>1, <2>2, NoneMissingMeansCovered
  <2>4. since' - 1 <= job'.last /\ job'.cover <= now' - BootstrapMinutes
    BY <2>1 DEF ServiceInv, Progress
  <2>5. job'.type = "BACKFILL" => \A s \in Symbols : s < job'.symbol => Covered(s)'
    BY <1>4, <2>1 DEF ServiceInv, Progress
  <2>6. InService' => \A s \in Symbols : Covered(s)'
    BY <1>4, <2>1 DEF ServiceInv, Progress, InService, LivePCs
  <2>7. Progress'
    BY <2>1, <2>3, <2>4, <2>5, <2>6 DEF Progress
  <2> QED
    BY <1>1, <1>3, <2>1, <2>7 DEF ServiceInv
<1> QED
  BY <1>5, <1>7, <1>8, <1>9, <1>10, <1>11, <1>12, <1>13, <1>14, <1>15, <1>16
  DEF Next, Recover, GoOn, Fault

LEMMA ServiceInit == Init => ServiceInv
<1> SUFFICES ASSUME Init PROVE ServiceInv
  OBVIOUS
<1>1. since <= now
  BY DEF Init
<1>2. Progress
  BY DEF Init, Progress, InService, RecoveryPCs, LivePCs, NoJob
<1> QED
  BY <1>1, <1>2, TypedInit DEF ServiceInv

(* While the collector is in service every minute of the bootstrap window   *)
(* that was complete when the connection began has a closed candle, for     *)
(* every symbol, however the recovery was interrupted before.               *)
THEOREM ServiceIsRecovered == Spec => []ServiceMeansRecovered
<1>1. ServiceInv => ServiceMeansRecovered
  BY DEF ServiceInv, Progress, ServiceMeansRecovered, Covered
<1> QED
  BY <1>1, ServiceInit, ServiceStep, PTL DEF Spec

-----------------------------------------------------------------------------
(* What is on its way.                                                      *)

(* The events between the WebSocket and the tables, in their order: what    *)
(* the coroutine has taken, then what is queued.                            *)
Pipe == batch \o queue

(* From position k on, the pipe brings the end of the minute. *)
Closes(p, k, s, m) == \E j \in DOMAIN p : j >= k /\ ClosingEvent(p[j], s, m)

IsUpdate(e) == e.kind = "candle" /\ ~e.is_closed

(* Every minute that ended under the stream is in the table with its final  *)
(* values, or on its way.                                                   *)
Survives(s, m) ==
    \/ Closed(s, m) /\ candles[s][m].final
    \/ m \in inFlight[s]
    \/ Closes(Pipe, 1, s, m)

(* An update in the pipe cannot do lasting harm: its minute is still open,  *)
(* or the minute's closing event comes after it.                            *)
Harmless(e, i) ==
    \/ e.minute = now
    \/ e.minute \in inFlight[e.symbol]
    \/ Closes(Pipe, i, e.symbol, e.minute)

Streaming ==
    /\ \A s \in Symbols : \A m \in joined .. now - 1 : Survives(s, m)
    /\ \A i \in DOMAIN Pipe : IsUpdate(Pipe[i]) => Harmless(Pipe[i], i)

(* Nothing is on its way before the WebSocket opens, no reader outlives its *)
(* connection, and a batch is taken up only when the last one is done with. *)
NothingLeftOver ==
    /\ reader \in {"off", "connecting"} =>
          queue = <<>> /\ batch = <<>> /\ inFlight = NothingInFlight
    /\ pc \in {"down", "disconnect", "backoff", "dead"} => reader = "off"
    /\ pc \notin {"gather", "persist"} => batch = <<>>

(* The invariant behind StreamedMinutesSurvive. *)
StreamInv == Typed /\ NothingLeftOver /\ (reader = "streaming" => Streaming)

LEMMA ClockType ==
    ASSUME Typed
    PROVE  /\ now \in Minutes /\ joined \in Minutes /\ now \in Int /\ joined \in Int
           /\ joined .. now - 1 \subseteq Minutes
<1>1. now \in BootstrapMinutes .. MaxMinute /\ joined \in Minutes
  BY DEF Typed, TypeOK
<1>2. MaxMinute \in Nat /\ BootstrapMinutes \in Nat
  OBVIOUS
<1>3. joined \in Nat /\ joined <= MaxMinute
  BY <1>1 DEF Minutes
<1>4. now \in Nat /\ now <= MaxMinute
  BY <1>1, <1>2
<1> QED
  BY <1>2, <1>3, <1>4 DEF Minutes

LEMMA PipeType ==
    ASSUME Typed
    PROVE  /\ batch \in Seq(Event) /\ queue \in Seq(Event) /\ Pipe \in Seq(Event)
           /\ Len(batch) \in Nat /\ Len(queue) \in Nat
           /\ DOMAIN batch = 1 .. Len(batch) /\ DOMAIN queue = 1 .. Len(queue)
           /\ DOMAIN Pipe = 1 .. Len(batch) + Len(queue)
           /\ \A i \in DOMAIN Pipe : Pipe[i] \in Event /\ Pipe[i].symbol \in Symbols
           /\ \A i \in 1 .. Len(batch) : Pipe[i] = batch[i]
           /\ \A i \in 1 .. Len(queue) : Pipe[Len(batch) + i] = queue[i]
<1>1. batch \in Seq(Event) /\ queue \in Seq(Event)
  BY DEF Typed, TypeOK
<1>2. /\ Pipe \in Seq(Event) /\ Len(Pipe) = Len(batch) + Len(queue)
      /\ \A i \in 1 .. Len(batch) + Len(queue) :
            Pipe[i] = IF i <= Len(batch) THEN batch[i] ELSE queue[i - Len(batch)]
  BY <1>1, ConcatProperties DEF Pipe
<1>3. Len(batch) \in Nat /\ Len(queue) \in Nat
  BY <1>1, LenProperties
<1>4. /\ DOMAIN batch = 1 .. Len(batch) /\ DOMAIN queue = 1 .. Len(queue)
      /\ DOMAIN Pipe = 1 .. Len(Pipe)
  BY <1>1, <1>2, LenProperties
<1>5. \A i \in 1 .. Len(batch) : Pipe[i] = batch[i]
  BY <1>2, <1>3
<1>6. ASSUME NEW i \in 1 .. Len(queue) PROVE Pipe[Len(batch) + i] = queue[i]
  <2>1. PICK k : k = Len(batch) + i
    OBVIOUS
  <2>2. k \in 1 .. Len(batch) + Len(queue) /\ ~ (k <= Len(batch)) /\ k - Len(batch) = i
    BY <1>3, <2>1
  <2> QED
    BY <1>2, <2>1, <2>2
<1>7. \A i \in DOMAIN Pipe : Pipe[i] \in Event /\ Pipe[i].symbol \in Symbols
  <2>1. \A i \in DOMAIN Pipe : Pipe[i] \in Event
    BY <1>2, <1>4, ElementOfSeq
  <2> QED
    BY <2>1 DEF Event
<1> QED
  BY <1>1, <1>2, <1>3, <1>4, <1>5, <1>6, <1>7

(* The events that the property calls arriving. *)
LEMMA SurvivesIsArriving ==
    ASSUME Typed, NEW s \in Symbols, NEW m, Survives(s, m)
    PROVE  (Closed(s, m) /\ candles[s][m].final) \/ Arriving(s, m)
<1>1. ASSUME NEW j \in DOMAIN Pipe, ClosingEvent(Pipe[j], s, m)
      PROVE  Arriving(s, m)
  <2>1. CASE j <= Len(batch)
    BY <1>1, <2>1, PipeType DEF Arriving
  <2>2. CASE ~ (j <= Len(batch))
    <3>1. PICK i \in DOMAIN queue : j = Len(batch) + i
      <4>1. j - Len(batch) \in DOMAIN queue /\ j = Len(batch) + (j - Len(batch))
        BY <1>1, <2>2, PipeType
      <4> QED
        BY <4>1
    <3> QED
      BY <1>1, <3>1, PipeType DEF Arriving
  <2> QED
    BY <2>1, <2>2
<1> QED
  BY <1>1 DEF Survives, Closes, Arriving

-----------------------------------------------------------------------------
(* The rows.                                                                *)

(* What an upsert leaves of a row: what it was, or a closing event's row.   *)
LEMMA UpsertCloses ==
    ASSUME NEW table \in [Symbols -> [Minutes -> CandleRow]], NEW rows,
           NEW s \in Symbols, NEW m \in Minutes,
           NEW r \in rows, r.symbol = s, r.minute = m, r.is_closed
    PROVE  UpsertCandles(table, rows)[s][m].is_closed /\ UpsertCandles(table, rows)[s][m].final
  BY DEF UpsertCandles

LEMMA UpsertOfOthers ==
    ASSUME NEW table \in [Symbols -> [Minutes -> CandleRow]], NEW rows,
           NEW s \in Symbols, NEW m \in Minutes,
           \A r \in rows : ~ (r.symbol = s /\ r.minute = m)
    PROVE  UpsertCandles(table, rows)[s][m] = table[s][m]
  BY DEF UpsertCandles

(* A page of REST candles leaves a row as it is, or closed and final. *)
LEMMA PageIsFinal ==
    ASSUME Typed, NEW page, StorePage(page), NEW s \in Symbols, NEW m \in Minutes
    PROVE  \/ candles'[s][m] = candles[s][m]
           \/ candles'[s][m].is_closed /\ candles'[s][m].final
<1>1. CASE UNCHANGED candles
  BY <1>1
<1>2. CASE candles' = UpsertCandles(candles,
             {[symbol |-> job.symbol, minute |-> k, is_closed |-> TRUE] : k \in page})
  <2> DEFINE rows == {[symbol |-> job.symbol, minute |-> k, is_closed |-> TRUE] : k \in page}
  <2>1. candles \in [Symbols -> [Minutes -> CandleRow]]
    BY DEF Typed, TypeOK
  <2>2. CASE \E r \in rows : r.symbol = s /\ r.minute = m
    <3>1. PICK r \in rows : r.symbol = s /\ r.minute = m
      BY <2>2
    <3>2. r.is_closed
      BY <3>1
    <3> HIDE DEF rows
    <3> QED
      BY <1>2, <2>1, <3>1, <3>2, UpsertCloses DEF rows
  <2>3. CASE ~ \E r \in rows : r.symbol = s /\ r.minute = m
    BY <1>2, <2>1, <2>3, UpsertOfOthers
  <2> QED
    BY <2>2, <2>3
<1> QED
  BY <1>1, <1>2 DEF StorePage

(* A batch leaves a row as it is, or what the last event of its candle      *)
(* brings.                                                                  *)
LEMMA LastEventWins ==
    ASSUME Typed, PersistLiveBatch, NEW s \in Symbols, NEW m \in Minutes
    PROVE  \/ /\ candles'[s][m] = candles[s][m]
              /\ \A i \in DOMAIN batch : ~ ClosingEvent(batch[i], s, m)
           \/ \E i \in DOMAIN batch :
                 /\ batch[i].kind = "candle" /\ batch[i].symbol = s /\ batch[i].minute = m
                 /\ \A k \in DOMAIN batch : ClosingEvent(batch[k], s, m) => k <= i
                 /\ batch[i].is_closed => candles'[s][m].is_closed /\ candles'[s][m].final
<1> DEFINE mine == {i \in DOMAIN batch : /\ batch[i].kind = "candle"
                                         /\ batch[i].symbol = s /\ batch[i].minute = m}
           rows == DeduplicateCandles(batch)
<1>1. /\ candles' = UpsertCandles(candles, rows)
      /\ candles \in [Symbols -> [Minutes -> CandleRow]]
  BY DEF PersistLiveBatch, Typed, TypeOK
<1>2. \A i \in DOMAIN batch : ClosingEvent(batch[i], s, m) => i \in mine
  BY DEF ClosingEvent
<1>3. \A r \in rows : r.symbol = s /\ r.minute = m => \E i \in mine : r = batch[i]
  BY DEF DeduplicateCandles
<1>4. CASE mine = {}
  <2>1. \A r \in rows : ~ (r.symbol = s /\ r.minute = m)
    BY <1>3, <1>4
  <2> HIDE DEF rows
  <2> QED
    BY <1>1, <1>2, <1>4, <2>1, UpsertOfOthers
<1>5. CASE mine # {}
  <2>1. Len(batch) \in Nat /\ mine \in SUBSET (1 .. Len(batch)) /\ DOMAIN batch = 1 .. Len(batch)
    BY PipeType
  <2>2. PICK i \in mine : \A k \in mine : k <= i
    <3> HIDE DEF mine
    <3> QED
      BY <1>5, <2>1, GreatestExists
  <2>3. batch[i] \in rows
    <3>1. \A k \in DOMAIN batch : (k > i /\ batch[k].kind = "candle") =>
             <<batch[k].symbol, batch[k].minute>> # <<batch[i].symbol, batch[i].minute>>
      BY <2>1, <2>2
    <3> QED
      BY <2>2, <3>1 DEF DeduplicateCandles
  <2>4. batch[i].is_closed => candles'[s][m].is_closed /\ candles'[s][m].final
    <3> HIDE DEF rows
    <3> QED
      BY <1>1, <2>2, <2>3, UpsertCloses
  <2> QED
    BY <1>2, <2>2, <2>4
<1> QED
  BY <1>4, <1>5

-----------------------------------------------------------------------------
(* The steps.                                                               *)

(* Without an open WebSocket and with nothing taken there is nothing to say.*)
LEMMA EmptyStep ==
    ASSUME Typed', reader' \in {"off", "connecting"},
           queue' = <<>>, batch' = <<>>, inFlight' = NothingInFlight,
           pc' \in {"down", "disconnect", "backoff", "dead"} => reader' = "off"
    PROVE  StreamInv'
  BY DEF StreamInv, NothingLeftOver, NothingInFlight

LEMMA SurvivingStays ==
    ASSUME Typed, NEW s \in Symbols, NEW m \in Minutes, Survives(s, m),
           inFlight'[s] = inFlight[s], UNCHANGED Pipe,
           \/ candles'[s][m] = candles[s][m]
           \/ candles'[s][m].is_closed /\ candles'[s][m].final
    PROVE  Survives(s, m)'
  BY DEF Survives, Closed, Closes

(* Nothing moves in the pipe. *)
LEMMA QuietStep ==
    ASSUME StreamInv, Typed', UNCHANGED <<now, reader, inFlight, joined, Pipe>>,
           (UNCHANGED queue /\ UNCHANGED batch) \/ reader \notin {"off", "connecting"},
           \A s \in Symbols, m \in Minutes :
              \/ candles'[s][m] = candles[s][m]
              \/ candles'[s][m].is_closed /\ candles'[s][m].final,
           pc' \in {"down", "disconnect", "backoff", "dead"} => reader = "off",
           pc' \notin {"gather", "persist"} => batch' = <<>>
    PROVE  StreamInv'
<1>1. NothingLeftOver'
  BY DEF StreamInv, NothingLeftOver, NothingInFlight
<1>2. ASSUME reader = "streaming", NEW s \in Symbols, NEW m \in joined .. now - 1
      PROVE  Survives(s, m)'
  <2>1. m \in Minutes /\ Survives(s, m) /\ Typed
    BY <1>2, ClockType DEF StreamInv, Streaming
  <2> QED
    BY <1>2, <2>1, SurvivingStays
<1>3. ASSUME reader = "streaming", NEW i \in DOMAIN Pipe, IsUpdate(Pipe[i])
      PROVE  Harmless(Pipe[i], i)'
  BY <1>3 DEF StreamInv, Streaming, Harmless, Closes
<1> QED
  BY <1>1, <1>2, <1>3 DEF StreamInv, Streaming

(* A minute ends: its closing event is sent. *)
LEMMA TickStep == StreamInv /\ Typed' /\ Tick => StreamInv'
<1> SUFFICES ASSUME StreamInv, Typed', Tick PROVE StreamInv'
  OBVIOUS
<1> USE DEF database, history
<1>1. /\ UNCHANGED <<reader, queue, batch, pc, joined, candles, Pipe>> /\ now' = now + 1
      /\ now \in Int /\ joined \in Int /\ now \in Minutes
  BY ClockType DEF Tick, Pipe, StreamInv
<1>2. NothingLeftOver'
  BY <1>1 DEF StreamInv, NothingLeftOver, NothingInFlight, Tick
<1>3. ASSUME reader = "streaming"
      PROVE  \A s \in Symbols : inFlight'[s] = inFlight[s] \cup {now}
  BY <1>3 DEF Tick
<1>4. ASSUME reader = "streaming", NEW s \in Symbols, NEW m \in joined .. now' - 1
      PROVE  Survives(s, m)'
  <2>1. m = now \/ m \in joined .. now - 1
    BY <1>1, <1>4
  <2>2. m \in joined .. now - 1 => Survives(s, m)
    BY <1>4 DEF StreamInv, Streaming
  <2> QED
    BY <1>1, <1>3, <1>4, <2>1, <2>2 DEF Survives, Closed, Closes
<1>5. ASSUME reader = "streaming", NEW i \in DOMAIN Pipe, IsUpdate(Pipe[i])
      PROVE  Harmless(Pipe[i], i)'
  <2>1. Harmless(Pipe[i], i)
    BY <1>5 DEF StreamInv, Streaming
  <2>2. Pipe[i].symbol \in Symbols
    BY <1>5, PipeType DEF StreamInv
  <2> QED
    BY <1>1, <1>3, <1>5, <2>1, <2>2 DEF Harmless, Closes
<1> QED
  BY <1>1, <1>2, <1>4, <1>5 DEF StreamInv, Streaming

(* The WebSocket opens. *)
LEMMA ConnectStep == StreamInv /\ Typed' /\ Connect => StreamInv'
<1> SUFFICES ASSUME StreamInv, Typed', Connect PROVE StreamInv'
  OBVIOUS
<1>1. queue' = <<>> /\ batch' = <<>> /\ pc' = pc /\ now' = now /\ joined' = now
  BY DEF Connect, StreamInv, NothingLeftOver
<1>2. NothingLeftOver'
  BY <1>1 DEF Connect, StreamInv, NothingLeftOver
<1>3. Pipe' = <<>>
  BY <1>1, EmptySeq, ConcatEmptySeq DEF Pipe
<1>4. \A m \in joined' .. now' - 1 : FALSE
  <2>1. now \in Int
    BY ClockType DEF StreamInv
  <2> QED
    BY <1>1, <2>1
<1>5. DOMAIN Pipe' = {}
  BY <1>3
<1> QED
  BY <1>2, <1>4, <1>5 DEF StreamInv, Streaming

(* An event is received: it comes behind everything on its way.             *)
LEMMA PipeGrows ==
    ASSUME Typed, NEW e \in Event, Receive(e)
    PROVE  /\ DOMAIN Pipe' = 1 .. Len(Pipe) + 1 /\ DOMAIN Pipe = 1 .. Len(Pipe)
           /\ Len(Pipe) \in Nat
           /\ \A i \in DOMAIN Pipe : Pipe'[i] = Pipe[i]
           /\ Pipe'[Len(Pipe) + 1] = e
<1>1. Pipe \in Seq(Event) /\ batch \in Seq(Event) /\ queue \in Seq(Event)
  BY PipeType
<1>2. Pipe' = batch \o Append(queue, e)
  BY DEF Receive, Pipe
<1>3. Append(queue, e) = queue \o <<e>> /\ Append(Pipe, e) = Pipe \o <<e>>
  BY <1>1, AppendIsConcat
<1>4. <<e>> \in Seq(Event)
  OBVIOUS
<1>5. Pipe' = Append(Pipe, e)
  BY <1>1, <1>2, <1>3, <1>4, ConcatAssociative DEF Pipe
<1> QED
  BY <1>1, <1>5, AppendProperties, LenProperties

(* What is received, and where it was before. *)
LEMMA WhatIsReceived ==
    ASSUME Typed, NEW s \in Symbols, ReceiveUpdate(s) \/ ReceiveFinal(s) \/ ReceiveTrade(s)
    PROVE  \E e \in Event :
             /\ Receive(e)
             /\ \/ IsUpdate(e) /\ e.symbol = s /\ UpdatedMinute(s, e.minute) /\ UNCHANGED inFlight
                \/ /\ ClosingEvent(e, s, e.minute) /\ e.minute \in inFlight[s]
                   /\ inFlight' = [inFlight EXCEPT ![s] = @ \ {e.minute}]
                \/ e.kind = "trade" /\ ~ e.is_closed /\ UNCHANGED inFlight
<1>1. now \in Minutes /\ inFlight[s] \subseteq Minutes
  BY ClockType DEF Typed, TypeOK
<1>2. CASE ReceiveUpdate(s)
  <2>1. PICK m \in Minutes : /\ UpdatedMinute(s, m) /\ UNCHANGED inFlight
                             /\ Receive([kind |-> "candle", symbol |-> s, minute |-> m,
                                         is_closed |-> FALSE])
    BY <1>2 DEF ReceiveUpdate
  <2>2. PICK e \in Event : e = [kind |-> "candle", symbol |-> s, minute |-> m,
                                is_closed |-> FALSE]
    BY DEF Event
  <2>3. IsUpdate(e) /\ e.symbol = s /\ e.minute = m
    BY <2>2 DEF IsUpdate
  <2> QED
    BY <2>1, <2>2, <2>3
<1>3. CASE ReceiveFinal(s)
  <2>1. PICK m \in inFlight[s] :
           /\ inFlight' = [inFlight EXCEPT ![s] = @ \ {m}]
           /\ Receive([kind |-> "candle", symbol |-> s, minute |-> m, is_closed |-> TRUE])
    BY <1>3 DEF ReceiveFinal
  <2>2. PICK e \in Event : e = [kind |-> "candle", symbol |-> s, minute |-> m,
                                is_closed |-> TRUE]
    BY <1>1 DEF Event
  <2>3. ClosingEvent(e, s, e.minute) /\ e.minute = m
    BY <2>2 DEF ClosingEvent
  <2> QED
    BY <2>1, <2>2, <2>3
<1>4. CASE ReceiveTrade(s)
  <2>1. PICK e \in Event : e = [kind |-> "trade", symbol |-> s, minute |-> now,
                                is_closed |-> FALSE]
    BY <1>1 DEF Event
  <2>2. e.kind = "trade"
    BY <2>1
  <2> QED
    BY <1>4, <2>1, <2>2 DEF ReceiveTrade
<1> QED
  BY <1>2, <1>3, <1>4

(* A closing event on its way stays on its way. *)
LEMMA StillOnItsWay ==
    ASSUME Typed, NEW s \in Symbols, ReceiveUpdate(s) \/ ReceiveFinal(s) \/ ReceiveTrade(s),
           NEW t \in Symbols, NEW m
    PROVE  /\ \A k : Closes(Pipe, k, t, m) => Closes(Pipe', k, t, m)
           /\ m \in inFlight[t] =>
                 \/ m \in inFlight'[t]
                 \/ \A k \in 1 .. Len(Pipe) + 1 : Closes(Pipe', k, t, m)
<1> DEFINE last == Len(Pipe) + 1
<1>1. PICK e \in Event :
         /\ Receive(e)
         /\ \/ UNCHANGED inFlight
            \/ /\ ClosingEvent(e, s, e.minute)
               /\ inFlight' = [inFlight EXCEPT ![s] = @ \ {e.minute}]
  BY WhatIsReceived
<1>2. /\ DOMAIN Pipe' = 1 .. last /\ DOMAIN Pipe = 1 .. Len(Pipe) /\ Len(Pipe) \in Nat
      /\ \A i \in DOMAIN Pipe : Pipe'[i] = Pipe[i]
      /\ Pipe'[last] = e
  BY <1>1, PipeGrows
<1>3. last \in DOMAIN Pipe' /\ last \in Nat /\ \A i \in DOMAIN Pipe : i \in DOMAIN Pipe'
  BY <1>2
<1>4. \A k : Closes(Pipe, k, t, m) => Closes(Pipe', k, t, m)
  BY <1>2, <1>3 DEF Closes
<1>5. inFlight \in [Symbols -> SUBSET Minutes]
  BY DEF Typed, TypeOK
<1>6. ASSUME m \in inFlight[t], m \notin inFlight'[t]
      PROVE  ClosingEvent(e, t, m)
  BY <1>1, <1>5, <1>6 DEF ClosingEvent
<1>7. \A k \in 1 .. last : last >= k
  BY <1>3
<1> QED
  BY <1>2, <1>3, <1>4, <1>6, <1>7 DEF Closes

LEMMA ReceiveStep ==
    ASSUME StreamInv, Typed',
           NEW s \in Symbols, ReceiveUpdate(s) \/ ReceiveFinal(s) \/ ReceiveTrade(s)
    PROVE  StreamInv'
<1> USE DEF database, history
<1>1. PICK e \in Event :
         /\ Receive(e)
         /\ \/ IsUpdate(e) /\ e.symbol = s /\ UpdatedMinute(s, e.minute) /\ UNCHANGED inFlight
            \/ ClosingEvent(e, s, e.minute)
            \/ e.kind = "trade" /\ UNCHANGED inFlight
  BY WhatIsReceived DEF StreamInv
<1>2. /\ reader = "streaming" /\ UNCHANGED <<now, reader, joined, pc, batch, candles>>
      /\ inFlight \in [Symbols -> SUBSET Minutes] /\ now \in Int /\ Typed
  BY <1>1, ClockType DEF Receive, StreamInv, Typed, TypeOK
<1>3. NothingLeftOver'
  BY <1>2 DEF StreamInv, NothingLeftOver
<1> DEFINE last == Len(Pipe) + 1
<1>4. /\ DOMAIN Pipe' = 1 .. last /\ DOMAIN Pipe = 1 .. Len(Pipe) /\ Len(Pipe) \in Nat
      /\ \A i \in DOMAIN Pipe : Pipe'[i] = Pipe[i]
      /\ Pipe'[last] = e
  BY <1>1, <1>2, PipeGrows
<1>5. ASSUME NEW t \in Symbols, NEW m
      PROVE  /\ \A k : Closes(Pipe, k, t, m) => Closes(Pipe', k, t, m)
             /\ m \in inFlight[t] =>
                   \/ m \in inFlight'[t]
                   \/ \A k \in 1 .. last : Closes(Pipe', k, t, m)
  BY StillOnItsWay DEF StreamInv
<1>6. ASSUME NEW t \in Symbols, NEW m \in joined .. now - 1
      PROVE  Survives(t, m)'
  <2>1. Survives(t, m) /\ 1 \in 1 .. last
    BY <1>2, <1>4 DEF StreamInv, Streaming
  <2> QED
    BY <1>2, <1>5, <2>1 DEF Survives, Closed
<1>7. ASSUME NEW i \in DOMAIN Pipe', IsUpdate(Pipe'[i])
      PROVE  Harmless(Pipe[i], i)'
  <2>1. CASE i \in DOMAIN Pipe
    <3>1. Pipe'[i] = Pipe[i] /\ i \in 1 .. last /\ Harmless(Pipe[i], i)
      BY <1>2, <1>4, <1>7, <2>1 DEF StreamInv, Streaming
    <3>2. Pipe[i].symbol \in Symbols
      BY <1>2, <2>1, PipeType
    <3> QED
      BY <1>2, <1>5, <3>1, <3>2 DEF Harmless
  <2>2. CASE i = last
    <3>1. Pipe'[i] = e /\ IsUpdate(e)
      BY <1>4, <1>7, <2>2
    <3>2. e.symbol = s /\ UpdatedMinute(s, e.minute) /\ UNCHANGED inFlight
      BY <1>1, <3>1 DEF IsUpdate, ClosingEvent
    <3> QED
      BY <1>2, <3>1, <3>2 DEF Harmless, UpdatedMinute
  <2> QED
    BY <1>4, <2>1, <2>2
<1> QED
  BY <1>2, <1>3, <1>6, <1>7 DEF StreamInv, Streaming

(* Events are taken from the queue into the batch: the pipe is the same.    *)
LEMMA PipeIsTaken ==
    ASSUME Typed, NothingLeftOver, TakeEvent \/ GatherBatch
    PROVE  Pipe' = Pipe
<1>1. batch \in Seq(Event) /\ queue \in Seq(Event)
  BY PipeType
<1>2. CASE TakeEvent
  <2>1. batch = <<>> /\ queue # <<>> /\ batch' = <<Head(queue)>> /\ queue' = Tail(queue)
    BY <1>2 DEF TakeEvent, NothingLeftOver
  <2> QED
    BY <1>1, <2>1 DEF Pipe
<1>3. CASE GatherBatch
  <2>1. PICK n \in 0 .. Len(queue) : /\ batch' = batch \o SubSeq(queue, 1, n)
                                     /\ queue' = SubSeq(queue, n + 1, Len(queue))
    BY <1>3 DEF GatherBatch
  <2> DEFINE taken == SubSeq(queue, 1, n)
             kept  == SubSeq(queue, n + 1, Len(queue))
  <2>2. taken \in Seq(Event) /\ kept \in Seq(Event) /\ taken \o kept = queue
    <3>1. Len(queue) \in Nat /\ n \in Nat /\ n <= Len(queue) /\ n \in 1 - 1 .. Len(queue)
          /\ Len(queue) \in n .. Len(queue) /\ 1 \in 1 .. Len(queue) + 1
      BY <1>1, LenProperties
    <3>2. \A i \in 1 .. Len(queue) : queue[i] \in Event
      BY <1>1, ElementOfSeq
    <3>3. /\ \A i \in 1 .. n : queue[i] \in Event
          /\ \A i \in n + 1 .. Len(queue) : queue[i] \in Event
      BY <3>1, <3>2
    <3>4. taken \in Seq(Event) /\ kept \in Seq(Event)
      BY <3>1, <3>3, SubSeqProperties
    <3> QED
      BY <1>1, <3>1, <3>4, ConcatAdjacentSubSeq, SubSeqFull
  <2> HIDE DEF taken, kept
  <2>3. batch' = batch \o taken /\ queue' = kept
    BY <2>1 DEF taken, kept
  <2>4. \A q, v, w \in Seq(Event) : (q \o v) \o w = q \o (v \o w)
    BY ConcatAssociative
  <2>5. (batch \o taken) \o kept = batch \o (taken \o kept)
    BY <1>1, <2>2, <2>4, Zenon
  <2> QED
    BY <2>2, <2>3, <2>5, Zenon DEF Pipe
<1> QED
  BY <1>2, <1>3

LEMMA TakeStep ==
    ASSUME StreamInv, Typed', TakeEvent \/ GatherBatch
    PROVE  StreamInv'
<1> USE DEF database, history, stream
<1>1. Typed /\ Pipe' = Pipe
  BY PipeIsTaken DEF StreamInv
<1>2. CASE TakeEvent
  <2>1. queue # <<>>
    BY <1>2 DEF TakeEvent
  <2>2. reader \notin {"off", "connecting"}
    BY <2>1 DEF StreamInv, NothingLeftOver
  <2> QED
    BY <1>1, <1>2, <2>2, QuietStep DEF TakeEvent
<1>3. CASE GatherBatch
  <2>1. CASE reader \notin {"off", "connecting"}
    BY <1>1, <1>3, <2>1, QuietStep DEF GatherBatch
  <2>2. CASE reader \in {"off", "connecting"}
    <3>1. batch = <<>> /\ queue = <<>>
      BY <2>2 DEF StreamInv, NothingLeftOver
    <3>2. batch' = <<>> /\ queue' = <<>>
      BY <1>3, <3>1 DEF GatherBatch
    <3> QED
      BY <1>1, <1>3, <3>1, <3>2, QuietStep DEF GatherBatch
  <2> QED
    BY <2>1, <2>2
<1> QED
  BY <1>2, <1>3

(* The batch is stored and leaves the pipe: what is behind it stays.        *)
LEMMA BatchLeavesPipe ==
    ASSUME StreamInv, PersistLiveBatch
    PROVE  /\ Pipe' = queue /\ DOMAIN queue = 1 .. Len(queue) /\ DOMAIN batch = 1 .. Len(batch)
           /\ Len(batch) \in Nat /\ Len(queue) \in Nat
           /\ DOMAIN Pipe = 1 .. Len(batch) + Len(queue)
           /\ \A i \in DOMAIN batch : Pipe[i] = batch[i]
           /\ \A i \in DOMAIN queue : Pipe[Len(batch) + i] = queue[i]
           /\ \A s, m : \A k \in Nat :
                (/\ Closes(Pipe, k, s, m)
                 /\ \A j \in DOMAIN batch : j >= k => ~ ClosingEvent(batch[j], s, m))
                => /\ Closes(queue, 1, s, m)
                   /\ \A i \in DOMAIN queue : k = Len(batch) + i => Closes(queue, i, s, m)
<1>1. queue' = queue /\ batch' = <<>> /\ Typed
  BY DEF PersistLiveBatch, StreamInv
<1>2. /\ Pipe' = queue /\ Len(batch) \in Nat /\ Len(queue) \in Nat
      /\ DOMAIN queue = 1 .. Len(queue) /\ DOMAIN batch = 1 .. Len(batch)
      /\ DOMAIN Pipe = 1 .. Len(batch) + Len(queue)
      /\ \A i \in DOMAIN batch : Pipe[i] = batch[i]
      /\ \A i \in DOMAIN queue : Pipe[Len(batch) + i] = queue[i]
  BY <1>1, PipeType, ConcatEmptySeq DEF Pipe
<1>3. ASSUME NEW s, NEW m, NEW k \in Nat,
             Closes(Pipe, k, s, m), \A j \in DOMAIN batch : j >= k => ~ ClosingEvent(batch[j], s, m)
      PROVE  /\ Closes(queue, 1, s, m)
             /\ \A i \in DOMAIN queue : k = Len(batch) + i => Closes(queue, i, s, m)
  <2>1. PICK j \in DOMAIN Pipe : j >= k /\ ClosingEvent(Pipe[j], s, m)
    BY <1>3 DEF Closes
  <2>2. j \notin DOMAIN batch
    BY <1>2, <1>3, <2>1
  <2>3. PICK i \in DOMAIN queue : j = Len(batch) + i
    <3>1. j - Len(batch) \in DOMAIN queue /\ j = Len(batch) + (j - Len(batch))
      BY <1>2, <2>2
    <3> QED
      BY <3>1
  <2>4. ClosingEvent(queue[i], s, m) /\ i >= 1
    BY <1>2, <2>1, <2>3
  <2>5. \A l \in DOMAIN queue : k = Len(batch) + l => i >= l
    BY <1>2, <2>1, <2>3
  <2> QED
    BY <2>4, <2>5 DEF Closes
<1> QED
  BY <1>2, <1>3

(* What a stored batch leaves of a minute that has ended: the row as it was *)
(* and the minute's closing event where it was, or a minute that survives.  *)
LEMMA BatchBrings ==
    ASSUME StreamInv, PersistLiveBatch, reader = "streaming",
           NEW s \in Symbols, NEW m \in Minutes, m # now
    PROVE  \/ /\ candles'[s][m] = candles[s][m]
              /\ Closes(Pipe, 1, s, m) => Closes(Pipe, 1, s, m)'
           \/ Survives(s, m)'
<1>1. Typed /\ UNCHANGED inFlight
  BY DEF StreamInv, PersistLiveBatch, stream
<1>2. CASE /\ candles'[s][m] = candles[s][m]
           /\ \A i \in DOMAIN batch : ~ ClosingEvent(batch[i], s, m)
  <2>1. Closes(Pipe, 1, s, m) => Closes(queue, 1, s, m)
    BY <1>2, BatchLeavesPipe
  <2>2. Pipe' = queue
    BY BatchLeavesPipe
  <2> QED
    BY <1>2, <2>1, <2>2 DEF Closes
<1>3. ASSUME NEW i \in DOMAIN batch,
             batch[i].kind = "candle", batch[i].symbol = s, batch[i].minute = m,
             \A k \in DOMAIN batch : ClosingEvent(batch[k], s, m) => k <= i,
             batch[i].is_closed => candles'[s][m].is_closed /\ candles'[s][m].final
      PROVE  Survives(s, m)'
  <2>1. CASE batch[i].is_closed
    BY <1>3, <2>1 DEF Survives, Closed
  <2>2. CASE ~ batch[i].is_closed
    <3>1. Pipe[i] = batch[i] /\ i \in DOMAIN Pipe /\ IsUpdate(Pipe[i]) /\ i \in Nat
      <4>1. Pipe[i] = batch[i] /\ i \in DOMAIN Pipe /\ i \in Nat
        BY BatchLeavesPipe
      <4> QED
        BY <1>3, <2>2, <4>1 DEF IsUpdate
    <3>2. Harmless(Pipe[i], i)
      BY <3>1 DEF StreamInv, Streaming
    <3>3. CASE m \in inFlight[s]
      BY <1>1, <3>3 DEF Survives
    <3>4. CASE Closes(Pipe, i, s, m)
      <4>1. ~ ClosingEvent(batch[i], s, m)
        BY <2>2 DEF ClosingEvent
      <4>2. \A j \in DOMAIN batch : j >= i => ~ ClosingEvent(batch[j], s, m)
        <5>1. DOMAIN batch = 1 .. Len(batch) /\ Len(batch) \in Nat
          BY BatchLeavesPipe
        <5> QED
          BY <1>3, <4>1, <5>1
      <4>3. Closes(queue, 1, s, m) /\ Pipe' = queue
        BY <3>1, <3>4, <4>2, BatchLeavesPipe
      <4> QED
        BY <4>3 DEF Survives, Closes
    <3> QED
      BY <1>3, <3>1, <3>2, <3>3, <3>4 DEF Harmless
  <2> QED
    BY <2>1, <2>2
<1> QED
  BY <1>1, <1>2, <1>3, LastEventWins

(* The batch is stored: what it brought is in the table, and what an old    *)
(* update spoiled is still to be put right by an event behind it.           *)
LEMMA PersistStep == StreamInv /\ Typed' /\ PersistLiveBatch => StreamInv'
<1> SUFFICES ASSUME StreamInv, Typed', PersistLiveBatch PROVE StreamInv'
  OBVIOUS
<1> USE DEF database, history, stream
<1>1. /\ UNCHANGED <<now, reader, inFlight, joined, queue>> /\ batch' = <<>>
      /\ pc = "persist" /\ pc' = "announce" /\ Typed
      /\ now \in Int /\ joined \in Minutes /\ now \in Minutes
  BY ClockType DEF PersistLiveBatch, StreamInv
<1>2. NothingLeftOver'
  BY <1>1 DEF StreamInv, NothingLeftOver, NothingInFlight
<1>3. /\ Pipe' = queue /\ DOMAIN queue = 1 .. Len(queue) /\ Len(queue) \in Nat
      /\ DOMAIN batch = 1 .. Len(batch) /\ Len(batch) \in Nat
      /\ DOMAIN Pipe = 1 .. Len(batch) + Len(queue)
      /\ \A i \in DOMAIN queue : Pipe[Len(batch) + i] = queue[i]
  BY BatchLeavesPipe
<1>4. ASSUME reader = "streaming", NEW s \in Symbols, NEW m \in joined .. now - 1
      PROVE  Survives(s, m)'
  <2>1. Survives(s, m)
    BY <1>4 DEF StreamInv, Streaming
  <2>2. m \in Minutes
    BY <1>1, <1>4, ClockType
  <2>3. m # now
    BY <1>1, <1>4
  <2> QED
    BY <1>1, <1>4, <2>1, <2>2, <2>3, BatchBrings DEF Survives, Closed
<1>5. ASSUME reader = "streaming", NEW i \in DOMAIN queue, IsUpdate(queue[i])
      PROVE  Harmless(Pipe[i], i)'
  <2>1. PICK k \in DOMAIN Pipe : k = Len(batch) + i /\ Pipe[k] = queue[i]
    <3>1. Len(batch) + i \in DOMAIN Pipe
      BY <1>3
    <3> QED
      BY <1>3, <3>1
  <2>2. Harmless(queue[i], k) /\ k \in Nat
    BY <1>3, <1>5, <2>1 DEF StreamInv, Streaming
  <2>3. \A j \in DOMAIN batch : ~ (j >= k)
    BY <1>3, <2>1
  <2>4. Closes(Pipe, k, queue[i].symbol, queue[i].minute)
           => Closes(queue, i, queue[i].symbol, queue[i].minute)
    BY <2>1, <2>2, <2>3, BatchLeavesPipe
  <2> QED
    BY <1>1, <1>3, <2>2, <2>4 DEF Harmless
<1> QED
  BY <1>1, <1>2, <1>3, <1>4, <1>5 DEF StreamInv, Streaming

LEMMA StreamStep == StreamInv /\ [Next]_vars => StreamInv'
<1> SUFFICES ASSUME StreamInv, [Next]_vars PROVE StreamInv'
  OBVIOUS
<1> USE DEF database, history, stream
<1>1. Typed /\ Typed'
  BY TypedStep DEF StreamInv
<1>2. CASE Tick \/ Connect \/ TakeEvent \/ GatherBatch \/ PersistLiveBatch
           \/ \E s \in Symbols : ReceiveUpdate(s) \/ ReceiveFinal(s) \/ ReceiveTrade(s)
  BY <1>1, <1>2, TickStep, ConnectStep, TakeStep, PersistStep, ReceiveStep
<1>3. ASSUME Teardown PROVE StreamInv'
  BY <1>1, <1>3, EmptyStep DEF Teardown
<1>4. CASE Crash \/ NoticeStreamEnd \/ LiveStepFails
  <2>1. CASE Crash
    BY <1>1, <2>1, EmptyStep DEF Crash
  <2> QED
    BY <1>3, <1>4, <2>1 DEF NoticeStreamEnd, LiveStepFails
<1>5. CASE Start \/ Reconnect
  <2>1. /\ reader' = "connecting" /\ pc' = "check"
        /\ queue' = <<>> /\ batch' = <<>> /\ inFlight' = NothingInFlight
    BY <1>5 DEF Start, Reconnect, BeginConnection, StreamInv, NothingLeftOver
  <2> QED
    BY <1>1, <2>1, EmptyStep
<1>6. CASE StreamFails
  <2>1. reader' = "done" /\ UNCHANGED <<pc, batch>> /\ reader # "off"
    BY <1>6 DEF StreamFails
  <2> QED
    BY <1>1, <2>1 DEF StreamInv, NothingLeftOver
<1>7. ASSUME UNCHANGED <<now, reader, inFlight, joined, queue, batch>>,
             \/ UNCHANGED candles
             \/ \E page : StorePage(page),
             \/ pc' = pc
             \/ pc \in {"disconnect"}
             \/ /\ pc \notin {"gather", "persist"}
                /\ pc' \notin {"down", "disconnect", "backoff", "dead", "gather", "persist"}
      PROVE  StreamInv'
  <2>1. UNCHANGED Pipe
    BY <1>7 DEF Pipe
  <2>2. \A s \in Symbols, m \in Minutes :
           \/ candles'[s][m] = candles[s][m]
           \/ candles'[s][m].is_closed /\ candles'[s][m].final
    BY <1>1, <1>7, PageIsFinal
  <2>3. /\ pc' \in {"down", "disconnect", "backoff", "dead"} => reader = "off"
        /\ pc' \notin {"gather", "persist"} => batch' = <<>>
    BY <1>7 DEF StreamInv, NothingLeftOver
  <2> QED
    BY <1>1, <1>7, <2>1, <2>2, <2>3, QuietStep
<1>8. CASE UNCHANGED vars \/ StartReconciliation \/ Announce \/ MarkAllLive
           \/ MarkAllDisconnected \/ MarkAllDisconnectedFails
  BY <1>7, <1>8 DEF vars, StartReconciliation, Announce, MarkAllLive, MarkAllDisconnected,
                    MarkAllDisconnectedFails
<1>9. CASE SkipCovered \/ RecordSuccessfulReconciliation \/ PublishBackfill
  BY <1>7, <1>9 DEF SkipCovered, RecordSuccessfulReconciliation, PublishBackfill, NextSymbol
<1>10. CASE OpenRun \/ VerifyAndFinish \/ FindIncomplete \/ RecoveryStepFails
  BY <1>7, <1>10 DEF OpenRun, VerifyAndFinish, FindIncomplete, RecoveryStepFails
<1>11. CASE FetchPage \/ FetchPageWithGap
  BY <1>7, <1>11 DEF FetchPage, FetchPageWithGap, StorePage
<1>12. CASE RecordFailure \/ RecoveryBookkeepingFails
  BY <1>3, <1>7, <1>12 DEF RecordFailure, RecoveryBookkeepingFails, RecoveryRaised, NextSymbol
<1> QED
  BY <1>2, <1>4, <1>5, <1>6, <1>8, <1>9, <1>10, <1>11, <1>12
  DEF Next, Recover, GoOn, Fault

(* No minute that ends while the WebSocket streams is lost, for any number  *)
(* of symbols, any size of the queue and of the batches, any order of old   *)
(* updates, REST pages and closing events, and any faults that leave the    *)
(* WebSocket open.                                                          *)
THEOREM StreamedMinutesAlwaysSurvive == Spec => []StreamedMinutesSurvive
<1>1. Init => StreamInv
  BY TypedInit DEF Init, StreamInv, NothingLeftOver
<1>2. StreamInv => StreamedMinutesSurvive
  BY SurvivesIsArriving DEF StreamInv, Streaming, StreamedMinutesSurvive
<1> QED
  BY <1>1, <1>2, StreamStep, PTL DEF Spec

-----------------------------------------------------------------------------
(* What a connection can miss.                                              *)

(* While the collector is in service and its WebSocket streams, a minute of *)
(* the bootstrap window that neither has a closed candle nor is on its way  *)
(* ended between the start of the connection and the opening of the         *)
(* WebSocket: recovery had already begun, and the stream had not.  Nothing  *)
(* before and nothing after is ever missed.                                 *)
THEOREM OnlyTheJoinIsMissed ==
    Spec => []((InService /\ reader = "streaming") =>
                  \A s \in Symbols : \A m \in now - BootstrapMinutes .. now - 1 :
                     Closed(s, m) \/ Arriving(s, m) \/ (since <= m /\ m < joined))
<1>1. ASSUME ServiceInv, StreamInv, InService, reader = "streaming",
             NEW s \in Symbols, NEW m \in now - BootstrapMinutes .. now - 1
      PROVE  Closed(s, m) \/ Arriving(s, m) \/ (since <= m /\ m < joined)
  <2>1. /\ now \in Int /\ since \in Int /\ joined \in Int /\ BootstrapMinutes \in Int
        /\ m \in Int /\ Typed
    BY <1>1, ClockType DEF StreamInv, Typed, TypeOK, Minutes
  <2>2. CASE m < since
    BY <1>1, <2>1, <2>2 DEF ServiceInv, Progress, Covered
  <2>3. CASE m >= joined
    BY <1>1, <2>1, <2>3, SurvivesIsArriving DEF StreamInv, Streaming
  <2> QED
    BY <2>1, <2>2, <2>3
<1>2. Init => StreamInv
  BY TypedInit DEF Init, StreamInv, NothingLeftOver
<1>3. ServiceInv /\ StreamInv =>
        ((InService /\ reader = "streaming") =>
            \A s \in Symbols : \A m \in now - BootstrapMinutes .. now - 1 :
               Closed(s, m) \/ Arriving(s, m) \/ (since <= m /\ m < joined))
  BY <1>1
<1> QED
  BY <1>2, <1>3, ServiceInit, ServiceStep, StreamStep, PTL DEF Spec

-----------------------------------------------------------------------------
(* Only what is over is closed.                                             *)

(* No row is closed, and no closing event sent, before its minute ended.    *)
OnlyThePastIsClosed ==
    /\ \A s \in Symbols, m \in Minutes : Closed(s, m) => m < now
    /\ \A s \in Symbols : \A m \in inFlight[s] : m < now
    /\ \A i \in DOMAIN Pipe : Pipe[i].is_closed => Pipe[i].minute < now

(* What closes a row. *)
LEMMA UpsertClosesWith ==
    ASSUME NEW table \in [Symbols -> [Minutes -> CandleRow]], NEW rows,
           NEW s \in Symbols, NEW m \in Minutes,
           UpsertCandles(table, rows)[s][m].is_closed
    PROVE  \/ table[s][m].is_closed
           \/ \E r \in rows : r.symbol = s /\ r.minute = m /\ r.is_closed
  BY DEF UpsertCandles

LEMMA PageIsPast ==
    ASSUME Typed, pc = "page", NEW page \in SUBSET (job.next .. job.last), StorePage(page),
           NEW s \in Symbols, NEW m \in Minutes, candles'[s][m].is_closed
    PROVE  candles[s][m].is_closed \/ m < now
<1>1. job.last < now /\ job.last \in Int /\ job.next \in Int /\ now \in Int
  BY DEF Typed, TypeOK, RunMatchesJob, RecoveryPCs, Minutes
<1>2. CASE UNCHANGED candles
  BY <1>2
<1>3. CASE candles' = UpsertCandles(candles,
             {[symbol |-> job.symbol, minute |-> k, is_closed |-> TRUE] : k \in page})
  <2> DEFINE rows == {[symbol |-> job.symbol, minute |-> k, is_closed |-> TRUE] : k \in page}
  <2>1. candles \in [Symbols -> [Minutes -> CandleRow]]
    BY DEF Typed, TypeOK
  <2>2. candles[s][m].is_closed \/ \E r \in rows : r.symbol = s /\ r.minute = m /\ r.is_closed
    <3> HIDE DEF rows
    <3> QED
      BY <1>3, <2>1, UpsertClosesWith DEF rows
  <2>3. candles[s][m].is_closed \/ m \in page
    BY <2>2
  <2>4. m \in page => m \in job.next .. job.last
    OBVIOUS
  <2> QED
    BY <1>1, <2>3, <2>4
<1> QED
  BY <1>2, <1>3 DEF StorePage

(* Who moves events and closes rows. *)
LEMMA WhoMovesEvents ==
    ASSUME StreamInv, [Next]_vars
    PROVE  \/ Tick \/ PersistLiveBatch
           \/ \E s \in Symbols : ReceiveUpdate(s) \/ ReceiveFinal(s) \/ ReceiveTrade(s)
           \/ /\ UNCHANGED now
              /\ Pipe' = Pipe \/ Pipe' = <<>>
              /\ inFlight' = inFlight \/ inFlight' = NothingInFlight
              /\ \/ UNCHANGED candles
                 \/ pc = "page" /\ \E page \in SUBSET (job.next .. job.last) : StorePage(page)
<1> USE DEF database, stream, history
<1>1. ASSUME Teardown PROVE Pipe' = <<>> /\ inFlight' = NothingInFlight
  BY <1>1, EmptySeq, ConcatEmptySeq DEF Teardown, Pipe
<1>2. ASSUME UNCHANGED queue, UNCHANGED batch PROVE Pipe' = Pipe
  BY <1>2 DEF Pipe
<1>3. CASE Connect \/ StreamFails \/ Start \/ Reconnect \/ UNCHANGED vars
  BY <1>2, <1>3 DEF Connect, StreamFails, Start, Reconnect, BeginConnection, vars
<1>4. CASE Crash \/ NoticeStreamEnd \/ LiveStepFails
  <2>1. Pipe' = <<>> /\ inFlight' = NothingInFlight
    BY <1>1, <1>4, EmptySeq, ConcatEmptySeq
    DEF Crash, NoticeStreamEnd, LiveStepFails, Pipe
  <2> QED
    BY <1>4, <2>1 DEF Crash, NoticeStreamEnd, LiveStepFails
<1>5. CASE MarkAllDisconnected \/ MarkAllDisconnectedFails \/ MarkAllLive
           \/ StartReconciliation \/ Announce
  BY <1>2, <1>5 DEF MarkAllDisconnected, MarkAllDisconnectedFails, MarkAllLive,
                    StartReconciliation, Announce
<1>6. CASE TakeEvent \/ GatherBatch
  <2>1. Pipe' = Pipe
    BY <1>6, PipeIsTaken DEF StreamInv
  <2> QED
    BY <1>6, <2>1 DEF TakeEvent, GatherBatch
<1>7. CASE FetchPage \/ FetchPageWithGap
  <2>1. \E page \in SUBSET (job.next .. job.last) : StorePage(page)
    BY <1>7 DEF FetchPage, FetchPageWithGap, FirstPage
  <2> QED
    BY <1>2, <1>7, <2>1 DEF FetchPage, FetchPageWithGap
<1>8. CASE SkipCovered \/ RecordSuccessfulReconciliation \/ PublishBackfill \/ OpenRun
           \/ VerifyAndFinish \/ FindIncomplete \/ RecoveryStepFails
  BY <1>2, <1>8 DEF SkipCovered, RecordSuccessfulReconciliation, PublishBackfill, OpenRun,
                    VerifyAndFinish, FindIncomplete, RecoveryStepFails
<1>9. CASE RecordFailure \/ RecoveryBookkeepingFails
  BY <1>1, <1>2, <1>9 DEF RecordFailure, RecoveryBookkeepingFails, RecoveryRaised, Teardown
<1> QED
  BY <1>3, <1>4, <1>5, <1>6, <1>7, <1>8, <1>9 DEF Next, Recover, GoOn, Fault

LEMMA PastStep ==
    ASSUME StreamInv, OnlyThePastIsClosed, [Next]_vars
    PROVE  OnlyThePastIsClosed'
<1>1. /\ Typed /\ now \in Int /\ now \in Minutes /\ Minutes \subseteq Int
      /\ inFlight \in [Symbols -> SUBSET Minutes]
      /\ candles \in [Symbols -> [Minutes -> CandleRow]]
  BY ClockType DEF StreamInv, Typed, TypeOK, Minutes
<1>2. \A i \in DOMAIN Pipe : Pipe[i].minute \in Int
  BY <1>1, PipeType DEF Event
<1>3. CASE Tick
  <2>1. /\ now' = now + 1 /\ UNCHANGED <<candles, Pipe>>
        /\ \A s \in Symbols : \A m \in inFlight'[s] : m = now \/ m \in inFlight[s]
    BY <1>1, <1>3 DEF Tick, database, Pipe
  <2>2. \A m \in Int : m < now => m < now'
    BY <1>1, <2>1
  <2>3. \A s \in Symbols, m \in Minutes : candles'[s][m].is_closed => m < now'
    BY <1>1, <2>1, <2>2 DEF OnlyThePastIsClosed, Closed
  <2>4. ASSUME NEW s \in Symbols, NEW m \in inFlight'[s] PROVE m < now'
    <3>1. m = now => m < now'
      BY <1>1, <2>1
    <3>2. m \in inFlight[s] => m < now'
      BY <1>1, <2>2 DEF OnlyThePastIsClosed
    <3> QED
      BY <2>1, <2>4, <3>1, <3>2
  <2>5. \A i \in DOMAIN Pipe' : Pipe'[i].is_closed => Pipe'[i].minute < now'
    BY <1>2, <2>1, <2>2 DEF OnlyThePastIsClosed
  <2> QED
    BY <2>3, <2>4, <2>5 DEF OnlyThePastIsClosed, Closed
<1>4. CASE PersistLiveBatch
  <2>1. UNCHANGED <<now, inFlight>> /\ candles' = UpsertCandles(candles, DeduplicateCandles(batch))
    BY <1>4 DEF PersistLiveBatch, stream
  <2>2. ASSUME NEW s \in Symbols, NEW m \in Minutes, candles'[s][m].is_closed
        PROVE  m < now
    <3>1. \/ candles[s][m].is_closed
          \/ \E r \in DeduplicateCandles(batch) : r.symbol = s /\ r.minute = m /\ r.is_closed
      BY <1>1, <2>1, <2>2, UpsertClosesWith
    <3>2. (\E r \in DeduplicateCandles(batch) : r.symbol = s /\ r.minute = m /\ r.is_closed)
             => \E i \in DOMAIN batch : batch[i].minute = m /\ batch[i].is_closed
      BY DEF DeduplicateCandles
    <3>3. \A i \in DOMAIN batch : i \in DOMAIN Pipe /\ Pipe[i] = batch[i]
      <4>1. /\ DOMAIN batch = 1 .. Len(batch) /\ DOMAIN Pipe = 1 .. Len(batch) + Len(queue)
            /\ Len(batch) \in Nat /\ Len(queue) \in Nat
            /\ \A i \in DOMAIN batch : Pipe[i] = batch[i]
        BY <1>4, BatchLeavesPipe
      <4> QED
        BY <4>1
    <3> QED
      BY <3>1, <3>2, <3>3 DEF OnlyThePastIsClosed, Closed
  <2>3. ASSUME NEW i \in DOMAIN Pipe', Pipe'[i].is_closed
        PROVE  Pipe'[i].minute < now
    <3>1. /\ Pipe' = queue /\ DOMAIN queue = 1 .. Len(queue)
          /\ DOMAIN Pipe = 1 .. Len(batch) + Len(queue)
          /\ Len(batch) \in Nat /\ Len(queue) \in Nat
          /\ \A k \in DOMAIN queue : Pipe[Len(batch) + k] = queue[k]
      BY <1>4, BatchLeavesPipe
    <3>2. Len(batch) + i \in DOMAIN Pipe /\ Pipe[Len(batch) + i] = Pipe'[i]
      BY <2>3, <3>1
    <3> QED
      BY <2>3, <3>2 DEF OnlyThePastIsClosed
  <2> QED
    BY <2>1, <2>2, <2>3 DEF OnlyThePastIsClosed, Closed
<1>5. ASSUME NEW s \in Symbols, ReceiveUpdate(s) \/ ReceiveFinal(s) \/ ReceiveTrade(s)
      PROVE  OnlyThePastIsClosed'
  <2>1. PICK e \in Event :
           /\ Receive(e)
           /\ \/ IsUpdate(e) /\ UNCHANGED inFlight
              \/ /\ e.minute \in inFlight[s]
                 /\ inFlight' = [inFlight EXCEPT ![s] = @ \ {e.minute}]
              \/ ~ e.is_closed /\ UNCHANGED inFlight
    BY <1>1, <1>5, WhatIsReceived
  <2>2. UNCHANGED <<now, candles>>
    BY <2>1 DEF Receive, database
  <2>3. \A t \in Symbols : inFlight'[t] \subseteq inFlight[t]
    BY <1>1, <2>1
  <2>4. e.is_closed => e.minute < now
    BY <2>1 DEF IsUpdate, OnlyThePastIsClosed
  <2>5. \A i \in DOMAIN Pipe' : (i \in DOMAIN Pipe /\ Pipe'[i] = Pipe[i]) \/ Pipe'[i] = e
    <3>1. /\ DOMAIN Pipe' = 1 .. Len(Pipe) + 1 /\ DOMAIN Pipe = 1 .. Len(Pipe)
          /\ Len(Pipe) \in Nat
          /\ \A i \in DOMAIN Pipe : Pipe'[i] = Pipe[i]
          /\ Pipe'[Len(Pipe) + 1] = e
      BY <1>1, <2>1, PipeGrows
    <3> QED
      BY <3>1
  <2> QED
    BY <2>2, <2>3, <2>4, <2>5 DEF OnlyThePastIsClosed, Closed
<1>6. ASSUME UNCHANGED now,
             Pipe' = Pipe \/ Pipe' = <<>>,
             inFlight' = inFlight \/ inFlight' = NothingInFlight,
             \/ UNCHANGED candles
             \/ pc = "page" /\ \E page \in SUBSET (job.next .. job.last) : StorePage(page)
      PROVE  OnlyThePastIsClosed'
  <2>1. \A s \in Symbols, m \in Minutes : candles'[s][m].is_closed => m < now
    BY <1>1, <1>6, PageIsPast DEF OnlyThePastIsClosed, Closed
  <2>2. \A s \in Symbols : inFlight'[s] \subseteq inFlight[s]
    BY <1>6 DEF NothingInFlight
  <2>3. \A i \in DOMAIN Pipe' : i \in DOMAIN Pipe /\ Pipe'[i] = Pipe[i]
    BY <1>6
  <2> QED
    BY <1>6, <2>1, <2>2, <2>3 DEF OnlyThePastIsClosed, Closed
<1> QED
  BY <1>3, <1>4, <1>5, <1>6, WhoMovesEvents

LEMMA PastInit == Init => StreamInv /\ OnlyThePastIsClosed
<1>1. Init => StreamInv
  BY TypedInit DEF Init, StreamInv, NothingLeftOver
<1>2. ASSUME Init PROVE OnlyThePastIsClosed
  <2>1. DOMAIN Pipe = {}
    BY <1>2, EmptySeq, ConcatEmptySeq DEF Init, Pipe
  <2>2. \A s \in Symbols, m \in Minutes : ~ candles[s][m].is_closed
    BY <1>2 DEF Init, NoCandle
  <2>3. \A s \in Symbols : inFlight[s] = {}
    BY <1>2 DEF Init, NothingInFlight
  <2> QED
    BY <2>1, <2>2, <2>3 DEF OnlyThePastIsClosed, Closed
<1> QED
  BY <1>1, <1>2

(* A candle is never closed before its minute is over, whoever brings it: a *)
(* REST page of a range computed before the last await, an event received   *)
(* late, or a batch that waited.                                            *)
THEOREM NothingIsClosedEarly ==
    Spec => [](\A s \in Symbols, m \in Minutes : Closed(s, m) => m < now)
<1>1. OnlyThePastIsClosed => \A s \in Symbols, m \in Minutes : Closed(s, m) => m < now
  BY DEF OnlyThePastIsClosed
<1> QED
  BY <1>1, PastInit, StreamStep, PastStep, PTL DEF Spec

-----------------------------------------------------------------------------
(* When the final values come.                                              *)

(* Nothing has ended a connection in service: REST may fail or leave        *)
(* minutes out, but the WebSocket, the database, Redis and the process hold.*)
ConnectionHolds == faults = 0 \/ Faults \subseteq {"rest", "gap"}

HasFinalValues(s, m) == Closed(s, m) => candles[s][m].final

(* A closed row lacks its final values only under a connection in service,  *)
(* and their event is then on its way.                                      *)
FinalValuesCome ==
    ConnectionHolds =>
        /\ reader # "done"
        /\ ~InService => \A s \in Symbols, m \in Minutes : HasFinalValues(s, m)
        /\ \A s \in Symbols, m \in Minutes :
              HasFinalValues(s, m) \/ m \in inFlight[s] \/ Closes(Pipe, 1, s, m)

(* A connection that holds stays in service, and loses no event.            *)
LEMMA StaysInService ==
    ASSUME StreamInv, [Next]_vars, ConnectionHolds', reader # "done"
    PROVE  /\ ConnectionHolds /\ reader' # "done"
           /\ PersistLiveBatch => InService
           /\ InService =>
                /\ InService'
                /\ \/ Tick \/ PersistLiveBatch
                   \/ \E s \in Symbols : ReceiveUpdate(s) \/ ReceiveFinal(s) \/ ReceiveTrade(s)
                   \/ /\ Pipe' = Pipe /\ inFlight' = inFlight
                      /\ UNCHANGED candles \/ \E page : StorePage(page)
<1> USE DEF database, stream, history
<1>1. /\ ConnectionHolds /\ \A kind \in {"db", "redis", "stream", "crash"} : ~Inject(kind)
      /\ PersistLiveBatch => InService
  <2>1. PersistLiveBatch => InService
    BY DEF PersistLiveBatch, InService, LivePCs
  <2>2. faults \in Nat /\ (faults' = faults \/ faults' = faults + 1)
    BY WhoPages DEF StreamInv, Typed, TypeOK
  <2> QED
    BY <2>1, <2>2 DEF ConnectionHolds, Inject
<1>2. ~ (StreamFails \/ Crash \/ MarkAllDisconnectedFails \/ LiveStepFails
         \/ RecoveryBookkeepingFails \/ NoticeStreamEnd)
  BY <1>1 DEF StreamFails, Crash, MarkAllDisconnectedFails, LiveStepFails,
              RecoveryBookkeepingFails, NoticeStreamEnd
<1>3. ASSUME UNCHANGED queue, UNCHANGED batch PROVE Pipe' = Pipe
  BY <1>3 DEF Pipe
<1>4. pc \notin RecoveryPCs => job.type = "NONE"
  BY DEF StreamInv, Typed, RunMatchesJob, NoJob
<1>5. CASE Tick \/ \E s \in Symbols : ReceiveUpdate(s) \/ ReceiveFinal(s) \/ ReceiveTrade(s)
  BY <1>1, <1>5 DEF Tick, ReceiveUpdate, ReceiveFinal, ReceiveTrade, Receive, InService
<1>6. CASE Connect \/ UNCHANGED vars
  BY <1>1, <1>3, <1>6 DEF Connect, vars, InService
<1>7. CASE Start \/ Reconnect \/ MarkAllDisconnected \/ MarkAllLive
  <2>1. pc \in {"down", "backoff", "disconnect", "golive"} /\ reader' # "done"
    BY <1>7 DEF Start, Reconnect, BeginConnection, MarkAllDisconnected, MarkAllLive
  <2>2. ~ InService /\ ~ PersistLiveBatch
    BY <1>4, <2>1 DEF InService, RecoveryPCs, LivePCs, PersistLiveBatch
  <2> QED
    BY <1>1, <2>1, <2>2
<1>8. CASE StartReconciliation \/ Announce
  BY <1>1, <1>3, <1>8 DEF StartReconciliation, Announce, NewJob, InService, LivePCs
<1>9. CASE TakeEvent \/ GatherBatch
  <2>1. Pipe' = Pipe
    BY <1>9, PipeIsTaken DEF StreamInv
  <2> QED
    BY <1>1, <1>9, <2>1 DEF TakeEvent, GatherBatch, InService, LivePCs
<1>10. CASE PersistLiveBatch
  BY <1>1, <1>10 DEF PersistLiveBatch, InService, LivePCs
<1>11. job \in [symbol : 0 .. NumSymbols, type : RunTypes \cup {"NONE"},
                cover : Minutes, last : Minutes, next : Minutes]
  BY DEF StreamInv, Typed, TypeOK
<1>12. ASSUME pc \in RecoveryPCs, UNCHANGED <<reader, inFlight, queue, batch>>,
              UNCHANGED candles \/ \E page : StorePage(page),
              \/ job' = job
              \/ \E next : job' = [job EXCEPT !.next = next]
              \/ NextSymbol,
              pc' \in RecoveryPCs \cup LivePCs \/ job.type = "BACKFILL"
       PROVE  /\ reader' # "done" /\ ~ PersistLiveBatch
              /\ InService => InService' /\ Pipe' = Pipe
  <2>1. ~ PersistLiveBatch /\ (InService => job.type = "RECONCILIATION") /\ Pipe' = Pipe
    BY <1>3, <1>12 DEF PersistLiveBatch, InService, RecoveryPCs, LivePCs
  <2>2. CASE NextSymbol /\ job.type = "RECONCILIATION"
    <3>1. InService'
      BY <2>2 DEF NextSymbol, NewJob, InService, LivePCs
    <3> QED
      BY <1>12, <2>1, <3>1
  <2>3. CASE job' = job \/ \E next : job' = [job EXCEPT !.next = next]
    <3>1. job'.type = job.type
      BY <1>11, <2>3
    <3> QED
      BY <1>12, <2>1, <3>1 DEF InService
  <2> QED
    BY <1>12, <2>1, <2>2, <2>3
<1>13. CASE SkipCovered \/ RecordSuccessfulReconciliation \/ PublishBackfill
  <2>1. NextSymbol /\ pc \in RecoveryPCs /\ UNCHANGED <<reader, inFlight, queue, batch, candles>>
    BY <1>13 DEF SkipCovered, RecordSuccessfulReconciliation, PublishBackfill, RecoveryPCs
  <2>2. pc' \in RecoveryPCs \cup LivePCs \/ job.type = "BACKFILL"
    BY <2>1 DEF NextSymbol, RecoveryPCs, LivePCs
  <2> QED
    BY <1>1, <1>12, <2>1, <2>2
<1>14. CASE OpenRun \/ FetchPage \/ FetchPageWithGap \/ VerifyAndFinish \/ FindIncomplete
            \/ RecoveryStepFails
  <2>1. /\ pc \in RecoveryPCs /\ UNCHANGED <<reader, inFlight, queue, batch>>
        /\ UNCHANGED candles \/ \E page : StorePage(page)
        /\ pc' \in RecoveryPCs
    BY <1>14 DEF OpenRun, FetchPage, FetchPageWithGap, StorePage, VerifyAndFinish,
                 FindIncomplete, RecoveryStepFails, RecoveryPCs
  <2>2. job' = job \/ \E next : job' = [job EXCEPT !.next = next]
    BY <1>14 DEF OpenRun, FetchPage, FetchPageWithGap, StorePage, VerifyAndFinish,
                 FindIncomplete, RecoveryStepFails
  <2> QED
    BY <1>1, <1>12, <2>1, <2>2
<1>15. CASE RecordFailure
  <2>1. /\ pc \in RecoveryPCs /\ RecoveryRaised /\ UNCHANGED candles
        /\ job.type = "RECONCILIATION" => NextSymbol /\ UNCHANGED <<reader, inFlight, queue, batch>>
    BY <1>15 DEF RecordFailure, RecoveryRaised, RecoveryPCs
  <2>2. CASE job.type = "RECONCILIATION"
    <3>1. pc' \in RecoveryPCs \cup LivePCs
      BY <2>1, <2>2 DEF NextSymbol, RecoveryPCs, LivePCs
    <3> QED
      BY <1>1, <1>12, <2>1, <2>2, <3>1
  <2>3. CASE job.type # "RECONCILIATION"
    <3>1. ~ InService /\ ~ PersistLiveBatch /\ reader' # "done"
      BY <2>1, <2>3 DEF InService, RecoveryPCs, LivePCs, PersistLiveBatch, RecoveryRaised, Teardown
    <3> QED
      BY <1>1, <3>1
  <2> QED
    BY <2>2, <2>3
<1> QED
  BY <1>2, <1>5, <1>6, <1>7, <1>8, <1>9, <1>10, <1>13, <1>14, <1>15
  DEF Next, Recover, GoOn, Fault

LEMMA FinalValuesStep ==
    ASSUME StreamInv, OnlyThePastIsClosed, OnlyThePastIsClosed', FinalValuesCome, [Next]_vars
    PROVE  FinalValuesCome'
<1> DEFINE OnItsWay(s, m) == m \in inFlight[s] \/ Closes(Pipe, 1, s, m)
<1> SUFFICES ASSUME ConnectionHolds'
             PROVE  /\ reader' # "done"
                    /\ ~InService' =>
                          \A s \in Symbols, m \in Minutes : HasFinalValues(s, m)'
                    /\ \A s \in Symbols, m \in Minutes :
                          HasFinalValues(s, m)' \/ OnItsWay(s, m)'
  BY DEF FinalValuesCome
<1>1. /\ Typed /\ now \in Int /\ inFlight \in [Symbols -> SUBSET Minutes]
      /\ ConnectionHolds /\ reader # "done" /\ reader' # "done"
      /\ PersistLiveBatch => InService
      /\ InService => InService'
  <2>1. Typed /\ now \in Int /\ inFlight \in [Symbols -> SUBSET Minutes]
    BY ClockType DEF StreamInv, Typed, TypeOK
  <2>2. ConnectionHolds
    <3>1. faults \in Nat /\ (faults' = faults \/ faults' = faults + 1)
      BY <2>1, WhoPages DEF Typed, TypeOK
    <3> QED
      BY <3>1 DEF ConnectionHolds
  <2>3. reader # "done"
    BY <2>2 DEF FinalValuesCome
  <2> QED
    BY <2>1, <2>2, <2>3, StaysInService
<1>2. CASE ~ InService
  <2>1. ASSUME NEW s \in Symbols, NEW m \in Minutes PROVE HasFinalValues(s, m)'
    <3>1. UNCHANGED candles \/ \E page : StorePage(page)
      BY <1>1, <1>2, WhoMovesEvents DEF Tick, ReceiveUpdate, ReceiveFinal, ReceiveTrade,
                                        Receive, database
    <3>2. \/ candles'[s][m] = candles[s][m]
          \/ candles'[s][m].is_closed /\ candles'[s][m].final
      BY <1>1, <3>1, PageIsFinal
    <3>3. HasFinalValues(s, m)
      BY <1>1, <1>2 DEF FinalValuesCome
    <3> QED
      BY <3>2, <3>3 DEF HasFinalValues, Closed
  <2> QED
    BY <1>1, <2>1
<1>3. CASE InService
  <2>1. ASSUME NEW s \in Symbols, NEW m \in Minutes
        PROVE  HasFinalValues(s, m)' \/ OnItsWay(s, m)'
    <3>1. HasFinalValues(s, m) \/ OnItsWay(s, m)
      BY <1>1 DEF FinalValuesCome
    <3>2. CASE Tick
      <4>1. UNCHANGED candles /\ Pipe' = Pipe /\ (m \in inFlight[s] => m \in inFlight'[s])
        BY <3>2 DEF Tick, database, Pipe
      <4> QED
        BY <3>1, <4>1 DEF HasFinalValues, Closed, Closes
    <3>3. ASSUME NEW t \in Symbols, ReceiveUpdate(t) \/ ReceiveFinal(t) \/ ReceiveTrade(t)
          PROVE  HasFinalValues(s, m)' \/ OnItsWay(s, m)'
      <4>1. UNCHANGED candles
        BY <3>3 DEF ReceiveUpdate, ReceiveFinal, ReceiveTrade, Receive, database
      <4>2. /\ Closes(Pipe, 1, s, m) => Closes(Pipe', 1, s, m)
            /\ m \in inFlight[s] =>
                  \/ m \in inFlight'[s]
                  \/ \A k \in 1 .. Len(Pipe) + 1 : Closes(Pipe', k, s, m)
        BY <1>1, <3>3, StillOnItsWay
      <4>3. 1 \in 1 .. Len(Pipe) + 1
        <5>1. Pipe \in Seq(Event)
          BY <1>1, PipeType
        <5> QED
          BY <5>1, LenProperties
      <4> QED
        BY <3>1, <4>1, <4>2, <4>3 DEF HasFinalValues, Closed
    <3>4. CASE PersistLiveBatch
      <4>1. UNCHANGED <<now, reader, inFlight, queue>> /\ batch' = <<>>
        BY <3>4 DEF PersistLiveBatch, stream
      <4>2. CASE reader = "streaming" /\ m # now
        <5>1. \/ /\ candles'[s][m] = candles[s][m]
                 /\ Closes(Pipe, 1, s, m) => Closes(Pipe, 1, s, m)'
              \/ Survives(s, m)'
          BY <3>4, <4>2, BatchBrings
        <5> QED
          BY <3>1, <4>1, <5>1 DEF Survives, HasFinalValues, Closed
      <4>3. CASE m = now
        <5>1. ~ candles'[s][m].is_closed
          BY <1>1, <4>1, <4>3 DEF OnlyThePastIsClosed, Closed
        <5> QED
          BY <5>1 DEF HasFinalValues, Closed
      <4>4. CASE reader # "streaming"
        <5>1. batch = <<>> /\ queue = <<>> /\ Pipe' = Pipe
          BY <1>1, <4>1, <4>4 DEF StreamInv, NothingLeftOver, Pipe, Typed, TypeOK
        <5>2. candles'[s][m] = candles[s][m]
          <6>1. DOMAIN batch = {}
            BY <5>1
          <6> QED
            BY <1>1, <3>4, <6>1, LastEventWins
        <5> QED
          BY <3>1, <4>1, <5>1, <5>2 DEF HasFinalValues, Closed, Closes
      <4> QED
        BY <4>2, <4>3, <4>4
    <3>5. CASE /\ Pipe' = Pipe /\ inFlight' = inFlight
               /\ UNCHANGED candles \/ \E page : StorePage(page)
      <4>1. \/ candles'[s][m] = candles[s][m]
            \/ candles'[s][m].is_closed /\ candles'[s][m].final
        BY <1>1, <3>5, PageIsFinal
      <4> QED
        BY <3>1, <3>5, <4>1 DEF HasFinalValues, Closed, Closes
    <3> QED
      BY <1>1, <1>3, <3>2, <3>3, <3>4, <3>5, StaysInService
  <2> QED
    BY <1>1, <1>3, <2>1
<1> QED
  BY <1>2, <1>3

(* As long as nothing ends a connection in service, a closed row has the    *)
(* values of its closing event or that event is on its way, although an     *)
(* update that waited may have replaced what REST had stored: only a lost   *)
(* connection leaves a completed minute with the values of an unfinished    *)
(* one.                                                                     *)
THEOREM ClosedRowsGetFinalValuesUnlessDisconnected ==
    Spec => [](ConnectionHolds => ClosedRowsGetFinalValues)
<1>1. Init => StreamInv /\ OnlyThePastIsClosed /\ FinalValuesCome
  <2>1. ASSUME Init PROVE FinalValuesCome
    <3>1. reader # "done" /\ \A s \in Symbols, m \in Minutes : ~ candles[s][m].is_closed
      BY <2>1 DEF Init, NoCandle
    <3> QED
      BY <3>1 DEF FinalValuesCome, HasFinalValues, Closed
  <2> QED
    BY <2>1, PastInit
<1>2. ASSUME StreamInv, FinalValuesCome, ConnectionHolds, NEW s \in Symbols, NEW m \in Minutes,
             Closed(s, m)
      PROVE  candles[s][m].final \/ Arriving(s, m)
  <2>1. Survives(s, m)
    BY <1>2 DEF FinalValuesCome, HasFinalValues, Survives
  <2> QED
    BY <1>2, <2>1, SurvivesIsArriving DEF StreamInv
<1>3. StreamInv /\ FinalValuesCome => (ConnectionHolds => ClosedRowsGetFinalValues)
  BY <1>2 DEF ClosedRowsGetFinalValues
<1> QED
  BY <1>1, <1>3, StreamStep, PastStep, FinalValuesStep, PTL DEF Spec
=============================================================================
