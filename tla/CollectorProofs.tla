---------------------------- MODULE CollectorProofs ----------------------------
(***************************************************************************)
(* Theorems about the collector, for every number of symbols, every window *)
(* and overlap, every page, queue and batch size, and every set of faults. *)
(***************************************************************************)
EXTENDS CollectorProperties, CoverageProofs, SequenceTheorems

USE RepositoryAssumption, CollectorAssumption

CheckpointRow == [status : Statuses, last_event_time : Int, reconnect_count : Nat]

-----------------------------------------------------------------------------
(* The statements keep the types of their tables.                          *)

LEMMA UpsertType ==
    ASSUME NEW table \in [Symbols -> [Minutes -> CandleRow]], NEW rows
    PROVE  UpsertCandles(table, rows) \in [Symbols -> [Minutes -> CandleRow]]
<1>1. ASSUME NEW s \in Symbols, NEW m \in Minutes
      PROVE  UpsertCandles(table, rows)[s][m] \in CandleRow
  <2> DEFINE excluded == {r \in rows : r.symbol = s /\ r.minute = m}
             arrived  == \E r \in excluded : r.is_closed
             row      == [stored    |-> TRUE,
                          is_closed |-> table[s][m].is_closed \/ arrived,
                          final     |-> arrived]
  <2>1. table[s][m] \in CandleRow
    OBVIOUS
  <2>2. row \in CandleRow
    BY Zenon DEF CandleRow
  <2>3. UpsertCandles(table, rows)[s][m] = IF excluded = {} THEN table[s][m] ELSE row
    BY DEF UpsertCandles
  <2> QED
    BY <2>1, <2>2, <2>3
<1>2. UpsertCandles(table, rows) =
        [s \in Symbols |-> [m \in Minutes |-> UpsertCandles(table, rows)[s][m]]]
  BY DEF UpsertCandles
<1> QED
  BY <1>1, <1>2

(* An upsert never reopens a candle and never removes a row. *)
LEMMA UpsertKeeps ==
    ASSUME NEW table \in [Symbols -> [Minutes -> CandleRow]], NEW rows,
           NEW s \in Symbols, NEW m \in Minutes
    PROVE  /\ table[s][m].is_closed => UpsertCandles(table, rows)[s][m].is_closed
           /\ table[s][m].stored => UpsertCandles(table, rows)[s][m].stored
  BY DEF UpsertCandles

LEMMA UpdateType ==
    ASSUME NEW row \in CheckpointRow, NEW status \in Statuses, NEW time \in Int,
           NEW increment \in BOOLEAN
    PROVE  UpdateCheckpoint(row, status, time, increment) \in CheckpointRow
  BY DEF UpdateCheckpoint, CheckpointRow

LEMMA MarkAllType ==
    ASSUME TypeOK, NEW status \in Statuses, NEW increment \in BOOLEAN
    PROVE  [s \in Symbols |-> [src \in Sources |->
              UpdateCheckpoint(checkpoints[s][src], status, NoTime, increment)]]
           \in [Symbols -> [Sources -> CheckpointRow]]
<1>1. ASSUME NEW s \in Symbols, NEW src \in Sources
      PROVE  UpdateCheckpoint(checkpoints[s][src], status, NoTime, increment)
             \in CheckpointRow
  <2>1. checkpoints[s][src] \in CheckpointRow
    BY DEF TypeOK, CheckpointRow
  <2>2. NoTime \in Int
    BY DEF NoTime
  <2> QED
    BY <2>1, <2>2, UpdateType
<1> QED
  BY <1>1

LEMMA CreateRunType ==
    ASSUME NEW r \in Seq(Run), NEW s \in Symbols, NEW type \in RunTypes,
           NEW start \in Minutes, NEW last \in Minutes
    PROVE  /\ CreateRun(r, s, type, start, last) \in Seq(Run)
           /\ Len(CreateRun(r, s, type, start, last)) = Len(r) + 1
           /\ \A i \in DOMAIN r : CreateRun(r, s, type, start, last)[i] = r[i]
           /\ CreateRun(r, s, type, start, last)[Len(r) + 1] =
                [symbol |-> s, run_type |-> type, status |-> "RUNNING",
                 range_start |-> start, range_end |-> last]
<1> DEFINE run == [symbol |-> s, run_type |-> type, status |-> "RUNNING",
                   range_start |-> start, range_end |-> last]
<1>1. run \in Run
  BY DEF Run
<1> HIDE DEF run
<1>2. /\ Append(r, run) \in Seq(Run)
      /\ Len(Append(r, run)) = Len(r) + 1
      /\ \A i \in DOMAIN r : Append(r, run)[i] = r[i]
      /\ Append(r, run)[Len(r) + 1] = run
  BY <1>1
<1> QED
  BY <1>2 DEF CreateRun, run

LEMMA FinishRunType ==
    ASSUME NEW r \in Seq(Run), NEW i \in DOMAIN r, NEW status \in {"SUCCESS", "FAILED"}
    PROVE  /\ FinishRun(r, i, status) \in Seq(Run)
           /\ Len(FinishRun(r, i, status)) = Len(r)
           /\ \A k \in DOMAIN r : k # i => FinishRun(r, i, status)[k] = r[k]
           /\ FinishRun(r, i, status)[i] = [r[i] EXCEPT !.status = status]
<1>1. r[i] \in Run
  OBVIOUS
<1>2. [r[i] EXCEPT !.status = status] \in Run
  BY <1>1 DEF Run
<1>3. FinishRun(r, i, status) = [r EXCEPT ![i] = [r[i] EXCEPT !.status = status]]
  BY DEF FinishRun
<1> QED
  BY <1>2, <1>3

-----------------------------------------------------------------------------
(* Type correctness.  It needs RunMatchesJob: OpenRun records the job's     *)
(* symbol and window, and FinishRun writes the last run.                    *)

Typed == TypeOK /\ RunMatchesJob

LEMMA NewJobType ==
    ASSUME TypeOK, NEW s \in Symbols, NEW type \in RunTypes
    PROVE  /\ NewJob(s, type) \in [symbol : 0 .. NumSymbols, type : RunTypes \cup {"NONE"},
                                   cover : Minutes, last : Minutes, next : Minutes]
           /\ NewJob(s, type).symbol = s
           /\ NewJob(s, type).type = type
           /\ NewJob(s, type).cover = now - BootstrapMinutes
           /\ NewJob(s, type).next = now - BootstrapMinutes
           /\ NewJob(s, type).last = now - 1
           /\ NewJob(s, type).cover <= NewJob(s, type).last
           /\ NewJob(s, type).last < now
  BY DEF TypeOK, NewJob, Symbols, Minutes

LEMMA NoJobType ==
    NoJob \in [symbol : 0 .. NumSymbols, type : RunTypes \cup {"NONE"},
               cover : Minutes, last : Minutes, next : Minutes]
  BY DEF NoJob, Minutes

LEMMA NextSymbolType ==
    ASSUME Typed, pc \in RecoveryPCs, NextSymbol, now' = now
    PROVE  /\ due' \in BOOLEAN
           /\ pc' \in {"check", "golive", "wait"}
           /\ job' \in [symbol : 0 .. NumSymbols, type : RunTypes \cup {"NONE"},
                        cover : Minutes, last : Minutes, next : Minutes]
           /\ RunMatchesJob'
<1>1. job.symbol \in Symbols /\ job.type \in RunTypes /\ due \in BOOLEAN
  BY DEF Typed, RunMatchesJob, TypeOK
<1>2. CASE job.symbol < NumSymbols
  <2>1. job.symbol + 1 \in Symbols
    BY <1>1, <1>2 DEF Symbols
  <2>2. pc' = "check" /\ job' = NewJob(job.symbol + 1, job.type) /\ due' = due
    BY <1>2 DEF NextSymbol
  <2> QED
    BY <1>1, <2>1, <2>2, NewJobType DEF Typed, RunMatchesJob, RecoveryPCs, TypeOK
<1>3. CASE ~ (job.symbol < NumSymbols)
  <2>1. job' = NoJob /\ pc' \in {"golive", "wait"} /\ due' \in BOOLEAN
    BY <1>1, <1>3 DEF NextSymbol
  <2> QED
    BY <2>1, NoJobType DEF RunMatchesJob, RecoveryPCs
<1> QED
  BY <1>2, <1>3

LEMMA TeardownType ==
    ASSUME Teardown
    PROVE  /\ due' \in BOOLEAN
           /\ reader' \in {"off", "connecting", "streaming", "done"}
           /\ inFlight' \in [Symbols -> SUBSET Minutes]
           /\ queue' \in Seq(Event)
           /\ batch' \in Seq(Event)
           /\ pc' \in PCs
           /\ job' \in [symbol : 0 .. NumSymbols, type : RunTypes \cup {"NONE"},
                        cover : Minutes, last : Minutes, next : Minutes]
           /\ RunMatchesJob'
<1>1. inFlight' \in [Symbols -> SUBSET Minutes]
  BY DEF Teardown, NothingInFlight
<1>2. queue' \in Seq(Event) /\ batch' \in Seq(Event)
  BY DEF Teardown
<1>3. pc' = "disconnect" /\ job' = NoJob /\ pc' \in PCs
  BY DEF Teardown, PCs
<1>4. RunMatchesJob'
  BY <1>3 DEF RunMatchesJob, RecoveryPCs
<1> QED
  BY <1>1, <1>2, <1>3, <1>4, NoJobType DEF Teardown

LEMMA RecoveryRaisedType ==
    ASSUME Typed, pc \in RecoveryPCs, RecoveryRaised, now' = now
    PROVE  /\ due' \in BOOLEAN
           /\ reader' \in {"off", "connecting", "streaming", "done"}
           /\ inFlight' \in [Symbols -> SUBSET Minutes]
           /\ queue' \in Seq(Event)
           /\ batch' \in Seq(Event)
           /\ pc' \in PCs
           /\ job' \in [symbol : 0 .. NumSymbols, type : RunTypes \cup {"NONE"},
                        cover : Minutes, last : Minutes, next : Minutes]
           /\ RunMatchesJob'
<1>1. CASE Teardown
  BY <1>1, TeardownType
<1>2. CASE NextSymbol /\ UNCHANGED <<stream, queue, batch>>
  BY <1>2, NextSymbolType DEF Typed, TypeOK, PCs, RecoveryPCs, LivePCs, stream
<1> QED
  BY <1>1, <1>2 DEF RecoveryRaised

(* What the coverage check finds lies in the job's window. *)
LEMMA FirstMissingOfJob ==
    ASSUME Typed, pc \in RecoveryPCs
    PROVE  \/ /\ FirstMissing = NoMinute
              /\ \A m \in job.cover .. job.last : candles[job.symbol][m].is_closed
           \/ /\ FirstMissing # NoMinute
              /\ FirstMissing \in job.cover .. job.last
<1> DEFINE closed == ClosedOpenTimes(candles, job.symbol, job.cover, job.last)
<1>1. job.cover \in Nat /\ job.last \in Int
  BY DEF Typed, TypeOK, Minutes
<1>2. closed = {m \in job.cover .. job.last : candles[job.symbol][m].is_closed}
  BY DEF ClosedOpenTimes
<1>3. FirstMissing = FirstMissingOpenTime(closed, job.cover, job.last)
  BY DEF FirstMissing
<1> HIDE DEF closed
<1>4. \/ FirstMissing = NoMinute /\ job.cover .. job.last \subseteq closed
      \/ FirstMissing \in job.cover .. job.last
  BY <1>1, <1>3, FirstMissingIsFirst
<1> QED
  BY <1>1, <1>2, <1>4 DEF NoMinute

(* Before the minute it finds, nothing of the window is missing, and the    *)
(* minute itself is.                                                        *)
LEMMA BeforeFirstMissing ==
    ASSUME Typed, pc \in RecoveryPCs, FirstMissing # NoMinute
    PROVE  /\ ~ candles[job.symbol][FirstMissing].is_closed
           /\ \A m \in job.cover .. job.last :
                 m < FirstMissing => candles[job.symbol][m].is_closed
<1> DEFINE closed == ClosedOpenTimes(candles, job.symbol, job.cover, job.last)
<1>1. job.cover \in Nat /\ job.last \in Int
  BY DEF Typed, TypeOK, Minutes
<1>2. closed = {m \in job.cover .. job.last : candles[job.symbol][m].is_closed}
  BY DEF ClosedOpenTimes
<1>3. FirstMissing = FirstMissingOpenTime(closed, job.cover, job.last)
  BY DEF FirstMissing
<1> HIDE DEF closed
<1>4. /\ FirstMissing \in job.cover .. job.last
      /\ FirstMissing \notin closed
      /\ \A k \in job.cover .. job.last : k < FirstMissing => k \in closed
  BY <1>1, <1>3, FirstMissingIsFirst
<1> QED
  BY <1>2, <1>4

LEMMA ReconciliationStartInWindow ==
    ASSUME Typed, pc \in RecoveryPCs, FirstMissing # NoMinute
    PROVE  /\ ReconciliationStart \in Minutes
           /\ job.cover <= ReconciliationStart
           /\ ReconciliationStart <= job.last
<1>1. FirstMissing \in job.cover .. job.last
  BY FirstMissingOfJob
<1>2. job.cover \in Minutes /\ job.last \in Minutes
  BY DEF Typed, TypeOK
<1> QED
  BY <1>1, <1>2 DEF ReconciliationStart, Minutes

LEMMA LiveCheckpointType ==
    ASSUME TypeOK, NEW s \in Symbols, NEW src \in Sources
    PROVE  LiveCheckpoint(checkpoints[s][src], EventsOf(s, src)) \in CheckpointRow
<1> DEFINE events == EventsOf(s, src)
           newest == CHOOSE i \in events : \A j \in events : j <= i
<1>1. checkpoints[s][src] \in CheckpointRow
  BY DEF TypeOK, CheckpointRow
<1>2. CASE events = {}
  BY <1>1, <1>2 DEF LiveCheckpoint
<1>3. CASE events # {}
  <2>1. batch \in Seq(Event) /\ Len(batch) \in Nat /\ DOMAIN batch = 1 .. Len(batch)
    BY DEF TypeOK
  <2>2. events \in SUBSET (1 .. Len(batch))
    BY <2>1 DEF EventsOf
  <2>3. newest \in events
    BY <1>3, <2>1, <2>2, GreatestExists
  <2>4. batch[newest] \in Event
    BY <2>1, <2>2, <2>3
  <2>5. EventTime(batch[newest]) \in Int
    BY <2>4 DEF Event, EventTime, Minutes
  <2>6. LiveCheckpoint(checkpoints[s][src], events) =
          UpdateCheckpoint(checkpoints[s][src], "LIVE", EventTime(batch[newest]), FALSE)
    BY <1>3 DEF LiveCheckpoint
  <2> HIDE DEF newest, events
  <2> QED
    BY <1>1, <2>5, <2>6, UpdateType DEF Statuses, events
<1> QED
  BY <1>2, <1>3

LEMMA TypedInit == Init => Typed
<1> SUFFICES ASSUME Init PROVE Typed
  OBVIOUS
<1>1. now \in BootstrapMinutes .. MaxMinute /\ since \in Minutes /\ joined \in Minutes
  BY DEF Init, Minutes
<1>2. inFlight \in [Symbols -> SUBSET Minutes]
  BY DEF Init, NothingInFlight
<1>3. candles \in [Symbols -> [Minutes -> CandleRow]]
  BY DEF Init, NoCandle, CandleRow
<1>4. checkpoints \in [Symbols -> [Sources ->
         [status : Statuses, last_event_time : Int, reconnect_count : Nat]]]
  BY DEF Init, NoCheckpoint, Statuses, NoTime
<1>5. queue \in Seq(Event) /\ batch \in Seq(Event) /\ runs \in Seq(Run)
  BY DEF Init
<1>6. pc \in PCs /\ trades \subseteq Symbols \X Minutes /\ due \in BOOLEAN /\ faults \in 0 .. MaxFaults
  <2>1. pc \in PCs
    BY DEF Init, PCs
  <2>2. trades \subseteq Symbols \X Minutes
    BY DEF Init
  <2>3. due \in BOOLEAN
    BY DEF Init
  <2>4. faults \in 0 .. MaxFaults
    BY DEF Init
  <2> QED
    BY <2>1, <2>2, <2>3, <2>4
<1>7. job \in [symbol : 0 .. NumSymbols, type : RunTypes \cup {"NONE"},
               cover : Minutes, last : Minutes, next : Minutes]
  BY NoJobType DEF Init
<1>8. TypeOK
  BY <1>1, <1>2, <1>3, <1>4, <1>5, <1>6, <1>7 DEF Init, TypeOK
<1>9. RunMatchesJob
  BY DEF Init, RunMatchesJob, RecoveryPCs
<1> QED
  BY <1>8, <1>9 DEF Typed

(* The actions of the exchange and of the reader leave the job, the runs    *)
(* and the tables alone.                                                    *)
LEMMA TypedExchange ==
    ASSUME Typed,
           \/ Tick \/ Connect \/ StreamFails
           \/ \E s \in Symbols : ReceiveUpdate(s) \/ ReceiveFinal(s) \/ ReceiveTrade(s)
    PROVE  Typed'
<1> USE DEF Typed, database, history, stream
<1>1. CASE Tick
  <2>1. now \in Minutes /\ now' \in BootstrapMinutes .. MaxMinute /\ now' = now + 1
    BY <1>1 DEF Tick, TypeOK, Minutes
  <2>2. due' \in BOOLEAN
    BY <1>1 DEF Tick, TypeOK
  <2>3. inFlight' \in [Symbols -> SUBSET Minutes]
    BY <1>1, <2>1 DEF Tick, TypeOK
  <2>4. TypeOK'
    BY <1>1, <2>1, <2>2, <2>3 DEF Tick, TypeOK
  <2>5. RunMatchesJob'
    BY <1>1, <2>1 DEF Tick, TypeOK, RunMatchesJob, Minutes
  <2> QED
    BY <2>4, <2>5
<1>2. CASE Connect
  <2>1. joined' \in Minutes
    BY <1>2 DEF Connect, TypeOK, Minutes
  <2> QED
    BY <1>2, <2>1 DEF Connect, TypeOK, RunMatchesJob
<1>3. CASE StreamFails
  <2>1. inFlight' \in [Symbols -> SUBSET Minutes]
    BY <1>3 DEF StreamFails, NothingInFlight
  <2>2. faults' \in 0 .. MaxFaults
    BY <1>3 DEF StreamFails, Inject, TypeOK
  <2> QED
    BY <1>3, <2>1, <2>2 DEF StreamFails, TypeOK, RunMatchesJob
<1>4. CASE \E s \in Symbols : ReceiveUpdate(s) \/ ReceiveFinal(s) \/ ReceiveTrade(s)
  <2>1. PICK s \in Symbols : ReceiveUpdate(s) \/ ReceiveFinal(s) \/ ReceiveTrade(s)
    BY <1>4
  <2>2. \E e \in Event : Receive(e)
    <3>1. CASE ReceiveUpdate(s)
      BY <3>1 DEF ReceiveUpdate, Event
    <3>2. CASE ReceiveFinal(s)
      BY <3>2 DEF ReceiveFinal, Event, TypeOK
    <3>3. CASE ReceiveTrade(s)
      BY <3>3 DEF ReceiveTrade, Event, TypeOK, Minutes
    <3> QED
      BY <2>1, <3>1, <3>2, <3>3
  <2>3. queue' \in Seq(Event)
    BY <2>2 DEF Receive, TypeOK
  <2>4. inFlight' \in [Symbols -> SUBSET Minutes]
    <3>1. CASE ReceiveFinal(s)
      BY <3>1 DEF ReceiveFinal, TypeOK
    <3>2. CASE UNCHANGED inFlight
      BY <3>2 DEF TypeOK
    <3> QED
      BY <2>1, <3>1, <3>2 DEF ReceiveUpdate, ReceiveTrade
  <2> QED
    BY <2>2, <2>3, <2>4 DEF Receive, TypeOK, RunMatchesJob
<1> QED
  BY <1>1, <1>2, <1>3, <1>4

(* run_forever and _run_connected. *)
LEMMA TypedConnection ==
    ASSUME Typed, Start \/ GoOn \/ Crash \/ MarkAllDisconnectedFails \/ LiveStepFails
    PROVE  Typed'
<1> USE DEF Typed, database, history, stream
<1>1. CASE Start \/ Reconnect
  <2>1. BeginConnection
    BY <1>1 DEF Start, Reconnect
  <2>2. 1 \in Symbols /\ "BACKFILL" \in RunTypes /\ now \in Minutes
    BY DEF Symbols, RunTypes, TypeOK, Minutes
  <2>3. pc' = "check" /\ pc' \in PCs /\ job' = NewJob(1, "BACKFILL")
    BY <2>1 DEF BeginConnection, PCs, RecoveryPCs
  <2>4. TypeOK'
    BY <2>1, <2>2, <2>3, NewJobType DEF BeginConnection, TypeOK
  <2>5. RunMatchesJob'
    BY <2>1, <2>2, <2>3, NewJobType DEF BeginConnection, RunMatchesJob, RecoveryPCs, TypeOK
  <2> QED
    BY <2>4, <2>5
<1>2. CASE MarkAllDisconnected
  <2>1. checkpoints' \in [Symbols -> [Sources -> CheckpointRow]]
    <3>1. "RECONNECTING" \in Statuses
      BY DEF Statuses
    <3> QED
      BY <1>2, <3>1, MarkAllType DEF MarkAllDisconnected
  <2> QED
    BY <1>2, <2>1 DEF MarkAllDisconnected, TypeOK, CheckpointRow, RunMatchesJob, PCs, RecoveryPCs
<1>3. CASE MarkAllLive
  <2>1. checkpoints' \in [Symbols -> [Sources -> CheckpointRow]]
    <3>1. "LIVE" \in Statuses
      BY DEF Statuses
    <3> QED
      BY <1>3, <3>1, MarkAllType DEF MarkAllLive
  <2> QED
    BY <1>3, <2>1 DEF MarkAllLive, TypeOK, CheckpointRow, RunMatchesJob, PCs, RecoveryPCs, LivePCs
<1>4. CASE NoticeStreamEnd
  BY <1>4, TeardownType DEF NoticeStreamEnd, TypeOK
<1>5. CASE StartReconciliation
  <2>1. 1 \in Symbols /\ "RECONCILIATION" \in RunTypes
    BY DEF Symbols, RunTypes
  <2>2. pc' = "check" /\ pc' \in PCs /\ job' = NewJob(1, "RECONCILIATION")
    BY <1>5 DEF StartReconciliation, PCs, RecoveryPCs
  <2>3. TypeOK'
    BY <1>5, <2>1, <2>2, NewJobType DEF StartReconciliation, TypeOK
  <2>4. RunMatchesJob'
    BY <1>5, <2>1, <2>2, NewJobType DEF StartReconciliation, RunMatchesJob, RecoveryPCs, TypeOK
  <2> QED
    BY <2>3, <2>4
<1>6. CASE TakeEvent
  <2>1. Head(queue) \in Event /\ Tail(queue) \in Seq(Event)
    BY <1>6 DEF TakeEvent, TypeOK
  <2>2. queue' \in Seq(Event) /\ batch' \in Seq(Event)
    BY <1>6, <2>1 DEF TakeEvent
  <2> QED
    BY <1>6, <2>2 DEF TakeEvent, TypeOK, RunMatchesJob, PCs, RecoveryPCs, LivePCs
<1>7. CASE GatherBatch
  <2>1. PICK n \in 0 .. Len(queue) :
           /\ batch' = batch \o SubSeq(queue, 1, n)
           /\ queue' = SubSeq(queue, n + 1, Len(queue))
    BY <1>7 DEF GatherBatch
  <2>2. queue \in Seq(Event) /\ batch \in Seq(Event) /\ Len(queue) \in Nat
    BY DEF TypeOK
  <2>3. SubSeq(queue, 1, n) \in Seq(Event) /\ SubSeq(queue, n + 1, Len(queue)) \in Seq(Event)
    BY <2>2
  <2>4. queue' \in Seq(Event) /\ batch' \in Seq(Event)
    BY <2>1, <2>2, <2>3
  <2> QED
    BY <1>7, <2>4 DEF GatherBatch, TypeOK, RunMatchesJob, PCs, RecoveryPCs, LivePCs
<1>8. CASE PersistLiveBatch
  <2>1. candles' \in [Symbols -> [Minutes -> CandleRow]]
    BY <1>8, UpsertType DEF PersistLiveBatch, TypeOK
  <2>2. trades' \subseteq Symbols \X Minutes
    <3>1. ASSUME NEW i \in DOMAIN batch
          PROVE  <<batch[i].symbol, batch[i].minute>> \in Symbols \X Minutes
      <4>1. batch[i] \in Event
        BY DEF TypeOK
      <4> QED
        BY <4>1 DEF Event
    <3>2. trades \subseteq Symbols \X Minutes
      BY DEF TypeOK
    <3>3. trades' = InsertTrades(trades, batch)
      BY <1>8 DEF PersistLiveBatch
    <3> QED
      BY <3>1, <3>2, <3>3 DEF InsertTrades
  <2>3. checkpoints' \in [Symbols -> [Sources -> CheckpointRow]]
    BY <1>8, LiveCheckpointType DEF PersistLiveBatch
  <2>4. batch' \in Seq(Event)
    BY <1>8 DEF PersistLiveBatch
  <2> QED
    BY <1>8, <2>1, <2>2, <2>3, <2>4
    DEF PersistLiveBatch, TypeOK, CheckpointRow, RunMatchesJob, PCs, RecoveryPCs, LivePCs
<1>9. CASE Announce
  BY <1>9 DEF Announce, TypeOK, RunMatchesJob, PCs, RecoveryPCs, LivePCs
<1>10. CASE Crash
  <2>1. inFlight' \in [Symbols -> SUBSET Minutes]
    BY <1>10 DEF Crash, NothingInFlight
  <2>2. queue' \in Seq(Event) /\ batch' \in Seq(Event) /\ faults' \in 0 .. MaxFaults
    BY <1>10 DEF Crash, Inject, TypeOK
  <2> QED
    BY <1>10, <2>1, <2>2, NoJobType DEF Crash, TypeOK, RunMatchesJob, PCs, RecoveryPCs
<1>11. CASE MarkAllDisconnectedFails
  <2>1. faults' \in 0 .. MaxFaults
    BY <1>11 DEF MarkAllDisconnectedFails, Inject, TypeOK
  <2> QED
    BY <1>11, <2>1 DEF MarkAllDisconnectedFails, TypeOK, RunMatchesJob, PCs, RecoveryPCs
<1>12. CASE LiveStepFails
  <2>1. faults' \in 0 .. MaxFaults
    BY <1>12 DEF LiveStepFails, Inject, TypeOK
  <2> QED
    BY <1>12, <2>1, TeardownType DEF LiveStepFails, TypeOK
<1> QED
  BY <1>1, <1>2, <1>3, <1>4, <1>5, <1>6, <1>7, <1>8, <1>9, <1>10, <1>11, <1>12 DEF GoOn

(* _recover_all_symbols and _recover_candles. *)
LEMMA StorePageType ==
    ASSUME Typed, pc = "page", NEW page \in SUBSET (job.next .. job.last), StorePage(page),
           now' = now, runs' = runs
    PROVE  /\ candles' \in [Symbols -> [Minutes -> CandleRow]]
           /\ pc' \in {"page", "verify"}
           /\ job' \in [symbol : 0 .. NumSymbols, type : RunTypes \cup {"NONE"},
                        cover : Minutes, last : Minutes, next : Minutes]
           /\ RunMatchesJob'
<1> USE DEF Typed, RecoveryPCs
<1>1. /\ job \in [symbol : 0 .. NumSymbols, type : RunTypes \cup {"NONE"},
                  cover : Minutes, last : Minutes, next : Minutes]
      /\ now \in Minutes /\ job.last < now
  BY DEF TypeOK, RunMatchesJob, Minutes
<1>2. CASE page = {} /\ pc' = "verify" /\ UNCHANGED <<job, candles>>
  BY <1>2 DEF TypeOK, RunMatchesJob
<1>3. CASE \E top \in page :
             /\ candles' = UpsertCandles(candles,
                  {[symbol |-> job.symbol, minute |-> m, is_closed |-> TRUE] : m \in page})
             /\ job' = [job EXCEPT !.next = top + 1]
             /\ pc' = IF top + 1 <= job.last THEN "page" ELSE "verify"
  <2>1. PICK top \in page :
             /\ candles' = UpsertCandles(candles,
                  {[symbol |-> job.symbol, minute |-> m, is_closed |-> TRUE] : m \in page})
             /\ job' = [job EXCEPT !.next = top + 1]
             /\ pc' = IF top + 1 <= job.last THEN "page" ELSE "verify"
    BY <1>3
  <2>2. candles' \in [Symbols -> [Minutes -> CandleRow]]
    BY <2>1, UpsertType DEF TypeOK
  <2>3. top \in job.next .. job.last /\ top + 1 \in Minutes /\ job.next <= top + 1
    BY <1>1, <2>1 DEF Minutes
  <2>4. /\ job' \in [symbol : 0 .. NumSymbols, type : RunTypes \cup {"NONE"},
                     cover : Minutes, last : Minutes, next : Minutes]
        /\ job'.symbol = job.symbol /\ job'.type = job.type
        /\ job'.cover = job.cover /\ job'.last = job.last /\ job'.next = top + 1
    BY <1>1, <2>1, <2>3
  <2>5. pc' \in {"page", "verify"} /\ (pc' = "page" => top + 1 <= job.last)
    BY <2>1
  <2>6. RunMatchesJob'
    BY <1>1, <2>3, <2>4, <2>5 DEF RunMatchesJob, Minutes
  <2> QED
    BY <2>2, <2>4, <2>5, <2>6
<1> QED
  BY <1>2, <1>3 DEF StorePage

(* A periodic pass over a covered symbol adds one run that is a SUCCESS. *)
LEMMA RecordedRun ==
    ASSUME Typed, RecordSuccessfulReconciliation
    PROVE  /\ runs' \in Seq(Run)
           /\ Len(runs') = Len(runs) + 1
           /\ \A i \in 1 .. Len(runs) : runs'[i] = runs[i]
           /\ runs'[Len(runs) + 1] =
                [symbol |-> job.symbol, run_type |-> job.type, status |-> "SUCCESS",
                 range_start |-> job.cover, range_end |-> job.last]
<1> USE DEF Typed
<1>1. /\ runs \in Seq(Run) /\ job.symbol \in Symbols /\ job.type \in RunTypes
      /\ job.cover \in Minutes /\ job.last \in Minutes /\ Len(runs) \in Nat
  BY DEF RecordSuccessfulReconciliation, TypeOK, RunMatchesJob, RecoveryPCs
<1>2. PICK created : created = CreateRun(runs, job.symbol, job.type, job.cover, job.last)
  OBVIOUS
<1>3. created \in Seq(Run)
  BY <1>1, <1>2, CreateRunType
<1>4. Len(created) = Len(runs) + 1
  BY <1>1, <1>2 DEF CreateRun
<1>5. \A i \in 1 .. Len(runs) : created[i] = runs[i]
  BY <1>1, <1>2 DEF CreateRun
<1>6. created[Len(runs) + 1] =
        [symbol |-> job.symbol, run_type |-> job.type, status |-> "RUNNING",
         range_start |-> job.cover, range_end |-> job.last]
  BY <1>1, <1>2 DEF CreateRun
<1>7. runs' = FinishRun(created, Len(runs) + 1, "SUCCESS")
  BY <1>2 DEF RecordSuccessfulReconciliation
<1>8. Len(runs) + 1 \in DOMAIN created
  BY <1>1, <1>3, <1>4
<1>9. runs' \in Seq(Run) /\ Len(runs') = Len(created)
  BY <1>3, <1>7, <1>8, FinishRunType
<1>10. \A i \in DOMAIN created : i # Len(runs) + 1 => runs'[i] = created[i]
  BY <1>3, <1>7, <1>8 DEF FinishRun
<1>11. runs'[Len(runs) + 1] = [created[Len(runs) + 1] EXCEPT !.status = "SUCCESS"]
  BY <1>3, <1>7, <1>8, FinishRunType
<1>12. \A i \in 1 .. Len(runs) : runs'[i] = runs[i]
  BY <1>1, <1>3, <1>4, <1>5, <1>10
<1> QED
  BY <1>4, <1>6, <1>9, <1>11, <1>12

LEMMA TypedRecovery ==
    ASSUME Typed, Recover \/ FetchPageWithGap \/ RecoveryStepFails \/ RecoveryBookkeepingFails
    PROVE  Typed'
<1> USE DEF Typed, database, history, stream
<1>1. CASE SkipCovered
  <2>1. pc \in RecoveryPCs /\ NextSymbol /\ now' = now
    BY <1>1 DEF SkipCovered, RecoveryPCs
  <2> QED
    BY <1>1, <2>1, NextSymbolType DEF SkipCovered, TypeOK, PCs, RecoveryPCs, LivePCs
<1>2. CASE RecordSuccessfulReconciliation
  <2>1. pc \in RecoveryPCs /\ NextSymbol /\ now' = now
    BY <1>2 DEF RecordSuccessfulReconciliation, RecoveryPCs
  <2>2. runs' \in Seq(Run)
    BY <1>2, RecordedRun
  <2> QED
    BY <1>2, <2>1, <2>2, NextSymbolType
    DEF RecordSuccessfulReconciliation, TypeOK, PCs, RecoveryPCs, LivePCs
<1>3. CASE OpenRun
  <2>1. pc \in RecoveryPCs /\ FirstMissing # NoMinute
    BY <1>3 DEF OpenRun, RecoveryPCs
  <2> DEFINE start == ReconciliationStart
  <2>2. start \in Minutes /\ job.cover <= start /\ start <= job.last
    BY <2>1, ReconciliationStartInWindow
  <2>3. /\ runs \in Seq(Run) /\ job.symbol \in Symbols /\ job.type \in RunTypes
        /\ job.last \in Minutes
        /\ job \in [symbol : 0 .. NumSymbols, type : RunTypes \cup {"NONE"},
                    cover : Minutes, last : Minutes, next : Minutes]
    BY <2>1 DEF TypeOK, RunMatchesJob
  <2>4. /\ runs' = CreateRun(runs, job.symbol, job.type, start, job.last)
        /\ job' = [job EXCEPT !.next = start]
        /\ pc' = "page"
    BY <1>3 DEF OpenRun
  <2> HIDE DEF start
  <2>5. /\ runs' \in Seq(Run)
        /\ Len(runs') = Len(runs) + 1
        /\ runs'[Len(runs')] =
              [symbol |-> job.symbol, run_type |-> job.type, status |-> "RUNNING",
               range_start |-> start, range_end |-> job.last]
    BY <2>2, <2>3, <2>4, CreateRunType
  <2>6. TypeOK'
    <3>1. job' \in [symbol : 0 .. NumSymbols, type : RunTypes \cup {"NONE"},
                    cover : Minutes, last : Minutes, next : Minutes]
      BY <2>2, <2>3, <2>4
    <3>2. pc' \in PCs
      BY <2>4 DEF PCs, RecoveryPCs
    <3> QED
      BY <1>3, <2>5, <3>1, <3>2 DEF OpenRun, TypeOK
  <2>7. RunMatchesJob'
    <3>1. /\ job'.symbol = job.symbol /\ job'.type = job.type /\ job'.cover = job.cover
          /\ job'.last = job.last /\ job'.next = start
      BY <2>3, <2>4
    <3>2. job.cover <= job.last /\ job.last < now /\ now' = now
      BY <1>3, <2>1 DEF OpenRun, RunMatchesJob
    <3>3. Len(runs') > 0
      BY <2>3, <2>5
    <3>4. start <= job.last + 1
      BY <2>2, <2>3 DEF Minutes
    <3> QED
      BY <2>2, <2>3, <2>4, <2>5, <3>1, <3>2, <3>3, <3>4 DEF RunMatchesJob, RecoveryPCs
  <2> QED
    BY <2>6, <2>7
<1>4. CASE FetchPage \/ FetchPageWithGap
  <2>1. /\ pc = "page" /\ now' = now /\ runs' = runs /\ faults' \in 0 .. MaxFaults
        /\ UNCHANGED <<now, due, stream, queue, batch, trades, checkpoints, runs, history>>
    BY <1>4 DEF FetchPage, FetchPageWithGap, Inject, TypeOK
  <2>2. PICK page \in SUBSET (job.next .. job.last) : StorePage(page)
    BY <1>4 DEF FetchPage, FetchPageWithGap, FirstPage
  <2> QED
    BY <2>1, <2>2, StorePageType DEF TypeOK, PCs, RecoveryPCs
<1>5. CASE VerifyAndFinish
  <2>1. /\ pc = "verify" /\ Len(runs) \in DOMAIN runs /\ job.symbol \in Symbols
        /\ job.last \in Minutes /\ runs \in Seq(Run)
    BY <1>5 DEF VerifyAndFinish, TypeOK, RunMatchesJob, RecoveryPCs
  <2>2. runs' = FinishRun(runs, Len(runs), "SUCCESS")
    BY <1>5 DEF VerifyAndFinish
  <2>3. /\ runs' \in Seq(Run) /\ Len(runs') = Len(runs)
        /\ runs'[Len(runs)] = [runs[Len(runs)] EXCEPT !.status = "SUCCESS"]
    BY <2>1, <2>2, FinishRunType
  <2>4. checkpoints' \in [Symbols -> [Sources -> CheckpointRow]]
    <3>1. checkpoints[job.symbol]["KLINE_1M"] \in CheckpointRow
      BY <2>1 DEF TypeOK, Sources, CheckpointRow
    <3>2. UpdateCheckpoint(checkpoints[job.symbol]["KLINE_1M"], "RECOVERED", 2 * job.last, FALSE)
             \in CheckpointRow
      <4>1. "RECOVERED" \in Statuses /\ 2 * job.last \in Int
        BY <2>1 DEF Statuses, Minutes
      <4> QED
        BY <3>1, <4>1, UpdateType
    <3> QED
      BY <1>5, <3>2 DEF VerifyAndFinish, TypeOK, CheckpointRow
  <2>5. TypeOK'
    BY <1>5, <2>3, <2>4 DEF VerifyAndFinish, TypeOK, CheckpointRow, PCs, RecoveryPCs
  <2>6. runs[Len(runs)] \in Run
    BY <2>1
  <2>7. RunMatchesJob'
    BY <1>5, <2>1, <2>3, <2>6 DEF VerifyAndFinish, RunMatchesJob, RecoveryPCs, Run
  <2> QED
    BY <2>5, <2>7
<1>6. CASE FindIncomplete
  BY <1>6 DEF FindIncomplete, TypeOK, RunMatchesJob, PCs, RecoveryPCs
<1>7. CASE PublishBackfill
  <2>1. pc \in RecoveryPCs /\ NextSymbol /\ now' = now
    BY <1>7 DEF PublishBackfill, RecoveryPCs
  <2> QED
    BY <1>7, <2>1, NextSymbolType DEF PublishBackfill, TypeOK, PCs, RecoveryPCs, LivePCs
<1>8. CASE RecordFailure
  <2>1. /\ pc = "fail" /\ pc \in RecoveryPCs /\ Len(runs) \in DOMAIN runs
        /\ job.symbol \in Symbols /\ runs \in Seq(Run)
    BY <1>8 DEF RecordFailure, TypeOK, RunMatchesJob, RecoveryPCs
  <2>2. runs' = FinishRun(runs, Len(runs), "FAILED") /\ RecoveryRaised /\ now' = now
    BY <1>8 DEF RecordFailure
  <2>3. runs' \in Seq(Run)
    BY <2>1, <2>2, FinishRunType
  <2>4. checkpoints' \in [Symbols -> [Sources -> CheckpointRow]]
    <3>1. checkpoints[job.symbol]["KLINE_1M"] \in CheckpointRow
      BY <2>1 DEF TypeOK, Sources, CheckpointRow
    <3>2. UpdateCheckpoint(checkpoints[job.symbol]["KLINE_1M"], "FAILED", NoTime, FALSE)
             \in CheckpointRow
      <4>1. "FAILED" \in Statuses /\ NoTime \in Int
        BY DEF Statuses, NoTime
      <4> QED
        BY <3>1, <4>1, UpdateType
    <3> QED
      BY <1>8, <3>2 DEF RecordFailure, TypeOK, CheckpointRow
  <2> QED
    BY <1>8, <2>1, <2>2, <2>3, <2>4, RecoveryRaisedType DEF RecordFailure, TypeOK, CheckpointRow
<1>9. CASE RecoveryStepFails
  <2>1. faults' \in 0 .. MaxFaults
    BY <1>9 DEF RecoveryStepFails, Inject, TypeOK
  <2> QED
    BY <1>9, <2>1 DEF RecoveryStepFails, TypeOK, RunMatchesJob, PCs, RecoveryPCs
<1>10. CASE RecoveryBookkeepingFails
  <2>1. faults' \in 0 .. MaxFaults /\ pc \in RecoveryPCs /\ RecoveryRaised /\ now' = now
    BY <1>10 DEF RecoveryBookkeepingFails, Inject, TypeOK, RecoveryPCs
  <2> QED
    BY <1>10, <2>1, RecoveryRaisedType DEF RecoveryBookkeepingFails, TypeOK
<1> QED
  BY <1>1, <1>2, <1>3, <1>4, <1>5, <1>6, <1>7, <1>8, <1>9, <1>10 DEF Recover

LEMMA TypedStep == Typed /\ [Next]_vars => Typed'
<1> SUFFICES ASSUME Typed, [Next]_vars PROVE Typed'
  OBVIOUS
<1>1. CASE Tick \/ Connect \/ StreamFails
           \/ \E s \in Symbols : ReceiveUpdate(s) \/ ReceiveFinal(s) \/ ReceiveTrade(s)
  BY <1>1, TypedExchange
<1>2. CASE Start \/ GoOn \/ Crash \/ MarkAllDisconnectedFails \/ LiveStepFails
  BY <1>2, TypedConnection
<1>3. CASE Recover \/ FetchPageWithGap \/ RecoveryStepFails \/ RecoveryBookkeepingFails
  BY <1>3, TypedRecovery
<1>4. CASE UNCHANGED vars
  BY <1>4 DEF Typed, TypeOK, RunMatchesJob, vars, database, stream, history
<1> QED
  BY <1>1, <1>2, <1>3, <1>4 DEF Next, Fault

(* Every state of the collector is well typed, and whatever is interrupted  *)
(* and retried, the run being worked on is the last of the history and its  *)
(* locals describe it.                                                      *)
THEOREM TypeCorrect == Spec => []TypeOK
<1>1. Spec => []Typed
  BY TypedInit, TypedStep, PTL DEF Spec
<1> QED
  BY <1>1, PTL DEF Typed

(* At every await of _recover_candles, its handler included, the run it     *)
(* works on is the last of the history and is described by its locals.      *)
THEOREM RunAlwaysMatchesJob == Spec => []RunMatchesJob
<1>1. Spec => []Typed
  BY TypedInit, TypedStep, PTL DEF Spec
<1> QED
  BY <1>1, PTL DEF Typed

-----------------------------------------------------------------------------
(* Who writes the tables.                                                   *)

LEMMA WhoWrites ==
    ASSUME [Next]_vars
    PROVE  /\ \/ UNCHANGED runs
              \/ /\ UNCHANGED candles
                 /\ \/ RecordSuccessfulReconciliation \/ OpenRun
                    \/ VerifyAndFinish \/ RecordFailure
           /\ \/ UNCHANGED candles
              \/ \E rows : candles' = UpsertCandles(candles, rows)
<1> USE DEF database, stream, history
<1>1. CASE UNCHANGED <<runs, candles>>
  BY <1>1
<1>2. CASE RecordSuccessfulReconciliation \/ OpenRun \/ VerifyAndFinish \/ RecordFailure
  BY <1>2 DEF RecordSuccessfulReconciliation, OpenRun, VerifyAndFinish, RecordFailure
<1>3. CASE PersistLiveBatch
  BY <1>3 DEF PersistLiveBatch
<1>4. CASE FetchPage \/ FetchPageWithGap
  BY <1>4 DEF FetchPage, FetchPageWithGap, StorePage
<1>5. CASE Tick \/ Connect \/ Start \/ StreamFails \/ Crash
  BY <1>5, <1>1 DEF Tick, Connect, Start, BeginConnection, StreamFails, Crash
<1>6. CASE \E s \in Symbols : ReceiveUpdate(s) \/ ReceiveFinal(s) \/ ReceiveTrade(s)
  BY <1>6, <1>1 DEF ReceiveUpdate, ReceiveFinal, ReceiveTrade, Receive
<1>7. CASE SkipCovered \/ FindIncomplete \/ PublishBackfill \/ RecoveryStepFails
           \/ RecoveryBookkeepingFails
  BY <1>7, <1>1 DEF SkipCovered, FindIncomplete, PublishBackfill, RecoveryStepFails,
                    RecoveryBookkeepingFails
<1>8. CASE Reconnect \/ MarkAllDisconnected \/ MarkAllLive \/ NoticeStreamEnd
           \/ StartReconciliation \/ TakeEvent \/ GatherBatch \/ Announce
  BY <1>8, <1>1 DEF Reconnect, BeginConnection, MarkAllDisconnected, MarkAllLive,
                    NoticeStreamEnd, StartReconciliation, TakeEvent, GatherBatch, Announce
<1>9. CASE MarkAllDisconnectedFails \/ LiveStepFails
  BY <1>9, <1>1 DEF MarkAllDisconnectedFails, LiveStepFails
<1>10. CASE UNCHANGED vars
  BY <1>10, <1>1 DEF vars
<1> QED
  BY <1>2, <1>3, <1>4, <1>5, <1>6, <1>7, <1>8, <1>9, <1>10 DEF Next, Recover, GoOn, Fault

(* A candle that has a row keeps it, and a closed one stays closed. *)
LEMMA CandlesOnlyAdvance ==
    ASSUME Typed, [Next]_vars, NEW s \in Symbols, NEW m \in Minutes
    PROVE  /\ candles[s][m].is_closed => candles'[s][m].is_closed
           /\ candles[s][m].stored => candles'[s][m].stored
<1>1. candles \in [Symbols -> [Minutes -> CandleRow]]
  BY DEF Typed, TypeOK
<1>2. CASE UNCHANGED candles
  BY <1>2
<1>3. CASE \E rows : candles' = UpsertCandles(candles, rows)
  BY <1>1, <1>3, UpsertKeeps
<1> QED
  BY <1>2, <1>3, WhoWrites

-----------------------------------------------------------------------------
(* The run history.                                                         *)

(* A step leaves every run but the last alone, changes the last one only by *)
(* its status, and makes a SUCCESS only of a range it has found covered.    *)
HistoryStep ==
    /\ Len(runs') >= Len(runs)
    /\ \A i \in DOMAIN runs : runs'[i] # runs[i] =>
          /\ i = Len(runs)
          /\ runs[i].symbol = job.symbol
          /\ runs'[i].symbol = runs[i].symbol
          /\ runs'[i].range_start = runs[i].range_start
          /\ runs'[i].range_end = runs[i].range_end
          /\ <<runs[i].status, runs'[i].status>> \in
                {<<"RUNNING", "SUCCESS">>, <<"RUNNING", "FAILED">>, <<"SUCCESS", "FAILED">>}
    /\ \A i \in DOMAIN runs' : runs'[i].status = "SUCCESS" =>
          \/ i \in DOMAIN runs /\ runs'[i] = runs[i]
          \/ \A m \in runs'[i].range_start .. runs'[i].range_end :
                candles[runs'[i].symbol][m].is_closed

LEMMA StepIsHistoryStep ==
    ASSUME Typed, [Next]_vars
    PROVE  HistoryStep
<1>1. /\ runs \in Seq(Run) /\ Len(runs) \in Nat /\ DOMAIN runs = 1 .. Len(runs)
      /\ runs' \in Seq(Run) /\ Len(runs') \in Nat /\ DOMAIN runs' = 1 .. Len(runs')
      /\ job \in [symbol : 0 .. NumSymbols, type : RunTypes \cup {"NONE"},
                  cover : Minutes, last : Minutes, next : Minutes]
  BY TypedStep DEF Typed, TypeOK
<1>2. CASE UNCHANGED runs
  BY <1>1, <1>2 DEF HistoryStep
<1>3. CASE RecordSuccessfulReconciliation
  <2>1. /\ Len(runs') = Len(runs) + 1
        /\ \A i \in 1 .. Len(runs) : runs'[i] = runs[i]
        /\ runs'[Len(runs) + 1].symbol = job.symbol
        /\ runs'[Len(runs) + 1].range_start = job.cover
        /\ runs'[Len(runs) + 1].range_end = job.last
    BY <1>3, RecordedRun
  <2>2. \A m \in job.cover .. job.last : candles[job.symbol][m].is_closed
    BY <1>3, FirstMissingOfJob DEF RecordSuccessfulReconciliation, RecoveryPCs
  <2> QED
    BY <1>1, <2>1, <2>2 DEF HistoryStep
<1>4. CASE OpenRun
  <2>1. PICK start : runs' = CreateRun(runs, job.symbol, job.type, start, job.last)
    BY <1>4 DEF OpenRun
  <2>2. /\ Len(runs') = Len(runs) + 1
        /\ \A i \in 1 .. Len(runs) : runs'[i] = runs[i]
        /\ runs'[Len(runs) + 1].status = "RUNNING"
    BY <1>1, <2>1 DEF CreateRun
  <2> QED
    BY <1>1, <2>2 DEF HistoryStep
<1>5. CASE VerifyAndFinish \/ RecordFailure
  <2>1. PICK status \in {"SUCCESS", "FAILED"} :
           /\ runs' = FinishRun(runs, Len(runs), status)
           /\ status = "SUCCESS" => VerifyAndFinish
           /\ status = "FAILED" => RecordFailure
    BY <1>5 DEF VerifyAndFinish, RecordFailure
  <2>2. /\ pc \in RecoveryPCs
        /\ status = "SUCCESS" => pc = "verify" /\ FirstMissing = NoMinute
        /\ status = "FAILED" => pc = "fail"
    BY <2>1 DEF VerifyAndFinish, RecordFailure, RecoveryPCs
  <2>3. /\ Len(runs) \in DOMAIN runs
        /\ runs[Len(runs)].symbol = job.symbol
        /\ runs[Len(runs)].range_end = job.last
        /\ job.cover <= runs[Len(runs)].range_start
        /\ status = "SUCCESS" => runs[Len(runs)].status = "RUNNING"
        /\ status = "FAILED" => runs[Len(runs)].status \in {"RUNNING", "SUCCESS"}
    BY <1>1, <2>1, <2>2 DEF Typed, RunMatchesJob, RecoveryPCs
  <2>4. /\ Len(runs') = Len(runs)
        /\ \A i \in DOMAIN runs : i # Len(runs) => runs'[i] = runs[i]
        /\ runs'[Len(runs)] = [runs[Len(runs)] EXCEPT !.status = status]
    <3>1. runs \in Seq(Run) /\ Len(runs) \in DOMAIN runs
      BY <1>1, <2>3
    <3>2. Len(runs') = Len(runs)
      BY <2>1, <3>1, FinishRunType
    <3>3. \A i \in DOMAIN runs : i # Len(runs) => runs'[i] = runs[i]
      BY <2>1, <3>1 DEF FinishRun
    <3>4. runs'[Len(runs)] = [runs[Len(runs)] EXCEPT !.status = status]
      BY <2>1, <3>1, FinishRunType
    <3> QED
      BY <3>2, <3>3, <3>4
  <2>5. runs[Len(runs)] \in Run
    BY <1>1, <2>3
  <2>6. /\ runs'[Len(runs)].symbol = runs[Len(runs)].symbol
        /\ runs'[Len(runs)].range_start = runs[Len(runs)].range_start
        /\ runs'[Len(runs)].range_end = runs[Len(runs)].range_end
        /\ runs'[Len(runs)].status = status
        /\ runs[Len(runs)].range_start \in Minutes
    BY <2>4, <2>5 DEF Run
  <2>7. status = "SUCCESS" =>
           \A m \in job.cover .. job.last : candles[job.symbol][m].is_closed
    BY <2>2, FirstMissingOfJob DEF RecoveryPCs
  <2>8. status = "SUCCESS" =>
           \A m \in runs[Len(runs)].range_start .. runs[Len(runs)].range_end :
              candles[job.symbol][m].is_closed
    BY <1>1, <2>3, <2>6, <2>7 DEF Minutes
  <2>9. \A i \in DOMAIN runs : runs'[i] # runs[i] =>
          /\ i = Len(runs)
          /\ <<runs[i].status, runs'[i].status>> \in
                {<<"RUNNING", "SUCCESS">>, <<"RUNNING", "FAILED">>, <<"SUCCESS", "FAILED">>}
    <3>1. CASE status = "SUCCESS"
      BY <2>3, <2>4, <2>6, <3>1
    <3>2. CASE status = "FAILED"
      BY <2>3, <2>4, <2>6, <3>2
    <3> QED
      BY <2>1, <3>1, <3>2
  <2>10. ASSUME NEW i \in DOMAIN runs', runs'[i].status = "SUCCESS"
         PROVE  \/ i \in DOMAIN runs /\ runs'[i] = runs[i]
                \/ \A m \in runs'[i].range_start .. runs'[i].range_end :
                      candles[runs'[i].symbol][m].is_closed
    <3>1. i \in DOMAIN runs
      BY <1>1, <2>4
    <3>2. CASE i # Len(runs)
      BY <2>4, <3>1, <3>2
    <3>3. CASE i = Len(runs)
      <4>1. status = "SUCCESS"
        BY <2>6, <2>10, <3>3
      <4> QED
        BY <2>3, <2>6, <2>8, <3>3, <4>1
    <3> QED
      BY <3>2, <3>3
  <2> QED
    <3>1. \A i \in DOMAIN runs : runs'[i] # runs[i] =>
             /\ runs[i].symbol = job.symbol
             /\ runs'[i].symbol = runs[i].symbol
             /\ runs'[i].range_start = runs[i].range_start
             /\ runs'[i].range_end = runs[i].range_end
      BY <2>3, <2>6, <2>9
    <3>2. Len(runs') >= Len(runs)
      BY <1>1, <2>4
    <3> QED
      BY <2>9, <2>10, <3>1, <3>2 DEF HistoryStep
<1> QED
  BY <1>2, <1>3, <1>4, <1>5, WhoWrites

(* Every step keeps SUCCESS true of what it vouches for. *)
LEMMA SuccessStep ==
    ASSUME Typed, SuccessMeansCovered, [Next]_vars
    PROVE  SuccessMeansCovered'
<1> SUFFICES ASSUME NEW i \in DOMAIN runs', runs'[i].status = "SUCCESS",
                    NEW m \in runs'[i].range_start .. runs'[i].range_end
             PROVE  candles'[runs'[i].symbol][m].is_closed
  BY DEF SuccessMeansCovered, Closed
<1>1. runs'[i] \in Run
  BY TypedStep DEF Typed, TypeOK
<1>2. runs'[i].symbol \in Symbols /\ m \in Minutes
  BY <1>1 DEF Run, Minutes
<1>3. candles[runs'[i].symbol][m].is_closed
  BY StepIsHistoryStep DEF HistoryStep, SuccessMeansCovered, Closed
<1> QED
  BY <1>2, <1>3, CandlesOnlyAdvance

(* A SUCCESS in the run history means that every minute of its range has a  *)
(* closed candle, at every later time, through any number of failures,      *)
(* crashes and late updates.                                                *)
THEOREM SuccessAlwaysCovered == Spec => []SuccessMeansCovered
<1>1. Init => SuccessMeansCovered
  BY DEF Init, SuccessMeansCovered
<1>2. Typed /\ SuccessMeansCovered /\ [Next]_vars => SuccessMeansCovered'
  BY SuccessStep
<1> QED
  BY <1>1, <1>2, TypedInit, TypedStep, PTL DEF Spec

(* The run history is append-only but for the status of the current run. *)
THEOREM RunHistoryIsAppendOnly == Spec => RunHistoryOnlyGrows
<1>1. Typed /\ [Next]_vars =>
        [ /\ Len(runs') >= Len(runs)
          /\ \A i \in DOMAIN runs :
                runs'[i] # runs[i] =>
                   /\ i = Len(runs)
                   /\ runs[i].symbol = job.symbol
                   /\ <<runs[i].status, runs'[i].status>> \in
                         {<<"RUNNING", "SUCCESS">>, <<"RUNNING", "FAILED">>,
                          <<"SUCCESS", "FAILED">>} ]_vars
  BY StepIsHistoryStep DEF HistoryStep
<1> QED
  BY <1>1, TypedInit, TypedStep, PTL DEF Spec, RunHistoryOnlyGrows

-----------------------------------------------------------------------------
(* Recovery ends.                                                           *)

LEMMA NextSymbolMovesOn ==
    ASSUME Typed, pc \in RecoveryPCs, NextSymbol
    PROVE  pc' \notin RecoveryPCs \/ job'.symbol > job.symbol
<1>1. job.symbol \in Nat
  BY DEF Typed, RunMatchesJob, Symbols
<1> QED
  BY <1>1 DEF NextSymbol, NewJob, RecoveryPCs

(* A page that is not empty begins the next one after its newest candle,    *)
(* and an empty one ends the loop.                                          *)
LEMMA PagesMoveOn ==
    ASSUME Typed, pc = "page", NEW page \in SUBSET (job.next .. job.last), StorePage(page)
    PROVE  \/ pc' = "verify" /\ job'.symbol = job.symbol
           \/ pc' = pc /\ job'.symbol = job.symbol /\ job'.next > job.next
<1>1. job \in [symbol : 0 .. NumSymbols, type : RunTypes \cup {"NONE"},
               cover : Minutes, last : Minutes, next : Minutes]
  BY DEF Typed, TypeOK
<1>2. CASE page = {} /\ pc' = "verify" /\ UNCHANGED <<job, candles>>
  BY <1>2
<1>3. CASE \E top \in page :
             /\ job' = [job EXCEPT !.next = top + 1]
             /\ pc' = IF top + 1 <= job.last THEN "page" ELSE "verify"
  BY <1>1, <1>3 DEF Minutes
<1> QED
  BY <1>2, <1>3 DEF StorePage

LEMMA RecoveryMovesOn ==
    ASSUME Typed,
           Recover \/ FetchPageWithGap \/ RecoveryStepFails \/ RecoveryBookkeepingFails
    PROVE  pc' \notin RecoveryPCs \/ MovesOn
<1> USE DEF MovesOn
<1>1. /\ Stage["check"] = 0 /\ Stage["page"] = 1 /\ Stage["verify"] = 2
      /\ Stage["publish"] = 3 /\ Stage["fail"] = 4
  BY DEF Stage
<1>2. CASE SkipCovered \/ RecordSuccessfulReconciliation \/ PublishBackfill
  BY <1>2, NextSymbolMovesOn
  DEF SkipCovered, RecordSuccessfulReconciliation, PublishBackfill, RecoveryPCs
<1>3. CASE RecordFailure \/ RecoveryBookkeepingFails
  BY <1>3, NextSymbolMovesOn
  DEF RecordFailure, RecoveryBookkeepingFails, RecoveryRaised, Teardown, RecoveryPCs
<1>4. CASE OpenRun
  <2>1. job'.symbol = job.symbol
    BY <1>4 DEF OpenRun, Typed, TypeOK
  <2> QED
    BY <1>1, <1>4, <2>1 DEF OpenRun
<1>5. CASE FetchPage \/ FetchPageWithGap
  <2>1. pc = "page" /\ \E page \in SUBSET (job.next .. job.last) : StorePage(page)
    BY <1>5 DEF FetchPage, FetchPageWithGap, FirstPage
  <2> QED
    BY <1>1, <2>1, PagesMoveOn
<1>6. CASE VerifyAndFinish \/ FindIncomplete \/ RecoveryStepFails
  BY <1>1, <1>6 DEF VerifyAndFinish, FindIncomplete, RecoveryStepFails
<1> QED
  BY <1>2, <1>3, <1>4, <1>5, <1>6 DEF Recover

(* No recovery goes round in a circle: whatever fails, each of its steps    *)
(* ends it or moves on to a later symbol, stage or page.                    *)
THEOREM RecoveryAlwaysMovesOn == Spec => RecoveryMakesProgress
<1>1. Typed /\ [Next]_vars =>
        [ (\/ Recover \/ FetchPageWithGap \/ RecoveryStepFails
           \/ RecoveryBookkeepingFails)
          => pc' \notin RecoveryPCs \/ MovesOn ]_vars
  BY RecoveryMovesOn
<1> QED
  BY <1>1, TypedInit, TypedStep, PTL DEF Spec, RecoveryMakesProgress

-----------------------------------------------------------------------------
(* Recovery succeeds when the exchange answers in full.                     *)

(* A page of a range that has not ended begins with its first minute and    *)
(* leaves none out.                                                         *)
LEMMA PageIsPrefix ==
    ASSUME NEW a \in Nat, NEW b \in Nat, a <= b
    PROVE  /\ a \in FirstPage(a .. b)
           /\ FirstPage(a .. b) \subseteq a .. b
           /\ \A top \in FirstPage(a .. b) : a .. top \subseteq FirstPage(a .. b)
<1> DEFINE before(m) == {k \in a .. b : k <= m}
<1>1. \A m \in a .. b : before(m) = a .. m
  OBVIOUS
<1>2. \A m \in a .. b : IsFiniteSet(a .. m) /\ Cardinality(a .. m) = m - a + 1
  BY FS_Interval
<1>3. \A m \in a .. b : m \in FirstPage(a .. b) <=> m - a + 1 <= PageLimit
  BY <1>1, <1>2 DEF FirstPage
<1>4. FirstPage(a .. b) \subseteq a .. b
  BY DEF FirstPage
<1> HIDE DEF before
<1>5. a \in FirstPage(a .. b)
  BY <1>3
<1>6. ASSUME NEW top \in FirstPage(a .. b), NEW m \in a .. top
      PROVE  m \in FirstPage(a .. b)
  BY <1>3, <1>4
<1> QED
  BY <1>4, <1>5, <1>6

(* What a full page stores is closed, and the next page begins behind it.   *)
LEMMA FullPageIsStored ==
    ASSUME Typed, FetchPage
    PROVE  /\ job'.symbol = job.symbol /\ job'.cover = job.cover /\ job'.last = job.last
           /\ job'.next \in job.next + 1 .. job.last + 1
           /\ pc' \in {"page", "verify"}
           /\ pc' = "verify" => job'.next = job.last + 1
           /\ \A m \in job.next .. job'.next - 1 : candles'[job.symbol][m].is_closed
<1> DEFINE page == FirstPage(job.next .. job.last)
<1>1. /\ job \in [symbol : 0 .. NumSymbols, type : RunTypes \cup {"NONE"},
                  cover : Minutes, last : Minutes, next : Minutes]
      /\ pc = "page" /\ job.next <= job.last /\ job.symbol \in Symbols
      /\ StorePage(page)
  BY DEF FetchPage, Typed, TypeOK, RunMatchesJob, RecoveryPCs
<1>2. /\ job.next \in page /\ page \subseteq job.next .. job.last
      /\ \A top \in page : job.next .. top \subseteq page
  BY <1>1, PageIsPrefix DEF Minutes
<1> HIDE DEF page
<1>3. PICK top \in page :
        /\ candles' = UpsertCandles(candles,
              {[symbol |-> job.symbol, minute |-> m, is_closed |-> TRUE] : m \in page})
        /\ job' = [job EXCEPT !.next = top + 1]
        /\ pc' = IF top + 1 <= job.last THEN "page" ELSE "verify"
  BY <1>1, <1>2 DEF StorePage
<1>4. ASSUME NEW m \in page
      PROVE  candles'[job.symbol][m].is_closed
  <2>1. m \in Minutes
    BY <1>1, <1>2 DEF Minutes
  <2> DEFINE rows == {[symbol |-> job.symbol, minute |-> k, is_closed |-> TRUE] : k \in page}
             row  == [symbol |-> job.symbol, minute |-> m, is_closed |-> TRUE]
  <2>2. row \in rows
    OBVIOUS
  <2>3. row.symbol = job.symbol /\ row.minute = m /\ row.is_closed
    OBVIOUS
  <2> HIDE DEF row, rows
  <2>4. UpsertCandles(candles, rows)[job.symbol][m].is_closed
    BY <1>1, <2>1, <2>2, <2>3 DEF UpsertCandles
  <2> QED
    BY <1>3, <2>4 DEF rows
<1>5. job'.next = top + 1 /\ top \in job.next .. job.last
  BY <1>1, <1>2, <1>3
<1> QED
  BY <1>1, <1>2, <1>3, <1>4, <1>5 DEF Minutes

(* No answer of the exchange has left a minute out. *)
AnswersInFull == faults = 0 \/ "gap" \notin Faults

(* Then the pages leave nothing behind them, and the loop ends at the end.  *)
PagedSoFar ==
    (AnswersInFull /\ pc \in {"page", "verify"}) =>
        /\ \A m \in job.cover .. job.next - 1 : Closed(job.symbol, m)
        /\ pc = "verify" => job.next = job.last + 1

(* Who works on a range, and how faults are counted.                        *)
LEMMA WhoPages ==
    ASSUME Typed, [Next]_vars
    PROVE  /\ \/ OpenRun \/ FetchPage \/ FetchPageWithGap
              \/ UNCHANGED <<pc, job>> \/ pc' \notin {"page", "verify"}
           /\ faults' = faults \/ faults' = faults + 1
<1> USE DEF history
<1>1. CASE Tick \/ Connect \/ StreamFails \/ UNCHANGED vars
           \/ \E s \in Symbols : ReceiveUpdate(s) \/ ReceiveFinal(s) \/ ReceiveTrade(s)
  BY <1>1 DEF Tick, Connect, StreamFails, vars, ReceiveUpdate, ReceiveFinal, ReceiveTrade,
              Receive, Inject
<1>2. CASE Start \/ Reconnect \/ MarkAllDisconnected \/ MarkAllLive \/ NoticeStreamEnd
           \/ Crash \/ MarkAllDisconnectedFails \/ LiveStepFails
  BY <1>2 DEF Start, Reconnect, BeginConnection, MarkAllDisconnected, MarkAllLive,
              NoticeStreamEnd, Crash, MarkAllDisconnectedFails, LiveStepFails, Teardown,
              Inject
<1>3. CASE StartReconciliation \/ TakeEvent \/ GatherBatch \/ PersistLiveBatch \/ Announce
  BY <1>3 DEF StartReconciliation, TakeEvent, GatherBatch, PersistLiveBatch, Announce
<1>4. CASE SkipCovered \/ RecordSuccessfulReconciliation \/ PublishBackfill
  BY <1>4 DEF SkipCovered, RecordSuccessfulReconciliation, PublishBackfill, NextSymbol
<1>5. CASE RecordFailure \/ RecoveryBookkeepingFails
  BY <1>5 DEF RecordFailure, RecoveryBookkeepingFails, RecoveryRaised, NextSymbol,
              Teardown, Inject
<1>6. CASE VerifyAndFinish \/ FindIncomplete \/ RecoveryStepFails
  BY <1>6 DEF VerifyAndFinish, FindIncomplete, RecoveryStepFails, Inject
<1>7. CASE OpenRun \/ FetchPage \/ FetchPageWithGap
  BY <1>7 DEF OpenRun, FetchPage, FetchPageWithGap, Inject
<1> QED
  BY <1>1, <1>2, <1>3, <1>4, <1>5, <1>6, <1>7 DEF Next, Recover, GoOn, Fault

LEMMA PagedStep ==
    ASSUME Typed, PagedSoFar, [Next]_vars
    PROVE  PagedSoFar'
<1>1. /\ job \in [symbol : 0 .. NumSymbols, type : RunTypes \cup {"NONE"},
                  cover : Minutes, last : Minutes, next : Minutes]
      /\ faults \in Nat
  BY DEF Typed, TypeOK
<1>2. AnswersInFull' => AnswersInFull /\ ~ FetchPageWithGap
  BY <1>1, WhoPages DEF AnswersInFull, FetchPageWithGap, Inject
<1>3. ASSUME pc \in RecoveryPCs, NEW m \in Minutes, Closed(job.symbol, m)
      PROVE  candles'[job.symbol][m].is_closed
  BY <1>3, CandlesOnlyAdvance DEF Closed, Typed, RunMatchesJob
<1>4. CASE OpenRun
  <2>1. pc \in RecoveryPCs /\ pc' = "page" /\ FirstMissing # NoMinute
    BY <1>4 DEF OpenRun, RecoveryPCs
  <2>2. job' = [job EXCEPT !.next = ReconciliationStart]
    BY <1>4 DEF OpenRun
  <2>3. job'.symbol = job.symbol /\ job'.cover = job.cover /\ job'.next = ReconciliationStart
    BY <1>1, <2>2
  <2>4. \A m \in job.cover .. ReconciliationStart - 1 : Closed(job.symbol, m)
    <3>1. ReconciliationStart \in Minutes /\ ReconciliationStart <= job.last
      BY <2>1, ReconciliationStartInWindow
    <3>2. FirstMissing \in job.cover .. job.last
      BY <2>1, FirstMissingOfJob
    <3>3. ReconciliationStart <= FirstMissing
      BY <1>1, <3>2 DEF ReconciliationStart, Minutes
    <3>4. \A m \in job.cover .. job.last : m < FirstMissing => Closed(job.symbol, m)
      BY <2>1, BeforeFirstMissing DEF Closed
    <3> QED
      BY <1>1, <3>1, <3>2, <3>3, <3>4 DEF Minutes
  <2>5. \A m \in job.cover .. ReconciliationStart - 1 : m \in Minutes
    BY <1>1, <2>1, ReconciliationStartInWindow DEF Minutes
  <2> QED
    BY <1>3, <2>1, <2>3, <2>4, <2>5 DEF PagedSoFar, Closed
<1>5. CASE FetchPage
  <2>1. pc = "page" /\ pc \in RecoveryPCs
    BY <1>5 DEF FetchPage, RecoveryPCs
  <2>2. ASSUME AnswersInFull', NEW m \in job.cover .. job'.next - 1
        PROVE  candles'[job.symbol][m].is_closed
    <3>1. job'.next \in Int /\ m \in Int
      BY <1>1, <1>5, FullPageIsStored DEF Minutes
    <3>2. CASE m < job.next
      BY <1>1, <1>2, <1>3, <2>1, <2>2, <3>1, <3>2 DEF PagedSoFar, Minutes
    <3>3. CASE job.next <= m
      BY <1>1, <1>5, <2>2, <3>1, <3>3, FullPageIsStored DEF Minutes
    <3> QED
      BY <1>1, <3>1, <3>2, <3>3 DEF Minutes
  <2> QED
    BY <1>5, <2>2, FullPageIsStored DEF PagedSoFar, Closed
<1>6. CASE UNCHANGED <<pc, job>>
  <2>1. ASSUME AnswersInFull', pc \in {"page", "verify"},
               NEW m \in job.cover .. job.next - 1
        PROVE  candles'[job.symbol][m].is_closed
    BY <1>1, <1>2, <1>3, <2>1 DEF PagedSoFar, RecoveryPCs, Minutes
  <2> QED
    BY <1>2, <1>6, <2>1 DEF PagedSoFar, Closed
<1>7. CASE pc' \notin {"page", "verify"}
  BY <1>7 DEF PagedSoFar
<1> QED
  BY <1>2, <1>4, <1>5, <1>6, <1>7, WhoPages DEF PagedSoFar

LEMMA FullyPaged ==
    ASSUME Typed, PagedSoFar, AnswersInFull, pc = "verify"
    PROVE  FirstMissing = NoMinute
<1>1. /\ pc \in RecoveryPCs /\ job.next = job.last + 1
      /\ \A m \in job.cover .. job.next - 1 : candles[job.symbol][m].is_closed
  BY DEF PagedSoFar, Closed, RecoveryPCs
<1>2. job.cover \in Int /\ job.last \in Int
  BY DEF Typed, TypeOK, Minutes
<1>3. \A m \in job.cover .. job.last : candles[job.symbol][m].is_closed
  BY <1>1, <1>2
<1> QED
  BY <1>1, <1>3, FirstMissingOfJob, BeforeFirstMissing

(* As long as no answer of the exchange has left a minute out, the          *)
(* verification finds nothing missing: whatever else fails, and whatever    *)
(* the page size, the overlap and the gaps recovery started from, its pages *)
(* and the minutes before them cover the window.                            *)
THEOREM VerificationSucceeds ==
    Spec => [](AnswersInFull /\ pc = "verify" => FirstMissing = NoMinute)
<1>1. Init => PagedSoFar
  BY DEF Init, PagedSoFar
<1>2. Typed /\ PagedSoFar /\ [Next]_vars => PagedSoFar'
  BY PagedStep
<1>3. Typed /\ PagedSoFar => (AnswersInFull /\ pc = "verify" => FirstMissing = NoMinute)
  BY FullyPaged
<1> QED
  BY <1>1, <1>2, <1>3, TypedInit, TypedStep, PTL DEF Spec

(* Without a fault the reader does not end and no handler runs.             *)
Undisturbed ==
    faults = 0 => reader # "done" /\ pc \notin {"fail", "disconnect", "backoff", "dead"}

(* A step that is no fault, taken when there was none before.               *)
FaultlessStep ==
    \/ Tick \/ Connect \/ Start \/ MarkAllLive \/ StartReconciliation
    \/ TakeEvent \/ GatherBatch \/ PersistLiveBatch \/ Announce
    \/ SkipCovered \/ RecordSuccessfulReconciliation \/ OpenRun
    \/ FetchPage \/ VerifyAndFinish \/ PublishBackfill
    \/ \E s \in Symbols : ReceiveUpdate(s) \/ ReceiveFinal(s) \/ ReceiveTrade(s)

LEMMA StepsWithoutFault ==
    ASSUME Typed, PagedSoFar, Undisturbed, [Next]_vars, faults' = 0
    PROVE  faults = 0 /\ (FaultlessStep \/ UNCHANGED vars)
<1>1. faults \in Nat /\ faults' # faults + 1 /\ faults = 0
  BY WhoPages DEF Typed, TypeOK
<1>2. reader # "done" /\ pc \notin {"fail", "disconnect", "backoff", "dead"}
  BY <1>1 DEF Undisturbed
<1>3. ~ Fault
  BY <1>1 DEF Fault, StreamFails, Crash, MarkAllDisconnectedFails, LiveStepFails,
              FetchPageWithGap, RecoveryStepFails, RecoveryBookkeepingFails, Inject
<1>4. ~ FindIncomplete
  BY <1>1, FullyPaged DEF FindIncomplete, AnswersInFull
<1>5. ~ (Reconnect \/ MarkAllDisconnected \/ NoticeStreamEnd \/ RecordFailure)
  BY <1>2 DEF Reconnect, MarkAllDisconnected, NoticeStreamEnd, RecordFailure
<1> QED
  BY <1>1, <1>3, <1>4, <1>5 DEF Next, Recover, GoOn, FaultlessStep

LEMMA FaultlessStepType ==
    ASSUME Typed, FaultlessStep, reader # "done",
           pc \notin {"fail", "disconnect", "backoff", "dead"}
    PROVE  /\ reader' # "done" /\ pc' \notin {"fail", "disconnect", "backoff", "dead"}
           /\ \/ UNCHANGED runs /\ (pc \in {"page", "verify"} => pc' \in {"page", "verify"})
              \/ RecordSuccessfulReconciliation \/ OpenRun \/ VerifyAndFinish
<1> USE DEF database, stream, history
<1>1. CASE Tick \/ Connect
           \/ \E s \in Symbols : ReceiveUpdate(s) \/ ReceiveFinal(s) \/ ReceiveTrade(s)
  BY <1>1 DEF Tick, Connect, ReceiveUpdate, ReceiveFinal, ReceiveTrade, Receive
<1>2. CASE Start \/ MarkAllLive \/ StartReconciliation
  BY <1>2 DEF Start, BeginConnection, MarkAllLive, StartReconciliation
<1>3. CASE TakeEvent \/ GatherBatch \/ PersistLiveBatch \/ Announce
  BY <1>3 DEF TakeEvent, GatherBatch, PersistLiveBatch, Announce
<1>4. CASE SkipCovered \/ RecordSuccessfulReconciliation \/ PublishBackfill
  BY <1>4 DEF SkipCovered, RecordSuccessfulReconciliation, PublishBackfill, NextSymbol
<1>5. CASE FetchPage
  BY <1>5 DEF FetchPage, StorePage
<1>6. CASE OpenRun \/ VerifyAndFinish
  BY <1>6 DEF OpenRun, VerifyAndFinish
<1> QED
  BY <1>1, <1>2, <1>3, <1>4, <1>5, <1>6 DEF FaultlessStep

LEMMA FaultlessStepSettles ==
    ASSUME Typed, NothingFailsByItself, Undisturbed, faults = 0, FaultlessStep
    PROVE  \A i \in DOMAIN runs' :
              \/ runs'[i].status = "SUCCESS"
              \/ runs'[i].status = "RUNNING" /\ i = Len(runs') /\ pc' \in {"page", "verify"}
<1>1. \A i \in DOMAIN runs :
         \/ runs[i].status = "SUCCESS"
         \/ runs[i].status = "RUNNING" /\ i = Len(runs) /\ pc \in {"page", "verify"}
  BY DEF NothingFailsByItself
<1>2. runs \in Seq(Run) /\ Len(runs) \in Nat /\ DOMAIN runs = 1 .. Len(runs)
  BY DEF Typed, TypeOK
<1>3. CASE UNCHANGED runs /\ (pc \in {"page", "verify"} => pc' \in {"page", "verify"})
  BY <1>1, <1>3
<1>4. CASE RecordSuccessfulReconciliation
  <2>1. /\ Len(runs') = Len(runs) + 1
        /\ \A i \in 1 .. Len(runs) : runs'[i] = runs[i]
        /\ runs'[Len(runs) + 1].status = "SUCCESS"
        /\ DOMAIN runs' = 1 .. Len(runs')
    BY <1>2, <1>4, RecordedRun
  <2>2. pc = "check"
    BY <1>4 DEF RecordSuccessfulReconciliation
  <2> QED
    BY <1>1, <1>2, <2>1, <2>2
<1>5. CASE OpenRun
  <2>1. pc = "check" /\ pc' = "page" /\ pc \in RecoveryPCs /\ FirstMissing # NoMinute
    BY <1>5 DEF OpenRun, RecoveryPCs
  <2>2. PICK start : runs' = CreateRun(runs, job.symbol, job.type, start, job.last)
    BY <1>5 DEF OpenRun
  <2>3. /\ Len(runs') = Len(runs) + 1 /\ DOMAIN runs' = 1 .. Len(runs')
        /\ \A i \in 1 .. Len(runs) : runs'[i] = runs[i]
        /\ runs'[Len(runs) + 1].status = "RUNNING"
    BY <1>2, <2>2 DEF CreateRun
  <2> QED
    BY <1>1, <1>2, <2>1, <2>3
<1>6. CASE VerifyAndFinish
  <2>1. pc = "verify" /\ runs' = FinishRun(runs, Len(runs), "SUCCESS")
    BY <1>6 DEF VerifyAndFinish
  <2>2. Len(runs) \in DOMAIN runs
    BY <1>2, <2>1 DEF Typed, RunMatchesJob
  <2>3. runs[Len(runs)] \in Run
    BY <1>2, <2>2
  <2>4. /\ DOMAIN runs' = DOMAIN runs
        /\ \A i \in DOMAIN runs : i # Len(runs) => runs'[i] = runs[i]
        /\ runs'[Len(runs)].status = "SUCCESS"
    BY <1>2, <2>1, <2>2, <2>3 DEF FinishRun, Run
  <2> QED
    BY <1>1, <1>2, <2>2, <2>4
<1>7. reader # "done" /\ pc \notin {"fail", "disconnect", "backoff", "dead"}
  BY DEF Undisturbed
<1> QED
  BY <1>3, <1>4, <1>5, <1>6, <1>7, FaultlessStepType

LEMMA UndisturbedStep ==
    ASSUME Typed, PagedSoFar, Undisturbed, NothingFailsByItself, [Next]_vars
    PROVE  Undisturbed' /\ NothingFailsByItself'
<1>1. CASE faults' # 0
  BY <1>1 DEF Undisturbed, NothingFailsByItself
<1>2. CASE faults' = 0
  <2>1. faults = 0 /\ (FaultlessStep \/ UNCHANGED vars)
    BY <1>2, StepsWithoutFault
  <2>2. CASE FaultlessStep
    BY <2>1, <2>2, FaultlessStepType, FaultlessStepSettles DEF Undisturbed, NothingFailsByItself
  <2>3. CASE UNCHANGED vars
    BY <2>1, <2>3 DEF vars, stream, database, Undisturbed, NothingFailsByItself
  <2> QED
    BY <2>1, <2>2, <2>3
<1> QED
  BY <1>1, <1>2

(* As long as nothing from outside fails, no recovery does, no run is left  *)
(* behind and no connection is torn down, for any page size, overlap and    *)
(* queue and wherever a minute ends.                                        *)
THEOREM NothingEverFailsByItself == Spec => []NothingFailsByItself
<1>1. Init => PagedSoFar /\ Undisturbed /\ NothingFailsByItself
  BY DEF Init, PagedSoFar, Undisturbed, NothingFailsByItself
<1>2. Typed /\ PagedSoFar /\ Undisturbed /\ NothingFailsByItself /\ [Next]_vars
         => PagedSoFar' /\ Undisturbed' /\ NothingFailsByItself'
  BY PagedStep, UndisturbedStep
<1> QED
  BY <1>1, <1>2, TypedInit, TypedStep, PTL DEF Spec

-----------------------------------------------------------------------------
(* What is finished stays finished as long as Redis answers.                *)

RedisAnswers == faults = 0 \/ "redis" \notin Faults

(* Then no recovery fails after the commit of its SUCCESS. *)
FailsBeforeCommit ==
    (RedisAnswers /\ pc = "fail") => runs[Len(runs)].status = "RUNNING"

LEMMA WhoFails ==
    ASSUME Typed, [Next]_vars, RedisAnswers', pc' = "fail"
    PROVE  RedisAnswers /\ UNCHANGED runs /\ pc \in {"page", "verify", "fail"}
<1> USE DEF database, stream, history
<1>1. RedisAnswers /\ ~Inject("redis")
  <2>1. faults \in Nat /\ (faults' = faults \/ faults' = faults + 1)
    BY WhoPages DEF Typed, TypeOK
  <2> QED
    BY <2>1 DEF RedisAnswers, Inject
<1>2. CASE Tick \/ Connect \/ StreamFails \/ UNCHANGED vars
           \/ \E s \in Symbols : ReceiveUpdate(s) \/ ReceiveFinal(s) \/ ReceiveTrade(s)
  BY <1>1, <1>2 DEF Tick, Connect, StreamFails, vars, ReceiveUpdate, ReceiveFinal,
                    ReceiveTrade, Receive
<1>3. CASE RecoveryStepFails \/ FindIncomplete
  BY <1>1, <1>3 DEF RecoveryStepFails, FindIncomplete
<1>4. CASE Start \/ Reconnect \/ MarkAllDisconnected \/ MarkAllLive \/ NoticeStreamEnd
           \/ Crash \/ MarkAllDisconnectedFails \/ LiveStepFails
  BY <1>4 DEF Start, Reconnect, BeginConnection, MarkAllDisconnected, MarkAllLive,
              NoticeStreamEnd, Crash, MarkAllDisconnectedFails, LiveStepFails, Teardown
<1>5. CASE StartReconciliation \/ TakeEvent \/ GatherBatch \/ PersistLiveBatch \/ Announce
  BY <1>5 DEF StartReconciliation, TakeEvent, GatherBatch, PersistLiveBatch, Announce
<1>6. CASE SkipCovered \/ RecordSuccessfulReconciliation \/ PublishBackfill
           \/ RecordFailure \/ RecoveryBookkeepingFails
  BY <1>6 DEF SkipCovered, RecordSuccessfulReconciliation, PublishBackfill,
              RecordFailure, RecoveryBookkeepingFails, RecoveryRaised, NextSymbol, Teardown
<1>7. CASE OpenRun \/ FetchPage \/ FetchPageWithGap \/ VerifyAndFinish
  BY <1>7 DEF OpenRun, FetchPage, FetchPageWithGap, StorePage, VerifyAndFinish
<1> QED
  BY <1>2, <1>3, <1>4, <1>5, <1>6, <1>7 DEF Next, Recover, GoOn, Fault

LEMMA FailsBeforeCommitStep ==
    ASSUME Typed, FailsBeforeCommit, [Next]_vars
    PROVE  FailsBeforeCommit'
<1> SUFFICES ASSUME RedisAnswers', pc' = "fail" PROVE runs'[Len(runs')].status = "RUNNING"
  BY DEF FailsBeforeCommit
<1>1. RedisAnswers /\ UNCHANGED runs /\ pc \in {"page", "verify", "fail"}
  BY WhoFails
<1>2. pc \in {"page", "verify"} => runs[Len(runs)].status = "RUNNING"
  BY DEF Typed, RunMatchesJob
<1> QED
  BY <1>1, <1>2 DEF FailsBeforeCommit

LEMMA FinishedStays ==
    ASSUME Typed, FailsBeforeCommit, RedisAnswers, [Next]_vars, NEW i \in DOMAIN runs
    PROVE  /\ i \in DOMAIN runs'
           /\ runs[i].status # "RUNNING" => runs'[i] = runs[i]
<1>1. /\ Len(runs) \in Nat /\ DOMAIN runs = 1 .. Len(runs)
      /\ Len(runs') \in Nat /\ DOMAIN runs' = 1 .. Len(runs')
  BY TypedStep DEF Typed, TypeOK
<1>2. ASSUME runs[i].status # "RUNNING", runs'[i] # runs[i] PROVE FALSE
  <2>1. i = Len(runs) /\ runs[i].status = "SUCCESS" /\ runs'[i].status = "FAILED"
    BY <1>2, StepIsHistoryStep DEF HistoryStep
  <2>2. RecordSuccessfulReconciliation \/ OpenRun \/ VerifyAndFinish \/ RecordFailure
    BY <1>2, WhoWrites
  <2>3. CASE RecordSuccessfulReconciliation
    BY <1>1, <1>2, <2>3, RecordedRun
  <2>4. CASE OpenRun
    <3>1. PICK start : runs' = CreateRun(runs, job.symbol, job.type, start, job.last)
      BY <2>4 DEF OpenRun
    <3> QED
      BY <1>1, <1>2, <3>1 DEF CreateRun, Typed, TypeOK
  <2>5. CASE VerifyAndFinish
    BY <2>1, <2>5 DEF VerifyAndFinish, Typed, RunMatchesJob
  <2>6. CASE RecordFailure
    BY <2>1, <2>6 DEF RecordFailure, FailsBeforeCommit
  <2> QED
    BY <2>2, <2>3, <2>4, <2>5, <2>6
<1> QED
  BY <1>1, <1>2, StepIsHistoryStep DEF HistoryStep

(* A run that is SUCCESS or FAILED keeps its row for good, as long as Redis *)
(* answers: the only writer of a finished run is the handler that a failed  *)
(* publication of a committed SUCCESS reaches.                              *)
THEOREM FinishedRunsStay ==
    Spec => [][RedisAnswers => \A i \in DOMAIN runs :
                  runs[i].status # "RUNNING" => i \in DOMAIN runs' /\ runs'[i] = runs[i]]_vars
<1>1. Init => FailsBeforeCommit
  BY DEF Init, FailsBeforeCommit
<1>2. Typed /\ FailsBeforeCommit /\ [Next]_vars =>
        [RedisAnswers => \A i \in DOMAIN runs :
            runs[i].status # "RUNNING" => i \in DOMAIN runs' /\ runs'[i] = runs[i]]_vars
  BY FinishedStays
<1>3. Typed /\ FailsBeforeCommit /\ [Next]_vars => FailsBeforeCommit'
  BY FailsBeforeCommitStep
<1> QED
  BY <1>1, <1>2, <1>3, TypedInit, TypedStep, PTL DEF Spec
=============================================================================
