------------------------------ MODULE Collector ------------------------------
(***************************************************************************)
(* The ETL collector: one coroutine that recovers missing candles over     *)
(* REST and persists live batches, one reader task that fills a bounded    *)
(* queue from the WebSocket, the exchange behind them, and the database    *)
(* the work is committed to.                                               *)
(*                                                                         *)
(* The coroutine's control state is pc.  A step of it runs from one await  *)
(* that other tasks, the exchange or a failure can interleave with to the  *)
(* next; two awaits with nothing observable between them are one step.     *)
(***************************************************************************)
EXTENDS MarketRepository, Coverage

CONSTANTS BootstrapMinutes, \* settings.bootstrap_days, in minutes
          Overlap,          \* settings.backfill_overlap_minutes
          PageLimit,        \* the "limit" of fetch_klines
          QueueMax,         \* maxsize of the event queue
          BatchMax,         \* most events of a live batch
          TradeMinutes,     \* bound: the minutes in which a trade happens
          Faults,           \* the kinds of fault the environment may inject
          MaxFaults         \* bound: how many faults a behaviour has

FaultKinds == {"rest",    \* REST gives up after its retries
               "gap",     \* REST answers without one of the minutes
               "db",      \* a database statement or commit fails
               "redis",   \* a Redis command fails
               "stream",  \* the WebSocket ends or fails
               "crash"}   \* the process is killed or stopped

ASSUME CollectorAssumption ==
    /\ BootstrapMinutes \in 1 .. MaxMinute
    /\ Overlap \in Nat
    /\ PageLimit \in Nat \ {0}
    /\ QueueMax \in Nat \ {0}
    /\ BatchMax \in Nat \ {0}
    /\ TradeMinutes \subseteq Minutes
    /\ Faults \subseteq FaultKinds
    /\ MaxFaults \in Nat

VARIABLES
    now,         \* the minute the clock is in
    due,         \* next_reconciliation_at has passed
    reader,      \* the reader task: "off", "connecting", "streaming", "done"
    inFlight,    \* per symbol, minutes whose closing event is not yet received
    queue,       \* events received and not yet taken
    batch,       \* the live batch being gathered and persisted
    pc,          \* where the main coroutine is suspended
    job,         \* the locals of _recover_all_symbols and _recover_candles
    candles, trades, checkpoints, runs,       \* the tables
    since,       \* history: the minute the last connection attempt began
    joined,      \* history: the minute the last WebSocket began to stream
    faults       \* bound: faults injected so far

database == <<candles, trades, checkpoints, runs>>
stream   == <<reader, inFlight>>
history  == <<since, joined>>
vars     == <<now, due, stream, queue, batch, pc, job, database, history, faults>>

RecoveryPCs == {"check", "page", "verify", "publish", "fail"}
LivePCs     == {"wait", "gather", "persist", "announce"}
PCs == RecoveryPCs \cup LivePCs \cup
       {"down",         \* the process is not running
        "golive",       \* in _mark_all_live
        "disconnect",   \* in _mark_all_disconnected
        "backoff",      \* asleep until the next attempt
        "dead"}         \* run_forever raised; the process stays up

NoJob == [symbol |-> 0, type |-> "NONE", cover |-> 0, last |-> 0, next |-> 0]

(* Mutant: the minute still open counts as completed. *)
JobWithOpenMinute(s, type) ==
    [symbol |-> s, type |-> type, cover |-> now - BootstrapMinutes,
     last |-> now, next |-> now - BootstrapMinutes]

(* What _recover_candles computes before its first await.                   *)
NewJob(s, type) ==
    [symbol |-> s, type |-> type, cover |-> now - BootstrapMinutes,
     last |-> now - 1, next |-> now - BootstrapMinutes]

NothingInFlight == [s \in Symbols |-> {}]

TypeOK ==
    /\ now \in BootstrapMinutes .. MaxMinute
    /\ due \in BOOLEAN
    /\ reader \in {"off", "connecting", "streaming", "done"}
    /\ inFlight \in [Symbols -> SUBSET Minutes]
    /\ queue \in Seq(Event)
    /\ batch \in Seq(Event)
    /\ pc \in PCs
    /\ job \in [symbol : 0 .. NumSymbols, type : RunTypes \cup {"NONE"},
                cover : Minutes, last : Minutes, next : Minutes]
    /\ candles \in [Symbols -> [Minutes -> CandleRow]]
    /\ trades \subseteq Symbols \X Minutes
    /\ checkpoints \in [Symbols -> [Sources ->
          [status : Statuses, last_event_time : Int, reconnect_count : Nat]]]
    /\ runs \in Seq(Run)
    /\ since \in Minutes
    /\ joined \in Minutes
    /\ faults \in 0 .. MaxFaults

Init ==
    /\ now = BootstrapMinutes
    /\ due = FALSE
    /\ reader = "off"
    /\ inFlight = NothingInFlight
    /\ queue = <<>>
    /\ batch = <<>>
    /\ pc = "down"
    /\ job = NoJob
    /\ candles = [s \in Symbols |-> [m \in Minutes |-> NoCandle]]
    /\ trades = {}
    /\ checkpoints = [s \in Symbols |-> [src \in Sources |-> NoCheckpoint]]
    /\ runs = <<>>
    /\ since = BootstrapMinutes
    /\ joined = BootstrapMinutes
    /\ faults = 0

Inject(kind) == kind \in Faults /\ faults < MaxFaults /\ faults' = faults + 1

-----------------------------------------------------------------------------
(* The clock and the exchange.                                             *)

(* A minute ends.  The exchange sends its closing event to an open          *)
(* WebSocket.  The reconciliation deadline is at least a minute away when   *)
(* it is set, and runs only while live.                                     *)
Tick ==
    /\ now < MaxMinute
    /\ now' = now + 1
    /\ due' \in IF pc \in LivePCs THEN {due, TRUE} ELSE {due}
    /\ inFlight' = [s \in Symbols |-> IF reader = "streaming"
                                      THEN inFlight[s] \cup {now}
                                      ELSE inFlight[s]]
    /\ UNCHANGED <<reader, queue, batch, pc, job, database, history, faults>>

(* The WebSocket opens; what the exchange sent before is not repeated. *)
Connect ==
    /\ reader = "connecting"
    /\ reader' = "streaming"
    /\ joined' = now
    /\ UNCHANGED <<now, due, inFlight, queue, batch, pc, job, database, since, faults>>

(* The minute the next update of a symbol is about: its messages are        *)
(* received in the order they were sent, so an unreceived closing event     *)
(* comes before any update of a later minute.                               *)
UpdatedMinute(s, m) ==
    IF inFlight[s] = {}
    THEN m = now
    ELSE m \in inFlight[s] /\ \A k \in inFlight[s] : m <= k

(* queue.put blocks while the queue is full. *)
Receive(e) ==
    /\ reader = "streaming"
    /\ Len(queue) < QueueMax
    /\ queue' = Append(queue, e)
    /\ UNCHANGED <<now, due, reader, batch, pc, job, database, history, faults>>

ReceiveUpdate(s) ==
    \E m \in Minutes :
        /\ UpdatedMinute(s, m)
        /\ Receive([kind |-> "candle", symbol |-> s, minute |-> m,
                    is_closed |-> FALSE])
        /\ UNCHANGED inFlight

ReceiveFinal(s) ==
    \E m \in inFlight[s] :
        /\ \A k \in inFlight[s] : m <= k
        /\ Receive([kind |-> "candle", symbol |-> s, minute |-> m,
                    is_closed |-> TRUE])
        /\ inFlight' = [inFlight EXCEPT ![s] = @ \ {m}]

ReceiveTrade(s) ==
    /\ now \in TradeMinutes
    /\ Receive([kind |-> "trade", symbol |-> s, minute |-> now,
                is_closed |-> FALSE])
    /\ UNCHANGED inFlight

(* The WebSocket ends; messages not yet received are lost. *)
StreamFails ==
    /\ reader \in {"connecting", "streaming"}
    /\ Inject("stream")
    /\ reader' = "done"
    /\ inFlight' = NothingInFlight
    /\ UNCHANGED <<now, due, queue, batch, pc, job, database, history>>

-----------------------------------------------------------------------------
(* run_forever and _run_connected.                                         *)

(* A new connection: a new queue, the reader task created, and the first    *)
(* symbol's range computed before the reader has run at all.                *)
BeginConnection ==
    /\ pc' = "check"
    /\ job' = NewJob(1, "BACKFILL")
    /\ since' = now
    /\ reader' = "connecting"
    /\ UNCHANGED <<now, due, inFlight, queue, batch, database, joined, faults>>

(* Mutant: the loop of run_forever ends at the first failure. *)
ReconnectNever ==
    /\ pc = "backoff"
    /\ checkpoints[1]["KLINE_1M"].reconnect_count = 0
    /\ BeginConnection

Start     == pc = "down" /\ BeginConnection
Reconnect == pc = "backoff" /\ BeginConnection

(* An exception leaves _run_connected: its finally clause cancels the       *)
(* reader, and the queue and every local go with it.                        *)
Teardown ==
    /\ pc' = "disconnect"
    /\ reader' = "off"
    /\ inFlight' = NothingInFlight
    /\ queue' = <<>>
    /\ batch' = <<>>
    /\ job' = NoJob
    /\ due' = FALSE

(* Mutant: only the candle source is marked. *)
MarkCandlesDisconnected ==
    /\ pc = "disconnect"
    /\ checkpoints' = [s \in Symbols |-> [checkpoints[s] EXCEPT !["KLINE_1M"] =
          UpdateCheckpoint(@, "RECONNECTING", NoTime, TRUE)]]
    /\ pc' = "backoff"
    /\ UNCHANGED <<now, due, stream, queue, batch, job, candles, trades, runs,
                   history, faults>>

MarkAllDisconnected ==
    /\ pc = "disconnect"
    /\ checkpoints' = [s \in Symbols |-> [src \in Sources |->
          UpdateCheckpoint(checkpoints[s][src], "RECONNECTING", NoTime, TRUE)]]
    /\ pc' = "backoff"
    /\ UNCHANGED <<now, due, stream, queue, batch, job, candles, trades, runs,
                   history, faults>>

(* The exception handler itself raises: run_forever ends, and main waits    *)
(* only for a signal.                                                       *)
MarkAllDisconnectedFails ==
    /\ pc = "disconnect"
    /\ Inject("db")
    /\ pc' = "dead"
    /\ UNCHANGED <<now, due, stream, queue, batch, job, database, history>>

(* The process is killed, or main is told to stop and cancels the task:     *)
(* CancelledError is no Exception, so no handler writes to the database.    *)
Crash ==
    /\ pc # "down"
    /\ Inject("crash")
    /\ pc' = "down"
    /\ reader' = "off"
    /\ inFlight' = NothingInFlight
    /\ queue' = <<>>
    /\ batch' = <<>>
    /\ job' = NoJob
    /\ due' = FALSE
    /\ UNCHANGED <<now, database, history>>

MarkAllLive ==
    /\ pc = "golive"
    /\ checkpoints' = [s \in Symbols |-> [src \in Sources |->
          UpdateCheckpoint(checkpoints[s][src], "LIVE", NoTime, FALSE)]]
    /\ pc' = "wait"
    /\ due' = FALSE
    /\ UNCHANGED <<now, stream, queue, batch, job, candles, trades, runs,
                   history, faults>>

(* asyncio.wait returns with the reader done: whatever the queue still      *)
(* holds is dropped.                                                        *)
NoticeStreamEnd ==
    /\ pc = "wait"
    /\ reader = "done"
    /\ Teardown
    /\ UNCHANGED <<now, database, history, faults>>

(* The wait times out with neither task done.  A queued event makes         *)
(* next_event done before the timeout is looked at, so it wins.             *)
StartReconciliation ==
    /\ pc = "wait"
    /\ due
    /\ reader # "done"
    /\ queue = <<>>
    /\ job' = NewJob(1, "RECONCILIATION")
    /\ pc' = "check"
    /\ UNCHANGED <<now, due, stream, queue, batch, database, history, faults>>

TakeEvent ==
    /\ pc = "wait"
    /\ reader # "done"
    /\ queue # <<>>
    /\ batch' = <<Head(queue)>>
    /\ queue' = Tail(queue)
    /\ pc' = "gather"
    /\ UNCHANGED <<now, due, stream, job, database, history, faults>>

(* After 50 ms, whatever else is queued, up to BatchMax in all. *)
GatherBatch ==
    /\ pc = "gather"
    /\ \E n \in 0 .. Len(queue) :
          /\ n = Len(queue) \/ n = BatchMax - 1
          /\ n <= BatchMax - 1
          /\ batch' = batch \o SubSeq(queue, 1, n)
          /\ queue' = SubSeq(queue, n + 1, Len(queue))
    /\ pc' = "persist"
    /\ UNCHANGED <<now, due, stream, job, database, history, faults>>

(* The batch's events of one checkpoint row, and the row they leave. *)
EventsOf(s, src) ==
    {i \in DOMAIN batch :
        /\ batch[i].symbol = s
        /\ batch[i].kind = IF src = "KLINE_1M" THEN "candle" ELSE "trade"}

LiveCheckpoint(row, events) ==
    IF events = {}
    THEN row
    ELSE LET newest == CHOOSE i \in events : \A j \in events : j <= i
         IN  UpdateCheckpoint(row, "LIVE", EventTime(batch[newest]), FALSE)

(* Mutant: the checkpoints are committed, the rows are rolled back. *)
PersistOnlyCheckpoints ==
    /\ pc = "persist"
    /\ checkpoints' = [s \in Symbols |-> [src \in Sources |->
          LiveCheckpoint(checkpoints[s][src], EventsOf(s, src))]]
    /\ batch' = <<>>
    /\ pc' = "announce"
    /\ UNCHANGED <<now, due, stream, queue, job, candles, trades, runs, history,
                   faults>>

(* One transaction for candles, trades and the checkpoints of both. *)
PersistLiveBatch ==
    /\ pc = "persist"
    /\ candles' = UpsertCandles(candles, DeduplicateCandles(batch))
    /\ trades' = InsertTrades(trades, batch)
    /\ checkpoints' = [s \in Symbols |-> [src \in Sources |->
          LiveCheckpoint(checkpoints[s][src], EventsOf(s, src))]]
    /\ batch' = <<>>
    /\ pc' = "announce"
    /\ UNCHANGED <<now, due, stream, queue, job, runs, history, faults>>

(* The Redis publications.  A reader found done afterwards ends the         *)
(* connection at the next wait.                                             *)
Announce ==
    /\ pc = "announce"
    /\ pc' = "wait"
    /\ UNCHANGED <<now, due, stream, queue, batch, job, database, history, faults>>

LiveStepFails ==
    /\ \/ pc \in {"golive", "persist"} /\ Inject("db")
       \/ pc = "announce" /\ Inject("redis")
    /\ Teardown
    /\ UNCHANGED <<now, database, history>>

-----------------------------------------------------------------------------
(* _recover_all_symbols and _recover_candles.                              *)

(* Mutant: the loop over the symbols has no end. *)
NextSymbolForever ==
    /\ job' = NewJob(job.symbol + 1, job.type)
    /\ pc' = "check"
    /\ UNCHANGED due

(* _recover_candles returned, or failed in a periodic pass: the next        *)
(* symbol's range is computed at once, or the pass is over.                 *)
NextSymbol ==
    IF job.symbol < NumSymbols
    THEN /\ job' = NewJob(job.symbol + 1, job.type)
         /\ pc' = "check"
         /\ UNCHANGED due
    ELSE /\ job' = NoJob
         /\ IF job.type = "BACKFILL"
            THEN pc' = "golive" /\ UNCHANGED due
            ELSE pc' = "wait" /\ due' = FALSE

(* Mutant: raise_on_error is never set. *)
RecoveryErrorIgnored ==
    /\ NextSymbol
    /\ UNCHANGED <<stream, queue, batch>>

(* _recover_candles raised: periodic passes log it and go on. *)
RecoveryRaised ==
    \/ job.type = "BACKFILL" /\ Teardown
    \/ /\ job.type = "RECONCILIATION"
       /\ NextSymbol
       /\ UNCHANGED <<stream, queue, batch>>

FirstMissing ==
    FirstMissingOpenTime(ClosedOpenTimes(candles, job.symbol, job.cover, job.last),
                         job.cover, job.last)

SkipCovered ==
    /\ pc = "check"
    /\ FirstMissing = NoMinute
    /\ job.type = "BACKFILL"
    /\ NextSymbol
    /\ UNCHANGED <<now, stream, queue, batch, database, history, faults>>

(* record_noop: created and finished in one transaction. *)
RecordSuccessfulReconciliation ==
    /\ pc = "check"
    /\ FirstMissing = NoMinute
    /\ job.type = "RECONCILIATION"
    /\ runs' = FinishRun(CreateRun(runs, job.symbol, "RECONCILIATION",
                                   job.cover, job.last),
                         Len(runs) + 1, "SUCCESS")
    /\ NextSymbol
    /\ UNCHANGED <<now, stream, queue, batch, candles, trades, checkpoints,
                   history, faults>>

(* max(coverage_start, missing_start - overlap) *)
ReconciliationStart ==
    IF FirstMissing - Overlap > job.cover THEN FirstMissing - Overlap ELSE job.cover

OpenRun ==
    /\ pc = "check"
    /\ FirstMissing # NoMinute
    /\ runs' = CreateRun(runs, job.symbol, job.type, ReconciliationStart, job.last)
    /\ job' = [job EXCEPT !.next = ReconciliationStart]
    /\ pc' = "page"
    /\ UNCHANGED <<now, due, stream, queue, batch, candles, trades, checkpoints,
                   history, faults>>

(* The first PageLimit of the minutes the exchange has to offer. *)
FirstPage(available) ==
    {m \in available : Cardinality({k \in available : k <= m}) <= PageLimit}

(* Mutant: the next page begins a minute too late. *)
StorePageSkipping(page) ==
    \/ /\ page = {}
       /\ pc' = "verify"
       /\ UNCHANGED <<job, candles>>
    \/ \E top \in page :
       /\ \A m \in page : m <= top
       /\ candles' = UpsertCandles(candles,
             {[symbol |-> job.symbol, minute |-> m, is_closed |-> TRUE] : m \in page})
       /\ job' = [job EXCEPT !.next = top + 2]
       /\ pc' = IF top + 2 <= job.last THEN "page" ELSE "verify"

(* Mutant: the next page begins with the last minute of this one. *)
StorePageAgain(page) ==
    \/ /\ page = {}
       /\ pc' = "verify"
       /\ UNCHANGED <<job, candles>>
    \/ \E top \in page :
       /\ \A m \in page : m <= top
       /\ candles' = UpsertCandles(candles,
             {[symbol |-> job.symbol, minute |-> m, is_closed |-> TRUE] : m \in page})
       /\ job' = [job EXCEPT !.next = top]
       /\ pc' = IF top < job.last THEN "page" ELSE "verify"

(* One page, stored and committed; an empty one ends the loop, and so does  *)
(* one that reaches the end of the range.                                   *)
StorePage(page) ==
    \/ /\ page = {}
       /\ pc' = "verify"
       /\ UNCHANGED <<job, candles>>
    \/ \E top \in page :
       /\ \A m \in page : m <= top
       /\ candles' = UpsertCandles(candles,
             {[symbol |-> job.symbol, minute |-> m, is_closed |-> TRUE] : m \in page})
       /\ job' = [job EXCEPT !.next = top + 1]
       /\ pc' = IF top + 1 <= job.last THEN "page" ELSE "verify"

FetchPage ==
    /\ pc = "page"
    /\ StorePage(FirstPage(job.next .. job.last))
    /\ UNCHANGED <<now, due, stream, queue, batch, trades, checkpoints, runs,
                   history, faults>>

FetchPageWithGap ==
    /\ pc = "page"
    /\ Inject("gap")
    /\ \E hole \in job.next .. job.last :
          StorePage(FirstPage((job.next .. job.last) \ {hole}))
    /\ UNCHANGED <<now, due, stream, queue, batch, trades, checkpoints, runs,
                   history>>

(* Mutant: the end of the loop is taken for success. *)
FinishUnverified ==
    /\ pc = "verify"
    /\ runs' = FinishRun(runs, Len(runs), "SUCCESS")
    /\ checkpoints' = [checkpoints EXCEPT ![job.symbol]["KLINE_1M"] =
          UpdateCheckpoint(@, "RECOVERED", 2 * job.last, FALSE)]
    /\ pc' = "publish"
    /\ UNCHANGED <<now, due, stream, queue, batch, job, candles, trades, history,
                   faults>>

(* The range is read back; only a complete one makes the run a SUCCESS, in  *)
(* one transaction with its checkpoint.                                     *)
VerifyAndFinish ==
    /\ pc = "verify"
    /\ FirstMissing = NoMinute
    /\ runs' = FinishRun(runs, Len(runs), "SUCCESS")
    /\ checkpoints' = [checkpoints EXCEPT ![job.symbol]["KLINE_1M"] =
          UpdateCheckpoint(@, "RECOVERED", 2 * job.last, FALSE)]
    /\ pc' = "publish"
    /\ UNCHANGED <<now, due, stream, queue, batch, job, candles, trades, history,
                   faults>>

FindIncomplete ==
    /\ pc = "verify"
    /\ FirstMissing # NoMinute
    /\ pc' = "fail"
    /\ UNCHANGED <<now, due, stream, queue, batch, job, database, history, faults>>

PublishBackfill ==
    /\ pc = "publish"
    /\ NextSymbol
    /\ UNCHANGED <<now, stream, queue, batch, database, history, faults>>

(* An exception inside the try: a page not fetched or not stored, the       *)
(* verification not read or not committed, or, after the commit of SUCCESS, *)
(* the publication.                                                         *)
RecoveryStepFails ==
    /\ \/ pc = "page" /\ Inject("rest")
       \/ pc \in {"page", "verify"} /\ Inject("db")
       \/ pc = "publish" /\ Inject("redis")
    /\ pc' = "fail"
    /\ UNCHANGED <<now, due, stream, queue, batch, job, database, history>>

(* Mutant: the failure is written to the checkpoint alone. *)
RecordFailureInCheckpoint ==
    /\ pc = "fail"
    /\ checkpoints' = [checkpoints EXCEPT ![job.symbol]["KLINE_1M"] =
          UpdateCheckpoint(@, "FAILED", NoTime, FALSE)]
    /\ RecoveryRaised
    /\ UNCHANGED <<now, candles, trades, runs, history, faults>>

RecordFailure ==
    /\ pc = "fail"
    /\ runs' = FinishRun(runs, Len(runs), "FAILED")
    /\ checkpoints' = [checkpoints EXCEPT ![job.symbol]["KLINE_1M"] =
          UpdateCheckpoint(@, "FAILED", NoTime, FALSE)]
    /\ RecoveryRaised
    /\ UNCHANGED <<now, candles, trades, history, faults>>

(* The statements outside the try, and those of its handler. *)
RecoveryBookkeepingFails ==
    /\ pc \in {"check", "fail"}
    /\ Inject("db")
    /\ RecoveryRaised
    /\ UNCHANGED <<now, database, history>>

-----------------------------------------------------------------------------
Recover ==
    \/ SkipCovered \/ RecordSuccessfulReconciliation \/ OpenRun
    \/ FetchPage \/ VerifyAndFinish \/ FindIncomplete
    \/ PublishBackfill \/ RecordFailure

GoOn ==
    \/ Reconnect \/ MarkAllDisconnected \/ MarkAllLive \/ NoticeStreamEnd
    \/ StartReconciliation \/ TakeEvent \/ GatherBatch \/ PersistLiveBatch
    \/ Announce

Fault ==
    \/ StreamFails \/ Crash \/ MarkAllDisconnectedFails \/ LiveStepFails
    \/ FetchPageWithGap \/ RecoveryStepFails \/ RecoveryBookkeepingFails

Next ==
    \/ Tick \/ Connect \/ Start \/ Recover \/ GoOn \/ Fault
    \/ \E s \in Symbols : ReceiveUpdate(s) \/ ReceiveFinal(s) \/ ReceiveTrade(s)

Spec == Init /\ [][Next]_vars

(***************************************************************************)
(* Fairness.  The event loop resumes a coroutine whose await is over;      *)
(* compose.yaml restarts a process that ended (unless-stopped); a          *)
(* WebSocket opens and delivers what it was sent.  Nothing makes the clock *)
(* tick, an update arrive or a fault happen.                               *)
(***************************************************************************)
Fairness ==
    /\ WF_vars(Recover \/ GoOn)
    /\ WF_vars(Start)
    /\ WF_vars(Connect)
    /\ \A s \in Symbols : WF_vars(ReceiveFinal(s))

FairSpec == Spec /\ Fairness
=============================================================================
