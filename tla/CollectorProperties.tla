------------------------- MODULE CollectorProperties -------------------------
(***************************************************************************)
(* What the collector must and must not do.  The first part holds of the   *)
(* code, under the faults each run of MCCollector names; the second part   *)
(* is what the repository's documents and comments say and the code does   *)
(* not do.                                                                 *)
(***************************************************************************)
EXTENDS Collector

Closed(s, m) == candles[s][m].is_closed

(* The closing event of a minute is on its way into the candle table. *)
ClosingEvent(e, s, m) ==
    e = [kind |-> "candle", symbol |-> s, minute |-> m, is_closed |-> TRUE]

Arriving(s, m) ==
    \/ m \in inFlight[s]
    \/ \E i \in DOMAIN queue : ClosingEvent(queue[i], s, m)
    \/ \E i \in DOMAIN batch : ClosingEvent(batch[i], s, m)

(* Between _mark_all_live and the end of the connection. *)
InService == pc \in LivePCs \/ job.type = "RECONCILIATION"

-----------------------------------------------------------------------------
(* A run that says SUCCESS vouches for its whole range: every minute of it  *)
(* has a closed candle, now and at any later time.  (The verification of    *)
(* _recover_candles and the OR in upsert_candles.)                          *)
SuccessMeansCovered ==
    \A i \in DOMAIN runs : runs[i].status = "SUCCESS" =>
        \A m \in runs[i].range_start .. runs[i].range_end :
            Closed(runs[i].symbol, m)

(* While the collector reports LIVE, every minute of the bootstrap window   *)
(* that was complete when this connection began has a closed candle, for    *)
(* every symbol, whichever symbols were recovered before the clock moved.   *)
(* (_mark_all_live only after _recover_all_symbols.)                        *)
ServiceMeansRecovered ==
    InService => \A s \in Symbols :
        \A m \in now - BootstrapMinutes .. since - 1 : Closed(s, m)

(* From the moment the WebSocket streams until its connection ends, no      *)
(* completed minute is lost between the exchange and the table: it has a    *)
(* closed candle with the values of the completed minute, or the closing    *)
(* event that brings them is in flight, queued or in the batch.  (Bounded   *)
(* queue, batch limit, deduplication, and an upsert that lets an update     *)
(* replace what REST stored in between.)                                    *)
StreamedMinutesSurvive ==
    reader = "streaming" => \A s \in Symbols : \A m \in joined .. now - 1 :
        \/ Closed(s, m) /\ candles[s][m].final
        \/ Arriving(s, m)

(* A checkpoint never claims an event the tables do not hold: the time of a *)
(* KLINE_1M checkpoint lies within a stored candle's minute, the time of an *)
(* AGG_TRADE checkpoint is that of a stored trade.  (Data and checkpoint    *)
(* commit together.)                                                        *)
CheckpointIsBacked ==
    \A s \in Symbols :
        /\ LET t == checkpoints[s]["KLINE_1M"].last_event_time
           IN  t = NoTime \/ \E m \in Minutes :
                   candles[s][m].stored /\ 2 * m <= t /\ t <= 2 * m + 2
        /\ LET t == checkpoints[s]["AGG_TRADE"].last_event_time
           IN  t = NoTime \/ \E m \in Minutes :
                   <<s, m>> \in trades /\ t = 2 * m + 1

(* The reconnect counts of all symbols and sources move together, and while *)
(* the collector waits to reconnect no row shows an earlier status.         *)
(* (_mark_all_disconnected writes every row in one transaction; every other *)
(* writer keeps the count.)                                                 *)
ReconnectsAreRecordedTogether ==
    \A s \in Symbols, src \in Sources :
        /\ checkpoints[s][src].reconnect_count = checkpoints[1]["KLINE_1M"].reconnect_count
        /\ pc = "backoff" => checkpoints[s][src].status = "RECONNECTING"

(* The run history is append-only but for the run being worked on: no other *)
(* run changes, none is removed, and a run never returns to RUNNING nor     *)
(* from FAILED to SUCCESS.  (run is merged by id in a later session.)       *)
RunHistoryOnlyGrows ==
    [][ /\ Len(runs') >= Len(runs)
        /\ \A i \in DOMAIN runs :
              runs'[i] # runs[i] =>
                 /\ i = Len(runs)
                 /\ runs[i].symbol = job.symbol
                 /\ <<runs[i].status, runs'[i].status>> \in
                       {<<"RUNNING", "SUCCESS">>, <<"RUNNING", "FAILED">>,
                        <<"SUCCESS", "FAILED">>} ]_vars

(* Recovery never fails for a reason of its own: as long as nothing from    *)
(* outside fails, no run is FAILED, none is left RUNNING and the connection *)
(* is not torn down, however the range is cut into pages and whenever a     *)
(* minute ends.  (The paging loop and the verification after it.)           *)
NothingFailsByItself ==
    faults = 0 =>
        /\ pc \notin {"fail", "disconnect", "backoff", "dead"}
        /\ \A i \in DOMAIN runs :
              \/ runs[i].status = "SUCCESS"
              \/ /\ runs[i].status = "RUNNING"
                 /\ i = Len(runs) /\ pc \in {"page", "verify"}

(* The order in which a recovery passes its awaits. *)
Stage == [check |-> 0, page |-> 1, verify |-> 2, publish |-> 3, fail |-> 4]

MovesOn ==
    \/ job'.symbol > job.symbol
    \/ /\ job'.symbol = job.symbol
       /\ \/ Stage[pc'] > Stage[pc]
          \/ pc' = pc /\ job'.next > job.next

(* A recovery runs in no circle: every step of it, the failed ones          *)
(* included, ends it, moves on to a later symbol, to a later stage of the   *)
(* same symbol or to a later page.  All three are bounded, so no recovery   *)
(* takes for ever.  (next_start in the paging loop: the last candle's open  *)
(* time and a minute.)                                                      *)
RecoveryMakesProgress ==
    [][ (\/ Recover \/ FetchPageWithGap \/ RecoveryStepFails
         \/ RecoveryBookkeepingFails)
        => pc' \notin RecoveryPCs \/ MovesOn ]_vars

(* A run being worked on ends, or the process does.  Holds unless the       *)
(* database refuses to record the end; a run that a dead process left       *)
(* RUNNING stays so.  (The try and its handler in _recover_candles.)        *)
RunsSettle ==
    \A i \in 1 .. NumSymbols * (MaxFaults + MaxMinute) :
        LET status(st) == i \in DOMAIN runs /\ runs[i].status = st
            working    == i = Len(runs) /\ pc \in {"page", "verify", "fail"}
        IN  (working /\ status("RUNNING")) ~>
               (status("SUCCESS") \/ status("FAILED") \/ pc = "down")

(* Whatever fails other than the database, the collector is in service      *)
(* again: run_forever retries and the process is restarted.                 *)
ReturnsToService == (~InService) ~> InService

(* Every step of the collector is a step of the contract its readers rely   *)
(* on.                                                                      *)
Contract == INSTANCE CandleContract WITH
    Candles <- Symbols \X Minutes,
    opened  <- {c \in Symbols \X Minutes : candles[c[1]][c[2]].stored},
    closed  <- {c \in Symbols \X Minutes : candles[c[1]][c[2]].is_closed},
    vouched <- {c \in Symbols \X Minutes : \E i \in DOMAIN runs :
                   /\ runs[i].status = "SUCCESS"
                   /\ runs[i].symbol = c[1]
                   /\ c[2] \in runs[i].range_start .. runs[i].range_end}

ImplementsContract == Contract!ContractSpec

-----------------------------------------------------------------------------
(* What the invariants above rest on.                                      *)

(* The run being worked on is the last of the history, and the locals of    *)
(* _recover_candles describe it: its symbol, its type, its end, a coverage  *)
(* window that contains it and that has ended, and the status its handler   *)
(* will find.  (run outlives the session that created it.)                  *)
RunMatchesJob ==
    /\ pc \in RecoveryPCs =>
          /\ job.symbol \in Symbols
          /\ job.type \in RunTypes
          /\ job.cover <= job.next
          /\ job.cover <= job.last
          /\ job.last < now
          /\ job.next <= job.last + 1
    /\ pc \notin RecoveryPCs => job = NoJob
    /\ pc = "page" => job.next <= job.last
    /\ pc \in {"page", "verify", "publish", "fail"} =>
          /\ Len(runs) > 0
          /\ runs[Len(runs)].symbol = job.symbol
          /\ runs[Len(runs)].range_end = job.last
          /\ job.cover <= runs[Len(runs)].range_start
    /\ pc \in {"page", "verify"} => runs[Len(runs)].status = "RUNNING"
    /\ pc = "publish" => runs[Len(runs)].status = "SUCCESS"
    /\ pc = "fail" => runs[Len(runs)].status \in {"RUNNING", "SUCCESS"}

-----------------------------------------------------------------------------
(* What the documents say and the code does not do.                        *)

(* README.md:61: a completed row holds the values of the closing event.     *)
(* Whatever fails, a closed row has them, or the closing event that brings  *)
(* them is still on its way.                                                *)
ClosedRowsGetFinalValues ==
    \A s \in Symbols, m \in Minutes :
        Closed(s, m) => candles[s][m].final \/ Arriving(s, m)

(* collector.py:83: the reader starts first and buffers events while REST   *)
(* recovery runs.  While in service every completed minute of this          *)
(* connection has a closed candle or a closing event on its way.            *)
RecoveryMeetsStream ==
    (InService /\ reader = "streaming") => \A s \in Symbols :
        \A m \in since .. now - 1 : Closed(s, m) \/ Arriving(s, m)

(* README.md:435: a lost connection is retried.  A collector in the         *)
(* disconnect handler reconnects.                                           *)
DisconnectIsRetried == (pc = "disconnect") ~> (reader = "connecting")
=============================================================================
