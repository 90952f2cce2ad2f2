-------------------------- MODULE MarketRepository --------------------------
(***************************************************************************)
(* The four PostgreSQL tables of the ETL and the statements that write     *)
(* them.  There is no state here: a statement is an operator from the      *)
(* table it reads to the table it leaves, and the Collector decides which  *)
(* statements commit together.                                             *)
(*                                                                         *)
(* A symbol is its position in settings.symbols, which is the order of     *)
(* recovery.  A minute m stands for the candle that opens at minute m.     *)
(* Event times count half minutes, so that an update sent during minute m  *)
(* (2m + 1) differs from the opening of m (2m) and from its end (2m + 2).  *)
(***************************************************************************)
EXTENDS Integers, Sequences

CONSTANTS NumSymbols,   \* how many symbols the deployment collects
          MaxMinute     \* bound: the last minute the model's clock reaches

ASSUME RepositoryAssumption == NumSymbols \in Nat \ {0} /\ MaxMinute \in Nat

Symbols == 1 .. NumSymbols
Minutes == 0 .. MaxMinute
Sources == {"KLINE_1M", "AGG_TRADE"}
NoTime  == -1

(* What the stream yields: a Candle or a Trade.  A trade's id is its minute *)
(* (one trade per minute is enough to tell batches apart).                  *)
Event == [kind : {"candle", "trade"}, symbol : Symbols, minute : Minutes,
          is_closed : BOOLEAN]

EventTime(e) ==
    IF e.kind = "candle" /\ e.is_closed THEN 2 * (e.minute + 1) ELSE 2 * e.minute + 1

(***************************************************************************)
(* market_candles.  "final" says that the OHLCV columns hold the values of *)
(* the completed minute, and not those of an update sent while it was      *)
(* open: the exchange's closing event and its REST candles carry them.     *)
(***************************************************************************)
CandleRow == [stored : BOOLEAN, is_closed : BOOLEAN, final : BOOLEAN]
NoCandle  == [stored |-> FALSE, is_closed |-> FALSE, final |-> FALSE]

ClosedOpenTimes(candles, s, start, last) ==
    {m \in start .. last : candles[s][m].is_closed}

(* Mutant: the oldest update is kept instead of the newest. *)
KeepOldestUpdate(batch) ==
    {batch[i] : i \in {j \in DOMAIN batch :
        /\ batch[j].kind = "candle"
        /\ \A k \in DOMAIN batch :
              (k < j /\ batch[k].kind = "candle") =>
                 <<batch[k].symbol, batch[k].minute>>
                    # <<batch[j].symbol, batch[j].minute>>}}

(* The newest update of each candle identity of a batch. *)
DeduplicateCandles(batch) ==
    {batch[i] : i \in {j \in DOMAIN batch :
        /\ batch[j].kind = "candle"
        /\ \A k \in DOMAIN batch :
              (k > j /\ batch[k].kind = "candle") =>
                 <<batch[k].symbol, batch[k].minute>>
                    # <<batch[j].symbol, batch[j].minute>>}}

(* Mutant: is_closed is replaced like the other columns. *)
UpsertReopening(candles, rows) ==
    [s \in Symbols |-> [m \in Minutes |->
        LET arrived == {r.is_closed : r \in {x \in rows : x.symbol = s /\ x.minute = m}}
        IN  IF arrived = {}
            THEN candles[s][m]
            ELSE [stored |-> TRUE, is_closed |-> TRUE \in arrived,
                  final |-> TRUE \in arrived]]]

(* ON CONFLICT DO UPDATE: the values of the new row replace those of the    *)
(* old one, whatever their age; only is_closed is OR-ed with the old one.   *)
UpsertCandles(candles, rows) ==
    [s \in Symbols |-> [m \in Minutes |->
        LET excluded == {r \in rows : r.symbol = s /\ r.minute = m}
            arrived  == \E r \in excluded : r.is_closed
        IN  IF excluded = {}
            THEN candles[s][m]
            ELSE [stored    |-> TRUE,
                  is_closed |-> candles[s][m].is_closed \/ arrived,
                  final     |-> arrived]]]

(* aggregate_trades: ON CONFLICT DO NOTHING on the trade's identity. *)
InsertTrades(trades, batch) ==
    trades \cup {<<batch[i].symbol, batch[i].minute>> :
                    i \in {j \in DOMAIN batch : batch[j].kind = "trade"}}

(***************************************************************************)
(* ingestion_checkpoints, one row per symbol and source.  last_error and   *)
(* the wall-clock columns are left out: nothing reads them back.           *)
(***************************************************************************)
Statuses   == {"ABSENT", "LIVE", "RECOVERED", "RECONNECTING", "FAILED"}
NoCheckpoint == [status |-> "ABSENT", last_event_time |-> NoTime,
                 reconnect_count |-> 0]

(* coalesce keeps the old event time when none is given; the count is kept, *)
(* or incremented from what the table holds.                                *)
UpdateCheckpoint(row, status, time, increment) ==
    [status          |-> status,
     last_event_time |-> IF time = NoTime THEN row.last_event_time ELSE time,
     reconnect_count |-> row.reconnect_count + (IF increment THEN 1 ELSE 0)]

(***************************************************************************)
(* ingestion_runs, in the order of their creation.                         *)
(***************************************************************************)
RunTypes == {"BACKFILL", "RECONCILIATION"}
Run == [symbol : Symbols, run_type : RunTypes,
        status : {"RUNNING", "SUCCESS", "FAILED"},
        range_start : Minutes, range_end : Minutes]

CreateRun(runs, s, type, start, last) ==
    Append(runs, [symbol |-> s, run_type |-> type, status |-> "RUNNING",
                  range_start |-> start, range_end |-> last])

(* Mutant: UPDATE ... WHERE status = 'RUNNING' instead of the run's id. *)
FinishEveryRunning(runs, i, status) ==
    [j \in DOMAIN runs |-> IF j = i \/ runs[j].status = "RUNNING"
                           THEN [runs[j] EXCEPT !.status = status]
                           ELSE runs[j]]

FinishRun(runs, i, status) == [runs EXCEPT ![i].status = status]
=============================================================================
