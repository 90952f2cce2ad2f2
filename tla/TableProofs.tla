------------------------------ MODULE TableProofs ------------------------------
(***************************************************************************)
(* What a reader may believe of the tables, whatever fails: candles only   *)
(* advance and the run history vouches only for closed ones, and the       *)
(* checkpoint rows count the same reconnections and name only events whose *)
(* data are in the tables.                                                 *)
(***************************************************************************)
EXTENDS CollectorProofs

USE RepositoryAssumption, CollectorAssumption

-----------------------------------------------------------------------------
(* The statements, apart from any behaviour.                                *)

Tables == [Symbols -> [Minutes -> CandleRow]]

(* An INSERT never names a candle identity twice, which PostgreSQL would    *)
(* reject, and what it keeps of an identity is the update received last:    *)
(* repository.py:12 and the comment at repository.py:44.                    *)
THEOREM OneRowPerCandle ==
    ASSUME NEW events \in Seq(Event), NEW i \in DOMAIN events,
           events[i].kind = "candle"
    PROVE  \E newest \in DOMAIN events :
               /\ i <= newest
               /\ {r \in DeduplicateCandles(events) :
                      r.symbol = events[i].symbol /\ r.minute = events[i].minute}
                  = {events[newest]}
<1> DEFINE Same(k) == /\ events[k].kind = "candle"
                      /\ events[k].symbol = events[i].symbol
                      /\ events[k].minute = events[i].minute
           same == {k \in DOMAIN events : Same(k)}
<1>1. DOMAIN events = 1 .. Len(events) /\ Len(events) \in Nat
  OBVIOUS
<1>2. i \in same /\ same \in SUBSET (1 .. Len(events))
  BY <1>1
<1>3. PICK newest \in same : \A k \in same : k <= newest
  <2> HIDE DEF same
  <2> QED
    BY <1>1, <1>2, GreatestExists
<1>4. newest \in 1 .. Len(events) /\ i <= newest /\ Same(newest)
  BY <1>1, <1>2, <1>3
<1>5. events[newest] \in DeduplicateCandles(events)
  <2>1. \A k \in DOMAIN events :
           (k > newest /\ events[k].kind = "candle") =>
              <<events[k].symbol, events[k].minute>>
                 # <<events[newest].symbol, events[newest].minute>>
    BY <1>1, <1>3, <1>4
  <2> QED
    BY <1>1, <1>4, <2>1 DEF DeduplicateCandles
<1>6. ASSUME NEW r \in DeduplicateCandles(events),
             r.symbol = events[i].symbol, r.minute = events[i].minute
      PROVE  r = events[newest]
  <2>1. PICK j \in DOMAIN events :
           /\ r = events[j] /\ events[j].kind = "candle"
           /\ \A k \in DOMAIN events :
                 (k > j /\ events[k].kind = "candle") =>
                    <<events[k].symbol, events[k].minute>>
                       # <<events[j].symbol, events[j].minute>>
    BY DEF DeduplicateCandles
  <2>2. j <= newest
    BY <1>3, <1>6, <2>1
  <2>3. ~ newest > j
    BY <1>1, <1>4, <1>6, <2>1
  <2> QED
    BY <1>1, <1>4, <2>1, <2>2, <2>3
<1> QED
  BY <1>1, <1>4, <1>5, <1>6

(* Storing is idempotent: the rows of a page, or the trades of a batch, that *)
(* are stored once more leave the tables as they are, which is why a page may *)
(* be fetched and stored again after a crash (docs/project-rules.md:39).     *)
THEOREM StoringAgainChangesNothing ==
    ASSUME NEW table \in Tables, NEW rows \in SUBSET Event,
           NEW stored, NEW events \in Seq(Event)
    PROVE  /\ UpsertCandles(UpsertCandles(table, rows), rows) = UpsertCandles(table, rows)
           /\ InsertTrades(InsertTrades(stored, events), events) = InsertTrades(stored, events)
<1> DEFINE once  == UpsertCandles(table, rows)
           twice == UpsertCandles(once, rows)
<1>1. ASSUME NEW s \in Symbols, NEW m \in Minutes
      PROVE  twice[s][m] = once[s][m]
  <2> DEFINE excluded == {r \in rows : r.symbol = s /\ r.minute = m}
             arrived  == \E r \in excluded : r.is_closed
  <2>1. CASE excluded = {}
    BY <2>1 DEF UpsertCandles
  <2>2. CASE excluded # {}
    <3>1. once[s][m] = [stored |-> TRUE, is_closed |-> table[s][m].is_closed \/ arrived,
                        final |-> arrived]
      BY <2>2 DEF UpsertCandles
    <3>2. twice[s][m] = [stored |-> TRUE, is_closed |-> once[s][m].is_closed \/ arrived,
                         final |-> arrived]
      BY <2>2 DEF UpsertCandles
    <3> HIDE DEF once, twice, arrived
    <3>3. once[s][m].is_closed = (table[s][m].is_closed \/ arrived)
      BY <3>1
    <3>4. (once[s][m].is_closed \/ arrived) = (table[s][m].is_closed \/ arrived)
      BY <3>3, Zenon
    <3> QED
      BY <3>1, <3>2, <3>4, Zenon
  <2> QED
    BY <2>1, <2>2
<1>2. once = [s \in Symbols |-> [m \in Minutes |-> once[s][m]]]
  BY DEF UpsertCandles
<1>3. twice = [s \in Symbols |-> [m \in Minutes |-> twice[s][m]]]
  BY DEF UpsertCandles
<1>4. twice = once
  <2> HIDE DEF once, twice
  <2> QED
    BY <1>1, <1>2, <1>3
<1>5. InsertTrades(InsertTrades(stored, events), events) = InsertTrades(stored, events)
  BY DEF InsertTrades
<1> QED
  BY <1>4, <1>5

(* Completed candles may arrive in any order: a recovery page and a batch of *)
(* closing events leave the same rows whichever is stored first.  This is    *)
(* what fails as soon as an open update is among them (v_final).             *)
THEOREM CompletedCandlesCommute ==
    ASSUME NEW table \in Tables, NEW page \in SUBSET Event, NEW finals \in SUBSET Event,
           \A r \in page \cup finals : r.is_closed
    PROVE  UpsertCandles(UpsertCandles(table, page), finals)
           = UpsertCandles(UpsertCandles(table, finals), page)
<1> DEFINE completed == [stored |-> TRUE, is_closed |-> TRUE, final |-> TRUE]
<1>1. ASSUME NEW base, NEW rows \in SUBSET Event, \A r \in rows : r.is_closed,
             NEW s \in Symbols, NEW m \in Minutes
      PROVE  UpsertCandles(base, rows)[s][m] =
                IF \E r \in rows : r.symbol = s /\ r.minute = m THEN completed ELSE base[s][m]
  <2> DEFINE excluded == {r \in rows : r.symbol = s /\ r.minute = m}
             arrived  == \E r \in excluded : r.is_closed
  <2>1. CASE excluded = {}
    BY <2>1 DEF UpsertCandles
  <2>2. CASE excluded # {}
    <3>1. UpsertCandles(base, rows)[s][m] =
             [stored |-> TRUE, is_closed |-> base[s][m].is_closed \/ arrived,
              final |-> arrived]
      BY <2>2 DEF UpsertCandles
    <3>2. arrived = TRUE /\ (base[s][m].is_closed \/ arrived) = TRUE
      BY <1>1, <2>2
    <3> HIDE DEF arrived
    <3> QED
      BY <2>2, <3>1, <3>2
  <2> QED
    BY <2>1, <2>2
<1>2. ASSUME NEW first \in SUBSET Event, NEW second \in SUBSET Event
      PROVE  LET both == UpsertCandles(UpsertCandles(table, first), second)
             IN  both = [s \in Symbols |-> [m \in Minutes |-> both[s][m]]]
  BY DEF UpsertCandles
<1> DEFINE pageFirst   == UpsertCandles(UpsertCandles(table, page), finals)
           finalsFirst == UpsertCandles(UpsertCandles(table, finals), page)
<1>3. ASSUME NEW s \in Symbols, NEW m \in Minutes
      PROVE  pageFirst[s][m] = finalsFirst[s][m]
  <2>1. (\A r \in page : r.is_closed) /\ (\A r \in finals : r.is_closed)
    OBVIOUS
  <2> HIDE DEF completed
  <2> QED
    BY <1>1, <2>1
<1>4. /\ pageFirst = [s \in Symbols |-> [m \in Minutes |-> pageFirst[s][m]]]
      /\ finalsFirst = [s \in Symbols |-> [m \in Minutes |-> finalsFirst[s][m]]]
  BY <1>2
<1> HIDE DEF pageFirst, finalsFirst
<1>5. pageFirst = finalsFirst
  BY <1>3, <1>4
<1> QED
  BY <1>5 DEF pageFirst, finalsFirst

-----------------------------------------------------------------------------
(* The candle contract.                                                     *)

Identities == Symbols \X Minutes
Opened  == {c \in Identities : candles[c[1]][c[2]].stored}
Shut    == {c \in Identities : candles[c[1]][c[2]].is_closed}
Vouched == {c \in Identities : \E i \in DOMAIN runs :
               /\ runs[i].status = "SUCCESS"
               /\ runs[i].symbol = c[1]
               /\ c[2] \in runs[i].range_start .. runs[i].range_end}

(* A closed candle has a row. *)
ClosedIsStored ==
    \A s \in Symbols, m \in Minutes : candles[s][m].is_closed => candles[s][m].stored

ContractInv == Typed /\ SuccessMeansCovered /\ ClosedIsStored

LEMMA ClosedIsStoredStep ==
    ASSUME Typed, ClosedIsStored, [Next]_vars
    PROVE  ClosedIsStored'
<1>1. candles \in [Symbols -> [Minutes -> CandleRow]]
  BY DEF Typed, TypeOK
<1>2. CASE UNCHANGED candles
  BY <1>2 DEF ClosedIsStored
<1>3. CASE \E rows : candles' = UpsertCandles(candles, rows)
  <2>1. PICK rows : candles' = UpsertCandles(candles, rows)
    BY <1>3
  <2>2. ASSUME NEW s \in Symbols, NEW m \in Minutes
        PROVE  candles'[s][m].stored \/ candles'[s][m] = candles[s][m]
    BY <2>1 DEF UpsertCandles
  <2> QED
    BY <2>2 DEF ClosedIsStored
<1> QED
  BY <1>2, <1>3, WhoWrites

LEMMA ContractInvariant == Spec => []ContractInv
<1>1. Init => ContractInv
  BY TypedInit DEF Init, NoCandle, ContractInv, SuccessMeansCovered, ClosedIsStored
<1>2. ContractInv /\ [Next]_vars => ContractInv'
  BY TypedStep, SuccessStep, ClosedIsStoredStep DEF ContractInv
<1> QED
  BY <1>1, <1>2, PTL DEF Spec

(* What a SUCCESS vouches for is closed. *)
LEMMA VouchedIsClosed ==
    ASSUME ContractInv
    PROVE  Vouched \subseteq Shut
  BY DEF ContractInv, SuccessMeansCovered, Closed, Vouched, Shut, Identities

(* A step that leaves the runs alone stores rows. *)
LEMMA StepsThatStore ==
    ASSUME ContractInv, [Next]_vars, UNCHANGED runs
    PROVE  /\ Opened \subseteq Opened' /\ Opened' \subseteq Identities
           /\ Shut \subseteq Shut' /\ Shut' \subseteq Opened'
           /\ UNCHANGED Vouched
<1>1. Typed
  BY DEF ContractInv
<1>2. \A s \in Symbols, m \in Minutes :
          /\ candles[s][m].is_closed => candles'[s][m].is_closed
          /\ candles[s][m].stored => candles'[s][m].stored
  BY <1>1, CandlesOnlyAdvance
<1>3. ClosedIsStored'
  BY <1>1, ClosedIsStoredStep DEF ContractInv
<1>4. Opened \subseteq Opened' /\ Opened' \subseteq Identities /\ Shut \subseteq Shut'
  BY <1>2 DEF Opened, Shut, Identities
<1>5. Shut' \subseteq Opened'
  BY <1>3 DEF Opened, Shut, Identities, ClosedIsStored
<1>6. UNCHANGED Vouched
  BY DEF Vouched
<1> QED
  BY <1>4, <1>5, <1>6

(* A step that changes the runs leaves the rows alone, and either vouches   *)
(* for closed candles or takes back what it vouched for.                    *)
LEMMA StepsThatVouch ==
    ASSUME ContractInv, [Next]_vars, ~ UNCHANGED runs
    PROVE  /\ UNCHANGED <<Opened, Shut>>
           /\ \/ Vouched \subseteq Vouched' /\ Vouched' \subseteq Shut
              \/ Vouched' \subseteq Vouched
<1>1. Typed
  BY DEF ContractInv
<1>2. UNCHANGED candles /\ (RecordSuccessfulReconciliation \/ OpenRun
                            \/ VerifyAndFinish \/ RecordFailure)
  BY WhoWrites
<1>3. UNCHANGED <<Opened, Shut>>
  BY <1>2 DEF Opened, Shut
<1>4. Vouched' \subseteq Shut
  <2>1. ContractInv'
    BY <1>1, TypedStep, SuccessStep, ClosedIsStoredStep DEF ContractInv
  <2> QED
    BY <1>3, <2>1, VouchedIsClosed DEF ContractInv, SuccessMeansCovered, Closed, Vouched, Shut, Identities
<1>5. /\ runs \in Seq(Run) /\ Len(runs) \in Nat /\ DOMAIN runs = 1 .. Len(runs)
      /\ runs' \in Seq(Run) /\ DOMAIN runs' = 1 .. Len(runs')
  BY <1>1, TypedStep DEF Typed, TypeOK
<1>6. CASE RecordFailure
  <2>1. runs' = FinishRun(runs, Len(runs), "FAILED")
    BY <1>6 DEF RecordFailure
  <2>2. Len(runs) \in DOMAIN runs
    BY <1>1, <1>5, <1>6 DEF RecordFailure, Typed, RunMatchesJob
  <2>3. /\ Len(runs') = Len(runs)
        /\ \A i \in DOMAIN runs : i # Len(runs) => runs'[i] = runs[i]
        /\ runs'[Len(runs)].status = "FAILED"
    <3>1. runs[Len(runs)] \in Run
      BY <1>5, <2>2
    <3> QED
      BY <1>5, <2>1, <2>2, <3>1 DEF FinishRun, Run
  <2>4. \A i \in DOMAIN runs' : runs'[i].status = "SUCCESS" => i \in DOMAIN runs /\ runs'[i] = runs[i]
    BY <1>5, <2>3
  <2>5. Vouched' \subseteq Vouched
    BY <2>4 DEF Vouched
  <2> QED
    BY <1>3, <2>5
<1>7. CASE RecordSuccessfulReconciliation \/ OpenRun \/ VerifyAndFinish
  <2>1. ASSUME NEW i \in DOMAIN runs, runs[i].status = "SUCCESS"
        PROVE  i \in DOMAIN runs' /\ runs'[i] = runs[i]
    <3>1. i \in DOMAIN runs'
      BY <1>1, <1>5, StepIsHistoryStep DEF HistoryStep
    <3>2. CASE RecordSuccessfulReconciliation
      BY <1>1, <1>5, <3>2, RecordedRun
    <3>3. CASE OpenRun
      <4>1. PICK run : runs' = Append(runs, run)
        BY <3>3 DEF OpenRun, CreateRun
      <4>2. runs \in Seq(Run) /\ i \in 1 .. Len(runs)
        BY <1>5
      <4>3. runs'[i] = runs[i]
        BY <4>1, <4>2
      <4> QED
        BY <3>1, <4>3
    <3>4. CASE VerifyAndFinish
      <4>1. runs[Len(runs)].status = "RUNNING"
        BY <1>1, <3>4 DEF VerifyAndFinish, Typed, RunMatchesJob
      <4>2. i # Len(runs)
        BY <2>1, <4>1
      <4>3. runs' = FinishRun(runs, Len(runs), "SUCCESS")
        BY <3>4 DEF VerifyAndFinish
      <4> QED
        BY <1>5, <3>1, <4>2, <4>3 DEF FinishRun
    <3> QED
      BY <1>7, <3>1, <3>2, <3>3, <3>4
  <2>2. Vouched \subseteq Vouched'
    BY <2>1 DEF Vouched
  <2> QED
    BY <1>3, <1>4, <2>2
<1> QED
  BY <1>2, <1>6, <1>7

(* Every behaviour of the collector, with any number of symbols and any     *)
(* faults, is a behaviour the contract allows: no row is removed, no closed *)
(* candle reopens, and nothing unclosed is vouched for.                     *)
THEOREM CollectorImplementsContract == Spec => ImplementsContract
<1>1. Init => Contract!ContractInit
  <2> SUFFICES ASSUME Init PROVE Contract!ContractInit
    OBVIOUS
  <2>1. Opened = {} /\ Shut = {} /\ Vouched = {}
    BY DEF Init, NoCandle, Opened, Shut, Vouched, Identities
  <2> QED
    BY <2>1 DEF Contract!ContractInit, Opened, Shut, Vouched, Identities
<1>2. ContractInv /\ [Next]_vars =>
         [Contract!ContractNext]_<<Opened, Shut, Vouched>>
  <2> SUFFICES ASSUME ContractInv, [Next]_vars
               PROVE  Contract!ContractNext
    OBVIOUS
  <2>1. CASE UNCHANGED runs
    BY <2>1, StepsThatStore
    DEF Contract!ContractNext, Contract!Store, Opened, Shut, Vouched, Identities
  <2>2. CASE ~ UNCHANGED runs
    BY <2>2, StepsThatVouch
    DEF Contract!ContractNext, Contract!Vouch, Contract!Withdraw, Opened, Shut, Vouched, Identities
  <2> QED
    BY <2>1, <2>2
<1> QED
  BY <1>1, <1>2, ContractInvariant, PTL
  DEF Spec, ImplementsContract, Contract!ContractSpec, Opened, Shut, Vouched, Identities

-----------------------------------------------------------------------------
(* The checkpoints.                                                         *)

Count(s, src) == checkpoints[s][src].reconnect_count

(* Who changes the checkpoint table, and who goes to sleep before a retry.  *)
LEMMA WhoChecks ==
    ASSUME [Next]_vars
    PROVE  /\ \/ UNCHANGED checkpoints
              \/ MarkAllDisconnected \/ MarkAllLive \/ PersistLiveBatch
              \/ VerifyAndFinish \/ RecordFailure
           /\ pc' = "backoff" =>
                 MarkAllDisconnected \/ (pc = "backoff" /\ UNCHANGED checkpoints)
<1> USE DEF database, stream, history
<1>1. CASE Tick \/ Connect \/ StreamFails \/ UNCHANGED vars
           \/ \E s \in Symbols : ReceiveUpdate(s) \/ ReceiveFinal(s) \/ ReceiveTrade(s)
  BY <1>1 DEF Tick, Connect, StreamFails, vars, ReceiveUpdate, ReceiveFinal, ReceiveTrade,
              Receive
<1>2. CASE Start \/ Reconnect \/ Crash \/ NoticeStreamEnd \/ LiveStepFails
           \/ MarkAllDisconnectedFails
  BY <1>2 DEF Start, Reconnect, BeginConnection, Crash, NoticeStreamEnd, LiveStepFails,
              Teardown, MarkAllDisconnectedFails
<1>3. CASE StartReconciliation \/ TakeEvent \/ GatherBatch \/ Announce
  BY <1>3 DEF StartReconciliation, TakeEvent, GatherBatch, Announce
<1>4. CASE MarkAllLive \/ PersistLiveBatch \/ VerifyAndFinish
  BY <1>4 DEF MarkAllLive, PersistLiveBatch, VerifyAndFinish
<1>5. CASE RecordFailure \/ RecoveryBookkeepingFails
  BY <1>5 DEF RecordFailure, RecoveryBookkeepingFails, RecoveryRaised, Teardown, NextSymbol
<1>6. CASE SkipCovered \/ RecordSuccessfulReconciliation \/ PublishBackfill
  BY <1>6 DEF SkipCovered, RecordSuccessfulReconciliation, PublishBackfill, NextSymbol
<1>7. CASE OpenRun \/ FetchPage \/ FetchPageWithGap \/ FindIncomplete \/ RecoveryStepFails
  BY <1>7 DEF OpenRun, FetchPage, FetchPageWithGap, StorePage, FindIncomplete,
              RecoveryStepFails
<1>8. CASE MarkAllDisconnected
  BY <1>8
<1> QED
  BY <1>1, <1>2, <1>3, <1>4, <1>5, <1>6, <1>7, <1>8 DEF Next, Recover, GoOn, Fault

(* Only _mark_all_disconnected changes a count. *)
LEMMA CountsStay ==
    ASSUME Typed, [Next]_vars, ~ MarkAllDisconnected,
           NEW s \in Symbols, NEW src \in Sources
    PROVE  Count(s, src)' = Count(s, src)
<1>1. checkpoints[s][src].reconnect_count \in Nat
  BY DEF Typed, TypeOK
<1>2. ASSUME NEW status, NEW time
      PROVE  UpdateCheckpoint(checkpoints[s][src], status, time, FALSE).reconnect_count
                = checkpoints[s][src].reconnect_count
  BY <1>1 DEF UpdateCheckpoint
<1>3. CASE UNCHANGED checkpoints
  BY <1>3 DEF Count
<1>4. CASE MarkAllLive
  BY <1>2, <1>4 DEF MarkAllLive, Count
<1>5. CASE PersistLiveBatch
  <2>1. checkpoints'[s][src] = LiveCheckpoint(checkpoints[s][src], EventsOf(s, src))
    BY <1>5 DEF PersistLiveBatch
  <2> QED
    BY <1>2, <2>1 DEF LiveCheckpoint, Count
<1>6. CASE VerifyAndFinish \/ RecordFailure
  <2>1. PICK status, time :
           checkpoints' = [checkpoints EXCEPT ![job.symbol]["KLINE_1M"] =
                              UpdateCheckpoint(@, status, time, FALSE)]
    BY <1>6 DEF VerifyAndFinish, RecordFailure
  <2>2. checkpoints \in [Symbols -> [Sources -> CheckpointRow]]
    BY DEF Typed, TypeOK, CheckpointRow
  <2>3. CASE s = job.symbol /\ src = "KLINE_1M"
    BY <1>2, <2>1, <2>2, <2>3 DEF Count
  <2>4. CASE ~ (s = job.symbol /\ src = "KLINE_1M")
    BY <2>1, <2>2, <2>4 DEF Count
  <2> QED
    BY <2>3, <2>4
<1> QED
  BY <1>3, <1>4, <1>5, <1>6, WhoChecks

(* All rows count the same reconnections and show RECONNECTING together     *)
(* while the collector waits, for any number of symbols and any faults.     *)
THEOREM ReconnectsAlwaysTogether == Spec => []ReconnectsAreRecordedTogether
<1>1. Init => ReconnectsAreRecordedTogether
  BY DEF Init, NoCheckpoint, ReconnectsAreRecordedTogether, Symbols, Sources
<1>2. ASSUME Typed, ReconnectsAreRecordedTogether, [Next]_vars
      PROVE  ReconnectsAreRecordedTogether'
  <2>1. 1 \in Symbols /\ "KLINE_1M" \in Sources
    BY DEF Symbols, Sources
  <2>2. CASE MarkAllDisconnected
    <3>1. ASSUME NEW s \in Symbols, NEW src \in Sources
          PROVE  /\ checkpoints'[s][src].reconnect_count = Count(s, src) + 1
                 /\ checkpoints'[s][src].status = "RECONNECTING"
      BY <2>2 DEF MarkAllDisconnected, UpdateCheckpoint, Count
    <3>2. \A s \in Symbols, src \in Sources : Count(s, src) = Count(1, "KLINE_1M")
      BY <1>2 DEF ReconnectsAreRecordedTogether, Count
    <3> QED
      BY <2>1, <3>1, <3>2 DEF ReconnectsAreRecordedTogether
  <2>3. CASE ~ MarkAllDisconnected
    <3>1. \A s \in Symbols, src \in Sources : Count(s, src)' = Count(s, src)
      BY <1>2, <2>3, CountsStay
    <3>2. pc' = "backoff" => pc = "backoff" /\ UNCHANGED checkpoints
      BY <1>2, <2>3, WhoChecks
    <3> QED
      BY <1>2, <2>1, <3>1, <3>2 DEF ReconnectsAreRecordedTogether, Count
  <2> QED
    BY <2>2, <2>3
<1> QED
  BY <1>1, <1>2, TypedInit, TypedStep, PTL DEF Spec

-----------------------------------------------------------------------------
(* The event times.                                                         *)

(* What a checkpoint's time claims of the tables. *)
CandleAt(s, t) ==
    \E m \in Minutes : candles[s][m].stored /\ 2 * m <= t /\ t <= 2 * m + 2

TradeAt(s, t) == \E m \in Minutes : <<s, m>> \in trades /\ t = 2 * m + 1

Backed(s, src, t) ==
    t = NoTime \/ IF src = "KLINE_1M" THEN CandleAt(s, t) ELSE TradeAt(s, t)

LEMMA BackedEverywhere ==
    CheckpointIsBacked <=>
        \A s \in Symbols, src \in Sources : Backed(s, src, checkpoints[s][src].last_event_time)
BY DEF CheckpointIsBacked, Backed, CandleAt, TradeAt, Sources

LEMMA TradesOnlyGrow ==
    ASSUME [Next]_vars
    PROVE  trades \subseteq trades'
<1> USE DEF database, stream, history
<1>1. CASE PersistLiveBatch
  BY <1>1 DEF PersistLiveBatch, InsertTrades
<1>2. trades' = trades \/ PersistLiveBatch
  BY DEF Next, Recover, GoOn, Fault, vars, Tick, Connect, Start, Reconnect, BeginConnection,
         ReceiveUpdate, ReceiveFinal, ReceiveTrade, Receive, StreamFails, Crash,
         MarkAllDisconnected, MarkAllDisconnectedFails, MarkAllLive, NoticeStreamEnd,
         StartReconciliation, TakeEvent, GatherBatch, Announce, LiveStepFails,
         SkipCovered, RecordSuccessfulReconciliation, OpenRun, FetchPage,
         FetchPageWithGap, VerifyAndFinish, FindIncomplete, PublishBackfill,
         RecoveryStepFails, RecordFailure, RecoveryBookkeepingFails
<1> QED
  BY <1>1, <1>2

(* Rows are never removed, so a time once backed stays backed. *)
LEMMA BackedStays ==
    ASSUME Typed, [Next]_vars, NEW s \in Symbols, NEW src \in Sources, NEW t,
           Backed(s, src, t)
    PROVE  Backed(s, src, t)'
<1>1. trades \subseteq trades'
  BY TradesOnlyGrow
<1>2. CandleAt(s, t) => CandleAt(s, t)'
  BY CandlesOnlyAdvance DEF CandleAt
<1>3. TradeAt(s, t) => TradeAt(s, t)'
  BY <1>1 DEF TradeAt
<1> QED
  BY <1>2, <1>3 DEF Backed

(* The time of an event of the batch is backed by the transaction that      *)
(* stores the batch: the newest event of a symbol is no older duplicate.    *)
LEMMA BatchIsStored ==
    ASSUME Typed, PersistLiveBatch, NEW s \in Symbols, NEW src \in Sources,
           NEW i \in EventsOf(s, src), \A j \in EventsOf(s, src) : j <= i,
           NEW t, t = EventTime(batch[i])
    PROVE  Backed(s, src, t)'
<1>1. /\ DOMAIN batch = 1 .. Len(batch) /\ Len(batch) \in Nat
      /\ i \in DOMAIN batch /\ batch[i] \in Event /\ batch[i].symbol = s
  BY DEF Typed, TypeOK, EventsOf
<1>2. batch[i].minute \in Minutes
  BY <1>1 DEF Event
<1>3. CASE src = "KLINE_1M"
  <2>1. batch[i].kind = "candle"
    BY <1>3 DEF EventsOf
  <2>2. \A k \in DOMAIN batch : (k > i /\ batch[k].kind = "candle") =>
            <<batch[k].symbol, batch[k].minute>> # <<batch[i].symbol, batch[i].minute>>
    BY <1>1, <1>3 DEF EventsOf
  <2>3. batch[i] \in DeduplicateCandles(batch)
    BY <1>1, <2>1, <2>2 DEF DeduplicateCandles
  <2>4. candles'[s][batch[i].minute].stored
    BY <1>1, <1>2, <2>3 DEF PersistLiveBatch, UpsertCandles
  <2>5. PICK m \in Minutes : m = batch[i].minute
    BY <1>2
  <2>6. 2 * m <= t /\ t <= 2 * m + 2
    BY <2>5 DEF EventTime, Minutes
  <2>7. CandleAt(s, t)'
    BY <2>4, <2>5, <2>6 DEF CandleAt
  <2> QED
    BY <1>3, <2>7 DEF Backed
<1>4. CASE src = "AGG_TRADE"
  <2>1. batch[i].kind = "trade"
    BY <1>4 DEF EventsOf
  <2>2. <<s, batch[i].minute>> \in trades'
    BY <1>1, <2>1 DEF PersistLiveBatch, InsertTrades
  <2>3. t = 2 * batch[i].minute + 1
    BY <2>1 DEF EventTime
  <2> QED
    BY <1>2, <1>4, <2>2, <2>3 DEF Backed, TradeAt
<1> QED
  BY <1>3, <1>4 DEF Sources

(* A batch leaves a row as it is, or writes the time of the newest event.   *)
LEMMA BatchCheckpoint ==
    ASSUME Typed, PersistLiveBatch, NEW s \in Symbols, NEW src \in Sources
    PROVE  \/ checkpoints'[s][src] = checkpoints[s][src]
           \/ \E i \in EventsOf(s, src) :
                 /\ \A j \in EventsOf(s, src) : j <= i
                 /\ checkpoints'[s][src].last_event_time = EventTime(batch[i])
<1> DEFINE events == EventsOf(s, src)
           newest == CHOOSE i \in events : \A j \in events : j <= i
<1>1. checkpoints'[s][src] = LiveCheckpoint(checkpoints[s][src], events)
  BY DEF PersistLiveBatch
<1>2. CASE events = {}
  BY <1>1, <1>2 DEF LiveCheckpoint
<1>3. CASE events # {}
  <2>1. /\ batch \in Seq(Event) /\ Len(batch) \in Nat /\ DOMAIN batch = 1 .. Len(batch)
        /\ events \in SUBSET (1 .. Len(batch))
    BY DEF Typed, TypeOK, EventsOf
  <2>2. newest \in events /\ \A j \in events : j <= newest
    BY <1>3, <2>1, GreatestExists
  <2>3. batch[newest] \in Event
    BY <2>1, <2>2
  <2>4. EventTime(batch[newest]) # NoTime
    BY <2>3 DEF EventTime, NoTime, Event, Minutes
  <2>5. checkpoints'[s][src] =
           UpdateCheckpoint(checkpoints[s][src], "LIVE", EventTime(batch[newest]), FALSE)
    BY <1>1, <1>3 DEF LiveCheckpoint
  <2> HIDE DEF newest, events
  <2>6. checkpoints'[s][src].last_event_time = EventTime(batch[newest])
    BY <2>4, <2>5 DEF UpdateCheckpoint
  <2> QED
    BY <2>2, <2>6 DEF events
<1> QED
  BY <1>2, <1>3

LEMMA BackedStep ==
    ASSUME Typed, ClosedIsStored, CheckpointIsBacked, [Next]_vars
    PROVE  CheckpointIsBacked'
<1> SUFFICES ASSUME NEW s \in Symbols, NEW src \in Sources,
                    NEW t, t = checkpoints'[s][src].last_event_time
             PROVE  Backed(s, src, t)'
  BY DEF CheckpointIsBacked, Backed, CandleAt, TradeAt, Sources
<1>1. ASSUME t = checkpoints[s][src].last_event_time
      PROVE  Backed(s, src, t)'
  BY <1>1, BackedEverywhere, BackedStays
<1>2. CASE UNCHANGED checkpoints
  BY <1>1, <1>2
<1>3. CASE MarkAllDisconnected \/ MarkAllLive
  BY <1>1, <1>3 DEF MarkAllDisconnected, MarkAllLive, UpdateCheckpoint
<1>4. CASE PersistLiveBatch
  BY <1>1, <1>4, BatchCheckpoint, BatchIsStored
<1>5. ASSUME NEW status, NEW time,
             checkpoints' = [checkpoints EXCEPT ![job.symbol]["KLINE_1M"] =
                                UpdateCheckpoint(@, status, time, FALSE)]
      PROVE  \/ t = checkpoints[s][src].last_event_time
             \/ s = job.symbol /\ src = "KLINE_1M" /\ t = time /\ time # NoTime
  <2>1. checkpoints \in [Symbols -> [Sources -> CheckpointRow]]
    BY DEF Typed, TypeOK, CheckpointRow
  <2> QED
    BY <1>5, <2>1 DEF UpdateCheckpoint
<1>6. CASE RecordFailure
  BY <1>1, <1>5, <1>6 DEF RecordFailure
<1>7. CASE VerifyAndFinish
  <2>1. /\ pc \in RecoveryPCs /\ candles' = candles
        /\ job.symbol \in Symbols /\ job.last \in Minutes /\ job.cover \in Minutes
        /\ job.cover <= job.last
    BY <1>7 DEF VerifyAndFinish, RecoveryPCs, Typed, RunMatchesJob, TypeOK
  <2>2. candles'[job.symbol][job.last].stored
    <3>1. job.last \in job.cover .. job.last
      BY <2>1 DEF Minutes
    <3> QED
      BY <1>7, <2>1, <3>1, FirstMissingOfJob DEF VerifyAndFinish, ClosedIsStored
  <2>3. ASSUME s = job.symbol, src = "KLINE_1M", t = 2 * job.last
        PROVE  Backed(s, src, t)'
    <3>1. PICK m \in Minutes : m = job.last
      BY <2>1
    <3>2. 2 * m <= t /\ t <= 2 * m + 2
      BY <2>3, <3>1 DEF Minutes
    <3> QED
      BY <2>2, <2>3, <3>1, <3>2 DEF Backed, CandleAt
  <2> QED
    BY <1>1, <1>5, <1>7, <2>3 DEF VerifyAndFinish
<1> QED
  BY <1>2, <1>3, <1>4, <1>6, <1>7, WhoChecks

(* A checkpoint never claims an event whose candle or trade is not in the   *)
(* tables, whichever batches and recoveries fail on the way.                *)
THEOREM CheckpointsAreBacked == Spec => []CheckpointIsBacked
<1>1. Init => CheckpointIsBacked
  BY DEF Init, NoCheckpoint, CheckpointIsBacked, Sources
<1>2. ContractInv /\ CheckpointIsBacked /\ [Next]_vars => CheckpointIsBacked'
  BY BackedStep DEF ContractInv
<1> QED
  BY <1>1, <1>2, ContractInvariant, PTL DEF Spec
=============================================================================
