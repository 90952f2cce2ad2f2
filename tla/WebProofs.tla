------------------------------ MODULE WebProofs ------------------------------
(***************************************************************************)
(* What the pages may be trusted for while the collector works, fails and  *)
(* comes back: for every number of symbols and minutes, every window and   *)
(* threshold, and under every kind of fault.                               *)
(***************************************************************************)
EXTENDS WebServer, TableProofs, ServiceProofs, FiniteSetTheorems

USE RepositoryAssumption, CollectorAssumption

(* What the collector guarantees to its readers. *)
TablesInv == ServiceInv /\ SuccessMeansCovered /\ ClosedIsStored /\ CheckpointIsBacked

LEMMA TablesInit == Init => TablesInv
<1>1. Init => SuccessMeansCovered /\ ClosedIsStored /\ CheckpointIsBacked
  BY DEF Init, NoCandle, NoCheckpoint, SuccessMeansCovered, ClosedIsStored,
         CheckpointIsBacked, Sources
<1> QED
  BY <1>1, ServiceInit DEF TablesInv

LEMMA TablesStep == TablesInv /\ [Next]_vars => TablesInv'
<1>1. TablesInv => Typed
  BY DEF TablesInv, ServiceInv
<1> QED
  BY <1>1, ServiceStep, SuccessStep, ClosedIsStoredStep, BackedStep DEF TablesInv

-----------------------------------------------------------------------------
(* The chart of the detail page.                                            *)

(* The chart is typed, ends before the minute that is open, and is true.    *)
ChartInv == DetailTypeOK /\ chart.last < now /\ UnshadedMinutesAreClosed

LEMMA ChartInit == Init /\ DetailInit => ChartInv
<1> SUFFICES ASSUME Init, DetailInit PROVE ChartInv
  OBVIOUS
<1>1. 0 \in Minutes /\ 1 \in Symbols /\ -1 \in -1 .. MaxMinute /\ now \in Nat
  BY DEF Minutes, Symbols, Init
<1>2. DetailTypeOK /\ chart.last < now
  BY <1>1 DEF DetailInit, NoChart, DetailTypeOK
<1>3. UnshadedMinutesAreClosed
  BY DEF DetailInit, UnshadedMinutesAreClosed
<1> QED
  BY <1>2, <1>3 DEF ChartInv

LEMMA ChartOfCollectorStep ==
    ASSUME Typed, ChartInv, [Next]_vars, UNCHANGED detail
    PROVE  ChartInv'
<1>1. DetailTypeOK'
  BY DEF ChartInv, DetailTypeOK, detail
<1>2. ASSUME page = "shown", NEW m \in (chart.start .. chart.last) \ chart.missing
      PROVE  candles'[chart.symbol][m].is_closed
  <2>1. candles[chart.symbol][m].is_closed
    BY <1>2 DEF ChartInv, UnshadedMinutesAreClosed, Closed
  <2>2. chart.symbol \in Symbols /\ chart.start \in Minutes /\ chart.last \in -1 .. MaxMinute
    BY DEF ChartInv, DetailTypeOK
  <2>3. m \in Minutes
    BY <2>2 DEF Minutes
  <2> QED
    BY <2>1, <2>2, <2>3, CandlesOnlyAdvance
<1>3. UnshadedMinutesAreClosed'
  BY <1>2 DEF UnshadedMinutesAreClosed, Closed, detail
<1>4. chart'.last < now'
  <2>1. chart.last \in Int /\ now \in Int /\ now' \in Int /\ now <= now'
    BY ClockStep DEF ChartInv, DetailTypeOK, Minutes
  <2> QED
    BY <2>1 DEF ChartInv, detail
<1> QED
  BY <1>1, <1>3, <1>4 DEF ChartInv

LEMMA ChartOfRequestStep ==
    ASSUME Typed, ChartInv, ReadDetail, UNCHANGED vars
    PROVE  ChartInv'
<1>1. now \in BootstrapMinutes .. MaxMinute /\ now' = now /\ candles' = candles
  BY DEF Typed, TypeOK, vars, database
<1>2. CASE \E s \in Symbols, window \in DetailWindows : AskDetail(s, window)
  <2>1. PICK s \in Symbols, window \in DetailWindows : AskDetail(s, window)
    BY <1>2
  <2>2. window \in 1 .. BootstrapMinutes + 1
    BY MarketDetailAssumption
  <2>3. now - (window - 1) \in Minutes /\ now - 1 \in -1 .. MaxMinute
    BY <1>1, <2>2 DEF Minutes
  <2>4. DetailTypeOK' /\ chart'.last < now'
    BY <1>1, <2>1, <2>3 DEF AskDetail, DetailTypeOK
  <2>5. UnshadedMinutesAreClosed'
    BY <2>1 DEF AskDetail, UnshadedMinutesAreClosed
  <2> QED
    BY <2>4, <2>5 DEF ChartInv
<1>3. CASE ReadChart
  <2>1. chart \in [symbol : Symbols, start : Minutes, last : -1 .. MaxMinute,
                   missing : SUBSET Minutes]
    BY DEF ChartInv, DetailTypeOK
  <2>2. chart' = [chart EXCEPT !.missing =
              {m \in chart.start .. chart.last : ~candles[chart.symbol][m].is_closed}]
    BY <1>3 DEF ReadChart, MissingCompletedOpenTimes, ClosedOpenTimes
  <2>3. \A m \in chart.start .. chart.last : m \in Minutes
    BY <2>1 DEF Minutes
  <2>4. DetailTypeOK' /\ chart'.last = chart.last
    BY <1>3, <2>1, <2>2, <2>3 DEF ReadChart, DetailTypeOK
  <2>5. UnshadedMinutesAreClosed'
    BY <1>1, <2>1, <2>2 DEF UnshadedMinutesAreClosed, Closed
  <2> QED
    BY <1>1, <2>4, <2>5 DEF ChartInv
<1>4. CASE CloseDetail
  <2>1. 0 \in Minutes /\ 1 \in Symbols /\ -1 \in -1 .. MaxMinute
    BY DEF Minutes, Symbols
  <2>2. DetailTypeOK' /\ chart'.last < now'
    BY <1>1, <1>4, <2>1 DEF CloseDetail, NoChart, DetailTypeOK
  <2>3. UnshadedMinutesAreClosed'
    BY <1>4 DEF CloseDetail, UnshadedMinutesAreClosed
  <2> QED
    BY <2>2, <2>3 DEF ChartInv
<1> QED
  BY <1>2, <1>3, <1>4 DEF ReadDetail

-----------------------------------------------------------------------------
(* The report of the overview.                                              *)

(* As much of the report's type as the truth of its parts rests on, and the *)
(* bounds of the request's clock, without which LastCompletedOpen would     *)
(* leave the minutes there are.                                             *)
ReportShape ==
    /\ asked \in Symbols
    /\ clock \in 0 .. 2 * MaxMinute + 1
    /\ report = [missing |-> report.missing, shown |-> report.shown,
                 observed |-> report.observed]
    /\ report.missing \in [Symbols -> Int]
    /\ reading \in Readings \/ report # BlankReport => 2 * BootstrapMinutes <= clock

ReportInv == ReportShape /\ NoneMissingStaysTrue /\ LiveHasFreshData

LEMMA BlankIsTrue ==
    ASSUME report = BlankReport
    PROVE  /\ report.missing \in [Symbols -> Int]
           /\ report = [missing |-> report.missing, shown |-> report.shown,
                        observed |-> report.observed]
           /\ NoneMissingStaysTrue /\ LiveHasFreshData
  BY DEF BlankReport, Unknown, NoneMissingStaysTrue, LiveHasFreshData, Sources

(* The minutes a report with a coverage speaks of. *)
LEMMA HourInMinutes ==
    ASSUME clock \in 0 .. 2 * MaxMinute + 1, 2 * BootstrapMinutes <= clock
    PROVE  /\ LastCompletedOpen \in Nat
           /\ LastCompletedOpen - (HourWindow - 1) \in Nat
           /\ LastCompletedOpen - (HourWindow - 1) .. LastCompletedOpen \subseteq Minutes
<1>1. PICK k \in Nat : k = clock \div 2 /\ BootstrapMinutes <= k /\ k <= MaxMinute
  OBVIOUS
<1>2. HourWindow \in 1 .. BootstrapMinutes
  BY DashboardAssumption
<1> QED
  BY <1>1, <1>2 DEF LastCompletedOpen, Minutes

LEMMA ReportOfCollectorStep ==
    ASSUME Typed, ReportInv, [Next]_vars, UNCHANGED request
    PROVE  ReportInv'
<1> USE DEF request
<1>1. ReportShape'
  BY DEF ReportInv, ReportShape, BlankReport, NoObservation, Unknown
<1>2. ASSUME NEW s \in Symbols, report.missing[s] = 0,
             NEW m \in LastCompletedOpen - (HourWindow - 1) .. LastCompletedOpen
      PROVE  candles'[s][m].is_closed
  <2>1. report # BlankReport
    BY <1>2 DEF BlankReport, Unknown
  <2>2. m \in Minutes
    BY <2>1, HourInMinutes DEF ReportInv, ReportShape
  <2>3. candles[s][m].is_closed
    BY <1>2 DEF ReportInv, NoneMissingStaysTrue, Closed
  <2> QED
    BY <2>2, <2>3, CandlesOnlyAdvance
<1>3. NoneMissingStaysTrue'
  BY <1>2 DEF NoneMissingStaysTrue, LastCompletedOpen, Closed
<1>4. LiveHasFreshData'
  BY CandlesOnlyAdvance, TradesOnlyGrow DEF ReportInv, LiveHasFreshData
<1> QED
  BY <1>1, <1>3, <1>4 DEF ReportInv

(* The coverage of a symbol, read from the rows as they are.                *)
LEMMA CoverageIsRead ==
    ASSUME ReportInv, ReadCoverage, UNCHANGED <<candles, trades>>
    PROVE  ReportInv'
<1>1. /\ asked \in Symbols /\ clock' = clock
      /\ clock \in 0 .. 2 * MaxMinute + 1 /\ 2 * BootstrapMinutes <= clock
  BY DEF ReportInv, ReportShape, ReadCoverage, Readings
<1> DEFINE last   == LastCompletedOpen
           closed == ClosedOpenTimes(candles, asked, last - (HourWindow - 1), last)
           count  == CountMissingCompletedMinutes(closed, last, HourWindow)
<1>2. report' = [report EXCEPT !.missing[asked] = count]
  BY DEF ReadCoverage
<1>3. last \in Nat /\ last - (HourWindow - 1) \in Nat /\ HourWindow \in Nat
  BY <1>1, HourInMinutes, DashboardAssumption
<1>4. count \in Int
  BY <1>3, CountIsNatural
<1>5. count = 0 => \A m \in last - (HourWindow - 1) .. last : candles[asked][m].is_closed
  <2>1. count = 0 <=> MissingCompletedOpenTimes(closed, last - (HourWindow - 1), last) = {}
    BY <1>3, DashboardAgreesWithCollector
  <2> QED
    BY <2>1 DEF MissingCompletedOpenTimes, ClosedOpenTimes
<1>6. last' = last
  BY <1>1 DEF LastCompletedOpen
<1> HIDE DEF count, last
<1>7. /\ report'.missing = [report.missing EXCEPT ![asked] = count]
      /\ report'.shown = report.shown /\ report'.observed = report.observed
      /\ report' = [missing |-> report'.missing, shown |-> report'.shown,
                    observed |-> report'.observed]
  BY <1>2 DEF ReportInv, ReportShape
<1>8. asked' \in Symbols
  BY <1>1 DEF ReadCoverage, NextMarket, Symbols
<1>9. ReportShape'
  BY <1>1, <1>4, <1>7, <1>8 DEF ReportInv, ReportShape
<1>10. NoneMissingStaysTrue'
  BY <1>1, <1>5, <1>6, <1>7 DEF ReportInv, ReportShape, NoneMissingStaysTrue, Closed, last
<1>11. LiveHasFreshData'
  BY <1>1, <1>7 DEF ReportInv, LiveHasFreshData, ReadCoverage
<1> QED
  BY <1>9, <1>10, <1>11 DEF ReportInv

(* A source shown as LIVE: its checkpoint is young, and backed by data.     *)
LEMMA CheckpointsAreRead ==
    ASSUME Typed, CheckpointIsBacked, ReportInv, ReadCheckpoints,
           UNCHANGED <<candles, trades>>
    PROVE  ReportInv'
<1>1. /\ asked' = asked /\ clock' = clock /\ clock \in Nat /\ 2 * BootstrapMinutes <= clock
      /\ StaleAge \in Nat
  BY DashboardAssumption DEF ReportInv, ReportShape, ReadCheckpoints, Readings
<1>2. /\ report'.missing = report.missing /\ report'.observed = report.observed
      /\ report'.shown = [s \in Symbols |-> [src \in Sources |->
            DeriveCheckpointStatus(checkpoints[s][src], clock)]]
      /\ report' = [missing |-> report'.missing, shown |-> report'.shown,
                    observed |-> report'.observed]
  BY DEF ReportInv, ReportShape, ReadCheckpoints
<1>3. ASSUME NEW s \in Symbols, NEW src \in Sources, report'.shown[s][src] = "LIVE"
      PROVE  \E t \in Int : /\ t = checkpoints[s][src].last_event_time
                            /\ t # NoTime /\ clock <= t + StaleAge
  <2> DEFINE row == checkpoints[s][src]
  <2>1. row.last_event_time \in Int
    BY DEF Typed, TypeOK
  <2>2. DeriveCheckpointStatus(row, clock) = "LIVE"
    BY <1>2, <1>3
  <2>3. row.status = "LIVE" /\ row.last_event_time # NoTime /\ ~ (EventAge(row, clock) > StaleAge)
    <3> HIDE DEF row
    <3> QED
      BY <2>2 DEF DeriveCheckpointStatus
  <2> QED
    BY <1>1, <2>1, <2>3 DEF EventAge
<1>4. ASSUME NEW s \in Symbols, report'.shown[s]["KLINE_1M"] = "LIVE"
      PROVE  \E m \in Minutes : candles[s][m].stored /\ 2 * m + 2 + StaleAge >= clock
  <2>1. PICK t \in Int : /\ t = checkpoints[s]["KLINE_1M"].last_event_time
                         /\ t # NoTime /\ clock <= t + StaleAge
    BY <1>3, <1>4 DEF Sources
  <2>2. PICK m \in Minutes : candles[s][m].stored /\ 2 * m <= t /\ t <= 2 * m + 2
    BY <2>1 DEF CheckpointIsBacked
  <2> QED
    BY <1>1, <2>1, <2>2 DEF Minutes
<1>5. ASSUME NEW s \in Symbols, report'.shown[s]["AGG_TRADE"] = "LIVE"
      PROVE  \E m \in Minutes : <<s, m>> \in trades /\ 2 * m + 1 + StaleAge >= clock
  <2>1. PICK t \in Int : /\ t = checkpoints[s]["AGG_TRADE"].last_event_time
                         /\ t # NoTime /\ clock <= t + StaleAge
    BY <1>3, <1>5 DEF Sources
  <2>2. PICK m \in Minutes : <<s, m>> \in trades /\ t = 2 * m + 1
    BY <2>1 DEF CheckpointIsBacked
  <2> QED
    BY <1>1, <2>1, <2>2 DEF Minutes
<1>6. LiveHasFreshData'
  BY <1>1, <1>4, <1>5 DEF LiveHasFreshData
<1>7. NoneMissingStaysTrue'
  BY <1>1, <1>2 DEF ReportInv, NoneMissingStaysTrue, LastCompletedOpen, Closed
<1>8. ReportShape'
  BY <1>1, <1>2 DEF ReportInv, ReportShape
<1> QED
  BY <1>6, <1>7, <1>8 DEF ReportInv

(* The other statements of a request, and the end of a page.                *)
LEMMA WatchIsRead ==
    ASSUME ReportInv, UNCHANGED <<candles, trades, now>>, asked' \in Symbols, clock' = clock,
           reading \in Readings, NEW field,
           report' = [report EXCEPT !.observed = field] \/ UNCHANGED report
    PROVE  ReportInv'
<1>1. clock \in 0 .. 2 * MaxMinute + 1 /\ 2 * BootstrapMinutes <= clock
  BY DEF ReportInv, ReportShape
<1>2. /\ report'.missing = report.missing /\ report'.shown = report.shown
      /\ report' = [missing |-> report'.missing, shown |-> report'.shown,
                    observed |-> report'.observed]
  BY DEF ReportInv, ReportShape
<1>3. NoneMissingStaysTrue' /\ LiveHasFreshData'
  BY <1>2 DEF ReportInv, NoneMissingStaysTrue, LiveHasFreshData, LastCompletedOpen, Closed
<1>4. ReportShape'
  BY <1>1, <1>2 DEF ReportInv, ReportShape
<1> QED
  BY <1>3, <1>4 DEF ReportInv

LEMMA ReportIsBlank ==
    ASSUME report' = BlankReport, asked' = 1, clock' \in 0 .. 2 * MaxMinute + 1,
           reading' \in Readings => 2 * BootstrapMinutes <= clock'
    PROVE  ReportInv'
<1>1. asked' \in Symbols
  BY DEF Symbols
<1>2. /\ report'.missing \in [Symbols -> Int]
      /\ report' = [missing |-> report'.missing, shown |-> report'.shown,
                    observed |-> report'.observed]
      /\ NoneMissingStaysTrue' /\ LiveHasFreshData'
  BY DEF BlankReport, Unknown, NoneMissingStaysTrue, LiveHasFreshData, Sources
<1>3. BlankReport' = BlankReport
  BY DEF BlankReport, NoObservation, Unknown
<1> QED
  BY <1>1, <1>2, <1>3 DEF ReportInv, ReportShape

LEMMA ReportOfRequestStep ==
    ASSUME Typed, CheckpointIsBacked, ReportInv, Read \/ CloseDashboard, UNCHANGED vars
    PROVE  ReportInv'
<1>1. /\ UNCHANGED <<candles, trades, now>> /\ asked \in Symbols
      /\ now \in BootstrapMinutes .. MaxMinute
  BY DEF vars, database, ReportInv, ReportShape, Typed, TypeOK
<1>2. CASE Ask
  BY <1>1, <1>2, ReportIsBlank DEF Ask
<1>3. CASE FailOnRunning \/ CloseDashboard
  BY <1>3, ReportIsBlank DEF FailOnRunning, CloseDashboard, Readings
<1>4. CASE ReadLatestCandle
  <2>1. asked' \in Symbols
    BY <1>1, <1>4 DEF ReadLatestCandle, NextMarket, Symbols
  <2> QED
    BY <1>1, <1>4, <2>1, WatchIsRead DEF ReadLatestCandle, Readings
<1>5. CASE ReadCoverage
  BY <1>1, <1>5, CoverageIsRead
<1>6. CASE ReadCheckpoints
  BY <1>1, <1>6, CheckpointsAreRead
<1>7. CASE ReadLatestRun \/ ReadLastSuccess \/ ReadLastFailure
  <2>1. \E field : report' = [report EXCEPT !.observed = field]
    BY <1>7 DEF ReadLatestRun, ReadLastSuccess, ReadLastFailure
  <2> QED
    BY <1>1, <1>7, <2>1, WatchIsRead DEF ReadLatestRun, ReadLastSuccess, ReadLastFailure, Readings
<1>8. CASE CountFailures
  <2>1. \E field : report' = [report EXCEPT !.observed = field]
    BY <1>8 DEF CountFailures
  <2>2. asked' \in Symbols
    BY <1>1, <1>8 DEF CountFailures, Symbols
  <2> QED
    BY <1>1, <1>8, <2>1, <2>2, WatchIsRead DEF CountFailures, Readings
<1> QED
  BY <1>2, <1>3, <1>4, <1>5, <1>6, <1>7, <1>8 DEF Read

LEMMA ReportInit == DashboardInit => ReportInv
<1> SUFFICES ASSUME DashboardInit PROVE ReportInv
  OBVIOUS
<1>1. asked \in Symbols /\ clock \in 0 .. 2 * MaxMinute + 1 /\ reading \notin Readings
  BY DEF DashboardInit, Symbols, Readings
<1> QED
  BY <1>1, BlankIsTrue DEF DashboardInit, ReportInv, ReportShape

-----------------------------------------------------------------------------
(* The server and its tab beside the collector.                             *)

(* No page is shown without what the collector promises: the page's part    *)
(* and the tables' part hold together.                                      *)
WebInv == TablesInv /\ ChartInv /\ ReportInv

LEMMA WebInitInv == WebInit => WebInv
  BY TablesInit, ChartInit, ReportInit DEF WebInit, DashboardInit, WebInv

LEMMA WebStep == WebInv /\ [WebNext]_<<vars, tab>> => WebInv'
<1> SUFFICES ASSUME WebInv, [WebNext]_<<vars, tab>> PROVE WebInv'
  OBVIOUS
<1>1. Typed /\ CheckpointIsBacked
  BY DEF WebInv, TablesInv, ServiceInv
<1>2. [Next]_vars
  BY DEF WebNext
<1>3. TablesInv'
  BY <1>2, TablesStep DEF WebInv
<1>4. /\ UNCHANGED detail \/ (ReadDetail /\ UNCHANGED vars)
      /\ UNCHANGED request \/ ((Read \/ CloseDashboard) /\ UNCHANGED vars)
  <2>1. CASE UNCHANGED tab
    BY <2>1 DEF tab
  <2>2. CASE (ServeDashboard \/ ServeDetail \/ ServeNotFound) /\ UNCHANGED vars
    BY <2>2 DEF ServeDashboard, ServeDetail, ServeNotFound, ReadDetail, Read
  <2> QED
    BY <2>1, <2>2 DEF WebNext
<1>5. ChartInv'
  BY <1>1, <1>2, <1>4, ChartOfCollectorStep, ChartOfRequestStep DEF WebInv
<1>6. ReportInv'
  BY <1>1, <1>2, <1>4, ReportOfCollectorStep, ReportOfRequestStep DEF WebInv
<1> QED
  BY <1>3, <1>5, <1>6 DEF WebInv

(* A minute that an open chart does not shade has a closed candle, however  *)
(* long the page is open and whatever the collector does meanwhile.         *)
THEOREM ChartStaysTruthful == WebSpec => []UnshadedMinutesAreClosed
<1>1. WebInv => UnshadedMinutesAreClosed
  BY DEF WebInv, ChartInv
<1> QED
  BY <1>1, WebInitInv, WebStep, PTL DEF WebSpec

(* An overview that reports no missing minute for a symbol stays right: the *)
(* minutes it looked at have closed candles while the page is open.         *)
THEOREM NoneMissingStays == WebSpec => []NoneMissingStaysTrue
<1>1. WebInv => NoneMissingStaysTrue
  BY DEF WebInv, ReportInv
<1> QED
  BY <1>1, WebInitInv, WebStep, PTL DEF WebSpec

(* A source shown as LIVE has a row in its own table that is no older than  *)
(* the threshold at the time of the request, whatever failed since.         *)
THEOREM LiveIsFresh == WebSpec => []LiveHasFreshData
<1>1. WebInv => LiveHasFreshData
  BY DEF WebInv, ReportInv
<1> QED
  BY <1>1, WebInitInv, WebStep, PTL DEF WebSpec

(* The health check and the overview never contradict each other about the  *)
(* checkpoints of one instant, as long as the health check's limit is at    *)
(* least the overview's, which the configuration enforces.                  *)
THEOREM HealthAgrees == WebSpec => []HealthAgreesWithDashboard
<1>1. ASSUME WebInv, NEW at \in {2 * now, 2 * now + 1}, NEW s \in Symbols, NEW src \in Sources
      PROVE  /\ DeriveCheckpointStatus(checkpoints[s][src], at) = "LIVE" =>
                    ~CheckpointHealthIssue(checkpoints[s][src], at)
             /\ ~CheckpointHealthIssue(checkpoints[s][src], at) =>
                    DeriveCheckpointStatus(checkpoints[s][src], at)
                       \in {"LIVE", "STALE", "RECOVERED"}
  <2> DEFINE row == checkpoints[s][src]
  <2>1. row.last_event_time \in Int /\ now \in Int
    BY <1>1 DEF WebInv, TablesInv, ServiceInv, Typed, TypeOK
  <2>2. EventAge(row, at) \in Int
    BY <2>1, <1>1 DEF EventAge
  <2> HIDE DEF row
  <2>3. StaleAge \in Nat /\ HealthAge \in Nat /\ StaleAge <= HealthAge
    BY DashboardAssumption
  <2>4. DeriveCheckpointStatus(row, at) = "LIVE" => ~CheckpointHealthIssue(row, at)
    BY <2>2, <2>3 DEF DeriveCheckpointStatus, CheckpointHealthIssue
  <2>5. ~CheckpointHealthIssue(row, at) =>
           DeriveCheckpointStatus(row, at) \in {"LIVE", "STALE", "RECOVERED"}
    BY DEF DeriveCheckpointStatus, CheckpointHealthIssue
  <2> QED
    BY <2>4, <2>5 DEF row
<1>2. WebInv => HealthAgreesWithDashboard
  BY <1>1 DEF HealthAgreesWithDashboard, Healthy
<1> QED
  BY <1>2, WebInitInv, WebStep, PTL DEF WebSpec

(* What a chart shades when it is read: the minutes that have no closed     *)
(* candle.                                                                  *)
LEMMA ShadedAreNotClosed ==
    ASSUME WebInv, ReadChart
    PROVE  /\ chart'.missing =
                 {m \in chart.start .. chart.last : ~candles[chart.symbol][m].is_closed}
           /\ chart.symbol \in Symbols /\ chart.start \in Int /\ chart.last \in Int
           /\ chart.last < now
<1>1. chart \in [symbol : Symbols, start : Minutes, last : -1 .. MaxMinute,
                 missing : SUBSET Minutes]
  BY DEF WebInv, ChartInv, DetailTypeOK
<1> QED
  BY <1>1 DEF WebInv, ChartInv, ReadChart, MissingCompletedOpenTimes, ClosedOpenTimes, Minutes

(* No chart ever shades a minute that a SUCCESS run covers.                 *)
THEOREM ChartNeverContradictsHistory == WebSpec => NoSuccessOverAGap
<1>1. ASSUME WebInv, ReadChart, NEW i \in DOMAIN runs,
             runs[i].status = "SUCCESS", runs[i].symbol = chart.symbol
      PROVE  chart'.missing \cap (runs[i].range_start .. runs[i].range_end) = {}
  <2>1. \A m \in runs[i].range_start .. runs[i].range_end :
            candles[chart.symbol][m].is_closed
    BY <1>1 DEF WebInv, TablesInv, SuccessMeansCovered, Closed
  <2> QED
    BY <1>1, <2>1, ShadedAreNotClosed
<1>2. WebInv => [ReadChart => \A i \in DOMAIN runs :
          (runs[i].status = "SUCCESS" /\ runs[i].symbol = chart.symbol) =>
             chart'.missing \cap (runs[i].range_start .. runs[i].range_end) = {}]_<<vars, detail>>
  BY <1>1
<1> QED
  BY <1>2, WebInitInv, WebStep, PTL DEF WebSpec, NoSuccessOverAGap

(* A chart read while the collector is in service shades of the bootstrap   *)
(* window only minutes that ended since it connected.                       *)
THEOREM ServiceShades == WebSpec => ServiceShadesOnlyRecentMinutes
<1>1. ASSUME WebInv, ReadChart, InService, NEW m \in chart'.missing
      PROVE  m < now /\ (m >= since \/ m < now - BootstrapMinutes)
  <2>1. Covered(chart.symbol)
    BY <1>1, ShadedAreNotClosed DEF WebInv, TablesInv, ServiceInv, Progress
  <2>2. m \in Int /\ m < now /\ ~candles[chart.symbol][m].is_closed /\ now \in Int /\ since \in Int
    <3>1. now \in Int /\ since \in Int
      BY <1>1 DEF WebInv, TablesInv, ServiceInv, Typed, TypeOK, Minutes
    <3> QED
      BY <1>1, <3>1, ShadedAreNotClosed
  <2>3. m \notin now - BootstrapMinutes .. since - 1
    BY <2>1, <2>2 DEF Covered, Closed
  <2> QED
    BY <2>2, <2>3
<1>2. WebInv => [ReadChart /\ InService => \A m \in chart'.missing :
          m < now /\ (m >= since \/ m < now - BootstrapMinutes)]_<<vars, detail>>
  BY <1>1
<1> QED
  BY <1>2, WebInitInv, WebStep, PTL DEF WebSpec, ServiceShadesOnlyRecentMinutes

(* The chart's range and its shading are minutes there are.                 *)
THEOREM DetailTypeCorrect == WebSpec => []DetailTypeOK
<1>1. WebInv => DetailTypeOK
  BY DEF WebInv, ChartInv
<1> QED
  BY <1>1, WebInitInv, WebStep, PTL DEF WebSpec

-----------------------------------------------------------------------------
(* The type of the overview's report.                                       *)

ObservationType == [latest : Nat, status : {"NOT_RUN", "RUNNING", "SUCCESS", "FAILED"},
                    success : Nat, failure : Nat, consecutive_failures : Nat]

(* The newest of a set of runs is one of them, and none is newer.           *)
LEMMA NewestRunIs ==
    ASSUME Typed, NEW found \in SUBSET DOMAIN runs
    PROVE  /\ NewestRun(found) \in Nat
           /\ found = {} => NewestRun(found) = 0
           /\ found # {} => NewestRun(found) \in found
           /\ \A j \in found : j <= NewestRun(found)
<1>1. Len(runs) \in Nat /\ DOMAIN runs = 1 .. Len(runs)
  BY DEF Typed, TypeOK
<1>2. CASE found = {}
  BY <1>2 DEF NewestRun
<1>3. CASE found # {}
  <2>1. found \in SUBSET (1 .. Len(runs))
    BY <1>1
  <2>2. \E m \in found : \A k \in found : k <= m
    BY <1>1, <1>3, <2>1, GreatestExists
  <2>3. \E m \in found : \A k \in found : m >= k
    BY <2>1, <2>2
  <2>4. Max(found) \in found /\ \A k \in found : Max(found) >= k
    BY <2>3 DEF Max
  <2> QED
    BY <1>1, <1>3, <2>1, <2>4 DEF NewestRun
<1> QED
  BY <1>2, <1>3

(* How often a range of length n can be missed.                             *)
LEMMA CountIsBounded ==
    ASSUME NEW closed, NEW last \in Nat, NEW window \in Nat, last - (window - 1) \in Nat
    PROVE  CountMissingCompletedMinutes(closed, last, window) \in 0 .. window
<1> DEFINE start   == last - (window - 1)
           missing == {m \in start .. last : m \notin closed}
<1>1. IsFiniteSet(start .. last) /\ Cardinality(start .. last) = window
  <2>1. start \in Int /\ last \in Int /\ (start > last <=> window = 0)
    OBVIOUS
  <2> HIDE DEF start
  <2>2. /\ IsFiniteSet(start .. last)
        /\ Cardinality(start .. last) = IF start > last THEN 0 ELSE last - start + 1
    BY <2>1, FS_Interval
  <2> QED
    BY <2>1, <2>2 DEF start
<1>2. missing \subseteq start .. last
  OBVIOUS
<1> HIDE DEF missing, start
<1>3. IsFiniteSet(missing) /\ Cardinality(missing) <= window
  BY <1>1, <1>2, FS_Subset
<1>4. Cardinality(missing) \in Nat
  BY <1>3, FS_CardinalityType
<1> QED
  BY <1>3, <1>4 DEF CountMissingCompletedMinutes, missing, start

LEMMA DerivedStatusType ==
    ASSUME NEW s \in Symbols, NEW src \in Sources, NEW at, Typed
    PROVE  DeriveCheckpointStatus(checkpoints[s][src], at) \in Statuses \cup {"STARTING", "STALE"}
<1>1. checkpoints[s][src].status \in Statuses
  BY DEF Typed, TypeOK
<1> QED
  BY <1>1 DEF DeriveCheckpointStatus, Statuses

(* A statement of the reconciliation watch changes the observation of the   *)
(* symbol asked about.                                                      *)
LEMMA ObservationIsRead ==
    ASSUME DashboardTypeOK, NEW seen \in ObservationType,
           report' = [report EXCEPT !.observed[asked] = seen],
           clock' = clock, asked' \in Symbols,
           reading' \in Readings \cup {"idle", "answered", "raised"}
    PROVE  /\ DashboardTypeOK'
           /\ report'.observed = [report.observed EXCEPT ![asked] = seen]
<1>1. report.observed \in [Symbols -> ObservationType]
  BY DEF DashboardTypeOK, ObservationType
<1>2. [report.observed EXCEPT ![asked] = seen] \in [Symbols -> ObservationType]
  BY <1>1
<1>3. report'.observed = [report.observed EXCEPT ![asked] = seen]
  BY DEF DashboardTypeOK
<1> QED
  BY <1>2, <1>3 DEF DashboardTypeOK, ObservationType

(* What each statement of the watch reads.                                  *)
Latest == NewestRun(Reconciliations({"RUNNING", "SUCCESS", "FAILED"}))
Seen   == report.observed[asked]

LEMMA LatestIsRead ==
    ASSUME Typed, DashboardTypeOK, ReadLatestRun
    PROVE  LET seen == [Seen EXCEPT !.latest = Latest,
                           !.status = IF Latest = 0 THEN "NOT_RUN" ELSE runs[Latest].status]
           IN  /\ DashboardTypeOK' /\ seen \in ObservationType
               /\ report'.observed = [report.observed EXCEPT ![asked] = seen]
               /\ Latest # 0 => Latest \in Reconciliations({"RUNNING", "SUCCESS", "FAILED"})
<1> DEFINE found  == Reconciliations({"RUNNING", "SUCCESS", "FAILED"})
           status == IF Latest = 0 THEN "NOT_RUN" ELSE runs[Latest].status
           seen   == [Seen EXCEPT !.latest = Latest, !.status = status]
<1>1. found \in SUBSET DOMAIN runs /\ 0 \notin DOMAIN runs /\ runs \in Seq(Run)
  BY DEF Reconciliations, Typed, TypeOK
<1>2. Latest \in Nat /\ (Latest # 0 => Latest \in found)
  BY <1>1, NewestRunIs DEF Latest
<1>3. status \in {"NOT_RUN", "RUNNING", "SUCCESS", "FAILED"}
  <2>1. Latest # 0 => runs[Latest].status \in {"RUNNING", "SUCCESS", "FAILED"}
    BY <1>2 DEF Reconciliations
  <2> QED
    BY <2>1
<1>4. Seen \in ObservationType
  BY DEF DashboardTypeOK, ObservationType, Seen
<1>5. report' = [report EXCEPT !.observed[asked] =
                    [@ EXCEPT !.latest = Latest, !.status = status]]
  BY DEF ReadLatestRun, Latest
<1> HIDE DEF status
<1>6. seen \in ObservationType
  BY <1>2, <1>3, <1>4 DEF ObservationType
<1>7. report' = [report EXCEPT !.observed[asked] = seen]
  BY <1>5, Zenon DEF Seen
<1>8. clock' = clock /\ asked' \in Symbols /\ reading' \in Readings
  BY DEF ReadLatestRun, DashboardTypeOK, Readings
<1> HIDE DEF seen
<1>9. DashboardTypeOK' /\ report'.observed = [report.observed EXCEPT ![asked] = seen]
  BY <1>6, <1>7, <1>8, ObservationIsRead
<1> QED
  BY <1>2, <1>6, <1>9 DEF seen, status

LEMMA SuccessIsRead ==
    ASSUME Typed, DashboardTypeOK, ReadLastSuccess
    PROVE  LET seen == [Seen EXCEPT !.success = NewestRun(Reconciliations({"SUCCESS"}))]
           IN  /\ DashboardTypeOK' /\ seen \in ObservationType
               /\ report'.observed = [report.observed EXCEPT ![asked] = seen]
<1> DEFINE newest == NewestRun(Reconciliations({"SUCCESS"}))
           seen   == [Seen EXCEPT !.success = newest]
<1>1. newest \in Nat
  BY NewestRunIs DEF Reconciliations
<1> HIDE DEF newest
<1>2. seen \in ObservationType
  BY <1>1 DEF DashboardTypeOK, ObservationType, Seen
<1>3. report' = [report EXCEPT !.observed[asked] = seen]
  BY Zenon DEF ReadLastSuccess, Seen, newest
<1>4. clock' = clock /\ asked' \in Symbols /\ reading' \in Readings
  BY DEF ReadLastSuccess, DashboardTypeOK, Readings
<1> HIDE DEF seen
<1>5. DashboardTypeOK' /\ report'.observed = [report.observed EXCEPT ![asked] = seen]
  BY <1>2, <1>3, <1>4, ObservationIsRead
<1> QED
  BY <1>2, <1>5 DEF seen, newest

LEMMA FailureIsRead ==
    ASSUME Typed, DashboardTypeOK, ReadLastFailure
    PROVE  LET seen == [Seen EXCEPT !.failure = NewestRun(Reconciliations({"FAILED"}))]
           IN  /\ DashboardTypeOK' /\ seen \in ObservationType
               /\ report'.observed = [report.observed EXCEPT ![asked] = seen]
<1> DEFINE newest == NewestRun(Reconciliations({"FAILED"}))
           seen   == [Seen EXCEPT !.failure = newest]
<1>1. newest \in Nat
  BY NewestRunIs DEF Reconciliations
<1> HIDE DEF newest
<1>2. seen \in ObservationType
  BY <1>1 DEF DashboardTypeOK, ObservationType, Seen
<1>3. report' = [report EXCEPT !.observed[asked] = seen]
  BY Zenon DEF ReadLastFailure, Seen, newest
<1>4. clock' = clock /\ asked' \in Symbols /\ reading' \in Readings
  BY DEF ReadLastFailure, DashboardTypeOK, Readings
<1> HIDE DEF seen
<1>5. DashboardTypeOK' /\ report'.observed = [report.observed EXCEPT ![asked] = seen]
  BY <1>2, <1>3, <1>4, ObservationIsRead
<1> QED
  BY <1>2, <1>5 DEF seen, newest

LEMMA FailuresAreCounted ==
    ASSUME Typed, DashboardTypeOK, CountFailures
    PROVE  \E n \in Nat :
             LET seen == [Seen EXCEPT !.consecutive_failures = n]
             IN  /\ DashboardTypeOK' /\ seen \in ObservationType
                 /\ report'.observed = [report.observed EXCEPT ![asked] = seen]
<1> DEFINE later == {i \in Reconciliations({"FAILED"}) : i > Seen.success}
           count == IF Seen.status = "FAILED" THEN Cardinality(later) ELSE 0
           seen  == [Seen EXCEPT !.consecutive_failures = count]
<1>1. count \in Nat
  <2>1. later \subseteq 1 .. Len(runs) /\ Len(runs) \in Nat
    BY DEF Reconciliations, Typed, TypeOK
  <2>2. IsFiniteSet(1 .. Len(runs))
    BY <2>1, FS_Interval
  <2>3. IsFiniteSet(later)
    BY <2>1, <2>2, FS_Subset
  <2>4. Cardinality(later) \in Nat
    BY <2>3, FS_CardinalityType
  <2> QED
    BY <2>4
<1>2. report' = [report EXCEPT !.observed[asked] = seen]
  BY Zenon DEF CountFailures, Seen
<1> HIDE DEF count
<1>3. seen \in ObservationType
  BY <1>1 DEF DashboardTypeOK, ObservationType, Seen
<1>4. asked' \in Symbols /\ clock' = clock /\ reading' \in Readings \cup {"answered"}
  <2>1. asked \in Symbols
    BY DEF DashboardTypeOK
  <2> QED
    BY <2>1 DEF CountFailures, Readings, Symbols
<1> HIDE DEF seen
<1>5. DashboardTypeOK' /\ report'.observed = [report.observed EXCEPT ![asked] = seen]
  BY <1>2, <1>3, <1>4, ObservationIsRead
<1> QED
  BY <1>1, <1>3, <1>5 DEF seen

(* Every step of a request leaves a report of its type.                     *)
LEMMA BlankReportType ==
    ASSUME report' = BlankReport, asked' = 1, clock' \in 0 .. 2 * MaxMinute + 1,
           reading' \in Readings \cup {"idle", "answered", "raised"}
    PROVE  DashboardTypeOK'
<1>1. NoObservation \in ObservationType
  BY DEF NoObservation, ObservationType
<1>2. Unknown \in Unknown .. HourWindow /\ 1 \in Symbols
  BY DashboardAssumption DEF Unknown, Symbols
<1>3. "ABSENT" \in Statuses
  BY DEF Statuses
<1>4. report' = [missing  |-> [s \in Symbols |-> Unknown],
                 shown    |-> [s \in Symbols |-> [src \in Sources |-> "ABSENT"]],
                 observed |-> [s \in Symbols |-> NoObservation]]
  BY DEF BlankReport
<1> QED
  BY <1>1, <1>2, <1>3, <1>4 DEF DashboardTypeOK, ObservationType

LEMMA DashboardTypeStep ==
    ASSUME Typed, DashboardTypeOK, ReportInv, Read \/ CloseDashboard, UNCHANGED vars
    PROVE  DashboardTypeOK'
<1>0. asked \in Symbols
  BY DEF DashboardTypeOK
<1>1. CASE Ask \/ FailOnRunning \/ CloseDashboard
  <2>1. now \in BootstrapMinutes .. MaxMinute
    BY DEF Typed, TypeOK
  <2>2. report' = BlankReport /\ asked' = 1 /\ clock' \in 0 .. 2 * MaxMinute + 1
    BY <1>1, <2>1 DEF Ask, FailOnRunning, CloseDashboard
  <2>3. reading' \in Readings \cup {"idle", "answered", "raised"}
    BY <1>1 DEF Ask, FailOnRunning, CloseDashboard, Readings
  <2> QED
    BY <2>2, <2>3, BlankReportType
<1>2. CASE ReadLatestCandle
  <2>1. asked' \in Symbols /\ reading' \in Readings
    BY <1>2, <1>0 DEF ReadLatestCandle, NextMarket, Readings, Symbols
  <2> QED
    BY <1>2, <2>1 DEF ReadLatestCandle, DashboardTypeOK
<1>3. CASE ReadCoverage
  <2> DEFINE last   == LastCompletedOpen
             closed == ClosedOpenTimes(candles, asked, last - (HourWindow - 1), last)
             count  == CountMissingCompletedMinutes(closed, last, HourWindow)
  <2>1. report' = [report EXCEPT !.missing[asked] = count] /\ clock' = clock
    BY <1>3 DEF ReadCoverage
  <2>2. /\ clock \in 0 .. 2 * MaxMinute + 1 /\ 2 * BootstrapMinutes <= clock
    BY <1>3 DEF ReportInv, ReportShape, ReadCoverage, Readings
  <2>3. last \in Nat /\ last - (HourWindow - 1) \in Nat /\ HourWindow \in Nat
    BY <2>2, HourInMinutes, DashboardAssumption
  <2>4. count \in 0 .. HourWindow
    BY <2>3, CountIsBounded
  <2>5. count \in Unknown .. HourWindow
    BY <2>3, <2>4 DEF Unknown
  <2>6. asked' \in Symbols /\ reading' \in Readings
    BY <1>3, <1>0 DEF ReadCoverage, NextMarket, Readings, Symbols
  <2> HIDE DEF count
  <2>7. [report.missing EXCEPT ![asked] = count] \in [Symbols -> Unknown .. HourWindow]
    BY <2>5 DEF DashboardTypeOK
  <2>8. report' = [report EXCEPT !.missing = [report.missing EXCEPT ![asked] = count]]
    BY <2>1
  <2> QED
    BY <2>1, <2>6, <2>7, <2>8 DEF DashboardTypeOK
<1>4. CASE ReadCheckpoints
  <2> DEFINE shown == [s \in Symbols |-> [src \in Sources |->
                          DeriveCheckpointStatus(checkpoints[s][src], clock)]]
  <2>1. \A s \in Symbols, src \in Sources :
            DeriveCheckpointStatus(checkpoints[s][src], clock)
               \in Statuses \cup {"STARTING", "STALE"}
    BY DerivedStatusType
  <2>2. shown \in [Symbols -> [Sources -> Statuses \cup {"STARTING", "STALE"}]]
    BY <2>1
  <2>3. report' = [report EXCEPT !.shown = shown] /\ UNCHANGED <<asked, clock>>
    BY <1>4 DEF ReadCheckpoints
  <2>4. reading' \in Readings
    BY <1>4 DEF ReadCheckpoints, Readings
  <2> HIDE DEF shown
  <2> QED
    BY <2>2, <2>3, <2>4 DEF DashboardTypeOK
<1>5. CASE ReadLatestRun \/ ReadLastSuccess \/ ReadLastFailure \/ CountFailures
  BY <1>5, LatestIsRead, SuccessIsRead, FailureIsRead, FailuresAreCounted
<1> QED
  BY <1>1, <1>2, <1>3, <1>4, <1>5 DEF Read

(* What the web server knows of the collector and of its own reports.       *)
RequestStep == (Read \/ CloseDashboard) /\ UNCHANGED vars

LEMMA WhoSteps ==
    ASSUME [WebNext]_<<vars, tab>>
    PROVE  [Next]_vars /\ (UNCHANGED request \/ RequestStep)
<1>1. CASE UNCHANGED tab
  BY <1>1 DEF WebNext, tab
<1>2. CASE (ServeDashboard \/ ServeDetail \/ ServeNotFound) /\ UNCHANGED vars
  BY <1>2 DEF ServeDashboard, ServeDetail, ServeNotFound, Read, RequestStep
<1> QED
  BY <1>1, <1>2 DEF WebNext, tab

WatchedInv == WebInv /\ DashboardTypeOK

LEMMA WatchedInit == WebInit => WatchedInv
<1> SUFFICES ASSUME WebInit PROVE DashboardTypeOK
  BY WebInitInv DEF WatchedInv
<1>1. NoObservation \in ObservationType
  BY DEF NoObservation, ObservationType
<1>2. Unknown \in Unknown .. HourWindow /\ 1 \in Symbols /\ 0 \in 0 .. 2 * MaxMinute + 1
  BY DashboardAssumption DEF Unknown, Symbols
<1>3. "ABSENT" \in Statuses
  BY DEF Statuses
<1>4. /\ reading = "idle" /\ asked = 1 /\ clock = 0
      /\ report = [missing  |-> [s \in Symbols |-> Unknown],
                   shown    |-> [s \in Symbols |-> [src \in Sources |-> "ABSENT"]],
                   observed |-> [s \in Symbols |-> NoObservation]]
  BY DEF WebInit, DashboardInit, BlankReport
<1> QED
  BY <1>1, <1>2, <1>3, <1>4 DEF DashboardTypeOK, ObservationType

LEMMA WatchedStep == WatchedInv /\ [WebNext]_<<vars, tab>> => WatchedInv'
<1> SUFFICES ASSUME WatchedInv, [WebNext]_<<vars, tab>> PROVE DashboardTypeOK'
  BY WebStep DEF WatchedInv
<1>1. Typed /\ ReportInv
  BY DEF WatchedInv, WebInv, TablesInv, ServiceInv
<1>2. CASE UNCHANGED request
  BY <1>2 DEF WatchedInv, DashboardTypeOK, request
<1>3. CASE RequestStep
  BY <1>1, <1>3, DashboardTypeStep DEF WatchedInv, RequestStep
<1> QED
  BY <1>2, <1>3, WhoSteps

(* A report never holds anything but what its columns are for, whatever the *)
(* collector commits between two statements of a request: no status that    *)
(* has no badge, and no more minutes missing than the hour has.             *)
THEOREM DashboardTypeCorrect == WebSpec => []DashboardTypeOK
<1>1. WebSpec => []WatchedInv
  BY WatchedInit, WatchedStep, PTL DEF WebSpec
<1> QED
  BY <1>1, PTL DEF WatchedInv

-----------------------------------------------------------------------------
(* The reconciliation watch, one statement after the other.                 *)

(* The latest run of an observation, once finished, is the run it was when  *)
(* it was read.                                                             *)
LatestIsInHistory(s) ==
    LET seen == report.observed[s]
    IN  seen.status \in {"SUCCESS", "FAILED"} =>
           /\ seen.latest \in DOMAIN runs
           /\ runs[seen.latest].symbol = s
           /\ runs[seen.latest].run_type = "RECONCILIATION"
           /\ runs[seen.latest].status = seen.status

SuccessFits(s) ==
    report.observed[s].status = "SUCCESS" => report.observed[s].success >= report.observed[s].latest

FailureFits(s) ==
    report.observed[s].status = "FAILED" => report.observed[s].failure >= report.observed[s].latest

(* An observation fits together but for what is still to be read of it.     *)
ReadSoFar ==
    \A s \in Symbols :
        /\ LatestIsInHistory(s)
        /\ s # asked \/ reading # "last_success" => SuccessFits(s)
        /\ s # asked \/ reading \notin {"last_success", "last_failure"} => FailureFits(s)

LEMMA ReadSoFarOfCollectorStep ==
    ASSUME Typed, DashboardTypeOK, FailsBeforeCommit, RedisAnswers, ReadSoFar,
           [Next]_vars, UNCHANGED request
    PROVE  ReadSoFar'
<1> SUFFICES ASSUME NEW s \in Symbols PROVE LatestIsInHistory(s)'
  BY DEF ReadSoFar, SuccessFits, FailureFits, request
<1> SUFFICES ASSUME report.observed[s].status \in {"SUCCESS", "FAILED"}
             PROVE  LET i == report.observed[s].latest
                    IN  /\ i \in DOMAIN runs' /\ runs'[i].symbol = s
                        /\ runs'[i].run_type = "RECONCILIATION"
                        /\ runs'[i].status = report.observed[s].status
  BY DEF LatestIsInHistory, request
<1>1. PICK i \in DOMAIN runs : /\ i = report.observed[s].latest
                               /\ runs[i].symbol = s /\ runs[i].run_type = "RECONCILIATION"
                               /\ runs[i].status = report.observed[s].status
  BY DEF ReadSoFar, LatestIsInHistory
<1>2. i \in DOMAIN runs' /\ runs'[i] = runs[i]
  BY <1>1, FinishedStays
<1> QED
  BY <1>1, <1>2

(* A statement that leaves what has been observed alone, or blanks it.      *)
LEMMA ReadSoFarIfNothingIsObserved ==
    ASSUME ReadSoFar, UNCHANGED runs, DashboardTypeOK,
           report'.observed = report.observed,
           reading \notin {"last_success", "last_failure"}
    PROVE  ReadSoFar'
  BY DEF ReadSoFar, LatestIsInHistory, SuccessFits, FailureFits

LEMMA ReadSoFarIfBlank ==
    ASSUME report'.observed = [s \in Symbols |-> NoObservation]
    PROVE  ReadSoFar'
  BY DEF ReadSoFar, LatestIsInHistory, SuccessFits, FailureFits, NoObservation

(* A statement about the symbol asked about says nothing of the others.     *)
LEMMA ReadSoFarOfOthers ==
    ASSUME ReadSoFar, UNCHANGED runs, DashboardTypeOK, NEW seen,
           report'.observed = [report.observed EXCEPT ![asked] = seen],
           NEW s \in Symbols, s # asked
    PROVE  LatestIsInHistory(s)' /\ SuccessFits(s)' /\ FailureFits(s)'
<1>1. report.observed \in [Symbols -> ObservationType]
  BY DEF DashboardTypeOK, ObservationType
<1>2. report'.observed[s] = report.observed[s]
  BY <1>1
<1> QED
  BY <1>2 DEF ReadSoFar, LatestIsInHistory, SuccessFits, FailureFits

LEMMA ReadSoFarOfStatement ==
    ASSUME Typed, DashboardTypeOK, ReadSoFar, UNCHANGED runs,
           ReadLatestRun \/ ReadLastSuccess \/ ReadLastFailure \/ CountFailures
    PROVE  ReadSoFar'
<1>1. asked \in Symbols /\ report.observed \in [Symbols -> ObservationType]
  BY DEF DashboardTypeOK, ObservationType
<1>2. Seen \in ObservationType
  BY <1>1 DEF Seen
<1>3. CASE ReadLatestRun
  <2> DEFINE status == IF Latest = 0 THEN "NOT_RUN" ELSE runs[Latest].status
             seen   == [Seen EXCEPT !.latest = Latest, !.status = status]
  <2>1. /\ report'.observed = [report.observed EXCEPT ![asked] = seen]
        /\ Latest # 0 => Latest \in Reconciliations({"RUNNING", "SUCCESS", "FAILED"})
    BY <1>3, LatestIsRead
  <2>2. seen.latest = Latest /\ seen.status = status
    BY <1>2 DEF ObservationType
  <2> HIDE DEF seen
  <2>3. report'.observed[asked].latest = Latest /\ report'.observed[asked].status = status
    BY <1>1, <2>1, <2>2
  <2>4. LatestIsInHistory(asked)'
    BY <2>1, <2>3, <1>3 DEF LatestIsInHistory, Reconciliations, ReadLatestRun
  <2>5. asked' = asked /\ reading' = "last_success"
    BY <1>3 DEF ReadLatestRun
  <2>6. \A s \in Symbols : s # asked =>
            LatestIsInHistory(s)' /\ SuccessFits(s)' /\ FailureFits(s)'
    BY <2>1, ReadSoFarOfOthers
  <2> QED
    BY <2>4, <2>5, <2>6 DEF ReadSoFar
<1>4. CASE ReadLastSuccess
  <2> DEFINE newest == NewestRun(Reconciliations({"SUCCESS"}))
             seen   == [Seen EXCEPT !.success = newest]
  <2>1. report'.observed = [report.observed EXCEPT ![asked] = seen]
    BY <1>4, SuccessIsRead
  <2>2. seen.latest = Seen.latest /\ seen.status = Seen.status /\ seen.success = newest
    BY <1>2 DEF ObservationType
  <2>3. newest \in Nat /\ \A j \in Reconciliations({"SUCCESS"}) : newest >= j
    <3>1. Reconciliations({"SUCCESS"}) \in SUBSET DOMAIN runs
      BY DEF Reconciliations
    <3>2. DOMAIN runs = 1 .. Len(runs) /\ Len(runs) \in Nat
      BY DEF Typed, TypeOK
    <3> QED
      BY <3>1, <3>2, NewestRunIs
  <2> HIDE DEF seen, newest
  <2>4. /\ report'.observed[asked].latest = Seen.latest
        /\ report'.observed[asked].status = Seen.status
        /\ report'.observed[asked].success = newest
    BY <1>1, <2>1, <2>2
  <2>5. LatestIsInHistory(asked)
    BY <1>1 DEF ReadSoFar
  <2>6. LatestIsInHistory(asked)'
    BY <1>4, <2>4, <2>5 DEF LatestIsInHistory, Seen, ReadLastSuccess
  <2>7. SuccessFits(asked)'
    <3>1. Seen.status = "SUCCESS" => Seen.latest \in Reconciliations({"SUCCESS"})
      BY <2>5 DEF LatestIsInHistory, Seen, Reconciliations
    <3> QED
      BY <1>4, <2>3, <2>4, <3>1 DEF SuccessFits, ReadLastSuccess
  <2>8. asked' = asked /\ reading' = "last_failure"
    BY <1>4 DEF ReadLastSuccess
  <2>9. \A s \in Symbols : s # asked =>
            LatestIsInHistory(s)' /\ SuccessFits(s)' /\ FailureFits(s)'
    BY <2>1, ReadSoFarOfOthers
  <2> QED
    BY <2>6, <2>7, <2>8, <2>9 DEF ReadSoFar
<1>5. CASE ReadLastFailure
  <2> DEFINE newest == NewestRun(Reconciliations({"FAILED"}))
             seen   == [Seen EXCEPT !.failure = newest]
  <2>1. report'.observed = [report.observed EXCEPT ![asked] = seen]
    BY <1>5, FailureIsRead
  <2>2. /\ seen.latest = Seen.latest /\ seen.status = Seen.status
        /\ seen.success = Seen.success /\ seen.failure = newest
    BY <1>2 DEF ObservationType
  <2>3. newest \in Nat /\ \A j \in Reconciliations({"FAILED"}) : newest >= j
    <3>1. Reconciliations({"FAILED"}) \in SUBSET DOMAIN runs
      BY DEF Reconciliations
    <3>2. DOMAIN runs = 1 .. Len(runs) /\ Len(runs) \in Nat
      BY DEF Typed, TypeOK
    <3> QED
      BY <3>1, <3>2, NewestRunIs
  <2> HIDE DEF seen, newest
  <2>4. /\ report'.observed[asked].latest = Seen.latest
        /\ report'.observed[asked].status = Seen.status
        /\ report'.observed[asked].success = Seen.success
        /\ report'.observed[asked].failure = newest
    BY <1>1, <2>1, <2>2
  <2>5. LatestIsInHistory(asked) /\ SuccessFits(asked)
    BY <1>1, <1>5 DEF ReadSoFar, ReadLastFailure
  <2>6. LatestIsInHistory(asked)' /\ SuccessFits(asked)'
    BY <1>5, <2>4, <2>5 DEF LatestIsInHistory, SuccessFits, Seen, ReadLastFailure
  <2>7. FailureFits(asked)'
    <3>1. Seen.status = "FAILED" => Seen.latest \in Reconciliations({"FAILED"})
      BY <2>5 DEF LatestIsInHistory, Seen, Reconciliations
    <3> QED
      BY <1>5, <2>3, <2>4, <3>1 DEF FailureFits, ReadLastFailure
  <2>8. asked' = asked
    BY <1>5 DEF ReadLastFailure
  <2>9. \A s \in Symbols : s # asked =>
            LatestIsInHistory(s)' /\ SuccessFits(s)' /\ FailureFits(s)'
    BY <2>1, ReadSoFarOfOthers
  <2> QED
    BY <2>6, <2>7, <2>8, <2>9 DEF ReadSoFar
<1>6. CASE CountFailures
  <2>1. PICK n \in Nat :
           report'.observed = [report.observed EXCEPT ![asked] =
              [Seen EXCEPT !.consecutive_failures = n]]
    BY <1>6, FailuresAreCounted
  <2> DEFINE seen == [Seen EXCEPT !.consecutive_failures = n]
  <2>2. /\ seen.latest = Seen.latest /\ seen.status = Seen.status
        /\ seen.success = Seen.success /\ seen.failure = Seen.failure
    BY <1>2 DEF ObservationType
  <2>3. report'.observed = [report.observed EXCEPT ![asked] = seen]
    BY <2>1
  <2> HIDE DEF seen
  <2>4. PICK a \in Symbols : a = asked
    BY <1>1
  <2>5. LatestIsInHistory(a)' /\ SuccessFits(a)' /\ FailureFits(a)'
    <3>1. LatestIsInHistory(a) /\ SuccessFits(a) /\ FailureFits(a)
      BY <1>6, <2>4 DEF ReadSoFar, CountFailures
    <3>2. /\ report'.observed[a].latest = report.observed[a].latest
          /\ report'.observed[a].status = report.observed[a].status
          /\ report'.observed[a].success = report.observed[a].success
          /\ report'.observed[a].failure = report.observed[a].failure
      BY <1>1, <2>2, <2>3, <2>4 DEF Seen
    <3> QED
      BY <3>1, <3>2 DEF LatestIsInHistory, SuccessFits, FailureFits
  <2>6. \A s \in Symbols : s # asked =>
            LatestIsInHistory(s)' /\ SuccessFits(s)' /\ FailureFits(s)'
    BY <2>3, ReadSoFarOfOthers
  <2> QED
    BY <2>4, <2>5, <2>6 DEF ReadSoFar
<1> QED
  BY <1>3, <1>4, <1>5, <1>6

LEMMA ReadSoFarOfRequestStep ==
    ASSUME Typed, DashboardTypeOK, ReadSoFar, RequestStep
    PROVE  ReadSoFar'
<1>1. UNCHANGED runs
  BY DEF RequestStep, vars, database
<1>2. CASE Ask \/ FailOnRunning \/ CloseDashboard
  BY <1>2, ReadSoFarIfBlank DEF Ask, FailOnRunning, CloseDashboard, BlankReport
<1>3. CASE ReadLatestCandle \/ ReadCoverage \/ ReadCheckpoints
  <2>1. report'.observed = report.observed
    BY <1>3 DEF ReadLatestCandle, ReadCoverage, ReadCheckpoints, DashboardTypeOK
  <2>2. reading \notin {"last_success", "last_failure"}
    BY <1>3 DEF ReadLatestCandle, ReadCoverage, ReadCheckpoints
  <2> QED
    BY <1>1, <2>1, <2>2, ReadSoFarIfNothingIsObserved
<1>4. CASE ReadLatestRun \/ ReadLastSuccess \/ ReadLastFailure \/ CountFailures
  BY <1>1, <1>4, ReadSoFarOfStatement
<1> QED
  BY <1>2, <1>3, <1>4 DEF RequestStep, Read

ReadSoFarWhileRedisAnswers == RedisAnswers => ReadSoFar

LEMMA ReadSoFarStep ==
    ASSUME WatchedInv, FailsBeforeCommit, ReadSoFarWhileRedisAnswers,
           [WebNext]_<<vars, tab>>
    PROVE  FailsBeforeCommit' /\ ReadSoFarWhileRedisAnswers'
<1>1. Typed /\ DashboardTypeOK
  BY DEF WatchedInv, WebInv, TablesInv, ServiceInv
<1>2. [Next]_vars /\ (UNCHANGED request \/ RequestStep)
  BY WhoSteps
<1>3. FailsBeforeCommit'
  BY <1>1, <1>2, FailsBeforeCommitStep
<1>4. RedisAnswers' => RedisAnswers
  <2>1. faults \in Nat /\ (faults' = faults \/ faults' = faults + 1)
    BY <1>1, <1>2, WhoPages DEF Typed, TypeOK
  <2> QED
    BY <2>1 DEF RedisAnswers
<1>5. ReadSoFarWhileRedisAnswers'
  BY <1>1, <1>2, <1>4, ReadSoFarOfCollectorStep, ReadSoFarOfRequestStep
  DEF ReadSoFarWhileRedisAnswers
<1> QED
  BY <1>3, <1>5

(* While Redis answers, the parts of an answered observation fit together   *)
(* although separate statements read them and the collector commits runs in *)
(* between: every run a statement has read is still what it was when the    *)
(* later statements look for one at least as new.                           *)
THEOREM ObservationAlwaysFits == WebSpec => [](RedisAnswers => ObservationFitsTogether)
<1>1. WebInit => FailsBeforeCommit /\ ReadSoFarWhileRedisAnswers
  <2>1. WebInit => FailsBeforeCommit
    BY DEF WebInit, DashboardInit, Init, FailsBeforeCommit
  <2>2. WebInit => ReadSoFar
    BY DEF WebInit, DashboardInit, BlankReport, NoObservation, ReadSoFar,
           LatestIsInHistory, SuccessFits, FailureFits
  <2> QED
    BY <2>1, <2>2 DEF ReadSoFarWhileRedisAnswers
<1>2. WatchedInv /\ FailsBeforeCommit /\ ReadSoFarWhileRedisAnswers /\ [WebNext]_<<vars, tab>>
         => FailsBeforeCommit' /\ ReadSoFarWhileRedisAnswers'
  BY ReadSoFarStep
<1>3. ReadSoFarWhileRedisAnswers => (RedisAnswers => ObservationFitsTogether)
  BY DEF ReadSoFarWhileRedisAnswers, ReadSoFar, SuccessFits, FailureFits,
         ObservationFitsTogether
<1> QED
  BY <1>1, <1>2, <1>3, WatchedInit, WatchedStep, PTL DEF WebSpec
=============================================================================
