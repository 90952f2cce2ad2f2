----------------------------- MODULE MarketDetail -----------------------------
(***************************************************************************)
(* One request of the detail page of a market: build_market_detail reads   *)
(* the candles of the chart in one SELECT and works out the missing        *)
(* minutes from the rows it got; the page keeps them until it asks again.  *)
(***************************************************************************)
EXTENDS CollectorProperties

CONSTANTS DetailWindows   \* DETAIL_WINDOW_MINUTES, in minutes

(* bound: no chart begins before the bootstrap window.                      *)
ASSUME MarketDetailAssumption == DetailWindows \subseteq 1 .. BootstrapMinutes + 1

VARIABLES
    page,    \* "idle"; "asking", its range is computed; "shown"
    chart    \* the symbol, the range and the missing minutes of the chart

detail == <<page, chart>>

NoChart == [symbol |-> 1, start |-> 0, last |-> -1, missing |-> {}]

DetailTypeOK ==
    /\ page \in {"idle", "asking", "shown"}
    /\ chart \in [symbol : Symbols, start : Minutes, last : -1 .. MaxMinute,
                  missing : SUBSET Minutes]
    /\ chart.missing \subseteq chart.start .. chart.last

DetailInit == Init /\ page = "idle" /\ chart = NoChart

(* Mutant: the window without the minute still open. *)
AskOneMinuteMore(s, window) ==
    /\ page # "asking"
    /\ page' = "asking"
    /\ chart' = [symbol |-> s, start |-> now - window, last |-> now - 1, missing |-> {}]

(* The range is computed before the session's first statement. *)
AskDetail(s, window) ==
    /\ page # "asking"
    /\ page' = "asking"
    /\ chart' = [symbol |-> s, start |-> now - (window - 1), last |-> now - 1,
                 missing |-> {}]

(* The candles in one statement.  The trades and runs that two more read    *)
(* are left out of the chart.                                               *)
ReadChart ==
    /\ page = "asking"
    /\ page' = "shown"
    /\ chart' = [chart EXCEPT !.missing = MissingCompletedOpenTimes(
          ClosedOpenTimes(candles, chart.symbol, chart.start, chart.last),
          chart.start, chart.last)]

(* The page is left for another one. *)
CloseDetail == page = "shown" /\ page' = "idle" /\ chart' = NoChart

ReadDetail == \/ \E s \in Symbols, window \in DetailWindows : AskDetail(s, window)
              \/ ReadChart
              \/ CloseDetail

-----------------------------------------------------------------------------
(* The chart's shading is complete and stays so: a completed minute of its  *)
(* range that is not shaded has a closed candle, however long the page is   *)
(* open.  (missing_completed_open_times over rows that never reopen.)       *)
UnshadedMinutesAreClosed ==
    page = "shown" => \A m \in (chart.start .. chart.last) \ chart.missing :
        Closed(chart.symbol, m)

(* The chart never shades a minute that a run recorded as SUCCESS covers:   *)
(* the candles are read by one statement and the run was verified before it *)
(* was recorded.  (The verification of _recover_candles.)                   *)
NoSuccessOverAGap ==
    [][ReadChart => \A i \in DOMAIN runs :
          (runs[i].status = "SUCCESS" /\ runs[i].symbol = chart.symbol) =>
             chart'.missing \cap (runs[i].range_start .. runs[i].range_end) = {}]_<<vars, detail>>

(* A chart read while the collector is in service never shades the minute   *)
(* that is still open, and shades a minute of the bootstrap window only if  *)
(* it ended since the collector connected.  (_mark_all_live only after the  *)
(* recovery of every symbol.)                                               *)
ServiceShadesOnlyRecentMinutes ==
    [][ReadChart /\ InService => \A m \in chart'.missing :
          m < now /\ (m >= since \/ m < now - BootstrapMinutes)]_<<vars, detail>>
=============================================================================
