------------------------------ MODULE Dashboard ------------------------------
(***************************************************************************)
(* One request of the operations dashboard: build_dashboard issues its     *)
(* SELECTs one after the other, each of them sees what is committed when   *)
(* it runs (READ COMMITTED), and the collector commits in between.         *)
(*                                                                         *)
(* Times are event times of MarketRepository, in half minutes.             *)
(***************************************************************************)
EXTENDS CollectorProperties, FiniteSetsExt

CONSTANTS StaleAge,    \* STALE_EVENT_THRESHOLD_SECONDS, in half minutes
          HealthAge,   \* settings.etl_health_max_event_age_seconds
          HourWindow   \* RECENT_COMPLETED_CANDLE_WINDOW

(* config.py:17 keeps the age of the health check at 15 seconds or more.    *)
ASSUME DashboardAssumption ==
    /\ StaleAge \in Nat
    /\ HealthAge \in Nat /\ HealthAge >= StaleAge
    /\ HourWindow \in 1 .. BootstrapMinutes

VARIABLES
    reading,   \* the statement to run next; "idle", "answered" or "raised"
    asked,     \* the symbol it is about
    clock,     \* now_ms of the request
    report     \* what the request has read so far

request == <<reading, asked, clock, report>>

Readings == {"latest_candle", "coverage", "checkpoints", "latest_run",
             "last_success", "last_failure", "count_failures"}

(* Unknown stands for the None of a field that is not there. *)
Unknown == -1

NoObservation == [latest |-> 0, status |-> "NOT_RUN", success |-> 0,
                  failure |-> 0, consecutive_failures |-> 0]

BlankReport == [missing  |-> [s \in Symbols |-> Unknown],
                shown    |-> [s \in Symbols |-> [src \in Sources |-> "ABSENT"]],
                observed |-> [s \in Symbols |-> NoObservation]]

DashboardTypeOK ==
    /\ reading \in Readings \cup {"idle", "answered", "raised"}
    /\ asked \in Symbols
    /\ clock \in 0 .. 2 * MaxMinute + 1
    /\ report \in
         [missing  : [Symbols -> Unknown .. HourWindow],
          shown    : [Symbols -> [Sources -> Statuses \cup {"STARTING", "STALE"}]],
          observed : [Symbols ->
             [latest : Nat, status : {"NOT_RUN", "RUNNING", "SUCCESS", "FAILED"},
              success : Nat, failure : Nat, consecutive_failures : Nat]]]

DashboardInit ==
    /\ Init
    /\ reading = "idle"
    /\ asked = 1
    /\ clock = 0
    /\ report = BlankReport

-----------------------------------------------------------------------------
(* The derived status of a checkpoint, and the verdict of the ETL's own     *)
(* health check on it.                                                      *)

EventAge(row, at) ==
    IF at > row.last_event_time THEN at - row.last_event_time ELSE 0

(* Mutant: the reported status is shown as it is. *)
ReportedStatus(row, at) ==
    IF row.last_event_time = NoTime THEN "STARTING" ELSE row.status

DeriveCheckpointStatus(row, at) ==
    CASE row.status = "ABSENT"                                   -> "ABSENT"
      [] row.status # "ABSENT" /\ row.last_event_time = NoTime   -> "STARTING"
      [] row.last_event_time # NoTime /\ row.status = "LIVE"
            /\ EventAge(row, at) > StaleAge                      -> "STALE"
      [] OTHER                                                   -> row.status

(* Mutant: an event exactly as old as the limit is too old. *)
AnyAgeIssue(row, at) ==
    \/ row.status \notin {"LIVE", "RECOVERED"}
    \/ row.last_event_time = NoTime
    \/ EventAge(row, at) >= HealthAge

CheckpointHealthIssue(row, at) ==
    \/ row.status \notin {"LIVE", "RECOVERED"}
    \/ row.last_event_time = NoTime
    \/ EventAge(row, at) > HealthAge

Healthy(at) ==
    \A s \in Symbols, src \in Sources :
        ~CheckpointHealthIssue(checkpoints[s][src], at)

-----------------------------------------------------------------------------
(* build_dashboard, statement by statement.                                *)

(* A page load, or the refresh of a page that has its answer. *)
Ask ==
    /\ reading \in {"idle", "answered", "raised"}
    /\ clock' \in {2 * now, 2 * now + 1}
    /\ asked' = 1
    /\ report' = BlankReport
    /\ reading' = "latest_candle"

(* Mutant: the loop over the symbols has no end. *)
NextMarketForever == asked' = asked + 1 /\ reading' = "latest_candle"

NextMarket ==
    IF asked < NumSymbols
    THEN asked' = asked + 1 /\ reading' = "latest_candle"
    ELSE asked' = 1 /\ reading' = "checkpoints"

(* A symbol without any candle is summarised by Nones; the prices of one    *)
(* that has candles are left out.                                           *)
ReadLatestCandle ==
    /\ reading = "latest_candle"
    /\ IF \E m \in Minutes : candles[asked][m].stored
       THEN reading' = "coverage" /\ UNCHANGED asked
       ELSE NextMarket
    /\ UNCHANGED <<clock, report>>

LastCompletedOpen == clock \div 2 - 1

(* The missing minutes of the last hour; the trades shown beside them are   *)
(* left out.                                                                *)
ReadCoverage ==
    /\ reading = "coverage"
    /\ report' = [report EXCEPT !.missing[asked] =
          CountMissingCompletedMinutes(
             ClosedOpenTimes(candles, asked, LastCompletedOpen - (HourWindow - 1),
                             LastCompletedOpen),
             LastCompletedOpen, HourWindow)]
    /\ NextMarket
    /\ UNCHANGED clock

(* Every checkpoint row in one statement.  The list of recent runs that is  *)
(* read next is left out: it is shown as it is.                             *)
ReadCheckpoints ==
    /\ reading = "checkpoints"
    /\ report' = [report EXCEPT !.shown = [s \in Symbols |-> [src \in Sources |->
          DeriveCheckpointStatus(checkpoints[s][src], clock)]]]
    /\ reading' = "latest_run"
    /\ UNCHANGED <<asked, clock>>

(* The reconciliation runs of the symbol, and the newest of a set of runs.  *)
(* started_at orders runs as they were created.                             *)
Reconciliations(status) ==
    {i \in DOMAIN runs : /\ runs[i].symbol = asked
                         /\ runs[i].run_type = "RECONCILIATION"
                         /\ runs[i].status \in status}

NewestRun(found) == IF found = {} THEN 0 ELSE Max(found)

ReadLatestRun ==
    /\ reading = "latest_run"
    /\ LET i == NewestRun(Reconciliations({"RUNNING", "SUCCESS", "FAILED"}))
       IN  report' = [report EXCEPT !.observed[asked] = [@ EXCEPT
              !.latest = i, !.status = IF i = 0 THEN "NOT_RUN" ELSE runs[i].status]]
    /\ reading' = "last_success"
    /\ UNCHANGED <<asked, clock>>

(* Mutant: order_by(started_at.asc()). *)
ReadFirstSuccess ==
    /\ reading = "last_success"
    /\ LET found == Reconciliations({"SUCCESS"})
       IN  report' = [report EXCEPT !.observed[asked].success =
              IF found = {} THEN 0 ELSE Min(found)]
    /\ reading' = "last_failure"
    /\ UNCHANGED <<asked, clock>>

ReadLastSuccess ==
    /\ reading = "last_success"
    /\ report' = [report EXCEPT !.observed[asked].success =
          NewestRun(Reconciliations({"SUCCESS"}))]
    /\ reading' = "last_failure"
    /\ UNCHANGED <<asked, clock>>

ReadLastFailure ==
    /\ reading = "last_failure"
    /\ report' = [report EXCEPT !.observed[asked].failure =
          NewestRun(Reconciliations({"FAILED"}))]
    /\ reading' = "count_failures"
    /\ UNCHANGED <<asked, clock>>

(* reconciliation_observation formats finished_at of the latest run, which  *)
(* a RUNNING one does not have: the request ends with an AttributeError and *)
(* nothing of it is shown.                                                  *)
FailOnRunning ==
    /\ reading = "count_failures"
    /\ report.observed[asked].status = "RUNNING"
    /\ reading' = "raised"
    /\ asked' = 1
    /\ clock' = 0
    /\ report' = BlankReport

(* The failures since the last success, shown if the latest run failed.     *)
CountFailures ==
    /\ reading = "count_failures"
    /\ LET seen == report.observed[asked]
       IN  /\ seen.status # "RUNNING"
           /\ report' = [report EXCEPT !.observed[asked].consecutive_failures =
                 IF seen.status = "FAILED"
                 THEN Cardinality({i \in Reconciliations({"FAILED"}) : i > seen.success})
                 ELSE 0]
    /\ IF asked < NumSymbols
       THEN asked' = asked + 1 /\ reading' = "latest_run"
       ELSE asked' = 1 /\ reading' = "answered"
    /\ UNCHANGED clock

Read == \/ Ask \/ ReadLatestCandle \/ ReadCoverage \/ ReadCheckpoints
        \/ ReadLatestRun \/ ReadLastSuccess \/ ReadLastFailure
        \/ FailOnRunning \/ CountFailures

(* The overview is left for another page. *)
CloseDashboard ==
    /\ reading \in {"answered", "raised"}
    /\ reading' = "idle"
    /\ asked' = 1
    /\ clock' = 0
    /\ report' = BlankReport

-----------------------------------------------------------------------------
(* A dashboard that reports no missing minute is right, and stays right     *)
(* however long the page is left open: every minute of the hour it looked   *)
(* at has a closed candle.  (count_missing_completed_minutes over rows that *)
(* never reopen.)                                                           *)
NoneMissingStaysTrue ==
    \A s \in Symbols : report.missing[s] = 0 =>
        \A m \in LastCompletedOpen - (HourWindow - 1) .. LastCompletedOpen : Closed(s, m)

(* A source shown as LIVE has data of the last StaleAge in its own table,   *)
(* whatever happened to the collector since the checkpoint was written.     *)
(* (derive_checkpoint_status over a checkpoint committed with its data.)    *)
LiveHasFreshData ==
    \A s \in Symbols :
        /\ report.shown[s]["KLINE_1M"] = "LIVE" =>
              \E m \in Minutes : candles[s][m].stored /\ 2 * m + 2 + StaleAge >= clock
        /\ report.shown[s]["AGG_TRADE"] = "LIVE" =>
              \E m \in Minutes : <<s, m>> \in trades /\ 2 * m + 1 + StaleAge >= clock

(* The two readers of the checkpoints agree at any instant: if the          *)
(* dashboard would show every source as LIVE the container is healthy, and  *)
(* if it is healthy no source is shown as disconnected or failed.           *)
HealthAgreesWithDashboard ==
    \A at \in {2 * now, 2 * now + 1} :
        LET Shows(statuses) ==
                \A s \in Symbols, src \in Sources :
                    DeriveCheckpointStatus(checkpoints[s][src], at) \in statuses
        IN  /\ Shows({"LIVE"}) => Healthy(at)
            /\ Healthy(at) => Shows({"LIVE", "STALE", "RECOVERED"})

(* The parts of an answered observation fit together although they are read *)
(* by separate statements: a latest run that succeeded (failed) is not      *)
(* newer than the last success (failure) shown beside it.  Holds as long as *)
(* no finished run changes its status, that is while Redis answers.         *)
ObservationFitsTogether ==
    reading = "answered" => \A s \in Symbols :
        LET seen == report.observed[s]
        IN  /\ seen.status = "SUCCESS" => seen.success >= seen.latest
            /\ seen.status = "FAILED" => seen.failure >= seen.latest

-----------------------------------------------------------------------------
(* What the documents say and the code does not do.                        *)

(* docs/metrics.md:20: a run in progress is shown as RUNNING and is no      *)
(* failure.  The request is answered.                                       *)
DashboardAnswers == reading # "raised"
=============================================================================
