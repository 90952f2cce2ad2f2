------------------------------ MODULE Coverage ------------------------------
(***************************************************************************)
(* The completed-candle arithmetic of the collector and of the dashboard.  *)
(* A minute stands for the open time of its one-minute candle, so that     *)
(* range(start, last + ONE_MINUTE_MS, ONE_MINUTE_MS) is start .. last.     *)
(***************************************************************************)
EXTENDS Integers, FiniteSets

(* Python's None where a minute is expected. *)
NoMinute == -1

(* Mutant: range() without the last minute. *)
MissingBeforeLastOpenTime(closed, start, last) == (start .. last - 1) \ closed

(* The minutes of the range with no closed candle.  The dashboard lists     *)
(* them in order; only the members matter here.                             *)
MissingCompletedOpenTimes(closed, start, last) == (start .. last) \ closed

(* The earliest missing minute of the range, or None. *)
FirstMissingOpenTime(closed, start, last) ==
    LET missing == {m \in start .. last : m \notin closed}
    IN  IF missing = {}
        THEN NoMinute
        ELSE CHOOSE m \in missing : \A k \in missing : m <= k

(* Mutant: range() without the last minute. *)
CountMissingBeforeLastMinute(closed, last, window) ==
    Cardinality({m \in last - (window - 1) .. last - 1 : m \notin closed})

(* How many of the last "window" completed minutes are missing. *)
CountMissingCompletedMinutes(closed, last, window) ==
    Cardinality({m \in last - (window - 1) .. last : m \notin closed})
=============================================================================
