---------------------------- MODULE CandleContract ----------------------------
(***************************************************************************)
(* What the candle table and the run history promise to their readers, the *)
(* dashboard and the operator, whoever writes them and however the writing *)
(* fails: a candle only advances from absent to open to closed, and the    *)
(* run history only vouches for closed candles.  It may take its word back *)
(* but never vouches and stores in one step.                               *)
(***************************************************************************)
CONSTANTS Candles      \* the candle identities: symbol and open time

VARIABLES opened,      \* the candles that have a row
          closed,      \* the candles whose row is closed
          vouched      \* the candles inside the range of a SUCCESS run

ContractTypeOK ==
    /\ opened \subseteq Candles
    /\ closed \subseteq opened
    /\ vouched \subseteq closed

ContractInit == opened = {} /\ closed = {} /\ vouched = {}

(* Rows are stored; some are closed, or close rows that were open. *)
Store ==
    /\ opened \subseteq opened' /\ opened' \subseteq Candles
    /\ closed \subseteq closed' /\ closed' \subseteq opened'
    /\ UNCHANGED vouched

(* A verified range enters the run history. *)
Vouch ==
    /\ vouched \subseteq vouched' /\ vouched' \subseteq closed
    /\ UNCHANGED <<opened, closed>>

(* A run that vouched for a range is withdrawn. *)
Withdraw ==
    /\ vouched' \subseteq vouched
    /\ UNCHANGED <<opened, closed>>

ContractNext == Store \/ Vouch \/ Withdraw

ContractSpec ==
    ContractInit /\ [][ContractNext]_<<opened, closed, vouched>>
=============================================================================
