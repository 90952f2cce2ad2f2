------------------------------ MODULE RestClient ------------------------------
(***************************************************************************)
(* The two retry loops around a REST request: the five attempts of         *)
(* BinanceMarketClient._get, and the reconnections of run_forever around   *)
(* the recovery that calls it.  The first recovery of a connection ends    *)
(* with the first call that raises; a periodic one goes on to the next     *)
(* symbol at once.  The handler of run_forever writes to the database      *)
(* before it sleeps: if that raises, run_forever ends.                     *)
(*                                                                         *)
(* Time is counted in units of 50 ms and only relative to the last answer, *)
(* so no outage, however long, is cut off by a bound.                      *)
(***************************************************************************)
EXTENDS Integers

CONSTANTS NumSymbols,    \* Len(settings.symbols)
          Pages,         \* the most pages of a symbol's range
          RetryAfters    \* what a throttling answer may ask for, in units

Second == 20

ASSUME RestAssumption ==
    /\ NumSymbols \in Nat \ {0}
    /\ Pages \in Nat \ {0}
    /\ RetryAfters # {} /\ RetryAfters \subseteq Nat

MaxAttempts == 5

VARIABLES
    phase,      \* where the collector's coroutine is
    job,        \* the kind of recovery, "NONE" in service
    left,       \* the symbols still to recover
    pages,      \* the pages still to fetch of the current one, at most
    attempt,    \* requests made by the call in progress
    failures,   \* attempt of run_forever
    delay,      \* what is being slept
    owed,       \* how long the exchange still asks not to be called, as far
                \* as a 418, 429 or 5xx asked this process, in seconds
    waited      \* time since the last failure

call == <<job, left, pages, attempt>>
vars == <<phase, call, failures, delay, owed, waited>>

Least(a, b) == IF a < b THEN a ELSE b

(* 2^n for the exponents that occur *)
PowerOfTwo == [n \in 0 .. 6 |-> <<1, 2, 4, 8, 16, 32, 64>>[n + 1]]

(* min(30, 2**attempt); attempt counts from 0 in the code. *)
RetryDelay == Second * Least(30, PowerOfTwo[attempt - 1])

(* Mutant: the cap is forgotten. *)
UncappedDelay(n) == Second * PowerOfTwo[Least(n, 6)] + 5 * (n % 3)

(* min(60, 2 ** min(attempt, 6)) + (attempt % 3) * 0.25 *)
ReconnectDelay(n) == Second * Least(60, PowerOfTwo[Least(n, 6)]) + 5 * (n % 3)

(* run_forever never sets attempt back while it lives.  From 7 on the delay *)
(* depends on attempt % 3 alone, so 10 stands for 7 again.                  *)
OneMoreFailure == IF failures = 9 THEN 7 ELSE failures + 1

RestTypeOK ==
    /\ phase \in {"start", "send", "sent", "asleep", "live", "disconnect",
                 "backoff", "dead"}
    /\ job \in {"NONE", "BACKFILL", "RECONCILIATION"}
    /\ left \in 0 .. NumSymbols
    /\ pages \in 0 .. Pages
    /\ attempt \in 0 .. MaxAttempts
    /\ failures \in 0 .. 9
    /\ delay \in Nat
    /\ owed \in Nat
    /\ waited \in Nat

Init ==
    /\ phase = "start"
    /\ job = "NONE" /\ left = 0 /\ pages = 0 /\ attempt = 0
    /\ failures = 0
    /\ delay = 0 /\ owed = 0 /\ waited = 0

-----------------------------------------------------------------------------
(* The callers: run_forever and _recover_all_symbols.                      *)

Recover(type) ==
    /\ job' = type
    /\ left' = NumSymbols
    /\ pages' = Pages
    /\ attempt' = 0
    /\ phase' = "send"

Connect ==
    /\ phase = "start"
    /\ Recover("BACKFILL")
    /\ UNCHANGED <<failures, delay, owed, waited>>

Reconcile ==
    /\ phase = "live"
    /\ Recover("RECONCILIATION")
    /\ UNCHANGED <<failures, delay, owed, waited>>

Sleep(time) == delay' = time

SleepIsOver ==
    /\ waited' = waited + delay
    /\ owed' = IF owed > delay THEN owed - delay ELSE 0

(* _run_connected raised: the handler of run_forever computes its delay and *)
(* awaits _mark_all_disconnected.                                           *)
BackOff ==
    /\ job' = "NONE" /\ left' = 0 /\ pages' = 0 /\ attempt' = 0
    /\ failures' = OneMoreFailure
    /\ Sleep(ReconnectDelay(OneMoreFailure))
    /\ phase' = "disconnect"

(* The rows are marked; run_forever sleeps before it connects again. *)
MarkAllDisconnected ==
    /\ phase = "disconnect"
    /\ phase' = "backoff"
    /\ UNCHANGED <<call, failures, delay, owed, waited>>

(* The database fails under the handler: run_forever ends, the process      *)
(* stays up and asks nothing any more.                                      *)
MarkAllDisconnectedFails ==
    /\ phase = "disconnect"
    /\ phase' = "dead"
    /\ delay' = 0
    /\ UNCHANGED <<call, failures, owed, waited>>

StreamFails ==
    /\ phase = "live"
    /\ BackOff
    /\ waited' = 0
    /\ UNCHANGED owed

(* Mutant: the number of reconnections is limited. *)
ReconnectNineTimes ==
    /\ phase = "backoff" /\ failures < 9
    /\ SleepIsOver
    /\ delay' = 0
    /\ phase' = "start"
    /\ UNCHANGED <<call, failures>>

Reconnect ==
    /\ phase = "backoff"
    /\ SleepIsOver
    /\ delay' = 0
    /\ phase' = "start"
    /\ UNCHANGED <<call, failures>>

(* Mutant: the loop over the symbols has no end. *)
NextSymbolForever ==
    /\ attempt' = 0
    /\ left' = left - 1 /\ pages' = Pages /\ phase' = "send"
    /\ UNCHANGED job

(* The next symbol's first page, or the end of the recovery.                *)
NextSymbol ==
    /\ attempt' = 0
    /\ IF left > 1
       THEN left' = left - 1 /\ pages' = Pages /\ phase' = "send" /\ UNCHANGED job
       ELSE left' = 0 /\ pages' = 0 /\ phase' = "live" /\ job' = "NONE"

(* The call raised.  raise_on_error is set for the first recovery alone.    *)
CallRaises ==
    \/ job = "BACKFILL" /\ BackOff
    \/ job = "RECONCILIATION" /\ NextSymbol /\ delay' = 0 /\ UNCHANGED failures

(* The database or Redis fails, or the range is found incomplete.           *)
RecoveryFails ==
    /\ phase = "send"
    /\ CallRaises
    /\ waited' = 0
    /\ UNCHANGED owed

(* The process, one that runs idle included, is killed and started again,   *)
(* whatever the exchange asked.                                             *)
Restart ==
    /\ phase' = "start"
    /\ job' = "NONE" /\ left' = 0 /\ pages' = 0 /\ attempt' = 0
    /\ failures' = 0 /\ delay' = 0 /\ waited' = 0 /\ owed' = 0

-----------------------------------------------------------------------------
(* _get, and the exchange's answers to it.                                 *)

Send ==
    /\ phase = "send"
    /\ attempt' = attempt + 1
    /\ phase' = "sent"
    /\ UNCHANGED <<job, left, pages, failures, delay, owed, waited>>

(* Mutant: next_start stays where it is, the same page is fetched again. *)
AnswerSamePage ==
    /\ phase = "sent"
    /\ \/ /\ pages > 1
          /\ attempt' = 0 /\ phase' = "send"
          /\ UNCHANGED <<job, left, pages>>
       \/ NextSymbol
    /\ waited' = 0
    /\ UNCHANGED <<failures, delay, owed>>

(* A success is returned.  The symbol has another page, or it is done.      *)
Answer ==
    /\ phase = "sent"
    /\ \/ /\ pages > 1
          /\ pages' = pages - 1 /\ attempt' = 0 /\ phase' = "send"
          /\ UNCHANGED <<job, left>>
       \/ NextSymbol
    /\ waited' = 0
    /\ UNCHANGED <<failures, delay, owed>>

Sleeping(time) ==
    /\ Sleep(time + 2 * (attempt - 1))
    /\ phase' = "asleep"
    /\ waited' = 0
    /\ UNCHANGED <<call, failures>>

(* No answer, an error of the server without Retry-After, or a permanent    *)
(* 4xx, whose HTTPStatusError is an HTTPError too: a Retry-After of such an *)
(* answer is not looked at, and limits nothing.                             *)
BadAnswer ==
    /\ phase = "sent"
    /\ Sleeping(RetryDelay)
    /\ UNCHANGED owed

(* Mutant: nothing is slept after the last attempt. *)
ThrottledAnswerAtOnce ==
    /\ phase = "sent"
    /\ \E r \in RetryAfters :
          /\ owed' = r
          /\ IF attempt = MaxAttempts
             THEN CallRaises /\ waited' = 0
             ELSE Sleeping(r)

(* 418, 429 or 5xx with Retry-After in seconds. *)
ThrottledAnswer ==
    /\ phase = "sent"
    /\ \E r \in RetryAfters : owed' = r /\ Sleeping(r)

(* Retry-After is a date: float() raises a ValueError, which no handler of  *)
(* _get catches.                                                            *)
DatedAnswer ==
    /\ phase = "sent"
    /\ CallRaises
    /\ waited' = 0
    /\ UNCHANGED owed

(* Mutant: the loop has no end. *)
WakeForever ==
    /\ phase = "asleep"
    /\ SleepIsOver
    /\ delay' = 0
    /\ attempt' = IF attempt < MaxAttempts THEN attempt ELSE attempt - 1
    /\ phase' = "send"
    /\ UNCHANGED <<job, left, pages, failures>>

(* The sleep is over: another attempt, or the last error is raised.         *)
Wake ==
    /\ phase = "asleep"
    /\ SleepIsOver
    /\ IF attempt < MaxAttempts
       THEN phase' = "send" /\ delay' = 0 /\ UNCHANGED <<call, failures>>
       ELSE CallRaises

Client == \/ Send \/ Answer \/ BadAnswer \/ ThrottledAnswer \/ DatedAnswer
          \/ Wake \/ Connect \/ Reconnect \/ MarkAllDisconnected

Next == \/ Client \/ Reconcile \/ StreamFails \/ RecoveryFails
        \/ MarkAllDisconnectedFails \/ Restart

Spec == Init /\ [][Next]_vars

(* The client's timeout ends every request and asyncio ends every sleep.    *)
RestSpec == Spec /\ WF_vars(Client)

-----------------------------------------------------------------------------
(* The exchange is not called before its Retry-After is over, whoever calls *)
(* next: another attempt, the next symbol of a periodic pass or a new       *)
(* connection; but for one that is a date, one that a permanent 4xx         *)
(* carries, or one asked before a restart.  (The sleep of _get, which also  *)
(* follows the last attempt.)                                               *)
RetryAfterIsRespected == [][Send => owed = 0]_vars

(* However many outages the process has lived through, a collector that     *)
(* waits to ask again does so within the longest sleep of a call plus a     *)
(* minute and half a second: the backoff does not shrink after a success,   *)
(* but it is capped.  (The delays of _get and run_forever.)                 *)
PauseIsBounded ==
    \E longest \in RetryAfters \cup {16 * Second} :
        waited + delay <= (longest + 8) + (60 * Second + 10)

Calling == phase \in {"send", "sent", "asleep"}

(* The order in which an attempt passes its awaits. *)
Stage == [sent |-> 0, asleep |-> 1, send |-> 2]

Nearer ==
    \/ left' < left
    \/ left' = left /\ pages' < pages
    \/ left' = left /\ pages' = pages /\ attempt' > attempt
    \/ /\ left' = left /\ pages' = pages /\ attempt' = attempt
       /\ Stage[phase'] > Stage[phase]

(* Whatever the exchange answers, a recovery comes nearer to its end with   *)
(* every step: a later symbol, page or attempt, or a later await of the     *)
(* attempt.  Symbols, pages and attempts are counted, so the requests it    *)
(* makes are bounded.  (range(5) in _get within the loops of the recovery.) *)
CallsMakeProgress == [][Calling => (~Calling)' \/ Nearer]_vars

(* Every call ends, whatever the exchange answers, a permanent refusal or a *)
(* Retry-After that cannot be read included.  (The five attempts of _get.)  *)
EveryCallEnds == (attempt # 0) ~> (attempt = 0)

(* If from some time on every answer is a success, no recovery fails and    *)
(* nobody restarts the process, the collector is in service again and       *)
(* again, whatever the outages left its counters at; unless the database    *)
(* failed while a disconnection was recorded, which ends run_forever for    *)
(* good.  (run_forever around _recover_all_symbols.)                        *)
ComesBackAfterOutage ==
    <>[][~(BadAnswer \/ ThrottledAnswer \/ DatedAnswer \/ RecoveryFails \/ Restart)]_vars
        => []<>(phase = "live") \/ <>[](phase = "dead")
=============================================================================
