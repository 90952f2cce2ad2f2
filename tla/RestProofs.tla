----------------------------- MODULE RestProofs -----------------------------
(***************************************************************************)
(* The retries of RestClient respect Retry-After and stay bounded, for any *)
(* number of symbols and pages and whatever the exchange asks for.         *)
(***************************************************************************)
EXTENDS RestClient, TLAPS

USE RestAssumption DEF Second, MaxAttempts, Least

LEMMA PowersOfTwo ==
    /\ \A n \in 0 .. 6 : PowerOfTwo[n] \in 1 .. 64
    /\ \A n \in 0 .. 4 : PowerOfTwo[n] \in 1 .. 16
<1>1. \A n \in 0 .. 6 : n \in {0, 1, 2, 3, 4, 5, 6}
  OBVIOUS
<1> QED
  BY <1>1 DEF PowerOfTwo

LEMMA RetryDelayBound ==
    ASSUME attempt \in 1 .. 5
    PROVE  RetryDelay \in Nat /\ RetryDelay <= 16 * Second
<1>1. attempt - 1 \in 0 .. 4
  OBVIOUS
<1>2. PowerOfTwo[attempt - 1] \in 1 .. 16
  BY <1>1, PowersOfTwo
<1> QED
  BY <1>2 DEF RetryDelay

LEMMA ReconnectDelayBound ==
    ASSUME NEW n \in 0 .. 9
    PROVE  ReconnectDelay(n) \in Nat /\ ReconnectDelay(n) <= 60 * Second + 10
<1>1. Least(n, 6) \in 0 .. 6
  OBVIOUS
<1>2. PowerOfTwo[Least(n, 6)] \in 1 .. 64
  BY <1>1, PowersOfTwo
<1>3. n % 3 \in 0 .. 2
  OBVIOUS
<1>4. ReconnectDelay(n) = Second * Least(60, PowerOfTwo[Least(n, 6)]) + 5 * (n % 3)
  BY DEF ReconnectDelay
<1> HIDE DEF Least
<1>5. Least(60, PowerOfTwo[Least(n, 6)]) \in 1 .. 60
  BY <1>2 DEF Least
<1> QED
  BY <1>3, <1>4, <1>5

-----------------------------------------------------------------------------
(* What a sleeping collector owes is covered by what it sleeps, and nobody  *)
(* else owes anything.  The sleeps of a call and of run_forever follow each *)
(* other at most once before the next request.                              *)
Longest == RetryAfters \cup {16 * Second}

Owing ==
    /\ phase = "asleep" => owed <= delay /\ attempt >= 1
    /\ phase # "asleep" => owed = 0
    /\ phase = "send" => attempt < MaxAttempts
    /\ phase = "sent" => attempt >= 1

Pausing(longest) ==
    CASE phase = "asleep"  -> waited = 0 /\ delay <= longest + 8
      [] phase \in {"disconnect", "backoff"} -> waited <= longest + 8 /\ delay <= 60 * Second + 10
      [] OTHER             -> delay = 0 /\ waited <= longest + 8 + 60 * Second + 10

Recovering == phase \in {"send", "sent", "asleep"} => job # "NONE" /\ left >= 1

RestInv == RestTypeOK /\ Owing /\ Recovering /\ \E longest \in Longest : Pausing(longest)

LEMMA LongestInNat == Longest \subseteq Nat /\ 16 * Second \in Longest
  BY DEF Longest

LEMMA RestInitInv == Init => RestInv
<1> SUFFICES ASSUME Init PROVE RestInv
  OBVIOUS
<1>1. Pausing(16 * Second)
  BY DEF Init, Pausing
<1> QED
  BY <1>1, LongestInNat DEF Init, RestInv, RestTypeOK, Owing, Recovering

(* What run_forever and the loop over the symbols leave after a failure.    *)
LEMMA AfterCall ==
    ASSUME RestTypeOK, job # "NONE", left >= 1, CallRaises,
           owed' = 0, NEW longest \in Longest, waited' \in Nat,
           waited' <= longest + 8
    PROVE  RestInv'
<1> USE LongestInNat
<1>1. CASE BackOff
  <2>1. OneMoreFailure \in 0 .. 9
    BY DEF RestTypeOK, OneMoreFailure
  <2>2. /\ ReconnectDelay(OneMoreFailure) \in Nat
        /\ ReconnectDelay(OneMoreFailure) <= 60 * Second + 10
    BY <2>1, ReconnectDelayBound
  <2>3. delay' = ReconnectDelay(OneMoreFailure)
    BY <1>1 DEF BackOff, Sleep
  <2>4. Pausing(longest)'
    BY <1>1, <2>2, <2>3 DEF BackOff, Pausing
  <2>5. RestTypeOK'
    BY <1>1, <2>1, <2>2, <2>3 DEF BackOff, RestTypeOK
  <2> QED
    BY <1>1, <2>4, <2>5 DEF BackOff, RestInv, Owing, Recovering
<1>2. CASE NextSymbol /\ delay' = 0 /\ UNCHANGED failures
  <2>1. RestTypeOK'
    BY <1>2 DEF NextSymbol, RestTypeOK
  <2>2. Pausing(longest)'
    BY <1>2 DEF NextSymbol, Pausing
  <2>3. Owing' /\ Recovering'
    BY <1>2 DEF NextSymbol, RestTypeOK, Owing, Recovering
  <2> QED
    BY <2>1, <2>2, <2>3 DEF RestInv
<1> QED
  BY <1>1, <1>2 DEF CallRaises

LEMMA RestStep == RestInv /\ [Next]_vars => RestInv'
<1> SUFFICES ASSUME RestInv, [Next]_vars PROVE RestInv'
  OBVIOUS
<1> USE LongestInNat
<1>0. RestTypeOK /\ Owing /\ Recovering
  BY DEF RestInv
<1> PICK longest \in Longest : Pausing(longest)
  BY DEF RestInv
<1>1. CASE Connect \/ Reconcile
  <2>1. RestTypeOK' /\ Owing' /\ Recovering'
    BY <1>0, <1>1 DEF Connect, Reconcile, Recover, RestTypeOK, Owing, Recovering
  <2>2. Pausing(longest)'
    BY <1>1 DEF Connect, Reconcile, Recover, Pausing
  <2> QED
    BY <2>1, <2>2 DEF RestInv
<1>2. CASE Reconnect
  <2>1. waited' = waited + delay /\ owed' = 0
    BY <1>0, <1>2 DEF Reconnect, SleepIsOver, RestTypeOK, Owing
  <2>2. waited' \in Nat /\ waited' <= longest + 8 + 60 * Second + 10
    BY <1>0, <1>2, <2>1 DEF Reconnect, Pausing, RestTypeOK
  <2>3. Pausing(longest)'
    BY <1>2, <2>2 DEF Reconnect, Pausing
  <2>4. RestTypeOK' /\ Owing' /\ Recovering'
    BY <1>0, <1>2, <2>1, <2>2 DEF Reconnect, call, RestTypeOK, Owing, Recovering
  <2> QED
    BY <2>3, <2>4 DEF RestInv
<1>13. CASE MarkAllDisconnected \/ MarkAllDisconnectedFails
  <2>1. RestTypeOK' /\ Owing' /\ Recovering'
    BY <1>0, <1>13 DEF MarkAllDisconnected, MarkAllDisconnectedFails, call, RestTypeOK,
                       Owing, Recovering
  <2>2. waited \in Nat /\ delay \in Nat
    BY <1>0 DEF RestTypeOK
  <2>3. Pausing(longest)'
    BY <1>13, <2>2 DEF MarkAllDisconnected, MarkAllDisconnectedFails, Pausing
  <2> QED
    BY <2>1, <2>3 DEF RestInv
<1>3. CASE StreamFails
  <2>1. OneMoreFailure \in 0 .. 9
    BY <1>0 DEF RestTypeOK, OneMoreFailure
  <2>2. /\ ReconnectDelay(OneMoreFailure) \in Nat
        /\ ReconnectDelay(OneMoreFailure) <= 60 * Second + 10
    BY <2>1, ReconnectDelayBound
  <2>3. delay' = ReconnectDelay(OneMoreFailure) /\ waited' = 0 /\ owed' = 0
    BY <1>0, <1>3 DEF StreamFails, BackOff, Sleep, Owing
  <2>4. Pausing(longest)'
    BY <1>3, <2>2, <2>3 DEF StreamFails, BackOff, Pausing
  <2>5. RestTypeOK' /\ Owing' /\ Recovering'
    BY <1>0, <1>3, <2>1, <2>2, <2>3
       DEF StreamFails, BackOff, RestTypeOK, Owing, Recovering
  <2> QED
    BY <2>4, <2>5 DEF RestInv
<1>4. CASE RecoveryFails \/ DatedAnswer
  <2>1. owed' = 0 /\ waited' = 0 /\ CallRaises /\ job # "NONE" /\ left >= 1
    BY <1>0, <1>4 DEF RecoveryFails, DatedAnswer, Owing, Recovering
  <2> QED
    BY <1>0, <2>1, AfterCall
<1>5. CASE Send
  <2>1. RestTypeOK' /\ Owing' /\ Recovering'
    BY <1>0, <1>5 DEF Send, RestTypeOK, Owing, Recovering
  <2>2. Pausing(longest)'
    BY <1>5 DEF Send, Pausing
  <2> QED
    BY <2>1, <2>2 DEF RestInv
<1>6. CASE Answer
  <2>1. RestTypeOK' /\ Owing' /\ Recovering'
    BY <1>0, <1>6 DEF Answer, NextSymbol, RestTypeOK, Owing, Recovering
  <2>2. Pausing(longest)'
    BY <1>6 DEF Answer, NextSymbol, Pausing
  <2> QED
    BY <2>1, <2>2 DEF RestInv
<1>7. ASSUME phase = "sent", NEW time \in Nat, NEW l \in Longest, time <= l,
             owed' \in Nat, owed' <= time, Sleeping(time)
      PROVE  RestInv'
  <2>1. attempt \in 1 .. 5
    BY <1>0, <1>7 DEF RestTypeOK, Owing
  <2>2. delay' = time + 2 * (attempt - 1) /\ waited' = 0 /\ phase' = "asleep"
    BY <1>7 DEF Sleeping, Sleep
  <2>3. Pausing(l)'
    BY <1>7, <2>1, <2>2 DEF Pausing
  <2>4. RestTypeOK' /\ Owing' /\ Recovering'
    BY <1>0, <1>7, <2>1, <2>2 DEF Sleeping, call, RestTypeOK, Owing, Recovering
  <2> QED
    BY <2>3, <2>4 DEF RestInv
<1>8. CASE BadAnswer
  <2>1. attempt \in 1 .. 5 /\ owed' = 0
    BY <1>0, <1>8 DEF BadAnswer, RestTypeOK, Owing
  <2>2. RetryDelay \in Nat /\ RetryDelay <= 16 * Second
    BY <2>1, RetryDelayBound
  <2> QED
    BY <1>7, <1>8, <2>1, <2>2 DEF BadAnswer
<1>9. CASE ThrottledAnswer
  <2>1. PICK r \in RetryAfters : owed' = r /\ Sleeping(r)
    BY <1>9 DEF ThrottledAnswer
  <2>2. r \in Nat /\ r \in Longest
    BY DEF Longest
  <2> QED
    BY <1>7, <1>9, <2>1, <2>2 DEF ThrottledAnswer
<1>10. CASE Wake
  <2>1. owed' = 0 /\ waited' = delay
    BY <1>0, <1>10 DEF Wake, SleepIsOver, RestTypeOK, Owing, Pausing
  <2>2. waited' \in Nat /\ waited' <= longest + 8
    BY <1>0, <1>10, <2>1 DEF Wake, Pausing, RestTypeOK
  <2>3. CASE attempt < MaxAttempts
    <3>1. RestTypeOK' /\ Owing' /\ Recovering'
      BY <1>0, <1>10, <2>1, <2>2, <2>3 DEF Wake, call, RestTypeOK, Owing, Recovering
    <3>2. Pausing(longest)'
      BY <1>10, <2>2, <2>3 DEF Wake, Pausing
    <3> QED
      BY <3>1, <3>2 DEF RestInv
  <2>4. CASE ~(attempt < MaxAttempts)
    <3>1. CallRaises /\ job # "NONE" /\ left >= 1
      BY <1>0, <1>10, <2>4 DEF Wake, Recovering
    <3> QED
      BY <1>0, <2>1, <2>2, <3>1, AfterCall
  <2> QED
    BY <2>3, <2>4
<1>11. CASE Restart
  <2>1. RestTypeOK' /\ Owing' /\ Recovering'
    BY <1>11 DEF Restart, RestTypeOK, Owing, Recovering
  <2>2. Pausing(longest)'
    BY <1>11 DEF Restart, Pausing
  <2> QED
    BY <2>1, <2>2 DEF RestInv
<1>12. CASE UNCHANGED vars
  BY <1>12 DEF vars, call, RestInv, RestTypeOK, Owing, Recovering, Pausing
<1> QED
  BY <1>1, <1>2, <1>3, <1>4, <1>5, <1>6, <1>8, <1>9, <1>10, <1>11, <1>12, <1>13
     DEF Next, Client

-----------------------------------------------------------------------------
(* The counters of both retry loops stay within their bounds.               *)
THEOREM RestTypeCorrect == Spec => []RestTypeOK
<1>1. RestInv => RestTypeOK
  BY DEF RestInv
<1> QED
  BY <1>1, RestInitInv, RestStep, PTL DEF Spec

(* No request is sent before the exchange's Retry-After is over, whatever   *)
(* it asked for and whichever loop sends the next request.                  *)
THEOREM RetryAfterAlwaysRespected == Spec => RetryAfterIsRespected
<1>1. RestInv => [Send => owed = 0]_vars
  BY DEF RestInv, Owing, Send
<1> QED
  BY <1>1, RestInitInv, RestStep, PTL DEF Spec, RetryAfterIsRespected

(* A recovery never turns in a circle of requests: attempts, pages and      *)
(* symbols are used up one after the other, and an exception ends it or     *)
(* leaves the symbol.                                                       *)
THEOREM RecoveriesUseUpTheirCalls == Spec => CallsMakeProgress
<1>1. ASSUME RestInv, [Next]_vars
      PROVE  [Calling => (~Calling)' \/ Nearer]_vars
  <2> SUFFICES ASSUME Calling, vars' # vars
               PROVE  (~Calling)' \/ Nearer
    OBVIOUS
  <2>0. /\ RestTypeOK /\ Owing /\ job # "NONE" /\ left >= 1
        /\ phase \in {"send", "sent", "asleep"}
    BY <1>1 DEF RestInv, Recovering, Calling
  <2>1. CASE Restart
    BY <2>1 DEF Restart, Calling
  <2>2. ASSUME CallRaises PROVE (~Calling)' \/ Nearer
    BY <2>0, <2>2 DEF CallRaises, BackOff, NextSymbol, Calling, Nearer, RestTypeOK
  <2>3. CASE RecoveryFails \/ DatedAnswer
    BY <2>2, <2>3 DEF RecoveryFails, DatedAnswer
  <2>4. CASE Send
    BY <2>0, <2>4 DEF Send, Nearer, RestTypeOK
  <2>5. CASE Answer
    BY <2>0, <2>5 DEF Answer, NextSymbol, Calling, Nearer, RestTypeOK
  <2>6. CASE BadAnswer \/ ThrottledAnswer
    BY <2>0, <2>6 DEF BadAnswer, ThrottledAnswer, Sleeping, call, Nearer, Stage
  <2>7. CASE Wake
    <3>1. CASE attempt < MaxAttempts
      BY <2>0, <2>7, <3>1 DEF Wake, call, Nearer, Stage
    <3>2. CASE ~(attempt < MaxAttempts)
      BY <2>2, <2>7, <3>2 DEF Wake
    <3> QED
      BY <3>1, <3>2
  <2>8. /\ ~Connect /\ ~Reconnect /\ ~Reconcile /\ ~StreamFails
        /\ ~MarkAllDisconnected /\ ~MarkAllDisconnectedFails
    BY <2>0 DEF Connect, Reconnect, Reconcile, StreamFails, MarkAllDisconnected,
                MarkAllDisconnectedFails
  <2> QED
    BY <1>1, <2>1, <2>3, <2>4, <2>5, <2>6, <2>7, <2>8 DEF Next, Client
<1> QED
  BY <1>1, RestInitInv, RestStep, PTL DEF Spec, CallsMakeProgress

(* A collector that waits asks again within the longest sleep of a call     *)
(* plus the longest of run_forever, after any number of outages.            *)
THEOREM PauseAlwaysBounded == Spec => []PauseIsBounded
<1>1. RestInv => PauseIsBounded
  <2> SUFFICES ASSUME RestInv PROVE PauseIsBounded
    OBVIOUS
  <2> PICK longest \in Longest : Pausing(longest)
    BY DEF RestInv
  <2>1. waited \in Nat /\ delay \in Nat /\ longest \in Nat
    BY LongestInNat DEF RestInv, RestTypeOK
  <2>2. waited + delay <= (longest + 8) + (60 * Second + 10)
    BY <2>1 DEF Pausing
  <2> QED
    BY <2>2 DEF PauseIsBounded, Longest
<1> QED
  BY <1>1, RestInitInv, RestStep, PTL DEF Spec
=============================================================================
