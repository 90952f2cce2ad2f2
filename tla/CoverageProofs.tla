---------------------------- MODULE CoverageProofs ----------------------------
(***************************************************************************)
(* What the completed-candle arithmetic returns, for every range.          *)
(***************************************************************************)
EXTENDS Coverage, TLAPS, FiniteSetTheorems, WellFoundedInduction

(* A non-empty set of naturals has a least member. *)
LEMMA LeastExists ==
    ASSUME NEW S \in SUBSET Nat, S # {}
    PROVE  \E m \in S : \A k \in S : m <= k
<1>1. \E m \in S : \A k \in S : ~ (<<k, m>> \in OpToRel(<, Nat))
  BY NatLessThanWellFounded, WFMin
<1>2. PICK m \in S : \A k \in S : ~ (<<k, m>> \in OpToRel(<, Nat))
  BY <1>1
<1>3. ASSUME NEW k \in S PROVE m <= k
  <2>1. <<k, m>> \in Nat \X Nat
    BY <1>2, <1>3
  <2>2. ~ (k < m)
    BY <1>2, <2>1 DEF OpToRel
  <2> QED
    BY <2>1, <2>2
<1> QED
  BY <1>2, <1>3

(* So has a non-empty set of positions a greatest. *)
LEMMA GreatestExists ==
    ASSUME NEW n \in Nat, NEW S \in SUBSET (1 .. n), S # {}
    PROVE  \E m \in S : \A k \in S : k <= m
<1> DEFINE T == {n - m : m \in S}
<1>1. T \in SUBSET Nat /\ T # {}
  <2>1. ASSUME NEW t \in T PROVE t \in Nat
    <3>1. PICK m \in S : t = n - m
      OBVIOUS
    <3>2. m \in 1 .. n
      OBVIOUS
    <3> QED
      BY <3>1, <3>2
  <2>2. PICK m \in S : TRUE
    OBVIOUS
  <2>3. n - m \in T
    BY <2>2
  <2> QED
    BY <2>1, <2>3
<1>2. PICK t \in T : \A k \in T : t <= k
  BY <1>1, LeastExists
<1>3. PICK m \in S : t = n - m
  BY <1>2
<1>4. ASSUME NEW k \in S PROVE k <= m
  BY <1>2, <1>3, <1>4
<1> QED
  BY <1>3, <1>4

(* first_missing_open_time returns None exactly when the range is covered,  *)
(* and otherwise a minute of the range that is missing, before which        *)
(* nothing is: a run that starts there leaves no earlier gap.               *)
THEOREM FirstMissingIsFirst ==
    ASSUME NEW closed, NEW start \in Nat, NEW last \in Int
    PROVE  LET first == FirstMissingOpenTime(closed, start, last)
           IN  \/ first = NoMinute /\ start .. last \subseteq closed
               \/ /\ first \in start .. last
                  /\ first \notin closed
                  /\ \A k \in start .. last : k < first => k \in closed
<1> DEFINE missing == {m \in start .. last : m \notin closed}
<1>1. CASE missing = {}
  BY <1>1 DEF FirstMissingOpenTime
<1>2. CASE missing # {}
  <2>1. missing \in SUBSET Nat
    OBVIOUS
  <2>2. \E m \in missing : \A k \in missing : m <= k
    BY <1>2, <2>1, LeastExists
  <2> DEFINE first == CHOOSE m \in missing : \A k \in missing : m <= k
  <2>3. first \in missing /\ \A k \in missing : first <= k
    BY <2>2
  <2>4. FirstMissingOpenTime(closed, start, last) = first
    BY <1>2 DEF FirstMissingOpenTime
  <2>5. ASSUME NEW k \in start .. last, k < first PROVE k \in closed
    BY <2>3, <2>5
  <2> HIDE DEF first
  <2> QED
    BY <2>3, <2>4, <2>5
<1> QED
  BY <1>1, <1>2

(* The dashboard and the collector agree on a range: the dashboard lists no *)
(* missing minute, and counts none, exactly when the collector finds none   *)
(* to recover.                                                              *)
THEOREM DashboardAgreesWithCollector ==
    ASSUME NEW closed, NEW window \in Nat, NEW last \in Int, last - (window - 1) \in Nat
    PROVE  LET start == last - (window - 1)
               none  == FirstMissingOpenTime(closed, start, last) = NoMinute
           IN  /\ none <=> MissingCompletedOpenTimes(closed, start, last) = {}
               /\ none <=> CountMissingCompletedMinutes(closed, last, window) = 0
<1> DEFINE start == last - (window - 1)
           missing == {m \in start .. last : m \notin closed}
<1>1. FirstMissingOpenTime(closed, start, last) = NoMinute <=> missing = {}
  <2>1. CASE missing = {}
    BY <2>1 DEF FirstMissingOpenTime
  <2>2. CASE missing # {}
    <3>1. FirstMissingOpenTime(closed, start, last) # NoMinute
      <4>1. PICK m \in start .. last : m \notin closed
        BY <2>2
      <4>2. ~ (start .. last \subseteq closed)
        BY <4>1
      <4>3. start \in Nat
        OBVIOUS
      <4> DEFINE first == FirstMissingOpenTime(closed, start, last)
      <4>4. first \in start .. last
        BY <4>2, <4>3, FirstMissingIsFirst
      <4> HIDE DEF first
      <4>5. first # NoMinute
        BY <4>3, <4>4 DEF NoMinute
      <4> QED
        BY <4>5 DEF first
    <3> QED
      BY <2>2, <3>1
  <2> QED
    BY <2>1, <2>2
<1>2. MissingCompletedOpenTimes(closed, start, last) = missing
  BY DEF MissingCompletedOpenTimes
<1>3. CountMissingCompletedMinutes(closed, last, window) = 0 <=> missing = {}
  <2>1. IsFiniteSet(start .. last)
    BY FS_Interval
  <2>2. IsFiniteSet(missing)
    BY <2>1, FS_Subset
  <2>3. Cardinality(missing) = 0 <=> missing = {}
    BY <2>2, FS_EmptySet
  <2> QED
    BY <2>3 DEF CountMissingCompletedMinutes
<1> QED
  BY <1>1, <1>2, <1>3

LEMMA CountIsNatural ==
    ASSUME NEW closed, NEW last \in Nat, NEW window \in Nat, last - (window - 1) \in Nat
    PROVE  CountMissingCompletedMinutes(closed, last, window) \in Nat
<1> DEFINE missing == {m \in last - (window - 1) .. last : m \notin closed}
<1>1. IsFiniteSet(last - (window - 1) .. last)
  BY FS_Interval
<1>2. IsFiniteSet(missing)
  BY <1>1, FS_Subset
<1>3. Cardinality(missing) \in Nat
  BY <1>2, FS_CardinalityType
<1> QED
  BY <1>3 DEF CountMissingCompletedMinutes
=============================================================================
