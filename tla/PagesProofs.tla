----------------------------- MODULE PagesProofs -----------------------------
(***************************************************************************)
(* What an open page shows never goes back in time, however often the data *)
(* change and whatever the relay loses.                                    *)
(***************************************************************************)
EXTENDS Pages, FiniteSetTheorems, TLAPS

USE PagesAssumption

Shape ==
    /\ version \in Versions
    /\ unpublished \subseteq Markets
    /\ stream \in [OpenPages -> {"connecting", "open"}]
    /\ inbox \in [OpenPages -> SUBSET Markets]
    /\ timer \in [OpenPages -> BOOLEAN]
    /\ delayed \in BOOLEAN
    /\ requests \in [OpenPages -> SUBSET (Versions \cup {Unread})]
    /\ shown \in [OpenPages -> Versions]

(* One request at a time, and what it read is no older than what the page   *)
(* shows: it was read after the last answer arrived.                        *)
NothingOlderIsComing ==
    \A p \in OpenPages :
        /\ shown[p] <= version
        /\ \A v, w \in requests[p] : v = w
        /\ \A v \in requests[p] : v # Unread => shown[p] <= v /\ v <= version

PagesInv == Shape /\ NothingOlderIsComing

LEMMA PagesInitInv == Init => PagesInv
<1> SUFFICES ASSUME Init PROVE PagesInv
  OBVIOUS
<1>1. NothingOlderIsComing
  BY DEF Init, NothingOlderIsComing
<1>2. version \in Versions /\ unpublished \subseteq Markets /\ shown \in [OpenPages -> Versions]
  BY DEF Init, Versions
<1>3. /\ stream \in [OpenPages -> {"connecting", "open"}]
      /\ inbox \in [OpenPages -> SUBSET Markets]
      /\ requests \in [OpenPages -> SUBSET (Versions \cup {Unread})]
  BY DEF Init
<1>4. timer \in [OpenPages -> BOOLEAN] /\ delayed \in BOOLEAN
  BY DEF Init
<1> QED
  BY <1>1, <1>2, <1>3, <1>4 DEF PagesInv, Shape

(* The steps that neither ask, read nor answer. *)
LEMMA RelayStep ==
    ASSUME PagesInv,
           \/ \E batch \in (SUBSET Markets) \ {{}} : Commit(batch)
           \/ \E m \in Markets : Publish(m)
           \/ PublicationFails \/ DelayIsOver \/ Interval
           \/ \E p \in OpenPages : Subscribe(p) \/ StreamBreaks(p)
           \/ \E p \in OpenPages, m \in Markets : OnMessage(p, m)
           \/ UNCHANGED vars
    PROVE  PagesInv' /\ UNCHANGED shown
<1> USE DEF relay
<1>1. Shape /\ NothingOlderIsComing
  BY DEF PagesInv
<1>2. /\ version' \in Versions /\ version' >= version
      /\ UNCHANGED <<requests, shown>>
  <2>1. version \in Versions
    BY <1>1 DEF Shape
  <2>2. CASE \E batch \in (SUBSET Markets) \ {{}} : Commit(batch)
    BY <2>1, <2>2 DEF Commit, Versions
  <2>3. CASE ~ \E batch \in (SUBSET Markets) \ {{}} : Commit(batch)
    BY <2>1, <2>3 DEF Versions, vars, Publish, PublicationFails, DelayIsOver, Interval,
                      Subscribe, StreamBreaks, OnMessage
  <2> QED
    BY <2>2, <2>3
<1>3. NothingOlderIsComing'
  BY <1>1, <1>2 DEF NothingOlderIsComing, Shape, Versions, Unread
<1>4. ASSUME NEW p \in OpenPages
      PROVE  [timer EXCEPT ![p] = TRUE] \in [OpenPages -> BOOLEAN]
  BY <1>1 DEF Shape
<1>5. "overview" \in OpenPages /\ "detail" \in OpenPages
  BY DEF OpenPages
<1>6. unpublished' \subseteq Markets
  BY <1>1 DEF Shape, vars, Commit, Publish, PublicationFails, DelayIsOver, Interval,
              Subscribe, StreamBreaks, OnMessage
<1>7. stream' \in [OpenPages -> {"connecting", "open"}]
  BY <1>1 DEF Shape, vars, Commit, Publish, PublicationFails, DelayIsOver, Interval,
              Subscribe, StreamBreaks, OnMessage
<1>8. inbox' \in [OpenPages -> SUBSET Markets]
  BY <1>1 DEF Shape, vars, Commit, Publish, PublicationFails, DelayIsOver, Interval,
              Subscribe, StreamBreaks, OnMessage
<1>9. timer' \in [OpenPages -> BOOLEAN] /\ delayed' \in BOOLEAN
  BY <1>1, <1>4, <1>5
  DEF Shape, vars, Commit, Publish, PublicationFails, DelayIsOver, Interval,
      Subscribe, StreamBreaks, OnMessage, ScheduleRefresh
<1> QED
  BY <1>1, <1>2, <1>3, <1>6, <1>7, <1>8, <1>9 DEF PagesInv, Shape

(* The steps of one page's requests. *)
LEMMA RequestStep ==
    ASSUME PagesInv, NEW p \in OpenPages,
           Refresh(p) \/ Query(p) \/ Answer(p) \/ RequestFails(p) \/ Reload(p)
           \/ (Click /\ p = "detail")
    PROVE  PagesInv' /\ \A q \in OpenPages : shown'[q] >= shown[q]
<1> USE DEF relay
<1>1. Shape /\ NothingOlderIsComing
  BY DEF PagesInv
<1>2. UNCHANGED <<version, unpublished>>
  BY DEF Refresh, Query, Answer, RequestFails, Reload, Click
<1>3. /\ stream' \in [OpenPages -> {"connecting", "open"}]
      /\ inbox' \in [OpenPages -> SUBSET Markets]
  BY <1>1 DEF Shape, Refresh, Query, Answer, RequestFails, Reload, Click
<1>4. timer' \in [OpenPages -> BOOLEAN] /\ delayed' \in BOOLEAN
  <2>1. [timer EXCEPT ![p] = FALSE] \in [OpenPages -> BOOLEAN] /\ timer \in [OpenPages -> BOOLEAN]
    BY <1>1 DEF Shape
  <2>2. (delayed /\ p # "detail") \in BOOLEAN /\ delayed \in BOOLEAN
    BY <1>1 DEF Shape
  <2> QED
    BY <2>1, <2>2 DEF Refresh, Query, Answer, RequestFails, Reload, Click
<1>5. /\ \A q \in OpenPages \ {p} : requests'[q] = requests[q] /\ shown'[q] = shown[q]
      /\ requests' = [requests EXCEPT ![p] = requests'[p]]
      /\ shown' = [shown EXCEPT ![p] = shown'[p]]
  BY <1>1 DEF Shape, Refresh, Query, Answer, RequestFails, Reload, Click
<1>6. /\ requests'[p] \in SUBSET (Versions \cup {Unread})
      /\ shown'[p] \in Versions /\ shown'[p] >= shown[p] /\ shown'[p] <= version
      /\ \A v, w \in requests'[p] : v = w
      /\ \A v \in requests'[p] : v # Unread => shown'[p] <= v /\ v <= version
  <2>1. /\ version \in Versions /\ shown[p] \in Versions /\ shown[p] <= version
        /\ requests[p] \in SUBSET (Versions \cup {Unread})
        /\ \A v, w \in requests[p] : v = w
        /\ \A v \in requests[p] : v # Unread => shown[p] <= v /\ v <= version
    BY <1>1 DEF Shape, NothingOlderIsComing
  <2> DEFINE typed == /\ requests \in [OpenPages -> SUBSET (Versions \cup {Unread})]
                      /\ shown \in [OpenPages -> Versions]
  <2>0. typed
    BY <1>1 DEF Shape
  <2>2. CASE Refresh(p) \/ (Click /\ p = "detail")
    <3>1. requests'[p] \in {requests[p], {Unread}} /\ shown' = shown
      BY <2>1, <2>0, <2>2 DEF Refresh, Click
    <3>2. shown'[p] = shown[p] /\ shown[p] \in Nat /\ version \in Nat
      BY <2>1, <3>1 DEF Versions
    <3>3. CASE requests'[p] = requests[p]
      BY <2>1, <3>2, <3>3
    <3>4. CASE requests'[p] = {Unread}
      BY <2>1, <3>2, <3>4
    <3> QED
      BY <3>1, <3>3, <3>4
  <2>3. CASE Query(p)
    <3>1. requests'[p] = (requests[p] \ {Unread}) \cup {version} /\ shown' = shown
      BY <2>1, <2>0, <2>3 DEF Query
    <3>2. requests[p] = {Unread}
      BY <2>1, <2>0, <2>3 DEF Query
    <3>3. requests'[p] = {version}
      BY <3>1, <3>2
    <3> QED
      BY <2>1, <3>1, <3>3 DEF Versions
  <2>4. CASE Answer(p)
    <3>1. PICK v \in requests[p] \ {Unread} :
             requests'[p] = requests[p] \ {v} /\ shown'[p] = v
      BY <2>1, <2>0, <2>4 DEF Answer
    <3>2. requests'[p] = {}
      BY <2>1, <3>1
    <3> QED
      BY <2>1, <3>1, <3>2 DEF Versions
  <2>5. CASE RequestFails(p)
    <3>1. requests'[p] \subseteq requests[p] /\ shown' = shown
      BY <2>1, <2>0, <2>5 DEF RequestFails
    <3>2. shown'[p] = shown[p] /\ shown[p] \in Nat /\ version \in Nat
      BY <2>1, <3>1 DEF Versions
    <3>3. \A v \in requests'[p] : v \in requests[p]
      BY <3>1
    <3> QED
      BY <2>1, <3>2, <3>3
  <2>6. CASE Reload(p)
    <3>1. requests'[p] = {} /\ shown'[p] = version
      BY <2>1, <2>0, <2>6 DEF Reload
    <3> QED
      BY <2>1, <3>1 DEF Versions
  <2> QED
    BY <2>2, <2>3, <2>4, <2>5, <2>6
<1>7. /\ requests' \in [OpenPages -> SUBSET (Versions \cup {Unread})]
      /\ shown' \in [OpenPages -> Versions]
  BY <1>1, <1>5, <1>6 DEF Shape
<1>8. NothingOlderIsComing'
  BY <1>1, <1>2, <1>5, <1>6 DEF NothingOlderIsComing
<1>9. \A q \in OpenPages : shown'[q] >= shown[q]
  BY <1>1, <1>5, <1>6 DEF Shape, Versions
<1> QED
  BY <1>1, <1>2, <1>3, <1>4, <1>7, <1>8, <1>9 DEF PagesInv, Shape

LEMMA PagesStep ==
    ASSUME PagesInv, [Next]_vars
    PROVE  PagesInv' /\ \A p \in OpenPages : shown'[p] >= shown[p]
<1>1. CASE \E p \in OpenPages : \/ Refresh(p) \/ Query(p) \/ Answer(p)
                                \/ RequestFails(p) \/ Reload(p)
                                \/ (Click /\ p = "detail")
  BY <1>1, RequestStep
<1>2. CASE PagesInv' /\ UNCHANGED shown
  BY <1>2 DEF PagesInv, Shape, Versions
<1>3. "detail" \in OpenPages
  BY DEF OpenPages
<1> QED
  BY <1>1, <1>2, <1>3, RelayStep DEF Next

(* Every state of the pages is well typed, and no page ever has two         *)
(* requests in flight.                                                      *)
THEOREM PagesTypeCorrect == Spec => []PagesTypeOK
<1>1. PagesInv => PagesTypeOK
  <2> SUFFICES ASSUME PagesInv, NEW p \in OpenPages
               PROVE  Cardinality(requests[p]) <= 1
    BY DEF PagesInv, Shape, PagesTypeOK
  <2>1. \A v, w \in requests[p] : v = w
    BY DEF PagesInv, NothingOlderIsComing
  <2>2. CASE requests[p] = {}
    BY <2>2, FS_EmptySet
  <2>3. CASE requests[p] # {}
    <3>1. PICK v : requests[p] = {v}
      BY <2>1, <2>3
    <3>2. Cardinality({v}) = 1
      BY FS_Singleton
    <3> QED
      BY <3>1, <3>2
  <2> QED
    BY <2>2, <2>3
<1> QED
  BY <1>1, PagesInitInv, PagesStep, PTL DEF Spec

(* No page ever goes back to older data than it shows: of all the timers,   *)
(* clicks, intervals and slow answers only one request is out at a time,    *)
(* and it read the tables after the last answer was shown.                  *)
THEOREM PagesNeverRegress == Spec => ShownNeverRegresses
<1>1. PagesInv /\ [Next]_vars => [\A p \in OpenPages : shown'[p] >= shown[p]]_vars
  BY PagesStep
<1> QED
  BY <1>1, PagesInitInv, PagesStep, PTL DEF Spec, ShownNeverRegresses
=============================================================================
