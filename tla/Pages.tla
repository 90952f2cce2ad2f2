-------------------------------- MODULE Pages --------------------------------
(***************************************************************************)
(* How new data reach an open page: the collector commits a batch and then *)
(* publishes a notification for each of its events, Redis hands it to the  *)
(* subscriptions of the moment, the web server relays it to the page, and  *)
(* the page asks the API again.  One overview and one detail page are      *)
(* open.  Data are followed for one market, the one of the detail page;    *)
(* "other" stands for the rest.                                            *)
(***************************************************************************)
EXTENDS Integers, FiniteSets

CONSTANTS MaxVersion   \* bound: how often the data of the market change

ASSUME PagesAssumption == MaxVersion \in Nat

OpenPages == {"overview", "detail"}
Markets   == {"shown", "other"}
Versions  == 0 .. MaxVersion

(* A request whose statements have not run yet. *)
Unread == -1

VARIABLES
    version,      \* the data of the market in the tables
    unpublished,  \* the markets of the committed batch still to be announced
    stream,       \* the EventSource of each page: "connecting" or "open"
    inbox,        \* the markets whose notifications are on their way to it
    timer,        \* refreshTimer is set
    delayed,      \* the setTimeout of the detail page's onerror is running
    requests,     \* requests in flight: Unread, or the version they read
    shown         \* the version each page shows

relay == <<stream, inbox>>
vars  == <<version, unpublished, relay, timer, delayed, requests, shown>>

PagesTypeOK ==
    /\ version \in Versions
    /\ unpublished \subseteq Markets
    /\ stream \in [OpenPages -> {"connecting", "open"}]
    /\ inbox \in [OpenPages -> SUBSET Markets]
    /\ timer \in [OpenPages -> BOOLEAN]
    /\ delayed \in BOOLEAN
    /\ requests \in [OpenPages -> SUBSET (Versions \cup {Unread})]
    /\ \A p \in OpenPages : Cardinality(requests[p]) <= 1
    /\ shown \in [OpenPages -> Versions]

(* Both pages were just loaded. *)
Init ==
    /\ version = 0
    /\ unpublished = {}
    /\ stream = [p \in OpenPages |-> "connecting"]
    /\ inbox = [p \in OpenPages |-> {}]
    /\ timer = [p \in OpenPages |-> FALSE]
    /\ delayed = FALSE
    /\ requests = [p \in OpenPages |-> {}]
    /\ shown = [p \in OpenPages |-> 0]

-----------------------------------------------------------------------------
(* The collector, Redis and the relay of the web server.                   *)

(* A batch or a backfill is committed.  It may store what is there already. *)
Commit(batch) ==
    /\ unpublished = {}
    /\ unpublished' = batch
    /\ version' \in IF "shown" \in batch /\ version < MaxVersion
                    THEN {version, version + 1}
                    ELSE {version}
    /\ UNCHANGED <<relay, timer, delayed, requests, shown>>

(* Redis keeps nothing for a page that is not subscribed. *)
Publish(m) ==
    /\ m \in unpublished
    /\ unpublished' = unpublished \ {m}
    /\ inbox' = [p \in OpenPages |->
          IF stream[p] = "open" THEN inbox[p] \cup {m} ELSE inbox[p]]
    /\ UNCHANGED <<version, stream, timer, delayed, requests, shown>>

(* Redis does not answer, or the collector dies: the rest is not announced. *)
PublicationFails ==
    /\ unpublished # {}
    /\ unpublished' = {}
    /\ UNCHANGED <<version, relay, timer, delayed, requests, shown>>

(* The subscription is confirmed. *)
Subscribe(p) ==
    /\ stream[p] = "connecting"
    /\ stream' = [stream EXCEPT ![p] = "open"]
    /\ UNCHANGED <<version, unpublished, inbox, timer, delayed, requests, shown>>

-----------------------------------------------------------------------------
(* The pages.                                                              *)

ScheduleRefresh(p) == timer' = [timer EXCEPT ![p] = TRUE]

(* onerror: the web server, Redis or the network ends the stream or refuses *)
(* it.  The browser connects again by itself.                               *)
StreamBreaks(p) ==
    /\ stream' = [stream EXCEPT ![p] = "connecting"]
    /\ inbox' = [inbox EXCEPT ![p] = {}]
    /\ \/ p = "overview" /\ ScheduleRefresh(p) /\ UNCHANGED delayed
       \/ p = "detail" /\ delayed' = TRUE /\ UNCHANGED timer
    /\ UNCHANGED <<version, unpublished, requests, shown>>

DelayIsOver ==
    /\ delayed
    /\ delayed' = FALSE
    /\ ScheduleRefresh("detail")
    /\ UNCHANGED <<version, unpublished, relay, requests, shown>>

(* Mutant: the detail page compares with the wrong field. *)
OnOtherMessage(p, m) ==
    /\ m \in inbox[p]
    /\ inbox' = [inbox EXCEPT ![p] = @ \ {m}]
    /\ IF p = "overview" \/ m = "other" THEN ScheduleRefresh(p) ELSE UNCHANGED timer
    /\ UNCHANGED <<version, unpublished, stream, delayed, requests, shown>>

(* The detail page looks at the notifications of its own market alone. *)
OnMessage(p, m) ==
    /\ m \in inbox[p]
    /\ inbox' = [inbox EXCEPT ![p] = @ \ {m}]
    /\ IF p = "overview" \/ m = "shown" THEN ScheduleRefresh(p) ELSE UNCHANGED timer
    /\ UNCHANGED <<version, unpublished, stream, delayed, requests, shown>>

(* Mutant: the interval is a fallback for a lost stream only. *)
IntervalWhileDisconnected ==
    /\ stream["overview"] = "connecting"
    /\ ScheduleRefresh("overview")
    /\ UNCHANGED <<version, unpublished, relay, delayed, requests, shown>>

(* The overview's setInterval *)
Interval ==
    /\ ScheduleRefresh("overview")
    /\ UNCHANGED <<version, unpublished, relay, delayed, requests, shown>>

(* Mutant: refreshInFlight is not looked at. *)
RefreshAnyway(p) ==
    /\ timer[p]
    /\ timer' = [timer EXCEPT ![p] = FALSE]
    /\ requests' = [requests EXCEPT ![p] = @ \cup {Unread}]
    /\ UNCHANGED <<version, unpublished, relay, delayed, shown>>

(* The timer fires.  While a request is in flight, that is all.             *)
Refresh(p) ==
    /\ timer[p]
    /\ timer' = [timer EXCEPT ![p] = FALSE]
    /\ requests' = [requests EXCEPT ![p] = IF @ = {} THEN {Unread} ELSE @]
    /\ UNCHANGED <<version, unpublished, relay, delayed, shown>>

(* Mutant: a click does not look at refreshInFlight. *)
ClickAnyway ==
    /\ requests' = [requests EXCEPT !["detail"] = @ \cup {Unread}]
    /\ UNCHANGED <<version, unpublished, relay, timer, delayed, shown>>

(* Another window is chosen on the detail page; a click while a request is  *)
(* in flight does nothing.                                                  *)
Click ==
    /\ requests["detail"] = {}
    /\ requests' = [requests EXCEPT !["detail"] = {Unread}]
    /\ UNCHANGED <<version, unpublished, relay, timer, delayed, shown>>

(* The web server reads the tables for a request. *)
Query(p) ==
    /\ Unread \in requests[p]
    /\ requests' = [requests EXCEPT ![p] = (@ \ {Unread}) \cup {version}]
    /\ UNCHANGED <<version, unpublished, relay, timer, delayed, shown>>

Answer(p) ==
    \E v \in requests[p] \ {Unread} :
        /\ requests' = [requests EXCEPT ![p] = @ \ {v}]
        /\ shown' = [shown EXCEPT ![p] = v]
        /\ UNCHANGED <<version, unpublished, relay, timer, delayed>>

(* No answer, or one that is no success.  Neither page schedules another    *)
(* refresh, though the detail page says that it is retrying.                *)
RequestFails(p) ==
    \E v \in requests[p] :
        /\ requests' = [requests EXCEPT ![p] = @ \ {v}]
        /\ UNCHANGED <<version, unpublished, relay, timer, delayed, shown>>

(* The page is opened anew: the server renders it from the tables. *)
Reload(p) ==
    /\ stream' = [stream EXCEPT ![p] = "connecting"]
    /\ inbox' = [inbox EXCEPT ![p] = {}]
    /\ timer' = [timer EXCEPT ![p] = FALSE]
    /\ delayed' = (delayed /\ p # "detail")
    /\ requests' = [requests EXCEPT ![p] = {}]
    /\ shown' = [shown EXCEPT ![p] = version]
    /\ UNCHANGED <<version, unpublished>>

Next ==
    \/ \E batch \in (SUBSET Markets) \ {{}} : Commit(batch)
    \/ \E m \in Markets : Publish(m)
    \/ PublicationFails \/ DelayIsOver \/ Interval \/ Click
    \/ \E p \in OpenPages :
          \/ Subscribe(p) \/ StreamBreaks(p) \/ Refresh(p) \/ Query(p)
          \/ Answer(p) \/ RequestFails(p) \/ Reload(p)
          \/ \E m \in Markets : OnMessage(p, m)

Spec == Init /\ [][Next]_vars

(***************************************************************************)
(* Fairness.  Timers fire, a notification or a request on its way gets     *)
(* somewhere, the browser connects again, and an API that is asked again   *)
(* and again does not fail every time.  Nothing makes the collector commit *)
(* or the user click.                                                      *)
(***************************************************************************)
PagesSpec ==
    /\ Spec
    /\ WF_vars(Interval) /\ WF_vars(DelayIsOver)
    /\ WF_vars(PublicationFails \/ \E m \in Markets : Publish(m))
    /\ \A p \in OpenPages :
          /\ WF_vars(Subscribe(p))
          /\ WF_vars(\E m \in Markets : OnMessage(p, m))
          /\ WF_vars(Refresh(p))
          /\ SF_vars(Query(p))
          /\ SF_vars(Answer(p))

-----------------------------------------------------------------------------
(* A page never goes back to older data than it shows, whichever timers,    *)
(* clicks and slow answers overlap.  (refreshInFlight lets one request out  *)
(* at a time.)                                                              *)
ShownNeverRegresses == [][\A p \in OpenPages : shown'[p] >= shown[p]]_vars

(* Whatever notifications are lost, by Redis, by a page between two         *)
(* streams or by the death of the collector, the overview shows what was    *)
(* committed.  (Its setInterval.)                                           *)
OverviewConverges ==
    \A v \in Versions : (version = v) ~> (shown["overview"] >= v)

(* The detail page of a market that keeps being traded shows what was       *)
(* committed: as long as notifications of its market keep arriving, those   *)
(* that are dropped during a refresh and refreshes that fail do no harm.    *)
(* (scheduleRefresh and refreshInFlight of market_detail.js.)               *)
DetailFollowsItsMarket ==
    []<><<OnMessage("detail", "shown")>>_vars =>
        \A v \in Versions : (version = v) ~> (shown["detail"] >= v)

-----------------------------------------------------------------------------
(* What the documents say and the code does not do.                        *)

(* README.md:209: the page queries the API again at a bounded period, and   *)
(* market_detail.js:310 speaks of the detail view's periodic refresh.  The  *)
(* detail page shows what was committed.                                    *)
DetailConverges ==
    \A v \in Versions : (version = v) ~> (shown["detail"] >= v)
=============================================================================
