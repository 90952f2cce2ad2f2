------------------------------ MODULE WebServer ------------------------------
(***************************************************************************)
(* The web server beside the collector, asked by one browser tab that      *)
(* shows either the overview of all markets or the detail page of one.     *)
(* Both pages read the same tables; leaving a page forgets what it showed. *)
(***************************************************************************)
EXTENDS Dashboard, MarketDetail

tab == <<request, detail>>

WebInit == DashboardInit /\ DetailInit

(* "/" and "/api/dashboard": the first answer and every refresh. *)
ServeDashboard ==
    \/ page = "idle" /\ Read /\ UNCHANGED detail
    \/ CloseDetail /\ Ask

(* "/markets/{symbol}" and "/api/markets/{symbol}/history". *)
ServeDetail ==
    \/ reading = "idle" /\ ReadDetail /\ UNCHANGED request
    \/ CloseDashboard /\ \E s \in Symbols, window \in DetailWindows : AskDetail(s, window)

(* A market that is not configured: 404 and a tab that shows neither page.  *)
ServeNotFound ==
    \/ CloseDashboard /\ UNCHANGED detail
    \/ CloseDetail /\ UNCHANGED request

WebNext ==
    \/ Next /\ UNCHANGED tab
    \/ (ServeDashboard \/ ServeDetail \/ ServeNotFound) /\ UNCHANGED vars

WebSpec == WebInit /\ [][WebNext]_<<vars, tab>>
=============================================================================
