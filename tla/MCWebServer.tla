----------------------------- MODULE MCWebServer -----------------------------
(* Instances of the web server for TLC; the constants are in the cfg files. *)
EXTENDS WebServer
=============================================================================
