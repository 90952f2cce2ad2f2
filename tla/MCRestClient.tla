----------------------------- MODULE MCRestClient -----------------------------
(* An instance of the REST retries for TLC; the constants are in the cfg.  *)
EXTENDS RestClient
=============================================================================
