----------------------------- MODULE MCCollector -----------------------------
(* Instances of the collector for TLC; the constants are in the cfg files. *)
EXTENDS CollectorProperties
=============================================================================
