------------------------------- MODULE MCPages -------------------------------
(* Instances of the pages for TLC; the constants are in the cfg files.     *)
EXTENDS Pages
=============================================================================
