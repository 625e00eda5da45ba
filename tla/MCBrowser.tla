------------------------------ MODULE MCBrowser ------------------------------
(* TLC instances of Browser. *)
EXTENDS Browser
==============================================================================
