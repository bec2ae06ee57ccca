------------------------------ MODULE MCServers ------------------------------
(***************************************************************************)
(* Three servers for TLC.                                                  *)
(***************************************************************************)
EXTENDS ServersSafety
=============================================================================
