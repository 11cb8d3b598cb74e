------------------------ MODULE MC_ServiceController ------------------------
(***************************************************************************)
(* Three threads calling on_event: create_daemon with its Start, and two  *)
(* others (the API server, a signal handler).                             *)
(***************************************************************************)
EXTENDS ServiceController

CONSTANTS c1, c2, c3

MCCallers == {c1, c2, c3}
=============================================================================
