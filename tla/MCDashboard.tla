----------------------------- MODULE MCDashboard -----------------------------
(***************************************************************************)
(* A page that reconnects once, has up to two fetches of the statistics    *)
(* open, and keeps one row more than a fetch of the alerts answers.        *)
(***************************************************************************)
EXTENDS Dashboard

MCConnections == 1..2
=============================================================================
