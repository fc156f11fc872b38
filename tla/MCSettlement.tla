---------------------------- MODULE MCSettlement ----------------------------
(***************************************************************************)
(* Settlement with a few requests on one key, one administrator at a time  *)
(* on its form and two prices.                                             *)
(***************************************************************************)
EXTENDS Settlement

CONSTANTS q1, q2, e1

MCRequests == {q1, q2}
MCEditors == {e1}
MCPrices == {2, 3}
=============================================================================
