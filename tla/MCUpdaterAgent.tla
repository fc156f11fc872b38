-------------------------- MODULE MCUpdaterAgent --------------------------
(***************************************************************************)
(* UpdaterAgent on a small catalog.  Versions are model values; only v3 is *)
(* broken, so that an update can fail by itself.                           *)
(***************************************************************************)
EXTENDS UpdaterAgent

CONSTANTS v1, v2, v3

MCVersions == {v1, v2, v3}
MCBroken == {v3}
=============================================================================
