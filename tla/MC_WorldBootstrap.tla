-------------------------- MODULE MC_WorldBootstrap --------------------------
(***************************************************************************)
(* A cluster of WorldLogin and some zone servers.                          *)
(***************************************************************************)
EXTENDS WorldBootstrap
=============================================================================
