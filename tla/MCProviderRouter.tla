-------------------------- MODULE MCProviderRouter --------------------------
(* A small instance of ProviderRouter for TLC.                             *)
EXTENDS ProviderRouter, TLC
=============================================================================
