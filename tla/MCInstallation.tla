---------------------------- MODULE MCInstallation -----------------------------
(***************************************************************************)
(* Two releases: the one there is, with its baseline migration, and a next *)
(* one with a migration that cannot run twice.                             *)
(***************************************************************************)
EXTENDS Installation, TLC

Plans == <<<<"baseline">>, <<"baseline", "next">>>>
Versions == <<"v1", "v1">>

Interchangeable == Permutations(Connections)

=============================================================================
