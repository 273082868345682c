------------------------------ MODULE MCShell ------------------------------
(* The two plugins of the repository. *)
EXTENDS Shell

BothPlugins == {"/blog", "/todo"}
=============================================================================
