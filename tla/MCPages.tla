------------------------------ MODULE MCPages ------------------------------
(* Two of Blog's filters. The first write publishes the one draft there is. *)
EXTENDS Pages

TwoFilters == {"all", "draft"}
NoDrafts == {<<ListKey("draft"), 2>>}
=============================================================================
