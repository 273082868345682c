----------------------------- MODULE MCDesktop -----------------------------
(* Two builds of the app, the default port and one other. *)
EXTENDS Desktop

TwoBuilds == {1, 2}
TwoPorts == {8080, 9090}
=============================================================================
