----------------------------- MODULE MCStatsFeed -----------------------------
(* Small instances of StatsFeed for TLC. *)
EXTENDS StatsFeed
=============================================================================
