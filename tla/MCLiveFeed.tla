----------------------------- MODULE MCLiveFeed -----------------------------
(* The instance of LiveFeed for TLC. *)
EXTENDS LiveFeed
=============================================================================
