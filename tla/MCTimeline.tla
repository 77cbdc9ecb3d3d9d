----------------------------- MODULE MCTimeline -----------------------------
(* Timeline on a small instance. *)
EXTENDS Timeline

=============================================================================
