--------------------------- MODULE MCSuggestions ----------------------------
(* Instances of Suggestions and of the Playback it extends, for TLC. *)
EXTENDS Suggestions, TLC

\* Tracks are only compared with each other.
TrackSymmetry == Permutations(Track)

\* So are members who have the same features.
Symmetry == TrackSymmetry \cup Permutations(Client)

=============================================================================
