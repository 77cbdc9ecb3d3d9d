---------------------------- MODULE MCMembership ----------------------------
(***************************************************************************)
(* Instances of Membership for TLC.                                        *)
(***************************************************************************)
EXTENDS Membership, TLC

\* User IDs, tokens and room codes are interchangeable: the code only compares them, and
\* a generated name may be any that is free.
NameSymmetry ==
    Permutations(UserID) \cup Permutations(Token) \cup Permutations(Code)

=============================================================================
