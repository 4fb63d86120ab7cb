---------------------------- MODULE MCMembership ----------------------------
(* Small values for the constants of Membership. *)
EXTENDS Membership, TLC

MCUserSymmetry == Permutations(Users)
=============================================================================
