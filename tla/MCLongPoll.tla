----------------------------- MODULE MCLongPoll -----------------------------
(* Instances of LongPoll for TLC: one group, made by the first client.     *)
EXTENDS LongPoll, TLC

CONSTANTS c1, g1

MCCreator == [g \in {g1} |-> c1]
MCRequestSymmetry == Permutations(Requests)
=============================================================================
