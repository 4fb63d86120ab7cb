----------------------------- MODULE MCContacts -----------------------------
(* An instance of Contacts for TLC: me may make group g1, and ann has made  *)
(* group h1 with me in it.                                                 *)
EXTENDS Contacts

CONSTANTS ann, bob, g1, h1

MCCreator == [x \in {g1, h1} |-> IF x = g1 THEN Me ELSE ann]
MCBefore == [x \in {g1, h1} |-> IF x = g1 THEN {} ELSE {Me}]
=============================================================================
