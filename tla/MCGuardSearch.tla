---------------------------- MODULE MCGuardSearch ----------------------------
(* Instances of GuardSearch for TLC: bugs are numbers, and a listing is the *)
(* first few of them, so that which bugs are open is all that tells two     *)
(* listings of a length apart.                                              *)
EXTENDS GuardSearch

CONSTANT Longest   \* bound: rows of the longest listing

MCBugs == 1 .. Longest
MCUnlabelled == {{}, {2}}
MCListings == {[i \in 1 .. n |-> i] : n \in 0 .. Longest}
=============================================================================
