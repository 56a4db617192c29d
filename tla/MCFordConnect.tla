---------------------------- MODULE MCFordConnect ----------------------------
(***************************************************************************)
(* Instances of FordConnect for TLC.  The identities of runtimes, callers  *)
(* and tokens are interchangeable.                                         *)
(***************************************************************************)
EXTENDS FordConnect, TLC

CONSTANTS fcon, a1, a2, t1, t2, t3, r1, r2, r3, k1, k2

Symmetry == UNION {Permutations(S) : S \in {App, Token, Runtime, Caller}}
=============================================================================
