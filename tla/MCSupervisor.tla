---------------------------- MODULE MCSupervisor ----------------------------
(***************************************************************************)
(* Instances of Supervisor for TLC.  Configs, runtime identities, callers  *)
(* and the two startable row values are interchangeable; symmetry is used  *)
(* in the safety run only.                                                 *)
(***************************************************************************)
EXTENDS Supervisor, TLC

CONSTANTS c1, c2, r1, r2, r3, r4, k1, k2, stored, edited1, locked, off

MCRowValue == {stored, edited1, locked, off}

MCEnabled == {stored, edited1, locked}

MCSymmetry ==
    UNION {Permutations(S) : S \in {Config, Runtime, Caller, Startable}}
=============================================================================
