------------------------------ MODULE MCCharges ------------------------------
(***************************************************************************)
(* An instance of Charges for TLC.  Ids are interchangeable.               *)
(***************************************************************************)
EXTENDS Charges, TLC

CONSTANTS c1, c2, i1, i2, ha1, fc1, depot, garage

Symmetry == Permutations(Id)

Said(start, energy, range, plug, place) ==
    [start |-> start, energy |-> energy, range |-> range, plug |-> plug, place |-> place]

\* c1: Home Assistant has converted the range once too often.  c2 starts within
\* the window of c1; FordConnect's energy is at the edge of the tolerance.
TwoLogs == [c \in Charge |-> IF c = c1 THEN Said(10, 52, 210, Null, depot)
                                      ELSE Said(35, 100, 40, Null, Null)]
TwoFolds == [c \in Charge |-> IF c = c1 THEN Said(9, 50, 130, 1, garage)
                                       ELSE Said(34, 110, 41, 1, garage)]
TwoCuts == [c \in Charge |-> IF c = c1 THEN Said(20, 25, 60, 1, garage)
                                      ELSE Said(50, 60, 20, 1, Null)]

\* The premise of OneRowPerCharge and MergedIsCanonical.
ASSUME InstanceIsRecognisable == Recognisable
=============================================================================
