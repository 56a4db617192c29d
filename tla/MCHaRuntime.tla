----------------------------- MODULE MCHaRuntime -----------------------------
\* Instances of HaRuntime for TLC.
EXTENDS HaRuntime, TLC

CONSTANTS s1, s2, s3
=============================================================================
