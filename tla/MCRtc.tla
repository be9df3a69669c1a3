------------------------------- MODULE MCRtc -------------------------------
(* Instances of VirtualRtc for TLC.                                         *)
EXTENDS VirtualRtc

\* Zero, an odd number, and powers of two up to twice the clock's rate.
PositiveFrequencies == {0, 1, 3, 8}

\* ece391 programs may write any int32_t.
WithNegative == {-4, 2}
=============================================================================
