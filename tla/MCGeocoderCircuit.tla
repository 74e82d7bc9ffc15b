------------------------- MODULE MCGeocoderCircuit -------------------------
(***************************************************************************)
(* Finite instances of GeocoderCircuit for TLC.                            *)
(***************************************************************************)
EXTENDS GeocoderCircuit, TLC

CONSTANTS c1, c2, c3

ThreeCalls == {c1, c2, c3}
CallSymmetry == Permutations(ThreeCalls)
=============================================================================
