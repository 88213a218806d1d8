--------------------------- MODULE MCBridgeProver ---------------------------
(* BridgeProver for TLC: a curve of seven points, y^2 = x^3 + 8x + 10 mod 11. *)
EXTENDS BridgeProver

CompressedM == <<3, 8>>
CompressedN == <<2, 10>>
Scalars == {0, 1, 3, 7, 8}
=============================================================================
