-------------------------- MODULE MCConnectionIdPool --------------------------
(* Connections are model values; they are interchangeable, so the runs     *)
(* check modulo their permutations.                                        *)
EXTENDS ConnectionIdPool, TLC

MCSymmetry == Permutations(Connections)
=============================================================================
