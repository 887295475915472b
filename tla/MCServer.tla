------------------------------ MODULE MCServer ------------------------------
(***************************************************************************)
(* TLC instances of Server.  Connections are interchangeable, so the       *)
(* safety run may use their symmetry; the liveness runs do not.            *)
(***************************************************************************)
EXTENDS Server, TLC

ConnSymmetry == Permutations(Conns)

=============================================================================
