--------------------------- MODULE MCGatewayLobby ---------------------------
(***************************************************************************)
(* GatewayLobby for TLC: the connections are interchangeable, which the    *)
(* safety runs use. ( The liveness run does without, symmetry is not sound *)
(* for it. )                                                               *)
(***************************************************************************)
EXTENDS GatewayLobby, TLC

ConnSymmetry == Permutations(Conns)

\* Without the fairness, which the safety runs do not need.
MCSpec == GlInit /\ [][GlNext]_glVars
=============================================================================
