----------------------------- MODULE MCKcpShake -----------------------------
(* KcpShake with dialers that know two listeners. *)
EXTENDS KcpShake, TLC

CONSTANTS c1, c2, s1, s2

TheAddrs == <<s1, s2>>
=============================================================================
