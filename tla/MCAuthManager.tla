--------------------------- MODULE MCAuthManager ----------------------------
(* AuthManager for TLC: three sessions from one address, one from another.  *)
EXTENDS AuthManager

CONSTANTS a1, a2, a3, b1, ipA, ipB

MCSessions == {a1, a2, a3, b1}
MCIps == {ipA, ipB}
MCIpOf == [s \in MCSessions |-> IF s = b1 THEN ipB ELSE ipA]
=============================================================================
