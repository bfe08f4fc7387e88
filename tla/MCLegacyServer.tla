--------------------------- MODULE MCLegacyServer ---------------------------
(* LegacyServer for TLC: sessions are interchangeable, and so are names.    *)
EXTENDS LegacyServer, TLC

Symmetry == Permutations(Sessions) \cup Permutations(Names)
=============================================================================
