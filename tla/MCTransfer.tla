----------------------------- MODULE MCTransfer -----------------------------
(* Transfer for TLC: the constants are given in the cfg files.              *)
EXTENDS Transfer, TLC

\* Sessions are interchangeable, and so are the values of bytes.
Symmetry == Permutations(Sessions) \cup Permutations(Bytes)

\* No action reads total or reply, and a property only compares total with its
\* next value: states that differ in these two alone count as one.
View == <<build, link, data, pc, cmd, rest, ino, ioVars, histVars>>
=============================================================================
