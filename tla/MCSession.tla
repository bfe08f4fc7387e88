----------------------------- MODULE MCSession ------------------------------
(* Session for TLC: the constants are given in the cfg files.               *)
EXTENDS Session

CONSTANTS s1, alice, anonymous, n1

\* The client of s1 logs in as either user, and sends a name or a home by way
\* of the parent; any other is anonymous and sends only a name.
MCLogins == [s \in Sessions |-> IF s = s1 THEN {alice, anonymous} ELSE {anonymous}]
MCArgTexts == [s \in Sessions |-> IF s = s1 THEN {<<n1>>, <<Up, anonymous>>} ELSE {<<n1>>}]

\* The homes and one entry in each.
MCPlaces == {<<alice>>, <<anonymous>>, <<alice, n1>>, <<anonymous, n1>>}
=============================================================================
