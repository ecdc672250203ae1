--------------------------- MODULE MCCredentials ---------------------------
(* Credentials for TLC: two pairs, interchangeable.                        *)
EXTENDS Credentials, TLC

CONSTANTS c1, c2

TwoCreds == {c1, c2}
Symmetry == Permutations(TwoCreds)
=============================================================================
