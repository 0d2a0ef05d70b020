------------------------------- MODULE MCWatch ------------------------------
(* An instance of Watch for TLC: two networks, each with its own interface *)
(* and its own country.                                                    *)
EXTENDS Watch, TLC

CONSTANTS n1, n2, c1, c2, s1, s2, s3, en0, en1

TwoIfaces == n1 :> en0 @@ n2 :> en1
TwoCountries == n1 :> c1 @@ n2 :> c2
=============================================================================
