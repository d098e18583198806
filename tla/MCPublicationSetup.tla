------------------------- MODULE MCPublicationSetup -------------------------
(* PublicationSetup on a machine with two interfaces that share a          *)
(* link-local address; each has an IPv4 and an IPv6 address of its own.    *)
EXTENDS PublicationSetup

CONSTANTS a, b, shared, ll, g

TwoInterfaces == {[i \in Interfaces |-> IF i = 1 THEN {a, shared, g} ELSE {b, shared, ll}]}
=============================================================================
