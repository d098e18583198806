--------------------------- MODULE MCRouteEgress ---------------------------
(* RouteEgress with a default route and a host route for one of two groups. *)
EXTENDS RouteEgress

CONSTANTS d1, d2, i1

Default == [entry |-> 1, covers |-> {d1, d2}, prefix_len |-> 0, priority |-> 1]
Host == [entry |-> 2, covers |-> {d1}, prefix_len |-> 1, priority |-> 1]

TwoRoutes == {Default, Host}

\* One way out for everything.
OneRoute == {[r \in Routes |-> IF r = Default THEN i1 ELSE NoRoute]}
=============================================================================
