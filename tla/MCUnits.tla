------------------------------ MODULE MCUnits ------------------------------
(* Units on a small instance. *)
EXTENDS Units

\* Two servers, whose leases are of different length.
MCLeaseTime == [a |-> 6, b |-> 8]
=============================================================================
