------------------------------ MODULE MCTickets ------------------------------
(* Small instances of Tickets for TLC. *)
EXTENDS Tickets, TLC

CONSTANTS w1, w2, m1, m2

MCSymmetry == Permutations({w1, w2}) \cup Permutations({m1, m2})
=============================================================================
