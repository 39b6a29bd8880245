---------------------------- MODULE MCOwnerLease ----------------------------
(* Two phones (a steal needs no third), four leases over two managers, and a *)
(* clock on which a lease may expire at once, later, or be extended.         *)
EXTENDS OwnerLease, TLC
CONSTANTS phone1, phone2
MCClients == {phone1, phone2}
MCTtls == {1, 2}
Phones == Permutations(MCClients)
=============================================================================
