----------------------------- MODULE MCClients -----------------------------
(* Instances of Clients for TLC. *)
EXTENDS Clients, TLC

\* Nothing orders or distinguishes the members of these sets.
Symmetry ==
    Permutations(Peers) \cup Permutations(Admins)
        \cup Permutations(ClientIDs) \cup Permutations(Names)
=============================================================================
