------------------------------ MODULE MCInvite ------------------------------
(* Invite on small instances: requests, rooms and users are interchangeable. *)
EXTENDS Invite, TLC

Symmetry == Permutations(Request) \cup Permutations(Room) \cup Permutations(User)
=============================================================================
