------------------------------ MODULE MCChatStore ------------------------------
(* ChatStore on small sets of users and sessions. *)
EXTENDS ChatStoreApart, TLC

Symmetry == Permutations(Users) \cup Permutations(Sessions)
===============================================================================
