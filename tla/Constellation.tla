----------------------------- MODULE Constellation -----------------------------
(***************************************************************************)
(* What NetworkGraph draws of a network_graph: the lines between its       *)
(* nodes. Positions, the physics that moves them and colours are left out. *)
(***************************************************************************)
EXTENDS Naturals, FiniteSets

\* Mutant: friends of friends hang on the first friend.
Links_Fallback(self, friends, edges, first) ==
  {{e[1], e[2]} : e \in edges} \cup {{self, n.user} : n \in {m \in friends : m.depth = 1}}
  \cup {{first, n.user} : n \in {m \in friends : m.depth = 2}}

\* The lines drawn: the edges between nodes; every direct friend to self, every
\* other to the mutual friend it names, or else to the first friend of the list.
Links(self, friends, edges, first) ==
  LET ids == {self} \cup {n.user : n \in friends}
      Parent(n) == IF n.via \in ids THEN n.via ELSE first
  IN  {{e[1], e[2]} : e \in {d \in edges : {d[1], d[2]} \subseteq ids}}
      \cup {{self, n.user} : n \in {m \in friends : m.depth = 1}}
      \cup {{Parent(n), n.user} :
               n \in {m \in friends : m.depth = 2 /\ (m.via \in ids \/ \E f \in friends : f.depth = 1)}}
===============================================================================
