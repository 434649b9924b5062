---------------------------- MODULE MCStaticBands ----------------------------
(* Instances of StaticBands for model checking. *)
EXTENDS StaticBands

CONSTANT Top

Space == 0..Top

\* Every block of a length that is a power of two, at a multiple of it
Blocks ==
  {[first |-> f, last |-> f + l - 1, gateway |-> g] :
     f \in Space, l \in {1, 2, 4, 8}, g \in Space}

Subnets ==
  {n \in Blocks :
     /\ n.first % (n.last - n.first + 1) = 0
     /\ n.gateway \in n.first .. n.last /\ n.last \in Space}

Pairs == {r \in [lo : Space, hi : Space] : r.lo <= r.hi}
=============================================================================
