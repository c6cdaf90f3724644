------------------------------ MODULE MCPlaces ------------------------------
(***************************************************************************)
(* The places of a nested pair and of a box of a pair, with every statement that      *)
(* moves at most two of them and assigns one.                              *)
(***************************************************************************)
EXTENDS PlaceTracking

x == <<"x">>
y == <<"y">>
Places == {x, <<"x", "f">>, <<"x", "f", "a">>, <<"x", "f", "b">>, <<"x", "g">>,
           y, <<"y", "deref">>, <<"y", "deref", "a">>, <<"y", "deref", "b">>}
Arguments == {y}

Disjoint(p, q) == ~is_prefix(p, q) /\ ~is_prefix(q, p)
Moves == {<<>>} \cup {<<p>> : p \in Place} \cup {m \in Place \X Place : Disjoint(m[1], m[2])}
AllStatements ==
  {Assign(m, {q}) : m \in Moves, q \in Place} \cup {StorageDead(x), StorageDead(y), OtherStatement}
=============================================================================
