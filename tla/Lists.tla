-------------------------------- MODULE Lists ---------------------------------
(***************************************************************************)
(* Lists made of sets, and a function put over another: SetToSortSeq and   *)
(* @@ of the community modules, defined without the operators (SortSeq,    *)
(* @@) that the proof system does not expand.                              *)
(***************************************************************************)
EXTENDS Integers, FiniteSets, Sequences

(* The same list, which TLC then evaluates once.                           *)
Listing(q) == q \o <<>>

(* The elements of the domain of `before`, which gives those that come     *)
(* before each, in that order.                                             *)
Ranked(before) ==
  [n \in 1 .. Cardinality(DOMAIN before) |->
     CHOOSE x \in DOMAIN before : Cardinality(before[x]) = n - 1]

Ascending(S) == Ranked([i \in S |-> {j \in S : j < i}])

(* The elements of a list at these places, in the order the places come.   *)
AtPlaces(L, order) == [n \in DOMAIN order |-> L[order[n]]]

(* The elements of a list at these places, in its order.                   *)
Picked(L, places) == AtPlaces(L, Ascending(places))

(* f, and g where f says nothing.                                          *)
Over(f, g) == [x \in DOMAIN f \cup DOMAIN g |-> IF x \in DOMAIN f THEN f[x] ELSE g[x]]

=============================================================================
