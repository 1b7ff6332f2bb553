------------------------------ MODULE MCContainers ------------------------------
(* Containers for TLC. *)
EXTENDS Containers, TLC

CONSTANTS a1, a2, d1, n, o, p, e

\* two arrays to begin with, of which one may grow; or a dictionary with room for a
\* third entry. e is the value of a new map entry.
Lengths == a1 :> 3 @@ a2 :> 2
Contents == a1 :> {o} @@ a2 :> {e} @@ d1 :> {n, o}
Empty == <<>>
Worlds ==
    {[items |-> a1 :> <<o, p>> @@ a2 :> <<p, o>>, entries |-> Empty],
     [items |-> a1 :> <<o, e>>, entries |-> Empty],
     [items |-> Empty, entries |-> d1 :> (1 :> n @@ 3 :> o)]}
================================================================================
