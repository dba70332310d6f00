--------------------------- MODULE MCEntityMapper ---------------------------
(* A small instance of EntityMapper for TLC.                               *)
EXTENDS EntityMapper, TLC

CONSTANTS p, q, e, v1, v2

(* Two parameter entities and a general one.                               *)
MCTypeOf == p :> "%" @@ q :> "%" @@ e :> "&"

Symmetry == Permutations({p, q}) \cup Permutations({v1, v2})

=============================================================================
