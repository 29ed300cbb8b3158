-------------------------- MODULE MCExtendibleHash --------------------------
(***************************************************************************)
(* ExtendibleHash on keys that collide in their low bits.                  *)
(***************************************************************************)
EXTENDS ExtendibleHash

\* 2654435761 is 177 modulo 256, and index_size divides 256: these are the low bits of
\* the product.  1, 17 and 33 agree in four bits, 5 and 9 with them in two, 3 in one.
MCKeys == {0, 1, 3, 5, 9, 17, 33}
MCHash == [k \in MCKeys |-> (k * 177) % 256]
=============================================================================
