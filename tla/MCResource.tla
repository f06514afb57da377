------------------------------ MODULE MCResource ------------------------------
(* Small instances of Resource with the constants of the code: two payloads   *)
(* of two chunks each, whose lengths agree so that a swapped chunk still adds *)
(* up, and an empty one.                                                      *)
EXTENDS Resource

Three == {"a", "b", "empty"}
Sizes == [r \in Three |-> IF r = "empty" THEN 0 ELSE 300]
TwoReceivers == {"x", "y"}
\* The least that takes full chunks, and one that reduces the chunk size.
TwoMtus == {356, 301}
=============================================================================
