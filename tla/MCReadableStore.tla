--------------------------- MODULE MCReadableStore ---------------------------
(* An instance of ReadableStore for TLC. *)
EXTENDS ReadableStore

CONSTANTS r1

OneItem == [r \in Runs |-> "item"]

OneEffect == [r \in Runs |-> "effect"]
=============================================================================
