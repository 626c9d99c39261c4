------------------------------ MODULE MCRunSlot ------------------------------
(* Small instances of RunSlot: two request handlers, as many runs as messages *)
(* (every launch starts at least one message, so no launch waits for a run).  *)
EXTENDS RunSlot, TLC

\* Goroutines of a kind are alike; so are messages.
Symmetry == Permutations(Handlers) \union Permutations(Runs) \union Permutations(Msgs)

=============================================================================
