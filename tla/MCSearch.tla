------------------------------ MODULE MCSearch ------------------------------
(* A small instance of Search.                                             *)
EXTENDS Search, TLC

CONSTANTS both, words, meaning, t, u, T, blank

(* A doc that the words and the embedding find, one that the words find,   *)
(* too far for retrieve_memory, and one that only the embedding finds.     *)
MCTextRank == both :> 1 @@ words :> 2 @@ meaning :> 0
MCDistance == both :> 3 @@ words :> 8 @@ meaning :> 2
MCMaxDistance == [retrieve |-> 7, page |-> 7, recall |-> 10]
MCTagsOf == both :> {t, u} @@ words :> {t} @@ meaning :> {}
MCNormal == t :> t @@ T :> t @@ u :> u @@ blank :> Blank

Symmetry == Permutations(MemIds) \cup Permutations(WsIds)
=============================================================================
