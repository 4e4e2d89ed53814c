------------------------------- MODULE MCTags -------------------------------
(* Small instances of Tags.                                                *)
EXTENDS Tags, TLC

CONSTANTS a, b

(* Any order of any set of tags.                                           *)
AllOrders == UNION {SetToSeqs(S) : S \in SUBSET Names}

(* No tags, or both of them in either order.                               *)
AllOrNothing == {<<>>, <<a, b>>, <<b, a>>}

Symmetry == Permutations(Requests) \cup Permutations(Names)
=============================================================================
