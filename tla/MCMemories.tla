----------------------------- MODULE MCMemories -----------------------------
(* Small instances of Memories.                                            *)
EXTENDS Memories, TLC

CONSTANTS u1, u2, w1, w2, t, T

(* Different contents are near-duplicates of each other, whatever the tags.*)
MCNear(e, f) == e = f \/ e.content # f.content

NoTags == <<>>
OneTag == (t :> t)
CaseTags == (t :> t @@ T :> t)

(* Updates that leave the tags alone, and all of them.                     *)
UntaggedEdits == {ch \in Changes : ch.tags = Unset}
AllEdits == Changes

(* Files of two items that have nothing in common.                         *)
Pairs == UNION {{<<x, y>> : y \in {i \in Item : i.content # x.content /\ i.name # x.name}} : x \in Item}

(* Files of any two items, the first one tagged.                           *)
TaggedPairs == {<<x, y>> : x \in {i \in Item : i.tags = {T}}, y \in {i \in Item : i.tags = {}}}

OneOwner == [w \in WsIds |-> [u \in Users |-> "owner"]]

(* u2 comes and goes.                                                      *)
OwnerAndVisitor == [w \in WsIds |-> (u1 :> "owner" @@ u2 :> "none")]

ContentSymmetry == Permutations(Requests) \cup Permutations(MemIds) \cup Permutations(Contents)
                     \cup Permutations(Names)
WsSymmetry == ContentSymmetry \cup Permutations(WsIds)
=============================================================================
