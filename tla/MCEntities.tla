---------------------------- MODULE MCEntities -----------------------------
\* Entities for TLC: three names of one type, payloads that share entities, one
\* that relates them, and one with an invalid item.
EXTENDS Entities

CONSTANTS m1, m2, c1, c2, p1, p2, w1, s1

MCTypeOf == [e \in Entity |-> "CONCEPT"]
MCNameOf == [e \in Entity |-> e]
MCPayload ==
    {[ents |-> {1, 2, 3}, rels |-> {}],
     [ents |-> {2}, rels |-> {<<2, 1>>}],
     [ents |-> {3, Bad}, rels |-> {}]}
=============================================================================
