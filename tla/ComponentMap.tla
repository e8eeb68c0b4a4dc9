---------------------------- MODULE ComponentMap ----------------------------
(***************************************************************************)
(* What archetype storage promises of the components: each archetype is a  *)
(* plain map from component types and entities to values.  A step stores   *)
(* one component, or forgets all an entity has in one archetype.           *)
(***************************************************************************)
CONSTANTS ArchetypeIds, ComponentTypes, Entities, Components, Absent

VARIABLE content    \* archetype |-> component type |-> entity |-> its component

Init ==
    content = [a \in ArchetypeIds |->
                [c \in ComponentTypes |-> [e \in Entities |-> Absent]]]

Put(a, c, e, v) == content' = [content EXCEPT ![a][c][e] = v]

Forget(a, e) ==
    content' = [content EXCEPT ![a] =
                  [c \in ComponentTypes |-> [content[a][c] EXCEPT ![e] = Absent]]]

Next ==
    \E a \in ArchetypeIds, e \in Entities :
        \/ Forget(a, e)
        \/ \E c \in ComponentTypes, v \in Components : Put(a, c, e, v)

Spec == Init /\ [][Next]_content
=============================================================================
