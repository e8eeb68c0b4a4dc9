------------------------------- MODULE MCCore -------------------------------
(* The concurrent structures of the type core, checked side by side: they  *)
(* share no state, so each behaviour picks one and leaves the others as    *)
(* they start.  The symbol table has three threads and three names; the    *)
(* archetypes one component type and two entities, the fewest for a        *)
(* removal that moves an element other than the removed one.               *)
EXTENDS SymbolTable, ArchetypeStorage, TLC

VARIABLE part

Only(active) ==
    /\ UNCHANGED part
    /\ active # "symbols" => UNCHANGED symbolVars
    /\ active # "archetypes" => UNCHANGED archetypeVars

CoreInit == SymbolInit /\ ArchetypeInit /\ part \in {"symbols", "archetypes"}

CoreNext ==
    \/ part = "symbols" /\ SymbolNext /\ Only("symbols")
    \/ part = "archetypes" /\ ArchetypeNext /\ Only("archetypes")

CoreSpec == CoreInit /\ [][CoreNext]_<<part, symbolVars, archetypeVars>>

\* Each structure's variables keep their types.
CoreTypeOK == SymbolTypeOK /\ ArchetypeTypeOK

Symmetry == Permutations(Entities) \cup Permutations(Components) \cup Permutations(Movers)
=============================================================================
