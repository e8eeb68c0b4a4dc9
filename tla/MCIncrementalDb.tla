-------------------------- MODULE MCIncrementalDb --------------------------
(* IncrementalDb with one file and one function.  The contents differ in  *)
(* their imports and the bodies in their type, so that a stale answer is   *)
(* seen.                                                                   *)
EXTENDS IncrementalDb, TLC

MCEmpty == [imports |-> {}, rest |-> "a"]
MCContents == {MCEmpty, [imports |-> {"fmt"}, rest |-> "a"]}
MCBodies == {[type |-> "int", rest |-> "a"], [type |-> "float64", rest |-> "a"]}
=============================================================================
