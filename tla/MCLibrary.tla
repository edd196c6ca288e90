------------------------------ MODULE MCLibrary ------------------------------
(* Model-checking instance of the containers: the hash table over the      *)
(* lists, the dynamic array and the strings.  They share no state, and a   *)
(* behaviour is one of a single part.                                      *)
EXTENDS HashTable, DynamicArray, CStr, TLC

VARIABLE part

\* Keys "a" and "b" collide.
MCKeys    == {"a", "b", "c"}
MCValues  == {1, 2}
MCBuckets == 0..1
MCHash    == [k \in MCKeys |-> CASE k = "a" -> 2 [] k = "b" -> 0 [] k = "c" -> 3]
MCData    == [key : MCKeys, value : MCValues]

\* malloc may hand out any free node.
NodeSymmetry == Permutations(Nodes)

libraryVars == <<vars, arrayVars, str, part>>

LibraryInit ==
  /\ part \in {"table", "array", "string"}
  /\ Init /\ ArrayInit /\ CStrInit

LibraryNext ==
  /\ UNCHANGED part
  /\ \/ part = "table"  /\ Next      /\ UNCHANGED <<arrayVars, str>>
     \/ part = "array"  /\ ArrayNext /\ UNCHANGED <<vars, str>>
     \/ part = "string" /\ CStrNext  /\ UNCHANGED <<vars, arrayVars>>

LibrarySpec == LibraryInit /\ [][LibraryNext]_libraryVars
=============================================================================
