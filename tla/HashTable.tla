------------------------------ MODULE HashTable ------------------------------
(***************************************************************************)
(* hash.c over list.c: a table of buckets, each a DataList made when a key *)
(* first falls into it.  The table compares a key with the stored data     *)
(* itself (hashcmp), so a user stores data that contains its key.          *)
(***************************************************************************)
EXTENDS DataList

CONSTANTS
  Keys,
  Values,
  hashsize,    \* number of buckets
  hashfun      \* the user's hash function

ASSUME HashAssumption ==
  /\ hashsize \in Nat \ {0}
  /\ hashfun \in [Keys -> Nat]
  /\ Lists = 0..hashsize - 1
  /\ Data = [key : Keys, value : Values]

VARIABLES
  buckets,     \* the buckets whose list exists
  asked,       \* history: the key of the last call
  result,      \* what it returned
  clearing     \* the index i of hashTable_clear, or hashsize outside of it

vars == <<listVars, buckets, asked, result, clearing>>

Init ==
  /\ ListsInit
  /\ buckets = {}
  /\ asked = NULL /\ result = NULL
  /\ clearing = hashsize

Index(k)     == hashfun[k] % hashsize
Find(k)      == DataList_Find(Index(k), {d \in Data : d.key = k})
Idle         == clearing = hashsize
Allocated(k) == Index(k) \in buckets

hashTable_push(k, v) ==
  /\ Idle
  /\ asked' = k
  /\ buckets' = buckets \cup {Index(k)}
  /\ DataList_Addtail(Index(k), [key |-> k, value |-> v])
  /\ result' = NULL
  /\ UNCHANGED clearing

\* No memory for the node: the data is dropped, and an empty bucket counts it.
hashTable_pushNoNode(k) ==
  /\ Idle
  /\ asked' = k
  /\ buckets' = buckets \cup {Index(k)}
  /\ DataList_AddtailFails(Index(k))
  /\ result' = NULL
  /\ UNCHANGED clearing

\* No memory for the bucket: the data is dropped.
hashTable_pushFails(k) ==
  /\ Idle /\ ~ Allocated(k)
  /\ asked' = k
  /\ result' = NULL
  /\ UNCHANGED <<listVars, buckets, clearing>>

\* A look-up, whatever its name says: nothing is removed.
hashTable_pop(k) ==
  /\ Idle
  /\ asked' = k
  /\ result' = IF Allocated(k) THEN DataList_GetCurrentData(Find(k)) ELSE NULL
  /\ UNCHANGED <<listVars, buckets, clearing>>

\* Seeded fault: the head of the bucket is taken, whoever's it is.
BadRemoveHead(k) ==
  /\ Idle
  /\ asked' = k
  /\ IF Allocated(k) /\ Find(k) # NULL
     THEN /\ result' = data[head[Index(k)]]
          /\ DataList_Removehead(Index(k))
     ELSE result' = NULL /\ UNCHANGED listVars
  /\ UNCHANGED <<buckets, clearing>>

hashTable_remove(k) ==
  /\ Idle
  /\ asked' = k
  /\ IF Allocated(k) /\ Find(k) # NULL
     THEN /\ result' = data[Find(k)]
          /\ DataList_Removenode(Index(k), Find(k))
     ELSE result' = NULL /\ UNCHANGED listVars
  /\ UNCHANGED <<buckets, clearing>>

\* hashTable_clear goes through the buckets and empties each list from its
\* tail; the table that is made next starts without buckets.
hashTable_clear ==
  /\ Idle
  /\ clearing' = 0
  /\ asked' = NULL /\ result' = NULL
  /\ UNCHANGED <<listVars, buckets>>

DataList_Clear ==
  /\ ~ Idle
  /\ clearing \in buckets /\ head[clearing] # NULL
  /\ DataList_Removetail(clearing)
  /\ UNCHANGED <<buckets, asked, result, clearing>>

ClearNext ==
  /\ ~ Idle
  /\ clearing \in buckets => head[clearing] = NULL
  /\ buckets' = buckets \ {clearing}
  /\ clearing' = clearing + 1
  /\ DataList_Delete(clearing)
  /\ UNCHANGED <<asked, result>>

Next ==
  \/ \E k \in Keys, v \in Values : hashTable_push(k, v)
  \/ \E k \in Keys : hashTable_pushFails(k) \/ hashTable_pushNoNode(k)
                      \/ hashTable_pop(k) \/ hashTable_remove(k)
  \/ hashTable_clear \/ DataList_Clear \/ ClearNext

Spec == Init /\ [][Next]_vars

-----------------------------------------------------------------------------
\* The pairs of key k in its bucket, oldest first.
Stored(k) == SelectSeq(Elements(Index(k)), LAMBDA d : d.key = k)

MM == INSTANCE MultiMap WITH
        Values  <- Data,
        Nothing <- NULL,
        store   <- [k \in Keys |-> IF Idle THEN Stored(k) ELSE <<>>],
        answer  <- result

\* Keys that share a bucket do not disturb each other: the table is a map
\* from each key to the values pushed for it, first in, first out - also
\* when a value is cut out of the middle of a bucket or the table is cleared.
ImplementsMultiMap == MM!Spec
=============================================================================
