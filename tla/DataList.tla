------------------------------ MODULE DataList ------------------------------
(***************************************************************************)
(* list.c: doubly linked lists of malloc'ed nodes, one action per          *)
(* function.  Several lists share one heap.  The fields of a node that     *)
(* was freed hold Junk, so a list that still leads there shows it.         *)
(*                                                                         *)
(* DataList_Addtail does not look whether there was memory for the node:   *)
(* without, an empty list only counts, and on another one the process      *)
(* ends, which is no state here.  DataList_Addhead has no caller.          *)
(***************************************************************************)
EXTENDS Naturals, Sequences, FiniteSets, FiniteSetsExt

CONSTANTS
  Lists,       \* the lists
  Nodes,       \* the addresses malloc hands out
  Data,        \* what can be stored
  NULL,        \* the null pointer
  Junk,        \* what a freed node holds
  MaxMissed    \* bound: times malloc of a node fails for a list

ASSUME ListAssumption ==
  /\ IsFiniteSet(Nodes)
  /\ NULL \notin Nodes \cup Data
  /\ Junk \notin Nodes \cup Data \cup {NULL}
  /\ MaxMissed \in Nat

VARIABLES
  head, tail, count,   \* the fields of every list
  next, prev, data,    \* the fields of every node; Junk if it is free
  missed               \* history: nodes each list counted and did not get

listVars == <<head, tail, count, next, prev, data, missed>>

Free == {n \in Nodes : data[n] = Junk}

ListsInit ==
  /\ head = [l \in Lists |-> NULL] /\ tail = head
  /\ count = [l \in Lists |-> 0]
  /\ next = [n \in Nodes |-> Junk] /\ prev = next /\ data = next
  /\ missed = count

-----------------------------------------------------------------------------
\* On a list with a head the new node is linked to itself.
DataList_Addhead(l, d) ==
  \E n \in Free :
    /\ data' = [data EXCEPT ![n] = d]
    /\ head' = [head EXCEPT ![l] = n]
    /\ count' = [count EXCEPT ![l] = @ + 1]
    /\ IF head[l] # NULL
       THEN next' = [next EXCEPT ![n] = n] /\ prev' = [prev EXCEPT ![n] = n] /\ UNCHANGED tail
       ELSE /\ next' = [next EXCEPT ![n] = NULL] /\ prev' = [prev EXCEPT ![n] = NULL]
            /\ tail' = [tail EXCEPT ![l] = n]
    /\ UNCHANGED missed

DataList_Addtail(l, d) ==
  \E n \in Free :
    /\ data' = [data EXCEPT ![n] = d]
    /\ tail' = [tail EXCEPT ![l] = n]
    /\ count' = [count EXCEPT ![l] = @ + 1]
    /\ prev' = [prev EXCEPT ![n] = tail[l]]
    /\ IF tail[l] # NULL
       THEN next' = [next EXCEPT ![n] = NULL, ![tail[l]] = n] /\ UNCHANGED head
       ELSE next' = [next EXCEPT ![n] = NULL] /\ head' = [head EXCEPT ![l] = n]
    /\ UNCHANGED missed

DataList_AddtailFails(l) ==
  /\ tail[l] = NULL /\ missed[l] < MaxMissed
  /\ count' = [count EXCEPT ![l] = @ + 1]
  /\ missed' = [missed EXCEPT ![l] = @ + 1]
  /\ UNCHANGED <<head, tail, next, prev, data>>

\* Give n back to malloc and count it out, while the links become nx and pv.
FreeNode(l, n, nx, pv) ==
  /\ next' = [nx EXCEPT ![n] = Junk]
  /\ prev' = [pv EXCEPT ![n] = Junk]
  /\ data' = [data EXCEPT ![n] = Junk]
  /\ count' = [count EXCEPT ![l] = @ - 1]
  /\ UNCHANGED missed

\* The new head's successor is linked back to it, or it is the tail as well.
DataList_Removehead(l) ==
  LET temp == head[l]
      h    == next[temp]
  IN  IF temp = NULL THEN UNCHANGED listVars
      ELSE /\ head' = [head EXCEPT ![l] = h]
           /\ CASE h = NULL ->
                     /\ tail' = [tail EXCEPT ![l] = NULL]
                     /\ FreeNode(l, temp, next, prev)
                [] h # NULL /\ next[h] # NULL ->
                     /\ FreeNode(l, temp, next, [prev EXCEPT ![h] = NULL, ![next[h]] = h])
                     /\ UNCHANGED tail
                [] OTHER ->
                     /\ tail' = [tail EXCEPT ![l] = h]
                     /\ FreeNode(l, temp, next, [prev EXCEPT ![h] = NULL])

DataList_Removetail(l) ==
  LET temp == tail[l]
      t    == prev[temp]
  IN  IF temp = NULL THEN UNCHANGED listVars
      ELSE /\ tail' = [tail EXCEPT ![l] = t]
           /\ CASE t = NULL ->
                     /\ head' = [head EXCEPT ![l] = NULL]
                     /\ FreeNode(l, temp, next, prev)
                [] t # NULL /\ prev[t] # NULL ->
                     /\ FreeNode(l, temp, [next EXCEPT ![t] = NULL, ![prev[t]] = t], prev)
                     /\ UNCHANGED head
                [] OTHER ->
                     /\ head' = [head EXCEPT ![l] = t]
                     /\ FreeNode(l, temp, [next EXCEPT ![t] = NULL], prev)

\* Seeded fault: a node in the middle is cut out of the forward links only.
BadUnlink(l, n) ==
  /\ FreeNode(l, n, [next EXCEPT ![prev[n]] = next[n]], prev)
  /\ UNCHANGED <<head, tail>>

\* A node in the middle: its neighbours are linked to each other.
Unlink(l, n) ==
  /\ FreeNode(l, n, [next EXCEPT ![prev[n]] = next[n]], [prev EXCEPT ![next[n]] = prev[n]])
  /\ UNCHANGED <<head, tail>>

DataList_Removenode(l, n) ==
  CASE n = head[l] -> DataList_Removehead(l)
    [] n # head[l] /\ n = tail[l] -> DataList_Removetail(l)
    [] OTHER -> Unlink(l, n)

\* The empty list is freed; one that is made in its place counts from zero.
DataList_Delete(l) ==
  /\ count' = [count EXCEPT ![l] = 0]
  /\ missed' = [missed EXCEPT ![l] = 0]
  /\ UNCHANGED <<head, tail, next, prev, data>>

-----------------------------------------------------------------------------
\* Where next leads; the null pointer and Junk lead nowhere.
Successor == [n \in Nodes \cup {NULL, Junk} |-> IF n \in Nodes THEN next[n] ELSE n]

\* The address reached from the head of l in i steps.
Walk(l, i) ==
  LET at[j \in 0..i] == IF j = 0 THEN head[l] ELSE Successor[at[j - 1]]
  IN  at[i]

\* How many nodes the loop of DataList_Find can visit.
Reached(l) == {i \in 0..Cardinality(Nodes) : Walk(l, i) \in Nodes}

\* The list as its readers see it.
Elements(l) == [i \in 1..Cardinality(Reached(l)) |-> data[Walk(l, i - 1)]]

\* The first node whose data is among those cmpfun accepts, or NULL.
DataList_Find(l, accepted) ==
  LET hits == {i \in Reached(l) : data[Walk(l, i)] \in accepted}
  IN  IF hits = {} THEN NULL ELSE Walk(l, Min(hits))

DataList_GetCurrentData(n) == IF n = NULL THEN NULL ELSE data[n]

-----------------------------------------------------------------------------
\* Both chains of every list end in NULL, are each other's reverse, meet at
\* head and tail and are as long as count says, but for the nodes there was no
\* memory for; no list leads to a freed node, no node is in two lists, and
\* none is allocated but in no list.
Linked ==
  /\ \A l \in Lists :
       LET size == Cardinality(Reached(l))
       IN  /\ count[l] = size + missed[l]
           /\ Walk(l, size) = NULL
           /\ tail[l] = IF size = 0 THEN NULL ELSE Walk(l, size - 1)
           /\ \A i \in Reached(l) :
                /\ Walk(l, i) \notin Free
                /\ prev[Walk(l, i)] = IF i = 0 THEN NULL ELSE Walk(l, i - 1)
  /\ \A n \in Nodes \ Free :
       Cardinality({l \in Lists : \E i \in Reached(l) : Walk(l, i) = n}) = 1
=============================================================================
