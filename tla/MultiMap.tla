------------------------------ MODULE MultiMap ------------------------------
(***************************************************************************)
(* What a user of the hash table can rely on: a key may be pushed several  *)
(* times; a look-up returns the oldest value, remove takes the oldest one  *)
(* out; other keys are not touched.  A push has no result: the first one   *)
(* of a key may be lost for want of memory.                                *)
(***************************************************************************)
EXTENDS Sequences

CONSTANTS Keys, Values, Nothing

VARIABLES
  store,       \* the values pushed for every key, oldest first
  asked,       \* the key of the last call
  answer       \* what it returned

mapVars == <<store, asked, answer>>

Call(k, result) == asked' = k /\ answer' = result

Empty  == [k \in Keys |-> <<>>]
First(k) == IF store[k] = <<>> THEN Nothing ELSE Head(store[k])

Init == store = Empty /\ asked = Nothing /\ answer = Nothing

Push(k, v) ==
  /\ store' = [store EXCEPT ![k] = Append(@, v)]
  /\ Call(k, Nothing)

Get(k) ==
  /\ Call(k, First(k))
  /\ UNCHANGED store

Remove(k) ==
  /\ Call(k, First(k))
  /\ store' = [store EXCEPT ![k] = IF @ = <<>> THEN @ ELSE Tail(@)]

Lose(k) == store[k] = <<>> /\ Call(k, Nothing) /\ UNCHANGED store

Clear == store' = Empty /\ Call(Nothing, Nothing)

Next ==
  \/ \E k \in Keys : Get(k) \/ Remove(k) \/ Lose(k) \/ \E v \in Values : Push(k, v)
  \/ Clear

Spec == Init /\ [][Next]_mapVars
=============================================================================
