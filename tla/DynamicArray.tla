----------------------------- MODULE DynamicArray -----------------------------
(***************************************************************************)
(* array.c: an array of equal items that doubles when it is full.  A push  *)
(* returns the address of the new item, which the user fills; sizes and    *)
(* offsets are unsigned int and wrap.                                      *)
(*                                                                         *)
(* Addresses are offsets from `item`.  A byte holds the index of the item  *)
(* that was last written there.  A malloc or realloc that fails changes    *)
(* nothing of the array, and the push or the init returns NULL.            *)
(***************************************************************************)
EXTENDS Integers

CONSTANTS
  Width,       \* unsigned int counts modulo this: 2^32 in the code
  Counts,      \* for how many items an array may be made
  ItemSizes    \* how large they may be

ASSUME ArrayAssumption ==
  /\ Width \in Nat \ {0}
  /\ Counts \subseteq 0..Width - 1
  /\ ItemSizes \subseteq 1..Width - 1

VARIABLES
  nitem, nmalloc,  \* items used and items there is room for
  itemsize,        \* the field `size`
  block,           \* the bytes malloc gave to `item`
  life,            \* "none", "live", "dangling" (item was freed), "aborted"
  wrapped,         \* history: a product of this array did not fit
  outside          \* history: an item was written outside of the block

arrayVars == <<nitem, nmalloc, itemsize, block, life, wrapped, outside>>

Blank  == -1
NoItem == -1                     \* the functions' NULL
Mul(m, n)   == (m * n) % Width
Bytes(n)    == [b \in 0..n - 1 |-> Blank]
Place(i)    == {Mul(itemsize, i) + k : k \in 0..itemsize - 1}
Full        == nitem = nmalloc

ArrayInit ==
  /\ nitem = 0 /\ nmalloc = 0 /\ itemsize = 1
  /\ block = Bytes(0) /\ life = "none"
  /\ wrapped = FALSE /\ outside = FALSE

dynamicArray_init(n, s) ==
  /\ life = "none"
  /\ nitem' = 0 /\ nmalloc' = n /\ itemsize' = s
  /\ block' = Bytes(Mul(n, s)) /\ life' = "live"
  /\ wrapped' = (n * s >= Width) /\ outside' = FALSE

-----------------------------------------------------------------------------
(* dynamicArray_push, and what the user writes to the new item.            *)

Fill(mem) ==
  /\ block' = [b \in DOMAIN mem |-> IF b \in Place(nitem) THEN nitem ELSE mem[b]]
  /\ outside' = (outside \/ ~ Place(nitem) \subseteq DOMAIN mem)
  /\ nitem' = (nitem + 1) % Width

NewSize == Mul(2, Mul(itemsize, nmalloc))

\* realloc keeps what there was, as far as it fits.
Realloc(n) == [b \in 0..n - 1 |-> IF b \in DOMAIN block THEN block[b] ELSE Blank]

PushRoom ==
  /\ life \in {"live", "dangling"} /\ ~ Full
  /\ Fill(block)
  /\ wrapped' = (wrapped \/ itemsize * nitem >= Width)
  /\ UNCHANGED <<nmalloc, itemsize, life>>

\* Seeded faults: the block does not grow; the capacity is not updated.
BadGrowBlock ==
  /\ life = "live" /\ Full /\ NewSize > 0
  /\ Fill(Realloc(Mul(itemsize, nmalloc)))
  /\ nmalloc' = Mul(2, nmalloc)
  /\ wrapped' = (wrapped \/ 2 * itemsize * nmalloc >= Width)
  /\ UNCHANGED <<itemsize, life>>

BadGrowCount ==
  /\ life = "live" /\ Full /\ NewSize > 0
  /\ Fill(Realloc(NewSize))
  /\ wrapped' = (wrapped \/ 2 * itemsize * nmalloc >= Width)
  /\ UNCHANGED <<nmalloc, itemsize, life>>

PushGrow ==
  /\ life = "live" /\ Full /\ NewSize > 0
  /\ Fill(Realloc(NewSize))
  /\ nmalloc' = Mul(2, nmalloc)
  /\ wrapped' = (wrapped \/ 2 * itemsize * nmalloc >= Width)
  /\ UNCHANGED <<itemsize, life>>

\* realloc(item, 0) frees and returns NULL, which push takes for a failure:
\* an array made for no items, or one whose size wraps to nothing.
PushNothing ==
  /\ life = "live" /\ Full /\ NewSize = 0
  /\ life' = "dangling" /\ block' = Bytes(0)
  /\ wrapped' = (wrapped \/ nmalloc > 0)
  /\ UNCHANGED <<nitem, nmalloc, itemsize, outside>>

\* A full array whose item dangles is reallocated, or the array is cleared:
\* what was freed is freed again.
FreeTwice ==
  /\ life = "dangling"
  /\ life' = "aborted"
  /\ UNCHANGED <<nitem, nmalloc, itemsize, block, wrapped, outside>>

dynamicArray_push == PushRoom \/ PushGrow \/ PushNothing \/ (Full /\ FreeTwice)

dynamicArray_pop ==
  /\ life \in {"live", "dangling"} /\ nitem > 0
  /\ nitem' = nitem - 1
  /\ UNCHANGED <<nmalloc, itemsize, block, life, wrapped, outside>>

dynamicArray_clear ==
  \/ /\ life = "live"
     /\ life' = "none" /\ block' = Bytes(0)
     /\ UNCHANGED <<nitem, nmalloc, itemsize, wrapped, outside>>
  \/ FreeTwice

ArrayNext ==
  \/ \E n \in Counts, s \in ItemSizes : dynamicArray_init(n, s)
  \/ dynamicArray_push \/ dynamicArray_pop \/ dynamicArray_clear

ArraySpec == ArrayInit /\ [][ArrayNext]_arrayVars

-----------------------------------------------------------------------------
(* The look-ups.                                                           *)

dynamicArray_value(i) == IF i < nitem THEN Mul(itemsize, i) ELSE NoItem
dynamicArray_end      == dynamicArray_value(nmalloc)

\* From an address to the index; Width - 1 is -1 as an unsigned int.
dynamicArray_index(a) == IF a < 0 THEN Width - 1 ELSE (a % Width) \div itemsize

-----------------------------------------------------------------------------
(* Properties.                                                             *)

\* An array made for at least one item, until its size in bytes wraps.
Sound == nmalloc > 0 /\ ~ wrapped

\* Through any pushes and pops an array of a sound size keeps its items: no
\* item is written outside of its block, growing moves none and loses none,
\* `value` gives back the bytes of item i and of no other, `index` leads back
\* to i from any of them, no block is freed twice, and `end`, which asks for the
\* item behind the capacity, never finds one: empty, full or in between.
ItemsKept ==
  Sound =>
    /\ ~ outside
    /\ life \notin {"dangling", "aborted"}
    /\ life = "live" =>
         \A i \in 0..nitem - 1, k \in 0..itemsize - 1 :
           LET a == dynamicArray_value(i) + k
           IN  /\ a \in DOMAIN block /\ block[a] = i
               /\ dynamicArray_index(a) = i
    /\ life = "live" => dynamicArray_end = NoItem
=============================================================================
