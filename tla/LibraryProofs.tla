---------------------------- MODULE LibraryProofs ----------------------------
(***************************************************************************)
(* Proofs about the containers: what a CStr keeps, for any header, any     *)
(* preallocation larger than it, any texts and any requests for room, and  *)
(* what a dynamic array keeps, for items and arrays of any size and any    *)
(* width of unsigned int, and that the linked lists of a hash table stay   *)
(* linked, for any number of buckets, nodes, keys and values and for any   *)
(* hash function.                                                          *)
(***************************************************************************)
EXTENDS HashTable, DynamicArray, CStr, QueueLemmas, TLAPS

-----------------------------------------------------------------------------
(* The strings.                                                            *)

Fields == [alloc : Nat, len : Nat, freelen : Nat, intact : Nat, tiny : BOOLEAN]

CStrType == str \in [Strings -> Fields]

\* What TextKept says of one string.
SoundText(x) ==
  LET room == x.alloc - Header - x.len - 1
  IN  /\ ~ x.tiny => x.intact = x.len + 1 /\ room >= 0
      /\ \/ x.freelen = 0 /\ room = 0
         \/ x.freelen > 0 /\ room = x.freelen - (Header + 1)

CStrInv == CStrType /\ \A s \in Live : SoundText(str[s])

\* What an update of four fields leaves.
LEMMA ExceptFields ==
  ASSUME NEW r \in Fields, NEW a \in Nat, NEW f \in Nat, NEW i \in Nat, NEW t \in BOOLEAN
  PROVE  LET x == [r EXCEPT !.alloc = a, !.freelen = f, !.intact = i, !.tiny = t]
         IN  /\ x \in Fields /\ x.tiny = t
             /\ x.alloc = a /\ x.len = r.len /\ x.freelen = f /\ x.intact = i
<1> DEFINE x == [r EXCEPT !.alloc = a, !.freelen = f, !.intact = i, !.tiny = t]
<1>1. x \in Fields
  BY DEF Fields
<1>2. x.alloc = a /\ x.len = r.len /\ x.freelen = f /\ x.intact = i
  BY DEF Fields
<1>3. x.tiny = t
  BY DEF Fields
<1> QED
  BY <1>1, <1>2, <1>3

\* A string that is made from a text or from a sound string is sound.
LEMMA CreateSound ==
  ASSUME NEW n \in Nat, NEW from \in Fields,
         ~ from.tiny => from.intact >= n
  PROVE  Created(n, from) \in Fields /\ SoundText(Created(n, from))
<1> USE CStrAssumption DEF CStrAssumption, Fields, Created
<1>1. Created(n, from) \in Fields
  OBVIOUS
<1>2. ~ Created(n, from).tiny => Created(n, from).intact = n + 1
  OBVIOUS
<1>3. /\ Created(n, from).alloc = Header + n + 1 /\ Created(n, from).len = n
      /\ Created(n, from).freelen = 0
  OBVIOUS
<1> QED
  BY <1>1, <1>2, <1>3 DEF SoundText

\* Room that is made leaves a sound string sound.
LEMMA MackSound ==
  ASSUME NEW s \in Strings, NEW add \in Nat \ {0}, str[s] \in Fields, SoundText(str[s])
  PROVE  LET x == Resized(s, add, NewLen(s, add), NewLen(s, add) - str[s].len)
         IN  x \in Fields /\ SoundText(x)
<1> DEFINE len == str[s].len
           new == NewLen(s, add)
           x   == Resized(s, add, new, new - len)
<1> USE CStrAssumption DEF CStrAssumption, Fields
<1>1. len \in Nat /\ new \in Nat /\ new > len
  BY DEF NewLen
<1>2. len + 2 * add > Header => new >= Header + len + 1
  BY DEF NewLen
<1>3. /\ x.alloc = new /\ x.len = len /\ x.freelen = new - len
      /\ x.tiny = (str[s].tiny \/ len + 2 * add <= Header)
      /\ x.intact = IF Header + str[s].intact <= new THEN str[s].intact
                    ELSE IF new < Header THEN 0 ELSE new - Header
      /\ x \in Fields
  <2> DEFINE i == IF Header + str[s].intact <= new THEN str[s].intact
                  ELSE IF new < Header THEN 0 ELSE new - Header
             t == str[s].tiny \/ len + 2 * add <= Header
  <2>1. new - len \in Nat /\ i \in Nat /\ t \in BOOLEAN /\ new \in Nat /\ len \in Nat
    BY <1>1
  <2>2. x = [str[s] EXCEPT !.alloc = new, !.freelen = new - len, !.intact = i, !.tiny = t]
    BY DEF Resized
  <2> HIDE DEF new, i, t, x
  <2>3. /\ x \in Fields /\ x.tiny = t
        /\ x.alloc = new /\ x.len = str[s].len /\ x.freelen = new - len /\ x.intact = i
    BY <2>1, <2>2, ExceptFields DEF len
  <2> QED
    BY <2>3 DEF i, t, len
<1> HIDE DEF len, new, x
<1>4. ~ x.tiny => x.intact = len + 1
  BY <1>1, <1>2, <1>3 DEF SoundText, len
<1>5. SoundText(x)
  BY <1>1, <1>2, <1>3, <1>4 DEF SoundText
<1> QED
  BY <1>3, <1>5 DEF len, new, x

LEMMA CStrStep == CStrInv /\ [CStrNext]_str => CStrInv'
<1> SUFFICES ASSUME CStrInv, [CStrNext]_str
             PROVE  CStrInv'
  OBVIOUS
<1> USE CStrAssumption DEF CStrAssumption
<1>1. ASSUME NEW s \in Strings, NEW x \in Fields, str' = [str EXCEPT ![s] = x],
             x = NoString \/ SoundText(x)
      PROVE  CStrInv'
  BY <1>1 DEF CStrInv, CStrType, Live
<1>2. ASSUME NEW s \in Strings, NEW n \in Lengths, CStr_Malloc(s, n)
      PROVE  CStrInv'
  <2> DEFINE from == [NoString EXCEPT !.intact = n]
  <2>1. n \in Nat
    OBVIOUS
  <2>2. from \in Fields
    BY <2>1 DEF NoString, Fields
  <2>3. from.intact = n
    BY <2>1 DEF NoString
  <2> QED
    <3>1. str' = [str EXCEPT ![s] = Created(n, from)]
      BY <1>2 DEF CStr_Malloc, CStr_Create
    <3> HIDE DEF from
    <3>2. Created(n, from) \in Fields /\ SoundText(Created(n, from))
      BY <2>1, <2>2, <2>3, CreateSound
    <3> QED
      BY <1>1, <3>1, <3>2
<1>3. ASSUME NEW s \in Strings, NEW t \in Strings, CStr_Dup(s, t)
      PROVE  CStrInv'
  <2>1. str[t] \in Fields /\ SoundText(str[t])
    BY <1>3 DEF CStr_Dup, CStrInv, CStrType
  <2>2. str[t].len \in Nat /\ (~ str[t].tiny => str[t].intact >= str[t].len)
    BY <2>1 DEF SoundText, Fields
  <2> QED
    <3>1. str' = [str EXCEPT ![s] = Created(str[t].len, str[t])]
      BY <1>3 DEF CStr_Dup, CStr_Create
    <3> QED
      BY <1>1, <2>1, <2>2, <3>1, CreateSound
<1>4. ASSUME NEW s \in Strings, NEW add \in Requests, CStr_MackSpace(s, add)
      PROVE  CStrInv'
  <2>1. str[s] \in Fields /\ SoundText(str[s]) /\ add \in Nat \ {0}
    BY <1>4 DEF CStr_MackSpace, CStrInv, CStrType
  <2> QED
    BY <1>1, <1>4, <2>1, MackSound DEF CStr_MackSpace
<1>5. ASSUME NEW s \in Strings, CStr_Free(s)
      PROVE  CStrInv'
  <2>1. NoString \in Fields
    BY DEF NoString, Fields
  <2> QED
    BY <1>1, <1>5, <2>1 DEF CStr_Free
<1>6. CASE UNCHANGED str
  BY <1>6 DEF CStrInv, CStrType, Live
<1> QED
  BY <1>2, <1>3, <1>4, <1>5, <1>6 DEF CStrNext

\* For texts and requests of any size, in any order, a text outlives every
\* request for room but the tiny ones, and freelen is wrong by a constant.
THEOREM StringsKept == CStrSpec => []TextKept
<1>1. CStrInit => CStrInv
  BY CStrAssumption DEF CStrAssumption, CStrInit, CStrInv, CStrType, Live, NoString, Fields
<1>2. CStrInv => TextKept
  BY DEF CStrInv, TextKept, SoundText, Live
<1> QED
  BY <1>1, <1>2, CStrStep, PTL DEF CStrSpec

-----------------------------------------------------------------------------
(* The dynamic array: products.                                            *)

\* The bytes of item i lie before those of item m, and are its alone.
LEMMA PlacesApart ==
  ASSUME NEW s \in Nat \ {0}, NEW i \in Nat, NEW m \in Nat, NEW k \in 0..s - 1, i < m
  PROVE  s * i + k < s * m /\ s * i \in Nat /\ s * m \in Nat /\ m <= s * m
<1>1. PICK d \in Nat : m = i + 1 + d
  <2>1. m - i - 1 \in Nat /\ m = i + 1 + (m - i - 1)
    OBVIOUS
  <2> QED
    BY <2>1
<1>2. s * m = s * i + s + s * d /\ s * d >= 0 /\ s * i >= 0
  BY <1>1
<1>3. s * m = m + (s - 1) * m /\ (s - 1) * m >= 0
  OBVIOUS
<1> QED
  BY <1>2, <1>3

\* From any byte of an item the division leads back to its index.
LEMMA IndexBack ==
  ASSUME NEW s \in Nat \ {0}, NEW i \in Nat, NEW k \in 0..s - 1
  PROVE  (s * i + k) \div s = i
<1> DEFINE a == s * i + k
           q == a \div s
           r == a % s
<1>0. s * i \in Nat /\ a \in Nat
  OBVIOUS
<1> HIDE DEF a
<1>1. q \in Nat /\ r \in 0..s - 1 /\ a = s * q + r
  BY <1>0
<1> HIDE DEF q, r
<1>2. CASE q < i
  <2>1. s * q + r < s * i
    BY <1>1, <1>2, PlacesApart
  <2> QED
    BY <1>0, <1>1, <2>1 DEF a
<1>3. CASE i < q
  <2>1. s * i + k < s * q /\ s * q \in Nat
    BY <1>1, <1>3, PlacesApart
  <2> QED
    BY <1>0, <1>1, <2>1 DEF a
<1> QED
  BY <1>1, <1>2, <1>3 DEF q, a

-----------------------------------------------------------------------------
(* The dynamic array: its items.                                           *)

\* The block is as large as the array believes, and every item is in place.
InPlace ==
  /\ itemsize * nmalloc < Width /\ nitem <= nmalloc
  /\ DOMAIN block = 0..itemsize * nmalloc - 1
  /\ \A i \in 0..nitem - 1, k \in 0..itemsize - 1 : block[itemsize * i + k] = i

ArrayTypes == nitem \in Nat /\ nmalloc \in Nat /\ itemsize \in Nat \ {0}

ArrayInv ==
  /\ ArrayTypes
  /\ Sound => /\ ~ outside
              /\ life \in {"none", "live"}
              /\ life = "live" => InPlace

\* Products that fit are products.
LEMMA MulFits ==
  ASSUME NEW m \in Nat, NEW n \in Nat, m * n < Width
  PROVE  Mul(m, n) = m * n
<1>1. m * n \in Nat /\ Width \in Nat \ {0}
  BY ArrayAssumption DEF ArrayAssumption
<1> DEFINE p == m * n
<1>2. p \in Nat /\ p < Width
  BY <1>1
<1> HIDE DEF p
<1>3. p % Width = p
  BY <1>1, <1>2
<1> QED
  BY <1>3 DEF Mul, p

LEMMA MulNatural ==
  ASSUME NEW m \in Nat, NEW n \in Nat
  PROVE  Mul(m, n) \in Nat
<1>1. m * n \in Nat /\ Width \in Nat \ {0}
  BY ArrayAssumption DEF ArrayAssumption
<1> DEFINE p == m * n
<1>2. p \in Nat
  BY <1>1
<1> HIDE DEF p
<1>3. p % Width \in Nat
  BY <1>1, <1>2
<1> QED
  BY <1>3 DEF Mul, p

\* The new item goes where no other item is, and inside of a block with room.
LEMMA FillPlaces ==
  ASSUME NEW mem, NEW cap \in Nat, ArrayTypes, Fill(mem), itemsize' = itemsize,
         nitem < cap, itemsize * cap < Width,
         DOMAIN mem = 0..itemsize * cap - 1,
         \A i \in 0..nitem - 1, k \in 0..itemsize - 1 : mem[itemsize * i + k] = i
  PROVE  /\ ~ outside => ~ outside'
         /\ nitem' = nitem + 1
         /\ DOMAIN block' = DOMAIN mem
         /\ \A i \in 0..nitem, k \in 0..itemsize - 1 : block'[itemsize * i + k] = i
<1> DEFINE s == itemsize
<1>0. s \in Nat \ {0} /\ nitem \in Nat /\ 0 \in 0..s - 1
  BY DEF ArrayTypes
<1>1. s * nitem \in Nat /\ s * cap \in Nat /\ s * nitem < s * cap /\ cap <= s * cap
  <2>1. s * nitem + 0 < s * cap /\ s * nitem \in Nat /\ s * cap \in Nat /\ cap <= s * cap
    BY <1>0, PlacesApart
  <2> QED
    BY <2>1
<1>2. nitem' = nitem + 1
  <2>1. nitem + 1 < Width /\ Width \in Nat
    BY <1>0, <1>1, ArrayAssumption DEF ArrayAssumption
  <2> QED
    BY <1>0, <2>1 DEF Fill
<1>3. Place(nitem) = {s * nitem + k : k \in 0..s - 1}
  <2>1. s * nitem < Width
    BY <1>1, ArrayAssumption DEF ArrayAssumption
  <2>2. Mul(s, nitem) = s * nitem
    BY <1>0, <2>1, MulFits
  <2> QED
    BY <2>2 DEF Place
<1>4. \A i \in 0..nitem, k \in 0..s - 1 : s * i + k \in DOMAIN mem
  <2> SUFFICES ASSUME NEW i \in 0..nitem, NEW k \in 0..s - 1
               PROVE  s * i + k \in 0..s * cap - 1
    OBVIOUS
  <2>1. i \in Nat /\ i < cap /\ k \in Nat
    BY <1>0
  <2>2. s * i + k < s * cap /\ s * i \in Nat
    BY <1>0, <2>1, PlacesApart
  <2> QED
    BY <1>1, <2>1, <2>2
<1>5. Place(nitem) \subseteq DOMAIN mem
  <2>1. nitem \in 0..nitem
    BY <1>0
  <2> QED
    BY <1>3, <1>4, <2>1
<1>6. ~ outside => ~ outside'
  BY <1>5, Zenon DEF Fill
<1>7. block' = [b \in DOMAIN mem |-> IF b \in Place(nitem) THEN nitem ELSE mem[b]]
  BY DEF Fill
<1>8. ASSUME NEW i \in 0..nitem, NEW k \in 0..s - 1
      PROVE  block'[s * i + k] = i
  <2>1. s * i + k \in DOMAIN mem
    BY <1>4
  <2>2. CASE i = nitem
    BY <1>3, <1>7, <2>1, <2>2
  <2>3. CASE i # nitem
    <3>1. i \in 0..nitem - 1 /\ i \in Nat /\ i < nitem
      BY <1>0, <2>3
    <3>2. s * i + k < s * nitem
      BY <1>0, <3>1, PlacesApart
    <3>3. s * i \in Nat
      BY <1>0, <3>1, PlacesApart
    <3>4. \A j \in 0..s - 1 : s * i + k # s * nitem + j
      BY <1>1, <3>2, <3>3
    <3>5. s * i + k \notin Place(nitem)
      BY <1>3, <3>4
    <3>6. mem[s * i + k] = i
      BY <3>1
    <3> QED
      BY <1>7, <2>1, <3>5, <3>6
  <2> QED
    BY <2>2, <2>3
<1> QED
  BY <1>2, <1>6, <1>7, <1>8

LEMMA ArrayStep == ArrayInv /\ [ArrayNext]_arrayVars => ArrayInv'
<1> SUFFICES ASSUME ArrayInv, [ArrayNext]_arrayVars
             PROVE  ArrayInv'
  OBVIOUS
<1>0. ArrayTypes /\ Width \in Nat \ {0}
  BY ArrayAssumption DEF ArrayInv, ArrayAssumption
<1>1. ASSUME NEW n \in Counts, NEW s \in ItemSizes, dynamicArray_init(n, s)
      PROVE  ArrayInv'
  <2>1. n \in Nat /\ s \in Nat \ {0} /\ s * n = n * s /\ n * s \in Nat
    BY ArrayAssumption DEF ArrayAssumption
  <2>2. /\ nitem' = 0 /\ nmalloc' = n /\ itemsize' = s /\ ~ outside' /\ life' = "live"
        /\ block' = Bytes(Mul(n, s)) /\ wrapped' = (n * s >= Width)
    BY <1>1 DEF dynamicArray_init
  <2>3. ASSUME ~ wrapped'
        PROVE  InPlace'
    <3>1. n * s < Width
      <4>1. ~ (n * s >= Width)
        BY <2>2, <2>3, Zenon
      <4> QED
        BY <1>0, <2>1, <4>1
    <3>2. Mul(n, s) = n * s
      BY <2>1, <3>1, MulFits
    <3>3. DOMAIN block' = 0..s * n - 1
      BY <2>1, <2>2, <3>2 DEF Bytes
    <3> QED
      BY <2>1, <2>2, <3>1, <3>3 DEF InPlace
  <2> QED
    BY <2>1, <2>2, <2>3 DEF ArrayInv, ArrayTypes, Sound
<1>2. ASSUME PushRoom
      PROVE  ArrayInv'
  <2>1. /\ UNCHANGED <<nmalloc, itemsize, life>> /\ nitem # nmalloc /\ Fill(block)
        /\ wrapped' = (wrapped \/ itemsize * nitem >= Width) /\ life \in {"live", "dangling"}
    BY <1>2 DEF PushRoom, Full
  <2>2. ArrayTypes'
    BY <1>0, <2>1 DEF ArrayTypes, Fill
  <2>3. ASSUME Sound'
        PROVE  ~ outside' /\ life' = "live" /\ InPlace'
    <3>1. Sound
      BY <2>1, <2>3 DEF Sound
    <3>2. ~ outside /\ life = "live" /\ InPlace
      BY <2>1, <3>1 DEF ArrayInv
    <3>3. nitem < nmalloc
      BY <1>0, <2>1, <3>2 DEF InPlace, ArrayTypes
    <3>4. /\ ~ outside' /\ nitem' = nitem + 1 /\ DOMAIN block' = DOMAIN block
          /\ \A i \in 0..nitem, k \in 0..itemsize - 1 : block'[itemsize * i + k] = i
      BY <1>0, <2>1, <3>2, <3>3, FillPlaces DEF InPlace, ArrayTypes
    <3>5. 0..nitem' - 1 = 0..nitem /\ nitem' <= nmalloc
      BY <1>0, <3>3, <3>4 DEF ArrayTypes
    <3> QED
      BY <2>1, <3>2, <3>4, <3>5 DEF InPlace
  <2> QED
    BY <2>2, <2>3 DEF ArrayInv
<1>3. ASSUME PushGrow
      PROVE  ArrayInv'
  <2> DEFINE mem == Realloc(NewSize)
             cap == 2 * nmalloc
  <2>1. /\ life = "live" /\ nitem = nmalloc /\ Fill(mem) /\ nmalloc' = Mul(2, nmalloc)
        /\ wrapped' = (wrapped \/ 2 * itemsize * nmalloc >= Width)
        /\ UNCHANGED <<itemsize, life>>
    BY <1>3 DEF PushGrow, Full
  <2>2. nmalloc \in Nat /\ itemsize \in Nat \ {0} /\ cap \in Nat
    BY <1>0 DEF ArrayTypes
  <2>3. ArrayTypes'
    <3>1. nmalloc' \in Nat
      BY <2>1, <2>2, MulNatural
    <3> QED
      BY <1>0, <2>1, <3>1 DEF ArrayTypes, Fill
  <2>4. ASSUME Sound'
        PROVE  ~ outside' /\ InPlace'
    <3>1. ~ wrapped' /\ ~ wrapped /\ nmalloc' > 0
      BY <2>1, <2>4 DEF Sound
    <3>2. itemsize * nmalloc \in Nat /\ itemsize * cap = 2 * (itemsize * nmalloc)
          /\ itemsize * cap < Width
      <4>1. ~ (2 * itemsize * nmalloc >= Width)
        BY <2>1, <3>1, Zenon
      <4>2. 2 * itemsize * nmalloc = 2 * (itemsize * nmalloc) /\ itemsize * nmalloc \in Nat
            /\ itemsize * cap = 2 * (itemsize * nmalloc)
        BY <2>2
      <4> QED
        BY <1>0, <4>1, <4>2
    <3>3. nmalloc <= itemsize * nmalloc
      BY <2>2
    <3>4. itemsize * nmalloc < Width /\ cap < Width
      BY <1>0, <2>2, <3>2, <3>3
    <3>5. Mul(itemsize, nmalloc) = itemsize * nmalloc
      BY <2>2, <3>4, MulFits
    <3>6. NewSize = itemsize * cap
      BY <2>2, <3>2, <3>5, MulFits DEF NewSize
    <3>7. nmalloc' = cap
      BY <2>1, <2>2, <3>4, MulFits
    <3>8. nmalloc > 0 /\ nitem < cap
      BY <2>1, <2>2, <3>1, <3>7
    <3>9. ~ outside /\ InPlace
      BY <2>1, <3>1, <3>8 DEF ArrayInv, Sound
    <3>10. DOMAIN mem = 0..itemsize * cap - 1
      BY <3>6 DEF Realloc
    <3>11. ASSUME NEW i \in 0..nitem - 1, NEW k \in 0..itemsize - 1
           PROVE  mem[itemsize * i + k] = i
      <4>1. i \in Nat /\ i < nmalloc /\ k \in Nat
        BY <2>1, <2>2
      <4>2. itemsize * i + k < itemsize * nmalloc /\ itemsize * i \in Nat
        BY <2>2, <4>1, PlacesApart
      <4>3. itemsize * i + k \in 0..itemsize * nmalloc - 1
            /\ itemsize * i + k \in 0..itemsize * cap - 1
        BY <3>2, <4>1, <4>2
      <4>4. block[itemsize * i + k] = i
        BY <3>9 DEF InPlace
      <4>5. itemsize * i + k \in DOMAIN block
        BY <3>9, <4>3 DEF InPlace
      <4> QED
        BY <3>6, <4>3, <4>4, <4>5 DEF Realloc
    <3> HIDE DEF mem, cap
    <3>12. /\ ~ outside' /\ nitem' = nitem + 1 /\ DOMAIN block' = DOMAIN mem
           /\ \A i \in 0..nitem, k \in 0..itemsize - 1 : block'[itemsize * i + k] = i
      BY <1>0, <2>1, <2>2, <3>2, <3>8, <3>9, <3>10, <3>11, FillPlaces
    <3>13. 0..nitem' - 1 = 0..nitem /\ nitem' <= cap
      BY <2>1, <2>2, <3>8, <3>12
    <3> QED
      BY <2>1, <3>2, <3>7, <3>9, <3>10, <3>12, <3>13 DEF InPlace
  <2> QED
    BY <2>1, <2>3, <2>4 DEF ArrayInv
<1>4. ASSUME PushNothing
      PROVE  ArrayInv'
  <2>1. ~ Sound' /\ UNCHANGED <<nitem, nmalloc, itemsize>>
    BY <1>4 DEF PushNothing, Sound
  <2> QED
    BY <1>0, <2>1 DEF ArrayInv, ArrayTypes
<1>5. ASSUME FreeTwice
      PROVE  ArrayInv'
  BY <1>5 DEF FreeTwice, ArrayInv, ArrayTypes, Sound
<1>6. ASSUME dynamicArray_pop
      PROVE  ArrayInv'
  <2>1. /\ nitem > 0 /\ nitem' = nitem - 1
        /\ UNCHANGED <<nmalloc, itemsize, block, life, wrapped, outside>>
    BY <1>6 DEF dynamicArray_pop
  <2>2. nitem' \in Nat /\ \A i \in 0..nitem' - 1 : i \in 0..nitem - 1
    BY <1>0, <2>1 DEF ArrayTypes
  <2>3. InPlace => InPlace'
    BY <1>0, <2>1, <2>2 DEF InPlace, ArrayTypes
  <2> QED
    BY <2>1, <2>2, <2>3 DEF ArrayInv, ArrayTypes, Sound
<1>7. ASSUME dynamicArray_clear
      PROVE  ArrayInv'
  BY <1>5, <1>7 DEF dynamicArray_clear, ArrayInv, ArrayTypes, Sound
<1>8. CASE UNCHANGED arrayVars
  BY <1>8 DEF arrayVars, ArrayInv, ArrayTypes, Sound, InPlace
<1> QED
  BY <1>1, <1>2, <1>3, <1>4, <1>5, <1>6, <1>7, <1>8 DEF ArrayNext, dynamicArray_push

\* For items and arrays of any size and any width of unsigned int, through any
\* pushes and pops: an array made for at least one item keeps its items until
\* its size in bytes wraps.
THEOREM ArrayKeepsItems == ArraySpec => []ItemsKept
<1>1. ArrayInit => ArrayInv
  BY DEF ArrayInit, ArrayInv, ArrayTypes, Sound
<1>2. ArrayInv => ItemsKept
  <2> SUFFICES ASSUME ArrayInv, Sound
               PROVE  /\ ~ outside
                      /\ life \notin {"dangling", "aborted"}
                      /\ life = "live" =>
                           /\ dynamicArray_end = NoItem
                           /\ \A i \in 0..nitem - 1, k \in 0..itemsize - 1 :
                                LET a == dynamicArray_value(i) + k
                                IN  /\ a \in DOMAIN block /\ block[a] = i
                                    /\ dynamicArray_index(a) = i
    BY Zenon DEF ItemsKept
  <2>1. ~ outside /\ life \in {"none", "live"} /\ ArrayTypes
    BY DEF ArrayInv
  <2>2. ASSUME life = "live"
        PROVE  dynamicArray_end = NoItem
    BY <2>1, <2>2 DEF ArrayInv, InPlace, ArrayTypes, dynamicArray_end, dynamicArray_value
  <2>3. ASSUME life = "live", NEW i \in 0..nitem - 1, NEW k \in 0..itemsize - 1
        PROVE  LET a == dynamicArray_value(i) + k
               IN  /\ a \in DOMAIN block /\ block[a] = i
                   /\ dynamicArray_index(a) = i
    <3> DEFINE b == itemsize * i + k
    <3>1. /\ itemsize \in Nat \ {0} /\ nmalloc \in Nat /\ i \in Nat /\ i < nitem
          /\ i < nmalloc /\ k \in Nat
      BY <2>1, <2>3 DEF ArrayInv, InPlace, ArrayTypes
    <3>2. b < itemsize * nmalloc /\ itemsize * i \in Nat /\ itemsize * nmalloc \in Nat
      BY <3>1, PlacesApart
    <3>3. b \in 0..itemsize * nmalloc - 1 /\ b < Width /\ itemsize * i < Width
      BY <2>3, <3>1, <3>2, ArrayAssumption DEF ArrayInv, InPlace, ArrayAssumption
    <3>4. b \in DOMAIN block /\ block[b] = i
      BY <2>3, <3>3 DEF ArrayInv, InPlace
    <3>5. b \div itemsize = i
      BY <3>1, IndexBack
    <3>6. dynamicArray_value(i) + k = b
      BY <3>1, <3>3, MulFits DEF dynamicArray_value
    <3>7. b \in Nat /\ Width \in Nat
      BY <3>3, ArrayAssumption DEF ArrayAssumption
    <3> HIDE DEF b
    <3>8. b % Width = b /\ ~ (b < 0)
      BY <3>3, <3>7
    <3>9. dynamicArray_index(b) = i
      BY <3>5, <3>8 DEF dynamicArray_index
    <3> QED
      BY <3>4, <3>6, <3>9
  <2> QED
    BY <2>1, <2>2, <2>3
<1> QED
  BY <1>1, <1>2, ArrayStep, PTL DEF ArraySpec

-----------------------------------------------------------------------------
(* The lists.                                                              *)

USE ListAssumption DEF ListAssumption

\* s is a list in memory: from f to t through nx, and back through pv.
Chained(s, f, t, nx, pv) ==
  /\ f = IF s = <<>> THEN NULL ELSE s[1]
  /\ t = IF s = <<>> THEN NULL ELSE s[Len(s)]
  /\ \A i \in 1..Len(s) :
       /\ nx[s[i]] = IF i = Len(s) THEN NULL ELSE s[i + 1]
       /\ pv[s[i]] = IF i = 1 THEN NULL ELSE s[i - 1]

\* The nodes of all lists: each allocated node is in one place of one list.
Places(c) ==
  /\ \A l, m \in Lists : \A i \in 1..Len(c[l]), j \in 1..Len(c[m]) :
       c[l][i] = c[m][j] => l = m /\ i = j
  /\ \A n \in Nodes : data[n] # Junk <=> \E l \in Lists : \E i \in 1..Len(c[l]) : c[l][i] = n

\* What the fields of the lists and of the nodes can hold.
ListTypes ==
  /\ head \in [Lists -> Nodes \cup {NULL}] /\ tail \in [Lists -> Nodes \cup {NULL}]
  /\ count \in [Lists -> Nat] /\ missed \in [Lists -> Nat]
  /\ next \in [Nodes -> Nodes \cup {NULL, Junk}] /\ prev \in [Nodes -> Nodes \cup {NULL, Junk}]
  /\ data \in [Nodes -> Data \cup {Junk}]

\* The lists as sequences of nodes.
Chains(c) ==
  /\ c \in [Lists -> Seq(Nodes)]
  /\ \A l \in Lists : /\ Chained(c[l], head[l], tail[l], next, prev)
                      /\ count[l] = Len(c[l]) + missed[l]
  /\ Places(c)

\* How many numbers there are below n.
LEMMA IntervalSize ==
  ASSUME NEW n \in Nat
  PROVE  /\ IsFiniteSet(1..n) /\ Cardinality(1..n) = n
         /\ IsFiniteSet(0..n - 1) /\ Cardinality(0..n - 1) = n
<1>1. n \in Int /\ n - 1 \in Int /\ 0 \in Int /\ 1 \in Int
  OBVIOUS
<1>2. IsFiniteSet(1..n) /\ Cardinality(1..n) = IF 1 > n THEN 0 ELSE n - 1 + 1
  BY <1>1, FS_Interval
<1>3. IsFiniteSet(0..n - 1) /\ Cardinality(0..n - 1) = IF 0 > n - 1 THEN 0 ELSE (n - 1) - 0 + 1
  BY <1>1, FS_Interval
<1> QED
  BY <1>2, <1>3

\* No list is longer than there are nodes.
LEMMA ChainFits ==
  ASSUME NEW c, Chains(c), NEW l \in Lists
  PROVE  /\ Len(c[l]) \in 0..Cardinality(Nodes)
         /\ Cardinality(Nodes) \in Nat
<1>1. c[l] \in Seq(Nodes) /\ Len(c[l]) \in Nat
  BY DEF Chains
<1>2. c[l] \in [1..Len(c[l]) -> Nodes]
  BY <1>1
<1>3. \A i, j \in 1..Len(c[l]) : c[l][i] = c[l][j] => i = j
  BY DEF Chains, Places
<1>4. c[l] \in Injection(1..Len(c[l]), Nodes)
  BY <1>2, <1>3 DEF Injection, IsInjective
<1>5. IsFiniteSet(1..Len(c[l])) /\ Cardinality(1..Len(c[l])) = Len(c[l])
  BY <1>1, IntervalSize
<1>6. Cardinality(1..Len(c[l])) <= Cardinality(Nodes) /\ Cardinality(Nodes) \in Nat
  BY <1>4, <1>5, FS_Injection, FS_CardinalityType
<1> QED
  BY <1>1, <1>5, <1>6

\* f[j] is the address j steps from the head of l.
Steps(l, i, f) ==
  f = [j \in 0..i |-> IF j = 0 THEN head[l] ELSE Successor[f[j - 1]]]

\* Walk takes the function that is defined by these steps.
LEMMA WalkIs ==
  ASSUME NEW l, NEW i
  PROVE  Walk(l, i) = (CHOOSE f : Steps(l, i, f))[i]
  BY Zenon DEF Walk, Steps

\* There is only one such function.
LEMMA StepsUnique ==
  ASSUME NEW l, NEW i \in Nat, NEW f, NEW g, Steps(l, i, f), Steps(l, i, g)
  PROVE  f = g
<1> DEFINE D == {j \in 0..i : f[j] # g[j]}
<1>1. ASSUME D # {}
      PROVE  FALSE
  <2>0. D \subseteq Nat
    OBVIOUS
  <2>1. PICK x \in D : \A y \in D : x <= y
    BY <1>1, <2>0, SmallestOf
  <2>2. CASE x = 0
    BY <2>1, <2>2 DEF Steps
  <2>3. CASE x # 0
    <3>1. x - 1 \in 0..i /\ x \in 0..i /\ x - 1 \notin D
      BY <2>1, <2>3
    <3>2. f[x - 1] = g[x - 1]
      BY <3>1
    <3>3. f[x] = Successor[f[x - 1]] /\ g[x] = Successor[g[x - 1]]
      BY <3>1, <2>3 DEF Steps
    <3> QED
      BY <3>2, <3>3, <2>1
  <2> QED
    BY <2>2, <2>3
<1>2. \A j \in 0..i : f[j] = g[j]
  BY <1>1
<1> QED
  BY <1>2 DEF Steps

\* Walking a list in memory goes through its nodes, and stays at NULL.
LEMMA WalkChain ==
  ASSUME NEW c, Chains(c), NEW l \in Lists, NEW i \in Nat
  PROVE  Walk(l, i) = IF i < Len(c[l]) THEN c[l][i + 1] ELSE NULL
<1> DEFINE s == c[l]
           f == [j \in 0..i |-> IF j < Len(s) THEN s[j + 1] ELSE NULL]
<1>1. s \in Seq(Nodes) /\ Len(s) \in Nat /\ Chained(s, head[l], tail[l], next, prev)
  BY DEF Chains
<1> HIDE DEF s
<1>2. f[0] = head[l]
  BY <1>1 DEF Chained
<1>3. ASSUME NEW j \in 1..i
      PROVE  f[j] = Successor[f[j - 1]]
  <2>1. CASE j <= Len(s)
    <3>1. f[j - 1] = s[j] /\ j \in 1..Len(s) /\ s[j] \in Nodes
      BY <1>1, <2>1
    <3>2. Successor[s[j]] = next[s[j]]
      BY <3>1 DEF Successor
    <3>3. f[j] = IF j = Len(s) THEN NULL ELSE s[j + 1]
      BY <1>1, <2>1
    <3> QED
      BY <1>1, <3>1, <3>2, <3>3 DEF Chained
  <2>2. CASE ~ (j <= Len(s))
    <3>1. f[j - 1] = NULL /\ f[j] = NULL
      BY <1>1, <2>2
    <3>2. Successor[NULL] = NULL
      BY DEF Successor
    <3> QED
      BY <3>1, <3>2
  <2> QED
    BY <2>1, <2>2
<1>4. Steps(l, i, f)
  <2>1. \A j \in 0..i : f[j] = IF j = 0 THEN head[l] ELSE Successor[f[j - 1]]
    <3> HIDE DEF f
    <3>1. \A j \in 0..i : j = 0 \/ j \in 1..i
      OBVIOUS
    <3> QED
      BY <1>2, <1>3, <3>1
  <2> DEFINE g == [j \in 0..i |-> IF j = 0 THEN head[l] ELSE Successor[f[j - 1]]]
  <2>2. \A j \in 0..i : f[j] = g[j]
    <3> HIDE DEF f
    <3> QED
      BY <2>1
  <2>3. f = [j \in 0..i |-> f[j]] /\ g = [j \in 0..i |-> g[j]]
    OBVIOUS
  <2> HIDE DEF f, g
  <2>4. f = g
    BY <2>2, <2>3
  <2> QED
    BY <2>4, Zenon DEF Steps, g
<1>5. f[i] = IF i < Len(s) THEN s[i + 1] ELSE NULL
  OBVIOUS
<1> HIDE DEF f
<1>6. Steps(l, i, CHOOSE g : Steps(l, i, g))
  BY <1>4, Zenon
<1>7. (CHOOSE g : Steps(l, i, g)) = f
  BY <1>4, <1>6, StepsUnique
<1>8. Walk(l, i) = f[i]
  BY <1>7, WalkIs
<1> QED
  BY <1>5, <1>8 DEF s

\* The loop of DataList_Find visits each node of a list in memory once.
LEMMA ReachedChain ==
  ASSUME NEW c, Chains(c), NEW l \in Lists
  PROVE  /\ Reached(l) = 0..Len(c[l]) - 1
         /\ Cardinality(Reached(l)) = Len(c[l])
<1>1. Len(c[l]) \in 0..Cardinality(Nodes) /\ Cardinality(Nodes) \in Nat
  BY ChainFits
<1>2. c[l] \in Seq(Nodes)
  BY DEF Chains
<1>3. ASSUME NEW i \in 0..Cardinality(Nodes)
      PROVE  Walk(l, i) \in Nodes <=> i < Len(c[l])
  <2>1. Walk(l, i) = IF i < Len(c[l]) THEN c[l][i + 1] ELSE NULL
    BY <1>1, <1>3, WalkChain
  <2>2. CASE i < Len(c[l])
    BY <1>1, <1>2, <2>1, <2>2
  <2> QED
    BY <2>1, <2>2
<1>4. Reached(l) = 0..Len(c[l]) - 1
  BY <1>1, <1>3 DEF Reached
<1> QED
  BY <1>1, <1>4, IntervalSize

\* Lists that are chains are what Linked asks for.
LEMMA ChainsLinked ==
  ASSUME NEW c, Chains(c)
  PROVE  Linked
<1>1. ASSUME NEW l \in Lists
      PROVE  LET size == Cardinality(Reached(l))
             IN  /\ count[l] = size + missed[l]
                 /\ Walk(l, size) = NULL
                 /\ tail[l] = IF size = 0 THEN NULL ELSE Walk(l, size - 1)
                 /\ \A i \in Reached(l) :
                      /\ Walk(l, i) \notin Free
                      /\ prev[Walk(l, i)] = IF i = 0 THEN NULL ELSE Walk(l, i - 1)
  <2> DEFINE s == c[l]
  <2>1. /\ s \in Seq(Nodes) /\ Len(s) \in Nat /\ Chained(s, head[l], tail[l], next, prev)
        /\ count[l] = Len(s) + missed[l]
    BY DEF Chains
  <2>2. Reached(l) = 0..Len(s) - 1 /\ Cardinality(Reached(l)) = Len(s)
    BY ReachedChain
  <2>3. \A i \in Nat : Walk(l, i) = IF i < Len(s) THEN s[i + 1] ELSE NULL
    BY WalkChain
  <2>4. \A i \in 1..Len(s) : s[i] \notin Free
    BY <2>1 DEF Chains, Places, Free
  <2> HIDE DEF s
  <2>5. Walk(l, Len(s)) = NULL
    BY <2>1, <2>3
  <2>6. tail[l] = IF Len(s) = 0 THEN NULL ELSE Walk(l, Len(s) - 1)
    BY <2>1, <2>3 DEF Chained
  <2>7. ASSUME NEW i \in Reached(l)
        PROVE  /\ Walk(l, i) \notin Free
               /\ prev[Walk(l, i)] = IF i = 0 THEN NULL ELSE Walk(l, i - 1)
    <3>1. i \in Nat /\ i < Len(s) /\ i + 1 \in 1..Len(s) /\ Walk(l, i) = s[i + 1]
      BY <2>1, <2>2, <2>3
    <3>2. i # 0 => Walk(l, i - 1) = s[i]
      BY <3>1, <2>1, <2>3
    <3>3. prev[s[i + 1]] = IF i = 0 THEN NULL ELSE s[i]
      BY <3>1, <2>1 DEF Chained
    <3> QED
      BY <3>1, <3>2, <3>3, <2>4
  <2> QED
    BY <2>1, <2>2, <2>5, <2>6, <2>7
<1>2. ASSUME NEW n \in Nodes \ Free
      PROVE  Cardinality({l \in Lists : \E i \in Reached(l) : Walk(l, i) = n}) = 1
  <2>1. PICK l \in Lists : \E i \in 1..Len(c[l]) : c[l][i] = n
    BY <1>2 DEF Chains, Places, Free
  <2>2. ASSUME NEW m \in Lists
        PROVE  (\E i \in Reached(m) : Walk(m, i) = n) <=> m = l
    <3>1. Len(c[m]) \in Nat /\ Reached(m) = 0..Len(c[m]) - 1
      BY ReachedChain DEF Chains
    <3>2. \A i \in 0..Len(c[m]) - 1 : Walk(m, i) = c[m][i + 1]
      BY <3>1, WalkChain
    <3>3. (\E i \in Reached(m) : Walk(m, i) = n) <=> \E i \in 1..Len(c[m]) : c[m][i] = n
      <4>1. ASSUME NEW i \in 1..Len(c[m]), c[m][i] = n
            PROVE  \E j \in Reached(m) : Walk(m, j) = n
        <5>1. i - 1 \in 0..Len(c[m]) - 1 /\ (i - 1) + 1 = i
          BY <3>1
        <5>2. Walk(m, i - 1) = n
          BY <5>1, <3>2, <4>1
        <5> QED
          BY <5>1, <5>2, <3>1
      <4>2. ASSUME NEW i \in Reached(m), Walk(m, i) = n
            PROVE  \E j \in 1..Len(c[m]) : c[m][j] = n
        <5>1. i + 1 \in 1..Len(c[m])
          BY <3>1
        <5> QED
          BY <5>1, <3>1, <3>2, <4>2
      <4> QED
        BY <4>1, <4>2
    <3> QED
      BY <3>3, <2>1 DEF Chains, Places
  <2>3. {m \in Lists : \E i \in Reached(m) : Walk(m, i) = n} = {l}
    BY <2>2
  <2> QED
    BY <2>3, FS_Singleton
<1> QED
  BY <1>1, <1>2 DEF Linked

\* No node comes twice.
Distinct(s) == \A i, j \in 1..Len(s) : s[i] = s[j] => i = j

\* s without its j-th entry.
Without(s, j) == [i \in 1..Len(s) - 1 |-> IF i < j THEN s[i] ELSE s[i + 1]]

\* Its entries are those before the j-th, then those after it.
LEMMA WithoutEntries ==
  ASSUME NEW S, NEW s \in Seq(S), NEW j \in 1..Len(s)
  PROVE  /\ Without(s, j) \in Seq(S)
         /\ Len(Without(s, j)) = Len(s) - 1 /\ Len(s) \in Nat \ {0}
         /\ \A i \in 1..Len(s) - 1 : /\ i < j => Without(s, j)[i] = s[i]
                                     /\ ~ (i < j) => Without(s, j)[i] = s[i + 1]
<1>1. Len(s) \in Nat \ {0} /\ Len(s) - 1 \in Nat /\ \A i \in 1..Len(s) : s[i] \in S
  OBVIOUS
<1>2. Without(s, j) \in [1..Len(s) - 1 -> S]
  BY <1>1 DEF Without
<1>3. Without(s, j) \in Seq(S)
  BY <1>1, <1>2, SeqDef
<1>4. Len(Without(s, j)) = Len(s) - 1
  BY <1>1, <1>2, <1>3, LenProperties
<1> QED
  BY <1>1, <1>3, <1>4 DEF Without

\* What no write touched is still chained.
LEMMA ChainedSame ==
  ASSUME NEW s, NEW f, NEW t, NEW nx, NEW pv, NEW nx2, NEW pv2,
         Chained(s, f, t, nx, pv),
         \A i \in 1..Len(s) : nx2[s[i]] = nx[s[i]] /\ pv2[s[i]] = pv[s[i]]
  PROVE  Chained(s, f, t, nx2, pv2)
  BY DEF Chained

\* n becomes the last node of the list s.
AppendStep(s, n, f, t, nx, pv, f2, nx2, pv2) ==
  /\ s \in Seq(Nodes) /\ n \in Nodes /\ Distinct(s) /\ \A i \in 1..Len(s) : s[i] # n
  /\ Chained(s, f, t, nx, pv)
  /\ f2 = IF t = NULL THEN n ELSE f
  /\ nx2[n] = NULL /\ pv2[n] = t
  /\ \A x \in Nodes \ {n} : /\ nx2[x] = IF x = t THEN n ELSE nx[x]
                            /\ pv2[x] = pv[x]

\* A list with a node more at its end is a list in memory again.
LEMMA ChainedAppend ==
  ASSUME NEW s, NEW n, NEW f, NEW t, NEW nx, NEW pv, NEW f2, NEW nx2, NEW pv2,
         AppendStep(s, n, f, t, nx, pv, f2, nx2, pv2)
  PROVE  Chained(Append(s, n), f2, n, nx2, pv2)
<1> SUFFICES ASSUME s \in Seq(Nodes), n \in Nodes, \A i \in 1..Len(s) : s[i] # n, Distinct(s),
                    Chained(s, f, t, nx, pv),
                    f2 = (IF t = NULL THEN n ELSE f),
                    nx2[n] = NULL, pv2[n] = t,
                    \A x \in Nodes \ {n} : /\ nx2[x] = IF x = t THEN n ELSE nx[x]
                                           /\ pv2[x] = pv[x]
             PROVE  Chained(Append(s, n), f2, n, nx2, pv2)
  BY Zenon DEF AppendStep
<1> DEFINE e == Append(s, n)
<1>1. /\ Len(s) \in Nat /\ Len(e) = Len(s) + 1 /\ e[Len(s) + 1] = n
      /\ \A i \in 1..Len(s) : e[i] = s[i] /\ s[i] \in Nodes \ {n}
  BY AppendProperties
<1>2. e # <<>>
  BY <1>1
<1> HIDE DEF e
<1>3. t = NULL <=> s = <<>>
  <2>1. s # <<>> => Len(s) \in 1..Len(s)
    BY <1>1
  <2> QED
    BY <1>1, <2>1 DEF Chained
<1>4. f2 = e[1]
  <2>1. CASE s = <<>>
    BY <1>1, <1>3, <2>1
  <2>2. CASE s # <<>>
    <3>1. 1 \in 1..Len(s)
      BY <1>1, <2>2
    <3> QED
      BY <1>1, <1>3, <2>2, <3>1 DEF Chained
  <2> QED
    BY <2>1, <2>2
<1>5. ASSUME NEW i \in 1..Len(s)
      PROVE  /\ nx2[e[i]] = e[i + 1]
             /\ pv2[e[i]] = IF i = 1 THEN NULL ELSE e[i - 1]
  <2>1. e[i] = s[i] /\ s[i] \in Nodes \ {n} /\ Len(s) \in 1..Len(s)
    BY <1>1
  <2>2. s[i] = t <=> i = Len(s)
    BY <1>1, <2>1 DEF Chained, Distinct
  <2>3. i # 1 => i - 1 \in 1..Len(s) /\ e[i - 1] = s[i - 1]
    BY <1>1
  <2>4. i # Len(s) => i + 1 \in 1..Len(s) /\ e[i + 1] = s[i + 1]
    BY <1>1
  <2>5. nx2[s[i]] = e[i + 1]
    BY <1>1, <2>1, <2>2, <2>4 DEF Chained
  <2>6. pv2[s[i]] = IF i = 1 THEN NULL ELSE e[i - 1]
    BY <2>1, <2>3 DEF Chained
  <2> QED
    BY <2>1, <2>5, <2>6
<1>6. pv2[n] = IF Len(e) = 1 THEN NULL ELSE e[Len(e) - 1]
  <2>1. CASE s = <<>>
    BY <1>1, <1>3, <2>1
  <2>2. CASE s # <<>>
    <3>1. Len(s) \in 1..Len(s) /\ Len(e) - 1 = Len(s) /\ Len(e) # 1
      BY <1>1, <2>2
    <3>2. t = s[Len(s)]
      BY <2>2 DEF Chained
    <3>3. e[Len(e) - 1] = s[Len(s)]
      BY <1>1, <3>1
    <3> QED
      BY <3>1, <3>2, <3>3
  <2> QED
    BY <2>1, <2>2
<1>7. \A i \in 1..Len(e) :
        /\ nx2[e[i]] = IF i = Len(e) THEN NULL ELSE e[i + 1]
        /\ pv2[e[i]] = IF i = 1 THEN NULL ELSE e[i - 1]
  <2>1. \A i \in 1..Len(e) : i = Len(e) \/ (i \in 1..Len(s) /\ i # Len(e))
    BY <1>1
  <2> QED
    BY <1>1, <1>5, <1>6, <2>1
<1> QED
  BY <1>1, <1>2, <1>4, <1>7 DEF Chained, e

\* The j-th node is cut out of the list s.
CutStep(s, j, f, t, nx, pv, f2, t2, nx2, pv2) ==
  /\ s \in Seq(Nodes) /\ j \in 1..Len(s) /\ Distinct(s)
  /\ Chained(s, f, t, nx, pv)
  /\ f2 = IF f = s[j] THEN nx[f] ELSE f
  /\ t2 = IF t = s[j] THEN pv[t] ELSE t
  /\ \A x \in Nodes \ {s[j]} : /\ nx2[x] = IF x = pv[s[j]] THEN nx[s[j]] ELSE nx[x]
                               /\ pv2[x] = IF x = nx[s[j]] THEN pv[s[j]] ELSE pv[x]

\* A list with a node less is a list in memory again.
LEMMA ChainedCut ==
  ASSUME NEW s, NEW j, NEW f, NEW t, NEW nx, NEW pv, NEW f2, NEW t2, NEW nx2, NEW pv2,
         CutStep(s, j, f, t, nx, pv, f2, t2, nx2, pv2)
  PROVE  Chained(Without(s, j), f2, t2, nx2, pv2)
<1> SUFFICES ASSUME s \in Seq(Nodes), j \in 1..Len(s), Distinct(s),
                    Chained(s, f, t, nx, pv),
                    f2 = (IF f = s[j] THEN nx[f] ELSE f),
                    t2 = (IF t = s[j] THEN pv[t] ELSE t),
                    \A x \in Nodes \ {s[j]} :
                      /\ nx2[x] = IF x = pv[s[j]] THEN nx[s[j]] ELSE nx[x]
                      /\ pv2[x] = IF x = nx[s[j]] THEN pv[s[j]] ELSE pv[x]
             PROVE  Chained(Without(s, j), f2, t2, nx2, pv2)
  BY Zenon DEF CutStep
<1> DEFINE e == Without(s, j)
           m == Len(s)
<1>1. /\ m \in Nat \ {0} /\ e \in Seq(Nodes) /\ Len(e) = m - 1
      /\ \A i \in 1..Len(e) : /\ i < j => e[i] = s[i]
                              /\ ~ (i < j) => e[i] = s[i + 1]
  BY WithoutEntries
<1>2. \A i \in 1..m : s[i] \in Nodes
  OBVIOUS
<1>3. \A i, k \in 1..m : s[i] = s[k] <=> i = k
  BY DEF Distinct
<1>4. f = s[1] /\ t = s[m] /\ 1 \in 1..m /\ m \in 1..m
  BY <1>1 DEF Chained
<1>5. \A i \in 1..m : /\ i # m => nx[s[i]] = s[i + 1] /\ i + 1 \in 1..m
                      /\ i = m => nx[s[i]] = NULL
                      /\ i # 1 => pv[s[i]] = s[i - 1] /\ i - 1 \in 1..m
                      /\ i = 1 => pv[s[i]] = NULL
  BY <1>1 DEF Chained
<1> HIDE DEF e, m
<1>6. e = <<>> <=> m = 1
  BY <1>1
<1>7. f2 = IF e = <<>> THEN NULL ELSE e[1]
  <2>1. f = s[j] <=> j = 1
    BY <1>3, <1>4 DEF m
  <2>2. CASE m = 1
    BY <1>4, <1>5, <1>6, <2>1, <2>2 DEF m
  <2>3. CASE m # 1
    <3>1. 1 \in 1..Len(e)
      BY <1>1, <2>3
    <3>2. CASE j = 1
      BY <1>1, <1>4, <1>5, <1>6, <2>1, <2>3, <3>1, <3>2
    <3>3. CASE j # 1
      <4>1. 1 < j
        BY <3>3
      <4> QED
        BY <1>1, <1>4, <1>6, <2>1, <2>3, <3>1, <3>3, <4>1
    <3> QED
      BY <3>2, <3>3
  <2> QED
    BY <2>2, <2>3
<1>8. t2 = IF e = <<>> THEN NULL ELSE e[Len(e)]
  <2>1. t = s[j] <=> j = m
    BY <1>3, <1>4 DEF m
  <2>2. CASE m = 1
    BY <1>4, <1>5, <1>6, <2>1, <2>2 DEF m
  <2>3. CASE m # 1
    <3>1. Len(e) \in 1..Len(e) /\ Len(e) + 1 = m
      BY <1>1, <2>3
    <3>2. CASE j = m
      <4>1. Len(e) < j /\ m - 1 = Len(e)
        BY <1>1, <3>2
      <4> QED
        BY <1>1, <1>4, <1>5, <1>6, <2>1, <2>3, <3>1, <3>2, <4>1
    <3>3. CASE j # m
      <4>1. ~ (Len(e) < j)
        BY <1>1, <3>3 DEF m
      <4> QED
        BY <1>1, <1>4, <1>6, <2>1, <2>3, <3>1, <3>3, <4>1
    <3> QED
      BY <3>2, <3>3
  <2> QED
    BY <2>2, <2>3
<1>9. ASSUME NEW i \in 1..Len(e)
      PROVE  nx2[e[i]] = IF i = Len(e) THEN NULL ELSE e[i + 1]
  <2>1. CASE i < j - 1
    <3>1. i < j /\ i + 1 < j /\ i \in 1..m /\ i + 1 \in 1..Len(e) /\ i # Len(e) /\ i # m
      BY <1>1, <2>1 DEF m
    <3>2. e[i] = s[i] /\ e[i + 1] = s[i + 1]
      BY <1>1, <3>1
    <3>3. s[i] # pv[s[j]] /\ s[i] # s[j]
      BY <1>3, <1>5, <2>1, <3>1 DEF m
    <3> QED
      BY <1>2, <1>5, <3>1, <3>2, <3>3
  <2>2. CASE i = j - 1
    <3>1. i < j /\ i \in 1..m /\ j # 1 /\ i # j
      BY <1>1, <2>2 DEF m
    <3>2. e[i] = s[i] /\ s[i] = pv[s[j]] /\ s[i] # s[j]
      BY <1>1, <1>3, <1>5, <2>2, <3>1 DEF m
    <3>3. nx2[e[i]] = nx[s[j]]
      BY <1>2, <3>1, <3>2
    <3>4. CASE j = m
      BY <1>1, <1>5, <2>2, <3>3, <3>4 DEF m
    <3>5. CASE j # m
      <4>1. i # Len(e) /\ i + 1 \in 1..Len(e) /\ ~ (i + 1 < j) /\ (i + 1) + 1 = j + 1
        BY <1>1, <2>2, <3>5 DEF m
      <4> QED
        BY <1>1, <1>5, <3>3, <3>5, <4>1 DEF m
    <3> QED
      BY <3>4, <3>5
  <2>3. CASE ~ (i < j)
    <3>1. i + 1 \in 1..m /\ i + 1 # j /\ (j # 1 => i + 1 # j - 1)
      BY <1>1, <2>3 DEF m
    <3>2. e[i] = s[i + 1]
      BY <1>1, <2>3
    <3>3. s[i + 1] # s[j] /\ s[i + 1] # pv[s[j]] /\ s[i + 1] \in Nodes
      BY <1>2, <1>3, <1>5, <3>1 DEF m
    <3>4. nx2[e[i]] = nx[s[i + 1]]
      BY <3>2, <3>3
    <3>5. CASE i = Len(e)
      <4>1. i + 1 = m
        BY <1>1, <3>5
      <4> QED
        BY <1>5, <3>1, <3>4, <3>5, <4>1
    <3>6. CASE i # Len(e)
      <4>1. i + 1 # m /\ i + 1 \in 1..Len(e) /\ ~ (i + 1 < j)
        BY <1>1, <2>3, <3>6
      <4> QED
        BY <1>1, <1>5, <3>1, <3>4, <3>6, <4>1
    <3> QED
      BY <3>5, <3>6
  <2> QED
    BY <1>1, <2>1, <2>2, <2>3
<1>10. ASSUME NEW i \in 1..Len(e)
       PROVE  pv2[e[i]] = IF i = 1 THEN NULL ELSE e[i - 1]
  <2>1. CASE i < j
    <3>1. i \in 1..m /\ i # j /\ (j # m => i # j + 1)
      BY <1>1, <2>1 DEF m
    <3>2. e[i] = s[i] /\ s[i] # s[j] /\ s[i] # nx[s[j]] /\ s[i] \in Nodes
      BY <1>1, <1>2, <1>3, <1>5, <2>1, <3>1 DEF m
    <3>3. pv2[e[i]] = pv[s[i]]
      BY <3>2
    <3>4. i # 1 => i - 1 \in 1..Len(e) /\ i - 1 < j
      BY <1>1, <2>1
    <3> QED
      BY <1>1, <1>5, <3>1, <3>3, <3>4
  <2>2. CASE i = j
    <3>1. i + 1 \in 1..m /\ j # m /\ i + 1 # j /\ ~ (i < j)
      BY <1>1, <2>2 DEF m
    <3>2. e[i] = s[i + 1] /\ s[i + 1] = nx[s[j]] /\ s[i + 1] # s[j] /\ s[i + 1] \in Nodes
      BY <1>1, <1>2, <1>3, <1>5, <2>2, <3>1 DEF m
    <3>3. pv2[e[i]] = pv[s[j]]
      BY <3>2
    <3>4. i # 1 => i - 1 \in 1..Len(e) /\ i - 1 < j
      BY <1>1, <2>2
    <3> QED
      BY <1>1, <1>5, <2>2, <3>3, <3>4 DEF m
  <2>3. CASE ~ (i <= j)
    <3>1. /\ i + 1 \in 1..m /\ i + 1 # j /\ ~ (i < j) /\ (j # m => i + 1 # j + 1)
          /\ i # 1 /\ i + 1 # 1 /\ i - 1 \in 1..Len(e) /\ ~ (i - 1 < j)
          /\ (i - 1) + 1 = i /\ (i + 1) - 1 = i
      BY <1>1, <2>3 DEF m
    <3>2. e[i] = s[i + 1] /\ s[i + 1] # s[j] /\ s[i + 1] # nx[s[j]] /\ s[i + 1] \in Nodes
      BY <1>1, <1>2, <1>3, <1>5, <3>1 DEF m
    <3>3. pv2[e[i]] = pv[s[i + 1]]
      BY <3>2
    <3>4. pv[s[i + 1]] = s[i]
      BY <1>5, <3>1
    <3>5. e[i - 1] = s[i]
      BY <1>1, <3>1
    <3> QED
      BY <3>1, <3>3, <3>4, <3>5
  <2> QED
    BY <1>1, <2>1, <2>2, <2>3
<1> QED
  BY <1>7, <1>8, <1>9, <1>10 DEF Chained, e

\* What taking the node n out of list l comes to, wherever n is in l.
Removal(l, n) ==
  /\ head' = [head EXCEPT ![l] = IF @ = n THEN next[n] ELSE @]
  /\ tail' = [tail EXCEPT ![l] = IF @ = n THEN prev[n] ELSE @]
  /\ next' = [x \in Nodes |-> IF x = n THEN Junk ELSE IF x = prev[n] THEN next[n] ELSE next[x]]
  /\ prev' = [x \in Nodes |-> IF x = n THEN Junk ELSE IF x = next[n] THEN prev[n] ELSE prev[x]]
  /\ data' = [data EXCEPT ![n] = Junk]
  /\ count' = [count EXCEPT ![l] = @ - 1]
  /\ UNCHANGED missed

\* What adding the node n at the end of list l comes to.
Addition(l, n, d) ==
  /\ head' = [head EXCEPT ![l] = IF tail[l] = NULL THEN n ELSE @]
  /\ tail' = [tail EXCEPT ![l] = n]
  /\ next' = [x \in Nodes |-> IF x = n THEN NULL ELSE IF x = tail[l] THEN n ELSE next[x]]
  /\ prev' = [x \in Nodes |-> IF x = n THEN tail[l] ELSE prev[x]]
  /\ data' = [data EXCEPT ![n] = d]
  /\ count' = [count EXCEPT ![l] = @ + 1]
  /\ UNCHANGED missed

\* What is known of one list.
LEMMA OneChain ==
  ASSUME NEW c, Chains(c), NEW l \in Lists
  PROVE  /\ c[l] \in Seq(Nodes) /\ Len(c[l]) \in Nat /\ Distinct(c[l])
         /\ Chained(c[l], head[l], tail[l], next, prev)
         /\ \A i \in 1..Len(c[l]) : c[l][i] \in Nodes /\ data[c[l][i]] # Junk
<1>1. c[l] \in Seq(Nodes) /\ Chained(c[l], head[l], tail[l], next, prev)
  BY DEF Chains
<1>2. Len(c[l]) \in Nat /\ \A i \in 1..Len(c[l]) : c[l][i] \in Nodes
  BY <1>1
<1>3. Distinct(c[l]) /\ \A i \in 1..Len(c[l]) : data[c[l][i]] # Junk
  BY <1>2 DEF Chains, Places, Distinct
<1> QED
  BY <1>1, <1>2, <1>3

\* One list grows by a node that was free, the others are left alone.
LEMMA AddtailChains ==
  ASSUME NEW c, ListTypes, Chains(c), NEW l \in Lists, NEW d \in Data, NEW n \in Free,
         Addition(l, n, d)
  PROVE  ListTypes' /\ Chains([c EXCEPT ![l] = Append(@, n)])'
<1> DEFINE s == c[l]
           e == [c EXCEPT ![l] = Append(@, n)]
<1>1. n \in Nodes /\ data[n] = Junk
  BY DEF Free
<1>2. ListTypes'
  BY <1>1 DEF ListTypes, Addition
<1>3. \A m \in Lists : \A i \in 1..Len(c[m]) : c[m][i] # n /\ c[m][i] \in Nodes
  BY <1>1, OneChain
<1>4. /\ s \in Seq(Nodes) /\ Len(s) \in Nat /\ Distinct(s)
      /\ Chained(s, head[l], tail[l], next, prev)
  BY OneChain
<1>5. /\ e \in [Lists -> Seq(Nodes)] /\ e[l] = Append(s, n)
      /\ \A m \in Lists \ {l} : e[m] = c[m]
  <2>1. Append(s, n) \in Seq(Nodes) /\ c \in [Lists -> Seq(Nodes)]
    BY <1>1, <1>4 DEF Chains
  <2> QED
    BY <2>1
<1>6. /\ Len(e[l]) = Len(s) + 1 /\ e[l][Len(s) + 1] = n
      /\ \A i \in 1..Len(s) : e[l][i] = s[i]
  BY <1>1, <1>4, <1>5, AppendProperties
<1>7. tail[l] # NULL => tail[l] = s[Len(s)] /\ Len(s) \in 1..Len(s)
  BY <1>4 DEF Chained
<1> HIDE DEF e
<1>8. ASSUME NEW m \in Lists
      PROVE  Chained(e[m], head'[m], tail'[m], next', prev')
  <2>1. CASE m = l
    <3>1. /\ next'[n] = NULL /\ prev'[n] = tail[l]
          /\ \A x \in Nodes \ {n} : /\ next'[x] = IF x = tail[l] THEN n ELSE next[x]
                                    /\ prev'[x] = prev[x]
      <4>1. tail[l] # n
        BY <1>1, <1>3, <1>7
      <4> QED
        BY <1>1, <4>1 DEF ListTypes, Addition
    <3>2. head'[l] = (IF tail[l] = NULL THEN n ELSE head[l]) /\ tail'[l] = n
      BY DEF ListTypes, Addition
    <3>3. Chained(Append(s, n), head'[l], n, next', prev')
      <4> HIDE DEF s
      <4>1. \A i \in 1..Len(s) : s[i] # n
        BY <1>3 DEF s
      <4>2. AppendStep(s, n, head[l], tail[l], next, prev, head'[l], next', prev')
        BY <1>1, <1>4, <3>1, <3>2, <4>1 DEF AppendStep
      <4> QED
        BY <4>2, ChainedAppend
    <3> QED
      BY <1>5, <2>1, <3>2, <3>3
  <2>2. CASE m # l
    <3>1. e[m] = c[m] /\ head'[m] = head[m] /\ tail'[m] = tail[m]
      BY <1>5, <2>2 DEF ListTypes, Addition
    <3>2. Chained(c[m], head[m], tail[m], next, prev)
      BY OneChain
    <3>3. ASSUME NEW i \in 1..Len(c[m])
          PROVE  next'[c[m][i]] = next[c[m][i]] /\ prev'[c[m][i]] = prev[c[m][i]]
      <4>1. c[m][i] # n /\ c[m][i] \in Nodes
        BY <1>3
      <4>2. tail[l] # NULL => c[m][i] # tail[l]
        BY <1>7, <2>2 DEF Chains, Places
      <4> QED
        BY <1>1, <4>1, <4>2 DEF ListTypes, Addition
    <3>4. Chained(c[m], head[m], tail[m], next', prev')
      BY <3>2, <3>3, Zenon DEF Chained
    <3> QED
      BY <3>1, <3>4
  <2> QED
    BY <2>1, <2>2
<1>9. ASSUME NEW m \in Lists
      PROVE  count'[m] = Len(e[m]) + missed'[m]
  <2>1. count[m] = Len(c[m]) + missed[m] /\ missed[m] \in Nat /\ Len(c[m]) \in Nat
    BY OneChain DEF Chains, ListTypes
  <2>2. count'[m] = (IF m = l THEN count[m] + 1 ELSE count[m]) /\ missed'[m] = missed[m]
    BY DEF ListTypes, Addition
  <2>3. Len(e[m]) = IF m = l THEN Len(c[m]) + 1 ELSE Len(c[m])
    BY <1>5, <1>6
  <2> QED
    BY <2>1, <2>2, <2>3
<1>10. ASSUME NEW m \in Lists, NEW i \in 1..Len(e[m])
       PROVE  \/ m = l /\ i = Len(s) + 1 /\ e[m][i] = n
              \/ i \in 1..Len(c[m]) /\ e[m][i] = c[m][i] /\ (m = l => i # Len(s) + 1)
  <2>1. CASE m = l
    <3>0. Len(e[m]) = Len(s) + 1
      BY <1>6, <2>1
    <3>1. i \in 1..Len(s) + 1
      BY <3>0
    <3>2. i = Len(s) + 1 \/ i \in 1..Len(s)
      BY <1>4, <3>1
    <3> QED
      BY <1>4, <1>6, <2>1, <3>2
  <2>2. CASE m # l
    BY <1>5, <2>2
  <2> QED
    BY <2>1, <2>2
<1> HIDE DEF s
<1>11. ASSUME NEW m \in Lists, NEW k \in Lists, NEW i \in 1..Len(e[m]), NEW j \in 1..Len(e[k]),
              e[m][i] = e[k][j]
       PROVE  m = k /\ i = j
  <2>1. CASE e[m][i] = n
    <3>1. m = l /\ i = Len(s) + 1
      BY <1>3, <1>10, <2>1
    <3>2. k = l /\ j = Len(s) + 1
      <4>1. e[k][j] = n
        BY <1>11, <2>1
      <4> QED
        BY <1>3, <1>10, <4>1
    <3> QED
      BY <3>1, <3>2
  <2>2. CASE e[m][i] # n
    <3>1. i \in 1..Len(c[m]) /\ j \in 1..Len(c[k]) /\ c[m][i] = c[k][j]
      BY <1>10, <1>11, <2>2
    <3> QED
      BY <3>1 DEF Chains, Places
  <2> QED
    BY <2>1, <2>2
<1>12. ASSUME NEW x \in Nodes
       PROVE  data'[x] # Junk <=> \E m \in Lists : \E i \in 1..Len(e[m]) : e[m][i] = x
  <2>1. CASE x = n
    <3>1. data'[x] # Junk
      BY <2>1, <1>1 DEF ListTypes, Addition
    <3>2. Len(s) + 1 \in 1..Len(e[l]) /\ e[l][Len(s) + 1] = x
      BY <1>4, <1>6, <2>1
    <3> QED
      BY <3>1, <3>2
  <2>2. CASE x # n
    <3>1. data'[x] = data[x]
      BY <2>2 DEF ListTypes, Addition
    <3>2. data[x] # Junk <=> \E m \in Lists : \E i \in 1..Len(c[m]) : c[m][i] = x
      BY DEF Chains, Places
    <3>3. ASSUME NEW m \in Lists, NEW i \in 1..Len(c[m]), c[m][i] = x
          PROVE  \E k \in Lists : \E j \in 1..Len(e[k]) : e[k][j] = x
      <4>1. CASE m = l
        BY <1>4, <1>6, <3>3, <4>1 DEF s
      <4>2. CASE m # l
        BY <1>5, <3>3, <4>2
      <4> QED
        BY <4>1, <4>2
    <3>4. ASSUME NEW m \in Lists, NEW i \in 1..Len(e[m]), e[m][i] = x
          PROVE  \E k \in Lists : \E j \in 1..Len(c[k]) : c[k][j] = x
      BY <1>10, <2>2, <3>4
    <3> QED
      BY <3>1, <3>2, <3>3, <3>4
  <2> QED
    BY <2>1, <2>2
<1>13. Chains(e)'
  BY <1>5, <1>8, <1>9, <1>11, <1>12 DEF Chains, Places
<1> QED
  BY <1>2, <1>13 DEF e

\* One list loses a node, which is free again; the others are left alone.
LEMMA RemovalChains ==
  ASSUME NEW c, ListTypes, Chains(c), NEW l \in Lists, NEW j \in 1..Len(c[l]),
         Removal(l, c[l][j])
  PROVE  ListTypes' /\ Chains([c EXCEPT ![l] = Without(@, j)])'
<1> DEFINE s == c[l]
           n == s[j]
           e == [c EXCEPT ![l] = Without(@, j)]
<1>1. /\ s \in Seq(Nodes) /\ Len(s) \in Nat /\ Distinct(s) /\ j \in 1..Len(s)
      /\ Chained(s, head[l], tail[l], next, prev)
      /\ n \in Nodes /\ data[n] # Junk
  BY OneChain
<1>2. /\ Without(s, j) \in Seq(Nodes) /\ Len(Without(s, j)) = Len(s) - 1
      /\ \A i \in 1..Len(s) - 1 : /\ i < j => Without(s, j)[i] = s[i]
                                  /\ ~ (i < j) => Without(s, j)[i] = s[i + 1]
  BY <1>1, WithoutEntries
<1>3. /\ e \in [Lists -> Seq(Nodes)] /\ e[l] = Without(s, j)
      /\ \A m \in Lists \ {l} : e[m] = c[m]
  BY <1>2 DEF Chains
<1>4. count[l] = Len(s) + missed[l] /\ count[l] - 1 \in Nat
  <2>1. count[l] = Len(s) + missed[l] /\ missed[l] \in Nat
    BY DEF Chains, ListTypes
  <2> QED
    BY <1>1, <2>1
<1>5. Removal(l, n)
  OBVIOUS
<1>6. /\ next[n] \in Nodes \cup {NULL} /\ prev[n] \in Nodes \cup {NULL}
  <2>1. \A i \in 1..Len(s) : s[i] \in Nodes
    BY <1>1
  <2>2. j # Len(s) => j + 1 \in 1..Len(s)
    BY <1>1
  <2>3. j # 1 => j - 1 \in 1..Len(s)
    BY <1>1
  <2> HIDE DEF s
  <2> QED
    BY <1>1, <2>1, <2>2, <2>3 DEF Chained
<1> HIDE DEF e, n, s
<1>7. ListTypes'
  BY <1>1, <1>4, <1>5, <1>6 DEF ListTypes, Removal
<1>8. ASSUME NEW m \in Lists
      PROVE  Chained(e[m], head'[m], tail'[m], next', prev')
  <2>1. CASE m = l
    <3>1. \A x \in Nodes \ {n} : /\ next'[x] = IF x = prev[n] THEN next[n] ELSE next[x]
                                 /\ prev'[x] = IF x = next[n] THEN prev[n] ELSE prev[x]
      BY <1>5 DEF Removal
    <3>2. /\ head'[l] = IF head[l] = n THEN next[head[l]] ELSE head[l]
          /\ tail'[l] = IF tail[l] = n THEN prev[tail[l]] ELSE tail[l]
      BY <1>5 DEF Removal, ListTypes
    <3>3. Chained(Without(s, j), head'[l], tail'[l], next', prev')
      <4>1. CutStep(s, j, head[l], tail[l], next, prev, head'[l], tail'[l], next', prev')
        BY <1>1, <3>1, <3>2 DEF CutStep, n
      <4> QED
        BY <4>1, ChainedCut
    <3> QED
      BY <1>3, <2>1, <3>2, <3>3
  <2>2. CASE m # l
    <3>1. e[m] = c[m] /\ head'[m] = head[m] /\ tail'[m] = tail[m]
      BY <1>3, <1>5, <2>2 DEF ListTypes, Removal
    <3>2. Chained(c[m], head[m], tail[m], next, prev)
      BY OneChain
    <3>3. ASSUME NEW i \in 1..Len(c[m])
          PROVE  next'[c[m][i]] = next[c[m][i]] /\ prev'[c[m][i]] = prev[c[m][i]]
      <4>1. c[m][i] \in Nodes /\ \A k \in 1..Len(s) : c[m][i] # s[k]
        BY <2>2, OneChain DEF Chains, Places, s
      <4>2. c[m][i] # n /\ c[m][i] # prev[n] /\ c[m][i] # next[n]
        <5>1. next[n] = NULL \/ \E k \in 1..Len(s) : next[n] = s[k]
          <6>1. j # Len(s) => j + 1 \in 1..Len(s)
            BY <1>1
          <6> QED
            BY <1>1, <6>1 DEF Chained, n
        <5>2. prev[n] = NULL \/ \E k \in 1..Len(s) : prev[n] = s[k]
          <6>1. j # 1 => j - 1 \in 1..Len(s)
            BY <1>1
          <6> QED
            BY <1>1, <6>1 DEF Chained, n
        <5> QED
          BY <1>1, <4>1, <5>1, <5>2 DEF n
      <4> QED
        BY <1>5, <4>1, <4>2 DEF Removal
    <3>4. Chained(c[m], head[m], tail[m], next', prev')
      BY <3>2, <3>3, Zenon DEF Chained
    <3> QED
      BY <3>1, <3>4
  <2> QED
    BY <2>1, <2>2
<1>9. ASSUME NEW m \in Lists
      PROVE  count'[m] = Len(e[m]) + missed'[m]
  <2>1. count[m] = Len(c[m]) + missed[m] /\ missed[m] \in Nat /\ Len(c[m]) \in Nat
    BY OneChain DEF Chains, ListTypes
  <2>2. count'[m] = (IF m = l THEN count[m] - 1 ELSE count[m]) /\ missed'[m] = missed[m]
    BY <1>5 DEF ListTypes, Removal
  <2>3. Len(e[m]) = IF m = l THEN Len(c[m]) - 1 ELSE Len(c[m])
    BY <1>2, <1>3 DEF s
  <2> QED
    BY <2>1, <2>2, <2>3
<1>10. \A m \in Lists : \A i \in 1..Len(e[m]) :
         /\ m # l => i \in 1..Len(c[m]) /\ e[m][i] = c[m][i]
         /\ m = l /\ i < j => i \in 1..Len(s) /\ e[m][i] = s[i] /\ i # j
         /\ m = l /\ ~ (i < j) => i + 1 \in 1..Len(s) /\ e[m][i] = s[i + 1] /\ i + 1 # j
  <2> TAKE m \in Lists
  <2>1. CASE m # l
    BY <1>3, <2>1
  <2>2. CASE m = l
    <3> TAKE i \in 1..Len(e[m])
    <3>1. i \in 1..Len(s) - 1 /\ i \in 1..Len(s) /\ i + 1 \in 1..Len(s)
      BY <1>1, <1>2, <1>3, <2>2
    <3>2. (i < j => i # j) /\ (~ (i < j) => i + 1 # j)
      BY <1>1, <3>1
    <3> QED
      BY <1>2, <1>3, <2>2, <3>1, <3>2
  <2> QED
    BY <2>1, <2>2
<1>11. ASSUME NEW m \in Lists, NEW k \in Lists, NEW a \in 1..Len(e[m]), NEW b \in 1..Len(e[k]),
              e[m][a] = e[k][b]
       PROVE  m = k /\ a = b
  <2>1. m = k
    <3>1. \A o \in Lists : \A i \in 1..Len(e[o]) : \E y \in 1..Len(c[o]) : e[o][i] = c[o][y]
      <4> TAKE o \in Lists
      <4>1. CASE o = l
        BY <1>10, <4>1 DEF s
      <4>2. CASE o # l
        BY <1>10, <4>2
      <4> QED
        BY <4>1, <4>2
    <3>2. PICK y \in 1..Len(c[m]) : e[m][a] = c[m][y]
      BY <3>1
    <3>3. PICK z \in 1..Len(c[k]) : e[k][b] = c[k][z]
      BY <3>1
    <3>4. c[m][y] = c[k][z]
      BY <1>11, <3>2, <3>3
    <3>5. \A o, q \in Lists : \A i \in 1..Len(c[o]), h \in 1..Len(c[q]) :
            c[o][i] = c[q][h] => o = q
      BY DEF Chains, Places
    <3> QED
      BY <3>4, <3>5
  <2>2. CASE m # l
    BY <1>10, <1>11, <2>1, <2>2 DEF Chains, Places
  <2>3. CASE m = l
    <3> DEFINE at(i) == IF i < j THEN i ELSE i + 1
    <3>1. at(a) \in 1..Len(s) /\ e[m][a] = s[at(a)]
      BY <1>10, <2>3
    <3>2. at(b) \in 1..Len(s) /\ e[m][b] = s[at(b)]
      BY <1>10, <2>1, <2>3
    <3>3. at(a) = at(b)
      <4> HIDE DEF at
      <4> QED
        BY <1>1, <1>11, <2>1, <3>1, <3>2 DEF Distinct
    <3>4. a \in Nat /\ b \in Nat /\ j \in Nat
      BY <1>1
    <3> QED
      BY <2>1, <3>3, <3>4
  <2> QED
    BY <2>2, <2>3
<1>12. ASSUME NEW x \in Nodes
       PROVE  data'[x] # Junk <=> \E m \in Lists : \E i \in 1..Len(e[m]) : e[m][i] = x
  <2>1. CASE x = n
    <3>1. data'[x] = Junk
      BY <2>1, <1>5 DEF ListTypes, Removal
    <3>2. ASSUME NEW m \in Lists, NEW i \in 1..Len(e[m]), e[m][i] = n
          PROVE  FALSE
      <4>1. CASE m = l
        BY <1>1, <1>10, <3>2, <4>1 DEF Distinct, n
      <4>2. CASE m # l
        BY <1>1, <1>10, <3>2, <4>2 DEF Chains, Places, n, s
      <4> QED
        BY <4>1, <4>2
    <3> QED
      BY <2>1, <3>1, <3>2
  <2>2. CASE x # n
    <3>1. data'[x] = data[x]
      BY <2>2, <1>5 DEF ListTypes, Removal
    <3>2. data[x] # Junk <=> \E m \in Lists : \E i \in 1..Len(c[m]) : c[m][i] = x
      BY DEF Chains, Places
    <3>3. ASSUME NEW m \in Lists, NEW i \in 1..Len(c[m]), c[m][i] = x
          PROVE  \E k \in Lists : \E b \in 1..Len(e[k]) : e[k][b] = x
      <4>1. CASE m # l
        BY <1>3, <3>3, <4>1
      <4>2. CASE m = l /\ i < j
        <5>1. i \in 1..Len(s) - 1 /\ e[l][i] = s[i]
          BY <1>1, <1>2, <1>3, <4>2
        <5> QED
          BY <1>2, <1>3, <3>3, <4>2, <5>1 DEF s
      <4>3. CASE m = l /\ ~ (i < j)
        <5>1. i # j /\ i \in 1..Len(s)
          BY <2>2, <3>3, <4>3 DEF n, s
        <5>2. i - 1 \in 1..Len(s) - 1 /\ ~ (i - 1 < j) /\ (i - 1) + 1 = i
          BY <1>1, <4>3, <5>1
        <5>3. e[l][i - 1] = s[i]
          BY <1>2, <1>3, <5>2
        <5> QED
          BY <1>2, <1>3, <3>3, <4>3, <5>2, <5>3 DEF s
      <4> QED
        BY <4>1, <4>2, <4>3
    <3>4. ASSUME NEW m \in Lists, NEW i \in 1..Len(e[m]), e[m][i] = x
          PROVE  \E k \in Lists : \E b \in 1..Len(c[k]) : c[k][b] = x
      BY <1>10, <3>4 DEF s
    <3> QED
      BY <3>1, <3>2, <3>3, <3>4
  <2> QED
    BY <2>1, <2>2
<1>13. Chains(e)'
  BY <1>3, <1>8, <1>9, <1>11, <1>12 DEF Chains, Places
<1> QED
  BY <1>7, <1>13 DEF e, s

\* DataList_Addtail, on an empty list and on another.
LEMMA AddtailAdds ==
  ASSUME NEW c, ListTypes, Chains(c), NEW l \in Lists, NEW d \in Data, DataList_Addtail(l, d)
  PROVE  \E n \in Free : Addition(l, n, d)
<1>1. PICK n \in Free :
        /\ data' = [data EXCEPT ![n] = d]
        /\ tail' = [tail EXCEPT ![l] = n]
        /\ count' = [count EXCEPT ![l] = @ + 1]
        /\ prev' = [prev EXCEPT ![n] = tail[l]]
        /\ IF tail[l] # NULL
           THEN next' = [next EXCEPT ![n] = NULL, ![tail[l]] = n] /\ UNCHANGED head
           ELSE next' = [next EXCEPT ![n] = NULL] /\ head' = [head EXCEPT ![l] = n]
        /\ UNCHANGED missed
  BY DEF DataList_Addtail
<1>2. n \in Nodes /\ data[n] = Junk
  BY DEF Free
<1>3. tail[l] # n
  <2>1. tail[l] # NULL => \E i \in 1..Len(c[l]) : tail[l] = c[l][i]
    BY OneChain DEF Chained
  <2> QED
    BY <1>2, <2>1, OneChain
<1>4. next' = [x \in Nodes |-> IF x = n THEN NULL ELSE IF x = tail[l] THEN n ELSE next[x]]
  BY <1>1, <1>2, <1>3 DEF ListTypes
<1>5. prev' = [x \in Nodes |-> IF x = n THEN tail[l] ELSE prev[x]]
  BY <1>1, <1>2 DEF ListTypes
<1>6. head' = [head EXCEPT ![l] = IF tail[l] = NULL THEN n ELSE @]
  BY <1>1 DEF ListTypes
<1> QED
  BY <1>1, <1>4, <1>5, <1>6 DEF Addition

\* Where the links of the j-th node of list l lead.
Near(s, l, j) ==
  /\ s[j] \in Nodes /\ Len(s) \in Nat \ {0} /\ j \in 1..Len(s)
  /\ head[l] = s[1] /\ tail[l] = s[Len(s)] /\ 1 \in 1..Len(s) /\ Len(s) \in 1..Len(s)
  /\ j = 1 => prev[s[j]] = NULL
  /\ j # 1 => j - 1 \in 1..Len(s) /\ prev[s[j]] = s[j - 1] /\ s[j - 1] \in Nodes
  /\ j = Len(s) => next[s[j]] = NULL
  /\ j # Len(s) => j + 1 \in 1..Len(s) /\ next[s[j]] = s[j + 1] /\ s[j + 1] \in Nodes
  /\ \A i \in 1..Len(s) : s[i] = s[j] => i = j

\* Each node of a list in memory has its neighbours near.
LEMMA Neighbours ==
  ASSUME NEW c, Chains(c), NEW l \in Lists, NEW j \in 1..Len(c[l])
  PROVE  Near(c[l], l, j)
<1> DEFINE s == c[l]
<1>1. /\ s \in Seq(Nodes) /\ Len(s) \in Nat /\ Distinct(s) /\ j \in 1..Len(s)
      /\ Chained(s, head[l], tail[l], next, prev)
      /\ \A i \in 1..Len(s) : s[i] \in Nodes
  BY OneChain
<1> HIDE DEF s
<1>2. s # <<>> /\ Len(s) \in Nat \ {0} /\ 1 \in 1..Len(s) /\ Len(s) \in 1..Len(s)
  BY <1>1
<1>3. j # 1 => j - 1 \in 1..Len(s)
  BY <1>1
<1>4. j # Len(s) => j + 1 \in 1..Len(s)
  BY <1>1
<1>5. head[l] = s[1] /\ tail[l] = s[Len(s)]
  BY <1>1, <1>2 DEF Chained
<1>6. /\ next[s[j]] = IF j = Len(s) THEN NULL ELSE s[j + 1]
      /\ prev[s[j]] = IF j = 1 THEN NULL ELSE s[j - 1]
  BY <1>1 DEF Chained
<1>7. \A i \in 1..Len(s) : s[i] = s[j] => i = j
  BY <1>1 DEF Distinct
<1> QED
  BY <1>1, <1>2, <1>3, <1>4, <1>5, <1>6, <1>7 DEF s, Near

\* DataList_Removehead, on lists of one, of two and of more nodes.
LEMMA RemovesHead ==
  ASSUME NEW c, ListTypes, Chains(c), NEW l \in Lists, c[l] # <<>>, DataList_Removehead(l)
  PROVE  1 \in 1..Len(c[l]) /\ Removal(l, c[l][1])
<1> DEFINE s == c[l]
           n == s[1]
           h == next[n]
<1>1. 1 \in 1..Len(s) /\ Len(s) \in Nat \ {0}
  <2>1. s \in Seq(Nodes) /\ s # <<>>
    BY DEF Chains
  <2> QED
    BY <2>1
<1>a. /\ Near(s, l, 1)
      /\ 2 \in 1..Len(s) => Near(s, l, 2)
      /\ 3 \in 1..Len(s) => Near(s, l, 3)
  BY <1>1, Neighbours
<1> HIDE DEF s
<1>2. /\ n \in Nodes /\ head[l] = n /\ prev[n] = NULL
      /\ Len(s) = 1 => h = NULL /\ tail[l] = n
      /\ Len(s) # 1 => h = s[2] /\ h \in Nodes /\ h # n /\ 2 \in 1..Len(s)
      /\ tail[l] = s[Len(s)]
      /\ Len(s) # 1 => tail[l] # n
  BY <1>1, <1>a DEF Near
<1>3. Len(s) # 1 => /\ prev[h] = n
                    /\ Len(s) = 2 => next[h] = NULL /\ tail[l] = h
                    /\ Len(s) # 2 => /\ next[h] = s[3] /\ next[h] \in Nodes
                                     /\ next[h] # h /\ next[h] # n
                                     /\ 3 \in 1..Len(s) /\ prev[next[h]] = h
  <2>1. ASSUME Len(s) # 1
        PROVE  /\ prev[h] = n
               /\ Len(s) = 2 => next[h] = NULL
               /\ Len(s) # 2 => /\ next[h] = s[3] /\ next[h] \in Nodes /\ next[h] # h
                                /\ 3 \in 1..Len(s)
    BY <1>1, <1>2, <1>a, <2>1 DEF Near
  <2>2. ASSUME Len(s) # 1, Len(s) # 2
        PROVE  prev[s[3]] = s[2] /\ s[3] # n
    <3>1. 3 \in 1..Len(s)
      BY <2>1, <2>2
    <3>2. Near(s, l, 3)
      BY <1>a, <3>1
    <3>3. prev[s[3]] = s[2]
      BY <3>2 DEF Near
    <3>4. s[1] # s[3]
      BY <3>1, <3>2 DEF Near
    <3> QED
      BY <3>1, <3>3, <3>4
  <2> QED
    BY <1>2, <2>1, <2>2
<1>4. head' = [head EXCEPT ![l] = h]
  BY <1>2 DEF DataList_Removehead
<1> HIDE DEF n
<1>5. CASE Len(s) = 1
  <2>1. FreeNode(l, n, next, prev) /\ tail' = [tail EXCEPT ![l] = NULL]
    <3>1. head[l] = n /\ head[l] # NULL /\ next[head[l]] = NULL
      BY <1>2, <1>5
    <3> QED
      BY <3>1, Zenon DEF DataList_Removehead
  <2>2. h = NULL /\ prev' = [prev EXCEPT ![n] = Junk]
    BY <1>2, <1>5, <2>1 DEF FreeNode
  <2>3. prev' = [x \in Nodes |-> IF x = n THEN Junk ELSE IF x = h THEN prev[n] ELSE prev[x]]
    <3> HIDE DEF h
    <3> QED
      BY <2>2 DEF ListTypes
  <2>4. next' = [x \in Nodes |-> IF x = n THEN Junk ELSE IF x = prev[n] THEN h ELSE next[x]]
    BY <1>2, <1>5, <2>1 DEF ListTypes, FreeNode
  <2>5. head' = [head EXCEPT ![l] = IF @ = n THEN next[n] ELSE @]
    BY <1>2, <1>4 DEF ListTypes
  <2>6. tail' = [tail EXCEPT ![l] = IF @ = n THEN prev[n] ELSE @]
    BY <1>2, <1>5, <2>1 DEF ListTypes
  <2> QED
    BY <1>1, <2>1, <2>3, <2>4, <2>5, <2>6 DEF FreeNode, Removal, s, n
<1>6. CASE Len(s) = 2
  <2>1. FreeNode(l, n, next, [prev EXCEPT ![h] = NULL]) /\ tail' = [tail EXCEPT ![l] = h]
    BY <1>2, <1>3, <1>6 DEF DataList_Removehead
  <2>2. tail' = tail
    BY <1>3, <1>6, <2>1 DEF ListTypes
  <2>3. prev' = [x \in Nodes |-> IF x = n THEN Junk ELSE IF x = h THEN prev[n] ELSE prev[x]]
    BY <1>2, <1>6, <2>1 DEF ListTypes, FreeNode
  <2>4. next' = [x \in Nodes |-> IF x = n THEN Junk ELSE IF x = prev[n] THEN h ELSE next[x]]
    BY <1>2, <1>6, <2>1 DEF ListTypes, FreeNode
  <2>5. head' = [head EXCEPT ![l] = IF @ = n THEN next[n] ELSE @]
    BY <1>2, <1>4 DEF ListTypes
  <2>6. tail' = [tail EXCEPT ![l] = IF @ = n THEN prev[n] ELSE @]
    BY <1>2, <1>6, <2>2 DEF ListTypes
  <2> QED
    BY <1>1, <2>1, <2>3, <2>4, <2>5, <2>6 DEF FreeNode, Removal, s, n
<1>7. CASE Len(s) # 1 /\ Len(s) # 2
  <2>1. FreeNode(l, n, next, [prev EXCEPT ![h] = NULL, ![next[h]] = h]) /\ tail' = tail
    BY <1>2, <1>3, <1>7 DEF DataList_Removehead
  <2>3. prev' = [x \in Nodes |-> IF x = n THEN Junk ELSE IF x = h THEN prev[n] ELSE prev[x]]
    BY <1>2, <1>3, <1>7, <2>1 DEF ListTypes, FreeNode
  <2>4. next' = [x \in Nodes |-> IF x = n THEN Junk ELSE IF x = prev[n] THEN h ELSE next[x]]
    BY <1>2, <1>7, <2>1 DEF ListTypes, FreeNode
  <2>5. head' = [head EXCEPT ![l] = IF @ = n THEN next[n] ELSE @]
    BY <1>2, <1>4 DEF ListTypes
  <2>6. tail' = [tail EXCEPT ![l] = IF @ = n THEN prev[n] ELSE @]
    BY <1>2, <1>7, <2>1 DEF ListTypes
  <2> QED
    BY <1>1, <2>1, <2>3, <2>4, <2>5, <2>6 DEF FreeNode, Removal, s, n
<1> QED
  BY <1>5, <1>6, <1>7

\* DataList_Removetail, on lists of one, of two and of more nodes.
LEMMA RemovesTail ==
  ASSUME NEW c, ListTypes, Chains(c), NEW l \in Lists, c[l] # <<>>, DataList_Removetail(l)
  PROVE  Len(c[l]) \in 1..Len(c[l]) /\ Removal(l, c[l][Len(c[l])])
<1> DEFINE s == c[l]
           m == Len(s)
           n == s[m]
           t == prev[n]
<1>1. m \in 1..m /\ 1 \in 1..m /\ m \in Nat \ {0}
  <2>1. s \in Seq(Nodes) /\ s # <<>>
    BY DEF Chains
  <2> QED
    BY <2>1
<1>a. /\ Near(s, l, m)
      /\ m - 1 \in 1..m => Near(s, l, m - 1)
      /\ m - 2 \in 1..m => Near(s, l, m - 2)
  BY <1>1, Neighbours
<1> HIDE DEF s, m
<1>2. /\ n \in Nodes /\ tail[l] = n /\ next[n] = NULL
      /\ m = 1 => t = NULL /\ head[l] = n
      /\ m # 1 => t = s[m - 1] /\ t \in Nodes /\ t # n /\ m - 1 \in 1..m
      /\ head[l] = s[1]
      /\ m # 1 => head[l] # n
  BY <1>1, <1>a DEF Near, m
<1>3. m # 1 => /\ next[t] = n
               /\ m = 2 => prev[t] = NULL /\ head[l] = t
               /\ m # 2 => /\ prev[t] = s[m - 2] /\ prev[t] \in Nodes
                           /\ prev[t] # t /\ prev[t] # n
                           /\ m - 2 \in 1..m /\ next[prev[t]] = t
  <2>1. ASSUME m # 1
        PROVE  /\ next[t] = n
               /\ m = 2 => prev[t] = NULL
               /\ m # 2 => prev[t] = s[m - 2] /\ prev[t] \in Nodes /\ prev[t] # t /\ m - 2 \in 1..m
    <3>1. /\ m - 1 \in 1..m /\ (m - 1) + 1 = m /\ (m - 1) - 1 = m - 2 /\ m - 1 # m
          /\ m = 2 <=> m - 1 = 1
          /\ m # 2 => m - 2 # m - 1
      BY <1>1, <2>1
    <3>2. Near(s, l, m - 1)
      BY <1>a, <3>1
    <3>3. next[s[m - 1]] = s[m]
      BY <3>1, <3>2 DEF Near, m
    <3>4. m = 2 => prev[s[m - 1]] = NULL
      BY <3>1, <3>2 DEF Near, m
    <3>5. m # 2 => prev[s[m - 1]] = s[m - 2] /\ s[m - 2] \in Nodes /\ m - 2 \in 1..m
      BY <3>1, <3>2 DEF Near, m
    <3>6. m # 2 => s[m - 2] # s[m - 1]
      BY <3>1, <3>2, <3>5 DEF Near, m
    <3> QED
      BY <1>2, <2>1, <3>3, <3>4, <3>5, <3>6
  <2>2. ASSUME m # 1, m # 2
        PROVE  next[s[m - 2]] = s[m - 1] /\ s[m - 2] # n
    <3>1. m - 2 \in 1..m /\ (m - 2) + 1 = m - 1 /\ m - 2 # m
      BY <1>1, <2>2
    <3>2. Near(s, l, m - 2)
      BY <1>a, <3>1
    <3>3. next[s[m - 2]] = s[m - 1]
      BY <3>1, <3>2 DEF Near, m
    <3>4. s[m] # s[m - 2]
      BY <1>1, <3>1, <3>2 DEF Near, m
    <3> QED
      BY <3>3, <3>4
  <2> QED
    BY <1>2, <2>1, <2>2
<1>4. tail' = [tail EXCEPT ![l] = t]
  BY <1>2 DEF DataList_Removetail
<1> HIDE DEF n
<1>5. CASE m = 1
  <2>1. FreeNode(l, n, next, prev) /\ head' = [head EXCEPT ![l] = NULL]
    <3>1. tail[l] = n /\ tail[l] # NULL /\ prev[tail[l]] = NULL
      BY <1>2, <1>5
    <3> QED
      BY <3>1, Zenon DEF DataList_Removetail
  <2>2. t = NULL /\ next' = [next EXCEPT ![n] = Junk]
    BY <1>2, <1>5, <2>1 DEF FreeNode
  <2>3. next' = [x \in Nodes |-> IF x = n THEN Junk ELSE IF x = t THEN next[n] ELSE next[x]]
    <3> HIDE DEF t
    <3> QED
      BY <2>2 DEF ListTypes
  <2>4. prev' = [x \in Nodes |-> IF x = n THEN Junk ELSE IF x = next[n] THEN t ELSE prev[x]]
    BY <1>2, <1>5, <2>1 DEF ListTypes, FreeNode
  <2>5. tail' = [tail EXCEPT ![l] = IF @ = n THEN prev[n] ELSE @]
    BY <1>2, <1>4 DEF ListTypes
  <2>6. head' = [head EXCEPT ![l] = IF @ = n THEN next[n] ELSE @]
    BY <1>2, <1>5, <2>1 DEF ListTypes
  <2> QED
    BY <1>1, <2>1, <2>3, <2>4, <2>5, <2>6 DEF FreeNode, Removal, s, n, m
<1>6. CASE m = 2
  <2>1. FreeNode(l, n, [next EXCEPT ![t] = NULL], prev) /\ head' = [head EXCEPT ![l] = t]
    BY <1>2, <1>3, <1>6 DEF DataList_Removetail
  <2>2. head' = head
    BY <1>3, <1>6, <2>1 DEF ListTypes
  <2>3. next' = [x \in Nodes |-> IF x = n THEN Junk ELSE IF x = t THEN next[n] ELSE next[x]]
    BY <1>2, <1>6, <2>1 DEF ListTypes, FreeNode
  <2>4. prev' = [x \in Nodes |-> IF x = n THEN Junk ELSE IF x = next[n] THEN t ELSE prev[x]]
    BY <1>2, <1>6, <2>1 DEF ListTypes, FreeNode
  <2>5. tail' = [tail EXCEPT ![l] = IF @ = n THEN prev[n] ELSE @]
    BY <1>2, <1>4 DEF ListTypes
  <2>6. head' = [head EXCEPT ![l] = IF @ = n THEN next[n] ELSE @]
    BY <1>2, <1>6, <2>2 DEF ListTypes
  <2> QED
    BY <1>1, <2>1, <2>3, <2>4, <2>5, <2>6 DEF FreeNode, Removal, s, n, m
<1>7. CASE m # 1 /\ m # 2
  <2>1. FreeNode(l, n, [next EXCEPT ![t] = NULL, ![prev[t]] = t], prev) /\ head' = head
    BY <1>2, <1>3, <1>7 DEF DataList_Removetail
  <2>3. next' = [x \in Nodes |-> IF x = n THEN Junk ELSE IF x = t THEN next[n] ELSE next[x]]
    BY <1>2, <1>3, <1>7, <2>1 DEF ListTypes, FreeNode
  <2>4. prev' = [x \in Nodes |-> IF x = n THEN Junk ELSE IF x = next[n] THEN t ELSE prev[x]]
    BY <1>2, <1>7, <2>1 DEF ListTypes, FreeNode
  <2>5. tail' = [tail EXCEPT ![l] = IF @ = n THEN prev[n] ELSE @]
    BY <1>2, <1>4 DEF ListTypes
  <2>6. head' = [head EXCEPT ![l] = IF @ = n THEN next[n] ELSE @]
    BY <1>2, <1>7, <2>1 DEF ListTypes
  <2> QED
    BY <1>1, <2>1, <2>3, <2>4, <2>5, <2>6 DEF FreeNode, Removal, s, n, m
<1> QED
  BY <1>5, <1>6, <1>7

\* DataList_Removenode, at either end and in the middle.
LEMMA RemovesNode ==
  ASSUME NEW c, ListTypes, Chains(c), NEW l \in Lists, NEW j \in 1..Len(c[l]),
         DataList_Removenode(l, c[l][j])
  PROVE  Removal(l, c[l][j])
<1> DEFINE s == c[l]
           m == Len(s)
           n == s[j]
<1>a. Near(s, l, j)
  BY Neighbours
<1>1. c[l] # <<>> /\ 1 \in 1..m /\ m \in 1..m /\ m \in Nat \ {0}
  BY <1>a DEF Near
<1>2. head[l] = s[1] /\ tail[l] = s[m] /\ n \in Nodes /\ (n = s[1] => j = 1) /\ (n = s[m] => j = m)
  BY <1>1, <1>a DEF Near
<1>3. CASE n = head[l]
  BY <1>2, <1>3, RemovesHead DEF DataList_Removenode
<1>4. CASE n # head[l] /\ n = tail[l]
  BY <1>1, <1>2, <1>4, RemovesTail DEF DataList_Removenode
<1>5. CASE n # head[l] /\ n # tail[l]
  <2>1. j # 1 /\ j # m
    BY <1>2, <1>5
  <2>2. next[n] \in Nodes /\ prev[n] \in Nodes
    BY <1>a, <2>1 DEF Near
  <2>3. Unlink(l, n)
    BY <1>5 DEF DataList_Removenode
  <2>4. next' = [x \in Nodes |-> IF x = n THEN Junk ELSE IF x = prev[n] THEN next[n] ELSE next[x]]
    <3> HIDE DEF n
    <3> QED
      BY <1>2, <2>2, <2>3 DEF Unlink, FreeNode, ListTypes
  <2>5. prev' = [x \in Nodes |-> IF x = n THEN Junk ELSE IF x = next[n] THEN prev[n] ELSE prev[x]]
    <3> HIDE DEF n
    <3> QED
      BY <1>2, <2>2, <2>3 DEF Unlink, FreeNode, ListTypes
  <2>6. /\ head' = [head EXCEPT ![l] = IF @ = n THEN next[n] ELSE @]
        /\ tail' = [tail EXCEPT ![l] = IF @ = n THEN prev[n] ELSE @]
    <3> HIDE DEF n
    <3> QED
      BY <1>5, <2>3 DEF Unlink, ListTypes
  <2> HIDE DEF n
  <2>7. Removal(l, n)
    BY <2>3, <2>4, <2>5, <2>6 DEF Unlink, FreeNode, Removal
  <2> QED
    BY <2>7 DEF n
<1> QED
  BY <1>3, <1>4, <1>5

\* The lists of the table: those of buckets that do not exist are empty.
Buckets(c) == Chains(c) /\ \A l \in Lists \ buckets : c[l] = <<>>

\* There are sequences of nodes that the lists are, those of missing buckets empty.
TableInv ==
  /\ ListTypes
  /\ buckets \subseteq Lists /\ clearing \in 0..hashsize
  /\ \E c : Buckets(c)

\* Every key falls into a bucket.
LEMMA IndexIsList ==
  ASSUME NEW k \in Keys
  PROVE  Index(k) \in Lists
<1>1. hashfun[k] \in Nat /\ hashsize \in Nat \ {0}
  BY HashAssumption DEF HashAssumption
<1>2. hashfun[k] % hashsize \in 0..hashsize - 1
  BY <1>1
<1> QED
  BY <1>2, HashAssumption DEF HashAssumption, Index

\* DataList_Find returns the first node that fits.
LEMMA FoundNode ==
  ASSUME NEW c, Chains(c), NEW l \in Lists, NEW A
  PROVE  \/ /\ DataList_Find(l, A) = NULL
            /\ \A i \in 1..Len(c[l]) : data[c[l][i]] \notin A
         \/ \E j \in 1..Len(c[l]) :
              /\ DataList_Find(l, A) = c[l][j] /\ data[c[l][j]] \in A
              /\ \A i \in 1..j - 1 : data[c[l][i]] \notin A
<1> DEFINE s    == c[l]
           hits == {i \in Reached(l) : data[Walk(l, i)] \in A}
<1>1. Len(s) \in Nat /\ Reached(l) = 0..Len(s) - 1
  BY OneChain, ReachedChain
<1>2. \A i \in 0..Len(s) - 1 : Walk(l, i) = s[i + 1]
  BY <1>1, WalkChain
<1> HIDE DEF s
<1>3. hits \subseteq Nat /\ hits \subseteq 0..Len(s) - 1
  BY <1>1
<1>4. \A i \in 1..Len(s) : i - 1 \in hits <=> data[s[i]] \in A
  <2> TAKE i \in 1..Len(s)
  <2>1. i - 1 \in 0..Len(s) - 1 /\ (i - 1) + 1 = i
    BY <1>1
  <2> QED
    BY <1>1, <1>2, <2>1
<1>5. DataList_Find(l, A) = IF hits = {} THEN NULL ELSE Walk(l, Min(hits))
  BY DEF DataList_Find
<1> HIDE DEF hits
<1>6. CASE hits = {}
  BY <1>4, <1>5, <1>6 DEF s
<1>7. CASE hits # {}
  <2>1. Min(hits) \in hits /\ \A x \in hits : Min(hits) <= x
    <3>1. \E x \in hits : \A y \in hits : x <= y
      BY <1>3, <1>7, SmallestOf
    <3> QED
      BY <3>1 DEF Min
  <2> DEFINE i0 == Min(hits)
  <2> HIDE DEF i0
  <2>2. i0 \in 0..Len(s) - 1 /\ i0 \in hits
    BY <1>3, <2>1 DEF i0
  <2> DEFINE j == i0 + 1
  <2>3. j \in 1..Len(s) /\ j - 1 = i0 /\ j - 1 \in hits
    BY <1>1, <2>2
  <2>4. DataList_Find(l, A) = s[j] /\ data[s[j]] \in A
    <3>1. DataList_Find(l, A) = Walk(l, i0)
      BY <1>5, <1>7 DEF i0
    <3>2. Walk(l, i0) = s[j]
      BY <1>2, <2>2
    <3> QED
      BY <1>4, <2>3, <3>1, <3>2
  <2> HIDE DEF j
  <2>5. ASSUME NEW i \in 1..j - 1
        PROVE  data[s[i]] \notin A
    <3>1. i \in 1..Len(s) /\ ~ (j - 1 <= i - 1)
      BY <1>1, <2>3
    <3>2. i - 1 \notin hits
      BY <2>1, <2>3, <3>1 DEF i0
    <3> QED
      BY <1>4, <3>1, <3>2
  <2> QED
    BY <2>3, <2>4, <2>5 DEF s
<1> QED
  BY <1>6, <1>7

\* The new table has no list, and each is empty.
LEMMA TableInit == Init => TableInv
<1> SUFFICES ASSUME Init
             PROVE  TableInv
  OBVIOUS
<1> DEFINE c == [l \in Lists |-> <<>>]
<1>1. c \in [Lists -> Seq(Nodes)] /\ \A l \in Lists : c[l] = <<>> /\ Len(c[l]) = 0
  OBVIOUS
<1> HIDE DEF c
<1>2. ListTypes
  BY DEF Init, ListsInit, ListTypes
<1>3. \A l \in Lists : Chained(c[l], head[l], tail[l], next, prev)
  BY <1>1 DEF Init, ListsInit, Chained
<1>4. \A l \in Lists : count[l] = Len(c[l]) + missed[l]
  BY <1>1 DEF Init, ListsInit
<1>5. Places(c)
  BY <1>1 DEF Init, ListsInit, Places
<1>6. Buckets(c)
  BY <1>1, <1>3, <1>4, <1>5 DEF Buckets, Chains
<1>7. buckets \subseteq Lists /\ clearing \in 0..hashsize
  BY HashAssumption DEF HashAssumption, Init
<1> QED
  BY <1>2, <1>6, <1>7 DEF TableInv

\* A step that moves no node, nor changes the counts it must not.
LEMMA ChainsStill ==
  ASSUME NEW c, ListTypes, Chains(c), UNCHANGED <<head, tail, next, prev, data>>,
         count' \in [Lists -> Nat], missed' \in [Lists -> Nat],
         \A l \in Lists : count'[l] = Len(c[l]) + missed'[l]
  PROVE  ListTypes' /\ Chains(c)'
  BY DEF ListTypes, Chains, Places

\* Every call on the table keeps its lists in memory.
LEMMA TableNext == TableInv /\ [Next]_vars => TableInv'
<1> SUFFICES ASSUME TableInv, [Next]_vars
             PROVE  TableInv'
  OBVIOUS
<1>1. ListTypes /\ buckets \subseteq Lists /\ clearing \in 0..hashsize
  BY DEF TableInv
<1>2. PICK c : Buckets(c)
  BY DEF TableInv
<1>3. Chains(c) /\ \A l \in Lists \ buckets : c[l] = <<>>
  BY <1>2 DEF Buckets
<1>4. hashsize \in Nat \ {0} /\ Lists = 0..hashsize - 1
  BY HashAssumption DEF HashAssumption
<1>5. ASSUME UNCHANGED listVars, UNCHANGED buckets, clearing' \in 0..hashsize
      PROVE  TableInv'
  <2>1. ListTypes' /\ Chains(c)'
    BY <1>1, <1>3, <1>5 DEF listVars, ListTypes, Chains, Places
  <2>2. Buckets(c)'
    BY <1>3, <1>5, <2>1 DEF Buckets
  <2> QED
    BY <1>1, <1>5, <2>1, <2>2 DEF TableInv
<1>6. ASSUME NEW e, ListTypes', Chains(e)', buckets' \subseteq Lists, clearing' \in 0..hashsize,
             \A l \in Lists \ buckets' : e[l] = <<>>
      PROVE  TableInv'
  BY <1>6 DEF TableInv, Buckets
<1>7. ASSUME NEW k \in Keys, NEW v \in Values, hashTable_push(k, v)
      PROVE  TableInv'
  <2> DEFINE l == Index(k)
             d == [key |-> k, value |-> v]
  <2>1. l \in Lists /\ d \in Data
    BY IndexIsList, HashAssumption DEF HashAssumption
  <2>2. DataList_Addtail(l, d) /\ buckets' = buckets \cup {l} /\ clearing' = clearing
    BY <1>7 DEF hashTable_push
  <2> HIDE DEF l, d
  <2>3. PICK n \in Free : Addition(l, n, d)
    BY <1>1, <1>3, <2>1, <2>2, AddtailAdds
  <2>4. ListTypes' /\ Chains([c EXCEPT ![l] = Append(@, n)])'
    BY <1>1, <1>3, <2>1, <2>3, AddtailChains
  <2>5. \A m \in Lists \ buckets' : [c EXCEPT ![l] = Append(@, n)][m] = <<>>
    BY <1>3, <2>2 DEF Chains
  <2> QED
    BY <1>1, <1>6, <2>1, <2>2, <2>4, <2>5
<1>8. ASSUME NEW k \in Keys, hashTable_pushNoNode(k)
      PROVE  TableInv'
  <2> DEFINE l == Index(k)
  <2>1. l \in Lists
    BY IndexIsList
  <2>2. DataList_AddtailFails(l) /\ buckets' = buckets \cup {l} /\ clearing' = clearing
    BY <1>8 DEF hashTable_pushNoNode
  <2> HIDE DEF l
  <2>3. /\ UNCHANGED <<head, tail, next, prev, data>>
        /\ count' = [count EXCEPT ![l] = @ + 1] /\ missed' = [missed EXCEPT ![l] = @ + 1]
    BY <2>2 DEF DataList_AddtailFails
  <2>4. count' \in [Lists -> Nat] /\ missed' \in [Lists -> Nat]
    BY <1>1, <2>1, <2>3 DEF ListTypes
  <2>5. ASSUME NEW m \in Lists
        PROVE  count'[m] = Len(c[m]) + missed'[m]
    <3>1. count[m] = Len(c[m]) + missed[m] /\ Len(c[m]) \in Nat /\ missed[m] \in Nat
      BY <1>1, <1>3, OneChain DEF Chains, ListTypes
    <3> QED
      BY <1>1, <2>3, <3>1 DEF ListTypes
  <2>6. ListTypes' /\ Chains(c)'
    BY <1>1, <1>3, <2>3, <2>4, <2>5, ChainsStill
  <2> QED
    BY <1>1, <1>3, <1>6, <2>1, <2>2, <2>6
<1>9. ASSUME NEW k \in Keys, hashTable_remove(k), Allocated(k), Find(k) # NULL
      PROVE  TableInv'
  <2> DEFINE l == Index(k)
             A == {d \in Data : d.key = k}
  <2>1. l \in Lists
    BY IndexIsList
  <2>2. Find(k) = DataList_Find(l, A)
    BY Zenon DEF Find
  <2>3. DataList_Removenode(l, Find(k)) /\ UNCHANGED <<buckets, clearing>> /\ l \in buckets
    BY <1>9 DEF hashTable_remove, Allocated
  <2> HIDE DEF l, A
  <2>4. PICK j \in 1..Len(c[l]) : Find(k) = c[l][j]
    BY <1>3, <1>9, <2>1, <2>2, FoundNode
  <2>5. Removal(l, c[l][j])
    BY <1>1, <1>3, <2>1, <2>3, <2>4, RemovesNode
  <2>6. ListTypes' /\ Chains([c EXCEPT ![l] = Without(@, j)])'
    BY <1>1, <1>3, <2>1, <2>5, RemovalChains
  <2>7. \A m \in Lists \ buckets' : [c EXCEPT ![l] = Without(@, j)][m] = <<>>
    BY <1>3, <2>3 DEF Chains
  <2> QED
    BY <1>1, <1>6, <2>3, <2>6, <2>7
<1>10. ASSUME DataList_Clear
       PROVE  TableInv'
  <2>0. PICK l : l = clearing
    OBVIOUS
  <2>1. l \in Lists /\ l \in buckets /\ head[l] # NULL /\ DataList_Removetail(l)
        /\ UNCHANGED <<buckets, clearing>>
    <3>1. /\ l \in buckets /\ head[l] # NULL /\ DataList_Removetail(l)
          /\ UNCHANGED <<buckets, clearing>>
      BY <1>10, <2>0, Zenon DEF DataList_Clear
    <3>2. l \in Lists
      BY <1>1, <2>0, <3>1
    <3> QED
      BY <3>1, <3>2
  <2>2. c[l] # <<>>
    <3>1. Chained(c[l], head[l], tail[l], next, prev)
      BY <1>3, <2>1 DEF Chains
    <3>2. c[l] = <<>> => head[l] = NULL
      BY <3>1 DEF Chained
    <3> QED
      BY <2>1, <3>2
  <2>3. PICK j \in 1..Len(c[l]) : Removal(l, c[l][j])
    BY <1>1, <1>3, <2>1, <2>2, RemovesTail
  <2>4. ListTypes' /\ Chains([c EXCEPT ![l] = Without(@, j)])'
    BY <1>1, <1>3, <2>1, <2>3, RemovalChains
  <2>5. \A m \in Lists \ buckets' : [c EXCEPT ![l] = Without(@, j)][m] = <<>>
    BY <1>3, <2>1 DEF Chains
  <2> QED
    BY <1>1, <1>6, <2>1, <2>4, <2>5
<1>11. ASSUME ClearNext
       PROVE  TableInv'
  <2> DEFINE l == clearing
  <2>1. /\ l \in buckets => head[l] = NULL
        /\ buckets' = buckets \ {l} /\ clearing' = l + 1 /\ l # hashsize
        /\ UNCHANGED <<head, tail, next, prev, data>>
        /\ count' = [count EXCEPT ![l] = 0] /\ missed' = [missed EXCEPT ![l] = 0]
    BY <1>11 DEF ClearNext, Idle, DataList_Delete
  <2>2. l \in Lists /\ clearing' \in 0..hashsize
    BY <1>1, <1>4, <2>1
  <2>3. c[l] = <<>>
    <3>1. CASE l \in buckets
      <4>1. head[l] = NULL
        BY <2>1, <3>1
      <4>2. c[l] # <<>> => 1 \in 1..Len(c[l]) /\ head[l] = c[l][1]
        BY <1>3, <2>2, OneChain DEF Chained
      <4> QED
        BY <1>3, <2>2, <4>1, <4>2, OneChain
    <3>2. CASE l \notin buckets
      BY <1>3, <2>2, <3>2
    <3> QED
      BY <3>1, <3>2
  <2>4. count' \in [Lists -> Nat] /\ missed' \in [Lists -> Nat]
    BY <1>1, <2>1 DEF ListTypes
  <2>5. ASSUME NEW m \in Lists
        PROVE  count'[m] = Len(c[m]) + missed'[m]
    <3>1. count[m] = Len(c[m]) + missed[m] /\ Len(c[m]) \in Nat /\ missed[m] \in Nat
      BY <1>1, <1>3, OneChain DEF Chains, ListTypes
    <3> QED
      BY <1>1, <2>1, <2>3, <3>1 DEF ListTypes
  <2>6. ListTypes' /\ Chains(c)'
    BY <1>1, <1>3, <2>1, <2>4, <2>5, ChainsStill
  <2>7. \A m \in Lists \ buckets' : c[m] = <<>>
    BY <1>3, <2>1, <2>3
  <2> QED
    BY <1>1, <1>6, <2>1, <2>2, <2>6, <2>7
<1>12. ASSUME NEW k \in Keys, hashTable_remove(k), ~ (Allocated(k) /\ Find(k) # NULL)
       PROVE  TableInv'
  BY <1>1, <1>5, <1>12 DEF hashTable_remove
<1>13. ASSUME NEW k \in Keys, hashTable_pushFails(k) \/ hashTable_pop(k)
       PROVE  TableInv'
  BY <1>1, <1>5, <1>13 DEF hashTable_pushFails, hashTable_pop
<1>14. CASE hashTable_clear
  BY <1>4, <1>5, <1>14 DEF hashTable_clear
<1>15. CASE UNCHANGED vars
  BY <1>1, <1>5, <1>15 DEF vars
<1> QED
  BY <1>7, <1>8, <1>9, <1>10, <1>11, <1>12, <1>13, <1>14, <1>15 DEF Next

\* Whatever is pushed, removed and cleared, in any order and with malloc failing
\* at any push: list.c leaves every bucket a list whose next and prev chains are
\* each other's reverse between head and tail, as long as its count but for the
\* nodes it did not get, without freed nodes; and each allocated node is in
\* exactly one list.
THEOREM ListsStayLinked == Spec => []Linked
<1>1. TableInv => Linked
  BY ChainsLinked DEF TableInv, Buckets
<1> QED
  BY <1>1, TableInit, TableNext, PTL DEF Spec
=============================================================================
