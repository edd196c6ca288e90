--------------------------------- MODULE CStr ---------------------------------
(***************************************************************************)
(* cstr.c: a text with its length in a header in front of it.  The user    *)
(* holds the address of the text; CStr_MackSpace may be asked for room     *)
(* behind it, and tells in `freelen` what it made.                         *)
(*                                                                         *)
(* The calls that change nothing are left out: a failed malloc or realloc, *)
(* a request for which freelen is enough, and a text of length 0, for      *)
(* which CStr_Create answers NULL and forgets its block.                   *)
(***************************************************************************)
EXTENDS Integers

CONSTANTS
  Strings,           \* the user's pointers
  Lengths, Requests, \* how long a text may be, how much room is asked for
  Header,            \* sizeof(struct tagCStr)
  CSTR_MAX_PREALLOC

ASSUME CStrAssumption ==
  /\ Lengths \cup Requests \subseteq Nat \ {0}
  /\ {Header, CSTR_MAX_PREALLOC} \subseteq Nat
  /\ Header < CSTR_MAX_PREALLOC

VARIABLE str   \* what each pointer points to

\* alloc: the size of the block; intact: how many bytes of the text and its
\* terminator are what they were; tiny: see CStr_MackSpace.
NoString == [alloc |-> 0, len |-> 0, freelen |-> 0, intact |-> 0, tiny |-> FALSE]
Live     == {s \in Strings : str[s] # NoString}

CStrInit == str = [s \in Strings |-> NoString]

\* A block for n bytes of text, which are copied from `from`.
Created(n, from) ==
  [alloc |-> Header + n + 1, len |-> n, freelen |-> 0,
   intact |-> IF from.intact < n THEN from.intact ELSE n + 1,
   tiny |-> from.tiny]

CStr_Create(s, n, from) ==
  /\ s \notin Live
  /\ str' = [str EXCEPT ![s] = Created(n, from)]

\* The text comes from the caller.
CStr_Malloc(s, n) == CStr_Create(s, n, [NoString EXCEPT !.intact = n])

CStr_Dup(s, t) ==
  /\ t \in Live
  /\ CStr_Create(s, str[t].len, str[t])

CStr_Free(s) ==
  /\ s \in Live
  /\ str' = [str EXCEPT ![s] = NoString]

-----------------------------------------------------------------------------
(* CStr_MackSpace                                                          *)

NewLen(s, add) ==
  LET newlen == str[s].len + add
  IN  IF newlen < CSTR_MAX_PREALLOC THEN 2 * newlen ELSE newlen + CSTR_MAX_PREALLOC

\* realloc to n bytes, header and all.
Resized(s, add, n, free) ==
  [str[s] EXCEPT !.alloc = n, !.freelen = free,
                 !.intact = IF Header + @ <= n THEN @ ELSE IF n < Header THEN 0 ELSE n - Header,
                 !.tiny = @ \/ str[s].len + 2 * add <= Header]

\* Seeded faults: the new length is not doubled; the free length is all of it.
BadMackExact(s, add) ==
  /\ s \in Live /\ str[s].freelen < add
  /\ LET newlen == str[s].len + add
     IN  str' = [str EXCEPT ![s] = Resized(s, add, newlen, newlen - str[s].len)]

BadMackFree(s, add) ==
  /\ s \in Live /\ str[s].freelen < add
  /\ str' = [str EXCEPT ![s] = Resized(s, add, NewLen(s, add), NewLen(s, add))]

\* The new length counts neither the header nor the terminator.
CStr_MackSpace(s, add) ==
  /\ s \in Live /\ str[s].freelen < add
  /\ str' = [str EXCEPT ![s] =
               Resized(s, add, NewLen(s, add), NewLen(s, add) - str[s].len)]

CStrNext ==
  \E s \in Strings :
    \/ \E n \in Lengths : CStr_Malloc(s, n)
    \/ \E t \in Strings : CStr_Dup(s, t)
    \/ \E add \in Requests : CStr_MackSpace(s, add)
    \/ CStr_Free(s)

CStrSpec == CStrInit /\ [][CStrNext]_str

-----------------------------------------------------------------------------
(* Properties.                                                             *)

\* Although CStr_MackSpace forgets the header, a text survives every request
\* but a tiny one, of at most (Header - len) / 2 bytes: it and its terminator
\* stay inside the block and unchanged, so CStr_Dup copies what is the text's
\* and no more, however often room was made before.  What freelen promises is
\* always either nothing or exactly Header + 1 more than there is behind the
\* terminator: never less, so no request that fits becomes a realloc.
TextKept ==
  \A s \in Live :
    LET room == str[s].alloc - Header - str[s].len - 1
    IN  /\ ~ str[s].tiny => str[s].intact = str[s].len + 1 /\ room >= 0
        /\ \/ str[s].freelen = 0 /\ room = 0
           \/ str[s].freelen > 0 /\ room = str[s].freelen - (Header + 1)
=============================================================================
