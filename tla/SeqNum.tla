------------------------------- MODULE SeqNum -------------------------------
(***************************************************************************)
(* Sequence numbers of ikcp.cpp.  A number has the width of IUINT32; the   *)
(* wire carries the low half of it, and the receiver rebuilds the rest     *)
(* from a number it knows (get_id).  The widths are parameters so that     *)
(* small instances meet the wrap-around of both.                           *)
(***************************************************************************)
EXTENDS Integers

CONSTANTS
    Half,   \* half the range of a number on the wire (0x8000)
    Word    \* the range of a number in memory (2^32)

ASSUME HalfAssumption == Half \in Nat \ {0}
ASSUME WordAssumption == Word \in Nat /\ Word >= 4 * Half /\ Word % (2 * Half) = 0

SeqNums == 0 .. Word - 1

\* IUINT32 addition.
Plus(x, n) == (x + n) % Word

\* _itimediff: the difference as IINT32.
Diff(later, earlier) ==
    LET d == (later - earlier) % Word
    IN  IF 2 * d < Word THEN d ELSE d - Word

\* ikcp_encode16u and the cast before it.
Short(x) == x % (2 * Half)

\* Mutant: the comparison with the base is dropped.
GetIdNoCarry(base, id) == (base - Short(base)) + id

\* get_id: the number near base that ends in id.
GetId(base, id) ==
    LET x == (base - Short(base)) + id
    IN  IF x < base - Half THEN (x + 2 * Half) % Word
        ELSE IF x > base + Half THEN (x - 2 * Half) % Word
        ELSE x
=============================================================================
