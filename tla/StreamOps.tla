------------------------------ MODULE StreamOps ------------------------------
(***************************************************************************)
(* The operations of Stream (stream.cpp) on a record of its fields:        *)
(* mem, the allocated bytes (capacity_ is their number), rpos and size.    *)
(* A byte that was never written is Junk.                                  *)
(***************************************************************************)
EXTENDS Integers, Sequences

CONSTANTS
    Bytes,      \* what can be written
    Junk,       \* what malloc leaves in new memory
    Block,      \* GROW_BLOCK
    MaxSize     \* stream_max_size

ASSUME ByteAssumption == Junk \notin Bytes
ASSUME BlockAssumption == Block \in Nat \ {0} /\ MaxSize \in Nat /\ Block <= MaxSize

Fresh(n) == [i \in 1 .. n |-> Junk]

\* Stream::Stream.
NewStream == [mem |-> Fresh(Block), rpos |-> 0, size |-> 0]

Capacity(s) == Len(s.mem)
StreamLen(s) == s.size - s.rpos

\* The bytes that Buf() and Len() show.
Contents(s) == [i \in 1 .. StreamLen(s) |-> s.mem[s.rpos + i]]

RoundUp(x, y) == ((x + (y - 1)) \div y) * y

\* Mutant: the bytes are copied from the start of the buffer.
ShrinkInPlace(s) ==
    IF s.rpos > 0 THEN [s EXCEPT !.rpos = 0, !.size = StreamLen(s)] ELSE s

\* Stream::Shrink.
Shrink(s) ==
    IF s.rpos > 0
    THEN [mem |-> [i \in 1 .. Capacity(s) |->
                     IF i <= StreamLen(s) THEN s.mem[s.rpos + i] ELSE s.mem[i]],
          rpos |-> 0, size |-> StreamLen(s)]
    ELSE s

\* The reallocation of EnsureWritable.
Grow(s, n) ==
    IF Capacity(s) < s.size + n
    THEN [s EXCEPT !.mem = [i \in 1 .. RoundUp(s.size + n, Block) |->
                              IF i <= s.size THEN s.mem[i] ELSE Junk]]
    ELSE s

\* Stream::EnsureWritable, and whether it returns 0.
Writable(s, n) == n <= 0 \/ Shrink(s).size + n <= MaxSize
EnsureWritable(s, n) ==
    IF n <= 0 THEN s
    ELSE IF Writable(s, n) THEN Grow(Shrink(s), n)
    ELSE Shrink(s)

\* A copy to End(): what does not fit in the memory is not in the record.
Copied(s, data) ==
    [s EXCEPT !.mem = [i \in 1 .. Capacity(s) |->
        IF i > s.size /\ i <= s.size + Len(data) THEN data[i - s.size] ELSE s.mem[i]]]

\* Stream::AddSize.
AddSize(s, n) == IF s.size + n <= Capacity(s) THEN [s EXCEPT !.size = @ + n] ELSE s

\* Room for n bytes, then fewer may come (SendTCPBuf, OnTcpRead).
Write(s, n, data) == AddSize(Copied(EnsureWritable(s, n), data), Len(data))

\* Stream::Append.
AppendData(s, data) ==
    LET s1 == EnsureWritable(s, Len(data))
        s2 == Copied(s1, data)
    IN  IF Writable(s, Len(data)) THEN [s2 EXCEPT !.size = @ + Len(data)] ELSE s1

\* Stream::Skip.
Skip(s, n) ==
    IF n < 0 THEN s
    ELSE IF s.rpos + n < s.size THEN [s EXCEPT !.rpos = @ + n]
    ELSE [s EXCEPT !.rpos = 0, !.size = 0]

\* Stream::Reset.
Reset(s) == [s EXCEPT !.rpos = 0, !.size = 0]
=============================================================================
