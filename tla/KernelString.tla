---------------------------- MODULE KernelString ----------------------------
(***************************************************************************)
(* kernel/string.c: the string functions of the kernel, one round of a     *)
(* loop a step.                                                            *)
(*                                                                         *)
(* A call works on two buffers of Size bytes.  The cell behind the end of  *)
(* a buffer belongs to somebody else.  The pointers into both move         *)
(* together, so that one offset stands for them.                           *)
(***************************************************************************)
EXTENDS Integers, FiniteSetsExt

CONSTANTS
    Size,      \* bound: the buffers' size
    Bytes,     \* the bytes a buffer may hold, 0 among them
    MemsetInt  \* memset's second argument, an int

VARIABLES
    fn,     \* the function called
    first,  \* its first argument (a, dst, s)
    second, \* its second argument (b, src)
    n,      \* its count, counted down
    moved,     \* how far the pointers have moved
    phase,  \* "loop", strncpy's second loop "pad", "done"
    ret,    \* what it returned, where that is a number
    first0, n0  \* auxiliary: as they were passed

vars == <<fn, first, second, n, moved, phase, ret, first0, n0>>

Functions ==
    {"strlen", "strcmp", "strncmp", "strcpy", "strncpy", "memset", "memcpy"}
Cells == 0 .. Size
Buffer == [Cells -> Bytes]

Terminated(s) == \E k \in 0 .. Size - 1 : s[k] = 0

\* What a caller has to see to: strings end, and a count does not exceed the
\* buffers.
Legal ==
    /\ fn \in {"strlen", "strcmp", "strncmp"} => Terminated(first)
    /\ fn \in {"strcmp", "strncmp", "strcpy", "strncpy"} => Terminated(second)

\* The functions without a second buffer, and without a count.
Unused ==
    /\ fn \in {"strlen", "memset"} => second = [k \in Cells |-> 0]
    /\ fn \in {"strlen", "strcmp", "strcpy"} => n = 0

Init ==
    /\ fn \in Functions
    /\ first \in Buffer /\ second \in Buffer /\ n \in 0 .. Size
    /\ Legal /\ Unused
    /\ moved = 0 /\ phase = "loop" /\ ret = 0
    /\ first0 = first /\ n0 = n

---------------------------------------------------------------------------
Unread == UNCHANGED <<fn, second, first0, n0>>

Return(v) == phase' = "done" /\ ret' = v

Advance == moved' = moved + 1 /\ UNCHANGED <<phase, ret>>

\* The byte at the pointer is written; the pointers move on.
Write(byte) == first' = [first EXCEPT ![moved] = byte] /\ moved' = moved + 1

Strlen ==
    /\ fn = "strlen" /\ phase = "loop"
    /\ IF first[moved] # 0 THEN Advance ELSE Return(moved) /\ UNCHANGED moved
    /\ Unread /\ UNCHANGED <<first, n>>

Alike == first[moved] # 0 /\ first[moved] = second[moved]

Strcmp ==
    /\ fn = "strcmp" /\ phase = "loop"
    /\ IF Alike THEN Advance
                ELSE Return(first[moved] - second[moved]) /\ UNCHANGED moved
    /\ Unread /\ UNCHANGED <<first, n>>

\* Mutant: the bytes are compared as signed chars.
Signed(byte) == IF byte > 127 THEN byte - 256 ELSE byte
StrncmpSigned ==
    /\ fn = "strncmp" /\ phase = "loop"
    /\ IF n # 0 /\ Alike
       THEN Advance /\ n' = n - 1
       ELSE /\ Return(IF n = 0 THEN 0
                      ELSE Signed(first[moved]) - Signed(second[moved]))
            /\ UNCHANGED <<moved, n>>
    /\ Unread /\ UNCHANGED first

Strncmp ==
    /\ fn = "strncmp" /\ phase = "loop"
    /\ IF n # 0 /\ Alike
       THEN Advance /\ n' = n - 1
       ELSE /\ Return(IF n = 0 THEN 0 ELSE first[moved] - second[moved])
            /\ UNCHANGED <<moved, n>>
    /\ Unread /\ UNCHANGED first

\* The byte is copied before it is looked at.
Strcpy ==
    /\ fn = "strcpy" /\ phase = "loop"
    /\ Write(second[moved])
    /\ phase' = IF second[moved] = 0 THEN "done" ELSE phase
    /\ Unread /\ UNCHANGED <<n, ret>>

\* The first loop: the terminator is copied without being counted.
StrncpyCopies ==
    /\ fn = "strncpy" /\ phase = "loop"
    /\ IF n = 0 THEN phase' = "pad" /\ UNCHANGED <<first, moved, n>>
       ELSE /\ Write(second[moved])
            /\ phase' = IF second[moved] = 0 THEN "pad" ELSE phase
            /\ n' = IF second[moved] = 0 THEN n ELSE n - 1
    /\ Unread /\ UNCHANGED ret

\* What a loop that fills n bytes does in a round; it ends with the counter
\* wrapped, which nobody reads.
Fills(byte) ==
    /\ IF n = 0 THEN phase' = "done" /\ UNCHANGED <<first, moved, n>>
                ELSE Write(byte) /\ n' = n - 1 /\ UNCHANGED phase
    /\ Unread /\ UNCHANGED ret

StrncpyPads == fn = "strncpy" /\ phase = "pad" /\ Fills(0)

\* Mutant: one round too many.
MemsetOver ==
    /\ fn = "memset" /\ phase = "loop"
    /\ IF n < 0 THEN phase' = "done" /\ UNCHANGED <<first, moved, n>>
                ELSE Write(MemsetInt % 256) /\ n' = n - 1 /\ UNCHANGED phase
    /\ Unread /\ UNCHANGED ret

\* The int is stored as an unsigned char.
Memset == fn = "memset" /\ phase = "loop" /\ Fills(MemsetInt % 256)

Memcpy == fn = "memcpy" /\ phase = "loop" /\ Fills(second[moved])

Next ==
    \/ Strlen \/ Strcmp \/ Strncmp \/ Strcpy
    \/ StrncpyCopies \/ StrncpyPads \/ Memset \/ Memcpy

Spec == Init /\ [][Next]_vars

---------------------------------------------------------------------------
(* Properties.                                                             *)

StringTypeOK ==
    /\ fn \in Functions
    /\ first \in [Cells -> 0 .. 255] /\ second \in Buffer /\ first0 \in Buffer
    /\ n \in 0 .. Size /\ n0 \in 0 .. Size
    /\ moved \in Cells \cup {Size + 1}
    /\ phase \in {"loop", "pad", "done"}
    /\ ret \in -255 .. 255 \/ ret \in Cells

\* Reference definitions, without a loop.
Length(s) == Min({k \in Cells : s[k] = 0})
\* The bytes that count in a comparison of strings.
Compared == 0 .. IF fn = "strncmp"
                 THEN Min({Length(first), Length(second), n0 - 1})
                 ELSE Min({Length(first), Length(second)})
Order ==
    LET differ == {k \in Compared : first[k] # second[k]}
    IN  IF differ = {} THEN 0
        ELSE IF first[Min(differ)] < second[Min(differ)] THEN -1 ELSE 1
Sign(i) == IF i < 0 THEN -1 ELSE IF i > 0 THEN 1 ELSE 0
\* Byte k of the first buffer after the call.
Byte(k) ==
    IF fn = "strcpy" /\ k <= Length(second) THEN second[k]
    ELSE IF fn = "strncpy" /\ k < n0
         THEN IF k < Length(second) THEN second[k] ELSE 0
    ELSE IF fn = "memset" /\ k < n0 THEN MemsetInt % 256
    ELSE IF fn = "memcpy" /\ k < n0 THEN second[k]
    ELSE first0[k]

\* What the shell's dispatcher and whoever copies a line rely on: lengths,
\* the order of strings byte by byte, and every byte of the buffer that is
\* the caller's.  No function but strncpy writes behind the buffer, and
\* strncpy at most one byte, a zero, as it may behind its count.
RightResult ==
    /\ phase = "done" =>
         /\ fn = "strlen" => ret = Length(first)
         /\ fn \in {"strcmp", "strncmp"} => Sign(ret) = Order
         /\ \A k \in 0 .. Size - 1 :
                first[k] = Byte(k) \/ (fn = "strncpy" /\ k = n0 /\ first[k] = 0)
    /\ first[Size] = first0[Size]
         \/ (fn = "strncpy" /\ n0 = Size /\ first[Size] = 0)
=============================================================================
