----------------------------- MODULE Serialization -----------------------------
(***************************************************************************)
(* pack() and unpack() of src/src/serialization.c, byte by byte, for the   *)
(* three directives the programs use: C (8 bits), H (16 bits, big endian)  *)
(* and s (a string behind its length).  A buffer is a sequence of bytes;   *)
(* what lies beyond its end is read as zero.                               *)
(***************************************************************************)
EXTENDS Integers, Sequences, SequencesExt

Bytes == 0 .. 255

\* packi16(): each assignment to an unsigned char keeps 8 bits.
packi16(i) == <<(i \div 256) % 256, i % 256>>

unpacku16(high, low) == 256 * high + low

\* What one directive of a format writes.
Packed(directive, arg) ==
    CASE directive = "C" -> <<arg % 256>>
      [] directive = "H" -> packi16(arg)
      [] directive = "s" -> packi16(Len(arg)) \o arg

\* pack(): the directives in turn.
pack(format, args) ==
    FlattenSeq([i \in DOMAIN format |-> Packed(format[i], args[i])])

-------------------------------------------------------------------------------
(* unpack() writes through pointers.  The memory they point into is a       *)
(* function from offsets to bytes; strings go to an array of their own.     *)

ByteAt(buf, i) == IF i \in DOMAIN buf THEN buf[i] ELSE 0

\* *H = v, with H a pointer to unsigned int: four bytes, little endian,
\* wherever the two-byte field ends.
StoreInt(mem, at, v) ==
    [o \in DOMAIN mem |->
        IF o = at THEN v % 256
        ELSE IF o = at + 1 THEN v \div 256
        ELSE IF o \in {at + 2, at + 3} THEN 0
        ELSE mem[o]]

LoadShort(mem, at) == mem[at] + 256 * mem[at + 1]

\* One directive: "at" is the next byte of buf, "to" the offset of its target.
Unpacked(buf, so_far, directive, to) ==
    LET at == so_far.at
        value == unpacku16(ByteAt(buf, at), ByteAt(buf, at + 1))
    IN  CASE directive = "C" ->
                [at |-> at + 1, str |-> so_far.str,
                 mem |-> [so_far.mem EXCEPT ![to] = ByteAt(buf, at)]]
          [] directive = "H" ->
                [at |-> at + 2, str |-> so_far.str,
                 mem |-> StoreInt(so_far.mem, to, value)]
          [] directive = "s" ->
                [at |-> at + 2 + value, mem |-> so_far.mem,
                 str |-> [j \in 1 .. value |-> ByteAt(buf, at + 1 + j)]]

\* unpack(): the directives in turn, from the first byte of the buffer.
unpack(buf, format, targets, mem) ==
    LET after[n \in 0 .. Len(format)] ==
            IF n = 0 THEN [at |-> 1, mem |-> mem, str |-> <<>>]
            ELSE Unpacked(buf, after[n - 1], format[n], targets[n])
    IN  after[Len(format)]

\* A string as the functions of string.h see it: up to the first zero byte.
CString(s) ==
    IF \E i \in DOMAIN s : s[i] = 0
      THEN SubSeq(s, 1, (CHOOSE i \in DOMAIN s : /\ s[i] = 0
                                                 /\ \A j \in 1 .. i - 1 : s[j] # 0) - 1)
      ELSE s
===============================================================================
