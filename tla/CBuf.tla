-------------------------------- MODULE CBuf --------------------------------
(***************************************************************************)
(* The circular byte buffers of wtmi/ebg.c.  A buffer is a record of its   *)
(* memory, the number of bytes in it and where they start; cbuf_pull and   *)
(* cbuf_push cut a transfer that runs over the end of the memory in two.   *)
(***************************************************************************)
EXTENDS Integers, Sequences

Erased == 0         \* what bzero writes; random bytes have positive numbers
Junk   == -1        \* memory nobody has written

NewCBuf(size) == [data |-> [x \in 0..size-1 |-> Junk], size |-> size,
                  len |-> 0, pos |-> 0]

MinOf(a, b) == IF a < b THEN a ELSE b

\* n bytes of memory from p on.
Bytes(b, p, n) == [k \in 1..n |-> b.data[p + k - 1]]

\* The part of a transfer of n bytes at p that lies before the end, when it
\* does not fit there.
TailLen(b, p, n) == IF p + n > b.size THEN b.size - p ELSE 0

\* Mutant: pos is not set back to 0 after the first part.
PulledNoWrap(b, len) ==
  LET tail == TailLen(b, b.pos, len)
  IN Bytes(b, b.pos, tail) \o [k \in 1..len-tail |-> b.data[(b.pos + k - 1) % b.size]]

Pulled(b, len) ==
  LET tail == TailLen(b, b.pos, len)
  IN Bytes(b, b.pos, tail)
     \o Bytes(b, IF tail > 0 THEN 0 ELSE b.pos, len - tail)

\* Mutant: only the part after the wrap is erased.
EraseSecondPart(b, len) ==
  LET tail == TailLen(b, b.pos, len)
      p    == IF tail > 0 THEN 0 ELSE b.pos
  IN [x \in DOMAIN b.data |-> IF x \in p..(p + len - tail - 1) THEN Erased
                                                               ELSE b.data[x]]

AfterErase(b, len) ==
  LET tail == TailLen(b, b.pos, len)
      p    == IF tail > 0 THEN 0 ELSE b.pos
  IN [x \in DOMAIN b.data |->
        IF x \in b.pos..(b.pos + tail - 1) \/ x \in p..(p + len - tail - 1)
          THEN Erased ELSE b.data[x]]

cbuf_pull(b, n) ==
  LET len  == MinOf(b.len, n)
      tail == TailLen(b, b.pos, len)
      p    == IF tail > 0 THEN 0 ELSE b.pos
  IN [out  |-> Pulled(b, len),
      cbuf |-> [b EXCEPT !.data = AfterErase(b, len),
                         !.len = @ - len,
                         !.pos = (p + (len - tail)) % b.size]]

cbuf_free_space(b) == b.size - b.len

\* What does not fit is dropped.
cbuf_push(b, src) ==
  LET len  == MinOf(cbuf_free_space(b), Len(src))
      pos  == (b.pos + b.len) % b.size
      tail == TailLen(b, pos, len)
      p    == IF tail > 0 THEN 0 ELSE pos
  IN [b EXCEPT !.data = [x \in DOMAIN b.data |->
                           IF x \in p..(p + len - tail - 1) THEN src[tail + x - p + 1]
                           ELSE IF x \in pos..(pos + tail - 1) THEN src[x - pos + 1]
                           ELSE b.data[x]],
               !.len = @ + len]

-----------------------------------------------------------------------------
\* The bytes in the buffer, oldest first, and the memory that holds none.
Content(b) == [k \in 1..b.len |-> b.data[(b.pos + k - 1) % b.size]]
Unused(b)  == DOMAIN b.data \ {(b.pos + k) % b.size : k \in 0..b.len-1}
=============================================================================
