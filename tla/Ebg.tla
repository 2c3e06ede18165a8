-------------------------------- MODULE Ebg ---------------------------------
(***************************************************************************)
(* The random numbers of wtmi/ebg.c: raw bytes of the entropy generator    *)
(* are collected by the main loop in one circular buffer, strong ones      *)
(* (hashed, paranoid_rand) in another, and taken out on request.  The n-th *)
(* sample of the generator is the pair of bytes 2n-1 and 2n, the digest of *)
(* the n-th call of paranoid_rand_64 is DGST bytes, numbered on, so that   *)
(* every random byte can be traced to where it goes.                       *)
(***************************************************************************)
EXTENDS CBuf

CONSTANTS
  EBG_SIZE,           \* bytes of ebg_buffer (4096)
  PARANOID_SIZE,      \* bytes of paranoid_rand_buffer (4096)
  COLLECT,            \* raw bytes per strong digest (512)
  DGST,               \* bytes of a strong digest (64)
  RawSizes,           \* sizes callers ask for: ebg_rand and ebg_rand_sync,
  StrongSizes,        \* paranoid_rand
  MaxSamples,         \* bound: samples of the generator
  MaxCalls            \* bound: strong digests

ASSUME SizesAssumption ==
  /\ {EBG_SIZE, PARANOID_SIZE, COLLECT, DGST} \subseteq Nat \ {0}
  /\ COLLECT <= EBG_SIZE /\ DGST <= PARANOID_SIZE /\ COLLECT % 2 = 0
  /\ RawSizes \cup StrongSizes \subseteq Nat /\ MaxSamples \in Nat /\ MaxCalls \in Nat

VARIABLES
  ebg_cbuf, paranoid_rand_cbuf,
  samples,            \* samples taken from the generator
  calls,              \* calls of paranoid_rand_64
  prev,               \* the digest behind the raw bytes in paranoid_rand_tmp
  job,                \* bytes paranoid_rand still has to deliver
  raw,                \* history: raw bytes that left ebg_cbuf or the generator
  strong,             \* history: strong bytes given to callers
  hashed              \* history: the previous digest each call hashed

vars == <<ebg_cbuf, paranoid_rand_cbuf, samples, calls, prev, job, raw, strong,
          hashed>>

Zeros == 0            \* digest "0000" of the comment on paranoid_rand_64

Init ==
  /\ ebg_cbuf = NewCBuf(EBG_SIZE)
  /\ paranoid_rand_cbuf = NewCBuf(PARANOID_SIZE)
  /\ samples = 0 /\ calls = 0
  /\ prev \in {Zeros, Junk}
  /\ job = 0 /\ raw = <<>> /\ strong = <<>> /\ hashed = <<>>

-----------------------------------------------------------------------------
\* The m samples after the s-th, or the low byte of the next one only.
FullSamples(s, m) == [k \in 1..2*m |-> 2 * s + k]
HalfSample(s)     == <<2 * s + 1>>

\* ebg_rand_sync into an aligned buffer: first what is buffered, then samples
\* the generator is waited for: one byte of one to align the destination again,
\* pairs, and one byte for an odd rest.
ebg_rand_sync(b, s, size) ==
  LET pull  == cbuf_pull(b, size)
      left  == size - Len(pull.out)
      align == IF left > 0 THEN Len(pull.out) % 2 ELSE 0
      pairs == (left - align) \div 2
      rest  == (left - align) % 2
  IN [cbuf    |-> pull.cbuf,
      samples |-> s + align + pairs + rest,
      out     |-> pull.out
                  \o (IF align = 1 THEN HalfSample(s) ELSE <<>>)
                  \o FullSamples(s + align, pairs)
                  \o (IF rest = 1 THEN HalfSample(s + align + pairs) ELSE <<>>)]

Digest(n) == [k \in 1..DGST |-> DGST * (n - 1) + k]

\* paranoid_rand_64: COLLECT raw bytes are hashed together with the digest that
\* the previous call left behind them; g is the generator after collecting.
Collected == ebg_rand_sync(ebg_cbuf, samples, COLLECT)

paranoid_rand_64(g) ==
  /\ calls < MaxCalls
  /\ calls' = calls + 1
  /\ hashed' = Append(hashed, prev)
  /\ prev' = calls + 1
  /\ raw' = raw \o g.out

-----------------------------------------------------------------------------
StrongDue == /\ ebg_cbuf.len >= COLLECT
             /\ cbuf_free_space(paranoid_rand_cbuf) >= DGST

\* Once per turn of the main loop: a strong digest when there is enough entropy
\* and room, then a sample if there is room and the generator has one.
ebg_process ==
  LET g == IF StrongDue THEN Collected
           ELSE [cbuf |-> ebg_cbuf, samples |-> samples, out |-> <<>>]
  IN /\ job = 0
     /\ IF StrongDue
          THEN /\ paranoid_rand_64(g)
               /\ paranoid_rand_cbuf' = cbuf_push(paranoid_rand_cbuf, Digest(calls + 1))
          ELSE UNCHANGED <<calls, hashed, prev, raw, paranoid_rand_cbuf>>
     /\ \/ ebg_cbuf' = g.cbuf /\ samples' = g.samples
        \/ /\ g.cbuf.len <= EBG_SIZE - 2 /\ g.samples < MaxSamples
           /\ ebg_cbuf' = cbuf_push(g.cbuf, FullSamples(g.samples, 1))
           /\ samples' = g.samples + 1
     /\ UNCHANGED <<job, strong>>

\* The debug console's "rand raw".
RandRaw(size) ==
  LET g == ebg_rand_sync(ebg_cbuf, samples, size)
  IN /\ job = 0 /\ g.samples <= MaxSamples
     /\ ebg_cbuf' = g.cbuf /\ samples' = g.samples /\ raw' = raw \o g.out
     /\ UNCHANGED <<paranoid_rand_cbuf, calls, prev, job, strong, hashed>>

\* MBOX_CMD_GET_RANDOM without a buffer: what there is, without waiting.
ebg_rand(size) ==
  LET pull == cbuf_pull(ebg_cbuf, MinOf(ebg_cbuf.len, size))
  IN /\ job = 0
     /\ ebg_cbuf' = pull.cbuf /\ raw' = raw \o pull.out
     /\ UNCHANGED <<paranoid_rand_cbuf, samples, calls, prev, job, strong, hashed>>

(***************************************************************************)
(* paranoid_rand: buffered strong bytes, then whole digests, then the      *)
(* beginning of one, whose rest is buffered.                               *)
(***************************************************************************)
paranoid_rand(size) ==
  LET pull == cbuf_pull(paranoid_rand_cbuf, size)
  IN /\ job = 0
     /\ paranoid_rand_cbuf' = pull.cbuf
     /\ strong' = strong \o pull.out
     /\ job' = size - Len(pull.out)
     /\ UNCHANGED <<ebg_cbuf, samples, calls, prev, raw, hashed>>

KeptOf(dgst, size) == SubSeq(dgst, size + 1, DGST)

paranoid_rand_whole ==
  /\ job >= DGST
  /\ Collected.samples <= MaxSamples
  /\ paranoid_rand_64(Collected)
  /\ ebg_cbuf' = Collected.cbuf /\ samples' = Collected.samples
  /\ strong' = strong \o Digest(calls + 1)
  /\ job' = job - DGST
  /\ UNCHANGED paranoid_rand_cbuf

paranoid_rand_rest ==
  /\ job \in 1..DGST-1
  /\ Collected.samples <= MaxSamples
  /\ paranoid_rand_64(Collected)
  /\ ebg_cbuf' = Collected.cbuf /\ samples' = Collected.samples
  /\ strong' = strong \o SubSeq(Digest(calls + 1), 1, job)
  /\ paranoid_rand_cbuf' =
       cbuf_push(paranoid_rand_cbuf, KeptOf(Digest(calls + 1), job))
  /\ job' = 0

Next ==
  \/ ebg_process
  \/ \E n \in RawSizes : RandRaw(n) \/ ebg_rand(n)
  \/ \E n \in StrongSizes : paranoid_rand(n)
  \/ paranoid_rand_whole \/ paranoid_rand_rest

Spec == Init /\ [][Next]_vars

-----------------------------------------------------------------------------
Increasing(s) == \A k \in 1..Len(s)-1 : s[k] < s[k + 1]

\* A raw byte of the generator is used once, and in the order in which the
\* generator gave it, however pushes and pulls wrap (ebg.c:98-151, 170-197).
RawUsedOnce == Increasing(raw \o Content(ebg_cbuf))

\* Every byte of every strong digest is either handed to exactly one caller or
\* waiting, in order: none is handed out twice and none is dropped by a push
\* into a full buffer (ebg.c:158-159, 250-264).
StrongUsedOnce ==
  strong \o Content(paranoid_rand_cbuf) = [k \in 1..calls * DGST |-> k]

\* No byte of either kind is used twice, out of order or, if strong, lost: both
\* of the above (ebg.c:98-197, 250-264).
EveryByteOnce == RawUsedOnce /\ StrongUsedOnce

\* No random byte stays behind in the buffers' memory once it was handed out
\* (the bzero calls, ebg.c:108, 116).
NothingLeftBehind ==
  \A b \in {ebg_cbuf, paranoid_rand_cbuf} :
    \A x \in Unused(b) : b.data[x] \in {Erased, Junk}

\* The first strong digest hashes zeros in the place of the previous one: "if
\* there was no previous call it appends zeros" (ebg.c:214-215).
FirstCallAppendsZeros == hashed # <<>> => hashed[1] = Zeros
=============================================================================
