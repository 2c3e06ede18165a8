------------------------------- MODULE ApMem --------------------------------
(***************************************************************************)
(* How mailbox commands reach the AP's memory (wtmi/main.c).  The firmware *)
(* sees it through one movable window: process_ap_mem cuts a request into  *)
(* pieces, moves the window from piece to piece and puts it back to 0,     *)
(* where everybody else expects it.  cmd_get_random makes one such call,   *)
(* cmd_sign three, with the signature computed after the first.  Addresses *)
(* and lengths are 32-bit words and wrap.                                  *)
(***************************************************************************)
EXTENDS Integers, Sequences

CONSTANTS
  Word,         \* 2^32
  Window,       \* size of the window, 2^30
  RamSizes,     \* the sizes get_ram_size() may find, in bytes; Word is 4 GiB
  Align,        \* alignment check_ap_addr asks for (4)
  Block,        \* length of a message and of half a signature (68)
  RandomAddrs,  \* the addresses the AP passes to cmd_get_random
  RandomLens,   \* and the lengths
  SignAddrs     \* the addresses the AP passes to cmd_sign

ASSUME WindowAssumption == /\ Window \in Nat \ {0} /\ Word \in Nat
                          /\ Word > Window /\ Word % Window = 0
                          /\ Align \in Nat \ {0, 1} /\ Window % Align = 0
                          /\ Block \in 1..Window
                          /\ RamSizes \subseteq 0..Word
                          /\ \A r \in RamSizes : /\ r % Align = 0
                                                 /\ r = Word \/ r + Block < Word
ASSUME ArgsAssumption  == (RandomAddrs \cup RandomLens \cup SignAddrs) \subseteq 0..Word-1

VARIABLES
  ram,          \* the size of the RAM
  win,          \* what window 0 is remapped to
  accesses,     \* the calls of process_ap_mem the last command may make
  frame,        \* which of them runs, with the locals of process_ap_mem
  result,       \* what the last command returned, or "none"
  pieces        \* history: the pieces the callbacks were given, as win was

mvars == <<ram, win, accesses, frame, result, pieces>>

-----------------------------------------------------------------------------
Idle == [pc |-> "idle", k |-> 0, addr |-> 0, len |-> 0, cur |-> 0, par |-> 0]

MInit ==
  /\ ram \in RamSizes
  /\ win = 0
  /\ accesses = <<>> /\ frame = Idle /\ result = "none" /\ pieces = <<>>

At(l) == frame.pc = l
Base(a) == a - (a % Window)                    \* a & 0xc0000000
Lesser(a, b) == IF a < b THEN a ELSE b

check_ap_addr(a, n) ==
  /\ a % Align = 0
  /\ ram # Word => a <= ram /\ (a + n - 1) % Word <= ram

EnterAccess(cs, k) ==
  [pc |-> "enter", k |-> k, addr |-> cs[k].addr, len |-> cs[k].len, cur |-> 0, par |-> 0]

\* Every address is checked before anything is done (mutant: not the last of
\* three).
ForgetsThird(cs) == 1..Lesser(2, Len(cs))
Checked(cs)      == 1..Len(cs)

Command(cs) ==
  /\ At("idle")
  /\ accesses' = cs /\ pieces' = <<>>
  /\ IF \A k \in Checked(cs) : check_ap_addr(cs[k].addr, cs[k].len)
       THEN frame' = EnterAccess(cs, 1) /\ result' = "none"
       ELSE frame' = Idle /\ result' = "EINVAL"
  /\ UNCHANGED <<ram, win>>

Access(d, a, n) == [dir |-> d, addr |-> a, len |-> n]

\* The calls of each command.
cmd_get_random(a, n) == <<Access("out", a, n)>>
cmd_sign(src, r, s)  ==
  <<Access("in", src, Block), Access("out", r, Block), Access("out", s, Block)>>

Commands == {cmd_get_random(a, n) : a \in RandomAddrs, n \in RandomLens} \cup
            {cmd_sign(src, r, s) : src \in SignAddrs, r \in SignAddrs, s \in SignAddrs}

-----------------------------------------------------------------------------
(***************************************************************************)
(* process_ap_mem.                                                         *)
(***************************************************************************)
rwtm_win_remap(b) == win' = b

Fail(x) == frame' = Idle /\ result' = x

\* A request that reaches the end of the address space is refused.
ProcessEnter ==
  LET b == Base(frame.addr) IN
  /\ At("enter")
  /\ IF (frame.addr + frame.len) % Word < frame.addr
       THEN Fail("EIO") /\ UNCHANGED win
       ELSE /\ frame' = [frame EXCEPT !.pc = "piece", !.cur = b] /\ result' = result
            /\ IF b # 0 THEN rwtm_win_remap(b) ELSE UNCHANGED win
  /\ UNCHANGED <<ram, accesses, pieces>>

\* The window of the last byte, of at most one window's worth of bytes.
NewBase == Base((frame.addr + Lesser(frame.len, Window) - 1) % Word)

CurLen == IF frame.cur = NewBase THEN frame.len ELSE (NewBase - frame.addr) % Word

Piece == [k |-> frame.k, base |-> win, off |-> (frame.addr - frame.cur) % Word,
          len |-> CurLen, par |-> frame.par]

\* Mutant: the callback does not move on in its buffer.
SamePar == frame.par
NextPar == frame.par + CurLen

\* A piece that is not the last: on to the beginning of the next window.
ProcessPiece ==
  /\ At("piece") /\ frame.cur # NewBase
  /\ pieces' = Append(pieces, Piece)
  /\ frame' = [frame EXCEPT !.addr = NewBase, !.cur = NewBase, !.par = NextPar,
                            !.len = (@ - CurLen) % Word]
  /\ rwtm_win_remap(NewBase)
  /\ UNCHANGED <<ram, accesses, result>>

\* Mutant: the window is put back only after a request that had to move it.
RestoreIfMoved == IF frame.par # 0 THEN rwtm_win_remap(0) ELSE UNCHANGED win
Restore        == IF frame.cur # 0 THEN rwtm_win_remap(0) ELSE UNCHANGED win

\* The last piece.
ProcessLast ==
  /\ At("piece") /\ frame.cur = NewBase
  /\ pieces' = Append(pieces, Piece)
  /\ frame' = [frame EXCEPT !.pc = "returned"]
  /\ Restore
  /\ UNCHANGED <<ram, accesses, result>>

\* Back in the command: the next call, unless ecdsa_sign fails before it.
Returned ==
  /\ At("returned")
  /\ \/ /\ frame.k < Len(accesses)
        /\ frame' = EnterAccess(accesses, frame.k + 1) /\ result' = result
     \/ accesses[frame.k].dir = "in" /\ Fail("SIGN")
     \/ frame.k = Len(accesses) /\ frame' = Idle /\ result' = "SUCCESS"
  /\ UNCHANGED <<ram, win, accesses, pieces>>

MNext ==
  \/ \E cs \in Commands : Command(cs)
  \/ ProcessEnter \/ ProcessPiece \/ ProcessLast \/ Returned

MSpec == MInit /\ [][MNext]_mvars

-----------------------------------------------------------------------------
\* process_ap_mem works for these; longer or empty requests can be cut wrongly.
Regular(c) == c.len \in 1..Window

PieceAddr(p) == p.base + p.off
Of(k) == {i \in 1..Len(pieces) : pieces[i].k = k}

\* The pieces of a request that was served tile it: each lies in the window as
\* it is mapped at that moment, they follow each other without gap or overlap,
\* in memory and in the firmware's buffer, from its first byte to its last,
\* wherever a window ends (main.c:25-52, 63-64, 74-75).
PieceFits(p)   == p.off + p.len <= Window
Follows(p, q)  == PieceAddr(p) = PieceAddr(q) + q.len /\ p.par = q.par + q.len
Starts(p, c)   == PieceAddr(p) = c.addr /\ p.par = 0
Ends(p, c)     == PieceAddr(p) + p.len = c.addr + c.len

Tiled(k) ==
  LET c == accesses[k] IN
  /\ Of(k) # {}
  /\ \A i \in Of(k) :
       /\ PieceFits(pieces[i])
       /\ IF i - 1 \in Of(k) THEN Follows(pieces[i], pieces[i - 1]) ELSE Starts(pieces[i], c)
       /\ i + 1 \in Of(k) \/ Ends(pieces[i], c)

\* The calls of a command are made one after the other.
CallsInOrder == \A i \in 1..Len(pieces)-1 : pieces[i].k <= pieces[i + 1].k

ServedTiled ==
  At("idle") /\ result = "SUCCESS" =>
    /\ CallsInOrder
    /\ \A k \in 1..Len(accesses) : Regular(accesses[k]) => Tiled(k)

\* Whole words outside the RAM are never touched (main.c:83-96).  The check
\* compares the last byte with the size, so that of a length that is no multiple
\* of the alignment one byte may lie behind the end.
TouchedInsideRam ==
  \A i \in 1..Len(pieces) :
    LET c == accesses[pieces[i].k] IN
    Regular(c) /\ c.len % Align = 0 =>
      PieceAddr(pieces[i]) + pieces[i].len <= ram

\* A request that is served reaches exactly the bytes it names, and none of
\* them lies outside the RAM: both of the above (main.c:25-96).
ServedRequestsTiled == ServedTiled /\ TouchedInsideRam

\* Between commands window 0 is mapped to 0, however the last one ended: the
\* helper, the image loader and cmd_hash use AP_RAM without looking (main.c:51,
\* soc.c:201-213).
WindowRestored == At("idle") => win = 0

\* A command that fails has not written to the AP's memory: all addresses are
\* checked first, so that the second half of a signature cannot fail behind the
\* first (main.c:249-273).  With 4 GiB nothing is checked, and it can.
NothingWrittenOnFailure ==
  At("idle") /\ result # "SUCCESS" /\ ram # Word =>
    \A i \in 1..Len(pieces) : accesses[pieces[i].k].dir # "out"
=============================================================================
