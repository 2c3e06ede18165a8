------------------------------ MODULE UbootEnv ------------------------------
(***************************************************************************)
(* Reading U-Boot's environment (wtmi/uboot-env.c).  The environment, a    *)
(* list of NUL-terminated "name=value" ended by an empty string, is larger *)
(* than the work buffer: uboot_env_for_each reads it piece by piece, goes  *)
(* back to the beginning of a variable that was cut, and skips a variable  *)
(* that does not fit into the buffer at all.  Positions count from behind  *)
(* the CRC.                                                                *)
(***************************************************************************)
EXTENDS Naturals, Sequences, FiniteSets, FiniteSetsExt

CONSTANTS
  Size,         \* bytes of the environment behind the CRC (0xfffc)
  Buffer,       \* sizeof(uboot_env_buffer) (0x2000)
  Contents      \* what may be in flash: functions on 0..Size-1

NUL == 0
EQ  == 1

ASSUME EnvAssumption == /\ Size \in Nat /\ Buffer \in Nat \ {0}
                        /\ Contents \subseteq [0..Size-1 -> Nat]

VARIABLES
  env,            \* the environment in flash
  crc_ok,         \* its CRC is right
  pc,             \* where uboot_env_for_each is
  pos, len,       \* the piece in the buffer
  p,              \* where in the buffer the current variable begins
  ignore_first,   \* the rest of a variable that is too long comes first
  ignored,        \* the result
  passed          \* history: the variables cb was given, as [var, eq, end]

uvars == <<env, crc_ok, pc, pos, len, p, ignore_first, ignored, passed>>

UInit ==
  /\ env \in Contents /\ crc_ok \in BOOLEAN
  /\ pc = "crc" /\ pos = 0 /\ len = 0 /\ p = 0
  /\ ignore_first = FALSE /\ ignored = 0 /\ passed = <<>>

-----------------------------------------------------------------------------
Goto(l) == pc' = l

\* memchr: where x is in the buffer between b and e, or nowhere.
Found(x, b, e)  == {i \in b..e-1 : env[pos + i] = x}
memchr(x, b, e) == Min(Found(x, b, e))

\* uboot_env_check_crc.
CheckCrc ==
  /\ pc = "crc"
  /\ Goto(IF crc_ok THEN "read" ELSE "failed")
  /\ UNCHANGED <<env, crc_ok, pos, len, p, ignore_first, ignored, passed>>

\* Mutant: the last byte of the environment is left out.
ShortLast == IF Size - pos > Buffer THEN Buffer ELSE Size - pos - 1
PieceLen  == IF Size - pos > Buffer THEN Buffer ELSE Size - pos

\* The next piece; the list ends when it begins with an empty string.
ReadPiece ==
  /\ pc = "read" /\ pos < Size
  /\ len' = PieceLen /\ p' = 0
  /\ Goto(IF ~ignore_first /\ env[pos] = NUL THEN "done" ELSE "vars")
  /\ UNCHANGED <<env, crc_ok, pos, ignore_first, ignored, passed>>

ReadEnd ==
  /\ pc = "read" /\ pos >= Size
  /\ Goto("done")
  /\ UNCHANGED <<env, crc_ok, pos, len, p, ignore_first, ignored, passed>>

\* Behind a variable: the next one is in the buffer, or the loop ends.
Advance(z) ==
  /\ p' = z + 1
  /\ Goto(IF p' = len \/ env[pos + p'] = NUL THEN "piece_end" ELSE "vars")

HasEnd == Found(NUL, p, len) # {}

Count == ignored' = ignored + 1

SkipRest ==
  /\ pc = "vars" /\ HasEnd /\ ignore_first
  /\ ignore_first' = FALSE
  /\ Advance(memchr(NUL, p, len))
  /\ UNCHANGED <<env, crc_ok, pos, len, ignored, passed>>

\* find_one_env and print_one_env end the search at the variable they look for;
\* without a name, print_one_env never does.
CallbackEnds == Goto("stopped") /\ p' = p

PassVariable ==
  LET z == memchr(NUL, p, len) IN
  /\ pc = "vars" /\ HasEnd /\ ~ignore_first
  /\ Found(EQ, p, z) # {}
  /\ passed' = Append(passed, [var |-> pos + p, eq |-> pos + memchr(EQ, p, z),
                               end |-> pos + z])
  /\ Advance(z) \/ CallbackEnds
  /\ UNCHANGED <<env, crc_ok, pos, len, ignore_first, ignored>>

NoEqualSign ==
  LET z == memchr(NUL, p, len) IN
  /\ pc = "vars" /\ HasEnd /\ ~ignore_first
  /\ Found(EQ, p, z) = {}
  /\ Count
  /\ Advance(z)
  /\ UNCHANGED <<env, crc_ok, pos, len, ignore_first, passed>>

\* No end of a variable is left in the buffer.
Cut ==
  /\ pc = "vars" /\ ~HasEnd
  /\ Goto("piece_end")
  /\ UNCHANGED <<env, crc_ok, pos, len, p, ignore_first, ignored, passed>>

EmptyString ==
  /\ pc = "piece_end" /\ p < len /\ env[pos + p] = NUL
  /\ Goto("done")
  /\ UNCHANGED <<env, crc_ok, pos, len, p, ignore_first, ignored, passed>>

TooLong ==
  /\ pc = "piece_end" /\ p = 0
  /\ ignore_first' = TRUE
  /\ Count
  /\ pos' = pos + len
  /\ Goto("read")
  /\ UNCHANGED <<env, crc_ok, len, p, passed>>

\* Mutant: on to the end of the buffer.
WholePiece == pos' = pos + len
Reread     == pos' = pos + p

\* The next piece begins with the variable that was cut.
NextPiece ==
  /\ pc = "piece_end" /\ p > 0 /\ ~(p < len /\ env[pos + p] = NUL)
  /\ Reread
  /\ Goto("read")
  /\ UNCHANGED <<env, crc_ok, len, p, ignore_first, ignored, passed>>

Step == \/ CheckCrc \/ ReadPiece \/ ReadEnd \/ SkipRest \/ PassVariable
        \/ NoEqualSign \/ Cut \/ EmptyString \/ TooLong \/ NextPiece

USpec == UInit /\ [][Step]_uvars

-----------------------------------------------------------------------------
(***************************************************************************)
(* What the environment means, without pieces.                             *)
(***************************************************************************)
Ends    == {i \in 0..Size-1 : env[i] = NUL}
Empty   == {i \in Ends : i = 0 \/ env[i - 1] = NUL}
ListEnd == Min(Empty \cup {Size})

\* Where the variables of the list begin, and where the one at s ends.
Begins  == {s \in 0..ListEnd-1 : s = 0 \/ env[s - 1] = NUL}
EndOf(s) == Min({i \in Ends : i >= s} \cup {Size})

Fits(s)  == EndOf(s) < Size /\ EndOf(s) - s + 1 <= Buffer
Valid(s) == \E i \in s..EndOf(s)-1 : env[i] = EQ
Usable   == {s \in Begins : Fits(s) /\ Valid(s)}

Starts   == [i \in 1..Len(passed) |-> passed[i].var]
\* The callback gets every usable variable of the environment once, in order and
\* whole, however the variables lie across the pieces (uboot-env.c:58-111).
UsablePassedInOrder ==
  /\ \A i \in 1..Len(passed) :
       /\ passed[i].var \in Usable
       /\ passed[i].end = EndOf(passed[i].var)
       /\ passed[i].eq = Min({j \in passed[i].var..Size-1 : env[j] = EQ})
  /\ \A i, j \in 1..Len(passed) : i < j => Starts[i] < Starts[j]
  /\ pc = "done" => {Starts[i] : i \in 1..Len(passed)} = Usable
  /\ pc = "stopped" => {s \in Usable : s <= Starts[Len(passed)]}
                         = {Starts[i] : i \in 1..Len(passed)}

\* The result is 0 exactly when no variable was left out (uboot-env.c:90, 105).
IgnoredReported == pc = "done" => (ignored = 0) = (Begins = Usable)

\* Nothing usable is lost in silence: both of the above (uboot-env.c:58-111).
UsablePassed == UsablePassedInOrder /\ IgnoredReported

\* The search ends, whatever is in flash: every piece takes it further, and never
\* behind the end (uboot-env.c:58, 106-110).
PieceAdvances ==
  [][pc = "piece_end" /\ pc' = "read" => pos < pos' /\ pos' <= Size]_uvars
=============================================================================
