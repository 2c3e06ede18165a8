---------------------------- MODULE InputProofs -----------------------------
(***************************************************************************)
(* Proofs about the two readers of what others wrote.  First UbootEnv, for *)
(* every content and size of the environment and every size of the buffer: *)
(* what is passed on and counted does not depend on how the variables lie  *)
(* across the pieces.  Then DebugConsole, for all sizes of its arrays and  *)
(* whatever is typed: nothing leaves an array, and the screen is right.    *)
(***************************************************************************)
EXTENDS UbootEnv, DebugConsole, FiniteSetTheorems, SequenceTheorems, WellFoundedInduction,
        TLAPS

-----------------------------------------------------------------------------
(***************************************************************************)
(* Here is how far the search has got in the environment: between two      *)
(* variables of the list, or inside one that does not fit.  What lies      *)
(* before it has been dealt with, variable by variable.                    *)
(***************************************************************************)
Reading == {"crc", "read", "vars", "piece_end"}
InPiece == {"vars", "piece_end"}
Here    == IF pc \in InPiece THEN pos + p ELSE pos

Entries == [var : Nat, eq : Nat, end : Nat]

EnvTypeOK ==
  /\ env \in Contents /\ crc_ok \in BOOLEAN
  /\ pc \in Reading \cup {"done", "failed", "stopped"}
  /\ pos \in 0..Size /\ len \in 0..Buffer /\ p \in 0..len
  /\ ignore_first \in BOOLEAN /\ ignored \in Nat /\ passed \in Seq(Entries)

\* The piece in the buffer, and why the loop over its variables was left.
PieceInv ==
  /\ pc \in InPiece => pos < Size /\ len = PieceLen /\ (ignore_first => p = 0)
  /\ pc = "vars" => p < len /\ (~ignore_first => env[pos + p] # NUL)
  /\ pc = "piece_end" => /\ p = 0 => ~HasEnd
                         /\ p < len => env[pos + p] = NUL \/ ~HasEnd

\* Where the search is in the list.
BetweenVars == (Here = 0 \/ env[Here - 1] = NUL) /\ Here <= ListEnd
Inside  == \E s \in Begins : s < Here /\ ~Fits(s) /\ Here <= EndOf(s)
WhereInv == pc \in Reading => IF ignore_first THEN Inside ELSE BetweenVars

\* What has been passed on and counted.
Passed  == {Starts[i] : i \in 1..Len(passed)}
Handled == {s \in Begins : s < Here}
PassedInv ==
  /\ \A i \in 1..Len(passed) :
       /\ passed[i].var \in Usable
       /\ passed[i].end = EndOf(passed[i].var)
       /\ passed[i].eq = Min({j \in passed[i].var..Size-1 : env[j] = EQ})
  /\ \A i, j \in 1..Len(passed) : i < j => Starts[i] < Starts[j]
CountInv == pc \in Reading => /\ Passed = Handled \cap Usable
                              /\ (ignored = 0) = (Handled \subseteq Usable)
EndInv ==
  /\ pc = "done" => Passed = Usable /\ (ignored = 0) = (Begins = Usable)
  /\ pc = "stopped" => {s \in Usable : s <= Starts[Len(passed)]} = Passed

EnvInv == EnvTypeOK /\ PieceInv /\ WhereInv /\ PassedInv /\ CountInv /\ EndInv

-----------------------------------------------------------------------------
\* A set of natural numbers has a least element.
LEMMA MinIn ==
  ASSUME NEW S, S \subseteq Nat, S # {}
  PROVE Min(S) \in S /\ \A j \in S : Min(S) <= j
<1> DEFINE R == OpToRel(<, Nat)
<1>1. IsWellFoundedOn(R, Nat)
  BY NatLessThanWellFounded
<1>2. \A x, y \in Nat : x < y => <<x, y>> \in R
  BY DEF OpToRel
<1> HIDE DEF R
<1>3. PICK i \in S : \A y \in S : ~(<<y, i>> \in R)
  BY <1>1, WFMin
<1>4. \A j \in S : i <= j
  <2> SUFFICES ASSUME NEW j \in S PROVE i <= j
    OBVIOUS
  <2>1. i \in Nat /\ j \in Nat
    OBVIOUS
  <2>2. ~(j < i)
    BY <1>2, <1>3, <2>1
  <2> QED BY <2>1, <2>2
<1> QED BY <1>4 DEF Min

\* And only one.
LEMMA MinIs ==
  ASSUME NEW S, S \subseteq Nat, NEW m \in S, \A j \in S : m <= j
  PROVE Min(S) = m
<1>1. Min(S) \in S /\ \A j \in S : Min(S) <= j
  BY MinIn
<1>2. Min(S) \in Nat /\ m \in Nat /\ Min(S) <= m /\ m <= Min(S)
  BY <1>1
<1> QED BY <1>2

\* What EndOf says: the first NUL from s on, or the end of the environment.
LEMMA EndOfIs ==
  ASSUME EnvTypeOK, NEW s \in 0..Size
  PROVE /\ EndOf(s) \in s..Size
        /\ \A j \in s..EndOf(s)-1 : env[j] # NUL
        /\ EndOf(s) < Size => env[EndOf(s)] = NUL
<1> DEFINE S == {i \in Ends : i >= s} \cup {Size}
<1>1. Size \in Nat /\ Ends \subseteq 0..Size-1 /\ S \subseteq Nat /\ S # {}
  BY EnvAssumption DEF Ends
<1>2. EndOf(s) \in S /\ \A j \in S : EndOf(s) <= j
  BY <1>1, MinIn DEF EndOf
<1>3. \A i \in S : i \in s..Size /\ (i < Size => env[i] = NUL)
  BY <1>1 DEF Ends
<1>4. ASSUME NEW j \in s..EndOf(s)-1, env[j] = NUL PROVE FALSE
  <2>1. j \in 0..Size-1 /\ j >= s /\ j < EndOf(s)
    BY <1>1, <1>2, <1>3, <1>4
  <2>2. j \in S
    BY <2>1, <1>4 DEF Ends
  <2> QED BY <2>1, <2>2, <1>1, <1>2, <1>3
<1> QED BY <1>2, <1>3, <1>4

\* Conversely, the first NUL is where the variable ends.
LEMMA EndFound ==
  ASSUME EnvTypeOK, NEW s \in 0..Size-1, NEW m \in s..Size-1, env[m] = NUL,
         \A j \in s..m-1 : env[j] # NUL
  PROVE EndOf(s) = m
<1>1. Size \in Nat /\ s \in 0..Size
  BY EnvAssumption
<1>2. EndOf(s) \in s..Size /\ (EndOf(s) < Size => env[EndOf(s)] = NUL)
  BY <1>1, EndOfIs
<1>3. ~(EndOf(s) > m)
  BY <1>1, EndOfIs
<1>4. ~(EndOf(s) < m)
  <2> SUFFICES ASSUME EndOf(s) < m PROVE FALSE
    OBVIOUS
  <2>1. EndOf(s) \in s..m-1 /\ EndOf(s) < Size
    BY <1>1, <1>2
  <2> QED BY <2>1, <1>2
<1> QED BY <1>1, <1>2, <1>3, <1>4

\* The list ends at the first empty string, or with the environment.
LEMMA ListEndIs ==
  ASSUME EnvTypeOK
  PROVE /\ ListEnd \in 0..Size
        /\ ListEnd < Size => env[ListEnd] = NUL /\ (ListEnd = 0 \/ env[ListEnd - 1] = NUL)
        /\ \A i \in 0..Size-1 : env[i] = NUL /\ (i = 0 \/ env[i - 1] = NUL) => ListEnd <= i
<1> DEFINE S == Empty \cup {Size}
<1>1. Size \in Nat /\ Empty \subseteq 0..Size-1 /\ S \subseteq Nat /\ S # {}
  BY EnvAssumption DEF Empty, Ends
<1>2. ListEnd \in S /\ \A j \in S : ListEnd <= j
  BY <1>1, MinIn DEF ListEnd
<1>3. \A i \in 0..Size-1 : env[i] = NUL /\ (i = 0 \/ env[i - 1] = NUL) => i \in Empty
  BY DEF Empty, Ends
<1>4. \A i \in Empty : env[i] = NUL /\ (i = 0 \/ env[i - 1] = NUL)
  BY DEF Empty, Ends
<1> QED BY <1>1, <1>2, <1>3, <1>4

\* A variable is not empty.
LEMMA NotEmpty ==
  ASSUME EnvTypeOK, NEW s \in Begins
  PROVE s \in 0..Size-1 /\ s < ListEnd /\ env[s] # NUL
<1>1. Size \in Nat /\ ListEnd \in 0..Size
  BY EnvAssumption, ListEndIs
<1>2. s \in 0..Size-1 /\ s < ListEnd /\ (s = 0 \/ env[s - 1] = NUL)
  BY <1>1 DEF Begins
<1>3. env[s] # NUL
  <2> SUFFICES ASSUME env[s] = NUL PROVE FALSE
    OBVIOUS
  <2>1. ListEnd <= s
    BY <1>2, ListEndIs
  <2> QED BY <1>1, <1>2, <2>1
<1> QED BY <1>2, <1>3

\* A place between two variables that is not the end of the list begins one.
LEMMA BeginsAt ==
  ASSUME EnvTypeOK, NEW b \in 0..Size-1, b <= ListEnd, b = 0 \/ env[b - 1] = NUL,
         env[b] # NUL
  PROVE b \in Begins
<1>1. Size \in Nat /\ ListEnd \in 0..Size /\ (ListEnd < Size => env[ListEnd] = NUL)
  BY EnvAssumption, ListEndIs
<1>2. b # ListEnd
  BY <1>1
<1>3. b \in 0..ListEnd-1
  BY <1>1, <1>2
<1> QED BY <1>3 DEF Begins

\* Behind a variable that ends, the list goes on.
LEMMA BehindVariable ==
  ASSUME EnvTypeOK, NEW s \in Begins, EndOf(s) < Size
  PROVE EndOf(s) + 1 <= ListEnd /\ env[EndOf(s)] = NUL /\ s < EndOf(s)
<1>1. Size \in Nat /\ s \in 0..Size-1 /\ s \in 0..Size /\ s < ListEnd /\ env[s] # NUL
  BY EnvAssumption, NotEmpty
<1> DEFINE m == EndOf(s)
<1>2. m \in s..Size /\ env[m] = NUL /\ \A j \in s..m-1 : env[j] # NUL
  BY <1>1, EndOfIs
<1> HIDE DEF m
<1>3. s < m /\ m - 1 \in s..m-1
  <2>1. m # s
    BY <1>1, <1>2
  <2> QED BY <2>1, <1>1, <1>2
<1>4. env[m - 1] # NUL
  BY <1>2, <1>3
<1>5. ListEnd \in 0..Size
      /\ (ListEnd < Size => env[ListEnd] = NUL /\ (ListEnd = 0 \/ env[ListEnd - 1] = NUL))
  BY ListEndIs
<1>6. ~(ListEnd < m)
  <2> SUFFICES ASSUME ListEnd < m PROVE FALSE
    OBVIOUS
  <2>1. ListEnd \in s..m-1 /\ ListEnd < Size
    BY <1>1, <1>2, <1>5
  <2> QED BY <2>1, <1>2, <1>5
<1>7. ListEnd # m
  <2> SUFFICES ASSUME ListEnd = m PROVE FALSE
    OBVIOUS
  <2>1. ListEnd < Size /\ ListEnd # 0
    BY <1>1, <1>3, EndOf(s) < Size DEF m
  <2> QED BY <2>1, <1>4, <1>5
<1>8. m + 1 <= ListEnd
  BY <1>1, <1>2, <1>5, <1>6, <1>7
<1> QED BY <1>8, <1>2, <1>3 DEF m

\* From a on no variable begins until a NUL has been passed.
LEMMA NoneBetween ==
  ASSUME EnvTypeOK, NEW a \in 0..Size, NEW b \in 0..Size, a < b,
         \A j \in a..b-2 : env[j] # NUL
  PROVE {s \in Begins : s < b} = {s \in Begins : s < a} \cup ({a} \cap Begins)
<1>1. Size \in Nat /\ ListEnd \in 0..Size
  BY EnvAssumption, ListEndIs
<1>2. ASSUME NEW s \in Begins, s < b, ~(s < a), s # a PROVE FALSE
  <2>1. s \in 0..Size-1 /\ (s = 0 \/ env[s - 1] = NUL)
    BY <1>1 DEF Begins
  <2>2. s # 0 /\ s - 1 \in a..b-2
    BY <1>1, <1>2, <2>1
  <2> QED BY <2>1, <2>2
<1>3. \A s \in Begins : s \in Nat /\ (s < a => s < b)
  BY <1>1 DEF Begins
<1> QED BY <1>2, <1>3

\* memchr finds the first one.
LEMMA Memchr ==
  ASSUME NEW x, NEW b \in Nat, NEW e \in Nat, Found(x, b, e) # {}
  PROVE /\ memchr(x, b, e) \in b..e-1 /\ env[pos + memchr(x, b, e)] = x
        /\ \A i \in b..memchr(x, b, e)-1 : env[pos + i] # x
<1>1. Found(x, b, e) \subseteq Nat
  BY DEF Found
<1> DEFINE m == memchr(x, b, e)
<1>2. m \in Found(x, b, e) /\ \A i \in Found(x, b, e) : m <= i
  BY <1>1, MinIn DEF memchr
<1> HIDE DEF m
<1>3. m \in b..e-1 /\ env[pos + m] = x
  BY <1>2 DEF Found
<1>4. ASSUME NEW i \in b..m-1, env[pos + i] = x PROVE FALSE
  <2>1. i \in b..e-1 /\ i < m
    BY <1>3, <1>4
  <2>2. i \in Found(x, b, e)
    BY <2>1, <1>4 DEF Found
  <2> QED BY <2>1, <2>2, <1>2, <1>3
<1> QED BY <1>3, <1>4 DEF m

-----------------------------------------------------------------------------
\* What is said of the environment says it of the next state too.
LEMMA SameEnv ==
  ASSUME env' = env
  PROVE /\ ListEnd' = ListEnd /\ Begins' = Begins /\ Usable' = Usable
        /\ \A s : EndOf(s)' = EndOf(s) /\ Fits(s)' = Fits(s)
<1>1. Ends' = Ends /\ Empty' = Empty
  BY DEF Ends, Empty
<1>2. ListEnd' = ListEnd /\ \A s : EndOf(s)' = EndOf(s)
  BY <1>1 DEF ListEnd, EndOf
<1>3. Begins' = Begins
  BY <1>2 DEF Begins
<1>4. \A s : Fits(s)' = Fits(s) /\ Valid(s)' = Valid(s)
  BY <1>2 DEF Fits, Valid
<1>5. Usable' = Usable
  BY <1>3, <1>4 DEF Usable
<1> QED BY <1>2, <1>3, <1>4, <1>5

\* A piece is not empty and stays within the environment.
LEMMA PieceFits ==
  ASSUME EnvTypeOK, pos < Size
  PROVE PieceLen \in 1..Buffer /\ pos + PieceLen <= Size
        /\ (PieceLen = Buffer \/ pos + PieceLen = Size)
<1>1. Size \in Nat /\ Buffer \in Nat \ {0} /\ pos \in 0..Size
  BY EnvAssumption DEF EnvTypeOK
<1>2. CASE Size - pos > Buffer
  BY <1>1, <1>2 DEF PieceLen
<1>3. CASE ~(Size - pos > Buffer)
  BY <1>1, <1>3 DEF PieceLen
<1> QED BY <1>2, <1>3

\* Types of what the steps compute with.
LEMMA EnvTypes ==
  ASSUME EnvTypeOK
  PROVE /\ Size \in Nat /\ Buffer \in Nat \ {0} /\ pos \in Nat /\ p \in Nat /\ len \in Nat
        /\ pos <= Size /\ p <= len /\ len <= Buffer /\ ignored \in Nat
        /\ ignore_first \in BOOLEAN /\ passed \in Seq(Entries) /\ env \in Contents
  BY EnvAssumption DEF EnvTypeOK

\* The history only changes when a variable is passed on.
LEMMA SamePassed ==
  ASSUME PassedInv, env' = env, passed' = passed
  PROVE PassedInv' /\ Passed' = Passed
<1>1. Usable' = Usable /\ (\A s : EndOf(s)' = EndOf(s)) /\ Starts' = Starts
  BY SameEnv DEF Starts
<1>2. Passed' = Passed
  BY <1>1 DEF Passed
<1>3. PassedInv'
  BY <1>1 DEF PassedInv
<1> QED BY <1>2, <1>3

\* Behind a variable that ends in the buffer: the variable dealt with, if it is
\* one, is all that is added to what has been dealt with.
LEMMA Behind ==
  ASSUME EnvTypeOK, PieceInv, pc = "vars",
         NEW z \in p..len-1, Advance(z), \A i \in p..z-1 : env[pos + i] # NUL,
         NEW s \in Begins, s <= Here, EndOf(s) = pos + z,
         env' = env, crc_ok' = crc_ok, pos' = pos, len' = len, ~ignore_first'
  PROVE /\ PieceInv' /\ WhereInv' /\ pc' \in InPiece /\ p' \in 0..len'
        /\ Handled' = Handled \cup ({Here} \cap Begins)
<1>1. /\ Size \in Nat /\ pos \in Nat /\ p \in Nat /\ len \in Nat /\ z \in Nat /\ p <= z /\ z < len
      /\ pos < Size /\ len = PieceLen /\ pos + len <= Size
  BY EnvTypes, PieceFits DEF PieceInv, InPiece
<1>2. Here = pos + p
  BY DEF Here, InPiece
<1>3. p' = z + 1 /\ pc' \in InPiece /\ (pc' = "vars" => p' # len /\ env[pos + p'] # NUL)
      /\ (pc' = "piece_end" => p' = len \/ env[pos + p'] = NUL)
  BY DEF Advance, Goto, InPiece
<1>4. Here' = pos + z + 1
  BY <1>1, <1>3 DEF Here
<1>5. PieceLen' = PieceLen
  BY DEF PieceLen
<1>6. PieceInv'
  <2>1. p' # 0 /\ p' <= len
    BY <1>1, <1>3
  <2>2. (pc \in InPiece => pos < Size /\ len = PieceLen /\ (ignore_first => p = 0))'
    BY <1>1, <1>5
  <2>3. (pc = "vars" => p < len /\ (~ignore_first => env[pos + p] # NUL))'
    BY <1>1, <1>3, <2>1
  <2>4. (pc = "piece_end" => /\ p = 0 => ~HasEnd
                             /\ p < len => env[pos + p] = NUL \/ ~HasEnd)'
    BY <1>1, <1>3, <2>1
  <2> QED BY <2>2, <2>3, <2>4 DEF PieceInv
<1>7. EndOf(s) < Size
  BY <1>1
<1>8. pos + z + 1 <= ListEnd /\ env[pos + z] = NUL
  <2>1. EndOf(s) + 1 <= ListEnd /\ env[EndOf(s)] = NUL
    BY <1>7, BehindVariable
  <2> QED BY <2>1, <1>1
<1>9. WhereInv'
  <2>1. Here' - 1 = pos + z /\ Here' <= ListEnd
    BY <1>1, <1>4, <1>8
  <2>2. env'[Here' - 1] = NUL /\ Here' <= ListEnd'
    BY <2>1, <1>8, SameEnv
  <2> QED BY <2>2 DEF WhereInv, BetweenVars
<1>10. Handled' = Handled \cup ({Here} \cap Begins)
  <2>1. Here \in 0..Size /\ pos + z + 1 \in 0..Size /\ Here < pos + z + 1
    BY <1>1, <1>2
  <2>2. \A j \in Here..(pos + z + 1)-2 : env[j] # NUL
    <3> SUFFICES ASSUME NEW j \in Here..(pos + z + 1)-2 PROVE env[j] # NUL
      OBVIOUS
    <3>1. j - pos \in p..z-1 /\ pos + (j - pos) = j
      BY <1>1, <1>2
    <3> QED BY <3>1
  <2>3. {t \in Begins : t < pos + z + 1} = {t \in Begins : t < Here} \cup ({Here} \cap Begins)
    BY <2>1, <2>2, NoneBetween
  <2>4. Handled' = {t \in Begins : t < pos + z + 1}
    BY <1>4, SameEnv DEF Handled
  <2> QED BY <2>3, <2>4 DEF Handled
<1> QED BY <1>1, <1>3, <1>6, <1>9, <1>10

\* The variable at Here, when it ends in the buffer: what the code finds of it.
LEMMA AtVariable ==
  ASSUME EnvTypeOK, PieceInv, WhereInv, pc = "vars", HasEnd, ~ignore_first
  PROVE LET z == memchr(NUL, p, len) IN
        /\ z \in p..len-1 /\ \A i \in p..z-1 : env[pos + i] # NUL
        /\ Here \in Begins /\ EndOf(Here) = pos + z /\ Fits(Here) /\ p < z
<1> DEFINE z == memchr(NUL, p, len)
<1>1. /\ Size \in Nat /\ pos \in Nat /\ p \in Nat /\ len \in Nat /\ Buffer \in Nat
      /\ pos < Size /\ pos + len <= Size /\ len <= Buffer /\ p < len
      /\ env[pos + p] # NUL /\ Here = pos + p
  BY EnvTypes, PieceFits DEF PieceInv, InPiece, Here
<1>2. z \in p..len-1 /\ env[pos + z] = NUL /\ \A i \in p..z-1 : env[pos + i] # NUL
  BY <1>1, Memchr DEF HasEnd
<1> HIDE DEF z
<1>3. Here \in Begins
  <2>1. (Here = 0 \/ env[Here - 1] = NUL) /\ Here <= ListEnd
    BY DEF WhereInv, BetweenVars, Reading
  <2>2. Here \in 0..Size-1
    BY <1>1
  <2> QED BY <1>1, <2>1, <2>2, BeginsAt
<1>4. EndOf(Here) = pos + z
  <2>1. Here \in 0..Size-1 /\ pos + z \in Here..Size-1
    BY <1>1, <1>2
  <2>2. \A j \in Here..(pos + z)-1 : env[j] # NUL
    <3> SUFFICES ASSUME NEW j \in Here..(pos + z)-1 PROVE env[j] # NUL
      OBVIOUS
    <3>1. j - pos \in p..z-1 /\ pos + (j - pos) = j
      BY <1>1, <1>2
    <3> QED BY <3>1, <1>2
  <2> QED BY <2>1, <2>2, <1>2, EndFound
<1>5. Fits(Here)
  <2>1. EndOf(Here) < Size /\ EndOf(Here) - Here + 1 <= Buffer
    BY <1>1, <1>2, <1>4
  <2> QED BY <2>1 DEF Fits
<1>6. p < z
  <2>1. p # z
    BY <1>1, <1>2
  <2> QED BY <2>1, <1>1, <1>2
<1> QED BY <1>2, <1>3, <1>4, <1>5, <1>6 DEF z

-----------------------------------------------------------------------------
\* The rest of a variable that is too long.
LEMMA SkipRestStep == ASSUME EnvInv, SkipRest PROVE EnvInv'
<1> DEFINE z == memchr(NUL, p, len)
<1> USE DEF EnvInv
<1>1. /\ pc = "vars" /\ HasEnd /\ ignore_first /\ ~ignore_first' /\ Advance(z)
      /\ env' = env /\ crc_ok' = crc_ok /\ pos' = pos /\ len' = len /\ ignored' = ignored
      /\ passed' = passed /\ ignore_first' = FALSE
  BY DEF SkipRest
<1>2. /\ Size \in Nat /\ pos \in Nat /\ p \in Nat /\ len \in Nat
      /\ pos < Size /\ pos + len <= Size /\ p < len /\ Here = pos + p
  BY <1>1, EnvTypes, PieceFits DEF PieceInv, InPiece, Here
<1>3. z \in p..len-1 /\ env[pos + z] = NUL /\ \A i \in p..z-1 : env[pos + i] # NUL
  BY <1>1, <1>2, Memchr DEF HasEnd
<1> HIDE DEF z
<1>4. PICK s \in Begins : s < Here /\ ~Fits(s) /\ Here <= EndOf(s)
  BY <1>1 DEF WhereInv, Inside, Reading
<1>5. s \in 0..Size-1 /\ s \in 0..Size
  BY NotEmpty, <1>2
<1>6. \A j \in s..EndOf(s)-1 : env[j] # NUL
  BY <1>5, EndOfIs
<1>7. EndOf(s) \in s..Size
  BY <1>5, EndOfIs
<1>8. EndOf(s) = pos + z
  <2>1. pos + z \in s..Size-1
    BY <1>2, <1>3, <1>4, <1>5
  <2>2. \A j \in s..(pos + z)-1 : env[j] # NUL
    <3> SUFFICES ASSUME NEW j \in s..(pos + z)-1 PROVE env[j] # NUL
      OBVIOUS
    <3>1. CASE j < Here
      <4>1. j \in s..EndOf(s)-1
        BY <3>1, <1>2, <1>4, <1>5, <1>7
      <4> QED BY <4>1, <1>6
    <3>2. CASE ~(j < Here)
      <4>1. j - pos \in p..z-1 /\ pos + (j - pos) = j
        BY <3>2, <1>2, <1>3, <1>5
      <4> QED BY <4>1, <1>3
    <3> QED BY <3>1, <3>2
  <2> QED BY <2>1, <2>2, <1>3, <1>5, EndFound
<1>9. s <= Here
  BY <1>2, <1>4, <1>5
<1>10. /\ PieceInv' /\ WhereInv' /\ pc' \in InPiece /\ p' \in 0..len'
       /\ Handled' = Handled \cup ({Here} \cap Begins)
  BY <1>1, <1>3, <1>8, <1>9, Behind
<1>11. ~(Here \in Begins)
  <2>1. Here # 0 /\ Here - 1 \in s..EndOf(s)-1
    BY <1>2, <1>4, <1>5, <1>7
  <2>2. env[Here - 1] # NUL
    BY <2>1, <1>6
  <2> QED BY <2>1, <2>2 DEF Begins
<1>12. Handled' = Handled
  BY <1>10, <1>11
<1>13. Usable' = Usable /\ PassedInv' /\ Passed' = Passed
  BY <1>1, SameEnv, SamePassed
<1>14. CountInv'
  <2>1. pc \in Reading /\ ignored' = ignored
    BY <1>1 DEF Reading
  <2> QED BY <1>12, <1>13, <2>1 DEF CountInv
<1>15. EnvTypeOK'
  BY <1>1, <1>10 DEF EnvTypeOK, InPiece, Reading
<1>16. EndInv'
  BY <1>10 DEF EndInv, InPiece
<1> QED BY <1>10, <1>13, <1>14, <1>15, <1>16

\* The equals sign that the code finds is the first one behind the beginning.
LEMMA FirstEq ==
  ASSUME EnvTypeOK, pc \in InPiece, NEW z \in p..len-1, pos + len <= Size, Found(EQ, p, z) # {}
  PROVE LET e == pos + memchr(EQ, p, z) IN
        /\ e \in Here..(pos + z)-1 /\ env[e] = EQ
        /\ e = Min({j \in Here..Size-1 : env[j] = EQ})
<1> DEFINE m == memchr(EQ, p, z)
           S == {j \in Here..Size-1 : env[j] = EQ}
<1>1. /\ Size \in Nat /\ pos \in Nat /\ p \in Nat /\ len \in Nat /\ z \in Nat /\ z < len
      /\ Here = pos + p
  BY EnvTypes DEF Here
<1>2. m \in p..z-1 /\ env[pos + m] = EQ /\ \A i \in p..m-1 : env[pos + i] # EQ
  BY <1>1, Memchr
<1> HIDE DEF m
<1>3. pos + m \in Here..(pos + z)-1 /\ pos + m \in Here..Size-1
  BY <1>1, <1>2
<1>4. pos + m \in S /\ S \subseteq Nat
  BY <1>1, <1>2, <1>3
<1>5. \A j \in S : pos + m <= j
  <2> SUFFICES ASSUME NEW j \in Here..Size-1, env[j] = EQ, j < pos + m PROVE FALSE
    BY <1>1, <1>2
  <2>1. j - pos \in p..m-1 /\ pos + (j - pos) = j
    BY <1>1, <1>2
  <2> QED BY <2>1, <1>2
<1>6. Min(S) = pos + m
  BY <1>4, <1>5, MinIs
<1> QED BY <1>2, <1>3, <1>6 DEF m

\* One more variable in the history, behind all the others.
LEMMA PassedMore ==
  ASSUME PassedInv, passed \in Seq(Entries), env' = env, NEW e \in Entries,
         passed' = Append(passed, e), e.var \in Usable, e.end = EndOf(e.var),
         e.eq = Min({j \in e.var..Size-1 : env[j] = EQ}),
         \A s \in Passed : s < e.var
  PROVE /\ PassedInv' /\ Passed' = Passed \cup {e.var}
        /\ Starts'[Len(passed')] = e.var
<1> DEFINE n == Len(passed)
<1>1. n \in Nat /\ Len(passed') = n + 1 /\ passed'[n + 1] = e
      /\ \A i \in 1..n : passed'[i] = passed[i]
  OBVIOUS
<1> HIDE DEF n
<1>2. \A i \in 1..n+1 : i \in 1..n \/ i = n + 1
  BY <1>1
<1>3. \A i \in 1..n : Starts[i] = passed[i].var /\ Starts'[i] = Starts[i]
  BY <1>1 DEF Starts, n
<1>4. Starts'[n + 1] = e.var
  BY <1>1 DEF Starts
<1>5. Passed = {Starts[i] : i \in 1..n}
  BY DEF Passed, n
<1>6. Passed' = {Starts'[i] : i \in 1..n+1}
  BY <1>1 DEF Passed
<1>7. Passed' = Passed \cup {e.var}
  <2>1. \A i \in 1..n : i \in 1..n+1
    BY <1>1
  <2>2. n + 1 \in 1..n+1
    BY <1>1
  <2> QED BY <2>1, <2>2, <1>2, <1>3, <1>4, <1>5, <1>6
<1>8. Usable' = Usable /\ \A s : EndOf(s)' = EndOf(s)
  BY SameEnv
<1>9. \A i \in 1..n+1 : /\ passed'[i].var \in Usable
                        /\ passed'[i].end = EndOf(passed'[i].var)
                        /\ passed'[i].eq = Min({j \in passed'[i].var..Size-1 : env[j] = EQ})
  BY <1>1, <1>2 DEF PassedInv, n
<1>10. \A i, j \in 1..n+1 : i < j => Starts'[i] < Starts'[j]
  <2> SUFFICES ASSUME NEW i \in 1..n+1, NEW j \in 1..n+1, i < j
               PROVE Starts'[i] < Starts'[j]
    OBVIOUS
  <2>1. i \in 1..n
    BY <1>1, <1>2
  <2>2. CASE j \in 1..n
    BY <2>1, <2>2, <1>3 DEF PassedInv, n
  <2>3. CASE j = n + 1
    <3>1. Starts[i] \in Passed
      BY <2>1, <1>5
    <3> QED BY <3>1, <2>1, <2>3, <1>3, <1>4
  <2> QED BY <2>2, <2>3, <1>2
<1>11. PassedInv'
  BY <1>1, <1>8, <1>9, <1>10 DEF PassedInv
<1> QED BY <1>1, <1>4, <1>7, <1>11

\* A variable is passed on; the callback may end the search there.
LEMMA PassVariableStep == ASSUME EnvInv, PassVariable PROVE EnvInv'
<1> DEFINE z == memchr(NUL, p, len)
           e == [var |-> pos + p, eq |-> pos + memchr(EQ, p, z), end |-> pos + z]
<1> USE DEF EnvInv
<1>1. /\ pc = "vars" /\ HasEnd /\ ~ignore_first /\ ignore_first' = ignore_first
      /\ Found(EQ, p, z) # {} /\ (Advance(z) \/ CallbackEnds) /\ passed' = Append(passed, e)
      /\ env' = env /\ crc_ok' = crc_ok /\ pos' = pos /\ len' = len /\ ignored' = ignored
  BY DEF PassVariable
<1>2. /\ Size \in Nat /\ pos \in Nat /\ p \in Nat /\ len \in Nat /\ Here = pos + p
      /\ pos < Size /\ pos + len <= Size /\ passed \in Seq(Entries)
  BY <1>1, EnvTypes, PieceFits DEF PieceInv, InPiece, Here
<1>3. /\ z \in p..len-1 /\ \A i \in p..z-1 : env[pos + i] # NUL
      /\ Here \in Begins /\ EndOf(Here) = pos + z /\ Fits(Here)
  BY <1>1, AtVariable
<1>4. /\ e.eq \in Here..(pos + z)-1 /\ env[e.eq] = EQ
      /\ e.eq = Min({j \in Here..Size-1 : env[j] = EQ})
  <2>1. pc \in InPiece
    BY <1>1 DEF InPiece
  <2> QED BY <1>1, <1>2, <1>3, <2>1, FirstEq
<1>5. e.var = Here /\ e.end = pos + z
  BY <1>2
<1>6. e \in Entries
  <2>1. e.var \in Nat /\ e.eq \in Nat /\ e.end \in Nat
    BY <1>2, <1>3, <1>4, <1>5
  <2> QED BY <2>1 DEF Entries
<1> HIDE DEF e, z
<1>7. Here \in Usable
  BY <1>3, <1>4 DEF Usable, Valid
<1>8. Passed = Handled \cap Usable /\ (ignored = 0) = (Handled \subseteq Usable)
  BY <1>1 DEF CountInv, Reading
<1>9. /\ PassedInv' /\ Passed' = Passed \cup {Here} /\ Starts'[Len(passed')] = Here
  <2>1. \A s \in Passed : s < e.var
    BY <1>5, <1>8 DEF Handled
  <2> QED BY <1>1, <1>2, <1>3, <1>4, <1>5, <1>6, <1>7, <2>1, PassedMore
<1>10. passed' \in Seq(Entries)
  BY <1>1, <1>2, <1>6
<1>11. Usable' = Usable
  BY <1>1, SameEnv
<1>12. CASE Advance(z)
  <2>1. Here <= Here /\ ~ignore_first'
    BY <1>1, <1>2
  <2>2. /\ PieceInv' /\ WhereInv' /\ pc' \in InPiece /\ p' \in 0..len'
        /\ Handled' = Handled \cup ({Here} \cap Begins)
    BY <1>1, <1>3, <1>12, <2>1, Behind
  <2>3. CountInv'
    BY <1>1, <1>3, <1>7, <1>8, <1>9, <1>11, <2>2 DEF CountInv
  <2>4. EnvTypeOK'
    BY <1>1, <1>10, <2>2 DEF EnvTypeOK, InPiece, Reading
  <2>5. EndInv'
    BY <2>2 DEF EndInv, InPiece
  <2> QED BY <1>9, <2>2, <2>3, <2>4, <2>5
<1>13. CASE CallbackEnds
  <2>1. pc' = "stopped" /\ p' = p
    BY <1>13 DEF CallbackEnds, Goto
  <2>2. PieceInv' /\ WhereInv' /\ CountInv'
    BY <2>1 DEF PieceInv, WhereInv, CountInv, InPiece, Reading
  <2>3. {s \in Usable : s <= Here} = Passed \cup {Here}
    <3>1. \A s \in Usable : s <= Here => s \in Handled \/ s = Here
      <4>1. \A s \in Usable : s \in Nat /\ s \in Begins
        BY <1>2, NotEmpty DEF Usable
      <4> QED BY <4>1, <1>2 DEF Handled
    <3>2. \A s \in Handled : s <= Here
      <4>1. \A s \in Handled : s \in Nat /\ s < Here
        BY <1>2, NotEmpty DEF Handled
      <4> QED BY <4>1, <1>2
    <3>3. Here <= Here
      BY <1>2
    <3> QED BY <3>1, <3>2, <3>3, <1>7, <1>8
  <2>4. EndInv'
    BY <1>9, <1>11, <2>1, <2>3 DEF EndInv
  <2>5. EnvTypeOK'
    BY <1>1, <1>10, <2>1 DEF EnvTypeOK
  <2> QED BY <1>9, <2>2, <2>4, <2>5
<1> QED BY <1>1, <1>12, <1>13

\* A variable without an equals sign is counted.
LEMMA NoEqualSignStep == ASSUME EnvInv, NoEqualSign PROVE EnvInv'
<1> DEFINE z == memchr(NUL, p, len)
<1> USE DEF EnvInv
<1>1. /\ pc = "vars" /\ HasEnd /\ ~ignore_first /\ ignore_first' = ignore_first
      /\ Found(EQ, p, z) = {} /\ Advance(z) /\ passed' = passed /\ ignored' = ignored + 1
      /\ env' = env /\ crc_ok' = crc_ok /\ pos' = pos /\ len' = len
  BY DEF NoEqualSign, Count
<1>2. /\ Size \in Nat /\ pos \in Nat /\ p \in Nat /\ len \in Nat /\ Here = pos + p
      /\ ignored \in Nat
  BY <1>1, EnvTypes DEF InPiece, Here
<1>3. /\ z \in p..len-1 /\ \A i \in p..z-1 : env[pos + i] # NUL
      /\ Here \in Begins /\ EndOf(Here) = pos + z
  BY <1>1, AtVariable
<1>4. ~(Here \in Usable)
  <2> SUFFICES ASSUME NEW i \in Here..(pos + z)-1, env[i] = EQ PROVE FALSE
    BY <1>3 DEF Usable, Valid
  <2>1. i - pos \in p..z-1 /\ pos + (i - pos) = i
    BY <1>2, <1>3
  <2>2. i - pos \in Found(EQ, p, z)
    BY <2>1 DEF Found
  <2> QED BY <2>2, <1>1
<1> HIDE DEF z
<1>5. Here <= Here /\ ~ignore_first'
  BY <1>1, <1>2
<1>6. /\ PieceInv' /\ WhereInv' /\ pc' \in InPiece /\ p' \in 0..len'
      /\ Handled' = Handled \cup ({Here} \cap Begins)
  BY <1>1, <1>3, <1>5, Behind
<1>7. Usable' = Usable /\ PassedInv' /\ Passed' = Passed
  BY <1>1, SameEnv, SamePassed
<1>8. CountInv'
  <2>1. Passed = Handled \cap Usable
    BY <1>1 DEF CountInv, Reading
  <2>2. Passed' = Handled' \cap Usable'
    BY <2>1, <1>4, <1>6, <1>7
  <2>3. ignored' # 0
    BY <1>1, <1>2
  <2>4. ~(Handled' \subseteq Usable')
    BY <1>3, <1>4, <1>6, <1>7
  <2> QED BY <2>2, <2>3, <2>4 DEF CountInv
<1>9. EnvTypeOK'
  BY <1>1, <1>2, <1>6 DEF EnvTypeOK, InPiece, Reading
<1>10. EndInv'
  BY <1>6 DEF EndInv, InPiece
<1> QED BY <1>6, <1>7, <1>8, <1>9, <1>10

\* A step that neither moves nor passes on nor counts.
LEMMA SamePlace ==
  ASSUME EnvInv, env' = env, passed' = passed, ignored' = ignored,
         ignore_first' = ignore_first, pc \in Reading, Here' = Here
  PROVE WhereInv' /\ PassedInv' /\ CountInv'
<1> USE DEF EnvInv
<1>1. /\ ListEnd' = ListEnd /\ Begins' = Begins /\ Usable' = Usable
      /\ \A s : EndOf(s)' = EndOf(s) /\ Fits(s)' = Fits(s)
  BY SameEnv
<1>2. BetweenVars' = BetweenVars /\ Inside' = Inside
  BY <1>1 DEF BetweenVars, Inside
<1>3. WhereInv'
  BY <1>2 DEF WhereInv
<1>4. PassedInv' /\ Passed' = Passed
  BY SamePassed
<1>5. Handled' = Handled
  BY <1>1 DEF Handled
<1>6. CountInv'
  BY <1>1, <1>4, <1>5 DEF CountInv
<1> QED BY <1>3, <1>4, <1>6

\* When every variable of the list has been dealt with.
LEMMA AllHandled ==
  ASSUME EnvInv, env' = env, passed' = passed, ignored' = ignored, pc \in Reading,
         pc' = "done", \A s \in Begins : s < Here
  PROVE WhereInv' /\ PassedInv' /\ CountInv' /\ EndInv'
<1> USE DEF EnvInv
<1>1. Handled = Begins /\ Usable \subseteq Begins
  BY DEF Handled, Usable
<1>2. Passed = Usable /\ (ignored = 0) = (Begins = Usable)
  BY <1>1 DEF CountInv
<1>3. Usable' = Usable /\ Begins' = Begins /\ PassedInv' /\ Passed' = Passed
  BY SameEnv, SamePassed
<1>4. EndInv'
  BY <1>2, <1>3 DEF EndInv
<1>5. WhereInv' /\ CountInv'
  BY DEF WhereInv, CountInv, Reading
<1> QED BY <1>3, <1>4, <1>5

\* An empty string at a place between variables: the list ends here.
LEMMA EmptyHere ==
  ASSUME EnvTypeOK, BetweenVars, Here \in 0..Size-1, env[Here] = NUL
  PROVE \A s \in Begins : s < Here
<1>1. ListEnd <= Here /\ ListEnd \in 0..Size /\ Size \in Nat
  BY ListEndIs, EnvAssumption DEF BetweenVars
<1>2. \A s \in Begins : s < ListEnd /\ s \in 0..Size-1
  BY NotEmpty
<1> QED BY <1>1, <1>2

\* Reading the next piece.
LEMMA ReadPieceStep == ASSUME EnvInv, ReadPiece PROVE EnvInv'
<1> USE DEF EnvInv
<1>1. /\ pc = "read" /\ pos < Size /\ len' = PieceLen /\ p' = 0 /\ pos' = pos
      /\ pc' = (IF ~ignore_first /\ env[pos] = NUL THEN "done" ELSE "vars")
      /\ env' = env /\ crc_ok' = crc_ok /\ passed' = passed /\ ignored' = ignored
      /\ ignore_first' = ignore_first
  BY DEF ReadPiece, Goto
<1>2. /\ Size \in Nat /\ pos \in Nat /\ PieceLen \in 1..Buffer /\ Here = pos /\ Buffer \in Nat
  BY <1>1, EnvTypes, PieceFits DEF Here, InPiece
<1>3. EnvTypeOK'
  BY <1>1, <1>2 DEF EnvTypeOK, Reading
<1>4. CASE pc' = "done"
  <2>1. BetweenVars
    BY <1>1, <1>4 DEF WhereInv, Reading
  <2>2. \A s \in Begins : s < Here
    BY <1>1, <1>2, <1>4, <2>1, EmptyHere
  <2>3. WhereInv' /\ PassedInv' /\ CountInv' /\ EndInv'
    BY <1>1, <1>4, <2>2, AllHandled DEF Reading
  <2>4. PieceInv'
    BY <1>4 DEF PieceInv, InPiece
  <2> QED BY <1>3, <2>3, <2>4
<1>5. CASE pc' = "vars"
  <2>1. Here' = Here
    BY <1>1, <1>2, <1>5 DEF Here, InPiece
  <2>2. WhereInv' /\ PassedInv' /\ CountInv'
    BY <1>1, <2>1, SamePlace DEF Reading
  <2>3. ~ignore_first => env[pos + 0] # NUL
    BY <1>1, <1>2, <1>5
  <2>4. PieceLen' = PieceLen
    BY <1>1 DEF PieceLen
  <2>5. PieceInv'
    BY <1>1, <1>2, <1>5, <2>3, <2>4 DEF PieceInv, InPiece
  <2>6. EndInv'
    BY <1>5 DEF EndInv
  <2> QED BY <1>3, <2>2, <2>5, <2>6
<1> QED BY <1>1, <1>4, <1>5

\* The environment has no more pieces.
LEMMA ReadEndStep == ASSUME EnvInv, ReadEnd PROVE EnvInv'
<1> USE DEF EnvInv
<1>1. /\ pc = "read" /\ pos >= Size /\ pc' = "done" /\ env' = env /\ crc_ok' = crc_ok
      /\ pos' = pos /\ len' = len /\ p' = p /\ ignore_first' = ignore_first
      /\ ignored' = ignored /\ passed' = passed
  BY DEF ReadEnd, Goto
<1>2. Here = Size
  BY <1>1, EnvTypes DEF Here, InPiece
<1>3. \A s \in Begins : s < Here
  <2>1. \A s \in Begins : s \in 0..Size-1 /\ Size \in Nat
    BY NotEmpty, EnvTypes
  <2> QED BY <2>1, <1>2
<1>4. WhereInv' /\ PassedInv' /\ CountInv' /\ EndInv'
  BY <1>1, <1>3, AllHandled DEF Reading
<1>5. EnvTypeOK' /\ PieceInv'
  BY <1>1 DEF EnvTypeOK, PieceInv, InPiece
<1> QED BY <1>4, <1>5

\* An empty string behind the last variable in the piece.
LEMMA EmptyStringStep == ASSUME EnvInv, EmptyString PROVE EnvInv'
<1> USE DEF EnvInv
<1>1. /\ pc = "piece_end" /\ p < len /\ env[pos + p] = NUL /\ pc' = "done"
      /\ env' = env /\ crc_ok' = crc_ok
      /\ pos' = pos /\ len' = len /\ p' = p /\ ignore_first' = ignore_first
      /\ ignored' = ignored /\ passed' = passed
  BY DEF EmptyString, Goto
<1>2. /\ Size \in Nat /\ pos \in Nat /\ p \in Nat /\ len \in Nat /\ Here = pos + p
      /\ pos < Size /\ pos + len <= Size
  BY <1>1, EnvTypes, PieceFits DEF PieceInv, InPiece, Here
<1>3. HasEnd
  <2>1. p \in Found(NUL, p, len)
    BY <1>1, <1>2 DEF Found
  <2> QED BY <2>1 DEF HasEnd
<1>4. ~ignore_first
  BY <1>1, <1>3 DEF PieceInv, InPiece
<1>5. \A s \in Begins : s < Here
  <2>1. BetweenVars
    BY <1>1, <1>4 DEF WhereInv, Reading
  <2>2. Here \in 0..Size-1
    BY <1>1, <1>2
  <2> QED BY <1>1, <1>2, <2>1, <2>2, EmptyHere
<1>6. WhereInv' /\ PassedInv' /\ CountInv' /\ EndInv'
  BY <1>1, <1>5, AllHandled DEF Reading
<1>7. EnvTypeOK' /\ PieceInv'
  BY <1>1 DEF EnvTypeOK, PieceInv, InPiece
<1> QED BY <1>6, <1>7

\* No end in the rest of the piece.
LEMMA CutStep == ASSUME EnvInv, Cut PROVE EnvInv'
<1> USE DEF EnvInv
<1>1. /\ pc = "vars" /\ ~HasEnd /\ pc' = "piece_end" /\ env' = env /\ crc_ok' = crc_ok
      /\ pos' = pos /\ len' = len /\ p' = p /\ ignore_first' = ignore_first
      /\ ignored' = ignored /\ passed' = passed
  BY DEF Cut, Goto
<1>2. HasEnd' = HasEnd /\ PieceLen' = PieceLen
  BY <1>1 DEF HasEnd, Found, PieceLen
<1>3. Here' = Here
  BY <1>1 DEF Here, InPiece
<1>4. WhereInv' /\ PassedInv' /\ CountInv'
  BY <1>1, <1>3, SamePlace DEF Reading
<1>5. EnvTypeOK' /\ EndInv'
  BY <1>1 DEF EnvTypeOK, EndInv, Reading
<1>6. PieceInv'
  BY <1>1, <1>2 DEF PieceInv, InPiece
<1> QED BY <1>4, <1>5, <1>6

\* The next piece begins with what was cut.
LEMMA NextPieceStep ==
  ASSUME EnvInv, NextPiece
  PROVE EnvInv' /\ pos < pos' /\ pos' <= Size
<1> USE DEF EnvInv
<1>1. /\ pc = "piece_end" /\ p > 0 /\ pos' = pos + p /\ pc' = "read" /\ env' = env
      /\ crc_ok' = crc_ok /\ len' = len /\ p' = p /\ ignore_first' = ignore_first
      /\ ignored' = ignored /\ passed' = passed
  BY DEF NextPiece, Goto, Reread
<1>2. /\ Size \in Nat /\ pos \in Nat /\ p \in Nat /\ len \in Nat /\ p <= len
      /\ pos + len <= Size /\ Here = pos + p
  BY <1>1, EnvTypes, PieceFits DEF PieceInv, InPiece, Here
<1>3. pos' \in 0..Size /\ pos < pos' /\ pos' <= Size
  BY <1>1, <1>2
<1>4. Here' = Here
  BY <1>1, <1>2 DEF Here, InPiece
<1>5. WhereInv' /\ PassedInv' /\ CountInv'
  BY <1>1, <1>4, SamePlace DEF Reading
<1>6. EnvTypeOK' /\ EndInv' /\ PieceInv'
  BY <1>1, <1>3 DEF EnvTypeOK, EndInv, Reading, PieceInv, InPiece
<1> QED BY <1>3, <1>5, <1>6

\* A piece without any end: it belongs to a variable that does not fit.
LEMMA TooLongStep ==
  ASSUME EnvInv, TooLong
  PROVE EnvInv' /\ pos < pos' /\ pos' <= Size
<1> USE DEF EnvInv
<1>1. /\ pc = "piece_end" /\ p = 0 /\ pos' = pos + len /\ pc' = "read" /\ env' = env
      /\ crc_ok' = crc_ok /\ len' = len /\ p' = p /\ ignore_first' = TRUE
      /\ ignored' = ignored + 1 /\ passed' = passed
  BY DEF TooLong, Goto, Count
<1>2. /\ Size \in Nat /\ pos \in Nat /\ len \in Nat /\ len > 0 /\ Buffer \in Nat /\ pos < Size
      /\ pos + len <= Size /\ (len = Buffer \/ pos + len = Size) /\ Here = pos
      /\ ignored \in Nat
  BY <1>1, EnvTypes, PieceFits DEF PieceInv, InPiece, Here
<1>3. \A j \in pos..(pos + len)-1 : env[j] # NUL
  <2> SUFFICES ASSUME NEW j \in pos..(pos + len)-1, env[j] = NUL PROVE FALSE
    OBVIOUS
  <2>1. j - pos \in p..len-1 /\ pos + (j - pos) = j
    BY <1>1, <1>2
  <2>2. j - pos \in Found(NUL, p, len)
    BY <2>1 DEF Found
  <2> QED BY <2>2, <1>1 DEF PieceInv, HasEnd
<1>4. \E s \in Begins : s <= pos /\ ~Fits(s) /\ pos + len <= EndOf(s)
                        /\ (pos \in Begins => pos = s)
  <2>1. CASE ~ignore_first
    <3>1. BetweenVars
      BY <1>1, <2>1 DEF WhereInv, Reading
    <3>2. pos \in 0..Size-1 /\ pos \in 0..Size /\ pos \in pos..(pos + len)-1
      BY <1>2
    <3>3. pos \in Begins
      BY <1>2, <1>3, <3>1, <3>2, BeginsAt DEF BetweenVars
    <3>4. EndOf(pos) \in pos..Size /\ (EndOf(pos) < Size => env[EndOf(pos)] = NUL)
      BY <3>2, EndOfIs
    <3>5. pos + len <= EndOf(pos)
      <4> SUFFICES ASSUME EndOf(pos) < pos + len PROVE FALSE
        BY <1>2, <3>4
      <4>1. EndOf(pos) \in pos..(pos + len)-1 /\ EndOf(pos) < Size
        BY <1>2, <3>4
      <4> QED BY <4>1, <3>4, <1>3
    <3>6. ~Fits(pos)
      <4>1. ~(EndOf(pos) < Size /\ EndOf(pos) - pos + 1 <= Buffer)
        BY <1>2, <3>4, <3>5
      <4> QED BY <4>1 DEF Fits
    <3> QED BY <1>2, <3>3, <3>5, <3>6
  <2>2. CASE ignore_first
    <3>1. PICK s \in Begins : s < pos /\ ~Fits(s) /\ pos <= EndOf(s)
      BY <1>1, <1>2, <2>2 DEF WhereInv, Inside, Reading
    <3>2. s \in 0..Size-1 /\ s \in 0..Size
      BY NotEmpty, <1>2
    <3>3. EndOf(s) \in s..Size /\ (EndOf(s) < Size => env[EndOf(s)] = NUL)
      BY <3>2, EndOfIs
    <3>4. pos + len <= EndOf(s)
      <4> SUFFICES ASSUME EndOf(s) < pos + len PROVE FALSE
        BY <1>2, <3>2, <3>3
      <4>1. EndOf(s) \in pos..(pos + len)-1 /\ EndOf(s) < Size
        BY <1>2, <3>1, <3>2, <3>3
      <4> QED BY <4>1, <3>3, <1>3
    <3>5. pos # 0 /\ pos - 1 \in s..EndOf(s)-1
      BY <1>2, <3>1, <3>2, <3>3
    <3>6. env[pos - 1] # NUL
      BY <3>2, <3>5, EndOfIs
    <3>7. ~(pos \in Begins)
      BY <3>5, <3>6 DEF Begins
    <3>8. s <= pos
      BY <1>2, <3>1, <3>2
    <3> QED BY <3>1, <3>4, <3>7, <3>8
  <2> QED BY <2>1, <2>2, EnvTypes
<1>5. PICK s \in Begins : s <= pos /\ ~Fits(s) /\ pos + len <= EndOf(s)
                          /\ (pos \in Begins => pos = s)
  BY <1>4
<1>6. s \in Nat /\ ~(s \in Usable) /\ s < pos + len
  BY <1>2, <1>5, NotEmpty DEF Usable
<1>7. Here' = pos + len
  BY <1>1 DEF Here, InPiece
<1>8. /\ Begins' = Begins /\ Usable' = Usable /\ PassedInv' /\ Passed' = Passed
      /\ \A t : EndOf(t)' = EndOf(t) /\ Fits(t)' = Fits(t)
  BY <1>1, SameEnv, SamePassed
<1>9. WhereInv'
  BY <1>1, <1>5, <1>6, <1>7, <1>8 DEF WhereInv, Inside
<1>10. Handled' = Handled \cup ({pos} \cap Begins)
  <2>1. pos \in 0..Size /\ pos + len \in 0..Size /\ pos < pos + len
    BY <1>2
  <2>2. \A j \in pos..(pos + len)-2 : env[j] # NUL
    <3>1. \A j \in pos..(pos + len)-2 : j \in pos..(pos + len)-1
      BY <1>2
    <3> QED BY <3>1, <1>3
  <2>3. {t \in Begins : t < pos + len} = {t \in Begins : t < pos} \cup ({pos} \cap Begins)
    BY <2>1, <2>2, NoneBetween
  <2> QED BY <2>3, <1>2, <1>7, <1>8 DEF Handled
<1>11. CountInv'
  <2>1. Passed = Handled \cap Usable
    BY <1>1 DEF CountInv, Reading
  <2>2. Passed' = Handled' \cap Usable'
    BY <2>1, <1>5, <1>6, <1>8, <1>10
  <2>3. s \in Handled'
    BY <1>5, <1>6, <1>7, <1>8 DEF Handled
  <2>4. ignored' # 0
    BY <1>1, <1>2
  <2>5. ~(Handled' \subseteq Usable')
    BY <2>3, <1>6, <1>8
  <2> QED BY <2>2, <2>4, <2>5 DEF CountInv
<1>12. pos' \in 0..Size /\ pos < pos' /\ pos' <= Size
  BY <1>1, <1>2
<1>13. EnvTypeOK' /\ EndInv' /\ PieceInv'
  BY <1>1, <1>2, <1>12 DEF EnvTypeOK, EndInv, Reading, PieceInv, InPiece
<1> QED BY <1>8, <1>9, <1>11, <1>12, <1>13

\* Before the first piece.
LEMMA CheckCrcStep == ASSUME EnvInv, CheckCrc PROVE EnvInv'
<1> USE DEF EnvInv
<1>1. /\ pc = "crc" /\ pc' \in {"read", "failed"} /\ env' = env /\ crc_ok' = crc_ok
      /\ pos' = pos /\ len' = len /\ p' = p /\ ignore_first' = ignore_first
      /\ ignored' = ignored /\ passed' = passed
  BY DEF CheckCrc, Goto
<1>2. Here' = Here
  BY <1>1 DEF Here, InPiece
<1>3. WhereInv' /\ PassedInv' /\ CountInv'
  BY <1>1, <1>2, SamePlace DEF Reading
<1>4. EnvTypeOK' /\ EndInv' /\ PieceInv'
  BY <1>1 DEF EnvTypeOK, EndInv, Reading, PieceInv, InPiece
<1> QED BY <1>3, <1>4

\* A search begins with nothing dealt with.
LEMMA EnvInit == UInit => EnvInv
<1> SUFFICES ASSUME UInit PROVE EnvInv
  OBVIOUS
<1>1. Size \in Nat /\ Buffer \in Nat
  BY EnvAssumption
<1>2. EnvTypeOK
  <2>1. <<>> \in Seq(Entries) /\ 0 \in 0..Size /\ 0 \in 0..Buffer /\ 0 \in 0..0
    BY <1>1
  <2> QED BY <2>1 DEF UInit, EnvTypeOK, Reading
<1>3. ListEnd \in 0..Size
  BY <1>2, ListEndIs
<1>4. Here = 0 /\ Passed = {}
  BY DEF UInit, Here, InPiece, Passed
<1>5. Handled = {}
  <2>1. \A s \in Begins : s \in 0..Size-1
    BY <1>2, NotEmpty
  <2> QED BY <2>1, <1>1, <1>4 DEF Handled
<1>6. WhereInv
  BY <1>1, <1>3, <1>4 DEF UInit, WhereInv, BetweenVars
<1>7. PassedInv
  BY DEF UInit, PassedInv
<1>8. CountInv
  BY <1>4, <1>5 DEF UInit, CountInv
<1>9. PieceInv /\ EndInv
  BY DEF UInit, PieceInv, EndInv, InPiece
<1> QED BY <1>2, <1>6, <1>7, <1>8, <1>9 DEF EnvInv

\* Every step of a search keeps what is known.
LEMMA EnvStep == EnvInv /\ [Step]_uvars => EnvInv'
<1> SUFFICES ASSUME EnvInv, [Step]_uvars PROVE EnvInv'
  OBVIOUS
<1>1. CASE Step
  BY <1>1, CheckCrcStep, ReadPieceStep, ReadEndStep, SkipRestStep, PassVariableStep,
     NoEqualSignStep, CutStep, EmptyStringStep, TooLongStep, NextPieceStep DEF Step
<1>2. CASE UNCHANGED uvars
  <2>1. /\ env' = env /\ crc_ok' = crc_ok /\ pc' = pc /\ pos' = pos /\ len' = len /\ p' = p
        /\ ignore_first' = ignore_first /\ ignored' = ignored /\ passed' = passed
    BY <1>2 DEF uvars
  <2>2. /\ Begins' = Begins /\ Usable' = Usable /\ ListEnd' = ListEnd
        /\ \A s : EndOf(s)' = EndOf(s) /\ Fits(s)' = Fits(s)
    BY <2>1, SameEnv
  <2>3. PassedInv' /\ Passed' = Passed /\ Starts' = Starts
    BY <2>1, SamePassed DEF EnvInv, Starts
  <2>4. Here' = Here /\ PieceLen' = PieceLen /\ HasEnd' = HasEnd
    BY <2>1 DEF Here, PieceLen, HasEnd, Found
  <2>5. Handled' = Handled /\ BetweenVars' = BetweenVars /\ Inside' = Inside
    BY <2>1, <2>2, <2>4 DEF Handled, BetweenVars, Inside
  <2>6. EnvTypeOK' /\ PieceInv'
    BY <2>1, <2>4 DEF EnvInv, EnvTypeOK, PieceInv
  <2>7. WhereInv' /\ CountInv' /\ EndInv'
    BY <2>1, <2>2, <2>3, <2>5 DEF EnvInv, WhereInv, CountInv, EndInv
  <2> QED BY <2>3, <2>6, <2>7 DEF EnvInv
<1> QED BY <1>1, <1>2

\* EnvInv holds in every reachable state of a search (uboot-env.c:45-120),
\* whatever the environment holds and however long it and the buffer are.
THEOREM EnvInvariance == USpec => []EnvInv
<1> QED BY EnvInit, EnvStep, PTL DEF USpec

\* Every variable that fits is passed on once, in order and whole, and the
\* result is 0 exactly when none was left out (uboot-env.c:58-111).
THEOREM UsableAlwaysPassed == USpec => []UsablePassed
<1>1. EnvInv => UsablePassed
  <2> SUFFICES ASSUME EnvInv PROVE UsablePassed
    OBVIOUS
  <2>1. UsablePassedInOrder
    BY DEF EnvInv, PassedInv, EndInv, Passed, UsablePassedInOrder
  <2>2. IgnoredReported
    BY DEF EnvInv, EndInv, IgnoredReported
  <2> QED BY <2>1, <2>2 DEF UsablePassed
<1> QED BY <1>1, EnvInvariance, PTL

\* Every piece takes the search further, and never behind the end of the
\* environment (uboot-env.c:58, 106-110).
THEOREM PiecesAlwaysAdvance == USpec => PieceAdvances
<1>1. EnvInv /\ [Step]_uvars
      => [pc = "piece_end" /\ pc' = "read" => pos < pos' /\ pos' <= Size]_uvars
  <2> SUFFICES ASSUME EnvInv, Step, pc = "piece_end", pc' = "read"
               PROVE pos < pos' /\ pos' <= Size
    OBVIOUS
  <2>1. TooLong \/ NextPiece
    BY DEF Step, CheckCrc, ReadPiece, ReadEnd, SkipRest, PassVariable, NoEqualSign, Cut,
           EmptyString, Goto
  <2> QED BY <2>1, TooLongStep, NextPieceStep
<1> QED BY <1>1, EnvInvariance, PTL DEF USpec, PieceAdvances

-----------------------------------------------------------------------------
(***************************************************************************)
(* The debug console.  The line is shorter than its array, the terminal    *)
(* shows it, and the history fits; each key is a step of one of them.      *)
(***************************************************************************)
Lines == Seq(Printable)
Short(line) == line \in Lines /\ Len(line) < CmdSize

\* The line, and the terminal that shows it.
LineInv == /\ Short(cmd) /\ cmdpos \in 0..Len(cmd)
           /\ term = [text |-> cmd, cur |-> cmdpos]

\* The last byte of orig_cmd is never written, and so ends every line in it.
HistoryInv ==
  /\ history \in Seq(Lines) /\ \A j \in 1..Len(history) : Short(history[j])
  /\ history_pos \in 0..Len(history)
  /\ orig_cmd \in [1..CmdSize -> Printable \cup {NoByte}] /\ orig_cmd[CmdSize] = NoByte
  /\ orig_cmdlen \in Nat
  /\ Used(1) <= HistorySize

SequenceInv == escape_seq \in Seq(Printable) /\ Len(escape_seq) < EscSize

ConsoleInv == LineInv /\ HistoryInv /\ SequenceInv

-----------------------------------------------------------------------------
\* The two halves of the line.
LEMMA Halves ==
  ASSUME NEW l \in Lines, NEW n \in 0..Len(l)
  PROVE /\ SubSeq(l, 1, n) \in Lines /\ Len(SubSeq(l, 1, n)) = n
        /\ SubSeq(l, n + 1, Len(l)) \in Lines /\ Len(SubSeq(l, n + 1, Len(l))) = Len(l) - n
        /\ \A i \in 1..n : SubSeq(l, 1, n)[i] = l[i]
        /\ \A i \in 1..Len(l) - n : SubSeq(l, n + 1, Len(l))[i] = l[n + i]
<1>1. Len(l) \in Nat /\ n \in Nat /\ n <= Len(l) /\ \A i \in 1..Len(l) : l[i] \in Printable
  BY DEF Lines
<1>2. \A i \in 1..n : l[i] \in Printable
  BY <1>1
<1>3. \A i \in (n + 1)..Len(l) : l[i] \in Printable
  BY <1>1
<1>4. /\ SubSeq(l, 1, n) \in Lines
      /\ Len(SubSeq(l, 1, n)) = IF 1 <= n THEN n - 1 + 1 ELSE 0
      /\ \A i \in 1..n - 1 + 1 : SubSeq(l, 1, n)[i] = l[1 + i - 1]
  BY <1>1, <1>2, SubSeqProperties DEF Lines
<1>5. /\ SubSeq(l, n + 1, Len(l)) \in Lines
      /\ Len(SubSeq(l, n + 1, Len(l))) = IF n + 1 <= Len(l) THEN Len(l) - (n + 1) + 1 ELSE 0
      /\ \A i \in 1..Len(l) - (n + 1) + 1 : SubSeq(l, n + 1, Len(l))[i] = l[(n + 1) + i - 1]
  BY <1>1, <1>3, SubSeqProperties DEF Lines
<1>6. Len(SubSeq(l, 1, n)) = n /\ Len(SubSeq(l, n + 1, Len(l))) = Len(l) - n
  BY <1>1, <1>4, <1>5
<1>7. \A i \in 1..n : SubSeq(l, 1, n)[i] = l[i]
  <2> SUFFICES ASSUME NEW i \in 1..n PROVE SubSeq(l, 1, n)[i] = l[i]
    OBVIOUS
  <2>1. i \in 1..n - 1 + 1 /\ 1 + i - 1 = i
    BY <1>1
  <2> QED BY <2>1, <1>4
<1>8. \A i \in 1..Len(l) - n : SubSeq(l, n + 1, Len(l))[i] = l[n + i]
  <2> SUFFICES ASSUME NEW i \in 1..Len(l) - n PROVE SubSeq(l, n + 1, Len(l))[i] = l[n + i]
    OBVIOUS
  <2>1. i \in 1..Len(l) - (n + 1) + 1 /\ (n + 1) + i - 1 = n + i
    BY <1>1
  <2> QED BY <2>1, <1>5
<1> QED BY <1>4, <1>5, <1>6, <1>7, <1>8

\* Text that reaches the end of the line leaves nothing of what was behind.
LEMMA PutsToEnd ==
  ASSUME NEW l \in Lines, NEW n \in 0..Len(l), NEW s \in Lines, Len(l) <= n + Len(s)
  PROVE Puts([text |-> l, cur |-> n], s)
          = [text |-> SubSeq(l, 1, n) \o s, cur |-> n + Len(s)]
<1>1. Len(l) \in Nat /\ n \in Nat /\ Len(s) \in Nat
  BY DEF Lines
<1>2. SubSeq(l, n + Len(s) + 1, Len(l)) = <<>>
  BY <1>1, SubSeqEmpty
<1>3. SubSeq(l, 1, n) \o s \in Seq(Printable)
  BY Halves, ConcatProperties DEF Lines
<1>4. (SubSeq(l, 1, n) \o s) \o <<>> = SubSeq(l, 1, n) \o s
  BY <1>3, ConcatEmptySeq
<1> QED BY <1>2, <1>4 DEF Puts

\* Moving the cursor does not touch the text.
LEMMA Moved ==
  ASSUME NEW x, NEW a, NEW c
  PROVE MoveTo([text |-> x, cur |-> a], c) = [text |-> x, cur |-> c]
BY DEF MoveTo

\* A byte is put into the line.
LEMMA AppendStep ==
  ASSUME LineInv, NEW b \in Printable, cmd_append(b)
  PROVE LineInv'
<1>1. CASE LineFull
  BY <1>1 DEF LineFull, cmd_append, LineInv, Short
<1>2. CASE ~LineFull
  <2> DEFINE after == After(cmdpos)
             new   == <<b>> \o after
  <2>1. /\ cmd' = Before(cmdpos) \o new /\ cmdpos' = cmdpos + 1
        /\ term' = MoveTo(Puts(term, new), term.cur + 1)
    <3>1. cmd' = Before(cmdpos) \o <<b>> \o After(cmdpos)
      BY <1>2 DEF cmd_append
    <3>2. Before(cmdpos) \in Seq(Printable) /\ <<b>> \in Seq(Printable) /\ after \in Seq(Printable)
      BY Halves DEF LineInv, Short, Before, After, Lines
    <3>3. (Before(cmdpos) \o <<b>>) \o after = Before(cmdpos) \o new
      BY <3>2, ConcatAssociative
    <3> QED BY <3>1, <3>3, <1>2 DEF cmd_append
  <2>2. /\ Len(cmd) \in Nat /\ cmdpos \in 0..Len(cmd) /\ cmd \in Lines /\ CmdSize \in Nat
        /\ Len(cmd) < CmdSize - 1
    BY <1>2, ConsoleAssumption DEF LineInv, Short, LineFull, Lines
  <2>3. /\ Before(cmdpos) \in Lines /\ Len(Before(cmdpos)) = cmdpos
        /\ after \in Lines /\ Len(after) = Len(cmd) - cmdpos
    BY <2>2, Halves DEF Before, After
  <2> HIDE DEF after
  <2>4. new \in Lines /\ Len(new) = Len(cmd) - cmdpos + 1
    <3>1. <<b>> \in Seq(Printable) /\ Len(<<b>>) = 1
      OBVIOUS
    <3>2. new \in Seq(Printable) /\ Len(new) = Len(<<b>>) + Len(after)
      BY <2>3, <3>1, ConcatProperties DEF Lines
    <3> QED BY <3>1, <3>2, <2>2, <2>3 DEF Lines
  <2> HIDE DEF new
  <2>5. Short(cmd') /\ Len(cmd') = Len(cmd) + 1
    <3>1. Before(cmdpos) \o new \in Seq(Printable)
          /\ Len(Before(cmdpos) \o new) = Len(Before(cmdpos)) + Len(new)
      BY <2>3, <2>4, ConcatProperties DEF Lines
    <3>2. Len(cmd') = Len(cmd) + 1
      BY <2>1, <2>2, <2>3, <2>4, <3>1
    <3> QED BY <2>1, <2>2, <3>1, <3>2 DEF Short, Lines
  <2>6. term' = [text |-> cmd', cur |-> cmdpos']
    <3>1. term = [text |-> cmd, cur |-> cmdpos]
      BY DEF LineInv
    <3>2. Len(cmd) <= cmdpos + Len(new)
      BY <2>2, <2>4
    <3>3. Puts(term, new) = [text |-> Before(cmdpos) \o new, cur |-> cmdpos + Len(new)]
      BY <2>2, <2>4, <3>1, <3>2, PutsToEnd DEF Before
    <3>4. term.cur = cmdpos
      BY <3>1
    <3>5. Puts(term, new) = [text |-> Before(cmdpos) \o new, cur |-> cmdpos + Len(new)]
      BY <3>1, <3>3
    <3>6. MoveTo(Puts(term, new), cmdpos + 1)
            = [text |-> Before(cmdpos) \o new, cur |-> cmdpos + 1]
      BY <3>5, Moved
    <3> QED BY <2>1, <3>4, <3>6
  <2>7. cmdpos' \in 0..Len(cmd')
    BY <2>1, <2>2, <2>5
  <2> QED BY <2>5, <2>6, <2>7 DEF LineInv
<1> QED BY <1>1, <1>2

\* The byte at q is taken out, with the cursor of the terminal there.
LEMMA DelStep ==
  ASSUME LineInv, NEW q \in 0..Len(cmd), cmd_del(q, [text |-> cmd, cur |-> q])
  PROVE LineInv'
<1>1. /\ Len(cmd) \in Nat /\ cmd \in Lines /\ CmdSize \in Nat /\ Len(cmd) < CmdSize /\ q \in Nat
      /\ q <= Len(cmd)
  BY ConsoleAssumption DEF LineInv, Short, Lines
<1>2. CASE q = Len(cmd)
  BY <1>1, <1>2 DEF cmd_del, LineInv, Short
<1>3. CASE q # Len(cmd)
  <2> DEFINE rest == After(q + 1)
             t    == [text |-> cmd, cur |-> q]
  <2>1. /\ cmd' = Before(q) \o rest /\ cmdpos' = q
        /\ term' = DrawRest(t, rest)
    BY <1>3 DEF cmd_del
  <2>2. q + 1 \in 0..Len(cmd)
    BY <1>1, <1>3
  <2>3. /\ Before(q) \in Lines /\ Len(Before(q)) = q
        /\ rest \in Lines /\ Len(rest) = Len(cmd) - (q + 1)
    BY <1>1, <2>2, Halves DEF Before, After
  <2> HIDE DEF rest
  <2>4. cmd' \in Lines /\ Len(cmd') = Len(cmd) - 1
    <3>1. Before(q) \o rest \in Seq(Printable)
          /\ Len(Before(q) \o rest) = Len(Before(q)) + Len(rest)
      BY <2>3, ConcatProperties DEF Lines
    <3> QED BY <2>1, <2>3, <1>1, <3>1 DEF Lines
  <2>5. term' = [text |-> cmd', cur |-> q]
    <3> DEFINE tail == SubSeq(cmd, q + Len(rest) + 1, Len(cmd))
               whole == cmd' \o tail
    <3>1. Puts(t, rest) = [text |-> whole, cur |-> q + Len(rest)]
      BY <2>1 DEF Puts, Before
    <3>2. q + Len(rest) = Len(cmd')
      BY <1>1, <2>3, <2>4
    <3>3. tail \in Lines
      <4>1. q + Len(rest) \in 0..Len(cmd)
        BY <1>1, <2>3, <2>2
      <4> QED BY <4>1, <1>1, Halves
    <3> HIDE DEF tail
    <3>4. /\ whole \in Lines /\ Len(cmd') \in 0..Len(whole)
          /\ \A i \in 1..Len(cmd') : whole[i] = cmd'[i]
      <4>1. /\ whole \in Seq(Printable) /\ Len(whole) = Len(cmd') + Len(tail)
            /\ \A i \in 1..Len(cmd') + Len(tail) :
                 whole[i] = IF i <= Len(cmd') THEN cmd'[i] ELSE tail[i - Len(cmd')]
        BY <2>4, <3>3, ConcatProperties DEF Lines
      <4>2. Len(cmd') \in Nat /\ Len(tail) \in Nat
        BY <2>4, <3>3 DEF Lines
      <4> QED BY <4>1, <4>2 DEF Lines
    <3> HIDE DEF whole
    <3>5. SubSeq(whole, 1, Len(cmd')) = cmd'
      <4>1. /\ SubSeq(whole, 1, Len(cmd')) \in Lines
            /\ Len(SubSeq(whole, 1, Len(cmd'))) = Len(cmd')
            /\ \A i \in 1..Len(cmd') : SubSeq(whole, 1, Len(cmd'))[i] = whole[i]
        BY <3>4, Halves
      <4>2. \A i \in 1..Len(cmd') : SubSeq(whole, 1, Len(cmd'))[i] = cmd'[i]
        BY <3>4, <4>1
      <4> HIDE DEF Lines
      <4>3. cmd' \in Seq(Printable) /\ SubSeq(whole, 1, Len(cmd')) \in Seq(Printable)
        BY <2>4, <4>1 DEF Lines
      <4> QED BY <4>1, <4>2, <4>3, SeqEqual
    <3>6. EraseRest(Puts(t, rest)) = [text |-> cmd', cur |-> Len(cmd')]
      BY <3>1, <3>2, <3>5, SMTT(30) DEF EraseRest
    <3>7. t.cur = q
      OBVIOUS
    <3>8. MoveTo(EraseRest(Puts(t, rest)), q) = [text |-> cmd', cur |-> q]
      BY <3>6, Moved
    <3>9. DrawRest(t, rest) = MoveTo(EraseRest(Puts(t, rest)), t.cur)
      BY DEF DrawRest
    <3> HIDE DEF t
    <3> QED BY <2>1, <3>7, <3>8, <3>9
  <2>6. cmdpos' \in 0..Len(cmd') /\ Short(cmd')
    BY <1>1, <1>3, <2>1, <2>4 DEF Short
  <2> QED BY <2>1, <2>5, <2>6 DEF LineInv
<1> QED BY <1>2, <1>3

\* The line is replaced, and drawn anew.
LEMMA SetStep ==
  ASSUME NEW line, Short(line), NEW q \in Nat, cmd_set(line, q)
  PROVE LineInv'
<1>1. Len(line) \in Nat
  BY DEF Short, Lines
<1>2. (IF q < Len(line) THEN q ELSE Len(line)) \in 0..Len(line)
  BY <1>1
<1> QED BY <1>2 DEF cmd_set, LineInv

-----------------------------------------------------------------------------
\* The bytes of the entries of h from f on.
Places(h, f) == UNION {{j} \X (0..Len(h[j])) : j \in f..Len(h)}

Entered(h) == h \in Seq(Lines) /\ \A j \in 1..Len(h) : Short(h[j])

\* There are finitely many.
LEMMA PlacesFinite ==
  ASSUME NEW h, Entered(h), NEW f \in 1..Len(h)+1
  PROVE IsFiniteSet(Places(h, f))
<1>1. Len(h) \in Nat /\ CmdSize \in Nat /\ f \in Nat
  BY ConsoleAssumption DEF Entered
<1>2. IsFiniteSet(1..Len(h)) /\ IsFiniteSet(0..CmdSize)
  BY <1>1, FS_Interval
<1>3. IsFiniteSet((1..Len(h)) \X (0..CmdSize))
  BY <1>2, FS_Product
<1>4. ASSUME NEW j \in f..Len(h), NEW i \in 0..Len(h[j])
      PROVE  j \in 1..Len(h) /\ i \in 0..CmdSize
  <2>1. j \in 1..Len(h)
    BY <1>1
  <2>2. Len(h[j]) \in Nat /\ Len(h[j]) < CmdSize
    BY <2>1 DEF Entered, Short, Lines
  <2> QED BY <1>1, <2>1, <2>2
<1>5. Places(h, f) \in SUBSET ((1..Len(h)) \X (0..CmdSize))
  BY <1>4 DEF Places
<1> QED BY <1>3, <1>5, FS_Subset

\* What is kept of the history takes as much room as before, and a new entry the
\* bytes of its line and a NUL.
LEMMA KeptPlaces ==
  ASSUME NEW h, Entered(h), NEW f \in 1..Len(h)+1, NEW line, Short(line)
  PROVE LET g == Append(SubSeq(h, f, Len(h)), line) IN
        /\ Entered(g)
        /\ Cardinality(Places(g, 1)) = Cardinality(Places(h, f)) + Len(line) + 1
<1> DEFINE old == SubSeq(h, f, Len(h))
           g   == Append(old, line)
           m   == Len(h) - f + 1
           A   == UNION {{j} \X (0..Len(g[j])) : j \in 1..m}
           B   == {m + 1} \X (0..Len(line))
           S   == Places(h, f)
           F   == [x \in S |-> <<x[1] - f + 1, x[2]>>]
<1>1. /\ Len(h) \in Nat /\ f \in Nat /\ f >= 1 /\ f <= Len(h) + 1 /\ m \in Nat
      /\ Len(line) \in Nat /\ line \in Lines /\ h \in Seq(Lines)
  BY DEF Entered, Short, Lines
<1>2. old \in Seq(Lines) /\ Len(old) = m /\ \A i \in 1..m : old[i] = h[f + i - 1]
  <2>1. \A i \in f..Len(h) : h[i] \in Lines
    BY <1>1
  <2>2. /\ old \in Seq(Lines)
        /\ Len(old) = IF f <= Len(h) THEN Len(h) - f + 1 ELSE 0
        /\ \A i \in 1..Len(h) - f + 1 : old[i] = h[f + i - 1]
    BY <1>1, <2>1, SubSeqProperties
  <2>3. Len(old) = m
    BY <1>1, <2>2
  <2> QED BY <2>2, <2>3
<1> HIDE DEF old
<1>3. /\ g \in Seq(Lines) /\ Len(g) = m + 1 /\ g[m + 1] = line
      /\ \A i \in 1..m : g[i] = h[f + i - 1]
  <2>1. g \in Seq(Lines) /\ Len(g) = Len(old) + 1 /\ g[Len(old) + 1] = line
        /\ \A i \in 1..Len(old) : g[i] = old[i]
    BY <1>1, <1>2
  <2> HIDE DEF g, m
  <2> QED BY <2>1, <1>2
<1> HIDE DEF g
<1>4. Entered(g)
  <2> SUFFICES ASSUME NEW i \in 1..m+1 PROVE Short(g[i])
    BY <1>3 DEF Entered
  <2>1. CASE i = m + 1
    BY <2>1, <1>3
  <2>2. CASE i # m + 1
    <3>1. i \in 1..m /\ f + i - 1 \in 1..Len(h)
      BY <2>2, <1>1
    <3> QED BY <3>1, <1>3 DEF Entered
  <2> QED BY <2>1, <2>2
<1>5. Places(g, 1) = A \cup B
  <2>1. \A i \in 1..m+1 : i \in 1..m \/ i = m + 1
    BY <1>1
  <2>2. (\A i \in 1..m : i \in 1..m+1) /\ m + 1 \in 1..m+1
    BY <1>1
  <2>3. Places(g, 1) \subseteq A \cup B
    <3> SUFFICES ASSUME NEW i \in 1..m+1, NEW x \in {i} \X (0..Len(g[i])) PROVE x \in A \cup B
      BY <1>3 DEF Places
    <3>1. CASE i \in 1..m
      BY <3>1
    <3>2. CASE i = m + 1
      BY <3>2, <1>3
    <3> QED BY <3>1, <3>2, <2>1
  <2>4. A \cup B \subseteq Places(g, 1)
    <3>1. A \subseteq Places(g, 1)
      BY <1>3, <2>2 DEF Places
    <3>2. B \subseteq Places(g, 1)
      BY <1>3, <2>2 DEF Places
    <3> QED BY <3>1, <3>2
  <2> QED BY <2>3, <2>4
<1>6. A \cap B = {}
  <2>1. \A x \in A : x[1] \in 1..m
    OBVIOUS
  <2>2. \A x \in B : x[1] = m + 1
    OBVIOUS
  <2>3. m + 1 \notin 1..m
    BY <1>1
  <2> QED BY <2>1, <2>2, <2>3
<1>7. IsFiniteSet(S)
  BY <1>1, PlacesFinite
<1>8. \A j, i : <<j, i>> \in S <=> j \in f..Len(h) /\ i \in 0..Len(h[j])
  BY DEF Places
<1>9. \A x \in S : x = <<x[1], x[2]>>
  BY DEF Places
<1>10. \A j, i : <<j, i>> \in A <=> j \in 1..m /\ i \in 0..Len(h[f + j - 1])
  <2>1. \A j, i : <<j, i>> \in A <=> j \in 1..m /\ i \in 0..Len(g[j])
    OBVIOUS
  <2> HIDE DEF A, m
  <2> QED BY <2>1, <1>3
<1>11. \A x \in A : x = <<x[1], x[2]>>
  OBVIOUS
<1> HIDE DEF A, S
<1>12. F \in [S -> A]
  <2> SUFFICES ASSUME NEW x \in S PROVE <<x[1] - f + 1, x[2]>> \in A
    OBVIOUS
  <2>1. x[1] \in f..Len(h) /\ x[2] \in 0..Len(h[x[1]])
    BY <1>8, <1>9
  <2>2. x[1] - f + 1 \in 1..m /\ f + (x[1] - f + 1) - 1 = x[1]
    BY <1>1, <2>1
  <2> QED BY <2>1, <2>2, <1>10
<1>13. \A x, y \in S : F[x] = F[y] => x = y
  <2> SUFFICES ASSUME NEW x \in S, NEW y \in S, F[x] = F[y] PROVE x = y
    OBVIOUS
  <2>1. x[1] - f + 1 = y[1] - f + 1 /\ x[2] = y[2]
    OBVIOUS
  <2>2. x[1] \in f..Len(h) /\ y[1] \in f..Len(h)
    BY <1>8, <1>9
  <2>3. \A u, v \in Int : u - f + 1 = v - f + 1 => u = v
    BY <1>1
  <2>4. x[1] = y[1]
    BY <1>1, <2>1, <2>2, <2>3
  <2> QED BY <2>1, <2>4, <1>9
<1>14. \A y \in A : \E x \in S : F[x] = y
  <2> SUFFICES ASSUME NEW y \in A PROVE \E x \in S : F[x] = y
    OBVIOUS
  <2>1. y[1] \in 1..m /\ y[2] \in 0..Len(h[f + y[1] - 1])
    BY <1>10, <1>11
  <2>2. f + y[1] - 1 \in f..Len(h) /\ (f + y[1] - 1) - f + 1 = y[1]
    <3>1. \A u \in 1..m : f + u - 1 \in f..Len(h) /\ (f + u - 1) - f + 1 = u
      BY <1>1
    <3> QED BY <2>1, <3>1
  <2>3. <<f + y[1] - 1, y[2]>> \in S
    BY <1>8, <2>1, <2>2
  <2>4. F[<<f + y[1] - 1, y[2]>>] = <<y[1], y[2]>>
    BY <2>2, <2>3
  <2> QED BY <2>3, <2>4, <1>11
<1> HIDE DEF F
<1>15. IsFiniteSet(A) /\ Cardinality(A) = Cardinality(S)
  <2>1. F \in Bijection(S, A)
    BY <1>12, <1>13, <1>14 DEF Bijection, Injection, Surjection, IsInjective
  <2>2. ExistsBijection(S, A)
    BY <2>1 DEF ExistsBijection
  <2> QED BY <2>2, <1>7, FS_Bijection
<1>16. IsFiniteSet(B) /\ Cardinality(B) = Len(line) + 1
  <2>1. IsFiniteSet({m + 1}) /\ Cardinality({m + 1}) = 1
    BY FS_Singleton
  <2>2. IsFiniteSet(0..Len(line)) /\ Cardinality(0..Len(line)) = Len(line) + 1
    BY <1>1, FS_Interval
  <2>3. IsFiniteSet(B) /\ Cardinality(B) = Cardinality({m + 1}) * Cardinality(0..Len(line))
    BY <2>1, <2>2, FS_Product
  <2>4. Cardinality(B) = 1 * (Len(line) + 1)
    BY <2>1, <2>2, <2>3
  <2> QED BY <1>1, <2>3, <2>4
<1> HIDE DEF B
<1>17. Cardinality(A \cup B) = Cardinality(A) + Cardinality(B) - Cardinality(A \cap B)
  BY <1>15, <1>16, FS_Union
<1>18. Cardinality(A \cap B) = 0 /\ Cardinality(S) \in Nat
  BY <1>6, <1>7, FS_EmptySet, FS_CardinalityType
<1>19. Cardinality(Places(g, 1)) = Cardinality(S) + Len(line) + 1
  <2>1. Cardinality(A \cup B) = Cardinality(S) + (Len(line) + 1) - 0
    BY <1>15, <1>16, <1>17, <1>18
  <2> HIDE DEF m
  <2>2. \A u, v \in Nat : u + (v + 1) - 0 = u + v + 1
    OBVIOUS
  <2>3. Cardinality(S) + (Len(line) + 1) - 0 = Cardinality(S) + Len(line) + 1
    BY <1>1, <1>18, <2>2
  <2> QED BY <1>5, <2>1, <2>3
<1> QED BY <1>4, <1>19 DEF S, g, old

\* A command is added: the oldest give way, and the array is enough.
LEMMA AddStep ==
  ASSUME LineInv, HistoryInv, history_add
  PROVE /\ Entered(history') /\ Used(1)' <= HistorySize
<1>1. /\ Entered(history) /\ Short(cmd) /\ Len(cmd) \in Nat /\ Len(cmd) < CmdSize
      /\ CmdSize \in Nat /\ HistorySize \in Nat /\ CmdSize <= HistorySize /\ Len(history) \in Nat
  BY ConsoleAssumption DEF LineInv, HistoryInv, Entered, Short, Lines
<1>2. \A f : Used(f) = Cardinality(Places(history, f))
  BY DEF Used, Places
<1>3. Used(1)' = Cardinality(Places(history', 1))
  BY DEF Used, Places
<1>4. CASE cmd = <<>> \/ IsLast
  <2>1. history' = history
    BY <1>4 DEF history_add
  <2> QED BY <2>1, <1>1, <1>2, <1>3 DEF HistoryInv
<1>5. CASE ~(cmd = <<>> \/ IsLast)
  <2> DEFINE K == {i \in 1..Len(history) + 1 : Room(i)}
             Q(i) == Room(i) /\ \A j \in 1..i-1 : ~Room(j)
             first == CHOOSE i \in 1..Len(history) + 1 : Q(i)
  <2>1. Room(Len(history) + 1)
    <3>1. Places(history, Len(history) + 1) = {}
      <4>1. (Len(history) + 1)..Len(history) = {}
        BY <1>1
      <4> QED BY <4>1 DEF Places
    <3>2. Used(Len(history) + 1) = 0
      BY <1>2, <3>1, FS_EmptySet
    <3> QED BY <1>1, <3>2 DEF Room
  <2>2. K \subseteq Nat /\ K # {}
    BY <1>1, <2>1
  <2>3. Min(K) \in K /\ \A i \in K : Min(K) <= i
    BY <2>2, MinIn
  <2>4. \E i \in 1..Len(history) + 1 : Q(i)
    <3>1. Min(K) \in 1..Len(history) + 1 /\ Room(Min(K))
      BY <2>3
    <3>2. ASSUME NEW j \in 1..Min(K)-1, Room(j) PROVE FALSE
      <4>1. j \in 1..Len(history) + 1 /\ j < Min(K)
        BY <1>1, <3>1, <3>2
      <4>2. j \in K
        BY <4>1, <3>2
      <4> QED BY <4>1, <4>2, <2>3, <3>1
    <3> QED BY <3>1, <3>2
  <2>5. first \in 1..Len(history) + 1 /\ Q(first)
    BY <2>4
  <2>6. history' = Append(SubSeq(history, first, Len(history)), cmd)
    BY <1>5 DEF history_add
  <2> HIDE DEF first
  <2>7. /\ Entered(history')
        /\ Cardinality(Places(history', 1)) = Cardinality(Places(history, first)) + Len(cmd) + 1
    BY <1>1, <2>5, <2>6, KeptPlaces
  <2>8. Used(first) + Len(cmd) + 1 <= HistorySize
    BY <2>5 DEF Room
  <2> QED BY <1>2, <1>3, <2>7, <2>8
<1> QED BY <1>4, <1>5

\* A step that leaves the history alone.
LEMMA SameHistory ==
  ASSUME HistoryInv, UNCHANGED <<history, orig_cmd, orig_cmdlen>>, history_pos' \in 0..Len(history)
  PROVE HistoryInv'
<1>1. history' = history /\ orig_cmd' = orig_cmd /\ orig_cmdlen' = orig_cmdlen
  OBVIOUS
<1>2. Used(1)' = Used(1)
  BY <1>1 DEF Used
<1> QED BY <1>1, <1>2 DEF HistoryInv

\* A step that leaves the line and the terminal alone.
LEMMA SameLine ==
  ASSUME LineInv, UNCHANGED <<cmd, cmdpos, term>>
  PROVE LineInv'
BY DEF LineInv

\* What strlen sees of the line that was put aside fits the array.
LEMMA KeptIsShort == ASSUME HistoryInv PROVE Short(Kept)
<1> DEFINE ends == {i \in 1..CmdSize : orig_cmd[i] = NoByte}
           m    == CHOOSE i \in ends : \A j \in ends : i <= j
<1>1. CmdSize \in Nat \ {0}
  BY ConsoleAssumption
<1>2. CmdSize \in ends /\ ends \subseteq Nat
  BY <1>1 DEF HistoryInv
<1>3. m \in ends /\ \A j \in ends : m <= j
  <2>1. Min(ends) \in ends /\ \A j \in ends : Min(ends) <= j
    BY <1>2, MinIn
  <2> QED BY <2>1
<1> HIDE DEF m
<1>4. m \in 1..CmdSize
  BY <1>3
<1>5. \A i \in 1..m-1 : orig_cmd[i] \in Printable
  <2> SUFFICES ASSUME NEW i \in 1..m-1 PROVE orig_cmd[i] \in Printable
    OBVIOUS
  <2>1. i \in 1..CmdSize /\ i < m
    BY <1>1, <1>4
  <2>2. i \notin ends
    BY <1>3, <1>4, <2>1
  <2> QED BY <2>1, <2>2 DEF HistoryInv
<1>6. /\ SubSeq(orig_cmd, 1, m - 1) \in Lines
      /\ Len(SubSeq(orig_cmd, 1, m - 1)) = IF 1 <= m - 1 THEN m - 1 - 1 + 1 ELSE 0
  BY <1>4, <1>5, SubSeqProperties DEF Lines
<1>7. Len(SubSeq(orig_cmd, 1, m - 1)) < CmdSize
  BY <1>1, <1>4, <1>6
<1>8. Kept = SubSeq(orig_cmd, 1, m - 1)
  BY DEF Kept, m
<1> QED BY <1>6, <1>7, <1>8 DEF Short

\* Putting the line aside does not reach the last byte of orig_cmd.
LEMMA KeepStep ==
  ASSUME LineInv, HistoryInv, Keep, history' = history, history_pos' \in 0..Len(history)
  PROVE HistoryInv'
<1>1. Used(1)' = Used(1)
  BY DEF Used
<1>2. CASE history_pos = 0
  <2> DEFINE o == [i \in 1..CmdSize |-> IF i <= Len(cmd) THEN cmd[i] ELSE orig_cmd[i]]
  <2>1. orig_cmd' = o /\ orig_cmdlen' = Len(cmd)
    BY <1>2 DEF Keep
  <2>2. CmdSize \in Nat \ {0} /\ Len(cmd) \in Nat /\ Len(cmd) < CmdSize /\ cmd \in Lines
    BY ConsoleAssumption DEF LineInv, Short, Lines
  <2>3. o \in [1..CmdSize -> Printable \cup {NoByte}]
    <3> SUFFICES ASSUME NEW i \in 1..CmdSize
                 PROVE (IF i <= Len(cmd) THEN cmd[i] ELSE orig_cmd[i]) \in Printable \cup {NoByte}
      OBVIOUS
    <3>1. CASE i <= Len(cmd)
      <4>1. i \in 1..Len(cmd)
        BY <2>2, <3>1
      <4>2. cmd[i] \in Printable
        BY <4>1, <2>2 DEF Lines
      <4> QED BY <3>1, <4>2
    <3>2. CASE ~(i <= Len(cmd))
      BY <3>2 DEF HistoryInv
    <3> QED BY <3>1, <3>2
  <2>4. o[CmdSize] = NoByte
    <3>1. CmdSize \in 1..CmdSize /\ ~(CmdSize <= Len(cmd))
      BY <2>2
    <3> QED BY <3>1 DEF HistoryInv
  <2> HIDE DEF o
  <2> QED BY <1>1, <2>1, <2>2, <2>3, <2>4 DEF HistoryInv
<1>3. CASE history_pos # 0
  <2>1. UNCHANGED <<history, orig_cmd, orig_cmdlen>>
    BY <1>3 DEF Keep
  <2> QED BY <2>1, SameHistory
<1> QED BY <1>2, <1>3

\* A step back in the history.
LEMMA PrevStep ==
  ASSUME LineInv, HistoryInv, history_prev, history' = history
  PROVE LineInv' /\ HistoryInv'
<1>1. Len(history) \in Nat /\ history_pos \in 0..Len(history)
  BY DEF HistoryInv
<1>2. CASE HasOlder
  <2> DEFINE e == Entry(history_pos)
  <2>1. Len(history) - history_pos \in 1..Len(history) /\ history_pos' \in 0..Len(history)
    BY <1>1, <1>2 DEF HasOlder, history_prev
  <2>2. Short(e)
    BY <2>1 DEF Entry, HistoryInv
  <2>3. Len(e) \in Nat
    BY <2>2 DEF Short, Lines
  <2>4. cmd_set(e, Len(e)) /\ Keep
    BY <1>2 DEF history_prev
  <2> HIDE DEF e
  <2>5. LineInv'
    BY <2>2, <2>3, <2>4, SetStep
  <2> QED BY <2>1, <2>4, <2>5, KeepStep
<1>3. CASE ~HasOlder
  <2>1. UNCHANGED <<history_pos, cmd, cmdpos, term>> /\ Keep
    BY <1>3 DEF history_prev, tvars
  <2> QED BY <1>1, <2>1, KeepStep, SameLine
<1> QED BY <1>2, <1>3

\* A step forth, at last to the line that was put aside.
LEMMA NextStep ==
  ASSUME LineInv, HistoryInv, history_next, history' = history
  PROVE LineInv' /\ HistoryInv'
<1>1. /\ Len(history) \in Nat /\ history_pos \in 0..Len(history)
      /\ UNCHANGED <<history, orig_cmd, orig_cmdlen>>
  BY DEF HistoryInv, history_next
<1>2. CASE history_pos = 0
  <2>1. UNCHANGED <<history_pos, cmd, cmdpos, term>>
    BY <1>2 DEF history_next, tvars
  <2> QED BY <1>1, <2>1, SameHistory, SameLine
<1>3. CASE history_pos = 1
  <2>1. history_pos' = 0 /\ cmd_set(Kept, orig_cmdlen)
    BY <1>3 DEF history_next
  <2>2. orig_cmdlen \in Nat /\ history_pos' \in 0..Len(history)
    BY <1>1, <2>1 DEF HistoryInv
  <2> QED BY <1>1, <2>1, <2>2, KeptIsShort, SetStep, SameHistory
<1>4. CASE history_pos > 1
  <2> DEFINE e == Entry(history_pos - 2)
  <2>1. history_pos' = history_pos - 1 /\ cmd_set(e, Len(e))
    BY <1>1, <1>4 DEF history_next
  <2>2. Len(history) - (history_pos - 2) \in 1..Len(history) \/ history_pos = 1
    BY <1>1, <1>4
  <2>3. history_pos' \in 0..Len(history)
    BY <1>1, <1>4, <2>1
  <2>4. Short(e)
    BY <1>4, <2>2 DEF Entry, HistoryInv
  <2>5. Len(e) \in Nat
    BY <2>4 DEF Short, Lines
  <2> HIDE DEF e
  <2> QED BY <1>1, <2>1, <2>3, <2>4, <2>5, SetStep, SameHistory
<1> QED BY <1>1, <1>2, <1>3, <1>4

\* A new prompt.
LEMMA FreshStep ==
  ASSUME Fresh
  PROVE LineInv' /\ history_pos' = 0
<1>1. <<>> \in Seq(Printable) /\ Len(<<>>) = 0 /\ 0 \in 0..0
  OBVIOUS
<1>2. CmdSize \in Nat \ {0}
  BY ConsoleAssumption
<1>3. cmd' = <<>> /\ cmdpos' = 0 /\ term' = [text |-> <<>>, cur |-> 0] /\ history_pos' = 0
  BY DEF Fresh, NewLine
<1>4. Short(<<>>)
  BY <1>1, <1>2 DEF Short, Lines
<1> QED BY <1>1, <1>3, <1>4 DEF LineInv

\* A byte outside of escape sequences.
LEMMA NormalStep ==
  ASSUME LineInv, HistoryInv, NEW b, Normal(b)
  PROVE LineInv' /\ HistoryInv' /\ escape_seq' = escape_seq
<1>1. /\ Len(cmd) \in Nat /\ cmdpos \in 0..Len(cmd) /\ Short(cmd)
      /\ term = [text |-> cmd, cur |-> cmdpos] /\ term.cur = cmdpos
  BY DEF LineInv, Short, Lines
<1>2. history_pos \in 0..Len(history) /\ Len(history) \in Nat
  BY DEF HistoryInv
<1>3. CASE b \in Printable /\ cmd_append(b) /\ UNCHANGED <<evars, hvars>>
  BY <1>2, <1>3, AppendStep, SameHistory DEF evars, hvars
<1>4. CASE Backspace /\ UNCHANGED <<evars, hvars>>
  <2>1. HistoryInv' /\ escape_seq' = escape_seq
    BY <1>2, <1>4, SameHistory DEF evars, hvars
  <2>2. CASE cmdpos = 0
    <3>1. UNCHANGED <<cmd, cmdpos, term>>
      BY <1>4, <2>2 DEF Backspace
    <3> QED BY <2>1, <3>1, SameLine
  <2>3. CASE cmdpos # 0
    <3>1. cmd_del(cmdpos - 1, MoveTo(term, term.cur - 1))
      BY <1>4, <2>3 DEF Backspace
    <3>2. MoveTo(term, term.cur - 1) = [text |-> cmd, cur |-> cmdpos - 1]
      BY <1>1, Moved
    <3>3. cmdpos - 1 \in 0..Len(cmd)
      BY <1>1, <2>3
    <3>4. cmd_del(cmdpos - 1, [text |-> cmd, cur |-> cmdpos - 1])
      BY <3>1, <3>2
    <3> QED BY <2>1, <3>3, <3>4, DelStep
  <2> QED BY <2>2, <2>3
<1>5. CASE (cmd_set(cmd, 0) \/ cmd_set(cmd, Len(cmd))) /\ UNCHANGED <<evars, hvars>>
  <2>1. LineInv'
    BY <1>1, <1>5, SetStep
  <2> QED BY <1>2, <1>5, <2>1, SameHistory DEF evars, hvars
<1>6. CASE Fresh /\ UNCHANGED <<evars, history, orig_cmd, orig_cmdlen>>
  <2>1. LineInv' /\ history_pos' \in 0..Len(history)
    BY <1>2, <1>6, FreshStep
  <2> QED BY <1>6, <2>1, SameHistory DEF evars
<1>7. CASE history_add /\ Fresh /\ UNCHANGED <<evars, orig_cmd, orig_cmdlen>>
  <2>1. LineInv' /\ history_pos' = 0
    BY <1>7, FreshStep
  <2>2. Entered(history') /\ Used(1)' <= HistorySize
    BY <1>7, AddStep
  <2>3. history_pos' \in 0..Len(history')
    BY <2>1, <2>2 DEF Entered
  <2> QED BY <1>7, <2>1, <2>2, <2>3 DEF HistoryInv, Entered, evars
<1>8. CASE UNCHANGED <<escape_seq, cmd, cmdpos, hvars, term>>
  BY <1>2, <1>8, SameHistory, SameLine DEF hvars
<1>9. \/ b \in Printable /\ cmd_append(b) /\ UNCHANGED <<evars, hvars>>
      \/ Backspace /\ UNCHANGED <<evars, hvars>>
      \/ (cmd_set(cmd, 0) \/ cmd_set(cmd, Len(cmd))) /\ UNCHANGED <<evars, hvars>>
      \/ Fresh /\ UNCHANGED <<evars, history, orig_cmd, orig_cmdlen>>
      \/ history_add /\ Fresh /\ UNCHANGED <<evars, orig_cmd, orig_cmdlen>>
      \/ UNCHANGED <<escape_seq, cmd, cmdpos, hvars, term>>
  <2>1. Complain /\ UNCHANGED evars => UNCHANGED <<escape_seq, cmd, cmdpos, hvars, term>>
    BY DEF Complain, evars
  <2>2. UNCHANGED <<escape_seq, cmd, cmdpos, hvars, tvars>>
          => UNCHANGED <<escape_seq, cmd, cmdpos, hvars, term>>
    BY DEF tvars
  <2> HIDE DEF Complain
  <2> QED BY <2>1, <2>2 DEF Normal
<1> QED BY <1>3, <1>4, <1>5, <1>6, <1>7, <1>8, <1>9

\* A complete sequence.
LEMMA MeaningStep ==
  ASSUME LineInv, HistoryInv, NEW s, escape_seq_process(s)
  PROVE LineInv' /\ HistoryInv' /\ escape_seq' = <<>>
<1>1. /\ Len(cmd) \in Nat /\ cmdpos \in 0..Len(cmd) /\ Short(cmd)
      /\ term = [text |-> cmd, cur |-> cmdpos] /\ term.cur = cmdpos
  BY DEF LineInv, Short, Lines
<1>2. history_pos \in 0..Len(history) /\ escape_seq' = <<>>
  BY DEF HistoryInv, escape_seq_process, EscEnd
<1>3. CASE (history_prev \/ history_next) /\ UNCHANGED history
  BY <1>2, <1>3, PrevStep, NextStep
<1>4. CASE /\ cmdpos' \in {IF cmdpos > 0 THEN cmdpos - 1 ELSE 0,
                           IF cmdpos < Len(cmd) THEN cmdpos + 1 ELSE cmdpos}
           /\ term' = MoveTo(term, term.cur + cmdpos' - cmdpos)
           /\ UNCHANGED <<cmd, hvars>>
  <2>1. cmdpos' \in 0..Len(cmd)
    BY <1>1, <1>4
  <2>2. term.cur + cmdpos' - cmdpos = cmdpos'
    <3>1. \A u, v \in Nat : u + v - u = v
      OBVIOUS
    <3>2. cmdpos \in Nat /\ cmdpos' \in Nat
      BY <1>1, <2>1
    <3> QED BY <1>1, <3>1, <3>2
  <2>3. term' = [text |-> cmd, cur |-> cmdpos']
    BY <1>1, <1>4, <2>2, Moved
  <2>4. LineInv'
    BY <1>1, <1>4, <2>1, <2>3 DEF LineInv
  <2> QED BY <1>2, <1>4, <2>4, SameHistory DEF hvars
<1>5. CASE cmd_del(cmdpos, term) /\ UNCHANGED hvars
  <2>1. cmd_del(cmdpos, [text |-> cmd, cur |-> cmdpos])
    BY <1>1, <1>5
  <2> QED BY <1>1, <1>2, <1>5, <2>1, DelStep, SameHistory DEF hvars
<1>6. CASE UNCHANGED <<cmd, cmdpos, hvars, term>>
  BY <1>2, <1>6, SameHistory, SameLine DEF hvars
<1> HIDE DEF history_prev, history_next, cmd_del
<1> QED BY <1>3, <1>4, <1>5, <1>6 DEF escape_seq_process, tvars

\* One more byte of a sequence, if there is room for it.
LEMMA AppendedFits ==
  ASSUME SequenceInv, NEW b \in Printable
  PROVE Appended(b) \in Seq(Printable) /\ Len(Appended(b)) < EscSize
<1>1. EscSize \in Nat /\ Len(escape_seq) \in Nat /\ escape_seq \in Seq(Printable)
  BY ConsoleAssumption DEF SequenceInv
<1>2. CASE Len(escape_seq) >= EscSize - 1
  BY <1>2 DEF Appended, SequenceInv
<1>3. CASE ~(Len(escape_seq) >= EscSize - 1)
  <2>1. Appended(b) = Append(escape_seq, b)
    BY <1>3 DEF Appended
  <2>2. Append(escape_seq, b) \in Seq(Printable)
        /\ Len(Append(escape_seq, b)) = Len(escape_seq) + 1
    BY <1>1
  <2> QED BY <1>1, <1>3, <2>1, <2>2
<1> QED BY <1>2, <1>3

\* Every byte keeps what is known.
LEMMA ConsoleStep == ConsoleInv /\ [DNext]_dvars => ConsoleInv'
<1> SUFFICES ASSUME ConsoleInv, [DNext]_dvars PROVE ConsoleInv'
  OBVIOUS
<1> USE DEF ConsoleInv
<1>1. history_pos \in 0..Len(history)
  BY DEF HistoryInv
<1>2. <<>> \in Seq(Printable) /\ Len(<<>>) = 0 /\ 0 < EscSize
  BY ConsoleAssumption
<1>3. ASSUME NEW b, Normal(b) PROVE ConsoleInv'
  BY <1>3, NormalStep DEF SequenceInv
<1>4. ASSUME NEW s, escape_seq_process(s) PROVE ConsoleInv'
  BY <1>2, <1>4, MeaningStep DEF SequenceInv
<1>5. ASSUME NEW b \in Printable, NEW s, More(b, s) PROVE ConsoleInv'
  <2>1. UNCHANGED <<cmd, cmdpos, hvars, term>> /\ escape_seq' = Appended(b)
    BY <1>5 DEF More, tvars
  <2>2. LineInv' /\ HistoryInv'
    BY <1>1, <2>1, SameHistory, SameLine DEF hvars
  <2> QED BY <2>1, <2>2, AppendedFits DEF SequenceInv
<1>6. ASSUME UNCHANGED <<cmd, cmdpos, hvars, term>>, escape_seq' \in {escape_seq, <<>>}
      PROVE ConsoleInv'
  BY <1>1, <1>2, <1>6, SameHistory, SameLine DEF hvars, SequenceInv
<1>7. CASE DNext
  <2>1. PICK b \in Bytes : debug_process(b)
    BY <1>7 DEF DNext
  <2>2. Complain => UNCHANGED <<cmd, cmdpos, hvars, term>>
    BY DEF Complain
  <2>3. EscEnd => escape_seq' = <<>>
    BY DEF EscEnd
  <2>4. ASSUME AfterEsc(b) PROVE ConsoleInv'
    <3>1. UNCHANGED <<escape_seq, cmd, cmdpos, hvars, tvars>>
            => UNCHANGED <<cmd, cmdpos, hvars, term>> /\ escape_seq' \in {escape_seq, <<>>}
      BY DEF tvars
    <3>2. Complain /\ UNCHANGED escape_seq
            => UNCHANGED <<cmd, cmdpos, hvars, term>> /\ escape_seq' \in {escape_seq, <<>>}
      BY <2>2
    <3>3. \/ UNCHANGED <<escape_seq, cmd, cmdpos, hvars, tvars>>
          \/ Complain /\ UNCHANGED escape_seq
          \/ Normal(b)
      BY <2>4 DEF AfterEsc
    <3> QED BY <1>3, <1>6, <3>1, <3>2, <3>3
  <2>5. Final \subseteq Printable /\ Between \subseteq Printable
    BY DEF Printable
  <2>6. EscEnd /\ Complain
          => UNCHANGED <<cmd, cmdpos, hvars, term>> /\ escape_seq' \in {escape_seq, <<>>}
    BY <2>2, <2>3
  <2>7. ASSUME InSequence(b) PROVE ConsoleInv'
    <3>1. \/ EscEnd /\ Complain
          \/ escape_seq_process(Appended(b))
          \/ b \in Printable /\ \E s \in {2, 3} : More(b, s)
      BY <2>5, <2>7 DEF InSequence
    <3> QED BY <1>4, <1>5, <1>6, <2>6, <3>1
  <2>8. ASSUME AfterBetween(b) PROVE ConsoleInv'
    <3>1. \/ EscEnd /\ Complain
          \/ escape_seq_process(Appended(b))
          \/ b \in Printable /\ More(b, 3)
      BY <2>5, <2>8 DEF AfterBetween
    <3> QED BY <1>4, <1>5, <1>6, <2>6, <3>1
  <2> QED BY <1>3, <2>1, <2>4, <2>7, <2>8 DEF debug_process
<1>8. CASE UNCHANGED dvars
  <2>1. UNCHANGED <<cmd, cmdpos, hvars, term>> /\ escape_seq' \in {escape_seq, <<>>}
    BY <1>8 DEF dvars, evars, tvars
  <2> QED BY <1>6, <2>1
<1> QED BY <1>7, <1>8

\* The console begins with an empty line, history and sequence.
LEMMA ConsoleInit == DInit => ConsoleInv
<1> SUFFICES ASSUME DInit PROVE ConsoleInv
  OBVIOUS
<1>1. <<>> \in Seq(Printable) /\ <<>> \in Seq(Lines) /\ Len(<<>>) = 0 /\ 0 \in 0..0 /\ 1..0 = {}
  OBVIOUS
<1>2. CmdSize \in Nat \ {0} /\ EscSize \in Nat \ {0, 1} /\ HistorySize \in Nat
  BY ConsoleAssumption
<1>3. LineInv
  BY <1>1, <1>2 DEF DInit, NewLine, LineInv, Short, Lines
<1>4. SequenceInv
  BY <1>1, <1>2 DEF DInit, SequenceInv
<1>5. Used(1) = 0
  BY <1>1, FS_EmptySet DEF DInit, Used
<1>6. HistoryInv
  BY <1>1, <1>2, <1>5 DEF DInit, HistoryInv
<1> QED BY <1>3, <1>4, <1>6 DEF ConsoleInv

\* ConsoleInv holds after any bytes, whatever the sizes of the arrays.
THEOREM ConsoleInvariance == DSpec => []ConsoleInv
<1> QED BY ConsoleInit, ConsoleStep, PTL DEF DSpec

\* Nothing is read or written outside the arrays of the console, the history's
\* included (debug.c:33, 68, 109-148, 173, 273).
THEOREM AlwaysInBounds == DSpec => []InBounds
<1>1. ConsoleInv => InBounds
  <2> SUFFICES ASSUME ConsoleInv PROVE InBounds
    OBVIOUS
  <2>1. CmdSize \in 1..CmdSize
    BY ConsoleAssumption
  <2>2. ArraysInBounds
    BY <2>1 DEF ConsoleInv, LineInv, Short, HistoryInv, SequenceInv, ArraysInBounds
  <2>3. PositionInHistory
    BY DEF ConsoleInv, HistoryInv, PositionInHistory
  <2> QED BY <2>2, <2>3 DEF InBounds
<1> QED BY <1>1, ConsoleInvariance, PTL

\* The user edits what the screen shows (debug.c:36-46, 56-63, 132-139, 185-196,
\* 296-299).
THEOREM ScreenAlwaysShowsLine == DSpec => []ScreenShowsLine
<1>1. ConsoleInv => ScreenShowsLine
  BY DEF ConsoleInv, LineInv, ScreenShowsLine
<1> QED BY <1>1, ConsoleInvariance, PTL
=============================================================================
