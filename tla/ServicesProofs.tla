---------------------------- MODULE ServicesProofs -----------------------------
(***************************************************************************)
(* Proofs about what the mailbox's commands rest on.  First what they need *)
(* of numbers: induction, recursion, powers and remainders.  Then Ebg, for *)
(* every size of the two buffers, of a sample's run and of a digest: a pull *)
(* from a circular buffer takes what is oldest and erases it, a push that  *)
(* fits appends, wherever the memory ends; then the two streams of bytes.  *)
(*                                                                         *)
(* Then ApMem, for all sizes of words, windows and RAM and whatever the AP *)
(* asks for: the window to its memory is put back, a command that fails    *)
(* writes nothing, and one that is served covers every request, piece by   *)
(* piece, exactly.                                                         *)
(*                                                                         *)
(* Then Ecdsa: no nonce stays in a coprocessor; numbers are what their     *)
(* words add up to, and every operation on words the one on numbers; what  *)
(* is signed is valid, verification accepts exactly what is, and the two   *)
(* command handlers implement Signer.  Last Board: who a board             *)
(* is, by its fuses or by its wiring.                                      *)
(***************************************************************************)
EXTENDS Ebg, ApMem, EcdsaRefinement, Board, SequenceTheorems, WellFoundedInduction, TLAPS

-----------------------------------------------------------------------------
(***************************************************************************)
(* Induction on sets of numbers.                                            *)
(***************************************************************************)
\* Numbers have a least one.
LEMMA Least ==
  ASSUME NEW D \in SUBSET Nat, D # {}
  PROVE  \E m \in D : \A n \in D : m <= n
<1> DEFINE R == OpToRel(<, Nat)
<1>1. IsWellFoundedOn(R, Nat)
  BY NatLessThanWellFounded
<1>2. \A x, y \in Nat : x < y => <<x, y>> \in R
  BY DEF OpToRel
<1> HIDE DEF R
<1>3. PICK m \in D : \A n \in D : ~(<<n, m>> \in R)
  BY <1>1, WFMin
<1>4. ASSUME NEW n \in D PROVE m <= n
  <2>1. m \in Nat /\ n \in Nat /\ ~(<<n, m>> \in R)
    BY <1>3
  <2>2. ~(n < m)
    BY <1>2, <2>1
  <2> QED BY <2>1, <2>2
<1> QED BY <1>4

\* What holds of 0, and of n + 1 if of n.
LEMMA NatSet ==
  ASSUME NEW T, 0 \in T, \A n \in Nat : n \in T => n + 1 \in T
  PROVE  \A n \in Nat : n \in T
<1> SUFFICES ASSUME Nat \ T # {} PROVE FALSE
  OBVIOUS
<1>1. PICK m \in Nat \ T : \A n \in Nat \ T : m <= n
  BY Least
<1>2. m # 0 /\ m - 1 \in Nat
  BY <1>1
<1>3. m - 1 \in T
  BY <1>1, <1>2
<1> QED BY <1>1, <1>2, <1>3

\* Up to a bound.
LEMMA UpTo ==
  ASSUME NEW N \in Nat, NEW T, 0 \in T, \A n \in 0..N-1 : n \in T => n + 1 \in T
  PROVE  0..N \subseteq T
<1> DEFINE U == {n \in Nat : n <= N => n \in T}
<1>1. 0 \in U
  OBVIOUS
<1>2. \A n \in Nat : n \in U => n + 1 \in U
  OBVIOUS
<1> HIDE DEF U
<1>3. \A n \in Nat : n \in U
  BY <1>1, <1>2, NatSet
<1> QED BY <1>3 DEF U

(***************************************************************************)
(* Primitive recursion: a function is defined by its value at 0 and the     *)
(* step to the next value.                                                  *)
(***************************************************************************)
Iterates(g, N, a, step) == g[0] = a /\ \A n \in 0..N-1 : g[n + 1] = step[n][g[n]]

\* There is one for every value at 0 and every step.
LEMMA Recursion ==
  ASSUME NEW S, NEW a \in S, NEW N \in Nat, NEW step \in [0..N-1 -> [S -> S]]
  PROVE  \E g \in [0..N -> S] : Iterates(g, N, a, step)
<1> DEFINE T == {j \in 0..N : \E g \in [0..j -> S] : Iterates(g, j, a, step)}
<1>1. 0 \in T
  <2>1. [i \in 0..0 |-> a] \in [0..0 -> S] /\ Iterates([i \in 0..0 |-> a], 0, a, step)
    BY DEF Iterates
  <2> QED BY <2>1
<1>2. ASSUME NEW j \in 0..N-1, j \in T PROVE j + 1 \in T
  <2>1. PICK g \in [0..j -> S] : Iterates(g, j, a, step)
    BY <1>2
  <2> DEFINE h == [i \in 0..j+1 |-> IF i <= j THEN g[i] ELSE step[j][g[j]]]
  <2>2. j \in 0..j /\ g[j] \in S /\ step[j] \in [S -> S]
    OBVIOUS
  <2>3. h \in [0..j+1 -> S]
    BY <2>2
  <2>4. \A i \in 0..j : h[i] = g[i]
    OBVIOUS
  <2>5. h[j + 1] = step[j][h[j]]
    BY <2>2
  <2> HIDE DEF h
  <2>6. Iterates(h, j + 1, a, step)
    BY <2>1, <2>4, <2>5 DEF Iterates
  <2> QED BY <2>3, <2>6
<1> HIDE DEF T
<1>3. 0..N \subseteq T
  BY <1>1, <1>2, UpTo
<1>4. N \in T
  BY <1>3
<1> QED BY <1>4 DEF T

\* There is no other.
LEMMA FollowsOnce ==
  ASSUME NEW N \in Nat, NEW a, NEW step, NEW g, NEW h,
         Iterates(g, N, a, step), Iterates(h, N, a, step)
  PROVE  \A n \in 0..N : g[n] = h[n]
<1> DEFINE T == {n \in 0..N : g[n] = h[n]}
<1>1. 0 \in T
  BY DEF Iterates
<1>2. \A n \in 0..N-1 : n \in T => n + 1 \in T
  BY DEF Iterates
<1> HIDE DEF T
<1>3. 0..N \subseteq T
  BY <1>1, <1>2, UpTo
<1> QED BY <1>3 DEF T

-----------------------------------------------------------------------------
(***************************************************************************)
(* Powers.                                                                 *)
(***************************************************************************)
\* The powers of b up to its n-th.
PowUp(b, n) == CHOOSE f : f = [i \in 0..n |-> IF i = 0 THEN 1 ELSE b * f[i - 1]]

\* They are what Pow is computed with.
LEMMA PowFollows ==
  ASSUME NEW b \in Nat, NEW n \in Nat
  PROVE  /\ PowUp(b, n) \in [0..n -> Nat] /\ Pow(b, n) = PowUp(b, n)[n]
         /\ PowUp(b, n)[0] = 1 /\ \A i \in 0..n-1 : PowUp(b, n)[i + 1] = b * PowUp(b, n)[i]
<1> DEFINE step == [i \in 0..n-1 |-> [v \in Nat |-> b * v]]
<1>1. step \in [0..n-1 -> [Nat -> Nat]]
  OBVIOUS
<1> HIDE DEF step
<1>2. PICK g \in [0..n -> Nat] : Iterates(g, n, 1, step)
  BY <1>1, Recursion
<1>3. \A i \in 0..n-1 : g[i + 1] = b * g[i]
  <2>1. \A i \in 0..n-1 : g[i + 1] = step[i][g[i]] /\ g[i] \in Nat
    BY <1>2 DEF Iterates
  <2> QED BY <2>1 DEF step
<1>4. g = [i \in 0..n |-> IF i = 0 THEN 1 ELSE b * g[i - 1]]
  <2>1. ASSUME NEW i \in 0..n PROVE g[i] = IF i = 0 THEN 1 ELSE b * g[i - 1]
    <3>1. CASE i = 0
      BY <1>2, <3>1 DEF Iterates
    <3>2. CASE i # 0
      <4>1. i - 1 \in 0..n-1 /\ (i - 1) + 1 = i
        BY <3>2
      <4>2. g[(i - 1) + 1] = b * g[i - 1]
        BY <1>3, <4>1
      <4> QED BY <3>2, <4>1, <4>2
    <3> QED BY <3>1, <3>2
  <2> QED BY <2>1
<1>5. PowUp(b, n) = [i \in 0..n |-> IF i = 0 THEN 1 ELSE b * PowUp(b, n)[i - 1]]
  BY <1>4 DEF PowUp
<1> DEFINE f == PowUp(b, n)
<1> HIDE DEF f
<1>6. f[0] = 1 /\ \A i \in 0..n-1 : f[i + 1] = b * f[i]
  BY <1>5 DEF f
<1>7. \A i \in 0..n : f[i] = g[i]
  <2> DEFINE T == {i \in 0..n : f[i] = g[i]}
  <2>1. 0 \in T
    BY <1>2, <1>6 DEF Iterates
  <2>2. \A i \in 0..n-1 : i \in T => i + 1 \in T
    BY <1>3, <1>6
  <2> HIDE DEF T
  <2>3. 0..n \subseteq T
    BY <2>1, <2>2, UpTo
  <2> QED BY <2>3 DEF T
<1>8. f \in [0..n -> Nat]
  <2>1. DOMAIN f = 0..n /\ f = [i \in 0..n |-> f[i]]
    BY <1>5 DEF f
  <2> QED BY <1>7, <2>1
<1>10. Pow(b, n) = f[n]
  BY DEF Pow, PowUp, f
<1> QED BY <1>6, <1>8, <1>10 DEF f

\* What Pow is at 0 and from one exponent to the next.
LEMMA PowIs ==
  ASSUME NEW b \in Nat
  PROVE  Pow(b, 0) = 1 /\ \A n \in Nat : Pow(b, n) \in Nat /\ Pow(b, n + 1) = b * Pow(b, n)
<1>1. Pow(b, 0) = 1
  BY PowFollows
<1>2. ASSUME NEW n \in Nat PROVE Pow(b, n) \in Nat /\ Pow(b, n + 1) = b * Pow(b, n)
  <2> DEFINE f == PowUp(b, n)  g == PowUp(b, n + 1)
  <2>1. /\ f \in [0..n -> Nat] /\ Pow(b, n) = f[n] /\ f[0] = 1
        /\ \A i \in 0..n-1 : f[i + 1] = b * f[i]
    BY PowFollows
  <2>2. /\ g \in [0..n+1 -> Nat] /\ Pow(b, n + 1) = g[n + 1] /\ g[0] = 1
        /\ \A i \in 0..n : g[i + 1] = b * g[i]
    <3>1. n + 1 \in Nat /\ (n + 1) - 1 = n
      OBVIOUS
    <3> QED BY <3>1, PowFollows, ZenonT(40)
  <2> HIDE DEF f, g
  <2> DEFINE T == {i \in 0..n : f[i] = g[i]}
  <2>3. 0 \in T
    BY <2>1, <2>2
  <2>4. \A i \in 0..n-1 : i \in T => i + 1 \in T
    BY <2>1, <2>2
  <2> HIDE DEF T
  <2>5. 0..n \subseteq T
    BY <2>3, <2>4, UpTo
  <2>6. f[n] = g[n]
    BY <2>5 DEF T
  <2>7. n \in 0..n /\ f[n] \in Nat
    BY <2>1
  <2> QED BY <2>1, <2>2, <2>6, <2>7
<1> QED BY <1>1, <1>2

\* Powers of something positive are positive.
LEMMA PowPositive ==
  ASSUME NEW b \in Nat \ {0} PROVE \A n \in Nat : Pow(b, n) \in Nat \ {0}
<1> DEFINE T == {n \in Nat : Pow(b, n) \in Nat \ {0}}
<1>1. 0 \in T
  BY PowIs
<1>2. ASSUME NEW n \in Nat, n \in T PROVE n + 1 \in T
  <2>1. Pow(b, n) \in Nat \ {0} /\ Pow(b, n + 1) = b * Pow(b, n)
    BY <1>2, PowIs
  <2> QED BY <2>1
<1> HIDE DEF T
<1>3. \A n \in Nat : n \in T
  BY <1>1, <1>2, NatSet
<1> QED BY <1>3 DEF T

\* Exponents add up.
LEMMA PowAdd ==
  ASSUME NEW b \in Nat \ {0}, NEW m \in Nat
  PROVE  \A n \in Nat : Pow(b, m + n) = Pow(b, m) * Pow(b, n)
<1> DEFINE T == {n \in Nat : Pow(b, m + n) = Pow(b, m) * Pow(b, n)}
<1>1. 0 \in T
  BY PowIs
<1>2. ASSUME NEW n \in Nat, n \in T PROVE n + 1 \in T
  <2>1. Pow(b, n) \in Nat /\ Pow(b, n + 1) = b * Pow(b, n) /\ Pow(b, m) \in Nat
    BY PowIs
  <2>2. m + n \in Nat /\ m + (n + 1) = (m + n) + 1
    OBVIOUS
  <2>3. Pow(b, m + (n + 1)) = b * Pow(b, m + n)
    BY <2>2, PowIs
  <2>4. Pow(b, m + n) = Pow(b, m) * Pow(b, n)
    BY <1>2
  <2> DEFINE o == Pow(b, m)  q == Pow(b, n)
  <2>5. o \in Nat /\ q \in Nat
    BY <2>1
  <2> HIDE DEF o, q
  <2>6. b * (o * q) = o * (b * q)
    BY <2>5
  <2>7. Pow(b, m + (n + 1)) = Pow(b, m) * Pow(b, n + 1)
    BY <2>1, <2>3, <2>4, <2>6 DEF o, q
  <2> QED BY <2>7
<1> HIDE DEF T
<1>3. \A n \in Nat : n \in T
  BY <1>1, <1>2, NatSet
<1> QED BY <1>3 DEF T

\* A power of a power.
LEMMA PowOfPow ==
  ASSUME NEW b \in Nat \ {0}, NEW m \in Nat
  PROVE  \A n \in Nat : Pow(Pow(b, m), n) = Pow(b, m * n)
<1> DEFINE d == Pow(b, m)
           T == {n \in Nat : Pow(d, n) = Pow(b, m * n)}
<1>0. d \in Nat \ {0}
  BY PowPositive
<1>1. 0 \in T
  <2>1. m * 0 = 0
    OBVIOUS
  <2>2. Pow(d, 0) = 1 /\ Pow(b, 0) = 1
    BY <1>0, PowIs
  <2>3. Pow(d, 0) = Pow(b, m * 0)
    BY <2>1, <2>2
  <2> QED BY <2>3
<1>2. ASSUME NEW n \in Nat, n \in T PROVE n + 1 \in T
  <2>1. m * (n + 1) = m + m * n /\ m * n \in Nat /\ n + 1 \in Nat
    OBVIOUS
  <2>2. Pow(b, m + m * n) = Pow(b, m) * Pow(b, m * n)
    BY <2>1, PowAdd
  <2>3. Pow(d, n + 1) = d * Pow(d, n)
    BY <1>0, PowIs
  <2>4. Pow(d, n) = Pow(b, m * n)
    BY <1>2
  <2>5. Pow(d, n + 1) = Pow(b, m * (n + 1))
    BY <2>1, <2>2, <2>3, <2>4
  <2> QED BY <2>1, <2>5
<1> HIDE DEF T
<1>3. \A n \in Nat : n \in T
  BY <1>1, <1>2, NatSet
<1> QED BY <1>3 DEF T, d

\* A greater exponent, a greater power.
LEMMA PowGrows ==
  ASSUME NEW b \in Nat \ {0}, NEW m \in Nat, NEW n \in Nat, m <= n
  PROVE  Pow(b, m) <= Pow(b, n)
<1> DEFINE d == n - m  x == Pow(b, m)  y == Pow(b, d)
<1>1. d \in Nat /\ n = m + d
  OBVIOUS
<1>2. x \in Nat \ {0} /\ y \in Nat \ {0}
  BY <1>1, PowPositive
<1>3. Pow(b, n) = x * y
  <2> HIDE DEF d
  <2>1. Pow(b, m + d) = Pow(b, m) * Pow(b, d)
    BY <1>1, PowAdd
  <2> QED BY <1>1, <2>1
<1> HIDE DEF x, y
<1>4. x <= x * y
  <2> DEFINE e == y - 1
  <2>1. e \in Nat /\ y = e + 1
    BY <1>2
  <2> HIDE DEF e
  <2>2. x * y = x * e + x /\ x * e \in Nat
    BY <1>2, <2>1
  <2> QED BY <1>2, <2>2
<1> QED BY <1>3, <1>4 DEF x

-----------------------------------------------------------------------------
(* Remainders.                                                             *)

\* A number is a multiple of w and a remainder below w.
LEMMA Remainder ==
  ASSUME NEW w \in Nat \ {0}, NEW a \in Nat
  PROVE  a % w \in 0..w-1 /\ a \div w \in Nat /\ a = w * (a \div w) + (a % w)
OBVIOUS

\* x is q times w and m, which is below w.
Splits(x, w, q, m) ==
  w \in Nat \ {0} /\ q \in Nat /\ m \in 0..w-1 /\ x \in Nat /\ x = w * q + m

\* The remainder is the only one.
LEMMA RemainderOnly ==
  ASSUME NEW x, NEW w, NEW q, NEW m, Splits(x, w, q, m)
  PROVE  x % w = m
<1> USE DEF Splits
<1>1. x % w \in 0..w-1 /\ x \div w \in Nat /\ x = w * (x \div w) + (x % w)
  BY Remainder
<1> DEFINE e == x \div w
           rest == x % w
<1> HIDE DEF e, rest
<1>2. rest \in 0..w-1 /\ e \in Nat /\ w * q + m = w * e + rest
  BY <1>1 DEF e, rest
<1>3. CASE q = e
  BY <1>2, <1>3 DEF rest
<1>4. CASE q > e
  <2>1. w * q >= w * e + w
    <3>1. q - e - 1 \in Nat
      BY <1>2, <1>4
    <3>2. w * (q - e - 1) >= 0
      BY <3>1
    <3> QED BY <1>2, <3>2
  <2> QED BY <1>2, <2>1
<1>5. CASE q < e
  <2>1. w * e >= w * q + w
    <3>1. e - q - 1 \in Nat
      BY <1>2, <1>5
    <3>2. w * (e - q - 1) >= 0
      BY <3>1
    <3> QED BY <1>2, <3>2
  <2> QED BY <1>2, <2>1
<1> QED BY <1>2, <1>3, <1>4, <1>5

\* Up to w further on, a remainder goes on or starts anew.
LEMMA RemainderNext ==
  ASSUME NEW w \in Nat \ {0}, NEW a \in Nat, NEW n \in 0..w
  PROVE  (a + n) % w = IF (a % w) + n < w THEN (a % w) + n ELSE (a % w) + n - w
<1> DEFINE q == a \div w
           m == a % w
<1>1. m \in 0..w-1 /\ q \in Nat /\ a = w * q + m
  BY Remainder
<1> HIDE DEF q, m
<1>2. CASE m + n < w
  <2>1. m + n \in 0..w-1 /\ a + n \in Nat /\ a + n = w * q + (m + n)
    BY <1>1, <1>2
  <2>2. Splits(a + n, w, q, m + n)
    BY <2>1, <1>1 DEF Splits
  <2>3. (a + n) % w = m + n
    BY <2>2, RemainderOnly
  <2> QED BY <1>2, <2>3 DEF m
<1>3. CASE m + n >= w
  <2>1. m + n - w \in 0..w-1 /\ a + n \in Nat /\ a + n = w * (q + 1) + (m + n - w) /\ q + 1 \in Nat
    BY <1>1, <1>3
  <2>2. Splits(a + n, w, q + 1, m + n - w)
    BY <2>1 DEF Splits
  <2>3. (a + n) % w = m + n - w
    BY <2>2, RemainderOnly
  <2> QED BY <1>1, <1>3, <2>3 DEF m
<1>4. m + n < w \/ m + n >= w
  BY <1>1
<1> QED BY <1>2, <1>3, <1>4

\* Two multiples of w add up to one.
LEMMA MultiplesAdd ==
  ASSUME NEW w \in Nat \ {0}, NEW a \in Nat, NEW b \in Nat, a % w = 0, b % w = 0
  PROVE  (a + b) % w = 0
<1> DEFINE q == a \div w
           e == b \div w
<1>1. q \in Nat /\ e \in Nat /\ a = w * q /\ b = w * e
  BY Remainder
<1> HIDE DEF q, e
<1>2. Splits(a + b, w, q + e, 0)
  BY <1>1 DEF Splits
<1> QED BY <1>2, RemainderOnly

\* A multiple of w is not next to one, unless w is 1.
LEMMA MultiplesApart ==
  ASSUME NEW w \in Nat \ {0, 1}, NEW a \in Nat, NEW b \in Nat, a % w = 0, b % w = 0,
         a <= b + 1
  PROVE  a <= b
<1>1. (b + 1) % w = 1
  <2>1. 1 \in 0..w /\ w \in Nat \ {0} /\ 0 + 1 < w
    OBVIOUS
  <2>2. (b + 1) % w = IF (b % w) + 1 < w THEN (b % w) + 1 ELSE (b % w) + 1 - w
    BY <2>1, RemainderNext
  <2> QED BY <2>1, <2>2
<1>2. a # b + 1
  BY <1>1
<1> QED BY <1>2


\* The quotient is the only one.
LEMMA QuotientOnly ==
  ASSUME NEW x, NEW w, NEW q, NEW m, Splits(x, w, q, m)
  PROVE  x \div w = q
<1> DEFINE e == x \div w
<1>1. w \in Nat \ {0} /\ x \in Nat /\ q \in Nat /\ m \in 0..w-1 /\ x = w * q + m
  BY DEF Splits
<1>2. x % w = m
  BY RemainderOnly
<1>3. e \in Nat /\ x = w * e + m
  BY <1>1, <1>2, Remainder
<1> HIDE DEF e
<1>4. w * q = w * e
  BY <1>1, <1>3
<1>5. q = e
  BY <1>1, <1>3, <1>4
<1> QED BY <1>5 DEF e

\* Division by a product, and what a remainder by a product holds.
LEMMA Nested ==
  ASSUME NEW x \in Nat, NEW a \in Nat \ {0}, NEW b \in Nat \ {0}
  PROVE  /\ (x \div a) \div b = x \div (a * b)
         /\ (x % (a * b)) % a = x % a
         /\ (x % (a * b)) \div a = (x \div a) % b
<1> DEFINE q == x \div a
           m == x % a
           u == q \div b
           n == q % b
<1>1. q \in Nat /\ m \in 0..a-1 /\ x = a * q + m
  BY Remainder
<1>2. u \in Nat /\ n \in 0..b-1 /\ q = b * u + n
  BY <1>1, Remainder
<1> HIDE DEF q, m, u, n
<1>3. x = (a * b) * u + (a * n + m)
  BY <1>1, <1>2
<1>4. a * n + m \in 0..a*b-1
  <2>1. a * n <= a * (b - 1)
    BY <1>2
  <2>2. a * (b - 1) = a * b - a
    OBVIOUS
  <2>3. a * n \in Nat /\ a * b \in Nat
    BY <1>2
  <2> QED BY <1>1, <2>1, <2>2, <2>3
<1>5. a * b \in Nat \ {0}
  OBVIOUS
<1>6. Splits(x, a * b, u, a * n + m)
  BY <1>2, <1>3, <1>4, <1>5 DEF Splits
<1>7. x \div (a * b) = u /\ x % (a * b) = a * n + m
  BY <1>6, QuotientOnly, RemainderOnly
<1>8. Splits(a * n + m, a, n, m)
  BY <1>1, <1>2, <1>4 DEF Splits
<1>9. (a * n + m) % a = m /\ (a * n + m) \div a = n
  BY <1>8, QuotientOnly, RemainderOnly
<1> QED BY <1>7, <1>9 DEF q, m, u, n

-----------------------------------------------------------------------------
(***************************************************************************)
(* Sequences and ring indices.                                             *)
(***************************************************************************)
\* A function on 1..n is a sequence of length n.
LEMMA FunIsSeq ==
  ASSUME NEW S, NEW n \in Nat, NEW f \in [1..n -> S]
  PROVE  f \in Seq(S) /\ Len(f) = n
<1>1. f \in Seq(S)
  BY SeqDef
<1>2. Len(f) \in Nat /\ 1..Len(f) = 1..n
  BY <1>1, LenProperties
<1>3. Len(f) = n
  <2>1. CASE Len(f) < n
    BY <1>2, <2>1
  <2>2. CASE n < Len(f)
    BY <1>2, <2>2
  <2> QED BY <1>2, <2>1, <2>2
<1> QED BY <1>1, <1>3

\* Below twice the size, the remainder is the number itself or size less.
LEMMA Wrap ==
  ASSUME NEW size \in Nat \ {0}, NEW x \in 0..2*size-1
  PROVE  x % size = IF x < size THEN x ELSE x - size
<1>1. CASE x < size
  BY <1>1, SMT
<1>2. CASE x >= size
  BY <1>2, SMT
<1> QED BY <1>1, <1>2

\* The index h places behind pos, in a memory of size bytes.
LEMMA WrapSum ==
  ASSUME NEW size \in Nat \ {0}, NEW pos \in 0..size-1, NEW h \in 0..size
  PROVE  (pos + h) % size = IF pos + h < size THEN pos + h ELSE pos + h - size
<1> DEFINE x == pos + h
<1>1. x \in 0..2*size-1
  OBVIOUS
<1> HIDE DEF x
<1>2. x % size = IF x < size THEN x ELSE x - size
  BY <1>1, Wrap
<1> QED BY <1>2 DEF x

\* A buffer in order: its indices within its memory.
CBufOK(b) ==
  /\ b.size \in Nat \ {0} /\ b.len \in 0..b.size /\ b.pos \in 0..b.size-1
  /\ b.data \in [0..b.size-1 -> Int]
  /\ b = [data |-> b.data, size |-> b.size, len |-> b.len, pos |-> b.pos]

\* How far behind the oldest byte the memory at x lies.
Offset(b, x) == IF x >= b.pos THEN x - b.pos ELSE x - b.pos + b.size

\* The byte at offset h lies at (pos + h) % size, and nowhere else.
LEMMA SpotIs ==
  ASSUME NEW b, CBufOK(b), NEW h \in 0..b.size
  PROVE  /\ (b.pos + h) % b.size = IF b.pos + h < b.size THEN b.pos + h ELSE b.pos + h - b.size
         /\ (b.pos + h) % b.size \in 0..b.size-1
         /\ h < b.size => Offset(b, (b.pos + h) % b.size) = h
<1>1. b.size \in Nat \ {0} /\ b.pos \in 0..b.size-1
  BY DEF CBufOK
<1>2. (b.pos + h) % b.size = IF b.pos + h < b.size THEN b.pos + h ELSE b.pos + h - b.size
  BY <1>1, WrapSum
<1> QED BY <1>1, <1>2 DEF Offset

\* Every place has its offset.
LEMMA OffsetIs ==
  ASSUME NEW b, CBufOK(b), NEW x \in 0..b.size-1
  PROVE  Offset(b, x) \in 0..b.size-1 /\ (b.pos + Offset(b, x)) % b.size = x
<1>1. b.size \in Nat \ {0} /\ b.pos \in 0..b.size-1
  BY DEF CBufOK
<1>2. Offset(b, x) \in 0..b.size-1
  BY <1>1 DEF Offset
<1>3. IF b.pos + Offset(b, x) < b.size THEN b.pos + Offset(b, x) = x
      ELSE b.pos + Offset(b, x) - b.size = x
  BY <1>1 DEF Offset
<1> QED BY <1>1, <1>2, <1>3, SpotIs

\* The bytes in a buffer are a sequence, and the memory that holds none is what
\* lies behind them.
LEMMA ContentIs ==
  ASSUME NEW b, CBufOK(b)
  PROVE  /\ Content(b) \in Seq(Int) /\ Len(Content(b)) = b.len
         /\ \A h \in 1..b.len : Content(b)[h] = b.data[(b.pos + (h - 1)) % b.size]
         /\ \A x \in 0..b.size-1 : x \in Unused(b) <=> Offset(b, x) >= b.len
         /\ Unused(b) \subseteq 0..b.size-1
<1>1. b.size \in Nat \ {0} /\ b.pos \in 0..b.size-1 /\ b.len \in 0..b.size
      /\ b.data \in [0..b.size-1 -> Int]
  BY DEF CBufOK
<1>2. \A h \in 1..b.len : b.pos + h - 1 = b.pos + (h - 1) /\ h - 1 \in 0..b.size
  BY <1>1
<1>3. \A h \in 1..b.len : b.data[(b.pos + h - 1) % b.size] \in Int
  BY <1>1, <1>2, SpotIs
<1>4. Content(b) \in [1..b.len -> Int]
  BY <1>3 DEF Content
<1>5. Content(b) \in Seq(Int) /\ Len(Content(b)) = b.len
  <2>1. b.len \in Nat
    BY <1>1
  <2> QED BY <1>4, <2>1, FunIsSeq
<1>6. \A h \in 1..b.len : Content(b)[h] = b.data[(b.pos + (h - 1)) % b.size]
  BY <1>2 DEF Content
<1>7. ASSUME NEW x \in 0..b.size-1
      PROVE  x \in Unused(b) <=> Offset(b, x) >= b.len
  <2>1. Offset(b, x) \in 0..b.size-1 /\ (b.pos + Offset(b, x)) % b.size = x
    BY OffsetIs
  <2>2. ASSUME NEW h \in 0..b.len-1, x = (b.pos + h) % b.size PROVE Offset(b, x) < b.len
    <3>1. h \in 0..b.size /\ h < b.size
      BY <1>1
    <3>2. Offset(b, x) = h
      BY <2>2, <3>1, SpotIs
    <3> QED BY <1>1, <3>2
  <2>3. Offset(b, x) < b.len => x \in {(b.pos + h) % b.size : h \in 0..b.len-1}
    <3> SUFFICES ASSUME Offset(b, x) < b.len
                 PROVE  x \in {(b.pos + h) % b.size : h \in 0..b.len-1}
      OBVIOUS
    <3>1. Offset(b, x) \in 0..b.len-1
      BY <1>1, <2>1
    <3> QED BY <2>1, <3>1
  <2>4. x \in DOMAIN b.data
    BY <1>1
  <2>5. x \in Unused(b) <=> x \notin {(b.pos + h) % b.size : h \in 0..b.len-1}
    BY <2>4 DEF Unused
  <2>6. x \in {(b.pos + h) % b.size : h \in 0..b.len-1} => Offset(b, x) < b.len
    BY <2>2
  <2> QED BY <1>1, <2>1, <2>3, <2>5, <2>6
<1>8. Unused(b) \subseteq 0..b.size-1
  BY <1>1 DEF Unused
<1> QED BY <1>5, <1>6, <1>7, <1>8

-----------------------------------------------------------------------------
(***************************************************************************)
(* cbuf_pull.                                                              *)
(***************************************************************************)
\* A part of a transfer that does not run over the end.
LEMMA BytesIs ==
  ASSUME NEW b, CBufOK(b), NEW w \in Nat, NEW n \in Nat, w + n <= b.size
  PROVE  /\ Bytes(b, w, n) \in Seq(Int) /\ Len(Bytes(b, w, n)) = n
         /\ \A h \in 1..n : Bytes(b, w, n)[h] = b.data[w + h - 1]
<1>1. b.size \in Nat \ {0} /\ b.data \in [0..b.size-1 -> Int]
  BY DEF CBufOK
<1>2. \A h \in 1..n : w + h - 1 \in 0..b.size-1
  BY <1>1
<1>3. \A h \in 1..n : b.data[w + h - 1] \in Int
  BY <1>1, <1>2
<1>4. Bytes(b, w, n) \in [1..n -> Int]
  BY <1>3 DEF Bytes
<1>5. \A h \in 1..n : Bytes(b, w, n)[h] = b.data[w + h - 1]
  BY DEF Bytes
<1> QED BY <1>4, <1>5, FunIsSeq

\* Where a transfer of n bytes at the oldest one is cut.
LEMMA TailIs ==
  ASSUME NEW b, CBufOK(b), NEW pos \in 0..b.size-1, NEW n \in 0..b.size
  PROVE  /\ TailLen(b, pos, n) \in 0..n
         /\ TailLen(b, pos, n) > 0 => pos + TailLen(b, pos, n) = b.size /\ pos + n > b.size
         /\ TailLen(b, pos, n) = 0 => pos + n <= b.size
         /\ n - TailLen(b, pos, n) <= b.size
<1>1. b.size \in Nat \ {0}
  BY DEF CBufOK
<1> QED BY <1>1 DEF TailLen

\* The bytes that are taken are the oldest ones, in order, however the transfer
\* is cut.
LEMMA PulledIs ==
  ASSUME NEW b, CBufOK(b), NEW n \in 0..b.len
  PROVE  /\ Pulled(b, n) \in Seq(Int) /\ Len(Pulled(b, n)) = n
         /\ \A h \in 1..n : Pulled(b, n)[h] = b.data[(b.pos + (h - 1)) % b.size]
<1> DEFINE tail == TailLen(b, b.pos, n)
           w    == IF tail > 0 THEN 0 ELSE b.pos
           one  == Bytes(b, b.pos, tail)
           two  == Bytes(b, w, n - tail)
<1>1. b.size \in Nat \ {0} /\ b.pos \in 0..b.size-1 /\ b.len \in 0..b.size
  BY DEF CBufOK
<1>2. /\ tail \in 0..n
      /\ tail > 0 => b.pos + tail = b.size /\ b.pos + n > b.size
      /\ tail = 0 => b.pos + n <= b.size
      /\ n - tail <= b.size
  BY <1>1, TailIs
<1>3. n \in 0..b.size
  BY <1>1
<1> HIDE DEF tail
<1>4. /\ one \in Seq(Int) /\ Len(one) = tail
      /\ \A h \in 1..tail : one[h] = b.data[b.pos + h - 1]
  <2>1. tail \in Nat /\ b.pos \in Nat /\ b.pos + tail <= b.size
    BY <1>1, <1>2
  <2> QED BY <2>1, BytesIs
<1>5. /\ two \in Seq(Int) /\ Len(two) = n - tail
      /\ \A h \in 1..n-tail : two[h] = b.data[w + h - 1]
  <2>1. n - tail \in Nat /\ w \in Nat /\ w + (n - tail) <= b.size
    BY <1>1, <1>2, <1>3
  <2> HIDE DEF w
  <2> QED BY <2>1, BytesIs
<1>6. Pulled(b, n) = one \o two
  BY DEF Pulled, tail
<1> HIDE DEF one, two
<1>7. /\ one \o two \in Seq(Int) /\ Len(one \o two) = Len(one) + Len(two)
      /\ \A i \in 1..Len(one) + Len(two) :
           (one \o two)[i] = IF i <= Len(one) THEN one[i] ELSE two[i - Len(one)]
  BY <1>4, <1>5, ConcatProperties
<1>8. ASSUME NEW h \in 1..n PROVE (one \o two)[h] = b.data[(b.pos + (h - 1)) % b.size]
  <2>1. /\ h - 1 \in 0..b.size /\ h \in 1..Len(one) + Len(two)
    BY SMTT(30), <1>1, <1>2, <1>3, <1>4, <1>5
  <2>2. (b.pos + (h - 1)) % b.size =
          IF b.pos + (h - 1) < b.size THEN b.pos + (h - 1) ELSE b.pos + (h - 1) - b.size
    BY <2>1, SpotIs
  <2>3. CASE h <= tail
    <3>1. (one \o two)[h] = one[h] /\ h \in 1..tail
      BY <1>4, <1>7, <2>1, <2>3, <1>2
    <3>2. b.pos + (h - 1) < b.size /\ b.pos + h - 1 = b.pos + (h - 1)
      BY <1>1, <1>2, <2>3
    <3> QED BY <1>4, <2>2, <3>1, <3>2
  <2>4. CASE h > tail
    <3>1. (one \o two)[h] = two[h - tail] /\ h - tail \in 1..n-tail
      BY <1>2, <1>4, <1>7, <2>1, <2>4
    <3>2. w + (h - tail) - 1 = IF b.pos + (h - 1) < b.size THEN b.pos + (h - 1)
                                                         ELSE b.pos + (h - 1) - b.size
      BY <1>1, <1>2, <1>3, <2>4
    <3> QED BY <1>5, <2>2, <3>1, <3>2
  <2>5. h <= tail \/ h > tail
    BY <1>1, <1>2, <1>3
  <2> QED BY <2>3, <2>4, <2>5
<1>9. Len(one) + Len(two) = n
  BY <1>1, <1>2, <1>3, <1>4, <1>5
<1> QED BY <1>6, <1>7, <1>8, <1>9

\* Exactly the bytes that are taken are erased.
LEMMA ErasedIs ==
  ASSUME NEW b, CBufOK(b), NEW n \in 0..b.len
  PROVE  /\ AfterErase(b, n) \in [0..b.size-1 -> Int]
         /\ \A x \in 0..b.size-1 :
              AfterErase(b, n)[x] = IF Offset(b, x) < n THEN Erased ELSE b.data[x]
<1> DEFINE tail == TailLen(b, b.pos, n)
           w    == IF tail > 0 THEN 0 ELSE b.pos
<1>1. /\ b.size \in Nat \ {0} /\ b.pos \in 0..b.size-1 /\ b.len \in 0..b.size
      /\ b.data \in [0..b.size-1 -> Int] /\ n \in 0..b.size
  BY DEF CBufOK
<1>2. /\ tail \in 0..n
      /\ tail > 0 => b.pos + tail = b.size /\ b.pos + n > b.size
      /\ tail = 0 => b.pos + n <= b.size
  BY <1>1, TailIs
<1>3. AfterErase(b, n) =
        [x \in 0..b.size-1 |->
          IF x \in b.pos..(b.pos + tail - 1) \/ x \in w..(w + n - tail - 1)
            THEN Erased ELSE b.data[x]]
  BY <1>1 DEF AfterErase
<1> HIDE DEF tail
<1>4. ASSUME NEW x \in 0..b.size-1
      PROVE  (x \in b.pos..(b.pos + tail - 1) \/ x \in w..(w + n - tail - 1))
               <=> Offset(b, x) < n
  BY <1>1, <1>2, SMTT(30) DEF Offset
<1> HIDE DEF w
<1>5. \A x \in 0..b.size-1 :
        AfterErase(b, n)[x] = IF Offset(b, x) < n THEN Erased ELSE b.data[x]
  BY <1>3, <1>4
<1>6. Erased \in Int /\ \A x \in 0..b.size-1 : b.data[x] \in Int
  BY <1>1 DEF Erased
<1> QED BY <1>3, <1>5, <1>6

\* Going on behind the first m bytes is going m places further.
LEMMA SpotShift ==
  ASSUME NEW size \in Nat \ {0}, NEW pos \in 0..size-1, NEW m \in 0..size, NEW j \in 0..size,
         m + j <= size
  PROVE  /\ (pos + m) % size \in 0..size-1
         /\ (((pos + m) % size) + j) % size = (pos + (m + j)) % size
<1> DEFINE q == (pos + m) % size
<1>1. q = IF pos + m < size THEN pos + m ELSE pos + m - size
  BY WrapSum
<1> HIDE DEF q
<1>2. q \in 0..size-1
  BY <1>1
<1>3. (q + j) % size = IF q + j < size THEN q + j ELSE q + j - size
  BY <1>2, WrapSum
<1>4. m + j \in 0..size
  OBVIOUS
<1>5. (pos + (m + j)) % size =
        IF pos + (m + j) < size THEN pos + (m + j) ELSE pos + (m + j) - size
  BY <1>4, WrapSum
<1>6. (IF q + j < size THEN q + j ELSE q + j - size)
        = (IF pos + (m + j) < size THEN pos + (m + j) ELSE pos + (m + j) - size)
  <2>1. CASE pos + m < size
    BY <1>1, <2>1
  <2>2. CASE pos + m >= size
    BY <1>1, <2>2
  <2> QED BY <2>1, <2>2
<1>7. (q + j) % size = (pos + (m + j)) % size
  BY <1>3, <1>5, <1>6
<1> QED BY <1>2, <1>7 DEF q

\* What cbuf_pull leaves: a buffer in order that starts behind what was taken.
LEMMA PullState ==
  ASSUME NEW b, CBufOK(b), NEW n \in Nat
  PROVE  LET len == MinOf(b.len, n)
             c   == cbuf_pull(b, n).cbuf
         IN /\ len \in 0..b.len /\ len <= n /\ (len = n \/ len = b.len)
            /\ cbuf_pull(b, n).out = Pulled(b, len)
            /\ CBufOK(c) /\ c.size = b.size /\ c.len = b.len - len
            /\ c.pos = (b.pos + len) % b.size /\ c.data = AfterErase(b, len)
<1> DEFINE len  == MinOf(b.len, n)
           tail == TailLen(b, b.pos, len)
           w    == IF tail > 0 THEN 0 ELSE b.pos
           pos  == (w + (len - tail)) % b.size
           c    == [data |-> AfterErase(b, len), size |-> b.size, len |-> b.len - len, pos |-> pos]
<1>1. /\ b.size \in Nat \ {0} /\ b.pos \in 0..b.size-1 /\ b.len \in 0..b.size
      /\ b = [data |-> b.data, size |-> b.size, len |-> b.len, pos |-> b.pos]
  BY DEF CBufOK
<1>2. len \in 0..b.len /\ len \in 0..b.size /\ len <= n /\ (len = n \/ len = b.len)
  BY <1>1 DEF MinOf
<1>3. cbuf_pull(b, n).out = Pulled(b, len)
  BY DEF cbuf_pull
<1>4. cbuf_pull(b, n).cbuf = c
  BY <1>1 DEF cbuf_pull
<1> HIDE DEF len
<1>5. /\ tail \in 0..len
      /\ tail > 0 => b.pos + tail = b.size /\ b.pos + len > b.size
      /\ tail = 0 => b.pos + len <= b.size
  BY <1>1, <1>2, TailIs
<1> HIDE DEF tail
<1>6. pos = (b.pos + len) % b.size
  <2>1. CASE tail = 0
    <3>1. w + (len - tail) = b.pos + len
      BY <1>1, <1>2, <1>5, <2>1
    <3> QED BY <3>1
  <2>2. CASE tail > 0
    <3> DEFINE q == w + (len - tail)
    <3>1. q = b.pos + len - b.size /\ q \in 0..b.size-1 /\ ~(b.pos + len < b.size)
      BY <1>1, <1>2, <1>5, <2>2
    <3>2. (b.pos + len) % b.size = b.pos + len - b.size
      BY <1>1, <1>2, <3>1, WrapSum
    <3> HIDE DEF q
    <3>3. q % b.size = q
      <4>1. q \in 0..2*b.size-1 /\ q < b.size
        BY <1>1, <3>1
      <4> QED BY <1>1, <4>1, Wrap
    <3> QED BY <3>1, <3>2, <3>3 DEF q
  <2> QED BY <1>2, <1>5, <2>1, <2>2
<1> HIDE DEF pos
<1>7. CBufOK(c)
  <2>1. AfterErase(b, len) \in [0..b.size-1 -> Int]
    BY <1>2, ErasedIs
  <2>2. pos \in 0..b.size-1
    BY <1>1, <1>2, <1>6, SpotIs
  <2>3. b.len - len \in 0..b.size
    BY <1>1, <1>2
  <2> QED BY <1>1, <2>1, <2>2, <2>3 DEF CBufOK
<1>8. c.size = b.size /\ c.len = b.len - len /\ c.pos = pos /\ c.data = AfterErase(b, len)
  OBVIOUS
<1> HIDE DEF c
<1> QED BY <1>2, <1>3, <1>4, <1>6, <1>7, <1>8 DEF len

\* Nothing is in the memory that holds no byte of the buffer.
Clean(b) == \A x \in Unused(b) : b.data[x] \in {Erased, Junk}

\* What is taken and what is left are together what was there.
LEMMA PullSplits ==
  ASSUME NEW b, CBufOK(b), NEW n \in Nat
  PROVE  LET c == cbuf_pull(b, n).cbuf
             got == cbuf_pull(b, n).out
         IN /\ got \in Seq(Int) /\ Content(c) \in Seq(Int)
            /\ Content(b) = got \o Content(c)
            /\ Clean(b) => Clean(c)
<1> DEFINE len == MinOf(b.len, n)
           c   == cbuf_pull(b, n).cbuf
           got == cbuf_pull(b, n).out
<1>1. /\ len \in 0..b.len /\ got = Pulled(b, len)
      /\ CBufOK(c) /\ c.size = b.size /\ c.len = b.len - len
      /\ c.pos = (b.pos + len) % b.size /\ c.data = AfterErase(b, len)
  BY PullState
<1>2. b.size \in Nat \ {0} /\ b.pos \in 0..b.size-1 /\ b.len \in 0..b.size /\ len \in 0..b.size
  <2>1. b.size \in Nat \ {0} /\ b.pos \in 0..b.size-1 /\ b.len \in 0..b.size
    BY DEF CBufOK
  <2> QED BY <1>1, <2>1
<1> HIDE DEF len, c, got
<1>3. /\ got \in Seq(Int) /\ Len(got) = len
      /\ \A h \in 1..len : got[h] = b.data[(b.pos + (h - 1)) % b.size]
  BY <1>1, PulledIs
<1>4. /\ Content(c) \in Seq(Int) /\ Len(Content(c)) = c.len
      /\ \A h \in 1..c.len : Content(c)[h] = c.data[(c.pos + (h - 1)) % c.size]
      /\ \A x \in 0..c.size-1 : x \in Unused(c) <=> Offset(c, x) >= c.len
      /\ Unused(c) \subseteq 0..c.size-1
  BY <1>1, ContentIs
<1>5. /\ Content(b) \in Seq(Int) /\ Len(Content(b)) = b.len
      /\ \A h \in 1..b.len : Content(b)[h] = b.data[(b.pos + (h - 1)) % b.size]
      /\ \A x \in 0..b.size-1 : x \in Unused(b) <=> Offset(b, x) >= b.len
  BY ContentIs
<1>6. /\ got \o Content(c) \in Seq(Int) /\ Len(got \o Content(c)) = Len(got) + Len(Content(c))
      /\ \A i \in 1..Len(got) + Len(Content(c)) :
           (got \o Content(c))[i] = IF i <= Len(got) THEN got[i] ELSE Content(c)[i - Len(got)]
  BY <1>3, <1>4, ConcatProperties
<1>7. Len(got) + Len(Content(c)) = b.len
  BY <1>1, <1>2, <1>3, <1>4
<1>8. ASSUME NEW h \in 1..b.len PROVE Content(b)[h] = (got \o Content(c))[h]
  <2>1. CASE h <= len
    <3>1. h \in 1..len /\ h \in 1..Len(got) + Len(Content(c)) /\ h <= Len(got)
      BY <1>1, <1>2, <1>3, <1>7, <2>1
    <3> QED BY <1>3, <1>5, <1>6, <3>1
  <2>2. CASE h > len
    <3>1. /\ h - len \in 1..c.len /\ h \in 1..Len(got) + Len(Content(c)) /\ ~(h <= Len(got))
          /\ h - len - 1 \in 0..b.size /\ len + (h - len - 1) <= b.size
          /\ len + (h - len - 1) = h - 1 /\ h - 1 \in 0..b.size /\ h - 1 < b.size
      BY <1>1, <1>2, <1>3, <1>7, <2>2, SMTT(60)
    <3>2. (c.pos + (h - len - 1)) % c.size = (b.pos + (h - 1)) % b.size
      <4>1. (((b.pos + len) % b.size) + (h - len - 1)) % b.size
              = (b.pos + (len + (h - len - 1))) % b.size
        BY <1>2, <3>1, SpotShift
      <4> QED BY <1>1, <3>1, <4>1
    <3> DEFINE x == (b.pos + (h - 1)) % b.size
    <3>3. x \in 0..b.size-1 /\ Offset(b, x) = h - 1
      BY <3>1, SpotIs
    <3> HIDE DEF x
    <3>4. c.data[x] = b.data[x]
      <4>1. ~(Offset(b, x) < len)
        BY <1>2, <2>2, <3>3
      <4> QED BY <1>1, <3>3, <4>1, ErasedIs
    <3>5. Content(c)[h - len] = c.data[x]
      BY <1>4, <3>1, <3>2 DEF x
    <3>6. Content(b)[h] = b.data[x]
      BY <1>5 DEF x
    <3>7. (got \o Content(c))[h] = Content(c)[h - len]
      BY <1>3, <1>6, <3>1
    <3> QED BY <3>4, <3>5, <3>6, <3>7
  <2>3. h <= len \/ h > len
    BY <1>2
  <2> QED BY <2>1, <2>2, <2>3
<1>9. Content(b) = got \o Content(c)
  BY <1>5, <1>6, <1>7, <1>8, SeqEqual
<1>10. ASSUME Clean(b), NEW x \in Unused(c) PROVE c.data[x] \in {Erased, Junk}
  <2>1. x \in 0..b.size-1 /\ Offset(c, x) >= c.len
    BY <1>1, <1>4
  <2>2. c.data[x] = IF Offset(b, x) < len THEN Erased ELSE b.data[x]
    BY <1>1, <2>1, ErasedIs
  <2>3. Offset(b, x) >= len => Offset(b, x) >= b.len
    <3>1. c.pos = IF b.pos + len < b.size THEN b.pos + len ELSE b.pos + len - b.size
      BY <1>1, <1>2, WrapSum
    <3>2. Offset(b, x) = IF x >= b.pos THEN x - b.pos ELSE x - b.pos + b.size
      BY DEF Offset
    <3>3. Offset(c, x) = IF x >= c.pos THEN x - c.pos ELSE x - c.pos + b.size
      BY <1>1 DEF Offset
    <3>4. CASE b.pos + len < b.size
      BY <1>1, <1>2, <2>1, <3>1, <3>2, <3>3, <3>4
    <3>5. CASE b.pos + len >= b.size
      BY <1>1, <1>2, <2>1, <3>1, <3>2, <3>3, <3>5
    <3> QED BY <1>2, <3>4, <3>5
  <2>4. Offset(b, x) \in 0..b.size-1
    BY <2>1, OffsetIs
  <2>5. CASE Offset(b, x) < len
    BY <2>2, <2>5
  <2>6. CASE Offset(b, x) >= len
    <3>1. x \in Unused(b)
      BY <1>5, <2>1, <2>3, <2>6
    <3> QED BY <1>2, <1>10, <2>2, <2>4, <2>6, <3>1 DEF Clean
  <2> QED BY <1>2, <2>4, <2>5, <2>6
<1> QED BY <1>3, <1>4, <1>9, <1>10 DEF Clean, c, got

-----------------------------------------------------------------------------
(***************************************************************************)
(* cbuf_push of bytes for which there is room.                             *)
(***************************************************************************)
\* Where the bytes of a push go, in plain numbers: memory of size bytes, len of
\* them used from pos on, n more; they are written from q on, tail of them
\* before the memory ends, the others from w on.
Placed(size, pos, len, n, q, tail, w) ==
  /\ size \in Nat /\ pos \in 0..size-1 /\ len \in 0..size /\ n \in 0..size-len
  /\ q \in 0..size-1 /\ tail \in 0..n /\ w \in Int
  /\ q = IF pos + len < size THEN pos + len ELSE pos + len - size
  /\ tail > 0 => q + tail = size /\ q + n > size
  /\ tail = 0 => q + n <= size
  /\ w = IF tail > 0 THEN 0 ELSE q

\* Exactly the n places behind the used ones are written, each with its byte.
LEMMA PushedSpots ==
  ASSUME NEW size, NEW pos, NEW len, NEW n, NEW q, NEW tail, NEW w,
         Placed(size, pos, len, n, q, tail, w), NEW x \in 0..size-1, NEW o \in Int,
         o = IF x >= pos THEN x - pos ELSE x - pos + size
  PROVE  /\ x \in w..(w + n - tail - 1) =>
              o >= len /\ o < len + n /\ tail + x - w + 1 = o - len + 1
         /\ x \in q..(q + tail - 1) =>
              o >= len /\ o < len + n /\ x - q + 1 = o - len + 1
         /\ o >= len /\ o < len + n =>
              x \in w..(w + n - tail - 1) \/ x \in q..(q + tail - 1)
<1> USE DEF Placed
<1>1. CASE tail > 0
  <2>1. pos + len < size /\ q = pos + len /\ w = 0
    BY <1>1
  <2>2. x \in w..(w + n - tail - 1) => x < pos
    BY <1>1, <2>1
  <2>3. x \in q..(q + tail - 1) => x >= pos
    BY <2>1
  <2> QED BY <1>1, <2>1, <2>2, <2>3
<1>2. CASE tail = 0
  <2>1. w = q /\ q + n <= size
    BY <1>2
  <2>2. CASE pos + len < size
    BY <1>2, <2>1, <2>2
  <2>3. CASE pos + len >= size
    BY <1>2, <2>1, <2>3
  <2> QED BY <2>2, <2>3
<1> QED BY <1>1, <1>2

\* The bytes are written behind those in the buffer, however the transfer is cut.
LEMMA PushState ==
  ASSUME NEW b, CBufOK(b), NEW src \in Seq(Int), Len(src) <= b.size - b.len
  PROVE  LET c == cbuf_push(b, src) IN
         /\ CBufOK(c) /\ c.size = b.size /\ c.len = b.len + Len(src) /\ c.pos = b.pos
         /\ \A x \in 0..b.size-1 :
              c.data[x] = IF Offset(b, x) >= b.len /\ Offset(b, x) < b.len + Len(src)
                            THEN src[Offset(b, x) - b.len + 1] ELSE b.data[x]
<1> DEFINE n    == MinOf(cbuf_free_space(b), Len(src))
           pos  == (b.pos + b.len) % b.size
           tail == TailLen(b, pos, n)
           w    == IF tail > 0 THEN 0 ELSE pos
           data == [x \in DOMAIN b.data |->
                      IF x \in w..(w + n - tail - 1) THEN src[tail + x - w + 1]
                      ELSE IF x \in pos..(pos + tail - 1) THEN src[x - pos + 1]
                      ELSE b.data[x]]
           c    == [data |-> data, size |-> b.size, len |-> b.len + n, pos |-> b.pos]
<1>1. /\ b.size \in Nat \ {0} /\ b.pos \in 0..b.size-1 /\ b.len \in 0..b.size
      /\ b.data \in [0..b.size-1 -> Int]
      /\ b = [data |-> b.data, size |-> b.size, len |-> b.len, pos |-> b.pos]
  BY DEF CBufOK
<1>3. n = Len(src)
  <2>1. Len(src) \in Nat
    OBVIOUS
  <2> QED BY <1>1, <2>1 DEF MinOf, cbuf_free_space
<1>4. cbuf_push(b, src) = c
  <2>1. cbuf_push(b, src) = [b EXCEPT !.data = data, !.len = @ + n]
    BY DEF cbuf_push
  <2> HIDE DEF data, n
  <2> QED BY <1>1, <2>1
<1> HIDE DEF n
<1>2. n \in Nat /\ n <= b.size - b.len /\ n \in 0..b.size /\ \A i \in 1..n : src[i] \in Int
  <2>1. Len(src) \in Nat /\ \A i \in 1..Len(src) : src[i] \in Int
    OBVIOUS
  <2> QED BY <1>1, <1>3, <2>1
<1>5. /\ pos = IF b.pos + b.len < b.size THEN b.pos + b.len ELSE b.pos + b.len - b.size
      /\ pos \in 0..b.size-1
  BY <1>1, SpotIs
<1> HIDE DEF pos
<1>6. /\ tail \in 0..n
      /\ tail > 0 => pos + tail = b.size /\ pos + n > b.size
      /\ tail = 0 => pos + n <= b.size
  BY <1>2, <1>5, TailIs
<1> HIDE DEF tail
<1>7. ASSUME NEW x \in 0..b.size-1
      PROVE  /\ x \in w..(w + n - tail - 1) =>
                  /\ Offset(b, x) >= b.len /\ Offset(b, x) < b.len + n
                  /\ tail + x - w + 1 = Offset(b, x) - b.len + 1
             /\ x \in pos..(pos + tail - 1) =>
                  /\ Offset(b, x) >= b.len /\ Offset(b, x) < b.len + n
                  /\ x - pos + 1 = Offset(b, x) - b.len + 1
             /\ Offset(b, x) >= b.len /\ Offset(b, x) < b.len + n =>
                  x \in w..(w + n - tail - 1) \/ x \in pos..(pos + tail - 1)
  <2> DEFINE o == Offset(b, x)
  <2>1. o = IF x >= b.pos THEN x - b.pos ELSE x - b.pos + b.size
    BY DEF Offset
  <2> HIDE DEF o
  <2>2. /\ b.size \in Nat /\ n \in 0..b.size-b.len /\ o \in Int /\ w \in Int
        /\ w = IF tail > 0 THEN 0 ELSE pos
    BY <1>1, <1>2, <1>5, <2>1, SMTT(30)
  <2> HIDE DEF w
  <2>3. b.pos \in 0..b.size-1 /\ b.len \in 0..b.size
    BY <1>1
  <2>4. /\ x \in w..(w + n - tail - 1) =>
             o >= b.len /\ o < b.len + n /\ tail + x - w + 1 = o - b.len + 1
        /\ x \in pos..(pos + tail - 1) =>
             o >= b.len /\ o < b.len + n /\ x - pos + 1 = o - b.len + 1
        /\ o >= b.len /\ o < b.len + n =>
             x \in w..(w + n - tail - 1) \/ x \in pos..(pos + tail - 1)
    <3>1. Placed(b.size, b.pos, b.len, n, pos, tail, w)
      BY <1>5, <1>6, <2>2, <2>3 DEF Placed
    <3> QED BY <2>1, <2>2, <3>1, PushedSpots
  <2> QED BY <2>4 DEF o
<1> HIDE DEF w
<1>8. DOMAIN b.data = 0..b.size-1
  BY <1>1
<1>9. ASSUME NEW x \in 0..b.size-1
      PROVE  data[x] = IF Offset(b, x) >= b.len /\ Offset(b, x) < b.len + n
                         THEN src[Offset(b, x) - b.len + 1] ELSE b.data[x]
  <2>1. data[x] = IF x \in w..(w + n - tail - 1) THEN src[tail + x - w + 1]
                  ELSE IF x \in pos..(pos + tail - 1) THEN src[x - pos + 1]
                  ELSE b.data[x]
    BY <1>8
  <2> HIDE DEF data
  <2>2. CASE x \in w..(w + n - tail - 1)
    BY <1>7, <2>1, <2>2
  <2>3. CASE x \notin w..(w + n - tail - 1) /\ x \in pos..(pos + tail - 1)
    BY <1>7, <2>1, <2>3
  <2>4. CASE x \notin w..(w + n - tail - 1) /\ x \notin pos..(pos + tail - 1)
    BY <1>7, <2>1, <2>4
  <2> QED BY <2>2, <2>3, <2>4
<1>10. \A x \in 0..b.size-1 : data[x] \in Int
  <2> SUFFICES ASSUME NEW x \in 0..b.size-1 PROVE data[x] \in Int
    OBVIOUS
  <2>1. CASE Offset(b, x) >= b.len /\ Offset(b, x) < b.len + n
    <3>1. Offset(b, x) - b.len + 1 \in 1..n
      <4>1. Offset(b, x) \in 0..b.size-1
        BY OffsetIs
      <4> QED BY <1>1, <1>2, <2>1, <4>1, SMTT(30)
    <3> HIDE DEF data
    <3> QED BY <1>2, <1>9, <2>1, <3>1
  <2>2. CASE ~(Offset(b, x) >= b.len /\ Offset(b, x) < b.len + n)
    <3> HIDE DEF data
    <3> QED BY <1>1, <1>9, <2>2
  <2> QED BY <2>1, <2>2
<1>11. data \in [0..b.size-1 -> Int]
  BY <1>8, <1>10
<1> HIDE DEF data
<1>12. c.data = data /\ c.size = b.size /\ c.len = b.len + n /\ c.pos = b.pos
  OBVIOUS
<1>13. CBufOK(c)
  BY <1>1, <1>2, <1>11, <1>12 DEF CBufOK
<1> HIDE DEF c
<1> QED BY <1>3, <1>4, <1>9, <1>12, <1>13

\* A push that fits appends, and keeps the rest of the memory clean.
LEMMA PushAppends ==
  ASSUME NEW b, CBufOK(b), NEW src \in Seq(Int), Len(src) <= b.size - b.len
  PROVE  LET c == cbuf_push(b, src) IN
         /\ Content(c) = Content(b) \o src
         /\ Clean(b) => Clean(c)
<1> DEFINE c == cbuf_push(b, src)
           n == Len(src)
<1>1. /\ CBufOK(c) /\ c.size = b.size /\ c.len = b.len + n /\ c.pos = b.pos
      /\ \A x \in 0..b.size-1 :
           c.data[x] = IF Offset(b, x) >= b.len /\ Offset(b, x) < b.len + n
                         THEN src[Offset(b, x) - b.len + 1] ELSE b.data[x]
  BY PushState
<1>2. /\ b.size \in Nat \ {0} /\ b.pos \in 0..b.size-1 /\ b.len \in 0..b.size
      /\ n \in Nat /\ b.len + n <= b.size
  <2>1. b.size \in Nat \ {0} /\ b.pos \in 0..b.size-1 /\ b.len \in 0..b.size
    BY DEF CBufOK
  <2>2. n \in Nat
    OBVIOUS
  <2> QED BY <2>1, <2>2
<1> HIDE DEF c
<1>3. /\ Content(c) \in Seq(Int) /\ Len(Content(c)) = c.len
      /\ \A h \in 1..c.len : Content(c)[h] = c.data[(c.pos + (h - 1)) % c.size]
      /\ \A x \in 0..c.size-1 : x \in Unused(c) <=> Offset(c, x) >= c.len
      /\ Unused(c) \subseteq 0..c.size-1
  BY <1>1, ContentIs
<1>4. /\ Content(b) \in Seq(Int) /\ Len(Content(b)) = b.len
      /\ \A h \in 1..b.len : Content(b)[h] = b.data[(b.pos + (h - 1)) % b.size]
      /\ \A x \in 0..b.size-1 : x \in Unused(b) <=> Offset(b, x) >= b.len
  BY ContentIs
<1>5. /\ Content(b) \o src \in Seq(Int) /\ Len(Content(b) \o src) = Len(Content(b)) + n
      /\ \A i \in 1..Len(Content(b)) + n :
           (Content(b) \o src)[i] = IF i <= Len(Content(b)) THEN Content(b)[i]
                                    ELSE src[i - Len(Content(b))]
  BY <1>4, ConcatProperties
<1> HIDE DEF n
<1>6. ASSUME NEW h \in 1..c.len PROVE Content(c)[h] = (Content(b) \o src)[h]
  <2> DEFINE x == (b.pos + (h - 1)) % b.size
  <2>1. h - 1 \in 0..b.size /\ h - 1 < b.size /\ h \in 1..Len(Content(b)) + n
    BY <1>1, <1>2, <1>4
  <2>2. x \in 0..b.size-1 /\ Offset(b, x) = h - 1
    BY <2>1, SpotIs
  <2>3. Content(c)[h] = c.data[x]
    BY <1>1, <1>3
  <2>a. h <= b.len => Content(b)[h] = b.data[x]
    BY SMTT(30), <1>2, <1>4
  <2> HIDE DEF x
  <2>4. CASE h <= b.len
    <3>1. c.data[x] = b.data[x]
      BY <1>1, <1>2, <2>2, <2>4
    <3>2. (Content(b) \o src)[h] = Content(b)[h]
      BY <1>4, <1>5, <2>1, <2>4
    <3> QED BY <2>3, <2>4, <2>a, <3>1, <3>2
  <2>5. CASE h > b.len
    <3>1. Offset(b, x) - b.len + 1 = h - b.len /\ Offset(b, x) >= b.len
          /\ Offset(b, x) < b.len + n
      BY <1>1, <1>2, <2>2, <2>5
    <3>2. c.data[x] = src[h - b.len]
      BY <1>1, <2>2, <3>1
    <3>3. (Content(b) \o src)[h] = src[h - b.len]
      BY <1>2, <1>4, <1>5, <2>1, <2>5
    <3> QED BY <2>3, <3>2, <3>3
  <2>6. h <= b.len \/ h > b.len
    BY <1>1, <1>2
  <2> QED BY <2>4, <2>5, <2>6
<1>7. Content(c) = Content(b) \o src
  <2>1. Len(Content(c)) = Len(Content(b) \o src)
    BY <1>1, <1>3, <1>4, <1>5
  <2> QED BY <1>3, <1>5, <1>6, <2>1, SeqEqual
<1>8. ASSUME Clean(b), NEW x \in Unused(c) PROVE c.data[x] \in {Erased, Junk}
  <2>1. x \in 0..b.size-1 /\ Offset(c, x) >= c.len /\ Offset(c, x) = Offset(b, x)
    BY <1>1, <1>3 DEF Offset
  <2>2. Offset(b, x) >= b.len + n /\ Offset(b, x) \in 0..b.size-1
    BY <1>1, <2>1, OffsetIs
  <2>3. c.data[x] = b.data[x] /\ x \in Unused(b)
    BY <1>1, <1>2, <1>4, <2>1, <2>2
  <2> QED BY <1>8, <2>3 DEF Clean
<1> QED BY <1>7, <1>8 DEF Clean, c

-----------------------------------------------------------------------------
(***************************************************************************)
(* The two streams of bytes, and the invariant.                            *)
(***************************************************************************)
\* Bytes of the first n samples, in order and none twice.
Stream(y, n) ==
  /\ y \in Seq(Int)
  /\ Increasing(y)
  /\ \A h \in 1..Len(y) : y[h] <= 2 * n

\* The first n bytes of all strong digests.
Numbers(n) == [h \in 1..n |-> h]

\* Both buffers are in order and hold no byte that was handed out.
BuffersInv ==
  /\ CBufOK(ebg_cbuf) /\ ebg_cbuf.size = EBG_SIZE /\ Clean(ebg_cbuf)
  /\ CBufOK(paranoid_rand_cbuf) /\ paranoid_rand_cbuf.size = PARANOID_SIZE
  /\ Clean(paranoid_rand_cbuf)

\* What left the raw buffer and then what is in it, is of the samples taken.
RawInv ==
  /\ samples \in Nat /\ raw \in Seq(Int)
  /\ Stream(raw \o Content(ebg_cbuf), samples)

\* What callers got and then what is buffered, are all digests; while a caller
\* still waits for more nothing is buffered, so the rest of its last digest fits
\* and does not overtake older bytes.
StrongInv ==
  /\ calls \in Nat /\ job \in Nat /\ strong \in Seq(Int)
  /\ strong \o Content(paranoid_rand_cbuf) = Numbers(calls * DGST)
  /\ job > 0 => paranoid_rand_cbuf.len = 0

EbgInv == BuffersInv /\ RawInv /\ StrongInv

\* Sequences of bytes can be put together in any order of brackets.
LEMMA Glue ==
  ASSUME NEW y \in Seq(Int), NEW t \in Seq(Int), NEW u \in Seq(Int)
  PROVE  (y \o t) \o u = y \o (t \o u) /\ y \o t \in Seq(Int) /\ t \o u \in Seq(Int)
<1> DEFINE a == (y \o t) \o u
           e == y \o (t \o u)
<1>1. y \o t \in Seq(Int) /\ t \o u \in Seq(Int)
  BY ConcatProperties
<1>2. a \in Seq(Int) /\ e \in Seq(Int) /\ Len(a) = Len(e)
  BY <1>1, ConcatProperties
<1>3. ASSUME NEW i \in 1..Len(a) PROVE a[i] = e[i]
  BY <1>1, <1>2, ConcatProperties
<1> HIDE DEF a, e
<1>4. a = e
  BY <1>2, <1>3, SeqEqual
<1> QED BY <1>1, <1>4 DEF a, e

\* Later samples behind a stream make a longer stream.
LEMMA StreamGrows ==
  ASSUME NEW y, NEW n \in Nat, Stream(y, n), NEW m \in Nat, n <= m, NEW t \in Seq(Int),
         Increasing(t), \A h \in 1..Len(t) : 2 * n < t[h] /\ t[h] <= 2 * m
  PROVE  Stream(y \o t, m)
<1>1. y \in Seq(Int) /\ \A h \in 1..Len(y) : y[h] <= 2 * n
  BY DEF Stream
<1>2. \A h \in 1..Len(y)-1 : y[h] < y[h + 1]
  BY DEF Stream, Increasing
<1>3. \A h \in 1..Len(t)-1 : t[h] < t[h + 1]
  BY DEF Increasing
<1>4. /\ y \o t \in Seq(Int) /\ Len(y \o t) = Len(y) + Len(t)
      /\ \A i \in 1..Len(y) + Len(t) : (y \o t)[i] = IF i <= Len(y) THEN y[i] ELSE t[i - Len(y)]
  BY <1>1, ConcatProperties
<1> DEFINE u == y \o t
           a == Len(y)
           e == Len(t)
<1>5. /\ a \in Nat /\ e \in Nat /\ u \in Seq(Int) /\ Len(u) = a + e
      /\ \A i \in 1..a : u[i] = y[i] /\ y[i] \in Int
      /\ \A i \in a+1..a+e : u[i] = t[i - a] /\ i - a \in 1..e
      /\ \A i \in 1..e : t[i] \in Int
  BY <1>1, <1>4
<1> HIDE DEF u
<1>6. ASSUME NEW h \in 1..Len(u)-1 PROVE u[h] < u[h + 1]
  <2>1. CASE h < a
    <3>1. h \in 1..a-1 /\ h \in 1..a /\ h + 1 \in 1..a
      BY <1>5, <2>1
    <3> QED BY <1>2, <1>5, <3>1
  <2>2. CASE h = a
    <3>1. h \in 1..a /\ h + 1 \in a+1..a+e /\ h + 1 - a = 1 /\ 1 \in 1..e
      BY <1>5, <2>2
    <3>a. u[h] = y[h] /\ y[h] <= 2 * n /\ 2 * n < t[1]
      BY <1>1, <1>5, <3>1
    <3>b. u[h + 1] = t[h + 1 - a]
      BY <1>5, <3>1
    <3>2. u[h] = y[h] /\ y[h] <= 2 * n /\ u[h + 1] = t[1] /\ 2 * n < t[1]
      BY <3>1, <3>a, <3>b
    <3>3. y[h] \in Int /\ t[1] \in Int
      BY <1>5, <3>1
    <3> QED BY <3>2, <3>3
  <2>3. CASE h > a
    <3>1. h \in a+1..a+e /\ h + 1 \in a+1..a+e /\ h - a \in 1..e-1 /\ h + 1 - a = h - a + 1
      BY SMTT(30), <1>5, <2>3
    <3>2. u[h] = t[h - a] /\ u[h + 1] = t[h + 1 - a]
      BY SMTT(30), <1>5, <3>1
    <3>3. t[h - a] < t[h - a + 1]
      BY <1>3, <3>1
    <3> QED BY <3>1, <3>2, <3>3
  <2>4. h < a \/ h = a \/ h > a
    BY <1>5
  <2> QED BY <2>1, <2>2, <2>3, <2>4
<1>7. ASSUME NEW h \in 1..Len(u) PROVE u[h] <= 2 * m
  <2>1. CASE h <= a
    <3>1. h \in 1..a
      BY <1>5, <2>1
    <3>2. u[h] = y[h] /\ y[h] <= 2 * n /\ y[h] \in Int
      BY <1>1, <1>5, <3>1
    <3> QED BY <3>2
  <2>2. CASE h > a
    <3>1. h \in a+1..a+e
      BY <1>5, <2>2
    <3> QED BY <1>5, <3>1
  <2>3. h <= a \/ h > a
    BY <1>5
  <2> QED BY <2>1, <2>2, <2>3
<1>8. Stream(u, m)
  BY <1>5, <1>6, <1>7 DEF Stream, Increasing
<1> QED BY <1>8 DEF u

\* Whole samples, a low byte alone and nothing at all continue a stream.
LEMMA SamplesContinue ==
  ASSUME NEW y, NEW n \in Nat, Stream(y, n), NEW m \in Nat
  PROVE  /\ FullSamples(n, m) \in Seq(Int) /\ Len(FullSamples(n, m)) = 2 * m
         /\ Stream(y \o FullSamples(n, m), n + m)
<1> DEFINE t == FullSamples(n, m)
<1>1. t \in [1..2*m -> Int]
  BY DEF FullSamples
<1>2. t \in Seq(Int) /\ Len(t) = 2 * m
  <2>1. 2 * m \in Nat
    OBVIOUS
  <2> HIDE DEF t
  <2> QED BY <1>1, <2>1, FunIsSeq
<1>3. \A h \in 1..2*m : t[h] = 2 * n + h
  BY DEF FullSamples
<1> HIDE DEF t
<1>4. \A h \in 1..Len(t) : 2 * n < t[h] /\ t[h] <= 2 * (n + m)
  <2>1. ASSUME NEW h \in 1..2*m PROVE 2 * n < t[h] /\ t[h] <= 2 * (n + m)
    BY <1>3
  <2> QED BY <1>2, <2>1
<1>5. Increasing(t)
  <2>1. ASSUME NEW h \in 1..2*m-1 PROVE t[h] < t[h + 1]
    <3>1. h \in 1..2*m /\ h + 1 \in 1..2*m
      OBVIOUS
    <3>2. t[h] = 2 * n + h /\ t[h + 1] = 2 * n + (h + 1)
      BY <1>3, <3>1
    <3> QED BY <3>2
  <2> QED BY <1>2, <2>1 DEF Increasing
<1>6. Stream(y \o t, n + m)
  <2>1. n + m \in Nat /\ n <= n + m
    OBVIOUS
  <2> QED BY <1>2, <1>4, <1>5, <2>1, StreamGrows
<1> QED BY <1>2, <1>6 DEF t

\* See SamplesContinue.
LEMMA HalfContinues ==
  ASSUME NEW y, NEW n \in Nat, Stream(y, n)
  PROVE  /\ HalfSample(n) \in Seq(Int)
         /\ Stream(y \o HalfSample(n), n + 1)
<1> DEFINE t == HalfSample(n)
<1>1. t \in Seq(Int) /\ Len(t) = 1 /\ t[1] = 2 * n + 1
  BY DEF HalfSample
<1> HIDE DEF t
<1>2. \A h \in 1..Len(t) : 2 * n < t[h] /\ t[h] <= 2 * (n + 1)
  <2>1. ASSUME NEW h \in 1..Len(t) PROVE 2 * n < t[h] /\ t[h] <= 2 * (n + 1)
    <3>1. h = 1
      BY <1>1
    <3> QED BY <1>1, <3>1
  <2> QED BY <2>1
<1>3. Increasing(t)
  <2>1. \A h \in 1..Len(t)-1 : FALSE
    BY <1>1
  <2> QED BY <2>1 DEF Increasing
<1>4. Stream(y \o t, n + 1)
  <2>1. n + 1 \in Nat /\ n <= n + 1
    OBVIOUS
  <2> QED BY <1>1, <1>2, <1>3, <2>1, StreamGrows
<1> QED BY <1>1, <1>4 DEF t

\* See SamplesContinue: a low byte, or nothing, for an odd place.
LEMMA OddContinues ==
  ASSUME NEW y, NEW n \in Nat, Stream(y, n), NEW a \in {0, 1}
  PROVE  LET t == IF a = 1 THEN HalfSample(n) ELSE <<>> IN
         t \in Seq(Int) /\ Stream(y \o t, n + a)
<1>1. CASE a = 1
  BY <1>1, HalfContinues
<1>2. CASE a = 0
  <2>1. y \o <<>> = y /\ n + a = n /\ <<>> \in Seq(Int)
    BY <1>2, ConcatEmptySeq, EmptySeq DEF Stream
  <2> QED BY <1>2, <2>1
<1> QED BY <1>1, <1>2

\* ebg_rand_sync takes the oldest bytes, waits for samples only once there are
\* none left, and so continues the stream.
LEMMA SyncContinues ==
  ASSUME NEW b, CBufOK(b), NEW y \in Nat, NEW size \in Nat, NEW v \in Seq(Int),
         Stream(v \o Content(b), y)
  PROVE  LET g == ebg_rand_sync(b, y, size) IN
         /\ CBufOK(g.cbuf) /\ g.cbuf.size = b.size /\ (Clean(b) => Clean(g.cbuf))
         /\ g.samples \in Nat /\ g.out \in Seq(Int)
         /\ Stream((v \o g.out) \o Content(g.cbuf), g.samples)
<1> DEFINE pull  == cbuf_pull(b, size)
           owed  == size - Len(pull.out)
           align == IF owed > 0 THEN Len(pull.out) % 2 ELSE 0
           pairs == (owed - align) \div 2
           rest  == (owed - align) % 2
           one   == IF align = 1 THEN HalfSample(y) ELSE <<>>
           two   == FullSamples(y + align, pairs)
           three == IF rest = 1 THEN HalfSample(y + align + pairs) ELSE <<>>
           got   == pull.out
           c     == pull.cbuf
           g     == ebg_rand_sync(b, y, size)
<1>1. g.cbuf = c /\ g.samples = y + align + pairs + rest /\ g.out = got \o one \o two \o three
  BY DEF ebg_rand_sync
<1> HIDE DEF g
<1>2. /\ got \in Seq(Int) /\ Content(c) \in Seq(Int) /\ Content(b) = got \o Content(c)
      /\ CBufOK(c) /\ c.size = b.size /\ (Clean(b) => Clean(c))
  BY PullState, PullSplits
<1>3. owed \in Nat /\ (owed > 0 => Content(c) = <<>>)
  <2> DEFINE len == MinOf(b.len, size)
  <2>1. /\ len \in 0..b.len /\ len <= size /\ (len = size \/ len = b.len)
        /\ got = Pulled(b, len) /\ c.len = b.len - len
    BY PullState
  <2> HIDE DEF len, c
  <2>2. b.len \in Nat
    BY DEF CBufOK
  <2>3. Len(got) = len
    BY <2>1, PulledIs
  <2>4. Len(Content(c)) = c.len
    BY <1>2, ContentIs
  <2> HIDE DEF got
  <2>5. owed = size - Len(got)
    BY DEF got
  <2> HIDE DEF owed
  <2>6. owed \in Nat /\ (owed > 0 => c.len = 0)
    BY <2>1, <2>2, <2>3, <2>5
  <2> QED BY <1>2, <2>4, <2>6, EmptySeq
<1>4. align \in {0, 1} /\ (owed > 0 => align <= owed) /\ (owed = 0 => align = 0)
  <2>1. Len(got) \in Nat
    BY <1>2
  <2> DEFINE m == Len(got) % 2
  <2>2. m \in {0, 1}
    <3> HIDE DEF got
    <3> QED BY <2>1
  <2>3. align = IF owed > 0 THEN m ELSE 0
    OBVIOUS
  <2> HIDE DEF m, owed, align
  <2> QED BY <1>3, <2>2, <2>3
<1> HIDE DEF got, c, owed
<1>5. /\ pairs \in Nat /\ rest \in {0, 1}
      /\ owed = 0 => align = 0 /\ pairs = 0 /\ rest = 0
  <2> HIDE DEF align
  <2>1. owed - align \in Nat /\ (owed = 0 => owed - align = 0)
    BY <1>3, <1>4
  <2> QED BY <1>4, <2>1
<1> HIDE DEF align, pairs, rest
<1>6. y + align \in Nat /\ y + align + pairs \in Nat /\ y + align + pairs + rest \in Nat
  BY <1>4, <1>5
<1>7. CASE owed = 0
  <2>1. align = 0 /\ pairs = 0 /\ rest = 0 /\ y + align + pairs + rest = y
    BY <1>5, <1>7
  <2>2. one = <<>> /\ three = <<>>
    BY <2>1
  <2>3. two = <<>>
    <3>1. two \in Seq(Int) /\ Len(two) = 2 * pairs
      <4>1. Stream(v \o Content(b), y + align)
        BY <2>1
      <4> QED BY <1>5, <1>6, <4>1, SamplesContinue
    <3> HIDE DEF two
    <3> QED BY <2>1, <3>1, EmptySeq
  <2> HIDE DEF one, two, three
  <2>4. g.out = got
    BY <1>1, <1>2, <2>2, <2>3, ConcatEmptySeq
  <2>5. (v \o got) \o Content(c) = v \o Content(b)
    BY SMTT(30), <1>2, Glue
  <2> QED BY <1>1, <1>2, <2>1, <2>4, <2>5 DEF g
<1>8. CASE owed > 0
  <2>1. Content(c) = <<>>
    BY <1>3, <1>8
  <2>2. Stream(v \o got, y)
    <3>1. got \o Content(c) = got
      BY <1>2, <2>1, ConcatEmptySeq
    <3> QED BY <1>2, <3>1
  <2>3. one \in Seq(Int) /\ Stream((v \o got) \o one, y + align)
    BY <1>4, <2>2, OddContinues
  <2>4. two \in Seq(Int) /\ Stream(((v \o got) \o one) \o two, y + align + pairs)
    <3> HIDE DEF one
    <3> QED BY <1>5, <1>6, <2>3, SamplesContinue
  <2>5. /\ three \in Seq(Int)
        /\ Stream((((v \o got) \o one) \o two) \o three, y + align + pairs + rest)
    <3> HIDE DEF one, two
    <3> QED BY <1>5, <1>6, <2>4, OddContinues
  <2> HIDE DEF one, two, three
  <2>6. (((v \o got) \o one) \o two) \o three = v \o (got \o one \o two \o three)
    <3>1. (v \o got) \o one = v \o (got \o one) /\ got \o one \in Seq(Int)
      BY <1>2, <2>3, Glue
    <3>2. (v \o (got \o one)) \o two = v \o (got \o one \o two) /\ got \o one \o two \in Seq(Int)
      BY <2>4, <3>1, Glue
    <3>3. (v \o (got \o one \o two)) \o three = v \o (got \o one \o two \o three)
      BY <2>5, <3>2, Glue
    <3> QED BY <3>1, <3>2, <3>3
  <2>7. got \o one \o two \o three \in Seq(Int)
    BY <1>2, <2>3, <2>4, <2>5, ConcatProperties
  <2>8. g.out \in Seq(Int) /\ v \o g.out \in Seq(Int)
    BY <1>1, <2>7, ConcatProperties
  <2>9. (v \o g.out) \o Content(c) = v \o g.out
    BY <2>1, <2>8, ConcatEmptySeq
  <2> QED BY <1>1, <1>2, <1>6, <2>5, <2>6, <2>8, <2>9 DEF g
<1>9. owed = 0 \/ owed > 0
  BY <1>3
<1> QED BY <1>7, <1>8, <1>9

\* The sizes, one by one.
LEMMA BufferSizes ==
  /\ EBG_SIZE \in Nat \ {0} /\ PARANOID_SIZE \in Nat \ {0} /\ DGST \in Nat \ {0}
  /\ COLLECT \in Nat /\ DGST <= PARANOID_SIZE
  /\ RawSizes \subseteq Nat /\ StrongSizes \subseteq Nat
BY SizesAssumption

\* The next digest goes on where the last one ended.
LEMMA DigestContinues ==
  ASSUME NEW n \in Nat
  PROVE  /\ Digest(n + 1) \in Seq(Int) /\ Len(Digest(n + 1)) = DGST
         /\ Numbers(n * DGST) \o Digest(n + 1) = Numbers((n + 1) * DGST)
<1> DEFINE a == n * DGST
           d == Digest(n + 1)
           y == Numbers(a)
           u == Numbers(a + DGST)
<1>1. DGST \in Nat
  BY BufferSizes
<1>2. a \in Nat /\ (n + 1) * DGST = a + DGST /\ DGST * (n + 1 - 1) = a
  BY <1>1
<1>3. d \in [1..DGST -> Int] /\ \A h \in 1..DGST : d[h] = a + h
  <2>1. d = [h \in 1..DGST |-> DGST * (n + 1 - 1) + h]
    BY DEF Digest
  <2>2. \A h \in 1..DGST : DGST * (n + 1 - 1) + h = a + h /\ a + h \in Int
    <3> HIDE DEF a
    <3> QED BY <1>1, <1>2
  <2> HIDE DEF d, a
  <2> QED BY <2>1, <2>2
<1> HIDE DEF d, a
<1>4. d \in Seq(Int) /\ Len(d) = DGST
  BY <1>1, <1>3, FunIsSeq
<1>5. /\ y \in Seq(Int) /\ Len(y) = a /\ \A h \in 1..a : y[h] = h
      /\ u \in Seq(Int) /\ Len(u) = a + DGST /\ \A h \in 1..a+DGST : u[h] = h
  <2>1. y \in [1..a -> Int] /\ \A h \in 1..a : y[h] = h
    BY DEF Numbers
  <2>2. u \in [1..a+DGST -> Int] /\ \A h \in 1..a+DGST : u[h] = h
    BY DEF Numbers
  <2>3. a + DGST \in Nat
    BY <1>1, <1>2
  <2> HIDE DEF y, u
  <2> QED BY <1>2, <2>1, <2>2, <2>3, FunIsSeq
<1> HIDE DEF y, u
<1>6. /\ y \o d \in Seq(Int) /\ Len(y \o d) = a + DGST
      /\ \A i \in 1..a+DGST : (y \o d)[i] = IF i <= a THEN y[i] ELSE d[i - a]
  <2>1. /\ y \o d \in Seq(Int) /\ Len(y \o d) = Len(y) + Len(d)
        /\ \A i \in 1..Len(y)+Len(d) :
             (y \o d)[i] = IF i <= Len(y) THEN y[i] ELSE d[i - Len(y)]
    BY <1>4, <1>5, ConcatProperties, ZenonT(30)
  <2>2. Len(y) = a /\ Len(d) = DGST
    BY <1>4, <1>5
  <2> QED BY <2>1, <2>2
<1>7. ASSUME NEW i \in 1..a+DGST PROVE (y \o d)[i] = u[i]
  <2>1. CASE i <= a
    <3>1. i \in 1..a
      BY <1>2, <2>1
    <3> QED BY <1>5, <1>6, <2>1, <3>1
  <2>2. CASE i > a
    <3>1. i - a \in 1..DGST /\ ~(i <= a) /\ a + (i - a) = i
      BY <1>1, <1>2, <2>2
    <3> QED BY <1>3, <1>5, <1>6, <3>1
  <2>3. i <= a \/ i > a
    BY <1>1, <1>2
  <2> QED BY <2>1, <2>2, <2>3
<1>8. y \o d = u
  BY <1>5, <1>6, <1>7, SeqEqual
<1> QED BY <1>2, <1>4, <1>8 DEF d, y, u, a

-----------------------------------------------------------------------------
(***************************************************************************)
(* The invariant holds initially and each step keeps it.                   *)
(***************************************************************************)
\* A new buffer is in order, holds nothing and hides nothing.
LEMMA NewIsOK ==
  ASSUME NEW size \in Nat \ {0}
  PROVE  LET b == NewCBuf(size) IN
         CBufOK(b) /\ b.size = size /\ b.len = 0 /\ Clean(b) /\ Content(b) = <<>>
<1> DEFINE b == NewCBuf(size)
<1>1. b.size = size /\ b.len = 0 /\ b.pos = 0 /\ b.data = [x \in 0..size-1 |-> Junk]
  BY DEF NewCBuf
<1>2. CBufOK(b)
  BY <1>1 DEF NewCBuf, CBufOK, Junk
<1> HIDE DEF b
<1>3. Content(b) \in Seq(Int) /\ Len(Content(b)) = 0 /\ Unused(b) \subseteq 0..size-1
  BY <1>1, <1>2, ContentIs
<1>4. Content(b) = <<>>
  BY <1>3, EmptySeq
<1>5. Clean(b)
  BY <1>1, <1>3 DEF Clean
<1> QED BY <1>1, <1>2, <1>4, <1>5 DEF b

\* Initially nothing is buffered and nothing was given out.
LEMMA EbgInit ==
  Init => EbgInv
<1> SUFFICES ASSUME Init PROVE EbgInv
  OBVIOUS
<1>1. EBG_SIZE \in Nat \ {0} /\ PARANOID_SIZE \in Nat \ {0} /\ DGST \in Nat
  BY BufferSizes
<1>2. BuffersInv /\ Content(ebg_cbuf) = <<>> /\ Content(paranoid_rand_cbuf) = <<>>
  BY <1>1, NewIsOK DEF Init, BuffersInv
<1>3. <<>> \o <<>> = <<>> /\ <<>> \in Seq(Int) /\ Len(<<>>) = 0
  BY ConcatEmptySeq, EmptySeq
<1>4. RawInv
  BY <1>2, <1>3 DEF Init, RawInv, Stream, Increasing
<1>5. Numbers(0) = <<>>
  BY DEF Numbers
<1>6. 0 * DGST = 0
  BY <1>1
<1>7. StrongInv
  BY <1>1, <1>2, <1>3, <1>5, <1>6, NewIsOK DEF Init, StrongInv
<1> QED BY <1>2, <1>4, <1>7 DEF EbgInv

\* Whoever takes raw bytes the synchronous way, and adds them to the history of
\* what left the buffer, keeps the raw stream.
LEMMA SyncKeeps ==
  ASSUME BuffersInv, RawInv, NEW size \in Nat
  PROVE  LET g == ebg_rand_sync(ebg_cbuf, samples, size) IN
         /\ CBufOK(g.cbuf) /\ g.cbuf.size = EBG_SIZE /\ Clean(g.cbuf)
         /\ g.samples \in Nat /\ raw \o g.out \in Seq(Int)
         /\ Stream((raw \o g.out) \o Content(g.cbuf), g.samples)
<1> DEFINE g == ebg_rand_sync(ebg_cbuf, samples, size)
<1>1. /\ CBufOK(g.cbuf) /\ g.cbuf.size = ebg_cbuf.size /\ (Clean(ebg_cbuf) => Clean(g.cbuf))
      /\ g.samples \in Nat /\ g.out \in Seq(Int)
      /\ Stream((raw \o g.out) \o Content(g.cbuf), g.samples)
  BY SyncContinues DEF BuffersInv, RawInv
<1> HIDE DEF g
<1>2. raw \o g.out \in Seq(Int)
  BY <1>1, ConcatProperties DEF RawInv
<1> QED BY <1>1, <1>2 DEF BuffersInv, g

\* A turn of the main loop, its digest made: then perhaps a sample is pushed.
LEMMA SamplePushed ==
  ASSUME NEW b, CBufOK(b), b.size = EBG_SIZE, Clean(b), NEW y \in Nat, NEW v \in Seq(Int),
         Stream(v \o Content(b), y), b.len <= EBG_SIZE - 2
  PROVE  LET c == cbuf_push(b, FullSamples(y, 1)) IN
         /\ CBufOK(c) /\ c.size = EBG_SIZE /\ Clean(c)
         /\ y + 1 \in Nat /\ Stream(v \o Content(c), y + 1)
<1> DEFINE src == FullSamples(y, 1)
           c   == cbuf_push(b, src)
<1>1. /\ src \in Seq(Int) /\ Len(src) = 2
      /\ Stream((v \o Content(b)) \o src, y + 1)
  <2>1. 1 \in Nat /\ 2 * 1 = 2
    OBVIOUS
  <2>2. /\ src \in Seq(Int) /\ Len(src) = 2 * 1
        /\ Stream((v \o Content(b)) \o src, y + 1)
    BY <2>1, SamplesContinue
  <2> QED BY <2>1, <2>2
<1> HIDE DEF src
<1>2. Len(src) <= b.size - b.len
  <2>1. b.len \in Nat /\ EBG_SIZE \in Nat
    BY BufferSizes DEF CBufOK
  <2> QED BY <1>1, <2>1
<1>3. CBufOK(c) /\ c.size = b.size /\ Content(c) = Content(b) \o src /\ Clean(c)
  BY <1>1, <1>2, PushState, PushAppends
<1> HIDE DEF c
<1>4. (v \o Content(b)) \o src = v \o Content(c)
  <2>1. Content(b) \in Seq(Int)
    BY ContentIs
  <2>2. (v \o Content(b)) \o src = v \o (Content(b) \o src)
    BY <1>1, <2>1, Glue
  <2> QED BY <1>3, <2>2
<1>5. Stream(v \o Content(c), y + 1) /\ y + 1 \in Nat
  BY <1>1, <1>4
<1>6. CBufOK(c) /\ c.size = EBG_SIZE /\ Clean(c)
  BY <1>3
<1> QED BY <1>5, <1>6 DEF c, src

\* A digest made and buffered, or given out: the strong stream goes on.
LEMMA StrongPushed ==
  ASSUME BuffersInv, StrongInv, cbuf_free_space(paranoid_rand_cbuf) >= DGST
  PROVE  LET c == cbuf_push(paranoid_rand_cbuf, Digest(calls + 1)) IN
         /\ CBufOK(c) /\ c.size = PARANOID_SIZE /\ Clean(c)
         /\ strong \o Content(c) = Numbers((calls + 1) * DGST)
<1> DEFINE b   == paranoid_rand_cbuf
           src == Digest(calls + 1)
           c   == cbuf_push(b, src)
<1>1. /\ CBufOK(b) /\ b.size = PARANOID_SIZE /\ Clean(b) /\ calls \in Nat /\ strong \in Seq(Int)
      /\ strong \o Content(b) = Numbers(calls * DGST)
  BY DEF BuffersInv, StrongInv
<1>2. /\ src \in Seq(Int) /\ Len(src) = DGST
      /\ Numbers(calls * DGST) \o src = Numbers((calls + 1) * DGST)
  BY <1>1, DigestContinues
<1> HIDE DEF src
<1>3. Len(src) <= b.size - b.len
  <2>1. b.len \in Nat /\ b.size \in Nat /\ DGST \in Nat
    BY <1>1, BufferSizes DEF CBufOK
  <2> QED BY <1>2, <2>1 DEF cbuf_free_space
<1>4. CBufOK(c) /\ c.size = b.size /\ Content(c) = Content(b) \o src /\ Clean(c)
  BY <1>1, <1>2, <1>3, PushState, PushAppends
<1> HIDE DEF c
<1>5. (strong \o Content(b)) \o src = strong \o Content(c)
  <2>1. Content(b) \in Seq(Int)
    BY <1>1, ContentIs
  <2>2. (strong \o Content(b)) \o src = strong \o (Content(b) \o src)
    BY <1>1, <1>2, <2>1, Glue
  <2> QED BY <1>4, <2>2
<1> QED BY <1>1, <1>2, <1>4, <1>5 DEF c, src

\* ebg_process keeps both streams.
LEMMA ProcessStep ==
  ASSUME EbgInv, ebg_process PROVE EbgInv'
<1> DEFINE g == IF StrongDue THEN Collected
                ELSE [cbuf |-> ebg_cbuf, samples |-> samples, out |-> <<>>]
<1>1. /\ job = 0
      /\ IF StrongDue
           THEN /\ paranoid_rand_64(g)
                /\ paranoid_rand_cbuf' = cbuf_push(paranoid_rand_cbuf, Digest(calls + 1))
           ELSE UNCHANGED <<calls, hashed, prev, raw, paranoid_rand_cbuf>>
      /\ \/ ebg_cbuf' = g.cbuf /\ samples' = g.samples
         \/ /\ g.cbuf.len <= EBG_SIZE - 2 /\ g.samples < MaxSamples
            /\ ebg_cbuf' = cbuf_push(g.cbuf, FullSamples(g.samples, 1))
            /\ samples' = g.samples + 1
      /\ UNCHANGED <<job, strong>>
  BY DEF ebg_process
<1>2. /\ CBufOK(g.cbuf) /\ g.cbuf.size = EBG_SIZE /\ Clean(g.cbuf) /\ g.samples \in Nat
      /\ raw' \in Seq(Int) /\ Stream(raw' \o Content(g.cbuf), g.samples)
  <2>1. CASE StrongDue
    <3>1. g = Collected /\ raw' = raw \o g.out
      BY <1>1, <2>1 DEF paranoid_rand_64
    <3> HIDE DEF g
    <3>2. COLLECT \in Nat
      BY BufferSizes
    <3> QED BY <3>1, <3>2, SyncKeeps DEF EbgInv, Collected
  <2>2. CASE ~StrongDue
    <3>1. g.cbuf = ebg_cbuf /\ g.samples = samples /\ raw' = raw
      BY <1>1, <2>2
    <3> HIDE DEF g
    <3> QED BY <3>1 DEF EbgInv, BuffersInv, RawInv
  <2> QED BY <2>1, <2>2
<1> HIDE DEF g
<1>3. /\ CBufOK(paranoid_rand_cbuf') /\ paranoid_rand_cbuf'.size = PARANOID_SIZE
      /\ Clean(paranoid_rand_cbuf') /\ StrongInv'
  <2>1. CASE StrongDue
    <3>1. cbuf_free_space(paranoid_rand_cbuf) >= DGST
      BY <2>1 DEF StrongDue
    <3>2. calls' = calls + 1 /\ calls' \in Nat /\ job' = 0 /\ strong' = strong
      BY <1>1, <2>1 DEF paranoid_rand_64, EbgInv, StrongInv
    <3>3. paranoid_rand_cbuf' = cbuf_push(paranoid_rand_cbuf, Digest(calls + 1))
      BY <1>1, <2>1
    <3> QED BY <3>1, <3>2, <3>3, StrongPushed DEF EbgInv, StrongInv
  <2>2. CASE ~StrongDue
    BY <1>1, <2>2 DEF EbgInv, BuffersInv, StrongInv
  <2> QED BY <2>1, <2>2
<1>4. CASE ebg_cbuf' = g.cbuf /\ samples' = g.samples
  BY <1>2, <1>3, <1>4 DEF EbgInv, BuffersInv, RawInv
<1>5. CASE /\ g.cbuf.len <= EBG_SIZE - 2
           /\ ebg_cbuf' = cbuf_push(g.cbuf, FullSamples(g.samples, 1))
           /\ samples' = g.samples + 1
  <2>1. /\ CBufOK(ebg_cbuf') /\ ebg_cbuf'.size = EBG_SIZE /\ Clean(ebg_cbuf')
        /\ samples' \in Nat /\ Stream(raw' \o Content(ebg_cbuf'), samples')
    BY <1>2, <1>5, SamplePushed
  <2> QED BY <1>2, <1>3, <2>1 DEF EbgInv, BuffersInv, RawInv
<1> QED BY <1>1, <1>4, <1>5

\* "rand raw" and MBOX_CMD_GET_RANDOM without a buffer keep them.
LEMMA RawStep ==
  ASSUME EbgInv, NEW n \in RawSizes, RandRaw(n) \/ ebg_rand(n) PROVE EbgInv'
<1>1. n \in Nat
  BY BufferSizes
<1>2. ASSUME UNCHANGED <<paranoid_rand_cbuf, calls, job, strong>> PROVE
      /\ CBufOK(paranoid_rand_cbuf') /\ paranoid_rand_cbuf'.size = PARANOID_SIZE
      /\ Clean(paranoid_rand_cbuf') /\ StrongInv'
  BY <1>2 DEF EbgInv, BuffersInv, StrongInv
<1>3. CASE RandRaw(n)
  <2> DEFINE g == ebg_rand_sync(ebg_cbuf, samples, n)
  <2>1. /\ ebg_cbuf' = g.cbuf /\ samples' = g.samples /\ raw' = raw \o g.out
        /\ UNCHANGED <<paranoid_rand_cbuf, calls, job, strong>>
    BY <1>3 DEF RandRaw
  <2>2. /\ CBufOK(g.cbuf) /\ g.cbuf.size = EBG_SIZE /\ Clean(g.cbuf)
        /\ g.samples \in Nat /\ raw \o g.out \in Seq(Int)
        /\ Stream((raw \o g.out) \o Content(g.cbuf), g.samples)
    BY <1>1, SyncKeeps DEF EbgInv
  <2> HIDE DEF g
  <2> QED BY <1>2, <2>1, <2>2 DEF EbgInv, BuffersInv, RawInv
<1>4. CASE ebg_rand(n)
  <2> DEFINE m    == MinOf(ebg_cbuf.len, n)
             pull == cbuf_pull(ebg_cbuf, m)
  <2>1. /\ ebg_cbuf' = pull.cbuf /\ raw' = raw \o pull.out
        /\ UNCHANGED <<paranoid_rand_cbuf, samples, calls, job, strong>>
    BY <1>4 DEF ebg_rand
  <2>2. m \in Nat /\ CBufOK(ebg_cbuf) /\ raw \in Seq(Int)
    BY <1>1 DEF MinOf, EbgInv, BuffersInv, RawInv, CBufOK
  <2> HIDE DEF m
  <2>3. /\ CBufOK(pull.cbuf) /\ pull.cbuf.size = ebg_cbuf.size
        /\ pull.out \in Seq(Int) /\ Content(pull.cbuf) \in Seq(Int)
        /\ Content(ebg_cbuf) = pull.out \o Content(pull.cbuf)
        /\ (Clean(ebg_cbuf) => Clean(pull.cbuf))
    BY <2>2, PullState, PullSplits
  <2> HIDE DEF pull
  <2>4. /\ (raw \o pull.out) \o Content(pull.cbuf) = raw \o Content(ebg_cbuf)
        /\ raw \o pull.out \in Seq(Int)
    <3>1. (raw \o pull.out) \o Content(pull.cbuf) = raw \o (pull.out \o Content(pull.cbuf))
      BY <2>2, <2>3, Glue
    <3>2. raw \o pull.out \in Seq(Int)
      BY <2>2, <2>3, Glue
    <3> QED BY <2>3, <3>1, <3>2
  <2> QED BY <1>2, <2>1, <2>3, <2>4 DEF EbgInv, BuffersInv, RawInv
<1> QED BY <1>3, <1>4

\* paranoid_rand first hands out what is buffered; what it then still owes, it
\* owes with an empty buffer.
LEMMA StrongStart ==
  ASSUME EbgInv, NEW n \in StrongSizes, paranoid_rand(n) PROVE EbgInv'
<1> DEFINE b    == paranoid_rand_cbuf
           pull == cbuf_pull(b, n)
           len  == MinOf(b.len, n)
<1>1. /\ paranoid_rand_cbuf' = pull.cbuf /\ strong' = strong \o pull.out
      /\ job' = n - Len(pull.out)
      /\ UNCHANGED <<ebg_cbuf, samples, calls, raw>>
  BY DEF paranoid_rand
<1>2. /\ n \in Nat /\ CBufOK(b) /\ b.size = PARANOID_SIZE /\ Clean(b) /\ strong \in Seq(Int)
      /\ b.len \in Nat /\ calls \in Nat /\ strong \o Content(b) = Numbers(calls * DGST)
  BY BufferSizes DEF EbgInv, BuffersInv, StrongInv, CBufOK
<1>3. /\ CBufOK(pull.cbuf) /\ pull.cbuf.size = b.size
      /\ pull.out \in Seq(Int) /\ Content(pull.cbuf) \in Seq(Int)
      /\ Content(b) = pull.out \o Content(pull.cbuf)
      /\ (Clean(b) => Clean(pull.cbuf))
  BY <1>2, PullState, PullSplits
<1>4. /\ len \in 0..b.len /\ len <= n /\ (len = n \/ len = b.len)
      /\ pull.out = Pulled(b, len) /\ pull.cbuf.len = b.len - len
  BY <1>2, PullState
<1> HIDE DEF len
<1>5. Len(pull.out) = len
  BY <1>2, <1>4, PulledIs
<1> HIDE DEF pull
<1>6. job' \in Nat /\ (job' > 0 => pull.cbuf.len = 0)
  BY <1>1, <1>2, <1>4, <1>5
<1>7. strong \o pull.out \in Seq(Int)
  BY <1>2, <1>3, Glue
<1>8. (strong \o pull.out) \o Content(pull.cbuf) = Numbers(calls * DGST)
  <2>1. (strong \o pull.out) \o Content(pull.cbuf) = strong \o (pull.out \o Content(pull.cbuf))
    BY <1>2, <1>3, Glue
  <2> QED BY <1>2, <1>3, <2>1
<1>9. StrongInv'
  BY <1>1, <1>2, <1>6, <1>7, <1>8 DEF StrongInv
<1> QED BY <1>1, <1>2, <1>3, <1>9 DEF EbgInv, BuffersInv, RawInv

\* A call of paranoid_rand_64 on behalf of paranoid_rand collects its raw bytes.
LEMMA CollectStep ==
  ASSUME EbgInv, paranoid_rand_64(Collected),
         ebg_cbuf' = Collected.cbuf /\ samples' = Collected.samples
  PROVE  /\ CBufOK(ebg_cbuf') /\ ebg_cbuf'.size = EBG_SIZE /\ Clean(ebg_cbuf') /\ RawInv'
         /\ calls' = calls + 1 /\ calls' \in Nat
<1>1. COLLECT \in Nat
  BY BufferSizes
<1>2. /\ CBufOK(Collected.cbuf) /\ Collected.cbuf.size = EBG_SIZE /\ Clean(Collected.cbuf)
      /\ Collected.samples \in Nat /\ raw \o Collected.out \in Seq(Int)
      /\ Stream((raw \o Collected.out) \o Content(Collected.cbuf), Collected.samples)
  BY <1>1, SyncKeeps DEF EbgInv, Collected
<1>3. raw' = raw \o Collected.out /\ calls' = calls + 1
  BY DEF paranoid_rand_64
<1> QED BY <1>2, <1>3 DEF RawInv, EbgInv, StrongInv

\* What was given out so far while a caller waits: all digests, whole.
LEMMA NothingBuffered ==
  ASSUME EbgInv, job > 0
  PROVE  /\ Content(paranoid_rand_cbuf) = <<>> /\ paranoid_rand_cbuf.len = 0
         /\ strong \in Seq(Int) /\ calls \in Nat
         /\ strong = Numbers(calls * DGST)
<1>1. /\ CBufOK(paranoid_rand_cbuf) /\ paranoid_rand_cbuf.len = 0
      /\ strong \in Seq(Int) /\ calls \in Nat
      /\ strong \o Content(paranoid_rand_cbuf) = Numbers(calls * DGST)
  BY DEF EbgInv, BuffersInv, StrongInv
<1>2. Content(paranoid_rand_cbuf) \in Seq(Int) /\ Len(Content(paranoid_rand_cbuf)) = 0
  BY <1>1, ContentIs
<1>3. Content(paranoid_rand_cbuf) = <<>>
  BY <1>2, EmptySeq
<1> QED BY <1>1, <1>3, ConcatEmptySeq

\* A whole digest for the caller.
LEMMA WholeStep ==
  ASSUME EbgInv, paranoid_rand_whole PROVE EbgInv'
<1>1. /\ job >= DGST /\ paranoid_rand_64(Collected)
      /\ ebg_cbuf' = Collected.cbuf /\ samples' = Collected.samples
      /\ strong' = strong \o Digest(calls + 1) /\ job' = job - DGST
      /\ UNCHANGED paranoid_rand_cbuf
  BY DEF paranoid_rand_whole
<1>2. DGST \in Nat \ {0} /\ job \in Nat
  BY BufferSizes DEF EbgInv, StrongInv
<1>3. /\ Content(paranoid_rand_cbuf) = <<>> /\ paranoid_rand_cbuf.len = 0
      /\ strong \in Seq(Int) /\ calls \in Nat /\ strong = Numbers(calls * DGST)
  <2>1. job > 0
    BY <1>1, <1>2
  <2> QED BY <2>1, NothingBuffered
<1>4. /\ CBufOK(ebg_cbuf') /\ ebg_cbuf'.size = EBG_SIZE /\ Clean(ebg_cbuf') /\ RawInv'
      /\ calls' = calls + 1 /\ calls' \in Nat
  BY <1>1, CollectStep
<1>5. Digest(calls + 1) \in Seq(Int) /\ strong' = Numbers(calls' * DGST)
  BY <1>1, <1>3, <1>4, DigestContinues
<1>6. strong' \in Seq(Int)
  BY <1>1, <1>3, <1>5, Glue
<1>7. strong' \o Content(paranoid_rand_cbuf') = Numbers(calls' * DGST)
  BY <1>1, <1>3, <1>5, <1>6, ConcatEmptySeq
<1>8. job' \in Nat
  BY <1>1, <1>2
<1>9. StrongInv'
  BY <1>1, <1>3, <1>4, <1>6, <1>7, <1>8 DEF StrongInv
<1> QED BY <1>1, <1>4, <1>9 DEF EbgInv, BuffersInv

\* The caller gets the beginning of a digest, the buffer its rest.
LEMMA RestStep ==
  ASSUME EbgInv, paranoid_rand_rest PROVE EbgInv'
<1> DEFINE d    == Digest(calls + 1)
           head == SubSeq(d, 1, job)
           kept == KeptOf(d, job)
           b    == paranoid_rand_cbuf
           c    == cbuf_push(b, kept)
<1>1. /\ job \in 1..DGST-1 /\ paranoid_rand_64(Collected)
      /\ ebg_cbuf' = Collected.cbuf /\ samples' = Collected.samples
      /\ strong' = strong \o head /\ paranoid_rand_cbuf' = c /\ job' = 0
  BY DEF paranoid_rand_rest
<1>2. DGST \in Nat \ {0} /\ DGST <= PARANOID_SIZE /\ PARANOID_SIZE \in Nat
  BY BufferSizes
<1>3. /\ Content(b) = <<>> /\ b.len = 0
      /\ strong \in Seq(Int) /\ calls \in Nat /\ strong = Numbers(calls * DGST)
  <2>1. job > 0
    BY <1>1, <1>2
  <2> QED BY <2>1, NothingBuffered
<1>4. /\ CBufOK(ebg_cbuf') /\ ebg_cbuf'.size = EBG_SIZE /\ Clean(ebg_cbuf') /\ RawInv'
      /\ calls' = calls + 1 /\ calls' \in Nat
  BY <1>1, CollectStep
<1>5. d \in Seq(Int) /\ Len(d) = DGST /\ strong \o d = Numbers(calls' * DGST)
  BY <1>3, <1>4, DigestContinues
<1> HIDE DEF d
<1>6. head \in Seq(Int)
  <2>1. \A i \in 1..job : d[i] \in Int
    BY <1>1, <1>2, <1>5
  <2> QED BY <1>1, <2>1, SubSeqProperties
<1>7. kept \in Seq(Int) /\ Len(kept) = DGST - job
  <2>1. /\ \A i \in job+1..DGST : d[i] \in Int
        /\ job + 1 \in Int /\ DGST \in Int /\ job + 1 <= DGST /\ DGST - (job + 1) + 1 = DGST - job
    BY <1>1, <1>2, <1>5
  <2> QED BY <2>1, SubSeqProperties DEF KeptOf
<1>8. head \o kept = d
  <2>1. 1 \in 1..Len(d)+1 /\ job \in 1-1..Len(d) /\ DGST \in job..Len(d)
    BY <1>1, <1>2, <1>5
  <2>2. head \o kept = SubSeq(d, 1, DGST)
    BY <1>5, <2>1, ConcatAdjacentSubSeq DEF KeptOf
  <2>3. SubSeq(d, 1, DGST) = d
    BY <1>5, SubSeqFull
  <2> QED BY <2>2, <2>3
<1> HIDE DEF head, kept
<1>9. CBufOK(b) /\ b.size = PARANOID_SIZE /\ Clean(b)
  BY DEF EbgInv, BuffersInv
<1>10. /\ CBufOK(c) /\ c.size = b.size /\ Content(c) = Content(b) \o kept /\ Clean(c)
  <2>1. Len(kept) <= b.size - b.len
    BY <1>1, <1>2, <1>3, <1>7, <1>9
  <2> QED BY <1>7, <1>9, <2>1, PushState, PushAppends
<1> HIDE DEF c
<1>11. Content(c) = kept
  BY <1>3, <1>7, <1>10, ConcatEmptySeq
<1>12. (strong \o head) \o kept = strong \o d /\ strong \o head \in Seq(Int)
  <2>1. (strong \o head) \o kept = strong \o (head \o kept)
    BY SMTT(30), <1>3, <1>6, <1>7, Glue
  <2>2. strong \o head \in Seq(Int)
    BY <1>3, <1>6, Glue
  <2> QED BY <1>8, <2>1, <2>2
<1>13. StrongInv'
  BY <1>1, <1>4, <1>5, <1>11, <1>12 DEF StrongInv
<1> QED BY <1>1, <1>4, <1>9, <1>10, <1>13 DEF EbgInv, BuffersInv

-----------------------------------------------------------------------------
\* Both streams are in order in every reachable state.
THEOREM EbgInvariance ==
  Spec => []EbgInv
<1>1. Init => EbgInv
  BY EbgInit
<1>2. EbgInv /\ [Next]_vars => EbgInv'
  <2> SUFFICES ASSUME EbgInv, [Next]_vars PROVE EbgInv'
    OBVIOUS
  <2>1. CASE ebg_process
    BY <2>1, ProcessStep
  <2>2. CASE \E n \in RawSizes : RandRaw(n) \/ ebg_rand(n)
    BY <2>2, RawStep
  <2>3. CASE \E n \in StrongSizes : paranoid_rand(n)
    BY <2>3, StrongStart
  <2>4. CASE paranoid_rand_whole
    BY <2>4, WholeStep
  <2>5. CASE paranoid_rand_rest
    BY <2>5, RestStep
  <2>6. CASE UNCHANGED vars
    BY <2>6 DEF vars, EbgInv, BuffersInv, RawInv, StrongInv
  <2> QED BY <2>1, <2>2, <2>3, <2>4, <2>5, <2>6 DEF Next
<1> QED BY <1>1, <1>2, PTL DEF Spec

\* No byte of the generator and no byte of a strong digest is ever used twice or
\* out of order, and no strong byte is lost, however pushes and pulls wrap and
\* however requests split digests (ebg.c:98-197, 250-264).
THEOREM EveryByteAlwaysOnce ==
  Spec => []EveryByteOnce
<1>1. EbgInv => EveryByteOnce
  BY DEF EbgInv, RawInv, StrongInv, Stream, Numbers, EveryByteOnce, RawUsedOnce,
         StrongUsedOnce
<1> QED BY <1>1, EbgInvariance, PTL

\* A byte that was handed out is never left in either buffer's memory.
THEOREM NothingEverLeftBehind ==
  Spec => []NothingLeftBehind
<1>1. EbgInv => NothingLeftBehind
  BY DEF EbgInv, BuffersInv, Clean, NothingLeftBehind
<1> QED BY <1>1, EbgInvariance, PTL

-----------------------------------------------------------------------------
(***************************************************************************)
(* The window to the AP's memory.                                          *)
(***************************************************************************)
\* While pieces are cut the window is where process_ap_mem last moved it;
\* everywhere else, between the three accesses of cmd_sign too, it is at 0.
FrameShape == DOMAIN frame = DOMAIN Idle
WindowWhere == IF At("piece") THEN win = frame.cur ELSE win = 0
WindowInv == FrameShape /\ WindowWhere

\* At first the window is at 0.
LEMMA WindowInit == MInit => WindowInv
BY DEF MInit, WindowInv, FrameShape, WindowWhere, At, Idle

\* Every step keeps the invariant.
LEMMA WindowStep == WindowInv /\ [MNext]_mvars => WindowInv'
<1> SUFFICES ASSUME WindowInv, [MNext]_mvars PROVE WindowInv'
  OBVIOUS
<1> USE DEF WindowInv, FrameShape, WindowWhere, At, Idle
<1>1. CASE UNCHANGED mvars
  BY <1>1 DEF mvars
<1>2. ASSUME NEW cs \in Commands, Command(cs) PROVE WindowInv'
  BY <1>2 DEF Command, EnterAccess
<1>3. CASE ProcessEnter
  <2> DEFINE b == Base(frame.addr)
             moved == [frame EXCEPT !.pc = "piece", !.cur = b]
  <2>1. win = 0
    BY <1>3 DEF ProcessEnter
  <2>2. CASE frame' = Idle /\ win' = win
    BY <2>1, <2>2
  <2>3. CASE frame' = moved /\ win' = b
    <3>1. DOMAIN moved = DOMAIN Idle /\ moved.pc = "piece" /\ moved.cur = b
      OBVIOUS
    <3> QED BY <2>3, <3>1
  <2>4. \/ frame' = Idle /\ win' = win
        \/ frame' = moved /\ win' = b
    BY <1>3, <2>1 DEF ProcessEnter, Fail, rwtm_win_remap
  <2> QED BY <2>2, <2>3, <2>4
<1>4. CASE ProcessPiece
  BY <1>4 DEF ProcessPiece, rwtm_win_remap
<1>5. CASE ProcessLast
  BY <1>5 DEF ProcessLast, Restore, rwtm_win_remap
<1>6. CASE Returned
  BY <1>6 DEF Returned, EnterAccess, Fail
<1> QED BY <1>1, <1>2, <1>3, <1>4, <1>5, <1>6 DEF MNext

(* However a command ends, served, refused, failing half way, the window is *)
(* back where the helper and the image loader expect it (main.c:51).        *)
THEOREM WindowAlwaysRestored == MSpec => []WindowRestored
<1>1. WindowInv => WindowRestored
  BY DEF WindowInv, WindowWhere, WindowRestored, At
<1> QED BY <1>1, WindowInit, WindowStep, PTL DEF MSpec

-----------------------------------------------------------------------------
(* Where windows begin.                                                     *)

\* The constants, one by one.
LEMMA Sizes ==
  /\ Window \in Nat \ {0} /\ Word \in Nat \ {0} /\ Window < Word /\ Block \in 1..Window
  /\ Align \in Nat \ {0, 1}
  /\ \A size \in RamSizes : /\ size \in 0..Word /\ size % Align = 0
                            /\ size = Word \/ size + Block < Word
BY WindowAssumption

\* The remainder of a word is the word.
LEMMA WordIs == \A x \in 0..Word-1 : x % Word = x
<1> SUFFICES ASSUME NEW x \in 0..Word-1 PROVE x % Word = x
  OBVIOUS
<1>1. Word \in Nat \ {0}
  BY Sizes
<1>2. Splits(x, Word, 0, x)
  BY <1>1 DEF Splits
<1> QED BY <1>2, RemainderOnly

\* Where a request that fits into a window ends: in the window where it starts
\* or in the next.
LastBase(a, n) == Base((a + Lesser(n, Window) - 1) % Word)

\* Where a request is cut: the rest begins at a window and is below it in length.
LEMMA CutIs ==
  ASSUME NEW a \in Nat, NEW n \in 1..Window, a + n < Word
  PROVE  /\ Base(a) \in 0..a /\ a - Base(a) \in 0..Window-1
         /\ \/ LastBase(a, n) = Base(a) /\ a - Base(a) + n <= Window
            \/ /\ LastBase(a, n) = Base(a) + Window
               /\ LastBase(a, n) - a \in 1..n-1
               /\ LastBase(a, n) \in 0..Word-1
               /\ Base(LastBase(a, n)) = LastBase(a, n)
<1> DEFINE m == a % Window
           x == a + (n - 1)
<1>1. Window \in Nat \ {0} /\ Word \in Nat
  BY Sizes
<1>2. m \in 0..Window-1 /\ m <= a
  <2>1. m \in 0..Window-1 /\ a \div Window \in Nat /\ a = Window * (a \div Window) + m
    BY <1>1, Remainder
  <2>2. Window * (a \div Window) >= 0
    BY <1>1, <2>1
  <2> DEFINE q == Window * (a \div Window)
  <2>3. q \in Nat /\ q >= 0 /\ a = q + m /\ m \in 0..Window-1
    BY <1>1, <2>1, <2>2
  <2> HIDE DEF m, q
  <2> QED BY <2>3
<1>3. x % Window = IF m + (n - 1) < Window THEN m + (n - 1) ELSE m + (n - 1) - Window
  <2>1. n - 1 \in 0..Window
    BY <1>1
  <2> QED BY <1>1, <2>1, RemainderNext
<1> DEFINE last == x % Window
<1>4. LastBase(a, n) = x - last
  <2>1. Lesser(n, Window) = n /\ a + n - 1 = x /\ x \in 0..Word-1
    BY <1>1 DEF Lesser
  <2>2. x % Word = x
    BY <2>1, WordIs
  <2>3. LastBase(a, n) = Base(x)
    BY <2>1, <2>2 DEF LastBase
  <2> QED BY <2>3 DEF Base
<1>5. Base(a) = a - m
  BY DEF Base
<1>6. last = IF m + (n - 1) < Window THEN m + (n - 1) ELSE m + (n - 1) - Window
  BY <1>3
<1> HIDE DEF m, last
<1>7. CASE m + (n - 1) < Window
  BY <1>1, <1>2, <1>4, <1>5, <1>6, <1>7
<1>8. CASE m + (n - 1) >= Window
  <2>1. LastBase(a, n) = a - m + Window
    BY <1>1, <1>2, <1>4, <1>6, <1>8
  <2>2. a - m + Window - a \in 1..n-1 /\ a - m + Window \in 0..Word-1 /\ Window - m \in 0..Window
    BY <1>1, <1>2, <1>8
  <2>3. (a - m + Window) % Window = 0
    <3>1. (a + (Window - m)) % Window = 0
      <4>1. (a + (Window - m)) % Window = IF m + (Window - m) < Window THEN m + (Window - m)
                                          ELSE m + (Window - m) - Window
        BY <1>1, <2>2, RemainderNext DEF m
      <4> QED BY <1>1, <1>2, <4>1
    <3>2. a + (Window - m) = a - m + Window
      BY <1>1, <1>2
    <3> QED BY <3>1, <3>2
  <2>4. Base(a - m + Window) = a - m + Window
    BY <2>2, <2>3 DEF Base
  <2> QED BY <1>1, <1>2, <1>5, <2>1, <2>2, <2>4
<1> QED BY <1>1, <1>2, <1>7, <1>8

-----------------------------------------------------------------------------
(* What a command has done so far.                                          *)

AccessSet == [dir : {"in", "out"}, addr : 0..Word-1, len : 0..Word-1]
PieceSet  == [k : Nat, base : Int, off : Int, len : Int, par : Int]
FrameSet  == [pc : {"idle", "enter", "piece", "returned"}, k : Nat, addr : Int, len : Int,
              cur : Int, par : Int]

\* Of a command's calls only the first reads, and the later ones are of Blocks.
CallsInv ==
  /\ accesses \in Seq(AccessSet)
  /\ \A d \in 1..Len(accesses) : d > 1 => accesses[d].len = Block /\ accesses[d].dir = "out"

ApTypeInv ==
  /\ ram \in RamSizes /\ win \in Int /\ CallsInv
  /\ frame \in FrameSet /\ pieces \in Seq(PieceSet)
  /\ ~At("idle") => frame.k \in 1..Len(accesses)

\* Nothing is done before all addresses are checked.
CheckedInv ==
  ~At("idle") \/ pieces # <<>> =>
    \A d \in 1..Len(accesses) : check_ap_addr(accesses[d].addr, accesses[d].len)

\* The calls are made in order, none ahead of its time.
OrderInv ==
  /\ \A i \in 1..Len(pieces) : pieces[i].k \in 1..Len(accesses)
  /\ ~At("idle") => \A i \in 1..Len(pieces) : pieces[i].k <= frame.k
  /\ At("enter") => \A i \in 1..Len(pieces) : pieces[i].k < frame.k
  /\ CallsInOrder

\* What fails has not written.
UnwrittenInv ==
  At("idle") /\ result # "SUCCESS" /\ ram # Word =>
    \A i \in 1..Len(pieces) : accesses[pieces[i].k].dir # "out"

\* Each piece of a regular request joins the one before or starts the request.
Joined(i) ==
  LET q == pieces[i]
      c == accesses[q.k]
  IN Regular(c) =>
       /\ c.addr + c.len < Word
       /\ PieceFits(q) /\ PieceAddr(q) + q.len <= c.addr + c.len
       /\ IF i > 1 /\ pieces[i - 1].k = q.k THEN Follows(q, pieces[i - 1]) ELSE Starts(q, c)

\* A request whose pieces end where it does.
Done(d) ==
  Regular(accesses[d]) =>
    Of(d) # {} /\ \A i \in Of(d) : i + 1 \in Of(d) \/ Ends(pieces[i], accesses[d])

\* process_ap_mem between two pieces of a regular request.
CutInv ==
  /\ At("enter") =>
       /\ frame.addr = accesses[frame.k].addr /\ frame.len = accesses[frame.k].len
       /\ frame.par = 0
  /\ At("piece") /\ Regular(accesses[frame.k]) =>
       LET c == accesses[frame.k]
           n == Len(pieces)
       IN /\ frame.addr + frame.len = c.addr + c.len /\ c.addr + c.len < Word
          /\ frame.addr \in Nat /\ frame.len \in 1..Window /\ frame.cur = Base(frame.addr)
          /\ IF n > 0 /\ pieces[n].k = frame.k
               THEN /\ PieceAddr(pieces[n]) + pieces[n].len = frame.addr
                    /\ pieces[n].par + pieces[n].len = frame.par
               ELSE frame.addr = c.addr /\ frame.par = 0

TileInv ==
  /\ \A i \in 1..Len(pieces) : Joined(i)
  /\ At("enter") \/ At("piece") => \A d \in 1..frame.k-1 : Done(d)
  /\ At("returned") => \A d \in 1..frame.k : Done(d)
  /\ At("idle") /\ result = "SUCCESS" => \A d \in 1..Len(accesses) : Done(d)

ProgressInv == /\ ApTypeInv /\ CheckedInv /\ OrderInv /\ UnwrittenInv
               /\ CutInv /\ TileInv

ApInv == WindowInv /\ ProgressInv

\* What the commands ask for.
LEMMA CommandsAre ==
  ASSUME NEW cs \in Commands
  PROVE  /\ cs \in Seq(AccessSet) /\ Len(cs) \in 1..3
         /\ \A d \in 1..Len(cs) : d > 1 => cs[d].len = Block /\ cs[d].dir = "out"
<1>1. Block \in 0..Word-1
  BY Sizes
<1>2. /\ RandomAddrs \subseteq 0..Word-1 /\ RandomLens \subseteq 0..Word-1
      /\ SignAddrs \subseteq 0..Word-1
  BY ArgsAssumption
<1>3. CASE \E a \in RandomAddrs, n \in RandomLens : cs = cmd_get_random(a, n)
  <2>1. PICK a \in RandomAddrs, n \in RandomLens : cs = <<Access("out", a, n)>>
    BY <1>3 DEF cmd_get_random
  <2>2. Access("out", a, n) \in AccessSet
    BY <1>2 DEF Access, AccessSet
  <2> QED BY <2>1, <2>2
<1>4. CASE \E src \in SignAddrs, to1 \in SignAddrs, to2 \in SignAddrs : cs = cmd_sign(src, to1, to2)
  <2>1. PICK src \in SignAddrs, to1 \in SignAddrs, to2 \in SignAddrs :
          cs = <<Access("in", src, Block), Access("out", to1, Block), Access("out", to2, Block)>>
    BY <1>4 DEF cmd_sign
  <2>2. /\ Access("in", src, Block) \in AccessSet
        /\ Access("out", to1, Block) \in AccessSet /\ Access("out", to2, Block) \in AccessSet
    BY <1>1, <1>2 DEF Access, AccessSet
  <2>3. cs \in Seq(AccessSet) /\ Len(cs) = 3
    BY <2>1, <2>2
  <2>4. ASSUME NEW d \in 1..3, d > 1 PROVE cs[d].len = Block /\ cs[d].dir = "out"
    <3>1. d = 2 \/ d = 3
      BY <2>4
    <3> QED BY <2>1, <3>1 DEF Access
  <2> QED BY <2>3, <2>4
<1> QED BY <1>3, <1>4 DEF Commands

\* The call that process_ap_mem works on.
LEMMA CallIs ==
  ASSUME ApTypeInv, NEW d \in 1..Len(accesses)
  PROVE  accesses[d].addr \in 0..Word-1 /\ accesses[d].len \in 0..Word-1
<1>1. accesses[d] \in AccessSet
  BY DEF ApTypeInv, CallsInv
<1> QED BY <1>1 DEF AccessSet

\* The piece that is about to be handed to the callback.
LEMMA PieceIs ==
  ASSUME ApInv, At("piece"), Regular(accesses[frame.k])
  PROVE  LET c == accesses[frame.k] IN
         /\ PieceAddr(Piece) = frame.addr /\ PieceFits(Piece)
         /\ Piece.len \in Nat /\ frame.addr + Piece.len <= c.addr + c.len
         /\ frame.cur = NewBase => Piece.len = frame.len
         /\ frame.cur # NewBase =>
              /\ Piece.len = NewBase - frame.addr /\ Piece.len \in 1..frame.len-1
              /\ NewBase \in Nat /\ Base(NewBase) = NewBase
              /\ (frame.len - CurLen) % Word = frame.len - Piece.len
<1> DEFINE c == accesses[frame.k]
           nb == NewBase
<1>1. /\ frame.addr + frame.len = c.addr + c.len /\ c.addr + c.len < Word
      /\ frame.addr \in Nat /\ frame.len \in 1..Window /\ frame.cur = Base(frame.addr)
  BY DEF ApInv, ProgressInv, CutInv
<1>2. win = frame.cur
  BY DEF ApInv, ProgressInv, WindowInv, WindowWhere
<1>3. nb = LastBase(frame.addr, frame.len)
  BY DEF NewBase, LastBase
<1>4. /\ frame.cur \in 0..frame.addr /\ frame.addr - frame.cur \in 0..Window-1
      /\ \/ nb = frame.cur /\ frame.addr - frame.cur + frame.len <= Window
         \/ /\ nb = frame.cur + Window
            /\ nb - frame.addr \in 1..frame.len-1
            /\ nb \in 0..Word-1
            /\ Base(nb) = nb
  <2>1. frame.addr + frame.len < Word
    BY <1>1
  <2> QED BY <1>1, <1>3, <2>1, CutIs
<1> HIDE DEF c, nb
<1>5. Window \in Nat \ {0} /\ Word \in Nat \ {0} /\ Window < Word
  BY Sizes
<1>6. /\ Piece.base = win /\ Piece.off = (frame.addr - frame.cur) % Word /\ Piece.len = CurLen
      /\ CurLen = IF frame.cur = nb THEN frame.len ELSE (nb - frame.addr) % Word
  BY DEF Piece, CurLen, nb
<1>7. Piece.off = frame.addr - frame.cur
  <2>1. frame.addr - frame.cur \in 0..Word-1
    BY <1>4, <1>5
  <2> QED BY <1>6, <2>1, WordIs
<1>8. CASE nb = frame.cur
  <2>1. Piece.len = frame.len
    BY <1>6, <1>8
  <2> QED BY <1>1, <1>2, <1>4, <1>5, <1>6, <1>7, <1>8, <2>1 DEF PieceAddr, PieceFits, c, nb
<1>9. CASE nb # frame.cur
  <2>1. /\ nb = frame.cur + Window /\ nb - frame.addr \in 1..frame.len-1 /\ nb \in 0..Word-1
        /\ Base(nb) = nb
    BY <1>4, <1>9
  <2>2. Piece.len = nb - frame.addr
    <3>1. nb - frame.addr \in 0..Word-1
      BY <1>1, <1>5, <2>1
    <3> QED BY <1>6, <1>9, <3>1, WordIs
  <2>3. (frame.len - CurLen) % Word = frame.len - Piece.len
    <3>1. frame.len - Piece.len \in 0..Word-1
      BY <1>1, <1>5, <2>1, <2>2
    <3> QED BY <1>6, <3>1, WordIs
  <2>4. PieceAddr(Piece) = frame.addr
    BY <1>1, <1>2, <1>4, <1>6, <1>7 DEF PieceAddr
  <2>5. PieceFits(Piece)
    BY <1>1, <1>4, <1>5, <1>7, <2>1, <2>2 DEF PieceFits
  <2>6. /\ Piece.len \in 1..frame.len-1 /\ Piece.len \in Nat
        /\ frame.addr + Piece.len <= c.addr + c.len
    BY <1>1, <1>5, <2>1, <2>2
  <2> QED BY <1>9, <2>1, <2>2, <2>3, <2>4, <2>5, <2>6 DEF nb, c
<1> QED BY <1>8, <1>9

\* The piece is a record of integers, whatever was asked for.
LEMMA PieceTyped ==
  ASSUME ApTypeInv, ~At("idle") PROVE Piece \in PieceSet /\ CurLen \in Int /\ NewBase \in Int
<1>1. /\ win \in Int /\ frame.k \in Nat /\ frame.addr \in Int /\ frame.len \in Int
      /\ frame.cur \in Int /\ frame.par \in Int
  BY DEF ApTypeInv, FrameSet
<1>2. Window \in Nat \ {0} /\ Word \in Nat \ {0}
  BY Sizes
<1>3. Lesser(frame.len, Window) \in Int
  BY <1>1, <1>2 DEF Lesser
<1>4. (frame.addr + Lesser(frame.len, Window) - 1) % Word \in Int
  BY <1>1, <1>2, <1>3
<1>5. NewBase \in Int
  BY <1>2, <1>4 DEF NewBase, Base
<1>6. CurLen \in Int
  BY <1>1, <1>2, <1>5 DEF CurLen
<1>7. (frame.addr - frame.cur) % Word \in Int
  BY <1>1, <1>2
<1> QED BY <1>1, <1>5, <1>6, <1>7 DEF Piece, PieceSet

-----------------------------------------------------------------------------
(* The steps.                                                               *)

\* A piece handed to the callback comes after the others, and belongs to the
\* call that is being served.
LEMMA PieceAppended ==
  ASSUME ApInv, At("piece"), pieces' = Append(pieces, Piece), accesses' = accesses
  PROVE  LET n == Len(pieces) IN
         /\ n \in Nat /\ pieces' \in Seq(PieceSet) /\ Len(pieces') = n + 1
         /\ pieces'[n + 1] = Piece /\ \A i \in 1..n : pieces'[i] = pieces[i]
         /\ \A d : Of(d)' = IF d = frame.k THEN Of(d) \cup {n + 1} ELSE Of(d)
         /\ \A d : Of(d) \subseteq 1..n
         /\ \A i \in 1..n + 1 : pieces'[i].k \in 1..Len(accesses) /\ pieces'[i].k <= frame.k
         /\ CallsInOrder'
<1> DEFINE n == Len(pieces)
<1>1. pieces \in Seq(PieceSet) /\ frame.k \in 1..Len(accesses) /\ frame.k \in Nat
  BY DEF ApInv, ProgressInv, ApTypeInv, At, FrameSet
<1>2. Piece \in PieceSet /\ Piece.k = frame.k
  BY PieceTyped DEF ApInv, ProgressInv, At, Piece
<1>3. n \in Nat /\ \A i \in 1..n : pieces[i] \in PieceSet /\ pieces[i].k \in Nat
  <2>1. n \in Nat /\ \A i \in 1..n : pieces[i] \in PieceSet
    BY <1>1
  <2> QED BY <2>1 DEF PieceSet
<1>4. /\ pieces' \in Seq(PieceSet) /\ Len(pieces') = n + 1
      /\ pieces'[n + 1] = Piece /\ \A i \in 1..n : pieces'[i] = pieces[i]
  BY <1>1, <1>2
<1>5. \A d : Of(d) \subseteq 1..n
  BY DEF Of
<1>6. ASSUME NEW d PROVE Of(d)' = IF d = frame.k THEN Of(d) \cup {n + 1} ELSE Of(d)
  <2>1. Of(d)' = {i \in 1..n+1 : pieces'[i].k = d}
    BY <1>4 DEF Of
  <2>2. Of(d) = {i \in 1..n : pieces[i].k = d}
    BY DEF Of
  <2>3. \A i : i \in 1..n+1 <=> i \in 1..n \/ i = n + 1
    BY <1>3
  <2> HIDE DEF n
  <2>4. \A i : i \in Of(d)' <=> i \in Of(d) \/ (i = n + 1 /\ d = frame.k)
    <3>1. n + 1 \notin 1..n
      BY <1>3
    <3> QED BY <1>2, <1>4, <2>1, <2>2, <2>3, <3>1 DEF n
  <2> QED BY <2>4
<1>7. \A i \in 1..n : pieces[i].k \in 1..Len(accesses) /\ pieces[i].k <= frame.k
  BY DEF ApInv, ProgressInv, OrderInv, At
<1>8. ASSUME NEW i \in 1..n+1
      PROVE  pieces'[i].k \in 1..Len(accesses) /\ pieces'[i].k <= frame.k
  <2>1. CASE i \in 1..n
    BY <1>4, <1>7, <2>1
  <2>2. CASE i = n + 1
    BY <1>1, <1>2, <1>4, <2>2
  <2> QED BY <1>3, <2>1, <2>2
<1>9. CallsInOrder'
  <2>1. \A i \in 1..n-1 : pieces[i].k <= pieces[i + 1].k
    BY DEF ApInv, ProgressInv, OrderInv, CallsInOrder
  <2>2. ASSUME NEW i \in 1..n PROVE pieces'[i].k <= pieces'[i + 1].k
    <3>1. CASE i < n
      <4>1. i \in 1..n-1 /\ i + 1 \in 1..n
        BY <1>3, <3>1
      <4> QED BY <1>4, <2>1, <4>1
    <3>2. CASE i = n
      BY <1>2, <1>4, <1>7, <3>2
    <3> QED BY <1>3, <3>1, <3>2
  <2>3. Len(pieces') - 1 = n
    BY <1>3, <1>4
  <2> QED BY <2>2, <2>3 DEF CallsInOrder
<1> QED BY <1>3, <1>4, <1>5, <1>6, <1>8, <1>9

\* It joins what was handed over before, and what was done stays done.
LEMMA PieceJoins ==
  ASSUME ApInv, At("piece"), pieces' = Append(pieces, Piece), accesses' = accesses
  PROVE  /\ \A i \in 1..Len(pieces') : Joined(i)'
         /\ \A d \in 1..frame.k-1 : Done(d)'
<1> DEFINE n == Len(pieces)
<1>1. /\ n \in Nat /\ Len(pieces') = n + 1
      /\ pieces'[n + 1] = Piece /\ \A i \in 1..n : pieces'[i] = pieces[i]
      /\ \A d : Of(d)' = IF d = frame.k THEN Of(d) \cup {n + 1} ELSE Of(d)
      /\ \A d : Of(d) \subseteq 1..n
  BY PieceAppended
<1> HIDE DEF n
<1>2. n = Len(pieces)
  BY DEF n
<1>3. ASSUME NEW i \in 1..n PROVE Joined(i)'
  <2>1. Joined(i)
    BY <1>2 DEF ApInv, ProgressInv, TileInv
  <2>2. pieces'[i] = pieces[i] /\ (i > 1 => pieces'[i - 1] = pieces[i - 1])
    <3>1. i > 1 => i - 1 \in 1..n
      BY <1>1
    <3> QED BY <1>1, <3>1
  <2> QED BY <2>1, <2>2 DEF Joined, Regular, PieceFits, PieceAddr, Follows, Starts
<1>4. ASSUME NEW m, m = n + 1 PROVE Joined(m)'
  <2> DEFINE c == accesses[frame.k]
  <2>1. pieces'[m] = Piece /\ Piece.k = frame.k /\ Piece.par = frame.par
    BY <1>1, <1>4 DEF Piece
  <2>2. m - 1 = n /\ (m > 1 <=> n > 0) /\ (n > 0 => pieces'[n] = pieces[n])
    BY <1>1, <1>4
  <2> SUFFICES ASSUME Regular(c)
               PROVE  /\ c.addr + c.len < Word
                      /\ PieceFits(Piece) /\ PieceAddr(Piece) + Piece.len <= c.addr + c.len
                      /\ IF n > 0 /\ pieces[n].k = frame.k THEN Follows(Piece, pieces[n])
                         ELSE Starts(Piece, c)
    <3>1. pieces'[m].k = frame.k /\ accesses'[pieces'[m].k] = c
      BY <2>1
    <3> HIDE DEF c
    <3> QED BY <2>1, <2>2, <3>1 DEF Joined, Regular, PieceFits, PieceAddr, Follows, Starts
  <2>3. /\ PieceAddr(Piece) = frame.addr /\ PieceFits(Piece)
        /\ frame.addr + Piece.len <= c.addr + c.len
    BY PieceIs
  <2>4. /\ c.addr + c.len < Word
        /\ IF n > 0 /\ pieces[n].k = frame.k
             THEN /\ PieceAddr(pieces[n]) + pieces[n].len = frame.addr
                  /\ pieces[n].par + pieces[n].len = frame.par
             ELSE frame.addr = c.addr /\ frame.par = 0
    BY <1>2 DEF ApInv, ProgressInv, CutInv
  <2>5. CASE n > 0 /\ pieces[n].k = frame.k
    <3>1. Follows(Piece, pieces[n])
      BY <2>1, <2>3, <2>4, <2>5 DEF Follows
    <3> QED BY <2>3, <2>4, <2>5, <3>1
  <2>6. CASE ~(n > 0 /\ pieces[n].k = frame.k)
    <3>1. Starts(Piece, c)
      BY <2>1, <2>3, <2>4, <2>6 DEF Starts
    <3> QED BY <2>3, <2>4, <2>6, <3>1
  <2> QED BY <2>5, <2>6
<1>5. ASSUME NEW i \in 1..Len(pieces') PROVE Joined(i)'
  <2>1. i \in 1..n \/ i = n + 1
    BY <1>1
  <2> QED BY <1>3, <1>4, <2>1
<1>6. ASSUME NEW d \in 1..frame.k-1 PROVE Done(d)'
  <2>1. Done(d)
    BY DEF ApInv, ProgressInv, TileInv
  <2>2. d # frame.k
    BY DEF ApInv, ProgressInv, ApTypeInv, FrameSet
  <2>3. Of(d)' = Of(d) /\ \A i \in Of(d) : pieces'[i] = pieces[i]
    BY <1>1, <2>2
  <2> QED BY <2>1, <2>3 DEF Done, Regular, Ends, PieceAddr
<1> QED BY <1>5, <1>6

\* Initially no command runs and nothing was asked for.
LEMMA ApInit == MInit => ApInv
<1> SUFFICES ASSUME MInit PROVE ApInv
  OBVIOUS
<1>1. /\ ram \in RamSizes /\ win = 0 /\ accesses = <<>> /\ frame = Idle /\ result = "none"
      /\ pieces = <<>>
  BY DEF MInit
<1>2. Len(accesses) = 0 /\ Len(pieces) = 0 /\ frame.pc = "idle" /\ Idle \in FrameSet
  BY <1>1 DEF Idle, FrameSet
<1>3. ApTypeInv
  BY <1>1, <1>2 DEF ApTypeInv, CallsInv, At
<1>4. CheckedInv /\ OrderInv /\ UnwrittenInv /\ CutInv /\ TileInv
  BY <1>1, <1>2 DEF CheckedInv, OrderInv, CallsInOrder, UnwrittenInv, CutInv, TileInv, At
<1> QED BY <1>3, <1>4, WindowInit DEF ApInv, ProgressInv

\* A command is refused as a whole, or begins with its first call.
LEMMA CommandStep ==
  ASSUME ApInv, NEW cs \in Commands, Command(cs) PROVE ProgressInv'
<1>1. /\ accesses' = cs /\ pieces' = <<>> /\ ram' = ram /\ win' = win
      /\ \/ /\ \A d \in 1..Len(cs) : check_ap_addr(cs[d].addr, cs[d].len)
            /\ frame' = EnterAccess(cs, 1) /\ result' = "none"
         \/ frame' = Idle /\ result' = "EINVAL"
  BY DEF Command, Checked
<1>2. /\ cs \in Seq(AccessSet) /\ Len(cs) \in 1..3
      /\ \A d \in 1..Len(cs) : d > 1 => cs[d].len = Block /\ cs[d].dir = "out"
  BY CommandsAre
<1>3. Len(pieces') = 0 /\ pieces' \in Seq(PieceSet) /\ 1 \in 1..Len(cs)
  <2>1. pieces' = <<>>
    BY <1>1
  <2>2. 1 \in 1..Len(cs)
    <3>1. Len(cs) \in 1..3
      BY <1>2
    <3> QED BY <3>1
  <2>3. Len(pieces') = 0 /\ pieces' \in Seq(PieceSet)
    BY <2>1, EmptySeq
  <2> QED BY <2>2, <2>3
<1>4. cs[1].addr \in Int /\ cs[1].len \in Int
  <2>1. cs[1] \in AccessSet
    BY <1>2, <1>3
  <2> QED BY <2>1, Sizes DEF AccessSet
<1>5. /\ frame' \in FrameSet
      /\ \/ frame'.pc = "idle" /\ result' = "EINVAL"
         \/ /\ frame'.pc = "enter" /\ frame'.k = 1 /\ frame'.par = 0
            /\ frame'.addr = cs[1].addr /\ frame'.len = cs[1].len
            /\ \A d \in 1..Len(cs) : check_ap_addr(cs[d].addr, cs[d].len)
  BY <1>1, <1>4 DEF EnterAccess, Idle, FrameSet
<1>6. ApTypeInv'
  BY <1>1, <1>2, <1>3, <1>5 DEF ApInv, ProgressInv, ApTypeInv, CallsInv, At
<1>7. CheckedInv'
  BY <1>1, <1>5 DEF CheckedInv, At, check_ap_addr
<1>8. OrderInv' /\ UnwrittenInv'
  BY <1>3, <1>5 DEF OrderInv, CallsInOrder, UnwrittenInv, At
<1>9. CutInv'
  BY <1>1, <1>5 DEF CutInv, At
<1>10. TileInv'
  BY <1>3, <1>5 DEF TileInv, At
<1> QED BY <1>6, <1>7, <1>8, <1>9, <1>10 DEF ProgressInv

\* A later call of a command whose addresses are checked reaches the end of
\* no address space: process_ap_mem cannot refuse it.
LEMMA LaterServed ==
  ASSUME ApInv, At("enter"), ram # Word, frame.k > 1
  PROVE  (frame.addr + frame.len) % Word >= frame.addr
<1>1. frame.k \in 1..Len(accesses) /\ ram \in RamSizes
  BY DEF ApInv, ProgressInv, ApTypeInv, At
<1>2. frame.addr = accesses[frame.k].addr /\ frame.len = Block
  BY <1>1 DEF ApInv, ProgressInv, CutInv, ApTypeInv, CallsInv
<1>3. frame.addr <= ram
  BY <1>1, <1>2 DEF ApInv, ProgressInv, CheckedInv, check_ap_addr, At
<1>4. frame.addr \in Nat
  BY <1>1, <1>2, CallIs, Sizes DEF ApInv, ProgressInv
<1>5. ram \in Nat /\ ram + Block < Word /\ Block \in Nat /\ Word \in Nat
  BY <1>1, Sizes
<1>6. frame.addr + Block \in 0..Word-1
  BY <1>3, <1>4, <1>5
<1>7. (frame.addr + frame.len) % Word = frame.addr + Block
  BY <1>2, <1>6, WordIs
<1> QED BY <1>4, <1>5, <1>7

\* process_ap_mem refuses a call, or moves the window to where it begins.
LEMMA EnterStep ==
  ASSUME ApInv, ProcessEnter PROVE ProgressInv'
<1> DEFINE b     == Base(frame.addr)
           moved == [frame EXCEPT !.pc = "piece", !.cur = b]
           wraps == (frame.addr + frame.len) % Word < frame.addr
           c     == accesses[frame.k]
           n     == Len(pieces)
<1>1. /\ frame.pc = "enter" /\ UNCHANGED <<ram, accesses, pieces>>
      /\ \/ wraps /\ frame' = Idle /\ result' = "EIO" /\ win' = win
         \/ ~wraps /\ frame' = moved /\ result' = result /\ (win' = b \/ win' = win)
  BY DEF ProcessEnter, Fail, rwtm_win_remap, At
<1>2. /\ frame \in FrameSet /\ frame.k \in 1..Len(accesses) /\ win \in Int
      /\ c.addr \in 0..Word-1 /\ c.len \in 0..Word-1
      /\ frame.addr = c.addr /\ frame.len = c.len /\ frame.par = 0
  <2>1. frame.k \in 1..Len(accesses)
    BY <1>1 DEF ApInv, ProgressInv, ApTypeInv, At
  <2> QED BY <1>1, <2>1, CallIs DEF ApInv, ProgressInv, ApTypeInv, CutInv, At
<1>3. /\ \A i \in 1..n : pieces[i].k \in 1..Len(accesses) /\ pieces[i].k < frame.k
      /\ n \in Nat /\ \A i \in 1..n : pieces[i].k <= frame.k
  BY <1>1 DEF ApInv, ProgressInv, OrderInv, At, ApTypeInv
<1>4. frame.k \in Nat /\ Word \in Nat \ {0} /\ Window \in Nat \ {0} /\ Window < Word
  BY <1>2, Sizes DEF FrameSet
<1>5. CASE frame' = Idle /\ result' = "EIO" /\ win' = win /\ wraps
  <2>1. frame'.pc = "idle" /\ Idle \in FrameSet
    BY <1>5 DEF Idle, FrameSet
  <2>2. ApTypeInv' /\ CheckedInv' /\ CutInv' /\ TileInv'
    BY <1>1, <1>5, <2>1 DEF ApInv, ProgressInv, ApTypeInv, CallsInv, CheckedInv, CutInv, TileInv,
       At, check_ap_addr, Joined, Regular, PieceFits, PieceAddr, Follows, Starts
  <2>3. OrderInv'
    BY <1>1, <2>1 DEF ApInv, ProgressInv, OrderInv, CallsInOrder, At
  <2>4. UnwrittenInv'
    <3>1. ASSUME ram # Word PROVE n = 0
      <4>1. ~(frame.k > 1)
        <5>1. frame.addr \in Int /\ (frame.addr + frame.len) % Word \in Int
          BY <1>2, <1>4
        <5> QED BY <1>1, <1>5, <3>1, <5>1, LaterServed DEF At
      <4>2. n > 0 => FALSE
        <5>1. n > 0 => 1 \in 1..n
          BY <1>3
        <5> QED BY <1>3, <1>4, <4>1, <5>1
      <4> QED BY <1>3, <4>2
    <3> QED BY <1>1, <3>1 DEF UnwrittenInv
  <2> QED BY <2>2, <2>3, <2>4 DEF ProgressInv
<1>6. CASE frame' = moved /\ result' = result /\ ~wraps /\ (win' = b \/ win' = win)
  <2>1. /\ frame'.pc = "piece" /\ frame'.k = frame.k /\ frame'.addr = frame.addr
        /\ frame'.len = frame.len /\ frame'.par = frame.par /\ frame'.cur = b
    BY <1>2, <1>6 DEF FrameSet
  <2>2. b \in Int
    BY <1>2, <1>4 DEF Base
  <2>3. frame' \in FrameSet
    BY <1>2, <1>6, <2>2 DEF FrameSet
  <2>4. ApTypeInv' /\ CheckedInv'
    BY <1>1, <1>2, <1>6, <2>1, <2>2, <2>3 DEF ApInv, ProgressInv, ApTypeInv, CallsInv,
       CheckedInv, At, check_ap_addr
  <2>5. OrderInv' /\ UnwrittenInv'
    BY <1>1, <1>3, <2>1 DEF ApInv, ProgressInv, OrderInv, CallsInOrder, UnwrittenInv, At
  <2>6. CutInv'
    <3> SUFFICES ASSUME Regular(c)
                 PROVE  /\ frame.addr + frame.len = c.addr + c.len /\ c.addr + c.len < Word
                        /\ frame.addr \in Nat /\ frame.len \in 1..Window
                        /\ ~(n > 0 /\ pieces[n].k = frame.k)
      BY <1>1, <1>2, <2>1 DEF CutInv, At, Regular
    <3>1. frame.len \in 1..Window /\ frame.addr \in Nat
      BY <1>2 DEF Regular
    <3>2. frame.addr + frame.len < Word
      <4> SUFFICES ASSUME frame.addr + frame.len >= Word PROVE FALSE
        BY <1>4, <3>1
      <4>0. \A x, y, w \in Nat : x < w /\ y < w /\ x + y >= w =>
                                   x + y - w \in 0..w-1 /\ x + y - w < x
        OBVIOUS
      <4>1. /\ frame.addr + frame.len - Word \in 0..Word-1
            /\ frame.addr + frame.len - Word < frame.addr
        <5>1. frame.addr \in Nat /\ frame.len \in Nat /\ frame.addr < Word /\ frame.len < Word
          BY <1>2, <1>4
        <5> QED BY <1>4, <4>0, <5>1
      <4>2. Splits(frame.addr + frame.len, Word, 1, frame.addr + frame.len - Word)
        BY <1>4, <3>1, <4>1 DEF Splits
      <4>3. (frame.addr + frame.len) % Word = frame.addr + frame.len - Word
        BY <4>2, RemainderOnly
      <4> QED BY <1>6, <4>1, <4>3
    <3>3. ~(n > 0 /\ pieces[n].k = frame.k)
      BY <1>3, <1>4
    <3> QED BY <1>2, <3>1, <3>2, <3>3
  <2>7. TileInv'
    <3>1. /\ \A i \in 1..n : Joined(i)
          /\ \A d \in 1..frame.k-1 : Done(d)
      BY <1>1 DEF ApInv, ProgressInv, TileInv, At
    <3>2. \A i \in 1..n : Joined(i)'
      BY <1>1, <3>1 DEF Joined, Regular, PieceFits, PieceAddr, Follows, Starts
    <3>3. \A d \in 1..frame.k-1 : Done(d)'
      BY <1>1, <3>1 DEF Done, Of, Regular, Ends, PieceAddr
    <3> QED BY <1>1, <2>1, <3>2, <3>3 DEF TileInv, At
  <2> QED BY <2>4, <2>5, <2>6, <2>7 DEF ProgressInv
<1> QED BY <1>1, <1>5, <1>6

\* A piece that is not the last: the next one begins where it ends.
LEMMA PieceStep ==
  ASSUME ApInv, ProcessPiece PROVE ProgressInv'
<1> DEFINE c == accesses[frame.k]
           n == Len(pieces)
<1>1. /\ frame.pc = "piece" /\ frame.cur # NewBase /\ pieces' = Append(pieces, Piece)
      /\ frame' = [frame EXCEPT !.addr = NewBase, !.cur = NewBase, !.par = NextPar,
                                !.len = (@ - CurLen) % Word]
      /\ win' = NewBase /\ UNCHANGED <<ram, accesses, result>>
  BY DEF ProcessPiece, rwtm_win_remap, At
<1>2. frame \in FrameSet /\ frame.k \in 1..Len(accesses) /\ CurLen \in Int /\ NewBase \in Int
  BY <1>1, PieceTyped DEF ApInv, ProgressInv, ApTypeInv, At
<1>3. /\ frame'.pc = "piece" /\ frame'.k = frame.k /\ frame'.addr = NewBase
      /\ frame'.cur = NewBase /\ frame'.par = frame.par + CurLen
      /\ frame'.len = (frame.len - CurLen) % Word
  BY <1>1, <1>2 DEF FrameSet, NextPar
<1>4. frame' \in FrameSet
  <2>1. frame.par + CurLen \in Int /\ (frame.len - CurLen) % Word \in Int
    BY <1>2, Sizes DEF FrameSet
  <2> QED BY <1>1, <1>2, <2>1 DEF FrameSet, NextPar
<1>5. /\ n \in Nat /\ pieces' \in Seq(PieceSet) /\ Len(pieces') = n + 1
      /\ pieces'[n + 1] = Piece /\ \A i \in 1..n : pieces'[i] = pieces[i]
      /\ \A i \in 1..n + 1 : pieces'[i].k \in 1..Len(accesses) /\ pieces'[i].k <= frame.k
      /\ CallsInOrder'
  BY <1>1, PieceAppended DEF At
<1>6. /\ \A i \in 1..Len(pieces') : Joined(i)'
      /\ \A d \in 1..frame.k-1 : Done(d)'
  BY <1>1, PieceJoins DEF At
<1>7. ApTypeInv'
  BY <1>1, <1>2, <1>3, <1>4, <1>5 DEF ApInv, ProgressInv, ApTypeInv, CallsInv, At
<1>8. CheckedInv'
  BY <1>1 DEF ApInv, ProgressInv, CheckedInv, At, check_ap_addr
<1>9. OrderInv' /\ UnwrittenInv'
  BY <1>1, <1>3, <1>5 DEF OrderInv, UnwrittenInv, At
<1>10. CutInv'
  <2> SUFFICES ASSUME Regular(c)
               PROVE  /\ frame'.addr + frame'.len = c.addr + c.len /\ c.addr + c.len < Word
                      /\ frame'.addr \in Nat /\ frame'.len \in 1..Window
                      /\ frame'.cur = Base(frame'.addr)
                      /\ n + 1 > 0 /\ pieces'[n + 1].k = frame.k
                      /\ PieceAddr(pieces'[n + 1]) + pieces'[n + 1].len = frame'.addr
                      /\ pieces'[n + 1].par + pieces'[n + 1].len = frame'.par
    BY <1>1, <1>3, <1>5 DEF CutInv, At, Regular, PieceAddr
  <2>1. /\ frame.addr + frame.len = c.addr + c.len /\ c.addr + c.len < Word
        /\ frame.addr \in Nat /\ frame.len \in 1..Window
    BY <1>1 DEF ApInv, ProgressInv, CutInv, At
  <2>2. /\ PieceAddr(Piece) = frame.addr /\ Piece.len = NewBase - frame.addr
        /\ Piece.len \in 1..frame.len-1 /\ NewBase \in Nat /\ Base(NewBase) = NewBase
        /\ (frame.len - CurLen) % Word = frame.len - Piece.len
    BY <1>1, PieceIs DEF At
  <2>3. Piece.len = CurLen /\ Piece.par = frame.par /\ Piece.k = frame.k
    BY DEF Piece
  <2>4. frame'.len = frame.len - Piece.len /\ frame'.addr = frame.addr + Piece.len
    BY <1>2, <1>3, <2>1, <2>2
  <2>5. frame'.len \in 1..Window
    BY <2>1, <2>2, <2>4, Sizes
  <2>6. frame'.addr + frame'.len = c.addr + c.len
    BY <2>1, <2>2, <2>4
  <2> QED BY <1>3, <1>5, <2>1, <2>2, <2>3, <2>4, <2>5, <2>6, SMTT(30)
<1>11. TileInv'
  BY <1>3, <1>6 DEF TileInv, At
<1> QED BY <1>7, <1>8, <1>9, <1>10, <1>11 DEF ProgressInv

\* The last piece ends where the request does.
LEMMA LastStep ==
  ASSUME ApInv, ProcessLast PROVE ProgressInv'
<1> DEFINE c == accesses[frame.k]
           n == Len(pieces)
<1>1. /\ frame.pc = "piece" /\ frame.cur = NewBase /\ pieces' = Append(pieces, Piece)
      /\ frame' = [frame EXCEPT !.pc = "returned"] /\ win' \in {0, win}
      /\ UNCHANGED <<ram, accesses, result>>
  BY DEF ProcessLast, Restore, rwtm_win_remap, At
<1>2. frame \in FrameSet /\ frame.k \in 1..Len(accesses) /\ win \in Int
  BY <1>1 DEF ApInv, ProgressInv, ApTypeInv, At
<1>3. frame'.pc = "returned" /\ frame'.k = frame.k /\ frame' \in FrameSet
  BY <1>1, <1>2 DEF FrameSet
<1>4. /\ n \in Nat /\ pieces' \in Seq(PieceSet) /\ Len(pieces') = n + 1
      /\ pieces'[n + 1] = Piece /\ \A i \in 1..n : pieces'[i] = pieces[i]
      /\ \A d : Of(d)' = IF d = frame.k THEN Of(d) \cup {n + 1} ELSE Of(d)
      /\ \A d : Of(d) \subseteq 1..n
      /\ \A i \in 1..n + 1 : pieces'[i].k \in 1..Len(accesses) /\ pieces'[i].k <= frame.k
      /\ CallsInOrder'
  BY <1>1, PieceAppended DEF At
<1>5. /\ \A i \in 1..Len(pieces') : Joined(i)'
      /\ \A d \in 1..frame.k-1 : Done(d)'
  BY <1>1, PieceJoins DEF At
<1>6. ApTypeInv'
  BY <1>1, <1>2, <1>3, <1>4 DEF ApInv, ProgressInv, ApTypeInv, CallsInv, At
<1>7. CheckedInv'
  BY <1>1 DEF ApInv, ProgressInv, CheckedInv, At, check_ap_addr
<1>8. OrderInv' /\ UnwrittenInv'
  BY <1>1, <1>3, <1>4 DEF OrderInv, UnwrittenInv, At
<1>9. CutInv'
  BY <1>3 DEF CutInv, At
<1>10. ASSUME NEW d, d = frame.k PROVE Done(d)'
  <2> SUFFICES ASSUME Regular(c)
               PROVE  /\ Of(d)' # {}
                      /\ \A i \in Of(d)' : i + 1 \in Of(d)' \/ Ends(pieces'[i], c)
    BY <1>1, <1>10 DEF Done, Regular, Ends, PieceAddr
  <2>1. Of(d)' = Of(d) \cup {n + 1}
    BY <1>4, <1>10
  <2>2. Ends(pieces'[n + 1], c)
    <3>1. /\ frame.addr + frame.len = c.addr + c.len
          /\ PieceAddr(Piece) = frame.addr /\ Piece.len = frame.len
      BY <1>1, PieceIs DEF ApInv, ProgressInv, CutInv, At
    <3> QED BY <1>4, <3>1 DEF Ends
  <2>3. ASSUME NEW i \in Of(d), i # n PROVE i + 1 \in Of(d)
    <3>1. i \in 1..n /\ pieces[i].k = d
      BY DEF Of
    <3>2. i + 1 \in 1..n /\ i \in 1..Len(pieces)-1 /\ n \in 1..n
      BY <1>4, <2>3, <3>1
    <3>3. pieces[i].k <= pieces[i + 1].k
      BY <3>2 DEF ApInv, ProgressInv, OrderInv, CallsInOrder
    <3>4. pieces[i + 1].k <= frame.k /\ pieces[i + 1].k \in 1..Len(accesses)
      <4>1. pieces'[i + 1] = pieces[i + 1] /\ i + 1 \in 1..n+1
        BY <1>4, <3>2
      <4> QED BY <1>4, <4>1
    <3>5. pieces[i + 1].k = d
      BY <1>2, <1>10, <3>1, <3>3, <3>4 DEF FrameSet
    <3> QED BY <3>2, <3>5 DEF Of
  <2> QED BY <1>4, <2>1, <2>2, <2>3
<1>11. ASSUME NEW d \in 1..frame.k PROVE Done(d)'
  <2>1. d \in 1..frame.k-1 \/ d = frame.k
    BY <1>2 DEF FrameSet
  <2> QED BY <1>5, <1>10, <2>1
<1>12. TileInv'
  BY <1>3, <1>5, <1>11 DEF TileInv, At
<1> QED BY <1>6, <1>7, <1>8, <1>9, <1>12 DEF ProgressInv

\* Back in the command: the next call, or the end, that is a success only after
\* the last call.
LEMMA ReturnedStep ==
  ASSUME ApInv, Returned PROVE ProgressInv'
<1> DEFINE n == Len(pieces)
<1>1. /\ frame.pc = "returned" /\ UNCHANGED <<ram, win, accesses, pieces>>
      /\ \/ /\ frame.k < Len(accesses) /\ frame' = EnterAccess(accesses, frame.k + 1)
            /\ result' = result
         \/ accesses[frame.k].dir = "in" /\ frame' = Idle /\ result' = "SIGN"
         \/ frame.k = Len(accesses) /\ frame' = Idle /\ result' = "SUCCESS"
  BY DEF Returned, Fail, At
<1>2. /\ frame.k \in 1..Len(accesses) /\ frame.k \in Nat /\ Len(accesses) \in Nat /\ n \in Nat
  BY <1>1 DEF ApInv, ProgressInv, ApTypeInv, CallsInv, FrameSet, At
<1>3. /\ \A i \in 1..n : pieces[i].k \in 1..Len(accesses) /\ pieces[i].k <= frame.k
      /\ CallsInOrder
  BY <1>1 DEF ApInv, ProgressInv, OrderInv, At
<1>4. /\ \A i \in 1..n : Joined(i)
      /\ \A d \in 1..frame.k : Done(d)
  BY <1>1 DEF ApInv, ProgressInv, TileInv, At
<1>5. /\ \A i \in 1..n : Joined(i)'
      /\ \A d \in 1..frame.k : Done(d)'
  <2>1. \A i \in 1..n : Joined(i)'
    BY <1>1, <1>4 DEF Joined, Regular, PieceFits, PieceAddr, Follows, Starts
  <2>2. \A d \in 1..frame.k : Done(d)'
    BY <1>1, <1>4 DEF Done, Of, Regular, Ends, PieceAddr
  <2> QED BY <2>1, <2>2
<1>6. CASE frame.k < Len(accesses) /\ frame' = EnterAccess(accesses, frame.k + 1)
  <2>1. /\ frame'.pc = "enter" /\ frame'.k = frame.k + 1 /\ frame'.par = 0
        /\ frame'.addr = accesses[frame.k + 1].addr /\ frame'.len = accesses[frame.k + 1].len
    BY <1>6 DEF EnterAccess
  <2>2. frame'.k \in 1..Len(accesses) /\ frame.k + 1 \in 1..Len(accesses)
    BY <1>2, <1>6, <2>1
  <2>3. frame' \in FrameSet
    <3>1. /\ accesses[frame.k + 1].addr \in Int /\ accesses[frame.k + 1].len \in Int
          /\ frame.k + 1 \in Nat
      BY <1>2, <2>2, CallIs, Sizes DEF ApInv, ProgressInv
    <3> QED BY <1>6, <3>1 DEF EnterAccess, FrameSet
  <2>4. ApTypeInv' /\ CheckedInv'
    BY <1>1, <2>1, <2>2, <2>3 DEF ApInv, ProgressInv, ApTypeInv, CallsInv, CheckedInv, At,
       check_ap_addr
  <2>5. \A i \in 1..n : pieces[i].k < frame.k + 1 /\ pieces[i].k <= frame.k + 1
    BY <1>2, <1>3
  <2>6. OrderInv' /\ UnwrittenInv'
    BY <1>1, <1>3, <2>1, <2>5 DEF OrderInv, CallsInOrder, UnwrittenInv, At
  <2>7. CutInv'
    BY <1>1, <2>1 DEF CutInv, At
  <2>8. TileInv'
    <3>1. frame'.k - 1 = frame.k
      BY <1>2, <2>1
    <3> QED BY <1>1, <1>5, <2>1, <3>1 DEF TileInv, At
  <2> QED BY <2>4, <2>6, <2>7, <2>8 DEF ProgressInv
<1>7. CASE /\ frame' = Idle
           /\ \/ accesses[frame.k].dir = "in" /\ result' = "SIGN"
              \/ frame.k = Len(accesses) /\ result' = "SUCCESS"
  <2>1. frame'.pc = "idle" /\ frame' \in FrameSet
    BY <1>7 DEF Idle, FrameSet
  <2>2. ApTypeInv' /\ CutInv'
    BY <1>1, <2>1 DEF ApInv, ProgressInv, ApTypeInv, CallsInv, CutInv, At
  <2>3. CheckedInv'
    BY <1>1 DEF ApInv, ProgressInv, CheckedInv, At, check_ap_addr
  <2>4. OrderInv'
    BY <1>1, <1>3, <2>1 DEF OrderInv, CallsInOrder, At
  <2>5. UnwrittenInv'
    <3> SUFFICES ASSUME accesses[frame.k].dir = "in", NEW i \in 1..n
                 PROVE  accesses[pieces[i].k].dir # "out"
      BY <1>1, <1>7 DEF UnwrittenInv
    <3>1. ~(frame.k > 1)
      BY <1>2 DEF ApInv, ProgressInv, ApTypeInv, CallsInv
    <3>2. pieces[i].k = frame.k
      BY <1>2, <1>3, <3>1
    <3> QED BY <3>2
  <2>6. TileInv'
    BY <1>1, <1>5, <1>7, <2>1 DEF TileInv, At
  <2> QED BY <2>2, <2>3, <2>4, <2>5, <2>6 DEF ProgressInv
<1> QED BY <1>1, <1>6, <1>7

\* Every step keeps the invariant.
LEMMA ApStep == ApInv /\ [MNext]_mvars => ApInv'
<1> SUFFICES ASSUME ApInv, [MNext]_mvars PROVE ProgressInv'
  BY WindowStep DEF ApInv
<1>1. CASE UNCHANGED mvars
  <2>1. UNCHANGED <<ram, win, accesses, frame, result, pieces>>
    BY <1>1 DEF mvars
  <2>2. ApTypeInv' /\ CheckedInv'
    BY <2>1 DEF ApInv, ProgressInv, ApTypeInv, CallsInv, CheckedInv, At, check_ap_addr
  <2>3. OrderInv' /\ UnwrittenInv'
    BY <2>1 DEF ApInv, ProgressInv, OrderInv, CallsInOrder, UnwrittenInv, At
  <2>4. CutInv'
    BY <2>1 DEF ApInv, ProgressInv, CutInv, At, Regular, PieceAddr
  <2>5. \A i \in 1..Len(pieces) : Joined(i)' <=> Joined(i)
    BY <2>1 DEF Joined, Regular, PieceFits, PieceAddr, Follows, Starts
  <2>6. \A d : Done(d)' <=> Done(d)
    BY <2>1 DEF Done, Of, Regular, Ends, PieceAddr
  <2>7. TileInv'
    BY <2>1, <2>5, <2>6 DEF ApInv, ProgressInv, TileInv, At
  <2> QED BY <2>2, <2>3, <2>4, <2>7 DEF ProgressInv
<1>2. ASSUME NEW cs \in Commands, Command(cs) PROVE ProgressInv'
  BY <1>2, CommandStep
<1>3. CASE ProcessEnter
  BY <1>3, EnterStep
<1>4. CASE ProcessPiece
  BY <1>4, PieceStep
<1>5. CASE ProcessLast
  BY <1>5, LastStep
<1>6. CASE Returned
  BY <1>6, ReturnedStep
<1> QED BY <1>1, <1>2, <1>3, <1>4, <1>5, <1>6 DEF MNext

(* What process_ap_mem knows between its steps is always so.                *)
THEOREM ApInvariance == MSpec => []ApInv
BY ApInit, ApStep, PTL DEF MSpec

(* A command that fails, whatever the AP passed and wherever it fails, has  *)
(* not written to the AP's memory, unless there are 4 GiB of it, of which   *)
(* no address is checked (main.c:83-96, 249-273).                           *)
THEOREM FailuresNeverWrite == MSpec => []NothingWrittenOnFailure
<1>1. ApInv => NothingWrittenOnFailure
  BY DEF ApInv, ProgressInv, UnwrittenInv, NothingWrittenOnFailure
<1> QED BY <1>1, ApInvariance, PTL

\* Whole words stay inside the RAM.
LEMMA ApInside == ApInv => TouchedInsideRam
<1> SUFFICES ASSUME ApInv, NEW i \in 1..Len(pieces),
                    Regular(accesses[pieces[i].k]), accesses[pieces[i].k].len % Align = 0
             PROVE  PieceAddr(pieces[i]) + pieces[i].len <= ram
  BY DEF TouchedInsideRam
<1> DEFINE d == pieces[i].k
           c == accesses[d]
<1>1. d \in 1..Len(accesses)
  BY DEF ApInv, ProgressInv, OrderInv
<1>2. /\ c.addr \in Nat /\ c.len \in Nat /\ c.len > 0 /\ ram \in RamSizes
  BY <1>1, CallIs, Sizes DEF ApInv, ProgressInv, ApTypeInv, Regular
<1>3. c.addr + c.len < Word /\ PieceAddr(pieces[i]) + pieces[i].len <= c.addr + c.len
  BY DEF ApInv, ProgressInv, TileInv, Joined
<1>4. PieceAddr(pieces[i]) + pieces[i].len \in Int
  <2>1. pieces[i] \in PieceSet
    BY DEF ApInv, ProgressInv, ApTypeInv
  <2> QED BY <2>1 DEF PieceSet, PieceAddr
<1>5. check_ap_addr(c.addr, c.len)
  <2>1. pieces # <<>>
    OBVIOUS
  <2> QED BY <1>1, <2>1 DEF ApInv, ProgressInv, CheckedInv
<1> HIDE DEF c
<1>6. ram \in Nat /\ Word \in Nat /\ ram % Align = 0 /\ Align \in Nat \ {0, 1}
  BY <1>2, Sizes
<1>7. c.addr + c.len <= ram
  <2>1. CASE ram = Word
    BY <1>2, <1>3, <1>6, <2>1
  <2>2. CASE ram # Word
    <3>1. c.addr % Align = 0 /\ (c.addr + c.len - 1) % Word <= ram
      BY <1>5, <2>2 DEF check_ap_addr
    <3>2. c.addr + c.len - 1 \in 0..Word-1
      BY <1>2, <1>3, <1>6
    <3>3. c.addr + c.len <= ram + 1
      BY <1>2, <1>6, <3>1, <3>2, WordIs, SMTT(30)
    <3>4. (c.addr + c.len) % Align = 0
      BY <1>2, <1>6, <3>1, MultiplesAdd DEF c
    <3> QED BY <1>2, <1>6, <3>3, <3>4, MultiplesApart
  <2> QED BY <2>1, <2>2
<1> QED BY <1>2, <1>3, <1>4, <1>6, <1>7 DEF c

\* A command that succeeded has been served piece by piece.
LEMMA ApTiled == ApInv => ServedTiled
<1> SUFFICES ASSUME ApInv, At("idle"), result = "SUCCESS"
             PROVE  CallsInOrder /\ \A d \in 1..Len(accesses) : Regular(accesses[d]) => Tiled(d)
  BY DEF ServedTiled
<1>1. CallsInOrder
  BY DEF ApInv, ProgressInv, OrderInv
<1>2. ASSUME NEW d \in 1..Len(accesses), Regular(accesses[d]) PROVE Tiled(d)
  <2>1. Of(d) # {} /\ \A i \in Of(d) : i + 1 \in Of(d) \/ Ends(pieces[i], accesses[d])
    BY <1>2 DEF ApInv, ProgressInv, TileInv, Done
  <2>2. ASSUME NEW i \in Of(d)
        PROVE  /\ PieceFits(pieces[i])
               /\ IF i - 1 \in Of(d) THEN Follows(pieces[i], pieces[i - 1])
                  ELSE Starts(pieces[i], accesses[d])
    <3>1. i \in 1..Len(pieces) /\ pieces[i].k = d
      BY DEF Of
    <3>2. /\ PieceFits(pieces[i])
          /\ IF i > 1 /\ pieces[i - 1].k = d THEN Follows(pieces[i], pieces[i - 1])
             ELSE Starts(pieces[i], accesses[d])
      BY <1>2, <3>1 DEF ApInv, ProgressInv, TileInv, Joined
    <3>3. i - 1 \in Of(d) <=> i > 1 /\ pieces[i - 1].k = d
      <4>1. i - 1 \in 1..Len(pieces) <=> i > 1
        BY <3>1 DEF ApInv, ProgressInv, ApTypeInv
      <4> QED BY <4>1 DEF Of
    <3> QED BY <3>2, <3>3
  <2> QED BY <2>1, <2>2 DEF Tiled
<1> QED BY <1>1, <1>2

(* A request that was served reached exactly the bytes it names, each in    *)
(* the window as it was mapped at that moment, in order, and no whole word  *)
(* outside the RAM, wherever windows and RAM end (main.c:25-96).            *)
THEOREM ServedAlwaysTiled == MSpec => []ServedRequestsTiled
<1>1. ApInv => ServedRequestsTiled
  BY ApInside, ApTiled DEF ServedRequestsTiled
<1> QED BY <1>1, ApInvariance, PTL
-----------------------------------------------------------------------------
(***************************************************************************)
(* The nonce of a signature, for all curves, keys and messages.            *)
(***************************************************************************)
\* The ECP coprocessor holds the nonce until its operands are cleared, ZMODP never
\* does after a step.
LeftInv == /\ op # "clear" => ecp_op2 = Zero
           /\ zmodp_x = Zero
           /\ op = "idle" /\ out.fn = "signed" => k = Zero

\* At first nothing is left anywhere.
LEMMA LeftInit == SInit => LeftInv
BY DEF SInit, LeftInv

\* Every step keeps the invariant.
LEMMA LeftStep == LeftInv /\ [SNext]_svars => LeftInv'
<1> SUFFICES ASSUME LeftInv, [SNext]_svars PROVE LeftInv'
  OBVIOUS
<1> USE DEF LeftInv
<1>1. CASE UNCHANGED svars
  BY <1>1 DEF svars
<1>2. CASE ecdsa_generate_efuse_private_key
  BY <1>2 DEF ecdsa_generate_efuse_private_key, Enter, Leave
<1>3. CASE ecdsa_get_efuse_public_key
  BY <1>3 DEF ecdsa_get_efuse_public_key, Enter, Leave
<1>4. CASE SignStart
  BY <1>4 DEF SignStart, Enter, Leave
<1>5. CASE DrawNonce
  BY <1>5 DEF DrawNonce
<1>6. CASE SignPoint
  BY <1>6 DEF SignPoint
<1>7. CASE ClearOperands
  BY <1>7 DEF ClearOperands
<1>8. CASE SignKey
  BY <1>8 DEF SignKey, Leave
<1>9. CASE SignInverse
  BY <1>9 DEF SignInverse, Kept
<1>10. CASE SignProduct
  BY <1>10 DEF SignProduct, Kept, Leave
<1>11. CASE Verify
  BY <1>11 DEF Verify, Enter, Leave
<1> QED BY <1>1, <1>2, <1>3, <1>4, <1>5, <1>6, <1>7, <1>8, <1>9, <1>10, <1>11 DEF SNext

(* Once ecdsa_sign has returned, neither coprocessor's operand registers     *)
(* hold the nonce or its inverse, however often it drew again and whatever   *)
(* failed, and after a success the stack does not (crypto.c,                 *)
(* ecp_clear_operands and CLEAR_X).                                          *)
THEOREM NothingSecretStays == SSpec => []NothingSecretLeft
<1>1. LeftInv => NothingSecretLeft
  BY DEF LeftInv, NothingSecretLeft
<1> QED BY <1>1, LeftInit, LeftStep, PTL DEF SSpec

-----------------------------------------------------------------------------
(***************************************************************************)
(* Numbers as words, for all sizes of words: bn_cmp compares, bn_add and   *)
(* Subtract carry, and bn_modulo and bn_addmod are what they are called.   *)
(***************************************************************************)
\* The sums of the words of x up to each.
ValUp(x) == CHOOSE f : f = [i \in 0..Words |-> IF i = 0 THEN 0
                                               ELSE f[i - 1] + x[i - 1] * Pow(Radix, i - 1)]

\* The radix of the words and its powers.
LEMMA RadixIs ==
  /\ Words \in Nat \ {0} /\ WordBits \in Nat \ {0} /\ Radix \in Nat \ {0, 1}
  /\ \A i \in Nat : Pow(Radix, i) \in Nat \ {0} /\ Pow(Radix, i + 1) = Radix * Pow(Radix, i)
  /\ Pow(Radix, 0) = 1
<1>1. Words \in Nat \ {0} /\ WordBits \in Nat \ {0}
  BY WordsAssumption
<1>2. Radix \in Nat \ {0, 1}
  <2>1. WordBits - 1 \in Nat /\ (WordBits - 1) + 1 = WordBits
    BY <1>1
  <2>2. Pow(2, WordBits - 1) \in Nat \ {0}
    BY <2>1, PowPositive
  <2>3. Pow(2, (WordBits - 1) + 1) = 2 * Pow(2, WordBits - 1)
    BY <2>1, PowIs
  <2>4. Radix = 2 * Pow(2, WordBits - 1)
    BY <2>1, <2>3 DEF Radix
  <2> QED BY <2>2, <2>4
<1>3. \A i \in Nat : Pow(Radix, i) \in Nat \ {0}
  BY <1>2, PowPositive
<1>4. \A i \in Nat : Pow(Radix, i + 1) = Radix * Pow(Radix, i)
  BY <1>2, PowIs
<1>5. Pow(Radix, 0) = 1
  BY <1>2, PowIs
<1> QED BY <1>1, <1>2, <1>3, <1>4, <1>5

\* They are what Val is computed with.
LEMMA ValFollows ==
  ASSUME NEW x \in Nums
  PROVE  /\ ValUp(x) \in [0..Words -> Nat] /\ Val(x) = ValUp(x)[Words] /\ ValUp(x)[0] = 0
         /\ \A i \in 0..Words-1 : ValUp(x)[i + 1] = ValUp(x)[i] + x[i] * Pow(Radix, i)
<1> DEFINE step == [i \in 0..Words-1 |-> [v \in Nat |-> v + x[i] * Pow(Radix, i)]]
<1>1. \A i \in 0..Words-1 : x[i] * Pow(Radix, i) \in Nat
  <2> TAKE i \in 0..Words-1
  <2>1. x[i] \in 0..Radix-1 /\ Radix \in Nat
    BY RadixIs DEF Nums, Index
  <2>2. i \in Nat
    BY RadixIs
  <2>3. Pow(Radix, i) \in Nat
    BY <2>2, RadixIs
  <2> DEFINE q == Pow(Radix, i)
  <2> HIDE DEF q
  <2>4. x[i] * q \in Nat
    BY <2>1, <2>3 DEF q
  <2> QED BY <2>4 DEF q
<1>2. step \in [0..Words-1 -> [Nat -> Nat]] /\ Words \in Nat
  BY <1>1, RadixIs
<1> HIDE DEF step
<1>3. PICK g \in [0..Words -> Nat] : Iterates(g, Words, 0, step)
  BY <1>2, Recursion
<1>4. \A i \in 0..Words-1 : g[i + 1] = g[i] + x[i] * Pow(Radix, i)
  <2>1. \A i \in 0..Words-1 : g[i + 1] = step[i][g[i]]
    BY <1>3 DEF Iterates
  <2>2. \A i \in 0..Words-1 : g[i] \in Nat
    BY <1>2, <1>3
  <2> QED BY <2>1, <2>2 DEF step
<1>5. g = [i \in 0..Words |-> IF i = 0 THEN 0 ELSE g[i - 1] + x[i - 1] * Pow(Radix, i - 1)]
  <2>1. ASSUME NEW i \in 0..Words
        PROVE  g[i] = IF i = 0 THEN 0 ELSE g[i - 1] + x[i - 1] * Pow(Radix, i - 1)
    <3>1. CASE i = 0
      BY <1>3, <3>1 DEF Iterates
    <3>2. CASE i # 0
      <4>1. i - 1 \in 0..Words-1 /\ (i - 1) + 1 = i
        BY <3>2, <1>2
      <4>2. g[(i - 1) + 1] = g[i - 1] + x[i - 1] * Pow(Radix, i - 1)
        BY <1>4, <4>1
      <4> QED BY <3>2, <4>1, <4>2
    <3> QED BY <3>1, <3>2
  <2> QED BY <2>1
<1> DEFINE f == ValUp(x)
<1>6. f = [i \in 0..Words |-> IF i = 0 THEN 0 ELSE f[i - 1] + x[i - 1] * Pow(Radix, i - 1)]
  BY <1>5 DEF ValUp
<1>7. Val(x) = f[Words]
  BY DEF Val, ValUp
<1> HIDE DEF f
<1>8. f[0] = 0 /\ \A i \in 0..Words-1 : f[i + 1] = f[i] + x[i] * Pow(Radix, i)
  <2>1. ASSUME NEW j \in 0..Words, j # 0
        PROVE  f[j] = f[j - 1] + x[j - 1] * Pow(Radix, j - 1)
    BY <1>6, <2>1
  <2>2. ASSUME NEW i \in 0..Words-1 PROVE f[i + 1] = f[i] + x[i] * Pow(Radix, i)
    <3>1. i + 1 \in 0..Words /\ i + 1 # 0 /\ (i + 1) - 1 = i
      BY <1>2
    <3> QED BY <2>1, <3>1
  <2>3. f[0] = 0
    BY <1>2, <1>6
  <2> QED BY <2>2, <2>3
<1>9. \A i \in 0..Words : f[i] \in Nat
  <2> DEFINE T == {i \in 0..Words : f[i] \in Nat}
  <2>1. 0 \in T
    BY <1>2, <1>8
  <2>2. ASSUME NEW i \in 0..Words-1, i \in T PROVE i + 1 \in T
    <3> DEFINE w == x[i] * Pow(Radix, i)
    <3>1. w \in Nat /\ f[i] \in Nat /\ f[i + 1] = f[i] + w /\ i + 1 \in 0..Words
      BY <1>1, <1>2, <1>8, <2>2
    <3> HIDE DEF w
    <3>2. f[i + 1] \in Nat
      BY <3>1
    <3> QED BY <3>1, <3>2
  <2> HIDE DEF T
  <2>3. 0..Words \subseteq T
    BY <1>2, <2>1, <2>2, UpTo
  <2> QED BY <2>3 DEF T
<1>10. f \in [0..Words -> Nat]
  <2>1. DOMAIN f = 0..Words /\ f = [i \in 0..Words |-> f[i]]
    BY <1>6
  <2> QED BY <1>9, <2>1
<1> QED BY <1>7, <1>8, <1>10 DEF f

\* The words up to i are a number below the radix to the i.
LEMMA ValBelow ==
  ASSUME NEW x \in Nums
  PROVE  \A i \in 0..Words : ValUp(x)[i] \in 0..Pow(Radix, i)-1
<1> DEFINE f == ValUp(x)
<1>1. /\ f \in [0..Words -> Nat] /\ f[0] = 0
      /\ \A i \in 0..Words-1 : f[i + 1] = f[i] + x[i] * Pow(Radix, i)
  BY ValFollows
<1> HIDE DEF f
<1> DEFINE T == {i \in 0..Words : f[i] \in 0..Pow(Radix, i)-1}
<1>2. 0 \in T
  BY <1>1, RadixIs
<1>3. ASSUME NEW i \in 0..Words-1, i \in T PROVE i + 1 \in T
  <2> DEFINE q == Pow(Radix, i)
  <2>1. q \in Nat \ {0} /\ x[i] \in 0..Radix-1 /\ f[i] \in 0..q-1 /\ Radix \in Nat
        /\ f[i + 1] = f[i] + x[i] * q /\ Pow(Radix, i + 1) = Radix * q
        /\ i + 1 \in 0..Words
    BY <1>1, <1>3, RadixIs DEF Nums, Index
  <2> HIDE DEF q
  <2>2. x[i] * q <= (Radix - 1) * q /\ x[i] * q \in Nat
    BY <2>1
  <2>3. (Radix - 1) * q = Radix * q - q
    BY <2>1
  <2>4. f[i + 1] \in 0..Radix*q-1
    BY <2>1, <2>2, <2>3
  <2> QED BY <2>1, <2>4
<1> HIDE DEF T
<1>4. 0..Words \subseteq T
  BY <1>2, <1>3, RadixIs, UpTo
<1> QED BY <1>4 DEF T, f

\* The first words of a number are its remainder.
LEMMA ValNum ==
  ASSUME NEW v \in Nat
  PROVE  /\ Num(v) \in Nums
         /\ \A i \in 0..Words : ValUp(Num(v))[i] = v % Pow(Radix, i)
<1> DEFINE x == Num(v)
<1>1. x \in Nums
  <2>1. ASSUME NEW i \in Index PROVE (v \div Pow(Radix, i)) % Radix \in 0..Radix-1
    <3>1. Pow(Radix, i) \in Nat \ {0} /\ Radix \in Nat \ {0}
      BY RadixIs DEF Index
    <3>2. v \div Pow(Radix, i) \in Nat
      BY <3>1, Remainder
    <3> QED BY <3>1, <3>2, Remainder
  <2> QED BY <2>1 DEF Num, Nums
<1> DEFINE f == ValUp(x)
<1>2. /\ f \in [0..Words -> Nat] /\ f[0] = 0
      /\ \A i \in 0..Words-1 : f[i + 1] = f[i] + x[i] * Pow(Radix, i)
  BY <1>1, ValFollows
<1>3. \A i \in Index : x[i] = (v \div Pow(Radix, i)) % Radix
  BY DEF Num
<1> HIDE DEF f, x
<1> DEFINE T == {i \in 0..Words : f[i] = v % Pow(Radix, i)}
<1>4. 0 \in T
  BY <1>2, RadixIs
<1>5. ASSUME NEW i \in 0..Words-1, i \in T PROVE i + 1 \in T
  <2> DEFINE q == Pow(Radix, i)
  <2>1. q \in Nat \ {0} /\ Radix \in Nat \ {0} /\ Pow(Radix, i + 1) = q * Radix
        /\ f[i + 1] = f[i] + x[i] * q /\ f[i] = v % q /\ x[i] = (v \div q) % Radix
        /\ i + 1 \in 0..Words /\ x[i] \in Nat
    <3>1. Radix * q = q * Radix
      <4>1. q \in Nat /\ Radix \in Nat
        BY RadixIs
      <4> HIDE DEF q
      <4> QED BY <4>1
    <3> QED BY <1>1, <1>2, <1>3, <1>5, <3>1, RadixIs DEF Index, Nums
  <2> HIDE DEF q
  <2>2. (v % (q * Radix)) % q = v % q /\ (v % (q * Radix)) \div q = (v \div q) % Radix
    BY <2>1, Nested
  <2>3. q * Radix \in Nat \ {0}
    BY <2>1
  <2> DEFINE u == v % (q * Radix)
  <2>4. u \in Nat
    BY <2>3, Remainder
  <2>5. u = q * (u \div q) + (u % q)
    BY <2>1, <2>4, Remainder
  <2> HIDE DEF u
  <2>6. u % q = f[i] /\ u \div q = x[i]
    BY <2>1, <2>2 DEF u
  <2>7. q * x[i] = x[i] * q
    BY <2>1
  <2>8. u = x[i] * q + f[i]
    BY <2>5, <2>6, <2>7
  <2>9. f[i] \in Nat /\ x[i] * q \in Nat
    BY <1>2, <2>1
  <2>10. f[i + 1] = u
    BY <2>1, <2>8, <2>9
  <2> QED BY <2>1, <2>10 DEF u
<1> HIDE DEF T
<1>6. 0..Words \subseteq T
  BY <1>4, <1>5, RadixIs, UpTo
<1> QED BY <1>1, <1>6 DEF T, f, x

\* Numbers below Pow(Radix, Words) and their words are the same.
LEMMA ValOfNum ==
  ASSUME NEW v \in 0..Pow(Radix, Words)-1
  PROVE  Num(v) \in Nums /\ Val(Num(v)) = v
<1>1. Words \in Nat /\ Words \in 0..Words /\ Pow(Radix, Words) \in Nat \ {0}
  BY RadixIs
<1>2. v \in Nat /\ v % Pow(Radix, Words) = v
  <2> DEFINE q == Pow(Radix, Words)
  <2>1. q \in Nat \ {0}
    BY <1>1
  <2>2. v \in 0..q-1
    OBVIOUS
  <2> HIDE DEF q
  <2>3. v \in Nat /\ v % q = v
    BY <2>1, <2>2
  <2> QED BY <2>3 DEF q
<1>3. Num(v) \in Nums /\ ValUp(Num(v))[Words] = v
  BY <1>1, <1>2, ValNum
<1> QED BY <1>3, ValFollows

\* What is in the words is below their range.
LEMMA ValRange ==
  ASSUME NEW x \in Nums PROVE Val(x) \in 0..Pow(Radix, Words)-1
<1>1. Words \in 0..Words
  BY RadixIs
<1> QED BY <1>1, ValFollows, ValBelow

\* The greatest of some numbers below n.
LEMMA TopOf ==
  ASSUME NEW N \in Nat
  PROVE  \A D \in SUBSET (0..N-1) : D # {} => \E i \in D : \A j \in D : j <= i
<1> DEFINE T == {n \in 0..N : \A D \in SUBSET (0..n-1) : D # {} => \E i \in D : \A j \in D : j <= i}
<1>1. 0 \in T
  <2>1. 0..0-1 = {} /\ 0 \in 0..N
    OBVIOUS
  <2>2. \A D \in SUBSET (0..0-1) : D = {}
    BY <2>1, Zenon
  <2>3. \A D \in SUBSET (0..0-1) : D # {} => \E i \in D : \A j \in D : j <= i
    BY <2>2, Zenon
  <2> QED BY <2>1, <2>3
<1>2. ASSUME NEW n \in 0..N-1, n \in T PROVE n + 1 \in T
  <2>1. ASSUME NEW D \in SUBSET (0..(n+1)-1), D # {} PROVE \E i \in D : \A j \in D : j <= i
    <3>1. CASE n \in D
      BY <3>1
    <3>2. CASE n \notin D
      <4>1. D \in SUBSET (0..n-1)
        BY <3>2
      <4> QED BY <1>2, <2>1, <4>1
    <3> QED BY <3>1, <3>2
  <2>2. n + 1 \in 0..N
    OBVIOUS
  <2> QED BY <2>1, <2>2
<1> HIDE DEF T
<1>3. N \in T
  BY <1>1, <1>2, UpTo
<1> QED BY <1>3 DEF T

\* The most significant word that differs decides.
LEMMA TopDecides ==
  ASSUME NEW a \in Nums, NEW b \in Nums, NEW t \in Index, a[t] < b[t],
         \A j \in Index : j > t => a[j] = b[j]
  PROVE  Val(a) < Val(b)
<1> DEFINE f == ValUp(a)  g == ValUp(b)
<1>1. /\ f \in [0..Words -> Nat] /\ \A i \in 0..Words-1 : f[i + 1] = f[i] + a[i] * Pow(Radix, i)
      /\ \A i \in 0..Words : f[i] \in 0..Pow(Radix, i)-1
  BY ValFollows, ValBelow
<1>2. /\ g \in [0..Words -> Nat] /\ \A i \in 0..Words-1 : g[i + 1] = g[i] + b[i] * Pow(Radix, i)
  BY ValFollows
<1>3. Val(a) = f[Words] /\ Val(b) = g[Words]
  BY ValFollows
<1> HIDE DEF f, g
<1>4. Words \in Nat /\ t \in 0..Words-1 /\ t + 1 \in 0..Words
  BY RadixIs DEF Index
<1>5. f[t + 1] < g[t + 1]
  <2> DEFINE q == Pow(Radix, t)
  <2>1. q \in Nat \ {0}
    BY <1>4, RadixIs
  <2>2. /\ f[t] \in 0..q-1 /\ f[t + 1] = f[t] + a[t] * q
        /\ g[t] \in Nat /\ g[t + 1] = g[t] + b[t] * q
    BY <1>1, <1>2, <1>4
  <2>3. a[t] \in Nat /\ b[t] \in Nat
    BY <1>4, RadixIs DEF Nums, Index
  <2> HIDE DEF q
  <2>4. (a[t] + 1) * q <= b[t] * q
    <3> DEFINE d == b[t] - (a[t] + 1)
    <3>1. d \in Nat /\ b[t] = (a[t] + 1) + d
      BY <2>3
    <3> HIDE DEF d
    <3>2. d * q \in Nat /\ b[t] * q = (a[t] + 1) * q + d * q /\ (a[t] + 1) * q \in Nat
      BY <2>1, <2>3, <3>1
    <3> QED BY <3>2
  <2>5. (a[t] + 1) * q = a[t] * q + q /\ a[t] * q \in Nat /\ b[t] * q \in Nat
    BY <2>1, <2>3
  <2> QED BY <2>1, <2>2, <2>4, <2>5
<1> DEFINE T == {i \in 0..Words : i >= t + 1 => f[i] < g[i]}
<1>6. 0 \in T
  BY <1>4
<1>7. ASSUME NEW i \in 0..Words-1, i \in T PROVE i + 1 \in T
  <2>1. i + 1 \in 0..Words
    BY <1>4
  <2>2. CASE i < t
    BY <1>4, <2>1, <2>2
  <2>3. CASE i = t
    BY <1>4, <1>5, <2>1, <2>3
  <2>4. CASE i > t
    <3> DEFINE w == a[i] * Pow(Radix, i)
    <3>1. f[i] < g[i]
      BY <1>4, <1>7, <2>4
    <3>2. w \in Nat
      <4> DEFINE q == Pow(Radix, i)
      <4>1. a[i] \in 0..Radix-1 /\ Radix \in Nat
        BY RadixIs DEF Nums, Index
      <4>3. i \in Nat
        BY <1>4
      <4>4. q \in Nat
        BY <4>3, RadixIs
      <4> HIDE DEF q
      <4>2. a[i] * q \in Nat
        BY <4>1, <4>4
      <4> QED BY <4>2 DEF q
    <3>3. a[i] = b[i]
      BY <2>4 DEF Index
    <3>4. f[i + 1] = f[i] + w /\ g[i + 1] = g[i] + w /\ f[i] \in Nat /\ g[i] \in Nat
      BY <1>1, <1>2, <1>4, <3>3, SMTT(30)
    <3> HIDE DEF w
    <3>5. f[i + 1] < g[i + 1]
      BY <3>1, <3>2, <3>4
    <3> QED BY <2>1, <3>5
  <2> QED BY <1>4, <2>2, <2>3, <2>4
<1> HIDE DEF T
<1>8. Words \in T
  BY <1>4, <1>6, <1>7, UpTo
<1> QED BY <1>3, <1>4, <1>8 DEF T

\* bn_cmp compares the values.
LEMMA CmpCompares ==
  ASSUME NEW a \in Nums, NEW b \in Nums
  PROVE  /\ bn_cmp(a, b) = 0 => a = b
         /\ bn_cmp(a, b) = IF Val(a) < Val(b) THEN -1 ELSE IF Val(a) = Val(b) THEN 0 ELSE 1
<1> DEFINE differ == {i \in Index : a[i] # b[i]}
           top == CHOOSE i \in differ : \A j \in differ : j <= i
<1>1. bn_cmp(a, b) = IF differ = {} THEN 0 ELSE IF a[top] < b[top] THEN -1 ELSE 1
  BY DEF bn_cmp
<1>2. Val(a) \in Nat /\ Val(b) \in Nat
  <2>1. Val(a) \in 0..Pow(Radix, Words)-1 /\ Val(b) \in 0..Pow(Radix, Words)-1
    BY ValRange
  <2> QED BY <2>1, RadixIs
<1>3. CASE differ = {}
  <2>1. \A i \in Index : a[i] = b[i]
    BY <1>3
  <2>2. a = b
    BY <2>1 DEF Nums
  <2> QED BY <1>1, <1>2, <1>3, <2>2
<1>4. CASE differ # {}
  <2>1. top \in differ /\ \A j \in differ : j <= top
    <3>1. differ \in SUBSET (0..Words-1) /\ Words \in Nat
      BY RadixIs DEF Index
    <3>2. \E i \in differ : \A j \in differ : j <= i
      BY <1>4, <3>1, TopOf
    <3> QED BY <3>2
  <2> DEFINE t == top
  <2>2. t \in Index /\ a[t] # b[t] /\ \A j \in Index : j > t => a[j] = b[j]
    <3>1. t \in Index /\ a[t] # b[t]
      BY <2>1
    <3>2. ASSUME NEW j \in Index, j > t PROVE a[j] = b[j]
      <4>1. SUFFICES ASSUME j \in differ PROVE FALSE
        OBVIOUS
      <4>2. j <= t
        BY <2>1, <4>1
      <4>3. j \in Int /\ t \in Int
        BY <3>1, RadixIs DEF Index
      <4> QED BY <3>2, <4>2, <4>3
    <3> QED BY <3>1, <3>2
  <2>3. a[t] \in Nat /\ b[t] \in Nat
    BY <2>2, RadixIs DEF Nums
  <2>4. bn_cmp(a, b) = IF a[t] < b[t] THEN -1 ELSE 1
    BY <1>1, <1>4
  <2> HIDE DEF differ, top
  <2>5. CASE a[t] < b[t]
    BY <1>2, <2>2, <2>4, <2>5, TopDecides
  <2>6. CASE b[t] < a[t]
    <3>1. Val(b) < Val(a)
      BY <2>2, <2>6, TopDecides
    <3> QED BY <1>2, <2>3, <2>4, <2>6, <3>1
  <2> QED BY <2>2, <2>3, <2>5, <2>6
<1> QED BY <1>3, <1>4

\* So there is one number for a value.
LEMMA NumOfVal ==
  ASSUME NEW x \in Nums PROVE Num(Val(x)) = x
<1>1. Num(Val(x)) \in Nums /\ Val(Num(Val(x))) = Val(x)
  BY ValRange, ValOfNum
<1>2. bn_cmp(Num(Val(x)), x) = 0
  <2>1. Val(x) \in Int
    BY ValRange, RadixIs
  <2> QED BY <1>1, <2>1, CmpCompares
<1> QED BY <1>1, <1>2, CmpCompares

\* A number is zero when it has the value 0.
LEMMA ZeroIs ==
  ASSUME NEW x \in Nums PROVE bn_is_zero(x) <=> Val(x) = 0
<1>1. 0 \in 0..Pow(Radix, Words)-1
  BY RadixIs
<1>2. Num(0) \in Nums /\ Val(Num(0)) = 0
  BY <1>1, ValOfNum
<1>3. \A i \in Index : Num(0)[i] = 0
  <2> TAKE i \in Index
  <2> DEFINE q == Pow(Radix, i)
  <2>1. q \in Nat \ {0} /\ Radix \in Nat \ {0}
    BY RadixIs DEF Index
  <2>2. Num(0)[i] = (0 \div q) % Radix
    BY DEF Num
  <2> HIDE DEF q
  <2>3. 0 \div q = 0
    BY <2>1
  <2>4. 0 % Radix = 0
    BY <2>1
  <2> QED BY <2>2, <2>3, <2>4
<1>4. bn_is_zero(x) <=> x = Num(0)
  BY <1>2, <1>3 DEF bn_is_zero, Nums
<1>5. x = Num(0) <=> Val(x) = 0
  BY <1>2, NumOfVal
<1> QED BY <1>4, <1>5

\* Words are between 0 and the radix.
LEMMA DigitIs ==
  ASSUME NEW x \in Nums, NEW i \in 0..Words-1
  PROVE  x[i] \in 0..Radix-1 /\ x[i] \in Nat /\ i \in Nat /\ i \in Index /\ i + 1 \in 0..Words
<1>1. i \in Index /\ i \in Nat /\ i + 1 \in 0..Words
  BY RadixIs DEF Index
<1>2. x[i] \in 0..Radix-1 /\ Radix \in Nat
  BY <1>1, RadixIs DEF Nums
<1> QED BY <1>1, <1>2

\* There is a function that is 0 at first, and then 1 where S says.
LEMMA BitsExist ==
  ASSUME NEW S
  PROVE  \E c \in [0..Words -> {0, 1}] :
           c[0] = 0 /\ \A i \in 0..Words-1 : c[i + 1] = IF <<i, c[i]>> \in S THEN 1 ELSE 0
<1> DEFINE step == [i \in 0..Words-1 |-> [v \in {0, 1} |-> IF <<i, v>> \in S THEN 1 ELSE 0]]
<1>1. step \in [0..Words-1 -> [{0, 1} -> {0, 1}]] /\ Words \in Nat /\ 0 \in {0, 1}
  BY RadixIs
<1>2. \A i \in 0..Words-1 : \A v \in {0, 1} : step[i][v] = IF <<i, v>> \in S THEN 1 ELSE 0
  OBVIOUS
<1> HIDE DEF step
<1>3. PICK g \in [0..Words -> {0, 1}] : Iterates(g, Words, 0, step)
  BY <1>1, Recursion
<1>4. g[0] = 0 /\ \A i \in 0..Words-1 : g[i + 1] = IF <<i, g[i]>> \in S THEN 1 ELSE 0
  <2>1. g[0] = 0 /\ \A i \in 0..Words-1 : g[i + 1] = step[i][g[i]]
    BY <1>3 DEF Iterates
  <2>2. \A i \in 0..Words-1 : g[i] \in {0, 1}
    BY <1>1, <1>3
  <2> QED BY <1>2, <2>1, <2>2
<1> QED BY <1>4

\* The carry into every word of a sum.
LEMMA CarriesAre ==
  ASSUME NEW x, NEW y
  PROVE  /\ Carries(x, y) \in [0..Words -> {0, 1}] /\ Carries(x, y)[0] = 0
         /\ \A i \in 0..Words-1 : Carries(x, y)[i + 1] =
              IF x[i] + y[i] + Carries(x, y)[i] >= Radix THEN 1 ELSE 0
<1> DEFINE S == {d \in (0..Words-1) \X {0, 1} : x[d[1]] + y[d[1]] + d[2] >= Radix}
           c == Carries(x, y)
           up(f) == [i \in 0..Words |-> IF i = 0 THEN 0
                      ELSE IF x[i - 1] + y[i - 1] + f[i - 1] >= Radix THEN 1 ELSE 0]
<1>1. PICK g \in [0..Words -> {0, 1}] :
        g[0] = 0 /\ \A i \in 0..Words-1 : g[i + 1] = IF <<i, g[i]>> \in S THEN 1 ELSE 0
  BY BitsExist
<1>2. g = up(g)
  <2>1. ASSUME NEW i \in 0..Words
        PROVE  g[i] = IF i = 0 THEN 0 ELSE IF x[i - 1] + y[i - 1] + g[i - 1] >= Radix THEN 1 ELSE 0
    <3>1. CASE i = 0
      BY <1>1, <3>1
    <3>2. CASE i # 0
      <4>1. i - 1 \in 0..Words-1 /\ (i - 1) + 1 = i /\ i - 1 \in 0..Words
        BY <3>2, RadixIs
      <4>2. g[(i - 1) + 1] = IF <<i - 1, g[i - 1]>> \in S THEN 1 ELSE 0
        BY <1>1, <4>1
      <4>3. g[i - 1] \in {0, 1}
        BY <1>1, <4>1
      <4>4. <<i - 1, g[i - 1]>> \in S <=> x[i - 1] + y[i - 1] + g[i - 1] >= Radix
        BY <4>1, <4>3
      <4> QED BY <3>2, <4>1, <4>2, <4>4
    <3> QED BY <3>1, <3>2
  <2> QED BY <2>1
<1>3. c = CHOOSE f : f = up(f)
  BY DEF Carries
<1>4. c = up(c)
  BY <1>2, <1>3
<1> HIDE DEF c
<1>5. \A i \in 0..Words : c[i] = IF i = 0 THEN 0
                        ELSE IF x[i - 1] + y[i - 1] + c[i - 1] >= Radix THEN 1 ELSE 0
  BY <1>4
<1>6. c \in [0..Words -> {0, 1}] /\ c[0] = 0
  <2>1. DOMAIN c = 0..Words /\ c = [i \in 0..Words |-> c[i]]
    BY <1>4
  <2>2. \A i \in 0..Words : c[i] \in {0, 1}
    BY <1>5, Zenon
  <2>3. 0 \in 0..Words
    BY RadixIs
  <2>4. c[0] = 0
    BY <1>5, <2>3
  <2> QED BY <2>1, <2>2, <2>4
<1>7. ASSUME NEW i \in 0..Words-1
      PROVE  c[i + 1] = IF x[i] + y[i] + c[i] >= Radix THEN 1 ELSE 0
  <2>1. i + 1 \in 0..Words /\ i + 1 # 0 /\ (i + 1) - 1 = i
    BY RadixIs
  <2> QED BY <1>5, <2>1
<1> QED BY <1>6, <1>7 DEF c

\* The borrow out of every word of a difference.
LEMMA BorrowsAre ==
  ASSUME NEW x, NEW y
  PROVE  /\ Borrows(x, y) \in [0..Words -> {0, 1}] /\ Borrows(x, y)[0] = 0
         /\ \A i \in 0..Words-1 : Borrows(x, y)[i + 1] =
              IF x[i] - y[i] - Borrows(x, y)[i] < 0 THEN 1 ELSE 0
<1> DEFINE S == {d \in (0..Words-1) \X {0, 1} : x[d[1]] - y[d[1]] - d[2] < 0}
           c == Borrows(x, y)
           up(f) == [i \in 0..Words |-> IF i = 0 THEN 0
                      ELSE IF x[i - 1] - y[i - 1] - f[i - 1] < 0 THEN 1 ELSE 0]
<1>1. PICK g \in [0..Words -> {0, 1}] :
        g[0] = 0 /\ \A i \in 0..Words-1 : g[i + 1] = IF <<i, g[i]>> \in S THEN 1 ELSE 0
  BY BitsExist
<1>2. g = up(g)
  <2>1. ASSUME NEW i \in 0..Words
        PROVE  g[i] = IF i = 0 THEN 0 ELSE IF x[i - 1] - y[i - 1] - g[i - 1] < 0 THEN 1 ELSE 0
    <3>1. CASE i = 0
      BY <1>1, <3>1
    <3>2. CASE i # 0
      <4>1. i - 1 \in 0..Words-1 /\ (i - 1) + 1 = i /\ i - 1 \in 0..Words
        BY <3>2, RadixIs
      <4>2. g[(i - 1) + 1] = IF <<i - 1, g[i - 1]>> \in S THEN 1 ELSE 0
        BY <1>1, <4>1
      <4>3. g[i - 1] \in {0, 1}
        BY <1>1, <4>1
      <4>4. <<i - 1, g[i - 1]>> \in S <=> x[i - 1] - y[i - 1] - g[i - 1] < 0
        BY <4>1, <4>3
      <4> QED BY <3>2, <4>1, <4>2, <4>4
    <3> QED BY <3>1, <3>2
  <2> QED BY <2>1
<1>3. c = CHOOSE f : f = up(f)
  BY DEF Borrows
<1>4. c = up(c)
  BY <1>2, <1>3
<1> HIDE DEF c
<1>5. \A i \in 0..Words : c[i] = IF i = 0 THEN 0
                        ELSE IF x[i - 1] - y[i - 1] - c[i - 1] < 0 THEN 1 ELSE 0
  BY <1>4
<1>6. c \in [0..Words -> {0, 1}] /\ c[0] = 0
  <2>1. DOMAIN c = 0..Words /\ c = [i \in 0..Words |-> c[i]]
    BY <1>4
  <2>2. \A i \in 0..Words : c[i] \in {0, 1}
    BY <1>5, Zenon
  <2>3. 0 \in 0..Words
    BY RadixIs
  <2>4. c[0] = 0
    BY <1>5, <2>3
  <2> QED BY <2>1, <2>2, <2>4
<1>7. ASSUME NEW i \in 0..Words-1
      PROVE  c[i + 1] = IF x[i] - y[i] - c[i] < 0 THEN 1 ELSE 0
  <2>1. i + 1 \in 0..Words /\ i + 1 # 0 /\ (i + 1) - 1 = i
    BY RadixIs
  <2> QED BY <1>5, <2>1
<1> QED BY <1>6, <1>7 DEF c

\* One word more on both sides, with the carry of the word.
LEMMA OneWordMore ==
  ASSUME NEW f \in Nat, NEW g \in Nat, NEW h \in Nat, NEW x \in Nat, NEW y \in Nat, NEW w \in Nat,
         NEW q \in Nat, NEW b \in Nat, NEW c \in Nat, NEW d \in Nat,
         f + g = h + c * q, x + y + c = w + d * b
  PROVE  (f + x * q) + (g + y * q) = (h + w * q) + d * (b * q)
<1>1. (x + y + c) * q = (w + d * b) * q
  OBVIOUS
<1>2. (x + y + c) * q = x * q + y * q + c * q
  OBVIOUS
<1>3. (w + d * b) * q = w * q + (d * b) * q /\ (d * b) * q = d * (b * q)
  OBVIOUS
<1> DEFINE xq == x * q  yq == y * q  cq == c * q  wq == w * q  dq == d * (b * q)
<1>4. xq \in Nat /\ yq \in Nat /\ cq \in Nat /\ wq \in Nat /\ dq \in Nat
  OBVIOUS
<1>5. xq + yq + cq = wq + dq /\ f + g = h + cq
  BY <1>1, <1>2, <1>3
<1> HIDE DEF xq, yq, cq, wq, dq
<1>6. (f + xq) + (g + yq) = (h + wq) + dq
  BY <1>4, <1>5
<1> QED BY <1>6 DEF xq, yq, wq, dq

\* bn_add adds, if the sum fits.
LEMMA AddAdds ==
  ASSUME NEW x \in Nums, NEW y \in Nums, Val(x) + Val(y) < Pow(Radix, Words)
  PROVE  bn_add(x, y) \in Nums /\ Val(bn_add(x, y)) = Val(x) + Val(y)
<1> DEFINE c == Carries(x, y)  w == bn_add(x, y)  f == ValUp(x)  g == ValUp(y)  h == ValUp(w)
<1>1. /\ c \in [0..Words -> {0, 1}] /\ c[0] = 0
      /\ \A i \in 0..Words-1 : c[i + 1] = IF x[i] + y[i] + c[i] >= Radix THEN 1 ELSE 0
  BY CarriesAre
<1>2. \A i \in Index : w[i] = (x[i] + y[i] + c[i]) % Radix
  BY DEF bn_add
<1>3. Words \in Nat /\ Radix \in Nat \ {0}
  BY RadixIs
<1>4. ASSUME NEW i \in 0..Words-1
      PROVE  w[i] \in 0..Radix-1 /\ x[i] + y[i] + c[i] = w[i] + c[i + 1] * Radix
             /\ c[i] \in {0, 1} /\ c[i + 1] \in {0, 1}
  <2>1. x[i] \in 0..Radix-1 /\ y[i] \in 0..Radix-1 /\ i \in Index
    BY DigitIs
  <2>2. c[i] \in {0, 1} /\ c[i + 1] \in {0, 1}
    BY <1>1, <1>3
  <2> DEFINE t == x[i] + y[i] + c[i]
  <2>3. t \in 0..2*Radix-1
    BY <1>3, <2>1, <2>2
  <2>4. w[i] = t % Radix /\ c[i + 1] = IF t >= Radix THEN 1 ELSE 0
    BY <1>1, <1>2, <2>1
  <2> HIDE DEF t
  <2>5. CASE t < Radix
    <3>1. t % Radix = t
      BY <1>3, <2>3, <2>5
    <3> QED BY <1>3, <2>2, <2>3, <2>4, <2>5, <3>1 DEF t
  <2>6. CASE t >= Radix
    <3>1. Splits(t, Radix, 1, t - Radix)
      BY <1>3, <2>3, <2>6 DEF Splits
    <3>2. t % Radix = t - Radix
      BY <3>1, RemainderOnly
    <3> QED BY <1>3, <2>2, <2>3, <2>4, <2>6, <3>2 DEF t
  <2> QED BY <1>3, <2>3, <2>5, <2>6
<1>5. w \in Nums
  BY <1>4 DEF bn_add, Nums, Index
<1>6. /\ f \in [0..Words -> Nat] /\ f[0] = 0 /\ Val(x) = f[Words]
      /\ \A i \in 0..Words-1 : f[i + 1] = f[i] + x[i] * Pow(Radix, i)
  BY ValFollows
<1>7. /\ g \in [0..Words -> Nat] /\ g[0] = 0 /\ Val(y) = g[Words]
      /\ \A i \in 0..Words-1 : g[i + 1] = g[i] + y[i] * Pow(Radix, i)
  BY ValFollows
<1>8. /\ h \in [0..Words -> Nat] /\ h[0] = 0 /\ Val(w) = h[Words]
      /\ \A i \in 0..Words-1 : h[i + 1] = h[i] + w[i] * Pow(Radix, i)
  BY <1>5, ValFollows
<1> HIDE DEF c, w, f, g, h
<1> DEFINE T == {i \in 0..Words : f[i] + g[i] = h[i] + c[i] * Pow(Radix, i)}
<1>9. 0 \in T
  BY <1>1, <1>3, <1>6, <1>7, <1>8, RadixIs
<1>10. ASSUME NEW i \in 0..Words-1, i \in T PROVE i + 1 \in T
  <2> DEFINE q == Pow(Radix, i)
  <2>1. q \in Nat /\ Pow(Radix, i + 1) = Radix * q
    BY DigitIs, RadixIs
  <2>2. x[i] \in Nat /\ y[i] \in Nat /\ w[i] \in Nat /\ i + 1 \in 0..Words
    BY <1>5, DigitIs
  <2>3. f[i] \in Nat /\ g[i] \in Nat /\ h[i] \in Nat
    <3>1. i \in 0..Words
      BY <1>3
    <3>2. f \in [0..Words -> Nat] /\ g \in [0..Words -> Nat] /\ h \in [0..Words -> Nat]
      BY <1>6, <1>7, <1>8, Zenon
    <3> QED BY <3>1, <3>2
  <2>4. f[i] + g[i] = h[i] + c[i] * q
    BY <1>10
  <2>5. f[i + 1] = f[i] + x[i] * q
    BY <1>6
  <2>6. g[i + 1] = g[i] + y[i] * q
    BY <1>7
  <2>7. h[i + 1] = h[i] + w[i] * q
    BY <1>8
  <2> HIDE DEF q
  <2>8. c[i] \in Nat /\ c[i + 1] \in Nat /\ x[i] + y[i] + c[i] = w[i] + c[i + 1] * Radix
    BY <1>4
  <2>9. (f[i] + x[i] * q) + (g[i] + y[i] * q) = (h[i] + w[i] * q) + c[i + 1] * (Radix * q)
    <3> DEFINE fi == f[i]  gi == g[i]  hi == h[i]  xi == x[i]  yi == y[i]  wi == w[i]
               ci == c[i]  di == c[i + 1]
    <3>1. /\ fi \in Nat /\ gi \in Nat /\ hi \in Nat /\ xi \in Nat /\ yi \in Nat /\ wi \in Nat
          /\ ci \in Nat /\ di \in Nat /\ q \in Nat /\ Radix \in Nat
      BY <1>3, <2>1, <2>2, <2>3, <2>8
    <3>2. fi + gi = hi + ci * q /\ xi + yi + ci = wi + di * Radix
      BY <2>4, <2>8
    <3> HIDE DEF fi, gi, hi, xi, yi, wi, ci, di
    <3>3. (fi + xi * q) + (gi + yi * q) = (hi + wi * q) + di * (Radix * q)
      BY <3>1, <3>2, OneWordMore
    <3> QED BY <3>3 DEF fi, gi, hi, xi, yi, wi, di
  <2>10. f[i + 1] + g[i + 1] = h[i + 1] + c[i + 1] * Pow(Radix, i + 1)
    BY <2>1, <2>5, <2>6, <2>7, <2>9
  <2> QED BY <2>2, <2>10
<1> HIDE DEF T
<1>11. Words \in T
  BY <1>3, <1>9, <1>10, UpTo
<1>12. f[Words] + g[Words] = h[Words] + c[Words] * Pow(Radix, Words)
  BY <1>11 DEF T
<1>13. c[Words] = 0
  <2>1. c[Words] \in {0, 1} /\ h[Words] \in Nat /\ Pow(Radix, Words) \in Nat
    BY <1>1, <1>3, <1>8, RadixIs
  <2> QED BY <1>6, <1>7, <1>12, <2>1
<1>14. Val(w) = Val(x) + Val(y)
  <2>1. h[Words] \in Nat /\ f[Words] + g[Words] = h[Words] + 0 * Pow(Radix, Words)
        /\ Pow(Radix, Words) \in Nat
    BY <1>3, <1>8, <1>12, <1>13, RadixIs
  <2> QED BY <1>6, <1>7, <1>8, <2>1
<1> QED BY <1>5, <1>14 DEF w

\* The remainder of something negative.
LEMMA NegRemainder ==
  ASSUME NEW w \in Nat \ {0}, NEW t \in Int, -w <= t, t < 0
  PROVE  t % w = t + w
<1>1. t % w \in 0..w-1 /\ t \div w \in Int /\ t = w * (t \div w) + (t % w)
  OBVIOUS
<1> DEFINE e == t \div w  m == t % w
<1> HIDE DEF e, m
<1>2. m \in 0..w-1 /\ e \in Int /\ t = w * e + m
  BY <1>1 DEF e, m
<1>3. CASE e >= 0
  <2>1. w * e >= 0
    BY <1>2, <1>3
  <2> QED BY <1>2, <2>1
<1>4. CASE e = -1
  BY <1>2, <1>4 DEF m
<1>5. CASE e < -1
  <2> DEFINE d == -e - 2
  <2>1. d \in Nat /\ e = -d - 2
    BY <1>2, <1>5
  <2> HIDE DEF d
  <2>2. w * d \in Nat /\ w * e = -(w * d) - 2 * w
    BY <2>1
  <2> QED BY <1>2, <2>2
<1> QED BY <1>2, <1>3, <1>4, <1>5

\* Subtract subtracts a number that is not greater.
LEMMA SubtractSubtracts ==
  ASSUME NEW x \in Nums, NEW y \in Nums, Val(x) >= Val(y)
  PROVE  Subtract(x, y) \in Nums /\ Val(Subtract(x, y)) = Val(x) - Val(y)
<1> DEFINE c == Borrows(x, y)  w == Subtract(x, y)  f == ValUp(w)  g == ValUp(y)  h == ValUp(x)
<1>1. /\ c \in [0..Words -> {0, 1}] /\ c[0] = 0
      /\ \A i \in 0..Words-1 : c[i + 1] = IF x[i] - y[i] - c[i] < 0 THEN 1 ELSE 0
  BY BorrowsAre
<1>2. \A i \in Index : w[i] = (x[i] - y[i] - c[i]) % Radix
  BY DEF Subtract
<1>3. Words \in Nat /\ Radix \in Nat \ {0}
  BY RadixIs
<1>4. ASSUME NEW i \in 0..Words-1
      PROVE  w[i] \in 0..Radix-1 /\ w[i] + y[i] + c[i] = x[i] + c[i + 1] * Radix
             /\ c[i] \in {0, 1} /\ c[i + 1] \in {0, 1}
  <2>1. x[i] \in 0..Radix-1 /\ y[i] \in 0..Radix-1 /\ i \in Index
    BY DigitIs
  <2>2. c[i] \in {0, 1} /\ c[i + 1] \in {0, 1}
    BY <1>1, <1>3
  <2> DEFINE t == x[i] - y[i] - c[i]
  <2>3. t \in Int /\ -Radix <= t /\ t < Radix
    BY <1>3, <2>1, <2>2
  <2>4. w[i] = t % Radix /\ c[i + 1] = IF t < 0 THEN 1 ELSE 0
    BY <1>1, <1>2, <2>1
  <2> HIDE DEF t
  <2>5. CASE t >= 0
    <3>1. Splits(t, Radix, 0, t)
      BY <1>3, <2>3, <2>5 DEF Splits
    <3>2. t % Radix = t
      BY <3>1, RemainderOnly
    <3>3. w[i] = t /\ c[i + 1] = 0 /\ 0 * Radix = 0
      BY <1>3, <2>3, <2>4, <2>5, <3>2
    <3> QED BY <1>3, <2>1, <2>2, <2>3, <2>5, <3>3 DEF t
  <2>6. CASE t < 0
    <3>1. t % Radix = t + Radix
      BY <1>3, <2>3, <2>6, NegRemainder
    <3> QED BY <1>3, <2>1, <2>2, <2>3, <2>4, <2>6, <3>1 DEF t
  <2> QED BY <1>3, <2>3, <2>5, <2>6
<1>5. w \in Nums
  BY <1>4 DEF Subtract, Nums, Index
<1>6. /\ f \in [0..Words -> Nat] /\ f[0] = 0 /\ Val(w) = f[Words]
      /\ \A i \in 0..Words-1 : f[i + 1] = f[i] + w[i] * Pow(Radix, i)
  BY <1>5, ValFollows
<1>7. /\ g \in [0..Words -> Nat] /\ g[0] = 0 /\ Val(y) = g[Words]
      /\ \A i \in 0..Words-1 : g[i + 1] = g[i] + y[i] * Pow(Radix, i)
  BY ValFollows
<1>8. /\ h \in [0..Words -> Nat] /\ h[0] = 0 /\ Val(x) = h[Words]
      /\ \A i \in 0..Words-1 : h[i + 1] = h[i] + x[i] * Pow(Radix, i)
  BY ValFollows
<1> HIDE DEF c, w, f, g, h
<1> DEFINE T == {i \in 0..Words : f[i] + g[i] = h[i] + c[i] * Pow(Radix, i)}
<1>9. 0 \in T
  BY <1>1, <1>3, <1>6, <1>7, <1>8, RadixIs
<1>10. ASSUME NEW i \in 0..Words-1, i \in T PROVE i + 1 \in T
  <2> DEFINE q == Pow(Radix, i)
  <2>1. q \in Nat /\ Pow(Radix, i + 1) = Radix * q
    BY DigitIs, RadixIs
  <2>2. x[i] \in Nat /\ y[i] \in Nat /\ w[i] \in Nat /\ i + 1 \in 0..Words
    BY <1>5, DigitIs
  <2>3. f[i] \in Nat /\ g[i] \in Nat /\ h[i] \in Nat
    <3>1. i \in 0..Words
      BY <1>3
    <3>2. f \in [0..Words -> Nat] /\ g \in [0..Words -> Nat] /\ h \in [0..Words -> Nat]
      BY <1>6, <1>7, <1>8, Zenon
    <3> QED BY <3>1, <3>2
  <2>4. f[i] + g[i] = h[i] + c[i] * q
    BY <1>10
  <2>5. f[i + 1] = f[i] + w[i] * q
    BY <1>6
  <2>6. g[i + 1] = g[i] + y[i] * q
    BY <1>7
  <2>7. h[i + 1] = h[i] + x[i] * q
    BY <1>8
  <2> HIDE DEF q
  <2>8. c[i] \in Nat /\ c[i + 1] \in Nat /\ w[i] + y[i] + c[i] = x[i] + c[i + 1] * Radix
    BY <1>4
  <2>9. (f[i] + w[i] * q) + (g[i] + y[i] * q) = (h[i] + x[i] * q) + c[i + 1] * (Radix * q)
    <3> DEFINE fi == f[i]  gi == g[i]  hi == h[i]  xi == x[i]  yi == y[i]  wi == w[i]
               ci == c[i]  di == c[i + 1]
    <3>1. /\ fi \in Nat /\ gi \in Nat /\ hi \in Nat /\ xi \in Nat /\ yi \in Nat /\ wi \in Nat
          /\ ci \in Nat /\ di \in Nat /\ q \in Nat /\ Radix \in Nat
      BY <1>3, <2>1, <2>2, <2>3, <2>8
    <3>2. fi + gi = hi + ci * q /\ wi + yi + ci = xi + di * Radix
      BY <2>4, <2>8
    <3> HIDE DEF fi, gi, hi, xi, yi, wi, ci, di
    <3>3. (fi + wi * q) + (gi + yi * q) = (hi + xi * q) + di * (Radix * q)
      BY <3>1, <3>2, OneWordMore
    <3> QED BY <3>3 DEF fi, gi, hi, xi, yi, wi, di
  <2>10. f[i + 1] + g[i + 1] = h[i + 1] + c[i + 1] * Pow(Radix, i + 1)
    BY <2>1, <2>5, <2>6, <2>7, <2>9
  <2> QED BY <2>2, <2>10
<1> HIDE DEF T
<1>11. Words \in T
  BY <1>3, <1>9, <1>10, UpTo
<1>12. f[Words] + g[Words] = h[Words] + c[Words] * Pow(Radix, Words)
  BY <1>11 DEF T
<1>13. c[Words] = 0
  <2>1. f[Words] \in 0..Pow(Radix, Words)-1 /\ Words \in 0..Words
    BY <1>3, <1>5, ValBelow DEF f
  <2>2. c[Words] \in {0, 1} /\ h[Words] \in Nat /\ g[Words] \in Nat /\ Pow(Radix, Words) \in Nat
        /\ h[Words] >= g[Words]
    BY <1>1, <1>3, <1>7, <1>8, RadixIs
  <2> QED BY <1>12, <2>1, <2>2
<1>14. Val(w) = Val(x) - Val(y)
  <2>1. h[Words] \in Nat /\ g[Words] \in Nat /\ f[Words] \in Nat /\ Pow(Radix, Words) \in Nat
    BY <1>3, <1>6, <1>7, <1>8, RadixIs
  <2>2. f[Words] + g[Words] = h[Words] + 0 * Pow(Radix, Words)
    BY <1>12, <1>13
  <2>3. f[Words] = h[Words] - g[Words]
    BY <2>1, <2>2
  <2> QED BY <1>6, <1>7, <1>8, <2>3
<1> QED BY <1>5, <1>14 DEF w

-----------------------------------------------------------------------------
\* The rests while m is subtracted.
RestUp(x, m) ==
  CHOOSE f : f = [t \in 0..Pow(Radix, Words) |->
                   IF t = 0 THEN x
                   ELSE LET v == f[t - 1] IN IF bn_cmp(v, m) >= 0 THEN Subtract(v, m) ELSE v]

\* They are numbers, each the one before, less m where that fits.
LEMMA RestsFollow ==
  ASSUME NEW x \in Nums, NEW m \in Nums
  PROVE  /\ RestUp(x, m) \in [0..Pow(Radix, Words) -> Nums] /\ RestUp(x, m)[0] = x
         /\ \A t \in 0..Pow(Radix, Words)-1 :
              RestUp(x, m)[t + 1] = IF bn_cmp(RestUp(x, m)[t], m) >= 0
                                    THEN Subtract(RestUp(x, m)[t], m) ELSE RestUp(x, m)[t]
<1> DEFINE N == Pow(Radix, Words)
           once(v) == IF bn_cmp(v, m) >= 0 THEN Subtract(v, m) ELSE v
           step == [t \in 0..N-1 |-> [v \in Nums |-> once(v)]]
           up(f) == [t \in 0..N |-> IF t = 0 THEN x ELSE once(f[t - 1])]
<1>0. N \in Nat
  BY RadixIs
<1>1. \A v \in Nums : once(v) \in Nums
  <2> TAKE v \in Nums
  <2>1. CASE bn_cmp(v, m) >= 0
    <3>1. Val(v) >= Val(m)
      <4>1. Val(v) \in Int /\ Val(m) \in Int
        BY ValRange, RadixIs
      <4> QED BY <2>1, <4>1, CmpCompares
    <3>2. Subtract(v, m) \in Nums
      BY <3>1, SubtractSubtracts
    <3> QED BY <2>1, <3>2
  <2>2. CASE ~(bn_cmp(v, m) >= 0)
    BY <2>2
  <2> QED BY <2>1, <2>2
<1> HIDE DEF N, once
<1>2. step \in [0..N-1 -> [Nums -> Nums]]
  BY <1>1
<1>3. \A t \in 0..N-1 : \A v \in Nums : step[t][v] = once(v)
  OBVIOUS
<1> HIDE DEF step
<1>4. PICK g \in [0..N -> Nums] : Iterates(g, N, x, step)
  BY <1>0, <1>2, Recursion
<1>5. g[0] = x /\ \A t \in 0..N-1 : g[t + 1] = once(g[t])
  <2>1. g[0] = x /\ \A t \in 0..N-1 : g[t + 1] = step[t][g[t]]
    BY <1>4 DEF Iterates
  <2>2. \A t \in 0..N-1 : g[t] \in Nums
    BY <1>0, <1>4
  <2> QED BY <1>3, <2>1, <2>2
<1>6. g = up(g)
  <2>1. ASSUME NEW t \in 0..N PROVE g[t] = IF t = 0 THEN x ELSE once(g[t - 1])
    <3>1. CASE t = 0
      BY <1>5, <3>1
    <3>2. CASE t # 0
      <4>1. t - 1 \in 0..N-1 /\ (t - 1) + 1 = t
        BY <3>2, <1>0
      <4>2. g[(t - 1) + 1] = once(g[t - 1])
        BY <1>5, <4>1
      <4> QED BY <3>2, <4>1, <4>2
    <3> QED BY <3>1, <3>2
  <2> QED BY <2>1
<1> DEFINE c == RestUp(x, m)
<1>7. c = up(c)
  <2>1. c = CHOOSE f : f = up(f)
    BY DEF RestUp, N, once
  <2> QED BY <1>6, <2>1
<1> HIDE DEF c
<1>8. c[0] = x /\ \A t \in 0..N-1 : c[t + 1] = once(c[t])
  <2>1. 0 \in 0..N
    BY <1>0
  <2>2. ASSUME NEW t \in 0..N-1 PROVE c[t + 1] = once(c[t])
    <3>1. t + 1 \in 0..N /\ t + 1 # 0 /\ (t + 1) - 1 = t
      BY <1>0
    <3>2. c[t + 1] = IF t + 1 = 0 THEN x ELSE once(c[(t + 1) - 1])
      BY <1>7, <3>1
    <3> QED BY <3>1, <3>2
  <2>3. c[0] = x
    BY <1>7, <2>1
  <2> QED BY <2>2, <2>3
<1>9. \A t \in 0..N : c[t] \in Nums
  <2> DEFINE T == {t \in 0..N : c[t] \in Nums}
  <2>1. 0 \in T
    BY <1>0, <1>8
  <2>2. ASSUME NEW t \in 0..N-1, t \in T PROVE t + 1 \in T
    <3>1. t + 1 \in 0..N
      BY <1>0
    <3> QED BY <1>1, <1>8, <2>2, <3>1
  <2> HIDE DEF T
  <2>3. 0..N \subseteq T
    BY <1>0, <2>1, <2>2, UpTo
  <2> QED BY <2>3 DEF T
<1>10. c \in [0..N -> Nums]
  <2>1. DOMAIN c = 0..N /\ c = [t \in 0..N |-> c[t]]
    BY <1>7
  <2> QED BY <1>9, <2>1
<1> QED BY <1>8, <1>10 DEF c, N, once

\* bn_modulo leaves the remainder.
THEOREM ModuloReduces ==
  ASSUME NEW x \in Nums, NEW m \in Nums, Val(m) # 0
  PROVE  bn_modulo(x, m) \in Nums /\ Val(bn_modulo(x, m)) = Val(x) % Val(m)
<1> DEFINE N == Pow(Radix, Words)
           c == RestUp(x, m)
           mv == Val(m)
           xv == Val(x)
<1>1. N \in Nat \ {0} /\ mv \in Nat \ {0} /\ mv < N /\ xv \in Nat /\ xv < N
  <2>1. mv \in 0..N-1 /\ xv \in 0..N-1 /\ mv # 0
    BY ValRange
  <2>2. N \in Nat \ {0}
    BY RadixIs
  <2> HIDE DEF N, mv, xv
  <2> QED BY <2>1, <2>2
<1>2. /\ c \in [0..N -> Nums] /\ c[0] = x
      /\ \A t \in 0..N-1 : c[t + 1] = IF bn_cmp(c[t], m) >= 0 THEN Subtract(c[t], m) ELSE c[t]
  BY RestsFollow
<1> HIDE DEF c
<1>3. \A t \in 0..N : /\ Val(c[t]) \in Nat
                      /\ bn_cmp(c[t], m) \in Int
                      /\ bn_cmp(c[t], m) >= 0 <=> Val(c[t]) >= mv
                      /\ bn_cmp(c[t], m) < 0 <=> Val(c[t]) < mv
  <2> TAKE t \in 0..N
  <2>1. c[t] \in Nums
    BY <1>2
  <2>2. Val(c[t]) \in 0..N-1
    BY <2>1, ValRange
  <2>3. bn_cmp(c[t], m) = IF Val(c[t]) < mv THEN -1 ELSE IF Val(c[t]) = mv THEN 0 ELSE 1
    BY <2>1, CmpCompares
  <2> HIDE DEF N, mv
  <2> QED BY <1>1, <2>2, <2>3
<1>4. \A t \in 0..N-1 : Val(c[t]) >= mv => Val(c[t + 1]) = Val(c[t]) - mv
  <2> SUFFICES ASSUME NEW t \in 0..N-1, Val(c[t]) >= mv PROVE Val(c[t + 1]) = Val(c[t]) - mv
    OBVIOUS
  <2>1. t \in 0..N
    BY <1>1
  <2>2. c[t + 1] = Subtract(c[t], m) /\ c[t] \in Nums
    BY <1>2, <1>3, <2>1
  <2> QED BY <2>2, SubtractSubtracts
<1>5. xv = Val(c[0])
  BY <1>2
<1> HIDE DEF N, mv, xv
<1> DEFINE Above(t) == \A u \in 0..t-1 : Val(c[u]) >= mv
           T == {t \in 0..N : Above(t) => Val(c[t]) = xv - t * mv}
<1>6. 0 \in T
  <2>1. 0 \in 0..N /\ xv = xv - 0 * mv
    BY <1>1
  <2> QED BY <1>5, <2>1
<1>7. ASSUME NEW t \in 0..N-1, t \in T PROVE t + 1 \in T
  <2>1. t + 1 \in 0..N /\ t \in 0..N /\ t \in Nat
    BY <1>1
  <2>2. ASSUME Above(t + 1) PROVE Val(c[t + 1]) = xv - (t + 1) * mv
    <3>1. Above(t) /\ Val(c[t]) >= mv
      BY <2>1, <2>2
    <3>2. Val(c[t]) = xv - t * mv
      BY <1>7, <3>1
    <3>3. Val(c[t + 1]) = Val(c[t]) - mv
      BY <1>4, <3>1
    <3>4. (t + 1) * mv = t * mv + mv /\ t * mv \in Nat
      BY <1>1, <2>1
    <3> QED BY <1>1, <3>2, <3>3, <3>4
  <2> QED BY <2>1, <2>2
<1>8. \A t \in 0..N : Above(t) => Val(c[t]) = xv - t * mv
  <2>1. 0..N \subseteq T
    <3> HIDE DEF T
    <3> QED BY <1>1, <1>6, <1>7, UpTo
  <2> QED BY <2>1
<1>9. PICK t \in 0..N : Val(c[t]) < mv /\ \A u \in 0..t-1 : Val(c[u]) >= mv
  <2> DEFINE D == {n \in 0..N : Val(c[n]) < mv}
  <2>1. D # {}
    <3> SUFFICES ASSUME D = {} PROVE FALSE
      OBVIOUS
    <3>1. \A t \in 0..N : Val(c[t]) >= mv
      BY <1>1, <1>3
    <3>2. N \in 0..N /\ 0..N-1 \subseteq 0..N
      BY <1>1
    <3>3. Above(N)
      BY <3>1, <3>2
    <3>4. Val(c[N]) = xv - N * mv
      BY <1>8, <3>2, <3>3
    <3>5. N * mv >= N
      <4> DEFINE d == mv - 1
      <4>1. d \in Nat /\ mv = d + 1
        BY <1>1
      <4> HIDE DEF d
      <4>2. N * mv = N * d + N /\ N * d \in Nat
        BY <1>1, <4>1
      <4> QED BY <1>1, <4>2
    <3>6. Val(c[N]) >= 0
      BY <1>3, <3>2
    <3>7. N * mv \in Nat
      BY <1>1
    <3> QED BY <1>1, <3>4, <3>5, <3>6, <3>7
  <2>0. D \in SUBSET Nat
    BY <1>1
  <2>2. PICK t \in D : \A u \in D : t <= u
    <3> HIDE DEF D
    <3> QED BY <2>0, <2>1, Least
  <2>3. t \in 0..N /\ Val(c[t]) < mv
    BY <2>2
  <2>4. ASSUME NEW u \in 0..t-1 PROVE Val(c[u]) >= mv
    <3>1. u \in 0..N /\ u < t
      BY <1>1, <2>3
    <3>2. u \notin D
      BY <2>2, <2>3, <3>1
    <3>3. ~(Val(c[u]) < mv)
      BY <3>1, <3>2
    <3> QED BY <1>1, <1>3, <3>1, <3>3
  <2> QED BY <2>3, <2>4
<1> DEFINE turns == CHOOSE n \in 0..N : /\ bn_cmp(c[n], m) < 0
                                        /\ \A u \in 0..(n - 1) : bn_cmp(c[u], m) >= 0
<1>10. /\ turns \in 0..N /\ bn_cmp(c[turns], m) < 0
       /\ \A u \in 0..(turns - 1) : bn_cmp(c[u], m) >= 0
  <2>1. \A u \in 0..(t - 1) : u \in 0..N
    BY <1>1
  <2>2. bn_cmp(c[t], m) < 0 /\ \A u \in 0..(t - 1) : bn_cmp(c[u], m) >= 0
    BY <1>3, <1>9, <2>1
  <2> QED BY <2>2
<1>11. bn_modulo(x, m) = c[turns]
  BY DEF bn_modulo, c, RestUp, N
<1> HIDE DEF turns
<1>12. Val(c[turns]) < mv /\ Above(turns)
  <2>1. \A u \in 0..(turns - 1) : u \in 0..N
    BY <1>1, <1>10
  <2> QED BY <1>3, <1>10, <2>1
<1>13. Val(c[turns]) = xv - turns * mv
  BY <1>8, <1>10, <1>12
<1>14. Splits(xv, mv, turns, Val(c[turns]))
  <2> DEFINE v == Val(c[turns])
  <2>1. v \in Nat /\ turns \in Nat /\ v < mv /\ v = xv - turns * mv
    BY <1>3, <1>10, <1>12, <1>13, <1>1
  <2> HIDE DEF v
  <2>2. turns * mv = mv * turns /\ mv * turns \in Nat
    BY <1>1, <2>1
  <2>3. Splits(xv, mv, turns, v)
    BY <1>1, <2>1, <2>2 DEF Splits
  <2> QED BY <2>3 DEF v
<1>15. xv % mv = Val(c[turns])
  BY <1>14, RemainderOnly
<1> QED BY <1>2, <1>10, <1>11, <1>15 DEF xv, mv

\* The remainder of a sum that fits.
THEOREM AddModAdds ==
  ASSUME NEW x \in Nums, NEW y \in Nums, NEW m \in Nums, Val(m) # 0,
         Val(x) + Val(y) < Pow(Radix, Words)
  PROVE  /\ bn_addmod(x, y, m) \in Nums
         /\ Val(bn_addmod(x, y, m)) = (Val(x) + Val(y)) % Val(m)
BY AddAdds, ModuloReduces DEF bn_addmod

-----------------------------------------------------------------------------
(***************************************************************************)
(* Signatures, for all curves that are groups, all keys and messages.      *)
(***************************************************************************)
\* Numbers a multiple of w apart have the same remainder.
LEMMA Congruent ==
  ASSUME NEW w \in Nat \ {0}, NEW x \in Nat, NEW y \in Nat, NEW n \in Nat, x = w * n + y
  PROVE  x % w = y % w
<1> DEFINE e == y \div w  u == y % w
<1>1. u \in 0..w-1 /\ e \in Nat /\ y = w * e + u
  BY Remainder
<1> HIDE DEF e, u
<1>2. x = w * (n + e) + u /\ n + e \in Nat
  <2>1. w * (n + e) = w * n + w * e
    BY <1>1
  <2>2. w * n \in Nat /\ w * e \in Nat
    BY <1>1
  <2> QED BY <1>1, <2>1, <2>2
<1>3. Splits(x, w, n + e, u)
  BY <1>1, <1>2 DEF Splits
<1> QED BY <1>3, RemainderOnly DEF u

\* A factor may be replaced by its remainder.
LEMMA ModFactor ==
  ASSUME NEW w \in Nat \ {0}, NEW x \in Nat, NEW y \in Nat
  PROVE  (x * y) % w = ((x % w) * y) % w
<1> DEFINE e == x \div w  u == x % w
<1>1. u \in 0..w-1 /\ e \in Nat /\ x = w * e + u
  BY Remainder
<1> HIDE DEF e, u
<1>2. x * y = w * (e * y) + u * y /\ e * y \in Nat /\ u * y \in Nat /\ x * y \in Nat
  <2>1. (w * e + u) * y = w * (e * y) + u * y
    BY <1>1
  <2> QED BY <1>1, <2>1
<1>3. (x * y) % w = (u * y) % w
  BY <1>2, Congruent
<1> QED BY <1>3 DEF u

\* And a summand by its own.
LEMMA ModSummand ==
  ASSUME NEW w \in Nat \ {0}, NEW x \in Nat, NEW y \in Nat
  PROVE  (x + y) % w = ((x % w) + y) % w
<1> DEFINE e == x \div w  u == x % w
<1>1. u \in 0..w-1 /\ e \in Nat /\ x = w * e + u
  BY Remainder
<1> HIDE DEF e, u
<1>2. x + y = w * e + (u + y) /\ u + y \in Nat /\ x + y \in Nat
  BY <1>1
<1>3. (x + y) % w = (u + y) % w
  BY <1>1, <1>2, Congruent
<1> QED BY <1>3 DEF u

\* Congruent factors give congruent products.
LEMMA ModProduct ==
  ASSUME NEW w \in Nat \ {0}, NEW x \in Nat, NEW y \in Nat, NEW n \in Nat, x % w = y % w
  PROVE  (x * n) % w = (y * n) % w
<1>1. (x * n) % w = ((x % w) * n) % w
  BY ModFactor
<1>2. (y * n) % w = ((y % w) * n) % w
  BY ModFactor
<1> QED BY <1>1, <1>2

\* What is below w is its own remainder.
LEMMA SmallRemainder ==
  ASSUME NEW w \in Nat \ {0}, NEW x \in 0..w-1
  PROVE  x % w = x
<1>1. Splits(x, w, 0, x)
  BY DEF Splits
<1> QED BY <1>1, RemainderOnly

\* The assumptions on the curve, as far as they are about its order.
LEMMA OrderIs == /\ Order \in Nat \ {0, 1} /\ Prime \in Nat /\ Order < Prime /\ 1 \in Nat
                 /\ G \in Point /\ OnCurve(G)
BY CurveAssumption, GroupAssumption

\* The inverse modulo the order.
LEMMA InverseIs ==
  ASSUME NEW v \in Nat, v % Order # 0
  PROVE  InvMod(v, Order) \in 1..Order-1 /\ (v * InvMod(v, Order)) % Order = 1
<1>1. v % Order \in 1..Order-1
  <2>1. v % Order \in 0..Order-1
    BY OrderIs, Remainder
  <2> QED BY <2>1, OrderIs
<1>2. PICK w \in 1..Order-1 : ((v % Order) * w) % Order = 1
  BY <1>1, GroupAssumption
<1>3. (v * w) % Order = 1
  <2>1. Order \in Nat \ {0} /\ w \in Nat
    BY OrderIs
  <2>2. (v * w) % Order = ((v % Order) * w) % Order
    BY <2>1, ModFactor
  <2> QED BY <1>2, <2>2
<1>4. InvMod(v, Order) = CHOOSE u \in 1..Order-1 : (v * u) % Order = 1
  BY DEF InvMod
<1> QED BY <1>2, <1>3, <1>4

\* The order is prime.
LEMMA NoZeroDivisors ==
  ASSUME NEW v \in Nat, NEW w \in Nat, v % Order # 0, w % Order # 0
  PROVE  (v * w) % Order # 0
<1> SUFFICES ASSUME (v * w) % Order = 0 PROVE FALSE
  OBVIOUS
<1> DEFINE e == InvMod(w, Order)
<1>1. e \in Nat /\ (w * e) % Order = 1
  BY InverseIs, OrderIs
<1> HIDE DEF e
<1>2. v * w \in Nat /\ w * e \in Nat /\ (v * w) * e = (w * e) * v
  BY <1>1
<1> DEFINE vw == v * w  we == w * e
<1>0. vw \in Nat /\ we \in Nat /\ Order \in Nat \ {0}
  BY <1>2, OrderIs
<1>3. (vw * e) % Order = ((vw % Order) * e) % Order
  <2> HIDE DEF vw
  <2> QED BY <1>0, <1>1, ModFactor
<1>4. (we * v) % Order = ((we % Order) * v) % Order
  <2> HIDE DEF we
  <2> QED BY <1>0, ModFactor
<1>5. vw % Order = 0 /\ we % Order = 1
  BY <1>1
<1>6. 0 * e = 0 /\ 1 * v = v /\ 0 % Order = 0
  <2>1. 0 % Order = 0
    BY OrderIs, SmallRemainder
  <2> QED BY <1>1, <2>1
<1>7. v % Order = 0
  BY <1>2, <1>3, <1>4, <1>5, <1>6
<1> QED BY <1>7

-----------------------------------------------------------------------------
\* The points of the curve, and the one at infinity.
LEMMA CurveIs ==
  /\ None \in Curve /\ None.inf = TRUE
  /\ \A pt \in Point : OnCurve(pt) => Affine(pt) \in Curve /\ Affine(pt) # None
  /\ \A c \in Curve : c.inf <=> c = None
  /\ \A c \in Curve \ {None} : /\ c = Affine(c) /\ c = Affine([x |-> c.x, y |-> c.y])
                               /\ [x |-> c.x, y |-> c.y] \in Point
                               /\ OnCurve([x |-> c.x, y |-> c.y])
  /\ \A c \in Curve : Sum(None, c) = c /\ Sum(c, None) = c
<1>1. None.inf = TRUE /\ None \in Curve
  BY DEF None, Curve
<1>2. \A pt : Affine(pt).inf = FALSE /\ Affine(pt) # None
  BY DEF Affine, None
<1>3. \A pt \in Point : OnCurve(pt) => Affine(pt) \in Curve
  BY DEF Curve
<1>4. ASSUME NEW c \in Curve, c # None
      PROVE  /\ c.inf = FALSE /\ c = Affine(c) /\ c = Affine([x |-> c.x, y |-> c.y])
             /\ [x |-> c.x, y |-> c.y] \in Point /\ OnCurve([x |-> c.x, y |-> c.y])
  <2>1. PICK pt \in Point : OnCurve(pt) /\ c = Affine(pt)
    BY <1>4 DEF Curve
  <2>2. c.x = pt.x /\ c.y = pt.y /\ c.inf = FALSE
    BY <2>1 DEF Affine
  <2>3. pt = [x |-> c.x, y |-> c.y]
    BY <2>2 DEF Point
  <2> QED BY <2>1, <2>2, <2>3 DEF Affine
<1>5. \A c \in Curve : Sum(None, c) = c
  BY <1>1 DEF Sum
<1>6. ASSUME NEW c \in Curve PROVE Sum(c, None) = c
  <2>1. CASE c = None
    BY <1>5, <1>6, <2>1
  <2>2. CASE c # None
    <3>1. c.inf = FALSE
      BY <1>4, <2>2
    <3> QED BY <1>1, <3>1 DEF Sum
  <2> QED BY <2>1, <2>2
<1> QED BY <1>1, <1>2, <1>3, <1>4, <1>5, <1>6

\* The multiples of a point up to the n-th.
MulUp(pt, n) == CHOOSE f : f = [i \in 0..n |-> IF i = 0 THEN None ELSE Sum(f[i - 1], Affine(pt))]

\* They are what Multiple is computed with.
LEMMA MulFollows ==
  ASSUME NEW pt \in Point, OnCurve(pt), NEW n \in Nat
  PROVE  /\ MulUp(pt, n) \in [0..n -> Curve] /\ Multiple(pt, n) = MulUp(pt, n)[n]
         /\ MulUp(pt, n)[0] = None
         /\ \A i \in 0..n-1 : MulUp(pt, n)[i + 1] = Sum(MulUp(pt, n)[i], Affine(pt))
<1> DEFINE step == [i \in 0..n-1 |-> [c \in Curve |-> Sum(c, Affine(pt))]]
<1>0. Affine(pt) \in Curve /\ None \in Curve
  BY CurveIs
<1>1. step \in [0..n-1 -> [Curve -> Curve]]
  BY <1>0, GroupAssumption
<1>2. \A i \in 0..n-1 : \A c \in Curve : step[i][c] = Sum(c, Affine(pt))
  OBVIOUS
<1> HIDE DEF step
<1>3. PICK g \in [0..n -> Curve] : Iterates(g, n, None, step)
  BY <1>0, <1>1, Recursion
<1>4. g[0] = None /\ \A i \in 0..n-1 : g[i + 1] = Sum(g[i], Affine(pt))
  <2>1. g[0] = None /\ \A i \in 0..n-1 : g[i + 1] = step[i][g[i]]
    BY <1>3 DEF Iterates
  <2>2. \A i \in 0..n-1 : g[i] \in Curve
    BY <1>3
  <2> QED BY <1>2, <2>1, <2>2
<1>5. g = [i \in 0..n |-> IF i = 0 THEN None ELSE Sum(g[i - 1], Affine(pt))]
  <2>1. ASSUME NEW i \in 0..n PROVE g[i] = IF i = 0 THEN None ELSE Sum(g[i - 1], Affine(pt))
    <3>1. CASE i = 0
      BY <1>4, <3>1
    <3>2. CASE i # 0
      <4>1. i - 1 \in 0..n-1 /\ (i - 1) + 1 = i
        BY <3>2
      <4>2. g[(i - 1) + 1] = Sum(g[i - 1], Affine(pt))
        BY <1>4, <4>1
      <4> QED BY <3>2, <4>1, <4>2
    <3> QED BY <3>1, <3>2
  <2> QED BY <2>1
<1> DEFINE f == MulUp(pt, n)
<1>6. f = [i \in 0..n |-> IF i = 0 THEN None ELSE Sum(f[i - 1], Affine(pt))]
  BY <1>5 DEF MulUp
<1>7. Multiple(pt, n) = f[n]
  BY DEF Multiple, MulUp
<1> HIDE DEF f
<1>8. f[0] = None /\ \A i \in 0..n-1 : f[i + 1] = Sum(f[i], Affine(pt))
  <2>1. 0 \in 0..n
    OBVIOUS
  <2>2. ASSUME NEW i \in 0..n-1 PROVE f[i + 1] = Sum(f[i], Affine(pt))
    <3>1. i + 1 \in 0..n /\ i + 1 # 0 /\ (i + 1) - 1 = i
      OBVIOUS
    <3>2. f[i + 1] = IF i + 1 = 0 THEN None ELSE Sum(f[(i + 1) - 1], Affine(pt))
      BY <1>6, <3>1
    <3> QED BY <3>1, <3>2
  <2>3. f[0] = None
    BY <1>6, <2>1
  <2> QED BY <2>2, <2>3
<1>9. \A i \in 0..n : f[i] \in Curve
  <2> DEFINE T == {i \in 0..n : f[i] \in Curve}
  <2>1. 0 \in T
    BY <1>0, <1>8
  <2>2. ASSUME NEW i \in 0..n-1, i \in T PROVE i + 1 \in T
    <3>1. i + 1 \in 0..n /\ f[i] \in Curve
      BY <2>2
    <3>2. Sum(f[i], Affine(pt)) \in Curve
      BY <1>0, <3>1, GroupAssumption
    <3> QED BY <1>8, <3>1, <3>2
  <2> HIDE DEF T
  <2>3. 0..n \subseteq T
    BY <2>1, <2>2, UpTo
  <2> QED BY <2>3 DEF T
<1>10. f \in [0..n -> Curve]
  <2>1. DOMAIN f = 0..n /\ f = [i \in 0..n |-> f[i]]
    BY <1>6
  <2> QED BY <1>9, <2>1
<1> QED BY <1>7, <1>8, <1>10 DEF f

\* The multiples of a point.
LEMMA MultipleIs ==
  ASSUME NEW pt \in Point, OnCurve(pt)
  PROVE  /\ Multiple(pt, 0) = None /\ Multiple(pt, 1) = Affine(pt)
         /\ \A n \in Nat : /\ Multiple(pt, n) \in Curve
                           /\ Multiple(pt, n + 1) = Sum(Multiple(pt, n), Affine(pt))
<1>1. Multiple(pt, 0) = None
  BY MulFollows
<1>2. ASSUME NEW n \in Nat
      PROVE  Multiple(pt, n) \in Curve /\ Multiple(pt, n + 1) = Sum(Multiple(pt, n), Affine(pt))
  <2> DEFINE f == MulUp(pt, n)  g == MulUp(pt, n + 1)
  <2>1. /\ f \in [0..n -> Curve] /\ Multiple(pt, n) = f[n] /\ f[0] = None
        /\ \A i \in 0..n-1 : f[i + 1] = Sum(f[i], Affine(pt))
    BY MulFollows
  <2>2. /\ g \in [0..n+1 -> Curve] /\ Multiple(pt, n + 1) = g[n + 1] /\ g[0] = None
        /\ \A i \in 0..n : g[i + 1] = Sum(g[i], Affine(pt))
    <3>1. n + 1 \in Nat /\ (n + 1) - 1 = n
      OBVIOUS
    <3> QED BY <3>1, MulFollows
  <2> HIDE DEF f, g
  <2> DEFINE T == {i \in 0..n : f[i] = g[i]}
  <2>3. 0 \in T
    BY <2>1, <2>2
  <2>4. ASSUME NEW i \in 0..n-1, i \in T PROVE i + 1 \in T
    <3>1. i + 1 \in 0..n /\ i \in 0..n /\ f[i] = g[i]
      BY <2>4
    <3> QED BY <2>1, <2>2, <3>1
  <2> HIDE DEF T
  <2>5. 0..n \subseteq T
    BY <2>3, <2>4, UpTo
  <2>6. f[n] = g[n]
    BY <2>5 DEF T
  <2>7. n \in 0..n /\ f[n] \in Curve
    BY <2>1
  <2> QED BY <2>1, <2>2, <2>6, <2>7
<1>3. Multiple(pt, 0 + 1) = Sum(None, Affine(pt))
  BY <1>1, <1>2
<1>4. Multiple(pt, 1) = Affine(pt)
  <2>1. 0 + 1 = 1
    OBVIOUS
  <2> QED BY <1>3, <2>1, CurveIs
<1> QED BY <1>1, <1>2, <1>4

\* Multiples add up.
LEMMA MultipleAdds ==
  ASSUME NEW pt \in Point, OnCurve(pt), NEW m \in Nat
  PROVE  \A n \in Nat : Multiple(pt, m + n) = Sum(Multiple(pt, m), Multiple(pt, n))
<1> DEFINE T == {n \in Nat : Multiple(pt, m + n) = Sum(Multiple(pt, m), Multiple(pt, n))}
<1>1. 0 \in T
  <2>1. m + 0 = m /\ Multiple(pt, 0) = None /\ Multiple(pt, m) \in Curve
    BY MultipleIs
  <2>2. Sum(Multiple(pt, m), None) = Multiple(pt, m)
    BY <2>1, CurveIs
  <2>3. Multiple(pt, m + 0) = Sum(Multiple(pt, m), Multiple(pt, 0))
    BY <2>1, <2>2
  <2> QED BY <2>3
<1>2. ASSUME NEW n \in Nat, n \in T PROVE n + 1 \in T
  <2> DEFINE a == Multiple(pt, m)  b == Multiple(pt, n)  c == Affine(pt)
  <2>1. a \in Curve /\ b \in Curve /\ c \in Curve
    BY MultipleIs, CurveIs
  <2>2. m + n \in Nat /\ m + (n + 1) = (m + n) + 1
    OBVIOUS
  <2>3. Multiple(pt, m + (n + 1)) = Sum(Multiple(pt, m + n), c)
    BY <2>2, MultipleIs
  <2>4. Multiple(pt, m + n) = Sum(a, b)
    BY <1>2
  <2>5. Multiple(pt, n + 1) = Sum(b, c)
    BY MultipleIs
  <2>6. Sum(Sum(a, b), c) = Sum(a, Sum(b, c))
    BY <2>1, GroupAssumption
  <2>7. Multiple(pt, m + (n + 1)) = Sum(Multiple(pt, m), Multiple(pt, n + 1))
    BY <2>3, <2>4, <2>5, <2>6
  <2> QED BY <2>7
<1> HIDE DEF T
<1>3. \A n \in Nat : n \in T
  BY <1>1, <1>2, NatSet
<1> QED BY <1>3 DEF T

\* Only the factor's remainder matters.
LEMMA MultipleMod ==
  ASSUME NEW pt \in Point, OnCurve(pt), NEW n \in Nat
  PROVE  /\ Multiple(pt, n) = Multiple(pt, n % Order)
         /\ Multiple(pt, n) = None <=> n % Order = 0
<1>1. Order \in Nat \ {0, 1} /\ Multiple(pt, Order) = None
  BY OrderIs, GroupAssumption
<1> DEFINE T == {q \in Nat : Multiple(pt, Order * q) = None}
<1>2. 0 \in T
  <2>1. Order * 0 = 0
    BY <1>1
  <2> QED BY <2>1, MultipleIs
<1>3. ASSUME NEW q \in Nat, q \in T PROVE q + 1 \in T
  <2>1. Order * (q + 1) = Order * q + Order /\ Order * q \in Nat
    BY <1>1
  <2>2. Multiple(pt, Order * q + Order) = Sum(Multiple(pt, Order * q), Multiple(pt, Order))
    BY <1>1, <2>1, MultipleAdds
  <2>3. Multiple(pt, Order * (q + 1)) = None
    BY <1>1, <1>3, <2>1, <2>2, CurveIs
  <2> QED BY <2>3
<1>4. \A q \in Nat : Multiple(pt, Order * q) = None
  <2>1. \A q \in Nat : q \in T
    <3> HIDE DEF T
    <3> QED BY <1>2, <1>3, NatSet
  <2> QED BY <2>1
<1> DEFINE e == n \div Order  u == n % Order
<1>5. u \in 0..Order-1 /\ e \in Nat /\ n = Order * e + u
  BY <1>1, Remainder
<1> HIDE DEF e, u
<1>6. Multiple(pt, n) = Multiple(pt, u)
  <2>1. Order * e \in Nat /\ u \in Nat
    BY <1>1, <1>5
  <2>2. Multiple(pt, Order * e + u) = Sum(Multiple(pt, Order * e), Multiple(pt, u))
    BY <2>1, MultipleAdds
  <2>3. Multiple(pt, u) \in Curve
    BY <2>1, MultipleIs
  <2> QED BY <1>4, <1>5, <2>2, <2>3, CurveIs
<1>7. Multiple(pt, u) = None <=> u = 0
  <2>1. CASE u = 0
    BY <2>1, MultipleIs
  <2>2. CASE u # 0
    <3>1. u \in 1..Order /\ u # Order
      BY <1>1, <1>5, <2>2
    <3> QED BY <2>2, <3>1, GroupAssumption
  <2> QED BY <2>1, <2>2
<1> QED BY <1>6, <1>7 DEF u

\* The multiples of a multiple.
LEMMA MultipleOfMultiple ==
  ASSUME NEW pt \in Point, OnCurve(pt), NEW d \in Nat, d % Order # 0,
         NEW pub, pub = [x |-> Multiple(pt, d).x, y |-> Multiple(pt, d).y]
  PROVE  /\ pub \in Point /\ OnCurve(pub) /\ Affine(pub) = Multiple(pt, d)
         /\ \A n \in Nat : Multiple(pub, n) = Multiple(pt, d * n)
<1>1. Multiple(pt, d) \in Curve \ {None}
  BY MultipleIs, MultipleMod
<1>2. pub \in Point /\ OnCurve(pub) /\ Affine(pub) = Multiple(pt, d)
  BY <1>1, CurveIs
<1> DEFINE T == {n \in Nat : Multiple(pub, n) = Multiple(pt, d * n)}
<1>3. 0 \in T
  <2>1. d * 0 = 0
    OBVIOUS
  <2> QED BY <1>2, <2>1, MultipleIs
<1>4. ASSUME NEW n \in Nat, n \in T PROVE n + 1 \in T
  <2>1. d * (n + 1) = d * n + d /\ d * n \in Nat
    OBVIOUS
  <2>2. Multiple(pt, d * n + d) = Sum(Multiple(pt, d * n), Multiple(pt, d))
    BY <2>1, MultipleAdds
  <2>3. Multiple(pub, n + 1) = Sum(Multiple(pub, n), Affine(pub))
    BY <1>2, MultipleIs
  <2>4. Multiple(pub, n + 1) = Multiple(pt, d * (n + 1))
    BY <1>2, <1>4, <2>1, <2>2, <2>3
  <2> QED BY <2>4
<1> HIDE DEF T
<1>5. \A n \in Nat : n \in T
  BY <1>3, <1>4, NatSet
<1> QED BY <1>2, <1>5 DEF T

-----------------------------------------------------------------------------
\* The top word holds the bits that are left, and there is room for one more.
LEMMA BitsAre ==
  /\ Bits % WordBits \in 1..WordBits-1 /\ Bits = WordBits * (Words - 1) + (Bits % WordBits)
  /\ Pow(2, Bits) = Pow(2, Bits % WordBits) * Pow(Radix, Words - 1)
  /\ 2 * Pow(2, Bits) <= Pow(Radix, Words)
  /\ (Bits + WordBits - 1) \div WordBits = Words
  /\ Pow(2, Bits % WordBits) \in Nat \ {0} /\ Pow(2, Bits % WordBits) <= Radix
<1> DEFINE q == Bits \div WordBits  u == Bits % WordBits
<1>1. /\ Words \in Nat \ {0} /\ WordBits \in Nat \ {0} /\ Bits \in Nat /\ u # 0
      /\ Bits <= Words * WordBits /\ Bits > (Words - 1) * WordBits
  <2>1. Words \in Nat \ {0} /\ WordBits \in Nat \ {0}
    BY WordsAssumption
  <2>2. Words * WordBits \in Nat /\ (Words - 1) * WordBits \in Nat
    BY <2>1
  <2> QED BY <2>1, <2>2, CurveAssumption
<1>2. u \in 0..WordBits-1 /\ q \in Nat /\ Bits = WordBits * q + u
  BY <1>1, Remainder
<1> HIDE DEF q, u
<1>3. q = Words - 1
  <2>1. CASE q < Words - 1
    <3> DEFINE d == (Words - 1) - (q + 1)
    <3>1. d \in Nat /\ Words - 1 = (q + 1) + d
      BY <1>1, <1>2, <2>1
    <3> HIDE DEF d
    <3>2. (Words - 1) * WordBits = ((q + 1) + d) * WordBits
      BY <3>1
    <3>3. ((q + 1) + d) * WordBits = WordBits * q + WordBits + d * WordBits
          /\ d * WordBits \in Nat /\ WordBits * q \in Nat
      BY <1>1, <1>2, <3>1
    <3> QED BY <1>1, <1>2, <3>2, <3>3
  <2>2. CASE q > Words - 1
    <3> DEFINE d == q - Words
    <3>1. d \in Nat /\ q = Words + d
      BY <1>1, <1>2, <2>2
    <3> HIDE DEF d
    <3>2. WordBits * q = Words * WordBits + WordBits * d /\ WordBits * d \in Nat
          /\ Words * WordBits \in Nat
      BY <1>1, <3>1
    <3> QED BY <1>1, <1>2, <3>2
  <2> QED BY <1>1, <1>2, <2>1, <2>2
<1>4. u \in 1..WordBits-1 /\ Bits = WordBits * (Words - 1) + u
  BY <1>1, <1>2, <1>3
<1>5. Words - 1 \in Nat /\ WordBits * (Words - 1) \in Nat
  BY <1>1
<1> DEFINE w == WordBits * (Words - 1)
<1>6. Pow(Radix, Words - 1) = Pow(2, w)
  BY <1>1, <1>5, PowOfPow DEF Radix
<1>7. Pow(2, w + u) = Pow(2, w) * Pow(2, u)
  BY <1>4, <1>5, PowAdd
<1>8. Pow(2, Bits) = Pow(2, u) * Pow(Radix, Words - 1)
  <2> DEFINE y == Pow(2, w)  v == Pow(2, u)
  <2>1. y \in Nat /\ v \in Nat
    BY <1>4, <1>5, PowIs
  <2>2. Pow(2, Bits) = y * v /\ Pow(Radix, Words - 1) = y
    BY <1>4, <1>6, <1>7
  <2> HIDE DEF y, v
  <2>3. y * v = v * y
    BY <2>1
  <2>4. Pow(2, Bits) = v * Pow(Radix, Words - 1)
    BY <2>2, <2>3
  <2> QED BY <2>4 DEF v
<1>9. 2 * Pow(2, Bits) <= Pow(Radix, Words)
  <2>1. Pow(2, Bits + 1) = 2 * Pow(2, Bits)
    BY <1>1, PowIs
  <2>2. Pow(Radix, Words) = Pow(2, WordBits * Words)
    BY <1>1, PowOfPow DEF Radix
  <2>3. Bits + 1 <= WordBits * Words /\ WordBits * Words \in Nat /\ Bits + 1 \in Nat
    <3>1. WordBits * Words = WordBits * (Words - 1) + WordBits
      BY <1>1
    <3> HIDE DEF w
    <3> QED BY <1>1, <1>4, <1>5, <3>1
  <2>4. Pow(2, Bits + 1) <= Pow(2, WordBits * Words)
    <3> DEFINE m == Bits + 1  n == WordBits * Words
    <3>1. m \in Nat /\ n \in Nat /\ m <= n /\ 2 \in Nat \ {0}
      BY <2>3
    <3> HIDE DEF m, n
    <3>2. Pow(2, m) <= Pow(2, n)
      BY <3>1, PowGrows
    <3> QED BY <3>2 DEF m, n
  <2> QED BY <2>1, <2>2, <2>4
<1>10. (Bits + WordBits - 1) \div WordBits = Words
  <2> DEFINE x == Bits + WordBits - 1
  <2>1. x = WordBits * Words + (u - 1) /\ x \in Nat /\ u - 1 \in 0..WordBits-1
    <3>1. WordBits * Words = WordBits * (Words - 1) + WordBits
      BY <1>1
    <3> QED BY <1>1, <1>4, <1>5, <3>1
  <2> HIDE DEF x
  <2>2. Splits(x, WordBits, Words, u - 1)
    BY <1>1, <2>1 DEF Splits
  <2>3. x \div WordBits = Words
    BY <2>2, QuotientOnly
  <2> QED BY <2>3 DEF x
<1>11. Pow(2, u) \in Nat \ {0}
  BY <1>4, PowPositive
<1>12. Pow(2, u) <= Radix
  <2>1. u \in Nat /\ WordBits \in Nat /\ u <= WordBits
    BY <1>1, <1>4
  <2> QED BY <2>1, PowGrows DEF Radix
<1> QED BY <1>4, <1>8, <1>9, <1>10, <1>11, <1>12 DEF u

\* The order, and the coordinates of points, are numbers.
LEMMA OrderFits ==
  /\ Pow(2, Bits) \in Nat \ {0} /\ Pow(Radix, Words) \in Nat
  /\ Prime < Pow(2, Bits) /\ Pow(2, Bits) + Pow(2, Bits) <= Pow(Radix, Words)
  /\ \A v \in 0..Prime : Num(v) \in Nums /\ Val(Num(v)) = v
<1>1. Pow(2, Bits) \in Nat \ {0} /\ Pow(Radix, Words) \in Nat /\ Prime < Pow(2, Bits)
  <2>1. Bits \in Nat
    <3>1. Words * WordBits \in Nat
      BY WordsAssumption
    <3> QED BY <3>1, CurveAssumption
  <2>2. Pow(2, Bits) \in Nat \ {0}
    BY <2>1, PowPositive
  <2> QED BY <2>2, CurveAssumption, RadixIs
<1>2. Pow(2, Bits) + Pow(2, Bits) <= Pow(Radix, Words)
  BY <1>1, BitsAre
<1>3. ASSUME NEW v \in 0..Prime PROVE Num(v) \in Nums /\ Val(Num(v)) = v
  <2>1. v \in 0..Pow(Radix, Words)-1
    BY <1>1, <1>2, OrderIs
  <2> QED BY <2>1, ValOfNum
<1> QED BY <1>1, <1>2, <1>3

\* What is not too long is below 2 to the Bits.
LEMMA NotTooLong ==
  ASSUME NEW x \in Nums, ~TooLong(x)
  PROVE  Val(x) < Pow(2, Bits)
<1> DEFINE f == ValUp(x)  y == Pow(Radix, Words - 1)  v == Pow(2, Bits % WordBits)
<1>1. /\ f[Words - 1] \in 0..y-1 /\ Val(x) = f[(Words - 1) + 1]
      /\ f[(Words - 1) + 1] = f[Words - 1] + x[Words - 1] * y
  <2>1. Words - 1 \in 0..Words-1 /\ Words - 1 \in 0..Words /\ (Words - 1) + 1 = Words
    BY RadixIs
  <2>2. f[Words - 1] \in 0..y-1
    BY <2>1, ValBelow
  <2>3. \A i \in 0..Words-1 : f[i + 1] = f[i] + x[i] * Pow(Radix, i)
    BY ValFollows
  <2>4. Val(x) = f[Words]
    BY ValFollows
  <2> HIDE DEF f
  <2> QED BY <2>1, <2>2, <2>3, <2>4
<1>2. y \in Nat \ {0} /\ v \in Nat \ {0} /\ x[Words - 1] \in Nat
  <2>1. Words - 1 \in 0..Words-1
    BY RadixIs
  <2>2. Words - 1 \in Nat
    BY <2>1, RadixIs
  <2> QED BY <2>1, <2>2, DigitIs, RadixIs, BitsAre
<1>3. x[Words - 1] <= v - 1
  BY <1>2 DEF TooLong, TopMask
<1>4. Pow(2, Bits) = v * y
  BY BitsAre
<1> DEFINE t == x[Words - 1]  low == f[Words - 1]
<1>5. t \in Nat /\ t <= v - 1 /\ low \in 0..y-1 /\ Val(x) = low + t * y
  BY <1>1, <1>2, <1>3
<1> HIDE DEF f, y, v, t, low
<1>6. low + t * y < v * y
  <2> DEFINE d == v - 1 - t
  <2>1. d \in Nat /\ v = t + d + 1
    BY <1>2, <1>5
  <2> HIDE DEF d
  <2>2. v * y = t * y + d * y + y /\ d * y \in Nat /\ t * y \in Nat
    BY <1>2, <1>5, <2>1
  <2> QED BY <1>2, <1>5, <2>2
<1> QED BY <1>4, <1>5, <1>6

\* A draw is a number.
LEMMA DrawsAre ==
  ASSUME NEW x \in Draws PROVE x \in Nums
<1>1. PICK drawn \in 0..(Pow(Radix, Words) - 1) : x = Masked(Num(drawn), Bits)
  BY DEF Draws
<1>2. Num(drawn) \in Nums
  BY <1>1, ValOfNum
<1> DEFINE n == Num(drawn)
<1> HIDE DEF n
<1>3. n \in Nums /\ x = Masked(n, Bits)
  BY <1>1, <1>2 DEF n
<1>4. ASSUME NEW i \in Index
      PROVE  n[i] \in 0..Radix-1 /\ n[i] % (TopMask(Bits) + 1) \in 0..Radix-1
  <2>1. n[i] \in 0..Radix-1
    BY <1>3 DEF Nums
  <2> DEFINE v == Pow(2, Bits % WordBits)
  <2>2. v \in Nat \ {0} /\ v <= Radix /\ Radix \in Nat
    BY BitsAre, RadixIs
  <2>3. TopMask(Bits) + 1 = v
    BY <2>2 DEF TopMask
  <2> HIDE DEF v
  <2>4. n[i] % v \in 0..v-1
    <3>1. n[i] \in Nat
      BY <2>1, <2>2
    <3> QED BY <2>2, <3>1, Remainder
  <2> QED BY <2>1, <2>2, <2>3, <2>4
<1> QED BY <1>3, <1>4 DEF Masked, Nums

\* A draw is accepted if it is a scalar.
LEMMA AcceptedIs ==
  ASSUME NEW x \in Nums PROVE Accepted(x) <=> Val(x) \in 1..Order-1
<1>1. Num(Order) \in Nums /\ Val(Num(Order)) = Order /\ Order \in Nat
  BY OrderIs, OrderFits
<1>2. Val(x) \in Nat
  <2>1. Val(x) \in 0..Pow(Radix, Words)-1
    BY ValRange
  <2> QED BY <2>1, RadixIs
<1>3. bn_cmp(x, Num(Order)) < 0 <=> Val(x) < Order
  BY <1>1, <1>2, CmpCompares
<1>4. bn_is_zero(x) <=> Val(x) = 0
  BY ZeroIs
<1> QED BY <1>1, <1>2, <1>3, <1>4 DEF Accepted

\* And so is a part of a signature.
LEMMA ScalarIs ==
  ASSUME NEW x \in Nums PROVE ecdsa_valid_scalar(x) <=> Val(x) \in 1..Order-1
BY AcceptedIs DEF Accepted, ecdsa_valid_scalar

-----------------------------------------------------------------------------
\* ecdsa_verify accepts exactly the valid signatures that it does not turn down.
THEOREM VerifyAcceptsExactly ==
  ASSUME NEW pub \in Point, NEW rr \in Nums, NEW ss \in Nums, NEW zz \in Nums
  PROVE  ecdsa_verify(pub, rr, ss, zz) <=>
           /\ ~TooLong(zz) /\ Valid(pub, Val(rr), Val(ss), Val(zz))
           /\ ~TurnedDown(pub, Val(rr), Val(ss), Val(zz))
<1> DEFINE rv == Val(rr)  sv == Val(ss)  zv == Val(zz)
           w == InvMod(sv, Order)
           a == Multiple(G, MulMod(zv, w))
           b == Multiple(pub, MulMod(rv, w))
<1>1. rv \in Nat /\ sv \in Nat /\ zv \in Nat
  <2>1. /\ rv \in 0..Pow(Radix, Words)-1 /\ sv \in 0..Pow(Radix, Words)-1
        /\ zv \in 0..Pow(Radix, Words)-1
    BY ValRange
  <2> QED BY <2>1, RadixIs
<1>2. /\ (ecdsa_valid_scalar(rr) <=> rv \in 1..Order-1)
      /\ (ecdsa_valid_scalar(ss) <=> sv \in 1..Order-1)
  BY ScalarIs
<1>3. ecp_point_valid(pub) <=> OnCurve(pub)
  BY DEF ecp_point_valid, OnCurve
<1>4. /\ (ecdsa_verify(pub, rr, ss, zz) <=>
            /\ ~TooLong(zz) /\ OnCurve(pub) /\ Multiple(pub, Order).inf
            /\ rv \in 1..Order-1 /\ sv \in 1..Order-1
            /\ ~a.inf /\ ~b.inf /\ ~ecp_add(a, b).inf /\ ecp_add(a, b).x = rv)
      /\ (Valid(pub, rv, sv, zv) <=>
            /\ OnCurve(pub) /\ rv \in 1..Order-1 /\ sv \in 1..Order-1
            /\ ~Sum(a, b).inf /\ Sum(a, b).x % Order = rv)
      /\ (TurnedDown(pub, rv, sv, zv) <=>
            zv % Order = 0 \/ a = b \/ Sum(a, b).x >= Order)
  BY <1>2, <1>3 DEF ecdsa_verify, Valid, Combined, TurnedDown, ecp_point_mul
<1> SUFFICES ASSUME OnCurve(pub), rv \in 1..Order-1, sv \in 1..Order-1
             PROVE  /\ Multiple(pub, Order).inf
                    /\ ~a.inf /\ ~b.inf /\ ~ecp_add(a, b).inf /\ ecp_add(a, b).x = rv
                       <=> /\ ~Sum(a, b).inf /\ Sum(a, b).x % Order = rv
                           /\ ~(zv % Order = 0 \/ a = b \/ Sum(a, b).x >= Order)
  <2> HIDE DEF rv, sv, zv, a, b
  <2>1. ecdsa_verify(pub, rr, ss, zz) <=>
           ~TooLong(zz) /\ Valid(pub, rv, sv, zv) /\ ~TurnedDown(pub, rv, sv, zv)
    BY <1>4
  <2> QED BY <2>1 DEF rv, sv, zv
<1>5. Multiple(pub, Order).inf
  <2>1. Multiple(pub, Order) = None
    BY OrderIs, GroupAssumption
  <2> QED BY <2>1, CurveIs
<1>6. sv % Order = sv /\ rv % Order = rv
  BY OrderIs, SmallRemainder
<1>7. w \in 1..Order-1 /\ (sv * w) % Order = 1
  BY <1>1, <1>6, InverseIs
<1>8. w \in Nat /\ w % Order = w /\ w # 0
  BY <1>7, OrderIs, SmallRemainder
<1> HIDE DEF w
<1>9. /\ a \in Curve /\ b \in Curve /\ b # None
      /\ a = None <=> zv % Order = 0
  <2>1. MulMod(zv, w) \in 0..Order-1 /\ MulMod(rv, w) \in 0..Order-1
    <3>1. zv * w \in Nat /\ rv * w \in Nat /\ Order \in Nat \ {0}
      BY <1>1, <1>8, OrderIs
    <3>2. \A v \in Nat : v % Order \in 0..Order-1
      BY <3>1, Remainder
    <3> QED BY <3>1, <3>2 DEF MulMod
  <2>2. MulMod(zv, w) \in Nat /\ MulMod(rv, w) \in Nat
        /\ MulMod(zv, w) % Order = MulMod(zv, w) /\ MulMod(rv, w) % Order = MulMod(rv, w)
    BY <2>1, OrderIs, SmallRemainder
  <2>3. a \in Curve /\ b \in Curve
    BY <2>2, OrderIs, MultipleIs
  <2>4. MulMod(rv, w) # 0
    <3>1. rv % Order # 0 /\ w % Order # 0
      BY <1>6, <1>8, OrderIs
    <3>2. (rv * w) % Order # 0
      BY <1>1, <1>8, <3>1, NoZeroDivisors
    <3> QED BY <3>2 DEF MulMod
  <2>5. b # None
    BY <2>2, <2>4, MultipleMod
  <2>6. MulMod(zv, w) = 0 <=> zv % Order = 0
    <3>1. CASE zv % Order = 0
      <4>1. (zv * w) % Order = ((zv % Order) * w) % Order
        BY <1>1, <1>8, OrderIs, ModFactor
      <4>2. 0 * w = 0 /\ 0 % Order = 0
        BY <1>8, OrderIs, SmallRemainder
      <4> QED BY <3>1, <4>1, <4>2 DEF MulMod
    <3>2. CASE zv % Order # 0
      BY <1>1, <1>8, <3>2, NoZeroDivisors DEF MulMod
    <3> QED BY <3>1, <3>2
  <2>7. a = None <=> MulMod(zv, w) = 0
    BY <2>2, OrderIs, MultipleMod
  <2> QED BY <2>3, <2>5, <2>6, <2>7
<1> HIDE DEF a, b
<1>10. a.inf <=> a = None
  BY <1>9, CurveIs
<1>11. ~b.inf
  BY <1>9, CurveIs
<1>12. CASE a = None
  BY <1>5, <1>9, <1>10, <1>12
<1>13. CASE a # None
  <2>1. Affine(a) = a /\ Affine(b) = b
    BY <1>9, <1>13, CurveIs
  <2>2. ecp_add(a, b) = IF a.x = b.x THEN None ELSE Sum(a, b)
    BY <2>1 DEF ecp_add
  <2>3. Sum(a, b) \in Curve /\ (Sum(a, b).inf <=> Sum(a, b) = None)
    BY <1>9, CurveIs, GroupAssumption
  <2>4. a.x = b.x => a = b \/ Sum(a, b) = None
    BY <1>9, <1>13, GroupAssumption
  <2>5. a.x = b.x <=> a = b \/ (a.x = b.x /\ Sum(a, b) = None)
    BY <2>4
  <2>6. ~Sum(a, b).inf => Sum(a, b).x \in Nat
    <3>1. ASSUME Sum(a, b) # None PROVE Sum(a, b).x \in Nat
      <4>1. [x |-> Sum(a, b).x, y |-> Sum(a, b).y] \in Point
        BY <2>3, <3>1, CurveIs
      <4> QED BY <4>1, OrderIs DEF Point
    <3> QED BY <2>3, <3>1
  <2>7. CASE Sum(a, b).inf
    BY <1>5, <1>10, <1>11, <2>2, <2>7, CurveIs
  <2>8. CASE ~Sum(a, b).inf
    <3> DEFINE n == Sum(a, b).x
    <3>1. a.x = b.x <=> a = b
      BY <2>3, <2>4, <2>8
    <3>2. n \in Nat
      BY <2>6, <2>8
    <3>3. n < Order => n % Order = n
      <4> HIDE DEF n
      <4> QED BY <3>2, OrderIs, SmallRemainder
    <3>4. CASE a = b
      BY <1>5, <1>10, <1>11, <2>2, <3>1, <3>4, CurveIs
    <3>5. CASE a # b
      <4>1. ecp_add(a, b) = Sum(a, b)
        BY <2>2, <3>1, <3>5
      <4>2. n = rv <=> n % Order = rv /\ ~(n >= Order)
        <5> HIDE DEF n, rv
        <5> QED BY <1>6, <3>2, <3>3, OrderIs
      <4> QED BY <1>5, <1>9, <1>10, <1>11, <1>13, <2>8, <3>5, <4>1, <4>2
    <3> QED BY <3>4, <3>5
  <2> QED BY <2>7, <2>8
<1> QED BY <1>5, <1>12, <1>13

\* w * (x * y) with what it stands for: the nonce returns from the product.
LEMMA NonceReturns ==
  ASSUME NEW kk \in 1..Order-1, NEW t \in Nat, NEW e \in Nat, NEW w \in Nat,
         (kk * e) % Order = 1, (((e * t) % Order) * w) % Order = 1
  PROVE  (t * w) % Order = kk % Order
<1> DEFINE et == e * t  ke == kk * e  tw == t * w
<1>1. kk \in Nat /\ et \in Nat /\ ke \in Nat /\ tw \in Nat /\ Order \in Nat \ {0}
  BY OrderIs
<1>2. (et * w) % Order = 1
  <2> HIDE DEF et
  <2>1. (et * w) % Order = ((et % Order) * w) % Order
    BY <1>1, ModFactor
  <2>2. ((et % Order) * w) % Order = 1
    BY DEF et
  <2> QED BY <2>1, <2>2
<1>3. (et * w) * kk = ke * tw /\ et * w \in Nat
  BY <1>1
<1>4. ((et * w) * kk) % Order = (1 * kk) % Order
  <2> DEFINE x == et * w
  <2>1. x \in Nat /\ x % Order = 1
    BY <1>2, <1>3
  <2> HIDE DEF x
  <2>2. (x * kk) % Order = ((x % Order) * kk) % Order
    BY <1>1, <2>1, ModFactor
  <2>3. (x * kk) % Order = (1 * kk) % Order
    BY <2>1, <2>2
  <2> QED BY <2>3 DEF x
<1>5. (ke * tw) % Order = (1 * tw) % Order
  <2>1. ke % Order = 1
    OBVIOUS
  <2> HIDE DEF ke, tw
  <2>2. (ke * tw) % Order = ((ke % Order) * tw) % Order
    BY <1>1, ModFactor
  <2> QED BY <2>1, <2>2
<1>6. 1 * kk = kk /\ 1 * tw = tw
  BY <1>1
<1>7. tw % Order = kk % Order
  BY <1>3, <1>4, <1>5, <1>6
<1> QED BY <1>7

\* What ecdsa_sign has computed when it ends, kk being the nonce and d the key.
SignedWith(kk, d, rv, sv, zv) ==
  /\ rv = Multiple(G, kk).x % Order /\ rv # 0
  /\ sv = (InvMod(kk, Order) * ((((d * rv) % Order) + zv) % Order)) % Order /\ sv # 0

\* It is valid under the public half of the key.
LEMMA SignedIsValid ==
  ASSUME NEW kk \in 1..Order-1, NEW d \in 1..Order-1, NEW zv \in Nat, NEW rv, NEW sv,
         SignedWith(kk, d, rv, sv, zv),
         NEW pub, pub = [x |-> Multiple(G, d).x, y |-> Multiple(G, d).y]
  PROVE  Valid(pub, rv, sv, zv)
<1> DEFINE e == InvMod(kk, Order)  w == InvMod(sv, Order)  pk == Multiple(G, kk)
           t == zv + d * rv
<1>1. /\ G \in Point /\ OnCurve(G) /\ Order \in Nat \ {0, 1} /\ kk \in Nat /\ d \in Nat
      /\ kk % Order = kk /\ d % Order = d /\ kk # 0 /\ d # 0
  BY OrderIs, SmallRemainder
<1>2. pk \in Curve /\ pk # None /\ ~pk.inf /\ pk.x \in Nat
  <2>1. pk \in Curve /\ pk # None
    BY <1>1, MultipleIs, MultipleMod
  <2>2. [x |-> pk.x, y |-> pk.y] \in Point /\ ~pk.inf
    BY <2>1, CurveIs
  <2> QED BY <2>1, <2>2, OrderIs DEF Point
<1>3. rv = pk.x % Order /\ rv \in 1..Order-1
  <2> HIDE DEF pk
  <2>1. pk.x % Order \in 0..Order-1
    BY <1>1, <1>2, Remainder
  <2>2. rv = pk.x % Order /\ rv # 0
    BY DEF SignedWith, pk
  <2> QED BY <1>1, <2>1, <2>2
<1>4. e \in Nat /\ (kk * e) % Order = 1
  BY <1>1, InverseIs
<1> HIDE DEF e, pk
<1>5. d * rv \in Nat /\ t \in Nat /\ rv \in Nat
  BY <1>1, <1>3
<1>6. sv = (e * t) % Order /\ sv \in 1..Order-1
  <2> DEFINE dr == d * rv
  <2>1. dr \in Nat /\ dr + zv = t /\ t \in Nat
    BY <1>5
  <2>2. sv = (e * (((dr % Order) + zv) % Order)) % Order /\ sv # 0
    BY DEF SignedWith, e
  <2> HIDE DEF dr, t
  <2>3. ((dr % Order) + zv) % Order = t % Order
    BY <1>1, <2>1, ModSummand
  <2>4. (t * e) % Order = ((t % Order) * e) % Order
    BY <1>1, <1>4, <2>1, ModFactor
  <2>5. t * e = e * t /\ (t % Order) * e = e * (t % Order) /\ e * t \in Nat
    <3> DEFINE u == t % Order
    <3>1. u \in Nat
      BY <1>1, <2>1, Remainder
    <3> HIDE DEF u
    <3>2. t * e = e * t /\ u * e = e * u /\ e * t \in Nat
      BY <1>4, <2>1, <3>1
    <3> QED BY <3>2 DEF u
  <2>6. sv = (e * t) % Order
    BY <2>2, <2>3, <2>4, <2>5
  <2> DEFINE et == e * t
  <2>7. et \in Nat
    BY <2>5
  <2> HIDE DEF et
  <2>8. et % Order \in 0..Order-1
    BY <1>1, <2>7, Remainder
  <2>9. sv = et % Order
    BY <2>6 DEF et
  <2> QED BY <1>1, <2>2, <2>6, <2>8, <2>9
<1>7. w \in Nat /\ (sv * w) % Order = 1
  <2>1. sv \in Nat /\ sv % Order = sv /\ sv # 0
    BY <1>6, <1>1, SmallRemainder
  <2> QED BY <2>1, <1>1, InverseIs
<1>8. (t * w) % Order = kk % Order
  <2> HIDE DEF t, w
  <2>1. (((e * t) % Order) * w) % Order = 1
    BY <1>6, <1>7
  <2>2. t \in Nat /\ e \in Nat /\ w \in Nat /\ (kk * e) % Order = 1
    BY <1>4, <1>5, <1>7
  <2>3. kk \in 1..Order-1
    OBVIOUS
  <2> QED BY <2>1, <2>2, <2>3, NonceReturns, ZenonT(60)
<1>9. pub \in Point /\ OnCurve(pub) /\ \A n \in Nat : Multiple(pub, n) = Multiple(G, d * n)
  <2>1. d % Order # 0
    BY <1>1
  <2> QED BY <1>1, <2>1, MultipleOfMultiple
<1> HIDE DEF w
<1>10. Combined(pub, rv, sv, zv) = Sum(Multiple(G, zv * w), Multiple(G, d * (rv * w)))
  <2>1. zv * w \in Nat /\ rv * w \in Nat
    BY <1>5, <1>7
  <2>2. Multiple(G, zv * w) = Multiple(G, (zv * w) % Order)
    BY <1>1, <2>1, MultipleMod
  <2>3. Multiple(pub, rv * w) = Multiple(pub, (rv * w) % Order)
    BY <1>9, <2>1, MultipleMod
  <2>4. Multiple(pub, rv * w) = Multiple(G, d * (rv * w))
    BY <1>9, <2>1
  <2> QED BY <2>2, <2>3, <2>4 DEF Combined, MulMod, w
<1>11. Combined(pub, rv, sv, zv) = pk
  <2> DEFINE x == zv * w  y == d * (rv * w)
  <2>1. x \in Nat /\ y \in Nat /\ x + y = t * w /\ t * w \in Nat
    <3>1. (zv + d * rv) * w = zv * w + d * (rv * w)
      BY <1>1, <1>5, <1>7
    <3> QED BY <1>1, <1>5, <1>7, <3>1
  <2>2. Combined(pub, rv, sv, zv) = Sum(Multiple(G, x), Multiple(G, y))
    BY <1>10
  <2> DEFINE tw == t * w
  <2> HIDE DEF x, y, t, tw
  <2>3. Multiple(G, x + y) = Sum(Multiple(G, x), Multiple(G, y))
    BY <1>1, <2>1, MultipleAdds
  <2>4. tw \in Nat /\ tw % Order = kk /\ x + y = tw
    BY <1>1, <1>8, <2>1 DEF tw
  <2>5. Multiple(G, tw) = Multiple(G, kk)
    BY <1>1, <2>4, MultipleMod
  <2> QED BY <2>2, <2>3, <2>4, <2>5 DEF pk
<1> QED BY <1>2, <1>3, <1>6, <1>9, <1>11 DEF Valid

-----------------------------------------------------------------------------
\* What a number holds, and the coordinate of a multiple.
IsNum(x, v) == x \in Nums /\ Val(x) = v
XOf(kk) == Multiple(G, kk).x

\* What the locals of ecdsa_sign hold, from place to place.
SignerHas ==
  /\ op = "idle" \/ (z \in Nums /\ ~TooLong(z))
  /\ \/ op \in {"idle", "draw"}
     \/ op = "point" /\ k \in Nums /\ Val(k) \in Scalar
     \/ /\ op = "clear" /\ k \in Nums /\ Val(k) \in Scalar
        /\ p = [x |-> XOf(Val(k)), y |-> Multiple(G, Val(k)).y]
     \/ /\ op = "key" /\ k \in Nums /\ Val(k) \in Scalar
        /\ IsNum(r, XOf(Val(k)) % Order) /\ Val(r) # 0
     \/ /\ op = "inverse" /\ k \in Nums /\ Val(k) \in Scalar /\ sbfill
        /\ IsNum(r, XOf(Val(k)) % Order) /\ Val(r) # 0
        /\ IsNum(s, (sb * Val(r)) % Order)
     \/ /\ op = "product" /\ sbfill /\ r \in Nums
        /\ \E kk \in Scalar :
             /\ IsNum(k, InvMod(kk, Order)) /\ Val(r) = XOf(kk) % Order /\ Val(r) # 0
             /\ IsNum(s, (((sb * Val(r)) % Order) + Val(z)) % Order)

\* What was returned.
SignedAre ==
  out.fn = "signed" =>
    /\ sbfill /\ out.r \in Nums /\ out.s \in Nums /\ out.z \in Nums /\ ~TooLong(out.z)
    /\ \E kk \in Scalar : SignedWith(kk, sb, Val(out.r), Val(out.s), Val(out.z))

KeysAre == key \in 0..Order-1 /\ sb \in 0..Order-1

\* What is being signed is what was asked for.
AskedIs == op # "idle" => Val(z) \in Hash

SignInv == KeysAre /\ SignerHas /\ SignedAre /\ AskedIs /\ VerifyAgrees

\* At first.
LEMMA SignInitially == SInit => SignInv
BY OrderIs DEF SInit, SignInv, KeysAre, SignerHas, SignedAre, AskedIs, VerifyAgrees

\* The verification of what somebody sent.
LEMMA VerifiesForeign ==
  ASSUME Verify PROVE VerifyAgrees'
<1>1. PICK f \in Foreign : out' = [fn |-> "verified", of |-> f,
                                   ok |-> ecdsa_verify(f.pub, Num(f.r), Num(f.s), Num(f.z))]
  BY DEF Verify, Leave
<1>2. /\ f.pub \in Point /\ Num(f.r) \in Nums /\ Num(f.s) \in Nums /\ Num(f.z) \in Nums
      /\ Val(Num(f.r)) = f.r /\ Val(Num(f.s)) = f.s /\ Val(Num(f.z)) = f.z
  BY ForeignAssumption, ValOfNum
<1>3. ecdsa_verify(f.pub, Num(f.r), Num(f.s), Num(f.z)) <=>
        ~TooLong(Num(f.z)) /\ Valid(f.pub, f.r, f.s, f.z) /\ ~TurnedDown(f.pub, f.r, f.s, f.z)
  BY <1>2, VerifyAcceptsExactly
<1>4. out'.of = f /\ out'.ok = ecdsa_verify(f.pub, Num(f.r), Num(f.s), Num(f.z))
  BY <1>1
<1> QED BY <1>3, <1>4 DEF VerifyAgrees

\* ecdsa_sign from place to place.
LEMMA SignerStep ==
  ASSUME SignInv, SNext PROVE SignerHas' /\ SignedAre'
<1> USE DEF SignInv
<1>1. CASE ecdsa_generate_efuse_private_key
  BY <1>1 DEF ecdsa_generate_efuse_private_key, Enter, Leave, SignerHas, SignedAre
<1>2. CASE ecdsa_get_efuse_public_key
  BY <1>2 DEF ecdsa_get_efuse_public_key, Enter, Leave, SignerHas, SignedAre
<1>3. CASE SignStart
  <2>1. PICK m \in Messages :
          IF TooLong(Num(m))
          THEN Leave([fn |-> "error"]) /\ UNCHANGED z
          ELSE op' = "draw" /\ z' = Num(m) /\ out' = [fn |-> "none"]
    BY <1>3 DEF SignStart
  <2>2. Num(m) \in Nums
    BY CurveAssumption, ValOfNum
  <2> QED BY <1>3, <2>1, <2>2 DEF SignStart, Leave, SignerHas, SignedAre
<1>4. CASE DrawNonce
  <2>1. PICK x \in Draws : k' = x /\ op' = IF Accepted(x) THEN "point" ELSE "draw"
    BY <1>4 DEF DrawNonce
  <2>2. x \in Nums /\ (Accepted(x) => Val(x) \in Scalar)
    BY DrawsAre, AcceptedIs DEF Scalar
  <2>3. UNCHANGED <<sb, sbfill, z, out>> /\ z \in Nums /\ ~TooLong(z)
    BY <1>4 DEF DrawNonce, SignerHas
  <2> QED BY <2>1, <2>2, <2>3 DEF SignerHas, SignedAre
<1>5. CASE SignPoint
  <2>1. k \in Nums /\ Val(k) \in Scalar /\ z \in Nums /\ ~TooLong(z)
    BY <1>5 DEF SignPoint, SignerHas
  <2>2. p' = [x |-> XOf(Val(k)), y |-> Multiple(G, Val(k)).y] /\ op' = "clear"
        /\ UNCHANGED <<k, z, sb, sbfill, out>>
    BY <1>5 DEF SignPoint, ecp_point_mul, XOf
  <2> QED BY <2>1, <2>2 DEF SignerHas, SignedAre
<1>6. CASE ClearOperands
  <2>1. k \in Nums /\ Val(k) \in Scalar /\ z \in Nums /\ ~TooLong(z) /\ p.x = XOf(Val(k))
    BY <1>6 DEF ClearOperands, SignerHas
  <2>2. p.x \in 0..Prime-1
    <3>1. Val(k) \in Nat /\ Val(k) % Order # 0
      BY <2>1, OrderIs, SmallRemainder DEF Scalar
    <3>2. Multiple(G, Val(k)) \in Curve \ {None}
      BY <3>1, OrderIs, MultipleIs, MultipleMod
    <3>3. [x |-> Multiple(G, Val(k)).x, y |-> Multiple(G, Val(k)).y] \in Point
      BY <3>2, CurveIs
    <3> QED BY <2>1, <3>3 DEF Point, XOf
  <2>3. Num(p.x) \in Nums /\ Val(Num(p.x)) = p.x /\ Num(Order) \in Nums /\ Val(Num(Order)) = Order
        /\ Order # 0
    BY <2>2, OrderIs, OrderFits
  <2>4. IsNum(r', p.x % Order)
    BY <1>6, <2>3, ModuloReduces DEF ClearOperands, IsNum
  <2>5. bn_is_zero(r') <=> Val(r') = 0
    BY <2>4, ZeroIs DEF IsNum
  <2>6. op' = (IF bn_is_zero(r') THEN "draw" ELSE "key") /\ UNCHANGED <<k, z, sb, sbfill, out>>
    BY <1>6 DEF ClearOperands
  <2> QED BY <2>1, <2>4, <2>5, <2>6 DEF SignerHas, SignedAre
<1>7. CASE SignKey
  <2>1. k \in Nums /\ Val(k) \in Scalar /\ z \in Nums /\ ~TooLong(z)
        /\ IsNum(r, XOf(Val(k)) % Order) /\ Val(r) # 0
    BY <1>7 DEF SignKey, SignerHas
  <2>2. CASE BufferFails /\ Leave([fn |-> "error"]) /\ Dead
    BY <2>2 DEF Leave, SignerHas, SignedAre
  <2>3. CASE SecureBuffer /\ s' = Num(MulMod(sb', Val(r))) /\ op' = "inverse"
             /\ UNCHANGED <<out, k, r, z, p>>
    <3>1. sb' \in Nat /\ sbfill' = TRUE
      BY <2>3, OrderIs DEF KeysAre, SecureBuffer
    <3>2. MulMod(sb', Val(r)) \in 0..Order-1
      <4> DEFINE x == sb' * Val(r)
      <4>1. Val(r) \in Nat
        <5>1. Val(r) \in 0..Pow(Radix, Words)-1
          BY <2>1, ValRange DEF IsNum
        <5> QED BY <5>1, RadixIs
      <4>2. x \in Nat
        BY <3>1, <4>1
      <4> HIDE DEF x
      <4>3. x % Order \in 0..Order-1
        BY <4>2, OrderIs, Remainder
      <4> QED BY <4>3 DEF x, MulMod
    <3>3. MulMod(sb', Val(r)) \in 0..Prime
      BY <3>2, OrderIs
    <3>4. IsNum(s', (sb' * Val(r)) % Order)
      BY <2>3, <3>3, OrderFits DEF IsNum, MulMod
    <3>5. SignedAre'
      BY <2>3, <3>1 DEF SignedAre, SecureBuffer
    <3> QED BY <2>1, <2>3, <3>1, <3>4, <3>5 DEF SignerHas
  <2> QED BY <1>7, <2>2, <2>3 DEF SignKey
<1>8. CASE SignInverse
  <2>1. k \in Nums /\ Val(k) \in Scalar /\ z \in Nums /\ ~TooLong(z) /\ sbfill
        /\ IsNum(r, XOf(Val(k)) % Order) /\ Val(r) # 0 /\ IsNum(s, (sb * Val(r)) % Order)
    BY <1>8 DEF SignInverse, SignerHas
  <2>2. k' = Num(InvMod(Val(k), Order)) /\ s' = bn_addmod(s, z, Num(Order)) /\ op' = "product"
        /\ UNCHANGED <<sb, sbfill, r, z, out>>
    BY <1>8 DEF SignInverse
  <2>3. IsNum(k', InvMod(Val(k), Order))
    <3>1. Val(k) \in Nat /\ Val(k) % Order # 0
      BY <2>1, OrderIs, SmallRemainder DEF Scalar
    <3>2. InvMod(Val(k), Order) \in 0..Prime
      BY <3>1, InverseIs, OrderIs
    <3> QED BY <2>2, <3>2, OrderFits DEF IsNum
  <2>4. Val(s) \in 0..Order-1 /\ Val(z) \in Nat /\ Val(z) < Pow(2, Bits)
    <3>1. Val(z) \in 0..Pow(Radix, Words)-1 /\ Val(r) \in 0..Pow(Radix, Words)-1
      BY <2>1, ValRange DEF IsNum
    <3> DEFINE x == sb * Val(r)
    <3>2. x \in Nat
      <4>1. sb \in Nat /\ Val(r) \in Nat
        BY <3>1, OrderIs, RadixIs DEF KeysAre
      <4> QED BY <4>1
    <3> HIDE DEF x
    <3>3. x % Order \in 0..Order-1
      BY <3>2, OrderIs, Remainder
    <3>4. Val(s) = x % Order
      BY <2>1 DEF IsNum, x
    <3> QED BY <2>1, <3>1, <3>3, <3>4, RadixIs, NotTooLong
  <2>5. Val(s) + Val(z) < Pow(Radix, Words)
    BY <2>4, OrderIs, OrderFits
  <2>6. Num(Order) \in Nums /\ Val(Num(Order)) = Order /\ Order # 0
    BY OrderIs, OrderFits
  <2>7. IsNum(s', (Val(s) + Val(z)) % Order)
    BY <2>1, <2>2, <2>5, <2>6, AddModAdds DEF IsNum
  <2>8. IsNum(s', (((sb * Val(r)) % Order) + Val(z)) % Order)
    BY <2>1, <2>7 DEF IsNum
  <2>9. SignedAre'
    BY <2>2 DEF SignedAre
  <2> QED BY <2>1, <2>2, <2>3, <2>8, <2>9 DEF SignerHas, IsNum
<1>9. CASE SignProduct
  <2>1. /\ op = "product" /\ sbfill /\ r \in Nums /\ z \in Nums /\ ~TooLong(z)
    BY <1>9 DEF SignProduct, SignerHas
  <2>2. PICK kk \in Scalar :
             /\ IsNum(k, InvMod(kk, Order)) /\ Val(r) = XOf(kk) % Order /\ Val(r) # 0
             /\ IsNum(s, (((sb * Val(r)) % Order) + Val(z)) % Order)
    BY <2>1 DEF SignerHas
  <2> DEFINE product == Num(MulMod(Val(k), Val(s)))
  <2>3. IsNum(product, (Val(k) * Val(s)) % Order)
    <3> DEFINE x == Val(k) * Val(s)
    <3>1. Val(k) \in 0..Pow(Radix, Words)-1 /\ Val(s) \in 0..Pow(Radix, Words)-1
      BY <2>2, ValRange DEF IsNum
    <3>2. x \in Nat
      <4>1. Val(k) \in Nat /\ Val(s) \in Nat
        BY <3>1, RadixIs
      <4> QED BY <4>1
    <3> HIDE DEF x
    <3>3. x % Order \in 0..Prime
      <4>1. x % Order \in 0..Order-1
        BY <3>2, OrderIs, Remainder
      <4> QED BY <4>1, OrderIs
    <3> QED BY <3>3, OrderFits DEF IsNum, MulMod, x
  <2>4. bn_is_zero(product) <=> Val(product) = 0
    BY <2>3, ZeroIs DEF IsNum
  <2>5. UNCHANGED <<sb, sbfill>> /\
        IF bn_is_zero(product)
        THEN op' = "draw" /\ UNCHANGED <<z, out>>
        ELSE op' = "idle" /\ out' = [fn |-> "signed", r |-> r, s |-> product, z |-> z]
    BY <1>9 DEF SignProduct, Leave
  <2> HIDE DEF product
  <2>6. CASE bn_is_zero(product)
    BY <2>1, <2>5, <2>6 DEF SignerHas, SignedAre
  <2>7. CASE ~bn_is_zero(product)
    <3>1. SignedWith(kk, sb, Val(r), Val(product), Val(z))
      BY <2>2, <2>3, <2>4, <2>7 DEF SignedWith, IsNum, XOf
    <3>2. /\ out'.fn = "signed" /\ out'.r = r /\ out'.s = product /\ out'.z = z /\ op' = "idle"
      BY <2>5, <2>7
    <3> QED BY <2>1, <2>3, <2>5, <3>1, <3>2 DEF SignerHas, SignedAre, IsNum
  <2> QED BY <2>6, <2>7
<1>10. CASE Verify
  BY <1>10 DEF Verify, Enter, Leave, SignerHas, SignedAre
<1> QED BY <1>1, <1>2, <1>3, <1>4, <1>5, <1>6, <1>7, <1>8, <1>9, <1>10 DEF SNext

\* Every step keeps it.
LEMMA SignStep ==
  ASSUME SignInv, [SNext]_svars PROVE SignInv'
<1> USE DEF SignInv
<1>1. CASE UNCHANGED svars
  BY <1>1 DEF svars, KeysAre, SignerHas, SignedAre, AskedIs, VerifyAgrees
<1>2. CASE SNext
  <2>1. SignerHas' /\ SignedAre'
    BY <1>2, SignerStep
  <2>2. KeysAre'
    <3>1. CASE ecdsa_generate_efuse_private_key
      <4>1. PICK d \in Draws : Accepted(d) /\ key' = Val(d)
        BY <3>1 DEF ecdsa_generate_efuse_private_key
      <4>2. key' \in 1..Order-1
        BY <4>1, DrawsAre, AcceptedIs
      <4> QED BY <3>1, <4>2, OrderIs DEF ecdsa_generate_efuse_private_key, KeysAre
    <3>2. CASE ~ecdsa_generate_efuse_private_key
      BY <1>2, <3>2 DEF SNext, ecdsa_get_efuse_public_key, SignStart, DrawNonce, SignPoint,
         ClearOperands, SignKey, SignInverse, SignProduct, Verify, SecureBuffer, BufferFails,
         KeysAre
    <3> QED BY <3>1, <3>2
  <2>3. VerifyAgrees'
    <3>1. CASE Verify
      BY <3>1, VerifiesForeign
    <3>2. CASE out' = out
      BY <3>2 DEF VerifyAgrees
    <3>3. CASE out'.fn # "verified"
      BY <3>3 DEF VerifyAgrees
    <3>4. Verify \/ out' = out \/ out'.fn # "verified"
      BY <1>2 DEF SNext, ecdsa_generate_efuse_private_key, ecdsa_get_efuse_public_key, SignStart,
         DrawNonce, SignPoint, ClearOperands, SignKey, SignInverse, SignProduct, Leave
    <3> QED BY <3>1, <3>2, <3>3, <3>4
  <2>4. AskedIs'
    <3>1. CASE SignStart
      <4>1. PICK m \in Messages :
              IF TooLong(Num(m)) THEN op' = "idle" ELSE z' = Num(m)
        BY <3>1 DEF SignStart, Leave
      <4>2. Val(Num(m)) = m
        BY CurveAssumption, ValOfNum
      <4> QED BY <4>1, <4>2 DEF AskedIs, Hash
    <3>2. CASE ~SignStart
      <4>1. op' = "idle" \/ (op # "idle" /\ z' = z)
        BY <1>2, <3>2 DEF SNext, ecdsa_generate_efuse_private_key, ecdsa_get_efuse_public_key,
           DrawNonce, SignPoint, ClearOperands, SignKey, SignInverse, SignProduct, Verify, Leave
      <4> QED BY <4>1 DEF AskedIs
    <3> QED BY <3>1, <3>2
  <2> QED BY <2>1, <2>2, <2>3, <2>4
<1> QED BY <1>1, <1>2

\* What was signed is valid.
LEMMA SignInvGives == SignInv => SignedVerifies
<1> SUFFICES ASSUME SignInv, out.fn = "signed", sb # 0
             PROVE  LET full == ecp_point_mul(G, sb)
                        pub == [x |-> full.x, y |-> full.y]
                    IN /\ Valid(pub, Val(out.r), Val(out.s), Val(out.z))
                       /\ \/ TurnedDown(pub, Val(out.r), Val(out.s), Val(out.z))
                          \/ ecdsa_verify(pub, out.r, out.s, out.z)
  BY DEF SignedVerifies
<1> DEFINE pub == [x |-> Multiple(G, sb).x, y |-> Multiple(G, sb).y]
<1>1. /\ out.r \in Nums /\ out.s \in Nums /\ out.z \in Nums /\ ~TooLong(out.z)
      /\ \E kk \in Scalar : SignedWith(kk, sb, Val(out.r), Val(out.s), Val(out.z))
  BY DEF SignInv, SignedAre
<1>2. PICK kk \in Scalar : SignedWith(kk, sb, Val(out.r), Val(out.s), Val(out.z))
  BY <1>1
<1>3. sb \in 1..Order-1
  BY OrderIs DEF SignInv, KeysAre
<1>4. Val(out.z) \in Nat
  <2>1. Val(out.z) \in 0..Pow(Radix, Words)-1
    BY <1>1, ValRange
  <2> QED BY <2>1, RadixIs
<1>5. Valid(pub, Val(out.r), Val(out.s), Val(out.z))
  BY <1>2, <1>3, <1>4, SignedIsValid DEF Scalar
<1>6. pub \in Point
  BY <1>5 DEF Valid
<1> HIDE DEF pub
<1>7. TurnedDown(pub, Val(out.r), Val(out.s), Val(out.z)) \/ ecdsa_verify(pub, out.r, out.s, out.z)
  BY <1>1, <1>5, <1>6, VerifyAcceptsExactly
<1> QED BY <1>5, <1>7 DEF pub, ecp_point_mul

\* Signatures are valid and verify, for every curve whose points are a group of
\* prime order and every size of words and numbers, whatever is drawn.
THEOREM SignaturesVerify == SSpec => []SignedVerifies
<1>1. SInit => SignInv
  BY SignInitially
<1>2. SignInv /\ [SNext]_svars => SignInv'
  BY SignStep
<1>3. SignInv => SignedVerifies
  BY SignInvGives
<1> QED BY <1>1, <1>2, <1>3, PTL DEF SSpec

\* ecdsa_verify agrees with the definition of ECDSA.
THEOREM VerificationAgrees == SSpec => []VerifyAgrees
<1>1. SInit => SignInv
  BY SignInitially
<1>2. SignInv /\ [SNext]_svars => SignInv'
  BY SignStep
<1>3. SignInv => VerifyAgrees
  BY DEF SignInv
<1> QED BY <1>1, <1>2, <1>3, PTL DEF SSpec

-----------------------------------------------------------------------------
(* Signer, which answers every call at once.                                *)

\* The parts of what ecdsa_sign returns are scalars, with or without a key.
LEMMA SignedScalars ==
  ASSUME NEW kk \in Scalar, NEW d \in 0..Order-1, NEW zv \in Nat, NEW rv, NEW sv,
         SignedWith(kk, d, rv, sv, zv)
  PROVE  rv \in Scalar /\ sv \in Scalar
<1> DEFINE e == InvMod(kk, Order)  pk == Multiple(G, kk)
<1>1. /\ G \in Point /\ OnCurve(G) /\ Order \in Nat \ {0, 1} /\ kk \in Nat /\ d \in Nat
      /\ kk % Order = kk /\ kk # 0
  BY OrderIs, SmallRemainder DEF Scalar
<1>2. pk \in Curve /\ pk # None
  BY <1>1, MultipleIs, MultipleMod
<1>3. pk.x \in Nat
  <2>1. [x |-> pk.x, y |-> pk.y] \in Point
    BY <1>2, CurveIs
  <2> QED BY <2>1, OrderIs DEF Point
<1>4. rv = pk.x % Order /\ rv # 0
  BY DEF SignedWith
<1>5. rv \in 0..Order-1
  <2> HIDE DEF pk
  <2> QED BY <1>1, <1>3, <1>4, Remainder
<1>6. e \in Nat
  BY <1>1, InverseIs
<1> HIDE DEF e, pk
<1> DEFINE dr == d * rv
<1>7. dr \in Nat
  BY <1>1, <1>5
<1>8. sv = (e * (((dr % Order) + zv) % Order)) % Order /\ sv # 0
  BY DEF SignedWith, e
<1> HIDE DEF dr
<1>9. dr % Order \in Nat
  BY <1>1, <1>7, Remainder
<1> DEFINE n == (dr % Order) + zv  u == n % Order
<1>10. u \in Nat
  <2>1. n \in Nat
    BY <1>9
  <2> HIDE DEF n
  <2> QED BY <1>1, <2>1, Remainder
<1>11. sv = (e * u) % Order
  BY <1>8
<1> HIDE DEF u
<1> DEFINE eu == e * u
<1>12. eu \in Nat
  BY <1>6, <1>10
<1>13. sv = eu % Order
  BY <1>11
<1> HIDE DEF eu
<1>14. sv \in 0..Order-1
  BY <1>1, <1>12, <1>13, Remainder
<1> QED BY <1>1, <1>4, <1>5, <1>8, <1>14 DEF Scalar

\* At first nothing is fused, loaded, asked or answered.
LEMMA PromiseInit == SInit => Promise!GInit
BY DEF SInit, Promise!GInit, requestBar, replyBar

\* Steps that only ecdsa_sign sees.
LEMMA PromiseStutters ==
  ASSUME UNCHANGED <<key, sb, sbfill, z, out>>, op # "idle", op' # "idle"
  PROVE  UNCHANGED Promise!gvars
BY DEF Promise!gvars, requestBar, replyBar

\* The key is generated once.
LEMMA PromiseGenerate ==
  ASSUME SignInv', ecdsa_generate_efuse_private_key PROVE Promise!Generate
<1>1. /\ op = "idle" /\ op' = "idle" /\ key = 0 /\ out' = [fn |-> "generate"]
      /\ UNCHANGED <<sb, sbfill>>
  BY DEF ecdsa_generate_efuse_private_key, Enter, Leave
<1>2. key' \in Scalar
  <2>1. PICK d \in Draws : Accepted(d) /\ key' = Val(d)
    BY DEF ecdsa_generate_efuse_private_key
  <2> QED BY <2>1, DrawsAre, AcceptedIs DEF Scalar
<1>3. replyBar' = [fn |-> "generate"] /\ requestBar = <<>> /\ requestBar' = <<>>
  BY <1>1 DEF replyBar, requestBar
<1> QED BY <1>1, <1>2, <1>3 DEF Promise!Generate

\* What efuse_read_secure_buffer gives is the key in use.
LEMMA PromiseBuffer ==
  ASSUME SecureBuffer, UNCHANGED key
  PROVE  sb' = Promise!InUse /\ sbfill'
BY DEF SecureBuffer, Promise!InUse

\* An error, from wherever it comes.
LEMMA PromiseFail ==
  ASSUME UNCHANGED <<key, sb, sbfill>>, op' = "idle", out' = [fn |-> "error"]
  PROVE  Promise!Fail
BY DEF Promise!Fail, requestBar, replyBar

\* The public half of the key in use is told.
LEMMA PromiseTell ==
  ASSUME SignInv', ecdsa_get_efuse_public_key
  PROVE  Promise!TellPublicKey \/ Promise!Fail
<1>1. op = "idle" /\ op' = "idle" /\ UNCHANGED key
  BY DEF ecdsa_get_efuse_public_key, Enter, Leave
<1>2. CASE BufferFails /\ out' = [fn |-> "error"]
  BY <1>1, <1>2, PromiseFail DEF BufferFails
<1>3. CASE /\ SecureBuffer
           /\ out' = IF sb' = 0 THEN [fn |-> "no_key"]
                     ELSE LET pub == ecp_point_mul(G, sb')
                          IN [fn |-> "pub", x |-> pub.x, odd |-> pub.y % 2]
  <2>1. sb' = Promise!InUse /\ sbfill'
    BY <1>1, <1>3, PromiseBuffer
  <2>2. sb' \in 0..Order-1
    BY DEF SignInv, KeysAre
  <2>3. CASE sb' = 0
    <3>1. replyBar' = [fn |-> "no_key"] /\ requestBar = <<>> /\ requestBar' = <<>>
      BY <1>1, <1>3, <2>3 DEF replyBar, requestBar
    <3> QED BY <1>1, <2>1, <2>3, <3>1 DEF Promise!TellPublicKey
  <2>4. CASE sb' # 0
    <3>1. sb' \in Scalar
      BY <2>2, <2>4, OrderIs DEF Scalar
    <3>2. out' = Halves[sb']
      BY <1>3, <2>4, <3>1 DEF Halves, Half, ecp_point_mul
    <3>3. Halves[sb'].fn = "pub"
      BY <3>1 DEF Halves
    <3>4. replyBar' = Halves[sb'] /\ requestBar = <<>> /\ requestBar' = <<>>
      BY <1>1, <3>2, <3>3 DEF replyBar, requestBar
    <3> QED BY <1>1, <2>1, <2>4, <3>4 DEF Promise!TellPublicKey
  <2> QED BY <2>3, <2>4
<1> QED BY <1>2, <1>3 DEF ecdsa_get_efuse_public_key, Leave

\* A signature is asked for, unless the hash is too long.
LEMMA PromiseAsk ==
  ASSUME SignStart
  PROVE  (\E m \in Hash : Promise!Ask(m)) \/ Promise!Fail
<1>1. op = "idle" /\ UNCHANGED <<key, sb, sbfill>>
  BY DEF SignStart, Enter
<1>2. PICK m \in Messages :
        IF TooLong(Num(m)) THEN op' = "idle" /\ out' = [fn |-> "error"]
        ELSE op' = "draw" /\ z' = Num(m) /\ out' = [fn |-> "none"]
  BY DEF SignStart, Leave
<1>3. CASE TooLong(Num(m))
  BY <1>1, <1>2, <1>3, PromiseFail
<1>4. CASE ~TooLong(Num(m))
  <2>1. m \in Hash /\ Val(Num(m)) = m
    BY <1>4, CurveAssumption, ValOfNum DEF Hash
  <2>2. requestBar = <<>> /\ requestBar' = <<m>> /\ replyBar' = [fn |-> "none"]
    BY <1>1, <1>2, <1>4, <2>1 DEF requestBar, replyBar
  <2> QED BY <1>1, <2>1, <2>2 DEF Promise!Ask
<1> QED BY <1>3, <1>4

\* The key is loaded, if it was not, or the fuses cannot be read.
LEMMA PromiseKey ==
  ASSUME SignKey
  PROVE  Promise!Load \/ Promise!Fail \/ UNCHANGED Promise!gvars
<1>1. op = "key" /\ UNCHANGED key
  BY DEF SignKey
<1>2. CASE BufferFails /\ Leave([fn |-> "error"])
  BY <1>1, <1>2, PromiseFail DEF BufferFails, Leave
<1>3. CASE SecureBuffer /\ op' = "inverse" /\ UNCHANGED <<out, z>>
  <2>1. sb' = Promise!InUse /\ sbfill'
    BY <1>1, <1>3, PromiseBuffer
  <2>2. CASE sbfill
    <3>1. sb' = sb /\ sbfill' = sbfill
      BY <1>3, <2>2 DEF SecureBuffer
    <3> QED BY <1>1, <1>3, <3>1, PromiseStutters
  <2>3. CASE ~sbfill
    <3>1. requestBar # <<>> /\ requestBar' = requestBar /\ replyBar' = replyBar /\ sb' = key
      BY <1>1, <1>3, <2>3 DEF requestBar, replyBar, SecureBuffer
    <3> QED BY <1>1, <2>1, <2>3, <3>1 DEF Promise!Load
  <2> QED BY <2>2, <2>3
<1> QED BY <1>2, <1>3 DEF SignKey

\* The signature is one of the hash that was asked for.
LEMMA PromiseSign ==
  ASSUME SignInv, SignInv', SignProduct, op' = "idle"
  PROVE  Promise!Sign
<1> DEFINE rr == Val(out'.r)  ss == Val(out'.s)  zz == Val(z)
<1>1. /\ op = "product" /\ UNCHANGED <<key, sb, sbfill>>
      /\ out'.fn = "signed" /\ out'.z = z
      /\ zz \in Hash /\ sb \in 0..Order-1
  BY DEF SignProduct, Leave, SignInv, AskedIs, KeysAre
<1>2. sbfill /\ out'.z \in Nums
  BY <1>1 DEF SignInv, SignedAre
<1>3. PICK kk \in Scalar : SignedWith(kk, sb, rr, ss, zz)
  BY <1>1 DEF SignInv, SignedAre
<1>4. zz \in Nat
  <2>1. zz \in 0..Pow(Radix, Words)-1
    BY <1>1, <1>2, ValRange
  <2> QED BY <2>1, RadixIs
<1> HIDE DEF rr, ss, zz
<1>5. rr \in Scalar /\ ss \in Scalar
  BY <1>1, <1>3, <1>4, SignedScalars
<1>6. ASSUME sb # 0 PROVE <<rr, ss>> \in ValidUnder[sb][zz]
  <2>1. sb \in Scalar /\ sb \in 1..Order-1 /\ kk \in 1..Order-1
    BY <1>1, <1>6, OrderIs DEF Scalar
  <2>2. Valid(Half(sb), rr, ss, zz)
    BY <1>3, <1>4, <2>1, SignedIsValid DEF Half
  <2>3. ValidUnder[sb][zz] = {rs \in Scalar \X Scalar : Valid(Half(sb), rs[1], rs[2], zz)}
    BY <1>1, <2>1 DEF ValidUnder
  <2> DEFINE rs == <<rr, ss>>
  <2>4. rs \in Scalar \X Scalar /\ rs[1] = rr /\ rs[2] = ss
    BY <1>5
  <2> HIDE DEF rs
  <2>5. rs \in ValidUnder[sb][zz]
    BY <2>2, <2>3, <2>4
  <2> QED BY <2>5 DEF rs
<1>7. requestBar = <<zz>> /\ requestBar' = <<>>
  BY <1>1 DEF requestBar, zz
<1>8. replyBar' = [fn |-> "signed", r |-> rr, s |-> ss, z |-> zz]
  BY <1>1 DEF replyBar, rr, ss, zz
<1> DEFINE using == IF sbfill THEN <<sb>> ELSE <<>>
<1>9. using # <<>> /\ using[1] = sb /\ requestBar[1] = zz /\ requestBar # <<>>
  BY <1>2, <1>7
<1> HIDE DEF using
<1>10. /\ using[1] # 0 => <<rr, ss>> \in ValidUnder[using[1]][requestBar[1]]
       /\ replyBar' = [fn |-> "signed", r |-> rr, s |-> ss, z |-> requestBar[1]]
  BY <1>6, <1>8, <1>9
<1>11. UNCHANGED <<key, using>>
  BY <1>1 DEF using
<1> QED BY <1>5, <1>7, <1>9, <1>10, <1>11 DEF Promise!Sign, using

\* A verdict is the right one.
LEMMA PromiseVerdict ==
  ASSUME Verify PROVE Promise!Answer
<1>1. PICK f \in Foreign : out' = [fn |-> "verified", of |-> f,
                                   ok |-> ecdsa_verify(f.pub, Num(f.r), Num(f.s), Num(f.z))]
  BY DEF Verify, Leave
<1>2. /\ f.pub \in Point /\ Num(f.r) \in Nums /\ Num(f.s) \in Nums /\ Num(f.z) \in Nums
      /\ Val(Num(f.r)) = f.r /\ Val(Num(f.s)) = f.s /\ Val(Num(f.z)) = f.z
  BY ForeignAssumption, ValOfNum
<1>3. ecdsa_verify(f.pub, Num(f.r), Num(f.s), Num(f.z)) = Accepts(f)
  <2>1. ecdsa_verify(f.pub, Num(f.r), Num(f.s), Num(f.z)) <=> Accepts(f)
    BY <1>2, VerifyAcceptsExactly DEF Accepts
  <2>2. ecdsa_verify(f.pub, Num(f.r), Num(f.s), Num(f.z)) \in BOOLEAN /\ Accepts(f) \in BOOLEAN
    BY DEF ecdsa_verify, Accepts
  <2> QED BY <2>1, <2>2
<1>4. out' \in Judged
  BY <1>1, <1>3 DEF Judged
<1>5. op = "idle" /\ op' = "idle" /\ UNCHANGED <<key, sb, sbfill>> /\ out'.fn = "verified"
  BY <1>1 DEF Verify, Enter, Leave
<1>6. replyBar' = out' /\ requestBar = <<>> /\ requestBar' = <<>>
  BY <1>5 DEF replyBar, requestBar
<1> QED BY <1>4, <1>5, <1>6 DEF Promise!Answer

\* Every step of a call is one of Signer's, or invisible.
LEMMA PromiseStep ==
  ASSUME SignInv, SignInv', [SNext]_svars
  PROVE  [Promise!GNext]_Promise!gvars
<1>1. CASE UNCHANGED svars
  BY <1>1 DEF svars, Promise!gvars, requestBar, replyBar
<1>2. CASE ecdsa_generate_efuse_private_key
  BY <1>2, PromiseGenerate DEF Promise!GNext
<1>3. CASE ecdsa_get_efuse_public_key
  BY <1>3, PromiseTell DEF Promise!GNext
<1>4. CASE SignStart
  BY <1>4, PromiseAsk DEF Promise!GNext
<1>5. CASE DrawNonce \/ SignPoint \/ ClearOperands \/ SignInverse
  <2>1. UNCHANGED <<key, sb, sbfill, z, out>> /\ op # "idle" /\ op' # "idle"
    BY <1>5 DEF DrawNonce, SignPoint, ClearOperands, SignInverse
  <2> QED BY <2>1, PromiseStutters
<1>6. CASE SignKey
  BY <1>6, PromiseKey DEF Promise!GNext
<1>7. CASE SignProduct
  <2>1. CASE op' = "idle"
    BY <1>7, <2>1, PromiseSign DEF Promise!GNext
  <2>2. CASE op' # "idle"
    <3>1. UNCHANGED <<key, sb, sbfill, z, out>> /\ op # "idle"
      BY <1>7, <2>2 DEF SignProduct, Leave
    <3> QED BY <2>2, <3>1, PromiseStutters
  <2> QED BY <2>1, <2>2
<1>8. CASE Verify
  BY <1>8, PromiseVerdict DEF Promise!GNext
<1> QED BY <1>1, <1>2, <1>3, <1>4, <1>5, <1>6, <1>7, <1>8 DEF SNext

(* The functions of crypto.c, which work on words and call coprocessors,    *)
(* draw nonces again and read the fuses when they must, implement Signer,   *)
(* for every curve, word size and set of hashes.                            *)
THEOREM SigningRefinement == SSpec => ImplementsSigner
<1>1. SInit => SignInv /\ Promise!GInit
  BY SignInitially, PromiseInit
<1>2. SignInv /\ [SNext]_svars => SignInv'
  BY SignStep
<1>3. SignInv /\ SignInv' /\ [SNext]_svars => [Promise!GNext]_Promise!gvars
  BY PromiseStep
<1> QED BY <1>1, <1>2, <1>3, PTL DEF SSpec, ImplementsSigner, Promise!GSpec

-----------------------------------------------------------------------------
(***************************************************************************)
(* The board, for all widths of the fields of the fuses, all boards and    *)
(* whatever is deployed to them.                                           *)
(***************************************************************************)
(***************************************************************************)
(* What a row holds, for all widths of its fields.                         *)
(***************************************************************************)
\* How many values the fields have.
LoN == Pow(2, LowBits)
HiN == Pow(2, HighBits)
VerN == Pow(2, VersionBits)
MacN == Pow(2, MacBits)

\* The widths, one by one.
LEMMA Widths ==
  /\ LowBits \in Nat /\ HighBits \in Nat /\ VersionBits \in Nat
  /\ MacBits \in Nat /\ DeviceAt \in Nat
  /\ LoN \in Nat \ {0} /\ HiN \in Nat \ {0} /\ VerN \in Nat \ {0} /\ MacN \in Nat \ {0}
  /\ MacN = LoN * HiN /\ Pow(2, DeviceAt) = MacN * VerN /\ Pow(2, 2) = 4
  /\ Pow(2, DeviceAt + 2) = (MacN * VerN) * 4 /\ Pow(2, VersionBits + 2) = VerN * 4
<1>1. /\ LowBits \in Nat /\ HighBits \in Nat /\ VersionBits \in Nat
      /\ MacBits \in Nat /\ DeviceAt \in Nat /\ 2 \in Nat \ {0}
  BY WidthsAssumption DEF MacBits, DeviceAt
<1>2. LoN \in Nat \ {0} /\ HiN \in Nat \ {0} /\ VerN \in Nat \ {0} /\ MacN \in Nat \ {0}
  BY <1>1, PowPositive DEF LoN, HiN, VerN, MacN
<1>3. Pow(2, 2) = 4
  <2>1. Pow(2, 0) = 1 /\ Pow(2, 0 + 1) = 2 * Pow(2, 0) /\ Pow(2, 1 + 1) = 2 * Pow(2, 1)
    BY PowIs
  <2> QED BY <2>1
<1>4. MacN = LoN * HiN
  BY <1>1, PowAdd DEF MacN, LoN, HiN, MacBits
<1>5. Pow(2, DeviceAt) = MacN * VerN
  BY <1>1, PowAdd DEF MacN, VerN, DeviceAt
<1>6. Pow(2, DeviceAt + 2) = Pow(2, DeviceAt) * Pow(2, 2)
  BY <1>1, PowAdd
<1>7. Pow(2, VersionBits + 2) = VerN * Pow(2, 2)
  BY <1>1, PowAdd DEF VerN
<1> QED BY <1>1, <1>2, <1>3, <1>4, <1>5, <1>6, <1>7

\* The fields of a row with q above the MAC address m.
LEMMA FieldsAre ==
  ASSUME NEW q \in Nat, NEW m \in 0..MacN-1, NEW x, x = MacN * q + m
  PROVE  /\ Extract(x, LowBits, HighBits) * LoN + (x % LoN) = m
         /\ Extract(x, LowBits, HighBits) = m \div LoN /\ x % LoN = m % LoN
         /\ Extract(x, MacBits, VersionBits) = q % VerN
         /\ Extract(x, DeviceAt, 2) = (q \div VerN) % 4
         /\ Extract(x, DeviceAt + 2, 2) = ((q \div VerN) \div 4) % 4
<1>1. x \in Nat /\ Splits(x, MacN, q, m)
  <2>1. MacN \in Nat /\ MacN # 0
    BY Widths
  <2> HIDE DEF MacN
  <2>2. MacN * q \in Nat /\ m \in Nat
    BY <2>1
  <2> QED BY <2>1, <2>2 DEF Splits
<1>2. x \div MacN = q /\ x % MacN = m
  BY <1>1, QuotientOnly, RemainderOnly
<1>3. x % LoN = m % LoN /\ Extract(x, LowBits, HighBits) = m \div LoN
  <2>1. LoN \in Nat \ {0} /\ HiN \in Nat \ {0} /\ LoN * HiN = MacN
    BY Widths
  <2>2. (x % (LoN * HiN)) % LoN = x % LoN /\ (x % (LoN * HiN)) \div LoN = (x \div LoN) % HiN
    <3>1. x \in Nat
      BY <1>1
    <3> QED BY <2>1, <3>1, Nested
  <2>3. x % (LoN * HiN) = m
    BY <1>2, <2>1
  <2>4. Extract(x, LowBits, HighBits) = (x \div LoN) % HiN
    BY DEF Extract, LoN, HiN
  <2> QED BY <2>2, <2>3, <2>4
<1>4. m \div LoN \in Nat /\ m % LoN \in 0..LoN-1 /\ m = LoN * (m \div LoN) + (m % LoN)
  <2>1. LoN \in Nat \ {0} /\ m \in Nat
    BY Widths
  <2> QED BY <2>1, Remainder
<1>5. Extract(x, MacBits, VersionBits) = q % VerN
  BY <1>2 DEF Extract, MacN, VerN
<1>6. x \div (MacN * VerN) = q \div VerN
  <2>1. MacN \in Nat \ {0} /\ VerN \in Nat \ {0}
    BY Widths
  <2>2. (x \div MacN) \div VerN = x \div (MacN * VerN)
    BY <1>1, <2>1, Nested
  <2> QED BY <1>2, <2>2
<1>7. x \div ((MacN * VerN) * 4) = (q \div VerN) \div 4
  <2>1. MacN * VerN \in Nat \ {0} /\ 4 \in Nat \ {0}
    BY Widths
  <2>2. (x \div (MacN * VerN)) \div 4 = x \div ((MacN * VerN) * 4)
    BY <1>1, <2>1, Nested
  <2> QED BY <1>6, <2>2
<1>8. /\ Extract(x, DeviceAt, 2) = (q \div VerN) % 4
      /\ Extract(x, DeviceAt + 2, 2) = ((q \div VerN) \div 4) % 4
  BY <1>6, <1>7, Widths DEF Extract
<1>9. Extract(x, LowBits, HighBits) * LoN = LoN * (m \div LoN)
  <2> DEFINE e == m \div LoN
  <2>1. e \in Nat /\ LoN \in Nat
    BY <1>4, Widths
  <2> HIDE DEF e
  <2>2. e * LoN = LoN * e
    BY <2>1
  <2> QED BY <1>3, <2>2 DEF e
<1>10. Extract(x, LowBits, HighBits) * LoN + (x % LoN) = m
  <2> DEFINE e == Extract(x, LowBits, HighBits) * LoN  d == LoN * (m \div LoN)
             u == x % LoN  n == m % LoN
  <2>1. e = d /\ u = n /\ m = d + n
    BY <1>3, <1>4, <1>9
  <2> HIDE DEF e, d, u, n
  <2>2. e + u = m
    BY <2>1
  <2> QED BY <2>2 DEF e, u
<1> QED BY <1>3, <1>5, <1>8, <1>10

\* What is deployed.
Code == ram_size_code
Ver  == mbd.version % Pow(2, VersionBits + 2)
High == mbd.mac_high % HiN
Mac  == LoN * High + mbd.mac_low
Deployed == /\ {mbd.serial_high, mbd.mac_high, mbd.version} \subseteq Nat
            /\ {mbd.serial_low, mbd.mac_low} \subseteq 0..LoN-1
            /\ Code \in 0..3

\* Row 42 from the MAC address upwards.
LEMMA InfoRowIs ==
  ASSUME Deployed
  PROVE  /\ Ver \in 0..VerN*4-1 /\ High \in 0..HiN-1 /\ Mac \in 0..MacN-1
         /\ InfoRow = MacN * ((VerN * 4) * Code + Ver) + Mac
         /\ Mac \div LoN = High /\ Mac % LoN = mbd.mac_low
<1>1. /\ mbd.version \in Nat /\ mbd.mac_high \in Nat /\ mbd.mac_low \in 0..LoN-1 /\ Code \in 0..3
      /\ LoN \in Nat \ {0} /\ HiN \in Nat \ {0} /\ VerN \in Nat \ {0} /\ MacN \in Nat \ {0}
      /\ MacN = LoN * HiN
      /\ VerN * 4 \in Nat \ {0}
  BY Widths DEF Deployed
<1>2. Ver \in 0..VerN*4-1
  <2>1. mbd.version % (VerN * 4) \in 0..VerN*4-1
    BY <1>1, Remainder
  <2> QED BY <2>1, Widths DEF Ver
<1>3. High \in 0..HiN-1
  BY <1>1, Remainder DEF High
<1>4. Mac \in 0..MacN-1
  <2> DEFINE h == High
  <2>1. h \in 0..HiN-1
    BY <1>3
  <2> HIDE DEF h
  <2>2. LoN * h <= LoN * (HiN - 1) /\ LoN * h \in Nat
    BY <1>1, <2>1
  <2>3. LoN * (HiN - 1) = MacN - LoN
    BY <1>1
  <2> QED BY <1>1, <2>2, <2>3 DEF Mac, h
<1>5. Splits(Mac, LoN, High, mbd.mac_low)
  BY <1>1, <1>3, <1>4 DEF Splits, Mac
<1>6. Mac \div LoN = High /\ Mac % LoN = mbd.mac_low
  BY <1>5, QuotientOnly, RemainderOnly
<1>7. InfoRow = MacN * ((VerN * 4) * Code + Ver) + Mac
  <2> DEFINE h == High  c == Code  v == Ver  w == mbd.mac_low
  <2>1. h \in Nat /\ c \in Nat /\ v \in Nat /\ w \in Nat
    BY <1>1, <1>2, <1>3
  <2>2. InfoRow = c * ((MacN * VerN) * 4) + v * MacN + h * LoN + w
    BY Widths DEF InfoRow, Code, Ver, High, HiN, LoN, MacN
  <2>3. Mac = LoN * h + w
    BY DEF Mac
  <2> HIDE DEF h, c, v, w
  <2>4. c * ((MacN * VerN) * 4) + v * MacN = MacN * ((VerN * 4) * c + v)
    BY <1>1, <2>1
  <2>5. h * LoN = LoN * h
    BY <1>1, <2>1
  <2> QED BY <1>1, <2>1, <2>2, <2>3, <2>4, <2>5 DEF c, v
<1> QED BY <1>2, <1>3, <1>4, <1>6, <1>7

\* What is above the MAC address.
AboveMac == (VerN * 4) * Code + Ver

\* Version, device and size of the RAM.
LEMMA AboveIs ==
  ASSUME Deployed
  PROVE  /\ AboveMac \in Nat /\ AboveMac % VerN = mbd.version % VerN
         /\ (AboveMac \div VerN) % 4 = (mbd.version \div VerN) % 4
         /\ ((AboveMac \div VerN) \div 4) % 4 = Code
<1>1. mbd.version \in Nat /\ Code \in 0..3 /\ VerN \in Nat \ {0} /\ Ver = mbd.version % (VerN * 4)
      /\ 4 \in Nat \ {0}
  BY Widths DEF Deployed, Ver
<1>2. Ver \in 0..VerN*4-1
  BY InfoRowIs
<1> DEFINE n == mbd.version  c == Code  v == Ver  d == (n \div VerN) % 4  u == n % VerN
           e == n \div VerN
<1>3. v % VerN = u /\ v \div VerN = d
  BY <1>1, Nested
<1>4. u \in 0..VerN-1 /\ e \in Nat
  BY <1>1, Remainder
<1>5. d \in 0..3
  <2> HIDE DEF e
  <2>1. e % 4 \in 0..3
    BY <1>4
  <2> QED BY <2>1 DEF e
<1>6. v = VerN * d + u
  <2>1. v \in Nat /\ VerN \in Nat \ {0}
    BY <1>1, <1>2
  <2>2. v = VerN * (v \div VerN) + (v % VerN)
    BY <2>1, Remainder
  <2> QED BY <1>3, <2>2
<1>7. AboveMac = (VerN * 4) * c + v
  BY DEF AboveMac
<1>8. v \in Nat /\ c \in 0..3
  BY <1>1, <1>2
<1> HIDE DEF n, c, v, d, u, e
<1>9. AboveMac = VerN * (4 * c + d) + u
  <2>1. VerN * (4 * c + d) = (VerN * 4) * c + VerN * d
    BY <1>1, <1>5, <1>8
  <2>2. (VerN * 4) * c \in Nat /\ VerN * d \in Nat
    BY <1>1, <1>5, <1>8
  <2> QED BY <1>4, <1>6, <1>7, <2>1, <2>2
<1>10. AboveMac \in Nat /\ 4 * c + d \in Nat
  <2>1. (VerN * 4) * c \in Nat
    BY <1>1, <1>8
  <2> QED BY <1>5, <1>7, <1>8, <2>1
<1>11. Splits(AboveMac, VerN, 4 * c + d, u)
  BY <1>1, <1>4, <1>9, <1>10 DEF Splits
<1>12. AboveMac % VerN = u /\ AboveMac \div VerN = 4 * c + d
  BY <1>11, QuotientOnly, RemainderOnly
<1>13. (4 * c + d) % 4 = d /\ (4 * c + d) \div 4 = c /\ c % 4 = c
  BY <1>5, <1>8
<1> QED BY <1>10, <1>12, <1>13 DEF n, c, d, u, e

\* The fields of row 42, and of the row with the next address in it.
LEMMA FieldsOfRow ==
  ASSUME Deployed
  PROVE  /\ <<Extract(InfoRow, LowBits, HighBits), InfoRow % LoN>> = <<High, mbd.mac_low>>
         /\ Extract(InfoRow, LowBits, HighBits) * LoN + (InfoRow % LoN) = Mac
         /\ Extract(InfoRow, MacBits, VersionBits) = mbd.version % VerN
         /\ Extract(InfoRow, DeviceAt, 2) = (mbd.version \div VerN) % 4
         /\ Extract(InfoRow, DeviceAt + 2, 2) = Code
         /\ Mac # MacN - 1 =>
              /\ Extract(InfoRow + 1, LowBits, HighBits) * LoN + ((InfoRow + 1) % LoN) = Mac + 1
              /\ Extract(InfoRow + 1, DeviceAt, 2) = (mbd.version \div VerN) % 4
<1> DEFINE q == AboveMac  m == Mac
<1>1. q \in Nat /\ q % VerN = mbd.version % VerN /\ (q \div VerN) % 4 = (mbd.version \div VerN) % 4
      /\ ((q \div VerN) \div 4) % 4 = Code
  BY AboveIs
<1>2. m \in 0..MacN-1 /\ InfoRow = MacN * q + m /\ m \div LoN = High /\ m % LoN = mbd.mac_low
  BY InfoRowIs DEF AboveMac
<1> HIDE DEF q, m
<1>3. /\ Extract(InfoRow, LowBits, HighBits) * LoN + (InfoRow % LoN) = m
      /\ Extract(InfoRow, LowBits, HighBits) = m \div LoN /\ InfoRow % LoN = m % LoN
      /\ Extract(InfoRow, MacBits, VersionBits) = q % VerN
      /\ Extract(InfoRow, DeviceAt, 2) = (q \div VerN) % 4
      /\ Extract(InfoRow, DeviceAt + 2, 2) = ((q \div VerN) \div 4) % 4
  BY <1>1, <1>2, FieldsAre
<1>4. ASSUME m # MacN - 1
      PROVE  /\ Extract(InfoRow + 1, LowBits, HighBits) * LoN + ((InfoRow + 1) % LoN) = m + 1
             /\ Extract(InfoRow + 1, DeviceAt, 2) = (q \div VerN) % 4
  <2>1. MacN \in Nat
    BY Widths
  <2>2. m + 1 \in 0..MacN-1
    BY <1>2, <1>4, <2>1
  <2>3. InfoRow + 1 = MacN * q + (m + 1)
    <3>1. MacN * q \in Nat
      BY <1>1, <2>1
    <3> QED BY <1>2, <3>1
  <2> QED BY <1>1, <2>2, <2>3, FieldsAre
<1> QED BY <1>1, <1>2, <1>3, <1>4 DEF m

-----------------------------------------------------------------------------
\* One of the boards, with what is deployed to it.
OneBoard == hw \in Wired /\ mbd \in Deployments[hw.name]

\* A row is blank or holds what is deployed.
RowsHold ==
  /\ row42 = BlankRow \/ (row42.val = InfoRow /\ hw.name \in Deployable /\ Code \in 0..3)
  /\ row43 = BlankRow \/ (row43.val = SerialRow /\ hw.name \in Deployable)

PhysLeaveOpen == FirstTests(hw.mdio) = "page"
Untouched     == gpio = hw.gpio /\ mdio_pins_disable = FALSE /\ page = 0
PinsTaken     == gpio = FALSE /\ mdio_pins_disable = hw.gpio

\* The answer is that of the bus and the flash, or what the locked row says.
Told42 == /\ row42.lock /\ hw.name \in Deployable
          /\ IF row42.ecc THEN board = hw.name ELSE board \in Deployable

\* Where get_board is tells what it knows, and what it has switched; the command
\* comes after it.
PlaceKnows ==
  \/ /\ bpc \in {"reset", "name", "begin"} /\ board = "unknown" /\ Untouched
     /\ board_info = NoReply
  \/ /\ bpc \in {"sn", "bver"} /\ board = "unknown" /\ Untouched
     /\ hw.name \in Deployable /\ Code \in 0..3 /\ board_info = NoReply
  \/ bpc = "phys" /\ board = "unknown" /\ PinsTaken /\ page = 0 /\ board_info = NoReply
  \/ /\ bpc = "page" /\ PinsTaken /\ page = 0 /\ PhysLeaveOpen
     /\ board_info = NoReply
  \/ /\ bpc = "id" /\ PinsTaken /\ page = 18 /\ PhysLeaveOpen
     /\ board_info = NoReply
  \/ /\ bpc = "flash" /\ PinsTaken /\ page = 0 /\ PhysLeaveOpen /\ hw.id151x # 6
     /\ board_info = NoReply
  \/ bpc = "end" /\ board = Fallback /\ PinsTaken /\ page = 0 /\ board_info = NoReply
  \/ bpc = "run" /\ Untouched /\ (board = Fallback \/ Told42)

BoardInv == OneBoard /\ RowsHold /\ PlaceKnows /\ InfoAsDeployed

\* What is deployed fits its fields.
LEMMA DeployedIs ==
  ASSUME OneBoard, hw.name \in Deployable
  PROVE  /\ {mbd.serial_high, mbd.mac_high, mbd.version} \subseteq Nat
         /\ {mbd.serial_low, mbd.mac_low} \subseteq 0..LoN-1
         /\ (hw.name = "RIPE_Atlas") = ((mbd.version \div VerN) % 4 = 2)
         /\ Code \in -1..3
         /\ Code \in 0..3 => Deployed
<1>1. /\ {mbd.serial_high, mbd.mac_high, mbd.version} \subseteq Nat
      /\ {mbd.serial_low, mbd.mac_low} \subseteq 0..LoN-1
      /\ hw.name = "RIPE_Atlas" <=> (mbd.version \div VerN) % 4 = 2
      /\ hw.ram \in -1..3
  BY DeploymentsAssumption DEF OneBoard, LoN, VerN
<1>2. Code \in -1..3
  BY <1>1 DEF Code, ram_size_code
<1> QED BY <1>1, <1>2 DEF Deployed

\* With its ECC byte in, a row is read as it is.
LEMMA ReadsExactly ==
  ASSUME NEW row, NEW n, row.ecc, NEW v \in ReadsAs(row, n)
  PROVE  v = row.val
BY DEF ReadsAs

\* The device in the fuses is the board.
LEMMA FusesTell ==
  ASSUME BoardInv, row42.lock
  PROVE  hw.name \in Deployable /\ BoardOfFuses(row42.val) = hw.name
<1>1. row42.val = InfoRow /\ hw.name \in Deployable /\ Code \in 0..3
  BY DEF BoardInv, RowsHold, BlankRow, RowOf
<1>2. Deployed /\ (hw.name = "RIPE_Atlas") = ((mbd.version \div VerN) % 4 = 2)
  BY <1>1, DeployedIs DEF BoardInv
<1>3. Extract(row42.val, DeviceAt, 2) = (mbd.version \div VerN) % 4
  BY <1>1, <1>2, FieldsOfRow
<1> QED BY <1>1, <1>2, <1>3 DEF BoardOfFuses, Deployable

\* Whatever is read of the row is one of the two boards.
LEMMA FusesTellOne ==
  ASSUME NEW v
  PROVE  BoardOfFuses(v) \in Deployable
BY DEF BoardOfFuses, Deployable

\* A serial number in its row is read in its halves.
LEMMA SerialTold ==
  ASSUME BoardInv, row43.lock, Deployed
  PROVE  /\ row43.val % LoN = mbd.serial_low
         /\ row43.val \div LoN = mbd.serial_high
<1> DEFINE h == mbd.serial_high  w == mbd.serial_low
<1>1. h \in Nat /\ w \in 0..LoN-1 /\ LoN \in Nat \ {0}
  BY Widths DEF Deployed
<1>2. row43.val = h * LoN + w
  BY DEF SerialRow, LoN, BoardInv, RowsHold, BlankRow, RowOf
<1> HIDE DEF h, w
<1>3. h * LoN = LoN * h /\ LoN * h \in Nat
  BY <1>1
<1>4. Splits(row43.val, LoN, h, w)
  BY <1>1, <1>2, <1>3 DEF Splits
<1> QED BY <1>4, QuotientOnly, RemainderOnly DEF h, w

\* A reply is as deployed.
LEMMA RepliesAsDeployed ==
  ASSUME BoardInv, cmd_board_info
  PROVE  InfoAsDeployed'
<1> SUFFICES ASSUME board_info'.sts = "OK" PROVE InfoAsDeployed'
  BY DEF InfoAsDeployed
<1>1. row42.lock /\ row43.lock /\ UNCHANGED <<hw, mbd, row42, row43>>
  BY DEF cmd_board_info
<1>2. PICK v \in ReadsAs(row42, DeviceAt + 4), sn \in ReadsAs(row43, 2 * LowBits) :
           board_info' =
             [sts     |-> "OK",
              serial  |-> <<sn % Pow(2, LowBits), sn \div Pow(2, LowBits)>>,
              version |-> Extract(v, MacBits, VersionBits),
              ram     |-> 512 * Pow(2, Extract(v, DeviceAt + 2, 2)),
              mac     |-> <<Extract(v, LowBits, HighBits), v % Pow(2, LowBits)>>,
              next    |-> <<Extract(v + 1, LowBits, HighBits), (v + 1) % Pow(2, LowBits)>>,
              device  |-> Extract(v + 1, DeviceAt, 2)]
  BY DEF cmd_board_info, NextMac
<1>3. row42.val = InfoRow /\ hw.name \in Deployable /\ Code \in 0..3
  BY <1>1 DEF BoardInv, RowsHold, BlankRow, RowOf
<1>4. Deployed
  BY <1>3, DeployedIs DEF BoardInv
<1> DEFINE Mac42(a) == a[1] * Pow(2, LowBits) + a[2]
           Of42 ==
             /\ board_info'.mac = <<mbd.mac_high % Pow(2, HighBits), mbd.mac_low>>
             /\ Mac42(board_info'.mac) # Pow(2, MacBits) - 1 =>
                  /\ Mac42(board_info'.next) = Mac42(board_info'.mac) + 1
                  /\ board_info'.device = Extract(mbd.version, VersionBits, 2)
             /\ board_info'.version = mbd.version % Pow(2, VersionBits)
             /\ board_info'.ram = 512 * Pow(2, ram_size_code)
<1>5. row43.ecc => board_info'.serial = <<mbd.serial_low, mbd.serial_high>>
  BY <1>1, <1>2, <1>4, SerialTold, ReadsExactly DEF LoN
<1>6. ASSUME row42.ecc PROVE Of42
  <2>1. v = InfoRow
    BY <1>2, <1>3, <1>6, ReadsExactly
  <2>2. /\ board_info'.version = mbd.version % VerN
        /\ board_info'.ram = 512 * Pow(2, Code)
        /\ board_info'.mac = <<High, mbd.mac_low>>
        /\ board_info'.next = <<Extract(InfoRow + 1, LowBits, HighBits), (InfoRow + 1) % LoN>>
        /\ board_info'.device = Extract(InfoRow + 1, DeviceAt, 2)
    BY <1>2, <1>3, <1>4, <2>1, FieldsOfRow DEF LoN
  <2>3. High * LoN + mbd.mac_low = Mac
    <3>1. <<Extract(InfoRow, LowBits, HighBits), InfoRow % LoN>> = <<High, mbd.mac_low>>
          /\ Extract(InfoRow, LowBits, HighBits) * LoN + (InfoRow % LoN) = Mac
      BY <1>4, FieldsOfRow
    <3> QED BY <3>1
  <2>4. /\ High * Pow(2, LowBits) + mbd.mac_low # Pow(2, MacBits) - 1 =>
             /\ Extract(InfoRow + 1, LowBits, HighBits) * Pow(2, LowBits) + ((InfoRow + 1) % LoN)
                  = (High * Pow(2, LowBits) + mbd.mac_low) + 1
             /\ Extract(InfoRow + 1, DeviceAt, 2) = Extract(mbd.version, VersionBits, 2)
        /\ High = mbd.mac_high % Pow(2, HighBits) /\ VerN = Pow(2, VersionBits)
        /\ Code = ram_size_code
    <3>1. Extract(mbd.version, VersionBits, 2) = (mbd.version \div VerN) % 4
      BY Widths DEF Extract, VerN
    <3> QED BY <1>4, <2>3, <3>1, FieldsOfRow DEF LoN, MacN, High, HiN, VerN, Code
  <2> QED BY <2>2, <2>4
<1>7. InfoAsDeployed' =
        (board_info'.sts = "OK" =>
           /\ row43.ecc => board_info'.serial = <<mbd.serial_low, mbd.serial_high>>
           /\ row42.ecc => Of42)
  BY <1>1 DEF InfoAsDeployed, ram_size_code, is_ripe
<1> QED BY <1>5, <1>6, <1>7

\* At first.
LEMMA BoardInitially == BInit => BoardInv
<1> SUFFICES ASSUME BInit PROVE BoardInv
  OBVIOUS
<1> QED BY DEF BInit, BoardInv, OneBoard, RowsHold, PlaceKnows, Untouched, InfoAsDeployed, NoReply

\* With the pins its own and the PHY on its first page, the bus says what it says.
LEMMA BusAsWired ==
  ASSUME gpio = FALSE, page = 0
  PROVE  FirstTests(Bus) = FirstTests(hw.mdio)
<1>1. \A dev \in {0, 1, 3} : \A n \in {2, 3} : Bus[dev][n] = hw.mdio[dev][n]
  BY DEF Bus
<1>2. /\ Bus[0][2] = hw.mdio[0][2] /\ Bus[0][3] = hw.mdio[0][3]
      /\ Bus[1][2] = hw.mdio[1][2] /\ Bus[1][3] = hw.mdio[1][3]
      /\ Bus[3][2] = hw.mdio[3][2] /\ Bus[3][3] = hw.mdio[3][3]
  BY <1>1
<1> QED BY <1>2 DEF FirstTests

\* A row that is written has the value or is as it was.
LEMMA WrittenIs ==
  ASSUME NEW row, NEW val, NEW w \in Written(row, val)
  PROVE  w[1] = row \/ w[1].val = val
<1>1. \/ w = <<row, FALSE>> \/ w = <<row, TRUE>>
      \/ w \in [val : {val}, lock : BOOLEAN, ecc : BOOLEAN] \X {FALSE}
      \/ w = <<RowOf(val, TRUE, TRUE), TRUE>>
  BY DEF Written
<1>2. ASSUME NEW b \in BOOLEAN, w = <<row, b>> PROVE w[1] = row
  BY <1>2
<1>3. CASE w \in [val : {val}, lock : BOOLEAN, ecc : BOOLEAN] \X {FALSE}
  BY <1>3
<1>4. CASE w = <<RowOf(val, TRUE, TRUE), TRUE>>
  BY <1>4 DEF RowOf
<1> QED BY <1>1, <1>2, <1>3, <1>4

\* Every step keeps it.
LEMMA BoardStep ==
  ASSUME BoardInv, BNext PROVE BoardInv'
<1> USE DEF BoardInv, BGoto, Told
<1>1. UNCHANGED <<hw, mbd>>
  BY DEF BNext, StartDeploy, write_sn, write_ram_bver_mac, Boot, get_board, ReadFuses, mdio_begin,
         ReadPhys, SelectPage, ReadId151x, ReadFlashId, mdio_end, cmd_board_info, Reset
<1>2. OneBoard'
  BY <1>1 DEF OneBoard
<1>3. RowsHold'
  <2>1. Code' = Code /\ InfoRow' = InfoRow /\ SerialRow' = SerialRow
    BY <1>1 DEF Code, ram_size_code, is_ripe, InfoRow, SerialRow
  <2>2. CASE write_sn
    <3>1. hw.name \in Deployable /\ UNCHANGED row42
      BY <2>2 DEF write_sn, PlaceKnows
    <3>2. row43' = row43 \/ row43'.val = SerialRow
      BY <2>2, WrittenIs DEF write_sn
    <3> QED BY <1>1, <2>1, <3>1, <3>2 DEF RowsHold
  <2>3. CASE write_ram_bver_mac
    <3>1. hw.name \in Deployable /\ Code \in 0..3 /\ UNCHANGED row43
      BY <2>3 DEF write_ram_bver_mac, PlaceKnows
    <3>2. row42' = row42 \/ row42'.val = InfoRow
      BY <2>3, WrittenIs DEF write_ram_bver_mac
    <3> QED BY <1>1, <2>1, <3>1, <3>2 DEF RowsHold
  <2>4. CASE UNCHANGED <<row42, row43>>
    BY <1>1, <2>1, <2>4 DEF RowsHold
  <2> QED BY <2>2, <2>3, <2>4
       DEF BNext, StartDeploy, Boot, get_board, ReadFuses, mdio_begin,
           ReadPhys, SelectPage, ReadId151x, ReadFlashId, mdio_end, cmd_board_info, Reset
<1>4. PlaceKnows'
  <2> USE DEF PlaceKnows, Untouched, PinsTaken
  <2>1. Code' = Code /\ (PhysLeaveOpen' = PhysLeaveOpen) /\ Fallback' = Fallback
    BY <1>1 DEF Code, ram_size_code, is_ripe, PhysLeaveOpen, Fallback
  <2>2. CASE StartDeploy
    <3>1. Code \in -1..3 /\ hw.name \in Deployable
      BY <2>2, DeployedIs DEF StartDeploy
    <3>2. CASE Code < 0
      BY <1>1, <2>2, <3>2 DEF StartDeploy, Code
    <3>3. CASE Code >= 0
      <4>1. Code \in 0..3 /\ bpc' = "sn"
        BY <2>2, <3>1, <3>3 DEF StartDeploy, Code
      <4> QED BY <1>1, <2>1, <2>2, <3>1, <4>1 DEF StartDeploy
    <3>4. Code < 0 \/ Code >= 0
      <4> HIDE DEF PlaceKnows, Untouched, PinsTaken
      <4> QED BY <3>1
    <3> QED BY <3>2, <3>3, <3>4
  <2>3. CASE write_sn
    BY <1>1, <2>1, <2>3 DEF write_sn
  <2>4. CASE write_ram_bver_mac
    BY <1>1, <2>1, <2>4 DEF write_ram_bver_mac
  <2>5. CASE Boot
    BY <1>1, <2>5 DEF Boot
  <2>6. CASE ReadFuses
    <3>1. ASSUME NEW v \in ReadsAs(row42, DeviceAt + 4), row42.lock,
                 Told(BoardOfFuses(v), "run")
          PROVE  PlaceKnows'
      <4>1. hw.name \in Deployable /\ BoardOfFuses(row42.val) = hw.name
        BY <3>1, FusesTell
      <4>2. IF row42.ecc THEN BoardOfFuses(v) = hw.name ELSE BoardOfFuses(v) \in Deployable
        BY <3>1, <4>1, ReadsExactly, FusesTellOne
      <4>3. Told42'
        BY <1>1, <2>6, <3>1, <4>1, <4>2 DEF ReadFuses, Told42
      <4> QED BY <1>1, <2>6, <3>1, <4>3 DEF ReadFuses
    <3>2. CASE Told(board, "begin")
      BY <1>1, <2>6, <3>2 DEF ReadFuses
    <3> QED BY <2>6, <3>1, <3>2 DEF ReadFuses
  <2>7. CASE mdio_begin
    <3>1. hw.gpio \in BOOLEAN
      BY PinsAssumption DEF OneBoard
    <3> QED BY <1>1, <2>7, <3>1 DEF mdio_begin
  <2>8. CASE ReadPhys
    <3>1. FirstTests(Bus) = FirstTests(hw.mdio)
      BY <2>8, BusAsWired DEF ReadPhys
    <3>2. CASE FirstTests(hw.mdio) = "page"
      BY <1>1, <2>1, <2>8, <3>1, <3>2 DEF ReadPhys, PhysLeaveOpen
    <3>3. CASE FirstTests(hw.mdio) # "page"
      <4>1. board' = Fallback /\ bpc' = "end"
        BY <2>8, <3>1, <3>3 DEF ReadPhys, Fallback
      <4> QED BY <1>1, <2>1, <2>8, <4>1 DEF ReadPhys
    <3> QED BY <3>2, <3>3
  <2>9. CASE SelectPage
    BY <1>1, <2>1, <2>9 DEF SelectPage
  <2>10. CASE ReadId151x
    <3>1. Id151x = hw.id151x
      BY <2>10 DEF ReadId151x, Id151x
    <3>2. CASE hw.id151x = 6
      <4>1. board' = Fallback /\ bpc' = "end"
        BY <2>10, <3>1, <3>2 DEF ReadId151x, Fallback, PhysLeaveOpen
      <4> QED BY <1>1, <2>1, <2>10, <4>1 DEF ReadId151x
    <3>3. CASE hw.id151x # 6
      BY <1>1, <2>1, <2>10, <3>1, <3>3 DEF ReadId151x
    <3> QED BY <3>2, <3>3
  <2>11. CASE ReadFlashId
    <3>1. board' = Fallback /\ bpc' = "end"
      BY <2>11 DEF ReadFlashId, Fallback, PhysLeaveOpen
    <3> QED BY <1>1, <2>1, <2>11, <3>1 DEF ReadFlashId
  <2>12. CASE mdio_end
    <3>1. hw.gpio \in BOOLEAN
      BY PinsAssumption DEF OneBoard
    <3> QED BY <1>1, <2>1, <2>12, <3>1 DEF mdio_end
  <2>13. CASE cmd_board_info
    <3>1. Told42' = Told42
      BY <1>1, <2>13 DEF cmd_board_info, Told42
    <3> QED BY <1>1, <2>1, <2>13, <3>1 DEF cmd_board_info
  <2>14. CASE Reset
    BY <1>1, <2>14 DEF Reset
  <2> QED BY <2>2, <2>3, <2>4, <2>5, <2>6, <2>7, <2>8, <2>9, <2>10, <2>11, <2>12, <2>13, <2>14
       DEF BNext, get_board
<1>5. InfoAsDeployed'
  <2>1. CASE cmd_board_info
    BY <2>1, RepliesAsDeployed
  <2>2. CASE Reset
    BY <2>2 DEF Reset, InfoAsDeployed, NoReply
  <2>3. CASE UNCHANGED <<board_info, row42, row43>>
    BY <1>1, <2>3 DEF InfoAsDeployed, ram_size_code, is_ripe
  <2>4. CASE board_info' = NoReply
    BY <2>4 DEF InfoAsDeployed, NoReply
  <2> QED BY <2>1, <2>2, <2>3, <2>4
       DEF PlaceKnows, BNext, StartDeploy, write_sn, write_ram_bver_mac, Boot, get_board, ReadFuses, mdio_begin,
           ReadPhys, SelectPage, ReadId151x, ReadFlashId, mdio_end
<1> QED BY <1>2, <1>3, <1>4, <1>5

\* The board is what the locked row says or, without one, what the undisturbed bus
\* and flash say; a complete row says what was deployed, and the reply is that, for
\* all boards, data and widths of the fields.
THEOREM AlwaysKnowsItsBoard == BSpec => []KnowsItsBoard
<1>1. BInit => BoardInv
  BY BoardInitially
<1>2. BoardInv /\ [BNext]_bvars => BoardInv'
  <2>1. CASE BNext
    BY <2>1, BoardStep
  <2>2. CASE UNCHANGED bvars
    BY <2>2 DEF bvars, BoardInv, OneBoard, RowsHold, PlaceKnows, Untouched, PinsTaken, Told42,
                PhysLeaveOpen, Fallback, InfoAsDeployed, InfoRow, SerialRow, Code, ram_size_code,
                is_ripe
  <2> QED BY <2>1, <2>2
<1>3. BoardInv => KnowsItsBoard
  BY DEF BoardInv, KnowsItsBoard, BoardToldRight, PlaceKnows, Untouched, Told42
<1> QED BY <1>1, <1>2, <1>3, PTL DEF BSpec
=============================================================================
