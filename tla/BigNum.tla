------------------------------- MODULE BigNum -------------------------------
(* The long numbers of crypto.c: arrays of Words words of WordBits bits,     *)
(* least significant first (17 words of 32 bits there).                      *)
EXTENDS Powers

CONSTANTS Words, WordBits

ASSUME WordsAssumption == Words \in Nat \ {0} /\ WordBits \in Nat \ {0}

Radix == Pow(2, WordBits)
Index == 0..(Words - 1)
Nums == [Index -> 0..(Radix - 1)]
\* The number a value below Pow(Radix, Words) is kept as, and back.
Num(v) == [i \in Index |-> (v \div Pow(Radix, i)) % Radix]
Val(x) == LET sum[i \in 0..Words] ==
                IF i = 0 THEN 0 ELSE sum[i - 1] + x[i - 1] * Pow(Radix, i - 1)
          IN sum[Words]

bn_is_zero(x) == \A i \in Index : x[i] = 0

\* The most significant word that differs decides.
bn_cmp(a, b) ==
  LET differ == {i \in Index : a[i] # b[i]}
      top == CHOOSE i \in differ : \A j \in differ : j <= i
  IN IF differ = {} THEN 0 ELSE IF a[top] < b[top] THEN -1 ELSE 1

\* Word by word with the carry, or borrow, into it.
Carries(x, y) ==
  LET carry[i \in 0..Words] ==
        IF i = 0 THEN 0 ELSE IF x[i - 1] + y[i - 1] + carry[i - 1] >= Radix THEN 1 ELSE 0
  IN carry
NoCarry(x, y) == [i \in Index |-> (x[i] + y[i]) % Radix]       \* mutant
bn_add(x, y) == [i \in Index |-> (x[i] + y[i] + Carries(x, y)[i]) % Radix]
Borrows(x, y) ==
  LET borrow[i \in 0..Words] ==
        IF i = 0 THEN 0 ELSE IF x[i - 1] - y[i - 1] - borrow[i - 1] < 0 THEN 1 ELSE 0
  IN borrow
Subtract(x, y) == [i \in Index |-> (x[i] - y[i] - Borrows(x, y)[i]) % Radix]

\* Subtracts the modulus until the rest is below it; m is not 0.
bn_modulo(x, m) ==
  LET rest[t \in 0..Pow(Radix, Words)] ==
        IF t = 0 THEN x
        ELSE LET r == rest[t - 1] IN IF bn_cmp(r, m) >= 0 THEN Subtract(r, m) ELSE r
      turns == CHOOSE t \in 0..Pow(Radix, Words) :
                 /\ bn_cmp(rest[t], m) < 0
                 /\ \A u \in 0..(t - 1) : bn_cmp(rest[u], m) >= 0
  IN rest[turns]
bn_addmod(x, y, m) == bn_modulo(bn_add(x, y), m)

\* bn_random's draw, before its test against the maximum: the random words
\* with the top word cut to bits % WordBits bits.
TopMask(bits) == Pow(2, bits % WordBits) - 1
Masked(x, bits) ==
  [i \in Index |-> IF i = ((bits + WordBits - 1) \div WordBits) - 1
                   THEN x[i] % (TopMask(bits) + 1) ELSE x[i]]
=============================================================================
