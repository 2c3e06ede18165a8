------------------------------- MODULE Powers -------------------------------
(* Powers of a natural number, for shifts and for numbers of many words.    *)
EXTENDS Integers

\* b multiplied n times; Pow(2, n) is what 1 << n gives, if it fits.
Pow(b, n) == LET f[i \in 0..n] == IF i = 0 THEN 1 ELSE b * f[i - 1] IN f[n]
=============================================================================
