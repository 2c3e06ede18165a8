------------------------------- MODULE Ecdsa -------------------------------
(* Signing, verifying and key generation (crypto.c).  The code is secp521r1 *)
(* arithmetic on two coprocessors; here it runs on a small curve            *)
(* y^2 = x^3 + a x + b over the integers modulo Prime whose points form a   *)
(* group of prime order Order < Prime, with numbers of a few small words.   *)
(* As in the code, Bits is not a multiple of the word size.  The            *)
(* coprocessors (ECP, ZMODP) are modelled by what they compute and by the   *)
(* operands they keep.  The private key never leaves the eFuses' secure     *)
(* buffer, which is filled once.                                            *)
EXTENDS BigNum, FiniteSets

CONSTANTS
  Prime, A, B, GX, GY, Order,   \* the curve, its base point, its order
  Bits,                         \* 521
  Messages,       \* the hashes z to be signed, as integers
  Foreign,        \* public points, signatures and hashes to be verified
  MaxAsked        \* bound on the calls of the module

Point == [x : 0..(Prime - 1), y : 0..(Prime - 1)]
G == [x |-> GX, y |-> GY]

ASSUME CurveAssumption ==
  /\ Prime \in Nat /\ Order \in 2..(Prime - 1) /\ Prime < Pow(2, Bits) /\ G \in Point
  /\ {A, B} \subseteq 0..(Prime - 1)
  /\ Bits \in 1..(Words * WordBits) /\ Bits % WordBits # 0
  /\ Bits > (Words - 1) * WordBits
  /\ Messages \subseteq 0..(Pow(Radix, Words) - 1)

\* The public keys that are verified against come with the platform's image
\* (tim.c), their coordinates below the prime.
ASSUME ForeignAssumption ==
  \A f \in Foreign : f.pub \in Point /\ {f.r, f.s, f.z} \subseteq 0..(Pow(Radix, Words) - 1)

VARIABLES
  key,            \* the private key in the fuses, 0 while there is none
  sb, sbfill,     \* the secure buffer, and whether it was filled
  op,             \* what runs: the function and the place in it
  k, r, s, z, p,  \* the locals of ecdsa_sign; z its argument; k also as what
                  \* the stack still holds of it after the return
  ecp_op2,        \* the scalar ecdsa_sign has left in ECP_OP2
  zmodp_x,        \* and what it has left in ZMODP_X
  out,            \* what the last call returned
  asked

svars == <<key, sb, sbfill, op, k, r, s, z, p, ecp_op2, zmodp_x, out, asked>>

-----------------------------------------------------------------------------
\* The coprocessors.  None is the point at infinity, which they report as
\* an error, as they do the addition of a point to itself or its inverse.
None == [x |-> 0, y |-> 0, inf |-> TRUE]
Affine(pt) == [x |-> pt.x, y |-> pt.y, inf |-> FALSE]
InvMod(v, m) == IF v % m = 0 THEN 0 ELSE CHOOSE w \in 1..(m - 1) : (v * w) % m = 1
Slope(a, b) ==
  IF a = b THEN ((3 * a.x * a.x + A) * InvMod(2 * a.y, Prime)) % Prime
  ELSE ((b.y - a.y) * InvMod((b.x - a.x) % Prime, Prime)) % Prime
Sum(a, b) ==
  IF a.inf THEN b ELSE IF b.inf THEN a
  ELSE IF a.x = b.x /\ (a.y + b.y) % Prime = 0 THEN None
  ELSE LET l == Slope(a, b)
           x3 == (l * l - a.x - b.x) % Prime
       IN [x |-> x3, y |-> (l * (a.x - x3) - a.y) % Prime, inf |-> FALSE]
Multiple(pt, n) ==
  LET mul[i \in 0..n] == IF i = 0 THEN None ELSE Sum(mul[i - 1], Affine(pt))
  IN mul[n]
MulMod(v, w) == (v * w) % Order

\* The curve with its point at infinity.  It is a group, of prime order.
OnCurve(pt) == (pt.y * pt.y) % Prime = (pt.x * pt.x * pt.x + pt.x * A + B) % Prime
Curve == {None} \cup {Affine(pt) : pt \in {q \in Point : OnCurve(q)}}
ASSUME GroupAssumption ==
  /\ OnCurve(G)
  /\ \A a, b \in Curve : Sum(a, b) \in Curve
  /\ \A a, b, c \in Curve : Sum(Sum(a, b), c) = Sum(a, Sum(b, c))
  /\ \A a, b \in Curve \ {None} : a.x = b.x => a = b \/ Sum(a, b) = None
  /\ \A pt \in Point : OnCurve(pt) => \A n \in 1..Order : Multiple(pt, n) = None <=> n = Order
  /\ \A v \in 1..(Order - 1) : \E w \in 1..(Order - 1) : (v * w) % Order = 1

ecp_point_mul(pt, scalar) == Multiple(pt, scalar)
ecp_add(a, b) == IF a.x = b.x THEN None ELSE Sum(Affine(a), Affine(b))

\* Mutant: the constant is forgotten.
ValidWithoutB(pt) == (pt.x * pt.x * pt.x + pt.x * A) % Prime = (pt.y * pt.y) % Prime
\* y^2 = x^3 + a x + b, in the order of ecp_secp521r1_point_valid.
ecp_point_valid(pt) ==
  (pt.x * pt.x * pt.x + pt.x * A + B) % Prime = (pt.y * pt.y) % Prime

TooLong(num) == num[Words - 1] > TopMask(Bits)
ecdsa_valid_scalar(x) == ~bn_is_zero(x) /\ bn_cmp(x, Num(Order)) < 0

\* The right factor of the verification equation: z * w, r * w.
ecdsa_verify(pub, rr, ss, zz) ==
  /\ ~TooLong(zz) /\ ecp_point_valid(pub) /\ ecp_point_mul(pub, Order).inf
  /\ ecdsa_valid_scalar(rr) /\ ecdsa_valid_scalar(ss)
  /\ LET w == InvMod(Val(ss), Order)
         a == ecp_point_mul(G, MulMod(Val(zz), w))
         b == ecp_point_mul(pub, MulMod(Val(rr), w))
     IN ~a.inf /\ ~b.inf /\ ~ecp_add(a, b).inf /\ ecp_add(a, b).x = Val(rr)

-----------------------------------------------------------------------------
Zero == Num(0)
SInit ==
  /\ key = 0 /\ sb = 0 /\ sbfill = FALSE /\ op = "idle"
  /\ k = Zero /\ r = Zero /\ s = Zero /\ z = Zero /\ p = G
  /\ ecp_op2 = Zero /\ zmodp_x = Zero /\ out = [fn |-> "none"] /\ asked = 0

\* A call begins; a call returns.  The locals of ecdsa_sign die with it,
\* the nonce where it was on the stack.
Enter == op = "idle" /\ asked < MaxAsked /\ asked' = asked + 1
Leave(result) == op' = "idle" /\ out' = result
Dead == r' = Zero /\ s' = Zero /\ z' = Zero /\ p' = G

\* efuse_read_secure_buffer: reads the rows once; a read may fail.
SecureBuffer == sb' = (IF sbfill THEN sb ELSE key) /\ sbfill' = TRUE
BufferFails == ~sbfill /\ UNCHANGED <<sb, sbfill>>

\* bn_random, one draw: the words are masked and must be below the order.
Draws == {Masked(Num(raw), Bits) : raw \in 0..(Pow(Radix, Words) - 1)}
Accepted(x) == bn_cmp(x, Num(Order)) < 0 /\ ~bn_is_zero(x)

\* ecdsa_generate_efuse_private_key: only blank rows can be written.  What
\* a failed write leaves in them is the subject of Deploy.
ecdsa_generate_efuse_private_key ==
  /\ Enter /\ key = 0
  /\ \E d \in Draws : Accepted(d) /\ key' = Val(d)
  /\ Leave([fn |-> "generate"])
  /\ UNCHANGED <<sb, sbfill, k, r, s, z, p, ecp_op2, zmodp_x>>

\* ecdsa_get_efuse_public_key: -EDOM or -ENODATA without a key.
ecdsa_get_efuse_public_key ==
  /\ Enter
  /\ \/ SecureBuffer
        /\ Leave(IF sb' = 0 THEN [fn |-> "no_key"]
                 ELSE LET pub == ecp_point_mul(G, sb')
                      IN [fn |-> "pub", x |-> pub.x, odd |-> pub.y % 2])
     \/ BufferFails /\ Leave([fn |-> "error"])
  /\ UNCHANGED <<key, k, r, s, z, p, ecp_op2, zmodp_x>>

\* ecdsa_sign.
SignStart ==
  /\ Enter
  /\ \E m \in Messages :
       IF TooLong(Num(m))
       THEN Leave([fn |-> "error"]) /\ UNCHANGED z
       ELSE op' = "draw" /\ z' = Num(m) /\ out' = [fn |-> "none"]
  /\ UNCHANGED <<key, sb, sbfill, k, r, s, p, ecp_op2, zmodp_x>>
DrawNonce ==
  /\ op = "draw"
  /\ \E x \in Draws : k' = x /\ op' = IF Accepted(x) THEN "point" ELSE "draw"
  /\ UNCHANGED <<key, sb, sbfill, r, s, z, p, ecp_op2, zmodp_x, out, asked>>
\* The result of the multiplication is not looked at.
SignPoint ==
  /\ op = "point"
  /\ LET product == ecp_point_mul(G, Val(k)) IN p' = [x |-> product.x, y |-> product.y]
  /\ ecp_op2' = k /\ op' = "clear"
  /\ UNCHANGED <<key, sb, sbfill, k, r, s, z, zmodp_x, out, asked>>
ClearOperands ==
  /\ op = "clear"
  /\ ecp_op2' = Zero
  /\ r' = bn_modulo(Num(p.x), Num(Order))
  /\ op' = IF bn_is_zero(r') THEN "draw" ELSE "key"
  /\ UNCHANGED <<key, sb, sbfill, k, s, z, p, zmodp_x, out, asked>>
\* d * r, the key coming from the secure buffer and not through ZMODP_X; when it
\* cannot be read the nonce stays on the stack.
SignKey ==
  /\ op = "key"
  /\ \/ /\ SecureBuffer /\ s' = Num(MulMod(sb', Val(r))) /\ op' = "inverse"
        /\ UNCHANGED <<out, r, z, p>>
     \/ BufferFails /\ Leave([fn |-> "error"]) /\ Dead
  /\ UNCHANGED <<key, k, ecp_op2, zmodp_x, asked>>
\* Mutant: nothing is cleared.
AlwaysKept(x, flags) == x
\* What zmodp_op leaves of its operand x in ZMODP_X.
Kept(x, flags) == IF "CLEAR_X" \in flags THEN Zero ELSE x
SignInverse ==
  /\ op = "inverse"
  /\ k' = Num(InvMod(Val(k), Order)) /\ zmodp_x' = Kept(k, {"CLEAR_X"})
  /\ s' = bn_addmod(s, z, Num(Order))
  /\ op' = "product"
  /\ UNCHANGED <<key, sb, sbfill, r, z, p, ecp_op2, out, asked>>
SignProduct ==
  /\ op = "product"
  /\ LET product == Num(MulMod(Val(k), Val(s)))
     IN IF bn_is_zero(product)
        THEN /\ s' = product /\ op' = "draw"
             /\ UNCHANGED <<k, r, z, p, out>>
        ELSE /\ Leave([fn |-> "signed", r |-> r, s |-> product, z |-> z]) /\ Dead
             /\ k' = Zero
  /\ zmodp_x' = Kept(k, {"CLEAR_X"})
  /\ UNCHANGED <<key, sb, sbfill, ecp_op2, asked>>

\* ecdsa_verify of what somebody sent.  It depends on nothing that is kept, so
\* that it is enough to call it first (bound).
Verify ==
  /\ Enter /\ asked = 0
  /\ \E f \in Foreign :
       Leave([fn |-> "verified", of |-> f,
              ok |-> ecdsa_verify(f.pub, Num(f.r), Num(f.s), Num(f.z))])
  /\ UNCHANGED <<key, sb, sbfill, k, r, s, z, p, ecp_op2, zmodp_x>>

SNext ==
  \/ ecdsa_generate_efuse_private_key \/ ecdsa_get_efuse_public_key
  \/ SignStart \/ DrawNonce \/ SignPoint \/ ClearOperands \/ SignKey
  \/ SignInverse \/ SignProduct \/ Verify
SSpec == SInit /\ [][SNext]_svars

-----------------------------------------------------------------------------
\* ECDSA by its definition, over integers and the whole group.
Combined(pub, rr, ss, zz) ==
  LET w == InvMod(ss, Order)
  IN Sum(Multiple(G, MulMod(zz, w)), Multiple(pub, MulMod(rr, w)))
Valid(pub, rr, ss, zz) ==
  /\ pub \in Point /\ OnCurve(pub)
  /\ rr \in 1..(Order - 1) /\ ss \in 1..(Order - 1)
  /\ ~Combined(pub, rr, ss, zz).inf /\ Combined(pub, rr, ss, zz).x % Order = rr
\* What the code turns down although it is valid: a hash that is 0 modulo
\* the order, equal points to be added, an x that is not below the order.
TurnedDown(pub, rr, ss, zz) ==
  LET w == InvMod(ss, Order) IN
  \/ zz % Order = 0
  \/ Multiple(G, MulMod(zz, w)) = Multiple(pub, MulMod(rr, w))
  \/ Combined(pub, rr, ss, zz).x >= Order

(* A finished signature is a valid ECDSA signature of the hash under the    *)
(* public half of the key in use, whatever was drawn, rejected and drawn    *)
(* again, and ecdsa_verify accepts it but for the three cases above.        *)
SignedVerifies ==
  op = "idle" /\ out.fn = "signed" /\ sb # 0 =>
    LET full == ecp_point_mul(G, sb)
        pub == [x |-> full.x, y |-> full.y]
    IN /\ Valid(pub, Val(out.r), Val(out.s), Val(out.z))
       /\ \/ TurnedDown(pub, Val(out.r), Val(out.s), Val(out.z))
          \/ ecdsa_verify(pub, out.r, out.s, out.z)

(* ecdsa_verify accepts nothing but valid signatures under a point of the   *)
(* curve, and turns down no valid one but in the three cases.               *)
VerifyAgrees ==
  out.fn = "verified" =>
    LET f == out.of IN
    /\ out.ok => Valid(f.pub, f.r, f.s, f.z)
    /\ Valid(f.pub, f.r, f.s, f.z) /\ ~TooLong(Num(f.z)) =>
         out.ok \/ TurnedDown(f.pub, f.r, f.s, f.z)

(* When ecdsa_sign has returned, however it did, the operand registers of    *)
(* both coprocessors are zero again: neither the nonce nor its inverse, from *)
(* which the private key could be computed, stays there.  After a success it *)
(* is gone from the stack, too (crypto.c:281-287, 468-471, 524-569).         *)
NothingSecretLeft ==
  op = "idle" => /\ ecp_op2 = Zero /\ zmodp_x = Zero
                 /\ out.fn = "signed" => k = Zero
=============================================================================
