--------------------------- MODULE EcdsaRefinement ---------------------------
(***************************************************************************)
(* Ecdsa implements Signer: a signature counts as asked for while          *)
(* ecdsa_sign runs, whatever it draws again, and what is kept in words is  *)
(* the number they stand for.                                              *)
(***************************************************************************)
EXTENDS Ecdsa

Scalar == 1..(Order - 1)
Hash   == {m \in Messages : ~TooLong(Num(m))}
Half(d) == [x |-> Multiple(G, d).x, y |-> Multiple(G, d).y]

\* ECDSA by its definition; what the code accepts of that.
ValidUnder ==
  [d \in Scalar |-> [m \in Hash |->
     {rs \in Scalar \X Scalar : Valid(Half(d), rs[1], rs[2], m)}]]
Accepts(f) == /\ ~TooLong(Num(f.z)) /\ Valid(f.pub, f.r, f.s, f.z)
              /\ ~TurnedDown(f.pub, f.r, f.s, f.z)
Judged == {[fn |-> "verified", of |-> f, ok |-> Accepts(f)] : f \in Foreign}
Halves == [d \in Scalar |-> [fn |-> "pub", x |-> Half(d).x, odd |-> Half(d).y % 2]]

requestBar == IF op = "idle" THEN <<>> ELSE <<Val(z)>>
replyBar ==
  IF out.fn = "signed"
  THEN [fn |-> "signed", r |-> Val(out.r), s |-> Val(out.s), z |-> Val(out.z)]
  ELSE out

Promise == INSTANCE Signer
  WITH NoKey <- 0,
       Keys <- Scalar,
       PublicKeys <- Halves,
       Hashes <- Hash,
       Scalars <- Scalar,
       Genuine <- ValidUnder,
       Verdicts <- Judged,
       fused <- key,
       loaded <- IF sbfill THEN <<sb>> ELSE <<>>,
       request <- requestBar,
       reply <- replyBar

(* The arithmetic of crypto.c on words and on the two coprocessors gives the *)
(* answers that ECDSA defines, under the key that was read first: every step *)
(* of a call is one of Signer's, or invisible.                               *)
ImplementsSigner == Promise!GSpec
=============================================================================
