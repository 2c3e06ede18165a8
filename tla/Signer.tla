------------------------------- MODULE Signer -------------------------------
(***************************************************************************)
(* What the signing module promises, without words, coprocessors, nonces   *)
(* or retries: every call answers at once, by the definition of ECDSA over *)
(* integers.  One private key is generated, once.  It is read from the     *)
(* fuses once, the first time it is needed; a key that is generated after  *)
(* that is not used before the next start.                                 *)
(***************************************************************************)
EXTENDS Integers

CONSTANTS
  NoKey,          \* what is read where there is no private key
  Keys,           \* the private keys
  PublicKeys,     \* private key -> the answer that tells its public half
  Hashes,         \* what can be signed
  Scalars,        \* what the two parts of a signature are
  Genuine,        \* private key -> hash -> the valid signatures
  Verdicts        \* the answers to what can be asked to be verified

VARIABLES
  fused,          \* the private key in the fuses, or NoKey
  loaded,         \* <<the key that is in use>>, <<>> before it was read
  request,        \* <<the hash that is being signed>>, or <<>>
  reply           \* the answer to the last call

gvars == <<fused, loaded, request, reply>>

GInit == fused = NoKey /\ loaded = <<>> /\ request = <<>> /\ reply = [fn |-> "none"]

InUse == IF loaded = <<>> THEN fused ELSE loaded[1]

Generate ==
  /\ request = <<>> /\ fused = NoKey
  /\ fused' \in Keys /\ reply' = [fn |-> "generate"]
  /\ UNCHANGED <<loaded, request>>

TellPublicKey ==
  /\ request = <<>>
  /\ loaded' = <<InUse>>
  /\ reply' = IF InUse = NoKey THEN [fn |-> "no_key"] ELSE PublicKeys[InUse]
  /\ UNCHANGED <<fused, request>>

Ask(hash) ==
  /\ request = <<>> /\ request' = <<hash>>
  /\ reply' = [fn |-> "none"]
  /\ UNCHANGED <<fused, loaded>>

Load ==
  /\ request # <<>> /\ loaded = <<>>
  /\ loaded' = <<fused>>
  /\ UNCHANGED <<fused, request, reply>>

\* The signature is one of the hash that was asked for, under the key in use.
Sign ==
  /\ request # <<>> /\ loaded # <<>>
  /\ \E rr, ss \in Scalars :
       /\ loaded[1] # NoKey => <<rr, ss>> \in Genuine[loaded[1]][request[1]]
       /\ reply' = [fn |-> "signed", r |-> rr, s |-> ss, z |-> request[1]]
  /\ request' = <<>>
  /\ UNCHANGED <<fused, loaded>>

\* The fuses cannot be read, or the hash is too long.
Fail ==
  /\ reply' = [fn |-> "error"] /\ request' = <<>>
  /\ UNCHANGED <<fused, loaded>>

\* Verification depends on nothing but what is asked.
Answer == request = <<>> /\ reply' \in Verdicts /\ UNCHANGED <<fused, loaded, request>>

GNext ==
  \/ Generate \/ TellPublicKey \/ Load \/ Sign \/ Fail \/ Answer
  \/ \E hash \in Hashes : Ask(hash)

GSpec == GInit /\ [][GNext]_gvars
=============================================================================
