----------------------------- MODULE ImageLoad ------------------------------
(***************************************************************************)
(* Which images the firmware accepts from flash (wtmi/tim.c): the header   *)
(* TIMH, which on a trusted board must be signed by the key whose hash is  *)
(* in the fuses and must name a second header TIMN, signed alike, and the  *)
(* image with its hash.  A hash or a signature is modelled by what it was  *)
(* made of: equal hashes mean equal data.                                  *)
(***************************************************************************)
EXTENDS Naturals, Sequences
LOCAL INSTANCE SequencesExt

CONSTANTS
  TIMH, TIMN,     \* the identifiers of the headers
  IMAP,           \* the identifier of the package that names TIMN
  OtpKey          \* the key whose hash is in rows 8 to 11

\* hash[] of an image whose data need not be checked.
Zero == "zero"

\* What a sequence of tests <<passed, verdict if not>> decides.
Verdict(tests) ==
  LET failed == {i \in 1..Len(tests) : ~tests[i][1]}
  IN IF failed = {} THEN "ok"
     ELSE tests[CHOOSE i \in failed : \A j \in failed : i <= j][2]

\* Two of three bits are enough.
ecc_3bit_majority(x) == IF x % 8 < 3 \/ x % 8 = 4 THEN 0 ELSE 1

\* The boot state of a value of row 1.
BootState(row) == ecc_3bit_majority(row) + 2 * ecc_3bit_majority(row \div 16)

\* is_board_trusted for a boot state; state 3 stops the firmware.
is_board_trusted(boot_state) == boot_state = 2

\* Mutant: the signature is checked with the key of the header, whoever's it is.
SignedByAnyone(t) == t.ds_known /\ t.signer = t.pub

\* The key is that of the fuses, and it signed this header.
SignedByOwner(t) == t.ds_known /\ t.pub = OtpKey /\ t.signer = t.pub

\* A header has a size below 0x2000, an aligned reserved area, the identifier
\* that is looked for, the SPI NOR signature, and an entry for itself with its
\* size.
check_tim(t, id, boot_state) ==
  Verdict(<< <<t.fits, "fail">>,
             <<t.aligned, "hang">>,
             <<t.identifier = id, "fail">>,
             <<t.spinor /\ t.self, "fail">>,
             <<boot_state # 3, "hang">>,
             <<is_board_trusted(boot_state) = t.trusted, "fail">>,
             <<t.trusted => SignedByOwner(t), "fail">> >>)

tim_find_image(t, id) == id \in DOMAIN t.images

(***************************************************************************)
(* The reserved area of a header: packages of 8 bytes or more, one behind  *)
(* the other.                                                              *)
(***************************************************************************)
Ill(pkg) == pkg.size % 4 # 0 \/ pkg.size < 8

\* Where package i ends; the area has a header of 8 bytes.
PackageEnd(t, i) == FoldLeft(LAMBDA n, pkg : n + pkg.size, 8, SubSeq(t.packages, 1, i))

\* The search stops at an ill-formed package, for ever, at one that ends behind
\* the area, and at the one that is looked for: <<what it was, the package>>.
find_respkg(t, id) ==
  LET past(i) == PackageEnd(t, i) > t.reserved
      stops   == {i \in DOMAIN t.packages :
                    Ill(t.packages[i]) \/ past(i) \/ t.packages[i].id = id}
      first   == CHOOSE i \in stops : \A j \in stops : i <= j
  IN IF t.reserved < 8 \/ ~t.opth \/ stops = {} THEN <<"NULL">>
     ELSE IF Ill(t.packages[first]) THEN <<"hang">>
     ELSE IF past(first) THEN <<"NULL">> ELSE <<"found", t.packages[first]>>

\* The IMAP package with its one map names the place of TIMN.  Without the package
\* the code reads what is at address 0.
OneMap == 32

find_timn_entry(t) ==
  LET found == find_respkg(t, IMAP) IN
  CASE found[1] = "hang" -> "hang"
    [] found[1] = "NULL" -> t.at_null
    [] OTHER -> IF found[2].nmaps = 1 /\ found[2].size = OneMap THEN found[2].entry ELSE "none"

\* The header that lists the images: TIMH, or TIMN of a trusted board.
Listing(f) == IF f.timh.trusted THEN f.timn ELSE f.timh

load_tim(f, boot_state) ==
  LET first == check_tim(f.timh, TIMH, boot_state) IN
  IF first # "ok" \/ ~f.timh.trusted THEN first
  ELSE Verdict(<< <<find_timn_entry(f.timh) # "hang", "hang">>,
                  <<find_timn_entry(f.timh) = "timn", "fail">>,
                  <<check_tim(f.timn, TIMN, boot_state) = "ok",
                    check_tim(f.timn, TIMN, boot_state)>> >>)

check_image_hash(img, data) ==
  img.hashalg \in {"SHA256", "SHA512"} /\ ~img.encrypted /\ img.hash \in {Zero, data}

load_image(f, id, boot_state) ==
  LET tim == load_tim(f, boot_state) IN
  IF tim # "ok" THEN tim
  ELSE IF /\ tim_find_image(Listing(f), id)
          /\ check_image_hash(Listing(f).images[id], f.data[id])
    THEN "ok" ELSE "fail"
=============================================================================
