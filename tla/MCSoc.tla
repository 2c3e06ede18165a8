------------------------------- MODULE MCSoc --------------------------------
(* Headers, one of which may be wrong in one thing; images with and without  *)
(* a hash.                                                                   *)
EXTENDS Soc

MCData   == [i \in {OBMI, WTMI} |-> "good"]
Image(h) == [hashalg |-> "SHA512", encrypted |-> FALSE, hash |-> h]
Images   == [i \in {OBMI, WTMI} |-> Image("good")]

Package(id, n, maps, e) == [id |-> id, size |-> n, nmaps |-> maps, entry |-> e]
TimnMap == Package(IMAP, 32, 1, "timn")
Other   == Package("other", 12, 0, "none")

\* Packages in wrong order and number, with wrong sizes, and none.
MCPackages ==
  {<<TimnMap>>, <<TimnMap, Package("other", 40, 0, "none")>>, <<Other, Other, TimnMap>>,
   <<Package("other", 10, 0, "none"), TimnMap>>, <<Package("other", 4, 0, "none"), TimnMap>>,
   <<Package(IMAP, 44, 2, "timn")>>, <<Package(IMAP, 12, 1, "timn")>>,
   <<Package(IMAP, 32, 1, "none")>>, <<Other>>}

Header(id, t) ==
  [fits |-> TRUE, aligned |-> TRUE, identifier |-> id, spinor |-> TRUE, self |-> TRUE,
   trusted |-> t, ds_known |-> TRUE, pub |-> OtpKey, signer |-> OtpKey,
   opth |-> TRUE, reserved |-> 52, packages |-> <<Other, TimnMap>>, at_null |-> "none",
   images |-> Images]

\* A header and what can be wrong with it.
Variants(h) ==
  {h} \cup
  {[h EXCEPT !.fits = FALSE], [h EXCEPT !.aligned = FALSE], [h EXCEPT !.spinor = FALSE],
   [h EXCEPT !.self = FALSE], [h EXCEPT !.trusted = ~h.trusted],
   [h EXCEPT !.ds_known = FALSE], [h EXCEPT !.signer = "other"],
   [h EXCEPT !.pub = "other", !.signer = "other"],
   [h EXCEPT !.identifier = IF h.identifier = TIMH THEN TIMN ELSE TIMH],
   [h EXCEPT !.opth = FALSE]} \cup
  {[h EXCEPT !.images[WTMI] = i] :
     i \in {Image("bad"), Image(Zero), [Image("good") EXCEPT !.hashalg = "other"],
            [Image("good") EXCEPT !.encrypted = TRUE]}} \cup
  {[h EXCEPT !.images = [i \in {OBMI} |-> Image("good")]]}

\* A reserved area and what can be wrong with it.
Areas(h) ==
  {[h EXCEPT !.opth = FALSE, !.at_null = "timn"], [h EXCEPT !.reserved = 4]} \cup
  {[h EXCEPT !.packages = p] : p \in MCPackages}

Flash(a, b) == [timh |-> a, timn |-> b, data |-> MCData]

MCFlashes ==
  {Flash(a, Header(TIMN, TRUE)) :
     a \in Variants(Header(TIMH, TRUE)) \cup Areas(Header(TIMH, TRUE))
             \cup Variants(Header(TIMH, FALSE))} \cup
  {Flash(Header(TIMH, TRUE), b) : b \in Variants(Header(TIMN, TRUE))}

MCCounters == 0..40

\* Row 1 of a board that is not trusted, of one that is, with all three bits, two or
\* one of them, and of one in the state that stops the firmware.
MCRow1 == {0, 16, 48, 112, 119}
=============================================================================
