----------------------------- MODULE MCServices -----------------------------
(* What the mailbox's commands and the main loop rest on: the fuses, random  *)
(* numbers, signatures, the window to the AP's memory, and what the board    *)
(* is.  They share no state, so that it is enough to run one of them, the   *)
(* part, at a time.                                                         *)
EXTENDS Efuse, Ebg, EcdsaRefinement, ApMem, Board

VARIABLE part

svcvars == <<part, evars, vars, svars, mvars, bvars>>

(* Three data rows, two of them sharing an ECC row, and a code with the      *)
(* distance of the real one: distinct columns of odd weight three.          *)
MCRows    == {30, 31, 42, 38, 39}
MCEccRow  == [n \in {30, 31, 42} |-> IF n = 42 THEN 39 ELSE 38]
MCColumn  == [b \in {1, 2} |-> IF b = 1 THEN {1, 2, 3} ELSE {1, 2, 4}]

NoEcc(n, v, l)  == [fn |-> "no_ecc", row |-> n, val |-> v, lock |-> l]
WithEcc(n, v)   == [fn |-> "with_ecc", row |-> n, val |-> v, lock |-> TRUE]

\* Both functions, on an empty value too, a masked row and a row without ECC.
MCCalls == {NoEcc(30, {1}, FALSE), NoEcc(42, {2}, TRUE), NoEcc(31, {}, TRUE),
            WithEcc(30, {1, 2}), WithEcc(31, {2}), WithEcc(31, {}),
            WithEcc(42, {1}), WithEcc(39, {})}

\* A point of the curve, its inverse, another one, the pair (0, 0) and a point
\* off the curve; numbers and hashes below, at and above the order.
MCForeign ==
  [pub : {[x |-> 2, y |-> 1], [x |-> 2, y |-> 10], [x |-> 8, y |-> 6],
          [x |-> 0, y |-> 0], [x |-> 3, y |-> 5]},
   r : {0, 1, 2, 3, 6, 7, 8}, s : {0, 1, 4, 6, 7}, z : {0, 1, 5, 7, 10, 16}]

(* An address space of four windows, and RAM of half a window to all four.  *)
MCRamSizes == {8, 16, 32, 64}
\* Starts and lengths around the ends of windows, of RAM and of the space.
MCRandomAddrs == {0, 2, 4, 7, 14, 16, 30, 32, 46, 60, 62}
MCRandomLens  == {0, 1, 2, 4, 6, 15, 16, 18, 34, 62}

\* Within a window, across its end, at the end of each RAM, at the very end.
MCSignAddrs  == {0, 4, 12, 14, 26, 58, 60}

(* The boards (external): what answers on the MDIO bus at addresses 0, 1     *)
(* and 3 in registers 2 and 3, the number in page 18 of the PHY at 1, the   *)
(* flash, the size of the RAM.                                              *)
Phy(id, rev) == [n \in {2, 3} |-> IF n = 2 THEN id ELSE rev]
Nobody == Phy(NoPhy, NoPhy)
Silent == Phy(-1, -1)
WiredAs(name, p0, p1, p3, id, flash) ==
  [name |-> name, mdio |-> [d \in {0, 1, 3} |-> CASE d = 0 -> p0 [] d = 1 -> p1 [] d = 3 -> p3],
   id151x |-> id, flash |-> flash, ram |-> 1, gpio |-> TRUE]

MCBoards ==
  {WiredAs("Turris_MOX", Nobody, Phy(Marvell, 3536), Nobody, 0, f) : f \in {"ef", "01", "20"}} \cup
  {WiredAs("RIPE_Atlas", Nobody, Phy(Marvell, 3536), Nobody, 0, "20"),
   WiredAs("ESPRESSObin", Nobody, Phy(4096, 4096), Nobody, 0, "ef"),
   WiredAs("ESPRESSObin_Ultra", Nobody, Phy(Marvell, 3536), Phy(4096, 4096), 0, "ef"),
   WiredAs("Armada3720_DB", Phy(Marvell, 3536), Nobody, Nobody, 0, "20"),
   WiredAs("Armada3720_DB", Nobody, Phy(Marvell, 3536), Nobody, 6, "20"),
   WiredAs("uDPU", Nobody, Nobody, Nobody, 0, "20"),
   WiredAs("unknown", Silent, Silent, Silent, 0, "20")}

\* Sizes of the RAM with a code and without; pins that were the bus's or not.
MCWired == {[b EXCEPT !.ram = m, !.gpio = g] : b \in MCBoards, m \in {-1, 0, 3}, g \in BOOLEAN}

(* MAC addresses of six bits, three of them the manufacturer's, with a bit  *)
(* to spare in the upper word; versions of two bits below the device.       *)
MCData(device) ==
  [serial_low : {9}, serial_high : {6}, mac_low : {0, 7, 8, 10, 15}, mac_high : {0, 2, 3, 6},
   version : {v + 4 * device : v \in {0, 3, 16}}]

MCDeployments ==
  [b \in {w.name : w \in MCBoards} |->
     CASE b = "Turris_MOX" -> MCData(0) [] b = "RIPE_Atlas" -> MCData(2) [] OTHER -> {"nothing"}]

\* The one state of the board when it is not the part that runs.
BoardOff ==
  /\ hw = "off" /\ mbd = "off" /\ row42 = BlankRow /\ row43 = BlankRow
  /\ bpc = "off" /\ board = "unknown" /\ gpio = FALSE /\ mdio_pins_disable = FALSE
  /\ page = 0 /\ board_info = NoReply

\* A part that does not run has one initial state.
SvcInit ==
  /\ part \in {"fuses", "random", "signatures", "ap_mem", "board"}
  /\ EInit /\ Init /\ SInit /\ MInit
  /\ part # "random" => prev = Zeros
  /\ part # "ap_mem" => ram = Word
  /\ IF part = "board" THEN BInit ELSE BoardOff

\* The random numbers and the signatures end when their bounds are reached.
SvcNext ==
  \/ part = "fuses" /\ ENext /\ UNCHANGED <<vars, svars, mvars, bvars>>
  \/ part = "random" /\ Next /\ UNCHANGED <<evars, svars, mvars, bvars>>
  \/ part = "signatures" /\ SNext /\ UNCHANGED <<evars, vars, mvars, bvars>>
  \/ part = "ap_mem" /\ MNext /\ UNCHANGED <<evars, vars, svars, bvars>>
  \/ part = "board" /\ BNext /\ UNCHANGED <<evars, vars, svars, mvars>>
  \/ /\ part \in {"random", "signatures"}
     /\ UNCHANGED <<evars, vars, svars, mvars, bvars>>

SvcSpec == SvcInit /\ [][SvcNext /\ UNCHANGED part]_svcvars
=============================================================================
