------------------------------- MODULE Board --------------------------------
(***************************************************************************)
(* Which board this is (wtmi/board.c) and what it was given when it was    *)
(* deployed (row 42: RAM size, board version with the device in its upper  *)
(* two bits, MAC address; row 43: serial number).  wtmi/deploy.c packs the *)
(* rows, MBOX_CMD_BOARD_INFO unpacks them (wtmi/main.c), and get_board     *)
(* looks into row 42 first.  Without a row it can use, get_board goes by   *)
(* what it finds on the MDIO bus (wtmi/mdio.c) and by the flash, having    *)
(* switched the bus's pins and a page of the PHY; the answer is kept until *)
(* the next reset.                                                         *)
(*                                                                         *)
(* The writing of the rows is the subject of Deploy and Efuse.  The fields *)
(* of a row have the widths of the constants.                              *)
(***************************************************************************)
EXTENDS Powers

CONSTANTS
  Wired,          \* what there is on the boards: see MCServices
  Deployments,    \* name of a board -> what the host may write to it (mbd)
  LowBits,        \* the width of mac_addr_low and of a serial number's half (32)
  HighBits,       \* the width of the rest of a MAC address (16)
  VersionBits,    \* the width of the version without the device (6)
  OuiAt,          \* where the manufacturer's part of a MAC address begins (24)
  Oui             \* the manufacturer's part (0xd858d7)

ASSUME WidthsAssumption ==
  /\ {LowBits, HighBits, VersionBits, OuiAt} \subseteq Nat /\ Oui \in Nat
  /\ OuiAt < LowBits + HighBits

\* The names of the boards that were deployed by their manufacturer CZ.NIC.
Deployable == {"Turris_MOX", "RIPE_Atlas"}

\* The host writes numbers, the words that are not masked below their width,
\* and as the device what the board is.
ASSUME DeploymentsAssumption ==
  \A w \in Wired : w.name \in Deployable =>
    /\ w.ram \in -1..3
    /\ \A m \in Deployments[w.name] :
         /\ {m.serial_high, m.mac_high, m.version} \subseteq Nat
         /\ {m.serial_low, m.mac_low} \subseteq 0..Pow(2, LowBits)-1
         /\ w.name = "RIPE_Atlas" <=> (m.version \div Pow(2, VersionBits)) % 4 = 2

\* The pins are the bus's after a reset, or GPIOs.
ASSUME PinsAssumption == \A w \in Wired : w.gpio \in BOOLEAN

VARIABLES
  hw,             \* the board
  mbd,            \* what the host writes to it
  row42, row43,   \* the rows, with their locks
  bpc,            \* where main, deploy or get_board is
  board,          \* what get_board has found, or "unknown"
  gpio, mdio_pins_disable,  \* the MDIO pins are used as GPIOs; mdio_end undoes it
  page,           \* the page of the PHY at address 1
  board_info      \* the last reply to MBOX_CMD_BOARD_INFO

bvars == <<hw, mbd, row42, row43, bpc, board, gpio, mdio_pins_disable, page,
           board_info>>

NoReply   == [sts |-> "none"]
MacBits   == LowBits + HighBits
DeviceAt  == MacBits + VersionBits
Extract(v, at, n) == (v \div Pow(2, at)) % Pow(2, n)

\* ecc: its ECC byte is in, too.
RowOf(v, l, e) == [val |-> v, lock |-> l, ecc |-> e]
BlankRow       == RowOf(0, FALSE, FALSE)

\* What efuse_read_row gives when it does not fail: without the ECC byte, or with
\* a part of it, the hardware may correct a bit that was right (see Efuse's
\* EccRead).  It is one of the bits the row uses, or one nobody looks at.
Flip(v, n)      == IF Extract(v, n, 1) = 1 THEN v - Pow(2, n) ELSE v + Pow(2, n)
ReadsAs(row, n) == {row.val} \cup
                   IF row.ecc THEN {} ELSE {Flip(row.val, k) : k \in 0..n-1}

BInit ==
  /\ hw \in Wired
  /\ mbd \in Deployments[hw.name]
  /\ row42 = BlankRow /\ row43 = BlankRow
  /\ bpc = "reset" /\ board = "unknown"
  /\ gpio = hw.gpio /\ mdio_pins_disable = FALSE /\ page = 0
  /\ board_info = NoReply

BGoto(l) == bpc' = l

-----------------------------------------------------------------------------
(***************************************************************************)
(* deploy, before anything else.                                           *)
(***************************************************************************)
is_ripe == Extract(mbd.version, VersionBits, 2) = 2

\* The ram_size_code: -1 for a size that has none.  An Atlas has 512 MiB.
ram_size_code == IF is_ripe THEN 0 ELSE hw.ram

SerialRow == mbd.serial_high * Pow(2, LowBits) + mbd.serial_low

InfoRow ==
  ram_size_code * Pow(2, DeviceAt + 2)
  + (mbd.version % Pow(2, VersionBits + 2)) * Pow(2, MacBits)
  + (mbd.mac_high % Pow(2, HighBits)) * Pow(2, LowBits) + mbd.mac_low

StartDeploy ==
  /\ bpc = "reset" /\ hw.name \in Deployable
  /\ BGoto(IF ram_size_code < 0 THEN "name" ELSE "sn")
  /\ UNCHANGED <<hw, mbd, row42, row43, board, gpio, mdio_pins_disable, page, board_info>>

\* row_write_if_not_locked.  A write that fails, or that a loss of power cuts, may
\* leave the row with its lock and without its ECC byte, which comes after it;
\* such a row counts as written from then on (see Efuse).
Written(row, val) ==
  {<<row, FALSE>>} \cup
  IF row.lock THEN {<<row, TRUE>>}
  ELSE ([val : {val}, lock : BOOLEAN, ecc : BOOLEAN] \X {FALSE})
       \cup {<<RowOf(val, TRUE, TRUE), TRUE>>}

write_sn ==
  /\ bpc = "sn"
  /\ \E w \in Written(row43, SerialRow) :
       row43' = w[1] /\ BGoto(IF w[2] THEN "bver" ELSE "name")
  /\ UNCHANGED <<hw, mbd, row42, board, gpio, mdio_pins_disable, page, board_info>>

write_ram_bver_mac ==
  /\ bpc = "bver"
  /\ \E w \in Written(row42, InfoRow) : row42' = w[1]
  /\ BGoto("name")
  /\ UNCHANGED <<hw, mbd, row43, board, gpio, mdio_pins_disable, page, board_info>>

-----------------------------------------------------------------------------
(***************************************************************************)
(* get_board, called for the board's name.                                 *)
(***************************************************************************)
Boot ==
  /\ bpc = "reset"
  /\ BGoto("name")
  /\ UNCHANGED <<hw, mbd, row42, row43, board, gpio, mdio_pins_disable, page, board_info>>

Told(b, l) == board' = b /\ BGoto(l)

cznic_mac(v)    == Extract(v, OuiAt, MacBits - OuiAt) = Oui
BoardOfFuses(v) == IF Extract(v, DeviceAt, 2) = 2 THEN "RIPE_Atlas" ELSE "Turris_MOX"

\* Reading the row may fail, for its ECC or with a timeout.
ReadFuses ==
  /\ bpc = "name"
  /\ \/ \E v \in ReadsAs(row42, DeviceAt + 4) :
          IF row42.lock /\ cznic_mac(v) THEN Told(BoardOfFuses(v), "run")
                                       ELSE Told(board, "begin")
     \/ Told(board, "begin")
  /\ UNCHANGED <<hw, mbd, row42, row43, gpio, mdio_pins_disable, page, board_info>>

mdio_begin ==
  /\ bpc = "begin"
  /\ IF gpio THEN gpio' = FALSE /\ mdio_pins_disable' = TRUE
             ELSE UNCHANGED <<gpio, mdio_pins_disable>>
  /\ BGoto("phys")
  /\ UNCHANGED <<hw, mbd, row42, row43, board, page, board_info>>

\* What mdio_read finds at addresses 0, 1 and 3 in registers 2 and 3: -1 when
\* the bus does not get ready, 0xffff when nobody answers.  As GPIOs the pins
\* carry nothing, and on another page the PHY at 1 has other registers (external).
NoPhy   == 65535
Marvell == 321
Bus ==
  [dev \in {0, 1, 3} |-> [n \in {2, 3} |->
     IF gpio THEN NoPhy ELSE IF dev = 1 /\ page # 0 THEN 0 ELSE hw.mdio[dev][n]]]

\* The first tests of _get_board_fallback, in their order; "page" when they do
\* not tell.
FirstTests(reg) ==
  IF reg[0][3] = NoPhy /\ reg[1][3] = NoPhy THEN "uDPU"
  ELSE IF reg[0][2] = Marvell /\ reg[1][3] = NoPhy THEN "Armada3720_DB"
  ELSE IF reg[0][3] = NoPhy /\ reg[1][2] = Marvell
    THEN IF reg[3][3] # NoPhy /\ reg[3][2] = reg[3][3] THEN "ESPRESSObin_Ultra" ELSE "page"
  ELSE IF reg[0][3] = NoPhy /\ reg[1][3] # NoPhy /\ reg[1][3] = reg[1][2]
    THEN "ESPRESSObin"
  ELSE "unknown"

ReadPhys ==
  /\ bpc = "phys"
  /\ LET found == FirstTests(Bus) IN
     IF found = "page" THEN Told(board, "page") ELSE Told(found, "end")
  /\ UNCHANGED <<hw, mbd, row42, row43, gpio, mdio_pins_disable, page, board_info>>

SelectPage ==
  /\ bpc = "page"
  /\ page' = 18
  /\ BGoto("id")
  /\ UNCHANGED <<hw, mbd, row42, row43, board, gpio, mdio_pins_disable, board_info>>

\* The 88E151x has its number in register 30 of that page, and something else in
\* that of another (external); back to page 0.
Id151x == IF page = 18 /\ ~gpio THEN hw.id151x ELSE -1
ReadId151x ==
  /\ bpc = "id"
  /\ page' = 0
  /\ IF Id151x = 6 THEN Told("Armada3720_DB", "end") ELSE Told(board, "flash")
  /\ UNCHANGED <<hw, mbd, row42, row43, gpio, mdio_pins_disable, board_info>>

\* The manufacturer of the flash.
ByFlash(id) == IF id \in {"ef", "c2", "01"} THEN "Turris_MOX" ELSE "RIPE_Atlas"

ReadFlashId ==
  /\ bpc = "flash"
  /\ Told(ByFlash(hw.flash), "end")
  /\ UNCHANGED <<hw, mbd, row42, row43, gpio, mdio_pins_disable, page, board_info>>

mdio_end ==
  /\ bpc = "end"
  /\ gpio' = (gpio \/ mdio_pins_disable) /\ mdio_pins_disable' = FALSE
  /\ BGoto("run")
  /\ UNCHANGED <<hw, mbd, row42, row43, board, page, board_info>>

get_board == ReadFuses \/ mdio_begin \/ ReadPhys \/ SelectPage \/ ReadId151x
             \/ ReadFlashId \/ mdio_end

-----------------------------------------------------------------------------
(***************************************************************************)
(* The command, and a reset.                                               *)
(***************************************************************************)
\* Mutant: the second MAC address is computed in the low word.
NextInLowWord(v) == (v \div Pow(2, LowBits)) * Pow(2, LowBits) + ((v + 1) % Pow(2, LowBits))

NextMac(v) == v + 1

\* Both rows must have been read, and be locked.  The reply does not depend on
\* those before it: one per start is enough.
cmd_board_info ==
  /\ bpc = "run" /\ board \in Deployable /\ board_info = NoReply
  /\ \/ board_info' = [sts |-> "FAIL"]
     \/ /\ row42.lock /\ row43.lock
        /\ \E v \in ReadsAs(row42, DeviceAt + 4), s \in ReadsAs(row43, 2 * LowBits) :
           LET w == NextMac(v) IN
           board_info' =
             [sts     |-> "OK",
              serial  |-> <<s % Pow(2, LowBits), s \div Pow(2, LowBits)>>,
              version |-> Extract(v, MacBits, VersionBits),
              ram     |-> 512 * Pow(2, Extract(v, DeviceAt + 2, 2)),
              mac     |-> <<Extract(v, LowBits, HighBits), v % Pow(2, LowBits)>>,
              next    |-> <<Extract(w, LowBits, HighBits), w % Pow(2, LowBits)>>,
              device  |-> Extract(w, DeviceAt, 2)]
  /\ UNCHANGED <<hw, mbd, row42, row43, bpc, board, gpio, mdio_pins_disable, page>>

\* The fuses stay; the firmware's memory, the pins and the PHY do not.
Reset ==
  /\ BGoto("reset") /\ board' = "unknown"
  /\ gpio' = hw.gpio /\ mdio_pins_disable' = FALSE /\ page' = 0
  /\ board_info' = NoReply
  /\ UNCHANGED <<hw, mbd, row42, row43>>

BNext == StartDeploy \/ write_sn \/ write_ram_bver_mac \/ Boot \/ get_board
         \/ cmd_board_info \/ Reset

BSpec == BInit /\ [][BNext]_bvars

-----------------------------------------------------------------------------
\* What the bus and the flash say, looked at with nothing in between.
Fallback == LET found == FirstTests(hw.mdio) IN
            IF found # "page" THEN found
            ELSE IF hw.id151x = 6 THEN "Armada3720_DB" ELSE ByFlash(hw.flash)

\* get_board takes a board for what the undisturbed bus and flash say it is, or, if
\* it was deployed, for what it was deployed as, and leaves the bus's pins and the
\* PHY as it found them.  A board whose row 42 has its lock and not its ECC byte it
\* may take for either of the two that are deployed (board.c:7-99, mdio.c:22-36).
BoardToldRight ==
  bpc = "run" =>
    /\ gpio = hw.gpio /\ page = 0
    /\ board # Fallback =>
         row42.lock /\ hw.name \in Deployable
         /\ IF row42.ecc THEN board = hw.name ELSE board \in Deployable

\* What the command replies is what the host had written, RAM size, version,
\* device and serial number, with two consecutive MAC addresses, whatever bits
\* the fields have beyond their widths; an address that ends in ones carries
\* into the next word, and the broadcast address has no successor.  Of a row that
\* has its lock and not its ECC byte nothing is promised (main.c:131-152,
\* deploy.c:99-143).
InfoAsDeployed ==
  board_info.sts = "OK" =>
    LET mac(a) == a[1] * Pow(2, LowBits) + a[2] IN
    /\ row43.ecc => board_info.serial = <<mbd.serial_low, mbd.serial_high>>
    /\ row42.ecc =>
         /\ board_info.mac = <<mbd.mac_high % Pow(2, HighBits), mbd.mac_low>>
         /\ mac(board_info.mac) # Pow(2, MacBits) - 1 =>
              /\ mac(board_info.next) = mac(board_info.mac) + 1
              /\ board_info.device = Extract(mbd.version, VersionBits, 2)
         /\ board_info.version = mbd.version % Pow(2, VersionBits)
         /\ board_info.ram = 512 * Pow(2, ram_size_code)

\* The board and its data are known as they are: both of the above
\* (board.c:51-99, main.c:121-155).
KnowsItsBoard == BoardToldRight /\ InfoAsDeployed
=============================================================================
