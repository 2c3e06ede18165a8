# Verification of the Armada 3720 secure firmware (`wtmi`)

`wtmi` is the firmware CZ.NIC runs on the Cortex-M3 secure processor of the
Armada 3720 (Turris MOX, RIPE Atlas probes and others). It boots first, trains
the memory, starts the application processor (AP), and then serves the AP
through a hardware mailbox: random numbers, OTP fuses, signatures, reboot. The
same source built with `DEPLOY` provisions a board.

This directory holds TLA+ models of it, TLC configurations that check them and
TLAPS proofs. Line numbers refer to the files under `src/wtmi/`.

    tlc -workers 2 -config MCMbox.cfg MCMbox      # check a model
    tlapm MboxProofs.tla                          # check the proofs

## 1. Inventory

| component | state | operations | hard because |
|---|---|---|---|
| mailbox (`mbox.c`) | ring `cmd_queue`, handler tables, registers `SP_CONTROL`, `SP_INT`, `HOST_INT_SET`, output registers | interrupt handler, `mbox_send`, `mbox_process_commands`, registration, `start_ap_at` | two contexts on one core share the ring and the output registers; the AP clears register bits at any time; read-modify-write of a register; the main loop sleeps |
| main loop (`main.c`) | position in start-up and loop, PRIMASK | register, enable interrupts, start AP, wait, process | sleeps on a condition that is not the queue |
| interrupts (`irq.c`, `irq.h`) | handler table, tick counter | dispatch, tick, wait | preemption |
| fuses (`efuse.c`) | fuse array, locks, programming enable | read and write rows with and without ECC, lock | one-time writes; retries; timeouts; shared ECC rows; power loss |
| provisioning (`deploy.c`) | the description of the board from the host | write rows, generate key, report; secure the board | restart after a partial run; ignored errors |
| entropy (`ebg.c`) | two circular buffers, digest chain | collect, raw and strong random bytes | wrapping; reuse; waiting; uninitialised memory |
| command handlers (`main.c`) | remap register, cached public key | random, board info, sign, OTP read and write, reboot | AP memory windows, several rows per command |
| SoC and AP reset (`soc.c`, `a53_helper/`) | CPU and peripheral resets, words in AP RAM | start of the AP, reset, reset workaround, helper hand-over, watchdog workaround | timeouts, two processors |
| image loading (`tim.c`, `reload.c`, `spi.c`) | image headers, caches of fuse values | find, verify and load an image, replace the running firmware | every early return decides what is run |
| U-Boot environment (`uboot-env.c`) | position in flash, work buffer | iterate over variables | variables across buffer ends |
| debug console (`debug.c`) | line, cursor, history, escape sequence | characters | several buffers kept in step |
| signatures (`crypto.c`) | secure buffer of the private key, operands of two coprocessors | key generation, public key, sign, verify | long arithmetic with carries; draws that are rejected; early returns that leave secrets |
| board (`board.c`, `mdio.c`) | cached board, pins, a page of the PHY, fuse rows 42 and 43 | identification, board data | packed by one file and unpacked by two; half-written rows |
| memory (`ddr.c`, `ddr/`) | trained PHY registers, the result in SRAM and in DRAM, two windows | cold and warm boot, training of gates, voltages and delay lines | a warm boot must not touch the contents; searches for windows; a union for two kinds of memory |
| clocks and voltage (`clock.c`, `avs.c`) | preset, two TBGs, dividers and sources of every line, voltage limits | set up the tree | the core changes its own clock; order; roundings |
| hash engine (`crypto_hash.c`), UART, SPI, GPIO, C library, inflate | registers | drivers, library | not protocol logic |

How they interact: the AP writes a command into the mailbox registers; the
interrupt handler queues or rejects it; the main loop calls its handler, which
may read the entropy buffers, the fuses or AP RAM, and answers through
`mbox_send`. Between commands the loop runs the watchdog workaround, the debug
console and `ebg_process`, which moves entropy into the buffers. All of these
except the interrupt handler run in main, so the mailbox is where concurrency
bites, the fuses are where failure does, and the entropy buffers are where
long sequences of calls do. Before the loop, memory and clocks are set up in one
sequence that a warm boot and a cold boot share, and a reset may cut it anywhere.

What makes each correct:

* mailbox: accepted commands are answered once and in order; no message is lost to an
  overwrite (but by a start of the AP); no request in use is overwritten; no missing handler is
  called; every accepted command is eventually answered;
* fuses: success means that exactly the asked-for bits are in, locked, and
  consistent with their ECC; other rows stay readable; programming is closed;
* provisioning: success means that the board is complete, whatever happened
  before;
* entropy: no byte is used twice, none is lost, none stays behind, and the main
  loop never waits for the generator;
* command handlers: only the AP's own RAM is touched, the pieces of a request
  are exactly the request, the memory window is back when the command ends; a
  fuse the AP did not name is never blown, a bit it was told is written reads
  back;
* reset: the new firmware finds the SoC as after a hardware reset, it is the
  owner's, and the attempt ends whatever the AP does; the watchdog workaround
  steps in exactly when it must;
* signatures: a signature verifies under the public key, nothing invalid is
  accepted, no nonce stays where somebody else can read it;
* board: it is taken for what it is, and the data reported are the deployed ones;
* memory and clocks: a warm boot keeps the contents and restores what was trained;
  what was trained works; a clock changes only while nothing runs from it;
* environment: every variable that fits is passed on, and it is noticed when one
  is not; the reader moves forward;
* console: nothing is written behind a buffer, and the screen shows the line.

The hazards, each with its line and its properties, are in `PROJECT.json`.

## 2. The modules

### Mailbox

| module | what it is |
|---|---|
| `MboxProtocol` | commands, handler tables' ranges, requests and messages |
| `Mbox` | `mbox.c`, the loop and start-up of `main.c`, interrupts, the AP as environment |
| `MboxService` | abstract: a bounded FIFO of commands and a one-message outbox |
| `MboxRefinement` | the mapping from `Mbox` to `MboxService` |
| `MboxProofs` | TLAPS proofs |
| `MCMbox` | instances for TLC |

`pc["main"]` and `pc["irq"]` say where the two contexts are. The handler runs to
its end before main continues (`At`), and is entered when `primask` is clear and
the cause `sp_int` is set (`IrqEnter`). A step is a stretch of code that no other
actor can observe in part:

* `mbox_send` is three: the test of `CMD_COMPLETE` together with the mask
  (`SendTest`; an unsuccessful turn changes nothing), the message with the read
  half of `setbitsl` (`SendWrite`), and its write half with `enable_irq`
  (`SendSet`);
* the full-queue branch of the handler is two (`IrqFull`, `IrqFullSet`), for the
  same reason: the AP clears bits of `HOST_INT_SET` concurrently;
* `start_ap_at` is three (`StartWrite`, `StartRead`, `StartSet`), with interrupts open:
  it does not look whether a message waits, the handler may send a rejection between its
  steps, and the AP may clear bits. It runs once at boot and, from the console's `kick`
  and `a53`, at any time, at most `MaxKicks` times while the AP runs already;
* the two clearing writes at the end of the handler are two;
* the pop of the queue, which the code brackets with `disable_irq`/`enable_irq`,
  is one.

The loop of `main()` is `LoopTop`, `LoopCheck` (`mbox_has_cmd`), `WakeByMbox` or
`WakeByTick`, `LoopUnmask`, `mox_wdt_workaround`, `ProcessTest` to `PopFirst`,
and `LoopRest`. A request carries the id of the AP's call instead of its
arguments. Handlers are abstracted to the messages they can produce
(`HandlerMsgs`); a handler that resets the SoC ends the service (`reset_soc`).
`accepted`, `answered`, `unread`, `got`, `lost` and `overflow` are history variables;
`lost` has the messages that a start of the AP overwrote. `MboxService` allows such a
start too (`Restarts`): it takes the place of what is in the outbox.

The model assumes that the compiler keeps the order of the accesses written in
the source: `cpsid`/`cpsie` carry no memory clobber and `cmd_queue_fill` is not
`volatile`, so the build is trusted for that.

### Fuses and provisioning

`Efuse` models a row as the set of its blown bits, which only grows, and a lock.
An ECC row holds pairs of a data row and an ECC bit, that is one byte per data
row. `wf` and `ef` are the stack frames of `efuse_write_row_no_ecc` and
`efuse_write_row_with_ecc_lock`; each raw read, enabling of the programming, pulse sequence
or lock pulse and disabling is a step; `master` is whether programming is enabled. `Column` gives each data bit the ECC bits it enters, so that `secded_ecc`
is the code's linear function for any table; correction on reading (`EccRead`)
is what the hardware does with the difference of the bytes. Faults, bounded by
`MaxFaults`, are timeouts of any access, pulses that leave bits unblown, and
locks that do not take; the power fails at most `MaxPowerLosses` times, during a
pulse too.

`EfuseProofs`, `DeployProofs` and (for `OtpCommands`, below) `OtpProofs` hold the
proofs.

The debug console's `efuse lock` and `efuse write` are calls of the same functions;
the latter, with its own checks, is in `OtpCommands`.

`Deploy` drives it: `do_deploy` (serial number and board data unless locked, key
unless the first key row is locked, read-back) and `do_deploy_trust_only` (hash,
flags). After the warm reset, or a power loss, the host starts again with the
same request, up to `MaxAttempts` times. The RAM size that `get_ram_size` finds
is the same each time, or none (`UnknownRam`).

### Entropy

`CBuf` holds `cbuf_pull` and `cbuf_push` as operators on a buffer record, `Ebg`
the functions of `ebg.c`. Bytes are numbered in the order in which the generator
or the hash delivers them, so that an output can be compared with what should
have come out. All of it runs in main, hence one action per call, except that
`paranoid_rand` takes a step per digest (`job` counts the bytes left).

The buffers lie in memory that no start-up code clears (`wtmi.ld:25-33`), hence
`Junk`. The proofs are in `ServicesProofs`, with those of `ApMem`, `Ecdsa` and
`Board`.

### Commands

`ApMem` is `process_ap_mem` with its callers `cmd_get_random` and `cmd_sign`.
Addresses and lengths are words that wrap; `win` is the remap register of the
window, `frame` the locals of the loop, and each turn of the loop is a step.
`pieces` remembers what the callbacks were given, in the AP's addresses as the
window was at that moment.

`OtpCommands` is the OTP part of `main.c` on top of `Efuse`: the width, offset
and row checks, three-fold bits in the first rows with their majority vote, and
the commands for four rows; and the debug console's `efuse write`, which wants an
open row and a superset of what it reads. `asked` and `confirmed` are what the
commands asked for, and what they reported as done.

### Signatures

`BigNum` holds the long numbers as arrays of words: addition and subtraction with
their carries, comparison from the top, reduction by subtraction, the masked draw
of `bn_random`. `Ecdsa` is `ecdsa_sign` in steps (draw, multiply, clear, key, inverse,
product), with the operand registers of both coprocessors (`ecp_op2`, `zmodp_x`) and the
nonce on the stack (`k`), and key generation, public key and verification in one step each. The coprocessors are external: what
they compute is written by the definition of the curve group; they report the point
at infinity, and the sum of equal or opposite points, as errors. `Valid` is ECDSA by
its definition, against which `ecdsa_verify` is compared. `sb` is the secure buffer,
which `efuse_read_secure_buffer` fills once. `Powers` has the powers that shifts and
words are made of, for `Board` too.

`Signer` says what the module promises, without words, coprocessors or nonces: keys are
integers, a signature is any that ECDSA's definition allows for the hash that was asked
for, verification answers by the definition (less the three kinds in `TurnedDown`), and
the key is read once. `EcdsaRefinement` is the mapping: a request is pending while
`ecdsa_sign` runs, however often it draws, and words are the number they stand for. With
`ImplementsSigner` the arithmetic is compared with ECDSA whatever the steps between.

Two assumptions are about the curve. `GroupAssumption` is mathematics of its constants:
the points are a group in which every point but the neutral one has the prime order.
It is known of secp521r1, and TLC evaluates it on the small curve. `ForeignAssumption`
is that the coordinates of a public key are below the prime: `tim.c:347` verifies only
under the key whose hash is in the fuses (`tim.c:341-345`). The multiples of a point are
taken by adding it again and again, which is what the coprocessor's result is by definition.

### Board

`Board` follows rows 42 and 43 from `mbd` through the shifts of `deploy.c` into the
fuses, and out again through those of `board.c` and `main.c`. Deployment may stop
after any row, with or without the row's lock, and with the lock but without its ECC byte,
where a reading may be off by a bit; a read may fail at any time. `hw` is
the board as it is wired, and `get_board` walks over MDIO, the PHY's page and the
flash, in the code's order, one step each. A reset may follow any step.

What is assumed of boards and hosts is named: `PinsAssumption` (a pin is the bus's or a
GPIO) and `DeploymentsAssumption`, that a host writes a device code of an Atlas to an
Atlas only, and into the words that are not masked nothing wider than a word. Nothing is
assumed about who answers on a board's bus: `Fallback` is what the tests of `get_board`
give on a bus that nobody disturbs, and `KnowsItsBoard` says that the pins, the page, a
failed read or a reset make no difference to that.

### Memory and clocks

| module | what it is |
|---|---|
| `Clock` | presets, `setup_clock_tree`, `set_tbg_clock`, spread spectrum, `init_avs` |
| `DdrTraining` | the searches as functions of what a board's signals allow |
| `Ddr` | `init_ddr` (`main.c`), `ddr_main`, `init_ddr` of `ddrcore.c`; resets and warm boots |
| `DdrProofs` | TLAPS proofs about all three |
| `MCDdr` | small boards |

A PHY register holds a tagged value, so that a value written to the wrong register
is seen. `kept` is the set of chips whose contents are those of the last boot: a
memory test on a chip removes it, and so does a change of the clocks while the chip
is not in self-refresh; the result in the first chip is `Lost` with it. `sram` and `dram` are the training result with its union;
`trained` remembers what the last cold boot left. A board is the set of phases,
voltages and delays that work. The AP's firmware asks for a warm boot (`Suspend`);
`Reset` may happen anywhere, and the boot ROM then sets the interface up again from
the image header. The model assumes that a reset does not cost the DRAM its contents
(it stays powered).

In `Clock`, `tbg[t].lock` is the hardware's: it falls when a TBG is held in reset and
comes back some time after (`Lock`).

### Environment and console

`UbootEnv` reads an arbitrary content, byte by byte, through a buffer: `Reread`
is the move back to the beginning of a variable that was cut. `Begins` and
`Usable` define, independently of the code, where variables begin and which fit.

`DebugConsole` takes a byte per step: escape sequences, editing, history. `term`
is the terminal as far as the editor writes to it. Where the editor itself prints
into the line (`junk`), the screen is not compared. `InputProofs` holds the proofs
about both readers.

### Reset and images

`Soc` is the start of the AP with `start_ap_workaround`, and the reset without the
reset register. `pc` walks through `reset_workaround`, one step for each access the
AP can observe or disturb; the AP (boot ROM, operating system, helper) interleaves
with it. `ap` is the set of things the operating system has left in a state the new
firmware does not expect: interrupt controller, DVFS, watchdog, mailbox of ATF,
peripherals. `core0` is where core 0 is in the helper. `ImageLoad` holds the decisions of
`tim.c` as operators: a header is a record of what the checks look at, with the
packages of its reserved area; a signature is the key that made it, a hash is the
data it was made of. `FusesFail` is the `die` of the functions that read fuses.

Two things are assumed of the AP. It takes a message before the main loop gets to
the next request (`Idle`): `start_ap_at` does not look whether one is waiting, and
a message that nobody took would start the AP in the middle of the reset. And
`kick` is typed when core 0 waits in its boot ROM. `SocProofs` holds the proofs.

### Instances

`MCServices` runs five modules that share no state (`Efuse`, `Ebg`, `Ecdsa`, `ApMem`,
`Board`), `MCInput` two (`UbootEnv`, `DebugConsole`); the constant variable `part` says
which one a behaviour is about, so that the state spaces add up instead of
multiplying. The others have an instance each.

## 3. The runs

| run | shows | bounds |
|---|---|---|
| `mbox` | FIFO, no missing handler, interrupt and command agree, answers in order, no unread message overwritten but by a start of the AP, `Mbox` implements `MboxService` | ring of 2, 4 commands of 3 kinds (a reboot with high bits, the last Marvell write, an unregistered short one); AP running before the firmware or started by it or by "kick", one kick of an AP that runs |
| `mbox_live` | accepted commands are answered, the registers become free | ring of 2, 4 commands, one kind unknown and rejected; release build without a watchdog reset |
| `deploy` | a first successful provisioning is complete; board data are final whatever failed; flags come after the hash | 2 rows of each kind, 3 starts, 2 faults, 2 power losses |
| `deploy_key` | **violated**: a restarted run reports success with a key that was never generated | provisioning only, otherwise as `deploy` |
| `ebg_first` | **violated**: the first digest does not hash zeros | as the entropy part of `services` |
| `otp` | exactly the bits that were asked for are blown, in order; what was reported as written reads back | rows of 8 bits, 3 commands, 1 fault, 1 power loss |
| `soc` | hand-over to a clean SoC, the owner's firmware, exact watchdog, the attempt ends | helper polled 3 times, AP 3 times with the odd number 1; headers and packages wrong in one thing, 5 values of row 1; counters to 40 with words of 32 |
| `services`, fuses | success means written, locked, ECC-consistent; programming is enabled in an access only, unless that timed out; other rows untouched | 3 data rows on 2 ECC rows, 2 bits, 2 tries, 2 faults, 1 power loss |
| `services`, random | every byte used once, in order; buffers erased | buffers of 6 and 7, digests of 3 from 4 bytes, 14 samples |
| `services`, signatures | a signature is valid and verifies; `Ecdsa` implements `Signer`; neither the nonce nor its inverse left behind in a coprocessor | curve of 7 points over the integers modulo 11, numbers of 2 words of 3 bits, 3 calls, verification as the first of them |
| `services`, AP memory | pieces tile the request inside RAM; window restored; a failing command has written nothing | words of 6 bits, windows of 16, RAM of half a window to all four; starts and lengths around every end |
| `services`, board | the board is what bus, flash or a complete row say; its data are the deployed ones; pins and PHY restored | every board the code knows, MAC addresses of 6 bits, versions of 2, any step cut by a reset |
| `input` | usable variables are passed on, ignored ones noticed, the reader moves forward; nothing behind a buffer, screen and line agree | every content of 8 bytes over 3 byte kinds, buffer of 3; lines of 2 bytes, history of 5 |
| `boot` | the table's frequencies but for the lines in `Departing`, quiet clock changes; a warm boot keeps and restores; what was trained works; each chip tests itself | 3 boots; 5 presets, 2 crystals, 4 fuses; 6 pairs of chip sizes; 4 phases, 5 voltages, 2 by 2 delays |
| `ddr_warm` | **violated**: a DDR3 warm boot does not restore the gates | as `boot` |
| `clock_table` | **violated**: four lines do not run at what the table says | as `boot` |

Why the bounds are enough. A ring of two slots is full with two requests,
wraps after two pops, and four commands fill it, overflow it and use it again;
the ring arithmetic for every size is proved (section 5). Two tries with two
faults reach both the success after a retry and the failure after the last one;
three data rows give a pair that shares an ECC row and one that does not, and
the code of `MCColumn` has distinct columns of odd weight like the real one.
Three starts and two power losses cover every place where a run can be cut, and
where its repetition can. The entropy buffers have sizes that are no multiples of
what goes in and out, so that both halves of a wrapped transfer are non-empty.
A word of four windows has a first, a last and two inner windows, and requests
that wrap. A buffer of three with eight bytes has variables that fit exactly,
that are cut, that are longer than the buffer and than two of them. A history of
five bytes holds two or three commands, so that each new one drops some. A curve
of seven points has hashes below, at and above its order, draws that are rejected,
nonces whose r or s is 0, and an x that is not below the order. MAC addresses of
six bits include those whose successor carries into the upper word and into the
version, and values wider than their field. Four phases and five voltages give
windows at either end, of one step, two of the same size and two apart; three boots
are a cold one, one that is cut, and the one that must cope with it. Three
polls let the helper finish before, between and after them; a second in the
watchdog's counter is below the limit of a word, and the largest product below it
fits in a word, as with the real numbers (2^24 ticks, prescaler up to 255).

Deadlock is checked except where the system does stop: `Deploy` ends after
`MaxAttempts` starts, `OtpCommands`'s commands and `Ddr`'s boots are bounded (and
without a chip the boot waits for ever), and `Soc` ends with a new start. In
`MCServices` and `MCInput` the parts that reach a bound or an end may stutter.

### What the four violations are

* `deploy.c:149` looks at row 30 only. After a power loss, or a failed write,
  between the lock of row 30 and the last key row, the next run "finds" a key,
  reads blank rows as part of it and reports success.
* `ebg.c:232` hashes the 64 bytes behind the raw ones; nothing cleared them
  before the first call, contrary to the comment at `ebg.c:214`. After a reload
  (`reload.c`) they hold a digest of the firmware that ran before.

* `ddrcore.c:301` and `323` keep PHY and DRAM voltages for DDR3 too, in a union
  (`ddrcore.h:99-112`) whose first two words are then `ddr3.wl_rl_ctl` and `cs0_b0`.
  A warm boot writes them into the read levelling registers of byte 0 of the first
  chip and the control register, although `ddr.c:283` promises the reserved settings.
  Everything else is restored (`ResumeAsTrained`).
* Four lines do not run at the frequency that the tables above the presets promise.
  The presets divide the PWM's clock down to 50 MHz, the tables (`clock.c:113, 166, 214,
  265`) say 100. `eip97` is 500 instead of 400 in configurations 1 and 3 (`clock.c:153,
  239`), and in 3 `trace` is 1200 instead of 800 and `counter` 150 instead of 160
  (`clock.c:250, 248`). `ClockAsPromised`, in `boot`, says that these are all: the set of
  departing lines is exactly that. The lines without a selector of their own (`ddr_phy_mck`,
  `wc_ahb`, `atb`, `plkdbg`, `cpu_cnt`, the halved `gbe` ones) are not in the model; of these
  the table of configuration 3 promises 800 for `ddr_phy_mck` beside its own "DDR 750".

### Observations without a run

* A command that meets a full ring gets no answer, only a bit the AP may look
  at; a rejection overtakes the answers to earlier commands. Both are in
  `MboxService`, which is what the AP may rely on.
* Because `setbitsl(HOST_INT_SET, ...)` is not atomic with respect to the AP, the
  full-queue branch can raise `CMD_COMPLETE` again: the AP then reads the last
  answer a second time. `AnswersInOrder` allows this exactly when a command has
  met a full ring.
* `efuse.c:452` compares with 45 although the loop ends at 44: ECC rows are
  never locked.
* `kick` and `a53` of an AP that runs overwrite the message that it has not read
  (`mbox.c:195`): that answer is lost (`lost`), and a rejection sent between their two
  register accesses and the interrupt takes the place of the start. An AP that reads between
  the writes of argument and status would see a mixture; that is not modelled.
* A data row whose write was cut between its lock and its ECC byte stays
  without ECC: `do_deploy` then either fails for ever or, when the error looks
  like one bit, accepts a wrongly corrected value on reading. In row 42, that makes one
  board of CZ.NIC the other, or hides the prefix of the MAC address, so that the bus is
  asked (`KnowsItsBoard` allows this, and nothing more).
* After a timeout inside `efuse_raw_write` or `efuse_raw_lock` programming stays enabled
  until the next access that gets to its end (`efuse.c:283-290`).

* A request that begins a window and is empty, or is longer than a window, is cut
  wrongly by `main.c:36-40`: the length of an empty one wraps, a long one is cut
  once too few. `cmd_get_random` does not limit the length of the request.
* `check_ap_addr` (`main.c:91-92`) lets a request end one byte behind the RAM, and
  with 4 GiB accepts everything; `cmd_sign` can then fail after it wrote R.
  `NothingWrittenOnFailure` is about smaller RAM.
* `uboot-env.c:99` counts a variable that is longer than two buffers once for every
  piece of it, although the message at line 158 calls the sum "variables". Whether
  any was ignored is right (`IgnoredReported`, a part of `UsablePassed`).
* `debug.c:148` puts the line aside without its NUL: a shorter line comes back with
  the tail of a longer one that was put aside before. ESC followed by a byte
  outside 0x40-0x5f leaves the escape state where it was.
* The watchdog's words may be read on two sides of a carry; with prescaler 1 the
  workaround misses the time between a second and 2^24 ticks, with prescaler 0 it
  resets at once. `WatchdogExact` is about the others.
* When the new firmware cannot be loaded, `reload_secure_firmware` stops for good
  and does not fall back to the warm reset. After a `reset_by_sw` that failed,
  interrupts and the tick stay off.
* When the user ends the waiting, or it times out, and the interrupt controller
  was off before, the reset goes on with a helper that may not have run:
  `HandOverClean` demands nothing then.
* `start_ap_workaround` polls 4000 times and then compares with 1000
  (`soc.c:264-271`): an AP that never starts is not reset, one that starts at just
  that poll is (`PollAp`, `ResetCore0`). `soc_init` passes a missing variable to
  `strcmp`. `find_timn_entry` reads what is at address 0 when TIMH has no IMAP
  (`at_null`).
* `efuse_read_secure_buffer` fills the buffer once: a key that is generated after a
  read of a blank one is not used before the next reset, and a signature made
  without a key is made with 0 (`SignedVerifies` is about a key). When the key cannot
  be read, `ecdsa_sign` returns with the nonce on its stack.
* `ecdsa_verify` turns down three kinds of valid signatures, all of them out of reach
  in practice: a hash that is 0 modulo the order, two equal points to be added, an x
  that is not below the order.
* `cmd_board_info` increments the whole row: behind the broadcast address the version
  changes too, and with a version of ones the device.
* The clock: with a 40 MHz crystal, preset 3 gives 1480 instead of 1500 MHz;
  `set_ssc_clock` ORs its divider into a field of which it clears only the lower eight
  bits (`clock.c:763-764`); the result of `clock_init` is not looked at.
* The memory: checksum and test errors are only printed; a DDR4 chip that misses its
  time-out for self-refresh goes through the clock change awake (`MemorySurvives` is
  about DDR3), and if it holds the training result, garbage is restored after a printed
  checksum error (`ddr.c:137-141`; `ResumeAsTrained` leaves this case out); the searches
  take the outermost phases that pass and do not notice holes (`TrainedWorks` asks for
  windows without); in the write voltage's search a shorter
  window behind a longer one stays open and is merged with the next
  (`vref_training.c:132-142`), so that its middle may fail; a voltage training that fails leaves
  the last voltage it tried; a delay search of width 0 keeps its result and reports
  a failure. `main` always asks for one chip, so that the two-chip parts of `ddr_main`
  run only with another caller; the model takes both.

## 4. Fairness

Two runs need it. In `soc`, `Workaround` is weakly fair: the core executes the
instructions of the reset; the AP and the user are under no obligation
(`Interrupted`, which is CTRL+C, is not part of it), so that only the timeout ends
the waiting for a helper that does not answer.

In `mbox_live`, `Main` and `IrqBody` are weakly fair because the core
executes instructions as long as it is in that context. Sleeping ends
(`WakeByMbox \/ WakeByTick`) because `enable_systick` has the tick run for good.
`IrqEnter` is strongly fair: a pending interrupt is taken although main masks
and unmasks again and again; with weak fairness the model could miss every
window, which the hardware cannot. `ApRead` is weakly fair: the AP reads the
answers it asked for; without it `mbox_send` waits for ever, by design. The AP
is not obliged to issue commands. The number of commands being finite, the runs
say nothing about an AP that starves main with rejected commands.

## 5. Proofs

Eight modules of proofs, each for every value of the constants that the named
assumptions of the modules allow, and for behaviours of any length. Where a theorem
has a further hypothesis, it is named below. No invariant that the runs check is
inductive as it stands; each of the conjunctions below is, and implies them. TLC has
checked the larger ones on the instances of section 3 before they were proved.

`MboxProofs`: `TypeOK`, `QueueFifo`, `NoNullHandlerCall`, `CommandHasInterrupt` and
`MsgWrittenOnlyWhenRead`, for every queue size, command table, set of commands and
build flag (the queue has a slot, commands are numbers, flags are Booleans). None of
these is inductive. `IInv` adds

* `MaskInv`: from the test in `mbox_send` to its `enable_irq`, main has interrupts
  masked and the handler is idle;
* `OutboxInv`: a message is unread only while `CMD_COMPLETE` is set or a sender
  is about to set it, and a sender that is about to write has found it clear;
* `StartInv`: as long as the AP is off, no command, no message and no request
  exists (`OffInv`), which is why the first `start_ap_at` may write without looking; only
  the console starts an AP that runs;
* `InterruptInv`: `CommandHasInterrupt` with the state between the two clears.

The argument: frame lemmas say which actions touch which registers; a lemma per
part of `IInv` shows that every other action preserves it; the ring needs three
lemmas about `%` (two offsets below the size never share a slot, and popping
shifts the offsets by one). The theorems combine them with PTL.

Besides, about the order of the answers:

* `AnswersAlwaysInOrder` (`AnswersInOrder`). `IdInv`: the AP's calls are
  numbered, and accepted in the order of the numbers. `ShownInv`: what the AP is shown
  comes from main, is the handler's refusal, or, once the ring was full, the last message
  again. `OrderInv`: the answers that the AP has read belong to commands that were
  answered, in the order in which these were accepted, strictly so until one has met a full
  ring; and every command that was answered has its answer among them, waiting, or in
  `lost`.
* `Refinement` (`ImplementsService`): under the mapping of `MboxRefinement` the initial
  states of `Mbox` are initial states of `MboxService`, and every step of it is a step of
  the service or a stutter. Its lemmas are one per action that is not a stutter.

`EfuseProofs`, for every array of rows, table of ECC columns, number of tries, bounds on
faults and power losses, and set of calls:

* `EfuseInv` consists of the types, `NestInv` (the two stack frames are nested, and
  programming is enabled wherever fuses are blown), `WriteInv` (what the inner frame knows of its row: the
  bits blown are those that were, and some of those asked for) and `EccInv` (the same
  for the outer frame and the row's ECC byte). It is proved of `AnyStep`, so that every
  client of the two functions inherits it.
* `WritesAlwaysVerified` (`WriteVerified`), `ProgrammingAlwaysClosed` (`ProgrammingClosed`).
* `CodesNeverSpoilt` (`FinishedRowsStayReadable`), if nobody writes raw to an ECC row
  (`RawCallsSpareEcc`; the raw writers, the OTP commands and the console's `efuse write`,
  accept any row, and such a write can do anything to the codes). `SharedInv`: only the ECC
  step writes outside the data rows, and nothing is written but what was asked for beside
  what is blown already.

`DeployProofs`, for every set of rows and values:

* `InfoAlwaysFinal` (`DeployedInfoFinal`). `DInv` adds to `EfuseInv` and `SharedInv` that all
  calls are with ECC, which call is under way at each place of the deployment, and
  (`FixedInv`) that a row whose value is fixed holds part of that value until it is locked,
  and all of it from then on, through any restart; `InfoInv` says which info rows are done.
* `HashAlwaysBeforeFlags` (`HashBeforeFlags`), if no row of the hash is masked
  (`HashRowsOpen`; a masked row is refused, the refusal is ignored, and the flags are
  written all the same). `HashInv`: as long as nothing has failed, the rows of the hash
  behind the loop are locked, and all of them once a flag is being written or blown.
* `FirstDeployAlwaysComplete` (`FirstDeployComplete`), if no ECC row of an info or key row is
  masked (`EccRowsOpen`; nobody could read back the ECC byte otherwise). `FirstInv` follows
  the first start on a blank board, row by row.

`OtpProofs`, for the OTP commands and the console's `efuse write` on boards with and without
secure boot: `AlwaysWritesWhatWasAsked` (`WritesWhatWasAsked`) and `AlwaysReadsBack`
(`ReadsBack`). `OtpInv` is `EfuseInv` with `CmdInv` and `CallInv` (which call is
under way for the command, and what its success has blown), `AskedInv` (every bit blown, or
about to be, was asked for; every bit confirmed is blown), `ProgressInv` (of a command for
several rows, those before the current one are done and those behind it untouched) and
`ReadInv` (what a reply holds is what the fuses hold). Two lemmas are about the commands'
arithmetic: a shifted value has the bits meant (`ShiftedIsMeant`), and a vote of three
is decided by two (`ThreeVotes`).

`ServicesProofs`:

* `Ebg`, for every size of the buffers, of a sample's run and of a digest:
  `EveryByteAlwaysOnce` (`EveryByteOnce`), `NothingEverLeftBehind` (`NothingLeftBehind`). First,
  as lemmas about any buffer, `cbuf_pull` takes the oldest bytes and erases them, and
  `cbuf_push` appends, wherever the memory ends (`%` again). `EbgInv`: both buffers are
  well-formed and hold no byte that was handed out; what was handed out, followed by
  what is buffered, is a stream in order (`RawInv`), for the digests one without gaps
  (`StrongInv`).
* `ApMem`, for all sizes of words, windows and RAM: `WindowAlwaysRestored`
  (`WindowRestored`), `FailuresNeverWrite` (`NothingWrittenOnFailure`) and
  `ServedAlwaysTiled` (`ServedRequestsTiled`). `WindowInv`: while pieces are cut, the window is
  the one the frame remembers; otherwise it is at 0. `ApInv` adds what has been checked of the
  arguments, that nothing was written before the last check, and (`CutInv`, `TileInv`) that the
  pieces so far end where the next begins. `WindowAssumption` says what is needed of the
  sizes: a word has whole windows, a window whole alignments of at least 2, and RAM is a
  multiple of the alignment and either all a word can address or short of it by
  more than the largest block. In the code the alignment is 4, and RAM is whole MiB, up to
  3.5 GiB or 4 GiB.
* `Ecdsa`: `NothingSecretStays` (`NothingSecretLeft`), for every curve, key, message
  and failure. `LeftInv`: between the steps of `ecdsa_sign` the ECP's operand holds the nonce
  only where `ecp_clear_operands` comes next, and ZMODP's none. The key is not in a register
  of the model: the hardware takes it from the fuses (`X_FROM_OTP`).
* `BigNum`, for every number and width of words. Numbers and arrays of words correspond one
  to one (`Num`, `Val`); comparison, addition and subtraction with their carries and borrows,
  reduction (`ModuloReduces`) and addition modulo (`AddModAdds`) are those of the numbers.
* `Ecdsa` again, for every curve that satisfies the assumptions, every word size, key, hash
  and draw: `VerifyAcceptsExactly` (`ecdsa_verify` is ECDSA less the three kinds),
  `SignaturesVerify` (`SignedVerifies`), `VerificationAgrees`, and `SigningRefinement`
  (`ImplementsSigner`). From the group laws follow that multiples add (`n` times plus `m`
  times is `n + m` times, and modulo the order) and from these that a signature gives the
  nonce's point back. `SignInv` says what the locals of `ecdsa_sign` are worth at each
  place (`SignerHas`: which nonce, and which of the products and sums so far), that
  what it returned was made by some nonce with the key in use (`SignedAre`), and that the
  hash is the one that was asked for (`AskedIs`).
* `Board`, for all boards, deployed data and widths: `AlwaysKnowsItsBoard`
  (`KnowsItsBoard`). `BoardInv`: a row is blank or holds what was to be deployed, on a board
  that is deployed at all (`RowsHold`; `get_board` believes it once it is locked), and
  (`PlaceKnows`) at each place of `get_board` pins, page and tests so far are those on the
  way to what the undisturbed bus says, or the row has decided. The arithmetic (`FieldsOfRow`) is that
  a row packed by shifts is unpacked field by field, and that a successor reaches the
  next field only behind the last value of its own.

  The induction over words, multiples and powers is on sets of numbers: a set of naturals
  with 0 and every successor is all of them (`NatSet`, from the well-foundedness of `<`),
  so that no operator need be a parameter; `Recursion` unfolds recursive functions the
  same way.

`SocProofs`, for every flash contents, fuse value and timeout:

* `HandOverAlwaysClean` (`HandOverClean`). `StoppingInv`: until the AP is stopped no
  message to it waits. `LaunchingInv`: it is stopped before the helper is started.
  `HelperInv`: where the helper is tells what it has tidied up. `ReplacingInv`: once it has
  proved that it ran, nothing happens on the AP any more.
* `AlwaysOwnersFirmware` (`RunsOwnersFirmware`). `LoadedInv`: a reload is entered only with an
  image that `load_image` accepted; the lemmas follow `check_tim`, `load_tim` and `load_image`
  test by test.
* `WatchdogAlwaysExact` (`WatchdogExact`), if a second is shorter than the range of the
  low word that the code tests, and the low word times the prescaler fits in a word
  (`PrescalersFit`; with the code's numbers, prescalers from 2 to 255). `WatchdogInv` says
  what the two reads saw.

`DdrProofs`, for every set of machines that satisfies `MachinesAssumption`, every grid
of phases, voltages and delays (`RangesAssumption`) and any number of boots:

* `MemoryAlwaysSurvives` (`MemorySurvives`). `MemInv` says where a boot with the warm
  bit can be at all (never at a memory test or a training), and that from the last
  self-refresh entry to the first exit every chip is asleep, before it those already
  passed; this is what makes the change of the clocks harmless.
* `ClocksAlwaysChangeQuietly` (`ClockChangesQuiet`). `QuietInv` relates the place in
  `setup_clock_tree` to the TBGs: lines on the TBGs imply both locked and out of
  reset; from the switch to the crystal to the switch back the lines are on the
  crystal; before the switch back both locks have been awaited and the lines hold the
  preset; and the voltage belongs to the preset's speed. That nothing changes under the lines
  is proved action by action from the same invariant.
  That the fused voltage is in range is a lemma about `Vdd`.
* `EveryChipTestsItself` (`TestsOwnChip`). `WinInv` says that `wins` and `remap` belong to
  the same capacity; lemma `WindowsLeadHome` does the arithmetic for every size code.
* `ClocksAlwaysAsPromised` (`ClockAsPromised`). `TreeInv`: a TBG that was set holds the
  preset's values, and TBG-A has spread spectrum only when Ethernet does not run from it;
  `BeforeTree`: nothing is set before the self-refresh entry. For each preset and both
  crystals the frequencies are then computed, rounding included, and compared with the table
  line by line.
* `AlwaysResumesAsTrained` (`ResumeAsTrained`), `TrainingAlwaysWorks` (`TrainedWorks`).
  `TrainInv` says which registers still hold what the searches chose, at each place of
  a boot, and that the result in the DRAM is that of the last complete training, or `Lost`
  when its chip is DDR4 and was not kept. That the middle of a window
  without holes lies in it, and that the least and the greatest of a set of delays exist,
  are lemmas (the latter from the well-foundedness of the naturals).

`InputProofs`:

* `UbootEnv`, for every content and size of the environment and every buffer:
  `UsableAlwaysPassed` (`UsablePassed`) and `PiecesAlwaysAdvance` (`PieceAdvances`). `Here`
  is how far the search has got. `WhereInv`: it is between two variables of the list, or
  inside one that does not fit. `CountInv`: those before it were passed on if usable,
  and counted otherwise. That a variable which ends in the buffer adds exactly itself
  (`Behind`, `NoneBetween`) is the heart of it.
* `DebugConsole`, for all sizes of the arrays and whatever is typed: `AlwaysInBounds`
  (`InBounds`), `ScreenAlwaysShowsLine` (`ScreenShowsLine`). `ConsoleInv`: the line is short
  enough and on the screen, every entry of the history is as short, they fit together, and
  the last byte of `orig_cmd` is its NUL. The bytes that the history uses are counted as a
  set; dropping the oldest entries maps it one to one (`KeptPlaces`).

Every safety invariant and action property that a passing run checks, and both
refinements, are proved. Only model-checked, and why:

* liveness (`CommandAnswered` and `MailboxReleased` in `mbox_live`, `ResetEnds` in `soc`):
  the prover has neither ENABLED nor fairness;
* that the assumptions on the constants hold of the code's own numbers, where these are
  large: `GroupAssumption` of the curve of 521 bits is beyond both tools;
* the four violations of section 3, which are TLC's counterexamples.

## 6. Plan

Done, in this order: mailbox, fuses, provisioning, entropy, commands (`ApMem`,
`OtpCommands`), environment, console, reset and images; then clocks, memory,
signatures, board, the start of the AP and the packages of image headers; then the proofs
of every safety property that the runs check, and `Signer`. Next, most important first:

1. `Secded`: the real 64-column table, checked for single error correction and
   double error detection.
2. `Soc` composed with the mailbox, to do away with the assumption that messages are
   taken in time.
3. Drivers with a protocol of their own: the flash reader (`spi.c`: busy waits,
   status, page ends), the hash engine with its padding and DMA (`crypto_hash.c`,
   `crypto_dma.h`), and the number parser of the console (`stdio.c`).
4. The caches of fuse values (`tim.c`, `main.c`) across the commands that write
   fuses.

Abstract specifications worth stating: a byte FIFO that `CBuf` implements (its content
is proved to behave as one, `PullSplits` and `PushAppends` in `ServicesProofs`, but the
specification is not written); a write-once row store that `Efuse` implements.

Proofs planned: those of the two abstract specifications; that the initial states and steps
of `Soc` composed with the mailbox keep `HandOverInv`; `SECDED`'s correction of one error
for every row, once the table is there.

## 7. Not modelled

* The debug commands that display or write memory, registers and fuses, and
  `ddrtest` and `info`: nothing depends on them.
* UART, SPI, GPIO and the hash engine's driver: register sequences that keep no
  state of their own. `spi_write` is not called; it counts wrongly when the length is
  below the misalignment.
* The C library, CRC and the vendored inflate: library code.
* The test patterns, sweeps and CPU tests of `ddr/` that no boot calls, the register
  sequences of `mc6_init` and of the mode registers, the spread spectrum's parameters
  and the delays: values for analogue hardware, about which the code promises nothing
  that could be compared with.
* The two coprocessors of the signatures and the generator's analogue part: hardware,
  modelled by its results.
* The copying of `do_reload` into the place of the running firmware.
* Build and image tools, which run on the host.

`PROJECT.json` lists every part with its status.
