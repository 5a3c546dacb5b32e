# Specification of the pen plotter

TLA+ models of the pen-plotter SoC (`src/rtl`), its firmware (`src/sw/main.c`),
the simulation models around it (`src/dv`) and the two tools that are part of
its build (`src/vendor.py`, `src/sw/vmem_to_mif.py`), checked with TLC.  For the bus, the
timer, the UART in both directions, the STABLE handshake, the decoder, the PWM,
the controller's arithmetic, the command loop, the firmware image and the vendoring
tool the safety properties are also proved with TLAPS, for every value of the constants.

## The system

An Ibex core executes `main.c`. It reaches every peripheral over one OBI bus.
A host program sends commands over the UART; the firmware writes setpoints into
two PD controllers ("PID"), which drive two motors until the quadrature decoders
report the wanted position; a stable event of a controller interrupts the
firmware, which sends a `STABLE` packet when both axes rest. A timer interrupt
paces the position reports.

Apart from the running system there are two programs. `vendor.py` keeps the
vendored cores: it imports an upstream repository into a directory, applies
patches, writes a lock file with the revision and commits. `vmem_to_mif.py` turns
the firmware's memory image for simulation into the one for synthesis.

| component | source | state | operations | talks to |
|---|---|---|---|---|
| system bus | `rtl/core/bus.sv` | ring of outstanding requests, two indices | accept, capture, respond | hosts (Ibex, debug), devices: OBI request/grant/rvalid |
| UART | `rtl/uart_peripheral/uart_obi.sv` | bus state machine, TX and RX FIFO, TX and RX state machine, baud counters | register reads and writes, send, receive | bus, serial lines |
| UART models | `dv/verilator/peripherals/sim_uart.hpp`, `dv/uvm/obi_uart/obi_uart_scoreboard.svh` | state, ticks, bit; queues of expected bytes | inject, decode, compare | serial lines |
| PID | `rtl/pid_peripheral/*` | gains, setpoints, samples, stability counter, STATUS | sample, respond, raise event, acknowledge | bus, decoder, motors, interrupt |
| firmware | `sw/main.c` | command buffer, flags, timer locals | command loop, two handlers | bus, interrupts (shared volatile flags) |
| system timer | `rtl/obi_sys_timer.sv` | MTIME, MTIMECMP, CONTROL | count, compare | bus, interrupt |
| register file | `rtl/common/obi_reg.sv` | registers | hardware and software writes | bus, PID, timer, decoder, PWM |
| quadrature decoder | `rtl/quad_peripheral/*` | last levels, position | decode, clear | bus, PID |
| servo PWM, motor PWM | `rtl/pwm_peripheral/*`, `pwm.sv`, `md_controller.sv` | counters | count, compare | bus, PID |
| memories | `rtl/core/mem/*` | words | two ports | bus, Ibex |
| host tools | `dv/verilator/ppcsender.c`, `shape.c` | protocol position | send commands, wait for packets | UART pipes |
| vendoring tool | `vendor.py` | description, lock file, target and patch directory, git index and history | refresh patches, clone, import, lock, commit | upstream and patch repository, git, user |
| firmware image | `sw/vmem_to_mif.py` | words by address | parse, write | build, simulator, Quartus |
| harness, top levels, UVM, vendored cores | `dv`, `rtl/platform`, `vendor` | — | — | — |

What is hard here, and what makes each part correct:

* **Bus.** Several requests are outstanding to devices of different speed; a slot
  knows its device but not which answer is its own; slots are reused; one host
  has priority. Correct: each accepted request gets one answer, its own, in
  order; nothing waits for ever; the reused slot is clean.
* **UART.** FIFOs at their limits, a word write that stalls half way, free
  running counters compared for equality, a peer with its own clock, a poll
  whose answer is old when it is used. Correct: bytes arrive unchanged, in order,
  once; an overflow costs the newest byte only.
* **PID and firmware.** Edges, interrupt, flags and main loop are not atomic with
  respect to each other. Correct: a finished move is announced, and only a
  finished one.
* **Timer.** Values of two words that change between two accesses. Correct: the
  time read is a time that was; no interrupt before the deadline; none lost.
* **Firmware's command loop.** Commands of one or six bytes whose boundaries only
  their lengths tell, a loop that stands still while it writes to a full FIFO.
  Correct: what is executed is what was sent, in order, and all of it.
* **Decoder, PWM, controller.** Clears and register writes land at any edge;
  counters compared with limits that change; products cut to a word. Correct: no
  step lost or counted twice, a period's pulse as programmed, the response exact
  when it fits, samples that keep coming.
* **Vendoring tool.** A run is a dozen steps over files, each of which may be the
  last; the next run starts from what is there, while upstream moves on or
  rewrites its history. Correct: lock file, target directory, patches and commit
  agree when a run ends normally, whatever came before.

Every hazard with its line, and the properties aimed at it, is in
`PROJECT.json`.

## The modules

| module | models | checked by |
|---|---|---|
| `ObiOrder` | abstract: responses owed to hosts, in order | refinement target |
| `ObiBus`, `MCObiBus` | `bus.sv` with any hosts and devices | `ObiBus*.cfg` |
| `ObiBusProofs` | theorems about `ObiBus`, refinement of `ObiOrder` included | TLAPS |
| `UartObi` | `uart_obi.sv` | through the two links |
| `UartTxLink`, `MCUartTxLink` | OBI host → UART → decoder → scoreboard | `UartTx*.cfg` |
| `UartRxLink`, `MCUartRxLink` | injector → UART → polling loop → scoreboard | `UartRx*.cfg` |
| `UartObiProofs`, `UartTxProofs`, `UartRxProofs` | lemmas about one edge of `UartObi`, theorems about each link | TLAPS |
| `StableHandshake` | stability counters, STATUS, handler, main loop | `Stable*.cfg` |
| `StableHandshakeProofs` | theorems about `StableHandshake` | TLAPS |
| `SysTimer` | the timer and the firmware that drives it | `Units.cfg` |
| `SysTimerProofs` | theorems about `SysTimer` | TLAPS |
| `CommandLoop` | framing, reports, answers and waits of `main.c`'s loop | `Units.cfg` |
| `QuadDecoder` | one axis of the decoder, with the clear of `obi_quad.sv` | `Units.cfg` |
| `ServoPwm` | `prgm_pwm.sv` | `Units.cfg` |
| `MotorDrive` | arithmetic, sampling and drive of `pid_controller.sv` | `Units.cfg` |
| `FirmwareImage` | `vmem_to_mif.py` against `$readmemh` | `Units.cfg` |
| `Units`, `MCUnits` | `SysTimer` and the five above as benches of one specification; the values for TLC | `Units.cfg` |
| `UnitProofs` | theorems about the benches | TLAPS |
| `VendorDesc` | `vendor.py`: which description, lock and overrides are accepted | through `VendorTool` |
| `VendorImport` | `vendor.py`: copying, excluding, patching one item | through `VendorTool` |
| `VendorTool`, `MCVendorTool` | `vendor.py`: a run step by step, its failures and the world around it | `Vendor*.cfg` |
| `VendorProofs` | theorems about `VendorTool` | TLAPS |

An operator introduced by a comment "Fault:" is not part of a model. It is the
definition after it with a plausible defect; put in its place, it makes one of
the properties fail. This shows that the property depends on the code.

### ObiBus

`ClockEdge` is the `always_ff` block. `Edge(gnt, ans)` gets what the wires carry
in the cycle: the grant line of the selected device and the devices that raise
`rvalid`. Right hand sides are read before the edge. `Push`, `Capture` and
`Retire` are the three writers of a slot, applied in source order, because the
last nonblocking assignment wins. `Captures` is the loop over `claimed`. The
response outputs are combinational; `rsp` records what they showed at the last
edge. The address is abstracted to the set of devices whose window matches it
(`Claims`), so that overlapping windows (the highest device wins) and holes are
values of a constant. Write data, byte enables and the device offset pass through
and are not modelled. A request carries a `Tag`, and a device's answer carries
its number and the tag: a misrouted answer is visible.

External: hosts hold a request until it is granted; devices answer in order, one
per cycle, at the earliest in the cycle after the grant, and withhold grants as
they like. The UART and the register files do this.

`ResponsesInOrder` is `ObiOrder!Spec` under a refinement mapping: slot `k` of the
window is owed the answer it has captured, or the one its device will give to the
request at the slot's place among the slots that wait for this device.

### UartObi, UartTxLink, UartRxLink

`Edge` conjoins the four `always_ff` blocks; each FSM is a disjunction of its
states and branches. The divisor of a baud selector is a constant function.
Counters wrap at `CounterMax` (2^32 in the code) and `clks_per_bit - 1` wraps
with them. `rx_sync` resets low as in the code. The buffers have no reset value;
the model starts them at zero, which nobody reads.

The link modules close the model with the code that the repository itself
connects to the UART: decoder or injector of the Verilator simulation, ticking
once per clock, and the queues of the UVM scoreboard as history variables. A
byte enters `tx_expected` when the write leaves its lane, whether or not the FIFO
took it: `scoreboard.svh` expects all enabled lanes of a word at once, the model
expects the same bytes one by one. `rx_expected` loses a byte when it is read or
when the full FIFO refuses it, where the scoreboard of the UVM bench does not
know of an overflow. Inputs change between edges,
so a host may raise a request or stay idle before any edge. The peer starts when
the receiver has once been idle on a high line with its rate set.
`BaudFirst` says whether the host, like `main.c`, sets the rate before it writes
bytes.

### StableHandshake

Each step is one clock edge. `Hardware` moves both stability counters
(`CountStable`), the two-flop edge detectors (`LatchStable`), STATUS
(`UpdateStatus`: write-one-to-clear, where software wins over an event at the same
edge) and the plant (`Move`); the processor makes one step of the main loop or of
`pid_interrupt_handler`, or waits. The controller is its P term with a rational
gain, an arithmetic shift that rounds down, and no D term; the motor may move an
axis one tick in the driven direction, or not. A load or a store on the bus takes
`BusLatency` cycles more before the next instruction. A store already in the decode
stage finishes before an interrupt that becomes visible in the same cycle
(`pend`). `Stall` stands for the loops that wait for UART space. Commands reach
`Receive` whole.

### SysTimer

Each step is one clock edge with at most one register access; `Wait` makes the
firmware late by any number of edges. The handler runs with interrupts off.
`started` and `deadline` are history.

### CommandLoop

The loop's body is cut where the UART or an interrupt handler can come between:
`Receive` (STATUS and RX), the bytes of a report (`Write`, `Reported`),
`SendStable`, `Execute`. `puts` counts the bytes to be written first; each waits
for room, as `uart_putc` and the UART's stalled word do. The FIFOs are the
promise of `UartRxLink` and `UartTxLink`: order kept, the newest byte dropped when
full. `Tick` and `Settle` are what the two handlers leave for the loop. Of a
command only the framing and what it does to the loop's own variables are kept;
whether a setpoint differs from the register's is a free choice.

### QuadDecoder, ServoPwm, MotorDrive

Each step is one clock edge. The shaft moves by a step an edge at most, to and
fro. `Shown` reads the case table of `quad_decoder.sv` as a phase of 0 to 3;
opposite phases are its default branch. `seen` are the positions the state and
the two latches show, `origin` the position of the last clear. The decoder comes
up as at phase 0: if the shaft rests opposite, one tick's direction is lost, and
`origin` is `None` until a clear in step with the shaft.

`ServoPwm!Write` is a store to PERIOD or WIDTH that lands at an edge; the counter
moves at that edge with the old values.

`MotorDrive` has the widths as parameters. `Cut` is two's complement, `Shift`
the arithmetic shift, `Limit` the number the sample counter is compared with: it
has more bits than the counter, so for rates beyond `CounterBits` it is never met.

### FirmwareImage

A `.vmem` file is a sequence of lexemes. `ParseVmem` is the regular expressions'
work: block comments vanish, an over-long run of digits is several words, and the
text of a line comment is read as words, for the code knows no `//`. `Read` does
one lexeme, `Put` one word.
`Loaded` says what `$readmemh` does with the same file, by position instead of by
folding. The two agree for files as `srec_cat` writes them (`Regular`: no line
comments, no long words).

### VendorDesc, VendorImport, VendorTool

A description is a record of raw data: absent (`None`), of a wrong type (`Bad`)
or a value. `Accepted` is the constructor of `Desc` with all its refusals,
`Overridden` the `-D` options, which land before it. Paths are sequences of
names; `NormPath` is `os.path.normpath`. `Dotted` are the names that begin with
`..` and are longer: `PathOK` refuses them, as `startswith('..')` does. A file's text is the revision it comes
from and the patches it went through, in order; a patch fits a text by revision.

`VendorImport` has the effect of each file operation as `[ok, tree]`: what is done
before an error stays. `Expected` is the specification of an import without its
steps, used by the properties.

A run of `main` goes through `unlink`, `fetch`, `export` (refreshing patches),
`clone`, `remove`, `next`/`copy` (the loop over items and patches), `truncate`,
`write` (lock file), `stage`, `commit`, `done`. Only steps that change files are
apart; refusals before the first of them change nothing and are not steps.
`Fail` ends the run at any of them: a called program fails, the user presses
Ctrl-C; a copy then may have put a part of its files. `rmtree` may leave a file
behind (`kept`), `git commit` may be refused, which `vendor.py` takes for a
warning. Between and during runs upstream gets commits, on top or instead of the
last one, the patch branches are rebased; `produce_shortlog` may find nothing in
its range and its paths, and then the message has no list (`LogListsSome`: which
commits touch which paths is left open). Between runs the user edits the
description or resets the working tree. A lock file as the user may have
committed it first, naming a branch, is among the initial states.

## The runs

| run | shows | bounds |
|---|---|---|
| `bus` | types, clean slots, waiters = unanswered requests, refinement of `ObiOrder` | 2 hosts, 2 devices, 4 slots (as in `pp_system`), 4 requests: two that differ for device 0, one of them answered with an error, one in both windows, one unmapped |
| `bus_live` | accepted requests leave the ring | 1 host, 2 devices, 4 slots, a request for each device |
| `uart_tx` | bytes heard as written, head of FIFO undisturbed, counters stay in range, writes complete, bytes are heard | 2 data bits, 4 cells, divisor 8, a word of four different bytes, written in one or four lanes; BAUD at any phase of the counter (12) |
| `uart_tx_disabled` | *violation*, see below | BAUD not set first |
| `uart_rx` | bytes read as sent, in order; overflow drops the newest; a poll stays true | 2 data bits, 4 cells, divisor 20 |
| `uart_rx_live` | bytes sent are read or dropped | 2 cells, 1 byte value |
| `stable` | settled axes are not forgotten; setpoints lead to STABLE | gain 1, setpoints 0 and 1, 2 commands, stability after 32 cycles |
| `stable_lost`, `stable_early` | *violations*, see below | gain 1/2 and 1 |
| `vendor` | finished runs leave lock, target and patches in step; commits made without patches unknown to git can be made again from their own lock file and patches; a commit has a whole export of patches or those of the commit before; the log of changes starts at the commit before; no silent upgrade; nothing outside of the target | 2 upstream repositories, one of which moves on or is rewritten, and a patch repository that is rebased; 2 revisions; 4 descriptions (plain with an excluded path, patched from a fork, another URL with a subdirectory, mapped with a file item and hand-made patches) and 4 that are refused; 6 command lines; up to 3 runs, 1 failure |
| `vendor_untracked` | *violation*, see below | as `vendor` |
| `units` | see the six modules | timer: words of base 7, period 13 (longer than the handler), 34 ticks: several carries; image: all files of up to 4 of 8 lexemes, memory of 3 words; loop: commands of 1 and 3 bytes that contain the bytes of others, FIFOs of 2 and 1, reports of 3, 2 commands; decoder: 6 steps either way; PWM: values up to 4; drive: words of 5 bits, gains of -4 to 3.75, sample counter of 2 bits |

Why the bounds suffice. Four slots give every position of the window, including
full and wrapped, with two devices out of step behind an unmapped request. Word
writes carry four bytes, one more than the three a FIFO of four cells holds, so a
write always can stall half way; two data bits distinguish first, last and order.
A divisor of 8 leaves the decoder the drift of one tick per bit it has with 5208.
The receiver needs 20: the injector's bits are one tick short and two
synchroniser cycles are lost, and the sum over a frame must stay within half a
bit as it does with the real divisor. `CounterMax` is just beyond the divisor so
that a wrap is reachable. 32 cycles of stability exceed two visits of the handler
in a row, as 100 000 do; loads, stores and the acknowledge each take
`BusLatency` cycles. Two commands are enough for a setpoint to be changed while
the event of the one before it is in flight.

Three runs of the vendoring tool are what its properties need: one to make a first
import, one that fails or is preceded by a change upstream, and one that has to
cope. `units` is the disjoint union of its benches: `unit` is chosen at the start,
and only that part moves; the timer's properties are those of `SysTimer`, which
`Units` extends, the others get their names in `Units`. The receive FIFO of two
bytes overflows with one command of three while the loop waits, the transmit FIFO
of one makes each byte of a report wait. Words of five bits make every product and
difference of the drive leave its word for some of the inputs. The decoder wraps
through its four phases three times over. `vendor` and `units` may end (the number
of runs of the tool, of commands and of lines of a file is bounded), so deadlock
is not checked there.

Views. `LiveData` (bus) hides the data of slots whose data is not read before it
is next written; `WithoutTxPhase` (UART RX) hides the transmit counter after
boot, which nothing reads while there is nothing to send. Neither hides anything
a guard, a property or a later value of the rest depends on. They are used in
safety runs only.

Fairness. `ClockEdge`, `Clock` and `TimerNext` are weakly fair: the clock
runs. Bus devices are weakly fair in answering, as the register
files (next cycle) and the UART (once the transmitter made room, `uart_tx`)
are. The polling loop of `UartRxLink` and the firmware's steps are weakly fair:
the processor runs, and its waits for the UART end. `CommandLoop` asks the same of
the loop, of bytes on the wire and of the transmitter, `SysTimer` of the accesses
of the firmware, `Units` of the clock of the drive. Nothing is assumed of the vendoring tool. A driven motor moves in the
end. No host is ever obliged to send anything.

### Disagreements between documents and code

* `uart_tx_disabled`: `uart_obi.sv:91` says `0 => DISABLED; stalls tx and rx`.
  The limit is `0 - 1`, the largest count, so a bit goes out once per wrap of the
  32-bit counter.
* `stable_lost`: `README.md:44` says that upon reaching the setpoint a `STABLE`
  packet is sent. The firmware clears the flag on every changed setpoint and the
  hardware reports only edges of stability. With a gain below 1 (the quickstart
  uses 0.5) a setpoint one tick away is in the dead zone, makes no edge, and no
  packet comes, even after the host has gone back to the position the axis is at.
* `stable_early`: the same sentence. The event pipeline is two cycles deep, so
  the event of the old setpoint can be served right after `stable_x = 0`. The
  packet goes out before the axis moves. The window is one cycle wide and needs
  the two stores `main.c:159-160` to be adjacent instructions.
* `vendor_untracked`: `vendor.py:656` says that a clean working directory is required
  for `--commit`. `git_is_clean_workdir` leaves untracked files out (line 56). A
  run that exports patches and fails before its commit leaves them untracked; the
  next, with `--update --commit`, is let through, applies them and commits the target
  directory and the lock file without them. That commit cannot be made again from
  what is in it. `CommitIsReproducible` is the part that holds: a run whose patches
  git knows of, or that refreshes and so commits them, makes a commit which is
  what its own lock file and its own patches say.

## The proofs

TLC shows a property for the bounds above, a theorem shows it for every value
of the constants that its module's `ASSUME`s admit. TLC evaluates these in the
runs. Each proof has the same parts: an inductive invariant, `Init` establishes it, each action keeps it, it implies
the property; an action property follows from one step under the invariant.

### ObiBusProofs

For every number of hosts, devices and slots, every address map, set of tags and
order of grants and answers.

* `TypeCorrect`, `FreeSlotsAreClean`. `RingInterval` describes the window as an
  interval of the ring, `FreeAfterEdge` says that a slot outside the window after
  an edge was outside before and is not the pushed one, or is the one retired at
  this edge, whose bits `Retire` clears. Retire writes last, so this holds even if
  the slot was captured at the same edge.
* `RingInvariant`, `WaitersAlwaysMatch`: a device owes as many answers as slots wait
  for it. The invariant adds to types and clean slots that an error is answered
  at once. Counting is by places from the front of the window, which every edge
  moves by one or none (`PlacesShift`); `TakenIsOldest` says that the loop over
  `claimed` picks the oldest place that waits for the device.
* `BusKeepsOrder`: `Spec => ResponsesInOrder`, the refinement of `ObiOrder`. Under the
  mapping a place keeps what it is owed through every edge (`OwedKept`): the answer
  it has, or the one its device will give to it, one place nearer to the head of
  the queue for each answer that an older place took. `OwedNew` is the place of the
  request just accepted. The liveness of the abstract specification is not part
  of it.

Assumptions: at least one host and device and two slots, `AddressAssumption`,
`DataAssumption` (the idle value is no request).

### SysTimerProofs

For every word size `Base` (2^32 in the code), period and length of the run in
which the deadline fits two words. The invariant says, for each point of the
two accesses, what the words read bound and what the words written so far make
of the deadline. `HighWordDecides` is why low words may be moved first.
`ReadsAreCurrent`: the three loads of `timer_read_mtime` return a time that was
current at one moment of the read. `ComparesAreNeverEarly`, `HandlersAreNotEarly`:
no interrupt comes before the deadline while MTIMECMP is half written.

### UartObiProofs, UartTxProofs, UartRxProofs

For every FIFO depth, frame length, counter width, word, byte enable and divisor.

* `TxInvariant`, `LinkTypeCorrect`, `HeadIsSent`, `CountersInRange` need nothing of the
  timing: the branch of STOP for an empty buffer is dead, and a baud counter
  below its limit stays there.
* `FrameInvariant`, `HeardInOrder`: the decoder of the simulation stays in step. The
  decoder drifts by a tick per bit, so the invariant relates its tick count to the
  transmitter's by the number of bits gone (`FrameInStep`), and the scoreboard's queue
  to the FIFO (`FifoIsExpected`). They hold with BAUD written first (`BaudFirst`, as
  `main.c:98` does); without it `uart_tx_disabled` shows another thing.
* `LoopInvariant`, `PollsStayTrue`: from the STATUS that says so to the read the FIFO
  is not empty, because the loop alone reads it.
* `FrameInvariant` (receiver), `FifoIsWhatWasSent`, `ReadInOrder`: what stands in the
  synchroniser and where in the injector's frame the receiver samples; the FIFO is
  the received part of what was sent.

`SampleAssumption` is what the drift leaves room for: `(Divisor - 1) div 2 > DataBits`
to send, `Divisor - Divisor div 2 >= DataBits + 8` to receive. At 50 MHz and 230400
baud, the fastest rate, a bit has 217 cycles. With the frames of the runs (two data
bits) a divisor must be at least 7 and 19. TLC finds a byte misheard from 4
cycles down and a frame misread from 18 down: exact in reception, two cycles more
than necessary in transmission.

### StableHandshakeProofs

`TypeCorrect` and `SettledAxesAreFlagged`: an axis that has settled is in the
firmware's flag, in STATUS or in the two flops on the way there. The hard case is
a setpoint command: `stable_x = 0` comes after the store of the setpoint, so the
axis must not settle in between, however often the interrupt handler holds up the
main loop. `HandInv` bounds the time that is left (`Remaining`: the instruction under
way and the runs of the handler still possible, at most two) by the room that is
left in the stability counter; `RemainingFalls` and `RunsFall` say that each cycle
takes one off. Two hypotheses of the theorem carry this:

* `PeriodIsLong`: `MinStable >= 6 * BusLatency + 17`. The code has 100 000
  (`pid_controller.sv:6`). It is needed: with `BusLatency` 2, periods of 6 and of 18
  are violated in TLC.
* `UnitGain`: a gain of at least 1, so that an error of a tick moves the motor. Below
  that `stable_lost` shows what happens.

### UnitProofs

Each theorem is about the bench of its part; the others do not move it. The
theorems of `SysTimerProofs` come here by `BenchIsTheTimer`.

* `CountIsExact`: the decoder, for a shaft that turns any distance. The count alone
  is not inductive: `Positions` says that the latches show the positions in `seen`,
  `Following` that, once cleared in step, neighbours in `seen` are at most one step
  apart. `ShownLevels` and `StepIsCounted` are the case table of `quad_decoder.sv`.
* `ResponseIsExact`: terms cut to a word lose multiples of `2^Width`, and a sum that
  fits is given back whatever was lost on the way (`CutGivesBack`).
  `DutyIsMonotone`: by cases on sign and saturation of the response.
* `PulseIsProgrammed`: seen from where it goes, the counter steps back by one per
  cycle, so the window of the last `period` outputs holds each counter value
  once (`PeriodHoldsPulse`, a bijection of finite sets).
* `CommandsAreFramed`: the bytes in flight, put together, are the rest of the
  command at hand and the commands after it. This is said with positions (where
  each command begins), for concatenating a sequence of sequences is a recursion.
  While no byte is lost `finished` is the command sent.

* `ImageIsLoaded`: reading a file and loading it are the same for regular files
  of any length (`ParseIsLoad`). `ParseVmem` is a fold; `ParseSteps` replaces it by what
  is known of the memory after each lexeme. `Known` relates that to `$readmemh`'s
  view by position: the address is the place reached, what has a value is the
  places of the words so far, and each word that no later one covers has its
  own (`WordKnown`, `NoWordKnown`, then `CountUp` along the file). `ImageInv` adds the
  output: lines 0 to `line - 1`, each right, none before the depth was looked at.

`ImageAssumption` says what lexemes are: addresses are numbers and no word is
without digits, as the regular expression has it, and `--depth` is positive,
which `main` checks. `CommandAssumption` is how `shape.c` and `ppcsender.c`
send: one byte if it is 0, 1 or 4, `CommandLength` bytes if it is another.
`DriveAssumption` and `PwmAssumption` are types. `PowerAssumption` states three
facts about powers of two for which the provers have no theory; they are true
for any width.

### VendorProofs

For every set of repositories, revisions, descriptions, command lines, patches,
any number of runs and failures.

* `RunInv` is what a run knows: it agrees with the lock file it found until it
  writes one, and with that one afterwards; a run that commits began with what was
  committed; rewritten histories and edited descriptions do not reach into a run.
  `MessagesCoverTheChange` is a consequence for the one step that commits.
* Paths. `NormPath` is a fold. `FoldThere` and `NormSteps` replace it by the path
  entered component by component; `NormIsShaped` says that `..` and `/` can only be
  left in front, so that a path that passes `PathOK` is made of names
  (`PathOKIsPlain`) and is normal (`PlainIsNormal`). `JoinParents` says which
  directories lead to a joined path.
* `TreeInv`: the target directory is a tree. What `git checkout` gives lies side by
  side (`CheckoutFiles`); each file operation of an item makes a tree of a tree and
  brings texts of the checkout only (`FileCopied`, `TreeCopied`, `PatchKeeps`), also if it
  stops half way (`PartGrows`). `TypeCorrect`, `NothingLeavesTheTarget` and
  `UpgradesAreAskedFor` follow.
* `WholeInv`: from `fetch` on, the patches there and those to come are one export.
  `InOrderHasAll` says that sorting loses none (the `CHOOSE` has a witness, by
  induction on the number of patches). `PatchesStayWhole` follows, with `StageInv`
  for what is staged: the patches at hand if the run refreshes, else those of the
  commit before.
* The import as a whole. `TextInv` says that each file of the target directory has
  the text that the last item gave it which puts a file there, with those of the
  item's patches that were applied by then, and that no item's file is missing;
  `TodoInv` that the patches to come are the last ones in order, which there is one
  of (`OneOrder`, `OrderGrows`). `PlaceInv` says that what is a directory at any time is
  one an item makes: a copy therefore lands where the mapping says. `CopyLands` and
  `PatchLands` are the two file operations. What a run before left behind, and
  `rmtree` could not remove, is in `run.kept` and may stay. `ExpectedIsLast` is where
  `Expected`, an expression over all items at once, meets the item by item account.
  `ImportInv` and `StageInv` carry it to the lock file and to the index. From these
  follow `FinishedRunsAreLocked` and `CommitsAreReproducible`. For the latter the
  patches that shaped the files must be those of the commit: `Clean` means that a
  run with `--commit` has all the committed patches at hand, `StageInv` keeps that
  until the index is made, and the property supposes that there are no others.

Assumptions: what is absent or of a wrong type is no data (`NoneAssumption`), the
constructor of `Desc` lets typed data pass only (`InputAssumption`), the paths in
a repository are normal, do not lead out of it and have no `.git` in front, as git
itself enforces (`FilesAssumption`; links are not modelled), `git format-patch` numbers
what it exports, and no two patches in one directory have the same number
(`PatchAssumption`).

`FinishedRunsAreLocked` and `CommitsAreReproducible` have a hypothesis on the
descriptions: `FilesKeepTheirPlace`, no
item copies a file to where it, or an item of any description that is run, makes
a directory. Without it they are not true of the code: `shutil.copy` puts a file
that lands on a directory below that directory, also on one that `rmtree` left, and
the file is then not where the mapping says. The run `vendor` evaluates the
hypothesis for its descriptions.

### Only model-checked

* Liveness (`AcceptedIsAnswered`, `WritesComplete`, `WrittenIsHeard`,
  `SentIsReadOrDropped`, `SetpointIsAnnounced`, `DeadlineIsMet`,
  `SentIsExecuted`, `SamplingGoesOn`) needs fairness and ENABLED, which TLAPS
  does not have here.
* The runs that expect a violation.

Recursive definitions are out of reach, folds are not: a fold is a function that
the library names by `CHOOSE`, and once there is such a function it can be
followed step by step (`FoldThere`). The induction this takes is over numbers:
the library's induction theorems take an operator as a parameter, but the set of
the numbers for which a claim holds is a set, and a set of naturals with 0 and
the successor of each of its elements is all of them (`CountUp`, by
well-foundedness).

## Not modelled

See `PROJECT.json`, components with status `not_modelled`. Vendored cores are
third-party and appear as environment; the UVM benches and build scripts have no
behaviour of the product. Of modelled components these parts are left out:

* `vendor.py`: the wording of the commit message (`format_list_to_str`,
  `github_qualify_references`, `git_get_short_rev`), error texts, `--verbose`.
  `only_subdir` is a directory of the checkout: the code joins whatever is given
  and asks only that it exists (lines 692-693), `..` and `/` included. A patch
  changes one file that is there; `git apply` may change several, make and delete
  files. What `rmtree` could not remove, which it is told to ignore, may stay
  beside what was promised (`run.kept`).
* `produce_shortlog`: which commits touch the paths it asks for.
* `obi_quad.sv`: the copy of the count in the register file, which software reads
  one cycle late. `md_controller.sv` and `pwm.sv`: a free-running counter.
* `main.c`: the tick that comes while a report is written is lost (line 134).
  `CommandLoop` has it, but nothing in the repository promises a report per tick.
  After a byte is lost the framing stays wrong; the properties end there.
* The servo's angle (line 197 divides by 66535) is one expression.
* A sample rate beyond 26 is never met by the counter. `shape.c:125` sends one
  (10 in fixed point is 655360), so no sample is taken and its D term is dead.
* The memories and the address map.

## Plan

1. Done: bus, UART and links, STABLE handshake, timer, command loop, decoder,
   PWM, controller arithmetic, firmware image, vendoring tool, and theorems on all
   of them: every invariant and every action property of the runs is proved.
2. Next models, if any: the register file's copy of the count, bus and UART
   composed, the address map of `pp_system` as an instance of `Claims`.
