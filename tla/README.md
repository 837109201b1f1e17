# Tank World: specifications

Tank World is a two-player game on an FPGA. SystemVerilog modules hold the
tanks, bullets, coins and gears and draw them on a VGA screen; a Nios II
processor runs C code that reads a USB keyboard, shows the menu, draws the
walls, puts coins and gears back and decides when the game is over. This
directory has TLA+ modules for the logic of both sides, TLC configurations that
check them on small instances, and proofs for TLAPS.

## 1. The system

### Clocks, actors and shared state

Four actors run at the same time and share registers:

* the **frame domain** (60 Hz, the edge of `vs`): tanks, bullets, speed, health
  (`tank.sv`, `feedback.sv`);
* the **CLK domain** (50 MHz): the registers on the Avalon bus, coins, gears
  (`vga_text_avl_interface.sv`, `coin.sv`, `props.sv`);
* the **processor**: one loop (`main.c`), which reads and writes the registers
  one word after the other; only the clock and the console interrupt it
  (`alt_tick.c`, `altera_avalon_jtag_uart_init.c`);
* the **USB controller** MAX3421E and the device on its bus, which the loop polls.

`KEY[0]` resets the processor and most registers at any moment, but not
`control_reg`, the wall registers, `cured`, `speed_up`, `coin_x` and `coin_y`.

### Components

| component | state | operations | talks to | what is hard |
|---|---|---|---|---|
| tank bases (`tank.sv`) | position, speed | move per frame, speed up, reset | reads `control_reg` and walls; `to_speed` from `props.sv` | unsigned positions without a lower border, speeds, a key that outlives the reset |
| fire pipeline (`tank.sv`) | latch, slow counter, `hole_ind`, bullet array, ages | latch, search, spawn, age, reset | turret byte of `control_reg` | a slot searched in one frame is used in the next; full array; ages that wrap |
| bullet flight (`tank.sv`) | 30 bits per bullet | spawn, fly, bounce, vanish | tank positions, walls | unsigned borders noticed in one frame only, several borders at once |
| gears (`props.sv`, `feedback.sv`, `tank.sv`, `game.c`) | register, flag, `last_gear_pos` | write, take, clear | handshake of two clocks and the software | a write that meets a flag still up |
| coins (`coin.sv`, `game.c`) | register, delayed copy, scores | write, pay, copy | tank positions, `check_gears` | the copy is a cycle late; one coin per cycle |
| wall placement (`game.c`) | wall registers, count of back-ups | draw the map wall by wall | coins and gears as they are at that moment | four back-ups, chosen one by one |
| health and end of the game (`feedback.sv`, `main.c`, `game.c`) | health, score panel | hit, cure, test, show | health registers, reports | wraps below zero, several reads with frames between |
| menu (`game.c`) | `menu_state`, `last_key`, `game_attr` | move, choose, start | reports | map bits are or-ed |
| USB host: enumeration (`transfer.c`, `MAX3421E.c`, `HID.c`, `main.c`) | task state, device table, driver chosen | probe, reset, enumerate, poll, restart | MAX3421E over SPI | detach at any time, bus events looked at late, entries that stay |
| USB host: transfers (`transfer.c`, `HID.c`) | retry counters, toggles, FIFO | dispatch, read, acknowledge, give up | device over the MAX3421E | NAKs, lost packets and acknowledgements, late completion |
| console (`altera_avalon_jtag_uart_*.c`, `alt_tick.c`) | transmit buffer, interrupt enable, `host_inactive`, tick counter | write, interrupt, alarm | JTAG UART, host | interrupts anywhere in a write, a host that stops reading |
| register file (`vga_text_avl_interface.sv`) | `control_reg`, walls, palette, `game_attr` | bus writes and reads | all | no reset |
| sound (`i2s.sv`), VGA timing, picture, text output | counters; none | | | |

What makes each correct: no tank in a wall or off the screen; no bullet
overwritten, every bullet ends; every coin paid once and to a tank that is
there; every gear given once; walls clear of what they must not cover; a dead
tank noticed and the right winner shown; a keyboard that is attached is in the
end polled, and one that is detached leaves nothing behind; a report is seen once
and in order; what is printed arrives, and printing never stops the game for good.

## 2. Modules

| module | models | composed of |
|---|---|---|
| `TankMotion` | `update_base`, `check_border`, `check_wall`, speed; `control_reg` and wall registers and the order in which the software writes them | |
| `Gun` | abstract: what the fire logic of one tank promises | |
| `BulletSlots` | latch, counter, search, spawn and aging for all tanks | refines one `Gun` for each tank |
| `BulletFlight` | one bullet: the `ball` module | |
| `Gears` | one gear: register, flag, tanks, `check_gears` | |
| `Coins` | `coin.sv`, `game_init` and `check_gears` for coins | |
| `Menu` | `menu_control`: keys, menu states, map bits, start | |
| `WallPlacement` | `check_gears` and `draw_wall` with the back-up positions, from the first report of the game on | extends `Menu`; justifies `LayoutAssumption` of `TankMotion` |
| `GameOver` | health and the end of the game | |
| `UsbHost` | `MAX3421E_init`, `MAX3421E_Task`, `USB_Task`, the HID probes, `GetDriverandReport` and the restart in the main loop | |
| `Reports` | abstract: what polling a keyboard promises | |
| `UsbTransfer` | `XferDispatchPkt`, `XferCtrlReq` with its stages, `XferInTransfer`, against a controller and a keyboard | refines `Reports` |
| `Alarm` | `alt_alarm_start` and `alt_tick` for one alarm | |
| `Pipe` | abstract: a bounded queue of numbered bytes | |
| `JtagUart` | `altera_avalon_jtag_uart_write`, `_irq`, `_timeout` | extends `Alarm`, refines `Pipe` |
| `MC...` | constants for TLC | extend the module of that name |
| `TankMotionProofs`, `GameOverProofs`, `GearsProofs`, `UsbHostProofs`, `UsbTransferProofs`, `JtagUartProofs` | theorems | extend the module of that name |
| `BulletProofs` | theorems about bullets | extends `BulletSlots` and `BulletFlight` |
| `WallsAndCoinsProofs` | theorems about the menu, the walls and the coins | extends `WallPlacement` and `Coins` |

A module of proofs that extends two components has one name space for both, which
is why `BulletFlight`, `Coins` and `Menu` give their specification, actions and
type invariant names of their own (`FlightSpec`, `CoinInit`, `MenuNext`).

### How state and actions correspond to the code

**TankMotion.** `pos`, `speed` are `tank_x/tank_y` and `speed`; `key` is the base
byte of `control_reg`; `walls` is the set of positions in the 16 wall registers
(an unused one reads as a wall at the origin: `check_wall` ignores the valid
bit). `Frame` is one edge of `frame_clk` for all tanks: `Target` is the position
before the checks, `Stops` the checks. `GameInit`, `StartGame`, `DrawWall`,
`WriteControl` are the writes of the processor in program order; `Reset` is
`KEY[0]`. Left out: `base_direction`, which selects a picture.

**BulletSlots.** `FrameStep` is the frame edge; `hole` is `hole_ind`, `scc` the
counter modulo 16. Which bullets are spent by a hit or a wall is an input here
and a consequence of geometry in **BulletFlight**, where `Fire`, `Fly`, `Vanish`,
`Expire` are the four things a frame can do to a slot. A tank stands still there.
`alive` is `alive_bullet_cnt`, as `age` is in `BulletSlots`: a bullet whose count
has come round is zeroed wherever it is. `shot` and `corner` are history.

**Gears.** `Clk` and `Written` are the two branches of the register; `Frame` is
the frame edge that counts the award and sets or clears the flag. A place is a
cell of 32 pixels, as `check_gears` aligns gears. `raced`, `fed` are history.
The health gear and the speed gear are the same circuit with other names.

**Coins.** `Clk` is a cycle without a write, with the chain of six cases as
`FirstHit`; `InitCoin`, `InitScore` and `CheckGears` are bus writes, which stop
the engine for a cycle. Between two writes of coins by `check_gears` lie at least
`Quiet` cycles (a bus write takes many instructions). The picture of the turning
coin is left out.

**Menu.** `MenuControl` is one call of `menu_control` with the key `held`, which
changes freely between two reports, so that presses may be missed; the five
alternatives of `React` are the cases of the two nested `switch`, `Ignore` is
their default. Which line is highlighted follows from `menu_state` and is left
out. `menu_state` and `last_key` are static in `game.h`, so that `main.c` and
`game.c` have variables of their own: `MenuInit` is about those of `game.c`, which
are zero, and `main.c:183` sets its own, which nothing reads. `acted`, `chosen` are
history.

**WallPlacement.** `Plan` is the list of walls of each map in the order of the
loops; one action draws one wall, planned, from the back-ups, or, when these have
run out, from the word before the array (`Before`). `Report`, `CheckGear` are
the loop over coins and gears before it, with `Legal` for
`check_gear_legal_pos`, the centre of a coin taken for its corner included.
`Take` lets a coin or gear go at any time. The default case of `draw_wall`, taken
for no map and for several, is an I with a middle column; case 2, the I of the
list, draws the middle as a row: `Plan` has both as they are.

**GameOver.** `Frame` is the health adder with any number of hits; `Report`,
`Check` (one bus read at a time), `Play`, `Panel`, `Panel2` are the main loop
from a report to the next. `taken`, `fed`, `since` are history. The menu is one
action.

**UsbHost.** `pc` is where the loop is: in `MAX3421E_init` (`boot`, `reinit`,
`initack`), in `MAX3421E_Task` (`int`, `intack`), at `USB_Task` (`task`) or
behind it (`app`). `state` is `usb_task_state` with the numbers of `USB.h`, as
`MaxIntHandler` adds one to it. `Interrupt` reads `HIRQ` and probes,
`InterruptAck` clears what was read, and the bus may change in between; the same
holds for `InitProbe` and `InitAck`. Every alternative of `USB_Task` is a case of
the two nested `switch`. A transfer succeeds only if the device on the bus
answers to the address, at the speed that is set (`Hears`), and may fail even
then. An entry of the table is its pointer (`NULL`, `dev0ep`, `hid_ep`) and its
class; descriptors are data and left out. The clock is known by how it stands to
the end of the settle time. `fresh` (the bus has changed since the last probe
that acted) and `failed` are history.

**UsbTransfer.** One call after the other as the probe of a keyboard and then the
polls make them; `stage` is the packet being dispatched. `Launch` writes `HXFR`,
`Complete` is the controller with the device: it loses the packet or the answer,
refuses it, or the device takes it and its acknowledgement is lost. `Again`,
`Fail`, `Read`, `Save`, `GiveUp` are the branches of the loop of
`XferDispatchPkt` and of `XferInTransfer`. A packet is known by its request and
its number. A transfer given up (`0xff`) leaves its packet in flight. `last`,
`broken` are history.

**Alarm, JtagUart.** `Writer` has one action for every access of
`altera_avalon_jtag_uart_write` to what it shares with the interrupt routine:
the read of `tx_out`, `memcpy`, the write of `tx_in`, the enable, the spin loop
(the build uses no optimisation and reads `host_inactive` again each time round),
the test after it. `ReadControl` and `Serve` are a round of the interrupt
routine, between which only the host acts; `Serve` uses the space that
`ReadControl` saw. `Tick` is `alt_tick` with `altera_avalon_jtag_uart_timeout`
when the alarm expires. The bytes bear numbers so that losses show; `quiet` is
history. The device is its Verilog: `RI` and `WI` are `ipen_AF` and `ipen_AE`, the
activity bit is set while the host types (`t_ena`, also into a full FIFO) or pauses
(`t_pause`), not when it takes a byte (`r_ena`); a pause with bytes in the FIFO asks
for an interrupt until one is read (`pause_irq`). So `HostReceive`, `HostType` and
`HostPause` are free of each other, and a host can be active for ever without
moving anything. `stdout` is opened without `O_NONBLOCK` and nothing reads `stdin`, so
that only blocking writes exist and what the host types stays in `rx_buf`.

## 3. Runs

Every passing run checks the complete state space of its instance.

| run | shows | instance |
|---|---|---|
| `tank_motion` | a tank stays on the screen and, until `KEY[0]`, out of walls; no frame jumps a wall; a held key runs aground | 9 by 7 field, tanks and walls of side 2, speeds 1 to 3, two layouts, one reset |
| `bullet_slots` | the pending slot is free when it is used; the pipeline refines `Gun`; every bullet ends | 3 slots, period 4, ages modulo 15 |
| `bullet_flight` | a bullet leaves the screen only through a corner, straight bullets stay straight and come back unless the way is longer than their life, none enters a wall | 24 by 19 screen, every place of the tank, every direction, a life of 22 frames |
| `gears` | a gear is given in at most two frames, in one if the flag was down when it was written, is never lost then, and always comes back | 5 cells, 2 tanks, one reset |
| `coins` | scores grow by what vanishes; a coin the engine has seen is paid to a tank on it; a parked tank collects | 2 tanks, 3 coins, 2 spots, 2 writes, one reset |
| `wall_placement` | in the menu a key acts once; the walls drawn are those of the case of `draw_wall` for the map chosen; none of them, back-ups aside, on a coin or gear, whichever came first, none on a start, none drawn twice | the numbers of the code, all choices of maps, every place of the grid, one thing collected |
| `wall_pool` | **violation:** the default map needs eight back-ups and there are four | the same |
| `game_over` | a dead tank that gets no gear never steers, is noticed, and the loser of the panel was dead | health 2 of 3 (code: 5 of 25), 3 hits, 2 gears, one reset |
| `usb_host` | what is polled is the device on the bus, with the endpoints and the driver that belong to it; a device that stays is served, one that goes is noticed | a low-speed keyboard and a full-speed mouse, 2 addresses |
| `usb_leftover` | **violation:** a device that goes away after its bus reset leaves its entry in the table | the same |
| `usb_transfer` | control reads are whole, toggles agree between polls, polling refines `Reports`, every report arrives | NAK limit 2, retry limit 3, 2 packets, 3 reports, one late transfer |
| `jtag_uart` | the driver refines `Pipe`, nothing printed is left behind, silence is measured over the overflow of the clock, a write returns if the host goes on taking bytes or falls silent | buffer 3, FIFOs 1, writes of up to 2, period 2 of a clock of 4, time-out 2 |

Five invariants are conjunctions of named parts, each with the type invariant of
its module: `FlightInv` (`StraightStaysStraight`, `NoBulletInWall`,
`ExpiresOnlyAfar`), `GearsInv`
(`AtMostTwice`), `WallsInv` (`WallsClearOfProps`, `WallsClearOfStarts`,
`WallsDistinct`), `HostInv` (`PollsWired`, `DriverIsCurrent`) and `TransferInv`
(`ReadsWhole`).

### Why the bounds are enough

* `TankMotion`: a tank of side 2 with speeds up to 3 keeps the two relations the
  code has, a move shorter than a wall and a tank (10 < 64) and registers that do
  not wrap within a move of the border. One tank is enough, as tanks do not look
  at each other.
* `BulletSlots`: `Life` > `N * Period`, so that the array fills and shots find no
  slot; more slots only add equal ones.
* `BulletFlight`: the margin (2) is less than half a tank (3) as on the screen
  (4 and 16), and all diagonals, hence all corners, occur. The life (22) is, as on
  the screen (1023 frames of 639 by 479), shorter than the way to the far border
  and back along a row and long enough for some of these ways, so that a straight
  bullet may come back or expire.
* `Gears`: `Far` is 2 cells as in the code; five cells leave a choice of new
  places.
* `Coins`: two coins start under one spot so that one cycle has several hits;
  two writes put one coin back while another is pending.
* `WallPlacement`: whether a place is good depends on the walls and on one thing
  at a time, so one thing collected and put anywhere on the grid is enough.
* `GameOver`: up to two hits in a frame carry health from 1 to below zero
  without being zero; a gear brings it back; two gears exceed `Alive`.
* `UsbHost`: two devices of different speed and driver are all that one socket
  can tell apart; two addresses are enough for an entry that stays and one more,
  and for running out. The proofs cover every table and every set of devices.
* `UsbTransfer`: both limits are reached and can be reached one after the other
  in one transfer; two packets have one with each toggle; three reports show one
  lost acknowledgement between two good ones; one late transfer can spoil
  everything behind it, so that a second one adds nothing to `broken`.
* `JtagUart`: two writes are longer than buffer and FIFO together, and the indices
  go round; with a FIFO of one the host can only add to the space the routine has
  seen, and a byte that is typed asks for an interrupt with or without a pause:
  the proofs cover every depth and threshold, and the liveness was also run with a
  read FIFO of two and threshold 0, where only the pause does (1.3 million states,
  five minutes, no error). The clock goes round every second alarm, and
  starts so that the first alarm lies behind its zero.
* One reset shows everything a second one could: the reset leaves the same
  registers behind.

### Fairness

`Frame` is weakly fair where it appears, because `vs` comes from a free-running
counter, and `Clk` because the oscillator runs. In `Gears` and `GameOver` the
processor is fair, that is, reports keep coming: the loop never waits for
anything but the transfer, which has a timeout, and the keyboard sends a report
for every key that is pressed or released. Nothing else is fair there: no key need
be pressed, no tank need move, no coin need be put back.

In `UsbHost` the loop, the clock and the end of a bus reset are fair. The clock is
strongly fair, and so is the step that finds the settle time over: a pass of the
loop is far shorter than the clock needs to come round, so that the loop cannot
miss it for ever. The reset of 50 ms does not always end between the two calls of
a pass. Devices may stay away. In `UsbTransfer` the controller answers and the
host goes on, and of the polls that are sent again and again some are
acknowledged (strong fairness of one step of the bus; without it a wire that
loses everything would count against the program). In `JtagUart` interrupts are
taken, the processor goes on and the clock ticks. Of the host nothing is asked
there; that it takes bytes again and again, or shows no activity from some time
on, is the condition of `WriteReturns` (`ReadsOrFallsSilent`), and without it the
property fails: see below.

### Disagreements found

Each has a run of its own that shows it.

* The back-up walls run out (`wall_pool`); the fifth wall is read from before
  the array, which in the committed `tankworld.elf` gives (0, 768).

* A device that goes away between its bus reset and the end of the enumeration
  leaves its entry in the device table (`usb_leftover`): the bus event of the
  reset is still pending and advances the state past the one in which the table
  is cleared. After seven such devices none is served until the program starts
  anew (`USB_init` is otherwise only called after a device was running).

Seen while modelling and not given a run. `control_reg` survives `KEY[0]`, so that
a key held moves the tank before the walls exist and `draw_wall` draws one onto
it (against `doc/README.md:467`; `ClearBeforeReset` names the exception). In a
corner one border hides the other and the bullet leaves the screen for a while
(against `doc/README.md:422`; `BouncesUnlessCorner`). `cured` is up for one frame,
not for one clock cycle (`doc/README.md:497`): a gear written in the last cycle
of this frame is given twice (`AtMostTwice`, part of `GearsInv`). `coin_x`, `coin_y` are one cycle
older than the valid bit they are tested with, so that a coin put back far away is
paid to the tank on its old place (`PaidWhereSeen`). A write to the console gives
up after one second without activity of the host, even when there is space again,
and returns `-EIO`, "Host not connected" (`altera_avalon_jtag_uart_write.c:187`,
`213`), while `host_inactive` is far below the time-out by which `ioctl` calls a
host gone. `GetDriverandReport` asks address 1, which need not be the device that
runs. The wait for the first frame (`transfer.c:298`) is no wait. A settle time
that ends just before the clock in milliseconds comes round (after 71.6 minutes)
never ends. Choosing a second map ors its bits to
the first and gives the default map (`game.c:561-610`); a coin can be put onto a
back-up wall, overlapping it by four pixels, as its centre is checked in place of
its corner (`game.c:691`), and back-up walls are checked against nothing; the gear position checked for distance
may be one that was wiped out at once, so that the next gear can lie where the
tank took the last one; the middle line of the I map, "middel vertical line" in the comment, is
drawn as a row (`game.c:356-359`), while the default case, with the same comment,
draws a column (`game.c:393-396`), so that choosing the I and choosing nothing give
different maps (`MapAsChosen` says only that the case of the map chosen is drawn);
a straight bullet whose way to the border and back takes more than 1023 frames
(up to some 1198 along a row) is zeroed before it is back (`tank.sv:489-495`;
`ComesBack` in `StraightComesBack`, `ExpiresOnlyAfar`); a host that polls the JTAG
UART again and again without taking a byte keeps `host_inactive` at zero, and
`altera_avalon_jtag_uart_write.c:183` waits for ever, with the whole game
(`ReadsOrFallsSilent` exempts it); two tanks may overlap, as `update_base` checks walls only
(against `doc/README.md:467`); a trigger pressed in the one frame in which the
latch is cleared is lost; a tank with more than 25 health is declared dead; a
gear that lands between two of the four reads of health hides a death for one
report, and a hit between the two reads of the panel makes a dead tank the
winner (these are the exceptions named in `DeadDoNotSteer` and `LoserWasDead`).

## 4. Proofs

The theorems hold for all values of the constants that satisfy the assumptions
of the module; TLC evaluates those assumptions on every run.

* **`TankMotionProofs`.** `TypeCorrect`, `FieldSafe` (`InField`), `WallSafe`
  (`ClearBeforeReset`), `PathSafe` (`NoTunnelling`). Assumptions: a move is
  shorter than a wall and a tank together and than the distance from the last
  column to the wrap-around (`GeometryAssumption`), tanks start on the screen
  and outside walls (`StartAssumption`, `LayoutAssumption`; the latter is what
  `WallsClearOfStarts` says of the real maps, see `WallsSafe`). `ClearBeforeReset` is not
  inductive: the inductive invariant adds that, until the reset, no key is held
  and every tank is where it started as long as the game's walls are not all
  drawn, and that the registers hold only walls of the layout. `PathSafe` rests
  on a lemma of geometry: a straight move that is shorter than two sides and
  starts and ends outside a wall has no point inside it.
* **`BulletProofs`.** Of `BulletSlots`: `TypeCorrect`, `HoleSafe` (`HoleIsFree`,
  inductive with the type invariant: a slot is pending only when the counter is 1
  and no bullet can be spawned while it is 0), `GunRefined` (`ImplementsGun`): every
  initial state is one of `Gun`, and every frame is one of its actions under
  the mapping `live`, `armed`, `wait`. The assumption is that the period is
  above 2 and that there is a slot. Of `BulletFlight`: `FlightSafe` (`FlightInv`) and
  `FlightBounces` (`BouncesUnlessCorner`), for every screen whose margin is less than
  half a tank and whose coordinates leave two margins to the wrap-around
  (`ScreenAssumption`). `KeepsItsLine` is the strengthening for straight bullets: a
  bullet on a border would be turned into a diagonal one, so the line itself must
  meet none. `TurnsInTime` is the one for bounces: the bullet is inside the margins,
  or one step beyond one and already on its way back, since the left and the top
  border are noticed at one distance only and the turn comes a frame late. It also
  keeps the sums from wrapping (`ModValue`). `OnItsWay` is the one for
  `ExpiresOnlyAfar`: the age of a straight bullet is the number of pixels it has
  travelled and one, to the line it turns at and back, so that it is in its tank
  before it is older than `Way`.
* **`GameOverProofs`.** `TypeCorrect`; `CalmStart` (`FirstGameIsFair`), with the
  invariant that until the reset no key is held outside a game;
  `DeadStop` (`DeadDoNotSteer`) and `LoserRight` (`LoserWasDead`). Both rest on
  `HealthRight`: a register holds `Full` plus gears minus hits, modulo `Word`.
  `DeadStop` adds that the dead stay dead without a gear and, for every read
  already made, what it excludes: after the first read of a tank that is dead its
  health is below zero and stays so. `LoserRight` adds that the history knows all
  that are dead or have too much, and that the reason for which the panel was
  entered lasts as long as the health of tank 0. The assumption is that hits and
  gears are too few for the health to wrap twice.

* **`JtagUartProofs`.** `TypesHold`, `NothingForgotten` (`NeverForgotten`),
  `SilenceIsMeasured` (`MeasuresSilence`), from `IInv`. It adds that a piece is no
  longer than what is left to write and the space that the routine has seen is
  really there (`Fits`); that the alarm is at most a period away, and the flag
  says whether the zero of the counter lies before it (`OnTime`); and how the
  silence of the host splits into whole alarms and the ticks since the last one
  (`Silence`). `ClockTicks` is the lemma on `alt_tick` that all of this rests on:
  the alarm goes off exactly when one tick is left, across the zero as well. The
  assumptions are a buffer of two or more, a FIFO threshold below its depth, and
  a period that is shorter than the counter by more than one tick. `DriverImplementsPipe` (`ImplementsPipe`): with the
  queue mapped to the FIFO followed by what is pending in the buffer, `Publish`
  is `Accept`, `HostReceive` is `Receive`, and everything else leaves the queue
  alone. `Copied` is its strengthening: the piece that is being copied lies in free
  space, in one piece, and is there before `tx_in` moves, although the interrupt
  routine has meanwhile made more room.
* **`GearsProofs`.** `FedAtMostTwice` (`GearsInv`) and `OnlyTakenGo`
  (`OnlyTakenGearsGo`). `AtMostTwice` is not inductive: `Counted` adds how often a
  gear that is still there can have been fed, and that with the flag up after a
  feeding no CLK edge has come since the frame, so that the next one takes the gear
  away before another frame. The only assumption is `CellAssumption`.
* **`UsbHostProofs`.** `PollsWhatIsThere` (`HostInv`) and `ServesWhatIsPlugged`
  (`ServesTheDevice`), for any devices and a table of two entries or more. The
  strengthening `Enumerated`: the entries in use are the first ones (`InOrder`),
  because addresses are given in order and are only taken back all at once; so the
  device that is configured or runs has the last one (`Configured`, `Runs`), which
  is the one `GetDriverandReport` takes the driver of, whatever failed devices left
  before it. `FlagLags`: `runningdebugflag` outlives the state RUNNING by at most one
  step of `USB_Task`, which is too short for another device to be configured.
* **`UsbTransferProofs`.** `TransfersKeepOrder` (`TransferInv`), `StepsTogether`
  (`TogglesAgree`) and `TransfersImplementReports` (`ImplementsReports`), for any
  limits of the retries, any descriptor and any number of reports. The argument is
  the one of a protocol with one-bit sequence numbers: `InStep` says that either
  the toggles agree and the device is about to send the packet after those the
  host has, or they differ and it is about to repeat the last one. It holds for the
  data stages of control transfers as for polls. Around it, `Serving` says that the
  controller works for the call that is made, `Prepared` that the SETUP packet has
  set the device's toggles where the host starts from; both hold until a transfer is
  given up while the controller is at work on it, and again after the controller's
  reset. What is left after that is that only reports that were made are on their
  way (`Numbered`).
* **`WallsAndCoinsProofs`.** Of `Coins`, for any number of tanks and coins:
  `CoinTypes` (`CoinTypeOK`), `SeenIsPaid` (`PaidWhereSeen`; the strengthening
  `SeenWhereItIs` says that the delayed copy of a settled coin is its position) and
  `PaidOnce` (`EveryCoinPaidOnce`). The last is about sums over all tanks and all
  coins that vanish. The fold that adds them up is a choice of a recursive
  function on finite sets, and the theorem of the library that such a function
  exists takes an operator as a parameter. `SumsExist` shows it for sums
  by a smallest counterexample: the sizes of finite sets are well founded, and
  `SmallestSubset` picks a subset without sums all of whose subsets have some. From
  it follow the laws the theorem needs, `SumOfNone`, `SumOfOne` and `SumOfExcept`
  (raising one entry raises the sum by as much).
  Of `Menu`, inside `WallPlacement`: `KeyActsOnce` (`OnePressOneStep`) from `MenuInv`,
  which says that a key that has done something is the last one seen, and that
  the map field has exactly the bits of the maps chosen (`OrAddsTheBit`). Of
  `WallPlacement`: `WallsSafe` (`WallsInv`) and `MapDrawn` (`MapAsChosen`), for every
  place of coins, gears, starts and back-ups and for any number of things collected.
  The strengthening `DrawInv` says that each wall written is the one of the map with
  the same number or a back-up already pulled, that none is written before the game
  starts, so that the map is fixed by then, and that `draw_wall` runs only while a
  wall is left. `EveryMap` is the lemma on the four maps: they lie in a box of the
  field at multiples of 16, no two walls at one place. `LegalIsClear` says why the
  check of a coin's centre in place of its corner does no harm to the walls of
  a map (under a back-up wall it does, and so do back-ups themselves, which nothing
  checks: `WallsInv` is about the walls in their places on the map): the places drawn by lot and those of the walls are multiples of 16, so that two
  that overlap do so by 16 pixels or more. `FieldAssumption` has the facts of `game.c` this rests on: the starts are
  clear of that box, the back-ups beside it, all different and clear of the starts.

Every invariant and every action property of the passing runs is a theorem, and so
are the three refinements. Only model-checked is liveness (`RunsAground`,
`BulletsEnd`, `StraightComesBack`, `GearComesBack`, `ParkedTankCollects`,
`DeathIsShown`, `PluggedIsServed`, `UnpluggedIsNoticed`, `ReportsArrive`,
`WriteReturns`), which the prover does not reach because of fairness and `ENABLED`;
and the two violations, which are counterexamples.

## 5. Not modelled, and why

Picture and text output (`Color_Mapper.sv`, `font_rom.sv`, `text_mode_vga.c`,
`pio.c`, `HexDriver.sv`) have no control that depends on them. The system of
Platform Designer and most of the board support package are generated or library
code: of the latter only what runs concurrently with the program is modelled,
the console and the clock. Of the console driver, `read`, `ioctl`, `close` and
non-blocking writes are left out, since nothing calls them. `altera_avalon_spi.c`
is a polled exchange that is part of each access to the controller. The I2C driver
and the codec set-up (`sgtl5000.c`), a list of register writes, are never called by
`main`. The key codes of `transfer_code` are a table: `TankMotion` lets any key
follow any other. In the USB host, OUT transfers and mass storage are empty in
the code, the parsing of descriptors is data, and the mouse is polled like the
keyboard (`UsbTransfer` has the keyboard only). `GPX` interrupts are read and
acknowledged without effect.

## 6. Plan

Done: the frame-domain logic and the handshakes on which the game rests (motion,
fire, flight, gears, coins, menu, walls, end of the game), the USB host from the
bus to the report, and the console. What would come next:

1. `Battle`: `BulletSlots` with `GameOver`: a bullet costs each tank at most one
   point; two moving tanks and one bullet.
2. `I2s` and `VgaTiming`: the counters of `i2s.sv` and `VGA_controller.sv`.
