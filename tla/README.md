# Verification of the STM32H7xx grblHAL driver

TLA+ models, TLC runs and TLAPS proofs for the driver in `src/`: the layer that
gives the grblHAL core its streams, timers, pins and storage on an STM32H723 or
STM32H743. The core and the plugins are git submodules that are not part of the
tree, so a call made *into* the core is a nondeterministic choice here, and a
call made *by* the core may come whenever the code allows it.

Nearly everything that is hard in this program has one shape: the foreground
(the core's main loop) and an interrupt handler share a few words of memory and
a few registers without locks, and are correct, or not, because of the order of
single loads and stores. The models therefore have one action per access the
other side can tell apart, and the handler is one action wherever nothing that
touches the same state preempts it.

## 1. Inventory

Interrupt priorities (`driver.c`, `serial.c`, `main.c`): the stepper timer,
the input pins, CAN, SDMMC and the software UART share preemption level 0; UART,
USB, SPI and DMA have level 1; the system tick has the lowest. Two handlers of
one level never preempt each other.

| component | state | operations | interacts with | what makes it correct |
|---|---|---|---|---|
| UART stream, `serial.c` | two rings with head and tail, `CR1`, data registers, claim flag, real time handler | put, write, flush, get, cancel, counts, baud rate, format, enable, RX/TX handler | core (blocking callback, real time commands), UART | no character lost, doubled or reordered; nothing sent from an empty ring; output drains |
| USB stream, `usb_serial.c`, `usbd_cdc_if.c` | two transmit buffers and which is filled, transfer in flight, input ring | write, put, get, flush, cancel, input from the interrupt | USB class (vendored), host | host reads text in order; a buffer in flight is not written; reported room exists |
| Stepper timer, `driver.c` | counter, period, two compare values, flags, enables, pins | wake up, go idle, set period, pulse (with direction delay or not), handler | core's stepper callback, pin interrupts | one edge per step, pulse and pause lengths, direction settled, no update dropped |
| Input pins, `driver.c`, `ioports.c` | levels, latched edges, `IMR1`, debounce tasks, handlers, awaited pin | EXTI handlers, debounce, limit enable, register, wait on input | core's task queue, homing | no edge overlooked; a pin is masked exactly while it is debounced or unused |
| Delays, `driver.c` | one counter, one callback | blocking delay, delayed callback, tick | system tick, core's delay loop | on time, once, only what was asked for |
| Elapsed time, `driver.c`, `stm32h7xx_it.c` | tick count, cycle count at the tick | read in us, in ms | every interrupt level | time never goes back, is never ahead, behind no more than the tick is late |
| Injected steps, `driver.c` | pins on, axes injected and claimed | output a step, claim and release a motor, two timer callbacks | timer service, stepper interrupt | one edge per injected step; every pin follows its owner |
| Timer service, `timers.c` | table of timers, their configuration | claim, configure, start, stop, handler | encoders, step injection, PPI | one owner per timer, one callback per event |
| Spindle encoder, QEI, `encoders.c` | counters, time stamp with overflow, last pulse, last index | pulse, index and overflow handlers, read, reset | timer service, spindle | counts and times consistent when read |
| Spindle outputs, `driver_spindles.c`, `pwm.c` | PWM state, enable pin, laser pulse | set state, set speed, pulses | core | output off when told, no speed without enable |
| I2C, `i2c.c` | port state, `await_rx`, key code, callback | send, receive, transfer, key code | keypad, EEPROM, HAL interrupts | a call ends; a completion belongs to its call |
| SD card, `sd_diskio.c`, `diskio.c`, `sdmmc.c` | status flags, scratch buffer, time outs | read, write, completion callbacks | FatFs, DMA, cache | data returned is data read; what was given up does not reach the card later |
| Settings in flash, `flash.c`; external flash, `spiflash.c`, `littlefs_hal.c` | sector contents, mapped mode | erase, program, read | core, littlefs | after a power loss no mixture of old and new; "saved" means saved |
| Neopixels, `neopixel_spi.c` | LED buffer, transfer in flight | set, intensity, settings, transmit | DMA | what is changed in flight is sent again; a buffer in flight is not freed |
| SPI, `spi.c`; Trinamic, `tmc_spi.c`, `tmc_uart.c` | port, software UART line | transfers, read and write of registers | timers, drivers | half duplex hand over, no reply of another request |
| CAN, `can.c` | filter table, callbacks | add filter, send, receive | core's queue | a frame reaches the callback of its filter |
| Network, `enet.c`, `tcp_echoserver.c`, `w5x00_ll_driver.c` | link and address flags, services, connections | link check, DHCP, accept, receive, send, close | LwIP | services follow the link; buffers freed once |
| Auxiliary ports, `ioports*.c` | pin tables | in, out, PWM, ADC, wait | core | (interrupt side: input pins) |
| Settings, start up, pin tables, `driver.c`, `main.c`, board maps | settings | sequential configuration | all | peripherals as configured |

What is hard, by kind: two-access updates of registers and ring pointers
(UART, USB, `IMR1`, `DIER`), edges and flags cleared wholesale when several are
set (pins, timers), late handlers (stepper, encoder), results that come before
the flag that awaits them is set (I2C, SD), time outs raced by late completions
(SD, Trinamic), waiting given up half way (USB, UART), counters at their limits
(rings, microseconds, time stamps), power loss (flash). `PROJECT.json` lists
each at its line, with the properties that watch it; every hazard listed has one.

## 2. Modules

| module | models | theorems in |
|---|---|---|
| `SerialStream` | `serial.c`, one port, both directions; implements `CharPipe` twice | `SerialStream_proofs` |
| `CharPipe` | abstract: a bounded first in, first out pipe whose contents may be flushed or cut | `SerialStream_proofs` (refinement) |
| `StepTimer` | step pulses, stepper timer and handler of `driver.c` | `StepTimer_proofs` |
| `StepInject` | steps injected beside the motion and claimed motors (`driver.c`), over a timer of `timers.c` and its handler | `Times_proofs` |
| `InputPins` (+ `MC_InputPins`) | EXTI handlers, debouncing, `IMR1`, waits, of `driver.c` and `ioports.c` | `InputPins_proofs` |
| `UsbOutput`, `UsbInput` | the two directions of `usb_serial.c`; they share no state | `UsbOutput_proofs`, `UsbInput_proofs` |
| `DelayService` | `driver_delay` and `Driver_IncTick` | `Times_proofs` |
| `ElapsedTime` | `getElapsedMicros` and `SysTick_Handler` | `Times_proofs` |
| `SpindleEncoder` | pulse interrupt, timestamp and its overflow, reading and reset of `encoders.c` | `SpindleEncoder_proofs` |
| `TmcUart` | the software UART of `tmc_uart.c` against an external driver chip | `Times_proofs` |
| `SdTransfer` | `SD_read`, `SD_write` and the completion callbacks of `sd_diskio.c`; implements `BlockDevice` | `Transfers_proofs` |
| `BlockDevice` | abstract: what FatFs expects of a disk whose requests may fail | `Transfers_proofs` (refinement) |
| `I2cPort` | the interrupt driven calls of `i2c.c` | `Transfers_proofs` |
| `FlashStore` | `flash.c` with failures and loss of power | `Transfers_proofs` |
| `CanFilters` | filter table and receive callback of `can.c` | `Transfers_proofs` |
| `NeopixelBuffer` | packing and sending of the LED buffer of `neopixel_spi.c` | `Transfers_proofs` |
| `MC_Times` | runs `ElapsedTime`, `DelayService`, `StepInject`, `SpindleEncoder` or `TmcUart` | `Times_proofs` |
| `MC_Transfers` | runs `SdTransfer`, `I2cPort`, `FlashStore`, `CanFilters` or `NeopixelBuffer` | `Transfers_proofs` |

`MC_Times` and `MC_Transfers` are selectors, not compositions. The services in
them share no variable in the code, so that their product would show nothing
but its size. `which` (`device`) is chosen at the start and never changes; the service
it names runs, and the others stay as they start. A property of
one of them therefore is about its own behaviours, and one run checks five state
spaces one beside the other.

A definition `Bad_X` is `X` with a plausible mistake; no action uses it. It
documents what a property is able to notice.

### Races: the assumptions are named

Where the code breaks under an interleaving that nothing in it rules out, the
model does not leave the interleaving out. Each such interleaving has a name,
the constant `Races` (in the selected modules `TimeRaces`, `DelayRaces`, `InjectRaces`,
`EncoderRaces`, `UartRaces`, `SdRaces`, `I2cRaces`) is the set of those admitted, and the action that would
start one has a guard `... => "name" \in Races`. So a passing run or theorem
says under which of them a property holds, and those that a run's properties
survive are admitted in it: the output side of the UART is checked with both
races of the input side switched on, and the other way round. What each of the
others breaks is listed in section 4; adding its name to `Races` in the run
named there makes TLC show how.

### SerialStream

`cr1` is the set of enable bits, `tdr`, `tsr`, `rdr` the data registers (external
hardware), the rings are `tx...` and `rx...`. `pc` is the position of the foreground inside a
call, `reg`, `ptr`, `val` are the local copies it holds there: of `CR1` in a
read-modify-write, of a ring pointer, of a character. A character is the number
of its acceptance, so the data itself shows loss, order and duplication. The handler
`UART0_IRQHandler` is one action for each of its paths: receive (strip a real
time command, cancel, store, overflow) and then send. A receive that is entered
through TXE is included, because the code tests `ISR` and not `RXNEIE`.

### StepTimer

Time is counted in timer ticks. `Tick` is the down counter with its update and
two compare events; the handler may be entered up to `Entry` ticks late, the
callback outputs its step up to `Output` ticks later and returns up to `Rest`
ticks after that, so an update may be flagged during the handler. `PulseStart` and
`PulseStartDelayed` are `stepperPulseStart` and `stepperPulseStartDelayed`, which delays
when an axis that steps has turned, the one followed or another;
`GoIdle...` occurs in the callback, in a pin interrupt of the same level, and
in the foreground as a load and a store of `DIER`; `WakeUp...` is
`stepperWakeUp`. One axis is followed and another stands for the rest, because the
code treats all axes of a pulse alike.

### InputPins

The pins of one EXTI interrupt. `Change` is an edge, latched in `pr` when the
pin is unmasked (the assumption made of the hardware: the EXTI latches
the edges of unmasked lines). The handler takes all latched pins (`Enter`) and
serves the lowest (`CorePinIrq`, `AuxPinIrq`), as the code does. `RunTask` is a
debounce task run by the core in the foreground. The foreground changes `IMR1`
with `Imr_Load` and `Imr_Store`, called for by `gpio_irq_enable`; the edge registers are written
by no handler and change in one step with the call. Handlers may be
registered over a registered one and removed in both ways of `register_interrupt_handler`
(`Unregister`); `WaitBegin` and `WaitEnd` are `wait_on_input` of a pin with or
without a handler, whose edges the end restores. The edge of a limit is chosen by
`disable_pullup ^ invert` (`LimitMode`), its state by `invert` (`Tripped`), as in the code; `owed`
records the edges somebody is to be told of: a limit trips, or the edge is the one a handler or a wait is
for. The foreground does not take a step while an interrupt is pending that it would let in.

### UsbOutput, UsbInput

`flight` is the transfer the CDC class reads from a buffer; `Load` is the class
copying it to the endpoint FIFO (external). `Abort` is the
blocking callback ending a wait; `gaveUp` remembers which, and `host` is recorded until then. A copy is done in two
actions, `Copy_Part` and `Copy_Rest`, as the loop of `usbWriteS` does with a text that is
longer than the room left. In `UsbInput` a sender obeys the room reported minus
`margin`, one of `Margins`; `credit` is what it still counts on. `CommandCancels` is a
real time command in a packet: the core cancels the input from the interrupt.

### DelayService, ElapsedTime

`Start` stores the counter, `StoreCallback` the callback, `Tick` is
`Driver_IncTick`, and what it calls runs until `Called`, at interrupt level. `asked`,
`passed` and `waiting` remember what was promised, `alone` whether a race has met the
delay asked for last. In `ElapsedTime` the two stores of the tick handler
are two actions and come up to `Lateness` after the tick is due; a reader copies
the pair (the LDREX/STREX loop makes it one action) and may be held up for any
time before it looks at the cycle counter. `Unit` units make a
millisecond; the microseconds wrap at `Microseconds`, as `ms * 1000` does in 32 bits.

### StepInject

`OutputStep` is `stepperOutputStep` with the start of its timer, `StepOut`
the start and the end of a pulse of the motion (`stepper_step_out`, which
leaves the injected axes alone), `Claim` and `Release` are `stepperClaimMotor`.
The timer reaches its compare value, then zero; the handler loads `SR` (`Handler_Read`), then
clears the flags and calls the callbacks in the order of the code
(`Handler_Call`). `steps` and `edges` count, per axis, what was asked for and what came out.

### SpindleEncoder

The counter wraps at `Width`, the timestamp at `StampWidth` (both 2^16). `Irq_Read` and
`Irq_Store` are the two halves of `spindle_encoder_irq`, between which pulses
and time go on. `Get_Copy`, `Get_Count` are `spindleGetData` (a copy with interrupts
disabled, then the counter); the four `Reset_` actions are `spindleDataReset`.
Foreground actions wait until no interrupt is pending, except the reading of the counter,
which may find it wrapped.

### TmcUart

Time is counted in units, `Period` to a bit. The timer's update calls the handler
up to `IrqLate` units later; the foreground does not run while it is pending. `Call`,
`NextByte`, `Sent` are `write_n`, the rest of the foreground is `tmc_uart_read`:
turn the line, poll for START (at most `PollLate` units late), start the timer half a bit
away, collect the bytes, count interrupts before driving the line again, or give up.
The driver chip is external: its receiver samples in the middle of each bit after
an edge, and it answers a request it has received, fully, partly (it breaks off
after a byte) or not at all. Its start is not tied to our timer's phase.

### SdTransfer

`request`, `fast`, `memory` are the call; `transfer` is what the DMA is doing, which
goes on when the call has given up (races `late_read`, `late_write`). `Start`
includes the clearing of the flag where the code clears it, and the lack of it
where it does not. An area that is read or written through the scratch buffer goes sector by sector.
`Error` ends a transfer part way without a callback, as the library does.
The refinement maps `wanted`, the contents that may still reach the card, to what the call has
to write and what is under way.

### I2cPort, FlashStore, CanFilters, NeopixelBuffer

`I2cPort`: `Ready` is `wait_ready`, `Start` the library call (refused while the bus
is in use), `Store` what the code does after it returns, `Wait` the blocking wait, `GiveUp`
the blocking callback ending either. `FlashStore`: every word programmed is a step, erase
and program may fail, and `PowerLoss` may come in any state and leaves the word (or all words) being changed
undefined; at restart the settings are those of the flash if they can be read. `CanFilters`: the
callback is stored before the filter is set up, and frames arrive meanwhile. `NeopixelBuffer`:
`Dma` sends one LED a step from the buffer that `Out` changes, and `Repack` too, LED by
LED, after `SetIntensity`.

## 3. Runs that pass

| run | checks | what it shows |
|---|---|---|
| `serial_output` | TypeOK, OutputSound, TxInOrder, DrainedWhenZero, TxIsPipe, TxDrains | output ring, `CR1` and handler stay consistent; the output is a `CharPipe` (refinement) and drains (liveness) |
| `serial_input` | InputSound, RxIsPipe | every accepted character is read once, in order, unless discarded; the input is a `CharPipe` |
| `step_late` | EveryStepIsAnEdge, PulseWillEnd, NoUpdateDropped, PulseAndPauseLast | handler and callback late by more than a step period |
| `step_regular` | DirectionSettles, NoCallbackWhenIdle, StepComesOut | latencies short of a period; liveness |
| `inputs_edges` | TypeOK, EdgesCountOnce, EdgeIsTold | edges of limits, also together, and of a debounced pin, also one waited for over its handler: none overlooked, no bounce taken, all reported in the end |
| `inputs_together` | MaskFollowsUse | edges may be lost, but no pin stays deaf and none is unmasked that nobody uses |
| `usb_text` | HostReadsInOrder, FlightUntouched, TextArrives | texts of all lengths around a buffer, safety and liveness |
| `usb_input` | RoomIsThere, ReadsInOrder | flush, cancel and full ring against the interrupt; a sender that leaves two characters free is safe |
| `times` | TypesOK, TimeIsSound, OnTime, CallbackComes, EveryInjectionIsAnEdge, PinsFollowTheirOwner, NextPulseIsTold, PulseLengthIsTrue, CountIsTrue, LineIsTrue | the services on timers, one at a time: see below |
| `transfers` | TypesOK, IsBlockDevice, ReceivesAreAwaited, SettingsSurvive, FramesReachTheirOwner, StripCatchesUp | storage and buses, one at a time: see below |

What `times` shows, service by service. *Elapsed time*: with the tick up to
`Lateness` late the microseconds never go back, are never ahead, and lag no more
than that. *Delays*: what the tick calls was asked for last, with nested and rearmed
delays and a tick between the two stores; what no race has met is
called, at the right tick. *Injected steps*: one edge per step, and no pin left
on or taken away. *Encoder*: the pulse length is true across wraps of the timestamp
and a reset, the next compare value is always ahead, and the count is true but for one
case that the property states (section 4). *Software UART*: with late handler and
polls the driver receives exactly the request, no byte of a reply is missed or misread, and
the two sides never drive the line against each other, also when a reply is given up as it
starts.

What `transfers` shows. *SD*: the driver is a block device although transfers fail, break off,
are given up and, for writes, complete later. *I2C*: a
blocking call that returns TRUE is over, `await_rx` is not left set for ever, a
key goes to who asked. *Flash*: no failure and no loss of power leaves a mixture
of settings, and a save reported done is done. *CAN*: frames go to the owner of their filter while
others are added. *LEDs*: what is packed while it is sent is repaired by the next write.

**Bounds.** Rings have 3 slots (UART) and 4 slots (USB): empty, partly filled,
full and every wrap occur, and three to eight characters go round them more than
once. The UART directions are checked with many characters on one side and one
on the other, since they share only `CR1`. Step timing uses `t_off = 3`,
`t_off_min = 2`, `t_on = 2` and periods below, at and above the minimum
period, with latencies below (`step_regular`) and above (`step_late`) the period;
only the order of these numbers matters to the code. `t_on = 0`, which selects
`stepperPulseStart`, is no run of its own: with `t_on > 0` that function is used for every
step without a change of direction, so that its steps are in both runs. Three pins in one EXTI
group are two limits and one debounced auxiliary pin below them, the
arrangement of `boards/btt_scylla_map.h`, or one limit between two auxiliary pins; the first limit of
`inputs_edges` is inverted, the second and that of `inputs_together` have their pull-up disabled.
Handlers are for rising edges or for both. The task pool has one entry, and other tasks may take it at any
time, so that it can be full. The USB packet is 2 characters and a buffer 3, so that texts
are shorter than, equal to and longer than either. `MaxRx`, `MaxTx`, `MaxChars` bound the characters of a behaviour.

In `times`: delays are up to 3 ticks with two callbacks, so that one can be nested in, or rearm,
another; a tick of 3 units may be 4 late, so that two ticks are due before
one is served, over 14 units; two axes with two injected steps each let one axis be injected while the other
moves; the encoder counts 6 pulses on a counter of 4 and 5 time units on a
timestamp of 3, so that both wrap, with a compare value every 2 pulses; bytes have 2 bits and datagrams 2 bytes,
all contents enumerated, a bit has 6 units and handler and poll are at most one late, which is the most
that half a bit bears; abort time and pause are just longer than a reply (in the code
5 ms and at least 1 ms, against 0.8 ms for the eight bytes of a reply).
In `transfers`: two sectors, alone and together, with two values; two keypads and two
keys; three flash words of two values; two filters, two callbacks and a FIFO of three;
strips of one LED, which the code treats apart, and of three.

`CHECK_DEADLOCK FALSE` is set where the system may stop: the writer of `UsbOutput` when
`MaxChars` characters have been written and all has arrived; in `times` the
clock, the pulses and the injected steps are bounded; in `transfers` and `sd_late` CAN
comes to rest when all filters have been added and none could be set up, so that no frame is let in.

**Fairness.** `SerialStream`: a pending interrupt is served, the line shifts,
and a call that has begun goes on; none for starting calls or for the line's input. `StepTimer`:
time goes on (strongly, as the handler may be entered again and again), the handler and the
callback do what they have begun. `InputPins`: the handler runs when called for; tasks and the
foreground's accesses are strongly fair under `[]<>Foreground`, that is, edges
come slowly enough to leave the main loop time at all. `UsbOutput`: the host
reads (the USB interrupt completes transfers) and the writer goes on; a host that stops reading is
the case of the blocking callback (race `aborted`). `DelayService`: the tick comes, what it calls
returns, and the foreground goes on. The other modules state safety only.

## 4. What the races break, and where the code disagrees with its own words

`usb_room` is a run that TLC refutes: `usbRxFree` says that it returns the
"number of free characters in the input buffer" (usb_serial.c:48), but it returns
one more than the ring can take (line 53), so that a sender that goes by it has its last
character dropped. `serialRxFree` subtracts the one.

`sd_late` is the second: sd_diskio.c:295 says that the loop of the slow path will "wait
until the read is successful or a timeout occurs". Only the fast path clears
`ReadStatus` when it starts (line 243). If a sector is given up and its transfer completes later, the callback (533) leaves
the flag set; the next `SD_read` starts its first sector, finds the flag set at once (298) and copies the
scratch buffer while the DMA is still at work. From then on every sector is one behind, and
each is reported as read. Writes through the scratch buffer clear their flag before they start and survive the same
(`late_write`, admitted in `transfers`).

Each line of this table is an interleaving that the code does not rule out and
that no run admits for the property named; added to the set of races of the run, TLC
finds the property violated. The last lines are races that a run admits, with a history variable
that exempts what they break from the properties (`due`, `gaveUp`, `alone`).

| race | run, property refuted | at | in short |
|---|---|---|---|
| `long_window` | serial_output, OutputSound | serial.c:590 | two transmit interrupts between head update and `CR1` store: `TXEIE` stays on with an empty ring, and characters of the last round are sent |
| `reconfig_busy` | serial_output, OutputSound | serial.c:661, 676, 689 | rewriting `CR1` while sending revives `TXEIE`; the pending count goes wrong |
| `cancel_in_read` | serial_input, RxIsPipe | serial.c:647 | a cancel by a real time command is undone by the store of `serialGetC` |
| `receive_in_cancel` | serial_input, RxIsPipe | serial.c:572 | a character received inside `serialRxCancel` takes the place of the CAN |
| `idle_overdue` | step_regular, NoCallbackWhenIdle | driver.c:2943 | after `stepperGoIdle` the callback runs once more for an update flagged before |
| `clear_in_delay` | step_regular, DirectionSettles | driver.c:1050 | clearing the signals with a step still delayed changes the direction under it |
| `idle_preempted` | step_late, PulseWillEnd | driver.c:1048 | the enable bit of the end of the pulse is lost in a read-modify-write of `DIER` |
| `wake_in_pulse` | step_late, PulseWillEnd | driver.c:577 | `stepperWakeUp` overwrites the enable bits while a pulse is on: it stays on until the next one ends |
| `together` | inputs_edges, EdgesCountOnce | driver.c:2979 | pins latched together are all acknowledged and one is served |
| `late_change` | inputs_edges, EdgesCountOnce | driver.c:2999 | a change between the debounce task's look at the pin and the unmasking is not seen |
| `wait_edge` | inputs_edges, EdgesCountOnce | ioports.c:198 | a pin awaited for another edge than its handler's: the debounce task looks for the handler's (2999), and the handler misses its own |
| `enable_in_debounce` | inputs_edges, EdgesCountOnce | ioports.c:198, 212, 267 | registering a handler, or beginning or ending a wait, unmasks a pin that is being debounced: its bounces count |
| `imr_preempted` | inputs_edges, EdgesCountOnce | driver.c:1885 | the mask set by the handler is lost in the foreground's read-modify-write of `IMR1` |
| `disable_in_debounce` | inputs_together, MaskFollowsUse | driver.c:3000 | the debounce task enables the interrupt of a pin that has no handler any more |
| `overtaken` | usb_text, HostReadsInOrder | usb_serial.c:119 | `usbPutC` sends its character before text that is still buffered |
| `receive_in_cancel` | usb_input, ReadsInOrder | usb_serial.c:69 | a packet received inside `usbRxCancel` takes the place of the CAN |
| `cancel_in_read`, `cancel_in_flush` | usb_input, ReadsInOrder | usb_serial.c:205, 61 | a cancel by a real time command inside `usbGetC` or `usbRxFlush` is undone by its store |
| `inside_tick` | times, TimeIsSound | stm32h7xx_it.c:191 | a handler that preempts the tick handler between its two stores reads up to a millisecond too little |
| `wrap` | times, TimeIsSound (with `Microseconds = 9`) | driver.c:1862 | `ms * 1000` is computed in 32 bits: the microseconds jump back after 71 minutes |
| `supersede` | times, OnTime | driver.c:513 | a delay asked for while a callback is to come gets that callback |
| `overlap` | times, EveryInjectionIsAnEdge, PinsFollowTheirOwner | driver.c:1209 | a step injected while another axis' injected pulse is high overwrites `inject.out`: the first pulse is never ended |
| `release` | times, both | driver.c:1198 | releasing a motor takes an axis that is not claimed, whose injected pulse is on, out of `inject.axes`: the motion ends the pulse or adds to it |
| `stepping` | times, both | driver.c:1204 | a step injected into an axis whose own pulse is on is no edge, and the motion no longer ends its pulse |
| `stale_delay` | times, both | driver.c:1931 | the callbacks of the timer are chosen before the new delay is known: no pulse, or two starts |
| `flag_lost` | times, both | timers.c:516 | an event between the load of `SR` and the store that clears it is cleared unseen |
| `both_flagged` | times, EveryInjectionIsAnEdge | timers.c:518 | compare and time out found together are served in the reverse order, so the pulse is ended before it is started |
| `late_irq` | times, NextPulseIsTold | encoders.c:301 | a handler late by a whole interval sets a compare value that has passed: no interrupt until the counter comes round |
| `overflow` | times, PulseLengthIsTrue | encoders.c:84 | the timestamp read between the wrap of its counter and the handler of it is short by 65536 |
| `held_up` | times, CountIsTrue | encoders.c:151 | a reader held up until the counter has come round reports too little |
| `slow_switch` | times, LineIsTrue | tmc_uart.c:233 | the line is turned round after the driver has begun to answer: both drive it |
| `late_reply` | times, LineIsTrue | tmc_uart.c:244 | an answer that starts when the read has been given up meets our own driver, or the next request |
| `late_read` | transfers, IsBlockDevice; sd_late | sd_diskio.c:298 | see above |
| `late_in_check` | transfers, IsBlockDevice | sd_diskio.c:354 | a write completes late when the next has just cleared `WriteStatus` and waits for the card (360): if that one never completes it is reported as done |
| `done_in_call` | transfers, ReceivesAreAwaited | i2c.c:203 | a receive that completes before the call that started it has stored `await_rx` leaves it set for ever |
| `nack` | transfers, ReceivesAreAwaited | i2c.c:235 | a receive that ends with an error leaves `await_rx` set: every later call waits until the blocking callback gives up |
| `busy_late` | transfers, ReceivesAreAwaited | i2c.c, `wait_ready` | a blocking send returns before the bus is flagged busy with it |
| `delay_overdue` | (admitted in `step_late`) | driver.c:1096 | an update flagged before a delayed pulse is cleared and not put off: one period is skipped |
| `aborted` | (admitted in `usb_text`) | usb_serial.c:88, 98 | after a wait given up, the next text is written over the start of the one kept, and after line 98 into the buffer that is being sent |
| `tick_in_arm`, `nested`, `rearm` | (admitted in `times`) | driver.c:513, 515, 3200 | the callback of the delay is not called, or the lengths change |

One defect needs no race and is part of a property: `spindleGetData` (encoders.c:151; driver.c:1711 is
the same code for the other counter) subtracts the counter in 32 bits where the handler (303) truncates to 16, so that
between a wrap of the counter and the next interrupt the count is short by 65536. `CountIsTrue` says
that the count is short by exactly that, and then only.

Another one the properties except: the edge of a limit is chosen by `disable_pullup ^ invert`
(driver.c:1977, 1995), its state is inverted by `invert` alone (1418). A limit whose pull-up is disabled
(`PullupOff`) therefore interrupts when it is released; `core_pin_debounce` finds the level
it expects, finds no limit tripped and tells nobody (2963), and when the limit trips there is no
interrupt at all. `EdgesCountOnce` and `EdgeIsTold` are about the other limits; if the exception is
taken out, TLC refutes both with one edge. The pins are there in the runs all the same, as they share the handler with the
others and report for them.

How likely the races are differs: the two transmit interrupts of `long_window` need the
foreground to be held up for a character time (43 us at 230400 baud; the
stepper interrupt has a higher priority), `supersede` needs a caller that does it,
`nack` a device that is not there.

## 5. What is proved

Eight modules hold theorems. Each theorem is about the specification that TLC runs
(the same module, extended), for every value of the constants and behaviours of any length; what it
assumes is written in it. A race that a theorem excludes is one its property does not
survive (section 4); all others are admitted. Every safety property of a passing run
is stated by a theorem. `PROJECT.json` lists the theorems with the property of each.

Hardly any property is inductive: it says what a caller sees, and a later step keeps it only because
of what the foreground or the handler holds in its hands. The invariants below say that; TLC has checked
each of them before it was proved. Every proof has a lemma for each action, or for each action and part of the invariant,
that the next-state relation keeps it, and lemmas about the operators.

### SerialStream_proofs, from `SizesAssumption` (rings of at least two slots)

| theorem | excluded | invariant, and why it is needed |
|---|---|---|
| `TypeCorrect` | nothing | `PtrOK`: the foreground's copies of ring pointers are slots of the ring they came from; `TypeOK` is not inductive without |
| `OutputSafe`, `OutputInOrder` | `long_window`, `reconfig_busy` | `TxInv`: `TxContents` (from tail to head the ring holds the last characters accepted, in order), `PutOK` (between the head update and the store of `CR1` in `serialPutC` the ring is not empty, and holds two if `TXEIE` is on and no transmit interrupt has been taken), `ConfigOK` (inside a rewrite of `CR1` neither register nor copy has `TXEIE`) |
| `OutputIsPipe` | the same | refinement of `CharPipe`: under `TxInv` the ring read from its tail is the line of consecutive numbers from the last one gone, and each step moves that line as the pipe may, or leaves it |
| `DrainedIsDrained` | the same | `CountOK`: the pending count computed from an old tail is not too small |
| `InputSafe`, `InputIsPipe` | `cancel_in_read`, `receive_in_cancel` | `RxInv`: `RxContents`, `ReadOK` and `FlushOK` (a copied pointer is the tail, or a head not newer than the head), `CancelOK` (nothing comes in between the stores of `serialRxCancel`) |

Everything on one side is proved whatever happens on the other.

### StepTimer_proofs

`NoRace` excludes `idle_preempted` and `wake_in_pulse`. Latencies, period lengths and the number of steps are arbitrary.

| theorem | also assumed | invariant |
|---|---|---|
| `TypesHold`, `StepsAreEdges`, `PulsesEnd`, `UpdatesStay` | | `StepInv`: `CallerOK` (nothing calls for the handler inside `stepperGoIdle` and `stepperWakeUp`), `PulseOK` (the compare event that ends a pulse is enabled, and ahead of the counter or flagged), `DelayOK` (the same of the event that starts a delayed one), `UpdateOK` (an update that is due is flagged and enabled) |
| `PulsesAndPausesLast` | `TOffMin <= WakeUp` | `PauseOK`: while a pause is too short no step is due before it is long enough |
| `NoIdleCallback` | neither `idle_overdue` nor `delay_overdue` | `PendOK`: a pending interrupt has an event that is flagged and enabled |
| `DirectionHasSettled` | the same, no `clear_in_delay`, `KeepsUp` | `DirOK`, `LateOK`: the step that follows a change of direction is `t_on` away, because the callback returns in time |

`KeepsUp` is arithmetic on the latencies: entry, output of the step and the rest of the callback fit the shortest
period. It is what `step_regular` runs with, and the theorem says that no other property of its numbers was used.

### InputPins_proofs

For any set of pins, limits, polarities and handlers, any pool of tasks, and limits enabled in any order. `TypesHold` holds with every race.
`MaskIsTrue` (without `disable_in_debounce`) rests on `MaskInv`: what the foreground is about to do
to `IMR1` (`TodoOK`), that only pins in use are enabled, latched, taken or debounced (`UsedOnly`), and that a pin in use is
enabled in the register *and in the copy about to be stored*, or its debounce will enable it (`Unmasked`).
`EdgesAreCounted` (`Races = {}`) adds `Alone` (an auxiliary pin taken by the handler is the only one), `OneDebounce` (a pin is debounced once at a time, masked meanwhile, and
not enabled within it) and `OwedOK` (an edge not reported yet is latched, taken, or in a task, its level holds, and a wait is for the edge that the
debounce task will look for). `WantedIs` ties what is to be told to what interrupts, and needs the limit's pull-up: hence the exception of `PullupOff`.

### UsbOutput_proofs, UsbInput_proofs

`FlightIsUntouched` and `OutputTypeOK` hold with every race; `WriterOK` and `FlightOK` say which of the two buffers
is being filled, which is being sent, and how full each is at each place of the writer. `OutputIsInOrder`
excludes `overtaken`; `InOrder` puts host, transfer and buffer one behind the other, and is claimed only
while no wait was given up, as is the property.
`ReadsAreInOrder` and `RoomSuffices` exclude the three `..._in_...` races except a packet in a flush:
`Accounted` counts each character as read, skipped or in the ring (`Contents`), `CreditOK` bounds what a sender counts on by the room left.

### SpindleEncoder_proofs

Under `Sizes`: two interrupts are at most half the range of the counter apart (in the code at most 2048 of 65536).
`EncoderTypesHold` with every race. `LengthsAreTrue` without `overflow` (`StampsOK`: the timestamp is the time, short by
the overflow not handled yet). `NextPulseComes` without `late_irq` (`CompareOK`: the count is at most an
interval past the compare value, and the handler's copy lies between). `CountsAreTrue` without `late_irq` and `held_up`
(`CountsOK`: the pulses handled, those up to the handler's copy and those after it are all there were, and so for the copy of the foreground).

### Times_proofs

| theorem | assumes | invariant |
|---|---|---|
| `MicrosAreSound` | `TimeRaces = {}` | `TimeInv`: a reader's pair was right when it was copied and may have aged; it is bounded against the clock's, and the last reading against both |
| `DelaysAreOnTime` | no `supersede`, 0 is no callback | `ToCome`: the callback in place is the one to come, or is about to be stored; `Left`: counter and ticks gone by add up to the delay |
| `InjectionsComeOut`, `PinsAreOwned` | `InjectRaces = {}` | `InjectInv`: which stage of a step is still to come at each state of timer, flags and handler, so that steps and edges differ by the pulse that is pending |
| `LineCarriesWhatWasMeant` | `UartRaces = {}`, and of the constants what `TimesAssumption` says: handler and poll together are late by less than half a bit, the pause outlasts a reply | `UartInv`, see below |
| `ServiceTypesHold` | `Sizes`, `InjectRaces = {}` | the types of the five services; those of the injector rest on `InjectInv`, those of the clock on copies not being ahead |
| `EveryServiceRuns` | | none: `MC_Times` implements each service's specification, so the theorems above hold of the specification that is run |

`LineIsTrue` relates two clocks that nobody compares: the timer of the driver and that of the chip. When a byte is sent
the chip counts from the edge of START, and that edge is as late as the handler was; so there is one `j` of at most `IrqLate`
by which the chip is behind for the whole frame (`SendOK`), and it samples each bit after the handler has output it and before the next is due
(`SamplesKeepUp`). When a reply comes, the timer is started half a bit after START was noticed, at most `PollLate` late; so there is one
`h` between `Half - PollLate` and `Half` by which the bits of the chip run ahead for the whole reply (`ReadOK`), and
the handler, itself late by `IrqLate` at most, samples each of them once before it is over (`BitsKeepUp`). Then the bytes taken, those in the ring, the bits of the one
under way and the position of the chip account for the reply. `StopOK` says that after the last byte the chip has less than a
bit to go and no interrupt is counted before it lets the line go, which is why the count of `stop_listening` may be as small as one; `AbortOK` that
the pause after a read given up outlasts what is left of the reply.

### Transfers_proofs

| theorem | assumes | invariant |
|---|---|---|
| `I2cIsSound` | `I2cRaces = {}`, callbacks and keys are not 0 | `BusInv`: `await_rx` is set only while a receive is under way, a call that waits for one finds it set, and the keypad callback is that of the key being read |
| `SettingsAreSafe` | at least one word | `FlashInv`: the flash holds one image but for words erased or broken, and a save in progress has written the new settings up to the word it is at |
| `FramesAreDelivered` | 0 is no callback | `CanInv`: filters and frames name entries of the table below the free index, and those are the ones asked for |
| `StripIsRepaired` | strips of at least one LED | `LedsInv`: the LEDs sent by the present transfer show the buffer, unless something was packed since |
| `CardIsBlockDevice` | `SdRaces` at most `late_write` | refinement of `BlockDevice`: `TransferOK` (the transfer under way is the call's own or an abandoned write from the scratch buffer; a flag is set only when it is over), `DataOK` (what was moved before the sector at hand agrees with the card) |
| `DeviceTypesHold` | the same | the types of the five devices |

### What is only model-checked

- Liveness: `TxDrains`, `StepComesOut`, `EdgeIsTold`, `TextArrives`, `CallbackComes`. They rest on fairness, hence on
  `ENABLED`, which the provers do not handle.
- What the two runs refute, `RoomAsReported` and `ReadWasSuccessful`: there is nothing to prove.

## 6. Plan

Done: everything in the table of section 2, and a theorem for every safety property that holds. Next, in this order:

1. `SpindlePwm` (`driver_spindles.c`, `pwm.c`), `NetLink` and `EchoServer` (`enet.c`, `tcp_echoserver.c`),
   the card protocol of `diskio.c`, `spiflash.c` under littlefs.
2. Operations of modelled components that are left out: squaring and the fault inputs
   of `driver.c`, index event and quadrature counter of `encoders.c`, the second and third compare
   callback of `timers.c`, a change of the strip's length in `neopixel_spi.c` (183), which frees the
   buffer a transfer may be reading.

## 7. What is not modelled

Nearly all of the lines in `src/` are not this program's own: the
vendor HAL, CMSIS headers, the USB, FatFs and LwIP libraries and littlefs are third
party code, and `ethernetif.c`, `usbd_conf.c` and the start up are generated by the
vendor's tool. What `src/Src` relies on of them is an external definition of the
module that needs it; the models cover the driver itself, which is a few per cent of the
tree. Of the driver, pin tables, descriptions and settings are constants or
sequential configuration, and `spi.c`, `diskio.c`, `spiflash.c` and `tmc_spi.c` block until the peripheral
has answered and keep no state between calls. `stream_rx_suspend` and all other functions of the
core are absent from the tree. Weak memory effects are left out: one core, and
device memory is strongly ordered. Each component's note in `PROJECT.json` says what of it is left out.
