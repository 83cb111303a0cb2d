# MOLLER 16-channel integrating ADC: a model of firmware, driver and application

The repository holds everything that runs on the MOLLER ADC board: the FPGA
design (`hdl/src`, SystemVerilog), a Linux kernel module that lets user space
receive DMA transfers (`dma-proxy`), and the application `moller`, five threads
that initialise the ADCs, forward data to the network, serve register access and
answer discovery requests. The TLA+ modules here follow that code; every
definition that stands for code is listed with its lines in `PROJECT.json`
(`map`).

Paths below are relative to `src/`; `APP` is
`sw/linux/project-spec/meta-user/recipes-apps/moller/files/src` and `DRV` is
`sw/linux/project-spec/meta-user/recipes-modules/dma-proxy/files/dma-proxy.c`.

## 1. Inventory

    ADCs -> deserializer -> +-> stream_subsystem -> axi_stream_ts_data -+
       (error counters,     |                                           +-> FIFO, AXI DMA
        delay lines)        +-> capture_control / subsystem_capture ----+       |
                                  -> simple_packetizer                     dma-proxy (XFER)
    registers <---- cmd_thread <---- TCP :5555 (REP)                            |
                    tinode_thread                                          dma_thread
                    discovery_thread <-- UDP                                    |
                    sensor_thread                                          TCP PUB socket

| Component | State it keeps | Operations | Interacts by |
|---|---|---|---|
| DMA receive path: `DRV`, `APP/task_dma.c` | one coherent buffer, one `bdtable` entry with its cookie and completion, the engine's descriptors; nine 32-bit counters | `XFER` ioctl (`start_transfer`, `wait_for_transfer`), interrupt and `sync_callback`, open/release; the loop of `dma_thread` | the thread blocks in the ioctl; the engine writes the buffer the thread reads; PUB socket |
| ADC calibration: `adc_init`, `data_init` in `APP/task_cmd.c`, `hdl/src/delay_reset_seq.sv`, `hdl/src/subsystem_adc.sv` | tap of each delay line, error counters, ADC_CTRL and STREAM_CTRL bits; the table of counts | sweep of 512 taps, `find_mid_of_longest_run`, leaving test mode, starting the stream | registers written by software and acted on later by the FPGA |
| Stream packetizer: `hdl/src/axi_stream_ts_data.sv` | circular buffer of 2^15 words, positions and frame counts of both sides, the write state machine | one clock of each side, switching the stream | ADC words in (no back pressure honoured upstream), AXI stream out, enable bit from a register |
| Averaging: `capture_control.v`, `subsystem_capture.sv`, `util/simple_packetizer.sv` | cycle, region and sample counters; sums, counts and extremes of region and window; the report being sent | one clock: trigger, sample, end of region, word read | trigger input, `spare_reg1/2`, AXI stream out |
| Discovery: `APP/task_discovery.c`, `APP/lib/discovery` | socket, `last_uptime` of the limiter; on a host the list of responses | announce, poll once a second, answer and sleep; host: send request, update, get next, shutdown | UDP broadcast and unicast |
| Command server: loop of `cmd_thread` | the register map, which it shares with the calibration | receive, execute `r`, `w` or an error, reply | REP socket :5555 |
| TINODE start-up, sensor thread, `main` | none | fixed writes; nothing; start five threads | registers |
| dma-proxy life cycle: probe, remove, `cdevice_*` in `DRV` | the shared class pointer, `total_count`, per channel its character device, node and class | insmod, rmmod, probe, remove, each kernel service and its failure | kernel; applications that open the nodes |
| Stream source: `hdl/src/subsystem_stream.sv` | decimation counter, two pipeline registers, position in the event | one clock, change of mode | words to the packetizer, whose `in_tready` it ignores; register `spare_reg1` |
| max30205 | none | read a temperature | sysfs, I2C |
| Deserializer, clock loading, triggers, time stamps, wiring | pipelines and small counters | one clock | wires |

The rest (register map, FIFO cores, network cores, TI node, boot code, build
scripts, init script, `peekpoke`) is vendored, generated or without state.

### What is hard, and what makes each part correct

* **DMA receive path.** `wait_for_transfer` gives up after a time-out and leaves
  its descriptor in flight; every transfer uses the same completion, the same
  cookie slot and the same buffer; a killed process leaves its descriptor to its
  successor; preparation and submission can fail half-way. Correct means: the
  buffer does not change while a packet in it is examined and sent, subscribers
  see packets whole, in order and once, and every loss shows in the counters.
* **Calibration.** The delay line loads some 40 clocks after its register is
  written, and the counters count all the while. Correct means: a count belongs to
  the tap it is stored for, each channel ends at a tap that works (where one
  does), and sampling the test pattern stops before the stream starts.
* **Stream packetizer.** Header and time stamp are written after the words, the
  write port and the space check lag by one and two clocks, the reader may stall,
  the stream may be switched off at any clock. Correct means: frames come out
  whole, in order, with the time of their first word, and nothing is overwritten.
* **Command server.** Requests arrive while the sweep runs, and a client may write
  the registers the sweep has set. Correct means: waiting requests disturb nothing,
  every request is answered once, and what the calibration achieved stays until a
  client changes it.
* **Stream source.** It does not wait for the packetizer, which takes no word for
  four clocks after each frame; five words of an event follow each other in
  neighbouring clocks. Correct means: every loss has one of three causes, and a frame
  that starts in the wrong place can be told from one that does not.
* **Life cycle of the driver.** Channels of all devices share one class and one
  counter; devices come and go in any order, open files outlive nothing but the
  module, and each service of the kernel may fail half-way. Correct means: the class
  lives exactly as long as channels do, and remove leaves nothing.
* **Averaging.** Three pipelines one clock apart have to agree on where a region
  ends, while triggers, the switch and a busy packetizer come at any clock.
  Correct means: a report is about exactly its region, and is sent unmixed.
* **Discovery.** Datagrams get lost and overtake each other; a rate limiter and a
  ten second sleep stand between a request and the next answer; the host's list
  is linked by pointers and has a limit. Correct means: hosts that go on sending
  requests are answered, and no received response is lost or repeated.

## 2. Modules

Each module follows one component; a register or variable keeps its name from the
code. Operators whose name begins with `Mutant` are deliberately wrong variants
of the definition below them, used to see that a property notices that mistake;
no specification refers to them.

| Module | Stands on | Proofs |
|---|---|---|
| `DmaProxy` (`MCDmaProxy` for TLC) | implements `PacketFeed` | `DmaProxy_proofs` |
| `ProxyLifecycle` | | `ProxyLifecycle_proofs` |
| `TapFinder` | `LongestRun` | `TapFinder_proofs` |
| `AdcInit` | `LongestRun` | in `CmdThread_proofs` |
| `CmdThread` | extends `AdcInit` | `CmdThread_proofs` |
| `StreamPacketizer` | implements `FrameFifo` | `StreamPacketizer_proofs` |
| `StreamSubsystem` | extends `StreamPacketizer` | `StreamSubsystem_proofs` |
| `Capture` | | `Capture_proofs` |
| `Discovery` | instantiates `ResponseList` | `Discovery_proofs` |

**`DmaProxy`** - driver, engine and `dma_thread`. One action for each place where
another actor may come in between: `LoopTop`; then inside the ioctl
`StartTransfer` (with its outcomes `PrepFails`, `SubmitFails`, `Submitted`),
`Woken` or `TimesOut`, and `CheckCookie`, because the cookie is looked up after the
wait is over; then `CountFailure`, `EmptyHeader`, `ReadHeader` and `Send`, because
the buffer is read twice. The engine takes one step when it begins to write a
packet, one when it has finished, and one for the callback. The buffer is the pair
of packets its first word and its rest come from, so a torn packet can be seen.
`done` may start as anything: the driver never initialises it. `Restart` kills the
application. **`PacketFeed`** is what a subscriber is promised.
`MCDmaProxy` fixes the packets.

**`ProxyLifecycle`** - `insmod` and `rmmod`, binding and unbinding by hand, and
`probe`/`remove` one channel and one kernel service at a time. A channel is a device
with a number; `held`, `cdev`, `node` and `buffers` are what it owns, `class_p` the
class it was made in, `classes` what there is in sysfs. An application may open a node
from the moment it exists, which is before its buffer does. `mishaps` records two things
after which a promise no longer holds (a service failed, a class pointer outlived its
class), `spoiled` and `pulled` the devices whose own probe failed half-way and those
unbound while a node was open, `broken` that the kernel was given a pointer to nothing;
nothing is said of what comes after that.

**`TapFinder`** - `find_mid_of_longest_run`, one action per loop iteration; its
reference is `IsMiddle` in **`LongestRun`**. **`AdcInit`** - the sweep, against an
FPGA that loads delays and counts errors in its own time; it uses `LongestRun` for
the chosen tap, which is what `TapFinder` is proved to return. It has no
specification of its own: **`CmdThread`** extends it by what the thread does next.
There a client may `Ask` at any time, also during the sweep; the thread receives,
executes and replies in three steps, and the writes are those to the registers the
calibration uses (`WriteDelay`, `WriteAdcCtrl`, `WriteStreamCtrl`) and everything
else (`NothingWritten`). `RestartThread` kills the application in any state: its
socket and its requests go, the FPGA's registers stay.

**`StreamPacketizer`** - the circuit clock by clock: `Clock` is one step of the
write side, the RAM, the space check and the read side together, all reading old
values and setting new ones. **`FrameFifo`** is the abstract queue of frames it
implements. It takes the words of the ADC by number: a word is dropped only if the
stream is off and no frame is open, and any other one comes out once and in order. The
input, the switch and the number of the frame are those of the circuit; the rest of the
mapping (`Unread`, `Open`) reads words out of the circular buffer, a pending write
included, so a word that was left out or written twice has no counterpart. **`StreamSubsystem`** puts `subsystem_stream` before it:
the same `Clock`, given the word that was in the source's output register, and
`Source` and a register write in the same step. Of a word it knows which part of a
conversion it is.

**`Capture`** - `capture_control`, `subsystem_capture` and `simple_packetizer`,
clock by clock. A sum is the set of samples it was made of; sums, squares and
counts of a channel change together and are one variable. `open`, `closing` and
`closed` remember which samples the control counted into a region, two clocks long,
which is how long a report takes to form.

**`Discovery`** with **`ResponseList`** - boards, the network between them and one
host. A message says who would answer it, so the four filters are one set. The list
is modelled with its pointers.

## 3. Runs

| Run | What it shows |
|---|---|
| `dma_timeouts` | With two time-outs and a restart, over three packets: the engine is quiet while a packet is examined and sent, the counters agree with what was sent, `PacketFeed` is implemented |
| `dma_failures` | When descriptors cannot be prepared or submitted as well, every loss still shows in `errors + timeouts` and `PROXY_ERROR` only follows a time-out; under fair scheduling `XFER` returns, and packets are delivered as long as nothing goes wrong |
| `dma_outofstep` | A violation: after a time-out the wait of the next call is ended by the abandoned descriptor, whatever the comments in `DRV` say about blocking until the transfer completes |
| `lifecycle` | Two devices of two channels, four bindings, two loads, one failing service: the class lives as long as a channel, remove takes down what probe built, an open file has its memory except in the three cases the driver leaves open |
| `tap_finder` | All patterns of ten taps: the loop returns the middle of the first longest good run |
| `cmd_thread` | Two channels and two taps, each clean, marginal or bad, a client and a restart: counts belong to their tap, channels are at a tap that works and stay there, test data is streamed only when asked for, the application gets to serving and requests are answered |
| `packetizer` | The circuit implements `FrameFifo`, every captured word once and in order, never overruns its buffer, gets ready again and flushes a last frame |
| `packetizer_header` | A violation: a frame cut between two words is announced one word too long |
| `stream_subsystem` | Source and packetizer together, at the board's reset rate of 8.5 clocks: words are lost only while the buffer is full, right after a frame, or where a frame ended inside an event; frames that begin inside an event have a time stamp of 0; the error mark only follows a change of mode |
| `capture` | Two windows of two regions: reports count their own region, sums agree with them, packets are not mixed and none is lost without cause |
| `capture_retrigger` | A violation of "do not allow retrigger during cycle": before the first region a trigger starts the cycle again |
| `discovery` | The list hands out beacons in order until it has been emptied once; the limiter never acts on a board that answered; a host that goes on sending the requests of `discovery_create_request` is answered again and again |

### What the properties say about the code

* `SumsMatch` states what the circuit does, and that is less than one would wish:
  at the boundary between two regions the last sample of the first is counted in
  `samples_captured` but missing from the sums, the channel counts and the window
  sums, because `init_mm` comes before the accumulate branch
  (`subsystem_capture.sv:86`). The extremes in `ch_misc` leave out the last sample
  added. A user who divides sums by `ch_sample_count` is right; one who divides by
  `samples_captured` is not.
* `RegionReport` allows the region number 0: a trigger right after the last region
  resets `region_cnt` before the report is formed.
* `ListIsPending` pins what happens when the list of responses has been emptied:
  `latest_response` still points at a node that was handed out, so later responses
  are counted and never found.
* `NoUnaskedTestData` is about the first start. After a restart the stream is
  still on while the sweep is in test mode.
* `ErrorsFollowTimeouts` and `WokenByOwnTransfer` are two sides of the same thing:
  until something times out, calls and transfers are in step.
* The life cycle properties hold except after mishaps they name, and each of those
  is real: without its exception TLC finds the property broken. `cdevice_exit`
  destroys the class with the last channel but leaves `local_class_p`, so binding a
  device again without reloading the module uses a class that is gone. A node that
  cannot be created lets `cdevice_init` destroy the class of all other channels and
  return 0, so probe goes on. A probe that fails at its second channel leaves the
  first registered.
* `FilesBacked` has three exceptions, and without any one of them TLC finds it
  broken: `cdevice_init` makes the node (line 386 of `DRV`) before `create_channel`
  allocates the buffer (line 457), so a file opened in between has none yet; a probe
  that fails leaves nodes behind; unbinding by hand takes the memory from under an open
  file. What it says is that there is no fourth: no failure of another device, no
  order of binding and no `rmmod`, since the file holds the module.
* `LossesExplained` lists what the source can lose although it does not look at
  `in_tready`. SampRate 0, the reset value and what `adc_init` writes, puts 17 half
  clocks between conversions, that is eight or nine clocks. When a frame ends with an
  event the packetizer takes nothing for four clocks; after eight clocks the next event
  begins in the last of these and its first word is lost, and after nine it is not.
  A frame that begins inside an event, after that or after the buffer was full, also ends
  inside one and loses the rest of that one too; `StampTellsStart` says how a
  receiver can tell: such a frame carries the time stamp 0. No word is lost inside a
  frame. All this is for frames of whole events. Nothing marks half a
  pair that was left over when the stream was switched off, or the words of a
  conversion during which the mode changed; `steady` leaves those out.
* `Answered` is about hosts that send what `discovery_create_request` makes. The library
  offers it, but nothing in the repository calls it: the one place that asks,
  `discovery_server_send_request` (`discovery_udp_linux.c:219`), broadcasts a beacon, and
  no board answers that (`SendRequest`).

### Bounds, and why they are enough

* DMA: three packets and two time-outs let a late transfer be overtaken by another
  and the path stay behind by two; one restart leaves one descriptor to a
  successor that can still time out. `Word` is 5 in `dma_timeouts`, so that the
  counters wrap, and 16 in `dma_failures`, where they must not. Every
  safety property is proved without bounds.
* ProxyLifecycle: two devices, so that one goes while another stays; two channels,
  so that a failure can leave half a device; four bindings are both devices, gone
  and bound again; a second load starts the static variables afresh. Proved for any
  number of devices, channels and bindings.
* TapFinder: ten taps hold three runs of different lengths with room at both ends;
  the result is proved for all lengths.
* CmdThread: the sweep treats channels and taps alike, so two of each show
  everything in which neighbours could be mixed up; counters stop at 1, since the
  sweep only asks whether there were errors; one client with one write, before or
  after the restart. Safety is proved for all of these.
* StreamPacketizer: 16 cells hold up to four frames of one to three words (the limit for
  a packet is 5), so that a frame has a first, a middle and a last word, and both positions and the frame counts wrap several times while
  the buffer is partly full or full; 2^15 cells and 8192 words have the same
  relations (`SizeAssumption`). Three switches are off, on and off again.
* StreamSubsystem: frames of five words, one event in all-channel mode, stand for
  the 8190 (1638 events) that fit into a packet; 16 cells hold two such frames.
  Conversions come eight or nine clocks apart in any order, which includes the
  board's alternating eight and nine and is its fastest rate; a slower one leaves more
  clocks. Every conversion or every second one is streamed; the stream is switched once
  and the mode once, in any clock. The DMA engine stalls only between packets
  and until the buffer is full, since shorter stalls are covered by `packetizer`.
  The stream is switched on again only when source and packetizer have come to
  rest (`AtRest`): software takes microseconds for that. Proved for all sizes,
  decimations and numbers of switches, and for any conversion times the theorem names.
* Capture: thirteen samples are two windows of six (two to pass the delays, four
  in regions) and one beyond. Samples are 4 clocks apart instead of 8, which leaves
  less slack than the board has. A region is 8 clocks long and a report of 6 words
  with its header takes 7 and one idle clock: with one word more `NoReportLost`
  fails, as it does on the board with regions shorter than 15 samples or so
  (115 words).
* Discovery: one board and a host that also looks for another device. The network
  holds two beacons and three can be received, so a list of two is passed. The
  delays are 3 and 6, in the ratio of the code's 5 and 10 seconds.

### Fairness

* `dma_failures`: the engine serves a descriptor when a packet waits and runs its
  callbacks, and the scheduler runs the thread. Packets, failures and time-outs are
  not promised.
* `cmd_thread`: delay lines load, the ADC keeps converting (its `convert` input is
  tied high), the thread is scheduled and `usleep` returns. ZeroMQ queues requests
  and serves its peers in turn, hence strong fairness of receiving from each.
* `packetizer`: clocks without a word and with a ready reader come up again and
  again: the ADC delivers one word in several clocks, and the DMA drains the FIFO.
  `dma_thread` always has a transfer queued or is about to queue one.
* `discovery`: time passes, threads run, and a request of `discovery_create_request`
  sent for ever reaches the board's socket again and again (strong fairness: the network may lose any
  number of datagrams but not all). Requests meant for other boards are bounded by
  `MaxMisses`; without that they do starve a host, since the limiter is reset by
  requests the filters reject.

Deadlock checking is off where a behaviour really ends: the DMA runs (all packets
and time-outs used up), `tap_finder` (the function has returned) and `lifecycle`
(the kernel was given a class that is gone, or bindings are used up).

## 4. Proofs

All theorems are checked by TLAPS for every value of the constants.

* `DmaProxy_proofs`: `TypeCorrect`; `EngineInvariant`; `BufferIsQuiet`;
  `ImplementsFeed`; `ErrorsNeedATimeout`; `LossesAreCounted`. `TypeOK` alone is not
  inductive: a header names a packet of the stream only because cookies are issued,
  completed and called back in order and the buffer holds the newest completed packet
  (`EngineInv`). `QuietInv` adds that between wake-up and next submission the
  stored cookie is the newest one, so "complete" means nothing is in flight; that
  is where a failing submission breaks it, hence `MaxSubmitErrors = 0` in
  `BufferIsQuiet`. `FeedInv` (what was sent is whole and older than what comes)
  gives the refinement; a failing preparation makes the thread publish the old
  buffer again, hence `MaxPrepFailures = 0` in `ImplementsFeed`. `StepInv` counts
  signals, waits and callbacks while nothing has timed out and needs no assumption
  on failures. `LossesAreCounted` needs none either: each packet not yet sent or
  given up belongs to a call that has counted or is about to count a failure, and a
  cookie of -1 says that nothing was submitted. It speaks of counters that have not
  wrapped, as the property does. `TallyIsRight` has no such limit: the counters agree
  with what was sent modulo their width. `TallyInv` adds that a message's header is a
  packet of the stream and that the packet about to be sent is the one its header
  names. Sums over a sequence that grows would be a matter of induction; here two
  functions with the same recursive equation are compared at the least index where
  they differ, and `SamplesSent` has a value because there is no least index up to
  which the equation has no solution (`IsSum`, `SumsAgree`). `AddsUp` is the step:
  adding to a counter and adding to the sum, each taken modulo the width, stay equal.
* `ProxyLifecycle_proofs`: `TypeCorrect`, `ClassOutlivesNodes`,
  `RemoveLeavesNothing`, `BoundHasAll`, `OpenFilesAreBacked`. The invariant says what
  a device holds at each point of probe and remove (`Holdings`), that `total_count` is
  the number of complete channels (`Counted`, the one use of cardinalities), that
  they are all in the one class (`OneClass`), that probe and remove run one at
  a time (`Alone`), and for `OpenFilesAreBacked` which buffers a device has at each of
  these points (`HasMemory`).
* `TapFinder_proofs`: `MiddleReturned`, `GoodTapReturned`, `TypeCorrect`. The
  invariant says that `max_pos`/`max_run` is the first longest run among those
  closed and that the open run ends at the present tap.
* `CmdThread_proofs`: `CmdTypeCorrect`, `CountsAreOfTheirTap`, `ServesAtGoodTap`,
  `StreamsNoTestData`. The invariant follows the sweep: when a delay is in the line,
  which counts are fresh, which entries of the table are filled. `MiddleExists`
  (a first longest run exists, by a least counterexample) is what `ServesAtGoodTap`
  adds.
* `Capture_proofs`: `PacketsWhole`, from the invariant that the word on the wire is
  the one after those read, of the report that was latched; `TypeCorrect`, with
  `RegionLeft` (a cycle in progress has a region left), without which `region_cnt`
  could pass `Regions`. Neither depends on the spacing of samples.
  `ReportsInTime` does: with `RegionHoldsReport`, (RegionSize + 1) * Period >=
  Words + 2, the clocks a report still needs (`Left`) never exceed those until the
  next region can end (`Due`). `ReportsTheirRegion` says that the count of the
  control and that of the averaging, one clock behind, are about the same samples
  (`SameSamples`, `ReportIsRegion`), and where a report's time stamp comes from
  (`FirstStamp`). `SumsAreOfTheRegion` adds what the channel makes of these samples:
  `Collecting` says that the sums lack only the sample on its way through the
  multiplier, `Reported` that this one is the last sample of the region. All three
  assume that `cycle_cnt` does not wrap in a window (`WindowIsCounted`).
* `Discovery_proofs`: `TypeCorrect`, `HandsOutInOrder`, `SleepIsLongEnough`. The
  list's shape is an invariant over its pointers; where one would argue by induction
  along the list, the proof takes a least or a greatest counterexample. The limiter
  needs MinDelay <= Nap + 1 only: what the board remembers of its last answer and
  what is left of its sleep together reach `MinDelay`.
* `StreamPacketizer_proofs`: `TypeCorrect`, `BufferNotOverrun`. Positions are compared
  by their distance on the ring (`Gap`), which makes the arithmetic linear. `Layout`
  places the write side relative to the end of the closed frames, `Room` says what
  the two clocks old space check has granted, `OpenMarks` which words of the open
  frame are marked as last. `Whole` is what makes the read side stop in time: between
  `rd_pos` and that end are `n` whole frames, none of one word, and `n` is what the
  counts say although they wrap; without it `rd_pos` could run past the
  closed frames and the space check would mean nothing.
  `ImplementsFifo` is the refinement `FifoSpec`: `Content` adds to that invariant what
  the words of the open frame are: the samples from the third word on, then the header
  and the timestamp, and that `wr_cnt` is their number plus one, or plus two after a cut.
  A step of the read side takes the head of the queue or fetches a word into
  `out_tdata`, which does not change it (`ReadStep`); a step of the write side leaves
  the words between `rd_pos` and the end of the closed frames alone, or moves that end
  past a frame that is complete (`WordsStep`, `WholeFrame`).
  `HeaderRightWithoutCuts` is the other side of the run `packetizer_header`: with
  `Cuts` FALSE, that is when `ena` is low in `ST_DATA` only in a clock that takes a word,
  every header is right, so a cut between two words is all that is wrong. `HeadInv`
  says of the words still to be sent that each header among them announces its frame,
  that a header follows each last word (`Framed`), and that what is offered as first is
  a header (`Front`).
* `StreamSubsystem_proofs`: a step of source and packetizer is a step of the packetizer
  or leaves it alone, so its invariant holds behind the source as well
  (`SubsystemImplementsFifo`, `SubsystemNotOverrun`). `SubsystemTypeCorrect`;
  `TimestampsTell` and `ErrorsMarkSwitches` need conversions five clocks apart
  (`EventsApart`), the words of an event; the invariants follow the one conversion
  that is on its way through the source's registers (`Conversion`) and say that the
  clocks gone by since it are enough for its event to be over (`EventOver`).
  `LossesAreExplained` needs eight (`ConversionsApart`), which is the least that
  `ltc2387_deserializer` can be set to (`CONV_WAIT`, 17 half clocks), and frames of whole
  events (`WholeEvents`, which 8190 = 5 * 1638 words are); with frames of four words TLC
  finds the property violated. Its invariant says that the words of a frame and of the
  event are in step (`Aligned`), that the words of an event come right after their
  conversion (`Alone`), that no event begins while a frame is closed (`NoneBegins`), and
  which words can still come in the clocks the packetizer needs before it is ready
  again (`Pause`): the rest of an event, or in the last of them the first of the next.

Only model-checked: everything with fairness (liveness and `ENABLED` are beyond
the prover): the deliveries and returns of `dma_failures`, `cmd_thread`,
`packetizer` and `discovery`. Every safety property of the
passing runs is a theorem. That `IsMiddle` picks a unique tap is
not proved; nothing needs it.

## 5. Not modelled, and why

* Boot and board set-up code generated by the vendor's tools (`psu_init*`, device
  headers, the register maps): constant writes in a fixed order, by far the most
  lines of the repository. The FIFO, network and TI node cores are the vendor's too.
* TINODE start-up, the sensor thread and `main`: no state and no reply. The max30205
  driver reads a register and scales it.
* `START_XFER`/`FINISH_XFER` of the driver and a second opener of the device: no
  program of the repository uses them.
* `Max words exceeded` in `dma_thread` (`APP/task_dma.c:176`): a length of 16 bits never
  exceeds the buffer.
* Failures of `open` and `mmap` at start-up. `mmap` failing goes unnoticed
  (`MAP_FAILED` is not `NULL`, `APP/task_cmd.c:120`); the thread then faults.
* `num_samples = 0` in STREAM_CTRL and `ena_delay = 0` or `cap_region_size = 0` in
  the spare registers: the assumptions `SizeAssumption` and `CaptureAssumption`
  leave them out. With `num_samples = 0` a frame overruns the buffer; with
  `ena_delay = 0` the last region of a window goes on until the next trigger.
* A window longer than `cycle_cnt` can count: the model wraps at `CycleMod`, the
  run's window fits.
* Two writes of `spare_reg1` in neighbouring clocks: AXI writes from a TCP request
  cannot come that close.
* Pins, clock cells, DDR shifting in the deserializer, the word layout of beacons
  and packets, numbers in sums.
* Clock tree loading (`subsystem_clock`, `uwire_*`, `sequencer`): once after reset,
  constant words. Triggers and time stamps: an edge detector and a counter, inputs
  of `Capture`; `subsystem_trigger` has no body left, `trigger_delay` no instance.
* The remaining components of the inventory: see `PROJECT.json`.

## 6. Plan

Done, in this order: DMA path and `PacketFeed`; tap finder and calibration; stream
packetizer and `FrameFifo`; discovery and the list; averaging; the driver's life
cycle; the command server behind the calibration; the stream source before the
packetizer; the proofs above.

Next, modelling:

1. Loader and serializer of the clock chip, and the sequencer's time-outs.
2. An abstract specification of `Capture` (a one-place report buffer that drops
   what comes while it is full).

Next, proofs: that `Capture` implements that buffer; that at nine clocks or more the
second cause of `LossesExplained` never occurs.
