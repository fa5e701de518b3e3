# A TLA+ model of the MACsec datapath and its host driver

The repository is an FPGA prototype that encrypts Ethernet frames with
AES-128-GCM on their way from a Corundum network card to a 10G MAC, and
decrypts them on the way back. Corundum itself is vendored. The logic around it
is of two kinds, and this project models both:

* the hardware in `src/src/macsec`, where a frame is taken apart, its parts travel
  through queues and clock domains of their own, and are joined again by nothing
  but their order;
* the host driver in `src/tb/cocotb/mqnic.py`, a program of coroutines that shares
  rings, completion and event queues in memory with the card, each side
  learning late how far the other has come.

## 1. The system

### Components

| Component | Source | State it keeps | Operations | What makes it correct |
|---|---|---|---|---|
| Clock-crossing FIFO | `tb/cocotb/xpm_fifo_async_sim.v` (model of the vendor's FIFO) | ring, two pointers, each synchronised through two registers of the other clock | write edge, read edge, reset | no word lost, repeated or reordered while writes stop at full and reads at empty |
| AXI-Stream to ap_fifo bridge | `macsec/axis_to_ap_fifo_bridge.v` | packing FSM, one block, byte count, metadata slot and queue, three FIFOs | take a beat, end a frame, queue a length, write the FIFOs | blocks and lengths agree; none is dropped; a frame ends |
| Cipher wrapper, encrypt | `macsec/macsec_aes_encrypt.v` | FSM, packet number, blocks left | start, restart, read a block, finish | one packet number per frame, exactly the frame's blocks read |
| ap_fifo to AXI-Stream bridge | `macsec/ap_fifo_to_axis_bridge.v` | send FSM, byte count, held tag, four FIFOs | send low or high half, hand over the tag | payload of the announced length, tags in order |
| Tag append | `macsec/macsec_tag_append.v` | FSM, capture FIFO, held and current tag, output word | capture, wait for the tag, release payload, release trailer | a frame leaves whole with its own tag |
| Transmit wrapper | `macsec/macsec_tx_wrapper.v` | header being collected, queues of headers, EtherTypes, sidebands, packet-number sideband, output FSM, compactors | take a beat, pop and push the queues, send a beat | the parts of a frame meet again |
| Receive wrapper | `macsec/macsec_rx_wrapper.v` | like the transmit wrapper, plus a tag FIFO and a pending header | the same in the other direction | as above, with an input that cannot be stalled |
| Tag strip | `macsec/macsec_tag_strip.v` | FSM, capture FIFO, last 24 bytes | capture, output, drain, drop, wait for the tag | payload without trailer; the trailer's fields |
| Cipher wrapper, decrypt | `macsec/macsec_aes_decrypt.v` | FSM | start with a tag, finish | one tag per frame |
| FPGA core, MACsec part | `fpga/fpga_core.v` 719-1010 | three FIFOs per port | wiring | no frame cut or dropped |
| Host driver: rings | `tb/cocotb/mqnic.py` 583-1086, 1482-1581, 1780-1791 | per ring: two pointers, buffers in use; packet pool; queue of received packets; waiting calls | start_xmit, recv, recv_nowait, wait, process_tx_cq, process_rx_cq, refill | buffers neither lost nor reused early; frames in order; nobody waits for what is there |
| Host driver: events | `tb/cocotb/mqnic.py` 450-575, 1584-1611, 1771-1778 | event queue pointer, interrupt queue | interrupt, interrupt_handler, process_eq, arm | every completion leads to a call of its handler |
| Host driver: interfaces | `tb/cocotb/mqnic.py` 354-376, 476-515, 1159-1480 | tables of queues, port flag | init, open, close | the device never runs a queue with half a configuration or into memory that is gone |
| Host driver: register blocks | `tb/cocotb/mqnic.py` 379-420 | list of blocks | enumerate, find | ends on any memory, finds what is there |
| Queue managers, engines, scheduler | `fpga/common` (Corundum, vendored) | queue pointers, enable and arm bits, operation tables | enqueue, dequeue, commit, schedule | modelled as far as the driver sees them |
| PCIe, AXI, Ethernet libraries; PTP; statistics; board files | `fpga/lib`, `fpga/common`, constraints | | | not considered |

How they interact, on the transmit side:

    host ring -> Corundum -> tx_in_fifo -> MacsecTxWrapper ---------------- tx_frame_fifo -> MAC
                                             |  header, EtherType, sideband queues    ^
                                             v                                        |
                  split -> compactor -> bridge =(CDC)=> cipher =(CDC)=> bridge -> tag append

Port clock and cipher clock are unrelated (`hls_clk` is port 0's transmit clock;
port 1 and both receive paths have clocks of their own), so everything that
crosses is seen late. Each clock has its own reset.

On the host's side, for each ring:

    start_xmit / refill -> descriptor ring -> device -> completion queue -> event queue
          ^                                                                     | interrupt
          |  space, packets                                                     v
    waiting calls <- process_tx_cq, process_rx_cq <- process_eq <- interrupt_handler

What the driver tells the device are register writes. They are posted: the
coroutine goes on later, and the device sees them in the order they were made.
What the device tells the driver are records in memory with a phase bit, written by
DMA in order, and interrupts, which may arrive before the record they announce.

### What is hard here

* Parts of one frame in three to six queues with no common index: an entry
  lost or duplicated in one of them silently gives every later frame another
  frame's header, tag, length or sideband.
* Decisions taken on flags that are one or more cycles old: full flags
  across clock domains, a registered write decided a cycle earlier, queues
  popped a cycle after their head was used.
* Two counters of packet numbers, one per clock domain.
* Store-and-forward at several places, each waiting for another.
* Ready signals that are combined differently at the two ends of a handshake.
* Coroutines that test something, suspend in a register access and act on it
  afterwards; events (`clean_event`, `pkt_rx_sync`) that wake several waiters for one
  thing.
* Pointers of a ring that exist in five versions: the driver's, the one posted,
  the device's, the one its completions stand for, and the one the driver has
  concluded from them.
* Arming: a queue that is armed too late or twice is forgotten or announced twice.
* Queues opened and closed register by register while the device runs.

`PROJECT.json` lists these hazards line by line, with the properties that cover
them, or the reason why none does yet.

## 2. What is modelled

### `CdcFifo`

A FIFO as a record: all words ever written, the number read, and both numbers
as they travel through the synchronisers. `WrEdge` and `RdEdge` are an edge of
either clock; a write at full is dropped, a read at empty ignored, as in the
code. A number that has gone through a two-register synchroniser is an old
value of the counter; the Gray code that makes this so is not modelled yet.

### `AxisToApFifoBridge` (with `MCAxisToApFifoBridge`, `AxisToApFifoBridgeProofs`)

All registers of the bridge. A `MacEdge` is one edge of `mac_clk`: the packing
FSM (one action per state and phase: `IdleBeat`, `FirstBeat`, `HoldBeat`,
`FrameEndFlush`, `FrameEndWait`, and `NoBeatTaken` for cycles without a
handshake), the metadata process (`MetaEdge`) and the write side of the three
FIFOs, all in one step from the old values. An `HlsEdge` is one edge of
`hls_clk`: the cipher pops a length with its end marker, or a block, or both. A
beat is named by frame and position, so a misplaced block is visible. `ended` is
a history: length and block count of every frame that ended.

Of the cipher the bridge relies on this (`macsec_aes_encrypt.v`): it pops a length
together with its end marker, only when it owes no block of an earlier frame, and
then as many blocks as the length announces.

### `MacsecTagAppend`, `TagAppendBench` (with `MCTagAppendBench`, `TagAppendBenchProofs`)

`TagAppendEdge(beat, tag, ready)` is one clock edge of `macsec_tag_append` with
the inputs of the cycle. An output word says which payload beat it holds and which
trailer bytes of which tag. The bench offers beats and tags in frame order at
unrelated times, and a sink that may be busy in any cycle; it records what was
captured and what was released. `IInv` says what each state of the FSM holds of the frame in
hand.

### `MacsecTxWrapper` (with `MCMacsecTxWrapper`, `MacsecTxWrapperProofs`), `SealedLine`

`MacsecTxWrapper` composes tag append with the rest of the wrapper. One `MacEdge`
is one edge of `mac_clk` with four inputs: the host's beat, whether the return
bridge shows a payload beat and whether it shows a tag, and `m_axis_tready`. It
advances the header collection, the queues of headers, EtherTypes and sidebands
with their late pops, the packet-number sideband, tag append, the output FSM
and the output compactor's fill level. `Encrypt` is the cipher finishing a frame
in the other clock domain.

The payload's way to the cipher and back is two queues of frames, with an
arbitrary delay in each. That is what the bridge's own properties justify
(lengths and blocks in order, aligned, none lost, every frame completed) as long
as a payload fits the bridge; what happens otherwise is shown by `bridge_long`.

`SealedLine` is the abstract specification: a line that takes frames and hands
them on in the same order, each sealed once, under the packet number of its
place in the line. `Sealed(f, k)` in the wrapper says what a sealed frame is:
own header, whole payload, trailer with own EtherType and tag and the packet
number the tag was computed with, own sideband throughout.

### `PacketPool`, `CplQueue`

Operators for the two things all rings share: the pool of packet buffers
(`alloc_pkt`, `free_pkt`, a deque of free buffers) and a queue of records with a phase
bit in host memory, as the device fills and the driver reads it. That no buffer is free
twice is `IsInjective`, and the set of free buffers `Range`, of the `Functions` module.

### `TxRing` (with `MCTxRing`, `TxRingProofs`)

A transmit ring, its completion queue and the device behind it. Code between two
awaits that suspend is one action: `StartXmit` and `Resume` (with `Enqueue` and `Wait`
as outcomes), `ProcessCq` up to `await cq.write_cons_ptr()` and `ProcessRing` behind it.
`Abandon` is the timeout tests put around a call. The device is `ApplyWrite`,
`Fetch`, `Transmit` and `Deliver`. `accepted` and `wire` are histories. The
completion handler may run at any moment the port is up, also with nothing new.
The abstract specification is again `SealedLine`, with frames left as they are.

### `RxRing` (with `MCRxRing`, `RxRingProofs`)

A receive ring from `Rxq.open` on: filling (`OpenRing`, `Refill`), frames that
find a descriptor or are dropped (`Receive`), their way to memory
(`Complete`, `Deliver`), the handler in two steps, and tasks that call `recv`,
`wait` and `recv_nowait`. Frame and completion record travel together, in order. The
ring implements `SealedLine` from the frames that found a descriptor to the
packets handed to readers.

### `MqnicEvents` (with `MCMqnicEvents`, `MqnicEventsProofs`), `CompletionService`

Completion queues as counters, one event queue, one interrupt:
`interrupt_handler`, the loop of `process_eq` with its two suspensions per event, and
on the device's side firing, arming and the event FIFO. An interrupt may overtake
the event record. An event that meets a full event queue is dropped, as in
`cpl_queue_manager.v`; `dropped` is a history. `CompletionService` is what it is all
for: every completion is handled, unless the port goes down or an event was
dropped.

### `MqnicInterface` (with `MCMqnicInterface`, `MqnicInterfaceProofs`)

`Interface.init`, `open`, the port control of `Port` and the first part of `close`, one
register write after the other. The driver cuts the numbers of queues to its limits
(`MQNIC_MAX_EQ`, `MQNIC_MAX_CQ`, `MQNIC_MAX_TXQ`, `MQNIC_MAX_RXQ`: `EQ_COUNT` and its like);
`Queues` are those it manages, `DeviceQueues` all of the device, which the repository's
test has 64 event, 8192 transmit and 256 receive queues of. `Leftover` lets every queue of
the device be in any state: enabled, armed, with work, pointing at any queue, event
queues with records and interrupts on their way. `init` disables the queues it manages
(its comment says "ensure all queues are disabled", `mqnic.py:1377`) and never touches the
others. Writes to the configuration of an enabled queue are ignored, as in the
hardware. Of a queue's registers the model keeps which of them this driver has
written, and the number of the queue it points at. The device takes completions on enabled queues
all the while. `IInv` ties the registers to the accesses applied so far.

`interrupt_handler` runs beside the calls. While the interface is not in the driver's list
it takes an interrupt and does nothing (`IgnoreInterrupt`); from `InitDone` on it goes
through the event queues (`TakeInterrupt`, `ProcessEq`, `ArmEq`), and as long as the port is down
`process_eq` returns at once and only the arm is posted. Its arms travel in `arms`
beside the calls' accesses in `mmio`: the model does not fix the order of the two, which
allows more than the bus does. When the handler finds the port up it stops
(`Serving`): from there on `MqnicEvents` has the event path, and `InterruptKept` and
`PathsOpen` say what it starts from.

A ring beyond the driver's limits that another driver left running may report to a completion
or event queue this driver opens; `Intruders` are those rings. A device has none
after its reset, nor after a driver with the same limits. With them the code has no defence: TLC finds that
`EventsHaveHandlers` (a `KeyError` at `mqnic.py:572`), `InterruptKept` and the last clause of
`PathsOpen` (the event queue's only interrupt is used up before the interface is
listed) fail without the condition `Intruders = {}`, and `NoMixedConfiguration` without
its `p \in Queues`. The comment of line 1377 is therefore true only up to the driver's limits.
`NothingLost`, the clauses of `PathsOpen` on the rings' own paths and the first of
`NoMixedConfiguration` hold with such rings too.

### `RegBlocks` (with `MCRegBlocks`, `RegBlocksProofs`)

`enumerate_reg_blocks` and `find` over every memory of a few block offsets.

## 3. The runs

| Run | Shows | Distinct states |
|---|---|---|
| `bridge` | Four frames of up to three beats through FIFOs of two words: no length dropped, the cipher aligned, blocks in place, every frame packed to its end; and the invariant of the proofs | 212,210 |
| `bridge_long` | violation: a frame with one block more than the plaintext FIFO holds is not packed to its end | |
| `tag_append` | Three frames, tags at unrelated times, a busy sink: frames leave whole with their own tag; a captured frame is released | 8,277 |
| `tx_wrapper` | Four frames, sink always ready: the parts of a frame meet again, also across a wrap of the packet number; the wrapper implements `SealedLine`, liveness included; and the invariant of the proofs | 77,890 |
| `tx_backpressure` | violation: back-pressure duplicates words | |
| `tx_runts` | violation: a header-only frame disappears | |
| `tx_ring` | Two tasks, five calls, a ring of four of which two descriptors may be in use: the ring implements `SealedLine`; no completion dropped, no assertion fails, buffers are owned, no call waits for ever; and the invariant of the proofs | 86,422 |
| `rx_ring` | Five frames, two readers and a polling task: the ring implements `SealedLine`; it is kept full, no wakeup is lost and none is false; and the invariant of the proofs | 135,999 |
| `events` | Two queues with three completions each, an event queue of three records: one event per queue, one interrupt, every completion handled; and the invariant of the proofs | 900,775 |
| `interface` | A transmit and a receive ring on a device with a transmit, a completion and an event queue more than the driver manages, left with any of its queues running: what device and interrupt handler may do while the queues are opened; and the invariant of the proofs | 259,767 |
| `interface_close` | violation: buffers freed while their rings are enabled | |
| `reg_blocks` | Every memory of three offsets: the enumeration ends and finds the blocks of the chain | 46,080 |

### Bounds and why they are enough

* FIFO depths of 2 (16 and 256 in the code) let a FIFO fill and drain several
  times with four frames, which is when the late flags matter. The bridge's safety
  is proved for all depths.
* `MAX_BEATS` 3 in `bridge`: frames that end on a half block and on a full one,
  one and two blocks, with last beats of one and of eight bytes; two blocks are
  exactly what the plaintext FIFO holds. In `bridge_long` 5 beats are one block
  more.
* `tag_append`: payloads of one to three beats; last beats of 1, 3 and 8
  bytes make the trailer start at different offsets and take three or four words
  together with the payload's last. That frames are released whole is proved for any
  depth, length and number of frames.
* `tx_wrapper`: four frames with queues of two; `PN_LIMIT` 3 (2^32 in the code)
  so that packet numbers wrap; last beats of 6, 7 and 8 bytes: with a header of
  14 bytes a two-beat frame then has no payload (only in `tx_runts`), one byte, or
  two bytes, and longer ones fill or leave over part of the compactor. Its safety is
  proved for queues of any depth, frames of any number and length, and any width of the
  packet number.
* `CAPTURE_DEPTH` is at least the longest payload of the run.
* `tx_ring`: `SIZE` 4, so that half a ring is two descriptors, with a completion
  queue of two records, the smallest allowed (1024 and 1024 in the code); five calls
  go once around the ring and more than twice around the completion queue, so
  that slots, buffers and phase bits are used again. Its safety is proved for all
  sizes.
* `rx_ring`: ring and completion queue of 4 with `MIN_REFILL` 2 (1024 and 8): five
  frames refill at least twice and wrap. Two readers and a poller are enough for two
  to be woken for one packet. Its safety is proved for all sizes and any number of
  readers and frames.
* `events`: two queues are enough for events to queue behind one another; three
  records in the event queue are the fewest with which it holds an event of each
  queue and one more, and overflows only while `process_eq` has events it did not
  report. Three completions per queue let a queue be handled, armed, and
  fire again while its last event is still being handled. Safety is proved for any
  number of queues and completions and any size of the event queue.
* `interface`: one ring of each direction that the driver manages, and one transmit, one
  completion and one event queue more on the device, so that a ring of another driver
  can run beside them, alone or into their queues; two posted accesses at a
  time. The driver's limit of one event queue is the code's. `MCInit` leaves enabled any
  rings, all or none of the other queues the driver manages, any completion queue and
  every event queue beyond the limits; what is enabled is armed or has work, all queues
  of a kind have one target, and another interface's interrupt is only at the end of a
  path beyond the limits. The proofs are about all of `Leftover`, any number of
  queues, limits and posted accesses, and several event queues.
* `reg_blocks`: three offsets give chains of one to three blocks, loops of every length
  and pointers that are not aligned. That the list holds the chain, and that `find` finds
  the right block of it, is proved for any set of offsets.
* `MAX_POSTED` only keeps the handler, which may run with nothing to do, from posting
  without end.

`CHECK_DEADLOCK` is off in all runs: behaviours are bounded by `MAX_FRAMES`, and when
all frames have left nothing is left to do.

### Fairness

* Clocks run: weak fairness of `MacEdge`, `HlsEdge` and `Encrypt`.
* Bridge: the source has the next beat of a frame it has begun (strong
  fairness of taking a beat, since room comes and goes): Corundum's transmit FIFO
  hands over whole frames. The cipher takes a length and a block whenever it can:
  its FSM starts as soon as its inputs are there.
* Tag append: a tag offered stays offered until taken (the return bridge holds
  `icv_valid` until it sees ready), and the sink is ready infinitely often.
* Wrapper: what is on its way back from the cipher is shown again and again
  until it is taken. The host owes nothing.
* Rings and events: the simulator's scheduler runs a coroutine whose trigger has
  fired (weak fairness of the handlers' steps and of woken calls), posted writes,
  records and interrupts arrive, and the device carries on with what it has. Nobody
  has to call `start_xmit`; readers keep calling `recv`. In the ring modules the
  handler is called again while there is a record it has not seen, which is what
  `MqnicEvents` shows.
* Register blocks: the enumeration goes on.

## 4. Findings

1. **Long payloads stop the port** (`bridge_long`). The cipher waits for a length,
   which exists only after the last beat, which needs room in the plaintext FIFO.
   With 256 blocks of 16 bytes that is a payload above 4096 bytes; tag append's
   capture FIFO (512 beats) has the same limit. The transmit parameters allow
   9214 bytes and `docs/PERFORMANCE.md` gives a throughput for frames of 9000.
2. **Words repeated under back-pressure** (`tx_backpressure`). A word of the
   encrypted frame enters the compactor when the compactor is ready but leaves tag
   append when `m_axis_tready` is high; each cycle with only the first adds a copy.
   It needs the frame FIFO behind the wrapper to fill, as it does while the MAC is
   paused.
3. **Header-only frames disappear** (`tx_runts`) and leave their sideband
   behind for the next frame; after 32 of them the input stays blocked.

4. **close does not stop the rings** (`interface_close`). The calls of `q.disable()` lack
   an `await`, so the coroutines never run; the wait behind them waits for nothing,
   buffers are freed under rings the device has enabled, and the next statement
   awaits something that is not awaitable and raises.

`TuserFollowsFrame`, `TagMeetsItsFrame` and the refinement are therefore stated, in
the passing run of the wrapper, under two conditions that name findings 2 and 3:
`BACKPRESSURE = FALSE` and `RUNTS = FALSE`. `TagMeetsItsFrame` turned out to need neither:
it is proved for the wrapper as it is. `SentWhole` and `FramesAccountedFor`, which the
runs of findings 2 and 3 refute, are proved under the two conditions, so that frames are
damaged or lost in no third way that the model knows.

Not a run of its own: `src/docs/PROJECT_HISTORY.md:96` describes the transmit path as
having a single frame in flight. Only tag append handles one at a time; the wrapper
takes further frames, up to the depth of its queues, while one is being
encrypted. That is harmless as long as the queues stay in step, which `tx_wrapper`
shows.

## 5. Proofs

Eight modules hold proofs, one for each component they are about:
`AxisToApFifoBridgeProofs`, `TagAppendBenchProofs`, `MacsecTxWrapperProofs`, `TxRingProofs`,
`RxRingProofs`, `MqnicEventsProofs`, `MqnicInterfaceProofs` and `RegBlocksProofs`. Every
safety invariant of a passing run is a theorem, for all values of the constants. The
lemmas on slots, turns and phase bits (`Turns`, `NextTurn`, `WithinTurn`, `EverySlot`,
`PhaseFacts`) stand at the head of each module that counts around a ring; packet numbers
wrap in the same way.

### The bridge

`AxisToApFifoBridgeProofs` proves, for all depths, frame lengths, last-beat sizes
and numbers of frames allowed by the assumptions, that

* `BridgeInvariant`: `Spec => []IInv`, and from it
* `TypeCorrect`, `NoLengthIsDropped`, `MetaSlotIsFree` (the slot in front of the
  metadata queue is never overwritten; no run checks it separately),
  `LengthsArriveInOrder`, `CipherStaysAligned`, `FramesArePacked`.

Assumptions (`DepthAssumption`): depths are natural numbers, the plaintext FIFO
holds at least one block, the metadata queue at least two lengths, and the
length FIFO is at least as deep as the plaintext FIFO (both 256 in the code). The
last is the one that matters: it is not written down in the code.

The argument. None of the properties is inductive. `IInv` adds

* `Lockstep`: the length and the end FIFO are always in the same state;
* `InFlight`: what the slot, the queue and the registered write hold are the
  lengths of the newest frames, in order;
* `Cumulative`: every ended frame has at least one block, and as many as its
  length announces;
* `Packing`: per FSM state, how the byte count relates to the blocks packed;
* `Snapshots`: at each stage of the synchronisers, the number of blocks known to be
  read is at most that of the frames whose length is known to be read;
* `MetaTiming`: a frame takes the FSM so long that its length has left the slot
  before the next is announced, and the queue holds one length at most;
* `Packed`: every beat taken, those of the current frame included, is in its place, a
  half of a block in the plaintext FIFO or of the block being packed.

The core is the lemma `Outstanding`: the frames whose length the write side does
not yet know to be read have at least one block each, and of those at most
`PLAIN_CAP` are in the FIFO and one waits in front of it. So there are never more
of them than the length FIFO holds and one, which is why the full flags tested a
cycle early never lie, and why the metadata queue does not fill. In fact the test
of the full flags before the registered write never decides anything at these
depths. Alignment follows from `LengthsInOrder` and `Cumulative`.

`NextInv` proves that a step preserves `IInv`, one lemma per action of the FSM and
one for the cipher's edge; `WrEdgeFacts` and `RdEdgeFacts` are all that is used
about FIFOs.

### The transmit ring

`TxRingProofs` proves, for every `SIZE`, every completion queue of at least half of it,
every set of tasks and every number of calls (`TxRingAssumption`), that

* `TxRingInvariant`: `Spec => []IInv`, and from it
* `TxTypeCorrect`; `NoCompletionIsDropped`; `DriverAssertionsHold`;
  `BuffersAreOwned`; `WireIsInOrder`: what was sent is a beginning of what was
  accepted;
* `RingStepsAreLine`: the safety half of the refinement of `SealedLine`.

The assumption that matters is `full_size <= CQ_SIZE`; the code gives ring and completion
queue the same size, so that it has a factor of two to spare.

The argument. `IInv` of `TxRing` says

* `Pointers`: the versions of the ring's pointer are ordered, `cons_ptr`,
  `cq_cons_ptr`, records delivered, frames sent, descriptors fetched, `hw_prod`,
  `prod_ptr`, and the outermost two at most `full_size` apart;
* `Posted`: posted writes of a register rise from the device's value to the
  driver's, and every posted producer pointer has in front of it, or already applied,
  a consumer pointer of the completion queue that makes room for all it stands for
  (`RoomKnown`);
* `Records`: the records between `cq_cons_ptr` and what is delivered carry the phase
  of their turn and the index of their descriptor, those beyond do not carry it, up
  to one turn;
* `InUse`: `tx_info` is set exactly between `cq_cons_ptr` and `prod_ptr`, descriptors not
  yet fetched name the same buffer, and buffers not yet sent hold their frame;
* `BuffersOwned`, `BuffersCounted`, `WireInOrder`.

None of the properties is inductive. `NoCompletionDropped` needs `Posted`, because
what the device compares its producer pointer with is what has arrived, not what
the driver knows; `AssertionsHold` needs `Records` and `InUse`; `BuffersOwned` and
`InUse` need one another. `CqEnd` and `RingEnd` are the lemmas on the handler's two
loops: they stop exactly at the records delivered and at `cq_cons_ptr`. The arithmetic
of slots and turns is in `WithinTurn` (two pointers less than a turn apart have
different slots), `NextTurn` and `EverySlot`. Then there is one lemma per action.

### Events

`MqnicEventsProofs` proves, for every finite set of completion queues, every size of
the event queue and every number of completions (`MqnicEventsAssumption`), that

* `EventsInvariant`: `Spec => []IInv`, and from it
* `EventTypeCorrect`; `QueuesAreAnnouncedOnce`; `InterruptsAreRaisedOnce`;
* `EventQueueFull`: an event is only lost while one call of `process_eq` has handled,
  without reporting it, all but as many events as there are completion queues;
* `EventStepsAreService`: the safety half of the refinement of `CompletionService`: every
  step makes a completion, handles some that were made, in the order of their queue, or
  changes nothing of the service.

The argument. `OneEventPerQueue` counts tokens: a queue's arm bit, its events in the
event FIFO, on their way and in memory, and its arming on its way. Every action moves
a token or leaves all where they are, but only if

* `EventPointers`: the event queue's pointers are ordered, device's consumer,
  `cons_ptr`, the loop's own, records in memory, and the loop's own stands still while
  the handler works on a queue;
* `EventRecords`: the records between the loop's pointer and what is in memory carry the
  phase of their turn, those beyond do not, and the rest arrives in the order of
  the pointers. This is what makes the loop stop exactly behind the last record,
  so that no token is left behind or taken twice;
* `CompletionRecords` and `Reports`: completions and posted consumer pointers arrive
  in order, so that the test for an empty queue when it is armed is made with what the
  handler saw: a completion that came after it fires at once.

`Tokens` counts the places in sequences that grow at one end and shrink at the
other (`CountAppend` and `CountTail` are the lemmas on that). For `EventQueueFull` the
events not yet handled are mapped one to one into the queues they belong to, since
two of one queue would be two tokens, so there are at most as many as queues.

### The receive ring

`RxRingProofs` proves, for every `SIZE`, every completion queue at least as long, every
`MIN_REFILL` up to `SIZE`, every set of readers and every number of frames
(`RxRingAssumption`), that

* `RxRingInvariant`: `Spec => []IInv`, and from it
* `RxTypeCorrect`; `NoCompletionIsDropped`; `DriverAssertionsHold`; `BuffersAreOwned`;
* `RingIsKeptFull`: at rest, fewer than `MIN_REFILL` descriptors are missing;
* `NoWakeupIsLost` and `RecvHasPacket`, about tasks that wait for a packet;
* `RxStepsAreLine`: the safety half of the refinement of `SealedLine`.

Here ring and completion queue may be equally long but no less: a receive ring is filled
to its last descriptor, so that `SIZE <= CQ_SIZE` is needed and the code's equal sizes
leave nothing to spare.

The argument has the parts of the transmit ring's (`Pointers`, `Posted` with `RoomKnown`,
`Records`, `InUse`), and

* `Frames`: a frame that has a descriptor and is not yet taken by the driver is in the
  engine, on its way to memory or in its buffer, at the place its pointer gives;
* `TakenInOrder`: what the readers took and what is queued for them is what was received,
  up to the driver's pointer;
* `WokenForPacket`: while a reader is woken there is a packet, unless another task took
  one since (`overtaken`).

`RingKeptFull` follows from `Pointers`, whose last part says that an idle handler
has left at most `MIN_REFILL - 1` descriptors missing, and from `Records` and `Posted`:
at rest the handler has seen every record and the device every write. The steps that
cost the most are the two loops of the handler: `ProcessCqStep` (which frees and copies) and
`RefillStep`, where `AllocPkts` says that buffers taken one by one from the pool, or
made new, are different from one another and from those in use.

### The interface

`MqnicInterfaceProofs` proves, for any number of queues of the device, any limits of the driver,
any number of posted accesses and any state another driver left any queue in
(`MqnicInterfaceAssumption`: an event queue, a transmit ring and, among the queues the driver manages, at least
as many completion queues as rings), that

* `InterfaceInvariant`: `Spec => []IInv`, and from it
* `ConfigurationsAreWhole`: no queue of the device runs on a mixture of two drivers'
  configurations, and of those the driver manages none runs on another driver's beside
  one that runs on its own;
* `CompletionsFindTheirWay`: what a ring of this driver completes while others are still
  being opened is taken by its completion queue and its event queue, whatever rings
  beyond the limits do;
* `PathsAreOpen`: the port is only switched on when every ring has a whole path of its own;

and in every state without `Intruders`

* `HandlersAreThere`: every event names a queue that has the handler of its own ring;
* `InterruptsAreKept`: until the handler finds the port up, an event queue that has events
  has an interrupt, a turn of the handler or an arm still to come;
* the last clause of `PathsAreOpen`: an event queue that is not armed has one of these to come.

The argument. `init` and `open` make one long, fixed sequence of accesses. The proof
numbers it, and the core of the invariant says that what is posted is the piece of
the sequence between the access the device has applied last and the one the driver makes
next, until the port is switched on. So the registers are a function of the first of the two numbers: a register has its
new value just if an access that writes it is among those applied. That only holds because
every queue the driver manages is disabled before it is configured and enabled last,
since writes to an enabled queue are ignored; and disabling comes for all of them before
anything is configured. `DriverTypes`, `HandlerTypes`, `DeviceTypes`, `Objects`, `Stages`,
`Handler`, `Pending`, `Registers` and `Announcing` are the parts of it that hold on any device:
of the queues beyond the limits they only say that this driver has written nothing there. `Announcing` says
that an opened completion queue is armed or announced, whoever reports to it.
`EventQueues` and `CompletionQueues` hold without `Intruders`: no event queue has an
event before a ring of this driver runs, because its records are cleared while it is
disabled and nothing else reports there; and an event queue with work, or one that is
not armed, is `Watched`. No step changes `Intruders`, since nothing this driver
does reaches the registers of queues it does not manage (`SameIntruders`). The handler's steps keep `Watched` by
passing it on: interrupt, turn, arm, and an arm that reaches a queue with work fires
again (`HandlerStep`, `ApplyArmStep`). The properties follow from the order of the
accesses in the sequence: event queues before completion queues before rings, the handler
entered into a table before the access that makes its use possible.

### Tag append

`TagAppendBenchProofs` proves, for every depth of the capture FIFO, payloads of any length
and any last beats of one to eight bytes, any number of frames, tags at any time and a sink
that may be busy in any cycle (`CaptureAssumption`, `BenchAssumption`), that

* `TagAppendInvariant`: `Spec => []IInv`, and from it
* `TagAppendTypeCorrect` and `FramesAreReleasedWhole` (`ReleasedWhole`).

`IInv` says whose tag is held and whose is in use (`TagsHeld`: the tags taken are those of
the frames released, of the one on its way out and of the one held), and, per state of
the FSM, what is left of the frame in hand: `Capturing`, `Waiting`, `Releasing` (the capture FIFO
holds the beats behind the one in the output register, whose flags say whether it is the
last and how many trailer bytes it carries) and `Trailing` (the index into the trailer is
that of the word in the output register). `PayloadWords` and `TrailerWords` say what the
words of a frame are, `WordLeaves` and `FrameLeaves` what a handshake of the output does to
the frame released so far; then there is one lemma for each state. TLC was asked about
`IInv` on the bounds of `tag_append`, where it holds; that run keeps only `ReleasedWhole`,
which is the part of it that speaks of frames.

### The transmit wrapper

`MacsecTxWrapperProofs` proves, for queues of any depth, any number of frames of any
length, any last beats of one to eight bytes and any width of the packet number
(`WrapperAssumption`, `CaptureAssumption`), without a further condition,

* `SideInvariant` and from it `WrapperTypeCorrect` and `TagsMeetTheirFrames`: a tag never
  meets another frame's EtherType or packet number, with back-pressure and header-only
  frames too, and also after packet numbers wrapped;

and under `~BACKPRESSURE` and `~RUNTS`, without which findings 2 and 3 refute them,

* `SidebandsStay`; `FramesLeaveWhole`; `FramesAreAccountedFor`;
* `WrapperStepsAreLine`: the safety half of the refinement of `SealedLine`.

`WrapperInvariant` is `Spec => []IInv`, where `IInv` is `Side` and, under the two
conditions, `Flow`. Both say where in the line of accepted frames each queue is: every
queue is a window of it, and the windows of different queues are tied to one another by
counts of frames that have passed a point (`encrypted_frames`, `captured_frames`,
`started_frames` and others). A queue that is popped a cycle after its head was used
is a window that begins one frame early while the late pop is outstanding.

* `Side`: `CipherInOrder`, `TagsInOrder`, `EthertypesInOrder`: payloads before the cipher,
  tags behind it with the packet number of their place, and EtherTypes, of the frames
  that have a payload. These hold whatever the output does, because tag append takes
  tag, EtherType and packet number in one step.
* `Flow`: `PayloadsInOrder`, `HeadersInOrder`, `TuserInOrder` are the windows that meet at the
  output; `Numbered` says that without header-only frames a frame's number is its
  place; `TagAppend` gives for each of its states what is in the capture FIFO, which tag
  it holds, and how much of the frame it has released; `Output` says that what of the
  frame has left is a prefix of `Sealed`; `Compactor`, that between frames the
  compactor drains and in a frame it never refuses a beat. With a sink that is always
  ready this is why the two different ready signals of finding 2 agree.

`OutputMoves` reduces an edge of the output to five moves (idle, start of a frame, end of
the header, a word, end of the frame), and each part of `Flow` is proved from those.
The proof also corrected the model: the next state of the output FSM was first written as
a `CASE` with overlapping guards, in which TLC takes the first and the logic any; the
code is a chain of `if` and `else`, and so is `OutputEdge` now.

### Register blocks

`RegBlocksProofs` proves, for any set of offsets, types and versions and for every
memory, `EnumerationInvariant` and from it `ListHoldsChain`: when the enumeration ends, the
list holds exactly the blocks of the chain, each once, and an assertion of the loop
fails only where the chain has no end. The chain is the least set of offsets that has
the first and is closed under the pointers; the invariant says that the list is linked,
without repetition, and part of every such set (`Linked`, `Position`, `GoesOn`, `Least`).

`FindReturnsNth` proves `FindIsNth`: for any list, `find` returns the block that matches and has
`index` matching blocks before it, and nothing behind the last. `find` is a recursive function, as the
code is a loop, so this takes two inductions on the list: one that the loop has only
one result (`LoopsAgree`, from the end of the list on), one that a block with the right count
exists (`HitExists`). The provers cannot instantiate the library's induction theorems, which
take a predicate; `SetInduction` is induction for a set of numbers, and follows from the
well-foundedness of `<` on the naturals, which the library states for sets. That a result
exists at all is shown by giving it explicitly (`Answers`, `AnswersAreLoop`).

### Only model-checked

All liveness, which the provers do not treat: `FrameCompletes`, `CapturedIsReleased`,
`CallsFinish`, `Terminates`, and the liveness halves of the refinements of `SealedLine`
(`LineOfSealedFrames` and those of the rings) and of `CompletionService`
(`EventsAreService`). The four violations are TLC's counterexamples.

## 6. Not modelled, and why

Resets in the middle of traffic (planned, section 7). The ring and Gray code inside
the asynchronous FIFO (planned). The `SAME_CLK` variant and the `tkeep = 0`
branches of the bridge, which no instance uses or reaches. The wrapper's bypass with
protection off, a constant. Frame bytes: header, EtherType, payload and tag are
named by the frame they belong to, except for the order of trailer bytes. The
cipher's arithmetic. The Corundum, PCIe, PTP and Ethernet code, which is vendored,
except for what the driver sees of the queue managers and engines.
Clocks have no relation in frequency; nothing depends on timing in seconds.

Of the driver: the edge-triggered interrupts of the AXI device (the loop
that `Driver.init_axi_dev` starts never updates `last_val`, `mqnic.py:1762`, and
`Interrupt.from_edge` has no user); in `MqnicEvents`, several event
queues on one interrupt, which `interrupt_handler` treats one after the other (the driver's
limit is one; `MqnicInterface` has them until the port is up); the
parts of `close` behind the exception it raises, and the close methods of the
queues, which nothing else calls; work the device began before `init` for a former
driver and ends after it, which the device gives no way to wait for; PHC and PTP,
flow control, RSS registers and the getters, which keep no state. Pointers are
natural numbers as in Python; the device has 16 bits of them, and compares only
pointers that are at most a ring apart. `MqnicInterface` assumes as many completion
queues as rings, which the card's parameters give (`CQN_WIDTH`, `fpga_core.v:67`), and the
driver's limits keep (`MQNIC_MAX_CQ` is twice `MQNIC_MAX_TXQ`, 64 for 32 and 8 rings).
Another driver's scheduler and its rings' memory are not modelled: a ring that is left
running completes whatever work it has. `start_xmit` with a frame of `max_tx_mtu` bytes
or more, which its assertion ends before anything changes.

## 7. Plan

Modules, in this order:

1. *Done:* `CdcFifo`, `AxisToApFifoBridge` with proofs; `MacsecTagAppend` with its
   bench and proofs; `SealedLine`, `MacsecTxWrapper` with proofs.
2. *Done:* `PacketPool`, `CplQueue`, `TxRing` and `RxRing` with proofs,
   `CompletionService`, `MqnicEvents`, `MqnicInterface` and `RegBlocks` with proofs.
3. The receive path: `MacsecTagStrip` with a bench, then `MacsecRxWrapper`
   (header, EtherType and tag queues, dropped headers, an input that does not wait)
   against an abstract line that opens sealed frames.
4. `MacsecAesEncrypt` and its composition with the bridge: the cipher's FSM
   implements the contract `HlsEdge` states. `ApFifoToAxisBridge`: its FSM
   implements the return queues of the wrapper.
5. `XpmFifoAsync`: ring and Gray-coded pointers, shown to implement `CdcFifo`; with
   resets of one side.
6. The keep compactors byte by byte, and the frame FIFOs of `fpga_core`.
7. Resets of either clock domain: packet numbers and queues afterwards.

Theorems: the invariants of the modules to come, and that `XpmFifoAsync` implements
`CdcFifo`, on which the proofs about the bridge then rest.
