# TLA+ verification of IzarraVM

IzarraVM is a DOS PC emulator in Rust. This directory holds TLA+ modules that
model parts of it, TLC configurations that model-check them on small instances,
and proofs that TLAPS checks for every value of the constants. `PROJECT.json`
lists the components, the runs, the source lines behind every definition, the
hazards and the theorems in machine-readable form.

Run `tlc -config <run>.cfg <module>` for a run of section 5 and
`tlapm <module>.tla` for a proof module of section 7.

## 1. The system and its parts

All paths are under `src/crates/`. "State" is what survives a call.

| Part | Source | State | Operations | Depends on |
|---|---|---|---|---|
| Interrupt controllers | izarravm-machine `pic.rs` | two chips: IRR, ISR, IMR, line levels, ICW stage, modes, priority | request, set_irq_level, write/read port, acknowledge | every device raises lines; the CPU acknowledges |
| Keyboard controller | `keyboard.rs` | output register, status, command byte, scancode queue, deferred input, three countdowns | push_scancodes, inject_mouse, read/write port, BIOS services, advance_master_ticks | mouse, IRQ1/IRQ12 through `bus.rs` and `timing.rs` |
| PS/2 mouse | `mouse.rs` | reply queue, accumulators, rate, wheel handshake | host_update, sample, write_byte | keyboard controller |
| Timeline | `timeline.rs` | master ticks, TSC, one rate remainder per device | set_mode, advance, advance_io_stall, deadlines, previews | all device advances and the run loop |
| Guest-write store | `katea_store.rs` | resident sectors, write order, presence and written maps, slabs of a spill file | insert, get, acknowledge, span queries | Katea volume |
| Katea volume | `katea_tree.rs`, `katea_volume.rs`, `katea_write.rs`, `katea_names.rs`, `sector_cache.rs` | projections of FAT files onto host files, claims, chain memo, pending batch | write_sector, read_sector, commit, reconcile, flush | the store, the host file system |
| Audio output | izarravm-audio `output.rs` | lock-free frame queue, stream, failure flag, retry time | queue, callback, poll_recover | mixer (producer), host audio threads |
| DMA pair | `dma.rs` | channels, flip-flop, masks, terminal counts | port access, byte and word cycles, memory to memory | FDC, SB16 |
| Floppy | `fdc.rs` | phase, command bytes, one timed operation, motors | ports, advance_to, complete_dma_byte, take_irq | DMA channel 2, IRQ6, GUI media |
| ATA, ATAPI, bus-master IDE | `ata.rs`, `atapi.rs`, `ide.rs`, `bmide.rs`, `storage.rs` | task files, pending DMA request, active transfer | ports, synchronize, advance | memory, IRQ14/15, Katea |
| Serial, RTC, timer, speaker | `uart.rs`, `rtc.rs`, `pit.rs`, `speaker.rs` | FIFOs and deadlines; flags and periodic phase; counters | ports, advance, predicted deadlines | timeline, interrupt controllers |
| MIDI and Sound Blaster | `mpu401.rs`, `midi.rs`, `dsp.rs`, `wss.rs`, `sb16_path.rs` | request handshake, sequencer; block counters | ports, advance_to, DMA pulls | DMA, interrupt controllers, mixer |
| Bus, batch advance, run loop | `bus.rs`, `timing.rs`, `run.rs`, `lib.rs` | address map, A20 snapshot, batch length | port dispatch, apply_device_advance, run | everything |
| GUI session | izarravm `gui_session.rs` | worker thread, command channel, publication, outstanding requests | request, poll, reset, power_off, shutdown | machine, media files |
| Host input | `gui_runtime.rs`, izarravm-input | pressed and swallowed keys, capture, raw or cooked path | route, focus_lost, capture | GUI session |
| Video, CPU and JIT, BIOS and firmware, tools | `vega.rs`, `video.rs`, izarravm-video, izarravm-cpu, `bios.rs`, izarravm-exodos, … | | | |

What makes this code hard to get right and hard to test:

* Every device runs on one master clock but is advanced in batches whose length
  depends on all other devices. Nothing may depend on where a batch ends.
* Port accesses happen inside a CPU batch, before the devices have caught up.
* An interrupt line is an edge or a level depending on what the guest
  programmed. A line that stays high hides the next request.
* The 8042 multiplexes three sources onto one register, processes what the guest
  writes later, and gives back an unread byte when it has to answer itself.
* The host file system may fail in the middle of any spill or commit, while the
  guest must never read a wrong sector.
* The audio queue and the stream recovery run between two or three threads
  without a lock.
* The GUI and the emulation thread share requests, answers and the only copy of
  a written floppy. Either side may stop, panic or be replaced at any moment.

The correctness properties that follow are in section 5; the main
hazards are in `PROJECT.json` at the line where they bite, also those no property
covers yet. Section 9 names the smaller ones of the planned components.

## 2. Modules

| Module | Models | Mapped source |
|---|---|---|
| `Pic` | one 8259A as a record with an operator per method | `pic.rs`, struct Pic |
| `Pic8259Pair` | the cascaded pair, its devices, a guest and the CPU's acknowledge | `pic.rs`, struct Pic8259Pair |
| `Pic8259History` | the pair with the order of acknowledges as history | |
| `SectorStore` | the bounded guest-write store, one step per eviction | `katea_store.rs` |
| `SectorMap` | abstract specification: the plain map the store promises to be | `katea_store.rs`, its contract |
| `Ps2Mouse` | the mouse as a record, and the driver that decodes its bytes | `mouse.rs` |
| `Controller8042` | the keyboard controller's methods on a record | `keyboard.rs` |
| `Keyboard8042` | the controller driven by host, guest and clock | `keyboard.rs`, callers in `bios.rs` |
| `KeyboardIrq` | composition: controller, a PIC chip and a guest with an IRQ1 handler | `bus.rs`, `timing.rs` |
| `AudioRing`, `AudioRingConstants` | the frame queue, one step per push and per pop, and its sizes | `output.rs` |
| `StreamRecovery` | opening and reopening the host stream | `output.rs` |
| `AudioOutput` | composition: streams of several generations on one queue | `output.rs` |
| `GuiSession` | the GUI thread, the emulation thread of each generation, the floppy between them | `gui_session.rs`, `gui.rs` |
| `Dma8237` | one DMA chip as operators on its state | `dma.rs` |
| `Fdc8272` | the floppy controller as operators on its state | `fdc.rs` |
| `FloppyPath` | composition: floppy controller, DMA channel 2, disk, batches of the machine | `timing.rs`, `bus.rs`, `storage.rs` |
| `ChainWalk` | cluster chains of the guest's FAT and the memo of them | `katea_tree.rs`, `katea_write.rs` |
| `ClaimIndex` | the guard against cross-linked files: incremental counts, full scan, reconcile passes | `katea_tree.rs` |
| `Timeline` | master time, TSC, rate phases, deadlines, beam previews | `timeline.rs` |
| `MC*` | values for the constants of the runs | |
| `*Proofs` | theorems and proofs about the module they are named after | |

Components without variables (`Pic`, `Ps2Mouse`, `Controller8042`, `Dma8237`,
`Fdc8272`, `ChainWalk`) are records and operators, as the code has structs with
methods. `Pic` is used twice: the pair owns two chips, `KeyboardIrq`
instantiates a third.

## 3. How the models correspond to the code

**Interrupt controllers.** Bit masks are sets of levels. The number of levels is
the constant `N` (8 in the code). A byte a guest writes is a record of the
fields the code looks at. `highest_pending` walks the levels in priority order;
`IsHighestPending` says the same with ranks, and the proofs need no loop. The
pair keeps the two ways in which the code mirrors the slave's output:
`request()` sets the master's latch, everything else calls `sync_cascade`. The
history variable `unlinked` records that the master itself gave up the latch
(ICW1, a poll of the master, or an acknowledge while ICW3 hides the slave):
then, in the code as in the chip, the slave's request waits for a new edge.
`buffered` and `is_master` are stored by the code, never read, and left out.

**Guest-write store.** `cache`, `order`, the chunk bit maps and slabs are the
fields of the code; a sector number is `0 .. LbaMax`, with the saturating 32-bit
arithmetic of the span walk kept. `insert` is one step per iteration of the
eviction loop because each iteration is a place where the file system can fail:
creating the file, extending it, or writing the slot, the last of which may
leave anything (`Torn`) in the victim's slot. The code holds `&mut self`
throughout, so no other call interleaves. Not modelled: the diagnostics, the
removal of the scratch file on drop, and the choice of its directory.

**8042 and mouse.** Commands are the bytes of the code. A byte on its way to the
guest is a record naming its origin and, for a packet, its low digits, so that
the nine-bit two's complement, the clamps and the y inversion are real; `Radix`
is 256 in the code. `advance_master_ticks` is one step per iteration of its loop
over deadlines. Left out because no code but the tests reads them or because
they are only reported back: `irq_armed`, `irq12_armed`, the SYS and CMD status
bits, the scan code set, resolution, scaling and device id.

**Keyboard interrupts.** `KeyboardIrq` copies the IRQ1 line to a PIC chip at the
two places where the machine does: at the end of an advance and inside a read of
port 0x60. The guest is an ordinary one: its handler reads the port once and
ends with an EOI, its foreground queries the controller with interrupts off.
This guest is external to the repository and an assumption of the run. IRQ12
through the slave is not composed yet.

**Audio.** `AudioRing` numbers the frames and keeps each push and pop atomic,
which is what the queue guarantees; the callback runs between any two of them.
`StreamRecovery` has the flag, the retry time and the steps of an open; a stream
may fail on its own thread at any of them. `AudioOutput` puts both together: the
queue lives on while no stream is open, and each new stream brings a callback
with its own fade state. Resampling and sample values are left out.

**GUI session.** A request is a record with its id, kind and, for a mount, the
image as the GUI read it from the file. The contents of an image are the set of
numbered guest writes in it, so that "lost" is set difference. Each method of
`GuiSession` that blocks is two actions, one before and one after the wait
(`Stop` and `Joined`, `Start` and `Started`). The emulation thread has one
action per command, with the answer published in a step of its own: a panic may
fall between them. `Finalize` writes the floppy back, fails to, or panics
outside the guard, where `join_worker` makes up an exit without media. Answers
and failure reports are kept apart, each in its order. `Reloads` says whether
the user may load an image that is still mounted; the passing run and the
theorem assume not, `gui_reload` shows why. `told` and `dropped` are history:
the losses the user was told of, and those given up without a word. `Started`
fills `dropped`: when the generation a reset starts fails, `reset` returns the
startup error alone (`gui_session.rs` 557), the failures it had collected are
dropped, and the bytes carried over end with the new thread. `WritesSafe` names
this one case and says that it takes two failures.

**Floppy and DMA.** Times are relative to the machine's clock; the controller's
own clock runs ahead of it by `lead` when a port access falls inside a batch.
`advance_master_time` is one step per deadline, the service of one DMA byte a
step of its own, IRQ6 is forwarded at the end. A byte is the pair of its place
on disk and its address in memory, so a transfer is faithful when the pairs are
the ones the command and the channel define. `xfer` and `abandoned` are history:
whether the guest disturbed the transfer, and which seeks it replaced.

**Claim index.** `v` holds the fields of the Katea volume the guard reads: FAT,
directory slots, chain memo with its epochs, claims by key and by cluster,
directory clusters, poison flag. `Reconcile` is one whole pass of
`reconcile_mode` as far as the guard is concerned. Its circumstances (an
unreadable FAT sector, a torn directory, a failing host call) are chosen once
per pass. The properties compare with `TrueChain` and with set-based counts.

**Timeline.** The code computes in u64 where the exact value fits and in u128
otherwise. The model has exact integers and the clamps to `MaxU64` both forms
share. Each device clock is a member of `Clocks` with the rates it may take.

## 4. Abstract specifications and refinement

`SectorMap` is what `katea_store.rs` promises: its contract is
"byte-for-byte the one a plain `HashMap<u32, [u8; 512]>` would give". Its actions are insert, acknowledge,
get and a get that admits a failure. `SectorStore!IsAMap` instantiates it with
the sector contents a caller would see. Evictions and failed evictions are
stuttering steps of the map, the first step of an insert is the map's insert.
TLC checks it in run `sector_store`, TLAPS proves it (`StoreImplementsMap`).

`AudioRing` is the queue with one callback that starts and stops. The output
with its generations of streams implements it (`AudioOutput!ImplementsRing`):
there is a callback exactly while some stream is live, and all steps of the
player that touch no frame stutter. TLC checks it in run `audio`, TLAPS proves it
(`OutputImplementsRing`), so the theorems about the queue hold of the output.

## 5. Runs

Ten runs pass; their distinct states are given. Two show where the code departs
from a comment of its own (section 8).

| Run | Shows | States |
|---|---|---|
| `pic_cascade` | edge or level inputs, re-initialisation, polling, AEOI, special fully nested mode and masks: a held level is never forgotten (`HeldLevelLatched`), the cascade pin falls with the slave (`PinFollowsSlave`), no slave request is stranded (`NoStrandedSlave`) | 501,836 |
| `pic_nesting` | under rotation, also in AEOI mode, a non-specific EOI ends the interrupt acknowledged last (`EoiEndsLatest`) | 299,472 |
| `sector_store` | no payload is lost through failures (`PayloadKept`), `order` is the cache (`OrderMatchesCache`), RAM is bounded (`RamBounded`), span queries are exact or safe (`SpanExact`, `SpanNotOlder`), the store is a map (`IsAMap`) | 523,673 |
| `kbd` | two guest sessions: scancodes are delivered once and in order through masks, resets and answers that displace an unread byte (`KeysInOrder`), packets are not torn (`PacketsWhole`), motion is conserved (`MotionConserved`), pending state is clocked (`PendingIsClocked`), no byte is forgotten (`NoForgottenByte`) | 1,386,489 |
| `kbd_irq` | every key reaches the guest's handler, with edge and with level inputs (`KeysDelivered`), and no level interrupt finds an empty register (`NoPhantom`) | 2,184 |
| `audio` | latency stays below the high-water mark and no push fails (`LatencyBounded`), the newest sound survives (`NewestKept`), what follows a recovery fades in (`RecoveryFades`), no player believes it plays when it does not (`NoSilentPlayer`), one consumer (`OneConsumer`), spaced attempts (`AttemptsSpaced`), sound comes back (`SoundReturns`), all of it one queue (`ImplementsRing`) | 1,496,208 |
| `timeline` | batches lose nothing (`NothingDrifts`, `TscExact`), deadlines are the first tick (`DeadlineExact`, `BeamDeadlineExact`), a state capture is always accepted (`CaptureAccepted`) | 267,832 |
| `gui_session` | every accepted request is answered once and in order (`OneAnswer`) and eventually (`AnswersCome`), a guest write to a floppy is saved, held or reported, and lost in silence only when a write-back and the start after a reset both fail (`WritesSafe`), through panics, failing write-backs, resets and power cycles | 248,378 |
| `floppy` | a command in execution has a deadline within reach (`ExecutionIsTimed`), IRQ6 has a cause (`IrqHasCause`), a busy bit its seek (`BusyHasSeek`), and an undisturbed transfer moves exactly the bytes it should (`TransferFaithful`) | 6,085,582 |
| `claims` | the incremental guard flags exactly the cross-linked files (`GuardExact`), its counts equal the full scan at every moment (`CountsExact`), a chain taken from the memo is the chain in the FAT (`MemoSound`) | 26,607 |
| `kbd_stuck`, `gui_reload` | the disagreements of section 8 | |

Each property is paired in `PROJECT.json` with a mutant: a plausible bug in one
mapped definition under which TLC finds the property violated.

### Bounds and why they are enough

* PIC: three levels, the slave on the middle pin. One line above and one below
  the cascade pin is what priority, nesting and the exemption can tell apart.
  The slave of `pic_cascade` runs neither AEOI nor special mask mode: there
  `NoStrandedSlave` is false in the code, see the hazards. The guest of
  `pic_nesting` does not set priorities or the special mask, which change by
  design what an EOI ends.
* Store: four sectors in two chunks of two, a cache of one, four inserts.
  Eviction starts with the second sector, a sector can be spilled, rewritten and
  spilled again, and spans start and end inside chunks, cross from one into the
  other and run past the last sector number. Two payloads, up to symmetry: no
  operation looks into them.
* 8042: a packet digit has four values, so a motion of five counts needs two
  packets, and a wheel step of three needs two. Three keys put one in the
  output register, one on the wire and one in the queue. `MaxQueued` limits
  only what the guest writes: the code's queues have no limit. The sessions of
  `kbd` leave the mouse interface enabled; masking it is `kbd_stuck`.
* Keyboard interrupts: three keys, advances shorter and longer than a byte time,
  so that an advance ends between deadlines and crosses several.
* Audio: `Ramp < Target <= High <= Capacity` as in the code (2, 4, 6, 8), batches
  of one frame and of more than the high-water mark, nine frames. Three faults
  let streams fail before, during and after a reopening.
* Timeline: a master clock of 7 Hz meets rates that divide it, do not divide it,
  equal it and are zero; u64 ends at 12, so time runs out in every phase.
* GUI session: two images, three requests, three generations, two guest writes
  and two faults. That is enough to swap images with one request on its way, to
  fail a write-back, carry the bytes over a reset and fail to start. The proofs
  lift these bounds.
* Floppy: one drive, two cylinders, two sectors of two bytes, batches of up to
  two ticks. A batch is longer than a byte, so bytes are overdue. The channel
  moves three bytes, which falls inside the second sector. So a read of one
  sector is ended by its end sector, a read of two crosses a sector and is ended
  by the count, and a write that starts in the last sector and asks for one more
  meets the end of the track.
* Claims: five clusters in three FAT sectors and one outside the volume, three
  directory entries, a subdirectory of two clusters, three guest writes with
  passes anywhere between them, a memo of three chains so that it overflows, at
  most one trouble per pass. Four guest writes (164,695 states) give the same
  result and take longer.

Where deadlock checking is off (`audio`, `timeline`) the frames, faults or
ticks of the bound run out, and the program would simply go on.

## 6. Fairness

* `KeyboardIrq`: weak fairness of the clock advance (the run loop advances
  devices after every batch) and of the guest's next instruction, strong
  fairness of taking a deliverable interrupt (the CPU tests for it at each
  instruction boundary, and the foreground masks interrupts again and again).
  Nothing is assumed of key presses or queries.
* `AudioOutput`: weak fairness of the player (the GUI polls every frame), of
  the report of a stream that has ended (the host calls the error callback) and
  of time. Nothing is assumed of the device, which is why `SoundReturns` starts
  from `<>[]device`, nor of the producer and the callback.
* `GuiSession`: weak fairness of `Poll`, `Joined` and `Started` (the GUI polls
  every frame, and a join or a startup message that has come is taken) and of
  the emulation thread's own steps. Nothing is assumed of the user, the guest,
  faults or panics.

The floppy has no fairness: that a command ends is stated by a bound on its
deadline in every state (`ExecutionIsTimed`), as the guest of the model may
restart commands forever.

## 7. Proofs

All theorems hold for every value of the constants that satisfies the named
assumptions, which are the shapes of the constants (sizes are naturals, lines
are levels, marker values are distinct, `Ramp < Target <= High <= Capacity`).
`WiringAssumption` also says that no device holds the pin the slave is wired to,
as on the PC.

**`Pic8259Proofs`**: `TypeCorrect`, `HeldLevel`, `PinFollows`, `NoStranded`.
The inductive invariant `PairInv` is type correctness, held levels latched, and
pin follows slave. The per-method lemmas show that each operator keeps a chip
well typed and its held lines latched; `SyncCascadeLemma` does the pin. For
`NoStranded` the converse is needed as well (`LinkInv`): a pin that is high
belongs to a slave that has something to deliver, or the link was given up. It
assumes `PlainGuest`, a slave that runs neither AEOI nor special mask mode, so
that an acknowledge silences the slave's output (`AckSilencesPlainSlave`).

**`SectorStoreProofs`**: `StoreTypeCorrect`, `NoPayloadLost`, `OrderIsCache`,
`RamIsBounded`, `SpanTheorem`, `StoreImplementsMap`. `PayloadKept` is not inductive: a write to
one slot could destroy another sector. The invariant `StoreInv` adds that slabs
lie inside the file and do not overlap (`SlabsApart`), that sequence numbers in
`order` are old (`SeqFresh`) and that resident sectors are present. The
refinement goes action by action; `EvictInvisible` is the heart: an eviction
changes no sector's contents. `SpanTheorem` needs no invariant: the chunks the
walk visits, each cut to the span, are together the span (`ChunkUnique`,
`SpanLemma`).

**`AudioRingProofs`**: `RingTypeCorrect`, `LatencyTheorem`, `NewestTheorem`
from the invariant `AInv`. It relates where the producer is to the room left in
the queue, and says that the frames under way end with the newest one.

**`StreamRecoveryProofs`**: `TypeCorrect`, `NeverSilent`, `SingleConsumer`,
`Spacing`. `RInv` follows the report of a failure through the steps of an open:
the flag is cleared only before a stream is built.

**`TimelineProofs`**: `TimelineTypes`, `CaptureTheorem`, `NoDriftTheorem`,
`TscTheorem`, `DeadlineTheorem`, `BeamTheorem`. The invariant `TInv` has the two
division identities (events times clock plus remainder is what is owed; TSC
times quantum plus phase is the time since the mode change). The deadlines then
are facts about division, stated as lemmas once.

**`AudioOutputProofs`**: `OutputImplementsRing`. It uses
the player's invariant `RInv`: a stream is built only while none calls back, so a
stream that ends or is built is the queue's callback that stops or starts.

**`FloppyProofs`**: `CauseTheorem`, `BusyTheorem`, for any geometry, timing, set
of drives, commands and batch length. The invariant `FInv` says that the phase
agrees with the kind of the timed operation, that a request for IRQ6 has a
result or a finished seek behind it, and that a busy bit has its seek pending or
was abandoned. The first part is what tells which operation a deadline ends.

**`GuiSessionProofs`**: `OneAnswerTheorem`, and `WritesTheorem` under `~Reloads`,
for any images, requests, generations, writes and faults. Both rest on how the
threads stand to each other (`Handshake`).
`OneAnswer` says nothing of the channel, so it is not inductive: `AnswerInv` adds
that the answers seen, waiting and published are consecutive, and that the
channel holds the ids that follow, in order, with `Shutdown` last.
`WritesSafe` needs to know what a write-back does to other copies: `WriteInv`
adds that guest writes are numbered and each belongs to one image (`Numbered`),
that the image in the drive holds at least what its file holds (`Drive`), that
images on their way are fresh copies of files nobody else holds (`Waiting`), that
what a thread reports as lost is what its image has over the file (`Lost`), and
that a generation that has not started can lose only what was carried over to it
(`Carry`). That a silent loss takes two failures is `Costs`: it counts one
failure for a loss on its way and a second once the start has failed.

Only model-checked: the liveness properties `KeysDelivered`, `SoundReturns` and
`AnswersCome` (fairness is out of the prover's reach), everything about the
keyboard and the mouse, `EoiEndsLatest`, `SpanNotOlder`,
`RecoveryFades`, `ExecutionIsTimed`, `TransferFaithful`, and the claim index,
whose chain walk is recursive.

## 8. Where code and comments disagree

* `kbd_stuck`: the delivery timer of the 8042 is not armed again for a byte that
  became ready while its device was masked; the flag that it was ready survives
  and keeps new transfers from starting until something else latches.
* `gui_reload`: `mount_floppy_source` reads the file before the mounted copy is
  written back. If the user loads the image that is in the drive, the bytes read
  too early are mounted and later written over the guest's changes.

Two more were met while modelling and have no run of their own:

* `pic.rs` 265 says of special fully nested mode that every other level keeps the
  fully nested rule. The exemption of the cascade pin (272) also lifts its
  blocking of lower master levels, so one of them can interrupt a slave handler.
* The comment on `AudioSink::queue` (`output.rs` 188) promises a fade boundary
  when latency is discarded. The callback (134) may take a frame while the
  recovery is still emptying the queue, and then jumps at full volume.
  `RecoveryFades` is stated for what follows the recovery.

Behaviour the models keep as it is, and that no property forbids:

* All floppy drives share one disk (`fdc.rs`), a disk swapped during a transfer
  continues it silently, and commands are accepted while the DOR holds reset.
* A second command replaces a pending seek and leaves its drive's busy bit set;
  `BusyHasSeek` excepts such drives (`abandoned`).
* After a port write inside a batch past a deadline, `advance_master_time` goes
  on one tick at a time.
* If the generation a reset starts fails, only the startup error is reported
  (`gui_session.rs` 557, `gui.rs` 1372). When the write-back before it had failed
  too, the guest's unsaved writes are gone and nothing says so (`dropped`).
* A panic between applying and answering a request rejects an applied request.
* `poison_claims` in `katea_tree.rs` 4277 is redundant: the counts are exact
  without it.

## 9. Not modelled, and the plan

The components listed as `not_modelled` in `PROJECT.json` carry their reasons.
The modelled definitions stand for about 4,200 source lines in 17 files: a small
part of the whole emulator.
The CPU and JIT, the video rasterisers, synthesis and mixing, firmware and the
offline tools stay out: their risk is in data, and differential tests are the
better tool. The rest is planned in this order:

1. Katea volume: commit of pending sectors to host files on top of `SectorMap`
   as the store's specification; `sector_cache.rs` as an LRU.
2. Bus-master IDE with the disk's pending request: one completion for each
   command, in either arming order.
3. Serial port and RTC: predicted interrupt deadlines against the steps that
   raise them, and independence of the batch split.
4. MPU-401 and Sound Blaster block counting; the PIT; the A20 snapshot; IRQ12
   through the slave in `KeyboardIrq`; the run loop's choice of the batch length;
   host key routing.
5. Proofs: key order and packet integrity of the 8042, `RecoveryFades`,
   `EoiEndsLatest`, `TransferFaithful`.

Smaller hazards to take up with these components: in `uart.rs`, a moved receive
trigger without a new timeout (463) and the separately derived interrupt
deadline (345); in `rtc.rs`, a source enabled with its flag already latched (297)
and a batch that crosses several seconds (273); in `bmide.rs`, a descriptor table
rewritten while armed (148); in `mpu401.rs`, a dropped data request that leaves
the sequencer blocked (688); in `gui_runtime.rs`, keys held across a focus loss
(212) or across the switch to raw events (609).
