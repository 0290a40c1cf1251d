------------------------------ MODULE Dma8237 -------------------------------
(***************************************************************************)
(* One 8237A of the DMA pair as operators on its state                     *)
(* (crates/izarravm-machine/src/dma.rs).  A guest register is two bytes    *)
(* written through the shared byte-pointer flip-flop; a device call is one *)
(* request, grant and transfer cycle.  The page and status registers, the  *)
(* completed-cycle totals and memory-to-memory transfers are left out.     *)
(***************************************************************************)
EXTENDS Integers, FiniteSets

CONSTANTS
    Channels,
    ByteBase    \* values of one byte (256)
ASSUME DmaAssumption == ByteBase \in Nat /\ ByteBase > 1

WordBase == ByteBase * ByteBase
Word == 0 .. WordBase - 1

DmaChannel ==
    [base_addr : Word, cur_addr : Word, base_count : Word, cur_count : Word,
     addr_decrement : BOOLEAN, auto_init : BOOLEAN,
     transfer_kind : 0 .. 3,     \* 0 verify, 1 device to memory, 2 memory to device
     transfer_mode : 0 .. 3,     \* 0 demand, 1 single, 2 block, 3 cascade
     mask : BOOLEAN, reached_tc : BOOLEAN, dreq : BOOLEAN, active : BOOLEAN]

DmaChip ==
    [channels : [Channels -> DmaChannel], hi_lo : BOOLEAN, disabled : BOOLEAN,
     request_reg : SUBSET Channels]

DmaInit ==
    [channels |-> [c \in Channels |->
        [base_addr |-> 0, cur_addr |-> 0, base_count |-> 0, cur_count |-> 0,
         addr_decrement |-> FALSE, auto_init |-> FALSE, transfer_kind |-> 0,
         transfer_mode |-> 0, mask |-> TRUE, reached_tc |-> FALSE, dreq |-> FALSE,
         active |-> FALSE]],
     hi_lo |-> FALSE, disabled |-> FALSE, request_reg |-> {}]

-----------------------------------------------------------------------------
(* Register writes.                                                        *)

\* A two-byte register after one byte goes to the half the flip-flop selects.
WithByte(word, hi_lo, byte) ==
    IF hi_lo THEN (word % ByteBase) + byte * ByteBase
    ELSE word - (word % ByteBase) + byte

WriteAddr(d, c, byte) ==
    LET new == WithByte(d.channels[c].base_addr, d.hi_lo, byte)
    IN  [d EXCEPT !.channels[c].base_addr = new, !.channels[c].cur_addr = new,
                  !.hi_lo = ~@]

WriteCount(d, c, byte) ==
    LET new == WithByte(d.channels[c].base_count, d.hi_lo, byte)
    IN  [d EXCEPT !.channels[c].base_count = new, !.channels[c].cur_count = new,
                  !.channels[c].reached_tc = FALSE, !.hi_lo = ~@]

WriteMode(d, c, mode) ==
    [d EXCEPT !.channels[c].transfer_kind = mode.kind,
              !.channels[c].auto_init = mode.auto_init,
              !.channels[c].addr_decrement = mode.decrement,
              !.channels[c].transfer_mode = mode.mode]

WriteMask(d, c, masked) ==
    [d EXCEPT !.channels[c].mask = masked,
              !.channels[c].active = @ /\ ~masked]

ClearFlipFlop(d) == [d EXCEPT !.hi_lo = FALSE]

MasterClear(d) ==
    [d EXCEPT !.disabled = FALSE, !.request_reg = {}, !.hi_lo = FALSE,
              !.channels = [c \in Channels |->
                    [@[c] EXCEPT !.mask = TRUE, !.dreq = FALSE, !.active = FALSE]]]

\* The usual way a driver programs a channel: mask it, set the mode, then both
\* registers low byte first, and unmask it.
Program(d, c, mode, addr, count) ==
    LET masked == WriteMode(ClearFlipFlop(WriteMask(d, c, TRUE)), c, mode)
        addressed == WriteAddr(WriteAddr(masked, c, addr % ByteBase), c, addr \div ByteBase)
        counted == WriteCount(WriteCount(addressed, c, count % ByteBase), c, count \div ByteBase)
    IN  WriteMask(counted, c, FALSE)

-----------------------------------------------------------------------------
(* One cycle for a device.                                                 *)

SetHardwareRequest(d, c, asserted) ==
    [d EXCEPT !.channels[c].dreq = asserted,
              !.channels[c].active = @ /\ (asserted \/ d.channels[c].transfer_mode = 2)]

\* begin_cycle refuses the grant.
Refused(d, c) ==
    LET ch == d.channels[c]
    IN  \/ d.disabled \/ ch.mask \/ ch.transfer_mode = 3
        \/ ~ch.dreq /\ c \notin d.request_reg /\ ~(ch.transfer_mode = 2 /\ ch.active)

\* step_transfer: the count runs through zero, which is terminal.
StepTransfer(ch) ==
    LET tc == ch.cur_count = 0
        stepped == [ch EXCEPT
            !.cur_addr = (IF ch.addr_decrement THEN @ - 1 ELSE @ + 1) % WordBase,
            !.cur_count = (@ - 1) % WordBase,
            !.reached_tc = tc]
    IN  IF ~tc THEN stepped
        ELSE IF ch.auto_init
        THEN [stepped EXCEPT !.cur_addr = ch.base_addr, !.cur_count = ch.base_count]
        ELSE [stepped EXCEPT !.mask = TRUE]

FinishCycle(d, c, completed) ==
    LET tc == completed /\ d.channels[c].reached_tc
        block == d.channels[c].transfer_mode = 2
    IN  [d EXCEPT !.request_reg = IF tc THEN @ \ {c} ELSE @,
                  !.channels[c].active = @ /\ completed /\ ~tc /\ block]

\* write_byte (kind 1) and read_byte (kind 2) of DmaController: whether the
\* byte moves, at which address, and the chip afterwards.
DmaCycle(d, c, kind) ==
    LET asked == SetHardwareRequest(d, c, TRUE)
        granted == [asked EXCEPT !.channels[c].reached_tc = FALSE,
                                 !.channels[c].active = TRUE]
        moves == ~Refused(asked, c) /\ d.channels[c].transfer_kind = kind
        served == IF Refused(asked, c) THEN asked
                  ELSE IF moves
                  THEN FinishCycle([granted EXCEPT !.channels[c] = StepTransfer(@)], c, TRUE)
                  ELSE FinishCycle(granted, c, FALSE)
    IN  [moved |-> moves, addr |-> d.channels[c].cur_addr,
         chip |-> SetHardwareRequest(served, c, FALSE)]
=============================================================================
