---------------------------- MODULE Pic8259Pair ----------------------------
(***************************************************************************)
(* The cascaded master/slave pair of crates/izarravm-machine/src/pic.rs    *)
(* (struct Pic8259Pair), driven by three actors: the devices (pulsed       *)
(* requests and held input lines), the guest (port writes and reads) and   *)
(* the CPU's interrupt acknowledge.                                        *)
(*                                                                         *)
(* The slave's INT output is wired to the master pin its ICW3 id names.    *)
(* The code mirrors it in two ways: request() sets the pin's latch on the  *)
(* master directly, every other operation on the slave recomputes the      *)
(* pin's input level (sync_cascade).                                       *)
(***************************************************************************)
EXTENDS Pic

CONSTANTS
    MasterPulses, SlavePulses,          \* lines whose device calls request()
    MasterLevelLines, SlaveLevelLines,  \* lines whose device calls set_irq_level()
    MasterGuest, SlaveGuest             \* bytes the guest writes, see WritePort

Repertoire(Wiring) ==
    [icw1 : SUBSET Icw1s, icw2 : SUBSET Bases, icw3 : SUBSET Wiring,
     icw4 : SUBSET Icw4s, ocw1 : SUBSET SUBSET Levels, ocw2 : SUBSET Ocw2s,
     ocw3 : SUBSET Ocw3s]

ASSUME LinesAssumption ==
    /\ MasterPulses \subseteq Levels /\ SlavePulses \subseteq Levels
    /\ MasterLevelLines \subseteq Levels /\ SlaveLevelLines \subseteq Levels
ASSUME GuestAssumption ==
    MasterGuest \in Repertoire(SUBSET Levels) /\ SlaveGuest \in Repertoire(Levels)
\* No device holds the pin the slave is wired to.  Pin 0 is the one a slave
\* that was never initialised drives.
ASSUME WiringAssumption == MasterLevelLines \cap ({0} \cup SlaveGuest.icw3) = {}

VARIABLES
    master,
    slave,
    unlinked    \* history: the master gave up the pin's latch without a slave
                \* acknowledge (ICW1, poll, or an ICW3 that hides the slave)
                \* and the slave has not been idle since
vars == <<master, slave, unlinked>>

Pin == slave.icw3

\* master_cascade_exempt: the pin, in special fully nested mode.
Exempt == IF master.sfnm /\ Pin \in master.icw3 THEN {Pin} ELSE {}

SlaveInt(s) == HasPending(s, {})

SyncCascade(m, s) == SetInputLevel(m, s.icw3, SlaveInt(s))

Linking(gaveUp) == unlinked' = (SlaveInt(slave') /\ (unlinked \/ gaveUp))

Init ==
    /\ master = PowerOn({})
    /\ slave = PowerOn(0)
    /\ unlinked = FALSE

-----------------------------------------------------------------------------
(* Devices.                                                                *)

RequestMaster(l) ==
    /\ master' = Request(master, l)
    /\ UNCHANGED slave
    /\ Linking(FALSE)

\* Mutant: the request stays on the slave.
RequestSlaveUnmirrored(l) ==
    /\ slave' = Request(slave, l)
    /\ UNCHANGED master
    /\ Linking(FALSE)

RequestSlave(l) ==
    /\ slave' = Request(slave, l)
    /\ master' = Request(master, Pin)
    /\ Linking(FALSE)

SetMasterLevel(l, up) ==
    /\ master' = SetInputLevel(master, l, up)
    /\ UNCHANGED slave
    /\ Linking(FALSE)

SetSlaveLevel(l, up) ==
    /\ slave' = SetInputLevel(slave, l, up)
    /\ master' = SyncCascade(master, slave')
    /\ Linking(FALSE)

-----------------------------------------------------------------------------
(* The guest.                                                              *)

WriteMaster ==
    /\ WritePort(master, master', MasterGuest)
    /\ UNCHANGED slave
    /\ Linking(\E c \in MasterGuest.icw1 : master' = WriteIcw1(master, c))

\* A new ICW3 id first lets go of the old pin.
WriteSlave ==
    /\ WritePort(slave, slave', SlaveGuest)
    /\ LET m == IF slave'.icw3 # Pin THEN LowerInput(master, Pin) ELSE master
       IN  master' = SyncCascade(m, slave')
    /\ Linking(FALSE)

ReadMaster ==
    /\ ReadPort(master, master', Exempt)
    /\ UNCHANGED slave
    /\ Linking(master.poll_pending /\ IsHighestPending(master, Exempt, Pin))

ReadSlave ==
    /\ ReadPort(slave, slave', {})
    /\ master' = SyncCascade(master, slave')
    /\ Linking(FALSE)

-----------------------------------------------------------------------------
(* acknowledge_with_irq: an ordinary master level, a slave level through   *)
(* the cascade, or the spurious lowest slave level when the slave has      *)
(* nothing to offer.                                                       *)

IsCascade(l) == l \in master.icw3 /\ l = Pin

AckMaster(l) ==
    /\ IsHighestPending(master, Exempt, l)
    /\ ~IsCascade(l)
    /\ master' = SetInService(master, l)
    /\ UNCHANGED slave
    /\ Linking(l = Pin)

\* Mutant: the pin is left high after the slave's request was taken.
AckSlaveNoSync(s) ==
    /\ IsHighestPending(master, Exempt, Pin)
    /\ IsCascade(Pin)
    /\ IsHighestPending(slave, {}, s)
    /\ slave' = SetInService(slave, s)
    /\ master' = SetInService(master, Pin)
    /\ Linking(FALSE)

AckSlave(s) ==
    /\ IsHighestPending(master, Exempt, Pin)
    /\ IsCascade(Pin)
    /\ IsHighestPending(slave, {}, s)
    /\ slave' = SetInService(slave, s)
    /\ master' = SyncCascade(SetInService(master, Pin), slave')
    /\ Linking(FALSE)

AckSpurious ==
    /\ IsHighestPending(master, Exempt, Pin)
    /\ IsCascade(Pin)
    /\ ~SlaveInt(slave)
    /\ master' = SyncCascade(SetInService(master, Pin), slave)
    /\ UNCHANGED slave
    /\ Linking(FALSE)

Device ==
    \/ \E l \in MasterPulses : RequestMaster(l)
    \/ \E l \in SlavePulses : RequestSlave(l)
    \/ \E l \in MasterLevelLines, up \in BOOLEAN : SetMasterLevel(l, up)
    \/ \E l \in SlaveLevelLines, up \in BOOLEAN : SetSlaveLevel(l, up)

Guest == WriteMaster \/ WriteSlave \/ ReadMaster \/ ReadSlave

Acknowledge ==
    \/ \E l \in Levels : AckMaster(l)
    \/ \E s \in Levels : AckSlave(s)
    \/ AckSpurious

Next == Device \/ Guest \/ Acknowledge

Spec == Init /\ [][Next]_vars

-----------------------------------------------------------------------------
\* Both chips hold register values a byte write or a line can produce.
TypeOK ==
    /\ master \in Chip(SUBSET Levels)
    /\ slave \in Chip(Levels)
    /\ unlinked \in BOOLEAN

\* A level-triggered chip never forgets a held line: as long as the device
\* holds it, it is latched or in service, whatever ICW1, acknowledge, poll,
\* AEOI or EOI happened meanwhile (set_input_level, clear_in_service and
\* ICW1 each re-latch it).
HeldLevelLatched ==
    /\ master.level_triggered => master.asserted \subseteq master.irr \cup master.isr
    /\ slave.level_triggered => slave.asserted \subseteq slave.irr \cup slave.isr

\* The cascade pin falls as soon as the slave has nothing to deliver, so the
\* next slave request is a fresh rising edge (sync_cascade after every
\* operation that can retire a slave request).
PinFollowsSlave == ~SlaveInt(slave) => Pin \notin master.asserted

\* A slave request that the slave would deliver is latched on the master's
\* cascade pin, so the CPU will see it: none is stranded behind a pin that
\* stays high without a new edge.
NoStrandedSlave == SlaveInt(slave) /\ ~unlinked => Pin \in master.irr

=============================================================================
