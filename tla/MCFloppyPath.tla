---------------------------- MODULE MCFloppyPath ----------------------------
(* FloppyPath with a disk of a few bytes and short deadlines.  Through a   *)
(* channel of three bytes the first read ends with its end sector, the     *)
(* second with the channel's count in its second sector; the write asks    *)
(* for a sector past the end of the track.                                 *)
EXTENDS FloppyPath
Xfer(op, s, e, sized) ==
    [op |-> op, drive |-> 0, cylinder |-> 1, sector |-> s, end |-> e, sized |-> sized]
MCCommands ==
    {Xfer("read", 1, 1, TRUE), Xfer("read", 1, 2, TRUE), Xfer("write", 2, 3, TRUE),
     [op |-> "seek", drive |-> 0, cylinder |-> 1],
     [op |-> "sense"], [op |-> "id", drive |-> 0]}
MCPrograms ==
    {[mode |-> [kind |-> 1, auto_init |-> FALSE, decrement |-> FALSE, mode |-> 1],
      addr |-> 2, count |-> 2],
     [mode |-> [kind |-> 2, auto_init |-> TRUE, decrement |-> TRUE, mode |-> 0],
      addr |-> 0, count |-> 2]}
MCDors == {[on |-> {0}, run |-> TRUE, gate |-> TRUE], [on |-> {}, run |-> TRUE, gate |-> FALSE],
           [on |-> {0}, run |-> FALSE, gate |-> TRUE]}
=============================================================================
