--------------------------- MODULE MCKeyboard8042 ---------------------------
(***************************************************************************)
(* Sessions of Keyboard8042.  A packet byte has four values, so a motion   *)
(* of five counts needs two samples, and the sample period of the default  *)
(* rate is longer than the three or four byte times of a packet.           *)
(***************************************************************************)
EXTENDS Keyboard8042

\* Three keys, a guest that masks the keyboard, resets it and moves A20.
Typing ==
    [prefixes |-> {0, 1}, advances |-> {1, 3},
     commands |-> {32, 173, 174, 96}, data |-> {255, 17, 1}, services |-> {"a20"},
     rates |-> {}, motions |-> {}, buttons |-> {}, keys |-> 3, moves |-> 0, queued |-> 2]

\* Two motions of the mouse and a key, a guest that drives the mouse.
Pointing ==
    [prefixes |-> {0}, advances |-> {3},
     commands |-> {212}, data |-> {255}, services |-> {"enable", "disable", "rate"},
     rates |-> {7}, motions |-> {[x |-> 5, y |-> -5, z |-> -3]}, buttons |-> {1},
     keys |-> 1, moves |-> 2, queued |-> 2]

\* A motion and a key, a guest that masks the mouse.
Masking ==
    [prefixes |-> {0}, advances |-> {2},
     commands |-> {167}, data |-> {}, services |-> {"enable"},
     rates |-> {}, motions |-> {[x |-> 1, y |-> 0, z |-> 0]}, buttons |-> {0},
     keys |-> 1, moves |-> 1, queued |-> 3]

BothSessions == {Typing, Pointing}
MaskingSession == {Masking}
=============================================================================
