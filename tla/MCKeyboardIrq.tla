--------------------------- MODULE MCKeyboardIrq ----------------------------
(* KeyboardIrq without a mouse: three keys and one controller query        *)
(* command that answers.                                                   *)
EXTENDS KeyboardIrq

QuerySession ==
    {[prefixes |-> {0, 1}, advances |-> {1, 4},
      commands |-> {32}, data |-> {}, services |-> {},
      rates |-> {}, motions |-> {}, buttons |-> {}, keys |-> 3, moves |-> 0, queued |-> 3]}
=============================================================================
