----------------------------- MODULE SectorMap -----------------------------
(***************************************************************************)
(* What crates/izarravm-machine/src/katea_store.rs promises its caller:    *)
(* "byte-for-byte the contract a plain HashMap<u32, [u8; 512]> would       *)
(* give".  The store is a map from sectors to the payload the guest wrote  *)
(* last, plus the set of sectors ever written.  A sector leaves the map    *)
(* only when its payload was acknowledged (mirrored to a host file).  A    *)
(* read may fail, but only for a sector that has a payload, and it says    *)
(* so: it never answers with another payload or with "never written".      *)
(***************************************************************************)
EXTENDS Naturals

CONSTANTS Sectors, Payloads, NoPayload, ReadError, NoCall

VARIABLES
    map, written,
    call,       \* the last call, and the answer if it was a get
    errors      \* failed reads the store admits to
mapVars == <<map, written, call, errors>>

Init ==
    /\ map = [l \in Sectors |-> NoPayload]
    /\ written = {}
    /\ call = NoCall
    /\ errors = 0

Insert(l, d) ==
    /\ map' = [map EXCEPT ![l] = d]
    /\ written' = written \cup {l}
    /\ call' = <<"insert", l, d>>
    /\ UNCHANGED errors

Acknowledge(l) ==
    /\ map' = [map EXCEPT ![l] = NoPayload]
    /\ call' = <<"acknowledge", l>>
    /\ UNCHANGED <<written, errors>>

Get(l) ==
    /\ call' = <<"get", l, map[l]>>
    /\ UNCHANGED <<map, written, errors>>

GetFails(l) ==
    /\ map[l] # NoPayload
    /\ call' = <<"get", l, ReadError>>
    /\ errors' = errors + 1
    /\ UNCHANGED <<map, written>>

Next ==
    \/ \E l \in Sectors, d \in Payloads : Insert(l, d)
    \/ \E l \in Sectors : Acknowledge(l) \/ Get(l) \/ GetFails(l)

Spec == Init /\ [][Next]_mapVars
=============================================================================
