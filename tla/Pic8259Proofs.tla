--------------------------- MODULE Pic8259Proofs ---------------------------
(***************************************************************************)
(* Proofs about Pic8259Pair, for every number of levels, every set of      *)
(* device lines and every repertoire of guest bytes.                       *)
(***************************************************************************)
EXTENDS Pic8259Pair, TLAPS

\* The level-triggered promise of one chip; HeldLevelLatched is this for both.
Held(p) == p.level_triggered => p.asserted \subseteq p.irr \cup p.isr

\* The registers only a guest's configuration writes change.
SameConfig(p, q) ==
    q.icw3 = p.icw3 /\ q.auto_eoi = p.auto_eoi /\ q.special_mask = p.special_mask

\* A chip, and a guest, that use neither automatic EOI nor special mask mode.
Plain(p) == ~p.auto_eoi /\ ~p.special_mask
PlainGuest(g) == (\A c \in g.icw4 : ~c.aeoi) /\ (\A c \in g.ocw3 : c.smm # "on")

-----------------------------------------------------------------------------
(* What each operator of Pic does to the registers.                        *)

\* request: one more latched level and nothing else.
LEMMA RequestLemma ==
    ASSUME NEW W, NEW p \in Chip(W), NEW l \in Levels
    PROVE  /\ Request(p, l) \in Chip(W)
           /\ Request(p, l).irr = p.irr \cup {l}
           /\ Request(p, l).asserted = p.asserted
           /\ SameConfig(p, Request(p, l))
           /\ Held(p) => Held(Request(p, l))
BY DEF Request, Chip, Held, SameConfig

\* set_input_level with a line that goes up: a rising edge is latched.
LEMMA RaiseLemma ==
    ASSUME NEW W, NEW p \in Chip(W), NEW l \in Levels
    PROVE  LET q == RaiseInput(p, l)
           IN  /\ q \in Chip(W)
               /\ q.asserted = p.asserted \cup {l}
               /\ p.irr \subseteq q.irr
               /\ l \notin p.asserted => l \in q.irr
               /\ SameConfig(p, q)
               /\ Held(p) => Held(q)
BY Zenon DEF RaiseInput, LowerInput, Chip, Held, SameConfig

\* set_input_level with a line that goes down: at most its own latch goes.
LEMMA LowerLemma ==
    ASSUME NEW W, NEW p \in Chip(W), NEW l \in Levels
    PROVE  LET q == LowerInput(p, l)
           IN  /\ q \in Chip(W)
               /\ q.asserted = p.asserted \ {l}
               /\ p.irr \ {l} \subseteq q.irr
               /\ SameConfig(p, q)
               /\ Held(p) => Held(q)
BY Zenon DEF RaiseInput, LowerInput, Chip, Held, SameConfig

\* clear_in_service: only the in-service bit goes, and a held level returns.
LEMMA ClearInServiceLemma ==
    ASSUME NEW W, NEW p \in Chip(W), NEW l \in Levels
    PROVE  LET q == ClearInService(p, l)
           IN  /\ q \in Chip(W)
               /\ q.asserted = p.asserted
               /\ p.irr \subseteq q.irr
               /\ SameConfig(p, q)
               /\ Held(p) => Held(q)
BY Zenon DEF ClearInService, Chip, Held, SameConfig

\* The rotation pointer takes part in none of the above.
LEMMA SetLowestLemma ==
    ASSUME NEW W, NEW p \in Chip(W), NEW l \in Levels
    PROVE  LET q == [p EXCEPT !.lowest = l]
           IN  /\ q \in Chip(W)
               /\ q.asserted = p.asserted
               /\ q.irr = p.irr
               /\ SameConfig(p, q)
               /\ Held(p) => Held(q)
BY DEF Chip, Held, SameConfig

\* set_in_service, with or without automatic EOI.
LEMMA SetInServiceLemma ==
    ASSUME NEW W, NEW p \in Chip(W), NEW l \in Levels
    PROVE  LET q == SetInService(p, l)
           IN  /\ q \in Chip(W)
               /\ q.asserted = p.asserted
               /\ p.irr \ {l} \subseteq q.irr
               /\ SameConfig(p, q)
               /\ Held(p) => Held(q)
<1> DEFINE s == [p EXCEPT !.isr = @ \cup {l}, !.irr = @ \ {l}]
           r == ClearInService(s, l)
<1>1. /\ s \in Chip(W)
      /\ s.asserted = p.asserted
      /\ s.irr = p.irr \ {l}
      /\ SameConfig(p, s)
      /\ Held(p) => Held(s)
  BY Zenon DEF Chip, Held, SameConfig
<1>2. /\ r \in Chip(W)
      /\ r.asserted = p.asserted
      /\ p.irr \ {l} \subseteq r.irr
      /\ SameConfig(p, r)
      /\ Held(p) => Held(r)
  <2> HIDE DEF s
  <2> QED BY <1>1, ClearInServiceLemma DEF SameConfig
<1>3. r.lowest \in Levels
  BY <1>2 DEF Chip
<1> DEFINE n == IF p.auto_rotate THEN l ELSE r.lowest
           t == [r EXCEPT !.lowest = n]
<1>4. /\ t \in Chip(W)
      /\ t.asserted = p.asserted
      /\ p.irr \ {l} \subseteq t.irr
      /\ SameConfig(p, t)
      /\ Held(p) => Held(t)
  <2>1. n \in Levels
    BY <1>3
  <2> HIDE DEF r, n
  <2> QED BY <1>2, <2>1, SetLowestLemma DEF SameConfig
<1>5. SetInService(p, l) = IF p.auto_eoi THEN t ELSE s
  BY DEF SetInService
<1> QED BY <1>1, <1>4, <1>5

\* Every OCW2 command keeps the lines, the wiring and the latched requests.
LEMMA EndOfInterruptLemma ==
    ASSUME NEW W, NEW p \in Chip(W), NEW q, NEW c \in Ocw2s, EndOfInterrupt(p, q, c)
    PROVE  /\ q \in Chip(W)
           /\ q.asserted = p.asserted
           /\ p.irr \subseteq q.irr
           /\ SameConfig(p, q)
           /\ Held(p) => Held(q)
<1> DEFINE Good(r) == /\ r \in Chip(W)
                      /\ r.asserted = p.asserted
                      /\ p.irr \subseteq r.irr
                      /\ SameConfig(p, r)
                      /\ Held(p) => Held(r)
<1>1. c.level \in Levels /\ p.isr \subseteq Levels
  BY DEF Ocw2s, Chip
<1>2. Good(p)
  BY DEF SameConfig
<1>3. \A b \in BOOLEAN : Good([p EXCEPT !.auto_rotate = b])
  BY DEF Chip, Held, SameConfig
<1>4. \A l \in Levels : Good(ClearInService(p, l))
  BY ClearInServiceLemma
<1>5. ASSUME NEW l \in Levels, NEW m \in Levels
      PROVE  Good([ClearInService(p, l) EXCEPT !.lowest = m])
  <2> DEFINE r == ClearInService(p, l)
  <2>1. Good(r)
    BY <1>4
  <2>2. Good([r EXCEPT !.lowest = m])
    <3> HIDE DEF r
    <3> QED BY <2>1, SetLowestLemma DEF SameConfig
  <2> QED BY <2>2
<1>6. Good([p EXCEPT !.lowest = c.level])
  BY <1>1, SetLowestLemma
<1> SUFFICES Good(q)
  OBVIOUS
<1> HIDE DEF Good
<1>7. \/ q = p
      \/ \E b \in BOOLEAN : q = [p EXCEPT !.auto_rotate = b]
      \/ \E l \in Levels : q = ClearInService(p, l)
      \/ \E l \in Levels : q = [ClearInService(p, l) EXCEPT !.lowest = l]
      \/ q = [p EXCEPT !.lowest = c.level]
  BY <1>1, Zenon DEF EndOfInterrupt
<1> QED BY <1>2, <1>3, <1>4, <1>5, <1>6, <1>7, Zenon

\* A port write never touches the lines.  Only ICW1 drops latched requests
\* and only ICW3 moves the wiring.
LEMMA WritePortLemma ==
    ASSUME NEW W, NEW p \in Chip(W), NEW q, NEW g \in Repertoire(W), WritePort(p, q, g)
    PROVE  /\ q \in Chip(W)
           /\ q.asserted = p.asserted
           /\ p.irr \subseteq q.irr \/ \E c \in g.icw1 : q = WriteIcw1(p, c)
           /\ q.icw3 = p.icw3 \/ q.icw3 \in g.icw3
           /\ Held(p) => Held(q)
           /\ Plain(p) /\ PlainGuest(g) => Plain(q)
<1> DEFINE Good == /\ q \in Chip(W)
                   /\ q.asserted = p.asserted
                   /\ p.irr \subseteq q.irr
                   /\ q.icw3 = p.icw3 \/ q.icw3 \in g.icw3
                   /\ Held(p) => Held(q)
                   /\ Plain(p) /\ PlainGuest(g) => Plain(q)
<1>1. ASSUME NEW c \in g.icw1, q = WriteIcw1(p, c)
      PROVE  /\ q \in Chip(W)
             /\ q.asserted = p.asserted
             /\ SameConfig(p, q)
             /\ Held(q)
  <2>1. c.ic4 \in BOOLEAN /\ c.sngl \in BOOLEAN /\ c.ltim \in BOOLEAN
    BY DEF Repertoire, Icw1s
  <2>2. N - 1 \in Levels
    BY NAssumption DEF Levels
  <2>3. (IF c.ltim THEN p.asserted ELSE {}) \in SUBSET Levels
    BY DEF Chip
  <2>4. q \in Chip(W)
    BY <1>1, <2>1, <2>2, <2>3 DEF WriteIcw1, Chip, InitStages
  <2> QED BY <1>1, <2>1, <2>4 DEF WriteIcw1, Held, SameConfig
<1>2. ASSUME NEW c \in g.ocw3, q = WriteOcw3(p, c) PROVE Good
  <2> DEFINE ri == IF c.rr = "keep" THEN p.read_isr ELSE c.rr = "isr"
             pp == p.poll_pending \/ c.poll
             sm == IF c.smm = "keep" THEN p.special_mask ELSE c.smm = "on"
  <2>1. ri \in BOOLEAN /\ pp \in BOOLEAN /\ sm \in BOOLEAN
    BY Zenon DEF Chip
  <2>2. Plain(p) /\ PlainGuest(g) => ~sm
    BY DEF Plain, PlainGuest
  <2>3. q = [p EXCEPT !.read_isr = ri, !.poll_pending = pp, !.special_mask = sm]
    BY <1>2 DEF WriteOcw3
  <2> HIDE DEF ri, pp, sm
  <2>4. q \in Chip(W)
    <3>1. [p EXCEPT !.read_isr = ri] \in Chip(W)
      BY <2>1, Zenon DEF Chip
    <3>2. PICK r \in Chip(W) : r = [p EXCEPT !.read_isr = ri]
      BY <3>1, Zenon
    <3>3. [r EXCEPT !.poll_pending = pp] \in Chip(W)
      BY <2>1, Zenon DEF Chip
    <3>4. PICK t \in Chip(W) : t = [r EXCEPT !.poll_pending = pp]
      BY <3>3, Zenon
    <3>5. [t EXCEPT !.special_mask = sm] \in Chip(W)
      BY <2>1, Zenon DEF Chip
    <3> QED BY <2>3, <3>2, <3>4, <3>5, Zenon
  <2>5. /\ q.asserted = p.asserted /\ q.irr = p.irr /\ q.isr = p.isr
        /\ q.level_triggered = p.level_triggered
        /\ q.icw3 = p.icw3 /\ q.auto_eoi = p.auto_eoi /\ q.special_mask = sm
    BY <2>3 DEF Chip
  <2> QED BY <2>2, <2>4, <2>5 DEF Held, Plain
<1>3. ASSUME NEW c \in g.ocw2, EndOfInterrupt(p, q, c) PROVE Good
  <2>1. c \in Ocw2s
    BY DEF Repertoire
  <2> QED BY <1>3, <2>1, EndOfInterruptLemma DEF SameConfig, Plain
<1>4. ASSUME NEW b \in g.icw2, q = WriteIcw2(p, b) PROVE Good
  <2>1. b \in Bases
    BY DEF Repertoire
  <2> QED BY <1>4, <2>1, Zenon DEF WriteIcw2, AfterIcw3, Chip, InitStages, Held, Plain
<1>5. ASSUME NEW w \in g.icw3, q = WriteIcw3(p, w) PROVE Good
  <2>1. w \in W
    BY DEF Repertoire
  <2> QED BY <1>5, <2>1, Zenon DEF WriteIcw3, AfterIcw3, Chip, InitStages, Held, Plain
<1>6. ASSUME NEW c \in g.icw4, q = WriteIcw4(p, c) PROVE Good
  <2>1. c \in Icw4s
    BY DEF Repertoire
  <2> QED BY <1>6, <2>1, Zenon DEF WriteIcw4, Chip, InitStages, Icw4s, Held, Plain, PlainGuest
<1>7. ASSUME NEW mask \in g.ocw1, q = WriteOcw1(p, mask) PROVE Good
  <2>1. mask \in SUBSET Levels
    BY DEF Repertoire
  <2> QED BY <1>7, <2>1 DEF WriteOcw1, Chip, Held, Plain
<1> QED BY <1>1, <1>2, <1>3, <1>4, <1>5, <1>6, <1>7 DEF WritePort, SameConfig, Plain

\* A read that is not a poll changes nothing; a poll takes one request.
LEMMA ReadPortLemma ==
    ASSUME NEW W, NEW p \in Chip(W), NEW q, NEW exempt, ReadPort(p, q, exempt)
    PROVE  /\ q \in Chip(W)
           /\ q.asserted = p.asserted
           /\ \/ p.irr \subseteq q.irr
              \/ \E l \in Levels : /\ p.poll_pending
                                   /\ IsHighestPending(p, exempt, l)
                                   /\ p.irr \ {l} \subseteq q.irr
           /\ SameConfig(p, q)
           /\ Held(p) => Held(q)
<1> DEFINE r == [p EXCEPT !.poll_pending = FALSE]
<1>1. /\ r \in Chip(W)
      /\ r.asserted = p.asserted
      /\ r.irr = p.irr
      /\ SameConfig(p, r)
      /\ Held(p) => Held(r)
  BY Zenon DEF Chip, Held, SameConfig
<1>2. \A l \in Levels : IsHighestPending(r, exempt, l) => IsHighestPending(p, exempt, l)
  BY DEF IsHighestPending, Unblocked, Rank, Chip
<1>3. CASE ~p.poll_pending
  BY <1>3 DEF ReadPort, SameConfig
<1>4. CASE p.poll_pending /\ q = r
  BY <1>1, <1>4
<1>5. ASSUME p.poll_pending,
             NEW l \in Levels, IsHighestPending(r, exempt, l), q = SetInService(r, l)
      PROVE  /\ q \in Chip(W)
             /\ q.asserted = p.asserted
             /\ p.irr \ {l} \subseteq q.irr
             /\ SameConfig(p, q)
             /\ Held(p) => Held(q)
  <2> HIDE DEF r
  <2> QED BY <1>1, <1>5, SetInServiceLemma DEF SameConfig
<1> HIDE DEF r
<1>6. \/ ~p.poll_pending
      \/ p.poll_pending /\ q = r
      \/ p.poll_pending /\ \E l \in Levels : /\ IsHighestPending(r, exempt, l)
                                             /\ q = SetInService(r, l)
  BY Zenon DEF ReadPort, r
<1> QED BY <1>2, <1>3, <1>4, <1>5, <1>6

-----------------------------------------------------------------------------
(* The pair.                                                               *)

\* The slave drives a pin no device holds, and nothing else holds a line of
\* the master that has no device.
Wired ==
    /\ Pin \in {0} \cup SlaveGuest.icw3
    /\ master.asserted \subseteq MasterLevelLines \cup {Pin}

\* The INT output is up or down.
LEMMA SlaveIntBoolean == \A s : SlaveInt(s) \in BOOLEAN
BY DEF SlaveInt, HasPending

\* sync_cascade: the pin's level is the slave's INT output, and a rising pin
\* is latched.
LEMMA SyncCascadeLemma ==
    ASSUME NEW m \in Chip(SUBSET Levels), NEW s \in Chip(Levels)
    PROVE  LET q == SyncCascade(m, s)
           IN  /\ q \in Chip(SUBSET Levels)
               /\ q.asserted = IF SlaveInt(s) THEN m.asserted \cup {s.icw3}
                                              ELSE m.asserted \ {s.icw3}
               /\ SlaveInt(s) => m.irr \subseteq q.irr
               /\ SlaveInt(s) /\ s.icw3 \notin m.asserted => s.icw3 \in q.irr
               /\ Held(m) => Held(q)
<1> DEFINE W == SUBSET Levels
<1>1. s.icw3 \in Levels /\ m \in Chip(W)
  BY DEF Chip
<1>2. SlaveInt(s) => SyncCascade(m, s) = RaiseInput(m, s.icw3)
  BY SlaveIntBoolean DEF SyncCascade, SetInputLevel
<1>3. ~SlaveInt(s) => SyncCascade(m, s) = LowerInput(m, s.icw3)
  BY SlaveIntBoolean DEF SyncCascade, SetInputLevel
<1> HIDE DEF W
<1>4. CASE SlaveInt(s)
  <2>1. LET q == SyncCascade(m, s)
        IN  /\ q \in Chip(W)
            /\ q.asserted = m.asserted \cup {s.icw3}
            /\ m.irr \subseteq q.irr
            /\ s.icw3 \notin m.asserted => s.icw3 \in q.irr
            /\ Held(m) => Held(q)
    BY <1>1, <1>2, <1>4, RaiseLemma
  <2> QED BY <1>4, <2>1 DEF W
<1>5. CASE ~SlaveInt(s)
  <2>1. LET q == SyncCascade(m, s)
        IN  /\ q \in Chip(W)
            /\ q.asserted = m.asserted \ {s.icw3}
            /\ Held(m) => Held(q)
    BY <1>1, <1>3, <1>5, LowerLemma
  <2> QED BY <1>5, <2>1 DEF W
<1> QED BY <1>4, <1>5

\* A further request never takes the slave's INT output down.
LEMMA RequestKeepsInt ==
    ASSUME NEW s \in Chip(Levels), NEW l \in Levels, SlaveInt(s)
    PROVE  SlaveInt(Request(s, l))
<1> DEFINE t == Request(s, l)
<1>1. /\ t.irr = s.irr \cup {l} /\ t.imr = s.imr /\ t.isr = s.isr
      /\ t.special_mask = s.special_mask /\ t.lowest = s.lowest
  BY DEF Request, Chip
<1>2. \A m \in Levels : Rank(t, m) = Rank(s, m) /\ Rank(s, m) \in Int
  <2>1. s.lowest \in Int
    BY NAssumption DEF Chip, Levels
  <2> QED BY <1>1, <2>1, NAssumption DEF Rank, Levels
<1>3. PICK h \in Levels : IsHighestPending(s, {}, h)
  BY DEF SlaveInt, HasPending
<1>4. /\ \A m \in Levels : Unblocked(s, {}, m) => Unblocked(t, {}, m)
      /\ \A m \in Levels : Unblocked(t, {}, m) => Unblocked(s, {}, m) \/ m = l
  <2> HIDE DEF t
  <2>1. s.isr \subseteq Levels
    BY DEF Chip
  <2> QED BY <1>1, <1>2, <2>1 DEF Unblocked
<1> HIDE DEF t
<1>5. CASE Unblocked(t, {}, l) /\ Rank(s, l) < Rank(s, h)
  BY <1>2, <1>3, <1>4, <1>5 DEF IsHighestPending, SlaveInt, HasPending, t
<1>6. CASE ~(Unblocked(t, {}, l) /\ Rank(s, l) < Rank(s, h))
  BY <1>2, <1>3, <1>4, <1>6 DEF IsHighestPending, SlaveInt, HasPending, t
<1> QED BY <1>5, <1>6

\* Acknowledging the highest request of a plain slave blocks all its others.
LEMMA AckSilencesPlainSlave ==
    ASSUME NEW s \in Chip(Levels), NEW l \in Levels, Plain(s), IsHighestPending(s, {}, l)
    PROVE  ~SlaveInt(SetInService(s, l))
<1> DEFINE t == SetInService(s, l)
<1>1. /\ t.irr = s.irr \ {l} /\ t.imr = s.imr /\ t.isr = s.isr \cup {l}
      /\ t.special_mask = s.special_mask /\ t.lowest = s.lowest
  BY DEF SetInService, Chip, Plain
<1>2. \A m \in Levels : Rank(t, m) = Rank(s, m) /\ Rank(s, m) \in Int
  <2>1. s.lowest \in Int
    BY NAssumption DEF Chip, Levels
  <2> QED BY <1>1, <2>1, NAssumption DEF Rank, Levels
<1> HIDE DEF t
<1>3. \A m \in Levels : Unblocked(t, {}, m) => Unblocked(s, {}, m) /\ Rank(s, m) < Rank(s, l)
  <2>1. s.isr \subseteq Levels
    BY DEF Chip
  <2> QED BY <1>1, <1>2, <2>1 DEF Unblocked, Plain
<1> QED BY <1>2, <1>3 DEF SlaveInt, HasPending, IsHighestPending, t

\* The inductive invariant behind TypeOK, HeldLevelLatched and PinFollowsSlave.
PairInv == TypeOK /\ HeldLevelLatched /\ Wired /\ PinFollowsSlave

\* With it, and a slave that is never put in automatic EOI or special mask
\* mode, NoStrandedSlave is inductive too.
LinkInv == Plain(slave) /\ NoStrandedSlave

\* The pair at power on.
LEMMA PairInit == Init => PairInv /\ LinkInv
<1> SUFFICES ASSUME Init PROVE PairInv /\ LinkInv
  OBVIOUS
<1>1. 0 \in Levels /\ {} \in SUBSET Levels
  BY NAssumption DEF Levels
<1>2. TypeOK
  BY <1>1, BasesAssumption, Zenon DEF Init, TypeOK, Chip, PowerOn, InitStages
<1>3. ~SlaveInt(slave)
  BY DEF Init, PowerOn, SlaveInt, HasPending, IsHighestPending, Unblocked
<1>4. HeldLevelLatched /\ Wired /\ Plain(slave)
  BY DEF Init, PowerOn, HeldLevelLatched, Wired, Pin, Plain
<1>5. PinFollowsSlave
  BY DEF Init, PowerOn, PinFollowsSlave, Pin
<1> QED BY <1>2, <1>3, <1>4, <1>5 DEF PairInv, LinkInv, NoStrandedSlave

\* An operation on the slave that ends in sync_cascade and keeps its id.
LEMMA SyncStep ==
    ASSUME PairInv, slave' \in Chip(Levels), slave'.icw3 = Pin,
           master' = SyncCascade(master, slave')
    PROVE  /\ master' \in Chip(SUBSET Levels)
           /\ Held(master')
           /\ Wired'
           /\ PinFollowsSlave'
           /\ NoStrandedSlave /\ ~unlinked /\ SlaveInt(slave') => Pin' \in master'.irr
<1>1. /\ master \in Chip(SUBSET Levels) /\ Held(master)
      /\ Pin \in {0} \cup SlaveGuest.icw3
      /\ master.asserted \subseteq MasterLevelLines \cup {Pin}
      /\ Pin \in master.asserted => SlaveInt(slave)
  BY DEF PairInv, TypeOK, HeldLevelLatched, Held, Wired, PinFollowsSlave
<1>2. /\ master' \in Chip(SUBSET Levels)
      /\ master'.asserted = IF SlaveInt(slave') THEN master.asserted \cup {Pin}
                                                ELSE master.asserted \ {Pin}
      /\ SlaveInt(slave') => master.irr \subseteq master'.irr
      /\ SlaveInt(slave') /\ Pin \notin master.asserted => Pin \in master'.irr
      /\ Held(master')
  BY <1>1, SyncCascadeLemma, Zenon
<1>3. Pin' = Pin
  BY DEF Pin
<1>4. Wired'
  BY <1>1, <1>2, <1>3 DEF Wired
<1>5. PinFollowsSlave'
  BY <1>2, <1>3 DEF PinFollowsSlave
<1>6. NoStrandedSlave /\ ~unlinked /\ SlaveInt(slave') => Pin' \in master'.irr
  BY <1>1, <1>2, <1>3 DEF NoStrandedSlave
<1> QED BY <1>2, <1>4, <1>5, <1>6

\* Every step of a device, the guest or the CPU preserves PairInv.
LEMMA PairStep == PairInv /\ [Next]_vars => PairInv'
<1> SUFFICES ASSUME PairInv, [Next]_vars PROVE PairInv'
  OBVIOUS
<1> DEFINE W == SUBSET Levels
<1>1. /\ master \in Chip(W) /\ slave \in Chip(Levels) /\ unlinked \in BOOLEAN
      /\ Held(master) /\ Held(slave)
      /\ Pin \in {0} \cup SlaveGuest.icw3 /\ Pin \in Levels
      /\ master.asserted \subseteq MasterLevelLines \cup {Pin}
      /\ Pin \in master.asserted => SlaveInt(slave)
  BY DEF PairInv, TypeOK, HeldLevelLatched, Held, Wired, PinFollowsSlave, Pin, Chip
<1>2. \A b : Linking(b) => unlinked' \in BOOLEAN
  BY SlaveIntBoolean DEF Linking
<1>3. MasterGuest \in Repertoire(W) /\ SlaveGuest \in Repertoire(Levels)
  BY GuestAssumption
<1> DEFINE Good == /\ master' \in Chip(W) /\ slave' \in Chip(Levels)
                   /\ unlinked' \in BOOLEAN
                   /\ Held(master') /\ Held(slave') /\ Wired' /\ PinFollowsSlave'
<1>4. SUFFICES Good
  BY DEF PairInv, TypeOK, HeldLevelLatched, Held
<1> HIDE DEF W
<1>5. ASSUME UNCHANGED slave, master' \in Chip(W), Held(master'),
             master'.asserted = master.asserted, unlinked' \in BOOLEAN
      PROVE  Good
  BY <1>1, <1>5 DEF Wired, PinFollowsSlave, Pin, Held
<1>6. ASSUME slave' \in Chip(Levels), Held(slave'), slave'.icw3 = Pin,
             master' = SyncCascade(master, slave'), unlinked' \in BOOLEAN
      PROVE  Good
  BY <1>6, SyncStep DEF W
<1>7. ASSUME NEW l \in MasterPulses, RequestMaster(l) PROVE Good
  <2>1. /\ UNCHANGED slave /\ master' \in Chip(W) /\ Held(master')
        /\ master'.asserted = master.asserted /\ unlinked' \in BOOLEAN
    BY <1>1, <1>2, <1>7, LinesAssumption, RequestLemma, Zenon DEF RequestMaster
  <2> QED BY <1>5, <2>1
<1>8. ASSUME NEW l \in SlavePulses, RequestSlave(l) PROVE Good
  <2>1. /\ master' \in Chip(W) /\ Held(master') /\ master'.asserted = master.asserted
        /\ slave' \in Chip(Levels) /\ Held(slave') /\ slave'.icw3 = slave.icw3
        /\ unlinked' \in BOOLEAN
    BY <1>1, <1>2, <1>8, LinesAssumption, RequestLemma, Zenon DEF RequestSlave, SameConfig
  <2>2. SlaveInt(slave) => SlaveInt(slave')
    BY <1>1, <1>8, LinesAssumption, RequestKeepsInt DEF RequestSlave
  <2> QED BY <1>1, <2>1, <2>2 DEF Wired, PinFollowsSlave, Pin
<1>9. ASSUME NEW l \in MasterLevelLines, NEW up \in BOOLEAN, SetMasterLevel(l, up) PROVE Good
  <2>1. l \in Levels /\ l # Pin
    BY <1>1, LinesAssumption, WiringAssumption
  <2>2. /\ UNCHANGED slave /\ master' \in Chip(W) /\ Held(master') /\ unlinked' \in BOOLEAN
        /\ master'.asserted \in {master.asserted \cup {l}, master.asserted \ {l}}
    <3>1. master' \in {RaiseInput(master, l), LowerInput(master, l)}
      BY <1>9 DEF SetMasterLevel, SetInputLevel
    <3>2. /\ master' \in Chip(W) /\ Held(master')
          /\ master'.asserted \in {master.asserted \cup {l}, master.asserted \ {l}}
      BY <1>1, <2>1, <3>1, RaiseLemma, LowerLemma
    <3> QED BY <1>2, <1>9, <3>2, Zenon DEF SetMasterLevel
  <2> QED BY <1>1, <2>1, <2>2 DEF Wired, PinFollowsSlave, Pin, Held
<1>10. ASSUME NEW l \in SlaveLevelLines, NEW up \in BOOLEAN, SetSlaveLevel(l, up) PROVE Good
  <2>1. slave' \in Chip(Levels) /\ Held(slave') /\ slave'.icw3 = Pin /\ unlinked' \in BOOLEAN
    <3>1. slave' \in {RaiseInput(slave, l), LowerInput(slave, l)}
      BY <1>10 DEF SetSlaveLevel, SetInputLevel
    <3>2. l \in Levels
      BY LinesAssumption
    <3>3. slave' \in Chip(Levels) /\ Held(slave') /\ SameConfig(slave, slave')
      BY <1>1, <3>1, <3>2, RaiseLemma, LowerLemma
    <3> QED BY <1>2, <1>10, <3>3, Zenon DEF SetSlaveLevel, SameConfig, Pin
  <2> QED BY <1>6, <1>10, <2>1 DEF SetSlaveLevel
<1>11. CASE WriteMaster
  <2>1. /\ UNCHANGED slave /\ master' \in Chip(W) /\ Held(master')
        /\ master'.asserted = master.asserted /\ unlinked' \in BOOLEAN
    BY <1>1, <1>2, <1>3, <1>11, WritePortLemma, Zenon DEF WriteMaster
  <2> QED BY <1>5, <2>1
<1>12. CASE WriteSlave
  <2>1. /\ slave' \in Chip(Levels) /\ Held(slave') /\ unlinked' \in BOOLEAN
        /\ slave'.icw3 = Pin \/ slave'.icw3 \in SlaveGuest.icw3
    BY <1>1, <1>2, <1>3, <1>12, WritePortLemma, Zenon DEF WriteSlave, Pin
  <2>2. CASE slave'.icw3 = Pin
    BY <1>6, <1>12, <2>1, <2>2 DEF WriteSlave
  <2>3. CASE slave'.icw3 # Pin
    <3> DEFINE m == LowerInput(master, Pin)
    <3>1. m \in Chip(W) /\ Held(m) /\ m.asserted = master.asserted \ {Pin}
      BY <1>1, LowerLemma
    <3>2. master' = SyncCascade(m, slave')
      BY <1>12, <2>3 DEF WriteSlave
    <3> HIDE DEF m
    <3>3. /\ master' \in Chip(W) /\ Held(master')
          /\ master'.asserted = IF SlaveInt(slave') THEN m.asserted \cup {slave'.icw3}
                                                    ELSE m.asserted \ {slave'.icw3}
      BY <2>1, <3>1, <3>2, SyncCascadeLemma, Zenon DEF W
    <3>4. Wired' /\ PinFollowsSlave'
      BY <1>1, <2>1, <2>3, <3>1, <3>3 DEF Wired, PinFollowsSlave, Pin
    <3> QED BY <2>1, <3>3, <3>4
  <2> QED BY <2>2, <2>3
<1>13. CASE ReadMaster
  <2>1. /\ UNCHANGED slave /\ master' \in Chip(W) /\ Held(master')
        /\ master'.asserted = master.asserted /\ unlinked' \in BOOLEAN
    BY <1>1, <1>2, <1>13, ReadPortLemma DEF ReadMaster
  <2> QED BY <1>5, <2>1
<1>14. CASE ReadSlave
  <2>1. slave' \in Chip(Levels) /\ Held(slave') /\ slave'.icw3 = Pin /\ unlinked' \in BOOLEAN
    <3>1. ReadPort(slave, slave', {}) /\ unlinked' \in BOOLEAN
      BY <1>2, <1>14, Zenon DEF ReadSlave
    <3>2. slave' \in Chip(Levels) /\ SameConfig(slave, slave') /\ (Held(slave) => Held(slave'))
      BY <1>1, <3>1, ReadPortLemma, Zenon
    <3> QED BY <1>1, <3>1, <3>2, Zenon DEF SameConfig, Pin
  <2> QED BY <1>6, <1>14, <2>1 DEF ReadSlave
<1>15. ASSUME NEW l \in Levels, AckMaster(l) PROVE Good
  <2>1. /\ UNCHANGED slave /\ master' \in Chip(W) /\ Held(master')
        /\ master'.asserted = master.asserted /\ unlinked' \in BOOLEAN
    BY <1>1, <1>2, <1>15, SetInServiceLemma DEF AckMaster
  <2> QED BY <1>5, <2>1
<1> DEFINE a == SetInService(master, Pin)
<1>16. a \in Chip(W) /\ Held(a) /\ a.asserted = master.asserted
  BY <1>1, SetInServiceLemma
<1>17. ASSUME slave' \in Chip(Levels), Held(slave'), slave'.icw3 = Pin,
              master' = SyncCascade(a, slave'), unlinked' \in BOOLEAN
       PROVE  Good
  <2> HIDE DEF a
  <2>1. /\ master' \in Chip(W) /\ Held(master')
        /\ master'.asserted = IF SlaveInt(slave') THEN a.asserted \cup {Pin}
                                                  ELSE a.asserted \ {Pin}
    BY <1>16, <1>17, SyncCascadeLemma, Zenon DEF W
  <2> QED BY <1>1, <1>16, <1>17, <2>1 DEF Wired, PinFollowsSlave, Pin
<1>18. ASSUME NEW s \in Levels, AckSlave(s) PROVE Good
  <2>1. slave' \in Chip(Levels) /\ Held(slave') /\ slave'.icw3 = Pin /\ unlinked' \in BOOLEAN
    BY <1>1, <1>2, <1>18, SetInServiceLemma, Zenon DEF AckSlave, SameConfig, Pin
  <2> QED BY <1>17, <1>18, <2>1 DEF AckSlave
<1>19. CASE AckSpurious
  <2>1. slave' \in Chip(Levels) /\ Held(slave') /\ slave'.icw3 = Pin /\ unlinked' \in BOOLEAN
    BY <1>1, <1>2, <1>19, Zenon DEF AckSpurious, Pin
  <2>2. master' = SyncCascade(a, slave')
    BY <1>19 DEF AckSpurious
  <2> QED BY <1>17, <2>1, <2>2
<1>20. CASE UNCHANGED vars
  BY <1>1, <1>5, <1>20 DEF vars
<1> HIDE DEF Good
<1> QED
  BY <1>7, <1>8, <1>9, <1>10, <1>11, <1>12, <1>13, <1>14, <1>15, <1>18, <1>19, <1>20
     DEF Next, Device, Guest, Acknowledge

\* Every step preserves LinkInv, when the guest leaves the slave plain.
LEMMA LinkStep ==
    ASSUME PlainGuest(SlaveGuest), PairInv, LinkInv, [Next]_vars
    PROVE  LinkInv'
<1> DEFINE W == SUBSET Levels
<1>1. /\ master \in Chip(W) /\ slave \in Chip(Levels) /\ Plain(slave)
      /\ Pin \in {0} \cup SlaveGuest.icw3 /\ Pin \in Levels
      /\ master.asserted \subseteq MasterLevelLines \cup {Pin}
      /\ SlaveInt(slave) /\ ~unlinked => Pin \in master.irr
  BY DEF PairInv, TypeOK, Wired, Pin, Chip, LinkInv, NoStrandedSlave
<1>2. MasterGuest \in Repertoire(W) /\ SlaveGuest \in Repertoire(Levels)
  BY GuestAssumption
<1> HIDE DEF W
<1>3. \A b : Linking(b) /\ SlaveInt(slave') /\ ~unlinked' => ~unlinked /\ ~b
  BY Zenon DEF Linking
<1>4. ASSUME UNCHANGED slave,
             SlaveInt(slave) /\ ~unlinked' => ~unlinked /\ (Pin \in master.irr => Pin \in master'.irr)
      PROVE  LinkInv'
  BY <1>1, <1>4 DEF LinkInv, NoStrandedSlave, Plain, Pin
<1>5. ASSUME slave' \in Chip(Levels), Plain(slave'), slave'.icw3 = Pin, Linking(FALSE),
             master' = SyncCascade(master, slave')
      PROVE  LinkInv'
  <2>1. NoStrandedSlave /\ ~unlinked /\ SlaveInt(slave') => Pin' \in master'.irr
    BY <1>5, SyncStep
  <2>2. NoStrandedSlave
    BY DEF LinkInv
  <2> QED BY <1>3, <1>5, <2>1, <2>2, Zenon DEF LinkInv, NoStrandedSlave, Plain
<1>6. ASSUME NEW l \in MasterPulses, RequestMaster(l) PROVE LinkInv'
  <2>1. master' = Request(master, l) /\ UNCHANGED slave /\ Linking(FALSE)
    BY <1>6, Zenon DEF RequestMaster
  <2>2. master'.irr = master.irr \cup {l}
    BY <1>1, <2>1, LinesAssumption, RequestLemma
  <2> QED BY <1>3, <1>4, <2>1, <2>2, Zenon
<1>7. ASSUME NEW l \in SlavePulses, RequestSlave(l) PROVE LinkInv'
  <2>1. /\ Pin \in master'.irr
        /\ SameConfig(slave, slave')
    BY <1>1, <1>7, LinesAssumption, RequestLemma DEF RequestSlave
  <2> QED BY <1>1, <2>1 DEF LinkInv, NoStrandedSlave, Plain, Pin, SameConfig
<1>8. ASSUME NEW l \in MasterLevelLines, NEW up \in BOOLEAN, SetMasterLevel(l, up)
      PROVE  LinkInv'
  <2>1. l \in Levels /\ l # Pin
    BY <1>1, LinesAssumption, WiringAssumption
  <2>2. master' \in {RaiseInput(master, l), LowerInput(master, l)}
    BY <1>8 DEF SetMasterLevel, SetInputLevel
  <2>3. master.irr \ {l} \subseteq master'.irr
    BY <1>1, <2>1, <2>2, RaiseLemma, LowerLemma
  <2>4. UNCHANGED slave /\ Linking(FALSE)
    BY <1>8, Zenon DEF SetMasterLevel
  <2> QED BY <1>3, <1>4, <2>1, <2>3, <2>4, Zenon
<1>9. ASSUME NEW l \in SlaveLevelLines, NEW up \in BOOLEAN, SetSlaveLevel(l, up)
      PROVE  LinkInv'
  <2>1. slave' \in {RaiseInput(slave, l), LowerInput(slave, l)}
    BY <1>9 DEF SetSlaveLevel, SetInputLevel
  <2>2. l \in Levels
    BY LinesAssumption
  <2>3. slave' \in Chip(Levels) /\ SameConfig(slave, slave')
    BY <1>1, <2>1, <2>2, RaiseLemma, LowerLemma
  <2>4. Plain(slave') /\ slave'.icw3 = Pin
    BY <1>1, <2>3 DEF SameConfig, Plain, Pin
  <2> QED BY <1>5, <1>9, <2>3, <2>4 DEF SetSlaveLevel
<1>10. CASE WriteMaster
  <2> DEFINE icw1 == \E c \in MasterGuest.icw1 : master' = WriteIcw1(master, c)
  <2>1. UNCHANGED slave /\ Linking(icw1)
    BY <1>10, Zenon DEF WriteMaster
  <2>2. master.irr \subseteq master'.irr \/ icw1
    BY <1>1, <1>2, <1>10, WritePortLemma DEF WriteMaster
  <2> HIDE DEF icw1
  <2> QED BY <1>3, <1>4, <2>1, <2>2
<1>11. CASE WriteSlave
  <2>1. /\ slave' \in Chip(Levels) /\ Plain(slave')
        /\ slave'.icw3 = Pin \/ slave'.icw3 \in SlaveGuest.icw3
    <3>1. WritePort(slave, slave', SlaveGuest)
      BY <1>11 DEF WriteSlave
    <3> QED BY <1>1, <1>2, <3>1, WritePortLemma DEF Pin
  <2>2. CASE slave'.icw3 = Pin
    BY <1>5, <1>11, <2>1, <2>2 DEF WriteSlave
  <2>3. CASE slave'.icw3 # Pin
    <3> DEFINE m == LowerInput(master, Pin)
    <3>1. m \in Chip(W) /\ m.asserted = master.asserted \ {Pin}
      BY <1>1, LowerLemma
    <3>2. slave'.icw3 \notin m.asserted
      BY <1>1, <2>1, <2>3, <3>1, WiringAssumption
    <3>3. master' = SyncCascade(m, slave')
      BY <1>11, <2>3 DEF WriteSlave
    <3> HIDE DEF m
    <3>4. SlaveInt(slave') => slave'.icw3 \in master'.irr
      BY <2>1, <3>1, <3>2, <3>3, SyncCascadeLemma, Zenon DEF W
    <3> QED BY <2>1, <3>4 DEF LinkInv, NoStrandedSlave, Plain, Pin
  <2> QED BY <2>2, <2>3
<1>12. CASE ReadMaster
  <2> DEFINE took == master.poll_pending /\ IsHighestPending(master, Exempt, Pin)
  <2>1. UNCHANGED slave /\ Linking(took)
    BY <1>12 DEF ReadMaster
  <2>2. took \/ (Pin \in master.irr => Pin \in master'.irr)
    BY <1>1, <1>12, ReadPortLemma DEF ReadMaster
  <2> HIDE DEF took
  <2> QED BY <1>3, <1>4, <2>1, <2>2
<1>13. CASE ReadSlave
  <2>1. slave' \in Chip(Levels) /\ SameConfig(slave, slave')
    BY <1>1, <1>13, ReadPortLemma DEF ReadSlave
  <2>2. Plain(slave') /\ slave'.icw3 = Pin
    BY <1>1, <2>1 DEF SameConfig, Plain, Pin
  <2> QED BY <1>5, <1>13, <2>1, <2>2 DEF ReadSlave
<1>14. ASSUME NEW l \in Levels, AckMaster(l) PROVE LinkInv'
  <2>1. UNCHANGED slave /\ Linking(l = Pin)
    BY <1>14 DEF AckMaster
  <2>2. master.irr \ {l} \subseteq master'.irr
    BY <1>1, <1>14, SetInServiceLemma DEF AckMaster
  <2> QED BY <1>3, <1>4, <2>1, <2>2, Zenon
<1>15. ASSUME NEW s \in Levels, AckSlave(s) PROVE LinkInv'
  <2>1. SameConfig(slave, slave')
    BY <1>1, <1>15, SetInServiceLemma DEF AckSlave
  <2>2. ~SlaveInt(slave')
    BY <1>1, <1>15, AckSilencesPlainSlave DEF AckSlave
  <2> QED BY <1>1, <2>1, <2>2 DEF LinkInv, NoStrandedSlave, Plain, SameConfig
<1>16. CASE AckSpurious
  <2>1. UNCHANGED slave /\ ~SlaveInt(slave)
    BY <1>16 DEF AckSpurious
  <2> QED BY <1>4, <2>1
<1>17. CASE UNCHANGED vars
  BY <1>4, <1>17 DEF vars
<1> QED
  BY <1>6, <1>7, <1>8, <1>9, <1>10, <1>11, <1>12, <1>13, <1>14, <1>15, <1>16, <1>17
     DEF Next, Device, Guest, Acknowledge

-----------------------------------------------------------------------------
\* PairInv holds throughout.
LEMMA PairInvariance == Spec => []PairInv
<1>1. Init => PairInv
  BY PairInit
<1> QED BY <1>1, PairStep, PTL DEF Spec

\* Both chips always hold register values (type correctness of pic.rs's
\* struct Pic8259Pair under every sequence of port accesses and line changes).
THEOREM TypeCorrect == Spec => []TypeOK
BY PairInvariance, PTL DEF PairInv

\* A level-triggered chip never forgets a held line (set_input_level,
\* clear_in_service and the ICW1 branch of write_port).
THEOREM HeldLevel == Spec => []HeldLevelLatched
BY PairInvariance, PTL DEF PairInv

\* The cascade pin is low whenever the slave has nothing to deliver
\* (sync_cascade, also across a change of the slave's id).
THEOREM PinFollows == Spec => []PinFollowsSlave
BY PairInvariance, PTL DEF PairInv

\* When the guest puts the slave neither in automatic EOI nor in special mask
\* mode, no deliverable slave request is stranded (sync_cascade against the
\* edge detection of set_input_level).
THEOREM NoStranded == PlainGuest(SlaveGuest) => (Spec => []NoStrandedSlave)
<1> SUFFICES ASSUME PlainGuest(SlaveGuest) PROVE Spec => []NoStrandedSlave
  OBVIOUS
<1>1. Init => LinkInv
  BY PairInit
<1>2. PairInv /\ LinkInv /\ [Next]_vars => LinkInv'
  BY LinkStep
<1>3. LinkInv => NoStrandedSlave
  BY DEF LinkInv
<1> QED BY <1>1, <1>2, <1>3, PairInvariance, PTL DEF Spec
=============================================================================
