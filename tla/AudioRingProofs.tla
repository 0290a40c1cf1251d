-------------------------- MODULE AudioRingProofs ---------------------------
(***************************************************************************)
(* The queue's latency bound and the fate of the newest frame, for every   *)
(* size of the queue and of the batches, with the callback running between *)
(* any two steps of the producer.                                          *)
(***************************************************************************)
EXTENDS AudioRing, TLAPS

\* What is still to push fits below the mark that this path of queue aims at.
Fits ==
    /\ Len(ring) <= High
    /\ pc = "pad" => Len(ring) + filler + (pending.to - pending.from + 1) <= Target
    /\ pc = "audio" => Len(ring) + (pending.to - pending.from + 1) <= High
    /\ pc \in {"drain", "pad"} => pending.from <= pending.to
    /\ pc = "audio" => pending.from <= pending.to + 1

\* The frames in the ring ascend, come after the one last heard, and before
\* the ones still to push.
Ascending ==
    /\ heard <= produced
    /\ \A i \in 1 .. Len(ring) : ring[i] # Padding => heard < ring[i] /\ ring[i] <= produced
    /\ \A i, j \in 1 .. Len(ring) :
        i < j /\ ring[i] # Padding /\ ring[j] # Padding => ring[i] < ring[j]
    /\ pc # "idle" => /\ pending.to = produced
                      /\ pending.from <= pending.to => heard < pending.from
                      /\ \A i \in 1 .. Len(ring) :
                            ring[i] # Padding /\ pending.from <= pending.to
                                => ring[i] < pending.from

\* Once everything is pushed, the newest frame is last in the ring or heard.
NewestThere == heard = produced \/ (ring # <<>> /\ ring[Len(ring)] = produced)
Newest ==
    /\ pc = "idle" /\ produced > 0 => NewestThere
    /\ pc = "audio" /\ pending.from > pending.to => NewestThere

AInv == TypeOK /\ Fits /\ Ascending /\ Newest

\* A new ring holds Target frames of padding.
LEMMA InitAInv == Init => AInv
<1> SUFFICES ASSUME Init PROVE AInv
  OBVIOUS
<1>1. ring \in Seq({Padding}) /\ Len(ring) = Target /\ \A i \in 1 .. Len(ring) : ring[i] = Padding
  BY RingAssumption DEF Init
<1>4. live \in BOOLEAN
  BY Zenon DEF Init
<1>2. TypeOK
  BY <1>1, <1>4, RingAssumption DEF Init, FreshSource, TypeOK
<1>3. Fits /\ Ascending /\ Newest
  BY <1>1, RingAssumption DEF Init, Fits, Ascending, Newest
<1> QED
  BY <1>2, <1>3 DEF AInv

\* Taking the oldest entry away, whether the producer discards it or the
\* callback hears silence instead, leaves a shorter ring of the same frames.
LEMMA PopLemma ==
  ASSUME TypeOK, ring # <<>>
  PROVE  /\ Tail(ring) \in Seq(Nat \cup {Padding})
         /\ Len(Tail(ring)) = Len(ring) - 1
         /\ Len(ring) \in Nat \ {0}
         /\ \A i \in 1 .. Len(Tail(ring)) : i + 1 \in 1 .. Len(ring) /\ Tail(ring)[i] = ring[i + 1]
         /\ Head(ring) = ring[1]
  BY DEF TypeOK

\* Adding an entry puts it last and moves none.
LEMMA PushLemma ==
  ASSUME TypeOK, NEW e \in Nat \cup {Padding}
  PROVE  /\ Append(ring, e) \in Seq(Nat \cup {Padding})
         /\ Len(Append(ring, e)) = Len(ring) + 1
         /\ Len(ring) \in Nat
         /\ \A i \in 1 .. Len(ring) : Append(ring, e)[i] = ring[i]
         /\ Append(ring, e)[Len(ring) + 1] = e
  BY DEF TypeOK

\* The numbers the invariant compares.
LEMMA Numbers ==
  ASSUME TypeOK
  PROVE  /\ pending.from \in Nat /\ pending.to \in Nat /\ Len(ring) \in Nat
         /\ filler \in Nat /\ produced \in Nat /\ heard \in Nat
  BY DEF TypeOK

\* An entry of the ring that is not padding is a frame.
LEMMA Frames == ASSUME TypeOK PROVE \A i \in 1 .. Len(ring) : ring[i] # Padding => ring[i] \in Nat
  BY DEF TypeOK

\* A shorter ring leaves more room.
LEMMA PopFits ==
  ASSUME TypeOK, Fits, ring # <<>>, ring' = Tail(ring),
         pc' = pc, filler' = filler, pending' = pending
  PROVE  Fits'
<1> DEFINE from == pending.from
           to == pending.to
           len == Len(ring)
           rest == Len(ring')
<1>1. from \in Nat /\ to \in Nat /\ len \in Nat /\ filler \in Nat
  BY Numbers
<1>2. rest = len - 1
  BY PopLemma
<1>3. pending'.from = from /\ pending'.to = to /\ pc' = pc /\ filler' = filler
  OBVIOUS
<1>4. /\ len <= High
      /\ pc = "pad" => len + filler + (to - from + 1) <= Target
      /\ pc = "audio" => len + (to - from + 1) <= High
      /\ pc \in {"drain", "pad"} => from <= to
      /\ pc = "audio" => from <= to + 1
  BY DEF Fits
<1> HIDE DEF from, to, len, rest
<1>5. /\ rest <= High
      /\ pc = "pad" => rest + filler + (to - from + 1) <= Target
      /\ pc = "audio" => rest + (to - from + 1) <= High
  BY <1>1, <1>2, <1>4, RingAssumption
<1> QED
  BY <1>3, <1>4, <1>5 DEF Fits, from, to, rest

\* Without its first entry the ring still ascends, and if that entry was a
\* frame, from above it.
LEMMA PopAscending ==
  ASSUME TypeOK, Ascending, ring # <<>>, ring' = Tail(ring),
         pc' = pc, pending' = pending, produced' = produced,
         heard' \in {heard, ring[1]}, heard' = heard \/ ring[1] # Padding
  PROVE  Ascending'
<1>1. /\ Len(ring) \in Nat \ {0} /\ Len(ring') = Len(ring) - 1
      /\ \A i \in 1 .. Len(ring') : i + 1 \in 1 .. Len(ring) /\ ring'[i] = ring[i + 1]
  BY PopLemma
<1>2. /\ \A i \in 1 .. Len(ring) : ring[i] # Padding => heard < ring[i] /\ ring[i] <= produced
      /\ \A i, j \in 1 .. Len(ring) :
            i < j /\ ring[i] # Padding /\ ring[j] # Padding => ring[i] < ring[j]
      /\ heard <= produced
  BY DEF Ascending
<1>3. 1 \in 1 .. Len(ring) /\ \A i \in 1 .. Len(ring') : i \in Nat /\ 1 < i + 1
  BY <1>1
<1>h. heard' = heard \/ (heard' = ring[1] /\ ring[1] # Padding)
  OBVIOUS
<1>4. heard' <= produced'
  BY <1>2, <1>3, <1>h
<1>5. ASSUME NEW i \in 1 .. Len(ring'), ring'[i] # Padding
      PROVE  heard' < ring'[i] /\ ring'[i] <= produced'
  <2>1. i + 1 \in 1 .. Len(ring) /\ ring'[i] = ring[i + 1] /\ 1 < i + 1
    BY <1>1, <1>3
  <2> QED
    BY <1>2, <1>3, <1>5, <1>h, <2>1
<1>6. ASSUME NEW i \in 1 .. Len(ring'), NEW j \in 1 .. Len(ring'), i < j,
             ring'[i] # Padding, ring'[j] # Padding
      PROVE  ring'[i] < ring'[j]
  <2>1. /\ i + 1 \in 1 .. Len(ring) /\ ring'[i] = ring[i + 1]
        /\ j + 1 \in 1 .. Len(ring) /\ ring'[j] = ring[j + 1]
    BY <1>1
  <2>2. i + 1 < j + 1
    BY <1>6
  <2> QED
    BY <1>2, <1>6, <2>1, <2>2
<1>7. pc # "idle" =>
        /\ pending.to = produced
        /\ pending.from <= pending.to => heard' < pending.from
        /\ \A i \in 1 .. Len(ring') : ring'[i] # Padding /\ pending.from <= pending.to
                                         => ring'[i] < pending.from
  <2>1. pc # "idle" =>
          /\ pending.to = produced
          /\ pending.from <= pending.to => heard < pending.from
          /\ \A i \in 1 .. Len(ring) : ring[i] # Padding /\ pending.from <= pending.to
                                          => ring[i] < pending.from
    BY DEF Ascending
  <2> QED
    BY <1>1, <1>3, <1>h, <2>1, Zenon
<1> QED
  BY <1>4, <1>5, <1>6, <1>7, Zenon DEF Ascending

\* queue: a fresh batch follows everything made before.
LEMMA QueueStep == ASSUME AInv, NEW n \in BatchSizes, Queue(n) PROVE AInv'
<1> USE RingAssumption
<1>1. n \in Nat \ {0} /\ Len(ring) \in Nat /\ Len(ring') \in Nat /\ ring' = ring
  BY DEF Queue, AInv, TypeOK
<1>2. TypeOK'
  BY <1>1 DEF AInv, TypeOK, Queue
<1>3. Fits'
  BY <1>1 DEF AInv, TypeOK, Fits, Queue
<1>4. Ascending'
  <2>1. /\ heard \in Nat /\ produced \in Nat /\ heard <= produced
        /\ \A i \in 1 .. Len(ring) : ring[i] # Padding =>
              ring[i] \in Nat /\ heard < ring[i] /\ ring[i] <= produced
        /\ \A i, j \in 1 .. Len(ring) :
              i < j /\ ring[i] # Padding /\ ring[j] # Padding => ring[i] < ring[j]
    BY Numbers, Frames DEF AInv, Ascending
  <2>2. /\ produced' = produced + n /\ heard' = heard
        /\ pending'.from = produced + 1 /\ pending'.to = produced + n
    BY DEF Queue
  <2>3. heard <= produced + n /\ heard < produced + 1
    BY <1>1, <2>1
  <2>4. \A i \in 1 .. Len(ring) :
            ring[i] # Padding => ring[i] <= produced + n /\ ring[i] < produced + 1
    BY <1>1, <2>1
  <2> QED
    BY <1>1, <2>1, <2>2, <2>3, <2>4, Zenon DEF Ascending
<1>5. Newest'
  BY <1>1 DEF AInv, TypeOK, Newest, Queue
<1> QED
  BY <1>2, <1>3, <1>4, <1>5 DEF AInv

\* recover_to_target, emptying the ring.
LEMMA DrainStep == ASSUME AInv, Drain PROVE AInv'
<1> USE RingAssumption
<1>1. ring # <<>> /\ ring' = Tail(ring) /\ pc = "drain" /\ pc' = "drain"
  BY DEF Drain
<1>6. /\ TypeOK /\ Fits /\ Ascending
      /\ pc' = pc /\ filler' = filler /\ pending' = pending /\ produced' = produced
      /\ heard' = heard
  BY DEF AInv, Drain
<1>2. TypeOK'
  BY <1>1, PopLemma DEF AInv, TypeOK, Drain
<1>3. Fits'
  BY <1>1, <1>6, PopFits, Zenon
<1>4. Ascending'
  <2>1. heard' \in {heard, ring[1]} /\ (heard' = heard \/ ring[1] # Padding)
    BY <1>6
  <2> QED
    BY <1>1, <1>6, <2>1, PopAscending, Zenon
<1>5. Newest'
  BY <1>1 DEF Newest
<1> QED
  BY <1>2, <1>3, <1>4, <1>5 DEF AInv

\* recover_to_target, trimming the batch.
LEMMA DrainedStep == ASSUME AInv, Drained PROVE AInv'
<1> USE RingAssumption
<1>1. ring = <<>> /\ ring' = ring /\ Len(ring) = 0 /\ pc = "drain" /\ pc' = "pad"
  BY DEF Drained
<1>2. pending.from \in Nat /\ pending.to \in Nat /\ pending.from <= pending.to
  BY <1>1 DEF AInv, TypeOK, Fits
<1>3. /\ AudioCount \in Nat \ {0} /\ AudioCount <= Target - Ramp
      /\ AudioCount <= pending.to - pending.from + 1
  BY <1>2 DEF AudioCount
<1>4. /\ filler' = Target - AudioCount
      /\ pending' = [from |-> pending.to - AudioCount + 1, to |-> pending.to]
      /\ UNCHANGED <<produced, live, source, heard>>
  BY DEF Drained, AInv, TypeOK
<1>5. TypeOK'
  BY <1>1, <1>2, <1>3, <1>4 DEF AInv, TypeOK
<1>6. Fits'
  BY <1>1, <1>2, <1>3, <1>4 DEF Fits
<1>7. Ascending'
  BY <1>1, <1>2, <1>3, <1>4 DEF AInv, TypeOK, Ascending
<1>8. Newest'
  BY <1>1 DEF Newest
<1> QED
  BY <1>5, <1>6, <1>7, <1>8 DEF AInv

\* push_padding.
LEMMA PadStep == ASSUME AInv, Pad PROVE AInv'
<1> USE RingAssumption
<1>0. TypeOK /\ pc = "pad" /\ UNCHANGED <<pending, produced, live, source, heard>>
  BY DEF AInv, Pad
<1>1. CASE filler > 0 /\ Len(ring) < Capacity
  <2>1. ring' = Append(ring, Padding) /\ filler' = filler - 1 /\ pc' = "pad"
    BY <1>1 DEF Pad
  <2>2. TypeOK'
    BY <1>0, <1>1, <2>1, PushLemma DEF TypeOK
  <2>3. Fits'
    <3> DEFINE len == Len(ring)
               more == pending.to - pending.from + 1
    <3>1. len \in Nat /\ filler \in Nat /\ more \in Int /\ Len(ring') = len + 1
      BY <1>0, <2>1, Numbers, PushLemma
    <3>2. len + filler + more <= Target /\ pending.from <= pending.to /\ more >= 0
      BY <1>0, Numbers DEF AInv, Fits
    <3> HIDE DEF len, more
    <3>3. len + 1 <= High /\ (len + 1) + (filler - 1) + more <= Target
      BY <1>1, <3>1, <3>2
    <3> QED
      BY <1>0, <2>1, <3>1, <3>2, <3>3 DEF Fits, more
  <2>4. Ascending'
    BY <1>0, <2>1, PushLemma DEF AInv, TypeOK, Ascending
  <2>5. Newest'
    BY <2>1 DEF Newest
  <2> QED
    BY <2>2, <2>3, <2>4, <2>5 DEF AInv
<1>2. CASE ~(filler > 0 /\ Len(ring) < Capacity)
  <2>1. pc' = "audio" /\ filler' = 0 /\ ring' = ring
    BY <1>2 DEF Pad
  <2>2. TypeOK'
    BY <1>0, <2>1 DEF TypeOK
  <2>3. Fits'
    <3> DEFINE len == Len(ring)
               more == pending.to - pending.from + 1
    <3>1. len \in Nat /\ filler \in Nat /\ more \in Int
      BY <1>0, Numbers
    <3>2. len + filler + more <= Target /\ pending.from <= pending.to + 1 /\ len <= High
      BY <1>0, Numbers DEF AInv, Fits
    <3> HIDE DEF len, more
    <3>3. len + more <= High
      BY <3>1, <3>2
    <3> QED
      BY <1>0, <2>1, <3>2, <3>3 DEF Fits, len, more
  <2>4. Ascending'
    BY <1>0, <2>1 DEF AInv, Ascending
  <2>5. Newest'
    BY <1>0, <2>1 DEF AInv, TypeOK, Fits, Newest
  <2> QED
    BY <2>2, <2>3, <2>4, <2>5 DEF AInv
<1> QED
  BY <1>1, <1>2

\* The push loop: there is always room, and the batch's last frame is the
\* newest one made.
LEMMA PushStep == ASSUME AInv, Push PROVE AInv'
<1> USE RingAssumption
<1>0. TypeOK /\ pc = "audio" /\ UNCHANGED <<filler, produced, live, source, heard>>
  BY DEF AInv, Push
<1>1. CASE pending.from <= pending.to /\ Len(ring) < Capacity
  <2>1. /\ ring' = Append(ring, pending.from) /\ pc' = "audio"
        /\ pending' = [from |-> pending.from + 1, to |-> pending.to]
        /\ pending.from \in Nat /\ pending.to \in Nat
    <3>1. pending \in [from : Nat, to : Nat]
      BY <1>0 DEF TypeOK
    <3>2. /\ ring' = Append(ring, pending.from) /\ pc' = "audio"
          /\ pending' = [pending EXCEPT !.from = @ + 1]
      BY <1>0, <1>1, Zenon DEF Push
    <3> QED
      BY <3>1, <3>2
  <2>p. /\ ring' \in Seq(Nat \cup {Padding})
        /\ Len(ring') = Len(ring) + 1 /\ Len(ring) \in Nat
        /\ \A i \in 1 .. Len(ring) : ring'[i] = ring[i]
        /\ ring'[Len(ring')] = pending.from
    BY <1>0, <2>1, PushLemma
  <2>2. TypeOK'
    BY <1>0, <2>1, <2>p DEF TypeOK
  <2>3. Fits'
    <3>1. Len(ring) + (pending.to - pending.from + 1) <= High
      BY <1>0 DEF AInv, Fits
    <3>2. pending'.from = pending.from + 1 /\ pending'.to = pending.to
      BY <2>1
    <3> DEFINE from == pending.from
               to == pending.to
    <3>3. from \in Nat /\ to \in Nat /\ from <= to /\ Len(ring) \in Nat
      BY <1>1, <2>1, <2>p
    <3>4. Len(ring) + (to - from + 1) <= High
      BY <3>1
    <3> HIDE DEF from, to
    <3>5. /\ Len(ring) + 1 <= High
          /\ (Len(ring) + 1) + (to - (from + 1) + 1) <= High
          /\ from + 1 <= to + 1
      BY <3>3, <3>4
    <3> QED
      BY <2>1, <2>p, <3>2, <3>5, Zenon DEF Fits, from, to
  <2>4. Ascending'
    <3>1. /\ heard \in Nat /\ produced \in Nat /\ pending.from # Padding
          /\ \A i \in 1 .. Len(ring) : ring[i] # Padding => ring[i] \in Nat
      BY <1>0, <2>1 DEF TypeOK
    <3>2. \A i \in 1 .. Len(ring') : i \in 1 .. Len(ring) \/ i = Len(ring')
      BY <2>p
    <3>3. \A i \in 1 .. Len(ring) : ring[i] # Padding => ring[i] < pending.from
      BY <1>0, <1>1 DEF AInv, Ascending
    <3>4. pending.to = produced /\ heard < pending.from /\ heard <= produced
      BY <1>0, <1>1 DEF AInv, Ascending
    <3>5. \A i \in 1 .. Len(ring') :
              ring'[i] # Padding => /\ heard < ring'[i] /\ ring'[i] <= produced
                                    /\ ring'[i] < pending.from + 1
      BY <1>1, <2>1, <2>p, <3>1, <3>2, <3>3, <3>4 DEF AInv, Ascending
    <3>6. \A i, j \in 1 .. Len(ring') :
              i < j /\ ring'[i] # Padding /\ ring'[j] # Padding => ring'[i] < ring'[j]
      BY <2>p, <3>2, <3>3 DEF AInv, Ascending
    <3> QED
      BY <1>0, <2>1, <3>1, <3>4, <3>5, <3>6 DEF Ascending
  <2>5. Newest'
    BY <1>0, <1>1, <2>1, <2>p DEF AInv, TypeOK, Ascending, Newest, NewestThere
  <2> QED
    BY <2>2, <2>3, <2>4, <2>5 DEF AInv
<1>2. CASE ~(pending.from <= pending.to /\ Len(ring) < Capacity)
  <2>1. pc' = "idle" /\ ring' = ring /\ pending' = pending
    BY <1>2 DEF Push
  <2>2. pending.from > pending.to
    BY <1>0, <1>2 DEF AInv, TypeOK, Fits
  <2>3. TypeOK'
    BY <1>0, <2>1 DEF TypeOK
  <2>4. Fits'
    BY <1>0, <2>1 DEF AInv, TypeOK, Fits
  <2>5. Ascending'
    BY <1>0, <2>1 DEF AInv, Ascending
  <2>6. Newest'
    BY <1>0, <2>1, <2>2 DEF AInv, Newest, NewestThere
  <2> QED
    BY <2>3, <2>4, <2>5, <2>6 DEF AInv
<1> QED
  BY <1>1, <1>2

\* The callback: silence, padding or the oldest frame.
LEMMA CallbackStep == ASSUME AInv, CallbackNext PROVE AInv'
<1> USE RingAssumption
<1>0. TypeOK /\ UNCHANGED <<pc, filler, pending, produced, live>>
  BY DEF AInv, CallbackNext
<1>a. /\ TypeOK /\ Fits /\ Ascending
      /\ pc' = pc /\ filler' = filler /\ pending' = pending /\ produced' = produced
  BY <1>0 DEF AInv
<1>f. Faded \in [last : Nat, gain : 0 .. Ramp]
  <2>1. source \in [last : Nat, gain : 0 .. Ramp]
    BY <1>0 DEF TypeOK
  <2> QED
    BY <2>1 DEF Faded
<1>1. CASE ring' = ring /\ heard' = heard /\ source' = Faded
  BY <1>0, <1>1, <1>f DEF AInv, TypeOK, Fits, Ascending, Newest, NewestThere
<1>2. CASE ring # <<>> /\ Head(ring) = Padding /\ ring' = Tail(ring) /\ source' = Faded
           /\ heard' = heard
  <2>1. TypeOK'
    BY <1>0, <1>2, <1>f, PopLemma DEF TypeOK
  <2>2. Fits'
    BY <1>a, <1>2, PopFits, Zenon
  <2>3. Ascending'
    <3>1. heard' \in {heard, ring[1]} /\ (heard' = heard \/ ring[1] # Padding)
      BY <1>2
    <3> QED
      BY <1>a, <1>2, <3>1, PopAscending, Zenon
  <2>4. NewestThere => NewestThere'
    <3>1. CASE heard = produced
      BY <1>0, <1>2, <3>1 DEF NewestThere
    <3>2. CASE ring[Len(ring)] = produced
      <4>1. Len(ring) # 1
        BY <1>0, <1>2, <3>2, PopLemma DEF TypeOK
      <4>2. Len(ring') \in 1 .. Len(ring') /\ ring'[Len(ring')] = ring[Len(ring)]
        BY <1>0, <1>2, <4>1, PopLemma
      <4> QED
        BY <1>0, <3>2, <4>2 DEF NewestThere
    <3> QED
      BY <3>1, <3>2 DEF NewestThere
  <2>5. Newest'
    BY <1>0, <2>4 DEF AInv, Newest
  <2> QED
    BY <2>1, <2>2, <2>3, <2>5 DEF AInv
<1>3. CASE /\ ring # <<>> /\ Head(ring) # Padding /\ ring' = Tail(ring)
           /\ source' = [last |-> Head(ring),
                         gain |-> IF source.gain < Ramp THEN source.gain + 1 ELSE Ramp]
           /\ heard' = Head(ring)
  <2>0. Head(ring) \in Nat /\ Head(ring) = ring[1] /\ 1 \in 1 .. Len(ring)
    BY <1>0, <1>3, PopLemma DEF TypeOK
  <2>1. TypeOK'
    BY <1>0, <1>3, <2>0, PopLemma DEF TypeOK
  <2>2. Fits'
    BY <1>a, <1>3, PopFits, Zenon
  <2>3. Ascending'
    <3>1. heard' \in {heard, ring[1]} /\ (heard' = heard \/ ring[1] # Padding)
      BY <1>3, <2>0
    <3> QED
      BY <1>a, <1>3, <3>1, PopAscending, Zenon
  <2>4. NewestThere => NewestThere'
    <3>1. heard # produced
      BY <1>0, <1>3, <2>0 DEF AInv, TypeOK, Ascending
    <3>2. CASE Len(ring) = 1
      BY <1>0, <1>3, <2>0, <3>1, <3>2 DEF NewestThere
    <3>3. CASE Len(ring) # 1
      <4>1. Len(ring') \in 1 .. Len(ring') /\ ring'[Len(ring')] = ring[Len(ring)]
        BY <1>0, <1>3, <3>3, PopLemma
      <4> QED
        BY <1>0, <3>1, <4>1 DEF NewestThere
    <3> QED
      BY <3>2, <3>3
  <2>5. Newest'
    BY <1>0, <2>4 DEF AInv, Newest
  <2> QED
    BY <2>1, <2>2, <2>3, <2>5 DEF AInv
<1> QED
  BY <1>1, <1>2, <1>3 DEF CallbackNext

\* Streams that come and go leave the ring alone.
LEMMA StreamStep ==
  ASSUME AInv, StreamEnds \/ StreamOpens \/ UNCHANGED vars
  PROVE  AInv'
<1>1. /\ UNCHANGED <<ring, pc, filler, pending, produced, heard>>
      /\ live' \in BOOLEAN
      /\ source' \in [last : Nat, gain : 0 .. Ramp]
  <2>1. FreshSource \in [last : Nat, gain : 0 .. Ramp]
    BY RingAssumption DEF FreshSource
  <2>2. source \in [last : Nat, gain : 0 .. Ramp] /\ live \in BOOLEAN
    BY DEF AInv, TypeOK
  <2> QED
    BY <2>1, <2>2, Zenon DEF StreamEnds, StreamOpens, vars
<1> QED
  BY <1>1 DEF AInv, TypeOK, Fits, Ascending, Newest, NewestThere

\* Every step keeps AInv.
LEMMA NextAInv == AInv /\ [Next]_vars => AInv'
  BY QueueStep, DrainStep, DrainedStep, PadStep, PushStep, CallbackStep, StreamStep
     DEF Next, Producer

\* AInv holds throughout.
THEOREM AInvHolds == Spec => []AInv
  BY InitAInv, NextAInv, PTL DEF Spec

\* The variables keep their types.
THEOREM RingTypeCorrect == Spec => []TypeOK
<1>1. AInv => TypeOK
  BY DEF AInv
<1> QED
  BY <1>1, AInvHolds, PTL

\* The queue stays below HIGH_FRAMES and none of its pushes fails.
THEOREM LatencyTheorem == Spec => []LatencyBounded
<1>1. AInv => LatencyBounded
  BY RingAssumption DEF AInv, TypeOK, Fits, LatencyBounded
<1> QED
  BY <1>1, AInvHolds, PTL

\* Whenever queue has returned, the newest frame is last in line or played.
THEOREM NewestTheorem == Spec => []NewestKept
<1>1. AInv => NewestKept
  BY DEF AInv, Newest, NewestThere, NewestKept
<1> QED
  BY <1>1, AInvHolds, PTL
=============================================================================
