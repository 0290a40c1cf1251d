------------------------- MODULE AudioOutputProofs --------------------------
(***************************************************************************)
(* The whole audio output implements the queue's specification, for every  *)
(* size of the queue, retry interval and number of faults: what            *)
(* AudioRingProofs proves of the queue holds of the output.                *)
(***************************************************************************)
EXTENDS AudioOutput, StreamRecoveryProofs

\* Every step of the player, the host, the emulation thread and the callback
\* is one of the player's own specification or leaves its variables alone.
LEMMA PlayerSteps == [ONext]_ovars => [Next]_vars
  BY DEF ONext, Player, OpenStream, Host, Emulation, Callback, Next, Owner, ovars

\* The player's invariant holds in the composition.
LEMMA OutputRInv == OSpec => []RInv
<1>1. OInit => RInv
  BY InitRInv DEF OInit
<1>2. RInv /\ [ONext]_ovars => RInv'
  BY NextRInv, PlayerSteps
<1> QED
  BY <1>1, <1>2, PTL DEF OSpec

\* A stream is opened only while none calls back, with a callback state that
\* starts silent: the queue sees StreamOpens (poll_recover).
LEMMA OpenMaps == ASSUME RInv, OpenStream PROVE Ring!StreamOpens
<1>1. stream # "live" /\ fresh # "live" /\ fresh' = "live"
  BY DEF RInv, Flagged, OpenStream, Build
<1>2. ~Calling
  BY <1>1 DEF Calling
<1>3. Calling' = TRUE
  BY <1>1 DEF Calling
<1> QED
  BY <1>2, <1>3 DEF OpenStream, Ring!StreamOpens

\* Any other step of the player or the host can only silence the callback.
LEMMA StreamMaps ==
  ASSUME RInv, Next, ~Build, UNCHANGED ringVars
  PROVE  Ring!StreamEnds \/ UNCHANGED Ring!vars
<1>1. "live" \in {stream', fresh'} => "live" \in {stream, fresh}
  BY DEF RInv, TypeOK, Streams, Next, Owner, Poll, Clear, OpenFails, Opened, Install,
         StreamEnds, Report, Unplug, Plug, Tick
<1>2. Calling' => Calling
  BY <1>1 DEF Calling
<1>3. CASE Calling /\ ~Calling'
  <2>1. Calling' = FALSE
    BY <1>3 DEF Calling
  <2> QED
    BY <1>3, <2>1 DEF Ring!StreamEnds, ringVars
<1>4. CASE Calling' = Calling
  BY <1>4 DEF Ring!vars, ringVars
<1>5. Calling \in BOOLEAN /\ Calling' \in BOOLEAN
  BY DEF Calling
<1> QED
  BY <1>2, <1>3, <1>4, <1>5

\* Each step of the output is a step of the queue's specification or leaves
\* the queue alone.
LEMMA StepMaps == ASSUME RInv, [ONext]_ovars PROVE [Ring!Next]_(Ring!vars)
<1>1. CASE OpenStream
  BY <1>1, OpenMaps DEF Ring!Next
<1>2. CASE Next /\ ~Build /\ UNCHANGED ringVars
  BY <1>2, StreamMaps DEF Ring!Next
<1>3. CASE Emulation
  BY <1>3 DEF Emulation, Ring!Next
<1>4. CASE Callback
  BY <1>4 DEF Callback, Ring!Next
<1>5. CASE UNCHANGED ovars
  <2>1. Calling' = Calling
    BY <1>5 DEF ovars, vars, Calling
  <2> QED
    BY <1>5, <2>1 DEF ovars, ringVars, Ring!vars
<1> QED
  BY <1>1, <1>2, <1>3, <1>4, <1>5, Zenon
     DEF ONext, Player, Host, Next, Owner, Poll, Clear, Build, OpenFails, Opened, Install,
         StreamEnds, Report, Unplug, Plug, Tick

\* The whole output, with its streams failing and reopening and its device
\* coming and going, implements the queue's specification.
THEOREM OutputImplementsRing == OSpec => ImplementsRing
<1>1. OInit => Ring!Init
  BY DEF OInit
<1>2. RInv /\ [ONext]_ovars => [Ring!Next]_(Ring!vars)
  BY StepMaps
<1> QED
  BY <1>1, <1>2, OutputRInv, PTL DEF OSpec, ImplementsRing, Ring!Spec
=============================================================================
