-------------------------- MODULE GuiSessionProofs --------------------------
(***************************************************************************)
(* Every accepted request is answered once and in order, and a guest write *)
(* to a floppy is lost in silence only if a write-back and the next start  *)
(* both fail: for any number of images, requests, generations and faults.  *)
(***************************************************************************)
EXTENDS GuiSession, TLAPS

\* Zenon proves the steps; SMT is named where numbers or records need it.
USE Zenon

Phases == {"none", "starting", "running", "answering", "finalizing", "returned", "finished"}
Media == Floppies \cup {None}
Commands == [id : Nat, kind : Kinds \cup {"shutdown"}, floppy : Media]
Threads == [phase : Phases, floppy : Media, answer : Nat, lost : SUBSET Writes]

Types ==
    /\ gui \in [at : {"free", "joining", "starting"},
                why : {None, "reset", "power_off", "shutdown"},
                carried : SUBSET Writes, lost : SUBSET Writes]
    /\ next_request_id \in Nat \ {0}
    /\ commands \in Seq(Commands)
    /\ startup \in {None, "ok", "err"}
    /\ thread \in Threads
    /\ file \in [Sources -> SUBSET Writes]
    /\ written \in [Sources -> SUBSET Writes]

\* How the threads stand to each other.
Handshake ==
    /\ gui.at = "joining" => running
    /\ gui.at = "starting" => ~running
    /\ gui.at # "starting" => startup = None /\ gui.lost = {} /\ gui.carried = {}
    /\ gui.at = "free" /\ ~running => thread = NoThread
    /\ thread.phase = "starting" => gui.at = "starting" /\ startup = None
    /\ startup = "err" => thread.phase \in {"finalizing", "returned", "finished"}
    /\ gui.at = "starting" /\ startup = None => thread.phase = "starting"

-----------------------------------------------------------------------------
(* Answers.                                                                *)

Done == Len(answers) + Len(pending_events)
Sent == Done + Len(published) + (IF thread.phase = "answering" THEN 1 ELSE 0)
Joining == gui.at = "joining"

\* The answers given, waiting and published are consecutive.
InOrder ==
    /\ answers \in Seq(Nat) /\ pending_events \in Seq(Nat) /\ published \in Seq(Nat)
    /\ \A i \in 1 .. Len(answers) : answers[i] = i
    /\ \A i \in 1 .. Len(pending_events) : pending_events[i] = Len(answers) + i
    /\ \A i \in 1 .. Len(published) : published[i] = Done + i
    /\ Done + Len(published) < next_request_id
    /\ outstanding = (Done + 1) .. (next_request_id - 1)

\* The channel of a thread that still reads it holds the other requests, in
\* order, and Shutdown at its end if the GUI waits to join.
Channel ==
    thread.phase \in {"starting", "running", "answering"} =>
        /\ thread.phase = "answering" => thread.answer = Sent
        /\ Len(commands) = (IF Joining THEN next_request_id ELSE next_request_id - 1) - Sent
        /\ Joining => /\ Len(commands) > 0
                      /\ commands[Len(commands)].kind = "shutdown"
        /\ \A i \in 1 .. Len(commands) :
            commands[i].kind # "shutdown" => commands[i].id = Sent + i
        /\ \A i \in 1 .. Len(commands) :
            commands[i].kind = "shutdown" => Joining /\ i = Len(commands)

\* Without a worker nothing waits for an answer.
Idle == ~running => published = <<>> /\ commands = <<>> /\ Done = next_request_id - 1

AnswerInv == Types /\ Handshake /\ InOrder /\ Channel /\ Idle

-----------------------------------------------------------------------------
(* Guest writes.                                                           *)

\* Guest writes are numbered; each went to one image.
Numbered ==
    /\ \A s, t \in Sources : s # t => written[s] \cap written[t] = {}
    /\ \E n \in Nat : UNION {written[s] : s \in Sources} = 1 .. n
    /\ \A s \in Sources : file[s] \subseteq written[s]

\* The image in the drive holds at least what its file holds.
Drive ==
    thread.floppy # None =>
        LET f == thread.floppy
        IN  /\ file[f.source] \subseteq f.image /\ f.image \subseteq written[f.source]
            /\ ~f.unsaved => f.image = file[f.source]

\* The images on their way to the drive are copies of their files, each of
\* an image that is neither in the drive nor on its way twice.
Waiting ==
    \A i \in 1 .. Len(commands) : commands[i].floppy # None =>
        LET f == commands[i].floppy
        IN  /\ ~f.unsaved /\ f.image = file[f.source]
            /\ thread.floppy # None => thread.floppy.source # f.source
            /\ \A j \in 1 .. Len(commands) :
                   j # i /\ commands[j].floppy # None => commands[j].floppy.source # f.source

\* What a thread reports as lost is what its image has over the file.
Lost ==
    /\ thread.phase \notin {"returned", "finished"} => thread.lost = {}
    /\ thread.phase \in {"returned", "finished"} /\ thread.floppy # None =>
        thread.lost = IF thread.floppy.unsaved
                      THEN thread.floppy.image \ file[thread.floppy.source] ELSE {}

\* Until a generation has started, all it could lose was carried over to it.
Carry ==
    gui.at = "starting" /\ startup # "ok" =>
        /\ thread.lost \subseteq gui.carried
        /\ thread.floppy # None =>
              thread.floppy.image \ file[thread.floppy.source] \subseteq gui.carried

InDrive(s, w) ==
    /\ thread.floppy # None
    /\ thread.floppy.source = s /\ w \in thread.floppy.image /\ thread.floppy.unsaved
Reported == told \cup dropped \cup pending_failures \cup thread.lost \cup gui.lost
Safe ==
    \A s \in Sources : \A w \in written[s] :
        \/ w \in file[s]
        \/ InDrive(s, w)
        \/ w \in Reported
        \/ startup = "err" /\ w \in gui.carried

\* What each loss on its way has cost in failures: one for the write-back, one
\* more when the start has failed too.
Costs ==
    /\ faults \in Nat
    /\ thread.lost # {} => faults >= 1
    /\ gui.lost # {} \/ gui.carried # {} => faults >= 1 /\ (startup = "err" => faults >= 2)
    /\ dropped # {} => faults >= 2

WriteInv == Types /\ Handshake /\ Numbered /\ Drive /\ Waiting /\ Lost /\ Carry /\ Safe

-----------------------------------------------------------------------------
(* What is used of finite sets.  The lemmas take it as a premise, which    *)
(* CountingHolds discharges from the library's theorems: they come last,   *)
(* for every fact in sight slows each step.                                *)

Counting ==
    /\ \A a, b \in Int : Cardinality(a .. b) = IF a > b THEN 0 ELSE b - a + 1
    /\ \A S : S \subseteq Writes => Cardinality(S) \in Nat

-----------------------------------------------------------------------------
(* Lemmas about the operators.                                             *)

\* A new request is one more outstanding.
LEMMA OneMore ==
  ASSUME NEW d \in Nat, NEW q \in Nat, NEW n \in Nat \ {0}, d + q < n
  PROVE  d + q < n + 1 /\ ((d + 1) .. (n - 1)) \cup {n} = (d + 1) .. (n + 1 - 1)
  BY SMT

\* The answers given and those to come are all that were asked for.
LEMMA AllCounted ==
  ASSUME NEW a \in Nat, NEW p \in Nat, NEW q \in Nat, NEW n \in Nat \ {0},
         NEW e \in Nat, NEW l \in Int, e = p + q, l = n - 1 - ((a + p) + q)
  PROVE  a + (e + l) = n - 1
  BY SMT

\* Ids without a gap are sorted by counting up (finish_worker rejects the
\* requests that are left in the order of their ids).
LEMMA SortedLemma ==
  ASSUME Counting, NEW a \in Nat \ {0}, NEW b \in Nat, a <= b + 1
  PROVE  /\ Sorted(a .. b) \in Seq(Nat)
         /\ Len(Sorted(a .. b)) = b - a + 1
         /\ \A i \in 1 .. (b - a + 1) : Sorted(a .. b)[i] = a + i - 1
<1> DEFINE Rank(x) == Cardinality({y \in a .. b : y <= x})
<1>1. Cardinality(a .. b) = b - a + 1
  <2>1. Cardinality(a .. b) = IF a > b THEN 0 ELSE b - a + 1
    BY SMT DEF Counting
  <2> QED
    BY <2>1, SMT
<1>2. \A x \in a .. b : Rank(x) = x - a + 1
  <2> TAKE x \in a .. b
  <2>1. {y \in a .. b : y <= x} = a .. x
    BY SMT
  <2>2. Cardinality(a .. x) = x - a + 1
    BY SMT DEF Counting
  <2> QED
    BY <2>1, <2>2
<1>3. Sorted(a .. b) = [i \in 1 .. (b - a + 1) |-> CHOOSE x \in a .. b : Rank(x) = i]
  BY <1>1 DEF Sorted
<1> HIDE DEF Rank
<1>4. ASSUME NEW i \in 1 .. (b - a + 1)
      PROVE  (CHOOSE x \in a .. b : Rank(x) = i) = a + i - 1
  <2>1. a + i - 1 \in a .. b /\ Rank(a + i - 1) = i
    BY <1>2, SMT
  <2>2. \A x \in a .. b : Rank(x) = i => x = a + i - 1
    BY <1>2, SMT
  <2> QED
    BY <2>1, <2>2
<1>5. Sorted(a .. b) = [i \in 1 .. (b - a + 1) |-> a + i - 1]
  BY <1>3, <1>4
<1> QED
  BY <1>5, SMT

\* The requests without a published answer are the youngest ones.
LEMMA LeftLemma ==
  ASSUME Types, InOrder
  PROVE  outstanding \ Values(published) = (Done + Len(published) + 1) .. (next_request_id - 1)
<1>1. Done \in Nat /\ Len(published) \in Nat /\ next_request_id \in Nat
  BY SMT DEF InOrder, Done, Types
<1>2. Values(published) = (Done + 1) .. (Done + Len(published))
  <2>1. \A x \in Values(published) : x \in (Done + 1) .. (Done + Len(published))
    <3>1. DOMAIN published = 1 .. Len(published)
      BY SMT DEF InOrder
    <3> QED
      BY <1>1, <3>1, SMT DEF Values, InOrder
  <2>2. ASSUME NEW x \in (Done + 1) .. (Done + Len(published)) PROVE x \in Values(published)
    <3>1. x - Done \in 1 .. Len(published) /\ DOMAIN published = 1 .. Len(published)
      BY <1>1, SMT DEF InOrder
    <3>2. published[x - Done] = x
      BY <1>1, <3>1, SMT DEF InOrder
    <3> QED
      BY <3>1, <3>2 DEF Values
  <2> QED
    BY <2>1, <2>2
<1> QED
  BY <1>1, <1>2, SMT DEF InOrder

\* Concatenation of sequences of ids.
LEMMA ConcatLemma ==
  ASSUME NEW p \in Seq(Nat), NEW q \in Seq(Nat)
  PROVE  /\ p \o q \in Seq(Nat) /\ Len(p \o q) = Len(p) + Len(q)
         /\ Len(p) \in Nat /\ Len(q) \in Nat
         /\ \A i \in 1 .. Len(p) : (p \o q)[i] = p[i]
         /\ \A i \in (Len(p) + 1) .. (Len(p) + Len(q)) : (p \o q)[i] = q[i - Len(p)]
  BY SMT

\* Two runs of consecutive ids, the second following the first, are one.
LEMMA RunLemma ==
  ASSUME NEW p \in Seq(Nat), NEW q \in Seq(Nat), NEW k \in Nat,
         \A i \in 1 .. Len(p) : p[i] = k + i,
         \A i \in 1 .. Len(q) : q[i] = k + Len(p) + i
  PROVE  /\ p \o q \in Seq(Nat) /\ Len(p \o q) = Len(p) + Len(q)
         /\ \A i \in 1 .. Len(p \o q) : (p \o q)[i] = k + i
<1>1. ASSUME NEW i \in 1 .. (Len(p) + Len(q)) PROVE (p \o q)[i] = k + i
  <2>1. CASE i \in 1 .. Len(p)
    BY <2>1, ConcatLemma
  <2>2. CASE i \in (Len(p) + 1) .. (Len(p) + Len(q))
    BY <2>2, ConcatLemma, SMT
  <2> QED
    BY <2>1, <2>2, ConcatLemma, SMT
<1> QED
  BY <1>1, ConcatLemma

\* The same for a run that starts with the first id.
LEMMA FirstRunLemma ==
  ASSUME NEW p \in Seq(Nat), NEW q \in Seq(Nat),
         \A i \in 1 .. Len(p) : p[i] = i,
         \A i \in 1 .. Len(q) : q[i] = Len(p) + i
  PROVE  /\ p \o q \in Seq(Nat) /\ Len(p \o q) = Len(p) + Len(q)
         /\ \A i \in 1 .. Len(p \o q) : (p \o q)[i] = i
<1>1. ASSUME NEW i \in 1 .. (Len(p) + Len(q)) PROVE (p \o q)[i] = i
  <2>1. CASE i \in 1 .. Len(p)
    BY <2>1, ConcatLemma
  <2>2. CASE i \in (Len(p) + 1) .. (Len(p) + Len(q))
    BY <2>2, ConcatLemma, SMT
  <2> QED
    BY <2>1, <2>2, ConcatLemma, SMT
<1> QED
  BY <1>1, ConcatLemma

\* One more id at the end of a run.
LEMMA AppendLemma ==
  ASSUME NEW p \in Seq(Nat), NEW k \in Nat, NEW x \in Nat,
         \A i \in 1 .. Len(p) : p[i] = k + i, x = k + Len(p) + 1
  PROVE  /\ Append(p, x) \in Seq(Nat) /\ Len(Append(p, x)) = Len(p) + 1 /\ Len(p) \in Nat
         /\ \A i \in 1 .. Len(Append(p, x)) : Append(p, x)[i] = k + i
<1>1. /\ Append(p, x) \in Seq(Nat) /\ Len(Append(p, x)) = Len(p) + 1 /\ Len(p) \in Nat
      /\ Append(p, x)[Len(p) + 1] = x
      /\ \A i \in 1 .. Len(p) : Append(p, x)[i] = p[i]
  BY SMT
<1>2. ASSUME NEW i \in 1 .. (Len(p) + 1) PROVE Append(p, x)[i] = k + i
  <2>1. CASE i = Len(p) + 1
    BY <1>1, <2>1, SMT
  <2>2. CASE i \in 1 .. Len(p)
    BY <1>1, <2>2
  <2> QED
    BY <1>1, <2>1, <2>2, SMT
<1> QED
  BY <1>1, <1>2

\* finish_worker answers everything that is left, in order.
LEMMA FinishedLemma ==
  ASSUME Counting, Types, InOrder
  PROVE  /\ Finished \in Seq(Nat) /\ Len(Finished) \in Nat /\ Len(answers) \in Nat
         /\ Len(answers) + Len(Finished) = next_request_id - 1
         /\ \A i \in 1 .. Len(Finished) : Finished[i] = Len(answers) + i
<1> DEFINE left == Sorted(outstanding \ Values(published))
           early == pending_events \o published
<1>1. /\ Len(answers) \in Nat /\ Len(pending_events) \in Nat /\ Len(published) \in Nat
      /\ next_request_id \in Nat \ {0} /\ Done \in Nat
  BY SMT DEF InOrder, Types, Done
<1>2. /\ left \in Seq(Nat) /\ Len(left) = next_request_id - 1 - (Done + Len(published))
      /\ \A i \in 1 .. Len(left) : left[i] = Done + Len(published) + i
  <2>1. outstanding \ Values(published) = (Done + Len(published) + 1) .. (next_request_id - 1)
    BY LeftLemma
  <2> DEFINE lo == Done + Len(published) + 1
             hi == next_request_id - 1
  <2>2. lo \in Nat \ {0} /\ hi \in Nat /\ lo <= hi + 1
    BY <1>1, SMT DEF InOrder
  <2>3. left = Sorted(lo .. hi)
    BY <2>1
  <2> HIDE DEF lo, hi
  <2>4. /\ Sorted(lo .. hi) \in Seq(Nat) /\ Len(Sorted(lo .. hi)) = hi - lo + 1
        /\ \A i \in 1 .. (hi - lo + 1) : Sorted(lo .. hi)[i] = lo + i - 1
    BY <2>2, SortedLemma
  <2> HIDE DEF left
  <2>5. left \in Seq(Nat) /\ Len(left) = hi - lo + 1 /\ \A i \in 1 .. Len(left) : left[i] = lo + i - 1
    BY <2>3, <2>4
  <2> QED
    BY <1>1, <2>5, SMT DEF lo, hi
<1>3. /\ early \in Seq(Nat) /\ Len(early) = Len(pending_events) + Len(published)
      /\ \A i \in 1 .. Len(early) : early[i] = Len(answers) + i
  BY <1>1, RunLemma, SMT DEF InOrder, Done
<1> HIDE DEF left, early
<1>4. \A i \in 1 .. Len(left) : left[i] = Len(answers) + Len(early) + i
  BY <1>1, <1>2, <1>3, SMT DEF Done
<1>5. /\ early \o left \in Seq(Nat) /\ Len(early \o left) = Len(early) + Len(left)
      /\ \A i \in 1 .. Len(early \o left) : (early \o left)[i] = Len(answers) + i
  BY <1>1, <1>2, <1>3, <1>4, RunLemma
<1>6. Finished = early \o left
  BY DEF Finished, early, left
<1>7. Len(answers) + Len(Finished) = next_request_id - 1
  <2> DEFINE a == Len(answers)
             p == Len(pending_events)
             q == Len(published)
             e == Len(early)
             l == Len(left)
             n == next_request_id
  <2>1. Len(Finished) = e + l
    BY <1>5, <1>6
  <2>2. /\ a \in Nat /\ p \in Nat /\ q \in Nat /\ n \in Nat \ {0}
        /\ e = p + q /\ l = n - 1 - ((a + p) + q)
    BY <1>1, <1>2, <1>3 DEF Done
  <2> HIDE DEF a, p, q, e, l, n
  <2>3. e \in Nat /\ l \in Int
    BY <2>2, SMT
  <2>4. a + (e + l) = n - 1
    BY <2>2, <2>3, AllCounted, SMT
  <2> QED
    BY <2>1, <2>4 DEF a, n
<1> QED
  BY <1>1, <1>5, <1>6, <1>7, SMT

\* A write-back replaces the file of the image that is written, and no other.
LEMMA SavedLemma ==
  ASSUME Types, NEW f \in Media
  PROVE  /\ Saved(f) \in [Sources -> SUBSET Writes]
         /\ \A s \in Sources :
              Saved(f)[s] = IF f # None /\ f.unsaved /\ f.source = s THEN f.image ELSE file[s]
  BY DEF Types, Media, Floppies, Saved

\* A request carries the next id and, to mount, a fresh copy of a file whose
\* image is not in memory.
LEMMA RequestLemma ==
  ASSUME Types, NEW r \in UserRequests
  PROVE  /\ r \in Commands /\ r.id = next_request_id /\ r.kind # "shutdown"
         /\ r.floppy # None =>
                /\ ~r.floppy.unsaved /\ r.floppy.image = file[r.floppy.source]
                /\ ~Reloads => \A f \in Held : f.source # r.floppy.source
<1>1. CASE \E k \in Kinds \ {"mount"} : r = [id |-> next_request_id, kind |-> k, floppy |-> None]
  BY <1>1, GuiAssumption, SMT DEF Types, Commands, Media
<1>2. CASE \E s \in {t \in Sources : "mount" \in Kinds /\ (Reloads \/ \A f \in Held : f.source # t)} :
              r = [id |-> next_request_id, kind |-> "mount",
                   floppy |-> [source |-> s, image |-> file[s], unsaved |-> FALSE]]
  <2>1. PICK s \in Sources :
            /\ "mount" \in Kinds /\ (Reloads \/ \A f \in Held : f.source # s)
            /\ r = [id |-> next_request_id, kind |-> "mount",
                    floppy |-> [source |-> s, image |-> file[s], unsaved |-> FALSE]]
    BY <1>2
  <2>2. [source |-> s, image |-> file[s], unsaved |-> FALSE] \in Floppies
    BY DEF Types, Floppies
  <2> QED
    BY <2>1, <2>2, GuiAssumption DEF Types, Commands, Media
<1> QED
  BY <1>1, <1>2 DEF UserRequests

\* A guest write has a number of its own.
LEMMA FreshWrite ==
  ASSUME Counting, Types
  PROVE  LET all == UNION {written[t] : t \in Sources}
         IN  /\ Cardinality(all) \in Nat
             /\ \A n \in Nat : all = 1 .. n => Cardinality(all) = n
<1> DEFINE all == UNION {written[t] : t \in Sources}
<1>1. all \subseteq Writes
  BY SMT DEF Types
<1>3. Cardinality(all) \in Nat
  BY <1>1 DEF Counting
<1>4. ASSUME NEW n \in Nat, all = 1 .. n PROVE Cardinality(all) = n
  <2>1. Cardinality(1 .. n) = IF 1 > n THEN 0 ELSE n - 1 + 1
    BY SMT DEF Counting
  <2>2. Cardinality(1 .. n) = n
    BY <2>1, SMT
  <2> QED
    BY <1>4, <2>2
<1> QED
  BY <1>3, <1>4

\* The start of a session satisfies the types and the handshake.
LEMMA InitBase == Init => Types /\ Handshake
  BY GuiAssumption, SMT DEF Init, Types, Handshake, Free, NoThread, Phases, Media, Commands, Threads

\* No action of the GUI thread breaks the types or the handshake.
LEMMA GuiBase ==
  ASSUME Types, Handshake, User \/ Poll \/ Joined \/ Started
  PROVE  Types' /\ Handshake'
<1> USE GuiAssumption
<1>n. NoThread \in Threads /\ NoThread.phase = "none"
  BY DEF NoThread, Phases, Media, Threads
<1>1. CASE MakeRequest
  <2>1. PICK r \in UserRequests : Request(r)
    BY <1>1 DEF MakeRequest
  <2>2. r \in Commands
    BY RequestLemma
  <2>3. CASE Send(r)
    BY <2>2, <2>3, SMT DEF Send, Types, Handshake, history
  <2>4. CASE ~running /\ Reply(pending_events, r) /\ UNCHANGED <<running, commands, thread, gui, startup, file, written>>
    BY <2>4, SMT DEF Reply, Types, Handshake
  <2>5. CASE Reply(Finished, r) /\ Collect /\ UNCHANGED <<gui, startup, file, written>>
    BY <1>1, <1>n, <2>5, SMT DEF MakeRequest, Reply, Collect, Types, Handshake
  <2> QED
    BY <2>1, <2>3, <2>4, <2>5 DEF Request, history
<1>2. CASE PowerOn
  BY <1>2 DEF PowerOn, Start, Types, Handshake, NoThread, Phases, Media, Threads, history
<1>3. ASSUME NEW why \in {"reset", "power_off", "shutdown"}, Stop(why) PROVE Types' /\ Handshake'
  <2>1. commands' \in Seq(Commands)
    BY <1>3, SMT DEF Stop, Types, Commands, Media
  <2>2. /\ gui' = [at |-> "joining", why |-> why, carried |-> gui.carried, lost |-> gui.lost]
        /\ gui.at = "free" /\ running
        /\ UNCHANGED <<running, next_request_id, startup, thread, file, written>>
    BY <1>3 DEF Stop, Types, history
  <2>3. Types'
    BY <2>1, <2>2 DEF Types
  <2>4. Handshake'
    BY <2>2 DEF Handshake
  <2> QED
    BY <2>3, <2>4
<1>4. CASE Poll
  <2>1. CASE UNCHANGED <<running, commands, thread>>
    BY <1>4, <2>1 DEF Poll, Deliver, Types, Handshake
  <2>2. CASE Collect
    BY <1>4, <1>n, <2>2, SMT DEF Poll, Deliver, Collect, Types, Handshake
  <2> QED
    BY <1>4, <2>1, <2>2 DEF Poll
<1>5. CASE Joined
  <2>1. CASE gui.why = "reset"
    <3>1. PICK media \in Carried(thread.floppy) :
              Start(media, thread.lost \ (IF media = None THEN {} ELSE media.image))
      BY <1>5, <2>1 DEF Joined
    <3>2. media \in Media /\ (media # None => media \in Floppies)
      BY SMT DEF Carried, Types, Media, Floppies, Threads
    <3> DEFINE carried == IF media = None THEN {} ELSE media.image \ file[media.source]
               lost == thread.lost \ (IF media = None THEN {} ELSE media.image)
    <3>3. carried \in SUBSET Writes /\ lost \in SUBSET Writes
      BY <3>2 DEF Floppies, Types, Threads
    <3>4. gui' = [at |-> "starting", why |-> None, lost |-> lost, carried |-> carried]
      BY <3>1 DEF Start
    <3> HIDE DEF carried, lost
    <3>5. thread' = [phase |-> "starting", floppy |-> media, answer |-> 0, lost |-> {}]
      BY <3>1 DEF Start, NoThread
    <3>6. commands' = <<>> /\ ~running' /\ UNCHANGED <<next_request_id, startup, file, written>>
          /\ startup = None
      BY <1>5 DEF Joined, Handshake
    <3>7. Types'
      BY <3>2, <3>3, <3>4, <3>5, <3>6, SMT DEF Types, Threads, Phases
    <3>8. Handshake'
      BY <3>4, <3>5, <3>6 DEF Handshake
    <3> QED
      BY <3>7, <3>8
  <2>2. CASE gui.why # "reset"
    BY <1>5, <1>n, <2>2, SMT DEF Joined, Types, Handshake, Free
  <2> QED
    BY <2>1, <2>2
<1>6. CASE Started
  BY <1>6, <1>n DEF Started, Types, Handshake, Free
<1> QED
  BY <1>1, <1>2, <1>3, <1>4, <1>5, <1>6 DEF User

\* A step of a thread that has started, in either outcome, keeps the
\* handshake if it does not undo the start.
LEMMA ThreadFrame ==
  ASSUME Types, Handshake,
         UNCHANGED <<gui, running, next_request_id, startup>>,
         thread.phase \notin {"none", "starting"},
         thread' \in Threads, thread'.phase \notin {"none", "starting"},
         thread.phase \in {"finalizing", "returned", "finished"} =>
             thread'.phase \in {"finalizing", "returned", "finished"},
         commands' \in Seq(Commands),
         file' \in [Sources -> SUBSET Writes], written' \in [Sources -> SUBSET Writes]
  PROVE  Types' /\ Handshake'
<1>1. ~(gui.at = "free" /\ ~running) /\ ~(gui.at = "starting" /\ startup = None)
  BY SMT DEF Handshake, NoThread
<1>2. Types'
  BY DEF Types
<1> QED
  BY <1>1, <1>2 DEF Handshake

\* No action of the emulation thread breaks the types or the handshake.
LEMMA WorkerBase ==
  ASSUME Counting, Types, Handshake, Worker \/ GuestWrites \/ Panic
  PROVE  Types' /\ Handshake'
<1> USE GuiAssumption DEF workerUnchanged, guiVars
<1>s. Saved(thread.floppy) \in [Sources -> SUBSET Writes]
  BY SavedLemma DEF Types, Threads
<1>1. CASE Initialize
  BY <1>1 DEF Initialize, Types, Handshake, Phases, Media, Threads
<1>2. CASE Receive
  <2>1. commands # <<>> /\ commands' = Tail(commands) /\ commands' \in Seq(Commands)
        /\ Head(commands) \in Commands
    BY <1>2, SMT DEF Receive, Types
  <2>3. CASE thread' = [thread EXCEPT !.phase = "finalizing"] /\ UNCHANGED file
    <3>1. thread' \in Threads /\ thread'.phase = "finalizing"
      BY <2>3 DEF Types, Threads, Phases
    <3> QED
      BY <1>2, <2>1, <2>3, <3>1, ThreadFrame DEF Receive, Types
  <2>4. CASE Apply(Head(commands))
    <3>1. thread'.phase = "answering" /\ thread' \in Threads
      <4>1. thread \in Threads /\ Head(commands).id \in Nat /\ Head(commands).floppy \in Media
        BY <2>1 DEF Types, Commands
      <4>2. PICK f \in Media :
                thread' = [thread EXCEPT !.phase = "answering", !.answer = Head(commands).id, !.floppy = f]
        BY <2>4, <4>1 DEF Apply, Restored, Threads
      <4> QED
        BY <4>1, <4>2 DEF Threads, Phases
    <3>2. file' \in [Sources -> SUBSET Writes]
      BY <1>s, <2>4 DEF Apply, Types
    <3> QED
      BY <1>2, <2>1, <3>1, <3>2, ThreadFrame DEF Receive, Types
  <2> QED
    BY <1>2, <2>3, <2>4 DEF Receive
<1>3. CASE Publish
  <2>1. thread' \in Threads /\ thread'.phase = "running"
    BY <1>3 DEF Publish, Types, Threads, Phases
  <2> QED
    BY <1>3, <2>1, ThreadFrame DEF Publish, Types
<1>4. CASE Finalize
  <2>1. file' \in [Sources -> SUBSET Writes] /\ UNCHANGED <<commands, startup, written>>
    BY <1>4, <1>s DEF Finalize, Types
  <2>2. thread.floppy = None \/ thread.floppy \in Floppies
    BY DEF Types, Threads, Media
  <2>3. thread' \in Threads /\ thread'.phase \in {"returned", "finished"}
    <3>1. CASE thread' = [thread EXCEPT !.phase = "returned", !.floppy =
                IF thread.floppy # None /\ thread.floppy.unsaved
                THEN [thread.floppy EXCEPT !.unsaved = FALSE] ELSE thread.floppy]
      BY <2>2, <3>1 DEF Types, Threads, Phases, Media, Floppies
    <3>2. CASE /\ thread' = [thread EXCEPT !.phase = "returned",
                        !.lost = thread.floppy.image \ file[thread.floppy.source]]
               /\ thread.floppy # None
      BY <2>2, <3>2 DEF Types, Threads, Phases, Floppies
    <3>3. CASE thread' = [thread EXCEPT !.phase = "finished", !.floppy = None, !.lost =
                IF thread.floppy = None THEN {} ELSE thread.floppy.image \ file'[thread.floppy.source]]
      BY <2>2, <3>3 DEF Types, Threads, Phases, Floppies, Media
    <3> QED
      BY <1>4, <3>1, <3>2, <3>3 DEF Finalize
  <2> QED
    BY <1>4, <2>1, <2>3, ThreadFrame DEF Finalize, Types
<1>5. CASE Exit
  <2>1. thread' \in Threads /\ thread'.phase = "finished"
    BY <1>5 DEF Exit, Types, Threads, Phases
  <2> QED
    BY <1>5, <2>1, ThreadFrame DEF Exit, Types
<1>6. CASE GuestWrites
  <2>1. thread.floppy \in Floppies
    BY <1>6 DEF GuestWrites, Types, Media, Threads
  <2> DEFINE w == Cardinality(UNION {written[t] : t \in Sources}) + 1
  <2>2. w \in Writes
    BY <1>6, FreshWrite, SMT DEF GuestWrites, Writes
  <2>3. /\ thread' = [thread EXCEPT !.floppy.image = @ \cup {w}, !.floppy.unsaved = TRUE]
        /\ written' = [written EXCEPT ![thread.floppy.source] = @ \cup {w}]
        /\ UNCHANGED <<commands, startup, file>> /\ thread.phase = "running"
    BY <1>6 DEF GuestWrites
  <2> HIDE DEF w
  <2>4. thread' \in Threads /\ thread'.phase = "running"
    BY <2>1, <2>2, <2>3 DEF Types, Threads, Media, Floppies
  <2>5. written' \in [Sources -> SUBSET Writes]
    BY <2>1, <2>2, <2>3 DEF Types, Floppies
  <2> QED
    BY <1>6, <2>3, <2>4, <2>5, ThreadFrame DEF GuestWrites, Types
<1>7. CASE Panic
  <2>1. thread' \in Threads /\ thread'.phase = "finalizing"
    BY <1>7 DEF Panic, Types, Threads, Phases
  <2> QED
    BY <1>7, <2>1, ThreadFrame DEF Panic, Types
<1> QED
  BY <1>1, <1>2, <1>3, <1>4, <1>5, <1>6, <1>7 DEF Worker

\* Whatever the step, the types and the handshake hold after it.
LEMMA BaseStep == ASSUME Counting, Types, Handshake, [Next]_vars PROVE Types' /\ Handshake'
<1>1. CASE UNCHANGED vars
  BY <1>1 DEF vars, guiVars, history, Types, Handshake
<1> QED
  BY <1>1, GuiBase, WorkerBase DEF Next

-----------------------------------------------------------------------------
(* Every request is answered once and in order.                            *)

\* The start of a session.
LEMMA InitAnswer == Init => AnswerInv
<1> SUFFICES ASSUME Init PROVE InOrder /\ Channel /\ Idle
  BY InitBase DEF AnswerInv
<1> QED
  BY SMT DEF Init, InOrder, Channel, Idle, Done, Sent, Joining, Free, NoThread

\* The lengths the invariant counts with.
LEMMA Counts ==
  ASSUME AnswerInv
  PROVE  /\ Len(answers) \in Nat /\ Len(pending_events) \in Nat /\ Len(published) \in Nat
         /\ Len(commands) \in Nat /\ next_request_id \in Nat \ {0}
         /\ Done \in Nat /\ Sent \in Nat
  BY SMT DEF AnswerInv, Types, InOrder, Done, Sent

\* Nothing lies between a number and its successor.
LEMMA NoneLeft ==
  ASSUME NEW n \in Nat, NEW d, d = n - 1, NEW k, k = 0
  PROVE  (d + 1) .. (n - 1) = {} /\ d + k < n /\ k = n - 1 - d
  BY SMT

\* A worker has been collected: all its requests are answered.
LEMMA CollectAnswers ==
  ASSUME AnswerInv, next_request_id' \in Nat \ {0},
         published' = <<>>, commands' = <<>>, outstanding' = {},
         thread'.phase \in {"none", "starting"}, ~Joining',
         answers' \in Seq(Nat), pending_events' \in Seq(Nat),
         \A i \in 1 .. Len(answers') : answers'[i] = i,
         \A i \in 1 .. Len(pending_events') : pending_events'[i] = Len(answers') + i,
         Len(answers') + Len(pending_events') = next_request_id' - 1
  PROVE  InOrder' /\ Channel' /\ Idle'
<1>1. Done' = next_request_id' - 1 /\ Len(published') = 0 /\ Len(commands') = 0
  BY DEF Done
<1>2. Sent' = Done'
  BY <1>1, SMT DEF Sent, Done
<1>3. InOrder'
  <2>1. published' \in Seq(Nat) /\ \A i \in 1 .. Len(published') : published'[i] = Done' + i
    BY <1>1, SMT
  <2>2. outstanding' = (Done' + 1) .. (next_request_id' - 1)
    BY <1>1, NoneLeft
  <2>3. Done' + Len(published') < next_request_id'
    BY <1>1, NoneLeft
  <2> QED
    BY <2>1, <2>2, <2>3 DEF InOrder
<1>4. Channel'
  <2>1. Len(commands') = next_request_id' - 1 - Sent'
    BY <1>1, <1>2, NoneLeft
  <2>2. 1 .. Len(commands') = {} /\ thread'.phase # "answering"
    BY <1>1, SMT
  <2> QED
    BY <2>1, <2>2 DEF Channel
<1> QED
  BY <1>1, <1>3, <1>4 DEF Idle

\* Sending, refusing, or answering a request at once.
LEMMA RequestAnswers == ASSUME Counting, AnswerInv, MakeRequest PROVE InOrder' /\ Channel' /\ Idle'
<1>1. PICK r \in UserRequests : Request(r)
  BY DEF MakeRequest
<1>2. r.id = next_request_id /\ r.kind # "shutdown"
  BY RequestLemma DEF AnswerInv
<1>3. gui.at = "free" /\ ~Joining
  BY DEF MakeRequest, Joining
<1>4. CASE Send(r)
  <2>1. /\ commands' = Append(commands, r) /\ running
        /\ outstanding' = outstanding \cup {next_request_id}
        /\ next_request_id' = next_request_id + 1
        /\ UNCHANGED <<gui, running, pending_events, published, thread, answers>>
    BY <1>4 DEF Send, history
  <2>2. /\ Done' = Done /\ Sent' = Sent /\ ~Joining'
    BY <1>3, <2>1 DEF Done, Sent, Joining
  <2>3. InOrder'
    <3>1. /\ Done \in Nat /\ Len(published) \in Nat /\ next_request_id \in Nat \ {0}
          /\ Done + Len(published) < next_request_id
          /\ outstanding = (Done + 1) .. (next_request_id - 1)
      BY Counts DEF AnswerInv, InOrder
    <3>2. PICK d \in Nat, q \in Nat, n \in Nat \ {0} :
              d = Done /\ q = Len(published) /\ n = next_request_id
      BY <3>1
    <3>3. d + q < n + 1 /\ ((d + 1) .. (n - 1)) \cup {n} = (d + 1) .. (n + 1 - 1)
      BY <3>1, <3>2, OneMore
    <3>4. Done' + Len(published') < next_request_id'
          /\ outstanding' = (Done' + 1) .. (next_request_id' - 1)
      <4>1. Done' = d /\ Len(published') = q /\ next_request_id' = n + 1
        BY <2>1, <2>2, <3>2
      <4>2. outstanding' = (d + 1) .. (n + 1 - 1)
        BY <2>1, <3>1, <3>2, <3>3
      <4> QED
        BY <3>3, <4>1, <4>2, SMT
    <3>5. UNCHANGED <<answers, pending_events, published, Done>>
      BY <2>1, <2>2
    <3>6. /\ answers \in Seq(Nat) /\ pending_events \in Seq(Nat) /\ published \in Seq(Nat)
          /\ \A i \in 1 .. Len(answers) : answers[i] = i
          /\ \A i \in 1 .. Len(pending_events) : pending_events[i] = Len(answers) + i
          /\ \A i \in 1 .. Len(published) : published[i] = Done + i
      BY DEF AnswerInv, InOrder
    <3>7. (answers \in Seq(Nat) /\ pending_events \in Seq(Nat) /\ published \in Seq(Nat))'
      BY <3>5, <3>6
    <3>8. (/\ \A i \in 1 .. Len(answers) : answers[i] = i
           /\ \A i \in 1 .. Len(pending_events) : pending_events[i] = Len(answers) + i
           /\ \A i \in 1 .. Len(published) : published[i] = Done + i)'
      BY <3>5, <3>6
    <3> QED
      BY <3>4, <3>7, <3>8 DEF InOrder
  <2>4. /\ Len(commands') = Len(commands) + 1 /\ commands'[Len(commands) + 1] = r
        /\ \A i \in 1 .. Len(commands) : commands'[i] = commands[i]
    BY <2>1, SMT DEF AnswerInv, Types
  <2>5. Channel'
    <3> SUFFICES ASSUME thread.phase \in {"starting", "running", "answering"}
                 PROVE  Channel'
      BY <2>1 DEF Channel
    <3>1. /\ thread.phase = "answering" => thread.answer = Sent
          /\ Len(commands) = next_request_id - 1 - Sent
          /\ \A i \in 1 .. Len(commands) :
              commands[i].kind # "shutdown" /\ commands[i].id = Sent + i
      BY <1>3 DEF AnswerInv, Channel
    <3>2. \A i \in 1 .. Len(commands') :
              commands'[i].kind # "shutdown" /\ commands'[i].id = Sent + i
      <4> TAKE i \in 1 .. Len(commands')
      <4>1. CASE i = Len(commands) + 1
        BY <1>2, <2>4, <3>1, <4>1, Counts, SMT
      <4>2. CASE i \in 1 .. Len(commands)
        BY <2>4, <3>1, <4>2
      <4> QED
        BY <2>4, <4>1, <4>2, Counts, SMT
    <3>3. Len(commands') = next_request_id' - 1 - Sent'
      BY <2>1, <2>2, <2>4, <3>1, Counts, SMT
    <3> QED
      BY <2>1, <2>2, <3>1, <3>2, <3>3 DEF Channel
  <2>6. Idle'
    BY <2>1 DEF Idle
  <2> QED
    BY <2>3, <2>5, <2>6
<1>5. CASE ~running /\ Reply(pending_events, r)
           /\ UNCHANGED <<gui, running, outstanding, commands, published, thread, answers>>
  <2>1. CASE pending_events' = pending_events /\ next_request_id' = next_request_id
    BY <1>5, <2>1 DEF AnswerInv, InOrder, Channel, Idle, Done, Sent, Joining
  <2>2. CASE /\ pending_events' = Append(pending_events, next_request_id)
             /\ next_request_id' = next_request_id + 1
    <3>0. thread = NoThread /\ published = <<>> /\ commands = <<>> /\ Done = next_request_id - 1
      BY <1>3, <1>5 DEF AnswerInv, Handshake, Idle
    <3>1. next_request_id = Len(answers) + Len(pending_events) + 1
      BY <3>0, Counts, SMT DEF Done
    <3>2. /\ pending_events' \in Seq(Nat) /\ Len(pending_events') = Len(pending_events) + 1
          /\ \A i \in 1 .. Len(pending_events') : pending_events'[i] = Len(answers') + i
      <4>1. pending_events \in Seq(Nat)
            /\ \A i \in 1 .. Len(pending_events) : pending_events[i] = Len(answers) + i
        BY DEF AnswerInv, InOrder
      <4>2. LET p == Append(pending_events, next_request_id)
            IN  /\ p \in Seq(Nat) /\ Len(p) = Len(pending_events) + 1
                /\ \A i \in 1 .. Len(p) : p[i] = Len(answers) + i
        <5>1. Len(answers) \in Nat /\ next_request_id \in Nat
              /\ next_request_id = Len(answers) + Len(pending_events) + 1
          BY <3>1, Counts
        <5> QED
          BY <4>1, <5>1, AppendLemma
      <4> QED
        BY <1>5, <2>2, <4>2
    <3>3. Len(answers') + Len(pending_events') = next_request_id' - 1
      BY <1>5, <2>2, <3>1, <3>2, Counts, SMT
    <3>4. outstanding' = {} /\ thread'.phase = "none" /\ ~Joining'
      BY <1>3, <1>5, <3>0, Counts, SMT DEF AnswerInv, InOrder, NoThread, Joining
    <3> QED
      <4>1. answers' \in Seq(Nat) /\ \A i \in 1 .. Len(answers') : answers'[i] = i
        BY <1>5 DEF AnswerInv, InOrder
      <4>2. published' = <<>> /\ commands' = <<>> /\ next_request_id' \in Nat \ {0}
        BY <1>5, <2>2, <3>0, Counts, SMT
      <4> QED
        BY <3>2, <3>3, <3>4, <4>1, <4>2, CollectAnswers
  <2> QED
    BY <1>5, <2>1, <2>2 DEF Reply
<1>6. CASE Reply(Finished, r) /\ Collect /\ UNCHANGED <<gui, answers>>
  <2>1. /\ published' = <<>> /\ commands' = <<>> /\ outstanding' = {}
        /\ thread'.phase = "none" /\ ~Joining' /\ answers' = answers
    BY <1>3, <1>6 DEF Collect, NoThread, Joining
  <2>2. /\ Finished \in Seq(Nat) /\ Len(Finished) \in Nat /\ Len(answers) + Len(Finished) = next_request_id - 1
        /\ \A i \in 1 .. Len(Finished) : Finished[i] = Len(answers) + i
    BY FinishedLemma DEF AnswerInv
  <2>3. \A i \in 1 .. Len(answers) : answers[i] = i
    BY DEF AnswerInv, InOrder
  <2>4. CASE pending_events' = Finished /\ next_request_id' = next_request_id
    BY <2>1, <2>2, <2>3, <2>4, Counts, CollectAnswers DEF AnswerInv, InOrder
  <2>5. CASE /\ pending_events' = Append(Finished, next_request_id)
             /\ next_request_id' = next_request_id + 1
    <3>0. Len(Finished) \in Nat /\ Len(answers) + Len(Finished) = next_request_id - 1
      BY <2>2
    <3>1. next_request_id = Len(answers) + Len(Finished) + 1
      BY <3>0, Counts, SMT
    <3>2. /\ pending_events' \in Seq(Nat) /\ Len(pending_events') = Len(Finished) + 1
          /\ \A i \in 1 .. Len(pending_events') : pending_events'[i] = Len(answers') + i
      <4>1. LET p == Append(Finished, next_request_id)
            IN  /\ p \in Seq(Nat) /\ Len(p) = Len(Finished) + 1
                /\ \A i \in 1 .. Len(p) : p[i] = Len(answers) + i
        <5>1. Len(answers) \in Nat /\ next_request_id \in Nat
          BY Counts
        <5>2. Finished \in Seq(Nat) /\ \A i \in 1 .. Len(Finished) : Finished[i] = Len(answers) + i
          BY <2>2
        <5> QED
          BY <3>1, <5>1, <5>2, AppendLemma
      <4> QED
        BY <2>1, <2>5, <4>1
    <3>3. Len(answers') + Len(pending_events') = next_request_id' - 1
      BY <2>1, <2>5, <3>0, <3>1, <3>2, Counts, SMT
    <3>4. answers' \in Seq(Nat) /\ next_request_id' \in Nat \ {0}
      BY <2>1, <2>5, Counts, SMT DEF AnswerInv, InOrder
    <3> QED
      BY <2>1, <2>3, <3>2, <3>3, <3>4, CollectAnswers
  <2> QED
    BY <1>6, <2>4, <2>5 DEF Reply
<1> QED
  BY <1>1, <1>4, <1>5, <1>6 DEF Request, history

\* poll: what is published becomes seen.
LEMMA PollAnswers == ASSUME Counting, AnswerInv, Poll PROVE InOrder' /\ Channel' /\ Idle'
<1>1. gui.at = "free" /\ gui' = gui /\ ~Joining /\ ~Joining' /\ next_request_id' = next_request_id
  BY DEF Poll, Joining
<1>a. /\ answers \in Seq(Nat) /\ pending_events \in Seq(Nat) /\ published \in Seq(Nat)
      /\ \A i \in 1 .. Len(answers) : answers[i] = i
      /\ \A i \in 1 .. Len(pending_events) : pending_events[i] = Len(answers) + i
  BY DEF AnswerInv, InOrder
<1>2. CASE Deliver(Finished, pending_failures \cup thread.lost) /\ Collect
  <2>1. /\ Finished \in Seq(Nat) /\ Len(Finished) \in Nat
        /\ Len(answers) + Len(Finished) = next_request_id - 1
        /\ \A i \in 1 .. Len(Finished) : Finished[i] = Len(answers) + i
    BY FinishedLemma DEF AnswerInv
  <2>2. LET a == answers \o Finished
        IN  /\ a \in Seq(Nat) /\ Len(a) = Len(answers) + Len(Finished)
            /\ \A i \in 1 .. Len(a) : a[i] = i
    BY <1>a, <2>1, FirstRunLemma
  <2>3. /\ answers' = answers \o Finished /\ pending_events' = <<>>
        /\ published' = <<>> /\ commands' = <<>> /\ outstanding' = {} /\ thread'.phase = "none"
    BY <1>2 DEF Deliver, Collect, NoThread
  <2>4. /\ answers' \in Seq(Nat) /\ \A i \in 1 .. Len(answers') : answers'[i] = i
        /\ Len(answers') = next_request_id' - 1
    BY <1>1, <2>1, <2>2, <2>3
  <2>5. /\ pending_events' \in Seq(Nat) /\ Len(answers') + Len(pending_events') = next_request_id' - 1
        /\ \A i \in 1 .. Len(pending_events') : pending_events'[i] = Len(answers') + i
    BY <1>1, <2>3, <2>4, Counts, SMT
  <2>6. next_request_id' \in Nat \ {0}
    BY <1>1, Counts
  <2> QED
    BY <1>1, <2>3, <2>4, <2>5, <2>6, CollectAnswers
<1>3. ASSUME NEW new \in {<<>>, published},
             Deliver(pending_events \o new, pending_failures),
             outstanding' = outstanding \ Values(new),
             new = <<>> => published' = published,
             new = published => published' = <<>>,
             UNCHANGED <<running, commands, thread>>
      PROVE  InOrder' /\ Channel' /\ Idle'
  <2>1. /\ new \in Seq(Nat) /\ Len(new) \in Nat
        /\ \A i \in 1 .. Len(new) : new[i] = Len(answers) + Len(pending_events) + i
    <3>1. CASE new = <<>>
      BY <3>1, SMT
    <3>2. CASE new = published
      BY <3>2, SMT DEF AnswerInv, InOrder, Done
    <3> QED
      BY <3>1, <3>2
  <2>2. LET e == pending_events \o new
        IN  /\ e \in Seq(Nat) /\ Len(e) = Len(pending_events) + Len(new)
            /\ \A i \in 1 .. Len(e) : e[i] = Len(answers) + i
    <3>1. Len(answers) \in Nat /\ pending_events \in Seq(Nat)
          /\ \A i \in 1 .. Len(pending_events) : pending_events[i] = Len(answers) + i
      BY <1>a, Counts
    <3> QED
      BY <2>1, <3>1, RunLemma
  <2>3. LET a == answers \o (pending_events \o new)
        IN  /\ a \in Seq(Nat) /\ Len(a) = Len(answers) + (Len(pending_events) + Len(new))
            /\ \A i \in 1 .. Len(a) : a[i] = i
    <3> DEFINE e == pending_events \o new
    <3>1. e \in Seq(Nat) /\ Len(e) = Len(pending_events) + Len(new)
          /\ \A i \in 1 .. Len(e) : e[i] = Len(answers) + i
      BY <2>2
    <3> HIDE DEF e
    <3>2. /\ answers \o e \in Seq(Nat) /\ Len(answers \o e) = Len(answers) + Len(e)
          /\ \A i \in 1 .. Len(answers \o e) : (answers \o e)[i] = i
      BY <1>a, <3>1, FirstRunLemma
    <3> QED
      BY <3>1, <3>2 DEF e
  <2>4. /\ answers' = answers \o (pending_events \o new) /\ pending_events' = <<>>
    BY <1>3 DEF Deliver
  <2>5. /\ answers' \in Seq(Nat) /\ \A i \in 1 .. Len(answers') : answers'[i] = i
        /\ Len(answers') = Done + Len(new) /\ Len(pending_events') = 0
        /\ pending_events' \in Seq(Nat)
    BY <2>3, <2>4, <2>1, Counts, SMT DEF Done
  <2>6. Done' = Done + Len(new)
    BY <2>1, <2>5, Counts, SMT DEF Done
  <2>7. /\ Len(published') = Len(published) - Len(new) /\ published' \in Seq(Nat)
        /\ \A i \in 1 .. Len(published') : published'[i] = Done' + i
    <3>1. CASE new = <<>>
      BY <1>3, <1>a, <2>6, <3>1, Counts, SMT DEF AnswerInv, InOrder
    <3>2. CASE new = published
      BY <1>3, <1>a, <3>2, Counts, SMT
    <3> QED
      BY <3>1, <3>2
  <2>8. outstanding' = (Done' + 1) .. (next_request_id' - 1)
    <3>1. CASE new = <<>>
      <4>1. Values(new) = {}
        BY <3>1, SMT DEF Values
      <4> QED
        BY <1>1, <1>3, <2>6, <3>1, <4>1, Counts, SMT DEF AnswerInv, InOrder
    <3>2. CASE new = published
      BY <1>1, <1>3, <2>6, <3>2, LeftLemma DEF AnswerInv
    <3> QED
      BY <3>1, <3>2
  <2>9. Done' + Len(published') = Done + Len(published) /\ Sent' = Sent
    <3>1. Done' + Len(published') = Done + Len(published)
      BY <2>1, <2>6, <2>7, Counts, SMT
    <3>2. thread' = thread
      BY <1>3
    <3> QED
      BY <3>1, <3>2 DEF Sent
  <2>10. InOrder'
    <3>1. Done' + Len(published') < next_request_id'
      BY <1>1, <2>9 DEF AnswerInv, InOrder
    <3>2. \A i \in 1 .. Len(pending_events') : pending_events'[i] = Len(answers') + i
      BY <2>5, SMT
    <3> QED
      BY <2>5, <2>7, <2>8, <3>1, <3>2 DEF InOrder
  <2>11. Channel'
    BY <1>1, <1>3, <2>9 DEF AnswerInv, Channel
  <2>12. Idle'
    <3> SUFFICES ASSUME ~running PROVE published' = <<>> /\ commands' = <<>> /\ Done' = next_request_id' - 1
      BY <1>3 DEF Idle
    <3>1. published = <<>> /\ commands = <<>> /\ Done = next_request_id - 1 /\ new = <<>>
      BY <1>3 DEF AnswerInv, Idle
    <3> QED
      BY <1>1, <1>3, <2>6, <3>1, Counts, SMT
  <2> QED
    BY <2>10, <2>11, <2>12
<1>4. CASE /\ Deliver(pending_events \o published, pending_failures)
           /\ outstanding' = outstanding \ Values(published) /\ published' = <<>>
           /\ UNCHANGED <<running, commands, thread>>
  <2>1. published = <<>> => published' = published
    BY <1>4
  <2> QED
    BY <1>3, <1>4, <2>1
<1>5. CASE /\ Deliver(pending_events, pending_failures)
           /\ UNCHANGED <<running, outstanding, commands, published, thread>>
  <2>1. pending_events \o <<>> = pending_events /\ Values(<<>>) = {}
    BY <1>a, SMT DEF Values
  <2>2. published = <<>> => published' = <<>>
    BY <1>5
  <2> QED
    BY <1>3, <1>5, <2>1, <2>2
<1> QED
  BY <1>2, <1>4, <1>5 DEF Poll

\* reset, power_off and shutdown, and what follows them.
LEMMA LifeAnswers ==
  ASSUME Counting, AnswerInv, \/ PowerOn \/ Joined \/ Started
                    \/ \E why \in {"reset", "power_off", "shutdown"} : Stop(why)
  PROVE  InOrder' /\ Channel' /\ Idle'
<1>a. answers \in Seq(Nat) /\ \A i \in 1 .. Len(answers) : answers[i] = i
  BY DEF AnswerInv, InOrder
<1>1. CASE PowerOn
  <2>1. published = <<>> /\ commands = <<>> /\ Done = next_request_id - 1
    BY <1>1 DEF PowerOn, AnswerInv, Idle
  <2>2. outstanding = {}
    BY <2>1, Counts, SMT DEF AnswerInv, InOrder
  <2>3. thread'.phase = "starting" /\ ~Joining'
    BY <1>1 DEF PowerOn, Start, NoThread, Joining
  <2>4. UNCHANGED <<next_request_id, outstanding, pending_events, commands, published, answers>>
    BY <1>1 DEF PowerOn, history
  <2>5. /\ pending_events' \in Seq(Nat)
        /\ \A i \in 1 .. Len(pending_events') : pending_events'[i] = Len(answers') + i
    BY <2>4 DEF AnswerInv, InOrder
  <2>6. Len(answers') + Len(pending_events') = next_request_id' - 1
    BY <2>1, <2>4 DEF Done
  <2> QED
    BY <1>a, <2>1, <2>2, <2>3, <2>4, <2>5, <2>6, Counts, CollectAnswers
<1>2. CASE Joined
  <2>1. /\ Finished \in Seq(Nat)
        /\ Len(answers) + Len(Finished) = next_request_id - 1
        /\ \A i \in 1 .. Len(Finished) : Finished[i] = Len(answers) + i
    BY FinishedLemma DEF AnswerInv
  <2>2. /\ pending_events' = Finished /\ outstanding' = {} /\ commands' = <<>> /\ published' = <<>>
        /\ UNCHANGED <<next_request_id, answers>>
    BY <1>2 DEF Joined
  <2>3. thread'.phase \in {"none", "starting"} /\ ~Joining'
    <3>1. CASE gui.why = "reset"
      <4>1. PICK media, lost : Start(media, lost)
        BY <1>2, <3>1 DEF Joined
      <4> QED
        BY <4>1 DEF Start, NoThread, Joining
    <3>2. CASE gui.why # "reset"
      BY <1>2, <3>2, SMT DEF Joined, NoThread, Free, Joining
    <3> QED
      BY <3>1, <3>2
  <2> QED
    BY <1>a, <2>1, <2>2, <2>3, Counts, CollectAnswers
<1>3. CASE Started
  <2>1. /\ UNCHANGED <<next_request_id, outstanding, pending_events, commands, published, answers>>
        /\ (thread' = thread \/ (thread'.phase = "none" /\ thread.phase = "finished"))
        /\ (~running' => ~running) /\ ~Joining /\ ~Joining'
    <3>1. gui.at = "starting" /\ gui' = Free
      BY <1>3 DEF Started
    <3>2. UNCHANGED <<next_request_id, outstanding, pending_events, commands, published, answers>>
      BY <1>3 DEF Started
    <3>3. CASE running' = TRUE /\ thread' = thread
      BY <3>1, <3>2, <3>3 DEF Free, Joining
    <3>4. CASE thread.phase = "finished" /\ thread' = NoThread /\ running' = running
      BY <3>1, <3>2, <3>4 DEF Free, Joining, NoThread
    <3> QED
      BY <1>3, <3>3, <3>4 DEF Started
  <2>2. Done' = Done /\ Sent' = Sent
    BY <2>1 DEF Done, Sent
  <2> QED
    BY <2>1, <2>2 DEF AnswerInv, InOrder, Channel, Idle
<1>4. ASSUME NEW why \in {"reset", "power_off", "shutdown"}, Stop(why)
      PROVE  InOrder' /\ Channel' /\ Idle'
  <2>1. /\ UNCHANGED <<running, next_request_id, outstanding, pending_events, published, thread, answers>>
        /\ commands' = Append(commands, [id |-> 0, kind |-> "shutdown", floppy |-> None])
        /\ running /\ ~Joining /\ Joining'
    BY <1>4 DEF Stop, Joining, history, AnswerInv, Types
  <2>2. Done' = Done /\ Sent' = Sent
    BY <2>1 DEF Done, Sent
  <2>3. /\ Len(commands') = Len(commands) + 1
        /\ commands'[Len(commands) + 1].kind = "shutdown"
        /\ \A i \in 1 .. Len(commands) : commands'[i] = commands[i]
    BY <2>1, SMT DEF AnswerInv, Types
  <2>4. Channel'
    <3> SUFFICES ASSUME thread.phase \in {"starting", "running", "answering"}
                 PROVE  Channel'
      BY <2>1 DEF Channel
    <3>1. /\ thread.phase = "answering" => thread.answer = Sent
          /\ Len(commands) = next_request_id - 1 - Sent
          /\ \A i \in 1 .. Len(commands) :
              commands[i].kind # "shutdown" /\ commands[i].id = Sent + i
      BY <2>1 DEF AnswerInv, Channel
    <3>2. ASSUME NEW i \in 1 .. Len(commands')
          PROVE  IF i = Len(commands') THEN commands'[i].kind = "shutdown"
                 ELSE commands'[i].kind # "shutdown" /\ commands'[i].id = Sent + i
      <4>1. CASE i \in 1 .. Len(commands)
        BY <2>3, <3>1, <4>1, Counts
      <4>2. CASE i = Len(commands) + 1
        BY <2>3, <4>2
      <4> QED
        BY <2>3, <4>1, <4>2, Counts, SMT
    <3>3. /\ Len(commands') = next_request_id' - Sent' /\ Len(commands') > 0
          /\ commands'[Len(commands')].kind = "shutdown"
      BY <2>1, <2>2, <2>3, <3>1, Counts, SMT
    <3> QED
      BY <2>1, <2>2, <3>1, <3>2, <3>3 DEF Channel
  <2>5. InOrder' /\ Idle'
    BY <2>1, <2>2 DEF AnswerInv, InOrder, Idle
  <2> QED
    BY <2>4, <2>5
<1> QED
  BY <1>1, <1>2, <1>3, <1>4

\* The emulation thread takes a request from the channel, answers it, or
\* stops reading.
LEMMA WorkerAnswers ==
  ASSUME AnswerInv, Worker \/ GuestWrites \/ Panic
  PROVE  InOrder' /\ Channel' /\ Idle'
<1>0. UNCHANGED <<gui, running, next_request_id, outstanding, pending_events, answers>>
  BY DEF Worker, Initialize, Receive, Publish, Finalize, Exit, GuestWrites, Panic,
         workerUnchanged, guiVars
<1>d. Done' = Done /\ Joining' = Joining
  BY <1>0 DEF Done, Joining
\* Steps that read and publish nothing.
<1>1. ASSUME UNCHANGED <<commands, published>>,
             \/ thread'.phase \notin {"starting", "running", "answering"}
             \/ thread.phase \in {"starting", "running"} /\ thread'.phase = "running"
      PROVE  InOrder' /\ Channel' /\ Idle'
  <2>1. InOrder' /\ Idle'
    BY <1>0, <1>1, <1>d DEF AnswerInv, InOrder, Idle
  <2>2. CASE thread'.phase \notin {"starting", "running", "answering"}
    BY <2>1, <2>2 DEF Channel
  <2>3. CASE thread.phase \in {"starting", "running"} /\ thread'.phase = "running"
    <3>1. Sent' = Sent
      BY <1>1, <1>d, <2>3 DEF Sent
    <3>2. Channel'
      BY <1>0, <1>1, <1>d, <2>3, <3>1 DEF AnswerInv, Channel
    <3> QED
      BY <2>1, <3>2
  <2> QED
    BY <1>1, <2>2, <2>3
<1>2. CASE Initialize
  <2>1. UNCHANGED <<commands, published>> /\ thread.phase = "starting" /\ thread'.phase \in {"running", "finalizing"}
    BY <1>2 DEF Initialize, AnswerInv, Types, Threads
  <2> QED
    BY <1>1, <2>1
<1>3. CASE Finalize
  <2>1. UNCHANGED <<commands, published>> /\ thread'.phase \in {"returned", "finished"}
    BY <1>3 DEF Finalize, AnswerInv, Types, Threads
  <2> QED
    BY <1>1, <2>1
<1>4. CASE Exit
  <2>1. UNCHANGED <<commands, published>> /\ thread'.phase = "finished"
    BY <1>4 DEF Exit, AnswerInv, Types, Threads
  <2> QED
    BY <1>1, <2>1
<1>5. CASE GuestWrites
  <2>1. UNCHANGED <<commands, published>> /\ thread.phase = "running" /\ thread'.phase = "running"
    BY <1>5 DEF GuestWrites, AnswerInv, Types, Threads
  <2> QED
    BY <1>1, <2>1
<1>6. CASE Panic
  <2>1. UNCHANGED <<commands, published>> /\ thread'.phase = "finalizing"
    BY <1>6 DEF Panic, AnswerInv, Types, Threads
  <2> QED
    BY <1>1, <2>1
<1>7. CASE Publish
  <2>1. /\ thread.phase = "answering" /\ thread'.phase = "running"
        /\ published' = Append(published, thread.answer) /\ commands' = commands
    BY <1>7 DEF Publish, AnswerInv, Types, Threads
  <2>2. /\ thread.answer = Sent /\ Sent = Done + Len(published) + 1
        /\ Sent < next_request_id
    BY <2>1, Counts, SMT DEF AnswerInv, Channel, Sent
  <2>3. published \in Seq(Nat) /\ \A i \in 1 .. Len(published) : published[i] = Done + i
    BY DEF AnswerInv, InOrder
  <2>4. /\ published' \in Seq(Nat) /\ Len(published') = Len(published) + 1
        /\ \A i \in 1 .. Len(published') : published'[i] = Done + i
    <3>1. thread.answer = Done + Len(published) + 1 /\ Done \in Nat /\ thread.answer \in Nat
      BY <2>2, Counts
    <3> QED
      BY <2>1, <2>3, <3>1, AppendLemma
  <2>5. Sent' = Sent
    BY <1>d, <2>1, <2>2, <2>4, Counts, SMT DEF Sent
  <2>6. InOrder'
    <3>1. Done' + Len(published') < next_request_id'
      BY <1>0, <1>d, <2>2, <2>4, Counts, SMT
    <3> QED
      BY <1>0, <1>d, <2>4, <3>1 DEF AnswerInv, InOrder
  <2>7. Channel'
    BY <1>0, <1>d, <2>1, <2>5 DEF AnswerInv, Channel
  <2>8. Idle'
    BY <1>0, <2>1, <2>2, Counts, SMT DEF AnswerInv, Idle
  <2> QED
    BY <2>6, <2>7, <2>8
<1>8. CASE Receive
  <2>0. /\ thread.phase = "running" /\ commands # <<>> /\ commands' = Tail(commands)
        /\ published' = published
    BY <1>8 DEF Receive
  <2>1. /\ Len(commands') = Len(commands) - 1 /\ Len(commands) > 0 /\ Head(commands) = commands[1]
        /\ \A i \in 1 .. Len(commands') : i + 1 \in 1 .. Len(commands) /\ commands'[i] = commands[i + 1]
    BY <2>0, SMT DEF AnswerInv, Types
  <2>2. InOrder'
    BY <1>0, <1>d, <2>0 DEF AnswerInv, InOrder
  <2>3. Idle'
    BY <1>0, <1>d, <2>0 DEF AnswerInv, Idle
  <2>4. CASE commands[1].kind = "shutdown"
    <3>1. thread'.phase = "finalizing"
      BY <1>8, <2>1, <2>4 DEF Receive, AnswerInv, Types, Threads
    <3> QED
      BY <2>2, <2>3, <3>1 DEF Channel
  <2>5. CASE commands[1].kind # "shutdown"
    <3>1. thread'.phase = "answering" /\ thread'.answer = commands[1].id
      <4>1. Apply(Head(commands)) /\ Head(commands) = commands[1]
        BY <1>8, <2>1, <2>5 DEF Receive
      <4>2. thread \in Threads
        BY DEF AnswerInv, Types
      <4> QED
        BY <4>1, <4>2 DEF Apply, Threads
    <3>2. /\ Len(commands) = (IF Joining THEN next_request_id ELSE next_request_id - 1) - Sent
          /\ Joining => commands[Len(commands)].kind = "shutdown"
          /\ \A i \in 1 .. Len(commands) : commands[i].kind # "shutdown" => commands[i].id = Sent + i
          /\ \A i \in 1 .. Len(commands) :
              commands[i].kind = "shutdown" => Joining /\ i = Len(commands)
      BY <2>0 DEF AnswerInv, Channel
    <3>3. Sent' = Sent + 1
      BY <1>d, <2>0, <3>1, Counts, SMT DEF Sent
    <3>4. thread'.answer = Sent'
      <4>1. 1 \in 1 .. Len(commands)
        BY <2>1, Counts, SMT
      <4>2. commands[1].id = Sent + 1
        BY <2>5, <3>2, <4>1
      <4> QED
        BY <3>1, <3>3, <4>2
    <3>5. Len(commands') = (IF Joining' THEN next_request_id' ELSE next_request_id' - 1) - Sent'
      <4> DEFINE n == next_request_id
                 k == Len(commands)
                 t == Sent
      <4>1. /\ n \in Nat /\ k \in Nat /\ t \in Nat /\ k = (IF Joining THEN n ELSE n - 1) - t
            /\ Len(commands') = k - 1 /\ next_request_id' = n /\ Sent' = t + 1
            /\ Joining' = Joining
        BY <1>0, <1>d, <2>1, <3>2, <3>3, Counts
      <4> HIDE DEF n, k, t
      <4>2. /\ k = n - t => k - 1 = n - (t + 1)
            /\ k = n - 1 - t => k - 1 = n - 1 - (t + 1)
        BY <4>1, SMT
      <4> QED
        BY <4>1, <4>2
    <3>6. Joining' => Len(commands') > 0 /\ commands'[Len(commands')].kind = "shutdown"
      <4> SUFFICES ASSUME Joining' PROVE Len(commands') > 0 /\ commands'[Len(commands')].kind = "shutdown"
        OBVIOUS
      <4>1. commands[Len(commands)].kind = "shutdown" /\ Len(commands) # 1
        BY <1>d, <2>5, <3>2
      <4>2. Len(commands') > 0
        BY <2>1, <4>1, Counts, SMT
      <4>3. Len(commands') \in 1 .. Len(commands') /\ Len(commands') + 1 = Len(commands)
        BY <2>1, <4>2, Counts, SMT
      <4> QED
        BY <2>1, <4>1, <4>2, <4>3
    <3>7. ASSUME NEW i \in 1 .. Len(commands')
          PROVE  /\ commands'[i].kind # "shutdown" => commands'[i].id = Sent' + i
                 /\ commands'[i].kind = "shutdown" => Joining' /\ i = Len(commands')
      <4>1. i + 1 \in 1 .. Len(commands) /\ commands'[i] = commands[i + 1] /\ i \in Nat
        BY <2>1, Counts, SMT
      <4>2. Sent + (i + 1) = Sent' + i
        BY <3>3, <4>1, Counts, SMT
      <4>3. i + 1 = Len(commands) => i = Len(commands')
        BY <2>1, <4>1, Counts, SMT
      <4> QED
        BY <1>d, <3>2, <4>1, <4>2, <4>3
    <3>8. Channel'
      BY <3>4, <3>5, <3>6, <3>7 DEF Channel
    <3> QED
      BY <2>2, <2>3, <3>8
  <2> QED
    BY <2>4, <2>5
<1> QED
  BY <1>2, <1>3, <1>4, <1>5, <1>6, <1>7, <1>8 DEF Worker

\* Every step keeps the answers in order.
LEMMA NextAnswer == ASSUME Counting PROVE AnswerInv /\ [Next]_vars => AnswerInv'
<1> SUFFICES ASSUME AnswerInv, [Next]_vars PROVE AnswerInv'
  OBVIOUS
<1>1. Types' /\ Handshake'
  BY BaseStep DEF AnswerInv
<1>2. InOrder' /\ Channel' /\ Idle'
  <2>1. CASE UNCHANGED vars
    BY <2>1 DEF vars, guiVars, history, AnswerInv, InOrder, Channel, Idle, Done, Sent, Joining
  <2> QED
    BY <2>1, RequestAnswers, PollAnswers, LifeAnswers, WorkerAnswers DEF Next, User
<1> QED
  BY <1>1, <1>2 DEF AnswerInv

-----------------------------------------------------------------------------
(* No guest write is lost in silence.                                      *)

\* The start of a session.
LEMMA InitWrite == Init => WriteInv
<1> SUFFICES ASSUME Init PROVE Numbered /\ Drive /\ Waiting /\ Lost /\ Carry /\ Safe
  BY InitBase DEF WriteInv
<1>1. \A s \in Sources : written[s] = {} /\ file[s] = {}
  BY DEF Init
<1>2. UNION {written[s] : s \in Sources} = 1 .. 0
  BY <1>1, SMT
<1>3. Numbered
  BY <1>1, <1>2 DEF Numbered
<1> QED
  BY <1>1, <1>3, SMT DEF Init, Drive, Waiting, Lost, Carry, Safe, NoThread, Free

\* Steps that leave the image, the files and the reports in place, and at
\* most settle how the start of a generation went.
LEMMA FrameWrites ==
  ASSUME WriteInv, UNCHANGED <<file, written>>,
         thread'.floppy = thread.floppy, thread'.lost = thread.lost,
         thread'.phase \in {"returned", "finished"} <=> thread.phase \in {"returned", "finished"},
         told \cup dropped \cup pending_failures \cup gui.lost
            \subseteq told' \cup dropped' \cup pending_failures' \cup gui'.lost,
         gui'.at = "starting" /\ startup' # "ok" =>
             gui.at = "starting" /\ startup # "ok" /\ gui'.carried = gui.carried,
         startup = "err" => startup' = "err" /\ gui'.carried = gui.carried
  PROVE  Numbered' /\ Drive' /\ Lost' /\ Carry' /\ Safe'
<1>1. Numbered' /\ Drive' /\ Lost'
  BY SMT DEF WriteInv, Numbered, Drive, Lost
<1>2. Carry'
  BY DEF WriteInv, Carry
<1>3. Safe'
  <2>1. Reported \subseteq Reported'
    BY DEF Reported
  <2>2. \A s, w : InDrive(s, w) => InDrive(s, w)'
    BY DEF InDrive
  <2> QED
    BY <2>1, <2>2 DEF WriteInv, Safe
<1> QED
  BY <1>1, <1>2, <1>3

\* The images on their way stay what they are while nothing touches them.
LEMMA WaitingSame ==
  ASSUME Waiting, UNCHANGED <<commands, file>>,
         thread'.floppy = thread.floppy \/ thread'.floppy = None
         \/ (thread.floppy # None /\ thread'.floppy.source = thread.floppy.source)
  PROVE  Waiting'
  BY SMT DEF Waiting

\* One more command, with a fresh copy of an image that is not held, or none.
LEMMA WaitingAppend ==
  ASSUME Types, Waiting, NEW r \in Commands, commands' = Append(commands, r),
         UNCHANGED <<thread, file>>,
         r.floppy # None => /\ ~r.floppy.unsaved /\ r.floppy.image = file[r.floppy.source]
                            /\ \A f \in Held : f.source # r.floppy.source
  PROVE  Waiting'
<1>1. /\ Len(commands) \in Nat /\ Len(commands') = Len(commands) + 1
      /\ commands'[Len(commands) + 1] = r
      /\ \A i \in 1 .. Len(commands) : commands'[i] = commands[i]
      /\ \A i \in 1 .. Len(commands') : i \in 1 .. Len(commands) \/ i = Len(commands) + 1
  BY SMT DEF Types
<1>2. \A i \in 1 .. Len(commands) : commands[i].floppy # None => commands[i].floppy \in Held
  BY SMT DEF Held, Values, Types
<1>3. thread.floppy # None => thread.floppy \in Held
  BY DEF Held
<1>4. \A i \in 1 .. Len(commands) :
        r.floppy # None /\ commands[i].floppy # None => commands[i].floppy.source # r.floppy.source
  BY <1>2
<1>5. ASSUME NEW i \in 1 .. Len(commands'), commands'[i].floppy # None
      PROVE  LET f == commands'[i].floppy
             IN  /\ ~f.unsaved /\ f.image = file'[f.source]
                 /\ thread'.floppy # None => thread'.floppy.source # f.source
                 /\ \A j \in 1 .. Len(commands') :
                       j # i /\ commands'[j].floppy # None => commands'[j].floppy.source # f.source
  <2>0. i \in 1 .. Len(commands) \/ i = Len(commands) + 1
    BY <1>1
  <2>1. CASE i \in 1 .. Len(commands)
    <3>1. commands'[i] = commands[i] /\ commands[i].floppy # None
      BY <1>1, <1>5, <2>1
    <3>2. /\ ~commands[i].floppy.unsaved /\ commands[i].floppy.image = file[commands[i].floppy.source]
          /\ thread.floppy # None => thread.floppy.source # commands[i].floppy.source
          /\ \A j \in 1 .. Len(commands) : j # i /\ commands[j].floppy # None =>
                commands[j].floppy.source # commands[i].floppy.source
      BY <2>1, <3>1 DEF Waiting
    <3>3. ASSUME NEW j \in 1 .. Len(commands'), j # i, commands'[j].floppy # None
          PROVE  commands'[j].floppy.source # commands'[i].floppy.source
      <4>1. CASE j \in 1 .. Len(commands)
        BY <1>1, <3>1, <3>2, <3>3, <4>1
      <4>2. CASE j = Len(commands) + 1
        BY <1>1, <1>4, <2>1, <3>1, <3>3, <4>2
      <4> QED
        BY <1>1, <4>1, <4>2
    <3> QED
      BY <3>1, <3>2, <3>3
  <2>2. CASE i = Len(commands) + 1
    BY <1>1, <1>3, <1>4, <1>5, <2>2
  <2> QED
    BY <2>0, <2>1, <2>2
<1> QED
  BY <1>5 DEF Waiting

\* The head of the channel is taken, and its image, if it is mounted, with it.
LEMMA WaitingTail ==
  ASSUME Types, Waiting, commands # <<>>, commands' = Tail(commands),
         \A i \in 1 .. Len(commands) : commands[i].floppy # None =>
             file'[commands[i].floppy.source] = file[commands[i].floppy.source],
         thread'.floppy \in {thread.floppy, commands[1].floppy}
  PROVE  Waiting'
<1>1. /\ Len(commands) \in Nat \ {0} /\ Len(commands') = Len(commands) - 1
      /\ \A i \in 1 .. Len(commands') : i + 1 \in 1 .. Len(commands) /\ commands'[i] = commands[i + 1]
  BY SMT DEF Types
<1>2. ASSUME NEW i \in 1 .. Len(commands'), commands'[i].floppy # None
      PROVE  LET f == commands'[i].floppy
             IN  /\ ~f.unsaved /\ f.image = file'[f.source]
                 /\ thread'.floppy # None => thread'.floppy.source # f.source
                 /\ \A j \in 1 .. Len(commands') :
                       j # i /\ commands'[j].floppy # None => commands'[j].floppy.source # f.source
  <2>1. i + 1 \in 1 .. Len(commands) /\ commands'[i] = commands[i + 1] /\ i + 1 # 1 /\ 1 \in 1 .. Len(commands)
    BY <1>1, SMT
  <2>2. \A j \in 1 .. Len(commands) : j # i + 1 /\ commands[j].floppy # None =>
            commands[j].floppy.source # commands[i + 1].floppy.source
    BY <1>2, <2>1 DEF Waiting
  <2>3. \A j \in 1 .. Len(commands') : j # i => j + 1 # i + 1
    BY <1>1, SMT
  <2>4. \A j \in 1 .. Len(commands') : j # i /\ commands'[j].floppy # None =>
            commands'[j].floppy.source # commands'[i].floppy.source
    BY <1>1, <2>1, <2>2, <2>3, SMT
  <2>5. ~commands'[i].floppy.unsaved /\ commands'[i].floppy.image = file'[commands'[i].floppy.source]
    BY <1>2, <2>1, SMT DEF Waiting
  <2>6. thread'.floppy # None => thread'.floppy.source # commands'[i].floppy.source
    BY <1>2, <2>1, <2>2, SMT DEF Waiting
  <2> QED
    BY <2>4, <2>5, <2>6
<1> QED
  BY <1>2 DEF Waiting

WriteBody == Numbered /\ Drive /\ Waiting /\ Lost /\ Carry /\ Safe

\* A finished worker is collected, with its failures, or replaced by one with
\* an empty drive.
LEMMA DropWrites ==
  ASSUME WriteInv, UNCHANGED <<file, written>>, commands' = <<>>,
         thread.phase \in {"none", "finished"}, thread.phase = "none" => thread.floppy = None,
         thread'.phase \in {"none", "starting"}, thread'.floppy = None, thread'.lost = {},
         told \cup dropped \cup pending_failures \cup gui.lost \cup thread.lost
            \subseteq told' \cup dropped' \cup pending_failures' \cup gui'.lost,
         startup # "err"
  PROVE  WriteBody'
<1>1. Numbered' /\ Drive' /\ Waiting' /\ Lost' /\ Carry'
  BY SMT DEF WriteInv, Numbered, Drive, Waiting, Lost, Carry
<1>2. ASSUME NEW s \in Sources, NEW w \in written[s] PROVE w \in file[s] \/ w \in Reported'
  <2>1. CASE InDrive(s, w)
    BY <2>1 DEF InDrive, WriteInv, Lost, Reported
  <2>2. CASE ~InDrive(s, w)
    BY <2>2 DEF WriteInv, Safe, Reported
  <2> QED
    BY <2>1, <2>2
<1>3. Safe'
  BY <1>2 DEF Safe
<1> QED
  BY <1>1, <1>3 DEF WriteBody

\* Requests, polls and the calls that stop or start the machine.
LEMMA UserWrites == ASSUME ~Reloads, WriteInv, User \/ Poll PROVE WriteBody'
<1>t. Types /\ Handshake /\ Waiting
  BY DEF WriteInv
<1>1. CASE MakeRequest
  <2>1. PICK r \in UserRequests : Request(r)
    BY <1>1 DEF MakeRequest
  <2>2. CASE Send(r)
    <3>1. /\ commands' = Append(commands, r)
          /\ UNCHANGED <<gui, pending_failures, startup, thread, file, written, told, dropped>>
      BY <2>2 DEF Send, history
    <3>2. Numbered' /\ Drive' /\ Lost' /\ Carry' /\ Safe'
      BY <3>1, FrameWrites
    <3>3. Waiting'
      BY <1>t, <3>1, RequestLemma, WaitingAppend
    <3> QED
      BY <3>2, <3>3 DEF WriteBody
  <2>3. CASE UNCHANGED <<gui, pending_failures, startup, thread, file, written, told, dropped, commands>>
    <3>1. Numbered' /\ Drive' /\ Lost' /\ Carry' /\ Safe'
      BY <2>3, FrameWrites
    <3> QED
      BY <1>t, <2>3, <3>1, WaitingSame DEF WriteBody
  <2>4. CASE /\ thread.phase = "finished" /\ pending_failures' = pending_failures \cup thread.lost
             /\ Collect /\ UNCHANGED <<gui, startup, file, written, told, dropped>>
    <3>1. startup = None /\ None # "err"
      BY <1>1, <1>t, GuiAssumption DEF MakeRequest, Handshake
    <3> QED
      BY <2>4, <3>1, DropWrites DEF Collect, NoThread
  <2> QED
    BY <2>1, <2>2, <2>3, <2>4 DEF Request, history
<1>2. CASE PowerOn
  <2>1. thread = NoThread /\ gui.lost = {} /\ startup = None /\ None # "err"
    BY <1>2, <1>t, GuiAssumption DEF PowerOn, Handshake
  <2>2. /\ thread' = [NoThread EXCEPT !.phase = "starting", !.floppy = None]
        /\ gui' = [at |-> "starting", why |-> None, lost |-> {}, carried |-> {}]
        /\ UNCHANGED <<commands, pending_failures, startup, file, written, told, dropped>>
    BY <1>2 DEF PowerOn, Start, history
  <2>3. commands' = commands /\ Waiting'
    BY <1>t, <2>1, <2>2, WaitingSame DEF NoThread
  <2>4. Numbered' /\ Drive' /\ Lost' /\ Carry'
    BY <2>1, <2>2, SMT DEF WriteInv, Numbered, Drive, Lost, Carry, NoThread
  <2>5. Safe'
    BY <2>1, <2>2 DEF WriteInv, Safe, InDrive, Reported, NoThread
  <2> QED
    BY <2>3, <2>4, <2>5 DEF WriteBody
<1>3. ASSUME NEW why \in {"reset", "power_off", "shutdown"}, Stop(why) PROVE WriteBody'
  <2> DEFINE r == [id |-> 0, kind |-> "shutdown", floppy |-> None]
  <2>1. /\ commands' = Append(commands, r) /\ gui.at = "free" /\ gui'.at = "joining"
        /\ gui'.lost = gui.lost /\ gui'.carried = gui.carried
        /\ UNCHANGED <<pending_failures, startup, thread, file, written, told, dropped>>
    BY <1>3, <1>t DEF Stop, history, Types
  <2>2. r \in Commands /\ r.floppy = None
    BY DEF Commands, Media
  <2> HIDE DEF r
  <2>3. Waiting'
    BY <1>t, <2>1, <2>2, WaitingAppend
  <2>4. Numbered' /\ Drive' /\ Lost' /\ Carry' /\ Safe'
    BY <2>1, FrameWrites
  <2> QED
    BY <2>3, <2>4 DEF WriteBody
<1>4. CASE Poll
  <2>1. CASE /\ thread.phase = "finished" /\ Deliver(Finished, pending_failures \cup thread.lost)
             /\ Collect
    <3>0. gui.at = "free"
      BY <1>4 DEF Poll
    <3>1. startup = None /\ None # "err"
      BY <1>t, <3>0, GuiAssumption DEF Handshake
    <3>2. /\ told' = told \cup (pending_failures \cup thread.lost)
          /\ UNCHANGED <<gui, file, written, dropped>>
      BY <1>4, <2>1 DEF Poll, Deliver
    <3> QED
      BY <2>1, <3>1, <3>2, DropWrites DEF Collect, NoThread
  <2>2. CASE /\ UNCHANGED <<commands, thread, gui, startup, file, written, dropped>>
             /\ told' = told \cup pending_failures
    <3>1. Numbered' /\ Drive' /\ Lost' /\ Carry' /\ Safe'
      BY <2>2, FrameWrites
    <3> QED
      BY <1>t, <2>2, <3>1, WaitingSame DEF WriteBody
  <2> QED
    BY <1>4, <2>1, <2>2 DEF Poll, Deliver
<1> QED
  BY <1>1, <1>2, <1>3, <1>4 DEF User

\* A reset, power-off or shutdown has joined the thread.
LEMMA JoinedWrites == ASSUME WriteInv, Joined PROVE WriteBody'
<1>t. Types /\ Handshake /\ gui.at = "joining" /\ thread.phase = "finished" /\ startup = None
      /\ gui.lost = {} /\ None # "err"
  BY GuiAssumption DEF WriteInv, Joined, Handshake
<1>0. commands' = <<>> /\ UNCHANGED <<pending_failures, startup, file, written>>
  BY DEF Joined
<1>1. CASE gui.why # "reset"
  <2>1. thread' = NoThread /\ gui' = Free /\ told' = told \cup thread.lost /\ dropped' = dropped
    BY <1>1 DEF Joined
  <2> QED
    BY <1>t, <1>0, <2>1, DropWrites DEF NoThread, Free
<1>2. CASE gui.why = "reset"
  <2>1. PICK media \in Carried(thread.floppy) :
            Start(media, thread.lost \ (IF media = None THEN {} ELSE media.image))
    BY <1>2 DEF Joined
  <2>2. told' = told /\ dropped' = dropped
    BY <1>2 DEF Joined
  <2>3. CASE media = None
    <3>1. /\ thread'.phase = "starting" /\ thread'.floppy = None /\ thread'.lost = {}
          /\ gui'.lost = thread.lost
      BY <2>1, <2>3 DEF Start, NoThread
    <3> QED
      BY <1>t, <1>0, <2>2, <3>1, DropWrites
  <2>4. CASE media # None
    <3> DEFINE f == thread.floppy
    <3>1. /\ f # None /\ f \in Floppies
          /\ media = IF f.unsaved THEN f ELSE [f EXCEPT !.image = file[f.source]]
      BY <1>t, <2>1, <2>4 DEF Carried, Types, Threads, Media
    <3>2. /\ file[f.source] \subseteq f.image /\ f.image \subseteq written[f.source]
          /\ ~f.unsaved => f.image = file[f.source] /\ thread.lost = {}
          /\ f.unsaved => thread.lost = f.image \ file[f.source]
      BY <1>t, <3>1 DEF WriteInv, Drive, Lost
    <3>3. media = f
      BY <3>1, <3>2 DEF Floppies
    <3>4. /\ thread'.phase = "starting" /\ thread'.floppy = f /\ thread'.lost = {}
          /\ gui'.at = "starting" /\ gui'.lost = thread.lost \ f.image
          /\ gui'.carried = f.image \ file[f.source]
      BY <2>1, <2>4, <3>3 DEF Start, NoThread
    <3> HIDE DEF f
    <3>5. Numbered' /\ Drive' /\ Waiting' /\ Lost' /\ Carry'
      <4>1. Numbered'
        BY <1>0, SMT DEF WriteInv, Numbered
      <4>2. Drive'
        BY <1>0, <3>2, <3>4 DEF Drive
      <4>3. Waiting'
        BY <1>0, SMT DEF Waiting
      <4>4. Lost' /\ Carry'
        BY <1>0, <3>4 DEF Lost, Carry
      <4> QED
        BY <4>1, <4>2, <4>3, <4>4
    <3>6. ASSUME NEW s \in Sources, NEW w \in written[s]
          PROVE  w \in file[s] \/ InDrive(s, w)' \/ w \in Reported'
      <4>1. CASE InDrive(s, w)
        BY <3>4, <4>1 DEF InDrive, f
      <4>2. CASE w \in thread.lost
        <5>1. f.unsaved /\ w \in f.image
          BY <3>2, <4>2, <3>1 DEF Floppies
        <5>2. f.source = s
          BY <3>1, <3>2, <5>1 DEF WriteInv, Numbered, Floppies
        <5> QED
          BY <3>1, <3>4, <5>1, <5>2 DEF InDrive
      <4> QED
        BY <1>t, <1>0, <2>2, <4>1, <4>2 DEF WriteInv, Safe, Reported
    <3>7. Safe'
      BY <1>0, <3>6 DEF Safe
    <3> QED
      BY <3>5, <3>7 DEF WriteBody
  <2> QED
    BY <2>3, <2>4
<1> QED
  BY <1>1, <1>2

\* A generation has started, or has failed to.
LEMMA StartedWrites == ASSUME WriteInv, Started PROVE WriteBody'
<1>t. Types /\ Handshake /\ Waiting /\ gui.at = "starting"
  BY DEF WriteInv, Started
<1>0. /\ gui' = Free /\ startup' = None /\ UNCHANGED <<commands, pending_failures, file, written>>
      /\ gui'.at = "free" /\ gui'.lost = {}
  BY DEF Started, Free
<1>1. CASE /\ startup = "ok" /\ told' = told \cup gui.lost
           /\ thread' = thread /\ dropped' = dropped
  <2>1. Numbered' /\ Drive' /\ Lost' /\ Carry' /\ Safe'
    BY <1>0, <1>1, FrameWrites
  <2> QED
    BY <1>t, <1>0, <1>1, <2>1, WaitingSame DEF WriteBody
<1>2. CASE /\ startup = "err" /\ thread.phase = "finished" /\ thread' = NoThread
           /\ told' = told
           /\ dropped' = dropped \cup
                ((gui.lost \cup gui.carried) \ UNION {file[s] : s \in Sources})
  <2>1. thread.lost \subseteq gui.carried /\ ~None = "err"
    BY <1>t, <1>2, GuiAssumption DEF WriteInv, Carry
  <2>2. Waiting'
    BY <1>t, <1>0, <1>2, WaitingSame DEF NoThread
  <2>3. Numbered' /\ Drive' /\ Lost' /\ Carry'
    BY <1>0, <1>2, SMT DEF WriteInv, Numbered, Drive, Lost, Carry, NoThread
  <2>4. ASSUME NEW s \in Sources, NEW w \in written[s] PROVE w \in file[s] \/ w \in Reported'
    <3>1. InDrive(s, w) => w \in file[s] \/ w \in gui.carried
      BY <1>t, <1>2 DEF InDrive, WriteInv, Carry
    <3>2. \/ w \in file[s] \/ w \in told \cup dropped \cup pending_failures
          \/ w \in gui.lost \cup gui.carried
      BY <1>0, <1>2, <2>1, <3>1 DEF WriteInv, Safe, Reported
    <3>3. ASSUME w \in UNION {file[t] : t \in Sources} PROVE w \in file[s]
      <4>1. PICK t \in Sources : w \in file[t]
        BY <3>3
      <4>2. w \in written[t]
        BY <4>1 DEF WriteInv, Numbered
      <4>3. t = s
        BY <4>2 DEF WriteInv, Numbered
      <4> QED
        BY <4>1, <4>3
    <3> QED
      BY <1>0, <1>2, <3>2, <3>3 DEF Reported
  <2>5. Safe'
    BY <1>0, <2>4 DEF Safe
  <2> QED
    BY <2>2, <2>3, <2>5 DEF WriteBody
<1> QED
  BY <1>1, <1>2 DEF Started

\* The image that leaves the drive, or stays in it, has been written back.
LEMMA SavedWrites ==
  ASSUME WriteInv, NEW f, f = thread.floppy, f # None
  PROVE  LET g == Saved(f)
         IN  /\ f \in Floppies
             /\ g[f.source] = f.image
             /\ \A s \in Sources : s # f.source => g[s] = file[s]
             /\ \A s \in Sources : file[s] \subseteq g[s] /\ g[s] \subseteq written[s]
             /\ \A i \in 1 .. Len(commands) : commands[i].floppy # None =>
                   g[commands[i].floppy.source] = file[commands[i].floppy.source]
<1>1. f \in Floppies /\ f \in Media
  BY DEF WriteInv, Types, Threads, Media
<1>2. \A s \in Sources : Saved(f)[s] = IF f.unsaved /\ f.source = s THEN f.image ELSE file[s]
  BY <1>1, SavedLemma, SMT DEF WriteInv
<1>3. /\ file[f.source] \subseteq f.image /\ f.image \subseteq written[f.source]
      /\ ~f.unsaved => f.image = file[f.source]
  BY DEF WriteInv, Drive
<1>4. Saved(f)[f.source] = f.image
  BY <1>1, <1>2, <1>3 DEF Floppies
<1>5. \A s \in Sources : file[s] \subseteq Saved(f)[s] /\ Saved(f)[s] \subseteq written[s]
  BY <1>2, <1>3 DEF WriteInv, Numbered
<1>6. ASSUME NEW i \in 1 .. Len(commands), commands[i].floppy # None
      PROVE  Saved(f)[commands[i].floppy.source] = file[commands[i].floppy.source]
  <2>0. commands[i] \in Commands
    BY SMT DEF WriteInv, Types
  <2>1. commands[i].floppy \in Floppies
    BY <1>6, <2>0 DEF Commands, Media
  <2>2. commands[i].floppy.source # f.source
    BY <1>6 DEF WriteInv, Waiting
  <2> QED
    BY <1>2, <2>1, <2>2 DEF Floppies
<1> QED
  BY <1>1, <1>2, <1>4, <1>5, <1>6

\* The machine is built, and the start reported.
LEMMA InitializeWrites == ASSUME WriteInv, Initialize PROVE WriteBody'
<1>t. Types /\ Handshake /\ Waiting /\ thread.phase = "starting" /\ gui.at = "starting" /\ startup = None
      /\ None # "ok" /\ None # "err"
  BY GuiAssumption DEF WriteInv, Initialize, Handshake
<1>0. UNCHANGED <<gui, pending_failures, told, dropped, commands, file, written>>
  BY DEF Initialize, workerUnchanged, guiVars
<1>1. CASE thread' = [thread EXCEPT !.phase = "running"] /\ startup' = "ok"
  <2>1. thread'.floppy = thread.floppy /\ thread'.lost = thread.lost /\ thread'.phase = "running"
    BY <1>t, <1>1 DEF Types, Threads
  <2>2. Numbered' /\ Drive' /\ Lost' /\ Carry' /\ Safe'
    BY <1>t, <1>0, <1>1, <2>1, FrameWrites
  <2> QED
    BY <1>t, <1>0, <2>1, <2>2, WaitingSame DEF WriteBody
<1>2. ASSUME NEW f \in {None, thread.floppy},
             thread' = [thread EXCEPT !.phase = "finalizing", !.floppy = f], startup' = "err"
      PROVE  WriteBody'
  <2>1. thread'.floppy = f /\ thread'.lost = thread.lost /\ thread'.phase = "finalizing"
    BY <1>t, <1>2 DEF Types, Threads
  <2>2. Waiting'
    BY <1>t, <1>0, <2>1, WaitingSame
  <2>3. Numbered' /\ Drive' /\ Lost' /\ Carry'
    BY <1>t, <1>0, <1>2, <2>1, SMT DEF WriteInv, Numbered, Drive, Lost, Carry
  <2>4. ASSUME NEW s \in Sources, NEW w \in written[s]
        PROVE  w \in file[s] \/ w \in Reported' \/ w \in gui.carried
    <3>1. InDrive(s, w) => w \in file[s] \/ w \in gui.carried
      BY <1>t DEF InDrive, WriteInv, Carry
    <3> QED
      BY <1>t, <1>0, <2>1, <3>1 DEF WriteInv, Safe, Reported
  <2>5. Safe'
    BY <1>0, <1>2, <2>4 DEF Safe
  <2> QED
    BY <2>2, <2>3, <2>5 DEF WriteBody
<1> QED
  BY <1>1, <1>2 DEF Initialize

\* The guest writes to the image in the drive.
LEMMA GuestWritesWrites == ASSUME Counting, WriteInv, GuestWrites PROVE WriteBody'
<1> DEFINE f == thread.floppy
           all == UNION {written[t] : t \in Sources}
           w == Cardinality(all) + 1
<1>t. Types /\ Handshake /\ Waiting /\ thread.phase = "running" /\ f # None /\ f \in Floppies
  BY DEF WriteInv, GuestWrites, Types, Threads, Media
<1>0. UNCHANGED <<gui, pending_failures, told, dropped, commands, file, startup>>
  BY DEF GuestWrites, workerUnchanged, guiVars
<1>1. /\ thread' = [thread EXCEPT !.floppy.image = @ \cup {w}, !.floppy.unsaved = TRUE]
      /\ written' = [written EXCEPT ![f.source] = @ \cup {w}]
  BY DEF GuestWrites
<1>2. \E n \in Nat : all = 1 .. n /\ w = n + 1
  <2>1. PICK n \in Nat : all = 1 .. n
    BY DEF WriteInv, Numbered
  <2>2. Cardinality(all) = n
    BY <1>t, <2>1, FreshWrite
  <2> QED
    BY <2>1, <2>2
<1>3. \A t \in Sources : w \notin written[t]
  BY <1>2, SMT
<1> HIDE DEF w
<1>4. /\ f.source \in Sources /\ written'[f.source] = written[f.source] \cup {w}
      /\ \A t \in Sources : t # f.source => written'[t] = written[t]
  BY <1>t, <1>1 DEF Types, Floppies
<1>5. /\ thread'.phase = "running" /\ thread'.lost = thread.lost
      /\ thread'.floppy = [source |-> f.source, image |-> f.image \cup {w}, unsaved |-> TRUE]
  BY <1>t, <1>1 DEF Types, Threads, Floppies
<1>6. thread'.floppy # None /\ thread'.floppy.source = f.source /\ thread'.floppy.unsaved
      /\ thread'.floppy.image = f.image \cup {w}
  <2>1. Types'
    BY <1>t, WorkerBase
  <2>2. thread'.floppy \in Media
    BY <2>1 DEF Types, Threads
  <2>3. w \in Writes
    <3>1. w \in Nat \ {0}
      BY <1>2, SMT
    <3>2. w <= MaxWrites
      BY DEF GuestWrites, w
    <3> QED
      BY <3>1, <3>2, GuiAssumption, SMT DEF Writes
  <2>4. thread'.floppy \in Floppies
    BY <1>t, <1>5, <2>3, SMT DEF Floppies
  <2>5. thread'.floppy # None
    BY <2>4, GuiAssumption
  <2>6. thread'.floppy.source = f.source /\ thread'.floppy.image = f.image \cup {w}
    BY <1>5, SMT
  <2>7. thread'.floppy.unsaved = TRUE
    <3>1. PICK g : g = thread'.floppy
      OBVIOUS
    <3>2. g = [source |-> f.source, image |-> f.image \cup {w}, unsaved |-> TRUE]
      BY <1>5, <3>1
    <3>3. g.unsaved = TRUE
      BY ONLY <3>2, SMT
    <3> QED
      BY <3>1, <3>3
  <2> QED
    BY <2>5, <2>6, <2>7
<1>7. UNION {written'[t] : t \in Sources} = all \cup {w}
  BY <1>4, SMT
<1> HIDE DEF all
<1>8. \E n \in Nat : UNION {written'[t] : t \in Sources} = 1 .. n
  <2>1. PICK n \in Nat : all = 1 .. n /\ w = n + 1
    BY <1>2
  <2>2. all \cup {w} = 1 .. (n + 1)
    BY <2>1, SMT
  <2> QED
    BY <1>7, <2>2, SMT
<1>9. Numbered'
  <2>1. \A s, t \in Sources : s # t => written'[s] \cap written'[t] = {}
    BY <1>3, <1>4, SMT DEF WriteInv, Numbered
  <2>2. \A s \in Sources : file'[s] \subseteq written'[s]
    BY <1>0, <1>4 DEF WriteInv, Numbered
  <2> QED
    BY <1>8, <2>1, <2>2 DEF Numbered
<1>10. Drive'
  BY <1>t, <1>0, <1>4, <1>6 DEF WriteInv, Drive
<1>11. Waiting'
  BY <1>t, <1>0, <1>6, WaitingSame
<1>12. Lost'
  BY <1>t, <1>5 DEF WriteInv, Lost
<1>13. Carry'
  <2>1. gui.at = "starting" => startup = "ok"
    BY <1>t DEF Handshake, Types
  <2> QED
    BY <1>0, <2>1 DEF Carry
<1>14. Safe'
  <2>1. ASSUME NEW s \in Sources, NEW x \in written'[s]
        PROVE  x \in file[s] \/ InDrive(s, x)' \/ x \in Reported' \/ (startup = "err" /\ x \in gui.carried)
    <3>1. CASE x = w
      <4>1. s = f.source
        BY <1>3, <1>4, <3>1
      <4> QED
        BY <1>6, <3>1, <4>1 DEF InDrive
    <3>2. CASE x \in written[s]
      <4>1. InDrive(s, x) => InDrive(s, x)'
        BY <1>6 DEF InDrive
      <4> QED
        BY <1>0, <1>5, <3>2, <4>1 DEF WriteInv, Safe, Reported
    <3> QED
      BY <1>4, <3>1, <3>2
  <2> QED
    BY <1>0, <2>1 DEF Safe
<1> QED
  BY <1>9, <1>10, <1>11, <1>12, <1>13, <1>14 DEF WriteBody

\* What the files may become when the thread writes its image back, or not.
LEMMA FilesWrites ==
  ASSUME WriteInv, UNCHANGED written, file' \in {file, Saved(thread.floppy)}
  PROVE  /\ Numbered'
         /\ \A s \in Sources : file[s] \subseteq file'[s]
         /\ thread.floppy # None => file'[thread.floppy.source] \subseteq thread.floppy.image
         /\ \A i \in 1 .. Len(commands) : commands[i].floppy # None =>
               file'[commands[i].floppy.source] = file[commands[i].floppy.source]
<1>1. CASE file' = file
  BY <1>1, SMT DEF WriteInv, Numbered, Drive
<1>2. CASE file' = Saved(thread.floppy) /\ thread.floppy # None
  <2>1. \A s \in Sources : file[s] \subseteq file'[s] /\ file'[s] \subseteq written'[s]
    BY <1>2, SavedWrites
  <2> QED
    BY <1>2, <2>1, SavedWrites, SMT DEF WriteInv, Numbered
<1>3. CASE file' = Saved(thread.floppy) /\ thread.floppy = None
  BY <1>1, <1>3 DEF Saved
<1> QED
  BY <1>1, <1>2, <1>3

\* The image leaves the drive: written back, or rejected and kept.
LEMMA ApplyWrites ==
  ASSUME WriteInv, thread.phase = "running", commands # <<>>, commands' = Tail(commands),
         Apply(commands[1]), UNCHANGED <<gui, pending_failures, told, dropped, startup, written>>
  PROVE  WriteBody'
<1> DEFINE r == commands[1]
           f == thread.floppy
<1>t. Types /\ Handshake /\ Waiting /\ Len(commands) \in Nat /\ 1 \in 1 .. Len(commands)
  BY SMT DEF WriteInv, Types
<1>0. gui.at = "starting" => startup = "ok"
  BY <1>t DEF Handshake, Types
<1>1. CASE thread' = [thread EXCEPT !.phase = "answering", !.answer = r.id, !.floppy = f] /\ file' = file
  <2>1. thread'.floppy = f /\ thread'.lost = thread.lost /\ thread'.phase = "answering"
    BY <1>t, <1>1 DEF Types, Threads
  <2>2. Numbered' /\ Drive' /\ Lost' /\ Carry' /\ Safe'
    BY <1>0, <1>1, <2>1, FrameWrites
  <2> QED
    BY <1>t, <1>1, <2>1, <2>2, WaitingTail DEF WriteBody
<1>2. CASE /\ thread' = [thread EXCEPT !.phase = "answering", !.answer = r.id, !.floppy = r.floppy]
           /\ file' = Saved(f)
  <2>1. thread'.floppy = r.floppy /\ thread'.lost = {} /\ thread'.phase = "answering"
    BY <1>t, <1>2 DEF Types, Threads, WriteInv, Lost
  <2>2. /\ Numbered' /\ \A s \in Sources : file[s] \subseteq file'[s]
        /\ \A i \in 1 .. Len(commands) : commands[i].floppy # None =>
               file'[commands[i].floppy.source] = file[commands[i].floppy.source]
    BY <1>2, FilesWrites
  <2>3. Waiting'
    BY <1>t, <2>1, <2>2, WaitingTail
  <2>4. Lost' /\ Carry'
    BY <1>0, <2>1 DEF Lost, Carry
  <2>5. Drive'
    <3> SUFFICES ASSUME r.floppy # None PROVE Drive'
      BY <2>1 DEF Drive
    <3>1. r.floppy \in Floppies
      <4>1. r \in Commands
        BY <1>t, SMT DEF Types
      <4> QED
        BY <4>1 DEF Commands, Media
    <3>2. r.floppy.source \in Sources /\ r.floppy.image = file'[r.floppy.source]
      BY <1>t, <2>2, <3>1 DEF Waiting, Floppies
    <3>3. file'[r.floppy.source] \subseteq written'[r.floppy.source]
      BY <2>2, <3>2 DEF Numbered
    <3> QED
      BY <2>1, <3>2, <3>3 DEF Drive
  <2>6. ASSUME NEW s \in Sources, NEW w \in written[s]
        PROVE  w \in file'[s] \/ w \in Reported' \/ (startup = "err" /\ w \in gui.carried)
    <3>1. InDrive(s, w) => w \in file'[s]
      BY <1>2, SavedWrites, SMT DEF InDrive
    <3>2. thread.lost = {}
      BY DEF WriteInv, Lost
    <3> QED
      BY <2>2, <3>1, <3>2 DEF WriteInv, Safe, Reported
  <2>7. Safe'
    BY <2>6 DEF Safe
  <2> QED
    BY <2>2, <2>3, <2>4, <2>5, <2>7 DEF WriteBody
<1>3. CASE /\ thread' = [thread EXCEPT !.phase = "answering", !.answer = r.id,
                             !.floppy = IF r.kind \in {"mount", "eject"} THEN r.floppy ELSE @]
           /\ file' = IF r.kind \in {"mount", "eject"} THEN Saved(f) ELSE file
  <2>1. CASE r.kind \in {"mount", "eject"}
    BY <1>2, <1>3, <2>1
  <2>2. CASE r.kind \notin {"mount", "eject"}
    BY <1>1, <1>3, <2>2
  <2> QED
    BY <2>1, <2>2
<1> QED
  BY <1>1, <1>3 DEF Apply, Restored

\* Steps of the running thread that leave the floppy alone, and commands.
LEMMA LoopWrites == ASSUME WriteInv, Receive \/ Publish \/ Panic \/ Exit PROVE WriteBody'
<1>t. Types /\ Handshake /\ Waiting
  BY DEF WriteInv
<1>0. UNCHANGED <<gui, pending_failures, told, dropped, startup, written>>
  BY DEF Receive, Publish, Panic, Exit, workerUnchanged, guiVars
<1>1. CASE Publish \/ Panic \/ Exit
  <2>1. /\ thread'.floppy = thread.floppy /\ thread'.lost = thread.lost
        /\ thread'.phase \in {"returned", "finished"} <=> thread.phase \in {"returned", "finished"}
        /\ UNCHANGED <<commands, file>>
    <3>1. CASE Publish
      BY <1>t, <3>1 DEF Publish, Types, Threads
    <3>2. CASE Panic
      BY <1>t, <3>2 DEF Panic, Types, Threads
    <3>3. CASE Exit
      BY <1>t, <3>3 DEF Exit, Types, Threads
    <3> QED
      BY <1>1, <3>1, <3>2, <3>3
  <2>2. Numbered' /\ Drive' /\ Lost' /\ Carry' /\ Safe'
    BY <1>0, <2>1, FrameWrites
  <2> QED
    BY <1>t, <2>1, <2>2, WaitingSame DEF WriteBody
<1>2. CASE Receive
  <2>1. thread.phase = "running" /\ commands # <<>> /\ commands' = Tail(commands)
        /\ Head(commands) = commands[1]
    BY <1>t, <1>2, SMT DEF Receive, Types
  <2>2. CASE thread' = [thread EXCEPT !.phase = "finalizing"] /\ UNCHANGED file
    <3>1. thread'.floppy = thread.floppy /\ thread'.lost = thread.lost /\ thread'.phase = "finalizing"
      BY <1>t, <2>2 DEF Types, Threads
    <3>2. Numbered' /\ Drive' /\ Lost' /\ Carry' /\ Safe'
      BY <1>0, <2>1, <2>2, <3>1, FrameWrites
    <3> QED
      BY <1>t, <2>1, <2>2, <3>1, <3>2, WaitingTail DEF WriteBody
  <2>3. CASE Apply(commands[1])
    BY <1>0, <2>1, <2>3, ApplyWrites
  <2> QED
    BY <1>2, <2>1, <2>2, <2>3 DEF Receive
<1> QED
  BY <1>1, <1>2

\* The image is written back as the thread ends; it is kept if that fails,
\* and given up if the end itself panics.
LEMMA FinalizeWrites == ASSUME WriteInv, Finalize PROVE WriteBody'
<1> DEFINE f == thread.floppy
           unsaved == f # None /\ f.unsaved
           Kept == /\ file' = Saved(f)
                   /\ thread' = [thread EXCEPT !.phase = "returned",
                                    !.floppy = IF unsaved THEN [f EXCEPT !.unsaved = FALSE] ELSE f]
           Failed == /\ unsaved /\ file' = file
                     /\ thread' = [thread EXCEPT !.phase = "returned",
                                      !.lost = f.image \ file[f.source]]
           Dropped == /\ file' \in {file, Saved(f)}
                      /\ thread' = [thread EXCEPT !.phase = "finished", !.floppy = None,
                                       !.lost = IF f = None THEN {} ELSE f.image \ file'[f.source]]
<1>c. Kept \/ Failed \/ Dropped
  BY DEF Finalize
<1>t. Types /\ Waiting /\ thread.phase = "finalizing" /\ thread.lost = {} /\ f \in Media
  BY DEF WriteInv, Finalize, Lost, Types, Threads
<1>0. UNCHANGED <<gui, pending_failures, told, dropped, startup, written, commands>>
  BY DEF Finalize, workerUnchanged, guiVars
<1>1. f # None => /\ f \in Floppies /\ file[f.source] \subseteq f.image /\ f.source \in Sources
                  /\ ~f.unsaved => f.image = file[f.source]
  BY <1>t DEF WriteInv, Drive, Media, Floppies
<1>2. /\ file' \in {file, Saved(f)}
      /\ thread'.floppy # None =>
            f # None /\ thread'.floppy.source = f.source /\ thread'.floppy.image = f.image
      /\ thread'.phase \in {"returned", "finished"}
  <2>1. CASE Kept
    <3>1. CASE unsaved
      BY <1>t, <1>1, <2>1, <3>1 DEF Types, Threads, Floppies
    <3>2. CASE ~unsaved
      BY <1>t, <2>1, <3>2 DEF Types, Threads
    <3> QED
      BY <3>1, <3>2
  <2>2. CASE Failed
    BY <1>t, <2>2 DEF Types, Threads
  <2>3. CASE Dropped
    BY <1>t, <2>3 DEF Types, Threads
  <2> QED
    BY <1>c, <2>1, <2>2, <2>3
<1>3. /\ Numbered' /\ \A s \in Sources : file[s] \subseteq file'[s]
      /\ f # None => file'[f.source] \subseteq f.image
      /\ \A i \in 1 .. Len(commands) : commands[i].floppy # None =>
               file'[commands[i].floppy.source] = file[commands[i].floppy.source]
  BY <1>0, <1>2, FilesWrites
<1>4. Waiting'
  <2>1. ASSUME NEW i \in 1 .. Len(commands), commands[i].floppy # None
        PROVE  LET q == commands[i].floppy
               IN  /\ ~q.unsaved /\ q.image = file'[q.source]
                   /\ thread'.floppy # None => thread'.floppy.source # q.source
                   /\ \A j \in 1 .. Len(commands) :
                          j # i /\ commands[j].floppy # None => commands[j].floppy.source # q.source
    BY <1>t, <1>2, <1>3, <2>1 DEF Waiting
  <2>2. commands' = commands
    BY <1>0
  <2> QED
    BY <2>1, <2>2 DEF Waiting
\* What is lost is what neither the file nor a kept image has.
<1>5. /\ thread'.floppy # None /\ ~thread'.floppy.unsaved => f.image = file'[f.source]
      /\ thread'.floppy # None =>
            thread'.lost = IF thread'.floppy.unsaved THEN f.image \ file'[f.source] ELSE {}
      /\ thread'.floppy = None =>
            thread'.lost = IF f = None THEN {} ELSE f.image \ file'[f.source]
  <2>1. CASE Kept
    <3>0. f # None => file'[f.source] = f.image
      BY <2>1, SavedWrites
    <3>1. thread'.lost = {}
      BY <1>t, <2>1 DEF Types, Threads
    <3> QED
      BY <3>0, <3>1, <1>2
  <2>2. CASE Failed
    <3>1. thread'.floppy = f /\ thread'.lost = f.image \ file[f.source]
      BY <1>t, <2>2 DEF Types, Threads
    <3> QED
      BY <2>2, <3>1
  <2>3. CASE Dropped
    BY <1>t, <2>3 DEF Types, Threads
  <2> QED
    BY <1>c, <2>1, <2>2, <2>3
<1>6. Drive' /\ Lost'
  <2>1. thread'.floppy # None => f.image \subseteq written'[f.source]
    BY <1>0, <1>2 DEF WriteInv, Drive
  <2>2. thread'.floppy # None =>
            LET g == thread'.floppy
            IN  /\ g.source = f.source /\ g.image = f.image
                /\ file'[f.source] \subseteq f.image
    BY <1>2, <1>3
  <2> HIDE DEF f
  <2>3. Drive'
    BY <1>5, <2>1, <2>2 DEF Drive
  <2>4. Lost'
    BY <1>2, <1>5, <2>2 DEF Lost
  <2> QED
    BY <2>3, <2>4
<1>7. Carry'
  <2>1. f # None => f.image \ file'[f.source] \subseteq f.image \ file[f.source]
    BY <1>1, <1>3
  <2>2. thread'.lost \subseteq IF f = None THEN {} ELSE f.image \ file'[f.source]
    BY <1>2, <1>5
  <2> QED
    BY <1>0, <1>2, <2>1, <2>2 DEF WriteInv, Carry
<1>8. ASSUME NEW s \in Sources, NEW w \in written[s]
      PROVE  w \in file'[s] \/ InDrive(s, w)' \/ w \in Reported' \/ (startup = "err" /\ w \in gui.carried)
  <2>1. CASE InDrive(s, w)
    <3>1. f # None /\ f.source = s /\ w \in f.image
      BY <2>1 DEF InDrive
    <3>2. CASE thread'.floppy = None
      BY <1>5, <3>1, <3>2 DEF Reported
    <3>3. CASE thread'.floppy # None /\ thread'.floppy.unsaved
      BY <1>2, <3>1, <3>3 DEF InDrive
    <3>4. CASE thread'.floppy # None /\ ~thread'.floppy.unsaved
      BY <1>5, <3>1, <3>4
    <3> QED
      BY <3>2, <3>3, <3>4
  <2> QED
    BY <1>t, <1>0, <1>3, <2>1 DEF WriteInv, Safe, Reported
<1>9. Safe'
  BY <1>0, <1>8 DEF Safe
<1> QED
  BY <1>3, <1>4, <1>6, <1>7, <1>9 DEF WriteBody

\* Every step accounts for every guest write.
LEMMA NextWrite == ASSUME Counting, ~Reloads PROVE WriteInv /\ [Next]_vars => WriteInv'
<1> SUFFICES ASSUME WriteInv, [Next]_vars PROVE WriteInv'
  OBVIOUS
<1>1. Types' /\ Handshake'
  BY BaseStep DEF WriteInv
<1>2. WriteBody'
  <2>1. CASE UNCHANGED vars
    <3>1. UNCHANGED <<gui, pending_failures, told, dropped, startup, written, commands, thread, file>>
      BY <2>1 DEF vars, guiVars, history
    <3>2. Numbered' /\ Drive' /\ Lost' /\ Carry' /\ Safe'
      BY <3>1, FrameWrites
    <3> QED
      BY <3>1, <3>2, WaitingSame DEF WriteBody, WriteInv
  <2> QED
    BY <2>1, UserWrites, JoinedWrites, StartedWrites, InitializeWrites, GuestWritesWrites,
       LoopWrites, FinalizeWrites DEF Next, Worker
<1> QED
  BY <1>1, <1>2 DEF WriteInv, WriteBody

-----------------------------------------------------------------------------
(* Silence takes two failures.                                             *)

\* Steps of the GUI thread that start nothing and cost nothing.
LEMMA GuiCosts ==
  ASSUME Costs, UNCHANGED <<faults, dropped>>,
         thread'.lost = thread.lost \/ thread'.lost = {},
         \/ gui'.lost = {} /\ gui'.carried = {}
         \/ gui'.lost = gui.lost /\ gui'.carried = gui.carried /\ startup' = startup
  PROVE  Costs'
  BY DEF Costs

\* Steps of the emulation thread: a loss, and a failed start, is a fault.
LEMMA ThreadCosts ==
  ASSUME Costs, UNCHANGED <<gui, dropped>>,
         \/ faults' = faults /\ thread'.lost = thread.lost /\ startup' \in {startup, "ok"}
         \/ faults' = faults + 1
  PROVE  Costs'
<1>1. "ok" # "err" /\ faults \in Nat
  BY SMT DEF Costs
<1>2. CASE faults' = faults + 1
  <2>1. faults' \in Nat /\ faults' >= 1 /\ (faults >= 1 => faults' >= 2) /\ (faults >= 2 => faults' >= 2)
    BY <1>1, <1>2, SMT
  <2>2. faults >= 2 => faults >= 1
    BY <1>1, SMT
  <2> QED
    BY <2>1, <2>2 DEF Costs
<1>3. CASE faults' = faults /\ thread'.lost = thread.lost /\ startup' \in {startup, "ok"}
  BY <1>1, <1>3 DEF Costs
<1> QED
  BY <1>2, <1>3

\* Reset passes on what the thread has lost, and nothing else.
LEMMA JoinedCosts == ASSUME WriteInv, Costs, Joined PROVE Costs'
<1>0. /\ thread.phase = "finished" /\ startup = None /\ None # "err"
      /\ UNCHANGED <<startup, faults, dropped>>
  BY GuiAssumption DEF WriteInv, Joined, Handshake
<1>1. CASE gui.why # "reset"
  <2>1. thread' = NoThread /\ gui' = Free
    BY <1>1 DEF Joined
  <2>2. thread'.lost = {} /\ gui'.lost = {} /\ gui'.carried = {}
    BY <2>1, SMT DEF NoThread, Free
  <2> QED
    BY <1>0, <2>2, GuiCosts
<1>2. CASE gui.why = "reset"
  <2>1. PICK media \in Carried(thread.floppy) :
            Start(media, thread.lost \ (IF media = None THEN {} ELSE media.image))
    BY <1>2 DEF Joined
  <2>2. thread'.lost = {} /\ gui'.lost \subseteq thread.lost
        /\ gui'.carried = IF media = None THEN {} ELSE media.image \ file[media.source]
    BY <2>1, SMT DEF Start, NoThread
  <2>3. gui'.carried \subseteq thread.lost
    <3>1. CASE media = None
      BY <2>2, <3>1
    <3>2. CASE media # None
      <4> DEFINE f == thread.floppy
      <4>1. /\ f # None /\ f \in Floppies
            /\ media = IF f.unsaved THEN f ELSE [f EXCEPT !.image = file[f.source]]
        BY <2>1, <3>2 DEF Carried, WriteInv, Types, Threads, Media
      <4>2. CASE f.unsaved
        <5>1. thread.lost = f.image \ file[f.source]
          BY <1>0, <4>1, <4>2 DEF WriteInv, Lost
        <5> QED
          BY <2>2, <3>2, <4>1, <4>2, <5>1
      <4>3. CASE ~f.unsaved
        <5>1. media.image = file[f.source] /\ media.source = f.source
          BY <4>1, <4>3, SMT DEF Floppies
        <5> QED
          BY <2>2, <3>2, <5>1
      <4> QED
        BY <4>2, <4>3
    <3> QED
      BY <3>1, <3>2
  <2> QED
    BY <1>0, <2>2, <2>3 DEF Costs
<1> QED
  BY <1>1, <1>2

\* A failed start drops what was lost before it.
LEMMA StartedCosts == ASSUME WriteInv, Costs, Started PROVE Costs'
<1>1. gui' = Free /\ UNCHANGED faults
  BY DEF Started
<1>2. gui'.lost = {} /\ gui'.carried = {}
  BY <1>1, SMT DEF Free
<1>3. CASE UNCHANGED <<thread, dropped>>
  BY <1>1, <1>2, <1>3, GuiCosts
<1>4. CASE /\ startup = "err" /\ thread' = NoThread
           /\ dropped' = dropped \cup
                ((gui.lost \cup gui.carried) \ UNION {file[s] : s \in Sources})
  <2>1. thread'.lost = {}
    BY <1>4, SMT DEF NoThread
  <2>2. dropped' # {} => dropped # {} \/ gui.lost # {} \/ gui.carried # {}
    BY <1>4
  <2> QED
    BY <1>1, <1>2, <1>4, <2>1, <2>2 DEF Costs
<1> QED
  BY <1>3, <1>4 DEF Started

\* Every step.
LEMMA NextCosts == ASSUME WriteInv, Costs, [Next]_vars PROVE Costs'
<1>0. NoThread.lost = {} /\ Types /\ thread \in Threads
  BY SMT DEF NoThread, WriteInv, Types
<1>1. CASE MakeRequest
  <2>1. PICK r \in UserRequests : Request(r)
    BY <1>1 DEF MakeRequest
  <2>2. /\ UNCHANGED <<gui, startup, faults, dropped>>
        /\ thread' = thread \/ thread' = NoThread
    BY <2>1 DEF Request, Send, Collect, history
  <2> QED
    BY <1>0, <2>2, GuiCosts
<1>2. CASE PowerOn
  <2>1. /\ UNCHANGED <<faults, dropped>> /\ thread'.lost = {}
        /\ gui'.lost = {} /\ gui'.carried = {}
    BY <1>2, SMT DEF PowerOn, Start, NoThread, history
  <2> QED
    BY <2>1, GuiCosts
<1>3. ASSUME NEW why \in {"reset", "power_off", "shutdown"}, Stop(why) PROVE Costs'
  <2>1. /\ UNCHANGED <<faults, dropped, thread, startup>>
        /\ gui'.lost = gui.lost /\ gui'.carried = gui.carried
    BY <1>0, <1>3, SMT DEF Stop, history, Types
  <2> QED
    BY <2>1, GuiCosts
<1>4. CASE Poll
  <2>1. /\ UNCHANGED <<gui, startup, faults, dropped>>
        /\ thread' = thread \/ thread' = NoThread
    BY <1>4 DEF Poll, Deliver, Collect
  <2> QED
    BY <1>0, <2>1, GuiCosts
<1>5. CASE Initialize \/ GuestWrites \/ Receive \/ Publish \/ Panic \/ Finalize \/ Exit
  <2>1. UNCHANGED <<gui, dropped>>
    BY <1>5 DEF Initialize, GuestWrites, Receive, Publish, Panic, Finalize, Exit,
                workerUnchanged, guiVars
  <2>2. CASE Initialize
    <3>1. \/ faults' = faults /\ thread'.lost = thread.lost /\ startup' = "ok"
          \/ faults' = faults + 1
      BY <1>0, <2>2, SMT DEF Initialize, Fault, Threads
    <3> QED
      BY <2>1, <3>1, ThreadCosts
  <2>3. CASE GuestWrites
    <3>1. faults' = faults /\ thread'.lost = thread.lost /\ startup' = startup
      BY <1>0, <2>3, SMT DEF GuestWrites, Threads
    <3> QED
      BY <2>1, <3>1, ThreadCosts
  <2>4. CASE Receive
    <3>1. \/ faults' = faults /\ thread'.lost = thread.lost /\ startup' = startup
          \/ faults' = faults + 1
      <4>1. startup' = startup
        BY <2>4 DEF Receive
      <4>2. CASE /\ thread' = [thread EXCEPT !.phase = "finalizing"]
                 /\ UNCHANGED <<file, faults>>
        BY <1>0, <4>1, <4>2, SMT DEF Threads
      <4>3. CASE Apply(Head(commands))
        <5>1. \/ thread' = [thread EXCEPT !.phase = "answering", !.answer = Head(commands).id,
                            !.floppy = IF Head(commands).kind \in {"mount", "eject"}
                                       THEN Head(commands).floppy ELSE @]
                 /\ faults' = faults
              \/ faults' = faults + 1
          BY <4>3 DEF Apply, Fault
        <5>2. thread'.lost = thread.lost \/ faults' = faults + 1
          BY <1>0, <5>1 DEF Threads
        <5> QED
          BY <4>1, <5>1, <5>2
      <4> QED
        BY <2>4, <4>2, <4>3 DEF Receive
    <3> QED
      BY <2>1, <3>1, ThreadCosts
  <2>5. CASE Publish \/ Exit
    <3>1. faults' = faults /\ thread'.lost = thread.lost /\ startup' = startup
      <4>1. CASE Publish
        BY <1>0, <4>1 DEF Publish, Threads
      <4>2. CASE Exit
        BY <1>0, <4>2 DEF Exit, Threads
      <4> QED
        BY <2>5, <4>1, <4>2
    <3> QED
      BY <2>1, <3>1, ThreadCosts
  <2>6. CASE Panic
    <3>1. faults' = faults + 1
      BY <2>6 DEF Panic, Fault
    <3> QED
      BY <2>1, <3>1, ThreadCosts
  <2>7. CASE Finalize
    <3>1. \/ faults' = faults /\ thread'.lost = thread.lost /\ startup' = startup
          \/ faults' = faults + 1
      <4> DEFINE f == thread.floppy
                 unsaved == f # None /\ f.unsaved
      <4>1. startup' = startup
        BY <2>7 DEF Finalize
      <4>2. \/ /\ thread' = [thread EXCEPT !.phase = "returned",
                                 !.floppy = IF unsaved THEN [f EXCEPT !.unsaved = FALSE] ELSE f]
               /\ faults' = faults
            \/ faults' = faults + 1
        BY <2>7 DEF Finalize, Fault
      <4>3. thread'.lost = thread.lost \/ faults' = faults + 1
        <5> HIDE DEF unsaved, f
        <5> QED
          BY <1>0, <4>2 DEF Threads
      <4> QED
        BY <4>1, <4>2, <4>3
    <3> QED
      BY <2>1, <3>1, ThreadCosts
  <2> QED
    BY <1>5, <2>2, <2>3, <2>4, <2>5, <2>6, <2>7
<1>6. CASE UNCHANGED vars
  BY <1>6, GuiCosts DEF vars, guiVars, history
<1> QED
  BY <1>1, <1>2, <1>3, <1>4, <1>5, <1>6, JoinedCosts, StartedCosts DEF Next, User, Worker

-----------------------------------------------------------------------------
(* The premise, from the library.                                          *)

INSTANCE FiniteSetTheorems

\* What the library says of intervals and of finite sets is what the lemmas use.
LEMMA CountingHolds == Counting
<1>1. \A a, b \in Int : Cardinality(a .. b) = IF a > b THEN 0 ELSE b - a + 1
  BY FS_Interval
<1>2. IsFiniteSet(Writes)
  BY FS_Interval, GuiAssumption, SMT DEF Writes
<1>3. \A S : S \subseteq Writes => Cardinality(S) \in Nat
  BY <1>2, FS_Subset, FS_CardinalityType
<1> QED
  BY <1>1, <1>3 DEF Counting

-----------------------------------------------------------------------------
(* The theorems.                                                           *)

\* AnswerInv holds throughout.
THEOREM AnswerInvHolds == Spec => []AnswerInv
<1>1. AnswerInv /\ [Next]_vars => AnswerInv'
  BY CountingHolds, NextAnswer
<1> QED
  BY <1>1, InitAnswer, PTL DEF Spec

\* Every request the session accepted is answered once and in order, however
\* resets, power cycles, panics and failures fall.
THEOREM OneAnswerTheorem == Spec => []OneAnswer
<1>1. AnswerInv => OneAnswer
  <2> SUFFICES ASSUME AnswerInv PROVE OneAnswer
    OBVIOUS
  <2> DEFINE known == answers \o pending_events
             seen == known \o published
  <2>1. /\ answers \in Seq(Nat) /\ pending_events \in Seq(Nat) /\ published \in Seq(Nat)
        /\ \A i \in 1 .. Len(answers) : answers[i] = i
        /\ \A i \in 1 .. Len(pending_events) : pending_events[i] = Len(answers) + i
    BY DEF AnswerInv, InOrder
  <2>2. /\ known \in Seq(Nat) /\ Len(known) = Done
        /\ \A i \in 1 .. Len(known) : known[i] = i
    BY <2>1, FirstRunLemma DEF Done
  <2>3. \A i \in 1 .. Len(published) : published[i] = Len(known) + i
    BY <2>2 DEF AnswerInv, InOrder
  <2> HIDE DEF known
  <2>4. seen \in Seq(Nat) /\ \A i \in 1 .. Len(seen) : seen[i] = i
    BY <2>1, <2>2, <2>3, FirstRunLemma
  <2> HIDE DEF seen
  <2>5. \A i \in DOMAIN seen : seen[i] = i
    BY <2>4, SMT
  <2>6. outstanding = (Len(answers) + Len(pending_events) + 1) .. (next_request_id - 1)
    BY DEF AnswerInv, InOrder, Done
  <2> QED
    BY <2>5, <2>6 DEF OneAnswer, seen, known
<1> QED
  BY <1>1, AnswerInvHolds, PTL

\* WriteInv holds throughout, as long as no image is loaded a second time
\* while the first copy is still in memory.
THEOREM WriteInvHolds == ~Reloads => (Spec => []WriteInv)
<1> SUFFICES ASSUME ~Reloads PROVE Spec => []WriteInv
  OBVIOUS
<1>1. WriteInv /\ [Next]_vars => WriteInv'
  BY CountingHolds, NextWrite
<1> QED
  BY <1>1, InitWrite, PTL DEF Spec

\* As long as no image is loaded while it is still mounted, a guest write is
\* saved, held or reported, whatever fails, panics, is reset or powered off;
\* only two failures, of a write-back and of the next start, lose it in
\* silence.
THEOREM WritesTheorem == ~Reloads => (Spec => []WritesSafe)
<1> SUFFICES ASSUME ~Reloads PROVE Spec => []WritesSafe
  OBVIOUS
<1>1. WriteInv /\ Costs => WritesSafe
  <2> SUFFICES ASSUME WriteInv, NEW s \in Sources, NEW w \in written[s]
               PROVE  \/ w \in file[s]
                      \/ \E f \in Held : f.source = s /\ w \in f.image /\ f.unsaved
                      \/ w \in told \cup pending_failures \cup thread.lost \cup gui.lost \cup gui.carried
                      \/ w \in dropped
    BY DEF WritesSafe, Costs
  <2>1. CASE InDrive(s, w)
    <3>1. thread.floppy \in Held
      BY <2>1 DEF InDrive, Held
    <3> QED
      BY <2>1, <3>1 DEF InDrive
  <2> QED
    BY <2>1 DEF WriteInv, Safe, Reported
<1>2. Spec => []WriteInv
  BY WriteInvHolds
<1>3. Init => Costs
  BY SMT DEF Init, Costs, NoThread, Free
<1>4. Spec => []Costs
  BY <1>2, <1>3, NextCosts, PTL DEF Spec
<1> QED
  BY <1>1, <1>2, <1>4, PTL
=============================================================================
