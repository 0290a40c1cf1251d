---------------------------- MODULE GuiSession -----------------------------
(***************************************************************************)
(* The GUI thread, the emulation thread it starts for each generation of   *)
(* the machine, and the floppy image that travels between them             *)
(* (crates/izarravm/src/gui_session.rs).                                   *)
(*                                                                         *)
(* The GUI sends requests over a channel and polls a publication for the   *)
(* answers.  Reset, power-off and shutdown send Shutdown and join the      *)
(* thread; start waits for its startup message.  The emulation thread may  *)
(* panic anywhere: a guard catches it and finalizes the generation.        *)
(*                                                                         *)
(* The contents of an image are the set of guest writes in it.  The CD and *)
(* MIDI requests are "other" and "midi", without their data.  Events are   *)
(* split into answers, in their order, and failures, by what they report   *)
(* as lost.  Frames, the machine itself and the snapshot are left out.     *)
(***************************************************************************)
EXTENDS Integers, Sequences, FiniteSets

CONSTANTS
    Sources,        \* floppy image files
    None,
    Kinds,          \* kinds of request the user makes
    Reloads,        \* TRUE: the user may load an image that is still mounted
    MaxRequests, MaxGenerations, MaxWrites, MaxFaults   \* bounds

Writes == 1 .. MaxWrites
Floppies == [source : Sources, image : SUBSET Writes, unsaved : BOOLEAN]

ASSUME GuiAssumption ==
    /\ None \notin Floppies \cup {"ok", "err"}
    /\ "shutdown" \notin Kinds
    /\ MaxWrites \in Nat

VARIABLES
    gui,        \* [at, why, carried, lost]: what the GUI thread waits for, and
                \* the guest writes a reset took along or has to report
    running,    \* GuiSession::worker is Some
    closed,
    next_request_id, next_generation,
    outstanding,        \* ids of the requests without an answer
    pending_events,     \* ids of the answers the user has not polled yet
    pending_failures,   \* guest writes that failures not polled yet report as lost
    commands,           \* the channel
    published,          \* answers in the publication
    startup,            \* the startup channel: None, "ok" or "err"
    thread,     \* [phase, floppy, answer, lost]: the emulation thread, the guest
                \* writes its exit reports as lost
    file,       \* the images on the host
    faults,     \* host errors and panics so far
    written,    \* history: what the guest wrote to each image
    answers,    \* history: the ids in the order the user saw their answers
    told,       \* history: guest writes whose loss the user was told of
    dropped     \* history: guest writes given up without a word
guiVars == <<gui, running, closed, next_request_id, next_generation, outstanding,
             pending_events, pending_failures>>
history == <<written, answers, told, dropped>>
vars == <<guiVars, commands, published, startup, thread, file, faults, history>>

NoThread == [phase |-> "none", floppy |-> None, answer |-> 0, lost |-> {}]
Free == [at |-> "free", why |-> None, carried |-> {}, lost |-> {}]

\* GuiSession::start with the first generation running and no media.
Init ==
    /\ gui = Free
    /\ running = TRUE /\ closed = FALSE
    /\ next_request_id = 1 /\ next_generation = 2
    /\ outstanding = {} /\ pending_events = <<>> /\ pending_failures = {}
    /\ commands = <<>> /\ published = <<>> /\ startup = None
    /\ thread = [NoThread EXCEPT !.phase = "running"]
    /\ file = [s \in Sources |-> {}] /\ faults = 0
    /\ written = [s \in Sources |-> {}] /\ answers = <<>> /\ told = {} /\ dropped = {}

Fault == faults < MaxFaults /\ faults' = faults + 1

-----------------------------------------------------------------------------
(* The GUI thread.                                                         *)

\* A set of request ids in ascending order.
Sorted(ids) ==
    [i \in 1 .. Cardinality(ids) |-> CHOOSE x \in ids : Cardinality({y \in ids : y <= x}) = i]

Values(s) == {s[i] : i \in DOMAIN s}

\* finish_worker once the thread has been joined: the answers it published,
\* and a rejection for every request that is left.
Finished == pending_events \o published \o Sorted(outstanding \ Values(published))

Collect ==
    /\ running' = FALSE
    /\ outstanding' = {} /\ commands' = <<>> /\ published' = <<>>
    /\ thread' = NoThread

\* A request for a live worker: the send fails once the thread has dropped
\* its end of the channel, and succeeds as long as it has not, read or not.
Send(r) ==
    /\ running /\ thread.phase \notin {"returned", "finished"}
    /\ commands' = Append(commands, r)
    /\ outstanding' = outstanding \cup {next_request_id}
    /\ next_request_id' = next_request_id + 1
    /\ UNCHANGED <<gui, running, closed, next_generation, pending_events, pending_failures,
                   published, startup, thread, file, faults, history>>

\* Mutant: a finished worker is taken out without its unanswered requests.
RequestDropsUnanswered(r) ==
    \/ Send(r)
    \/ /\ running /\ thread.phase = "finished"
       /\ Collect
       /\ UNCHANGED <<gui, closed, next_request_id, next_generation, pending_events,
                      pending_failures, startup, file, faults, history>>

\* Without a machine a MIDI configuration is stored, and answered, at once;
\* any other request is refused.
Reply(events, r) ==
    IF r.kind = "midi"
    THEN /\ pending_events' = Append(events, next_request_id)
         /\ next_request_id' = next_request_id + 1
    ELSE pending_events' = events /\ UNCHANGED next_request_id

\* Without a worker only a MIDI configuration is accepted, and answered at
\* once.  A worker that has finished is collected first.
Request(r) ==
    \/ Send(r)
    \/ /\ \/ /\ ~running
             /\ Reply(pending_events, r)
             /\ UNCHANGED <<running, outstanding, commands, published, thread, pending_failures>>
          \/ /\ running /\ thread.phase = "finished"
             /\ Reply(Finished, r)
             /\ pending_failures' = pending_failures \cup thread.lost
             /\ Collect
       /\ UNCHANGED <<gui, closed, next_generation, startup, file, faults, history>>

\* The images in memory: the one in the drive and those on their way to it.
Held == ({thread.floppy} \cup {r.floppy : r \in Values(commands)}) \ {None}

\* The user's requests.  To mount an image the GUI reads the file before it
\* sends the request.
UserRequests ==
    {[id |-> next_request_id, kind |-> k, floppy |-> None] : k \in Kinds \ {"mount"}}
    \cup
    {[id |-> next_request_id, kind |-> "mount",
      floppy |-> [source |-> s, image |-> file[s], unsaved |-> FALSE]] :
        s \in {t \in Sources : "mount" \in Kinds /\ (Reloads \/ \A f \in Held : f.source # t)}}

MakeRequest ==
    /\ gui.at = "free" /\ ~closed
    /\ next_request_id <= MaxRequests
    /\ \E r \in UserRequests : Request(r)

\* poll: collect a finished worker, or take what is published; then hand all
\* events to the user.
Deliver(events, losses) ==
    /\ answers' = answers \o events
    /\ told' = told \cup losses
    /\ pending_events' = <<>> /\ pending_failures' = {}
    /\ UNCHANGED <<written, dropped>>

\* Mutant: the publication is taken only along with a new frame.
PollFramesOnly ==
    /\ gui.at = "free"
    /\ \/ /\ running /\ thread.phase = "finished"
          /\ Deliver(Finished, pending_failures \cup thread.lost)
          /\ Collect
       \/ /\ thread.phase # "finished"
          /\ Deliver(pending_events, pending_failures)
          /\ UNCHANGED <<running, outstanding, commands, published, thread>>
    /\ UNCHANGED <<gui, closed, next_request_id, next_generation, startup, file, faults>>

Poll ==
    /\ gui.at = "free"
    /\ \/ /\ running /\ thread.phase = "finished"
          /\ Deliver(Finished, pending_failures \cup thread.lost)
          /\ Collect
       \/ /\ running /\ thread.phase # "finished"
          /\ Deliver(pending_events \o published, pending_failures)
          /\ outstanding' = outstanding \ Values(published)
          /\ published' = <<>>
          /\ UNCHANGED <<running, commands, thread>>
       \/ /\ ~running
          /\ Deliver(pending_events, pending_failures)
          /\ UNCHANGED <<running, outstanding, commands, published, thread>>
    /\ UNCHANGED <<gui, closed, next_request_id, next_generation, startup, file, faults>>

\* reset, power_off and shutdown: RunningWorker::finish sends Shutdown (in
\* vain if the thread is gone) and joins.
Stop(why) ==
    /\ gui.at = "free" /\ running
    /\ why = "reset" => next_generation <= MaxGenerations
    /\ gui' = [gui EXCEPT !.at = "joining", !.why = why]
    /\ commands' = Append(commands, [id |-> 0, kind |-> "shutdown", floppy |-> None])
    /\ closed' = (closed \/ why = "shutdown")
    /\ UNCHANGED <<running, next_request_id, next_generation, outstanding, pending_events,
                   pending_failures, published, startup, thread, file, faults, history>>

\* start_generation: the thread takes the media, and the GUI waits for its
\* startup message.
Start(media, lost) ==
    /\ thread' = [NoThread EXCEPT !.phase = "starting", !.floppy = media]
    /\ gui' = [at |-> "starting", why |-> None, lost |-> lost,
               carried |-> IF media = None THEN {} ELSE media.image \ file[media.source]]
    /\ next_generation' = next_generation + 1

PowerOn ==
    /\ gui.at = "free" /\ ~running /\ ~closed
    /\ next_generation <= MaxGenerations
    /\ Start(None, {})
    /\ UNCHANGED <<running, closed, next_request_id, outstanding, pending_events,
                   pending_failures, commands, published, startup, file, faults, history>>

\* What reset mounts in the next generation: bytes that could not be saved
\* are carried over, others are read from the file again, which may fail.
Carried(f) ==
    IF f = None THEN {None}
    ELSE IF f.unsaved THEN {f}
    ELSE {[f EXCEPT !.image = file[f.source]], None}

\* RunningWorker::finish returns to reset, power_off or shutdown.
Joined ==
    /\ gui.at = "joining" /\ thread.phase = "finished"
    /\ pending_events' = Finished /\ UNCHANGED pending_failures
    /\ outstanding' = {} /\ commands' = <<>> /\ published' = <<>>
    /\ running' = FALSE
    /\ \/ /\ gui.why = "reset"
          /\ \E media \in Carried(thread.floppy) :
                Start(media, thread.lost \ (IF media = None THEN {} ELSE media.image))
          /\ UNCHANGED told
       \/ /\ gui.why # "reset"
          /\ thread' = NoThread
          /\ gui' = Free
          /\ told' = told \cup thread.lost
          /\ UNCHANGED next_generation
    /\ UNCHANGED <<closed, next_request_id, startup, file, faults, written, answers, dropped>>

\* The startup message.  After an error reset returns the error alone: the
\* failures it has collected go with it, and so do the new thread's own and
\* the image that was to be mounted again.
Started ==
    /\ gui.at = "starting"
    /\ \/ /\ startup = "ok"
          /\ running' = TRUE
          /\ told' = told \cup gui.lost
          /\ UNCHANGED <<thread, dropped>>
       \/ /\ startup = "err" /\ thread.phase = "finished"
          /\ thread' = NoThread
          /\ dropped' = dropped \cup
                ((gui.lost \cup gui.carried) \ UNION {file[s] : s \in Sources})
          /\ UNCHANGED <<running, told>>
    /\ startup' = None
    /\ gui' = Free
    /\ UNCHANGED <<closed, next_request_id, next_generation, outstanding, pending_events,
                   pending_failures, commands, published, file, faults, written, answers>>

-----------------------------------------------------------------------------
(* The emulation thread.                                                   *)

workerUnchanged == UNCHANGED <<guiVars, answers, told, dropped>>

\* build and initialize, which mounts the media, then the startup message;
\* or an error or a panic on the way, before or after the floppy is in.
Initialize ==
    /\ thread.phase = "starting"
    /\ startup = None
    /\ \/ /\ thread' = [thread EXCEPT !.phase = "running"]
          /\ startup' = "ok"
          /\ UNCHANGED faults
       \/ /\ Fault
          /\ \E f \in {None, thread.floppy} :
                thread' = [thread EXCEPT !.phase = "finalizing", !.floppy = f]
          /\ startup' = "err"
    /\ UNCHANGED <<commands, published, file, written>>
    /\ workerUnchanged

GuestWrites ==
    /\ thread.phase = "running" /\ thread.floppy # None
    /\ LET s == thread.floppy.source
           w == Cardinality(UNION {written[t] : t \in Sources}) + 1
       IN  /\ w <= MaxWrites
           /\ thread' = [thread EXCEPT !.floppy.image = @ \cup {w}, !.floppy.unsaved = TRUE]
           /\ written' = [written EXCEPT ![s] = @ \cup {w}]
    /\ UNCHANGED <<commands, published, startup, file, faults>>
    /\ workerUnchanged

Saved(f) == IF f # None /\ f.unsaved THEN [file EXCEPT ![f.source] = f.image] ELSE file

\* Mutant: the drive is left empty.
NotRestored == None

\* The drive after an image that was to leave it could not be written back.
Restored == thread.floppy

\* apply_request: an image that leaves the drive is written back first; if
\* that fails it stays mounted and the request is rejected.
Apply(r) ==
    \/ /\ thread.floppy # None /\ thread.floppy.unsaved
       /\ r.kind \in {"mount", "eject"}
       /\ Fault
       /\ thread' = [thread EXCEPT !.phase = "answering", !.answer = r.id, !.floppy = Restored]
       /\ UNCHANGED file
    \/ /\ thread' = [thread EXCEPT !.phase = "answering", !.answer = r.id,
                        !.floppy = IF r.kind \in {"mount", "eject"} THEN r.floppy ELSE @]
       /\ file' = IF r.kind \in {"mount", "eject"} THEN Saved(thread.floppy) ELSE file
       /\ UNCHANGED faults

\* One command of the loop in run_worker.
Receive ==
    /\ thread.phase = "running" /\ commands # <<>>
    /\ commands' = Tail(commands)
    /\ IF Head(commands).kind = "shutdown"
       THEN thread' = [thread EXCEPT !.phase = "finalizing"] /\ UNCHANGED <<file, faults>>
       ELSE Apply(Head(commands))
    /\ UNCHANGED <<published, startup, written>>
    /\ workerUnchanged

\* publish_request_result.
Publish ==
    /\ thread.phase = "answering"
    /\ published' = Append(published, thread.answer)
    /\ thread' = [thread EXCEPT !.phase = "running", !.answer = 0]
    /\ UNCHANGED <<commands, startup, file, faults, written>>
    /\ workerUnchanged

\* A panic inside the guard, also between applying and answering.
Panic ==
    /\ thread.phase \in {"running", "answering"}
    /\ Fault
    /\ thread' = [thread EXCEPT !.phase = "finalizing", !.answer = 0]
    /\ UNCHANGED <<commands, published, startup, file, written>>
    /\ workerUnchanged

\* finalize: write the floppy back, and keep what could not be written.
Finalize ==
    /\ thread.phase = "finalizing"
    /\ LET f == thread.floppy
           unsaved == f # None /\ f.unsaved
       IN  \/ /\ file' = Saved(f)
              /\ thread' = [thread EXCEPT !.phase = "returned",
                               !.floppy = IF unsaved THEN [f EXCEPT !.unsaved = FALSE] ELSE f]
              /\ UNCHANGED faults
           \/ /\ unsaved
              /\ Fault
              /\ thread' = [thread EXCEPT !.phase = "returned", !.lost = f.image \ file[f.source]]
              /\ UNCHANGED file
           \* A panic outside the guard, before or after the write: join_worker
           \* makes up an exit without media whose failure is the panic.
           \/ /\ Fault
              /\ file' \in {file, Saved(f)}
              /\ thread' = [thread EXCEPT !.phase = "finished", !.floppy = None,
                               !.lost = IF f = None THEN {} ELSE f.image \ file'[f.source]]
    /\ UNCHANGED <<commands, published, startup, written>>
    /\ workerUnchanged

\* The thread has dropped the channel; now it is finished.
Exit ==
    /\ thread.phase = "returned"
    /\ thread' = [thread EXCEPT !.phase = "finished"]
    /\ UNCHANGED <<commands, published, startup, file, faults, written>>
    /\ workerUnchanged

Worker == Initialize \/ Receive \/ Publish \/ Finalize \/ Exit
User == MakeRequest \/ PowerOn \/ \E why \in {"reset", "power_off", "shutdown"} : Stop(why)
Next == User \/ Poll \/ Joined \/ Started \/ Worker \/ GuestWrites \/ Panic

\* The GUI polls every frame, and both threads keep running.
Fairness == WF_vars(Poll) /\ WF_vars(Joined) /\ WF_vars(Started) /\ WF_vars(Worker)

Spec == Init /\ [][Next]_vars /\ Fairness

-----------------------------------------------------------------------------
\* Every request the session accepted is answered once and in the order of
\* the requests: the answers the user has seen, followed by those on their
\* way, are 1, 2, 3 and so on, and what is not among them is outstanding and
\* either in the channel, being answered, or cut off by a dying thread.
OneAnswer ==
    LET seen == answers \o pending_events \o published
    IN  /\ \A i \in DOMAIN seen : seen[i] = i
        /\ outstanding = (Len(answers) + Len(pending_events) + 1) .. (next_request_id - 1)

\* A guest write to a floppy is in the image's file, or in an image in memory
\* that is still to be written to it, or the user was told or is about to be
\* told of its loss by the call, or the event, that gave it up, whatever
\* panics or fails to be written on the way.  It can be lost in silence in one
\* case, a reset whose next generation does not start, and that takes two
\* failures: the write-back's and the start's.
WritesSafe ==
    /\ \A s \in Sources : \A w \in written[s] :
          \/ w \in file[s]
          \/ \E f \in Held : f.source = s /\ w \in f.image /\ f.unsaved
          \/ w \in told \cup pending_failures \cup thread.lost \cup gui.lost \cup gui.carried
          \/ w \in dropped
    /\ dropped # {} => faults >= 2

\* Every accepted request is eventually answered, whatever stops, panics or
\* powers the machine off meanwhile.
AnswersCome ==
    \A i \in 1 .. MaxRequests : (i < next_request_id) ~> (\E j \in DOMAIN answers : answers[j] = i)
=============================================================================
