------------------------ MODULE RecordingThreadsProofs ------------------------
(***************************************************************************)
(* Proofs about the threads of a recording session, for any number of      *)
(* worker generations and any limit of the failure streak.  The invariant  *)
(* has four parts: where the threads can be at the same time (ControlInv), *)
(* whose the worker is (WorkerInv), what is still owed by a worker that    *)
(* lives (CommandsInv, FramesInv), and what a generation tells of the call *)
(* that waits on it (CallInv), from which request refines WorkerCalls.     *)
(***************************************************************************)
EXTENDS RecordingThreads, SequenceTheorems, TLAPS

Tick == pc["tick"]
Tk   == pc["tk"]

TickPlaces == {"none", "check", "capture", "wait", "process", "failed", "kill",
               "reap", "decide", "spawn", "launch", "init_failed", "pause", "on_pause",
               "end"}
TkPlaces == {"idle", "drain_pause", "ask_pause", "wait", "pause_failed", "kill",
             "reap", "pause", "drain_resume", "begin_resume", "spawn", "launch",
             "ask_resume", "resume_failed", "init_failed", "resume", "restart", "join",
             "ask_stop", "stop", "shut_down", "emergency", "close", "finalize", "over",
             "exit"}

Waiting(th, command) == pc[th] = "wait" /\ asked[th].command = command
Tearing(th, after)   == pc[th] \in {"kill", "reap"} /\ then[th] = after

(* The Tk thread has drained a Pause, drained a Resume, or joined the loop. *)
Pausing ==
  \/ Tk \in {"ask_pause", "pause_failed", "pause"}
  \/ Waiting("tk", "PAUSE") \/ Tearing("tk", "pause")

Resuming ==
  \/ Tk \in {"begin_resume", "spawn", "launch", "ask_resume", "resume_failed",
             "init_failed", "resume"}
  \/ Waiting("tk", "RESUME") \/ Waiting("tk", "INIT") \/ Tearing("tk", "idle")

Stopping ==
  \/ Tk \in {"ask_stop", "stop", "shut_down", "emergency", "close", "finalize",
             "over", "exit"}
  \/ Waiting("tk", "STOP") \/ Waiting("tk", "SHUTDOWN")
  \/ Tearing("tk", "finalize") \/ Tearing("tk", "exit")

(* The tick may have replaced the worker, and will not ask it for a frame. *)
Restarted ==
  \/ Tick \in {"none", "launch", "init_failed", "pause", "on_pause", "end"}
  \/ Waiting("tick", "INIT") \/ Tearing("tick", "pause")
-----------------------------------------------------------------------------
(* Where the threads are. *)

PlacesInv ==
  /\ pc \in [Threads -> TickPlaces \cup TkPlaces]
  /\ Tick \in TickPlaces /\ Tk \in TkPlaces
  /\ then \in [Threads -> TkPlaces \cup {"decide"}]
  /\ worker \in Gens \cup {NoGen}
  /\ hold \in [Threads -> Gens \cup {NoGen}]
  /\ asked \in [Threads -> [gen : Gens \cup {NoGen}, command : Commands]]
  /\ in_flight <=> Tick # "none"
  /\ Tick = "wait" => asked["tick"].command \in {"CAPTURE", "INIT"}
  /\ \A th \in Threads : pc[th] \in {"launch", "wait"} => asked[th].gen \in Gens
  /\ \A th \in Threads : pc[th] = "launch" => asked[th].command = "INIT"
  /\ orphans \in Nat
  /\ Tk = "wait" => asked["tk"].command \in {"INIT", "PAUSE", "RESUME", "STOP", "SHUTDOWN"}
  /\ Tick \in {"kill", "reap"} => then["tick"] \in {"decide", "pause"}
  /\ Tk \in {"kill", "reap"} => then["tk"] \in {"pause", "idle", "finalize", "exit"}
  /\ Waiting("tk", "SHUTDOWN") => then["tk"] = "finalize"
  /\ Tk = "join" => then["tk"] \in {"ask_stop", "emergency", "close"}

QuietInv ==
  /\ loop \in {"waiting", "serving", "ended"}
  /\ stopped <=> Tk = "join" \/ Stopping
  /\ Tk = "drain_pause" \/ Pausing \/ stopped => running = FALSE
  /\ Stopping => loop = "ended"
  /\ Pausing /\ loop = "serving" => Tick = "none"
  /\ Tk = "drain_resume" => state = "PAUSED"
  /\ Resuming => state = "PAUSED" /\ Tick \in {"none", "check", "end"}
  /\ state = "PAUSED" /\ running => Tick = "on_pause" \/ overtaken
  /\ drained => Stopping /\ Tick = "none"

ControlInv == PlacesInv /\ QuietInv
-----------------------------------------------------------------------------
(* Whose the worker is. *)

Alive(g) == gen[g].process = "alive"
Living   == {g \in Gens : Alive(g)}

GenType == gen \in [Gens -> GenRecords]

GensInv ==
  /\ GenType
  /\ \A g \in Gens : Alive(g) => gen[g].valid = TRUE

(* What the Tk thread asks, or tears down, is the worker; unless a tick has put
   another in its place, and then no further tick is due. *)
Replaced   == loop # "serving" /\ Restarted /\ ~Resuming
TkWorks(g) == worker \in {g, NoGen} \/ Replaced

HoldsInv ==
  /\ Tick = "reap" => hold["tick"] \notin Living
  /\ Tk = "reap" /\ hold["tk"] \in Living => Replaced
  /\ Tick = "launch" =>
       /\ asked["tick"].gen \notin Living /\ worker \in {asked["tick"].gen, NoGen}
       /\ Tk = "wait" => asked["tk"].gen # asked["tick"].gen
       /\ Tk = "kill" /\ hold["tk"] = asked["tick"].gen => worker = hold["tk"]
  /\ Tk = "launch" => asked["tk"].gen \notin Living /\ worker = asked["tk"].gen
  /\ Tick \in {"kill", "reap"} => worker \in {hold["tick"], NoGen}
  /\ Tick \in {"decide", "spawn"} => worker = NoGen
  /\ Tk = "spawn" => worker \notin Living
  /\ Tk = "wait" => TkWorks(asked["tk"].gen)
  /\ Tk \in {"kill", "reap"} => TkWorks(hold["tk"])
  /\ Tk = "wait" /\ asked["tk"].gen \in Living => worker = asked["tk"].gen
  /\ Tk = "kill" /\ hold["tk"] \in Living => worker = hold["tk"]
  /\ Waiting("tk", "SHUTDOWN") => hold["tk"] = asked["tk"].gen

(* Nobody else lives. *)
OnlyWorkerInv ==
  /\ orphans = 0 => Living \subseteq {worker}
  /\ drained /\ (Tk \in {"kill", "reap"} \/ Waiting("tk", "SHUTDOWN"))
       => worker \in {hold["tk"], NoGen}
  /\ drained /\ Tk \in {"finalize", "over"} => worker = NoGen

WorkerInv == GensInv /\ HoldsInv /\ OnlyWorkerInv
-----------------------------------------------------------------------------
(* What a live worker owes, and to whom. *)

Asks(s, c) == \E i \in 1..Len(s) : s[i] = c
Says(q, c) == \E i \in 1..Len(q) : q[i].command = c

(* A command is in the inbox once, or in the queue once, as a reply. *)
Once(s, q, c) ==
  /\ \A i, j \in 1..Len(s) : s[i] = c /\ s[j] = c => i = j
  /\ \A i, j \in 1..Len(q) : q[i].command = c /\ q[j].command = c => i = j
  /\ ~(Asks(s, c) /\ Says(q, c))

Singles == {"CAPTURE", "PAUSE", "RESUME"}

OnceInv ==
  \A g \in Gens, c \in Singles : Alive(g) => Once(gen[g].inbox, gen[g].queue, c)

(* The generations that live and have yet to carry out a command, or have
   answered it and not been heard. *)
Asking(c) == {g \in Gens : Alive(g) /\ Asks(gen[g].inbox, c)}
Saying(c) == {g \in Gens : Alive(g) /\ Says(gen[g].queue, c)}

CaptureAsked == Asking("CAPTURE")
CaptureOwed  == Asking("CAPTURE") \cup Saying("CAPTURE")
PauseSaid    == Saying("PAUSE")
PauseOwed    == Asking("PAUSE") \cup Saying("PAUSE")
ResumeOwed   == Asking("RESUME") \cup Saying("RESUME")

AskedFor(th, g, c) == Waiting(th, c) /\ asked[th].gen = g

(* What is owed is owed by the worker, to a call that waits for it or to one
   that has failed and will tear the worker down. *)
OwedInv ==
  /\ \A g \in CaptureOwed :
       /\ worker = g
       /\ \/ AskedFor("tick", g, "CAPTURE") \/ Tick = "failed"
          \/ Tick = "kill" /\ then["tick"] = "decide" /\ hold["tick"] = g
  /\ \A g \in PauseOwed :
       /\ worker = g
       /\ \/ AskedFor("tk", g, "PAUSE") \/ Tk = "pause_failed"
          \/ Tk = "kill" /\ then["tk"] = "pause" /\ hold["tk"] = g
  /\ \A g \in ResumeOwed :
       /\ worker = g
       /\ \/ AskedFor("tk", g, "RESUME") \/ Tk = "resume_failed"
          \/ Tk = "kill" /\ then["tk"] = "idle" /\ hold["tk"] = g

(* The generations that would capture a frame if they were asked to. *)
Moving == {g \in Gens : Alive(g) /\ gen[g].mode = "RECORDING"}

(* Once the session is PAUSED, or about to be, no frame is due from them, and no
   tick will ask for one. *)
FramesInv ==
  /\ paused_frame = FALSE
  /\ state = "PAUSED" \/ Tk = "pause" => CaptureAsked \cap Moving = {}
  /\ Tk = "pause" /\ (Tick \in {"check", "capture"} \/ loop = "serving")
       => worker \notin Moving
  /\ state = "PAUSED" /\ Tick = "capture" => worker \notin Moving
  /\ Waiting("tk", "PAUSE") => asked["tk"].gen \notin PauseSaid \cap Moving

CommandsInv == OnceInv /\ OwedInv

ThreadsInv == ControlInv /\ WorkerInv /\ CommandsInv /\ FramesInv
-----------------------------------------------------------------------------
(* What a call does to the places. *)

LEMMA RequestMoves ==
  ASSUME NEW th \in Threads, NEW g, NEW c, Request(th, g, c)
  PROVE  \/ /\ pc' = [pc EXCEPT ![th] = "wait"]
            /\ asked' = [asked EXCEPT ![th] = [gen |-> g, command |-> c]]
            /\ gen[g].process = "alive"
         \/ /\ pc' = [pc EXCEPT ![th] = AfterReply(th, c, "ERROR")]
            /\ asked' = asked
  BY Zenon DEF Request, Goto, Usable

LEMMA ReturnMoves ==
  ASSUME NEW th \in Threads, NEW reply, NEW rest, Returns(th, reply, rest)
  PROVE  /\ pc' = [pc EXCEPT ![th] = AfterReply(th, asked[th].command, reply)]
         /\ asked' = [asked EXCEPT ![th] = NoAsk]
  BY Zenon DEF Returns, Goto

LEMMA AfterReplies ==
  ASSUME NEW th, NEW reply
  PROVE  /\ AfterReply(th, "CAPTURE", reply) = IF reply = "OK" THEN "process" ELSE "failed"
         /\ AfterReply(th, "INIT", reply) = IF reply # "OK" THEN "init_failed"
                                ELSE IF th = "tick" THEN "end" ELSE "ask_resume"
         /\ AfterReply(th, "PAUSE", reply) = IF reply = "ERROR" THEN "pause_failed" ELSE "pause"
         /\ AfterReply(th, "RESUME", reply) = IF reply = "ERROR" THEN "resume_failed" ELSE "resume"
         /\ AfterReply(th, "STOP", reply) = "stop"
         /\ AfterReply(th, "SHUTDOWN", reply) = "kill"
  BY Zenon DEF AfterReply

LEMMA TakeReplyMoves ==
  ASSUME NEW th \in Threads, TakeReply(th)
  PROVE  /\ pc[th] = "wait"
         /\ UNCHANGED <<session, scheduler, known, local>>
         /\ \/ UNCHANGED <<pc, asked>>
            \/ \E reply :
                 /\ pc' = [pc EXCEPT ![th] = AfterReply(th, asked[th].command, reply)]
                 /\ asked' = [asked EXCEPT ![th] = NoAsk]
<1> DEFINE head == Head(gen[asked[th].gen].queue)
           rest == Tail(gen[asked[th].gen].queue)
<1>1. \/ UNCHANGED <<pc, asked>>
      \/ Returns(th, "ERROR", rest) \/ Returns(th, head.reply, rest)
  BY Zenon DEF TakeReply
<1>2. pc[th] = "wait" /\ UNCHANGED <<session, scheduler, known, local>>
  BY Zenon DEF TakeReply
<1> HIDE DEF head, rest
<1> QED  BY <1>1, <1>2, ReturnMoves, Zenon

LEMMA TimeOutMoves ==
  ASSUME NEW th \in Threads, TimeOut(th)
  PROVE  /\ pc[th] = "wait"
         /\ UNCHANGED <<session, scheduler, known, local>>
         /\ \/ UNCHANGED <<pc, asked>>
            \/ \E reply :
                 /\ pc' = [pc EXCEPT ![th] = AfterReply(th, asked[th].command, reply)]
                 /\ asked' = [asked EXCEPT ![th] = NoAsk]
  BY ReturnMoves, Zenon DEF TimeOut, TimedOut
-----------------------------------------------------------------------------
(* ControlInv is kept by every step: by what it does to the places of one thread,
   and what it leaves of the other's. *)

(* The scheduler's loop. *)
LEMMA LoopControl ==
  ASSUME ControlInv,
         \/ Deadline
         \/ Dispatch
         \/ EndLoop
  PROVE  ControlInv'
<1> USE DEF ControlInv, PlacesInv, QuietInv, Pausing, Resuming, Stopping, Waiting,
            Tearing, Tick, Tk, Threads, TickPlaces, TkPlaces, Goto, session,
            scheduler, known, local, client, Used, Answered
<1>1. CASE Deadline
  <2>1. PlacesInv'
    BY <1>1, SMT DEF Deadline
  <2>2. QuietInv'
    BY <1>1, SMT DEF Deadline
  <2> QED  BY <2>1, <2>2
<1>2. CASE Dispatch
  <2>1. PlacesInv'
    BY <1>2, SMT DEF Dispatch, FreeToServe
  <2>2. QuietInv'
    BY <1>2, SMT DEF Dispatch, FreeToServe
  <2> QED  BY <2>1, <2>2
<1>3. CASE EndLoop
  <2>1. PlacesInv'
    BY <1>3, SMT DEF EndLoop, LoopOver
  <2>2. QuietInv'
    BY <1>3, SMT DEF EndLoop, LoopOver
  <2> QED  BY <2>1, <2>2
<1> QED  BY <1>1, <1>2, <1>3

(* The tick. *)
LEMMA TickControl ==
  ASSUME ControlInv,
         \/ CheckState
         \/ Capture
         \/ Process
         \/ CaptureFailed
         \/ Decide
         \/ RestartFailed
         \/ PauseAfterRestart
         \/ OnPause
         \/ EndTick
  PROVE  ControlInv'
<1> USE DEF ControlInv, PlacesInv, QuietInv, Pausing, Resuming, Stopping, Waiting,
            Tearing, Tick, Tk, Threads, TickPlaces, TkPlaces, Goto, session,
            scheduler, known, local, client, Used, Answered
<1>1. CASE CheckState
  <2>1. PlacesInv'
    BY <1>1, SMT DEF CheckState
  <2>2. QuietInv'
    BY <1>1, SMT DEF CheckState
  <2> QED  BY <2>1, <2>2
<1>2. CASE Capture
  <2>1. CASE Request("tick", worker, "CAPTURE")
    <3>1. PlacesInv'
      BY <1>2, <2>1, RequestMoves, AfterReplies, SMT DEF Capture, Commands
    <3>2. QuietInv'
      BY <1>2, <2>1, RequestMoves, AfterReplies, SMT DEF Capture, Commands
    <3> QED  BY <3>1, <3>2
  <2>2. CASE ~Request("tick", worker, "CAPTURE")
    <3>1. PlacesInv'
      BY <1>2, <2>2, SMT DEF Capture
    <3>2. QuietInv'
      BY <1>2, <2>2, SMT DEF Capture
    <3> QED  BY <3>1, <3>2
  <2> QED  BY <2>1, <2>2
<1>3. CASE Process
  <2>1. PlacesInv'
    BY <1>3, SMT DEF Process, AutoPause
  <2>2. QuietInv'
    BY <1>3, SMT DEF Process, AutoPause
  <2> QED  BY <2>1, <2>2
<1>4. CASE CaptureFailed
  <2>1. PlacesInv'
    BY <1>4, SMT DEF CaptureFailed, Teardown
  <2>2. QuietInv'
    BY <1>4, SMT DEF CaptureFailed, Teardown
  <2> QED  BY <2>1, <2>2
<1>5. CASE Decide
  <2>1. PlacesInv'
    BY <1>5, SMT DEF Decide, AutoPause
  <2>2. QuietInv'
    BY <1>5, SMT DEF Decide, AutoPause
  <2> QED  BY <2>1, <2>2
<1>6. CASE RestartFailed
  <2>1. PlacesInv'
    BY <1>6, SMT DEF RestartFailed, Teardown
  <2>2. QuietInv'
    BY <1>6, SMT DEF RestartFailed, Teardown
  <2> QED  BY <2>1, <2>2
<1>7. CASE PauseAfterRestart
  <2>1. PlacesInv'
    BY <1>7, SMT DEF PauseAfterRestart, AutoPause
  <2>2. QuietInv'
    BY <1>7, SMT DEF PauseAfterRestart, AutoPause
  <2> QED  BY <2>1, <2>2
<1>8. CASE OnPause
  <2>1. PlacesInv'
    BY <1>8, SMT DEF OnPause, RunningAfterPause
  <2>2. QuietInv'
    BY <1>8, SMT DEF OnPause, RunningAfterPause
  <2> QED  BY <2>1, <2>2
<1>9. CASE EndTick
  <2>1. PlacesInv'
    BY <1>9, SMT DEF EndTick
  <2>2. QuietInv'
    BY <1>9, SMT DEF EndTick
  <2> QED  BY <2>1, <2>2
<1> QED  BY <1>1, <1>2, <1>3, <1>4, <1>5, <1>6, <1>7, <1>8, <1>9

(* Pause. *)
LEMMA PauseControl ==
  ASSUME ControlInv,
         \/ ClickPause
         \/ Drain("drain_pause", "ask_pause")
         \/ AskPause
         \/ PauseFailed
         \/ EndPause
  PROVE  ControlInv'
<1> USE DEF ControlInv, PlacesInv, QuietInv, Pausing, Resuming, Stopping, Waiting,
            Tearing, Tick, Tk, Threads, TickPlaces, TkPlaces, Goto, session,
            scheduler, known, local, client, Used, Answered
<1>1. CASE ClickPause
  <2>1. PlacesInv'
    BY <1>1, SMT DEF ClickPause
  <2>2. QuietInv'
    BY <1>1, SMT DEF ClickPause
  <2> QED  BY <2>1, <2>2
<1>2. CASE Drain("drain_pause", "ask_pause")
  <2>1. PlacesInv'
    BY <1>2, SMT DEF Drain
  <2>2. QuietInv'
    BY <1>2, SMT DEF Drain
  <2> QED  BY <2>1, <2>2
<1>3. CASE AskPause
  <2>1. CASE Request("tk", worker, "PAUSE")
    <3>1. PlacesInv'
      BY <1>3, <2>1, RequestMoves, AfterReplies, SMT DEF AskPause, Commands
    <3>2. QuietInv'
      BY <1>3, <2>1, RequestMoves, AfterReplies, SMT DEF AskPause, Commands
    <3> QED  BY <3>1, <3>2
  <2>2. CASE ~Request("tk", worker, "PAUSE")
    <3>1. PlacesInv'
      BY <1>3, <2>2, SMT DEF AskPause
    <3>2. QuietInv'
      BY <1>3, <2>2, SMT DEF AskPause
    <3> QED  BY <3>1, <3>2
  <2> QED  BY <2>1, <2>2
<1>4. CASE PauseFailed
  <2>1. PlacesInv'
    BY <1>4, SMT DEF PauseFailed, Teardown
  <2>2. QuietInv'
    BY <1>4, SMT DEF PauseFailed, Teardown
  <2> QED  BY <2>1, <2>2
<1>5. CASE EndPause
  <2>1. PlacesInv'
    BY <1>5, SMT DEF EndPause
  <2>2. QuietInv'
    BY <1>5, SMT DEF EndPause
  <2> QED  BY <2>1, <2>2
<1> QED  BY <1>1, <1>2, <1>3, <1>4, <1>5

(* Resume. *)
LEMMA ResumeControl ==
  ASSUME ControlInv,
         \/ ClickResume
         \/ Drain("drain_resume", "begin_resume")
         \/ BeginResume
         \/ AskResume
         \/ ResumeFailed
         \/ EndResume
         \/ RestartScheduler
  PROVE  ControlInv'
<1> USE DEF ControlInv, PlacesInv, QuietInv, Pausing, Resuming, Stopping, Waiting,
            Tearing, Tick, Tk, Threads, TickPlaces, TkPlaces, Goto, session,
            scheduler, known, local, client, Used, Answered
<1>1. CASE ClickResume
  <2>1. PlacesInv'
    BY <1>1, SMT DEF ClickResume
  <2>2. QuietInv'
    BY <1>1, SMT DEF ClickResume
  <2> QED  BY <2>1, <2>2
<1>2. CASE Drain("drain_resume", "begin_resume")
  <2>1. PlacesInv'
    BY <1>2, SMT DEF Drain
  <2>2. QuietInv'
    BY <1>2, SMT DEF Drain
  <2> QED  BY <2>1, <2>2
<1>3. CASE BeginResume
  <2>1. PlacesInv'
    BY <1>3, SMT DEF BeginResume
  <2>2. QuietInv'
    BY <1>3, SMT DEF BeginResume
  <2> QED  BY <2>1, <2>2
<1>4. CASE AskResume
  <2>1. CASE Request("tk", worker, "RESUME")
    <3>1. PlacesInv'
      BY <1>4, <2>1, RequestMoves, AfterReplies, SMT DEF AskResume, Commands
    <3>2. QuietInv'
      BY <1>4, <2>1, RequestMoves, AfterReplies, SMT DEF AskResume, Commands
    <3> QED  BY <3>1, <3>2
  <2>2. CASE ~Request("tk", worker, "RESUME")
    <3>1. PlacesInv'
      BY <1>4, <2>2, SMT DEF AskResume
    <3>2. QuietInv'
      BY <1>4, <2>2, SMT DEF AskResume
    <3> QED  BY <3>1, <3>2
  <2> QED  BY <2>1, <2>2
<1>5. CASE ResumeFailed
  <2>1. PlacesInv'
    BY <1>5, SMT DEF ResumeFailed, Teardown
  <2>2. QuietInv'
    BY <1>5, SMT DEF ResumeFailed, Teardown
  <2> QED  BY <2>1, <2>2
<1>6. CASE EndResume
  <2>1. PlacesInv'
    BY <1>6, SMT DEF EndResume
  <2>2. QuietInv'
    BY <1>6, SMT DEF EndResume
  <2> QED  BY <2>1, <2>2
<1>7. CASE RestartScheduler
  <2>1. PlacesInv'
    BY <1>7, SMT DEF RestartScheduler
  <2>2. QuietInv'
    <3> DEFINE paused == state = "PAUSED"
    <3>1. overtaken' = paused
      BY <1>7, Zenon DEF RestartScheduler
    <3> HIDE DEF paused
    <3>2. state = "PAUSED" => overtaken'
      BY <3>1, Zenon DEF paused
    <3> QED  BY <1>7, <3>2, SMT DEF RestartScheduler
  <2> QED  BY <2>1, <2>2
<1> QED  BY <1>1, <1>2, <1>3, <1>4, <1>5, <1>6, <1>7

(* Stop, Emergency stop and Close. *)
LEMMA StopControl ==
  ASSUME ControlInv,
         \/ \E how \in {"ask_stop", "emergency", "close"} : ClickStop(how)
         \/ DrainStop
         \/ AskStop
         \/ StopMachine
         \/ ShutDown
         \/ EmergencyStop
         \/ CloseWindow
         \/ Finalize
         \/ Exit
  PROVE  ControlInv'
<1> USE DEF ControlInv, PlacesInv, QuietInv, Pausing, Resuming, Stopping, Waiting,
            Tearing, Tick, Tk, Threads, TickPlaces, TkPlaces, Goto, session,
            scheduler, known, local, client, Used, Answered
<1>1. CASE \E how \in {"ask_stop", "emergency", "close"} : ClickStop(how)
  <2>1. PlacesInv'
    BY <1>1, SMT DEF ClickStop
  <2>2. QuietInv'
    BY <1>1, SMT DEF ClickStop
  <2> QED  BY <2>1, <2>2
<1>2. CASE DrainStop
  <2>0. ~drained' \/ Tick = "none"
    BY <1>2, Zenon DEF DrainStop
  <2>1. PlacesInv'
    BY <1>2, SMT DEF DrainStop, Joined
  <2>2. QuietInv'
    <3> DEFINE found == ~in_flight
    <3>1. drained' = found
      BY <1>2, Zenon DEF DrainStop
    <3> HIDE DEF found
    <3> QED  BY <1>2, <2>0, <3>1, SMT DEF DrainStop, Joined
  <2> QED  BY <2>1, <2>2
<1>3. CASE AskStop
  <2>1. CASE Request("tk", worker, "STOP")
    <3>1. PlacesInv'
      BY <1>3, <2>1, RequestMoves, AfterReplies, SMT DEF AskStop, Commands
    <3>2. QuietInv'
      BY <1>3, <2>1, RequestMoves, AfterReplies, SMT DEF AskStop, Commands
    <3> QED  BY <3>1, <3>2
  <2>2. CASE ~Request("tk", worker, "STOP")
    <3>1. PlacesInv'
      BY <1>3, <2>2, SMT DEF AskStop
    <3>2. QuietInv'
      BY <1>3, <2>2, SMT DEF AskStop
    <3> QED  BY <3>1, <3>2
  <2> QED  BY <2>1, <2>2
<1>4. CASE StopMachine
  <2>1. PlacesInv'
    BY <1>4, SMT DEF StopMachine
  <2>2. QuietInv'
    BY <1>4, SMT DEF StopMachine
  <2> QED  BY <2>1, <2>2
<1>5. CASE ShutDown
  <2>1. CASE worker = NoGen
    <3>1. PlacesInv'
      BY <1>5, <2>1, SMT DEF ShutDown
    <3>2. QuietInv'
      BY <1>5, <2>1, SMT DEF ShutDown
    <3> QED  BY <3>1, <3>2
  <2>2. CASE worker # NoGen
    <3>0. /\ Request("tk", worker, "SHUTDOWN")
          /\ hold' = [hold EXCEPT !["tk"] = worker]
      BY <1>5, <2>2, Zenon DEF ShutDown
    <3>1. PlacesInv'
      BY <1>5, <3>0, RequestMoves, AfterReplies, SMT DEF ShutDown, Commands
    <3>2. QuietInv'
      BY <1>5, <3>0, RequestMoves, AfterReplies, SMT DEF ShutDown, Commands
    <3> QED  BY <3>1, <3>2
  <2> QED  BY <2>1, <2>2
<1>6. CASE EmergencyStop
  <2>1. PlacesInv'
    BY <1>6, SMT DEF EmergencyStop, Teardown
  <2>2. QuietInv'
    BY <1>6, SMT DEF EmergencyStop, Teardown
  <2> QED  BY <2>1, <2>2
<1>7. CASE CloseWindow
  <2>1. PlacesInv'
    BY <1>7, SMT DEF CloseWindow, Teardown
  <2>2. QuietInv'
    BY <1>7, SMT DEF CloseWindow, Teardown
  <2> QED  BY <2>1, <2>2
<1>8. CASE Finalize
  <2>1. PlacesInv'
    BY <1>8, SMT DEF Finalize
  <2>2. QuietInv'
    BY <1>8, SMT DEF Finalize
  <2> QED  BY <2>1, <2>2
<1>9. CASE Exit
  <2>1. PlacesInv'
    BY <1>9, SMT DEF Exit, NoAsk, Commands
  <2>2. QuietInv'
    BY <1>9, SMT DEF Exit, NoAsk, Commands
  <2> QED  BY <2>1, <2>2
<1> QED  BY <1>1, <1>2, <1>3, <1>4, <1>5, <1>6, <1>7, <1>8, <1>9

(* The calls of the tick. *)
LEMMA TickCallControl ==
  ASSUME ControlInv,
         \/ TakeReply("tick")
         \/ TimeOut("tick")
         \/ Kill("tick")
         \/ Reap("tick")
         \/ Spawn("tick")
         \/ Launch("tick")
  PROVE  ControlInv'
<1> USE DEF ControlInv, PlacesInv, QuietInv, Pausing, Resuming, Stopping, Waiting,
            Tearing, Tick, Tk, Threads, TickPlaces, TkPlaces, Goto, session,
            scheduler, known, local, client, Used, Answered
<1>1. CASE TakeReply("tick")
  <2>1. /\ pc["tick"] = "wait"
        /\ UNCHANGED <<session, scheduler, known, local>>
    BY <1>1, TakeReplyMoves
  <2>2. CASE UNCHANGED <<pc, asked>>
    BY <2>1, <2>2, SMT
  <2>3. CASE \E reply : /\ pc' = [pc EXCEPT !["tick"] = AfterReply("tick", asked["tick"].command, reply)]
                        /\ asked' = [asked EXCEPT !["tick"] = NoAsk]
    <3>1. PlacesInv'
      BY <2>1, <2>3, AfterReplies, SMT DEF NoAsk, Commands
    <3>2. QuietInv'
      BY <2>1, <2>3, AfterReplies, SMT DEF NoAsk, Commands
    <3> QED  BY <3>1, <3>2
  <2> QED  BY <1>1, <2>2, <2>3, TakeReplyMoves
<1>2. CASE TimeOut("tick")
  <2>1. /\ pc["tick"] = "wait"
        /\ UNCHANGED <<session, scheduler, known, local>>
    BY <1>2, TimeOutMoves
  <2>2. CASE UNCHANGED <<pc, asked>>
    BY <2>1, <2>2, SMT
  <2>3. CASE \E reply : /\ pc' = [pc EXCEPT !["tick"] = AfterReply("tick", asked["tick"].command, reply)]
                        /\ asked' = [asked EXCEPT !["tick"] = NoAsk]
    <3>1. PlacesInv'
      BY <2>1, <2>3, AfterReplies, SMT DEF NoAsk, Commands
    <3>2. QuietInv'
      BY <2>1, <2>3, AfterReplies, SMT DEF NoAsk, Commands
    <3> QED  BY <3>1, <3>2
  <2> QED  BY <1>2, <2>2, <2>3, TimeOutMoves
<1>3. CASE Kill("tick")
  <2>1. PlacesInv'
    BY <1>3, SMT DEF Kill
  <2>2. QuietInv'
    BY <1>3, SMT DEF Kill
  <2> QED  BY <2>1, <2>2
<1>4. CASE Reap("tick")
  <2>1. PlacesInv'
    <3>1. worker' \in Gens \cup {NoGen} /\ orphans' \in Nat
      BY <1>4, SMT DEF Reap
    <3> QED  BY <1>4, <3>1, SMT DEF Reap
  <2>2. QuietInv'
    BY <1>4, SMT DEF Reap
  <2> QED  BY <2>1, <2>2
<1>5. CASE Spawn("tick")
  <2>1. PlacesInv'
    BY <1>5, SMT DEF Spawn, Unused, Commands
  <2>2. QuietInv'
    BY <1>5, SMT DEF Spawn, Unused, Commands
  <2> QED  BY <2>1, <2>2
<1>6. CASE Launch("tick")
  <2>1. PlacesInv'
    <3>1. orphans' \in Nat
      BY <1>6, SMT DEF Launch
    <3> QED  BY <1>6, <3>1, SMT DEF Launch
  <2>2. QuietInv'
    BY <1>6, SMT DEF Launch
  <2> QED  BY <2>1, <2>2
<1> QED  BY <1>1, <1>2, <1>3, <1>4, <1>5, <1>6

(* The calls of the Tk thread. *)
LEMMA TkCallControl ==
  ASSUME ControlInv,
         \/ TakeReply("tk")
         \/ TimeOut("tk")
         \/ Kill("tk")
         \/ Reap("tk")
         \/ Spawn("tk")
         \/ Launch("tk")
  PROVE  ControlInv'
<1> USE DEF ControlInv, PlacesInv, QuietInv, Pausing, Resuming, Stopping, Waiting,
            Tearing, Tick, Tk, Threads, TickPlaces, TkPlaces, Goto, session,
            scheduler, known, local, client, Used, Answered
<1>1. CASE TakeReply("tk")
  <2>1. /\ pc["tk"] = "wait"
        /\ UNCHANGED <<session, scheduler, known, local>>
    BY <1>1, TakeReplyMoves
  <2>2. CASE UNCHANGED <<pc, asked>>
    BY <2>1, <2>2, SMT
  <2>3. CASE \E reply : /\ pc' = [pc EXCEPT !["tk"] = AfterReply("tk", asked["tk"].command, reply)]
                        /\ asked' = [asked EXCEPT !["tk"] = NoAsk]
    <3>1. PlacesInv'
      BY <2>1, <2>3, AfterReplies, SMT DEF NoAsk, Commands
    <3>2. QuietInv'
      BY <2>1, <2>3, AfterReplies, SMT DEF NoAsk, Commands
    <3> QED  BY <3>1, <3>2
  <2> QED  BY <1>1, <2>2, <2>3, TakeReplyMoves
<1>2. CASE TimeOut("tk")
  <2>1. /\ pc["tk"] = "wait"
        /\ UNCHANGED <<session, scheduler, known, local>>
    BY <1>2, TimeOutMoves
  <2>2. CASE UNCHANGED <<pc, asked>>
    BY <2>1, <2>2, SMT
  <2>3. CASE \E reply : /\ pc' = [pc EXCEPT !["tk"] = AfterReply("tk", asked["tk"].command, reply)]
                        /\ asked' = [asked EXCEPT !["tk"] = NoAsk]
    <3>1. PlacesInv'
      BY <2>1, <2>3, AfterReplies, SMT DEF NoAsk, Commands
    <3>2. QuietInv'
      BY <2>1, <2>3, AfterReplies, SMT DEF NoAsk, Commands
    <3> QED  BY <3>1, <3>2
  <2> QED  BY <1>2, <2>2, <2>3, TimeOutMoves
<1>3. CASE Kill("tk")
  <2>1. PlacesInv'
    BY <1>3, SMT DEF Kill
  <2>2. QuietInv'
    BY <1>3, SMT DEF Kill
  <2> QED  BY <2>1, <2>2
<1>4. CASE Reap("tk")
  <2>1. PlacesInv'
    <3>1. worker' \in Gens \cup {NoGen} /\ orphans' \in Nat
      BY <1>4, SMT DEF Reap
    <3> QED  BY <1>4, <3>1, SMT DEF Reap
  <2>2. QuietInv'
    BY <1>4, SMT DEF Reap
  <2> QED  BY <2>1, <2>2
<1>5. CASE Spawn("tk")
  <2>1. PlacesInv'
    BY <1>5, SMT DEF Spawn, Unused, Commands
  <2>2. QuietInv'
    BY <1>5, SMT DEF Spawn, Unused, Commands
  <2> QED  BY <2>1, <2>2
<1>6. CASE Launch("tk")
  <2>1. PlacesInv'
    <3>1. orphans' \in Nat
      BY <1>6, SMT DEF Launch
    <3> QED  BY <1>6, <3>1, SMT DEF Launch
  <2>2. QuietInv'
    BY <1>6, SMT DEF Launch
  <2> QED  BY <2>1, <2>2
<1> QED  BY <1>1, <1>2, <1>3, <1>4, <1>5, <1>6

(* The workers. *)
LEMMA WorkerControl ==
  ASSUME ControlInv,
         \/ \E g \in Gens : Serve(g)
         \/ \E g \in Gens : Die(g)
         \/ \E g \in Gens : EndOfStream(g)
  PROVE  ControlInv'
<1> USE DEF ControlInv, PlacesInv, QuietInv, Pausing, Resuming, Stopping, Waiting,
            Tearing, Tick, Tk, Threads, TickPlaces, TkPlaces, Goto, session,
            scheduler, known, local, client, Used, Answered
<1>1. CASE \E g \in Gens : Serve(g)
  <2>1. UNCHANGED <<state, failures, drained, scheduler, known, pc, local, asked, answer>>
    BY <1>1, Zenon DEF Serve
  <2> QED  BY <2>1, SMT
<1>2. CASE \E g \in Gens : Die(g)
  <2>1. PlacesInv'
    BY <1>2, SMT DEF Die
  <2>2. QuietInv'
    BY <1>2, SMT DEF Die
  <2> QED  BY <2>1, <2>2
<1>3. CASE \E g \in Gens : EndOfStream(g)
  <2>1. PlacesInv'
    BY <1>3, SMT DEF EndOfStream
  <2>2. QuietInv'
    BY <1>3, SMT DEF EndOfStream
  <2> QED  BY <2>1, <2>2
<1> QED  BY <1>1, <1>2, <1>3
-----------------------------------------------------------------------------
(* Every step is one of the above. *)
LEMMA StepKinds ==
  ASSUME Next
  PROVE  \/ Deadline \/ Dispatch \/ EndLoop
         \/ TakeReply("tick") \/ TimeOut("tick") \/ Kill("tick") \/ Reap("tick")
         \/ Spawn("tick") \/ Launch("tick")
         \/ TakeReply("tk") \/ TimeOut("tk") \/ Kill("tk") \/ Reap("tk")
         \/ Spawn("tk") \/ Launch("tk")
         \/ CheckState \/ Capture \/ Process \/ CaptureFailed \/ Decide
         \/ RestartFailed \/ PauseAfterRestart \/ OnPause \/ EndTick
         \/ ClickPause \/ Drain("drain_pause", "ask_pause") \/ AskPause \/ PauseFailed
         \/ EndPause
         \/ ClickResume \/ Drain("drain_resume", "begin_resume") \/ BeginResume
         \/ AskResume \/ ResumeFailed \/ EndResume \/ RestartScheduler
         \/ \E how \in {"ask_stop", "emergency", "close"} : ClickStop(how)
         \/ DrainStop \/ AskStop \/ StopMachine \/ ShutDown \/ EmergencyStop
         \/ CloseWindow \/ Finalize \/ Exit
         \/ \E g \in Gens : Serve(g) \/ Die(g) \/ EndOfStream(g)
<1>1. CASE \E th \in Threads : CallNext(th)
  <2>1. CallNext("tick") \/ CallNext("tk")
    BY <1>1, Zenon DEF Threads
  <2> QED  BY <2>1, Zenon DEF CallNext
<1>2. CASE ~\E th \in Threads : CallNext(th)
  BY <1>2, Zenon DEF Next, LoopNext, TickNext, HandlerNext, Click
<1> QED  BY <1>1, <1>2

LEMMA ControlInit == Init => ControlInv
<1> SUFFICES ASSUME Init PROVE ControlInv
  OBVIOUS
<1>1. worker \in Gens
  BY ThreadsAssumption, Zenon DEF Init
<1>2. /\ state = "RECORDING" /\ running = TRUE /\ stopped = FALSE
      /\ loop = "waiting" /\ in_flight = FALSE /\ drained = FALSE
      /\ pc = [th \in Threads |-> IF th = "tick" THEN "none" ELSE "idle"]
      /\ hold = [th \in Threads |-> NoGen] /\ then = [th \in Threads |-> "idle"]
      /\ asked = [th \in Threads |-> NoAsk]
      /\ orphans = 0
  BY Zenon DEF Init
<1>3. pc["tick"] = "none" /\ pc["tk"] = "idle"
  BY <1>2, SMT DEF Threads
<1>4. PlacesInv
  BY <1>1, <1>2, <1>3, SMT DEF PlacesInv, Waiting, Tick, Tk, Threads, TickPlaces, TkPlaces,
     NoAsk, Commands
<1>5. QuietInv
  BY <1>2, <1>3, SMT DEF QuietInv, Pausing, Resuming, Stopping, Waiting, Tearing, Tick, Tk
<1> QED  BY <1>4, <1>5 DEF ControlInv

LEMMA ControlStep ==
  ASSUME ControlInv, [Next]_vars
  PROVE  ControlInv'
<1>1. CASE UNCHANGED vars
  BY <1>1, SMT DEF vars, ControlInv, PlacesInv, QuietInv, Pausing, Resuming, Stopping,
     Waiting, Tearing, Tick, Tk
<1>2. CASE Next
  <2>1. CASE \E g \in Gens : Serve(g) \/ Die(g) \/ EndOfStream(g)
    BY <2>1, WorkerControl
  <2>2. CASE \/ Deadline \/ Dispatch \/ EndLoop
    BY <2>2, LoopControl
  <2>3. CASE \/ TakeReply("tick") \/ TimeOut("tick") \/ Kill("tick") \/ Reap("tick")
             \/ Spawn("tick") \/ Launch("tick")
    BY <2>3, TickCallControl
  <2>4. CASE \/ TakeReply("tk") \/ TimeOut("tk") \/ Kill("tk") \/ Reap("tk")
             \/ Spawn("tk") \/ Launch("tk")
    BY <2>4, TkCallControl
  <2>5. CASE \/ CheckState \/ Capture \/ Process \/ CaptureFailed \/ Decide
             \/ RestartFailed \/ PauseAfterRestart \/ OnPause \/ EndTick
    BY <2>5, TickControl
  <2>6. CASE \/ ClickPause \/ Drain("drain_pause", "ask_pause") \/ AskPause
             \/ PauseFailed \/ EndPause
    BY <2>6, PauseControl
  <2>7. CASE \/ ClickResume \/ Drain("drain_resume", "begin_resume") \/ BeginResume
             \/ AskResume \/ ResumeFailed \/ EndResume \/ RestartScheduler
    BY <2>7, ResumeControl
  <2>8. CASE \/ \E how \in {"ask_stop", "emergency", "close"} : ClickStop(how)
             \/ DrainStop \/ AskStop \/ StopMachine \/ ShutDown \/ EmergencyStop
             \/ CloseWindow \/ Finalize \/ Exit
    BY <2>8, StopControl
  <2> QED  BY <1>2, <2>1, <2>2, <2>3, <2>4, <2>5, <2>6, <2>7, <2>8, StepKinds
<1> QED  BY <1>1, <1>2

THEOREM ThreadsStayInTheirPlaces == Spec => []ControlInv
<1>1. ControlInv /\ [Next]_vars => ControlInv'
  BY ControlStep
<1> QED  BY <1>1, ControlInit, PTL DEF Spec

(* A paused session dispatches nothing, once the tick that paused it and the
   handler in progress are through, unless Resume has overtaken the pause: the
   tick pauses the session before it clears the scheduler's flag (controller.py
   _enter_pause, app.py _handle_pause), Resume lets it record before it sets the flag
   (controller.py user_resume, app.py _resume), and only between these two
   can a pause be overtaken. *)
THEOREM PauseIsQuiet == Spec => []PausedIsQuiet
<1>1. ControlInv => PausedIsQuiet
  BY SMT DEF ControlInv, PlacesInv, QuietInv, PausedIsQuiet, Tick
<1> QED  BY <1>1, ThreadsStayInTheirPlaces, PTL
-----------------------------------------------------------------------------
(* Generations: a record with one field changed, and the ones the actions make
   of it.  What is told of each is what the invariants are about. *)

SaidType == [command : Commands, reply : {"OK", "REFUSED", "END"}]
SaidSeqs == Seq(SaidType)

LEMMA GenRecordsAre ==
  GenRecords =
    [process : {"alive", "dead"}, mode : {"none", "SETUP", "RECORDING", "PAUSED"},
     valid : BOOLEAN, lock : Threads \cup {"free"}, inbox : Seq(Commands),
     queue : SaidSeqs, ended : BOOLEAN, did : Commands]
  BY DEF GenRecords, SaidSeqs, SaidType

Same(v, w) == /\ v.process = w.process /\ v.valid = w.valid /\ v.mode = w.mode
              /\ v.inbox = w.inbox /\ v.queue = w.queue

LEMMA SetProcess ==
  ASSUME NEW w \in GenRecords, NEW p \in {"alive", "dead"}
  PROVE  [w EXCEPT !.process = p] \in GenRecords /\ [w EXCEPT !.process = p].process = p
  BY GenRecordsAre, SMT

LEMMA SetMode ==
  ASSUME NEW w \in GenRecords, NEW m \in {"none", "SETUP", "RECORDING", "PAUSED"}
  PROVE  LET v == [w EXCEPT !.mode = m] IN
         v \in GenRecords /\ v.mode = m /\ v.process = w.process /\ v.valid = w.valid
                          /\ v.inbox = w.inbox /\ v.queue = w.queue
  BY GenRecordsAre, SMT

LEMMA SetInbox ==
  ASSUME NEW w \in GenRecords, NEW s \in Seq(Commands)
  PROVE  LET v == [w EXCEPT !.inbox = s] IN
         v \in GenRecords /\ v.inbox = s /\ v.process = w.process /\ v.valid = w.valid
                          /\ v.mode = w.mode /\ v.queue = w.queue
  BY GenRecordsAre, SMT

LEMMA SetQueue ==
  ASSUME NEW w \in GenRecords, NEW q \in SaidSeqs
  PROVE  LET v == [w EXCEPT !.queue = q] IN
         v \in GenRecords /\ v.queue = q /\ v.process = w.process /\ v.valid = w.valid
                          /\ v.mode = w.mode /\ v.inbox = w.inbox
  BY GenRecordsAre, SMT

LEMMA SetRest ==
  ASSUME NEW w \in GenRecords
  PROVE  /\ \A th \in Threads \cup {"free"} :
              [w EXCEPT !.lock = th] \in GenRecords /\ Same([w EXCEPT !.lock = th], w)
         /\ \A c \in Commands :
              [w EXCEPT !.did = c] \in GenRecords /\ Same([w EXCEPT !.did = c], w)
         /\ \A b \in BOOLEAN :
              /\ [w EXCEPT !.ended = b] \in GenRecords
              /\ [w EXCEPT !.ended = b].process = w.process
              /\ [w EXCEPT !.valid = b] \in GenRecords
              /\ [w EXCEPT !.valid = b].process = w.process
<1>1. ASSUME NEW th \in Threads \cup {"free"}
      PROVE  [w EXCEPT !.lock = th] \in GenRecords /\ Same([w EXCEPT !.lock = th], w)
  BY GenRecordsAre, SMT DEF Same
<1>2. ASSUME NEW c \in Commands
      PROVE  [w EXCEPT !.did = c] \in GenRecords /\ Same([w EXCEPT !.did = c], w)
  BY GenRecordsAre, SMT DEF Same
<1>3. ASSUME NEW b \in BOOLEAN
      PROVE  /\ [w EXCEPT !.ended = b] \in GenRecords
             /\ [w EXCEPT !.ended = b].process = w.process
             /\ [w EXCEPT !.valid = b] \in GenRecords
             /\ [w EXCEPT !.valid = b].process = w.process
  <2>1. [w EXCEPT !.ended = b] \in GenRecords /\ [w EXCEPT !.valid = b] \in GenRecords
    BY GenRecordsAre, SMT
  <2>2. /\ [w EXCEPT !.ended = b].process = w.process
        /\ [w EXCEPT !.valid = b].process = w.process
    BY GenRecordsAre, SMT
  <2> QED  BY <2>1, <2>2
<1> QED  BY <1>1, <1>2, <1>3

(* The lock of a generation, and what it did last. *)

Rest(v, w)  == v.lock = w.lock /\ v.did = w.did
Boxes(v, w) == v.inbox = w.inbox /\ v.queue = w.queue

LEMMA SetOthers ==
  ASSUME NEW w \in GenRecords
  PROVE  /\ \A p \in {"alive", "dead"} :
              Rest([w EXCEPT !.process = p], w) /\ Boxes([w EXCEPT !.process = p], w)
         /\ \A m \in {"none", "SETUP", "RECORDING", "PAUSED"} : Rest([w EXCEPT !.mode = m], w)
         /\ \A s \in Seq(Commands) : Rest([w EXCEPT !.inbox = s], w)
         /\ \A q \in SaidSeqs : Rest([w EXCEPT !.queue = q], w)
<1>1. ASSUME NEW p \in {"alive", "dead"}
      PROVE  Rest([w EXCEPT !.process = p], w) /\ Boxes([w EXCEPT !.process = p], w)
  BY GenRecordsAre, SMT DEF Rest, Boxes
<1>2. ASSUME NEW m \in {"none", "SETUP", "RECORDING", "PAUSED"}
      PROVE  Rest([w EXCEPT !.mode = m], w)
  BY GenRecordsAre, SMT DEF Rest
<1>3. ASSUME NEW s \in Seq(Commands) PROVE Rest([w EXCEPT !.inbox = s], w)
  BY GenRecordsAre, SMT DEF Rest
<1>4. ASSUME NEW q \in SaidSeqs PROVE Rest([w EXCEPT !.queue = q], w)
  BY GenRecordsAre, SMT DEF Rest
<1> QED  BY <1>1, <1>2, <1>3, <1>4

LEMMA SetFlags ==
  ASSUME NEW w \in GenRecords, NEW b \in BOOLEAN
  PROVE  /\ Rest([w EXCEPT !.ended = b], w) /\ Boxes([w EXCEPT !.ended = b], w)
         /\ Rest([w EXCEPT !.valid = b], w) /\ Boxes([w EXCEPT !.valid = b], w)
<1>1. Rest([w EXCEPT !.ended = b], w) /\ Boxes([w EXCEPT !.ended = b], w)
  BY GenRecordsAre, SMT DEF Rest, Boxes
<1>2. Rest([w EXCEPT !.valid = b], w) /\ Boxes([w EXCEPT !.valid = b], w)
  BY GenRecordsAre, SMT DEF Rest, Boxes
<1> QED  BY <1>1, <1>2

LEMMA SetCall ==
  ASSUME NEW w \in GenRecords
  PROVE  /\ \A th \in Threads \cup {"free"} :
              /\ [w EXCEPT !.lock = th].lock = th /\ [w EXCEPT !.lock = th].did = w.did
         /\ \A c \in Commands :
              /\ [w EXCEPT !.did = c].did = c /\ [w EXCEPT !.did = c].lock = w.lock
<1>1. ASSUME NEW th \in Threads \cup {"free"}
      PROVE  [w EXCEPT !.lock = th].lock = th /\ [w EXCEPT !.lock = th].did = w.did
  BY GenRecordsAre, SMT
<1>2. ASSUME NEW c \in Commands
      PROVE  [w EXCEPT !.did = c].did = c /\ [w EXCEPT !.did = c].lock = w.lock
  BY GenRecordsAre, SMT
<1> QED  BY <1>1, <1>2

LEMMA UnbornIs == Unborn \in GenRecords /\ Unborn.process = "dead"
<1>1. <<>> \in Seq(Commands) /\ <<>> \in SaidSeqs
  BY DEF SaidSeqs
<1>2. Unborn \in GenRecords
  BY <1>1, GenRecordsAre, Zenon DEF Unborn, Threads, Commands
<1> QED  BY <1>2, SMT DEF Unborn

LEMMA EndedIs ==
  ASSUME NEW w \in GenRecords
  PROVE  Ended(w) \in GenRecords /\ Ended(w).process = "dead"
<1> DEFINE a == [w EXCEPT !.process = "dead"]
           b == [a EXCEPT !.mode = "none"]
<1>1. a \in GenRecords /\ a.process = "dead"
  BY SetProcess
<1>2. Ended(w) = [b EXCEPT !.inbox = <<>>]
  BY Zenon DEF Ended
<1>3. b \in GenRecords /\ b.process = "dead"
  <2> HIDE DEF a
  <2> QED  BY <1>1, SetMode
<1>4. <<>> \in Seq(Commands)
  OBVIOUS
<1> HIDE DEF b
<1>5. [b EXCEPT !.inbox = <<>>] \in GenRecords /\ [b EXCEPT !.inbox = <<>>].process = "dead"
  BY <1>3, <1>4, SetInbox
<1> QED  BY <1>2, <1>5

LEMMA KilledIs ==
  ASSUME NEW w \in GenRecords
  PROVE  Killed(w) \in GenRecords /\ Killed(w).process = "dead"
<1> DEFINE a == Ended(w)
<1>1. a \in GenRecords /\ a.process = "dead"
  BY EndedIs
<1> HIDE DEF a
<1>2. Killed(w) = [a EXCEPT !.valid = FALSE]
  BY DEF Killed, a
<1> QED  BY <1>1, <1>2, SetRest

LEMMA EmptiedIs ==
  ASSUME NEW w \in GenRecords
  PROVE  Emptied(w) \in GenRecords /\ (Emptied(w).process = "alive" => w.process = "alive")
<1>1. <<>> \in SaidSeqs
  BY DEF SaidSeqs
<1> DEFINE v == [w EXCEPT !.queue = <<>>]
<1>2. v \in GenRecords /\ v.process = w.process
  BY <1>1, SetQueue
<1>3. Emptied(w) = Unborn \/ Emptied(w) = v
  BY Zenon DEF Emptied
<1> HIDE DEF v
<1> QED  BY <1>2, <1>3, UnbornIs
-----------------------------------------------------------------------------
(* What each action does to the generations. *)

(* Whoever lives has lived before, and was as it is now. *)
Fewer == /\ GenType'
         /\ \A h \in Gens : Alive(h)' => Alive(h) /\ Same(gen'[h], gen[h])

LEMMA OneFewer ==
  ASSUME GenType, NEW g \in Gens, NEW w \in GenRecords, gen' = [gen EXCEPT ![g] = w],
         w.process = "alive" => gen[g].process = "alive" /\ Same(w, gen[g])
  PROVE  Fewer
<1>1. GenType'
  BY Zenon DEF GenType
<1>2. ASSUME NEW h \in Gens, Alive(h)'
      PROVE  Alive(h) /\ Same(gen'[h], gen[h])
  <2>1. CASE h = g
    BY <1>2, <2>1, SMT DEF GenType, Alive
  <2>2. CASE h # g
    <3>1. gen'[h] = gen[h]
      BY <2>2, SMT DEF GenType
    <3> QED  BY <1>2, <3>1, SMT DEF Alive, Same
  <2> QED  BY <2>1, <2>2
<1> QED  BY <1>1, <1>2 DEF Fewer

LEMMA NoneFewer == ASSUME GenType, gen' = gen PROVE Fewer
  BY SMT DEF Fewer, GenType, Alive, Same

LEMMA KillFewer ==
  ASSUME GenType, NEW th \in Threads, Kill(th), hold[th] \in Gens \cup {NoGen}
  PROVE  Fewer /\ (hold[th] # NoGen => gen'[hold[th]].process = "dead")
<1>1. CASE hold[th] = NoGen
  BY <1>1, NoneFewer, Zenon DEF Kill
<1>2. CASE hold[th] # NoGen
  <2> DEFINE w == Killed(gen[hold[th]])
  <2>1. gen' = [gen EXCEPT ![hold[th]] = w]
    BY <1>2, Zenon DEF Kill
  <2>2. w \in GenRecords /\ w.process = "dead"
    BY <1>2, KilledIs, Zenon DEF GenType
  <2> HIDE DEF w
  <2>3. Fewer
    BY <1>2, <2>1, <2>2, OneFewer
  <2>4. gen'[hold[th]] = w
    BY <1>2, <2>1, Zenon DEF GenType
  <2> QED  BY <2>2, <2>3, <2>4
<1> QED  BY <1>1, <1>2

LEMMA ReapFewer ==
  ASSUME GenType, NEW th \in Threads, Reap(th), hold[th] \in Gens \cup {NoGen}
  PROVE  Fewer
<1>1. CASE hold[th] = NoGen \/ gen[hold[th]].process = "alive"
  BY <1>1, NoneFewer, Zenon DEF Reap
<1>2. CASE hold[th] # NoGen /\ gen[hold[th]].process # "alive"
  <2> DEFINE w == Emptied(gen[hold[th]])
  <2>1. gen' = [gen EXCEPT ![hold[th]] = w]
    BY <1>2, Zenon DEF Reap
  <2>2. w \in GenRecords /\ (w.process = "alive" => gen[hold[th]].process = "alive")
    BY <1>2, EmptiedIs, Zenon DEF GenType
  <2> HIDE DEF w
  <2> QED  BY <1>2, <2>1, <2>2, OneFewer, Zenon DEF Alive
<1> QED  BY <1>1, <1>2

LEMMA DieFewer == ASSUME GenType, NEW g \in Gens, Die(g) PROVE Fewer
<1> DEFINE w == Ended(gen[g])
<1>1. gen' = [gen EXCEPT ![g] = w]
  BY Zenon DEF Die
<1>2. w \in GenRecords /\ w.process = "dead"
  BY EndedIs, Zenon DEF GenType
<1> HIDE DEF w
<1> QED  BY <1>1, <1>2, OneFewer

LEMMA ENDIs == END \in SaidType
  BY SMT DEF END, SaidType, Commands

LEMMA EndOfStreamFewer == ASSUME GenType, NEW g \in Gens, EndOfStream(g) PROVE Fewer
<1> DEFINE q == Append(gen[g].queue, END)
           v == [gen[g] EXCEPT !.queue = q]
           w == [v EXCEPT !.ended = TRUE]
<1>1. gen' = [gen EXCEPT ![g] = w]
  BY Zenon DEF EndOfStream
<1>2. q \in SaidSeqs
  <2>1. gen[g].queue \in SaidSeqs
    BY GenRecordsAre, SMT DEF GenType
  <2> QED  BY <2>1, ENDIs DEF SaidSeqs
<1>3. v \in GenRecords /\ v.process = "dead"
  <2>1. gen[g] \in GenRecords /\ gen[g].process = "dead"
    BY SMT DEF GenType, EndOfStream
  <2> HIDE DEF q
  <2> QED  BY <1>2, <2>1, SetQueue
<1>4. w \in GenRecords /\ w.process = "dead"
  <2> HIDE DEF v
  <2> QED  BY <1>3, SetRest
<1> HIDE DEF w
<1> QED  BY <1>1, <1>4, OneFewer

LEMMA ExitFewer == ASSUME GenType, Exit PROVE Fewer
<1>1. gen' = [g \in Gens |-> Unborn]
  BY Zenon DEF Exit
<1> QED  BY <1>1, UnbornIs, SMT DEF Fewer, GenType, Alive

(* A call that returns: the queue is left as `rest`. *)
LEMMA ReturnsLeaves ==
  ASSUME GenType, NEW th \in Threads, NEW reply, NEW rest \in SaidSeqs,
         asked[th].gen \in Gens, Returns(th, reply, rest)
  PROVE  /\ GenType'
         /\ \A h \in Gens : Alive(h)' =>
              /\ Alive(h) /\ gen'[h].valid = gen[h].valid
              /\ gen'[h].mode = gen[h].mode /\ gen'[h].inbox = gen[h].inbox
              /\ gen'[h].queue = IF h = asked[th].gen THEN rest ELSE gen[h].queue
<1> DEFINE g == asked[th].gen
           u == [gen[g] EXCEPT !.queue = rest]
           v == [u EXCEPT !.lock = "free"]
           w == [v EXCEPT !.did = "none"]
<1>1. gen[g] \in GenRecords
  BY DEF GenType
<1>2. /\ u \in GenRecords /\ u.queue = rest /\ u.process = gen[g].process
      /\ u.valid = gen[g].valid /\ u.mode = gen[g].mode /\ u.inbox = gen[g].inbox
  BY <1>1, SetQueue
<1>3. w \in GenRecords /\ Same(w, u)
  <2>1. v \in GenRecords /\ Same(v, u)
    <3> HIDE DEF u
    <3> QED  BY <1>2, SetRest
  <2>2. w \in GenRecords /\ Same(w, v)
    <3> HIDE DEF u, v
    <3> QED  BY <2>1, SetRest DEF Commands
  <2> HIDE DEF v, w
  <2> QED  BY <2>1, <2>2, Zenon DEF Same
<1>4. gen' = [gen EXCEPT ![g] = w] \/ gen' = [gen EXCEPT ![g] = Unborn]
  BY Zenon DEF Returns
<1> HIDE DEF w, v, u
<1>5. GenType'
  BY <1>3, <1>4, UnbornIs, Zenon DEF GenType
<1>6. ASSUME NEW h \in Gens, Alive(h)'
      PROVE  /\ Alive(h) /\ gen'[h].valid = gen[h].valid
             /\ gen'[h].mode = gen[h].mode /\ gen'[h].inbox = gen[h].inbox
             /\ gen'[h].queue = IF h = g THEN rest ELSE gen[h].queue
  <2>1. CASE h # g
    <3>1. gen'[h] = gen[h]
      BY <1>4, <2>1, SMT DEF GenType
    <3> QED  BY <1>6, <2>1, <3>1, Zenon DEF Alive
  <2>2. CASE h = g
    <3>1. gen'[g] = w \/ gen'[g] = Unborn
      BY <1>4, Zenon DEF GenType
    <3>2. gen'[g] = w
      BY <1>6, <2>2, <3>1, UnbornIs, SMT DEF Alive
    <3> QED  BY <1>2, <1>3, <1>6, <2>2, <3>2, Zenon DEF Alive, Same
  <2> QED  BY <2>1, <2>2
<1> QED  BY <1>5, <1>6, Zenon

LEMMA TimeOutFewer ==
  ASSUME GenType, NEW th \in Threads, asked[th].gen \in Gens, TimeOut(th)
  PROVE  Fewer
<1> DEFINE q == gen[asked[th].gen].queue
<1>1. Returns(th, "ERROR", q)
  BY Zenon DEF TimeOut
<1>2. q \in SaidSeqs
  BY GenRecordsAre, SMT DEF GenType
<1> HIDE DEF q
<1>3. /\ GenType'
      /\ \A h \in Gens : Alive(h)' =>
           /\ Alive(h) /\ gen'[h].valid = gen[h].valid
           /\ gen'[h].mode = gen[h].mode /\ gen'[h].inbox = gen[h].inbox
           /\ gen'[h].queue = IF h = asked[th].gen THEN q ELSE gen[h].queue
  BY <1>1, <1>2, ReturnsLeaves
<1>4. ASSUME NEW h \in Gens, Alive(h)'
      PROVE  Alive(h) /\ Same(gen'[h], gen[h])
  <2>1. gen'[h].process = gen[h].process
    BY <1>3, <1>4, Zenon DEF Alive
  <2> QED  BY <1>3, <1>4, <2>1, Zenon DEF Same, q
<1> QED  BY <1>3, <1>4, Zenon DEF Fewer
(* A reply taken: the one at the head is gone, and is what the call returns
   if it is the call's. *)
LEMMA TakeReplyLeaves ==
  ASSUME GenType, NEW th \in Threads, asked[th].gen \in Gens, TakeReply(th)
  PROVE  /\ GenType'
         /\ gen[asked[th].gen].queue \in SaidSeqs /\ gen[asked[th].gen].queue # <<>>
         /\ \A h \in Gens : Alive(h)' =>
              /\ Alive(h) /\ gen'[h].valid = gen[h].valid
              /\ gen'[h].mode = gen[h].mode /\ gen'[h].inbox = gen[h].inbox
              /\ gen'[h].queue = IF h = asked[th].gen THEN Tail(gen[h].queue)
                                 ELSE gen[h].queue
<1> DEFINE g == asked[th].gen
           head == Head(gen[g].queue)
           rest == Tail(gen[g].queue)
<1>1. gen[g] \in GenRecords /\ gen[g].queue \in SaidSeqs
  BY GenRecordsAre, SMT DEF GenType
<1>2. gen[g].queue # <<>>
  BY Zenon DEF TakeReply
<1>3. rest \in SaidSeqs
  BY <1>1, <1>2, SMT DEF SaidSeqs
<1>4. \/ Returns(th, "ERROR", rest) \/ Returns(th, head.reply, rest)
      \/ gen' = [gen EXCEPT ![g].queue = rest]
  BY Zenon DEF TakeReply
<1>5. CASE Returns(th, "ERROR", rest) \/ Returns(th, head.reply, rest)
  <2> HIDE DEF head, rest
  <2>1. /\ GenType'
        /\ \A h \in Gens : Alive(h)' =>
             /\ Alive(h) /\ gen'[h].valid = gen[h].valid
             /\ gen'[h].mode = gen[h].mode /\ gen'[h].inbox = gen[h].inbox
             /\ gen'[h].queue = IF h = asked[th].gen THEN rest ELSE gen[h].queue
    BY <1>3, <1>5, ReturnsLeaves
  <2> QED  BY <1>1, <1>2, <2>1, Zenon DEF rest
<1>6. CASE gen' = [gen EXCEPT ![g].queue = rest]
  <2> DEFINE w == [gen[g] EXCEPT !.queue = rest]
  <2>1. gen' = [gen EXCEPT ![g] = w]
    BY <1>6, Zenon
  <2>2. /\ w \in GenRecords /\ w.queue = rest /\ w.process = gen[g].process
        /\ w.valid = gen[g].valid /\ w.mode = gen[g].mode /\ w.inbox = gen[g].inbox
    <3> HIDE DEF rest
    <3> QED  BY <1>1, <1>3, SetQueue
  <2> HIDE DEF w, rest
  <2>3. GenType'
    BY <2>1, <2>2, Zenon DEF GenType
  <2>4. ASSUME NEW h \in Gens, Alive(h)'
        PROVE  /\ Alive(h) /\ gen'[h].valid = gen[h].valid
               /\ gen'[h].mode = gen[h].mode /\ gen'[h].inbox = gen[h].inbox
               /\ gen'[h].queue = IF h = g THEN rest ELSE gen[h].queue
    <3>1. CASE h = g
      <4>1. gen'[h] = w
        BY <2>1, <3>1, Zenon DEF GenType
      <4> QED  BY <2>2, <2>4, <3>1, <4>1, Zenon DEF Alive
    <3>2. CASE h # g
      <4>1. gen'[h] = gen[h]
        BY <2>1, <3>2, SMT DEF GenType
      <4> QED  BY <2>4, <3>2, <4>1, Zenon DEF Alive
    <3> QED  BY <3>1, <3>2
  <2> QED  BY <1>1, <1>2, <2>3, <2>4, Zenon DEF rest
<1> QED  BY <1>4, <1>5, <1>6

(* A request sent: it is the last of the inbox. *)
Sent(g, c) ==
  /\ GenType'
  /\ \A h \in Gens :
       /\ gen'[h].process = gen[h].process /\ gen'[h].valid = gen[h].valid
       /\ gen'[h].mode = gen[h].mode /\ gen'[h].queue = gen[h].queue
       /\ gen'[h].inbox = IF h = g THEN Append(gen[h].inbox, c) ELSE gen[h].inbox

LEMMA RequestSends ==
  ASSUME GenType, NEW th \in Threads, NEW g \in Gens, NEW c \in Commands,
         Request(th, g, c)
  PROVE  \/ /\ gen' = gen /\ asked' = asked
            /\ pc' = [pc EXCEPT ![th] = AfterReply(th, c, "ERROR")]
         \/ /\ Sent(g, c)
            /\ asked' = [asked EXCEPT ![th] = [gen |-> g, command |-> c]]
            /\ pc' = [pc EXCEPT ![th] = "wait"]
<1>1. CASE gen[g].lock # "free" \/ ~Usable(g)
  BY <1>1, Zenon DEF Request, Goto
<1>2. CASE ~(gen[g].lock # "free" \/ ~Usable(g))
  <2> DEFINE a == [gen[g] EXCEPT !.lock = th]
             b == [a EXCEPT !.did = "none"]
             s == Append(gen[g].inbox, c)
             w == [b EXCEPT !.inbox = s]
  <2>0. gen[g] \in GenRecords
    BY DEF GenType
  <2>1. gen' = [gen EXCEPT ![g] = w]
    <3>1. gen' = [gen EXCEPT ![g].lock = th, ![g].did = "none",
                             ![g].inbox = Append(@, c)]
      BY <1>2, Zenon DEF Request
    <3>2. a.inbox = gen[g].inbox /\ b.inbox = gen[g].inbox
      <4>1. a \in GenRecords /\ a.inbox = gen[g].inbox
        BY <2>0, SetRest, Zenon DEF Same
      <4> HIDE DEF a
      <4> QED  BY <4>1, SetRest, Zenon DEF Same, Commands
    <3>3. [gen EXCEPT ![g].lock = th, ![g].did = "none", ![g].inbox = Append(@, c)]
            = [gen EXCEPT ![g] = [b EXCEPT !.inbox = Append(@, c)]]
      BY Zenon DEF GenType
    <3> QED  BY <3>1, <3>2, <3>3, Zenon
  <2>2. a \in GenRecords /\ Same(a, gen[g])
    BY <2>0, SetRest
  <2>3. b \in GenRecords /\ Same(b, gen[g])
    <3> HIDE DEF a
    <3>1. b \in GenRecords /\ Same(b, a)
      BY <2>2, SetRest DEF Commands
    <3> QED  BY <2>2, <3>1, Zenon DEF Same
  <2>4. s \in Seq(Commands)
    <3>1. gen[g].inbox \in Seq(Commands)
      BY <2>0, GenRecordsAre, SMT
    <3> QED  BY <3>1
  <2>5. /\ w \in GenRecords /\ w.inbox = s /\ w.process = b.process
        /\ w.valid = b.valid /\ w.mode = b.mode /\ w.queue = b.queue
    <3> HIDE DEF a, b, s
    <3> QED  BY <2>3, <2>4, SetInbox
  <2> HIDE DEF a, b, w
  <2>6. GenType'
    BY <2>1, <2>5, Zenon DEF GenType
  <2>7. ASSUME NEW h \in Gens
        PROVE  /\ gen'[h].process = gen[h].process /\ gen'[h].valid = gen[h].valid
               /\ gen'[h].mode = gen[h].mode /\ gen'[h].queue = gen[h].queue
               /\ gen'[h].inbox = IF h = g THEN Append(gen[h].inbox, c) ELSE gen[h].inbox
    <3>1. CASE h = g
      <4>1. gen'[h] = w
        BY <2>1, <3>1, Zenon DEF GenType
      <4> QED  BY <2>3, <2>5, <3>1, <4>1, Zenon DEF Same
    <3>2. CASE h # g
      <4>1. gen'[h] = gen[h]
        BY <2>1, <3>2, SMT DEF GenType
      <4> QED  BY <3>2, <4>1, Zenon
    <3> QED  BY <3>1, <3>2
  <2>8. Sent(g, c)
    BY <2>6, <2>7, Zenon DEF Sent
  <2>9. /\ asked' = [asked EXCEPT ![th] = [gen |-> g, command |-> c]]
        /\ pc' = [pc EXCEPT ![th] = "wait"]
    BY <1>2, Zenon DEF Request, Goto
  <2> QED  BY <2>8, <2>9
<1> QED  BY <1>1, <1>2

(* A generation chosen: it was nobody's, and is not launched yet. *)
Chosen(th, g) ==
  /\ Fewer
  /\ g \in Gens /\ g # worker /\ ~Alive(g) /\ gen'[g] = Unborn
  /\ \A t \in Threads : g # asked[t].gen /\ g # hold[t]
  /\ \A h \in Gens : h # g => gen'[h] = gen[h]
  /\ worker' = g
  /\ asked' = [asked EXCEPT ![th] = [gen |-> g, command |-> "INIT"]]
  /\ pc' = [pc EXCEPT ![th] = "launch"]

LEMMA SpawnChooses ==
  ASSUME GenType, NEW th \in Threads, Spawn(th)
  PROVE  \E g \in Gens : Chosen(th, g)
<1> DEFINE g == CHOOSE g \in Unused : TRUE
<1>1. g \in Unused
  BY Zenon DEF Spawn
<1>2. /\ worker' = g /\ gen' = [gen EXCEPT ![g] = Unborn]
      /\ asked' = [asked EXCEPT ![th] = [gen |-> g, command |-> "INIT"]]
      /\ pc' = [pc EXCEPT ![th] = "launch"]
  BY Zenon DEF Spawn, Goto
<1> HIDE DEF g
<1>3. /\ g \in Gens /\ g # worker /\ gen[g].process = "dead"
      /\ \A t \in Threads : g # asked[t].gen /\ g # hold[t]
  BY <1>1, Zenon DEF Unused
<1>4. ~Alive(g)
  BY <1>3, SMT DEF Alive
<1>5. gen'[g] = Unborn
  BY <1>2, <1>3, Zenon DEF GenType
<1>6. \A h \in Gens : h # g => gen'[h] = gen[h]
  BY <1>2, SMT DEF GenType
<1>7. Fewer
  <2>1. Unborn \in GenRecords /\ ~(Unborn.process = "alive")
    BY UnbornIs, SMT
  <2> QED  BY <1>2, <1>3, <2>1, OneFewer, Zenon
<1> QED  BY <1>2, <1>3, <1>4, <1>5, <1>6, <1>7, Zenon DEF Chosen

(* A generation born: it was chosen before, and lives with INIT before it. *)
Born(th, g) ==
  /\ GenType'
  /\ g \in Gens /\ g = asked[th].gen /\ ~Alive(g)
  /\ gen'[g].process = "alive" /\ gen'[g].valid = TRUE /\ gen'[g].mode = Restored
  /\ gen'[g].inbox = <<"INIT">> /\ gen'[g].queue = <<>>
  /\ \A h \in Gens : h # g => gen'[h] = gen[h]
  /\ worker' = worker /\ asked' = asked
  /\ pc' = [pc EXCEPT ![th] = "wait"]

LEMMA LaunchBears ==
  ASSUME GenType, NEW th \in Threads, NEW g \in Gens, g = asked[th].gen, ~Alive(g),
         Launch(th)
  PROVE  Born(th, g)
<1> DEFINE a == [Spawned EXCEPT !.lock = th]
           w == [a EXCEPT !.inbox = <<"INIT">>]
<1>1. /\ gen' = [gen EXCEPT ![g] = [Spawned EXCEPT !.lock = th, !.inbox = <<"INIT">>]]
      /\ worker' = worker /\ asked' = asked
      /\ pc' = [pc EXCEPT ![th] = "wait"]
  BY Zenon DEF Launch, Goto
<1>2. [Spawned EXCEPT !.lock = th, !.inbox = <<"INIT">>] = w
  BY Zenon
<1>3. /\ Spawned \in GenRecords /\ Spawned.process = "alive" /\ Spawned.valid = TRUE
      /\ Spawned.mode = Restored /\ Spawned.queue = <<>>
  <2>1. <<>> \in Seq(Commands) /\ <<>> \in SaidSeqs
    BY DEF SaidSeqs
  <2>2. Restored \in {"none", "SETUP", "RECORDING", "PAUSED"}
    BY SMT DEF Restored
  <2> HIDE DEF a, w
  <2>3. Spawned \in GenRecords
    BY <2>1, <2>2, GenRecordsAre, Zenon DEF Spawned, Threads, Commands
  <2>4. Spawned.process = "alive" /\ Spawned.valid = TRUE
        /\ Spawned.mode = Restored /\ Spawned.queue = <<>>
    BY Zenon DEF Spawned
  <2> QED  BY <2>3, <2>4
<1>4. a \in GenRecords /\ Same(a, Spawned)
  BY <1>3, SetRest
<1>5. /\ w \in GenRecords /\ w.inbox = <<"INIT">> /\ w.process = a.process
      /\ w.valid = a.valid /\ w.mode = a.mode /\ w.queue = a.queue
  <2>1. <<"INIT">> \in Seq(Commands)
    BY DEF Commands
  <2> HIDE DEF a
  <2> QED  BY <1>4, <2>1, SetInbox
<1> HIDE DEF a, w
<1>6. gen' = [gen EXCEPT ![g] = w]
  BY <1>1, <1>2
<1>7. GenType' /\ gen'[g] = w /\ \A h \in Gens : h # g => gen'[h] = gen[h]
  <2>1. GenType' /\ gen'[g] = w
    BY <1>5, <1>6, Zenon DEF GenType
  <2>2. ASSUME NEW h \in Gens, h # g PROVE gen'[h] = gen[h]
    BY <1>6, <2>2, SMT DEF GenType
  <2> QED  BY <2>1, <2>2
<1>8. /\ gen'[g].process = "alive" /\ gen'[g].valid = TRUE /\ gen'[g].mode = Restored
      /\ gen'[g].inbox = <<"INIT">> /\ gen'[g].queue = <<>>
  BY <1>3, <1>4, <1>5, <1>7, Zenon DEF Same
<1> QED  BY <1>1, <1>7, <1>8, Zenon DEF Born

(* A command served: it leaves the inbox for the queue. *)
Served(g, c, reply) ==
  /\ GenType' /\ Alive(g)
  /\ gen[g].inbox \in Seq(Commands) /\ gen[g].inbox # <<>> /\ c = Head(gen[g].inbox)
  /\ gen[g].queue \in SaidSeqs
  /\ \A h \in Gens : Alive(h)' =>
       /\ Alive(h) /\ gen'[h].valid = gen[h].valid
       /\ h # g => Same(gen'[h], gen[h])
       /\ h = g => /\ gen'[h].inbox = Tail(gen[h].inbox)
                   /\ gen'[h].mode = ModeAfter(gen[h].mode, c)
                   /\ gen'[h].queue = Append(gen[h].queue, [command |-> c, reply |-> reply])

LEMMA ModeAfterIs ==
  ASSUME NEW m, NEW c
  PROVE  /\ m \in {"none", "SETUP", "RECORDING", "PAUSED"}
              => ModeAfter(m, c) \in {"none", "SETUP", "RECORDING", "PAUSED"}
         /\ ModeAfter(m, c) = "RECORDING" => m = "RECORDING" \/ c = "RESUME"
         /\ c = "PAUSE" => ModeAfter(m, c) # "RECORDING"
<1>1. ModeAfter(m, c) \in {m, "PAUSED", "RECORDING", "SETUP"}
  BY Zenon DEF ModeAfter
<1>2. CASE ~Legal(m, c)
  <2>1. ModeAfter(m, c) = m
    BY <1>2, Zenon DEF ModeAfter
  <2>2. c = "PAUSE" => m # "RECORDING"
    BY <1>2, Zenon DEF Legal
  <2> QED  BY <2>1, <2>2
<1>3. CASE Legal(m, c)
  <2>1. CASE c = "PAUSE"
    <3>1. ModeAfter(m, c) = "PAUSED"
      BY <1>3, <2>1, SMT DEF ModeAfter
    <3> QED  BY <2>1, <3>1, SMT
  <2>2. CASE c = "RESUME"
    BY <1>1, <2>2, SMT
  <2>3. CASE c = "STOP"
    <3>1. ModeAfter(m, c) = "SETUP"
      BY <1>3, <2>3, SMT DEF ModeAfter
    <3> QED  BY <2>3, <3>1, SMT
  <2>4. CASE c \notin {"PAUSE", "RESUME", "STOP"}
    <3>1. ModeAfter(m, c) = m
      BY <1>3, <2>4, SMT DEF ModeAfter
    <3> QED  BY <2>4, <3>1, SMT
  <2> QED  BY <2>1, <2>2, <2>3, <2>4
<1> QED  BY <1>2, <1>3

(* The generation that has served c and said so; after SHUTDOWN it ends. *)
Serving(g, c, reply, said) ==
  /\ said.process = "alive" /\ said.valid = gen[g].valid
  /\ said.inbox = Tail(gen[g].inbox) /\ said.mode = ModeAfter(gen[g].mode, c)
  /\ said.queue = Append(gen[g].queue, [command |-> c, reply |-> reply])
  /\ said.lock = gen[g].lock /\ said.did = c

LEMMA ServeMakes ==
  ASSUME GenType, NEW g \in Gens, Serve(g)
  PROVE  /\ Alive(g) /\ gen[g].inbox \in Seq(Commands) /\ gen[g].inbox # <<>>
         /\ gen[g].queue \in SaidSeqs
         /\ \E c \in Commands, reply \in {"OK", "REFUSED"}, said \in GenRecords :
              /\ c = Head(gen[g].inbox) /\ Serving(g, c, reply, said)
              /\ \/ gen' = [gen EXCEPT ![g] = Ended(said)]
                 \/ gen' = [gen EXCEPT ![g] = said]
<1> DEFINE c == Head(gen[g].inbox)
           tail == Tail(gen[g].inbox)
           m == ModeAfter(gen[g].mode, c)
           w0 == [gen[g] EXCEPT !.inbox = Tail(@), !.did = c, !.mode = ModeAfter(@, c)]
<1>0. /\ gen[g] \in GenRecords /\ gen[g].process = "alive"
      /\ gen[g].inbox \in Seq(Commands) /\ gen[g].inbox # <<>>
      /\ gen[g].queue \in SaidSeqs
      /\ gen[g].mode \in {"none", "SETUP", "RECORDING", "PAUSED"}
  <2>1. gen[g] \in GenRecords
    BY DEF GenType
  <2>2. /\ gen[g].inbox \in Seq(Commands) /\ gen[g].queue \in SaidSeqs
        /\ gen[g].mode \in {"none", "SETUP", "RECORDING", "PAUSED"}
    BY <2>1, GenRecordsAre, SMT
  <2>3. gen[g].process = "alive" /\ gen[g].inbox # <<>>
    BY Zenon DEF Serve
  <2> QED  BY <2>1, <2>2, <2>3
<1>1. c \in Commands /\ tail \in Seq(Commands)
  BY <1>0
<1>2. m \in {"none", "SETUP", "RECORDING", "PAUSED"}
  BY <1>0, ModeAfterIs
<1>3. PICK reply \in Replies(gen[g].mode, c) :
        gen' = [gen EXCEPT ![g] =
                  IF c = "SHUTDOWN"
                  THEN Ended([w0 EXCEPT !.queue = Append(@, [command |-> c, reply |-> reply])])
                  ELSE [w0 EXCEPT !.queue = Append(@, [command |-> c, reply |-> reply])]]
  BY Zenon DEF Serve
<1>4. reply \in {"OK", "REFUSED"}
  <2> HIDE DEF c, w0
  <2> QED  BY <1>3, Zenon DEF Replies
<1>5. /\ w0 \in GenRecords /\ w0.process = "alive" /\ w0.valid = gen[g].valid
      /\ w0.inbox = tail /\ w0.mode = m /\ w0.queue = gen[g].queue
      /\ w0.lock = gen[g].lock /\ w0.did = c
  <2> DEFINE w1 == [gen[g] EXCEPT !.inbox = tail]
             w2 == [w1 EXCEPT !.did = c]
             w3 == [w2 EXCEPT !.mode = m]
  <2>1. /\ w1 \in GenRecords /\ w1.inbox = tail /\ w1.process = "alive"
        /\ w1.valid = gen[g].valid /\ w1.mode = gen[g].mode /\ w1.queue = gen[g].queue
        /\ Rest(w1, gen[g])
    <3> HIDE DEF tail, c
    <3> QED  BY <1>0, <1>1, SetInbox, SetOthers
  <2>2. w2 \in GenRecords /\ Same(w2, w1) /\ w2.lock = w1.lock /\ w2.did = c
    <3> HIDE DEF w1, c
    <3> QED  BY <1>1, <2>1, SetRest, SetCall
  <2>3. /\ w3 \in GenRecords /\ w3.mode = m /\ w3.process = w2.process
        /\ w3.valid = w2.valid /\ w3.inbox = w2.inbox /\ w3.queue = w2.queue
        /\ Rest(w3, w2)
    <3> HIDE DEF w2, m
    <3> QED  BY <1>2, <2>2, SetMode, SetOthers
  <2>4. w0 = w3
    <3> HIDE DEF c
    <3>1. w0 = [w2 EXCEPT !.mode = ModeAfter(@, c)]
      BY Zenon
    <3>2. w2.mode = gen[g].mode
      BY <2>1, <2>2, Zenon DEF Same
    <3> HIDE DEF w2
    <3> QED  BY <3>1, <3>2
  <2> HIDE DEF w0, w1, w2, w3
  <2> QED  BY <2>1, <2>2, <2>3, <2>4, Zenon DEF Same, Rest
<1> DEFINE q == Append(gen[g].queue, [command |-> c, reply |-> reply])
           said == [w0 EXCEPT !.queue = q]
<1>6. gen' = [gen EXCEPT ![g] = Ended(said)] \/ gen' = [gen EXCEPT ![g] = said]
  <2> HIDE DEF c
  <2>1. [w0 EXCEPT !.queue = Append(@, [command |-> c, reply |-> reply])] = said
    <3> HIDE DEF w0
    <3> QED  BY <1>5
  <2> HIDE DEF w0, said
  <2> QED  BY <1>3, <2>1, Zenon
<1>7. /\ said \in GenRecords /\ said.queue = q /\ said.process = w0.process
      /\ said.valid = w0.valid /\ said.mode = w0.mode /\ said.inbox = w0.inbox
      /\ Rest(said, w0)
  <2>1. q \in SaidSeqs
    <3> HIDE DEF c
    <3>1. [command |-> c, reply |-> reply] \in SaidType
      BY <1>1, <1>4, SMT DEF SaidType
    <3> QED  BY <1>0, <3>1 DEF SaidSeqs
  <2> HIDE DEF w0, q
  <2> QED  BY <1>5, <2>1, SetQueue, SetOthers
<1> HIDE DEF w0, said
<1>8. Serving(g, c, reply, said)
  BY <1>5, <1>7, Zenon DEF Serving, Rest
<1> HIDE DEF c, tail, m, q
<1>9. Alive(g) /\ c = Head(gen[g].inbox)
  BY <1>0, Zenon DEF Alive, c
<1> QED  BY <1>0, <1>1, <1>4, <1>6, <1>7, <1>8, <1>9, Zenon

LEMMA ServeServes ==
  ASSUME GenType, NEW g \in Gens, Serve(g)
  PROVE  \E c \in Commands, reply \in {"OK", "REFUSED"} : Served(g, c, reply)
<1>0. /\ Alive(g) /\ gen[g].inbox \in Seq(Commands) /\ gen[g].inbox # <<>>
      /\ gen[g].queue \in SaidSeqs
  BY ServeMakes
<1>1. PICK c \in Commands, reply \in {"OK", "REFUSED"}, said \in GenRecords :
        /\ c = Head(gen[g].inbox) /\ Serving(g, c, reply, said)
        /\ gen' = [gen EXCEPT ![g] = Ended(said)] \/ gen' = [gen EXCEPT ![g] = said]
  BY ServeMakes
<1>2. Ended(said) \in GenRecords /\ Ended(said).process = "dead"
  BY EndedIs
<1>3. GenType'
  BY <1>1, <1>2, Zenon DEF GenType
<1>4. ASSUME NEW h \in Gens, Alive(h)'
      PROVE  /\ Alive(h) /\ gen'[h].valid = gen[h].valid
             /\ h # g => Same(gen'[h], gen[h])
             /\ h = g => /\ gen'[h].inbox = Tail(gen[h].inbox)
                         /\ gen'[h].mode = ModeAfter(gen[h].mode, c)
                         /\ gen'[h].queue = Append(gen[h].queue, [command |-> c, reply |-> reply])
  <2>1. CASE h # g
    <3>1. gen'[h] = gen[h]
      BY <1>1, <2>1, SMT DEF GenType
    <3> QED  BY <1>4, <2>1, <3>1, Zenon DEF Alive, Same
  <2>2. CASE h = g
    <3>1. gen'[g] = said \/ gen'[g] = Ended(said)
      BY <1>1, Zenon DEF GenType
    <3>2. gen'[g] = said
      BY <1>2, <1>4, <2>2, <3>1, SMT DEF Alive
    <3> QED  BY <1>0, <1>1, <2>2, <3>2, Zenon DEF Serving
  <2> QED  BY <2>1, <2>2
<1> QED  BY <1>0, <1>1, <1>3, <1>4, Zenon DEF Served
-----------------------------------------------------------------------------
(* WorkerInv is kept.  But for Launch, no step brings a generation to life. *)

NoBirth == /\ GenType'
           /\ \A h \in Gens : Alive(h)' => Alive(h) /\ gen'[h].valid = gen[h].valid

LEMMA FewerNoBirth == Fewer => NoBirth
  BY Zenon DEF Fewer, NoBirth, Same

LEMMA SentNoBirth == ASSUME NEW g, NEW c, Sent(g, c) PROVE NoBirth
  BY Zenon DEF Sent, NoBirth, Alive

LEMMA RequestNoBirth ==
  ASSUME GenType, NEW th \in Threads, NEW g \in Gens, NEW c \in Commands, Request(th, g, c)
  PROVE  NoBirth
  BY RequestSends, SentNoBirth, NoneFewer, FewerNoBirth

LEMMA TakeReplyNoBirth ==
  ASSUME GenType, NEW th \in Threads, asked[th].gen \in Gens, TakeReply(th)
  PROVE  NoBirth
  BY TakeReplyLeaves, Zenon DEF NoBirth

LEMMA ServeNoBirth == ASSUME GenType, NEW g \in Gens, Serve(g) PROVE NoBirth
<1>1. PICK c \in Commands, reply \in {"OK", "REFUSED"} : Served(g, c, reply)
  BY ServeServes
<1> QED  BY <1>1, Zenon DEF Served, NoBirth

LEMMA NoBirthLiving ==
  ASSUME GensInv, NoBirth
  PROVE  GensInv' /\ Living' \subseteq Living
<1>1. Living' \subseteq Living
  BY Zenon DEF NoBirth, Living
<1>2. GensInv'
  BY Zenon DEF NoBirth, GensInv
<1> QED  BY <1>1, <1>2

(* The scheduler's loop. *)
LEMMA LoopWorker ==
  ASSUME ControlInv, GensInv, HoldsInv, OnlyWorkerInv, Living' \subseteq Living,
         \/ Deadline
         \/ Dispatch
         \/ EndLoop
  PROVE  HoldsInv' /\ OnlyWorkerInv'
<1> USE DEF ControlInv, PlacesInv, QuietInv, HoldsInv, OnlyWorkerInv, TkWorks, Replaced,
            Restarted, Pausing, Resuming, Stopping, Waiting, Tearing, Tick, Tk, Threads, TickPlaces,
            TkPlaces, Goto, session, scheduler, known, local, client, Used
<1>1. CASE Deadline
  <2>1. HoldsInv'
    BY <1>1, SMT DEF Deadline
  <2>2. OnlyWorkerInv'
    BY <1>1, SMT DEF Deadline
  <2> QED  BY <2>1, <2>2
<1>2. CASE Dispatch
  <2>1. HoldsInv'
    BY <1>2, SMT DEF Dispatch, FreeToServe
  <2>2. OnlyWorkerInv'
    BY <1>2, SMT DEF Dispatch, FreeToServe
  <2> QED  BY <2>1, <2>2
<1>3. CASE EndLoop
  <2>1. HoldsInv'
    BY <1>3, SMT DEF EndLoop, LoopOver
  <2>2. OnlyWorkerInv'
    BY <1>3, SMT DEF EndLoop, LoopOver
  <2> QED  BY <2>1, <2>2
<1> QED  BY <1>1, <1>2, <1>3

(* The tick, but for its calls. *)
LEMMA TickWorker ==
  ASSUME ControlInv, GensInv, HoldsInv, OnlyWorkerInv, Living' \subseteq Living,
         \/ CheckState
         \/ Process
         \/ CaptureFailed
         \/ Decide
         \/ RestartFailed
         \/ PauseAfterRestart
         \/ OnPause
         \/ EndTick
  PROVE  HoldsInv' /\ OnlyWorkerInv'
<1> USE DEF ControlInv, PlacesInv, QuietInv, HoldsInv, OnlyWorkerInv, TkWorks, Replaced,
            Restarted, Pausing, Resuming, Stopping, Waiting, Tearing, Tick, Tk, Threads, TickPlaces,
            TkPlaces, Goto, session, scheduler, known, local, client, Used
<1>1. CASE CheckState
  <2>1. HoldsInv'
    BY <1>1, SMT DEF CheckState
  <2>2. OnlyWorkerInv'
    BY <1>1, SMT DEF CheckState
  <2> QED  BY <2>1, <2>2
<1>2. CASE Process
  <2>1. HoldsInv'
    BY <1>2, SMT DEF Process, AutoPause
  <2>2. OnlyWorkerInv'
    BY <1>2, SMT DEF Process, AutoPause
  <2> QED  BY <2>1, <2>2
<1>3. CASE CaptureFailed
  <2>1. HoldsInv'
    BY <1>3, SMT DEF CaptureFailed, Teardown
  <2>2. OnlyWorkerInv'
    BY <1>3, SMT DEF CaptureFailed, Teardown
  <2> QED  BY <2>1, <2>2
<1>4. CASE Decide
  <2>1. HoldsInv'
    BY <1>4, SMT DEF Decide, AutoPause
  <2>2. OnlyWorkerInv'
    BY <1>4, SMT DEF Decide, AutoPause
  <2> QED  BY <2>1, <2>2
<1>5. CASE RestartFailed
  <2>1. HoldsInv'
    BY <1>5, SMT DEF RestartFailed, Teardown
  <2>2. OnlyWorkerInv'
    BY <1>5, SMT DEF RestartFailed, Teardown
  <2> QED  BY <2>1, <2>2
<1>6. CASE PauseAfterRestart
  <2>1. HoldsInv'
    BY <1>6, SMT DEF PauseAfterRestart, AutoPause
  <2>2. OnlyWorkerInv'
    BY <1>6, SMT DEF PauseAfterRestart, AutoPause
  <2> QED  BY <2>1, <2>2
<1>7. CASE OnPause
  <2>1. HoldsInv'
    BY <1>7, SMT DEF OnPause, RunningAfterPause
  <2>2. OnlyWorkerInv'
    BY <1>7, SMT DEF OnPause, RunningAfterPause
  <2> QED  BY <2>1, <2>2
<1>8. CASE EndTick
  <2>1. HoldsInv'
    BY <1>8, SMT DEF EndTick
  <2>2. OnlyWorkerInv'
    BY <1>8, SMT DEF EndTick
  <2> QED  BY <2>1, <2>2
<1> QED  BY <1>1, <1>2, <1>3, <1>4, <1>5, <1>6, <1>7, <1>8

(* The handlers of the Tk thread, but for their calls. *)
LEMMA TkWorker ==
  ASSUME ControlInv, GensInv, HoldsInv, OnlyWorkerInv, Living' \subseteq Living,
         \/ ClickPause
         \/ Drain("drain_pause", "ask_pause")
         \/ PauseFailed
         \/ EndPause
         \/ ClickResume
         \/ Drain("drain_resume", "begin_resume")
         \/ BeginResume
         \/ ResumeFailed
         \/ EndResume
         \/ RestartScheduler
         \/ \E how \in {"ask_stop", "emergency", "close"} : ClickStop(how)
         \/ DrainStop
         \/ StopMachine
         \/ EmergencyStop
         \/ CloseWindow
         \/ Finalize
  PROVE  HoldsInv' /\ OnlyWorkerInv'
<1> USE DEF ControlInv, PlacesInv, QuietInv, HoldsInv, OnlyWorkerInv, TkWorks, Replaced,
            Restarted, Pausing, Resuming, Stopping, Waiting, Tearing, Tick, Tk, Threads, TickPlaces,
            TkPlaces, Goto, session, scheduler, known, local, client, Used
<1>1. CASE ClickPause
  <2>1. HoldsInv'
    BY <1>1, SMT DEF ClickPause
  <2>2. OnlyWorkerInv'
    BY <1>1, SMT DEF ClickPause
  <2> QED  BY <2>1, <2>2
<1>2. CASE Drain("drain_pause", "ask_pause")
  <2>1. HoldsInv'
    BY <1>2, SMT DEF Drain
  <2>2. OnlyWorkerInv'
    BY <1>2, SMT DEF Drain
  <2> QED  BY <2>1, <2>2
<1>3. CASE PauseFailed
  <2>1. HoldsInv'
    BY <1>3, SMT DEF PauseFailed, Teardown
  <2>2. OnlyWorkerInv'
    BY <1>3, SMT DEF PauseFailed, Teardown
  <2> QED  BY <2>1, <2>2
<1>4. CASE EndPause
  <2>1. HoldsInv'
    BY <1>4, SMT DEF EndPause
  <2>2. OnlyWorkerInv'
    BY <1>4, SMT DEF EndPause
  <2> QED  BY <2>1, <2>2
<1>5. CASE ClickResume
  <2>1. HoldsInv'
    BY <1>5, SMT DEF ClickResume
  <2>2. OnlyWorkerInv'
    BY <1>5, SMT DEF ClickResume
  <2> QED  BY <2>1, <2>2
<1>6. CASE Drain("drain_resume", "begin_resume")
  <2>1. HoldsInv'
    BY <1>6, SMT DEF Drain
  <2>2. OnlyWorkerInv'
    BY <1>6, SMT DEF Drain
  <2> QED  BY <2>1, <2>2
<1>7. CASE BeginResume
  <2>0. worker \in Living => worker # NoGen /\ Usable(worker)
    <3>1. worker \in Living => worker # NoGen
      BY ThreadsAssumption, Zenon DEF Living
    <3>2. worker \in Living => Usable(worker)
      BY Zenon DEF GensInv, Living, Alive, Usable
    <3> QED  BY <3>1, <3>2
  <2>1. HoldsInv'
    BY <1>7, <2>0, SMT DEF BeginResume
  <2>2. OnlyWorkerInv'
    BY <1>7, SMT DEF BeginResume
  <2> QED  BY <2>1, <2>2
<1>8. CASE ResumeFailed
  <2>1. HoldsInv'
    BY <1>8, SMT DEF ResumeFailed, Teardown
  <2>2. OnlyWorkerInv'
    BY <1>8, SMT DEF ResumeFailed, Teardown
  <2> QED  BY <2>1, <2>2
<1>9. CASE EndResume
  <2>1. HoldsInv'
    BY <1>9, SMT DEF EndResume
  <2>2. OnlyWorkerInv'
    BY <1>9, SMT DEF EndResume
  <2> QED  BY <2>1, <2>2
<1>10. CASE \E how \in {"ask_stop", "emergency", "close"} : ClickStop(how)
  <2>1. HoldsInv'
    BY <1>10, SMT DEF ClickStop
  <2>2. OnlyWorkerInv'
    BY <1>10, SMT DEF ClickStop
  <2> QED  BY <2>1, <2>2
<1>11. CASE DrainStop
  <2>1. HoldsInv'
    BY <1>11, SMT DEF DrainStop, Joined
  <2>2. OnlyWorkerInv'
    BY <1>11, SMT DEF DrainStop, Joined
  <2> QED  BY <2>1, <2>2
<1>12. CASE StopMachine
  <2>1. HoldsInv'
    BY <1>12, SMT DEF StopMachine
  <2>2. OnlyWorkerInv'
    BY <1>12, SMT DEF StopMachine
  <2> QED  BY <2>1, <2>2
<1>13. CASE EmergencyStop
  <2>1. HoldsInv'
    BY <1>13, SMT DEF EmergencyStop, Teardown
  <2>2. OnlyWorkerInv'
    BY <1>13, SMT DEF EmergencyStop, Teardown
  <2> QED  BY <2>1, <2>2
<1>14. CASE CloseWindow
  <2>1. HoldsInv'
    BY <1>14, SMT DEF CloseWindow, Teardown
  <2>2. OnlyWorkerInv'
    BY <1>14, SMT DEF CloseWindow, Teardown
  <2> QED  BY <2>1, <2>2
<1>15. CASE Finalize
  <2>1. HoldsInv'
    BY <1>15, SMT DEF Finalize
  <2>2. OnlyWorkerInv'
    BY <1>15, SMT DEF Finalize
  <2> QED  BY <2>1, <2>2
<1>16. CASE RestartScheduler
  <2>1. HoldsInv'
    BY <1>16, SMT DEF RestartScheduler
  <2>2. OnlyWorkerInv'
    BY <1>16, SMT DEF RestartScheduler
  <2> QED  BY <2>1, <2>2
<1> QED  BY <1>1, <1>2, <1>3, <1>4, <1>5, <1>6, <1>7, <1>8, <1>9, <1>10, <1>11, <1>12, <1>13, <1>14, <1>15, <1>16

(* The requests. *)
LEMMA RequestWorker ==
  ASSUME ControlInv, GensInv, HoldsInv, OnlyWorkerInv, Living' \subseteq Living,
         \/ Capture
         \/ AskPause
         \/ AskResume
         \/ AskStop
         \/ ShutDown
  PROVE  HoldsInv' /\ OnlyWorkerInv'
<1> USE DEF ControlInv, PlacesInv, QuietInv, HoldsInv, OnlyWorkerInv, TkWorks, Replaced,
            Restarted, Pausing, Resuming, Stopping, Waiting, Tearing, Tick, Tk, Threads, TickPlaces,
            TkPlaces, Goto, session, scheduler, known, local, client, Used
<1>0. worker # NoGen /\ gen[worker].process = "alive" => worker \in Living
  BY Zenon DEF Living, Alive
<1>1. CASE Capture
  <2>1. CASE Request("tick", worker, "CAPTURE") /\ worker # NoGen
    <3>1. HoldsInv'
      BY <1>0, <1>1, <2>1, RequestMoves, AfterReplies, SMT DEF Capture, Commands
    <3>2. OnlyWorkerInv'
      BY <1>0, <1>1, <2>1, RequestMoves, AfterReplies, SMT DEF Capture, Commands
    <3> QED  BY <3>1, <3>2
  <2>2. CASE ~(Request("tick", worker, "CAPTURE") /\ worker # NoGen)
    <3>1. HoldsInv'
      BY <1>1, <2>2, SMT DEF Capture
    <3>2. OnlyWorkerInv'
      BY <1>1, <2>2, SMT DEF Capture
    <3> QED  BY <3>1, <3>2
  <2> QED  BY <2>1, <2>2
<1>2. CASE AskPause
  <2>1. CASE Request("tk", worker, "PAUSE") /\ worker # NoGen
    <3>1. HoldsInv'
      BY <1>0, <1>2, <2>1, RequestMoves, AfterReplies, SMT DEF AskPause, Commands
    <3>2. OnlyWorkerInv'
      BY <1>0, <1>2, <2>1, RequestMoves, AfterReplies, SMT DEF AskPause, Commands
    <3> QED  BY <3>1, <3>2
  <2>2. CASE ~(Request("tk", worker, "PAUSE") /\ worker # NoGen)
    <3>1. HoldsInv'
      BY <1>2, <2>2, SMT DEF AskPause
    <3>2. OnlyWorkerInv'
      BY <1>2, <2>2, SMT DEF AskPause
    <3> QED  BY <3>1, <3>2
  <2> QED  BY <2>1, <2>2
<1>3. CASE AskResume
  <2>1. CASE Request("tk", worker, "RESUME") /\ worker # NoGen
    <3>1. HoldsInv'
      BY <1>0, <1>3, <2>1, RequestMoves, AfterReplies, SMT DEF AskResume, Commands
    <3>2. OnlyWorkerInv'
      BY <1>0, <1>3, <2>1, RequestMoves, AfterReplies, SMT DEF AskResume, Commands
    <3> QED  BY <3>1, <3>2
  <2>2. CASE ~(Request("tk", worker, "RESUME") /\ worker # NoGen)
    <3>1. HoldsInv'
      BY <1>3, <2>2, SMT DEF AskResume
    <3>2. OnlyWorkerInv'
      BY <1>3, <2>2, SMT DEF AskResume
    <3> QED  BY <3>1, <3>2
  <2> QED  BY <2>1, <2>2
<1>4. CASE AskStop
  <2>1. CASE Request("tk", worker, "STOP") /\ worker # NoGen
    <3>1. HoldsInv'
      BY <1>0, <1>4, <2>1, RequestMoves, AfterReplies, SMT DEF AskStop, Commands
    <3>2. OnlyWorkerInv'
      BY <1>0, <1>4, <2>1, RequestMoves, AfterReplies, SMT DEF AskStop, Commands
    <3> QED  BY <3>1, <3>2
  <2>2. CASE ~(Request("tk", worker, "STOP") /\ worker # NoGen)
    <3>1. HoldsInv'
      BY <1>4, <2>2, SMT DEF AskStop
    <3>2. OnlyWorkerInv'
      BY <1>4, <2>2, SMT DEF AskStop
    <3> QED  BY <3>1, <3>2
  <2> QED  BY <2>1, <2>2
<1>5. CASE ShutDown
  <2>1. CASE worker = NoGen
    <3>1. HoldsInv'
      BY <1>5, <2>1, SMT DEF ShutDown
    <3>2. OnlyWorkerInv'
      BY <1>5, <2>1, SMT DEF ShutDown
    <3> QED  BY <3>1, <3>2
  <2>2. CASE worker # NoGen
    <3>0. /\ Request("tk", worker, "SHUTDOWN")
          /\ hold' = [hold EXCEPT !["tk"] = worker]
      BY <1>5, <2>2, Zenon DEF ShutDown
    <3>1. HoldsInv'
      BY <1>0, <1>5, <2>2, <3>0, RequestMoves, AfterReplies, SMT DEF ShutDown, Commands
    <3>2. OnlyWorkerInv'
      BY <1>0, <1>5, <2>2, <3>0, RequestMoves, AfterReplies, SMT DEF ShutDown, Commands
    <3> QED  BY <3>1, <3>2
  <2> QED  BY <2>1, <2>2
<1> QED  BY <1>1, <1>2, <1>3, <1>4, <1>5

(* The returns. *)
LEMMA ReturnWorker ==
  ASSUME ControlInv, GensInv, HoldsInv, OnlyWorkerInv, Living' \subseteq Living,
         \/ TakeReply("tick")
         \/ TimeOut("tick")
         \/ TakeReply("tk")
         \/ TimeOut("tk")
  PROVE  HoldsInv' /\ OnlyWorkerInv'
<1> USE DEF ControlInv, PlacesInv, QuietInv, HoldsInv, OnlyWorkerInv, TkWorks, Replaced,
            Restarted, Pausing, Resuming, Stopping, Waiting, Tearing, Tick, Tk, Threads, TickPlaces,
            TkPlaces, Goto, session, scheduler, known, local, client, Used
<1>1. CASE TakeReply("tick")
  <2>1. /\ pc["tick"] = "wait"
        /\ UNCHANGED <<session, scheduler, known, local>>
    BY <1>1, TakeReplyMoves
  <2>2. CASE UNCHANGED <<pc, asked>>
    BY <2>1, <2>2, SMT
  <2>3. CASE \E reply : /\ pc' = [pc EXCEPT !["tick"] = AfterReply("tick", asked["tick"].command, reply)]
                        /\ asked' = [asked EXCEPT !["tick"] = NoAsk]
    <3>1. HoldsInv'
      BY <2>1, <2>3, AfterReplies, SMT DEF NoAsk, Commands
    <3>2. OnlyWorkerInv'
      BY <2>1, <2>3, AfterReplies, SMT DEF NoAsk, Commands
    <3> QED  BY <3>1, <3>2
  <2> QED  BY <1>1, <2>2, <2>3, TakeReplyMoves
<1>2. CASE TimeOut("tick")
  <2>1. /\ pc["tick"] = "wait"
        /\ UNCHANGED <<session, scheduler, known, local>>
    BY <1>2, TimeOutMoves
  <2>2. CASE UNCHANGED <<pc, asked>>
    BY <2>1, <2>2, SMT
  <2>3. CASE \E reply : /\ pc' = [pc EXCEPT !["tick"] = AfterReply("tick", asked["tick"].command, reply)]
                        /\ asked' = [asked EXCEPT !["tick"] = NoAsk]
    <3>1. HoldsInv'
      BY <2>1, <2>3, AfterReplies, SMT DEF NoAsk, Commands
    <3>2. OnlyWorkerInv'
      BY <2>1, <2>3, AfterReplies, SMT DEF NoAsk, Commands
    <3> QED  BY <3>1, <3>2
  <2> QED  BY <1>2, <2>2, <2>3, TimeOutMoves
<1>3. CASE TakeReply("tk")
  <2>1. /\ pc["tk"] = "wait"
        /\ UNCHANGED <<session, scheduler, known, local>>
    BY <1>3, TakeReplyMoves
  <2>2. CASE UNCHANGED <<pc, asked>>
    BY <2>1, <2>2, SMT
  <2>3. CASE \E reply : /\ pc' = [pc EXCEPT !["tk"] = AfterReply("tk", asked["tk"].command, reply)]
                        /\ asked' = [asked EXCEPT !["tk"] = NoAsk]
    <3>1. HoldsInv'
      BY <2>1, <2>3, AfterReplies, SMT DEF NoAsk, Commands
    <3>2. OnlyWorkerInv'
      BY <2>1, <2>3, AfterReplies, SMT DEF NoAsk, Commands
    <3> QED  BY <3>1, <3>2
  <2> QED  BY <1>3, <2>2, <2>3, TakeReplyMoves
<1>4. CASE TimeOut("tk")
  <2>1. /\ pc["tk"] = "wait"
        /\ UNCHANGED <<session, scheduler, known, local>>
    BY <1>4, TimeOutMoves
  <2>2. CASE UNCHANGED <<pc, asked>>
    BY <2>1, <2>2, SMT
  <2>3. CASE \E reply : /\ pc' = [pc EXCEPT !["tk"] = AfterReply("tk", asked["tk"].command, reply)]
                        /\ asked' = [asked EXCEPT !["tk"] = NoAsk]
    <3>1. HoldsInv'
      BY <2>1, <2>3, AfterReplies, SMT DEF NoAsk, Commands
    <3>2. OnlyWorkerInv'
      BY <2>1, <2>3, AfterReplies, SMT DEF NoAsk, Commands
    <3> QED  BY <3>1, <3>2
  <2> QED  BY <1>4, <2>2, <2>3, TimeOutMoves
<1> QED  BY <1>1, <1>2, <1>3, <1>4

(* The teardowns. *)
LEMMA TeardownWorker ==
  ASSUME ControlInv, GensInv, HoldsInv, OnlyWorkerInv, Living' \subseteq Living,
         \/ Kill("tick")
         \/ Kill("tk")
         \/ Reap("tick")
         \/ Reap("tk")
  PROVE  HoldsInv' /\ OnlyWorkerInv'
<1> USE DEF ControlInv, PlacesInv, QuietInv, HoldsInv, OnlyWorkerInv, TkWorks, Replaced,
            Restarted, Pausing, Resuming, Stopping, Waiting, Tearing, Tick, Tk, Threads, TickPlaces,
            TkPlaces, Goto, session, scheduler, known, local, client, Used
<1>1. CASE Kill("tick")
  <2>1. /\ pc["tick"] = "kill" /\ pc' = [pc EXCEPT !["tick"] = "reap"]
        /\ UNCHANGED <<session, scheduler, known, local, asked>>
    BY <1>1, Zenon DEF Kill
  <2>2. hold["tick"] \notin Living'
    <3>1. hold["tick"] # NoGen => gen'[hold["tick"]].process = "dead"
      BY <1>1, KillFewer, Zenon DEF GensInv
    <3> QED  BY <3>1, ThreadsAssumption, SMT DEF Living, Alive
  <2>3. HoldsInv'
    BY <2>1, <2>2, SMT
  <2>4. OnlyWorkerInv'
    BY <2>1, SMT
  <2> QED  BY <2>3, <2>4
<1>2. CASE Kill("tk")
  <2>1. /\ pc["tk"] = "kill" /\ pc' = [pc EXCEPT !["tk"] = "reap"]
        /\ UNCHANGED <<session, scheduler, known, local, asked>>
    BY <1>2, Zenon DEF Kill
  <2>2. hold["tk"] \notin Living'
    <3>1. hold["tk"] # NoGen => gen'[hold["tk"]].process = "dead"
      BY <1>2, KillFewer, Zenon DEF GensInv
    <3> QED  BY <3>1, ThreadsAssumption, SMT DEF Living, Alive
  <2>3. HoldsInv'
    BY <2>1, <2>2, SMT
  <2>4. OnlyWorkerInv'
    BY <2>1, SMT
  <2> QED  BY <2>3, <2>4
<1>3. CASE Reap("tick")
  <2>1. /\ pc["tick"] = "reap" /\ pc' = [pc EXCEPT !["tick"] = then["tick"]]
        /\ worker' = IF hold["tick"] = NoGen THEN worker ELSE NoGen
        /\ hold' = [hold EXCEPT !["tick"] = NoGen]
        /\ then' = [then EXCEPT !["tick"] = "idle"]
        /\ UNCHANGED <<session, scheduler, asked>>
    BY <1>3, Zenon DEF Reap
  <2>2. orphans' = 0 =>
          orphans = 0 /\ (hold["tick"] = NoGen \/ worker \in {hold["tick"], NoGen})
    BY <1>3, SMT DEF Reap
  <2>3. NoGen \notin Living'
    BY ThreadsAssumption, Zenon DEF Living
  <2>4. HoldsInv'
    BY <2>1, <2>3, SMT
  <2>5. OnlyWorkerInv'
    BY <2>1, <2>2, <2>3, SMT
  <2> QED  BY <2>4, <2>5
<1>4. CASE Reap("tk")
  <2>1. /\ pc["tk"] = "reap" /\ pc' = [pc EXCEPT !["tk"] = then["tk"]]
        /\ worker' = IF hold["tk"] = NoGen THEN worker ELSE NoGen
        /\ hold' = [hold EXCEPT !["tk"] = NoGen]
        /\ then' = [then EXCEPT !["tk"] = "idle"]
        /\ UNCHANGED <<session, scheduler, asked>>
    BY <1>4, Zenon DEF Reap
  <2>2. orphans' = 0 =>
          /\ orphans = 0
          /\ hold["tk"] = NoGen \/ (~Alive(hold["tk"]) /\ worker \in {hold["tk"], NoGen})
    BY <1>4, SMT DEF Reap, Alive
  <2>3. NoGen \notin Living'
    BY ThreadsAssumption, Zenon DEF Living
  <2>4. HoldsInv'
    BY <2>1, <2>3, SMT
  <2>5. ~Alive(hold["tk"]) => hold["tk"] \notin Living
    BY Zenon DEF Living
  <2>6. OnlyWorkerInv'
    BY <2>1, <2>2, <2>3, <2>5, SMT
  <2> QED  BY <2>4, <2>6
<1> QED  BY <1>1, <1>2, <1>3, <1>4

(* The exit, and the steps of the generations. *)
LEMMA OwnWorker ==
  ASSUME ControlInv, GensInv, HoldsInv, OnlyWorkerInv, Living' \subseteq Living,
         \/ Exit
         \/ UNCHANGED <<state, failures, drained, scheduler, known, pc, local, asked, answer>>
  PROVE  HoldsInv' /\ OnlyWorkerInv'
<1> USE DEF ControlInv, PlacesInv, QuietInv, HoldsInv, OnlyWorkerInv, TkWorks, Replaced,
            Restarted, Pausing, Resuming, Stopping, Waiting, Tearing, Tick, Tk, Threads, TickPlaces,
            TkPlaces, Goto, session, scheduler, known, local, client, Used
<1>1. CASE Exit
  <2>0. Living' = {}
    <3>1. gen' = [g \in Gens |-> Unborn]
      BY <1>1, Zenon DEF Exit
    <3> QED  BY <3>1, UnbornIs, SMT DEF Living, Alive
  <2>1. HoldsInv'
    BY <1>1, SMT DEF Exit, NoAsk
  <2>2. OnlyWorkerInv'
    BY <1>1, <2>0, SMT DEF Exit, NoAsk
  <2> QED  BY <2>1, <2>2
<1>2. CASE UNCHANGED <<state, failures, drained, scheduler, known, pc, local, asked, answer>>
  <2> QED  BY <1>2, SMT
<1> QED  BY <1>1, <1>2

(* A choice: the replaced worker was dead. *)
LEMMA SpawnWorker ==
  ASSUME ControlInv, WorkerInv, NEW th \in Threads, Spawn(th)
  PROVE  WorkerInv'
<1>1. PICK g \in Gens : Chosen(th, g)
  BY SpawnChooses, Zenon DEF WorkerInv, GensInv
<1>2. UNCHANGED <<session, scheduler, local, orphans>> /\ pc[th] = "spawn"
  BY Zenon DEF Spawn
<1>3. GensInv' /\ Living' \subseteq Living
  BY <1>1, FewerNoBirth, NoBirthLiving, Zenon DEF Chosen, WorkerInv
<1>4. g \notin Living'
  BY <1>1, UnbornIs, SMT DEF Chosen, Living, Alive
<1>5. /\ worker' = g
      /\ asked' = [asked EXCEPT ![th] = [gen |-> g, command |-> "INIT"]]
      /\ pc' = [pc EXCEPT ![th] = "launch"]
      /\ g \notin {asked["tick"].gen, asked["tk"].gen, hold["tick"], hold["tk"]}
  BY <1>1, Zenon DEF Chosen, Threads
<1>6. HoldsInv /\ OnlyWorkerInv
  BY DEF WorkerInv
<1> USE DEF ControlInv, PlacesInv, QuietInv, HoldsInv, OnlyWorkerInv, TkWorks, Replaced,
            Restarted, Pausing, Resuming, Stopping, Waiting, Tearing, Tick, Tk, session, scheduler,
            local, TickPlaces, TkPlaces
<1>7. CASE th = "tick"
  <2>0. /\ pc'["tick"] = "launch" /\ asked'["tick"].gen = g
        /\ pc'["tk"] = pc["tk"] /\ asked'["tk"] = asked["tk"]
        /\ pc["tick"] = "spawn" /\ worker = NoGen
    BY <1>2, <1>5, <1>6, <1>7, SMT DEF Threads
  <2>3. Restarted' /\ (Tk \in {"wait", "kill", "reap"} => Replaced')
    BY <1>2, <1>5, <2>0, SMT
  <2>4. NoGen \notin Living
    BY ThreadsAssumption, Zenon DEF Living
  <2> HIDE DEF Restarted, Replaced
  <2>1. HoldsInv'
    BY <1>2, <1>3, <1>4, <1>5, <1>6, <2>0, <2>3, <2>4, SMT
  <2>2. OnlyWorkerInv'
    BY <1>2, <1>3, <1>5, <1>6, <2>0, <2>4, SMT
  <2> QED  BY <1>3, <2>1, <2>2, Zenon DEF WorkerInv
<1>8. CASE th = "tk"
  <2>1. HoldsInv'
    BY <1>2, <1>3, <1>4, <1>5, <1>6, <1>8, SMT DEF Threads
  <2>2. OnlyWorkerInv'
    BY <1>2, <1>3, <1>5, <1>6, <1>8, SMT DEF Threads
  <2> QED  BY <1>3, <2>1, <2>2, Zenon DEF WorkerInv
<1> QED  BY <1>7, <1>8, Zenon DEF Threads

(* The generation that is launched has not lived yet. *)
LEMMA LaunchBorn ==
  ASSUME ControlInv, WorkerInv, NEW th \in Threads, Launch(th)
  PROVE  /\ pc[th] = "launch" /\ asked[th].gen \in Gens
         /\ asked[th].command = "INIT" /\ Born(th, asked[th].gen)
<1>1. pc[th] = "launch"
  BY Zenon DEF Launch
<1>2. asked[th].gen \in Gens /\ asked[th].command = "INIT"
  BY <1>1, SMT DEF ControlInv, PlacesInv
<1>3. asked[th].gen \notin Living
  <2>1. /\ pc["tick"] = "launch" => asked["tick"].gen \notin Living
        /\ pc["tk"] = "launch" => asked["tk"].gen \notin Living
    BY Zenon DEF WorkerInv, HoldsInv, Tick, Tk
  <2> QED  BY <1>1, <2>1, Zenon DEF Threads
<1>4. ~Alive(asked[th].gen)
  BY <1>2, <1>3, Zenon DEF Living
<1>5. GenType
  BY Zenon DEF WorkerInv, GensInv
<1> QED  BY <1>1, <1>2, <1>4, <1>5, LaunchBears

(* A birth: whoever lives and is not new is known, or there is an orphan. *)
LEMMA LaunchWorker ==
  ASSUME ControlInv, WorkerInv, NEW th \in Threads, Launch(th)
  PROVE  WorkerInv'
<1>1. PICK g \in Gens : /\ pc[th] = "launch" /\ g = asked[th].gen
                       /\ asked[th].command = "INIT" /\ Born(th, g)
  BY LaunchBorn
<1>2. /\ UNCHANGED <<session, scheduler, local>>
      /\ orphans \in Nat /\ orphans' = IF worker # g THEN orphans + 1 ELSE orphans
  BY <1>1, Zenon DEF Launch, ControlInv, PlacesInv
<1>3. orphans' = 0 => orphans = 0 /\ worker = g
  BY <1>2, SMT
<1>4. worker' = worker /\ asked' = asked /\ pc' = [pc EXCEPT ![th] = "wait"]
  BY <1>1, Zenon DEF Born
<1>5. Living' = Living \cup {g} /\ g \notin Living
  <2>1. ~Alive(g) /\ Alive(g)'
    BY <1>1, Zenon DEF Born, Alive
  <2>2. \A h \in Gens : h # g => (Alive(h)' <=> Alive(h))
    BY <1>1, Zenon DEF Born, Alive
  <2> QED  BY <1>1, <2>1, <2>2, SMT DEF Living
<1>6. GensInv'
  <2>1. ASSUME NEW h \in Gens, Alive(h)' PROVE gen'[h].valid = TRUE
    <3>1. CASE h = g
      BY <1>1, <3>1, Zenon DEF Born
    <3>2. CASE h # g
      BY <1>1, <2>1, <3>2, Zenon DEF Born, Alive, WorkerInv, GensInv
    <3> QED  BY <3>1, <3>2
  <2> QED  BY <1>1, <2>1, Zenon DEF Born, GensInv, Alive
<1>7. HoldsInv /\ OnlyWorkerInv /\ g = asked[th].gen
  BY <1>1 DEF WorkerInv
<1> USE DEF ControlInv, PlacesInv, QuietInv, HoldsInv, OnlyWorkerInv, TkWorks, Replaced,
            Restarted, Pausing, Resuming, Stopping, Waiting, Tearing, Tick, Tk, session, scheduler,
            local, TickPlaces, TkPlaces
<1>8. CASE th = "tick"
  <2>0. /\ pc'["tick"] = "wait" /\ asked["tick"].command = "INIT"
        /\ pc'["tk"] = pc["tk"] /\ pc["tick"] = "launch" /\ asked["tick"].gen = g
    BY <1>1, <1>4, <1>7, <1>8, SMT DEF Threads
  <2>1. Restarted' /\ (Tk \in {"wait", "kill", "reap"} => Replaced')
    BY <1>2, <1>4, <2>0, SMT
  <2> HIDE DEF Restarted, Replaced
  <2>2. HoldsInv'
    BY <1>2, <1>4, <1>5, <1>7, <2>0, <2>1, SMT
  <2>3. OnlyWorkerInv'
    BY <1>2, <1>3, <1>4, <1>5, <1>7, <2>0, SMT
  <2> QED  BY <1>6, <2>2, <2>3, Zenon DEF WorkerInv
<1>9. CASE th = "tk"
  <2>0. /\ pc'["tk"] = "wait" /\ asked["tk"].command = "INIT"
        /\ pc'["tick"] = pc["tick"] /\ pc["tk"] = "launch" /\ asked["tk"].gen = g
    BY <1>1, <1>4, <1>7, <1>9, SMT DEF Threads
  <2>1. HoldsInv'
    BY <1>2, <1>4, <1>5, <1>7, <2>0, SMT
  <2>2. OnlyWorkerInv'
    BY <1>2, <1>3, <1>4, <1>5, <1>7, <2>0, SMT
  <2> QED  BY <1>6, <2>1, <2>2, Zenon DEF WorkerInv
<1> QED  BY <1>8, <1>9, Zenon DEF Threads

LEMMA GenSame ==
  ASSUME \/ Deadline \/ Dispatch \/ EndLoop
         \/ CheckState \/ Process \/ CaptureFailed \/ Decide
         \/ RestartFailed \/ PauseAfterRestart \/ OnPause \/ EndTick
         \/ ClickPause \/ Drain("drain_pause", "ask_pause") \/ PauseFailed \/ EndPause
         \/ ClickResume \/ Drain("drain_resume", "begin_resume") \/ BeginResume
         \/ ResumeFailed \/ EndResume \/ RestartScheduler
         \/ \E how \in {"ask_stop", "emergency", "close"} : ClickStop(how)
         \/ DrainStop \/ StopMachine \/ EmergencyStop \/ CloseWindow \/ Finalize
  PROVE  gen' = gen
<1> USE DEF client, Used
<1>1. CASE \/ Deadline \/ Dispatch \/ EndLoop
  BY <1>1, Zenon DEF Deadline, Dispatch, EndLoop
<1>2. CASE \/ CheckState \/ Process \/ CaptureFailed \/ Decide
  BY <1>2, Zenon DEF CheckState, Process, CaptureFailed, Decide
<1>3. CASE \/ RestartFailed \/ PauseAfterRestart \/ OnPause \/ EndTick
  BY <1>3, Zenon DEF RestartFailed, PauseAfterRestart, OnPause, EndTick
<1>4. CASE \/ ClickPause \/ Drain("drain_pause", "ask_pause") \/ PauseFailed \/ EndPause
  BY <1>4, Zenon DEF ClickPause, Drain, PauseFailed, EndPause
<1>5. CASE \/ ClickResume \/ Drain("drain_resume", "begin_resume") \/ BeginResume
           \/ ResumeFailed \/ EndResume \/ RestartScheduler
  BY <1>5, Zenon DEF ClickResume, Drain, BeginResume, ResumeFailed, EndResume,
     RestartScheduler
<1>6. CASE \/ \E how \in {"ask_stop", "emergency", "close"} : ClickStop(how)
           \/ DrainStop \/ StopMachine \/ EmergencyStop \/ CloseWindow \/ Finalize
  BY <1>6, Zenon DEF ClickStop, DrainStop, StopMachine, EmergencyStop, CloseWindow, Finalize
<1> QED  BY <1>1, <1>2, <1>3, <1>4, <1>5, <1>6

LEMMA NoBirthStep ==
  ASSUME ControlInv, WorkerInv, Next, ~Launch("tick"), ~Launch("tk")
  PROVE  NoBirth
<1>1. /\ GenType /\ "tick" \in Threads /\ "tk" \in Threads
      /\ \A th \in Threads : hold[th] \in Gens \cup {NoGen}
      /\ \A th \in Threads : pc[th] = "wait" => asked[th].gen \in Gens
  BY SMT DEF WorkerInv, GensInv, ControlInv, PlacesInv, Threads
<1>2. CASE \E th \in Threads : TakeReply(th) \/ TimeOut(th)
  <2>1. PICK th \in Threads : TakeReply(th) \/ TimeOut(th)
    BY <1>2
  <2>2. pc[th] = "wait"
    BY <2>1, TakeReplyMoves, TimeOutMoves
  <2> QED  BY <1>1, <2>1, <2>2, TakeReplyNoBirth, TimeOutFewer, FewerNoBirth
<1>3. CASE \E th \in Threads : Kill(th) \/ Reap(th) \/ Spawn(th)
  <2>1. PICK th \in Threads : Kill(th) \/ Reap(th) \/ Spawn(th)
    BY <1>3
  <2>2. CASE Kill(th)
    BY <1>1, <2>2, KillFewer, FewerNoBirth
  <2>3. CASE Reap(th)
    BY <1>1, <2>3, ReapFewer, FewerNoBirth
  <2>4. CASE Spawn(th)
    BY <1>1, <2>4, SpawnChooses, FewerNoBirth, Zenon DEF Chosen
  <2> QED  BY <2>1, <2>2, <2>3, <2>4
<1>4. CASE Capture \/ AskPause \/ AskResume \/ AskStop \/ ShutDown
  <2>1. \/ gen' = gen
        \/ worker # NoGen /\ \E th \in Threads, c \in {"CAPTURE", "PAUSE", "RESUME", "STOP", "SHUTDOWN"} :
                               Request(th, worker, c)
    BY <1>1, <1>4, Zenon DEF Capture, AskPause, AskResume, AskStop, ShutDown, client, Used
  <2>2. worker # NoGen => worker \in Gens
    BY Zenon DEF ControlInv, PlacesInv
  <2>3. {"CAPTURE", "PAUSE", "RESUME", "STOP", "SHUTDOWN"} \subseteq Commands
    BY DEF Commands
  <2> QED  BY <1>1, <2>1, <2>2, <2>3, RequestNoBirth, NoneFewer, FewerNoBirth
<1>5. CASE \E g \in Gens : Serve(g) \/ Die(g) \/ EndOfStream(g)
  BY <1>1, <1>5, ServeNoBirth, DieFewer, EndOfStreamFewer, FewerNoBirth
<1>6. CASE Exit
  BY <1>1, <1>6, ExitFewer, FewerNoBirth
<1>7. \/ gen' = gen
      \/ \E th \in Threads : TakeReply(th) \/ TimeOut(th)
      \/ \E th \in Threads : Kill(th) \/ Reap(th) \/ Spawn(th)
      \/ Capture \/ AskPause \/ AskResume \/ AskStop \/ ShutDown
      \/ \E g \in Gens : Serve(g) \/ Die(g) \/ EndOfStream(g)
      \/ Exit
  BY <1>1, StepKinds, GenSame
<1> QED  BY <1>1, <1>2, <1>3, <1>4, <1>5, <1>6, <1>7, NoneFewer, FewerNoBirth

LEMMA WorkerStep ==
  ASSUME ControlInv, WorkerInv, [Next]_vars
  PROVE  WorkerInv'
<1>1. CASE UNCHANGED vars
  BY <1>1, SMT DEF vars, WorkerInv, GensInv, GenType, HoldsInv, OnlyWorkerInv, TkWorks, Replaced,
     Restarted, Resuming, Waiting, Tearing, Tick, Tk, Living, Alive
<1>2. CASE Spawn("tick") \/ Spawn("tk") \/ Launch("tick") \/ Launch("tk")
  BY <1>2, SpawnWorker, LaunchWorker DEF Threads
<1>3. CASE Next /\ ~(Spawn("tick") \/ Spawn("tk") \/ Launch("tick") \/ Launch("tk"))
  <2>1. GensInv /\ HoldsInv /\ OnlyWorkerInv
    BY DEF WorkerInv
  <2>2. GensInv' /\ Living' \subseteq Living
    BY <1>3, <2>1, NoBirthStep, NoBirthLiving
  <2>3. CASE Deadline \/ Dispatch \/ EndLoop
    BY <2>1, <2>2, <2>3, LoopWorker DEF WorkerInv
  <2>4. CASE CheckState \/ Process \/ CaptureFailed \/ Decide
             \/ RestartFailed \/ PauseAfterRestart \/ OnPause \/ EndTick
    BY <2>1, <2>2, <2>4, TickWorker DEF WorkerInv
  <2>5. CASE \/ ClickPause \/ Drain("drain_pause", "ask_pause") \/ PauseFailed \/ EndPause
             \/ ClickResume \/ Drain("drain_resume", "begin_resume") \/ BeginResume
             \/ ResumeFailed \/ EndResume \/ RestartScheduler
             \/ \E how \in {"ask_stop", "emergency", "close"} : ClickStop(how)
             \/ DrainStop \/ StopMachine \/ EmergencyStop \/ CloseWindow \/ Finalize
    BY <2>1, <2>2, <2>5, TkWorker DEF WorkerInv
  <2>6. CASE Capture \/ AskPause \/ AskResume \/ AskStop \/ ShutDown
    BY <2>1, <2>2, <2>6, RequestWorker DEF WorkerInv
  <2>7. CASE TakeReply("tick") \/ TimeOut("tick") \/ TakeReply("tk") \/ TimeOut("tk")
    BY <2>1, <2>2, <2>7, ReturnWorker DEF WorkerInv
  <2>8. CASE Kill("tick") \/ Reap("tick") \/ Kill("tk") \/ Reap("tk")
    BY <2>1, <2>2, <2>8, TeardownWorker DEF WorkerInv
  <2>9. CASE Exit \/ \E g \in Gens : Serve(g) \/ Die(g) \/ EndOfStream(g)
    <3>1. \/ Exit
          \/ UNCHANGED <<state, failures, drained, scheduler, known, pc, local, asked, answer>>
      BY <2>9, Zenon DEF Serve, Die, EndOfStream, session
    <3> QED  BY <2>1, <2>2, <3>1, OwnWorker DEF WorkerInv
  <2> QED  BY <1>3, <2>3, <2>4, <2>5, <2>6, <2>7, <2>8, <2>9, StepKinds
<1> QED  BY <1>1, <1>2, <1>3

LEMMA WorkerInit == Init => WorkerInv
<1> SUFFICES ASSUME Init PROVE WorkerInv
  OBVIOUS
<1> DEFINE first == [Unborn EXCEPT !.process = "alive", !.valid = TRUE,
                                   !.mode = "RECORDING", !.ended = FALSE]
           a == [Unborn EXCEPT !.process = "alive"]
           b == [a EXCEPT !.valid = TRUE]
           c == [b EXCEPT !.mode = "RECORDING"]
<1>1. worker \in Gens /\ gen = [g \in Gens |-> IF g = worker THEN first ELSE Unborn]
  BY ThreadsAssumption, Zenon DEF Init
<1>2. first \in GenRecords /\ first.valid = TRUE
  <2>1. first = [c EXCEPT !.ended = FALSE]
    BY Zenon
  <2>2. a \in GenRecords
    BY UnbornIs, SetProcess
  <2>3. b \in GenRecords /\ b.valid = TRUE
    <3> HIDE DEF a
    <3>1. b \in GenRecords
      BY <2>2, SetRest
    <3>2. b.valid = TRUE
      BY <2>2, GenRecordsAre, SMT
    <3> QED  BY <3>1, <3>2
  <2>4. c \in GenRecords /\ c.valid = TRUE
    <3> HIDE DEF b
    <3> QED  BY <2>3, SetMode
  <2>5. [c EXCEPT !.ended = FALSE] \in GenRecords /\ [c EXCEPT !.ended = FALSE].valid = TRUE
    <3> HIDE DEF c
    <3>1. [c EXCEPT !.ended = FALSE] \in GenRecords
      BY <2>4, SetRest
    <3>2. [c EXCEPT !.ended = FALSE].valid = c.valid
      BY <2>4, GenRecordsAre, SMT
    <3> QED  BY <2>4, <3>1, <3>2
  <2> HIDE DEF first, c
  <2> QED  BY <2>1, <2>5
<1> HIDE DEF first
<1>3. GensInv
  <2>1. GenType
    BY <1>1, <1>2, UnbornIs, Zenon DEF GenType
  <2>2. ASSUME NEW g \in Gens, Alive(g) PROVE gen[g].valid = TRUE
    <3>1. gen[g] = first \/ gen[g] = Unborn
      BY <1>1, Zenon
    <3> QED  BY <1>2, <2>2, <3>1, UnbornIs, SMT DEF Alive
  <2> QED  BY <2>1, <2>2 DEF GensInv
<1>4. Living \subseteq {worker}
  <2>1. ASSUME NEW g \in Gens, g # worker PROVE ~Alive(g)
    <3>1. gen[g] = Unborn
      BY <1>1, <2>1, Zenon
    <3> QED  BY <3>1, UnbornIs, SMT DEF Alive
  <2> QED  BY <2>1, Zenon DEF Living
<1>5. pc["tick"] = "none" /\ pc["tk"] = "idle" /\ drained = FALSE
  <2>1. pc = [th \in Threads |-> IF th = "tick" THEN "none" ELSE "idle"] /\ drained = FALSE
    BY Zenon DEF Init
  <2> QED  BY <2>1, SMT DEF Threads
<1>6. HoldsInv /\ OnlyWorkerInv
  BY <1>4, <1>5, SMT DEF HoldsInv, OnlyWorkerInv, Waiting, Tick, Tk
<1> QED  BY <1>3, <1>6 DEF WorkerInv

THEOREM WorkersAreKnown == Spec => [](ControlInv /\ WorkerInv)
<1> DEFINE Inv == ControlInv /\ WorkerInv
<1>1. Init => Inv
  BY ControlInit, WorkerInit
<1>2. Inv /\ [Next]_vars => Inv'
  BY ControlStep, WorkerStep
<1> QED  BY <1>1, <1>2, PTL DEF Spec

(* A Stop, Emergency stop or Close that found no tick in flight leaves no worker
   process behind, nor a tick that could start one: the worker torn down is the
   one the controller knows, and but for an orphan there is no other.  Orphans
   are real: user_pause's teardown forgets what a tick has spawned. *)
THEOREM CleanStopsLeaveNoWorker == Spec => []CleanStopLeavesNoWorker
<1>1. ControlInv /\ WorkerInv => CleanStopLeavesNoWorker
  <2> SUFFICES ASSUME ControlInv, WorkerInv, Tk = "over", drained, orphans = 0
               PROVE  pc["tick"] = "none" /\ \A g \in Gens : gen[g].process = "dead"
    BY Zenon DEF CleanStopLeavesNoWorker, Tk
  <2>1. pc["tick"] = "none"
    BY SMT DEF ControlInv, QuietInv, Tick
  <2>2. Living \subseteq {NoGen}
    BY SMT DEF WorkerInv, OnlyWorkerInv
  <2>3. ASSUME NEW g \in Gens PROVE gen[g].process = "dead"
    <3>0. g # NoGen
      BY ThreadsAssumption
    <3>1. ~Alive(g)
      BY <2>2, <3>0, Zenon DEF Living
    <3>2. gen[g].process \in {"alive", "dead"}
      BY GenRecordsAre, SMT DEF WorkerInv, GensInv, GenType
    <3> QED  BY <3>1, <3>2, SMT DEF Alive
  <2> QED  BY <2>1, <2>3
<1> QED  BY <1>1, WorkersAreKnown, PTL
-----------------------------------------------------------------------------
(* Inboxes and queues: a command appended, taken, and served. *)

LEMMA TailIs ==
  ASSUME NEW S, NEW s \in Seq(S), s # <<>>
  PROVE  /\ Len(s) \in Nat /\ Len(s) >= 1 /\ Len(Tail(s)) = Len(s) - 1
         /\ Head(s) = s[1]
         /\ \A i \in 1..Len(Tail(s)) : i + 1 \in 1..Len(s) /\ Tail(s)[i] = s[i + 1]
  BY SMT

LEMMA AppendIs ==
  ASSUME NEW S, NEW s \in Seq(S), NEW d \in S
  PROVE  /\ Len(s) \in Nat /\ Len(Append(s, d)) = Len(s) + 1
         /\ \A i \in 1..Len(s) : Append(s, d)[i] = s[i]
         /\ Append(s, d)[Len(s) + 1] = d
  BY SMT

LEMMA AsksAppend ==
  ASSUME NEW s \in Seq(Commands), NEW d \in Commands, NEW c
  PROVE  Asks(Append(s, d), c) <=> Asks(s, c) \/ c = d
<1> DEFINE t == Append(s, d)
<1>1. /\ Len(s) \in Nat /\ Len(t) = Len(s) + 1
      /\ \A i \in 1..Len(s) : t[i] = s[i]
      /\ t[Len(s) + 1] = d
  BY AppendIs
<1> HIDE DEF t
<1> QED  BY <1>1, SMT DEF Asks, t

LEMMA SaysAppend ==
  ASSUME NEW q \in SaidSeqs, NEW r \in SaidType, NEW c
  PROVE  Says(Append(q, r), c) <=> Says(q, c) \/ r.command = c
<1> DEFINE t == Append(q, r)
<1>1. /\ Len(q) \in Nat /\ Len(t) = Len(q) + 1
      /\ \A i \in 1..Len(q) : t[i] = q[i]
      /\ t[Len(q) + 1] = r
  BY AppendIs DEF SaidSeqs
<1> HIDE DEF t
<1> QED  BY <1>1, SMT DEF Says, t

LEMMA AsksTail ==
  ASSUME NEW s \in Seq(Commands), s # <<>>, NEW c
  PROVE  /\ Asks(Tail(s), c) => Asks(s, c)
         /\ Head(s) = c => Asks(s, c)
<1> DEFINE t == Tail(s)
<1>1. /\ Len(s) \in Nat /\ Len(s) >= 1 /\ Len(t) = Len(s) - 1 /\ Head(s) = s[1]
      /\ \A i \in 1..Len(t) : i + 1 \in 1..Len(s) /\ t[i] = s[i + 1]
  BY TailIs
<1> HIDE DEF t
<1> QED  BY <1>1, SMT DEF Asks, t

LEMMA SaysTail ==
  ASSUME NEW q \in SaidSeqs, q # <<>>, NEW c
  PROVE  /\ Says(Tail(q), c) => Says(q, c)
         /\ Head(q).command = c => Says(q, c)
<1> DEFINE t == Tail(q)
<1>1. /\ Len(q) \in Nat /\ Len(q) >= 1 /\ Len(t) = Len(q) - 1 /\ Head(q) = q[1]
      /\ \A i \in 1..Len(t) : i + 1 \in 1..Len(q) /\ t[i] = q[i + 1]
  BY TailIs DEF SaidSeqs
<1> HIDE DEF t
<1> QED  BY <1>1, SMT DEF Says, t

LEMMA OnceAppend ==
  ASSUME NEW s \in Seq(Commands), NEW q, NEW d \in Commands, NEW c, Once(s, q, c),
         c = d => ~Asks(s, c) /\ ~Says(q, c)
  PROVE  Once(Append(s, d), q, c)
<1> DEFINE t == Append(s, d)
<1>1. /\ Len(s) \in Nat /\ Len(t) = Len(s) + 1
      /\ \A i \in 1..Len(s) : t[i] = s[i]
      /\ t[Len(s) + 1] = d
  BY AppendIs
<1>2. Asks(t, c) <=> Asks(s, c) \/ c = d
  BY AsksAppend
<1> HIDE DEF t
<1>3. \A i, j \in 1..Len(t) : t[i] = c /\ t[j] = c => i = j
  BY <1>1, SMT DEF Once, Asks
<1> QED  BY <1>2, <1>3, Zenon DEF Once, t

LEMMA OnceTail ==
  ASSUME NEW s, NEW q \in SaidSeqs, q # <<>>, NEW c, Once(s, q, c)
  PROVE  /\ Once(s, Tail(q), c)
         /\ Head(q).command = c => ~Asks(s, c) /\ ~Says(Tail(q), c)
<1> DEFINE t == Tail(q)
<1>1. /\ Len(q) \in Nat /\ Len(q) >= 1 /\ Len(t) = Len(q) - 1 /\ Head(q) = q[1]
      /\ \A i \in 1..Len(t) : i + 1 \in 1..Len(q) /\ t[i] = q[i + 1]
  BY TailIs DEF SaidSeqs
<1>2. (Says(t, c) => Says(q, c)) /\ (Head(q).command = c => Says(q, c))
  BY SaysTail
<1> HIDE DEF t
<1>3. \A i, j \in 1..Len(t) : t[i].command = c /\ t[j].command = c => i = j
  BY <1>1, SMT DEF Once
<1>4. Head(q).command = c => ~Says(t, c)
  BY <1>1, SMT DEF Once, Says
<1> QED  BY <1>2, <1>3, <1>4, Zenon DEF Once, t

LEMMA OnceServed ==
  ASSUME NEW s \in Seq(Commands), s # <<>>, NEW q \in SaidSeqs, NEW r \in SaidType,
         r.command = Head(s), NEW c, Once(s, q, c)
  PROVE  Once(Tail(s), Append(q, r), c)
<1> DEFINE t == Tail(s)
           p == Append(q, r)
<1>1. /\ Len(s) \in Nat /\ Len(s) >= 1 /\ Len(t) = Len(s) - 1 /\ Head(s) = s[1]
      /\ \A i \in 1..Len(t) : i + 1 \in 1..Len(s) /\ t[i] = s[i + 1]
  BY TailIs
<1>2. /\ Len(q) \in Nat /\ Len(p) = Len(q) + 1
      /\ \A i \in 1..Len(q) : p[i] = q[i]
      /\ p[Len(q) + 1] = r
  BY AppendIs DEF SaidSeqs
<1>3. (Asks(t, c) => Asks(s, c)) /\ (Head(s) = c => Asks(s, c))
  BY AsksTail
<1>4. Says(p, c) <=> Says(q, c) \/ r.command = c
  BY SaysAppend
<1> HIDE DEF t, p
<1>5. \A i, j \in 1..Len(t) : t[i] = c /\ t[j] = c => i = j
  BY <1>1, SMT DEF Once
<1>6. Head(s) = c => ~Asks(t, c)
  BY <1>1, SMT DEF Once, Asks
<1>7. \A i, j \in 1..Len(p) : p[i].command = c /\ p[j].command = c => i = j
  <2>1. CASE r.command = c
    <3>1. \A i \in 1..Len(q) : q[i].command # c
      BY <1>3, <2>1, Zenon DEF Once, Says
    <3> QED  BY <1>2, <3>1, SMT
  <2>2. CASE r.command # c
    <3>1. \A i, j \in 1..Len(q) : q[i].command = c /\ q[j].command = c => i = j
      BY Zenon DEF Once
    <3> QED  BY <1>2, <2>2, <3>1, SMT
  <2> QED  BY <2>1, <2>2
<1> QED  BY <1>3, <1>4, <1>5, <1>6, <1>7, Zenon DEF Once, t, p
-----------------------------------------------------------------------------
(* What each action does to what is owed. *)

Lively ==
  /\ CaptureAsked \subseteq CaptureOwed /\ CaptureOwed \subseteq Living
  /\ PauseSaid \subseteq PauseOwed /\ PauseOwed \subseteq Living
  /\ ResumeOwed \subseteq Living /\ Moving \subseteq Living
  /\ NoGen \notin Living

LEMMA SetsLive == Lively /\ Lively'
<1>1. /\ \A c : Asking(c) \subseteq Living /\ Saying(c) \subseteq Living
      /\ NoGen \notin Living /\ Moving \subseteq Living
  BY ThreadsAssumption, Zenon DEF Asking, Saying, Living, Moving
<1>2. /\ \A c : Asking(c)' \subseteq Living' /\ Saying(c)' \subseteq Living'
      /\ NoGen \notin Living' /\ Moving' \subseteq Living'
  BY ThreadsAssumption, Zenon DEF Asking, Saying, Living, Moving
<1>3. Lively
  BY <1>1, Zenon DEF Lively, CaptureAsked, CaptureOwed, PauseSaid, PauseOwed, ResumeOwed
<1>4. Lively'
  BY <1>2, Zenon DEF Lively, CaptureAsked, CaptureOwed, PauseSaid, PauseOwed, ResumeOwed
<1> QED  BY <1>3, <1>4

(* Nothing more is owed. *)
Shrinks ==
  /\ CaptureAsked' \subseteq CaptureAsked /\ CaptureOwed' \subseteq CaptureOwed
  /\ PauseSaid' \subseteq PauseSaid /\ PauseOwed' \subseteq PauseOwed
  /\ ResumeOwed' \subseteq ResumeOwed /\ Moving' \subseteq Moving

LEMMA ShrinksIf ==
  ASSUME \A c : Asking(c)' \subseteq Asking(c), \A c : Saying(c)' \subseteq Saying(c),
         Moving' \subseteq Moving
  PROVE  Shrinks
  BY Zenon DEF Shrinks, CaptureAsked, CaptureOwed, PauseSaid, PauseOwed, ResumeOwed

LEMMA FewerShrinks == ASSUME Fewer PROVE Shrinks
<1>1. \A c : Asking(c)' \subseteq Asking(c)
  BY Zenon DEF Fewer, Same, Asking
<1>2. \A c : Saying(c)' \subseteq Saying(c)
  BY Zenon DEF Fewer, Same, Saying
<1>3. Moving' \subseteq Moving
  BY Zenon DEF Fewer, Same, Moving
<1> QED  BY <1>1, <1>2, <1>3, ShrinksIf

LEMMA FewerOnce == ASSUME Fewer, OnceInv PROVE OnceInv'
  BY Zenon DEF Fewer, Same, OnceInv

LEMMA InboxIs ==
  ASSUME GenType, NEW g \in Gens
  PROVE  gen[g].inbox \in Seq(Commands) /\ gen[g].queue \in SaidSeqs
  BY GenRecordsAre, SMT DEF GenType

(* A command sent is owed by the generation it is sent to. *)
LEMMA SentOwes ==
  ASSUME GenType, NEW g \in Gens, NEW d \in Commands, Sent(g, d)
  PROVE  /\ Moving' = Moving
         /\ \A c : /\ Saying(c)' = Saying(c)
                   /\ Asking(c)' \subseteq IF c = d THEN Asking(c) \cup {g} ELSE Asking(c)
<1>1. Moving' = Moving
  BY Zenon DEF Sent, Moving, Alive
<1>2. ASSUME NEW c
      PROVE  /\ Saying(c)' = Saying(c)
             /\ Asking(c)' \subseteq IF c = d THEN Asking(c) \cup {g} ELSE Asking(c)
  <2>1. Saying(c)' = Saying(c)
    BY Zenon DEF Sent, Saying, Alive
  <2>2. ASSUME NEW h \in Asking(c)', h # g \/ c # d PROVE h \in Asking(c)
    <3>1. h \in Gens /\ Alive(h) /\ Asks(gen'[h].inbox, c)
      BY <2>2, Zenon DEF Sent, Asking, Alive
    <3>2. CASE h # g
      <4>1. gen'[h].inbox = gen[h].inbox
        BY <3>1, <3>2, Zenon DEF Sent
      <4> QED  BY <3>1, <4>1, Zenon DEF Asking
    <3>3. CASE h = g
      <4>1. gen'[g].inbox = Append(gen[g].inbox, d)
        BY Zenon DEF Sent
      <4>2. Asks(gen[g].inbox, c)
        BY <2>2, <3>1, <3>3, <4>1, AsksAppend, InboxIs
      <4> QED  BY <3>1, <3>3, <4>2, Zenon DEF Asking
    <3> QED  BY <3>2, <3>3
  <2>3. CASE c = d
    BY <2>1, <2>2, <2>3, Zenon
  <2>4. CASE c # d
    BY <2>1, <2>2, <2>4, Zenon
  <2> QED  BY <2>3, <2>4
<1> QED  BY <1>1, <1>2

LEMMA SentOnce ==
  ASSUME GenType, OnceInv, NEW g \in Gens, NEW d \in Commands, Sent(g, d),
         d \in Singles => g \notin Asking(d) \cup Saying(d)
  PROVE  OnceInv'
<1> SUFFICES ASSUME NEW h \in Gens, NEW c \in Singles, Alive(h)'
             PROVE  Once(gen'[h].inbox, gen'[h].queue, c)
  BY Zenon DEF OnceInv
<1>1. /\ Alive(h) /\ gen'[h].queue = gen[h].queue
      /\ gen'[h].inbox = IF h = g THEN Append(gen[h].inbox, d) ELSE gen[h].inbox
  BY Zenon DEF Sent, Alive
<1>2. Once(gen[h].inbox, gen[h].queue, c)
  BY <1>1, Zenon DEF OnceInv
<1>3. CASE h # g
  BY <1>1, <1>2, <1>3, Zenon
<1>4. CASE h = g
  <2>1. c = d => ~Asks(gen[h].inbox, c) /\ ~Says(gen[h].queue, c)
    BY <1>1, <1>4, Zenon DEF Asking, Saying
  <2>2. Once(Append(gen[h].inbox, d), gen[h].queue, c)
    BY <1>2, <2>1, InboxIs, OnceAppend
  <2> QED  BY <1>1, <1>4, <2>2, Zenon
<1> QED  BY <1>3, <1>4

(* A reply taken is no longer owed. *)
LEMMA TakeReplyLess ==
  ASSUME GenType, NEW th \in Threads, asked[th].gen \in Gens, TakeReply(th), NEW c
  PROVE  Asking(c)' \subseteq Asking(c) /\ Saying(c)' \subseteq Saying(c)
<1> DEFINE g == asked[th].gen
<1>1. /\ gen[g].queue \in SaidSeqs /\ gen[g].queue # <<>>
      /\ \A h \in Gens : Alive(h)' =>
           /\ Alive(h) /\ gen'[h].inbox = gen[h].inbox
           /\ gen'[h].queue = IF h = g THEN Tail(gen[h].queue) ELSE gen[h].queue
  BY TakeReplyLeaves
<1> HIDE DEF g
<1>2. Asking(c)' \subseteq Asking(c)
  BY <1>1, Zenon DEF Asking
<1>3. Saying(c)' \subseteq Saying(c)
  <2> SUFFICES ASSUME NEW h \in Saying(c)' PROVE h \in Saying(c)
    OBVIOUS
  <2>1. h \in Gens /\ Alive(h)' /\ Alive(h) /\ Says(gen'[h].queue, c)
    BY <1>1, Zenon DEF Saying
  <2>2. CASE h = g
    <3>1. gen'[h].queue = Tail(gen[h].queue)
      BY <1>1, <2>1, <2>2, Zenon
    <3>2. Says(gen[h].queue, c)
      BY <1>1, <2>1, <2>2, <3>1, SaysTail
    <3> QED  BY <2>1, <3>2, Zenon DEF Saying
  <2>3. CASE h # g
    BY <1>1, <2>1, <2>3, Zenon DEF Saying
  <2> QED  BY <2>2, <2>3
<1> QED  BY <1>2, <1>3

(* A reply taken.  If it is the answer the call is over, and the command is no
   longer owed. *)
LEMMA TakeReplyOnce ==
  ASSUME GenType, OnceInv, NEW th \in Threads, asked[th].gen \in Gens, TakeReply(th)
  PROVE  /\ OnceInv' /\ Shrinks
         /\ \A c \in Singles :
              Head(gen[asked[th].gen].queue).command = c
                => /\ asked[th].gen \notin Asking(c)' \cup Saying(c)'
                   /\ asked[th].gen \in Living => asked[th].gen \in Saying(c)
<1> DEFINE g == asked[th].gen
<1>1. /\ gen[g].queue \in SaidSeqs /\ gen[g].queue # <<>>
      /\ \A h \in Gens : Alive(h)' =>
           /\ Alive(h) /\ gen'[h].mode = gen[h].mode /\ gen'[h].inbox = gen[h].inbox
           /\ gen'[h].queue = IF h = g THEN Tail(gen[h].queue) ELSE gen[h].queue
  BY TakeReplyLeaves
<1> HIDE DEF g
<1>2. OnceInv'
  <2> SUFFICES ASSUME NEW h \in Gens, NEW c \in Singles, Alive(h)'
               PROVE  Once(gen'[h].inbox, gen'[h].queue, c)
    BY Zenon DEF OnceInv
  <2>1. Once(gen[h].inbox, gen[h].queue, c)
    BY <1>1, Zenon DEF OnceInv
  <2>2. CASE h = g
    <3>1. Once(gen[h].inbox, Tail(gen[h].queue), c)
      BY <1>1, <2>1, <2>2, OnceTail
    <3> QED  BY <1>1, <2>2, <3>1, Zenon
  <2>3. CASE h # g
    BY <1>1, <2>1, <2>3, Zenon
  <2> QED  BY <2>2, <2>3
<1>3. Shrinks
  <2>1. /\ \A c : Asking(c)' \subseteq Asking(c)
        /\ \A c : Saying(c)' \subseteq Saying(c)
    BY TakeReplyLess
  <2>2. Moving' \subseteq Moving
    BY <1>1, Zenon DEF Moving
  <2> QED  BY <2>1, <2>2, ShrinksIf
<1>4. ASSUME NEW c \in Singles, Head(gen[g].queue).command = c
      PROVE  /\ g \notin Asking(c)' \cup Saying(c)'
             /\ g \in Living => g \in Saying(c)
  <2>1. Says(gen[g].queue, c)
    BY <1>1, <1>4, SaysTail
  <2>2. g \in Living => g \in Saying(c)
    BY <2>1, Zenon DEF Living, Saying
  <2>3. ASSUME NEW h \in Gens, h = g, Alive(h)'
        PROVE  ~Asks(gen'[h].inbox, c) /\ ~Says(gen'[h].queue, c)
    <3>1. Once(gen[h].inbox, gen[h].queue, c)
      BY <1>1, <2>3, Zenon DEF OnceInv
    <3>2. ~Asks(gen[h].inbox, c) /\ ~Says(Tail(gen[h].queue), c)
      BY <1>1, <1>4, <2>3, <3>1, OnceTail
    <3> QED  BY <1>1, <2>3, <3>2, Zenon
  <2>4. g \notin Asking(c)' \cup Saying(c)'
    BY <2>3, Zenon DEF Asking, Saying
  <2> QED  BY <2>2, <2>4
<1> QED  BY <1>2, <1>3, <1>4, Zenon DEF g

(* A command served passes from what is asked to what is said. *)
LEMMA ServedMoves ==
  ASSUME NEW g \in Gens, NEW c \in Commands, NEW reply \in {"OK", "REFUSED"},
         Served(g, c, reply), NEW d
  PROVE  /\ Asking(d)' \subseteq Asking(d)
         /\ Saying(d)' \subseteq Saying(d) \cup Asking(d)
         /\ d # c => Saying(d)' \subseteq Saying(d)
         /\ g \in Saying(d)' => g \in Saying(d) \/ d = c
         /\ Saying(d)' \subseteq Saying(d) \cup {g}
<1> DEFINE r == [command |-> c, reply |-> reply]
<1>1. /\ gen[g].inbox \in Seq(Commands) /\ gen[g].inbox # <<>> /\ c = Head(gen[g].inbox)
      /\ gen[g].queue \in SaidSeqs /\ Alive(g)
      /\ \A h \in Gens : Alive(h)' =>
           /\ Alive(h)
           /\ h # g => Same(gen'[h], gen[h])
           /\ h = g => /\ gen'[h].inbox = Tail(gen[h].inbox)
                       /\ gen'[h].queue = Append(gen[h].queue, r)
  BY Zenon DEF Served
<1>2. r \in SaidType /\ r.command = c
  BY SMT DEF SaidType
<1> HIDE DEF r
<1>3. ASSUME NEW h \in Asking(d)' PROVE h \in Asking(d)
  <2>1. h \in Gens /\ Alive(h)' /\ Alive(h) /\ Asks(gen'[h].inbox, d)
    BY <1>1, <1>3, Zenon DEF Asking
  <2>2. CASE h = g
    <3>1. gen'[h].inbox = Tail(gen[h].inbox)
      BY <1>1, <2>1, <2>2, Zenon
    <3>2. Asks(gen[h].inbox, d)
      BY <1>1, <2>1, <2>2, <3>1, AsksTail
    <3> QED  BY <2>1, <3>2, Zenon DEF Asking
  <2>3. CASE h # g
    BY <1>1, <2>1, <2>3, Zenon DEF Asking, Same
  <2> QED  BY <2>2, <2>3
<1>4. ASSUME NEW h \in Saying(d)' PROVE h \in Saying(d) \/ (h = g /\ d = c)
  <2>1. h \in Gens /\ Alive(h)' /\ Alive(h) /\ Says(gen'[h].queue, d)
    BY <1>1, <1>4, Zenon DEF Saying
  <2>2. CASE h = g
    <3>1. gen'[h].queue = Append(gen[h].queue, r)
      BY <1>1, <2>1, <2>2, Zenon
    <3>2. Says(gen[h].queue, d) \/ d = c
      BY <1>1, <1>2, <2>1, <2>2, <3>1, SaysAppend
    <3> QED  BY <2>1, <2>2, <3>2, Zenon DEF Saying
  <2>3. CASE h # g
    BY <1>1, <2>1, <2>3, Zenon DEF Saying, Same
  <2> QED  BY <2>2, <2>3
<1>5. g \in Asking(c)
  BY <1>1, AsksTail, Zenon DEF Asking
<1> QED  BY <1>3, <1>4, <1>5, Zenon

(* Only RESUME makes a generation capture again, and PAUSE ends it. *)
LEMMA ServedOwes ==
  ASSUME GenType, OnceInv, NEW g \in Gens, NEW c \in Commands,
         NEW reply \in {"OK", "REFUSED"}, Served(g, c, reply)
  PROVE  /\ OnceInv'
         /\ CaptureAsked' \subseteq CaptureAsked /\ CaptureOwed' \subseteq CaptureOwed
         /\ PauseOwed' \subseteq PauseOwed /\ ResumeOwed' \subseteq ResumeOwed
         /\ Moving' \subseteq Moving \/ (g \in ResumeOwed /\ Moving' \subseteq Moving \cup {g})
         /\ PauseSaid' \cap Moving' \subseteq PauseSaid \cap Moving
            \/ (g \in ResumeOwed /\ PauseSaid' \cap Moving' \subseteq (PauseSaid \cap Moving) \cup {g})
<1> DEFINE r == [command |-> c, reply |-> reply]
<1>1. /\ gen[g].inbox \in Seq(Commands) /\ gen[g].inbox # <<>> /\ c = Head(gen[g].inbox)
      /\ gen[g].queue \in SaidSeqs /\ Alive(g)
      /\ \A h \in Gens : Alive(h)' =>
           /\ Alive(h)
           /\ h # g => Same(gen'[h], gen[h])
           /\ h = g => /\ gen'[h].inbox = Tail(gen[h].inbox)
                       /\ gen'[h].mode = ModeAfter(gen[h].mode, c)
                       /\ gen'[h].queue = Append(gen[h].queue, r)
  BY Zenon DEF Served
<1>2. r \in SaidType /\ r.command = c
  BY SMT DEF SaidType
<1> HIDE DEF r
<1>3. OnceInv'
  <2> SUFFICES ASSUME NEW h \in Gens, NEW d \in Singles, Alive(h)'
               PROVE  Once(gen'[h].inbox, gen'[h].queue, d)
    BY Zenon DEF OnceInv
  <2>1. Once(gen[h].inbox, gen[h].queue, d)
    BY <1>1, Zenon DEF OnceInv
  <2>2. CASE h = g
    <3>1. Once(Tail(gen[h].inbox), Append(gen[h].queue, r), d)
      BY <1>1, <1>2, <2>1, <2>2, OnceServed
    <3> QED  BY <1>1, <2>2, <3>1, Zenon
  <2>3. CASE h # g
    BY <1>1, <2>1, <2>3, Zenon DEF Same
  <2> QED  BY <2>2, <2>3
<1>4. ASSUME NEW d
      PROVE  /\ Asking(d)' \subseteq Asking(d)
             /\ Saying(d)' \subseteq Saying(d) \cup Asking(d)
             /\ d # c => Saying(d)' \subseteq Saying(d)
             /\ g \in Saying(d)' => g \in Saying(d) \/ d = c
             /\ Saying(d)' \subseteq Saying(d) \cup {g}
  BY ServedMoves
<1>5. /\ CaptureAsked' \subseteq CaptureAsked /\ CaptureOwed' \subseteq CaptureOwed
      /\ PauseOwed' \subseteq PauseOwed /\ ResumeOwed' \subseteq ResumeOwed
  BY <1>4, Zenon DEF CaptureAsked, CaptureOwed, PauseOwed, ResumeOwed
<1>6. ASSUME NEW h \in Moving' PROVE h \in Moving \/ (h = g /\ c = "RESUME")
  <2>1. h \in Gens /\ Alive(h)' /\ Alive(h) /\ gen'[h].mode = "RECORDING"
    BY <1>1, <1>6, Zenon DEF Moving
  <2>2. CASE h = g
    <3>1. ModeAfter(gen[h].mode, c) = "RECORDING"
      BY <1>1, <2>1, <2>2, Zenon
    <3>2. gen[h].mode = "RECORDING" \/ c = "RESUME"
      BY <3>1, ModeAfterIs
    <3> QED  BY <2>1, <2>2, <3>2, Zenon DEF Moving
  <2>3. CASE h # g
    BY <1>1, <2>1, <2>3, Zenon DEF Moving, Same
  <2> QED  BY <2>2, <2>3
<1>7. c = "PAUSE" => g \notin Moving'
  <2> SUFFICES ASSUME c = "PAUSE", g \in Moving' PROVE FALSE
    OBVIOUS
  <2>1. ModeAfter(gen[g].mode, c) = "RECORDING"
    BY <1>1, Zenon DEF Moving
  <2> QED  BY <2>1, ModeAfterIs
<1>8. c = "RESUME" => g \in ResumeOwed
  BY <1>1, AsksTail, Zenon DEF ResumeOwed, Asking
<1>9. Moving' \subseteq Moving \/ (g \in ResumeOwed /\ Moving' \subseteq Moving \cup {g})
  BY <1>6, <1>8, Zenon
<1>10. \/ PauseSaid' \cap Moving' \subseteq PauseSaid \cap Moving
       \/ (g \in ResumeOwed /\ PauseSaid' \cap Moving' \subseteq (PauseSaid \cap Moving) \cup {g})
  <2>1. ASSUME NEW h \in PauseSaid' \cap Moving'
        PROVE  h \in PauseSaid \cap Moving \/ (h = g /\ c = "RESUME")
    <3>1. h \in PauseSaid \/ (h = g /\ c = "PAUSE")
      BY <1>4, Zenon DEF PauseSaid
    <3> QED  BY <1>6, <1>7, <2>1, <3>1, Zenon
  <2> QED  BY <1>8, <2>1, Zenon
<1> QED  BY <1>3, <1>5, <1>9, <1>10

(* A generation just born has been asked for INIT alone. *)
LEMMA BornAsks ==
  ASSUME NEW th \in Threads, NEW g, Born(th, g), NEW c, c # "INIT"
  PROVE  Asking(c)' \subseteq Asking(c) /\ Saying(c)' \subseteq Saying(c)
<1>1. /\ g \in Gens /\ ~Alive(g) /\ gen'[g].inbox = <<"INIT">> /\ gen'[g].queue = <<>>
      /\ \A h \in Gens : h # g => gen'[h] = gen[h]
  BY Zenon DEF Born
<1>2. ~Asks(<<"INIT">>, c) /\ ~Says(<<>>, c)
  BY SMT DEF Asks, Says
<1>3. ASSUME NEW h \in Asking(c)' PROVE h \in Asking(c)
  <2>1. h \in Gens /\ Alive(h)' /\ Asks(gen'[h].inbox, c)
    BY <1>3, Zenon DEF Asking
  <2>2. h # g
    BY <1>1, <1>2, <2>1, Zenon
  <2> QED  BY <1>1, <2>1, <2>2, Zenon DEF Asking, Alive
<1>4. ASSUME NEW h \in Saying(c)' PROVE h \in Saying(c)
  <2>1. h \in Gens /\ Alive(h)' /\ Says(gen'[h].queue, c)
    BY <1>4, Zenon DEF Saying
  <2>2. h # g
    BY <1>1, <1>2, <2>1, Zenon
  <2> QED  BY <1>1, <2>1, <2>2, Zenon DEF Saying, Alive
<1> QED  BY <1>3, <1>4

LEMMA BornOwes ==
  ASSUME GenType, OnceInv, NEW th \in Threads, NEW g, Born(th, g)
  PROVE  /\ OnceInv' /\ g \notin Living
         /\ CaptureAsked' \subseteq CaptureAsked /\ CaptureOwed' \subseteq CaptureOwed
         /\ PauseSaid' \subseteq PauseSaid /\ PauseOwed' \subseteq PauseOwed
         /\ ResumeOwed' \subseteq ResumeOwed /\ Moving' \subseteq Moving \cup {g}
<1>1. /\ g \in Gens /\ ~Alive(g) /\ gen'[g].inbox = <<"INIT">> /\ gen'[g].queue = <<>>
      /\ \A h \in Gens : h # g => gen'[h] = gen[h]
  BY Zenon DEF Born
<1>2. ASSUME NEW c, c # "INIT"
      PROVE  ~Asks(<<"INIT">>, c) /\ ~Says(<<>>, c) /\ Once(<<"INIT">>, <<>>, c)
  BY <1>2, SMT DEF Asks, Says, Once
<1>3. OnceInv'
  <2> SUFFICES ASSUME NEW h \in Gens, NEW c \in Singles, Alive(h)'
               PROVE  Once(gen'[h].inbox, gen'[h].queue, c)
    BY Zenon DEF OnceInv
  <2>1. CASE h = g
    <3>1. c # "INIT"
      BY SMT DEF Singles
    <3>2. Once(<<"INIT">>, <<>>, c)
      BY <1>2, <3>1
    <3> QED  BY <1>1, <2>1, <3>2, Zenon
  <2>2. CASE h # g
    BY <1>1, <2>2, Zenon DEF OnceInv, Alive
  <2> QED  BY <2>1, <2>2
<1>4. ASSUME NEW c, c # "INIT"
      PROVE  Asking(c)' \subseteq Asking(c) /\ Saying(c)' \subseteq Saying(c)
  BY <1>4, BornAsks
<1>5. /\ Asking("CAPTURE")' \subseteq Asking("CAPTURE") /\ Saying("CAPTURE")' \subseteq Saying("CAPTURE")
      /\ Asking("PAUSE")' \subseteq Asking("PAUSE") /\ Saying("PAUSE")' \subseteq Saying("PAUSE")
      /\ Asking("RESUME")' \subseteq Asking("RESUME") /\ Saying("RESUME")' \subseteq Saying("RESUME")
  BY <1>4
<1>6. Moving' \subseteq Moving \cup {g}
  BY <1>1, Zenon DEF Moving, Alive
<1>7. g \notin Living
  BY <1>1, Zenon DEF Living
<1> QED  BY <1>3, <1>5, <1>6, <1>7, Zenon DEF CaptureAsked, CaptureOwed, PauseSaid, PauseOwed, ResumeOwed
-----------------------------------------------------------------------------
(* OwedInv and FramesInv are kept. *)

(* The scheduler's loop. *)
LEMMA LoopOwes ==
  ASSUME ControlInv, HoldsInv, OwedInv, FramesInv, Lively, Lively', Shrinks,
         \/ Deadline
         \/ Dispatch
         \/ EndLoop
  PROVE  OwedInv' /\ FramesInv'
<1> USE DEF ControlInv, PlacesInv, QuietInv, HoldsInv, OwedInv, FramesInv, Shrinks, Lively,
            AskedFor, TkWorks, Replaced, Restarted, Pausing, Resuming, Stopping, Waiting,
            Tearing, Tick, Tk, Threads, TickPlaces, TkPlaces, Goto, session, scheduler, known, local,
            client, Used, Answered
<1>1. CASE Deadline
  <2>1. OwedInv'
    BY <1>1, SMT DEF Deadline
  <2>2. FramesInv'
    BY <1>1, SMT DEF Deadline
  <2> QED  BY <2>1, <2>2
<1>2. CASE Dispatch
  <2>1. OwedInv'
    BY <1>2, SMT DEF Dispatch, FreeToServe
  <2>2. FramesInv'
    BY <1>2, SMT DEF Dispatch, FreeToServe
  <2> QED  BY <2>1, <2>2
<1>3. CASE EndLoop
  <2>1. OwedInv'
    BY <1>3, SMT DEF EndLoop, LoopOver
  <2>2. FramesInv'
    BY <1>3, SMT DEF EndLoop, LoopOver
  <2> QED  BY <2>1, <2>2
<1> QED  BY <1>1, <1>2, <1>3

(* The tick, but for its calls. *)
LEMMA TickOwes ==
  ASSUME ControlInv, HoldsInv, OwedInv, FramesInv, Lively, Lively', Shrinks,
         \/ CheckState
         \/ Process
         \/ CaptureFailed
         \/ Decide
         \/ RestartFailed
         \/ PauseAfterRestart
         \/ OnPause
         \/ EndTick
  PROVE  OwedInv' /\ FramesInv'
<1> USE DEF ControlInv, PlacesInv, QuietInv, HoldsInv, OwedInv, FramesInv, Shrinks, Lively,
            AskedFor, TkWorks, Replaced, Restarted, Pausing, Resuming, Stopping, Waiting,
            Tearing, Tick, Tk, Threads, TickPlaces, TkPlaces, Goto, session, scheduler, known, local,
            client, Used, Answered
<1>1. CASE CheckState
  <2>1. OwedInv'
    BY <1>1, SMT DEF CheckState
  <2>2. FramesInv'
    BY <1>1, SMT DEF CheckState
  <2> QED  BY <2>1, <2>2
<1>2. CASE Process
  <2>1. OwedInv'
    BY <1>2, SMT DEF Process, AutoPause
  <2>2. FramesInv'
    BY <1>2, SMT DEF Process, AutoPause
  <2> QED  BY <2>1, <2>2
<1>3. CASE CaptureFailed
  <2>1. OwedInv'
    BY <1>3, SMT DEF CaptureFailed, Teardown
  <2>2. FramesInv'
    BY <1>3, SMT DEF CaptureFailed, Teardown
  <2> QED  BY <2>1, <2>2
<1>4. CASE Decide
  <2>1. OwedInv'
    BY <1>4, SMT DEF Decide, AutoPause
  <2>2. FramesInv'
    BY <1>4, SMT DEF Decide, AutoPause
  <2> QED  BY <2>1, <2>2
<1>5. CASE RestartFailed
  <2>1. OwedInv'
    BY <1>5, SMT DEF RestartFailed, Teardown
  <2>2. FramesInv'
    BY <1>5, SMT DEF RestartFailed, Teardown
  <2> QED  BY <2>1, <2>2
<1>6. CASE PauseAfterRestart
  <2>1. OwedInv'
    BY <1>6, SMT DEF PauseAfterRestart, AutoPause
  <2>2. FramesInv'
    BY <1>6, SMT DEF PauseAfterRestart, AutoPause
  <2> QED  BY <2>1, <2>2
<1>7. CASE OnPause
  <2>1. OwedInv'
    BY <1>7, SMT DEF OnPause, RunningAfterPause
  <2>2. FramesInv'
    BY <1>7, SMT DEF OnPause, RunningAfterPause
  <2> QED  BY <2>1, <2>2
<1>8. CASE EndTick
  <2>1. OwedInv'
    BY <1>8, SMT DEF EndTick
  <2>2. FramesInv'
    BY <1>8, SMT DEF EndTick
  <2> QED  BY <2>1, <2>2
<1> QED  BY <1>1, <1>2, <1>3, <1>4, <1>5, <1>6, <1>7, <1>8

(* The handlers of the Tk thread, but for their calls. *)
LEMMA TkOwes ==
  ASSUME ControlInv, HoldsInv, OwedInv, FramesInv, Lively, Lively', Shrinks,
         \/ ClickPause
         \/ Drain("drain_pause", "ask_pause")
         \/ PauseFailed
         \/ EndPause
         \/ ClickResume
         \/ Drain("drain_resume", "begin_resume")
         \/ BeginResume
         \/ ResumeFailed
         \/ EndResume
         \/ RestartScheduler
         \/ \E how \in {"ask_stop", "emergency", "close"} : ClickStop(how)
         \/ DrainStop
         \/ StopMachine
         \/ EmergencyStop
         \/ CloseWindow
         \/ Finalize
  PROVE  OwedInv' /\ FramesInv'
<1> USE DEF ControlInv, PlacesInv, QuietInv, HoldsInv, OwedInv, FramesInv, Shrinks, Lively,
            AskedFor, TkWorks, Replaced, Restarted, Pausing, Resuming, Stopping, Waiting,
            Tearing, Tick, Tk, Threads, TickPlaces, TkPlaces, Goto, session, scheduler, known, local,
            client, Used, Answered
<1>1. CASE ClickPause
  <2>1. OwedInv'
    BY <1>1, SMT DEF ClickPause
  <2>2. FramesInv'
    BY <1>1, SMT DEF ClickPause
  <2> QED  BY <2>1, <2>2
<1>2. CASE Drain("drain_pause", "ask_pause")
  <2>1. OwedInv'
    BY <1>2, SMT DEF Drain
  <2>2. FramesInv'
    BY <1>2, SMT DEF Drain
  <2> QED  BY <2>1, <2>2
<1>3. CASE PauseFailed
  <2>1. OwedInv'
    BY <1>3, SMT DEF PauseFailed, Teardown
  <2>2. FramesInv'
    BY <1>3, SMT DEF PauseFailed, Teardown
  <2> QED  BY <2>1, <2>2
<1>4. CASE EndPause
  <2>1. OwedInv'
    BY <1>4, SMT DEF EndPause
  <2>2. FramesInv'
    BY <1>4, SMT DEF EndPause
  <2> QED  BY <2>1, <2>2
<1>5. CASE ClickResume
  <2>1. OwedInv'
    BY <1>5, SMT DEF ClickResume
  <2>2. FramesInv'
    BY <1>5, SMT DEF ClickResume
  <2> QED  BY <2>1, <2>2
<1>6. CASE Drain("drain_resume", "begin_resume")
  <2>1. OwedInv'
    BY <1>6, SMT DEF Drain
  <2>2. FramesInv'
    BY <1>6, SMT DEF Drain
  <2> QED  BY <2>1, <2>2
<1>7. CASE BeginResume
  <2>1. OwedInv'
    BY <1>7, SMT DEF BeginResume
  <2>2. FramesInv'
    BY <1>7, SMT DEF BeginResume
  <2> QED  BY <2>1, <2>2
<1>8. CASE ResumeFailed
  <2>1. OwedInv'
    BY <1>8, SMT DEF ResumeFailed, Teardown
  <2>2. FramesInv'
    BY <1>8, SMT DEF ResumeFailed, Teardown
  <2> QED  BY <2>1, <2>2
<1>9. CASE EndResume
  <2>1. OwedInv'
    BY <1>9, SMT DEF EndResume
  <2>2. FramesInv'
    BY <1>9, SMT DEF EndResume
  <2> QED  BY <2>1, <2>2
<1>10. CASE \E how \in {"ask_stop", "emergency", "close"} : ClickStop(how)
  <2>1. OwedInv'
    BY <1>10, SMT DEF ClickStop
  <2>2. FramesInv'
    BY <1>10, SMT DEF ClickStop
  <2> QED  BY <2>1, <2>2
<1>11. CASE DrainStop
  <2>1. OwedInv'
    BY <1>11, SMT DEF DrainStop, Joined
  <2>2. FramesInv'
    BY <1>11, SMT DEF DrainStop, Joined
  <2> QED  BY <2>1, <2>2
<1>12. CASE StopMachine
  <2>1. OwedInv'
    BY <1>12, SMT DEF StopMachine
  <2>2. FramesInv'
    BY <1>12, SMT DEF StopMachine
  <2> QED  BY <2>1, <2>2
<1>13. CASE EmergencyStop
  <2>1. OwedInv'
    BY <1>13, SMT DEF EmergencyStop, Teardown
  <2>2. FramesInv'
    BY <1>13, SMT DEF EmergencyStop, Teardown
  <2> QED  BY <2>1, <2>2
<1>14. CASE CloseWindow
  <2>1. OwedInv'
    BY <1>14, SMT DEF CloseWindow, Teardown
  <2>2. FramesInv'
    BY <1>14, SMT DEF CloseWindow, Teardown
  <2> QED  BY <2>1, <2>2
<1>15. CASE Finalize
  <2>1. OwedInv'
    BY <1>15, SMT DEF Finalize
  <2>2. FramesInv'
    BY <1>15, SMT DEF Finalize
  <2> QED  BY <2>1, <2>2
<1>16. CASE RestartScheduler
  <2>1. OwedInv'
    BY <1>16, SMT DEF RestartScheduler
  <2>2. FramesInv'
    BY <1>16, SMT DEF RestartScheduler
  <2> QED  BY <2>1, <2>2
<1> QED  BY <1>1, <1>2, <1>3, <1>4, <1>5, <1>6, <1>7, <1>8, <1>9, <1>10, <1>11, <1>12, <1>13, <1>14, <1>15, <1>16

(* The teardowns. *)
LEMMA TeardownOwes ==
  ASSUME ControlInv, HoldsInv, OwedInv, FramesInv, Lively, Lively', GensInv, Shrinks,
         \/ Kill("tick")
         \/ Kill("tk")
         \/ Reap("tick")
         \/ Reap("tk")
  PROVE  OwedInv' /\ FramesInv'
<1> USE DEF ControlInv, PlacesInv, QuietInv, HoldsInv, OwedInv, FramesInv, Shrinks, Lively,
            AskedFor, TkWorks, Replaced, Restarted, Pausing, Resuming, Stopping, Waiting,
            Tearing, Tick, Tk, Threads, TickPlaces, TkPlaces, Goto, session, scheduler, known, local,
            client, Used, Answered
<1>1. CASE Kill("tick")
  <2>1. /\ pc["tick"] = "kill" /\ pc' = [pc EXCEPT !["tick"] = "reap"]
        /\ UNCHANGED <<session, scheduler, known, local, asked>>
    BY <1>1, Zenon DEF Kill
  <2>2. hold["tick"] \notin Living'
    <3>1. hold["tick"] # NoGen => gen'[hold["tick"]].process = "dead"
      BY <1>1, KillFewer, Zenon DEF GensInv
    <3> QED  BY <3>1, ThreadsAssumption, SMT DEF Living, Alive
  <2>3. OwedInv'
    BY <2>1, <2>2, SMT
  <2>4. FramesInv'
    BY <2>1, <2>2, SMT
  <2> QED  BY <2>3, <2>4
<1>2. CASE Kill("tk")
  <2>1. /\ pc["tk"] = "kill" /\ pc' = [pc EXCEPT !["tk"] = "reap"]
        /\ UNCHANGED <<session, scheduler, known, local, asked>>
    BY <1>2, Zenon DEF Kill
  <2>2. hold["tk"] \notin Living'
    <3>1. hold["tk"] # NoGen => gen'[hold["tk"]].process = "dead"
      BY <1>2, KillFewer, Zenon DEF GensInv
    <3> QED  BY <3>1, ThreadsAssumption, SMT DEF Living, Alive
  <2>3. OwedInv'
    BY <2>1, <2>2, SMT
  <2>4. FramesInv'
    BY <2>1, <2>2, SMT
  <2> QED  BY <2>3, <2>4
<1>3. CASE Reap("tick")
  <2>1. /\ pc["tick"] = "reap" /\ pc' = [pc EXCEPT !["tick"] = then["tick"]]
        /\ worker' = IF hold["tick"] = NoGen THEN worker ELSE NoGen
        /\ hold' = [hold EXCEPT !["tick"] = NoGen]
        /\ then' = [then EXCEPT !["tick"] = "idle"]
        /\ UNCHANGED <<session, scheduler, asked>>
    BY <1>3, Zenon DEF Reap
  <2>2. OwedInv'
    BY <2>1, SMT
  <2>3. FramesInv'
    BY <2>1, SMT
  <2> QED  BY <2>2, <2>3
<1>4. CASE Reap("tk")
  <2>1. /\ pc["tk"] = "reap" /\ pc' = [pc EXCEPT !["tk"] = then["tk"]]
        /\ worker' = IF hold["tk"] = NoGen THEN worker ELSE NoGen
        /\ hold' = [hold EXCEPT !["tk"] = NoGen]
        /\ then' = [then EXCEPT !["tk"] = "idle"]
        /\ UNCHANGED <<session, scheduler, asked>>
    BY <1>4, Zenon DEF Reap
  <2>2. OwedInv'
    BY <2>1, SMT
  <2>3. FramesInv'
    BY <2>1, SMT
  <2> QED  BY <2>2, <2>3
<1> QED  BY <1>1, <1>2, <1>3, <1>4

(* A request: the worker owes one command more, unless the call fails. *)
Grows(g, d) ==
  /\ PauseSaid' \subseteq PauseSaid /\ Moving' \subseteq Moving
  /\ CaptureAsked' \subseteq CaptureAsked \cup {h \in {g} : d = "CAPTURE"}
  /\ CaptureOwed' \subseteq CaptureOwed \cup {h \in {g} : d = "CAPTURE"}
  /\ PauseOwed' \subseteq PauseOwed \cup {h \in {g} : d = "PAUSE"}
  /\ ResumeOwed' \subseteq ResumeOwed \cup {h \in {g} : d = "RESUME"}

LEMMA RequestOwes ==
  ASSUME GenType, OnceInv, NEW th \in Threads, NEW g \in Gens, NEW d \in Commands,
         d = "CAPTURE" => g \notin CaptureOwed, d = "PAUSE" => g \notin PauseOwed,
         d = "RESUME" => g \notin ResumeOwed, Request(th, g, d)
  PROVE  /\ OnceInv' /\ Grows(g, d)
         /\ \/ /\ Shrinks /\ asked' = asked
               /\ pc' = [pc EXCEPT ![th] = AfterReply(th, d, "ERROR")]
            \/ /\ asked' = [asked EXCEPT ![th] = [gen |-> g, command |-> d]]
               /\ pc' = [pc EXCEPT ![th] = "wait"]
<1>1. CASE /\ gen' = gen /\ asked' = asked
           /\ pc' = [pc EXCEPT ![th] = AfterReply(th, d, "ERROR")]
  <2>1. OnceInv' /\ Shrinks
    BY <1>1, NoneFewer, FewerOnce, FewerShrinks
  <2>2. Grows(g, d)
    BY <2>1, Zenon DEF Shrinks, Grows
  <2> QED  BY <1>1, <2>1, <2>2
<1>2. CASE /\ Sent(g, d)
           /\ asked' = [asked EXCEPT ![th] = [gen |-> g, command |-> d]]
           /\ pc' = [pc EXCEPT ![th] = "wait"]
  <2>1. d \in Singles => g \notin Asking(d) \cup Saying(d)
    BY Zenon DEF Singles, CaptureOwed, PauseOwed, ResumeOwed
  <2>2. OnceInv'
    BY <1>2, <2>1, SentOnce
  <2>3. /\ Moving' = Moving
        /\ \A c : /\ Saying(c)' = Saying(c)
                  /\ Asking(c)' \subseteq IF c = d THEN Asking(c) \cup {g} ELSE Asking(c)
    BY <1>2, SentOwes
  <2>4. Grows(g, d)
    BY <2>3, Zenon DEF Grows, CaptureAsked, CaptureOwed, PauseSaid, PauseOwed, ResumeOwed
  <2> QED  BY <1>2, <2>2, <2>4
<1> QED  BY <1>1, <1>2, RequestSends

LEMMA RequestKeeps ==
  ASSUME ControlInv, GensInv, HoldsInv, OnceInv, OwedInv, FramesInv, Lively, Lively',
         Capture \/ AskPause \/ AskResume \/ AskStop \/ ShutDown
  PROVE  OnceInv' /\ OwedInv' /\ FramesInv'
<1> USE DEF ControlInv, PlacesInv, QuietInv, HoldsInv, OwedInv, FramesInv, Shrinks, Lively,
            AskedFor, TkWorks, Replaced, Restarted, Pausing, Resuming, Stopping, Waiting,
            Tearing, Tick, Tk, Threads, TickPlaces, TkPlaces, Goto, session, scheduler, known, local,
            client, Used, Answered
<1>0. gen' = gen => OnceInv' /\ Shrinks
  BY NoneFewer, FewerOnce, FewerShrinks, Zenon DEF GensInv
<1> HIDE DEF Shrinks
<1>1. CASE Capture
  <2>1. CASE Request("tick", worker, "CAPTURE") /\ worker # NoGen
    <3>1. worker \in Gens
      BY <2>1, SMT
    <3>2. /\ "CAPTURE" = "CAPTURE" => worker \notin CaptureOwed
          /\ "CAPTURE" = "PAUSE" => worker \notin PauseOwed
          /\ "CAPTURE" = "RESUME" => worker \notin ResumeOwed
      BY <1>1, SMT DEF Capture
    <3>3. /\ OnceInv' /\ Grows(worker, "CAPTURE")
          /\ \/ /\ Shrinks /\ asked' = asked
                /\ pc' = [pc EXCEPT !["tick"] = AfterReply("tick", "CAPTURE", "ERROR")]
             \/ /\ asked' = [asked EXCEPT !["tick"] = [gen |-> worker, command |-> "CAPTURE"]]
                /\ pc' = [pc EXCEPT !["tick"] = "wait"]
      BY <2>1, <3>1, <3>2, RequestOwes, Zenon DEF GensInv, Commands
    <3>4. OwedInv'
      BY <1>1, <2>1, <3>3, AfterReplies, SMT DEF Capture, Grows, Shrinks
    <3>5. FramesInv'
      BY <1>1, <2>1, <3>3, AfterReplies, SMT DEF Capture, Grows, Shrinks
    <3> QED  BY <3>3, <3>4, <3>5
  <2>2. CASE ~(Request("tick", worker, "CAPTURE") /\ worker # NoGen)
    <3>1. OnceInv' /\ Shrinks
      BY <1>1, <2>2, <1>0, Zenon DEF Capture
    <3>2. OwedInv'
      BY <1>1, <2>2, <3>1, SMT DEF Capture, Shrinks
    <3>3. FramesInv'
      BY <1>1, <2>2, <3>1, SMT DEF Capture, Shrinks
    <3> QED  BY <3>1, <3>2, <3>3
  <2> QED  BY <2>1, <2>2
<1>2. CASE AskPause
  <2>1. CASE Request("tk", worker, "PAUSE") /\ worker # NoGen
    <3>1. worker \in Gens
      BY <2>1, SMT
    <3>2. /\ "PAUSE" = "CAPTURE" => worker \notin CaptureOwed
          /\ "PAUSE" = "PAUSE" => worker \notin PauseOwed
          /\ "PAUSE" = "RESUME" => worker \notin ResumeOwed
      BY <1>2, SMT DEF AskPause
    <3>3. /\ OnceInv' /\ Grows(worker, "PAUSE")
          /\ \/ /\ Shrinks /\ asked' = asked
                /\ pc' = [pc EXCEPT !["tk"] = AfterReply("tk", "PAUSE", "ERROR")]
             \/ /\ asked' = [asked EXCEPT !["tk"] = [gen |-> worker, command |-> "PAUSE"]]
                /\ pc' = [pc EXCEPT !["tk"] = "wait"]
      BY <2>1, <3>1, <3>2, RequestOwes, Zenon DEF GensInv, Commands
    <3>4. OwedInv'
      BY <1>2, <2>1, <3>3, AfterReplies, SMT DEF AskPause, Grows, Shrinks
    <3>5. FramesInv'
      BY <1>2, <2>1, <3>3, AfterReplies, SMT DEF AskPause, Grows, Shrinks
    <3> QED  BY <3>3, <3>4, <3>5
  <2>2. CASE ~(Request("tk", worker, "PAUSE") /\ worker # NoGen)
    <3>1. OnceInv' /\ Shrinks
      BY <1>2, <2>2, <1>0, Zenon DEF AskPause
    <3>2. OwedInv'
      BY <1>2, <2>2, <3>1, SMT DEF AskPause, Shrinks
    <3>3. FramesInv'
      BY <1>2, <2>2, <3>1, SMT DEF AskPause, Shrinks
    <3> QED  BY <3>1, <3>2, <3>3
  <2> QED  BY <2>1, <2>2
<1>3. CASE AskResume
  <2>1. CASE Request("tk", worker, "RESUME") /\ worker # NoGen
    <3>1. worker \in Gens
      BY <2>1, SMT
    <3>2. /\ "RESUME" = "CAPTURE" => worker \notin CaptureOwed
          /\ "RESUME" = "PAUSE" => worker \notin PauseOwed
          /\ "RESUME" = "RESUME" => worker \notin ResumeOwed
      BY <1>3, SMT DEF AskResume
    <3>3. /\ OnceInv' /\ Grows(worker, "RESUME")
          /\ \/ /\ Shrinks /\ asked' = asked
                /\ pc' = [pc EXCEPT !["tk"] = AfterReply("tk", "RESUME", "ERROR")]
             \/ /\ asked' = [asked EXCEPT !["tk"] = [gen |-> worker, command |-> "RESUME"]]
                /\ pc' = [pc EXCEPT !["tk"] = "wait"]
      BY <2>1, <3>1, <3>2, RequestOwes, Zenon DEF GensInv, Commands
    <3>4. OwedInv'
      BY <1>3, <2>1, <3>3, AfterReplies, SMT DEF AskResume, Grows, Shrinks
    <3>5. FramesInv'
      BY <1>3, <2>1, <3>3, AfterReplies, SMT DEF AskResume, Grows, Shrinks
    <3> QED  BY <3>3, <3>4, <3>5
  <2>2. CASE ~(Request("tk", worker, "RESUME") /\ worker # NoGen)
    <3>1. OnceInv' /\ Shrinks
      BY <1>3, <2>2, <1>0, Zenon DEF AskResume
    <3>2. OwedInv'
      BY <1>3, <2>2, <3>1, SMT DEF AskResume, Shrinks
    <3>3. FramesInv'
      BY <1>3, <2>2, <3>1, SMT DEF AskResume, Shrinks
    <3> QED  BY <3>1, <3>2, <3>3
  <2> QED  BY <2>1, <2>2
<1>4. CASE AskStop
  <2>1. CASE Request("tk", worker, "STOP") /\ worker # NoGen
    <3>1. worker \in Gens
      BY <2>1, SMT
    <3>2. /\ "STOP" = "CAPTURE" => worker \notin CaptureOwed
          /\ "STOP" = "PAUSE" => worker \notin PauseOwed
          /\ "STOP" = "RESUME" => worker \notin ResumeOwed
      BY <1>4, SMT DEF AskStop
    <3>3. /\ OnceInv' /\ Grows(worker, "STOP")
          /\ \/ /\ Shrinks /\ asked' = asked
                /\ pc' = [pc EXCEPT !["tk"] = AfterReply("tk", "STOP", "ERROR")]
             \/ /\ asked' = [asked EXCEPT !["tk"] = [gen |-> worker, command |-> "STOP"]]
                /\ pc' = [pc EXCEPT !["tk"] = "wait"]
      BY <2>1, <3>1, <3>2, RequestOwes, Zenon DEF GensInv, Commands
    <3>4. OwedInv'
      BY <1>4, <2>1, <3>3, AfterReplies, SMT DEF AskStop, Grows, Shrinks
    <3>5. FramesInv'
      BY <1>4, <2>1, <3>3, AfterReplies, SMT DEF AskStop, Grows, Shrinks
    <3> QED  BY <3>3, <3>4, <3>5
  <2>2. CASE ~(Request("tk", worker, "STOP") /\ worker # NoGen)
    <3>1. OnceInv' /\ Shrinks
      BY <1>4, <2>2, <1>0, Zenon DEF AskStop
    <3>2. OwedInv'
      BY <1>4, <2>2, <3>1, SMT DEF AskStop, Shrinks
    <3>3. FramesInv'
      BY <1>4, <2>2, <3>1, SMT DEF AskStop, Shrinks
    <3> QED  BY <3>1, <3>2, <3>3
  <2> QED  BY <2>1, <2>2
<1>5. CASE ShutDown
  <2>1. CASE Request("tk", worker, "SHUTDOWN") /\ worker # NoGen
    <3>1. worker \in Gens
      BY <2>1, SMT
    <3>2. /\ "SHUTDOWN" = "CAPTURE" => worker \notin CaptureOwed
          /\ "SHUTDOWN" = "PAUSE" => worker \notin PauseOwed
          /\ "SHUTDOWN" = "RESUME" => worker \notin ResumeOwed
      BY <1>5, SMT DEF ShutDown
    <3>3. /\ OnceInv' /\ Grows(worker, "SHUTDOWN")
          /\ \/ /\ Shrinks /\ asked' = asked
                /\ pc' = [pc EXCEPT !["tk"] = AfterReply("tk", "SHUTDOWN", "ERROR")]
             \/ /\ asked' = [asked EXCEPT !["tk"] = [gen |-> worker, command |-> "SHUTDOWN"]]
                /\ pc' = [pc EXCEPT !["tk"] = "wait"]
      BY <2>1, <3>1, <3>2, RequestOwes, Zenon DEF GensInv, Commands
    <3>4. OwedInv'
      BY <1>5, <2>1, <3>3, AfterReplies, SMT DEF ShutDown, Grows, Shrinks
    <3>5. FramesInv'
      BY <1>5, <2>1, <3>3, AfterReplies, SMT DEF ShutDown, Grows, Shrinks
    <3> QED  BY <3>3, <3>4, <3>5
  <2>2. CASE ~(Request("tk", worker, "SHUTDOWN") /\ worker # NoGen)
    <3>1. OnceInv' /\ Shrinks
      BY <1>5, <2>2, <1>0, Zenon DEF ShutDown
    <3>2. OwedInv'
      BY <1>5, <2>2, <3>1, SMT DEF ShutDown, Shrinks
    <3>3. FramesInv'
      BY <1>5, <2>2, <3>1, SMT DEF ShutDown, Shrinks
    <3> QED  BY <3>1, <3>2, <3>3
  <2> QED  BY <2>1, <2>2
<1> QED  BY <1>1, <1>2, <1>3, <1>4, <1>5

(* A return: what was asked is no longer owed, or the call has failed. *)
LEMMA TakeReplyCases ==
  ASSUME GenType, OnceInv, NEW th \in Threads, asked[th].gen \in Gens, TakeReply(th)
  PROVE  /\ pc[th] = "wait" /\ UNCHANGED <<session, scheduler, known, local>>
         /\ OnceInv' /\ Shrinks
         /\ \/ UNCHANGED <<pc, asked>>
            \/ \E reply :
                 /\ pc' = [pc EXCEPT ![th] = AfterReply(th, asked[th].command, reply)]
                 /\ asked' = [asked EXCEPT ![th] = NoAsk]
                 /\ \/ reply = "ERROR"
                    \/ /\ asked[th].command = "CAPTURE" => asked[th].gen \notin CaptureOwed'
                       /\ asked[th].command = "PAUSE" =>
                            /\ asked[th].gen \notin PauseOwed'
                            /\ asked[th].gen \in Living => asked[th].gen \in PauseSaid
                       /\ asked[th].command = "RESUME" => asked[th].gen \notin ResumeOwed'
<1> DEFINE g == asked[th].gen
           head == Head(gen[g].queue)
           rest == Tail(gen[g].queue)
<1>1. /\ OnceInv' /\ Shrinks
      /\ \A c \in Singles :
           head.command = c => /\ g \notin Asking(c)' \cup Saying(c)'
                               /\ g \in Living => g \in Saying(c)
  BY TakeReplyOnce
<1>2. pc[th] = "wait" /\ UNCHANGED <<session, scheduler, known, local>>
  BY Zenon DEF TakeReply
<1>3. \/ UNCHANGED <<pc, asked>>
      \/ Returns(th, "ERROR", rest)
      \/ Returns(th, head.reply, rest) /\ head.command = asked[th].command
  BY Zenon DEF TakeReply, IsMine
<1> HIDE DEF head, rest, g
<1>4. CASE Returns(th, "ERROR", rest)
  BY <1>1, <1>2, <1>4, ReturnMoves, Zenon
<1>5. CASE Returns(th, head.reply, rest) /\ head.command = asked[th].command
  <2>1. /\ pc' = [pc EXCEPT ![th] = AfterReply(th, asked[th].command, head.reply)]
        /\ asked' = [asked EXCEPT ![th] = NoAsk]
    BY <1>5, ReturnMoves
  <2>2. asked[th].command = "CAPTURE" => g \notin CaptureOwed'
    BY <1>1, <1>5, Zenon DEF CaptureOwed, Singles
  <2>3. asked[th].command = "PAUSE" => g \notin PauseOwed' /\ (g \in Living => g \in PauseSaid)
    BY <1>1, <1>5, Zenon DEF PauseOwed, PauseSaid, Singles
  <2>4. asked[th].command = "RESUME" => g \notin ResumeOwed'
    BY <1>1, <1>5, Zenon DEF ResumeOwed, Singles
  <2> QED  BY <1>1, <1>2, <2>1, <2>2, <2>3, <2>4, Zenon DEF g
<1> QED  BY <1>1, <1>2, <1>3, <1>4, <1>5, Zenon

LEMMA TimeOutCases ==
  ASSUME GenType, OnceInv, NEW th \in Threads, asked[th].gen \in Gens, TimeOut(th)
  PROVE  /\ pc[th] = "wait" /\ UNCHANGED <<session, scheduler, known, local>>
         /\ OnceInv' /\ Shrinks
         /\ pc' = [pc EXCEPT ![th] = AfterReply(th, asked[th].command, "ERROR")]
         /\ asked' = [asked EXCEPT ![th] = NoAsk]
<1>1. OnceInv' /\ Shrinks
  BY TimeOutFewer, FewerOnce, FewerShrinks
<1> QED  BY <1>1, ReturnMoves, Zenon DEF TimeOut, TimedOut

LEMMA ReturnKeeps ==
  ASSUME ControlInv, GensInv, HoldsInv, OnceInv, OwedInv, FramesInv, Lively, Lively',
         TakeReply("tick") \/ TimeOut("tick") \/ TakeReply("tk") \/ TimeOut("tk")
  PROVE  OnceInv' /\ OwedInv' /\ FramesInv'
<1> USE DEF ControlInv, PlacesInv, QuietInv, HoldsInv, OwedInv, FramesInv, Shrinks, Lively,
            AskedFor, TkWorks, Replaced, Restarted, Pausing, Resuming, Stopping, Waiting,
            Tearing, Tick, Tk, Threads, TickPlaces, TkPlaces, Goto, session, scheduler, known, local,
            client, Used, Answered
<1> HIDE DEF Shrinks
<1>1. CASE TakeReply("tick")
  <2>0. pc["tick"] = "wait" /\ asked["tick"].gen \in Gens
    BY <1>1, SMTT(30) DEF TakeReply
  <2> DEFINE g == asked["tick"].gen
             Done(reply) ==
               /\ pc' = [pc EXCEPT !["tick"] = AfterReply("tick", asked["tick"].command, reply)]
               /\ asked' = [asked EXCEPT !["tick"] = NoAsk]
               /\ \/ reply = "ERROR"
                  \/ /\ asked["tick"].command = "CAPTURE" => g \notin CaptureOwed'
                     /\ asked["tick"].command = "PAUSE" =>
                          g \notin PauseOwed' /\ (g \in Living => g \in PauseSaid)
                     /\ asked["tick"].command = "RESUME" => g \notin ResumeOwed'
  <2>1. /\ UNCHANGED <<session, scheduler, known, local>>
        /\ OnceInv' /\ Shrinks
        /\ UNCHANGED <<pc, asked>> \/ \E reply : Done(reply)
    BY <1>1, <2>0, TakeReplyCases, Zenon DEF GensInv, Threads
  <2>2. CASE UNCHANGED <<pc, asked>>
    <3>1. OwedInv'
      BY <2>1, <2>2, SMT DEF Shrinks
    <3>2. FramesInv'
      BY <2>1, <2>2, SMT DEF Shrinks
    <3> QED  BY <2>1, <3>1, <3>2
  <2>3. CASE \E reply : Done(reply)
    <3>1. OwedInv'
      BY <2>0, <2>1, <2>3, AfterReplies, SMT DEF Shrinks, NoAsk, Commands
    <3>2. FramesInv'
      BY <2>0, <2>1, <2>3, AfterReplies, SMT DEF Shrinks, NoAsk, Commands
    <3> QED  BY <2>1, <3>1, <3>2
  <2> QED  BY <2>1, <2>2, <2>3
<1>2. CASE TimeOut("tick")
  <2>0. pc["tick"] = "wait" /\ asked["tick"].gen \in Gens
    BY <1>2, SMT DEF TimeOut, TimedOut
  <2>1. /\ UNCHANGED <<session, scheduler, known, local>>
        /\ OnceInv' /\ Shrinks
        /\ pc' = [pc EXCEPT !["tick"] = AfterReply("tick", asked["tick"].command, "ERROR")]
        /\ asked' = [asked EXCEPT !["tick"] = NoAsk]
    BY <1>2, <2>0, TimeOutCases, Zenon DEF GensInv, Threads
  <2>2. OwedInv'
    BY <2>0, <2>1, AfterReplies, SMT DEF Shrinks, NoAsk, Commands
  <2>3. FramesInv'
    BY <2>0, <2>1, AfterReplies, SMT DEF Shrinks, NoAsk, Commands
  <2> QED  BY <2>1, <2>2, <2>3
<1>3. CASE TakeReply("tk")
  <2>0. pc["tk"] = "wait" /\ asked["tk"].gen \in Gens
    BY <1>3, SMTT(30) DEF TakeReply
  <2> DEFINE g == asked["tk"].gen
             Done(reply) ==
               /\ pc' = [pc EXCEPT !["tk"] = AfterReply("tk", asked["tk"].command, reply)]
               /\ asked' = [asked EXCEPT !["tk"] = NoAsk]
               /\ \/ reply = "ERROR"
                  \/ /\ asked["tk"].command = "CAPTURE" => g \notin CaptureOwed'
                     /\ asked["tk"].command = "PAUSE" =>
                          g \notin PauseOwed' /\ (g \in Living => g \in PauseSaid)
                     /\ asked["tk"].command = "RESUME" => g \notin ResumeOwed'
  <2>1. /\ UNCHANGED <<session, scheduler, known, local>>
        /\ OnceInv' /\ Shrinks
        /\ UNCHANGED <<pc, asked>> \/ \E reply : Done(reply)
    BY <1>3, <2>0, TakeReplyCases, Zenon DEF GensInv, Threads
  <2>2. CASE UNCHANGED <<pc, asked>>
    <3>1. OwedInv'
      BY <2>1, <2>2, SMT DEF Shrinks
    <3>2. FramesInv'
      BY <2>1, <2>2, SMT DEF Shrinks
    <3> QED  BY <2>1, <3>1, <3>2
  <2>3. CASE \E reply : Done(reply)
    <3>1. OwedInv'
      BY <2>0, <2>1, <2>3, AfterReplies, SMT DEF Shrinks, NoAsk, Commands
    <3>2. FramesInv'
      BY <2>0, <2>1, <2>3, AfterReplies, SMT DEF Shrinks, NoAsk, Commands
    <3> QED  BY <2>1, <3>1, <3>2
  <2> QED  BY <2>1, <2>2, <2>3
<1>4. CASE TimeOut("tk")
  <2>0. pc["tk"] = "wait" /\ asked["tk"].gen \in Gens
    BY <1>4, SMT DEF TimeOut, TimedOut
  <2>1. /\ UNCHANGED <<session, scheduler, known, local>>
        /\ OnceInv' /\ Shrinks
        /\ pc' = [pc EXCEPT !["tk"] = AfterReply("tk", asked["tk"].command, "ERROR")]
        /\ asked' = [asked EXCEPT !["tk"] = NoAsk]
    BY <1>4, <2>0, TimeOutCases, Zenon DEF GensInv, Threads
  <2>2. OwedInv'
    BY <2>0, <2>1, AfterReplies, SMT DEF Shrinks, NoAsk, Commands
  <2>3. FramesInv'
    BY <2>0, <2>1, AfterReplies, SMT DEF Shrinks, NoAsk, Commands
  <2> QED  BY <2>1, <2>2, <2>3
<1> QED  BY <1>1, <1>2, <1>3, <1>4

(* The exit leaves nobody to owe anything. *)
LEMMA ExitKeeps ==
  ASSUME ControlInv, HoldsInv, OwedInv, FramesInv, Lively', Exit
  PROVE  OnceInv' /\ OwedInv' /\ FramesInv'
<1>1. gen' = [g \in Gens |-> Unborn]
  BY Zenon DEF Exit
<1>2. \A g \in Gens : ~Alive(g)'
  BY <1>1, UnbornIs, SMT DEF Alive
<1>3. OnceInv' /\ Living' = {}
  BY <1>2, Zenon DEF OnceInv, Living
<1> USE DEF ControlInv, PlacesInv, QuietInv, HoldsInv, OwedInv, FramesInv, Lively,
            AskedFor, Waiting, Tearing, Tick, Tk, Threads, session
<1>4. OwedInv'
  BY <1>3, SMT
<1>5. FramesInv'
  <2>1. paused_frame' = FALSE /\ CaptureAsked' = {} /\ Moving' = {}
    BY <1>3, SMT DEF Exit
  <2> QED  BY <2>1, SMT
<1> QED  BY <1>3, <1>4, <1>5

(* A generation serves a command, dies, or its stream ends. *)
LEMMA GenerationKeeps ==
  ASSUME ControlInv, GensInv, OnceInv, OwedInv, FramesInv, Lively, Lively', NEW g \in Gens,
         Serve(g) \/ Die(g) \/ EndOfStream(g)
  PROVE  OnceInv' /\ OwedInv' /\ FramesInv'
<1> USE DEF ControlInv, PlacesInv, QuietInv, OwedInv, FramesInv, Shrinks, Lively,
            AskedFor, Resuming, Pausing, Stopping, Waiting, Tearing, Tick, Tk, Threads,
            session, scheduler, known, local
<1> DEFINE Still == UNCHANGED <<state, scheduler, known, pc, local, asked>>
<1>1. Still
  BY Zenon DEF Serve, Die, EndOfStream
<1>2. CASE Die(g) \/ EndOfStream(g)
  <2>1. OnceInv' /\ Shrinks
    BY <1>2, DieFewer, EndOfStreamFewer, FewerOnce, FewerShrinks, Zenon DEF GensInv
  <2>2. paused_frame' = FALSE
    BY <1>2, Zenon DEF Die, EndOfStream
  <2>3. OwedInv'
    BY <1>1, <2>1, SMT
  <2>4. FramesInv'
    BY <1>1, <2>1, <2>2, SMT
  <2> QED  BY <2>1, <2>3, <2>4
<1>3. CASE Serve(g)
  <2>1. PICK c \in Commands, reply \in {"OK", "REFUSED"} : Served(g, c, reply)
    BY <1>3, ServeServes DEF GensInv
  <2>2. /\ OnceInv'
        /\ CaptureAsked' \subseteq CaptureAsked /\ CaptureOwed' \subseteq CaptureOwed
        /\ PauseOwed' \subseteq PauseOwed /\ ResumeOwed' \subseteq ResumeOwed
        /\ Moving' \subseteq Moving \/ (g \in ResumeOwed /\ Moving' \subseteq Moving \cup {g})
        /\ PauseSaid' \cap Moving' \subseteq PauseSaid \cap Moving
           \/ (g \in ResumeOwed /\ PauseSaid' \cap Moving' \subseteq (PauseSaid \cap Moving) \cup {g})
    BY <2>1, ServedOwes DEF GensInv
  <2>3. paused_frame' = FALSE
    <3>1. paused_frame' = (\/ paused_frame
                           \/ /\ Head(gen[g].inbox) = "CAPTURE" /\ state = "PAUSED"
                              /\ gen[g].mode = "RECORDING")
      BY <1>3, Zenon DEF Serve
    <3>2. Head(gen[g].inbox) = "CAPTURE" => g \in CaptureAsked
      <4>1. Alive(g) /\ gen[g].inbox \in Seq(Commands) /\ gen[g].inbox # <<>>
        BY <2>1, Zenon DEF Served
      <4> QED  BY <4>1, AsksTail, Zenon DEF CaptureAsked, Asking
    <3>3. gen[g].mode = "RECORDING" => g \in Moving
      BY <2>1, Zenon DEF Served, Moving
    <3>4. state = "PAUSED" => g \notin CaptureAsked \cap Moving
      BY Zenon
    <3>5. paused_frame = FALSE
      BY Zenon
    <3> QED  BY <3>1, <3>2, <3>3, <3>4, <3>5, Zenon
  <2>4. OwedInv'
    BY <1>1, <2>2, SMT
  <2>5. FramesInv'
    BY <1>1, <2>2, <2>3, SMT
  <2> QED  BY <2>2, <2>4, <2>5
<1> QED  BY <1>2, <1>3

(* A choice: the generation chosen owes nothing. *)
LEMMA SpawnKeeps ==
  ASSUME ControlInv, GensInv, HoldsInv, OnceInv, OwedInv, FramesInv, Lively, Lively',
         NEW th \in Threads, Spawn(th)
  PROVE  OnceInv' /\ OwedInv' /\ FramesInv'
<1>1. PICK g \in Gens : Chosen(th, g)
  BY SpawnChooses, Zenon DEF GensInv
<1>2. UNCHANGED <<session, scheduler, local, orphans>> /\ pc[th] = "spawn"
  BY Zenon DEF Spawn
<1>3. OnceInv' /\ Shrinks
  BY <1>1, FewerOnce, FewerShrinks, Zenon DEF Chosen
<1>4. g \notin Living /\ NoGen \notin Living /\ g \notin Moving'
  <2>1. g \notin Living
    BY <1>1, Zenon DEF Chosen, Living
  <2>2. ~Alive(g)'
    BY <1>1, UnbornIs, SMT DEF Chosen, Alive
  <2> QED  BY <2>1, <2>2, ThreadsAssumption, Zenon DEF Living, Moving
<1>5. /\ worker' = g
      /\ asked' = [asked EXCEPT ![th] = [gen |-> g, command |-> "INIT"]]
      /\ pc' = [pc EXCEPT ![th] = "launch"]
  BY <1>1, Zenon DEF Chosen
<1> USE DEF ControlInv, PlacesInv, QuietInv, HoldsInv, OwedInv, FramesInv, Shrinks, Lively,
            AskedFor, Resuming, Pausing, Stopping, Waiting, Tearing, Tick, Tk, Threads,
            session, scheduler, local, TickPlaces, TkPlaces
<1>6. CASE th = "tick"
  <2>1. OwedInv'
    BY <1>2, <1>3, <1>4, <1>5, <1>6, SMT
  <2>2. FramesInv'
    BY <1>2, <1>3, <1>4, <1>5, <1>6, SMT
  <2> QED  BY <1>3, <2>1, <2>2
<1>7. CASE th = "tk"
  <2>1. OwedInv'
    BY <1>2, <1>3, <1>4, <1>5, <1>7, SMT
  <2>2. FramesInv'
    BY <1>2, <1>3, <1>4, <1>5, <1>7, SMT
  <2> QED  BY <1>3, <2>1, <2>2
<1> QED  BY <1>6, <1>7, Zenon DEF Threads

(* A birth: the new generation captures only if the session records. *)
LEMMA LaunchKeeps ==
  ASSUME ControlInv, WorkerInv, OnceInv, OwedInv, FramesInv, Lively, Lively',
         NEW th \in Threads, Launch(th)
  PROVE  OnceInv' /\ OwedInv' /\ FramesInv'
<1>1. PICK g \in Gens : /\ pc[th] = "launch" /\ g = asked[th].gen
                       /\ asked[th].command = "INIT" /\ Born(th, g)
  BY LaunchBorn
<1>2. UNCHANGED <<session, scheduler, local>>
  BY Zenon DEF Launch
<1>3. /\ OnceInv' /\ g \notin Living
      /\ CaptureAsked' \subseteq CaptureAsked /\ CaptureOwed' \subseteq CaptureOwed
      /\ PauseSaid' \subseteq PauseSaid /\ PauseOwed' \subseteq PauseOwed
      /\ ResumeOwed' \subseteq ResumeOwed /\ Moving' \subseteq Moving \cup {g}
  BY <1>1, BornOwes DEF WorkerInv, GensInv
<1>4. worker' = worker /\ asked' = asked /\ pc' = [pc EXCEPT ![th] = "wait"]
  BY <1>1, Zenon DEF Born
<1> USE DEF ControlInv, PlacesInv, QuietInv, OwedInv, FramesInv, Lively,
            AskedFor, Resuming, Pausing, Stopping, Waiting, Tearing, Tick, Tk, Threads,
            session, scheduler, local, TickPlaces, TkPlaces
<1>5. CASE th = "tick"
  <2>1. OwedInv'
    BY <1>1, <1>2, <1>3, <1>4, <1>5, SMT
  <2>2. FramesInv'
    BY <1>1, <1>2, <1>3, <1>4, <1>5, SMT
  <2> QED  BY <1>3, <2>1, <2>2
<1>6. CASE th = "tk"
  <2>1. OwedInv'
    BY <1>1, <1>2, <1>3, <1>4, <1>6, SMT
  <2>2. FramesInv'
    BY <1>1, <1>2, <1>3, <1>4, <1>6, SMT
  <2> QED  BY <1>3, <2>1, <2>2
<1> QED  BY <1>5, <1>6, Zenon DEF Threads

LEMMA CommandsInit == Init => OnceInv /\ OwedInv /\ FramesInv
<1> SUFFICES ASSUME Init PROVE OnceInv /\ OwedInv /\ FramesInv
  OBVIOUS
<1>1. ASSUME NEW g \in Gens PROVE gen[g].inbox = <<>> /\ gen[g].queue = <<>>
  <2> DEFINE first == [Unborn EXCEPT !.process = "alive", !.valid = TRUE,
                                     !.mode = "RECORDING", !.ended = FALSE]
  <2>1. gen[g] = first \/ gen[g] = Unborn
    BY Zenon DEF Init
  <2>2. Unborn.inbox = <<>> /\ Unborn.queue = <<>>
    BY Zenon DEF Unborn
  <2>3. first.inbox = <<>> /\ first.queue = <<>>
    BY Zenon DEF Unborn
  <2> HIDE DEF first
  <2> QED  BY <2>1, <2>2, <2>3
<1>2. ASSUME NEW c PROVE ~Asks(<<>>, c) /\ ~Says(<<>>, c) /\ Once(<<>>, <<>>, c)
  BY SMT DEF Asks, Says, Once
<1>3. OnceInv
  BY <1>1, <1>2, Zenon DEF OnceInv
<1>4. \A c : Asking(c) = {} /\ Saying(c) = {}
  BY <1>1, <1>2, Zenon DEF Asking, Saying
<1>5. CaptureAsked = {} /\ CaptureOwed = {} /\ PauseSaid = {} /\ PauseOwed = {} /\ ResumeOwed = {}
  BY <1>4, Zenon DEF CaptureAsked, CaptureOwed, PauseSaid, PauseOwed, ResumeOwed
<1>6. OwedInv
  BY <1>5, Zenon DEF OwedInv
<1>7. /\ pc["tick"] = "none" /\ pc["tk"] = "idle" /\ paused_frame = FALSE
      /\ state = "RECORDING"
  <2>1. /\ pc = [th \in Threads |-> IF th = "tick" THEN "none" ELSE "idle"]
        /\ paused_frame = FALSE /\ state = "RECORDING"
    BY Zenon DEF Init
  <2> QED  BY <2>1, SMT DEF Threads
<1>8. FramesInv
  BY <1>5, <1>7, SMT DEF FramesInv, Waiting, Tick, Tk
<1> QED  BY <1>3, <1>6, <1>8

LEMMA CommandsStep ==
  ASSUME ControlInv, WorkerInv, CommandsInv, FramesInv, [Next]_vars
  PROVE  CommandsInv' /\ FramesInv'
<1>1. /\ GensInv /\ GenType /\ HoldsInv /\ OnceInv /\ OwedInv
      /\ Lively /\ Lively'
  BY SetsLive DEF WorkerInv, CommandsInv, GensInv
<1> SUFFICES OnceInv' /\ OwedInv' /\ FramesInv'
  BY DEF CommandsInv
<1>2. CASE UNCHANGED vars
  <2>1. /\ CaptureAsked' = CaptureAsked /\ CaptureOwed' = CaptureOwed
        /\ PauseSaid' = PauseSaid /\ PauseOwed' = PauseOwed /\ ResumeOwed' = ResumeOwed
        /\ Moving' = Moving
    BY <1>2, Zenon DEF vars, CaptureAsked, CaptureOwed, PauseSaid, PauseOwed, ResumeOwed,
       Asking, Saying, Moving, Alive
  <2>2. OnceInv'
    BY <1>1, <1>2, Zenon DEF vars, OnceInv, Alive
  <2>3. OwedInv'
    BY <1>1, <1>2, <2>1, Zenon DEF vars, OwedInv, AskedFor, Waiting, Tick, Tk
  <2>4. FramesInv'
    BY <1>2, <2>1, SMT DEF vars, FramesInv, Waiting, Tick, Tk
  <2> QED  BY <2>2, <2>3, <2>4
<1>3. CASE Next
  <2>1. CASE \/ Deadline \/ Dispatch \/ EndLoop
             \/ CheckState \/ Process \/ CaptureFailed \/ Decide
             \/ RestartFailed \/ PauseAfterRestart \/ OnPause \/ EndTick
             \/ ClickPause \/ Drain("drain_pause", "ask_pause") \/ PauseFailed \/ EndPause
             \/ ClickResume \/ Drain("drain_resume", "begin_resume") \/ BeginResume
             \/ ResumeFailed \/ EndResume \/ RestartScheduler
             \/ \E how \in {"ask_stop", "emergency", "close"} : ClickStop(how)
             \/ DrainStop \/ StopMachine \/ EmergencyStop \/ CloseWindow \/ Finalize
    <3>1. OnceInv' /\ Shrinks
      BY <1>1, <2>1, GenSame, NoneFewer, FewerOnce, FewerShrinks
    <3> QED  BY <1>1, <2>1, <3>1, LoopOwes, TickOwes, TkOwes
  <2>2. CASE Kill("tick") \/ Reap("tick") \/ Kill("tk") \/ Reap("tk")
    <3>1. Fewer
      <4>1. \A th \in Threads : hold[th] \in Gens \cup {NoGen}
        BY SMT DEF ControlInv, PlacesInv
      <4>2. CASE Kill("tick") \/ Kill("tk")
        BY <1>1, <4>1, <4>2, KillFewer DEF Threads
      <4>3. CASE Reap("tick") \/ Reap("tk")
        BY <1>1, <4>1, <4>3, ReapFewer DEF Threads
      <4> QED  BY <2>2, <4>2, <4>3
    <3>2. OnceInv' /\ Shrinks
      BY <1>1, <3>1, FewerOnce, FewerShrinks
    <3> QED  BY <1>1, <2>2, <3>2, TeardownOwes
  <2>3. CASE Capture \/ AskPause \/ AskResume \/ AskStop \/ ShutDown
    BY <1>1, <2>3, RequestKeeps
  <2>4. CASE TakeReply("tick") \/ TimeOut("tick") \/ TakeReply("tk") \/ TimeOut("tk")
    BY <1>1, <2>4, ReturnKeeps
  <2>5. CASE Exit
    BY <1>1, <2>5, ExitKeeps
  <2>6. CASE Spawn("tick") \/ Spawn("tk") \/ Launch("tick") \/ Launch("tk")
    BY <1>1, <2>6, SpawnKeeps, LaunchKeeps DEF Threads
  <2>7. CASE \E g \in Gens : Serve(g) \/ Die(g) \/ EndOfStream(g)
    BY <1>1, <2>7, GenerationKeeps
  <2> QED  BY <1>3, <2>1, <2>2, <2>3, <2>4, <2>5, <2>6, <2>7, StepKinds
<1> QED  BY <1>2, <1>3

THEOREM ThreadsInvariance == Spec => []ThreadsInv
<1>1. Init => ThreadsInv
  BY ControlInit, WorkerInit, CommandsInit DEF ThreadsInv, CommandsInv
<1>2. ThreadsInv /\ [Next]_vars => ThreadsInv'
  BY ControlStep, WorkerStep, CommandsStep DEF ThreadsInv
<1> QED  BY <1>1, <1>2, PTL DEF Spec

(* No frame is captured while the session is PAUSED.  A tick that was already
   under way when Pause was clicked is refused by the worker, which the PAUSE
   before it has moved, or asks a worker that a Pause which failed has killed
   (controller.py user_pause; capture_worker.py, the legality of CAPTURE). *)
THEOREM PausedCapturesNothing == Spec => []NoFrameWhilePaused
<1>1. ThreadsInv => NoFrameWhilePaused
  BY Zenon DEF ThreadsInv, FramesInv, NoFrameWhilePaused
<1> QED  BY <1>1, ThreadsInvariance, PTL
-----------------------------------------------------------------------------
(* A request is one call (WorkerCalls).  What a generation tells of the call
   that waits on it: a reply to it is the last thing the worker did, which has
   done nothing since and has nothing else to do. *)

CallOf(th) ==
  IF pc[th] # "wait" THEN "none"
  ELSE IF gen[asked[th].gen].did = asked[th].command THEN "done" ELSE "sent"

(* A call holds the lock of the generation it asks. *)
LocksInv ==
  \A g \in Gens, th \in Threads : gen[g].lock = th <=> pc[th] = "wait" /\ asked[th].gen = g

Tells(w, c) ==
  /\ Says(w.queue, c) => w.did = c
  /\ w.did = c => w.inbox = <<>>
  /\ \A i \in 1..Len(w.inbox) : w.inbox[i] = c => i = Len(w.inbox)

TellsInv == \A th \in Threads : pc[th] = "wait" => Tells(gen[asked[th].gen], asked[th].command)

(* The end of a stream answers no command. *)
EndsOnly(q) == \A i \in 1..Len(q) : q[i].reply = "END" => q[i].command = "none"
EndsInv     == \A g \in Gens : EndsOnly(gen[g].queue)

(* STOP and SHUTDOWN are owed by a live worker only once they were asked for,
   and they are asked for once. *)
Owing(c) == Asking(c) \cup Saying(c)

ShuttingDown ==
  \/ Waiting("tk", "SHUTDOWN") \/ Tearing("tk", "finalize") \/ Tk \in {"finalize", "over"}

Closing == Waiting("tk", "STOP") \/ Tk \in {"stop", "shut_down"} \/ ShuttingDown

ClosingInv ==
  /\ Owing("STOP") # {} => Closing
  /\ Owing("SHUTDOWN") # {} => ShuttingDown

CallInv == LocksInv /\ TellsInv /\ EndsInv /\ ClosingInv

(* A step of WorkerCalls, from what becomes of each call. *)
calls == <<[th \in Threads |->
             IF pc[th] # "wait" THEN "none"
             ELSE IF gen[asked[th].gen].did = asked[th].command THEN "done" ELSE "sent"],
           answer>>

CallStep == [Calls!Next]_calls

Others(th) == \A t \in Threads : t # th => CallOf(t)' = CallOf(t)

LEMMA StaysACall ==
  ASSUME \A t \in Threads : CallOf(t)' = CallOf(t), answer' = answer
  PROVE  CallStep
  BY Zenon DEF CallStep, calls, CallOf

(* One call changes. *)
LEMMA CallBecomes ==
  ASSUME NEW th \in Threads, Others(th), NEW c, CallOf(th)' = c
  PROVE  /\ [t \in Threads |-> CallOf(t)'] = [[t \in Threads |-> CallOf(t)] EXCEPT ![th] = c]
         /\ [t \in Threads |-> CallOf(t)][th] = CallOf(th)
<1> DEFINE before == [t \in Threads |-> CallOf(t)]
           after  == [t \in Threads |-> CallOf(t)']
           made   == [before EXCEPT ![th] = c]
<1>1. DOMAIN made = Threads /\ DOMAIN after = Threads
  OBVIOUS
<1>2. ASSUME NEW t \in Threads PROVE after[t] = made[t]
  BY <1>2, Zenon DEF Others
<1> QED  BY <1>1, <1>2, Zenon

LEMMA SendsACall ==
  ASSUME NEW th \in Threads, Others(th), CallOf(th) = "none", CallOf(th)' = "sent",
         answer' = [answer EXCEPT ![th] = "none"]
  PROVE  CallStep
<1>1. /\ [t \in Threads |-> CallOf(t)'] = [[t \in Threads |-> CallOf(t)] EXCEPT ![th] = "sent"]
      /\ [t \in Threads |-> CallOf(t)][th] = CallOf(th)
  BY CallBecomes
<1>2. Calls!Send(th)
  BY <1>1, Zenon DEF Calls!Send, CallOf
<1> QED  BY <1>2, Zenon DEF CallStep, Calls!Next

LEMMA PerformsACall ==
  ASSUME NEW th \in Threads, Others(th), CallOf(th) = "sent", CallOf(th)' = "done",
         answer' = answer
  PROVE  CallStep
<1>1. /\ [t \in Threads |-> CallOf(t)'] = [[t \in Threads |-> CallOf(t)] EXCEPT ![th] = "done"]
      /\ [t \in Threads |-> CallOf(t)][th] = CallOf(th)
  BY CallBecomes
<1>2. Calls!Perform(th)
  BY <1>1, Zenon DEF Calls!Perform, CallOf
<1> QED  BY <1>2, Zenon DEF CallStep, Calls!Next

LEMMA ReturnsACall ==
  ASSUME NEW th \in Threads, Others(th), CallOf(th) = "done", CallOf(th)' = "none",
         NEW reply \in {"OK", "REFUSED"}, answer' = [answer EXCEPT ![th] = reply]
  PROVE  CallStep
<1>1. /\ [t \in Threads |-> CallOf(t)'] = [[t \in Threads |-> CallOf(t)] EXCEPT ![th] = "none"]
      /\ [t \in Threads |-> CallOf(t)][th] = CallOf(th)
  BY CallBecomes
<1>2. Calls!Return(th)
  BY <1>1, Zenon DEF Calls!Return, CallOf
<1> QED  BY <1>2, Zenon DEF CallStep, Calls!Next

LEMMA FailsACall ==
  ASSUME NEW th \in Threads, Others(th), CallOf(th)' = "none",
         answer' = [answer EXCEPT ![th] = "ERROR"]
  PROVE  CallStep
<1>1. /\ [t \in Threads |-> CallOf(t)'] = [[t \in Threads |-> CallOf(t)] EXCEPT ![th] = "none"]
      /\ [t \in Threads |-> CallOf(t)][th] = CallOf(th)
  BY CallBecomes
<1>2. Calls!Fail(th)
  BY <1>1, Zenon DEF Calls!Fail, CallOf
<1> QED  BY <1>2, Zenon DEF CallStep, Calls!Next

LEMMA DropsAnAnswer ==
  ASSUME NEW th \in Threads, \A t \in Threads : CallOf(t)' = CallOf(t), CallOf(th) = "none",
         answer' = [answer EXCEPT ![th] = "none"]
  PROVE  CallStep
<1>1. /\ [t \in Threads |-> CallOf(t)'] = [t \in Threads |-> CallOf(t)]
      /\ [t \in Threads |-> CallOf(t)][th] = CallOf(th)
  BY Zenon
<1>2. Calls!Drop(th)
  BY <1>1, Zenon DEF Calls!Drop, CallOf
<1> QED  BY <1>2, Zenon DEF CallStep, Calls!Next
-----------------------------------------------------------------------------
(* What the generations that end tell. *)

LEMMA UnbornTells ==
  Unborn.lock = "free" /\ Unborn.did = "none" /\ Unborn.inbox = <<>> /\ Unborn.queue = <<>>
  BY Zenon DEF Unborn

LEMMA EndedTells ==
  ASSUME NEW w \in GenRecords
  PROVE  Ended(w) \in GenRecords /\ Rest(Ended(w), w) /\ Ended(w).inbox = <<>> /\ Ended(w).queue = w.queue
<1> DEFINE a == [w EXCEPT !.process = "dead"]
           b == [a EXCEPT !.mode = "none"]
           v == [b EXCEPT !.inbox = <<>>]
<1>1. a \in GenRecords /\ Rest(a, w) /\ Boxes(a, w)
  BY SetProcess, SetOthers
<1>2. b \in GenRecords /\ Rest(b, a) /\ b.queue = a.queue
  <2> HIDE DEF a
  <2> QED  BY <1>1, SetMode, SetOthers
<1>3. <<>> \in Seq(Commands)
  OBVIOUS
<1>4. v \in GenRecords /\ Rest(v, b) /\ v.inbox = <<>> /\ v.queue = b.queue
  <2> HIDE DEF b
  <2> QED  BY <1>2, <1>3, SetInbox, SetOthers
<1>5. Ended(w) = v
  BY Zenon DEF Ended
<1> HIDE DEF a, b, v
<1> QED  BY <1>1, <1>2, <1>4, <1>5, Zenon DEF Rest, Boxes

LEMMA KilledTells ==
  ASSUME NEW w \in GenRecords
  PROVE  Killed(w) \in GenRecords /\ Rest(Killed(w), w) /\ Killed(w).inbox = <<>> /\ Killed(w).queue = w.queue
<1> DEFINE a == Ended(w)
<1>1. a \in GenRecords /\ Rest(a, w) /\ a.inbox = <<>> /\ a.queue = w.queue
  BY EndedTells
<1> HIDE DEF a
<1>2. [a EXCEPT !.valid = FALSE] \in GenRecords
      /\ Rest([a EXCEPT !.valid = FALSE], a) /\ Boxes([a EXCEPT !.valid = FALSE], a)
  BY <1>1, SetRest, SetFlags
<1>3. Killed(w) = [a EXCEPT !.valid = FALSE]
  BY DEF Killed, a
<1> QED  BY <1>1, <1>2, <1>3, Zenon DEF Rest, Boxes

LEMMA EmptiedTells ==
  ASSUME NEW w \in GenRecords
  PROVE  \/ w.lock = "free" /\ Emptied(w) = Unborn
         \/ /\ Emptied(w) \in GenRecords /\ Rest(Emptied(w), w)
            /\ Emptied(w).inbox = w.inbox /\ Emptied(w).queue = <<>>
<1> DEFINE v == [w EXCEPT !.queue = <<>>]
<1>1. <<>> \in SaidSeqs
  BY DEF SaidSeqs
<1>2. v \in GenRecords /\ Rest(v, w) /\ v.inbox = w.inbox /\ v.queue = <<>>
  BY <1>1, SetQueue, SetOthers
<1>3. (w.lock = "free" /\ Emptied(w) = Unborn) \/ Emptied(w) = v
  BY Zenon DEF Emptied
<1> HIDE DEF v
<1> QED  BY <1>2, <1>3
-----------------------------------------------------------------------------
(* What a step leaves of the calls if it changes one generation at most. *)

On(th, g) == pc[th] = "wait" /\ asked[th].gen = g

AskedInv ==
  \A th \in Threads :
    pc[th] = "wait" => asked[th].gen \in Gens /\ asked[th].command \in Commands \ {"none"}

(* Nothing of the calls that wait on another generation. *)
ElseSame(g) ==
  /\ \A h \in Gens : h # g => gen'[h] = gen[h]
  /\ \A th \in Threads, h \in Gens :
       h # g => /\ On(th, h)' <=> On(th, h)
                /\ On(th, h) => asked'[th] = asked[th]

HereKept(g) ==
  /\ \A th \in Threads : gen'[g].lock = th <=> pc'[th] = "wait" /\ asked'[th].gen = g
  /\ \A th \in Threads :
       pc'[th] = "wait" /\ asked'[th].gen = g => Tells(gen'[g], asked'[th].command)
  /\ EndsOnly(gen'[g].queue)

LEMMA OneGenerationKeeps ==
  ASSUME LocksInv, TellsInv, EndsInv, AskedInv, AskedInv', NEW g \in Gens,
         ElseSame(g), HereKept(g)
  PROVE  /\ LocksInv' /\ TellsInv' /\ EndsInv'
         /\ \A th \in Threads :
              ~On(th, g) /\ ~(pc'[th] = "wait" /\ asked'[th].gen = g) => CallOf(th)' = CallOf(th)
<1>1. LocksInv'
  <2> SUFFICES ASSUME NEW h \in Gens, NEW th \in Threads
               PROVE  gen'[h].lock = th <=> pc'[th] = "wait" /\ asked'[th].gen = h
    BY Zenon DEF LocksInv
  <2>1. CASE h = g
    BY <2>1, Zenon DEF HereKept
  <2>2. CASE h # g
    <3>1. gen'[h] = gen[h] /\ (pc'[th] = "wait" /\ asked'[th].gen = h <=> On(th, h))
      BY <2>2, Zenon DEF ElseSame, On
    <3>2. gen[h].lock = th <=> On(th, h)
      BY Zenon DEF LocksInv, On
    <3> QED  BY <3>1, <3>2
  <2> QED  BY <2>1, <2>2
<1>2. ASSUME NEW th \in Threads, pc'[th] = "wait", asked'[th].gen # g
      PROVE  /\ pc[th] = "wait" /\ asked'[th] = asked[th]
             /\ gen'[asked'[th].gen] = gen[asked[th].gen]
  <2> DEFINE h == asked'[th].gen
  <2>1. h \in Gens
    BY <1>2, Zenon DEF AskedInv
  <2>2. On(th, h) /\ asked'[th] = asked[th] /\ gen'[h] = gen[h]
    BY <1>2, <2>1, Zenon DEF ElseSame, On
  <2> QED  BY <2>2, Zenon DEF On
<1>3. TellsInv'
  <2> SUFFICES ASSUME NEW th \in Threads, pc'[th] = "wait"
               PROVE  Tells(gen'[asked'[th].gen], asked'[th].command)
    BY Zenon DEF TellsInv
  <2>1. CASE asked'[th].gen = g
    BY <2>1, Zenon DEF HereKept
  <2>2. CASE asked'[th].gen # g
    <3>1. /\ pc[th] = "wait" /\ asked'[th] = asked[th]
          /\ gen'[asked'[th].gen] = gen[asked[th].gen]
      BY <1>2, <2>2
    <3> QED  BY <3>1, Zenon DEF TellsInv
  <2> QED  BY <2>1, <2>2
<1>4. EndsInv'
  <2> SUFFICES ASSUME NEW h \in Gens PROVE EndsOnly(gen'[h].queue)
    BY Zenon DEF EndsInv
  <2> QED  BY Zenon DEF ElseSame, HereKept, EndsInv
<1>5. ASSUME NEW th \in Threads, ~On(th, g), ~(pc'[th] = "wait" /\ asked'[th].gen = g)
      PROVE  CallOf(th)' = CallOf(th)
  <2>1. CASE pc'[th] = "wait"
    <3>1. /\ pc[th] = "wait" /\ asked'[th] = asked[th]
          /\ gen'[asked'[th].gen] = gen[asked[th].gen]
      BY <1>2, <1>5, <2>1
    <3> QED  BY <2>1, <3>1, Zenon DEF CallOf
  <2>2. CASE pc'[th] # "wait"
    <3>1. pc[th] # "wait"
      BY <1>5, <2>2, Zenon DEF ElseSame, On, AskedInv
    <3> QED  BY <2>2, <3>1, Zenon DEF CallOf
  <2> QED  BY <2>1, <2>2
<1> QED  BY <1>1, <1>3, <1>4, <1>5

(* No generation changes, and no thread begins or ends a wait. *)
WaitsSame == \A th \in Threads : /\ pc'[th] = "wait" <=> pc[th] = "wait"
                                 /\ pc[th] = "wait" => asked'[th] = asked[th]

LEMMA NoGenerationKeeps ==
  ASSUME LocksInv, TellsInv, EndsInv, gen' = gen, WaitsSame
  PROVE  /\ LocksInv' /\ TellsInv' /\ EndsInv'
         /\ \A th \in Threads : CallOf(th)' = CallOf(th)
<1>1. LocksInv'
  <2> SUFFICES ASSUME NEW g \in Gens, NEW th \in Threads
               PROVE  gen'[g].lock = th <=> pc'[th] = "wait" /\ asked'[th].gen = g
    BY Zenon DEF LocksInv
  <2>1. pc'[th] = "wait" /\ asked'[th].gen = g <=> pc[th] = "wait" /\ asked[th].gen = g
    BY Zenon DEF WaitsSame
  <2>2. gen[g].lock = th <=> pc[th] = "wait" /\ asked[th].gen = g
    BY Zenon DEF LocksInv
  <2> QED  BY <2>1, <2>2
<1>2. TellsInv'
  BY Zenon DEF TellsInv, WaitsSame
<1>3. EndsInv'
  BY Zenon DEF EndsInv
<1>4. \A th \in Threads : CallOf(th)' = CallOf(th)
  BY Zenon DEF CallOf, WaitsSame
<1> QED  BY <1>1, <1>2, <1>3, <1>4
-----------------------------------------------------------------------------
(* What each action does to the lock, and to what was done last. *)

LEMMA OneSet ==
  ASSUME GenType, NEW g \in Gens, NEW w, gen' = [gen EXCEPT ![g] = w]
  PROVE  gen'[g] = w /\ \A h \in Gens : h # g => gen'[h] = gen[h]
<1>1. gen'[g] = w
  BY Zenon DEF GenType
<1>2. ASSUME NEW h \in Gens, h # g PROVE gen'[h] = gen[h]
  BY <1>2, SMT DEF GenType
<1> QED  BY <1>1, <1>2

LEMMA RequestLocks ==
  ASSUME GenType, NEW th \in Threads, NEW g \in Gens, NEW c \in Commands,
         Request(th, g, c)
  PROVE  \/ /\ gen' = gen /\ asked' = asked
            /\ pc' = [pc EXCEPT ![th] = AfterReply(th, c, "ERROR")]
            /\ answer' = [answer EXCEPT ![th] = "ERROR"]
         \/ /\ gen[g].lock = "free" /\ Alive(g)
            /\ gen'[g].lock = th /\ gen'[g].did = "none"
            /\ gen'[g].inbox = Append(gen[g].inbox, c) /\ gen'[g].queue = gen[g].queue
            /\ \A h \in Gens : h # g => gen'[h] = gen[h]
            /\ asked' = [asked EXCEPT ![th] = [gen |-> g, command |-> c]]
            /\ pc' = [pc EXCEPT ![th] = "wait"]
            /\ answer' = [answer EXCEPT ![th] = "none"]
<1>1. CASE gen[g].lock # "free" \/ ~Usable(g)
  BY <1>1, Zenon DEF Request, Goto, Answered
<1>2. CASE ~(gen[g].lock # "free" \/ ~Usable(g))
  <2> DEFINE a == [gen[g] EXCEPT !.lock = th]
             b == [a EXCEPT !.did = "none"]
             s == Append(gen[g].inbox, c)
             w == [b EXCEPT !.inbox = s]
  <2>0. gen[g] \in GenRecords
    BY DEF GenType
  <2>1. a \in GenRecords /\ Same(a, gen[g]) /\ a.lock = th
    BY <2>0, SetRest, SetCall
  <2>2. b \in GenRecords /\ Same(b, a) /\ b.lock = a.lock /\ b.did = "none"
    <3>1. "none" \in Commands
      BY DEF Commands
    <3> HIDE DEF a
    <3> QED  BY <2>1, <3>1, SetRest, SetCall
  <2>3. s \in Seq(Commands)
    <3>1. gen[g].inbox \in Seq(Commands)
      BY <2>0, GenRecordsAre, SMT
    <3> QED  BY <3>1
  <2>4. w.inbox = s /\ w.queue = b.queue /\ Rest(w, b)
    <3> HIDE DEF b, s
    <3> QED  BY <2>2, <2>3, SetInbox, SetOthers
  <2>5. gen' = [gen EXCEPT ![g] = w]
    <3>1. gen' = [gen EXCEPT ![g].lock = th, ![g].did = "none",
                             ![g].inbox = Append(@, c)]
      BY <1>2, Zenon DEF Request
    <3>2. b.inbox = gen[g].inbox
      BY <2>1, <2>2, Zenon DEF Same
    <3>3. [gen EXCEPT ![g].lock = th, ![g].did = "none", ![g].inbox = Append(@, c)]
            = [gen EXCEPT ![g] = [b EXCEPT !.inbox = Append(@, c)]]
      BY Zenon DEF GenType
    <3> QED  BY <3>1, <3>2, <3>3, Zenon
  <2> HIDE DEF a, b, w
  <2>6. gen'[g] = w /\ \A h \in Gens : h # g => gen'[h] = gen[h]
    BY <2>5, OneSet
  <2>7. gen[g].lock = "free" /\ Alive(g)
    BY <1>2, Zenon DEF Usable, Alive
  <2>8. /\ asked' = [asked EXCEPT ![th] = [gen |-> g, command |-> c]]
        /\ pc' = [pc EXCEPT ![th] = "wait"]
        /\ answer' = [answer EXCEPT ![th] = "none"]
    BY <1>2, Zenon DEF Request, Goto, Answered
  <2> QED  BY <2>1, <2>2, <2>4, <2>6, <2>7, <2>8, Zenon DEF Same, Rest
<1> QED  BY <1>1, <1>2

(* A generation born is locked by the call that waits for its INIT. *)
LEMMA LaunchLocks ==
  ASSUME GenType, NEW th \in Threads, NEW g \in Gens, g = asked[th].gen, Launch(th)
  PROVE  /\ gen'[g].lock = th /\ gen'[g].did = "none"
         /\ answer' = [answer EXCEPT ![th] = "none"]
<1> DEFINE a == [Spawned EXCEPT !.lock = th]
           w == [a EXCEPT !.inbox = <<"INIT">>]
<1>1. /\ gen' = [gen EXCEPT ![g] = [Spawned EXCEPT !.lock = th, !.inbox = <<"INIT">>]]
      /\ answer' = [answer EXCEPT ![th] = "none"]
  BY Zenon DEF Launch, Answered
<1>2. [Spawned EXCEPT !.lock = th, !.inbox = <<"INIT">>] = w
  BY Zenon
<1>3. Spawned \in GenRecords /\ Spawned.did = "none"
  <2>1. <<>> \in Seq(Commands) /\ <<>> \in SaidSeqs
    BY DEF SaidSeqs
  <2>2. Restored \in {"none", "SETUP", "RECORDING", "PAUSED"}
    BY SMT DEF Restored
  <2> HIDE DEF a, w
  <2>3. Spawned \in GenRecords
    BY <2>1, <2>2, GenRecordsAre, Zenon DEF Spawned, Threads, Commands
  <2> QED  BY <2>3, Zenon DEF Spawned
<1>4. a \in GenRecords /\ a.lock = th /\ a.did = "none"
  BY <1>3, SetRest, SetCall
<1>5. Rest(w, a)
  <2>1. <<"INIT">> \in Seq(Commands)
    BY DEF Commands
  <2> HIDE DEF a
  <2> QED  BY <1>4, <2>1, SetOthers
<1> HIDE DEF a, w
<1>6. gen'[g] = w
  BY <1>1, <1>2, OneSet
<1> QED  BY <1>1, <1>4, <1>5, <1>6, Zenon DEF Rest
-----------------------------------------------------------------------------
(* Boxes of a generation that a call waits on: served, ended, taken from. *)

LEMMA EndsAppend ==
  ASSUME NEW q \in SaidSeqs, NEW r \in SaidType, EndsOnly(q), r.reply = "END" => r.command = "none"
  PROVE  EndsOnly(Append(q, r))
<1> DEFINE t == Append(q, r)
<1>1. /\ Len(q) \in Nat /\ Len(t) = Len(q) + 1
      /\ \A i \in 1..Len(q) : t[i] = q[i]
      /\ t[Len(q) + 1] = r
  BY AppendIs DEF SaidSeqs
<1> HIDE DEF t
<1>2. EndsOnly(t)
  BY <1>1, SMT DEF EndsOnly
<1> QED  BY <1>2 DEF t

LEMMA EndsTail ==
  ASSUME NEW q \in SaidSeqs, q # <<>>, EndsOnly(q)
  PROVE  EndsOnly(Tail(q)) /\ (Head(q).reply = "END" => Head(q).command = "none")
<1> DEFINE t == Tail(q)
<1>1. /\ Len(q) \in Nat /\ Len(q) >= 1 /\ Len(t) = Len(q) - 1 /\ Head(q) = q[1]
      /\ \A i \in 1..Len(t) : i + 1 \in 1..Len(q) /\ t[i] = q[i + 1]
  BY TailIs DEF SaidSeqs
<1> HIDE DEF t
<1>2. EndsOnly(t) /\ (Head(q).reply = "END" => Head(q).command = "none")
  BY <1>1, SMT DEF EndsOnly
<1> QED  BY <1>2 DEF t

(* The head of the inbox is done: nothing had been done of the call before, and
   if it was the call's command it was the last. *)
LEMMA TellsServed ==
  ASSUME NEW w, NEW v, NEW d, NEW r \in SaidType, Tells(w, d),
         w.inbox \in Seq(Commands), w.inbox # <<>>, w.queue \in SaidSeqs,
         r.command = Head(w.inbox), v.did = Head(w.inbox),
         v.inbox = Tail(w.inbox) \/ v.inbox = <<>>, v.queue = Append(w.queue, r)
  PROVE  Tells(v, d) /\ w.did # d
<1> DEFINE s == w.inbox
           t == Tail(s)
<1>1. w.did # d
  BY Zenon DEF Tells
<1>2. /\ Len(s) \in Nat /\ Len(s) >= 1 /\ Len(t) = Len(s) - 1 /\ Head(s) = s[1]
      /\ \A i \in 1..Len(t) : i + 1 \in 1..Len(s) /\ t[i] = s[i + 1]
  BY TailIs
<1>3. Says(v.queue, d) => v.did = d
  <2>1. Says(Append(w.queue, r), d) <=> Says(w.queue, d) \/ r.command = d
    BY SaysAppend
  <2> QED  BY <1>1, <2>1, Zenon DEF Tells
<1>4. \A i \in 1..Len(s) : s[i] = d => i = Len(s)
  BY Zenon DEF Tells
<1>5. t \in Seq(Commands)
  OBVIOUS
<1> HIDE DEF t, s
<1>6. Head(s) = d => t = <<>>
  BY <1>2, <1>4, <1>5, SMT
<1>7. \A i \in 1..Len(t) : t[i] = d => i = Len(t)
  BY <1>2, <1>4, SMT
<1>8. \A i \in 1..Len(<<>>) : <<>>[i] = d => i = Len(<<>>)
  BY SMT
<1>9. v.did = d => v.inbox = <<>>
  BY <1>6, Zenon DEF t, s
<1>10. \A i \in 1..Len(v.inbox) : v.inbox[i] = d => i = Len(v.inbox)
  BY <1>7, <1>8, Zenon DEF t, s
<1> QED  BY <1>1, <1>3, <1>9, <1>10, Zenon DEF Tells

(* The inbox thrown away, the queue grown by no reply of the call's or shrunk. *)
LEMMA TellsLess ==
  ASSUME NEW w, NEW v, NEW d, Tells(w, d), v.did = w.did,
         v.inbox = w.inbox \/ v.inbox = <<>>, Says(v.queue, d) => Says(w.queue, d)
  PROVE  Tells(v, d)
<1>1. \A i \in 1..Len(<<>>) : <<>>[i] = d => i = Len(<<>>)
  BY SMT
<1>2. \A i \in 1..Len(v.inbox) : v.inbox[i] = d => i = Len(v.inbox)
  BY <1>1, Zenon DEF Tells
<1> QED  BY <1>2, Zenon DEF Tells

(* A request that is not owed already. *)
LEMMA TellsAsked ==
  ASSUME NEW w, NEW v, NEW d \in Commands \ {"none"}, w.inbox \in Seq(Commands),
         ~Asks(w.inbox, d), ~Says(w.queue, d),
         v.did = "none", v.inbox = Append(w.inbox, d), v.queue = w.queue
  PROVE  Tells(v, d)
<1> DEFINE s == w.inbox
           t == Append(s, d)
<1>1. /\ Len(s) \in Nat /\ Len(t) = Len(s) + 1
      /\ \A i \in 1..Len(s) : t[i] = s[i]
      /\ t[Len(s) + 1] = d
  BY AppendIs
<1> HIDE DEF t
<1>2. \A i \in 1..Len(t) : t[i] = d => i = Len(t)
  BY <1>1, SMT DEF Asks
<1>3. v.inbox = t
  BY DEF t
<1> QED  BY <1>2, <1>3, Zenon DEF Tells
-----------------------------------------------------------------------------
(* Each action is a step of WorkerCalls, and keeps what is told of the calls. *)

TellingInv == LocksInv /\ TellsInv /\ EndsInv

(* At most one call waits on a generation. *)
LEMMA OneWaits ==
  ASSUME LocksInv, NEW g \in Gens, NEW t \in Threads, NEW th \in Threads, On(t, g), On(th, g)
  PROVE  t = th
<1>1. gen[g].lock = t /\ gen[g].lock = th
  BY Zenon DEF LocksInv, On
<1> QED  BY <1>1

(* Serve: the call that waits for the command is done. *)
LEMMA ServeCalls ==
  ASSUME GenType, TellingInv, AskedInv, NEW g \in Gens, Serve(g)
  PROVE  TellingInv' /\ CallStep
<1>0. /\ Alive(g) /\ gen[g].inbox \in Seq(Commands) /\ gen[g].inbox # <<>>
      /\ gen[g].queue \in SaidSeqs
  BY ServeMakes
<1>1. PICK c \in Commands, reply \in {"OK", "REFUSED"}, said \in GenRecords :
        /\ c = Head(gen[g].inbox) /\ Serving(g, c, reply, said)
        /\ gen' = [gen EXCEPT ![g] = Ended(said)] \/ gen' = [gen EXCEPT ![g] = said]
  BY ServeMakes
<1> DEFINE r == [command |-> c, reply |-> reply]
<1>2. r \in SaidType /\ r.command = c /\ r.reply # "END"
  BY SMT DEF SaidType
<1>3. /\ gen'[g].lock = gen[g].lock /\ gen'[g].did = c
      /\ gen'[g].inbox = Tail(gen[g].inbox) \/ gen'[g].inbox = <<>>
      /\ gen'[g].queue = Append(gen[g].queue, r)
      /\ \A h \in Gens : h # g => gen'[h] = gen[h]
  <2>1. /\ gen'[g] = said \/ gen'[g] = Ended(said)
        /\ \A h \in Gens : h # g => gen'[h] = gen[h]
    BY <1>1, OneSet
  <2>2. Rest(Ended(said), said) /\ Ended(said).inbox = <<>> /\ Ended(said).queue = said.queue
    BY EndedTells
  <2> QED  BY <1>1, <2>1, <2>2, Zenon DEF Serving, Rest
<1> HIDE DEF r
<1>4. pc' = pc /\ asked' = asked /\ answer' = answer
  BY Zenon DEF Serve
<1>5. ASSUME NEW th \in Threads, On(th, g)
      PROVE  /\ Tells(gen'[g], asked[th].command) /\ gen[g].did # asked[th].command
  <2>1. Tells(gen[g], asked[th].command)
    BY <1>5, Zenon DEF TellingInv, TellsInv, On
  <2> QED  BY <1>0, <1>1, <1>2, <1>3, <2>1, TellsServed
<1>6. EndsOnly(gen'[g].queue)
  <2>1. EndsOnly(gen[g].queue)
    BY Zenon DEF TellingInv, EndsInv
  <2>2. EndsOnly(Append(gen[g].queue, r))
    BY <1>0, <1>2, <2>1, EndsAppend
  <2> QED  BY <1>3, <2>2
<1>7. ElseSame(g)
  BY <1>3, <1>4, Zenon DEF ElseSame, On
<1>8. HereKept(g)
  <2>1. \A th \in Threads : gen'[g].lock = th <=> pc'[th] = "wait" /\ asked'[th].gen = g
    <3> SUFFICES ASSUME NEW th \in Threads
                 PROVE  gen'[g].lock = th <=> pc'[th] = "wait" /\ asked'[th].gen = g
      OBVIOUS
    <3>1. gen[g].lock = th <=> pc[th] = "wait" /\ asked[th].gen = g
      BY Zenon DEF TellingInv, LocksInv
    <3> QED  BY <1>3, <1>4, <3>1
  <2>2. \A th \in Threads :
          pc'[th] = "wait" /\ asked'[th].gen = g => Tells(gen'[g], asked'[th].command)
    BY <1>4, <1>5, Zenon DEF On
  <2> QED  BY <1>6, <2>1, <2>2, Zenon DEF HereKept
<1>9. AskedInv'
  BY <1>4, Zenon DEF AskedInv
<1>10. /\ TellingInv'
       /\ \A th \in Threads : ~On(th, g) => CallOf(th)' = CallOf(th)
  <2>1. /\ LocksInv' /\ TellsInv' /\ EndsInv'
        /\ \A th \in Threads :
             ~On(th, g) /\ ~(pc'[th] = "wait" /\ asked'[th].gen = g) => CallOf(th)' = CallOf(th)
    BY <1>7, <1>8, <1>9, OneGenerationKeeps DEF TellingInv
  <2> QED  BY <1>4, <2>1, Zenon DEF TellingInv, On
<1>11. CASE \E th \in Threads : On(th, g) /\ asked[th].command = c
  <2>1. PICK th \in Threads : On(th, g) /\ asked[th].command = c
    BY <1>11
  <2>2. CallOf(th) = "sent"
    BY <1>5, <2>1, Zenon DEF CallOf, On
  <2>3. CallOf(th)' = "done"
    BY <1>3, <1>4, <2>1, Zenon DEF CallOf, On
  <2>4. Others(th)
    <3> SUFFICES ASSUME NEW t \in Threads, t # th PROVE CallOf(t)' = CallOf(t)
      BY Zenon DEF Others
    <3>1. ~On(t, g)
      BY <2>1, OneWaits DEF TellingInv
    <3> QED  BY <1>10, <3>1
  <2> QED  BY <1>4, <1>10, <2>2, <2>3, <2>4, PerformsACall
<1>12. CASE ~\E th \in Threads : On(th, g) /\ asked[th].command = c
  <2>1. ASSUME NEW t \in Threads PROVE CallOf(t)' = CallOf(t)
    <3>1. CASE On(t, g)
      <4>1. gen[g].did # asked[t].command /\ gen'[g].did # asked[t].command
        BY <1>3, <1>5, <1>12, <3>1
      <4> QED  BY <1>4, <3>1, <4>1, Zenon DEF CallOf, On
    <3> QED  BY <1>10, <3>1
  <2> QED  BY <1>4, <1>10, <2>1, StaysACall
<1> QED  BY <1>11, <1>12

(* A generation that says or is asked less, or one forgotten that no call waits
   on: nothing becomes of the calls. *)
Lessens(g) ==
  \/ gen[g].lock = "free" /\ gen'[g] = Unborn
  \/ /\ gen'[g].lock = gen[g].lock /\ gen'[g].did = gen[g].did
     /\ gen'[g].inbox = gen[g].inbox \/ gen'[g].inbox = <<>>
     /\ EndsOnly(gen'[g].queue)
     /\ \A d \in Commands \ {"none"} : Says(gen'[g].queue, d) => Says(gen[g].queue, d)

LEMMA LessCalls ==
  ASSUME TellingInv, AskedInv, WaitsSame, NEW g \in Gens, Lessens(g),
         \A h \in Gens : h # g => gen'[h] = gen[h]
  PROVE  /\ TellingInv'
         /\ \A th \in Threads : CallOf(th)' = CallOf(th)
<1>1. AskedInv'
  BY Zenon DEF AskedInv, WaitsSame
<1>2. \A th \in Threads : pc'[th] = "wait" /\ asked'[th].gen = g <=> On(th, g)
  BY Zenon DEF WaitsSame, On
<1>3. ElseSame(g)
  <2>1. \A th \in Threads, h \in Gens : /\ On(th, h)' <=> On(th, h)
                                        /\ On(th, h) => asked'[th] = asked[th]
    BY Zenon DEF WaitsSame, On
  <2> QED  BY <2>1, Zenon DEF ElseSame
<1>4. \A th \in Threads : gen[g].lock = th <=> On(th, g)
  BY Zenon DEF TellingInv, LocksInv, On
<1>5. CASE gen[g].lock = "free" /\ gen'[g] = Unborn
  <2>1. \A th \in Threads : th # "free"
    BY SMT DEF Threads
  <2>2. \A th \in Threads : ~On(th, g)
    BY <1>4, <1>5, <2>1, Zenon
  <2>3. EndsOnly(<<>>)
    BY SMT DEF EndsOnly
  <2>4. HereKept(g)
    BY <1>2, <1>5, <2>1, <2>2, <2>3, UnbornTells, Zenon DEF HereKept
  <2>5. /\ LocksInv' /\ TellsInv' /\ EndsInv'
        /\ \A th \in Threads :
             ~On(th, g) /\ ~(pc'[th] = "wait" /\ asked'[th].gen = g) => CallOf(th)' = CallOf(th)
    BY <1>1, <1>3, <2>4, OneGenerationKeeps DEF TellingInv
  <2> QED  BY <1>2, <2>2, <2>5, Zenon DEF TellingInv
<1>6. CASE ~(gen[g].lock = "free" /\ gen'[g] = Unborn)
  <2>1. /\ gen'[g].lock = gen[g].lock /\ gen'[g].did = gen[g].did
        /\ gen'[g].inbox = gen[g].inbox \/ gen'[g].inbox = <<>>
        /\ EndsOnly(gen'[g].queue)
        /\ \A d \in Commands \ {"none"} : Says(gen'[g].queue, d) => Says(gen[g].queue, d)
    BY <1>6, Zenon DEF Lessens
  <2>2. ASSUME NEW th \in Threads, On(th, g)
        PROVE  Tells(gen'[g], asked[th].command) /\ asked'[th] = asked[th]
    <3>1. asked[th].command \in Commands \ {"none"} /\ asked'[th] = asked[th]
      BY <2>2, Zenon DEF AskedInv, WaitsSame, On
    <3>2. Tells(gen[g], asked[th].command)
      BY <2>2, Zenon DEF TellingInv, TellsInv, On
    <3>3. Says(gen'[g].queue, asked[th].command) => Says(gen[g].queue, asked[th].command)
      BY <2>1, <3>1
    <3> QED  BY <2>1, <3>1, <3>2, <3>3, TellsLess
  <2>3. HereKept(g)
    <3>1. \A th \in Threads : gen'[g].lock = th <=> pc'[th] = "wait" /\ asked'[th].gen = g
      BY <1>2, <1>4, <2>1
    <3>2. \A th \in Threads :
            pc'[th] = "wait" /\ asked'[th].gen = g => Tells(gen'[g], asked'[th].command)
      BY <1>2, <2>2, Zenon
    <3> QED  BY <2>1, <3>1, <3>2, Zenon DEF HereKept
  <2>4. /\ LocksInv' /\ TellsInv' /\ EndsInv'
        /\ \A th \in Threads :
             ~On(th, g) /\ ~(pc'[th] = "wait" /\ asked'[th].gen = g) => CallOf(th)' = CallOf(th)
    BY <1>1, <1>3, <2>3, OneGenerationKeeps DEF TellingInv
  <2>5. ASSUME NEW th \in Threads, On(th, g) PROVE CallOf(th)' = CallOf(th)
    BY <1>2, <2>1, <2>2, <2>5, Zenon DEF CallOf, On
  <2> QED  BY <1>2, <2>4, <2>5, Zenon DEF TellingInv
<1> QED  BY <1>5, <1>6

LEMMA AskedIs == ASSUME ControlInv PROVE AskedInv
  BY SMT DEF ControlInv, PlacesInv, AskedInv, Tick, Tk, Threads, Commands

(* A process that dies, and a stream that ends. *)
LEMMA DieLessens ==
  ASSUME GenType, TellingInv, NEW g \in Gens, Die(g)
  PROVE  Lessens(g) /\ \A h \in Gens : h # g => gen'[h] = gen[h]
<1> DEFINE w == Ended(gen[g])
<1>1. gen' = [gen EXCEPT ![g] = w]
  BY Zenon DEF Die
<1>2. Rest(w, gen[g]) /\ w.inbox = <<>> /\ w.queue = gen[g].queue
  BY EndedTells, Zenon DEF GenType
<1>3. EndsOnly(gen[g].queue)
  BY Zenon DEF TellingInv, EndsInv
<1> HIDE DEF w
<1>4. gen'[g] = w /\ \A h \in Gens : h # g => gen'[h] = gen[h]
  BY <1>1, OneSet
<1> QED  BY <1>2, <1>3, <1>4, Zenon DEF Lessens, Rest

LEMMA EndOfStreamLessens ==
  ASSUME GenType, TellingInv, NEW g \in Gens, EndOfStream(g)
  PROVE  Lessens(g) /\ \A h \in Gens : h # g => gen'[h] = gen[h]
<1> DEFINE q == Append(gen[g].queue, END)
           v == [gen[g] EXCEPT !.queue = q]
           w == [v EXCEPT !.ended = TRUE]
<1>1. gen' = [gen EXCEPT ![g] = w]
  BY Zenon DEF EndOfStream
<1>2. gen[g] \in GenRecords /\ gen[g].queue \in SaidSeqs
  BY InboxIs, Zenon DEF GenType
<1>3. q \in SaidSeqs
  BY <1>2, ENDIs DEF SaidSeqs
<1>4. v \in GenRecords /\ v.queue = q /\ v.inbox = gen[g].inbox /\ Rest(v, gen[g])
  <2> HIDE DEF q
  <2> QED  BY <1>2, <1>3, SetQueue, SetOthers
<1>5. Rest(w, v) /\ Boxes(w, v)
  <2> HIDE DEF v
  <2> QED  BY <1>4, SetFlags
<1>6. END.command = "none"
  BY SMT DEF END
<1>7. EndsOnly(q)
  <2>1. EndsOnly(gen[g].queue)
    BY Zenon DEF TellingInv, EndsInv
  <2> QED  BY <1>2, <1>6, <2>1, ENDIs, EndsAppend
<1>8. \A d \in Commands \ {"none"} : Says(q, d) => Says(gen[g].queue, d)
  <2> SUFFICES ASSUME NEW d \in Commands \ {"none"}, Says(q, d) PROVE Says(gen[g].queue, d)
    OBVIOUS
  <2>1. Says(q, d) <=> Says(gen[g].queue, d) \/ END.command = d
    BY <1>2, ENDIs, SaysAppend
  <2> QED  BY <1>6, <2>1
<1> HIDE DEF w, v, q
<1>9. gen'[g] = w /\ \A h \in Gens : h # g => gen'[h] = gen[h]
  BY <1>1, OneSet
<1> QED  BY <1>4, <1>5, <1>7, <1>8, <1>9, Zenon DEF Lessens, Rest, Boxes

(* A reply to another request is dropped. *)
LEMMA DropLessens ==
  ASSUME GenType, TellingInv, NEW g \in Gens, gen[g].queue # <<>>,
         gen' = [gen EXCEPT ![g].queue = Tail(gen[g].queue)]
  PROVE  Lessens(g) /\ \A h \in Gens : h # g => gen'[h] = gen[h]
<1> DEFINE q == Tail(gen[g].queue)
           w == [gen[g] EXCEPT !.queue = q]
<1>1. gen' = [gen EXCEPT ![g] = w]
  BY Zenon
<1>2. gen[g] \in GenRecords /\ gen[g].queue \in SaidSeqs
  BY InboxIs, Zenon DEF GenType
<1>3. q \in SaidSeqs
  BY <1>2, SMT DEF SaidSeqs
<1>4. w.queue = q /\ w.inbox = gen[g].inbox /\ Rest(w, gen[g])
  <2> HIDE DEF q
  <2> QED  BY <1>2, <1>3, SetQueue, SetOthers
<1>5. EndsOnly(q)
  <2>1. EndsOnly(gen[g].queue)
    BY Zenon DEF TellingInv, EndsInv
  <2> QED  BY <1>2, <2>1, EndsTail
<1>6. \A d : Says(q, d) => Says(gen[g].queue, d)
  BY <1>2, SaysTail
<1> HIDE DEF w, q
<1>7. gen'[g] = w /\ \A h \in Gens : h # g => gen'[h] = gen[h]
  BY <1>1, OneSet
<1> QED  BY <1>4, <1>5, <1>6, <1>7, Zenon DEF Lessens, Rest

(* A teardown, of a generation that calls may wait on. *)
LEMMA KillLessens ==
  ASSUME GenType, TellingInv, NEW g \in Gens, gen' = [gen EXCEPT ![g] = Killed(gen[g])]
  PROVE  Lessens(g) /\ \A h \in Gens : h # g => gen'[h] = gen[h]
<1> DEFINE w == Killed(gen[g])
<1>1. Rest(w, gen[g]) /\ w.inbox = <<>> /\ w.queue = gen[g].queue
  BY KilledTells, Zenon DEF GenType
<1>2. EndsOnly(gen[g].queue)
  BY Zenon DEF TellingInv, EndsInv
<1> HIDE DEF w
<1>3. gen' = [gen EXCEPT ![g] = w]
  BY DEF w
<1>4. gen'[g] = w /\ \A h \in Gens : h # g => gen'[h] = gen[h]
  BY <1>3, OneSet
<1> QED  BY <1>1, <1>2, <1>4, Zenon DEF Lessens, Rest

LEMMA EmptyLessens ==
  ASSUME GenType, TellingInv, NEW g \in Gens, gen' = [gen EXCEPT ![g] = Emptied(gen[g])]
  PROVE  Lessens(g) /\ \A h \in Gens : h # g => gen'[h] = gen[h]
<1> DEFINE w == Emptied(gen[g])
<1>1. \/ gen[g].lock = "free" /\ w = Unborn
      \/ Rest(w, gen[g]) /\ w.inbox = gen[g].inbox /\ w.queue = <<>>
  BY EmptiedTells, Zenon DEF GenType
<1>2. EndsOnly(<<>>) /\ \A d : ~Says(<<>>, d)
  BY SMT DEF EndsOnly, Says
<1> HIDE DEF w
<1>3. gen' = [gen EXCEPT ![g] = w]
  BY DEF w
<1>4. gen'[g] = w /\ \A h \in Gens : h # g => gen'[h] = gen[h]
  BY <1>3, OneSet
<1> QED  BY <1>1, <1>2, <1>4, Zenon DEF Lessens, Rest

LEMMA GenerationCalls ==
  ASSUME GenType, TellingInv, AskedInv, NEW g \in Gens, Serve(g) \/ Die(g) \/ EndOfStream(g)
  PROVE  TellingInv' /\ CallStep
<1>1. CASE Serve(g)
  BY <1>1, ServeCalls
<1>2. CASE Die(g) \/ EndOfStream(g)
  <2>1. pc' = pc /\ asked' = asked /\ answer' = answer
    BY <1>2, Zenon DEF Die, EndOfStream
  <2>2. WaitsSame
    BY <2>1, Zenon DEF WaitsSame
  <2>3. Lessens(g) /\ \A h \in Gens : h # g => gen'[h] = gen[h]
    BY <1>2, DieLessens, EndOfStreamLessens
  <2>4. TellingInv' /\ \A th \in Threads : CallOf(th)' = CallOf(th)
    BY <2>2, <2>3, LessCalls
  <2> QED  BY <2>1, <2>4, StaysACall
<1> QED  BY <1>1, <1>2

LEMMA TeardownCalls ==
  ASSUME ControlInv, GenType, TellingInv, AskedInv, NEW th \in Threads, Kill(th) \/ Reap(th)
  PROVE  TellingInv' /\ CallStep
<1>1. /\ asked' = asked /\ answer' = answer
      /\ \E place : pc' = [pc EXCEPT ![th] = place] /\ place # "wait"
      /\ pc[th] # "wait"
  <2>1. CASE Kill(th)
    <3>1. pc[th] = "kill" /\ pc' = [pc EXCEPT ![th] = "reap"] /\ asked' = asked /\ answer' = answer
      BY <2>1, Zenon DEF Kill, Goto
    <3>2. pc[th] # "wait" /\ "reap" # "wait"
      BY <3>1, SMT
    <3> QED  BY <3>1, <3>2, Zenon
  <2>2. CASE Reap(th)
    <3>1. pc[th] = "reap" /\ pc' = [pc EXCEPT ![th] = then[th]] /\ asked' = asked /\ answer' = answer
      BY <2>2, Zenon DEF Reap, Goto
    <3>2. then[th] # "wait"
      BY <3>1, SMT DEF ControlInv, PlacesInv, Tick, Tk, Threads
    <3> QED  BY <3>1, <3>2, Zenon
  <2> QED  BY <2>1, <2>2
<1>2. WaitsSame
  <2>1. DOMAIN pc = Threads
    BY Zenon DEF ControlInv, PlacesInv
  <2> QED  BY <1>1, <2>1, SMT DEF WaitsSame
<1>3. hold[th] \in Gens \cup {NoGen}
  BY Zenon DEF ControlInv, PlacesInv
<1>4. TellingInv' /\ \A t \in Threads : CallOf(t)' = CallOf(t)
  <2>1. CASE hold[th] = NoGen
    <3>1. gen' = gen
      BY <2>1, Zenon DEF Kill, Reap
    <3> QED  BY <1>2, <3>1, NoGenerationKeeps DEF TellingInv
  <2>2. CASE hold[th] # NoGen
    <3>1. PICK g \in Gens : g = hold[th]
      BY <1>3, <2>2
    <3>2. \/ gen' = [gen EXCEPT ![g] = Killed(gen[g])]
          \/ gen' = [gen EXCEPT ![g] = Emptied(gen[g])]
          \/ gen' = gen
      BY <2>2, <3>1, Zenon DEF Kill, Reap
    <3>3. CASE gen' = gen
      BY <1>2, <3>3, NoGenerationKeeps DEF TellingInv
    <3>4. CASE gen' # gen
      <4>1. Lessens(g) /\ \A h \in Gens : h # g => gen'[h] = gen[h]
        BY <3>2, <3>4, KillLessens, EmptyLessens
      <4> QED  BY <1>2, <4>1, LessCalls
    <3> QED  BY <3>3, <3>4
  <2> QED  BY <2>1, <2>2
<1> QED  BY <1>1, <1>4, StaysACall
-----------------------------------------------------------------------------
(* A call that returns is no longer waiting; one that a thread sends is. *)

LEMMA ReturnLocks ==
  ASSUME GenType, NEW th \in Threads, NEW g \in Gens, asked[th].gen = g,
         NEW reply, NEW rest \in SaidSeqs, EndsOnly(rest), Returns(th, reply, rest)
  PROVE  /\ gen'[g].lock = "free" /\ EndsOnly(gen'[g].queue)
         /\ \A h \in Gens : h # g => gen'[h] = gen[h]
         /\ asked' = [asked EXCEPT ![th] = NoAsk]
         /\ pc' = [pc EXCEPT ![th] = AfterReply(th, asked[th].command, reply)]
         /\ answer' = [answer EXCEPT ![th] = reply]
<1> DEFINE u == [gen[g] EXCEPT !.queue = rest]
           v == [u EXCEPT !.lock = "free"]
           w == [v EXCEPT !.did = "none"]
<1>1. gen[g] \in GenRecords
  BY DEF GenType
<1>2. u \in GenRecords /\ u.queue = rest
  BY <1>1, SetQueue
<1>3. w.lock = "free" /\ w.queue = rest
  <2>1. v \in GenRecords /\ v.lock = "free" /\ v.queue = rest
    <3> HIDE DEF u
    <3> QED  BY <1>2, SetRest, SetCall, ZenonT(40) DEF Same
  <2>2. "none" \in Commands
    BY DEF Commands
  <2> HIDE DEF v
  <2> QED  BY <2>1, <2>2, SetRest, SetCall, Zenon DEF Same
<1>4. gen' = [gen EXCEPT ![g] = w] \/ gen' = [gen EXCEPT ![g] = Unborn]
  BY Zenon DEF Returns
<1>5. EndsOnly(<<>>)
  BY SMT DEF EndsOnly
<1>6. /\ asked' = [asked EXCEPT ![th] = NoAsk]
      /\ pc' = [pc EXCEPT ![th] = AfterReply(th, asked[th].command, reply)]
      /\ answer' = [answer EXCEPT ![th] = reply]
  BY Zenon DEF Returns, Goto, Answered
<1> HIDE DEF w, v, u
<1>7. gen'[g] \in {w, Unborn} /\ \A h \in Gens : h # g => gen'[h] = gen[h]
  BY <1>4, OneSet
<1> QED  BY <1>3, <1>5, <1>6, <1>7, UnbornTells, Zenon

LEMMA ReturnCalls ==
  ASSUME ControlInv, GenType, TellingInv, NEW th \in Threads, NEW g \in Gens,
         asked[th].gen = g, pc[th] = "wait", NEW reply, NEW rest \in SaidSeqs, EndsOnly(rest),
         Returns(th, reply, rest)
  PROVE  /\ TellingInv' /\ Others(th) /\ CallOf(th)' = "none"
         /\ answer' = [answer EXCEPT ![th] = reply]
<1>1. /\ gen'[g].lock = "free" /\ EndsOnly(gen'[g].queue)
      /\ \A h \in Gens : h # g => gen'[h] = gen[h]
      /\ asked' = [asked EXCEPT ![th] = NoAsk]
      /\ pc' = [pc EXCEPT ![th] = AfterReply(th, asked[th].command, reply)]
      /\ answer' = [answer EXCEPT ![th] = reply]
  BY ReturnLocks
<1>2. DOMAIN pc = Threads /\ DOMAIN asked = Threads
  BY Zenon DEF ControlInv, PlacesInv
<1>3. AskedInv
  BY AskedIs
<1>4. pc'[th] # "wait"
  <2>1. asked[th].command \in Commands \ {"none"}
    BY <1>3, Zenon DEF AskedInv
  <2>2. AfterReply(th, asked[th].command, reply) # "wait"
    BY <2>1, AfterReplies, SMT DEF Commands
  <2> QED  BY <1>1, <1>2, <2>2, Zenon
<1>5. \A t \in Threads : t # th => pc'[t] = pc[t] /\ asked'[t] = asked[t]
  BY <1>1, <1>2, SMT
<1>6. AskedInv'
  BY <1>3, <1>4, <1>5, Zenon DEF AskedInv
<1>7. On(th, g) /\ \A t \in Threads : ~(pc'[t] = "wait" /\ asked'[t].gen = g)
  <2>1. On(th, g)
    BY Zenon DEF On
  <2>2. ASSUME NEW t \in Threads, pc'[t] = "wait", asked'[t].gen = g PROVE FALSE
    <3>1. t # th /\ On(t, g)
      BY <1>4, <1>5, <2>2, Zenon DEF On
    <3> QED  BY <2>1, <3>1, OneWaits DEF TellingInv
  <2> QED  BY <2>1, <2>2
<1>8. ElseSame(g)
  <2>1. ASSUME NEW t \in Threads, NEW h \in Gens, h # g
        PROVE  /\ On(t, h)' <=> On(t, h)
               /\ On(t, h) => asked'[t] = asked[t]
    <3>1. CASE t = th
      <4>1. ~On(t, h) /\ ~On(t, h)'
        BY <1>4, <2>1, <3>1, Zenon DEF On
      <4> QED  BY <4>1
    <3>2. CASE t # th
      <4>1. pc'[t] = pc[t] /\ asked'[t] = asked[t]
        BY <1>5, <3>2
      <4> QED  BY <4>1, Zenon DEF On
    <3> QED  BY <3>1, <3>2
  <2> QED  BY <1>1, <2>1, Zenon DEF ElseSame
<1>9. HereKept(g)
  <2>1. \A t \in Threads : t # "free"
    BY SMT DEF Threads
  <2> QED  BY <1>1, <1>7, <2>1, Zenon DEF HereKept
<1>10. /\ LocksInv' /\ TellsInv' /\ EndsInv'
       /\ \A t \in Threads :
            ~On(t, g) /\ ~(pc'[t] = "wait" /\ asked'[t].gen = g) => CallOf(t)' = CallOf(t)
  BY <1>3, <1>6, <1>8, <1>9, OneGenerationKeeps DEF TellingInv
<1>11. Others(th)
  <2> SUFFICES ASSUME NEW t \in Threads, t # th PROVE CallOf(t)' = CallOf(t)
    BY Zenon DEF Others
  <2>1. ~On(t, g)
    BY <1>7, OneWaits DEF TellingInv
  <2> QED  BY <1>7, <1>10, <2>1
<1>12. CallOf(th)' = "none"
  BY <1>4, Zenon DEF CallOf
<1> QED  BY <1>1, <1>10, <1>11, <1>12, Zenon DEF TellingInv

LEMMA TakeReplyCalls ==
  ASSUME ControlInv, GenType, TellingInv, NEW th \in Threads, TakeReply(th) \/ TimeOut(th)
  PROVE  TellingInv' /\ CallStep
<1>1. pc[th] = "wait"
  BY TakeReplyMoves, TimeOutMoves
<1>2. AskedInv
  BY AskedIs
<1>3. PICK g \in Gens : g = asked[th].gen
  BY <1>1, <1>2, Zenon DEF AskedInv
<1>4. /\ gen[g].queue \in SaidSeqs /\ EndsOnly(gen[g].queue)
      /\ asked[th].command \in Commands \ {"none"}
      /\ Tells(gen[g], asked[th].command)
  BY <1>1, <1>2, <1>3, InboxIs, Zenon DEF AskedInv, TellingInv, EndsInv, TellsInv
<1> DEFINE q == gen[g].queue
           head == Head(q)
           rest == Tail(q)
<1>5. CASE Returns(th, "ERROR", q)
  <2>1. /\ TellingInv' /\ Others(th) /\ CallOf(th)' = "none"
        /\ answer' = [answer EXCEPT ![th] = "ERROR"]
    BY <1>1, <1>3, <1>4, <1>5, ReturnCalls
  <2> QED  BY <2>1, FailsACall
<1>6. CASE /\ q # <<>>
           /\ \/ Returns(th, "ERROR", rest)
              \/ Returns(th, head.reply, rest) /\ head.command = asked[th].command
              \/ gen' = [gen EXCEPT ![g].queue = rest] /\ UNCHANGED <<pc, asked, answer>>
  <2>1. rest \in SaidSeqs /\ head \in SaidType
    BY <1>4, <1>6, SMT DEF SaidSeqs
  <2>2. EndsOnly(rest) /\ (head.reply = "END" => head.command = "none")
    BY <1>4, <1>6, EndsTail
  <2>3. CASE Returns(th, "ERROR", rest)
    <3> HIDE DEF rest
    <3>1. /\ TellingInv' /\ Others(th) /\ CallOf(th)' = "none"
          /\ answer' = [answer EXCEPT ![th] = "ERROR"]
      BY <1>1, <1>3, <2>1, <2>2, <2>3, ReturnCalls
    <3> QED  BY <3>1, FailsACall
  <2>4. CASE Returns(th, head.reply, rest) /\ head.command = asked[th].command
    <3>1. head.reply \in {"OK", "REFUSED"}
      BY <1>4, <2>1, <2>2, <2>4, SMT DEF SaidType
    <3>2. CallOf(th) = "done"
      <4>1. Says(q, asked[th].command)
        BY <1>4, <1>6, <2>4, SaysTail
      <4>2. gen[g].did = asked[th].command
        BY <1>4, <4>1, Zenon DEF Tells
      <4> QED  BY <1>1, <1>3, <4>2, Zenon DEF CallOf
    <3> DEFINE reply == head.reply
    <3>3. reply \in {"OK", "REFUSED"} /\ Returns(th, reply, rest)
      BY <2>4, <3>1
    <3> HIDE DEF rest, head, reply
    <3>4. /\ TellingInv' /\ Others(th) /\ CallOf(th)' = "none"
          /\ answer' = [answer EXCEPT ![th] = reply]
      BY <1>1, <1>3, <2>1, <2>2, <3>3, ReturnCalls
    <3> QED  BY <3>2, <3>3, <3>4, ReturnsACall
  <2>5. CASE gen' = [gen EXCEPT ![g].queue = rest] /\ UNCHANGED <<pc, asked, answer>>
    <3>1. WaitsSame
      BY <2>5, Zenon DEF WaitsSame
    <3>2. Lessens(g) /\ \A h \in Gens : h # g => gen'[h] = gen[h]
      BY <1>6, <2>5, DropLessens
    <3>3. TellingInv' /\ \A t \in Threads : CallOf(t)' = CallOf(t)
      BY <1>2, <3>1, <3>2, LessCalls
    <3> QED  BY <2>5, <3>3, StaysACall
  <2> QED  BY <1>6, <2>3, <2>4, <2>5
<1>7. CASE TakeReply(th)
  <2>1. /\ q # <<>>
        /\ \/ Returns(th, "ERROR", rest)
           \/ Returns(th, head.reply, rest) /\ head.command = asked[th].command
           \/ gen' = [gen EXCEPT ![g].queue = rest] /\ UNCHANGED <<pc, asked, answer>>
    BY <1>3, <1>7, Zenon DEF TakeReply, IsMine
  <2> QED  BY <1>6, <2>1
<1>8. CASE TimeOut(th)
  <2>1. Returns(th, "ERROR", q)
    BY <1>3, <1>8, Zenon DEF TimeOut
  <2> QED  BY <1>5, <2>1
<1> QED  BY <1>7, <1>8

(* A request sent, of a command that the generation does not owe; it is asked
   by no other call, for its lock was free. *)
LEMMA SendCalls ==
  ASSUME ControlInv, TellingInv, NEW th \in Threads, NEW g \in Gens, NEW c \in Commands \ {"none"},
         pc[th] # "wait", \A t \in Threads : ~On(t, g),
         gen'[g].lock = th, gen'[g].did = "none", EndsOnly(gen'[g].queue), Tells(gen'[g], c),
         \A h \in Gens : h # g => gen'[h] = gen[h],
         asked' = [asked EXCEPT ![th] = [gen |-> g, command |-> c]],
         pc' = [pc EXCEPT ![th] = "wait"], answer' = [answer EXCEPT ![th] = "none"]
  PROVE  TellingInv' /\ CallStep
<1>1. DOMAIN pc = Threads /\ DOMAIN asked = Threads
  BY Zenon DEF ControlInv, PlacesInv
<1>2. AskedInv
  BY AskedIs
<1>3. pc'[th] = "wait" /\ asked'[th].gen = g /\ asked'[th].command = c
  <2>1. pc'[th] = "wait" /\ asked'[th] = [gen |-> g, command |-> c]
    BY <1>1, Zenon
  <2> QED  BY <2>1
<1>4. \A t \in Threads : t # th => pc'[t] = pc[t] /\ asked'[t] = asked[t]
  BY <1>1, SMT
<1>5. AskedInv'
  BY <1>2, <1>3, <1>4, ZenonT(40) DEF AskedInv
<1>6. ASSUME NEW t \in Threads PROVE pc'[t] = "wait" /\ asked'[t].gen = g <=> t = th
  <2>1. CASE t = th
    BY <1>3, <2>1
  <2>2. CASE t # th
    <3>1. ~(pc'[t] = "wait" /\ asked'[t].gen = g)
      BY <1>4, <2>2, Zenon DEF On
    <3> QED  BY <2>2, <3>1
  <2> QED  BY <2>1, <2>2
<1>7. ElseSame(g)
  <2>1. ASSUME NEW t \in Threads, NEW h \in Gens, h # g
        PROVE  /\ On(t, h)' <=> On(t, h)
               /\ On(t, h) => asked'[t] = asked[t]
    <3>1. CASE t = th
      <4>1. ~On(t, h) /\ ~On(t, h)'
        BY <1>3, <2>1, <3>1, Zenon DEF On
      <4> QED  BY <4>1
    <3>2. CASE t # th
      <4>1. pc'[t] = pc[t] /\ asked'[t] = asked[t]
        BY <1>4, <3>2
      <4> QED  BY <4>1, Zenon DEF On
    <3> QED  BY <3>1, <3>2
  <2> QED  BY <2>1, Zenon DEF ElseSame
<1>8. HereKept(g)
  <2>1. \A t \in Threads : gen'[g].lock = t <=> pc'[t] = "wait" /\ asked'[t].gen = g
    <3> SUFFICES ASSUME NEW t \in Threads
                 PROVE  gen'[g].lock = t <=> pc'[t] = "wait" /\ asked'[t].gen = g
      OBVIOUS
    <3>1. pc'[t] = "wait" /\ asked'[t].gen = g <=> t = th
      BY <1>6
    <3> QED  BY <3>1
  <2>2. ASSUME NEW t \in Threads, pc'[t] = "wait" /\ asked'[t].gen = g
        PROVE  Tells(gen'[g], asked'[t].command)
    <3>1. t = th
      BY <1>6, <2>2
    <3> QED  BY <1>3, <3>1
  <2> QED  BY <2>1, <2>2, Zenon DEF HereKept
<1>9. /\ LocksInv' /\ TellsInv' /\ EndsInv'
      /\ \A t \in Threads :
           ~On(t, g) /\ ~(pc'[t] = "wait" /\ asked'[t].gen = g) => CallOf(t)' = CallOf(t)
  BY <1>2, <1>5, <1>7, <1>8, OneGenerationKeeps DEF TellingInv
<1>10. Others(th)
  <2> SUFFICES ASSUME NEW t \in Threads, t # th PROVE CallOf(t)' = CallOf(t)
    BY Zenon DEF Others
  <2>1. ~(pc'[t] = "wait" /\ asked'[t].gen = g)
    BY <1>6
  <2> QED  BY <1>9, <2>1
<1>11. CallOf(th) = "none" /\ CallOf(th)' = "sent"
  <2>1. gen'[g].did # c
    OBVIOUS
  <2> QED  BY <1>3, <2>1, Zenon DEF CallOf
<1>12. CallStep
  BY <1>10, <1>11, SendsACall
<1> QED  BY <1>9, <1>12, Zenon DEF TellingInv

LEMMA RequestCalls ==
  ASSUME ControlInv, GenType, TellingInv, NEW th \in Threads, NEW g \in Gens,
         NEW c \in Commands \ {"none"}, pc[th] # "wait", g \notin Owing(c), Request(th, g, c)
  PROVE  TellingInv' /\ CallStep
<1>1. DOMAIN pc = Threads /\ c \in Commands
  BY Zenon DEF ControlInv, PlacesInv
<1>2. CASE /\ gen' = gen /\ asked' = asked
           /\ pc' = [pc EXCEPT ![th] = AfterReply(th, c, "ERROR")]
           /\ answer' = [answer EXCEPT ![th] = "ERROR"]
  <2>1. AfterReply(th, c, "ERROR") # "wait"
    BY AfterReplies, SMT DEF Commands
  <2>2. WaitsSame
    <3> DEFINE place == AfterReply(th, c, "ERROR")
    <3>1. pc' = [pc EXCEPT ![th] = place] /\ place # "wait"
      BY <1>2, <2>1
    <3> HIDE DEF place
    <3> QED  BY <1>1, <1>2, <3>1, SMT DEF WaitsSame
  <2>3. TellingInv' /\ \A t \in Threads : CallOf(t)' = CallOf(t)
    BY <1>2, <2>2, NoGenerationKeeps DEF TellingInv
  <2>4. CallOf(th)' = "none" /\ Others(th)
    <3>1. CallOf(th) = "none"
      BY Zenon DEF CallOf
    <3> QED  BY <2>3, <3>1, Zenon DEF Others
  <2>5. CallStep
    BY <1>2, <2>4, FailsACall
  <2> QED  BY <2>3, <2>5
<1>3. CASE /\ gen[g].lock = "free" /\ Alive(g)
           /\ gen'[g].lock = th /\ gen'[g].did = "none"
           /\ gen'[g].inbox = Append(gen[g].inbox, c) /\ gen'[g].queue = gen[g].queue
           /\ \A h \in Gens : h # g => gen'[h] = gen[h]
           /\ asked' = [asked EXCEPT ![th] = [gen |-> g, command |-> c]]
           /\ pc' = [pc EXCEPT ![th] = "wait"]
           /\ answer' = [answer EXCEPT ![th] = "none"]
  <2>1. \A t \in Threads : ~On(t, g)
    <3> SUFFICES ASSUME NEW t \in Threads, On(t, g) PROVE FALSE
      OBVIOUS
    <3>1. gen[g].lock = t
      BY Zenon DEF TellingInv, LocksInv, On
    <3> QED  BY <1>3, <3>1, SMT DEF Threads
  <2>2. ~Asks(gen[g].inbox, c) /\ ~Says(gen[g].queue, c)
    BY <1>3, Zenon DEF Owing, Asking, Saying
  <2>3. gen[g].inbox \in Seq(Commands)
    BY InboxIs
  <2>4. Tells(gen'[g], c)
    BY <1>3, <2>2, <2>3, TellsAsked
  <2>5. EndsOnly(gen'[g].queue)
    BY <1>3, Zenon DEF TellingInv, EndsInv
  <2> QED  BY <1>3, <2>1, <2>4, <2>5, SendCalls
<1> QED  BY <1>1, <1>2, <1>3, RequestLocks

(* A generation chosen is nobody's: no call waits on it. *)
LEMMA SpawnCalls ==
  ASSUME ControlInv, GenType, TellingInv, NEW th \in Threads, Spawn(th)
  PROVE  TellingInv' /\ CallStep
<1>1. PICK g \in Gens : Chosen(th, g)
  BY SpawnChooses
<1>2. /\ gen'[g] = Unborn /\ \A h \in Gens : h # g => gen'[h] = gen[h]
      /\ \A t \in Threads : g # asked[t].gen
      /\ asked' = [asked EXCEPT ![th] = [gen |-> g, command |-> "INIT"]]
      /\ pc' = [pc EXCEPT ![th] = "launch"]
  BY <1>1, Zenon DEF Chosen
<1>3. answer' = answer /\ pc[th] = "spawn"
  BY Zenon DEF Spawn
<1>4. DOMAIN pc = Threads /\ DOMAIN asked = Threads
  BY Zenon DEF ControlInv, PlacesInv
<1>5. \A t \in Threads : /\ pc'[t] = "wait" <=> pc[t] = "wait"
                         /\ pc[t] = "wait" => asked'[t] = asked[t]
  <2>1. "launch" # "wait" /\ "spawn" # "wait"
    OBVIOUS
  <2> DEFINE place == "launch"
             ask == [gen |-> g, command |-> "INIT"]
  <2>2. pc' = [pc EXCEPT ![th] = place] /\ asked' = [asked EXCEPT ![th] = ask]
        /\ place # "wait" /\ pc[th] # "wait"
    BY <1>2, <1>3, <2>1
  <2> HIDE DEF place, ask
  <2> QED  BY <1>4, <2>2, SMT
<1>6. AskedInv
  BY AskedIs
<1>7. AskedInv'
  BY <1>5, <1>6, Zenon DEF AskedInv
<1>8. \A t \in Threads : ~On(t, g) /\ ~(pc'[t] = "wait" /\ asked'[t].gen = g)
  BY <1>2, <1>5, Zenon DEF On
<1>9. ElseSame(g)
  <2>1. \A t \in Threads, h \in Gens : /\ On(t, h)' <=> On(t, h)
                                       /\ On(t, h) => asked'[t] = asked[t]
    BY <1>5, Zenon DEF On
  <2> QED  BY <1>2, <2>1, Zenon DEF ElseSame
<1>10. HereKept(g)
  <2>1. EndsOnly(<<>>) /\ \A t \in Threads : t # "free"
    BY SMT DEF EndsOnly, Threads
  <2> QED  BY <1>2, <1>8, <2>1, UnbornTells, Zenon DEF HereKept
<1>11. /\ LocksInv' /\ TellsInv' /\ EndsInv'
       /\ \A t \in Threads :
            ~On(t, g) /\ ~(pc'[t] = "wait" /\ asked'[t].gen = g) => CallOf(t)' = CallOf(t)
  BY <1>6, <1>7, <1>9, <1>10, OneGenerationKeeps DEF TellingInv
<1>12. \A t \in Threads : CallOf(t)' = CallOf(t)
  BY <1>8, <1>11
<1> QED  BY <1>3, <1>11, <1>12, StaysACall DEF TellingInv

(* The generation that is launched is asked by the thread that launches it. *)
LEMMA LaunchCalls ==
  ASSUME ControlInv, WorkerInv, TellingInv, NEW th \in Threads, Launch(th)
  PROVE  TellingInv' /\ CallStep
<1>1. PICK g \in Gens : /\ pc[th] = "launch" /\ g = asked[th].gen
                       /\ asked[th].command = "INIT" /\ Born(th, g)
  BY LaunchBorn
<1>2. /\ gen'[g].inbox = <<"INIT">> /\ gen'[g].queue = <<>>
      /\ \A h \in Gens : h # g => gen'[h] = gen[h]
      /\ asked' = asked /\ pc' = [pc EXCEPT ![th] = "wait"]
  BY <1>1, Zenon DEF Born
<1>3. /\ gen'[g].lock = th /\ gen'[g].did = "none"
      /\ answer' = [answer EXCEPT ![th] = "none"]
  BY <1>1, LaunchLocks, Zenon DEF WorkerInv, GensInv
<1>4. asked' = [asked EXCEPT ![th] = [gen |-> g, command |-> "INIT"]]
  <2>1. asked \in [Threads -> [gen : Gens \cup {NoGen}, command : Commands]]
    BY Zenon DEF ControlInv, PlacesInv
  <2>2. asked[th] = [gen |-> g, command |-> "INIT"]
    <3>1. asked[th] \in [gen : Gens \cup {NoGen}, command : Commands]
      BY <2>1
    <3> QED  BY <1>1, <3>1
  <2>3. [asked EXCEPT ![th] = asked[th]] = asked
    BY <2>1
  <2> QED  BY <1>2, <2>2, <2>3, Zenon
<1>5. "INIT" \in Commands \ {"none"}
  BY SMT DEF Commands
<1>6. /\ EndsOnly(<<>>) /\ ~Says(<<>>, "INIT")
      /\ \A i \in 1..Len(<<"INIT">>) : <<"INIT">>[i] = "INIT" => i = Len(<<"INIT">>)
  BY SMT DEF EndsOnly, Says
<1>7. Tells(gen'[g], "INIT")
  <2>1. gen'[g].did # "INIT"
    BY <1>3, SMT
  <2> QED  BY <1>2, <1>6, <2>1, Zenon DEF Tells
<1>8. pc[th] # "wait" /\ EndsOnly(gen'[g].queue)
  BY <1>1, <1>2, <1>6, SMT
<1>9. \A t \in Threads : ~On(t, g)
  <2>1. CASE th = "tick"
    <3>1. Tk = "wait" => asked["tk"].gen # g
      BY <1>1, <2>1, Zenon DEF WorkerInv, HoldsInv, Tick
    <3> QED  BY <1>8, <2>1, <3>1, SMT DEF On, Tk, Threads
  <2>2. CASE th = "tk"
    <3>1. Tick \in {"none", "check", "end"}
      BY <1>1, <2>2, SMT DEF ControlInv, QuietInv, Resuming, Tk
    <3> QED  BY <1>8, <2>2, <3>1, SMT DEF On, Tick, Threads
  <2> QED  BY <2>1, <2>2, Zenon DEF Threads
<1> QED  BY <1>2, <1>3, <1>4, <1>5, <1>7, <1>8, <1>9, SendCalls

(* A step of a thread that calls nothing. *)
LEMMA QuietCalls ==
  ASSUME TellingInv, gen' = gen, WaitsSame,
         \/ answer' = answer
         \/ \E th \in Threads : pc[th] # "wait" /\ answer' = [answer EXCEPT ![th] = "none"]
  PROVE  TellingInv' /\ CallStep
<1>1. TellingInv' /\ \A t \in Threads : CallOf(t)' = CallOf(t)
  BY NoGenerationKeeps DEF TellingInv
<1>2. CASE answer' = answer
  BY <1>1, <1>2, StaysACall
<1>3. CASE \E th \in Threads : pc[th] # "wait" /\ answer' = [answer EXCEPT ![th] = "none"]
  <2>1. PICK th \in Threads : pc[th] # "wait" /\ answer' = [answer EXCEPT ![th] = "none"]
    BY <1>3
  <2>2. CallOf(th) = "none"
    BY <2>1, Zenon DEF CallOf
  <2>3. CallStep
    BY <1>1, <2>1, <2>2, DropsAnAnswer
  <2> QED  BY <1>1, <2>3
<1> QED  BY <1>2, <1>3

(* Neither the thread that moves was waiting nor will it be. *)
LEMMA MovesQuietly ==
  ASSUME ControlInv, NEW th \in Threads, pc[th] # "wait", NEW place, place # "wait",
         pc' = [pc EXCEPT ![th] = place], asked' = asked
  PROVE  WaitsSame
<1>1. DOMAIN pc = Threads
  BY Zenon DEF ControlInv, PlacesInv
<1> QED  BY <1>1, SMT DEF WaitsSame

LEMMA RequestsCall ==
  ASSUME ThreadsInv, TellingInv, ClosingInv,
         Capture \/ AskPause \/ AskResume \/ AskStop \/ ShutDown
  PROVE  TellingInv' /\ CallStep
<1>1. /\ ControlInv /\ GenType /\ OwedInv /\ "tick" \in Threads /\ "tk" \in Threads
  BY Zenon DEF ThreadsInv, WorkerInv, GensInv, CommandsInv, Threads
<1>2. worker # NoGen => worker \in Gens
  BY <1>1, Zenon DEF ControlInv, PlacesInv
<1>3. {"CAPTURE", "PAUSE", "RESUME", "STOP", "SHUTDOWN"} \subseteq Commands \ {"none"}
  BY SMT DEF Commands
<1>4. CASE Capture
  <2>1. Tick = "capture" /\ pc["tick"] # "wait"
    BY <1>4, SMT DEF Capture, Tick
  <2>2. CASE worker # NoGen
    <3>1. worker \notin CaptureOwed
      BY <1>1, <2>1, SMT DEF OwedInv, AskedFor, Waiting, Tick
    <3>2. worker \notin Owing("CAPTURE") /\ Request("tick", worker, "CAPTURE")
      BY <1>4, <2>2, <3>1, Zenon DEF Capture, Owing, CaptureOwed
    <3> QED  BY <1>1, <1>2, <1>3, <2>1, <2>2, <3>2, RequestCalls
  <2>3. CASE worker = NoGen
    <3>1. /\ gen' = gen /\ asked' = asked /\ answer' = answer
          /\ pc' = [pc EXCEPT !["tick"] = "end"] /\ "end" # "wait"
      BY <1>4, <2>3, Zenon DEF Capture, Goto, client
    <3>2. WaitsSame
      BY <1>1, <2>1, <3>1, MovesQuietly
    <3> QED  BY <3>1, <3>2, QuietCalls
  <2> QED  BY <2>2, <2>3
<1>5. CASE AskPause
  <2>1. Tk = "ask_pause" /\ pc["tk"] # "wait"
    BY <1>5, SMT DEF AskPause, Tk
  <2>2. CASE ~(state # "RECORDING" \/ worker = NoGen)
    <3>1. worker \notin PauseOwed
      BY <1>1, <2>1, SMT DEF OwedInv, AskedFor, Waiting, Tk
    <3>2. worker \notin Owing("PAUSE") /\ Request("tk", worker, "PAUSE")
      BY <1>5, <2>2, <3>1, Zenon DEF AskPause, Owing, PauseOwed
    <3> QED  BY <1>1, <1>2, <1>3, <2>1, <2>2, <3>2, RequestCalls
  <2>3. CASE state # "RECORDING" \/ worker = NoGen
    <3>1. /\ gen' = gen /\ asked' = asked /\ answer' = answer
          /\ pc' = [pc EXCEPT !["tk"] = "idle"] /\ "idle" # "wait"
      BY <1>5, <2>3, Zenon DEF AskPause, Goto, client
    <3>2. WaitsSame
      BY <1>1, <2>1, <3>1, MovesQuietly
    <3> QED  BY <3>1, <3>2, QuietCalls
  <2> QED  BY <2>2, <2>3
<1>6. CASE AskResume
  <2>1. Tk = "ask_resume" /\ pc["tk"] # "wait"
    BY <1>6, SMT DEF AskResume, Tk
  <2>2. CASE worker # NoGen
    <3>1. worker \notin ResumeOwed
      BY <1>1, <2>1, SMT DEF OwedInv, AskedFor, Waiting, Tk
    <3>2. worker \notin Owing("RESUME") /\ Request("tk", worker, "RESUME")
      BY <1>6, <2>2, <3>1, Zenon DEF AskResume, Owing, ResumeOwed
    <3> QED  BY <1>1, <1>2, <1>3, <2>1, <2>2, <3>2, RequestCalls
  <2>3. CASE worker = NoGen
    <3>1. /\ gen' = gen /\ asked' = asked /\ answer' = [answer EXCEPT !["tk"] = "none"]
          /\ pc' = [pc EXCEPT !["tk"] = "idle"] /\ "idle" # "wait"
      BY <1>6, <2>3, Zenon DEF AskResume, Goto, Used, Answered
    <3>2. WaitsSame
      BY <1>1, <2>1, <3>1, MovesQuietly
    <3> QED  BY <1>1, <2>1, <3>1, <3>2, QuietCalls
  <2> QED  BY <2>2, <2>3
<1>7. CASE AskStop
  <2>1. Tk = "ask_stop" /\ pc["tk"] # "wait"
    BY <1>7, SMT DEF AskStop, Tk
  <2>2. CASE worker # NoGen /\ Usable(worker)
    <3>1. Owing("STOP") = {}
      BY <2>1, SMT DEF ClosingInv, Closing, ShuttingDown, Waiting, Tearing, Tk
    <3>2. worker \notin Owing("STOP") /\ Request("tk", worker, "STOP")
      BY <1>7, <2>2, <3>1, Zenon DEF AskStop
    <3> QED  BY <1>1, <1>2, <1>3, <2>1, <2>2, <3>2, RequestCalls
  <2>3. CASE ~(worker # NoGen /\ Usable(worker))
    <3>1. /\ gen' = gen /\ asked' = asked /\ answer' = answer
          /\ pc' = [pc EXCEPT !["tk"] = "stop"] /\ "stop" # "wait"
      BY <1>7, <2>3, Zenon DEF AskStop, Goto, client
    <3>2. WaitsSame
      BY <1>1, <2>1, <3>1, MovesQuietly
    <3> QED  BY <3>1, <3>2, QuietCalls
  <2> QED  BY <2>2, <2>3
<1>8. CASE ShutDown
  <2>1. Tk = "shut_down" /\ pc["tk"] # "wait"
    BY <1>8, SMT DEF ShutDown, Tk
  <2>2. CASE worker # NoGen
    <3>1. Owing("SHUTDOWN") = {}
      BY <2>1, SMT DEF ClosingInv, Closing, ShuttingDown, Waiting, Tearing, Tk
    <3>2. worker \notin Owing("SHUTDOWN") /\ Request("tk", worker, "SHUTDOWN")
      BY <1>8, <2>2, <3>1, Zenon DEF ShutDown
    <3> QED  BY <1>1, <1>2, <1>3, <2>1, <2>2, <3>2, RequestCalls
  <2>3. CASE worker = NoGen
    <3>1. /\ gen' = gen /\ asked' = asked /\ answer' = answer
          /\ pc' = [pc EXCEPT !["tk"] = "finalize"] /\ "finalize" # "wait"
      BY <1>8, <2>3, Zenon DEF ShutDown, Goto, client
    <3>2. WaitsSame
      BY <1>1, <2>1, <3>1, MovesQuietly
    <3> QED  BY <3>1, <3>2, QuietCalls
  <2> QED  BY <2>2, <2>3
<1> QED  BY <1>4, <1>5, <1>6, <1>7, <1>8

(* Nor do the steps that ask nothing. *)
LEMMA StillCalls ==
  ASSUME ControlInv, TellingInv,
         \/ Deadline
         \/ Dispatch
         \/ EndLoop
         \/ CheckState
         \/ Process
         \/ CaptureFailed
         \/ Decide
         \/ RestartFailed
         \/ PauseAfterRestart
         \/ OnPause
         \/ EndTick
         \/ ClickPause
         \/ Drain("drain_pause", "ask_pause")
         \/ PauseFailed
         \/ EndPause
         \/ ClickResume
         \/ Drain("drain_resume", "begin_resume")
         \/ BeginResume
         \/ ResumeFailed
         \/ EndResume
         \/ RestartScheduler
         \/ \E how \in {"ask_stop", "emergency", "close"} : ClickStop(how)
         \/ DrainStop
         \/ StopMachine
         \/ EmergencyStop
         \/ CloseWindow
         \/ Finalize
  PROVE  TellingInv' /\ CallStep
<1> DEFINE Quiet == /\ WaitsSame
                    /\ \/ answer' = answer
                       \/ \E th \in Threads :
                            pc[th] # "wait" /\ answer' = [answer EXCEPT ![th] = "none"]
<1> SUFFICES Quiet
  BY GenSame, QuietCalls
<1>0. /\ pc \in [Threads -> TickPlaces \cup TkPlaces] /\ in_flight <=> Tick # "none"
      /\ Tk = "join" => then["tk"] \in {"ask_stop", "emergency", "close"}
  BY Zenon DEF ControlInv, PlacesInv
<1>1. CASE Deadline
  <2>1. WaitsSame
    BY <1>0, <1>1, SMT DEF Deadline, WaitsSame, Goto, Tick, Tk, Threads, client, Used
  <2>2. answer' = answer
    BY <1>1, Zenon DEF Deadline, client
  <2> QED  BY <2>1, <2>2
<1>2. CASE Dispatch
  <2>1. WaitsSame
    <3>1. CASE in_flight
      BY <1>2, <3>1, Zenon DEF Dispatch, FreeToServe, WaitsSame, client
    <3>2. CASE ~in_flight
      <4>1. /\ pc["tick"] = "none" /\ "tick" \in Threads
            /\ pc' = [pc EXCEPT !["tick"] = "check"] /\ asked' = asked
        BY <1>0, <1>2, <3>2, Zenon DEF Dispatch, FreeToServe, Goto, Tick, client, Threads
      <4>2. pc["tick"] # "wait" /\ "check" # "wait"
        BY <4>1
      <4> QED  BY <4>1, <4>2, MovesQuietly
    <3> QED  BY <3>1, <3>2
  <2>2. answer' = answer
    BY <1>2, Zenon DEF Dispatch, client, FreeToServe
  <2> QED  BY <2>1, <2>2
<1>3. CASE EndLoop
  <2>1. WaitsSame
    BY <1>0, <1>3, SMT DEF EndLoop, WaitsSame, Goto, Tick, Tk, Threads, client, Used
  <2>2. answer' = answer
    BY <1>3, Zenon DEF EndLoop, client
  <2> QED  BY <2>1, <2>2
<1>4. CASE CheckState
  <2>1. WaitsSame
    BY <1>0, <1>4, SMT DEF CheckState, WaitsSame, Goto, Tick, Tk, Threads, client, Used
  <2>2. answer' = answer
    BY <1>4, Zenon DEF CheckState, client
  <2> QED  BY <2>1, <2>2
<1>5. CASE Process
  <2>1. WaitsSame
    BY <1>0, <1>5, SMT DEF Process, WaitsSame, Goto, Tick, Tk, Threads, client, Used, AutoPause
  <2>2. answer' = answer
    BY <1>5, Zenon DEF Process, client, AutoPause
  <2> QED  BY <2>1, <2>2
<1>6. CASE CaptureFailed
  <2>1. WaitsSame
    BY <1>0, <1>6, SMT DEF CaptureFailed, WaitsSame, Goto, Tick, Tk, Threads, client, Used, Teardown
  <2>2. answer' = answer
    BY <1>6, Zenon DEF CaptureFailed, client, Teardown
  <2> QED  BY <2>1, <2>2
<1>7. CASE Decide
  <2>1. WaitsSame
    BY <1>0, <1>7, SMT DEF Decide, WaitsSame, Goto, Tick, Tk, Threads, client, Used, AutoPause
  <2>2. answer' = answer
    BY <1>7, Zenon DEF Decide, client, AutoPause
  <2> QED  BY <2>1, <2>2
<1>8. CASE RestartFailed
  <2>1. WaitsSame
    BY <1>0, <1>8, SMT DEF RestartFailed, WaitsSame, Goto, Tick, Tk, Threads, client, Used, Teardown
  <2>2. answer' = answer
    BY <1>8, Zenon DEF RestartFailed, client, Teardown
  <2> QED  BY <2>1, <2>2
<1>9. CASE PauseAfterRestart
  <2>1. WaitsSame
    BY <1>0, <1>9, SMT DEF PauseAfterRestart, WaitsSame, Goto, Tick, Tk, Threads, client, Used, AutoPause
  <2>2. answer' = answer
    BY <1>9, Zenon DEF PauseAfterRestart, client, AutoPause
  <2> QED  BY <2>1, <2>2
<1>10. CASE OnPause
  <2>1. WaitsSame
    BY <1>0, <1>10, SMT DEF OnPause, WaitsSame, Goto, Tick, Tk, Threads, client, Used
  <2>2. answer' = answer
    BY <1>10, Zenon DEF OnPause, client
  <2> QED  BY <2>1, <2>2
<1>11. CASE EndTick
  <2>1. WaitsSame
    BY <1>0, <1>11, SMT DEF EndTick, WaitsSame, Goto, Tick, Tk, Threads, client, Used
  <2>2. pc["tick"] # "wait" /\ answer' = [answer EXCEPT !["tick"] = "none"] /\ "tick" \in Threads
    BY <1>11, SMT DEF EndTick, Used, Answered, Threads
  <2> QED  BY <2>1, <2>2
<1>12. CASE ClickPause
  <2>1. WaitsSame
    BY <1>0, <1>12, SMT DEF ClickPause, WaitsSame, Goto, Tick, Tk, Threads, client, Used
  <2>2. answer' = answer
    BY <1>12, Zenon DEF ClickPause, client
  <2> QED  BY <2>1, <2>2
<1>13. CASE Drain("drain_pause", "ask_pause")
  <2>1. WaitsSame
    BY <1>0, <1>13, SMT DEF Drain, WaitsSame, Goto, Tick, Tk, Threads, client, Used
  <2>2. answer' = answer
    BY <1>13, Zenon DEF Drain, client
  <2> QED  BY <2>1, <2>2
<1>14. CASE PauseFailed
  <2>1. WaitsSame
    BY <1>0, <1>14, SMT DEF PauseFailed, WaitsSame, Goto, Tick, Tk, Threads, client, Used, Teardown
  <2>2. answer' = answer
    BY <1>14, Zenon DEF PauseFailed, client, Teardown
  <2> QED  BY <2>1, <2>2
<1>15. CASE EndPause
  <2>1. WaitsSame
    BY <1>0, <1>15, SMT DEF EndPause, WaitsSame, Goto, Tick, Tk, Threads, client, Used
  <2>2. pc["tk"] # "wait" /\ answer' = [answer EXCEPT !["tk"] = "none"] /\ "tk" \in Threads
    BY <1>15, SMT DEF EndPause, Used, Answered, Threads
  <2> QED  BY <2>1, <2>2
<1>16. CASE ClickResume
  <2>1. WaitsSame
    BY <1>0, <1>16, SMT DEF ClickResume, WaitsSame, Goto, Tick, Tk, Threads, client, Used
  <2>2. answer' = answer
    BY <1>16, Zenon DEF ClickResume, client
  <2> QED  BY <2>1, <2>2
<1>17. CASE Drain("drain_resume", "begin_resume")
  <2>1. WaitsSame
    BY <1>0, <1>17, SMT DEF Drain, WaitsSame, Goto, Tick, Tk, Threads, client, Used
  <2>2. answer' = answer
    BY <1>17, Zenon DEF Drain, client
  <2> QED  BY <2>1, <2>2
<1>18. CASE BeginResume
  <2>1. WaitsSame
    BY <1>0, <1>18, SMT DEF BeginResume, WaitsSame, Goto, Tick, Tk, Threads, client, Used
  <2>2. answer' = answer
    BY <1>18, Zenon DEF BeginResume, client
  <2> QED  BY <2>1, <2>2
<1>19. CASE ResumeFailed
  <2>1. WaitsSame
    BY <1>0, <1>19, SMT DEF ResumeFailed, WaitsSame, Goto, Tick, Tk, Threads, client, Used, Teardown
  <2>2. pc["tk"] # "wait" /\ answer' = [answer EXCEPT !["tk"] = "none"] /\ "tk" \in Threads
    BY <1>19, SMT DEF ResumeFailed, Used, Answered, Threads
  <2> QED  BY <2>1, <2>2
<1>20. CASE EndResume
  <2>1. WaitsSame
    BY <1>0, <1>20, SMT DEF EndResume, WaitsSame, Goto, Tick, Tk, Threads, client, Used
  <2>2. pc["tk"] # "wait" /\ answer' = [answer EXCEPT !["tk"] = "none"] /\ "tk" \in Threads
    BY <1>20, SMT DEF EndResume, Used, Answered, Threads
  <2> QED  BY <2>1, <2>2
<1>21. CASE \E how \in {"ask_stop", "emergency", "close"} : ClickStop(how)
  <2>1. WaitsSame
    BY <1>0, <1>21, SMT DEF ClickStop, WaitsSame, Goto, Tick, Tk, Threads, client, Used
  <2>2. answer' = answer
    BY <1>21, Zenon DEF ClickStop, client
  <2> QED  BY <2>1, <2>2
<1>22. CASE DrainStop
  <2>1. WaitsSame
    BY <1>0, <1>22, SMT DEF DrainStop, WaitsSame, Goto, Tick, Tk, Threads, client, Used
  <2>2. answer' = answer
    BY <1>22, Zenon DEF DrainStop, client
  <2> QED  BY <2>1, <2>2
<1>23. CASE StopMachine
  <2>1. WaitsSame
    BY <1>0, <1>23, SMT DEF StopMachine, WaitsSame, Goto, Tick, Tk, Threads, client, Used
  <2>2. pc["tk"] # "wait" /\ answer' = [answer EXCEPT !["tk"] = "none"] /\ "tk" \in Threads
    BY <1>23, SMT DEF StopMachine, Used, Answered, Threads
  <2> QED  BY <2>1, <2>2
<1>24. CASE EmergencyStop
  <2>1. WaitsSame
    BY <1>0, <1>24, SMT DEF EmergencyStop, WaitsSame, Goto, Tick, Tk, Threads, client, Used, Teardown
  <2>2. answer' = answer
    BY <1>24, Zenon DEF EmergencyStop, client, Teardown
  <2> QED  BY <2>1, <2>2
<1>25. CASE CloseWindow
  <2>1. WaitsSame
    BY <1>0, <1>25, SMT DEF CloseWindow, WaitsSame, Goto, Tick, Tk, Threads, client, Used, Teardown
  <2>2. answer' = answer
    BY <1>25, Zenon DEF CloseWindow, client, Teardown
  <2> QED  BY <2>1, <2>2
<1>26. CASE Finalize
  <2>1. WaitsSame
    BY <1>0, <1>26, SMT DEF Finalize, WaitsSame, Goto, Tick, Tk, Threads, client, Used
  <2>2. pc["tk"] # "wait" /\ answer' = [answer EXCEPT !["tk"] = "none"] /\ "tk" \in Threads
    BY <1>26, SMT DEF Finalize, Used, Answered, Threads
  <2> QED  BY <2>1, <2>2
<1>27. CASE RestartScheduler
  <2>1. WaitsSame
    BY <1>0, <1>27, SMT DEF RestartScheduler, WaitsSame, Goto, Tick, Tk, Threads, client, Used
  <2>2. answer' = answer
    BY <1>27, Zenon DEF RestartScheduler, client
  <2> QED  BY <2>1, <2>2
<1> HIDE DEF Quiet
<1> QED  BY <1>1, <1>2, <1>3, <1>4, <1>5, <1>6, <1>7, <1>8, <1>9, <1>10, <1>11, <1>12, <1>13, <1>14, <1>15, <1>16, <1>17, <1>18, <1>19, <1>20, <1>21, <1>22, <1>23, <1>24, <1>25, <1>26, <1>27

(* What a call may have answered. *)
AnswersInv == answer \in [Threads -> {"none", "OK", "REFUSED", "ERROR"}]

LEMMA AnswersStay == ASSUME AnswersInv, CallStep PROVE AnswersInv'
  BY Zenon DEF AnswersInv, CallStep, calls, Calls!Next, Calls!Send, Calls!Perform, Calls!Return,
     Calls!Fail, Calls!Drop

(* The exit ends the call of a tick that waits, if there is one. *)
LEMMA ExitCalls ==
  ASSUME ControlInv, TellingInv, AnswersInv, Exit
  PROVE  TellingInv' /\ CallStep
<1>1. /\ pc["tk"] = "exit" /\ gen' = [g \in Gens |-> Unborn]
      /\ pc' = [pc EXCEPT !["tk"] = "over", !["tick"] = "none"]
      /\ asked' = [th \in Threads |-> NoAsk]
      /\ answer' = [answer EXCEPT !["tick"] = IF asked["tick"] = NoAsk THEN @ ELSE "ERROR"]
  BY Zenon DEF Exit
<1>2. pc'["tk"] = "over" /\ pc'["tick"] = "none"
  <2>1. DOMAIN pc = Threads
    BY Zenon DEF ControlInv, PlacesInv
  <2> QED  BY <1>1, <2>1, SMT DEF Threads
<1>3. \A th \in Threads : pc'[th] # "wait" /\ CallOf(th)' = "none"
  BY <1>2, SMT DEF Threads, CallOf
<1>4. LocksInv'
  <2>1. \A g \in Gens, th \in Threads : gen'[g].lock # th
    BY <1>1, UnbornTells, SMT DEF Threads
  <2> QED  BY <1>3, <2>1, Zenon DEF LocksInv
<1>5. TellsInv'
  BY <1>3, Zenon DEF TellsInv
<1>6. EndsInv'
  <2>1. EndsOnly(<<>>)
    BY SMT DEF EndsOnly
  <2> QED  BY <1>1, <2>1, UnbornTells, Zenon DEF EndsInv
<1>7. "tick" \in Threads /\ CallOf("tk") = "none"
  BY <1>1, SMT DEF Threads, CallOf
<1>8. Others("tick")
  BY <1>3, <1>7, SMT DEF Others, Threads
<1>9. CASE asked["tick"] = NoAsk
  <2>1. answer' = [answer EXCEPT !["tick"] = answer["tick"]]
    BY <1>1, <1>9, Zenon
  <2>2. answer' = answer
    BY <2>1, SMT DEF AnswersInv
  <2>3. pc["tick"] # "wait"
    BY <1>9, ThreadsAssumption, SMT DEF ControlInv, PlacesInv, NoAsk, Threads
  <2>4. CallOf("tick") = "none"
    BY <2>3, Zenon DEF CallOf
  <2>5. \A th \in Threads : CallOf(th)' = CallOf(th)
    BY <1>3, <1>7, <2>4, SMT DEF Threads
  <2>6. CallStep
    BY <2>2, <2>5, StaysACall
  <2> QED  BY <1>4, <1>5, <1>6, <2>6, Zenon DEF TellingInv
<1>10. CASE asked["tick"] # NoAsk
  <2>1. answer' = [answer EXCEPT !["tick"] = "ERROR"]
    BY <1>1, <1>10, Zenon
  <2>2. CallStep
    BY <1>3, <1>7, <1>8, <2>1, FailsACall
  <2> QED  BY <1>4, <1>5, <1>6, <2>2, Zenon DEF TellingInv
<1> QED  BY <1>9, <1>10
-----------------------------------------------------------------------------
(* STOP and SHUTDOWN are owed only while the session is being closed. *)

LEMMA FewerOwes == ASSUME Fewer, NEW c PROVE Owing(c)' \subseteq Owing(c)
<1>1. Asking(c)' \subseteq Asking(c)
  BY Zenon DEF Fewer, Same, Asking
<1>2. Saying(c)' \subseteq Saying(c)
  BY Zenon DEF Fewer, Same, Saying
<1> QED  BY <1>1, <1>2, Zenon DEF Owing

LEMMA RequestOwing ==
  ASSUME GenType, NEW th \in Threads, NEW g \in Gens, NEW d \in Commands, Request(th, g, d),
         NEW c, c # d
  PROVE  Owing(c)' \subseteq Owing(c)
<1>1. CASE gen' = gen
  BY <1>1, NoneFewer, FewerOwes
<1>2. CASE Sent(g, d)
  <2>1. Saying(c)' = Saying(c) /\ Asking(c)' \subseteq Asking(c)
    BY <1>2, SentOwes, Zenon
  <2> QED  BY <2>1, Zenon DEF Owing
<1> QED  BY <1>1, <1>2, RequestSends

(* Only AskStop makes a generation owe STOP, and only ShutDown SHUTDOWN. *)
LEMMA OwingShrinks ==
  ASSUME ControlInv, WorkerInv, Next, NEW c \in {"STOP", "SHUTDOWN"},
         ~(c = "STOP" /\ AskStop), ~(c = "SHUTDOWN" /\ ShutDown)
  PROVE  Owing(c)' \subseteq Owing(c)
<1>1. /\ GenType /\ "tick" \in Threads /\ "tk" \in Threads /\ c # "INIT"
      /\ \A th \in Threads : hold[th] \in Gens \cup {NoGen}
      /\ \A th \in Threads : pc[th] = "wait" => asked[th].gen \in Gens
  BY SMT DEF WorkerInv, GensInv, ControlInv, PlacesInv, Threads
<1>2. CASE \E th \in Threads : TakeReply(th) \/ TimeOut(th)
  <2>1. PICK th \in Threads : TakeReply(th) \/ TimeOut(th)
    BY <1>2
  <2>2. asked[th].gen \in Gens
    BY <1>1, <2>1, TakeReplyMoves, TimeOutMoves
  <2>3. CASE TakeReply(th)
    <3>1. Asking(c)' \subseteq Asking(c) /\ Saying(c)' \subseteq Saying(c)
      BY <1>1, <2>2, <2>3, TakeReplyLess
    <3> QED  BY <3>1, Zenon DEF Owing
  <2>4. CASE TimeOut(th)
    BY <1>1, <2>2, <2>4, TimeOutFewer, FewerOwes
  <2> QED  BY <2>1, <2>3, <2>4
<1>3. CASE \E th \in Threads : Kill(th) \/ Reap(th)
  <2>1. PICK th \in Threads : Kill(th) \/ Reap(th)
    BY <1>3
  <2>2. CASE Kill(th)
    BY <1>1, <2>2, KillFewer, FewerOwes
  <2>3. CASE Reap(th)
    BY <1>1, <2>3, ReapFewer, FewerOwes
  <2> QED  BY <2>1, <2>2, <2>3
<1>4. CASE Capture \/ AskPause \/ AskResume \/ AskStop \/ ShutDown
  <2>1. \/ gen' = gen
        \/ worker # NoGen /\ \E th \in Threads, d \in {"CAPTURE", "PAUSE", "RESUME"} :
                               Request(th, worker, d)
        \/ worker # NoGen /\ AskStop /\ Request("tk", worker, "STOP")
        \/ worker # NoGen /\ ShutDown /\ Request("tk", worker, "SHUTDOWN")
    BY <1>1, <1>4, Zenon DEF Capture, AskPause, AskResume, AskStop, ShutDown, client, Used
  <2>2. worker # NoGen => worker \in Gens
    BY Zenon DEF ControlInv, PlacesInv
  <2>3. {"CAPTURE", "PAUSE", "RESUME", "STOP", "SHUTDOWN"} \subseteq Commands
    BY DEF Commands
  <2>4. \/ gen' = gen
        \/ worker # NoGen /\ \E th \in Threads, d \in Commands :
                               Request(th, worker, d) /\ c # d
    BY <1>1, <2>1, <2>3, SMT
  <2> QED  BY <1>1, <2>2, <2>4, RequestOwing, NoneFewer, FewerOwes
<1>5. CASE \E g \in Gens : Serve(g) \/ Die(g) \/ EndOfStream(g)
  <2>1. PICK g \in Gens : Serve(g) \/ Die(g) \/ EndOfStream(g)
    BY <1>5
  <2>2. CASE Serve(g)
    <3>1. PICK d \in Commands, reply \in {"OK", "REFUSED"} : Served(g, d, reply)
      BY <1>1, <2>2, ServeServes
    <3>2. Asking(c)' \subseteq Asking(c) /\ Saying(c)' \subseteq Saying(c) \cup Asking(c)
      BY <3>1, ServedMoves
    <3> QED  BY <3>2, Zenon DEF Owing
  <2> QED  BY <1>1, <2>1, <2>2, DieFewer, EndOfStreamFewer, FewerOwes
<1>6. CASE Exit
  BY <1>1, <1>6, ExitFewer, FewerOwes
<1>7. CASE \E th \in Threads : Spawn(th)
  <2>1. PICK th \in Threads, g \in Gens : Chosen(th, g)
    BY <1>1, <1>7, SpawnChooses
  <2> QED  BY <2>1, FewerOwes DEF Chosen
<1>8. CASE \E th \in Threads : Launch(th)
  <2>1. PICK th \in Threads : Launch(th)
    BY <1>8
  <2>2. asked[th].gen \in Gens /\ Born(th, asked[th].gen)
    BY <2>1, LaunchBorn
  <2>3. Asking(c)' \subseteq Asking(c) /\ Saying(c)' \subseteq Saying(c)
    BY <1>1, <2>2, BornAsks
  <2> QED  BY <2>3, Zenon DEF Owing
<1>9. \/ gen' = gen
      \/ \E th \in Threads : TakeReply(th) \/ TimeOut(th)
      \/ \E th \in Threads : Kill(th) \/ Reap(th)
      \/ Capture \/ AskPause \/ AskResume \/ AskStop \/ ShutDown
      \/ \E g \in Gens : Serve(g) \/ Die(g) \/ EndOfStream(g)
      \/ Exit
      \/ \E th \in Threads : Spawn(th)
      \/ \E th \in Threads : Launch(th)
  BY <1>1, StepKinds, GenSame
<1> QED  BY <1>1, <1>2, <1>3, <1>4, <1>5, <1>6, <1>7, <1>8, <1>9, NoneFewer, FewerOwes

(* A session that is being closed is not opened again. *)
ClosingOn == /\ Closing => Closing'
             /\ ShuttingDown => ShuttingDown'

TkStays == pc'["tk"] = pc["tk"] /\ then'["tk"] = then["tk"] /\ asked'["tk"] = asked["tk"]

LEMMA TkStaysClosing == ASSUME TkStays PROVE ClosingOn
  BY SMT DEF TkStays, ClosingOn, Closing, ShuttingDown, Waiting, Tearing, Tk

LEMMA OthersStay ==
  ASSUME ControlInv,
         \/ Deadline \/ Dispatch \/ EndLoop
         \/ CheckState \/ Capture \/ Process \/ CaptureFailed \/ Decide
         \/ RestartFailed \/ PauseAfterRestart \/ OnPause \/ EndTick
         \/ TakeReply("tick") \/ TimeOut("tick") \/ Kill("tick") \/ Reap("tick")
         \/ Spawn("tick") \/ Launch("tick")
         \/ \E g \in Gens : Serve(g) \/ Die(g) \/ EndOfStream(g)
  PROVE  TkStays
<1>0. pc \in [Threads -> TickPlaces \cup TkPlaces] /\ DOMAIN asked = Threads /\ DOMAIN then = Threads
  BY Zenon DEF ControlInv, PlacesInv
<1> USE DEF TkStays, Goto, Threads, local, client, Used
<1>1. CASE Deadline \/ Dispatch \/ EndLoop
  BY <1>0, <1>1, SMT DEF Deadline, Dispatch, EndLoop
<1>2. CASE CheckState \/ Process \/ PauseAfterRestart \/ OnPause \/ EndTick
  BY <1>0, <1>2, SMT DEF CheckState, Process, PauseAfterRestart, OnPause, EndTick, AutoPause
<1>3. CASE CaptureFailed \/ Decide \/ RestartFailed
  BY <1>0, <1>3, SMT DEF CaptureFailed, Decide, RestartFailed, Teardown, AutoPause
<1>4. CASE Capture
  <2>1. CASE worker = NoGen
    BY <1>0, <1>4, <2>1, SMT DEF Capture
  <2>2. CASE worker # NoGen
    <3>1. Request("tick", worker, "CAPTURE") /\ then' = then
      BY <1>4, <2>2, Zenon DEF Capture
    <3> QED  BY <1>0, <3>1, RequestMoves, SMT
  <2> QED  BY <2>1, <2>2
<1>5. CASE TakeReply("tick") \/ TimeOut("tick")
  <2>1. /\ then' = then
        /\ \/ pc' = pc /\ asked' = asked
           \/ \E reply : /\ pc' = [pc EXCEPT !["tick"] = AfterReply("tick", asked["tick"].command, reply)]
                         /\ asked' = [asked EXCEPT !["tick"] = NoAsk]
    BY <1>5, TakeReplyMoves, TimeOutMoves
  <2> QED  BY <1>0, <2>1, SMT
<1>6. CASE Kill("tick") \/ Reap("tick")
  <2>1. /\ \E place : pc' = [pc EXCEPT !["tick"] = place]
        /\ asked' = asked /\ (then' = then \/ then' = [then EXCEPT !["tick"] = "idle"])
    BY <1>6, Zenon DEF Kill, Reap
  <2> QED  BY <1>0, <2>1, SMT
<1>7. CASE Spawn("tick") \/ Launch("tick")
  <2>1. /\ then' = then /\ \E place : pc' = [pc EXCEPT !["tick"] = place]
        /\ \/ asked' = asked
           \/ \E ask : asked' = [asked EXCEPT !["tick"] = ask]
    BY <1>7, Zenon DEF Spawn, Launch
  <2> QED  BY <1>0, <2>1, SMT
<1>8. CASE \E g \in Gens : Serve(g) \/ Die(g) \/ EndOfStream(g)
  BY <1>8, Zenon DEF Serve, Die, EndOfStream
<1> QED  BY <1>1, <1>2, <1>3, <1>4, <1>5, <1>6, <1>7, <1>8

(* The handlers of the Tk thread. *)
LEMMA TkCloses ==
  ASSUME ControlInv,
         \/ ClickPause
         \/ Drain("drain_pause", "ask_pause")
         \/ PauseFailed
         \/ EndPause
         \/ ClickResume
         \/ Drain("drain_resume", "begin_resume")
         \/ BeginResume
         \/ ResumeFailed
         \/ EndResume
         \/ RestartScheduler
         \/ \E how \in {"ask_stop", "emergency", "close"} : ClickStop(how)
         \/ DrainStop
         \/ StopMachine
         \/ EmergencyStop
         \/ CloseWindow
         \/ Finalize
         \/ Exit
  PROVE  ClosingOn
<1>0. /\ pc \in [Threads -> TickPlaces \cup TkPlaces]
      /\ then \in [Threads -> TkPlaces \cup {"decide"}]
  BY Zenon DEF ControlInv, PlacesInv
<1> USE DEF ClosingOn, Closing, ShuttingDown, Waiting, Tearing, Tk, Threads, Goto, local, client, Used
<1>1. CASE ClickPause
  BY <1>0, <1>1, SMT DEF ClickPause
<1>2. CASE Drain("drain_pause", "ask_pause")
  BY <1>0, <1>2, SMT DEF Drain
<1>3. CASE PauseFailed
  BY <1>0, <1>3, SMT DEF PauseFailed, Teardown
<1>4. CASE EndPause
  BY <1>0, <1>4, SMT DEF EndPause
<1>5. CASE ClickResume
  BY <1>0, <1>5, SMT DEF ClickResume
<1>6. CASE Drain("drain_resume", "begin_resume")
  BY <1>0, <1>6, SMT DEF Drain
<1>7. CASE BeginResume
  BY <1>0, <1>7, SMT DEF BeginResume
<1>8. CASE ResumeFailed
  BY <1>0, <1>8, SMT DEF ResumeFailed, Teardown
<1>9. CASE EndResume
  BY <1>0, <1>9, SMT DEF EndResume
<1>10. CASE \E how \in {"ask_stop", "emergency", "close"} : ClickStop(how)
  BY <1>0, <1>10, SMT DEF ClickStop
<1>11. CASE DrainStop
  BY <1>0, <1>11, SMT DEF DrainStop
<1>12. CASE StopMachine
  BY <1>0, <1>12, SMT DEF StopMachine
<1>13. CASE EmergencyStop
  BY <1>0, <1>13, SMT DEF EmergencyStop, Teardown
<1>14. CASE CloseWindow
  BY <1>0, <1>14, SMT DEF CloseWindow, Teardown
<1>15. CASE Finalize
  BY <1>0, <1>15, SMT DEF Finalize
<1>16. CASE Exit
  BY <1>0, <1>16, SMT DEF Exit
<1>17. CASE RestartScheduler
  BY <1>0, <1>17, SMT DEF RestartScheduler
<1> QED  BY <1>1, <1>2, <1>3, <1>4, <1>5, <1>6, <1>7, <1>8, <1>9, <1>10, <1>11, <1>12, <1>13, <1>14, <1>15, <1>16, <1>17

LEMMA TkCallCloses ==
  ASSUME ControlInv,
         \/ TakeReply("tk") \/ TimeOut("tk") \/ Kill("tk") \/ Reap("tk")
         \/ Spawn("tk") \/ Launch("tk")
  PROVE  ClosingOn
<1>0. /\ pc \in [Threads -> TickPlaces \cup TkPlaces]
      /\ then \in [Threads -> TkPlaces \cup {"decide"}]
      /\ asked \in [Threads -> [gen : Gens \cup {NoGen}, command : Commands]]
      /\ Waiting("tk", "SHUTDOWN") => then["tk"] = "finalize"
  BY Zenon DEF ControlInv, PlacesInv
<1> USE DEF ClosingOn, Closing, ShuttingDown, Waiting, Tearing, Tk, Threads
<1>1. CASE TakeReply("tk") \/ TimeOut("tk")
  <2>1. /\ pc["tk"] = "wait" /\ then' = then
        /\ \/ pc' = pc /\ asked' = asked
           \/ \E reply : /\ pc' = [pc EXCEPT !["tk"] = AfterReply("tk", asked["tk"].command, reply)]
                         /\ asked' = [asked EXCEPT !["tk"] = NoAsk]
    BY <1>1, TakeReplyMoves, TimeOutMoves, Zenon DEF local
  <2> QED  BY <1>0, <2>1, AfterReplies, SMT
<1>2. CASE Kill("tk")
  <2>1. pc["tk"] = "kill" /\ pc' = [pc EXCEPT !["tk"] = "reap"] /\ then' = then /\ asked' = asked
    BY <1>2, Zenon DEF Kill, Goto, local
  <2> QED  BY <1>0, <2>1, SMT
<1>3. CASE Reap("tk")
  <2>1. /\ pc["tk"] = "reap" /\ pc' = [pc EXCEPT !["tk"] = then["tk"]]
        /\ then' = [then EXCEPT !["tk"] = "idle"] /\ asked' = asked
    BY <1>3, Zenon DEF Reap, Goto
  <2> QED  BY <1>0, <2>1, SMT
<1>4. CASE Spawn("tk") \/ Launch("tk")
  <2>1. pc["tk"] \in {"spawn", "launch"}
    BY <1>4, Zenon DEF Spawn, Launch
  <2> QED  BY <2>1, SMT
<1> QED  BY <1>1, <1>2, <1>3, <1>4

LEMMA TkRequestCloses ==
  ASSUME ControlInv, AskPause \/ AskResume \/ AskStop \/ ShutDown
  PROVE  ClosingOn /\ (AskStop => Closing') /\ (ShutDown => ShuttingDown')
<1>0. /\ pc \in [Threads -> TickPlaces \cup TkPlaces]
      /\ then \in [Threads -> TkPlaces \cup {"decide"}] /\ DOMAIN asked = Threads
  BY Zenon DEF ControlInv, PlacesInv
<1> USE DEF ClosingOn, Closing, ShuttingDown, Waiting, Tearing, Tk, Threads
<1>1. CASE AskPause \/ AskResume
  <2>1. pc["tk"] \in {"ask_pause", "ask_resume"}
    BY <1>1, Zenon DEF AskPause, AskResume
  <2>2. ~AskStop /\ ~ShutDown
    BY <2>1, SMT DEF AskStop, ShutDown
  <2>3. ClosingOn
    BY <2>1, SMT
  <2> QED  BY <2>2, <2>3
<1>2. CASE AskStop
  <2>1. pc["tk"] = "ask_stop"
    BY <1>2, Zenon DEF AskStop
  <2>2. ~ShutDown
    BY <2>1, SMT DEF ShutDown
  <2>3. \/ pc' = [pc EXCEPT !["tk"] = "stop"]
        \/ Request("tk", worker, "STOP")
    BY <1>2, Zenon DEF AskStop, Goto
  <2>4. \/ pc' = [pc EXCEPT !["tk"] = "stop"]
        \/ /\ pc' = [pc EXCEPT !["tk"] = "wait"]
           /\ asked' = [asked EXCEPT !["tk"] = [gen |-> worker, command |-> "STOP"]]
    BY <2>3, RequestMoves, AfterReplies DEF Threads
  <2>5. Closing' /\ ClosingOn
    BY <1>0, <2>1, <2>4, SMT
  <2> QED  BY <2>2, <2>5
<1>3. CASE ShutDown
  <2>1. pc["tk"] = "shut_down" /\ then' = [then EXCEPT !["tk"] = "finalize"]
    BY <1>3, Zenon DEF ShutDown
  <2>2. \/ pc' = [pc EXCEPT !["tk"] = "finalize"]
        \/ Request("tk", worker, "SHUTDOWN")
    BY <1>3, Zenon DEF ShutDown, Goto
  <2>3. \/ pc' = [pc EXCEPT !["tk"] = "finalize"] \/ pc' = [pc EXCEPT !["tk"] = "kill"]
        \/ /\ pc' = [pc EXCEPT !["tk"] = "wait"]
           /\ asked' = [asked EXCEPT !["tk"] = [gen |-> worker, command |-> "SHUTDOWN"]]
    BY <2>2, RequestMoves, AfterReplies DEF Threads
  <2>4. ShuttingDown' /\ Closing' /\ ClosingOn
    BY <1>0, <2>1, <2>3, SMT
  <2> QED  BY <2>4
<1> QED  BY <1>1, <1>2, <1>3

LEMMA ClosingStep ==
  ASSUME ControlInv, WorkerInv, ClosingInv, Next
  PROVE  ClosingInv'
<1>1. CASE AskPause \/ AskResume \/ AskStop \/ ShutDown
  <2>1. ClosingOn /\ (AskStop => Closing') /\ (ShutDown => ShuttingDown')
    BY <1>1, TkRequestCloses
  <2>2. /\ ~AskStop => Owing("STOP")' \subseteq Owing("STOP")
        /\ ~ShutDown => Owing("SHUTDOWN")' \subseteq Owing("SHUTDOWN")
    BY OwingShrinks, SMT
  <2> QED  BY <2>1, <2>2, Zenon DEF ClosingInv, ClosingOn
<1>2. CASE ~(AskPause \/ AskResume \/ AskStop \/ ShutDown)
  <2>1. /\ Owing("STOP")' \subseteq Owing("STOP")
        /\ Owing("SHUTDOWN")' \subseteq Owing("SHUTDOWN")
    BY <1>2, OwingShrinks
  <2>2. ClosingOn
    BY <1>2, StepKinds, OthersStay, TkStaysClosing, TkCloses, TkCallCloses
  <2> QED  BY <2>1, <2>2, Zenon DEF ClosingInv, ClosingOn
<1> QED  BY <1>1, <1>2
-----------------------------------------------------------------------------
(* The refinement. *)

LEMMA CallsInit == Init => CallInv /\ AnswersInv /\ Calls!Init
<1> SUFFICES ASSUME Init PROVE CallInv /\ AnswersInv /\ Calls!Init
  OBVIOUS
<1>1. /\ pc = [th \in Threads |-> IF th = "tick" THEN "none" ELSE "idle"]
      /\ answer = [th \in Threads |-> "none"]
  BY Zenon DEF Init
<1>2. \A th \in Threads : pc[th] # "wait"
  BY <1>1, SMT
<1>3. ASSUME NEW g \in Gens
      PROVE  gen[g].inbox = <<>> /\ gen[g].queue = <<>> /\ gen[g].lock = "free"
  <2> DEFINE first == [Unborn EXCEPT !.process = "alive", !.valid = TRUE,
                                     !.mode = "RECORDING", !.ended = FALSE]
  <2>1. gen[g] = first \/ gen[g] = Unborn
    BY Zenon DEF Init
  <2>2. first.inbox = <<>> /\ first.queue = <<>> /\ first.lock = "free"
    BY Zenon DEF Unborn
  <2> HIDE DEF first
  <2> QED  BY <2>1, <2>2, UnbornTells
<1>4. LocksInv /\ TellsInv
  <2>1. \A th \in Threads : th # "free"
    BY SMT DEF Threads
  <2> QED  BY <1>2, <1>3, <2>1, Zenon DEF LocksInv, TellsInv
<1>5. EndsOnly(<<>>) /\ \A c : ~Asks(<<>>, c) /\ ~Says(<<>>, c)
  BY SMT DEF EndsOnly, Asks, Says
<1>6. EndsInv
  BY <1>3, <1>5, Zenon DEF EndsInv
<1>7. ClosingInv
  <2>1. \A c : Owing(c) = {}
    BY <1>3, <1>5, Zenon DEF Owing, Asking, Saying
  <2> QED  BY <2>1, Zenon DEF ClosingInv
<1>8. AnswersInv
  BY <1>1, Zenon DEF AnswersInv
<1>9. Calls!Init
  BY <1>1, <1>2, Zenon DEF Calls!Init
<1> QED  BY <1>4, <1>6, <1>7, <1>8, <1>9 DEF CallInv

LEMMA CallsStep ==
  ASSUME ThreadsInv, CallInv, AnswersInv, [Next]_vars
  PROVE  CallInv' /\ AnswersInv' /\ CallStep
<1>1. /\ ControlInv /\ WorkerInv /\ GenType /\ AskedInv /\ TellingInv /\ ClosingInv
      /\ "tick" \in Threads /\ "tk" \in Threads
  BY AskedIs, Zenon DEF ThreadsInv, WorkerInv, GensInv, CallInv, TellingInv, Threads
<1>2. CASE UNCHANGED vars
  <2>1. gen' = gen /\ pc' = pc /\ asked' = asked /\ answer' = answer
    BY <1>2, Zenon DEF vars
  <2>2. WaitsSame
    BY <2>1, Zenon DEF WaitsSame
  <2>3. TellingInv' /\ CallStep
    BY <1>1, <2>1, <2>2, QuietCalls
  <2>4. ClosingInv'
    <3>1. Owing("STOP")' = Owing("STOP") /\ Owing("SHUTDOWN")' = Owing("SHUTDOWN")
      BY <2>1, Zenon DEF Owing, Asking, Saying, Alive
    <3>2. ClosingOn
      BY <1>2, TkStaysClosing, Zenon DEF vars, TkStays
    <3> QED  BY <1>1, <3>1, <3>2, Zenon DEF ClosingInv, ClosingOn
  <2> QED  BY <2>1, <2>3, <2>4, AnswersStay, Zenon DEF CallInv, TellingInv
<1>3. CASE Next
  <2>1. TellingInv' /\ CallStep
    <3>1. CASE Capture \/ AskPause \/ AskResume \/ AskStop \/ ShutDown
      BY <1>1, <3>1, RequestsCall
    <3>2. CASE TakeReply("tick") \/ TimeOut("tick") \/ TakeReply("tk") \/ TimeOut("tk")
      BY <1>1, <3>2, TakeReplyCalls
    <3>3. CASE Kill("tick") \/ Reap("tick") \/ Kill("tk") \/ Reap("tk")
      BY <1>1, <3>3, TeardownCalls
    <3>4. CASE Spawn("tick") \/ Spawn("tk") \/ Launch("tick") \/ Launch("tk")
      BY <1>1, <3>4, SpawnCalls, LaunchCalls
    <3>5. CASE \E g \in Gens : Serve(g) \/ Die(g) \/ EndOfStream(g)
      BY <1>1, <3>5, GenerationCalls
    <3>6. CASE Exit
      BY <1>1, <3>6, ExitCalls
    <3> QED  BY <1>1, <1>3, <3>1, <3>2, <3>3, <3>4, <3>5, <3>6, StepKinds, StillCalls
  <2>2. ClosingInv'
    BY <1>1, <1>3, ClosingStep
  <2>3. AnswersInv'
    BY <2>1, AnswersStay
  <2> QED  BY <2>1, <2>2, <2>3, Zenon DEF CallInv, TellingInv
<1> QED  BY <1>2, <1>3

(* request is what the controller takes it for: a call that returns a reply was
   carried out by the worker while it waited, and one that fails is an error,
   however many threads call, and whatever becomes of the process, its streams
   and the lock meanwhile (worker.py WorkerClient.request). *)
THEOREM RequestsAreCalls == Spec => RequestIsOneCall
<1> DEFINE Inv == ThreadsInv /\ CallInv /\ AnswersInv
<1>1. Init => Inv /\ Calls!Init
  BY ControlInit, WorkerInit, CommandsInit, CallsInit DEF ThreadsInv, CommandsInv
<1>2. Inv /\ [Next]_vars => Inv' /\ CallStep
  BY ControlStep, WorkerStep, CommandsStep, CallsStep DEF ThreadsInv
<1> HIDE DEF Inv
<1> QED  BY <1>1, <1>2, PTL DEF Spec, RequestIsOneCall, Calls!Spec, CallStep, calls
=============================================================================
