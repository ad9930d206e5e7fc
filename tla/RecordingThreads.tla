--------------------------- MODULE RecordingThreads ---------------------------
(***************************************************************************)
(* The threads of a recording session: the scheduler's loop, the tick      *)
(* thread it starts (src/screen2xyz_m2/scheduler.py), and the Tk thread    *)
(* with the handlers of Pause, Resume, Stop, Emergency stop and Close      *)
(* (ui/app.py).  They share the session's state, the worker of the         *)
(* controller (controller.py) and its pipe (worker.py).  A step is what a  *)
(* thread does between two places where another thread may get in its way. *)
(***************************************************************************)
EXTENDS Integers, Sequences

CONSTANTS
  Gens,          \* names of worker generations; a dead one's is used again
  NoGen,         \* self.worker is None
  FailureLimit,  \* C.FAILURE_STREAK_LIMIT
  MaxOrphans     \* bound: forgotten workers after which the owner only stops

ASSUME ThreadsAssumption ==
  Gens # {} /\ NoGen \notin Gens /\ FailureLimit \in Nat \ {0} /\ MaxOrphans \in Nat

VARIABLES
  state,      \* the state machine's, from RECORDING on
  failures,   \* recording_failures
  worker,     \* the controller's current generation
  (* TickScheduler *)
  running,    \* _running is set
  stopped,    \* _stopped is set
  loop,       \* the loop thread: "waiting", "serving" a deadline, "ended"
  in_flight,  \* a tick holds _in_flight
  (* Threads *)
  pc,         \* where each thread is
  hold,       \* the generation it tears down
  then,       \* where it goes when that is done
  asked,      \* its last request: generation, command, identifier
  answer,     \* what that request returned, until the thread has gone on
  (* Generations *)
  gen,        \* WorkerClient and its process
  (* History *)
  drained,    \* Stop found no tick in flight
  paused_frame, \* a frame was captured with the session PAUSED
  orphans,    \* how many workers were forgotten that had not been torn down
  overtaken   \* Resume restarted the scheduler over a pause

vars == <<state, failures, worker, running, stopped, loop, in_flight, pc, hold, then,
          asked, answer, gen, drained, paused_frame, orphans, overtaken>>

scheduler == <<running, stopped, loop, in_flight>>
session   == <<state, failures, drained, paused_frame>>
known     == <<worker, orphans, overtaken>>
local     == <<hold, then>>
client    == <<asked, answer, gen>>

Threads  == {"tick", "tk"}
Commands == {"none", "CAPTURE", "INIT", "PAUSE", "RESUME", "STOP", "SHUTDOWN"}
END      == [command |-> "none", reply |-> "END"]  \* the None that ends the stream
NoAsk    == [gen |-> NoGen, command |-> "none"]

Unborn == [process |-> "dead", mode |-> "none", valid |-> FALSE,
           lock |-> "free", inbox |-> <<>>, queue |-> <<>>, ended |-> TRUE,
           did |-> "none"]

(* _restore_state *)
Restored == IF state \in {"RECORDING", "PAUSED"} THEN state ELSE "SETUP"

(* A generation just spawned; the worker's mode will be the restored one. *)
Spawned == [process |-> "alive", mode |-> Restored, valid |-> TRUE,
            lock |-> "free", inbox |-> <<>>, queue |-> <<>>, ended |-> FALSE,
            did |-> "none"]

Unused == {g \in Gens : /\ g # worker /\ gen[g].process = "dead"
                        /\ \A th \in Threads : g \notin {asked[th].gen, hold[th]}}

Usable(g) == gen[g].valid /\ gen[g].process = "alive"

Goto(th, place) == pc' = [pc EXCEPT ![th] = place]
Answered(th, a) == answer' = [answer EXCEPT ![th] = a]
Used(th) == Answered(th, "none") /\ UNCHANGED <<asked, gen>>
-----------------------------------------------------------------------------
(* WorkerClient.request: where the caller goes on. *)

AfterReply(th, command, reply) ==
  CASE command = "CAPTURE"  -> IF reply = "OK" THEN "process" ELSE "failed"
    [] command = "INIT"     -> IF reply # "OK" THEN "init_failed"
                               ELSE IF th = "tick" THEN "end" ELSE "ask_resume"
    [] command = "PAUSE"    -> IF reply = "ERROR" THEN "pause_failed" ELSE "pause"
    [] command = "RESUME"   -> IF reply = "ERROR" THEN "resume_failed" ELSE "resume"
    [] command = "STOP"     -> "stop"
    [] command = "SHUTDOWN" -> "kill"

(* The request id is random; since a generation is torn down once it owes
   a reply, and only STOP is followed by another command all the same, the
   command tells the requests of a generation apart.  The lock is not waited for, a dead worker is not written to. *)
Request(th, g, command) ==
  IF gen[g].lock # "free" \/ ~Usable(g)
  THEN /\ Answered(th, "ERROR")
       /\ Goto(th, AfterReply(th, command, "ERROR"))
       /\ UNCHANGED <<gen, asked>>
  ELSE /\ gen' = [gen EXCEPT ![g].lock = th, ![g].did = "none",
                             ![g].inbox = Append(@, command)]
       /\ asked' = [asked EXCEPT ![th] = [gen |-> g, command |-> command]]
       /\ Goto(th, "wait")
       /\ Answered(th, "none")

(* As if any reply were taken for the answer. *)
AnyReply(th, reply) == TRUE

IsMine(th, reply) == reply.command = asked[th].command

(* Invalidated and killed; what it has said thrown away.  Once no call is
   waiting on a generation torn down nobody will look at it again. *)
Ended(w)   == [w EXCEPT !.process = "dead", !.mode = "none", !.inbox = <<>>]
Killed(w)  == [Ended(w) EXCEPT !.valid = FALSE]
Emptied(w) == IF w.lock = "free" THEN Unborn ELSE [w EXCEPT !.queue = <<>>]

(* The call ends with `reply`; the queue is left as `rest`.  When INIT is not
   answered well, start tears the new generation down itself. *)
Returns(th, reply, rest) ==
  LET w == [gen[asked[th].gen] EXCEPT !.queue = rest, !.lock = "free", !.did = "none"]
  IN  /\ gen' = [gen EXCEPT ![asked[th].gen] =
                   IF ~w.valid \/ (asked[th].command = "INIT" /\ reply # "OK")
                   THEN Unborn ELSE w]
      /\ asked' = [asked EXCEPT ![th] = NoAsk]
      /\ Answered(th, reply)
      /\ Goto(th, AfterReply(th, asked[th].command, reply))

(* The loop around _stdout_queue.get: the end of the stream is an error, a
   reply to another request is dropped. *)
TakeReply(th) ==
  /\ pc[th] = "wait"
  /\ LET g == asked[th].gen IN
     /\ gen[g].queue # <<>>
     /\ LET head == Head(gen[g].queue)
            rest == Tail(gen[g].queue)
        IN  IF head = END THEN Returns(th, "ERROR", rest)
            ELSE IF IsMine(th, head)
            THEN Returns(th, head.reply, rest)
            ELSE /\ gen' = [gen EXCEPT ![g].queue = rest]
                 /\ UNCHANGED <<pc, asked, answer>>
  /\ UNCHANGED <<session, scheduler, known, local>>

(* As if a call could wait for ever. *)
NoTimeOut(th) == FALSE

TimedOut(th) == pc[th] = "wait"

TimeOut(th) ==
  /\ TimedOut(th)
  /\ Returns(th, "ERROR", gen[asked[th].gen].queue)
  /\ UNCHANGED <<session, scheduler, known, local>>
-----------------------------------------------------------------------------
(* The worker process and the thread that reads its output. *)

Legal(mode, command) ==
  \/ command \in {"INIT", "SHUTDOWN"}
  \/ command \in {"CAPTURE", "PAUSE"} /\ mode = "RECORDING"
  \/ command = "RESUME" /\ mode = "PAUSED"
  \/ command = "STOP" /\ mode \in {"RECORDING", "PAUSED"}

ModeAfter(mode, command) ==
  IF ~Legal(mode, command) THEN mode
  ELSE CASE command = "PAUSE"  -> "PAUSED"
         [] command = "RESUME" -> "RECORDING"
         [] command = "STOP"   -> "SETUP"
         [] OTHER              -> mode

(* A legal capture may still fail. *)
Replies(mode, command) ==
  IF ~Legal(mode, command) THEN {"REFUSED"}
  ELSE IF command = "CAPTURE" THEN {"OK", "REFUSED"} ELSE {"OK"}

(* The next command is carried out and answered; SHUTDOWN is the last. *)
Serve(g) ==
  /\ gen[g].process = "alive" /\ gen[g].inbox # <<>>
  /\ LET command == Head(gen[g].inbox)
         w == [gen[g] EXCEPT !.inbox = Tail(@), !.did = command,
                             !.mode = ModeAfter(@, command)]
     IN  /\ \E reply \in Replies(gen[g].mode, command) :
              LET said == [w EXCEPT !.queue =
                             Append(@, [command |-> command, reply |-> reply])]
              IN  gen' = [gen EXCEPT ![g] = IF command = "SHUTDOWN"
                                            THEN Ended(said) ELSE said]
         /\ paused_frame' = (\/ paused_frame
                             \/ /\ command = "CAPTURE" /\ state = "PAUSED"
                                /\ gen[g].mode = "RECORDING")
  /\ UNCHANGED <<state, failures, drained, scheduler, known, pc, local, asked, answer>>

(* The process ends on its own. *)
Die(g) ==
  /\ gen[g].process = "alive"
  /\ gen' = [gen EXCEPT ![g] = Ended(@)]
  /\ UNCHANGED <<session, scheduler, known, pc, local, asked, answer>>

(* _read_stdout comes to the end of the stream. *)
EndOfStream(g) ==
  /\ gen[g].process = "dead" /\ ~gen[g].ended
  /\ gen' = [gen EXCEPT ![g].queue = Append(@, END), ![g].ended = TRUE]
  /\ UNCHANGED <<session, scheduler, known, pc, local, asked, answer>>
-----------------------------------------------------------------------------
(* Teardown: the generation is killed, if it has a process yet, *)
Kill(th) ==
  /\ pc[th] = "kill"
  /\ gen' = IF hold[th] = NoGen THEN gen
            ELSE [gen EXCEPT ![hold[th]] = Killed(@)]
  /\ Goto(th, "reap")
  /\ UNCHANGED <<session, scheduler, known, local, asked, answer>>

(* what it had said is thrown away, and the controller has no worker, not
   even one that the other thread has started in the meantime; nor does it know
   of the process of this one, if that was only launched after the kill. *)
Reap(th) ==
  /\ pc[th] = "reap"
  /\ IF hold[th] = NoGen THEN UNCHANGED <<gen, worker, orphans>>
     ELSE /\ gen' = IF gen[hold[th]].process = "alive" THEN gen
                    ELSE [gen EXCEPT ![hold[th]] = Emptied(@)]
          /\ worker' = NoGen
          /\ orphans' = IF \/ gen[hold[th]].process = "alive"
                           \/ worker \notin {hold[th], NoGen}
                        THEN orphans + 1 ELSE orphans
  /\ hold' = [hold EXCEPT ![th] = NoGen]
  /\ Goto(th, then[th])
  /\ then' = [then EXCEPT ![th] = "idle"]
  /\ UNCHANGED <<session, scheduler, overtaken, asked, answer>>

(* _teardown_worker begins; `after` is what the thread does next. *)
Teardown(th, after) ==
  /\ Goto(th, "kill")
  /\ hold' = [hold EXCEPT ![th] = worker]
  /\ then' = [then EXCEPT ![th] = after]

(* _spawn_worker: the controller has its new worker first, *)
Spawn(th) ==
  /\ pc[th] = "spawn"
  /\ Unused # {}
  /\ LET g == CHOOSE g \in Unused : TRUE IN
       /\ worker' = g
       /\ gen' = [gen EXCEPT ![g] = Unborn]
       /\ asked' = [asked EXCEPT ![th] = [gen |-> g, command |-> "INIT"]]
  /\ Goto(th, "launch")
  /\ UNCHANGED <<session, scheduler, local, orphans, overtaken, answer>>

(* which is then launched and asked for INIT.  If the other thread has torn it
   down in between, finding no process, nobody knows of this one. *)
Launch(th) ==
  /\ pc[th] = "launch"
  /\ LET g == asked[th].gen IN
       /\ gen' = [gen EXCEPT ![g] = [Spawned EXCEPT !.lock = th,
                                                   !.inbox = <<"INIT">>]]
       /\ orphans' = IF worker # g THEN orphans + 1 ELSE orphans
  /\ Goto(th, "wait") /\ Answered(th, "none")
  /\ UNCHANGED <<session, scheduler, local, worker, overtaken, asked>>
-----------------------------------------------------------------------------
(* TickScheduler._loop. *)

(* A deadline has passed and the loop finds _running set. *)
Deadline ==
  /\ loop = "waiting" /\ running /\ ~stopped
  /\ loop' = "serving"
  /\ UNCHANGED <<session, running, stopped, in_flight, known, pc, local, client>>

FreeToServe == ~in_flight

(* It starts a tick, or skips the deadline. *)
Dispatch ==
  /\ loop = "serving"
  /\ loop' = "waiting"
  /\ IF FreeToServe
     THEN in_flight' = TRUE /\ Goto("tick", "check")
     ELSE UNCHANGED <<in_flight, pc>>
  /\ UNCHANGED <<session, running, stopped, known, local, client>>

(* As if the loop also ended on a pause. *)
OverWhenPaused == stopped \/ ~running

LoopOver == stopped

EndLoop ==
  /\ loop = "waiting" /\ LoopOver
  /\ loop' = "ended"
  /\ UNCHANGED <<session, running, stopped, in_flight, known, pc, local, client>>
-----------------------------------------------------------------------------
(* controller.tick, on the tick thread. *)

(* The session may have been paused or stopped since. *)
CheckState ==
  /\ pc["tick"] = "check"
  /\ Goto("tick", IF state = "RECORDING" THEN "capture" ELSE "end")
  /\ UNCHANGED <<session, scheduler, known, local, client>>

(* Without a worker the assertion fails, and the tick is only logged. *)
Capture ==
  /\ pc["tick"] = "capture"
  /\ IF worker = NoGen
     THEN Goto("tick", "end") /\ UNCHANGED client
     ELSE Request("tick", worker, "CAPTURE")
  /\ UNCHANGED <<session, scheduler, known, local>>

(* _enter_pause, then on_pause; a session being stopped stays so. *)
AutoPause ==
  /\ state' = IF state = "RECORDING" THEN "PAUSED" ELSE state
  /\ Goto("tick", "on_pause")

(* A frame was answered; it or the journal may demand a pause. *)
Process ==
  /\ pc["tick"] = "process"
  /\ failures' = 0
  /\ AutoPause \/ (Goto("tick", "end") /\ UNCHANGED state)
  /\ UNCHANGED <<drained, paused_frame, scheduler, known, local, client>>

Count(n) == IF n < FailureLimit THEN n + 1 ELSE n

(* _recording_failure: count, and tear the worker down, *)
CaptureFailed ==
  /\ pc["tick"] = "failed"
  /\ failures' = Count(failures)
  /\ Teardown("tick", "decide")
  /\ UNCHANGED <<state, drained, paused_frame, scheduler, known, client>>

(* journal the failure, which may pause the session for want of storage, and
   replace the worker unless there have been too many failures. *)
Decide ==
  /\ pc["tick"] = "decide"
  /\ \/ /\ failures >= FailureLimit
        /\ AutoPause
        /\ UNCHANGED running
     \/ /\ failures < FailureLimit
        /\ Goto("tick", "spawn")
        /\ \/ UNCHANGED <<state, running>>
           \/ /\ state' = IF state = "RECORDING" THEN "PAUSED" ELSE state
              /\ running' = FALSE
  /\ UNCHANGED <<failures, drained, paused_frame, stopped, loop, in_flight,
                 known, local, client>>

(* The replacement was not initialized. *)
RestartFailed ==
  /\ pc["tick"] = "init_failed"
  /\ failures' = Count(failures)
  /\ Teardown("tick", "pause")
  /\ UNCHANGED <<state, drained, paused_frame, scheduler, known, client>>

PauseAfterRestart ==
  /\ pc["tick"] = "pause"
  /\ AutoPause
  /\ UNCHANGED <<failures, drained, paused_frame, scheduler, known, local, client>>

(* As if on_pause were not wired to the scheduler. *)
StillRunning == running

RunningAfterPause == FALSE

OnPause ==
  /\ pc["tick"] = "on_pause"
  /\ running' = RunningAfterPause
  /\ Goto("tick", "end")
  /\ UNCHANGED <<session, stopped, loop, in_flight, known, local, client>>

EndTick ==
  /\ pc["tick"] = "end"
  /\ in_flight' = FALSE
  /\ Goto("tick", "none") /\ Used("tick")
  /\ UNCHANGED <<session, running, stopped, loop, known, local>>
-----------------------------------------------------------------------------
(* The Tk thread: Pause. *)

ClickPause ==
  /\ pc["tk"] = "idle" /\ state = "RECORDING"
  /\ running' = FALSE
  /\ Goto("tk", "drain_pause")
  /\ UNCHANGED <<session, stopped, loop, in_flight, known, local, client>>

(* drain has found no tick in flight, or has waited long enough: a tick that
   restarts the worker takes longer than the budget of one request. *)
Drain(from, to) ==
  /\ pc["tk"] = from
  /\ Goto("tk", IF in_flight THEN "idle" ELSE to)
  /\ UNCHANGED <<session, scheduler, known, local, client>>

(* user_pause. *)
AskPause ==
  /\ pc["tk"] = "ask_pause"
  /\ IF state # "RECORDING" \/ worker = NoGen
     THEN Goto("tk", "idle") /\ UNCHANGED client
     ELSE Request("tk", worker, "PAUSE")
  /\ UNCHANGED <<session, scheduler, known, local>>

(* As if the worker that did not pause were kept. *)
PauseFailedKept ==
  /\ pc["tk"] = "pause_failed"
  /\ failures' = Count(failures)
  /\ Goto("tk", "pause")
  /\ UNCHANGED <<state, drained, paused_frame, scheduler, known, local, client>>

PauseFailed ==
  /\ pc["tk"] = "pause_failed"
  /\ failures' = Count(failures)
  /\ Teardown("tk", "pause")
  /\ UNCHANGED <<state, drained, paused_frame, scheduler, known, client>>

(* machine.pause refuses if the tick has paused the session meanwhile. *)
EndPause ==
  /\ pc["tk"] = "pause"
  /\ state' = IF state = "RECORDING" THEN "PAUSED" ELSE state
  /\ Goto("tk", "idle") /\ Used("tk")
  /\ UNCHANGED <<failures, drained, paused_frame, scheduler, known, local>>
-----------------------------------------------------------------------------
(* Resume, of a pause that demands no repair.  A worker is forgotten in a Pause
   or a Stop, so this is where their number is bounded. *)

ClickResume ==
  /\ pc["tk"] = "idle" /\ state = "PAUSED"
  /\ orphans < MaxOrphans
  /\ Goto("tk", "drain_resume")
  /\ UNCHANGED <<session, scheduler, known, local, client>>

(* user_resume: a missing or dead worker is replaced first. *)
BeginResume ==
  /\ pc["tk"] = "begin_resume"
  /\ Goto("tk", IF worker = NoGen THEN "spawn"
                ELSE IF Usable(worker) THEN "ask_resume" ELSE "spawn")
  /\ UNCHANGED <<session, scheduler, known, local, client>>

AskResume ==
  /\ pc["tk"] = "ask_resume"
  /\ IF worker = NoGen
     THEN Goto("tk", "idle") /\ Used("tk")
     ELSE Request("tk", worker, "RESUME")
  /\ UNCHANGED <<session, scheduler, known, local>>

ResumeFailed ==
  /\ pc["tk"] \in {"resume_failed", "init_failed"}
  /\ failures' = Count(failures)
  /\ Teardown("tk", "idle") /\ Used("tk")
  /\ UNCHANGED <<state, drained, paused_frame, scheduler, known>>

(* The machine is RECORDING again before the scheduler dispatches again; *)
EndResume ==
  /\ pc["tk"] = "resume"
  /\ state' = "RECORDING"
  /\ Goto("tk", "restart") /\ Used("tk")
  /\ UNCHANGED <<failures, drained, paused_frame, scheduler, known, local>>

(* a tick that the loop had already decided on may pause it in between. *)
RestartScheduler ==
  /\ pc["tk"] = "restart"
  /\ running' = TRUE
  /\ overtaken' = (state = "PAUSED")
  /\ Goto("tk", "idle")
  /\ UNCHANGED <<session, stopped, loop, in_flight, worker, orphans, local, client>>
-----------------------------------------------------------------------------
(* Stop, Emergency stop, and closing the window: the loop ends and is joined,
   and a tick in flight is given a quarter of a second. *)

ClickStop(how) ==
  /\ pc["tk"] = "idle" /\ state \in {"RECORDING", "PAUSED"}
  /\ stopped' = TRUE /\ running' = FALSE
  /\ then' = [then EXCEPT !["tk"] = how]
  /\ Goto("tk", "join")
  /\ UNCHANGED <<session, loop, in_flight, known, hold, client>>

(* As if the drain did not wait for the loop. *)
JoinedAlways == TRUE

Joined == loop = "ended"

DrainStop ==
  /\ pc["tk"] = "join" /\ Joined
  /\ drained' = ~in_flight
  /\ Goto("tk", then["tk"])
  /\ UNCHANGED <<state, failures, paused_frame, scheduler, known, local, client>>

(* stop: STOP if there is a live worker, its outcome ignored. *)
AskStop ==
  /\ pc["tk"] = "ask_stop"
  /\ IF worker # NoGen /\ Usable(worker)
     THEN Request("tk", worker, "STOP")
     ELSE Goto("tk", "stop") /\ UNCHANGED client
  /\ UNCHANGED <<session, scheduler, known, local>>

StopMachine ==
  /\ pc["tk"] = "stop"
  /\ state' = "STOPPING"
  /\ Goto("tk", "shut_down") /\ Used("tk")
  /\ UNCHANGED <<failures, drained, paused_frame, scheduler, known, local>>

(* graceful_shutdown: SHUTDOWN, its outcome ignored, then the teardown of
   that generation, whatever the controller's worker has become. *)
ShutDown ==
  /\ pc["tk"] = "shut_down"
  /\ then' = [then EXCEPT !["tk"] = "finalize"]
  /\ IF worker = NoGen
     THEN Goto("tk", "finalize") /\ UNCHANGED <<hold, client>>
     ELSE Request("tk", worker, "SHUTDOWN")
          /\ hold' = [hold EXCEPT !["tk"] = worker]
  /\ UNCHANGED <<session, scheduler, known>>

(* emergency_stop: no request, the teardown at once. *)
EmergencyStop ==
  /\ pc["tk"] = "emergency"
  /\ state' = "STOPPING"
  /\ Teardown("tk", "finalize")
  /\ UNCHANGED <<failures, drained, paused_frame, scheduler, known, client>>

(* _on_close: the teardown, then the process exits. *)
CloseWindow ==
  /\ pc["tk"] = "close"
  /\ Teardown("tk", "exit")
  /\ UNCHANGED <<session, scheduler, known, client>>

(* finalize may raise; the finalized screen is shown all the same. *)
Finalize ==
  /\ pc["tk"] = "finalize"
  /\ state' \in {"FINALIZED", state}
  /\ Goto("tk", "over") /\ Used("tk")
  /\ UNCHANGED <<failures, drained, paused_frame, scheduler, known, local>>

(* The job object takes every worker along, the daemon threads are gone. *)
Exit ==
  /\ pc["tk"] = "exit"
  /\ gen' = [g \in Gens |-> Unborn]
  /\ worker' = NoGen
  /\ pc' = [pc EXCEPT !["tk"] = "over", !["tick"] = "none"]
  /\ hold' = [th \in Threads |-> NoGen]
  /\ asked' = [th \in Threads |-> NoAsk]
  /\ answer' = [answer EXCEPT !["tick"] = IF asked["tick"] = NoAsk THEN @ ELSE "ERROR"]
  /\ in_flight' = FALSE
  /\ UNCHANGED <<session, running, stopped, loop, then, orphans, overtaken>>
-----------------------------------------------------------------------------
Init ==
  /\ state = "RECORDING" /\ failures = 0
  /\ running = TRUE /\ stopped = FALSE /\ loop = "waiting" /\ in_flight = FALSE
  /\ pc = [th \in Threads |-> IF th = "tick" THEN "none" ELSE "idle"]
  /\ hold = [th \in Threads |-> NoGen] /\ then = [th \in Threads |-> "idle"]
  /\ asked = [th \in Threads |-> NoAsk]
  /\ answer = [th \in Threads |-> "none"]
  /\ worker = CHOOSE g \in Gens : TRUE
  /\ gen = [g \in Gens |-> IF g = worker
                           THEN [Unborn EXCEPT !.process = "alive", !.valid = TRUE,
                                   !.mode = "RECORDING", !.ended = FALSE]
                           ELSE Unborn]
  /\ drained = FALSE /\ paused_frame = FALSE /\ orphans = 0 /\ overtaken = FALSE

LoopNext == Deadline \/ Dispatch \/ EndLoop

CallNext(th) == TakeReply(th) \/ TimeOut(th) \/ Kill(th) \/ Reap(th) \/ Spawn(th)
                \/ Launch(th)

TickNext ==
  \/ CheckState \/ Capture \/ Process \/ CaptureFailed \/ Decide
  \/ RestartFailed \/ PauseAfterRestart \/ OnPause \/ EndTick

(* What a handler does once it has been called. *)
HandlerNext ==
  \/ Drain("drain_pause", "ask_pause") \/ AskPause \/ PauseFailed \/ EndPause
  \/ Drain("drain_resume", "begin_resume") \/ BeginResume \/ AskResume
  \/ ResumeFailed \/ EndResume \/ RestartScheduler
  \/ DrainStop \/ AskStop \/ StopMachine \/ ShutDown
  \/ EmergencyStop \/ CloseWindow \/ Finalize \/ Exit

Click ==
  \/ ClickPause \/ ClickResume
  \/ \E how \in {"ask_stop", "emergency", "close"} : ClickStop(how)

Next ==
  \/ LoopNext
  \/ \E th \in Threads : CallNext(th)
  \/ TickNext
  \/ HandlerNext
  \/ Click
  \/ \E g \in Gens : Serve(g) \/ Die(g) \/ EndOfStream(g)

Spec == Init /\ [][Next]_vars

(* A thread that can go on does; requests and drains are bounded by a clock,
   so they too come to an end.  The owner need not click, the worker need not
   answer. *)
Fairness ==
  /\ WF_vars(LoopNext)
  /\ WF_vars(CallNext("tick") \/ TickNext)
  /\ WF_vars(CallNext("tk") \/ HandlerNext)

FairSpec == Spec /\ Fairness
-----------------------------------------------------------------------------
(* Properties. *)

GenRecords ==
  [process : {"alive", "dead"}, mode : {"none", "SETUP", "RECORDING", "PAUSED"},
   valid : BOOLEAN, lock : Threads \cup {"free"}, inbox : Seq(Commands),
   queue : Seq([command : Commands, reply : {"OK", "REFUSED", "END"}]),
   ended : BOOLEAN, did : Commands]

(* The types, and a call holds the lock of the generation it asks. *)
TypeOK ==
  /\ state \in {"RECORDING", "PAUSED", "STOPPING", "FINALIZED"}
  /\ failures \in 0..FailureLimit
  /\ worker \in Gens \cup {NoGen}
  /\ running \in BOOLEAN /\ stopped \in BOOLEAN /\ in_flight \in BOOLEAN
  /\ orphans \in Nat /\ overtaken \in BOOLEAN
  /\ loop \in {"waiting", "serving", "ended"}
  /\ in_flight = (pc["tick"] # "none")
  /\ gen \in [Gens -> GenRecords]
  /\ \A g \in Gens, th \in Threads :
       gen[g].lock = th <=> pc[th] = "wait" /\ asked[th].gen = g

(* No frame is captured while PAUSED, although the loop may have decided on
   a tick before the pause, and the tick on its request. *)
NoFrameWhilePaused == ~paused_frame

(* A Stop, Emergency stop or Close that found no tick in flight leaves no
   worker process behind, nor a tick that could start one; but for a worker
   that overlapping teardowns have made the controller forget before. *)
CleanStopLeavesNoWorker ==
  pc["tk"] = "over" /\ drained /\ orphans = 0 =>
    pc["tick"] = "none" /\ \A g \in Gens : gen[g].process = "dead"

(* A paused session dispatches nothing, once the tick that paused it and the
   handler in progress are through; but for a session that was paused while
   Resume was about to restart the scheduler: its ticks find it PAUSED and end. *)
PausedIsQuiet ==
  state = "PAUSED" /\ pc["tk"] = "idle" /\ ~in_flight /\ ~overtaken => ~running

(* Every call, tick and handler comes to an end, whatever the worker does. *)
EveryoneReturns ==
  /\ (pc["tick"] # "none") ~> (pc["tick"] = "none")
  /\ (pc["tk"] # "idle") ~> (pc["tk"] \in {"idle", "over"})

(* A session that records and dispatches keeps taking ticks. *)
RecordingGoesOn ==
  (state = "RECORDING" /\ running) ~> (in_flight \/ state # "RECORDING" \/ ~running)

(* request is what the controller takes it for: one step with an outcome. *)
Calls == INSTANCE WorkerCalls WITH
  call <- [th \in Threads |->
             IF pc[th] # "wait" THEN "none"
             ELSE IF gen[asked[th].gen].did = asked[th].command THEN "done" ELSE "sent"]

RequestIsOneCall == Calls!Spec

(* Stop, shutdown, UI close and the emergency path never trigger a
   replacement restart.
   The code does not keep this. *)
NoRestartAfterStop ==
  [][pc["tick"] = "spawn" /\ pc'["tick"] = "launch"
       => state \in {"RECORDING", "PAUSED"} /\ ~stopped]_vars

(* Enter PAUSED and stop scheduling captures.
   The code does not keep this. *)
PauseStopsDispatch ==
  state = "PAUSED" /\ pc["tk"] = "idle" /\ ~in_flight => ~running

(* The soak's claim: whatever went before, a Stop that found no tick in flight
   leaves no worker behind.
   The code does not keep this. *)
StopLeavesNoWorker ==
  pc["tk"] = "over" /\ drained =>
    pc["tick"] = "none" /\ \A g \in Gens : gen[g].process = "dead"

(* Pause sends no command that overlaps the tick's.
   The code does not keep this. *)
PauseNeverOverlaps ==
  [][pc["tk"] = "ask_pause" /\ pc'["tk"] = "pause_failed"
       => gen[worker].lock = "free"]_vars

(* A session that is RECORDING keeps taking ticks.
   The code does not keep this. *)
RecordingCaptures == []<>(in_flight \/ state # "RECORDING" \/ pc["tk"] = "over")
=============================================================================
