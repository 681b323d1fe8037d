------------------------------ MODULE GuiRunner ------------------------------
(***************************************************************************)
(* The desktop program's control of its embedded server: the UI thread     *)
(* with its Start and Stop buttons and its shutdown (gui/mod.rs), the      *)
(* thread each start runs on and the mutex-guarded Runner they share       *)
(* (gui/runner.rs), the listeners it binds (lib.rs, serve), and the        *)
(* engines behind them, which live until their last user is gone (lib.rs,  *)
(* Backend; worker.rs).  Starts are numbered; a start gives its number to  *)
(* the engine it builds and to the listener it binds.                      *)
(***************************************************************************)
EXTENDS Naturals, Sequences, FiniteSets

CONSTANTS
  Engines,      \* the values of the fields engine_differs compares
  Ports,        \* the addresses to listen on
  MaxStarts,    \* bound: presses of Start
  MaxRequests   \* bound: requests that clients begin

ASSUME RunnerAssumption == MaxStarts \in Nat \ {0} /\ MaxRequests \in Nat

Starts == 1 .. MaxStarts

VARIABLES
  ui,        \* the UI thread: "idle" in its event loop, "closing" in the window
             \* callback's shutdown, "exiting" in run's own, "gone" with the process
  starting,  \* State.starting
  active,    \* the active buttons
  cfg,       \* cfg[t]: the Config start t was given
  pc,        \* pc[t]: where the thread of start t is
  msgs,      \* the channel of Msg to the UI thread
  lock,      \* the start that holds the Runner's mutex, 0 if it is free
  backend,   \* Inner.backend, 0 for None
  listener,  \* Inner.listener, 0 for None
  socket,    \* socket[t]: the listener start t bound
  at,        \* at[t]: the address it is bound to
  serves,    \* serves[t]: the engine whose AppState its router holds
  loaded,    \* the engines in memory
  crashed,   \* the engines whose worker thread panicked
  uploading, \* uploading[t]: requests clients of listener t still send
  waiting,   \* waiting[t]: requests whose handler waits for a job
  replying,  \* replying[t]: requests whose answer the client still reads
  pending,   \* pending[g]: jobs engine g has accepted and not finished
  arrived    \* requests so far

vars == <<ui, starting, active, cfg, pc, msgs, lock, backend, listener, socket, at,
          serves, loaded, crashed, uploading, waiting, replying, pending, arrived>>
window == <<ui, starting, active>>
thread == <<cfg, pc, msgs, lock>>
inner == <<backend, listener>>
bindings == <<at, serves>>
engines == <<loaded, crashed>>
requests == <<uploading, waiting, replying>>
traffic == <<requests, pending, arrived>>

Configs == [engine : Engines, port : Ports]
NoConfig == [engine |-> "none", port |-> "none"]

\* The process exists: no thread or task of it moves once run is over.
Running == ui # "gone"

Init ==
  /\ ui = "idle" /\ starting = FALSE /\ active = {"start"}
  /\ cfg = [t \in Starts |-> NoConfig]
  /\ pc = [t \in Starts |-> "unborn"]
  /\ msgs = <<>> /\ lock = 0 /\ backend = 0 /\ listener = 0
  /\ socket = [t \in Starts |-> "none"]
  /\ at = [t \in Starts |-> "none"]
  /\ serves = [t \in Starts |-> 0]
  /\ loaded = {} /\ crashed = {}
  /\ uploading = [t \in Starts |-> 0]
  /\ waiting = [t \in Starts |-> 0]
  /\ replying = [t \in Starts |-> 0]
  /\ pending = [t \in Starts |-> 0]
  /\ arrived = 0

-----------------------------------------------------------------------------
(* The UI thread.  A callback that needs the Runner waits for its mutex.    *)

\* refresh, with the values the Runner and State have once the callback is done.
Buttons(isStarting, running) ==
  IF isStarting THEN {} ELSE IF running THEN {"stop", "open"} ELSE {"start"}

\* Forgets to note that a start is in flight.
MutClickStart(t, c) ==
  /\ ui = "idle" /\ "start" \in active
  /\ ~starting /\ lock = 0 /\ listener = 0
  /\ pc[t] = "unborn" /\ \A s \in Starts : s < t => pc[s] # "unborn"
  /\ active' = active \ {"start", "stop"}
  /\ cfg' = [cfg EXCEPT ![t] = c]
  /\ pc' = [pc EXCEPT ![t] = "spawned"]
  /\ UNCHANGED <<ui, starting, msgs, lock, inner, socket, bindings, engines, traffic>>

\* start_server, pressed or at autostart; an entry that is not an address
\* changes nothing and is left out.
ClickStart(t, c) ==
  /\ ui = "idle" /\ "start" \in active
  /\ ~starting /\ lock = 0 /\ listener = 0
  /\ pc[t] = "unborn" /\ \A s \in Starts : s < t => pc[s] # "unborn"
  /\ starting' = TRUE
  /\ active' = active \ {"start", "stop"}
  /\ cfg' = [cfg EXCEPT ![t] = c]
  /\ pc' = [pc EXCEPT ![t] = "spawned"]
  /\ UNCHANGED <<ui, msgs, lock, inner, socket, bindings, engines, traffic>>

\* Refreshes the window before it takes the start for resolved.
MutHandleMsg ==
  /\ ui = "idle" /\ msgs # <<>> /\ lock = 0
  /\ msgs' = Tail(msgs)
  /\ starting' = FALSE
  /\ active' = Buttons(starting, listener # 0)
  /\ UNCHANGED <<ui, cfg, pc, lock, inner, socket, bindings, engines, traffic>>

\* run's loop: Msg::Started and Msg::StartFailed alike.
HandleMsg ==
  /\ ui = "idle" /\ msgs # <<>> /\ lock = 0
  /\ msgs' = Tail(msgs)
  /\ starting' = FALSE
  /\ active' = Buttons(FALSE, listener # 0)
  /\ UNCHANGED <<ui, cfg, pc, lock, inner, socket, bindings, engines, traffic>>

\* Signals the listener and leaves its handle where it is.
MutStopListener ==
  /\ lock = 0
  /\ socket' = [t \in Starts |->
       IF t = listener /\ socket[t] # "closed" THEN "stopping" ELSE socket[t]]
  /\ UNCHANGED <<backend, listener>>

\* Runner::stop: take the listener, if there is one, and signal it.
StopListener ==
  /\ lock = 0
  /\ socket' = [t \in Starts |->
       IF t = listener /\ socket[t] # "closed" THEN "stopping" ELSE socket[t]]
  /\ listener' = 0
  /\ UNCHANGED backend

ClickStop ==
  /\ ui = "idle" /\ "stop" \in active
  /\ StopListener
  /\ active' = Buttons(starting, listener' # 0)
  /\ UNCHANGED <<ui, starting, thread, bindings, engines, traffic>>

\* The window is closed, or the tray menu asks to quit.
Close ==
  /\ ui = "idle"
  /\ ui' \in {"closing", "exiting"}
  /\ UNCHANGED <<starting, active, thread, inner, socket, bindings, engines, traffic>>

\* shutdown in the window callback: FLTK ends the process after it, or the
\* event loop ends and run shuts down once more.
Shutdown ==
  /\ ui \in {"closing", "exiting"}
  /\ StopListener
  /\ ui' \in IF ui = "closing" THEN {"exiting", "gone"} ELSE {"gone"}
  /\ UNCHANGED <<starting, active, thread, bindings, engines, traffic>>

-----------------------------------------------------------------------------
(* The thread of a start: Runner::start, then the message.                  *)

Go(t, label) == pc' = [pc EXCEPT ![t] = label]

TakeLock(t) ==
  /\ Running /\ pc[t] = "spawned" /\ lock = 0
  /\ lock' = t
  /\ Go(t, "locked")
  /\ UNCHANGED <<window, cfg, msgs, inner, socket, bindings, engines, traffic>>

\* Any engine will do.
MutEngineDiffers(t) == FALSE

\* Config::engine_differs of the loaded backend.
EngineDiffers(t) == cfg[backend].engine # cfg[t].engine

\* A listener already there fails the start; an engine that differs is dropped
\* before its replacement starts to load.
Prepare(t) ==
  /\ Running /\ pc[t] = "locked"
  /\ LET build == listener = 0 /\ (backend = 0 \/ EngineDiffers(t)) IN
       /\ Go(t, IF listener # 0 THEN "failed" ELSE IF build THEN "build" ELSE "bind")
       /\ backend' = IF build THEN 0 ELSE backend
       /\ loaded' = IF build THEN loaded \cup {t} ELSE loaded
  /\ UNCHANGED <<window, cfg, msgs, lock, listener, socket, bindings, crashed, traffic>>

\* Backend::new succeeds.
Built(t) ==
  /\ Running /\ pc[t] = "build"
  /\ backend' = t
  /\ Go(t, "bind")
  /\ UNCHANGED <<window, cfg, msgs, lock, listener, socket, bindings, engines, traffic>>

\* Returns from the thread without a message.
MutBuildFails(t) ==
  /\ Running /\ pc[t] = "build"
  /\ loaded' = loaded \ {t}
  /\ lock' = 0
  /\ Go(t, "done")
  /\ UNCHANGED <<window, cfg, msgs, inner, socket, bindings, crashed, traffic>>

\* Backend::new returns an error, no index files for one.
BuildFails(t) ==
  /\ Running /\ pc[t] = "build"
  /\ loaded' = loaded \ {t}
  /\ Go(t, "failed")
  /\ UNCHANGED <<window, cfg, msgs, lock, inner, socket, bindings, crashed, traffic>>

\* It panics: the mutex is poisoned, which Runner::lock ignores, and no message
\* is ever sent.
BuildPanics(t) ==
  /\ Running /\ pc[t] = "build"
  /\ loaded' = loaded \ {t}
  /\ lock' = 0
  /\ Go(t, "panicked")
  /\ UNCHANGED <<window, cfg, msgs, inner, socket, bindings, crashed, traffic>>

\* A listener keeps its port until its task has seen the signal to stop.
HoldsPort(l) == socket[l] \in {"bound", "serving", "stopping"}

\* Takes the address from the Config the backend was built with.
MutAddress(t) == cfg[backend].port

\* The address start passes to serve.
Address(t) == cfg[t].port

\* serve binds the address.
Bind(t) ==
  /\ Running /\ pc[t] = "bind"
  /\ \A l \in Starts : HoldsPort(l) => at[l] # Address(t)
  /\ socket' = [socket EXCEPT ![t] = "bound"]
  /\ at' = [at EXCEPT ![t] = Address(t)]
  /\ serves' = [serves EXCEPT ![t] = backend]
  /\ listener' = t
  /\ Go(t, "started")
  /\ UNCHANGED <<window, cfg, msgs, lock, backend, engines, traffic>>

\* The address is in use, by the listener just stopped or by another program.
BindFails(t) ==
  /\ Running /\ pc[t] = "bind"
  /\ Go(t, "failed")
  /\ UNCHANGED <<window, cfg, msgs, lock, inner, socket, bindings, engines, traffic>>

\* Keeps the guard alive.
MutReturn(t) ==
  /\ Running /\ pc[t] \in {"started", "failed"}
  /\ Go(t, IF pc[t] = "started" THEN "Started" ELSE "StartFailed")
  /\ UNCHANGED <<window, cfg, msgs, lock, inner, socket, bindings, engines, traffic>>

\* Runner::start returns, and with it goes the guard of the mutex.
Return(t) ==
  /\ Running /\ pc[t] \in {"started", "failed"}
  /\ lock' = 0
  /\ Go(t, IF pc[t] = "started" THEN "Started" ELSE "StartFailed")
  /\ UNCHANGED <<window, cfg, msgs, inner, socket, bindings, engines, traffic>>

Send(t) ==
  /\ Running /\ pc[t] \in {"Started", "StartFailed"}
  /\ msgs' = Append(msgs, pc[t])
  /\ Go(t, "done")
  /\ UNCHANGED <<window, cfg, lock, inner, socket, bindings, engines, traffic>>

Starter(t) ==
  \/ TakeLock(t) \/ Prepare(t) \/ Built(t) \/ BuildFails(t)
  \/ Bind(t) \/ BindFails(t) \/ Return(t) \/ Send(t)

-----------------------------------------------------------------------------
(* Listeners and engines.                                                   *)

\* serve's task starts serving, or finds it cannot, which nobody is told.
Serve(l) ==
  /\ Running /\ socket[l] = "bound"
  /\ \E state \in {"serving", "closed"} : socket' = [socket EXCEPT ![l] = state]
  /\ UNCHANGED <<window, thread, inner, bindings, engines, traffic>>

\* The task sees the signal and drops the socket; open requests go on.
CloseSocket(l) ==
  /\ Running /\ socket[l] = "stopping"
  /\ socket' = [socket EXCEPT ![l] = "draining"]
  /\ UNCHANGED <<window, thread, inner, bindings, engines, traffic>>

\* The last connection is done: the task ends and drops the router.
Drained(l) ==
  /\ Running /\ socket[l] = "draining"
  /\ uploading[l] = 0 /\ waiting[l] = 0 /\ replying[l] = 0
  /\ socket' = [socket EXCEPT ![l] = "closed"]
  /\ UNCHANGED <<window, thread, inner, bindings, engines, traffic>>

\* A client begins a request to solve, up to the moment the socket closes: its
\* handler reads the form, for as long as the client takes to send it.
Connect(l) ==
  /\ Running /\ socket[l] \in {"serving", "stopping"} /\ arrived < MaxRequests
  /\ arrived' = arrived + 1
  /\ uploading' = [uploading EXCEPT ![l] = @ + 1]
  /\ UNCHANGED <<window, thread, inner, socket, bindings, engines, waiting, replying, pending>>

\* The form is complete: its job is accepted and waited for, or refused (a bad
\* field, a full queue, a dead worker).
Submit(l) ==
  /\ Running /\ uploading[l] > 0
  /\ uploading' = [uploading EXCEPT ![l] = @ - 1]
  /\ \/ /\ serves[l] \notin crashed
        /\ pending' = [pending EXCEPT ![serves[l]] = @ + 1]
        /\ waiting' = [waiting EXCEPT ![l] = @ + 1]
        /\ UNCHANGED replying
     \/ /\ replying' = [replying EXCEPT ![l] = @ + 1]
        /\ UNCHANGED <<waiting, pending>>
  /\ UNCHANGED <<window, thread, inner, socket, bindings, engines, arrived>>

\* await_job returns, with the job's outcome or at its deadline: SolveService.
Answer(l) ==
  /\ Running /\ waiting[l] > 0
  /\ waiting' = [waiting EXCEPT ![l] = @ - 1]
  /\ replying' = [replying EXCEPT ![l] = @ + 1]
  /\ UNCHANGED <<window, thread, inner, socket, bindings, engines, uploading, pending, arrived>>

\* A client has read its answer, or drops the connection before it has one; the
\* job stays.
Leave(l) ==
  /\ Running
  /\ \/ uploading[l] > 0 /\ uploading' = [uploading EXCEPT ![l] = @ - 1]
        /\ UNCHANGED <<waiting, replying>>
     \/ waiting[l] > 0 /\ waiting' = [waiting EXCEPT ![l] = @ - 1]
        /\ UNCHANGED <<uploading, replying>>
     \/ replying[l] > 0 /\ replying' = [replying EXCEPT ![l] = @ - 1]
        /\ UNCHANGED <<uploading, waiting>>
  /\ UNCHANGED <<window, thread, inner, socket, bindings, engines, pending, arrived>>

\* The engine's worker finishes a job.
Solve(g) ==
  /\ Running /\ pending[g] > 0
  /\ pending' = [pending EXCEPT ![g] = @ - 1]
  /\ UNCHANGED <<window, thread, inner, socket, bindings, engines, requests, arrived>>

\* It panics instead: its stack unwinds, the engine and its queue with it.
\* Nothing tells the Runner.
WorkerPanics(g) ==
  /\ Running /\ pending[g] > 0
  /\ pending' = [pending EXCEPT ![g] = 0]
  /\ loaded' = loaded \ {g}
  /\ crashed' = crashed \cup {g}
  /\ UNCHANGED <<window, thread, inner, socket, bindings, requests, arrived>>

\* The worker thread keeps a sender of its own.
MutInUse(g) == g \in loaded

\* Somebody can still send jobs to engine g, or it has some to solve.
InUse(g) ==
  \/ backend = g
  \/ pending[g] > 0
  \/ \E l \in Starts : serves[l] = g /\ socket[l] # "closed"

\* recv fails once every sender is gone and the queue is empty: the worker
\* thread ends, and the engine with it.
Free(g) ==
  /\ Running /\ g \in loaded /\ pc[g] # "build" /\ ~InUse(g)
  /\ loaded' = loaded \ {g}
  /\ UNCHANGED <<window, thread, inner, socket, bindings, crashed, traffic>>

-----------------------------------------------------------------------------
Next ==
  \/ \E t \in Starts, c \in Configs : ClickStart(t, c)
  \/ HandleMsg \/ ClickStop \/ Close \/ Shutdown
  \/ \E t \in Starts : Starter(t) \/ BuildPanics(t)
  \/ \E l \in Starts : Serve(l) \/ CloseSocket(l) \/ Drained(l)
  \/ \E l \in Starts : Connect(l) \/ Submit(l) \/ Answer(l) \/ Leave(l)
  \/ \E g \in Starts : Solve(g) \/ WorkerPanics(g) \/ Free(g)

Spec == Init /\ [][Next]_vars

(* Threads and tasks run: a start thread makes its next call, the event loop  *)
(* takes its messages and finishes a shutdown, tasks see their signals,       *)
(* await_job returns by its deadline and the worker solves within its own.    *)
(* The user is not fair, and no client: nothing in the code bounds the time   *)
(* one takes to send its form or to read its answer.                          *)
Fairness ==
  /\ WF_vars(HandleMsg)
  /\ WF_vars(Shutdown)
  /\ \A t \in Starts :
       /\ WF_vars(Starter(t))
       /\ WF_vars(Serve(t) \/ CloseSocket(t) \/ Drained(t))
       /\ WF_vars(Answer(t))
       /\ WF_vars(Solve(t) \/ Free(t))

FairSpec == Spec /\ Fairness

-----------------------------------------------------------------------------
(* Properties.                                                              *)

\* Every variable has its type; no more than one message waits for the UI.
TypeOK ==
  /\ ui \in {"idle", "closing", "exiting", "gone"}
  /\ starting \in BOOLEAN
  /\ active \subseteq {"start", "stop", "open"}
  /\ cfg \in [Starts -> Configs \cup {NoConfig}]
  /\ pc \in [Starts -> {"unborn", "spawned", "locked", "build", "bind", "started",
                        "failed", "Started", "StartFailed", "panicked", "done"}]
  /\ msgs \in Seq({"Started", "StartFailed"}) /\ Len(msgs) <= 1
  /\ {lock, backend, listener} \subseteq Starts \cup {0}
  /\ socket \in [Starts -> {"none", "bound", "serving", "stopping", "draining", "closed"}]
  /\ at \in [Starts -> Ports \cup {"none"}]
  /\ serves \in [Starts -> Starts \cup {0}]
  /\ loaded \subseteq Starts /\ crashed \subseteq Starts
  /\ uploading \in [Starts -> Nat] /\ waiting \in [Starts -> Nat]
  /\ replying \in [Starts -> Nat] /\ pending \in [Starts -> Nat]
  /\ arrived \in 0 .. MaxRequests

\* The buttons say what the Runner would: outside a start the user can start
\* exactly a server that is stopped and stop or open exactly one that runs,
\* though starts resolve on other threads (gui/mod.rs, refresh and its callers).
ButtonsAgreeWithRunner ==
  ui = "idle" /\ ~starting => active = Buttons(FALSE, listener # 0)

\* The window stays responsive while an engine loads for tens of seconds with
\* the Runner's mutex held: no button whose callback needs that mutex can be
\* pressed (gui/mod.rs, start_server).
UiNeverWaits == ui = "idle" /\ lock # 0 => starting /\ active = {}

\* The server that runs is the one the last start asked for: bound to its
\* address and given the engine it asked for, whether that engine was built
\* for it or kept from an earlier start with another address
\* (gui/runner.rs, start).  It may be an engine whose worker has panicked
\* meanwhile, which start cannot tell.
RunsAsConfigured ==
  listener # 0 =>
    /\ \A t \in Starts : t > listener => pc[t] = "unborn"
    /\ at[listener] = cfg[listener].port
    /\ serves[listener] = backend /\ backend # 0
    /\ cfg[backend].engine = cfg[listener].engine

\* Stop reaches exactly the listeners that are there to stop: none accepts
\* connections that the Runner has no handle of, and the one it has a handle
\* of has not been stopped (its task may have failed by itself).
ListenerIsRunners ==
  \A l \in Starts :
    /\ socket[l] \in {"bound", "serving"} => listener = l
    /\ listener = l => socket[l] \in {"bound", "serving", "closed"}

\* A start is resolved: the buttons come back, unless its thread panics.
StartResolves ==
  starting ~> ~starting \/ ui # "idle" \/ \E t \in Starts : pc[t] = "panicked"

\* No client is in the middle of sending a request or of reading an answer.
NoClientBusy == \A l \in Starts : uploading[l] = 0 /\ replying[l] = 0

\* An engine that was replaced is freed, whatever its jobs and its handlers
\* were doing when it was, unless a client stalls for ever in its upload or in
\* reading its answer: the handler of one that does keeps the router, and with
\* it the engine (worker.rs, spawn; lib.rs, serve).
ReplacedEngineFreed ==
  []<>NoClientBusy =>
    \A g \in Starts :
      g \in loaded /\ backend \notin {0, g} ~> g \notin loaded \/ ui = "gone"

\* Closing the window ends the program, even during a start.
CloseEnds == ui = "closing" ~> ui = "gone"
=============================================================================
