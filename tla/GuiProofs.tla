------------------------------ MODULE GuiProofs ------------------------------
(***************************************************************************)
(* The desktop program.  First its control of its server, for any number   *)
(* of starts, configurations and requests: what the buttons say, who may   *)
(* wait for whom, and which listener serves which engine.  Then its log,   *)
(* for any capacity, file limit, check interval, and any number of lines,  *)
(* clears and runs: buffer, file and tab are compared from their newest    *)
(* lines back.                                                             *)
(***************************************************************************)
EXTENDS GuiRunner, LogView, SequenceTheorems, TLAPS

\* A start in these places of its thread holds the Runner's mutex, and one in
\* any of those has not been resolved.
Holding == {"locked", "build", "bind", "started", "failed"}
Busy == Holding \cup {"spawned", "Started", "StartFailed"}

-----------------------------------------------------------------------------
(* The invariant.                                                           *)

\* The mutex is held by a thread inside Runner::start.
LockInv == \A t \in Starts : pc[t] \in Holding <=> lock = t

\* One start at a time, until the UI thread has taken its message.
FlightInv ==
  /\ \A t \in Starts : pc[t] \in Busy => starting /\ msgs = <<>>
  /\ \A s, t \in Starts : pc[s] \in Busy /\ pc[t] \in Busy => s = t
  /\ msgs # <<>> => starting

\* The buttons are those that refresh would set.
ButtonInv == ui = "idle" => active = Buttons(starting, listener # 0)

\* Starts are pressed in their order, the next once the last is resolved.
OrderInv ==
  \A s, t \in Starts :
    s < t /\ pc[s] \in Busy \cup {"unborn"} => pc[t] = "unborn"

\* What Runner::start has established at each of its steps.
StartInv ==
  \A t \in Starts :
    /\ pc[t] \in {"build", "bind"} => listener = 0
    /\ pc[t] = "bind" => backend # 0 /\ cfg[backend].engine = cfg[t].engine
    /\ pc[t] = "unborn" => t # backend /\ t # listener

IInv ==
  /\ TypeOK /\ LockInv /\ FlightInv /\ OrderInv /\ ButtonInv /\ StartInv
  /\ RunsAsConfigured /\ ListenerIsRunners

LEMMA InitInv == Init => IInv
<1> SUFFICES ASSUME Init PROVE IInv
  OBVIOUS
<1>1. 0 \notin Starts
  BY RunnerAssumption DEF Starts, RunnerAssumption
<1>2. TypeOK
  <2>1. <<>> \in Seq({"Started", "StartFailed"}) /\ Len(<<>>) <= 1
    BY EmptySeq
  <2>2. 0 \in 0 .. MaxRequests
    BY RunnerAssumption DEF RunnerAssumption
  <2> QED
    BY <2>1, <2>2 DEF Init, TypeOK
<1>3. LockInv /\ FlightInv /\ OrderInv /\ StartInv
  BY <1>1 DEF Init, LockInv, FlightInv, OrderInv, StartInv, Holding, Busy
<1>4. ButtonInv /\ RunsAsConfigured /\ ListenerIsRunners
  BY <1>1 DEF Init, ButtonInv, Buttons, RunsAsConfigured, ListenerIsRunners
<1> QED
  BY <1>2, <1>3, <1>4 DEF IInv

\* A start that moves on stays born, and one that is over stays over.
LEMMA OrderStep ==
  ASSUME TypeOK, OrderInv, NEW t \in Starts, NEW p, pc' = [pc EXCEPT ![t] = p],
         pc[t] # "unborn", p # "unborn", p \in Busy => pc[t] \in Busy
  PROVE  OrderInv'
<1> SUFFICES ASSUME NEW r \in Starts, NEW s \in Starts, r < s, pc'[r] \in Busy \cup {"unborn"}
             PROVE  pc'[s] = "unborn"
  BY DEF OrderInv
<1>1. \A u \in Starts : pc'[u] = IF u = t THEN p ELSE pc[u]
  BY DEF TypeOK
<1>2. pc[r] \in Busy \cup {"unborn"}
  BY <1>1
<1>3. pc[s] = "unborn"
  BY <1>2 DEF OrderInv
<1> QED
  BY <1>1, <1>3

-----------------------------------------------------------------------------
(* The UI thread.                                                           *)

\* Start is pressed: no start was in flight.
LEMMA ClickStartInv ==
  ASSUME IInv, NEW t \in Starts, NEW c \in Configs, ClickStart(t, c)
  PROVE  IInv'
<1> USE DEF IInv
<1>1. /\ 0 \notin Starts /\ ~starting /\ lock = 0 /\ listener = 0 /\ pc[t] = "unborn"
      /\ starting' = TRUE /\ cfg' = [cfg EXCEPT ![t] = c] /\ pc' = [pc EXCEPT ![t] = "spawned"]
      /\ UNCHANGED <<ui, msgs, lock, inner, socket, bindings, engines, traffic>>
  BY RunnerAssumption DEF ClickStart, Starts, RunnerAssumption
<1>2. active = {"start"} /\ active' = {}
  BY DEF ClickStart, ButtonInv, Buttons
<1>3. TypeOK'
  BY <1>1, <1>2 DEF TypeOK, inner, engines, traffic, requests, bindings
<1>4. \A s \in Starts : s # t => pc'[s] = pc[s] /\ pc[s] \notin Busy
  BY <1>1 DEF TypeOK, FlightInv
<1>5. pc'[t] = "spawned" /\ msgs = <<>>
  BY <1>1 DEF TypeOK, FlightInv
<1>6. LockInv'
  BY <1>1, <1>4, <1>5 DEF LockInv, Holding, Busy
<1>7. FlightInv'
  BY <1>1, <1>4, <1>5 DEF FlightInv
<1>8. ButtonInv' /\ OrderInv'
  <2>1. ButtonInv'
    BY <1>1, <1>2 DEF ButtonInv, Buttons
  <2>2. ASSUME NEW r \in Starts, NEW s \in Starts, r < s, pc'[r] \in Busy \cup {"unborn"}
        PROVE  pc'[s] = "unborn"
    <3>1. \A u \in Starts : u < t => pc[u] # "unborn"
      BY DEF ClickStart
    <3>2. pc[r] = "unborn"
      BY <1>1, <1>4, <2>2
    <3>3. pc[s] = "unborn"
      BY <2>2, <3>2 DEF OrderInv
    <3>4. s # t
      BY <2>2, <3>1, <3>2
    <3> QED
      BY <1>4, <3>3, <3>4
  <2> QED
    BY <2>1, <2>2 DEF OrderInv
<1>9. StartInv'
  BY <1>1, <1>4, <1>5 DEF StartInv, Busy, Holding, inner
<1>10. RunsAsConfigured' /\ ListenerIsRunners'
  BY <1>1 DEF RunsAsConfigured, ListenerIsRunners, inner
<1> QED
  BY <1>3, <1>6, <1>7, <1>8, <1>9, <1>10

\* The message of a start is the last thing its thread does.
LEMMA HandleMsgInv ==
  ASSUME IInv, HandleMsg
  PROVE  IInv'
<1> USE DEF IInv
<1>1. /\ msgs # <<>> /\ msgs' = Tail(msgs) /\ starting' = FALSE
      /\ active' = Buttons(FALSE, listener # 0)
      /\ UNCHANGED <<ui, cfg, pc, lock, inner, socket, bindings, engines, traffic>>
  BY DEF HandleMsg
<1>2. msgs' = <<>>
  <2>1. msgs \in Seq({"Started", "StartFailed"}) /\ Len(msgs) <= 1
    BY DEF TypeOK
  <2>2. Len(msgs) \in Nat /\ Len(msgs) # 0
    BY <1>1, <2>1, EmptySeq
  <2>3. Tail(msgs) \in Seq({"Started", "StartFailed"}) /\ Len(Tail(msgs)) = Len(msgs) - 1
    BY <1>1, <2>1, HeadTailProperties
  <2>4. Len(Tail(msgs)) = 0
    BY <2>1, <2>2, <2>3
  <2> QED
    BY <1>1, <2>3, <2>4, EmptySeq
<1>3. TypeOK'
  <2>1. <<>> \in Seq({"Started", "StartFailed"}) /\ Len(<<>>) <= 1
    BY EmptySeq
  <2>2. active' \subseteq {"start", "stop", "open"}
    BY <1>1 DEF Buttons
  <2> QED
    BY <1>1, <1>2, <2>1, <2>2 DEF TypeOK, inner, engines, traffic, requests, bindings
<1>4. \A t \in Starts : pc'[t] \notin Busy
  BY <1>1 DEF FlightInv
<1>5. LockInv' /\ FlightInv' /\ OrderInv'
  BY <1>1, <1>2, <1>4 DEF LockInv, FlightInv, OrderInv
<1>6. ButtonInv' /\ StartInv' /\ RunsAsConfigured' /\ ListenerIsRunners'
  BY <1>1 DEF ButtonInv, StartInv, RunsAsConfigured, ListenerIsRunners, bindings, inner
<1> QED
  BY <1>3, <1>5, <1>6

\* Stopping the listener takes it from the sockets that serve.
LEMMA StopListenerInv ==
  ASSUME IInv, StopListener, UNCHANGED <<starting, thread, bindings, engines, traffic>>,
         ui' \in {"idle", "closing", "exiting", "gone"}, active' \subseteq {"start", "stop", "open"}
  PROVE  (TypeOK /\ LockInv /\ FlightInv /\ OrderInv /\ StartInv
            /\ RunsAsConfigured /\ ListenerIsRunners)'
<1> USE DEF IInv
<1>1. /\ lock = 0 /\ listener' = 0 /\ backend' = backend
      /\ socket' = [t \in Starts |->
           IF t = listener /\ socket[t] # "closed" THEN "stopping" ELSE socket[t]]
      /\ UNCHANGED <<starting, thread, bindings, engines, traffic>>
  BY DEF StopListener
<1>2. 0 \notin Starts
  BY RunnerAssumption DEF Starts, RunnerAssumption
<1>3. TypeOK'
  BY <1>1 DEF TypeOK, thread, engines, traffic, requests, bindings
<1>4. LockInv' /\ FlightInv' /\ OrderInv'
  BY <1>1 DEF LockInv, FlightInv, OrderInv, thread
<1>5. StartInv' /\ RunsAsConfigured' /\ ListenerIsRunners'
  BY <1>1, <1>2 DEF StartInv, RunsAsConfigured, ListenerIsRunners, bindings, thread
<1> QED
  BY <1>3, <1>4, <1>5

LEMMA ClickStopInv ==
  ASSUME IInv, ClickStop
  PROVE  IInv'
<1>1. /\ StopListener /\ UNCHANGED <<ui, starting, thread, bindings, engines, traffic>>
      /\ active' = Buttons(starting, listener' # 0)
  BY DEF ClickStop, StopListener
<1>2. active' \subseteq {"start", "stop", "open"} /\ ui' \in {"idle", "closing", "exiting", "gone"}
  BY <1>1 DEF Buttons, IInv, TypeOK
<1>3. ButtonInv'
  BY <1>1 DEF ButtonInv
<1> QED
  BY <1>1, <1>2, <1>3, StopListenerInv DEF IInv

LEMMA CloseInv ==
  ASSUME IInv, Close \/ Shutdown
  PROVE  IInv'
<1>1. CASE Close
  <2>1. /\ ui' \in {"closing", "exiting"}
        /\ UNCHANGED <<starting, active, thread, inner, socket, bindings, engines, traffic>>
    BY <1>1 DEF Close
  <2>2. TypeOK' /\ ButtonInv'
    BY <2>1 DEF IInv, TypeOK, ButtonInv, thread, inner, engines, traffic, requests, bindings
  <2>3. LockInv' /\ FlightInv' /\ OrderInv' /\ StartInv' /\ RunsAsConfigured' /\ ListenerIsRunners'
    BY <2>1 DEF IInv, LockInv, FlightInv, OrderInv, StartInv, RunsAsConfigured, ListenerIsRunners,
                bindings, thread, inner
  <2> QED
    BY <2>2, <2>3 DEF IInv
<1>2. CASE Shutdown
  <2>1. /\ StopListener /\ UNCHANGED <<starting, active, thread, bindings, engines, traffic>>
        /\ ui' \in {"exiting", "gone"}
    BY <1>2 DEF Shutdown
  <2>2. active' \subseteq {"start", "stop", "open"}
    BY <2>1 DEF IInv, TypeOK
  <2>3. ButtonInv'
    BY <2>1 DEF ButtonInv
  <2> QED
    BY <2>1, <2>2, <2>3, StopListenerInv DEF IInv
<1> QED
  BY <1>1, <1>2

-----------------------------------------------------------------------------
(* The thread of a start.                                                   *)

\* What every step of a thread keeps: its start is in flight before it.
LEMMA ThreadStep ==
  ASSUME IInv, NEW t \in Starts, pc[t] \in Busy,
         UNCHANGED <<window, cfg>>,
         \E p \in Busy : pc' = [pc EXCEPT ![t] = p],
         msgs' = msgs,
         lock' = IF pc'[t] \in Holding THEN t ELSE 0,
         lock \in {0, t}
  PROVE  LockInv' /\ FlightInv' /\ OrderInv' /\ ButtonInv'
<1> USE DEF IInv
<1>1. 0 \notin Starts
  BY RunnerAssumption DEF Starts, RunnerAssumption
<1>2. PICK p \in Busy : pc' = [pc EXCEPT ![t] = p]
  OBVIOUS
<1>3. pc'[t] = p /\ \A s \in Starts : s # t => pc'[s] = pc[s] /\ pc[s] \notin Busy
  BY <1>2 DEF TypeOK, FlightInv
<1>4. starting /\ msgs = <<>>
  BY DEF FlightInv
<1>5. LockInv'
  BY <1>1, <1>3 DEF LockInv, Busy
<1>6. FlightInv'
  BY <1>3, <1>4 DEF FlightInv, window
<1>7. ButtonInv'
  BY <1>4 DEF ButtonInv, Buttons, window
<1>8. OrderInv'
  <2>1. pc[t] # "unborn" /\ p # "unborn"
    BY DEF Busy, Holding
  <2> QED
    BY <1>2, <2>1, OrderStep
<1> QED
  BY <1>5, <1>6, <1>7, <1>8

\* The steps that leave the listener and the sockets alone.
LEMMA LoadInv ==
  ASSUME IInv, NEW t \in Starts,
         TakeLock(t) \/ Prepare(t) \/ Built(t) \/ BuildFails(t) \/ BindFails(t) \/ Return(t)
  PROVE  IInv'
<1> USE DEF IInv
<1>1. /\ UNCHANGED <<window, cfg, msgs, listener, socket, bindings, crashed, traffic>>
      /\ pc[t] \in Busy /\ pc[t] \notin {"Started", "StartFailed"}
      /\ pc[t] \in Holding \/ (pc[t] = "spawned" /\ lock = 0)
      /\ \E p \in Busy \ {"spawned"} : pc' = [pc EXCEPT ![t] = p]
      /\ backend' \in {0, t, backend} /\ loaded' \subseteq loaded \cup {t}
  BY DEF TakeLock, Prepare, Built, BuildFails, BindFails, Return, Go, Busy, Holding, inner, engines
<1>2. lock \in {0, t} /\ lock' = IF pc'[t] \in Holding THEN t ELSE 0
  <2>1. pc[t] \in Holding => lock = t
    BY DEF LockInv
  <2>2. pc \in [Starts -> {"unborn", "spawned", "locked", "build", "bind", "started",
                          "failed", "Started", "StartFailed", "panicked", "done"}]
    BY DEF TypeOK
  <2>3. CASE TakeLock(t)
    BY <2>2, <2>3 DEF TakeLock, Go, Holding
  <2>4. CASE Prepare(t)
    BY <2>1, <2>2, <2>4 DEF Prepare, Go, Holding
  <2>5. CASE Built(t) \/ BuildFails(t) \/ BindFails(t)
    BY <2>1, <2>2, <2>5 DEF Built, BuildFails, BindFails, Go, Holding
  <2>6. CASE Return(t)
    BY <2>1, <2>2, <2>6 DEF Return, Go, Holding
  <2> QED
    BY <2>3, <2>4, <2>5, <2>6
<1>3. LockInv' /\ FlightInv' /\ OrderInv' /\ ButtonInv'
  <2>1. \E p \in Busy : pc' = [pc EXCEPT ![t] = p]
    BY <1>1
  <2>2. UNCHANGED <<window, cfg>> /\ msgs' = msgs
    BY <1>1
  <2> QED
    BY <1>1, <1>2, <2>1, <2>2, ThreadStep DEF window
<1>4. TypeOK'
  <2>1. PICK p \in Busy \ {"spawned"} : pc' = [pc EXCEPT ![t] = p]
    BY <1>1
  <2>2. pc' \in [Starts -> {"unborn", "spawned", "locked", "build", "bind", "started",
                           "failed", "Started", "StartFailed", "panicked", "done"}]
    BY <2>1 DEF TypeOK, Busy, Holding
  <2>3. {lock', backend', listener'} \subseteq Starts \cup {0} /\ loaded' \subseteq Starts
    BY <1>1, <1>2 DEF TypeOK
  <2> QED
    BY <1>1, <2>2, <2>3 DEF TypeOK, window, traffic, requests, bindings
<1>5. \A s \in Starts : s # t => pc'[s] = pc[s] /\ pc[s] \notin Busy
  BY <1>1 DEF TypeOK, FlightInv
<1>6. /\ pc'[t] # "unborn"
      /\ pc'[t] \in {"build", "bind"} => listener = 0
      /\ pc'[t] = "bind" => backend' # 0 /\ cfg[backend'].engine = cfg[t].engine
      /\ backend' # backend => listener = 0
  <2>1. pc \in [Starts -> {"unborn", "spawned", "locked", "build", "bind", "started",
                          "failed", "Started", "StartFailed", "panicked", "done"}]
        /\ 0 \notin Starts
    BY RunnerAssumption DEF TypeOK, Starts, RunnerAssumption
  <2>2. CASE TakeLock(t)
    BY <2>1, <2>2 DEF TakeLock, Go, inner
  <2>3. CASE Prepare(t)
    BY <2>1, <2>3 DEF Prepare, Go, EngineDiffers
  <2>4. CASE Built(t)
    BY <2>1, <2>4 DEF Built, Go, StartInv
  <2>5. CASE BuildFails(t) \/ BindFails(t) \/ Return(t)
    BY <2>1, <2>5 DEF BuildFails, BindFails, Return, Go, inner
  <2> QED
    BY <1>1, <2>2, <2>3, <2>4, <2>5
<1>7. StartInv'
  <2> SUFFICES ASSUME NEW s \in Starts
               PROVE  /\ pc'[s] \in {"build", "bind"} => listener = 0
                      /\ pc'[s] = "bind" => backend' # 0 /\ cfg[backend'].engine = cfg[s].engine
                      /\ pc'[s] = "unborn" => s # backend' /\ s # listener
    BY <1>1 DEF StartInv
  <2>1. CASE s = t
    BY <1>6, <2>1
  <2>2. CASE s # t
    <3>1. pc'[s] = pc[s] /\ pc[s] \notin {"build", "bind"}
      BY <1>5, <2>2 DEF Busy, Holding
    <3>2. pc[s] = "unborn" => s # backend /\ s # listener
      BY DEF StartInv
    <3>3. s # 0
      BY RunnerAssumption DEF Starts, RunnerAssumption
    <3> QED
      BY <1>1, <2>2, <3>1, <3>2, <3>3
  <2> QED
    BY <2>1, <2>2
<1>8. RunsAsConfigured' /\ ListenerIsRunners'
  <2>1. \A s \in Starts : pc[s] = "unborn" => pc'[s] = "unborn"
    BY <1>1, <1>5 DEF Busy, Holding
  <2>2. RunsAsConfigured'
    BY <1>1, <1>6, <2>1 DEF RunsAsConfigured, bindings
  <2> QED
    BY <1>1, <2>2 DEF ListenerIsRunners
<1> QED
  BY <1>3, <1>4, <1>7, <1>8

\* A new listener is the only one that serves, and its engine is the one its
\* start asked for.
LEMMA BindInv ==
  ASSUME IInv, NEW t \in Starts, Bind(t)
  PROVE  IInv'
<1> USE DEF IInv
<1>1. /\ pc[t] = "bind" /\ listener' = t
      /\ socket' = [socket EXCEPT ![t] = "bound"] /\ at' = [at EXCEPT ![t] = cfg[t].port]
      /\ serves' = [serves EXCEPT ![t] = backend]
      /\ pc' = [pc EXCEPT ![t] = "started"]
      /\ UNCHANGED <<window, cfg, msgs, lock, backend, engines, traffic>>
  BY DEF Bind, Go, Address
<1>2. pc'[t] = "started" /\ lock = t /\ listener = 0
  BY <1>1 DEF TypeOK, LockInv, StartInv, Holding
<1>3. backend # 0 /\ cfg[backend].engine = cfg[t].engine /\ serves'[t] = backend
  BY <1>1 DEF StartInv, TypeOK
<1>4. TypeOK'
  <2>1. cfg[t].port \in Ports \cup {"none"}
    BY DEF TypeOK, Configs, NoConfig
  <2>2. at' \in [Starts -> Ports \cup {"none"}]
    BY <1>1, <2>1 DEF TypeOK
  <2> QED
    BY <1>1, <2>2 DEF TypeOK, window, engines, traffic, requests
<1>5. LockInv' /\ FlightInv' /\ OrderInv' /\ ButtonInv'
  <2>1. \E p \in Busy : pc' = [pc EXCEPT ![t] = p]
    BY <1>1 DEF Busy, Holding
  <2>2. lock' = IF pc'[t] \in Holding THEN t ELSE 0
    BY <1>1, <1>2 DEF Holding
  <2>3. pc[t] \in Busy /\ UNCHANGED <<window, cfg>> /\ msgs' = msgs /\ lock \in {0, t}
    BY <1>1, <1>2 DEF Busy, Holding
  <2> QED
    BY <2>1, <2>2, <2>3, ThreadStep
<1>6. \A s \in Starts : s # t => pc'[s] = pc[s] /\ pc[s] \notin Busy
  BY <1>1 DEF TypeOK, FlightInv, Busy, Holding
<1>7. StartInv'
  BY <1>1, <1>2, <1>6 DEF StartInv, Busy, Holding
<1>8. RunsAsConfigured'
  <2>1. at'[t] = cfg[t].port
    BY <1>1 DEF TypeOK
  <2>2. \A s \in Starts : s > t => pc[s] = "unborn"
    BY <1>1 DEF OrderInv, Busy, Holding, Starts
  <2>3. \A s \in Starts : s > t => pc'[s] = "unborn"
    BY <1>1, <2>2 DEF Starts, TypeOK
  <2> QED
    BY <1>1, <1>3, <2>1, <2>3 DEF RunsAsConfigured
<1>9. ListenerIsRunners'
  <2> SUFFICES ASSUME NEW l \in Starts
               PROVE  /\ socket'[l] \in {"bound", "serving"} => l = t
                      /\ l = t => socket'[l] = "bound"
    BY <1>1 DEF ListenerIsRunners
  <2>1. l # 0
    BY RunnerAssumption DEF Starts, RunnerAssumption
  <2>2. socket'[l] = IF l = t THEN "bound" ELSE socket[l]
    BY <1>1 DEF TypeOK
  <2> QED
    BY <1>2, <2>1, <2>2 DEF ListenerIsRunners
<1> QED
  BY <1>4, <1>5, <1>7, <1>8, <1>9

\* The start is over: its message is sent, or it panicked and none ever is.
LEMMA SendInv ==
  ASSUME IInv, NEW t \in Starts, Send(t)
  PROVE  IInv'
<1> USE DEF IInv
<1>1. /\ pc[t] \in {"Started", "StartFailed"} /\ msgs' = Append(msgs, pc[t])
      /\ pc' = [pc EXCEPT ![t] = "done"]
      /\ UNCHANGED <<window, cfg, lock, inner, socket, bindings, engines, traffic>>
  BY DEF Send, Go
<1>2. starting /\ msgs = <<>> /\ \A s \in Starts : pc'[s] = IF s = t THEN "done" ELSE pc[s]
  BY <1>1 DEF FlightInv, TypeOK, Busy
<1>3. \A s \in Starts : pc'[s] \notin Busy
  BY <1>1, <1>2 DEF FlightInv, Busy, Holding
<1>4. msgs' \in Seq({"Started", "StartFailed"}) /\ Len(msgs') = 1
  <2> DEFINE M == {"Started", "StartFailed"}
  <2>1. <<>> \in Seq(M) /\ Len(<<>>) = 0
    BY EmptySeq
  <2>2. \A m \in M : Append(<<>>, m) \in Seq(M) /\ Len(Append(<<>>, m)) = Len(<<>>) + 1
    BY <2>1, AppendProperties
  <2> QED
    BY <1>1, <1>2, <2>1, <2>2
<1>5. TypeOK'
  <2>1. pc' \in [Starts -> {"unborn", "spawned", "locked", "build", "bind", "started",
                           "failed", "Started", "StartFailed", "panicked", "done"}]
    BY <1>1 DEF TypeOK
  <2>2. msgs' \in Seq({"Started", "StartFailed"}) /\ Len(msgs') <= 1
    BY <1>4
  <2>3. /\ UNCHANGED <<ui, starting, active, cfg, lock, backend, listener, socket, at, serves>>
        /\ UNCHANGED <<loaded, crashed, uploading, waiting, replying, pending, arrived>>
    BY <1>1 DEF window, inner, engines, traffic, requests, bindings
  <2> QED
    BY <2>1, <2>2, <2>3 DEF TypeOK
<1>6. LockInv' /\ FlightInv' /\ OrderInv'
  <2>1. LockInv' /\ FlightInv'
    BY <1>1, <1>2, <1>3 DEF LockInv, FlightInv, Holding, window
  <2>2. OrderInv'
    BY <1>1, OrderStep DEF Busy, Holding
  <2> QED
    BY <2>1, <2>2
<1>7. ButtonInv' /\ StartInv'
  <2>1. UNCHANGED <<window, inner, cfg>>
    BY <1>1
  <2>2. \A s \in Starts : pc'[s] = IF s = t THEN "done" ELSE pc[s]
    BY <1>2
  <2>3. ButtonInv'
    BY <2>1 DEF ButtonInv, window, inner
  <2>4. StartInv'
    BY <2>1, <2>2 DEF StartInv, inner
  <2> QED
    BY <2>3, <2>4
<1>8. RunsAsConfigured' /\ ListenerIsRunners'
  BY <1>1, <1>2 DEF RunsAsConfigured, ListenerIsRunners, bindings, inner
<1> QED
  BY <1>5, <1>6, <1>7, <1>8

LEMMA BuildPanicsInv ==
  ASSUME IInv, NEW t \in Starts, BuildPanics(t)
  PROVE  IInv'
<1> USE DEF IInv
<1>1. /\ pc[t] = "build" /\ lock' = 0 /\ loaded' = loaded \ {t}
      /\ pc' = [pc EXCEPT ![t] = "panicked"]
      /\ UNCHANGED <<window, cfg, msgs, inner, socket, bindings, crashed, traffic>>
  BY DEF BuildPanics, Go
<1>2. /\ 0 \notin Starts /\ lock = t
      /\ \A s \in Starts : pc'[s] = IF s = t THEN "panicked" ELSE pc[s]
  BY <1>1, RunnerAssumption DEF LockInv, TypeOK, Holding, Starts, RunnerAssumption
<1>3. TypeOK'
  BY <1>1 DEF TypeOK, window, inner, traffic, requests, bindings
<1>4. LockInv' /\ FlightInv' /\ OrderInv'
  <2>1. LockInv' /\ FlightInv'
    BY <1>1, <1>2 DEF LockInv, FlightInv, Holding, Busy, window
  <2>2. OrderInv'
    BY <1>1, OrderStep DEF Busy, Holding
  <2> QED
    BY <2>1, <2>2
<1>5. ButtonInv' /\ StartInv'
  BY <1>1, <1>2 DEF ButtonInv, StartInv, window, inner
<1>6. RunsAsConfigured' /\ ListenerIsRunners'
  BY <1>1, <1>2 DEF RunsAsConfigured, ListenerIsRunners, bindings, inner
<1> QED
  BY <1>3, <1>4, <1>5, <1>6

-----------------------------------------------------------------------------
(* Listeners and engines.                                                   *)

\* The counts of requests stay counts.
LEMMA CountStep ==
  ASSUME NEW f \in [Starts -> Nat], NEW g, NEW h,
         \/ h = f
         \/ h = [f EXCEPT ![g] = f[g] + 1]
         \/ f[g] > 0 /\ h = [f EXCEPT ![g] = f[g] - 1]
  PROVE  h \in [Starts -> Nat]
<1>1. CASE g \in Starts
  <2>1. f[g] \in Nat
    BY <1>1
  <2>2. f[g] + 1 \in Nat /\ (f[g] > 0 => f[g] - 1 \in Nat)
    BY <2>1
  <2> QED
    BY <2>2
<1>2. CASE g \notin Starts
  <2>1. [f EXCEPT ![g] = f[g] + 1] = f /\ [f EXCEPT ![g] = f[g] - 1] = f
    BY <1>2
  <2> QED
    BY <2>1
<1> QED
  BY <1>1, <1>2

\* Requests and jobs come and go without the Runner.
LEMMA RequestInv ==
  ASSUME IInv, NEW l \in Starts,
         \/ Connect(l) \/ Submit(l) \/ Answer(l) \/ Leave(l)
         \/ Solve(l) \/ WorkerPanics(l) \/ Free(l)
  PROVE  IInv'
<1> USE DEF IInv
<1>1. UNCHANGED <<window, thread, inner, socket, bindings>>
  BY DEF Connect, Submit, Answer, Leave, Solve, WorkerPanics, Free
<1>2. /\ LockInv' /\ FlightInv' /\ OrderInv' /\ ButtonInv' /\ StartInv'
      /\ RunsAsConfigured' /\ ListenerIsRunners'
  BY <1>1 DEF LockInv, FlightInv, OrderInv, ButtonInv, StartInv, RunsAsConfigured,
              ListenerIsRunners, window, thread, inner, bindings
<1>3. /\ loaded' \subseteq Starts /\ crashed' \subseteq Starts
      /\ uploading' \in [Starts -> Nat] /\ waiting' \in [Starts -> Nat]
      /\ replying' \in [Starts -> Nat] /\ pending' \in [Starts -> Nat]
      /\ arrived' \in 0 .. MaxRequests
  <2>1. /\ uploading \in [Starts -> Nat] /\ waiting \in [Starts -> Nat]
        /\ replying \in [Starts -> Nat] /\ pending \in [Starts -> Nat]
    BY DEF TypeOK
  <2>2. uploading' \in [Starts -> Nat]
    <3>1. \/ uploading' = uploading
          \/ uploading' = [uploading EXCEPT ![l] = uploading[l] + 1]
          \/ uploading[l] > 0 /\ uploading' = [uploading EXCEPT ![l] = uploading[l] - 1]
      BY DEF Connect, Submit, Answer, Leave, Solve, WorkerPanics, Free, requests, traffic
    <3> QED
      BY <2>1, <3>1, CountStep
  <2>3. waiting' \in [Starts -> Nat]
    <3>1. \/ waiting' = waiting
          \/ waiting' = [waiting EXCEPT ![l] = waiting[l] + 1]
          \/ waiting[l] > 0 /\ waiting' = [waiting EXCEPT ![l] = waiting[l] - 1]
      BY DEF Connect, Submit, Answer, Leave, Solve, WorkerPanics, Free, requests, traffic
    <3> QED
      BY <2>1, <3>1, CountStep
  <2>4. replying' \in [Starts -> Nat]
    <3>1. \/ replying' = replying
          \/ replying' = [replying EXCEPT ![l] = replying[l] + 1]
          \/ replying[l] > 0 /\ replying' = [replying EXCEPT ![l] = replying[l] - 1]
      BY DEF Connect, Submit, Answer, Leave, Solve, WorkerPanics, Free, requests, traffic
    <3> QED
      BY <2>1, <3>1, CountStep
  <2>5. pending' \in [Starts -> Nat]
    <3>1. CASE WorkerPanics(l)
      BY <2>1, <3>1 DEF WorkerPanics
    <3>2. CASE Submit(l)
      <4>1. pending' = pending \/ pending' = [pending EXCEPT ![serves[l]] = pending[serves[l]] + 1]
        BY <3>2 DEF Submit
      <4> QED
        BY <2>1, <4>1, CountStep
    <3>3. CASE \/ Connect(l) \/ Answer(l) \/ Leave(l) \/ Solve(l) \/ Free(l)
      <4>1. \/ pending' = pending
            \/ pending[l] > 0 /\ pending' = [pending EXCEPT ![l] = pending[l] - 1]
        BY <3>3 DEF Connect, Answer, Leave, Solve, Free, traffic
      <4> QED
        BY <2>1, <4>1, CountStep
    <3> QED
      BY <3>1, <3>2, <3>3
  <2>6. loaded' \subseteq Starts /\ crashed' \subseteq Starts
    BY DEF Connect, Submit, Answer, Leave, Solve, WorkerPanics, Free, engines, TypeOK
  <2>7. arrived' \in 0 .. MaxRequests
    <3>1. arrived' = arrived \/ (arrived < MaxRequests /\ arrived' = arrived + 1)
      BY DEF Connect, Submit, Answer, Leave, Solve, WorkerPanics, Free, traffic
    <3>2. arrived \in 0 .. MaxRequests /\ MaxRequests \in Nat
      BY RunnerAssumption DEF TypeOK, RunnerAssumption
    <3> QED
      BY <3>1, <3>2
  <2> QED
    BY <2>2, <2>3, <2>4, <2>5, <2>6, <2>7
<1>4. TypeOK'
  BY <1>1, <1>3 DEF TypeOK, window, thread, inner, bindings
<1> QED
  BY <1>2, <1>4

\* A task makes no socket serve that was not bound, and sees no signal to stop
\* that the Runner did not give.
LEMMA TaskInv ==
  ASSUME IInv, NEW l \in Starts, Serve(l) \/ CloseSocket(l) \/ Drained(l)
  PROVE  IInv'
<1> USE DEF IInv
<1>1. UNCHANGED <<window, thread, inner, bindings, engines, traffic>>
  BY DEF Serve, CloseSocket, Drained
<1>2. /\ LockInv' /\ FlightInv' /\ OrderInv' /\ ButtonInv' /\ StartInv' /\ RunsAsConfigured'
  BY <1>1 DEF LockInv, FlightInv, OrderInv, ButtonInv, StartInv, RunsAsConfigured,
              window, thread, inner, bindings
<1>3. PICK state \in {"serving", "draining", "closed"} :
        /\ socket' = [socket EXCEPT ![l] = state]
        /\ \/ state \in {"serving", "closed"} /\ socket[l] = "bound"
           \/ state \in {"draining", "closed"} /\ socket[l] \in {"stopping", "draining"}
  BY DEF Serve, CloseSocket, Drained
<1>4. \A s \in Starts : socket'[s] = IF s = l THEN state ELSE socket[s]
  BY <1>3 DEF TypeOK
<1>5. ListenerIsRunners'
  BY <1>1, <1>3, <1>4 DEF ListenerIsRunners, inner
<1>6. socket' \in [Starts -> {"none", "bound", "serving", "stopping", "draining", "closed"}]
  BY <1>3 DEF TypeOK
<1>7. TypeOK'
  BY <1>1, <1>6 DEF TypeOK, window, thread, inner, bindings, engines, traffic, requests
<1> QED
  BY <1>2, <1>5, <1>7

-----------------------------------------------------------------------------
LEMMA StepInv == IInv /\ [Next]_vars => IInv'
<1> SUFFICES ASSUME IInv, [Next]_vars PROVE IInv'
  OBVIOUS
<1>1. ASSUME NEW t \in Starts, NEW c \in Configs, ClickStart(t, c) PROVE IInv'
  BY <1>1, ClickStartInv
<1>2. CASE HandleMsg
  BY <1>2, HandleMsgInv
<1>3. CASE ClickStop
  BY <1>3, ClickStopInv
<1>4. CASE Close \/ Shutdown
  BY <1>4, CloseInv
<1>5. ASSUME NEW t \in Starts, Starter(t) \/ BuildPanics(t) PROVE IInv'
  <2>1. CASE TakeLock(t) \/ Prepare(t) \/ Built(t) \/ BuildFails(t) \/ BindFails(t) \/ Return(t)
    BY <2>1, LoadInv
  <2>2. CASE Bind(t)
    BY <2>2, BindInv
  <2>3. CASE Send(t)
    BY <2>3, SendInv
  <2>4. CASE BuildPanics(t)
    BY <2>4, BuildPanicsInv
  <2> QED
    BY <1>5, <2>1, <2>2, <2>3, <2>4 DEF Starter
<1>6. ASSUME NEW l \in Starts,
             \/ Serve(l) \/ CloseSocket(l) \/ Drained(l)
             \/ Connect(l) \/ Submit(l) \/ Answer(l) \/ Leave(l)
             \/ Solve(l) \/ WorkerPanics(l) \/ Free(l)
      PROVE  IInv'
  BY <1>6, TaskInv, RequestInv
<1>7. CASE UNCHANGED vars
  BY <1>7 DEF vars, window, thread, inner, engines, traffic, requests, bindings,
              IInv, TypeOK, LockInv, FlightInv, OrderInv, ButtonInv, StartInv, RunsAsConfigured,
              ListenerIsRunners
<1> QED
  BY <1>1, <1>2, <1>3, <1>4, <1>5, <1>6, <1>7 DEF Next

-----------------------------------------------------------------------------
\* The inductive invariant of the desktop program's control.
THEOREM Invariance == Spec => []IInv
  BY InitInv, StepInv, PTL DEF Spec

\* Outside a start the buttons are those of the Runner's state, whatever the
\* threads of earlier starts did (gui/mod.rs, refresh).
THEOREM ButtonsAgree == Spec => []ButtonsAgreeWithRunner
<1>1. IInv => ButtonsAgreeWithRunner
  <2> SUFFICES ASSUME IInv, ui = "idle", ~starting
               PROVE  active = Buttons(FALSE, listener # 0)
    BY DEF ButtonsAgreeWithRunner
  <2>1. starting = FALSE
    BY DEF IInv, TypeOK
  <2> QED
    BY <2>1 DEF IInv, ButtonInv
<1> QED
  BY <1>1, Invariance, PTL

\* No button that can be pressed needs a mutex that is held while an engine
\* loads (gui/mod.rs, start_server).
THEOREM UiIsFree == Spec => []UiNeverWaits
<1>1. IInv => UiNeverWaits
  <2> SUFFICES ASSUME IInv, ui = "idle", lock # 0 PROVE starting /\ active = {}
    BY DEF UiNeverWaits
  <2>1. lock \in Starts /\ pc[lock] \in Busy
    BY DEF IInv, TypeOK, LockInv, Busy
  <2>2. starting
    BY <2>1 DEF IInv, FlightInv
  <2> QED
    BY <2>2 DEF IInv, ButtonInv, Buttons
<1> QED
  BY <1>1, Invariance, PTL

\* The server that runs is the one the last start asked for: its address and
\* its engine, kept or built (gui/runner.rs, start).
THEOREM Configured == Spec => []RunsAsConfigured
<1>1. IInv => RunsAsConfigured
  BY DEF IInv
<1> QED
  BY <1>1, Invariance, PTL

\* Whatever serves can be stopped, and what the Runner has a handle of has not
\* been (gui/runner.rs, start and stop).
THEOREM Reachable == Spec => []ListenerIsRunners
<1>1. IInv => ListenerIsRunners
  BY DEF IInv
<1> QED
  BY <1>1, Invariance, PTL

-----------------------------------------------------------------------------
(* The log.                                                                 *)

\* The places of a sequence counted from its end.
Last_(s) == 0 .. Len(s) - 1

-----------------------------------------------------------------------------
(* Sequences seen from their end.                                           *)

LEMMA BackType ==
  ASSUME NEW s \in Seq(Nat), NEW k \in Last_(s)
  PROVE  Back(s, k) \in Nat
<1>1. Len(s) \in Nat /\ Len(s) - k \in 1 .. Len(s)
  BY DEF Last_
<1> QED
  BY <1>1 DEF Back

LEMMA AppendBack ==
  ASSUME NEW s \in Seq(Nat), NEW p \in Nat
  PROVE  /\ Append(s, p) \in Seq(Nat) /\ Len(Append(s, p)) = Len(s) + 1
         /\ Back(Append(s, p), 0) = p
         /\ \A k \in 1 .. Len(s) : Back(Append(s, p), k) = Back(s, k - 1)
<1>1. /\ Len(s) \in Nat
      /\ Append(s, p) \in Seq(Nat) /\ Len(Append(s, p)) = Len(s) + 1
      /\ \A i \in 1 .. Len(s) : Append(s, p)[i] = s[i]
      /\ Append(s, p)[Len(s) + 1] = p
  BY AppendProperties
<1>2. ASSUME NEW k \in 1 .. Len(s) PROVE Back(Append(s, p), k) = Back(s, k - 1)
  <2>1. /\ Len(s) + 1 - k \in 1 .. Len(s) /\ Len(s) - (k - 1) = Len(s) + 1 - k
    BY <1>1
  <2> QED
    BY <1>1, <2>1 DEF Back
<1> QED
  BY <1>1, <1>2 DEF Back

LEMMA TailBack ==
  ASSUME NEW s \in Seq(Nat), s # <<>>
  PROVE  /\ Tail(s) \in Seq(Nat) /\ Len(Tail(s)) = Len(s) - 1
         /\ \A k \in 0 .. Len(s) - 2 : Back(Tail(s), k) = Back(s, k)
<1>1. /\ Len(s) \in Nat
      /\ Tail(s) \in Seq(Nat) /\ Len(Tail(s)) = Len(s) - 1
      /\ \A i \in 1 .. Len(s) - 1 : Tail(s)[i] = s[i + 1]
  BY HeadTailProperties
<1>2. ASSUME NEW k \in 0 .. Len(s) - 2 PROVE Back(Tail(s), k) = Back(s, k)
  <2>1. Len(s) - 1 - k \in 1 .. Len(s) - 1 /\ Len(s) - 1 - k + 1 = Len(s) - k
    BY <1>1
  <2> QED
    BY <1>1, <2>1 DEF Back
<1> QED
  BY <1>1, <1>2

\* The newest n elements, and so the newer half.
LEMMA EndBack ==
  ASSUME NEW s \in Seq(Nat), NEW n \in 0 .. Len(s)
  PROVE  LET e == SubSeq(s, Len(s) - n + 1, Len(s))
         IN /\ e \in Seq(Nat) /\ Len(e) = n
            /\ \A k \in 0 .. n - 1 : Back(e, k) = Back(s, k)
<1> DEFINE e == SubSeq(s, Len(s) - n + 1, Len(s))
<1>1. Len(s) \in Nat /\ n \in Nat /\ n <= Len(s) /\ Len(s) - n + 1 \in Int
  OBVIOUS
<1>2. \A i \in Len(s) - n + 1 .. Len(s) : s[i] \in Nat
  <2>1. \A i \in 1 .. Len(s) : s[i] \in Nat
    OBVIOUS
  <2> QED
    BY <1>1, <2>1
<1>3. /\ e \in Seq(Nat)
      /\ Len(e) = IF Len(s) - n + 1 <= Len(s) THEN Len(s) - (Len(s) - n + 1) + 1 ELSE 0
      /\ \A i \in 1 .. Len(s) - (Len(s) - n + 1) + 1 : e[i] = s[Len(s) - n + 1 + i - 1]
  <2>4. PICK a \in Int : a = Len(s) - n + 1
    BY <1>1
  <2>5. PICK b \in Int : b = Len(s)
    BY <1>1
  <2>1. a = Len(s) - n + 1 /\ b = Len(s)
    BY <2>4, <2>5
  <2>2. \A i \in a .. b : s[i] \in Nat
    BY <1>2, <2>1
  <2>3. /\ SubSeq(s, a, b) \in Seq(Nat)
        /\ Len(SubSeq(s, a, b)) = IF a <= b THEN b - a + 1 ELSE 0
        /\ \A i \in 1 .. b - a + 1 : SubSeq(s, a, b)[i] = s[a + i - 1]
    BY <2>2, SubSeqProperties
  <2> QED
    BY <2>1, <2>3
<1>4. Len(e) = n
  BY <1>1, <1>3
<1> HIDE DEF e
<1>5. ASSUME NEW k \in 0 .. n - 1 PROVE Back(e, k) = Back(s, k)
  <2>1. n - k \in 1 .. Len(s) - (Len(s) - n + 1) + 1 /\ Len(s) - n + 1 + (n - k) - 1 = Len(s) - k
    BY <1>1
  <2> QED
    BY <1>3, <1>4, <2>1 DEF Back
<1> QED
  BY <1>3, <1>4, <1>5 DEF e

LEMMA ConcatBack ==
  ASSUME NEW s \in Seq(Nat), NEW t \in Seq(Nat)
  PROVE  /\ s \o t \in Seq(Nat) /\ Len(s \o t) = Len(s) + Len(t)
         /\ \A k \in Last_(t) : Back(s \o t, k) = Back(t, k)
         /\ \A k \in Last_(s) : Back(s \o t, k + Len(t)) = Back(s, k)
<1>1. PICK c \in Seq(Nat) : c = s \o t
  BY ConcatProperties
<1>2. /\ Len(s) \in Nat /\ Len(t) \in Nat /\ Len(c) = Len(s) + Len(t)
      /\ \A i \in 1 .. Len(s) + Len(t) : c[i] = IF i <= Len(s) THEN s[i] ELSE t[i - Len(s)]
  BY <1>1, ConcatProperties
<1>3. ASSUME NEW k \in Last_(t) PROVE Back(c, k) = Back(t, k)
  <2>3. Len(s) + Len(t) - k \in Nat
    BY <1>2 DEF Last_
  <2>1. PICK i \in Nat : i = Len(s) + Len(t) - k
    BY <2>3
  <2>2. /\ i \in 1 .. Len(s) + Len(t) /\ ~(i <= Len(s))
        /\ i - Len(s) = Len(t) - k
    BY <1>2, <2>1 DEF Last_
  <2>4. c[i] = t[Len(t) - k]
    BY <1>2, <2>2
  <2>5. Len(c) - k = i
    BY <1>2, <2>1 DEF Last_
  <2> QED
    BY <2>4, <2>5 DEF Back
<1>4. ASSUME NEW k \in Last_(s) PROVE Back(c, k + Len(t)) = Back(s, k)
  <2>3. Len(s) - k \in Nat
    BY <1>2 DEF Last_
  <2>1. PICK i \in Nat : i = Len(s) - k
    BY <2>3
  <2>2. /\ i \in 1 .. Len(s) + Len(t) /\ i <= Len(s)
        /\ Len(c) - (k + Len(t)) = i
    BY <1>2, <2>1 DEF Last_
  <2> QED
    BY <1>2, <2>1, <2>2 DEF Back
<1> QED
  BY <1>1, <1>2, <1>3, <1>4

\* What it takes for one sequence to be the end of another.
LEMMA SuffixBack ==
  ASSUME NEW s \in Seq(Nat), NEW t \in Seq(Nat), Len(s) <= Len(t),
         \A k \in Last_(s) : Back(s, k) = Back(t, k)
  PROVE  IsSuffix(s, t)
<1>1. Len(s) \in Nat /\ Len(t) \in Nat
  OBVIOUS
<1>2. Len(Reverse(s)) = Len(s) /\ Len(Reverse(t)) = Len(t)
  BY <1>1 DEF Reverse
<1>3. ASSUME NEW i \in 1 .. Len(s) PROVE Reverse(s)[i] = Reverse(t)[i]
  <2>1. i - 1 \in Last_(s) /\ Len(s) - (i - 1) = Len(s) - i + 1 /\ Len(t) - (i - 1) = Len(t) - i + 1
    BY <1>1 DEF Last_
  <2>2. s[Len(s) - i + 1] = t[Len(t) - i + 1]
    BY <2>1 DEF Back
  <2>3. i \in 1 .. Len(t)
    BY <1>1
  <2> QED
    BY <1>1, <2>2, <2>3 DEF Reverse
<1>4. SubSeq(Reverse(s), 1, Len(s)) = SubSeq(Reverse(t), 1, Len(s))
  <2>1. Reverse(s) \in [1 .. Len(s) -> Nat] /\ Reverse(t) \in [1 .. Len(t) -> Nat]
    <3>1. \A i \in 1 .. Len(s) : Len(s) - i + 1 \in 1 .. Len(s)
      BY <1>1
    <3>2. \A i \in 1 .. Len(t) : Len(t) - i + 1 \in 1 .. Len(t)
      BY <1>1
    <3> QED
      BY <3>1, <3>2 DEF Reverse
  <2>2. PICK n \in Nat : n = Len(s)
    BY <1>1
  <2>3. \A i \in 1 .. n : Reverse(s)[i] \in Nat /\ Reverse(t)[i] \in Nat
    <3>1. \A i \in 1 .. n : i \in 1 .. Len(s) /\ i \in 1 .. Len(t)
      BY <1>1, <2>2
    <3> QED
      BY <2>1, <3>1
  <2>4. /\ SubSeq(Reverse(s), 1, n) \in Seq(Nat)
        /\ Len(SubSeq(Reverse(s), 1, n)) = n
        /\ \A i \in 1 .. n : SubSeq(Reverse(s), 1, n)[i] = Reverse(s)[i]
    <3>1. /\ SubSeq(Reverse(s), 1, n) \in Seq(Nat)
          /\ Len(SubSeq(Reverse(s), 1, n)) = IF 1 <= n THEN n - 1 + 1 ELSE 0
          /\ \A i \in 1 .. n - 1 + 1 : SubSeq(Reverse(s), 1, n)[i] = Reverse(s)[1 + i - 1]
      BY <2>3, SubSeqProperties
    <3>2. n - 1 + 1 = n /\ \A i \in 1 .. n : 1 + i - 1 = i
      OBVIOUS
    <3> QED
      BY <3>1, <3>2
  <2>5. /\ SubSeq(Reverse(t), 1, n) \in Seq(Nat)
        /\ Len(SubSeq(Reverse(t), 1, n)) = n
        /\ \A i \in 1 .. n : SubSeq(Reverse(t), 1, n)[i] = Reverse(t)[i]
    <3>1. /\ SubSeq(Reverse(t), 1, n) \in Seq(Nat)
          /\ Len(SubSeq(Reverse(t), 1, n)) = IF 1 <= n THEN n - 1 + 1 ELSE 0
          /\ \A i \in 1 .. n - 1 + 1 : SubSeq(Reverse(t), 1, n)[i] = Reverse(t)[1 + i - 1]
      BY <2>3, SubSeqProperties
    <3>2. n - 1 + 1 = n /\ \A i \in 1 .. n : 1 + i - 1 = i
      OBVIOUS
    <3> QED
      BY <3>1, <3>2
  <2> QED
    BY <1>3, <2>2, <2>4, <2>5, SeqEqual
<1> QED
  BY <1>2, <1>4 DEF IsSuffix, IsPrefix

-----------------------------------------------------------------------------
(* What is said of the buffer, the file and the tab.                        *)

\* The lines are among the first n that were logged.
Numbered(s, n) == \A k \in Last_(s) : Back(s, k) >= 1 /\ Back(s, k) <= n

\* No line occurs twice or out of order.
Sorted(s) == \A j, k \in Last_(s) : j < k => Back(s, k) < Back(s, j)

\* The lines were logged after the first c.
Above(s, c) == \A k \in Last_(s) : c < Back(s, k)

\* E is what is left of S once older lines are dropped.
End(e, s) ==
  e \in Seq(Nat) /\ Len(e) <= Len(s) /\ \A k \in Last_(e) : Back(e, k) = Back(s, k)

\* If the n newest lines are all that a tab showing D lacks of L, it ends with
\* the others, and the n are newer than all it shows.
Follows(d, l, n) ==
  n <= Len(l) =>
    /\ Len(l) - n <= Len(d)
    /\ \A k \in n .. Len(l) - 1 : Back(l, k) = Back(d, k - n)
    /\ \A k \in 0 .. n - 1, j \in Last_(d) : Back(d, j) < Back(l, k)

LEMMA EndFacts ==
  ASSUME NEW s \in Seq(Nat), NEW e, End(e, s), NEW n
  PROVE  /\ Numbered(s, n) => Numbered(e, n)
         /\ Sorted(s) => Sorted(e)
         /\ Above(s, n) => Above(e, n)
<1>1. Len(s) \in Nat /\ Len(e) \in Nat /\ Len(e) <= Len(s)
  BY DEF End
<1>2. \A k \in Last_(e) : k \in Last_(s) /\ Back(e, k) = Back(s, k)
  BY <1>1 DEF End, Last_
<1> QED
  BY <1>2 DEF Numbered, Sorted, Above

LEMMA AgreeSymmetric ==
  ASSUME NEW f \in Seq(Nat), NEW l \in Seq(Nat), NEW g, AgreeAfter(f, l, g)
  PROVE  AgreeAfter(l, f, g)
<1>1. Len(f) \in Nat /\ Len(l) \in Nat
  OBVIOUS
<1> SUFFICES ASSUME NEW k \in 0 .. Len(l) - 1, k < Len(f), Back(l, k) > g \/ Back(f, k) > g
             PROVE  Back(l, k) = Back(f, k)
  BY DEF AgreeAfter
<1>2. k \in 0 .. Len(f) - 1 /\ k < Len(l)
  BY <1>1
<1> QED
  BY <1>2 DEF AgreeAfter

LEMMA EndAgrees ==
  ASSUME NEW s \in Seq(Nat), NEW l \in Seq(Nat), NEW e, End(e, s), NEW g, AgreeAfter(s, l, g)
  PROVE  AgreeAfter(e, l, g)
<1>1. Len(s) \in Nat /\ Len(e) \in Nat /\ Len(l) \in Nat /\ Len(e) <= Len(s)
  BY DEF End
<1> SUFFICES ASSUME NEW k \in 0 .. Len(e) - 1, k < Len(l), Back(e, k) > g \/ Back(l, k) > g
             PROVE  Back(e, k) = Back(l, k)
  BY DEF AgreeAfter
<1>2. k \in 0 .. Len(s) - 1 /\ k \in Last_(e)
  BY <1>1 DEF Last_
<1>3. Back(e, k) = Back(s, k)
  BY <1>2 DEF End
<1> QED
  BY <1>2, <1>3 DEF AgreeAfter

\* There is nothing to agree on.
LEMMA NoneNewer ==
  ASSUME NEW f \in Seq(Nat), NEW l \in Seq(Nat), NEW g \in Nat, Numbered(f, g), Numbered(l, g)
  PROVE  AgreeAfter(f, l, g)
<1>1. Len(f) \in Nat /\ Len(l) \in Nat
  OBVIOUS
<1> SUFFICES ASSUME NEW k \in 0 .. Len(f) - 1, k < Len(l), Back(f, k) > g \/ Back(l, k) > g
             PROVE  FALSE
  BY DEF AgreeAfter
<1>2. k \in Last_(f) /\ k \in Last_(l)
  BY <1>1 DEF Last_
<1>3. Back(f, k) \in Nat /\ Back(f, k) <= g /\ Back(l, k) \in Nat /\ Back(l, k) <= g
  BY <1>2, BackType DEF Numbered
<1> QED
  BY <1>3

\* Nothing is in agreement with anything.
LEMMA EmptyFacts ==
  ASSUME NEW n
  PROVE  /\ <<>> \in Seq(Nat) /\ Len(<<>>) = 0
         /\ Numbered(<<>>, n) /\ Sorted(<<>>) /\ Above(<<>>, n)
         /\ \A l \in Seq(Nat) : \A g : AgreeAfter(<<>>, l, g) /\ AgreeAfter(l, <<>>, g)
<1>1. <<>> \in Seq(Nat) /\ Len(<<>>) = 0
  BY EmptySeq
<1>2. Last_(<<>>) = {} /\ 0 .. Len(<<>>) - 1 = {}
  BY <1>1 DEF Last_
<1>3. ASSUME NEW l \in Seq(Nat), NEW g PROVE AgreeAfter(<<>>, l, g) /\ AgreeAfter(l, <<>>, g)
  <2>1. AgreeAfter(<<>>, l, g)
    BY <1>2 DEF AgreeAfter
  <2> QED
    BY <1>1, <2>1, AgreeSymmetric
<1> QED
  BY <1>1, <1>2, <1>3 DEF Numbered, Sorted, Above

\* More lines were logged, or fewer are to be forgotten.
LEMMA Weaker ==
  ASSUME NEW s \in Seq(Nat), NEW m \in Nat, NEW n \in Nat, m <= n
  PROVE  Numbered(s, m) => Numbered(s, n)
<1>1. \A k \in Last_(s) : Back(s, k) \in Nat
  BY BackType
<1> QED
  BY <1>1 DEF Numbered

\* The first lines of a file.
LEMMA PrefixFacts ==
  ASSUME NEW s \in Seq(Nat), NEW m \in 0 .. Len(s), NEW q, q = SubSeq(s, 1, m), NEW n, NEW c
  PROVE  /\ q \in Seq(Nat) /\ Len(q) = m
         /\ Numbered(s, n) => Numbered(q, n)
         /\ Sorted(s) => Sorted(q)
         /\ Above(s, c) => Above(q, c)
<1>1. Len(s) \in Nat /\ m \in Nat /\ m <= Len(s)
  OBVIOUS
<1>2. /\ q \in Seq(Nat) /\ Len(q) = m
      /\ \A i \in 1 .. m : q[i] = s[i]
  <2>1. \A i \in 1 .. m : s[i] \in Nat
    BY <1>1
  <2>2. /\ SubSeq(s, 1, m) \in Seq(Nat)
        /\ Len(SubSeq(s, 1, m)) = IF 1 <= m THEN m - 1 + 1 ELSE 0
        /\ \A i \in 1 .. m - 1 + 1 : SubSeq(s, 1, m)[i] = s[1 + i - 1]
    BY <1>1, <2>1, SubSeqProperties
  <2>3. m - 1 + 1 = m /\ \A i \in 1 .. m : 1 + i - 1 = i
    BY <1>1
  <2>4. Len(q) = m
    BY <1>1, <2>2, <2>3
  <2>5. \A i \in 1 .. m : q[i] = s[i]
    BY <2>2, <2>3
  <2> QED
    BY <2>2, <2>4, <2>5
<1>3. \A k \in Last_(q) : k + (Len(s) - m) \in Last_(s) /\ Back(q, k) = Back(s, k + (Len(s) - m))
  <2> SUFFICES ASSUME NEW k \in Last_(q)
               PROVE  k + (Len(s) - m) \in Last_(s) /\ Back(q, k) = Back(s, k + (Len(s) - m))
    OBVIOUS
  <2>1. k \in 0 .. m - 1
    BY <1>2 DEF Last_
  <2>2. /\ m - k \in 1 .. m /\ Len(s) - (k + (Len(s) - m)) = m - k
        /\ k + (Len(s) - m) \in Last_(s)
    BY <1>1, <2>1 DEF Last_
  <2> QED
    BY <1>2, <2>2 DEF Back
<1>4. Sorted(s) => Sorted(q)
  <2> SUFFICES ASSUME Sorted(s), NEW j \in Last_(q), NEW k \in Last_(q), j < k
               PROVE  Back(q, k) < Back(q, j)
    BY DEF Sorted
  <2>1. j + (Len(s) - m) < k + (Len(s) - m)
    BY <1>1, <1>2 DEF Last_
  <2> QED
    BY <1>3, <2>1 DEF Sorted
<1> QED
  BY <1>2, <1>3, <1>4 DEF Numbered, Above

\* A new line.
LEMMA AppendFacts ==
  ASSUME NEW s \in Seq(Nat), NEW n \in Nat, Numbered(s, n), Sorted(s)
  PROVE  /\ Numbered(Append(s, n + 1), n + 1) /\ Sorted(Append(s, n + 1))
         /\ \A c \in Nat : c <= n /\ Above(s, c) => Above(Append(s, n + 1), c)
<1>9. n + 1 \in Nat
  OBVIOUS
<1>1. PICK a \in Seq(Nat) : a = Append(s, n + 1)
  BY <1>9, AppendBack
<1>2. /\ Len(a) = Len(s) + 1 /\ Back(a, 0) = n + 1 /\ Len(s) \in Nat
      /\ \A k \in 1 .. Len(s) : Back(a, k) = Back(s, k - 1)
  BY <1>1, <1>9, AppendBack
<1>3. \A k \in Last_(a) : k = 0 \/ (k \in 1 .. Len(s) /\ k - 1 \in Last_(s))
  BY <1>2 DEF Last_
<1>4. \A k \in Last_(s) : Back(s, k) \in Nat /\ Back(s, k) >= 1 /\ Back(s, k) <= n
  BY BackType DEF Numbered
<1>5. \A k \in Last_(a) :
        \/ k = 0 /\ Back(a, k) = n + 1
        \/ k \in 1 .. Len(s) /\ k - 1 \in Last_(s) /\ Back(a, k) = Back(s, k - 1)
  BY <1>2, <1>3
<1>6. Numbered(a, n + 1)
  BY <1>4, <1>5 DEF Numbered
<1>7. Sorted(a)
  <2> SUFFICES ASSUME NEW j \in Last_(a), NEW k \in Last_(a), j < k PROVE Back(a, k) < Back(a, j)
    BY DEF Sorted
  <2>1. k \in 1 .. Len(s) /\ k - 1 \in Last_(s) /\ Back(a, k) = Back(s, k - 1)
    BY <1>2, <1>5 DEF Last_
  <2>2. CASE j = 0
    BY <1>2, <1>4, <2>1, <2>2
  <2>3. CASE j \in 1 .. Len(s) /\ j - 1 \in Last_(s) /\ Back(a, j) = Back(s, j - 1)
    <3>1. j - 1 < k - 1
      BY <1>2, <2>1, <2>3
    <3> QED
      BY <2>1, <2>3, <3>1 DEF Sorted
  <2> QED
    BY <1>5, <2>2, <2>3
<1>8. ASSUME NEW c \in Nat, c <= n, Above(s, c) PROVE Above(a, c)
  BY <1>4, <1>5, <1>8 DEF Above
<1> QED
  BY <1>1, <1>6, <1>7, <1>8

\* A new line on the last one.
LEMMA JoinFacts ==
  ASSUME NEW s \in Seq(Nat), s # <<>>, NEW n \in Nat, Numbered(s, n), Sorted(s),
         NEW a, a = [s EXCEPT ![Len(s)] = n + 1]
  PROVE  /\ a \in Seq(Nat) /\ Len(a) = Len(s)
         /\ Numbered(a, n + 1) /\ Sorted(a)
         /\ \A c \in Nat : c <= n /\ Above(s, c) => Above(a, c)
<1>1. PICK m \in Nat : m = Len(s) /\ m >= 1
  <2>1. Len(s) \in Nat /\ Len(s) >= 1
    BY EmptySeq
  <2> QED
    BY <2>1
<1>2. PICK p \in Nat : p = n + 1
  OBVIOUS
<1>3. /\ a \in Seq(Nat) /\ Len(a) = m
      /\ \A i \in 1 .. m : a[i] = IF i = m THEN p ELSE s[i]
  <2>1. DOMAIN s = 1 .. m /\ \A i \in 1 .. m : s[i] \in Nat
    BY <1>1
  <2>2. a = [i \in 1 .. m |-> IF i = m THEN p ELSE s[i]]
    BY <1>1, <1>2, <2>1
  <2>3. a \in [1 .. m -> Nat]
    BY <1>2, <2>1, <2>2
  <2>4. a \in Seq(Nat) /\ Len(a) = m
    BY <2>3
  <2> QED
    BY <2>2, <2>4
<1>4. PICK b \in Seq(Nat) : b = a
  BY <1>3
<1>5. ASSUME NEW k \in Last_(b)
      PROVE  \/ k = 0 /\ Back(b, k) = p
             \/ k \in Last_(s) /\ Back(b, k) = Back(s, k)
  <2>1. k \in 0 .. m - 1 /\ Len(b) = m
    BY <1>3, <1>4 DEF Last_
  <2>2. CASE k = 0
    <3>1. Len(b) - k = m /\ m \in 1 .. m
      BY <1>1, <2>1, <2>2
    <3> QED
      BY <1>3, <1>4, <2>2, <3>1 DEF Back
  <2>3. CASE k # 0
    <3>1. /\ Len(b) - k = m - k /\ m - k \in 1 .. m /\ m - k # m
          /\ Len(s) - k = m - k /\ k \in Last_(s)
      BY <1>1, <2>1, <2>3 DEF Last_
    <3>2. b[m - k] = s[m - k]
      BY <1>3, <1>4, <3>1
    <3> QED
      BY <3>1, <3>2 DEF Back
  <2> QED
    BY <2>2, <2>3
<1>6. \A k \in Last_(s) : Back(s, k) \in Nat /\ Back(s, k) >= 1 /\ Back(s, k) <= n
  BY BackType DEF Numbered
<1>7. Numbered(b, p)
  BY <1>2, <1>5, <1>6 DEF Numbered
<1>8. Sorted(b)
  <2> SUFFICES ASSUME NEW j \in Last_(b), NEW k \in Last_(b), j < k PROVE Back(b, k) < Back(b, j)
    BY DEF Sorted
  <2>1. k # 0
    BY DEF Last_
  <2>2. k \in Last_(s) /\ Back(b, k) = Back(s, k)
    BY <1>5, <2>1
  <2>3. CASE j = 0 /\ Back(b, j) = p
    BY <1>2, <1>6, <2>2, <2>3
  <2>4. CASE j \in Last_(s) /\ Back(b, j) = Back(s, j)
    BY <2>2, <2>4 DEF Sorted
  <2> QED
    BY <1>5, <2>3, <2>4
<1>9. ASSUME NEW c \in Nat, c <= n, Above(s, c) PROVE Above(b, c)
  <2>1. c < p
    BY <1>2, <1>9
  <2> QED
    BY <1>5, <1>9, <2>1 DEF Above
<1> QED
  BY <1>1, <1>2, <1>3, <1>4, <1>7, <1>8, <1>9

LEMMA AppendAgrees ==
  ASSUME NEW f \in Seq(Nat), NEW l \in Seq(Nat), NEW p \in Nat, NEW g, AgreeAfter(f, l, g)
  PROVE  AgreeAfter(Append(f, p), Append(l, p), g)
<1>1. PICK a \in Seq(Nat) : a = Append(f, p)
  BY AppendBack
<1>2. PICK b \in Seq(Nat) : b = Append(l, p)
  BY AppendBack
<1>3. /\ Len(a) = Len(f) + 1 /\ Back(a, 0) = p /\ Len(f) \in Nat
      /\ \A k \in 1 .. Len(f) : Back(a, k) = Back(f, k - 1)
  BY <1>1, AppendBack
<1>4. /\ Len(b) = Len(l) + 1 /\ Back(b, 0) = p /\ Len(l) \in Nat
      /\ \A k \in 1 .. Len(l) : Back(b, k) = Back(l, k - 1)
  BY <1>2, AppendBack
<1>5. ASSUME NEW k \in 0 .. Len(a) - 1, k < Len(b), Back(a, k) > g \/ Back(b, k) > g
      PROVE  Back(a, k) = Back(b, k)
  <2>1. CASE k = 0
    BY <1>3, <1>4, <2>1
  <2>2. CASE k # 0
    <3>3. k \in Nat /\ k < Len(f) + 1 /\ k < Len(l) + 1
      BY <1>3, <1>4, <1>5
    <3>1. k \in 1 .. Len(f) /\ k \in 1 .. Len(l) /\ k - 1 \in 0 .. Len(f) - 1 /\ k - 1 < Len(l)
      <4>1. Len(f) \in Nat /\ Len(l) \in Nat
        BY <1>3, <1>4
      <4> QED
        BY <2>2, <3>3, <4>1
    <3>2. Back(a, k) = Back(f, k - 1) /\ Back(b, k) = Back(l, k - 1)
      BY <1>3, <1>4, <3>1
    <3>4. Back(f, k - 1) > g \/ Back(l, k - 1) > g
      BY <1>5, <3>2
    <3>5. Back(f, k - 1) = Back(l, k - 1)
      BY <3>1, <3>4 DEF AgreeAfter
    <3> QED
      BY <3>2, <3>5
  <2> QED
    BY <2>1, <2>2
<1> QED
  BY <1>1, <1>2, <1>5 DEF AgreeAfter

\* A line is pushed onto a buffer that may drop its oldest for it.
LEMMA PushFollows ==
  ASSUME NEW d \in Seq(Nat), NEW l \in Seq(Nat), NEW n \in Nat, Follows(d, l, n),
         NEW e, End(e, l), Len(l) - 1 <= Len(e), NEW p \in Nat, Numbered(d, p)
  PROVE  Follows(d, Append(e, p + 1), n + 1)
<1>1. e \in Seq(Nat) /\ Len(e) \in Nat /\ Len(l) \in Nat /\ Len(d) \in Nat /\ Len(e) <= Len(l)
  BY DEF End
<1>10. p + 1 \in Nat
  OBVIOUS
<1>2. PICK a \in Seq(Nat) : a = Append(e, p + 1)
  BY <1>1, <1>10, AppendBack
<1>3. /\ Len(a) = Len(e) + 1 /\ Back(a, 0) = p + 1
      /\ \A k \in 1 .. Len(e) : Back(a, k) = Back(e, k - 1)
  BY <1>1, <1>2, <1>10, AppendBack
<1> SUFFICES ASSUME n + 1 <= Len(a)
             PROVE  /\ Len(a) - (n + 1) <= Len(d)
                    /\ \A k \in n + 1 .. Len(a) - 1 : Back(a, k) = Back(d, k - (n + 1))
                    /\ \A k \in 0 .. n + 1 - 1, j \in Last_(d) : Back(d, j) < Back(a, k)
  BY <1>2 DEF Follows
<1>4. n <= Len(e) /\ n <= Len(l)
  BY <1>1, <1>3
<1>5. /\ Len(l) - n <= Len(d)
      /\ \A k \in n .. Len(l) - 1 : Back(l, k) = Back(d, k - n)
      /\ \A k \in 0 .. n - 1, j \in Last_(d) : Back(d, j) < Back(l, k)
  BY <1>4 DEF Follows
<1>6. \A k \in 1 .. Len(e) : k - 1 \in Last_(e) /\ Back(a, k) = Back(l, k - 1)
  <2> SUFFICES ASSUME NEW k \in 1 .. Len(e) PROVE k - 1 \in Last_(e) /\ Back(a, k) = Back(l, k - 1)
    OBVIOUS
  <2>1. k - 1 \in Last_(e)
    BY <1>1 DEF Last_
  <2> QED
    BY <1>3, <2>1 DEF End
<1>7. Len(a) - (n + 1) <= Len(d)
  BY <1>1, <1>3, <1>5
<1>8. ASSUME NEW k \in n + 1 .. Len(a) - 1 PROVE Back(a, k) = Back(d, k - (n + 1))
  <2>1. k \in 1 .. Len(e) /\ k - 1 \in n .. Len(l) - 1 /\ k - 1 - n = k - (n + 1)
    BY <1>1, <1>3
  <2> QED
    BY <1>5, <1>6, <2>1
<1>9. ASSUME NEW k \in 0 .. n + 1 - 1, NEW j \in Last_(d) PROVE Back(d, j) < Back(a, k)
  <2>1. CASE k = 0
    <3>1. Back(d, j) \in Nat /\ Back(d, j) <= p
      BY BackType DEF Numbered
    <3> QED
      BY <1>3, <2>1, <3>1
  <2>2. CASE k # 0
    <3>1. k \in 1 .. Len(e) /\ k - 1 \in 0 .. n - 1
      BY <1>4, <2>2
    <3> QED
      BY <1>5, <1>6, <3>1
  <2> QED
    BY <2>1, <2>2
<1> QED
  BY <1>7, <1>8, <1>9

\* The tab appends what it lacks.
LEMMA SpliceFollows ==
  ASSUME NEW d \in Seq(Nat), NEW l \in Seq(Nat), NEW n \in Nat, n <= Len(l), Follows(d, l, n),
         NEW e, End(e, l), Len(e) = n, Sorted(d), Sorted(l)
  PROVE  /\ d \o e \in Seq(Nat) /\ Sorted(d \o e) /\ Follows(d \o e, l, 0)
         /\ \A c : Above(d, c) /\ Above(l, c) => Above(d \o e, c)
         /\ \A c : Numbered(d, c) /\ Numbered(l, c) => Numbered(d \o e, c)
<1>1. e \in Seq(Nat) /\ Len(l) \in Nat /\ Len(d) \in Nat
  BY DEF End
<1>2. PICK a \in Seq(Nat) : a = d \o e
  BY <1>1, ConcatBack
<1>3. /\ Len(a) = Len(d) + n
      /\ \A k \in Last_(e) : Back(a, k) = Back(e, k)
      /\ \A k \in Last_(d) : Back(a, k + n) = Back(d, k)
  <2>1. /\ Len(d \o e) = Len(d) + Len(e)
        /\ \A k \in Last_(e) : Back(d \o e, k) = Back(e, k)
        /\ \A k \in Last_(d) : Back(d \o e, k + Len(e)) = Back(d, k)
    BY <1>1, ConcatBack
  <2> QED
    BY <1>2, <2>1
<1>4. /\ Len(l) - n <= Len(d)
      /\ \A k \in n .. Len(l) - 1 : Back(l, k) = Back(d, k - n)
      /\ \A k \in 0 .. n - 1, j \in Last_(d) : Back(d, j) < Back(l, k)
  BY DEF Follows
<1>5. ASSUME NEW k \in Last_(a)
      PROVE  \/ k \in 0 .. n - 1 /\ k \in Last_(l) /\ Back(a, k) = Back(l, k)
             \/ k >= n /\ k - n \in Last_(d) /\ Back(a, k) = Back(d, k - n)
  <2>1. CASE k < n
    <3>1. k \in 0 .. n - 1 /\ k \in Last_(l) /\ k \in Last_(e)
      BY <1>1, <2>1 DEF Last_
    <3> QED
      BY <1>3, <3>1 DEF End
  <2>2. CASE ~(k < n)
    <3>1. k >= n /\ k - n \in Last_(d) /\ k - n + n = k
      BY <1>1, <1>3, <2>2 DEF Last_
    <3>2. Back(a, k - n + n) = Back(d, k - n)
      BY <1>3, <3>1
    <3> QED
      BY <3>1, <3>2
  <2> QED
    BY <2>1, <2>2
<1>6. Sorted(a)
  <2> SUFFICES ASSUME NEW j \in Last_(a), NEW k \in Last_(a), j < k PROVE Back(a, k) < Back(a, j)
    BY DEF Sorted
  <2>1. j \in Nat /\ k \in Nat
    BY <1>1, <1>3 DEF Last_
  <2>2. CASE k \in 0 .. n - 1
    <3>1. /\ k \in Last_(l) /\ Back(a, k) = Back(l, k)
          /\ j \in Last_(l) /\ Back(a, j) = Back(l, j)
      BY <1>5, <2>1, <2>2
    <3> QED
      BY <3>1 DEF Sorted
  <2>3. CASE k >= n
    <3>1. k - n \in Last_(d) /\ Back(a, k) = Back(d, k - n)
      BY <1>5, <2>3
    <3>2. CASE j \in 0 .. n - 1
      <4>1. Back(a, j) = Back(l, j)
        BY <1>5, <3>2
      <4> QED
        BY <1>4, <3>1, <3>2, <4>1
    <3>3. CASE j >= n
      <4>1. j - n \in Last_(d) /\ Back(a, j) = Back(d, j - n) /\ j - n < k - n
        BY <1>5, <2>1, <3>3
      <4> QED
        BY <3>1, <4>1 DEF Sorted
    <3> QED
      BY <2>1, <3>2, <3>3
  <2> QED
    BY <2>1, <2>2, <2>3
<1>7. Follows(a, l, 0)
  <2>1. Len(l) - 0 <= Len(a)
    BY <1>1, <1>3, <1>4
  <2>2. ASSUME NEW k \in 0 .. Len(l) - 1 PROVE Back(l, k) = Back(a, k - 0)
    <3>1. k \in Last_(a) /\ k - 0 = k
      BY <1>1, <1>3, <1>4 DEF Last_
    <3>2. CASE k \in 0 .. n - 1
      BY <1>5, <3>1, <3>2
    <3>3. CASE k >= n
      <4>1. Back(a, k) = Back(d, k - n) /\ k \in n .. Len(l) - 1
        BY <1>5, <3>1, <3>3
      <4> QED
        BY <1>4, <3>1, <4>1
    <3> QED
      BY <3>2, <3>3
  <2> QED
    BY <2>1, <2>2 DEF Follows
<1>8. ASSUME NEW c, Above(d, c), Above(l, c) PROVE Above(a, c)
  BY <1>5, <1>8 DEF Above
<1>9. ASSUME NEW c, Numbered(d, c), Numbered(l, c) PROVE Numbered(a, c)
  BY <1>5, <1>9 DEF Numbered
<1> QED
  BY <1>2, <1>6, <1>7, <1>8, <1>9

LEMMA ShowFollows ==
  ASSUME NEW l \in Seq(Nat)
  PROVE  Follows(l, l, 0)
<1>1. Len(l) \in Nat /\ \A k \in 0 .. Len(l) - 1 : k - 0 = k
  OBVIOUS
<1> QED
  BY <1>1 DEF Follows

-----------------------------------------------------------------------------
(* What the code takes of a sequence.                                       *)

\* The newest lines, and the newer half of the file.
LEMMA NewestIsEnd ==
  ASSUME NEW s \in Seq(Nat), NEW n \in Nat
  PROVE  /\ End(Newest(s, n), s)
         /\ Len(Newest(s, n)) = IF n <= Len(s) THEN n ELSE Len(s)
<1>1. Len(s) \in Nat
  OBVIOUS
<1>2. PICK m \in 0 .. Len(s) : m = IF n <= Len(s) THEN n ELSE Len(s)
  BY <1>1
<1>3. Len(s) - m = Minus(Len(s), n)
  <2>1. CASE n < Len(s)
    <3>1. m = n /\ Len(s) > n
      BY <1>1, <1>2, <2>1
    <3> QED
      BY <3>1 DEF Minus
  <2>2. CASE ~(n < Len(s))
    <3>1. Len(s) - m = 0 /\ ~(Len(s) > n)
      BY <1>1, <1>2, <2>2
    <3> QED
      BY <3>1 DEF Minus
  <2> QED
    BY <2>1, <2>2
<1>4. Newest(s, n) = SubSeq(s, Len(s) - m + 1, Len(s))
  BY <1>3 DEF Newest
<1>5. PICK e : e = Newest(s, n)
  OBVIOUS
<1>6. e \in Seq(Nat) /\ Len(e) = m /\ \A k \in 0 .. m - 1 : Back(e, k) = Back(s, k)
  BY <1>4, <1>5, EndBack
<1> QED
  BY <1>1, <1>2, <1>5, <1>6 DEF End, Last_

LEMMA HalfIsEnd ==
  ASSUME NEW f \in Seq(Nat)
  PROVE  End(NewerHalf(f), f) /\ Len(NewerHalf(f)) = Len(f) - Len(f) \div 2
<1>1. Len(f) \in Nat /\ Len(f) \div 2 \in 0 .. Len(f)
  OBVIOUS
<1>2. PICK m \in 0 .. Len(f) : m = Len(f) - Len(f) \div 2
  <2>1. Len(f) - Len(f) \div 2 \in 0 .. Len(f)
    BY <1>1
  <2> QED
    BY <2>1
<1>3. Len(f) - m = Len(f) \div 2
  BY <1>1, <1>2
<1>4. NewerHalf(f) = SubSeq(f, Len(f) - m + 1, Len(f))
  BY <1>3 DEF NewerHalf
<1>5. PICK e : e = NewerHalf(f)
  OBVIOUS
<1>6. e \in Seq(Nat) /\ Len(e) = m /\ \A k \in 0 .. m - 1 : Back(e, k) = Back(f, k)
  BY <1>4, <1>5, EndBack
<1> QED
  BY <1>1, <1>2, <1>5, <1>6 DEF End, Last_

\* What is left of the buffer for the next line.
Room(l) == IF Len(l) = Capacity THEN Tail(l) ELSE l

LEMMA RoomIsEnd ==
  ASSUME NEW l \in Seq(Nat), Len(l) <= Capacity
  PROVE  End(Room(l), l) /\ Len(l) - 1 <= Len(Room(l)) /\ Len(Room(l)) + 1 <= Capacity
<1>1. Len(l) \in Nat /\ Capacity \in Nat /\ Capacity >= 1
  BY LogAssumption DEF LogAssumption
<1>2. CASE Len(l) = Capacity
  <2>1. l # <<>>
    BY <1>1, <1>2, EmptySeq
  <2>2. PICK e : e = Tail(l)
    OBVIOUS
  <2>3. e \in Seq(Nat) /\ Len(e) = Len(l) - 1 /\ \A k \in 0 .. Len(l) - 2 : Back(e, k) = Back(l, k)
    BY <2>1, <2>2, TailBack
  <2>4. Room(l) = e
    BY <1>2, <2>2 DEF Room
  <2> QED
    BY <1>1, <1>2, <2>3, <2>4 DEF End, Last_
<1>3. CASE Len(l) # Capacity
  BY <1>1, <1>3 DEF Room, End
<1> QED
  BY <1>2, <1>3


-----------------------------------------------------------------------------
(* The invariant of the buffer and its file.                                *)

TypeInv ==
  /\ lines \in Seq(Nat) /\ Len(lines) <= Capacity /\ file \in Seq(Nat)
  /\ version \in Nat /\ unchecked \in Nat /\ size \in Nat /\ left \in Nat
  /\ pushed \in Nat /\ cleared \in Nat /\ cleared <= pushed
  /\ emptied \in Nat /\ emptied <= pushed
  /\ torn \in BOOLEAN

LinesInv == Numbered(lines, pushed) /\ Sorted(lines) /\ Above(lines, cleared)

FileInv ==
  /\ Numbered(file, pushed) /\ Sorted(file) /\ Above(file, emptied)
  /\ torn => file # <<>>
  /\ persisting => AgreeAfter(file, lines, gap)

\* Between checks the file grows by what they do not look at.
SizeInv ==
  /\ size < Larger(FileLimit, left) + CheckEvery + Longest
  /\ persisting /\ unchecked < CheckEvery =>
       size <= Larger(FileLimit, left) + Longest + unchecked

BufInv == TypeInv /\ LinesInv /\ FileInv /\ SizeInv

LEMMA Constants ==
  /\ Capacity \in Nat /\ Capacity >= 1 /\ CheckEvery \in Nat /\ CheckEvery >= 1
  /\ Longest \in Nat /\ Longest >= 1
  /\ FileLimit \in Nat /\ FileLimit >= CheckEvery
  BY LogAssumption DEF LogAssumption

LEMMA LargerFacts ==
  ASSUME NEW a \in Nat, NEW b \in Nat
  PROVE  Larger(a, b) \in Nat /\ Larger(a, b) >= a /\ Larger(a, b) >= b
  BY DEF Larger

LEMMA BufferInitInv == BufferInit => BufInv
<1> SUFFICES ASSUME BufferInit PROVE BufInv
  OBVIOUS
<1>1. /\ lines = <<>> /\ file = <<>> /\ version = 0 /\ size = 0 /\ left = 0 /\ torn = FALSE
      /\ unchecked = (IF persisting THEN FileLimit ELSE 0)
      /\ pushed = 0 /\ cleared = 0 /\ emptied = 0
  BY DEF BufferInit
<1>2. unchecked \in Nat /\ (persisting => ~(unchecked < CheckEvery))
  BY <1>1, Constants
<1>3. TypeInv
  <2>1. <<>> \in Seq(Nat) /\ Len(<<>>) <= Capacity
    BY EmptyFacts, Constants
  <2>2. torn \in BOOLEAN
    BY <1>1
  <2> QED
    BY <1>1, <1>2, <2>1, <2>2 DEF TypeInv
<1>4. LinesInv /\ FileInv
  BY <1>1, EmptyFacts DEF LinesInv, FileInv
<1>5. SizeInv
  <2>1. size < Larger(FileLimit, left) + CheckEvery + Longest
    BY <1>1, Constants DEF Larger
  <2> QED
    BY <1>2, <2>1 DEF SizeInv
<1> QED
  BY <1>3, <1>4, <1>5 DEF BufInv

-----------------------------------------------------------------------------
(* A line is logged.                                                        *)

\* What it does to the buffer.
LEMMA PushLines ==
  ASSUME BufInv, NEW l, l = Append(Room(lines), pushed + 1)
  PROVE  /\ l \in Seq(Nat) /\ Len(l) <= Capacity
         /\ Numbered(l, pushed + 1) /\ Sorted(l) /\ Above(l, cleared)
<1>1. /\ lines \in Seq(Nat) /\ Len(lines) <= Capacity
      /\ pushed \in Nat /\ cleared \in Nat /\ cleared <= pushed
  BY DEF BufInv, TypeInv
<1>2. PICK r : r = Room(lines)
  OBVIOUS
<1>3. End(r, lines) /\ Len(r) + 1 <= Capacity
  BY <1>1, <1>2, RoomIsEnd
<1>4. PICK p \in Nat : p = pushed
  BY <1>1
<1>5. r \in Seq(Nat) /\ Numbered(r, p) /\ Sorted(r) /\ Above(r, cleared)
  <2>1. Numbered(lines, p) /\ Sorted(lines) /\ Above(lines, cleared)
    BY <1>4 DEF BufInv, LinesInv
  <2>2. Numbered(r, p) /\ Sorted(r) /\ Above(r, cleared)
    BY <1>1, <1>3, <2>1, EndFacts
  <2> QED
    BY <1>3, <2>2 DEF End
<1>6. l = Append(r, p + 1)
  BY <1>2, <1>4
<1>7. l \in Seq(Nat) /\ Len(l) = Len(r) + 1
  <2>1. p + 1 \in Nat
    OBVIOUS
  <2> QED
    BY <1>5, <1>6, <2>1, AppendBack
<1>8. Numbered(l, p + 1) /\ Sorted(l) /\ Above(l, cleared)
  BY <1>1, <1>4, <1>5, <1>6, AppendFacts
<1> QED
  BY <1>3, <1>4, <1>7, <1>8

\* R is what a push may find when it comes to append its line: a whole file, as
\* far as it goes, of which half is gone if it was due.
Sound(r, b) ==
  /\ r.lines \in Seq(Nat)
  /\ Numbered(r.lines, pushed) /\ Sorted(r.lines) /\ Above(r.lines, emptied)
  /\ r.torn \in BOOLEAN /\ (r.torn => r.lines # <<>>)
  /\ r.size \in Nat /\ r.left \in Nat
  /\ CheckDue(b) => r.size <= Larger(FileLimit, r.left)
  /\ ~CheckDue(b) => r.size = size /\ r.left = left
  /\ r.gap = pushed + 1 \/ AgreeAfter(r.lines, lines, r.gap)

LEMMA CheckedFacts ==
  ASSUME BufInv, persisting, NEW b \in Nat, NEW r \in Checked(b)
  PROVE  Sound(r, b)
<1>1. /\ file \in Seq(Nat) /\ lines \in Seq(Nat) /\ size \in Nat /\ left \in Nat /\ torn \in BOOLEAN
      /\ Numbered(file, pushed) /\ Sorted(file) /\ Above(file, emptied)
      /\ torn => file # <<>>
      /\ AgreeAfter(file, lines, gap)
  BY DEF BufInv, TypeInv, FileInv
<1>2. PICK h : h = NewerHalf(file)
  OBVIOUS
<1>3. /\ h \in Seq(Nat) /\ Len(h) \in Nat
      /\ Numbered(h, pushed) /\ Sorted(h) /\ Above(h, emptied)
      /\ AgreeAfter(h, lines, gap)
  <2>1. End(h, file)
    BY <1>1, <1>2, HalfIsEnd
  <2>2. h \in Seq(Nat)
    BY <2>1 DEF End
  <2>3. Len(h) \in Nat
    BY <2>2
  <2>4. Numbered(h, pushed) /\ Sorted(h) /\ Above(h, emptied)
    BY <1>1, <2>1, EndFacts
  <2> QED
    BY <1>1, <2>1, <2>2, <2>3, <2>4, EndAgrees
<1>4. CASE r = Found /\ ~TrimDue(b)
  <2>1. r.lines = file /\ r.torn = torn /\ r.size = size /\ r.gap = gap /\ r.left = left
    BY <1>4 DEF Found
  <2>2. CheckDue(b) => size <= FileLimit
    BY <1>1, <1>4, Constants DEF TrimDue
  <2>3. CheckDue(b) => size <= Larger(FileLimit, left)
    <3>1. Larger(FileLimit, left) \in Nat /\ Larger(FileLimit, left) >= FileLimit
      BY <1>1, LargerFacts, Constants
    <3> QED
      BY <1>1, <2>2, <3>1, Constants
  <2>4. AgreeAfter(r.lines, lines, r.gap)
    BY <1>1, <2>1
  <2>5. r.torn \in BOOLEAN /\ (r.torn => r.lines # <<>>)
    BY <1>1, <2>1
  <2>6. /\ CheckDue(b) => r.size <= Larger(FileLimit, r.left)
        /\ ~CheckDue(b) => r.size = size /\ r.left = left
    BY <2>1, <2>3
  <2> QED
    BY <1>1, <2>1, <2>4, <2>5, <2>6 DEF Sound
<1>5. CASE TrimDue(b) /\ r \in Halved
  <2>1. PICK s \in Len(h) .. size - Len(file) \div 2 + (IF torn THEN 1 ELSE 0) :
          r = [lines |-> h, torn |-> FALSE, size |-> s, gap |-> gap, left |-> s]
    BY <1>2, <1>5 DEF Halved
  <2>2. r.lines = h /\ r.torn = FALSE /\ r.size = s /\ r.gap = gap /\ r.left = s
    BY <2>1
  <2>3. s \in Nat
    BY <1>3, <2>1
  <2>4. s <= Larger(FileLimit, s)
    BY <2>3, LargerFacts, Constants
  <2> QED
    BY <1>3, <1>5, <2>2, <2>3, <2>4 DEF Sound, TrimDue
<1>6. CASE TrimDue(b) /\ r = Untrimmed
  <2>1. r.lines = file /\ r.torn = torn /\ r.size = size /\ r.gap = gap /\ r.left = size
    BY <1>6 DEF Untrimmed, Found
  <2>2. size <= Larger(FileLimit, size)
    BY <1>1, LargerFacts, Constants
  <2> QED
    BY <1>1, <1>6, <2>1, <2>2 DEF Sound, TrimDue
<1>7. CASE TrimDue(b) /\ r \in Cut
  <2>1. PICK n \in 0 .. Len(h), t \in BOOLEAN, s \in 0 .. size :
          r = [lines |-> SubSeq(h, 1, n), torn |-> t /\ n > 0,
               size |-> IF n = 0 THEN 0 ELSE Larger(n, s), gap |-> pushed + 1,
               left |-> IF n = 0 THEN 0 ELSE Larger(n, s)]
    BY <1>2, <1>7 DEF Cut
  <2>2. PICK q : q = SubSeq(h, 1, n)
    OBVIOUS
  <2>3. PICK z : z = IF n = 0 THEN 0 ELSE Larger(n, s)
    OBVIOUS
  <2>4. /\ r.lines = q /\ r.torn = (t /\ n > 0) /\ r.size = z /\ r.gap = pushed + 1 /\ r.left = z
    BY <2>1, <2>2, <2>3
  <2>5. /\ q \in Seq(Nat) /\ Len(q) = n
        /\ Numbered(q, pushed) /\ Sorted(q) /\ Above(q, emptied)
    BY <1>3, <2>2, PrefixFacts
  <2>6. z \in Nat
    <3>1. n \in Nat /\ s \in Nat
      BY <1>1, <1>3
    <3> QED
      BY <2>3, <3>1, LargerFacts
  <2>7. z <= Larger(FileLimit, z)
    BY <2>6, LargerFacts, Constants
  <2>8. r.torn \in BOOLEAN /\ (r.torn => q # <<>>)
    <3>1. n > 0 => q # <<>>
      BY <2>5, EmptyFacts
    <3> QED
      BY <2>4, <3>1
  <2>9. CheckDue(b)
    BY <1>7 DEF TrimDue
  <2> QED
    BY <2>4, <2>5, <2>6, <2>7, <2>8, <2>9 DEF Sound
<1> QED
  BY <1>4, <1>5, <1>6, <1>7 DEF Checked

\* What the file holds with the line on it, or with the part that was written.
LEMMA JoinedFacts ==
  ASSUME BufInv, NEW b, NEW r, Sound(r, b), NEW j, j = Joined(r)
  PROVE  /\ j \in Seq(Nat) /\ j # <<>>
         /\ Numbered(j, pushed + 1) /\ Sorted(j) /\ Above(j, emptied)
         /\ ~r.torn => j = Append(r.lines, pushed + 1)
<1>1. PICK p \in Nat : p = pushed /\ emptied \in Nat /\ emptied <= p
  BY DEF BufInv, TypeInv
<1>2. PICK s : s = r.lines
  OBVIOUS
<1>3. s \in Seq(Nat) /\ Numbered(s, p) /\ Sorted(s) /\ Above(s, emptied) /\ (r.torn => s # <<>>)
  BY <1>1, <1>2 DEF Sound
<1>4. p + 1 \in Nat
  OBVIOUS
<1>5. CASE r.torn
  <2>1. j = [s EXCEPT ![Len(s)] = p + 1]
    BY <1>1, <1>2, <1>5 DEF Joined
  <2>2. /\ j \in Seq(Nat) /\ Len(j) = Len(s)
        /\ Numbered(j, p + 1) /\ Sorted(j)
        /\ \A c \in Nat : c <= p /\ Above(s, c) => Above(j, c)
    BY <1>3, <1>5, <2>1, JoinFacts
  <2>3. j # <<>>
    <3>1. Len(s) # 0
      BY <1>3, <1>5, EmptySeq
    <3> QED
      BY <2>2, <3>1, EmptyFacts
  <2> QED
    BY <1>1, <1>3, <1>5, <2>2, <2>3
<1>6. CASE ~r.torn
  <2>1. j = Append(s, p + 1)
    BY <1>1, <1>2, <1>6 DEF Joined
  <2>2. j \in Seq(Nat) /\ Len(j) = Len(s) + 1 /\ Len(s) \in Nat
    BY <1>3, <1>4, <2>1, AppendBack
  <2>3. j # <<>>
    BY <2>2, EmptyFacts
  <2>4. Numbered(j, p + 1) /\ Sorted(j) /\ Above(j, emptied)
    BY <1>1, <1>3, <2>1, AppendFacts
  <2> QED
    BY <1>1, <1>2, <2>1, <2>2, <2>3, <2>4
<1> QED
  BY <1>5, <1>6

LEMMA PushInv ==
  ASSUME BufInv, NEW b \in 1 .. Longest, Push(b)
  PROVE  BufInv'
<1>1. /\ persisting
      /\ lines' = Append(Room(lines), pushed + 1)
      /\ version' = version + 1 /\ pushed' = pushed + 1
      /\ unchecked' = (IF CheckDue(b) THEN 0 ELSE unchecked + b)
      /\ UNCHANGED <<cleared, emptied>>
  BY DEF Push, Remember, Room
<1>2. b \in Nat /\ b >= 1 /\ b <= Longest
  BY Constants
<1>3. PICK r \in Checked(b) : Written(r, b) \/ Unwritten(r, b)
  BY DEF Push
<1>4. Sound(r, b)
  BY <1>1, <1>2, CheckedFacts
<1>5. /\ lines \in Seq(Nat) /\ Len(lines) <= Capacity /\ version \in Nat /\ unchecked \in Nat
      /\ size \in Nat /\ left \in Nat /\ pushed \in Nat
      /\ cleared \in Nat /\ cleared <= pushed /\ emptied \in Nat /\ emptied <= pushed
  BY DEF BufInv, TypeInv
<1>6. PICK j : j = Joined(r)
  OBVIOUS
<1>7. /\ j \in Seq(Nat) /\ j # <<>>
      /\ Numbered(j, pushed + 1) /\ Sorted(j) /\ Above(j, emptied)
      /\ ~r.torn => j = Append(r.lines, pushed + 1)
  BY <1>4, <1>6, JoinedFacts
<1>8. /\ lines' \in Seq(Nat) /\ Len(lines') <= Capacity
      /\ Numbered(lines', pushed + 1) /\ Sorted(lines') /\ Above(lines', cleared)
  <2>1. PICK l : l = Append(Room(lines), pushed + 1)
    OBVIOUS
  <2>2. /\ l \in Seq(Nat) /\ Len(l) <= Capacity
        /\ Numbered(l, pushed + 1) /\ Sorted(l) /\ Above(l, cleared)
    BY <2>1, PushLines
  <2> QED
    BY <1>1, <2>1, <2>2
<1>9. /\ unchecked' \in Nat /\ version' \in Nat /\ pushed' \in Nat
      /\ cleared' \in Nat /\ cleared' <= pushed' /\ emptied' \in Nat /\ emptied' <= pushed'
  BY <1>1, <1>2, <1>5
<1>10. LinesInv'
  BY <1>1, <1>8 DEF LinesInv
\* The file without its size.
<1>11. /\ file' \in Seq(Nat) /\ torn' \in BOOLEAN
       /\ Numbered(file', pushed') /\ Sorted(file') /\ Above(file', emptied')
       /\ torn' => file' # <<>>
       /\ persisting' => AgreeAfter(file', lines', gap')
  <2>1. CASE Written(r, b)
    <3>1. file' = j /\ torn' = FALSE /\ gap' = IF r.torn THEN pushed + 1 ELSE r.gap
      BY <1>6, <2>1 DEF Written
    <3>2. PICK p \in Nat : p = pushed + 1
      BY <1>5
    <3>3. CASE gap' = pushed + 1
      <4>1. AgreeAfter(file', lines', p)
        <5>1. PICK l \in Seq(Nat) : l = lines'
          BY <1>8
        <5>2. Numbered(j, p) /\ Numbered(l, p)
          BY <1>7, <1>8, <3>2, <5>1
        <5>3. AgreeAfter(j, l, p)
          BY <1>7, <5>2, NoneNewer
        <5> QED
          BY <3>1, <5>1, <5>3
      <4> QED
        BY <1>1, <1>7, <3>1, <3>2, <3>3, <4>1
    <3>4. CASE gap' # pushed + 1
      <4>1. ~r.torn /\ gap' = r.gap /\ r.gap # pushed + 1
        BY <3>1, <3>4
      <4>2. AgreeAfter(r.lines, lines, r.gap) /\ r.lines \in Seq(Nat)
        BY <1>4, <4>1 DEF Sound
      <4>3. PICK m : m = Room(lines)
        OBVIOUS
      <4>4. End(m, lines)
        BY <1>5, <4>3, RoomIsEnd
      <4>5. m \in Seq(Nat)
        BY <4>4 DEF End
      <4>6. PICK f \in Seq(Nat) : f = r.lines
        BY <4>2
      <4>7. PICK g : g = r.gap
        OBVIOUS
      <4>8. AgreeAfter(f, m, g)
        <5>1. AgreeAfter(lines, f, g)
          BY <1>5, <4>2, <4>6, <4>7, AgreeSymmetric
        <5>2. AgreeAfter(m, f, g)
          BY <1>5, <4>4, <5>1, EndAgrees
        <5> QED
          BY <4>5, <5>2, AgreeSymmetric
      <4>9. AgreeAfter(Append(f, p), Append(m, p), g)
        BY <4>5, <4>8, AppendAgrees
      <4>10. file' = Append(f, p) /\ lines' = Append(m, p) /\ gap' = g
        BY <1>1, <1>7, <3>1, <3>2, <4>1, <4>3, <4>6, <4>7
      <4>11. AgreeAfter(file', lines', gap')
        BY <4>9, <4>10
      <4> QED
        BY <1>1, <1>7, <3>1, <4>11
    <3> QED
      BY <3>3, <3>4
  <2>2. CASE Unwritten(r, b)
    <3>1. persisting' = FALSE
      BY <2>2 DEF Unwritten
    <3>2. CASE file' = r.lines /\ torn' = r.torn
      <4>1. PICK f \in Seq(Nat) : f = r.lines
        BY <1>4 DEF Sound
      <4>2. Numbered(f, pushed) /\ Sorted(f) /\ Above(f, emptied) /\ r.torn \in BOOLEAN
            /\ (r.torn => f # <<>>)
        BY <1>4, <4>1 DEF Sound
      <4>3. Numbered(f, pushed + 1)
        BY <1>5, <4>2, Weaker
      <4> QED
        BY <1>1, <3>1, <3>2, <4>1, <4>2, <4>3
    <3>3. CASE file' = j /\ torn' = TRUE
      BY <1>1, <1>7, <3>1, <3>3
    <3> QED
      BY <1>6, <2>2, <3>2, <3>3 DEF Unwritten
  <2> QED
    BY <1>3, <2>1, <2>2
\* Its size.
<1>12. /\ left' = r.left /\ r.left \in Nat /\ r.size \in Nat
       /\ size' \in Nat /\ size' <= r.size + b
  <2>1. r.left \in Nat /\ r.size \in Nat
    BY <1>4 DEF Sound
  <2>2. left' = r.left
    BY <1>3 DEF Written, Unwritten
  <2>3. size' = r.size + b \/ size' = r.size \/ \E part \in 1 .. b - 1 : size' = r.size + part
    BY <1>3 DEF Written, Unwritten
  <2> QED
    BY <1>2, <2>1, <2>2, <2>3
<1>13. PICK top \in Nat : top = Larger(FileLimit, left')
  BY <1>12, LargerFacts, Constants
<1>14. SizeInv'
  <2>1. CASE CheckDue(b)
    <3>1. r.size <= top /\ unchecked' = 0
      BY <1>1, <1>4, <1>12, <1>13, <2>1 DEF Sound
    <3>2. size' < top + CheckEvery + Longest /\ size' <= top + Longest + unchecked'
      BY <1>2, <1>12, <3>1, Constants
    <3> QED
      BY <1>13, <3>2 DEF SizeInv
  <2>2. CASE ~CheckDue(b)
    <3>1. r.size = size /\ r.left = left /\ unchecked' = unchecked + b
      BY <1>1, <1>4, <2>2 DEF Sound
    <3>2. unchecked + b < CheckEvery /\ unchecked < CheckEvery
      BY <1>2, <1>5, <2>2, Constants DEF CheckDue
    <3>3. size <= top + Longest + unchecked
      BY <1>1, <1>12, <1>13, <3>1, <3>2 DEF BufInv, SizeInv
    <3>4. size' < top + CheckEvery + Longest /\ size' <= top + Longest + unchecked'
      BY <1>2, <1>5, <1>12, <3>1, <3>2, <3>3, Constants
    <3> QED
      BY <1>13, <3>4 DEF SizeInv
  <2> QED
    BY <2>1, <2>2
<1>15. TypeInv'
  BY <1>8, <1>9, <1>11, <1>12 DEF TypeInv
<1>16. FileInv'
  BY <1>11 DEF FileInv
<1> QED
  BY <1>10, <1>14, <1>15, <1>16 DEF BufInv

LEMMA PushMemoryOnlyInv ==
  ASSUME BufInv, PushMemoryOnly
  PROVE  BufInv'
<1>1. /\ ~persisting /\ lines' = Append(Room(lines), pushed + 1)
      /\ version' = version + 1 /\ pushed' = pushed + 1
      /\ UNCHANGED <<persisting, unchecked, file, torn, size, gap, left, cleared, emptied>>
  BY DEF PushMemoryOnly, Remember, Room, disk
<1>2. PICK l : l = Append(Room(lines), pushed + 1)
  OBVIOUS
<1>3. /\ l \in Seq(Nat) /\ Len(l) <= Capacity
      /\ Numbered(l, pushed + 1) /\ Sorted(l) /\ Above(l, cleared)
  BY <1>2, PushLines
<1>4. TypeInv /\ version' \in Nat /\ pushed' \in Nat /\ cleared <= pushed' /\ emptied <= pushed'
  BY <1>1 DEF BufInv, TypeInv
<1>5. TypeInv'
  BY <1>1, <1>2, <1>3, <1>4 DEF TypeInv
<1>6. LinesInv'
  BY <1>1, <1>2, <1>3 DEF LinesInv
<1>7. FileInv'
  <2>1. FileInv /\ pushed \in Nat /\ file \in Seq(Nat)
    BY DEF BufInv, TypeInv
  <2>2. Numbered(file, pushed + 1)
    BY <2>1, Weaker DEF FileInv
  <2> QED
    BY <1>1, <2>1, <2>2 DEF FileInv
<1>8. SizeInv'
  BY <1>1 DEF BufInv, SizeInv
<1> QED
  BY <1>5, <1>6, <1>7, <1>8 DEF BufInv

LEMMA ClearInv ==
  ASSUME BufInv, Clear
  PROVE  BufInv'
<1>1. /\ lines' = <<>> /\ version' = version + 1 /\ unchecked' = 0 /\ cleared' = pushed
      /\ UNCHANGED <<persisting, pushed, gap>>
  BY DEF Clear
<1>2. \/ /\ persisting
         /\ file' = <<>> /\ torn' = FALSE /\ size' = 0 /\ left' = 0 /\ emptied' = pushed
      \/ persisting /\ left' = size /\ UNCHANGED <<file, torn, size, emptied>>
      \/ ~persisting /\ UNCHANGED <<file, torn, size, left, emptied>>
  BY DEF Clear
<1>3. TypeInv /\ FileInv /\ SizeInv
  BY DEF BufInv
<1>4. /\ lines' \in Seq(Nat) /\ Len(lines') <= Capacity
      /\ version' \in Nat /\ unchecked' \in Nat /\ pushed' \in Nat
      /\ cleared' \in Nat /\ cleared' <= pushed'
  <2>1. <<>> \in Seq(Nat) /\ Len(<<>>) <= Capacity
    BY EmptyFacts, Constants
  <2> QED
    BY <1>1, <1>3, <2>1 DEF TypeInv
<1>5. LinesInv'
  BY <1>1, EmptyFacts DEF LinesInv
<1>6. file' \in Seq(Nat) => (persisting' => AgreeAfter(file', lines', gap'))
  BY <1>1, EmptyFacts
<1>7. CASE /\ persisting
           /\ file' = <<>> /\ torn' = FALSE /\ size' = 0 /\ left' = 0 /\ emptied' = pushed
  <2>1. <<>> \in Seq(Nat) /\ Numbered(<<>>, pushed) /\ Sorted(<<>>) /\ Above(<<>>, pushed)
    BY EmptyFacts
  <2>2. torn' \in BOOLEAN
    BY <1>7
  <2>7. emptied' \in Nat /\ emptied' <= pushed'
    BY <1>1, <1>3, <1>7 DEF TypeInv
  <2>3. TypeInv'
    BY <1>4, <1>7, <2>1, <2>2, <2>7 DEF TypeInv
  <2>4. FileInv'
    BY <1>1, <1>6, <1>7, <2>1 DEF FileInv
  <2>5. PICK top \in Nat : top = Larger(FileLimit, left')
    BY <1>7, LargerFacts, Constants
  <2>6. SizeInv'
    BY <1>1, <1>7, <2>5, Constants DEF SizeInv
  <2> QED
    BY <1>5, <2>3, <2>4, <2>6 DEF BufInv
<1>8. CASE persisting /\ left' = size /\ UNCHANGED <<file, torn, size, emptied>>
  <2>3. TypeInv'
    BY <1>1, <1>3, <1>4, <1>8 DEF TypeInv
  <2>4. FileInv'
    BY <1>1, <1>3, <1>6, <1>8, <2>3 DEF FileInv, TypeInv
  <2>5. PICK top \in Nat : top = Larger(FileLimit, left') /\ size' <= top /\ size' \in Nat
    <3>1. size' \in Nat /\ left' = size'
      BY <1>3, <1>8 DEF TypeInv
    <3>2. Larger(FileLimit, left') \in Nat /\ Larger(FileLimit, left') >= left'
      BY <3>1, LargerFacts, Constants
    <3> QED
      BY <3>1, <3>2
  <2>6. SizeInv'
    BY <1>1, <2>5, Constants DEF SizeInv
  <2> QED
    BY <1>5, <2>3, <2>4, <2>6 DEF BufInv
<1>9. CASE ~persisting /\ UNCHANGED <<file, torn, size, left, emptied>>
  <2>3. TypeInv'
    BY <1>1, <1>3, <1>4, <1>9 DEF TypeInv
  <2>4. FileInv'
    BY <1>1, <1>3, <1>9 DEF FileInv
  <2>6. SizeInv'
    BY <1>1, <1>3, <1>9 DEF SizeInv
  <2> QED
    BY <1>5, <2>3, <2>4, <2>6 DEF BufInv
<1> QED
  BY <1>2, <1>7, <1>8, <1>9

\* The next run: what the buffer has, it has from the file.
LEMMA ReopenInv ==
  ASSUME BufInv, Reopen
  PROVE  BufInv'
<1>1. PICK opens \in BOOLEAN, reads \in BOOLEAN :
        /\ persisting' = opens
        /\ lines' = IF opens /\ reads THEN Newest(file, Capacity) ELSE <<>>
        /\ unchecked' = IF opens THEN FileLimit ELSE 0
  BY DEF Reopen
<1>2. /\ version' = Len(lines') /\ gap' = 0 /\ cleared' = emptied
      /\ UNCHANGED <<file, torn, size, left, pushed, emptied>>
  BY DEF Reopen
<1>3. TypeInv /\ FileInv /\ SizeInv /\ file \in Seq(Nat)
  BY DEF BufInv, TypeInv
<1>4. PICK e : e = Newest(file, Capacity)
  OBVIOUS
<1>5. /\ e \in Seq(Nat) /\ Len(e) <= Capacity
      /\ Numbered(e, pushed) /\ Sorted(e) /\ Above(e, emptied)
      /\ AgreeAfter(file, e, 0)
  <2>1. End(e, file) /\ Len(e) = (IF Capacity <= Len(file) THEN Capacity ELSE Len(file))
    BY <1>3, <1>4, NewestIsEnd, Constants
  <2>2. e \in Seq(Nat) /\ Len(file) \in Nat
    BY <1>3, <2>1 DEF End
  <2>3. Len(e) <= Capacity
    BY <2>1, <2>2, Constants
  <2>4. Numbered(e, pushed) /\ Sorted(e) /\ Above(e, emptied)
    BY <1>3, <2>1, EndFacts DEF FileInv
  <2>5. AgreeAfter(file, file, 0)
    BY DEF AgreeAfter
  <2>6. AgreeAfter(e, file, 0)
    BY <1>3, <2>1, <2>5, EndAgrees
  <2>7. AgreeAfter(file, e, 0)
    BY <1>3, <2>2, <2>6, AgreeSymmetric
  <2> QED
    BY <2>2, <2>3, <2>4, <2>7
<1>6. /\ lines' \in Seq(Nat) /\ Len(lines') <= Capacity
      /\ Numbered(lines', pushed) /\ Sorted(lines') /\ Above(lines', emptied)
      /\ AgreeAfter(file, lines', 0)
  <2>1. CASE opens /\ reads
    BY <1>1, <1>4, <1>5, <2>1
  <2>2. CASE ~(opens /\ reads)
    <3>1. lines' = <<>>
      BY <1>1, <2>2
    <3>2. /\ <<>> \in Seq(Nat) /\ Len(<<>>) <= Capacity
          /\ Numbered(<<>>, pushed) /\ Sorted(<<>>) /\ Above(<<>>, emptied)
          /\ AgreeAfter(file, <<>>, 0)
      BY <1>3, EmptyFacts, Constants
    <3> QED
      BY <3>1, <3>2
  <2> QED
    BY <2>1, <2>2
<1>7. unchecked' \in Nat /\ (persisting' => ~(unchecked' < CheckEvery))
  <2>1. CASE opens
    BY <1>1, <2>1, Constants
  <2>2. CASE ~opens
    BY <1>1, <2>2
  <2> QED
    BY <2>1, <2>2
<1>8. version' \in Nat
  BY <1>2, <1>6
<1>9. TypeInv'
  BY <1>2, <1>3, <1>6, <1>7, <1>8 DEF TypeInv
<1>10. LinesInv'
  BY <1>2, <1>6 DEF LinesInv
<1>11. FileInv'
  BY <1>2, <1>3, <1>6 DEF FileInv
<1>12. SizeInv'
  BY <1>2, <1>3, <1>7 DEF SizeInv
<1> QED
  BY <1>9, <1>10, <1>11, <1>12 DEF BufInv

LEMMA BufferStepInv == BufInv /\ [BufferNext]_bufferVars => BufInv'
<1> SUFFICES ASSUME BufInv, [BufferNext]_bufferVars PROVE BufInv'
  OBVIOUS
<1>1. CASE Log
  BY <1>1, PushInv, PushMemoryOnlyInv DEF Log
<1>2. CASE Clear
  BY <1>2, ClearInv
<1>3. CASE Reopen
  BY <1>3, ReopenInv
<1>4. CASE UNCHANGED bufferVars
  <2>1. UNCHANGED <<lines, version, persisting, unchecked, file, torn, size, pushed, gap, left,
                    cleared, emptied>>
    BY <1>4 DEF bufferVars
  <2> QED
    BY <2>1 DEF BufInv, TypeInv, LinesInv, FileInv, SizeInv
<1> QED
  BY <1>1, <1>2, <1>3, <1>4 DEF BufferNext

-----------------------------------------------------------------------------
(* The invariant of the tab.                                                *)

\* Clear leaves the tab without a line to take up from until it rebuilds.
ViewInv ==
  /\ display \in Seq(Nat) /\ seen \in Nat /\ seen <= version
  /\ appended \in Nat /\ appended < 2 * Capacity /\ Len(display) <= Capacity + appended
  /\ Numbered(display, pushed) /\ Sorted(display)
  /\ tab # "clearing" => Above(display, cleared)
  /\ Follows(display, lines, version - seen)
  /\ tab = "clearing" => version - seen > Len(lines)

LogInv == BufInv /\ ViewInv

LEMMA LogInitInv == LogInit => LogInv
<1> SUFFICES ASSUME LogInit PROVE LogInv
  OBVIOUS
<1>1. /\ BufferInit /\ lines = <<>> /\ version = 0 /\ pushed = 0 /\ cleared = 0
      /\ tab = "opening" /\ display = <<>> /\ seen = 0 /\ appended = 0
  BY DEF LogInit, BufferInit
<1>2. BufInv
  BY <1>1, BufferInitInv
<1>3. /\ <<>> \in Seq(Nat) /\ Len(<<>>) = 0
      /\ Numbered(<<>>, 0) /\ Sorted(<<>>) /\ Above(<<>>, 0)
  BY EmptyFacts
<1>4. Follows(<<>>, <<>>, 0)
  BY <1>3, ShowFollows
<1>5. appended \in Nat /\ appended < 2 * Capacity /\ Len(display) <= Capacity + appended
  BY <1>1, <1>3, Constants
<1>6. Follows(display, lines, version - seen)
  <2>1. version - seen = 0
    BY <1>1
  <2> QED
    BY <1>1, <1>4, <2>1
<1> QED
  BY <1>1, <1>2, <1>3, <1>5, <1>6 DEF LogInv, ViewInv

-----------------------------------------------------------------------------
(* What happens to the buffer while the tab stays as it is.                 *)

\* A line more that the tab lacks.
LEMMA LogLineInv ==
  ASSUME LogInv, LogLine
  PROVE  ViewInv'
<1>1. /\ lines' = Append(Room(lines), pushed + 1)
      /\ version' = version + 1 /\ pushed' = pushed + 1
      /\ UNCHANGED <<cleared, tab, display, seen, appended>>
  BY DEF LogLine, Log, Push, PushMemoryOnly, Remember, Room, view
<1>2. /\ lines \in Seq(Nat) /\ display \in Seq(Nat) /\ Len(lines) <= Capacity
      /\ version \in Nat /\ seen \in Nat /\ seen <= version /\ Len(lines) \in Nat
  BY DEF LogInv, BufInv, TypeInv, ViewInv
<1>3. PICK r : r = Room(lines)
  OBVIOUS
<1>4. End(r, lines) /\ Len(lines) - 1 <= Len(r) /\ Len(r) <= Len(lines) /\ r \in Seq(Nat)
  BY <1>2, <1>3, RoomIsEnd DEF End
<1>5. PICK p \in Nat : p = pushed
  BY DEF LogInv, BufInv, TypeInv
<1>6. Numbered(display, p) /\ Numbered(display, p + 1)
  <2>1. Numbered(display, p)
    BY <1>5 DEF LogInv, ViewInv
  <2> QED
    BY <1>2, <2>1, Weaker
<1>7. PICK n \in Nat : n = version - seen
  <2>1. version - seen \in Nat
    BY <1>2
  <2> QED
    BY <2>1
<1>8. PICK l : l = Append(r, p + 1)
  OBVIOUS
<1>9. Follows(display, l, n + 1)
  <2>1. Follows(display, lines, n)
    BY <1>7 DEF LogInv, ViewInv
  <2> QED
    BY <1>2, <1>4, <1>6, <1>8, <2>1, PushFollows
<1>10. lines' = l /\ version' - seen' = n + 1 /\ pushed' = p + 1 /\ seen' <= version'
  BY <1>1, <1>2, <1>3, <1>5, <1>7, <1>8
<1>11. Follows(display', lines', version' - seen')
  BY <1>1, <1>9, <1>10
<1>12. tab' = "clearing" => version' - seen' > Len(lines')
  <2>1. Len(l) = Len(r) + 1 /\ Len(r) \in Nat
    <3>1. p + 1 \in Nat
      OBVIOUS
    <3> QED
      BY <1>4, <1>8, <3>1, AppendBack
  <2>2. tab = "clearing" => n > Len(lines)
    BY <1>7 DEF LogInv, ViewInv
  <2>3. tab = "clearing" => n + 1 > Len(l)
    BY <1>2, <1>4, <2>1, <2>2
  <2> QED
    BY <1>1, <1>10, <2>3
<1> QED
  BY <1>1, <1>6, <1>10, <1>11, <1>12 DEF LogInv, ViewInv

LEMMA ClearBufferInv ==
  ASSUME LogInv, ClearBuffer
  PROVE  ViewInv'
<1>1. /\ lines' = <<>> /\ version' = version + 1 /\ cleared' = pushed
      /\ tab' = "clearing" /\ UNCHANGED <<pushed, display, seen, appended>>
  BY DEF ClearBuffer, Clear, view
<1>2. version \in Nat /\ seen \in Nat /\ seen <= version
  BY DEF LogInv, BufInv, TypeInv, ViewInv
<1>3. version' - seen' > Len(lines') /\ seen' <= version'
  BY <1>1, <1>2, EmptyFacts
<1>4. Follows(display', lines', version' - seen')
  <2>1. PICK n \in Int : n = version' - seen'
    BY <1>1, <1>2
  <2>2. ~(n <= Len(lines'))
    BY <1>1, <1>3, <2>1, EmptyFacts
  <2> QED
    BY <2>1, <2>2 DEF Follows
<1> QED
  BY <1>1, <1>3, <1>4 DEF LogInv, ViewInv

\* The tab of the new run is still to be opened.
LEMMA RestartInv ==
  ASSUME LogInv, BufInv', Restart
  PROVE  ViewInv'
<1>1. /\ tab' = "opening" /\ display' = <<>> /\ seen' = 0 /\ appended' = 0
      /\ version' = Len(lines')
  BY DEF Restart, Reopen
<1>2. PICK l \in Seq(Nat) : l = lines'
  BY DEF BufInv, TypeInv
<1>3. PICK n \in Nat : n = Len(l)
  BY <1>2
<1>4. Follows(<<>>, l, n)
  <2>1. Len(l) - n <= Len(<<>>)
    BY <1>3, EmptyFacts
  <2>2. n .. Len(l) - 1 = {} /\ Last_(<<>>) = {}
    BY <1>3, EmptyFacts DEF Last_
  <2> QED
    BY <2>1, <2>2 DEF Follows
<1>5. version' - seen' = n /\ seen' <= version'
  BY <1>1, <1>2, <1>3
<1>6. Follows(display', lines', version' - seen')
  BY <1>1, <1>2, <1>4, <1>5
<1>7. appended' < 2 * Capacity /\ Len(display') <= Capacity + appended'
  BY <1>1, EmptyFacts, Constants
<1> QED
  BY <1>1, <1>5, <1>6, <1>7, EmptyFacts DEF ViewInv

-----------------------------------------------------------------------------
(* The tab.                                                                 *)

\* The tab shows the buffer as it is.
LEMMA ShowInv ==
  ASSUME LogInv, OpenView \/ PumpRebuilds
  PROVE  ViewInv'
<1>1. /\ display' = lines /\ seen' = version /\ appended' = 0 /\ tab' = "idle"
      /\ UNCHANGED <<lines, version, pushed, cleared>>
  BY DEF OpenView, PumpRebuilds, ShowAll, bufferVars
<1>2. lines \in Seq(Nat) /\ Len(lines) <= Capacity /\ Len(lines) \in Nat /\ version \in Nat
  BY DEF LogInv, BufInv, TypeInv
<1>3. Follows(display', lines', version' - seen')
  <2>1. Follows(lines, lines, 0)
    BY <1>2, ShowFollows
  <2>2. version' - seen' = 0
    BY <1>1, <1>2
  <2> QED
    BY <1>1, <2>1, <2>2
<1>4. Numbered(display', pushed') /\ Sorted(display') /\ Above(display', cleared')
  BY <1>1 DEF LogInv, BufInv, LinesInv
<1>5. seen' <= version' /\ appended' < 2 * Capacity /\ Len(display') <= Capacity + appended'
  BY <1>1, <1>2, Constants
<1> QED
  BY <1>1, <1>2, <1>3, <1>4, <1>5 DEF ViewInv

LEMMA PumpWaitsInv ==
  ASSUME LogInv, PumpChecks \/ PumpGivesUp
  PROVE  ViewInv'
<1>1. /\ tab' # "clearing" /\ tab # "clearing"
      /\ UNCHANGED <<lines, version, pushed, cleared, display, seen, appended>>
  BY DEF PumpChecks, PumpGivesUp, bufferVars, view
<1> QED
  BY <1>1 DEF LogInv, ViewInv

LEMMA SpliceInv ==
  ASSUME LogInv, PumpSplices
  PROVE  ViewInv'
<1>1. /\ tab = "splice" /\ tab' = "idle" /\ Minus(version, seen) <= Len(lines)
      /\ appended < Capacity /\ appended' = appended + Minus(version, seen)
      /\ display' = display \o Newest(lines, Minus(version, seen)) /\ seen' = version
      /\ UNCHANGED <<lines, version, pushed, cleared>>
  BY DEF PumpSplices, CanSplice, bufferVars
<1>2. /\ lines \in Seq(Nat) /\ display \in Seq(Nat) /\ version \in Nat /\ seen \in Nat /\ seen <= version
      /\ Len(lines) \in Nat /\ Len(display) \in Nat /\ Len(lines) <= Capacity /\ appended \in Nat
      /\ Len(display) <= Capacity + appended
  BY DEF LogInv, BufInv, TypeInv, ViewInv
<1>3. PICK n \in Nat : n = version - seen
  <2>1. version - seen \in Nat
    BY <1>2
  <2> QED
    BY <2>1
<1>4. Minus(version, seen) = n
  <2>1. CASE version > seen
    BY <1>3, <2>1 DEF Minus
  <2>2. CASE ~(version > seen)
    <3>1. n = 0
      BY <1>2, <1>3, <2>2
    <3> QED
      BY <2>2, <3>1 DEF Minus
  <2> QED
    BY <2>1, <2>2
<1>5. PICK e : e = Newest(lines, n)
  OBVIOUS
<1>6. n <= Len(lines) /\ End(e, lines) /\ Len(e) = n
  BY <1>1, <1>2, <1>4, <1>5, NewestIsEnd
<1>7. /\ Follows(display, lines, n) /\ Sorted(display) /\ Sorted(lines)
      /\ Above(display, cleared) /\ Above(lines, cleared)
      /\ Numbered(display, pushed) /\ Numbered(lines, pushed)
  BY <1>1, <1>3 DEF LogInv, ViewInv, BufInv, LinesInv
<1>8. PICK d : d = display \o e
  OBVIOUS
<1>9. /\ d \in Seq(Nat) /\ Sorted(d) /\ Follows(d, lines, 0)
      /\ Above(d, cleared) /\ Numbered(d, pushed)
  BY <1>2, <1>6, <1>7, <1>8, SpliceFollows
<1>10. display' = d /\ version' - seen' = 0 /\ appended' = appended + n /\ seen' <= version'
  BY <1>1, <1>2, <1>4, <1>5, <1>8
<1>11. Len(d) = Len(display) + n
  <2>1. e \in Seq(Nat)
    BY <1>6 DEF End
  <2> QED
    BY <1>2, <1>6, <1>8, <2>1, ConcatBack
<1>12. appended' \in Nat /\ appended' < 2 * Capacity /\ Len(display') <= Capacity + appended'
  BY <1>1, <1>2, <1>6, <1>10, <1>11, Constants
<1>13. Follows(display', lines', version' - seen')
  BY <1>1, <1>9, <1>10
<1> QED
  BY <1>1, <1>2, <1>9, <1>10, <1>12, <1>13 DEF ViewInv

LEMMA ClearDisplayInv ==
  ASSUME LogInv, ClearDisplay
  PROVE  ViewInv'
<1>1. /\ tab = "clearing" /\ tab' = "idle" /\ display' = <<>>
      /\ UNCHANGED <<lines, version, pushed, cleared, seen, appended>>
  BY DEF ClearDisplay, bufferVars
<1>2. /\ version - seen > Len(lines) /\ Len(lines) \in Nat /\ version \in Nat /\ seen \in Nat
      /\ appended \in Nat /\ ViewInv
  BY <1>1 DEF LogInv, ViewInv, BufInv, TypeInv
<1>3. Follows(display', lines', version' - seen')
  <2>1. PICK n \in Int : n = version - seen
    BY <1>2
  <2>2. Follows(<<>>, lines, n)
    BY <1>2, <2>1 DEF Follows
  <2> QED
    BY <1>1, <2>1, <2>2
<1>4. Len(display') <= Capacity + appended'
  BY <1>1, <1>2, EmptyFacts, Constants
<1> QED
  BY <1>1, <1>2, <1>3, <1>4, EmptyFacts DEF ViewInv

-----------------------------------------------------------------------------
\* The tab only reads the buffer.
LEMMA BufferStep == [LogNext]_logVars => [BufferNext]_bufferVars
<1> SUFFICES ASSUME [LogNext]_logVars PROVE [BufferNext]_bufferVars
  OBVIOUS
<1>1. CASE LogLine \/ ClearBuffer \/ Restart
  BY <1>1 DEF LogLine, ClearBuffer, Restart, BufferNext
<1>2. CASE OpenView \/ PumpChecks \/ PumpSplices \/ PumpGivesUp \/ PumpRebuilds \/ ClearDisplay
  BY <1>2 DEF OpenView, PumpChecks, PumpSplices, PumpGivesUp, PumpRebuilds, ClearDisplay
<1>3. CASE UNCHANGED logVars
  BY <1>3 DEF logVars
<1> QED
  BY <1>1, <1>2, <1>3 DEF LogNext

LEMMA LogStepInv == LogInv /\ [LogNext]_logVars => LogInv'
<1> SUFFICES ASSUME LogInv, [LogNext]_logVars PROVE LogInv'
  OBVIOUS
<1>1. BufInv'
  BY BufferStep, BufferStepInv DEF LogInv
<1>2. ViewInv'
  <2>1. CASE LogLine
    BY <2>1, LogLineInv
  <2>2. CASE OpenView \/ PumpRebuilds
    BY <2>2, ShowInv
  <2>3. CASE PumpChecks \/ PumpGivesUp
    BY <2>3, PumpWaitsInv
  <2>4. CASE PumpSplices
    BY <2>4, SpliceInv
  <2>5. CASE ClearBuffer
    BY <2>5, ClearBufferInv
  <2>6. CASE ClearDisplay
    BY <2>6, ClearDisplayInv
  <2>7. CASE Restart
    BY <1>1, <2>7, RestartInv
  <2>8. CASE UNCHANGED logVars
    <3>1. UNCHANGED <<lines, version, pushed, cleared, tab, display, seen, appended>>
      BY <2>8 DEF logVars, bufferVars
    <3> QED
      BY <3>1 DEF LogInv, ViewInv
  <2> QED
    BY <2>1, <2>2, <2>3, <2>4, <2>5, <2>6, <2>7, <2>8 DEF LogNext
<1> QED
  BY <1>1, <1>2 DEF LogInv

-----------------------------------------------------------------------------
\* The inductive invariant of buffer, file and tab.
THEOREM LogInvariance == LogSpec => []LogInv
  BY LogInitInv, LogStepInv, PTL DEF LogSpec

\* As long as the file is written, it holds what the buffer holds, from the
\* newest line back to the last one that met a cut or torn file in this run
\* (append_to_file, trim_file, persist_to).
THEOREM FileAgrees == LogSpec => []FileAgreesWithBuffer
<1>1. LogInv => FileAgreesWithBuffer
  BY DEF LogInv, BufInv, FileInv, FileAgreesWithBuffer
<1> QED
  BY <1>1, LogInvariance, PTL

\* In bytes, for lines of any length up to Longest: the file is never a check
\* interval and a line past its limit or past what the last attempt to trim or
\* to clear it left, over any number of runs (logs.rs, persist_to).
THEOREM FileStaysSmall == LogSpec => []FileBounded
<1>1. LogInv => FileBounded
  BY DEF LogInv, BufInv, SizeInv, FileBounded
<1> QED
  BY <1>1, LogInvariance, PTL

\* The tab shows each line once and in order, and everything the buffer holds
\* once it has caught up (LogView::pump).
THEOREM TabFollows == LogSpec => []TabFollowsBuffer
<1>1. LogInv => TabFollowsBuffer
  <2> SUFFICES ASSUME LogInv PROVE TabFollowsBuffer
    OBVIOUS
  <2>1. /\ lines \in Seq(Nat) /\ display \in Seq(Nat) /\ version \in Nat
        /\ Sorted(display) /\ Follows(display, lines, version - seen)
    BY DEF LogInv, BufInv, TypeInv, ViewInv
  <2>2. Increasing(display)
    <3> SUFFICES ASSUME NEW i \in 1 .. Len(display) - 1 PROVE display[i] < display[i + 1]
      BY DEF Increasing
    <3>1. Len(display) \in Nat
      BY <2>1
    <3>2. PICK j \in Last_(display) : Len(display) - j = i + 1
      <4>1. Len(display) - (i + 1) \in Last_(display) /\ Len(display) - (Len(display) - (i + 1)) = i + 1
        BY <3>1 DEF Last_
      <4> QED
        BY <4>1
    <3>3. PICK k \in Last_(display) : Len(display) - k = i
      <4>1. Len(display) - i \in Last_(display) /\ Len(display) - (Len(display) - i) = i
        BY <3>1 DEF Last_
      <4> QED
        BY <4>1
    <3>4. j < k
      BY <3>1, <3>2, <3>3 DEF Last_
    <3>5. Back(display, k) < Back(display, j)
      BY <2>1, <3>4 DEF Sorted
    <3> QED
      BY <3>2, <3>3, <3>5 DEF Back
  <2>3. ASSUME seen = version PROVE IsSuffix(lines, display)
    <3>1. version - seen = 0
      BY <2>1, <2>3
    <3>2. Follows(display, lines, 0)
      BY <2>1, <3>1
    <3>3. Len(lines) \in Nat /\ Len(display) \in Nat
      BY <2>1
    <3>4. Len(lines) <= Len(display) /\ \A k \in 0 .. Len(lines) - 1 : Back(lines, k) = Back(display, k - 0)
      BY <3>2, <3>3 DEF Follows
    <3>5. \A k \in Last_(lines) : Back(lines, k) = Back(display, k)
      BY <3>3, <3>4 DEF Last_
    <3> QED
      BY <2>1, <3>4, <3>5, SuffixBack
  <2> QED
    BY <2>2, <2>3 DEF TabFollowsBuffer
<1> QED
  BY <1>1, LogInvariance, PTL

\* The text of the tab stays within three times the buffer, however lines and
\* pumps interleave (LogView::pump).
THEOREM DisplayStaysBounded == LogSpec => []DisplayBounded
<1>1. LogInv => DisplayBounded
  <2> SUFFICES ASSUME LogInv PROVE Len(display) < 3 * Capacity
    BY DEF DisplayBounded
  <2>1. /\ display \in Seq(Nat) /\ appended \in Nat /\ appended < 2 * Capacity
        /\ Len(display) <= Capacity + appended
    BY DEF LogInv, ViewInv
  <2>2. Len(display) \in Nat
    BY <2>1
  <2> QED
    BY <2>1, <2>2, Constants
<1> QED
  BY <1>1, LogInvariance, PTL

\* A line that Clear removed does not come back into the tab in the same run,
\* nor in a later one if Clear has emptied the file too.
THEOREM ClearLasts == LogSpec => []ClearedStaysCleared
<1>1. LogInv => ClearedStaysCleared
  <2> SUFFICES ASSUME LogInv, tab = "idle", NEW i \in DOMAIN display PROVE display[i] > cleared
    BY DEF ClearedStaysCleared
  <2>1. /\ display \in Seq(Nat) /\ Len(display) \in Nat /\ DOMAIN display = 1 .. Len(display)
        /\ Above(display, cleared) /\ cleared \in Nat
    BY DEF LogInv, BufInv, TypeInv, ViewInv
  <2>2. Len(display) - i \in Last_(display) /\ Len(display) - (Len(display) - i) = i
    BY <2>1 DEF Last_
  <2>3. cleared < display[i]
    BY <2>1, <2>2 DEF Above, Back
  <2>4. display[i] \in Nat
    BY <2>1
  <2> QED
    BY <2>1, <2>3, <2>4
<1> QED
  BY <1>1, LogInvariance, PTL

=============================================================================
