------------------------------ MODULE Lifecycle ------------------------------
(***************************************************************************)
(* The daemon process from mainDaemon (src/unnamed/part_000) to its exit:  *)
(*                                                                         *)
(*  - the signal trap (module Trap), installed first with eng.Shutdown as  *)
(*    its cleanup (part_000 line 42);                                      *)
(*  - the boot goroutine (part_000 lines 49-67): NewDaemonFromDirectory    *)
(*    (daemon/daemon.go) claims the pidfile and registers its removal      *)
(*    (lines 699-707), sets up the subsystems, restores the containers     *)
(*    (line 891; restore restarts some of them), registers the daemon's    *)
(*    shutdown hook (lines 896-913); then d.Install and the               *)
(*    acceptconnections job, which activates the API listener; any error   *)
(*    is a log.Fatal;                                                      *)
(*  - the API listener (listenbuffer, part_001) served by serveapi on the  *)
(*    main goroutine: Accept holds every connection until activated;       *)
(*  - eng.Shutdown running the hooks registered so far, the daemon's hook  *)
(*    with daemon.shutdown (lines 917-939): one goroutine per running      *)
(*    container sends SIGTERM and waits for it to stop, then group.Wait,   *)
(*    ReleaseAll, driver.Cleanup, containerGraph.Close.                    *)
(*                                                                         *)
(* The engine and the API server are not under src/: eng.OnShutdown        *)
(* appends a hook, eng.Shutdown runs the hooks registered when it starts,  *)
(* once, the last registered first (spec 4.A), and acceptconnections       *)
(* closes the listener's activation channel (spec 4.J, serveapi).          *)
(***************************************************************************)
EXTENDS Integers, Sequences, SequencesExt, FiniteSets

CONSTANTS
    Debug, MaxSignals,  \* as in Trap
    Containers,         \* the containers on disk
    Restarted,          \* those restore restarts (their restart policy says so)
    IgnoresTerm,        \* the containers whose process ignores SIGTERM
    BootMayFail,        \* whether the boot's fallible steps may fail
    MaxConns            \* bound on the API connections clients open

ASSUME Restarted \subseteq Containers /\ BootMayFail \in BOOLEAN

VARIABLES
    chan, sent, handlers, sig, pc, interruptCount, cleanups, proc, exitCode,
    running,    \* containers whose process runs
    termed,     \* containers that have been sent SIGTERM (KillSig(15))
    queue,      \* the hooks eng.Shutdown has still to run, next first
    eng,        \* eng.Shutdown: "idle", "running", "done"
    dstage,     \* the daemon hook: "idle", "wait", "ports", "driver", "graph", "done"
    stoppers,   \* containers whose stop goroutine has not returned
    pidfile,    \* the pidfile exists
    hooks,      \* the hooks registered with eng.OnShutdown, in order
    boot,       \* index in BootSteps of the boot goroutine's next step
    activated,  \* the listener's activation channel is closed
    ready,      \* the listener's ready flag
    waiting,    \* connections held by the listener
    served      \* connections Accept has returned to the server

T == INSTANCE Trap

trapVars == <<chan, sent, handlers, sig, pc, interruptCount, cleanups, proc, exitCode>>
downVars == <<running, termed, queue, eng, dstage, stoppers, pidfile>>
bootVars == <<hooks, boot, activated>>
apiVars  == <<ready, waiting, served>>
vars == <<trapVars, downVars, bootVars, apiVars>>

\* Mutant: the pidfile is claimed after the daemon's hook is registered.
BootStepsPidfileLate ==
    <<"config", "init", "restore", "hook", "pidfile", "install", "accept">>

\* The boot goroutine, in order: the checks of mutually incompatible
\* options (-b with --bip, --iptables=false with --icc=false, lines
\* 678-693); CreatePidFile and its OnShutdown (lines 697-707); the storage,
\* graph, network, graphdb and exec driver set-up (lines 709-889); restore
\* (line 891); the daemon's OnShutdown (lines 896-913); d.Install(eng) and
\* the acceptconnections job (part_000 lines 56-66).
BootSteps ==
    <<"config", "pidfile", "init", "restore", "hook", "install", "accept">>

\* The steps with an error path that ends in log.Fatal (part_000 53-66);
\* CreatePidFile fails on a pidfile whose process still runs (lines 700-702).
Fallible == {"config", "pidfile", "init", "restore", "install", "accept"}

-----------------------------------------------------------------------------
(***************************************************************************)
(* The boot goroutine                                                      *)
(***************************************************************************)

\* One step of the boot goroutine, run while the process lives; the
\* daemon's hook (OnShutdown) is appended even once eng.Shutdown runs.
Boot ==
    /\ proc = "running"
    /\ boot <= Len(BootSteps)
    /\ boot' = boot + 1
    /\ LET s == BootSteps[boot] IN
         /\ pidfile' = (pidfile \/ s = "pidfile")
         /\ hooks' = CASE s = "pidfile" -> Append(hooks, "pidfile")
                       [] s = "hook"    -> Append(hooks, "daemon")
                       [] OTHER         -> hooks
         /\ running' = IF s = "restore" THEN running \cup Restarted ELSE running
         /\ activated' = (activated \/ s = "accept")
    /\ UNCHANGED <<trapVars, termed, queue, eng, dstage, stoppers, apiVars>>

\* A fallible step fails: log.Fatal exits with status 1, no hook runs.
BootFail ==
    /\ proc = "running"
    /\ BootMayFail
    /\ boot <= Len(BootSteps) /\ BootSteps[boot] \in Fallible
    /\ T!Exit(1)
    /\ UNCHANGED <<chan, sent, handlers, sig, pc, interruptCount, cleanups,
                   downVars, bootVars, apiVars>>

-----------------------------------------------------------------------------
(***************************************************************************)
(* The API listener (listenbuffer, part_001 lines 14-50)                   *)
(***************************************************************************)

\* A client opens a connection; the kernel queues it on the socket.
Connect ==
    /\ proc = "running"
    /\ waiting + served < MaxConns
    /\ waiting' = waiting + 1
    /\ UNCHANGED <<trapVars, downVars, bootVars, ready, served>>

\* Mutant: l.ready is never set; Accept waits on the channel again.
AcceptActivateNoFlag ==
    /\ proc = "running"
    /\ ~ready /\ activated
    /\ UNCHANGED <<trapVars, downVars, bootVars, apiVars>>

\* Accept not yet ready: <-l.activate returns once the channel is closed,
\* and l.ready is set (lines 44-47).
AcceptActivate ==
    /\ proc = "running"
    /\ ~ready /\ activated
    /\ ready' = TRUE
    /\ UNCHANGED <<trapVars, downVars, bootVars, waiting, served>>

\* Mutant: Accept returns connections without waiting for activation.
ReadyToAcceptAlways(r) == TRUE

\* if l.ready { return l.wrapped.Accept() } (lines 41-43).
ReadyToAccept(r) == r

\* Accept returns a held connection to the server.
AcceptConn ==
    /\ proc = "running"
    /\ ReadyToAccept(ready) /\ waiting > 0
    /\ waiting' = waiting - 1 /\ served' = served + 1
    /\ UNCHANGED <<trapVars, downVars, bootVars, ready>>

-----------------------------------------------------------------------------
(***************************************************************************)
(* eng.Shutdown, run by the handler that calls cleanup()                   *)
(***************************************************************************)

\* eng.Shutdown takes the hooks registered so far, last registered first.
EngineStart ==
    /\ proc = "running"
    /\ cleanups > 0
    /\ eng = "idle"
    /\ eng' = "running"
    /\ queue' = Reverse(hooks)
    /\ UNCHANGED <<trapVars, running, termed, dstage, stoppers, pidfile, bootVars, apiVars>>

\* The pidfile hook: utils.RemovePidFile (line 705).
RemovePidFile ==
    /\ proc = "running"
    /\ eng = "running"
    /\ queue # <<>> /\ Head(queue) = "pidfile"
    /\ pidfile' = FALSE
    /\ queue' = Tail(queue)
    /\ UNCHANGED <<trapVars, running, termed, eng, dstage, stoppers, bootVars, apiVars>>

\* daemon.shutdown (lines 917-934): one stop goroutine per container whose
\* State is running.
ShutdownList ==
    /\ proc = "running"
    /\ eng = "running"
    /\ queue # <<>> /\ Head(queue) = "daemon"
    /\ dstage = "idle"
    /\ dstage' = "wait"
    /\ stoppers' = running
    /\ UNCHANGED <<trapVars, running, termed, queue, eng, pidfile, bootVars, apiVars>>

\* Mutant: the stop goroutine does not send the signal.
StopperKillNoSignal(c) ==
    /\ proc = "running"
    /\ c \in stoppers \ termed
    /\ UNCHANGED <<trapVars, downVars, bootVars, apiVars>>

\* c.KillSig(15) (line 928); its error, if c has already stopped, is logged.
StopperKill(c) ==
    /\ proc = "running"
    /\ c \in stoppers \ termed
    /\ termed' = termed \cup {c}
    /\ UNCHANGED <<trapVars, running, queue, eng, dstage, stoppers, pidfile, bootVars, apiVars>>

\* c.State.WaitStop(-1 * time.Second) returns once c has stopped, and the
\* goroutine calls group.Done (lines 927, 931).
StopperDone(c) ==
    /\ proc = "running"
    /\ c \in stoppers /\ c \in termed /\ c \notin running
    /\ stoppers' = stoppers \ {c}
    /\ UNCHANGED <<trapVars, running, termed, queue, eng, dstage, pidfile, bootVars, apiVars>>

\* Mutant: the hook goes on without group.Wait.
NoGroupWait(s) == TRUE

\* group.Wait() (line 936).
GroupWait(s) == s = {}

\* The rest of the daemon's hook, one call per step: group.Wait, then
\* portallocator.ReleaseAll, daemon.driver.Cleanup, containerGraph.Close.
DaemonHookStep ==
    /\ proc = "running"
    /\ eng = "running"
    /\ \/ /\ dstage = "wait" /\ GroupWait(stoppers) /\ dstage' = "ports"
       \/ /\ dstage = "ports" /\ dstage' = "driver"
       \/ /\ dstage = "driver" /\ dstage' = "graph"
       \/ /\ dstage = "graph" /\ dstage' = "done"
    /\ queue' = IF dstage' = "done" THEN Tail(queue) ELSE queue
    /\ UNCHANGED <<trapVars, running, termed, eng, stoppers, pidfile, bootVars, apiVars>>

\* Every hook has returned: eng.Shutdown returns.
EngineDone ==
    /\ proc = "running"
    /\ eng = "running"
    /\ queue = <<>>
    /\ eng' = "done"
    /\ UNCHANGED <<trapVars, running, termed, queue, dstage, stoppers, pidfile, bootVars, apiVars>>

-----------------------------------------------------------------------------
(***************************************************************************)
(* The containers                                                          *)
(***************************************************************************)

\* A container that honours SIGTERM exits after receiving it. What the
\* containers do once the daemon has exited is not modelled.
TermExit(c) ==
    /\ proc = "running"
    /\ c \in running /\ c \in termed /\ c \notin IgnoresTerm
    /\ running' = running \ {c}
    /\ UNCHANGED <<trapVars, termed, queue, eng, dstage, stoppers, pidfile, bootVars, apiVars>>

\* Any container may exit on its own at any time.
SelfExit(c) ==
    /\ proc = "running"
    /\ c \in running
    /\ running' = running \ {c}
    /\ UNCHANGED <<trapVars, termed, queue, eng, dstage, stoppers, pidfile, bootVars, apiVars>>

-----------------------------------------------------------------------------

\* The trap's steps leave the rest alone; its handler's os.Exit(0) follows
\* eng.Shutdown's return.
TrapStep ==
    \/ \E s \in {T!SIGINT, T!SIGTERM, T!SIGQUIT} : T!Send(s) /\ UNCHANGED <<downVars, bootVars, apiVars>>
    \/ T!Dispatch /\ UNCHANGED <<downVars, bootVars, apiVars>>
    \/ \E k \in T!Handlers :
          \/ (T!Check(k) \/ T!Add(k) \/ T!First(k) \/ T!ForceExit(k)) /\ UNCHANGED <<downVars, bootVars, apiVars>>
          \/ eng = "done" /\ T!CleanupDone(k) /\ UNCHANGED <<downVars, bootVars, apiVars>>

\* mainDaemon right after signal.Trap and builtins.Register: the boot
\* goroutine is about to start, serveapi listens, nothing is claimed yet.
Init ==
    /\ T!Init
    /\ running = {}
    /\ termed = {}
    /\ queue = <<>>
    /\ eng = "idle"
    /\ dstage = "idle"
    /\ stoppers = {}
    /\ pidfile = FALSE
    /\ hooks = <<>>
    /\ boot = 1
    /\ activated = FALSE
    /\ ready = FALSE
    /\ waiting = 0
    /\ served = 0

DaemonStep ==
    \/ EngineStart \/ RemovePidFile \/ ShutdownList \/ DaemonHookStep \/ EngineDone
    \/ \E c \in Containers : StopperKill(c) \/ StopperDone(c)

ApiStep == AcceptActivate \/ AcceptConn

Next ==
    \/ TrapStep
    \/ Boot \/ BootFail
    \/ Connect \/ ApiStep
    \/ DaemonStep
    \/ \E c \in Containers : TermExit(c) \/ SelfExit(c)

\* The Go scheduler runs every runnable goroutine of the daemon (the trap's,
\* the boot goroutine, serveapi's accept loop, the shutdown's), and a
\* process that honours SIGTERM exits after it. Each group of goroutines is
\* one weakly fair action: none of them re-enables another of its group,
\* so each one runnable until it runs gets to run. Signals, connections, boot
\* errors and spontaneous exits come from outside and are not forced.
Fairness ==
    /\ WF_vars(T!Dispatch /\ UNCHANGED <<downVars, bootVars, apiVars>>)
    /\ WF_vars(\E k \in T!Handlers :
                 \/ (T!Check(k) \/ T!Add(k) \/ T!First(k) \/ T!ForceExit(k)) /\ UNCHANGED <<downVars, bootVars, apiVars>>
                 \/ eng = "done" /\ T!CleanupDone(k) /\ UNCHANGED <<downVars, bootVars, apiVars>>)
    /\ WF_vars(Boot)
    /\ WF_vars(ApiStep)
    /\ WF_vars(DaemonStep)
    /\ WF_vars(\E c \in Containers : TermExit(c))

Spec == Init /\ [][Next]_vars /\ Fairness

-----------------------------------------------------------------------------
(***************************************************************************)
(* Properties                                                              *)
(***************************************************************************)

TypeOK ==
    /\ T!TypeOK
    /\ running \subseteq Containers /\ termed \subseteq Containers
    /\ queue \in Seq({"pidfile", "daemon"}) /\ Len(queue) <= 2
    /\ eng \in {"idle", "running", "done"}
    /\ dstage \in {"idle", "wait", "ports", "driver", "graph", "done"}
    /\ stoppers \subseteq Containers /\ pidfile \in BOOLEAN
    /\ hooks \in Seq({"pidfile", "daemon"}) /\ boot \in 1..Len(BootSteps) + 1
    /\ activated \in BOOLEAN /\ ready \in BOOLEAN
    /\ waiting \in 0..MaxConns /\ served \in 0..MaxConns

\* "Initiate the cleanup only once" (trap.go line 44), with the handlers
\* interleaving with the boot and the shutdown: eng.Shutdown is called at
\* most once.
CleanupOnce == T!CleanupOnce

\* "Always release the pidfile last" (line 704, spec 4.J step 3): once the
\* pidfile hook has removed the pidfile, no other hook of the shutdown is
\* pending or half done, whenever the signal came during the boot.
PidfileLast ==
    ("pidfile" \in ToSet(hooks) /\ ~pidfile) =>
        queue = <<>> /\ dstage \in {"idle", "done"}

\* daemon.shutdown waits for its stop goroutines (group.Wait, line 936)
\* before the ports are released and the graph closed: once the daemon's
\* hook is past the wait, no container is still running.
StoppedBeforeRelease ==
    dstage \in {"ports", "driver", "graph", "done"} => running = {}

\* The listener holds connections until the daemon is set up (part_001
\* lines 1-4, part_000 lines 45-47): no connection reaches the server
\* before d.Install has registered the daemon's job handlers.
ServedAfterInstall ==
    served > 0 => \E i \in 1..boot - 1 : BootSteps[i] = "install"

\* Spec 8, scenario 6 ("within bounded time"): once the cleanup has been
\* started, the daemon exits, without any further signal.
ShutdownCompletes ==
    cleanups > 0 ~> proc = "exited"

\* Connections held while the daemon boots are served once the listener is
\* activated (Accept's <-l.activate, then l.ready, part_001 lines 41-49),
\* unless the process exits.
HeldConnectionsServed ==
    (activated /\ waiting > 0) ~> (waiting = 0 \/ proc = "exited")

\* Spec 4.J step 14 and 8 scenario 6: a daemon that exits through its
\* cleanup (status 0) has sent SIGTERM to every container still running,
\* whenever the SIGTERM came.
StopsContainersAtExit ==
    (proc = "exited" /\ exitCode = 0) => running \subseteq termed

=============================================================================
