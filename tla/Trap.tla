-------------------------------- MODULE Trap --------------------------------
(***************************************************************************)
(* The daemon's signal trap (pkg/signal/trap.go), installed by mainDaemon  *)
(* with eng.Shutdown as its cleanup.                                       *)
(*                                                                         *)
(* os/signal delivers the trapped signals to a channel of capacity one     *)
(* without blocking: a signal arriving while the channel is full is lost.  *)
(* One goroutine ranges over the channel and starts a handler goroutine    *)
(* per signal. The handlers share interruptCount, read and incremented     *)
(* with separate atomic operations, so handlers interleave between them.   *)
(* The cleanup (the engine's shutdown) takes time; any os.Exit ends the    *)
(* process, cleanup or not.                                                *)
(***************************************************************************)
EXTENDS Integers, Sequences, FiniteSets

CONSTANTS
    Debug,        \* DEBUG is set in the environment
    MaxSignals    \* bound on the number of signals sent to the daemon

ASSUME Debug \in BOOLEAN /\ MaxSignals \in Nat \ {0}

SIGINT == 2
SIGQUIT == 3
SIGTERM == 15

\* Signals passed to gosignal.Notify (lines 25-28).
Trapped == IF Debug THEN {SIGINT, SIGTERM} ELSE {SIGINT, SIGTERM, SIGQUIT}

Handlers == 1..MaxSignals

VARIABLES
    chan,            \* the buffered channel c: a sequence of at most one signal
    sent,            \* signals sent to the process so far
    handlers,        \* handler goroutines started so far (handler k = k-th one)
    sig,             \* sig[k]: the signal handled by handler k
    pc,              \* pc[k]: where handler k is
    interruptCount,  \* the shared counter
    cleanups,        \* number of calls of cleanup()
    proc,            \* "running" or "exited"
    exitCode         \* the status passed to os.Exit, -1 while running

vars == <<chan, sent, handlers, sig, pc, interruptCount, cleanups, proc, exitCode>>

\* Handler locations: "check" (line 42), "add" (line 43), "first" (line 45),
\* "cleanup" (inside cleanup()), "exit" (line 57), "done" (returned).
PCs == {"idle", "check", "add", "first", "cleanup", "exit", "done"}

Exit(code) ==
    /\ proc' = "exited"
    /\ exitCode' = code

\* Mutant: the send queues every signal as if the channel had no bound.
ChanSendUnbounded(ch, s) == Append(ch, s)

\* The runtime's non-blocking send of a signal on the channel of capacity
\* one made at line 23: the signal is dropped when the channel is full.
ChanSend(ch, s) == IF ch = <<>> THEN <<s>> ELSE ch

-----------------------------------------------------------------------------

\* A signal is sent to the daemon. The runtime forwards a trapped signal to
\* the channel if it has room and drops it otherwise; a signal not trapped
\* takes its default action: SIGQUIT dumps the goroutines and exits with 2.
Send(s) ==
    /\ proc = "running"
    /\ sent < MaxSignals
    /\ sent' = sent + 1
    /\ IF s \in Trapped
         THEN /\ chan' = ChanSend(chan, s)
              /\ UNCHANGED <<proc, exitCode>>
         ELSE /\ Exit(2)
              /\ UNCHANGED chan
    /\ UNCHANGED <<handlers, sig, pc, interruptCount, cleanups>>

\* The ranging goroutine receives a signal and starts its handler (line 37).
Dispatch ==
    /\ proc = "running"
    /\ chan # <<>>
    /\ handlers < MaxSignals
    /\ LET k == handlers + 1
       IN  /\ handlers' = k
           /\ sig' = [sig EXCEPT ![k] = Head(chan)]
           /\ pc' = [pc EXCEPT ![k] = IF Head(chan) = SIGQUIT THEN "exit" ELSE "check"]
    /\ chan' = <<>>
    /\ UNCHANGED <<sent, interruptCount, cleanups, proc, exitCode>>

\* A handler may still count itself (line 42).
BelowLimit(n) == n < 3

\* if atomic.LoadUint32(&interruptCount) < 3, else force the exit (line 42).
Check(k) ==
    /\ proc = "running"
    /\ pc[k] = "check"
    /\ pc' = [pc EXCEPT ![k] = IF BelowLimit(interruptCount) THEN "add" ELSE "exit"]
    /\ UNCHANGED <<chan, sent, handlers, sig, interruptCount, cleanups, proc, exitCode>>

\* atomic.AddUint32(&interruptCount, 1) (line 43). The uint32 cannot wrap:
\* each handler adds once, and there are at most MaxSignals of them.
Add(k) ==
    /\ proc = "running"
    /\ pc[k] = "add"
    /\ interruptCount' = interruptCount + 1
    /\ pc' = [pc EXCEPT ![k] = "first"]
    /\ UNCHANGED <<chan, sent, handlers, sig, cleanups, proc, exitCode>>

\* Mutant: every handler past the check starts the cleanup.
IsFirstAtLeast(n) == n >= 1

\* The handler that starts the cleanup (line 45).
IsFirst(n) == n = 1

\* if atomic.LoadUint32(&interruptCount) == 1: call cleanup, else return
\* (lines 45-51).
First(k) ==
    /\ proc = "running"
    /\ pc[k] = "first"
    /\ IF IsFirst(interruptCount)
         THEN /\ pc' = [pc EXCEPT ![k] = "cleanup"]
              /\ cleanups' = cleanups + 1
         ELSE /\ pc' = [pc EXCEPT ![k] = "done"]
              /\ UNCHANGED cleanups
    /\ UNCHANGED <<chan, sent, handlers, sig, interruptCount, proc, exitCode>>

\* cleanup() returns; os.Exit(0) (lines 47-48).
CleanupDone(k) ==
    /\ proc = "running"
    /\ pc[k] = "cleanup"
    /\ pc' = [pc EXCEPT ![k] = "done"]
    /\ Exit(0)
    /\ UNCHANGED <<chan, sent, handlers, sig, interruptCount, cleanups>>

\* os.Exit(128 + sig) for a forced shutdown or SIGQUIT (lines 52-57).
ForceExit(k) ==
    /\ proc = "running"
    /\ pc[k] = "exit"
    /\ pc' = [pc EXCEPT ![k] = "done"]
    /\ Exit(128 + sig[k])
    /\ UNCHANGED <<chan, sent, handlers, sig, interruptCount, cleanups>>

Init ==
    /\ chan = <<>>
    /\ sent = 0
    /\ handlers = 0
    /\ sig = [k \in Handlers |-> 0]
    /\ pc = [k \in Handlers |-> "idle"]
    /\ interruptCount = 0
    /\ cleanups = 0
    /\ proc = "running"
    /\ exitCode = -1

Next ==
    \/ \E s \in {SIGINT, SIGTERM, SIGQUIT} : Send(s)
    \/ Dispatch
    \/ \E k \in Handlers :
          Check(k) \/ Add(k) \/ First(k) \/ CleanupDone(k) \/ ForceExit(k)

Spec == Init /\ [][Next]_vars

-----------------------------------------------------------------------------
(***************************************************************************)
(* Properties                                                              *)
(***************************************************************************)

TypeOK ==
    /\ chan \in Seq(Trapped) /\ Len(chan) <= 1
    /\ sent \in 0..MaxSignals /\ handlers \in 0..MaxSignals
    /\ sig \in [Handlers -> {0, SIGINT, SIGQUIT, SIGTERM}]
    /\ pc \in [Handlers -> PCs]
    /\ interruptCount \in Nat
    /\ cleanups \in Nat
    /\ proc \in {"running", "exited"}
    /\ exitCode \in {-1, 0, 1, 2} \cup {128 + s : s \in {SIGINT, SIGQUIT, SIGTERM}}

\* Handlers still between receiving their signal and returning or exiting.
InFlight == {k \in Handlers : pc[k] \in {"check", "add", "first"}}

\* "Initiate the cleanup only once" (line 44): however the handlers of
\* concurrent SIGINT/SIGTERM interleave, eng.Shutdown is called at most once.
CleanupOnce ==
    cleanups <= 1

\* "If SIGINT or SIGTERM are received, cleanup is called" (line 15): once a
\* SIGINT/SIGTERM handler has counted itself and every handler has finished
\* its check, the cleanup has been started or the process has exited.
ShutdownNotLost ==
    (proc = "running" /\ interruptCount > 0 /\ InFlight = {}) => cleanups > 0

=============================================================================
