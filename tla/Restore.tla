------------------------------- MODULE Restore -------------------------------
(***************************************************************************)
(* What restore does with the containers' run state (daemon/daemon.go):    *)
(* register of a container whose saved State is Running, and the restart  *)
(* policy pass at the end of restore, across daemon crashes.               *)
(*                                                                         *)
(* A container's State (Running, ExitCode, Pid) is saved to disk by        *)
(* ToDisk and is the daemon's view of it; the container's process is the   *)
(* world's. Start, the exit monitor and its restart policy live in         *)
(* container.go, which is not under src/: they are modelled from spec     *)
(* 4.I. When the daemon dies, the processes of the native driver die with  *)
(* it ("the other drivers will ensure that no processes are left when      *)
(* docker dies", lines 226-227); those of the lxc driver survive and may   *)
(* exit unobserved.                                                        *)
(*                                                                         *)
(* A native container may join the network namespace of another one        *)
(* (--net container:X): the native driver's createNetwork                  *)
(* (execdriver/native/create.go) fails the start unless X is among its     *)
(* activeContainers with a process.                                        *)
(***************************************************************************)
EXTENDS Integers, FiniteSets, SequencesExt

CONSTANTS
    Containers,   \* the containers on disk (all loadable)
    ExecDriver,   \* [Containers -> {"lxc", "native"}]: container.ExecDriver
    Policy,       \* [Containers -> {"no", "always", "on-failure"}]: RestartPolicy.Name
    NetContainer, \* [Containers -> SUBSET Containers]: the container whose network
                  \* namespace c joins (Network.ContainerID), at most one
    AutoRestart,  \* daemon.config.AutoRestart
    ExitCodes,    \* exit codes a container process may exit with
    MaxRuns,      \* bound on starts plus process exits
    MaxBoots      \* bound on the number of daemon boots

ASSUME AutoRestart \in BOOLEAN /\ 0 \in ExitCodes /\ -127 \notin ExitCodes
ASSUME \A c \in Containers :
          /\ Cardinality(NetContainer[c]) <= 1 /\ c \notin NetContainer[c]
          /\ NetContainer[c] # {} => ExecDriver[c] = "native"

VARIABLES
    state,   \* the saved State of each container: [running, exit, pid]
    proc,    \* proc[c]: the container has a live process
    gen,     \* gen[c]: the pid of c's latest process (process generations)
    up,      \* the daemon runs
    runs,    \* starts plus process exits so far
    boots

vars == <<state, proc, gen, up, runs, boots>>

StoppedState(s, code) == [s EXCEPT !.running = FALSE, !.exit = code]

\* The monitor's (and restore's) restart decision for a stopped container.
ShouldRestart(c, code) ==
    Policy[c] = "always" \/ (Policy[c] = "on-failure" /\ code # 0)

\* createNetwork's join (create.go lines 116-124): the container to join
\* must be in the native driver's activeContainers, with a process, among
\* the containers live (those whose processes run).
JoinOK(c, live) ==
    \A x \in NetContainer[c] : x \in live /\ ExecDriver[x] = "native"

Live == {d \in Containers : proc[d]}

-----------------------------------------------------------------------------

\* A user start of a stopped container: a new process, State Running with
\* its pid, saved to disk. A start whose createNetwork fails changes
\* nothing.
Start(c) ==
    /\ up
    /\ ~state[c].running
    /\ JoinOK(c, Live)
    /\ runs < MaxRuns
    /\ runs' = runs + 1
    /\ gen' = [gen EXCEPT ![c] = @ + 1]
    /\ proc' = [proc EXCEPT ![c] = TRUE]
    /\ state' = [state EXCEPT ![c] = [@ EXCEPT !.running = TRUE, !.pid = gen'[c]]]
    /\ UNCHANGED <<up, boots>>

\* The process of c exits with code. With the daemon up, the monitor marks
\* the container stopped with the code, saves it, and restarts it if its
\* policy says so and the new start's createNetwork succeeds. With the daemon down, nobody notices.
ProcExit(c) ==
    /\ proc[c]
    /\ runs < MaxRuns
    /\ runs' = runs + 1
    /\ \E code \in ExitCodes :
        IF up /\ ShouldRestart(c, code) /\ JoinOK(c, Live \ {c})
          THEN /\ gen' = [gen EXCEPT ![c] = @ + 1]
               /\ state' = [state EXCEPT ![c] = [running |-> TRUE, exit |-> code, pid |-> gen'[c]]]
               /\ UNCHANGED proc
          ELSE /\ proc' = [proc EXCEPT ![c] = FALSE]
               /\ state' = IF up THEN [state EXCEPT ![c] = StoppedState(@, code)] ELSE state
               /\ UNCHANGED gen
    /\ UNCHANGED <<up, boots>>

\* The daemon dies; the processes of the native driver die with it.
Crash ==
    /\ up
    /\ up' = FALSE
    /\ proc' = [c \in Containers |-> proc[c] /\ ExecDriver[c] = "lxc"]
    /\ UNCHANGED <<state, gen, runs, boots>>

-----------------------------------------------------------------------------
(***************************************************************************)
(* restore                                                                 *)
(***************************************************************************)

\* Mutant: register kills only the containers of the native driver.
KilledNativeOnly ==
    {c \in Containers : state[c].running /\ ExecDriver[c] # "lxc"}

\* The containers register kills (lines 221-241): every one whose saved
\* State is Running, by KillLxc for lxc and Terminate for other drivers.
Killed ==
    {c \in Containers : state[c].running}

\* The answers daemon.execDriver.Info(id).IsRunning() may give right after
\* the kill (line 251): a process that was alive may not have died yet.
InfoAnswers ==
    {f \in [Containers -> BOOLEAN] : \A c \in Containers : f[c] => proc[c]}

\* Mutant: the exit code -127 is stored as an unsigned byte.
RegisteredUnsignedByte(c, infoRunning) ==
    IF ~state[c].running THEN state[c]
    ELSE StoppedState(state[c], IF infoRunning THEN 0 ELSE 129)

\* Mutant: the SetStopped(0) before the kill is dropped; a container Info
\* still reports running keeps its Running State.
RegisteredNoInitialStop(c, infoRunning) ==
    IF ~state[c].running \/ infoRunning THEN state[c]
    ELSE StoppedState(state[c], -127)

\* register of c (lines 221-261): a container saved as Running is set
\* stopped with code 0 and killed; if Info then says it is not running, it
\* is set stopped with code -127. Each State is saved with ToDisk.
Registered(c, infoRunning) ==
    IF ~state[c].running THEN state[c]
    ELSE StoppedState(state[c], IF infoRunning THEN 0 ELSE -127)

\* The restart-policy pass (lines 367-379) over registeredContainers in
\* order: each container whose policy says so is started with
\* container.Start, whose createNetwork sees the processes started before
\* it in the pass and those that survived register; a failed start is only
\* logged. The set of containers started.
RestartPass(reg, order, survivors) ==
    FoldLeft(LAMBDA acc, c :
                IF AutoRestart /\ ShouldRestart(c, reg[c].exit) /\ JoinOK(c, acc \cup survivors)
                  THEN acc \cup {c} ELSE acc,
             {}, order)

\* A daemon boot: restore registers every container, then runs the restart
\* pass. registeredContainers holds first the containers the graph walk
\* reaches, in the walk's order, then the others in map order (lines
\* 326-363): any order of the containers. restore runs before the daemon
\* serves requests.
Boot ==
    /\ ~up
    /\ boots < MaxBoots
    /\ \E info \in InfoAnswers, order \in SetToSeqs(Containers) :
        LET reg       == [c \in Containers |-> Registered(c, info[c])]
            survivors == {c \in Containers : proc[c] /\ c \notin Killed}
            restart   == RestartPass(reg, order, survivors)
        IN  /\ gen' = [c \in Containers |-> IF c \in restart THEN gen[c] + 1 ELSE gen[c]]
            /\ state' = [c \in Containers |->
                           IF c \in restart THEN [reg[c] EXCEPT !.running = TRUE, !.pid = gen'[c]]
                           ELSE reg[c]]
            /\ proc' = [c \in Containers |-> c \in restart \/ c \in survivors]
    /\ up' = TRUE
    /\ boots' = boots + 1
    /\ UNCHANGED runs

Init ==
    /\ state = [c \in Containers |-> [running |-> FALSE, exit |-> 0, pid |-> 0]]
    /\ proc = [c \in Containers |-> FALSE]
    /\ gen = [c \in Containers |-> 0]
    /\ up = FALSE
    /\ runs = 0
    /\ boots = 0

Next ==
    \/ Boot
    \/ Crash
    \/ \E c \in Containers : Start(c) \/ ProcExit(c)

Spec == Init /\ [][Next]_vars

-----------------------------------------------------------------------------
(***************************************************************************)
(* Properties                                                              *)
(***************************************************************************)

TypeOK ==
    /\ state \in [Containers -> [running : BOOLEAN, exit : ExitCodes \cup {-127},
                                 pid : Nat]]
    /\ proc \in [Containers -> BOOLEAN]
    /\ gen \in [Containers -> Nat]
    /\ up \in BOOLEAN /\ runs \in 0..MaxRuns /\ boots \in 0..MaxBoots

\* Spec 8, invariant 2: for every container the daemon holds as running,
\* the exec driver has it running, with the pid saved in its State. It must
\* survive crashes that kill native processes and leave lxc ones, and the
\* restart policy applied by restore.
RunningHasProcess ==
    up => \A c \in Containers :
            state[c].running => proc[c] /\ state[c].pid = gen[c]

\* The daemon tracks every live container process: once restore has run,
\* no process of a container the daemon holds as stopped is left running
\* (an lxc process surviving a crash is what register's kill is for).
ProcessTracked ==
    up => \A c \in Containers : proc[c] => state[c].running

\* Spec 4.J step 13 ("Apply restart policy on restored containers"): a
\* boot leaves every container whose policy is "always", or "on-failure"
\* with a non-zero exit code, running. At stake is the order of restore's
\* restart pass (daemon.go lines 326-379), which knows nothing of one
\* container joining another's network namespace (create.go line 121).
RestartPolicyApplied ==
    [][~up /\ up' =>
         \A c \in Containers :
            (AutoRestart /\ ShouldRestart(c, state'[c].exit)) => state'[c].running]_vars

\* Spec 8, scenario 5 and 4.J step 12: at a boot, a container saved as
\* Running whose process is still alive is adopted: its process goes on
\* running, the same process.
AdoptLiveContainers ==
    [][~up /\ up' =>
         \A c \in Containers :
            (state[c].running /\ proc[c]) => (proc'[c] /\ gen'[c] = gen[c])]_vars

=============================================================================
