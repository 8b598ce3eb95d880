--------------------------- MODULE ServiceInstance ---------------------------
(***************************************************************************)
(* The processes of the tailproxy command and the files by which they know *)
(* of each other (cmd/tailproxy/main.go, internal/service, internal/token): *)
(* daemons that start, serve and end, in the background or not, `tailproxy *)
(* start` that spawns one and waits for its report, `tailproxy stop`, and  *)
(* `tailproxy token --rotate`.  There is no lock: the state file, the panel *)
(* port and the token file are read in one step and changed in another.    *)
(***************************************************************************)
EXTENDS Naturals

CONSTANTS
  Starters,   \* runs of `tailproxy start`, each with a daemon of its own
  Runs,       \* daemons started by `tailproxy run`
  Stoppers,   \* runs of `tailproxy stop`
  Child(_),   \* the daemon a starter spawns
  Old,        \* a daemon of the past
  None,
  Envs        \* what may happen: see Env

Daemons == {Child(s) : s \in Starters} \union Runs
Pids == Daemons \union {Old}
Commands == Starters \union Stoppers
Actors == Daemons \union Commands

ASSUME ActorsAssumption ==
  /\ None \notin Pids
  /\ Old \notin Actors
  /\ Commands \cap Daemons = {}
  /\ Starters \cap Stoppers = {}
  /\ \A s, u \in Starters : s # u => Child(s) # Child(u)
  /\ \A s \in Starters : Child(s) \notin Runs
  /\ Pids \cap {"none", "empty", "rotated"} = {}

\* The circumstances of one behaviour: the commands that are given, in turns or
\* not; whether panel.listen names a port, where the panel's token comes from,
\* whether a state file or a token is left from the past, and what fails.
Env == [commands : SUBSET (Commands \union Runs),
        patient  : BOOLEAN,
        port     : {"fixed", "any"},
        token    : {"file", "other"},
        past     : SUBSET {"state", "token"},
        faults   : SUBSET {"kill", "slow", "state", "token", "kernel", "report", "rotate"}]

ASSUME EnvsAssumption == Envs \subseteq Env

VARIABLES
  env,
  state,    \* tailproxy.json: the pid it names, or None
  token,    \* tailproxy.token: "none", "empty", or who made what is in it
  port,     \* who listens on the panel port
  rules,    \* whose rules and routes the kernel has
  report,   \* what a starter's pipe holds, or that it was closed with nothing in it
  act       \* what each process is doing

serviceVars == <<env, state, token, port, rules, report, act>>
files == <<state, token>>

at(a, pc) == act[a].pc = pc
Goto(a, pc) == act' = [act EXCEPT ![a].pc = pc]

\* A daemon that has ended by itself is "dead", one that a signal ended "killed".
Gone == {"dead", "killed"}
Ended == Gone \union {"none", "idle", "started", "stopped", "failed"}
processAlive(p) == p \in Daemons /\ act[p].pc \notin Gone \union {"none"}
Starting(p) == act[p].pc \in {"running", "clean", "remove", "token", "create", "again", "write", "listen", "setup", "state", "report", "start"}
Serving(p) == act[p].pc = "serve"
Closing(p) == (Serving(p) /\ act[p].term) \/ act[p].pc \in {"cleanup", "forget", "close", "exit"}

\* A daemon is gone: the system closes its sockets and its end of the pipe.
Die(p, how) ==
  /\ act' = [act EXCEPT ![p].pc = how]
  /\ port' = IF port = p THEN None ELSE port

-----------------------------------------------------------------------------
(* Paths.Running, called by every command and every daemon.                *)

\* What a caller does when nothing runs, as far as it knows.
WhenNone(a) ==
  CASE a \in Starters -> "spawn"
    [] a \in Daemons -> IF env.token = "file" THEN "token" ELSE "listen"
    [] OTHER -> "stopped"

\* ReadState.  A live daemon makes a start fail; stop goes on if it is the one
\* it has signalled, or still has to.
ReadState(a) ==
  /\ at(a, "running")
  /\ IF state = None THEN Goto(a, WhenNone(a))
     ELSE IF ~processAlive(state) THEN act' = [act EXCEPT ![a].pc = "clean", ![a].seen = state]
     ELSE CASE a \in Starters -> Goto(a, "failed")
            [] a \in Daemons -> act' = [act EXCEPT ![a].pc = "exit", ![a].err = TRUE]
            [] OTHER ->
                 IF act[a].seen = None THEN act' = [act EXCEPT ![a].pc = "signal", ![a].seen = state]
                 ELSE /\ act[a].seen # state
                      /\ Goto(a, "stopped")
  /\ UNCHANGED <<env, files, port, rules, report>>

\* Cleanup reads the file again, and removes it if it names the same process or
\* a dead one: that is not what remove finds if a daemon has written it since.
CleanRead(a) ==
  /\ at(a, "clean")
  /\ Goto(a, IF state = None \/ (state # act[a].seen /\ processAlive(state)) THEN WhenNone(a) ELSE "remove")
  /\ UNCHANGED <<env, files, port, rules, report>>

CleanRemove(a) ==
  /\ at(a, "remove")
  /\ state' = None
  /\ Goto(a, WhenNone(a))
  /\ UNCHANGED <<env, token, port, rules, report>>

-----------------------------------------------------------------------------
(* tailproxy start and stop.                                               *)

\* With patience, nobody starts a daemon while one is closing, nor stops one
\* while one is starting.
MayGive(c) ==
  /\ c \in env.commands
  /\ env.patient => \A p \in Daemons : IF c \in Stoppers THEN ~Starting(p) ELSE ~Closing(p)
  /\ env.patient /\ c \in Stoppers => \A s \in Starters : act[s].pc \in Ended
  /\ env.patient /\ c \notin Stoppers => \A k \in Stoppers : act[k].pc \in Ended

Give(c) ==
  /\ c \in Commands
  /\ at(c, "idle")
  /\ MayGive(c)
  /\ Goto(c, "running")
  /\ UNCHANGED <<env, files, port, rules, report>>

\* Spawn: `tailproxy run --daemon-child`, with a pipe to report on.
Spawn(s) ==
  /\ at(s, "spawn")
  /\ act' = [act EXCEPT ![s].pc = "wait", ![Child(s)].pc = "running"]
  /\ UNCHANGED <<env, files, port, rules, report>>

\* What the child reports, or that it has ended without a report.
HasAnswer(s) == report[s] \in {"ok", "error"}

Read(s) ==
  /\ at(s, "wait")
  /\ HasAnswer(s) \/ act[Child(s)].pc \in Gone
  /\ Goto(s, IF report[s] = "ok" THEN "started" ELSE "failed")
  /\ UNCHANGED <<env, files, port, rules, report>>

\* Faulty variant: the child is left alone.
TimeoutLeaves(s) ==
  /\ at(s, "wait")
  /\ "slow" \in env.faults
  /\ ~HasAnswer(s)
  /\ act[Child(s)].pc \notin Gone
  /\ Goto(s, "failed")
  /\ UNCHANGED <<env, files, port, rules, report>>

\* After 15 seconds without a report the child is killed, or a second after its
\* pipe was closed without one.
Timeout(s) ==
  /\ at(s, "wait")
  /\ "slow" \in env.faults
  /\ ~HasAnswer(s)
  /\ act[Child(s)].pc \notin Gone
  /\ act' = [act EXCEPT ![s].pc = "failed", ![Child(s)].pc = "killed"]
  /\ port' = IF port = Child(s) THEN None ELSE port
  /\ UNCHANGED <<env, files, rules, report>>

\* SIGTERM kills a daemon before signal.NotifyContext, and again once that is
\* undone, which is the first thing an ending daemon does.
Terminate(k) ==
  LET p == act[k].seen IN
  /\ at(k, "signal")
  /\ IF ~processAlive(p) THEN Goto(k, "failed") /\ UNCHANGED port
     ELSE IF Serving(p)
     THEN act' = [act EXCEPT ![k].pc = "running", ![p].term = TRUE] /\ UNCHANGED port
     ELSE /\ act' = [act EXCEPT ![k].pc = "running", ![p].pc = "killed"]
          /\ port' = IF port = p THEN None ELSE port
  /\ UNCHANGED <<env, files, rules, report>>

\* stop looks a hundred times, and gives up.
GiveUp(k) ==
  /\ k \in Stoppers
  /\ at(k, "running")
  /\ act[k].seen # None
  /\ state = act[k].seen
  /\ Goto(k, "failed")
  /\ UNCHANGED <<env, files, port, rules, report>>

-----------------------------------------------------------------------------
(* The daemon: cmdRun.                                                     *)

Run(p) ==
  /\ p \in Runs
  /\ at(p, "none")
  /\ MayGive(p)
  /\ Goto(p, "running")
  /\ UNCHANGED <<env, files, port, rules, report>>

\* A daemon that fails runs its deferred calls from here.
Fail(p, pc) == act' = [act EXCEPT ![p].pc = pc, ![p].err = TRUE]

\* LoadOrCreate reads the token file; one without a token is refused.
ReadToken(p) ==
  /\ at(p, "token")
  /\ CASE token = "none" -> Goto(p, "create")
       [] token = "empty" -> Fail(p, "exit")
       [] OTHER -> act' = [act EXCEPT ![p].pc = "listen", ![p].token = token]
  /\ UNCHANGED <<env, files, port, rules, report>>

\* Faulty variant: an existing file is truncated.
CreateTokenAlways(p) ==
  /\ at(p, "create")
  /\ token' = "empty"
  /\ Goto(p, "write")
  /\ UNCHANGED <<env, state, port, rules, report>>

\* O_EXCL: the file is there, empty, before it is written; whoever comes second
\* reads it.
CreateToken(p) ==
  /\ at(p, "create")
  /\ IF token = "none" THEN token' = "empty" /\ Goto(p, "write")
     ELSE UNCHANGED token /\ Goto(p, "again")
  /\ UNCHANGED <<env, state, port, rules, report>>

ReadTokenAgain(p) ==
  /\ at(p, "again")
  /\ IF token \in {"none", "empty"} THEN Fail(p, "exit")
     ELSE act' = [act EXCEPT ![p].pc = "listen", ![p].token = token]
  /\ UNCHANGED <<env, files, port, rules, report>>

\* The token goes to the file that was created, which a rotation may have
\* replaced since; one that cannot be written is removed by name.
WriteToken(p) ==
  /\ at(p, "write")
  /\ \/ /\ act' = [act EXCEPT ![p].pc = "listen", ![p].token = p]
        /\ token' = IF token = "empty" THEN p ELSE token
     \/ /\ "token" \in env.faults
        /\ Fail(p, "exit")
        /\ token' = "none"
  /\ UNCHANGED <<env, state, port, rules, report>>

\* Rotate replaces the file by a rename.
Rotate ==
  /\ "rotate" \in env.faults
  /\ token # "rotated"
  /\ token' = "rotated"
  /\ UNCHANGED <<env, state, port, rules, report, act>>

\* Faulty variant: a port that is taken is left to its owner.
ListenElsewhere(p) ==
  /\ at(p, "listen")
  /\ Goto(p, "setup")
  /\ port' = IF env.port = "fixed" /\ port = None THEN p ELSE port
  /\ UNCHANGED <<env, files, rules, report>>

\* panel.Listen: a port that is named has one listener.
Listen(p) ==
  /\ at(p, "listen")
  /\ IF env.port = "fixed" /\ port # None
     THEN Fail(p, "exit") /\ UNCHANGED port
     ELSE Goto(p, "setup") /\ port' = IF env.port = "fixed" THEN p ELSE port
  /\ UNCHANGED <<env, files, rules, report>>

\* What a process of the past left in the kernel is removed, and the rules of
\* this one installed, in place of whoever's there are; that may fail.
Setup(p) ==
  /\ at(p, "setup")
  /\ \/ rules' = p /\ Goto(p, "state")
     \/ "kernel" \in env.faults /\ rules' = None /\ Fail(p, "exit")
  /\ UNCHANGED <<env, files, port, report>>

\* Faulty variant: a state file that cannot be written is done without.
WriteStateIgnored(p) ==
  /\ at(p, "state")
  /\ \/ state' = p
     \/ "state" \in env.faults /\ UNCHANGED state
  /\ Goto(p, "report")
  /\ UNCHANGED <<env, token, port, rules, report>>

WriteState(p) ==
  /\ at(p, "state")
  /\ \/ state' = p /\ Goto(p, "report")
     \/ "state" \in env.faults /\ UNCHANGED state /\ Fail(p, "close")
  /\ UNCHANGED <<env, token, port, rules, report>>

\* The starter of p, if it has one and that still waits.
Waiting(p) == {s \in Starters : Child(s) = p /\ at(s, "wait")}

\* A background daemon reports before its kernel is started; one that cannot
\* write to the pipe has closed it, and ends.
Report(p) ==
  /\ at(p, "report")
  /\ \E answer \in {"ok", "closed"} :
       /\ report' = [s \in Starters |-> IF s \in Waiting(p) THEN answer ELSE report[s]]
       /\ IF answer = "ok" THEN Goto(p, "start") ELSE p \notin Runs /\ "report" \in env.faults /\ Fail(p, "cleanup")
  /\ UNCHANGED <<env, files, port, rules>>

\* signal.NotifyContext, eng.Start, and the panel serves.
StartKernel(p) ==
  /\ at(p, "start")
  /\ \/ Goto(p, "serve")
     \/ "kernel" \in env.faults /\ Fail(p, "cleanup")
  /\ UNCHANGED <<env, files, port, rules, report>>

\* The panel stops serving, and its listener is closed.
End(p) ==
  /\ Serving(p)
  /\ act[p].term
  /\ Goto(p, "cleanup")
  /\ port' = IF port = p THEN None ELSE port
  /\ UNCHANGED <<env, files, rules, report>>

\* The deferred calls run from the last to the first: Cleanup of the state
\* file, then the rules and the kernel, then the report of an error.
Cleanup(p) ==
  /\ at(p, "cleanup")
  /\ Goto(p, IF state = None \/ (state # p /\ processAlive(state)) THEN "close" ELSE "forget")
  /\ UNCHANGED <<env, files, port, rules, report>>

Forget(p) ==
  /\ at(p, "forget")
  /\ state' = None
  /\ Goto(p, "close")
  /\ UNCHANGED <<env, token, port, rules, report>>

\* Rules and routes are removed by name: whose they are is not known.
Close(p) ==
  /\ at(p, "close")
  /\ rules' = None
  /\ Goto(p, "exit")
  /\ UNCHANGED <<env, files, port, report>>

Exit(p) ==
  /\ at(p, "exit")
  /\ report' = [s \in Starters |-> IF s \in Waiting(p) /\ act[p].err /\ report[s] = "none" THEN "error" ELSE report[s]]
  /\ Die(p, "dead")
  /\ UNCHANGED <<env, files, rules>>

\* The process is killed; what it put in files and in the kernel stays.
Kill(p) ==
  /\ "kill" \in env.faults
  /\ processAlive(p)
  /\ Die(p, "killed")
  /\ UNCHANGED <<env, files, rules, report>>

-----------------------------------------------------------------------------
ServiceInit ==
  /\ env \in Envs
  /\ state = IF "state" \in env.past THEN Old ELSE None
  /\ token = IF "token" \in env.past THEN Old ELSE "none"
  /\ port = None
  /\ rules = IF "state" \in env.past THEN Old ELSE None
  /\ report = [s \in Starters |-> "none"]
  /\ act = [a \in Actors |-> [pc |-> IF a \in Daemons THEN "none" ELSE "idle", seen |-> None, token |-> "none",
                              err |-> FALSE, term |-> FALSE]]

Start(s) == Spawn(s) \/ Read(s) \/ Timeout(s)
Stop(k) == Terminate(k) \/ GiveUp(k)
Running(a) == ReadState(a) \/ CleanRead(a) \/ CleanRemove(a)
Daemon(p) ==
  \/ ReadToken(p) \/ CreateToken(p) \/ ReadTokenAgain(p) \/ WriteToken(p)
  \/ Listen(p) \/ Setup(p) \/ WriteState(p) \/ Report(p) \/ StartKernel(p)
  \/ End(p) \/ Cleanup(p) \/ Forget(p) \/ Close(p) \/ Exit(p)

ServiceNext ==
  \/ \E c \in Commands : Give(c)
  \/ \E a \in Actors : Running(a)
  \/ \E s \in Starters : Start(s)
  \/ \E k \in Stoppers : Stop(k)
  \/ \E p \in Daemons : Run(p) \/ Daemon(p) \/ Kill(p)
  \/ Rotate

ServiceSpec == ServiceInit /\ [][ServiceNext]_serviceVars

-----------------------------------------------------------------------------
(* Properties.                                                             *)

Pcs == Gone \union {"none", "idle", "running", "clean", "remove", "spawn", "wait", "started", "failed", "signal", "stopped",
        "token", "create", "again", "write", "listen", "setup", "state", "report", "start", "serve", "cleanup",
        "forget", "close", "exit"}
TokenFile == Pids \union {"none", "empty", "rotated"}

TypeOK ==
  /\ env \in Envs
  /\ state \in Pids \union {None}
  /\ token \in TokenFile
  /\ port \in Daemons \union {None}
  /\ rules \in Pids \union {None}
  /\ report \in [Starters -> {"none", "ok", "error", "closed"}]
  /\ act \in [Actors -> [pc : Pcs, seen : Pids \union {None}, token : TokenFile \ {"empty"}, err : BOOLEAN, term : BOOLEAN]]

\* Two daemons that take the panel token from the file have the same, and the
\* file has it, however they raced to create it (token.go:44).
TokenAgreed ==
  "rotate" \notin env.faults =>
    \A p \in Daemons : act[p].token # "none" => token = act[p].token

\* Where a daemon can be once it has reported, or ended without a report.
Reported == Gone \union {"start", "serve", "cleanup", "forget", "close", "exit"}

\* A start that failed leaves no daemon behind, and one that succeeded had its
\* daemon listening, with its rules installed and its state written
\* (spawn_unix.go:75).
StartTellsTruth ==
  \A s \in Starters :
    /\ at(s, "failed") => ~processAlive(Child(s))
    /\ at(s, "started") => act[Child(s)].pc \in Reported

\* A daemon that serves keeps its rules in the kernel, though another tries to
\* start: with a port of their own to race for, the one that comes second gives
\* up before it touches the kernel (main.go:241).
ServingHasRules ==
  env.port = "fixed" /\ env.patient =>
    \A p \in Daemons : act[p].pc \in {"state", "report", "start", "serve"} => rules = p

\* No state file was left behind by a daemon that a signal ended: kill -9, a
\* start that has waited too long, a stop while it was starting or ending.
NobodyKilled == "state" \notin env.past /\ \A p \in Daemons : ~at(p, "killed")

\* The state file names the daemon that serves, so that stop, status and a second
\* start find it, as long as nobody has left one behind (main.go:318).
StateNamesServer ==
  env.port = "fixed" /\ env.patient /\ NobodyKilled =>
    \A p \in Daemons : Serving(p) => state = p
=============================================================================
