--------------------------- MODULE BacarraRoutes ---------------------------
(***************************************************************************)
(* Bacarra mode (internal/kernel/bacarra): the routes injected into the    *)
(* host's routing table, the record of them in bacarra_routes.json, and    *)
(* the three things that remove them: Engine.Close, the next start, and    *)
(* `tailproxy capture down`.  Every system call is a step of its own, so   *)
(* that a kill, or another process, can come between any two of them.      *)
(***************************************************************************)

CONSTANTS
  Prefixes,    \* prefixes that a configuration may route (FakeIP and ip_cidr)
  Reloaders,   \* goroutines that call Engine.Reload
  Operators,   \* processes that run `tailproxy capture down`
  Envs,        \* what may happen: see Env
  NoThread

Daemon == {"main"} \union Reloaders
Threads == Daemon \union Operators

ASSUME ThreadsAssumption ==
  /\ NoThread \notin Threads
  /\ "main" \notin Reloaders \union Operators
  /\ Reloaders \intersect Operators = {}

\* The circumstances of one behaviour: the calls that may fail ("adapter":
\* TeardownStale finds no adapter), damage to the record of a dead process,
\* a kill at any time or ("lateKill") at any time but in Apply; the threads
\* that take part; whether rules are saved in the panel.
Env == [faults    : SUBSET {"add", "delete", "save", "remove", "adapter", "corrupt", "kill", "lateKill"},
        reloaders : SUBSET Reloaders,
        operators : SUBSET Operators,
        edits     : BOOLEAN]

ASSUME EnvsAssumption == Envs \subseteq Env

VARIABLES
  env,      \* the circumstances, chosen once
  host,     \* routes of ours in the host's routing table
  file,     \* bacarra_routes.json: NoFile, Corrupt or Record(routes)
  rules,    \* what applyRoutes would ask for: FakeIP and RoutedPrefixes
  life,     \* "down", "boot", "serve" or "stop": where cmdRun is
  emu,      \* writer of Engine.mu that keeps it across steps (Close)
  rmu,      \* holder of RouteManager.mu
  applied,  \* RouteManager.applied
  thr       \* what each thread is doing

vars == <<env, host, file, rules, life, emu, rmu, applied, thr>>

\* What the state file can be.
NoFile == [kind |-> "none", routes |-> {}]
Corrupt == [kind |-> "corrupt", routes |-> {}]
Record(routes) == [kind |-> "ok", routes |-> routes]

Phases == {"idle", "compute", "lock", "add", "del", "write", "rename",
           "close", "closeLock", "closeDel", "closeUnlink",
           "read", "purge", "unlink"}
idle == [pc |-> "idle", want |-> {}, todo |-> {}, failed |-> FALSE]
at(t, pc) == thr[t].pc = pc
Goto(t, pc) == thr' = [thr EXCEPT ![t].pc = pc]

Init ==
  /\ env \in Envs
  /\ host = {}
  /\ file = NoFile
  /\ rules \in SUBSET Prefixes
  /\ life = "down"
  /\ emu = NoThread
  /\ rmu = NoThread
  /\ applied = {}
  /\ thr = [t \in Threads |-> idle]

\* RemoveRouteState; whoever calls it goes on all the same.
RemoveRouteState ==
  \/ file' = NoFile
  \/ "remove" \in env.faults /\ UNCHANGED file

-----------------------------------------------------------------------------
(* RouteManager.Apply, reached through Engine.Start and Engine.Reload.     *)

\* applyRoutes collects the prefixes under Engine.mu and then lets it go.
Compute(t) ==
  /\ at(t, "compute")
  /\ emu = NoThread
  /\ thr' = [thr EXCEPT ![t] = [idle EXCEPT !.pc = "lock", !.want = rules]]
  /\ UNCHANGED <<env, host, file, rules, life, emu, rmu, applied>>

Lock(t) ==
  /\ at(t, "lock")
  /\ rmu = NoThread
  /\ rmu' = t
  /\ thr' = [thr EXCEPT ![t].pc = "add", ![t].todo = thr[t].want \ applied]
  /\ UNCHANGED <<env, host, file, rules, life, emu, applied>>

\* One prefix of the first loop, or its end.
AddRoute(t, p) ==
  /\ at(t, "add")
  /\ p \in thr[t].todo
  /\ \/ /\ host' = host \union {p}
        /\ applied' = applied \union {p}
        /\ thr' = [thr EXCEPT ![t].todo = @ \ {p}]
     \/ /\ "add" \in env.faults
        /\ thr' = [thr EXCEPT ![t].todo = @ \ {p}, ![t].failed = TRUE]
        /\ UNCHANGED <<host, applied>>
  /\ UNCHANGED <<env, file, rules, life, emu, rmu>>

AddDone(t) ==
  /\ at(t, "add")
  /\ thr[t].todo = {}
  /\ thr' = [thr EXCEPT ![t].pc = "del", ![t].todo = applied \ thr[t].want]
  /\ UNCHANGED <<env, host, file, rules, life, emu, rmu, applied>>

\* driver.DeleteRoute: a route that is not there is no error.
Delete(t, p) ==
  \/ /\ host' = host \ {p}
     /\ thr' = [thr EXCEPT ![t].todo = @ \ {p}]
  \/ /\ "delete" \in env.faults
     /\ thr' = [thr EXCEPT ![t].todo = @ \ {p}, ![t].failed = TRUE]
     /\ UNCHANGED host

\* A route that could not be deleted is forgotten all the same, here and
\* in Close.
DelRoute(t, p) ==
  /\ at(t, "del")
  /\ p \in thr[t].todo
  /\ Delete(t, p)
  /\ applied' = applied \ {p}
  /\ UNCHANGED <<env, file, rules, life, emu, rmu>>

DelDone(t) ==
  /\ at(t, "del")
  /\ thr[t].todo = {}
  /\ Goto(t, "write")
  /\ UNCHANGED <<env, host, file, rules, life, emu, rmu, applied>>

\* Faulty variant of Return: RouteManager.mu stays locked.
ReturnLocked(t, failed) ==
  LET next == IF t = "main" /\ failed THEN "close" ELSE "idle"
  IN  /\ thr' = [thr EXCEPT ![t] = [idle EXCEPT !.pc = next, !.failed = failed]]
      /\ life' = IF t # "main" THEN life ELSE IF failed THEN "stop" ELSE "serve"
      /\ UNCHANGED rmu

\* Apply returns to Start or Reload; a Start that failed stops the process.
Return(t, failed) ==
  LET next == IF t = "main" /\ failed THEN "close" ELSE "idle"
  IN  /\ rmu' = NoThread
      /\ thr' = [thr EXCEPT ![t] = [idle EXCEPT !.pc = next, !.failed = failed]]
      /\ life' = IF t # "main" THEN life ELSE IF failed THEN "stop" ELSE "serve"

\* SaveRouteState writes a temporary file of its own, then renames it.
SaveWrite(t) ==
  /\ at(t, "write")
  /\ \/ Goto(t, "rename") /\ UNCHANGED <<life, rmu>>
     \/ "save" \in env.faults /\ Return(t, TRUE)
  /\ UNCHANGED <<env, host, file, rules, emu, applied>>

\* A rename that fails is tried once more after the old record was removed.
SaveRename(t) ==
  /\ at(t, "rename")
  /\ \/ file' = Record(applied) /\ Return(t, thr[t].failed)
     \/ "save" \in env.faults /\ RemoveRouteState /\ Return(t, TRUE)
  /\ UNCHANGED <<env, host, rules, emu, applied>>

Apply(t) ==
  \/ Compute(t) \/ Lock(t) \/ AddDone(t) \/ DelDone(t) \/ SaveWrite(t) \/ SaveRename(t)
  \/ \E p \in Prefixes : AddRoute(t, p) \/ DelRoute(t, p)

-----------------------------------------------------------------------------
(* Engine.Close, which keeps Engine.mu to its end.                         *)

CloseEngine ==
  /\ at("main", "close")
  /\ emu = NoThread
  /\ emu' = "main"
  /\ Goto("main", "closeLock")
  /\ UNCHANGED <<env, host, file, rules, life, rmu, applied>>

\* Faulty variant of CloseLock: the record, not the table, says what to undo.
CloseLockRecorded ==
  /\ at("main", "closeLock")
  /\ rmu = NoThread
  /\ rmu' = "main"
  /\ thr' = [thr EXCEPT !["main"].pc = "closeDel", !["main"].todo = applied \intersect file.routes]
  /\ UNCHANGED <<env, host, file, rules, life, emu, applied>>

CloseLock ==
  /\ at("main", "closeLock")
  /\ rmu = NoThread
  /\ rmu' = "main"
  /\ thr' = [thr EXCEPT !["main"].pc = "closeDel", !["main"].todo = applied]
  /\ UNCHANGED <<env, host, file, rules, life, emu, applied>>

CloseDel(p) ==
  /\ at("main", "closeDel")
  /\ p \in thr["main"].todo
  /\ Delete("main", p)
  /\ applied' = applied \ {p}
  /\ UNCHANGED <<env, file, rules, life, emu, rmu>>

CloseDelDone ==
  /\ at("main", "closeDel")
  /\ thr["main"].todo = {}
  /\ Goto("main", "closeUnlink")
  /\ UNCHANGED <<env, host, file, rules, life, emu, rmu, applied>>

\* The record goes, and both locks; cmdRun calls Teardown next.
CloseUnlink ==
  /\ at("main", "closeUnlink")
  /\ RemoveRouteState
  /\ rmu' = NoThread
  /\ emu' = NoThread
  /\ Goto("main", "read")
  /\ UNCHANGED <<env, host, rules, life, applied>>

Close ==
  \/ CloseEngine \/ CloseLock \/ CloseDelDone \/ CloseUnlink
  \/ \E p \in Prefixes : CloseDel(p)

-----------------------------------------------------------------------------
(* TeardownStale, which takes no lock.                                     *)

\* What follows it: cmdRun goes on to Engine.Start or ends with all its
\* goroutines, the operator's command ends.
AfterTeardown(t) ==
  IF t # "main"
    THEN thr' = [thr EXCEPT ![t] = idle] /\ UNCHANGED <<life, emu, rmu, applied>>
  ELSE IF life = "boot"
    THEN Goto(t, "compute") /\ UNCHANGED <<life, emu, rmu, applied>>
  ELSE /\ thr' = [u \in Threads |-> IF u \in Daemon THEN idle ELSE thr[u]]
       /\ life' = "down"
       /\ emu' = NoThread
       /\ rmu' = NoThread
       /\ applied' = {}

\* Faulty variant of TeardownRead: the record goes before the routes do.
TeardownReadRemoving(t) ==
  /\ at(t, "read")
  /\ file' = NoFile
  /\ IF file.kind # "ok"
       THEN AfterTeardown(t)
       ELSE /\ thr' = [thr EXCEPT ![t].pc = "purge", ![t].todo = file.routes]
            /\ UNCHANGED <<life, emu, rmu, applied>>
  /\ UNCHANGED <<env, host, rules>>

\* No record: nothing to do.  One that does not parse is removed, and its
\* routes stay.
TeardownRead(t) ==
  /\ at(t, "read")
  /\ IF file.kind # "ok"
       THEN RemoveRouteState /\ AfterTeardown(t)
       ELSE /\ \/ thr' = [thr EXCEPT ![t].pc = "purge", ![t].todo = file.routes]
               \/ "adapter" \in env.faults /\ Goto(t, "unlink")
            /\ UNCHANGED <<file, life, emu, rmu, applied>>
  /\ UNCHANGED <<env, host, rules>>

TeardownDelete(t, p) ==
  /\ at(t, "purge")
  /\ p \in thr[t].todo
  /\ Delete(t, p)
  /\ UNCHANGED <<env, file, rules, life, emu, rmu, applied>>

TeardownDeleted(t) ==
  /\ at(t, "purge")
  /\ thr[t].todo = {}
  /\ Goto(t, "unlink")
  /\ UNCHANGED <<env, host, file, rules, life, emu, rmu, applied>>

\* The record goes even when a route it names could not be deleted.
TeardownUnlink(t) ==
  /\ at(t, "unlink")
  /\ RemoveRouteState
  /\ AfterTeardown(t)
  /\ UNCHANGED <<env, host, rules>>

TeardownStale(t) ==
  \/ TeardownRead(t) \/ TeardownDeleted(t) \/ TeardownUnlink(t)
  \/ \E p \in Prefixes : TeardownDelete(t, p)

-----------------------------------------------------------------------------
(* Who calls what.                                                         *)

\* cmdRun with whatever rules the configuration now has.
Launch ==
  /\ life = "down"
  /\ life' = "boot"
  /\ rules' \in SUBSET Prefixes
  /\ Goto("main", "read")
  /\ UNCHANGED <<env, host, file, emu, rmu, applied>>

\* Rules saved in the panel replace the engine that the getter returns.
SaveRules ==
  /\ env.edits
  /\ life = "serve"
  /\ rules' \in SUBSET Prefixes
  /\ UNCHANGED <<env, host, file, life, emu, rmu, applied, thr>>

\* Engine.Reload: the rules are replaced under Engine.mu, then applied.
Reload(t) ==
  /\ t \in env.reloaders
  /\ life = "serve"
  /\ at(t, "idle")
  /\ emu = NoThread
  /\ rules' \in SUBSET Prefixes
  /\ Goto(t, "compute")
  /\ UNCHANGED <<env, host, file, life, emu, rmu, applied>>

\* SIGTERM: the panel's Serve returns and the deferred Close runs.
Stop ==
  /\ life = "serve"
  /\ life' = "stop"
  /\ Goto("main", "close")
  /\ UNCHANGED <<env, host, file, rules, emu, rmu, applied>>

CaptureDown(t) ==
  /\ t \in env.operators
  /\ at(t, "idle")
  /\ Goto(t, "read")
  /\ UNCHANGED <<env, host, file, rules, life, emu, rmu, applied>>

\* The process is killed: routes and record stay.
Applying == \E t \in Daemon : thr[t].pc \in {"add", "del", "write", "rename"}

Kill ==
  /\ life # "down"
  /\ "kill" \in env.faults \/ ("lateKill" \in env.faults /\ ~Applying)
  /\ thr' = [t \in Threads |-> IF t \in Daemon THEN idle ELSE thr[t]]
  /\ life' = "down"
  /\ emu' = NoThread
  /\ rmu' = NoThread
  /\ applied' = {}
  /\ UNCHANGED <<env, host, file, rules>>

\* The record of a killed process is found empty or cut short.
Damage ==
  /\ "corrupt" \in env.faults
  /\ life = "down"
  /\ file # NoFile
  /\ file' = Corrupt
  /\ UNCHANGED <<env, host, rules, life, emu, rmu, applied, thr>>

Next ==
  \/ \E t \in Daemon : Apply(t)
  \/ Close
  \/ \E t \in {"main"} \union Operators : TeardownStale(t)
  \/ Launch
  \/ SaveRules
  \/ \E t \in Reloaders : Reload(t)
  \/ Stop
  \/ \E t \in Operators : CaptureDown(t)
  \/ Kill
  \/ Damage

Spec == Init /\ [][Next]_vars

\* Goroutines are scheduled, and sync.Mutex hands itself to a waiter that
\* has waited for long (its starvation mode).
Fairness ==
  /\ \A t \in Daemon : WF_vars(Apply(t)) /\ SF_vars(Lock(t))
  /\ WF_vars(Close) /\ SF_vars(CloseLock)
  /\ \A t \in {"main"} \union Operators : WF_vars(TeardownStale(t))

LiveSpec == Spec /\ Fairness

-----------------------------------------------------------------------------
Thread == [pc : Phases, want : SUBSET Prefixes, todo : SUBSET Prefixes, failed : BOOLEAN]

TypeOK ==
  /\ env \in Env
  /\ host \subseteq Prefixes
  /\ file \in [kind : {"none", "corrupt", "ok"}, routes : SUBSET Prefixes]
  /\ rules \subseteq Prefixes
  /\ life \in {"down", "boot", "serve", "stop"}
  /\ emu \in {NoThread, "main"}
  /\ rmu \in Daemon \union {NoThread}
  /\ applied \subseteq Prefixes
  /\ thr \in [Threads -> Thread]

\* A process that ends by itself, after a failed Start or a signal, and
\* with `capture down` run at any moment beside it, leaves no route behind, nor
\* a record that could be removed (docs/DESIGN.md 4.11.4, normal shutdown).
EndsByItself ==
  env.reloaders = {} /\ env.faults \intersect {"delete", "kill", "lateKill"} = {}

NoRecord == file = NoFile \/ "remove" \in env.faults

CleanExit == EndsByItself /\ life = "down" => host = {} /\ NoRecord

\* The start after a crash removes every route the crashed process left
\* before it applies its own (docs/DESIGN.md 4.11.4, self-healing): as the
\* document says it, and for a process that was not killed inside Apply.
StartHeals == life = "boot" /\ at("main", "compute") => host = {}

KilledLate ==
  /\ env.reloaders = {} /\ env.operators = {}
  /\ env.faults \subseteq {"add", "remove", "lateKill"}

SelfHeal == KilledLate => StartHeals

MainAt(pcs) == thr["main"].pc \in pcs

\* Where cmdRun can be; a restart does its teardown first.
Applies == {"add", "del", "write", "rename"}
Lifeline(teardown) ==
  /\ life = "down" => MainAt({"idle"})
  /\ life = "boot" => MainAt(teardown \union {"compute", "lock"} \union Applies)
  /\ life = "serve" => MainAt({"idle"})
  /\ life = "stop" =>
       MainAt(teardown \union {"close", "closeLock", "closeDel", "closeUnlink"})

\* Strengthens CleanExit: nothing is in the host that is not tracked, so a
\* process that stops tracking has cleaned up.
ExitInv ==
  EndsByItself =>
    /\ Lifeline({"read", "purge", "unlink"})
    /\ host \subseteq applied
    /\ life = "down" => applied = {} /\ NoRecord
    /\ MainAt({"closeDel"}) => applied \subseteq thr["main"].todo
    /\ MainAt({"closeUnlink"}) => applied = {}
    /\ MainAt({"read", "purge", "unlink"}) => applied = {}
    /\ MainAt({"read"}) => NoRecord

\* Strengthens SelfHeal: outside Apply the record names every route there
\* is, and is given up only when none is left.
HealInv ==
  KilledLate =>
    /\ Lifeline({"read", "purge", "unlink"})
    /\ file = NoFile \/ file.kind = "ok"
    /\ MainAt(Applies) \/ host \subseteq file.routes
    /\ MainAt(Applies \union {"close", "closeLock", "closeDel"}) \/ life = "serve"
         => host \subseteq applied
    /\ MainAt({"closeDel"}) => applied \subseteq thr["main"].todo
    /\ MainAt({"purge"}) => host \subseteq thr["main"].todo
    /\ MainAt({"compute", "lock", "closeUnlink", "unlink"}) => host = {}

\* Engine.Start, Close, Reload, TeardownStale and the locks they share:
\* every call returns.
CallsReturn == \A t \in Threads : ~at(t, "idle") ~> at(t, "idle")
=============================================================================
