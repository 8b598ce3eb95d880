------------------------ MODULE BacarraRoutes_proofs ------------------------
(***************************************************************************)
(* Proofs about BacarraRoutes: its types, that a process which ends by     *)
(* itself leaves no route (CleanExit), and that a start removes what a     *)
(* process killed outside Apply left (SelfHeal).                           *)
(***************************************************************************)
EXTENDS BacarraRoutes, TLAPS

\* The set of steps, one per handler and caller.
LEMMA NextCases ==
  ASSUME Next
  PROVE  \/ \E t \in Daemon : Compute(t) \/ Lock(t) \/ AddDone(t) \/ DelDone(t)
         \/ \E t \in Daemon, p \in Prefixes : AddRoute(t, p) \/ DelRoute(t, p)
         \/ \E t \in Daemon : SaveWrite(t) \/ SaveRename(t)
         \/ CloseEngine \/ CloseLock \/ CloseDelDone \/ CloseUnlink
         \/ \E p \in Prefixes : CloseDel(p)
         \/ \E t \in {"main"} \union Operators :
              TeardownRead(t) \/ TeardownDeleted(t) \/ TeardownUnlink(t)
         \/ \E t \in {"main"} \union Operators, p \in Prefixes : TeardownDelete(t, p)
         \/ Launch \/ SaveRules \/ Stop \/ Kill \/ Damage
         \/ \E t \in Reloaders : Reload(t)
         \/ \E t \in Operators : CaptureDown(t)
BY DEF Next, Apply, Close, TeardownStale

\* Every thread is known, and main is one of them.
LEMMA ThreadFacts ==
  /\ "main" \in Daemon /\ "main" \in Threads
  /\ Daemon \subseteq Threads /\ Operators \subseteq Threads
  /\ "main" \notin Operators
BY ThreadsAssumption DEF Daemon, Threads

\* Circumstances do not change, so what is assumed of them stays true.
LEMMA EnvFixed == [Next]_vars => env' = env
<1> SUFFICES ASSUME [Next]_vars PROVE env' = env
  OBVIOUS
<1>1. CASE UNCHANGED vars
  BY <1>1 DEF vars
<1>2. CASE Next
  BY <1>2, NextCases
  DEF Compute, Lock, AddDone, DelDone, AddRoute, DelRoute, SaveWrite, SaveRename,
      CloseEngine, CloseLock, CloseDelDone, CloseUnlink, CloseDel, TeardownRead,
      TeardownDeleted, TeardownUnlink, TeardownDelete, Launch, SaveRules, Stop, Kill,
      Damage, Reload, CaptureDown
<1> QED
  BY <1>1, <1>2

-----------------------------------------------------------------------------
(* Types.                                                                  *)

LEMMA TypeInit == Init => TypeOK
BY EnvsAssumption DEF Init, TypeOK, NoFile, idle, Thread, Phases

LEMMA TypeStep == TypeOK /\ [Next]_vars => TypeOK'
<1> SUFFICES ASSUME TypeOK, [Next]_vars
             PROVE  TypeOK'
  OBVIOUS
<1> USE DEF TypeOK, Goto
<1> env' \in Env
  BY EnvFixed
<1>0. \A t \in Threads : thr[t] \in Thread
  OBVIOUS
<1>1. \A t \in Threads : thr[t].pc \in Phases /\ thr[t].want \in SUBSET Prefixes
                           /\ thr[t].todo \in SUBSET Prefixes /\ thr[t].failed \in BOOLEAN
  BY <1>0 DEF Thread
<1>2. ASSUME NEW t \in Daemon, Compute(t) \/ Lock(t) \/ AddDone(t) \/ DelDone(t)
      PROVE  TypeOK'
  <2>1. CASE Compute(t)
    BY <1>1, <2>1, ThreadFacts DEF Compute, Phases, Thread, idle
  <2>2. CASE Lock(t) \/ AddDone(t) \/ DelDone(t)
    BY <1>1, <2>2, ThreadFacts DEF Lock, AddDone, DelDone, Phases, Thread
  <2> QED
    BY <1>2, <2>1, <2>2
<1>3. ASSUME NEW t \in Daemon, NEW p \in Prefixes, AddRoute(t, p) \/ DelRoute(t, p)
      PROVE  TypeOK'
  BY <1>1, <1>3, ThreadFacts DEF AddRoute, DelRoute, Delete, Thread
<1>4. ASSUME NEW t \in Daemon, SaveWrite(t) \/ SaveRename(t)
      PROVE  TypeOK'
  <2> DEFINE Typed == /\ thr' \in [Threads -> Thread]
                      /\ life' \in {"down", "boot", "serve", "stop"}
                      /\ rmu' \in Daemon \union {NoThread}
  <2>1. ASSUME NEW failed \in BOOLEAN, Return(t, failed)
        PROVE  Typed
    <3>1. [idle EXCEPT !.pc = "close", !.failed = failed] \in Thread
      BY DEF Thread, idle, Phases
    <3>2. [idle EXCEPT !.pc = "idle", !.failed = failed] \in Thread
      BY DEF Thread, idle, Phases
    <3> QED
      BY <2>1, <3>1, <3>2, ThreadFacts DEF Return
  <2>2. Return(t, TRUE) => Typed
    BY <2>1
  <2>3. Return(t, thr[t].failed) => Typed
    BY <1>1, <2>1, ThreadFacts
  <2>4. CASE SaveWrite(t)
    <3>1. UNCHANGED <<host, file, rules, emu, applied>>
      BY <2>4 DEF SaveWrite
    <3>2. CASE Goto(t, "rename") /\ UNCHANGED <<life, rmu>>
      BY <1>1, <3>1, <3>2, ThreadFacts DEF Phases, Thread
    <3>3. CASE Return(t, TRUE)
      BY <2>2, <3>1, <3>3
    <3> QED
      BY <2>4, <3>2, <3>3 DEF SaveWrite
  <2>5. CASE SaveRename(t)
    <3>1. UNCHANGED <<host, rules, emu, applied>> /\ file' \in {Record(applied), NoFile, file}
      BY <2>5 DEF SaveRename, RemoveRouteState
    <3>2. Return(t, thr[t].failed) \/ Return(t, TRUE)
      BY <2>5 DEF SaveRename
    <3>3. Typed
      BY <2>2, <2>3, <3>2
    <3>4. file' \in [kind : {"none", "corrupt", "ok"}, routes : SUBSET Prefixes]
      BY <3>1 DEF Record, NoFile
    <3> QED
      BY <3>1, <3>3, <3>4
  <2> QED
    BY <1>4, <2>4, <2>5
<1>5. CASE CloseEngine \/ CloseLock \/ CloseDelDone \/ CloseUnlink
  BY <1>1, <1>5, ThreadFacts
  DEF CloseEngine, CloseLock, CloseDelDone, CloseUnlink, RemoveRouteState, NoFile, Phases, Thread
<1>6. ASSUME NEW p \in Prefixes, CloseDel(p)
      PROVE  TypeOK'
  BY <1>1, <1>6, ThreadFacts DEF CloseDel, Delete, Thread
<1>7. ASSUME NEW t \in {"main"} \union Operators,
             TeardownRead(t) \/ TeardownDeleted(t) \/ TeardownUnlink(t)
      PROVE  TypeOK'
  <2>1. t \in Threads
    BY ThreadFacts
  <2>2. ASSUME AfterTeardown(t)
        PROVE  /\ thr' \in [Threads -> Thread]
               /\ life' \in {"down", "boot", "serve", "stop"}
               /\ emu' \in {NoThread, "main"}
               /\ rmu' \in Daemon \union {NoThread}
               /\ applied' \subseteq Prefixes
    <3>1. idle \in Thread /\ [thr[t] EXCEPT !.pc = "compute"] \in Thread
      BY <1>1, <2>1 DEF idle, Thread, Phases
    <3> QED
      BY <2>1, <2>2, <3>1, ThreadFacts DEF AfterTeardown
  <2>3. CASE TeardownRead(t)
    BY <1>1, <2>1, <2>2, <2>3, ThreadFacts DEF TeardownRead, RemoveRouteState, NoFile, Phases, Thread
  <2>4. CASE TeardownDeleted(t)
    BY <1>1, <2>1, <2>4, ThreadFacts DEF TeardownDeleted, Phases, Thread
  <2>5. CASE TeardownUnlink(t)
    BY <2>2, <2>5 DEF TeardownUnlink, RemoveRouteState, NoFile
  <2> QED
    BY <1>7, <2>3, <2>4, <2>5
<1>8. ASSUME NEW t \in {"main"} \union Operators, NEW p \in Prefixes, TeardownDelete(t, p)
      PROVE  TypeOK'
  BY <1>1, <1>8, ThreadFacts DEF TeardownDelete, Delete, Thread
<1>9. CASE Launch \/ SaveRules \/ Stop \/ Kill \/ Damage
  <2>1. CASE Launch \/ SaveRules \/ Stop
    BY <1>1, <2>1, ThreadFacts DEF Launch, SaveRules, Stop, Phases, Thread
  <2>2. CASE Kill
    <3>1. idle \in Thread
      BY DEF idle, Thread, Phases
    <3> QED
      BY <2>2, <3>1 DEF Kill
  <2>3. CASE Damage
    BY <2>3 DEF Damage, Corrupt
  <2> QED
    BY <1>9, <2>1, <2>2, <2>3
<1>10. ASSUME NEW t \in Reloaders, Reload(t)
       PROVE  TypeOK'
  <2>1. t \in Threads /\ thr[t] \in Thread
    BY <1>1, ThreadFacts DEF Daemon
  <2>2. [thr[t] EXCEPT !.pc = "compute"] \in Thread
    BY <2>1 DEF Phases, Thread
  <2>3. thr' = [thr EXCEPT ![t].pc = "compute"] /\ rules' \subseteq Prefixes
    BY <1>10 DEF Reload, Goto
  <2>4. thr' \in [Threads -> Thread]
    BY <1>1, <2>1, <2>2, <2>3
  <2>5. UNCHANGED <<env, host, file, life, emu, rmu, applied>>
    BY <1>10 DEF Reload
  <2> QED
    BY <1>1, <2>3, <2>4, <2>5
<1>11. ASSUME NEW t \in Operators, CaptureDown(t)
       PROVE  TypeOK'
  BY <1>1, <1>11, ThreadFacts DEF CaptureDown, Phases, Thread
<1>12. CASE UNCHANGED vars
  BY <1>12 DEF vars
<1> QED
  BY <1>2, <1>3, <1>4, <1>5, <1>6, <1>7, <1>8, <1>9, <1>10, <1>11, <1>12, NextCases

\* Every variable keeps its type, whatever fails.
THEOREM RoutesTypeOK == Spec => []TypeOK
BY TypeInit, TypeStep, PTL DEF Spec

-----------------------------------------------------------------------------
(* Threads that take no part stay idle.                                    *)

AbsentIdle ==
  \A u \in Reloaders \union Operators :
    u \notin env.reloaders \union env.operators => at(u, "idle")

LEMMA AbsentInit == Init => AbsentIdle
BY ThreadFacts DEF Init, AbsentIdle, at, idle, Threads, Daemon

\* A thread that is idle moves only to begin a Reload or a `capture down`.
LEMMA IdleStays ==
  ASSUME TypeOK, [Next]_vars,
         NEW u \in Reloaders \union Operators,
         u \notin env.reloaders \union env.operators, at(u, "idle")
  PROVE  at(u, "idle")'
<1> USE DEF at, Goto
<1>1. /\ thr \in [Threads -> Thread] /\ u \in Threads /\ u # "main"
      /\ thr[u].pc = "idle" /\ idle.pc = "idle"
  BY ThreadsAssumption DEF TypeOK, Threads, Daemon, idle
<1>2. ASSUME NEW t \in Daemon, Compute(t) \/ Lock(t) \/ AddDone(t) \/ DelDone(t)
      PROVE  thr'[u].pc = "idle"
  BY <1>1, <1>2 DEF Compute, Lock, AddDone, DelDone
<1>3. ASSUME NEW t \in Daemon, NEW p \in Prefixes, AddRoute(t, p) \/ DelRoute(t, p)
      PROVE  thr'[u].pc = "idle"
  BY <1>1, <1>3 DEF AddRoute, DelRoute, Delete
<1>4. ASSUME NEW t \in Daemon, SaveWrite(t) \/ SaveRename(t)
      PROVE  thr'[u].pc = "idle"
  <2>1. thr[t].pc \in {"write", "rename"}
    BY <1>4 DEF SaveWrite, SaveRename
  <2> QED
    BY <1>1, <1>4, <2>1 DEF SaveWrite, SaveRename, Return
<1>5. CASE CloseEngine \/ CloseLock \/ CloseDelDone \/ CloseUnlink
  BY <1>1, <1>5 DEF CloseEngine, CloseLock, CloseDelDone, CloseUnlink
<1>6. ASSUME NEW p \in Prefixes, CloseDel(p)
      PROVE  thr'[u].pc = "idle"
  BY <1>1, <1>6 DEF CloseDel, Delete
<1>7. ASSUME NEW t \in {"main"} \union Operators,
             TeardownRead(t) \/ TeardownDeleted(t) \/ TeardownUnlink(t)
      PROVE  thr'[u].pc = "idle"
  BY <1>1, <1>7 DEF TeardownRead, TeardownDeleted, TeardownUnlink, AfterTeardown
<1>8. ASSUME NEW t \in {"main"} \union Operators, NEW p \in Prefixes, TeardownDelete(t, p)
      PROVE  thr'[u].pc = "idle"
  BY <1>1, <1>8 DEF TeardownDelete, Delete
<1>9. CASE Launch \/ SaveRules \/ Stop \/ Kill \/ Damage
  BY <1>1, <1>9 DEF Launch, SaveRules, Stop, Kill, Damage
<1>10. ASSUME NEW t \in Reloaders, Reload(t)
       PROVE  thr'[u].pc = "idle"
  BY <1>1, <1>10 DEF Reload
<1>11. ASSUME NEW t \in Operators, CaptureDown(t)
       PROVE  thr'[u].pc = "idle"
  BY <1>1, <1>11 DEF CaptureDown
<1>12. CASE UNCHANGED vars
  BY <1>1, <1>12 DEF vars
<1> QED
  BY <1>2, <1>3, <1>4, <1>5, <1>6, <1>7, <1>8, <1>9, <1>10, <1>11, <1>12, NextCases

LEMMA AbsentAlways == Spec => []AbsentIdle
<1>1. TypeOK /\ AbsentIdle /\ [Next]_vars => AbsentIdle'
  BY IdleStays, EnvFixed DEF AbsentIdle
<1> QED
  BY <1>1, AbsentInit, RoutesTypeOK, PTL DEF Spec

\* With nobody to call Reload, every step of the daemon is main's.
LEMMA OnlyMain ==
  ASSUME TypeOK, AbsentIdle, env.reloaders = {}, NEW t \in Daemon,
         thr[t].pc # "idle" \/ t \in env.reloaders
  PROVE  t = "main"
BY ThreadsAssumption DEF TypeOK, Env, AbsentIdle, at, Daemon

-----------------------------------------------------------------------------
(* A process that ends by itself.  Nothing kills it, no deletion fails and *)
(* nobody calls Reload; additions, saves and `capture down` may do as they *)
(* like.                                                                   *)

LEMMA ExitInit == Init => ExitInv
BY ThreadFacts DEF Init, ExitInv, Lifeline, MainAt, NoRecord, idle

LEMMA ExitStep ==
  ASSUME TypeOK, AbsentIdle, ExitInv, [Next]_vars
  PROVE  ExitInv'
<1> SUFFICES ASSUME EndsByItself
             PROVE  ExitInv'
  BY EnvFixed DEF ExitInv, EndsByItself
<1> USE DEF Thread, ExitInv, Lifeline, MainAt, NoRecord, at, Goto, Applies
<1> env' = env
  BY EnvFixed
<1>0. \A t \in Daemon : thr[t].pc # "idle" => t = "main"
  BY OnlyMain DEF EndsByItself
<1>1. thr \in [Threads -> Thread]
  BY DEF TypeOK
<1>2. ~("delete" \in env.faults) /\ ~("kill" \in env.faults) /\ ~("lateKill" \in env.faults)
  BY DEF EndsByItself
<1>3. CASE Compute("main") \/ Lock("main") \/ AddDone("main") \/ DelDone("main")
  <2>1. CASE Compute("main")
    <3>1. thr'["main"].pc = "lock"
      BY <1>1, <2>1, ThreadFacts DEF Compute, idle
    <3> QED
      BY <2>1, <3>1 DEF Compute
  <2>2. CASE Lock("main") \/ AddDone("main") \/ DelDone("main")
    BY <1>1, <2>2, ThreadFacts DEF Lock, AddDone, DelDone
  <2> QED
    BY <1>3, <2>1, <2>2
<1>4. ASSUME NEW p \in Prefixes, AddRoute("main", p) \/ DelRoute("main", p)
      PROVE  ExitInv'
  BY <1>1, <1>2, <1>4, ThreadFacts DEF AddRoute, DelRoute, Delete
<1>5. CASE SaveWrite("main") \/ SaveRename("main")
  <2>1. ASSUME NEW b \in BOOLEAN, Return("main", b)
        PROVE  thr'["main"].pc = IF b THEN "close" ELSE "idle"
    BY <1>1, <2>1, ThreadFacts DEF Return, idle
  <2>2. CASE SaveWrite("main")
    <3>1. CASE Goto("main", "rename") /\ UNCHANGED <<life, rmu>>
      BY <1>1, <2>2, <3>1, ThreadFacts DEF SaveWrite
    <3>2. CASE Return("main", TRUE)
      <4>1. thr'["main"].pc = "close" /\ life' = "stop"
        BY <2>1, <3>2 DEF Return
      <4> QED
        BY <2>2, <4>1 DEF SaveWrite
    <3> QED
      BY <1>2, <2>2, <3>1, <3>2 DEF SaveWrite
  <2>3. CASE SaveRename("main")
    <3>1. thr["main"].failed \in BOOLEAN
      BY <1>1, ThreadFacts
    <3>2. \/ thr'["main"].pc = "close" /\ life' = "stop"
          \/ thr'["main"].pc = "idle" /\ life' = "serve"
      BY <2>1, <2>3, <3>1 DEF SaveRename, Return
    <3>3. UNCHANGED <<host, rules, emu, applied>>
      BY <2>3 DEF SaveRename
    <3> QED
      BY <3>2, <3>3
  <2> QED
    BY <1>5, <2>2, <2>3
<1>6. CASE CloseEngine \/ CloseLock \/ CloseDelDone \/ CloseUnlink
  BY <1>1, <1>6, ThreadFacts DEF CloseEngine, CloseLock, CloseDelDone, CloseUnlink, RemoveRouteState
<1>7. ASSUME NEW p \in Prefixes, CloseDel(p)
      PROVE  ExitInv'
  BY <1>1, <1>2, <1>7, ThreadFacts DEF CloseDel, Delete
<1>8. ASSUME NEW t \in {"main"} \union Operators,
             TeardownRead(t) \/ TeardownDeleted(t) \/ TeardownUnlink(t)
      PROVE  ExitInv'
  <2>1. CASE t = "main"
    <3>0. life \in {"down", "boot", "serve", "stop"}
      BY DEF TypeOK
    <3>1. /\ thr["main"].pc \in {"read", "purge", "unlink"} /\ applied = {} /\ host = {}
          /\ life \in {"boot", "stop"} /\ UNCHANGED <<env, host>>
      BY <1>8, <2>1, <3>0 DEF TeardownRead, TeardownDeleted, TeardownUnlink
    <3>2. ASSUME AfterTeardown("main")
          PROVE  \/ life = "boot" /\ life' = "boot" /\ thr'["main"].pc = "compute" /\ applied' = applied
                 \/ life' = "down" /\ thr'["main"].pc = "idle" /\ applied' = {}
      BY <1>1, <3>1, <3>2, ThreadFacts DEF AfterTeardown, idle
    <3>3. CASE AfterTeardown("main") /\ RemoveRouteState
      <4>1. NoRecord'
        BY <3>1, <3>3 DEF RemoveRouteState
      <4> QED
        BY <3>1, <3>2, <3>3, <4>1
    <3>4. CASE UNCHANGED <<life, applied, file>> /\ thr'["main"].pc \in {"purge", "unlink"}
      BY <3>1, <3>4
    <3> QED
      BY <1>1, <1>8, <2>1, <3>3, <3>4, ThreadFacts DEF TeardownRead, TeardownDeleted, TeardownUnlink
  <2>2. CASE t # "main"
    BY <1>1, <1>8, <2>2, ThreadFacts
    DEF TeardownRead, TeardownDeleted, TeardownUnlink, AfterTeardown, RemoveRouteState, NoFile, idle
  <2> QED
    BY <2>1, <2>2
<1>9. ASSUME NEW t \in {"main"} \union Operators, NEW p \in Prefixes, TeardownDelete(t, p)
      PROVE  ExitInv'
  BY <1>1, <1>2, <1>9, ThreadFacts DEF TeardownDelete, Delete
<1>10. CASE Launch \/ SaveRules \/ Stop \/ Damage
  BY <1>1, <1>10, ThreadFacts DEF Launch, SaveRules, Stop, Damage
<1>11. ~Kill
  BY <1>2 DEF Kill
<1>12. ASSUME NEW t \in Operators, CaptureDown(t)
       PROVE  ExitInv'
  BY <1>1, <1>12, ThreadFacts DEF CaptureDown
<1>13. CASE UNCHANGED vars
  BY <1>13 DEF vars
<1>14. \A t \in Reloaders : ~Reload(t)
  BY DEF Reload, EndsByItself
<1>15. \A t \in Daemon : Compute(t) \/ Lock(t) \/ AddDone(t) \/ DelDone(t) => t = "main"
  BY <1>0 DEF Compute, Lock, AddDone, DelDone
<1>16. \A t \in Daemon, p \in Prefixes : AddRoute(t, p) \/ DelRoute(t, p) => t = "main"
  BY <1>0 DEF AddRoute, DelRoute
<1>17. \A t \in Daemon : SaveWrite(t) \/ SaveRename(t) => t = "main"
  BY <1>0 DEF SaveWrite, SaveRename
<1> QED
  BY <1>15, <1>16, <1>17, <1>3, <1>4, <1>5, <1>6, <1>7, <1>8, <1>9, <1>10, <1>11, <1>12, <1>13, <1>14, NextCases

\* A process that ends by itself leaves neither routes nor a record that could be removed, for
\* any number of prefixes and any number of `capture down` beside it.
THEOREM RoutesCleanExit == Spec => []CleanExit
<1>1. TypeOK /\ AbsentIdle /\ ExitInv /\ [Next]_vars => ExitInv'
  BY ExitStep
<1>2. TypeOK /\ ExitInv => CleanExit
  BY DEF ExitInv, CleanExit
<1> QED
  BY <1>1, <1>2, ExitInit, AbsentAlways, RoutesTypeOK, PTL DEF Spec

-----------------------------------------------------------------------------
(* A process killed anywhere but in Apply, and the start that follows.     *)

LEMMA HealInit == Init => HealInv
BY ThreadFacts DEF Init, HealInv, Lifeline, MainAt, at, idle, NoFile, Applies

LEMMA HealStep ==
  ASSUME TypeOK, AbsentIdle, HealInv, [Next]_vars
  PROVE  HealInv'
<1> SUFFICES ASSUME KilledLate
             PROVE  HealInv'
  BY EnvFixed DEF HealInv, KilledLate
<1> USE DEF Thread, HealInv, Lifeline, MainAt, at, Goto, Applies
<1>0. \A t \in Daemon : thr[t].pc # "idle" => t = "main"
  BY OnlyMain DEF KilledLate
<1>1. thr \in [Threads -> Thread]
  BY DEF TypeOK
<1>2. \A f \in {"delete", "save", "adapter", "corrupt", "kill"} : ~(f \in env.faults)
  BY DEF KilledLate
<1>3. CASE Compute("main") \/ Lock("main") \/ AddDone("main") \/ DelDone("main")
  <2>1. CASE Compute("main")
    <3>1. thr'["main"].pc = "lock"
      BY <1>1, <2>1, ThreadFacts DEF Compute, idle
    <3> QED
      BY <2>1, <3>1 DEF Compute
  <2>2. CASE Lock("main") \/ AddDone("main") \/ DelDone("main")
    BY <1>1, <2>2, ThreadFacts DEF Lock, AddDone, DelDone
  <2> QED
    BY <1>3, <2>1, <2>2
<1>4. ASSUME NEW p \in Prefixes, AddRoute("main", p) \/ DelRoute("main", p)
      PROVE  HealInv'
  BY <1>1, <1>2, <1>4, ThreadFacts DEF AddRoute, DelRoute, Delete
<1>5. CASE SaveWrite("main") \/ SaveRename("main")
  <2>1. ASSUME NEW b \in BOOLEAN, Return("main", b)
        PROVE  thr'["main"].pc = IF b THEN "close" ELSE "idle"
    BY <1>1, <2>1, ThreadFacts DEF Return, idle
  <2>2. CASE SaveWrite("main")
    <3>1. Goto("main", "rename") /\ UNCHANGED <<life, rmu, host, file, rules, emu, applied>>
      BY <1>2, <2>2 DEF SaveWrite
    <3> QED
      BY <1>1, <2>2, <3>1, ThreadFacts DEF SaveWrite
  <2>3. CASE SaveRename("main")
    <3>1. thr["main"].failed \in BOOLEAN
      BY <1>1, ThreadFacts
    <3>2. \/ thr'["main"].pc = "close" /\ life' = "stop"
          \/ thr'["main"].pc = "idle" /\ life' = "serve"
      BY <2>1, <2>3, <3>1 DEF SaveRename, Return
    <3>3. UNCHANGED <<host, rules, emu, applied>> /\ file' = Record(applied)
      BY <1>2, <2>3 DEF SaveRename
    <3>4. thr["main"].pc = "rename"
      BY <2>3 DEF SaveRename
    <3> QED
      BY <3>2, <3>3, <3>4 DEF Record
  <2> QED
    BY <1>5, <2>2, <2>3
<1>6. CASE CloseEngine \/ CloseLock \/ CloseDelDone \/ CloseUnlink
  BY <1>1, <1>6, ThreadFacts DEF CloseEngine, CloseLock, CloseDelDone, CloseUnlink, RemoveRouteState, NoFile
<1>7. ASSUME NEW p \in Prefixes, CloseDel(p)
      PROVE  HealInv'
  BY <1>1, <1>2, <1>7, ThreadFacts DEF CloseDel, Delete
<1>8. CASE TeardownRead("main") \/ TeardownDeleted("main") \/ TeardownUnlink("main")
  BY <1>1, <1>2, <1>8, ThreadFacts
  DEF TeardownRead, TeardownDeleted, TeardownUnlink, AfterTeardown, RemoveRouteState, NoFile, idle
<1>9. ASSUME NEW p \in Prefixes, TeardownDelete("main", p)
      PROVE  HealInv'
  BY <1>1, <1>2, <1>9, ThreadFacts DEF TeardownDelete, Delete
<1>10. CASE Launch \/ SaveRules \/ Stop
  BY <1>1, <1>10, ThreadFacts DEF Launch, SaveRules, Stop
<1>11. CASE Kill
  BY <1>1, <1>2, <1>11, ThreadFacts DEF Kill, Applying, idle
<1>12. ~Damage
  BY <1>2 DEF Damage
<1>13. CASE UNCHANGED vars
  BY <1>13 DEF vars
<1>14. (\A t \in Reloaders : ~Reload(t)) /\ (\A t \in Operators : ~CaptureDown(t))
  BY DEF Reload, CaptureDown, KilledLate
<1>15. \A t \in Daemon : Compute(t) \/ Lock(t) \/ AddDone(t) \/ DelDone(t) => t = "main"
  BY <1>0 DEF Compute, Lock, AddDone, DelDone
<1>16. \A t \in Daemon, p \in Prefixes : AddRoute(t, p) \/ DelRoute(t, p) => t = "main"
  BY <1>0 DEF AddRoute, DelRoute
<1>17. \A t \in Daemon : SaveWrite(t) \/ SaveRename(t) => t = "main"
  BY <1>0 DEF SaveWrite, SaveRename
<1>18. ASSUME NEW t \in Operators
       PROVE  thr[t].pc = "idle"
  BY ThreadsAssumption DEF AbsentIdle, KilledLate
<1>19. \A t \in Operators, p \in Prefixes : ~TeardownDelete(t, p)
  BY <1>18 DEF TeardownDelete
<1>20. \A t \in Operators : ~(TeardownRead(t) \/ TeardownDeleted(t) \/ TeardownUnlink(t))
  BY <1>18 DEF TeardownRead, TeardownDeleted, TeardownUnlink
<1> QED
  BY <1>14, <1>15, <1>16, <1>17, <1>19, <1>20, <1>3, <1>4, <1>5, <1>6, <1>7, <1>8, <1>9, <1>10, <1>11, <1>12, <1>13, NextCases

\* The start after a kill finds, in the record, every route left behind:
\* none is in the host when it goes on to apply its own.
THEOREM RoutesSelfHeal == Spec => []SelfHeal
<1>1. TypeOK /\ AbsentIdle /\ HealInv /\ [Next]_vars => HealInv'
  BY HealStep
<1>2. HealInv => SelfHeal
  BY DEF HealInv, SelfHeal, StartHeals, MainAt, at
<1> QED
  BY <1>1, <1>2, HealInit, AbsentAlways, RoutesTypeOK, PTL DEF Spec
=============================================================================
