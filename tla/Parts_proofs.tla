---------------------------- MODULE Parts_proofs ----------------------------
(***************************************************************************)
(* The daemons of a machine, and one connection through a relay.           *)
(*                                                                         *)
(* For any number of daemons and commands: the types; daemons which take    *)
(* the panel token from the file agree on it; a start that reports tells    *)
(* the truth; and, while commands are given in turns and the panel has a    *)
(* port to race for, a daemon that serves has its rules, and the state      *)
(* file names it.                                                           *)
(*                                                                         *)
(* For every script, name and network: a relay connects only for those it   *)
(* serves, and only to addresses it may reach; and what the application is  *)
(* told, whether it speaks to the daemon or to the relay itself, is what    *)
(* became of its own connection.                                            *)
(***************************************************************************)
EXTENDS ServiceInstance, RelayPath, WellFoundedInduction, TLAPS

-----------------------------------------------------------------------------
(* Daemons and commands.                                                   *)

ActRec == [pc : Pcs, seen : Pids \union {None}, token : TokenFile \ {"empty"}, err : BOOLEAN, term : BOOLEAN]

\* The ways a step changes the record of the process a, and another's.  Only
\* one of them makes a process write the token.
Others == Pcs \ {"write"}
MovePc(a) == \E pc \in Others : act' = [act EXCEPT ![a].pc = pc]
MoveSeen(a) == \E pc \in Others, p \in Pids : act' = [act EXCEPT ![a].pc = pc, ![a].seen = p]
MoveErr(a) == \E pc \in Others : act' = [act EXCEPT ![a].pc = pc, ![a].err = TRUE]
MoveTwo(a, b) == \E x, y \in Others : act' = [act EXCEPT ![a].pc = x, ![b].pc = y]
MoveTerm(a, b) == \E x \in Others : act' = [act EXCEPT ![a].pc = x, ![b].term = TRUE]
MoveToken(a) == \E pc \in Others, t \in TokenFile \ {"empty"} : act' = [act EXCEPT ![a].pc = pc, ![a].token = t]
MoveWrite(a) == act' = [act EXCEPT ![a].pc = "write"]
Moves(a, b) == MovePc(a) \/ MoveSeen(a) \/ MoveErr(a) \/ MoveTwo(a, b) \/ MoveTerm(a, b)

\* They keep the type, and the first five neither a token nor who writes one.
Mild == \A q \in Daemons : act'[q].token = act[q].token /\ (at(q, "write")' => at(q, "write"))

\* A process that moves, or is told to end, stays one.
LEMMA ExceptType ==
  ASSUME NEW g \in [Actors -> ActRec], NEW b, NEW y \in Pcs
  PROVE  /\ [g EXCEPT ![b].pc = y] \in [Actors -> ActRec]
         /\ [g EXCEPT ![b].term = TRUE] \in [Actors -> ActRec]
  <1>1. CASE b \in Actors
    BY <1>1 DEF ActRec
  <1>2. CASE b \notin Actors
    <2>1. [g EXCEPT ![b].pc = y] = g
      BY <1>2
    <2>2. [g EXCEPT ![b].term = TRUE] = g
      BY <1>2
    <2> QED
      BY <2>1, <2>2
  <1> QED
    BY <1>1, <1>2

\* The forms in which processes move keep their type.
LEMMA MoveType ==
  ASSUME act \in [Actors -> ActRec], NEW a \in Actors, NEW b
  PROVE  /\ Moves(a, b) => act' \in [Actors -> ActRec] /\ Mild
         /\ MoveToken(a) \/ MoveWrite(a) => act' \in [Actors -> ActRec]
  <1>0. Daemons \subseteq Actors /\ Others \subseteq Pcs /\ "write" \notin Others /\ "write" \in Pcs
    BY DEF Actors, Others, Pcs
  <1>1. ASSUME MovePc(a) PROVE act' \in [Actors -> ActRec] /\ Mild
    <2>1. PICK pc \in Others : act' = [act EXCEPT ![a].pc = pc]
      BY <1>1 DEF MovePc
    <2> QED
      BY <1>0, <2>1 DEF ActRec, Mild, at
  <1>2. ASSUME MoveSeen(a) PROVE act' \in [Actors -> ActRec] /\ Mild
    <2>1. PICK pc \in Others, p \in Pids : act' = [act EXCEPT ![a].pc = pc, ![a].seen = p]
      BY <1>2 DEF MoveSeen
    <2> QED
      BY <1>0, <2>1 DEF ActRec, Mild, at
  <1>3. ASSUME MoveErr(a) PROVE act' \in [Actors -> ActRec] /\ Mild
    <2>1. PICK pc \in Others : act' = [act EXCEPT ![a].pc = pc, ![a].err = TRUE]
      BY <1>3 DEF MoveErr
    <2> QED
      BY <1>0, <2>1 DEF ActRec, Mild, at
  <1>4. ASSUME MoveToken(a) PROVE act' \in [Actors -> ActRec]
    <2>1. PICK pc \in Others, t \in TokenFile \ {"empty"} : act' = [act EXCEPT ![a].pc = pc, ![a].token = t]
      BY <1>4 DEF MoveToken
    <2> QED
      BY <1>0, <2>1 DEF ActRec
  <1>5. ASSUME MoveTwo(a, b) PROVE act' \in [Actors -> ActRec] /\ Mild
    <2>1. PICK x \in Others, y \in Others : act' = [act EXCEPT ![a].pc = x, ![b].pc = y]
      BY <1>5 DEF MoveTwo
    <2> DEFINE g == [act EXCEPT ![a].pc = x]
    <2>2. g \in [Actors -> ActRec] /\ \A q \in Daemons : g[q].token = act[q].token /\ (g[q].pc = "write" => at(q, "write"))
      BY <1>0 DEF ActRec, at
    <2>3. act' = [g EXCEPT ![b].pc = y]
      BY <2>1
    <2> HIDE DEF g
    <2>4. act' \in [Actors -> ActRec]
      <3>1. y \in Pcs /\ g \in [Actors -> ActRec]
        BY <1>0, <2>1, <2>2
      <3>2. [g EXCEPT ![b].pc = y] \in [Actors -> ActRec]
        BY <3>1, ExceptType
      <3> QED
        BY <2>3, <3>2
    <2>5. \A q \in Daemons : act'[q].token = g[q].token /\ (act'[q].pc = "write" => g[q].pc = "write")
      BY <1>0, <2>1, <2>2, <2>3 DEF ActRec
    <2> QED
      BY <2>2, <2>4, <2>5 DEF Mild, at
  <1>6. ASSUME MoveTerm(a, b) PROVE act' \in [Actors -> ActRec] /\ Mild
    <2>1. PICK x \in Others : act' = [act EXCEPT ![a].pc = x, ![b].term = TRUE]
      BY <1>6 DEF MoveTerm
    <2> DEFINE g == [act EXCEPT ![a].pc = x]
    <2>2. g \in [Actors -> ActRec] /\ \A q \in Daemons : g[q].token = act[q].token /\ (g[q].pc = "write" => at(q, "write"))
      BY <1>0 DEF ActRec, at
    <2>3. act' = [g EXCEPT ![b].term = TRUE]
      BY <2>1
    <2> HIDE DEF g
    <2>4. act' \in [Actors -> ActRec]
      <3>1. x \in Pcs /\ g \in [Actors -> ActRec]
        BY <1>0, <2>1, <2>2
      <3>2. [g EXCEPT ![b].term = TRUE] \in [Actors -> ActRec]
        BY <3>1, ExceptType
      <3> QED
        BY <2>3, <3>2
    <2>5. \A q \in Daemons : act'[q].token = g[q].token /\ (act'[q].pc = "write" => g[q].pc = "write")
      BY <1>0, <2>1, <2>2, <2>3 DEF ActRec
    <2> QED
      BY <2>2, <2>4, <2>5 DEF Mild, at
  <1>7. ASSUME MoveWrite(a) PROVE act' \in [Actors -> ActRec]
    BY <1>0, <1>7 DEF MoveWrite, ActRec
  <1> QED
    BY <1>1, <1>2, <1>3, <1>4, <1>5, <1>6, <1>7 DEF Moves

\* Where a process goes on when there is no daemon.
LEMMA WhenNoneType ==
  ASSUME NEW a
  PROVE  WhenNone(a) \in Others
  BY DEF WhenNone, Others, Pcs

\* The processes have their type.
LEMMA ActType ==
  ASSUME TypeOK
  PROVE  act \in [Actors -> ActRec]
  BY DEF TypeOK, ActRec

\* What a step of a process leaves to show.
LEMMA StepType ==
  ASSUME TypeOK, UNCHANGED <<env>>,
         state' \in Pids \union {None}, token' \in TokenFile, port' \in Daemons \union {None}, rules' \in Pids \union {None},
         report' \in [Starters -> {"none", "ok", "error", "closed"}], act' \in [Actors -> ActRec]
  PROVE  TypeOK'
  BY DEF TypeOK, ActRec

\* So have all variables at first.
LEMMA InitType == ServiceInit => TypeOK
  <1> SUFFICES ASSUME ServiceInit PROVE TypeOK
    OBVIOUS
  <1>1. act \in [Actors -> ActRec]
    BY DEF ServiceInit, ActRec, Pcs, TokenFile
  <1> QED
    BY <1>1 DEF ServiceInit, TokenFile, Pids, TypeOK, ActRec

\* A step that leaves the panel token alone.
Aside == TypeOK' /\ Mild /\ UNCHANGED <<env, token>>

\* Running, for whoever calls it.
LEMMA RunningType ==
  ASSUME TypeOK, NEW a \in Actors, Running(a)
  PROVE  Aside
  <1>1. act \in [Actors -> ActRec]
    BY ActType
  <1>2. UNCHANGED <<env, token, port, rules, report>> /\ state' \in {state, None}
    BY DEF Running, ReadState, CleanRead, CleanRemove, files
  <1>3. MovePc(a) \/ MoveSeen(a) \/ MoveErr(a)
    <2>1. CASE ReadState(a)
      <3>1. state # None => state \in Pids
        BY DEF TypeOK
      <3>2. {"clean", "failed", "exit", "signal", "stopped"} \subseteq Others
        BY DEF Pcs, Others
      <3> QED
        BY <2>1, <3>1, <3>2, WhenNoneType DEF ReadState, Goto, MovePc, MoveSeen, MoveErr
    <2>2. CASE CleanRead(a)
      BY <2>2, WhenNoneType DEF CleanRead, Goto, Pcs, Others, MovePc
    <2>3. CASE CleanRemove(a)
      BY <2>3, WhenNoneType DEF CleanRemove, Goto, MovePc
    <2> QED
      BY <2>1, <2>2, <2>3 DEF Running
  <1>4. act' \in [Actors -> ActRec] /\ Mild
    BY <1>1, <1>3, MoveType DEF Moves
  <1> QED
    BY <1>2, <1>4, StepType DEF TypeOK, Aside

\* The commands.
LEMMA CommandType ==
  ASSUME TypeOK
  PROVE  /\ \A c \in Commands : Give(c) => Aside
         /\ \A s \in Starters : Start(s) => Aside
         /\ \A k \in Stoppers : Stop(k) => Aside
  <1>1. act \in [Actors -> ActRec]
    BY ActType
  <1>2. ASSUME NEW c \in Commands, Give(c) PROVE Aside
    <2>1. UNCHANGED <<env, state, token, port, rules, report>> /\ MovePc(c)
      BY <1>2 DEF Give, Goto, files, MovePc, Pcs, Others
    <2>2. act' \in [Actors -> ActRec] /\ Mild
      BY <1>1, <2>1, MoveType DEF Actors, Moves
    <2> QED
      BY <2>1, <2>2, StepType DEF TypeOK, Aside
  <1>3. ASSUME NEW s \in Starters, Start(s) PROVE Aside
    <2>1. s \in Actors /\ Child(s) \in Actors
      BY DEF Actors, Commands, Daemons
    <2>2. UNCHANGED <<env, state, token, rules, report>> /\ port' \in {port, None}
      BY <1>3 DEF Start, Spawn, Read, Timeout, files
    <2>3. MovePc(s) \/ MoveTwo(s, Child(s))
      <3>1. {"wait", "running", "started", "failed", "killed"} \subseteq Others
        BY DEF Pcs, Others, Gone
      <3> QED
        BY <1>3, <3>1 DEF Start, Spawn, Read, Timeout, Goto, MovePc, MoveTwo
    <2>4. act' \in [Actors -> ActRec] /\ Mild
      BY <1>1, <2>1, <2>3, MoveType DEF Moves
    <2> QED
      BY <2>2, <2>4, StepType DEF TypeOK, Aside
  <1>4. ASSUME NEW k \in Stoppers, Stop(k) PROVE Aside
    <2>1. k \in Actors
      BY DEF Actors, Commands
    <2>2. UNCHANGED <<env, state, token, rules, report>> /\ port' \in {port, None}
      BY <1>4 DEF Stop, Terminate, GiveUp, files
    <2> DEFINE p == act[k].seen
    <2>3. MovePc(k) \/ MoveTwo(k, p) \/ MoveTerm(k, p)
      <3>1. {"running", "failed", "killed"} \subseteq Others
        BY DEF Pcs, Others, Gone
      <3> QED
        BY <1>4, <3>1 DEF Stop, Terminate, GiveUp, Goto, MovePc, MoveTwo, MoveTerm
    <2>4. act' \in [Actors -> ActRec] /\ Mild
      BY <1>1, <2>1, <2>3, MoveType DEF Moves
    <2> QED
      BY <2>2, <2>4, StepType DEF TypeOK, Aside
  <1> QED
    BY <1>2, <1>3, <1>4

\* The daemons.
LEMMA DaemonType ==
  ASSUME TypeOK, NEW p \in Daemons,
         \/ Run(p) \/ Listen(p) \/ Setup(p) \/ WriteState(p) \/ Report(p) \/ StartKernel(p)
         \/ End(p) \/ Cleanup(p) \/ Forget(p) \/ Close(p) \/ Exit(p) \/ Kill(p)
  PROVE  Aside
  <1>1. act \in [Actors -> ActRec] /\ p \in Actors
    BY ActType DEF Actors
  <1>2. {"running", "exit", "setup", "state", "report", "close", "start", "serve", "cleanup", "forget", "dead", "killed"}
          \subseteq Others
    BY DEF Pcs, Others, Gone
  <1>3. /\ UNCHANGED <<env, token>>
        /\ state' \in {state, p, None}
        /\ port' \in {port, p, None}
        /\ rules' \in {rules, p, None}
        /\ report' \in [Starters -> {"none", "ok", "error", "closed"}]
    <2>1. CASE Run(p) \/ Listen(p) \/ Setup(p) \/ WriteState(p) \/ StartKernel(p)
      BY <2>1 DEF Run, Listen, Setup, WriteState, StartKernel, files, TypeOK
    <2>2. CASE Report(p)
      BY <2>2 DEF Report, files, TypeOK
    <2>3. CASE End(p) \/ Cleanup(p) \/ Forget(p) \/ Close(p) \/ Kill(p)
      BY <2>3 DEF End, Cleanup, Forget, Close, Kill, Die, files, TypeOK
    <2>4. CASE Exit(p)
      BY <2>4 DEF Exit, Die, files, TypeOK
    <2> QED
      BY <2>1, <2>2, <2>3, <2>4
  <1>4. MovePc(p) \/ MoveErr(p)
    <2>1. CASE Run(p) \/ End(p) \/ Forget(p) \/ Close(p)
      BY <1>2, <2>1 DEF Run, End, Forget, Close, Goto, MovePc
    <2>2. CASE Listen(p) \/ Setup(p) \/ WriteState(p) \/ Report(p) \/ StartKernel(p)
      BY <1>2, <2>2 DEF Listen, Setup, WriteState, Report, StartKernel, Goto, Fail, MovePc, MoveErr
    <2>3. CASE Cleanup(p)
      BY <1>2, <2>3 DEF Cleanup, Goto, MovePc
    <2>4. CASE Exit(p) \/ Kill(p)
      BY <1>2, <2>4 DEF Exit, Kill, Die, MovePc
    <2> QED
      BY <2>1, <2>2, <2>3, <2>4
  <1>5. act' \in [Actors -> ActRec] /\ Mild
    BY <1>1, <1>4, MoveType DEF Moves
  <1> QED
    BY <1>3, <1>5, StepType DEF TypeOK, Aside, Pids

\* The token is made, or found.
TokenStep(p) == ReadToken(p) \/ CreateToken(p) \/ ReadTokenAgain(p) \/ WriteToken(p)

\* The steps on the token file keep the types.
LEMMA TokenType ==
  ASSUME TypeOK, NEW p \in Daemons, TokenStep(p)
  PROVE  TypeOK'
  <1>1. act \in [Actors -> ActRec] /\ p \in Actors
    BY ActType DEF Actors
  <1>2. {"create", "exit", "listen", "again"} \subseteq Others
    BY DEF Pcs, Others
  <1>3. UNCHANGED <<env, state, port, rules, report>> /\ token' \in {token, p, "empty", "none"}
    BY DEF TokenStep, ReadToken, CreateToken, ReadTokenAgain, WriteToken, files
  <1>4. token \notin {"none", "empty"} => token \in TokenFile \ {"empty"}
    BY DEF TypeOK
  <1>5. p \in TokenFile \ {"empty"} /\ {"empty", "none"} \subseteq TokenFile
    BY ActorsAssumption DEF TokenFile, Pids
  <1>6. MovePc(p) \/ MoveErr(p) \/ MoveToken(p) \/ MoveWrite(p)
    <2>1. CASE ReadToken(p)
      BY <1>2, <1>4, <2>1 DEF ReadToken, Goto, Fail, MovePc, MoveErr, MoveToken
    <2>2. CASE CreateToken(p)
      BY <1>2, <2>2 DEF CreateToken, Goto, MovePc, MoveWrite
    <2>3. CASE ReadTokenAgain(p)
      BY <1>2, <1>4, <2>3 DEF ReadTokenAgain, Fail, MoveErr, MoveToken
    <2>4. CASE WriteToken(p)
      BY <1>2, <1>5, <2>4 DEF WriteToken, Fail, MoveErr, MoveToken
    <2> QED
      BY <2>1, <2>2, <2>3, <2>4 DEF TokenStep
  <1>7. act' \in [Actors -> ActRec]
    BY <1>1, <1>6, MoveType DEF Moves
  <1> QED
    BY <1>3, <1>5, <1>7, StepType DEF TypeOK

\* So does a rotation.
LEMMA RotateType ==
  ASSUME TypeOK, Rotate
  PROVE  TypeOK'
  BY ActType, StepType DEF Rotate, TypeOK, TokenFile

\* And so does every step.
LEMMA NextType == TypeOK /\ [ServiceNext]_serviceVars => TypeOK'
  <1> SUFFICES ASSUME TypeOK, [ServiceNext]_serviceVars PROVE TypeOK'
    OBVIOUS
  <1>1. CASE ServiceNext
    BY <1>1, CommandType, RunningType, DaemonType, TokenType, RotateType DEF ServiceNext, Daemon, TokenStep, Aside
  <1>2. CASE UNCHANGED serviceVars
    BY <1>2 DEF serviceVars, TypeOK
  <1> QED
    BY <1>1, <1>2

\* Every variable of the processes and of the files has its type, whatever
\* commands are given and whatever fails (cmd/tailproxy/main.go).
THEOREM ServiceTypeOK == ServiceSpec => []TypeOK
  <1> QED
    BY InitType, NextType, PTL DEF ServiceSpec

-----------------------------------------------------------------------------
\* While nobody rotates the token: the process that writes it is the only one,
\* and the file is empty; what a process has read or written is in the file.
OneWriter ==
  /\ \A p \in Daemons : at(p, "write") => token = "empty"
  /\ \A p, q \in Daemons : at(p, "write") /\ at(q, "write") => p = q
Agreed == \A p \in Daemons : act[p].token # "none" => token = act[p].token /\ token \notin {"none", "empty"}
TokenInv == TypeOK /\ ("rotate" \notin env.faults => OneWriter /\ Agreed)

\* No daemon has a token at first.
LEMMA TokenInit == ServiceInit => TokenInv
  <1> SUFFICES ASSUME ServiceInit PROVE OneWriter /\ Agreed
    BY InitType DEF TokenInv
  <1>1. \A p \in Daemons : act[p].pc \in {"none", "idle"} /\ act[p].token = "none"
    BY DEF ServiceInit, Actors
  <1> QED
    BY <1>1 DEF OneWriter, Agreed, at

\* Steps that touch no token keep the invariant.
LEMMA AsideInv ==
  ASSUME TokenInv, Aside
  PROVE  TokenInv'
  BY DEF TokenInv, Aside, Mild, OneWriter, Agreed, at

\* A daemon reads the token, or makes one and takes that which is in the file.
LEMMA TokenStepInv ==
  ASSUME TokenInv, NEW p \in Daemons, TokenStep(p)
  PROVE  TokenInv'
  <1>1. TypeOK /\ TypeOK' /\ act \in [Actors -> ActRec] /\ p \in Actors /\ Daemons \subseteq Actors /\ UNCHANGED env
    BY TokenType, ActType DEF TokenInv, Actors, TokenStep, ReadToken, CreateToken, ReadTokenAgain, WriteToken
  <1> SUFFICES ASSUME "rotate" \notin env.faults PROVE OneWriter' /\ Agreed'
    BY <1>1 DEF TokenInv
  <1>2. OneWriter /\ Agreed
    BY DEF TokenInv
  <1>3. \A q \in Daemons : q # p => act'[q] = act[q]
    BY <1>1 DEF TokenStep, ReadToken, CreateToken, ReadTokenAgain, WriteToken, Goto, Fail
  <1>4. CASE ReadToken(p) \/ ReadTokenAgain(p)
    <2>1. token' = token /\ act'[p].pc # "write" /\ act'[p].token \in {act[p].token, token}
      BY <1>1, <1>4 DEF ReadToken, ReadTokenAgain, Goto, Fail, files, ActRec
    <2>2. act'[p].token # act[p].token => token \notin {"none", "empty"}
      BY <1>1, <1>4 DEF ReadToken, ReadTokenAgain, Goto, Fail, ActRec
    <2> QED
      BY <1>2, <1>3, <2>1, <2>2 DEF OneWriter, Agreed, at
  <1>5. CASE CreateToken(p)
    <2>1. act'[p].token = act[p].token
      BY <1>1, <1>5 DEF CreateToken, Goto, ActRec
    <2>2. CASE token = "none"
      <3>1. \A q \in Daemons : act[q].token = "none" /\ ~at(q, "write")
        BY <1>2, <2>2 DEF OneWriter, Agreed
      <3>2. token' = "empty"
        BY <1>5, <2>2 DEF CreateToken
      <3> QED
        BY <1>3, <2>1, <3>1, <3>2 DEF OneWriter, Agreed, at
    <2>3. CASE token # "none"
      <3>1. token' = token /\ act'[p].pc = "again"
        BY <1>1, <1>5, <2>3 DEF CreateToken, Goto, ActRec
      <3> QED
        BY <1>2, <1>3, <2>1, <3>1 DEF OneWriter, Agreed, at
    <2> QED
      BY <2>2, <2>3
  <1>6. CASE WriteToken(p)
    <2>1. token = "empty" /\ \A q \in Daemons : act[q].token = "none" /\ (at(q, "write") => q = p)
      BY <1>2, <1>6 DEF WriteToken, OneWriter, Agreed
    <2>2. act'[p].pc # "write" /\ act'[p].token \in {p, "none"}
      BY <1>1, <1>6, <2>1 DEF WriteToken, Fail, ActRec
    <2>3. act'[p].token = p => token' = p
      BY <1>1, <1>6, <2>1, ActorsAssumption DEF WriteToken, Fail, ActRec, Pids
    <2>4. p \notin {"none", "empty"}
      BY ActorsAssumption DEF Pids
    <2> QED
      BY <1>3, <2>1, <2>2, <2>3, <2>4 DEF OneWriter, Agreed, at
  <1> QED
    BY <1>4, <1>5, <1>6 DEF TokenStep

\* Every step keeps it.
LEMMA TokenNext == TokenInv /\ [ServiceNext]_serviceVars => TokenInv'
  <1> SUFFICES ASSUME TokenInv, [ServiceNext]_serviceVars PROVE TokenInv'
    OBVIOUS
  <1>0. TypeOK
    BY DEF TokenInv
  <1>1. CASE \E c \in Commands : Give(c)
    BY <1>0, <1>1, CommandType, AsideInv
  <1>2. CASE \E a \in Actors : Running(a)
    BY <1>0, <1>2, RunningType, AsideInv
  <1>3. CASE (\E s \in Starters : Start(s)) \/ (\E k \in Stoppers : Stop(k))
    BY <1>0, <1>3, CommandType, AsideInv
  <1>4. CASE \E p \in Daemons : Run(p) \/ Daemon(p) \/ Kill(p)
    BY <1>0, <1>4, DaemonType, TokenStepInv, AsideInv DEF Daemon, TokenStep
  <1>5. CASE Rotate
    BY <1>0, <1>5, RotateType DEF TokenInv, Rotate
  <1>6. CASE UNCHANGED serviceVars
    BY <1>6 DEF serviceVars, TokenInv, TypeOK, OneWriter, Agreed, at
  <1> QED
    BY <1>1, <1>2, <1>3, <1>4, <1>5, <1>6 DEF ServiceNext

\* Daemons that take the panel token from the file agree on it, and it is in
\* the file, however many race to create it (internal/token/token.go).
THEOREM ServiceTokenAgreed == ServiceSpec => []TokenAgreed
  <1>1. TokenInv => TokenAgreed
    BY DEF TokenInv, Agreed, TokenAgreed
  <1> QED
    BY <1>1, TokenInit, TokenNext, PTL DEF ServiceSpec

-----------------------------------------------------------------------------
(* What a start reports, and what has become of its daemon.                *)

\* Before it has spawned its daemon, a start knows of none; while it waits,
\* what the pipe holds is where its daemon is.
Before == {"idle", "running", "clean", "remove", "spawn"}
StarterOK(s) ==
  /\ act[s].pc \in Before \union {"wait", "started", "failed"}
  /\ act[s].pc \in Before => at(Child(s), "none") /\ report[s] = "none"
  /\ at(s, "failed") => ~processAlive(Child(s))
  /\ at(s, "wait") => ~at(Child(s), "none")
  /\ at(s, "wait") /\ report[s] = "error" => act[Child(s)].pc \in Gone
  /\ (at(s, "wait") /\ report[s] = "ok") \/ at(s, "started") => act[Child(s)].pc \in Reported
StartInv == TypeOK /\ \A s \in Starters : StarterOK(s)

\* How a daemon goes on by itself: it does not come back, and once it has
\* reported it has reported.
Onward(p) ==
  /\ processAlive(p)
  /\ act'[p].pc # "none"
  /\ act[p].pc \in Reported => act'[p].pc \in Reported

\* The processes are what their names say.
LEMMA WhoIsWho ==
  /\ Starters \subseteq Actors /\ Stoppers \subseteq Actors /\ Daemons \subseteq Actors
  /\ Starters \cap Daemons = {} /\ Stoppers \cap Daemons = {} /\ Starters \cap Stoppers = {}
  /\ \A s \in Starters : Child(s) \in Daemons /\ Child(s) \notin Runs
  /\ \A s, u \in Starters : s # u => Child(s) # Child(u)
  /\ Old \notin Actors /\ None \notin Daemons
  BY ActorsAssumption DEF Actors, Commands, Daemons, Pids

\* A start stays right while its daemon goes on by itself.
LEMMA StarterRests ==
  ASSUME NEW s \in Starters, StarterOK(s), act'[s].pc = act[s].pc, report'[s] = report[s],
         act'[Child(s)].pc = act[Child(s)].pc \/ Onward(Child(s))
  PROVE  StarterOK(s)'
  BY DEF StarterOK, Onward, processAlive, at, Gone, Before, Reported

\* No command has started anything at first.
LEMMA StartInit == ServiceInit => StartInv
  <1> SUFFICES ASSUME ServiceInit, NEW s \in Starters PROVE StarterOK(s)
    BY InitType DEF StartInv
  <1>1. s \in Actors /\ s \notin Daemons /\ Child(s) \in Daemons /\ Child(s) \in Actors
    BY WhoIsWho
  <1> QED
    BY <1>1 DEF ServiceInit, StarterOK, at, Before, processAlive

\* Whoever runs Running, a start or its daemon or another.
LEMMA StartRunning ==
  ASSUME StartInv, NEW a \in Actors, Running(a), NEW s \in Starters
  PROVE  StarterOK(s)'
  <1>1. /\ act \in [Actors -> ActRec] /\ StarterOK(s) /\ s \in Actors /\ s \notin Stoppers /\ s \notin Daemons
        /\ Child(s) \in Daemons /\ Child(s) \in Actors
    BY WhoIsWho, ActType DEF StartInv
  <1>2. report' = report /\ \A b \in Actors : b # a => act'[b] = act[b]
    BY <1>1 DEF Running, ReadState, CleanRead, CleanRemove, Goto
  <1>3. act[a].pc \in {"running", "clean", "remove"}
    BY DEF Running, ReadState, CleanRead, CleanRemove, at
  <1>4. CASE a = s
    <2>1. act'[s].pc \in {"clean", "failed", "spawn", "remove"}
      <3>1. CASE ReadState(s)
        BY <1>1, <3>1 DEF ReadState, Goto, WhenNone, ActRec
      <3>2. CASE CleanRead(s)
        BY <1>1, <3>2 DEF CleanRead, Goto, WhenNone, ActRec
      <3>3. CASE CleanRemove(s)
        BY <1>1, <3>3 DEF CleanRemove, Goto, WhenNone, ActRec
      <3> QED
        BY <1>4, <3>1, <3>2, <3>3 DEF Running
    <2>2. act'[Child(s)] = act[Child(s)] /\ at(Child(s), "none") /\ report[s] = "none"
      BY <1>1, <1>2, <1>3, <1>4 DEF StarterOK, Before
    <2> QED
      BY <1>2, <2>1, <2>2 DEF StarterOK, Before, at, processAlive
  <1>5. CASE a # s
    <2>1. ASSUME a = Child(s) PROVE Onward(Child(s))
      <3>1. act'[a].pc \in {"clean", "exit", "token", "listen", "remove"}
        <4>1. CASE ReadState(a)
          BY <1>1, <2>1, <4>1, WhoIsWho DEF ReadState, Goto, WhenNone, ActRec
        <4>2. CASE CleanRead(a)
          BY <1>1, <2>1, <4>2, WhoIsWho DEF CleanRead, Goto, WhenNone, ActRec
        <4>3. CASE CleanRemove(a)
          BY <1>1, <2>1, <4>3, WhoIsWho DEF CleanRemove, Goto, WhenNone, ActRec
        <4> QED
          BY <4>1, <4>2, <4>3 DEF Running
      <3> QED
        BY <1>1, <1>3, <2>1, <3>1 DEF Onward, processAlive, Gone, Reported
    <2> QED
      BY <1>1, <1>2, <1>5, <2>1, StarterRests
  <1> QED
    BY <1>4, <1>5

\* Commands: the start itself, another start, a stop that ends its daemon.
LEMMA StartCommand ==
  ASSUME StartInv, NEW s \in Starters,
         (\E c \in Commands : Give(c)) \/ (\E u \in Starters : Start(u)) \/ (\E k \in Stoppers : Stop(k))
  PROVE  StarterOK(s)'
  <1> DEFINE d == Child(s)
  <1>1. /\ act \in [Actors -> ActRec] /\ StarterOK(s) /\ s \in Actors /\ s \notin Stoppers /\ s \notin Daemons
        /\ d \in Daemons /\ d \in Actors /\ d \notin Commands /\ d # s
    BY WhoIsWho, ActType, ActorsAssumption DEF StartInv, Commands
  <1>2. ASSUME NEW c \in Commands, Give(c) PROVE StarterOK(s)'
    <2>1. at(c, "idle") /\ act' = [act EXCEPT ![c].pc = "running"] /\ report' = report /\ c \in Actors
      BY <1>2 DEF Give, Goto, Actors
    <2>2. act'[d] = act[d] /\ act'[s].pc = IF c = s THEN "running" ELSE act[s].pc
      BY <1>1, <2>1 DEF ActRec
    <2>3. CASE c = s
      <3>1. at(d, "none") /\ report[s] = "none"
        BY <1>1, <2>1, <2>3 DEF StarterOK, Before, at
      <3>2. act'[s].pc = "running" /\ act'[d].pc = "none" /\ report'[s] = "none"
        BY <2>1, <2>2, <2>3, <3>1 DEF at
      <3> QED
        BY <3>2 DEF StarterOK, Before, at
    <2>4. CASE c # s
      BY <1>1, <2>1, <2>2, <2>4, StarterRests
    <2> QED
      BY <2>3, <2>4
  <1>3. ASSUME NEW u \in Starters, u # s, Start(u) PROVE StarterOK(s)'
    <2>1. u \in Actors /\ Child(u) \in Actors /\ Child(u) # d /\ Child(u) # s /\ u # d
      BY <1>1, <1>3, WhoIsWho
    <2>2. act'[s] = act[s] /\ act'[d] = act[d] /\ report' = report
      BY <1>1, <1>3, <2>1 DEF Start, Spawn, Read, Timeout, Goto
    <2> QED
      BY <1>1, <2>2, StarterRests
  <1>4. CASE Start(s)
    <2>1. report' = report
      BY <1>4 DEF Start, Spawn, Read, Timeout
    <2>2. CASE Spawn(s)
      <3>1. at(s, "spawn") /\ act'[s].pc = "wait" /\ act'[d].pc = "running"
        BY <1>1, <2>2 DEF Spawn, ActRec
      <3>2. report[s] = "none"
        BY <1>1, <3>1 DEF StarterOK, Before, at
      <3> QED
        BY <2>1, <3>1, <3>2 DEF StarterOK, Before, at
    <2>3. CASE Read(s)
      <3>1. /\ at(s, "wait") /\ act'[d] = act[d] /\ (report[s] \in {"ok", "error"} \/ act[d].pc \in Gone)
            /\ act'[s].pc = IF report[s] = "ok" THEN "started" ELSE "failed"
        BY <1>1, <2>3 DEF Read, HasAnswer, Goto, ActRec
      <3>2. report[s] \in {"none", "ok", "error", "closed"}
        BY DEF StartInv, TypeOK
      <3>3. report[s] # "ok" => act[d].pc \in Gone
        BY <1>1, <3>1, <3>2 DEF StarterOK
      <3>4. report[s] = "ok" => act[d].pc \in Reported
        BY <1>1, <3>1 DEF StarterOK
      <3>5. CASE report[s] = "ok"
        <4>1. act'[s].pc = "started" /\ act'[d].pc \in Reported
          BY <3>1, <3>4, <3>5
        <4> QED
          BY <4>1 DEF StarterOK, Before, at
      <3>6. CASE report[s] # "ok"
        <4>1. act'[s].pc = "failed" /\ act'[d].pc \in Gone
          BY <3>1, <3>3, <3>6
        <4> QED
          BY <4>1 DEF StarterOK, Before, at, processAlive
      <3> QED
        BY <3>5, <3>6
    <2>4. CASE Timeout(s)
      <3>1. act'[s].pc = "failed" /\ act'[d].pc = "killed"
        BY <1>1, <2>4 DEF Timeout, ActRec
      <3> QED
        BY <3>1 DEF StarterOK, Before, at, processAlive, Gone
    <2> QED
      BY <1>4, <2>2, <2>3, <2>4 DEF Start
  <1>5. ASSUME NEW k \in Stoppers, Stop(k) PROVE StarterOK(s)'
    <2> DEFINE p == act[k].seen
    <2>1. k \in Actors /\ k # s /\ k # d
      BY <1>1, WhoIsWho
    <2>2. report' = report
      BY <1>5 DEF Stop, Terminate, GiveUp
    <2>3. CASE act' = [act EXCEPT ![k].pc = "failed"]
      BY <1>1, <2>1, <2>2, <2>3, StarterRests
    <2>4. CASE processAlive(p) /\ Serving(p) /\ act' = [act EXCEPT ![k].pc = "running", ![p].term = TRUE]
      <3>1. p \in Daemons /\ p \in Actors /\ p # k /\ p # s
        BY <1>1, <2>1, <2>4, WhoIsWho DEF processAlive
      <3>2. act'[s] = act[s] /\ act'[d].pc = act[d].pc
        BY <1>1, <2>1, <2>4, <3>1 DEF ActRec
      <3> QED
        BY <1>1, <2>2, <3>2, StarterRests
    <2>5. CASE processAlive(p) /\ act' = [act EXCEPT ![k].pc = "running", ![p].pc = "killed"]
      <3>1. p \in Daemons /\ p \in Actors /\ p # k /\ p # s
        BY <1>1, <2>1, <2>5, WhoIsWho DEF processAlive
      <3>2. act'[s] = act[s] /\ act'[d].pc = IF p = d THEN "killed" ELSE act[d].pc
        BY <1>1, <2>1, <2>5, <3>1 DEF ActRec
      <3>3. p = d => Onward(d)
        BY <2>5, <3>2 DEF Onward, Reported, Gone
      <3> QED
        BY <1>1, <2>2, <3>2, <3>3, StarterRests
    <2> QED
      BY <1>5, <2>3, <2>4, <2>5 DEF Stop, Terminate, GiveUp, Goto
  <1> QED
    BY <1>2, <1>3, <1>4, <1>5

\* Daemons: a report finds its start waiting, and an error is the last word.
LEMMA StartDaemon ==
  ASSUME StartInv, NEW p \in Daemons, Run(p) \/ Daemon(p) \/ Kill(p), NEW s \in Starters
  PROVE  StarterOK(s)'
  <1> DEFINE d == Child(s)
  <1>1. /\ act \in [Actors -> ActRec] /\ StarterOK(s) /\ s \in Actors /\ s \notin Daemons
        /\ d \in Daemons /\ d \in Actors /\ p \in Actors /\ p # s /\ d \notin Runs /\ report \in [Starters -> {"none", "ok", "error", "closed"}]
    BY WhoIsWho, ActType DEF StartInv, TypeOK
  <1>2. \A b \in Actors : b # p => act'[b] = act[b]
    BY <1>1 DEF Run, Daemon, Kill, Die, ReadToken, CreateToken, ReadTokenAgain, WriteToken, Listen, Setup, WriteState,
                Report, StartKernel, End, Cleanup, Forget, Close, Exit, Goto, Fail
  <1>3. CASE Run(p)
    <2>1. p # d /\ report' = report
      BY <1>1, <1>3 DEF Run
    <2> QED
      BY <1>1, <1>2, <2>1, StarterRests
  <1>4. CASE ReadToken(p) \/ CreateToken(p) \/ ReadTokenAgain(p) \/ WriteToken(p) \/ Listen(p) \/ Setup(p) \/ WriteState(p)
    <2>1. report' = report /\ act[p].pc \in {"token", "create", "again", "write", "listen", "setup", "state"}
      BY <1>4 DEF ReadToken, CreateToken, ReadTokenAgain, WriteToken, Listen, Setup, WriteState, at
    <2>2. act'[p].pc \in {"create", "exit", "listen", "write", "again", "setup", "state", "report", "close"}
      <3>1. CASE ReadToken(p) \/ CreateToken(p)
        BY <1>1, <3>1 DEF ReadToken, CreateToken, Goto, Fail, ActRec
      <3>2. CASE ReadTokenAgain(p) \/ WriteToken(p)
        BY <1>1, <3>2 DEF ReadTokenAgain, WriteToken, Fail, ActRec
      <3>3. CASE Listen(p) \/ Setup(p) \/ WriteState(p)
        BY <1>1, <3>3 DEF Listen, Setup, WriteState, Goto, Fail, ActRec
      <3> QED
        BY <1>4, <3>1, <3>2, <3>3
    <2>3. Onward(p)
      BY <2>1, <2>2 DEF Onward, processAlive, Gone, Reported
    <2> QED
      BY <1>1, <1>2, <2>1, <2>3, StarterRests
  <1>5. CASE StartKernel(p) \/ End(p) \/ Cleanup(p) \/ Forget(p) \/ Close(p)
    <2>1. report' = report /\ act[p].pc \in {"start", "serve", "cleanup", "forget", "close"}
      BY <1>5 DEF StartKernel, End, Cleanup, Forget, Close, Serving, at
    <2>2. act'[p].pc \in {"serve", "cleanup", "forget", "close", "exit"}
      BY <1>1, <1>5 DEF StartKernel, End, Cleanup, Forget, Close, Goto, Fail, ActRec
    <2>3. Onward(p)
      BY <2>1, <2>2 DEF Onward, processAlive, Gone, Reported
    <2> QED
      BY <1>1, <1>2, <2>1, <2>3, StarterRests
  <1>6. CASE Kill(p)
    <2>1. report' = report /\ processAlive(p) /\ act'[p].pc = "killed"
      BY <1>1, <1>6 DEF Kill, Die, ActRec
    <2>2. Onward(p)
      BY <2>1 DEF Onward, Gone, Reported
    <2> QED
      BY <1>1, <1>2, <2>1, <2>2, StarterRests
  <1>7. CASE Report(p)
    <2>1. at(p, "report") /\ act'[p].pc \in {"start", "cleanup"}
      BY <1>1, <1>7 DEF Report, Goto, Fail, ActRec
    <2>2. Onward(p)
      BY <2>1 DEF Onward, processAlive, Gone, Reported, at
    <2>3. PICK answer \in {"ok", "closed"} :
            report'[s] = IF Child(s) = p /\ at(s, "wait") THEN answer ELSE report[s]
      BY <1>7 DEF Report, Waiting
    <2>4. CASE p = d /\ at(s, "wait")
      <3>1. act'[s].pc = "wait" /\ report'[s] \in {"ok", "closed"} /\ act'[d].pc \in {"start", "cleanup"}
        BY <1>1, <1>2, <2>1, <2>3, <2>4 DEF at
      <3> QED
        BY <3>1 DEF StarterOK, Before, at, Reported
    <2>5. CASE ~(p = d /\ at(s, "wait"))
      BY <1>1, <1>2, <2>2, <2>3, <2>5, StarterRests
    <2> QED
      BY <2>4, <2>5
  <1>8. CASE Exit(p)
    <2>1. at(p, "exit") /\ act'[p].pc = "dead"
      BY <1>1, <1>8 DEF Exit, Die, ActRec
    <2>2. Onward(p)
      BY <2>1 DEF Onward, processAlive, Gone, Reported, at
    <2>3. report'[s] = report[s] \/ (Child(s) = p /\ at(s, "wait") /\ report'[s] = "error")
      BY <1>8 DEF Exit, Waiting
    <2>4. CASE p = d /\ at(s, "wait") /\ report'[s] = "error"
      <3>1. act'[s].pc = "wait" /\ act'[d].pc = "dead"
        BY <1>1, <1>2, <2>1, <2>4 DEF at
      <3> QED
        BY <2>4, <3>1 DEF StarterOK, Before, at, Gone
    <2>5. CASE report'[s] = report[s]
      BY <1>1, <1>2, <2>2, <2>5, StarterRests
    <2> QED
      BY <2>3, <2>4, <2>5
  <1> QED
    BY <1>3, <1>4, <1>5, <1>6, <1>7, <1>8 DEF Daemon

\* Every step keeps what a start knows of its daemon.
LEMMA StartNext == StartInv /\ [ServiceNext]_serviceVars => StartInv'
  <1> SUFFICES ASSUME StartInv, [ServiceNext]_serviceVars, NEW s \in Starters PROVE StarterOK(s)'
    BY NextType DEF StartInv
  <1>1. CASE UNCHANGED serviceVars \/ Rotate
    <2>1. act' = act /\ report' = report
      BY <1>1 DEF serviceVars, Rotate
    <2> QED
      BY <2>1, StarterRests DEF StartInv
  <1>2. CASE ServiceNext /\ ~Rotate
    BY <1>2, StartRunning, StartCommand, StartDaemon DEF ServiceNext
  <1> QED
    BY <1>1, <1>2

\* A start that says its daemon failed leaves none behind, and one that says it
\* runs had its report, whatever fails, is killed or stopped meanwhile
\* (Spawn, internal/service/spawn_unix.go).
THEOREM ServiceStartTellsTruth == ServiceSpec => []StartTellsTruth
  <1>1. StartInv => StartTellsTruth
    BY DEF StartInv, StarterOK, StartTellsTruth
  <1> QED
    BY <1>1, StartInit, StartNext, PTL DEF ServiceSpec

-----------------------------------------------------------------------------
(* Whose the port and the rules are, while commands are given in turns.     *)

\* No daemon starts, and no start is under way.
Quiet ==
  /\ \A p \in Daemons : ~Starting(p)
  /\ \A s \in Starters : act[s].pc \in Ended

\* From its rules on, a daemon needs both; a daemon that ends without the port
\* has served, and nothing starts while there is one, or a stop; only a daemon
\* that serves notes that it has been told to end.
Settled == {"state", "report", "start", "serve"}
Leaving == {"cleanup", "forget", "close"}
Loose(q) == (Serving(q) /\ act[q].term) \/ (act[q].pc \in Leaving /\ port # q)
ToldAt == Leaving \union Gone \union {"serve", "exit"}
Turns ==
  /\ \A p \in Daemons : act[p].pc \in Settled \union {"setup"} => port = p
  /\ \A p \in Daemons : act[p].pc \in Settled => rules = p
  /\ (\E k \in Stoppers : act[k].pc \notin Ended) => Quiet
  /\ \A q \in Daemons : Loose(q) => Quiet /\ \A p \in Daemons : Serving(p) => p = q
  /\ \A q \in Daemons : act[q].term => act[q].pc \in ToldAt
InTurns == env.port = "fixed" /\ env.patient
TurnsInv == StartInv /\ (InTurns => Turns)

\* Nobody stops, nor has been stopped.
Unstopped ==
  /\ \A k \in Stoppers : act[k].pc \in Ended
  /\ \A q \in Daemons : ~Loose(q)

\* A daemon that is under way has not been told to stop.
LEMMA BusyUnstopped ==
  ASSUME Turns, ~Quiet
  PROVE  Unstopped
  BY DEF Turns, Unstopped

\* One daemon moves: it takes the port when that is free and nobody stops, or
\* leaves its own, and touches the rules when nobody else needs them.
LEMMA OneTurn ==
  ASSUME Turns, NEW p \in Daemons, \A b \in Actors : b # p => act'[b] = act[b],
         Unstopped \/ ((Starting(p)' => Starting(p)) /\ (Serving(p)' => Serving(p))),
         Loose(p)' => Loose(p),
         port' = port \/ (port = p /\ port' = None) \/ (port = None /\ port' = p),
         act'[p].pc \in Settled \union {"setup"} => port' = p,
         act'[p].pc \in Settled => rules' = p,
         act'[p].term => act'[p].pc \in ToldAt,
         rules' = rules \/ \A q \in Daemons : q # p => act[q].pc \notin Settled
  PROVE  Turns'
  <1>1. \A q \in Daemons : q \in Actors /\ q # None /\ (q # p => act'[q] = act[q])
    BY WhoIsWho
  <1>2. \A c \in Starters \union Stoppers : act'[c] = act[c]
    BY WhoIsWho
  <1>3. \A q \in Daemons : act'[q].pc \in Settled \union {"setup"} => port' = q
    BY <1>1 DEF Turns
  <1>4. \A q \in Daemons : act'[q].pc \in Settled => rules' = q
    BY <1>1 DEF Turns
  <1>5. \A q \in Daemons : Loose(q)' => Loose(q)
    BY <1>1 DEF Loose, Serving
  <1>8. \A q \in Daemons : act'[q].term => act'[q].pc \in ToldAt
    BY <1>1 DEF Turns
  <1>6. CASE Unstopped
    <2>1. Unstopped'
      BY <1>2, <1>5, <1>6 DEF Unstopped
    <2> QED
      BY <1>3, <1>4, <1>8, <2>1 DEF Turns, Unstopped
  <1>7. CASE (Starting(p)' => Starting(p)) /\ (Serving(p)' => Serving(p))
    <2>1. Quiet => Quiet'
      BY <1>1, <1>2, <1>7 DEF Quiet, Starting
    <2>2. \A q \in Daemons : Serving(q)' => Serving(q)
      BY <1>1, <1>7 DEF Serving
    <2>3. (\E k \in Stoppers : act'[k].pc \notin Ended) => Quiet
      BY <1>2 DEF Turns
    <2>4. \A q \in Daemons : Loose(q)' => Quiet' /\ \A r \in Daemons : Serving(r)' => r = q
      BY <1>5, <2>1, <2>2 DEF Turns
    <2> QED
      BY <1>3, <1>4, <1>8, <2>1, <2>3, <2>4 DEF Turns
  <1> QED
    BY <1>6, <1>7

\* A command moves, and d, if it is a daemon, is spawned or killed.
LEMMA CommandTurn ==
  ASSUME Turns, rules' = rules, NEW d,
         \A p \in Daemons : p # d => act'[p].pc = act[p].pc /\ act'[p].term = act[p].term,
         d \in Daemons => act'[d].pc = "killed" \/ (act'[d].pc = "running" /\ ~act'[d].term),
         port' = port \/ (port = d /\ port' = None),
         (Unstopped /\ \A k \in Stoppers : act'[k].pc \in Ended) \/ Quiet'
  PROVE  Turns'
  <1>0. None \notin Daemons
    BY WhoIsWho
  <1>1. \A q \in Daemons : act'[q].pc \in Settled \union {"setup"} => port' = q
    BY DEF Turns, Settled
  <1>2. \A q \in Daemons : act'[q].pc \in Settled => rules' = q
    BY DEF Turns, Settled
  <1>3. \A q \in Daemons : (Loose(q)' => Loose(q)) /\ (Serving(q)' => Serving(q))
    BY <1>0 DEF Loose, Serving, Leaving, at
  <1>6. \A q \in Daemons : act'[q].term => act'[q].pc \in ToldAt
    BY DEF Turns, ToldAt, Gone
  <1>4. CASE Quiet'
    <2>1. \A q \in Daemons : Loose(q)' => \A p \in Daemons : Serving(p)' => p = q
      BY <1>3 DEF Turns
    <2> QED
      BY <1>1, <1>2, <1>4, <1>6, <2>1 DEF Turns
  <1>5. CASE Unstopped /\ \A k \in Stoppers : act'[k].pc \in Ended
    <2>1. \A q \in Daemons : ~Loose(q)'
      BY <1>3, <1>5 DEF Unstopped
    <2> QED
      BY <1>1, <1>2, <1>5, <1>6, <2>1 DEF Turns
  <1> QED
    BY <1>4, <1>5

\* Nobody has a port, rules or a turn at first.
LEMMA TurnsInit == ServiceInit => TurnsInv
  <1> SUFFICES ASSUME ServiceInit PROVE Turns
    BY StartInit DEF TurnsInv
  <1>1. /\ \A p \in Daemons : act[p].pc = "none" /\ ~act[p].term
        /\ \A c \in Starters \union Stoppers : act[c].pc = "idle"
    BY WhoIsWho DEF ServiceInit
  <1> QED
    BY <1>1 DEF Turns, Loose, Serving, Settled, Leaving, Quiet, Starting, Ended

\* Whoever looks for a running daemon has not come far.
LEMMA TurnsRunning ==
  ASSUME TypeOK, Turns, NEW a \in Actors, Running(a)
  PROVE  Turns'
  <1>1. /\ port' = port /\ rules' = rules /\ act \in [Actors -> ActRec]
        /\ \A b \in Actors : b # a => act'[b] = act[b]
    BY ActType DEF Running, ReadState, CleanRead, CleanRemove, Goto, files
  <1>2. act[a].pc \in {"running", "clean", "remove"}
    BY DEF Running, ReadState, CleanRead, CleanRemove, at
  <1>3. CASE a \in Daemons
    <2>1. act'[a].pc \in {"clean", "exit", "token", "listen", "remove"}
      <3>1. CASE ReadState(a)
        BY <1>1, <1>3, <3>1, WhoIsWho DEF ReadState, Goto, WhenNone, ActRec
      <3>2. CASE CleanRead(a)
        BY <1>1, <1>3, <3>2, WhoIsWho DEF CleanRead, Goto, WhenNone, ActRec
      <3>3. CASE CleanRemove(a)
        BY <1>1, <1>3, <3>3, WhoIsWho DEF CleanRemove, Goto, WhenNone, ActRec
      <3> QED
        BY <3>1, <3>2, <3>3 DEF Running
    <2>2. Unstopped
      <3>1. Starting(a)
        BY <1>2 DEF Starting
      <3> QED
        BY <1>3, <3>1, BusyUnstopped DEF Quiet
    <2>3. ~act'[a].term
      <3>1. ~act[a].term
        BY <1>2, <1>3 DEF Turns, ToldAt, Leaving, Gone
      <3>2. act'[a].term = act[a].term
        BY <1>1 DEF Running, ReadState, CleanRead, CleanRemove, Goto, ActRec
      <3> QED
        BY <3>1, <3>2
    <2> QED
      BY <1>1, <1>3, <2>1, <2>2, <2>3, OneTurn DEF Loose, Serving, Settled, Leaving, at
  <1>4. CASE a \in Commands
    <2>1. \A p \in Daemons : p # None /\ act'[p] = act[p]
      BY <1>1, <1>4, WhoIsWho, ActorsAssumption DEF Commands
    <2>2. CASE a \in Starters
      <3>1. ~Quiet
        BY <1>2, <2>2 DEF Quiet, Ended, Gone
      <3>2. \A k \in Stoppers : act'[k] = act[k]
        BY <1>1, <2>2, WhoIsWho
      <3>3. Unstopped /\ \A k \in Stoppers : act'[k].pc \in Ended
        BY <3>1, <3>2, BusyUnstopped DEF Unstopped
      <3> QED
        BY <1>1, <2>1, <3>3, CommandTurn
    <2>3. CASE a \in Stoppers
      <3>1. Quiet
        BY <1>2, <2>3 DEF Turns, Ended, Gone
      <3>2. \A s \in Starters : act'[s] = act[s]
        BY <1>1, <2>3, WhoIsWho
      <3>3. Quiet'
        BY <2>1, <3>1, <3>2 DEF Quiet, Starting
      <3> QED
        BY <1>1, <2>1, <3>3, CommandTurn
    <2> QED
      BY <1>4, <2>2, <2>3 DEF Commands
  <1> QED
    BY <1>3, <1>4 DEF Actors

\* A stop is given when nothing starts, a start when nothing ends or stops.
LEMMA TurnsGive ==
  ASSUME TypeOK, InTurns, Turns, NEW c \in Commands, Give(c)
  PROVE  Turns'
  <1>1. /\ port' = port /\ rules' = rules /\ act' = [act EXCEPT ![c].pc = "running"] /\ act \in [Actors -> ActRec]
        /\ c \in Actors /\ MayGive(c)
    BY ActType DEF Give, Goto, files, Actors
  <1>2. \A p \in Daemons : p # None /\ act'[p] = act[p]
    BY <1>1, WhoIsWho, ActorsAssumption
  <1>3. CASE c \in Starters
    <2>1. Unstopped
      <3>1. \A p \in Daemons : ~Closing(p)
        BY <1>1, <1>3, WhoIsWho DEF InTurns, MayGive
      <3>2. \A k \in Stoppers : act[k].pc \in Ended
        BY <1>1, <1>3, WhoIsWho DEF InTurns, MayGive
      <3> QED
        BY <3>1, <3>2 DEF Unstopped, Loose, Closing, Leaving
    <2>2. \A k \in Stoppers : act'[k].pc \in Ended
      BY <1>1, <1>3, <2>1, WhoIsWho DEF Unstopped
    <2> QED
      BY <1>1, <1>2, <2>1, <2>2, CommandTurn
  <1>4. CASE c \in Stoppers
    <2>1. Quiet
      BY <1>1, <1>4 DEF InTurns, MayGive, Quiet
    <2>2. Quiet'
      BY <1>1, <1>2, <1>4, <2>1, WhoIsWho DEF Quiet, Starting
    <2> QED
      BY <1>1, <1>2, <2>2, CommandTurn
  <1> QED
    BY <1>3, <1>4 DEF Commands

\* A start moves: nobody stops meanwhile.
LEMMA TurnsStart ==
  ASSUME StartInv, Turns, NEW s \in Starters, Start(s)
  PROVE  Turns'
  <1> DEFINE d == Child(s)
  <1>1. act \in [Actors -> ActRec] /\ rules' = rules /\ s \in Actors /\ s \notin Daemons /\ d \in Daemons /\ d \in Actors /\ d # s
    BY ActType, WhoIsWho DEF StartInv, Start, Spawn, Read, Timeout
  <1>2. ~Quiet
    <2>1. act[s].pc \in {"spawn", "wait"}
      BY DEF Start, Spawn, Read, Timeout, at
    <2> QED
      BY <2>1 DEF Quiet, Ended, Gone
  <1>3. \A b \in Actors : b # s /\ b # d => act'[b] = act[b]
    BY <1>1 DEF Start, Spawn, Read, Timeout, Goto
  <1>4. Unstopped /\ \A k \in Stoppers : act'[k].pc \in Ended
    BY <1>1, <1>2, <1>3, BusyUnstopped, WhoIsWho DEF Unstopped
  <1>5. CASE Spawn(s) \/ Timeout(s)
    <2>1. port' = port \/ (port = d /\ port' = None)
      BY <1>5 DEF Spawn, Timeout, files
    <2>3. Spawn(s) => act'[d].pc = "running" /\ ~act'[d].term
      <3> SUFFICES ASSUME Spawn(s) PROVE act'[d].pc = "running" /\ ~act'[d].term
        OBVIOUS
      <3>1. at(d, "none")
        BY DEF StartInv, StarterOK, Before, Spawn, at
      <3>2. ~act[d].term
        BY <1>1, <3>1 DEF Turns, ToldAt, Leaving, Gone, at, ActRec
      <3> QED
        BY <1>1, <3>2 DEF Spawn, ActRec
    <2>4. Timeout(s) => act'[d].pc = "killed"
      BY <1>1 DEF Timeout, ActRec
    <2>2. \A p \in Daemons : p # d => act'[p].pc = act[p].pc /\ act'[p].term = act[p].term
      BY <1>1, <1>3, WhoIsWho
    <2> QED
      BY <1>1, <1>4, <1>5, <2>1, <2>2, <2>3, <2>4, CommandTurn
  <1>6. CASE Read(s)
    <2>1. port' = port /\ \A p \in Daemons : p # None /\ act'[p] = act[p]
      BY <1>1, <1>6, WhoIsWho DEF Read, Goto, files
    <2> QED
      BY <1>1, <1>4, <2>1, CommandTurn
  <1> QED
    BY <1>5, <1>6 DEF Start

\* A stop moves: nothing starts meanwhile.
LEMMA TurnsStop ==
  ASSUME TypeOK, Turns, NEW k \in Stoppers, Stop(k)
  PROVE  Turns'
  <1> DEFINE p == act[k].seen
  <1>1. /\ act \in [Actors -> ActRec] /\ rules' = rules /\ k \in Actors /\ k \notin Daemons
        /\ p \in Daemons => p \in Actors /\ p # k /\ p # None
    BY ActType, WhoIsWho DEF Stop, Terminate, GiveUp
  <1>2. Quiet
    <2>1. act[k].pc \in {"running", "signal"}
      BY DEF Stop, Terminate, GiveUp, at
    <2> QED
      BY <2>1 DEF Turns, Ended, Gone
  <1>3. CASE port' = port /\ act' = [act EXCEPT ![k].pc = "failed"]
    <2>1. \A q \in Daemons : q # None /\ act'[q] = act[q]
      BY <1>1, <1>3, WhoIsWho
    <2>2. Quiet'
      BY <1>1, <1>2, <1>3, <2>1, WhoIsWho DEF Quiet, Starting
    <2> QED
      BY <1>1, <1>3, <2>1, <2>2, CommandTurn
  <1>4. CASE /\ processAlive(p) /\ Serving(p) /\ port' = port
             /\ act' = [act EXCEPT ![k].pc = "running", ![p].term = TRUE]
    <2>1. p \in Daemons
      BY <1>4 DEF processAlive
    <2>2. \A q \in Daemons : act'[q].pc = act[q].pc /\ (q # p => act'[q].term = act[q].term)
      <3> SUFFICES ASSUME NEW q \in Daemons PROVE act'[q].pc = act[q].pc /\ (q # p => act'[q].term = act[q].term)
        OBVIOUS
      <3>1. q \in Actors /\ q # k /\ p \in Actors /\ p # k
        BY <1>1, <2>1, WhoIsWho
      <3>2. q # p => act'[q] = act[q]
        BY <1>1, <1>4, <3>1
      <3>3. act'[p].pc = act[p].pc
        BY <1>1, <1>4, <3>1 DEF ActRec
      <3> QED
        BY <3>2, <3>3
    <2>3. \A s \in Starters : act'[s] = act[s]
      BY <1>1, <1>4, <2>1, WhoIsWho
    <2>4. Quiet'
      BY <1>2, <2>2, <2>3 DEF Quiet, Starting
    <2>5. \A q \in Daemons : Serving(q) => port = q
      BY DEF Turns, Serving, Settled, at
    <2>6. \A q \in Daemons : Loose(q)' => \A r \in Daemons : Serving(r)' => r = q
      <3> SUFFICES ASSUME NEW q \in Daemons, Loose(q)', NEW r \in Daemons, Serving(r)' PROVE r = q
        OBVIOUS
      <3>1. Serving(r) /\ port = r /\ port = p
        BY <1>4, <2>1, <2>2, <2>5 DEF Serving, at
      <3>2. CASE q = p
        BY <3>1, <3>2
      <3>3. CASE q # p
        <4>1. Loose(q)
          BY <1>4, <2>2, <3>3 DEF Loose, Serving, at
        <4> QED
          BY <3>1, <4>1 DEF Turns
      <3> QED
        BY <3>2, <3>3
    <2>7. \A q \in Daemons : act'[q].term => act'[q].pc \in ToldAt
      BY <1>4, <2>2 DEF Turns, ToldAt, Serving, at
    <2> QED
      BY <1>1, <1>4, <2>2, <2>4, <2>6, <2>7 DEF Turns
  <1>5. CASE /\ processAlive(p) /\ port' = IF port = p THEN None ELSE port
             /\ act' = [act EXCEPT ![k].pc = "running", ![p].pc = "killed"]
    <2>1. p \in Daemons /\ act'[p].pc = "killed"
      BY <1>1, <1>5 DEF processAlive, ActRec
    <2>2. \A b \in Actors : b # k /\ b # p => act'[b] = act[b]
      BY <1>1, <1>5
    <2>3. \A q \in Daemons : q # p => act'[q] = act[q]
      BY <1>1, <2>2, WhoIsWho
    <2>4. \A s \in Starters : act'[s] = act[s]
      BY <2>1, <2>2, WhoIsWho
    <2>5. Quiet'
      BY <1>2, <2>1, <2>3, <2>4 DEF Quiet, Starting
    <2> QED
      BY <1>1, <1>5, <2>1, <2>3, <2>5, CommandTurn
  <1> QED
    BY <1>3, <1>4, <1>5 DEF Stop, Terminate, GiveUp, Goto

\* A daemon moves.
LEMMA TurnsDaemon ==
  ASSUME TypeOK, InTurns, Turns, NEW p \in Daemons, Run(p) \/ Daemon(p) \/ Kill(p)
  PROVE  Turns'
  <1>1. act \in [Actors -> ActRec] /\ p \in Actors /\ p # None
    BY ActType, WhoIsWho
  <1>2. \A b \in Actors : b # p => act'[b] = act[b]
    BY <1>1 DEF Run, Daemon, Kill, Die, ReadToken, CreateToken, ReadTokenAgain, WriteToken, Listen, Setup, WriteState,
                Report, StartKernel, End, Cleanup, Forget, Close, Exit, Goto, Fail
  <1>3. Starting(p) => Unstopped
    BY BusyUnstopped DEF Quiet
  <1>3a. Starting(p) => ~act[p].term
    BY <1>1 DEF Turns, ToldAt, Leaving, Gone, Starting
  <1>3b. Run(p) \/ Daemon(p) \/ Kill(p) => act'[p].term = act[p].term
    <2>1. Run(p) \/ Kill(p) \/ Exit(p) \/ Report(p) \/ End(p) => act'[p].term = act[p].term
      BY <1>1 DEF Run, Kill, Exit, Die, Report, End, Goto, Fail, ActRec
    <2>2. ReadToken(p) \/ CreateToken(p) \/ ReadTokenAgain(p) \/ WriteToken(p) => act'[p].term = act[p].term
      BY <1>1 DEF ReadToken, CreateToken, ReadTokenAgain, WriteToken, Goto, Fail, ActRec
    <2>3. Listen(p) \/ Setup(p) \/ WriteState(p) \/ StartKernel(p) => act'[p].term = act[p].term
      BY <1>1 DEF Listen, Setup, WriteState, StartKernel, Goto, Fail, ActRec
    <2>4. Cleanup(p) \/ Forget(p) \/ Close(p) => act'[p].term = act[p].term
      BY <1>1 DEF Cleanup, Forget, Close, Goto, ActRec
    <2> QED
      BY <2>1, <2>2, <2>3, <2>4 DEF Daemon
  <1>4. CASE Run(p)
    <2>1. port' = port /\ rules' = rules /\ act'[p].pc = "running" /\ MayGive(p) /\ p \notin Stoppers
      BY <1>1, <1>4, WhoIsWho DEF Run, Goto, files, ActRec
    <2>3. ~act'[p].term
      <3>1. at(p, "none") /\ act'[p].term = act[p].term
        BY <1>1, <1>4 DEF Run, Goto, ActRec
      <3> QED
        BY <3>1 DEF Turns, ToldAt, Leaving, Gone, at
    <2>2. Unstopped
      BY <2>1 DEF InTurns, MayGive, Unstopped, Loose, Closing, Leaving
    <2> QED
      BY <1>2, <2>1, <2>2, <2>3, OneTurn DEF Loose, Serving, Settled, Leaving, at
  <1>5. CASE ReadToken(p) \/ CreateToken(p) \/ ReadTokenAgain(p) \/ WriteToken(p)
    <2>1. /\ port' = port /\ rules' = rules /\ act[p].pc \in {"token", "create", "again", "write"}
          /\ act'[p].pc \in {"create", "exit", "listen", "write", "again"}
      BY <1>1, <1>5 DEF ReadToken, CreateToken, ReadTokenAgain, WriteToken, Goto, Fail, files, at, ActRec
    <2>2. Unstopped /\ ~act'[p].term
      BY <1>3, <1>3a, <1>3b, <1>5, <2>1 DEF Starting, Daemon
    <2> QED
      BY <1>2, <2>1, <2>2, OneTurn DEF Loose, Serving, Settled, Leaving, at
  <1>6. CASE Listen(p)
    <2>1. /\ rules' = rules /\ at(p, "listen")
          /\ \/ act'[p].pc = "exit" /\ port' = port
             \/ act'[p].pc = "setup" /\ port = None /\ port' = p
      BY <1>1, <1>6 DEF Listen, Goto, Fail, files, InTurns, ActRec
    <2>2. Unstopped /\ ~act'[p].term
      BY <1>3, <1>3a, <1>3b, <1>6, <2>1 DEF Starting, Daemon, at
    <2> QED
      BY <1>2, <2>1, <2>2, OneTurn DEF Loose, Serving, Settled, Leaving, at
  <1>7. CASE Setup(p)
    <2>1. /\ port' = port /\ at(p, "setup")
          /\ (act'[p].pc = "state" /\ rules' = p) \/ act'[p].pc = "exit"
      BY <1>1, <1>7 DEF Setup, Goto, Fail, files, ActRec
    <2>2. Unstopped /\ ~act'[p].term /\ port = p
      BY <1>3, <1>3a, <1>3b, <1>7, <2>1 DEF Starting, Daemon, Turns, at
    <2>3. \A q \in Daemons : q # p => act[q].pc \notin Settled
      BY <2>2 DEF Turns
    <2> QED
      BY <1>2, <2>1, <2>2, <2>3, OneTurn DEF Loose, Serving, Settled, Leaving, at
  <1>8. CASE WriteState(p) \/ Report(p) \/ StartKernel(p)
    <2>1. /\ port' = port /\ rules' = rules /\ act[p].pc \in {"state", "report", "start"} /\ act'[p].term = act[p].term
          /\ act'[p].pc \in {"report", "close", "start", "serve", "cleanup"}
      BY <1>1, <1>8 DEF WriteState, Report, StartKernel, Goto, Fail, files, at, ActRec
    <2>2. Unstopped /\ ~act'[p].term /\ port = p /\ rules = p
      BY <1>3, <1>3a, <2>1 DEF Starting, Settled, Turns
    <2>3. ~Loose(p)'
      BY <2>1, <2>2 DEF Loose
    <2> QED
      BY <1>2, <2>1, <2>2, <2>3, OneTurn
  <1>9. CASE End(p) \/ Cleanup(p) \/ Forget(p)
    <2>1. /\ rules' = rules
          /\ port' = port \/ (port = p /\ port' = None)
          /\ act'[p].pc \in Leaving /\ act'[p].term = act[p].term
      BY <1>1, <1>9 DEF End, Cleanup, Forget, Goto, files, Leaving, ActRec
    <2>2. Loose(p)' => Loose(p)
      BY <1>1, <1>9, <2>1 DEF End, Cleanup, Forget, Loose, Leaving, Serving, files, at
    <2> QED
      BY <1>2, <2>1, <2>2, OneTurn DEF Serving, Starting, Settled, Leaving, ToldAt, at
  <1>10. CASE Close(p)
    <2>1. port' = port /\ at(p, "close") /\ act'[p].pc = "exit"
      BY <1>1, <1>10 DEF Close, Goto, files, ActRec
    <2>2. \A q \in Daemons : q # p => act[q].pc \notin Settled
      <3>1. CASE port = p
        BY <3>1 DEF Turns
      <3>2. CASE port # p
        <4>1. Loose(p)
          BY <2>1, <3>2 DEF Loose, Leaving, at
        <4>2. Quiet /\ \A q \in Daemons : Serving(q) => q = p
          BY <4>1 DEF Turns
        <4> QED
          BY <4>2 DEF Quiet, Starting, Settled, Serving, at
      <3> QED
        BY <3>1, <3>2
    <2> QED
      BY <1>2, <2>1, <2>2, OneTurn DEF Loose, Serving, Starting, Settled, Leaving, ToldAt, at
  <1>11. CASE Exit(p) \/ Kill(p)
    <2>1. /\ rules' = rules
          /\ port' = port \/ (port = p /\ port' = None)
          /\ act'[p].pc \in {"dead", "killed"}
      BY <1>1, <1>11 DEF Exit, Kill, Die, ActRec
    <2> QED
      BY <1>2, <2>1, OneTurn DEF Loose, Serving, Starting, Settled, Leaving, ToldAt, Gone, at
  <1> QED
    BY <1>4, <1>5, <1>6, <1>7, <1>8, <1>9, <1>10, <1>11 DEF Daemon

\* The circumstances do not change.
LEMMA SameEnv == [ServiceNext]_serviceVars => env' = env
  BY DEF ServiceNext, serviceVars, Give, Running, ReadState, CleanRead, CleanRemove, Start, Spawn, Read, Timeout, Stop,
         Terminate, GiveUp, Run, Daemon, Kill, ReadToken, CreateToken, ReadTokenAgain, WriteToken, Listen, Setup, WriteState,
         Report, StartKernel, End, Cleanup, Forget, Close, Exit, Rotate

\* Every step keeps the turns.
LEMMA TurnsNext == TurnsInv /\ [ServiceNext]_serviceVars => TurnsInv'
  <1> SUFFICES ASSUME TurnsInv, [ServiceNext]_serviceVars, InTurns' PROVE Turns'
    BY StartNext DEF TurnsInv
  <1>1. env' = env
    BY SameEnv
  <1>2. StartInv /\ TypeOK /\ InTurns /\ Turns
    BY <1>1 DEF TurnsInv, StartInv, InTurns
  <1>3. CASE UNCHANGED serviceVars \/ Rotate
    <2>1. act' = act /\ port' = port /\ rules' = rules
      BY <1>3 DEF serviceVars, Rotate
    <2> QED
      BY <1>2, <2>1 DEF Turns, Quiet, Loose, Serving, Starting, at
  <1>4. CASE ServiceNext /\ ~Rotate
    BY <1>2, <1>4, TurnsGive, TurnsRunning, TurnsStart, TurnsStop, TurnsDaemon DEF ServiceNext
  <1> QED
    BY <1>3, <1>4

\* With a port of their own to race for, and stops that wait for starts and
\* starts for stops, a daemon that serves has its rules in the kernel, whatever
\* fails and is killed (cmd/tailproxy/main.go).
THEOREM ServiceServingHasRules == ServiceSpec => []ServingHasRules
  <1>1. TurnsInv => ServingHasRules
    BY DEF TurnsInv, InTurns, Turns, Settled, ServingHasRules
  <1> QED
    BY <1>1, TurnsInit, TurnsNext, PTL DEF ServiceSpec

-----------------------------------------------------------------------------
(* Whom the state file names, while nobody is killed.                       *)

\* The file names a daemon that has written it and not yet removed it, and
\* nobody finds it left behind.
Mentioned == {"report", "start", "serve", "cleanup", "forget"}
Named ==
  /\ \A p \in Daemons : act[p].pc \in {"report", "start", "serve"} => state = p
  /\ state # None => state \in Daemons /\ act[state].pc \in Mentioned
  /\ \A a \in Actors : act[a].pc \notin {"clean", "remove"}
NamedInv == TurnsInv /\ (InTurns /\ NobodyKilled => Named)

\* There is no state file at first, and nobody serves.
LEMMA NamedInit == ServiceInit => NamedInv
  <1> SUFFICES ASSUME ServiceInit, NobodyKilled PROVE Named
    BY TurnsInit DEF NamedInv
  <1>1. /\ \A p \in Daemons : act[p].pc = "none"
        /\ \A a \in Actors : act[a].pc \in {"none", "idle"}
        /\ state = None
    BY WhoIsWho DEF ServiceInit, NobodyKilled
  <1> QED
    BY <1>1 DEF Named

\* A step of processes the file does not name, nor will.
LEMMA NamedRest ==
  ASSUME Named, state' = state,
         \A a \in Actors : \/ act'[a].pc = act[a].pc
                           \/ act[a].pc \notin Mentioned /\ act'[a].pc \notin Mentioned \union {"clean", "remove"}
  PROVE  Named'
  <1>1. Daemons \subseteq Actors
    BY WhoIsWho
  <1> QED
    BY <1>1 DEF Named, Mentioned

\* Who has been killed stays so.
LEMMA KilledStays ==
  ASSUME StartInv, [ServiceNext]_serviceVars, NobodyKilled'
  PROVE  NobodyKilled
  <1>1. env' = env
    BY SameEnv
  <1> SUFFICES ASSUME NEW q \in Daemons, at(q, "killed") PROVE at(q, "killed")'
    BY <1>1 DEF NobodyKilled
  <1>2. act \in [Actors -> ActRec] /\ q \in Actors /\ q \notin Commands
    BY ActType, WhoIsWho, ActorsAssumption DEF StartInv
  <1>3. ASSUME NEW a \in Actors, Running(a) PROVE at(q, "killed")'
    BY <1>2, <1>3 DEF Running, ReadState, CleanRead, CleanRemove, Goto, at
  <1>4. ASSUME NEW c \in Commands, Give(c) PROVE at(q, "killed")'
    BY <1>2, <1>4 DEF Give, Goto, at
  <1>5. ASSUME NEW s \in Starters, Start(s) PROVE at(q, "killed")'
    <2>1. s \in Actors /\ s # q /\ Child(s) \in Actors /\ s # Child(s)
      BY <1>2, WhoIsWho
    <2>2. Spawn(s) => at(Child(s), "none")
      BY DEF StartInv, StarterOK, Before, Spawn, at
    <2> QED
      BY <1>2, <1>5, <2>1, <2>2 DEF Start, Spawn, Read, Timeout, Goto, Gone, at
  <1>6. ASSUME NEW k \in Stoppers, Stop(k) PROVE at(q, "killed")'
    <2> DEFINE p == act[k].seen
    <2>1. k \in Actors /\ k # q
      BY <1>2, WhoIsWho
    <2>2. processAlive(p) => p \in Actors /\ p # q /\ p # k
      BY <2>1, WhoIsWho DEF processAlive, Gone, at
    <2> QED
      BY <1>2, <1>6, <2>1, <2>2 DEF Stop, Terminate, GiveUp, Goto, at
  <1>7. ASSUME NEW p \in Daemons, Run(p) \/ Daemon(p) \/ Kill(p) PROVE at(q, "killed")'
    <2>1. p # q
      BY <1>7 DEF Run, Daemon, Kill, processAlive, Gone, ReadToken, CreateToken, ReadTokenAgain, WriteToken, Listen, Setup,
                  WriteState, Report, StartKernel, End, Serving, Cleanup, Forget, Close, Exit, at
    <2>2. act'[q] = act[q]
      BY <1>2, <1>7, <2>1 DEF Run, Daemon, Kill, Die, ReadToken, CreateToken, ReadTokenAgain, WriteToken, Listen, Setup,
                  WriteState, Report, StartKernel, End, Cleanup, Forget, Close, Exit, Goto, Fail
    <2> QED
      BY <2>2 DEF at
  <1>8. CASE Rotate \/ UNCHANGED serviceVars
    BY <1>8 DEF Rotate, serviceVars, at
  <1> QED
    BY <1>3, <1>4, <1>5, <1>6, <1>7, <1>8 DEF ServiceNext

\* Whoever looks for a running daemon finds it alive, or none.
LEMMA NamedRunning ==
  ASSUME TypeOK, Named, NEW a \in Actors, Running(a)
  PROVE  Named'
  <1>1. act \in [Actors -> ActRec]
    BY ActType
  <1>2. ReadState(a)
    BY DEF Running, CleanRead, CleanRemove, Named, at
  <1>3. state # None => processAlive(state)
    BY DEF Named, Mentioned, processAlive, Gone
  <1>4. /\ state' = state /\ at(a, "running")
        /\ \A b \in Actors : b # a => act'[b] = act[b]
    BY <1>1, <1>2 DEF ReadState, Goto, files
  <1>5. act'[a].pc \notin Mentioned \union {"clean", "remove"}
    BY <1>1, <1>2, <1>3 DEF ReadState, Goto, WhenNone, Mentioned, ActRec
  <1> QED
    BY <1>4, <1>5, NamedRest DEF Mentioned, at

\* A step of a command keeps the state file's name right.
LEMMA NamedCommand ==
  ASSUME StartInv, Named, NobodyKilled',
         (\E c \in Commands : Give(c)) \/ (\E s \in Starters : Start(s)) \/ (\E k \in Stoppers : Stop(k))
  PROVE  Named'
  <1>1. act \in [Actors -> ActRec] /\ \A q \in Daemons : act'[q].pc # "killed"
    BY ActType DEF StartInv, NobodyKilled, at
  <1>2. ASSUME NEW c \in Commands, Give(c) PROVE Named'
    <2>1. state' = state /\ at(c, "idle") /\ act' = [act EXCEPT ![c].pc = "running"] /\ c \in Actors
      BY <1>2 DEF Give, Goto, files, Actors
    <2>2. \A a \in Actors : act'[a].pc = IF a = c THEN "running" ELSE act[a].pc
      BY <1>1, <2>1 DEF ActRec
    <2> QED
      BY <2>1, <2>2, NamedRest DEF Mentioned, at
  <1>3. ASSUME NEW s \in Starters, Start(s) PROVE Named'
    <2>1. s \in Actors /\ Child(s) \in Actors /\ Child(s) \in Daemons /\ s # Child(s)
      BY WhoIsWho
    <2>2. state' = state
      BY <1>3 DEF Start, Spawn, Read, Timeout, files
    <2>3. CASE Spawn(s)
      <3>1. at(Child(s), "none") /\ at(s, "spawn")
        BY <2>3 DEF StartInv, StarterOK, Before, Spawn, at
      <3>2. act' = [act EXCEPT ![s].pc = "wait", ![Child(s)].pc = "running"]
        BY <2>3 DEF Spawn
      <3>3. \A a \in Actors : act'[a].pc = CASE a = s -> "wait" [] a = Child(s) -> "running" [] OTHER -> act[a].pc
        BY <1>1, <2>1, <3>2 DEF ActRec
      <3> QED
        BY <2>2, <3>1, <3>3, NamedRest DEF Mentioned, at
    <2>4. CASE Read(s)
      <3>1. at(s, "wait") /\ \E x \in {"started", "failed"} : act' = [act EXCEPT ![s].pc = x]
        BY <2>4 DEF Read, Goto
      <3>2. PICK x \in {"started", "failed"} : act' = [act EXCEPT ![s].pc = x]
        BY <3>1
      <3>3. \A a \in Actors : act'[a].pc = IF a = s THEN x ELSE act[a].pc
        BY <1>1, <2>1, <3>2 DEF ActRec
      <3> QED
        BY <2>2, <3>1, <3>3, NamedRest DEF Mentioned, at
    <2>5. ~Timeout(s)
      <3> SUFFICES ASSUME Timeout(s) PROVE FALSE
        OBVIOUS
      <3>1. act'[Child(s)].pc = "killed"
        BY <1>1, <2>1 DEF Timeout, ActRec
      <3> QED
        BY <1>1, <2>1, <3>1
    <2> QED
      BY <1>3, <2>3, <2>4, <2>5 DEF Start
  <1>4. ASSUME NEW k \in Stoppers, Stop(k) PROVE Named'
    <2> DEFINE p == act[k].seen
    <2>1. k \in Actors /\ (processAlive(p) => p \in Daemons /\ p \in Actors /\ p # k)
      BY WhoIsWho DEF processAlive
    <2>2. state' = state /\ act[k].pc \in {"signal", "running"}
      BY <1>4 DEF Stop, Terminate, GiveUp, files, at
    <2>3. ASSUME processAlive(p) PROVE act' # [act EXCEPT ![k].pc = "running", ![p].pc = "killed"]
      <3> SUFFICES ASSUME act' = [act EXCEPT ![k].pc = "running", ![p].pc = "killed"] PROVE FALSE
        OBVIOUS
      <3>1. act'[p].pc = "killed"
        BY <1>1, <2>1, <2>3 DEF ActRec
      <3> QED
        BY <1>1, <2>1, <2>3, <3>1
    <2>4. \/ act' = [act EXCEPT ![k].pc = "failed"]
          \/ processAlive(p) /\ act' = [act EXCEPT ![k].pc = "running", ![p].term = TRUE]
      BY <1>4, <2>3 DEF Stop, Terminate, GiveUp, Goto
    <2>5. \A a \in Actors : a # k => act'[a].pc = act[a].pc
      BY <1>1, <2>1, <2>4 DEF ActRec
    <2>6. act'[k].pc \in {"failed", "running"}
      BY <1>1, <2>1, <2>4 DEF ActRec
    <2> QED
      BY <2>2, <2>5, <2>6, NamedRest DEF Mentioned
  <1> QED
    BY <1>2, <1>3, <1>4

\* Nobody else is between its rules and its end while a daemon removes the file.
LEMMA AloneToLeave ==
  ASSUME Turns, NEW p \in Daemons, act[p].pc \in Leaving, NEW q \in Daemons, act[q].pc \in Settled
  PROVE  q = p
  <1>1. port = q
    BY DEF Turns
  <1>2. CASE port = p
    BY <1>1, <1>2
  <1>3. CASE port # p
    <2>1. Quiet /\ (Serving(q) => q = p)
      BY <1>3 DEF Turns, Loose
    <2> QED
      BY <2>1 DEF Quiet, Starting, Settled, Serving, at
  <1> QED
    BY <1>2, <1>3

\* So does a step of a daemon.
LEMMA NamedDaemon ==
  ASSUME TypeOK, Turns, Named, NobodyKilled', NEW p \in Daemons, Run(p) \/ Daemon(p) \/ Kill(p)
  PROVE  Named'
  <1>1. act \in [Actors -> ActRec] /\ p \in Actors /\ p # None /\ Daemons \subseteq Actors
    BY ActType, WhoIsWho
  <1>2. \A b \in Actors : b # p => act'[b] = act[b]
    BY <1>1 DEF Run, Daemon, Kill, Die, ReadToken, CreateToken, ReadTokenAgain, WriteToken, Listen, Setup, WriteState,
                Report, StartKernel, End, Cleanup, Forget, Close, Exit, Goto, Fail
  <1>3. CASE Run(p) \/ Listen(p) \/ Setup(p) \/ Close(p) \/ Exit(p)
    <2>1. /\ state' = state /\ act[p].pc \in {"none", "listen", "setup", "close", "exit"}
          /\ act'[p].pc \in {"running", "setup", "state", "exit", "dead"}
      BY <1>1, <1>3 DEF Run, Listen, Setup, Close, Exit, Die, Goto, Fail, files, at, ActRec
    <2> QED
      BY <1>2, <2>1, NamedRest DEF Mentioned
  <1>4. CASE ReadToken(p) \/ CreateToken(p) \/ ReadTokenAgain(p) \/ WriteToken(p)
    <2>1. /\ state' = state /\ act[p].pc \in {"token", "create", "again", "write"}
          /\ act'[p].pc \in {"create", "exit", "listen", "write", "again"}
      BY <1>1, <1>4 DEF ReadToken, CreateToken, ReadTokenAgain, WriteToken, Goto, Fail, files, at, ActRec
    <2> QED
      BY <1>2, <2>1, NamedRest DEF Mentioned
  <1>5. CASE WriteState(p)
    <2>1. at(p, "state")
      BY <1>5 DEF WriteState
    <2>2. CASE state' = state /\ act'[p].pc = "close"
      BY <1>2, <2>1, <2>2, NamedRest DEF Mentioned, at
    <2>3. CASE state' = p /\ act'[p].pc = "report"
      <3>1. \A q \in Daemons : act[q].pc \in Settled => q = p
        BY <2>1 DEF Turns, Settled, at
      <3> QED
        BY <1>1, <1>2, <2>3, <3>1 DEF Named, Mentioned, Settled
    <2> QED
      BY <1>1, <1>5, <2>2, <2>3 DEF WriteState, Goto, Fail, ActRec
  <1>6. CASE Report(p) \/ StartKernel(p) \/ End(p)
    <2>1. /\ state' = state /\ act[p].pc \in {"report", "start", "serve"}
          /\ act'[p].pc \in {"start", "serve", "cleanup"}
      BY <1>1, <1>6 DEF Report, StartKernel, End, Serving, Goto, Fail, files, at, ActRec
    <2>2. state = p
      BY <2>1 DEF Named
    <2> QED
      BY <1>1, <1>2, <2>1, <2>2 DEF Named, Mentioned
  <1>7. CASE Cleanup(p)
    <2>1. state' = state /\ at(p, "cleanup")
      BY <1>7 DEF Cleanup, files
    <2>2. state # None => processAlive(state)
      BY DEF Named, Mentioned, processAlive, Gone
    <2>3. act'[p].pc = IF state = p THEN "forget" ELSE "close"
      BY <1>1, <1>7, <2>2 DEF Cleanup, Goto, ActRec
    <2> QED
      BY <1>1, <1>2, <2>1, <2>3 DEF Named, Mentioned, at
  <1>8. CASE Forget(p)
    <2>1. state' = None /\ at(p, "forget") /\ act'[p].pc = "close"
      BY <1>1, <1>8 DEF Forget, Goto, ActRec
    <2>2. \A q \in Daemons : q # p => act[q].pc \notin Settled
      BY <2>1, AloneToLeave DEF Leaving, at
    <2> QED
      BY <1>1, <1>2, <2>1, <2>2 DEF Named, Settled
  <1>9. ~Kill(p)
    <2> SUFFICES ASSUME Kill(p) PROVE FALSE
      OBVIOUS
    <2>1. act'[p].pc = "killed"
      BY <1>1 DEF Kill, Die, ActRec
    <2> QED
      BY <2>1 DEF NobodyKilled, at
  <1> QED
    BY <1>3, <1>4, <1>5, <1>6, <1>7, <1>8, <1>9 DEF Daemon

\* And so does every step.
LEMMA NamedNext == NamedInv /\ [ServiceNext]_serviceVars => NamedInv'
  <1> SUFFICES ASSUME NamedInv, [ServiceNext]_serviceVars, InTurns', NobodyKilled' PROVE Named'
    BY TurnsNext DEF NamedInv
  <1>1. env' = env
    BY SameEnv
  <1>2. StartInv /\ TypeOK /\ InTurns /\ NobodyKilled
    BY <1>1, KilledStays DEF NamedInv, TurnsInv, StartInv, InTurns
  <1>3. Turns /\ Named
    BY <1>2 DEF NamedInv, TurnsInv
  <1>4. CASE UNCHANGED serviceVars \/ Rotate
    <2>1. act' = act /\ state' = state
      BY <1>4 DEF serviceVars, Rotate
    <2> QED
      BY <1>3, <2>1, NamedRest
  <1>5. CASE ServiceNext /\ ~Rotate
    BY <1>2, <1>3, <1>5, NamedRunning, NamedCommand, NamedDaemon DEF ServiceNext
  <1> QED
    BY <1>4, <1>5

\* The state file names the daemon that serves, as long as none was killed and
\* left it behind: stop, status and a second start find it (cmd/tailproxy/main.go).
THEOREM ServiceStateNamesServer == ServiceSpec => []StateNamesServer
  <1>1. NamedInv => StateNamesServer
    BY DEF NamedInv, InTurns, Named, StateNamesServer, Serving, at
  <1> QED
    BY <1>1, NamedInit, NamedNext, PTL DEF ServiceSpec

\* A set of natural numbers has a least one.
LEMMA Least ==
  ASSUME NEW T, T \subseteq Nat, T # {}
  PROVE  \E x \in T : \A y \in T : ~(y < x)
  <1> DEFINE R == OpToRel(<, Nat)
  <1>1. IsWellFoundedOn(R, Nat)
    BY NatLessThanWellFounded
  <1>2. \A x, y \in Nat : x < y => <<x, y>> \in R
    BY DEF OpToRel
  <1> HIDE DEF R
  <1>3. PICK x \in T : \A y \in T : ~(<<y, x>> \in R)
    BY <1>1, WFMin
  <1>4. \A y \in T : ~(y < x)
    BY <1>2, <1>3, Zenon
  <1> QED
    BY <1>4



-----------------------------------------------------------------------------
(* A connection through a relay: who is connected to what.                 *)

Stages == {"idle", "accept", "method", "auth", "request", "route", "dial", "cmethod", "cauth", "creply", "resolve", "connect",
           "answer", "copy", "done"}
ConnRec(M) == [sent : [Sides -> Seq(M)], fin : SUBSET Sides, closed : SUBSET Sides, open : BOOLEAN, lost : BOOLEAN]

\* What a connection carries: messages of L from its client, of R from its
\* server.
Carries(c, L, R) == c \in ConnRec(L \union R) /\ c.sent["l"] \in Seq(L) /\ c.sent["r"] \in Seq(R)

\* A side that has sent something the connection may carry.
LEMMA SentCarries ==
  ASSUME NEW L, NEW R, NEW c, Carries(c, L, R), NEW s \in Sides, NEW q \in Seq(L \union R),
         s = "l" => q \in Seq(L), s = "r" => q \in Seq(R)
  PROVE  Carries([c EXCEPT !.sent = [@ EXCEPT ![s] = q]], L, R)
  <1> DEFINE f == [c.sent EXCEPT ![s] = q]
  <1>1. /\ c.sent \in [Sides -> Seq(L \union R)] /\ c \in ConnRec(L \union R)
        /\ c.sent["l"] \in Seq(L) /\ c.sent["r"] \in Seq(R) /\ "l" \in Sides /\ "r" \in Sides
    BY DEF Carries, ConnRec, Sides
  <1>2. f \in [Sides -> Seq(L \union R)]
    BY <1>1
  <1>3. f["l"] \in Seq(L)
    BY <1>1
  <1>4. f["r"] \in Seq(R)
    BY <1>1
  <1>5. [c EXCEPT !.sent = [@ EXCEPT ![s] = q]] = [c EXCEPT !.sent = f]
    BY <1>1 DEF ConnRec
  <1> HIDE DEF f
  <1>6. [c EXCEPT !.sent = f] \in ConnRec(L \union R) /\ [c EXCEPT !.sent = f].sent = f
    BY <1>1, <1>2 DEF ConnRec
  <1> QED
    BY <1>3, <1>4, <1>5, <1>6 DEF Carries

\* A write adds a message of the side that writes.
LEMMA PutCarries ==
  ASSUME NEW L, NEW R, NEW c, Carries(c, L, R), NEW m, NEW s \in Sides,
         IF s = "l" THEN m \in L ELSE m \in R
  PROVE  Carries(Put(c, s, m), L, R)
  <1>1. CASE Broken(c, s)
    BY <1>1 DEF Put
  <1>2. CASE ~Broken(c, s)
    <2> DEFINE q == Append(c.sent[s], m)
    <2>1. c.sent \in [Sides -> Seq(L \union R)] /\ m \in L \union R
      BY DEF Carries, ConnRec
    <2>2. /\ q \in Seq(L \union R)
          /\ s = "l" => q \in Seq(L)
          /\ s = "r" => q \in Seq(R)
      BY <2>1 DEF Carries, Sides
    <2> HIDE DEF q
    <2>3. Put(c, s, m) = [c EXCEPT !.sent = [@ EXCEPT ![s] = q]]
      BY <1>2 DEF Put, q, Carries, ConnRec
    <2>4. Carries([c EXCEPT !.sent = [@ EXCEPT ![s] = q]], L, R)
      BY <2>2, SentCarries
    <2> QED
      BY <2>3, <2>4
  <1> QED
    BY <1>1, <1>2

\* A read takes a message of the other side.
LEMMA TakeCarries ==
  ASSUME NEW L, NEW R, NEW c, Carries(c, L, R), NEW s \in Sides, Readable(c, s)
  PROVE  /\ Carries(Take(c, s), L, R)
         /\ IF s = "l" THEN FirstOf(c, s) \in R ELSE FirstOf(c, s) \in L
  <1> DEFINE p == Peer(s)
             q == Tail(c.sent[p])
  <1>1. c.sent \in [Sides -> Seq(L \union R)] /\ p \in Sides /\ (s = "l" <=> p = "r") /\ (s = "r" <=> p = "l")
    BY DEF Carries, ConnRec, Sides, Peer
  <1>2. c.sent[p] # <<>> /\ FirstOf(c, s) = Head(c.sent[p])
    BY DEF Readable, FirstOf
  <1>3. Take(c, s) = [c EXCEPT !.sent = [@ EXCEPT ![p] = q]]
    BY DEF Take, Carries, ConnRec
  <1> HIDE DEF p
  <1>4. /\ q \in Seq(L \union R)
        /\ p = "l" => q \in Seq(L) /\ Head(c.sent[p]) \in L
        /\ p = "r" => q \in Seq(R) /\ Head(c.sent[p]) \in R
    BY <1>1, <1>2 DEF Carries, Sides
  <1> HIDE DEF q
  <1>5. Carries(Take(c, s), L, R)
    <2>1. Carries([c EXCEPT !.sent = [@ EXCEPT ![p] = q]], L, R)
      BY <1>1, <1>4, SentCarries
    <2> QED
      BY <1>3, <2>1
  <1> QED
    BY <1>1, <1>2, <1>4, <1>5 DEF Sides

\* Half-closing, closing and losing a connection add nothing to it.
LEMMA EndsCarry ==
  ASSUME NEW L, NEW R, NEW c, Carries(c, L, R), NEW s \in Sides
  PROVE  /\ Carries(CloseWrite(c, s), L, R)
         /\ Carries(CloseSide(c, s), L, R)
         /\ Carries(Lose(c), L, R)
  <1>1. Carries(CloseWrite(c, s), L, R) /\ Carries(CloseSide(c, s), L, R)
    BY DEF Carries, ConnRec, CloseWrite, CloseSide
  <1>2. <<>> \in Seq(L) /\ <<>> \in Seq(R) /\ <<>> \in Seq(L \union R)
    OBVIOUS
  <1>3. Carries(Lose(c), L, R)
    BY <1>2 DEF Carries, ConnRec, Lose, Sides
  <1> QED
    BY <1>1, <1>3

\* A new connection carries nothing.
LEMMA EmptyCarries ==
  ASSUME NEW L, NEW R
  PROVE  Carries(NotOpened, L, R) /\ Carries(Opened, L, R) /\ Opened.open /\ ~NotOpened.open
  <1>2. <<>> \in Seq(L) /\ <<>> \in Seq(R) /\ <<>> \in Seq(L \union R)
    OBVIOUS
  <1> QED
    BY <1>2 DEF Carries, ConnRec, Opened, NotOpened, Sides

\* What carries only these carries only more.
LEMMA CarriesMore ==
  ASSUME NEW L, NEW R, NEW L1, NEW R1, L \subseteq L1, R \subseteq R1, NEW c, Carries(c, L, R)
  PROVE  Carries(c, L1, R1)
  <1>1. c.sent["l"] \in Seq(L1)
    BY DEF Carries
  <1>2. c.sent["r"] \in Seq(R1)
    BY DEF Carries
  <1>3. c \in ConnRec(L1 \union R1)
    <2>1. c.sent \in [Sides -> Seq(L \union R)] /\ L \union R \subseteq L1 \union R1
      BY DEF Carries, ConnRec
    <2>2. c.sent \in [Sides -> Seq(L1 \union R1)]
      BY <2>1
    <2> QED
      BY <2>2 DEF Carries, ConnRec
  <1> QED
    BY <1>1, <1>2, <1>3 DEF Carries

-----------------------------------------------------------------------------

\* The addresses the relay may connect to.
Reachable == {a \in Addrs : path.private \/ isPublic(a)}

Keeps(n, g) ==
  g = [i \in 0..n |->
         IF i = 0 THEN <<>>
         ELSE IF path.private \/ isPublic(path.answers[i]) THEN Append(g[i - 1], path.answers[i])
         ELSE g[i - 1]]

\* The recursion that keeps the allowed addresses has a value.
LEMMA KeepRuns ==
  ASSUME NEW m \in Nat
  PROVE  \E g : Keeps(m, g)
  <1> DEFINE T == {n \in Nat : ~\E g : Keeps(n, g)}
  <1> SUFFICES ASSUME T # {} PROVE FALSE
    OBVIOUS
  <1>1. PICK n \in T : \A i \in T : ~(i < n)
    BY Least
  <1>2. n \in Nat /\ ~\E g : Keeps(n, g)
    BY <1>1
  <1> HIDE DEF T
  <1>3. CASE n = 0
    <2> DEFINE e == <<>>
               g == [i \in 0..0 |-> e]
    <2>1. g = [i \in 0..0 |->
                 IF i = 0 THEN e
                 ELSE IF path.private \/ isPublic(path.answers[i]) THEN Append(g[i - 1], path.answers[i])
                 ELSE g[i - 1]]
      <3> HIDE DEF e
      <3> QED
        OBVIOUS
    <2>2. Keeps(0, g)
      BY <2>1 DEF Keeps
    <2> QED
      BY <1>2, <1>3, <2>2
  <1>4. CASE n # 0
    <2>1. n - 1 \in Nat /\ n - 1 < n
      BY <1>2, <1>4
    <2>2. \E g : Keeps(n - 1, g)
      BY <1>1, <2>1 DEF T
    <2>3. PICK g : Keeps(n - 1, g)
      BY <2>2
    <2> DEFINE Next1(q, i) == IF path.private \/ isPublic(path.answers[i]) THEN Append(q, path.answers[i]) ELSE q
               last == Next1(g[n - 1], n)
               h == [i \in 0..n |-> IF i = n THEN last ELSE g[i]]
    <2>4. \A i \in 0..(n - 1) : g[i] = IF i = 0 THEN <<>> ELSE Next1(g[i - 1], i)
      BY <2>3 DEF Keeps
    <2> HIDE DEF Next1
    <2>5. \A i \in 0..n : i # n => i \in 0..(n - 1) /\ h[i] = g[i]
      BY <1>2
    <2>6. h[n] = last
      BY <1>2
    <2>7. \A i \in 0..n : h[i] = IF i = 0 THEN <<>> ELSE Next1(h[i - 1], i)
      <3> SUFFICES ASSUME NEW i \in 0..n
                   PROVE  h[i] = IF i = 0 THEN <<>> ELSE Next1(h[i - 1], i)
        OBVIOUS
      <3>1. i # 0 => i - 1 \in 0..n /\ i - 1 # n
        BY <1>2
      <3>2. i # 0 => h[i - 1] = g[i - 1]
        BY <2>5, <3>1
      <3> HIDE DEF h
      <3>3. CASE i = n
        BY <1>4, <2>6, <3>2, <3>3
      <3>4. CASE i # n
        BY <2>4, <2>5, <3>2, <3>4
      <3> QED
        BY <3>3, <3>4
    <2>8. h = [i \in 0..n |-> h[i]]
      OBVIOUS
    <2> HIDE DEF h
    <2>9. h = [i \in 0..n |-> IF i = 0 THEN <<>> ELSE Next1(h[i - 1], i)]
      BY <2>7, <2>8
    <2>10. Keeps(n, h)
      BY <2>9 DEF Keeps, Next1
    <2> QED
      BY <1>2, <2>10
  <1> QED
    BY <1>3, <1>4

\* What it keeps are answers that may be reached.
LEMMA KeptReachable ==
  ASSUME NEW m \in Nat, NEW g, Keeps(m, g), path.answers \in Seq(Addrs), m = Len(path.answers)
  PROVE  g[m] \in Seq(Reachable)
  <1> DEFINE T == {n \in 0..m : g[n] \notin Seq(Reachable)}
  <1> SUFFICES ASSUME T # {} PROVE FALSE
    OBVIOUS
  <1>1. PICK n \in T : \A i \in T : ~(i < n)
    <2>1. T \subseteq Nat
      OBVIOUS
    <2> HIDE DEF T
    <2> QED
      BY <2>1, Least
  <1>2. n \in 0..m /\ g[n] \notin Seq(Reachable)
    BY <1>1
  <1>3. g[n] = IF n = 0 THEN <<>>
               ELSE IF path.private \/ isPublic(path.answers[n]) THEN Append(g[n - 1], path.answers[n])
               ELSE g[n - 1]
    BY <1>2 DEF Keeps
  <1>4. CASE n = 0
    BY <1>2, <1>3, <1>4
  <1>5. CASE n # 0
    <2>1. n - 1 \in 0..m /\ n - 1 < n
      BY <1>2, <1>5
    <2>2. g[n - 1] \in Seq(Reachable)
      BY <1>1, <2>1
    <2>3. path.answers[n] \in Addrs
      BY <1>2, <1>5
    <2>4. CASE path.private \/ isPublic(path.answers[n])
      <3>1. path.answers[n] \in Reachable
        BY <2>3, <2>4 DEF Reachable
      <3> DEFINE q == g[n - 1]
                 a == path.answers[n]
      <3>2. Append(q, a) \in Seq(Reachable)
        <4>1. q \in Seq(Reachable) /\ a \in Reachable
          BY <2>2, <3>1
        <4> HIDE DEF q, a
        <4> QED
          BY <4>1
      <3> QED
        BY <1>2, <1>3, <1>5, <2>4, <3>2
    <2>5. CASE ~(path.private \/ isPublic(path.answers[n]))
      BY <1>2, <1>3, <1>5, <2>2, <2>5
    <2> QED
      BY <2>4, <2>5
  <1> QED
    BY <1>4, <1>5

\* Only addresses the relay may connect to are kept, however many there are.
LEMMA AllowedReachable ==
  ASSUME path.answers \in Seq(Addrs)
  PROVE  allowed \in Seq(Reachable)
  <1> DEFINE m == Len(path.answers)
             keep == CHOOSE g : Keeps(m, g)
  <1>1. m \in Nat
    OBVIOUS
  <1>2. Keeps(m, keep)
    BY <1>1, KeepRuns
  <1>3. allowed = keep[m]
    BY DEF allowed, Keeps
  <1> QED
    BY <1>1, <1>2, <1>3, KeptReachable

-----------------------------------------------------------------------------

\* What is said: the application's script, and what the code and the
\* destination say.
Codes == Said \ {"none"}
Spoken ==
  {<<"methods", "userpass">>, <<"auth", "right">>, <<"auth", "wrong">>, <<"request", "connect">>, <<"data", "answer">>}
    \union ({"method"} \X {"none", "userpass", "noauth"}) \union ({"authreply"} \X {"ok", "fail"}) \union ({"reply"} \X Codes)
Msg == ToSet(path.script) \union Spoken
Faults == {"unknown", "ready", "ok", "refused", "timeout", "error", "protocol", "unauthorized", "EOF"}

\* The relay has not answered yet.
Unanswered == stage["relay"] \notin {"copy", "done"}
\* Who is connected for has shown the token.
Shown == IF path.at = "in" THEN path.token ELSE <<"auth", "right">> \in ToSet(path.script)

\* What comes to the relay before it answers: what the daemon says for itself,
\* or what the application does; and what it says itself.
Succeeded == <<"reply", "succeeded">>
OwnMsgs == {<<"methods", "userpass">>, <<"auth", IF path.token THEN "right" ELSE "wrong">>, <<"request", "connect">>}
Honest == IF path.at = "in" THEN OwnMsgs ELSE ToSet(path.script)
Ups(c) == IF c = "mid" /\ Unanswered THEN Honest ELSE Msg
Downs(c) == IF c = "mid" /\ Unanswered THEN Msg \ {Succeeded} ELSE Msg

LinksOK ==
  /\ link = [c \in Conns |-> link[c]]
  /\ \A c \in Conns : Carries(link[c], Ups(c), Downs(c))

PathTypes ==
  /\ path \in Paths
  /\ stage \in [Handlers -> Stages]
  /\ late \subseteq Handlers
  /\ copying \in [Handlers -> SUBSET Dirs]
  /\ left \in [app : Seq(Msg), dest : Seq(Msg)]
  /\ got \in [app : Seq(Msg), dest : Seq(Msg)]
  /\ seen \in [state : Faults, reply : Said, dialed : Seq(Addrs), auth : BOOLEAN]

\* Until it dials, the daemon has no connection to the relay.
BeforeDial == {"idle", "accept", "method", "auth", "request", "route", "dial"}

\* A handler copies only after its answer, the daemon answers only after the
\* relay has, and what the relay has come to says what it has been shown.
Copying == \A h \in Handlers : copying[h] # {} => stage[h] = "copy"
DaemonAfter ==
  /\ path.at = "mid" => stage["daemon"] = "idle"
  /\ path.at = "in" /\ stage["daemon"] \in BeforeDial => stage["relay"] = "idle"
  /\ stage["daemon"] \in {"answer", "copy"} => ~Unanswered
RelayShown ==
  /\ stage["relay"] \in {"method", "auth", "request", "resolve", "connect", "answer"} => path.source # "public"
  /\ stage["relay"] \in {"request", "resolve", "connect", "answer"} => Shown
DialedAllowed ==
  /\ seen.dialed # <<>> => path.source # "public" /\ Shown
  /\ seen.dialed \in Seq(Reachable)

Control ==
  /\ PathTypes
  /\ left.app \in Seq(ToSet(path.script))
  /\ Copying /\ DaemonAfter /\ RelayShown /\ DialedAllowed

RelayInv == LinksOK /\ Control

\* What the model knows of a scenario.
LEMMA PathGiven ==
  ASSUME path \in Paths
  PROVE  /\ path.at \in {"in", "mid"} /\ path.script \in Seq(ToSet(path.script)) /\ path.answers \in Seq(Addrs)
         /\ path.reach \in Faults
         /\ \A m \in ToSet(path.script) : m = <<m[1], m[2]>> /\ (m[1] = "auth" => m[2] \in {"right", "wrong"})
  <1>1. /\ path.at \in {"in", "mid"} /\ path.script \in Seq(STRING \X STRING) /\ path.answers \in Seq(Addrs)
        /\ path.reach \in {"ok", "refused", "timeout", "error"}
    BY PathsAssumption DEF PathsAssumption
  <1>2. path.script \in Seq(ToSet(path.script))
    BY <1>1 DEF ToSet
  <1>3. \A m \in ToSet(path.script) : m[1] = "auth" => m[2] \in {"right", "wrong"}
    BY PathsAssumption DEF PathsAssumption
  <1>4. \A m \in ToSet(path.script) : m = <<m[1], m[2]>>
    BY <1>1 DEF ToSet
  <1> QED
    BY <1>1, <1>2, <1>3, <1>4 DEF Faults

\* Every step but DialRelay lets more be carried.
LEMMA CarriedMore ==
  ASSUME Control, path' = path, Unanswered' => Unanswered
  PROVE  /\ \A c \in Conns : Ups(c) \subseteq Ups(c)' /\ Downs(c) \subseteq Downs(c)'
         /\ \A c \in Conns : Ups(c)' \subseteq Msg /\ Downs(c)' \subseteq Msg
  <1>1. Honest \subseteq Msg /\ Honest' = Honest /\ Msg' = Msg
    <2>1. OwnMsgs \subseteq Msg
      BY DEF OwnMsgs, Msg, Spoken
    <2>2. ToSet(path.script) \subseteq Msg
      BY DEF Msg
    <2> QED
      BY <2>1, <2>2 DEF Honest, OwnMsgs, Msg
  <1> QED
    BY <1>1 DEF Ups, Downs

\* One connection changes, to one that carries only what it may.
LEMMA OneLink ==
  ASSUME RelayInv, path' = path, Unanswered' => Unanswered,
         NEW c \in Conns, NEW d, Carries(d, Ups(c)', Downs(c)'), link' = [link EXCEPT ![c] = d]
  PROVE  LinksOK'
  <1>1. link' = [j \in Conns |-> link'[j]] /\ link'[c] = d
    BY DEF RelayInv, LinksOK, Carries
  <1>2. ASSUME NEW k \in Conns PROVE Carries(link'[k], Ups(k)', Downs(k)')
    <2>1. CASE k = c
      BY <1>1, <2>1
    <2>2. CASE k # c
      <3>1. link'[k] = link[k] /\ Carries(link[k], Ups(k), Downs(k))
        BY <2>2 DEF RelayInv, LinksOK
      <3> QED
        BY <3>1, CarriedMore, CarriesMore DEF RelayInv
    <2> QED
      BY <2>1, <2>2
  <1>3. \A k \in Conns : Carries(link[k], Ups(k), Downs(k))'
    BY <1>2 DEF Carries
  <1> QED
    BY <1>1, <1>3 DEF LinksOK

\* None changes.
LEMMA NoLink ==
  ASSUME RelayInv, path' = path, Unanswered' => Unanswered, link' = link
  PROVE  LinksOK'
  <1>1. "mid" \in Conns
    BY DEF Conns
  <1>2. Carries(link["mid"], Ups("mid")', Downs("mid")')
    BY <1>1, CarriedMore, CarriesMore DEF RelayInv, LinksOK
  <1>3. link' = [link EXCEPT !["mid"] = link["mid"]]
    BY <1>1 DEF RelayInv, LinksOK
  <1> QED
    BY <1>1, <1>2, <1>3, OneLink

\* Two of them change.
LEMMA TwoLinks ==
  ASSUME RelayInv, path' = path, Unanswered' => Unanswered,
         NEW c \in Conns, NEW d, Carries(d, Ups(c)', Downs(c)'),
         NEW k \in Conns \ {c}, NEW e, Carries(e, Ups(k)', Downs(k)'),
         link' = [link EXCEPT ![c] = d, ![k] = e]
  PROVE  LinksOK'
  <1>1. link' = [j \in Conns |-> link'[j]] /\ link'[c] = d /\ link'[k] = e
    BY DEF RelayInv, LinksOK, Carries
  <1>2. ASSUME NEW j \in Conns PROVE Carries(link'[j], Ups(j)', Downs(j)')
    <2>1. CASE j \in {c, k}
      BY <1>1, <2>1
    <2>2. CASE j \notin {c, k}
      <3>1. link'[j] = link[j] /\ Carries(link[j], Ups(j), Downs(j))
        BY <2>2 DEF RelayInv, LinksOK
      <3> QED
        BY <3>1, CarriedMore, CarriesMore DEF RelayInv
    <2> QED
      BY <2>1, <2>2
  <1>3. \A j \in Conns : Carries(link[j], Ups(j), Downs(j))'
    BY <1>2 DEF Carries
  <1> QED
    BY <1>1, <1>3 DEF LinksOK

\* A connection as it was, in the next state's terms.
LEMMA StillCarries ==
  ASSUME RelayInv, path' = path, Unanswered' => Unanswered, NEW c \in Conns
  PROVE  Carries(link[c], Ups(c)', Downs(c)')
  BY CarriedMore, CarriesMore DEF RelayInv, LinksOK

\* What a handler does with the connection it accepted.
LEMMA Accepts ==
  ASSUME RelayInv, path' = path, Unanswered' => Unanswered, NEW h \in Handlers, NEW m \in Msg, m # Succeeded \/ ~Unanswered'
  PROVE  LET c == Accepted(h) IN
         /\ c \in Conns
         /\ Carries(CloseSide(link[c], "r"), Ups(c)', Downs(c)')
         /\ Carries(Put(link[c], "r", m), Ups(c)', Downs(c)')
         /\ Carries(CloseSide(Put(link[c], "r", m), "r"), Ups(c)', Downs(c)')
         /\ Readable(link[c], "r") =>
              /\ FirstOf(link[c], "r") \in Ups(c)
              /\ Carries(Take(link[c], "r"), Ups(c)', Downs(c)')
              /\ Carries(Answered(h, m), Ups(c)', Downs(c)')
              /\ Carries(CloseSide(Answered(h, m), "r"), Ups(c)', Downs(c)')
  <1> DEFINE c == Accepted(h)
  <1>1. c \in Conns /\ "r" \in Sides
    BY DEF Accepted, Conns, Sides
  <1> HIDE DEF c
  <1>2. Carries(link[c], Ups(c)', Downs(c)')
    BY <1>1, StillCarries
  <1>3. m \in Downs(c)'
    BY DEF Downs, Msg
  <1>4. Carries(CloseSide(link[c], "r"), Ups(c)', Downs(c)')
    BY <1>1, <1>2, EndsCarry
  <1>5. Carries(Put(link[c], "r", m), Ups(c)', Downs(c)')
    BY <1>1, <1>2, <1>3, PutCarries
  <1>6. Carries(CloseSide(Put(link[c], "r", m), "r"), Ups(c)', Downs(c)')
    BY <1>1, <1>5, EndsCarry
  <1>7. ASSUME Readable(link[c], "r")
        PROVE  /\ FirstOf(link[c], "r") \in Ups(c)
               /\ Carries(Take(link[c], "r"), Ups(c)', Downs(c)')
               /\ Carries(Put(Take(link[c], "r"), "r", m), Ups(c)', Downs(c)')
               /\ Carries(CloseSide(Put(Take(link[c], "r"), "r", m), "r"), Ups(c)', Downs(c)')
    <2>1. Carries(Take(link[c], "r"), Ups(c)', Downs(c)')
      BY <1>1, <1>2, <1>7, TakeCarries
    <2>2. FirstOf(link[c], "r") \in Ups(c)
      <3>1. Carries(link[c], Ups(c), Downs(c))
        BY <1>1 DEF RelayInv, LinksOK
      <3>2. FirstOf(link[c], "r") \in (IF "r" = "l" THEN Downs(c) ELSE Ups(c))
        BY <1>1, <1>7, <3>1, TakeCarries
      <3> QED
        BY <3>2
    <2>3. Carries(Put(Take(link[c], "r"), "r", m), Ups(c)', Downs(c)')
      BY <1>1, <1>3, <2>1, PutCarries
    <2>4. Carries(CloseSide(Put(Take(link[c], "r"), "r", m), "r"), Ups(c)', Downs(c)')
      BY <1>1, <2>3, EndsCarry
    <2> QED
      BY <2>1, <2>2, <2>3, <2>4
  <1> QED
    BY <1>1, <1>4, <1>5, <1>6, <1>7 DEF Answered, c

\* A handler that has not answered moves on.
LEMMA Advances ==
  ASSUME RelayInv, NEW h \in Handlers, NEW pc \in Stages \ {"idle"},
         stage' = [stage EXCEPT ![h] = pc],
         stage[h] \notin {"idle", "copy", "done"},
         h = "daemon" /\ pc \in {"answer", "copy"} => ~Unanswered,
         h = "daemon" /\ pc \in BeforeDial => stage[h] \in BeforeDial,
         h = "relay" /\ pc \in {"method", "auth", "request", "resolve", "connect", "answer"} => path.source # "public",
         h = "relay" /\ pc \in {"request", "resolve", "connect", "answer"} => Shown,
         UNCHANGED <<path, late, copying, left, got>>,
         seen' \in [state : Faults, reply : Said, dialed : Seq(Addrs), auth : BOOLEAN], seen'.dialed = seen.dialed
  PROVE  Control' /\ (Unanswered' => Unanswered)
  <1>1. stage \in [Handlers -> Stages] /\ stage' \in [Handlers -> Stages]
    BY DEF RelayInv, Control, PathTypes
  <1>2. Shown' = Shown /\ Msg' = Msg /\ Reachable' = Reachable
    BY DEF Shown, Msg, Reachable, isPublic
  <1>3. "relay" \in Handlers /\ "daemon" \in Handlers /\ (h = "relay" \/ h = "daemon")
    BY DEF Handlers
  <1>4. Unanswered' => Unanswered
    BY <1>1, <1>3 DEF Unanswered
  <1>5. PathTypes'
    BY <1>1, <1>2 DEF RelayInv, Control, PathTypes
  <1>6. Copying'
    BY <1>1 DEF RelayInv, Control, Copying
  <1>7. DaemonAfter'
    <2>1. CASE h = "daemon"
      BY <1>1, <1>3, <1>4, <2>1 DEF RelayInv, Control, DaemonAfter, Unanswered, PathTypes
    <2>2. CASE h = "relay"
      <3>1. stage["daemon"] = stage'["daemon"] /\ stage'["relay"] = pc /\ stage["relay"] \notin {"idle", "copy", "done"}
        BY <1>1, <1>3, <2>2
      <3> QED
        BY <3>1 DEF RelayInv, Control, DaemonAfter, Unanswered
    <2> QED
      BY <1>3, <2>1, <2>2
  <1>8. RelayShown' /\ DialedAllowed'
    BY <1>1, <1>2, <1>3 DEF RelayInv, Control, RelayShown, DialedAllowed
  <1>9. left'.app \in Seq(ToSet(path'.script))
    BY DEF RelayInv, Control
  <1> QED
    BY <1>4, <1>5, <1>6, <1>7, <1>8, <1>9 DEF Control

\* A step that leaves the stages alone.
LEMMA Stays ==
  ASSUME RelayInv, UNCHANGED <<path, stage, seen>>,
         late' \subseteq Handlers,
         copying' \in [Handlers -> SUBSET Dirs], \A h \in Handlers : copying'[h] \subseteq copying[h],
         left' \in [app : Seq(Msg), dest : Seq(Msg)], left'.app \in Seq(ToSet(path.script)),
         got' \in [app : Seq(Msg), dest : Seq(Msg)]
  PROVE  Control' /\ (Unanswered' => Unanswered)
  <1>1. Shown' = Shown /\ Msg' = Msg /\ Reachable' = Reachable /\ Unanswered' = Unanswered
    BY DEF Shown, Msg, Reachable, isPublic, Unanswered
  <1>2. PathTypes'
    BY <1>1 DEF RelayInv, Control, PathTypes
  <1>3. Copying' /\ DaemonAfter' /\ RelayShown' /\ DialedAllowed'
    BY <1>1 DEF RelayInv, Control, Copying, DaemonAfter, RelayShown, DialedAllowed
  <1> QED
    BY <1>1, <1>2, <1>3 DEF RelayInv, Control

\* Data that comes back is a message, and not the relay's answer.
LEMMA AnyMsg ==
  <<"data", "answer">> \in Msg /\ <<"data", "answer">> # Succeeded
  BY DEF Msg, Spoken, Succeeded

-----------------------------------------------------------------------------

\* A server accepts and awaits the greeting.
LEMMA AcceptStep ==
  ASSUME RelayInv, NEW h \in Handlers, AcceptConn(h)
  PROVE  RelayInv'
  <1>1. /\ path' = path /\ stage[h] = "accept" /\ UNCHANGED <<late, copying, left, got, seen>>
        /\ seen \in [state : Faults, reply : Said, dialed : Seq(Addrs), auth : BOOLEAN]
    BY DEF AcceptConn, RelayInv, Control, PathTypes
  <1>2. CASE Drop(h)
    <2>1. Control' /\ (Unanswered' => Unanswered)
      BY <1>1, <1>2, Advances DEF Drop, Move, Stages, BeforeDial
    <2>2. LinksOK'
      BY <1>1, <1>2, <2>1, AnyMsg, Accepts, OneLink DEF Drop
    <2> QED
      BY <2>1, <2>2 DEF RelayInv
  <1>3. CASE (h = "relay" => path.source # "public") /\ Move(h, "method") /\ link' = link
    <2>1. Control' /\ (Unanswered' => Unanswered)
      BY <1>1, <1>3, Advances DEF Move, Stages, BeforeDial
    <2>2. LinksOK'
      BY <1>1, <1>3, <2>1, NoLink
    <2> QED
      BY <2>1, <2>2 DEF RelayInv
  <1> QED
    BY <1>2, <1>3 DEF AcceptConn

\* What ReadMethods, ReadAuth and ReadRequest do: close, answer and close, or
\* answer and go on.
LEMMA Replies ==
  ASSUME RelayInv, NEW h \in Handlers, NEW m \in Msg, m # Succeeded,
         stage[h] \notin {"idle", "copy", "done"}, Readable(link[Accepted(h)], "r"),
         NEW pc \in Stages \ {"idle"},
         h = "daemon" => pc \notin {"answer", "copy"},
         stage[h] \in BeforeDial,
         h = "relay" /\ pc \in {"method", "auth", "request", "resolve", "connect", "answer"} => path.source # "public",
         h = "relay" /\ pc \in {"request", "resolve", "connect", "answer"} => Shown,
         \/ Drop(h)
         \/ HangUp(h, m)
         \/ GoOn(h, m, pc)
         \/ link' = [link EXCEPT ![Accepted(h)] = Take(@, "r")] /\ Move(h, pc),
         UNCHANGED <<path, late, copying, left, got>>,
         seen' \in [state : Faults, reply : Said, dialed : Seq(Addrs), auth : BOOLEAN], seen'.dialed = seen.dialed
  PROVE  RelayInv'
  <1>1. CASE Drop(h) \/ HangUp(h, m)
    <2>1. stage' = [stage EXCEPT ![h] = "done"]
      BY <1>1 DEF Drop, HangUp, Move
    <2>2. Control' /\ (Unanswered' => Unanswered)
      BY <2>1, Advances DEF Stages, BeforeDial
    <2>3. LinksOK'
      BY <1>1, <2>2, Accepts, OneLink DEF Drop, HangUp
    <2> QED
      BY <2>2, <2>3 DEF RelayInv
  <1>2. CASE GoOn(h, m, pc) \/ (link' = [link EXCEPT ![Accepted(h)] = Take(@, "r")] /\ Move(h, pc))
    <2>1. stage' = [stage EXCEPT ![h] = pc]
      BY <1>2 DEF GoOn, Move
    <2>2. Control' /\ (Unanswered' => Unanswered)
      BY <2>1, Advances
    <2>3. LinksOK'
      BY <1>2, <2>2, Accepts, OneLink DEF GoOn
    <2> QED
      BY <2>2, <2>3 DEF RelayInv
  <1> QED
    BY <1>1, <1>2

\* It reads the methods and chooses one.
LEMMA MethodsStep ==
  ASSUME RelayInv, NEW h \in Handlers, ReadMethods(h)
  PROVE  RelayInv'
  <1>1. /\ path' = path /\ stage[h] = "method" /\ UNCHANGED <<late, copying, left, got, seen>>
        /\ Readable(link[Accepted(h)], "r")
        /\ seen \in [state : Faults, reply : Said, dialed : Seq(Addrs), auth : BOOLEAN]
    BY DEF ReadMethods, Hear, RelayInv, Control, PathTypes
  <1> DEFINE want == IF Creds(h) THEN "userpass" ELSE "noauth"
             pc == IF Creds(h) THEN "auth" ELSE "request"
  <1>2. \/ Drop(h)
        \/ HangUp(h, <<"method", "none">>)
        \/ GoOn(h, <<"method", want>>, pc)
    BY DEF ReadMethods
  <1>3. /\ <<"method", want>> \in Msg /\ <<"method", want>> # Succeeded
        /\ <<"method", "none">> \in Msg /\ <<"method", "none">> # Succeeded
    BY DEF Msg, Spoken, Succeeded
  <1>4. /\ pc \in Stages \ {"idle"} /\ pc \notin {"answer", "copy"}
        /\ h = "relay" => pc = "auth" /\ path.source # "public"
    BY <1>1 DEF Stages, Creds, RelayInv, Control, RelayShown
  <1> HIDE DEF want, pc
  <1>5. CASE Drop(h) \/ HangUp(h, <<"method", "none">>)
    BY <1>1, <1>3, <1>4, <1>5, Replies DEF BeforeDial
  <1>6. CASE GoOn(h, <<"method", want>>, pc)
    BY <1>1, <1>3, <1>4, <1>6, Replies DEF BeforeDial
  <1> QED
    BY <1>2, <1>5, <1>6

\* Unanswered it answers, the relay hears what was said to it.
LEMMA Hears ==
  ASSUME RelayInv, Unanswered, Readable(link["mid"], "r")
  PROVE  FirstOf(link["mid"], "r") \in Honest
  <1>1. Carries(link["mid"], Honest, Downs("mid"))
    BY DEF RelayInv, LinksOK, Conns, Ups
  <1>2. FirstOf(link["mid"], "r") \in (IF "r" = "l" THEN Downs("mid") ELSE Honest)
    BY <1>1, TakeCarries DEF Sides
  <1> QED
    BY <1>2

\* It reads the credentials, and goes on only if they fit.
LEMMA AuthStep ==
  ASSUME RelayInv, NEW h \in Handlers, ReadAuth(h)
  PROVE  RelayInv'
  <1>1. /\ path' = path /\ stage[h] = "auth" /\ UNCHANGED <<late, copying, left, got>>
        /\ Readable(link[Accepted(h)], "r")
        /\ seen' \in [state : Faults, reply : Said, dialed : Seq(Addrs), auth : BOOLEAN] /\ seen'.dialed = seen.dialed
    BY DEF ReadAuth, Hear, RelayInv, Control, PathTypes
  <1>2. \/ Drop(h)
        \/ HangUp(h, <<"authreply", "fail">>)
        \/ /\ Heard(h)[1] = "auth" /\ Heard(h) # <<"auth", "wrong">>
           /\ GoOn(h, <<"authreply", "ok">>, "request")
    BY DEF ReadAuth
  <1>3. /\ <<"authreply", "fail">> \in Msg /\ <<"authreply", "fail">> # Succeeded
        /\ <<"authreply", "ok">> \in Msg /\ <<"authreply", "ok">> # Succeeded
        /\ "request" \in Stages /\ "done" \in Stages
    BY DEF Msg, Spoken, Succeeded, Stages
  <1>4. CASE Drop(h) \/ HangUp(h, <<"authreply", "fail">>)
    BY <1>1, <1>3, <1>4, Replies DEF BeforeDial
  <1>5. CASE /\ Heard(h)[1] = "auth" /\ Heard(h) # <<"auth", "wrong">>
             /\ GoOn(h, <<"authreply", "ok">>, "request")
    <2>1. ASSUME h = "relay" PROVE path.source # "public" /\ Shown
      <3>1. path.source # "public"
        BY <1>1, <2>1 DEF RelayInv, Control, RelayShown
      <3>2. Heard(h) \in Honest
        BY <1>1, <2>1, Hears DEF Unanswered, Heard, Accepted
      <3>3. CASE path.at = "in"
        BY <1>5, <3>1, <3>2, <3>3 DEF Honest, OwnMsgs, Shown
      <3>4. CASE path.at # "in"
        <4>1. Heard(h) \in ToSet(path.script)
          BY <3>2, <3>4 DEF Honest
        <4>2. Heard(h) = <<"auth", Heard(h)[2]>> /\ Heard(h)[2] \in {"right", "wrong"}
          <5> DEFINE m == Heard(h)
          <5>1. m = <<m[1], m[2]>> /\ m[1] = "auth" /\ m[2] \in {"right", "wrong"}
            BY <1>5, <4>1, PathGiven DEF RelayInv, Control, PathTypes
          <5> HIDE DEF m
          <5>2. m = <<"auth", m[2]>>
            BY <5>1, Zenon
          <5> QED
            BY <5>1, <5>2 DEF m
        <4>3. Heard(h)[2] # "wrong"
          BY <1>5, <4>2
        <4> QED
          BY <3>1, <3>4, <4>1, <4>2, <4>3 DEF Shown
      <3> QED
        BY <3>1, <3>3, <3>4
    <2> QED
      BY <1>1, <1>3, <1>5, <2>1, Replies DEF BeforeDial
  <1> QED
    BY <1>2, <1>4, <1>5

\* It reads the request, of which only CONNECT goes on.
LEMMA RequestStep ==
  ASSUME RelayInv, NEW h \in Handlers, ReadRequest(h)
  PROVE  RelayInv'
  <1>1. /\ path' = path /\ stage[h] = "request" /\ UNCHANGED <<late, copying, left, got, seen>>
        /\ Readable(link[Accepted(h)], "r")
        /\ seen \in [state : Faults, reply : Said, dialed : Seq(Addrs), auth : BOOLEAN]
    BY DEF ReadRequest, Hear, RelayInv, Control, PathTypes
  <1> DEFINE pc == IF h = "daemon" THEN "route" ELSE "resolve"
             go == link' = [link EXCEPT ![Accepted(h)] = Take(@, "r")] /\ Move(h, pc)
  <1>2. \/ Drop(h)
        \/ HangUp(h, <<"reply", "atyp">>)
        \/ HangUp(h, <<"reply", "cmd">>)
        \/ HangUp(h, <<"reply", "general">>)
        \/ go
    BY DEF ReadRequest
  <1>3. /\ <<"reply", "atyp">> \in Msg /\ <<"reply", "atyp">> # Succeeded
        /\ <<"reply", "cmd">> \in Msg /\ <<"reply", "cmd">> # Succeeded
        /\ <<"reply", "general">> \in Msg /\ <<"reply", "general">> # Succeeded
    BY DEF Msg, Spoken, Succeeded, Codes, Said
  <1>4. /\ pc \in Stages \ {"idle"} /\ (h = "daemon" => pc \notin {"answer", "copy"})
        /\ h = "relay" => path.source # "public" /\ Shown
    BY <1>1 DEF Stages, RelayInv, Control, RelayShown
  <1> HIDE DEF pc
  <1>5. CASE Drop(h) \/ HangUp(h, <<"reply", "atyp">>)
    BY <1>1, <1>3, <1>4, <1>5, Replies DEF BeforeDial
  <1>6. CASE HangUp(h, <<"reply", "cmd">>)
    BY <1>1, <1>3, <1>4, <1>6, Replies DEF BeforeDial
  <1>7. CASE HangUp(h, <<"reply", "general">>)
    BY <1>1, <1>3, <1>4, <1>7, Replies DEF BeforeDial
  <1>8. CASE go
    BY <1>1, <1>3, <1>4, <1>8, Replies DEF BeforeDial
  <1> QED
    BY <1>2, <1>5, <1>6, <1>7, <1>8

\* A handshake that is broken, or too late, ends both sides.
LEMMA RequestFailsStep ==
  ASSUME RelayInv, NEW h \in Handlers, RequestFails(h)
  PROVE  RelayInv'
  <1>1. /\ path' = path /\ stage[h] \in {"method", "auth", "request"} /\ UNCHANGED <<late, copying, left, got, seen>>
        /\ seen \in [state : Faults, reply : Said, dialed : Seq(Addrs), auth : BOOLEAN] /\ Drop(h)
    BY DEF RequestFails, RelayInv, Control, PathTypes
  <1>2. Control' /\ (Unanswered' => Unanswered)
    BY <1>1, Advances DEF Drop, Move, Stages, BeforeDial
  <1>3. LinksOK'
    BY <1>1, <1>2, AnyMsg, Accepts, OneLink DEF Drop
  <1> QED
    BY <1>2, <1>3 DEF RelayInv

-----------------------------------------------------------------------------

\* The answer: only now may the daemon's own come, and the copying.
LEMMA AnswerStep ==
  ASSUME RelayInv, NEW h \in Handlers, AnswerOK(h)
  PROVE  RelayInv'
  <1>1. /\ path' = path /\ stage[h] = "answer" /\ UNCHANGED <<late, left, got>>
        /\ stage' = [stage EXCEPT ![h] = "copy"] /\ copying' = [copying EXCEPT ![h] = Dirs]
        /\ link' = [link EXCEPT ![Accepted(h)] = Replied(h, "succeeded")]
        /\ seen' = IF h = "relay" THEN [seen EXCEPT !.reply = "succeeded"] ELSE seen
    BY DEF AnswerOK, Move
  <1>2. /\ stage \in [Handlers -> Stages] /\ "relay" \in Handlers /\ "daemon" \in Handlers
        /\ copying \in [Handlers -> SUBSET Dirs] /\ (h = "relay" \/ h = "daemon") /\ "copy" \in Stages
    BY DEF RelayInv, Control, PathTypes, Handlers, Stages
  <1>3. ~Unanswered' /\ stage'[h] = "copy"
    BY <1>1, <1>2 DEF Unanswered, RelayInv, Control, DaemonAfter
  <1>4. Shown' = Shown /\ Msg' = Msg /\ Reachable' = Reachable
    BY <1>1 DEF Shown, Msg, Reachable, isPublic
  <1>5. seen' \in [state : Faults, reply : Said, dialed : Seq(Addrs), auth : BOOLEAN] /\ seen'.dialed = seen.dialed
    BY <1>1 DEF RelayInv, Control, PathTypes, Said
  <1>6. PathTypes'
    BY <1>1, <1>2, <1>4, <1>5 DEF RelayInv, Control, PathTypes
  <1>7. Copying'
    BY <1>1, <1>2 DEF RelayInv, Control, Copying
  <1>8. DaemonAfter'
    <2>1. CASE h = "daemon"
      BY <1>1, <1>2, <1>3, <2>1 DEF RelayInv, Control, DaemonAfter, BeforeDial
    <2>2. CASE h = "relay"
      BY <1>1, <1>2, <1>3, <2>2 DEF RelayInv, Control, DaemonAfter, BeforeDial
    <2> QED
      BY <1>2, <2>1, <2>2
  <1>9. RelayShown' /\ DialedAllowed'
    BY <1>1, <1>2, <1>4, <1>5 DEF RelayInv, Control, RelayShown, DialedAllowed
  <1>10. Control'
    BY <1>1, <1>6, <1>7, <1>8, <1>9 DEF Control, RelayInv
  <1>11. LinksOK'
    <2>1. Succeeded \in Msg
      BY DEF Succeeded, Msg, Spoken, Codes, Said
    <2>2. Accepted(h) \in Conns /\ Carries(Put(link[Accepted(h)], "r", Succeeded), Ups(Accepted(h))', Downs(Accepted(h))')
      BY <1>1, <1>3, <2>1, Accepts
    <2> QED
      BY <1>1, <1>3, <2>2, OneLink DEF Replied, Succeeded
  <1> QED
    BY <1>10, <1>11 DEF RelayInv

\* Both of a handler's connections are closed.
LEMMA BothClosed ==
  ASSUME RelayInv, path' = path, Unanswered' => Unanswered, NEW h \in Handlers,
         \/ link' = [link EXCEPT ![Accepted(h)] = CloseSide(@, "r"), ![Made(h)] = CloseSide(@, "l")]
         \/ link' = [link EXCEPT ![Made(h)] = CloseSide(@, "l"), ![Accepted(h)] = CloseSide(@, "r")]
  PROVE  LinksOK'
  <1> DEFINE c == Accepted(h)
             k == Made(h)
  <1>1. c \in Conns /\ k \in Conns \ {c} /\ "l" \in Sides /\ "r" \in Sides
    BY DEF Accepted, Made, Conns, Handlers, Sides
  <1> HIDE DEF c, k
  <1>2. Carries(CloseSide(link[c], "r"), Ups(c)', Downs(c)') /\ Carries(CloseSide(link[k], "l"), Ups(k)', Downs(k)')
    BY <1>1, StillCarries, EndsCarry
  <1>3. link = [j \in Conns |-> link[j]]
    BY DEF RelayInv, LinksOK
  <1>4. link' = [link EXCEPT ![c] = CloseSide(link[c], "r"), ![k] = CloseSide(link[k], "l")]
    BY <1>1, <1>3 DEF c, k
  <1> QED
    BY <1>1, <1>2, <1>4, TwoLinks

\* An answer that cannot be written ends the connection.
LEMMA AnswerFailsStep ==
  ASSUME RelayInv, NEW h \in Handlers, AnswerFails(h)
  PROVE  RelayInv'
  <1>1. /\ path' = path /\ stage[h] = "answer" /\ UNCHANGED <<late, copying, left, got, seen>>
        /\ seen \in [state : Faults, reply : Said, dialed : Seq(Addrs), auth : BOOLEAN] /\ Move(h, "done")
    BY DEF AnswerFails, RelayInv, Control, PathTypes
  <1>2. Control' /\ (Unanswered' => Unanswered)
    BY <1>1, Advances DEF Move, Stages, BeforeDial
  <1>3. LinksOK'
    BY <1>1, <1>2, BothClosed DEF AnswerFails
  <1> QED
    BY <1>2, <1>3 DEF RelayInv

\* When both copies have ended, so do the connections.
LEMMA PipeDoneStep ==
  ASSUME RelayInv, NEW h \in Handlers, PipeDone(h)
  PROVE  RelayInv'
  <1>1. /\ stage[h] = "copy" /\ copying[h] = {} /\ UNCHANGED <<path, late, copying, left, got, seen>>
        /\ stage' = [stage EXCEPT ![h] = "done"]
    BY DEF PipeDone, Move
  <1>2. /\ stage \in [Handlers -> Stages] /\ "relay" \in Handlers /\ "daemon" \in Handlers
        /\ (h = "relay" \/ h = "daemon") /\ "done" \in Stages
    BY DEF RelayInv, Control, PathTypes, Handlers, Stages
  <1>3. Shown' = Shown /\ Msg' = Msg /\ Reachable' = Reachable
    BY <1>1 DEF Shown, Msg, Reachable, isPublic
  <1>4. Unanswered' => Unanswered
    BY <1>1, <1>2 DEF Unanswered
  <1>5. PathTypes' /\ Copying'
    BY <1>1, <1>2, <1>3 DEF RelayInv, Control, PathTypes, Copying
  <1>6. DaemonAfter'
    <2>1. CASE h = "daemon"
      BY <1>1, <1>2, <1>4, <2>1 DEF RelayInv, Control, DaemonAfter, BeforeDial, Unanswered
    <2>2. CASE h = "relay"
      BY <1>1, <1>2, <1>4, <2>2 DEF RelayInv, Control, DaemonAfter, BeforeDial, Unanswered
    <2> QED
      BY <1>2, <2>1, <2>2
  <1>7. RelayShown' /\ DialedAllowed'
    BY <1>1, <1>2, <1>3 DEF RelayInv, Control, RelayShown, DialedAllowed
  <1>8. LinksOK'
    BY <1>1, <1>4, BothClosed DEF PipeDone
  <1> QED
    BY <1>1, <1>5, <1>6, <1>7, <1>8 DEF RelayInv, Control

\* Who copies comes after the relay's answer: anything may be carried.
LEMMA CopyAfter ==
  ASSUME RelayInv, NEW h \in Handlers, copying[h] # {}
  PROVE  ~Unanswered
  BY DEF RelayInv, Control, Copying, DaemonAfter, Unanswered, Handlers

\* A copy moves a message: the relay's answer is not among them, for it is read
\* before the copies start.
LEMMA ChunkStep ==
  ASSUME RelayInv, NEW h \in Handlers, NEW d \in Dirs, CopyChunk(h, d)
  PROVE  RelayInv'
  <1> DEFINE src == Source(h, d)
             dst == Target(h, d)
  <1>1. /\ UNCHANGED <<path, stage, late, copying, left, got, seen>> /\ copying[h] # {}
        /\ Readable(link[src[1]], src[2])
        /\ link' = [link EXCEPT ![src[1]] = Take(@, src[2]), ![dst[1]] = Put(@, dst[2], FirstOf(link[src[1]], src[2]))]
    BY DEF CopyChunk
  <1>2. /\ src[1] \in Conns /\ dst[1] \in Conns \ {src[1]} /\ src[2] \in Sides /\ dst[2] \in Sides
    BY DEF Source, Target, Accepted, Made, Conns, Handlers, Sides
  <1> HIDE DEF src, dst
  <1>3. Control' /\ (Unanswered' => Unanswered) /\ ~Unanswered'
    BY <1>1, CopyAfter, Stays DEF RelayInv, Control, PathTypes, Unanswered
  <1>4. /\ Carries(link[src[1]], Msg, Msg) /\ Carries(link[dst[1]], Msg, Msg)
        /\ \A c \in Conns : Ups(c)' = Msg /\ Downs(c)' = Msg
    BY <1>1, <1>2, <1>3, CopyAfter DEF RelayInv, LinksOK, Ups, Downs, Msg
  <1>5. Carries(Take(link[src[1]], src[2]), Msg, Msg) /\ FirstOf(link[src[1]], src[2]) \in Msg
    BY <1>1, <1>2, <1>4, TakeCarries
  <1>6. Carries(Put(link[dst[1]], dst[2], FirstOf(link[src[1]], src[2])), Msg, Msg)
    BY <1>2, <1>4, <1>5, PutCarries
  <1>7. link' = [link EXCEPT ![src[1]] = Take(link[src[1]], src[2]), ![dst[1]] = Put(link[dst[1]], dst[2], FirstOf(link[src[1]], src[2]))]
    <2>1. link = [j \in Conns |-> link[j]]
      BY DEF RelayInv, LinksOK
    <2> QED
      BY <1>1, <1>2, <2>1
  <1> DEFINE x == Take(link[src[1]], src[2])
             y == Put(link[dst[1]], dst[2], FirstOf(link[src[1]], src[2]))
  <1>8. LinksOK'
    <2>1. /\ Carries(x, Ups(src[1])', Downs(src[1])') /\ Carries(y, Ups(dst[1])', Downs(dst[1])')
          /\ link' = [link EXCEPT ![src[1]] = x, ![dst[1]] = y]
      BY <1>2, <1>4, <1>5, <1>6, <1>7
    <2> HIDE DEF x, y
    <2>2. path' = path /\ (Unanswered' => Unanswered)
      BY <1>1, <1>3
    <2> QED
      BY <1>2, <2>1, <2>2, TwoLinks
  <1> QED
    BY <1>3, <1>8 DEF RelayInv

\* A copy ends and half-closes the other side.
LEMMA CopyEndsStep ==
  ASSUME RelayInv, NEW h \in Handlers, NEW d \in Dirs, CopyEnds(h, d)
  PROVE  RelayInv'
  <1> DEFINE dst == Target(h, d)
  <1>1. /\ UNCHANGED <<path, stage, late, left, got, seen>>
        /\ copying' = [copying EXCEPT ![h] = @ \ {d}]
        /\ link' = [link EXCEPT ![dst[1]] = CloseWrite(@, dst[2])]
    BY DEF CopyEnds
  <1>2. dst[1] \in Conns /\ dst[2] \in Sides
    BY DEF Target, Accepted, Made, Conns, Handlers, Sides
  <1> HIDE DEF dst
  <1>3. copying' \in [Handlers -> SUBSET Dirs] /\ \A k \in Handlers : copying'[k] \subseteq copying[k]
    BY <1>1 DEF RelayInv, Control, PathTypes
  <1>4. Control' /\ (Unanswered' => Unanswered)
    BY <1>1, <1>3, Stays DEF RelayInv, Control, PathTypes
  <1>5. Carries(CloseWrite(link[dst[1]], dst[2]), Ups(dst[1])', Downs(dst[1])')
    BY <1>1, <1>2, <1>4, StillCarries, EndsCarry
  <1>6. LinksOK'
    BY <1>1, <1>2, <1>4, <1>5, OneLink
  <1> QED
    BY <1>4, <1>6 DEF RelayInv

-----------------------------------------------------------------------------

\* An error is never told as a success.
LEMMA ReplyCodes ==
  ASSUME NEW err
  PROVE  replyCode(err) \in Codes \ {"succeeded"}
  BY DEF replyCode, Codes, Said

\* Connect has failed: the application is told, and what is left of the
\* connection to the relay is closed.
LEMMA Refused ==
  ASSUME RelayInv, NEW err, NEW mid, Refuse(err, mid),
         stage["daemon"] \in {"route", "dial", "cmethod", "cauth", "creply"},
         Unanswered' => Unanswered, Carries(mid, Ups("mid")', Downs("mid")'),
         seen' \in [state : Faults, reply : Said, dialed : Seq(Addrs), auth : BOOLEAN], seen'.dialed = seen.dialed
  PROVE  RelayInv'
  <1> DEFINE m == <<"reply", replyCode(err)>>
             new == CloseSide(IF "daemon" \in late THEN link["in"] ELSE Put(link["in"], "r", m), "r")
  <1>1. m \in Msg /\ m # Succeeded
    BY ReplyCodes DEF Msg, Spoken, Succeeded, Codes
  <1>2. /\ UNCHANGED <<path, late, copying, left, got>> /\ stage' = [stage EXCEPT !["daemon"] = "done"]
        /\ "daemon" \in Handlers /\ Accepted("daemon") = "in" /\ "in" \in Conns /\ "mid" \in Conns \ {"in"}
    BY DEF Refuse, Move, Handlers, Accepted, Conns
  <1>3. link' = [link EXCEPT !["mid"] = mid, !["in"] = new]
    <2>1. link = [j \in Conns |-> link[j]]
      BY DEF RelayInv, LinksOK
    <2> QED
      BY <1>2, <2>1 DEF Refuse, Replied
  <1> HIDE DEF m
  <1>4. Control'
    BY <1>2, Advances DEF Stages, BeforeDial
  <1>5. Carries(new, Ups("in")', Downs("in")')
    BY <1>1, <1>2, Accepts
  <1> HIDE DEF new
  <1>6. LinksOK'
    BY <1>2, <1>3, <1>5, TwoLinks
  <1> QED
    BY <1>4, <1>6 DEF RelayInv

\* What the daemon has seen, and what it makes of an error.
LEMMA SeenType ==
  ASSUME RelayInv, NEW err \in Faults
  PROVE  /\ seen \in [state : Faults, reply : Said, dialed : Seq(Addrs), auth : BOOLEAN]
         /\ blame(err) \in [state : Faults, reply : Said, dialed : Seq(Addrs), auth : BOOLEAN]
         /\ blame(err).dialed = seen.dialed
  BY DEF RelayInv, Control, PathTypes, blame

\* What the daemon does leaves the relay where it is.
LEMMA RelayStays ==
  ASSUME RelayInv, path' = path, NEW pc, stage' = [stage EXCEPT !["daemon"] = pc]
  PROVE  Unanswered' => Unanswered
  BY DEF RelayInv, Control, PathTypes, Unanswered, Handlers

\* The daemon finds the route of a request.
LEMMA RouteStep ==
  ASSUME RelayInv, Route
  PROVE  RelayInv'
  <1>1. stage["daemon"] = "route" /\ "daemon" \in Handlers
    BY DEF Route, Handlers
  <1>2. CASE Refuse("rejected", NotOpened) /\ UNCHANGED seen
    <2>1. Unanswered' => Unanswered
      BY <1>2, RelayStays DEF Refuse, Move
    <2> QED
      BY <1>1, <1>2, <2>1, EmptyCarries, Refused DEF RelayInv, Control, PathTypes
  <1>3. CASE Move("daemon", "dial") /\ UNCHANGED <<path, link, late, copying, left, got, seen>>
    <2>1. Control' /\ (Unanswered' => Unanswered)
      BY <1>1, <1>3, Advances DEF Move, Stages, BeforeDial, RelayInv, Control, PathTypes
    <2>2. LinksOK'
      BY <1>3, <2>1, NoLink
    <2> QED
      BY <2>1, <2>2 DEF RelayInv
  <1> QED
    BY <1>2, <1>3 DEF Route

\* The relay cannot be reached.
LEMMA DialFailsStep ==
  ASSUME RelayInv, DialRelayFails
  PROVE  RelayInv'
  <1>1. /\ stage["daemon"] = "dial" /\ Refuse(path.reach, NotOpened) /\ seen' = blame(path.reach)
        /\ path.reach \in Faults
    BY PathGiven DEF DialRelayFails, RelayInv, Control, PathTypes
  <1>2. Unanswered' => Unanswered
    BY <1>1, RelayStays DEF Refuse, Move
  <1> QED
    BY <1>1, <1>2, SeenType, EmptyCarries, Refused

\* The connection to the relay is new, and so is all the relay knows of it.
LEMMA DialRelayStep ==
  ASSUME RelayInv, DialRelay
  PROVE  RelayInv'
  <1>1. /\ stage["daemon"] = "dial" /\ UNCHANGED <<path, late, copying, left, got, seen>>
        /\ stage' = [stage EXCEPT !["daemon"] = "cmethod", !["relay"] = "accept"]
        /\ link' = [link EXCEPT !["mid"] = Put(Opened, "l", <<"methods", "userpass">>)]
    BY DEF DialRelay
  <1>2. /\ path.at = "in" /\ stage["relay"] = "idle" /\ stage \in [Handlers -> Stages]
        /\ "daemon" \in Handlers /\ "relay" \in Handlers /\ "cmethod" \in Stages /\ "accept" \in Stages
    BY <1>1, PathGiven DEF RelayInv, Control, PathTypes, DaemonAfter, BeforeDial, Handlers, Stages
  <1>3. stage' \in [Handlers -> Stages] /\ stage'["daemon"] = "cmethod" /\ stage'["relay"] = "accept"
    BY <1>1, <1>2
  <1>4. Shown' = Shown /\ Msg' = Msg /\ Reachable' = Reachable
    BY <1>1 DEF Shown, Msg, Reachable, isPublic
  <1>5. PathTypes' /\ RelayShown' /\ DialedAllowed'
    BY <1>1, <1>3, <1>4 DEF RelayInv, Control, PathTypes, RelayShown, DialedAllowed
  <1>6. DaemonAfter'
    BY <1>1, <1>2, <1>3 DEF DaemonAfter, BeforeDial
  <1>7. Copying'
    <2>1. \A h \in Handlers : copying[h] = {}
      BY <1>1, <1>2 DEF RelayInv, Control, Copying, Handlers
    <2> QED
      BY <1>1, <2>1 DEF Copying
  <1>8. Unanswered /\ Unanswered'
    BY <1>2, <1>3 DEF Unanswered
  <1>9. Carries(Put(Opened, "l", <<"methods", "userpass">>), Ups("mid")', Downs("mid")')
    <2>1. <<"methods", "userpass">> \in Ups("mid")'
      BY <1>1, <1>2, <1>8 DEF Ups, Honest, OwnMsgs
    <2>2. Carries(Opened, Ups("mid")', Downs("mid")') /\ "l" \in Sides
      BY EmptyCarries DEF Sides
    <2> QED
      BY <2>1, <2>2, PutCarries
  <1>10. LinksOK'
    BY <1>1, <1>8, <1>9, OneLink DEF Conns
  <1> QED
    BY <1>1, <1>5, <1>6, <1>7, <1>10 DEF RelayInv, Control

\* What the daemon does with its connection to the relay.
LEMMA Clients ==
  ASSUME RelayInv, path' = path, Unanswered' => Unanswered
  PROVE  /\ Carries(CloseSide(link["mid"], "l"), Ups("mid")', Downs("mid")')
         /\ Readable(link["mid"], "l") =>
              /\ FirstOf(link["mid"], "l") \in Downs("mid")
              /\ Carries(Take(link["mid"], "l"), Ups("mid")', Downs("mid")')
              /\ \A m : m \in Ups("mid")' => Carries(Put(Take(link["mid"], "l"), "l", m), Ups("mid")', Downs("mid")')
  <1>1. Carries(link["mid"], Ups("mid")', Downs("mid")') /\ "l" \in Sides /\ "mid" \in Conns
    BY StillCarries DEF Conns, Sides
  <1>2. Carries(CloseSide(link["mid"], "l"), Ups("mid")', Downs("mid")')
    BY <1>1, EndsCarry
  <1>3. ASSUME Readable(link["mid"], "l")
        PROVE  /\ FirstOf(link["mid"], "l") \in Downs("mid")
               /\ Carries(Take(link["mid"], "l"), Ups("mid")', Downs("mid")')
    <2>1. Carries(link["mid"], Ups("mid"), Downs("mid"))
      BY <1>1 DEF RelayInv, LinksOK
    <2> QED
      BY <1>1, <1>3, <2>1, TakeCarries
  <1>4. ASSUME Readable(link["mid"], "l"), NEW m, m \in Ups("mid")'
        PROVE  Carries(Put(Take(link["mid"], "l"), "l", m), Ups("mid")', Downs("mid")')
    BY <1>1, <1>3, <1>4, PutCarries
  <1> QED
    BY <1>2, <1>3, <1>4

\* The daemon, as a client, says the next thing.
LEMMA Says ==
  ASSUME RelayInv, NEW m \in OwnMsgs, NEW pc \in {"cauth", "creply"}, ClientSay(m, pc),
         stage["daemon"] \in {"cmethod", "cauth"}, Readable(link["mid"], "l")
  PROVE  RelayInv'
  <1>1. /\ UNCHANGED <<path, late, copying, left, got, seen>> /\ stage' = [stage EXCEPT !["daemon"] = pc]
        /\ link' = [link EXCEPT !["mid"] = Put(Take(@, "l"), "l", m)]
    BY DEF ClientSay, Move
  <1>2. Control' /\ (Unanswered' => Unanswered)
    BY <1>1, Advances DEF Handlers, Stages, BeforeDial, RelayInv, Control, PathTypes
  <1>3. m \in Ups("mid")'
    <2>1. path.at = "in"
      BY PathGiven DEF RelayInv, Control, PathTypes, DaemonAfter
    <2>2. m \in Msg
      BY DEF Msg, Spoken, OwnMsgs
    <2> QED
      BY <1>1, <2>1, <2>2 DEF Ups, Honest, OwnMsgs, Msg
  <1>4. LinksOK'
    BY <1>1, <1>2, <1>3, Clients, OneLink DEF Conns
  <1> QED
    BY <1>2, <1>4 DEF RelayInv

\* The handshake with the relay fails.
LEMMA ClientFailed ==
  ASSUME RelayInv, NEW err \in Faults, ClientFails(err), stage["daemon"] \in {"cmethod", "cauth", "creply"}
  PROVE  RelayInv'
  <1>1. Refuse(err, CloseSide(link["mid"], "l")) /\ seen' = blame(err)
    BY DEF ClientFails
  <1>2. (Unanswered' => Unanswered) /\ path' = path
    BY <1>1, RelayStays DEF Refuse, Move
  <1> QED
    BY <1>1, <1>2, Clients, SeenType, Refused

\* The daemon's side of the handshake with the relay.
LEMMA ClientStep ==
  ASSUME RelayInv, ClientMethod \/ ClientAuth \/ ClientEOF \/ ClientTimeout
  PROVE  RelayInv'
  <1>1. CASE ClientMethod
    <2> DEFINE m == <<"auth", IF path.token THEN "right" ELSE "wrong">>
    <2>1. stage["daemon"] = "cmethod" /\ Readable(link["mid"], "l") /\ (ClientSay(m, "cauth") \/ ClientFails("protocol"))
      BY <1>1 DEF ClientMethod, ClientHear
    <2>2. m \in OwnMsgs /\ "protocol" \in Faults
      BY DEF OwnMsgs, Faults
    <2> HIDE DEF m
    <2> QED
      BY <2>1, <2>2, Says, ClientFailed
  <1>2. CASE ClientAuth
    <2> DEFINE m == <<"request", "connect">>
    <2>1. stage["daemon"] = "cauth" /\ Readable(link["mid"], "l") /\ (ClientSay(m, "creply") \/ ClientFails("unauthorized"))
      BY <1>2 DEF ClientAuth, ClientHear
    <2>2. m \in OwnMsgs /\ "unauthorized" \in Faults
      BY DEF OwnMsgs, Faults
    <2> HIDE DEF m
    <2> QED
      BY <2>1, <2>2, Says, ClientFailed
  <1>3. CASE ClientEOF \/ ClientTimeout
    <2>1. "EOF" \in Faults /\ "timeout" \in Faults
      BY DEF Faults
    <2> QED
      BY <1>3, <2>1, ClientFailed DEF ClientEOF, ClientTimeout
  <1> QED
    BY <1>1, <1>2, <1>3

\* The relay says that it has connected only when it has: the daemon answers
\* after it.
LEMMA ClientReplyStep ==
  ASSUME RelayInv, ClientReply
  PROVE  RelayInv'
  <1>1. stage["daemon"] = "creply" /\ Readable(link["mid"], "l") /\ "daemon" \in Handlers
    BY DEF ClientReply, ClientHear, Handlers
  <1>2. CASE /\ ClientHeard = <<"reply", "succeeded">>
             /\ link' = [link EXCEPT !["mid"] = Take(@, "l")]
             /\ Move("daemon", "answer")
             /\ seen' = [seen EXCEPT !.state = "ready"]
             /\ UNCHANGED <<path, late, copying, left, got>>
    <2>1. Unanswered' => Unanswered
      BY <1>2, RelayStays DEF Move
    <2>2. ClientHeard \in Downs("mid")
      BY <1>1, <1>2, <2>1, Clients DEF ClientHeard
    <2>3. ~Unanswered
      BY <1>2, <2>2 DEF Downs, Succeeded
    <2>4. seen' \in [state : Faults, reply : Said, dialed : Seq(Addrs), auth : BOOLEAN] /\ seen'.dialed = seen.dialed
      BY <1>2 DEF RelayInv, Control, PathTypes, Faults
    <2>5. Control'
      BY <1>1, <1>2, <2>3, <2>4, Advances DEF Move, Stages, BeforeDial
    <2>6. LinksOK'
      BY <1>1, <1>2, <2>1, Clients, OneLink DEF Conns
    <2> QED
      BY <2>5, <2>6 DEF RelayInv
  <1>3. CASE Refuse(ClientHeard[2], CloseSide(link["mid"], "l")) /\ UNCHANGED seen
    <2>1. (Unanswered' => Unanswered) /\ path' = path
      BY <1>3, RelayStays DEF Refuse, Move
    <2>2. seen' \in [state : Faults, reply : Said, dialed : Seq(Addrs), auth : BOOLEAN] /\ seen'.dialed = seen.dialed
      BY <1>3 DEF RelayInv, Control, PathTypes
    <2> QED
      BY <1>1, <1>3, <2>1, <2>2, Clients, Refused
  <1> QED
    BY <1>2, <1>3 DEF ClientReply

-----------------------------------------------------------------------------

\* dial has failed: the relay says so, if it still can, and closes.
LEMMA DialRefusedWith ==
  ASSUME RelayInv, NEW code \in Codes \ {"succeeded"}, RefuseDial(code), stage["relay"] \in {"resolve", "connect"}
  PROVE  RelayInv'
  <1> DEFINE m == <<"reply", code>>
             new == CloseSide(IF "relay" \in late THEN link["mid"] ELSE Put(link["mid"], "r", m), "r")
  <1>1. m \in Msg /\ m # Succeeded
    BY DEF Msg, Spoken, Succeeded, Codes
  <1>2. /\ UNCHANGED <<path, late, copying, left, got>> /\ stage' = [stage EXCEPT !["relay"] = "done"]
        /\ "relay" \in Handlers /\ Accepted("relay") = "mid" /\ "mid" \in Conns
        /\ seen' = [seen EXCEPT !.reply = IF "relay" \in late THEN "none" ELSE code]
    BY DEF RefuseDial, Move, Handlers, Accepted, Conns
  <1>3. link' = [link EXCEPT !["mid"] = new]
    <2>1. link = [j \in Conns |-> link[j]]
      BY DEF RelayInv, LinksOK
    <2> QED
      BY <1>2, <2>1 DEF RefuseDial, Replied
  <1>4. seen' \in [state : Faults, reply : Said, dialed : Seq(Addrs), auth : BOOLEAN] /\ seen'.dialed = seen.dialed
    <2> DEFINE r == IF "relay" \in late THEN "none" ELSE code
    <2>1. r \in Said /\ seen' = [seen EXCEPT !.reply = r]
      BY <1>2 DEF Codes, Said
    <2> HIDE DEF r
    <2> QED
      BY <2>1 DEF RelayInv, Control, PathTypes
  <1> HIDE DEF m
  <1>5. Control' /\ (Unanswered' => Unanswered)
    BY <1>2, <1>4, Advances DEF Stages, BeforeDial
  <1>6. Carries(new, Ups("mid")', Downs("mid")')
    BY <1>1, <1>2, <1>5, Accepts
  <1> HIDE DEF new
  <1>7. LinksOK'
    BY <1>2, <1>3, <1>5, <1>6, OneLink
  <1> QED
    BY <1>5, <1>7 DEF RelayInv

\* The relay resolves the name, or what it dials does not answer.
LEMMA ResolveStep ==
  ASSUME RelayInv, Resolve \/ DialRefused \/ DialTimesOut
  PROVE  RelayInv'
  <1>1. "hostunreachable" \in Codes \ {"succeeded"} /\ "notallowed" \in Codes \ {"succeeded"}
    BY DEF Codes, Said
  <1>2. CASE stage["relay"] \in {"resolve", "connect"} /\ (RefuseDial("hostunreachable") \/ RefuseDial("notallowed"))
    BY <1>1, <1>2, DialRefusedWith
  <1>3. CASE stage["relay"] = "resolve" /\ Move("relay", "connect") /\ UNCHANGED <<path, link, late, copying, left, got, seen>>
    <2>1. path.source # "public" /\ Shown
      BY <1>3 DEF RelayInv, Control, RelayShown
    <2>2. Control' /\ (Unanswered' => Unanswered)
      BY <1>3, <2>1, Advances DEF Move, Stages, BeforeDial, Handlers, RelayInv, Control, PathTypes
    <2>3. LinksOK'
      BY <1>3, <2>2, NoLink
    <2> QED
      BY <2>2, <2>3 DEF RelayInv
  <1> QED
    BY <1>2, <1>3 DEF Resolve, DialRefused, DialTimesOut

\* Only an address that was kept is connected to, for somebody who may.
LEMMA DialAddressStep ==
  ASSUME RelayInv, DialAddress
  PROVE  RelayInv'
  <1> DEFINE a == allowed[Len(seen.dialed) + 1]
  <1>1. /\ stage["relay"] = "connect" /\ Len(seen.dialed) < Len(allowed)
        /\ UNCHANGED <<path, late, copying, left, got>>
        /\ seen' = [seen EXCEPT !.dialed = Append(@, a)]
        /\ \/ link' = [link EXCEPT !["out"] = Opened] /\ stage' = [stage EXCEPT !["relay"] = "answer"]
           \/ UNCHANGED <<link, stage>>
    BY DEF DialAddress, Move
  <1>2. /\ seen \in [state : Faults, reply : Said, dialed : Seq(Addrs), auth : BOOLEAN] /\ seen.dialed \in Seq(Reachable)
        /\ stage \in [Handlers -> Stages] /\ "relay" \in Handlers /\ "daemon" \in Handlers /\ "answer" \in Stages
    BY DEF RelayInv, Control, PathTypes, DialedAllowed, Handlers, Stages
  <1>3. a \in Reachable /\ a \in Addrs
    <2>1. allowed \in Seq(Reachable)
      BY AllowedReachable, PathGiven DEF RelayInv, Control, PathTypes
    <2>2. Len(seen.dialed) \in Nat /\ Len(allowed) \in Nat
      BY <1>2, <2>1
    <2>3. Len(seen.dialed) + 1 \in 1..Len(allowed)
      BY <1>1, <2>2
    <2> QED
      BY <2>1, <2>3 DEF Reachable
  <1> HIDE DEF a
  <1> DEFINE more == Append(seen.dialed, a)
  <1>4. more \in Seq(Addrs) /\ more \in Seq(Reachable)
    BY <1>2, <1>3
  <1>5. seen' = [seen EXCEPT !.dialed = more]
    BY <1>1
  <1> HIDE DEF more
  <1>6. seen' \in [state : Faults, reply : Said, dialed : Seq(Addrs), auth : BOOLEAN] /\ seen'.dialed = more
    BY <1>2, <1>4, <1>5
  <1>7. path.source # "public" /\ Shown
    BY <1>1 DEF RelayInv, Control, RelayShown
  <1>8. Shown' = Shown /\ Msg' = Msg /\ Reachable' = Reachable
    BY <1>1 DEF Shown, Msg, Reachable, isPublic
  <1>9. stage' \in [Handlers -> Stages] /\ stage'["relay"] \in {"connect", "answer"} /\ stage'["daemon"] = stage["daemon"]
    BY <1>1, <1>2
  <1>10. Unanswered /\ Unanswered'
    BY <1>1, <1>9 DEF Unanswered
  <1>11. PathTypes' /\ DialedAllowed' /\ RelayShown'
    BY <1>1, <1>4, <1>6, <1>7, <1>8, <1>9 DEF RelayInv, Control, PathTypes, DialedAllowed, RelayShown
  <1>12. DaemonAfter'
    BY <1>1, <1>9, <1>10 DEF RelayInv, Control, DaemonAfter
  <1>13. Copying'
    BY <1>1, <1>2 DEF RelayInv, Control, Copying
  <1>14. LinksOK'
    <2>1. CASE link' = [link EXCEPT !["out"] = Opened]
      <3>1. Carries(Opened, Ups("out")', Downs("out")')
        BY EmptyCarries
      <3> QED
        BY <1>1, <1>10, <2>1, <3>1, OneLink DEF Conns
    <2>2. CASE link' = link
      BY <1>1, <1>10, <2>2, NoLink
    <2> QED
      BY <1>1, <2>1, <2>2
  <1> QED
    BY <1>1, <1>11, <1>12, <1>13, <1>14 DEF RelayInv, Control

-----------------------------------------------------------------------------

\* The outside changes one connection and leaves the handlers where they are.
LEMMA Outside ==
  ASSUME RelayInv, NEW c \in Conns, NEW d, Carries(d, Ups(c), Downs(c)), link' = [link EXCEPT ![c] = d],
         UNCHANGED <<path, stage, seen, copying, late>>,
         left' \in [app : Seq(Msg), dest : Seq(Msg)], left'.app \in Seq(ToSet(path.script)),
         got' \in [app : Seq(Msg), dest : Seq(Msg)]
  PROVE  RelayInv'
  <1>1. Control' /\ (Unanswered' => Unanswered)
    BY Stays DEF RelayInv, Control, PathTypes
  <1>2. Carries(d, Ups(c)', Downs(c)')
    BY <1>1, CarriedMore, CarriesMore DEF RelayInv
  <1>3. LinksOK'
    BY <1>1, <1>2, OneLink
  <1> QED
    BY <1>1, <1>3 DEF RelayInv

\* What the ends hold, and what can come to them.
LEMMA EndTypes ==
  ASSUME RelayInv
  PROVE  /\ left \in [app : Seq(Msg), dest : Seq(Msg)] /\ left.app \in Seq(ToSet(path.script))
         /\ got \in [app : Seq(Msg), dest : Seq(Msg)]
         /\ path.at \in {"in", "mid"} /\ path.at \in Conns /\ "out" \in Conns /\ "mid" \in Conns
         /\ \A c \in Conns : /\ Carries(link[c], Ups(c), Downs(c))
                             /\ Ups(c) \subseteq Msg /\ Downs(c) \subseteq Msg
         /\ ToSet(path.script) \subseteq Ups(path.at)
  <1>1. path.at \in {"in", "mid"}
    BY PathGiven DEF RelayInv, Control, PathTypes
  <1>2. Honest \subseteq Msg /\ ToSet(path.script) \subseteq Msg
    BY DEF Honest, OwnMsgs, Msg, Spoken
  <1>3. \A c \in Conns : Ups(c) \subseteq Msg /\ Downs(c) \subseteq Msg
    BY <1>2 DEF Ups, Downs
  <1>4. ToSet(path.script) \subseteq Ups(path.at)
    BY <1>1, <1>2 DEF Ups, Honest
  <1> QED
    BY <1>1, <1>3, <1>4 DEF RelayInv, LinksOK, Control, PathTypes, Conns

\* The application sends its script.
LEMMA AppSendsStep ==
  ASSUME RelayInv, AppSends
  PROVE  RelayInv'
  <1> DEFINE m == Head(left.app)
             t == Tail(left.app)
             d == Put(link[path.at], "l", m)
  <1>1. /\ left.app # <<>> /\ UNCHANGED <<path, stage, late, copying, got, seen>>
        /\ link' = [link EXCEPT ![path.at] = Put(@, "l", m)] /\ left' = [left EXCEPT !.app = t]
    BY DEF AppSends
  <1>2. m \in Ups(path.at) /\ t \in Seq(ToSet(path.script)) /\ t \in Seq(Msg)
    <2> DEFINE q == left.app
    <2>1. q \in Seq(ToSet(path.script)) /\ q \in Seq(Msg) /\ q # <<>> /\ ToSet(path.script) \subseteq Ups(path.at)
      BY <1>1, EndTypes
    <2> HIDE DEF q
    <2>2. Head(q) \in ToSet(path.script) /\ Tail(q) \in Seq(ToSet(path.script))
      BY <2>1
    <2>3. Tail(q) \in Seq(Msg)
      BY <2>1
    <2> QED
      BY <2>1, <2>2, <2>3 DEF q
  <1> HIDE DEF m, t
  <1>3. link' = [link EXCEPT ![path.at] = d]
    BY <1>1, EndTypes DEF RelayInv, LinksOK
  <1>4. Carries(d, Ups(path.at), Downs(path.at))
    BY <1>2, EndTypes, PutCarries DEF Sides
  <1> HIDE DEF d
  <1>5. left' \in [app : Seq(Msg), dest : Seq(Msg)] /\ left'.app \in Seq(ToSet(path.script))
    BY <1>1, <1>2, EndTypes
  <1> QED
    BY <1>1, <1>3, <1>4, <1>5, EndTypes, Outside

\* An end reads what has come to it.
LEMMA Reads ==
  ASSUME RelayInv, NEW c \in Conns, NEW s \in Sides, Readable(link[c], s)
  PROVE  /\ Carries(Take(link[c], s), Ups(c), Downs(c)) /\ FirstOf(link[c], s) \in Msg
         /\ [got EXCEPT !.app = Append(@, FirstOf(link[c], s))] \in [app : Seq(Msg), dest : Seq(Msg)]
         /\ [got EXCEPT !.dest = Append(@, FirstOf(link[c], s))] \in [app : Seq(Msg), dest : Seq(Msg)]
  <1>1. Carries(Take(link[c], s), Ups(c), Downs(c)) /\ FirstOf(link[c], s) \in Msg
    BY EndTypes, TakeCarries
  <1> DEFINE x == Append(got.app, FirstOf(link[c], s))
             y == Append(got.dest, FirstOf(link[c], s))
  <1>2. x \in Seq(Msg) /\ y \in Seq(Msg)
    BY <1>1, EndTypes
  <1>3. [got EXCEPT !.app = x] \in [app : Seq(Msg), dest : Seq(Msg)] /\ [got EXCEPT !.dest = y] \in [app : Seq(Msg), dest : Seq(Msg)]
    <2> HIDE DEF x, y
    <2> QED
      BY <1>2, EndTypes
  <1> QED
    BY <1>1, <1>3

\* The two ends read, send and close.
LEMMA EndsStep ==
  ASSUME RelayInv, AppReads \/ AppEnds \/ AppCloses \/ DestReads \/ DestSends \/ DestCloses
  PROVE  RelayInv'
  <1>1. link = [j \in Conns |-> link[j]] /\ "l" \in Sides /\ "r" \in Sides
    BY DEF RelayInv, LinksOK, Sides
  <1>2. CASE AppReads
    <2>1. link' = [link EXCEPT ![path.at] = Take(link[path.at], "l")] /\ Readable(link[path.at], "l")
      BY <1>1, <1>2, EndTypes DEF AppReads
    <2> QED
      BY <1>1, <1>2, <2>1, EndTypes, Reads, Outside DEF AppReads
  <1>3. CASE AppEnds
    <2> DEFINE d == IF path.half THEN CloseWrite(link[path.at], "l") ELSE CloseSide(link[path.at], "l")
    <2>1. link' = [link EXCEPT ![path.at] = d] /\ Carries(d, Ups(path.at), Downs(path.at))
      BY <1>1, <1>3, EndTypes, EndsCarry DEF AppEnds
    <2> HIDE DEF d
    <2> QED
      BY <1>3, <2>1, EndTypes, Outside DEF AppEnds
  <1>4. CASE AppCloses
    <2>1. link' = [link EXCEPT ![path.at] = CloseSide(link[path.at], "l")]
      BY <1>1, <1>4, EndTypes DEF AppCloses
    <2>2. Carries(CloseSide(link[path.at], "l"), Ups(path.at), Downs(path.at))
      BY <1>1, EndTypes, EndsCarry
    <2>3. <<>> \in Seq(Msg) /\ <<>> \in Seq(ToSet(path.script)) /\ left' = [left EXCEPT !.app = <<>>]
      BY <1>4 DEF AppCloses
    <2>4. left' \in [app : Seq(Msg), dest : Seq(Msg)] /\ left'.app \in Seq(ToSet(path.script))
      BY <2>3, EndTypes
    <2> QED
      BY <1>4, <2>1, <2>2, <2>4, EndTypes, Outside DEF AppCloses
  <1>5. CASE DestReads
    <2>1. link' = [link EXCEPT !["out"] = Take(link["out"], "r")] /\ Readable(link["out"], "r")
      BY <1>1, <1>5, EndTypes DEF DestReads
    <2> QED
      BY <1>1, <1>5, <2>1, EndTypes, Reads, Outside DEF DestReads
  <1>6. CASE DestSends
    <2> DEFINE m == Head(left.dest)
               t == Tail(left.dest)
    <2>1. left.dest # <<>> /\ link' = [link EXCEPT !["out"] = Put(link["out"], "r", m)] /\ left' = [left EXCEPT !.dest = t]
      BY <1>1, <1>6, EndTypes DEF DestSends
    <2>2. m \in Msg /\ t \in Seq(Msg)
      BY <2>1, EndTypes
    <2> HIDE DEF m, t
    <2>3. Carries(Put(link["out"], "r", m), Ups("out"), Downs("out"))
      <3>1. m \in Downs("out")
        BY <2>2 DEF Downs
      <3> QED
        BY <1>1, <3>1, EndTypes, PutCarries
    <2>4. left' \in [app : Seq(Msg), dest : Seq(Msg)] /\ left'.app = left.app
      BY <2>1, <2>2, EndTypes
    <2> QED
      BY <1>6, <2>1, <2>3, <2>4, EndTypes, Outside DEF DestSends
  <1>7. CASE DestCloses
    <2>1. link' = [link EXCEPT !["out"] = CloseSide(link["out"], "r")]
      BY <1>1, <1>7, EndTypes DEF DestCloses
    <2>2. Carries(CloseSide(link["out"], "r"), Ups("out"), Downs("out"))
      BY <1>1, EndTypes, EndsCarry
    <2> QED
      BY <1>7, <2>1, <2>2, EndTypes, Outside DEF DestCloses
  <1> QED
    BY <1>2, <1>3, <1>4, <1>5, <1>6, <1>7

\* A connection is reset, or the tailnet is cut.
LEMMA LostStep ==
  ASSUME RelayInv, Cut \/ \E c \in Conns : ResetConn(c)
  PROVE  RelayInv'
  <1>1. PICK c \in Conns : link' = [link EXCEPT ![c] = Lose(link[c])] /\ UNCHANGED <<path, stage, late, copying, left, got, seen>>
    BY DEF Cut, ResetConn, RelayInv, LinksOK, Conns
  <1>2. Carries(Lose(link[c]), Ups(c), Downs(c))
    BY EndTypes, EndsCarry DEF Sides
  <1> QED
    BY <1>1, <1>2, EndTypes, Outside

\* A deadline passes.
LEMMA ExpireStep ==
  ASSUME RelayInv, NEW h \in Handlers, Expire(h)
  PROVE  RelayInv'
  <1>1. /\ UNCHANGED <<path, link, stage, copying, left, got, seen>> /\ late' \subseteq Handlers
    BY DEF Expire, RelayInv, Control, PathTypes
  <1>2. Control' /\ (Unanswered' => Unanswered)
    BY <1>1, EndTypes, Stays DEF RelayInv, Control, PathTypes
  <1>3. LinksOK'
    BY <1>1, <1>2, NoLink
  <1> QED
    BY <1>2, <1>3 DEF RelayInv

-----------------------------------------------------------------------------

\* At first nothing is open.
LEMMA PathStarts ==
  ASSUME PathInit
  PROVE  RelayInv
  <1>1. /\ path \in Paths /\ link = [c \in Conns |-> IF c = path.at /\ path.script # <<>> THEN Opened ELSE NotOpened]
        /\ stage = [h \in Handlers |-> IF link[Accepted(h)].open THEN "accept" ELSE "idle"]
        /\ late = {} /\ copying = [h \in Handlers |-> {}]
        /\ left = [app |-> path.script, dest |-> <<<<"data", "answer">>>>]
        /\ got = [app |-> <<>>, dest |-> <<>>]
        /\ seen = [state |-> "unknown", reply |-> "none", dialed |-> <<>>, auth |-> FALSE]
    BY DEF PathInit
  <1>2. link = [c \in Conns |-> link[c]]
    BY <1>1
  <1>3. \A c \in Conns : Carries(link[c], Ups(c), Downs(c))
    BY <1>1, EmptyCarries
  <1>4. stage \in [Handlers -> Stages] /\ stage["daemon"] \in {"idle", "accept"} /\ stage["relay"] \in {"idle", "accept"}
    BY <1>1 DEF Stages, Handlers
  <1>5. left.app \in Seq(ToSet(path.script)) /\ left \in [app : Seq(Msg), dest : Seq(Msg)]
    <2>1. path.script \in Seq(ToSet(path.script)) /\ <<"data", "answer">> \in Msg
      BY <1>1, PathGiven, AnyMsg
    <2>2. path.script \in Seq(Msg)
      BY <2>1 DEF Msg
    <2> DEFINE m == <<"data", "answer">>
    <2>3. <<m>> \in Seq(Msg)
      <3> HIDE DEF m
      <3>1. m \in Msg
        BY <2>1 DEF m
      <3> QED
        BY <3>1
    <2> QED
      BY <1>1, <2>1, <2>2, <2>3
  <1>6. got \in [app : Seq(Msg), dest : Seq(Msg)]
    BY <1>1
  <1>7. seen \in [state : Faults, reply : Said, dialed : Seq(Addrs), auth : BOOLEAN] /\ seen.dialed = <<>> /\ seen.dialed \in Seq(Reachable)
    BY <1>1 DEF Faults, Said
  <1>8. PathTypes
    BY <1>1, <1>4, <1>5, <1>6, <1>7 DEF PathTypes
  <1>9. Copying /\ RelayShown /\ DialedAllowed
    BY <1>1, <1>4, <1>7 DEF Copying, RelayShown, DialedAllowed
  <1>10. DaemonAfter
    <2>1. path.at = "mid" => stage["daemon"] = "idle"
      BY <1>1, EmptyCarries DEF Handlers, Accepted, Conns
    <2>2. path.at = "in" => stage["relay"] = "idle"
      BY <1>1, EmptyCarries DEF Handlers, Accepted, Conns
    <2> QED
      BY <1>4, <2>1, <2>2 DEF DaemonAfter
  <1> QED
    BY <1>2, <1>3, <1>5, <1>8, <1>9, <1>10 DEF RelayInv, LinksOK, Control

\* Every step keeps the invariant.
LEMMA PathSteps ==
  ASSUME RelayInv, PathNext
  PROVE  RelayInv'
  <1>1. ASSUME Serve PROVE RelayInv'
    <2>1. PICK h \in Handlers :
            \/ AcceptConn(h) \/ ReadMethods(h) \/ ReadAuth(h) \/ ReadRequest(h) \/ RequestFails(h)
            \/ AnswerOK(h) \/ AnswerFails(h) \/ PipeDone(h)
            \/ \E d \in Dirs : CopyChunk(h, d) \/ CopyEnds(h, d)
      BY <1>1 DEF Serve
    <2>2. CASE AcceptConn(h) \/ ReadMethods(h) \/ ReadAuth(h) \/ ReadRequest(h) \/ RequestFails(h)
      BY <2>2, AcceptStep, MethodsStep, AuthStep, RequestStep, RequestFailsStep
    <2>3. CASE AnswerOK(h) \/ AnswerFails(h) \/ PipeDone(h)
      BY <2>3, AnswerStep, AnswerFailsStep, PipeDoneStep
    <2>4. CASE \E d \in Dirs : CopyChunk(h, d) \/ CopyEnds(h, d)
      BY <2>4, ChunkStep, CopyEndsStep
    <2> QED
      BY <2>1, <2>2, <2>3, <2>4
  <1>2. ASSUME Dial PROVE RelayInv'
    BY <1>2, RouteStep, DialRelayStep, DialFailsStep, ClientStep, ClientReplyStep, ResolveStep, DialAddressStep DEF Dial
  <1>3. ASSUME Ends PROVE RelayInv'
    BY <1>3, AppSendsStep, EndsStep DEF Ends
  <1>4. ASSUME NEW h \in Handlers, Expire(h) PROVE RelayInv'
    BY <1>4, ExpireStep
  <1>5. ASSUME Cut \/ \E c \in Conns : ResetConn(c) PROVE RelayInv'
    BY <1>5, LostStep
  <1> QED
    BY <1>1, <1>2, <1>3, <1>4, <1>5 DEF PathNext

\* So does a step of the others.
LEMMA PathStutters ==
  ASSUME RelayInv, UNCHANGED pathVars
  PROVE  RelayInv'
  <1>1. Control' /\ (Unanswered' => Unanswered)
    BY EndTypes, Stays DEF pathVars, RelayInv, Control, PathTypes
  <1>2. LinksOK'
    BY <1>1, NoLink DEF pathVars
  <1> QED
    BY <1>1, <1>2 DEF RelayInv

\* The invariant says what the property does.
LEMMA RelaySays ==
  ASSUME RelayInv
  PROVE  OnlyAllowed
  <1>1. SUFFICES ASSUME seen.dialed # <<>>
                 PROVE  /\ path.source # "public" /\ Shown
                        /\ path.private \/ \A a \in ToSet(seen.dialed) : ClassOf[a] = "public"
    BY DEF OnlyAllowed, Shown
  <1>2. path.source # "public" /\ Shown /\ seen.dialed \in Seq(Reachable)
    BY <1>1 DEF RelayInv, Control, DialedAllowed
  <1>3. ASSUME NEW a \in ToSet(seen.dialed) PROVE path.private \/ ClassOf[a] = "public"
    <2>1. a \in Reachable
      BY <1>2 DEF ToSet
    <2> QED
      BY <2>1 DEF Reachable, isPublic
  <1> QED
    BY <1>2, <1>3

\* For any scenario, any names and any addresses: the relay connects only for
\* somebody on the tailnet or on its own machine who has shown the token, and
\* only to addresses it may reach (relay.go:120, 177).
THEOREM RelayOnlyAllowed ==
  PathInit /\ [][PathNext]_pathVars => []OnlyAllowed
  <1>1. PathInit => RelayInv
    BY PathStarts
  <1>2. RelayInv /\ [PathNext]_pathVars => RelayInv'
    BY PathSteps, PathStutters
  <1>3. RelayInv => OnlyAllowed
    BY RelaySays
  <1> QED
    BY <1>1, <1>2, <1>3, PTL

-----------------------------------------------------------------------------
(* A connection through a relay: what the application is told.             *)

IsReply(m) == m[1] = "reply"
IsData(m) == m[1] = "data"
DataOnly(q) == \A i \in DOMAIN q : IsData(q[i])
Upward == link["mid"].sent["l"]
Downward == link["mid"].sent["r"]
AsClient == {"cmethod", "cauth", "creply"}
Active == {"accept", "method", "auth", "request", "resolve", "connect", "answer"}

\* What the relay has said, and what its connections are meanwhile.
Outcome ==
  /\ seen.reply \in {"none", "succeeded", "hostunreachable", "notallowed"}
  /\ stage["relay"] \notin {"copy", "done"} => seen.reply = "none"
  /\ stage["relay"] = "copy" => seen.reply = "succeeded"
  /\ stage["relay"] = "answer" \/ seen.reply = "succeeded" => link["out"].open
  /\ stage["relay"] \in Active => "r" \notin link["mid"].fin
  /\ \A c \in Conns : link[c].closed \subseteq link[c].fin
  /\ late # {} => path.slow \/ link["mid"].lost
  /\ DataOnly(link["out"].sent["r"]) /\ DataOnly(left.dest)

\* The daemon and the relay are one message apart: where one of them is says
\* where the other can be, and what is on its way.
AtMethod ==
  stage["daemon"] = "cmethod" =>
    /\ stage["relay"] \in {"accept", "method", "auth", "done"}
    /\ stage["relay"] \in {"accept", "method"} => Len(Upward) <= 1 /\ Downward = <<>>
    /\ stage["relay"] = "auth" => Upward = <<>>
    /\ Downward \in {<<>>, <<<<"method", "userpass">>>>}
AtAuth ==
  stage["daemon"] = "cauth" =>
    /\ stage["relay"] \in {"auth", "request", "done"}
    /\ stage["relay"] = "auth" => Len(Upward) <= 1 /\ Downward = <<>>
    /\ stage["relay"] = "request" => Upward = <<>> /\ Downward \in {<<>>, <<<<"authreply", "ok">>>>}
    /\ Downward \in {<<>>, <<<<"authreply", "ok">>>>, <<<<"authreply", "fail">>>>}
AtReply ==
  stage["daemon"] = "creply" =>
    /\ stage["relay"] \in {"request", "resolve", "connect", "answer", "copy", "done"}
    /\ stage["relay"] = "request" => Len(Upward) <= 1
    /\ stage["relay"] \in {"resolve", "connect", "answer"} => Upward = <<>>
    /\ stage["relay"] \in Active => Downward = <<>>
    /\ stage["relay"] = "copy" => Downward # <<>> \/ link["mid"].lost
    /\ Downward # <<>> => Head(Downward) = <<"reply", seen.reply>> /\ seen.reply # "none" /\ DataOnly(Tail(Downward))
    /\ seen.reply \notin {"none", "succeeded"} /\ ~path.slow /\ ~path.cut =>
         Downward # <<>> /\ Upward = <<>> /\ ~link["mid"].lost
AfterReply ==
  stage["daemon"] \in {"answer", "copy"} => seen.reply = "succeeded" /\ DataOnly(Downward)
Lockstep ==
  path.at = "in" =>
    /\ stage["daemon"] \in BeforeDial => link["mid"] = NotOpened
    /\ stage["daemon"] \in AsClient => "l" \notin link["mid"].fin
    /\ stage["daemon"] \in {"cmethod", "cauth"} => seen.reply = "none"
    /\ stage["relay"] \in Active /\ ~path.cut => stage["daemon"] \in AsClient /\ ~link["mid"].lost
    /\ AtMethod /\ AtAuth /\ AtReply /\ AfterReply

\* The handler that answers the application, what is on its way to it, and
\* what it has or will have read.
Own == IF path.at = "in" THEN "daemon" ELSE "relay"
Coming == link[path.at].sent["r"]
Heading == ToSet(got.app) \union ToSet(Coming)

\* What AnswersTrue says of one reply.
ReplyTrue(c) ==
  /\ c = "succeeded" => link["out"].open
  /\ c \in {"notallowed", "connrefused"} =>
       \/ path.at = "in" /\ path.route = "reject" /\ c = "notallowed"
       \/ path.at = "in" /\ path.reach = "refused" /\ c = "connrefused"
       \/ seen.reply = c
  /\ seen.reply \notin {"none", "succeeded"} => c = seen.reply \/ path.slow \/ path.cut
  /\ c = "general" => seen.state \notin {"unknown", "ready"} \/ <<"request", "nohost">> \in ToSet(path.script)

OneTruth ==
  /\ stage[Own] \notin {"copy", "done"} => \A m \in Heading : ~IsReply(m) /\ ~IsData(m)
  /\ \A m \in Heading : IsReply(m) => ReplyTrue(m[2])
  /\ \A m, n \in Heading : IsReply(m) /\ IsReply(n) => m = n
  /\ stage[Own] = "copy" => Succeeded \in Heading \/ Broken(link[path.at], "r")
  /\ (\E m \in ToSet(got.app) : IsData(m)) => Succeeded \in ToSet(got.app)
  /\ \A i \in DOMAIN Coming : IsData(Coming[i]) => Succeeded \in ToSet(got.app) \/ \E j \in 1..i - 1 : Coming[j] = Succeeded

AnswersInv == RelayInv /\ Outcome /\ Lockstep /\ OneTruth

-----------------------------------------------------------------------------
(* What each operation does to a connection.                               *)

IsConn(c) ==
  /\ c = [sent |-> c.sent, fin |-> c.fin, closed |-> c.closed, open |-> c.open, lost |-> c.lost]
  /\ c.sent = [s \in Sides |-> c.sent[s]]

\* Two connections that only differ in what is on its way.
SameEnds(c, d) == d.fin = c.fin /\ d.closed = c.closed /\ d.open = c.open /\ d.lost = c.lost

\* What carries messages is a connection.
LEMMA CarriesIsConn ==
  ASSUME NEW L, NEW R, NEW c, Carries(c, L, R)
  PROVE  IsConn(c)
  BY DEF Carries, ConnRec, IsConn

\* Every connection of the model is one, and carries messages each way.
LEMMA LinkIsConn ==
  ASSUME RelayInv, NEW c \in Conns
  PROVE  IsConn(link[c]) /\ link[c].sent["l"] \in Seq(Msg) /\ link[c].sent["r"] \in Seq(Msg)
  <1>1. Carries(link[c], Ups(c), Downs(c)) /\ Ups(c) \subseteq Msg /\ Downs(c) \subseteq Msg
    BY EndTypes
  <1>2. Carries(link[c], Msg, Msg)
    BY <1>1, CarriesMore
  <1> QED
    BY <1>1, <1>2, CarriesIsConn DEF Carries

\* A write.
LEMMA PutDoes ==
  ASSUME NEW c, IsConn(c), NEW m, NEW s \in Sides
  PROVE  /\ IsConn(Put(c, s, m)) /\ SameEnds(c, Put(c, s, m))
         /\ Put(c, s, m).sent[s] = IF Broken(c, s) THEN c.sent[s] ELSE Append(c.sent[s], m)
         /\ Put(c, s, m).sent[Peer(s)] = c.sent[Peer(s)]
  <1>1. CASE Broken(c, s)
    BY <1>1 DEF Put, SameEnds
  <1>2. CASE ~Broken(c, s)
    <2> DEFINE q == Append(c.sent[s], m)
               f == [c.sent EXCEPT ![s] = q]
    <2>1. f = [t \in Sides |-> f[t]] /\ f[s] = q /\ f[Peer(s)] = c.sent[Peer(s)]
      <3> HIDE DEF q
      <3> QED
        BY DEF IsConn, Sides, Peer
    <2>2. Put(c, s, m) = [c EXCEPT !.sent = f]
      BY <1>2 DEF Put, IsConn
    <2> HIDE DEF f
    <2>3. [c EXCEPT !.sent = f] = [sent |-> f, fin |-> c.fin, closed |-> c.closed, open |-> c.open, lost |-> c.lost]
      BY DEF IsConn
    <2> QED
      BY <1>2, <2>1, <2>2, <2>3 DEF IsConn, SameEnds
  <1> QED
    BY <1>1, <1>2

\* A read.
LEMMA TakeDoes ==
  ASSUME NEW c, IsConn(c), NEW s \in Sides
  PROVE  /\ IsConn(Take(c, s)) /\ SameEnds(c, Take(c, s))
         /\ Take(c, s).sent[Peer(s)] = Tail(c.sent[Peer(s)])
         /\ Take(c, s).sent[s] = c.sent[s]
  <1> DEFINE q == Tail(c.sent[Peer(s)])
             f == [c.sent EXCEPT ![Peer(s)] = q]
  <1>1. f = [t \in Sides |-> f[t]] /\ f[Peer(s)] = q /\ f[s] = c.sent[s]
    <2> HIDE DEF q
    <2> QED
      BY DEF IsConn, Sides, Peer
  <1>2. Take(c, s) = [c EXCEPT !.sent = f]
    BY DEF Take, IsConn
  <1> HIDE DEF f
  <1>3. [c EXCEPT !.sent = f] = [sent |-> f, fin |-> c.fin, closed |-> c.closed, open |-> c.open, lost |-> c.lost]
    BY DEF IsConn
  <1> QED
    BY <1>1, <1>2, <1>3 DEF IsConn, SameEnds

\* An end, of one direction or of both, and a loss.
LEMMA CloseDoes ==
  ASSUME NEW c, IsConn(c), NEW s \in Sides
  PROVE  /\ IsConn(CloseWrite(c, s)) /\ CloseWrite(c, s).sent = c.sent
         /\ CloseWrite(c, s).fin = c.fin \union {s} /\ CloseWrite(c, s).closed = c.closed
         /\ CloseWrite(c, s).open = c.open /\ CloseWrite(c, s).lost = c.lost
         /\ IsConn(CloseSide(c, s)) /\ CloseSide(c, s).sent = c.sent
         /\ CloseSide(c, s).fin = c.fin \union {s} /\ CloseSide(c, s).closed = c.closed \union {s}
         /\ CloseSide(c, s).open = c.open /\ CloseSide(c, s).lost = c.lost
  <1>1. CloseWrite(c, s) = [sent |-> c.sent, fin |-> c.fin \union {s}, closed |-> c.closed, open |-> c.open, lost |-> c.lost]
    BY DEF IsConn, CloseWrite
  <1>2. CloseSide(c, s) = [sent |-> c.sent, fin |-> c.fin \union {s}, closed |-> c.closed \union {s}, open |-> c.open, lost |-> c.lost]
    <2>1. c \in [sent : {c.sent}, fin : {c.fin}, closed : {c.closed}, open : {c.open}, lost : {c.lost}]
      BY DEF IsConn
    <2> DEFINE x == c.fin \union {s}
               y == c.closed \union {s}
               d == [c EXCEPT !.fin = x, !.closed = y]
    <2>2. CloseSide(c, s) = d
      BY DEF CloseSide
    <2> HIDE DEF x, y
    <2>3. /\ d \in [sent : {c.sent}, fin : {c.fin, x}, closed : {c.closed, y}, open : {c.open}, lost : {c.lost}]
          /\ d.fin = x /\ d.closed = y
      BY <2>1
    <2> HIDE DEF d
    <2>4. d = [sent |-> c.sent, fin |-> x, closed |-> y, open |-> c.open, lost |-> c.lost]
      BY <2>3
    <2> QED
      BY <2>2, <2>4 DEF x, y
  <1>3. IsConn(CloseWrite(c, s)) /\ IsConn(CloseSide(c, s))
    BY <1>1, <1>2 DEF IsConn
  <1> QED
    BY <1>1, <1>2, <1>3

\* A loss: nothing of what was on its way arrives.
LEMMA LoseDoes ==
  ASSUME NEW c, IsConn(c)
  PROVE  /\ Lose(c).sent["l"] = <<>> /\ Lose(c).sent["r"] = <<>> /\ Lose(c).lost
         /\ Lose(c).fin = c.fin /\ Lose(c).closed = c.closed /\ Lose(c).open = c.open
  <1>1. Lose(c) = [sent |-> [s \in Sides |-> <<>>], fin |-> c.fin, closed |-> c.closed, open |-> c.open, lost |-> TRUE]
    <2>1. c \in [sent : {c.sent}, fin : {c.fin}, closed : {c.closed}, open : {c.open}, lost : {c.lost}]
      BY DEF IsConn
    <2> DEFINE e == [s \in Sides |-> <<>>]
               d == [c EXCEPT !.sent = e, !.lost = TRUE]
    <2>2. Lose(c) = d
      BY DEF Lose
    <2> HIDE DEF e
    <2>3. /\ d \in [sent : {c.sent, e}, fin : {c.fin}, closed : {c.closed}, open : {c.open}, lost : {c.lost, TRUE}]
          /\ d.sent = e /\ d.lost = TRUE
      BY <2>1
    <2> HIDE DEF d
    <2>4. d = [sent |-> e, fin |-> c.fin, closed |-> c.closed, open |-> c.open, lost |-> TRUE]
      BY <2>3
    <2> QED
      BY <2>2, <2>4 DEF e
  <1> QED
    BY <1>1 DEF Sides

\* A new connection carries nothing.
LEMMA NewDoes ==
  /\ IsConn(Opened) /\ Opened.sent["l"] = <<>> /\ Opened.sent["r"] = <<>>
  /\ Opened.fin = {} /\ Opened.closed = {} /\ Opened.open /\ ~Opened.lost
  /\ IsConn(NotOpened) /\ NotOpened.sent["l"] = <<>> /\ NotOpened.sent["r"] = <<>>
  /\ NotOpened.fin = {} /\ NotOpened.closed = {} /\ ~NotOpened.open /\ ~NotOpened.lost
  <1> DEFINE e == [s \in Sides |-> <<>>]
             n == [sent |-> e, fin |-> {}, closed |-> {}, open |-> FALSE, lost |-> FALSE]
             o == [sent |-> e, fin |-> {}, closed |-> {}, open |-> TRUE, lost |-> FALSE]
  <1>1. e["l"] = <<>> /\ e["r"] = <<>> /\ e = [s \in Sides |-> e[s]]
    BY DEF Sides
  <1>2. NotOpened = n
    BY DEF NotOpened
  <1> HIDE DEF e
  <1>3. Opened = o
    <2> DEFINE d == [n EXCEPT !.open = TRUE]
    <2>1. n \in [sent : {e}, fin : {{}}, closed : {{}}, open : BOOLEAN, lost : {FALSE}]
      OBVIOUS
    <2> HIDE DEF n
    <2>2. d \in [sent : {e}, fin : {{}}, closed : {{}}, open : BOOLEAN, lost : {FALSE}] /\ d.open = TRUE
      BY <2>1
    <2>3. Opened = d
      BY <1>2 DEF Opened
    <2> HIDE DEF d
    <2> QED
      BY <2>2, <2>3
  <1> QED
    BY <1>1, <1>2, <1>3 DEF IsConn

\* The sequences on their way.
LEMMA SetAppend ==
  ASSUME NEW M, NEW q \in Seq(M), NEW m
  PROVE  /\ ToSet(Append(q, m)) = ToSet(q) \union {m}
         /\ DataOnly(q) /\ IsData(m) => DataOnly(Append(q, m))
  <1>1. /\ Len(q) \in Nat /\ DOMAIN q = 1..Len(q) /\ DOMAIN Append(q, m) = 1..(Len(q) + 1)
        /\ \A i \in 1..Len(q) : Append(q, m)[i] = q[i]
        /\ Append(q, m)[Len(q) + 1] = m
    OBVIOUS
  <1>2. 1..(Len(q) + 1) = 1..Len(q) \union {Len(q) + 1}
    BY <1>1
  <1> QED
    BY <1>1, <1>2 DEF ToSet, DataOnly

\* What is read leaves the rest on its way.
LEMMA SetTail ==
  ASSUME NEW M, NEW q \in Seq(M), q # <<>>
  PROVE  /\ ToSet(q) = {Head(q)} \union ToSet(Tail(q))
         /\ DataOnly(q) => IsData(Head(q)) /\ DataOnly(Tail(q))
         /\ Head(q) = q[1] /\ Len(q) \in Nat \ {0} /\ Tail(q) \in Seq(M)
         /\ Len(Tail(q)) = Len(q) - 1 /\ \A i \in 1..(Len(q) - 1) : Tail(q)[i] = q[i + 1]
  <1>1. /\ Len(q) \in Nat \ {0} /\ DOMAIN q = 1..Len(q) /\ DOMAIN Tail(q) = 1..(Len(q) - 1)
        /\ \A i \in 1..(Len(q) - 1) : Tail(q)[i] = q[i + 1]
        /\ Head(q) = q[1] /\ Tail(q) \in Seq(M) /\ Len(Tail(q)) = Len(q) - 1
    OBVIOUS
  <1>2. \A i \in 1..Len(q) : i = 1 \/ (i - 1 \in 1..(Len(q) - 1) /\ (i - 1) + 1 = i)
    BY <1>1
  <1>3. ToSet(q) = {Head(q)} \union ToSet(Tail(q))
    <2>1. ASSUME NEW x \in ToSet(q) PROVE x = Head(q) \/ x \in ToSet(Tail(q))
      <3>1. PICK i \in 1..Len(q) : x = q[i]
        BY <1>1 DEF ToSet
      <3>2. CASE i = 1
        BY <1>1, <3>1, <3>2
      <3>3. CASE i # 1
        <4>1. i - 1 \in 1..(Len(q) - 1) /\ Tail(q)[i - 1] = q[(i - 1) + 1] /\ (i - 1) + 1 = i
          BY <1>1, <1>2, <3>3
        <4> QED
          BY <1>1, <3>1, <4>1 DEF ToSet
      <3> QED
        BY <3>2, <3>3
    <2>2. \A i \in 1..(Len(q) - 1) : i + 1 \in 1..Len(q)
      BY <1>1
    <2>3. \A x \in ToSet(Tail(q)) : x \in ToSet(q)
      BY <1>1, <2>2 DEF ToSet
    <2>4. Head(q) \in ToSet(q)
      BY <1>1 DEF ToSet
    <2> QED
      BY <2>1, <2>3, <2>4
  <1>4. ASSUME DataOnly(q) PROVE IsData(Head(q)) /\ DataOnly(Tail(q))
    <2>1. \A i \in 1..(Len(q) - 1) : i + 1 \in 1..Len(q)
      BY <1>1
    <2> QED
      BY <1>1, <1>4, <2>1 DEF DataOnly
  <1> QED
    BY <1>1, <1>3, <1>4

\* Nothing is on its way.
LEMMA NothingComes == ToSet(<<>>) = {} /\ DataOnly(<<>>) /\ Len(<<>>) = 0
  BY DEF ToSet, DataOnly

\* What no operation takes back.
Grows(c, d) ==
  /\ c.fin \subseteq d.fin /\ c.closed \subseteq d.closed /\ d.closed \ c.closed \subseteq d.fin
  /\ c.open => d.open
  /\ c.lost => d.lost

\* No operation opens again what is closed or finds again what is lost.
LEMMA OpsGrow ==
  ASSUME NEW c, IsConn(c), NEW s \in Sides, NEW m
  PROVE  /\ Grows(c, c) /\ Grows(c, Put(c, s, m)) /\ Grows(c, Take(c, s))
         /\ Grows(c, CloseWrite(c, s)) /\ Grows(c, CloseSide(c, s)) /\ Grows(c, Lose(c))
  <1>1. Grows(c, c)
    BY DEF Grows
  <1>2. Grows(c, Put(c, s, m)) /\ Grows(c, Take(c, s))
    <2>1. SameEnds(c, Put(c, s, m)) /\ SameEnds(c, Take(c, s))
      BY PutDoes, TakeDoes
    <2> QED
      BY <2>1 DEF Grows, SameEnds
  <1>3. Grows(c, CloseWrite(c, s)) /\ Grows(c, CloseSide(c, s))
    BY CloseDoes DEF Grows
  <1>4. Grows(c, Lose(c))
    BY LoseDoes DEF Grows
  <1> QED
    BY <1>1, <1>2, <1>3, <1>4

\* The same, for those that say nothing.
LEMMA EndsGrow ==
  ASSUME NEW c, IsConn(c), NEW s \in Sides
  PROVE  /\ Grows(c, Take(c, s)) /\ Grows(c, CloseWrite(c, s)) /\ Grows(c, CloseSide(c, s)) /\ Grows(c, Lose(c))
         /\ CloseSide(c, s).fin = c.fin \union {s}
  <1> DEFINE m == "none"
  <1>1. Grows(c, Take(c, s)) /\ Grows(c, CloseWrite(c, s)) /\ Grows(c, CloseSide(c, s)) /\ Grows(c, Lose(c))
    <2>1. Grows(c, Put(c, s, m)) /\ Grows(c, Take(c, s)) /\ Grows(c, CloseWrite(c, s)) /\ Grows(c, CloseSide(c, s)) /\ Grows(c, Lose(c))
      BY OpsGrow
    <2> QED
      BY <2>1
  <1> QED
    BY <1>1, CloseDoes

\* Nor do several, one after the other.
LEMMA GrowsOn ==
  ASSUME NEW c, NEW d, NEW e, Grows(c, d), Grows(d, e)
  PROVE  Grows(c, e)
  BY DEF Grows

\* A handler reads a message and answers it.
LEMMA AnsweredDoes ==
  ASSUME NEW c, IsConn(c), NEW m
  PROVE  LET d == Put(Take(c, "r"), "r", m) IN
         /\ IsConn(d) /\ SameEnds(c, d) /\ Grows(c, d) /\ Grows(c, CloseSide(d, "r"))
         /\ d.sent["l"] = Tail(c.sent["l"])
         /\ d.sent["r"] = IF Broken(c, "r") THEN c.sent["r"] ELSE Append(c.sent["r"], m)
  <1> DEFINE t == Take(c, "r")
             d == Put(t, "r", m)
  <1>1. "r" \in Sides /\ Peer("r") = "l"
    BY DEF Sides, Peer
  <1>2. IsConn(t) /\ SameEnds(c, t) /\ t.sent["l"] = Tail(c.sent["l"]) /\ t.sent["r"] = c.sent["r"] /\ Grows(c, t)
    BY <1>1, TakeDoes, OpsGrow
  <1> HIDE DEF t
  <1>3. /\ IsConn(d) /\ SameEnds(t, d) /\ d.sent["l"] = t.sent["l"] /\ Grows(t, d)
        /\ d.sent["r"] = IF Broken(t, "r") THEN t.sent["r"] ELSE Append(t.sent["r"], m)
    BY <1>1, <1>2, PutDoes, OpsGrow
  <1> HIDE DEF d
  <1>4. Grows(d, CloseSide(d, "r"))
    BY <1>1, <1>3, OpsGrow
  <1>5. Broken(t, "r") = Broken(c, "r")
    <2>1. t.lost = c.lost /\ t.closed = c.closed
      BY <1>2 DEF SameEnds
    <2> QED
      BY <2>1, Zenon DEF Broken
  <1>6. Grows(c, d) /\ Grows(c, CloseSide(d, "r"))
    BY <1>2, <1>3, <1>4, GrowsOn
  <1>7. SameEnds(c, d)
    BY <1>2, <1>3 DEF SameEnds
  <1> QED
    BY <1>2, <1>3, <1>5, <1>6, <1>7 DEF t, d

\* One connection changes, or two.
LEMMA LinkSet ==
  ASSUME RelayInv, NEW c \in Conns, NEW d, link' = [link EXCEPT ![c] = d]
  PROVE  link'[c] = d /\ \A k \in Conns : k # c => link'[k] = link[k]
  BY DEF RelayInv, LinksOK

\* How the connections change in a step.
AllGrow == \A c \in Conns : Grows(link[c], link'[c]) \/ (c = "out" /\ link'[c] = Opened)

\* A step that changes one connection takes nothing back.
LEMMA OneGrows ==
  ASSUME RelayInv, NEW c \in Conns, NEW d, link' = [link EXCEPT ![c] = d], Grows(link[c], d)
  PROVE  AllGrow
  <1>1. link'[c] = d /\ \A k \in Conns : k # c => link'[k] = link[k]
    BY LinkSet
  <1>2. \A k \in Conns : Grows(link[k], link[k])
    BY DEF Grows
  <1> QED
    BY <1>1, <1>2 DEF AllGrow

\* Nor does a step that changes two.
LEMMA TwoGrow ==
  ASSUME RelayInv, NEW c \in Conns, NEW d, NEW k \in Conns \ {c}, NEW e, link' = [link EXCEPT ![c] = d, ![k] = e],
         Grows(link[c], d), Grows(link[k], e)
  PROVE  AllGrow
  <1>1. link'[c] = d /\ link'[k] = e /\ \A j \in Conns \ {c, k} : link'[j] = link[j]
    BY DEF RelayInv, LinksOK
  <1>2. \A j \in Conns : Grows(link[j], link[j])
    BY DEF Grows
  <1> QED
    BY <1>1, <1>2 DEF AllGrow

\* Nor one that changes none.
LEMMA NoneGrows ==
  ASSUME link' = link
  PROVE  AllGrow
  BY DEF AllGrow, Grows

-----------------------------------------------------------------------------
(* What a step that does not concern a part leaves true.                   *)

RelayMoves ==
  \/ stage'["relay"] = stage["relay"]
  \/ stage'["relay"] = "done"
  \/ stage["relay"] \in Active \union {"idle"} /\ stage'["relay"] \in Active \ {"answer"}

\* What the relay has said is what became of its dialing, if it says nothing new.
LEMMA OutcomeKept ==
  ASSUME Outcome, path' = path, AllGrow, RelayMoves, seen'.reply = seen.reply,
         stage'["relay"] \in Active =>
           \/ "r" \notin link'["mid"].fin
           \/ stage["relay"] \in Active /\ link'["mid"].fin \subseteq link["mid"].fin \union {"l"},
         late' \subseteq late \/ path.slow \/ link["mid"].lost,
         DataOnly(link'["out"].sent["r"]), DataOnly(left'.dest)
  PROVE  Outcome'
  <1>1. /\ seen'.reply \in {"none", "succeeded", "hostunreachable", "notallowed"}
        /\ stage'["relay"] \notin {"copy", "done"} => seen'.reply = "none"
        /\ stage'["relay"] = "copy" => seen'.reply = "succeeded"
    BY DEF Outcome, RelayMoves, Active
  <1>2. link["out"].open => link'["out"].open
    BY NewDoes DEF AllGrow, Grows, Conns
  <1>3. stage'["relay"] = "answer" => stage["relay"] = "answer"
    BY DEF RelayMoves
  <1>4. stage'["relay"] \in Active => "r" \notin link'["mid"].fin
    BY DEF Outcome
  <1>5. \A c \in Conns : link'[c].closed \subseteq link'[c].fin
    BY NewDoes DEF Outcome, AllGrow, Grows
  <1>6. late' # {} => path.slow \/ link'["mid"].lost
    BY DEF Outcome, AllGrow, Grows, Conns
  <1> QED
    BY <1>1, <1>2, <1>3, <1>4, <1>5, <1>6 DEF Outcome, DataOnly, IsData

\* The application's connection and the handler that answers it.
LEMMA TruthKept ==
  ASSUME OneTruth, path' = path, got'.app = got.app, AllGrow,
         path.at \in {"in", "mid"},
         Coming' = Coming \/ (Coming' = <<>> /\ link'[path.at].lost),
         \/ stage'[Own] = stage[Own]
         \/ stage'[Own] = "done"
         \/ stage[Own] \notin {"copy", "done"} /\ stage'[Own] \notin {"copy", "done"},
         \/ stage[Own] \notin {"copy", "done"}
         \/ /\ seen'.state = seen.state
            /\ \/ seen'.reply = seen.reply
               \/ seen.reply = "none" /\ (path.cut \/ path.slow \/ seen'.reply = "succeeded")
  PROVE  OneTruth'
  <1>1. Own' = Own
    BY DEF Own
  <1>2. Heading' \subseteq Heading
    BY NothingComes DEF Heading
  <1>3. link["out"].open => link'["out"].open
    BY NewDoes DEF AllGrow, Grows, Conns
  <1>4. Broken(link[path.at], "r") => Broken(link[path.at], "r")'
    BY DEF AllGrow, Grows, Conns, Broken, Peer
  <1>5. stage'[Own] \notin {"copy", "done"} => \A m \in Heading' : ~IsReply(m) /\ ~IsData(m)
    BY <1>2 DEF OneTruth
  <1>6. \A m \in Heading' : IsReply(m) => ReplyTrue(m[2])'
    <2>1. CASE stage[Own] \notin {"copy", "done"}
      BY <1>2, <2>1 DEF OneTruth
    <2>2. CASE stage[Own] \in {"copy", "done"}
      <3>1. ASSUME NEW c, ReplyTrue(c) PROVE ReplyTrue(c)'
        BY <1>3, <2>2, <3>1 DEF ReplyTrue
      <3> QED
        BY <1>2, <3>1 DEF OneTruth
    <2> QED
      BY <2>1, <2>2
  <1>7. \A m, n \in Heading' : IsReply(m) /\ IsReply(n) => m = n
    BY <1>2 DEF OneTruth
  <1>8. stage'[Own] = "copy" => Succeeded \in Heading' \/ Broken(link[path.at], "r")'
    <2>1. CASE Coming' = Coming
      BY <1>4, <2>1 DEF OneTruth, Heading
    <2>2. CASE link'[path.at].lost
      BY <2>2 DEF Broken
    <2> QED
      BY <2>1, <2>2
  <1>9. \A i \in DOMAIN Coming' : IsData(Coming'[i]) => Succeeded \in ToSet(got'.app) \/ \E j \in 1..i - 1 : Coming'[j] = Succeeded
    <2>1. DOMAIN <<>> = {}
      OBVIOUS
    <2> QED
      BY <2>1 DEF OneTruth
  <1> QED
    BY <1>1, <1>5, <1>6, <1>7, <1>8, <1>9 DEF OneTruth, IsReply, IsData, Succeeded

\* The handler says something before its answer, or answers.
LEMMA TruthTold ==
  ASSUME OneTruth, path' = path, got' = got, path.at \in {"in", "mid"}, Coming \in Seq(Msg),
         stage[Own] \notin {"copy", "done"}, NEW m,
         Coming' = Coming \/ Coming' = Append(Coming, m),
         \/ ~IsReply(m) /\ ~IsData(m)
         \/ stage'[Own] \in {"copy", "done"} /\ IsReply(m) /\ ~IsData(m) /\ ReplyTrue(m[2])',
         stage'[Own] = "copy" => (m = Succeeded /\ Coming' = Append(Coming, m)) \/ Broken(link[path.at], "r")'
  PROVE  OneTruth'
  <1>1. Own' = Own
    BY DEF Own
  <1>2. /\ Heading' \subseteq Heading \union {m}
        /\ Coming' = Append(Coming, m) => m \in Heading'
    <2>1. ToSet(Append(Coming, m)) = ToSet(Coming) \union {m}
      BY SetAppend
    <2> QED
      BY <2>1 DEF Heading
  <1>3. \A x \in Heading : ~IsReply(x) /\ ~IsData(x)
    BY DEF OneTruth
  <1>4. \A i \in DOMAIN Coming' : ~IsData(Coming'[i])
    <2>1. ASSUME NEW i \in DOMAIN Coming' PROVE Coming'[i] \in ToSet(Coming')
      BY DEF ToSet
    <2>2. ToSet(Coming') \subseteq Heading'
      BY DEF Heading
    <2> QED
      BY <1>2, <1>3, <2>1, <2>2
  <1>5. stage'[Own] \notin {"copy", "done"} => \A x \in Heading' : ~IsReply(x) /\ ~IsData(x)
    BY <1>2, <1>3
  <1>6. \A x \in Heading' : IsReply(x) => ReplyTrue(x[2])'
    BY <1>2, <1>3
  <1>7. \A x, y \in Heading' : IsReply(x) /\ IsReply(y) => x = y
    BY <1>2, <1>3
  <1>8. stage'[Own] = "copy" => Succeeded \in Heading' \/ Broken(link[path.at], "r")'
    BY <1>2
  <1>9. ~\E x \in ToSet(got'.app) : IsData(x)
    BY <1>3 DEF Heading
  <1> QED
    BY <1>1, <1>4, <1>5, <1>6, <1>7, <1>8, <1>9 DEF OneTruth, IsReply, IsData, Succeeded

-----------------------------------------------------------------------------

\* Between the daemon and the relay nothing changes, or the daemon has not yet
\* begun, or its request is over.
LEMMA LockstepKept ==
  ASSUME RelayInv, Lockstep, path' = path,
         path.at = "in" =>
           /\ link'["mid"] = link["mid"] /\ stage'["relay"] = stage["relay"] /\ seen'.reply = seen.reply
           /\ \/ stage'["daemon"] = stage["daemon"]
              \/ stage["daemon"] \in BeforeDial /\ stage'["daemon"] \in BeforeDial \union {"done"}
              \/ stage["daemon"] = "answer" /\ stage'["daemon"] \in {"copy", "done"}
  PROVE  Lockstep'
  <1> SUFFICES ASSUME path.at = "in" PROVE Lockstep'
    BY DEF Lockstep
  <1>1. CASE stage'["daemon"] = stage["daemon"]
    BY <1>1 DEF Lockstep, AtMethod, AtAuth, AtReply, AfterReply, Upward, Downward, DataOnly, IsData
  <1>2. CASE stage["daemon"] \in BeforeDial /\ stage'["daemon"] \in BeforeDial \union {"done"}
    <2>1. stage'["relay"] = "idle"
      BY <1>2 DEF RelayInv, Control, DaemonAfter
    <2> QED
      BY <1>2, <2>1 DEF Lockstep, AtMethod, AtAuth, AtReply, AfterReply, BeforeDial, AsClient, Active
  <1>3. CASE stage["daemon"] = "answer" /\ stage'["daemon"] \in {"copy", "done"}
    <2>1. stage'["relay"] \notin Active
      BY <1>3 DEF RelayInv, Control, DaemonAfter, Unanswered, Active
    <2> QED
      BY <1>3, <2>1 DEF Lockstep, AtMethod, AtAuth, AtReply, AfterReply, BeforeDial, AsClient, Downward, DataOnly, IsData
  <1> QED
    BY <1>1, <1>2, <1>3

\* The daemon is done with the relay, or copies.
LEMMA LockstepLater ==
  ASSUME path' = path,
         path.at = "in" =>
           /\ stage'["daemon"] \in {"answer", "copy", "done"}
           /\ stage'["relay"] \notin Active \/ path.cut
           /\ stage'["daemon"] \in {"answer", "copy"} => seen'.reply = "succeeded" /\ DataOnly(Downward')
  PROVE  Lockstep'
  BY DEF Lockstep, AtMethod, AtAuth, AtReply, AfterReply, BeforeDial, AsClient, Downward, DataOnly, IsData

\* The application speaks to the relay itself.
LEMMA LockstepAway ==
  ASSUME path' = path, path.at # "in"
  PROVE  Lockstep'
  BY DEF Lockstep

\* The relay, which has not answered, does something.
LEMMA LockstepActs ==
  ASSUME RelayInv, Lockstep, path' = path, path.at = "in", stage'["daemon"] = stage["daemon"], stage["relay"] \in Active,
         link'["mid"].lost = link["mid"].lost, link'["mid"].fin \subseteq link["mid"].fin \union {"r"},
         stage["daemon"] \in {"cmethod", "cauth"} => seen'.reply = seen.reply,
         AtMethod', AtAuth', AtReply'
  PROVE  Lockstep'
  <1>1. stage["daemon"] \notin BeforeDial
    BY DEF RelayInv, Control, DaemonAfter, Active
  <1>2. stage["daemon"] \notin {"answer", "copy"}
    BY DEF RelayInv, Control, DaemonAfter, Active, Unanswered
  <1>3. stage'["relay"] \in Active /\ ~path.cut => stage'["daemon"] \in AsClient /\ ~link'["mid"].lost
    BY DEF Lockstep
  <1>4. stage'["daemon"] \in AsClient => "l" \notin link'["mid"].fin
    BY DEF Lockstep
  <1>5. stage'["daemon"] \in {"cmethod", "cauth"} => seen'.reply = "none"
    BY DEF Lockstep
  <1> QED
    BY <1>1, <1>2, <1>3, <1>4, <1>5 DEF Lockstep, AfterReply

\* Who answers the application.
LEMMA WhoAnswers ==
  ASSUME RelayInv
  PROVE  /\ path.at \in {"in", "mid"} /\ path.at \in Conns /\ Accepted(Own) = path.at /\ Own \in Handlers
         /\ Coming \in Seq(Msg)
         /\ \A h \in Handlers : stage[h] # "idle" /\ h # Own => h = "relay" /\ path.at = "in" /\ Own = "daemon"
         /\ stage \in [Handlers -> Stages]
  <1>1. path.at \in {"in", "mid"} /\ path.at \in Conns
    BY EndTypes
  <1>2. Coming \in Seq(Msg)
    BY <1>1, LinkIsConn DEF Coming
  <1> QED
    BY <1>1, <1>2 DEF Own, Accepted, Handlers, RelayInv, Control, DaemonAfter, PathTypes

-----------------------------------------------------------------------------
(* A server's side of the handshake, in the daemon and in the relay.       *)

TakesOne(h, pc) == link' = [link EXCEPT ![Accepted(h)] = Take(@, "r")] /\ Move(h, pc)

\* One handler moves, the other stays where it is.
LEMMA MoveDoes ==
  ASSUME RelayInv, NEW h \in Handlers, NEW pc, Move(h, pc)
  PROVE  stage'[h] = pc /\ \A g \in Handlers : g # h => stage'[g] = stage[g]
  BY DEF Move, RelayInv, Control, PathTypes

\* A server closes without a word.
LEMMA DropDoes ==
  ASSUME RelayInv, NEW h \in Handlers, Drop(h)
  PROVE  LET c == Accepted(h) IN
         /\ AllGrow /\ \A k \in Conns : k # c => link'[k] = link[k]
         /\ link'[c].sent = link[c].sent /\ link'[c].lost = link[c].lost /\ link'[c].fin \subseteq link[c].fin \union {"r"}
         /\ stage'[h] = "done" /\ \A g \in Handlers : g # h => stage'[g] = stage[g]
  <1> DEFINE c == Accepted(h)
  <1>1. c \in Conns /\ "r" \in Sides
    BY DEF Accepted, Conns, Sides
  <1> HIDE DEF c
  <1>2. link' = [link EXCEPT ![c] = CloseSide(link[c], "r")] /\ Move(h, "done")
    BY <1>1 DEF Drop, c, RelayInv, LinksOK
  <1>3. IsConn(link[c])
    BY <1>1, LinkIsConn
  <1>4. AllGrow
    BY <1>1, <1>2, <1>3, OpsGrow, OneGrows
  <1>5. link'[c] = CloseSide(link[c], "r") /\ \A k \in Conns : k # c => link'[k] = link[k]
    BY <1>1, <1>2, LinkSet
  <1>6. /\ CloseSide(link[c], "r").sent = link[c].sent /\ CloseSide(link[c], "r").lost = link[c].lost
        /\ CloseSide(link[c], "r").fin = link[c].fin \union {"r"}
    BY <1>1, <1>3, CloseDoes
  <1> QED
    BY <1>2, <1>4, <1>5, <1>6, MoveDoes DEF c

\* It answers, and closes or goes on.
LEMMA SpeakDoes ==
  ASSUME RelayInv, NEW h \in Handlers, NEW m, NEW pc, (HangUp(h, m) /\ pc = "done") \/ GoOn(h, m, pc)
  PROVE  LET c == Accepted(h) IN
         /\ AllGrow /\ \A k \in Conns : k # c => link'[k] = link[k]
         /\ link'[c].sent["l"] = Tail(link[c].sent["l"])
         /\ link'[c].sent["r"] = IF Broken(link[c], "r") THEN link[c].sent["r"] ELSE Append(link[c].sent["r"], m)
         /\ link'[c].lost = link[c].lost /\ link'[c].fin \subseteq link[c].fin \union {"r"}
         /\ pc # "done" => link'[c].fin = link[c].fin
         /\ stage'[h] = pc /\ \A g \in Handlers : g # h => stage'[g] = stage[g]
  <1> DEFINE c == Accepted(h)
             d == Put(Take(link[c], "r"), "r", m)
             e == CloseSide(d, "r")
  <1>1. c \in Conns /\ "r" \in Sides
    BY DEF Accepted, Conns, Sides
  <1>2. Move(h, pc) /\ ((link' = [link EXCEPT ![c] = e] /\ pc = "done") \/ link' = [link EXCEPT ![c] = d])
    BY <1>1 DEF HangUp, GoOn, Answered, RelayInv, LinksOK
  <1> HIDE DEF c
  <1>3. IsConn(link[c])
    BY <1>1, LinkIsConn
  <1>4. /\ IsConn(d) /\ SameEnds(link[c], d) /\ Grows(link[c], d) /\ Grows(link[c], e)
        /\ d.sent["l"] = Tail(link[c].sent["l"])
        /\ d.sent["r"] = IF Broken(link[c], "r") THEN link[c].sent["r"] ELSE Append(link[c].sent["r"], m)
    BY <1>3, AnsweredDoes
  <1> HIDE DEF d
  <1>5. e.sent = d.sent /\ e.lost = d.lost /\ e.fin = d.fin \union {"r"}
    BY <1>1, <1>4, CloseDoes
  <1> HIDE DEF e
  <1>6. AllGrow
    BY <1>1, <1>2, <1>4, OneGrows
  <1>7. ((link'[c] = e /\ pc = "done") \/ link'[c] = d) /\ \A k \in Conns : k # c => link'[k] = link[k]
    BY <1>1, <1>2, LinkSet
  <1> QED
    BY <1>2, <1>4, <1>5, <1>6, <1>7, MoveDoes DEF c, SameEnds

\* It reads a request and says nothing yet.
LEMMA TakeOneDoes ==
  ASSUME RelayInv, NEW h \in Handlers, NEW pc, TakesOne(h, pc)
  PROVE  LET c == Accepted(h) IN
         /\ AllGrow /\ \A k \in Conns : k # c => link'[k] = link[k]
         /\ link'[c].sent["l"] = Tail(link[c].sent["l"])
         /\ link'[c].sent["r"] = link[c].sent["r"]
         /\ link'[c].lost = link[c].lost /\ link'[c].fin = link[c].fin
         /\ stage'[h] = pc /\ \A g \in Handlers : g # h => stage'[g] = stage[g]
  <1> DEFINE c == Accepted(h)
             d == Take(link[c], "r")
  <1>1. c \in Conns /\ "r" \in Sides /\ Peer("r") = "l"
    BY DEF Accepted, Conns, Sides, Peer
  <1>2. Move(h, pc) /\ link' = [link EXCEPT ![c] = d]
    BY <1>1 DEF TakesOne, RelayInv, LinksOK
  <1> HIDE DEF c
  <1>3. IsConn(link[c])
    BY <1>1, LinkIsConn
  <1>4. SameEnds(link[c], d) /\ d.sent["l"] = Tail(link[c].sent["l"]) /\ d.sent["r"] = link[c].sent["r"] /\ Grows(link[c], d)
    BY <1>1, <1>3, TakeDoes, OpsGrow
  <1> HIDE DEF d
  <1>5. AllGrow
    BY <1>1, <1>2, <1>4, OneGrows
  <1>6. link'[c] = d /\ \A k \in Conns : k # c => link'[k] = link[k]
    BY <1>1, <1>2, LinkSet
  <1> QED
    BY <1>2, <1>4, <1>5, <1>6, MoveDoes DEF c, SameEnds

ServerActs(h) == AcceptConn(h) \/ ReadMethods(h) \/ ReadAuth(h) \/ ReadRequest(h) \/ RequestFails(h)
Want(h) == IF Creds(h) THEN "userpass" ELSE "noauth"

\* The step is one of these.
ServerCases(h) ==
  \/ Drop(h)
  \/ stage[h] = "accept" /\ Move(h, "method") /\ link' = link
  \/ /\ Readable(link[Accepted(h)], "r")
     /\ \/ /\ stage[h] = "method" /\ Heard(h)[1] = "methods" /\ Heard(h)[2] \notin {Want(h), "both"}
           /\ HangUp(h, <<"method", "none">>)
        \/ stage[h] = "method" /\ GoOn(h, <<"method", Want(h)>>, IF Creds(h) THEN "auth" ELSE "request")
        \/ stage[h] = "auth" /\ HangUp(h, <<"authreply", "fail">>)
        \/ stage[h] = "auth" /\ GoOn(h, <<"authreply", "ok">>, "request")
        \/ stage[h] = "request" /\ Heard(h) = <<"request", "atyp">> /\ HangUp(h, <<"reply", "atyp">>)
        \/ /\ stage[h] = "request" /\ Heard(h)[1] = "request" /\ Heard(h)[2] \notin Cmds(h)
           /\ HangUp(h, <<"reply", "cmd">>)
        \/ stage[h] = "request" /\ Heard(h) = <<"request", "nohost">> /\ HangUp(h, <<"reply", "general">>)
        \/ stage[h] = "request" /\ TakesOne(h, IF h = "daemon" THEN "route" ELSE "resolve")

\* Every step of a server's handshake is one of these.
LEMMA ServerIsOne ==
  ASSUME RelayInv, NEW h \in Handlers, ServerActs(h)
  PROVE  /\ UNCHANGED <<path, late, copying, left, got>> /\ seen'.state = seen.state /\ seen'.reply = seen.reply
         /\ stage[h] \in {"accept", "method", "auth", "request"}
         /\ ServerCases(h)
  <1> USE DEF ServerCases
  <1>1. CASE AcceptConn(h)
    BY <1>1 DEF AcceptConn
  <1>2. CASE ReadMethods(h)
    <2>1. /\ UNCHANGED <<path, late, copying, left, got, seen>>
          /\ stage[h] = "method" /\ Readable(link[Accepted(h)], "r")
      BY <1>2 DEF ReadMethods, Hear
    <2>2. \/ Drop(h)
          \/ Heard(h)[1] = "methods" /\ Heard(h)[2] \notin {Want(h), "both"} /\ HangUp(h, <<"method", "none">>)
          \/ GoOn(h, <<"method", Want(h)>>, IF Creds(h) THEN "auth" ELSE "request")
      BY <1>2 DEF ReadMethods, Want
    <2> QED
      BY <2>1, <2>2
  <1>3. CASE ReadAuth(h)
    <2>1. /\ UNCHANGED <<path, late, copying, left, got>> /\ (UNCHANGED seen \/ seen' = [seen EXCEPT !.auth = TRUE])
          /\ stage[h] = "auth" /\ Readable(link[Accepted(h)], "r")
      BY <1>3 DEF ReadAuth, Hear
    <2>2. seen'.state = seen.state /\ seen'.reply = seen.reply
      BY <2>1 DEF RelayInv, Control, PathTypes
    <2>3. Drop(h) \/ HangUp(h, <<"authreply", "fail">>) \/ GoOn(h, <<"authreply", "ok">>, "request")
      BY <1>3 DEF ReadAuth
    <2> QED
      BY <2>1, <2>2, <2>3
  <1>4. CASE ReadRequest(h)
    <2>1. /\ UNCHANGED <<path, late, copying, left, got, seen>>
          /\ stage[h] = "request" /\ Readable(link[Accepted(h)], "r")
      BY <1>4 DEF ReadRequest, Hear
    <2>2. \/ Drop(h)
          \/ Heard(h) = <<"request", "atyp">> /\ HangUp(h, <<"reply", "atyp">>)
          \/ Heard(h)[1] = "request" /\ Heard(h)[2] \notin Cmds(h) /\ HangUp(h, <<"reply", "cmd">>)
          \/ Heard(h) = <<"request", "nohost">> /\ HangUp(h, <<"reply", "general">>)
          \/ TakesOne(h, IF h = "daemon" THEN "route" ELSE "resolve")
      BY <1>4 DEF ReadRequest, TakesOne
    <2> QED
      BY <2>1, <2>2
  <1>5. CASE RequestFails(h)
    BY <1>5 DEF RequestFails
  <1> QED
    BY <1>1, <1>2, <1>3, <1>4, <1>5 DEF ServerActs

\* A refusal a server makes by itself.
Refusal(h, m) ==
  \/ m \in {<<"reply", "atyp">>, <<"reply", "cmd">>}
  \/ m = <<"reply", "general">> /\ Readable(link[Accepted(h)], "r") /\ Heard(h) = <<"request", "nohost">>

\* What such a step does, whichever it is: the handler goes to pc and may have
\* said m.
Acts(h, m, pc) ==
  LET c == Accepted(h) IN
  /\ AllGrow /\ \A k \in Conns : k # c => link'[k] = link[k]
  /\ link'[c].lost = link[c].lost /\ link'[c].fin \subseteq link[c].fin \union {"r"}
  /\ pc # "done" => link'[c].fin = link[c].fin
  /\ stage'[h] = pc /\ \A g \in Handlers : g # h => stage'[g] = stage[g]
  /\ link'[c].sent["r"] = link[c].sent["r"] \/ link'[c].sent["r"] = Append(link[c].sent["r"], m)
Fits(h, m, pc) ==
  /\ pc \in {"method", "auth", "request", "done"} \union {IF h = "daemon" THEN "route" ELSE "resolve"}
  /\ (~IsReply(m) /\ ~IsData(m)) \/ (pc = "done" /\ Refusal(h, m))

\* An answer is such a step.
LEMMA SpeakActs ==
  ASSUME RelayInv, NEW h \in Handlers, NEW m, NEW pc, (HangUp(h, m) /\ pc = "done") \/ GoOn(h, m, pc)
  PROVE  Acts(h, m, pc)
  <1> DEFINE c == Accepted(h)
  <1>1. /\ AllGrow /\ \A k \in Conns : k # c => link'[k] = link[k]
        /\ link'[c].sent["r"] = IF Broken(link[c], "r") THEN link[c].sent["r"] ELSE Append(link[c].sent["r"], m)
        /\ link'[c].lost = link[c].lost /\ link'[c].fin \subseteq link[c].fin \union {"r"}
        /\ pc # "done" => link'[c].fin = link[c].fin
        /\ stage'[h] = pc /\ \A g \in Handlers : g # h => stage'[g] = stage[g]
    BY SpeakDoes
  <1> HIDE DEF c
  <1> QED
    BY <1>1 DEF Acts, c

\* So is every step of the handshake.
LEMMA ServerDoes ==
  ASSUME RelayInv, NEW h \in Handlers, ServerActs(h)
  PROVE  \E m, pc : Acts(h, m, pc) /\ Fits(h, m, pc)
  <1>1. ServerCases(h) /\ stage[h] \in {"accept", "method", "auth", "request"}
    BY ServerIsOne
  <1> DEFINE calm == <<"method", "none">>
             Mild1(m) == ~IsReply(m) /\ ~IsData(m)
  <1>2. Mild1(calm) /\ Mild1(<<"method", Want(h)>>) /\ Mild1(<<"authreply", "fail">>) /\ Mild1(<<"authreply", "ok">>)
    BY DEF IsReply, IsData
  <1>3. CASE Drop(h)
    <2>1. Acts(h, calm, "done")
      <3> DEFINE c == Accepted(h)
      <3>1. /\ AllGrow /\ \A k \in Conns : k # c => link'[k] = link[k]
            /\ link'[c].sent = link[c].sent /\ link'[c].lost = link[c].lost /\ link'[c].fin \subseteq link[c].fin \union {"r"}
            /\ stage'[h] = "done" /\ \A g \in Handlers : g # h => stage'[g] = stage[g]
        BY <1>3, DropDoes
      <3> HIDE DEF c
      <3> QED
        BY <3>1 DEF Acts, c
    <2> HIDE DEF calm
    <2>2. Fits(h, calm, "done")
      BY <1>2 DEF Fits
    <2> QED
      BY <2>1, <2>2
  <1>4. CASE stage[h] = "accept" /\ Move(h, "method") /\ link' = link
    <2>1. Acts(h, calm, "method")
      BY <1>4, NoneGrows, MoveDoes DEF Acts
    <2>2. Fits(h, calm, "method")
      BY <1>2 DEF Fits
    <2> HIDE DEF calm
    <2> QED
      BY <2>1, <2>2
  <1>5. CASE GoOn(h, <<"method", Want(h)>>, IF Creds(h) THEN "auth" ELSE "request")
    <2> DEFINE pc == IF Creds(h) THEN "auth" ELSE "request"
               m == <<"method", Want(h)>>
    <2>1. pc \in {"method", "auth", "request", "done"} /\ Mild1(m) /\ GoOn(h, m, pc)
      BY <1>2, <1>5
    <2> HIDE DEF pc, m
    <2> QED
      BY <2>1, SpeakActs DEF Fits
  <1>6. CASE GoOn(h, <<"authreply", "ok">>, "request")
    <2> DEFINE m == <<"authreply", "ok">>
    <2>1. Mild1(m) /\ GoOn(h, m, "request")
      BY <1>2, <1>6
    <2> HIDE DEF m
    <2> QED
      BY <2>1, SpeakActs DEF Fits
  <1>7. ASSUME NEW m, HangUp(h, m), Mild1(m) \/ Refusal(h, m)
        PROVE  Acts(h, m, "done") /\ Fits(h, m, "done")
    BY <1>7, SpeakActs DEF Fits
  <1> HIDE DEF Mild1
  <1>8. CASE HangUp(h, <<"method", "none">>) \/ HangUp(h, <<"authreply", "fail">>)
    BY <1>2, <1>7, <1>8
  <1>9. CASE HangUp(h, <<"reply", "atyp">>) \/ HangUp(h, <<"reply", "cmd">>)
    <2>1. Refusal(h, <<"reply", "atyp">>) /\ Refusal(h, <<"reply", "cmd">>)
      BY DEF Refusal
    <2> QED
      BY <1>7, <1>9, <2>1
  <1>10. CASE Readable(link[Accepted(h)], "r") /\ Heard(h) = <<"request", "nohost">> /\ HangUp(h, <<"reply", "general">>)
    <2>1. Refusal(h, <<"reply", "general">>)
      BY <1>10 DEF Refusal
    <2> QED
      BY <1>7, <1>10, <2>1
  <1>11. CASE TakesOne(h, IF h = "daemon" THEN "route" ELSE "resolve")
    <2> DEFINE pc == IF h = "daemon" THEN "route" ELSE "resolve"
    <2> HIDE DEF pc
    <2>1. Acts(h, calm, pc)
      <3> DEFINE c == Accepted(h)
      <3>1. /\ AllGrow /\ \A k \in Conns : k # c => link'[k] = link[k]
            /\ link'[c].sent["r"] = link[c].sent["r"]
            /\ link'[c].lost = link[c].lost /\ link'[c].fin = link[c].fin
            /\ stage'[h] = pc /\ \A g \in Handlers : g # h => stage'[g] = stage[g]
        BY <1>11, TakeOneDoes DEF pc
      <3> HIDE DEF c
      <3> QED
        BY <3>1 DEF Acts, c
    <2> HIDE DEF calm
    <2>2. Fits(h, calm, pc)
      BY <1>2 DEF Fits, pc, Mild1
    <2> QED
      BY <2>1, <2>2
  <1> QED
    BY <1>1, <1>3, <1>4, <1>5, <1>6, <1>8, <1>9, <1>10, <1>11 DEF ServerCases

\* The handshake decides nothing about the destination.
LEMMA ServerOutcome ==
  ASSUME AnswersInv, NEW h \in Handlers, ServerActs(h)
  PROVE  Outcome'
  <1>1. PICK m, pc : Acts(h, m, pc) /\ Fits(h, m, pc)
    BY ServerDoes DEF AnswersInv
  <1>2. /\ UNCHANGED <<path, late, left>> /\ seen'.reply = seen.reply
        /\ stage[h] \in {"accept", "method", "auth", "request"}
    BY ServerIsOne DEF AnswersInv
  <1>3. AllGrow /\ link'["out"] = link["out"] /\ (h = "daemon" => link'["mid"] = link["mid"] /\ stage'["relay"] = stage["relay"])
    BY <1>1 DEF Acts, Accepted, Handlers, Conns
  <1>4. h = "relay" => /\ stage["relay"] \in Active /\ stage'["relay"] = pc /\ pc \in (Active \ {"answer"}) \union {"done"}
                       /\ (pc # "done" => link'["mid"].fin = link["mid"].fin)
    BY <1>1, <1>2 DEF Acts, Fits, Accepted, Active
  <1>5. RelayMoves
    BY <1>3, <1>4 DEF RelayMoves, Handlers
  <1>6. stage'["relay"] \in Active =>
          \/ "r" \notin link'["mid"].fin
          \/ stage["relay"] \in Active /\ link'["mid"].fin \subseteq link["mid"].fin \union {"l"}
    BY <1>3, <1>4 DEF Active, Handlers
  <1>7. DataOnly(link'["out"].sent["r"]) /\ DataOnly(left'.dest)
    BY <1>2, <1>3 DEF AnswersInv, Outcome
  <1> QED
    BY <1>2, <1>3, <1>5, <1>6, <1>7, OutcomeKept DEF AnswersInv

\* What has not come from the program has come from the script.
LEMMA ScriptAsks ==
  ASSUME <<"request", "nohost">> \in Msg
  PROVE  <<"request", "nohost">> \in ToSet(path.script)
  BY DEF Msg, Spoken

\* What it tells the application is that its own request is wrong.
LEMMA ServerTruth ==
  ASSUME AnswersInv, NEW h \in Handlers, ServerActs(h)
  PROVE  OneTruth'
  <1>1. PICK m, pc : Acts(h, m, pc) /\ Fits(h, m, pc)
    BY ServerDoes DEF AnswersInv
  <1>2. /\ UNCHANGED <<path, got>> /\ seen'.reply = seen.reply /\ seen'.state = seen.state
        /\ stage[h] \in {"accept", "method", "auth", "request"}
    BY ServerIsOne DEF AnswersInv
  <1>3. /\ path.at \in {"in", "mid"} /\ path.at \in Conns /\ Accepted(Own) = path.at /\ Own \in Handlers
        /\ Coming \in Seq(Msg)
        /\ h # Own => h = "relay" /\ path.at = "in" /\ Own = "daemon"
    BY <1>2, WhoAnswers DEF AnswersInv
  <1>4. CASE h = Own
    <2>1. /\ Coming' = Coming \/ Coming' = Append(Coming, m)
          /\ stage'[Own] = pc
      BY <1>1, <1>2, <1>3, <1>4 DEF Acts, Coming
    <2>2. pc # "copy"
      BY <1>1 DEF Fits
    <2>3. ASSUME Refusal(h, m) PROVE IsReply(m) /\ ~IsData(m) /\ ReplyTrue(m[2])'
      <3>1. m[1] = "reply" /\ m[2] \in {"atyp", "cmd", "general"}
        BY <2>3 DEF Refusal
      <3>2. seen'.reply = "none"
        <4>1. stage["relay"] \notin {"copy", "done"}
          BY <1>2, <1>3, <1>4 DEF AnswersInv, RelayInv, Control, DaemonAfter, BeforeDial, Own
        <4> QED
          BY <1>2, <4>1 DEF AnswersInv, Outcome
      <3>3. m[2] = "general" => <<"request", "nohost">> \in ToSet(path'.script)
        <4>1. SUFFICES ASSUME m[2] = "general" PROVE <<"request", "nohost">> \in Msg
          BY <1>2, ScriptAsks
        <4>2. Readable(link[path.at], "r") /\ FirstOf(link[path.at], "r") = <<"request", "nohost">>
          BY <1>3, <1>4, <2>3, <4>1 DEF Refusal, Heard
        <4>3. link[path.at].sent["l"] \in Seq(Msg)
          BY <1>3, LinkIsConn DEF AnswersInv
        <4> QED
          BY <4>2, <4>3 DEF Readable, FirstOf, Peer
      <3> QED
        BY <3>1, <3>2, <3>3 DEF ReplyTrue, IsReply, IsData
    <2>4. pc = "done" => stage'[Own] \in {"copy", "done"}
      BY <2>1
    <2> QED
      BY <1>1, <1>2, <1>3, <1>4, <2>1, <2>2, <2>3, <2>4, TruthTold DEF AnswersInv, Fits
  <1>5. CASE h # Own
    <2>1. AllGrow /\ Coming' = Coming /\ stage'[Own] = stage[Own]
      BY <1>1, <1>2, <1>3, <1>5 DEF Acts, Coming, Accepted
    <2> QED
      BY <1>2, <1>3, <2>1, TruthKept DEF AnswersInv
  <1> QED
    BY <1>4, <1>5

-----------------------------------------------------------------------------

\* The daemon's requests and the relay's answers are short.
LEMMA ShortTail ==
  ASSUME NEW M, NEW q \in Seq(M), q # <<>>, Len(q) <= 1
  PROVE  Tail(q) = <<>>
  <1>1. Len(q) \in Nat /\ Len(q) # 0 /\ Tail(q) \in Seq(M) /\ Len(Tail(q)) = Len(q) - 1
    OBVIOUS
  <1>2. Len(Tail(q)) = 0
    BY <1>1
  <1> QED
    BY <1>1, <1>2

\* The first message on its way is the only one.
LEMMA FirstAdded ==
  ASSUME NEW m, NEW q, q = <<>> \/ q = Append(<<>>, m)
  PROVE  q \in {<<>>, <<m>>} /\ Len(q) <= 1
  <1>1. Append(<<>>, m) = <<m>>
    OBVIOUS
  <1>2. CASE q = <<>>
    BY <1>2
  <1>3. CASE q = <<m>>
    BY <1>3
  <1> QED
    BY <1>1, <1>2, <1>3

\* The relay ends, with nothing said or with a refusal of the credentials.
LEMMA LockstepRelayEnds ==
  ASSUME RelayInv, Outcome, Lockstep, path' = path, path.at = "in", stage'["daemon"] = stage["daemon"],
         stage["relay"] \in Active, stage'["relay"] = "done", seen'.reply = seen.reply,
         link'["mid"].lost = link["mid"].lost, link'["mid"].fin \subseteq link["mid"].fin \union {"r"},
         Downward' = Downward \/ (stage["daemon"] = "cauth" /\ Downward' = <<<<"authreply", "fail">>>>) \/ stage["daemon"] \notin AsClient
  PROVE  Lockstep'
  <1>1. seen'.reply = "none"
    BY DEF Outcome, Active
  <1>2. AtMethod'
    BY DEF AtMethod, Lockstep, AsClient
  <1>3. AtAuth'
    BY DEF AtAuth, Lockstep, AsClient
  <1>4. AtReply'
    BY <1>1 DEF AtReply, Lockstep, AsClient
  <1> QED
    BY <1>2, <1>3, <1>4, LockstepActs

\* Between the daemon and the relay it goes as both expect: the relay answers
\* what the daemon has said, and refuses nothing but its credentials.
LEMMA ServerLockstep ==
  ASSUME AnswersInv, NEW h \in Handlers, ServerActs(h)
  PROVE  Lockstep'
  <1>1. /\ UNCHANGED <<path, late, left, got>> /\ seen'.reply = seen.reply
        /\ stage[h] \in {"accept", "method", "auth", "request"} /\ ServerCases(h)
    BY ServerIsOne DEF AnswersInv
  <1>2. CASE path.at # "in"
    BY <1>1, <1>2, LockstepAway
  <1>3. CASE path.at = "in" /\ h = "daemon"
    <2>1. PICK m, pc : Acts(h, m, pc) /\ Fits(h, m, pc)
      BY ServerDoes DEF AnswersInv
    <2>2. link'["mid"] = link["mid"] /\ stage'["relay"] = stage["relay"]
      BY <1>3, <2>1 DEF Acts, Accepted, Handlers, Conns
    <2>3. stage["daemon"] \in BeforeDial /\ stage'["daemon"] \in BeforeDial \union {"done"}
      BY <1>1, <1>3, <2>1 DEF Acts, Fits, BeforeDial
    <2> QED
      BY <1>1, <2>2, <2>3, LockstepKept DEF AnswersInv
  <1>4. CASE path.at = "in" /\ h = "relay"
    <2> DEFINE U == Upward
               D == Downward
    <2>1. /\ stage["relay"] \in Active /\ Unanswered /\ Accepted(h) = "mid" /\ "mid" \in Conns
          /\ "daemon" \in Handlers /\ "daemon" # h /\ Want(h) = "userpass" /\ Creds(h)
      BY <1>1, <1>4 DEF Active, Unanswered, Accepted, Conns, Handlers, Want, Creds
    <2>2. RelayInv /\ Lockstep /\ Outcome /\ path' = path /\ path.at = "in" /\ AtMethod /\ AtAuth /\ AtReply /\ seen.reply = "none"
      BY <1>1, <1>4, <2>1 DEF AnswersInv, Lockstep, Outcome, Unanswered
    <2>3. U \in Seq(Msg) /\ D \in Seq(Msg)
      BY <2>1, LinkIsConn DEF AnswersInv, Upward, Downward
    <2>4. CASE Drop(h)
      <3>1. /\ link'["mid"].sent = link["mid"].sent /\ link'["mid"].lost = link["mid"].lost
            /\ link'["mid"].fin \subseteq link["mid"].fin \union {"r"}
            /\ stage'["relay"] = "done" /\ stage'["daemon"] = stage["daemon"]
        BY <1>4, <2>1, <2>2, <2>4, DropDoes
      <3>2. Downward' = Downward
        BY <3>1 DEF Downward
      <3> QED
        BY <1>1, <2>1, <2>2, <3>1, <3>2, LockstepRelayEnds
    <2>5. CASE stage[h] = "accept" /\ Move(h, "method") /\ link' = link
      <3>1. stage'["relay"] = "method" /\ stage'["daemon"] = stage["daemon"] /\ Upward' = Upward /\ Downward' = Downward
        BY <1>4, <2>1, <2>2, <2>5, MoveDoes DEF Upward, Downward
      <3>2. AtMethod' /\ AtAuth' /\ AtReply'
        BY <1>4, <2>2, <2>5, <3>1 DEF AtMethod, AtAuth, AtReply
      <3> QED
        BY <1>1, <2>1, <2>2, <2>5, <3>1, <3>2, LockstepActs
    <2>6. ASSUME Readable(link[Accepted(h)], "r") PROVE U # <<>> /\ Head(U) \in OwnMsgs /\ Heard(h) = Head(U)
      <3>1. FirstOf(link["mid"], "r") \in Honest
        BY <2>1, <2>2, <2>6, Hears
      <3> QED
        BY <1>4, <2>1, <2>6, <3>1 DEF Honest, Heard, FirstOf, Readable, Peer, Upward
    <2>7. ASSUME NEW m, NEW pc, (HangUp(h, m) /\ pc = "done") \/ GoOn(h, m, pc)
          PROVE  /\ Upward' = Tail(U) /\ (Downward' = D \/ Downward' = Append(D, m))
                 /\ link'["mid"].lost = link["mid"].lost /\ link'["mid"].fin \subseteq link["mid"].fin \union {"r"}
                 /\ stage'["relay"] = pc /\ stage'["daemon"] = stage["daemon"]
      <3>1. /\ link'["mid"].sent["l"] = Tail(link["mid"].sent["l"])
            /\ link'["mid"].sent["r"] = IF Broken(link["mid"], "r") THEN link["mid"].sent["r"] ELSE Append(link["mid"].sent["r"], m)
            /\ link'["mid"].lost = link["mid"].lost /\ link'["mid"].fin \subseteq link["mid"].fin \union {"r"}
            /\ stage'[h] = pc /\ \A g \in Handlers : g # h => stage'[g] = stage[g]
        BY <2>1, <2>2, <2>7, SpeakDoes
      <3> QED
        BY <1>4, <2>1, <3>1 DEF Upward, Downward
    <2>8. CASE stage[h] = "method" /\ Readable(link[Accepted(h)], "r") /\ GoOn(h, <<"method", Want(h)>>, "auth")
      <3> DEFINE m == <<"method", "userpass">>
      <3>1. /\ Upward' = Tail(U) /\ (Downward' = D \/ Downward' = Append(D, m))
            /\ link'["mid"].lost = link["mid"].lost /\ link'["mid"].fin \subseteq link["mid"].fin \union {"r"}
            /\ stage'["relay"] = "auth" /\ stage'["daemon"] = stage["daemon"]
        BY <2>1, <2>7, <2>8
      <3> HIDE DEF m
      <3>2. stage["daemon"] = "cmethod" => Upward' = <<>> /\ Downward' \in {<<>>, <<m>>}
        BY <1>4, <2>2, <2>3, <2>6, <2>8, <3>1, ShortTail, FirstAdded DEF AtMethod
      <3>3. AtMethod' /\ AtAuth' /\ AtReply'
        BY <1>4, <2>2, <2>8, <3>1, <3>2 DEF AtMethod, AtAuth, AtReply, m
      <3> QED
        BY <1>1, <2>1, <2>2, <3>1, <3>3, LockstepActs
    <2>9. CASE stage[h] = "auth" /\ Readable(link[Accepted(h)], "r") /\ HangUp(h, <<"authreply", "fail">>)
      <3> DEFINE m == <<"authreply", "fail">>
      <3>1. /\ Upward' = Tail(U) /\ (Downward' = D \/ Downward' = Append(D, m))
            /\ link'["mid"].lost = link["mid"].lost /\ link'["mid"].fin \subseteq link["mid"].fin \union {"r"}
            /\ stage'["relay"] = "done" /\ stage'["daemon"] = stage["daemon"]
        BY <2>1, <2>7, <2>9
      <3> HIDE DEF m
      <3>2. stage["daemon"] \notin {"cmethod", "creply"}
        BY <1>4, <2>2, <2>6, <2>9 DEF AtMethod, AtReply
      <3>3. stage["daemon"] = "cauth" => Downward = <<>>
        BY <1>4, <2>2, <2>9 DEF AtAuth
      <3>4. Downward' = Downward \/ (stage["daemon"] = "cauth" /\ Downward' = <<m>>) \/ stage["daemon"] \notin AsClient
        <4>1. Append(<<>>, m) = <<m>>
          OBVIOUS
        <4> QED
          BY <3>1, <3>2, <3>3, <4>1 DEF AsClient
      <3> QED
        BY <1>1, <2>1, <2>2, <3>1, <3>4, LockstepRelayEnds DEF m
    <2>10. CASE stage[h] = "auth" /\ Readable(link[Accepted(h)], "r") /\ GoOn(h, <<"authreply", "ok">>, "request")
      <3> DEFINE m == <<"authreply", "ok">>
      <3>1. /\ Upward' = Tail(U) /\ (Downward' = D \/ Downward' = Append(D, m))
            /\ link'["mid"].lost = link["mid"].lost /\ link'["mid"].fin \subseteq link["mid"].fin \union {"r"}
            /\ stage'["relay"] = "request" /\ stage'["daemon"] = stage["daemon"]
        BY <2>1, <2>7, <2>10
      <3> HIDE DEF m
      <3>2. stage["daemon"] \notin {"cmethod", "creply"}
        BY <1>4, <2>2, <2>6, <2>10 DEF AtMethod, AtReply
      <3>3. stage["daemon"] = "cauth" => Upward' = <<>> /\ Downward' \in {<<>>, <<m>>}
        BY <1>4, <2>2, <2>3, <2>6, <2>10, <3>1, ShortTail, FirstAdded DEF AtAuth
      <3>4. AtMethod' /\ AtAuth' /\ AtReply'
        BY <3>1, <3>2, <3>3 DEF AtMethod, AtAuth, AtReply, m
      <3> QED
        BY <1>1, <2>1, <2>2, <3>1, <3>4, LockstepActs
    <2>11. CASE stage[h] = "request" /\ Readable(link[Accepted(h)], "r") /\ TakesOne(h, "resolve")
      <3>1. /\ link'["mid"].sent["l"] = Tail(link["mid"].sent["l"])
            /\ link'["mid"].sent["r"] = link["mid"].sent["r"]
            /\ link'["mid"].lost = link["mid"].lost /\ link'["mid"].fin = link["mid"].fin
            /\ stage'[h] = "resolve" /\ \A g \in Handlers : g # h => stage'[g] = stage[g]
        BY <2>1, <2>2, <2>11, TakeOneDoes
      <3>2. Upward' = Tail(U) /\ Downward' = D /\ stage'["relay"] = "resolve" /\ stage'["daemon"] = stage["daemon"]
        BY <1>4, <2>1, <3>1 DEF Upward, Downward
      <3>3. stage["daemon"] \notin {"cmethod", "cauth"}
        BY <1>4, <2>2, <2>6, <2>11 DEF AtMethod, AtAuth
      <3>4. stage["daemon"] = "creply" => Upward' = <<>> /\ Downward' = <<>>
        BY <1>4, <2>1, <2>2, <2>3, <2>6, <2>11, <3>2, ShortTail DEF AtReply
      <3>5. AtMethod' /\ AtAuth' /\ AtReply'
        BY <1>1, <2>2, <3>2, <3>3, <3>4 DEF AtMethod, AtAuth, AtReply
      <3> QED
        BY <1>1, <2>1, <2>2, <3>1, <3>2, <3>5, LockstepActs
    <2>12. ~/\ Readable(link[Accepted(h)], "r")
            /\ \/ Heard(h)[1] = "methods" /\ Heard(h)[2] \notin {Want(h), "both"}
               \/ Heard(h) = <<"request", "atyp">>
               \/ Heard(h)[1] = "request" /\ Heard(h)[2] \notin Cmds(h)
               \/ Heard(h) = <<"request", "nohost">>
      BY <1>4, <2>1, <2>6 DEF OwnMsgs, Cmds
    <2> QED
      BY <1>1, <1>4, <2>1, <2>4, <2>5, <2>8, <2>9, <2>10, <2>11, <2>12 DEF ServerCases
  <1> QED
    BY <1>2, <1>3, <1>4 DEF Handlers

-----------------------------------------------------------------------------
(* The daemon's side: Router.connect and the client's handshake.           *)

\* What the daemon does when Connect has failed.
LEMMA RefuseDoes ==
  ASSUME RelayInv, NEW err, NEW mid, Refuse(err, mid), Grows(link["mid"], mid)
  PROVE  /\ UNCHANGED <<path, late, copying, left, got>>
         /\ stage'["daemon"] = "done" /\ stage'["relay"] = stage["relay"]
         /\ AllGrow /\ link'["mid"] = mid /\ link'["out"] = link["out"]
         /\ \/ link'["in"].sent["r"] = link["in"].sent["r"]
            \/ /\ "daemon" \notin late
               /\ link'["in"].sent["r"] = Append(link["in"].sent["r"], <<"reply", replyCode(err)>>)
  <1> DEFINE m == <<"reply", replyCode(err)>>
             p == IF "daemon" \in late THEN link["in"] ELSE Put(link["in"], "r", m)
             new == CloseSide(p, "r")
  <1>1. /\ UNCHANGED <<path, late, copying, left, got>> /\ Move("daemon", "done")
        /\ "daemon" \in Handlers /\ "relay" \in Handlers /\ "relay" # "daemon"
        /\ "in" \in Conns /\ "mid" \in Conns \ {"in"} /\ "out" \in Conns /\ "in" \in Conns \ {"mid"} /\ "r" \in Sides
    BY DEF Refuse, Handlers, Conns, Sides
  <1>2. link' = [link EXCEPT !["mid"] = mid, !["in"] = new]
    <2>1. link = [j \in Conns |-> link[j]]
      BY DEF RelayInv, LinksOK
    <2> QED
      BY <1>1, <2>1 DEF Refuse, Replied, Accepted
  <1> HIDE DEF m
  <1>3. IsConn(link["in"])
    BY <1>1, LinkIsConn
  <1>4. /\ IsConn(p) /\ Grows(link["in"], p)
        /\ p.sent["r"] = link["in"].sent["r"] \/ ("daemon" \notin late /\ p.sent["r"] = Append(link["in"].sent["r"], m))
    BY <1>1, <1>3, PutDoes, OpsGrow
  <1> HIDE DEF p
  <1>5. new.sent = p.sent /\ Grows(p, new)
    BY <1>1, <1>4, CloseDoes, OpsGrow
  <1>6. Grows(link["in"], new)
    BY <1>4, <1>5, GrowsOn
  <1> HIDE DEF new
  <1>7. AllGrow
    BY <1>1, <1>2, <1>6, TwoGrow
  <1>8. link'["mid"] = mid /\ link'["in"] = new /\ link'["out"] = link["out"]
    BY <1>1, <1>2 DEF RelayInv, LinksOK, Conns
  <1>9. stage'["daemon"] = "done" /\ stage'["relay"] = stage["relay"]
    BY <1>1, MoveDoes
  <1> QED
    BY <1>1, <1>4, <1>5, <1>7, <1>8, <1>9 DEF m

\* Connect has failed: what the application is told is true.
LEMMA DaemonRefuses ==
  ASSUME AnswersInv, NEW err, NEW mid, Refuse(err, mid), Grows(link["mid"], mid),
         mid.fin \subseteq link["mid"].fin \union {"l"},
         stage["daemon"] \in {"route", "dial", "cmethod", "cauth", "creply"},
         stage["relay"] \notin Active \/ path.cut,
         seen'.reply = seen.reply,
         "daemon" \notin late => ReplyTrue(replyCode(err))'
  PROVE  Outcome' /\ Lockstep' /\ OneTruth'
  <1>1. /\ UNCHANGED <<path, late, copying, left, got>>
        /\ stage'["daemon"] = "done" /\ stage'["relay"] = stage["relay"]
        /\ AllGrow /\ link'["mid"] = mid /\ link'["out"] = link["out"]
        /\ \/ link'["in"].sent["r"] = link["in"].sent["r"]
           \/ /\ "daemon" \notin late
              /\ link'["in"].sent["r"] = Append(link["in"].sent["r"], <<"reply", replyCode(err)>>)
    BY RefuseDoes DEF AnswersInv
  <1>2. path.at = "in" /\ Own = "daemon" /\ Coming \in Seq(Msg)
    BY WhoAnswers, PathGiven DEF AnswersInv, RelayInv, Control, PathTypes, DaemonAfter, Own
  <1>3. Outcome'
    <2>1. RelayMoves
      BY <1>1 DEF RelayMoves
    <2>2. DataOnly(link'["out"].sent["r"]) /\ DataOnly(left'.dest)
      BY <1>1 DEF AnswersInv, Outcome
    <2> QED
      BY <1>1, <2>1, <2>2, OutcomeKept DEF AnswersInv
  <1>4. Lockstep'
    BY <1>1, <1>2, LockstepLater
  <1>5. OneTruth'
    <2> DEFINE m == <<"reply", replyCode(err)>>
    <2>1. IsReply(m) /\ ~IsData(m) /\ m[2] = replyCode(err)
      BY DEF IsReply, IsData
    <2>2. Coming' = Coming \/ ("daemon" \notin late /\ Coming' = Append(Coming, m))
      BY <1>1, <1>2 DEF Coming
    <2>3. stage[Own] \notin {"copy", "done"} /\ stage'[Own] = "done"
      BY <1>1, <1>2
    <2> HIDE DEF m
    <2>4. CASE Coming' = Coming
      BY <1>1, <1>2, <2>3, <2>4, TruthKept DEF AnswersInv
    <2>5. CASE "daemon" \notin late /\ Coming' = Append(Coming, m)
      <3>1. ReplyTrue(m[2])'
        BY <2>1, <2>5
      <3> QED
        BY <1>1, <1>2, <2>1, <2>3, <2>5, <3>1, TruthTold DEF AnswersInv
    <2> QED
      BY <2>2, <2>4, <2>5
  <1> QED
    BY <1>3, <1>4, <1>5

\* Where the daemon is when it asks the relay.
LEMMA Asking ==
  ASSUME AnswersInv, stage["daemon"] \in {"route", "dial", "cmethod", "cauth", "creply"}
  PROVE  /\ path.at = "in" /\ Own = "daemon"
         /\ stage["daemon"] \in {"route", "dial"} => stage["relay"] = "idle" /\ link["mid"] = NotOpened /\ seen.reply = "none"
         /\ IsConn(link["mid"]) /\ Upward \in Seq(Msg) /\ Downward \in Seq(Msg)
         /\ seen \in [state : Faults, reply : Said, dialed : Seq(Addrs), auth : BOOLEAN]
  <1>1. path.at = "in"
    BY PathGiven DEF AnswersInv, RelayInv, Control, PathTypes, DaemonAfter
  <1>2. stage["daemon"] \in {"route", "dial"} => stage["relay"] = "idle" /\ link["mid"] = NotOpened /\ seen.reply = "none"
    BY <1>1 DEF AnswersInv, RelayInv, Control, DaemonAfter, BeforeDial, Lockstep, Outcome
  <1>3. IsConn(link["mid"]) /\ Upward \in Seq(Msg) /\ Downward \in Seq(Msg)
    BY LinkIsConn DEF AnswersInv, Upward, Downward, Conns
  <1> QED
    BY <1>1, <1>2, <1>3 DEF Own, AnswersInv, RelayInv, Control, PathTypes

\* Router.connect rejects, or goes on to dial.
LEMMA RouteTruth ==
  ASSUME AnswersInv, Route
  PROVE  Outcome' /\ Lockstep' /\ OneTruth'
  <1>1. stage["daemon"] = "route" /\ path.at = "in" /\ stage["relay"] = "idle" /\ link["mid"] = NotOpened /\ seen.reply = "none" /\ Own = "daemon"
    BY Asking DEF Route
  <1>2. CASE path.route = "reject" /\ Refuse("rejected", NotOpened) /\ UNCHANGED seen
    <2>1. replyCode("rejected") = "notallowed" /\ path' = path
      BY <1>2 DEF replyCode, Said, Refuse
    <2>2. ReplyTrue(replyCode("rejected"))'
      BY <1>1, <1>2, <2>1 DEF ReplyTrue
    <2>3. Grows(link["mid"], NotOpened) /\ NotOpened.fin \subseteq link["mid"].fin \union {"l"}
      BY <1>1 DEF Grows
    <2> QED
      BY <1>1, <1>2, <2>2, <2>3, DaemonRefuses DEF Active
  <1>3. CASE Move("daemon", "dial") /\ UNCHANGED <<path, link, late, copying, left, got, seen>>
    <2>1. stage'["daemon"] = "dial" /\ stage'["relay"] = stage["relay"]
      BY <1>3, MoveDoes DEF AnswersInv, Handlers
    <2>2. AllGrow /\ RelayMoves /\ Coming' = Coming /\ DataOnly(link'["out"].sent["r"]) /\ DataOnly(left'.dest)
      BY <1>3, <2>1, NoneGrows DEF RelayMoves, Coming, AnswersInv, Outcome
    <2>3. Outcome'
      BY <1>1, <1>3, <2>1, <2>2, OutcomeKept DEF AnswersInv, Active
    <2>4. Lockstep'
      BY <1>1, <1>3, <2>1, LockstepKept DEF AnswersInv, BeforeDial
    <2>5. OneTruth'
      BY <1>1, <1>3, <2>1, <2>2, TruthKept DEF AnswersInv
    <2> QED
      BY <2>3, <2>4, <2>5
  <1> QED
    BY <1>2, <1>3 DEF Route

\* The relay cannot be connected to.
LEMMA DialFailsTruth ==
  ASSUME AnswersInv, DialRelayFails
  PROVE  Outcome' /\ Lockstep' /\ OneTruth'
  <1>1. /\ stage["daemon"] = "dial" /\ path.reach \in {"refused", "timeout", "error"}
        /\ seen' = blame(path.reach) /\ Refuse(path.reach, NotOpened)
    BY PathsAssumption DEF DialRelayFails, PathsAssumption, AnswersInv, RelayInv, Control, PathTypes
  <1>2. /\ path.at = "in" /\ stage["relay"] = "idle" /\ link["mid"] = NotOpened /\ seen.reply = "none" /\ path' = path
        /\ seen \in [state : Faults, reply : Said, dialed : Seq(Addrs), auth : BOOLEAN]
    BY <1>1, Asking DEF Refuse
  <1>3. seen'.reply = seen.reply /\ seen'.state = path.reach
    BY <1>1, <1>2 DEF blame
  <1>4. replyCode(path.reach) = CASE path.reach = "refused" -> "connrefused" [] path.reach = "timeout" -> "hostunreachable" [] OTHER -> "general"
    BY <1>1 DEF replyCode, Said
  <1>5. ReplyTrue(replyCode(path.reach))'
    BY <1>1, <1>2, <1>3, <1>4 DEF ReplyTrue
  <1>6. Grows(link["mid"], NotOpened) /\ NotOpened.fin \subseteq link["mid"].fin \union {"l"}
    BY <1>2 DEF Grows
  <1> QED
    BY <1>1, <1>2, <1>3, <1>5, <1>6, DaemonRefuses DEF Active

\* It can, and is asked for its method.
LEMMA DialTruth ==
  ASSUME AnswersInv, DialRelay
  PROVE  Outcome' /\ Lockstep' /\ OneTruth'
  <1> DEFINE m == <<"methods", "userpass">>
             d == Put(Opened, "l", m)
  <1>1. /\ stage["daemon"] = "dial" /\ UNCHANGED <<path, late, copying, left, got, seen>>
        /\ stage' = [stage EXCEPT !["daemon"] = "cmethod", !["relay"] = "accept"]
        /\ link' = [link EXCEPT !["mid"] = d]
    BY DEF DialRelay
  <1>2. path.at = "in" /\ Own = "daemon" /\ stage["relay"] = "idle" /\ link["mid"] = NotOpened /\ seen.reply = "none"
    BY <1>1, Asking
  <1>3. stage'["daemon"] = "cmethod" /\ stage'["relay"] = "accept"
    BY <1>1 DEF AnswersInv, RelayInv, Control, PathTypes, Handlers
  <1>4. /\ SameEnds(Opened, d) /\ d.sent["l"] = Append(<<>>, m) /\ d.sent["r"] = <<>>
    <2>1. ~Broken(Opened, "l") /\ Peer("l") = "r" /\ "l" \in Sides
      BY NewDoes DEF Broken, Sides, Peer
    <2> HIDE DEF m
    <2>2. /\ SameEnds(Opened, d)
          /\ d.sent["l"] = IF Broken(Opened, "l") THEN Opened.sent["l"] ELSE Append(Opened.sent["l"], m)
          /\ d.sent[Peer("l")] = Opened.sent[Peer("l")]
      <3>1. IsConn(Opened)
        BY NewDoes
      <3> DEFINE o == Opened
      <3>2. IsConn(o) /\ "l" \in Sides
        BY <2>1, <3>1
      <3> HIDE DEF o
      <3>3. /\ SameEnds(o, Put(o, "l", m))
            /\ Put(o, "l", m).sent["l"] = IF Broken(o, "l") THEN o.sent["l"] ELSE Append(o.sent["l"], m)
            /\ Put(o, "l", m).sent[Peer("l")] = o.sent[Peer("l")]
        BY <3>2, PutDoes
      <3> QED
        BY <3>3 DEF o
    <2> HIDE DEF d
    <2> QED
      BY <2>1, <2>2, NewDoes
  <1>5. Len(Append(<<>>, m)) <= 1
    BY FirstAdded
  <1> HIDE DEF m, d
  <1>6. Grows(link["mid"], d) /\ d.fin = {} /\ ~d.lost
    BY <1>2, <1>4, NewDoes DEF Grows, SameEnds
  <1>7. /\ AllGrow /\ link'["mid"] = d /\ link'["in"] = link["in"] /\ link'["out"] = link["out"]
    BY <1>1, <1>6, OneGrows, LinkSet DEF AnswersInv, Conns
  <1>8. Outcome'
    <2>1. RelayMoves
      BY <1>2, <1>3 DEF RelayMoves, Active
    <2>2. DataOnly(link'["out"].sent["r"]) /\ DataOnly(left'.dest)
      BY <1>1, <1>7 DEF AnswersInv, Outcome
    <2> QED
      BY <1>1, <1>6, <1>7, <2>1, <2>2, OutcomeKept DEF AnswersInv
  <1>9. Lockstep'
    <2>1. Upward' = Append(<<>>, m) /\ Downward' = <<>>
      BY <1>4, <1>7 DEF Upward, Downward
    <2>2. AtMethod' /\ AtAuth' /\ AtReply' /\ AfterReply'
      BY <1>3, <1>5, <2>1 DEF AtMethod, AtAuth, AtReply, AfterReply
    <2> QED
      BY <1>1, <1>2, <1>3, <1>6, <1>7, <2>2 DEF Lockstep, BeforeDial, AsClient
  <1>10. OneTruth'
    <2>1. Coming' = Coming
      BY <1>1, <1>2, <1>7 DEF Coming
    <2> QED
      BY <1>1, <1>2, <1>3, <1>7, <2>1, TruthKept DEF AnswersInv
  <1> QED
    BY <1>8, <1>9, <1>10

\* The client reads an answer and says the next thing.
LEMMA SayDoes ==
  ASSUME RelayInv, NEW m, NEW pc, ClientSay(m, pc)
  PROVE  /\ UNCHANGED <<path, late, copying, left, got, seen>>
         /\ stage'["daemon"] = pc /\ stage'["relay"] = stage["relay"]
         /\ AllGrow /\ link'["in"] = link["in"] /\ link'["out"] = link["out"]
         /\ link'["mid"].fin = link["mid"].fin /\ link'["mid"].lost = link["mid"].lost
         /\ Downward' = Tail(Downward) /\ (Upward' = Upward \/ Upward' = Append(Upward, m))
  <1> DEFINE c == link["mid"]
             t == Take(c, "l")
             d == Put(t, "l", m)
  <1>1. /\ UNCHANGED <<path, late, copying, left, got, seen>> /\ Move("daemon", pc)
        /\ "daemon" \in Handlers /\ "relay" \in Handlers /\ "relay" # "daemon"
        /\ "in" \in Conns /\ "mid" \in Conns /\ "out" \in Conns /\ "l" \in Sides /\ Peer("l") = "r"
    BY DEF ClientSay, Handlers, Conns, Sides, Peer
  <1>2. link' = [link EXCEPT !["mid"] = d]
    BY <1>1 DEF ClientSay, RelayInv, LinksOK
  <1>3. IsConn(c)
    BY <1>1, LinkIsConn
  <1> HIDE DEF c
  <1>4. IsConn(t) /\ SameEnds(c, t) /\ t.sent["r"] = Tail(c.sent["r"]) /\ t.sent["l"] = c.sent["l"] /\ Grows(c, t)
    BY <1>1, <1>3, TakeDoes, OpsGrow
  <1> HIDE DEF t
  <1>5. IsConn(d) /\ SameEnds(t, d) /\ d.sent["r"] = t.sent["r"] /\ (d.sent["l"] = t.sent["l"] \/ d.sent["l"] = Append(t.sent["l"], m)) /\ Grows(t, d)
    <2>1. /\ IsConn(d) /\ SameEnds(t, d)
          /\ d.sent["l"] = IF Broken(t, "l") THEN t.sent["l"] ELSE Append(t.sent["l"], m)
          /\ d.sent[Peer("l")] = t.sent[Peer("l")]
      BY <1>1, <1>4, PutDoes
    <2>2. Grows(t, d)
      BY <1>1, <1>4, OpsGrow
    <2> HIDE DEF d
    <2> QED
      BY <1>1, <2>1, <2>2
  <1> HIDE DEF d
  <1>6. Grows(c, d)
    BY <1>4, <1>5, GrowsOn
  <1>7. AllGrow /\ link'["mid"] = d /\ link'["in"] = link["in"] /\ link'["out"] = link["out"]
    BY <1>1, <1>2, <1>6, OneGrows, LinkSet DEF c
  <1>8. stage'["daemon"] = pc /\ stage'["relay"] = stage["relay"]
    BY <1>1, MoveDoes
  <1> QED
    BY <1>1, <1>4, <1>5, <1>7, <1>8 DEF Upward, Downward, c, SameEnds

\* Saying it keeps the two in step, if it is its turn.
LEMMA SaysTruth ==
  ASSUME AnswersInv, NEW m, NEW pc \in {"cauth", "creply"}, ClientSay(m, pc), stage["daemon"] \in {"cmethod", "cauth"},
         AtAuth', AtReply'
  PROVE  Outcome' /\ Lockstep' /\ OneTruth'
  <1>1. /\ UNCHANGED <<path, late, copying, left, got, seen>>
        /\ stage'["daemon"] = pc /\ stage'["relay"] = stage["relay"]
        /\ AllGrow /\ link'["in"] = link["in"] /\ link'["out"] = link["out"]
        /\ link'["mid"].fin = link["mid"].fin /\ link'["mid"].lost = link["mid"].lost
    BY SayDoes DEF AnswersInv
  <1>2. path.at = "in" /\ Own = "daemon"
    BY Asking
  <1>3. Outcome'
    <2>1. RelayMoves /\ DataOnly(link'["out"].sent["r"]) /\ DataOnly(left'.dest)
      BY <1>1 DEF RelayMoves, AnswersInv, Outcome
    <2> QED
      BY <1>1, <2>1, OutcomeKept DEF AnswersInv
  <1>4. Lockstep'
    BY <1>1, <1>2 DEF AnswersInv, Lockstep, BeforeDial, AsClient, AtMethod, AfterReply
  <1>5. OneTruth'
    <2>1. Coming' = Coming
      BY <1>1, <1>2 DEF Coming
    <2> QED
      BY <1>1, <1>2, <2>1, TruthKept DEF AnswersInv
  <1> QED
    BY <1>3, <1>4, <1>5

\* The client fails with an error of its own.
LEMMA ClientFailsTruth ==
  ASSUME AnswersInv, NEW err \in {"unauthorized", "EOF", "timeout"}, ClientFails(err),
         stage["daemon"] \in {"cmethod", "cauth", "creply"},
         stage["relay"] \notin Active \/ path.cut,
         seen.reply \in {"none", "succeeded"} \/ path.slow \/ path.cut,
         err = "timeout" => "daemon" \in late
  PROVE  Outcome' /\ Lockstep' /\ OneTruth'
  <1>1. /\ seen' = blame(err) /\ Refuse(err, CloseSide(link["mid"], "l")) /\ path' = path
        /\ seen \in [state : Faults, reply : Said, dialed : Seq(Addrs), auth : BOOLEAN] /\ IsConn(link["mid"]) /\ "l" \in Sides
    BY Asking DEF ClientFails, Refuse, Sides
  <1>2. seen'.reply = seen.reply /\ seen'.state = err
    BY <1>1 DEF blame
  <1>3. err # "timeout" => replyCode(err) = "general"
    BY DEF replyCode, Said
  <1>4. "daemon" \notin late => ReplyTrue(replyCode(err))'
    BY <1>1, <1>2, <1>3 DEF ReplyTrue
  <1>5. Grows(link["mid"], CloseSide(link["mid"], "l")) /\ CloseSide(link["mid"], "l").fin \subseteq link["mid"].fin \union {"l"}
    BY <1>1, EndsGrow
  <1> QED
    BY <1>1, <1>2, <1>4, <1>5, DaemonRefuses

\* The client sends its credentials.
LEMMA ClientMethodTruth ==
  ASSUME AnswersInv, ClientMethod
  PROVE  Outcome' /\ Lockstep' /\ OneTruth'
  <1> DEFINE m == <<"auth", IF path.token THEN "right" ELSE "wrong">>
  <1>1. /\ stage["daemon"] = "cmethod" /\ Downward # <<>> /\ ClientHeard = Head(Downward)
    BY DEF ClientMethod, ClientHear, ClientHeard, Readable, FirstOf, Peer, Downward
  <1>2. AtMethod /\ seen.reply = "none" /\ Upward \in Seq(Msg)
    BY <1>1, Asking DEF AnswersInv, Lockstep
  <1>3. Downward = <<<<"method", "userpass">>>> /\ stage["relay"] \in {"auth", "done"} /\ (stage["relay"] = "auth" => Upward = <<>>)
    BY <1>1, <1>2 DEF AtMethod
  <1>4. Head(Downward) = <<"method", "userpass">> /\ Tail(Downward) = <<>>
    BY <1>3
  <1>5. ClientSay(m, "cauth")
    BY <1>1, <1>4 DEF ClientMethod
  <1> HIDE DEF m
  <1>6. /\ stage'["daemon"] = "cauth" /\ stage'["relay"] = stage["relay"] /\ seen' = seen
        /\ Downward' = <<>> /\ (Upward' = Upward \/ Upward' = Append(Upward, m))
    BY <1>4, <1>5, SayDoes DEF AnswersInv
  <1>7. stage'["relay"] = "auth" => Len(Upward') <= 1
    BY <1>3, <1>6, FirstAdded
  <1>8. AtAuth' /\ AtReply'
    BY <1>3, <1>6, <1>7 DEF AtAuth, AtReply
  <1> QED
    BY <1>1, <1>5, <1>8, SaysTruth

\* The client sends its request, or its credentials were wrong.
LEMMA ClientAuthTruth ==
  ASSUME AnswersInv, ClientAuth
  PROVE  Outcome' /\ Lockstep' /\ OneTruth'
  <1> DEFINE m == <<"request", "connect">>
  <1>1. /\ stage["daemon"] = "cauth" /\ Downward # <<>> /\ ClientHeard = Head(Downward)
    BY DEF ClientAuth, ClientHear, ClientHeard, Readable, FirstOf, Peer, Downward
  <1>2. AtAuth /\ seen.reply = "none" /\ Upward \in Seq(Msg)
    BY <1>1, Asking DEF AnswersInv, Lockstep
  <1>3. CASE Downward = <<<<"authreply", "ok">>>>
    <2>1. stage["relay"] \in {"request", "done"} /\ (stage["relay"] = "request" => Upward = <<>>)
      BY <1>1, <1>2 DEF AtAuth
    <2>2. Head(Downward) = <<"authreply", "ok">> /\ Tail(Downward) = <<>>
      BY <1>3
    <2>3. ClientSay(m, "creply")
      BY <1>1, <2>2 DEF ClientAuth
    <2> HIDE DEF m
    <2>4. /\ stage'["daemon"] = "creply" /\ stage'["relay"] = stage["relay"] /\ seen' = seen
          /\ Downward' = <<>> /\ (Upward' = Upward \/ Upward' = Append(Upward, m))
      BY <2>2, <2>3, SayDoes DEF AnswersInv
    <2>5. stage'["relay"] = "request" => Len(Upward') <= 1
      BY <2>1, <2>4, FirstAdded
    <2>6. AtAuth' /\ AtReply'
      BY <1>2, <2>1, <2>4, <2>5 DEF AtAuth, AtReply
    <2> QED
      BY <1>1, <2>3, <2>6, SaysTruth
  <1>4. CASE Downward = <<<<"authreply", "fail">>>>
    <2>1. stage["relay"] \notin Active
      <3>1. <<"authreply", "ok">> # <<"authreply", "fail">>
        OBVIOUS
      <3> DEFINE x == <<"authreply", "ok">>
                 y == <<"authreply", "fail">>
      <3>2. <<x>> # <<y>> /\ <<y>> # <<>>
        <4> HIDE DEF x, y
        <4> QED
          BY <3>1 DEF x, y
      <3> QED
        BY <1>1, <1>2, <1>4, <3>2 DEF AtAuth, Active
    <2>2. Head(Downward) = <<"authreply", "fail">>
      BY <1>4
    <2>3. ClientFails("unauthorized")
      BY <1>1, <2>2 DEF ClientAuth
    <2> QED
      BY <1>1, <1>2, <2>1, <2>3, ClientFailsTruth
  <1> QED
    BY <1>1, <1>2, <1>3, <1>4 DEF AtAuth

\* The connection to the relay ends, or the daemon's patience does.
LEMMA ClientGivesUpTruth ==
  ASSUME AnswersInv, ClientEOF \/ ClientTimeout
  PROVE  Outcome' /\ Lockstep' /\ OneTruth'
  <1>1. stage["daemon"] \in {"cmethod", "cauth", "creply"} /\ path.at = "in" /\ stage["daemon"] \in AsClient
    BY Asking DEF ClientEOF, ClientTimeout, AsClient
  <1>2. CASE ClientEOF
    <2>1. Downward = <<>> /\ (link["mid"].lost \/ "r" \in link["mid"].fin) /\ ClientFails("EOF")
      BY <1>2 DEF ClientEOF, AtEOF, Peer, Downward
    <2>2. stage["relay"] \notin Active \/ path.cut
      BY <1>1, <2>1 DEF AnswersInv, Outcome, Lockstep
    <2>3. seen.reply \in {"none", "succeeded"} \/ path.slow \/ path.cut
      BY <1>1, <2>1 DEF AnswersInv, Lockstep, AtReply
    <2> QED
      BY <1>1, <2>1, <2>2, <2>3, ClientFailsTruth
  <1>3. CASE ClientTimeout
    <2>1. link["mid"].lost /\ "daemon" \in late /\ ClientFails("timeout")
      BY <1>3 DEF ClientTimeout
    <2>2. stage["relay"] \notin Active \/ path.cut
      BY <1>1, <2>1 DEF AnswersInv, Lockstep
    <2>3. seen.reply \in {"none", "succeeded"} \/ path.slow \/ path.cut
      BY <1>1, <2>1 DEF AnswersInv, Lockstep, AtReply
    <2> QED
      BY <1>1, <2>1, <2>2, <2>3, ClientFailsTruth
  <1> QED
    BY <1>2, <1>3

\* The relay's own answer is passed on.
LEMMA ClientReplyTruth ==
  ASSUME AnswersInv, ClientReply
  PROVE  Outcome' /\ Lockstep' /\ OneTruth'
  <1>1. /\ stage["daemon"] = "creply" /\ Downward # <<>> /\ ClientHeard = Head(Downward) /\ "mid" \in Conns
        /\ "l" \in Sides /\ Peer("l") = "r"
    BY DEF ClientReply, ClientHear, ClientHeard, Readable, FirstOf, Peer, Downward, Conns, Sides
  <1>2. /\ path.at = "in" /\ Own = "daemon" /\ AtReply /\ Downward \in Seq(Msg) /\ IsConn(link["mid"])
        /\ seen \in [state : Faults, reply : Said, dialed : Seq(Addrs), auth : BOOLEAN]
    BY <1>1, Asking DEF AnswersInv, Lockstep
  <1>3. ClientHeard = <<"reply", seen.reply>> /\ seen.reply # "none" /\ DataOnly(Tail(Downward)) /\ stage["relay"] \notin Active
    BY <1>1, <1>2 DEF AtReply
  <1>4. CASE seen.reply = "succeeded"
    <2>1. /\ link' = [link EXCEPT !["mid"] = Take(link["mid"], "l")] /\ Move("daemon", "answer")
          /\ seen' = [seen EXCEPT !.state = "ready"] /\ UNCHANGED <<path, late, copying, left, got>>
      BY <1>1, <1>3, <1>4 DEF ClientReply, AnswersInv, RelayInv, LinksOK
    <2>2. seen'.reply = seen.reply
      BY <1>2, <2>1
    <2>3. stage'["daemon"] = "answer" /\ stage'["relay"] = stage["relay"]
      BY <2>1, MoveDoes DEF AnswersInv, Handlers
    <2>4. /\ Take(link["mid"], "l").sent["r"] = Tail(Downward) /\ Take(link["mid"], "l").fin = link["mid"].fin
          /\ Grows(link["mid"], Take(link["mid"], "l"))
      <3>1. /\ SameEnds(link["mid"], Take(link["mid"], "l"))
            /\ Take(link["mid"], "l").sent["r"] = Tail(link["mid"].sent["r"])
        BY <1>1, <1>2, TakeDoes
      <3>2. Grows(link["mid"], Take(link["mid"], "l"))
        BY <1>1, <1>2, EndsGrow
      <3> QED
        BY <3>1, <3>2 DEF Downward, SameEnds
    <2>5. /\ AllGrow /\ link'["mid"] = Take(link["mid"], "l") /\ link'["in"] = link["in"] /\ link'["out"] = link["out"]
      BY <1>1, <2>1, <2>4, OneGrows, LinkSet DEF AnswersInv, Conns
    <2>6. Outcome'
      <3>1. RelayMoves /\ DataOnly(link'["out"].sent["r"]) /\ DataOnly(left'.dest) /\ stage'["relay"] \notin Active
        BY <1>3, <2>1, <2>3, <2>5 DEF RelayMoves, AnswersInv, Outcome
      <3> QED
        BY <2>1, <2>2, <2>5, <3>1, OutcomeKept DEF AnswersInv
    <2>7. Lockstep'
      <3>1. Downward' = Tail(Downward)
        BY <2>4, <2>5 DEF Downward
      <3> QED
        BY <1>3, <1>4, <2>1, <2>2, <2>3, <3>1, LockstepLater
    <2>8. OneTruth'
      <3>1. Coming' = Coming
        BY <1>2, <2>1, <2>5 DEF Coming
      <3> QED
        BY <1>1, <1>2, <2>1, <2>3, <2>5, <3>1, TruthKept DEF AnswersInv
    <2> QED
      BY <2>6, <2>7, <2>8
  <1>5. CASE seen.reply # "succeeded"
    <2>1. Refuse(seen.reply, CloseSide(link["mid"], "l")) /\ UNCHANGED seen /\ path' = path
      BY <1>1, <1>3, <1>5 DEF ClientReply, Refuse
    <2>2. seen.reply \in {"hostunreachable", "notallowed"}
      BY <1>3, <1>5 DEF AnswersInv, Outcome
    <2>3. replyCode(seen.reply) = seen.reply
      BY <2>2 DEF replyCode, Said
    <2>4. ReplyTrue(replyCode(seen.reply))'
      BY <2>1, <2>2, <2>3 DEF ReplyTrue
    <2>5. Grows(link["mid"], CloseSide(link["mid"], "l")) /\ CloseSide(link["mid"], "l").fin \subseteq link["mid"].fin \union {"l"}
      BY <1>1, <1>2, EndsGrow
    <2> QED
      BY <1>1, <1>3, <2>1, <2>4, <2>5, DaemonRefuses
  <1> QED
    BY <1>4, <1>5

-----------------------------------------------------------------------------
(* The relay's side: Server.dial.                                          *)

\* What the relay does when dial has failed.
LEMMA RefuseDialDoes ==
  ASSUME RelayInv, NEW code, RefuseDial(code)
  PROVE  /\ UNCHANGED <<path, late, copying, left, got>>
         /\ stage'["relay"] = "done" /\ stage'["daemon"] = stage["daemon"]
         /\ AllGrow /\ link'["in"] = link["in"] /\ link'["out"] = link["out"]
         /\ link'["mid"].lost = link["mid"].lost /\ link'["mid"].fin \subseteq link["mid"].fin \union {"r"}
         /\ Upward' = Upward
         /\ seen'.state = seen.state /\ seen'.reply = IF "relay" \in late THEN "none" ELSE code
         /\ \/ Downward' = Downward /\ ("relay" \in late \/ Broken(link["mid"], "r"))
            \/ Downward' = Append(Downward, <<"reply", code>>) /\ "relay" \notin late
  <1> DEFINE m == <<"reply", code>>
             c == link["mid"]
             p == IF "relay" \in late THEN c ELSE Put(c, "r", m)
             new == CloseSide(p, "r")
  <1>1. /\ UNCHANGED <<path, late, copying, left, got>> /\ Move("relay", "done")
        /\ seen' = [seen EXCEPT !.reply = IF "relay" \in late THEN "none" ELSE code]
        /\ "daemon" \in Handlers /\ "relay" \in Handlers /\ "relay" # "daemon"
        /\ "in" \in Conns /\ "mid" \in Conns /\ "out" \in Conns /\ "r" \in Sides /\ Peer("r") = "l"
    BY DEF RefuseDial, Handlers, Conns, Sides, Peer
  <1>2. link' = [link EXCEPT !["mid"] = new]
    <2>1. link = [j \in Conns |-> link[j]]
      BY DEF RelayInv, LinksOK
    <2> QED
      BY <1>1, <2>1 DEF RefuseDial, Replied, Accepted
  <1> HIDE DEF m
  <1>3. IsConn(c)
    BY <1>1, LinkIsConn
  <1> HIDE DEF c
  <1>4. /\ IsConn(p) /\ Grows(c, p) /\ p.lost = c.lost /\ p.fin = c.fin /\ p.sent["l"] = c.sent["l"]
        /\ \/ p.sent["r"] = c.sent["r"] /\ ("relay" \in late \/ Broken(c, "r"))
           \/ p.sent["r"] = Append(c.sent["r"], m) /\ "relay" \notin late
    <2>1. CASE "relay" \in late
      BY <1>3, <2>1 DEF Grows
    <2>2. CASE "relay" \notin late
      <3> DEFINE q == Put(c, "r", m)
      <3>1. /\ IsConn(q) /\ SameEnds(c, q)
            /\ q.sent["r"] = IF Broken(c, "r") THEN c.sent["r"] ELSE Append(c.sent["r"], m)
            /\ q.sent[Peer("r")] = c.sent[Peer("r")]
        BY <1>1, <1>3, PutDoes
      <3>2. Grows(c, q)
        BY <1>1, <1>3, OpsGrow
      <3>3. p = q
        BY <2>2
      <3> HIDE DEF p, q
      <3> QED
        BY <1>1, <2>2, <3>1, <3>2, <3>3 DEF SameEnds
    <2> QED
      BY <2>1, <2>2
  <1> HIDE DEF p
  <1>5. new.sent = p.sent /\ new.lost = p.lost /\ new.fin = p.fin \union {"r"} /\ Grows(p, new)
    BY <1>1, <1>4, CloseDoes, EndsGrow
  <1> HIDE DEF new
  <1>6. Grows(c, new)
    BY <1>4, <1>5, GrowsOn
  <1>7. AllGrow /\ link'["mid"] = new /\ link'["in"] = link["in"] /\ link'["out"] = link["out"]
    BY <1>1, <1>2, <1>6, OneGrows, LinkSet DEF c
  <1>8. stage'["relay"] = "done" /\ stage'["daemon"] = stage["daemon"]
    BY <1>1, MoveDoes
  <1>9. seen'.state = seen.state /\ seen'.reply = IF "relay" \in late THEN "none" ELSE code
    BY <1>1 DEF RelayInv, Control, PathTypes
  <1> QED
    BY <1>1, <1>4, <1>5, <1>7, <1>8, <1>9 DEF Upward, Downward, c, m

\* While the relay has not answered, the daemon waits for it, or the tailnet
\* may go away.
LEMMA RelayWorks ==
  ASSUME AnswersInv, stage["relay"] \in Active
  PROVE  /\ seen.reply = "none" /\ Unanswered
         /\ Own = "relay" => path.at = "mid"
         /\ Own # "relay" => path.at = "in" /\ (stage[Own] \notin {"copy", "done"} \/ path.cut)
         /\ path.at = "in" /\ stage["daemon"] = "creply" => Downward = <<>> /\ ~(Broken(link["mid"], "r") /\ ~link["mid"].lost)
  <1>1. Unanswered /\ seen.reply = "none"
    BY DEF Active, Unanswered, AnswersInv, Outcome
  <1>2. path.at \in {"in", "mid"}
    BY WhoAnswers DEF AnswersInv
  <1>3. path.at = "in" /\ ~path.cut => stage["daemon"] \notin {"copy", "done"}
    BY DEF AnswersInv, Lockstep, AsClient
  <1>4. path.at = "in" /\ stage["daemon"] = "creply" => Downward = <<>> /\ "l" \notin link["mid"].fin
    BY DEF AnswersInv, Lockstep, AtReply, AsClient
  <1>5. "l" \notin link["mid"].fin => ~(Broken(link["mid"], "r") /\ ~link["mid"].lost)
    BY DEF AnswersInv, Outcome, Broken, Peer, Conns
  <1> QED
    BY <1>1, <1>2, <1>3, <1>4, <1>5 DEF Own

\* The relay says that it could not connect.
LEMMA RelayRefuses ==
  ASSUME AnswersInv, NEW code \in {"hostunreachable", "notallowed"}, RefuseDial(code), stage["relay"] \in {"resolve", "connect"}
  PROVE  Outcome' /\ Lockstep' /\ OneTruth'
  <1> DEFINE m == <<"reply", code>>
  <1>1. /\ UNCHANGED <<path, late, copying, left, got>>
        /\ stage'["relay"] = "done" /\ stage'["daemon"] = stage["daemon"]
        /\ AllGrow /\ link'["in"] = link["in"] /\ link'["out"] = link["out"]
        /\ link'["mid"].lost = link["mid"].lost /\ link'["mid"].fin \subseteq link["mid"].fin \union {"r"}
        /\ Upward' = Upward
        /\ seen'.state = seen.state /\ seen'.reply = IF "relay" \in late THEN "none" ELSE code
        /\ \/ Downward' = Downward /\ ("relay" \in late \/ Broken(link["mid"], "r"))
           \/ Downward' = Append(Downward, m) /\ "relay" \notin late
    BY RefuseDialDoes DEF AnswersInv
  <1>2. IsReply(m) /\ ~IsData(m) /\ m[2] = code
    BY DEF IsReply, IsData
  <1>3. /\ stage["relay"] \in Active /\ seen.reply = "none"
        /\ Own = "relay" => path.at = "mid"
        /\ Own # "relay" => path.at = "in" /\ (stage[Own] \notin {"copy", "done"} \/ path.cut)
        /\ path.at = "in" /\ stage["daemon"] = "creply" => Downward = <<>> /\ ~(Broken(link["mid"], "r") /\ ~link["mid"].lost)
    BY RelayWorks DEF Active
  <1>4. /\ path.at \in {"in", "mid"} /\ Accepted(Own) = path.at /\ Own \in Handlers /\ Coming \in Seq(Msg)
    BY WhoAnswers DEF AnswersInv
  <1>5. Outcome'
    <2>1. \A c \in Conns : link'[c].closed \subseteq link'[c].fin
      BY <1>1, NewDoes DEF AnswersInv, Outcome, AllGrow, Grows
    <2>2. seen'.reply \in {"none", "hostunreachable", "notallowed"}
      BY <1>1
    <2> QED
      BY <1>1, <2>1, <2>2 DEF AnswersInv, Outcome, Active, DataOnly, IsData
  <1>6. Lockstep'
    <2>1. CASE path.at # "in"
      BY <1>1, <2>1, LockstepAway
    <2>2. CASE path.at = "in"
      <3>1. AtMethod /\ AtAuth /\ AtReply /\ (~path.cut => ~link["mid"].lost)
        BY <1>3, <2>2 DEF AnswersInv, Lockstep
      <3>2. stage["daemon"] \notin {"cmethod", "cauth"}
        BY <3>1 DEF AtMethod, AtAuth
      <3>3. AtMethod' /\ AtAuth'
        BY <1>1, <3>2 DEF AtMethod, AtAuth
      <3>4. AtReply'
        <4>1. SUFFICES ASSUME stage["daemon"] = "creply" PROVE AtReply'
          BY <1>1 DEF AtReply
        <4>2. Downward = <<>> /\ Upward = <<>> /\ ~(Broken(link["mid"], "r") /\ ~link["mid"].lost)
          BY <1>3, <2>2, <3>1, <4>1 DEF AtReply
        <4>3. \/ Downward' = <<>> /\ ("relay" \in late \/ link["mid"].lost)
              \/ Downward' = <<m>> /\ "relay" \notin late
          <5> HIDE DEF m
          <5>1. Append(<<>>, m) = <<m>>
            OBVIOUS
          <5> QED
            BY <1>1, <4>2, <5>1
        <4>4. Downward' # <<>> => Head(Downward') = m /\ Tail(Downward') = <<>> /\ seen'.reply = code
          <5> HIDE DEF m
          <5>1. Head(<<m>>) = m /\ Tail(<<m>>) = <<>>
            OBVIOUS
          <5> QED
            BY <1>1, <4>3, <5>1
        <4>5. seen'.reply \notin {"none", "succeeded"} /\ ~path.slow /\ ~path.cut =>
                Downward' # <<>> /\ Upward' = <<>> /\ ~link'["mid"].lost
          <5> HIDE DEF m
          <5>1. <<m>> # <<>>
            OBVIOUS
          <5> QED
            BY <1>1, <3>1, <4>2, <4>3, <5>1
        <4> QED
          BY <1>1, <4>4, <4>5, NothingComes DEF AtReply, Active
      <3> QED
        BY <1>1, <1>3, <2>2, <3>2, <3>3, <3>4, LockstepActs DEF AnswersInv
    <2> QED
      BY <2>1, <2>2
  <1>7. OneTruth'
    <2>1. CASE Own = "relay"
      <3>1. Coming' = Coming \/ ("relay" \notin late /\ Coming' = Append(Coming, m))
        BY <1>1, <1>3, <2>1 DEF Coming, Downward
      <3>2. "relay" \notin late => ReplyTrue(m[2])'
        BY <1>1, <1>2 DEF ReplyTrue
      <3>3. stage[Own] \notin {"copy", "done"} /\ stage'[Own] = "done"
        BY <1>1, <2>1
      <3> HIDE DEF m
      <3>4. CASE Coming' = Coming
        BY <1>1, <1>4, <3>3, <3>4, TruthKept DEF AnswersInv
      <3>5. CASE "relay" \notin late /\ Coming' = Append(Coming, m)
        BY <1>1, <1>2, <1>4, <3>2, <3>3, <3>5, TruthTold DEF AnswersInv
      <3> QED
        BY <3>1, <3>4, <3>5
    <2>2. CASE Own # "relay"
      <3>1. path.at = "in" /\ Own = "daemon" /\ Coming' = Coming /\ stage'[Own] = stage[Own]
        BY <1>1, <1>3, <1>4, <2>2 DEF Coming, Handlers
      <3> QED
        BY <1>1, <1>3, <1>4, <2>2, <3>1, TruthKept DEF AnswersInv
    <2> QED
      BY <2>1, <2>2
  <1> QED
    BY <1>5, <1>6, <1>7

\* The relay goes on with its dialing, or connects.
LEMMA DialingTruth ==
  ASSUME AnswersInv, UNCHANGED <<path, late, copying, left, got>>,
         seen'.state = seen.state, seen'.reply = seen.reply,
         stage'["daemon"] = stage["daemon"],
         \/ stage["relay"] = "resolve" /\ stage'["relay"] = "connect" /\ link' = link
         \/ stage["relay"] = "connect" /\ stage'["relay"] = "connect" /\ link' = link
         \/ stage["relay"] = "connect" /\ stage'["relay"] = "answer" /\ link' = [link EXCEPT !["out"] = Opened]
  PROVE  Outcome' /\ Lockstep' /\ OneTruth'
  <1>1. link'["in"] = link["in"] /\ link'["mid"] = link["mid"] /\ (link'["out"] = link["out"] \/ link'["out"] = Opened)
    BY DEF AnswersInv, RelayInv, LinksOK, Conns
  <1>2. AllGrow
    BY <1>1 DEF AllGrow, Conns, Grows
  <1>3. /\ stage["relay"] \in Active /\ stage'["relay"] \in Active /\ seen.reply = "none"
        /\ Own = "relay" => path.at = "mid"
        /\ Own # "relay" => path.at = "in"
    BY RelayWorks DEF Active
  <1>4. /\ path.at \in {"in", "mid"} /\ Own \in Handlers
    BY WhoAnswers DEF AnswersInv
  <1>5. Outcome'
    <2>1. \A c \in Conns : link'[c].closed \subseteq link'[c].fin
      BY <1>2, NewDoes DEF AnswersInv, Outcome, AllGrow, Grows
    <2>2. stage'["relay"] = "answer" => link'["out"] = Opened
      BY DEF AnswersInv, RelayInv, LinksOK, Conns
    <2>3. DataOnly(link'["out"].sent["r"])
      BY <1>1, NewDoes, NothingComes DEF AnswersInv, Outcome
    <2> QED
      BY <1>1, <1>3, <2>1, <2>2, <2>3, NewDoes DEF AnswersInv, Outcome, Active, DataOnly, IsData
  <1>6. Lockstep'
    <2>1. CASE path.at # "in"
      BY <2>1, LockstepAway
    <2>2. CASE path.at = "in"
      <3>1. AtMethod /\ AtAuth /\ AtReply /\ Upward' = Upward /\ Downward' = Downward
        BY <1>1, <2>2 DEF AnswersInv, Lockstep, Upward, Downward
      <3>2. AtMethod' /\ AtAuth' /\ AtReply'
        BY <1>3, <3>1 DEF AtMethod, AtAuth, AtReply, Active
      <3> QED
        BY <1>1, <1>3, <2>2, <3>2, LockstepActs DEF AnswersInv
    <2> QED
      BY <2>1, <2>2
  <1>7. OneTruth'
    <2>1. Coming' = Coming
      BY <1>1, <1>4 DEF Coming
    <2>2. stage'[Own] = stage[Own] \/ (stage[Own] \notin {"copy", "done"} /\ stage'[Own] \notin {"copy", "done"})
      BY <1>3, <1>4 DEF Handlers, Active
    <2> QED
      BY <1>2, <1>4, <2>1, <2>2, TruthKept DEF AnswersInv
  <1> QED
    BY <1>5, <1>6, <1>7

\* Server.dial, step by step.
LEMMA ResolveTruth ==
  ASSUME AnswersInv, Resolve \/ DialAddress \/ DialRefused \/ DialTimesOut
  PROVE  Outcome' /\ Lockstep' /\ OneTruth'
  <1>1. CASE stage["relay"] \in {"resolve", "connect"} /\ (RefuseDial("hostunreachable") \/ RefuseDial("notallowed"))
    BY <1>1, RelayRefuses
  <1>2. CASE stage["relay"] = "resolve" /\ Move("relay", "connect") /\ UNCHANGED <<path, link, late, copying, left, got, seen>>
    <2>1. stage'["relay"] = "connect" /\ stage'["daemon"] = stage["daemon"]
      BY <1>2, MoveDoes DEF AnswersInv, Handlers
    <2> QED
      BY <1>2, <2>1, DialingTruth
  <1>3. CASE DialAddress
    <2>1. /\ stage["relay"] = "connect" /\ UNCHANGED <<path, late, copying, left, got>>
          /\ seen'.state = seen.state /\ seen'.reply = seen.reply
      BY <1>3 DEF DialAddress, AnswersInv, RelayInv, Control, PathTypes
    <2>2. \/ link' = [link EXCEPT !["out"] = Opened] /\ Move("relay", "answer")
          \/ UNCHANGED <<link, stage>>
      BY <1>3 DEF DialAddress
    <2>3. CASE link' = [link EXCEPT !["out"] = Opened] /\ Move("relay", "answer")
      <3>1. stage'["relay"] = "answer" /\ stage'["daemon"] = stage["daemon"]
        BY <2>3, MoveDoes DEF AnswersInv, Handlers
      <3> QED
        BY <2>1, <2>3, <3>1, DialingTruth
    <2>4. CASE UNCHANGED <<link, stage>>
      BY <2>1, <2>4, DialingTruth
    <2> QED
      BY <2>2, <2>3, <2>4
  <1> QED
    BY <1>1, <1>2, <1>3 DEF Resolve, DialRefused, DialTimesOut

-----------------------------------------------------------------------------
(* Both: the answer, and the copying.                                      *)

\* A message is written to a connection.
LEMMA WritesDo ==
  ASSUME RelayInv, NEW c \in Conns, NEW s \in Sides, NEW m, link' = [link EXCEPT ![c] = Put(link[c], s, m)]
  PROVE  /\ AllGrow /\ \A k \in Conns : k # c => link'[k] = link[k]
         /\ SameEnds(link[c], link'[c]) /\ link'[c].sent[Peer(s)] = link[c].sent[Peer(s)]
         /\ link'[c].sent[s] = IF Broken(link[c], s) THEN link[c].sent[s] ELSE Append(link[c].sent[s], m)
  <1> DEFINE d == Put(link[c], s, m)
  <1>1. IsConn(link[c])
    BY LinkIsConn
  <1>2. /\ SameEnds(link[c], d) /\ d.sent[Peer(s)] = link[c].sent[Peer(s)] /\ Grows(link[c], d)
        /\ d.sent[s] = IF Broken(link[c], s) THEN link[c].sent[s] ELSE Append(link[c].sent[s], m)
    BY <1>1, PutDoes, OpsGrow
  <1> HIDE DEF d
  <1>3. link' = [link EXCEPT ![c] = d]
    BY DEF d
  <1>4. AllGrow /\ link'[c] = d /\ \A k \in Conns : k # c => link'[k] = link[k]
    BY <1>2, <1>3, OneGrows, LinkSet
  <1> QED
    BY <1>2, <1>4

\* A message is read.
LEMMA ReadsDo ==
  ASSUME RelayInv, NEW c \in Conns, NEW s \in Sides, link' = [link EXCEPT ![c] = Take(link[c], s)]
  PROVE  /\ AllGrow /\ \A k \in Conns : k # c => link'[k] = link[k]
         /\ SameEnds(link[c], link'[c]) /\ link'[c].sent[Peer(s)] = Tail(link[c].sent[Peer(s)])
         /\ link'[c].sent[s] = link[c].sent[s]
  <1> DEFINE d == Take(link[c], s)
  <1>1. IsConn(link[c])
    BY LinkIsConn
  <1>2. /\ SameEnds(link[c], d) /\ d.sent[Peer(s)] = Tail(link[c].sent[Peer(s)]) /\ Grows(link[c], d)
        /\ d.sent[s] = link[c].sent[s]
    BY <1>1, TakeDoes, EndsGrow
  <1> HIDE DEF d
  <1>3. link' = [link EXCEPT ![c] = d]
    BY DEF d
  <1>4. AllGrow /\ link'[c] = d /\ \A k \in Conns : k # c => link'[k] = link[k]
    BY <1>2, <1>3, OneGrows, LinkSet
  <1> QED
    BY <1>2, <1>4

\* One direction ends, or a socket is closed.
LEMMA ClosesDo ==
  ASSUME RelayInv, NEW c \in Conns, NEW s \in Sides, NEW d,
         d \in {CloseWrite(link[c], s), CloseSide(link[c], s)}, link' = [link EXCEPT ![c] = d]
  PROVE  /\ AllGrow /\ \A k \in Conns : k # c => link'[k] = link[k]
         /\ link'[c].sent = link[c].sent /\ link'[c].lost = link[c].lost /\ link'[c].fin = link[c].fin \union {s}
  <1>1. IsConn(link[c])
    BY LinkIsConn
  <1>2. d.sent = link[c].sent /\ d.lost = link[c].lost /\ d.fin = link[c].fin \union {s} /\ Grows(link[c], d)
    BY <1>1, CloseDoes, EndsGrow
  <1>3. AllGrow /\ link'[c] = d /\ \A k \in Conns : k # c => link'[k] = link[k]
    BY <1>2, OneGrows, LinkSet
  <1> QED
    BY <1>2, <1>3

\* A connection is lost.
LEMMA LosesDo ==
  ASSUME RelayInv, NEW c \in Conns, link' = [link EXCEPT ![c] = Lose(link[c])]
  PROVE  /\ AllGrow /\ \A k \in Conns : k # c => link'[k] = link[k]
         /\ link'[c].sent["l"] = <<>> /\ link'[c].sent["r"] = <<>> /\ link'[c].lost /\ link'[c].fin = link[c].fin
  <1> DEFINE d == Lose(link[c])
  <1>1. IsConn(link[c]) /\ "l" \in Sides
    BY LinkIsConn DEF Sides
  <1>2. /\ d.sent["l"] = <<>> /\ d.sent["r"] = <<>> /\ d.lost /\ d.fin = link[c].fin /\ Grows(link[c], d)
    BY <1>1, LoseDoes, EndsGrow
  <1> HIDE DEF d
  <1>3. link' = [link EXCEPT ![c] = d]
    BY DEF d
  <1>4. AllGrow /\ link'[c] = d /\ \A k \in Conns : k # c => link'[k] = link[k]
    BY <1>2, <1>3, OneGrows, LinkSet
  <1> QED
    BY <1>2, <1>4

\* A handler closes both of its connections.
LEMMA BothCloseDo ==
  ASSUME RelayInv, NEW h \in Handlers,
         link' = [link EXCEPT ![Accepted(h)] = CloseSide(@, "r"), ![Made(h)] = CloseSide(@, "l")]
         \/ link' = [link EXCEPT ![Made(h)] = CloseSide(@, "l"), ![Accepted(h)] = CloseSide(@, "r")]
  PROVE  LET a == Accepted(h)
             b == Made(h)
         IN /\ AllGrow /\ \A k \in Conns \ {a, b} : link'[k] = link[k]
            /\ link'[a].sent = link[a].sent /\ link'[a].lost = link[a].lost /\ link'[a].fin = link[a].fin \union {"r"}
            /\ link'[b].sent = link[b].sent /\ link'[b].lost = link[b].lost /\ link'[b].fin = link[b].fin \union {"l"}
  <1> DEFINE a == Accepted(h)
             b == Made(h)
             d == CloseSide(link[a], "r")
             e == CloseSide(link[b], "l")
  <1>1. a \in Conns /\ b \in Conns \ {a} /\ b \in Conns /\ "l" \in Sides /\ "r" \in Sides
    BY DEF Accepted, Made, Handlers, Conns, Sides
  <1>2. link' = [link EXCEPT ![a] = d, ![b] = e]
    <2>1. link = [j \in Conns |-> link[j]]
      BY DEF RelayInv, LinksOK
    <2> HIDE DEF a, b
    <2> QED
      BY <1>1, <2>1 DEF a, b
  <1> HIDE DEF a, b
  <1>3. IsConn(link[a]) /\ IsConn(link[b])
    BY <1>1, LinkIsConn
  <1>4. /\ d.sent = link[a].sent /\ d.lost = link[a].lost /\ d.fin = link[a].fin \union {"r"} /\ Grows(link[a], d)
        /\ e.sent = link[b].sent /\ e.lost = link[b].lost /\ e.fin = link[b].fin \union {"l"} /\ Grows(link[b], e)
    <2> DEFINE x == link[a]
               y == link[b]
    <2>0. IsConn(x) /\ IsConn(y)
      BY <1>3
    <2> HIDE DEF x, y
    <2>1. CloseSide(x, "r").sent = x.sent /\ CloseSide(x, "r").lost = x.lost /\ CloseSide(x, "r").fin = x.fin \union {"r"}
      BY <1>1, <2>0, CloseDoes
    <2>2. CloseSide(y, "l").sent = y.sent /\ CloseSide(y, "l").lost = y.lost /\ CloseSide(y, "l").fin = y.fin \union {"l"}
      BY <1>1, <2>0, CloseDoes
    <2>3. Grows(link[a], d) /\ Grows(link[b], e)
      BY <1>1, <1>3, EndsGrow
    <2> QED
      BY <2>1, <2>2, <2>3 DEF x, y
  <1> HIDE DEF d, e
  <1>5. AllGrow
    BY <1>1, <1>2, <1>4, TwoGrow
  <1>6. link'[a] = d /\ link'[b] = e /\ \A j \in Conns \ {a, b} : link'[j] = link[j]
    BY <1>1, <1>2 DEF RelayInv, LinksOK
  <1> QED
    BY <1>4, <1>5, <1>6 DEF a, b

\* Success is told only where the destination has accepted.
LEMMA AnswerTruth ==
  ASSUME AnswersInv, NEW h \in Handlers, AnswerOK(h)
  PROVE  Outcome' /\ Lockstep' /\ OneTruth'
  <1> DEFINE c == Accepted(h)
  <1>1. /\ stage[h] = "answer" /\ UNCHANGED <<path, late, left, got>> /\ Move(h, "copy")
        /\ seen' = IF h = "relay" THEN [seen EXCEPT !.reply = "succeeded"] ELSE seen
        /\ c \in Conns /\ "r" \in Sides /\ Peer("r") = "l"
    BY DEF AnswerOK, Accepted, Conns, Sides, Peer
  <1>2. link' = [link EXCEPT ![c] = Put(link[c], "r", Succeeded)]
    BY <1>1 DEF AnswerOK, Replied, Succeeded, AnswersInv, RelayInv, LinksOK
  <1> HIDE DEF c
  <1>3. /\ AllGrow /\ \A k \in Conns : k # c => link'[k] = link[k]
        /\ SameEnds(link[c], link'[c]) /\ link'[c].sent["l"] = link[c].sent["l"]
        /\ link'[c].sent["r"] = IF Broken(link[c], "r") THEN link[c].sent["r"] ELSE Append(link[c].sent["r"], Succeeded)
    <2>1. RelayInv
      BY DEF AnswersInv
    <2>2. /\ AllGrow /\ \A k \in Conns : k # c => link'[k] = link[k]
          /\ SameEnds(link[c], link'[c]) /\ link'[c].sent[Peer("r")] = link[c].sent[Peer("r")]
          /\ link'[c].sent["r"] = IF Broken(link[c], "r") THEN link[c].sent["r"] ELSE Append(link[c].sent["r"], Succeeded)
      BY <1>1, <1>2, <2>1, WritesDo
    <2> QED
      BY <1>1, <2>2
  <1>4. stage'[h] = "copy" /\ \A g \in Handlers : g # h => stage'[g] = stage[g]
    BY <1>1, MoveDoes DEF AnswersInv
  <1>5. /\ path.at \in {"in", "mid"} /\ Accepted(Own) = path.at /\ Own \in Handlers /\ Coming \in Seq(Msg)
        /\ (h # Own => h = "relay" /\ path.at = "in" /\ Own = "daemon")
    BY <1>1, WhoAnswers DEF AnswersInv
  <1>6. IsReply(Succeeded) /\ ~IsData(Succeeded) /\ Succeeded[2] = "succeeded"
    BY DEF IsReply, IsData, Succeeded
  <1>7. Broken(link[c], "r") => Broken(link'[c], "r")
    BY <1>3 DEF SameEnds, Broken
  <1>8. h = Own => Coming' = Append(Coming, Succeeded) \/ (Coming' = Coming /\ Broken(link[path.at], "r")')
    BY <1>1, <1>3, <1>5, <1>7 DEF Coming, c
  <1>9. link["out"].open => link'["out"].open
    BY <1>3, NewDoes DEF AllGrow, Grows, Conns
  <1>10. CASE h = "daemon"
    <2>1. /\ h = Own /\ path.at = "in" /\ c = "in" /\ seen' = seen /\ stage'["relay"] = stage["relay"]
      BY <1>1, <1>4, <1>5, <1>10 DEF Own, Accepted, Handlers, c
    <2>2. link'["mid"] = link["mid"] /\ link'["out"] = link["out"]
      BY <1>3, <2>1 DEF Conns
    <2>3. seen.reply = "succeeded" /\ link["out"].open
      BY <1>1, <1>10, <2>1 DEF AnswersInv, Lockstep, AfterReply, Outcome
    <2>4. Outcome'
      <3>1. RelayMoves /\ DataOnly(link'["out"].sent["r"]) /\ DataOnly(left'.dest)
        BY <1>1, <2>1, <2>2 DEF RelayMoves, AnswersInv, Outcome
      <3> QED
        BY <1>1, <1>3, <2>1, <2>2, <3>1, OutcomeKept DEF AnswersInv
    <2>5. Lockstep'
      BY <1>1, <1>4, <1>10, <2>1, <2>2, LockstepKept DEF AnswersInv
    <2>6. OneTruth'
      <3>1. ReplyTrue("succeeded")'
        BY <1>9, <2>1, <2>3 DEF ReplyTrue
      <3>2. ReplyTrue(Succeeded[2])'
        BY <1>6, <3>1
      <3> QED
        BY <1>1, <1>4, <1>5, <1>6, <1>8, <2>1, <3>2, TruthTold DEF AnswersInv
    <2> QED
      BY <2>4, <2>5, <2>6
  <1>11. CASE h = "relay"
    <2>1. /\ c = "mid" /\ stage["relay"] \in Active /\ stage'["relay"] = "copy" /\ stage'["daemon"] = stage["daemon"]
          /\ link'["out"] = link["out"] /\ link'["in"] = link["in"]
      BY <1>1, <1>3, <1>4, <1>11 DEF Accepted, Handlers, Conns, c, Active
    <2>2. seen'.reply = "succeeded" /\ seen'.state = seen.state
      BY <1>1, <1>11 DEF AnswersInv, RelayInv, Control, PathTypes
    <2>3. /\ seen.reply = "none" /\ Unanswered
          /\ Own = "relay" => path.at = "mid"
          /\ Own # "relay" => path.at = "in" /\ (stage[Own] \notin {"copy", "done"} \/ path.cut)
          /\ path.at = "in" /\ stage["daemon"] = "creply" => Downward = <<>> /\ ~(Broken(link["mid"], "r") /\ ~link["mid"].lost)
      BY <2>1, RelayWorks
    <2>4. link["out"].open
      BY <1>1, <1>11 DEF AnswersInv, Outcome
    <2>5. Outcome'
      <3>1. \A k \in Conns : link'[k].closed \subseteq link'[k].fin
        BY <1>3, NewDoes DEF AnswersInv, Outcome, AllGrow, Grows
      <3>2. link'["mid"].lost = link["mid"].lost
        BY <1>3, <2>1 DEF SameEnds
      <3> QED
        BY <1>1, <1>9, <2>1, <2>2, <2>4, <3>1, <3>2 DEF AnswersInv, Outcome, Active, DataOnly, IsData
    <2>6. Lockstep'
      <3>1. CASE path.at # "in"
        BY <1>1, <3>1, LockstepAway
      <3>2. CASE path.at = "in"
        <4>1. AtMethod /\ AtAuth /\ AtReply
          BY <3>2 DEF AnswersInv, Lockstep
        <4>2. stage["daemon"] \notin {"cmethod", "cauth"}
          BY <1>1, <1>11, <4>1 DEF AtMethod, AtAuth
        <4>3. AtMethod' /\ AtAuth'
          BY <2>1, <4>2 DEF AtMethod, AtAuth
        <4>4. AtReply'
          <5>1. SUFFICES ASSUME stage["daemon"] = "creply" PROVE AtReply'
            BY <2>1 DEF AtReply
          <5>2. Downward' = Append(<<>>, Succeeded) \/ (Downward' = <<>> /\ link["mid"].lost)
            BY <1>3, <2>1, <2>3, <3>2, <5>1 DEF Downward
          <5>3. Append(<<>>, Succeeded) = <<Succeeded>> /\ <<Succeeded>> # <<>> /\ Head(<<Succeeded>>) = Succeeded /\ Tail(<<Succeeded>>) = <<>>
            OBVIOUS
          <5>4. Succeeded = <<"reply", seen'.reply>>
            BY <2>2 DEF Succeeded
          <5>5. link'["mid"].lost = link["mid"].lost
            BY <1>3, <2>1 DEF SameEnds
          <5> QED
            BY <2>1, <2>2, <5>2, <5>3, <5>4, <5>5, NothingComes DEF AtReply, Active
        <4>5. link'["mid"].lost = link["mid"].lost /\ link'["mid"].fin = link["mid"].fin
          BY <1>3, <2>1 DEF SameEnds
        <4> QED
          BY <1>1, <2>1, <3>2, <4>2, <4>3, <4>4, <4>5, LockstepActs DEF AnswersInv
      <3> QED
        BY <3>1, <3>2
    <2>7. OneTruth'
      <3>1. CASE Own = "relay"
        <4>1. ReplyTrue("succeeded")'
          BY <1>9, <2>2, <2>4 DEF ReplyTrue
        <4>2. ReplyTrue(Succeeded[2])'
          BY <1>6, <4>1
        <4> QED
          BY <1>1, <1>4, <1>5, <1>6, <1>8, <1>11, <3>1, <4>2, TruthTold DEF AnswersInv
      <3>2. CASE Own # "relay"
        <4>1. path.at = "in" /\ Own = "daemon" /\ Coming' = Coming /\ stage'[Own] = stage[Own]
          BY <1>1, <1>5, <2>1, <2>3, <3>2 DEF Coming, Handlers
        <4> QED
          BY <1>1, <1>3, <2>2, <2>3, <3>2, <4>1, TruthKept DEF AnswersInv
      <3> QED
        BY <3>1, <3>2
    <2> QED
      BY <2>5, <2>6, <2>7
  <1> QED
    BY <1>10, <1>11 DEF Handlers

\* Who copies, or is about to, does so after the relay's answer.
LEMMA AfterAnswer ==
  ASSUME AnswersInv, NEW h \in Handlers, stage[h] = "copy" \/ (stage[h] = "answer" /\ h = "daemon")
  PROVE  /\ stage["relay"] \notin Active /\ Own \in Handlers
         /\ h = "daemon" => path.at = "in" /\ Own = "daemon"
         /\ h = "relay" /\ path.at = "in" => Own = "daemon"
         /\ h = "relay" /\ path.at # "in" => Own = "relay" /\ path.at = "mid"
  <1>1. stage["relay"] \notin Active
    BY DEF AnswersInv, RelayInv, Control, DaemonAfter, Unanswered, Active, Handlers
  <1>2. path.at \in {"in", "mid"} /\ (h = "daemon" => path.at = "in")
    BY WhoAnswers DEF AnswersInv, Own
  <1> QED
    BY <1>1, <1>2 DEF Own, Handlers

\* What is written behind the answer leaves the answer where it is.
LEMMA AppendToSome ==
  ASSUME NEW M, NEW q \in Seq(M), NEW m, q # <<>>
  PROVE  /\ Append(q, m) # <<>> /\ Head(Append(q, m)) = Head(q)
         /\ DataOnly(Tail(q)) /\ IsData(m) => DataOnly(Tail(Append(q, m)))
  <1> DEFINE r == Append(q, m)
             n == Len(q)
  <1>1. /\ n \in Nat /\ n # 0 /\ r \in Seq(M \union {m}) /\ Len(r) = n + 1 /\ r[n + 1] = m
        /\ \A i \in 1..n : r[i] = q[i]
    OBVIOUS
  <1>2. /\ q[1] = Head(q) /\ Tail(q) \in Seq(M) /\ DOMAIN Tail(q) = 1..(n - 1) /\ \A i \in 1..(n - 1) : Tail(q)[i] = q[i + 1]
    BY <1>1
  <1> HIDE DEF r, n
  <1>3. r # <<>> /\ r[1] = Head(r)
    BY <1>1
  <1>4. Head(r) = Head(q)
    BY <1>1, <1>2, <1>3
  <1>5. DOMAIN Tail(r) = 1..n /\ \A i \in 1..n : Tail(r)[i] = r[i + 1]
    BY <1>1, <1>3
  <1>6. ASSUME DataOnly(Tail(q)), IsData(m), NEW i \in DOMAIN Tail(r) PROVE IsData(Tail(r)[i])
    <2>1. i \in 1..n /\ Tail(r)[i] = r[i + 1]
      BY <1>5, <1>6
    <2>2. CASE i = n
      BY <1>1, <1>6, <2>1, <2>2
    <2>3. CASE i # n
      <3>1. i \in 1..(n - 1) /\ i + 1 \in 1..n
        BY <1>1, <2>1, <2>3
      <3>2. Tail(r)[i] = Tail(q)[i] /\ i \in DOMAIN Tail(q)
        BY <1>1, <1>2, <2>1, <3>1
      <3> QED
        BY <1>6, <3>2 DEF DataOnly
    <2> QED
      BY <2>2, <2>3
  <1> QED
    BY <1>3, <1>4, <1>6 DEF DataOnly, r

\* The relay copies, or has done so.
LEMMA LockstepCopies ==
  ASSUME RelayInv, Outcome, Lockstep, path' = path, path.at = "in", stage'["daemon"] = stage["daemon"],
         stage["relay"] = "copy", stage'["relay"] \in {"copy", "done"}, seen'.reply = seen.reply,
         link'["mid"].lost = link["mid"].lost, link'["mid"].fin \subseteq link["mid"].fin \union {"r"},
         NEW m, Downward' = Downward \/ (~link["mid"].lost /\ IsData(m) /\ Downward' = Append(Downward, m))
  PROVE  Lockstep'
  <1>1. AtMethod /\ AtAuth /\ AtReply /\ AfterReply /\ seen.reply = "succeeded" /\ Downward \in Seq(Msg)
    BY LinkIsConn DEF Lockstep, Outcome, Downward, Conns
  <1>2. stage["daemon"] \notin BeforeDial /\ stage["daemon"] \notin {"cmethod", "cauth"}
    BY <1>1 DEF RelayInv, Control, DaemonAfter, AtMethod, AtAuth
  <1>3. AtMethod' /\ AtAuth'
    BY <1>2 DEF AtMethod, AtAuth
  <1>4. AtReply'
    <2>1. SUFFICES ASSUME stage["daemon"] = "creply" PROVE AtReply'
      BY DEF AtReply
    <2>2. /\ Downward # <<>> \/ link["mid"].lost
          /\ Downward # <<>> => Head(Downward) = <<"reply", seen.reply>> /\ DataOnly(Tail(Downward))
      BY <1>1, <2>1 DEF AtReply
    <2>3. CASE Downward' = Downward
      BY <1>1, <2>2, <2>3 DEF AtReply, Active, DataOnly, IsData
    <2>4. CASE ~link["mid"].lost /\ IsData(m) /\ Downward' = Append(Downward, m)
      <3>1. Downward' # <<>> /\ Head(Downward') = Head(Downward) /\ DataOnly(Tail(Downward'))
        BY <1>1, <2>2, <2>4, AppendToSome
      <3> QED
        BY <1>1, <2>2, <2>4, <3>1 DEF AtReply, Active, DataOnly, IsData
    <2> QED
      BY <2>3, <2>4
  <1>5. AfterReply'
    <2>1. DataOnly(Downward) => DataOnly(Downward')
      <3>1. CASE Downward' = Downward
        BY <3>1
      <3>2. CASE IsData(m) /\ Downward' = Append(Downward, m)
        <4>1. DataOnly(Downward) => DataOnly(Append(Downward, m))
          BY <1>1, <3>2, SetAppend
        <4> QED
          BY <3>2, <4>1
      <3> QED
        BY <3>1, <3>2
    <2> QED
      BY <1>1, <2>1 DEF AfterReply, DataOnly, IsData
  <1>6. stage'["daemon"] \in AsClient => "l" \notin link'["mid"].fin
    BY DEF Lockstep
  <1> QED
    BY <1>2, <1>3, <1>4, <1>5, <1>6 DEF Lockstep, Active

\* Data follows the answer.
LEMMA TruthCopied ==
  ASSUME OneTruth, path' = path, got' = got, AllGrow, path.at \in {"in", "mid"}, Coming \in Seq(Msg),
         stage[Own] = "copy", stage'[Own] = "copy", seen'.state = seen.state, seen'.reply = seen.reply,
         ~Broken(link[path.at], "r"), NEW m, IsData(m), Coming' = Append(Coming, m)
  PROVE  OneTruth'
  <1> DEFINE n == Len(Coming)
  <1>1. Own' = Own
    BY DEF Own
  <1>2. /\ Heading' = Heading \union {m} /\ ~IsReply(m)
    <2>1. ToSet(Append(Coming, m)) = ToSet(Coming) \union {m}
      BY SetAppend
    <2> QED
      BY <2>1 DEF Heading, IsData, IsReply
  <1>3. \A x \in Heading' : IsReply(x) => ReplyTrue(x[2])'
    <2>1. SUFFICES ASSUME NEW x \in Heading, IsReply(x) PROVE ReplyTrue(x[2])'
      BY <1>2
    <2>2. ReplyTrue(x[2])
      BY <2>1 DEF OneTruth
    <2>3. link["out"].open => link'["out"].open
      BY NewDoes DEF AllGrow, Grows, Conns
    <2> QED
      BY <2>2, <2>3 DEF ReplyTrue
  <1>4. \A x, y \in Heading' : IsReply(x) /\ IsReply(y) => x = y
    BY <1>2 DEF OneTruth
  <1>5. Succeeded \in Heading
    BY DEF OneTruth
  <1>6. /\ n \in Nat /\ DOMAIN Coming = 1..n /\ DOMAIN Coming' = 1..(n + 1)
        /\ \A i \in 1..n : Coming'[i] = Coming[i]
    OBVIOUS
  <1> HIDE DEF n
  <1>7. Succeeded \in ToSet(got.app) \/ \E j \in 1..n : Coming[j] = Succeeded
    BY <1>5, <1>6 DEF Heading, ToSet
  <1>8. ASSUME NEW i \in DOMAIN Coming', IsData(Coming'[i])
        PROVE  Succeeded \in ToSet(got'.app) \/ \E j \in 1..i - 1 : Coming'[j] = Succeeded
    <2>1. CASE i = n + 1
      <3>1. i - 1 = n
        BY <1>6, <2>1
      <3> QED
        BY <1>6, <1>7, <3>1
    <2>2. CASE i # n + 1
      <3>1. i \in 1..n /\ \A j \in 1..i - 1 : j \in 1..n
        BY <1>6, <2>2
      <3>2. Coming'[i] = Coming[i] /\ i \in DOMAIN Coming
        BY <1>6, <3>1
      <3>3. Succeeded \in ToSet(got.app) \/ \E j \in 1..i - 1 : Coming[j] = Succeeded
        BY <1>8, <3>2 DEF OneTruth
      <3> QED
        BY <1>6, <3>1, <3>3
    <2> QED
      BY <2>1, <2>2
  <1>9. (\E x \in ToSet(got'.app) : IsData(x)) => Succeeded \in ToSet(got'.app)
    BY DEF OneTruth
  <1> QED
    BY <1>1, <1>2, <1>3, <1>4, <1>5, <1>8, <1>9 DEF OneTruth, IsReply, IsData, Succeeded

\* What has been said to the other ends stays as it is.
NothingSaid == \A c \in Conns : link'[c].sent["r"] = link[c].sent["r"]

\* A handler closes, copies or stops copying, and nothing more is said.
LEMMA SilentTruth ==
  ASSUME AnswersInv, UNCHANGED <<path, late, left, got, seen>>, AllGrow, NothingSaid,
         stage["relay"] \notin Active \/ stage'["relay"] = "done",
         stage'["relay"] \in {stage["relay"], "done"}, stage'[Own] \in {stage[Own], "done"}
  PROVE  Outcome' /\ OneTruth'
  <1>1. path.at \in {"in", "mid"} /\ path.at \in Conns
    BY WhoAnswers DEF AnswersInv
  <1>2. Coming' = Coming
    BY <1>1 DEF NothingSaid, Coming
  <1>3. RelayMoves /\ DataOnly(link'["out"].sent["r"]) /\ DataOnly(left'.dest) /\ stage'["relay"] \notin Active
    BY DEF RelayMoves, AnswersInv, Outcome, NothingSaid, Conns, Active
  <1>4. Outcome'
    BY <1>3, OutcomeKept DEF AnswersInv
  <1>5. OneTruth'
    BY <1>1, <1>2, TruthKept DEF AnswersInv
  <1> QED
    BY <1>4, <1>5

\* The answer could not be written.
LEMMA AnswerFailsTruth ==
  ASSUME AnswersInv, NEW h \in Handlers, AnswerFails(h)
  PROVE  Outcome' /\ Lockstep' /\ OneTruth'
  <1> DEFINE a == Accepted(h)
             b == Made(h)
  <1>1. /\ stage[h] = "answer" /\ UNCHANGED <<path, late, left, got, seen>> /\ Move(h, "done")
        /\ a \in Conns /\ b \in Conns
    BY DEF AnswerFails, Accepted, Made, Conns
  <1>2. /\ AllGrow /\ \A k \in Conns \ {a, b} : link'[k] = link[k]
        /\ link'[a].sent = link[a].sent /\ link'[a].lost = link[a].lost /\ link'[a].fin = link[a].fin \union {"r"}
        /\ link'[b].sent = link[b].sent /\ link'[b].lost = link[b].lost /\ link'[b].fin = link[b].fin \union {"l"}
    BY BothCloseDo DEF AnswerFails, AnswersInv
  <1>3. stage'[h] = "done" /\ \A g \in Handlers : g # h => stage'[g] = stage[g]
    BY <1>1, MoveDoes DEF AnswersInv
  <1> HIDE DEF a, b
  <1>4. NothingSaid
    BY <1>1, <1>2 DEF NothingSaid
  <1>5. Own \in Handlers /\ path.at \in {"in", "mid"}
    BY WhoAnswers DEF AnswersInv
  <1>6. CASE h = "daemon"
    <2>1. path.at = "in" /\ stage["relay"] \notin Active /\ stage'["relay"] = stage["relay"]
      BY <1>1, <1>3, <1>6, AfterAnswer DEF Handlers
    <2>2. Lockstep'
      BY <1>1, <1>3, <1>6, <2>1, LockstepLater
    <2>3. Outcome' /\ OneTruth'
      BY <1>1, <1>2, <1>3, <1>4, <1>5, <1>6, <2>1, SilentTruth
    <2> QED
      BY <2>2, <2>3
  <1>7. CASE h = "relay"
    <2>1. /\ stage["relay"] \in Active /\ stage'["relay"] = "done" /\ stage'["daemon"] = stage["daemon"] /\ a = "mid"
      BY <1>1, <1>3, <1>7 DEF Handlers, Active, Accepted, a
    <2>2. Lockstep'
      <3>1. CASE path.at = "in"
        <4>1. Downward' = Downward /\ link'["mid"].lost = link["mid"].lost /\ link'["mid"].fin \subseteq link["mid"].fin \union {"r"}
          BY <1>2, <2>1 DEF Downward
        <4> QED
          BY <1>1, <2>1, <3>1, <4>1, LockstepRelayEnds DEF AnswersInv
      <3>2. CASE path.at # "in"
        BY <1>1, <3>2, LockstepAway
      <3> QED
        BY <3>1, <3>2
    <2>3. stage'[Own] \in {stage[Own], "done"}
      BY <1>3, <1>5, <1>7
    <2>4. Outcome' /\ OneTruth'
      BY <1>1, <1>2, <1>4, <2>1, <2>3, SilentTruth
    <2> QED
      BY <2>2, <2>4
  <1> QED
    BY <1>6, <1>7 DEF Handlers

\* While a handler copies, what it does between the daemon and the relay keeps
\* them in step.
LEMMA CopiesInStep ==
  ASSUME AnswersInv, NEW h \in Handlers, stage[h] = "copy", stage'[h] \in {"copy", "done"},
         \A g \in Handlers : g # h => stage'[g] = stage[g],
         path' = path, seen' = seen,
         h = "daemon" => Downward' = Downward \/ (Downward # <<>> /\ Downward' = Tail(Downward)),
         h = "relay" => link'["mid"].lost = link["mid"].lost /\ link'["mid"].fin \subseteq link["mid"].fin \union {"r"},
         NEW m, h = "relay" => Downward' = Downward \/ (~link["mid"].lost /\ IsData(m) /\ Downward' = Append(Downward, m))
  PROVE  Lockstep'
  <1>1. /\ stage["relay"] \notin Active /\ (h = "daemon" => path.at = "in") /\ Downward \in Seq(Msg)
    BY AfterAnswer, LinkIsConn DEF AnswersInv, Downward, Conns
  <1>2. CASE path.at # "in"
    BY <1>2, LockstepAway
  <1>3. CASE path.at = "in" /\ h = "daemon"
    <2>1. seen'.reply = "succeeded" /\ DataOnly(Downward)
      BY <1>3 DEF AnswersInv, Lockstep, AfterReply
    <2>2. DataOnly(Downward')
      <3>1. Downward # <<>> => DataOnly(Tail(Downward))
        BY <1>1, <2>1, SetTail
      <3>2. CASE Downward' = Downward
        BY <2>1, <3>2
      <3>3. CASE Downward # <<>> /\ Downward' = Tail(Downward)
        BY <3>1, <3>3
      <3> QED
        BY <1>3, <3>2, <3>3
    <2>3. stage'["relay"] = stage["relay"]
      BY <1>3 DEF Handlers
    <2> QED
      BY <1>1, <1>3, <2>1, <2>2, <2>3, LockstepLater
  <1>4. CASE path.at = "in" /\ h = "relay"
    <2>1. stage'["daemon"] = stage["daemon"]
      BY <1>4 DEF Handlers
    <2> QED
      BY <1>4, <2>1, LockstepCopies DEF AnswersInv
  <1> QED
    BY <1>2, <1>3, <1>4 DEF Handlers

\* Both directions are over.
LEMMA PipeDoneTruth ==
  ASSUME AnswersInv, NEW h \in Handlers, PipeDone(h)
  PROVE  Outcome' /\ Lockstep' /\ OneTruth'
  <1> DEFINE a == Accepted(h)
             b == Made(h)
  <1>1. /\ stage[h] = "copy" /\ UNCHANGED <<path, late, left, got, seen>> /\ Move(h, "done")
        /\ a \in Conns /\ b \in Conns
    BY DEF PipeDone, Accepted, Made, Conns
  <1>2. /\ AllGrow /\ \A k \in Conns \ {a, b} : link'[k] = link[k]
        /\ link'[a].sent = link[a].sent /\ link'[a].lost = link[a].lost /\ link'[a].fin = link[a].fin \union {"r"}
        /\ link'[b].sent = link[b].sent /\ link'[b].lost = link[b].lost /\ link'[b].fin = link[b].fin \union {"l"}
    BY BothCloseDo DEF PipeDone, AnswersInv
  <1>3. stage'[h] = "done" /\ \A g \in Handlers : g # h => stage'[g] = stage[g]
    BY <1>1, MoveDoes DEF AnswersInv
  <1>4. h = "relay" => a = "mid"
    BY DEF Accepted
  <1> HIDE DEF a, b
  <1>5. NothingSaid
    BY <1>1, <1>2 DEF NothingSaid
  <1>6. Own \in Handlers /\ stage["relay"] \notin Active
    BY <1>1, AfterAnswer
  <1>7. Outcome' /\ OneTruth'
    <2>1. stage'["relay"] \in {stage["relay"], "done"} /\ stage'[Own] \in {stage[Own], "done"}
      BY <1>3, <1>6 DEF Handlers
    <2> QED
      BY <1>1, <1>2, <1>5, <1>6, <2>1, SilentTruth
  <1>8. Lockstep'
    <2> DEFINE m == "none"
    <2>1. Downward' = Downward
      BY <1>5 DEF NothingSaid, Downward, Conns
    <2>2. h = "relay" => link'["mid"].lost = link["mid"].lost /\ link'["mid"].fin \subseteq link["mid"].fin \union {"r"}
      BY <1>2, <1>4
    <2>3. h = "relay" => Downward' = Downward \/ (~link["mid"].lost /\ IsData(m) /\ Downward' = Append(Downward, m))
      BY <2>1
    <2> HIDE DEF m
    <2> QED
      BY <1>1, <1>3, <2>1, <2>2, <2>3, CopiesInStep
  <1> QED
    BY <1>7, <1>8

\* One direction is over.
LEMMA CopyEndsTruth ==
  ASSUME AnswersInv, NEW h \in Handlers, NEW d \in Dirs, CopyEnds(h, d)
  PROVE  Outcome' /\ Lockstep' /\ OneTruth'
  <1> DEFINE c == Target(h, d)[1]
             s == Target(h, d)[2]
  <1>1. /\ d \in copying[h] /\ UNCHANGED <<path, stage, late, left, got, seen>>
        /\ c \in Conns /\ s \in Sides /\ (h = "relay" /\ c = "mid" => s = "r")
    BY DEF CopyEnds, Target, Accepted, Made, Conns, Sides, Handlers
  <1>2. link' = [link EXCEPT ![c] = CloseWrite(link[c], s)]
    BY <1>1 DEF CopyEnds, AnswersInv, RelayInv, LinksOK
  <1> HIDE DEF c, s
  <1>3. /\ AllGrow /\ \A k \in Conns : k # c => link'[k] = link[k]
        /\ link'[c].sent = link[c].sent /\ link'[c].lost = link[c].lost /\ link'[c].fin = link[c].fin \union {s}
    <2> DEFINE e == CloseWrite(link[c], s)
    <2>1. e \in {CloseWrite(link[c], s), CloseSide(link[c], s)} /\ link' = [link EXCEPT ![c] = e]
      BY <1>2
    <2> HIDE DEF e
    <2> QED
      BY <1>1, <2>1, ClosesDo DEF AnswersInv
  <1>4. stage[h] = "copy"
    BY <1>1 DEF AnswersInv, RelayInv, Control, Copying
  <1>5. NothingSaid
    BY <1>1, <1>3 DEF NothingSaid
  <1>6. Own \in Handlers /\ stage["relay"] \notin Active
    BY <1>4, AfterAnswer
  <1>7. Outcome' /\ OneTruth'
    BY <1>1, <1>3, <1>5, <1>6, SilentTruth
  <1>8. Lockstep'
    <2> DEFINE m == "none"
    <2>1. Downward' = Downward
      BY <1>5 DEF NothingSaid, Downward, Conns
    <2>2. h = "relay" => link'["mid"].lost = link["mid"].lost /\ link'["mid"].fin \subseteq link["mid"].fin \union {"r"}
      <3>1. CASE c = "mid"
        BY <1>1, <1>3, <3>1
      <3>2. CASE c # "mid"
        BY <1>3, <3>2 DEF Conns
      <3> QED
        BY <3>1, <3>2
    <2>3. h = "relay" => Downward' = Downward \/ (~link["mid"].lost /\ IsData(m) /\ Downward' = Append(Downward, m))
      BY <2>1
    <2> HIDE DEF m
    <2> QED
      BY <1>1, <1>4, <2>1, <2>2, <2>3, CopiesInStep
  <1> QED
    BY <1>7, <1>8

\* A chunk goes from one connection of the handler to the other.
LEMMA ChunkDoes ==
  ASSUME RelayInv, NEW h \in Handlers, NEW d \in Dirs, CopyChunk(h, d)
  PROVE  LET a == Source(h, d)[1]
             b == Target(h, d)[1]
             q == link[a].sent["r"]
         IN /\ AllGrow /\ \A k \in Conns \ {a, b} : link'[k] = link[k]
            /\ SameEnds(link[a], link'[a]) /\ SameEnds(link[b], link'[b])
            /\ d = "up" => link'[a].sent["r"] = q /\ link'[b].sent["r"] = link[b].sent["r"]
            /\ d = "down" => /\ q # <<>> /\ link'[a].sent["r"] = Tail(q)
                             /\ link'[b].sent["r"] = IF Broken(link[b], "r") THEN link[b].sent["r"] ELSE Append(link[b].sent["r"], Head(q))
  <1> DEFINE a == Source(h, d)[1]
             s == Source(h, d)[2]
             b == Target(h, d)[1]
             t == Target(h, d)[2]
             m == FirstOf(link[a], s)
             x == Take(link[a], s)
             y == Put(link[b], t, m)
  <1>1. /\ a \in Conns /\ b \in Conns \ {a} /\ b \in Conns /\ s \in Sides /\ t \in Sides
        /\ d = "up" => s = "r" /\ t = "l"
        /\ d = "down" => s = "l" /\ t = "r"
        /\ Peer("l") = "r" /\ Peer("r") = "l"
    BY DEF Source, Target, Accepted, Made, Conns, Sides, Handlers, Dirs, Peer
  <1>2. /\ link' = [link EXCEPT ![a] = Take(@, s), ![b] = Put(@, t, FirstOf(link[a], s))]
        /\ Readable(link[a], s)
    BY DEF CopyChunk
  <1> HIDE DEF a, s, b, t
  <1>3. link' = [link EXCEPT ![a] = x, ![b] = y]
    <2>1. link = [j \in Conns |-> link[j]]
      BY DEF RelayInv, LinksOK
    <2> QED
      BY <1>1, <1>2, <2>1
  <1> DEFINE u == link[a]
             v == link[b]
  <1>4. IsConn(u) /\ IsConn(v)
    BY <1>1, LinkIsConn
  <1>5. m = Head(u.sent[Peer(s)]) /\ u.sent[Peer(s)] # <<>>
    BY <1>2 DEF FirstOf, Readable
  <1>6. SameEnds(u, x) /\ x.sent[Peer(s)] = Tail(u.sent[Peer(s)]) /\ x.sent[s] = u.sent[s] /\ Grows(u, x)
    <2> HIDE DEF u
    <2>1. /\ SameEnds(u, Take(u, s)) /\ Take(u, s).sent[Peer(s)] = Tail(u.sent[Peer(s)])
          /\ Take(u, s).sent[s] = u.sent[s] /\ Grows(u, Take(u, s))
      BY <1>1, <1>4, TakeDoes, EndsGrow
    <2> QED
      BY <2>1 DEF u
  <1>7. /\ SameEnds(v, y) /\ y.sent[Peer(t)] = v.sent[Peer(t)] /\ Grows(v, y)
        /\ y.sent[t] = IF Broken(v, t) THEN v.sent[t] ELSE Append(v.sent[t], m)
    <2> HIDE DEF v, m
    <2>1. /\ SameEnds(v, Put(v, t, m)) /\ Put(v, t, m).sent[Peer(t)] = v.sent[Peer(t)] /\ Grows(v, Put(v, t, m))
          /\ Put(v, t, m).sent[t] = IF Broken(v, t) THEN v.sent[t] ELSE Append(v.sent[t], m)
      BY <1>1, <1>4, PutDoes, OpsGrow
    <2> QED
      BY <2>1 DEF v
  <1> HIDE DEF x, y, m, u, v
  <1>8. AllGrow
    BY <1>1, <1>3, <1>6, <1>7, TwoGrow DEF u, v
  <1>9. link'[a] = x /\ link'[b] = y /\ \A j \in Conns \ {a, b} : link'[j] = link[j]
    BY <1>1, <1>3 DEF RelayInv, LinksOK
  <1>10. d = "up" => x.sent["r"] = u.sent["r"] /\ y.sent["r"] = v.sent["r"]
    BY <1>1, <1>6, <1>7
  <1>11. d = "down" => /\ u.sent["r"] # <<>> /\ x.sent["r"] = Tail(u.sent["r"])
                       /\ y.sent["r"] = IF Broken(v, "r") THEN v.sent["r"] ELSE Append(v.sent["r"], Head(u.sent["r"]))
    BY <1>1, <1>5, <1>6, <1>7
  <1> QED
    BY <1>6, <1>7, <1>8, <1>9, <1>10, <1>11 DEF u, v, a, b

\* Where what a handler carries down comes from and goes to.
LEMMA DownEnds ==
  ASSUME NEW h \in Handlers
  PROVE  /\ Source(h, "down")[1] = Made(h) /\ Target(h, "down")[1] = Accepted(h)
         /\ Source(h, "up")[1] = Accepted(h) /\ Target(h, "up")[1] = Made(h)
         /\ h = "daemon" => Accepted(h) = "in" /\ Made(h) = "mid"
         /\ h = "relay" => Accepted(h) = "mid" /\ Made(h) = "out"
         /\ Accepted(h) \in Conns /\ Made(h) \in Conns /\ Accepted(h) # Made(h)
  BY DEF Source, Target, Accepted, Made, Handlers, Conns

\* Data is copied behind the answer.
LEMMA ChunkTruth ==
  ASSUME AnswersInv, NEW h \in Handlers, NEW d \in Dirs, CopyChunk(h, d)
  PROVE  Outcome' /\ Lockstep' /\ OneTruth'
  <1> DEFINE a == Source(h, d)[1]
             b == Target(h, d)[1]
             q == link[a].sent["r"]
             m == Head(q)
  <1>1. /\ d \in copying[h] /\ UNCHANGED <<path, stage, late, left, got, seen>>
        /\ a \in Conns /\ b \in Conns /\ a # b
    BY DownEnds DEF CopyChunk, Dirs
  <1>2. /\ AllGrow /\ \A k \in Conns \ {a, b} : link'[k] = link[k]
        /\ SameEnds(link[a], link'[a]) /\ SameEnds(link[b], link'[b])
        /\ d = "up" => link'[a].sent["r"] = q /\ link'[b].sent["r"] = link[b].sent["r"]
        /\ d = "down" => /\ q # <<>> /\ link'[a].sent["r"] = Tail(q)
                         /\ link'[b].sent["r"] = IF Broken(link[b], "r") THEN link[b].sent["r"] ELSE Append(link[b].sent["r"], m)
    BY ChunkDoes DEF AnswersInv
  <1>3. /\ d = "down" => a = Made(h) /\ b = Accepted(h)
        /\ h = "daemon" => Accepted(h) = "in" /\ Made(h) = "mid"
        /\ h = "relay" => Accepted(h) = "mid" /\ Made(h) = "out"
    BY DownEnds
  <1>4. stage[h] = "copy"
    BY <1>1 DEF AnswersInv, RelayInv, Control, Copying
  <1>5. /\ stage["relay"] \notin Active /\ Own \in Handlers
        /\ h = "daemon" => path.at = "in" /\ Own = "daemon"
        /\ h = "relay" /\ path.at = "in" => Own = "daemon"
        /\ h = "relay" /\ path.at # "in" => Own = "relay" /\ path.at = "mid"
    BY <1>4, AfterAnswer
  <1>6. q \in Seq(Msg)
    BY <1>1, LinkIsConn DEF AnswersInv
  <1>7. link'["mid"].lost = link["mid"].lost /\ link'["mid"].fin = link["mid"].fin
    <2>1. link'["mid"] = link["mid"] \/ SameEnds(link["mid"], link'["mid"])
      BY <1>2 DEF Conns
    <2> QED
      BY <2>1 DEF SameEnds
  <1> HIDE DEF a, b, q, m
  <1>8. CASE d = "up"
    <2>1. NothingSaid
      BY <1>1, <1>2, <1>8 DEF NothingSaid, q
    <2>2. Outcome' /\ OneTruth'
      BY <1>1, <1>2, <1>5, <2>1, SilentTruth
    <2>3. Downward' = Downward
      BY <2>1 DEF NothingSaid, Downward, Conns
    <2>4. h = "relay" => Downward' = Downward \/ (~link["mid"].lost /\ IsData(m) /\ Downward' = Append(Downward, m))
      BY <2>3
    <2>5. Lockstep'
      BY <1>1, <1>4, <1>7, <2>3, <2>4, CopiesInStep
    <2> QED
      BY <2>2, <2>5
  <1>9. CASE d = "down"
    <2>1. DataOnly(q)
      <3>1. CASE h = "daemon"
        BY <1>3, <1>4, <1>5, <1>9, <3>1 DEF q, AnswersInv, Lockstep, AfterReply, Downward
      <3>2. CASE h = "relay"
        BY <1>3, <1>9, <3>2 DEF q, AnswersInv, Outcome
      <3> QED
        BY <3>1, <3>2 DEF Handlers
    <2>2. IsData(m) /\ DataOnly(Tail(q)) /\ q # <<>>
      BY <1>2, <1>6, <1>9, <2>1, SetTail DEF m
    <2>3. Outcome'
      <3>1. DataOnly(link'["out"].sent["r"])
        <4>1. CASE h = "daemon"
          <5>1. link'["out"] = link["out"]
            BY <1>2, <1>3, <1>9, <4>1 DEF Conns
          <5> QED
            BY <5>1 DEF AnswersInv, Outcome
        <4>2. CASE h = "relay"
          <5>1. link'["out"].sent["r"] = Tail(q)
            BY <1>2, <1>3, <1>9, <4>2
          <5> QED
            BY <2>2, <5>1
        <4> QED
          BY <4>1, <4>2 DEF Handlers
      <3>2. RelayMoves /\ DataOnly(left'.dest) /\ stage'["relay"] \notin Active
        BY <1>1, <1>5 DEF RelayMoves, AnswersInv, Outcome
      <3> QED
        BY <1>1, <1>2, <3>1, <3>2, OutcomeKept DEF AnswersInv
    <2>4. Lockstep'
      <3>1. h = "daemon" => Downward # <<>> /\ Downward' = Tail(Downward)
        BY <1>2, <1>3, <1>9 DEF q, Downward
      <3>2. h = "relay" => Downward' = Downward \/ (~link["mid"].lost /\ IsData(m) /\ Downward' = Append(Downward, m))
        BY <1>2, <1>3, <1>9, <2>2 DEF Downward, Broken
      <3> QED
        BY <1>1, <1>4, <1>7, <3>1, <3>2, CopiesInStep
    <2>5. OneTruth'
      <3>1. path.at \in {"in", "mid"} /\ Coming \in Seq(Msg)
        BY WhoAnswers DEF AnswersInv
      <3>2. CASE h = Own
        <4>1. b = path.at
          BY <1>3, <1>5, <1>9, <3>2 DEF Own
        <4>2. Coming' = IF Broken(link[path.at], "r") THEN Coming ELSE Append(Coming, m)
          BY <1>1, <1>2, <1>9, <4>1 DEF Coming
        <4>3. CASE Broken(link[path.at], "r")
          BY <1>1, <1>2, <3>1, <4>2, <4>3, TruthKept DEF AnswersInv
        <4>4. CASE ~Broken(link[path.at], "r")
          BY <1>1, <1>2, <1>4, <2>2, <3>1, <3>2, <4>2, <4>4, TruthCopied DEF AnswersInv
        <4> QED
          BY <4>3, <4>4
      <3>3. CASE h # Own
        <4>1. h = "relay" /\ path.at = "in"
          BY <1>5, <3>3 DEF Handlers
        <4>2. Coming' = Coming
          BY <1>1, <1>2, <1>3, <1>9, <4>1 DEF Coming, Conns
        <4> QED
          BY <1>1, <1>2, <3>1, <4>2, TruthKept DEF AnswersInv
      <3> QED
        BY <3>2, <3>3
    <2> QED
      BY <2>3, <2>4, <2>5
  <1> QED
    BY <1>8, <1>9 DEF Dirs

-----------------------------------------------------------------------------
(* The outside.                                                            *)

\* The application reads the next message.
LEMMA TruthRead ==
  ASSUME OneTruth, path' = path, AllGrow, path.at \in {"in", "mid"}, Coming \in Seq(Msg), got.app \in Seq(Msg),
         UNCHANGED <<stage, seen>>, Coming # <<>>, Coming' = Tail(Coming), got'.app = Append(got.app, Head(Coming))
  PROVE  OneTruth'
  <1> DEFINE n == Len(Coming)
             m == Head(Coming)
  <1>1. Own' = Own
    BY DEF Own
  <1>2. /\ ToSet(Coming) = {m} \union ToSet(Tail(Coming)) /\ m = Coming[1] /\ n \in Nat \ {0} /\ Tail(Coming) \in Seq(Msg)
        /\ Len(Tail(Coming)) = n - 1 /\ \A i \in 1..(n - 1) : Tail(Coming)[i] = Coming[i + 1]
    BY SetTail
  <1>3. ToSet(Append(got.app, m)) = ToSet(got.app) \union {m}
    BY SetAppend
  <1>4. Heading' = Heading /\ ToSet(got'.app) = ToSet(got.app) \union {m}
    BY <1>2, <1>3 DEF Heading
  <1>5. DOMAIN Coming = 1..n /\ DOMAIN Coming' = 1..(n - 1) /\ \A i \in 1..(n - 1) : Coming'[i] = Coming[i + 1]
    BY <1>2
  <1> HIDE DEF n, m
  <1>6. \A x \in Heading' : IsReply(x) => ReplyTrue(x[2])'
    <2>1. SUFFICES ASSUME NEW x \in Heading, IsReply(x) PROVE ReplyTrue(x[2])'
      BY <1>4
    <2>2. ReplyTrue(x[2])
      BY <2>1 DEF OneTruth
    <2>3. link["out"].open => link'["out"].open
      BY NewDoes DEF AllGrow, Grows, Conns
    <2> QED
      BY <2>2, <2>3 DEF ReplyTrue
  <1>7. stage'[Own] = "copy" => Succeeded \in Heading' \/ Broken(link[path.at], "r")'
    <2>1. Broken(link[path.at], "r") => Broken(link[path.at], "r")'
      BY DEF AllGrow, Grows, Conns, Broken, Peer
    <2> QED
      BY <1>4, <2>1 DEF OneTruth
  <1>8. (\E x \in ToSet(got'.app) : IsData(x)) => Succeeded \in ToSet(got'.app)
    <2>1. IsData(m) => Succeeded \in ToSet(got.app)
      <3>1. 1 \in DOMAIN Coming /\ ~\E j \in 1..1 - 1 : Coming[j] = Succeeded
        BY <1>2, <1>5
      <3> QED
        BY <1>2, <3>1 DEF OneTruth
    <2> QED
      BY <1>4, <2>1 DEF OneTruth
  <1>9. ASSUME NEW i \in DOMAIN Coming', IsData(Coming'[i])
        PROVE  Succeeded \in ToSet(got'.app) \/ \E j \in 1..i - 1 : Coming'[j] = Succeeded
    <2>1. i + 1 \in DOMAIN Coming /\ Coming'[i] = Coming[i + 1] /\ i \in 1..(n - 1) /\ (i + 1) - 1 = i
      BY <1>2, <1>5
    <2>2. Succeeded \in ToSet(got.app) \/ \E j \in 1..(i + 1) - 1 : Coming[j] = Succeeded
      BY <1>9, <2>1 DEF OneTruth
    <2>3. ASSUME NEW j \in 1..i, Coming[j] = Succeeded
          PROVE  Succeeded = m \/ \E k \in 1..i - 1 : Coming'[k] = Succeeded
      <3>1. CASE j = 1
        BY <1>2, <2>3, <3>1
      <3>2. CASE j # 1
        <4>1. j - 1 \in 1..i - 1 /\ j - 1 \in 1..(n - 1) /\ (j - 1) + 1 = j
          BY <1>2, <2>1, <3>2
        <4>2. Coming'[j - 1] = Coming[(j - 1) + 1]
          BY <1>5, <4>1
        <4> QED
          BY <2>3, <4>1, <4>2
      <3> QED
        BY <3>1, <3>2
    <2> QED
      BY <1>4, <2>1, <2>2, <2>3
  <1>10. /\ stage'[Own] \notin {"copy", "done"} => \A x \in Heading' : ~IsReply(x) /\ ~IsData(x)
         /\ \A x, y \in Heading' : IsReply(x) /\ IsReply(y) => x = y
    BY <1>4 DEF OneTruth
  <1> QED
    BY <1>1, <1>6, <1>7, <1>8, <1>9, <1>10 DEF OneTruth, IsReply, IsData, Succeeded

\* What the application and the destination do changes neither what the relay
\* has said nor what is between the daemon and it.
LEMMA EndsInStep ==
  ASSUME AnswersInv, UNCHANGED <<path, stage, late, seen>>, AllGrow,
         path.at = "in" => link'["mid"] = link["mid"],
         link'["mid"].fin \subseteq link["mid"].fin \union {"l"},
         DataOnly(link'["out"].sent["r"]), DataOnly(left'.dest)
  PROVE  Outcome' /\ Lockstep'
  <1>1. RelayMoves
    BY DEF RelayMoves
  <1>2. Outcome'
    BY <1>1, OutcomeKept DEF AnswersInv
  <1>3. Lockstep'
    BY LockstepKept DEF AnswersInv
  <1> QED
    BY <1>2, <1>3

\* What is known of the two ends.
LEMMA EndsKnown ==
  ASSUME AnswersInv
  PROVE  /\ path.at \in {"in", "mid"} /\ path.at \in Conns /\ "out" \in Conns /\ "out" # path.at /\ "mid" \in Conns /\ "mid" # "out"
         /\ "l" \in Sides /\ "r" \in Sides /\ Peer("l") = "r" /\ Peer("r") = "l"
         /\ Coming \in Seq(Msg) /\ got.app \in Seq(Msg) /\ left.dest \in Seq(Msg)
         /\ left \in [app : Seq(Msg), dest : Seq(Msg)] /\ got \in [app : Seq(Msg), dest : Seq(Msg)]
         /\ DataOnly(link["out"].sent["r"]) /\ DataOnly(left.dest)
         /\ RelayInv /\ link = [c \in Conns |-> link[c]]
  <1>1. path.at \in {"in", "mid"} /\ Coming \in Seq(Msg)
    BY WhoAnswers DEF AnswersInv
  <1>2. "out" \in Conns /\ "in" \in Conns /\ "mid" \in Conns /\ "l" \in Sides /\ "r" \in Sides /\ Peer("l") = "r" /\ Peer("r") = "l"
    BY DEF Conns, Sides, Peer
  <1>3. RelayInv /\ link = [c \in Conns |-> link[c]]
    BY DEF AnswersInv, RelayInv, LinksOK
  <1>4. left \in [app : Seq(Msg), dest : Seq(Msg)] /\ got \in [app : Seq(Msg), dest : Seq(Msg)]
    BY DEF AnswersInv, RelayInv, Control, PathTypes
  <1>5. DataOnly(link["out"].sent["r"]) /\ DataOnly(left.dest)
    BY DEF AnswersInv, Outcome
  <1> QED
    BY <1>1, <1>2, <1>3, <1>4, <1>5

\* The application sends, and reads.
LEMMA AppSpeaksTruth ==
  ASSUME AnswersInv, AppSends \/ AppReads
  PROVE  Outcome' /\ Lockstep' /\ OneTruth'
  <1> DEFINE c == path.at
  <1>1. /\ c \in {"in", "mid"} /\ c \in Conns /\ "out" \in Conns /\ "out" # c /\ "mid" \in Conns /\ RelayInv
        /\ "l" \in Sides /\ Peer("l") = "r" /\ DataOnly(link["out"].sent["r"]) /\ DataOnly(left.dest)
        /\ Coming \in Seq(Msg) /\ got.app \in Seq(Msg)
        /\ left \in [app : Seq(Msg), dest : Seq(Msg)] /\ got \in [app : Seq(Msg), dest : Seq(Msg)]
    BY EndsKnown
  <1>2. UNCHANGED <<path, stage, late, seen>> /\ left'.dest = left.dest
    BY <1>1 DEF AppSends, AppReads
  <1>3. /\ AllGrow /\ (\A k \in Conns : k # c => link'[k] = link[k]) /\ SameEnds(link[c], link'[c])
        /\ \/ Coming' = Coming /\ got' = got
           \/ Coming # <<>> /\ Coming' = Tail(Coming) /\ got'.app = Append(got.app, Head(Coming))
    <2>1. CASE AppSends
      <3> DEFINE m == Head(left.app)
      <3>1. link' = [link EXCEPT ![c] = Put(link[c], "l", m)] /\ got' = got /\ path' = path
        BY <2>1, EndsKnown DEF AppSends
      <3> HIDE DEF c, m
      <3>2. /\ AllGrow /\ \A k \in Conns : k # c => link'[k] = link[k]
            /\ SameEnds(link[c], link'[c]) /\ link'[c].sent[Peer("l")] = link[c].sent[Peer("l")]
        BY <1>1, <3>1, WritesDo
      <3>3. Coming' = Coming
        BY <1>1, <3>1, <3>2 DEF Coming, c
      <3> QED
        BY <3>1, <3>2, <3>3
    <2>2. CASE AppReads
      <3>1. /\ link' = [link EXCEPT ![c] = Take(link[c], "l")] /\ path' = path
            /\ got' = [got EXCEPT !.app = Append(@, FirstOf(link[c], "l"))] /\ Readable(link[c], "l")
        BY <2>2, EndsKnown DEF AppReads
      <3> HIDE DEF c
      <3>2. /\ AllGrow /\ \A k \in Conns : k # c => link'[k] = link[k]
            /\ SameEnds(link[c], link'[c]) /\ link'[c].sent[Peer("l")] = Tail(link[c].sent[Peer("l")])
        BY <1>1, <3>1, ReadsDo
      <3>3. Coming # <<>> /\ Coming' = Tail(Coming) /\ FirstOf(link[c], "l") = Head(Coming)
        BY <1>1, <3>1, <3>2 DEF Coming, c, Readable, FirstOf
      <3>4. got'.app = Append(got.app, Head(Coming))
        BY <1>1, <3>1, <3>3
      <3> QED
        BY <3>2, <3>3, <3>4
    <2> QED
      BY <2>1, <2>2
  <1> HIDE DEF c
  <1>4. link'["out"] = link["out"] /\ (path.at = "in" => link'["mid"] = link["mid"])
    BY <1>1, <1>3 DEF c
  <1>5. link'["mid"].fin = link["mid"].fin
    <2>1. link'["mid"] = link["mid"] \/ SameEnds(link["mid"], link'["mid"])
      BY <1>1, <1>3
    <2> QED
      BY <2>1 DEF SameEnds
  <1>6. Outcome' /\ Lockstep'
    BY <1>1, <1>2, <1>3, <1>4, <1>5, EndsInStep
  <1>7. OneTruth'
    <2>1. CASE Coming' = Coming /\ got' = got
      BY <1>1, <1>2, <1>3, <2>1, TruthKept DEF AnswersInv, c
    <2>2. CASE Coming # <<>> /\ Coming' = Tail(Coming) /\ got'.app = Append(got.app, Head(Coming))
      BY <1>1, <1>2, <1>3, <2>2, TruthRead DEF AnswersInv, c
    <2> QED
      BY <1>3, <2>1, <2>2
  <1> QED
    BY <1>6, <1>7

\* The application ends its side, or closes.
LEMMA AppLeavesTruth ==
  ASSUME AnswersInv, AppEnds \/ AppCloses
  PROVE  Outcome' /\ Lockstep' /\ OneTruth'
  <1> DEFINE c == path.at
  <1>1. /\ c \in {"in", "mid"} /\ c \in Conns /\ "out" \in Conns /\ "out" # c /\ "mid" \in Conns /\ RelayInv
        /\ "l" \in Sides /\ DataOnly(link["out"].sent["r"]) /\ DataOnly(left.dest)
        /\ left \in [app : Seq(Msg), dest : Seq(Msg)] /\ link = [k \in Conns |-> link[k]]
    BY EndsKnown
  <1>2. UNCHANGED <<path, stage, late, seen, got>> /\ left'.dest = left.dest
    BY <1>1 DEF AppEnds, AppCloses
  <1>3. PICK d \in {CloseWrite(link[c], "l"), CloseSide(link[c], "l")} : link' = [link EXCEPT ![c] = d]
    BY <1>1 DEF AppEnds, AppCloses
  <1> HIDE DEF c
  <1>4. /\ AllGrow /\ \A k \in Conns : k # c => link'[k] = link[k]
        /\ link'[c].sent = link[c].sent /\ link'[c].fin = link[c].fin \union {"l"}
    BY <1>1, <1>3, ClosesDo
  <1>5. Coming' = Coming
    BY <1>2, <1>4 DEF Coming, c
  <1>6. link'["out"] = link["out"] /\ (path.at = "in" => link'["mid"] = link["mid"])
    BY <1>1, <1>4 DEF c
  <1>7. link'["mid"].fin \subseteq link["mid"].fin \union {"l"}
    <2>1. link'["mid"] = link["mid"] \/ link'["mid"].fin = link["mid"].fin \union {"l"}
      BY <1>1, <1>4
    <2> QED
      BY <2>1
  <1>8. Outcome' /\ Lockstep'
    BY <1>1, <1>2, <1>4, <1>6, <1>7, EndsInStep
  <1>9. OneTruth'
    BY <1>1, <1>2, <1>4, <1>5, TruthKept DEF AnswersInv, c
  <1> QED
    BY <1>8, <1>9

\* The destination reads, sends and closes.
LEMMA DestTruth ==
  ASSUME AnswersInv, DestReads \/ DestSends \/ DestCloses
  PROVE  Outcome' /\ Lockstep' /\ OneTruth'
  <1>1. /\ path.at \in {"in", "mid"} /\ path.at \in Conns /\ "out" \in Conns /\ "out" # path.at /\ "mid" \in Conns /\ "mid" # "out" /\ RelayInv
        /\ "l" \in Sides /\ "r" \in Sides /\ Peer("l") = "r" /\ Peer("r") = "l"
        /\ DataOnly(link["out"].sent["r"]) /\ DataOnly(left.dest) /\ left.dest \in Seq(Msg)
        /\ left \in [app : Seq(Msg), dest : Seq(Msg)] /\ got \in [app : Seq(Msg), dest : Seq(Msg)]
        /\ link = [k \in Conns |-> link[k]]
    BY EndsKnown
  <1>2. link["out"].sent["r"] \in Seq(Msg)
    BY <1>1, LinkIsConn
  <1>3. /\ UNCHANGED <<path, stage, late, seen>> /\ got'.app = got.app
        /\ AllGrow /\ \A k \in Conns : k # "out" => link'[k] = link[k]
        /\ DataOnly(link'["out"].sent["r"]) /\ DataOnly(left'.dest)
    <2>1. CASE DestReads
      <3>1. /\ UNCHANGED <<path, stage, late, left, seen>> /\ got'.app = got.app
            /\ link' = [link EXCEPT !["out"] = Take(link["out"], "r")]
        BY <1>1, <2>1 DEF DestReads
      <3>2. /\ AllGrow /\ \A k \in Conns : k # "out" => link'[k] = link[k]
            /\ link'["out"].sent["r"] = link["out"].sent["r"]
        BY <1>1, <3>1, ReadsDo
      <3> QED
        BY <1>1, <3>1, <3>2
    <2>2. CASE DestSends
      <3> DEFINE m == Head(left.dest)
      <3>1. /\ UNCHANGED <<path, stage, late, got, seen>> /\ left.dest # <<>> /\ left'.dest = Tail(left.dest)
            /\ link' = [link EXCEPT !["out"] = Put(link["out"], "r", m)]
        BY <1>1, <2>2 DEF DestSends
      <3>2. IsData(m) /\ DataOnly(Tail(left.dest))
        BY <1>1, <3>1, SetTail
      <3> HIDE DEF m
      <3>3. /\ AllGrow /\ \A k \in Conns : k # "out" => link'[k] = link[k]
            /\ link'["out"].sent["r"] = link["out"].sent["r"] \/ link'["out"].sent["r"] = Append(link["out"].sent["r"], m)
        <4>1. link' = [link EXCEPT !["out"] = Put(link["out"], "r", m)] /\ RelayInv /\ "out" \in Conns /\ "r" \in Sides
          BY <1>1, <3>1
        <4>2. /\ AllGrow /\ \A k \in Conns : k # "out" => link'[k] = link[k]
              /\ link'["out"].sent["r"] = IF Broken(link["out"], "r") THEN link["out"].sent["r"] ELSE Append(link["out"].sent["r"], m)
          BY <4>1, WritesDo
        <4> QED
          BY <4>2
      <3>4. DataOnly(Append(link["out"].sent["r"], m))
        BY <1>1, <1>2, <3>2, SetAppend
      <3>5. DataOnly(link'["out"].sent["r"])
        <4>1. CASE link'["out"].sent["r"] = link["out"].sent["r"]
          BY <1>1, <4>1
        <4>2. CASE link'["out"].sent["r"] = Append(link["out"].sent["r"], m)
          BY <3>4, <4>2
        <4> QED
          BY <3>3, <4>1, <4>2
      <3> QED
        BY <3>1, <3>2, <3>3, <3>5
    <2>3. CASE DestCloses
      <3> DEFINE d == CloseSide(link["out"], "r")
      <3>1. /\ UNCHANGED <<path, stage, late, left, got, seen>>
            /\ link' = [link EXCEPT !["out"] = d] /\ d \in {CloseWrite(link["out"], "r"), CloseSide(link["out"], "r")}
        BY <1>1, <2>3 DEF DestCloses
      <3> HIDE DEF d
      <3>2. /\ AllGrow /\ \A k \in Conns : k # "out" => link'[k] = link[k]
            /\ link'["out"].sent = link["out"].sent
        BY <1>1, <3>1, ClosesDo
      <3> QED
        BY <1>1, <3>1, <3>2
    <2> QED
      BY <2>1, <2>2, <2>3
  <1>4. Outcome' /\ Lockstep'
    BY <1>1, <1>3, EndsInStep
  <1>5. OneTruth'
    <2>1. Coming' = Coming
      BY <1>1, <1>3 DEF Coming
    <2> QED
      BY <1>1, <1>3, <2>1, TruthKept DEF AnswersInv
  <1> QED
    BY <1>4, <1>5

\* A deadline passes only where something is slow or the tailnet is gone.
LEMMA ExpireTruth ==
  ASSUME AnswersInv, NEW h \in Handlers, Expire(h)
  PROVE  Outcome' /\ Lockstep' /\ OneTruth'
  <1>1. UNCHANGED <<path, link, stage, copying, left, got, seen>> /\ (path.slow \/ link["mid"].lost)
    BY DEF Expire
  <1>2. AllGrow
    BY <1>1, NoneGrows
  <1>3. Outcome'
    <2>1. RelayMoves /\ DataOnly(link'["out"].sent["r"]) /\ DataOnly(left'.dest)
      BY <1>1 DEF RelayMoves, AnswersInv, Outcome
    <2> QED
      BY <1>1, <1>2, <2>1, OutcomeKept DEF AnswersInv
  <1>4. Lockstep'
    BY <1>1, LockstepKept DEF AnswersInv
  <1>5. OneTruth'
    <2>1. Coming' = Coming /\ path.at \in {"in", "mid"}
      BY <1>1, WhoAnswers DEF Coming, AnswersInv
    <2> QED
      BY <1>1, <1>2, <2>1, TruthKept DEF AnswersInv
  <1> QED
    BY <1>3, <1>4, <1>5

\* The connection between the daemon and the relay is lost: the tailnet went
\* away, or one of them had closed its side.
LEMMA LockstepLost ==
  ASSUME AnswersInv, path.at = "in", UNCHANGED <<path, stage, seen>>,
         link'["mid"].sent["l"] = <<>>, link'["mid"].sent["r"] = <<>>, link'["mid"].lost, link'["mid"].fin = link["mid"].fin,
         \/ path.cut /\ link["mid"].open
         \/ \E s \in Sides : MayReset(link["mid"], s)
  PROVE  Lockstep'
  <1>1. Upward' = <<>> /\ Downward' = <<>>
    BY DEF Upward, Downward
  <1>2. link["mid"] # NotOpened
    BY NewDoes DEF MayReset
  <1>3. stage["daemon"] \notin BeforeDial
    BY <1>2 DEF AnswersInv, Lockstep
  <1>4. path.cut \/ ("l" \in link["mid"].fin) \/ ("r" \in link["mid"].fin /\ Upward # <<>>)
    BY DEF MayReset, Sides, Peer, Upward, AnswersInv, Outcome, Conns
  <1>5. stage["daemon"] \in AsClient => "l" \notin link["mid"].fin
    BY DEF AnswersInv, Lockstep
  <1>6. stage["relay"] \in Active => path.cut
    BY <1>4, <1>5 DEF AnswersInv, Lockstep, Outcome
  <1>7. AtMethod'
    BY <1>1, NothingComes DEF AnswersInv, Lockstep, AtMethod
  <1>8. AtAuth'
    BY <1>1, NothingComes DEF AnswersInv, Lockstep, AtAuth
  <1>9. AtReply'
    <2>1. SUFFICES ASSUME stage["daemon"] = "creply" PROVE AtReply'
      BY DEF AtReply
    <2>2. ~(seen.reply \notin {"none", "succeeded"} /\ ~path.slow /\ ~path.cut)
      BY <1>4, <1>5, <2>1 DEF AnswersInv, Lockstep, AtReply, AsClient
    <2> QED
      BY <1>1, <2>1, <2>2, NothingComes DEF AnswersInv, Lockstep, AtReply
  <1>10. AfterReply'
    BY <1>1, NothingComes DEF AnswersInv, Lockstep, AfterReply
  <1>11. stage'["daemon"] \in {"cmethod", "cauth"} => seen'.reply = "none"
    BY DEF AnswersInv, Lockstep
  <1> QED
    BY <1>3, <1>5, <1>6, <1>7, <1>8, <1>9, <1>10, <1>11 DEF Lockstep

\* A connection is lost.
LEMMA LostTruth ==
  ASSUME AnswersInv, NEW c \in Conns, link' = [link EXCEPT ![c] = Lose(link[c])],
         UNCHANGED <<path, stage, late, copying, left, got, seen>>,
         \/ c = "mid" /\ path.cut /\ link["mid"].open
         \/ \E s \in Sides : MayReset(link[c], s)
  PROVE  Outcome' /\ Lockstep' /\ OneTruth'
  <1>1. /\ AllGrow /\ \A k \in Conns : k # c => link'[k] = link[k]
        /\ link'[c].sent["l"] = <<>> /\ link'[c].sent["r"] = <<>> /\ link'[c].lost /\ link'[c].fin = link[c].fin
    BY LosesDo DEF AnswersInv
  <1>2. path.at \in {"in", "mid"} /\ path.at \in Conns /\ DataOnly(link["out"].sent["r"]) /\ DataOnly(left.dest) /\ "mid" \in Conns /\ "out" \in Conns
    BY EndsKnown
  <1>3. Outcome'
    <2>1. DataOnly(link'["out"].sent["r"])
      <3>1. CASE c = "out"
        BY <1>1, <3>1, NothingComes
      <3>2. CASE c # "out"
        BY <1>1, <1>2, <3>2
      <3> QED
        BY <3>1, <3>2
    <2>2. link'["mid"].fin = link["mid"].fin
      <3>1. CASE c = "mid"
        BY <1>1, <3>1
      <3>2. CASE c # "mid"
        BY <1>1, <1>2, <3>2
      <3> QED
        BY <3>1, <3>2
    <2>3. RelayMoves /\ DataOnly(left'.dest)
      BY <1>2 DEF RelayMoves
    <2> QED
      BY <1>1, <2>1, <2>2, <2>3, OutcomeKept DEF AnswersInv
  <1>4. Lockstep'
    <2>1. CASE path.at # "in"
      BY <2>1, LockstepAway
    <2>2. CASE c # "mid"
      <3>1. link'["mid"] = link["mid"]
        BY <1>1, <1>2, <2>2
      <3> QED
        BY <3>1, LockstepKept DEF AnswersInv
    <2>3. CASE path.at = "in" /\ c = "mid"
      BY <1>1, <2>3, LockstepLost
    <2> QED
      BY <2>1, <2>2, <2>3
  <1>5. OneTruth'
    <2>1. Coming' = Coming \/ (Coming' = <<>> /\ link'[path.at].lost)
      <3>1. CASE c = path.at
        BY <1>1, <3>1 DEF Coming
      <3>2. CASE c # path.at
        BY <1>1, <1>2, <3>2 DEF Coming
      <3> QED
        BY <3>1, <3>2
    <2> QED
      BY <1>1, <1>2, <2>1, TruthKept DEF AnswersInv
  <1> QED
    BY <1>3, <1>4, <1>5

-----------------------------------------------------------------------------

\* At first nobody has been told anything.
LEMMA AnswersStart ==
  ASSUME PathInit
  PROVE  AnswersInv
  <1>1. RelayInv
    BY PathStarts
  <1>2. path \in Paths /\ path.at \in {"in", "mid"}
    BY PathGiven DEF PathInit
  <1>3. /\ link = [c \in Conns |-> IF c = path.at /\ path.script # <<>> THEN Opened ELSE NotOpened]
        /\ stage = [h \in Handlers |-> IF link[Accepted(h)].open THEN "accept" ELSE "idle"]
        /\ late = {} /\ seen.reply = "none" /\ got.app = <<>> /\ left.dest = <<<<"data", "answer">>>>
    BY DEF PathInit
  <1>4. /\ \A c \in Conns : link[c] \in {Opened, NotOpened}
        /\ link["out"] = NotOpened /\ (path.at = "in" => link["mid"] = NotOpened)
    BY <1>2, <1>3 DEF Conns
  <1>5. /\ stage["daemon"] \in {"accept", "idle"} /\ stage["relay"] \in {"accept", "idle"}
        /\ (path.at = "in" => stage["relay"] = "idle")
    BY <1>3, <1>4, NewDoes DEF Handlers, Accepted
  <1>6. Outcome
    <2>1. \A c \in Conns : link[c].fin = {} /\ link[c].closed = {}
      BY <1>4, NewDoes
    <2>2. DataOnly(link["out"].sent["r"])
      BY <1>4, NewDoes, NothingComes
    <2>3. DataOnly(left.dest)
      <3> DEFINE m == <<"data", "answer">>
      <3>1. IsData(m)
        BY DEF IsData
      <3> HIDE DEF m
      <3>2. DOMAIN <<m>> = 1..1 /\ <<m>>[1] = m
        OBVIOUS
      <3>3. DataOnly(<<m>>)
        BY <3>1, <3>2 DEF DataOnly
      <3> QED
        BY <1>3, <3>3 DEF m
    <2> QED
      BY <1>3, <1>5, <2>1, <2>2, <2>3 DEF Outcome, Conns
  <1>7. Lockstep
    BY <1>4, <1>5 DEF Lockstep, AsClient, Active, AtMethod, AtAuth, AtReply, AfterReply
  <1>8. OneTruth
    <2>1. Coming = <<>>
      BY <1>2, <1>4, NewDoes DEF Coming, Conns
    <2>2. Heading = {} /\ ToSet(got.app) = {}
      BY <1>3, <2>1, NothingComes DEF Heading
    <2>3. stage[Own] \in {"accept", "idle"} /\ DOMAIN <<>> = {}
      BY <1>5 DEF Own
    <2> QED
      BY <2>1, <2>2, <2>3 DEF OneTruth
  <1> QED
    BY <1>1, <1>6, <1>7, <1>8 DEF AnswersInv

\* Every step keeps what the application is told true.
LEMMA AnswersStep ==
  ASSUME AnswersInv, PathNext
  PROVE  Outcome' /\ Lockstep' /\ OneTruth'
  <1>1. ASSUME Serve PROVE Outcome' /\ Lockstep' /\ OneTruth'
    <2>1. PICK h \in Handlers :
            \/ AcceptConn(h) \/ ReadMethods(h) \/ ReadAuth(h) \/ ReadRequest(h) \/ RequestFails(h)
            \/ AnswerOK(h) \/ AnswerFails(h) \/ PipeDone(h)
            \/ \E d \in Dirs : CopyChunk(h, d) \/ CopyEnds(h, d)
      BY <1>1 DEF Serve
    <2>2. CASE ServerActs(h)
      BY <2>2, ServerOutcome, ServerLockstep, ServerTruth
    <2>3. CASE AnswerOK(h) \/ AnswerFails(h) \/ PipeDone(h)
      BY <2>3, AnswerTruth, AnswerFailsTruth, PipeDoneTruth
    <2>4. CASE \E d \in Dirs : CopyChunk(h, d) \/ CopyEnds(h, d)
      BY <2>4, ChunkTruth, CopyEndsTruth
    <2> QED
      BY <2>1, <2>2, <2>3, <2>4 DEF ServerActs
  <1>2. ASSUME Dial PROVE Outcome' /\ Lockstep' /\ OneTruth'
    BY <1>2, RouteTruth, DialTruth, DialFailsTruth, ClientMethodTruth, ClientAuthTruth, ClientReplyTruth, ClientGivesUpTruth,
       ResolveTruth DEF Dial
  <1>3. ASSUME Ends PROVE Outcome' /\ Lockstep' /\ OneTruth'
    BY <1>3, AppSpeaksTruth, AppLeavesTruth, DestTruth DEF Ends
  <1>4. ASSUME NEW h \in Handlers, Expire(h) PROVE Outcome' /\ Lockstep' /\ OneTruth'
    BY <1>4, ExpireTruth
  <1>5. ASSUME Cut PROVE Outcome' /\ Lockstep' /\ OneTruth'
    <2>1. "mid" \in Conns /\ link = [c \in Conns |-> link[c]]
      BY EndsKnown
    <2>2. /\ link' = [link EXCEPT !["mid"] = Lose(link["mid"])] /\ UNCHANGED <<path, stage, late, copying, left, got, seen>>
          /\ path.cut /\ link["mid"].open
      BY <1>5, <2>1 DEF Cut
    <2> QED
      BY <2>1, <2>2, LostTruth
  <1>6. ASSUME NEW c \in Conns, ResetConn(c) PROVE Outcome' /\ Lockstep' /\ OneTruth'
    <2>1. link = [k \in Conns |-> link[k]]
      BY EndsKnown
    <2>2. /\ link' = [link EXCEPT ![c] = Lose(link[c])] /\ UNCHANGED <<path, stage, late, copying, left, got, seen>>
          /\ \E s \in Sides : MayReset(link[c], s)
      BY <1>6, <2>1 DEF ResetConn
    <2> QED
      BY <2>2, LostTruth
  <1> QED
    BY <1>1, <1>2, <1>3, <1>4, <1>5, <1>6 DEF PathNext

\* So does a step of the others.
LEMMA AnswersStutter ==
  ASSUME AnswersInv, UNCHANGED pathVars
  PROVE  Outcome' /\ Lockstep' /\ OneTruth'
  <1>1. AllGrow /\ RelayMoves /\ link' = link /\ UNCHANGED <<path, stage, late, copying, left, got, seen>>
    BY NoneGrows DEF pathVars, RelayMoves
  <1>2. Outcome'
    <2>1. DataOnly(link'["out"].sent["r"]) /\ DataOnly(left'.dest)
      BY <1>1, EndsKnown
    <2> QED
      BY <1>1, <2>1, OutcomeKept DEF AnswersInv
  <1>3. Lockstep'
    BY <1>1, LockstepKept DEF AnswersInv
  <1>4. OneTruth'
    <2>1. Coming' = Coming /\ path.at \in {"in", "mid"}
      BY <1>1, EndsKnown DEF Coming
    <2> QED
      BY <1>1, <2>1, TruthKept DEF AnswersInv
  <1> QED
    BY <1>2, <1>3, <1>4

\* The invariant says what the property does.
LEMMA AnswersSay ==
  ASSUME AnswersInv
  PROVE  AnswersTrue
  <1> DEFINE A == ToSet(got.app)
  <1>1. /\ \A m \in A : IsReply(m) => ReplyTrue(m[2])
        /\ \A m, n \in A : IsReply(m) /\ IsReply(n) => m = n
        /\ (\E m \in A : IsData(m)) => Succeeded \in A
    BY DEF AnswersInv, OneTruth, Heading
  <1> HIDE DEF A
  <1>2. \A c : c \in Told => \E m \in A : IsReply(m) /\ m[2] = c
    BY DEF Told, IsReply, A
  <1>3. \A m \in A : IsReply(m) => m[2] \in Told
    BY DEF Told, IsReply, A
  <1>4. \A c \in Told : ReplyTrue(c) /\ Told = {c}
    <2>1. SUFFICES ASSUME NEW c \in Told PROVE ReplyTrue(c) /\ Told = {c}
      OBVIOUS
    <2>2. PICK m \in A : IsReply(m) /\ m[2] = c
      BY <1>2
    <2>3. ReplyTrue(c)
      BY <1>1, <2>2
    <2>4. \A d \in Told : d = c
      BY <1>1, <1>2, <2>2
    <2> QED
      BY <2>3, <2>4
  <1>5. (\E m \in A : m[1] = "data") => "succeeded" \in Told
    <2>1. IsReply(Succeeded) /\ Succeeded[2] = "succeeded"
      BY DEF IsReply, Succeeded
    <2> QED
      BY <1>1, <1>3, <2>1 DEF IsData
  <1>6. "succeeded" \in Told => link["out"].open /\ Told = {"succeeded"}
    BY <1>4 DEF ReplyTrue
  <1>7. Told \intersect {"notallowed", "connrefused"} # {} =>
          \/ path.at = "in" /\ path.route = "reject" /\ "notallowed" \in Told
          \/ path.at = "in" /\ path.reach = "refused" /\ "connrefused" \in Told
          \/ seen.reply \in Told
    BY <1>4 DEF ReplyTrue
  <1>8. Told # {} /\ seen.reply \notin {"none", "succeeded"} => Told = {seen.reply} \/ path.slow \/ path.cut
    BY <1>4 DEF ReplyTrue
  <1>9. "general" \in Told => seen.state \notin {"unknown", "ready"} \/ <<"request", "nohost">> \in ToSet(path.script)
    BY <1>4 DEF ReplyTrue
  <1> QED
    BY <1>5, <1>6, <1>7, <1>8, <1>9 DEF AnswersTrue, A

\* For any scenario, any names and any addresses: the application is told what
\* became of its own connection, success only when the destination has
\* accepted and before any of its data, otherwise what the relay answered or
\* that there was no answer to be had from it (internal/proxy/socks5.go:84-121,
\* internal/relay/relay.go:138-149).
THEOREM RelayAnswersTrue ==
  PathInit /\ [][PathNext]_pathVars => []AnswersTrue
  <1>1. PathInit => AnswersInv
    BY AnswersStart
  <1>2. AnswersInv /\ [PathNext]_pathVars => AnswersInv'
    <2>1. AnswersInv /\ [PathNext]_pathVars => Outcome' /\ Lockstep' /\ OneTruth'
      BY AnswersStep, AnswersStutter
    <2>2. AnswersInv /\ [PathNext]_pathVars => RelayInv'
      BY PathSteps, PathStutters DEF AnswersInv
    <2> QED
      BY <2>1, <2>2 DEF AnswersInv
  <1>3. AnswersInv => AnswersTrue
    BY AnswersSay
  <1> QED
    BY <1>1, <1>2, <1>3, PTL
=============================================================================
