------------------------- MODULE PanelConfig_proofs -------------------------
(***************************************************************************)
(* Proofs about PanelConfig, for any egress names and any sessions.  The   *)
(* argument: writeMu is held exactly by the session that is between Lock   *)
(* and the return of saveSection or handleReload (Mutex); so what such a   *)
(* session has read stays true until it acts on it (Saving), and memory    *)
(* and file differ only between Rename and Swap (Coherent).                *)
(***************************************************************************)
EXTENDS PanelConfig, TLAPS

\* The holder of writeMu is the session inside a critical section.
Mutex == \A s \in Sessions : thr[s].pc \in Locked <=> writeMu = s

\* Nobody is inside a handler while the daemon is down.
DownIsIdle == ~up => \A s \in Sessions : thr[s].pc \in {"idle", "edit"}

\* What a session inside the critical section knows.
Knows(s) ==
  LET t == thr[s] IN
  /\ t.pc \in {"check", "load"} /\ ~env.editor => t.data = disk
  /\ t.pc \in {"backup", "rename"} =>
       t.out \in Config /\ Valid(t.out) /\ t.rev = loaded /\ t.data = loaded
  /\ t.pc \in {"backup", "rename"} /\ ~env.editor => disk = loaded
  /\ t.pc = "rename" => bak = t.data
  /\ t.pc = "swap" => t.out \in Config /\ Valid(t.out) /\ (~env.editor => disk = t.out)
Saving == \A s \in Sessions : Knows(s)

\* Memory and file agree unless a session is between Rename and Swap.
Coherent ==
  up /\ ~env.editor => loaded = disk \/ \E s \in Sessions : thr[s].pc = "swap"

IInv == TypeOK /\ Mutex /\ DownIsIdle /\ Saving /\ Coherent /\ ConfigValid

-----------------------------------------------------------------------------
\* Init establishes the types: what New loads is a valid configuration.
LEMMA InitTypeOK == Init => TypeOK
  BY DEF Init, TypeOK, idle, Session, Draft, File, Config, NoConfig, Valid, Locked, Sections

\* Rewriting one section of a configuration gives a configuration.
LEMMA RewriteType ==
  ASSUME NEW c \in Draft, NEW value \in SUBSET Names, NEW k
  PROVE  Rewrite(c, k, value) \in Draft /\ Rewrite(c, k, value).kind = c.kind
  BY DEF Rewrite, Draft

\* The section of a configuration is a set of names.
LEMMA SectionType ==
  ASSUME NEW c \in Draft, NEW k
  PROVE  Section(c, k) \in SUBSET Names
  BY DEF Section, Draft

\* The files that can be read are drafts, and drafts marked ok are
\* configurations.
LEMMA FileTypes ==
  /\ File \subseteq Draft
  /\ NoConfig \in File
  /\ Config \subseteq File
  /\ \A c \in Draft : c.kind = "ok" => c \in Config
  /\ \A c \in File : Valid(c) => c \in Config
<1>1. File \subseteq Draft /\ NoConfig \in File /\ Config \subseteq File
  BY DEF File, Draft, NoConfig, Config
<1>2. ASSUME NEW c \in Draft, c.kind = "ok" PROVE c \in Config
  BY <1>2 DEF Draft, Config
<1>3. ASSUME NEW c \in File, Valid(c) PROVE c \in Config
  BY <1>3 DEF File, NoConfig, Valid
<1> QED BY <1>1, <1>2, <1>3

\* Every step keeps the types: what Rename writes and Swap loads has been
\* made a configuration by Check.
LEMMA NextTypeOK == TypeOK /\ Saving /\ [Next]_vars => TypeOK'
<1> SUFFICES ASSUME TypeOK, Saving, [Next]_vars PROVE TypeOK'
  OBVIOUS
<1> USE FileTypes DEF TypeOK
<1> idle \in Session
  BY DEF idle, Session, Locked, Sections, NoConfig, Draft
<1>1. CASE UNCHANGED vars
  BY <1>1 DEF vars
<1>2. CASE Edit
  BY <1>2 DEF Edit
<1>3. CASE Kill
  BY <1>3 DEF Kill, Unlock
<1>4. CASE Restart
  <2>1. loaded' \in Config /\ applied' \in SUBSET Names
    BY <1>4 DEF Restart, Config
  <2> QED BY <1>4, <2>1 DEF Restart
<1>5. ASSUME NEW s \in Sessions, GetRules(s) PROVE TypeOK'
  BY <1>5 DEF GetRules, idle, Session, Config, Sections, NoConfig
<1>6. ASSUME NEW s \in Sessions, GetEgress(s) PROVE TypeOK'
  BY <1>6 DEF GetEgress, idle, Session, Config, Sections, NoConfig
<1>7. ASSUME NEW s \in Sessions, Reload(s) PROVE TypeOK'
  BY <1>7 DEF Reload, Session
<1>8. ASSUME NEW s \in Sessions, Lock(s) PROVE TypeOK'
  BY <1>8 DEF Lock, Goto, Session, Locked
<1>9. ASSUME NEW s \in Sessions, NEW value \in SUBSET Names, Put(s, value) PROVE TypeOK'
  <2>1. Rewrite(NoConfig, thr[s].kind, value) \in Draft
    BY RewriteType
  <2> DEFINE v == Rewrite(NoConfig, thr[s].kind, value)
  <2>2. /\ thr' = [thr EXCEPT ![s].pc = "lock", ![s].out = v]
        /\ UNCHANGED <<env, disk, bak, up, loaded, applied, writeMu>>
    BY <1>9 DEF Put
  <2> HIDE DEF v
  <2>3. [thr[s] EXCEPT !.pc = "lock", !.out = v] \in Session
    <3>1. thr[s] \in Session /\ v \in Draft
      BY <2>1 DEF v
    <3> QED BY <3>1 DEF Session
  <2>4. thr' = [thr EXCEPT ![s] = [thr[s] EXCEPT !.pc = "lock", !.out = v]]
    BY <2>2
  <2>5. thr' \in [Sessions -> Session]
    BY <2>3, <2>4
  <2> QED BY <2>2, <2>5
<1>10. ASSUME NEW s \in Sessions, GetEgressRevision(s) PROVE TypeOK'
  BY <1>10 DEF GetEgressRevision, Session
<1>11. ASSUME NEW s \in Sessions, Read(s) PROVE TypeOK'
  BY ZenonT(60), <1>11 DEF Read, Session, Locked
<1>12. ASSUME NEW s \in Sessions, Check(s) PROVE TypeOK'
  <2> DEFINE want == Rewrite(loaded, thr[s].kind, Section(thr[s].out, thr[s].kind))
  <2>1. thr[s].out \in Draft
    BY DEF Session
  <2>2. want \in Draft
    BY <2>1, RewriteType, SectionType
  <2>3. thr' \in [Sessions -> Session]
    BY <1>12, <2>2 DEF Check, Done, Session, Locked
  <2> QED BY <1>12, <2>3 DEF Check, Unlock
<1>13. ASSUME NEW s \in Sessions, Backup(s) PROVE TypeOK'
  BY <1>13 DEF Backup, Goto, Done, Unlock, Session, Locked
<1>14. ASSUME NEW s \in Sessions, Rename(s) PROVE TypeOK'
  <2>1. thr[s].out \in Config
    BY <1>14 DEF Saving, Knows, Rename, at
  <2>2. disk' \in File
    BY <1>14, <2>1 DEF Rename
  <2> QED BY <1>14, <2>2 DEF Rename, Goto, Done, Unlock, Session, Locked
<1>15. ASSUME NEW s \in Sessions, Swap(s) PROVE TypeOK'
  <2>1. thr[s].out \in Config
    BY <1>15 DEF Saving, Knows, Swap, at
  <2>2. thr' \in [Sessions -> Session]
    BY <1>15 DEF Swap, Goto, Done, Session
  <2> QED BY <1>15, <2>1, <2>2 DEF Swap, Unlock
<1>16. ASSUME NEW s \in Sessions, ApplyEgress(s) PROVE TypeOK'
  <2>1. thr[s].out.egress \in SUBSET Names
    BY DEF Session, Draft
  <2>2. applied' \in SUBSET Names
    BY <1>16, <2>1 DEF ApplyEgress
  <2> QED BY <1>16, <2>2 DEF ApplyEgress, Done
<1>17. ASSUME NEW s \in Sessions, Load(s) PROVE TypeOK'
  <2>1. thr[s].data \in File
    BY DEF Session
  <2>2. loaded' \in Config
    BY <1>17, <2>1 DEF Load
  <2>3. thr' \in [Sessions -> Session]
    BY <1>17 DEF Load, Goto, Done, Session, Locked
  <2>4. writeMu' \in Sessions \union {NoSession}
    BY <1>17 DEF Load, Unlock
  <2> QED BY <1>17, <2>2, <2>3, <2>4 DEF Load
<1>18. ASSUME NEW s \in Sessions, ApplyLoaded(s) PROVE TypeOK'
  <2>1. applied' \in SUBSET Names
    BY <1>18 DEF ApplyLoaded, Config
  <2> QED BY <1>18, <2>1 DEF ApplyLoaded, Done, Unlock
<1> QED
  BY <1>1, <1>2, <1>3, <1>4, <1>5, <1>6, <1>7, <1>8, <1>9, <1>10, <1>11, <1>12, <1>13,
     <1>14, <1>15, <1>16, <1>17, <1>18 DEF Next, Handle

-----------------------------------------------------------------------------
\* A step of one session, in the critical section before it, that stays there
\* or lets the mutex go, keeps the mutex in order.
Moves(s) == /\ thr' \in [Sessions -> Session]
            /\ \A u \in Sessions \ {s} : thr'[u] = thr[u]
Stays(s) == thr'[s].pc \in Locked /\ writeMu' = writeMu
Leaves(s) == thr'[s].pc \in {"idle", "apply"} /\ writeMu' = NoSession
LEMMA HolderMoves ==
  ASSUME TypeOK, Mutex, DownIsIdle, NEW s \in Sessions, thr[s].pc \in Locked, up' = up,
         Moves(s), Stays(s) \/ Leaves(s)
  PROVE  Mutex' /\ DownIsIdle'
<1>1. up
  BY DEF DownIsIdle, Locked
<1>2. CASE Stays(s)
  BY <1>1, <1>2 DEF Mutex, DownIsIdle, Moves, Stays
<1>3. CASE Leaves(s)
  BY <1>1, <1>3, SessionsAssumption DEF Mutex, DownIsIdle, Moves, Leaves, Locked
<1> QED BY <1>2, <1>3

\* The mutex: whoever enters a critical section takes it, whoever leaves lets
\* it go, and a killed daemon leaves neither.
LEMMA NextMutex == TypeOK /\ Mutex /\ DownIsIdle /\ Saving /\ [Next]_vars => Mutex' /\ DownIsIdle'
<1> SUFFICES ASSUME TypeOK, Mutex, DownIsIdle, Saving, [Next]_vars PROVE Mutex' /\ DownIsIdle'
  OBVIOUS
<1>0. thr' \in [Sessions -> Session]
  BY NextTypeOK DEF TypeOK
<1> thr \in [Sessions -> Session]
  BY DEF TypeOK
<1> USE SessionsAssumption DEF Mutex, DownIsIdle, Locked
<1>1. CASE UNCHANGED vars
  BY <1>1 DEF vars
<1>2. CASE Edit
  BY <1>2 DEF Edit
<1>3. CASE Kill
  BY <1>3 DEF Kill, Unlock, idle, at
<1>4. CASE Restart
  BY <1>4 DEF Restart
<1>5. ASSUME NEW s \in Sessions, GetRules(s) PROVE Mutex' /\ DownIsIdle'
  BY <1>5 DEF GetRules, idle, at
<1>6. ASSUME NEW s \in Sessions, GetEgress(s) PROVE Mutex' /\ DownIsIdle'
  BY <1>6 DEF GetEgress, idle, at
<1>7. ASSUME NEW s \in Sessions, Reload(s) PROVE Mutex' /\ DownIsIdle'
  BY <1>7 DEF Reload, at
<1>8. ASSUME NEW s \in Sessions, Lock(s) PROVE Mutex' /\ DownIsIdle'
  BY <1>8 DEF Lock, Goto, at
<1>9. ASSUME NEW s \in Sessions, NEW value \in SUBSET Names, Put(s, value) PROVE Mutex' /\ DownIsIdle'
  BY <1>9 DEF Put, at
<1>10. ASSUME NEW s \in Sessions, GetEgressRevision(s) PROVE Mutex' /\ DownIsIdle'
  BY <1>10 DEF GetEgressRevision, at
<1>11. ASSUME NEW s \in Sessions, Read(s) PROVE Mutex' /\ DownIsIdle'
  BY <1>11 DEF Read, at
<1>12. ASSUME NEW s \in Sessions, Check(s) PROVE Mutex' /\ DownIsIdle'
  <2>1. Moves(s)
    BY <1>0, <1>12 DEF Check, Goto, Done, Moves
  <2>2. Stays(s) \/ Leaves(s)
    BY <1>12 DEF Check, Goto, Done, Unlock, idle, Stays, Leaves, Session
  <2>3. thr[s].pc \in Locked /\ up' = up
    BY <1>12 DEF Check, at
  <2> QED BY <2>1, <2>2, <2>3, HolderMoves
<1>13. ASSUME NEW s \in Sessions, Backup(s) PROVE Mutex' /\ DownIsIdle'
  <2>1. Moves(s)
    BY <1>0, <1>13 DEF Backup, Goto, Done, Moves
  <2>2. Stays(s) \/ Leaves(s)
    BY <1>13 DEF Backup, Goto, Done, Unlock, idle, Stays, Leaves, Session
  <2>3. thr[s].pc \in Locked /\ up' = up
    BY <1>13 DEF Backup, at
  <2> QED BY <2>1, <2>2, <2>3, HolderMoves
<1>14. ASSUME NEW s \in Sessions, Rename(s) PROVE Mutex' /\ DownIsIdle'
  <2>1. Moves(s)
    BY <1>0, <1>14 DEF Rename, Goto, Done, Moves
  <2>2. Stays(s) \/ Leaves(s)
    BY <1>14 DEF Rename, Goto, Done, Unlock, idle, Stays, Leaves, Session
  <2>3. thr[s].pc \in Locked /\ up' = up
    BY <1>14 DEF Rename, at
  <2> QED BY <2>1, <2>2, <2>3, HolderMoves
<1>15. ASSUME NEW s \in Sessions, Swap(s) PROVE Mutex' /\ DownIsIdle'
  <2>1. Moves(s)
    BY <1>0, <1>15 DEF Swap, Goto, Done, Moves
  <2>2. Stays(s) \/ Leaves(s)
    BY <1>15 DEF Swap, Goto, Done, Unlock, idle, Stays, Leaves, Session
  <2>3. thr[s].pc \in Locked /\ up' = up
    BY <1>15 DEF Swap, at
  <2> QED BY <2>1, <2>2, <2>3, HolderMoves
<1>16. ASSUME NEW s \in Sessions, ApplyEgress(s) PROVE Mutex' /\ DownIsIdle'
  BY <1>16 DEF ApplyEgress, Done, idle, at
<1>17. ASSUME NEW s \in Sessions, Load(s) PROVE Mutex' /\ DownIsIdle'
  <2>1. Moves(s)
    BY <1>0, <1>17 DEF Load, Goto, Done, Moves
  <2>2. Stays(s) \/ Leaves(s)
    BY <1>17 DEF Load, Goto, Done, Unlock, idle, Stays, Leaves, Session
  <2>3. thr[s].pc \in Locked /\ up' = up
    BY <1>17 DEF Load, at
  <2> QED BY <2>1, <2>2, <2>3, HolderMoves
<1>18. ASSUME NEW s \in Sessions, ApplyLoaded(s) PROVE Mutex' /\ DownIsIdle'
  <2>1. Moves(s)
    BY <1>0, <1>18 DEF ApplyLoaded, Goto, Done, Moves
  <2>2. Stays(s) \/ Leaves(s)
    BY <1>18 DEF ApplyLoaded, Goto, Done, Unlock, idle, Stays, Leaves, Session
  <2>3. thr[s].pc \in Locked /\ up' = up
    BY <1>18 DEF ApplyLoaded, at
  <2> QED BY <2>1, <2>2, <2>3, HolderMoves
<1> QED
  BY <1>1, <1>2, <1>3, <1>4, <1>5, <1>6, <1>7, <1>8, <1>9, <1>10, <1>11, <1>12, <1>13, <1>14, <1>15, <1>16, <1>17, <1>18 DEF Next, Handle

-----------------------------------------------------------------------------
\* Outside the critical section a session knows nothing.
LEMMA OutsideKnows ==
  ASSUME NEW s, thr[s].pc \notin Locked
  PROVE  Knows(s)
  BY DEF Knows, Locked

\* A step of the mutex's holder concerns no other session.
LEMMA HolderSaving ==
  ASSUME TypeOK, Mutex, NEW s \in Sessions, thr[s].pc \in Locked, Moves(s), Knows(s)'
  PROVE  Saving'
<1> SUFFICES ASSUME NEW u \in Sessions, u # s PROVE Knows(u)'
  BY DEF Saving
<1>1. thr[u].pc \notin Locked
  BY DEF Mutex
<1>2. thr'[u] = thr[u]
  BY DEF Moves
<1> QED BY <1>1, <1>2 DEF Knows, Locked

\* A step of a session that stays outside, and touches neither the files nor
\* the configuration, changes what nobody knows.
Untouched == UNCHANGED <<env, disk, bak, up, loaded>>
LEMMA OutsideSaving ==
  ASSUME TypeOK, Saving, Coherent, ConfigValid, NEW s \in Sessions, Moves(s), Untouched,
         thr[s].pc # "swap", thr'[s].pc \notin Locked \/ thr'[s].pc = "read"
  PROVE  Saving' /\ Coherent' /\ ConfigValid'
<1>1. Saving'
  <2>1. ASSUME NEW u \in Sessions, u # s PROVE Knows(u)'
    BY <2>1 DEF Saving, Knows, Moves, Untouched
  <2>2. Knows(s)'
    BY DEF Knows, Locked
  <2> QED BY <2>1, <2>2 DEF Saving
<1>2. Coherent'
  BY DEF Coherent, Untouched, Moves
<1>3. ConfigValid'
  BY DEF ConfigValid, Untouched, Valid
<1> QED BY <1>1, <1>2, <1>3

\* What the sessions know stays true, memory and file stay together, and both
\* stay valid.
LEMMA NextSaving == IInv /\ [Next]_vars => Saving' /\ Coherent' /\ ConfigValid'
<1> SUFFICES ASSUME IInv, [Next]_vars PROVE Saving' /\ Coherent' /\ ConfigValid'
  OBVIOUS
<1>0. TypeOK /\ Mutex /\ DownIsIdle /\ Saving /\ Coherent /\ ConfigValid /\ TypeOK'
  BY NextTypeOK DEF IInv
<1>99. thr \in [Sessions -> Session] /\ thr' \in [Sessions -> Session]
  BY <1>0 DEF TypeOK
<1>1. CASE UNCHANGED vars
  BY <1>0, <1>1 DEF vars, Saving, Knows, Coherent, ConfigValid, Valid
<1>2. CASE Edit
  <2>1. env.editor /\ UNCHANGED <<env, bak, up, loaded, thr>>
    BY <1>2 DEF Edit
  <2>2. Saving'
    BY <1>0, <2>1 DEF Saving, Knows
  <2> QED BY <1>0, <2>1, <2>2 DEF Coherent, ConfigValid, Valid
<1>3. CASE Kill
  <2>1. \A s \in Sessions : thr'[s].pc \in {"idle", "edit"}
    BY <1>3 DEF Kill, idle, at
  <2>2. Saving'
    BY <2>1 DEF Saving, Knows
  <2>3. up' = FALSE /\ UNCHANGED <<env, disk, loaded>>
    BY <1>3 DEF Kill
  <2> QED BY <1>0, <2>2, <2>3 DEF Coherent, ConfigValid, Valid
<1>4. CASE Restart
  <2>1. UNCHANGED <<env, disk, thr>> /\ loaded' = disk /\ Valid(disk)
    BY <1>4 DEF Restart
  <2>2. \A s \in Sessions : thr'[s].pc \in {"idle", "edit"}
    BY <1>0, <1>4, <2>1 DEF Restart, DownIsIdle
  <2>3. Saving'
    BY <2>2 DEF Saving, Knows
  <2> QED BY <1>0, <2>1, <2>3 DEF Coherent, ConfigValid, Valid
<1>5. ASSUME NEW s \in Sessions, GetRules(s) PROVE Saving' /\ Coherent' /\ ConfigValid'
  <2>1. Moves(s)
    BY <1>99, <1>5 DEF GetRules, Goto, Done, Moves
  <2>2. thr'[s].pc \notin Locked \/ thr'[s].pc = "read"
    BY <1>99, <1>5 DEF GetRules, Goto, Done, idle, Session, Locked
  <2>3. Untouched /\ thr[s].pc # "swap"
    BY <1>5 DEF GetRules, Untouched, at
  <2> QED BY <1>0, <2>1, <2>2, <2>3, OutsideSaving
<1>6. ASSUME NEW s \in Sessions, GetEgress(s) PROVE Saving' /\ Coherent' /\ ConfigValid'
  <2>1. Moves(s)
    BY <1>99, <1>6 DEF GetEgress, Goto, Done, Moves
  <2>2. thr'[s].pc \notin Locked \/ thr'[s].pc = "read"
    BY <1>99, <1>6 DEF GetEgress, Goto, Done, idle, Session, Locked
  <2>3. Untouched /\ thr[s].pc # "swap"
    BY <1>6 DEF GetEgress, Untouched, at
  <2> QED BY <1>0, <2>1, <2>2, <2>3, OutsideSaving
<1>7. ASSUME NEW s \in Sessions, GetEgressRevision(s) PROVE Saving' /\ Coherent' /\ ConfigValid'
  <2>1. Moves(s)
    BY <1>99, <1>7 DEF GetEgressRevision, Goto, Done, Moves
  <2>2. thr'[s].pc \notin Locked \/ thr'[s].pc = "read"
    BY <1>99, <1>7 DEF GetEgressRevision, Goto, Done, idle, Session, Locked
  <2>3. Untouched /\ thr[s].pc # "swap"
    BY <1>7 DEF GetEgressRevision, Untouched, at
  <2> QED BY <1>0, <2>1, <2>2, <2>3, OutsideSaving
<1>8. ASSUME NEW s \in Sessions, Reload(s) PROVE Saving' /\ Coherent' /\ ConfigValid'
  <2>1. Moves(s)
    BY <1>99, <1>8 DEF Reload, Goto, Done, Moves
  <2>2. thr'[s].pc \notin Locked \/ thr'[s].pc = "read"
    BY <1>99, <1>8 DEF Reload, Goto, Done, idle, Session, Locked
  <2>3. Untouched /\ thr[s].pc # "swap"
    BY <1>8 DEF Reload, Untouched, at
  <2> QED BY <1>0, <2>1, <2>2, <2>3, OutsideSaving
<1>9. ASSUME NEW s \in Sessions, NEW value \in SUBSET Names, Put(s, value) PROVE Saving' /\ Coherent' /\ ConfigValid'
  <2>1. Moves(s)
    BY <1>99, <1>9 DEF Put, Goto, Done, Moves
  <2>2. thr'[s].pc \notin Locked \/ thr'[s].pc = "read"
    BY <1>99, <1>9 DEF Put, Goto, Done, idle, Session, Locked
  <2>3. Untouched /\ thr[s].pc # "swap"
    BY <1>9 DEF Put, Untouched, at
  <2> QED BY <1>0, <2>1, <2>2, <2>3, OutsideSaving
<1>10. ASSUME NEW s \in Sessions, Lock(s) PROVE Saving' /\ Coherent' /\ ConfigValid'
  <2>1. Moves(s)
    BY <1>99, <1>10 DEF Lock, Goto, Done, Moves
  <2>2. thr'[s].pc \notin Locked \/ thr'[s].pc = "read"
    BY <1>99, <1>10 DEF Lock, Goto, Done, idle, Session, Locked
  <2>3. Untouched /\ thr[s].pc # "swap"
    BY <1>10 DEF Lock, Untouched, at
  <2> QED BY <1>0, <2>1, <2>2, <2>3, OutsideSaving
<1>11. ASSUME NEW s \in Sessions, ApplyEgress(s) PROVE Saving' /\ Coherent' /\ ConfigValid'
  <2>1. Moves(s)
    BY <1>99, <1>11 DEF ApplyEgress, Goto, Done, Moves
  <2>2. thr'[s].pc \notin Locked \/ thr'[s].pc = "read"
    BY <1>99, <1>11 DEF ApplyEgress, Goto, Done, idle, Session, Locked
  <2>3. Untouched /\ thr[s].pc # "swap"
    BY <1>11 DEF ApplyEgress, Untouched, at
  <2> QED BY <1>0, <2>1, <2>2, <2>3, OutsideSaving
<1>12. ASSUME NEW s \in Sessions, Read(s) PROVE Saving' /\ Coherent' /\ ConfigValid'
  <2>1. Moves(s) /\ thr[s].pc \in Locked
    BY <1>99, <1>12 DEF Read, Goto, Done, Moves, at, Locked
  <2>2. Knows(s)
    BY <1>0 DEF Saving
  <2>3. Knows(s)'
    BY <1>99, <1>12 DEF Read, at, Knows, Session
  <2>4. Coherent'
    BY <1>0, <1>99, <1>12 DEF Read, Goto, Done, idle, at, Coherent, Session
  <2>5. ConfigValid'
    BY <1>0, <1>12 DEF Read, ConfigValid, Valid
  <2> QED BY <1>0, <2>1, <2>3, <2>4, <2>5, HolderSaving
<1>13. ASSUME NEW s \in Sessions, Check(s) PROVE Saving' /\ Coherent' /\ ConfigValid'
  <2>1. Moves(s) /\ thr[s].pc \in Locked
    BY <1>99, <1>13 DEF Check, Goto, Done, Moves, at, Locked
  <2>2. Knows(s)
    BY <1>0 DEF Saving
  <2> DEFINE want == Rewrite(loaded, thr[s].kind, Section(thr[s].out, thr[s].kind))
  <2>6. want \in Draft
    BY <1>0, <1>99, FileTypes, RewriteType, SectionType DEF TypeOK, Session
  <2>7. Valid(want) => want \in Config
    BY <2>6, FileTypes DEF Valid
  <2>3. Knows(s)'
    <3>1. CASE thr' = [thr EXCEPT ![s] = idle]
      BY <3>1, <1>99 DEF Knows, idle
    <3>2. CASE /\ thr' = [thr EXCEPT ![s].pc = "backup", ![s].out = want]
               /\ thr[s].rev = loaded /\ thr[s].data = loaded /\ Valid(want)
      <4>1. ~env.editor => disk = loaded
        BY <1>13, <2>2, <3>2 DEF Check, at, Knows
      <4>2. /\ thr'[s].pc = "backup" /\ thr'[s].out = want
            /\ thr'[s].rev = loaded /\ thr'[s].data = loaded
        BY <3>2, <1>99 DEF Session
      <4>3. UNCHANGED <<env, disk, loaded>>
        BY <1>13 DEF Check
      <4> QED BY <2>7, <3>2, <4>1, <4>2, <4>3 DEF Knows, Valid
    <3> QED BY <1>13, <3>1, <3>2 DEF Check, Done
  <2>4. Coherent'
    BY <1>0, <1>99, <1>13 DEF Check, Done, idle, at, Coherent, Session
  <2>5. ConfigValid'
    BY <1>0, <1>13 DEF Check, ConfigValid, Valid
  <2> QED BY <1>0, <2>1, <2>3, <2>4, <2>5, HolderSaving
<1>14. ASSUME NEW s \in Sessions, Backup(s) PROVE Saving' /\ Coherent' /\ ConfigValid'
  <2>1. Moves(s) /\ thr[s].pc \in Locked
    BY <1>99, <1>14 DEF Backup, Goto, Done, Moves, at, Locked
  <2>2. Knows(s)
    BY <1>0 DEF Saving
  <2>3. Knows(s)'
    BY <1>99, <1>14, <2>2 DEF Backup, Goto, Done, idle, at, Knows, Session, Valid
  <2>4. Coherent'
    BY <1>0, <1>99, <1>14 DEF Backup, Goto, Done, idle, at, Coherent, Session
  <2>5. ConfigValid'
    BY <1>0, <1>14 DEF Backup, ConfigValid, Valid
  <2> QED BY <1>0, <2>1, <2>3, <2>4, <2>5, HolderSaving
<1>15. ASSUME NEW s \in Sessions, Rename(s) PROVE Saving' /\ Coherent' /\ ConfigValid'
  <2>1. Moves(s) /\ thr[s].pc \in Locked
    BY <1>99, <1>15 DEF Rename, Goto, Done, Moves, at, Locked
  <2>2. Knows(s)
    BY <1>0 DEF Saving
  <2>3. Knows(s)'
    BY <1>99, <1>15, <2>2 DEF Rename, Goto, Done, idle, at, Knows, Session, Valid
  <2>6. ASSUME disk' = thr[s].out, Goto(s, "swap") PROVE Coherent' /\ ConfigValid'
    <3>1. thr'[s].pc = "swap"
      BY <1>99, <2>6 DEF Goto, Session
    <3>2. Valid(disk')
      BY <1>15, <2>2, <2>6 DEF Rename, at, Knows
    <3> QED BY <1>0, <1>15, <2>6, <3>1, <3>2 DEF Rename, Coherent, ConfigValid, Valid
  <2>7. ASSUME Done(s), UNCHANGED disk PROVE Coherent' /\ ConfigValid'
    <3>1. \A u \in Sessions : thr[u].pc = "swap" => thr'[u].pc = "swap"
      BY <1>15, <2>7 DEF Rename, Done, idle, at
    <3> QED BY <1>0, <1>15, <2>7, <3>1 DEF Rename, Coherent, ConfigValid, Valid
  <2>4. Coherent'
    BY <1>15, <2>6, <2>7 DEF Rename
  <2>5. ConfigValid'
    BY <1>15, <2>6, <2>7 DEF Rename
  <2> QED BY <1>0, <2>1, <2>3, <2>4, <2>5, HolderSaving
<1>16. ASSUME NEW s \in Sessions, Swap(s) PROVE Saving' /\ Coherent' /\ ConfigValid'
  <2>1. Moves(s) /\ thr[s].pc \in Locked
    BY <1>99, <1>16 DEF Swap, Goto, Done, Moves, at, Locked
  <2>2. Knows(s)
    BY <1>0 DEF Saving
  <2>3. Knows(s)'
    BY <1>99, <1>16 DEF Swap, Goto, Done, idle, at, Knows, Session
  <2>6. thr[s].out = loaded' /\ Valid(loaded') /\ (~env.editor => disk = loaded')
    BY <1>16, <2>2 DEF Swap, at, Knows
  <2>4. Coherent'
    BY <1>16, <2>6 DEF Swap, Coherent
  <2>5. ConfigValid'
    BY <1>0, <1>16, <2>6 DEF Swap, ConfigValid, Valid
  <2> QED BY <1>0, <2>1, <2>3, <2>4, <2>5, HolderSaving
<1>17. ASSUME NEW s \in Sessions, Load(s) PROVE Saving' /\ Coherent' /\ ConfigValid'
  <2>1. Moves(s) /\ thr[s].pc \in Locked
    BY <1>99, <1>17 DEF Load, Goto, Done, Moves, at, Locked
  <2>2. Knows(s)
    BY <1>0 DEF Saving
  <2>3. Knows(s)'
    BY <1>99, <1>17 DEF Load, Goto, Done, idle, at, Knows, Session
  <2>6. ~env.editor => thr[s].data = disk
    BY <1>17, <2>2 DEF Load, at, Knows
  <2>7. UNCHANGED <<env, disk, up>> /\ loaded' = IF Valid(thr[s].data) THEN thr[s].data ELSE loaded
    BY <1>17 DEF Load
  <2>8. ~env.editor => Valid(disk)
    BY <1>0 DEF ConfigValid
  <2>4. Coherent'
    BY <2>6, <2>7, <2>8 DEF Coherent
  <2>5. ConfigValid'
    BY <1>0, <2>7 DEF ConfigValid, Valid
  <2> QED BY <1>0, <2>1, <2>3, <2>4, <2>5, HolderSaving
<1>18. ASSUME NEW s \in Sessions, ApplyLoaded(s) PROVE Saving' /\ Coherent' /\ ConfigValid'
  <2>1. Moves(s) /\ thr[s].pc \in Locked
    BY <1>99, <1>18 DEF ApplyLoaded, Goto, Done, Moves, at, Locked
  <2>2. Knows(s)
    BY <1>0 DEF Saving
  <2>3. Knows(s)'
    BY <1>99, <1>18 DEF ApplyLoaded, Done, idle, at, Knows
  <2>4. Coherent'
    BY <1>0, <1>99, <1>18 DEF ApplyLoaded, Goto, Done, idle, at, Coherent, Session
  <2>5. ConfigValid'
    BY <1>0, <1>18 DEF ApplyLoaded, ConfigValid, Valid
  <2> QED BY <1>0, <2>1, <2>3, <2>4, <2>5, HolderSaving
<1> QED
  BY <1>1, <1>2, <1>3, <1>4, <1>5, <1>6, <1>7, <1>8, <1>9, <1>10, <1>11, <1>12, <1>13,
     <1>14, <1>15, <1>16, <1>17, <1>18 DEF Next, Handle

\* The inductive invariant holds at the start: everything agrees.
LEMMA InitInv == Init => IInv
<1> SUFFICES ASSUME Init PROVE IInv
  OBVIOUS
<1>1. TypeOK
  BY InitTypeOK
<1>2. \A s \in Sessions : thr[s] = idle
  BY DEF Init
<1>3. Mutex /\ DownIsIdle /\ Saving
  BY <1>2, SessionsAssumption DEF Init, idle, Mutex, DownIsIdle, Saving, Knows, Locked
<1>4. Coherent /\ ConfigValid
  BY DEF Init, Coherent, ConfigValid
<1> QED BY <1>1, <1>3, <1>4 DEF IInv

\* The inductive invariant of the panel's configuration (panel.go,
\* rules_edit.go), for any sessions, edits, failures and kills.
THEOREM PanelInvariant == Spec => []IInv
<1>1. IInv /\ [Next]_vars => IInv'
  BY NextTypeOK, NextMutex, NextSaving DEF IInv
<1> QED BY InitInv, <1>1, PTL DEF Spec

\* Every variable has its type.
THEOREM PanelTypeOK == Spec => []TypeOK
<1>1. IInv => TypeOK
  BY DEF IInv
<1> QED BY PanelInvariant, <1>1, PTL

\* What the panel serves is always a valid configuration, and so is the file
\* if only the panel writes it.
THEOREM PanelConfigValid == Spec => []ConfigValid
<1>1. IInv => ConfigValid
  BY DEF IInv
<1> QED BY PanelInvariant, <1>1, PTL

\* Whenever nobody saves, memory and file agree.
THEOREM PanelMemoryIsDisk == Spec => []MemoryIsDisk
<1>1. IInv => MemoryIsDisk
  <2> SUFFICES ASSUME IInv, up, ~env.editor, writeMu = NoSession PROVE loaded = disk
    BY DEF MemoryIsDisk
  <2>1. \A s \in Sessions : thr[s].pc # "swap"
    BY SessionsAssumption DEF IInv, Mutex, Locked
  <2> QED BY <2>1 DEF IInv, Coherent
<1> QED BY PanelInvariant, <1>1, PTL

\* A save replaces what its session's revision names, and keeps a copy of it.
THEOREM PanelNoLostEdit == Spec => NoLostEdit
<1> DEFINE Lossless == \A s \in Sessions : ~env.editor /\ at(s, "rename") /\ disk' # disk
                         => disk = thr[s].rev /\ bak = disk
<1>1. IInv => Lossless
  BY DEF IInv, Saving, Knows, at
<1>2. IInv /\ [Next]_vars => [Lossless]_vars
  BY <1>1
<1> QED BY PanelInvariant, <1>2, PTL DEF Spec, NoLostEdit

-----------------------------------------------------------------------------
(* The manager runs what is configured.  Requests that come one at a time  *)
(* make one session at most that is inside a handler (Turns); so while a   *)
(* request is on its way to Apply, the egresses it will apply are those of *)
(* the configuration (Forms), and no other request is (Follows).           *)

Resting == {"idle", "half", "edit"}
Turns ==
  env.serial => \A s, u \in Sessions : thr[s].pc \notin Resting /\ thr[u].pc \notin Resting => s = u

\* Which section a session edits, and which egresses it will leave behind.
Form(s) ==
  LET t == thr[s] IN
  /\ t.pc \in {"half", "edit", "check", "backup", "rename", "swap"} => t.kind \in Sections
  /\ t.pc \in {"lock", "read"} => t.kind \in Sections \union {"reload"}
  /\ t.pc \in {"backup", "rename", "swap"} /\ t.kind = "rules" => t.out.egress = loaded.egress
  /\ t.pc = "apply" /\ env.serial => t.out.egress = loaded.egress
Forms == \A s \in Sessions : Form(s)

Applying == {"apply", "applyLoaded"}
Follows ==
  up /\ env.serial /\ "apply" \notin env.faults =>
    applied = loaded.egress \/ \E s \in Sessions : thr[s].pc \in Applying

\* A session that moves has its turn, if it goes into a handler.
MayMove(s) == \/ thr'[s].pc \in Resting \/ thr[s].pc \notin Resting
              \/ env.serial => \A u \in Sessions : thr[u].pc \in Resting

LEMMA MoveTurns ==
  ASSUME Turns, NEW s \in Sessions, Moves(s), env' = env, MayMove(s)
  PROVE  Turns'
  BY DEF Turns, Moves, MayMove

\* What a session does to the configuration concerns no other: one that is
\* inside holds the mutex, one about to apply has its turn alone.
LEMMA MoveForms ==
  ASSUME Mutex, Turns, Forms, NEW s \in Sessions, Moves(s), env' = env, Form(s)',
         loaded' = loaded \/ thr[s].pc \in Locked
  PROVE  Forms'
<1> SUFFICES ASSUME NEW u \in Sessions, u # s PROVE Form(u)'
  BY DEF Forms
<1>1. thr'[u] = thr[u] /\ Form(u)
  BY DEF Moves, Forms
<1>2. CASE loaded' = loaded
  BY <1>1, <1>2 DEF Form
<1>3. CASE thr[s].pc \in Locked
  <2>1. thr[u].pc \notin Locked
    BY <1>3 DEF Mutex
  <2>2. env.serial => thr[u].pc # "apply"
    BY <1>3 DEF Turns, Resting, Locked
  <2> QED BY <1>1, <2>1, <2>2 DEF Form, Locked
<1> QED BY <1>2, <1>3

\* A step that neither applies nor changes what is to be applied.
LEMMA CalmStep ==
  ASSUME Mutex, Turns, Forms, Follows, NEW s \in Sessions, Moves(s), MayMove(s), Form(s)',
         UNCHANGED <<env, up, loaded, applied>>, thr[s].pc \notin Applying
  PROVE  Turns' /\ Forms' /\ Follows'
<1>1. Follows'
  BY DEF Follows, Moves
<1> QED BY <1>1, MoveTurns, MoveForms

\* A session that works inside a handler is the only one, so nobody else is
\* about to apply.
LEMMA NobodyElse ==
  ASSUME Turns, Follows, NEW s \in Sessions, thr[s].pc \notin Resting \union Applying
  PROVE  up /\ env.serial /\ "apply" \notin env.faults => applied = loaded.egress
  BY DEF Turns, Follows, Resting, Applying

LEMMA NextFollows == IInv /\ Turns /\ Forms /\ Follows /\ [Next]_vars => Turns' /\ Forms' /\ Follows'
<1> SUFFICES ASSUME IInv, Turns, Forms, Follows, [Next]_vars PROVE Turns' /\ Forms' /\ Follows'
  OBVIOUS
<1>0. TypeOK /\ Mutex /\ DownIsIdle /\ Saving /\ TypeOK'
  BY NextTypeOK DEF IInv
<1>99. thr \in [Sessions -> Session] /\ thr' \in [Sessions -> Session]
  BY <1>0 DEF TypeOK
<1>98. \A s \in Sessions : Form(s)
  BY DEF Forms
<1>1. CASE UNCHANGED vars
  BY <1>1 DEF vars, Turns, Forms, Form, Follows
<1>2. CASE Edit
  BY <1>2 DEF Edit, Turns, Forms, Form, Follows
<1>3. CASE Kill
  <2>1. /\ \A s \in Sessions : thr'[s] = idle \/ (thr'[s] = thr[s] /\ thr[s].pc = "edit")
        /\ UNCHANGED <<env, loaded>> /\ up' = FALSE
    BY <1>3 DEF Kill, at
  <2> QED BY <1>98, <2>1 DEF idle, Turns, Forms, Form, Follows, Resting
\* Nobody is inside a handler, and the manager is made from the file.
<1>4. CASE Restart
  <2>1. /\ \A s \in Sessions : thr'[s] = thr[s] /\ thr[s].pc \in {"idle", "edit"}
        /\ env' = env /\ applied' = loaded'.egress
    BY <1>0, <1>4 DEF Restart, DownIsIdle
  <2> QED BY <1>98, <2>1 DEF Turns, Forms, Form, Follows, Resting
<1>5. ASSUME NEW s \in Sessions, GetRules(s) PROVE Turns' /\ Forms' /\ Follows'
  <2>1. Moves(s) /\ UNCHANGED <<env, up, loaded, applied>> /\ thr[s].pc \notin Applying
    BY <1>99, <1>5 DEF GetRules, Goto, Done, Moves, at, Applying
  <2>2. MayMove(s)
    BY <1>99, <1>5 DEF GetRules, idle, at, MayMove, Resting, Session
  <2>3. Form(s)'
    BY <1>99, <1>98, <1>5 DEF GetRules, idle, at, Form, Session, Sections
  <2> QED BY <1>0, <2>1, <2>2, <2>3, CalmStep
<1>6. ASSUME NEW s \in Sessions, GetEgress(s) PROVE Turns' /\ Forms' /\ Follows'
  <2>1. Moves(s) /\ UNCHANGED <<env, up, loaded, applied>> /\ thr[s].pc \notin Applying
    BY <1>99, <1>6 DEF GetEgress, Goto, Done, Moves, at, Applying
  <2>2. MayMove(s)
    BY <1>99, <1>6 DEF GetEgress, idle, at, MayMove, Resting, Session
  <2>3. Form(s)'
    BY <1>99, <1>98, <1>6 DEF GetEgress, idle, at, Form, Session, Sections
  <2> QED BY <1>0, <2>1, <2>2, <2>3, CalmStep
<1>7. ASSUME NEW s \in Sessions, GetEgressRevision(s) PROVE Turns' /\ Forms' /\ Follows'
  <2>1. Moves(s) /\ UNCHANGED <<env, up, loaded, applied>> /\ thr[s].pc \notin Applying
    BY <1>99, <1>7 DEF GetEgressRevision, Goto, Done, Moves, at, Applying
  <2>2. MayMove(s)
    BY <1>99, <1>7 DEF GetEgressRevision, Goto, at, MayMove, Resting, Session
  <2>3. Form(s)'
    BY <1>99, <1>98, <1>7 DEF GetEgressRevision, Goto, at, Form, Session, Sections
  <2> QED BY <1>0, <2>1, <2>2, <2>3, CalmStep
<1>8. ASSUME NEW s \in Sessions, Reload(s) PROVE Turns' /\ Forms' /\ Follows'
  <2>1. Moves(s) /\ UNCHANGED <<env, up, loaded, applied>> /\ thr[s].pc \notin Applying
    BY <1>99, <1>8 DEF Reload, Goto, Done, Moves, at, Applying
  <2>2. MayMove(s)
    BY <1>99, <1>8 DEF Reload, MaySend, Quiet, at, MayMove, Resting, Session
  <2>3. Form(s)'
    BY <1>99, <1>98, <1>8 DEF Reload, Goto, at, Form, Session, Sections
  <2> QED BY <1>0, <2>1, <2>2, <2>3, CalmStep
<1>9. ASSUME NEW s \in Sessions, NEW value \in SUBSET Names, Put(s, value) PROVE Turns' /\ Forms' /\ Follows'
  <2>1. Moves(s) /\ UNCHANGED <<env, up, loaded, applied>> /\ thr[s].pc \notin Applying
    BY <1>99, <1>9 DEF Put, Goto, Done, Moves, at, Applying
  <2>2. MayMove(s)
    BY <1>99, <1>9 DEF Put, MaySend, Quiet, at, MayMove, Resting, Session
  <2>3. Form(s)'
    BY <1>99, <1>98, <1>9 DEF Put, Goto, at, Form, Session, Sections
  <2> QED BY <1>0, <2>1, <2>2, <2>3, CalmStep
<1>10. ASSUME NEW s \in Sessions, Lock(s) PROVE Turns' /\ Forms' /\ Follows'
  <2>1. Moves(s) /\ UNCHANGED <<env, up, loaded, applied>> /\ thr[s].pc \notin Applying
    BY <1>99, <1>10 DEF Lock, Goto, Done, Moves, at, Applying
  <2>2. MayMove(s)
    BY <1>99, <1>10 DEF Lock, Goto, at, MayMove, Resting, Session
  <2>3. Form(s)'
    BY <1>99, <1>98, <1>10 DEF Lock, Goto, at, Form, Session, Sections
  <2> QED BY <1>0, <2>1, <2>2, <2>3, CalmStep
<1>11. ASSUME NEW s \in Sessions, Read(s) PROVE Turns' /\ Forms' /\ Follows'
  <2>1. Moves(s) /\ UNCHANGED <<env, up, loaded, applied>> /\ thr[s].pc \notin Applying
    BY <1>99, <1>11 DEF Read, Goto, Done, Moves, at, Applying
  <2>2. MayMove(s)
    BY <1>99, <1>11 DEF Read, Goto, at, MayMove, Resting, Session
  <2>3. Form(s)'
    BY <1>99, <1>98, <1>11 DEF Read, Goto, at, Form, Session, Sections
  <2> QED BY <1>0, <2>1, <2>2, <2>3, CalmStep
<1>12. ASSUME NEW s \in Sessions, Check(s) PROVE Turns' /\ Forms' /\ Follows'
  <2> DEFINE want == Rewrite(loaded, thr[s].kind, Section(thr[s].out, thr[s].kind))
  <2>1. Moves(s) /\ UNCHANGED <<env, up, loaded, applied>> /\ thr[s].pc = "check"
    BY <1>99, <1>12 DEF Check, Done, Moves, at
  <2>2. \/ thr'[s] = idle
        \/ thr'[s].pc = "backup" /\ thr'[s].out = want /\ thr'[s].kind = thr[s].kind
    BY <1>99, <1>12 DEF Check, Done, Session
  <2>3. thr[s].kind \in Sections /\ (thr[s].kind = "rules" => want.egress = loaded.egress)
    <3>1. thr[s].kind \in Sections
      BY <1>98, <2>1 DEF Form
    <3>2. loaded \in Config
      BY <1>0 DEF TypeOK
    <3> QED BY <3>1, <3>2 DEF Rewrite, Config
  <2> HIDE DEF want
  <2>4. MayMove(s) /\ thr[s].pc \notin Applying
    BY <2>1 DEF MayMove, Resting, Applying
  <2>5. Form(s)'
    BY <2>1, <2>2, <2>3 DEF idle, Form
  <2> QED BY <1>0, <2>1, <2>4, <2>5, CalmStep
<1>13. ASSUME NEW s \in Sessions, Backup(s) PROVE Turns' /\ Forms' /\ Follows'
  <2>1. Moves(s) /\ UNCHANGED <<env, up, loaded, applied>> /\ thr[s].pc \notin Applying
    BY <1>99, <1>13 DEF Backup, Goto, Done, Moves, at, Applying
  <2>2. MayMove(s)
    BY <1>99, <1>13 DEF Backup, Goto, Done, idle, at, MayMove, Resting, Session
  <2>3. Form(s)'
    BY <1>99, <1>98, <1>13 DEF Backup, Goto, Done, idle, at, Form, Session, Sections
  <2> QED BY <1>0, <2>1, <2>2, <2>3, CalmStep
<1>14. ASSUME NEW s \in Sessions, Rename(s) PROVE Turns' /\ Forms' /\ Follows'
  <2>1. Moves(s) /\ UNCHANGED <<env, up, loaded, applied>> /\ thr[s].pc \notin Applying
    BY <1>99, <1>14 DEF Rename, Goto, Done, Moves, at, Applying
  <2>2. MayMove(s)
    BY <1>99, <1>14 DEF Rename, Goto, Done, idle, at, MayMove, Resting, Session
  <2>3. Form(s)'
    BY <1>99, <1>98, <1>14 DEF Rename, Goto, Done, idle, at, Form, Session, Sections
  <2> QED BY <1>0, <2>1, <2>2, <2>3, CalmStep
\* The rules alone have changed, or the session goes on to apply.
<1>15. ASSUME NEW s \in Sessions, Swap(s) PROVE Turns' /\ Forms' /\ Follows'
  <2>1. /\ Moves(s) /\ UNCHANGED <<env, up, applied>> /\ thr[s].pc = "swap"
        /\ loaded' = thr[s].out
    BY <1>99, <1>15 DEF Swap, Goto, Done, Moves, at
  <2>2. \/ thr[s].kind = "rules" /\ thr'[s] = idle /\ loaded'.egress = loaded.egress
        \/ thr'[s].pc = "apply" /\ thr'[s].out = thr[s].out
    BY <1>98, <1>99, <1>15, <2>1 DEF Swap, Goto, Done, Form, Session, Sections
  <2>3. Turns'
    BY <2>1, MoveTurns DEF MayMove, Resting
  <2>4. Forms'
    <3>1. Form(s)'
      BY <2>1, <2>2 DEF Form, idle
    <3> QED BY <1>0, <2>1, <3>1, MoveForms DEF Locked
  <2>5. up /\ env.serial /\ "apply" \notin env.faults => applied = loaded.egress
    BY <2>1, NobodyElse DEF Resting, Applying
  <2>6. Follows'
    BY <2>1, <2>2, <2>5 DEF Follows, Applying
  <2> QED BY <2>3, <2>4, <2>6
<1>16. ASSUME NEW s \in Sessions, ApplyEgress(s) PROVE Turns' /\ Forms' /\ Follows'
  <2>1. /\ Moves(s) /\ UNCHANGED <<env, up, loaded>> /\ thr[s].pc = "apply" /\ thr'[s] = idle
        /\ (applied' = thr[s].out.egress \/ "apply" \in env.faults)
    BY <1>99, <1>16 DEF ApplyEgress, Done, Moves, at
  <2>2. env.serial => thr[s].out.egress = loaded.egress
    BY <1>98, <2>1 DEF Form
  <2>3. Form(s)' /\ MayMove(s)
    BY <2>1 DEF Form, MayMove, idle, Resting
  <2>4. Follows'
    BY <2>1, <2>2 DEF Follows
  <2> QED BY <1>0, <2>1, <2>3, <2>4, MoveTurns, MoveForms
\* The egresses are as before, or the session goes on to apply.
<1>17. ASSUME NEW s \in Sessions, Load(s) PROVE Turns' /\ Forms' /\ Follows'
  <2>1. /\ Moves(s) /\ UNCHANGED <<env, up, applied>> /\ thr[s].pc = "load"
        /\ (thr'[s] = idle /\ loaded'.egress = loaded.egress) \/ thr'[s].pc = "applyLoaded"
    BY <1>99, <1>17 DEF Load, Goto, Done, Moves, at, Session
  <2>2. Turns'
    BY <2>1, MoveTurns DEF MayMove, Resting
  <2>3. Forms'
    <3>1. Form(s)'
      BY <2>1 DEF Form, idle
    <3> QED BY <1>0, <2>1, <3>1, MoveForms DEF Locked
  <2>4. up /\ env.serial /\ "apply" \notin env.faults => applied = loaded.egress
    BY <2>1, NobodyElse DEF Resting, Applying
  <2>5. Follows'
    BY <2>1, <2>4 DEF Follows, Applying
  <2> QED BY <2>2, <2>3, <2>5
<1>18. ASSUME NEW s \in Sessions, ApplyLoaded(s) PROVE Turns' /\ Forms' /\ Follows'
  <2>1. /\ Moves(s) /\ UNCHANGED <<env, up, loaded>> /\ thr[s].pc = "applyLoaded" /\ thr'[s] = idle
        /\ (applied' = loaded.egress \/ "apply" \in env.faults)
    BY <1>99, <1>18 DEF ApplyLoaded, Done, Moves, at
  <2>2. Form(s)' /\ MayMove(s)
    BY <2>1 DEF Form, MayMove, idle, Resting
  <2>3. Follows'
    BY <2>1 DEF Follows
  <2> QED BY <1>0, <2>1, <2>2, <2>3, MoveTurns, MoveForms
<1> QED
  BY <1>1, <1>2, <1>3, <1>4, <1>5, <1>6, <1>7, <1>8, <1>9, <1>10, <1>11, <1>12, <1>13,
     <1>14, <1>15, <1>16, <1>17, <1>18 DEF Next, Handle

\* The manager runs the configured egresses once the requests are done, for
\* any sessions, sections and files, if the requests come one at a time and
\* Apply does not fail; saves, reloads, edits and kills come in any order.
THEOREM PanelEgressFollowsConfig == Spec => []EgressFollowsConfig
<1> DEFINE Inv == IInv /\ Turns /\ Forms /\ Follows
<1>1. Init => Inv
  <2> SUFFICES ASSUME Init PROVE Turns /\ Forms /\ Follows
    BY InitInv
  <2>1. \A s \in Sessions : thr[s] = idle
    BY DEF Init
  <2> QED BY <2>1 DEF Init, Turns, Forms, Form, Follows, idle, Resting
<1>2. Inv /\ [Next]_vars => Inv'
  <2>1. IInv /\ [Next]_vars => IInv'
    BY NextTypeOK, NextMutex, NextSaving DEF IInv
  <2> QED BY <2>1, NextFollows
<1>3. Inv => EgressFollowsConfig
  BY DEF Follows, EgressFollowsConfig, Quiet, Applying
<1> QED BY <1>1, <1>2, <1>3, PTL DEF Spec
=============================================================================
