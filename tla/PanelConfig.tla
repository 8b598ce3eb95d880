----------------------------- MODULE PanelConfig -----------------------------
(***************************************************************************)
(* The configuration file and its copies (internal/panel): the file and    *)
(* its .bak, the configuration the panel serves and routes by, and the     *)
(* egresses the manager runs.  Browser sessions read a section and save it *)
(* with the revision they were given, POST /reload reads the file, people  *)
(* edit it beside the daemon, and the daemon may be killed.  Revision is a *)
(* hash of the file, so a revision is the content it names.                *)
(***************************************************************************)

CONSTANTS
  Names,     \* egress names
  Sessions,  \* browser sessions; each sends one request at a time
  NoSession,
  Envs       \* what may happen: see Env

ASSUME SessionsAssumption == NoSession \notin Sessions

Sections == {"rules", "egress"}

\* The circumstances of one behaviour: the requests that are sent; whether
\* sessions take turns; whether the file is edited beside the daemon; what
\* fails.
Env == [requests : SUBSET (Sections \union {"reload"}),
        serial   : BOOLEAN,
        editor   : BOOLEAN,
        faults   : SUBSET {"backup", "write", "apply", "kill"}]

ASSUME EnvsAssumption == Envs \subseteq Env

VARIABLES
  env,
  disk,     \* the configuration file
  bak,      \* its backup
  up,       \* the daemon runs
  loaded,   \* Server.cfg, with the engine and the revision made from it
  applied,  \* the egresses of the manager
  writeMu,  \* holder of Server.writeMu
  thr       \* what each session is doing

vars == <<env, disk, bak, up, loaded, applied, writeMu, thr>>

\* A configuration has the egresses of its `egress:` section and the targets
\* its `rules:` section names; a file may also be no configuration at all.
Config == [kind : {"ok"}, rules : SUBSET Names, egress : SUBSET Names]
NoConfig == [kind |-> "bad", rules |-> {}, egress |-> {}]
File == Config \union {NoConfig}

\* Parse and Validate: rules name only egresses that exist.
Valid(c) == c.kind = "ok" /\ c.rules \subseteq c.egress

\* ReplaceRules, ReplaceEgress: one section is rewritten, the other kept.
Rewrite(c, section, value) ==
  IF section = "rules" THEN [c EXCEPT !.rules = value] ELSE [c EXCEPT !.egress = value]
Section(c, section) == IF section = "rules" THEN c.rules ELSE c.egress

idle == [pc |-> "idle", kind |-> "none", shown |-> {}, rev |-> NoConfig, data |-> NoConfig, out |-> NoConfig]
at(s, pc) == thr[s].pc = pc
Goto(s, pc) == thr' = [thr EXCEPT ![s].pc = pc]

\* A handler returns: what it knew is gone.
Done(s) == thr' = [thr EXCEPT ![s] = idle]
Unlock == writeMu' = NoSession

\* A session has a form open, or nothing; the others are inside a handler.
Quiet == \A s \in Sessions : thr[s].pc \in {"idle", "half", "edit"}
MaySend == env.serial => Quiet

Init ==
  /\ env \in Envs
  /\ disk \in {c \in Config : Valid(c)}
  /\ bak = NoConfig
  /\ up = TRUE
  /\ loaded = disk
  /\ applied = disk.egress
  /\ writeMu = NoSession
  /\ thr = [s \in Sessions |-> idle]

-----------------------------------------------------------------------------
(* GET /rules and GET /egress.                                             *)

\* handleRules reads configuration and revision in one critical section.
GetRules(s) ==
  /\ up
  /\ at(s, "idle")
  /\ "rules" \in env.requests
  /\ thr' = [thr EXCEPT ![s] = [idle EXCEPT !.pc = "edit", !.kind = "rules", !.shown = loaded.rules, !.rev = loaded]]
  /\ UNCHANGED <<env, disk, bak, up, loaded, applied, writeMu>>

\* handleEgress reads the configuration in one, the revision in another.
GetEgress(s) ==
  /\ up
  /\ at(s, "idle")
  /\ "egress" \in env.requests
  /\ MaySend
  /\ thr' = [thr EXCEPT ![s] = [idle EXCEPT !.pc = "half", !.kind = "egress", !.shown = loaded.egress]]
  /\ UNCHANGED <<env, disk, bak, up, loaded, applied, writeMu>>

GetEgressRevision(s) ==
  /\ at(s, "half")
  /\ thr' = [thr EXCEPT ![s].pc = "edit", ![s].rev = loaded]
  /\ UNCHANGED <<env, disk, bak, up, loaded, applied, writeMu>>

-----------------------------------------------------------------------------
(* PUT /rules and PUT /egress: saveSection.                                *)

\* The session sends its section; out.kind is decided by Check.
Put(s, value) ==
  /\ up
  /\ at(s, "edit")
  /\ MaySend
  /\ thr' = [thr EXCEPT ![s].pc = "lock", ![s].out = Rewrite(NoConfig, thr[s].kind, value)]
  /\ UNCHANGED <<env, disk, bak, up, loaded, applied, writeMu>>

Lock(s) ==
  /\ at(s, "lock")
  /\ writeMu = NoSession
  /\ writeMu' = s
  /\ Goto(s, "read")
  /\ UNCHANGED <<env, disk, bak, up, loaded, applied>>

Read(s) ==
  /\ at(s, "read")
  /\ thr' = [thr EXCEPT ![s].pc = IF thr[s].kind = "reload" THEN "load" ELSE "check", ![s].data = disk]
  /\ UNCHANGED <<env, disk, bak, up, loaded, applied, writeMu>>

\* Faulty variant: only the file is compared.
CheckFile(s) ==
  LET t == thr[s]
      want == Rewrite(loaded, t.kind, Section(t.out, t.kind)) IN
  /\ at(s, "check")
  /\ IF t.data = loaded /\ Valid(want)
     THEN thr' = [thr EXCEPT ![s].pc = "backup", ![s].out = want] /\ UNCHANGED writeMu
     ELSE Done(s) /\ Unlock
  /\ UNCHANGED <<env, disk, bak, up, loaded, applied>>

\* 409 unless the session's revision, the file and what is loaded agree; 400
\* unless the edited configuration is valid as a whole.
Check(s) ==
  LET t == thr[s]
      want == Rewrite(loaded, t.kind, Section(t.out, t.kind)) IN
  /\ at(s, "check")
  /\ IF t.rev = loaded /\ t.data = loaded /\ Valid(want)
     THEN thr' = [thr EXCEPT ![s].pc = "backup", ![s].out = want] /\ UNCHANGED writeMu
     ELSE Done(s) /\ Unlock
  /\ UNCHANGED <<env, disk, bak, up, loaded, applied>>

Backup(s) ==
  /\ at(s, "backup")
  /\ \/ bak' = thr[s].data /\ Goto(s, "rename") /\ UNCHANGED writeMu
     \/ "backup" \in env.faults /\ bak' \in {NoConfig, bak} /\ Done(s) /\ Unlock
  /\ UNCHANGED <<env, disk, up, loaded, applied>>

\* The temporary file has a name of its own and is complete before the rename:
\* a failure of either changes nothing.
Rename(s) ==
  /\ at(s, "rename")
  /\ \/ disk' = thr[s].out /\ Goto(s, "swap") /\ UNCHANGED writeMu
     \/ "write" \in env.faults /\ Done(s) /\ Unlock /\ UNCHANGED disk
  /\ UNCHANGED <<env, bak, up, loaded, applied>>

\* saveSection ends with the swap; handleEgressPut goes on without the mutex.
Swap(s) ==
  /\ at(s, "swap")
  /\ loaded' = thr[s].out
  /\ Unlock
  /\ IF thr[s].kind = "egress" THEN Goto(s, "apply") ELSE Done(s)
  /\ UNCHANGED <<env, disk, bak, up, applied>>

\* Manager.Apply, as far as the map of egresses goes; its error is a warning.
ApplyEgress(s) ==
  /\ at(s, "apply")
  /\ applied' = thr[s].out.egress \/ ("apply" \in env.faults /\ UNCHANGED applied)
  /\ Done(s)
  /\ UNCHANGED <<env, disk, bak, up, loaded, writeMu>>

-----------------------------------------------------------------------------
(* POST /reload, all of it under writeMu.                                  *)

Reload(s) ==
  /\ up
  /\ at(s, "idle")
  /\ "reload" \in env.requests
  /\ MaySend
  /\ thr' = [thr EXCEPT ![s].pc = "lock", ![s].kind = "reload"]
  /\ UNCHANGED <<env, disk, bak, up, loaded, applied, writeMu>>

\* Faulty variant: the old configuration is read after the load.
LoadLate(s) ==
  LET new == thr[s].data IN
  /\ at(s, "load")
  /\ loaded' = IF Valid(new) THEN new ELSE loaded
  /\ Done(s) /\ Unlock
  /\ UNCHANGED <<env, disk, bak, up, applied>>

\* A file that does not parse or validate leaves everything as it is; egresses
\* are applied if they differ from those loaded before.
Load(s) ==
  LET new == thr[s].data IN
  /\ at(s, "load")
  /\ loaded' = IF Valid(new) THEN new ELSE loaded
  /\ IF Valid(new) /\ new.egress # loaded.egress
     THEN Goto(s, "applyLoaded") /\ UNCHANGED writeMu
     ELSE Done(s) /\ Unlock
  /\ UNCHANGED <<env, disk, bak, up, applied>>

ApplyLoaded(s) ==
  /\ at(s, "applyLoaded")
  /\ applied' = loaded.egress \/ ("apply" \in env.faults /\ UNCHANGED applied)
  /\ Done(s) /\ Unlock
  /\ UNCHANGED <<env, disk, bak, up, loaded>>

-----------------------------------------------------------------------------
(* The world outside.                                                      *)

Edit ==
  /\ env.editor
  /\ disk' \in File \ {disk}
  /\ UNCHANGED <<env, bak, up, loaded, applied, writeMu, thr>>

\* The browsers keep their forms.
Kill ==
  /\ up
  /\ "kill" \in env.faults
  /\ up' = FALSE
  /\ thr' = [s \in Sessions |-> IF at(s, "edit") THEN thr[s] ELSE idle]
  /\ Unlock
  /\ UNCHANGED <<env, disk, bak, loaded, applied>>

\* New loads the file or fails; the manager is made from what was loaded.
Restart ==
  /\ ~up
  /\ Valid(disk)
  /\ up' = TRUE
  /\ loaded' = disk
  /\ applied' = disk.egress
  /\ UNCHANGED <<env, disk, bak, writeMu, thr>>

Handle(s) == \/ GetEgressRevision(s) \/ Read(s) \/ Check(s) \/ Backup(s) \/ Rename(s) \/ Swap(s)
             \/ ApplyEgress(s) \/ Load(s) \/ ApplyLoaded(s)

Next ==
  \/ Edit \/ Kill \/ Restart
  \/ \E s \in Sessions : \/ GetRules(s) \/ GetEgress(s) \/ Reload(s) \/ Lock(s) \/ Handle(s)
                         \/ \E value \in SUBSET Names : Put(s, value)

Spec == Init /\ [][Next]_vars

-----------------------------------------------------------------------------
(* Properties                                                              *)

Locked == {"read", "check", "backup", "rename", "swap", "load", "applyLoaded"}

\* A session's draft is no configuration before Check has made it one.
Draft == [kind : {"ok", "bad"}, rules : SUBSET Names, egress : SUBSET Names]
Session == [pc : {"idle", "half", "edit", "lock", "apply"} \union Locked, kind : Sections \union {"reload", "none"},
            shown : SUBSET Names, rev : File, data : File, out : Draft]

\* Every variable has its type.
TypeOK ==
  /\ env \in Envs
  /\ disk \in File
  /\ bak \in File
  /\ up \in BOOLEAN
  /\ loaded \in Config
  /\ applied \in SUBSET Names
  /\ writeMu \in Sessions \union {NoSession}
  /\ thr \in [Sessions -> Session]

\* What is served is a whole, valid configuration, and so is the file as long
\* as only the panel writes it: no two sections saved by two sessions can
\* disagree, and no kill leaves the file half written.
ConfigValid ==
  /\ Valid(loaded)
  /\ ~env.editor => Valid(disk)

\* Whenever nobody saves, the configuration served is the one in the file, and
\* a restart changes nothing.
MemoryIsDisk ==
  up /\ ~env.editor /\ writeMu = NoSession => loaded = disk

\* A save replaces exactly what its session was given, in both sections, and
\* the replaced file is in the backup; egress forms: see NoOverwrite.
NoLostEdit ==
  [][\A s \in Sessions : ~env.editor /\ at(s, "rename") /\ disk' # disk
       => disk = thr[s].rev /\ bak = disk]_vars

\* Once the requests are done, the manager runs the configured egresses, if
\* they came one at a time and Apply did not fail.
EgressFollowsConfig ==
  up /\ Quiet /\ env.serial /\ "apply" \notin env.faults => applied = loaded.egress

\* README.md:438: a save is refused with 409 "instead of overwriting somebody
\* else's change" made since editing began.
NoOverwrite ==
  [][\A s \in Sessions : at(s, "rename") /\ disk' # disk
       => thr[s].shown = Section(disk, thr[s].kind)]_vars
=============================================================================
