---------------------------- MODULE FakeIPStore ----------------------------
(***************************************************************************)
(* The FakeIP pool across restarts: DNS answers that clients cache, and    *)
(* the state file fakeip.json written by Pool.Save, read by Pool.Load.     *)
(*                                                                         *)
(* Save takes its snapshot under Pool.mu but writes <path>.tmp and renames *)
(* it with no lock, so two savers share one temporary file.  The file      *)
(* system is modelled by inodes, because a saver keeps writing to the      *)
(* inode it opened even after another saver renamed it.                    *)
(***************************************************************************)
EXTENDS FakeIPFamily, FiniteSets

CONSTANTS
  Fams,               \* the pool's families, {"v4"} or {"v4", "v6"}
  Inodes,      \* inodes the two file names may refer to
  NoInode,
  Envs,        \* what may happen: see Env
  MaxVersion   \* bound on allocations over all runs

ASSUME InodesAssumption == NoInode \notin Inodes
ASSUME MaxVersionAssumption == MaxVersion \in Nat

\* The goroutines that may call Save: the ticker of captureRuntime.Serve and
\* the deferred Close.
Savers == {"ticker", "close"}

\* The circumstances of one behaviour: who saves; of a crash, a failed write
\* and a change of the prefixes between runs, which can happen; whether DNS
\* over TCP connections survive Close (TPROXY mode); how many answers
\* clients hold at once (a bound).
Env == [savers : {{"close"}, Savers}, faults : SUBSET {"crash", "disk", "reconfig"},
        lateDns : BOOLEAN, answers : Nat]

ASSUME EnvsAssumption == Envs \subseteq Env

VARIABLES
  env,      \* the circumstances, chosen once
  up,       \* "down", "running" or "closing" (the context is cancelled)
  pool,     \* [Fams -> Families]: the table in memory
  ver,      \* history: allocations the table in memory has seen
  saver,    \* progress of each saver
  fs,       \* inodes that <path>.tmp and <path> name
  data,     \* contents of the inodes
  newest,   \* history: version of the newest table a Save reported written
  answers   \* DNS answers clients still hold

vars == <<env, up, pool, ver, saver, fs, data, newest, answers>>

\* json.Marshal of the snapshot: what Save can restore later.
Snapshot == [fam : [Fams -> Families], ver : 0 .. MaxVersion]
emptyPool == [f \in Fams |-> newFamily]
emptySnapshot == [fam |-> emptyPool, ver |-> 0]

\* "whole": one snapshot; "empty": truncated; "torn": anything else.
Content == [kind : {"empty", "whole", "torn"}, snap : Snapshot]
Empty == [kind |-> "empty", snap |-> emptySnapshot]
Torn == [kind |-> "torn", snap |-> emptySnapshot]
Whole(s) == [kind |-> "whole", snap |-> s]

idle == [pc |-> "idle", snap |-> emptySnapshot, ino |-> NoInode]

Init ==
  /\ env \in Envs
  /\ up = "down"
  /\ pool = emptyPool
  /\ ver = 0
  /\ saver = [s \in Savers |-> idle]
  /\ fs = [tmp |-> NoInode, path |-> NoInode]
  /\ data = [i \in Inodes |-> Empty]
  /\ newest = 0
  /\ answers = {}

-----------------------------------------------------------------------------
(* Clients.                                                                *)

\* How many allocations the cursor is away from the address of n.
Ahead(fam, n) == (fam.byName[n] + Size - fam.next) % Size

\* A query for a name that may be routed is answered from the pool; the
\* client may keep the answer.
Query(n, f) ==
  /\ \/ up = "running"
     \/ up = "closing" /\ (saver["close"].pc = "idle" \/ env.lateDns)
  /\ pool[f].byName[n] = NoOff => ver < MaxVersion
  /\ pool' = [pool EXCEPT ![f] = get(@, n)]
  /\ ver' = IF pool[f].byName[n] = NoOff THEN ver + 1 ELSE ver
  /\ \/ UNCHANGED answers
     \/ /\ Cardinality(answers) < env.answers
        /\ answers' = answers \union
             {[name |-> n, fam |-> f, off |-> pool'[f].byName[n],
               until |-> ver' + Ahead(pool'[f], n)]}
  /\ UNCHANGED <<env, up, saver, fs, data, newest>>

\* The client's TTL (10 s by default) runs out.
Expire(a) ==
  /\ answers' = answers \ {a}
  /\ UNCHANGED <<env, up, pool, ver, saver, fs, data, newest>>

-----------------------------------------------------------------------------
(* Pool.Save, step by step.                                                *)

\* The table is copied under Pool.mu.  The final save follows the context's
\* end; the ticker's may begin just before it is noticed.
SaveSnapshot(s) ==
  /\ s \in env.savers
  /\ saver[s].pc = "idle"
  /\ up = IF s = "close" THEN "closing" ELSE up
  /\ up # "down"
  /\ saver' = [saver EXCEPT ![s] = [pc |-> "open", snap |-> [fam |-> pool, ver |-> ver],
                                    ino |-> NoInode]]
  /\ UNCHANGED <<env, up, pool, ver, fs, data, newest, answers>>

\* os.WriteFile opens the temporary file, created or truncated.
SaveOpen(s) ==
  /\ saver[s].pc = "open"
  /\ \E i \in Inodes :
        /\ IF fs.tmp = NoInode
             THEN i # fs.path /\ \A t \in Savers : saver[t].ino # i
             ELSE i = fs.tmp
        /\ fs' = [fs EXCEPT !.tmp = i]
        /\ data' = [data EXCEPT ![i] = Empty]
        /\ saver' = [saver EXCEPT ![s].pc = "write", ![s].ino = i]
  /\ UNCHANGED <<env, up, pool, ver, newest, answers>>

\* The snapshot is written over the first bytes of the inode: if another
\* saver wrote a longer one there meanwhile, its tail remains.
SaveWrite(s) ==
  /\ saver[s].pc = "write"
  /\ \E c \in {Whole(saver[s].snap)} \union
              (IF data[saver[s].ino] \in {Empty, Whole(saver[s].snap)} THEN {} ELSE {Torn}) :
        data' = [data EXCEPT ![saver[s].ino] = c]
  /\ saver' = [saver EXCEPT ![s].pc = "rename"]
  /\ UNCHANGED <<env, up, pool, ver, fs, newest, answers>>

\* Faulty variant of SaveWriteFails: the error is not returned.
SaveWriteFailsSilently(s) ==
  /\ "disk" \in env.faults
  /\ saver[s].pc = "write"
  /\ newest' = saver[s].snap.ver
  /\ saver' = [saver EXCEPT ![s] = [idle EXCEPT !.pc = "done"]]
  /\ UNCHANGED <<env, up, pool, ver, fs, data, answers>>

\* The disk is full: Save returns the error and leaves the temporary file.
SaveWriteFails(s) ==
  /\ "disk" \in env.faults
  /\ saver[s].pc = "write"
  /\ data' = [data EXCEPT ![saver[s].ino] = Torn]
  /\ saver' = [saver EXCEPT ![s] = [idle EXCEPT !.pc = "done"]]
  /\ UNCHANGED <<env, up, pool, ver, fs, newest, answers>>

\* os.Rename, which fails if the other saver has renamed the file already.
SaveRename(s) ==
  /\ saver[s].pc = "rename"
  /\ saver' = [saver EXCEPT ![s] = [idle EXCEPT !.pc = "done"]]
  /\ IF fs.tmp = NoInode
       THEN UNCHANGED <<fs, newest>>
       ELSE /\ fs' = [tmp |-> NoInode, path |-> fs.tmp]
            /\ newest' = IF saver[s].snap.ver > newest THEN saver[s].snap.ver ELSE newest
  /\ UNCHANGED <<env, up, pool, ver, data, answers>>

\* The ticker saves again a minute later.
NextMinute ==
  /\ saver["ticker"].pc = "done"
  /\ up = "running"
  /\ saver' = [saver EXCEPT !["ticker"] = idle]
  /\ UNCHANGED <<env, up, pool, ver, fs, data, newest, answers>>

-----------------------------------------------------------------------------
(* The process.                                                            *)

\* What os.ReadFile finds under <path>; a missing file is as good as an empty one.
onDisk == IF fs.path = NoInode THEN Empty ELSE data[fs.path]

\* Pool.Load into a new pool.  A missing file, or a family saved for another
\* prefix, is ignored; a file that does not parse is reported and ignored.
\* kept is the set of families whose prefix the configuration still has;
\* answers from other prefixes are no longer FakeIPs.
Start(kept) ==
  /\ up = "down"
  /\ up' = "running"
  /\ pool' = [f \in Fams |-> IF f \in kept THEN onDisk.snap.fam[f] ELSE newFamily]
  /\ ver' = onDisk.snap.ver
  /\ answers' = {a \in answers : a.fam \in kept}
  /\ saver' = [s \in Savers |-> idle]
  /\ UNCHANGED <<env, fs, data, newest>>

\* SIGTERM: the context is cancelled; Close runs next.
Stop ==
  /\ up = "running"
  /\ up' = "closing"
  /\ UNCHANGED <<env, pool, ver, saver, fs, data, newest, answers>>

\* Memory, and the savers' progress, are gone.
Down ==
  /\ up' = "down"
  /\ pool' = emptyPool
  /\ ver' = 0
  /\ saver' = [s \in Savers |-> idle]
  /\ UNCHANGED <<env, fs, data, newest, answers>>

\* Faulty variant of Exit: the last save is not waited for.
ExitAtOnce == up = "closing" /\ Down

\* The process ends once Close has returned; a ticker that is still saving
\* ends with it.
Exit == up = "closing" /\ saver["close"].pc = "done" /\ Down

Crash == "crash" \in env.faults /\ up # "down" /\ Down

StartAny == \E kept \in (IF "reconfig" \in env.faults THEN SUBSET Fams ELSE {Fams}) : Start(kept)

Next ==
  \/ \E n \in Names, f \in Fams : Query(n, f)
  \/ \E a \in answers : Expire(a)
  \/ \E s \in Savers : \/ SaveSnapshot(s) \/ SaveOpen(s) \/ SaveWrite(s)
                       \/ SaveWriteFails(s) \/ SaveRename(s)
  \/ NextMinute
  \/ StartAny
  \/ Stop
  \/ Exit
  \/ Crash

Spec == Init /\ [][Next]_vars

-----------------------------------------------------------------------------
Answers == [name : Names, fam : Fams, off : Offsets, until : Nat]

\* The state file, once there, is one table that Load can read: what
\* "safe for concurrent use" promises of Save (the comment on Pool).
FileWhole == fs.path # NoInode => data[fs.path].kind = "whole"

\* With one saver it is: a crash, or a full disk, in the middle of Save
\* leaves the previous table.
OneSaver == env.savers = {"close"}

\* The file is never older than a table Save has reported written.
NoTableRegression ==
  OneSaver /\ fs.path # NoInode => data[fs.path].snap.ver >= newest

\* While the process runs and after a clean restart, an answer given for a
\* name still leads to it ("clients that cached fake addresses keep working
\* after a restart"), until the cursor has come round to its address.
AnswersKeepWorking ==
  OneSaver /\ env.faults = {} /\ ~env.lateDns /\ up # "down"
    => \A a \in answers : ver <= a.until => lookup(pool[a.fam], addr(a.off)) = a.name

-----------------------------------------------------------------------------
(* What makes the two inductive.                                           *)

Saving == {"open", "write", "rename"}
Progress == [pc : {"idle", "done"} \union Saving, snap : Snapshot, ino : Inodes \union {NoInode}]

\* Every variable has its type.
TypeOK ==
  /\ env \in Envs
  /\ up \in {"down", "running", "closing"}
  /\ pool \in [Fams -> Families]
  /\ ver \in 0 .. MaxVersion
  /\ saver \in [Savers -> Progress]
  /\ fs \in [tmp : Inodes \union {NoInode}, path : Inodes \union {NoInode}]
  /\ data \in [Inodes -> Content]
  /\ newest \in 0 .. MaxVersion
  /\ answers \in SUBSET Answers

\* In memory, on its way to the file and in the file, byName and byOff are
\* inverses of each other: a restart never splits a name from its address.
TablesAgreeEverywhere ==
  \A f \in Fams : /\ Bijective(pool[f])
                  /\ \A s \in Savers : Bijective(saver[s].snap.fam[f])
                  /\ \A i \in Inodes : Bijective(data[i].snap.fam[f])

\* A lone saver has <path>.tmp for itself, what it renames is whole and as
\* new as anything a Save has reported, and so is what the process goes on with.
LoneSaver ==
  LET c == saver["close"] IN
  /\ saver["ticker"] = idle
  /\ c.pc # "idle" => up = "closing"
  /\ c.pc \in Saving => newest <= c.snap.ver /\ c.snap.ver <= ver
  /\ c.pc \in {"write", "rename"} => fs.tmp # NoInode /\ c.ino = fs.tmp
  /\ c.pc = "write" => data[fs.tmp] = Empty
  /\ c.pc = "rename" => data[fs.tmp] = Whole(c.snap)
  /\ fs.tmp # NoInode => fs.tmp # fs.path
  /\ up # "down" => newest <= ver
  /\ newest <= onDisk.snap.ver
  /\ fs.path # NoInode => onDisk.kind = "whole"

\* Allocations until the cursor is at offset o.
Distance(next, o) == (o + Size - next) % Size

\* Of a table p after v allocations: an answer whose time is not over leads
\* to its name, and its address is not given away before that time is over.
Leads(a, p, v) ==
  v <= a.until => /\ p[a.fam].byOff[a.off] = a.name
                  /\ a.until <= v + Distance(p[a.fam].next, a.off)

\* Restarts are clean and nobody is answered once the last save has begun.
Clean == OneSaver /\ env.faults = {} /\ ~env.lateDns

\* Then the last save writes the table that answered, and the next process
\* starts from it.
CleanRestarts ==
  LET c == saver["close"]
      memory == [fam |-> pool, ver |-> ver]
  IN  /\ c.pc \in Saving => c.snap = memory
      /\ c.pc = "done" => onDisk = Whole(memory)
      /\ \A a \in answers : IF up = "down" THEN Leads(a, onDisk.snap.fam, onDisk.snap.ver)
                            ELSE Leads(a, pool, ver)

StoreInv ==
  /\ TypeOK
  /\ TablesAgreeEverywhere
  /\ OneSaver => LoneSaver
  /\ Clean => CleanRestarts
=============================================================================
