------------------------------- MODULE Store -------------------------------
(***************************************************************************)
(* internal/store across identities: the segment handles a process keeps,  *)
(* the store lock, the segment directories, and the iteration of All over  *)
(* every entry.  Lifecycle follows one segment in depth; here an app only  *)
(* writes its entry and destroys it later, and listers (`hakurei ps` and   *)
(* `hakurei show`) read the whole store next to them.  Threads of one      *)
(* process share its Store.                                                *)
(***************************************************************************)
EXTENDS Naturals

CONSTANTS
    Apps,      \* threads that register one instance
    Listers,   \* threads that iterate over All
    Procs,     \* processes
    ProcOf,    \* ProcOf[t]: the process of thread t
    Ids,       \* identities
    IdOf,      \* IdOf[a]: identity of the instance of app a
    Faults,    \* calls that may fail
    None

Threads == Apps \cup Listers

FaultKinds == {"base", "biglock", "mkdir", "readdir", "stray",
               "lock", "save", "kill"}

ASSUME StoreAssumption ==
    /\ ProcOf \in [Threads -> Procs]
    /\ IdOf \in [Apps -> Ids]
    /\ Apps \cap Listers = {}
    /\ None \notin Threads /\ None \notin Ids
    /\ Faults \subseteq FaultKinds

VARIABLES
    mkdirOnce,  \* mkdirOnce[p]: the base directory was made, or mkdirErr is set
    handles,    \* handles[p]: identities published in Store.handles
    dirs,       \* segment directories
    fileMu,     \* holder of the store lock
    segMu,      \* segMu[id]: holder of the lock of a segment
    file,       \* file[a]: what the state entry of app a holds
    th          \* th[t]: the call a thread is in

vars == << mkdirOnce, handles, dirs, fileMu, segMu, file, th >>

Ended == {"done", "failed", "dead"}
Steps == {"idle", "segments", "readdir", "next", "handle", "init", "mkdir",
          "got", "locked", "opened", "encoded", "running", "cleanup",
          "destroy"} \cup Ended

\* A file that holds the header but not all of the state is "header".
Contents == {"none", "empty", "header", "whole"}

Commands == {"ps", "psShort", "show"}

Thread == [
    pc   : Steps,
    id   : Ids \cup {None},
    todo : SUBSET Ids,        \* segments All has not reached
    ehs  : SUBSET Apps,       \* entries of the segment not yet yielded
    eh   : BOOLEAN,           \* entryHandle of an app is set
    cmd  : Commands,
    like : SUBSET Apps,       \* instances the name given to show may stand for
    out  : SUBSET Apps,       \* instances the command prints
    owed : SUBSET Apps]       \* history: whole entries since All was called

NewThread(t) == [
    pc |-> IF t \in Apps THEN "handle" ELSE "idle",
    id |-> IF t \in Apps THEN IdOf[t] ELSE None,
    todo |-> {}, ehs |-> {}, eh |-> FALSE,
    cmd |-> "ps", like |-> Apps, out |-> {}, owed |-> {}]

Init ==
    /\ mkdirOnce = [p \in Procs |-> "no"]
    /\ handles = [p \in Procs |-> {}]
    /\ dirs = {}
    /\ fileMu = None
    /\ segMu = [id \in Ids |-> None]
    /\ file = [a \in Apps |-> "none"]
    /\ th = [t \in Threads |-> NewThread(t)]

may(f) == f \in Faults

At(t, pc)     == th[t].pc = pc
Goto(t, pc)   == th' = [th EXCEPT ![t].pc = pc]
Over(t, pc)   == [NewThread(t) EXCEPT !.pc = pc]
GiveUp(t)     == th' = [th EXCEPT ![t] = Over(t, "failed")]
Publish(t)    == handles' = [handles EXCEPT ![ProcOf[t]] = @ \cup {th[t].id}]
Withdraw(t)   == handles' = [handles EXCEPT ![ProcOf[t]] = @ \ {th[t].id}]
Unlock(t)     == segMu' = [segMu EXCEPT ![th[t].id] = None]

\* Handle.Entries: the names in the directory of a segment.
Here(id) == {a \in Apps : IdOf[a] = id /\ file[a] # "none"}

entryReadHeader(content) == content \in {"header", "whole"}
entryDecode(content) == entryReadHeader(content) /\ content = "whole"

\* Load(nil) reads the header only; Load(&state) decodes and validates it all.
Loads(l, a) == IF th[l].cmd = "psShort" THEN entryReadHeader(file[a])
                                           ELSE entryDecode(file[a])

-----------------------------------------------------------------------------
(***************************************************************************)
(* Store.Handle.  A handle found in the map is returned as it is; the one  *)
(* who published it makes the directory under the store lock.              *)
(***************************************************************************)
HandleLoad(t) ==
    /\ At(t, "handle")
    /\ th[t].id \in handles[ProcOf[t]]
    /\ Goto(t, "got")
    /\ UNCHANGED << mkdirOnce, handles, dirs, fileMu, segMu, file >>

HandleStore(t) ==
    /\ At(t, "handle")
    /\ th[t].id \notin handles[ProcOf[t]]
    /\ Publish(t)
    /\ Goto(t, "init")
    /\ UNCHANGED << mkdirOnce, dirs, fileMu, segMu, file >>

\* bigLock: the base directory is made once per process, then the lock taken.
bigLock(t) ==
    /\ th[t].pc \in {"init", "segments"}
    /\ mkdirOnce[ProcOf[t]] # "failed"
    /\ fileMu = None
    /\ mkdirOnce' = [mkdirOnce EXCEPT ![ProcOf[t]] = "done"]
    /\ fileMu' = t
    /\ Goto(t, IF At(t, "init") THEN "mkdir" ELSE "readdir")
    /\ UNCHANGED << handles, dirs, segMu, file >>

\* Handle returns the error and leaves what it has published.
bigLockFail(t) ==
    /\ th[t].pc \in {"init", "segments"}
    /\ \/ /\ \/ mkdirOnce[ProcOf[t]] = "failed"
             \/ may("base") /\ mkdirOnce[ProcOf[t]] = "no"
          /\ mkdirOnce' = [mkdirOnce EXCEPT ![ProcOf[t]] = "failed"]
       \/ /\ may("biglock") /\ mkdirOnce[ProcOf[t]] # "failed"
          /\ mkdirOnce' = [mkdirOnce EXCEPT ![ProcOf[t]] = "done"]
    /\ GiveUp(t)
    /\ UNCHANGED << handles, dirs, fileMu, segMu, file >>

HandleMkdir(t) ==
    /\ At(t, "mkdir")
    /\ dirs' = dirs \cup {th[t].id}
    /\ fileMu' = None
    /\ Goto(t, "got")
    /\ UNCHANGED << mkdirOnce, handles, segMu, file >>

\* Mutant: the error path of Handle forgets to unlock the store.
HandleMkdirFailLocked(t) ==
    /\ At(t, "mkdir")
    /\ may("mkdir")
    /\ th[t].id \notin dirs
    /\ Withdraw(t)
    /\ GiveUp(t)
    /\ UNCHANGED << mkdirOnce, dirs, fileMu, segMu, file >>

HandleMkdirFail(t) ==
    /\ At(t, "mkdir")
    /\ may("mkdir")
    /\ th[t].id \notin dirs
    /\ Withdraw(t)
    /\ fileMu' = None
    /\ GiveUp(t)
    /\ UNCHANGED << mkdirOnce, dirs, segMu, file >>

\* Mutant: a lister does not hold the lock while it yields.
LockListed(t) ==
    /\ At(t, "got")
    /\ th[t].id \in dirs
    /\ segMu[th[t].id] = None
    /\ segMu' = [segMu EXCEPT ![th[t].id] = IF t \in Listers THEN None ELSE t]
    /\ th' = [th EXCEPT ![t].pc = "locked",
                        ![t].ehs = IF t \in Listers THEN Here(th[t].id) ELSE @]
    /\ UNCHANGED << mkdirOnce, handles, dirs, fileMu, file >>

(***************************************************************************)
(* Handle.Lock opens the lock file in the segment directory and waits for  *)
(* the lock; it fails when the directory does not exist.                   *)
(***************************************************************************)
Lock(t) ==
    /\ At(t, "got")
    /\ th[t].id \in dirs
    /\ segMu[th[t].id] = None
    /\ segMu' = [segMu EXCEPT ![th[t].id] = t]
    /\ th' = [th EXCEPT ![t].pc = "locked",
                        ![t].ehs = IF t \in Listers THEN Here(th[t].id) ELSE @]
    /\ UNCHANGED << mkdirOnce, handles, dirs, fileMu, file >>

LockFail(t) ==
    /\ At(t, "got")
    /\ th[t].id \notin dirs \/ may("lock")
    /\ IF t \in Apps THEN Goto(t, "cleanup") ELSE GiveUp(t)
    /\ UNCHANGED << mkdirOnce, handles, dirs, fileMu, segMu, file >>

-----------------------------------------------------------------------------
(***************************************************************************)
(* An app creates, then writes its entry under the lock.  Save returns an  *)
(* entry handle even when it fails, so that cleanup destroys what there is *)
(* of the entry; it goes on when it cannot have the lock.                  *)
(***************************************************************************)
SaveOpen(a) ==
    /\ At(a, "locked")
    /\ file[a] = "none"
    /\ file' = [file EXCEPT ![a] = "empty"]
    /\ Goto(a, "opened")
    /\ UNCHANGED << mkdirOnce, handles, dirs, fileMu, segMu >>

entryWriteHeader(a) ==
    /\ At(a, "opened")
    /\ file' = [file EXCEPT ![a] = "header"]
    /\ Goto(a, "encoded")
    /\ UNCHANGED << mkdirOnce, handles, dirs, fileMu, segMu >>

entryEncode(a) ==
    /\ At(a, "encoded")
    /\ file' = [file EXCEPT ![a] = "whole"]
    /\ Unlock(a)
    /\ th' = [th EXCEPT ![a].pc = "running", ![a].eh = TRUE]
    /\ UNCHANGED << mkdirOnce, handles, dirs, fileMu >>

SaveFail(a) ==
    /\ th[a].pc \in {"locked", "opened", "encoded"}
    /\ may("save")
    /\ Unlock(a)
    /\ th' = [th EXCEPT ![a].pc = "cleanup", ![a].eh = TRUE]
    /\ UNCHANGED << mkdirOnce, handles, dirs, fileMu, file >>

Exit(a) ==
    /\ At(a, "running")
    /\ Goto(a, "cleanup")
    /\ UNCHANGED << mkdirOnce, handles, dirs, fileMu, segMu, file >>

CleanupLock(a) ==
    /\ At(a, "cleanup")
    /\ th[a].id \in dirs
    /\ segMu[th[a].id] = None
    /\ segMu' = [segMu EXCEPT ![th[a].id] = a]
    /\ Goto(a, "destroy")
    /\ UNCHANGED << mkdirOnce, handles, dirs, fileMu, file >>

\* The entry is gone, and no listing owes it any more.
Removed(a, end) ==
    /\ file' = IF th[a].eh THEN [file EXCEPT ![a] = "none"] ELSE file
    /\ th' = [t \in Threads |->
                 IF t = a THEN Over(t, end)
                 ELSE [th[t] EXCEPT !.owed = @ \ {a}]]
    /\ UNCHANGED << mkdirOnce, handles, dirs, fileMu >>

Destroy(a) ==
    /\ At(a, "destroy")
    /\ Removed(a, "done")
    /\ Unlock(a)

DestroyUnlocked(a) ==
    /\ At(a, "cleanup")
    /\ th[a].id \notin dirs \/ may("lock")
    /\ Removed(a, "failed")
    /\ UNCHANGED segMu

-----------------------------------------------------------------------------
(***************************************************************************)
(* Store.All: the list of segments is read under the store lock, then each *)
(* segment is locked in turn, and its entries are yielded under that lock. *)
(***************************************************************************)
All(l) ==
    /\ At(l, "idle")
    /\ \E c \in Commands, like \in SUBSET Apps :
          /\ c # "show" => like = Apps
          /\ th' = [th EXCEPT ![l].pc = "segments", ![l].cmd = c, ![l].like = like,
                              ![l].owed = {a \in Apps : file[a] = "whole"}]
    /\ UNCHANGED << mkdirOnce, handles, dirs, fileMu, segMu, file >>

Segments(l) ==
    /\ At(l, "readdir")
    /\ fileMu' = None
    /\ th' = [th EXCEPT ![l].pc = "next", ![l].todo = dirs]
    /\ UNCHANGED << mkdirOnce, handles, dirs, segMu, file >>

SegmentsFail(l) ==
    /\ At(l, "readdir")
    /\ may("readdir")
    /\ fileMu' = None
    /\ GiveUp(l)
    /\ UNCHANGED << mkdirOnce, handles, dirs, segMu, file >>

NextSegment(l) ==
    /\ At(l, "next")
    /\ \E id \in th[l].todo :
          th' = [th EXCEPT ![l].pc = "handle", ![l].id = id,
                           ![l].todo = @ \ {id}]
    /\ UNCHANGED << mkdirOnce, handles, dirs, fileMu, segMu, file >>

\* A name that is no identity, or no directory, carries an error and ends All.
StraySegment(l) ==
    /\ At(l, "next")
    /\ may("stray")
    /\ GiveUp(l)
    /\ UNCHANGED << mkdirOnce, handles, dirs, fileMu, segMu, file >>

\* printPs: what cannot be loaded is reported and left out.
printPs(l) ==
    /\ At(l, "locked") /\ th[l].cmd # "show"
    /\ \E a \in th[l].ehs :
          th' = [th EXCEPT ![l].ehs = @ \ {a},
                           ![l].out = IF Loads(l, a) THEN @ \cup {a} ELSE @]
    /\ UNCHANGED << mkdirOnce, handles, dirs, fileMu, segMu, file >>

\* Mutant: show returns nothing for a first match it cannot load.
tryIdentifierFirst(l) ==
    /\ At(l, "locked") /\ th[l].cmd = "show"
    /\ \E a \in th[l].ehs :
          IF a \in th[l].like
          THEN /\ th' = [th EXCEPT ![l].pc = "done",
                                   ![l].out = IF Loads(l, a) THEN {a} ELSE {}]
               /\ Unlock(l)
          ELSE th' = [th EXCEPT ![l].ehs = @ \ {a}] /\ UNCHANGED segMu
    /\ UNCHANGED << mkdirOnce, handles, dirs, fileMu, file >>

(***************************************************************************)
(* tryIdentifier: the first entry that the name may stand for and that     *)
(* loads is the answer, and the iteration stops with its lock released.    *)
(***************************************************************************)
tryIdentifier(l) ==
    /\ At(l, "locked") /\ th[l].cmd = "show"
    /\ \E a \in th[l].ehs :
          IF a \in th[l].like /\ Loads(l, a)
          THEN th' = [th EXCEPT ![l].pc = "done", ![l].out = {a}] /\ Unlock(l)
          ELSE th' = [th EXCEPT ![l].ehs = @ \ {a}] /\ UNCHANGED segMu
    /\ UNCHANGED << mkdirOnce, handles, dirs, fileMu, file >>

SegmentDone(l) ==
    /\ At(l, "locked")
    /\ th[l].ehs = {}
    /\ Unlock(l)
    /\ Goto(l, "next")
    /\ UNCHANGED << mkdirOnce, handles, dirs, fileMu, file >>

AllDone(l) ==
    /\ At(l, "next")
    /\ th[l].todo = {}
    /\ Goto(l, "done")
    /\ UNCHANGED << mkdirOnce, handles, dirs, fileMu, segMu, file >>

-----------------------------------------------------------------------------
\* SIGKILL: the locks of the process are released, its entries remain.
Kill(p) ==
    LET mine == {t \in Threads : ProcOf[t] = p} IN
    /\ may("kill")
    /\ \E t \in mine : th[t].pc \notin Ended
    /\ th' = [t \in Threads |-> IF t \in mine /\ th[t].pc \notin Ended
                                THEN Over(t, "dead") ELSE th[t]]
    /\ fileMu' = IF fileMu \in mine THEN None ELSE fileMu
    /\ segMu' = [id \in Ids |-> IF segMu[id] \in mine THEN None ELSE segMu[id]]
    /\ UNCHANGED << mkdirOnce, handles, dirs, file >>

HandleStep(t) ==
    \/ HandleLoad(t) \/ HandleStore(t) \/ bigLock(t) \/ bigLockFail(t)
    \/ HandleMkdir(t) \/ HandleMkdirFail(t) \/ Lock(t) \/ LockFail(t)

AppStep(a) ==
    \/ SaveOpen(a) \/ entryWriteHeader(a) \/ entryEncode(a) \/ SaveFail(a)
    \/ Destroy(a)

ListStep(l) ==
    \/ Segments(l) \/ SegmentsFail(l) \/ NextSegment(l)
    \/ StraySegment(l) \/ printPs(l) \/ tryIdentifier(l) \/ SegmentDone(l) \/ AllDone(l)

Next ==
    \/ \E t \in Threads : HandleStep(t)
    \/ \E a \in Apps : AppStep(a) \/ Exit(a) \/ CleanupLock(a) \/ DestroyUnlocked(a)
    \/ \E l \in Listers : ListStep(l) \/ All(l)
    \/ \E p \in Procs : Kill(p)

\* A thread that can take a step is run, and flock serves a waiting thread
\* once the holders are gone: every thread takes the lock finitely often.  A
\* thread that waits for a lock is not rescued by an error.
Unblocked(t) ==
    \/ HandleLoad(t) \/ HandleStore(t) \/ bigLock(t) \/ HandleMkdir(t) \/ Lock(t)
    \/ mkdirOnce[ProcOf[t]] = "failed" /\ bigLockFail(t)
    \/ th[t].id \notin dirs /\ LockFail(t)
    \/ t \in Apps /\ CleanupLock(t)
    \/ t \in Apps /\ th[t].id \notin dirs /\ DestroyUnlocked(t)

Fairness == \A t \in Threads :
    /\ WF_vars(Unblocked(t))
    /\ WF_vars(t \in Apps /\ AppStep(t))
    /\ WF_vars(t \in Listers /\ ListStep(t))

Spec == Init /\ [][Next]_vars /\ Fairness

-----------------------------------------------------------------------------
TypeOK ==
    /\ mkdirOnce \in [Procs -> {"no", "done", "failed"}]
    /\ handles \in [Procs -> SUBSET Ids]
    /\ dirs \subseteq Ids
    /\ fileMu \in Threads \cup {None}
    /\ segMu \in [Ids -> Threads \cup {None}]
    /\ file \in [Apps -> Contents]
    /\ th \in [Threads -> Thread]

(***************************************************************************)
(* All misses nothing: when it ends without an error, every instance whose *)
(* whole entry existed when it was called and was not destroyed meanwhile  *)
(* is printed by ps, and found by show under every name it answers to,     *)
(* whatever others saved, destroyed or left half written in between, and   *)
(* although segments are visited one at a time.                            *)
(***************************************************************************)
ListingComplete ==
    \A l \in Listers : At(l, "done") =>
        IF th[l].cmd = "show" THEN th[l].out # {} \/ th[l].owed \cap th[l].like = {}
                              ELSE th[l].owed \subseteq th[l].out

(***************************************************************************)
(* Under the lock of a segment an entry is never seen being written or     *)
(* removed: what All yields exists and loads, unless its writer died or    *)
(* failed on the way, or went on to destroy it without the lock.           *)
(***************************************************************************)
YieldedExists ==
    \A l \in Listers : At(l, "locked") => \A a \in th[l].ehs :
        file[a] = "whole" \/ th[a].pc \in {"cleanup", "failed", "dead"}

(***************************************************************************)
(* Every call returns: the store lock and the segment locks are released   *)
(* on every path, and never waited for in a circle.                        *)
(***************************************************************************)
Returned(t) == th[t].pc \in Ended \cup {"running"}

CallsEnd == \A t \in Threads : ~Returned(t) /\ ~At(t, "idle") ~> Returned(t)
=============================================================================
