---------------------------- MODULE StoreProofs ----------------------------
(***************************************************************************)
(* Proofs about Store, for any threads, processes and identities, and      *)
(* under every fault, SIGKILL of a process included.                       *)
(***************************************************************************)
EXTENDS Store, TLAPS

\* Steps of a thread that holds the lock of its segment.
Holding == {"locked", "opened", "encoded", "destroy"}

\* Steps of a lister that is about to lock a segment, and of one in a segment.
Approaching == {"handle", "init", "mkdir", "got"}
Visiting    == Approaching \cup {"locked"}

\* An app whose entry may be in any state: it failed or died on the way.
Fallen == {"cleanup", "failed", "dead"}

\* A thread that works on a segment holds its lock.
Locked(t) == th[t].pc \in Holding => segMu[th[t].id] = t

\* What there is of an entry follows from how far its app has come.
Written(a) ==
    /\ th[a].id = IdOf[a] /\ th[a].owed = {}
    /\ th[a].pc \notin {"idle", "segments", "readdir", "next"}
    /\ th[a].pc \in Visiting \cup {"done"} => file[a] = "none"
    /\ th[a].pc \in {"opened", "encoded"} => file[a] # "whole"
    /\ th[a].pc = "running" => file[a] = "whole" /\ th[a].eh = TRUE
    /\ th[a].pc \in {"cleanup", "destroy"} /\ th[a].eh = FALSE => file[a] = "none"
    /\ th[a].pc \in {"locked", "opened", "encoded"} => IdOf[a] \in dirs
    /\ file[a] # "none" => IdOf[a] \in dirs

\* What a listing owes is there to be found.
Owed(t) == \A a \in th[t].owed : file[a] = "whole"

\* Nothing is left to find of a: it is printed, or not asked for.
Seen(l, a) == IF th[l].cmd = "show" THEN a \notin th[l].like ELSE a \in th[l].out

\* What a listing owes it has seen, or it is still on its way to it.
OnTheWay(l) ==
    /\ th[l].pc = "next" => \A a \in th[l].owed : Seen(l, a) \/ IdOf[a] \in th[l].todo
    /\ th[l].pc \in Approaching => \A a \in th[l].owed :
          Seen(l, a) \/ IdOf[a] \in th[l].todo \/ IdOf[a] = th[l].id
    /\ th[l].pc = "locked" => \A a \in th[l].owed :
          Seen(l, a) \/ IdOf[a] \in th[l].todo \/ a \in th[l].ehs

\* The entries a lister is about to yield are those of the segment it locked.
Listed(l) ==
    /\ th[l].pc \in Visiting \cup Holding => th[l].id \in Ids
    /\ th[l].pc = "locked" => \A a \in th[l].ehs : IdOf[a] = th[l].id

\* YieldedExists and ListingComplete for one lister.
Yields(l) == th[l].pc = "locked" => \A a \in th[l].ehs :
    file[a] = "whole" \/ th[a].pc \in Fallen

Complete(l) == th[l].pc = "done" =>
    IF th[l].cmd = "show" THEN th[l].out # {} \/ th[l].owed \cap th[l].like = {}
                          ELSE th[l].owed \subseteq th[l].out

Fine(t) ==
    /\ Locked(t) /\ Owed(t)
    /\ t \in Apps => Written(t)
    /\ t \in Listers => OnTheWay(t) /\ Listed(t) /\ Yields(t) /\ Complete(t)

StoreInv == TypeOK /\ \A t \in Threads : Fine(t)

-----------------------------------------------------------------------------
\* The steps of a thread, listed.
LEMMA StepNames ==
    Steps = {"idle", "segments", "readdir", "next", "handle", "init", "mkdir",
             "got", "locked", "opened", "encoded", "running", "cleanup",
             "destroy", "done", "failed", "dead"}
BY DEF Steps, Ended

\* A thread is an app or a lister, not both, and not None.
LEMMA ThreadKinds ==
    /\ Apps \subseteq Threads /\ Listers \subseteq Threads
    /\ \A t \in Threads : t # None /\ (t \in Apps \/ t \in Listers)
    /\ \A t \in Apps : t \notin Listers /\ IdOf[t] \in Ids
BY StoreAssumption DEF Threads

\* What a typed state says of one thread.
LEMMA ThreadTyped == ASSUME TypeOK, NEW t \in Threads PROVE th[t] \in Thread
BY DEF TypeOK

\* The record of a thread that has not begun, or is over.
LEMMA OverType ==
    ASSUME NEW t \in Threads, NEW s \in Steps
    PROVE  /\ NewThread(t) \in Thread
           /\ Over(t, s) \in Thread
           /\ Over(t, s).pc = s
           /\ Over(t, s).owed = {}
           /\ t \in Apps => Over(t, s).id = IdOf[t]
<1>1. NewThread(t) \in Thread
  BY ThreadKinds, StepNames DEF NewThread, Thread, Commands
<1>2. /\ NewThread(t).owed = {}
      /\ t \in Apps => NewThread(t).id = IdOf[t]
  BY DEF NewThread
<1> QED
  BY <1>1, <1>2 DEF Over, Thread

\* A step of t to the record m.
LEMMA Moved ==
    ASSUME TypeOK, NEW t \in Threads, NEW m \in Thread, th' = [th EXCEPT ![t] = m]
    PROVE  /\ th' \in [Threads -> Thread]
           /\ th'[t] = m
           /\ \A u \in Threads \ {t} : th'[u] = th[u]
BY DEF TypeOK

\* An app that is about to write its entry, writes it, removes it under the
\* lock, or finds the lock free, is not among the entries a lister yields.
LEMMA NotYielded ==
    ASSUME StoreInv, NEW a \in Apps, NEW l \in Listers, th[l].pc = "locked",
           \/ th[a].pc \in Holding \cup Approaching
           \/ segMu[th[a].id] = None
    PROVE  a \notin th[l].ehs
<1> SUFFICES ASSUME a \in th[l].ehs PROVE FALSE
  OBVIOUS
<1>1. Fine(a) /\ Fine(l) /\ a # l /\ l # None
  BY ThreadKinds DEF StoreInv
<1>2. segMu[th[l].id] = l /\ IdOf[a] = th[l].id /\ th[a].id = IdOf[a]
  BY <1>1 DEF Fine, Locked, Listed, Written, Holding
<1>3. th[a].pc \in Approaching
  BY <1>1, <1>2 DEF Fine, Locked
<1> QED
  BY <1>1, <1>3 DEF Fine, Written, Yields, Approaching, Visiting, Fallen

\* A step of one thread keeps the others fine when it takes no lock from them,
\* removes no directory, and neither spoils nor rewrites an entry others read.
LEMMA FineStep ==
    ASSUME StoreInv, TypeOK', NEW t \in Threads, Fine(t)', dirs \subseteq dirs',
           \A u \in Threads \ {t} : th'[u] = th[u],
           \A a \in Apps \ {t} : file'[a] = file[a],
           \A id \in Ids : segMu[id] # None /\ segMu[id] # t => segMu'[id] = segMu[id],
           t \in Apps =>
              /\ file[t] = "whole" => file'[t] = "whole"
              /\ \A l \in Listers : th[l].pc = "locked" /\ t \in th[l].ehs =>
                    file'[t] = "whole" \/ th'[t].pc \in Fallen
    PROVE  StoreInv'
<1> SUFFICES ASSUME NEW u \in Threads, u # t PROVE Fine(u)'
  BY DEF StoreInv
<1>1. Fine(u) /\ th'[u] = th[u] /\ th[u] \in Thread /\ u # None
  BY ThreadTyped, ThreadKinds DEF StoreInv
<1>2. th[u].owed \subseteq Apps /\ th[u].ehs \subseteq Apps
  BY <1>1 DEF Thread
<1>3. Locked(u)'
  <2>1. th[u].pc \in Holding => th[u].id \in Ids
    BY <1>1, ThreadKinds DEF Fine, Written, Listed, Holding, Visiting
  <2> QED
    BY <1>1, <2>1 DEF Fine, Locked
<1>4. Owed(u)'
  BY <1>1, <1>2 DEF Fine, Owed
<1>5. ASSUME u \in Apps PROVE Written(u)'
  BY <1>1, <1>5 DEF Fine, Written
<1>6. ASSUME u \in Listers
      PROVE  OnTheWay(u)' /\ Listed(u)' /\ Complete(u)'
  BY <1>1, <1>6 DEF Fine, OnTheWay, Seen, Listed, Complete
<1>7. ASSUME u \in Listers PROVE Yields(u)'
  <2> SUFFICES ASSUME th[u].pc = "locked", NEW a \in th[u].ehs
               PROVE  file'[a] = "whole" \/ th'[a].pc \in Fallen
    BY <1>1 DEF Yields
  <2>1. a \in Apps /\ a \in Threads
    BY <1>2, ThreadKinds
  <2>2. CASE a = t
    BY <1>7, <2>1, <2>2
  <2>3. CASE a # t
    BY <1>1, <1>7, <2>1, <2>3 DEF Fine, Yields
  <2> QED
    BY <2>2, <2>3
<1> QED
  BY <1>3, <1>4, <1>5, <1>6, <1>7 DEF Fine

\* A step that only moves its thread on, or makes a directory: the thread is
\* fine where it arrives, and an app whose entry others see has not come back.
LEMMA FineMove ==
    ASSUME StoreInv, TypeOK', NEW t \in Threads, NEW m \in Thread,
           th' = [th EXCEPT ![t] = m], Fine(t)', dirs \subseteq dirs',
           UNCHANGED << segMu, file >>, th[t].pc \in Fallen => m.pc \in Fallen
    PROVE  StoreInv'
<1>1. th'[t] = m /\ \A u \in Threads \ {t} : th'[u] = th[u]
  BY Moved DEF StoreInv
<1>2. ASSUME t \in Apps, NEW l \in Listers, th[l].pc = "locked", t \in th[l].ehs
      PROVE  file'[t] = "whole" \/ th'[t].pc \in Fallen
  BY <1>1, <1>2, ThreadKinds DEF StoreInv, Fine, Yields
<1> QED
  BY <1>1, <1>2, FineStep

\* Store.Handle.
LEMMA HandleFine ==
    ASSUME StoreInv, NEW t \in Threads,
           \/ HandleLoad(t) \/ HandleStore(t) \/ bigLock(t) \/ HandleMkdir(t)
    PROVE  StoreInv'
<1>1. /\ th[t] \in Thread /\ Fine(t)
      /\ TypeOK /\ t # None /\ (t \in Apps \/ t \in Listers)
  BY ThreadTyped, ThreadKinds DEF StoreInv
<1>2. PICK s \in {"got", "init", "mkdir", "readdir"} : th' = [th EXCEPT ![t].pc = s]
  BY DEF HandleLoad, HandleStore, bigLock, HandleMkdir, Goto
<1> DEFINE m == [th[t] EXCEPT !.pc = s]
<1>3. m \in Thread
  BY <1>1, StepNames DEF Thread
<1>4. th' = [th EXCEPT ![t] = m]
  BY <1>2
<1>5. th'[t] = m /\ th' \in [Threads -> Thread]
  BY <1>1, <1>3, <1>4, Moved
<1>6. /\ m.pc = s /\ m.id = th[t].id /\ m.owed = th[t].owed /\ m.todo = th[t].todo
      /\ m.cmd = th[t].cmd /\ m.like = th[t].like /\ m.out = th[t].out
      /\ m.eh = th[t].eh
  BY <1>1 DEF Thread
<1>7. /\ th[t].pc = "handle" => s \in {"got", "init"}
      /\ th[t].pc = "init" => s = "mkdir"
      /\ th[t].pc = "mkdir" => s = "got"
      /\ th[t].pc = "segments" => s = "readdir"
      /\ th[t].pc \in {"handle", "init", "mkdir", "segments"}
  <2>1. ASSUME NEW pc, Goto(t, pc) PROVE s = pc
    BY <1>1, <1>5, <1>6, <2>1 DEF Goto, TypeOK, Thread
  <2> QED
    BY <2>1 DEF HandleLoad, HandleStore, bigLock, HandleMkdir, At
<1>8. th[t].pc # "segments" => th[t].id \in Ids
  BY <1>1, <1>7, ThreadKinds DEF Fine, Written, Listed, Visiting, Approaching
<1>9. TypeOK'
  <2>1. ProcOf[t] \in Procs
    BY StoreAssumption
  <2> QED
    BY <1>1, <1>5, <1>7, <1>8, <2>1 DEF TypeOK, HandleLoad, HandleStore, bigLock,
       HandleMkdir, At, Publish
<1>10. UNCHANGED << segMu, file >> /\ dirs \subseteq dirs'
  BY DEF HandleLoad, HandleStore, bigLock, HandleMkdir
<1> HIDE DEF m
<1>11. Fine(t)'
  BY <1>1, <1>5, <1>6, <1>7, <1>8, <1>10 DEF Fine, Locked, Owed, Written, OnTheWay, Seen,
     Listed, Yields, Complete, Holding, Approaching, Visiting
<1> QED
  BY <1>3, <1>4, <1>7, <1>9, <1>10, <1>11, FineMove DEF Fallen

\* The error paths: the thread is over, and owes and holds nothing.
LEMMA GiveUpFine ==
    ASSUME StoreInv, NEW t \in Threads, GiveUp(t),
           \/ bigLockFail(t) \/ HandleMkdirFail(t) \/ LockFail(t)
           \/ SegmentsFail(t) \/ StraySegment(t)
    PROVE  StoreInv'
<1> DEFINE m == Over(t, "failed")
<1>1. /\ TypeOK /\ Fine(t) /\ (t \in Apps \/ t \in Listers)
      /\ m \in Thread /\ m.pc = "failed" /\ m.owed = {}
      /\ t \in Apps => m.id = IdOf[t]
  BY ThreadKinds, OverType, StepNames DEF StoreInv
<1>2. th' = [th EXCEPT ![t] = m]
  BY DEF GiveUp
<1> HIDE DEF m
<1>3. th'[t] = m /\ th' \in [Threads -> Thread]
  BY <1>1, <1>2, Moved
<1>4. UNCHANGED << dirs, segMu, file >>
  BY DEF bigLockFail, HandleMkdirFail, LockFail, SegmentsFail, StraySegment
<1>5. TypeOK'
  <2>1. ProcOf[t] \in Procs
    BY StoreAssumption
  <2>2. mkdirOnce' \in [Procs -> {"no", "done", "failed"}]
    BY <1>1, <2>1 DEF TypeOK, bigLockFail, HandleMkdirFail, LockFail, SegmentsFail,
       StraySegment
  <2>3. handles' \in [Procs -> SUBSET Ids]
    BY <1>1, <2>1 DEF TypeOK, bigLockFail, HandleMkdirFail, LockFail, SegmentsFail,
       StraySegment, Withdraw
  <2>4. fileMu' \in Threads \cup {None}
    BY <1>1 DEF TypeOK, bigLockFail, HandleMkdirFail, LockFail, SegmentsFail,
       StraySegment
  <2> QED
    BY <1>1, <1>3, <1>4, <2>2, <2>3, <2>4 DEF TypeOK
<1>6. Fine(t)'
  BY <1>1, <1>3, <1>4 DEF Fine, Locked, Owed, Written, OnTheWay, Listed, Yields,
     Complete, Holding, Approaching, Visiting
<1> QED
  BY <1>1, <1>2, <1>4, <1>5, <1>6, FineMove DEF Fallen

\* An app without the lock, or whose container has exited, cleans up.
LEMMA CleanupFine ==
    ASSUME StoreInv, NEW t \in Apps, Goto(t, "cleanup"), LockFail(t) \/ Exit(t)
    PROVE  StoreInv'
<1> DEFINE m == [th[t] EXCEPT !.pc = "cleanup"]
<1>1. /\ TypeOK /\ t \in Threads /\ t \notin Listers /\ Fine(t) /\ th[t] \in Thread
  BY ThreadKinds, ThreadTyped DEF StoreInv
<1>2. m \in Thread /\ m.pc = "cleanup" /\ m.id = th[t].id /\ m.owed = th[t].owed
         /\ m.eh = th[t].eh
  BY <1>1, StepNames DEF Thread
<1>3. th' = [th EXCEPT ![t] = m]
  BY DEF Goto
<1> HIDE DEF m
<1>4. th'[t] = m /\ th' \in [Threads -> Thread]
  BY <1>1, <1>2, <1>3, Moved
<1>5. UNCHANGED << mkdirOnce, handles, dirs, fileMu, segMu, file >>
  BY DEF LockFail, Exit
<1>6. TypeOK'
  BY <1>1, <1>4, <1>5 DEF TypeOK
<1>7. th[t].pc \in {"got", "running"}
  BY DEF LockFail, Exit, At
<1>8. Fine(t)'
  BY <1>1, <1>2, <1>4, <1>5, <1>7 DEF Fine, Locked, Owed, Written, Holding,
     Approaching, Visiting
<1> QED
  BY <1>1, <1>2, <1>3, <1>5, <1>6, <1>8, FineMove DEF Fallen

\* All and Segments: everything whole is owed, and its segment is listed.
LEMMA AllFine ==
    ASSUME StoreInv, NEW t \in Listers, All(t) \/ Segments(t)
    PROVE  StoreInv'
<1>1. /\ TypeOK /\ t \in Threads /\ t \notin Apps /\ Fine(t) /\ th[t] \in Thread
  BY ThreadKinds, ThreadTyped DEF StoreInv
<1>2. UNCHANGED << mkdirOnce, handles, dirs, segMu, file >>
  BY DEF All, Segments
<1>3. fileMu' \in Threads \cup {None}
  BY <1>1 DEF All, Segments, TypeOK
<1>4. CASE All(t)
  <2>1. PICK c \in Commands, like \in SUBSET Apps :
           th' = [th EXCEPT ![t].pc = "segments", ![t].cmd = c, ![t].like = like,
                            ![t].owed = {a \in Apps : file[a] = "whole"}]
    BY <1>4 DEF All
  <2> DEFINE m == [th[t] EXCEPT !.pc = "segments", !.cmd = c, !.like = like,
                                !.owed = {a \in Apps : file[a] = "whole"}]
  <2>2. m \in Thread /\ m.pc = "segments" /\ m.owed = {a \in Apps : file[a] = "whole"}
    BY <1>1, StepNames DEF Thread
  <2>3. th' = [th EXCEPT ![t] = m]
    BY <1>1, <2>1 DEF TypeOK
  <2> HIDE DEF m
  <2>4. th'[t] = m /\ th' \in [Threads -> Thread]
    BY <1>1, <2>2, <2>3, Moved
  <2>5. TypeOK'
    BY <1>1, <1>2, <1>3, <2>4 DEF TypeOK
  <2>6. Fine(t)'
    BY <1>1, <1>2, <2>2, <2>4 DEF Fine, Locked, Owed, OnTheWay, Listed, Yields,
       Complete, Holding, Approaching, Visiting
  <2> QED
    BY <1>1, <1>2, <1>4, <2>2, <2>3, <2>5, <2>6, FineMove DEF All, At, Fallen
<1>5. CASE Segments(t)
  <2> DEFINE m == [th[t] EXCEPT !.pc = "next", !.todo = dirs]
  <2>1. dirs \subseteq Ids
    BY <1>1 DEF TypeOK
  <2>2. m \in Thread /\ m.pc = "next" /\ m.owed = th[t].owed /\ m.todo = dirs
    BY <1>1, <2>1, StepNames DEF Thread
  <2>3. th' = [th EXCEPT ![t] = m]
    BY <1>1, <1>5 DEF TypeOK, Segments
  <2> HIDE DEF m
  <2>4. th'[t] = m /\ th' \in [Threads -> Thread]
    BY <1>1, <2>2, <2>3, Moved
  <2>5. TypeOK'
    BY <1>1, <1>2, <1>3, <2>4 DEF TypeOK
  <2>6. \A a \in th[t].owed : IdOf[a] \in dirs
    <3> SUFFICES ASSUME NEW a \in th[t].owed PROVE IdOf[a] \in dirs
      OBVIOUS
    <3>1. a \in Apps /\ a \in Threads /\ file[a] = "whole"
      BY <1>1, ThreadKinds DEF Fine, Owed, Thread
    <3> QED
      BY <3>1 DEF StoreInv, Fine, Written
  <2>7. Fine(t)'
    BY <1>1, <1>2, <2>2, <2>4, <2>6 DEF Fine, Locked, Owed, OnTheWay, Listed, Yields,
       Complete, Holding, Approaching, Visiting
  <2> QED
    BY <1>1, <1>2, <1>5, <2>2, <2>3, <2>5, <2>7, FineMove DEF Segments, At, Fallen
<1> QED
  BY <1>4, <1>5

\* The iteration of All from one segment to the next.
LEMMA VisitFine ==
    ASSUME StoreInv, NEW t \in Listers, NextSegment(t) \/ printPs(t) \/ AllDone(t)
    PROVE  StoreInv'
<1>1. /\ TypeOK /\ t \in Threads /\ t \notin Apps /\ Fine(t) /\ th[t] \in Thread
  BY ThreadKinds, ThreadTyped DEF StoreInv
<1>2. UNCHANGED << mkdirOnce, handles, dirs, fileMu, segMu, file >>
  BY DEF NextSegment, printPs, AllDone
<1>3. CASE NextSegment(t)
  <2>1. PICK id \in th[t].todo :
           th' = [th EXCEPT ![t].pc = "handle", ![t].id = id, ![t].todo = @ \ {id}]
    BY <1>3 DEF NextSegment
  <2> DEFINE m == [th[t] EXCEPT !.pc = "handle", !.id = id, !.todo = @ \ {id}]
  <2>2. id \in Ids
    BY <1>1 DEF Thread
  <2>3. /\ m \in Thread /\ m.pc = "handle" /\ m.owed = th[t].owed /\ m.id = id
        /\ m.todo = th[t].todo \ {id} /\ m.cmd = th[t].cmd /\ m.like = th[t].like
        /\ m.out = th[t].out
    BY <1>1, <2>2, StepNames DEF Thread
  <2>4. th' = [th EXCEPT ![t] = m]
    BY <1>1, <2>1 DEF TypeOK
  <2> HIDE DEF m
  <2>5. th'[t] = m /\ th' \in [Threads -> Thread] /\ th[t].pc = "next"
    BY <1>1, <1>3, <2>3, <2>4, Moved DEF NextSegment, At
  <2>6. TypeOK'
    BY <1>1, <1>2, <2>5 DEF TypeOK
  <2>7. Fine(t)'
    BY <1>1, <1>2, <2>2, <2>3, <2>5 DEF Fine, Locked, Owed, OnTheWay, Seen, Listed,
       Yields, Complete, Holding, Approaching, Visiting
  <2> QED
    BY <1>1, <1>2, <2>3, <2>4, <2>5, <2>6, <2>7, FineMove DEF Fallen
<1>4. CASE printPs(t)
  <2>1. PICK a \in th[t].ehs :
           th' = [th EXCEPT ![t].ehs = @ \ {a},
                            ![t].out = IF Loads(t, a) THEN @ \cup {a} ELSE @]
    BY <1>4 DEF printPs
  <2> DEFINE m == [th[t] EXCEPT !.ehs = @ \ {a},
                                !.out = IF Loads(t, a) THEN @ \cup {a} ELSE @]
  <2>2. a \in Apps
    BY <1>1 DEF Thread
  <2>3. /\ m \in Thread /\ m.pc = th[t].pc /\ m.owed = th[t].owed /\ m.id = th[t].id
        /\ m.todo = th[t].todo /\ m.cmd = th[t].cmd /\ m.like = th[t].like
        /\ m.out = IF Loads(t, a) THEN th[t].out \cup {a} ELSE th[t].out
        /\ m.ehs = th[t].ehs \ {a}
    BY <1>1, <2>2 DEF Thread
  <2>4. th' = [th EXCEPT ![t] = m]
    BY <1>1, <2>1 DEF TypeOK
  <2> HIDE DEF m
  <2>5. /\ th'[t] = m /\ th' \in [Threads -> Thread]
        /\ \A u \in Threads \ {t} : th'[u] = th[u]
        /\ th[t].pc = "locked" /\ th[t].cmd # "show"
    BY <1>1, <1>4, <2>3, <2>4, Moved DEF printPs, At
  <2>6. TypeOK'
    BY <1>1, <1>2, <2>5 DEF TypeOK
  <2>7. a \in th[t].owed => a \in m.out
    BY <1>1, <2>3 DEF Fine, Owed, Loads, entryDecode, entryReadHeader
  <2>8. OnTheWay(t)'
    BY <1>1, <2>3, <2>5, <2>7 DEF Fine, OnTheWay, Seen, Approaching
  <2>9. Yields(t)'
    <3> SUFFICES ASSUME NEW b \in m.ehs PROVE file[b] = "whole" \/ th'[b].pc \in Fallen
      BY <1>2, <2>5 DEF Yields
    <3>1. b \in th[t].ehs /\ b \in Threads /\ b # t
      BY <1>1, <2>3, ThreadKinds DEF Thread
    <3> QED
      BY <1>1, <2>5, <3>1 DEF Fine, Yields
  <2>10. Fine(t)'
    BY <1>1, <1>2, <2>3, <2>5, <2>8, <2>9 DEF Fine, Locked, Owed, Listed,
       Complete
  <2> QED
    BY <1>1, <1>2, <2>3, <2>4, <2>5, <2>6, <2>10, FineMove DEF Fallen
<1>5. CASE AllDone(t)
  <2> DEFINE m == [th[t] EXCEPT !.pc = "done"]
  <2>1. /\ m \in Thread /\ m.pc = "done" /\ m.owed = th[t].owed
        /\ m.cmd = th[t].cmd /\ m.like = th[t].like /\ m.out = th[t].out
    BY <1>1, StepNames DEF Thread
  <2>2. th' = [th EXCEPT ![t] = m]
    BY <1>5 DEF AllDone, Goto
  <2> HIDE DEF m
  <2>3. /\ th'[t] = m /\ th' \in [Threads -> Thread]
        /\ th[t].pc = "next" /\ th[t].todo = {}
    BY <1>1, <1>5, <2>1, <2>2, Moved DEF AllDone, At
  <2>4. TypeOK'
    BY <1>1, <1>2, <2>3 DEF TypeOK
  <2>5. \A a \in th[t].owed : Seen(t, a)
    BY <1>1, <2>3 DEF Fine, OnTheWay
  <2>6. Complete(t)'
    BY <2>1, <2>3, <2>5 DEF Complete, Seen
  <2>7. Fine(t)'
    BY <1>1, <1>2, <2>1, <2>3, <2>6 DEF Fine, Locked, Owed, OnTheWay, Listed, Yields,
       Holding, Approaching, Visiting
  <2> QED
    BY <1>1, <1>2, <2>1, <2>2, <2>3, <2>4, <2>7, FineMove DEF Fallen
<1> QED
  BY <1>3, <1>4, <1>5

-----------------------------------------------------------------------------
\* An entry in a segment that nobody has locked is whole, or its writer fell.
LEMMA FreeSegment ==
    ASSUME StoreInv, NEW a \in Apps, file[a] # "none", segMu[IdOf[a]] = None
    PROVE  file[a] = "whole" \/ th[a].pc \in Fallen
<1>1. Fine(a) /\ a # None /\ th[a].pc \in Steps
  BY ThreadKinds, ThreadTyped DEF StoreInv, Thread
<1>2. th[a].pc \notin Holding
  BY <1>1 DEF Fine, Locked, Written
<1> QED
  BY <1>1, <1>2, StepNames DEF Fine, Written, Holding, Approaching, Visiting, Fallen

\* Handle.Lock, by an app or by All.
LEMMA LockFine ==
    ASSUME StoreInv, NEW t \in Threads, Lock(t)
    PROVE  StoreInv'
<1> DEFINE id == th[t].id
           ehs == IF t \in Listers THEN Here(id) ELSE th[t].ehs
           m == [th[t] EXCEPT !.pc = "locked", !.ehs = ehs]
<1>1. /\ TypeOK /\ Fine(t) /\ th[t] \in Thread /\ t # None
      /\ t \in Apps \/ t \in Listers
      /\ th[t].pc = "got" /\ id \in dirs /\ segMu[id] = None
      /\ segMu' = [segMu EXCEPT ![id] = t]
  BY ThreadKinds, ThreadTyped DEF StoreInv, Lock, At
<1>2. id \in Ids /\ ehs \subseteq Apps
  BY <1>1 DEF TypeOK, Here, Thread
<1>3. /\ m \in Thread /\ m.pc = "locked" /\ m.owed = th[t].owed /\ m.id = id
      /\ m.todo = th[t].todo /\ m.cmd = th[t].cmd /\ m.like = th[t].like
      /\ m.out = th[t].out /\ m.ehs = ehs /\ m.eh = th[t].eh
  BY <1>1, <1>2, StepNames DEF Thread
<1>4. th' = [th EXCEPT ![t] = m]
  BY <1>1 DEF TypeOK, Lock
<1> HIDE DEF m
<1>5. /\ th'[t] = m /\ th' \in [Threads -> Thread]
      /\ \A u \in Threads \ {t} : th'[u] = th[u]
  BY <1>1, <1>3, <1>4, Moved
<1>6. UNCHANGED << mkdirOnce, handles, dirs, fileMu, file >>
  BY DEF Lock
<1>7. TypeOK'
  BY <1>1, <1>2, <1>5, <1>6 DEF TypeOK
<1>8. /\ segMu'[id] = t
      /\ \A d \in Ids : segMu[d] # None /\ segMu[d] # t => segMu'[d] = segMu[d]
  BY <1>1, <1>2 DEF TypeOK
<1>9. ASSUME t \in Listers PROVE OnTheWay(t)' /\ Listed(t)' /\ Yields(t)'
  <2>1. ehs = {a \in Apps : IdOf[a] = id /\ file[a] # "none"}
    BY <1>9 DEF Here
  <2>2. \A a \in th[t].owed : IdOf[a] = id => a \in ehs
    BY <1>1, <2>1 DEF Fine, Owed, Thread
  <2>3. OnTheWay(t)'
    BY <1>1, <1>3, <1>5, <1>9, <2>2 DEF Fine, OnTheWay, Seen, Approaching
  <2>4. Listed(t)'
    BY <1>2, <1>3, <1>5, <2>1 DEF Listed
  <2>5. ASSUME NEW a \in ehs PROVE file'[a] = "whole" \/ th'[a].pc \in Fallen
    <3>1. a \in Apps /\ a \in Threads /\ a # t
      BY <1>9, <2>1, ThreadKinds
    <3> QED
      BY <1>1, <1>5, <1>6, <2>1, <3>1, FreeSegment
  <2> QED
    BY <1>3, <1>5, <2>3, <2>4, <2>5 DEF Yields
<1>10. Fine(t)'
  BY <1>1, <1>3, <1>5, <1>6, <1>8, <1>9 DEF Fine, Locked, Owed, Written, Complete,
     Approaching, Visiting
<1>11. ASSUME t \in Apps, NEW l \in Listers, th[l].pc = "locked" PROVE t \notin th[l].ehs
  BY <1>1, <1>11, NotYielded
<1> QED
  BY <1>5, <1>6, <1>7, <1>8, <1>10, <1>11, FineStep

\* An app takes the lock again to destroy its entry.
LEMMA CleanupLockFine ==
    ASSUME StoreInv, NEW t \in Apps, CleanupLock(t)
    PROVE  StoreInv'
<1> DEFINE id == th[t].id
           m == [th[t] EXCEPT !.pc = "destroy"]
<1>1. /\ TypeOK /\ t \in Threads /\ t \notin Listers /\ Fine(t) /\ th[t] \in Thread
      /\ th[t].pc = "cleanup" /\ id \in dirs /\ segMu[id] = None
      /\ segMu' = [segMu EXCEPT ![id] = t]
  BY ThreadKinds, ThreadTyped DEF StoreInv, CleanupLock, At
<1>2. id \in Ids
  BY <1>1 DEF TypeOK
<1>3. /\ m \in Thread /\ m.pc = "destroy" /\ m.owed = th[t].owed /\ m.id = id
      /\ m.eh = th[t].eh
  BY <1>1, StepNames DEF Thread
<1>4. th' = [th EXCEPT ![t] = m]
  BY DEF CleanupLock, Goto
<1> HIDE DEF m
<1>5. /\ th'[t] = m /\ th' \in [Threads -> Thread]
      /\ \A u \in Threads \ {t} : th'[u] = th[u]
  BY <1>1, <1>3, <1>4, Moved
<1>6. UNCHANGED << mkdirOnce, handles, dirs, fileMu, file >>
  BY DEF CleanupLock
<1>7. TypeOK'
  BY <1>1, <1>2, <1>5, <1>6 DEF TypeOK
<1>8. /\ segMu'[id] = t
      /\ \A d \in Ids : segMu[d] # None /\ segMu[d] # t => segMu'[d] = segMu[d]
  BY <1>1, <1>2 DEF TypeOK
<1>9. Fine(t)'
  BY <1>1, <1>3, <1>5, <1>6, <1>8 DEF Fine, Locked, Owed, Written, Approaching, Visiting
<1>10. ASSUME NEW l \in Listers, th[l].pc = "locked" PROVE t \notin th[l].ehs
  BY <1>1, <1>10, NotYielded
<1> QED
  BY <1>1, <1>5, <1>6, <1>7, <1>8, <1>9, <1>10, FineStep

\* Save: what is being written is seen by no lister.
LEMMA SaveFine ==
    ASSUME StoreInv, NEW t \in Apps,
           SaveOpen(t) \/ entryWriteHeader(t) \/ entryEncode(t) \/ SaveFail(t)
    PROVE  StoreInv'
<1> DEFINE id == th[t].id
<1>1. /\ TypeOK /\ t \in Threads /\ t \notin Listers /\ Fine(t) /\ th[t] \in Thread
      /\ th[t].pc \in {"locked", "opened", "encoded"} /\ t # None
  BY ThreadKinds, ThreadTyped DEF StoreInv, SaveOpen, entryWriteHeader, entryEncode,
     SaveFail, At
<1>2. id \in Ids /\ id = IdOf[t] /\ IdOf[t] \in dirs /\ segMu[id] = t
  BY <1>1, ThreadKinds DEF Fine, Written, Locked, Holding
<1>3. PICK s \in {"opened", "encoded", "running", "cleanup"}, eh \in BOOLEAN :
         /\ th' = [th EXCEPT ![t] = [th[t] EXCEPT !.pc = s, !.eh = eh]]
         /\ s \in {"opened", "encoded"} => segMu' = segMu
         /\ s \in {"running", "cleanup"} => eh = TRUE /\ segMu' = [segMu EXCEPT ![id] = None]
         /\ s = "running" => file' = [file EXCEPT ![t] = "whole"]
         /\ s = "cleanup" => file' = file
         /\ s = "opened" => file' = [file EXCEPT ![t] = "empty"]
         /\ s = "encoded" => file' = [file EXCEPT ![t] = "header"]
  <2>1. th[t].eh \in BOOLEAN /\ th[t] = [th[t] EXCEPT !.eh = th[t].eh]
    BY <1>1 DEF Thread
  <2>2. CASE SaveOpen(t)
    <3>1. th' = [th EXCEPT ![t] = [th[t] EXCEPT !.pc = "opened", !.eh = th[t].eh]]
      BY <1>1, <2>2 DEF SaveOpen, Goto, TypeOK, Thread
    <3> QED
      BY <2>1, <2>2, <3>1 DEF SaveOpen
  <2>3. CASE entryWriteHeader(t)
    <3>1. th' = [th EXCEPT ![t] = [th[t] EXCEPT !.pc = "encoded", !.eh = th[t].eh]]
      BY <1>1, <2>3 DEF entryWriteHeader, Goto, TypeOK, Thread
    <3> QED
      BY <2>1, <2>3, <3>1 DEF entryWriteHeader
  <2>4. CASE entryEncode(t)
    BY <1>1, <2>4 DEF entryEncode, Unlock, TypeOK
  <2>5. CASE SaveFail(t)
    BY <1>1, <2>5 DEF SaveFail, Unlock, TypeOK
  <2> QED
    BY <2>2, <2>3, <2>4, <2>5
<1> DEFINE m == [th[t] EXCEPT !.pc = s, !.eh = eh]
<1>4. /\ m \in Thread /\ m.pc = s /\ m.owed = th[t].owed /\ m.id = id /\ m.eh = eh
  BY <1>1, StepNames DEF Thread
<1>5. th' = [th EXCEPT ![t] = m]
  BY <1>3
<1> HIDE DEF m
<1>6. /\ th'[t] = m /\ th' \in [Threads -> Thread]
      /\ \A u \in Threads \ {t} : th'[u] = th[u]
  BY <1>1, <1>4, <1>5, Moved
<1>7. UNCHANGED << mkdirOnce, handles, dirs, fileMu >>
  BY DEF SaveOpen, entryWriteHeader, entryEncode, SaveFail
<1>8. /\ segMu' \in [Ids -> Threads \cup {None}]
      /\ file' \in [Apps -> Contents]
      /\ \A a \in Apps \ {t} : file'[a] = file[a]
      /\ \A d \in Ids : segMu[d] # None /\ segMu[d] # t => segMu'[d] = segMu[d]
  <2>1. segMu' = segMu \/ segMu' = [segMu EXCEPT ![id] = None]
    BY <1>3
  <2>2. \E c \in Contents : file' = file \/ file' = [file EXCEPT ![t] = c]
    BY <1>3 DEF Contents
  <2> QED
    BY <1>1, <1>2, <2>1, <2>2 DEF TypeOK
<1>9. TypeOK'
  BY <1>1, <1>6, <1>7, <1>8 DEF TypeOK
<1>10. /\ s = "running" => file'[t] = "whole"
       /\ s \in {"opened", "encoded"} => segMu'[id] = t
       /\ s \in {"opened", "encoded"} => file'[t] # "whole"
  BY <1>1, <1>2, <1>3 DEF TypeOK
<1>11. th[t].owed = {} /\ (file[t] = "whole" => file'[t] = "whole")
  BY <1>1, <1>3 DEF Fine, Written, Visiting
<1>12. Fine(t)'
  BY <1>1, <1>2, <1>3, <1>4, <1>6, <1>7, <1>10, <1>11 DEF Fine, Locked, Owed, Written,
     Holding, Approaching, Visiting
<1>13. ASSUME NEW l \in Listers, th[l].pc = "locked" PROVE t \notin th[l].ehs
  BY <1>1, <1>13, NotYielded DEF Holding
<1> QED
  BY <1>1, <1>6, <1>7, <1>8, <1>9, <1>11, <1>12, <1>13, FineStep

\* A lister leaves a segment: it has yielded every entry, or found its answer.
LEMMA LeaveFine ==
    ASSUME StoreInv, NEW t \in Listers, tryIdentifier(t) \/ SegmentDone(t)
    PROVE  StoreInv'
<1> DEFINE id == th[t].id
<1>1. /\ TypeOK /\ t \in Threads /\ t \notin Apps /\ Fine(t) /\ th[t] \in Thread
      /\ th[t].pc = "locked"
  BY ThreadKinds, ThreadTyped DEF StoreInv, tryIdentifier, SegmentDone, At
<1>2. id \in Ids /\ segMu[id] = t /\ \A a \in Apps : a # t /\ a \in Threads
  BY <1>1, ThreadKinds DEF Fine, Listed, Locked, Visiting, Holding
<1>3. UNCHANGED << mkdirOnce, handles, dirs, fileMu, file >>
  BY DEF tryIdentifier, SegmentDone
<1>4. ASSUME NEW m \in Thread, th' = [th EXCEPT ![t] = m],
             segMu' = segMu \/ (Unlock(t) /\ m.pc \notin Holding),
             Fine(t)'
      PROVE  StoreInv'
  <2>1. th' \in [Threads -> Thread] /\ \A u \in Threads \ {t} : th'[u] = th[u]
    BY <1>1, <1>4, Moved
  <2>2. /\ segMu' \in [Ids -> Threads \cup {None}]
        /\ \A d \in Ids : segMu[d] # None /\ segMu[d] # t => segMu'[d] = segMu[d]
    BY <1>1, <1>2, <1>4 DEF TypeOK, Unlock
  <2>3. TypeOK'
    BY <1>1, <1>3, <2>1, <2>2 DEF TypeOK
  <2> QED
    BY <1>1, <1>3, <1>4, <2>1, <2>2, <2>3, FineStep
<1>5. CASE SegmentDone(t)
  <2> DEFINE m == [th[t] EXCEPT !.pc = "next"]
  <2>1. /\ m \in Thread /\ m.pc = "next" /\ m.owed = th[t].owed /\ m.todo = th[t].todo
        /\ m.cmd = th[t].cmd /\ m.like = th[t].like /\ m.out = th[t].out
    BY <1>1, StepNames DEF Thread
  <2>2. th' = [th EXCEPT ![t] = m] /\ Unlock(t) /\ th[t].ehs = {}
    BY <1>5 DEF SegmentDone, Goto
  <2> HIDE DEF m
  <2>3. th'[t] = m
    BY <1>1, <2>1, <2>2, Moved
  <2>4. OnTheWay(t)'
    BY <1>1, <2>1, <2>2, <2>3 DEF Fine, OnTheWay, Seen, Approaching
  <2>5. Fine(t)'
    BY <1>1, <1>3, <2>1, <2>3, <2>4 DEF Fine, Locked, Owed, Listed, Yields, Complete,
       Holding, Approaching, Visiting
  <2> QED
    BY <1>4, <2>1, <2>2, <2>5 DEF Holding
<1>6. CASE tryIdentifier(t)
  <2>1. PICK a \in th[t].ehs :
          IF a \in th[t].like /\ Loads(t, a)
          THEN th' = [th EXCEPT ![t].pc = "done", ![t].out = {a}] /\ Unlock(t)
          ELSE th' = [th EXCEPT ![t].ehs = @ \ {a}] /\ UNCHANGED segMu
    BY <1>6 DEF tryIdentifier
  <2>2. a \in Apps /\ th[t].cmd = "show"
    BY <1>1, <1>6 DEF Thread, tryIdentifier
  <2>3. CASE a \in th[t].like /\ Loads(t, a)
    <3> DEFINE m == [th[t] EXCEPT !.pc = "done", !.out = {a}]
    <3>1. /\ m \in Thread /\ m.pc = "done" /\ m.owed = th[t].owed
          /\ m.cmd = th[t].cmd /\ m.out = {a}
      BY <1>1, <2>2, StepNames DEF Thread
    <3>2. th' = [th EXCEPT ![t] = m] /\ Unlock(t)
      BY <1>1, <2>1, <2>3 DEF TypeOK
    <3> HIDE DEF m
    <3>3. th'[t] = m
      BY <1>1, <3>1, <3>2, Moved
    <3>4. Fine(t)'
      BY <1>1, <1>3, <2>2, <3>1, <3>3 DEF Fine, Locked, Owed, OnTheWay, Listed, Yields,
         Complete, Holding, Approaching, Visiting
    <3> QED
      BY <1>4, <3>1, <3>2, <3>4 DEF Holding
  <2>4. CASE ~(a \in th[t].like /\ Loads(t, a))
    <3> DEFINE m == [th[t] EXCEPT !.ehs = @ \ {a}]
    <3>1. /\ m \in Thread /\ m.pc = "locked" /\ m.owed = th[t].owed
          /\ m.todo = th[t].todo /\ m.id = id
          /\ m.cmd = th[t].cmd /\ m.like = th[t].like /\ m.ehs = th[t].ehs \ {a}
      BY <1>1 DEF Thread
    <3>2. th' = [th EXCEPT ![t] = m] /\ segMu' = segMu
      BY <1>1, <2>1, <2>4 DEF TypeOK
    <3> HIDE DEF m
    <3>3. th'[t] = m /\ \A u \in Threads \ {t} : th'[u] = th[u]
      BY <1>1, <3>1, <3>2, Moved
    <3>4. a \in th[t].owed => a \notin th[t].like
      BY <1>1, <2>2, <2>4 DEF Fine, Owed, Loads, entryDecode, entryReadHeader
    <3>5. OnTheWay(t)'
      BY <1>1, <2>2, <3>1, <3>3, <3>4 DEF Fine, OnTheWay, Seen, Approaching
    <3>6. Yields(t)'
      <4> SUFFICES ASSUME NEW b \in m.ehs PROVE file[b] = "whole" \/ th'[b].pc \in Fallen
        BY <1>3, <3>3 DEF Yields
      <4>1. b \in th[t].ehs /\ b \in Apps
        BY <1>1, <3>1 DEF Thread
      <4> QED
        BY <1>1, <1>2, <3>3, <4>1 DEF Fine, Yields
    <3>7. Fine(t)'
      BY <1>1, <1>3, <3>1, <3>2, <3>3, <3>5, <3>6 DEF Fine, Locked, Owed, Listed,
         Complete
    <3> QED
      BY <1>4, <3>1, <3>2, <3>7
  <2> QED
    BY <2>3, <2>4
<1> QED
  BY <1>5, <1>6

\* The entry is destroyed, with the lock or without it.
LEMMA RemovedFine ==
    ASSUME StoreInv, NEW a \in Apps, Destroy(a) \/ DestroyUnlocked(a)
    PROVE  StoreInv'
<1>1. /\ TypeOK /\ a \in Threads /\ a \notin Listers /\ Fine(a) /\ th[a] \in Thread
      /\ a # None /\ th[a].id = IdOf[a] /\ IdOf[a] \in Ids
  BY ThreadKinds, ThreadTyped DEF StoreInv, Fine, Written
<1>2. PICK end \in {"done", "failed"} :
         /\ Removed(a, end)
         /\ end = "done" => th[a].pc = "destroy" /\ Unlock(a)
         /\ end = "failed" => segMu' = segMu
         /\ th[a].pc \in {"cleanup", "destroy"}
  BY DEF Destroy, DestroyUnlocked, At
<1> DEFINE m == Over(a, end)
<1>3. m \in Thread /\ m.pc = end /\ m.owed = {} /\ m.id = IdOf[a]
  BY <1>1, OverType, StepNames
<1> HIDE DEF m
<1>4. /\ th'[a] = m
      /\ \A u \in Threads \ {a} : th'[u] = [th[u] EXCEPT !.owed = @ \ {a}]
      /\ th' = [t \in Threads |-> IF t = a THEN m ELSE [th[t] EXCEPT !.owed = @ \ {a}]]
  BY <1>1, <1>2 DEF Removed, m
<1>5. ASSUME NEW u \in Threads, u # a
      PROVE  /\ th'[u] \in Thread /\ th[u] \in Thread
             /\ th'[u].pc = th[u].pc /\ th'[u].id = th[u].id /\ th'[u].todo = th[u].todo
             /\ th'[u].ehs = th[u].ehs /\ th'[u].eh = th[u].eh /\ th'[u].cmd = th[u].cmd
             /\ th'[u].like = th[u].like /\ th'[u].out = th[u].out
             /\ th'[u].owed = th[u].owed \ {a}
  <2>1. th[u] \in Thread /\ th'[u] = [th[u] EXCEPT !.owed = @ \ {a}]
    BY <1>1, <1>4, <1>5, ThreadTyped
  <2> QED
    BY <2>1 DEF Thread
<1>6. th' \in [Threads -> Thread]
  BY <1>3, <1>4, <1>5
<1>7. /\ UNCHANGED << mkdirOnce, handles, dirs, fileMu >>
      /\ file' = IF th[a].eh THEN [file EXCEPT ![a] = "none"] ELSE file
  BY <1>2 DEF Removed
<1>8. /\ file' \in [Apps -> Contents] /\ \A b \in Apps \ {a} : file'[b] = file[b]
      /\ file'[a] = "none"
         \/ (file'[a] = file[a] /\ th[a].eh = FALSE)
  <2>1. th[a].eh \in BOOLEAN /\ file \in [Apps -> Contents] /\ "none" \in Contents
    BY <1>1 DEF Thread, TypeOK, Contents
  <2> QED
    BY <1>7, <2>1
<1>9. file'[a] = "none"
  BY <1>1, <1>2, <1>8 DEF Fine, Written
<1>10. /\ segMu' \in [Ids -> Threads \cup {None}]
       /\ \A d \in Ids : segMu[d] # None /\ segMu[d] # a => segMu'[d] = segMu[d]
  <2>1. CASE end = "failed"
    BY <1>1, <1>2, <2>1 DEF TypeOK
  <2>2. CASE end = "done"
    <3>1. segMu[th[a].id] = a
      BY <1>1, <1>2, <2>2 DEF Fine, Locked, Holding
    <3> QED
      BY <1>1, <1>2, <2>2, <3>1 DEF TypeOK, Unlock
  <2> QED
    BY <2>1, <2>2
<1>11. TypeOK'
  BY <1>1, <1>6, <1>7, <1>8, <1>10 DEF TypeOK
<1>12. Fine(a)'
  BY <1>1, <1>3, <1>4, <1>9 DEF Fine, Locked, Owed, Written, Holding, Approaching,
     Visiting
<1>13. ASSUME NEW u \in Threads, u # a PROVE Fine(u)'
  <2>1. Fine(u) /\ u # None /\ (u \in Apps \/ u \in Listers)
    BY ThreadKinds DEF StoreInv
  <2>2. Locked(u)'
    <3>1. th[u].pc \in Holding => th[u].id \in Ids
      BY <2>1, ThreadKinds DEF Fine, Written, Listed
    <3> QED
      BY <1>5, <1>10, <1>13, <2>1, <3>1 DEF Fine, Locked
  <2>3. Owed(u)'
    BY <1>5, <1>8, <1>13, <2>1 DEF Fine, Owed, Thread
  <2>4. ASSUME u \in Apps PROVE Written(u)'
    BY <1>5, <1>7, <1>8, <1>13, <2>1, <2>4 DEF Fine, Written
  <2>5. ASSUME u \in Listers PROVE OnTheWay(u)' /\ Listed(u)' /\ Complete(u)'
    <3>1. OnTheWay(u)'
      BY <1>5, <1>13, <2>1, <2>5 DEF Fine, OnTheWay, Seen
    <3>2. Listed(u)'
      BY <1>5, <1>13, <2>1, <2>5 DEF Fine, Listed
    <3>3. Complete(u)'
      BY <1>5, <1>13, <2>1, <2>5 DEF Fine, Complete
    <3> QED
      BY <3>1, <3>2, <3>3
  <2>6. ASSUME u \in Listers PROVE Yields(u)'
    <3> SUFFICES ASSUME th[u].pc = "locked", NEW b \in th[u].ehs
                 PROVE  file'[b] = "whole" \/ th'[b].pc \in Fallen
      BY <1>5, <1>13 DEF Yields
    <3>1. b \in Apps /\ b \in Threads
      BY <1>5, <1>13, ThreadKinds DEF Thread
    <3>2. CASE b = a
      <4>1. end = "failed"
        BY <1>2, <2>6, <3>2, NotYielded DEF Holding
      <4> QED
        BY <1>3, <1>4, <3>2, <4>1 DEF Fallen
    <3>3. CASE b # a
      <4>1. file[b] = "whole" \/ th[b].pc \in Fallen
        BY <2>1, <2>6 DEF Fine, Yields
      <4> QED
        BY <1>5, <1>8, <3>1, <3>3, <4>1
    <3> QED
      BY <3>2, <3>3
  <2> QED
    BY <2>1, <2>2, <2>3, <2>4, <2>5, <2>6 DEF Fine
<1> QED
  BY <1>11, <1>12, <1>13 DEF StoreInv

\* SIGKILL ends the threads of a process and frees what they have locked.
LEMMA KillFine ==
    ASSUME StoreInv, NEW p \in Procs, Kill(p)
    PROVE  StoreInv'
<1> DEFINE mine == {t \in Threads : ProcOf[t] = p}
           gone(t) == t \in mine /\ th[t].pc \notin Ended
<1>1. /\ TypeOK
      /\ th' = [t \in Threads |-> IF gone(t) THEN Over(t, "dead") ELSE th[t]]
      /\ fileMu' = IF fileMu \in mine THEN None ELSE fileMu
      /\ segMu' = [id \in Ids |-> IF segMu[id] \in mine THEN None ELSE segMu[id]]
      /\ UNCHANGED << mkdirOnce, handles, dirs, file >>
  BY DEF StoreInv, Kill
<1>2. ASSUME NEW t \in Threads
      PROVE  /\ gone(t) => th'[t] = Over(t, "dead")
             /\ ~gone(t) => th'[t] = th[t]
             /\ Over(t, "dead") \in Thread /\ Over(t, "dead").pc = "dead"
             /\ Over(t, "dead").owed = {}
             /\ t \in Apps => Over(t, "dead").id = IdOf[t]
             /\ th[t] \in Thread
  <2>1. gone(t) => th'[t] = Over(t, "dead")
    BY <1>1
  <2>2. ~gone(t) => th'[t] = th[t]
    BY <1>1
  <2> QED
    BY <1>1, <2>1, <2>2, OverType, StepNames, ThreadTyped
<1>3. th' \in [Threads -> Thread]
  <2>1. \A t \in Threads : th'[t] \in Thread
    BY <1>2
  <2> QED
    BY <1>1, <2>1
<1>4. TypeOK'
  BY <1>1, <1>3 DEF TypeOK
<1>5. ASSUME NEW u \in Threads, gone(u) PROVE Fine(u)'
  <2>1. th'[u].pc = "dead" /\ th'[u].owed = {} /\ (u \in Apps => th'[u].id = IdOf[u])
    BY <1>2, <1>5
  <2>2. u \in Apps => (file[u] # "none" => IdOf[u] \in dirs)
    BY DEF StoreInv, Fine, Written
  <2> QED
    BY <1>1, <2>1, <2>2 DEF Fine, Locked, Owed, Written, OnTheWay, Listed, Yields,
       Complete, Holding, Approaching, Visiting
<1>6. ASSUME NEW u \in Threads, ~gone(u) PROVE Fine(u)'
  <2>1. Fine(u) /\ th'[u] = th[u] /\ th[u] \in Thread
    BY <1>2, <1>6 DEF StoreInv
  <2>2. Locked(u)'
    <3>1. th[u].pc \in Holding => th[u].id \in Ids /\ u \notin mine
      BY <1>6, <2>1, ThreadKinds DEF Fine, Written, Listed, Holding, Ended
    <3> QED
      BY <1>1, <2>1, <3>1 DEF Fine, Locked
  <2>3. Owed(u)'
    BY <1>1, <2>1 DEF Fine, Owed
  <2>4. ASSUME u \in Apps PROVE Written(u)'
    BY <1>1, <2>1, <2>4 DEF Fine, Written
  <2>5. ASSUME u \in Listers PROVE OnTheWay(u)' /\ Listed(u)' /\ Complete(u)'
    BY <2>1, <2>5 DEF Fine, OnTheWay, Seen, Listed, Complete
  <2>6. ASSUME u \in Listers PROVE Yields(u)'
    <3> SUFFICES ASSUME th[u].pc = "locked", NEW b \in th[u].ehs
                 PROVE  file[b] = "whole" \/ th'[b].pc \in Fallen
      BY <1>1, <2>1 DEF Yields
    <3>1. b \in Threads
      BY <2>1, ThreadKinds DEF Thread
    <3>2. file[b] = "whole" \/ th[b].pc \in Fallen
      BY <2>1, <2>6 DEF Fine, Yields
    <3> QED
      BY <1>2, <3>1, <3>2 DEF Fallen
  <2> QED
    BY <2>2, <2>3, <2>4, <2>5, <2>6 DEF Fine
<1> QED
  BY <1>4, <1>5, <1>6 DEF StoreInv

-----------------------------------------------------------------------------
\* Before the first call nothing is stored.
LEMMA StoreInit == Init => StoreInv
<1> SUFFICES ASSUME Init PROVE StoreInv
  OBVIOUS
<1>1. ASSUME NEW t \in Threads
      PROVE  /\ th[t] = NewThread(t) /\ NewThread(t) \in Thread
             /\ t \in Apps => th[t].pc = "handle" /\ th[t].id = IdOf[t]
             /\ t \notin Apps => th[t].pc = "idle"
             /\ th[t].owed = {}
  <2>1. th[t] = NewThread(t)
    BY DEF Init
  <2>2. NewThread(t) \in Thread
    BY OverType, StepNames
  <2> QED
    BY <2>1, <2>2 DEF NewThread
<1>2. TypeOK
  <2>1. th \in [Threads -> Thread]
    BY <1>1 DEF Init
  <2> QED
    BY <2>1 DEF Init, TypeOK, Contents
<1>3. ASSUME NEW t \in Threads PROVE Fine(t)
  BY <1>1, <1>3, ThreadKinds DEF Init, Fine, Locked, Owed, Written, OnTheWay, Listed,
     Yields, Complete, Holding, Approaching, Visiting
<1> QED
  BY <1>2, <1>3 DEF StoreInv

\* Every step keeps the invariant.
LEMMA StoreNext == StoreInv /\ [Next]_vars => StoreInv'
<1> SUFFICES ASSUME StoreInv, [Next]_vars PROVE StoreInv'
  OBVIOUS
<1>1. ASSUME NEW t \in Threads, HandleStep(t) PROVE StoreInv'
  <2>1. ASSUME bigLockFail(t) \/ HandleMkdirFail(t) PROVE StoreInv'
    BY <2>1, GiveUpFine DEF bigLockFail, HandleMkdirFail
  <2>2. ASSUME LockFail(t) PROVE StoreInv'
    BY <2>2, GiveUpFine, CleanupFine DEF LockFail
  <2> QED
    BY <1>1, <2>1, <2>2, HandleFine, LockFine DEF HandleStep
<1>2. ASSUME NEW a \in Apps, AppStep(a) \/ Exit(a) \/ CleanupLock(a) \/ DestroyUnlocked(a)
      PROVE  StoreInv'
  <2>1. ASSUME Exit(a) PROVE StoreInv'
    BY <2>1, CleanupFine DEF Exit
  <2> QED
    BY <1>2, <2>1, SaveFine, RemovedFine, CleanupLockFine DEF AppStep
<1>3. ASSUME NEW l \in Listers, ListStep(l) \/ All(l) PROVE StoreInv'
  <2>1. ASSUME SegmentsFail(l) \/ StraySegment(l) PROVE StoreInv'
    BY <2>1, ThreadKinds, GiveUpFine DEF SegmentsFail, StraySegment
  <2> QED
    BY <1>3, <2>1, AllFine, VisitFine, LeaveFine DEF ListStep
<1>4. ASSUME NEW p \in Procs, Kill(p) PROVE StoreInv'
  BY <1>4, KillFine
<1>5. CASE UNCHANGED vars
  <2>1. TypeOK'
    BY <1>5 DEF vars, StoreInv, TypeOK
  <2>2. ASSUME NEW t \in Threads PROVE Fine(t)'
    <3>1. Fine(t)
      BY DEF StoreInv
    <3> QED
      BY <1>5, <3>1 DEF vars, Fine, Locked, Owed, Written, OnTheWay, Seen,
         Listed, Yields, Complete
  <2> QED
    BY <2>1, <2>2 DEF StoreInv
<1> QED
  BY <1>1, <1>2, <1>3, <1>4, <1>5 DEF Next

\* Every state of the store has the invariant.
LEMMA StoreSafe == Spec => []StoreInv
BY StoreInit, StoreNext, PTL DEF Spec

\* Handles, locks, entries and iterations keep their types.
THEOREM StoreTypeCorrect == Spec => []TypeOK
<1>1. StoreInv => TypeOK
  BY DEF StoreInv
<1> QED
  BY <1>1, StoreSafe, PTL

\* A listing that ends without an error has missed no instance whose whole
\* entry existed all along, for any number of apps and listers in any number
\* of processes, although All holds one segment lock at a time.
THEOREM ListingAlwaysComplete == Spec => []ListingComplete
<1>1. StoreInv => ListingComplete
  BY ThreadKinds DEF StoreInv, Fine, Complete, ListingComplete, At
<1> QED
  BY <1>1, StoreSafe, PTL

\* What a lister yields under the lock of a segment is never being written or
\* removed, unless its writer failed or died, or destroys it without the lock.
THEOREM YieldedAlwaysExists == Spec => []YieldedExists
<1>1. StoreInv => YieldedExists
  BY ThreadKinds DEF StoreInv, Fine, Yields, YieldedExists, Fallen, At
<1> QED
  BY <1>1, StoreSafe, PTL
=============================================================================
