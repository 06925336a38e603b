--------------------------- MODULE LifecycleExit ---------------------------
(***************************************************************************)
(* What a monitor that has ended leaves behind: its exit code, and the     *)
(* resources of its system setup.                                          *)
(***************************************************************************)
EXTENDS LifecycleProofs

(***************************************************************************)
(* A failure is reported.  perror sets the exit code at once, and what     *)
(* follows only ever replaces it by the status of a shim that failed.      *)
(***************************************************************************)

\* What perror was called for is in the exit code.
Honest(m) == m.failed => m.exitCode # 0

Reported == \A i \in Inst : Honest(mon[i])

\* perror sets the code, and the code stays whatever else changes.
LEMMA PerrorHonest ==
    ASSUME NEW m \in Monitor
    PROVE  perror(m) \in Monitor /\ Honest(perror(m))
<1>1. perror(m) \in Monitor
  BY PerrorType
<1>2. perror(m).exitCode = IF m.exitCode = 0 THEN 1 ELSE m.exitCode
  BY DEF perror, Monitor
<1>3. perror(m).exitCode # 0
  BY <1>2
<1> QED
  BY <1>1, <1>3 DEF Honest

\* Moving to another state keeps the code.
LEMMA GotoHonest ==
    ASSUME NEW m \in Monitor, NEW s \in States, Honest(m)
    PROVE  Goto(m, s) \in Monitor /\ Honest(Goto(m, s))
BY GotoType DEF Goto, Monitor, Honest

\* A step of i to an honest record.
LEMMA ReportedStep ==
    ASSUME Typed, Reported, NEW i \in Inst, NEW m, Become(i, m), Honest(m)
    PROVE  Reported'
BY DEF Typed, TypeOK, Reported, Become, Honest

\* Every step keeps the code of every failure.
LEMMA ReportedNext == Typed /\ Reported /\ [Next]_vars => Reported'
<1> SUFFICES ASSUME Typed, Reported, [Next]_vars PROVE Reported'
  OBVIOUS
<1>0. ASSUME NEW i \in Inst
      PROVE  /\ mon[i] \in Monitor
             /\ Honest(mon[i])
             /\ perror(mon[i]) \in Monitor
             /\ Honest(perror(mon[i]))
  BY MonitorTyped, PerrorHonest DEF Reported
<1>1. ASSUME NEW i \in Inst,
             \/ StartFail(i) \/ CommitLock(i) \/ CommitLockFail(i)
             \/ SaveEncode(i) \/ WriteIdentifier(i) \/ WriteIdentifierFail(i)
             \/ ServeShimFail(i) \/ ShimTimeout(i)
             \/ CleanupLock(i) \/ CleanupLockFail(i)
      PROVE  Reported'
  <2>1. \E s \in States : Become(i, Goto(mon[i], s)) \/ Become(i, Goto(perror(mon[i]), s))
    BY <1>1, StateNames DEF StartFail, CommitLock, CommitLockFail, SaveEncode,
       WriteIdentifier, WriteIdentifierFail, ServeShimFail, ShimTimeout,
       CleanupLock, CleanupLockFail
  <2> QED
    BY <1>0, <2>1, GotoHonest, ReportedStep
<1>2. ASSUME NEW i \in Inst, DestroyEntry(i) \/ DestroyEntryFail(i)
      PROVE  Reported'
  <2>1. \E s \in States : Become(i, Goto(mon[i], s)) \/ Become(i, Goto(perror(mon[i]), s))
    BY <1>2, StateNames DEF DestroyEntry, DestroyEntryFail, AfterDestroy, perrorIf
  <2> QED
    BY <1>0, <2>1, GotoHonest, ReportedStep
<1>3. ASSUME NEW i \in Inst,
             \/ Start(i) \/ SaveOpen(i) \/ Apply(i) \/ ApplyFail(i)
             \/ CommitDone(i) \/ ServeShim(i) \/ ReadEntries(i)
             \/ BeginRevert(i) \/ RevertOp(i) \/ RevertDone(i) \/ Cancel(i)
             \/ \E j \in Inst : LoadEntry(i, j)
      PROVE  Reported'
  <2>1. ASSUME NEW m, Become(i, m), m.failed = mon[i].failed, m.exitCode = mon[i].exitCode
        PROVE  Reported'
    BY <1>0, <2>1, ReportedStep DEF Honest
  <2>2. CASE Start(i) \/ SaveOpen(i) \/ Apply(i) \/ ApplyFail(i)
    BY <1>0, <2>1, <2>2 DEF Start, SaveOpen, Apply, ApplyFail, Monitor
  <2>3. CASE CommitDone(i) \/ ServeShim(i) \/ ReadEntries(i) \/ BeginRevert(i)
    BY <1>0, <2>1, <2>3 DEF CommitDone, ServeShim, ReadEntries, BeginRevert, Monitor
  <2>4. CASE RevertOp(i) \/ RevertDone(i) \/ Cancel(i) \/ \E j \in Inst : LoadEntry(i, j)
    BY <1>0, <2>1, <2>4 DEF RevertOp, RevertDone, Cancel, LoadEntry, Monitor
  <2> QED
    BY <1>3, <2>2, <2>3, <2>4
<1>4. ASSUME NEW i \in Inst, SaveFail(i) \/ CommitError(i) PROVE Reported'
  <2> DEFINE n == Goto(perror(mon[i]), "Lifecycle")
  <2>1. n \in Monitor /\ Honest(n)
    BY <1>0, GotoHonest, StateNames
  <2>2. ASSUME NEW m, Become(i, m), m.failed = n.failed, m.exitCode = n.exitCode
        PROVE  Reported'
    BY <2>1, <2>2, ReportedStep DEF Honest
  <2> HIDE DEF n
  <2> QED
    BY <1>4, <2>1, <2>2 DEF SaveFail, CommitError, Monitor, n
<1>5. ASSUME NEW i \in Inst, ReadEntriesFail(i) \/ \E j \in Inst : LoadEntryFail(i, j)
      PROVE  Reported'
  <2> DEFINE n == perror(mon[i])
  <2>1. ASSUME NEW m, Become(i, m), m.failed = n.failed, m.exitCode = n.exitCode
        PROVE  Reported'
    BY <1>0, <2>1, ReportedStep DEF Honest
  <2> QED
    BY <1>0, <1>5, <2>1 DEF ReadEntriesFail, LoadEntryFail, Monitor
<1>6. ASSUME NEW i \in Inst, RevertOpFail(i) PROVE Reported'
  <2> DEFINE n == [mon[i] EXCEPT !.k = @ - 1]
  <2>1. n \in Monitor /\ Honest(n)
    <3>1. mon[i].k - 1 \in Nat
      BY <1>6, MonitorTyped, PlanLen DEF RevertOpFail
    <3> QED
      BY <1>0, <3>1 DEF Monitor, Honest
  <2>2. Honest(perror(n))
    BY <2>1, PerrorHonest
  <2> HIDE DEF n
  <2>3. Become(i, n) \/ Become(i, perror(n))
    BY <1>6 DEF RevertOpFail, perrorIf, n
  <2> QED
    BY <2>1, <2>2, <2>3, ReportedStep
<1>7. ASSUME NEW i \in Inst, ShimWait(i) PROVE Reported'
  <2> DEFINE m == [mon[i] EXCEPT !.pc = "Cleanup", !.done = TRUE,
                                 !.exitCode = IF shim[i] = "failed"
                                              THEN ShimFailure ELSE @]
  <2>1. Honest(m)
    <3>1. m.failed = mon[i].failed
      BY <1>0 DEF Monitor
    <3>2. m.exitCode = 2 \/ m.exitCode = mon[i].exitCode
      BY <1>0 DEF Monitor, ShimFailure
    <3>3. 2 # 0
      OBVIOUS
    <3> HIDE DEF m
    <3> QED
      BY <1>0, <3>1, <3>2, <3>3 DEF Honest
  <2>2. Become(i, m)
    BY <1>7 DEF ShimWait
  <2> QED
    BY <2>1, <2>2, ReportedStep
<1>8. ASSUME NEW i \in Inst, Kill(i) PROVE Reported'
  <2>1. NewMonitor \in Monitor /\ Honest(NewMonitor)
    BY NewMonitorType DEF NewMonitor, Honest
  <2> QED
    BY <1>8, <2>1, GotoHonest, ReportedStep, StateNames DEF Kill
<1>9. ASSUME NEW i \in Inst, ShimExit(i) PROVE Reported'
  BY <1>9 DEF ShimExit, Reported
<1>10. CASE UNCHANGED vars
  BY <1>10 DEF vars, Reported
<1> QED
  BY <1>1, <1>2, <1>3, <1>4, <1>5, <1>6, <1>7, <1>8, <1>9, <1>10
     DEF Next, MonitorStep, AllEnded

\* No monitor in which a call failed exits with status zero, whatever fails,
\* whenever it is cancelled and however its shim ends.
THEOREM FailureAlwaysReported == Spec => []FailureReported
<1>1. Init => Reported
  BY DEF Init, Reported, Honest, NewMonitor
<1>2. Typed /\ Reported /\ [Next]_vars => Reported'
  BY ReportedNext
<1>3. Reported => FailureReported
  BY DEF Reported, Honest, FailureReported
<1> QED
  BY <1>1, <1>2, <1>3, TypedInit, TypedNext, PTL DEF Spec

-----------------------------------------------------------------------------
(***************************************************************************)
(* Process-scoped resources are gone when their monitor has ended, whether *)
(* its commit succeeded or was rolled back, with or without the lock.      *)
(***************************************************************************)

\* What is left of a commit is what k still counts: no exit passes over it,
\* and every revert includes the process scope.
Settled(m) ==
    /\ m.pc \in {"Start", "Commit", "Save", "Encode", "Ident", "Final"} => m.k = 0
    /\ m.pc \in {"Lifecycle", "Cleanup", "Destroy"} => m.isBeforeRevert = TRUE \/ m.k = 0
    /\ m.pc = "Serve" => m.isBeforeRevert = TRUE
    /\ m.pc \in {"Rollback", "Revert"} => Process \in m.ec

AllSettled == \A i \in Inst : Settled(mon[i])

\* A process-scoped resource on the host is one its monitor still counts, or
\* one that SIGKILL left behind.
ScopeHeld ==
    \A i \in Inst : \A n \in 1 .. Len(Plan[i]) :
        Plan[i][n].et = Process /\ Plan[i][n].res \in host /\ mon[i].pc # "Killed"
            => n <= mon[i].k

ScopeInv == AllSettled /\ ScopeHeld

\* A process-scoped resource belongs to a single op of a single instance.
LEMMA ScopeExclusive ==
    ASSUME NEW i \in Inst, NEW n \in 1 .. Len(Plan[i]), Plan[i][n].et = Process,
           NEW j \in Inst, NEW l \in 1 .. Len(Plan[j]),
           Plan[j][l].res = Plan[i][n].res
    PROVE  j = i /\ l = n
<1>1. n \in DOMAIN Plan[i] /\ Plan[i][n] \in OpsOf(i)
  BY PlanIndex
<1>2. l \in DOMAIN Plan[j] /\ Plan[j][l] \in OpsOf(j)
  BY PlanIndex
<1>3. j = i
  BY <1>1, <1>2, PlanAssumption
<1> QED
  BY <1>1, <1>2, <1>3, OrderAssumption

\* A directory of the process scope is empty when Revert comes to it.
LEMMA ScopeNotBusy ==
    ASSUME Typed, ScopeHeld, NEW i \in Inst, mon[i].k > 0,
           mon[i].pc \in {"Rollback", "Revert"}, LastOp(i).et = Process
    PROVE  ~Busy(LastOp(i), host, AllOps)
<1>1. mon[i].k \in 1 .. Len(Plan[i])
  BY LastOpKnown
<1>2. SUFFICES ASSUME NEW o \in AllOps, o.res \in host, LastOp(i).res \in o.within
               PROVE  FALSE
  BY DEF Busy
<1>3. PICK j \in Inst : o \in OpsOf(j)
  BY DEF AllOps
<1>4. PICK n \in DOMAIN Plan[j] : o = Plan[j][n]
  BY <1>3 DEF OpsOf
<1>5. n \in 1 .. Len(Plan[j])
  BY PlanLen
<1>6. o.et = Process
  BY <1>2, <1>4, OrderAssumption
<1>7. PICK l \in 1 .. n - 1 : Plan[j][l].res = LastOp(i).res
  BY <1>2, <1>4, OrderAssumption
<1>8. l \in 1 .. Len(Plan[j])
  BY <1>5, PlanLen
<1>9. j = i /\ l = mon[i].k
  BY <1>1, <1>7, <1>8, ScopeExclusive DEF LastOp
<1>10. n <= mon[i].k
  BY <1>2, <1>4, <1>5, <1>6, <1>9 DEF ScopeHeld
<1> QED
  BY <1>5, <1>7, <1>9, <1>10

\* A step of i that adds nothing to the host and lowers no index.
LEMMA ScopeStep ==
    ASSUME ScopeInv, NEW i \in Inst, host' \subseteq host,
           \A j \in Inst \ {i} : mon'[j] = mon[j],
           Settled(mon'[i]),
           mon'[i].pc = "Killed" \/ (mon'[i].k = mon[i].k /\ mon[i].pc # "Killed")
    PROVE  ScopeInv'
<1>1. AllSettled'
  BY DEF ScopeInv, AllSettled
<1>2. ASSUME NEW j \in Inst, NEW n \in 1 .. Len(Plan[j]), Plan[j][n].et = Process,
             Plan[j][n].res \in host', mon'[j].pc # "Killed"
      PROVE  n <= mon'[j].k
  BY <1>2 DEF ScopeInv, ScopeHeld
<1> QED
  BY <1>1, <1>2 DEF ScopeInv, ScopeHeld

\* Every step keeps the process scope, unless an apply leaves its resource
\* behind when it fails, or a revert fails.
LEMMA ScopeNext ==
    ASSUME Faults \cap {"partial", "revert"} = {}, Typed, ScopeInv, [Next]_vars
    PROVE  ScopeInv'
<1>0. \A i \in Inst : Settled(mon[i])
  BY DEF ScopeInv, AllSettled
<1>1. ASSUME NEW i \in Inst, Start(i) PROVE ScopeInv'
  BY <1>0, <1>1, StartEffect, ScopeStep DEF Start, At, Effect, Settled
<1>2. ASSUME NEW i \in Inst, StartFail(i) PROVE ScopeInv'
  BY <1>0, <1>2, StartFailEffect, ScopeStep DEF StartFail, At, Effect, Settled
<1>3. ASSUME NEW i \in Inst, CommitLock(i) PROVE ScopeInv'
  BY <1>0, <1>3, CommitLockEffect, ScopeStep DEF CommitLock, At, Effect, Settled
<1>4. ASSUME NEW i \in Inst, CommitLockFail(i) PROVE ScopeInv'
  BY <1>0, <1>4, CommitLockFailEffect, ScopeStep, ZenonT(30) DEF CommitLockFail, At, Effect, Settled
<1>5. ASSUME NEW i \in Inst, SaveOpen(i) PROVE ScopeInv'
  BY <1>0, <1>5, SaveOpenEffect, ScopeStep DEF SaveOpen, At, Effect, Settled
<1>6. ASSUME NEW i \in Inst, SaveEncode(i) PROVE ScopeInv'
  BY <1>0, <1>6, SaveEncodeEffect, ScopeStep DEF SaveEncode, At, Effect, Settled
<1>7. ASSUME NEW i \in Inst, SaveFail(i) PROVE ScopeInv'
  BY <1>0, <1>7, SaveFailEffect, ScopeStep, ZenonT(30) DEF SaveFail, At, Effect, Settled
<1>8. ASSUME NEW i \in Inst, WriteIdentifier(i) PROVE ScopeInv'
  BY <1>0, <1>8, WriteIdentifierEffect, ScopeStep DEF WriteIdentifier, At, Effect, Settled
<1>9. ASSUME NEW i \in Inst, WriteIdentifierFail(i) PROVE ScopeInv'
  BY <1>0, <1>9, WriteIdentifierFailEffect, ScopeStep DEF WriteIdentifierFail, At, Effect, Settled
<1>10. ASSUME NEW i \in Inst, CommitDone(i) PROVE ScopeInv'
  BY <1>0, <1>10, CommitDoneEffect, ScopeStep DEF CommitDone, At, Effect, Settled
<1>11. ASSUME NEW i \in Inst, CommitError(i) PROVE ScopeInv'
  BY <1>0, <1>11, CommitErrorEffect, ScopeStep DEF CommitError, At, Effect, Settled
<1>12. ASSUME NEW i \in Inst, ServeShim(i) PROVE ScopeInv'
  BY <1>0, <1>12, ServeShimEffect, ScopeStep DEF ServeShim, At, Effect, Settled
<1>13. ASSUME NEW i \in Inst, ServeShimFail(i) PROVE ScopeInv'
  BY <1>0, <1>13, ServeShimFailEffect, ScopeStep DEF ServeShimFail, At, Effect, Settled
<1>14. ASSUME NEW i \in Inst, ShimWait(i) PROVE ScopeInv'
  BY <1>0, <1>14, ShimWaitEffect, ScopeStep DEF ShimWait, At, Effect, Settled
<1>15. ASSUME NEW i \in Inst, ShimTimeout(i) PROVE ScopeInv'
  BY <1>0, <1>15, ShimTimeoutEffect, ScopeStep, ZenonT(30) DEF ShimTimeout, At, Effect, Settled
<1>16. ASSUME NEW i \in Inst, CleanupLock(i) PROVE ScopeInv'
  BY <1>0, <1>16, CleanupLockEffect, ScopeStep DEF CleanupLock, At, Effect, Settled
<1>17. ASSUME NEW i \in Inst, CleanupLockFail(i) PROVE ScopeInv'
  BY <1>0, <1>17, CleanupLockFailEffect, ScopeStep DEF CleanupLockFail, At, Effect, Settled
<1>18. ASSUME NEW i \in Inst, ReadEntries(i) PROVE ScopeInv'
  BY <1>0, <1>18, ReadEntriesEffect, ScopeStep DEF ReadEntries, At, Effect, Settled
<1>19. ASSUME NEW i \in Inst, ReadEntriesFail(i) PROVE ScopeInv'
  BY <1>0, <1>19, ReadEntriesFailEffect, ScopeStep DEF ReadEntriesFail, At, Effect, Settled
<1>20. ASSUME NEW i \in Inst, BeginRevert(i) PROVE ScopeInv'
  BY <1>0, <1>20, BeginRevertEffect, ScopeStep DEF BeginRevert, At, Effect, Settled, CleanupCriteria
<1>21. ASSUME NEW i \in Inst, RevertDone(i) PROVE ScopeInv'
  BY <1>0, <1>21, RevertDoneEffect, ScopeStep DEF RevertDone, At, Effect, Settled
<1>22. ASSUME NEW i \in Inst, Kill(i) PROVE ScopeInv'
  BY <1>0, <1>22, KillEffect, ScopeStep DEF Kill, At, Effect, Settled
<1>23. ASSUME NEW i \in Inst, DestroyEntry(i) PROVE ScopeInv'
  BY <1>0, <1>23, DestroyEffect, ScopeStep DEF DestroyEntry, At, Effect, Settled
<1>24. ASSUME NEW i \in Inst, DestroyEntryFail(i) PROVE ScopeInv'
  BY <1>0, <1>24, DestroyEffect, ScopeStep DEF DestroyEntryFail, At, Effect, Settled
<1>25. ASSUME NEW i \in Inst, Cancel(i) PROVE ScopeInv'
  BY <1>0, <1>25, CancelEffect, ScopeStep, ZenonT(30) DEF Cancel, At, Effect, Settled, SameScope, Ended
<1>26. ASSUME NEW i \in Inst, NEW l \in Inst, LoadEntry(i, l) PROVE ScopeInv'
  BY <1>0, <1>26, LoadEntryEffect, ScopeStep, ZenonT(30) DEF LoadEntry, At, Effect, Settled
<1>27. ASSUME NEW i \in Inst, NEW l \in Inst, LoadEntryFail(i, l) PROVE ScopeInv'
  BY <1>0, <1>27, LoadEntryFailEffect, ScopeStep DEF LoadEntryFail, At, Effect, Settled
<1>28. ASSUME NEW i \in Inst, Apply(i) PROVE ScopeInv'
  <2>1. /\ mon'[i].pc = "Apply" /\ mon'[i].k = mon[i].k + 1
        /\ \A j \in Inst \ {i} : mon'[j] = mon[j]
    BY <1>28, ApplyEffect DEF Effect
  <2>2. AllSettled'
    BY <1>0, <2>1 DEF AllSettled, Settled
  <2>3. /\ mon[i].k + 1 \in 1 .. Len(Plan[i]) /\ mon[i].pc = "Apply"
        /\ mon[i].k \in Nat
        /\ host' = host \cup {Plan[i][mon[i].k + 1].res}
    BY <1>28, NextOpKnown, MonitorTyped, PlanLen DEF Apply, At, NextOp
  <2>4. ASSUME NEW j \in Inst, NEW n \in 1 .. Len(Plan[j]), Plan[j][n].et = Process,
               Plan[j][n].res \in host', mon'[j].pc # "Killed"
        PROVE  n <= mon'[j].k
    <3>1. CASE Plan[j][n].res \in host
      BY <2>1, <2>3, <2>4, <3>1, PlanLen DEF ScopeInv, ScopeHeld
    <3>2. CASE Plan[j][n].res = Plan[i][mon[i].k + 1].res
      <4>1. i = j /\ mon[i].k + 1 = n
        BY <2>3, <2>4, <3>2, ScopeExclusive
      <4> QED
        BY <2>1, <2>3, <4>1
    <3> QED
      BY <2>3, <2>4, <3>1, <3>2
  <2> QED
    BY <2>2, <2>4 DEF ScopeInv, ScopeHeld
<1>29. ASSUME NEW i \in Inst, ApplyFail(i) PROVE ScopeInv'
  <2>1. mon'[i].ec = NilCriteria
    BY <1>29, MonitorTyped, Z3 DEF ApplyFail, Become, Typed, TypeOK, Monitor
  <2>2. host' = host /\ mon[i].pc = "Apply"
    BY <1>29 DEF ApplyFail, At, may
  <2>3. Process \in NilCriteria
    BY DEF NilCriteria, Types, Process, User
  <2> QED
    BY <1>29, <2>1, <2>2, <2>3, ApplyFailEffect, ScopeStep DEF Effect, Settled
<1>30. ASSUME NEW i \in Inst, RevertOp(i) \/ RevertOpFail(i) PROVE ScopeInv'
  <2>1. /\ mon'[i].pc = mon[i].pc /\ mon'[i].k = mon[i].k - 1
        /\ mon'[i].ec = mon[i].ec
        /\ \A j \in Inst \ {i} : mon'[j] = mon[j]
    BY <1>30, RevertOpEffect, RevertOpFailEffect DEF Effect, SameScope
  <2>2. /\ mon[i].pc \in {"Rollback", "Revert"} /\ mon[i].k > 0
        /\ Process \in mon[i].ec
        /\ mon[i].k \in 1 .. Len(Plan[i])
    BY <1>0, <1>30, LastOpKnown DEF RevertOp, RevertOpFail, Settled
  <2>3. AllSettled'
    BY <1>0, <2>1, <2>2 DEF AllSettled, Settled
  <2>4. host' \subseteq host
    BY <1>30 DEF RevertOp, RevertOpFail
  <2>5. ASSUME Plan[i][mon[i].k].et = Process
        PROVE  Plan[i][mon[i].k].res \notin host'
    <3>1. ~Busy(LastOp(i), host, AllOps)
      BY <2>2, <2>5, ScopeNotBusy DEF ScopeInv, LastOp
    <3>2. RevertOp(i)
      BY <1>30, <3>1 DEF RevertOpFail, may
    <3>3. Reverts(LastOp(i), mon[i].ec)
      BY <2>2, <2>5, OrderAssumption, PlanIndex DEF Reverts, hasType, LastOp
    <3> QED
      BY <3>2, <3>3 DEF RevertOp, LastOp
  <2>6. ASSUME NEW j \in Inst, NEW n \in 1 .. Len(Plan[j]), Plan[j][n].et = Process,
               Plan[j][n].res \in host', mon'[j].pc # "Killed"
        PROVE  n <= mon'[j].k
    <3>1. CASE j = i
      <4>1. n <= mon[i].k
        BY <2>1, <2>4, <2>6, <3>1 DEF ScopeInv, ScopeHeld
      <4>2. n # mon[i].k
        BY <2>5, <2>6, <3>1
      <4> QED
        BY <2>1, <2>2, <3>1, <4>1, <4>2, PlanLen
    <3>2. CASE j # i
      BY <2>1, <2>4, <2>6, <3>2 DEF ScopeInv, ScopeHeld
    <3> QED
      BY <3>1, <3>2
  <2> QED
    BY <2>3, <2>6 DEF ScopeInv, ScopeHeld
<1>31. ASSUME NEW i \in Inst, ShimExit(i) PROVE ScopeInv'
  BY <1>31 DEF ShimExit, ScopeInv, AllSettled, Settled, ScopeHeld
<1>32. CASE UNCHANGED vars
  BY <1>32 DEF vars, ScopeInv, AllSettled, Settled, ScopeHeld
<1> QED
  BY <1>1, <1>2, <1>3, <1>4, <1>5, <1>6, <1>7, <1>8, <1>9, <1>10, <1>11,
     <1>12, <1>13, <1>14, <1>15, <1>16, <1>17, <1>18, <1>19, <1>20, <1>21,
     <1>22, <1>23, <1>24, <1>25, <1>26, <1>27, <1>28, <1>29, <1>30, <1>31,
     <1>32
     DEF Next, MonitorStep, AllEnded

\* A monitor that reached processFinal leaves none of its process-scoped
\* resources on the host: not when its commit was rolled back, not when the
\* segment could not be locked or read, not next to monitors that were killed.
\* Only a failing revert, or an apply that fails halfway, leaves one; neither is
\* assumed to happen here.
THEOREM ProcessAlwaysReverted ==
    ASSUME Faults \cap {"partial", "revert"} = {}
    PROVE  Spec => []ProcessReverted
<1>1. Init => ScopeInv
  BY DEF Init, ScopeInv, AllSettled, Settled, ScopeHeld, NewMonitor
<1>2. Typed /\ ScopeInv /\ [Next]_vars => ScopeInv'
  BY ScopeNext
<1>3. Typed /\ ScopeInv => ProcessReverted
  <2> SUFFICES ASSUME Typed, ScopeInv, NEW i \in Inst, mon[i].pc = "Final",
                      NEW op \in OpsOf(i), op.et = Process, op.res \in host
               PROVE  FALSE
    BY DEF ProcessReverted
  <2>1. PICK n \in DOMAIN Plan[i] : op = Plan[i][n]
    BY DEF OpsOf
  <2>2. n \in 1 .. Len(Plan[i])
    BY PlanLen
  <2>3. n <= mon[i].k /\ mon[i].k = 0
    BY <2>1, <2>2 DEF ScopeInv, ScopeHeld, AllSettled, Settled
  <2> QED
    BY <2>2, <2>3
<1> QED
  BY <1>1, <1>2, <1>3, TypedInit, TypedNext, PTL DEF Spec

-----------------------------------------------------------------------------
(***************************************************************************)
(* The last instance takes everything with it.                             *)
(***************************************************************************)

\* Starting or serving the shim may fail, and a user may interrupt what does
\* not depend on ctx; the segment itself does not fail, and whoever remains
\* holds what is left to it.
Orderly ==
    /\ Faults \subseteq {"start", "serve", "interrupt"}
    /\ may("interrupt") => \A op \in AllOps : op.kind # "dbus"
    /\ Alike(Plan, Enabl)

\* What a monitor and its entry are like in each state: the entry exists from
\* Save to Destroy and its handle is set, a monitor past its commit has applied
\* all of its plan, and what it counts is others whose entries are saved.
Regular(i) ==
    /\ mon[i].pc \notin {"Rollback", "Killed"}
    /\ mon[i].pc \in {"Start", "Commit", "Save", "Final", "Entries", "Load", "Revert"}
          => entry[i] = "absent"
    /\ mon[i].pc \in {"Encode", "Ident", "Apply", "Serve", "Lifecycle", "Cleanup", "Destroy"}
          => mon[i].entryHandle = TRUE
    /\ mon[i].pc \in {"Serve", "Lifecycle", "Cleanup", "Destroy", "Entries", "Load"}
          => mon[i].isBeforeRevert = TRUE /\ mon[i].k = Len(Plan[i])
    /\ mon[i].pc \notin {"Load", "Revert"} => mon[i].alive = {}
    /\ mon[i].pc = "Load" => i \notin mon[i].pending
    /\ mon[i].pc = "Revert" => mon[i].ec = CleanupCriteria(mon[i])

\* The instances a monitor has counted are others, and still registered.
CountedSaved ==
    \A i \in Inst : mon[i].pc \in {"Load", "Revert"} =>
        \A j \in mon[i].alive : j # i /\ entry[j] = "saved"

\* Whatever is on the host is something an instance still has to revert.
Owned ==
    \A i \in Inst : \A n \in 1 .. Len(Plan[i]) :
        Reversible(Plan[i][n]) /\ Plan[i][n].res \in host =>
            \E j \in Inst : \E l \in 1 .. mon[j].k : Plan[j][l].res = Plan[i][n].res

ExitInv == CountedSaved /\ Owned /\ \A i \in Inst : Regular(i)

\* A step that moves on leaves the count and the entry handle alone.
LEMMA KeepsCount ==
    ASSUME Typed, NEW i \in Inst,
           \/ Start(i) \/ StartFail(i) \/ CommitLock(i) \/ SaveEncode(i)
           \/ WriteIdentifier(i) \/ Apply(i) \/ CommitDone(i) \/ ServeShim(i)
           \/ ServeShimFail(i) \/ ShimWait(i) \/ ShimTimeout(i)
           \/ CleanupLock(i) \/ DestroyEntry(i) \/ ReadEntries(i)
           \/ BeginRevert(i) \/ RevertOp(i) \/ Cancel(i)
    PROVE  mon'[i].alive = mon[i].alive /\ mon'[i].entryHandle = mon[i].entryHandle
<1>0. /\ mon[i] \in Monitor /\ perror(mon[i]) \in Monitor
      /\ perror(mon[i]).alive = mon[i].alive
      /\ perror(mon[i]).entryHandle = mon[i].entryHandle
  BY MonitorTyped, PerrorType
<1>1. ASSUME NEW m, Become(i, m) PROVE mon'[i] = m
  BY <1>1 DEF Become, Typed, TypeOK
<1>2. ASSUME NEW t \in States,
             Become(i, Goto(mon[i], t)) \/ Become(i, Goto(perror(mon[i]), t))
      PROVE  mon'[i].alive = mon[i].alive /\ mon'[i].entryHandle = mon[i].entryHandle
  BY <1>0, <1>1, <1>2, GotoType
<1>3. CASE \/ StartFail(i) \/ CommitLock(i) \/ SaveEncode(i) \/ WriteIdentifier(i)
           \/ ServeShimFail(i) \/ ShimTimeout(i) \/ CleanupLock(i)
  BY <1>2, <1>3, StateNames DEF StartFail, CommitLock, SaveEncode,
     WriteIdentifier, ServeShimFail, ShimTimeout, CleanupLock
<1>4. CASE DestroyEntry(i)
  BY <1>2, <1>4, StateNames DEF DestroyEntry, AfterDestroy, perrorIf
<1>5. CASE Start(i) \/ Apply(i) \/ CommitDone(i) \/ ServeShim(i)
  BY <1>0, <1>1, <1>5 DEF Start, Apply, CommitDone, ServeShim, Monitor
<1>6. CASE ReadEntries(i) \/ BeginRevert(i) \/ RevertOp(i) \/ Cancel(i)
  BY <1>0, <1>1, <1>6 DEF ReadEntries, BeginRevert, RevertOp, Cancel, Monitor
<1>7. CASE ShimWait(i)
  BY <1>0, <1>1, <1>7 DEF ShimWait, Monitor
<1> QED
  BY <1>3, <1>4, <1>5, <1>6, <1>7

\* No other step is possible.
LEMMA OrderlyNext ==
    ASSUME Orderly, Typed, DoneInterrupted, ScopeInv, NEW i \in Inst
    PROVE  /\ ~CommitLockFail(i) /\ ~SaveFail(i) /\ ~WriteIdentifierFail(i)
           /\ ~ApplyFail(i) /\ ~CleanupLockFail(i) /\ ~DestroyEntryFail(i)
           /\ ~ReadEntriesFail(i) /\ ~RevertOpFail(i) /\ ~Kill(i)
<1>1. Benign
  BY DEF Orderly, Benign
<1>2. ASSUME RevertOpFail(i) PROVE FALSE
  <2>1. /\ mon[i].k > 0 /\ mon[i].pc \in {"Rollback", "Revert"}
        /\ Busy(LastOp(i), host, AllOps)
    BY <1>2 DEF RevertOpFail, Orderly, may
  <2>2. mon[i].k \in DOMAIN Plan[i]
    BY <2>1, LastOpKnown, PlanLen
  <2>3. Plan \in [Inst -> Seq(Op)]
    BY ConstantsAssumption
  <2>4. LastOp(i).et = Process
    BY <2>1, <2>2, <2>3 DEF Busy, LastOp, Orderly, Alike
  <2> QED
    BY <2>1, <2>4, ScopeNotBusy DEF ScopeInv
<1> QED
  BY <1>1, <1>2, ApplySucceeds DEF Orderly, may, CommitLockFail, SaveFail,
     WriteIdentifierFail, CleanupLockFail, DestroyEntryFail, ReadEntriesFail, Kill

\* A step of i that changes no entry others count, and whose host holds no more
\* than before, or than i has added.
LEMMA ExitStep ==
    ASSUME ExitInv, NEW i \in Inst,
           \A j \in Inst \ {i} : mon'[j] = mon[j] /\ entry'[j] = entry[j],
           entry'[i] # entry[i] =>
               \A j \in Inst \ {i} : mon[j].pc \notin {"Load", "Revert"},
           Regular(i)',
           mon'[i].pc \in {"Load", "Revert"} =>
               \A j \in mon'[i].alive : j # i /\ entry[j] = "saved",
           mon'[i].alive \subseteq Inst, Typed, Owned'
    PROVE  ExitInv'
<1>1. \A j \in Inst : Regular(j)'
  BY DEF ExitInv, Regular, CleanupCriteria, RemainingEnablements
<1>2. CountedSaved'
  <2> SUFFICES ASSUME NEW j \in Inst, mon'[j].pc \in {"Load", "Revert"},
                      NEW l \in mon'[j].alive
               PROVE  l # j /\ entry'[l] = "saved"
    BY DEF CountedSaved
  <2>1. l # j /\ entry[l] = "saved"
    BY DEF ExitInv, CountedSaved
  <2>2. l \in Inst
    BY MonitorTyped DEF Monitor
  <2> QED
    BY <2>1, <2>2
<1> QED
  BY <1>1, <1>2 DEF ExitInv

\* A host that has not grown and indices that have not been lowered.
LEMMA OwnedStep ==
    ASSUME Typed, Owned, host' \subseteq host, \A j \in Inst : mon'[j].k = mon[j].k
    PROVE  Owned'
BY DEF Owned

\* A step of i that changes nothing but its own record, and not its index.
LEMMA ExitPlain ==
    ASSUME ExitInv, Typed, Typed', NEW i \in Inst, UNCHANGED << entry, host >>,
           \A j \in Inst \ {i} : mon'[j] = mon[j],
           mon'[i].k = mon[i].k, Regular(i)',
           mon'[i].pc \in {"Load", "Revert"} =>
               \A j \in mon'[i].alive : j # i /\ entry[j] = "saved"
    PROVE  ExitInv'
<1>1. Owned'
  BY OwnedStep DEF ExitInv
<1>2. mon'[i].alive \subseteq Inst
  BY DEF Typed, TypeOK, Monitor
<1> QED
  BY <1>1, <1>2, ExitStep

\* Whatever Revert passes over is held by an instance that remains.
LEMMA RevertOwned ==
    ASSUME Orderly, Typed, SegmentLocked, ScopeInv, ExitInv, NEW i \in Inst,
           RevertOp(i)
    PROVE  Owned'
<1>1. /\ mon[i].pc = "Revert" /\ mon[i].k \in 1 .. Len(Plan[i])
      /\ mon[i].ec = CleanupCriteria(mon[i])
      /\ lock = i
  BY LastOpKnown DEF RevertOp, ExitInv, Regular, SegmentLocked, InSegment, CleaningUp
<1>2. /\ mon'[i].k = mon[i].k - 1
      /\ \A j \in Inst \ {i} : mon'[j] = mon[j]
  BY RevertOpEffect DEF Effect
<1>3. SUFFICES ASSUME NEW p \in Inst, NEW n \in 1 .. Len(Plan[p]),
                      Reversible(Plan[p][n]), Plan[p][n].res \in host'
               PROVE  \E j \in Inst : \E l \in 1 .. mon'[j].k :
                          Plan[j][l].res = Plan[p][n].res
  BY DEF Owned
<1>4. host' \subseteq host
  BY DEF RevertOp
<1>5. PICK j \in Inst : \E l \in 1 .. mon[j].k : Plan[j][l].res = Plan[p][n].res
  BY <1>3, <1>4 DEF ExitInv, Owned
<1>6. PICK l \in 1 .. mon[j].k : Plan[j][l].res = Plan[p][n].res
  BY <1>5
<1>7. CASE j # i \/ l # mon[i].k
  <2>1. l \in 1 .. mon'[j].k
    BY <1>1, <1>2, <1>7, MonitorTyped, PlanLen
  <2> QED
    BY <1>6, <2>1
<1>8. CASE j = i /\ l = mon[i].k
  <2>1. LastOp(i).res = Plan[p][n].res
    BY <1>6, <1>8 DEF LastOp
  <2>2. ~Reverts(LastOp(i), mon[i].ec)
    BY <1>3, <2>1 DEF RevertOp
  <2>3. n \in DOMAIN Plan[p] /\ mon[i].k \in DOMAIN Plan[i] /\ DOMAIN Plan = Inst
    BY <1>1, PlanLen, ConstantsAssumption
  <2>4. LastOp(i).kind = Plan[p][n].kind
    BY <2>1, <2>3 DEF LastOp, Orderly, Alike
  <2>5. LastOp(i).kind # "ensure"
    BY <1>3, <2>4 DEF Reversible
  <2>6. LastOp(i).et \notin mon[i].ec
    BY <2>2, <2>5 DEF Reverts, hasType
  <2>7. LastOp(i) \in Op
    BY <1>1, ConstantsAssumption, PlanLen DEF LastOp
  <2>8. LastOp(i).et \in Types
    BY <2>7 DEF Op
  <2>9. PICK q \in mon[i].alive : LastOp(i).et \in {User} \cup Enabl[q]
    BY <1>1, <2>6, <2>8 DEF CleanupCriteria, RemainingEnablements, Types
  <2>10. q \in Inst /\ q # i /\ entry[q] = "saved"
    BY <1>1, MonitorTyped DEF ExitInv, CountedSaved, Monitor
  <2>11. mon[q].pc \notin Committing \cup CleaningUp
    BY <1>1, <2>10 DEF SegmentLocked, InSegment
  <2>12. mon[q].k = Len(Plan[q]) /\ mon'[q] = mon[q]
    <3>1. mon[q].pc \in States
      BY <2>10, MonitorTyped DEF Monitor
    <3>2. mon[q].pc \in {"Serve", "Lifecycle", "Cleanup"}
      BY <2>10, <2>11, <3>1, StateNames DEF ExitInv, Regular, Committing, CleaningUp
    <3> QED
      BY <1>2, <2>10, <3>2 DEF ExitInv, Regular
  <2>13. PICK o \in DOMAIN Plan[q] : Plan[q][o] = LastOp(i)
    BY <2>3, <2>5, <2>9, <2>10 DEF LastOp, Orderly, Alike, Reversible
  <2>14. o \in 1 .. mon'[q].k
    BY <2>10, <2>12, <2>13, PlanLen
  <2> QED
    BY <2>1, <2>10, <2>13, <2>14
<1> QED
  BY <1>7, <1>8

\* Every step keeps it.
LEMMA ExitNext ==
    ASSUME Orderly, Typed, DoneInterrupted, SegmentLocked, ScopeInv, ExitInv,
           [Next]_vars
    PROVE  ExitInv'
<1>0. /\ \A i \in Inst : Regular(i)
      /\ \A i \in Inst : Settled(mon[i])
      /\ CountedSaved
  BY DEF ExitInv, ScopeInv, AllSettled
<1>a. ASSUME NEW i \in Inst, InSegment(i)
      PROVE  \A j \in Inst \ {i} : mon[j].pc \notin {"Load", "Revert"}
  BY <1>a DEF SegmentLocked, InSegment, CleaningUp
<1>1. ASSUME NEW i \in Inst, Start(i) PROVE ExitInv'
  <2>1. Regular(i)' /\ mon'[i].pc \notin {"Load", "Revert"}
    BY <1>0, <1>1, StartEffect, KeepsCount DEF Start, At, Effect, Regular
  <2> QED
    BY <1>1, <2>1, StartEffect, ExitPlain DEF Start, Effect
<1>2. ASSUME NEW i \in Inst, StartFail(i) PROVE ExitInv'
  <2>1. Regular(i)' /\ mon'[i].pc \notin {"Load", "Revert"}
    BY <1>0, <1>2, StartFailEffect, KeepsCount DEF StartFail, At, Effect, Regular, Settled
  <2> QED
    BY <1>2, <2>1, StartFailEffect, ExitPlain DEF StartFail, Effect
<1>3. ASSUME NEW i \in Inst, CommitLock(i) PROVE ExitInv'
  <2>1. Regular(i)' /\ mon'[i].pc \notin {"Load", "Revert"}
    BY <1>0, <1>3, CommitLockEffect, KeepsCount DEF CommitLock, At, Effect, Regular
  <2> QED
    BY <1>3, <2>1, CommitLockEffect, ExitPlain DEF CommitLock, Effect
<1>4. ASSUME NEW i \in Inst, WriteIdentifier(i) PROVE ExitInv'
  <2>1. Regular(i)' /\ mon'[i].pc \notin {"Load", "Revert"}
    BY <1>0, <1>4, WriteIdentifierEffect, KeepsCount DEF WriteIdentifier, At, Effect, Regular
  <2> QED
    BY <1>4, <2>1, WriteIdentifierEffect, ExitPlain DEF WriteIdentifier, Effect
<1>5. ASSUME NEW i \in Inst, CommitDone(i) PROVE ExitInv'
  <2>1. Regular(i)' /\ mon'[i].pc \notin {"Load", "Revert"}
    BY <1>0, <1>5, CommitDoneEffect, KeepsCount DEF CommitDone, At, Effect, Regular
  <2> QED
    BY <1>5, <2>1, CommitDoneEffect, ExitPlain DEF CommitDone, Effect
<1>6. ASSUME NEW i \in Inst, ServeShim(i) PROVE ExitInv'
  <2>1. Regular(i)' /\ mon'[i].pc \notin {"Load", "Revert"}
    BY <1>0, <1>6, ServeShimEffect, KeepsCount DEF ServeShim, At, Effect, Regular
  <2> QED
    BY <1>6, <2>1, ServeShimEffect, ExitPlain DEF ServeShim, Effect
<1>7. ASSUME NEW i \in Inst, ServeShimFail(i) PROVE ExitInv'
  <2>1. Regular(i)' /\ mon'[i].pc \notin {"Load", "Revert"}
    BY <1>0, <1>7, ServeShimFailEffect, KeepsCount DEF ServeShimFail, At, Effect, Regular
  <2> QED
    BY <1>7, <2>1, ServeShimFailEffect, ExitPlain DEF ServeShimFail, Effect
<1>8. ASSUME NEW i \in Inst, ShimWait(i) PROVE ExitInv'
  <2>1. Regular(i)' /\ mon'[i].pc \notin {"Load", "Revert"}
    BY <1>0, <1>8, ShimWaitEffect, KeepsCount DEF ShimWait, At, Effect, Regular
  <2> QED
    BY <1>8, <2>1, ShimWaitEffect, ExitPlain DEF ShimWait, Effect
<1>9. ASSUME NEW i \in Inst, ShimTimeout(i) PROVE ExitInv'
  <2>1. Regular(i)' /\ mon'[i].pc \notin {"Load", "Revert"}
    BY <1>0, <1>9, ShimTimeoutEffect, KeepsCount DEF ShimTimeout, At, Effect, Regular
  <2> QED
    BY <1>9, <2>1, ShimTimeoutEffect, ExitPlain DEF ShimTimeout, Effect
<1>10. ASSUME NEW i \in Inst, CleanupLock(i) PROVE ExitInv'
  <2>1. Regular(i)' /\ mon'[i].pc \notin {"Load", "Revert"}
    BY <1>0, <1>10, CleanupLockEffect, KeepsCount DEF CleanupLock, At, Effect, Regular
  <2> QED
    BY <1>10, <2>1, CleanupLockEffect, ExitPlain DEF CleanupLock, Effect
<1>11. ASSUME NEW i \in Inst, Cancel(i) PROVE ExitInv'
  <2>1. Regular(i)'
    BY <1>0, <1>11, CancelEffect, KeepsCount DEF Cancel, Effect, SameScope, Regular,
       CleanupCriteria, RemainingEnablements
  <2>2. mon'[i].pc = mon[i].pc /\ mon'[i].alive = mon[i].alive
    BY <1>11, CancelEffect, KeepsCount DEF Effect
  <2> QED
    BY <1>0, <1>11, <2>1, <2>2, CancelEffect, ExitPlain DEF Cancel, Effect, CountedSaved
<1>12. ASSUME NEW i \in Inst, ReadEntries(i) PROVE ExitInv'
  <2>1. mon[i].pc = "Entries" /\ entry[i] = "absent" /\ mon'[i].alive = {}
    BY <1>0, <1>12, KeepsCount DEF ReadEntries, At, Regular
  <2>2. Effect(i, "Load", mon[i].isBeforeRevert, mon[i].k)
    BY <1>12, ReadEntriesEffect
  <2>3. entry' = entry /\ i \notin mon'[i].pending
    BY <1>12, <2>1, ReadEntriesEffect DEF ReadEntries
  <2>4. Regular(i)'
    BY <1>0, <2>1, <2>2, <2>3 DEF Effect, Regular
  <2> QED
    BY <1>12, <2>1, <2>4, ReadEntriesEffect, ExitPlain DEF ReadEntries, Effect
<1>13. ASSUME NEW i \in Inst, NEW l \in Inst, LoadEntry(i, l) PROVE ExitInv'
  <2>1. Regular(i)' /\ l # i /\ entry[l] = "saved"
    BY <1>0, <1>13, LoadEntryEffect, ZenonT(30) DEF LoadEntry, At, Effect, Regular
  <2>2. \A j \in mon'[i].alive : j # i /\ entry[j] = "saved"
    <3>1. mon'[i].alive = mon[i].alive \cup {l} /\ mon[i].pc = "Load"
      BY <1>13, LoadEntryEffect DEF LoadEntry, At
    <3> QED
      BY <1>0, <2>1, <3>1 DEF CountedSaved
  <2> QED
    BY <1>13, <2>1, <2>2, LoadEntryEffect, ExitPlain DEF LoadEntry, Effect
<1>14. ASSUME NEW i \in Inst, NEW l \in Inst, LoadEntryFail(i, l) PROVE ExitInv'
  <2>1. Regular(i)'
    BY <1>0, <1>14, LoadEntryFailEffect DEF LoadEntryFail, At, Effect, Regular
  <2>2. \A j \in mon'[i].alive : j # i /\ entry[j] = "saved"
    BY <1>0, <1>14, LoadEntryFailEffect DEF LoadEntryFail, At, CountedSaved
  <2> QED
    BY <1>14, <2>1, <2>2, LoadEntryFailEffect, ExitPlain DEF LoadEntryFail, Effect
<1>15. ASSUME NEW i \in Inst, BeginRevert(i) PROVE ExitInv'
  <2>1. Regular(i)'
    BY <1>0, <1>15, BeginRevertEffect, KeepsCount DEF BeginRevert, At, Effect, Regular,
       CleanupCriteria, RemainingEnablements
  <2>2. \A j \in mon'[i].alive : j # i /\ entry[j] = "saved"
    BY <1>0, <1>15, KeepsCount DEF BeginRevert, At, CountedSaved
  <2> QED
    BY <1>15, <2>1, <2>2, BeginRevertEffect, ExitPlain DEF BeginRevert, Effect
<1>16. ASSUME NEW i \in Inst, RevertDone(i) PROVE ExitInv'
  <2>1. mon'[i].alive = {}
    BY <1>16, MonitorTyped DEF RevertDone, Become, Typed, TypeOK, Monitor
  <2>2. Regular(i)'
    BY <1>0, <1>16, <2>1, RevertDoneEffect DEF RevertDone, At, Effect, Regular
  <2> QED
    BY <1>16, <2>1, <2>2, RevertDoneEffect, ExitPlain DEF RevertDone, Effect
<1>17. ASSUME NEW i \in Inst, SaveOpen(i) PROVE ExitInv'
  <2>1. /\ mon'[i].alive = mon[i].alive /\ mon'[i].entryHandle = TRUE
        /\ mon[i].pc = "Save"
    BY <1>17, MonitorTyped DEF SaveOpen, At, Become, Typed, TypeOK, Monitor
  <2>2. /\ \A j \in Inst \ {i} : entry'[j] = entry[j]
        /\ host' = host
    BY <1>17, SharedIsTyped DEF SaveOpen, SharedTyped
  <2>3. Effect(i, "Encode", mon[i].isBeforeRevert, mon[i].k)
    BY <1>17, SaveOpenEffect
  <2>4. Owned'
    BY <2>2, <2>3, OwnedStep DEF ExitInv, Effect
  <2>5. Regular(i)'
    BY <1>0, <2>1, <2>3 DEF Regular, Effect
  <2>6. mon'[i].alive = {}
    BY <1>0, <2>1 DEF Regular
  <2> QED
    BY <1>0, <1>a, <2>1, <2>2, <2>3, <2>4, <2>5, <2>6, ExitStep DEF Effect,
       InSegment, Committing
<1>18. ASSUME NEW i \in Inst, SaveEncode(i) PROVE ExitInv'
  <2>1. /\ mon'[i].alive = mon[i].alive
        /\ mon'[i].entryHandle = mon[i].entryHandle
        /\ mon[i].pc = "Encode"
    BY <1>18, KeepsCount DEF SaveEncode, At
  <2>2. /\ \A j \in Inst \ {i} : entry'[j] = entry[j]
        /\ host' = host
    BY <1>18, SharedIsTyped DEF SaveEncode, SharedTyped
  <2>3. Effect(i, "Ident", mon[i].isBeforeRevert, mon[i].k)
    BY <1>18, SaveEncodeEffect
  <2>4. Owned'
    BY <2>2, <2>3, OwnedStep DEF ExitInv, Effect
  <2>5. Regular(i)'
    BY <1>0, <2>1, <2>3 DEF Regular, Effect
  <2>6. mon'[i].alive = {}
    BY <1>0, <2>1 DEF Regular
  <2> QED
    BY <1>0, <1>a, <2>1, <2>2, <2>3, <2>4, <2>5, <2>6, ExitStep DEF Effect,
       InSegment, Committing
<1>19. ASSUME NEW i \in Inst, DestroyEntry(i) PROVE ExitInv'
  <2>1. /\ mon'[i].alive = mon[i].alive /\ mon[i].pc = "Destroy"
        /\ mon[i].isBeforeRevert = TRUE /\ mon[i].alive = {}
        /\ mon[i].k = Len(Plan[i]) /\ mon[i].entryHandle = TRUE
    BY <1>0, <1>19, KeepsCount DEF DestroyEntry, At, Regular
  <2>2. /\ \A j \in Inst \ {i} : entry'[j] = entry[j]
        /\ entry'[i] = "absent" /\ host' = host
    BY <1>19, <2>1, SharedIsTyped DEF DestroyEntry, SharedTyped
  <2>3. Effect(i, "Entries", TRUE, mon[i].k)
    BY <1>19, <2>1, DestroyEffect DEF Effect
  <2>4. Owned'
    BY <2>2, <2>3, OwnedStep DEF ExitInv, Effect
  <2>5. Regular(i)'
    BY <2>1, <2>2, <2>3 DEF Regular, Effect
  <2> QED
    BY <1>0, <1>a, <2>1, <2>2, <2>3, <2>4, <2>5, ExitStep DEF Effect,
       InSegment, CleaningUp
<1>20. ASSUME NEW i \in Inst, Apply(i) PROVE ExitInv'
  <2>1. /\ mon'[i].alive = mon[i].alive
        /\ mon'[i].entryHandle = mon[i].entryHandle
        /\ mon[i].pc = "Apply" /\ entry' = entry
    BY <1>20, KeepsCount DEF Apply, At
  <2>2. Effect(i, "Apply", mon[i].isBeforeRevert, mon[i].k + 1)
    BY <1>20, ApplyEffect
  <2>3. /\ host' = host \cup {Plan[i][mon[i].k + 1].res}
        /\ mon[i].k + 1 \in 1 .. mon'[i].k
        /\ \A j \in Inst : mon[j].k \in Nat /\ mon'[j].k \in Nat /\ mon[j].k <= mon'[j].k
    BY <1>20, <2>2, MonitorTyped, PlanLen DEF Apply, NextOp, Effect
  <2>4. Owned'
    <3> SUFFICES ASSUME NEW p \in Inst, NEW n \in 1 .. Len(Plan[p]),
                        Reversible(Plan[p][n]), Plan[p][n].res \in host'
                 PROVE  \E j \in Inst : \E l \in 1 .. mon'[j].k :
                            Plan[j][l].res = Plan[p][n].res
      BY DEF Owned
    <3>1. CASE Plan[p][n].res \in host
      <4>1. PICK j \in Inst : \E l \in 1 .. mon[j].k : Plan[j][l].res = Plan[p][n].res
        BY <3>1 DEF ExitInv, Owned
      <4> QED
        BY <2>3, <4>1
    <3>2. CASE Plan[p][n].res = Plan[i][mon[i].k + 1].res
      BY <2>3, <3>2
    <3> QED
      BY <2>3, <3>1, <3>2
  <2>5. Regular(i)'
    BY <1>0, <2>1, <2>2 DEF Regular, Effect
  <2>6. mon'[i].alive = {}
    BY <1>0, <2>1 DEF Regular
  <2> QED
    BY <2>1, <2>2, <2>4, <2>5, <2>6, ExitStep DEF Effect
<1>21. ASSUME NEW i \in Inst, RevertOp(i) PROVE ExitInv'
  <2>1. /\ mon[i].pc = "Revert" /\ entry' = entry
        /\ Effect(i, "Revert", mon[i].isBeforeRevert, mon[i].k - 1)
        /\ SameScope(i)
    BY <1>0, <1>21, RevertOpEffect DEF RevertOp, Regular
  <2>2. Owned'
    BY <1>21, RevertOwned
  <2>3. Regular(i)'
    BY <1>0, <2>1 DEF Regular, Effect, SameScope, CleanupCriteria, RemainingEnablements
  <2>4. mon[i].alive \subseteq Inst
    BY MonitorTyped DEF Monitor
  <2> QED
    BY <1>0, <2>1, <2>2, <2>3, <2>4, ExitStep DEF Effect, SameScope, CountedSaved
<1>22. ASSUME NEW i \in Inst, ShimExit(i) PROVE ExitInv'
  BY <1>22 DEF ShimExit, ExitInv, CountedSaved, Owned, Regular, CleanupCriteria,
     RemainingEnablements
<1>23. CASE UNCHANGED vars
  BY <1>23 DEF vars, ExitInv, CountedSaved, Owned, Regular, CleanupCriteria,
     RemainingEnablements
<1>24. ASSUME NEW i \in Inst, CommitError(i) PROVE FALSE
  BY <1>0, <1>24 DEF CommitError, At, Regular
<1> QED
  BY <1>1, <1>2, <1>3, <1>4, <1>5, <1>6, <1>7, <1>8, <1>9, <1>10, <1>11,
     <1>12, <1>13, <1>14, <1>15, <1>16, <1>17, <1>18, <1>19, <1>20, <1>21,
     <1>22, <1>23, <1>24, OrderlyNext
     DEF Next, MonitorStep, AllEnded

\* When no monitor is between processStart and processFinal nothing reversible
\* is left on the host, however many instances came and went, in whatever
\* order they committed and cleaned up, and whichever of them was the last.
THEOREM AllRevertedAtFinalExit ==
    ASSUME Orderly PROVE Spec => []RevertedAtFinalExit
<1>1. Init => ExitInv /\ SegmentLocked /\ ScopeInv
  BY DEF Init, ExitInv, CountedSaved, Owned, Regular, NewMonitor, SegmentLocked,
     InSegment, Committing, CleaningUp, ScopeInv, AllSettled, Settled, ScopeHeld
<1>2. /\ "lock" \notin Faults
      /\ Faults \cap {"partial", "revert"} = {}
  BY DEF Orderly
<1>3. Typed /\ DoneInterrupted /\ SegmentLocked /\ ScopeInv /\ ExitInv /\ [Next]_vars
         => SegmentLocked' /\ ScopeInv' /\ ExitInv'
  BY <1>2, LockedNext, ScopeNext, ExitNext
<1>4. ScopeInv /\ ExitInv => RevertedAtFinalExit
  <2> SUFFICES ASSUME ScopeInv, ExitInv,
                      \A i \in Inst : mon[i].pc \in {"Start", "Final"},
                      NEW op \in AllOps, Reversible(op), op.res \in host
               PROVE  FALSE
    BY DEF RevertedAtFinalExit
  <2>1. PICK i \in Inst : op \in OpsOf(i)
    BY DEF AllOps
  <2>2. PICK n \in DOMAIN Plan[i] : op = Plan[i][n]
    BY <2>1 DEF OpsOf
  <2>3. \E j \in Inst : \E l \in 1 .. mon[j].k : TRUE
    BY <2>2, PlanLen DEF ExitInv, Owned
  <2>4. \A j \in Inst : mon[j].k = 0
    BY DEF ScopeInv, AllSettled, Settled
  <2> QED
    BY <2>3, <2>4
<1> QED
  BY <1>1, <1>3, <1>4, TypedInit, TypedNext, DoneNext, PTL DEF Spec
=============================================================================
