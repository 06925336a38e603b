--------------------------- MODULE LifecycleProofs ---------------------------
(***************************************************************************)
(* Proofs about Lifecycle, for every set of instances, every plan that     *)
(* satisfies PlanAssumption, and every set of faults a theorem allows.     *)
(***************************************************************************)
EXTENDS Lifecycle, TLAPS

-----------------------------------------------------------------------------
(***************************************************************************)
(* What each action of Lifecycle does to the monitor that takes it, and    *)
(* that it keeps every type.  The proofs about the segment rest on these   *)
(* lemmas: for a step they only ask how pc, isBeforeRevert, k and the      *)
(* criteria change, never how the record is put together.                  *)
(***************************************************************************)

\* The index k of a monitor stays within its list of operations.
IndexOK == \A i \in Inst : mon[i].k \in 0 .. Len(Plan[i])

Typed == TypeOK /\ IndexOK

\* The part of TypeOK that is not about the monitors.
SharedTyped ==
    /\ lock \in Inst \cup {None}
    /\ entry \in [Inst -> {"absent", "torn", "saved"}]
    /\ shim \in [Inst -> {"none", "waiting", "running",
                          "exited", "failed"}]
    /\ host \subseteq UNION {Needs(i) : i \in Inst}

\* Monitor i moves to state pc with the given commit flag and index, and no
\* other monitor moves.
Effect(i, pc, before, k) ==
    /\ mon'[i].pc = pc
    /\ mon'[i].isBeforeRevert = before
    /\ mon'[i].k = k
    /\ \A j \in Inst \ {i} : mon'[j] = mon[j]

\* The criteria and the entry sets of monitor i stay what they are.
SameScope(i) ==
    /\ mon'[i].ec = mon[i].ec
    /\ mon'[i].pending = mon[i].pending
    /\ mon'[i].alive = mon[i].alive

-----------------------------------------------------------------------------
\* An index within a plan names one of its operations.
LEMMA PlanIndex ==
    ASSUME NEW i \in Inst, NEW n \in 1 .. Len(Plan[i])
    PROVE  /\ n \in DOMAIN Plan[i]
           /\ Plan[i][n] \in OpsOf(i)
           /\ Plan[i][n].res \in Needs(i)
BY ConstantsAssumption DEF OpsOf, Needs

\* A plan is a sequence, so that its length is a natural number.
LEMMA PlanLen ==
    ASSUME NEW i \in Inst
    PROVE  Len(Plan[i]) \in Nat /\ DOMAIN Plan[i] = 1 .. Len(Plan[i])
BY ConstantsAssumption

\* The states of outcome.main, listed.
LEMMA StateNames ==
    States = {"Start", "Commit", "Serve", "Lifecycle", "Cleanup", "Save",
              "Encode", "Ident", "Apply", "Rollback", "Destroy", "Entries",
              "Load", "Revert", "Final", "Killed"}
BY DEF States, Committing, CleaningUp, Ended

\* perror maps monitors to monitors and leaves the other fields alone.
LEMMA PerrorType ==
    ASSUME NEW m \in Monitor
    PROVE  /\ perror(m) \in Monitor
           /\ perror(m).pc = m.pc
           /\ perror(m).k = m.k
           /\ perror(m).entryHandle = m.entryHandle
           /\ perror(m).isBeforeRevert = m.isBeforeRevert
           /\ perror(m).ec = m.ec
           /\ perror(m).pending = m.pending
           /\ perror(m).alive = m.alive
BY DEF perror, Monitor, ShimFailure

\* Goto maps monitors to monitors and leaves the other fields alone.
LEMMA GotoType ==
    ASSUME NEW m \in Monitor, NEW s \in States
    PROVE  /\ Goto(m, s) \in Monitor
           /\ Goto(m, s).pc = s
           /\ Goto(m, s).k = m.k
           /\ Goto(m, s).entryHandle = m.entryHandle
           /\ Goto(m, s).isBeforeRevert = m.isBeforeRevert
           /\ Goto(m, s).ec = m.ec
           /\ Goto(m, s).pending = m.pending
           /\ Goto(m, s).alive = m.alive
BY DEF Goto, Monitor

\* A monitor before its first step is a monitor.
LEMMA NewMonitorType == NewMonitor \in Monitor /\ NewMonitor.k = 0
BY StateNames DEF NewMonitor, Monitor, ShimFailure

\* What a typed state says of one monitor.
LEMMA MonitorTyped ==
    ASSUME Typed, NEW i \in Inst
    PROVE  mon[i] \in Monitor /\ mon[i].k \in 0 .. Len(Plan[i])
BY DEF Typed, TypeOK, IndexOK

\* The op Commit applies next is an op of i.
LEMMA NextOpKnown ==
    ASSUME Typed, NEW i \in Inst, mon[i].k < Len(Plan[i])
    PROVE  /\ mon[i].k + 1 \in 1 .. Len(Plan[i])
           /\ NextOp(i) \in OpsOf(i)
           /\ NextOp(i).res \in Needs(i)
<1>1. mon[i].k + 1 \in 1 .. Len(Plan[i])
  BY MonitorTyped, PlanLen
<1> QED
  BY <1>1, PlanIndex DEF NextOp

\* The op Revert looks at next is an op of i.
LEMMA LastOpKnown ==
    ASSUME Typed, NEW i \in Inst, mon[i].k > 0
    PROVE  /\ mon[i].k \in 1 .. Len(Plan[i])
           /\ LastOp(i) \in OpsOf(i)
           /\ LastOp(i).res \in Needs(i)
<1>1. mon[i].k \in 1 .. Len(Plan[i])
  BY MonitorTyped, PlanLen
<1> QED
  BY <1>1, PlanIndex DEF LastOp

\* A step of monitor i to a monitor m with a valid index is typed as soon as
\* the shared variables are.
LEMMA StepTyped ==
    ASSUME Typed, NEW i \in Inst, NEW m \in Monitor, Become(i, m),
           m.k \in 0 .. Len(Plan[i]), SharedTyped'
    PROVE  /\ Typed'
           /\ mon'[i] = m
           /\ \A j \in Inst \ {i} : mon'[j] = mon[j]
BY DEF Typed, TypeOK, IndexOK, Become, SharedTyped

\* The shared variables of a typed state are typed.
LEMMA SharedIsTyped == Typed => SharedTyped
BY DEF Typed, TypeOK, SharedTyped

-----------------------------------------------------------------------------
(***************************************************************************)
(* The effect of each action on its monitor.                               *)
(***************************************************************************)

\* Start has its effect and keeps the type.
LEMMA StartEffect ==
    ASSUME Typed, NEW i \in Inst, Start(i)
    PROVE  /\ Typed'
           /\ Effect(i, "Commit", mon[i].isBeforeRevert, mon[i].k)
<1> DEFINE m == [mon[i] EXCEPT !.pc = "Commit", !.shimPipe = TRUE]
<1>1. /\ mon[i] \in Monitor
      /\ mon[i].k \in 0 .. Len(Plan[i])
  BY MonitorTyped
<1>2. /\ m \in Monitor
      /\ m.pc = "Commit"
      /\ m.isBeforeRevert = mon[i].isBeforeRevert
      /\ m.k = mon[i].k
  BY <1>1, StateNames DEF Monitor
<1>3. SharedTyped'
  BY SharedIsTyped DEF SharedTyped, Start
<1> QED
  BY <1>1, <1>2, <1>3, StepTyped DEF Start, Effect

\* StartFail has its effect and keeps the type.
LEMMA StartFailEffect ==
    ASSUME Typed, NEW i \in Inst, StartFail(i)
    PROVE  /\ Typed'
           /\ Effect(i, "Final", mon[i].isBeforeRevert, mon[i].k)
<1> DEFINE m == Goto(perror(mon[i]), "Final")
<1>1. /\ perror(mon[i]) \in Monitor
      /\ perror(mon[i]).k = mon[i].k
      /\ perror(mon[i]).isBeforeRevert = mon[i].isBeforeRevert
      /\ mon[i].k \in 0 .. Len(Plan[i])
  BY MonitorTyped, PerrorType
<1>2. /\ m \in Monitor
      /\ m.pc = "Final"
      /\ m.isBeforeRevert = mon[i].isBeforeRevert
      /\ m.k = mon[i].k
  BY <1>1, StateNames, GotoType
<1>3. SharedTyped'
  BY SharedIsTyped DEF SharedTyped, StartFail
<1> QED
  BY <1>1, <1>2, <1>3, StepTyped DEF StartFail, Effect

\* CommitLock has its effect and keeps the type.
LEMMA CommitLockEffect ==
    ASSUME Typed, NEW i \in Inst, CommitLock(i)
    PROVE  /\ Typed'
           /\ Effect(i, "Save", mon[i].isBeforeRevert, mon[i].k)
<1> DEFINE m == Goto(mon[i], "Save")
<1>1. /\ mon[i] \in Monitor
      /\ mon[i].k \in 0 .. Len(Plan[i])
  BY MonitorTyped
<1>2. /\ m \in Monitor
      /\ m.pc = "Save"
      /\ m.isBeforeRevert = mon[i].isBeforeRevert
      /\ m.k = mon[i].k
  BY <1>1, StateNames, GotoType
<1>3. SharedTyped'
  BY SharedIsTyped DEF SharedTyped, CommitLock
<1> QED
  BY <1>1, <1>2, <1>3, StepTyped DEF CommitLock, Effect

\* CommitLockFail has its effect and keeps the type.
LEMMA CommitLockFailEffect ==
    ASSUME Typed, NEW i \in Inst, CommitLockFail(i)
    PROVE  /\ Typed'
           /\ Effect(i, "Lifecycle", mon[i].isBeforeRevert, mon[i].k)
<1> DEFINE m == Goto(perror(mon[i]), "Lifecycle")
<1>1. /\ perror(mon[i]) \in Monitor
      /\ perror(mon[i]).k = mon[i].k
      /\ perror(mon[i]).isBeforeRevert = mon[i].isBeforeRevert
      /\ mon[i].k \in 0 .. Len(Plan[i])
  BY MonitorTyped, PerrorType
<1>2. /\ m \in Monitor
      /\ m.pc = "Lifecycle"
      /\ m.isBeforeRevert = mon[i].isBeforeRevert
      /\ m.k = mon[i].k
  BY <1>1, StateNames, GotoType
<1>3. SharedTyped'
  BY SharedIsTyped DEF SharedTyped, CommitLockFail
<1> QED
  BY <1>1, <1>2, <1>3, StepTyped DEF CommitLockFail, Effect

\* SaveOpen has its effect and keeps the type.
LEMMA SaveOpenEffect ==
    ASSUME Typed, NEW i \in Inst, SaveOpen(i)
    PROVE  /\ Typed'
           /\ Effect(i, "Encode", mon[i].isBeforeRevert, mon[i].k)
<1> DEFINE m == [mon[i] EXCEPT !.pc = "Encode", !.entryHandle = TRUE]
<1>1. /\ mon[i] \in Monitor
      /\ mon[i].k \in 0 .. Len(Plan[i])
  BY MonitorTyped
<1>2. /\ m \in Monitor
      /\ m.pc = "Encode"
      /\ m.isBeforeRevert = mon[i].isBeforeRevert
      /\ m.k = mon[i].k
  BY <1>1, StateNames DEF Monitor
<1>3. SharedTyped'
  BY SharedIsTyped DEF SharedTyped, SaveOpen
<1> QED
  BY <1>1, <1>2, <1>3, StepTyped DEF SaveOpen, Effect

\* SaveEncode has its effect and keeps the type.
LEMMA SaveEncodeEffect ==
    ASSUME Typed, NEW i \in Inst, SaveEncode(i)
    PROVE  /\ Typed'
           /\ Effect(i, "Ident", mon[i].isBeforeRevert, mon[i].k)
<1> DEFINE m == Goto(mon[i], "Ident")
<1>1. /\ mon[i] \in Monitor
      /\ mon[i].k \in 0 .. Len(Plan[i])
  BY MonitorTyped
<1>2. /\ m \in Monitor
      /\ m.pc = "Ident"
      /\ m.isBeforeRevert = mon[i].isBeforeRevert
      /\ m.k = mon[i].k
  BY <1>1, StateNames, GotoType
<1>3. SharedTyped'
  BY SharedIsTyped DEF SharedTyped, SaveEncode
<1> QED
  BY <1>1, <1>2, <1>3, StepTyped DEF SaveEncode, Effect

\* SaveFail has its effect and keeps the type.
LEMMA SaveFailEffect ==
    ASSUME Typed, NEW i \in Inst, SaveFail(i)
    PROVE  /\ Typed'
           /\ Effect(i, "Lifecycle", mon[i].isBeforeRevert, mon[i].k)
<1> DEFINE m == [Goto(perror(mon[i]), "Lifecycle") EXCEPT !.entryHandle = TRUE]
<1>1. /\ Goto(perror(mon[i]), "Lifecycle") \in Monitor
      /\ Goto(perror(mon[i]), "Lifecycle").k = mon[i].k
      /\ Goto(perror(mon[i]), "Lifecycle").isBeforeRevert = mon[i].isBeforeRevert
      /\ Goto(perror(mon[i]), "Lifecycle").pc = "Lifecycle"
      /\ mon[i].k \in 0 .. Len(Plan[i])
  BY MonitorTyped, StateNames, PerrorType, GotoType
<1>2. /\ m \in Monitor
      /\ m.pc = "Lifecycle"
      /\ m.isBeforeRevert = mon[i].isBeforeRevert
      /\ m.k = mon[i].k
  BY <1>1, StateNames DEF Monitor
<1>3. SharedTyped'
  BY SharedIsTyped DEF SharedTyped, SaveFail, Unlock
<1> QED
  BY <1>1, <1>2, <1>3, StepTyped DEF SaveFail, Effect

\* WriteIdentifier has its effect and keeps the type.
LEMMA WriteIdentifierEffect ==
    ASSUME Typed, NEW i \in Inst, WriteIdentifier(i)
    PROVE  /\ Typed'
           /\ Effect(i, "Apply", mon[i].isBeforeRevert, mon[i].k)
<1> DEFINE m == Goto(mon[i], "Apply")
<1>1. /\ mon[i] \in Monitor
      /\ mon[i].k \in 0 .. Len(Plan[i])
  BY MonitorTyped
<1>2. /\ m \in Monitor
      /\ m.pc = "Apply"
      /\ m.isBeforeRevert = mon[i].isBeforeRevert
      /\ m.k = mon[i].k
  BY <1>1, StateNames, GotoType
<1>3. SharedTyped'
  BY SharedIsTyped DEF SharedTyped, WriteIdentifier
<1> QED
  BY <1>1, <1>2, <1>3, StepTyped DEF WriteIdentifier, Effect

\* WriteIdentifierFail has its effect and keeps the type.
LEMMA WriteIdentifierFailEffect ==
    ASSUME Typed, NEW i \in Inst, WriteIdentifierFail(i)
    PROVE  /\ Typed'
           /\ Effect(i, "Lifecycle", mon[i].isBeforeRevert, mon[i].k)
<1> DEFINE m == Goto(perror(mon[i]), "Lifecycle")
<1>1. /\ perror(mon[i]) \in Monitor
      /\ perror(mon[i]).k = mon[i].k
      /\ perror(mon[i]).isBeforeRevert = mon[i].isBeforeRevert
      /\ mon[i].k \in 0 .. Len(Plan[i])
  BY MonitorTyped, PerrorType
<1>2. /\ m \in Monitor
      /\ m.pc = "Lifecycle"
      /\ m.isBeforeRevert = mon[i].isBeforeRevert
      /\ m.k = mon[i].k
  BY <1>1, StateNames, GotoType
<1>3. SharedTyped'
  BY SharedIsTyped DEF SharedTyped, WriteIdentifierFail, Unlock
<1> QED
  BY <1>1, <1>2, <1>3, StepTyped DEF WriteIdentifierFail, Effect

\* Apply has its effect and keeps the type.
LEMMA ApplyEffect ==
    ASSUME Typed, NEW i \in Inst, Apply(i)
    PROVE  /\ Typed'
           /\ Effect(i, "Apply", mon[i].isBeforeRevert, mon[i].k + 1)
<1> DEFINE m == [mon[i] EXCEPT !.k = @ + 1]
<1>1. /\ mon[i] \in Monitor
      /\ mon[i].k \in 0 .. Len(Plan[i])
      /\ mon[i].k + 1 \in 0 .. Len(Plan[i])
      /\ mon[i].pc = "Apply"
  BY MonitorTyped, PlanLen DEF Apply, At
<1>2. /\ m \in Monitor
      /\ m.pc = "Apply"
      /\ m.isBeforeRevert = mon[i].isBeforeRevert
      /\ m.k = mon[i].k + 1
  BY <1>1, StateNames DEF Monitor
<1>3. NextOp(i).res \in UNION {Needs(j) : j \in Inst}
  BY NextOpKnown DEF Apply
<1>4. SharedTyped'
  BY <1>3, SharedIsTyped DEF SharedTyped, Apply
<1> QED
  BY <1>1, <1>2, <1>4, StepTyped DEF Apply, Effect

\* ApplyFail has its effect and keeps the type.
LEMMA ApplyFailEffect ==
    ASSUME Typed, NEW i \in Inst, ApplyFail(i)
    PROVE  /\ Typed'
           /\ Effect(i, "Rollback", mon[i].isBeforeRevert, mon[i].k)
<1> DEFINE m == [mon[i] EXCEPT !.pc = "Rollback", !.ec = NilCriteria]
<1>1. /\ mon[i] \in Monitor
      /\ mon[i].k \in 0 .. Len(Plan[i])
  BY MonitorTyped
<1>2. /\ m \in Monitor
      /\ m.pc = "Rollback"
      /\ m.isBeforeRevert = mon[i].isBeforeRevert
      /\ m.k = mon[i].k
  BY <1>1, StateNames DEF Monitor, NilCriteria
<1>3. SharedTyped'
  BY SharedIsTyped, NextOpKnown DEF SharedTyped, ApplyFail
<1> QED
  BY <1>1, <1>2, <1>3, StepTyped DEF ApplyFail, Effect

\* CommitDone has its effect and keeps the type.
LEMMA CommitDoneEffect ==
    ASSUME Typed, NEW i \in Inst, CommitDone(i)
    PROVE  /\ Typed'
           /\ Effect(i, "Serve", TRUE, mon[i].k)
<1> DEFINE m == [mon[i] EXCEPT !.pc = "Serve", !.isBeforeRevert = TRUE]
<1>1. /\ mon[i] \in Monitor
      /\ mon[i].k \in 0 .. Len(Plan[i])
  BY MonitorTyped
<1>2. /\ m \in Monitor
      /\ m.pc = "Serve"
      /\ m.isBeforeRevert = TRUE
      /\ m.k = mon[i].k
  BY <1>1, StateNames DEF Monitor
<1>3. SharedTyped'
  BY SharedIsTyped DEF SharedTyped, CommitDone, Unlock
<1> QED
  BY <1>1, <1>2, <1>3, StepTyped DEF CommitDone, Effect

\* CommitError has its effect and keeps the type.
LEMMA CommitErrorEffect ==
    ASSUME Typed, NEW i \in Inst, CommitError(i)
    PROVE  /\ Typed'
           /\ Effect(i, "Lifecycle", mon[i].isBeforeRevert, mon[i].k)
<1> DEFINE m == [Goto(perror(mon[i]), "Lifecycle") EXCEPT !.ec = {}]
<1>1. /\ Goto(perror(mon[i]), "Lifecycle") \in Monitor
      /\ Goto(perror(mon[i]), "Lifecycle").k = mon[i].k
      /\ Goto(perror(mon[i]), "Lifecycle").isBeforeRevert = mon[i].isBeforeRevert
      /\ Goto(perror(mon[i]), "Lifecycle").pc = "Lifecycle"
      /\ mon[i].k \in 0 .. Len(Plan[i])
  BY MonitorTyped, StateNames, PerrorType, GotoType
<1>2. /\ m \in Monitor
      /\ m.pc = "Lifecycle"
      /\ m.isBeforeRevert = mon[i].isBeforeRevert
      /\ m.k = mon[i].k
  BY <1>1, StateNames DEF Monitor
<1>3. SharedTyped'
  BY SharedIsTyped DEF SharedTyped, CommitError, Unlock
<1> QED
  BY <1>1, <1>2, <1>3, StepTyped DEF CommitError, Effect

\* ServeShim has its effect and keeps the type.
LEMMA ServeShimEffect ==
    ASSUME Typed, NEW i \in Inst, ServeShim(i)
    PROVE  /\ Typed'
           /\ Effect(i, "Lifecycle", mon[i].isBeforeRevert, mon[i].k)
<1> DEFINE m == [mon[i] EXCEPT !.pc = "Lifecycle", !.shimPipe = FALSE]
<1>1. /\ mon[i] \in Monitor
      /\ mon[i].k \in 0 .. Len(Plan[i])
  BY MonitorTyped
<1>2. /\ m \in Monitor
      /\ m.pc = "Lifecycle"
      /\ m.isBeforeRevert = mon[i].isBeforeRevert
      /\ m.k = mon[i].k
  BY <1>1, StateNames DEF Monitor
<1>3. SharedTyped'
  BY SharedIsTyped DEF SharedTyped, ServeShim
<1> QED
  BY <1>1, <1>2, <1>3, StepTyped DEF ServeShim, Effect

\* ServeShimFail has its effect and keeps the type.
LEMMA ServeShimFailEffect ==
    ASSUME Typed, NEW i \in Inst, ServeShimFail(i)
    PROVE  /\ Typed'
           /\ Effect(i, "Lifecycle", mon[i].isBeforeRevert, mon[i].k)
<1> DEFINE m == Goto(perror(mon[i]), "Lifecycle")
<1>1. /\ perror(mon[i]) \in Monitor
      /\ perror(mon[i]).k = mon[i].k
      /\ perror(mon[i]).isBeforeRevert = mon[i].isBeforeRevert
      /\ mon[i].k \in 0 .. Len(Plan[i])
  BY MonitorTyped, PerrorType
<1>2. /\ m \in Monitor
      /\ m.pc = "Lifecycle"
      /\ m.isBeforeRevert = mon[i].isBeforeRevert
      /\ m.k = mon[i].k
  BY <1>1, StateNames, GotoType
<1>3. SharedTyped'
  BY SharedIsTyped DEF SharedTyped, ServeShimFail
<1> QED
  BY <1>1, <1>2, <1>3, StepTyped DEF ServeShimFail, Effect

\* ShimWait has its effect and keeps the type.
LEMMA ShimWaitEffect ==
    ASSUME Typed, NEW i \in Inst, ShimWait(i)
    PROVE  /\ Typed'
           /\ Effect(i, "Cleanup", mon[i].isBeforeRevert, mon[i].k)
<1> DEFINE m == [mon[i] EXCEPT !.pc = "Cleanup", !.done = TRUE,
                        !.exitCode = IF shim[i] = "failed"
                                     THEN ShimFailure ELSE @]
<1>1. /\ mon[i] \in Monitor
      /\ mon[i].k \in 0 .. Len(Plan[i])
  BY MonitorTyped
<1>2. /\ m \in Monitor
      /\ m.pc = "Cleanup"
      /\ m.isBeforeRevert = mon[i].isBeforeRevert
      /\ m.k = mon[i].k
  BY <1>1, StateNames DEF Monitor, ShimFailure
<1>3. SharedTyped'
  BY SharedIsTyped DEF SharedTyped, ShimWait
<1> QED
  BY <1>1, <1>2, <1>3, StepTyped DEF ShimWait, Effect

\* ShimTimeout has its effect and keeps the type.
LEMMA ShimTimeoutEffect ==
    ASSUME Typed, NEW i \in Inst, ShimTimeout(i)
    PROVE  /\ Typed'
           /\ Effect(i, "Cleanup", mon[i].isBeforeRevert, mon[i].k)
<1> DEFINE m == Goto(mon[i], "Cleanup")
<1>1. /\ mon[i] \in Monitor
      /\ mon[i].k \in 0 .. Len(Plan[i])
  BY MonitorTyped
<1>2. /\ m \in Monitor
      /\ m.pc = "Cleanup"
      /\ m.isBeforeRevert = mon[i].isBeforeRevert
      /\ m.k = mon[i].k
  BY <1>1, StateNames, GotoType
<1>3. SharedTyped'
  BY SharedIsTyped DEF SharedTyped, ShimTimeout
<1> QED
  BY <1>1, <1>2, <1>3, StepTyped DEF ShimTimeout, Effect

\* CleanupLock has its effect and keeps the type.
LEMMA CleanupLockEffect ==
    ASSUME Typed, NEW i \in Inst, CleanupLock(i)
    PROVE  /\ Typed'
           /\ Effect(i, "Destroy", mon[i].isBeforeRevert, mon[i].k)
<1> DEFINE m == Goto(mon[i], "Destroy")
<1>1. /\ mon[i] \in Monitor
      /\ mon[i].k \in 0 .. Len(Plan[i])
  BY MonitorTyped
<1>2. /\ m \in Monitor
      /\ m.pc = "Destroy"
      /\ m.isBeforeRevert = mon[i].isBeforeRevert
      /\ m.k = mon[i].k
  BY <1>1, StateNames, GotoType
<1>3. SharedTyped'
  BY SharedIsTyped DEF SharedTyped, CleanupLock
<1> QED
  BY <1>1, <1>2, <1>3, StepTyped DEF CleanupLock, Effect

\* CleanupLockFail has its effect and keeps the type.
LEMMA CleanupLockFailEffect ==
    ASSUME Typed, NEW i \in Inst, CleanupLockFail(i)
    PROVE  /\ Typed'
           /\ Effect(i, "Destroy", mon[i].isBeforeRevert, mon[i].k)
<1> DEFINE m == Goto(perror(mon[i]), "Destroy")
<1>1. /\ perror(mon[i]) \in Monitor
      /\ perror(mon[i]).k = mon[i].k
      /\ perror(mon[i]).isBeforeRevert = mon[i].isBeforeRevert
      /\ mon[i].k \in 0 .. Len(Plan[i])
  BY MonitorTyped, PerrorType
<1>2. /\ m \in Monitor
      /\ m.pc = "Destroy"
      /\ m.isBeforeRevert = mon[i].isBeforeRevert
      /\ m.k = mon[i].k
  BY <1>1, StateNames, GotoType
<1>3. SharedTyped'
  BY SharedIsTyped DEF SharedTyped, CleanupLockFail
<1> QED
  BY <1>1, <1>2, <1>3, StepTyped DEF CleanupLockFail, Effect

\* ReadEntries has its effect and keeps the type.
LEMMA ReadEntriesEffect ==
    ASSUME Typed, NEW i \in Inst, ReadEntries(i)
    PROVE  /\ Typed'
           /\ Effect(i, "Load", mon[i].isBeforeRevert, mon[i].k)
           /\ mon'[i].pending = {j \in Inst : entry[j] # "absent"}
<1> DEFINE m == [mon[i] EXCEPT !.pc = "Load",
                        !.pending = {j \in Inst : entry[j] # "absent"}]
<1>1. /\ mon[i] \in Monitor
      /\ mon[i].k \in 0 .. Len(Plan[i])
  BY MonitorTyped
<1>2. /\ m \in Monitor
      /\ m.pc = "Load"
      /\ m.isBeforeRevert = mon[i].isBeforeRevert
      /\ m.k = mon[i].k
      /\ m.pending = {j \in Inst : entry[j] # "absent"}
  BY <1>1, StateNames DEF Monitor
<1>3. SharedTyped'
  BY SharedIsTyped DEF SharedTyped, ReadEntries
<1> QED
  BY <1>1, <1>2, <1>3, StepTyped DEF ReadEntries, Effect

\* ReadEntriesFail has its effect and keeps the type.
LEMMA ReadEntriesFailEffect ==
    ASSUME Typed, NEW i \in Inst, ReadEntriesFail(i)
    PROVE  /\ Typed'
           /\ Effect(i, "Revert", mon[i].isBeforeRevert, mon[i].k)
           /\ mon'[i].ec = {Process}
<1> DEFINE m == [perror(mon[i]) EXCEPT !.pc = "Revert", !.ec = {Process}]
<1>1. /\ perror(mon[i]) \in Monitor
      /\ perror(mon[i]).k = mon[i].k
      /\ perror(mon[i]).isBeforeRevert = mon[i].isBeforeRevert
      /\ perror(mon[i]).pending = mon[i].pending
      /\ perror(mon[i]).alive = mon[i].alive
      /\ mon[i].k \in 0 .. Len(Plan[i])
  BY MonitorTyped, PerrorType
<1>2. /\ m \in Monitor
      /\ m.pc = "Revert"
      /\ m.isBeforeRevert = mon[i].isBeforeRevert
      /\ m.k = mon[i].k
      /\ m.ec = {Process}
  BY <1>1, StateNames DEF Monitor, Types
<1>3. SharedTyped'
  BY SharedIsTyped DEF SharedTyped, ReadEntriesFail
<1> QED
  BY <1>1, <1>2, <1>3, StepTyped DEF ReadEntriesFail, Effect

\* LoadEntry has its effect and keeps the type.
LEMMA LoadEntryEffect ==
    ASSUME Typed, NEW i \in Inst, NEW j \in Inst, LoadEntry(i, j)
    PROVE  /\ Typed'
           /\ Effect(i, "Load", mon[i].isBeforeRevert, mon[i].k)
           /\ mon'[i].pending = mon[i].pending \ {j}
           /\ mon'[i].alive = mon[i].alive \cup {j}
<1> DEFINE m == [mon[i] EXCEPT !.pending = @ \ {j}, !.alive = @ \cup {j}]
<1>1. /\ mon[i] \in Monitor
      /\ mon[i].k \in 0 .. Len(Plan[i])
      /\ mon[i].pc = "Load"
  BY MonitorTyped DEF LoadEntry, At
<1>2. /\ m \in Monitor
      /\ m.pc = "Load"
      /\ m.isBeforeRevert = mon[i].isBeforeRevert
      /\ m.k = mon[i].k
      /\ m.pending = mon[i].pending \ {j}
      /\ m.alive = mon[i].alive \cup {j}
  BY <1>1, StateNames DEF Monitor
<1>3. SharedTyped'
  BY SharedIsTyped DEF SharedTyped, LoadEntry
<1> QED
  BY <1>1, <1>2, <1>3, StepTyped DEF LoadEntry, Effect

\* LoadEntryFail has its effect and keeps the type.
LEMMA LoadEntryFailEffect ==
    ASSUME Typed, NEW i \in Inst, NEW j \in Inst, LoadEntryFail(i, j)
    PROVE  /\ Typed'
           /\ Effect(i, "Load", mon[i].isBeforeRevert, mon[i].k)
           /\ mon'[i].pending = mon[i].pending \ {j}
           /\ mon'[i].alive = mon[i].alive
<1> DEFINE m == [perror(mon[i]) EXCEPT !.pending = @ \ {j}]
<1>1. /\ perror(mon[i]) \in Monitor
      /\ perror(mon[i]).k = mon[i].k
      /\ perror(mon[i]).isBeforeRevert = mon[i].isBeforeRevert
      /\ perror(mon[i]).pending = mon[i].pending
      /\ perror(mon[i]).alive = mon[i].alive
      /\ perror(mon[i]).pc = mon[i].pc
      /\ mon[i].k \in 0 .. Len(Plan[i])
      /\ mon[i].pc = "Load"
  BY MonitorTyped, PerrorType DEF LoadEntryFail, At
<1>2. /\ m \in Monitor
      /\ m.pc = "Load"
      /\ m.isBeforeRevert = mon[i].isBeforeRevert
      /\ m.k = mon[i].k
      /\ m.pending = mon[i].pending \ {j}
      /\ m.alive = mon[i].alive
  BY <1>1, StateNames DEF Monitor
<1>3. SharedTyped'
  BY SharedIsTyped DEF SharedTyped, LoadEntryFail
<1> QED
  BY <1>1, <1>2, <1>3, StepTyped DEF LoadEntryFail, Effect

\* BeginRevert has its effect and keeps the type.
LEMMA BeginRevertEffect ==
    ASSUME Typed, NEW i \in Inst, BeginRevert(i)
    PROVE  /\ Typed'
           /\ Effect(i, "Revert", mon[i].isBeforeRevert, mon[i].k)
           /\ mon'[i].ec = CleanupCriteria(mon[i])
<1> DEFINE m == [mon[i] EXCEPT !.pc = "Revert",
                        !.ec = CleanupCriteria(mon[i])]
<1>1. /\ mon[i] \in Monitor
      /\ mon[i].k \in 0 .. Len(Plan[i])
  BY MonitorTyped
<1>2. /\ m \in Monitor
      /\ m.pc = "Revert"
      /\ m.isBeforeRevert = mon[i].isBeforeRevert
      /\ m.k = mon[i].k
      /\ m.ec = CleanupCriteria(mon[i])
  BY <1>1, StateNames DEF Monitor, CleanupCriteria, RemainingEnablements, Types
<1>3. SharedTyped'
  BY SharedIsTyped DEF SharedTyped, BeginRevert
<1> QED
  BY <1>1, <1>2, <1>3, StepTyped DEF BeginRevert, Effect

\* RevertOp has its effect and keeps the type.
LEMMA RevertOpEffect ==
    ASSUME Typed, NEW i \in Inst, RevertOp(i)
    PROVE  /\ Typed'
           /\ Effect(i, mon[i].pc, mon[i].isBeforeRevert, mon[i].k - 1)
           /\ SameScope(i)
<1> DEFINE m == [mon[i] EXCEPT !.k = @ - 1]
<1>1. /\ mon[i] \in Monitor
      /\ mon[i].k \in 0 .. Len(Plan[i])
      /\ mon[i].k - 1 \in 0 .. Len(Plan[i])
  BY MonitorTyped, PlanLen DEF RevertOp, At
<1>2. /\ m \in Monitor
      /\ m.pc = mon[i].pc
      /\ m.isBeforeRevert = mon[i].isBeforeRevert
      /\ m.k = mon[i].k - 1
      /\ m.ec = mon[i].ec
      /\ m.pending = mon[i].pending
      /\ m.alive = mon[i].alive
  BY <1>1, StateNames DEF Monitor
<1>3. SharedTyped'
  BY SharedIsTyped DEF SharedTyped, RevertOp
<1> QED
  BY <1>1, <1>2, <1>3, StepTyped DEF RevertOp, Effect, SameScope

\* RevertDone has its effect and keeps the type.
LEMMA RevertDoneEffect ==
    ASSUME Typed, NEW i \in Inst, RevertDone(i)
    PROVE  /\ Typed'
           /\ Effect(i, "Final", FALSE, mon[i].k)
<1> DEFINE m == [mon[i] EXCEPT !.pc = "Final", !.isBeforeRevert = FALSE,
                        !.ec = {}, !.pending = {}, !.alive = {}]
<1>1. /\ mon[i] \in Monitor
      /\ mon[i].k \in 0 .. Len(Plan[i])
  BY MonitorTyped
<1>2. /\ m \in Monitor
      /\ m.pc = "Final"
      /\ m.isBeforeRevert = FALSE
      /\ m.k = mon[i].k
  BY <1>1, StateNames DEF Monitor
<1>3. SharedTyped'
  BY SharedIsTyped DEF SharedTyped, RevertDone, Unlock
<1> QED
  BY <1>1, <1>2, <1>3, StepTyped DEF RevertDone, Effect

\* Cancel has its effect and keeps the type.
LEMMA CancelEffect ==
    ASSUME Typed, NEW i \in Inst, Cancel(i)
    PROVE  /\ Typed'
           /\ Effect(i, mon[i].pc, mon[i].isBeforeRevert, mon[i].k)
           /\ SameScope(i)
<1> DEFINE m == [mon[i] EXCEPT !.done = TRUE]
<1>1. /\ mon[i] \in Monitor
      /\ mon[i].k \in 0 .. Len(Plan[i])
  BY MonitorTyped
<1>2. /\ m \in Monitor
      /\ m.pc = mon[i].pc
      /\ m.isBeforeRevert = mon[i].isBeforeRevert
      /\ m.k = mon[i].k
      /\ m.ec = mon[i].ec
      /\ m.pending = mon[i].pending
      /\ m.alive = mon[i].alive
  BY <1>1, StateNames DEF Monitor
<1>3. SharedTyped'
  BY SharedIsTyped DEF SharedTyped, Cancel
<1> QED
  BY <1>1, <1>2, <1>3, StepTyped DEF Cancel, Effect, SameScope

\* Kill has its effect and keeps the type.
LEMMA KillEffect ==
    ASSUME Typed, NEW i \in Inst, Kill(i)
    PROVE  /\ Typed'
           /\ Effect(i, "Killed", FALSE, 0)
<1> DEFINE m == Goto(NewMonitor, "Killed")
<1>1. /\ NewMonitor \in Monitor
      /\ NewMonitor.k = 0
      /\ ~NewMonitor.isBeforeRevert
      /\ 0 \in 0 .. Len(Plan[i])
  BY NewMonitorType, PlanLen DEF NewMonitor
<1>2. /\ m \in Monitor
      /\ m.pc = "Killed"
      /\ m.isBeforeRevert = FALSE
      /\ m.k = 0
  BY <1>1, StateNames, GotoType
<1>3. SharedTyped'
  BY SharedIsTyped DEF SharedTyped, Kill, Unlock
<1> QED
  BY <1>1, <1>2, <1>3, StepTyped DEF Kill, Effect

\* The record that perrorIf returns.
LEMMA PerrorIfType ==
    ASSUME NEW m \in Monitor, NEW b \in BOOLEAN
    PROVE  /\ perrorIf(b, m) \in Monitor
           /\ perrorIf(b, m).pc = m.pc
           /\ perrorIf(b, m).k = m.k
           /\ perrorIf(b, m).isBeforeRevert = m.isBeforeRevert
           /\ perrorIf(b, m).ec = m.ec
           /\ perrorIf(b, m).pending = m.pending
           /\ perrorIf(b, m).alive = m.alive
BY PerrorType DEF perrorIf

\* Where a monitor goes once its entry is destroyed.
LEMMA AfterDestroyEffect ==
    ASSUME Typed, NEW i \in Inst, NEW m \in Monitor, AfterDestroy(i, m),
           m.k = mon[i].k, m.isBeforeRevert = mon[i].isBeforeRevert,
           entry' \in [Inst -> {"absent", "torn", "saved"}],
           UNCHANGED << shim, host >>
    PROVE  /\ Typed'
           /\ Effect(i, IF mon[i].isBeforeRevert THEN "Entries" ELSE "Final",
                     mon[i].isBeforeRevert, mon[i].k)
<1>1. mon[i].k \in 0 .. Len(Plan[i])
  BY MonitorTyped
<1>2. SharedTyped'
  BY SharedIsTyped DEF SharedTyped, AfterDestroy, Unlock
<1>3. "Entries" \in States /\ "Final" \in States
  BY StateNames
<1>4. CASE mon[i].isBeforeRevert
  <2> DEFINE n == Goto(m, "Entries")
  <2>1. Become(i, n)
    BY <1>4 DEF AfterDestroy
  <2>2. n \in Monitor /\ n.pc = "Entries" /\ n.k = mon[i].k
           /\ n.isBeforeRevert = mon[i].isBeforeRevert
    BY <1>3, GotoType
  <2> QED
    BY <1>1, <1>2, <1>4, <2>1, <2>2, StepTyped DEF Effect
<1>5. CASE ~mon[i].isBeforeRevert
  <2> DEFINE n == Goto(m, "Final")
  <2>1. Become(i, n)
    BY <1>5 DEF AfterDestroy
  <2>2. n \in Monitor /\ n.pc = "Final" /\ n.k = mon[i].k
           /\ n.isBeforeRevert = mon[i].isBeforeRevert
    BY <1>3, GotoType
  <2> QED
    BY <1>1, <1>2, <1>5, <2>1, <2>2, StepTyped DEF Effect
<1> QED
  BY <1>4, <1>5

\* Both outcomes of destroying the entry.
LEMMA DestroyEffect ==
    ASSUME Typed, NEW i \in Inst, DestroyEntry(i) \/ DestroyEntryFail(i)
    PROVE  /\ Typed'
           /\ Effect(i, IF mon[i].isBeforeRevert THEN "Entries" ELSE "Final",
                     mon[i].isBeforeRevert, mon[i].k)
<1>1. mon[i] \in Monitor
  BY MonitorTyped
<1>2. entry' \in [Inst -> {"absent", "torn", "saved"}]
  BY SharedIsTyped DEF SharedTyped, DestroyEntry, DestroyEntryFail
<1>3. CASE DestroyEntry(i)
  <2> DEFINE b == mon[i].entryHandle /\ entry[i] = "absent"
  <2>1. b \in BOOLEAN
    OBVIOUS
  <2> QED
    BY <1>1, <1>2, <1>3, <2>1, PerrorIfType, AfterDestroyEffect DEF
       DestroyEntry
<1>4. CASE DestroyEntryFail(i)
  BY <1>1, <1>2, <1>4, PerrorType, AfterDestroyEffect DEF DestroyEntryFail
<1> QED
  BY <1>3, <1>4

\* An op whose revert fails is skipped.
LEMMA RevertOpFailEffect ==
    ASSUME Typed, NEW i \in Inst, RevertOpFail(i)
    PROVE  /\ Typed'
           /\ Effect(i, mon[i].pc, mon[i].isBeforeRevert, mon[i].k - 1)
           /\ SameScope(i)
<1> DEFINE n == [mon[i] EXCEPT !.k = @ - 1]
<1>1. /\ mon[i] \in Monitor
      /\ mon[i].k \in 0 .. Len(Plan[i])
      /\ mon[i].k - 1 \in 0 .. Len(Plan[i])
  BY MonitorTyped, PlanLen DEF RevertOpFail
<1>2. /\ n \in Monitor
      /\ n.pc = mon[i].pc
      /\ n.isBeforeRevert = mon[i].isBeforeRevert
      /\ n.k = mon[i].k - 1
      /\ n.ec = mon[i].ec
      /\ n.pending = mon[i].pending
      /\ n.alive = mon[i].alive
  BY <1>1 DEF Monitor
<1>3. PICK reported : Become(i, perrorIf(At(i, "Revert") /\ reported, n))
  BY DEF RevertOpFail
<1>4. SharedTyped'
  BY SharedIsTyped DEF SharedTyped, RevertOpFail
<1> DEFINE m == perrorIf(At(i, "Revert") /\ reported, n)
<1>5. /\ m \in Monitor
      /\ m.pc = mon[i].pc
      /\ m.isBeforeRevert = mon[i].isBeforeRevert
      /\ m.k = mon[i].k - 1
      /\ m.ec = mon[i].ec
      /\ m.pending = mon[i].pending
      /\ m.alive = mon[i].alive
  BY <1>2, PerrorType DEF perrorIf
<1> HIDE DEF m, n
<1> QED
  BY <1>1, <1>3, <1>4, <1>5, StepTyped DEF Effect, SameScope, m

\* An exiting shim leaves the monitors alone.
LEMMA ShimExitEffect ==
    ASSUME Typed, NEW i \in Inst, ShimExit(i)
    PROVE  Typed' /\ UNCHANGED << mon, lock, entry, host >>
BY DEF ShimExit, Typed, TypeOK, IndexOK

-----------------------------------------------------------------------------
\* The initial state has its type.
LEMMA TypedInit == Init => Typed
BY NewMonitorType, PlanLen DEF Init, Typed, TypeOK, IndexOK

\* Every step keeps the type.
LEMMA TypedNext == Typed /\ [Next]_vars => Typed'
<1> SUFFICES ASSUME Typed, [Next]_vars PROVE Typed'
  OBVIOUS
<1>1. ASSUME NEW i \in Inst, MonitorStep(i) PROVE Typed'
  BY <1>1, StartEffect, StartFailEffect, CommitLockEffect,
     CommitLockFailEffect, SaveOpenEffect, SaveEncodeEffect, SaveFailEffect,
     WriteIdentifierEffect, WriteIdentifierFailEffect, ApplyEffect,
     ApplyFailEffect, CommitDoneEffect, CommitErrorEffect, ServeShimEffect,
     ServeShimFailEffect, ShimWaitEffect, ShimTimeoutEffect, CleanupLockEffect,
     CleanupLockFailEffect, ReadEntriesEffect, ReadEntriesFailEffect,
     LoadEntryEffect, LoadEntryFailEffect, BeginRevertEffect, RevertOpEffect,
     RevertDoneEffect, DestroyEffect, RevertOpFailEffect DEF MonitorStep
<1>2. ASSUME NEW i \in Inst, Cancel(i) \/ ShimExit(i) \/ Kill(i) PROVE Typed'
  BY <1>2, CancelEffect, ShimExitEffect, KillEffect
<1>3. CASE UNCHANGED vars
  BY <1>3 DEF vars, Typed, TypeOK, IndexOK
<1> QED
  BY <1>1, <1>2, <1>3 DEF Next, AllEnded

\* The variables of outcome.main, the segment and the host keep their types,
\* and the index of Commit and Revert stays within the list of operations.
THEOREM TypeCorrect == Spec => []TypeOK
<1>1. Init => Typed
  BY TypedInit
<1>2. Typed /\ [Next]_vars => Typed'
  BY TypedNext
<1>3. Typed => TypeOK
  BY DEF Typed
<1> QED
  BY <1>1, <1>2, <1>3, PTL DEF Spec

-----------------------------------------------------------------------------
(***************************************************************************)
(* A commit is only rolled back when an op fails or ctx is done.           *)
(***************************************************************************)

\* ctx is only done during a commit if the monitor may be interrupted.
DoneInterrupted == \A i \in Inst : Uncommitted(i) /\ mon[i].done => may("interrupt")

\* A step of i that leaves the other monitors alone.
LEMMA DoneStep ==
    ASSUME DoneInterrupted, NEW i \in Inst,
           \A j \in Inst \ {i} : mon'[j] = mon[j],
           Uncommitted(i)' /\ mon'[i].done => may("interrupt")
    PROVE  DoneInterrupted'
BY DEF DoneInterrupted, Uncommitted, may

\* A monitor that goes on with its commit leaves ctx as it is.
LEMMA CommitKeepsDone ==
    ASSUME Typed, NEW i \in Inst,
           \/ Start(i) \/ CommitLock(i) \/ SaveOpen(i) \/ SaveEncode(i)
           \/ WriteIdentifier(i) \/ Apply(i)
    PROVE  /\ Uncommitted(i) /\ mon'[i].done = mon[i].done
           /\ \A j \in Inst \ {i} : mon'[j] = mon[j]
<1>1. mon \in [Inst -> Monitor] /\ mon[i] \in Monitor
  BY DEF Typed, TypeOK
<1>2. CASE Start(i)
  BY <1>1, <1>2 DEF Start, At, Uncommitted, Become, Goto, Monitor
<1>3. CASE CommitLock(i)
  BY <1>1, <1>3 DEF CommitLock, At, Uncommitted, Become, Goto, Monitor
<1>4. CASE SaveOpen(i)
  BY <1>1, <1>4 DEF SaveOpen, At, Uncommitted, Become, Goto, Monitor
<1>5. CASE SaveEncode(i)
  BY <1>1, <1>5 DEF SaveEncode, At, Uncommitted, Become, Goto, Monitor
<1>6. CASE WriteIdentifier(i)
  BY <1>1, <1>6 DEF WriteIdentifier, At, Uncommitted, Become, Goto, Monitor
<1>7. CASE Apply(i)
  BY <1>1, <1>7 DEF Apply, At, Uncommitted, Become, Goto, Monitor
<1> QED
  BY <1>2, <1>3, <1>4, <1>5, <1>6, <1>7

\* Any other step of a monitor takes it out of the commit.
LEMMA CommitEnds ==
    ASSUME Typed, NEW i \in Inst, MonitorStep(i) \/ Kill(i),
           ~(\/ Start(i) \/ CommitLock(i) \/ SaveOpen(i) \/ SaveEncode(i)
             \/ WriteIdentifier(i) \/ Apply(i))
    PROVE  ~Uncommitted(i)' /\ \A j \in Inst \ {i} : mon'[j] = mon[j]
<1>1. CASE StartFail(i)
  BY <1>1, StartFailEffect DEF StartFail, Effect, Uncommitted
<1>2. CASE CommitLockFail(i)
  BY <1>2, CommitLockFailEffect DEF CommitLockFail, Effect, Uncommitted
<1>3. CASE SaveFail(i)
  BY <1>3, SaveFailEffect DEF SaveFail, Effect, Uncommitted
<1>4. CASE WriteIdentifierFail(i)
  BY <1>4, WriteIdentifierFailEffect DEF WriteIdentifierFail, Effect, Uncommitted
<1>5. CASE ApplyFail(i)
  BY <1>5, ApplyFailEffect DEF ApplyFail, Effect, Uncommitted
<1>6. CASE CommitDone(i)
  BY <1>6, CommitDoneEffect DEF CommitDone, Effect, Uncommitted
<1>7. CASE CommitError(i)
  BY <1>7, CommitErrorEffect DEF CommitError, Effect, Uncommitted
<1>8. CASE ServeShim(i)
  BY <1>8, ServeShimEffect DEF ServeShim, Effect, Uncommitted
<1>9. CASE ServeShimFail(i)
  BY <1>9, ServeShimFailEffect DEF ServeShimFail, Effect, Uncommitted
<1>10. CASE ShimWait(i)
  BY <1>10, ShimWaitEffect DEF ShimWait, Effect, Uncommitted
<1>11. CASE ShimTimeout(i)
  BY <1>11, ShimTimeoutEffect DEF ShimTimeout, Effect, Uncommitted
<1>12. CASE CleanupLock(i)
  BY <1>12, CleanupLockEffect DEF CleanupLock, Effect, Uncommitted
<1>13. CASE CleanupLockFail(i)
  BY <1>13, CleanupLockFailEffect DEF CleanupLockFail, Effect, Uncommitted
<1>14. CASE ReadEntries(i)
  BY <1>14, ReadEntriesEffect DEF ReadEntries, Effect, Uncommitted
<1>15. CASE ReadEntriesFail(i)
  BY <1>15, ReadEntriesFailEffect DEF ReadEntriesFail, Effect, Uncommitted
<1>16. CASE BeginRevert(i)
  BY <1>16, BeginRevertEffect DEF BeginRevert, Effect, Uncommitted
<1>17. CASE RevertOp(i)
  BY <1>17, RevertOpEffect DEF RevertOp, Effect, Uncommitted
<1>18. CASE RevertOpFail(i)
  BY <1>18, RevertOpFailEffect DEF RevertOpFail, Effect, Uncommitted
<1>19. CASE RevertDone(i)
  BY <1>19, RevertDoneEffect DEF RevertDone, Effect, Uncommitted
<1>20. CASE Kill(i)
  BY <1>20, KillEffect DEF Kill, Effect, Uncommitted
<1>21. CASE DestroyEntry(i) \/ DestroyEntryFail(i)
  BY <1>21, DestroyEffect DEF Effect, Uncommitted
<1>22. ASSUME NEW l \in Inst, LoadEntry(i, l) PROVE ~Uncommitted(i)' /\ \A j \in Inst \ {i} : mon'[j] = mon[j]
  BY <1>22, LoadEntryEffect DEF Effect, Uncommitted
<1>23. ASSUME NEW l \in Inst, LoadEntryFail(i, l) PROVE ~Uncommitted(i)' /\ \A j \in Inst \ {i} : mon'[j] = mon[j]
  BY <1>23, LoadEntryFailEffect DEF Effect, Uncommitted
<1> QED
  BY <1>1, <1>2, <1>3, <1>4, <1>5, <1>6, <1>7, <1>8, <1>9, <1>10, <1>11,
     <1>12, <1>13, <1>14, <1>15, <1>16, <1>17, <1>18, <1>19, <1>20, <1>21,
     <1>22, <1>23 DEF MonitorStep

\* Every step keeps it, and the initial state has it.
LEMMA DoneNext ==
    /\ Init => DoneInterrupted
    /\ Typed /\ DoneInterrupted /\ [Next]_vars => DoneInterrupted'
<1>1. Init => DoneInterrupted
  BY DEF Init, DoneInterrupted, NewMonitor
<1> SUFFICES ASSUME Typed, DoneInterrupted, [Next]_vars PROVE DoneInterrupted'
  BY <1>1
<1>2. ASSUME NEW i \in Inst, MonitorStep(i) \/ Kill(i) PROVE DoneInterrupted'
  <2>1. CASE \/ Start(i) \/ CommitLock(i) \/ SaveOpen(i) \/ SaveEncode(i)
             \/ WriteIdentifier(i) \/ Apply(i)
    BY <2>1, CommitKeepsDone, DoneStep DEF DoneInterrupted
  <2>2. CASE ~(\/ Start(i) \/ CommitLock(i) \/ SaveOpen(i) \/ SaveEncode(i)
               \/ WriteIdentifier(i) \/ Apply(i))
    BY <1>2, <2>2, CommitEnds, DoneStep
  <2> QED
    BY <2>1, <2>2
<1>3. ASSUME NEW i \in Inst, Cancel(i) PROVE DoneInterrupted'
  BY <1>3, CancelEffect, DoneStep DEF Cancel, Effect, Uncommitted, may
<1>4. ASSUME NEW i \in Inst, ShimExit(i) PROVE DoneInterrupted'
  BY <1>4 DEF ShimExit, DoneInterrupted, Uncommitted
<1>5. CASE UNCHANGED vars
  BY <1>5 DEF vars, DoneInterrupted, Uncommitted
<1> QED
  BY <1>2, <1>3, <1>4, <1>5 DEF Next, AllEnded

\* Without faults of an op, no apply fails.
LEMMA ApplySucceeds ==
    ASSUME Benign, Typed, DoneInterrupted, NEW i \in Inst
    PROVE  ~ApplyFail(i)
<1> SUFFICES ASSUME ApplyFail(i) PROVE FALSE
  OBVIOUS
<1>1. Interrupted(i)
  BY DEF ApplyFail, Benign, may
<1>2. may("interrupt")
  BY <1>1 DEF ApplyFail, At, Interrupted, DoneInterrupted, Uncommitted
<1>3. NextOp(i) \in AllOps
  BY NextOpKnown DEF ApplyFail, AllOps
<1> QED
  BY <1>1, <1>2, <1>3 DEF Benign, Interrupted

-----------------------------------------------------------------------------
(***************************************************************************)
(* SegmentInv is preserved.  It is taken apart into what it says of one    *)
(* monitor and of two: a step of monitor i has to restore its own part and *)
(* the part of every pair it belongs to, and to leave what the others rely *)
(* on alone.                                                               *)
(***************************************************************************)
Own(i) ==
    /\ InSegment(i) => lock = i
    /\ mon[i].pc \in {"Ident", "Apply"} \/ Live(i) => entry[i] = "saved"
    /\ mon[i].pc = "Apply" => \A n \in 1 .. mon[i].k : Plan[i][n].res \in host
    /\ mon[i].pc \in {"Start", "Commit", "Save", "Encode", "Ident"} => mon[i].k = 0
    /\ mon[i].isBeforeRevert =>
          mon[i].pc \in {"Serve", "Lifecycle", "Cleanup"} \cup CleaningUp
    /\ mon[i].pc # "Rollback"
    /\ Live(i) => Needs(i) \subseteq host

Pair(i, j) ==
    /\ mon[i].pc = "Load" /\ Live(j) => j \in mon[i].pending \cup mon[i].alive
    /\ mon[i].pc = "Revert" /\ Live(j) =>
          User \notin mon[i].ec /\ mon[i].ec \cap Enabl[j] = {}

Pairs(i) == \A j \in Inst \ {i} : Pair(i, j)

\* A step of i keeps what monitor j relies on.
Undisturbed(j) ==
    /\ mon'[j] = mon[j]
    /\ entry'[j] = entry[j]
    /\ lock = j => lock' = j
    /\ Live(j) => Needs(j) \subseteq host'
    /\ mon[j].pc = "Apply" => \A n \in 1 .. mon[j].k : Plan[j][n].res \in host'

\* The two forms of the invariant are the same.
LEMMA InvSplit ==
    /\ SegmentInv <=> \A i \in Inst : Own(i) /\ Pairs(i)
    /\ SegmentInv' <=> \A i \in Inst : Own(i)' /\ Pairs(i)'
BY DEF SegmentInv, SegmentLocked, Registered, AppliedHeld, FreshIndex,
       CommitFlag, LiveCounted, LiveSpared, NoRollback, LiveResources,
       Own, Pair, Pairs

\* The initial state satisfies the invariant.
LEMMA InvInit == Init => SegmentInv
<1> SUFFICES ASSUME Init, NEW i \in Inst PROVE Own(i) /\ Pairs(i)
  BY InvSplit
<1>1. mon[i].pc = "Start" /\ mon[i].k = 0 /\ ~mon[i].isBeforeRevert
  BY DEF Init, NewMonitor
<1> QED
  BY <1>1 DEF Own, Pair, Pairs, Live, InSegment, Committing, CleaningUp

\* When i takes a step, only i can become live, and it does so from Apply.
LEMMA StepInv ==
    ASSUME SegmentInv, NEW i \in Inst,
           \A j \in Inst \ {i} : Undisturbed(j),
           Own(i)', Pairs(i)',
           Live(i)' => Live(i) \/ mon[i].pc = "Apply"
    PROVE  SegmentInv'
<1>1. \A j \in Inst : Own(j) /\ Pairs(j)
  BY InvSplit
<1>2. ASSUME NEW j \in Inst \ {i} PROVE Own(j)'
  BY <1>1, <1>2 DEF Own, Undisturbed, InSegment, Live
<1>3. ASSUME NEW j \in Inst \ {i}, NEW l \in Inst \ {i, j} PROVE Pair(j, l)'
  BY <1>1, <1>3 DEF Pairs, Pair, Undisturbed, Live
<1>4. ASSUME NEW j \in Inst \ {i} PROVE Pair(j, i)'
  <2>1. mon[i].pc = "Apply" => mon[j].pc \notin {"Load", "Revert"}
    BY <1>1 DEF Own, InSegment, Committing, CleaningUp
  <2> QED
    BY <1>1, <2>1 DEF Pairs, Pair, Undisturbed
<1>5. \A j \in Inst : Own(j)' /\ Pairs(j)'
  BY <1>2, <1>3, <1>4 DEF Pairs
<1> QED
  BY <1>5, InvSplit

\* The lock names a monitor only while that monitor works on the segment.
LEMMA NoneIsNobody == \A j \in Inst : j # None
BY ConstantsAssumption

\* What a monitor reverts is not held by an instance its criteria spares.
LEMMA SparedOp ==
    ASSUME NEW i \in Inst, NEW j \in Inst, i # j,
           NEW op \in OpsOf(i), NEW ec, Reverts(op, ec),
           User \notin ec, ec \cap Enabl[j] = {}
    PROVE  op.res \notin Needs(j)
<1> SUFFICES ASSUME NEW b \in OpsOf(j), b.res = op.res PROVE FALSE
  BY DEF Needs
<1>1. /\ op.kind \notin {"wayland", "dbus"}
      /\ op.et # Process
      /\ op.et \in Enablements => op.et \in Enabl[j]
  BY PlanAssumption
<1>2. op \in Op
  BY ConstantsAssumption DEF OpsOf
<1>3. op.et \in Types
  BY <1>2 DEF Op
<1>4. op.et \in ec
  BY <1>1 DEF Reverts, hasType
<1> QED
  BY <1>1, <1>3, <1>4 DEF Types

\* A reverting monitor takes nothing from the others.
LEMMA RevertSpares ==
    ASSUME Typed, SegmentInv, NEW i \in Inst, RevertOp(i) \/ RevertOpFail(i),
           NEW j \in Inst \ {i}
    PROVE  Undisturbed(j)
<1>0. Own(i) /\ Pairs(i) /\ Own(j)
  BY InvSplit
<1>1. mon[i].pc = "Revert" /\ InSegment(i) /\ lock = i
  BY <1>0 DEF RevertOp, RevertOpFail, Own, InSegment, CleaningUp
<1>2. mon[j].pc # "Apply"
  BY <1>0, <1>1 DEF Own, InSegment, Committing
<1>3. LastOp(i) \in OpsOf(i)
  BY LastOpKnown DEF RevertOp, RevertOpFail
<1>4. Live(j) /\ Reverts(LastOp(i), mon[i].ec) => LastOp(i).res \notin Needs(j)
  BY <1>0, <1>1, <1>3, SparedOp DEF Pairs, Pair
<1>5. Live(j) => Needs(j) \subseteq host'
  BY <1>0, <1>4 DEF RevertOp, RevertOpFail, Own
<1> QED
  BY <1>2, <1>5, RevertOpEffect, RevertOpFailEffect DEF RevertOp, RevertOpFail,
     Effect, Undisturbed

\* What a monitor that has applied all its ops needs is in place.
LEMMA AllApplied ==
    ASSUME NEW i \in Inst, mon[i].k = Len(Plan[i]),
           \A n \in 1 .. mon[i].k : Plan[i][n].res \in host
    PROVE  Needs(i) \subseteq host
BY PlanLen DEF Needs, OpsOf

\* The criteria computed from the entries that were loaded spares them.
LEMMA CriteriaSpares ==
    ASSUME NEW m, NEW j \in Inst, j \in m.alive
    PROVE  User \notin CleanupCriteria(m) /\ CleanupCriteria(m) \cap Enabl[j] = {}
<1>1. User \notin Enablements /\ Process # User /\ m.alive # {}
  BY DEF User, Process, Enablements
<1>2. Enabl[j] \subseteq RemainingEnablements(m)
  BY DEF RemainingEnablements
<1>3. Process \notin Enabl[j]
  BY ConstantsAssumption DEF Process, Enablements
<1> QED
  BY <1>1, <1>2, <1>3 DEF CleanupCriteria

\* Every step keeps the invariant.
LEMMA InvNext ==
    ASSUME Benign
    PROVE  Typed /\ DoneInterrupted /\ SegmentInv /\ [Next]_vars => SegmentInv'
<1> SUFFICES ASSUME Typed, DoneInterrupted, SegmentInv, [Next]_vars
             PROVE  SegmentInv'
  OBVIOUS
<1>0. \A i \in Inst : Own(i) /\ Pairs(i)
  BY InvSplit
<1>1. ASSUME NEW i \in Inst, Start(i) PROVE SegmentInv'
  <2>1. \A j \in Inst \ {i} : Undisturbed(j)
    BY <1>0, <1>1, StartEffect DEF Start, At, Unlock, Effect, Undisturbed, Own,
       Live
  <2>2. Own(i)'
    BY <1>0, <1>1, StartEffect DEF Start, At, Unlock, Effect, Own, Live,
       InSegment, Committing, CleaningUp
  <2>3. Pairs(i)'
    BY <1>0, <1>1, StartEffect DEF Start, At, may, Effect, SameScope, Own,
       Pairs, Pair, Live
  <2> QED
    BY <1>0, <1>1, <2>1, <2>2, <2>3, StartEffect, StepInv DEF Start, At,
       Effect, Live, Own, CleaningUp
<1>2. ASSUME NEW i \in Inst, StartFail(i) PROVE SegmentInv'
  <2>1. \A j \in Inst \ {i} : Undisturbed(j)
    BY <1>0, <1>2, StartFailEffect DEF StartFail, At, Unlock, Effect,
       Undisturbed, Own, Live
  <2>2. Own(i)'
    BY <1>0, <1>2, StartFailEffect DEF StartFail, At, Unlock, Effect, Own,
       Live, InSegment, Committing, CleaningUp
  <2>3. Pairs(i)'
    BY <1>0, <1>2, StartFailEffect DEF StartFail, At, may, Effect, SameScope,
       Own, Pairs, Pair, Live
  <2> QED
    BY <1>0, <1>2, <2>1, <2>2, <2>3, StartFailEffect, StepInv DEF StartFail,
       At, Effect, Live, Own, CleaningUp
<1>3. ASSUME NEW i \in Inst, CommitLock(i) PROVE SegmentInv'
  <2>1. \A j \in Inst \ {i} : Undisturbed(j)
    BY <1>0, <1>3, CommitLockEffect, NoneIsNobody DEF CommitLock, Effect,
       Undisturbed, Own, Live
  <2>2. Own(i)'
    BY <1>0, <1>3, CommitLockEffect DEF CommitLock, At, Unlock, Effect, Own,
       Live, InSegment, Committing, CleaningUp
  <2>3. Pairs(i)'
    BY <1>0, <1>3, CommitLockEffect DEF CommitLock, At, may, Effect, SameScope,
       Own, Pairs, Pair, Live
  <2> QED
    BY <1>0, <1>3, <2>1, <2>2, <2>3, CommitLockEffect, StepInv DEF CommitLock,
       At, Effect, Live, Own, CleaningUp
<1>4. ASSUME NEW i \in Inst, CommitLockFail(i) PROVE SegmentInv'
  BY <1>4 DEF CommitLockFail, Benign, may
<1>5. ASSUME NEW i \in Inst, SaveOpen(i) PROVE SegmentInv'
  <2>1. \A j \in Inst \ {i} : Undisturbed(j)
    BY <1>0, <1>5, SaveOpenEffect, SharedIsTyped DEF SaveOpen, SharedTyped,
       Effect, Undisturbed, Own, Live
  <2>2. Own(i)'
    BY <1>0, <1>5, SaveOpenEffect DEF SaveOpen, At, Unlock, Effect, Own, Live,
       InSegment, Committing, CleaningUp
  <2>3. Pairs(i)'
    BY <1>0, <1>5, SaveOpenEffect DEF SaveOpen, At, may, Effect, SameScope,
       Own, Pairs, Pair, Live
  <2> QED
    BY <1>0, <1>5, <2>1, <2>2, <2>3, SaveOpenEffect, StepInv DEF SaveOpen, At,
       Effect, Live, Own, CleaningUp
<1>6. ASSUME NEW i \in Inst, SaveEncode(i) PROVE SegmentInv'
  <2>1. \A j \in Inst \ {i} : Undisturbed(j)
    BY <1>0, <1>6, SaveEncodeEffect, SharedIsTyped DEF SaveEncode, SharedTyped,
       Effect, Undisturbed, Own, Live
  <2>2. Own(i)'
    BY <1>0, <1>6, SaveEncodeEffect, SharedIsTyped DEF SaveEncode, At,
       SharedTyped, Effect, Own, Live, InSegment, Committing, CleaningUp
  <2>3. Pairs(i)'
    BY <1>0, <1>6, SaveEncodeEffect DEF SaveEncode, At, may, Effect, SameScope,
       Own, Pairs, Pair, Live
  <2> QED
    BY <1>0, <1>6, <2>1, <2>2, <2>3, SaveEncodeEffect, StepInv DEF SaveEncode,
       At, Effect, Live, Own, CleaningUp
<1>7. ASSUME NEW i \in Inst, SaveFail(i) PROVE SegmentInv'
  <2>1. \A j \in Inst \ {i} : Undisturbed(j)
    BY <1>0, <1>7, SaveFailEffect, SharedIsTyped DEF SaveFail, SharedTyped,
       Unlock, Effect, Undisturbed, Own, Live
  <2>2. Own(i)'
    BY <1>0, <1>7, SaveFailEffect DEF SaveFail, At, Unlock, Effect, Own, Live,
       InSegment, Committing, CleaningUp
  <2>3. Pairs(i)'
    BY <1>0, <1>7, SaveFailEffect DEF SaveFail, At, may, Effect, SameScope,
       Own, Pairs, Pair, Live
  <2> QED
    BY <1>0, <1>7, <2>1, <2>2, <2>3, SaveFailEffect, StepInv DEF SaveFail, At,
       Effect, Live, Own, CleaningUp
<1>8. ASSUME NEW i \in Inst, WriteIdentifier(i) PROVE SegmentInv'
  <2>1. \A j \in Inst \ {i} : Undisturbed(j)
    BY <1>0, <1>8, WriteIdentifierEffect DEF WriteIdentifier, At, Unlock,
       Effect, Undisturbed, Own, Live
  <2>2. Own(i)'
    BY <1>0, <1>8, WriteIdentifierEffect DEF WriteIdentifier, At, Unlock,
       Effect, Own, Live, InSegment, Committing, CleaningUp
  <2>3. Pairs(i)'
    BY <1>0, <1>8, WriteIdentifierEffect DEF WriteIdentifier, At, may, Effect,
       SameScope, Own, Pairs, Pair, Live
  <2> QED
    BY <1>0, <1>8, <2>1, <2>2, <2>3, WriteIdentifierEffect, StepInv DEF
       WriteIdentifier, At, Effect, Live, Own, CleaningUp
<1>9. ASSUME NEW i \in Inst, WriteIdentifierFail(i) PROVE SegmentInv'
  <2>1. \A j \in Inst \ {i} : Undisturbed(j)
    BY <1>0, <1>9, WriteIdentifierFailEffect DEF WriteIdentifierFail, At,
       Unlock, Effect, Undisturbed, Own, Live
  <2>2. Own(i)'
    BY <1>0, <1>9, WriteIdentifierFailEffect DEF WriteIdentifierFail, At,
       Unlock, Effect, Own, Live, InSegment, Committing, CleaningUp
  <2>3. Pairs(i)'
    BY <1>0, <1>9, WriteIdentifierFailEffect DEF WriteIdentifierFail, At, may,
       Effect, SameScope, Own, Pairs, Pair, Live
  <2> QED
    BY <1>0, <1>9, <2>1, <2>2, <2>3, WriteIdentifierFailEffect, StepInv DEF
       WriteIdentifierFail, At, Effect, Live, Own, CleaningUp
<1>10. ASSUME NEW i \in Inst, Apply(i) PROVE SegmentInv'
  <2>1. \A j \in Inst \ {i} : Undisturbed(j)
    BY <1>0, <1>10, ApplyEffect DEF Apply, At, Unlock, Effect, Undisturbed,
       Own, Live
  <2>2. Own(i)'
    <3>1. \A n \in 1 .. mon[i].k + 1 : n \in 1 .. mon[i].k \/ n = mon[i].k + 1
      BY <1>10, MonitorTyped, PlanLen
    <3>2. \A n \in 1 .. mon[i].k + 1 : Plan[i][n].res \in host'
      BY <1>0, <1>10, <3>1 DEF Apply, At, NextOp, Own
    <3> QED
      BY <1>0, <1>10, <3>2, ApplyEffect DEF Apply, At, Effect, Own, Live,
         InSegment, Committing, CleaningUp
  <2>3. Pairs(i)'
    BY <1>0, <1>10, ApplyEffect DEF Apply, At, may, Effect, SameScope, Own,
       Pairs, Pair, Live
  <2> QED
    BY <1>0, <1>10, <2>1, <2>2, <2>3, ApplyEffect, StepInv DEF Apply, At,
       Effect, Live, Own, CleaningUp
<1>11. ASSUME NEW i \in Inst, ApplyFail(i) PROVE SegmentInv'
  BY <1>11, ApplySucceeds
<1>12. ASSUME NEW i \in Inst, CommitDone(i) PROVE SegmentInv'
  <2>1. \A j \in Inst \ {i} : Undisturbed(j)
    BY <1>0, <1>12, CommitDoneEffect DEF CommitDone, At, Unlock, Effect,
       Undisturbed, Own, Live
  <2>2. Own(i)'
    <3>1. Needs(i) \subseteq host
      BY <1>0, <1>12, AllApplied DEF CommitDone, At, Own
    <3> QED
      BY <1>0, <1>12, <3>1, CommitDoneEffect DEF CommitDone, At, Effect, Own,
         Live, InSegment, Committing, CleaningUp
  <2>3. Pairs(i)'
    BY <1>0, <1>12, CommitDoneEffect DEF CommitDone, At, may, Effect,
       SameScope, Own, Pairs, Pair, Live
  <2> QED
    BY <1>0, <1>12, <2>1, <2>2, <2>3, CommitDoneEffect, StepInv DEF CommitDone,
       At, Effect, Live, Own, CleaningUp
<1>13. ASSUME NEW i \in Inst, CommitError(i) PROVE SegmentInv'
  BY <1>0, <1>13 DEF CommitError, At, Own
<1>14. ASSUME NEW i \in Inst, ServeShim(i) PROVE SegmentInv'
  <2>1. \A j \in Inst \ {i} : Undisturbed(j)
    BY <1>0, <1>14, ServeShimEffect DEF ServeShim, At, Unlock, Effect,
       Undisturbed, Own, Live
  <2>2. Own(i)'
    BY <1>0, <1>14, ServeShimEffect DEF ServeShim, At, Unlock, Effect, Own,
       Live, InSegment, Committing, CleaningUp
  <2>3. Pairs(i)'
    BY <1>0, <1>14, ServeShimEffect DEF ServeShim, At, may, Effect, SameScope,
       Own, Pairs, Pair, Live
  <2> QED
    BY <1>0, <1>14, <2>1, <2>2, <2>3, ServeShimEffect, StepInv DEF ServeShim,
       At, Effect, Live, Own, CleaningUp
<1>15. ASSUME NEW i \in Inst, ServeShimFail(i) PROVE SegmentInv'
  <2>1. \A j \in Inst \ {i} : Undisturbed(j)
    BY <1>0, <1>15, ServeShimFailEffect DEF ServeShimFail, At, Unlock, Effect,
       Undisturbed, Own, Live
  <2>2. Own(i)'
    BY <1>0, <1>15, ServeShimFailEffect DEF ServeShimFail, At, Unlock, Effect,
       Own, Live, InSegment, Committing, CleaningUp
  <2>3. Pairs(i)'
    BY <1>0, <1>15, ServeShimFailEffect DEF ServeShimFail, At, may, Effect,
       SameScope, Own, Pairs, Pair, Live
  <2> QED
    BY <1>0, <1>15, <2>1, <2>2, <2>3, ServeShimFailEffect, StepInv DEF
       ServeShimFail, At, Effect, Live, Own, CleaningUp
<1>16. ASSUME NEW i \in Inst, ShimWait(i) PROVE SegmentInv'
  <2>1. \A j \in Inst \ {i} : Undisturbed(j)
    BY <1>0, <1>16, ShimWaitEffect DEF ShimWait, At, Unlock, Effect,
       Undisturbed, Own, Live
  <2>2. Own(i)'
    BY <1>0, <1>16, ShimWaitEffect DEF ShimWait, At, Unlock, Effect, Own, Live,
       InSegment, Committing, CleaningUp
  <2>3. Pairs(i)'
    BY <1>0, <1>16, ShimWaitEffect DEF ShimWait, At, may, Effect, SameScope,
       Own, Pairs, Pair, Live
  <2> QED
    BY <1>0, <1>16, <2>1, <2>2, <2>3, ShimWaitEffect, StepInv DEF ShimWait, At,
       Effect, Live, Own, CleaningUp
<1>17. ASSUME NEW i \in Inst, ShimTimeout(i) PROVE SegmentInv'
  <2>1. \A j \in Inst \ {i} : Undisturbed(j)
    BY <1>0, <1>17, ShimTimeoutEffect DEF ShimTimeout, At, Unlock, Effect,
       Undisturbed, Own, Live
  <2>2. Own(i)'
    BY <1>0, <1>17, ShimTimeoutEffect DEF ShimTimeout, At, Unlock, Effect, Own,
       Live, InSegment, Committing, CleaningUp
  <2>3. Pairs(i)'
    BY <1>0, <1>17, ShimTimeoutEffect DEF ShimTimeout, At, may, Effect,
       SameScope, Own, Pairs, Pair, Live
  <2> QED
    BY <1>0, <1>17, <2>1, <2>2, <2>3, ShimTimeoutEffect, StepInv DEF
       ShimTimeout, At, Effect, Live, Own, CleaningUp
<1>18. ASSUME NEW i \in Inst, CleanupLock(i) PROVE SegmentInv'
  <2>1. \A j \in Inst \ {i} : Undisturbed(j)
    BY <1>0, <1>18, CleanupLockEffect, NoneIsNobody DEF CleanupLock, Effect,
       Undisturbed, Own, Live
  <2>2. Own(i)'
    BY <1>0, <1>18, CleanupLockEffect DEF CleanupLock, At, Unlock, Effect, Own,
       Live, InSegment, Committing, CleaningUp
  <2>3. Pairs(i)'
    BY <1>0, <1>18, CleanupLockEffect DEF CleanupLock, At, may, Effect,
       SameScope, Own, Pairs, Pair, Live
  <2> QED
    BY <1>0, <1>18, <2>1, <2>2, <2>3, CleanupLockEffect, StepInv DEF
       CleanupLock, At, Effect, Live, Own, CleaningUp
<1>19. ASSUME NEW i \in Inst, CleanupLockFail(i) PROVE SegmentInv'
  BY <1>19 DEF CleanupLockFail, Benign, may
<1>20. ASSUME NEW i \in Inst, ReadEntries(i) PROVE SegmentInv'
  <2>1. \A j \in Inst \ {i} : Undisturbed(j)
    BY <1>0, <1>20, ReadEntriesEffect DEF ReadEntries, At, Unlock, Effect,
       Undisturbed, Own, Live
  <2>2. Own(i)'
    BY <1>0, <1>20, ReadEntriesEffect DEF ReadEntries, At, Unlock, Effect, Own,
       Live, InSegment, Committing, CleaningUp
  <2>3. Pairs(i)'
    BY <1>0, <1>20, ReadEntriesEffect DEF ReadEntries, At, may, Effect,
       SameScope, Own, Pairs, Pair, Live
  <2> QED
    BY <1>0, <1>20, <2>1, <2>2, <2>3, ReadEntriesEffect, StepInv DEF
       ReadEntries, At, Effect, Live, Own, CleaningUp
<1>21. ASSUME NEW i \in Inst, ReadEntriesFail(i) PROVE SegmentInv'
  <2>1. \A j \in Inst \ {i} : Undisturbed(j)
    BY <1>0, <1>21, ReadEntriesFailEffect DEF ReadEntriesFail, At, Unlock,
       Effect, Undisturbed, Own, Live
  <2>2. Own(i)'
    BY <1>0, <1>21, ReadEntriesFailEffect DEF ReadEntriesFail, At, Unlock,
       Effect, Own, Live, InSegment, Committing, CleaningUp
  <2>3. Pairs(i)'
    <3>1. ASSUME NEW j \in Inst PROVE User \notin {Process} /\ {Process} \cap Enabl[j] = {}
      BY <3>1, ConstantsAssumption DEF User, Process, Enablements
    <3> QED
      BY <1>21, <3>1, ReadEntriesFailEffect DEF Effect, Pairs, Pair
  <2> QED
    BY <1>0, <1>21, <2>1, <2>2, <2>3, ReadEntriesFailEffect, StepInv DEF
       ReadEntriesFail, At, Effect, Live, Own, CleaningUp
<1>22. ASSUME NEW i \in Inst, NEW l \in Inst, LoadEntry(i, l) PROVE SegmentInv'
  <2>1. \A j \in Inst \ {i} : Undisturbed(j)
    BY <1>0, <1>22, LoadEntryEffect DEF LoadEntry, At, Unlock, Effect,
       Undisturbed, Own, Live
  <2>2. Own(i)'
    BY <1>0, <1>22, LoadEntryEffect DEF LoadEntry, At, Unlock, Effect, Own,
       Live, InSegment, Committing, CleaningUp
  <2>3. Pairs(i)'
    <3>1. /\ mon[i].pc = "Load" /\ mon'[i].pc = "Load"
          /\ mon[i].pending \cup mon[i].alive \subseteq mon'[i].pending \cup mon'[i].alive
      BY <1>22, LoadEntryEffect DEF LoadEntry, At, Effect
    <3> QED
      BY <1>0, <1>22, <3>1, LoadEntryEffect DEF Effect, Pairs, Pair, Live
  <2> QED
    BY <1>0, <1>22, <2>1, <2>2, <2>3, LoadEntryEffect, StepInv DEF LoadEntry,
       At, Effect, Live, Own, CleaningUp
<1>23. ASSUME NEW i \in Inst, NEW l \in Inst, LoadEntryFail(i, l) PROVE SegmentInv'
  <2>1. \A j \in Inst \ {i} : Undisturbed(j)
    BY <1>0, <1>23, LoadEntryFailEffect DEF LoadEntryFail, At, Unlock, Effect,
       Undisturbed, Own, Live
  <2>2. Own(i)'
    BY <1>0, <1>23, LoadEntryFailEffect DEF LoadEntryFail, At, Unlock, Effect,
       Own, Live, InSegment, Committing, CleaningUp
  <2>3. Pairs(i)'
    <3>1. ~Live(l)
      BY <1>0, <1>23 DEF LoadEntryFail, may, Benign, Own
    <3> QED
      BY <1>0, <1>23, <3>1, LoadEntryFailEffect DEF LoadEntryFail, At, Effect,
         Pairs, Pair, Live
  <2> QED
    BY <1>0, <1>23, <2>1, <2>2, <2>3, LoadEntryFailEffect, StepInv DEF
       LoadEntryFail, At, Effect, Live, Own, CleaningUp
<1>24. ASSUME NEW i \in Inst, BeginRevert(i) PROVE SegmentInv'
  <2>1. \A j \in Inst \ {i} : Undisturbed(j)
    BY <1>0, <1>24, BeginRevertEffect DEF BeginRevert, At, Unlock, Effect,
       Undisturbed, Own, Live
  <2>2. Own(i)'
    BY <1>0, <1>24, BeginRevertEffect DEF BeginRevert, At, Unlock, Effect, Own,
       Live, InSegment, Committing, CleaningUp
  <2>3. Pairs(i)'
    <3>1. ASSUME NEW j \in Inst \ {i}, Live(j)
          PROVE  User \notin CleanupCriteria(mon[i]) /\ CleanupCriteria(mon[i]) \cap Enabl[j] = {}
      BY <1>0, <1>24, <3>1, CriteriaSpares DEF BeginRevert, At, Pairs, Pair
    <3> QED
      BY <1>24, <3>1, BeginRevertEffect DEF Effect, Pairs, Pair, Live
  <2> QED
    BY <1>0, <1>24, <2>1, <2>2, <2>3, BeginRevertEffect, StepInv DEF
       BeginRevert, At, Effect, Live, Own, CleaningUp
<1>25. ASSUME NEW i \in Inst, RevertOp(i) PROVE SegmentInv'
  <2>1. \A j \in Inst \ {i} : Undisturbed(j)
    BY <1>25, RevertSpares
  <2>2. Own(i)'
    BY <1>0, <1>25, RevertOpEffect DEF RevertOp, At, Unlock, Effect, Own, Live,
       InSegment, Committing, CleaningUp
  <2>3. Pairs(i)'
    BY <1>0, <1>25, RevertOpEffect DEF Effect, SameScope, Own, Pairs, Pair,
       Live
  <2> QED
    BY <1>0, <1>25, <2>1, <2>2, <2>3, RevertOpEffect, StepInv DEF RevertOp, At,
       Effect, Live, Own, CleaningUp
<1>26. ASSUME NEW i \in Inst, RevertDone(i) PROVE SegmentInv'
  <2>1. \A j \in Inst \ {i} : Undisturbed(j)
    BY <1>0, <1>26, RevertDoneEffect DEF RevertDone, At, Unlock, Effect,
       Undisturbed, Own, Live
  <2>2. Own(i)'
    BY <1>0, <1>26, RevertDoneEffect DEF RevertDone, At, Unlock, Effect, Own,
       Live, InSegment, Committing, CleaningUp
  <2>3. Pairs(i)'
    BY <1>0, <1>26, RevertDoneEffect DEF RevertDone, At, may, Effect,
       SameScope, Own, Pairs, Pair, Live
  <2> QED
    BY <1>0, <1>26, <2>1, <2>2, <2>3, RevertDoneEffect, StepInv DEF RevertDone,
       At, Effect, Live, Own, CleaningUp
<1>27. ASSUME NEW i \in Inst, Cancel(i) PROVE SegmentInv'
  <2>1. \A j \in Inst \ {i} : Undisturbed(j)
    BY <1>0, <1>27, CancelEffect DEF Cancel, At, Unlock, Effect, Undisturbed,
       Own, Live
  <2>2. Own(i)'
    BY <1>0, <1>27, CancelEffect DEF Cancel, At, Unlock, Effect, Own, Live,
       InSegment, Committing, CleaningUp
  <2>3. Pairs(i)'
    BY <1>0, <1>27, CancelEffect DEF Cancel, At, may, Effect, SameScope, Own,
       Pairs, Pair, Live
  <2> QED
    BY <1>0, <1>27, <2>1, <2>2, <2>3, CancelEffect, StepInv DEF Cancel, At,
       Effect, Live, Own, CleaningUp
<1>28. ASSUME NEW i \in Inst, Kill(i) PROVE SegmentInv'
  <2>1. \A j \in Inst \ {i} : Undisturbed(j)
    BY <1>0, <1>28, KillEffect DEF Kill, At, Unlock, Effect, Undisturbed, Own,
       Live
  <2>2. Own(i)'
    BY <1>0, <1>28, KillEffect DEF Kill, At, Unlock, Effect, Own, Live,
       InSegment, Committing, CleaningUp
  <2>3. Pairs(i)'
    BY <1>0, <1>28, KillEffect DEF Kill, At, may, Effect, SameScope, Own,
       Pairs, Pair, Live
  <2> QED
    BY <1>0, <1>28, <2>1, <2>2, <2>3, KillEffect, StepInv DEF Kill, At, Effect,
       Live, Own, CleaningUp
<1>29. ASSUME NEW i \in Inst, DestroyEntry(i) PROVE SegmentInv'
  <2>1. \A j \in Inst \ {i} : Undisturbed(j)
    BY <1>0, <1>29, DestroyEffect, SharedIsTyped DEF DestroyEntry,
       AfterDestroy, SharedTyped, Unlock, Effect, Undisturbed, Own, Live
  <2>2. Own(i)'
    <3>1. mon[i].isBeforeRevert => lock' = lock
      BY <1>29, MonitorTyped, PerrorIfType DEF DestroyEntry, AfterDestroy
    <3>2. lock = i
      BY <1>0, <1>29 DEF DestroyEntry, At, Own, InSegment, CleaningUp
    <3> QED
      BY <1>0, <1>29, <3>1, <3>2, DestroyEffect DEF Effect, Own, Live,
         InSegment, Committing, CleaningUp
  <2>3. Pairs(i)'
    BY <1>0, <1>29, DestroyEffect DEF DestroyEntry, At, may, Effect, SameScope,
       Own, Pairs, Pair, Live
  <2> QED
    BY <1>0, <1>29, <2>1, <2>2, <2>3, DestroyEffect, StepInv DEF DestroyEntry,
       At, Effect, Live, Own, CleaningUp
<1>30. ASSUME NEW i \in Inst, DestroyEntryFail(i) PROVE SegmentInv'
  <2>1. \A j \in Inst \ {i} : Undisturbed(j)
    BY <1>0, <1>30, DestroyEffect DEF DestroyEntryFail, AfterDestroy, At,
       Unlock, Effect, Undisturbed, Own, Live
  <2>2. Own(i)'
    <3>1. mon[i].isBeforeRevert => lock' = lock
      BY <1>30, MonitorTyped, PerrorType DEF DestroyEntryFail, AfterDestroy
    <3>2. lock = i
      BY <1>0, <1>30 DEF DestroyEntryFail, At, Own, InSegment, CleaningUp
    <3> QED
      BY <1>0, <1>30, <3>1, <3>2, DestroyEffect DEF Effect, Own, Live,
         InSegment, Committing, CleaningUp
  <2>3. Pairs(i)'
    BY <1>0, <1>30, DestroyEffect DEF DestroyEntryFail, At, may, Effect,
       SameScope, Own, Pairs, Pair, Live
  <2> QED
    BY <1>0, <1>30, <2>1, <2>2, <2>3, DestroyEffect, StepInv DEF
       DestroyEntryFail, At, Effect, Live, Own, CleaningUp
<1>31. ASSUME NEW i \in Inst, RevertOpFail(i) PROVE SegmentInv'
  <2>1. \A j \in Inst \ {i} : Undisturbed(j)
    BY <1>31, RevertSpares
  <2>2. Own(i)'
    BY <1>0, <1>31, RevertOpFailEffect DEF RevertOpFail, At, Unlock, Effect,
       Own, Live, InSegment, Committing, CleaningUp
  <2>3. Pairs(i)'
    BY <1>0, <1>31, RevertOpFailEffect DEF Effect, SameScope, Own, Pairs, Pair,
       Live
  <2> QED
    BY <1>0, <1>31, <2>1, <2>2, <2>3, RevertOpFailEffect, StepInv DEF
       RevertOpFail, At, Effect, Live, Own, CleaningUp
<1>32. ASSUME NEW i \in Inst, ShimExit(i) PROVE SegmentInv'
  BY <1>0, <1>32, ShimExitEffect, InvSplit DEF Own, Pairs, Pair, Live,
     InSegment
<1>33. CASE UNCHANGED vars
  BY <1>0, <1>33, InvSplit DEF vars, Own, Pairs, Pair, Live, InSegment
<1> QED
  BY <1>1, <1>2, <1>3, <1>4, <1>5, <1>6, <1>7, <1>8, <1>9, <1>10, <1>11, <1>12,
     <1>13, <1>14, <1>15, <1>16, <1>17, <1>18, <1>19, <1>20, <1>21, <1>22,
     <1>23, <1>24, <1>25, <1>26, <1>27, <1>28, <1>29, <1>30, <1>31, <1>32,
     <1>33 DEF Next, MonitorStep, AllEnded

\* Under a segment lock and entry headers that do not fail, and as long as no
\* commit is rolled back, no monitor takes away what another one relies on,
\* for any number of instances and any plans that satisfy PlanAssumption.
THEOREM SegmentSafe == ASSUME Benign PROVE Spec => []SegmentInv
<1>1. Init => Typed /\ DoneInterrupted /\ SegmentInv
  BY TypedInit, DoneNext, InvInit
<1>2. Typed /\ DoneInterrupted /\ SegmentInv /\ [Next]_vars
         => (Typed /\ DoneInterrupted /\ SegmentInv)'
  BY TypedNext, DoneNext, InvNext
<1> QED
  BY <1>1, <1>2, PTL DEF Spec

\* In particular a container whose setup was committed keeps all of it until
\* its own monitor cleans up.
THEOREM LiveSafe == ASSUME Benign PROVE Spec => []LiveResources
<1>1. SegmentInv => LiveResources
  BY DEF SegmentInv
<1> QED
  BY <1>1, SegmentSafe, PTL

-----------------------------------------------------------------------------
(***************************************************************************)
(* Lifecycle implements Lease.                                             *)
(***************************************************************************)

\* A step of monitor i that leaves the host alone is a step of Lease: i joins
\* when it becomes live, leaves when it stops being live, or nothing happens.
LEMMA HostSame ==
    ASSUME NEW i \in Inst, \A j \in Inst \ {i} : mon'[j] = mon[j],
           UNCHANGED host, SegmentInv'
    PROVE  [Promise!Next]_(Promise!vars)
<1>1. \A j \in Inst \ {i} : j \in LiveSet' <=> j \in LiveSet
  BY DEF LiveSet, Live
<1>2. LiveSet \subseteq Inst /\ LiveSet' \subseteq Inst
  BY DEF LiveSet
<1>3. CASE i \in LiveSet' /\ i \notin LiveSet
  <2>1. LiveSet' = LiveSet \cup {i}
    BY <1>1, <1>2, <1>3
  <2>2. Needs(i) \subseteq host
    BY <1>3 DEF LiveSet, SegmentInv, LiveResources
  <2>3. Promise!Join(i)
    BY <2>1, <2>2 DEF Promise!Join
  <2> QED
    BY <2>3 DEF Promise!Next
<1>4. CASE i \notin LiveSet' /\ i \in LiveSet
  <2>1. LiveSet' = LiveSet \ {i}
    BY <1>1, <1>2, <1>4
  <2>2. Promise!Leave(i)
    BY <2>1 DEF Promise!Leave
  <2> QED
    BY <2>2 DEF Promise!Next
<1>5. CASE i \in LiveSet' <=> i \in LiveSet
  <2>1. LiveSet' = LiveSet
    BY <1>1, <1>2, <1>5
  <2> QED
    BY <2>1 DEF Promise!vars
<1> QED
  BY <1>3, <1>4, <1>5

\* A step of a monitor that stays as live as it was leaves the users alone.
LEMMA UsersSame ==
    ASSUME NEW i \in Inst, \A j \in Inst \ {i} : mon'[j] = mon[j],
           mon'[i].pc = mon[i].pc, mon'[i].isBeforeRevert = mon[i].isBeforeRevert
    PROVE  LiveSet' = LiveSet
BY DEF LiveSet, Live

\* The resource of an op is one of the resources of Lease.
LEMMA Leased ==
    ASSUME NEW i \in Inst, NEW op \in OpsOf(i)
    PROVE  op.res \in UNION {[j \in Inst |-> Needs(j)][l] : l \in Inst}
BY DEF Needs

\* Applying an op acquires its resource.
LEMMA ApplyAcquires ==
    ASSUME Typed, NEW i \in Inst, Apply(i)
    PROVE  [Promise!Next]_(Promise!vars)
<1>1. LiveSet' = LiveSet
  BY ApplyEffect, UsersSame DEF Apply, At, Effect
<1>2. NextOp(i) \in OpsOf(i)
  BY NextOpKnown DEF Apply
<1>3. Promise!Acquire(NextOp(i).res)
  BY <1>1 DEF Apply, Promise!Acquire
<1> QED
  BY <1>2, <1>3, Leased DEF Promise!Next

\* Reverting an op releases its resource, or leaves it alone.
LEMMA RevertReleases ==
    ASSUME Typed, SegmentInv, NEW i \in Inst, RevertOp(i) \/ RevertOpFail(i)
    PROVE  [Promise!Next]_(Promise!vars)
<1>1. LiveSet' = LiveSet
  BY RevertOpEffect, RevertOpFailEffect, UsersSame DEF Effect
<1>2. LastOp(i) \in OpsOf(i)
  BY LastOpKnown DEF RevertOp, RevertOpFail
<1>3. CASE UNCHANGED host
  BY <1>1, <1>3 DEF Promise!vars
<1>4. CASE host' = host \ {LastOp(i).res}
  <2>1. i \notin LiveSet
    BY DEF RevertOp, RevertOpFail, LiveSet, Live
  <2>2. ASSUME NEW j \in LiveSet PROVE LastOp(i).res \notin Needs(j)
    <3>1. j \in Inst \ {i} /\ Live(j)
      BY <2>1, <2>2 DEF LiveSet
    <3>2. Needs(j) \subseteq host'
      BY <3>1, RevertSpares DEF Undisturbed
    <3> QED
      BY <1>4, <3>2
  <2>3. Promise!Release(LastOp(i).res)
    BY <1>1, <1>4, <2>2 DEF Promise!Release, LiveSet
  <2> QED
    BY <1>2, <2>3, Leased DEF Promise!Next
<1> QED
  BY <1>3, <1>4 DEF RevertOp, RevertOpFail

\* Every step of Lifecycle is a step of Lease or leaves its variables alone.
LEMMA StepSimulates ==
    ASSUME Benign, Typed, DoneInterrupted, SegmentInv, SegmentInv', [Next]_vars
    PROVE  [Promise!Next]_(Promise!vars)
<1>1. ASSUME NEW i \in Inst, Start(i) PROVE [Promise!Next]_(Promise!vars)
  BY <1>1, StartEffect, HostSame DEF Start, Effect
<1>2. ASSUME NEW i \in Inst, StartFail(i) PROVE [Promise!Next]_(Promise!vars)
  BY <1>2, StartFailEffect, HostSame DEF StartFail, Effect
<1>3. ASSUME NEW i \in Inst, CommitLock(i) PROVE [Promise!Next]_(Promise!vars)
  BY <1>3, CommitLockEffect, HostSame DEF CommitLock, Effect
<1>4. ASSUME NEW i \in Inst, CommitLockFail(i) PROVE [Promise!Next]_(Promise!vars)
  BY <1>4, CommitLockFailEffect, HostSame DEF CommitLockFail, Effect
<1>5. ASSUME NEW i \in Inst, SaveOpen(i) PROVE [Promise!Next]_(Promise!vars)
  BY <1>5, SaveOpenEffect, HostSame DEF SaveOpen, Effect
<1>6. ASSUME NEW i \in Inst, SaveEncode(i) PROVE [Promise!Next]_(Promise!vars)
  BY <1>6, SaveEncodeEffect, HostSame DEF SaveEncode, Effect
<1>7. ASSUME NEW i \in Inst, SaveFail(i) PROVE [Promise!Next]_(Promise!vars)
  BY <1>7, SaveFailEffect, HostSame DEF SaveFail, Effect
<1>8. ASSUME NEW i \in Inst, WriteIdentifier(i) PROVE [Promise!Next]_(Promise!vars)
  BY <1>8, WriteIdentifierEffect, HostSame DEF WriteIdentifier, Effect
<1>9. ASSUME NEW i \in Inst, WriteIdentifierFail(i) PROVE [Promise!Next]_(Promise!vars)
  BY <1>9, WriteIdentifierFailEffect, HostSame DEF WriteIdentifierFail, Effect
<1>10. ASSUME NEW i \in Inst, Apply(i) PROVE [Promise!Next]_(Promise!vars)
  BY <1>10, ApplyAcquires
<1>11. ASSUME NEW i \in Inst, ApplyFail(i) PROVE [Promise!Next]_(Promise!vars)
  BY <1>11, ApplySucceeds
<1>12. ASSUME NEW i \in Inst, CommitDone(i) PROVE [Promise!Next]_(Promise!vars)
  BY <1>12, CommitDoneEffect, HostSame DEF CommitDone, Effect
<1>13. ASSUME NEW i \in Inst, CommitError(i) PROVE [Promise!Next]_(Promise!vars)
  BY <1>13, CommitErrorEffect, HostSame DEF CommitError, Effect
<1>14. ASSUME NEW i \in Inst, ServeShim(i) PROVE [Promise!Next]_(Promise!vars)
  BY <1>14, ServeShimEffect, HostSame DEF ServeShim, Effect
<1>15. ASSUME NEW i \in Inst, ServeShimFail(i) PROVE [Promise!Next]_(Promise!vars)
  BY <1>15, ServeShimFailEffect, HostSame DEF ServeShimFail, Effect
<1>16. ASSUME NEW i \in Inst, ShimWait(i) PROVE [Promise!Next]_(Promise!vars)
  BY <1>16, ShimWaitEffect, HostSame DEF ShimWait, Effect
<1>17. ASSUME NEW i \in Inst, ShimTimeout(i) PROVE [Promise!Next]_(Promise!vars)
  BY <1>17, ShimTimeoutEffect, HostSame DEF ShimTimeout, Effect
<1>18. ASSUME NEW i \in Inst, CleanupLock(i) PROVE [Promise!Next]_(Promise!vars)
  BY <1>18, CleanupLockEffect, HostSame DEF CleanupLock, Effect
<1>19. ASSUME NEW i \in Inst, CleanupLockFail(i) PROVE [Promise!Next]_(Promise!vars)
  BY <1>19, CleanupLockFailEffect, HostSame DEF CleanupLockFail, Effect
<1>20. ASSUME NEW i \in Inst, ReadEntries(i) PROVE [Promise!Next]_(Promise!vars)
  BY <1>20, ReadEntriesEffect, HostSame DEF ReadEntries, Effect
<1>21. ASSUME NEW i \in Inst, ReadEntriesFail(i) PROVE [Promise!Next]_(Promise!vars)
  BY <1>21, ReadEntriesFailEffect, HostSame DEF ReadEntriesFail, Effect
<1>22. ASSUME NEW i \in Inst, NEW l \in Inst, LoadEntry(i, l) PROVE [Promise!Next]_(Promise!vars)
  BY <1>22, LoadEntryEffect, HostSame DEF LoadEntry, Effect
<1>23. ASSUME NEW i \in Inst, NEW l \in Inst, LoadEntryFail(i, l) PROVE [Promise!Next]_(Promise!vars)
  BY <1>23, LoadEntryFailEffect, HostSame DEF LoadEntryFail, Effect
<1>24. ASSUME NEW i \in Inst, BeginRevert(i) PROVE [Promise!Next]_(Promise!vars)
  BY <1>24, BeginRevertEffect, HostSame DEF BeginRevert, Effect
<1>25. ASSUME NEW i \in Inst, RevertOp(i) PROVE [Promise!Next]_(Promise!vars)
  BY <1>25, RevertReleases
<1>26. ASSUME NEW i \in Inst, RevertDone(i) PROVE [Promise!Next]_(Promise!vars)
  BY <1>26, RevertDoneEffect, HostSame DEF RevertDone, Effect
<1>27. ASSUME NEW i \in Inst, Cancel(i) PROVE [Promise!Next]_(Promise!vars)
  BY <1>27, CancelEffect, HostSame DEF Cancel, Effect
<1>28. ASSUME NEW i \in Inst, Kill(i) PROVE [Promise!Next]_(Promise!vars)
  BY <1>28, KillEffect, HostSame DEF Kill, Effect
<1>29. ASSUME NEW i \in Inst, DestroyEntry(i) PROVE [Promise!Next]_(Promise!vars)
  BY <1>29, DestroyEffect, HostSame DEF DestroyEntry, Effect
<1>30. ASSUME NEW i \in Inst, DestroyEntryFail(i) PROVE [Promise!Next]_(Promise!vars)
  BY <1>30, DestroyEffect, HostSame DEF DestroyEntryFail, Effect
<1>31. ASSUME NEW i \in Inst, RevertOpFail(i) PROVE [Promise!Next]_(Promise!vars)
  BY <1>31, RevertReleases
<1>32. ASSUME NEW i \in Inst, ShimExit(i) PROVE [Promise!Next]_(Promise!vars)
  BY <1>32, HostSame DEF ShimExit
<1>33. CASE UNCHANGED vars
  BY <1>33 DEF vars, Promise!vars, LiveSet, Live
<1> QED
  BY <1>1, <1>2, <1>3, <1>4, <1>5, <1>6, <1>7, <1>8, <1>9, <1>10, <1>11,
     <1>12, <1>13, <1>14, <1>15, <1>16, <1>17, <1>18, <1>19, <1>20, <1>21,
     <1>22, <1>23, <1>24, <1>25, <1>26, <1>27, <1>28, <1>29, <1>30, <1>31,
     <1>32, <1>33 DEF Next, MonitorStep, AllEnded

\* Nobody is live, and nothing is on the host, at first.
LEMMA InitSimulates == Init => Promise!Init
BY DEF Init, Promise!Init, LiveSet, Live, NewMonitor

\* The monitors of an identity implement Lease: a container is live only with
\* everything it needs present, and nothing a live container needs is
\* released, under the assumptions of SegmentSafe.
THEOREM Refinement == ASSUME Benign PROVE Spec => LeaseSpec
<1>1. Typed /\ DoneInterrupted /\ SegmentInv /\ SegmentInv' /\ [Next]_vars
         => [Promise!Next]_(Promise!vars)
  BY StepSimulates
<1>2. Spec => [](Typed /\ DoneInterrupted /\ SegmentInv)
  <2>1. Init => Typed /\ DoneInterrupted /\ SegmentInv
    BY TypedInit, DoneNext, InvInit
  <2>2. Typed /\ DoneInterrupted /\ SegmentInv /\ [Next]_vars
           => (Typed /\ DoneInterrupted /\ SegmentInv)'
    BY TypedNext, DoneNext, InvNext
  <2> QED
    BY <2>1, <2>2, PTL DEF Spec
<1> QED
  BY <1>1, <1>2, InitSimulates, PTL DEF Spec, LeaseSpec, Promise!Spec

-----------------------------------------------------------------------------
(***************************************************************************)
(* Mutual exclusion, whatever else may fail.                               *)
(***************************************************************************)

\* A step of i that takes the lock from nobody keeps the others covered.
LEMMA LockStep ==
    ASSUME SegmentLocked, NEW i \in Inst,
           \A j \in Inst \ {i} : mon'[j] = mon[j],
           \A j \in Inst \ {i} : lock = j => lock' = j,
           InSegment(i)' => lock' = i
    PROVE  SegmentLocked'
BY DEF SegmentLocked, InSegment

\* Every step keeps the segment locked.
LEMMA LockedNext ==
    ASSUME "lock" \notin Faults
    PROVE  Typed /\ SegmentLocked /\ [Next]_vars => SegmentLocked'
<1> SUFFICES ASSUME Typed, SegmentLocked, [Next]_vars PROVE SegmentLocked'
  OBVIOUS
<1>0. \A i \in Inst : InSegment(i) => lock = i
  BY DEF SegmentLocked
<1>1. ASSUME NEW i \in Inst, Start(i) PROVE SegmentLocked'
  BY <1>0, <1>1, StartEffect, LockStep DEF Start, At, Unlock, Effect,
     InSegment, Committing, CleaningUp
<1>2. ASSUME NEW i \in Inst, StartFail(i) PROVE SegmentLocked'
  BY <1>0, <1>2, StartFailEffect, LockStep DEF StartFail, At, Unlock, Effect,
     InSegment, Committing, CleaningUp
<1>3. ASSUME NEW i \in Inst, CommitLock(i) PROVE SegmentLocked'
  BY <1>0, <1>3, CommitLockEffect, LockStep, NoneIsNobody DEF CommitLock, At,
     Unlock, Effect, InSegment, Committing, CleaningUp
<1>4. ASSUME NEW i \in Inst, CommitLockFail(i) PROVE SegmentLocked'
  BY <1>4 DEF CommitLockFail, may
<1>5. ASSUME NEW i \in Inst, SaveOpen(i) PROVE SegmentLocked'
  BY <1>0, <1>5, SaveOpenEffect, LockStep DEF SaveOpen, At, Unlock, Effect,
     InSegment, Committing, CleaningUp
<1>6. ASSUME NEW i \in Inst, SaveEncode(i) PROVE SegmentLocked'
  BY <1>0, <1>6, SaveEncodeEffect, LockStep DEF SaveEncode, At, Unlock,
     Effect, InSegment, Committing, CleaningUp
<1>7. ASSUME NEW i \in Inst, SaveFail(i) PROVE SegmentLocked'
  BY <1>0, <1>7, SaveFailEffect, LockStep DEF SaveFail, At, Unlock, Effect,
     InSegment, Committing, CleaningUp
<1>8. ASSUME NEW i \in Inst, WriteIdentifier(i) PROVE SegmentLocked'
  BY <1>0, <1>8, WriteIdentifierEffect, LockStep DEF WriteIdentifier, At,
     Unlock, Effect, InSegment, Committing, CleaningUp
<1>9. ASSUME NEW i \in Inst, WriteIdentifierFail(i) PROVE SegmentLocked'
  BY <1>0, <1>9, WriteIdentifierFailEffect, LockStep DEF WriteIdentifierFail,
     At, Unlock, Effect, InSegment, Committing, CleaningUp
<1>10. ASSUME NEW i \in Inst, Apply(i) PROVE SegmentLocked'
  BY <1>0, <1>10, ApplyEffect, LockStep DEF Apply, At, Unlock, Effect,
     InSegment, Committing, CleaningUp
<1>11. ASSUME NEW i \in Inst, ApplyFail(i) PROVE SegmentLocked'
  BY <1>0, <1>11, ApplyFailEffect, LockStep DEF ApplyFail, At, Unlock, Effect,
     InSegment, Committing, CleaningUp
<1>12. ASSUME NEW i \in Inst, CommitDone(i) PROVE SegmentLocked'
  BY <1>0, <1>12, CommitDoneEffect, LockStep DEF CommitDone, At, Unlock,
     Effect, InSegment, Committing, CleaningUp
<1>13. ASSUME NEW i \in Inst, CommitError(i) PROVE SegmentLocked'
  BY <1>0, <1>13, CommitErrorEffect, LockStep DEF CommitError, At, Unlock,
     Effect, InSegment, Committing, CleaningUp
<1>14. ASSUME NEW i \in Inst, ServeShim(i) PROVE SegmentLocked'
  BY <1>0, <1>14, ServeShimEffect, LockStep DEF ServeShim, At, Unlock, Effect,
     InSegment, Committing, CleaningUp
<1>15. ASSUME NEW i \in Inst, ServeShimFail(i) PROVE SegmentLocked'
  BY <1>0, <1>15, ServeShimFailEffect, LockStep DEF ServeShimFail, At, Unlock,
     Effect, InSegment, Committing, CleaningUp
<1>16. ASSUME NEW i \in Inst, ShimWait(i) PROVE SegmentLocked'
  BY <1>0, <1>16, ShimWaitEffect, LockStep DEF ShimWait, At, Unlock, Effect,
     InSegment, Committing, CleaningUp
<1>17. ASSUME NEW i \in Inst, ShimTimeout(i) PROVE SegmentLocked'
  BY <1>0, <1>17, ShimTimeoutEffect, LockStep DEF ShimTimeout, At, Unlock,
     Effect, InSegment, Committing, CleaningUp
<1>18. ASSUME NEW i \in Inst, CleanupLock(i) PROVE SegmentLocked'
  BY <1>0, <1>18, CleanupLockEffect, LockStep, NoneIsNobody DEF CleanupLock,
     At, Unlock, Effect, InSegment, Committing, CleaningUp
<1>19. ASSUME NEW i \in Inst, CleanupLockFail(i) PROVE SegmentLocked'
  BY <1>19 DEF CleanupLockFail, may
<1>20. ASSUME NEW i \in Inst, ReadEntries(i) PROVE SegmentLocked'
  BY <1>0, <1>20, ReadEntriesEffect, LockStep DEF ReadEntries, At, Unlock,
     Effect, InSegment, Committing, CleaningUp
<1>21. ASSUME NEW i \in Inst, ReadEntriesFail(i) PROVE SegmentLocked'
  BY <1>0, <1>21, ReadEntriesFailEffect, LockStep DEF ReadEntriesFail, At,
     Unlock, Effect, InSegment, Committing, CleaningUp
<1>22. ASSUME NEW i \in Inst, NEW l \in Inst, LoadEntry(i, l) PROVE SegmentLocked'
  BY <1>0, <1>22, LoadEntryEffect, LockStep DEF LoadEntry, At, Unlock, Effect,
     InSegment, Committing, CleaningUp
<1>23. ASSUME NEW i \in Inst, NEW l \in Inst, LoadEntryFail(i, l) PROVE SegmentLocked'
  BY <1>0, <1>23, LoadEntryFailEffect, LockStep DEF LoadEntryFail, At, Unlock,
     Effect, InSegment, Committing, CleaningUp
<1>24. ASSUME NEW i \in Inst, BeginRevert(i) PROVE SegmentLocked'
  BY <1>0, <1>24, BeginRevertEffect, LockStep DEF BeginRevert, At, Unlock,
     Effect, InSegment, Committing, CleaningUp
<1>25. ASSUME NEW i \in Inst, RevertOp(i) PROVE SegmentLocked'
  BY <1>0, <1>25, RevertOpEffect, LockStep DEF RevertOp, At, Unlock, Effect,
     InSegment, Committing, CleaningUp
<1>26. ASSUME NEW i \in Inst, RevertDone(i) PROVE SegmentLocked'
  BY <1>0, <1>26, RevertDoneEffect, LockStep DEF RevertDone, At, Unlock,
     Effect, InSegment, Committing, CleaningUp
<1>27. ASSUME NEW i \in Inst, Cancel(i) PROVE SegmentLocked'
  BY <1>0, <1>27, CancelEffect, LockStep DEF Cancel, Effect, InSegment
<1>28. ASSUME NEW i \in Inst, Kill(i) PROVE SegmentLocked'
  BY <1>0, <1>28, KillEffect, LockStep DEF Kill, Unlock, Effect, InSegment,
     Committing, CleaningUp
<1>29. ASSUME NEW i \in Inst, DestroyEntry(i) PROVE SegmentLocked'
  <2>1. mon[i].isBeforeRevert => lock' = lock
    BY <1>29, MonitorTyped, PerrorIfType DEF DestroyEntry, AfterDestroy
  <2>2. lock = i
    BY <1>0, <1>29 DEF DestroyEntry, At, InSegment, CleaningUp
  <2>3. \A j \in Inst \ {i} : lock # j
    BY <2>2
  <2> QED
    BY <1>29, <2>1, <2>2, <2>3, DestroyEffect, LockStep DEF Effect, InSegment,
       Committing, CleaningUp
<1>30. ASSUME NEW i \in Inst, DestroyEntryFail(i) PROVE SegmentLocked'
  <2>1. mon[i].isBeforeRevert => lock' = lock
    BY <1>30, MonitorTyped, PerrorType DEF DestroyEntryFail, AfterDestroy
  <2>2. lock = i
    BY <1>0, <1>30 DEF DestroyEntryFail, At, InSegment, CleaningUp
  <2>3. \A j \in Inst \ {i} : lock # j
    BY <2>2
  <2> QED
    BY <1>30, <2>1, <2>2, <2>3, DestroyEffect, LockStep DEF Effect, InSegment,
       Committing, CleaningUp
<1>31. ASSUME NEW i \in Inst, RevertOpFail(i) PROVE SegmentLocked'
  BY <1>0, <1>31, RevertOpFailEffect, LockStep DEF RevertOpFail, Effect,
     InSegment
<1>32. ASSUME NEW i \in Inst, ShimExit(i) PROVE SegmentLocked'
  BY <1>0, <1>32 DEF ShimExit, SegmentLocked, InSegment
<1>33. CASE UNCHANGED vars
  BY <1>0, <1>33 DEF vars, SegmentLocked, InSegment
<1> QED
  BY <1>1, <1>2, <1>3, <1>4, <1>5, <1>6, <1>7, <1>8, <1>9, <1>10, <1>11,
     <1>12, <1>13, <1>14, <1>15, <1>16, <1>17, <1>18, <1>19, <1>20, <1>21,
     <1>22, <1>23, <1>24, <1>25, <1>26, <1>27, <1>28, <1>29, <1>30, <1>31,
     <1>32, <1>33 DEF Next, MonitorStep, AllEnded

\* Entries are only written, counted and removed, and ops only applied and
\* reverted, by the monitor that holds the segment lock, as long as the lock
\* itself does not fail: crashes and every other fault are allowed.
THEOREM MutualExclusion ==
    ASSUME "lock" \notin Faults PROVE Spec => []SegmentLocked
<1>1. Init => SegmentLocked
  BY DEF Init, SegmentLocked, InSegment, NewMonitor, Committing, CleaningUp
<1>2. Typed /\ SegmentLocked /\ [Next]_vars => SegmentLocked'
  BY LockedNext
<1> QED
  BY <1>1, <1>2, TypedInit, TypedNext, PTL DEF Spec

-----------------------------------------------------------------------------
(***************************************************************************)
(* Registration comes before the first resource, whatever may fail.        *)
(***************************************************************************)

\* Past Save a monitor is registered.
SavedFirst == \A i \in Inst : mon[i].pc \in {"Ident", "Apply"} => entry[i] = "saved"

\* A step of i that leaves the entries of the others alone.
LEMMA SavedStep ==
    ASSUME SavedFirst, NEW i \in Inst,
           \A j \in Inst \ {i} : mon'[j] = mon[j] /\ entry'[j] = entry[j],
           mon'[i].pc \in {"Ident", "Apply"} => entry'[i] = "saved"
    PROVE  SavedFirst'
BY DEF SavedFirst

\* Every step keeps the registration.
LEMMA SavedNext == Typed /\ SavedFirst /\ [Next]_vars => SavedFirst'
<1> SUFFICES ASSUME Typed, SavedFirst, [Next]_vars PROVE SavedFirst'
  OBVIOUS
<1>0. \A i \in Inst : mon[i].pc \in {"Ident", "Apply"} => entry[i] = "saved"
  BY DEF SavedFirst
<1>1. ASSUME NEW i \in Inst, Start(i) PROVE SavedFirst'
  BY <1>0, <1>1, StartEffect, SavedStep DEF Start, At, Effect
<1>2. ASSUME NEW i \in Inst, StartFail(i) PROVE SavedFirst'
  BY <1>0, <1>2, StartFailEffect, SavedStep DEF StartFail, At, Effect
<1>3. ASSUME NEW i \in Inst, CommitLock(i) PROVE SavedFirst'
  BY <1>0, <1>3, CommitLockEffect, SavedStep DEF CommitLock, At, Effect
<1>4. ASSUME NEW i \in Inst, CommitLockFail(i) PROVE SavedFirst'
  BY <1>0, <1>4, CommitLockFailEffect, SavedStep DEF CommitLockFail, At,
     Effect
<1>5. ASSUME NEW i \in Inst, SaveOpen(i) PROVE SavedFirst'
  BY <1>0, <1>5, SaveOpenEffect, SavedStep, SharedIsTyped DEF SaveOpen,
     Effect, SharedTyped
<1>6. ASSUME NEW i \in Inst, SaveEncode(i) PROVE SavedFirst'
  BY <1>0, <1>6, SaveEncodeEffect, SavedStep, SharedIsTyped DEF SaveEncode,
     Effect, SharedTyped
<1>7. ASSUME NEW i \in Inst, SaveFail(i) PROVE SavedFirst'
  BY <1>0, <1>7, SaveFailEffect, SavedStep, SharedIsTyped DEF SaveFail,
     Effect, SharedTyped
<1>8. ASSUME NEW i \in Inst, WriteIdentifier(i) PROVE SavedFirst'
  BY <1>0, <1>8, WriteIdentifierEffect, SavedStep DEF WriteIdentifier, At,
     Effect
<1>9. ASSUME NEW i \in Inst, WriteIdentifierFail(i) PROVE SavedFirst'
  BY <1>0, <1>9, WriteIdentifierFailEffect, SavedStep DEF WriteIdentifierFail,
     At, Effect
<1>10. ASSUME NEW i \in Inst, Apply(i) PROVE SavedFirst'
  BY <1>0, <1>10, ApplyEffect, SavedStep DEF Apply, At, Effect
<1>11. ASSUME NEW i \in Inst, ApplyFail(i) PROVE SavedFirst'
  BY <1>0, <1>11, ApplyFailEffect, SavedStep DEF ApplyFail, At, Effect
<1>12. ASSUME NEW i \in Inst, CommitDone(i) PROVE SavedFirst'
  BY <1>0, <1>12, CommitDoneEffect, SavedStep DEF CommitDone, At, Effect
<1>13. ASSUME NEW i \in Inst, CommitError(i) PROVE SavedFirst'
  BY <1>0, <1>13, CommitErrorEffect, SavedStep DEF CommitError, At, Effect
<1>14. ASSUME NEW i \in Inst, ServeShim(i) PROVE SavedFirst'
  BY <1>0, <1>14, ServeShimEffect, SavedStep DEF ServeShim, At, Effect
<1>15. ASSUME NEW i \in Inst, ServeShimFail(i) PROVE SavedFirst'
  BY <1>0, <1>15, ServeShimFailEffect, SavedStep DEF ServeShimFail, At, Effect
<1>16. ASSUME NEW i \in Inst, ShimWait(i) PROVE SavedFirst'
  BY <1>0, <1>16, ShimWaitEffect, SavedStep DEF ShimWait, At, Effect
<1>17. ASSUME NEW i \in Inst, ShimTimeout(i) PROVE SavedFirst'
  BY <1>0, <1>17, ShimTimeoutEffect, SavedStep DEF ShimTimeout, At, Effect
<1>18. ASSUME NEW i \in Inst, CleanupLock(i) PROVE SavedFirst'
  BY <1>0, <1>18, CleanupLockEffect, SavedStep DEF CleanupLock, At, Effect
<1>19. ASSUME NEW i \in Inst, CleanupLockFail(i) PROVE SavedFirst'
  BY <1>0, <1>19, CleanupLockFailEffect, SavedStep DEF CleanupLockFail, At,
     Effect
<1>20. ASSUME NEW i \in Inst, ReadEntries(i) PROVE SavedFirst'
  BY <1>0, <1>20, ReadEntriesEffect, SavedStep DEF ReadEntries, At, Effect
<1>21. ASSUME NEW i \in Inst, ReadEntriesFail(i) PROVE SavedFirst'
  BY <1>0, <1>21, ReadEntriesFailEffect, SavedStep DEF ReadEntriesFail, At,
     Effect
<1>22. ASSUME NEW i \in Inst, NEW l \in Inst, LoadEntry(i, l) PROVE SavedFirst'
  <2>1. UNCHANGED entry /\ mon'[i].pc = "Load"
    BY <1>22, LoadEntryEffect DEF LoadEntry, Effect
  <2> QED
    BY <1>22, <2>1, LoadEntryEffect, SavedStep DEF Effect
<1>23. ASSUME NEW i \in Inst, NEW l \in Inst, LoadEntryFail(i, l) PROVE SavedFirst'
  BY <1>0, <1>23, LoadEntryFailEffect, SavedStep DEF LoadEntryFail, At, Effect
<1>24. ASSUME NEW i \in Inst, BeginRevert(i) PROVE SavedFirst'
  BY <1>0, <1>24, BeginRevertEffect, SavedStep DEF BeginRevert, At, Effect
<1>25. ASSUME NEW i \in Inst, RevertOp(i) PROVE SavedFirst'
  BY <1>0, <1>25, RevertOpEffect, SavedStep DEF RevertOp, Effect
<1>26. ASSUME NEW i \in Inst, RevertDone(i) PROVE SavedFirst'
  BY <1>0, <1>26, RevertDoneEffect, SavedStep DEF RevertDone, At, Effect
<1>27. ASSUME NEW i \in Inst, Cancel(i) PROVE SavedFirst'
  BY <1>0, <1>27, CancelEffect, SavedStep DEF Cancel, Effect
<1>28. ASSUME NEW i \in Inst, Kill(i) PROVE SavedFirst'
  BY <1>0, <1>28, KillEffect, SavedStep DEF Kill, At, Effect
<1>29. ASSUME NEW i \in Inst, DestroyEntry(i) PROVE SavedFirst'
  BY <1>0, <1>29, DestroyEffect, SavedStep, SharedIsTyped DEF DestroyEntry,
     Effect, SharedTyped
<1>30. ASSUME NEW i \in Inst, DestroyEntryFail(i) PROVE SavedFirst'
  BY <1>0, <1>30, DestroyEffect, SavedStep DEF DestroyEntryFail, At, Effect
<1>31. ASSUME NEW i \in Inst, RevertOpFail(i) PROVE SavedFirst'
  BY <1>0, <1>31, RevertOpFailEffect, SavedStep DEF RevertOpFail, Effect
<1>32. ASSUME NEW i \in Inst, ShimExit(i) PROVE SavedFirst'
  BY <1>0, <1>32 DEF ShimExit, SavedFirst
<1>33. CASE UNCHANGED vars
  BY <1>0, <1>33 DEF vars, SavedFirst
<1> QED
  BY <1>1, <1>2, <1>3, <1>4, <1>5, <1>6, <1>7, <1>8, <1>9, <1>10, <1>11,
     <1>12, <1>13, <1>14, <1>15, <1>16, <1>17, <1>18, <1>19, <1>20, <1>21,
     <1>22, <1>23, <1>24, <1>25, <1>26, <1>27, <1>28, <1>29, <1>30, <1>31,
     <1>32, <1>33 DEF Next, MonitorStep, AllEnded

\* Only Apply, or an apply that fails halfway, adds to the host.
LEMMA OnlyApplyAdds ==
    ASSUME Typed, [Next]_vars, NEW r \in host' \ host
    PROVE  \E i \in Inst : mon[i].pc = "Apply" /\ r \in Needs(i)
<1>1. ASSUME NEW i \in Inst, Apply(i) \/ ApplyFail(i)
      PROVE  mon[i].pc = "Apply" /\ r \in Needs(i)
  BY <1>1, NextOpKnown DEF Apply, ApplyFail, At
<1>2. ASSUME ~\E i \in Inst : Apply(i) \/ ApplyFail(i) PROVE host' \subseteq host
  BY <1>2, ZenonT(30) DEF Next, MonitorStep, AllEnded, vars, Start, StartFail, CommitLock,
     CommitLockFail, SaveOpen, SaveEncode, SaveFail, WriteIdentifier,
     WriteIdentifierFail, CommitDone, CommitError, ServeShim, ServeShimFail,
     ShimWait, ShimTimeout, CleanupLock, CleanupLockFail, DestroyEntry,
     DestroyEntryFail, ReadEntries, ReadEntriesFail, LoadEntry, LoadEntryFail,
     BeginRevert, RevertOp, RevertOpFail, RevertDone, Cancel, ShimExit, Kill
<1> QED
  BY <1>1, <1>2

\* A resource appears on the host only by the hand of an instance that every
\* other monitor of the identity counts, under every fault, SIGKILL included.
THEOREM RegisteredFirst == Spec => RegisteredBeforeCommit
<1> DEFINE Adds == \A r \in host' \ host :
          \E i \in Inst : entry[i] = "saved" /\ r \in Needs(i) /\ mon[i].pc = "Apply"
<1>1. Init => SavedFirst
  BY DEF Init, SavedFirst, NewMonitor
<1>2. Typed /\ SavedFirst /\ [Next]_vars => [Adds]_vars
  BY OnlyApplyAdds DEF SavedFirst
<1> QED
  BY <1>1, <1>2, TypedInit, TypedNext, SavedNext, PTL DEF Spec,
     RegisteredBeforeCommit
=============================================================================
