------------------------------ MODULE Lifecycle ------------------------------
(***************************************************************************)
(* The monitor processes of one identity.  Every `hakurei app` invocation  *)
(* runs outcome.main, a state machine that registers the instance in the   *)
(* store segment of its identity, applies its system operations, hands the *)
(* configuration to its shim, waits for the shim, and finally reverts what *)
(* no other registered instance still needs.  Monitors are independent     *)
(* processes: all they share is the segment lock, the state entries, and   *)
(* the resources of the host.                                              *)
(*                                                                         *)
(* The main switch of outcome.main is followed case by case; a case that   *)
(* makes several calls visible to other processes is one action per call,  *)
(* so that another monitor, or SIGKILL, can come between any two of them.  *)
(***************************************************************************)
EXTENDS Naturals, Sequences, SystemOps

CONSTANTS
    Inst,     \* monitors of this identity
    Plan,     \* Plan[i]: the ops of system.I held by monitor i, in order
    Enabl,    \* Enabl[i]: enablements in the configuration of monitor i
    Faults,   \* calls that may fail, see FaultKinds
    None      \* the segment lock is free

(***************************************************************************)
(* "start"    obtaining the handle, or starting the shim                   *)
(* "lock"     flock on the segment      "save"    writing the state entry  *)
(* "ident"    writing the identifier    "op"      apply of an operation    *)
(* "partial"  apply fails after it has created its resource                *)
(* "serve"    transmitting the configuration to the shim                   *)
(* "destroy"  removing the state entry  "readdir" reading the segment      *)
(* "load"     reading an entry header   "revert"  undoing an operation     *)
(* "interrupt" SIGINT or SIGTERM before the setup is committed             *)
(* "kill"     SIGKILL of a monitor                                         *)
(***************************************************************************)
FaultKinds == {"start", "lock", "save", "ident", "op", "partial", "serve",
               "destroy", "readdir", "load", "revert", "interrupt", "kill"}

Op == [kind : Kinds, et : Types,
       res : [what : STRING, name : STRING, owner : SUBSET Inst],
       within : SUBSET [what : STRING, name : STRING, owner : SUBSET Inst]]

ASSUME ConstantsAssumption ==
    /\ Plan \in [Inst -> Seq(Op)]
    /\ Enabl \in [Inst -> SUBSET Enablements]
    /\ Faults \subseteq FaultKinds
    /\ None \notin Inst

OpsOf(i) == {Plan[i][k] : k \in DOMAIN Plan[i]}
AllOps   == UNION {OpsOf(i) : i \in Inst}
Needs(i) == {op.res : op \in OpsOf(i)}

(***************************************************************************)
(* How the operations of two instances may overlap: a resource undone      *)
(* unconditionally on exit belongs to one instance, and a resource tied to *)
(* an enablement is only held by instances with that enablement.           *)
(***************************************************************************)
ASSUME PlanAssumption ==
    \A i, j \in Inst : i # j =>
        \A a \in OpsOf(i), b \in OpsOf(j) : a.res = b.res =>
            /\ a.kind \notin {"wayland", "dbus"}
            /\ a.et # Process
            /\ a.et \in Enablements => a.et \in Enabl[j]

(***************************************************************************)
(* How toSystem orders the operations of one instance: what a directory    *)
(* holds is process-scoped and comes after the directory, and a resource   *)
(* bound to the process is undone on exit and registered once.             *)
(***************************************************************************)
ASSUME OrderAssumption ==
    \A i \in Inst : \A n \in DOMAIN Plan[i] :
        /\ \A d \in Plan[i][n].within :
              /\ Plan[i][n].et = Process
              /\ \E l \in 1 .. n - 1 : Plan[i][l].res = d
        /\ Plan[i][n].et = Process =>
              /\ Plan[i][n].kind # "ensure"
              /\ \A l \in DOMAIN Plan[i] \ {n} : Plan[i][l].res # Plan[i][n].res

VARIABLES
    mon,     \* mon[i]: the variables of outcome.main in monitor i
    lock,    \* the monitor holding the segment lock, or None
    entry,   \* entry[i]: the state entry file of instance i
    shim,    \* shim[i]: the shim process started by monitor i
    host     \* resources that exist on the host

vars == << mon, lock, entry, shim, host >>

(***************************************************************************)
(* The states of outcome.main.  "Commit" covers the call to Handle.Lock,   *)
(* "Save" to "Rollback" the rest of processCommit, "Cleanup" the call to   *)
(* Handle.Lock of processCleanup, and "Destroy" to "Revert" its rest.      *)
(***************************************************************************)
Committing  == {"Save", "Encode", "Ident", "Apply", "Rollback"}
CleaningUp == {"Destroy", "Entries", "Load", "Revert"}
Ended      == {"Final", "Killed"}
States     == {"Start", "Commit", "Serve", "Lifecycle", "Cleanup"}
                  \cup Committing \cup CleaningUp \cup Ended

\* Exit status of a shim that did not end with status zero.
ShimFailure == 2

Monitor == [
    pc             : States,
    done           : BOOLEAN,      \* ctx is cancelled
    shimPipe       : BOOLEAN,      \* shimPipe # nil
    entryHandle    : BOOLEAN,      \* entryHandle # nil
    isBeforeRevert : BOOLEAN,
    exitCode       : {0, 1, ShimFailure},
    failed         : BOOLEAN,      \* history: perror has been called
    k              : Nat,          \* ops applied and not yet looked at by Revert
    ec             : SUBSET Types, \* criteria of the revert in progress
    pending        : SUBSET Inst,  \* entries returned by Entries, not yet loaded
    alive          : SUBSET Inst]  \* entries loaded: n is the size of this set

NewMonitor == [
    pc |-> "Start", done |-> FALSE, shimPipe |-> FALSE, entryHandle |-> FALSE,
    isBeforeRevert |-> FALSE, exitCode |-> 0, failed |-> FALSE, k |-> 0,
    ec |-> {}, pending |-> {}, alive |-> {}]

Init ==
    /\ mon = [i \in Inst |-> NewMonitor]
    /\ lock = None
    /\ entry = [i \in Inst |-> "absent"]
    /\ shim = [i \in Inst |-> "none"]
    /\ host = {}

\* Mutant: an error is not recorded once ctx is done.
perrorOnce(m) == [m EXCEPT !.done = TRUE, !.shimPipe = FALSE, !.failed = TRUE,
                           !.exitCode = IF @ = 0 /\ ~m.done THEN 1 ELSE @]

\* perror cancels ctx, closes the shim pipe and sets exitCode.
perror(m) == [m EXCEPT !.done = TRUE, !.shimPipe = FALSE, !.failed = TRUE,
                       !.exitCode = IF @ = 0 THEN 1 ELSE @]

perrorIf(c, m) == IF c THEN perror(m) ELSE m

Goto(m, state) == [m EXCEPT !.pc = state]

\* Monitor i takes a step from state and becomes m.
At(i, state) == mon[i].pc = state
Become(i, m) == mon' = [mon EXCEPT ![i] = m]

may(f) == f \in Faults

Unlock(i) == lock' = IF lock = i THEN None ELSE lock

-----------------------------------------------------------------------------
(***************************************************************************)
(* processStart                                                            *)
(***************************************************************************)
Start(i) ==
    /\ At(i, "Start")
    /\ ~mon[i].done
    /\ Become(i, [mon[i] EXCEPT !.pc = "Commit", !.shimPipe = TRUE])
    /\ shim' = [shim EXCEPT ![i] = "waiting"]
    /\ UNCHANGED << lock, entry, host >>

\* The segment handle or the shim is not available: exec.Cmd refuses to start
\* under a context that is already done.
StartFail(i) ==
    /\ At(i, "Start")
    /\ may("start") \/ mon[i].done
    /\ Become(i, Goto(perror(mon[i]), "Final"))
    /\ UNCHANGED << lock, entry, shim, host >>

(***************************************************************************)
(* processCommit                                                           *)
(***************************************************************************)
\* Mutant: the system setup is committed without saving the entry.
CommitLockUnsaved(i) ==
    /\ At(i, "Commit")
    /\ lock = None
    /\ lock' = i
    /\ Become(i, Goto(mon[i], "Apply"))
    /\ UNCHANGED << entry, shim, host >>

CommitLock(i) ==
    /\ At(i, "Commit")
    /\ lock = None
    /\ lock' = i
    /\ Become(i, Goto(mon[i], "Save"))
    /\ UNCHANGED << entry, shim, host >>

CommitLockFail(i) ==
    /\ At(i, "Commit")
    /\ may("lock")
    /\ Become(i, Goto(perror(mon[i]), "Lifecycle"))
    /\ UNCHANGED << lock, entry, shim, host >>

\* EntryHandle.save creates the file, whose header is not readable yet.
SaveOpen(i) ==
    /\ At(i, "Save")
    /\ entry' = [entry EXCEPT ![i] = "torn"]
    /\ Become(i, [mon[i] EXCEPT !.pc = "Encode", !.entryHandle = TRUE])
    /\ UNCHANGED << lock, shim, host >>

\* Mutant: the segment is unlocked as soon as the entry is written.
SaveEncodeUnlocks(i) ==
    /\ At(i, "Encode")
    /\ entry' = [entry EXCEPT ![i] = "saved"]
    /\ Become(i, Goto(mon[i], "Ident"))
    /\ Unlock(i)
    /\ UNCHANGED << shim, host >>

SaveEncode(i) ==
    /\ At(i, "Encode")
    /\ entry' = [entry EXCEPT ![i] = "saved"]
    /\ Become(i, Goto(mon[i], "Ident"))
    /\ UNCHANGED << lock, shim, host >>

\* Mutant: a failed save returns with the segment locked.
SaveFailLocked(i) ==
    /\ mon[i].pc \in {"Save", "Encode"}
    /\ may("save")
    /\ IF At(i, "Save") THEN UNCHANGED entry
       ELSE \E e \in {"torn", "saved"} : entry' = [entry EXCEPT ![i] = e]
    /\ Become(i, [Goto(perror(mon[i]), "Lifecycle") EXCEPT !.entryHandle = TRUE])
    /\ UNCHANGED << lock, shim, host >>

\* Save returns its handle along with the error: no file, a file with an
\* unreadable header, or one whose header precedes a broken body.
SaveFail(i) ==
    /\ mon[i].pc \in {"Save", "Encode"}
    /\ may("save")
    /\ IF At(i, "Save") THEN UNCHANGED entry
       ELSE \E e \in {"torn", "saved"} : entry' = [entry EXCEPT ![i] = e]
    /\ Become(i, [Goto(perror(mon[i]), "Lifecycle") EXCEPT !.entryHandle = TRUE])
    /\ Unlock(i)
    /\ UNCHANGED << shim, host >>

WriteIdentifier(i) ==
    /\ At(i, "Ident")
    /\ Become(i, Goto(mon[i], "Apply"))
    /\ UNCHANGED << lock, entry, shim, host >>

WriteIdentifierFail(i) ==
    /\ At(i, "Ident")
    /\ may("ident")
    /\ Become(i, Goto(perror(mon[i]), "Lifecycle"))
    /\ Unlock(i)
    /\ UNCHANGED << entry, shim, host >>

\* The op that Commit applies next, and the op that Revert looks at next.
NextOp(i) == Plan[i][mon[i].k + 1]
LastOp(i) == Plan[i][mon[i].k]

\* The proxy, and ldd before it, are not started under a ctx that is done.
Interrupted(i) == NextOp(i).kind = "dbus" /\ mon[i].done

Apply(i) ==
    /\ At(i, "Apply")
    /\ mon[i].k < Len(Plan[i])
    /\ ~Interrupted(i)
    /\ host' = host \cup {NextOp(i).res}
    /\ Become(i, [mon[i] EXCEPT !.k = @ + 1])
    /\ UNCHANGED << lock, entry, shim >>

\* The first error arms the rollback of the ops applied so far.
ApplyFail(i) ==
    /\ At(i, "Apply")
    /\ mon[i].k < Len(Plan[i])
    /\ \/ (may("op") \/ Interrupted(i)) /\ UNCHANGED host
       \/ /\ may("partial")
          /\ LeavesPartial(NextOp(i))
          /\ host' = host \cup {NextOp(i).res}
    /\ Become(i, [mon[i] EXCEPT !.pc = "Rollback", !.ec = NilCriteria])
    /\ UNCHANGED << lock, entry, shim >>

CommitDone(i) ==
    /\ At(i, "Apply")
    /\ mon[i].k = Len(Plan[i])
    /\ Become(i, [mon[i] EXCEPT !.pc = "Serve", !.isBeforeRevert = TRUE])
    /\ Unlock(i)
    /\ UNCHANGED << entry, shim, host >>

CommitError(i) ==
    /\ At(i, "Rollback")
    /\ mon[i].k = 0
    /\ Become(i, [Goto(perror(mon[i]), "Lifecycle") EXCEPT !.ec = {}])
    /\ Unlock(i)
    /\ UNCHANGED << entry, shim, host >>

(***************************************************************************)
(* system.I.Revert, one op per step in reverse order.  Errors do not stop  *)
(* it; those of a rollback are only printed.                               *)
(***************************************************************************)
\* Mutant: the loop of Revert steps over two operations.
RevertOpSkips(i) ==
    /\ mon[i].pc \in {"Rollback", "Revert"}
    /\ mon[i].k > 0
    /\ host' = IF Reverts(LastOp(i), mon[i].ec)
               THEN host \ {LastOp(i).res} ELSE host
    /\ Become(i, [mon[i] EXCEPT !.k = @ - 2])
    /\ UNCHANGED << lock, entry, shim >>

RevertOp(i) ==
    /\ mon[i].pc \in {"Rollback", "Revert"}
    /\ mon[i].k > 0
    /\ Reverts(LastOp(i), mon[i].ec) => ~Busy(LastOp(i), host, AllOps)
    /\ host' = IF Reverts(LastOp(i), mon[i].ec)
               THEN host \ {LastOp(i).res} ELSE host
    /\ Become(i, [mon[i] EXCEPT !.k = @ - 1])
    /\ UNCHANGED << lock, entry, shim >>

\* A cgroup that is still busy is skipped without an error, and revert drops the
\* error of a proxy when the context passed to Main is cancelled by then, which
\* a signal may have done at any time; a socket or proxy may be gone although
\* hanging up or waiting for it fails.
RevertOpFail(i) ==
    /\ mon[i].pc \in {"Rollback", "Revert"}
    /\ mon[i].k > 0
    /\ Reverts(LastOp(i), mon[i].ec)
    /\ may("revert") \/ Busy(LastOp(i), host, AllOps)
    /\ \E reported \in {TRUE, LastOp(i).kind \notin {"cgroup", "dbus"}} :
          Become(i, perrorIf(At(i, "Revert") /\ reported,
                             [mon[i] EXCEPT !.k = @ - 1]))
    /\ \/ UNCHANGED host
       \/ LastOp(i).kind \in {"wayland", "dbus"} /\ host' = host \ {LastOp(i).res}
    /\ UNCHANGED << lock, entry, shim >>

(***************************************************************************)
(* processServe: the shim reads the configuration unless it is gone.       *)
(***************************************************************************)
ServeShim(i) ==
    /\ At(i, "Serve")
    /\ shim[i] = "waiting"
    /\ shim' = [shim EXCEPT ![i] = "running"]
    /\ Become(i, [mon[i] EXCEPT !.pc = "Lifecycle", !.shimPipe = FALSE])
    /\ UNCHANGED << lock, entry, host >>

ServeShimFail(i) ==
    /\ At(i, "Serve")
    /\ may("serve") \/ shim[i] # "waiting"
    /\ Become(i, Goto(perror(mon[i]), "Lifecycle"))
    /\ UNCHANGED << lock, entry, shim, host >>

(***************************************************************************)
(* processLifecycle: the shim is reaped, or ctx has been done for longer   *)
(* than the wait delay plus shimWaitTimeout.                               *)
(***************************************************************************)
ShimWait(i) ==
    /\ At(i, "Lifecycle")
    /\ shim[i] \in {"exited", "failed"}
    /\ Become(i, [mon[i] EXCEPT !.pc = "Cleanup", !.done = TRUE,
                  !.exitCode = IF shim[i] = "failed"
                               THEN ShimFailure ELSE @])
    /\ UNCHANGED << lock, entry, shim, host >>

ShimTimeout(i) ==
    /\ At(i, "Lifecycle")
    /\ mon[i].done
    /\ Become(i, Goto(mon[i], "Cleanup"))
    /\ UNCHANGED << lock, entry, shim, host >>

(***************************************************************************)
(* processCleanup                                                          *)
(***************************************************************************)
CleanupLock(i) ==
    /\ At(i, "Cleanup")
    /\ lock = None
    /\ lock' = i
    /\ Become(i, Goto(mon[i], "Destroy"))
    /\ UNCHANGED << entry, shim, host >>

\* The monitor cleans up without the lock.
CleanupLockFail(i) ==
    /\ At(i, "Cleanup")
    /\ may("lock")
    /\ Become(i, Goto(perror(mon[i]), "Destroy"))
    /\ UNCHANGED << lock, entry, shim, host >>

\* What follows Destroy: Entries, or Final for lack of a commit to revert.
AfterDestroy(i, m) ==
    IF m.isBeforeRevert
    THEN Become(i, Goto(m, "Entries")) /\ UNCHANGED lock
    ELSE Become(i, Goto(m, "Final")) /\ Unlock(i)

\* Mutant: the entry is still there when the remaining ones are counted.
DestroyEntryLate(i) ==
    /\ At(i, "Destroy")
    /\ AfterDestroy(i, mon[i])
    /\ UNCHANGED << entry, shim, host >>

\* Removing an entry that Save could not create is an error as well.
DestroyEntry(i) ==
    /\ At(i, "Destroy")
    /\ entry' = IF mon[i].entryHandle
                THEN [entry EXCEPT ![i] = "absent"] ELSE entry
    /\ AfterDestroy(i, perrorIf(mon[i].entryHandle /\ entry[i] = "absent", mon[i]))
    /\ UNCHANGED << shim, host >>

DestroyEntryFail(i) ==
    /\ At(i, "Destroy")
    /\ may("destroy")
    /\ mon[i].entryHandle
    /\ AfterDestroy(i, perror(mon[i]))
    /\ UNCHANGED << entry, shim, host >>

ReadEntries(i) ==
    /\ At(i, "Entries")
    /\ Become(i, [mon[i] EXCEPT !.pc = "Load",
                  !.pending = {j \in Inst : entry[j] # "absent"}])
    /\ UNCHANGED << lock, entry, shim, host >>

\* Mutant: nothing at all is reverted when the segment cannot be read.
ReadEntriesFailSkips(i) ==
    /\ At(i, "Entries")
    /\ may("readdir")
    /\ Become(i, [perror(mon[i]) EXCEPT !.pc = "Revert", !.ec = {}])
    /\ UNCHANGED << lock, entry, shim, host >>

ReadEntriesFail(i) ==
    /\ At(i, "Entries")
    /\ may("readdir")
    /\ Become(i, [perror(mon[i]) EXCEPT !.pc = "Revert", !.ec = {Process}])
    /\ UNCHANGED << lock, entry, shim, host >>

\* Mutant: a loaded entry is not counted.
LoadEntryUncounted(i, j) ==
    /\ At(i, "Load")
    /\ j \in mon[i].pending
    /\ entry[j] = "saved"
    /\ Become(i, [mon[i] EXCEPT !.pending = @ \ {j}])
    /\ UNCHANGED << lock, entry, shim, host >>

LoadEntry(i, j) ==
    /\ At(i, "Load")
    /\ j \in mon[i].pending
    /\ entry[j] = "saved"
    /\ Become(i, [mon[i] EXCEPT !.pending = @ \ {j}, !.alive = @ \cup {j}])
    /\ UNCHANGED << lock, entry, shim, host >>

LoadEntryFail(i, j) ==
    /\ At(i, "Load")
    /\ j \in mon[i].pending
    /\ may("load") \/ entry[j] # "saved"
    /\ Become(i, [perror(mon[i]) EXCEPT !.pending = @ \ {j}])
    /\ UNCHANGED << lock, entry, shim, host >>

\* rt, the enablements of the instances that remain.
RemainingEnablements(m) == UNION {Enabl[j] : j \in m.alive}

\* Mutants: enablements of the remaining instances are reverted too, and
\* user-scoped operations are reverted by every instance.
CleanupCriteriaAll(m) ==
    {Process} \cup (IF m.alive = {} THEN {User} ELSE {}) \cup Enablements

CleanupCriteriaUser(m) ==
    {Process, User} \cup (Enablements \ RemainingEnablements(m))

\* ec, what is left for this instance to revert.
CleanupCriteria(m) ==
    {Process}
        \cup (IF m.alive = {} THEN {User} ELSE {})
        \cup (Enablements \ RemainingEnablements(m))

BeginRevert(i) ==
    /\ At(i, "Load")
    /\ mon[i].pending = {}
    /\ Become(i, [mon[i] EXCEPT !.pc = "Revert", !.ec = CleanupCriteria(mon[i])])
    /\ UNCHANGED << lock, entry, shim, host >>

\* ec, entries, rt and n go out of scope.
RevertDone(i) ==
    /\ At(i, "Revert")
    /\ mon[i].k = 0
    /\ Become(i, [mon[i] EXCEPT !.pc = "Final", !.isBeforeRevert = FALSE,
                  !.ec = {}, !.pending = {}, !.alive = {}])
    /\ Unlock(i)
    /\ UNCHANGED << entry, shim, host >>

-----------------------------------------------------------------------------
(***************************************************************************)
(* The environment of a monitor.                                           *)
(***************************************************************************)

Uncommitted(i) == mon[i].pc \in {"Start", "Commit", "Save", "Encode", "Ident", "Apply"}

\* SIGINT or SIGTERM at hakurei: the context passed to Main is cancelled.
Cancel(i) ==
    /\ mon[i].pc \notin Ended
    /\ ~mon[i].done
    /\ Uncommitted(i) => may("interrupt")
    /\ Become(i, [mon[i] EXCEPT !.done = TRUE])
    /\ UNCHANGED << lock, entry, shim, host >>

\* The shim exits: with a nonzero status ("failed") before it has its
\* configuration (EOF, SIGCONT or a fatal error), with any status afterwards.
ShimExit(i) ==
    /\ \/ /\ shim[i] = "waiting"
          /\ shim' = [shim EXCEPT ![i] = "failed"]
       \/ /\ shim[i] = "running"
          /\ \E s \in {"exited", "failed"} :
                shim' = [shim EXCEPT ![i] = s]
    /\ UNCHANGED << mon, lock, entry, host >>

\* SIGKILL: the monitor is gone, the kernel drops its flock, and the entry,
\* the shim and the host stay as they are.
Kill(i) ==
    /\ may("kill")
    /\ mon[i].pc \notin Ended \cup {"Start"}
    /\ Become(i, Goto(NewMonitor, "Killed"))
    /\ Unlock(i)
    /\ UNCHANGED << entry, shim, host >>

MonitorStep(i) ==
    \/ Start(i) \/ StartFail(i)
    \/ CommitLock(i) \/ CommitLockFail(i)
    \/ SaveOpen(i) \/ SaveEncode(i) \/ SaveFail(i)
    \/ WriteIdentifier(i) \/ WriteIdentifierFail(i)
    \/ Apply(i) \/ ApplyFail(i) \/ CommitDone(i) \/ CommitError(i)
    \/ ServeShim(i) \/ ServeShimFail(i)
    \/ ShimWait(i) \/ ShimTimeout(i)
    \/ CleanupLock(i) \/ CleanupLockFail(i)
    \/ DestroyEntry(i) \/ DestroyEntryFail(i)
    \/ ReadEntries(i) \/ ReadEntriesFail(i)
    \/ \E j \in Inst : LoadEntry(i, j) \/ LoadEntryFail(i, j)
    \/ BeginRevert(i)
    \/ RevertOp(i) \/ RevertOpFail(i) \/ RevertDone(i)

\* Every monitor has ended: os.Exit leaves nothing to do.
AllEnded ==
    /\ \A i \in Inst : mon[i].pc \in Ended
    /\ UNCHANGED vars

Next ==
    \/ \E i \in Inst : MonitorStep(i) \/ Cancel(i) \/ ShimExit(i) \/ Kill(i)
    \/ AllEnded

Spec == Init /\ [][Next]_vars

\* A monitor waits in flock for the holder of the segment lock.
Blocked(i) == mon[i].pc \in {"Commit", "Cleanup"} /\ lock # None

\* A monitor that can take its next step eventually does; one that waits for
\* the lock is not rescued by an error, and nothing is assumed of the shim, the
\* user, or the calls that may fail.
FairSpec == Spec /\ \A i \in Inst : WF_vars(~Blocked(i) /\ MonitorStep(i))

-----------------------------------------------------------------------------
(***************************************************************************)
(* Properties.                                                             *)
(***************************************************************************)

\* Every variable of outcome.main, the segment and the host keeps its type.
TypeOK ==
    /\ mon \in [Inst -> Monitor]
    /\ lock \in Inst \cup {None}
    /\ entry \in [Inst -> {"absent", "torn", "saved"}]
    /\ shim \in [Inst -> {"none", "waiting", "running",
                          "exited", "failed"}]
    /\ host \subseteq UNION {Needs(i) : i \in Inst}

\* Monitor i works on the segment: processCommit or processCleanup past the
\* call to Handle.Lock.
InSegment(i) == mon[i].pc \in Committing \cup CleaningUp

\* The container of i may be running and relies on what i committed.
Live(i) == mon[i].pc \in {"Serve", "Lifecycle"} /\ mon[i].isBeforeRevert

LiveSet == {i \in Inst : Live(i)}

\* An op whose resource does not outlive the instances that hold it.
Reversible(op) == op.kind # "ensure"

\* Store entries are only created, read and destroyed under the segment lock
\* (store.Handle.Save, Entries and EntryHandle, "must only be used while its
\* parent Handle.Lock is held").
SegmentLocked == \A i \in Inst : InSegment(i) => lock = i

\* A container whose system setup was committed keeps every resource of that
\* setup until its own monitor cleans up, whatever the other monitors of the
\* identity commit, revert, or leave behind.
LiveResources == \A i \in Inst : Live(i) => Needs(i) \subseteq host

\* "Process type is unconditionally reverted on exit": a monitor that reached
\* processFinal leaves none of its process-scoped resources on the host.  The
\* exception is an operation that failed after it had created its resource,
\* which no rollback undoes: that resource stays, with the directory that holds
\* it and no other, and the exit code tells.
ProcessReverted ==
    \A i \in Inst : mon[i].pc = "Final" =>
        LET left == {op \in OpsOf(i) : op.et = Process /\ op.res \in host}
        IN  \/ left = {}
            \/ /\ may("partial") /\ mon[i].exitCode # 0
               /\ \E torn \in left :
                     LeavesPartial(torn) /\ \A op \in left \ {torn} : op.res \in torn.within

\* "User type is reverted at final instance exit": when no monitor is between
\* processStart and processFinal, nothing reversible is left on the host.
RevertedAtFinalExit ==
    (\A i \in Inst : mon[i].pc \in {"Start", "Final"}) =>
        \A op \in AllOps : Reversible(op) => op.res \notin host

\* When RevertedAtFinalExit may be expected: Revert only undoes what its own
\* instance registered, so that whoever ends last must hold whatever those
\* before it have left to it.
Alike(plan, enabl) ==
    \A i, j \in DOMAIN plan : \A n \in DOMAIN plan[i] :
        /\ Reversible(plan[i][n]) /\ plan[i][n].et \in {User} \cup enabl[j] =>
              \E l \in DOMAIN plan[j] : plan[j][l] = plan[i][n]
        /\ \A l \in DOMAIN plan[j] : plan[j][l].res = plan[i][n].res =>
              plan[j][l].kind = plan[i][n].kind /\ plan[j][l].et = plan[i][n].et
        /\ plan[i][n].kind = "ephemeral" => plan[i][n].et = Process

\* A call that failed is never reported as success: the exit code of a monitor
\* in which perror was called is not zero.
FailureReported ==
    \A i \in Inst : mon[i].pc = "Final" /\ mon[i].failed => mon[i].exitCode # 0

\* A resource only ever appears on the host when the instance that creates it
\* is registered with a readable entry, so that every other monitor counts it
\* from then on.
RegisteredBeforeCommit ==
    [][\A r \in host' \ host :
          \E i \in Inst : entry[i] = "saved" /\ r \in Needs(i) /\ mon[i].pc = "Apply"]_vars

\* A monitor whose ctx is done exits, however its shim behaves: the wait is
\* tied to ctx, and whoever holds the segment lock gives it back, on every
\* error path and when it is killed.
CancelTerminates ==
    \A i \in Inst : mon[i].done ~> mon[i].pc \in Ended

(***************************************************************************)
(* Why LiveResources holds.  The parts below are inductive together when   *)
(* the segment lock and entry headers do not fail and no commit is rolled  *)
(* back: no operation fails, nor is one that needs ctx interrupted.        *)
(***************************************************************************)
Benign ==
    /\ Faults \cap {"lock", "load", "op", "partial"} = {}
    /\ may("interrupt") => \A op \in AllOps : op.kind # "dbus"

\* An instance that applies or has applied its ops is registered.
Registered ==
    \A i \in Inst : mon[i].pc \in {"Ident", "Apply"} \/ Live(i) => entry[i] = "saved"

\* The ops a commit in progress has applied are in place.
AppliedHeld ==
    \A i \in Inst : mon[i].pc = "Apply" =>
        \A n \in 1 .. mon[i].k : Plan[i][n].res \in host

\* Commit starts at the first op.
FreshIndex ==
    \A i \in Inst :
        mon[i].pc \in {"Start", "Commit", "Save", "Encode", "Ident"} => mon[i].k = 0

\* isBeforeRevert is set between a successful Commit and the end of Revert.
CommitFlag ==
    \A i \in Inst : mon[i].isBeforeRevert =>
        mon[i].pc \in {"Serve", "Lifecycle", "Cleanup"} \cup CleaningUp

\* While a monitor counts the instances that remain, it misses no live one.
LiveCounted ==
    \A i, j \in Inst : i # j /\ mon[i].pc = "Load" /\ Live(j) =>
        j \in mon[i].pending \cup mon[i].alive

\* While a monitor reverts, its criteria spares what a live instance holds.
LiveSpared ==
    \A i, j \in Inst : i # j /\ mon[i].pc = "Revert" /\ Live(j) =>
        User \notin mon[i].ec /\ mon[i].ec \cap Enabl[j] = {}

NoRollback == \A i \in Inst : mon[i].pc # "Rollback"

\* No monitor of the identity takes away what another one relies on, for the
\* reasons the parts state: the lock is held around every use of the segment,
\* a live instance is registered, counted by whoever cleans up, and spared by
\* the criteria computed from that count.
SegmentInv ==
    /\ SegmentLocked /\ Registered /\ AppliedHeld /\ FreshIndex /\ CommitFlag
    /\ LiveCounted /\ LiveSpared /\ NoRollback /\ LiveResources

\* The monitors implement the promise of Lease.
Promise == INSTANCE Lease WITH
               Need <- [i \in Inst |-> Needs(i)], users <- LiveSet, present <- host

LeaseSpec == Promise!Spec
=============================================================================
