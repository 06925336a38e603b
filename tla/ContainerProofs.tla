--------------------------- MODULE ContainerProofs ---------------------------
(***************************************************************************)
(* That the initial program only runs confined, that init exits with its   *)
(* status, that a bind mount is as restricted as it was asked to be, that  *)
(* the program finds its sockets and that it does not see what is hidden,  *)
(* for every host file system, every number of adopted processes and every *)
(* fault, and for every list of setup operations, the last two for those   *)
(* that are Arranged.  The first two rest on the order of the phases and   *)
(* on what passes between the processes, the wait4 thread and the loop;    *)
(* the others on what the operations do to the mount table and to the      *)
(* links, and the sealing on the tree Unfold makes of the table.           *)
(***************************************************************************)
EXTENDS Container, WellFoundedInduction, FiniteSetTheorems, TLAPS

Running == {"notify", "loop"}

\* The phases from one of them on.
FromStart   == {"start"} \cup Running
FromFilter  == {"filter"} \cup FromStart
FromCaps    == {"caps"} \cup FromFilter
FromSysroot == {"sysroot"} \cup FromCaps
FromDetach  == {"detach"} \cup FromSysroot
FromEarly   == {"early", "intermediate", "apply"} \cup FromDetach

NSType == [root : {"host", "intermediate", "sysroot"}, slave : BOOLEAN,
           hostDir : BOOLEAN, rootfs : BOOLEAN, caps : SUBSET {"sys_admin", "other"},
           filter : BOOLEAN, landlock : BOOLEAN]

Allowed == IF cfg.privileged THEN {"sys_admin"} ELSE {}

Scoped == ns.landlock = TRUE \/ cfg.hostAbstract

Typed ==
    /\ ns \in NSType
    /\ pc \in Alive \cup {"none", "exited"}
    /\ procs \in [Procs -> {"none", "run", "zombie", "reaped", "killed"}]

(***************************************************************************)
(* What the phases behind init have established, and none after them has   *)
(* undone.                                                                 *)
(***************************************************************************)
Progress ==
    /\ setup.ok
    /\ pc # "none" => Scoped
    /\ pc \in FromEarly => ns.slave = TRUE
    /\ pc \in FromDetach => ~OpLeft
    /\ pc \in FromSysroot => ns.hostDir = FALSE
    /\ pc \in FromCaps => ns.root = "sysroot" /\ ns.rootfs = FALSE
    /\ pc \in FromFilter => ns.caps \subseteq Allowed
    /\ pc \in FromStart => ns.filter = TRUE \/ cfg.seccompDisable

\* Everything the phases establish.
Ready ==
    /\ ns.root = "sysroot" /\ ns.slave = TRUE /\ ns.hostDir = FALSE /\ ns.rootfs = FALSE
    /\ ns.caps \subseteq Allowed
    /\ ns.filter = TRUE \/ cfg.seccompDisable
    /\ Scoped
    /\ ~OpLeft

\* There is an initial process only behind all of the phases; it stays what it was when init exits.
Begun ==
    procs["initial"] # "none" => pc \in Running \cup {"exited"} /\ Ready

ConfinedInv == Typed /\ Progress /\ Begun

\* A container is started once.
Unstarted == par = "new" => pc = "none"

ContainerInv == ConfinedInv /\ Unstarted

\* The exit of init leaves the phases behind, and makes no process.
LEMMA ExitConfined ==
    ASSUME ConfinedInv, pc \in Alive, NEW how, NEW code, Exit(how, code),
           UNCHANGED << cfg, k, setup, ns >>
    PROVE  ConfinedInv'
<1>1. Typed'
  BY DEF ConfinedInv, Typed, Exit, Alive
<1>2. Progress'
  <2>1. pc' = "exited" /\ pc # "none"
    BY DEF Exit, Alive, InSetup
  <2>2. Scoped'
    BY <2>1 DEF ConfinedInv, Progress, Scoped
  <2> QED
    BY <2>1, <2>2 DEF ConfinedInv, Progress, FromEarly, FromDetach, FromSysroot,
        FromCaps, FromFilter, FromStart, Running
<1>3. Begun'
  <2>1. procs'["initial"] # "none" => procs["initial"] # "none"
    BY DEF Exit, ConfinedInv, Typed, Procs
  <2> QED
    BY <2>1 DEF ConfinedInv, Begun, Ready, Scoped, Allowed, OpLeft, Exit
<1> QED
  BY <1>1, <1>2, <1>3 DEF ConfinedInv

\* A step outside of the phases, which makes no initial process.
LEMMA OutsideConfined ==
    ASSUME ConfinedInv, UNCHANGED << cfg, pc, k, setup, ns >>,
           procs' \in [Procs -> {"none", "run", "zombie", "reaped", "killed"}],
           procs'["initial"] # "none" => procs["initial"] # "none"
    PROVE  ConfinedInv'
<1>1. Typed' /\ Progress'
  BY DEF ConfinedInv, Typed, Progress, Scoped, OpLeft, Allowed
<1>2. Begun'
  BY DEF ConfinedInv, Begun, Ready, Scoped, Allowed, OpLeft
<1> QED
  BY <1>1, <1>2 DEF ConfinedInv

\* A step of a phase, before there is an initial process.
LEMMA PhaseConfined ==
    ASSUME ConfinedInv, pc \in InSetup \cup {"none"}, UNCHANGED << cfg, procs >>,
           ns' \in NSType, pc' \in Alive, Progress'
    PROVE  ConfinedInv'
<1>1. procs["initial"] = "none"
  BY DEF ConfinedInv, Begun, InSetup, Running
<1> QED
  BY <1>1 DEF ConfinedInv, Typed, Begun

\* The phases that leave the namespaces and the operations alone.
LEMMA QuietPhases ==
    ASSUME ConfinedInv, Receive \/ UserMap \/ ApplyDone
    PROVE  ConfinedInv'
<1>1. UNCHANGED << cfg, procs, ns, k, setup >>
  BY DEF Receive, UserMap, ApplyDone, Phase, reapVars, setupVars
<1>2. pc \in {"receive", "usermap", "apply"} /\ pc' \in {"usermap", "rslave", "detach"}
  BY DEF Receive, UserMap, ApplyDone, Phase
<1>3. pc' = "detach" => pc = "apply" /\ ~OpLeft
  BY DEF Receive, UserMap, ApplyDone, Phase
<1>4. Progress'
  BY <1>1, <1>2, <1>3 DEF ConfinedInv, Progress, Scoped, OpLeft, Allowed, FromEarly,
      FromDetach, FromSysroot, FromCaps, FromFilter, FromStart, Running
<1> QED
  BY <1>1, <1>2, <1>4, PhaseConfined DEF ConfinedInv, Typed, InSetup, Alive

\* The start of init, under the landlock scope its configuration asks for.
LEMMA StartConfined ==
    ASSUME ConfinedInv, pc = "none", Start
    PROVE  ConfinedInv'
<1>1. /\ UNCHANGED << cfg, procs, k, setup >> /\ pc' = "receive"
      /\ ns' = [ns EXCEPT !.landlock = LandlockUsable]
      /\ LandlockUsable \/ cfg.hostAbstract
  BY DEF Start, reapVars
<1>2. LandlockUsable \in BOOLEAN
  BY DEF LandlockUsable
<1>3. ns' \in NSType /\ (ns'.landlock = TRUE \/ cfg.hostAbstract)
  BY <1>1, <1>2 DEF ConfinedInv, Typed, NSType
<1>4. Progress'
  BY <1>1, <1>3 DEF ConfinedInv, Progress, Scoped, FromEarly, FromDetach, FromSysroot,
      FromCaps, FromFilter, FromStart, Running
<1> QED
  BY <1>1, <1>3, <1>4, PhaseConfined DEF InSetup, Alive

\* The phases that change the namespaces.
LEMMA NamespacePhases ==
    ASSUME ConfinedInv, RSlave \/ Intermediate \/ DetachHost \/ PivotSysroot
    PROVE  ConfinedInv'
<1> USE DEF FromEarly, FromDetach, FromSysroot, FromCaps, FromFilter, FromStart, Running
<1>1. CASE RSlave
  <2>1. /\ UNCHANGED << cfg, procs, k, setup >> /\ pc = "rslave" /\ pc' = "early"
        /\ ns' = [ns EXCEPT !.slave = TRUE]
    BY <1>1 DEF RSlave, Phase, reapVars
  <2>2. ns' \in NSType /\ ns'.slave = TRUE /\ ns'.landlock = ns.landlock
    BY <2>1 DEF ConfinedInv, Typed, NSType
  <2>3. Progress'
    BY <2>1, <2>2 DEF ConfinedInv, Progress, Scoped
  <2> QED
    BY <2>1, <2>2, <2>3, PhaseConfined DEF InSetup, Alive
<1>2. CASE Intermediate
  <2>1. /\ UNCHANGED << cfg, procs, k, setup >> /\ pc = "intermediate" /\ pc' = "apply"
        /\ ns' = [ns EXCEPT !.root = "intermediate", !.rootfs = TRUE]
    BY <1>2 DEF Intermediate, Phase, reapVars
  <2>2. ns' \in NSType /\ ns'.slave = ns.slave /\ ns'.landlock = ns.landlock
    BY <2>1 DEF ConfinedInv, Typed, NSType
  <2>3. Progress'
    BY <2>1, <2>2 DEF ConfinedInv, Progress, Scoped
  <2> QED
    BY <2>1, <2>2, <2>3, PhaseConfined DEF InSetup, Alive
<1>3. CASE DetachHost
  <2>1. /\ UNCHANGED << cfg, procs, k, setup >> /\ pc = "detach" /\ pc' = "sysroot"
        /\ ns' = [ns EXCEPT !.hostDir = FALSE]
    BY <1>3 DEF DetachHost, Phase, reapVars
  <2>2. ns' \in NSType /\ ns'.slave = ns.slave /\ ns'.landlock = ns.landlock /\ ns'.hostDir = FALSE
    BY <2>1 DEF ConfinedInv, Typed, NSType
  <2>3. Progress'
    BY <2>1, <2>2 DEF ConfinedInv, Progress, Scoped, OpLeft
  <2> QED
    BY <2>1, <2>2, <2>3, PhaseConfined DEF InSetup, Alive
<1>4. CASE PivotSysroot
  <2>1. /\ UNCHANGED << cfg, procs, k, setup >> /\ pc = "sysroot" /\ pc' = "caps"
        /\ ns' = [ns EXCEPT !.root = "sysroot", !.rootfs = FALSE]
    BY <1>4 DEF PivotSysroot, Phase, reapVars
  <2>2. /\ ns' \in NSType /\ ns'.slave = ns.slave /\ ns'.landlock = ns.landlock
        /\ ns'.hostDir = ns.hostDir /\ ns'.root = "sysroot" /\ ns'.rootfs = FALSE
    BY <2>1 DEF ConfinedInv, Typed, NSType
  <2>3. Progress'
    BY <2>1, <2>2 DEF ConfinedInv, Progress, Scoped, OpLeft
  <2> QED
    BY <2>1, <2>2, <2>3, PhaseConfined DEF InSetup, Alive
<1> QED
  BY <1>1, <1>2, <1>3, <1>4

\* The phases that drop privileges.
LEMMA PrivilegePhases ==
    ASSUME ConfinedInv, DropCaps \/ LoadFilter
    PROVE  ConfinedInv'
<1> USE DEF FromEarly, FromDetach, FromSysroot, FromCaps, FromFilter, FromStart, Running
<1>1. CASE DropCaps
  <2>1. /\ UNCHANGED << cfg, procs, k, setup >> /\ pc = "caps" /\ pc' = "filter"
        /\ ns' = [ns EXCEPT !.caps = Allowed]
    BY <1>1 DEF DropCaps, Phase, reapVars, Allowed
  <2>2. Allowed \in SUBSET {"sys_admin", "other"} /\ Allowed' = Allowed
    BY <2>1 DEF Allowed
  <2>3. /\ ns' \in NSType /\ ns'.slave = ns.slave /\ ns'.landlock = ns.landlock
        /\ ns'.hostDir = ns.hostDir /\ ns'.root = ns.root /\ ns'.rootfs = ns.rootfs
        /\ ns'.caps = Allowed
    BY <2>1, <2>2 DEF ConfinedInv, Typed, NSType
  <2>4. Progress'
    BY <2>1, <2>2, <2>3 DEF ConfinedInv, Progress, Scoped, OpLeft
  <2> QED
    BY <2>1, <2>3, <2>4, PhaseConfined DEF InSetup, Alive
<1>2. CASE LoadFilter
  <2>1. /\ UNCHANGED << cfg, procs, k, setup >> /\ pc = "filter" /\ pc' = "start"
        /\ ns' = [ns EXCEPT !.filter = ~cfg.seccompDisable]
    BY <1>2 DEF LoadFilter, Phase, reapVars
  <2>2. /\ ns' \in NSType /\ ns'.slave = ns.slave /\ ns'.landlock = ns.landlock
        /\ ns'.hostDir = ns.hostDir /\ ns'.root = ns.root /\ ns'.rootfs = ns.rootfs
        /\ ns'.caps = ns.caps /\ (ns'.filter = TRUE \/ cfg.seccompDisable)
    BY <2>1 DEF ConfinedInv, Typed, NSType
  <2>3. Allowed' = Allowed
    BY <2>1 DEF Allowed
  <2>4. Progress'
    BY <2>1, <2>2, <2>3 DEF ConfinedInv, Progress, Scoped, OpLeft
  <2> QED
    BY <2>1, <2>2, <2>4, PhaseConfined DEF InSetup, Alive
<1> QED
  BY <1>1, <1>2

\* The setup operations: only the result of one that has not failed is kept.
LEMMA OperationPhases ==
    ASSUME ConfinedInv, EarlyOp \/ EarlyDone \/ ApplyOp
    PROVE  ConfinedInv'
<1>1. CASE EarlyDone
  <2>1. /\ UNCHANGED << cfg, procs, setup, ns >> /\ pc = "early" /\ pc' = "intermediate"
    BY <1>1 DEF EarlyDone, Phase, reapVars
  <2>2. Progress'
    BY <2>1 DEF ConfinedInv, Progress, Scoped, FromEarly, FromDetach, FromSysroot,
        FromCaps, FromFilter, FromStart, Running
  <2> QED
    BY <2>1, <2>2, PhaseConfined DEF ConfinedInv, Typed, InSetup, Alive
<1>2. CASE EarlyOp \/ ApplyOp
  <2>1. pc \in {"early", "apply"}
    BY <1>2 DEF EarlyOp, ApplyOp
  <2>2. PICK st : \/ /\ st.ok /\ setup' = st
                     /\ UNCHANGED << cfg, pc, ns, procs >>
                  \/ Fatal
    BY <1>2 DEF EarlyOp, ApplyOp, reapVars
  <2>3. CASE Fatal
    BY <2>1, <2>3, ExitConfined DEF Fatal, Alive, InSetup, setupVars
  <2>4. CASE st.ok /\ setup' = st /\ UNCHANGED << cfg, pc, ns, procs >>
    <3>1. Progress'
      BY <2>1, <2>4 DEF ConfinedInv, Progress, Scoped, FromEarly, FromDetach, FromSysroot,
          FromCaps, FromFilter, FromStart, Running
    <3> QED
      BY <2>1, <2>4, <3>1, PhaseConfined DEF ConfinedInv, Typed, InSetup, Alive
  <2> QED
    BY <2>2, <2>3, <2>4
<1> QED
  BY <1>1, <1>2

\* The initial program is started behind the last phase.
LEMMA ProgramConfined ==
    ASSUME ConfinedInv, StartProgram \/ Notify
    PROVE  ConfinedInv'
<1>1. UNCHANGED << cfg, k, setup, ns >>
  BY DEF StartProgram, Notify, setupVars
<1>2. /\ pc \in {"start", "notify"} /\ pc' \in Running
      /\ procs' \in [Procs -> {"none", "run", "zombie", "reaped", "killed"}]
  BY DEF StartProgram, Notify, reapVars, ConfinedInv, Typed, Running
<1>3. Ready' /\ Progress'
  BY <1>1, <1>2 DEF ConfinedInv, Progress, Ready, Scoped, OpLeft, Allowed, FromEarly,
      FromDetach, FromSysroot, FromCaps, FromFilter, FromStart, Running
<1> QED
  BY <1>1, <1>2, <1>3 DEF ConfinedInv, Typed, Begun, Alive, Running

\* A signal for init is put in its channel, ignored, or ends it.
LEMMA DeliverConfined ==
    ASSUME ConfinedInv, pc \in Alive, NEW s, Deliver(s), UNCHANGED << cfg, k, setup, ns >>
    PROVE  ConfinedInv'
<1>1. CASE UNCHANGED << pc, procs >>
  BY <1>1, OutsideConfined DEF ConfinedInv, Typed
<1>2. CASE Exit("signal", 2)
  BY <1>2, ExitConfined
<1> QED
  BY <1>1, <1>2 DEF Deliver

\* What the parent does besides starting init leaves init as it is.
LEMMA ParentConfined ==
    ASSUME ConfinedInv, Unstarted, ParentStep \/ CancelContext \/ DeliverCancel \/ Kill
    PROVE  ConfinedInv'
<1>1. CASE Start
  BY <1>1, StartConfined DEF Start, Unstarted
<1>2. CASE StartFail \/ Serve \/ ServeFail \/ Wait \/ CancelContext
  <2>1. UNCHANGED << cfg, pc, k, setup, ns, procs >>
    BY <1>2 DEF StartFail, Serve, ServeFail, Wait, CancelContext, setupVars, reapVars
  <2> QED
    BY <2>1, OutsideConfined DEF ConfinedInv, Typed
<1>3. CASE DeliverCancel
  <2>1. pc \in Alive /\ UNCHANGED << cfg, k, setup, ns >>
    BY <1>3 DEF DeliverCancel, setupVars
  <2>2. CASE cfg.ownCancel
    BY <1>3, <2>1, <2>2, OutsideConfined DEF DeliverCancel, ConfinedInv, Typed
  <2>3. CASE ~cfg.ownCancel
    BY <1>3, <2>1, <2>3, DeliverConfined DEF DeliverCancel
  <2> QED
    BY <2>2, <2>3
<1>4. CASE Kill
  BY <1>4, ExitConfined DEF Kill, setupVars
<1> QED
  BY <1>1, <1>2, <1>3, <1>4 DEF ParentStep

\* The processes inside, the wait4 thread and the loop make no initial process.
LEMMA ProcessesConfined ==
    ASSUME ConfinedInv,
           \/ \E p \in Orphans : Adopt(p)
           \/ \E p \in Procs : ProcExit(p)
           \/ SendSignal \/ WaitThread \/ LoopStep \/ Elapse
    PROVE  ConfinedInv'
<1>1. ASSUME NEW p \in Orphans, Adopt(p) PROVE ConfinedInv'
  <2>1. /\ procs' \in [Procs -> {"none", "run", "zombie", "reaped", "killed"}]
        /\ procs["initial"] # "none"
        /\ UNCHANGED << cfg, pc, k, setup, ns >>
    BY <1>1 DEF Adopt, ConfinedInv, Typed, setupVars
  <2> QED
    BY <2>1, OutsideConfined
<1>2. ASSUME NEW p \in Procs, ProcExit(p) PROVE ConfinedInv'
  <2>1. /\ procs' \in [Procs -> {"none", "run", "zombie", "reaped", "killed"}]
        /\ procs'["initial"] # "none" => procs["initial"] # "none"
        /\ UNCHANGED << cfg, pc, k, setup, ns >>
    BY <1>2 DEF ProcExit, ConfinedInv, Typed, setupVars, Procs
  <2> QED
    BY <2>1, OutsideConfined
<1>3. CASE SendSignal
  <2>1. pc \in Alive /\ UNCHANGED << cfg, k, setup, ns >>
    BY <1>3 DEF SendSignal, Alive, setupVars
  <2>2. PICK s : Deliver(s)
    BY <1>3 DEF SendSignal
  <2> QED
    BY <2>1, <2>2, DeliverConfined
<1>4. ASSUME NEW p \in Procs, Reap(p) PROVE ConfinedInv'
  <2>1. /\ procs' \in [Procs -> {"none", "run", "zombie", "reaped", "killed"}]
        /\ procs'["initial"] # "none" => procs["initial"] # "none"
        /\ UNCHANGED << cfg, pc, k, setup, ns >>
    BY <1>4 DEF Reap, ConfinedInv, Typed, setupVars, Procs
  <2> QED
    BY <2>1, OutsideConfined
<1>5. CASE Report \/ NoChild \/ HandleReaped \/ Elapse
  <2>1. UNCHANGED << cfg, pc, k, setup, ns, procs >>
    BY <1>5 DEF Report, NoChild, HandleReaped, Elapse, setupVars
  <2> QED
    BY <2>1, OutsideConfined DEF ConfinedInv, Typed
<1>6. CASE HandleSignal
  <2>1. pc \in Alive /\ UNCHANGED << cfg, k, setup, ns >>
    BY <1>6 DEF HandleSignal, Alive, setupVars
  <2>2. CASE UNCHANGED << pc, procs >>
    BY <2>1, <2>2, OutsideConfined DEF ConfinedInv, Typed
  <2>3. CASE /\ UNCHANGED pc /\ procs["initial"] = "run"
             /\ procs' = [procs EXCEPT !["initial"] = "zombie"]
    BY <2>1, <2>3, OutsideConfined DEF ConfinedInv, Typed
  <2>4. CASE Exit("signal", 0)
    BY <2>1, <2>4, ExitConfined
  <2> QED
    BY <1>6, <2>2, <2>3, <2>4 DEF HandleSignal
<1>7. CASE HandleClosed \/ HandleTimeout
  <2>1. pc \in Alive /\ UNCHANGED << cfg, k, setup, ns >>
    BY <1>7 DEF HandleClosed, HandleTimeout, Alive, setupVars
  <2>2. PICK how : Exit(how, r)
    BY <1>7 DEF HandleClosed, HandleTimeout
  <2> QED
    BY <2>1, <2>2, ExitConfined
<1> QED
  BY <1>1, <1>2, <1>3, <1>4, <1>5, <1>6, <1>7 DEF WaitThread, LoopStep

\* Only the start of the container takes init out of "none", and the parent is new no longer.
LEMMA UnstartedStep ==
    ASSUME Unstarted, Next
    PROVE  Unstarted'
<1> SUFFICES ASSUME par' = "new" PROVE pc' = "none"
  BY DEF Unstarted
<1>1. par = "new" /\ pc = "none"
  <2>1. par = "new"
    BY DEF Next, ParentStep, Start, StartFail, Serve, ServeFail, Wait, CancelContext,
        DeliverCancel, Kill, InitStep, Receive, ReceiveFail, UserMap, RSlave, EarlyOp,
        EarlyDone, Intermediate, ApplyOp, ApplyDone, DetachHost, PivotSysroot, DropCaps,
        LoadFilter, StartProgram, Notify, SetupFail, Fatal, Phase, Adopt, ProcExit,
        SendSignal, WaitThread, Reap, Report, NoChild, LoopStep, HandleSignal,
        HandleReaped, HandleClosed, HandleTimeout, Elapse, parentVars
  <2> QED
    BY <2>1 DEF Unstarted
<1> QED
  BY <1>1 DEF Next, ParentStep, Start, StartFail, Serve, ServeFail, Wait, CancelContext,
      DeliverCancel, Kill, InitStep, Receive, ReceiveFail, UserMap, RSlave, EarlyOp,
      EarlyDone, Intermediate, ApplyOp, ApplyDone, DetachHost, PivotSysroot, DropCaps,
      LoadFilter, StartProgram, Notify, SetupFail, Fatal, Phase, Adopt, ProcExit,
      SendSignal, WaitThread, Reap, Report, NoChild, LoopStep, HandleSignal,
      HandleReaped, HandleClosed, HandleTimeout, Elapse, Alive, InSetup

\* Every step keeps the invariant.
LEMMA ContainerStep ==
    ASSUME ContainerInv, [Next]_vars
    PROVE  ContainerInv'
<1>1. CASE Next
  <2>1. Unstarted'
    BY <1>1, UnstartedStep DEF ContainerInv
  <2>2. CASE InitStep
    <3>1. CASE ReceiveFail
      BY <2>1, <3>1, ExitConfined DEF ContainerInv, ReceiveFail, Fatal, Alive, InSetup, setupVars
    <3> QED
      BY <2>1, <2>2, <3>1, QuietPhases, NamespacePhases, PrivilegePhases, OperationPhases,
          ProgramConfined DEF ContainerInv, InitStep
  <2>3. CASE SetupFail
    BY <2>1, <2>3, ExitConfined DEF ContainerInv, SetupFail, Fatal, Alive, setupVars
  <2> QED
    BY <1>1, <2>1, <2>2, <2>3, ParentConfined, ProcessesConfined DEF ContainerInv, Next
<1>2. CASE UNCHANGED vars
  <2>1. UNCHANGED << cfg, pc, k, setup, ns, procs, par >>
    BY <1>2 DEF vars, parentVars, setupVars, reapVars
  <2> QED
    BY <2>1, OutsideConfined DEF ContainerInv, ConfinedInv, Typed, Unstarted
<1> QED
  BY <1>1, <1>2

\* At the start there is neither init nor an initial process.
LEMMA ContainerInit ==
    ASSUME Init
    PROVE  ContainerInv
<1>1. Typed /\ Progress /\ Unstarted
  BY DEF Init, Typed, Progress, Unstarted, NSType, HostNS, NewSetup, FromEarly, FromDetach,
      FromSysroot, FromCaps, FromFilter, FromStart, Running
<1>2. Begun
  BY DEF Init, Begun, Procs
<1> QED
  BY <1>1, <1>2 DEF ContainerInv, ConfinedInv

(***************************************************************************)
(* The initial program only ever runs confined, whatever the operations,   *)
(* the configuration and the faults: initEntrypoint reaches the start of   *)
(* the program through every phase, in order, and no phase undoes what an  *)
(* earlier one has established.                                            *)
(***************************************************************************)
THEOREM AlwaysConfined == Spec => []Confined
<1>1. Init => ContainerInv
  BY ContainerInit
<1>2. ContainerInv /\ [Next]_vars => ContainerInv'
  BY ContainerStep
<1>3. ContainerInv => Confined
  BY DEF ContainerInv, ConfinedInv, Begun, Progress, Ready, Scoped, Allowed, Confined
<1> QED
  BY <1>1, <1>2, <1>3, PTL DEF Spec

-----------------------------------------------------------------------------
(***************************************************************************)
(* The status of the initial process, on its way to the exit of init.      *)
(***************************************************************************)
\* The report that the initial process has been reaped is with the wait4 thread, or in the channel.
Underway == wait4 = "initial" \/ (info # << >> /\ Head(info) = "initial")

Dead == procs["initial"] = "reaped"

(***************************************************************************)
(* The wait4 thread runs once there is an initial process, reports it only *)
(* when it has reaped it, and finds no child left only after that.  From   *)
(* then on the status is on its way to the loop or has arrived.  Nobody is *)
(* killed before init is gone.                                             *)
(***************************************************************************)
Reaping ==
    /\ wait4 # "none" => procs["initial"] # "none"
    /\ wait4 = "closed" => Dead
    /\ Underway => Dead
    /\ Dead => Underway \/ r = ExitCode(status)
    /\ timeout # "no" => Dead /\ r = ExitCode(status)
    /\ procs["initial"] = "killed" => pc = "exited"

StatusInv == Reaping /\ StatusPropagated

\* A step that leaves the initial process and its status where they are, and does not end init.
LEMMA QuietStatus ==
    ASSUME StatusInv, UNCHANGED << status, wait4, info, timeout, r, exit >>,
           procs'["initial"] = procs["initial"], pc' = pc \/ procs["initial"] # "killed"
    PROVE  StatusInv'
<1>1. Dead' = Dead /\ Underway' = Underway
  BY DEF Dead, Underway
<1>2. ExitCode(status)' = ExitCode(status)
  OBVIOUS
<1>3. Reaping'
  BY <1>1 DEF StatusInv, Reaping
<1> QED
  BY <1>1, <1>3 DEF StatusInv, StatusPropagated, Dead

\* The exit of init, with the status that has arrived if its processes are gone or late.
LEMMA ExitStatus ==
    ASSUME StatusInv, Typed, NEW how, NEW code, Exit(how, code),
           UNCHANGED << status, wait4, info, timeout, r >>,
           how \in {"reaped", "timeout"} => Dead /\ code = ExitCode(status)
    PROVE  StatusInv'
<1>1. /\ procs'["initial"] = (IF procs["initial"] = "run" THEN "killed" ELSE procs["initial"])
      /\ pc' = "exited" /\ exit'.how = how /\ exit'.code = code
  BY DEF Exit, Procs
<1>2. Dead' = Dead /\ Underway' = Underway
  BY <1>1 DEF Dead, Underway
<1>3. procs'["initial"] = "none" <=> procs["initial"] = "none"
  BY <1>1
<1>4. Reaping'
  BY <1>1, <1>2, <1>3 DEF StatusInv, Reaping
<1>5. StatusPropagated'
  BY <1>1, <1>2 DEF StatusPropagated, Dead
<1> QED
  BY <1>4, <1>5 DEF StatusInv

\* The initial process dies: it has not been reaped before.
LEMMA DeathStatus ==
    ASSUME StatusInv, Typed, procs["initial"] = "run",
           procs' = [procs EXCEPT !["initial"] = "zombie"],
           UNCHANGED << pc, wait4, info, timeout, r, exit >>
    PROVE  StatusInv'
<1>1. procs'["initial"] = "zombie" /\ ~Dead /\ ~Dead' /\ Underway' = Underway
  BY DEF Typed, Procs, Dead, Underway
<1> QED
  BY <1>1 DEF StatusInv, Reaping, StatusPropagated, Dead

\* A signal for init does not touch the status.
LEMMA DeliverStatus ==
    ASSUME StatusInv, Typed, NEW s, Deliver(s), UNCHANGED << status, wait4, info, timeout, r >>
    PROVE  StatusInv'
<1>1. CASE UNCHANGED << pc, procs, exit >>
  BY <1>1, QuietStatus
<1>2. CASE Exit("signal", 2)
  BY <1>2, ExitStatus
<1> QED
  BY <1>1, <1>2 DEF Deliver

\* Neither the parent nor the phases of init touch the status; a fatal one ends init.
LEMMA SetupStatus ==
    ASSUME StatusInv, ContainerInv, ParentStep \/ CancelContext \/ DeliverCancel \/ Kill
                                        \/ InitStep \/ SetupFail
    PROVE  StatusInv'
<1>1. Typed
  BY DEF ContainerInv, ConfinedInv
<1>2. CASE Start
  BY <1>2, QuietStatus DEF Start, reapVars, ContainerInv, ConfinedInv, Unstarted, Begun, Running
<1>3. CASE StartFail \/ Serve \/ ServeFail \/ Wait \/ CancelContext
  <2>1. UNCHANGED << pc, procs, status, wait4, info, timeout, r, exit >>
    BY <1>3 DEF StartFail, Serve, ServeFail, Wait, CancelContext, reapVars
  <2> QED
    BY <2>1, QuietStatus
<1>4. CASE DeliverCancel
  <2>1. CASE cfg.ownCancel
    BY <1>4, <2>1, QuietStatus DEF DeliverCancel
  <2>2. CASE ~cfg.ownCancel
    BY <1>1, <1>4, <2>2, DeliverStatus DEF DeliverCancel
  <2> QED
    BY <2>1, <2>2
<1>5. CASE Kill
  BY <1>1, <1>5, ExitStatus DEF Kill
<1>6. CASE SetupFail \/ ReceiveFail
  BY <1>1, <1>6, ExitStatus DEF SetupFail, ReceiveFail, Fatal
<1>7. CASE EarlyOp \/ ApplyOp
  <2>1. CASE Fatal
    BY <1>1, <2>1, ExitStatus DEF Fatal
  <2>2. CASE UNCHANGED << pc, reapVars, exit >>
    BY <2>2, QuietStatus DEF reapVars
  <2> QED
    BY <1>7, <2>1, <2>2 DEF EarlyOp, ApplyOp
<1>8. CASE Receive \/ UserMap \/ RSlave \/ EarlyDone \/ Intermediate \/ ApplyDone
           \/ DetachHost \/ PivotSysroot \/ DropCaps \/ LoadFilter \/ Notify
  <2>1. /\ UNCHANGED << procs, status, wait4, info, timeout, r, exit >>
        /\ pc # "exited"
    BY <1>8 DEF Receive, UserMap, RSlave, EarlyDone, Intermediate, ApplyDone, DetachHost,
        PivotSysroot, DropCaps, LoadFilter, Notify, Phase, reapVars
  <2>2. procs["initial"] # "killed"
    BY <2>1 DEF StatusInv, Reaping
  <2> QED
    BY <2>1, <2>2, QuietStatus
<1>9. CASE StartProgram
  <2>1. procs["initial"] = "none"
    BY <1>9 DEF StartProgram, ContainerInv, ConfinedInv, Begun, Running
  <2>2. /\ procs'["initial"] = "run" /\ wait4' = "waiting"
        /\ UNCHANGED << status, info, timeout, r, exit >>
    BY <1>1, <1>9 DEF StartProgram, Typed, Procs
  <2>3. ~Dead /\ ~Dead' /\ ~Underway /\ ~Underway'
    BY <2>1, <2>2 DEF Dead, Underway, StatusInv, Reaping
  <2> QED
    BY <2>1, <2>2, <2>3 DEF StatusInv, Reaping, StatusPropagated, Dead
<1> QED
  BY <1>2, <1>3, <1>4, <1>5, <1>6, <1>7, <1>8, <1>9 DEF ParentStep, InitStep

\* The processes inside.
LEMMA ProcessStatus ==
    ASSUME StatusInv, Typed,
           \/ \E p \in Orphans : Adopt(p)
           \/ \E p \in Procs : ProcExit(p)
           \/ SendSignal
    PROVE  StatusInv'
<1>1. ASSUME NEW p \in Orphans, Adopt(p) PROVE StatusInv'
  <2>1. p # "initial" /\ p \in Procs
    BY ContainerAssumption DEF Procs
  <2>2. procs'["initial"] = procs["initial"]
    BY <1>1, <2>1 DEF Adopt, Typed, Procs
  <2> QED
    BY <1>1, <2>2, QuietStatus DEF Adopt
<1>2. ASSUME NEW p \in Procs, ProcExit(p) PROVE StatusInv'
  <2>1. CASE p = "initial"
    BY <1>2, <2>1, DeathStatus DEF ProcExit
  <2>2. CASE p # "initial"
    <3>1. procs'["initial"] = procs["initial"] /\ status' = status
      BY <1>2, <2>2 DEF ProcExit, Typed, Procs
    <3> QED
      BY <1>2, <3>1, QuietStatus DEF ProcExit
  <2> QED
    BY <2>1, <2>2
<1>3. CASE SendSignal
  BY <1>3, DeliverStatus DEF SendSignal
<1> QED
  BY <1>1, <1>2, <1>3

\* The wait4 thread reaps the initial process, passes it on, and sees that nobody is left.
LEMMA ThreadStatus ==
    ASSUME StatusInv, Typed, WaitThread
    PROVE  StatusInv'
<1>1. ASSUME NEW p \in Procs, Reap(p) PROVE StatusInv'
  <2>1. /\ procs' = [procs EXCEPT ![p] = "reaped"] /\ wait4' = p /\ wait4 = "waiting"
        /\ procs[p] = "zombie" /\ pc # "exited"
        /\ UNCHANGED << pc, status, info, timeout, r, exit >>
    BY <1>1 DEF Reap, Alive, InSetup
  <2>2. p # "closed"
    BY ContainerAssumption DEF Procs
  <2>3. CASE p = "initial"
    <3>1. ~Dead /\ Dead' /\ Underway' /\ procs'["initial"] = "reaped"
      BY <2>1, <2>3 DEF Dead, Underway, Typed
    <3> QED
      BY <2>1, <2>2, <3>1 DEF StatusInv, Reaping, StatusPropagated, Dead
  <2>4. CASE p # "initial"
    <3>1. procs'["initial"] = procs["initial"]
      BY <2>1, <2>4 DEF Typed, Procs
    <3>2. Dead' = Dead /\ Underway' = Underway
      BY <2>1, <2>4, <3>1 DEF Dead, Underway
    <3> QED
      BY <2>1, <2>2, <3>1, <3>2 DEF StatusInv, Reaping, StatusPropagated, Dead
  <2> QED
    BY <2>3, <2>4
<1>2. CASE Report
  <2>1. /\ info = << >> /\ info' = << wait4 >> /\ wait4' = "waiting" /\ wait4 # "none"
        /\ UNCHANGED << pc, procs, status, timeout, r, exit >>
    BY <1>2, ContainerAssumption DEF Report, Procs
  <2>2. Dead' = Dead
    BY <2>1 DEF Dead
  <2>3. Underway' = Underway
    BY <2>1 DEF Underway
  <2> QED
    BY <2>1, <2>2, <2>3 DEF StatusInv, Reaping, StatusPropagated, Dead
<1>3. CASE NoChild
  <2>1. /\ wait4 = "waiting" /\ wait4' = "closed" /\ Children4 = {} /\ pc # "exited"
        /\ UNCHANGED << pc, procs, status, info, timeout, r, exit >>
    BY <1>3 DEF NoChild, Alive, InSetup
  <2>2. Dead
    <3>1. procs["initial"] \notin {"run", "zombie"}
      BY <2>1 DEF Children4, Procs
    <3>2. procs["initial"] \notin {"none", "killed"}
      BY <2>1 DEF StatusInv, Reaping
    <3> QED
      BY <3>1, <3>2 DEF Dead, Typed, Procs
  <2>3. Dead' = Dead /\ Underway' = Underway
    BY <2>1 DEF Dead, Underway
  <2> QED
    BY <2>1, <2>2, <2>3 DEF StatusInv, Reaping, StatusPropagated, Dead
<1> QED
  BY <1>1, <1>2, <1>3 DEF WaitThread

\* The loop takes the status when the report arrives, and exits with it.
LEMMA LoopStatus ==
    ASSUME StatusInv, Typed, LoopStep \/ Elapse
    PROVE  StatusInv'
<1>1. CASE HandleSignal
  <2>1. UNCHANGED << wait4, info, timeout, r >>
    BY <1>1 DEF HandleSignal
  <2>2. CASE UNCHANGED << pc, procs, status, exit >>
    BY <2>1, <2>2, QuietStatus
  <2>3. CASE /\ UNCHANGED << pc, exit >> /\ procs["initial"] = "run"
             /\ procs' = [procs EXCEPT !["initial"] = "zombie"]
    BY <2>1, <2>3, DeathStatus
  <2>4. CASE Exit("signal", 0) /\ UNCHANGED status
    BY <2>1, <2>4, ExitStatus
  <2> QED
    BY <1>1, <2>2, <2>3, <2>4 DEF HandleSignal
<1>2. CASE HandleReaped
  <2>1. /\ info # << >> /\ info' = << >>
        /\ UNCHANGED << pc, procs, status, wait4, exit >>
    BY <1>2 DEF HandleReaped
  <2>2. Dead' = Dead
    BY <2>1 DEF Dead
  <2>3. CASE Head(info) = "initial"
    <3>1. Dead /\ r' = ExitCode(status)
      BY <1>2, <2>1, <2>3 DEF HandleReaped, StatusInv, Reaping, Underway
    <3>2. Underway' => wait4 = "initial"
      BY <2>1 DEF Underway
    <3> QED
      BY <2>1, <2>2, <3>1, <3>2 DEF StatusInv, Reaping, StatusPropagated, Dead
  <2>4. CASE Head(info) # "initial"
    <3>1. UNCHANGED << r, timeout >>
      BY <1>2, <2>4 DEF HandleReaped
    <3>2. Underway' = Underway
      BY <2>1, <2>4 DEF Underway
    <3> QED
      BY <2>1, <2>2, <3>1, <3>2 DEF StatusInv, Reaping, StatusPropagated, Dead
  <2> QED
    BY <2>3, <2>4
<1>3. CASE HandleClosed
  <2>1. Dead /\ r = ExitCode(status)
    BY <1>3 DEF HandleClosed, StatusInv, Reaping, Underway
  <2> QED
    BY <1>3, <2>1, ExitStatus DEF HandleClosed
<1>4. CASE HandleTimeout
  <2>1. Dead /\ r = ExitCode(status)
    BY <1>4 DEF HandleTimeout, StatusInv, Reaping
  <2> QED
    BY <1>4, <2>1, ExitStatus DEF HandleTimeout
<1>5. CASE Elapse
  <2>1. /\ timeout = "armed" /\ UNCHANGED << pc, procs, status, wait4, info, r, exit >>
    BY <1>5 DEF Elapse
  <2>2. Dead' = Dead /\ Underway' = Underway
    BY <2>1 DEF Dead, Underway
  <2> QED
    BY <2>1, <2>2 DEF StatusInv, Reaping, StatusPropagated, Dead
<1> QED
  BY <1>1, <1>2, <1>3, <1>4, <1>5 DEF LoopStep

\* Every step keeps the account of the status.
LEMMA StatusStep ==
    ASSUME StatusInv, ContainerInv, [Next]_vars
    PROVE  StatusInv'
<1>1. Typed
  BY DEF ContainerInv, ConfinedInv
<1>2. CASE UNCHANGED vars
  BY <1>2, QuietStatus DEF vars, reapVars
<1> QED
  BY <1>1, <1>2, SetupStatus, ProcessStatus, ThreadStatus, LoopStatus DEF Next

(***************************************************************************)
(* When init exits because its processes are gone, or did not go in time,  *)
(* it exits with the status of the initial process: however many orphans   *)
(* it adopts, in whatever order they and the initial process die and are   *)
(* reaped, and whenever the timeout elapses.                               *)
(***************************************************************************)
THEOREM StatusAlwaysPropagated == Spec => []StatusPropagated
<1>1. Init => ContainerInv /\ StatusInv
  <2> SUFFICES ASSUME Init PROVE ContainerInv /\ StatusInv
    OBVIOUS
  <2>1. StatusInv
    BY DEF Init, StatusInv, Reaping, StatusPropagated, Dead, Underway, Procs
  <2> QED
    BY <2>1, ContainerInit
<1>2. ContainerInv /\ StatusInv /\ [Next]_vars => ContainerInv' /\ StatusInv'
  BY ContainerStep, StatusStep
<1>3. StatusInv => StatusPropagated
  BY DEF StatusInv
<1> QED
  BY <1>1, <1>2, <1>3, PTL DEF Spec

-----------------------------------------------------------------------------
(***************************************************************************)
(* Bind mounts: the tree of mounts Unfold builds, what remount reaches in  *)
(* it, and the state of the setup operations.                              *)
(***************************************************************************)
\* A pathname is a finite list of names.
LEMMA PathnameSeq ==
    ASSUME NEW p, IsPathname(p)
    PROVE  Len(p) \in Nat /\ DOMAIN p = 1..Len(p) /\ p \in Seq(Range(p))
           /\ p = [i \in 1..Len(p) |-> p[i]]
<1>1. p \in Seq(Range(p))
  BY DEF IsPathname
<1> DEFINE S == Range(p)
<1> HIDE DEF S
<1>2. p \in Seq(S)
  BY <1>1 DEF S
<1>3. p \in [1..Len(p) -> S] /\ Len(p) \in Nat
  BY <1>2
<1> QED
  BY <1>1, <1>3

\* What is a list of some names is a pathname.
LEMMA SeqPathname ==
    ASSUME NEW S, NEW p \in Seq(S)
    PROVE  IsPathname(p)
<1>1. Len(p) \in Nat /\ p \in [1..Len(p) -> S]
  OBVIOUS
<1>2. DOMAIN p = 1..Len(p) /\ \A i \in 1..Len(p) : p[i] \in Range(p)
  BY <1>1 DEF Range
<1>3. p \in [1..Len(p) -> Range(p)]
  BY <1>1, <1>2
<1> QED
  BY <1>1, <1>3 DEF IsPathname

\* One pathname is under another when it begins with it.
LEMMA UnderNames ==
    ASSUME NEW p, NEW q, IsPathname(p), IsPathname(q)
    PROVE  Under(p, q) <=> Len(q) <= Len(p) /\ \A i \in 1..Len(q) : p[i] = q[i]
<1>1. Len(p) \in Nat /\ Len(q) \in Nat /\ p \in Seq(Range(p)) /\ q \in Seq(Range(q))
  BY PathnameSeq
<1> DEFINE A == Range(p)
           B == Range(q)
<1> HIDE DEF A, B
<1>2. p \in Seq(A) /\ q \in Seq(B)
  BY <1>1 DEF A, B
<1>3. SubSeq(q, 1, Len(q)) = [i \in 1..Len(q) |-> q[i]]
  BY <1>1, <1>2
<1>4. ASSUME Len(q) <= Len(p) PROVE SubSeq(p, 1, Len(q)) = [i \in 1..Len(q) |-> p[i]]
  BY <1>1, <1>2, <1>4
<1> QED
  BY <1>3, <1>4 DEF Under, IsPrefix

\* A pathname is at or below itself.
LEMMA UnderSelf ==
    ASSUME NEW p, IsPathname(p)
    PROVE  Under(p, p)
  BY UnderNames, PathnameSeq

\* What is below a pathname is below everything above that.
LEMMA UnderTrans ==
    ASSUME NEW p, NEW q, NEW w, IsPathname(p), IsPathname(q), IsPathname(w),
           Under(p, q), Under(q, w)
    PROVE  Under(p, w)
<1>1. Len(p) \in Nat /\ Len(q) \in Nat /\ Len(w) \in Nat
  BY PathnameSeq
<1>2. Len(q) <= Len(p) /\ \A i \in 1..Len(q) : p[i] = q[i]
  BY UnderNames
<1>3. Len(w) <= Len(q) /\ \A i \in 1..Len(w) : q[i] = w[i]
  BY UnderNames
<1>4. Len(w) <= Len(p) /\ \A i \in 1..Len(w) : p[i] = w[i]
  BY <1>1, <1>2, <1>3
<1> QED
  BY <1>4, UnderNames

\* Two pathnames below each other are one.
LEMMA UnderEach ==
    ASSUME NEW p, NEW q, IsPathname(p), IsPathname(q), Under(p, q), Under(q, p)
    PROVE  p = q
<1>1. /\ Len(p) \in Nat /\ Len(q) \in Nat
      /\ p = [i \in 1..Len(p) |-> p[i]] /\ q = [i \in 1..Len(q) |-> q[i]]
  BY PathnameSeq
<1>2. Len(q) <= Len(p) /\ \A i \in 1..Len(q) : p[i] = q[i]
  BY UnderNames
<1>3. Len(p) <= Len(q)
  BY UnderNames
<1>4. Len(p) = Len(q)
  <2>1. Len(p) \in Nat /\ Len(q) \in Nat /\ Len(q) <= Len(p)
    BY <1>1, <1>2
  <2> QED
    BY <1>3, <2>1
<1>5. [i \in 1..Len(p) |-> p[i]] = [i \in 1..Len(q) |-> q[i]]
  BY <1>2, <1>4
<1> QED
  BY <1>1, <1>5

\* What is under a pathname also has it for a prefix when it is written out.
LEMMA UnderPrefix ==
    ASSUME NEW p, NEW q, IsPathname(p), IsPathname(q), Under(p, q)
    PROVE  HasPrefix(p, q)
<1>1. Len(p) \in Nat /\ Len(q) \in Nat /\ q = [i \in 1..Len(q) |-> q[i]]
  BY PathnameSeq
<1>2. Len(q) <= Len(p) /\ \A i \in 1..Len(q) : p[i] = q[i]
  BY UnderNames
<1>3. CASE Len(q) = 0
  <2>1. q = << >>
    <3>1. q \in Seq(Range(q))
      BY PathnameSeq
    <3> QED
      BY <1>3, <3>1
  <2> QED
    BY <2>1 DEF HasPrefix
<1>4. CASE Len(q) # 0
  <2>1. Len(q) \in 1..Len(q) /\ \A i \in 1..(Len(q) - 1) : i \in 1..Len(q)
    BY <1>1, <1>4
  <2> QED
    BY <1>2, <2>1 DEF HasPrefix
<1> QED
  BY <1>3, <1>4

\* A set of numbers that is not empty has a smallest one.
LEMMA Smallest ==
    ASSUME NEW S \in SUBSET Nat, S # {}
    PROVE  \E v \in S : \A j \in S : v <= j
<1>1. PICK v \in S : \A j \in S : ~(<< j, v >> \in OpToRel(<, Nat))
  BY NatLessThanWellFounded, WFMin
<1>2. \A j \in S : ~(j < v)
  BY <1>1 DEF OpToRel
<1> QED
  BY <1>2

\* What holds of 0 and is handed on holds up to n.
LEMMA Climb ==
    ASSUME NEW n \in Nat, NEW P \in [0 .. n -> BOOLEAN], P[0],
           \A v \in 1 .. n : P[v - 1] => P[v]
    PROVE  \A v \in 0 .. n : P[v]
<1> DEFINE bad == {v \in 0 .. n : ~P[v]}
<1>1. SUFFICES ASSUME bad # {} PROVE FALSE
  OBVIOUS
<1>2. PICK v \in bad : \A j \in bad : v <= j
  <2>1. bad \in SUBSET Nat
    OBVIOUS
  <2> HIDE DEF bad
  <2> QED
    BY <1>1, <2>1, Smallest
<1>3. v \in 1 .. n /\ v - 1 \in 0 .. n /\ v - 1 \notin bad
  BY <1>2
<1> QED
  BY <1>2, <1>3

\* A set of numbers up to n that is not empty has a largest one.
LEMMA Largest ==
    ASSUME NEW n \in Nat, NEW S \in SUBSET (1..n), S # {},
           NEW m, m = CHOOSE v \in S : \A j \in S : j <= v
    PROVE  m \in S /\ \A j \in S : j <= m
<1> DEFINE left == {n - v : v \in S}
<1>1. left \in SUBSET Nat /\ left # {}
  <2>1. \A v \in S : n - v \in Nat
    OBVIOUS
  <2> QED
    BY <2>1
<1>2. PICK l \in left : \A j \in left : l <= j
  <2> HIDE DEF left
  <2> QED
    BY <1>1, Smallest
<1>3. PICK v \in S : l = n - v
  BY <1>2
<1>4. \A j \in S : j <= v
  <2> TAKE j \in S
  <2>1. n - j \in left
    OBVIOUS
  <2>2. n - v <= n - j
    <3> HIDE DEF left
    <3> QED
      BY <1>2, <1>3, <2>1
  <2> QED
    BY <2>2
<1> QED
  BY <1>4

\* A mount table is a list.
IsTable(mt) == \E S : mt \in Seq(S)

\* The positions of a mount table.
LEMMA TableSeq ==
    ASSUME NEW mt, IsTable(mt)
    PROVE  Len(mt) \in Nat /\ DOMAIN mt = 1..Len(mt)
<1>1. PICK S : mt \in Seq(S)
  BY DEF IsTable
<1> QED
  BY <1>1

\* A pathname with a mount above it resolves to the last of those.
LEMMA OwnerLast ==
    ASSUME NEW mt, IsTable(mt), NEW p, NEW v \in DOMAIN mt, Under(p, mt[v].at)
    PROVE  /\ Owner(mt, p) \in DOMAIN mt /\ Under(p, mt[Owner(mt, p)].at)
           /\ \A c \in DOMAIN mt : Under(p, mt[c].at) => c <= Owner(mt, p)
<1> DEFINE above == {c \in DOMAIN mt : Under(p, mt[c].at)}
           m == CHOOSE c \in above : \A j \in above : j <= c
<1>1. Owner(mt, p) = m
  BY DEF Owner
<1>2. above \in SUBSET (1..Len(mt)) /\ above # {} /\ Len(mt) \in Nat
  BY TableSeq
<1>3. m \in above /\ \A j \in above : j <= m
  <2> HIDE DEF above
  <2> QED
    BY <1>2, Largest
<1> QED
  BY <1>1, <1>3

\* The mount point of a mount was found in the last mount before it at or above it.
LEMMA ParentLast ==
    ASSUME NEW mt, IsTable(mt), NEW v \in DOMAIN mt
    PROVE  /\ Parent(mt, v) \in Nat /\ Parent(mt, v) < v
           /\ Parent(mt, v) # 0 => Under(mt[v].at, mt[Parent(mt, v)].at)
           /\ \A c \in DOMAIN mt : c < v /\ Under(mt[v].at, mt[c].at) => c <= Parent(mt, v)
<1> DEFINE pre == SubSeq(mt, 1, v - 1)
           p == mt[v].at
<1>1. Len(mt) \in Nat /\ DOMAIN mt = 1..Len(mt) /\ v \in 1..Len(mt)
  BY TableSeq
<1>2. /\ IsTable(pre) /\ DOMAIN pre = 1..(v - 1)
      /\ \A c \in 1..(v - 1) : pre[c] = mt[c]
  <2>1. PICK S : mt \in Seq(S)
    BY DEF IsTable
  <2>2. pre \in Seq(S) /\ Len(pre) = v - 1 /\ \A c \in 1..(v - 1) : pre[c] = mt[c]
    BY <1>1, <2>1
  <2>3. DOMAIN pre = 1..(v - 1)
    BY <2>2
  <2> QED
    BY <2>2, <2>3 DEF IsTable
<1>3. Parent(mt, v) = Owner(pre, p)
  BY DEF Parent
<1> HIDE DEF pre, p
<1>4. CASE \E c \in 1..(v - 1) : Under(p, mt[c].at)
  <2>1. PICK c \in 1..(v - 1) : Under(p, mt[c].at)
    BY <1>4
  <2>2. /\ Owner(pre, p) \in DOMAIN pre /\ Under(p, pre[Owner(pre, p)].at)
        /\ \A d \in DOMAIN pre : Under(p, pre[d].at) => d <= Owner(pre, p)
    BY <1>2, <2>1, OwnerLast
  <2>3. /\ Owner(pre, p) \in 1..(v - 1) /\ Under(p, mt[Owner(pre, p)].at)
        /\ \A d \in 1..(v - 1) : Under(p, mt[d].at) => d <= Owner(pre, p)
    BY <1>2, <2>2
  <2>4. Owner(pre, p) \in Nat /\ Owner(pre, p) < v
    BY <1>1, <2>3
  <2>5. \A d \in DOMAIN mt : d < v => d \in 1..(v - 1)
    BY <1>1
  <2> QED
    BY <1>3, <2>3, <2>4, <2>5 DEF p
<1>5. CASE ~\E c \in 1..(v - 1) : Under(p, mt[c].at)
  <2>1. {c \in DOMAIN pre : Under(p, pre[c].at)} = {}
    BY <1>2, <1>5
  <2>2. Owner(pre, p) = 0
    BY <2>1 DEF Owner
  <2>3. \A d \in DOMAIN mt : d < v => d \in 1..(v - 1)
    BY <1>1
  <2> QED
    BY <1>1, <1>3, <1>5, <2>2, <2>3 DEF p
<1> QED
  BY <1>4, <1>5

(***************************************************************************)
(* A table as a bind mount leaves it: position top is the last mount on    *)
(* the target, what comes after it was bound along and is below it, and    *)
(* among those no pathname has another for a prefix but the ones above it. *)
(***************************************************************************)
Bound(mt, top, target) ==
    /\ IsTable(mt) /\ IsPathname(target)
    /\ top \in DOMAIN mt /\ mt[top].at = target
    /\ \A c \in DOMAIN mt : c > top =>
          IsPathname(mt[c].at) /\ Under(mt[c].at, target) /\ mt[c].at # target
    /\ \A c, d \in DOMAIN mt : c > top /\ d > top =>
          (HasPrefix(mt[c].at, mt[d].at) => Under(mt[c].at, mt[d].at))

\* Unfold finds the bind mount itself.
LEMMA UnfoldTop ==
    ASSUME NEW mt, NEW top, NEW target, Bound(mt, top, target)
    PROVE  UnfoldTarget(mt, target) = top
<1> DEFINE same == {v \in DOMAIN mt : mt[v].at = target}
           m == CHOOSE v \in same : \A j \in same : j <= v
<1>1. /\ Len(mt) \in Nat /\ DOMAIN mt = 1..Len(mt) /\ top \in same
      /\ \A c \in DOMAIN mt : c > top => mt[c].at # target
  BY TableSeq DEF Bound
<1>2. UnfoldTarget(mt, target) = m
  BY <1>1 DEF UnfoldTarget
<1>3. same \in SUBSET (1..Len(mt)) /\ \A c \in same : ~(c > top)
  BY <1>1
<1> HIDE DEF same
<1>4. m \in same /\ top <= m
  BY <1>1, <1>3, Largest
<1>5. m = top
  <2> HIDE DEF m
  <2>1. m \in Nat /\ top \in Nat /\ ~(m > top)
    BY <1>1, <1>3, <1>4
  <2> QED
    BY <1>4, <2>1
<1> QED
  BY <1>2, <1>5

\* Whatever comes after a mount at or above its mount point is on that mount point.
Open(mt, j) ==
    \A c \in DOMAIN mt : c > j /\ Under(mt[j].at, mt[c].at) => mt[c].at = mt[j].at

\* The mounts bound along were mounted in the bind mount, or in one another.
LEMMA ParentBound ==
    ASSUME NEW mt, NEW top, NEW target, Bound(mt, top, target),
           NEW j \in DOMAIN mt, j > top
    PROVE  /\ Parent(mt, j) \in DOMAIN mt /\ Parent(mt, j) >= top /\ Parent(mt, j) < j
           /\ IsPathname(mt[Parent(mt, j)].at) /\ Under(mt[j].at, mt[Parent(mt, j)].at)
           /\ \A c \in DOMAIN mt : c < j /\ Under(mt[j].at, mt[c].at) => c <= Parent(mt, j)
<1> DEFINE p == Parent(mt, j)
<1>1. /\ IsTable(mt) /\ Len(mt) \in Nat /\ DOMAIN mt = 1..Len(mt)
      /\ top \in DOMAIN mt /\ mt[top].at = target /\ IsPathname(target)
      /\ Under(mt[j].at, target)
  BY TableSeq DEF Bound
<1>2. /\ p \in Nat /\ p < j /\ (p # 0 => Under(mt[j].at, mt[p].at))
      /\ \A c \in DOMAIN mt : c < j /\ Under(mt[j].at, mt[c].at) => c <= p
  BY <1>1, ParentLast
<1> HIDE DEF p
<1>3. top < j /\ top <= p
  BY <1>1, <1>2
<1>4. p \in DOMAIN mt /\ p >= top /\ p # 0
  BY <1>1, <1>2, <1>3
<1>5. IsPathname(mt[p].at)
  <2>1. CASE p = top
    BY <1>1, <2>1
  <2>2. CASE p # top
    <3>1. p > top
      BY <1>1, <1>2, <1>3, <2>2
    <3> QED
      BY <1>4, <3>1 DEF Bound
  <2> QED
    BY <2>1, <2>2
<1> QED
  BY <1>2, <1>4, <1>5 DEF p

\* The parent of an open mount is open.
LEMMA OpenParent ==
    ASSUME NEW mt, NEW top, NEW target, Bound(mt, top, target),
           NEW j \in DOMAIN mt, j > top, Open(mt, j)
    PROVE  Open(mt, Parent(mt, j))
<1> DEFINE p == Parent(mt, j)
<1>1. /\ p \in DOMAIN mt /\ p >= top /\ p < j /\ IsPathname(mt[p].at)
      /\ Under(mt[j].at, mt[p].at)
      /\ \A c \in DOMAIN mt : c < j /\ Under(mt[j].at, mt[c].at) => c <= p
  BY ParentBound
<1>2. Len(mt) \in Nat /\ DOMAIN mt = 1..Len(mt) /\ top \in DOMAIN mt /\ IsPathname(mt[j].at)
  BY TableSeq DEF Bound
<1> HIDE DEF p
<1> SUFFICES ASSUME NEW c \in DOMAIN mt, c > p, Under(mt[p].at, mt[c].at)
             PROVE  mt[c].at = mt[p].at
  BY DEF Open, p
<1>3. c \in Nat /\ p \in Nat /\ j \in Nat /\ top \in Nat /\ c > top
  BY <1>1, <1>2
<1>4. IsPathname(mt[c].at)
  BY <1>3 DEF Bound
<1>5. Under(mt[j].at, mt[c].at)
  BY <1>1, <1>2, <1>4, UnderTrans
<1>6. c >= j
  BY <1>1, <1>3, <1>5
<1>7. mt[c].at = mt[j].at
  <2>1. CASE c = j
    BY <2>1
  <2>2. CASE c # j
    <3>1. c > j
      BY <1>3, <1>6, <2>2
    <3> QED
      BY <1>5, <3>1 DEF Open
  <2> QED
    BY <2>1, <2>2
<1> QED
  BY <1>1, <1>2, <1>7, UnderEach

\* The children of every mount after one more entry of mountinfo.
Hung(mt, target, ch, n) ==
    IF n \in Related(mt, target)
    THEN [ch EXCEPT ![Parent(mt, n)] = Insert(mt, @, n)]
    ELSE ch

\* The lists of children entry by entry.
LEMMA ChildrenSteps ==
    ASSUME NEW mt, IsTable(mt), NEW target
    PROVE  \E f : /\ f[0] = [v \in DOMAIN mt |-> {}]
                  /\ \A n \in 1..Len(mt) : f[n] = Hung(mt, target, f[n - 1], n)
                  /\ Children(mt, target) = f[Len(mt)]
<1> DEFINE L == Len(mt)
           e == [v \in DOMAIN mt |-> {}]
           step(g, n) == Hung(mt, target, g[n - 1], n)
           Run(g) == [n \in 0..L |-> IF n = 0 THEN e ELSE step(g, n)]
           F == CHOOSE g : g = Run(g)
           Solves(g, m) == /\ g = [n \in 0..m |-> g[n]] /\ g[0] = e
                           /\ \A n \in 1..m : g[n] = step(g, n)
           none == {m \in 0..L : \A g : ~Solves(g, m)}
<1>1. L \in Nat
  BY TableSeq
<1>2. Children(mt, target) = F[L]
  BY DEF Children, Hung
<1> HIDE DEF L, e
<1>3. ASSUME none # {} PROVE FALSE
  <2>1. PICK m \in none : \A j \in none : m <= j
    <3>1. none \in SUBSET Nat
      <4> HIDE DEF Solves
      <4> QED
        BY <1>1
    <3> HIDE DEF none
    <3> QED
      BY <1>3, <3>1, Smallest
  <2>2. m \in 0..L /\ \A g : ~Solves(g, m)
    <3> HIDE DEF Solves
    <3> QED
      BY <2>1
  <2>3. m # 0
    <3>1. Solves([n \in 0..0 |-> e], 0)
      OBVIOUS
    <3> HIDE DEF Solves
    <3> QED
      BY <2>2, <3>1
  <2>4. m - 1 \in 0..L /\ ~(m <= m - 1) /\ m \in Nat
    BY <1>1, <2>2, <2>3
  <2>5. PICK g : Solves(g, m - 1)
    <3>1. m - 1 \notin none
      <4> HIDE DEF none
      <4> QED
        BY <2>1, <2>4
    <3> HIDE DEF Solves
    <3> QED
      BY <2>4, <3>1
  <2> DEFINE h == [n \in 0..m |-> IF n = m THEN step(g, m) ELSE g[n]]
  <2>6. h[0] = e
    <3>1. 0 \in 0..m /\ 0 # m
      BY <2>3, <2>4
    <3> QED
      BY <2>5, <3>1
  <2>7. ASSUME NEW n \in 1..m PROVE h[n] = step(h, n)
    <3>1. n \in 0..m /\ n - 1 \in 0..m /\ n - 1 # m /\ h[n - 1] = g[n - 1]
      BY <2>4
    <3>2. step(h, n) = step(g, n)
      BY <3>1
    <3>3. CASE n = m
      BY <3>1, <3>2, <3>3
    <3>4. CASE n # m
      <4>1. n \in 1..(m - 1) /\ h[n] = g[n]
        BY <2>4, <3>1, <3>4
      <4> HIDE DEF step
      <4> QED
        BY <2>5, <3>2, <4>1
    <3> QED
      BY <3>3, <3>4
  <2>8. Solves(h, m)
    <3>1. h = [n \in 0..m |-> h[n]]
      OBVIOUS
    <3> HIDE DEF h, step
    <3> QED
      BY <2>6, <2>7, <3>1
  <2> HIDE DEF Solves, h
  <2> QED
    BY <2>2, <2>8
<1>4. PICK g : Solves(g, L)
  <2>1. L \in 0..L
    BY <1>1
  <2>2. L \notin none
    <3> HIDE DEF none
    <3> QED
      BY <1>3
  <2> HIDE DEF Solves
  <2> QED
    BY <2>1, <2>2
<1>5. F = Run(F)
  <2>1. g = Run(g)
    <3>1. \A n \in 0..L : n # 0 => n \in 1..L
      BY <1>1
    <3> HIDE DEF step
    <3> QED
      BY <1>4, <3>1
  <2> HIDE DEF Run
  <2> QED
    BY <2>1
<1> HIDE DEF F
<1>6. F[0] = e /\ \A n \in 1..L : F[n] = step(F, n)
  <2>1. \A n \in 0..L : Run(F)[n] = IF n = 0 THEN e ELSE step(F, n)
    <3> HIDE DEF step
    <3> QED
      OBVIOUS
  <2>2. 0 \in 0..L /\ \A n \in 1..L : n \in 0..L /\ n # 0
    BY <1>1
  <2> HIDE DEF Run, step
  <2> QED
    BY <1>5, <2>1, <2>2
<1> QED
  BY <1>2, <1>6 DEF L, e

\* The lists of children hold entries up to n, each with its parent.
Kids(mt, ch, n) ==
    /\ ch \in [DOMAIN mt -> SUBSET (1..n)]
    /\ \A p \in DOMAIN mt : \A c \in ch[p] : Parent(mt, c) = p

\* An entry is hung below its parent.
LEMMA HungKids ==
    ASSUME NEW mt, IsTable(mt), NEW target, NEW n \in DOMAIN mt, NEW ch, Kids(mt, ch, n - 1)
    PROVE  Kids(mt, Hung(mt, target, ch, n), n)
<1>1. Len(mt) \in Nat /\ DOMAIN mt = 1..Len(mt) /\ n \in Nat
  BY TableSeq
<1>2. 1..(n - 1) \subseteq 1..n /\ n \in 1..n
  BY <1>1
<1>3. ch \in [DOMAIN mt -> SUBSET (1..n)] /\ \A p \in DOMAIN mt : \A c \in ch[p] : Parent(mt, c) = p
  BY <1>2 DEF Kids
<1>4. CASE n \notin Related(mt, target)
  BY <1>3, <1>4 DEF Hung, Kids
<1>5. CASE n \in Related(mt, target)
  <2> DEFINE q == Parent(mt, n)
             new == [ch EXCEPT ![q] = Insert(mt, @, n)]
  <2>1. q \in Nat /\ q < n /\ q # 0
    BY <1>5, ParentLast DEF Related
  <2>2. q \in DOMAIN mt
    <3> HIDE DEF q
    <3> QED
      BY <1>1, <2>1
  <2>3. Insert(mt, ch[q], n) \subseteq ch[q] \cup {n}
    BY DEF Insert
  <2>4. Hung(mt, target, ch, n) = new
    BY <1>5 DEF Hung
  <2>5. Insert(mt, ch[q], n) \in SUBSET (1..n)
    BY <1>2, <1>3, <2>2, <2>3
  <2>6. new \in [DOMAIN mt -> SUBSET (1..n)]
    <3> HIDE DEF q
    <3> QED
      BY <1>3, <2>5
  <2>7. ASSUME NEW p \in DOMAIN mt, NEW c \in new[p] PROVE Parent(mt, c) = p
    <3>1. CASE p = q
      <4>1. c \in ch[q] \cup {n}
        BY <1>3, <2>2, <2>3, <2>7, <3>1
      <4> QED
        BY <1>3, <2>2, <3>1, <4>1
    <3>2. CASE p # q
      <4>1. c \in ch[p]
        BY <1>3, <2>7, <3>2
      <4> QED
        BY <1>3, <4>1
    <3> QED
      BY <3>1, <3>2
  <2> HIDE DEF new
  <2> QED
    BY <2>4, <2>6, <2>7 DEF Kids
<1> QED
  BY <1>4, <1>5

(***************************************************************************)
(* An open mount is hung below its parent and stays there.  A sibling that *)
(* came earlier is not above it, or it would be its parent; a later one is *)
(* above it only on the same mount point, and then it is no sibling but a  *)
(* descendant.                                                             *)
(***************************************************************************)
LEMMA HungKeeps ==
    ASSUME NEW mt, NEW top, NEW target, Bound(mt, top, target),
           NEW j \in DOMAIN mt, j > top, Open(mt, j),
           NEW n \in DOMAIN mt, n >= j, NEW ch, Kids(mt, ch, n - 1),
           n > j => j \in ch[Parent(mt, j)]
    PROVE  j \in Hung(mt, target, ch, n)[Parent(mt, j)]
<1> DEFINE p == Parent(mt, j)
           kin == ch[p]
<1>1. /\ IsTable(mt) /\ Len(mt) \in Nat /\ DOMAIN mt = 1..Len(mt) /\ top \in DOMAIN mt
      /\ IsPathname(mt[j].at) /\ IsPathname(target) /\ Under(mt[j].at, target)
  BY TableSeq DEF Bound
<1>2. /\ p \in DOMAIN mt /\ p >= top /\ p < j
      /\ \A c \in DOMAIN mt : c < j /\ Under(mt[j].at, mt[c].at) => c <= p
  BY ParentBound
<1>3. DOMAIN ch = DOMAIN mt /\ kin \subseteq 1..(n - 1) /\ \A c \in kin : Parent(mt, c) = p
  BY <1>2 DEF Kids
<1>4. p \in Nat /\ j \in Nat /\ n \in Nat /\ top \in Nat /\ 1..(n - 1) \subseteq DOMAIN mt
  BY <1>1, <1>2
<1>5. ASSUME NEW c \in kin PROVE c \in DOMAIN mt /\ c > p /\ c > top
  <2>1. c \in DOMAIN mt /\ c \in Nat /\ Parent(mt, c) = p
    BY <1>1, <1>3, <1>4
  <2>2. p < c
    BY <1>1, <2>1, ParentLast
  <2> QED
    BY <1>2, <1>4, <2>1, <2>2
<1>6. CASE n = j
  <2>1. n \in Related(mt, target)
    <3>1. HasPrefix(mt[j].at, target)
      BY <1>1, UnderPrefix
    <3>2. p # 0
      BY <1>1, <1>2
    <3> QED
      BY <1>6, <3>1, <3>2 DEF Related
  <2>2. ASSUME NEW s \in kin, HasPrefix(mt[j].at, mt[s].at) PROVE FALSE
    <3>1. s \in DOMAIN mt /\ s > p /\ s > top
      BY <1>5
    <3>2. Under(mt[j].at, mt[s].at)
      BY <2>2, <3>1 DEF Bound
    <3>3. s \in Nat /\ s < j
      BY <1>1, <1>3, <1>4, <1>6
    <3>4. s <= p
      BY <1>2, <3>1, <3>2, <3>3
    <3> QED
      BY <1>4, <3>1, <3>3, <3>4
  <2>3. {s \in kin : HasPrefix(mt[j].at, mt[s].at)} = {}
    BY <2>2
  <2>4. j \in Insert(mt, kin, j)
    BY <2>3 DEF Insert
  <2>5. Hung(mt, target, ch, n) = [ch EXCEPT ![p] = Insert(mt, @, n)]
    BY <1>6, <2>1 DEF Hung
  <2> HIDE DEF p
  <2>6. Hung(mt, target, ch, n)[p] = Insert(mt, kin, n)
    BY <1>2, <1>3, <2>5
  <2> QED
    BY <1>6, <2>4, <2>6 DEF p
<1>7. CASE n # j
  <2>1. n > j /\ j \in kin /\ n > top
    BY <1>2, <1>4, <1>7
  <2>2. CASE n \notin Related(mt, target) \/ Parent(mt, n) # p
    <3>1. Hung(mt, target, ch, n)[p] = kin
      BY <1>2, <1>3, <2>2 DEF Hung
    <3> QED
      BY <2>1, <3>1
  <2>3. CASE n \in Related(mt, target) /\ Parent(mt, n) = p
    <3>1. Hung(mt, target, ch, n) = [ch EXCEPT ![p] = Insert(mt, @, n)]
      BY <2>3 DEF Hung
    <3>2. ~HasPrefix(mt[j].at, mt[n].at)
      <4>1. SUFFICES ASSUME HasPrefix(mt[j].at, mt[n].at) PROVE FALSE
        OBVIOUS
      <4>2. Under(mt[j].at, mt[n].at)
        BY <2>1, <4>1 DEF Bound
      <4>3. mt[n].at = mt[j].at
        BY <2>1, <4>2 DEF Open
      <4>4. Under(mt[n].at, mt[j].at)
        BY <1>1, <4>3, UnderSelf
      <4>5. j < n
        BY <1>4, <2>1
      <4>6. j <= Parent(mt, n)
        BY <1>1, <4>4, <4>5, ParentLast
      <4> QED
        BY <1>2, <1>4, <2>3, <4>6
    <3>3. j \in Insert(mt, kin, n)
      BY <2>1, <3>2 DEF Insert
    <3> HIDE DEF p
    <3>4. Hung(mt, target, ch, n)[p] = Insert(mt, kin, n)
      BY <1>2, <1>3, <3>1
    <3> QED
      BY <3>3, <3>4 DEF p
  <2> QED
    BY <2>2, <2>3
<1> QED
  BY <1>6, <1>7

\* The tree of Unfold is one: the children of a mount have it for their parent.
LEMMA ChildrenKids ==
    ASSUME NEW mt, IsTable(mt), NEW target
    PROVE  Kids(mt, Children(mt, target), Len(mt))
<1>1. PICK f : /\ f[0] = [v \in DOMAIN mt |-> {}]
               /\ \A n \in 1..Len(mt) : f[n] = Hung(mt, target, f[n - 1], n)
               /\ Children(mt, target) = f[Len(mt)]
  BY ChildrenSteps
<1> DEFINE L == Len(mt)
           P == [n \in 0..L |-> Kids(mt, f[n], n)]
<1>2. L \in Nat /\ DOMAIN mt = 1..L
  BY TableSeq
<1>3. P[0]
  <2>1. Kids(mt, f[0], 0)
    BY <1>1 DEF Kids
  <2>2. 0 \in 0..L
    BY <1>2
  <2> QED
    BY <2>1, <2>2
<1>4. ASSUME NEW n \in 1..L, P[n - 1] PROVE P[n]
  <2>1. n - 1 \in 0..L /\ n \in 0..L
    BY <1>2
  <2>2. Kids(mt, f[n - 1], n - 1)
    BY <1>4, <2>1
  <2>3. Kids(mt, f[n], n)
    BY <1>1, <1>2, <2>2, HungKids
  <2> QED
    BY <2>1, <2>3
<1>5. P \in [0..L -> BOOLEAN]
  BY DEF Kids
<1>6. \A n \in 0..L : P[n]
  <2> HIDE DEF P, L
  <2> QED
    BY <1>2, <1>3, <1>4, <1>5, Climb
<1> QED
  BY <1>1, <1>2, <1>6

\* An open mount is among the children of its parent when Unfold is done.
LEMMA OpenChild ==
    ASSUME NEW mt, NEW top, NEW target, Bound(mt, top, target),
           NEW j \in DOMAIN mt, j > top, Open(mt, j)
    PROVE  j \in Children(mt, target)[Parent(mt, j)]
<1>1. IsTable(mt) /\ Len(mt) \in Nat /\ DOMAIN mt = 1..Len(mt) /\ j \in 1..Len(mt)
  BY TableSeq DEF Bound
<1>2. PICK f : /\ f[0] = [v \in DOMAIN mt |-> {}]
               /\ \A n \in 1..Len(mt) : f[n] = Hung(mt, target, f[n - 1], n)
               /\ Children(mt, target) = f[Len(mt)]
  BY <1>1, ChildrenSteps
<1> DEFINE L == Len(mt)
           Q(n) == Kids(mt, f[n], n) /\ (n >= j => j \in f[n][Parent(mt, j)])
           P == [n \in 0..L |-> Q(n)]
<1>3. P[0]
  <2>1. Kids(mt, f[0], 0)
    BY <1>2 DEF Kids
  <2>2. 0 \in 0..L /\ ~(0 >= j)
    BY <1>1
  <2> QED
    BY <2>1, <2>2
<1>4. ASSUME NEW n \in 1..L, P[n - 1] PROVE P[n]
  <2>1. n - 1 \in 0..L /\ n \in 0..L /\ n \in DOMAIN mt /\ (n > j => n - 1 >= j)
    BY <1>1
  <2>2. Kids(mt, f[n - 1], n - 1) /\ (n > j => j \in f[n - 1][Parent(mt, j)])
    BY <1>4, <2>1
  <2>3. f[n] = Hung(mt, target, f[n - 1], n)
    BY <1>2
  <2>4. Kids(mt, f[n], n)
    BY <1>1, <2>1, <2>2, <2>3, HungKids
  <2>5. n >= j => j \in f[n][Parent(mt, j)]
    BY <2>1, <2>2, <2>3, HungKeeps
  <2> QED
    BY <2>1, <2>4, <2>5
<1>5. P \in [0..L -> BOOLEAN]
  BY DEF Kids
<1>6. \A n \in 0..L : P[n]
  <2>1. L \in Nat
    BY <1>1
  <2> HIDE DEF P, L
  <2> QED
    BY <2>1, <1>3, <1>4, <1>5, Climb
<1>7. L \in 0..L /\ L >= j
  BY <1>1
<1> QED
  BY <1>2, <1>6, <1>7

\* A set of mounts with the children of each.
Closed(ch, S) == \A x \in S : ch[x] \subseteq S

\* What visit reaches from a mount: everything that cannot be kept out.
Reached(D, ch, v) == {m \in D : \A S \in SUBSET D : v \in S /\ Closed(ch, S) => m \in S}

\* The recursion of visit has a solution.
LEMMA VisitSolved ==
    ASSUME NEW D, NEW ch \in [D -> SUBSET D]
    PROVE  \E f : f = [v \in D |-> {v} \cup UNION {f[c] : c \in ch[v]}]
<1> DEFINE f == [v \in D |-> Reached(D, ch, v)]
           g == [v \in D |-> {v} \cup UNION {f[c] : c \in ch[v]}]
<1>1. ASSUME NEW v \in D PROVE v \in f[v] /\ f[v] \in SUBSET D /\ Closed(ch, f[v])
  BY DEF Reached, Closed
<1>2. ASSUME NEW v \in D PROVE g[v] \subseteq f[v]
  <2>1. ASSUME NEW c \in ch[v], NEW m \in f[c] PROVE m \in f[v]
    <3>1. c \in D /\ m \in D
      BY <1>1
    <3>2. ASSUME NEW S \in SUBSET D, v \in S, Closed(ch, S) PROVE m \in S
      <4>1. c \in S
        BY <3>2 DEF Closed
      <4> QED
        BY <2>1, <3>1, <3>2, <4>1 DEF Reached
    <3> QED
      BY <3>1, <3>2 DEF Reached
  <2>2. v \in f[v]
    BY <1>1
  <2> HIDE DEF f
  <2> QED
    BY <2>1, <2>2
<1>3. ASSUME NEW v \in D PROVE f[v] \subseteq g[v]
  <2>1. g[v] \in SUBSET D /\ v \in g[v]
    <3>1. \A c \in ch[v] : c \in D /\ f[c] \in SUBSET D
      BY <1>1
    <3> HIDE DEF f
    <3> QED
      BY <3>1
  <2>2. ASSUME NEW x \in g[v], NEW y \in ch[x] PROVE y \in g[v]
    <3>1. CASE x = v
      <4>1. y \in ch[v] /\ y \in D /\ y \in f[y]
        BY <1>1, <2>2, <3>1
      <4> HIDE DEF f
      <4> QED
        BY <4>1
    <3>2. CASE x # v
      <4>1. PICK c \in ch[v] : x \in f[c]
        <5> HIDE DEF f
        <5> QED
          BY <3>2
      <4>2. c \in D
        OBVIOUS
      <4>3. y \in f[c]
        <5>1. Closed(ch, f[c])
          BY <1>1, <4>2
        <5> HIDE DEF f
        <5> QED
          BY <2>2, <4>1, <5>1 DEF Closed
      <4> HIDE DEF f
      <4> QED
        BY <4>3
    <3> QED
      BY <3>1, <3>2
  <2>3. Closed(ch, g[v])
    <3> HIDE DEF g
    <3> QED
      BY <2>2 DEF Closed
  <2> HIDE DEF g
  <2> QED
    BY <2>1, <2>3 DEF Reached
<1>4. f = g
  <2>1. \A v \in D : f[v] = g[v]
    BY <1>2, <1>3
  <2>2. f = [v \in D |-> f[v]] /\ g = [v \in D |-> g[v]]
    OBVIOUS
  <2> HIDE DEF f, g
  <2> QED
    BY <2>1, <2>2
<1>5. f = [v \in D |-> {v} \cup UNION {f[c] : c \in ch[v]}]
  BY <1>4
<1> HIDE DEF f
<1> QED
  BY <1>5

\* Collective is what visit finds below the target, but what is covered.
LEMMA CollectiveVisit ==
    ASSUME NEW mt, IsTable(mt), NEW target
    PROVE  \E F : /\ F = [v \in DOMAIN mt |->
                            {v} \cup UNION {F[c] : c \in Children(mt, target)[v]}]
                  /\ Collective(mt, target)
                        = F[UnfoldTarget(mt, target)] \ Covered(mt, target)
<1> DEFINE D == DOMAIN mt
           ch == Children(mt, target)
           Visit(f) == [v \in D |-> {v} \cup UNION {f[c] : c \in ch[v]}]
           F == CHOOSE f : f = Visit(f)
<1>1. ch \in [D -> SUBSET D]
  <2>1. Kids(mt, ch, Len(mt)) /\ D = 1..Len(mt)
    BY ChildrenKids, TableSeq
  <2> QED
    BY <2>1 DEF Kids
<1>2. Collective(mt, target) = F[UnfoldTarget(mt, target)] \ Covered(mt, target)
  BY DEF Collective
<1>3. \E f : f = Visit(f)
  <2> HIDE DEF ch, D
  <2> QED
    BY <1>1, VisitSolved, ZenonT(30)
<1>4. F = Visit(F)
  <2> HIDE DEF Visit
  <2> QED
    BY <1>3
<1> HIDE DEF F
<1> QED
  BY <1>2, <1>4

(***************************************************************************)
(* From the target visit reaches every open mount bound along: up from the *)
(* mount, each parent has the one before it among its children, and the    *)
(* way up ends at the target.                                              *)
(***************************************************************************)
LEMMA VisitReaches ==
    ASSUME NEW mt, NEW top, NEW target, Bound(mt, top, target), NEW F,
           F = [v \in DOMAIN mt |-> {v} \cup UNION {F[c] : c \in Children(mt, target)[v]}],
           NEW j \in DOMAIN mt, j > top, Open(mt, j)
    PROVE  j \in F[top]
<1> DEFINE way == {a \in DOMAIN mt : a >= top /\ (a = top \/ Open(mt, a)) /\ j \in F[a]}
<1>1. /\ IsTable(mt) /\ Len(mt) \in Nat /\ DOMAIN mt = 1..Len(mt) /\ top \in DOMAIN mt
      /\ j \in Nat /\ top \in Nat
  BY TableSeq DEF Bound
<1>2. ASSUME NEW v \in DOMAIN mt
      PROVE  v \in F[v] /\ \A c \in Children(mt, target)[v] : F[c] \subseteq F[v]
  <2>1. F[v] = {v} \cup UNION {F[c] : c \in Children(mt, target)[v]}
    OBVIOUS
  <2> QED
    BY <2>1
<1>3. way \in SUBSET Nat /\ j \in way
  BY <1>1, <1>2
<1>4. PICK a \in way : \A x \in way : a <= x
  <2> HIDE DEF way
  <2> QED
    BY <1>3, Smallest
<1>5. a \in DOMAIN mt /\ a \in Nat /\ a >= top /\ (a = top \/ Open(mt, a)) /\ j \in F[a]
  BY <1>1, <1>4
<1>6. CASE a # top
  <2>1. a > top /\ Open(mt, a)
    BY <1>1, <1>5, <1>6
  <2> DEFINE p == Parent(mt, a)
  <2>2. p \in DOMAIN mt /\ p >= top /\ p < a /\ Open(mt, p) /\ a \in Children(mt, target)[p]
    BY <1>5, <2>1, ParentBound, OpenParent, OpenChild
  <2>3. j \in F[p]
    BY <1>2, <1>5, <2>2
  <2>4. p \in way
    BY <2>2, <2>3
  <2>5. a <= p
    <3> HIDE DEF way, p
    <3> QED
      BY <1>4, <2>4
  <2> HIDE DEF p
  <2> QED
    BY <1>1, <1>5, <2>2, <2>5
<1> QED
  BY <1>5, <1>6

(***************************************************************************)
(* The mounts that can be seen at or below the target of a bind mount are  *)
(* the bind mount and the rest of its collective: Unfold leaves none out.  *)
(***************************************************************************)
LEMMA CollectiveVisible ==
    ASSUME NEW mt, NEW top, NEW target, Bound(mt, top, target)
    PROVE  Visible(mt, target) \subseteq {top} \cup Collective(mt, target)
<1> SUFFICES ASSUME NEW j \in Visible(mt, target), j # top
             PROVE  j \in Collective(mt, target)
  OBVIOUS
<1>1. /\ IsTable(mt) /\ Len(mt) \in Nat /\ DOMAIN mt = 1..Len(mt) /\ top \in DOMAIN mt
      /\ mt[top].at = target /\ j \in DOMAIN mt /\ j \in Nat /\ top \in Nat
  BY TableSeq DEF Bound, Visible
<1>2. Under(mt[j].at, target) /\ Owner(mt, mt[j].at) = j
  BY DEF Visible
<1>3. \A c \in DOMAIN mt : Under(mt[j].at, mt[c].at) => c <= j
  BY <1>1, <1>2, OwnerLast
<1>4. j > top
  BY <1>1, <1>2, <1>3
<1>5. Open(mt, j)
  BY <1>1, <1>3 DEF Open
<1>6. j \notin Covered(mt, target)
  <2>1. SUFFICES ASSUME NEW c \in DOMAIN mt, j = Parent(mt, c), mt[c].at = mt[Parent(mt, c)].at
                 PROVE  FALSE
    BY DEF Covered, Related
  <2>2. j < c /\ mt[c].at = mt[j].at
    BY <1>1, <2>1, ParentLast
  <2>3. IsPathname(mt[j].at)
    BY <1>1, <1>4 DEF Bound
  <2>4. Under(mt[j].at, mt[c].at)
    BY <2>2, <2>3, UnderSelf
  <2> QED
    BY <1>1, <1>3, <2>2, <2>4
<1>7. PICK F : /\ F = [v \in DOMAIN mt |->
                          {v} \cup UNION {F[c] : c \in Children(mt, target)[v]}]
               /\ Collective(mt, target)
                      = F[UnfoldTarget(mt, target)] \ Covered(mt, target)
  BY <1>1, CollectiveVisit
<1>8. j \in F[top]
  BY <1>1, <1>4, <1>5, <1>7, VisitReaches
<1> QED
  BY <1>6, <1>7, <1>8, UnfoldTop

\* An entry of a mount table, and a table of those.
IsMount(m) == m = [at |-> m.at, flags |-> m.flags, source |-> m.source]

IsEntry(m) == IsMount(m) /\ IsPathname(m.at) /\ (m.source = Missing \/ IsPathname(m.source))

IsMounts(mt) == IsTable(mt) /\ \A v \in DOMAIN mt : IsEntry(mt[v])

\* A state of the setup.
IsSetup(st) ==
    /\ st = [nodes |-> st.nodes, links |-> st.links, mounts |-> st.mounts, host |-> st.host,
             final |-> st.final, nonrepeatable |-> st.nonrepeatable, ok |-> st.ok]
    /\ IsMounts(st.mounts)
    /\ \A q \in DOMAIN st.nodes : IsPathname(q)
    /\ \A q \in DOMAIN st.links : IsPathname(q) /\ IsText(st.links[q])
    /\ \A q \in DOMAIN st.host : IsPathname(q)
    /\ DOMAIN HostNodes \subseteq DOMAIN st.host

(***************************************************************************)
(* Mounts are made of descriptions d of what is mounted where.  A mount    *)
(* that is made for d is the one described, or one that the bind it        *)
(* describes has taken along.                                              *)
(***************************************************************************)
From(m, d) ==
    \/ m.at = d.target /\ m.source = d.source
    \/ /\ d.source # Missing /\ IsPathname(m.source)
       /\ Under(m.source, d.source) /\ m.source # d.source
       /\ m.at = Rebased(m.source, d.source, d.target)

\* A set of descriptions that describes nothing, and restricts nothing.
Loose(M) == \E d \in M : DOMAIN d = {}

\* The table b is a with mounts made for M at its end, and with other flags.
Grown(a, b, M) ==
    /\ Len(a) <= Len(b)
    /\ \A v \in 1..Len(a) : b[v].at = a[v].at /\ b[v].source = a[v].source
    /\ \A v \in 1..Len(b) : v > Len(a) => Loose(M) \/ \E d \in M : From(b[v], d)

\* An operation of apply has made t of st, with mounts for M: the nodes are there, or covered.
Follows(st, t, M) ==
    /\ IsSetup(t) /\ t.host = st.host /\ t.final = st.final
    /\ Grown(st.mounts, t.mounts, M)
    /\ \A q \in DOMAIN st.nodes :
          Loose(M) \/ q \in DOMAIN t.nodes \/ \E d \in M : Under(q, d.target)

\* The positions of the table of a setup.
LEMMA SetupLength ==
    ASSUME NEW st, IsSetup(st)
    PROVE  /\ IsTable(st.mounts) /\ Len(st.mounts) \in Nat
           /\ DOMAIN st.mounts = 1..Len(st.mounts)
  BY TableSeq DEF IsSetup, IsMounts

\* A table that grows twice has grown.
LEMMA GrownTrans ==
    ASSUME NEW a, NEW b, NEW c, NEW M, Len(a) \in Nat, Len(b) \in Nat, Len(c) \in Nat,
           Grown(a, b, M), Grown(b, c, M)
    PROVE  Grown(a, c, M)
<1> DEFINE x == Len(a)
           y == Len(b)
           z == Len(c)
<1>1. x \in Nat /\ y \in Nat /\ z \in Nat /\ x <= y /\ y <= z
  BY DEF Grown
<1>2. \A v \in 1..x : c[v].at = a[v].at /\ c[v].source = a[v].source
  <2>1. \A v \in 1..x : v \in 1..y
    BY <1>1
  <2> QED
    BY <2>1 DEF Grown
<1>3. ASSUME NEW v \in 1..z, v > x, ~Loose(M) PROVE \E d \in M : From(c[v], d)
  <2>1. CASE v > y
    BY <1>3, <2>1 DEF Grown
  <2>2. CASE ~(v > y)
    <3>1. v \in 1..y
      BY <1>1, <2>2
    <3>2. PICK d \in M : From(b[v], d)
      BY <1>3, <3>1 DEF Grown
    <3>3. c[v].at = b[v].at /\ c[v].source = b[v].source
      BY <3>1 DEF Grown
    <3>4. From(c[v], d)
      BY <3>2, <3>3 DEF From
    <3> QED
      BY <3>4
  <2> QED
    BY <2>1, <2>2
<1>4. x <= z
  BY <1>1
<1> QED
  BY <1>2, <1>3, <1>4 DEF Grown

\* Flags do not count.
LEMMA GrownSame ==
    ASSUME NEW a, NEW b, NEW M, Len(a) \in Nat, Len(b) = Len(a),
           \A v \in 1..Len(a) : b[v].at = a[v].at /\ b[v].source = a[v].source
    PROVE  Grown(a, b, M)
<1> DEFINE x == Len(a)
<1>1. x <= x /\ \A v \in 1..x : ~(v > x)
  BY DEF x
<1> QED
  BY <1>1 DEF Grown

\* Success or failure changes nothing else.
LEMMA WithOk ==
    ASSUME NEW st, IsSetup(st), NEW x, NEW M
    PROVE  /\ Follows(st, [st EXCEPT !.ok = x], M)
           /\ [st EXCEPT !.ok = x].mounts = st.mounts
           /\ [st EXCEPT !.ok = x].links = st.links
           /\ [st EXCEPT !.ok = x].ok = x
<1> DEFINE t == [st EXCEPT !.ok = x]
<1>1. IsSetup(t) /\ t.host = st.host /\ t.final = st.final /\ t.mounts = st.mounts
      /\ t.nodes = st.nodes /\ t.links = st.links /\ t.ok = x
  BY DEF IsSetup
<1> HIDE DEF t
<1>2. Grown(st.mounts, t.mounts, M)
  BY <1>1, SetupLength, GrownSame
<1>3. Follows(st, t, M)
  BY <1>1, <1>2 DEF Follows
<1> QED
  BY <1>1, <1>3 DEF t

\* A failed step leaves the setup state as it was.
LEMMA FailFollows ==
    ASSUME NEW st, IsSetup(st), NEW M
    PROVE  /\ Follows(st, Fail(st), M) /\ Fail(st).mounts = st.mounts
           /\ Fail(st).links = st.links /\ ~Fail(st).ok
<1> DEFINE no == FALSE
           t == [st EXCEPT !.ok = no]
<1>1. Fail(st) = t
  BY DEF Fail
<1>2. Follows(st, t, M) /\ t.mounts = st.mounts /\ t.links = st.links /\ t.ok = no
  <2> HIDE DEF no
  <2> QED
    BY WithOk
<1> HIDE DEF t
<1>3. ~t.ok
  BY <1>2
<1> QED
  BY <1>1, <1>2, <1>3

\* Nothing is done.
LEMMA FollowsSelf ==
    ASSUME NEW st, IsSetup(st), NEW M
    PROVE  Follows(st, st, M)
<1>1. Grown(st.mounts, st.mounts, M)
  BY SetupLength, GrownSame
<1> QED
  BY <1>1 DEF Follows

\* Steps in a row.
LEMMA FollowsTrans ==
    ASSUME NEW st, NEW t, NEW u, NEW M, IsSetup(st), Follows(st, t, M), Follows(t, u, M)
    PROVE  Follows(st, u, M)
<1>1. IsSetup(t) /\ IsSetup(u)
  BY DEF Follows
<1>2. Grown(st.mounts, u.mounts, M)
  <2>1. Len(st.mounts) \in Nat /\ Len(t.mounts) \in Nat /\ Len(u.mounts) \in Nat
    BY <1>1, SetupLength
  <2>2. Grown(st.mounts, t.mounts, M) /\ Grown(t.mounts, u.mounts, M)
    BY DEF Follows
  <2> QED
    BY <2>1, <2>2, GrownTrans
<1>3. \A q \in DOMAIN st.nodes :
         Loose(M) \/ q \in DOMAIN u.nodes \/ \E d \in M : Under(q, d.target)
  BY DEF Follows
<1>4. u.host = st.host /\ u.final = st.final
  BY DEF Follows
<1> QED
  BY <1>1, <1>2, <1>3, <1>4 DEF Follows

\* Other nodes: pathnames, and none is gone that is not covered.
LEMMA WithNodes ==
    ASSUME NEW st, IsSetup(st), NEW n, NEW M, \A q \in DOMAIN n : IsPathname(q),
           Loose(M) \/ \A q \in DOMAIN st.nodes :
                          q \in DOMAIN n \/ \E d \in M : Under(q, d.target)
    PROVE  /\ Follows(st, [st EXCEPT !.nodes = n], M)
           /\ [st EXCEPT !.nodes = n].mounts = st.mounts
           /\ [st EXCEPT !.nodes = n].links = st.links
           /\ [st EXCEPT !.nodes = n].ok = st.ok
<1> DEFINE t == [st EXCEPT !.nodes = n]
<1>1. IsSetup(t) /\ t.host = st.host /\ t.final = st.final /\ t.mounts = st.mounts
      /\ t.nodes = n /\ t.links = st.links /\ t.ok = st.ok
  BY DEF IsSetup
<1> HIDE DEF t
<1>2. Grown(st.mounts, t.mounts, M)
  BY <1>1, SetupLength, GrownSame
<1>3. Follows(st, t, M)
  BY <1>1, <1>2 DEF Follows
<1> QED
  BY <1>1, <1>3 DEF t

\* Other links.
LEMMA WithLinks ==
    ASSUME NEW st, IsSetup(st), NEW l, NEW M,
           \A q \in DOMAIN l : IsPathname(q) /\ IsText(l[q])
    PROVE  /\ Follows(st, [st EXCEPT !.links = l], M)
           /\ [st EXCEPT !.links = l].mounts = st.mounts
           /\ [st EXCEPT !.links = l].nodes = st.nodes
           /\ [st EXCEPT !.links = l].links = l
           /\ [st EXCEPT !.links = l].ok = st.ok
<1> DEFINE t == [st EXCEPT !.links = l]
<1>1. IsSetup(t) /\ t.host = st.host /\ t.final = st.final /\ t.mounts = st.mounts
      /\ t.nodes = st.nodes /\ t.links = l /\ t.ok = st.ok
  BY DEF IsSetup
<1> HIDE DEF t
<1>2. Grown(st.mounts, t.mounts, M)
  BY <1>1, SetupLength, GrownSame
<1>3. Follows(st, t, M)
  BY <1>1, <1>2 DEF Follows
<1> QED
  BY <1>1, <1>3 DEF t

\* Another mount table changes nothing else.
LEMMA WithMounts ==
    ASSUME NEW st, IsSetup(st), NEW mt, IsMounts(mt), NEW M, Grown(st.mounts, mt, M)
    PROVE  /\ Follows(st, [st EXCEPT !.mounts = mt], M)
           /\ [st EXCEPT !.mounts = mt].mounts = mt
           /\ [st EXCEPT !.mounts = mt].nodes = st.nodes
           /\ [st EXCEPT !.mounts = mt].links = st.links
           /\ [st EXCEPT !.mounts = mt].ok = st.ok
<1> DEFINE t == [st EXCEPT !.mounts = mt]
<1>1. IsSetup(t) /\ t.host = st.host /\ t.final = st.final /\ t.mounts = mt
      /\ t.nodes = st.nodes /\ t.links = st.links /\ t.ok = st.ok
  BY DEF IsSetup
<1> HIDE DEF t
<1>2. Follows(st, t, M)
  BY <1>1 DEF Follows
<1> QED
  BY <1>1, <1>2 DEF t

\* The beginnings of a pathname, and the directory it is in, are pathnames.
LEMMA PathnameFront ==
    ASSUME NEW p, IsPathname(p)
    PROVE  /\ \A j \in 0..Len(p) : IsPathname(SubSeq(p, 1, j))
           /\ IsPathname(Front(p))
<1> DEFINE S == Range(p)
<1>1. p \in Seq(S) /\ Len(p) \in Nat
  BY DEF IsPathname
<1> HIDE DEF S
<1>2. ASSUME NEW j \in 0..Len(p) PROVE SubSeq(p, 1, j) \in Seq(S)
  BY <1>1
<1>3. Front(p) \in Seq(S)
  <2>1. CASE Len(p) = 0
    BY <1>1, <2>1 DEF Front
  <2>2. CASE Len(p) # 0
    <3>1. Len(p) - 1 \in 0..Len(p)
      BY <1>1, <2>2
    <3> QED
      BY <1>2, <3>1 DEF Front
  <2> QED
    BY <2>1, <2>2
<1>4. ASSUME NEW q \in Seq(S) PROVE IsPathname(q)
  BY SeqPathname
<1> QED
  BY <1>2, <1>3, <1>4

\* A pathname below another one.
LEMMA PathnameConcat ==
    ASSUME NEW p, NEW q, IsPathname(p), IsPathname(q)
    PROVE  IsPathname(p \o q) /\ p \o << >> = p
<1> DEFINE S == Range(p) \cup Range(q)
<1>1. p \in Seq(S) /\ q \in Seq(S)
  <2> DEFINE A == Range(p)
             B == Range(q)
  <2>1. p \in Seq(A) /\ q \in Seq(B)
    BY DEF IsPathname
  <2>2. S = A \cup B
    OBVIOUS
  <2> HIDE DEF A, B, S
  <2> QED
    BY <2>1, <2>2
<1> HIDE DEF S
<1>2. p \o q \in Seq(S) /\ p \o << >> = p
  BY <1>1
<1> QED
  BY <1>2, SeqPathname

\* A name in a directory.
LEMMA PathnameAppend ==
    ASSUME NEW p, IsPathname(p), NEW name
    PROVE  /\ IsPathname(Append(p, name)) /\ Under(Append(p, name), p)
           /\ Len(Append(p, name)) = Len(p) + 1 /\ Last(Append(p, name)) = name
<1> DEFINE S == Range(p) \cup {name}
           q == Append(p, name)
<1>1. p \in Seq(S) /\ name \in S
  <2> DEFINE A == Range(p)
  <2>1. p \in Seq(A)
    BY DEF IsPathname
  <2>2. S = A \cup {name}
    OBVIOUS
  <2> HIDE DEF A, S
  <2> QED
    BY <2>1, <2>2
<1> HIDE DEF S
<1>2. q \in Seq(S) /\ Len(q) = Len(p) + 1 /\ Len(p) \in Nat /\ q[Len(p) + 1] = name
  BY <1>1
<1>3. \A i \in 1..Len(p) : q[i] = p[i]
  BY <1>1
<1> HIDE DEF q
<1>4. IsPathname(q)
  BY <1>2, SeqPathname
<1>5. Len(p) <= Len(q)
  BY <1>2
<1>6. Under(q, p)
  BY <1>3, <1>4, <1>5, UnderNames
<1> QED
  BY <1>2, <1>4, <1>6 DEF q, Last

\* Links are followed one after another.
LEMMA FollowSteps ==
    ASSUME NEW leads, NEW p
    PROVE  \E f : /\ f[0] = p
                  /\ \A n \in 1..MaxLinks : f[n] = FollowFirst(leads, f[n - 1])
                  /\ Follow(leads, p) = f[MaxLinks]
<1> DEFINE L == MaxLinks
           step(g, n) == Computed(g[n - 1], LAMBDA q : FollowFirst(leads, q))
           Run(g) == [n \in 0..L |-> IF n = 0 THEN p ELSE step(g, n)]
           F == CHOOSE g : g = Run(g)
           Solves(g, m) == /\ g = [n \in 0..m |-> g[n]] /\ g[0] = p
                           /\ \A n \in 1..m : g[n] = step(g, n)
           none == {m \in 0..L : \A g : ~Solves(g, m)}
<1>1. L \in Nat
  BY SetupAssumption
<1>2. Follow(leads, p) = F[L]
  BY DEF Follow
<1>s. ASSUME NEW g, NEW n PROVE step(g, n) = FollowFirst(leads, g[n - 1])
  BY DEF Computed
<1> HIDE DEF L
<1>3. ASSUME none # {} PROVE FALSE
  <2>1. PICK m \in none : \A j \in none : m <= j
    <3>1. none \in SUBSET Nat
      <4> HIDE DEF Solves
      <4> QED
        BY <1>1
    <3> HIDE DEF none
    <3> QED
      BY <1>3, <3>1, Smallest
  <2>2. m \in 0..L /\ \A g : ~Solves(g, m)
    <3> HIDE DEF Solves
    <3> QED
      BY <2>1
  <2>3. m # 0
    <3>1. Solves([n \in 0..0 |-> p], 0)
      OBVIOUS
    <3> HIDE DEF Solves
    <3> QED
      BY <2>2, <3>1
  <2>4. m - 1 \in 0..L /\ ~(m <= m - 1) /\ m \in Nat
    BY <1>1, <2>2, <2>3
  <2>5. PICK g : Solves(g, m - 1)
    <3>1. m - 1 \notin none
      <4> HIDE DEF none
      <4> QED
        BY <2>1, <2>4
    <3> HIDE DEF Solves
    <3> QED
      BY <2>4, <3>1
  <2> DEFINE h == [n \in 0..m |-> IF n = m THEN step(g, m) ELSE g[n]]
  <2>6. h[0] = p
    <3>1. 0 \in 0..m /\ 0 # m
      BY <2>3, <2>4
    <3> QED
      BY <2>5, <3>1
  <2>7. ASSUME NEW n \in 1..m PROVE h[n] = step(h, n)
    <3>1. n \in 0..m /\ n - 1 \in 0..m /\ n - 1 # m /\ h[n - 1] = g[n - 1]
      BY <2>4
    <3>2. step(h, n) = step(g, n)
      <4> HIDE DEF step, h
      <4> QED
        BY <1>s, <3>1
    <3>3. CASE n = m
      <4> HIDE DEF step
      <4> QED
        BY <3>1, <3>2, <3>3
    <3>4. CASE n # m
      <4>1. n \in 1..(m - 1) /\ h[n] = g[n]
        BY <2>4, <3>1, <3>4
      <4> HIDE DEF step
      <4> QED
        BY <2>5, <3>2, <4>1
    <3> QED
      BY <3>3, <3>4
  <2>8. Solves(h, m)
    <3>1. h = [n \in 0..m |-> h[n]]
      OBVIOUS
    <3> HIDE DEF h, step
    <3> QED
      BY <2>6, <2>7, <3>1
  <2> HIDE DEF Solves, h
  <2> QED
    BY <2>2, <2>8
<1>4. PICK g : Solves(g, L)
  <2>1. L \in 0..L
    BY <1>1
  <2>2. L \notin none
    <3> HIDE DEF none
    <3> QED
      BY <1>3
  <2> HIDE DEF Solves
  <2> QED
    BY <2>1, <2>2
<1>5. F = Run(F)
  <2>1. g = Run(g)
    <3>1. \A n \in 0..L : n # 0 => n \in 1..L
      BY <1>1
    <3> HIDE DEF step
    <3> QED
      BY <1>4, <3>1
  <2> HIDE DEF Run
  <2> QED
    BY <2>1
<1> HIDE DEF F
<1>6. F[0] = p /\ \A n \in 1..L : F[n] = step(F, n)
  <2>1. \A n \in 0..L : Run(F)[n] = IF n = 0 THEN p ELSE step(F, n)
    <3> HIDE DEF step
    <3> QED
      OBVIOUS
  <2>2. 0 \in 0..L /\ \A n \in 1..L : n \in 0..L /\ n # 0
    BY <1>1
  <2> HIDE DEF Run, step
  <2> QED
    BY <1>5, <2>1, <2>2
<1> HIDE DEF step
<1> QED
  BY <1>2, <1>6, <1>s DEF L

\* Following one link leads to a pathname, if links lead to pathnames.
LEMMA FirstPathname ==
    ASSUME NEW leads, \A q \in DOMAIN leads : IsPathname(leads[q]), NEW p, IsPathname(p)
    PROVE  IsPathname(FollowFirst(leads, p))
<1> DEFINE W == OnTheWay(leads, p)
           n == CHOOSE n \in W : \A j \in W : n <= j
           to == leads[SubSeq(p, 1, n)]
           rest == SubSeq(p, n + 1, Len(p))
<1>1. Len(p) \in Nat /\ W \in SUBSET (1..Len(p))
  BY PathnameSeq DEF OnTheWay
<1>2. CASE W = {}
  BY <1>2 DEF FollowFirst
<1>3. CASE W # {}
  <2>1. n \in W
    <3>1. W \in SUBSET Nat
      BY <1>1
    <3>2. \E v \in W : \A j \in W : v <= j
      <4> HIDE DEF W
      <4> QED
        BY <1>3, <3>1, Smallest
    <3> HIDE DEF W
    <3> QED
      BY <3>2
  <2>2. n \in 1..Len(p) /\ SubSeq(p, 1, n) \in DOMAIN leads
    <3> HIDE DEF n
    <3> QED
      BY <2>1 DEF OnTheWay
  <2>3. FollowFirst(leads, p) = to \o rest
    BY <1>3 DEF FollowFirst
  <2> HIDE DEF n
  <2>4. IsPathname(to)
    BY <2>2
  <2>5. IsPathname(rest)
    <3> DEFINE S == Range(p)
    <3>1. p \in Seq(S)
      BY PathnameSeq
    <3> HIDE DEF S
    <3>2. rest \in Seq(S)
      BY <1>1, <2>2, <3>1
    <3> QED
      BY <3>2, SeqPathname
  <2> HIDE DEF to, rest
  <2> QED
    BY <2>3, <2>4, <2>5, PathnameConcat
<1> QED
  BY <1>2, <1>3

\* Following links leads to a pathname.
LEMMA FollowPathname ==
    ASSUME NEW leads, \A q \in DOMAIN leads : IsPathname(leads[q]), NEW p, IsPathname(p)
    PROVE  IsPathname(Follow(leads, p))
<1>1. PICK f : /\ f[0] = p
               /\ \A n \in 1..MaxLinks : f[n] = FollowFirst(leads, f[n - 1])
               /\ Follow(leads, p) = f[MaxLinks]
  BY FollowSteps
<1> DEFINE P == [n \in 0..MaxLinks |-> IsPathname(f[n])]
<1>2. MaxLinks \in Nat
  BY SetupAssumption
<1>3. P[0]
  BY <1>1, <1>2
<1>4. ASSUME NEW n \in 1..MaxLinks, P[n - 1] PROVE P[n]
  <2>1. n - 1 \in 0..MaxLinks /\ n \in 0..MaxLinks
    BY <1>2
  <2> DEFINE x == f[n - 1]
  <2>2. IsPathname(x) /\ f[n] = FollowFirst(leads, x)
    BY <1>1, <1>4, <2>1
  <2> HIDE DEF x
  <2>3. IsPathname(f[n])
    BY <2>2, FirstPathname
  <2> QED
    BY <2>1, <2>3
<1>5. P \in [0..MaxLinks -> BOOLEAN]
  BY DEF IsPathname
<1>6. \A n \in 0..MaxLinks : P[n]
  <2> HIDE DEF P
  <2> QED
    BY <1>2, <1>3, <1>4, <1>5, Climb
<1>7. MaxLinks \in 0..MaxLinks
  BY <1>2
<1> QED
  BY <1>1, <1>6, <1>7

\* With no link on its way a pathname leads to itself.
LEMMA FollowClear ==
    ASSUME NEW leads, NEW p, OnTheWay(leads, p) = {}
    PROVE  Follow(leads, p) = p
<1>1. PICK f : /\ f[0] = p
               /\ \A n \in 1..MaxLinks : f[n] = FollowFirst(leads, f[n - 1])
               /\ Follow(leads, p) = f[MaxLinks]
  BY FollowSteps
<1> DEFINE P == [n \in 0..MaxLinks |-> f[n] = p]
<1>2. MaxLinks \in Nat
  BY SetupAssumption
<1>3. P[0]
  <2>1. 0 \in 0..MaxLinks
    BY <1>2
  <2> QED
    BY <1>1, <2>1
<1>4. ASSUME NEW n \in 1..MaxLinks, P[n - 1] PROVE P[n]
  <2>1. n - 1 \in 0..MaxLinks /\ n \in 0..MaxLinks
    BY <1>2
  <2>2. f[n - 1] = p
    BY <1>4, <2>1
  <2>3. FollowFirst(leads, p) = p
    BY DEF FollowFirst
  <2> QED
    BY <1>1, <2>1, <2>2, <2>3
<1>5. P \in [0..MaxLinks -> BOOLEAN]
  OBVIOUS
<1>6. \A n \in 0..MaxLinks : P[n]
  <2> HIDE DEF P
  <2> QED
    BY <1>2, <1>3, <1>4, <1>5, Climb
<1>7. MaxLinks \in 0..MaxLinks
  BY <1>2
<1> QED
  BY <1>1, <1>6, <1>7

\* Links lead to pathnames.
LEMMA LeadsPathname ==
    ASSUME NEW p, IsPathname(p), NEW text, IsText(text)
    PROVE  IsPathname(LeadsTo(p, text))
<1> DEFINE from == IF text.abs THEN << >> ELSE Above(p, text.up + 1)
<1>1. LeadsTo(p, text) = from \o text.down
  BY DEF LeadsTo
<1>2. IsPathname(text.down) /\ text.up \in Nat
  BY DEF IsText
<1>3. IsPathname(<< >>)
  <2>1. << >> \in Seq({})
    OBVIOUS
  <2> QED
    BY <2>1, SeqPathname
<1>4. IsPathname(Above(p, text.up + 1))
  <2> DEFINE n == text.up + 1
             j == IF n <= Len(p) THEN Len(p) - n ELSE 0
  <2>1. n \in Nat /\ Len(p) \in Nat
    BY <1>2, PathnameSeq
  <2> HIDE DEF n
  <2>2. j \in 0..Len(p)
    BY <2>1
  <2>3. Above(p, n) = SubSeq(p, 1, j)
    BY DEF Above
  <2> HIDE DEF j
  <2> QED
    BY <2>2, <2>3, PathnameFront DEF n
<1>5. IsPathname(from)
  BY <1>3, <1>4
<1> DEFINE down == text.down
<1> HIDE DEF from, down
<1>6. IsPathname(from \o down)
  BY <1>2, <1>5, PathnameConcat DEF down
<1> QED
  BY <1>1, <1>6 DEF down

\* Where a pathname leads while the container is set up.
LEMMA RealPathname ==
    ASSUME NEW st, IsSetup(st), NEW p, IsPathname(p)
    PROVE  IsPathname(Real(st, p))
<1> DEFINE in == InSysroot(st.links)
           leads == Leads(in)
<1>1. \A q \in DOMAIN in : IsPathname(q) /\ IsText(in[q])
  BY DEF InSysroot, IsSetup
<1> HIDE DEF in
<1>2. \A q \in DOMAIN leads : IsPathname(leads[q])
  BY <1>1, LeadsPathname DEF Leads
<1>3. Real(st, p) = Follow(leads, p)
  BY DEF Real, in
<1> HIDE DEF leads
<1> QED
  BY <1>2, <1>3, FollowPathname

\* With no link on its way it leads to itself, for init and for the program.
LEMMA RealClear ==
    ASSUME NEW st, NEW p, OnTheWay(st.links, p) = {}
    PROVE  Real(st, p) = p /\ Seen(st, p) = p
<1> DEFINE a == Leads(InSysroot(st.links))
           b == Leads(st.links)
<1>1. DOMAIN a \subseteq DOMAIN st.links /\ DOMAIN b = DOMAIN st.links
  BY DEF Leads, InSysroot
<1>2. Real(st, p) = Follow(a, p) /\ Seen(st, p) = Follow(b, p)
  BY DEF Real, Seen
<1> HIDE DEF a, b
<1>3. OnTheWay(a, p) = {} /\ OnTheWay(b, p) = {}
  BY <1>1 DEF OnTheWay
<1> QED
  BY <1>2, <1>3, FollowClear

\* Where it leads depends on the links alone.
LEMMA RealSame ==
    ASSUME NEW st, NEW t, t.links = st.links
    PROVE  \A p : Real(t, p) = Real(st, p)
  BY DEF Real

\* Where a pathname of the host leads.
LEMMA ResolvePathname ==
    ASSUME NEW p, IsPathname(p)
    PROVE  /\ IsPathname(Resolve(p))
           /\ OnTheWay(HostLinks, p) = {} => Resolve(p) = p
<1> DEFINE leads == Leads(HostLinks)
<1>1. DOMAIN leads = DOMAIN HostLinks
  BY DEF Leads
<1>2. \A q \in DOMAIN leads : IsPathname(leads[q])
  BY SetupAssumption, LeadsPathname DEF Leads
<1>3. Resolve(p) = Follow(leads, p)
  BY DEF Resolve
<1> HIDE DEF leads
<1>4. OnTheWay(leads, p) = OnTheWay(HostLinks, p)
  BY <1>1 DEF OnTheWay
<1> QED
  BY <1>2, <1>3, <1>4, FollowPathname, FollowClear

\* Making a file or directory mounts nothing.
LEMMA CreateFollows ==
    ASSUME NEW st, IsSetup(st), NEW p, IsPathname(p), NEW kind, NEW M
    PROVE  /\ Follows(st, Create(st, p, kind), M)
           /\ Create(st, p, kind).mounts = st.mounts
           /\ Create(st, p, kind).links = st.links
<1> DEFINE at == InDir(st, p)
           n == AddNodes(st.nodes, {at}, kind)
           t == [st EXCEPT !.nodes = n]
<1>1. Create(st, p, kind) = t \/ Create(st, p, kind) = Fail(st)
  BY DEF Create
<1>2. DOMAIN n = DOMAIN st.nodes \cup {at}
  BY DEF AddNodes
<1>3. IsPathname(at)
  <2> DEFINE x == Real(st, Front(p))
  <2>1. IsPathname(x)
    BY PathnameFront, RealPathname
  <2> HIDE DEF x
  <2> QED
    BY <2>1, PathnameAppend DEF InDir, x
<1> HIDE DEF n, at
<1>4. /\ \A q \in DOMAIN n : IsPathname(q)
      /\ \A q \in DOMAIN st.nodes : q \in DOMAIN n
  BY <1>2, <1>3 DEF IsSetup
<1>5. Follows(st, t, M) /\ t.mounts = st.mounts /\ t.links = st.links
  BY <1>4, WithNodes
<1> HIDE DEF t
<1> QED
  BY <1>1, <1>5, FailFollows

\* mkdirAll one directory further.
DirStep(p, s, n) ==
    IF s.ok
    THEN IF IsDir(s.nodes, Real(s, SubSeq(p, 1, n))) THEN s ELSE Create(s, SubSeq(p, 1, n), "dir")
    ELSE s

\* The loop of mkdirAll, directory by directory.
LEMMA MkdirSteps ==
    ASSUME NEW st, NEW p, IsPathname(p)
    PROVE  \E f : /\ f[0] = st
                  /\ \A n \in 1..Len(p) : f[n] = DirStep(p, f[n - 1], n)
                  /\ mkdirAll(st, p) = f[Len(p)]
<1> DEFINE L == Len(p)
           dir(s, n) == IF IsDir(s.nodes, Real(s, SubSeq(p, 1, n))) THEN s
                        ELSE Create(s, SubSeq(p, 1, n), "dir")
           step(g, n) == CHOOSE t \in {IF s.ok THEN dir(s, n) ELSE s : s \in {g[n - 1]}} : t = t
           Run(g) == [n \in 0..L |-> IF n = 0 THEN st ELSE step(g, n)]
           F == CHOOSE g : g = Run(g)
           Solves(g, m) == /\ g = [n \in 0..m |-> g[n]] /\ g[0] = st
                           /\ \A n \in 1..m : g[n] = step(g, n)
           none == {m \in 0..L : \A g : ~Solves(g, m)}
<1>1. L \in Nat
  BY PathnameSeq
<1>2. mkdirAll(st, p) = F[L]
  BY DEF mkdirAll, Then
<1> HIDE DEF dir
<1> HIDE DEF L
<1>3. ASSUME none # {} PROVE FALSE
  <2>1. PICK m \in none : \A j \in none : m <= j
    <3>1. none \in SUBSET Nat
      <4> HIDE DEF Solves
      <4> QED
        BY <1>1
    <3> HIDE DEF none
    <3> QED
      BY <1>3, <3>1, Smallest
  <2>2. m \in 0..L /\ \A g : ~Solves(g, m)
    <3> HIDE DEF Solves
    <3> QED
      BY <2>1
  <2>3. m # 0
    <3>1. Solves([n \in 0..0 |-> st], 0)
      OBVIOUS
    <3> HIDE DEF Solves
    <3> QED
      BY <2>2, <3>1
  <2>4. m - 1 \in 0..L /\ ~(m <= m - 1) /\ m \in Nat
    BY <1>1, <2>2, <2>3
  <2>5. PICK g : Solves(g, m - 1)
    <3>1. m - 1 \notin none
      <4> HIDE DEF none
      <4> QED
        BY <2>1, <2>4
    <3> HIDE DEF Solves
    <3> QED
      BY <2>4, <3>1
  <2> DEFINE h == [n \in 0..m |-> IF n = m THEN step(g, m) ELSE g[n]]
  <2>6. h[0] = st
    <3>1. 0 \in 0..m /\ 0 # m
      BY <2>3, <2>4
    <3> QED
      BY <2>5, <3>1
  <2>7. ASSUME NEW n \in 1..m PROVE h[n] = step(h, n)
    <3>1. n \in 0..m /\ n - 1 \in 0..m /\ n - 1 # m /\ h[n - 1] = g[n - 1]
      BY <2>4
    <3>2. step(h, n) = step(g, n)
      BY <3>1
    <3>3. CASE n = m
      BY <3>1, <3>2, <3>3
    <3>4. CASE n # m
      <4>1. n \in 1..(m - 1) /\ h[n] = g[n]
        BY <2>4, <3>1, <3>4
      <4> HIDE DEF step
      <4> QED
        BY <2>5, <3>2, <4>1
    <3> QED
      BY <3>3, <3>4
  <2>8. Solves(h, m)
    <3>1. h = [n \in 0..m |-> h[n]]
      OBVIOUS
    <3> HIDE DEF h, step
    <3> QED
      BY <2>6, <2>7, <3>1
  <2> HIDE DEF Solves, h
  <2> QED
    BY <2>2, <2>8
<1>4. PICK g : Solves(g, L)
  <2>1. L \in 0..L
    BY <1>1
  <2>2. L \notin none
    <3> HIDE DEF none
    <3> QED
      BY <1>3
  <2> HIDE DEF Solves
  <2> QED
    BY <2>1, <2>2
<1>5. F = Run(F)
  <2>1. g = Run(g)
    <3>1. \A n \in 0..L : n # 0 => n \in 1..L
      BY <1>1
    <3> HIDE DEF step
    <3> QED
      BY <1>4, <3>1
  <2> HIDE DEF Run
  <2> QED
    BY <2>1
<1> HIDE DEF F
<1>6. F[0] = st /\ \A n \in 1..L : F[n] = step(F, n)
  <2>1. \A n \in 0..L : Run(F)[n] = IF n = 0 THEN st ELSE step(F, n)
    <3> HIDE DEF step
    <3> QED
      OBVIOUS
  <2>2. 0 \in 0..L /\ \A n \in 1..L : n \in 0..L /\ n # 0
    BY <1>1
  <2> HIDE DEF Run, step
  <2> QED
    BY <1>5, <2>1, <2>2
<1>7. \A n \in 1..L : step(F, n) = DirStep(p, F[n - 1], n)
  BY DEF DirStep, dir
<1> HIDE DEF step
<1> QED
  BY <1>2, <1>6, <1>7 DEF L

\* Nodes are made, and nothing else.
Builds(st, t, M) == Follows(st, t, M) /\ t.mounts = st.mounts /\ t.links = st.links

\* mkdirAll mounts nothing.
LEMMA MkdirFollows ==
    ASSUME NEW st, IsSetup(st), NEW p, IsPathname(p), NEW M
    PROVE  /\ Follows(st, mkdirAll(st, p), M)
           /\ mkdirAll(st, p).mounts = st.mounts /\ mkdirAll(st, p).links = st.links
<1> DEFINE L == Len(p)
<1>1. PICK f : /\ f[0] = st
               /\ \A n \in 1..L : f[n] = DirStep(p, f[n - 1], n)
               /\ mkdirAll(st, p) = f[L]
  BY MkdirSteps, ZenonT(30)
<1> DEFINE P == [n \in 0..L |-> Builds(st, f[n], M)]
<1>2. L \in Nat
  BY PathnameSeq
<1> HIDE DEF L
<1>3. P[0]
  <2>1. 0 \in 0..L /\ Builds(st, f[0], M)
    BY <1>1, <1>2, FollowsSelf DEF Builds
  <2> QED
    BY <2>1
<1>4. ASSUME NEW n \in 1..L, P[n - 1] PROVE P[n]
  <2>1. n - 1 \in 0..L /\ n \in 0..L
    BY <1>2
  <2> DEFINE x == f[n - 1]
             q == SubSeq(p, 1, n)
             y == Create(x, q, "dir")
  <2>2. Follows(st, x, M) /\ x.mounts = st.mounts /\ x.links = st.links
    BY <1>4, <2>1 DEF Builds
  <2>3. f[n] = x \/ f[n] = y
    BY <1>1 DEF DirStep
  <2>4. IsPathname(q)
    BY <2>1, PathnameFront DEF L
  <2>5. IsSetup(x)
    BY <2>2 DEF Follows
  <2> HIDE DEF x, q
  <2>6. Follows(x, y, M) /\ y.mounts = x.mounts /\ y.links = x.links
    BY <2>4, <2>5, CreateFollows
  <2> HIDE DEF y
  <2>7. Follows(st, y, M)
    BY <2>2, <2>6, FollowsTrans
  <2>8. Builds(st, f[n], M)
    BY <2>2, <2>3, <2>6, <2>7 DEF Builds
  <2> QED
    BY <2>1, <2>8
<1>5. P \in [0..L -> BOOLEAN]
  BY DEF Builds, Follows
<1>6. \A n \in 0..L : P[n]
  <2> HIDE DEF P
  <2> QED
    BY <1>2, <1>3, <1>4, <1>5, Climb
<1>7. L \in 0..L
  BY <1>2
<1> QED
  BY <1>1, <1>6, <1>7 DEF Builds

\* ensureFile mounts nothing.
LEMMA EnsureFollows ==
    ASSUME NEW st, IsSetup(st), NEW p, IsPathname(p), NEW M
    PROVE  /\ Follows(st, ensureFile(st, p), M)
           /\ ensureFile(st, p).mounts = st.mounts /\ ensureFile(st, p).links = st.links
<1> DEFINE d == mkdirAll(st, Front(p))
           f(s) == Create(s, p, "file")
           t == Then(d, f)
<1>1. Follows(st, d, M) /\ d.mounts = st.mounts /\ d.links = st.links
  BY MkdirFollows, PathnameFront
<1>2. IsSetup(d)
  BY <1>1 DEF Follows
<1>3. t = IF d.ok THEN f(d) ELSE d
  <2> HIDE DEF d, f
  <2> QED
    BY DEF Then
<1>4. Follows(st, t, M) /\ t.mounts = st.mounts /\ t.links = st.links
  <2> HIDE DEF d
  <2>1. Follows(d, f(d), M) /\ f(d).mounts = d.mounts /\ f(d).links = d.links
    BY <1>2, CreateFollows
  <2> HIDE DEF f, t
  <2> QED
    BY <1>1, <1>3, <2>1, FollowsTrans
<1>5. ensureFile(st, p) = st \/ ensureFile(st, p) = Fail(st) \/ ensureFile(st, p) = t
  BY DEF ensureFile, Then
<1>6. Follows(st, st, M)
  BY FollowsSelf
<1> HIDE DEF t
<1> QED
  BY <1>4, <1>5, <1>6, FailFollows

\* Making links mounts nothing.
LEMMA SymlinksFollow ==
    ASSUME NEW st, IsSetup(st), NEW dir, IsPathname(dir), NEW texts,
           \A n \in DOMAIN texts : IsText(texts[n]), NEW M
    PROVE  /\ Follows(st, symlinks(st, dir, texts), M)
           /\ symlinks(st, dir, texts).mounts = st.mounts
           /\ \A q \in DOMAIN symlinks(st, dir, texts).links :
                 q \in DOMAIN st.links \/ \E n \in DOMAIN texts : q = Append(Real(st, dir), n)
<1> DEFINE x == Real(st, dir)
           new == {Append(x, n) : n \in DOMAIN texts}
           nodes == AddNodes(st.nodes, new, "link")
           links == [q \in DOMAIN st.links \cup new |->
                        IF q \in new THEN texts[Last(q)] ELSE st.links[q]]
           u == [st EXCEPT !.nodes = nodes]
           t == [u EXCEPT !.links = links]
           w == symlinks(st, dir, texts)
<1>1. w = t \/ w = Fail(st)
  <2>1. t = [st EXCEPT !.nodes = nodes, !.links = links]
    OBVIOUS
  <2> HIDE DEF t
  <2> QED
    BY <2>1 DEF symlinks
<1>2. IsPathname(x)
  BY RealPathname
<1> HIDE DEF x
<1>3. ASSUME NEW q \in new PROVE IsPathname(q) /\ Last(q) \in DOMAIN texts
  <2>1. PICK n \in DOMAIN texts : q = Append(x, n)
    OBVIOUS
  <2>2. IsPathname(Append(x, n)) /\ Last(Append(x, n)) = n
    BY <1>2, PathnameAppend
  <2> QED
    BY <2>1, <2>2
<1>4. DOMAIN nodes = DOMAIN st.nodes \cup new
  BY DEF AddNodes
<1>5. /\ DOMAIN links = DOMAIN st.links \cup new
      /\ \A q \in DOMAIN links : IsPathname(q) /\ IsText(links[q])
  <2> HIDE DEF new
  <2> QED
    BY <1>3 DEF IsSetup
<1>6. \A q \in DOMAIN links : q \in DOMAIN st.links \/ \E n \in DOMAIN texts : q = Append(x, n)
  BY <1>5
<1> HIDE DEF new, nodes, links, w
<1>7. Follows(st, u, M) /\ u.mounts = st.mounts /\ u.links = st.links
  <2>1. /\ \A q \in DOMAIN nodes : IsPathname(q)
        /\ \A q \in DOMAIN st.nodes : q \in DOMAIN nodes
    BY <1>3, <1>4 DEF IsSetup
  <2> QED
    BY <2>1, WithNodes
<1>8. IsSetup(u)
  BY <1>7 DEF Follows
<1>9. Follows(u, t, M) /\ t.mounts = u.mounts /\ t.links = links
  <2> HIDE DEF u
  <2> QED
    BY <1>5, <1>8, WithLinks
<1>10. Follows(st, t, M)
  <2> HIDE DEF t, u
  <2> QED
    BY <1>7, <1>9, FollowsTrans
<1> HIDE DEF t, u
<1> QED
  BY <1>1, <1>6, <1>7, <1>9, <1>10, FailFollows DEF w, x

\* A list with one more mount.
LEMMA TableAppend ==
    ASSUME NEW mt, IsTable(mt), NEW m
    PROVE  /\ IsTable(Append(mt, m)) /\ Len(Append(mt, m)) = Len(mt) + 1
           /\ Append(mt, m)[Len(mt) + 1] = m
           /\ \A v \in 1..Len(mt) : Append(mt, m)[v] = mt[v]
<1>1. PICK S : mt \in Seq(S)
  BY DEF IsTable
<1> DEFINE R == S \cup {m}
<1>2. mt \in Seq(R) /\ m \in R
  BY <1>1
<1> HIDE DEF R
<1>3. Append(mt, m) \in Seq(R) /\ Len(Append(mt, m)) = Len(mt) + 1
      /\ Append(mt, m)[Len(mt) + 1] = m
  BY <1>2
<1>4. \A v \in 1..Len(mt) : Append(mt, m)[v] = mt[v]
  BY <1>2
<1> QED
  BY <1>3, <1>4 DEF IsTable

\* Mounts put behind a table keep their order, and those of the table their positions.
LEMMA TableConcat ==
    ASSUME NEW mt, IsTable(mt), NEW ms, IsTable(ms)
    PROVE  /\ IsTable(mt \o ms) /\ Len(mt \o ms) = Len(mt) + Len(ms)
           /\ \A v \in 1..Len(mt) : (mt \o ms)[v] = mt[v]
           /\ \A v \in 1..Len(ms) : (mt \o ms)[Len(mt) + v] = ms[v]
<1>1. PICK S : mt \in Seq(S)
  BY DEF IsTable
<1>2. PICK U : ms \in Seq(U)
  BY DEF IsTable
<1> DEFINE R == S \cup U
<1>3. mt \in Seq(R) /\ ms \in Seq(R)
  BY <1>1, <1>2
<1> HIDE DEF R
<1>4. mt \o ms \in Seq(R) /\ Len(mt \o ms) = Len(mt) + Len(ms)
  BY <1>3
<1>5. \A v \in 1..Len(mt) : (mt \o ms)[v] = mt[v]
  BY <1>3
<1>6. \A v \in 1..Len(ms) : (mt \o ms)[Len(mt) + v] = ms[v]
  BY <1>3
<1> QED
  BY <1>4, <1>5, <1>6 DEF IsTable

\* A function on 1..n is a table.
LEMMA TableFunction ==
    ASSUME NEW n \in Nat, NEW f, f = [v \in 1..n |-> f[v]]
    PROVE  IsTable(f) /\ Len(f) = n
<1> DEFINE S == {f[v] : v \in 1..n}
<1>1. f \in [1..n -> S]
  OBVIOUS
<1> HIDE DEF S
<1>2. f \in Seq(S) /\ Len(f) = n
  BY <1>1
<1> QED
  BY <1>2 DEF IsTable

\* What a remount makes of the mounts that it takes, and of the others.
LEMMA RemountEach ==
    ASSUME NEW mt, NEW target, NEW flags
    PROVE  LET node == UnfoldTarget(mt, target)
               all  == IF "rec" \in flags THEN {node} \cup Collective(mt, target) ELSE {node}
               mf   == remountFlags(flags)
           IN  remount(mt, target, flags) =
                   [v \in DOMAIN mt |-> IF v \in all /\ ~Refused(mt[v], mf)
                                        THEN remountWithFlags(mt[v], mf) ELSE mt[v]]
<1> DEFINE node == UnfoldTarget(mt, target)
           all == IF "rec" \in flags THEN {node} \cup Collective(mt, target) ELSE {node}
           mf == remountFlags(flags)
           new(set) == [v \in DOMAIN mt |-> IF v \in set /\ ~Refused(mt[v], mf)
                                            THEN remountWithFlags(mt[v], mf) ELSE mt[v]]
<1>1. remount(mt, target, flags) = CHOOSE t \in {new(x) : x \in {all}} : t = t
  BY DEF remount, Computed
<1> HIDE DEF new
<1>2. remount(mt, target, flags) = new(all)
  BY <1>1
<1> QED
  BY <1>2 DEF new

\* It keeps the table as long as it was.
LEMMA RemountTable ==
    ASSUME NEW mt, IsTable(mt), NEW target, NEW flags
    PROVE  /\ IsTable(remount(mt, target, flags))
           /\ DOMAIN remount(mt, target, flags) = DOMAIN mt
<1> DEFINE f == remount(mt, target, flags)
<1>1. Len(mt) \in Nat /\ DOMAIN mt = 1..Len(mt)
  BY TableSeq
<1>2. f = [v \in 1..Len(mt) |-> f[v]] /\ DOMAIN f = DOMAIN mt
  BY <1>1, RemountEach
<1> HIDE DEF f
<1>3. IsTable(f) /\ DOMAIN f = DOMAIN mt
  BY <1>1, <1>2, TableFunction
<1> QED
  BY <1>3 DEF f

\* A mount at or below a target has the flags, or lies below it and denies them.
SealedMount(m, target, mf) == mf \subseteq m.flags \/ (m.at # target /\ m.source \in Denied)

(***************************************************************************)
(* The remount of a bind mount with everything bound along takes every     *)
(* mount that can be seen, but for those that refuse.                      *)
(***************************************************************************)
LEMMA RemountSealed ==
    ASSUME NEW mt, NEW top, NEW target, Bound(mt, top, target),
           \A c \in DOMAIN mt : c >= top => IsMount(mt[c]),
           NEW flags, "rec" \in flags, Remountable(mt, target, flags)
    PROVE  \A m \in Visible(remount(mt, target, flags), target) :
              SealedMount(remount(mt, target, flags)[m], target, remountFlags(flags))
<1> DEFINE new == remount(mt, target, flags)
           all == {top} \cup Collective(mt, target)
           F == remountFlags(flags)
<1>1. /\ IsTable(mt) /\ Len(mt) \in Nat /\ DOMAIN mt = 1..Len(mt) /\ top \in DOMAIN mt
      /\ top \in Nat /\ mt[top].at = target /\ IsPathname(target)
      /\ \A c \in DOMAIN mt : c > top => IsPathname(mt[c].at)
  BY TableSeq DEF Bound
<1>2. IsTable(new) /\ DOMAIN new = DOMAIN mt
  BY <1>1, RemountTable
<1>3. \A v \in DOMAIN mt :
          new[v] = IF v \in all /\ ~Refused(mt[v], F) THEN remountWithFlags(mt[v], F) ELSE mt[v]
  BY UnfoldTop, RemountEach
<1> HIDE DEF new, all, F
<1>4. ASSUME NEW c \in DOMAIN mt, c >= top
      PROVE  /\ new[c].at = mt[c].at /\ new[c].source = mt[c].source /\ IsPathname(mt[c].at)
             /\ c \in all /\ ~Refused(mt[c], F) => F \subseteq new[c].flags
  <2>1. IsMount(mt[c])
    BY <1>4
  <2> DEFINE m == mt[c]
             w == remountWithFlags(m, F)
  <2>2. w.at = m.at /\ w.source = m.source /\ w.flags = m.flags \cup F
    <3> HIDE DEF m
    <3>1. IsMount(m)
      BY <2>1 DEF m
    <3> QED
      BY <3>1 DEF remountWithFlags, IsMount
  <2>3. IsPathname(m.at)
    <3>1. c = top \/ c > top
      BY <1>1, <1>4
    <3> QED
      BY <1>1, <3>1
  <2>4. new[c] = IF c \in all /\ ~Refused(m, F) THEN w ELSE m
    BY <1>3
  <2> HIDE DEF w
  <2> QED
    BY <2>2, <2>3, <2>4
<1> SUFFICES ASSUME NEW m \in Visible(new, target) PROVE SealedMount(new[m], target, F)
  BY DEF new, F
<1>5. /\ m \in DOMAIN mt /\ m \in Nat /\ Under(new[m].at, target)
      /\ Owner(new, new[m].at) = m
  BY <1>1, <1>2 DEF Visible
<1>6. new[top].at = target
  BY <1>1, <1>4
<1>7. \A c \in DOMAIN mt : Under(new[m].at, new[c].at) => c <= m
  BY <1>1, <1>2, <1>5, <1>6, OwnerLast
<1>8. m >= top
  BY <1>1, <1>5, <1>6, <1>7
<1>9. new[m].at = mt[m].at /\ IsPathname(mt[m].at)
  BY <1>4, <1>5, <1>8
<1> DEFINE o == Owner(mt, mt[m].at)
<1>10. o = m
  <2>1. Under(mt[m].at, mt[m].at)
    BY <1>9, UnderSelf
  <2>2. o \in DOMAIN mt /\ Under(mt[m].at, mt[o].at) /\ m <= o
    BY <1>1, <1>5, <2>1, OwnerLast
  <2> HIDE DEF o
  <2>3. o >= top /\ o \in Nat
    BY <1>1, <1>5, <1>8, <2>2
  <2>4. new[o].at = mt[o].at
    BY <1>4, <2>2, <2>3
  <2>5. o <= m
    BY <1>7, <1>9, <2>2, <2>4
  <2> QED
    BY <1>5, <2>2, <2>3, <2>5
<1>11. m \in Visible(mt, target)
  BY <1>5, <1>9, <1>10 DEF Visible
<1>12. m \in all
  BY <1>11, CollectiveVisible DEF all
<1>13. CASE ~Refused(mt[m], F)
  BY <1>4, <1>5, <1>8, <1>12, <1>13 DEF SealedMount
<1>14. CASE Refused(mt[m], F)
  <2>1. m # top
    BY <1>14, UnfoldTop DEF Remountable, F
  <2>2. mt[m].at # target
    BY <1>1, <1>5, <1>8, <2>1 DEF Bound
  <2>3. new[m].source \in Denied /\ new[m].at = mt[m].at
    BY <1>4, <1>5, <1>8, <1>14 DEF Refused
  <2> QED
    BY <2>2, <2>3 DEF SealedMount
<1> QED
  BY <1>13, <1>14

\* One more entry.
LEMMA MountsAppend ==
    ASSUME NEW mt, IsMounts(mt), NEW m, IsEntry(m), NEW M,
           Loose(M) \/ \E d \in M : From(m, d)
    PROVE  IsMounts(Append(mt, m)) /\ Grown(mt, Append(mt, m), M)
<1> DEFINE t == Append(mt, m)
           n == Len(mt)
<1>1. /\ IsTable(t) /\ Len(t) = n + 1 /\ t[n + 1] = m
      /\ \A v \in 1..n : t[v] = mt[v]
  BY TableAppend DEF IsMounts
<1>2. n \in Nat /\ DOMAIN mt = 1..n
  BY TableSeq DEF IsMounts
<1>3. DOMAIN t = 1..Len(t)
  BY <1>1, TableSeq
<1> HIDE DEF t, n
<1>4. \A v \in DOMAIN t : v \in 1..n \/ v = n + 1
  BY <1>1, <1>2, <1>3
<1>5. \A v \in DOMAIN t : IsEntry(t[v])
  BY <1>1, <1>2, <1>4 DEF IsMounts
<1>6. n <= Len(t) /\ \A v \in 1..Len(t) : v > n => v = n + 1
  BY <1>1, <1>2
<1>7. Grown(mt, t, M)
  BY <1>1, <1>6 DEF Grown, n
<1> QED
  BY <1>1, <1>5, <1>7 DEF IsMounts, t

\* The entries of a bind.
LEMMA MountsConcat ==
    ASSUME NEW mt, IsMounts(mt), NEW ms, IsMounts(ms), NEW M,
           \A v \in DOMAIN ms : Loose(M) \/ \E d \in M : From(ms[v], d)
    PROVE  IsMounts(mt \o ms) /\ Grown(mt, mt \o ms, M)
<1> DEFINE t == mt \o ms
           n == Len(mt)
           l == Len(ms)
<1>1. /\ IsTable(t) /\ Len(t) = n + l
      /\ \A v \in 1..n : t[v] = mt[v]
      /\ \A v \in 1..l : t[n + v] = ms[v]
  BY TableConcat DEF IsMounts
<1>2. n \in Nat /\ DOMAIN mt = 1..n /\ l \in Nat /\ DOMAIN ms = 1..l
  BY TableSeq DEF IsMounts
<1>3. DOMAIN t = 1..Len(t)
  BY <1>1, TableSeq
<1> HIDE DEF t, n, l
<1>4. ASSUME NEW v \in 1..Len(t), v > n PROVE v - n \in 1..l /\ t[v] = ms[v - n]
  <2>1. v - n \in 1..l /\ n + (v - n) = v
    BY <1>1, <1>2, <1>4
  <2> QED
    BY <1>1, <2>1
<1>5. \A v \in 1..Len(t) : v \in 1..n \/ v > n
  BY <1>1, <1>2
<1>6. \A v \in DOMAIN t : IsEntry(t[v])
  BY <1>1, <1>2, <1>3, <1>4, <1>5 DEF IsMounts
<1>7. n <= Len(t)
  BY <1>1, <1>2
<1>8. \A v \in 1..Len(t) : v > n => Loose(M) \/ \E d \in M : From(t[v], d)
  BY <1>2, <1>4
<1>9. Grown(mt, t, M)
  BY <1>1, <1>7, <1>8 DEF Grown, n
<1> QED
  BY <1>1, <1>6, <1>9 DEF IsMounts, t

\* A remount changes nothing but flags.
LEMMA RemountMounts ==
    ASSUME NEW mt, IsMounts(mt), NEW target, NEW flags, NEW M
    PROVE  /\ IsMounts(remount(mt, target, flags))
           /\ Grown(mt, remount(mt, target, flags), M)
<1> DEFINE t == remount(mt, target, flags)
           F == remountFlags(flags)
<1>1. IsTable(t) /\ DOMAIN t = DOMAIN mt
  BY RemountTable DEF IsMounts
<1>2. /\ Len(mt) \in Nat /\ DOMAIN mt = 1..Len(mt)
      /\ Len(t) \in Nat /\ DOMAIN t = 1..Len(t)
  BY <1>1, TableSeq DEF IsMounts
<1>3. \A v \in DOMAIN mt : t[v] = mt[v] \/ t[v] = remountWithFlags(mt[v], F)
  BY RemountEach
<1> HIDE DEF t, F
<1>4. Len(t) = Len(mt)
  BY <1>1, <1>2
<1>5. ASSUME NEW m, IsEntry(m)
      PROVE  /\ IsEntry(remountWithFlags(m, F))
             /\ remountWithFlags(m, F).at = m.at /\ remountWithFlags(m, F).source = m.source
  BY <1>5 DEF remountWithFlags, IsEntry, IsMount
<1>6. \A v \in DOMAIN mt : IsEntry(t[v]) /\ t[v].at = mt[v].at /\ t[v].source = mt[v].source
  BY <1>3, <1>5 DEF IsMounts
<1>7. Grown(mt, t, M)
  BY <1>2, <1>4, <1>6, GrownSame
<1> QED
  BY <1>1, <1>6, <1>7 DEF IsMounts, t

\* The end of a pathname put together of two.
LEMMA ConcatTail ==
    ASSUME NEW p, NEW q, IsPathname(p), IsPathname(q)
    PROVE  SubSeq(p \o q, Len(p) + 1, Len(p \o q)) = q /\ Len(p \o q) = Len(p) + Len(q)
<1> DEFINE S == Range(p) \cup Range(q)
           w == SubSeq(p \o q, Len(p) + 1, Len(p \o q))
<1>1. p \in Seq(S) /\ q \in Seq(S)
  <2> DEFINE A == Range(p)
             B == Range(q)
  <2>1. p \in Seq(A) /\ q \in Seq(B)
    BY DEF IsPathname
  <2>2. S = A \cup B
    OBVIOUS
  <2> HIDE DEF A, B, S
  <2> QED
    BY <2>1, <2>2
<1> HIDE DEF S
<1>2. Len(p) \in Nat /\ Len(q) \in Nat /\ Len(p \o q) = Len(p) + Len(q) /\ p \o q \in Seq(S)
  BY <1>1
<1>3. \A i \in 1..Len(q) : (p \o q)[Len(p) + i] = q[i]
  BY <1>1
<1>4. w \in Seq(S) /\ Len(w) = Len(q) /\ \A i \in 1..Len(q) : w[i] = (p \o q)[Len(p) + i]
  <2> DEFINE c == p \o q
             l == Len(p)
  <2>1. c \in Seq(S) /\ l \in Nat /\ Len(c) = l + Len(q)
    BY <1>2
  <2> HIDE DEF c, l
  <2>2. SubSeq(c, l + 1, Len(c)) \in Seq(S)
    BY <1>2, <2>1
  <2>3. Len(SubSeq(c, l + 1, Len(c))) = Len(q)
    BY <1>2, <2>1
  <2>4. \A i \in 1..Len(q) : SubSeq(c, l + 1, Len(c))[i] = c[l + i]
    BY <1>2, <2>1
  <2> QED
    BY <2>2, <2>3, <2>4 DEF c, l
<1> HIDE DEF w
<1>5. w = [i \in 1..Len(q) |-> w[i]] /\ q = [i \in 1..Len(q) |-> q[i]]
  BY <1>1, <1>4
<1>6. w = q
  BY <1>3, <1>4, <1>5
<1> QED
  BY <1>2, <1>6 DEF w

\* The content of a file system.
IsContent(content) ==
    /\ \A q \in DOMAIN content.nodes : IsPathname(q)
    /\ \A q \in DOMAIN content.links : IsPathname(q) /\ IsText(content.links[q])

\* The links when a file system covers a pathname.
LEMMA CoverLinks ==
    ASSUME NEW links, \A q \in DOMAIN links : IsPathname(q) /\ IsText(links[q]),
           NEW at, IsPathname(at),
           NEW c, \A q \in DOMAIN c : IsPathname(q) /\ IsText(c[q])
    PROVE  /\ \A q \in DOMAIN Cover(links, at, c) :
                 IsPathname(q) /\ IsText(Cover(links, at, c)[q])
           /\ \A q \in DOMAIN Cover(links, at, c) :
                 \/ q \in DOMAIN links /\ ~Under(q, at)
                 \/ \E x \in DOMAIN c : q = at \o x
<1> DEFINE f == Cover(links, at, c)
           below == {at \o x : x \in DOMAIN c}
           kept == {q \in DOMAIN links : ~Under(q, at)}
<1>1. f = [q \in kept \cup below |->
              IF q \in below THEN c[SubSeq(q, Len(at) + 1, Len(q))] ELSE links[q]]
  BY DEF Cover
<1>2. \A q \in kept : q \in DOMAIN links /\ ~Under(q, at)
  OBVIOUS
<1>3. ASSUME NEW q \in below
      PROVE  /\ IsPathname(q) /\ SubSeq(q, Len(at) + 1, Len(q)) \in DOMAIN c
             /\ \E x \in DOMAIN c : q = at \o x
  <2>1. PICK x \in DOMAIN c : q = at \o x
    OBVIOUS
  <2>2. IsPathname(at \o x) /\ SubSeq(at \o x, Len(at) + 1, Len(at \o x)) = x
    BY PathnameConcat, ConcatTail
  <2> QED
    BY <2>1, <2>2
<1> HIDE DEF kept, below, f
<1>4. ASSUME NEW q \in DOMAIN f
      PROVE  /\ IsPathname(q) /\ IsText(f[q])
             /\ \/ q \in DOMAIN links /\ ~Under(q, at)
                \/ \E x \in DOMAIN c : q = at \o x
  <2>1. q \in below \/ (q \in kept /\ q \notin below)
    BY <1>1
  <2>2. CASE q \in below
    <3> DEFINE s == SubSeq(q, Len(at) + 1, Len(q))
    <3>1. f[q] = c[s] /\ s \in DOMAIN c
      BY <1>1, <1>3, <2>2
    <3> HIDE DEF s
    <3> QED
      BY <1>3, <2>2, <3>1
  <2>3. CASE q \in kept /\ q \notin below
    <3>1. f[q] = links[q]
      BY <1>1, <2>3
    <3> QED
      BY <1>2, <2>3, <3>1
  <2> QED
    BY <2>1, <2>2, <2>3
<1> QED
  BY <1>4 DEF f

\* Something is mounted at a place: the entry of the table, what is there, and the links.
Mounted(st, at, content, flags, source, w) ==
    w.ok =>
        /\ w.mounts = Append(st.mounts, [at |-> at, flags |-> flags, source |-> source])
        /\ << >> \in DOMAIN content.nodes => at \in DOMAIN w.nodes
        /\ \A q \in DOMAIN w.links :
              \/ q \in DOMAIN st.links /\ ~Under(q, at)
              \/ \E x \in DOMAIN content.links : q = at \o x

\* mount adds one entry to the table, or fails.
LEMMA MountFollows ==
    ASSUME NEW st, IsSetup(st), NEW p, IsPathname(p),
           NEW content, IsContent(content), NEW flags,
           NEW source, source = Missing \/ IsPathname(source),
           NEW M, Loose(M) \/ [source |-> source, target |-> Real(st, p)] \in M
    PROVE  /\ Follows(st, mount(st, p, content, flags, source), M)
           /\ Mounted(st, Real(st, p), content, flags, source, mount(st, p, content, flags, source))
<1> DEFINE at == Real(st, p)
           cn == content.nodes
           cl == content.links
           n == Cover(st.nodes, at, cn)
           l == Cover(st.links, at, cl)
           m == [at |-> at, flags |-> flags, source |-> source]
           d == [source |-> source, target |-> at]
           mt == Append(st.mounts, m)
           u == [st EXCEPT !.nodes = n]
           v == [u EXCEPT !.links = l]
           t == [v EXCEPT !.mounts = mt]
           w == mount(st, p, content, flags, source)
<1>1. w = t \/ w = Fail(st)
  <2>1. t = [st EXCEPT !.nodes = n, !.links = l, !.mounts = mt]
    OBVIOUS
  <2> HIDE DEF t
  <2> QED
    BY <2>1 DEF mount
<1>a. IsPathname(at)
  BY RealPathname
<1>b. Loose(M) \/ d \in M
  OBVIOUS
<1> HIDE DEF at
<1>2. IsMounts(mt) /\ Grown(st.mounts, mt, M)
  <2>1. IsEntry(m)
    BY <1>a DEF IsEntry, IsMount
  <2>2. From(m, d)
    BY DEF From
  <2> HIDE DEF m, d
  <2> QED
    BY <1>b, <2>1, <2>2, MountsAppend DEF IsSetup
<1>3. DOMAIN n = {q \in DOMAIN st.nodes : ~Under(q, at)} \cup {at \o q : q \in DOMAIN cn}
  BY DEF Cover
<1>4. d.target = at
  OBVIOUS
<1>c. /\ \A q \in DOMAIN cn : IsPathname(q)
      /\ \A q \in DOMAIN cl : IsPathname(q) /\ IsText(cl[q])
  BY DEF IsContent
<1>d. /\ \A q \in DOMAIN l : IsPathname(q) /\ IsText(l[q])
      /\ \A q \in DOMAIN l : \/ q \in DOMAIN st.links /\ ~Under(q, at)
                             \/ \E x \in DOMAIN cl : q = at \o x
  <2> DEFINE links == st.links
  <2>1. \A q \in DOMAIN links : IsPathname(q) /\ IsText(links[q])
    BY DEF IsSetup
  <2> HIDE DEF cl, links
  <2> QED
    BY <1>a, <1>c, <2>1, CoverLinks DEF links
<1> HIDE DEF n, l, mt, w, m, d, cn, cl
<1>5. \A q \in DOMAIN n : IsPathname(q)
  BY <1>a, <1>c, <1>3, PathnameConcat DEF IsSetup
<1>6. Loose(M) \/ \A q \in DOMAIN st.nodes : q \in DOMAIN n \/ \E e \in M : Under(q, e.target)
  BY <1>b, <1>3, <1>4
<1>7. Follows(st, u, M) /\ u.nodes = n /\ u.mounts = st.mounts
  BY <1>5, <1>6, WithNodes DEF IsSetup
<1>8. Follows(u, v, M) /\ v.nodes = n /\ v.mounts = st.mounts /\ v.links = l
  <2>1. IsSetup(u)
    BY <1>7 DEF Follows
  <2> HIDE DEF u
  <2> QED
    BY <1>d, <1>7, <2>1, WithLinks
<1>9. Follows(v, t, M) /\ t.mounts = mt /\ t.nodes = n /\ t.links = l
  <2>1. IsSetup(v)
    BY <1>8 DEF Follows
  <2> HIDE DEF v
  <2>2. Grown(v.mounts, mt, M)
    BY <1>2, <1>8
  <2> QED
    BY <1>2, <1>8, <2>1, <2>2, WithMounts
<1>10. Follows(st, t, M)
  <2> HIDE DEF t, u, v
  <2>1. Follows(st, v, M)
    BY <1>7, <1>8, FollowsTrans
  <2> QED
    BY <1>9, <2>1, FollowsTrans
<1>11. << >> \in DOMAIN cn => at \in DOMAIN n
  <2>1. at \o << >> = at
    BY <1>a, PathnameConcat
  <2> QED
    BY <1>3, <2>1
<1> HIDE DEF t
<1> QED
  <2>1. CASE w = t
    <3>1. Mounted(st, at, content, flags, source, w)
      BY <1>d, <1>9, <1>11, <2>1 DEF mt, m, cn, cl, Mounted
    <3> QED
      BY <1>10, <2>1, <3>1 DEF at, w
  <2>2. CASE w = Fail(st)
    <3>1. Mounted(st, at, content, flags, source, w) /\ Follows(st, w, M)
      BY <2>2, FailFollows DEF Mounted
    <3> QED
      BY <3>1 DEF at, w
  <2> QED
    BY <1>1, <2>1, <2>2

\* A remount changes flags, if there is something to remount.
LEMMA RemountPathFollows ==
    ASSUME NEW st, IsSetup(st), NEW p, NEW flags, NEW M
    PROVE  /\ Follows(st, remountPath(st, p, flags), M)
           /\ remountPath(st, p, flags).links = st.links
           /\ remountPath(st, p, flags).ok =>
                 /\ Remountable(st.mounts, Real(st, p), flags)
                 /\ remountPath(st, p, flags).mounts = remount(st.mounts, Real(st, p), flags)
                 /\ remountPath(st, p, flags).nodes = st.nodes
<1> DEFINE at == Real(st, p)
           mt == remount(st.mounts, at, flags)
           t == [st EXCEPT !.mounts = mt]
           w == remountPath(st, p, flags)
<1>1. (w = t /\ Remountable(st.mounts, at, flags)) \/ w = Fail(st)
  BY DEF remountPath
<1>2. IsMounts(mt) /\ Grown(st.mounts, mt, M)
  <2> HIDE DEF at
  <2> QED
    BY RemountMounts DEF IsSetup
<1> HIDE DEF mt, w
<1>3. Follows(st, t, M) /\ t.mounts = mt /\ t.nodes = st.nodes /\ t.links = st.links
  BY <1>2, WithMounts
<1> HIDE DEF t
<1> QED
  BY <1>1, <1>3, FailFollows DEF w, mt

\* The mounts of the host strictly below a pathname.
Inside(p) == {m \in Range(HostMounts) : Under(m.at, p) /\ m.at # p}

\* HostBelow one entry further.
Further(p, ms, n) ==
    IF Under(HostMounts[n].at, p) /\ HostMounts[n].at # p THEN Append(ms, HostMounts[n]) ELSE ms

\* The loop of HostBelow, step by step.
LEMMA HostBelowSteps ==
    ASSUME NEW p
    PROVE  \E f : /\ f[0] = << >>
                  /\ \A n \in 1..Len(HostMounts) : f[n] = Further(p, f[n - 1], n)
                  /\ HostBelow(p) = f[Len(HostMounts)]
<1> DEFINE L == Len(HostMounts)
           e == << >>
           step(g, n) == Further(p, g[n - 1], n)
           Run(g) == [n \in 0..L |-> IF n = 0 THEN e ELSE step(g, n)]
           F == CHOOSE g : g = Run(g)
           Solves(g, m) == /\ g = [n \in 0..m |-> g[n]] /\ g[0] = e
                           /\ \A n \in 1..m : g[n] = step(g, n)
           none == {m \in 0..L : \A g : ~Solves(g, m)}
<1>1. L \in Nat
  <2> DEFINE R == Range(HostMounts)
  <2>1. HostMounts \in Seq(R)
    BY SetupAssumption
  <2> HIDE DEF R
  <2> QED
    BY <2>1
<1>2. HostBelow(p) = F[L]
  BY DEF HostBelow, Further
<1> HIDE DEF L, e
<1>3. ASSUME none # {} PROVE FALSE
  <2>1. PICK m \in none : \A j \in none : m <= j
    <3>1. none \in SUBSET Nat
      <4> HIDE DEF Solves
      <4> QED
        BY <1>1
    <3> HIDE DEF none
    <3> QED
      BY <1>3, <3>1, Smallest
  <2>2. m \in 0..L /\ \A g : ~Solves(g, m)
    <3> HIDE DEF Solves
    <3> QED
      BY <2>1
  <2>3. m # 0
    <3>1. Solves([n \in 0..0 |-> e], 0)
      OBVIOUS
    <3> HIDE DEF Solves
    <3> QED
      BY <2>2, <3>1
  <2>4. m - 1 \in 0..L /\ ~(m <= m - 1) /\ m \in Nat
    BY <1>1, <2>2, <2>3
  <2>5. PICK g : Solves(g, m - 1)
    <3>1. m - 1 \notin none
      <4> HIDE DEF none
      <4> QED
        BY <2>1, <2>4
    <3> HIDE DEF Solves
    <3> QED
      BY <2>4, <3>1
  <2> DEFINE h == [n \in 0..m |-> IF n = m THEN step(g, m) ELSE g[n]]
  <2>6. h[0] = e
    <3>1. 0 \in 0..m /\ 0 # m
      BY <2>3, <2>4
    <3> QED
      BY <2>5, <3>1
  <2>7. ASSUME NEW n \in 1..m PROVE h[n] = step(h, n)
    <3>1. n \in 0..m /\ n - 1 \in 0..m /\ n - 1 # m /\ h[n - 1] = g[n - 1]
      BY <2>4
    <3>2. step(h, n) = step(g, n)
      BY <3>1
    <3>3. CASE n = m
      BY <3>1, <3>2, <3>3
    <3>4. CASE n # m
      <4>1. n \in 1..(m - 1) /\ h[n] = g[n]
        BY <2>4, <3>1, <3>4
      <4> HIDE DEF step
      <4> QED
        BY <2>5, <3>2, <4>1
    <3> QED
      BY <3>3, <3>4
  <2>8. Solves(h, m)
    <3>1. h = [n \in 0..m |-> h[n]]
      OBVIOUS
    <3> HIDE DEF h, step
    <3> QED
      BY <2>6, <2>7, <3>1
  <2> HIDE DEF Solves, h
  <2> QED
    BY <2>2, <2>8
<1>4. PICK g : Solves(g, L)
  <2>1. L \in 0..L
    BY <1>1
  <2>2. L \notin none
    <3> HIDE DEF none
    <3> QED
      BY <1>3
  <2> HIDE DEF Solves
  <2> QED
    BY <2>1, <2>2
<1>5. F = Run(F)
  <2>1. g = Run(g)
    <3>1. \A n \in 0..L : n # 0 => n \in 1..L
      BY <1>1
    <3> HIDE DEF step
    <3> QED
      BY <1>4, <3>1
  <2> HIDE DEF Run
  <2> QED
    BY <2>1
<1> HIDE DEF F
<1>6. F[0] = e /\ \A n \in 1..L : F[n] = step(F, n)
  <2>1. \A n \in 0..L : Run(F)[n] = IF n = 0 THEN e ELSE step(F, n)
    <3> HIDE DEF step
    <3> QED
      OBVIOUS
  <2>2. 0 \in 0..L /\ \A n \in 1..L : n \in 0..L /\ n # 0
    BY <1>1
  <2> HIDE DEF Run, step
  <2> QED
    BY <1>5, <2>1, <2>2
<1> QED
  BY <1>2, <1>6 DEF L, e

\* HostBelow lists mounts of the host strictly below the pathname.
LEMMA HostBelowInside ==
    ASSUME NEW p
    PROVE  HostBelow(p) \in Seq(Inside(p))
<1>1. PICK f : /\ f[0] = << >>
               /\ \A n \in 1..Len(HostMounts) : f[n] = Further(p, f[n - 1], n)
               /\ HostBelow(p) = f[Len(HostMounts)]
  BY HostBelowSteps
<1> DEFINE R == Range(HostMounts)
           L == Len(HostMounts)
           S == Inside(p)
           P == [n \in 0..L |-> f[n] \in Seq(S)]
<1>2. HostMounts \in Seq(R)
  BY SetupAssumption
<1>3. L \in Nat /\ \A n \in 1..L : HostMounts[n] \in R
  <2> HIDE DEF R
  <2> QED
    BY <1>2
<1>4. P[0]
  <2>1. 0 \in 0..L /\ << >> \in Seq(S)
    <3> HIDE DEF S, L
    <3> QED
      BY <1>3
  <2> QED
    BY <1>1, <2>1
<1>5. ASSUME NEW n \in 1..L, P[n - 1] PROVE P[n]
  <2>1. n - 1 \in 0..L /\ n \in 0..L
    BY <1>3
  <2>2. f[n - 1] \in Seq(S)
    <3> HIDE DEF S
    <3> QED
      BY <1>5, <2>1
  <2>3. f[n] = f[n - 1] \/ (f[n] = Append(f[n - 1], HostMounts[n]) /\ HostMounts[n] \in S)
    BY <1>1, <1>3 DEF Further, Inside
  <2>4. f[n] \in Seq(S)
    <3> DEFINE old == f[n - 1]
               new == f[n]
               last == HostMounts[n]
    <3>1. old \in Seq(S) /\ (new = old \/ (new = Append(old, last) /\ last \in S))
      BY <2>2, <2>3
    <3> HIDE DEF S, P, L, R, old, new, last
    <3>2. new \in Seq(S)
      BY <3>1
    <3> QED
      BY <3>2 DEF new
  <2> HIDE DEF S
  <2> QED
    BY <2>1, <2>4
<1>6. P \in [0..L -> BOOLEAN]
  <2> HIDE DEF S
  <2> QED
    OBVIOUS
<1>7. \A n \in 0..L : P[n]
  <2> HIDE DEF P, L
  <2> QED
    BY <1>3, <1>4, <1>5, <1>6, Climb
<1>8. L \in 0..L
  BY <1>3
<1> HIDE DEF S
<1>9. f[L] \in Seq(S)
  BY <1>7, <1>8
<1> QED
  BY <1>1, <1>9 DEF S

\* w is to, then the names of a below from.
IsRebased(w, a, from, to) ==
    /\ IsPathname(w)
    /\ Len(w) = Len(to) + (Len(a) - Len(from))
    /\ \A i \in 1..Len(to) : w[i] = to[i]
    /\ \A i \in 1..(Len(a) - Len(from)) : w[Len(to) + i] = a[Len(from) + i]

\* A pathname below one taken to another: the names of the other, then its own.
LEMMA RebasedNames ==
    ASSUME NEW a, NEW from, NEW to, IsPathname(a), IsPathname(from), IsPathname(to),
           Under(a, from), a # from
    PROVE  IsRebased(Rebased(a, from, to), a, from, to) /\ Len(a) > Len(from)
<1> DEFINE A == Range(a)
           T == Range(to)
           R == A \cup T
           rest == SubSeq(a, Len(from) + 1, Len(a))
           l == Len(from)
<1>1. /\ Len(a) \in Nat /\ Len(from) \in Nat /\ Len(to) \in Nat
      /\ a \in Seq(A) /\ to \in Seq(T)
  BY PathnameSeq
<1>2. Len(a) > Len(from)
  <2>1. Len(from) <= Len(a) /\ \A i \in 1..Len(from) : a[i] = from[i]
    BY UnderNames
  <2>2. ASSUME Len(a) = Len(from) PROVE FALSE
    <3>1. \A i \in 1..Len(a) : a[i] = from[i]
      BY <2>1, <2>2
    <3>2. a = [i \in 1..Len(a) |-> a[i]] /\ from = [i \in 1..Len(from) |-> from[i]]
      BY PathnameSeq
    <3> QED
      BY <2>2, <3>1, <3>2
  <2>3. Len(from) <= Len(a) /\ Len(a) # Len(from)
    BY <2>1, <2>2
  <2> QED
    BY <1>1, <2>3
<1> HIDE DEF A, T, l
<1>3. a \in Seq(R) /\ to \in Seq(R)
  BY <1>1
<1> HIDE DEF R
<1>4. l \in Nat /\ l < Len(a) /\ rest = SubSeq(a, l + 1, Len(a))
  BY <1>1, <1>2 DEF l
<1> HIDE DEF rest
<1>5. /\ rest \in Seq(R) /\ Len(rest) = Len(a) - l
      /\ \A i \in 1..(Len(a) - l) : rest[i] = a[l + i]
  BY <1>1, <1>3, <1>4
<1>6. /\ to \o rest \in Seq(R) /\ Len(to \o rest) = Len(to) + Len(rest)
      /\ \A i \in 1..Len(to) : (to \o rest)[i] = to[i]
  <2>1. to \in Seq(R) /\ rest \in Seq(R)
    BY <1>3, <1>5
  <2>2. to \o rest \in Seq(R) /\ Len(to \o rest) = Len(to) + Len(rest)
    BY <2>1
  <2>3. \A i \in 1..Len(to) : (to \o rest)[i] = to[i]
    BY <2>1
  <2> QED
    BY <2>2, <2>3
<1>7. \A i \in 1..Len(rest) : (to \o rest)[Len(to) + i] = rest[i]
  BY <1>3, <1>5
<1>8. Rebased(a, from, to) = to \o rest
  BY DEF Rebased, rest
<1>9. IsPathname(to \o rest)
  BY <1>6, SeqPathname
<1>10. \A i \in 1..(Len(a) - l) : (to \o rest)[Len(to) + i] = a[l + i]
  BY <1>5, <1>7
<1>11. Len(to \o rest) = Len(to) + (Len(a) - l)
  BY <1>5, <1>6
<1> DEFINE w == to \o rest
<1> HIDE DEF w
<1>12. IsRebased(w, a, from, to)
  BY <1>6, <1>9, <1>10, <1>11 DEF IsRebased, l, w
<1> QED
  BY <1>2, <1>8, <1>12 DEF w

\* It is strictly below the target.
LEMMA RebasedUnder ==
    ASSUME NEW a, NEW from, NEW to, IsPathname(a), IsPathname(from), IsPathname(to),
           Under(a, from), a # from
    PROVE  /\ IsPathname(Rebased(a, from, to)) /\ Under(Rebased(a, from, to), to)
           /\ Rebased(a, from, to) # to
<1> DEFINE w == Rebased(a, from, to)
<1>1. /\ IsPathname(w) /\ Len(a) > Len(from) /\ Len(w) = Len(to) + (Len(a) - Len(from))
      /\ \A i \in 1..Len(to) : w[i] = to[i]
  <2>1. IsRebased(w, a, from, to) /\ Len(a) > Len(from)
    BY RebasedNames
  <2> HIDE DEF w
  <2> QED
    BY <2>1 DEF IsRebased
<1>2. Len(a) \in Nat /\ Len(from) \in Nat /\ Len(to) \in Nat
  BY PathnameSeq
<1> HIDE DEF w
<1>3. Len(w) > Len(to) /\ Len(to) <= Len(w) /\ Len(w) # Len(to)
  BY <1>1, <1>2
<1>4. Under(w, to)
  BY <1>1, <1>3, UnderNames
<1> QED
  BY <1>1, <1>3, <1>4 DEF w

\* Two mounts of the host are to each other as before.
LEMMA RebasedPrefix ==
    ASSUME NEW a, NEW b, NEW from, NEW to, IsPathname(a), IsPathname(b),
           IsPathname(from), IsPathname(to), Under(a, from), a # from, Under(b, from), b # from,
           HasPrefix(a, b) => Under(a, b),
           HasPrefix(Rebased(a, from, to), Rebased(b, from, to))
    PROVE  Under(Rebased(a, from, to), Rebased(b, from, to))
<1> DEFINE w == Rebased(a, from, to)
           s == Rebased(b, from, to)
           f == Len(from)
           t == Len(to)
           m == Len(a)
           n == Len(b)
<1>1. /\ IsPathname(w) /\ m > f /\ Len(w) = t + (m - f)
      /\ \A i \in 1..t : w[i] = to[i]
      /\ \A i \in 1..(m - f) : w[t + i] = a[f + i]
  <2>1. IsRebased(w, a, from, to) /\ m > f
    BY RebasedNames
  <2> HIDE DEF w
  <2> QED
    BY <2>1 DEF IsRebased
<1>2. /\ IsPathname(s) /\ n > f /\ Len(s) = t + (n - f)
      /\ \A i \in 1..t : s[i] = to[i]
      /\ \A i \in 1..(n - f) : s[t + i] = b[f + i]
  <2>1. IsRebased(s, b, from, to) /\ n > f
    BY RebasedNames
  <2> HIDE DEF s
  <2> QED
    BY <2>1 DEF IsRebased
<1>3. m \in Nat /\ n \in Nat /\ f \in Nat /\ t \in Nat
  BY PathnameSeq
<1>4. /\ \A i \in 1..f : a[i] = from[i] /\ b[i] = from[i]
  BY UnderNames
<1>5. /\ Len(s) <= Len(w) /\ \A v \in 1..(Len(s) - 1) : w[v] = s[v]
      /\ w[Len(s)] = s[Len(s)] \/ << s[Len(s)], w[Len(s)] >> \in NamePrefix
  <2>1. s # << >>
    <3>1. Len(s) # 0
      <4> HIDE DEF s, n, f, t
      <4> QED
        BY <1>2, <1>3
    <3> HIDE DEF s
    <3> QED
      BY <3>1
  <2> HIDE DEF w, s
  <2>2. HasPrefix(w, s)
    BY DEF w, s
  <2> QED
    BY <2>1, <2>2 DEF HasPrefix
<1> HIDE DEF w, s, f, t, m, n
<1>6. n <= m
  BY <1>1, <1>2, <1>3, <1>5
<1>7. ASSUME NEW v \in 1..(n - 1) PROVE a[v] = b[v]
  <2>1. CASE v <= f
    <3>1. v \in 1..f
      BY <1>3, <2>1
    <3> QED
      BY <1>4, <3>1
  <2>2. CASE ~(v <= f)
    <3> DEFINE i == v - f
    <3>1. i \in 1..(n - f) /\ i \in 1..(m - f) /\ t + i \in 1..(Len(s) - 1) /\ f + i = v
      BY <1>1, <1>2, <1>3, <1>6, <2>2
    <3> HIDE DEF i
    <3>2. w[t + i] = a[f + i] /\ s[t + i] = b[f + i] /\ w[t + i] = s[t + i]
      BY <1>1, <1>2, <1>5, <3>1
    <3> QED
      BY <3>1, <3>2
  <2> QED
    BY <2>1, <2>2
<1>8. a[n] = b[n] \/ << b[n], a[n] >> \in NamePrefix
  <2> DEFINE i == n - f
  <2>1. i \in 1..(n - f) /\ i \in 1..(m - f) /\ t + i = Len(s) /\ f + i = n
    BY <1>1, <1>2, <1>3, <1>6
  <2> HIDE DEF i
  <2>2. w[t + i] = a[f + i] /\ s[t + i] = b[f + i]
    BY <1>1, <1>2, <2>1
  <2> QED
    BY <1>5, <2>1, <2>2
<1>9. HasPrefix(a, b)
  BY <1>6, <1>7, <1>8 DEF HasPrefix, m, n
<1>10. n <= m /\ \A i \in 1..n : a[i] = b[i]
  BY <1>9, UnderNames DEF m, n
<1>11. ASSUME NEW v \in 1..Len(s) PROVE w[v] = s[v]
  <2>1. CASE v <= t
    <3>1. v \in 1..t
      BY <1>3, <2>1
    <3> QED
      BY <1>1, <1>2, <3>1
  <2>2. CASE ~(v <= t)
    <3> DEFINE i == v - t
    <3>1. i \in 1..(n - f) /\ i \in 1..(m - f) /\ f + i \in 1..n /\ t + i = v
      BY <1>1, <1>2, <1>3, <1>6, <2>2
    <3> HIDE DEF i
    <3>2. w[t + i] = a[f + i] /\ s[t + i] = b[f + i] /\ a[f + i] = b[f + i]
      BY <1>1, <1>2, <1>10, <3>1
    <3> QED
      BY <3>1, <3>2
  <2> QED
    BY <2>1, <2>2
<1>12. Under(w, s)
  BY <1>1, <1>2, <1>5, <1>11, UnderNames
<1> QED
  BY <1>12 DEF w, s

(***************************************************************************)
(* No mount point of the host is the beginning of another, written out,    *)
(* without being above it: as when NamePrefix is empty.                    *)
(***************************************************************************)
Unambiguous ==
    \A a, b \in Range(HostMounts) : HasPrefix(a.at, b.at) => Under(a.at, b.at)

\* The mounts a bind takes along, and the table before it is remounted.
Inner(source, target, flags) ==
    IF "rec" \in flags THEN Moved(HostBelow(source), source, target) ELSE << >>

\* The table of a bind before it is remounted.
BindTable(mt, source, target, flags) ==
    Append(mt, [at |-> target, flags |-> HostMounts[Owner(HostMounts, source)].flags,
                source |-> source]) \o Inner(source, target, flags)

\* The mounts a bind takes along are a table.
LEMMA InnerTable ==
    ASSUME NEW source, NEW target, NEW flags
    PROVE  IsTable(Inner(source, target, flags))
<1> DEFINE hb == HostBelow(source)
           f == Moved(hb, source, target)
<1>1. CASE "rec" \in flags
  <2>1. hb \in Seq(Inside(source))
    BY HostBelowInside
  <2>2. Len(hb) \in Nat /\ DOMAIN hb = 1..Len(hb)
    <3> DEFINE S == Inside(source)
    <3> HIDE DEF S, hb
    <3>1. hb \in Seq(S)
      BY <2>1 DEF S
    <3> QED
      BY <3>1
  <2>3. f = [v \in 1..Len(hb) |-> f[v]]
    <3> HIDE DEF hb
    <3> QED
      BY <2>2 DEF Moved
  <2>4. IsTable(f)
    <3> HIDE DEF f
    <3> QED
      BY <2>2, <2>3, TableFunction
  <2> QED
    BY <1>1, <2>4 DEF Inner
<1>2. CASE "rec" \notin flags
  <2>1. << >> \in Seq({})
    OBVIOUS
  <2> QED
    BY <1>2, <2>1 DEF Inner, IsTable
<1> QED
  BY <1>1, <1>2

\* They are what the bind describes, or taken along by it.
LEMMA InnerMounts ==
    ASSUME NEW source, IsPathname(source), NEW target, IsPathname(target), NEW flags,
           "rec" \in flags => source # Missing,
           NEW d, d = [source |-> source, target |-> target]
    PROVE  /\ IsMounts(Inner(source, target, flags))
           /\ \A v \in DOMAIN Inner(source, target, flags) :
                 From(Inner(source, target, flags)[v], d)
<1> DEFINE hb == HostBelow(source)
           inner == Inner(source, target, flags)
<1>1. IsTable(inner)
  BY InnerTable
<1>2. CASE "rec" \in flags
  <2>1. hb \in Seq(Inside(source))
    BY HostBelowInside
  <2>2. DOMAIN hb = 1..Len(hb) /\ \A x \in DOMAIN hb : hb[x] \in Inside(source)
    <3> DEFINE S == Inside(source)
    <3> HIDE DEF S, hb
    <3>1. hb \in Seq(S)
      BY <2>1 DEF S
    <3>2. DOMAIN hb = 1..Len(hb) /\ \A x \in DOMAIN hb : hb[x] \in S
      BY <3>1
    <3> QED
      BY <3>2 DEF S
  <2>3. inner = [x \in DOMAIN hb |-> [at |-> Rebased(hb[x].at, source, target),
                                      flags |-> hb[x].flags, source |-> hb[x].at]]
    <3> HIDE DEF hb
    <3> QED
      BY <1>2 DEF Inner, Moved, hb
  <2> HIDE DEF hb, inner
  <2>4. ASSUME NEW v \in DOMAIN inner PROVE IsEntry(inner[v]) /\ From(inner[v], d)
    <3> DEFINE h == hb[v]
               m == inner[v]
    <3>1. /\ h \in Inside(source)
          /\ m = [at |-> Rebased(h.at, source, target), flags |-> h.flags, source |-> h.at]
      BY <2>2, <2>3
    <3> HIDE DEF h, m
    <3>2. h \in Range(HostMounts) /\ Under(h.at, source) /\ h.at # source
      BY <3>1 DEF Inside
    <3>3. IsPathname(h.at)
      BY <3>2, SetupAssumption
    <3>4. IsPathname(Rebased(h.at, source, target))
      BY <3>2, <3>3, RebasedUnder
    <3>5. m.at = Rebased(h.at, source, target) /\ m.source = h.at /\ IsMount(m)
      BY <3>1 DEF IsMount
    <3>6. IsEntry(m)
      BY <3>3, <3>4, <3>5 DEF IsEntry
    <3>7. d.source = source /\ d.target = target
      OBVIOUS
    <3>8. From(m, d)
      BY <1>2, <3>2, <3>3, <3>5, <3>7 DEF From
    <3> QED
      BY <3>6, <3>8 DEF m
  <2> QED
    BY <1>1, <2>4 DEF IsMounts, inner
<1>3. CASE "rec" \notin flags
  <2>1. inner = << >>
    BY <1>3 DEF Inner
  <2>2. DOMAIN inner = {}
    BY <2>1
  <2> QED
    BY <1>1, <2>2 DEF IsMounts
<1> QED
  BY <1>2, <1>3

\* A pathname below another is that one and the rest.
LEMMA SplitName ==
    ASSUME NEW x, NEW p, IsPathname(x), IsPathname(p), Under(x, p)
    PROVE  /\ IsPathname(SubSeq(x, Len(p) + 1, Len(x)))
           /\ p \o SubSeq(x, Len(p) + 1, Len(x)) = x
<1> DEFINE S == Range(x)
           l == Len(p)
           s == SubSeq(x, l + 1, Len(x))
           w == p \o s
<1>1. x \in Seq(S) /\ Len(x) \in Nat /\ l \in Nat /\ p = [i \in 1..l |-> p[i]]
  BY PathnameSeq
<1>2. l <= Len(x) /\ \A i \in 1..l : x[i] = p[i]
  BY UnderNames
<1> HIDE DEF S, l
<1>3. p \in Seq(S) /\ Len(p) = l
  <2>1. \A i \in 1..l : p[i] \in S
    BY <1>1, <1>2
  <2>2. p \in [1..l -> S]
    BY <1>1, <2>1
  <2> QED
    BY <1>1, <2>2
<1>4. s \in Seq(S)
  BY <1>1, <1>2
<1>5. Len(s) = Len(x) - l
  BY <1>1, <1>2
<1>6. \A i \in 1..(Len(x) - l) : s[i] = x[l + i]
  BY <1>1, <1>2
<1> HIDE DEF s
<1>7. w \in Seq(S) /\ Len(w) = l + Len(s)
  BY <1>3, <1>4
<1>8. \A i \in 1..l : w[i] = p[i]
  BY <1>3, <1>4
<1>9. \A i \in 1..Len(s) : w[l + i] = s[i]
  BY <1>3, <1>4
<1> HIDE DEF w
<1>10. Len(w) = Len(x)
  BY <1>1, <1>2, <1>5, <1>7
<1>11. ASSUME NEW i \in 1..Len(x) PROVE w[i] = x[i]
  <2>1. CASE i <= l
    BY <1>2, <1>8, <2>1
  <2>2. CASE ~(i <= l)
    <3> DEFINE j == i - l
    <3>1. j \in 1..(Len(x) - l) /\ j \in 1..Len(s) /\ i = l + j
      BY <1>1, <1>2, <1>5, <2>2
    <3> HIDE DEF j
    <3> QED
      BY <1>6, <1>9, <3>1
  <2> QED
    BY <2>1, <2>2
<1>12. w = [i \in 1..Len(x) |-> w[i]] /\ x = [i \in 1..Len(x) |-> x[i]]
  BY <1>1, <1>7, <1>10
<1>13. w = x
  BY <1>11, <1>12
<1>14. IsPathname(s)
  BY <1>4, SeqPathname
<1> QED
  BY <1>13, <1>14 DEF w, s, l

\* A part of a tree of the host.
LEMMA BelowNames ==
    ASSUME NEW h, \A q \in DOMAIN h : IsPathname(q), NEW p, IsPathname(p)
    PROVE  /\ \A q \in DOMAIN Below(h, p) :
                 IsPathname(q) /\ p \o q \in DOMAIN h /\ Below(h, p)[q] = h[p \o q]
           /\ p \in DOMAIN h <=> << >> \in DOMAIN Below(h, p)
<1> DEFINE under == {x \in DOMAIN h : Under(x, p)}
           D == {SubSeq(x, Len(p) + 1, Len(x)) : x \in under}
<1>1. Below(h, p) = [q \in D |-> h[p \o q]]
  BY DEF Below
<1>2. ASSUME NEW q \in D PROVE IsPathname(q) /\ p \o q \in DOMAIN h
  <2>1. PICK x \in under : q = SubSeq(x, Len(p) + 1, Len(x))
    OBVIOUS
  <2>2. IsPathname(x) /\ Under(x, p) /\ x \in DOMAIN h
    OBVIOUS
  <2> QED
    BY <2>1, <2>2, SplitName
<1>3. ASSUME p \in DOMAIN h PROVE << >> \in D
  <2>1. p \in under
    BY <1>3, UnderSelf
  <2>2. SubSeq(p, Len(p) + 1, Len(p)) = << >>
    <3> DEFINE S == Range(p)
    <3>1. p \in Seq(S) /\ Len(p) \in Nat
      BY DEF IsPathname
    <3> HIDE DEF S
    <3> QED
      BY <3>1
  <2> QED
    BY <2>1, <2>2
<1> HIDE DEF D
<1>4. ASSUME << >> \in D PROVE p \in DOMAIN h
  <2>1. p \o << >> = p
    BY <1>2, <1>4, PathnameConcat
  <2> QED
    BY <1>2, <1>4, <2>1
<1> QED
  BY <1>1, <1>2, <1>3, <1>4

\* The tree of the host below a pathname.
LEMMA HostTreeNames ==
    ASSUME NEW st, IsSetup(st), NEW p, IsPathname(p)
    PROVE  /\ IsContent(HostTree(st, p))
           /\ p \in DOMAIN st.host => << >> \in DOMAIN HostTree(st, p).nodes
           /\ << >> \in DOMAIN HostTree(st, p).links => p \in DOMAIN HostLinks
<1> DEFINE h == st.host
           n == Below(h, p)
           l == Below(HostLinks, p)
           t == HostTree(st, p)
<1>1. t.nodes = n /\ t.links = l
  BY DEF HostTree
<1>2. \A q \in DOMAIN h : IsPathname(q)
  BY DEF IsSetup
<1>3. \A q \in DOMAIN HostLinks : IsPathname(q) /\ IsText(HostLinks[q])
  BY SetupAssumption
<1> HIDE DEF h
<1>4. /\ \A q \in DOMAIN n : IsPathname(q)
      /\ p \in DOMAIN h => << >> \in DOMAIN n
  BY <1>2, BelowNames
<1>5. /\ \A q \in DOMAIN l : IsPathname(q) /\ p \o q \in DOMAIN HostLinks /\ l[q] = HostLinks[p \o q]
      /\ << >> \in DOMAIN l => p \in DOMAIN HostLinks
  BY <1>3, BelowNames
<1> HIDE DEF n, l, t
<1>6. IsContent(t)
  BY <1>1, <1>3, <1>4, <1>5 DEF IsContent
<1> QED
  BY <1>1, <1>4, <1>5, <1>6 DEF t, h

\* The links after a bind: old ones that are not covered, and those of the source.
BoundLinks(old, new, at, source) ==
    \A q \in DOMAIN new :
        \/ q \in DOMAIN old /\ ~Under(q, at)
        \/ \E x : /\ IsPathname(x) /\ q = at \o x
                  /\ x = << >> => source \in DOMAIN HostLinks

\* What bindMount does to the table, and what it leaves at its target.
LEMMA BindMountFollows ==
    ASSUME NEW st, IsSetup(st), NEW source, IsPathname(source), NEW target, IsPathname(target),
           NEW flags, "rec" \in flags => source # Missing,
           NEW M, Loose(M) \/ [source |-> source, target |-> Real(st, target)] \in M,
           NEW w, w = bindMount(st, source, target, flags),
           NEW at, at = Real(st, target)
    PROVE  /\ Follows(st, w, M)
           /\ w.ok =>
                 /\ w.mounts = remount(BindTable(st.mounts, source, at, flags),
                                       Real(w, target), flags)
                 /\ Remountable(BindTable(st.mounts, source, at, flags), Real(w, target), flags)
                 /\ source \in DOMAIN st.host => at \in DOMAIN w.nodes
                 /\ BoundLinks(st.links, w.links, at, source)
<1> DEFINE own == HostMounts[Owner(HostMounts, source)].flags
           inner == Inner(source, at, flags)
           tree == HostTree(st, source)
           m == mount(st, target, tree, own, source)
           f(s) == [s EXCEPT !.mounts = @ \o inner]
           b == Then(m, f)
           g(s) == remountPath(s, target, flags)
           entry == [at |-> at, flags |-> own, source |-> source]
           d == [source |-> source, target |-> at]
<1>1. w = Then(b, g)
  BY DEF bindMount, Inner
<1>a. IsPathname(at)
  BY RealPathname
<1>2. IsMounts(inner) /\ \A v \in DOMAIN inner : Loose(M) \/ \E e \in M : From(inner[v], e)
  <2>1. d = [source |-> source, target |-> at] /\ (Loose(M) \/ d \in M)
    OBVIOUS
  <2> HIDE DEF d, inner
  <2>2. IsMounts(inner) /\ \A v \in DOMAIN inner : From(inner[v], d)
    BY <1>a, <2>1, InnerMounts DEF inner
  <2> QED
    BY <2>1, <2>2
<1>3. /\ Follows(st, m, M)
      /\ m.ok =>
            /\ m.mounts = Append(st.mounts, entry)
            /\ source \in DOMAIN st.host => at \in DOMAIN m.nodes
            /\ \A q \in DOMAIN m.links : \/ q \in DOMAIN st.links /\ ~Under(q, at)
                                         \/ \E x \in DOMAIN tree.links : q = at \o x
  <2>1. IsContent(tree) /\ (source \in DOMAIN st.host => << >> \in DOMAIN tree.nodes)
    BY HostTreeNames
  <2> HIDE DEF tree, own
  <2>2. Follows(st, m, M) /\ Mounted(st, at, tree, own, source, m)
    BY <2>1, MountFollows
  <2> HIDE DEF m
  <2> QED
    BY <2>1, <2>2 DEF Mounted
<1>b. \A x \in DOMAIN tree.links : IsPathname(x) /\ (x = << >> => source \in DOMAIN HostLinks)
  BY HostTreeNames DEF IsContent
<1>4. IsSetup(m) /\ IsMounts(m.mounts)
  BY <1>3 DEF Follows, IsSetup
<1> HIDE DEF m, inner, entry, tree
<1>5. b = IF m.ok THEN f(m) ELSE m
  <2> HIDE DEF f
  <2> QED
    BY DEF Then
<1>6. /\ Follows(m, f(m), M) /\ f(m).mounts = m.mounts \o inner /\ f(m).ok = m.ok
      /\ f(m).nodes = m.nodes /\ f(m).links = m.links
  <2> DEFINE mt == m.mounts \o inner
  <2>1. IsMounts(mt) /\ Grown(m.mounts, mt, M)
    BY <1>2, <1>4, MountsConcat
  <2>2. f(m) = [m EXCEPT !.mounts = mt]
    OBVIOUS
  <2> HIDE DEF mt, f
  <2>3. /\ Follows(m, f(m), M) /\ f(m).mounts = mt /\ f(m).ok = m.ok
        /\ f(m).nodes = m.nodes /\ f(m).links = m.links
    BY <1>4, <2>1, <2>2, WithMounts
  <2> QED
    BY <2>3 DEF mt
<1> HIDE DEF f, b
<1>7. Follows(st, b, M)
  BY <1>3, <1>5, <1>6, FollowsTrans
<1>8. b.ok => m.ok /\ b.mounts = Append(st.mounts, entry) \o inner
              /\ b.nodes = m.nodes /\ b.links = m.links
  <2>1. CASE m.ok
    BY <1>3, <1>5, <1>6, <2>1
  <2>2. CASE ~m.ok
    BY <1>5, <2>2
  <2> QED
    BY <2>1, <2>2
<1>9. IsSetup(b) /\ IsMounts(b.mounts)
  BY <1>7 DEF Follows, IsSetup
<1>10. w = IF b.ok THEN g(b) ELSE b
  <2> HIDE DEF g
  <2> QED
    BY <1>1 DEF Then
<1>11. /\ Follows(b, g(b), M) /\ g(b).links = b.links
       /\ g(b).ok => /\ Remountable(b.mounts, Real(b, target), flags)
                     /\ g(b).mounts = remount(b.mounts, Real(b, target), flags)
                     /\ g(b).nodes = b.nodes
  BY <1>9, RemountPathFollows
<1> HIDE DEF g
<1>12. Follows(st, w, M)
  BY <1>7, <1>10, <1>11, FollowsTrans
<1>13. w.ok => /\ b.ok /\ Remountable(b.mounts, Real(b, target), flags)
               /\ w.mounts = remount(b.mounts, Real(b, target), flags)
               /\ w.nodes = b.nodes /\ w.links = b.links
  <2>1. CASE b.ok
    BY <1>10, <1>11, <2>1
  <2>2. CASE ~b.ok
    BY <1>10, <2>2
  <2> QED
    BY <2>1, <2>2
<1>14. w.ok => Real(b, target) = Real(w, target)
  BY <1>13, RealSame
<1>15. BindTable(st.mounts, source, at, flags) = Append(st.mounts, entry) \o inner
  BY DEF BindTable, inner, entry
<1>16. w.ok => /\ w.mounts = remount(BindTable(st.mounts, source, at, flags),
                                     Real(w, target), flags)
               /\ Remountable(BindTable(st.mounts, source, at, flags), Real(w, target), flags)
               /\ w.nodes = m.nodes /\ w.links = m.links /\ m.ok
  BY <1>8, <1>13, <1>14, <1>15
<1>17. w.ok => BoundLinks(st.links, w.links, at, source)
  BY <1>b, <1>3, <1>16 DEF BoundLinks
<1> QED
  BY <1>3, <1>12, <1>16, <1>17

\* The table of a recursive bind, before it is remounted.
LEMMA BindTableBound ==
    ASSUME Unambiguous, NEW mt, IsTable(mt), NEW source, IsPathname(source),
           NEW target, IsPathname(target), NEW flags, "rec" \in flags
    PROVE  /\ Bound(BindTable(mt, source, target, flags), Len(mt) + 1, target)
           /\ \A c \in DOMAIN BindTable(mt, source, target, flags) :
                 c >= Len(mt) + 1 => IsMount(BindTable(mt, source, target, flags)[c])
<1> DEFINE own == HostMounts[Owner(HostMounts, source)].flags
           entry == [at |-> target, flags |-> own, source |-> source]
           hb == HostBelow(source)
           inner == Inner(source, target, flags)
           b == Append(mt, entry)
           t == BindTable(mt, source, target, flags)
           top == Len(mt) + 1
<1>1. t = b \o inner
  BY DEF BindTable
<1>2. entry.at = target /\ IsMount(entry)
  BY DEF IsMount
<1> HIDE DEF entry, t
<1>3. IsTable(b) /\ Len(b) = top /\ b[top] = entry /\ Len(mt) \in Nat /\ top \in Nat
  BY TableAppend, TableSeq
<1> HIDE DEF b, top
<1>4. IsTable(inner) /\ Len(inner) \in Nat
  BY InnerTable, TableSeq
<1>5. /\ IsTable(t) /\ Len(t) = top + Len(inner)
      /\ \A v \in 1..top : t[v] = b[v]
      /\ \A v \in 1..Len(inner) : t[top + v] = inner[v]
  <2> HIDE DEF inner
  <2>1. /\ IsTable(b \o inner) /\ Len(b \o inner) = Len(b) + Len(inner)
        /\ \A v \in 1..Len(b) : (b \o inner)[v] = b[v]
        /\ \A v \in 1..Len(inner) : (b \o inner)[Len(b) + v] = inner[v]
    <3>1. IsTable(b) /\ IsTable(inner)
      BY <1>3, <1>4
    <3> QED
      BY <3>1, TableConcat
  <2> QED
    BY <1>1, <1>3, <2>1
<1>6. DOMAIN t = 1..(top + Len(inner))
  BY <1>5, TableSeq
<1>7. top \in DOMAIN t /\ t[top] = entry
  <2> HIDE DEF inner
  <2>1. 1 <= top /\ top \in 1..top /\ top \in 1..(top + Len(inner))
    BY <1>3, <1>4 DEF top
  <2> QED
    BY <1>3, <1>5, <1>6, <2>1
<1>8. ASSUME NEW c \in DOMAIN t, c > top
      PROVE  \E h \in Range(HostMounts) :
                /\ IsPathname(h.at) /\ Under(h.at, source) /\ h.at # source
                /\ t[c].at = Rebased(h.at, source, target) /\ IsMount(t[c])
  <2> DEFINE i == c - top
  <2>1. i \in 1..Len(inner) /\ c = top + i
    BY <1>3, <1>4, <1>6, <1>8
  <2> HIDE DEF i
  <2>2. t[c] = inner[i]
    BY <1>5, <2>1
  <2>3. hb \in Seq(Inside(source))
    BY HostBelowInside
  <2>4. Len(hb) \in Nat /\ DOMAIN hb = 1..Len(hb) /\ \A x \in 1..Len(hb) : hb[x] \in Inside(source)
    <3> DEFINE S == Inside(source)
    <3> HIDE DEF S, hb
    <3>1. hb \in Seq(S)
      BY <2>3 DEF S
    <3>2. Len(hb) \in Nat /\ DOMAIN hb = 1..Len(hb) /\ \A x \in 1..Len(hb) : hb[x] \in S
      BY <3>1
    <3> QED
      BY <3>2 DEF S
  <2>5. inner = [x \in 1..Len(hb) |-> [at |-> Rebased(hb[x].at, source, target),
                                       flags |-> hb[x].flags, source |-> hb[x].at]]
    <3> HIDE DEF hb
    <3> QED
      BY <2>4 DEF Inner, Moved, Rebased, hb
  <2>6. Len(inner) = Len(hb)
    <3>1. inner = [x \in 1..Len(hb) |-> inner[x]]
      BY <2>5
    <3> HIDE DEF inner, hb
    <3> QED
      BY <2>4, <3>1, TableFunction
  <2> HIDE DEF hb, inner
  <2> DEFINE h == hb[i]
  <2>7. h \in Inside(source)
    BY <2>1, <2>4, <2>6
  <2>8. inner[i] = [at |-> Rebased(h.at, source, target), flags |-> h.flags, source |-> h.at]
    BY <2>1, <2>5, <2>6
  <2> HIDE DEF h
  <2>9. h \in Range(HostMounts) /\ Under(h.at, source) /\ h.at # source
    BY <2>7 DEF Inside
  <2>10. IsPathname(h.at)
    BY <2>9, SetupAssumption
  <2>11. inner[i].at = Rebased(h.at, source, target) /\ IsMount(inner[i])
    BY <2>8 DEF IsMount
  <2> QED
    BY <2>2, <2>9, <2>10, <2>11
<1>9. ASSUME NEW c \in DOMAIN t, c > top
      PROVE  IsPathname(t[c].at) /\ Under(t[c].at, target) /\ t[c].at # target
  BY <1>8, <1>9, RebasedUnder
<1>10. ASSUME NEW c \in DOMAIN t, NEW d \in DOMAIN t, c > top, d > top,
              HasPrefix(t[c].at, t[d].at)
       PROVE  Under(t[c].at, t[d].at)
  <2>1. PICK h \in Range(HostMounts) :
                /\ IsPathname(h.at) /\ Under(h.at, source) /\ h.at # source
                /\ t[c].at = Rebased(h.at, source, target)
    BY <1>8, <1>10
  <2>2. PICK g \in Range(HostMounts) :
                /\ IsPathname(g.at) /\ Under(g.at, source) /\ g.at # source
                /\ t[d].at = Rebased(g.at, source, target)
    BY <1>8, <1>10
  <2>3. HasPrefix(h.at, g.at) => Under(h.at, g.at)
    BY DEF Unambiguous
  <2> QED
    BY <1>10, <2>1, <2>2, <2>3, RebasedPrefix
<1>11. \A c \in DOMAIN t : c >= top => IsMount(t[c])
  <2> TAKE c \in DOMAIN t
  <2> HAVE c >= top
  <2>1. c = top \/ c > top
    BY <1>3, <1>4, <1>6
  <2> QED
    BY <1>2, <1>7, <1>8, <2>1
<1>12. Bound(t, top, target)
  BY <1>2, <1>5, <1>7, <1>9, <1>10 DEF Bound
<1> QED
  BY <1>11, <1>12 DEF t, top

\* A recursive bind mount leaves nothing below its target unsealed, but what denies it.
LEMMA BindMountSealed ==
    ASSUME Unambiguous, NEW st, IsSetup(st), NEW source, IsPathname(source), source # Missing,
           NEW target, IsPathname(target), NEW flags, "rec" \in flags,
           NEW w, w = bindMount(st, source, target, flags), w.ok,
           NEW at, at = Real(st, target), Real(w, target) = at
    PROVE  \A m \in Visible(w.mounts, at) : SealedMount(w.mounts[m], at, remountFlags(flags))
<1> DEFINE t == BindTable(st.mounts, source, at, flags)
           top == Len(st.mounts) + 1
           d == [source |-> source, target |-> at]
<1>a. IsPathname(at)
  BY RealPathname
<1>1. w.mounts = remount(t, at, flags) /\ Remountable(t, at, flags)
  <2>1. [source |-> source, target |-> Real(st, target)] \in {d}
    OBVIOUS
  <2> DEFINE M == {d}
  <2> HIDE DEF d, M
  <2>2. Loose(M) \/ [source |-> source, target |-> Real(st, target)] \in M
    BY <2>1 DEF M
  <2>3. w.ok => /\ w.mounts = remount(t, Real(w, target), flags)
                /\ Remountable(t, Real(w, target), flags)
    BY <2>2, BindMountFollows
  <2> HIDE DEF t
  <2> QED
    BY <2>3
<1>2. Bound(t, top, at) /\ \A c \in DOMAIN t : c >= top => IsMount(t[c])
  <2>1. IsTable(st.mounts)
    BY DEF IsSetup, IsMounts
  <2> QED
    BY <1>a, <2>1, BindTableBound
<1> HIDE DEF t, top
<1>3. \A m \in Visible(remount(t, at, flags), at) :
         SealedMount(remount(t, at, flags)[m], at, remountFlags(flags))
  BY <1>1, <1>2, RemountSealed
<1> QED
  BY <1>1, <1>3

\* A step after another, taken if the first has not failed.
LEMMA ThenFollows ==
    ASSUME NEW st, NEW x, NEW y, NEW t, NEW M, IsSetup(st), Follows(st, x, M),
           IsSetup(x) => Follows(x, y, M), t = IF x.ok THEN y ELSE x
    PROVE  Follows(st, t, M) /\ IsSetup(t) /\ (t.ok => x.ok /\ t = y)
<1>1. IsSetup(x)
  BY DEF Follows
<1>2. CASE x.ok
  <2>1. t = y /\ Follows(st, y, M)
    BY <1>1, <1>2, FollowsTrans
  <2> QED
    BY <1>2, <2>1 DEF Follows
<1>3. CASE ~x.ok
  <2>1. t = x
    BY <1>3
  <2> QED
    BY <1>3, <2>1, <1>1
<1> QED
  BY <1>2, <1>3

\* An empty file system has its root alone, and no link.
LEMMA EmptyNames == IsContent(Empty) /\ << >> \in DOMAIN Empty.nodes /\ DOMAIN Empty.links = {}
<1>1. << >> \in Seq({})
  OBVIOUS
<1>2. IsPathname(<< >>)
  BY <1>1, SeqPathname
<1>3. DOMAIN Empty.nodes = {<< >>} /\ DOMAIN Empty.links = {}
  BY DEF Empty
<1> QED
  BY <1>2, <1>3 DEF IsContent

\* What is mounted after nodes have been made is mounted.
LEMMA MountedLater ==
    ASSUME NEW st, NEW d, d.mounts = st.mounts, d.links = st.links, NEW at, NEW content,
           NEW flags, NEW source, NEW w, Mounted(d, at, content, flags, source, w)
    PROVE  Mounted(st, at, content, flags, source, w)
  BY DEF Mounted

\* mountTmpfs makes its mount and changes nothing else.
LEMMA TmpfsFollows ==
    ASSUME NEW st, IsSetup(st), NEW p, IsPathname(p), NEW flags,
           NEW M, Loose(M) \/ [source |-> Missing, target |-> Real(st, p)] \in M
    PROVE  /\ Follows(st, mountTmpfs(st, p, flags), M)
           /\ Mounted(st, Real(st, p), Empty, flags, Missing, mountTmpfs(st, p, flags))
<1> DEFINE d == mkdirAll(st, p)
           f(s) == mount(s, p, Empty, flags, Missing)
           at == Real(st, p)
<1>1. Follows(st, d, M) /\ d.mounts = st.mounts /\ d.links = st.links
  BY MkdirFollows
<1>2. IsSetup(d)
  BY <1>1 DEF Follows
<1>3. mountTmpfs(st, p, flags) = Then(d, f)
  BY DEF mountTmpfs
<1> HIDE DEF d
<1>a. Real(d, p) = at
  BY <1>1, RealSame
<1>4. Follows(d, f(d), M) /\ Mounted(d, at, Empty, flags, Missing, f(d))
  <2>1. Loose(M) \/ [source |-> Missing, target |-> Real(d, p)] \in M
    BY <1>a
  <2>2. Follows(d, f(d), M) /\ Mounted(d, Real(d, p), Empty, flags, Missing, f(d))
    BY <1>2, <2>1, MountFollows, EmptyNames
  <2> QED
    BY <1>a, <2>2
<1> HIDE DEF f, at
<1>5. Then(d, f) = IF d.ok THEN f(d) ELSE d
  BY DEF Then
<1> DEFINE w == Then(d, f)
<1>6. w = IF d.ok THEN f(d) ELSE d
  BY <1>5
<1> HIDE DEF w
<1>7. Follows(st, w, M) /\ (w.ok => w = f(d))
  BY <1>1, <1>4, <1>6, ThenFollows
<1>8. Mounted(d, at, Empty, flags, Missing, w)
  BY <1>4, <1>7 DEF Mounted
<1>9. Mounted(st, at, Empty, flags, Missing, w)
  BY <1>1, <1>8, MountedLater
<1> QED
  BY <1>3, <1>7, <1>9 DEF w, at

\* symlink mounts nothing.
LEMMA SymlinkFollows ==
    ASSUME NEW st, IsSetup(st), NEW p, IsPathname(p), NEW text, IsText(text), NEW M
    PROVE  Follows(st, symlink(st, p, text), M)
<1> DEFINE dir == Front(p)
           d == mkdirAll(st, dir)
           texts == [n \in {Last(p)} |-> text]
           f(s) == symlinks(s, dir, texts)
<1>1. Follows(st, d, M)
  BY MkdirFollows, PathnameFront
<1>2. IsSetup(d) /\ IsPathname(dir)
  BY <1>1, PathnameFront DEF Follows
<1>3. symlink(st, p, text) = Then(d, f)
  BY DEF symlink
<1>a. \A n \in DOMAIN texts : IsText(texts[n])
  OBVIOUS
<1> HIDE DEF d, dir, texts
<1>4. Follows(d, f(d), M)
  BY <1>2, <1>a, SymlinksFollow
<1> HIDE DEF f
<1>5. Then(d, f) = IF d.ok THEN f(d) ELSE d
  BY DEF Then
<1> QED
  BY <1>1, <1>3, <1>4, <1>5, ThenFollows

\* A bind, and what it comes down to when it succeeds.
LEMMA BindApplyFollows ==
    ASSUME NEW st, IsSetup(st), NEW op, IsPathname(op.target), NEW source, NEW M,
           source # Missing => IsPathname(source),
           \/ Loose(M)
           \/ source # Missing => [source |-> source, target |-> Real(st, op.target)] \in M
    PROVE  /\ Follows(st, BindApply(st, op, source), M)
           /\ source # Missing /\ BindApply(st, op, source).ok =>
                 \E s : /\ IsSetup(s) /\ s.mounts = st.mounts /\ s.host = st.host
                        /\ s.links = st.links
                        /\ BindApply(st, op, source)
                              = bindMount(s, source, op.target, BindFlags(op))
<1> DEFINE p == op.target
           d == IF st.host[source] = "dir" THEN mkdirAll(st, p) ELSE ensureFile(st, p)
           f(s) == bindMount(s, source, p, BindFlags(op))
           w == BindApply(st, op, source)
<1>1. Follows(st, d, M) /\ d.mounts = st.mounts /\ d.links = st.links
  <2>1. IsPathname(p)
    OBVIOUS
  <2> HIDE DEF p
  <2> QED
    BY <2>1, MkdirFollows, EnsureFollows
<1>2. IsSetup(d) /\ d.host = st.host
  BY <1>1 DEF Follows
<1>3. source # Missing => w = Then(d, f)
  BY DEF BindApply
<1>4. source = Missing => w = st \/ w = Fail(st)
  BY DEF BindApply
<1> HIDE DEF d, w
<1>5. Then(d, f) = IF d.ok THEN f(d) ELSE d
  <2> HIDE DEF f
  <2> QED
    BY DEF Then
<1>6. CASE source # Missing
  <2> DEFINE flags == BindFlags(op)
  <2>1. /\ IsPathname(source) /\ IsPathname(p)
        /\ Loose(M) \/ [source |-> source, target |-> Real(st, p)] \in M
    BY <1>6
  <2>2. Follows(d, f(d), M)
    <3> HIDE DEF flags, p
    <3>1. Real(d, p) = Real(st, p)
      BY <1>1, RealSame
    <3>2. Loose(M) \/ [source |-> source, target |-> Real(d, p)] \in M
      BY <2>1, <3>1
    <3>3. \A x : x = bindMount(d, source, p, flags) => Follows(d, x, M)
      BY <1>2, <1>6, <2>1, <3>2, BindMountFollows
    <3> QED
      BY <3>3 DEF flags
  <2> HIDE DEF f
  <2>3. Follows(st, w, M) /\ (w.ok => w = f(d))
    BY <1>1, <1>3, <1>5, <1>6, <2>2, ThenFollows
  <2>4. w.ok => \E s : /\ IsSetup(s) /\ s.mounts = st.mounts /\ s.host = st.host
                       /\ s.links = st.links /\ w = f(s)
    BY <1>1, <1>2, <2>3
  <2> QED
    BY <2>3, <2>4 DEF f, w
<1>7. CASE source = Missing
  <2>1. Follows(st, st, M)
    BY FollowsSelf
  <2> QED
    BY <1>4, <1>7, <2>1, FailFollows DEF w
<1> QED
  BY <1>6, <1>7

\* Marking an operation as applied mounts nothing.
LEMMA OnceFollows ==
    ASSUME NEW st, IsSetup(st), NEW name, NEW M
    PROVE  Follows(st, Once(st, name), M) /\ Once(st, name).links = st.links
<1> DEFINE n == st.nonrepeatable \cup {name}
           t == [st EXCEPT !.nonrepeatable = n]
<1>1. Once(st, name) = t \/ Once(st, name) = Fail(st)
  BY DEF Once
<1> HIDE DEF n
<1>2. IsSetup(t) /\ t.host = st.host /\ t.final = st.final /\ t.mounts = st.mounts
      /\ t.nodes = st.nodes /\ t.links = st.links
  BY DEF IsSetup
<1> HIDE DEF t
<1>3. Grown(st.mounts, t.mounts, M)
  BY <1>2, SetupLength, GrownSame
<1>4. Follows(st, t, M)
  BY <1>2, <1>3 DEF Follows
<1> QED
  BY <1>1, <1>2, <1>4, FailFollows

\* AutoRootOp one bind further.
RootStep(resolved, s, n) == IF s.ok THEN BindApply(s, resolved[n], resolved[n].final) ELSE s

\* The loop of RootApply, bind by bind.
LEMMA RootSteps ==
    ASSUME NEW st, NEW i, NEW op, IsTable(st.final[i])
    PROVE  \E f : /\ f[0] = Once(st, "autoroot")
                  /\ \A n \in 1..Len(st.final[i]) : f[n] = RootStep(st.final[i], f[n - 1], n)
                  /\ RootApply(st, i, op) = f[Len(st.final[i])]
<1> DEFINE resolved == st.final[i]
           L == Len(resolved)
           e == Once(st, "autoroot")
           apply1(s, n) == BindApply(s, resolved[n], resolved[n].final)
           step(g, n) == CHOOSE t \in {IF s.ok THEN apply1(s, n) ELSE s : s \in {g[n - 1]}} : t = t
           Run(g) == [n \in 0..L |-> IF n = 0 THEN e ELSE step(g, n)]
           F == CHOOSE g : g = Run(g)
           Solves(g, m) == /\ g = [n \in 0..m |-> g[n]] /\ g[0] = e
                           /\ \A n \in 1..m : g[n] = step(g, n)
           none == {m \in 0..L : \A g : ~Solves(g, m)}
<1>1. L \in Nat
  BY TableSeq
<1>2. RootApply(st, i, op) = F[L]
  BY DEF RootApply, Then
<1> HIDE DEF apply1, resolved
<1> HIDE DEF L, e
<1>3. ASSUME none # {} PROVE FALSE
  <2>1. PICK m \in none : \A j \in none : m <= j
    <3>1. none \in SUBSET Nat
      <4> HIDE DEF Solves
      <4> QED
        BY <1>1
    <3> HIDE DEF none
    <3> QED
      BY <1>3, <3>1, Smallest
  <2>2. m \in 0..L /\ \A g : ~Solves(g, m)
    <3> HIDE DEF Solves
    <3> QED
      BY <2>1
  <2>3. m # 0
    <3>1. Solves([n \in 0..0 |-> e], 0)
      OBVIOUS
    <3> HIDE DEF Solves
    <3> QED
      BY <2>2, <3>1
  <2>4. m - 1 \in 0..L /\ ~(m <= m - 1) /\ m \in Nat
    BY <1>1, <2>2, <2>3
  <2>5. PICK g : Solves(g, m - 1)
    <3>1. m - 1 \notin none
      <4> HIDE DEF none
      <4> QED
        BY <2>1, <2>4
    <3> HIDE DEF Solves
    <3> QED
      BY <2>4, <3>1
  <2> DEFINE h == [n \in 0..m |-> IF n = m THEN step(g, m) ELSE g[n]]
  <2>6. h[0] = e
    <3>1. 0 \in 0..m /\ 0 # m
      BY <2>3, <2>4
    <3> QED
      BY <2>5, <3>1
  <2>7. ASSUME NEW n \in 1..m PROVE h[n] = step(h, n)
    <3>1. n \in 0..m /\ n - 1 \in 0..m /\ n - 1 # m /\ h[n - 1] = g[n - 1]
      BY <2>4
    <3>2. step(h, n) = step(g, n)
      BY <3>1
    <3>3. CASE n = m
      BY <3>1, <3>2, <3>3
    <3>4. CASE n # m
      <4>1. n \in 1..(m - 1) /\ h[n] = g[n]
        BY <2>4, <3>1, <3>4
      <4> HIDE DEF step
      <4> QED
        BY <2>5, <3>2, <4>1
    <3> QED
      BY <3>3, <3>4
  <2>8. Solves(h, m)
    <3>1. h = [n \in 0..m |-> h[n]]
      OBVIOUS
    <3> HIDE DEF h, step
    <3> QED
      BY <2>6, <2>7, <3>1
  <2> HIDE DEF Solves, h
  <2> QED
    BY <2>2, <2>8
<1>4. PICK g : Solves(g, L)
  <2>1. L \in 0..L
    BY <1>1
  <2>2. L \notin none
    <3> HIDE DEF none
    <3> QED
      BY <1>3
  <2> HIDE DEF Solves
  <2> QED
    BY <2>1, <2>2
<1>5. F = Run(F)
  <2>1. g = Run(g)
    <3>1. \A n \in 0..L : n # 0 => n \in 1..L
      BY <1>1
    <3> HIDE DEF step
    <3> QED
      BY <1>4, <3>1
  <2> HIDE DEF Run
  <2> QED
    BY <2>1
<1> HIDE DEF F
<1>6. F[0] = e /\ \A n \in 1..L : F[n] = step(F, n)
  <2>1. \A n \in 0..L : Run(F)[n] = IF n = 0 THEN e ELSE step(F, n)
    <3> HIDE DEF step
    <3> QED
      OBVIOUS
  <2>2. 0 \in 0..L /\ \A n \in 1..L : n \in 0..L /\ n # 0
    BY <1>1
  <2> HIDE DEF Run, step
  <2> QED
    BY <1>5, <2>1, <2>2
<1>7. \A n \in 1..L : step(F, n) = RootStep(resolved, F[n - 1], n)
  BY DEF RootStep, apply1
<1> HIDE DEF step
<1> QED
  BY <1>2, <1>6, <1>7 DEF L, e, resolved

\* A bind of an entry of the root, as early leaves it.
IsRootBind(b) ==
    /\ IsPathname(b.target) /\ Len(b.target) = 1
    /\ b.final # Missing => IsPathname(b.final) /\ b.final \notin DOMAIN HostLinks

\* No entry of the root is a link.
Rootless(st) == \A q \in DOMAIN st.links : Len(q) # 1

\* The entries of the root are then where they seem to be.
LEMMA RootlessReal ==
    ASSUME NEW st, Rootless(st), NEW p, IsPathname(p), Len(p) = 1
    PROVE  Real(st, p) = p
<1> DEFINE S == Range(p)
<1>1. p \in Seq(S)
  BY PathnameSeq
<1> HIDE DEF S
<1>2. \A n \in 1..Len(p) : Len(SubSeq(p, 1, n)) = 1
  BY <1>1
<1>3. OnTheWay(st.links, p) = {}
  BY <1>2 DEF OnTheWay, Rootless
<1> QED
  BY <1>3, RealClear

\* A bind of one of them makes no link of it.
LEMMA RootlessBind ==
    ASSUME NEW st, IsSetup(st), Rootless(st), NEW b, IsRootBind(b), BindApply(st, b, b.final).ok
    PROVE  Rootless(BindApply(st, b, b.final))
<1> DEFINE p == b.target
           source == b.final
           flags == BindFlags(b)
           w == BindApply(st, b, source)
           M == {<< >>}
<1>1. Loose(M)
  BY DEF Loose
<1>2. IsPathname(p) /\ Len(p) = 1 /\ (source # Missing => IsPathname(source) /\ source \notin DOMAIN HostLinks)
  BY DEF IsRootBind
<1>3. CASE source = Missing
  <2>1. w = st \/ w = Fail(st)
    BY <1>3 DEF BindApply
  <2>2. Fail(st).links = st.links
    BY FailFollows
  <2>3. w.links = st.links
    BY <2>1, <2>2
  <2> HIDE DEF w, source
  <2> QED
    BY <2>3 DEF Rootless, w, source
<1>4. CASE source # Missing
  <2> HIDE DEF M
  <2>1. PICK s : /\ IsSetup(s) /\ s.links = st.links /\ w = bindMount(s, source, p, flags)
    BY <1>1, <1>2, <1>4, BindApplyFollows
  <2>2. Real(s, p) = p
    <3>1. Rootless(s)
      BY <2>1 DEF Rootless
    <3> HIDE DEF p
    <3> QED
      BY <1>2, <3>1, RootlessReal
  <2>3. w.ok
    OBVIOUS
  <2> HIDE DEF w, source, p, flags
  <2>4. BoundLinks(s.links, w.links, p, source)
    BY <1>1, <1>2, <1>4, <2>1, <2>2, <2>3, BindMountFollows
  <2>5. ASSUME NEW q \in DOMAIN w.links PROVE Len(q) # 1
    <3>1. CASE q \in DOMAIN s.links
      BY <2>1, <3>1 DEF Rootless
    <3>2. CASE q \notin DOMAIN s.links
      <4>1. PICK x : IsPathname(x) /\ q = p \o x /\ x # << >>
        BY <1>2, <1>4, <2>4, <3>2 DEF BoundLinks
      <4>2. Len(x) \in Nat /\ Len(x) # 0
        <5> DEFINE S == Range(x)
        <5>1. x \in Seq(S)
          BY <4>1, PathnameSeq
        <5> HIDE DEF S
        <5> QED
          BY <4>1, <5>1
      <4>3. Len(q) = Len(p) + Len(x)
        BY <1>2, <4>1, ConcatTail
      <4> QED
        BY <1>2, <4>2, <4>3
    <3> QED
      BY <3>1, <3>2
  <2> QED
    BY <2>5 DEF Rootless, w, source
<1> QED
  BY <1>3, <1>4

\* AutoRootOp makes its binds one after another.
LEMMA RootApplyFollows ==
    ASSUME NEW st, IsSetup(st), NEW i, NEW op, IsTable(st.final[i]),
           \A n \in DOMAIN st.final[i] : IsRootBind(st.final[i][n]), NEW M,
           \/ Loose(M)
           \/ /\ Rootless(st)
              /\ \A n \in DOMAIN st.final[i] :
                    [source |-> st.final[i][n].final, target |-> st.final[i][n].target] \in M
    PROVE  Follows(st, RootApply(st, i, op), M)
<1> DEFINE resolved == st.final[i]
           L == Len(resolved)
           Strict == ~Loose(M)
           Good(s) == Follows(st, s, M) /\ (Strict /\ s.ok => Rootless(s))
<1>1. PICK f : /\ f[0] = Once(st, "autoroot")
               /\ \A n \in 1..L : f[n] = RootStep(resolved, f[n - 1], n)
               /\ RootApply(st, i, op) = f[L]
  BY RootSteps
<1> DEFINE P == [n \in 0..L |-> Good(f[n])]
<1>2. L \in Nat /\ DOMAIN resolved = 1..L
  BY TableSeq
<1>3. \A n \in 1..L :
         /\ IsRootBind(resolved[n])
         /\ Strict => [source |-> resolved[n].final, target |-> resolved[n].target] \in M
  BY <1>2
<1>4. P[0]
  <2>1. 0 \in 0..L /\ Follows(st, f[0], M) /\ f[0].links = st.links
    BY <1>1, <1>2, OnceFollows
  <2>2. Strict => Rootless(st)
    OBVIOUS
  <2> HIDE DEF Strict, L
  <2>3. Good(f[0])
    BY <2>1, <2>2 DEF Rootless
  <2> QED
    BY <2>1, <2>3
<1> HIDE DEF L, resolved, Strict
<1>5. ASSUME NEW n \in 1..L, P[n - 1] PROVE P[n]
  <2>1. n - 1 \in 0..L /\ n \in 0..L
    BY <1>2
  <2> DEFINE x == f[n - 1]
             b == resolved[n]
             y == BindApply(x, b, b.final)
             d == [source |-> b.final, target |-> b.target]
  <2>2. Follows(st, x, M) /\ (Strict /\ x.ok => Rootless(x))
    BY <1>5, <2>1
  <2>3. f[n] = IF x.ok THEN y ELSE x
    BY <1>1 DEF RootStep
  <2>4. IsRootBind(b) /\ (Strict => d \in M)
    BY <1>3
  <2>5. IsSetup(x)
    BY <2>2 DEF Follows
  <2> HIDE DEF x, b
  <2>6. CASE x.ok
    <3>1. IsPathname(b.target) /\ Len(b.target) = 1 /\ (b.final # Missing => IsPathname(b.final))
      BY <2>4 DEF IsRootBind
    <3>2. Strict => Real(x, b.target) = b.target
      <4> DEFINE p == b.target
      <4> HIDE DEF p
      <4>1. IsPathname(p) /\ Len(p) = 1
        BY <3>1 DEF p
      <4> QED
        BY <2>2, <2>6, <4>1, RootlessReal DEF p
    <3>3. Loose(M) \/ [source |-> b.final, target |-> Real(x, b.target)] \in M
      <4>1. CASE Strict
        BY <2>4, <3>2, <4>1
      <4>2. CASE ~Strict
        BY <4>2 DEF Strict
      <4> QED
        BY <4>1, <4>2
    <3>4. Follows(x, y, M)
      BY <2>5, <3>1, <3>3, BindApplyFollows
    <3>5. Strict /\ y.ok => Rootless(y)
      BY <2>2, <2>4, <2>5, <2>6, RootlessBind
    <3> HIDE DEF y
    <3>6. Follows(st, y, M)
      BY <2>2, <3>4, FollowsTrans
    <3>7. Good(f[n])
      BY <2>3, <2>6, <3>5, <3>6
    <3> QED
      BY <2>1, <3>7
  <2>7. CASE ~x.ok
    <3>1. Good(f[n])
      BY <2>2, <2>3, <2>7
    <3> QED
      BY <2>1, <3>1
  <2> QED
    BY <2>6, <2>7
<1>6. P \in [0..L -> BOOLEAN]
  BY DEF Follows
<1>7. \A n \in 0..L : P[n]
  <2> HIDE DEF P
  <2> QED
    BY <1>2, <1>4, <1>5, <1>6, Climb
<1>8. L \in 0..L
  BY <1>2
<1> QED
  BY <1>1, <1>7, <1>8

\* AutoEtcOp only makes a directory and links.
LEMMA EtcApplyFollows ==
    ASSUME NEW st, IsSetup(st), NEW op, NEW M
    PROVE  Follows(st, EtcApply(st, op), M)
<1> DEFINE o == Once(st, "autoetc")
           etc == << "etc" >>
           f(s) == mkdirAll(s, etc)
           made == Then(o, f)
           g(s) == symlinks(s, etc, EtcLinks(s, op))
           t == Then(made, g)
           w == EtcApply(st, op)
<1>0. IsPathname(etc)
  <2>1. etc \in Seq({"etc"})
    OBVIOUS
  <2> QED
    BY <2>1, SeqPathname
<1>1. Follows(st, o, M) /\ (IsSetup(o) => Follows(o, f(o), M))
  <2>1. Follows(st, o, M)
    BY OnceFollows
  <2> HIDE DEF o, etc
  <2> QED
    BY <1>0, <2>1, MkdirFollows
<1>2. w = Fail(made) \/ w = t
  BY DEF EtcApply
<1>3. ASSUME NEW s, IsSetup(s) PROVE Follows(s, g(s), M)
  <2> DEFINE texts == EtcLinks(s, op)
  <2>1. ASSUME NEW n \in DOMAIN texts PROVE IsText(texts[n])
    <3> DEFINE a == << "proc", "mounts" >>
               b == << ".host", op.prefix, n >>
    <3>1. a \in Seq({"proc", "mounts"}) /\ b \in Seq({".host", op.prefix, n})
      OBVIOUS
    <3>2. IsPathname(a) /\ IsPathname(b)
      BY <3>1, SeqPathname
    <3>3. \/ texts[n] = [abs |-> TRUE, up |-> 0, down |-> a]
          \/ texts[n] = [abs |-> FALSE, up |-> 0, down |-> b]
      BY DEF EtcLinks
    <3> HIDE DEF a, b, texts
    <3> QED
      BY <3>2, <3>3 DEF IsText
  <2> HIDE DEF texts, etc
  <2> QED
    BY <1>0, <1>3, <2>1, SymlinksFollow DEF texts
<1> HIDE DEF o, f, g, w
<1>4. made = IF o.ok THEN f(o) ELSE o
  BY DEF Then
<1> HIDE DEF made
<1>5. t = IF made.ok THEN g(made) ELSE made
  BY DEF Then
<1> HIDE DEF t
<1>6. Follows(st, made, M) /\ IsSetup(made)
  BY <1>1, <1>4, ThenFollows
<1>7. Follows(st, t, M)
  BY <1>3, <1>5, <1>6, ThenFollows
<1>8. Follows(st, Fail(made), M)
  BY <1>6, FailFollows, FollowsTrans
<1> QED
  BY <1>2, <1>7, <1>8 DEF w

\* The one mount an operation makes is described in M.
MadeHere(st, source, p, M) == Loose(M) \/ [source |-> source, target |-> Real(st, p)] \in M

\* A directory is made and something mounted there.
MkdirThenMount(st, p, content, flags) ==
    Then(mkdirAll(st, p), LAMBDA s : mount(s, p, content, flags, Missing))

\* It makes one mount.
LEMMA MkdirMount ==
    ASSUME NEW st, IsSetup(st), NEW p, IsPathname(p), NEW content, IsContent(content),
           NEW flags, NEW M, MadeHere(st, Missing, p, M)
    PROVE  Follows(st, MkdirThenMount(st, p, content, flags), M)
<1> DEFINE d == mkdirAll(st, p)
           f(s) == mount(s, p, content, flags, Missing)
           t == MkdirThenMount(st, p, content, flags)
<1>1. t = Then(d, f)
  BY DEF MkdirThenMount
<1>2. Follows(st, d, M) /\ d.links = st.links
  BY MkdirFollows
<1>3. IsSetup(d)
  BY <1>2 DEF Follows
<1> HIDE DEF d, t
<1>4. Loose(M) \/ [source |-> Missing, target |-> Real(d, p)] \in M
  BY <1>2, RealSame DEF MadeHere
<1>5. Follows(d, f(d), M)
  BY <1>3, <1>4, MountFollows
<1> HIDE DEF f
<1>6. t = IF d.ok THEN f(d) ELSE d
  BY <1>1 DEF Then
<1>7. Follows(st, t, M)
  BY <1>2, <1>5, <1>6, ThenFollows
<1> QED
  BY <1>7 DEF t

\* MountOverlayOp makes one mount.
LEMMA OverlayApplyFollows ==
    ASSUME NEW st, IsSetup(st), NEW op, IsPathname(op.target),
           NEW M, MadeHere(st, Missing, op.target, M)
    PROVE  Follows(st, OverlayApply(st, op), M)
<1> DEFINE readonly == op.upper = Missing
           layers == ToSet(op.lower) \cup (IF op.upper \in {Missing, << >>} THEN {} ELSE {op.upper})
           dirs == {evalSymlinks(st, q) : q \in layers} \ {Missing}
           trees == {HostTree(st, p) : p \in dirs}
           names == UNION {DOMAIN t.nodes : t \in trees}
           layer(q) == CHOOSE t \in trees : q \in DOMAIN t.nodes
           nodes == [q \in names |-> layer(q).nodes[q]]
           linked == {n \in names : n \in DOMAIN layer(n).links}
           links == [q \in linked |-> layer(q).links[q]]
           content == [nodes |-> nodes, links |-> links]
           p == op.target
           flags == IF readonly THEN {"ro"} ELSE {}
           d == mkdirAll(st, p)
           t == MkdirThenMount(st, p, content, flags)
           w == OverlayApply(st, op)
<1>1. IsPathname(p) /\ MadeHere(st, Missing, p, M)
  OBVIOUS
<1>2. IsContent(content)
  <2> HIDE DEF layers
  <2>1. ASSUME NEW x \in dirs PROVE IsPathname(x)
    BY DEF evalSymlinks, IsSetup
  <2> HIDE DEF dirs
  <2>2. \A u \in trees : IsContent(u)
    BY <2>1, HostTreeNames
  <2> HIDE DEF trees
  <2>3. \A q \in names : layer(q) \in trees /\ q \in DOMAIN layer(q).nodes
    OBVIOUS
  <2> HIDE DEF layer
  <2>4. \A q \in names : IsPathname(q)
    BY <2>2, <2>3 DEF IsContent
  <2> HIDE DEF names
  <2>5. \A q \in linked : q \in names /\ q \in DOMAIN layer(q).links
    OBVIOUS
  <2> HIDE DEF linked
  <2>6. \A q \in linked : IsPathname(q) /\ IsText(layer(q).links[q])
    BY <2>2, <2>3, <2>4, <2>5 DEF IsContent
  <2>7. /\ \A q \in DOMAIN nodes : IsPathname(q)
        /\ \A q \in DOMAIN links : IsPathname(q) /\ IsText(links[q])
    BY <2>4, <2>6
  <2>8. content.nodes = nodes /\ content.links = links
    OBVIOUS
  <2> HIDE DEF nodes, links, content
  <2> QED
    BY <2>7, <2>8 DEF IsContent
<1>3. w = Fail(d) \/ w = t
  BY DEF OverlayApply, MkdirThenMount
<1> HIDE DEF content, flags, p, w
<1>4. Follows(st, d, M)
  BY <1>1, MkdirFollows
<1>5. IsSetup(d)
  BY <1>4 DEF Follows
<1>6. Follows(st, t, M)
  BY <1>1, <1>2, MkdirMount
<1> HIDE DEF d, t
<1>7. Follows(st, Fail(d), M)
  BY <1>4, <1>5, FailFollows, FollowsTrans
<1> QED
  BY <1>3, <1>6, <1>7 DEF w

\* A device of the host bound over a file that is made for it.
Device(st, p, source) == Then(ensureFile(st, p), LAMBDA t : bindMount(t, source, p, {}))

\* A device node of the host is bound to a file of its own.
LEMMA DeviceFollows ==
    ASSUME NEW st, IsSetup(st), NEW p, IsPathname(p), NEW source, IsPathname(source),
           NEW M, MadeHere(st, source, p, M)
    PROVE  /\ Follows(st, Device(st, p, source), M)
           /\ Device(st, p, source).ok =>
                 BoundLinks(st.links, Device(st, p, source).links, Real(st, p), source)
<1> DEFINE flags == {}
           d == ensureFile(st, p)
           f(t) == bindMount(t, source, p, flags)
           at == Real(st, p)
<1>1. Follows(st, d, M) /\ d.links = st.links
  BY EnsureFollows
<1>2. IsSetup(d)
  BY <1>1 DEF Follows
<1>3. Device(st, p, source) = Then(d, f)
  BY DEF Device
<1>4. "rec" \notin flags
  OBVIOUS
<1> HIDE DEF d, flags
<1>5. Follows(d, f(d), M) /\ (f(d).ok => BoundLinks(d.links, f(d).links, at, source))
  <2> DEFINE w == f(d)
  <2>1. w = bindMount(d, source, p, flags) /\ at = Real(d, p)
    BY <1>1, RealSame
  <2>2. Loose(M) \/ [source |-> source, target |-> Real(d, p)] \in M
    BY <2>1 DEF MadeHere
  <2> HIDE DEF w, at
  <2>3. Follows(d, w, M) /\ (w.ok => BoundLinks(d.links, w.links, at, source))
    BY <1>2, <1>4, <2>1, <2>2, BindMountFollows
  <2> QED
    BY <2>3 DEF w
<1> HIDE DEF f, at
<1>6. Then(d, f) = IF d.ok THEN f(d) ELSE d
  BY DEF Then
<1> DEFINE t == Then(d, f)
<1> HIDE DEF t
<1>7. Follows(st, t, M) /\ (t.ok => t = f(d))
  BY <1>1, <1>5, <1>6, ThenFollows DEF t
<1> QED
  BY <1>1, <1>3, <1>5, <1>7 DEF t, at

\* The mounts of MountDevOp.
DevMade(target) ==
    {[source |-> Missing, target |-> target],
     [source |-> << "dev", "null" >>, target |-> Append(target, "null")],
     [source |-> Missing, target |-> Append(target, "pts")],
     [source |-> << "dev", "tty" >>, target |-> Append(target, "console")],
     [source |-> Missing, target |-> Append(target, "mqueue")],
     [source |-> Missing, target |-> Append(target, "shm")]}

\* No link is on the way to T, and those below T are below the names Z in it.
DevLinks(links, T, Z) ==
    /\ OnTheWay(links, T) = {}
    /\ \A q \in DOMAIN links : Under(q, T) => Len(q) > Len(T) /\ q[Len(T) + 1] \in Z

\* The other names in T are what they seem to be.
LEMMA DevReal ==
    ASSUME NEW st, NEW T, IsPathname(T), NEW Z, DevLinks(st.links, T, Z), NEW name, name \notin Z,
           NEW p, p = Append(T, name)
    PROVE  Real(st, T) = T /\ Real(st, p) = p
<1>0. Real(st, T) = T
  BY RealClear DEF DevLinks
<1> DEFINE A == Append(T, name)
           R == Range(T) \cup {name}
<1>1. T \in Seq(Range(T)) /\ Len(T) \in Nat
  BY PathnameSeq
<1>2. T \in Seq(R) /\ name \in R
  <2> DEFINE D == Range(T)
  <2>1. T \in Seq(D) /\ D \subseteq R
    BY <1>1
  <2> HIDE DEF D, R
  <2>2. T \in Seq(R)
    BY <2>1
  <2> QED
    BY <2>2 DEF R
<1> HIDE DEF R
<1>3. /\ A \in Seq(R) /\ Len(A) = Len(T) + 1 /\ A[Len(T) + 1] = name
      /\ \A n \in 1..Len(T) : A[n] = T[n]
  BY <1>1, <1>2
<1>4. Under(A, T)
  BY PathnameAppend
<1> HIDE DEF A
<1>5. ASSUME NEW n \in OnTheWay(st.links, A) PROVE FALSE
  <2>1. n \in 1..Len(A) /\ SubSeq(A, 1, n) \in DOMAIN st.links
    BY <1>5 DEF OnTheWay
  <2>2. CASE n <= Len(T)
    <3>1. n \in 1..Len(T)
      BY <1>1, <1>3, <2>1, <2>2
    <3>2. SubSeq(A, 1, n) = SubSeq(T, 1, n)
      BY <1>1, <1>2, <1>3, <3>1
    <3>3. n \in OnTheWay(st.links, T)
      BY <2>1, <3>1, <3>2 DEF OnTheWay
    <3> QED
      BY <3>3 DEF DevLinks
  <2>3. CASE n > Len(T)
    <3>1. n = Len(A)
      BY <1>1, <1>3, <2>1, <2>3
    <3>2. SubSeq(A, 1, n) = A
      BY <1>3, <3>1
    <3> QED
      BY <1>3, <1>4, <2>1, <3>2 DEF DevLinks
  <2> QED
    BY <1>1, <1>3, <2>1, <2>2, <2>3
<1>6. OnTheWay(st.links, A) = {}
  BY <1>5
<1> QED
  BY <1>0, <1>6, RealClear DEF A

\* Links that come below other names in T.
LEMMA DevGrow ==
    ASSUME NEW T, IsPathname(T), NEW old, NEW new, NEW Z, NEW Y, Z \subseteq Y,
           DevLinks(old, T, Z),
           \A q \in DOMAIN new :
              q \in DOMAIN old \/ \E z \in Y : \E x : IsPathname(x) /\ q = Append(T, z) \o x
    PROVE  DevLinks(new, T, Y)
<1>1. Len(T) \in Nat /\ T \in Seq(Range(T))
  BY PathnameSeq
<1>2. ASSUME NEW q, NEW z \in Y, NEW x, IsPathname(x), q = Append(T, z) \o x
      PROVE  Len(q) > Len(T) /\ q[Len(T) + 1] = z
  <2> DEFINE A == Append(T, z)
             R == Range(T)
             X == Range(x)
             W == R \cup {z}
             U == W \cup X
  <2>1. T \in Seq(R) /\ x \in Seq(X) /\ Len(x) \in Nat
    BY <1>1, <1>2, PathnameSeq
  <2> HIDE DEF R, X
  <2>2. T \in Seq(W) /\ z \in W
    BY <2>1
  <2> HIDE DEF W
  <2>3. A \in Seq(W) /\ Len(A) = Len(T) + 1 /\ A[Len(T) + 1] = z
    BY <1>1, <2>2
  <2>4. q = A \o x
    BY <1>2
  <2> HIDE DEF A
  <2>5. A \in Seq(U) /\ x \in Seq(U)
    BY <2>1, <2>3
  <2> HIDE DEF U
  <2>6. Len(q) = Len(A) + Len(x) /\ \A n \in 1..Len(A) : q[n] = A[n]
    BY <2>4, <2>5
  <2>7. Len(T) + 1 \in 1..Len(A)
    BY <1>1, <2>3
  <2> QED
    BY <1>1, <2>1, <2>3, <2>6, <2>7
<1>3. ASSUME NEW n \in OnTheWay(new, T) PROVE FALSE
  <2> DEFINE q == SubSeq(T, 1, n)
  <2>1. n \in 1..Len(T) /\ q \in DOMAIN new
    BY <1>3 DEF OnTheWay
  <2>2. Len(q) = n
    <3> DEFINE R == Range(T)
    <3>1. T \in Seq(R)
      BY <1>1
    <3> HIDE DEF R
    <3> QED
      BY <1>1, <2>1, <3>1
  <2>3. q \notin DOMAIN old
    BY <2>1 DEF DevLinks, OnTheWay
  <2> HIDE DEF q
  <2>4. Len(q) > Len(T)
    BY <1>2, <2>1, <2>3
  <2> QED
    BY <1>1, <2>1, <2>2, <2>4
<1>4. ASSUME NEW q \in DOMAIN new, Under(q, T) PROVE Len(q) > Len(T) /\ q[Len(T) + 1] \in Y
  BY <1>2, <1>4 DEF DevLinks
<1>5. OnTheWay(new, T) = {}
  BY <1>3
<1> QED
  BY <1>4, <1>5 DEF DevLinks

\* The state s is on the way of MountDevOp: new links are below Z in T.
DevStage(st, s, T, Z, M) ==
    /\ Follows(st, s, M)
    /\ s.ok => Loose(M) \/ DevLinks(s.links, T, Z)

\* One stage after another.
LEMMA DevThen ==
    ASSUME NEW st, IsSetup(st), NEW T, NEW Z, NEW Y, NEW M, NEW x, NEW y, NEW t,
           DevStage(st, x, T, Z, M), t = IF x.ok THEN y ELSE x,
           IsSetup(x) /\ (Loose(M) \/ DevLinks(x.links, T, Z)) => DevStage(x, y, T, Y, M)
    PROVE  DevStage(st, t, T, Y, M) /\ IsSetup(t)
<1>1. Follows(st, x, M) /\ IsSetup(x)
  BY DEF DevStage, Follows
<1>2. CASE x.ok
  <2>1. DevStage(x, y, T, Y, M) /\ t = y
    BY <1>1, <1>2 DEF DevStage
  <2>2. Follows(x, y, M)
    BY <2>1 DEF DevStage
  <2>3. Follows(st, y, M)
    BY <1>1, <2>2, FollowsTrans
  <2>4. IsSetup(y)
    BY <2>3 DEF Follows
  <2> QED
    BY <2>1, <2>3, <2>4 DEF DevStage
<1>3. CASE ~x.ok
  BY <1>1, <1>3 DEF DevStage
<1> QED
  BY <1>2, <1>3

\* Directories in the tmpfs.
LEMMA DevMake ==
    ASSUME NEW T, IsPathname(T), NEW name, NEW kind, NEW Z, NEW M, NEW s, IsSetup(s),
           Loose(M) \/ DevLinks(s.links, T, Z)
    PROVE  DevStage(s, Create(s, Append(T, name), kind), T, Z, M)
<1> DEFINE p == Append(T, name)
           w == Create(s, p, kind)
<1>1. IsPathname(p)
  BY PathnameAppend
<1> HIDE DEF p
<1>2. Follows(s, w, M) /\ w.links = s.links
  BY <1>1, CreateFollows
<1> HIDE DEF w
<1>3. DevStage(s, w, T, Z, M)
  BY <1>2 DEF DevStage
<1> QED
  BY <1>3 DEF p, w

\* File systems mounted in it.
LEMMA DevMount ==
    ASSUME NEW T, IsPathname(T), NEW name, NEW flags, NEW Z, name \notin Z, NEW M,
           Loose(M) \/ [source |-> Missing, target |-> Append(T, name)] \in M,
           NEW s, IsSetup(s), Loose(M) \/ DevLinks(s.links, T, Z)
    PROVE  DevStage(s, mount(s, Append(T, name), Empty, flags, Missing), T, Z, M)
<1> DEFINE p == Append(T, name)
           w == mount(s, p, Empty, flags, Missing)
           at == Real(s, p)
<1>1. IsPathname(p) /\ p = Append(T, name)
  BY PathnameAppend
<1> HIDE DEF p
<1>2. Loose(M) \/ at = p
  <2>1. ASSUME DevLinks(s.links, T, Z) PROVE Real(s, p) = p
    BY <1>1, <2>1, DevReal, ZenonT(30)
  <2> QED
    BY <2>1
<1>3. Loose(M) \/ [source |-> Missing, target |-> at] \in M
  BY <1>1, <1>2
<1>4. Follows(s, w, M) /\ Mounted(s, at, Empty, flags, Missing, w)
  BY <1>1, <1>3, EmptyNames, MountFollows
<1> HIDE DEF w, at
<1>5. w.ok => \A q \in DOMAIN w.links : q \in DOMAIN s.links
  BY <1>4, EmptyNames DEF Mounted
<1>6. w.ok => Loose(M) \/ DevLinks(w.links, T, Z)
  BY <1>5, DevGrow
<1>7. DevStage(s, w, T, Z, M)
  BY <1>4, <1>6 DEF DevStage
<1> QED
  BY <1>7 DEF w, p

\* Device nodes bound in it.
LEMMA DevNode ==
    ASSUME NEW T, IsPathname(T), NEW name, NEW source, IsPathname(source), NEW Z, name \notin Z,
           NEW Y, Z \subseteq Y, name \in Y, NEW M,
           Loose(M) \/ [source |-> source, target |-> Append(T, name)] \in M,
           NEW s, IsSetup(s), Loose(M) \/ DevLinks(s.links, T, Z)
    PROVE  DevStage(s, Device(s, Append(T, name), source), T, Y, M)
<1> DEFINE p == Append(T, name)
           w == Device(s, p, source)
           at == Real(s, p)
<1>1. IsPathname(p) /\ p = Append(T, name)
  BY PathnameAppend
<1> HIDE DEF p
<1>2. Loose(M) \/ at = p
  <2>1. ASSUME DevLinks(s.links, T, Z) PROVE Real(s, p) = p
    BY <1>1, <2>1, DevReal, ZenonT(30)
  <2> QED
    BY <2>1
<1>3. MadeHere(s, source, p, M)
  BY <1>1, <1>2 DEF MadeHere
<1>4. Follows(s, w, M) /\ (w.ok => BoundLinks(s.links, w.links, at, source))
  BY <1>1, <1>3, DeviceFollows
<1> HIDE DEF w, at
<1>5. ASSUME w.ok, ~Loose(M) PROVE DevLinks(w.links, T, Y)
  <2>1. ASSUME NEW q \in DOMAIN w.links
        PROVE  q \in DOMAIN s.links \/ \E z \in Y : \E x : IsPathname(x) /\ q = Append(T, z) \o x
    <3>1. q \in DOMAIN s.links \/ \E x : IsPathname(x) /\ q = p \o x
      BY <1>2, <1>4, <1>5 DEF BoundLinks
    <3> QED
      BY <3>1 DEF p
  <2> QED
    BY <1>5, <2>1, DevGrow
<1>6. DevStage(s, w, T, Y, M)
  BY <1>4, <1>5 DEF DevStage
<1> QED
  BY <1>6 DEF w, p

\* A link in it.
LEMMA DevLink ==
    ASSUME NEW T, IsPathname(T), NEW texts, \A n \in DOMAIN texts : IsText(texts[n]),
           NEW Z, NEW Y, Z \subseteq Y, DOMAIN texts \subseteq Y, NEW M,
           NEW s, IsSetup(s), Loose(M) \/ DevLinks(s.links, T, Z)
    PROVE  DevStage(s, symlinks(s, T, texts), T, Y, M)
<1> DEFINE w == symlinks(s, T, texts)
           real == Real(s, T)
<1>3. /\ Follows(s, w, M)
      /\ \A q \in DOMAIN w.links :
            q \in DOMAIN s.links \/ \E n \in DOMAIN texts : q = Append(real, n)
  BY SymlinksFollow
<1>4. Loose(M) \/ real = T
  BY RealClear DEF DevLinks
<1> HIDE DEF w, real
<1>5. ASSUME ~Loose(M) PROVE DevLinks(w.links, T, Y)
  <2>1. ASSUME NEW q \in DOMAIN w.links, q \notin DOMAIN s.links
        PROVE  \E z \in Y : \E x : IsPathname(x) /\ q = Append(T, z) \o x
    <3>1. PICK n \in DOMAIN texts : q = Append(T, n)
      BY <1>3, <1>4, <1>5, <2>1
    <3>2. << >> \in Seq({})
      OBVIOUS
    <3>3. IsPathname(<< >>)
      BY <3>2, SeqPathname
    <3>4. q = q \o << >>
      <4> DEFINE R == Range(q)
      <4>1. q \in Seq(R)
        BY <3>1, PathnameAppend, PathnameSeq
      <4> HIDE DEF R
      <4> QED
        BY <4>1
    <3> QED
      BY <3>1, <3>3, <3>4
  <2> QED
    BY <1>5, <2>1, DevGrow
<1>6. DevStage(s, w, T, Y, M)
  BY <1>3, <1>5 DEF DevStage
<1> QED
  BY <1>6 DEF w

\* MountDevOp: the tmpfs, its nodes and the mounts in it, then the remount.
LEMMA DevApplyFollows ==
    ASSUME NEW st, IsSetup(st), NEW op, IsPathname(op.target), NEW M,
           Loose(M) \/ (OnTheWay(st.links, op.target) = {} /\ M = DevMade(op.target))
    PROVE  Follows(st, DevApply(st, op), M)
<1> DEFINE T == op.target
           at(name) == Append(op.target, name)
           null == << "dev", "null" >>
           term == << "dev", "tty" >>
           node(s) == Device(s, at("null"), null)
           text(n) == [abs |-> TRUE, up |-> 0, down |-> << "proc", "self", "fd" >>]
           fd(s) == symlinks(s, op.target, [n \in {"fd"} |-> text(n)])
           shm(s) == Create(s, at("shm"), "dir")
           ptsdir(s) == Create(s, at("pts"), "dir")
           dirs(s) == Then(shm(s), ptsdir)
           pts(s) == mount(s, at("pts"), Empty, {"nosuid", "noexec"}, Missing)
           tty(s) == Device(s, at("console"), term)
           console(s) == IF RetainSession THEN tty(s) ELSE s
           mqdir(s) == Create(s, at("mqueue"), "dir")
           mqmount(s) == mount(s, at("mqueue"), Empty, {"nosuid", "noexec", "nodev"}, Missing)
           mqueue(s) == IF op.mqueue THEN Then(mqdir(s), mqmount) ELSE s
           ro(s) == remountPath(s, op.target, {"ro"})
           top(s) == mountTmpfs(s, at("shm"), {"nosuid", "nodev"})
           seal(s) == IF op.write THEN s ELSE Then(ro(s), top)
           t1 == mountTmpfs(st, op.target, {"nosuid", "nodev"})
           t2 == Then(t1, node)
           t3 == Then(t2, fd)
           t4 == Then(t3, dirs)
           t5 == Then(t4, pts)
           t6 == Then(t5, console)
           t7 == Then(t6, mqueue)
           t8 == Then(t7, seal)
           Za == {}
           Zb == {"null"}
           Zc == {"null", "fd"}
           Zd == {"null", "fd", "console"}
           Clear(s, Z) == Loose(M) \/ DevLinks(s.links, T, Z)
           In(name, source) == Loose(M) \/ [source |-> source, target |-> Append(T, name)] \in M
<1>1. DevApply(st, op) = t8
  BY DEF DevApply, Device
<1>2. \A s, Z : IsSetup(s) /\ Clear(s, Z) => DevStage(s, s, T, Z, M)
  BY FollowsSelf DEF DevStage
<1>3. /\ In("null", null) /\ In("console", term)
      /\ In("pts", Missing) /\ In("mqueue", Missing) /\ In("shm", Missing)
      /\ Loose(M) \/ [source |-> Missing, target |-> T] \in M
  BY DEF DevMade
<1>4. IsPathname(null) /\ IsPathname(term) /\ IsPathname(T)
  <2>1. << "dev", "null" >> \in Seq({"dev", "null"}) /\ << "dev", "tty" >> \in Seq({"dev", "tty"})
    OBVIOUS
  <2> QED
    BY <2>1, SeqPathname
<1>5. /\ "null" \notin Za /\ "console" \notin Zc /\ "pts" \notin Zc
      /\ "mqueue" \notin Zd /\ "shm" \notin Zd
      /\ Za \subseteq Zb /\ Zb \subseteq Zc /\ Zc \subseteq Zd /\ "null" \in Zb /\ "console" \in Zd
      /\ {"fd"} \subseteq Zc
  OBVIOUS
<1> HIDE DEF Za, Zb, Zc, Zd, null, term
<1>6. ASSUME NEW s, IsSetup(s), Clear(s, Za) PROVE DevStage(s, node(s), T, Zb, M)
  <2>1. node(s) = Device(s, Append(T, "null"), null)
    OBVIOUS
  <2> HIDE DEF node, T
  <2> QED
    BY <1>3, <1>4, <1>5, <1>6, <2>1, DevNode
<1>7. ASSUME NEW s, IsSetup(s), Clear(s, Zb) PROVE DevStage(s, fd(s), T, Zc, M)
  <2> DEFINE texts == [n \in {"fd"} |-> text(n)]
             down == << "proc", "self", "fd" >>
  <2>1. fd(s) = symlinks(s, T, texts)
    OBVIOUS
  <2>2. DOMAIN texts \subseteq Zc
    BY <1>5
  <2>3. \A n \in DOMAIN texts : texts[n].up = 0 /\ texts[n].down = down
    OBVIOUS
  <2>4. IsPathname(down)
    <3>1. down \in Seq({"proc", "self", "fd"})
      OBVIOUS
    <3> QED
      BY <3>1, SeqPathname
  <2> HIDE DEF fd, T, texts, down
  <2>5. \A n \in DOMAIN texts : IsText(texts[n])
    BY <2>3, <2>4 DEF IsText
  <2> QED
    BY <1>4, <1>5, <1>7, <2>1, <2>2, <2>5, DevLink
<1>8. ASSUME NEW s, IsSetup(s), Clear(s, Zc) PROVE DevStage(s, dirs(s), T, Zc, M)
  <2> DEFINE x == shm(s)
  <2>1. DevStage(s, x, T, Zc, M)
    BY <1>4, <1>8, DevMake
  <2>2. IsSetup(x) /\ (Loose(M) \/ DevLinks(x.links, T, Zc)) => DevStage(x, ptsdir(x), T, Zc, M)
    <3> DEFINE kind == "dir"
               name == "pts"
    <3>1. ptsdir(x) = Create(x, Append(T, name), kind)
      OBVIOUS
    <3> HIDE DEF x, kind, name, T, ptsdir
    <3> QED
      BY <1>4, <3>1, DevMake
  <2> HIDE DEF x, ptsdir
  <2>3. Then(x, ptsdir) = IF x.ok THEN ptsdir(x) ELSE x
    BY DEF Then
  <2> DEFINE t == Then(x, ptsdir)
  <2>4. t = dirs(s)
    BY DEF x
  <2> HIDE DEF t, dirs, T
  <2> QED
    BY <1>8, <2>1, <2>2, <2>3, <2>4, DevThen DEF t
<1>9. ASSUME NEW s, IsSetup(s), Clear(s, Zc) PROVE DevStage(s, pts(s), T, Zc, M)
  <2> DEFINE flags == {"nosuid", "noexec"}
  <2>1. pts(s) = mount(s, Append(T, "pts"), Empty, flags, Missing)
    OBVIOUS
  <2> HIDE DEF flags, pts, T
  <2> QED
    BY <1>3, <1>4, <1>5, <1>9, <2>1, DevMount
<1>10. ASSUME NEW s, IsSetup(s), Clear(s, Zc) PROVE DevStage(s, console(s), T, Zd, M)
  <2>1. tty(s) = Device(s, Append(T, "console"), term)
    OBVIOUS
  <2>2. console(s) = tty(s) \/ console(s) = s
    OBVIOUS
  <2> HIDE DEF tty, console, T
  <2>3. DevStage(s, tty(s), T, Zd, M)
    BY <1>3, <1>4, <1>5, <1>10, <2>1, DevNode
  <2>4. Clear(s, Zd)
    <3>1. \A q \in DOMAIN s.links : q \in DOMAIN s.links
      OBVIOUS
    <3> QED
      BY <1>4, <1>5, <1>10, <3>1, DevGrow
  <2>5. DevStage(s, s, T, Zd, M)
    BY <1>2, <1>10, <2>4
  <2> QED
    BY <2>2, <2>3, <2>5
<1>11. ASSUME NEW s, IsSetup(s), Clear(s, Zd) PROVE DevStage(s, mqueue(s), T, Zd, M)
  <2> DEFINE x == mqdir(s)
             t == Then(x, mqmount)
  <2>1. DevStage(s, x, T, Zd, M)
    BY <1>4, <1>11, DevMake
  <2>2. IsSetup(x) /\ (Loose(M) \/ DevLinks(x.links, T, Zd)) => DevStage(x, mqmount(x), T, Zd, M)
    <3> DEFINE flags == {"nosuid", "noexec", "nodev"}
    <3>1. mqmount(x) = mount(x, Append(T, "mqueue"), Empty, flags, Missing)
      OBVIOUS
    <3> HIDE DEF x, flags, T, mqmount
    <3> QED
      BY <1>3, <1>4, <1>5, <3>1, DevMount
  <2>3. mqueue(s) = t \/ mqueue(s) = s
    OBVIOUS
  <2> HIDE DEF x, mqmount, mqueue, T
  <2>4. t = IF x.ok THEN mqmount(x) ELSE x
    BY DEF Then
  <2> HIDE DEF t
  <2>5. DevStage(s, t, T, Zd, M)
    BY <1>11, <2>1, <2>2, <2>4, DevThen
  <2>6. DevStage(s, s, T, Zd, M)
    BY <1>2, <1>11
  <2> QED
    BY <2>3, <2>5, <2>6
<1>12. ASSUME NEW s, IsSetup(s), Clear(s, Zd) PROVE Follows(s, seal(s), M)
  <2> DEFINE flags == {"ro"}
             some == {"nosuid", "nodev"}
             x == remountPath(s, T, flags)
             p == Append(T, "shm")
             g(u) == mountTmpfs(u, p, some)
             t == Then(x, g)
  <2>1. seal(s) = s \/ seal(s) = t
    OBVIOUS
  <2> HIDE DEF seal, flags, some, T
  <2>2. Follows(s, x, M) /\ x.links = s.links
    BY <1>12, RemountPathFollows
  <2> HIDE DEF x
  <2>3. IsPathname(p) /\ p = Append(T, "shm")
    BY <1>4, PathnameAppend
  <2> HIDE DEF p
  <2>4. Loose(M) \/ Real(x, p) = p
    <3>1. Loose(M) \/ DevLinks(x.links, T, Zd)
      BY <1>12, <2>2
    <3> DEFINE name == "shm"
    <3>2. name \notin Zd /\ p = Append(T, name)
      BY <1>5, <2>3
    <3> HIDE DEF name
    <3> QED
      BY <1>4, <3>1, <3>2, DevReal, ZenonT(30)
  <2>5. Loose(M) \/ [source |-> Missing, target |-> Real(x, p)] \in M
    BY <1>3, <2>3, <2>4
  <2>6. IsSetup(x) => Follows(x, g(x), M)
    BY <2>3, <2>5, TmpfsFollows
  <2> HIDE DEF g
  <2>7. t = IF x.ok THEN g(x) ELSE x
    BY DEF Then
  <2> HIDE DEF t
  <2>8. Follows(s, t, M)
    BY <1>12, <2>2, <2>6, <2>7, ThenFollows
  <2>9. Follows(s, s, M)
    BY <1>12, FollowsSelf
  <2> QED
    BY <2>1, <2>8, <2>9
<1>13. DevStage(st, t1, T, Za, M)
  <2> DEFINE flags == {"nosuid", "nodev"}
  <2>1. t1 = mountTmpfs(st, T, flags)
    OBVIOUS
  <2>2. Loose(M) \/ OnTheWay(st.links, T) = {}
    OBVIOUS
  <2> HIDE DEF T, flags, t1
  <2>3. Loose(M) \/ Real(st, T) = T
    BY <2>2, RealClear
  <2>4. Loose(M) \/ [source |-> Missing, target |-> Real(st, T)] \in M
    BY <1>3, <2>3
  <2>5. Follows(st, t1, M) /\ Mounted(st, Real(st, T), Empty, flags, Missing, t1)
    BY <1>4, <2>1, <2>4, TmpfsFollows
  <2>6. ASSUME t1.ok, ~Loose(M) PROVE DevLinks(t1.links, T, Za)
    <3>1. \A q \in DOMAIN t1.links : q \in DOMAIN st.links /\ ~Under(q, T)
      BY <2>3, <2>5, <2>6, EmptyNames DEF Mounted
    <3>2. OnTheWay(t1.links, T) = {}
      BY <2>2, <2>6, <3>1 DEF OnTheWay
    <3> QED
      BY <3>1, <3>2 DEF DevLinks
  <2> QED
    BY <2>5, <2>6 DEF DevStage
<1> HIDE DEF node, fd, dirs, pts, console, mqueue, seal, t1, T
<1>14. t2 = IF t1.ok THEN node(t1) ELSE t1
  BY DEF Then
<1> HIDE DEF t2
<1>15. DevStage(st, t2, T, Zb, M)
  BY <1>6, <1>13, <1>14, DevThen
<1>16. t3 = IF t2.ok THEN fd(t2) ELSE t2
  BY DEF Then
<1> HIDE DEF t3
<1>17. DevStage(st, t3, T, Zc, M)
  BY <1>7, <1>15, <1>16, DevThen
<1>18. t4 = IF t3.ok THEN dirs(t3) ELSE t3
  BY DEF Then
<1> HIDE DEF t4
<1>19. DevStage(st, t4, T, Zc, M)
  BY <1>8, <1>17, <1>18, DevThen
<1>20. t5 = IF t4.ok THEN pts(t4) ELSE t4
  BY DEF Then
<1> HIDE DEF t5
<1>21. DevStage(st, t5, T, Zc, M)
  BY <1>9, <1>19, <1>20, DevThen
<1>22. t6 = IF t5.ok THEN console(t5) ELSE t5
  BY DEF Then
<1> HIDE DEF t6
<1>23. DevStage(st, t6, T, Zd, M)
  BY <1>10, <1>21, <1>22, DevThen
<1>24. t7 = IF t6.ok THEN mqueue(t6) ELSE t6
  BY DEF Then
<1> HIDE DEF t7
<1>25. DevStage(st, t7, T, Zd, M)
  BY <1>11, <1>23, <1>24, DevThen
<1>26. t8 = IF t7.ok THEN seal(t7) ELSE t7
  BY DEF Then
<1> HIDE DEF t8
<1>27. Follows(st, t8, M)
  <2>1. Follows(st, t7, M) /\ (t7.ok => Clear(t7, Zd))
    BY <1>25 DEF DevStage
  <2>2. t7.ok => (IsSetup(t7) => Follows(t7, seal(t7), M))
    BY <1>12, <2>1
  <2>3. CASE t7.ok
    BY <1>26, <2>1, <2>2, <2>3, ThenFollows
  <2>4. CASE ~t7.ok
    BY <1>26, <2>1, <2>4
  <2> QED
    BY <2>3, <2>4
<1> QED
  BY <1>1, <1>27

\* TmpfileOp binds its file and remounts it.
LEMMA PlaceApplyFollows ==
    ASSUME NEW st, IsSetup(st), NEW op, IsPathname(op.target),
           NEW M, MadeHere(st, Missing, op.target, M)
    PROVE  Follows(st, PlaceApply(st, op), M)
<1> DEFINE file == [nodes |-> [q \in {<< >>} |-> "file"], links |-> [q \in {} |-> Missing]]
           p == op.target
           d == ensureFile(st, p)
           with == {"nosuid", "nodev"}
           ro == {"ro", "nodev"}
           f(s) == mount(s, p, file, with, Missing)
           m == Then(d, f)
           g(s) == remountPath(s, p, ro)
<1>1. IsPathname(p) /\ MadeHere(st, Missing, p, M)
  OBVIOUS
<1>2. PlaceApply(st, op) = Then(m, g)
  BY DEF PlaceApply
<1>3. IsContent(file)
  <2>1. << >> \in Seq({})
    OBVIOUS
  <2>2. IsPathname(<< >>)
    BY <2>1, SeqPathname
  <2>3. DOMAIN file.nodes = {<< >>} /\ DOMAIN file.links = {}
    OBVIOUS
  <2> HIDE DEF file
  <2> QED
    BY <2>2, <2>3 DEF IsContent
<1> HIDE DEF p, with, ro, file
<1>4. Follows(st, d, M) /\ d.links = st.links
  BY <1>1, EnsureFollows
<1>5. IsSetup(d)
  BY <1>4 DEF Follows
<1> HIDE DEF d
<1>6. Loose(M) \/ [source |-> Missing, target |-> Real(d, p)] \in M
  BY <1>1, <1>4, RealSame DEF MadeHere
<1>7. Follows(d, f(d), M)
  BY <1>1, <1>3, <1>5, <1>6, MountFollows
<1> HIDE DEF f
<1>8. m = IF d.ok THEN f(d) ELSE d
  BY DEF Then
<1> HIDE DEF m
<1>9. Follows(st, m, M) /\ IsSetup(m)
  BY <1>4, <1>7, <1>8, ThenFollows
<1>10. Follows(m, g(m), M)
  BY <1>9, RemountPathFollows
<1> HIDE DEF g
<1>11. Then(m, g) = IF m.ok THEN g(m) ELSE m
  BY DEF Then
<1> QED
  BY <1>2, <1>9, <1>10, <1>11, ThenFollows

\* MountProcOp makes one mount.
LEMMA ProcApplyFollows ==
    ASSUME NEW st, IsSetup(st), NEW op, IsPathname(op.target),
           NEW M, MadeHere(st, Missing, op.target, M)
    PROVE  Follows(st, ProcApply(st, op), M)
<1> DEFINE p == op.target
           flags == {"nosuid", "noexec", "nodev"}
<1>1. IsPathname(p) /\ MadeHere(st, Missing, p, M)
  OBVIOUS
<1>2. ProcApply(st, op) = MkdirThenMount(st, p, Empty, flags)
  BY DEF ProcApply, MkdirThenMount
<1> HIDE DEF p, flags
<1>3. Follows(st, MkdirThenMount(st, p, Empty, flags), M)
  BY <1>1, EmptyNames, MkdirMount
<1> QED
  BY <1>2, <1>3

\* The mounts operation op makes, with what early has resolved for it.
Made(op, final) ==
    CASE op.kind = "bind" -> IF final = Missing THEN {} ELSE {[source |-> final, target |-> op.target]}
      [] op.kind = "root" -> {[source |-> final[n].final, target |-> final[n].target] : n \in DOMAIN final}
      [] op.kind = "dev"  -> DevMade(op.target)
      [] op.kind \in {"overlay", "place", "tmpfs", "proc"} ->
            {[source |-> Missing, target |-> op.target]}
      [] OTHER            -> {}

\* What apply relies on of operation op and of what early has resolved for it.
IsFinal(op, final) ==
    /\ op.kind \in OpKinds
    /\ op.kind \notin {"root", "etc"} => IsPathname(op.target)
    /\ op.kind = "bind" => final = Missing \/ IsPathname(final)
    /\ op.kind = "root" => IsTable(final) /\ \A n \in DOMAIN final : IsRootBind(final[n])
    /\ op.kind = "link" => IsText(final)

\* Whatever the operation, apply makes a setup of a setup, and with no link on its way the
\* mounts of the operation.
LEMMA ApplyFollows ==
    ASSUME NEW st, IsSetup(st), NEW i, NEW op, IsFinal(op, st.final[i]), NEW M,
           Loose(M) \/ (Direct(st, op) /\ M = Made(op, st.final[i]))
    PROVE  Follows(st, apply(st, i, op), M)
<1> DEFINE final == st.final[i]
           p == op.target
<1>1. ASSUME op.kind \in {"bind", "overlay", "place", "tmpfs", "proc", "dev"}
      PROVE  IsPathname(p) /\ (Loose(M) \/ (OnTheWay(st.links, p) = {} /\ Real(st, p) = p))
  <2>1. IsPathname(p) /\ (Direct(st, op) => OnTheWay(st.links, p) = {})
    BY <1>1 DEF IsFinal, Direct
  <2> QED
    BY <2>1, RealClear
<1>2. CASE op.kind = "bind"
  <2>1. apply(st, i, op) = BindApply(st, op, final)
    BY <1>2 DEF apply
  <2>2. /\ IsPathname(op.target) /\ (final # Missing => IsPathname(final))
        /\ \/ Loose(M)
           \/ Real(st, op.target) = op.target
              /\ (final # Missing => [source |-> final, target |-> op.target] \in M)
    BY <1>1, <1>2 DEF IsFinal, Made
  <2>3. \/ Loose(M)
        \/ final # Missing => [source |-> final, target |-> Real(st, op.target)] \in M
    BY <2>2
  <2> HIDE DEF final
  <2> QED
    BY <2>1, <2>2, <2>3, BindApplyFollows
<1>3. CASE op.kind = "root"
  <2>1. apply(st, i, op) = RootApply(st, i, op)
    BY <1>3 DEF apply
  <2>2. IsTable(final) /\ \A n \in DOMAIN final : IsRootBind(final[n])
    BY <1>3 DEF IsFinal
  <2>3. \/ Loose(M)
        \/ /\ Rootless(st)
           /\ \A n \in DOMAIN final :
                 [source |-> final[n].final, target |-> final[n].target] \in M
    BY <1>3 DEF Made, Direct, Rootless
  <2> QED
    BY <2>1, <2>2, <2>3, RootApplyFollows
<1>4. CASE op.kind = "etc"
  <2>1. apply(st, i, op) = EtcApply(st, op)
    BY <1>4 DEF apply
  <2> QED
    BY <2>1, EtcApplyFollows
<1>5. ASSUME op.kind \in {"overlay", "place", "tmpfs", "proc"}
      PROVE  IsPathname(p) /\ MadeHere(st, Missing, p, M)
  <2>1. Loose(M) \/ [source |-> Missing, target |-> p] \in M
    BY <1>5 DEF Made
  <2> QED
    BY <1>1, <1>5, <2>1 DEF MadeHere
<1>6. CASE op.kind = "overlay"
  <2>1. apply(st, i, op) = OverlayApply(st, op)
    BY <1>6 DEF apply
  <2> QED
    BY <1>5, <1>6, <2>1, OverlayApplyFollows
<1>7. CASE op.kind = "dev"
  <2>1. apply(st, i, op) = DevApply(st, op)
    BY <1>7 DEF apply
  <2>2. Loose(M) \/ (OnTheWay(st.links, op.target) = {} /\ M = DevMade(op.target))
    BY <1>7 DEF Made, Direct
  <2> QED
    BY <1>1, <1>7, <2>1, <2>2, DevApplyFollows
<1>8. CASE op.kind = "place"
  <2>1. apply(st, i, op) = PlaceApply(st, op)
    BY <1>8 DEF apply
  <2> QED
    BY <1>5, <1>8, <2>1, PlaceApplyFollows
<1>9. CASE op.kind = "link"
  <2>1. apply(st, i, op) = symlink(st, p, final)
    BY <1>9 DEF apply
  <2>2. IsPathname(p) /\ IsText(final)
    BY <1>9 DEF IsFinal
  <2> HIDE DEF p, final
  <2> QED
    BY <2>1, <2>2, SymlinkFollows
<1>10. CASE op.kind = "tmpfs"
  <2> DEFINE flags == {"nosuid", "nodev"} \cup op.flags
  <2>1. apply(st, i, op) = mountTmpfs(st, p, flags)
    BY <1>10 DEF apply
  <2>2. IsPathname(p) /\ (Loose(M) \/ [source |-> Missing, target |-> Real(st, p)] \in M)
    BY <1>5, <1>10 DEF MadeHere
  <2> HIDE DEF flags, p
  <2> QED
    BY <2>1, <2>2, TmpfsFollows
<1>11. CASE op.kind = "proc"
  <2>1. apply(st, i, op) = ProcApply(st, op)
    BY <1>11 DEF apply
  <2> QED
    BY <1>5, <1>11, <2>1, ProcApplyFollows
<1>12. CASE op.kind = "mkdir"
  <2>1. apply(st, i, op) = mkdirAll(st, op.target) /\ IsPathname(op.target)
    BY <1>12 DEF apply, IsFinal
  <2> QED
    BY <2>1, MkdirFollows
<1>13. CASE op.kind = "remount"
  <2>1. apply(st, i, op) = remountPath(st, op.target, op.flags)
    BY <1>13 DEF apply
  <2> QED
    BY <2>1, RemountPathFollows
<1> QED
  BY <1>2, <1>3, <1>4, <1>6, <1>7, <1>8, <1>9, <1>10, <1>11, <1>12, <1>13 DEF IsFinal, OpKinds

\* The values of a function on a finite set are finitely many.
LEMMA FiniteImage ==
    ASSUME NEW S, IsFiniteSet(S), NEW f, DOMAIN f = S
    PROVE  IsFiniteSet({f[x] : x \in S})
<1> DEFINE T == {f[x] : x \in S}
           g == [x \in S |-> f[x]]
<1>1. g \in Surjection(S, T)
  BY DEF Surjection
<1> HIDE DEF T, g
<1>2. IsFiniteSet(T)
  BY <1>1, FS_Surjection
<1> QED
  BY <1>2 DEF T

\* The directories to be made for a pathname are finitely many.
LEMMA MissingFinite ==
    ASSUME NEW nodes, NEW p, IsPathname(p)
    PROVE  IsFiniteSet(MissingDirs(nodes, p))
<1> DEFINE I == 0..Len(p)
           f == [j \in I |-> SubSeq(p, 1, j)]
           T == {f[j] : j \in I}
<1>1. Len(p) \in Nat
  BY PathnameSeq
<1>2. IsFiniteSet(I)
  BY <1>1, FS_Interval
<1>3. DOMAIN f = I
  OBVIOUS
<1>4. MissingDirs(nodes, p) \in SUBSET T
  BY DEF MissingDirs
<1> HIDE DEF I, f
<1>5. IsFiniteSet(T)
  BY <1>2, <1>3, FiniteImage
<1> HIDE DEF T
<1> QED
  BY <1>4, <1>5, FS_Subset

\* A finite set can be listed.
LEMMA SetToSeqTable ==
    ASSUME NEW S, IsFiniteSet(S)
    PROVE  IsTable(SetToSeq(S)) /\ \A v \in DOMAIN SetToSeq(S) : SetToSeq(S)[v] \in S
<1> DEFINE n == Cardinality(S)
<1>1. n \in Nat /\ ExistsBijection(1..n, S)
  BY FS_CardinalityType
<1>2. \E f \in [1..n -> S] : IsInjective(f)
  BY <1>1 DEF ExistsBijection, Bijection, Injection
<1>3. SetToSeq(S) \in [1..n -> S]
  BY <1>2 DEF SetToSeq
<1> HIDE DEF n
<1>4. SetToSeq(S) \in Seq(S)
  BY <1>1, <1>3
<1> QED
  BY <1>3, <1>4 DEF IsTable

\* What the files of the host and the pathnames resolved for n operations are.
IsResolved(st, n) == IsFiniteSet(DOMAIN st.host) /\ st.final = [j \in 1..n |-> st.final[j]]

\* The bind of an entry of the root.
OfEntry(op, b) ==
    \E e : /\ IsPathname(e) /\ Len(e) = Len(op.host) + 1 /\ Under(e, op.host)
           /\ IsAutoRootBindable(Last(e)) /\ b.target = << Last(e) >>
           /\ \/ b.final = Missing
              \/ b.final = Resolve(e) /\ IsPathname(b.final) /\ b.final \notin DOMAIN HostLinks

\* What early has resolved for operation op on a host.
IsEarly(op, final, host) ==
    /\ op.kind = "bind" =>
          \/ final = Missing /\ "optional" \in op.flags
          \/ final = Resolve(op.source) /\ final # Missing /\ final \in DOMAIN host
    /\ op.kind = "root" => IsTable(final) /\ \A x \in DOMAIN final : OfEntry(op, final[x])
    /\ op.kind = "link" => IsText(final)

\* early of operation i has made t of st.
Resolves(st, t, n, i, op) ==
    /\ IsSetup(t) /\ IsResolved(t, n) /\ t.mounts = st.mounts
    /\ DOMAIN st.host \subseteq DOMAIN t.host
    /\ \A j \in 1..n : j # i => t.final[j] = st.final[j]
    /\ IsEarly(op, t.final[i], t.host)

\* The result of an operation is kept.
LEMMA WithFinal ==
    ASSUME NEW st, IsSetup(st), NEW n, IsResolved(st, n), NEW i \in 1..n, NEW v, NEW op,
           IsEarly(op, v, st.host)
    PROVE  Resolves(st, [st EXCEPT !.final[i] = v], n, i, op)
<1> DEFINE w == [st.final EXCEPT ![i] = v]
           t == [st EXCEPT !.final[i] = v]
<1>1. w = [j \in 1..n |-> w[j]] /\ w[i] = v /\ \A j \in 1..n : j # i => w[j] = st.final[j]
  BY DEF IsResolved
<1>2. t = [st EXCEPT !.final = w]
  OBVIOUS
<1> HIDE DEF w, t
<1>3. IsSetup(t) /\ t.final = w /\ t.host = st.host /\ t.mounts = st.mounts
  BY <1>2 DEF IsSetup
<1> QED
  BY <1>1, <1>3 DEF Resolves, IsResolved, t

\* The directories a bind has made on the host are finitely many.
LEMMA EnsuredResolved ==
    ASSUME NEW st, IsSetup(st), NEW n, IsResolved(st, n), NEW op, IsPathname(op.source)
    PROVE  /\ IsSetup(Ensured(st, op)) /\ IsResolved(Ensured(st, op), n)
           /\ Ensured(st, op).final = st.final /\ Ensured(st, op).mounts = st.mounts
           /\ DOMAIN st.host \subseteq DOMAIN Ensured(st, op).host
<1> DEFINE p == Resolve(op.source)
           new == MissingDirs(st.host, p)
           h == AddNodes(st.host, new, "dir")
           t == [st EXCEPT !.host = h]
           f == Fail(st)
<1>1. Ensured(st, op) = t \/ Ensured(st, op) = st \/ Ensured(st, op) = f
  BY DEF Ensured
<1>2. IsFiniteSet(new) /\ \A q \in new : IsPathname(q)
  <2>1. IsPathname(p)
    BY ResolvePathname
  <2> HIDE DEF p
  <2>2. IsFiniteSet(new)
    BY <2>1, MissingFinite
  <2>3. \A q \in new : IsPathname(q)
    BY <2>1, PathnameFront DEF MissingDirs
  <2> QED
    BY <2>2, <2>3
<1>3. DOMAIN h = DOMAIN st.host \cup new
  BY DEF AddNodes
<1> HIDE DEF new, h
<1>4. IsFiniteSet(DOMAIN h)
  <2> DEFINE D == DOMAIN st.host
  <2>1. IsFiniteSet(D)
    BY DEF IsResolved
  <2> HIDE DEF D
  <2>2. IsFiniteSet(D \cup new)
    BY <1>2, <2>1, FS_Union
  <2> QED
    BY <1>3, <2>2 DEF D
<1>5. (\A q \in DOMAIN h : IsPathname(q)) /\ DOMAIN HostNodes \subseteq DOMAIN h
  BY <1>2, <1>3 DEF IsSetup
<1>6. IsSetup(t) /\ t.host = h /\ t.final = st.final /\ t.mounts = st.mounts
  BY <1>5 DEF IsSetup
<1>7. IsSetup(f) /\ f.host = st.host /\ f.final = st.final /\ f.mounts = st.mounts
  BY FailFollows DEF Follows
<1> HIDE DEF t, f
<1>8. IsResolved(t, n) /\ IsResolved(f, n)
  BY <1>4, <1>6, <1>7 DEF IsResolved
<1> QED
  BY <1>1, <1>3, <1>6, <1>7, <1>8

\* early of BindMountOp keeps a pathname of the host, or that there is none.
LEMMA BindEarlyResolves ==
    ASSUME NEW st, IsSetup(st), NEW n, IsResolved(st, n), NEW i \in 1..n, NEW op,
           op.kind = "bind", IsPathname(op.source), BindEarly(st, i, op).ok
    PROVE  Resolves(st, BindEarly(st, i, op), n, i, op)
<1> DEFINE made == Ensured(st, op)
           path == evalSymlinks(made, op.source)
           t == [made EXCEPT !.final[i] = path]
<1>1. /\ IsSetup(made) /\ IsResolved(made, n) /\ made.final = st.final
      /\ made.mounts = st.mounts /\ DOMAIN st.host \subseteq DOMAIN made.host
  BY EnsuredResolved
<1>2. path = Missing \/ (path = Resolve(op.source) /\ path \in DOMAIN made.host)
  BY DEF evalSymlinks
<1>3. \/ BindEarly(st, i, op) = Fail(made)
      \/ BindEarly(st, i, op) = t /\ (path # Missing \/ "optional" \in op.flags)
  BY DEF BindEarly
<1> HIDE DEF made, path
<1>4. ~Fail(made).ok
  BY <1>1, FailFollows
<1>5. path # Missing \/ "optional" \in op.flags
  BY <1>3, <1>4
<1>6. IsEarly(op, path, made.host)
  BY <1>2, <1>5 DEF IsEarly
<1>7. Resolves(made, t, n, i, op)
  BY <1>1, <1>6, WithFinal
<1> HIDE DEF t
<1> QED
  BY <1>1, <1>3, <1>4, <1>7 DEF Resolves

\* early of AutoRootOp keeps a list of binds of entries.
LEMMA RootEarlyResolves ==
    ASSUME NEW st, IsSetup(st), NEW n, IsResolved(st, n), NEW i \in 1..n, NEW op,
           op.kind = "root", IsPathname(op.host), RootEarly(st, i, op).ok
    PROVE  Resolves(st, RootEarly(st, i, op), n, i, op)
<1> DEFINE d == Resolve(op.host)
           h == {q \in DOMAIN st.host : Len(q) = Len(d) + 1 /\ Under(q, d)}
           f == [p \in h |-> Last(p)]
           R == {f[p] : p \in h}
           S == {x \in RootEntries(st, d) : IsAutoRootBindable(x)}
           names == SetToSeq(S)
           entry(x) == Append(op.host, names[x])
           resolved == RootBinds(st, op)
           t == [st EXCEPT !.final[i] = resolved]
<1>1. IsFiniteSet(h)
  BY FS_Subset DEF IsResolved
<1>2. S \in SUBSET R /\ DOMAIN f = h
  BY DEF RootEntries
<1> HIDE DEF h, f
<1>3. IsFiniteSet(R)
  BY <1>1, <1>2, FiniteImage
<1> HIDE DEF R
<1>4. IsFiniteSet(S)
  BY <1>2, <1>3, FS_Subset
<1>5. \A x \in S : IsAutoRootBindable(x)
  OBVIOUS
<1>6. /\ IsTable(names) /\ Len(names) \in Nat /\ DOMAIN names = 1..Len(names)
      /\ \A x \in DOMAIN names : IsAutoRootBindable(names[x])
  <2> HIDE DEF S
  <2>1. IsTable(names) /\ \A x \in DOMAIN names : names[x] \in S
    BY <1>4, SetToSeqTable
  <2> HIDE DEF names
  <2> QED
    BY <1>5, <2>1, TableSeq
<1>7. resolved = [x \in DOMAIN names |->
                     [source |-> entry(x), target |-> << names[x] >>, flags |-> op.flags,
                      final |-> evalSymlinks(st, entry(x))]]
  BY DEF RootBinds
<1>8. RootEarly(st, i, op) = Fail(st) \/ RootEarly(st, i, op) = t
  BY DEF RootEarly
<1> HIDE DEF names, resolved
<1>9. ASSUME NEW x \in DOMAIN resolved PROVE OfEntry(op, resolved[x])
  <2> DEFINE name == names[x]
             dir == op.host
             e == Append(dir, name)
             b == resolved[x]
  <2>1. x \in DOMAIN names /\ IsAutoRootBindable(name) /\ IsPathname(dir)
    BY <1>6, <1>7
  <2>2. b.target = << name >> /\ b.final = evalSymlinks(st, e)
    BY <1>7, <2>1
  <2> HIDE DEF name, dir, b
  <2>3. IsPathname(e) /\ Under(e, dir)
    BY <2>1, PathnameAppend
  <2>4. Len(e) = Len(dir) + 1 /\ Last(e) = name
    <3> DEFINE A == Range(dir) \cup {name}
    <3>1. dir \in Seq(A) /\ name \in A
      <4> DEFINE B == Range(dir)
      <4>1. dir \in Seq(B)
        BY <2>1 DEF IsPathname
      <4>2. A = B \cup {name}
        OBVIOUS
      <4> HIDE DEF A, B
      <4> QED
        BY <4>1, <4>2
    <3> HIDE DEF A
    <3>2. Len(e) = Len(dir) + 1 /\ e[Len(dir) + 1] = name
      BY <3>1
    <3> QED
      BY <3>2 DEF Last
  <2> HIDE DEF e
  <2>5. \/ b.final = Missing
        \/ b.final = Resolve(e) /\ IsPathname(b.final) /\ b.final \notin DOMAIN HostLinks
    BY <2>2 DEF evalSymlinks, IsSetup
  <2>6. Len(e) = Len(op.host) + 1 /\ Under(e, op.host)
    BY <2>3, <2>4 DEF dir
  <2>7. IsAutoRootBindable(Last(e)) /\ b.target = << Last(e) >>
    BY <2>1, <2>2, <2>4
  <2>8. OfEntry(op, b)
    BY <2>3, <2>5, <2>6, <2>7 DEF OfEntry
  <2> QED
    BY <2>8 DEF b
<1>10. IsTable(resolved)
  <2>1. resolved = [x \in DOMAIN names |-> resolved[x]]
    BY <1>7
  <2> QED
    BY <1>6, <2>1, TableFunction
<1>11. IsEarly(op, resolved, st.host)
  BY <1>9, <1>10 DEF IsEarly
<1>12. Resolves(st, t, n, i, op)
  BY <1>11, WithFinal
<1>13. ~Fail(st).ok
  BY FailFollows
<1> HIDE DEF t
<1> QED
  BY <1>8, <1>12, <1>13

\* early of SymlinkOp keeps the text of the link.
LEMMA LinkEarlyResolves ==
    ASSUME NEW st, IsSetup(st), NEW n, IsResolved(st, n), NEW i \in 1..n, NEW op,
           op.kind = "link", IsText(op.linkname), LinkEarly(st, i, op).ok
    PROVE  Resolves(st, LinkEarly(st, i, op), n, i, op)
<1> DEFINE name == op.linkname.down
           at == Append(Resolve(Front(name)), Last(name))
           text == op.linkname
           w == LinkEarly(st, i, op)
<1>1. ~Fail(st).ok
  BY FailFollows
<1>2. \/ w = [st EXCEPT !.final[i] = text]
      \/ at \in DOMAIN HostLinks /\ w = [st EXCEPT !.final[i] = HostLinks[at]]
      \/ w = Fail(st)
  BY DEF LinkEarly
<1>3. ASSUME NEW v, IsText(v) PROVE Resolves(st, [st EXCEPT !.final[i] = v], n, i, op)
  <2>1. IsEarly(op, v, st.host)
    BY <1>3 DEF IsEarly
  <2> QED
    BY <2>1, WithFinal
<1>4. IsText(text) /\ (at \in DOMAIN HostLinks => IsText(HostLinks[at]))
  <2> HIDE DEF at
  <2> QED
    BY SetupAssumption
<1>5. w.ok
  OBVIOUS
<1> HIDE DEF at, text, w
<1>6. Resolves(st, w, n, i, op)
  BY <1>1, <1>2, <1>3, <1>4, <1>5
<1> QED
  BY <1>6 DEF w

\* early resolves what apply needs, or fails.
LEMMA EarlyResolves ==
    ASSUME NEW st, IsSetup(st), NEW n, IsResolved(st, n), NEW i \in 1..n, NEW op,
           op.kind \in OpKinds, op.kind = "bind" => IsPathname(op.source),
           op.kind = "root" => IsPathname(op.host), op.kind = "link" => IsText(op.linkname),
           early(st, i, op).ok
    PROVE  Resolves(st, early(st, i, op), n, i, op)
<1> DEFINE w == early(st, i, op)
<1>1. ~Fail(st).ok
  BY FailFollows
<1>2. Valid(op)
  BY <1>1 DEF early
<1>3. CASE op.kind = "bind"
  <2>1. w = BindEarly(st, i, op)
    BY <1>2, <1>3 DEF early
  <2> QED
    BY <1>3, <2>1, BindEarlyResolves
<1>4. CASE op.kind = "root"
  <2>1. w = RootEarly(st, i, op)
    BY <1>2, <1>4 DEF early
  <2> QED
    BY <1>4, <2>1, RootEarlyResolves
<1>5. CASE op.kind = "link"
  <2>1. w = LinkEarly(st, i, op)
    BY <1>2, <1>5 DEF early
  <2> QED
    BY <1>5, <2>1, LinkEarlyResolves
<1>6. CASE op.kind \notin {"bind", "root", "link"}
  <2>1. w = st \/ w = Fail(st)
    <3>1. CASE op.kind = "overlay"
      <4>1. w = OverlayEarly(st, op)
        BY <1>2, <3>1 DEF early
      <4> QED
        BY <4>1 DEF OverlayEarly
    <3>2. CASE op.kind # "overlay"
      BY <1>2, <1>6, <3>2 DEF early
    <3> QED
      BY <3>1, <3>2
  <2>2. w = st
    BY <1>1, <2>1
  <2> QED
    BY <1>6, <2>2 DEF Resolves, IsEarly
<1> QED
  BY <1>3, <1>4, <1>5, <1>6

\* The pathnames of the operations that early has been through are resolved.
Settled(i) == pc \in {"intermediate", "apply"} \/ (pc = "early" /\ i < k)

(***************************************************************************)
(* The state of the setup operations: a mount table, a host with finitely  *)
(* many files, and the pathnames resolved so far.                          *)
(***************************************************************************)
SetupInv ==
    /\ cfg \in Configs /\ k \in Nat \ {0}
    /\ pc \in {"none", "receive", "usermap", "rslave", "intermediate"} => k = 1
    /\ IsSetup(setup) /\ IsResolved(setup, Len(cfg.ops))
    /\ \A i \in 1..Len(cfg.ops) :
          Settled(i) => IsEarly(cfg.ops[i], setup.final[i], setup.host)

\* What the configurations promise of an operation.
LEMMA OpOfConfig ==
    ASSUME NEW c \in Configs, NEW i \in 1..Len(c.ops)
    PROVE  /\ c.ops[i].kind \in OpKinds
           /\ c.ops[i].kind \notin {"root", "etc"} => IsPathname(c.ops[i].target)
           /\ c.ops[i].kind = "bind" => IsPathname(c.ops[i].source)
           /\ c.ops[i].kind = "root" => IsPathname(c.ops[i].host)
           /\ c.ops[i].kind = "link" => IsText(c.ops[i].linkname)
<1> DEFINE R == Range(c.ops)
           ops == c.ops
<1>1. /\ ops \in Seq(R)
      /\ \A o \in R : /\ o.kind \in OpKinds
                      /\ o.kind \notin {"root", "etc"} => IsPathname(o.target)
                      /\ o.kind = "bind" => IsPathname(o.source)
                      /\ o.kind = "root" => IsPathname(o.host)
                      /\ o.kind = "link" => IsText(o.linkname)
  BY ContainerAssumption
<1> HIDE DEF R
<1>2. ops[i] \in R
  BY <1>1
<1> QED
  BY <1>1, <1>2

\* What early has resolved is what apply relies on.
LEMMA EarlyFinal ==
    ASSUME NEW c \in Configs, NEW i \in 1..Len(c.ops), NEW st, IsSetup(st),
           IsEarly(c.ops[i], st.final[i], st.host)
    PROVE  IsFinal(c.ops[i], st.final[i])
<1> DEFINE op == c.ops[i]
           final == st.final[i]
<1>1. op.kind \in OpKinds /\ (op.kind \notin {"root", "etc"} => IsPathname(op.target))
  BY OpOfConfig
<1>2. IsEarly(op, final, st.host)
  OBVIOUS
<1> HIDE DEF op, final
<1>3. op.kind = "bind" => final = Missing \/ IsPathname(final)
  BY <1>2 DEF IsEarly, IsSetup
<1>4. ASSUME NEW b, OfEntry(op, b) PROVE IsRootBind(b)
  <2>1. PICK e : /\ IsPathname(e) /\ b.target = << Last(e) >>
                 /\ \/ b.final = Missing
                    \/ IsPathname(b.final) /\ b.final \notin DOMAIN HostLinks
    BY <1>4 DEF OfEntry
  <2>2. IsPathname(b.target) /\ Len(b.target) = 1
    <3> DEFINE x == Last(e)
    <3> HIDE DEF x
    <3>1. << x >> \in Seq({x}) /\ Len(<< x >>) = 1
      OBVIOUS
    <3>2. IsPathname(<< x >>)
      BY <3>1, SeqPathname
    <3> QED
      BY <2>1, <3>1, <3>2 DEF x
  <2> QED
    BY <2>1, <2>2 DEF IsRootBind
<1>5. op.kind = "root" => IsTable(final) /\ \A n \in DOMAIN final : IsRootBind(final[n])
  BY <1>2, <1>4 DEF IsEarly
<1>6. op.kind = "link" => IsText(final)
  BY <1>2 DEF IsEarly
<1> QED
  BY <1>1, <1>3, <1>5, <1>6 DEF IsFinal, op, final

\* A configuration has finitely many operations.
LEMMA OpsLength ==
    ASSUME NEW c \in Configs
    PROVE  Len(c.ops) \in Nat
<1> DEFINE R == Range(c.ops)
<1>1. c.ops \in Seq(R)
  BY ContainerAssumption
<1> HIDE DEF R
<1> QED
  BY <1>1

\* At the start there is the root mount alone, and nothing is resolved.
LEMMA SetupInit == Init => SetupInv
<1> SUFFICES ASSUME Init PROVE SetupInv
  OBVIOUS
<1> DEFINE n == Len(cfg.ops)
           root == [at |-> << >>, flags |-> {"nosuid", "nodev"}, source |-> Missing]
<1>1. cfg \in Configs /\ k = 1 /\ pc = "none" /\ setup = NewSetup(n)
  BY DEF Init
<1>2. IsEntry(root)
  <2>1. << >> \in Seq({})
    OBVIOUS
  <2>2. IsPathname(<< >>)
    BY <2>1, SeqPathname
  <2> QED
    BY <2>2 DEF IsEntry, IsMount
<1> HIDE DEF n, root
<1>3. /\ setup.host = HostNodes /\ setup.final = [j \in 1..n |-> Missing]
      /\ setup.mounts = << root >> /\ DOMAIN setup.nodes = {<< >>} /\ DOMAIN setup.links = {}
  BY <1>1 DEF NewSetup, root
<1>4. IsMounts(<< root >>)
  <2>1. << root >> \in Seq({root})
    OBVIOUS
  <2>2. \A v \in DOMAIN << root >> : << root >>[v] = root
    OBVIOUS
  <2> QED
    BY <1>2, <2>1, <2>2 DEF IsTable, IsMounts
<1>5. setup = [nodes |-> setup.nodes, links |-> setup.links, mounts |-> setup.mounts,
               host |-> setup.host, final |-> setup.final,
               nonrepeatable |-> setup.nonrepeatable, ok |-> setup.ok]
  BY <1>1 DEF NewSetup
<1>6. \A q \in DOMAIN setup.nodes : IsPathname(q)
  <2>1. << >> \in Seq({})
    OBVIOUS
  <2> QED
    BY <1>3, <2>1, SeqPathname
<1>7. IsSetup(setup)
  BY <1>3, <1>4, <1>5, <1>6, SetupAssumption DEF IsSetup
<1>8. IsResolved(setup, n)
  BY <1>3, SetupAssumption DEF IsResolved
<1>9. \A i \in 1..n : ~Settled(i)
  BY <1>1 DEF Settled
<1> QED
  BY <1>1, <1>7, <1>8, <1>9 DEF SetupInv, n

\* A step that leaves the operations alone and makes none of them due.
LEMMA QuietSetup ==
    ASSUME SetupInv, UNCHANGED << cfg, k, setup >>,
           pc' \in {"none", "receive", "usermap", "rslave", "early"} => pc' = pc \/ k = 1,
           pc' \in {"intermediate", "apply"} => pc' = pc \/ pc = "intermediate"
    PROVE  SetupInv'
<1>1. /\ cfg' \in Configs /\ k' \in Nat \ {0}
      /\ IsSetup(setup') /\ IsResolved(setup', Len(cfg'.ops))
      /\ pc' \in {"none", "receive", "usermap", "rslave", "intermediate"} => k' = 1
  BY DEF SetupInv
<1>2. ASSUME NEW i \in 1..Len(cfg.ops), Settled(i)' PROVE Settled(i)
  <2>1. i \in Nat /\ i >= 1
    BY OpsLength DEF SetupInv
  <2>2. CASE pc' \in {"intermediate", "apply"}
    BY <2>2 DEF Settled
  <2>3. CASE pc' = "early" /\ i < k
    BY <2>1, <2>3 DEF Settled
  <2> QED
    BY <1>2, <2>2, <2>3 DEF Settled
<1>3. ASSUME NEW i \in 1..Len(cfg'.ops), Settled(i)'
      PROVE  IsEarly(cfg'.ops[i], setup'.final[i], setup'.host)
  BY <1>2, <1>3 DEF SetupInv
<1> QED
  BY <1>1, <1>3 DEF SetupInv

\* init exits: no operation is due any more.
LEMMA ExitSetup ==
    ASSUME SetupInv, UNCHANGED << cfg, k, setup >>, pc' = "exited"
    PROVE  SetupInv'
  BY QuietSetup

\* early of an operation leaves what it has resolved.
LEMMA EarlySetup ==
    ASSUME SetupInv, EarlyOp
    PROVE  SetupInv'
<1> DEFINE n == Len(cfg.ops)
           o == cfg.ops[k]
           st == early(setup, k, o)
<1>1. n \in Nat /\ k \in 1..n /\ pc = "early"
  BY OpsLength DEF SetupInv, EarlyOp, OpLeft
<1>2. /\ o.kind \in OpKinds /\ (o.kind = "bind" => IsPathname(o.source))
      /\ (o.kind = "root" => IsPathname(o.host)) /\ (o.kind = "link" => IsText(o.linkname))
  BY <1>1, OpOfConfig DEF SetupInv
<1>3. IsSetup(setup) /\ IsResolved(setup, n)
  BY DEF SetupInv
<1>4. CASE st.ok
  <2>1. setup' = st /\ k' = k + 1 /\ UNCHANGED << cfg, pc >>
    BY <1>4 DEF EarlyOp, Op
  <2> HIDE DEF n, o
  <2>2. Resolves(setup, st, n, k, o)
    BY <1>1, <1>2, <1>3, <1>4, EarlyResolves
  <2> HIDE DEF st
  <2>3. /\ IsSetup(setup') /\ IsResolved(setup', n)
        /\ cfg' \in Configs /\ k' \in Nat \ {0} /\ n = Len(cfg'.ops)
        /\ pc' \notin {"none", "receive", "usermap", "rslave", "intermediate"}
    BY <1>1, <2>1, <2>2 DEF Resolves, SetupInv, n
  <2>4. ASSUME NEW i \in 1..n, Settled(i)'
        PROVE  IsEarly(cfg'.ops[i], setup'.final[i], setup'.host)
    <3>1. CASE i = k
      BY <2>1, <2>2, <3>1 DEF Resolves, o
    <3>2. CASE i # k
      <4>1. setup'.final[i] = setup.final[i] /\ cfg' = cfg
            /\ DOMAIN setup.host \subseteq DOMAIN setup'.host
        BY <2>1, <2>2, <3>2 DEF Resolves
      <4>2. Settled(i)
        BY <1>1, <2>1, <2>4, <3>2 DEF Settled
      <4>3. IsEarly(cfg.ops[i], setup.final[i], setup.host)
        BY <4>2 DEF SetupInv, n
      <4> QED
        BY <4>1, <4>3 DEF IsEarly
    <3> QED
      BY <3>1, <3>2
  <2> QED
    BY <2>3, <2>4 DEF SetupInv
<1>5. CASE ~st.ok
  <2>1. Fatal
    BY <1>5 DEF EarlyOp, Op
  <2> QED
    BY <2>1, ExitSetup DEF Fatal, Exit, setupVars
<1> QED
  BY <1>4, <1>5

\* Behind the last operation everything is resolved, and the first one is next.
LEMMA EarlyDoneSetup ==
    ASSUME SetupInv, EarlyDone
    PROVE  SetupInv'
<1> DEFINE n == Len(cfg.ops)
<1>1. n \in Nat /\ ~(k <= n) /\ k \in Nat /\ pc = "early"
  BY OpsLength DEF SetupInv, EarlyDone, OpLeft, Phase
<1>2. k' = 1 /\ UNCHANGED << cfg, setup >> /\ pc' = "intermediate"
  BY DEF EarlyDone, Phase
<1>3. \A i \in 1..n : Settled(i)
  BY <1>1 DEF Settled
<1> QED
  BY <1>2, <1>3 DEF SetupInv

\* No claim on what is mounted.
Anything == {<< >>}

\* It restricts nothing.
LEMMA AnythingLoose == Loose(Anything)
<1>1. DOMAIN << >> = {} /\ << >> \in Anything
  BY DEF Anything
<1> QED
  BY <1>1 DEF Loose

\* What apply makes of the setup when it succeeds.
LEMMA AppliedOp ==
    ASSUME SetupInv, ApplyOp
    PROVE  /\ pc = "apply" /\ Len(cfg.ops) \in Nat /\ k \in 1..Len(cfg.ops)
           /\ IsEarly(cfg.ops[k], setup.final[k], setup.host)
           /\ IsFinal(cfg.ops[k], setup.final[k])
           /\ \/ /\ setup' = apply(setup, k, cfg.ops[k]) /\ setup'.ok
                 /\ k' = k + 1 /\ UNCHANGED << cfg, pc >>
                 /\ Follows(setup, setup', Anything)
                 /\ Direct(setup, cfg.ops[k]) =>
                       Follows(setup, setup', Made(cfg.ops[k], setup.final[k]))
              \/ UNCHANGED << cfg, k, setup >> /\ pc' = "exited"
<1> DEFINE n == Len(cfg.ops)
           o == cfg.ops[k]
           st == apply(setup, k, o)
<1>1. n \in Nat /\ k \in 1..n /\ pc = "apply" /\ cfg \in Configs
  BY OpsLength DEF SetupInv, ApplyOp, OpLeft
<1>2. IsSetup(setup) /\ IsEarly(o, setup.final[k], setup.host)
  BY <1>1 DEF SetupInv, Settled
<1>3. IsFinal(o, setup.final[k])
  BY <1>1, <1>2, EarlyFinal
<1>4. /\ Follows(setup, st, Anything)
      /\ Direct(setup, o) => Follows(setup, st, Made(o, setup.final[k]))
  <2> HIDE DEF o
  <2>1. Loose(Anything)
    BY AnythingLoose
  <2>2. Follows(setup, st, Anything)
    BY <1>2, <1>3, <2>1, ApplyFollows
  <2>3. Direct(setup, o) => Follows(setup, st, Made(o, setup.final[k]))
    BY <1>2, <1>3, ApplyFollows
  <2> QED
    BY <2>2, <2>3
<1>5. CASE st.ok
  <2>1. setup' = st /\ k' = k + 1 /\ UNCHANGED << cfg, pc >>
    BY <1>5 DEF ApplyOp, Op
  <2> HIDE DEF st
  <2> QED
    BY <1>1, <1>2, <1>3, <1>4, <1>5, <2>1 DEF st
<1>6. CASE ~st.ok
  <2>1. Fatal
    BY <1>6 DEF ApplyOp, Op
  <2>2. UNCHANGED << cfg, k, setup >> /\ pc' = "exited"
    BY <2>1 DEF Fatal, Exit, setupVars
  <2> QED
    BY <1>1, <1>2, <1>3, <2>2
<1> QED
  BY <1>5, <1>6

\* apply of an operation leaves a mount table, and the pathnames as they were resolved.
LEMMA ApplySetup ==
    ASSUME SetupInv, ApplyOp
    PROVE  SetupInv'
<1> DEFINE n == Len(cfg.ops)
<1>1. n \in Nat /\ k \in 1..n /\ pc = "apply"
  BY AppliedOp
<1>2. CASE k' = k + 1 /\ UNCHANGED << cfg, pc >> /\ Follows(setup, setup', Anything)
  <2> HIDE DEF n
  <2>1. IsSetup(setup') /\ setup'.host = setup.host /\ setup'.final = setup.final
    BY <1>2 DEF Follows
  <2>2. IsResolved(setup', n)
    BY <2>1 DEF IsResolved, SetupInv, n
  <2>3. \A i : Settled(i)' => Settled(i)
    BY <1>1 DEF Settled
  <2>4. k' \in Nat \ {0} /\ pc' \notin {"none", "receive", "usermap", "rslave", "intermediate"}
    BY <1>1, <1>2
  <2> QED
    BY <1>2, <2>1, <2>2, <2>3, <2>4 DEF SetupInv, n
<1>3. CASE UNCHANGED << cfg, k, setup >> /\ pc' = "exited"
  BY <1>3, ExitSetup
<1> QED
  BY <1>2, <1>3, AppliedOp

\* The other phases of init.
LEMMA PhaseSetup ==
    ASSUME SetupInv, InitStep \/ SetupFail, ~EarlyOp, ~EarlyDone, ~ApplyOp
    PROVE  SetupInv'
<1>1. UNCHANGED << cfg, k, setup >>
  BY DEF InitStep, SetupFail, Receive, ReceiveFail, UserMap, RSlave, Intermediate, ApplyDone,
      DetachHost, PivotSysroot, DropCaps, LoadFilter, StartProgram, Notify, Fatal, Phase, setupVars
<1>2. pc' \in {"none", "receive", "usermap", "rslave", "early"} => pc' = pc \/ k = 1
  BY DEF InitStep, SetupFail, Receive, ReceiveFail, UserMap, RSlave, Intermediate, ApplyDone,
      DetachHost, PivotSysroot, DropCaps, LoadFilter, StartProgram, Notify, Fatal, Exit, Phase,
      SetupInv
<1>3. pc' \in {"intermediate", "apply"} => pc' = pc \/ pc = "intermediate"
  BY DEF InitStep, SetupFail, Receive, ReceiveFail, UserMap, RSlave, Intermediate, ApplyDone,
      DetachHost, PivotSysroot, DropCaps, LoadFilter, StartProgram, Notify, Fatal, Exit, Phase
<1> QED
  BY <1>1, <1>2, <1>3, QuietSetup

\* Every step of the others leaves the operations alone.
LEMMA OutsideSetup ==
    ASSUME SetupInv, Unstarted, Next, ~InitStep, ~SetupFail
    PROVE  SetupInv'
<1>1. UNCHANGED << cfg, k, setup >>
  BY DEF Next, ParentStep, Start, StartFail, Serve, ServeFail, Wait, CancelContext,
      DeliverCancel, Kill, Adopt, ProcExit, SendSignal, WaitThread, Reap, Report, NoChild,
      LoopStep, HandleSignal, HandleReaped, HandleClosed, HandleTimeout, Elapse, setupVars
<1>2. pc' \in {"none", "receive", "usermap", "rslave", "early"} => pc' = pc \/ k = 1
  <2>1. CASE Start
    BY <2>1 DEF Start, Unstarted, SetupInv
  <2>2. CASE ~Start
    BY <2>2 DEF Next, ParentStep, StartFail, Serve, ServeFail, Wait, CancelContext,
        DeliverCancel, Deliver, Exit, Kill, Adopt, ProcExit, SendSignal, WaitThread, Reap,
        Report, NoChild, LoopStep, HandleSignal, HandleReaped, HandleClosed, HandleTimeout, Elapse
  <2> QED
    BY <2>1, <2>2
<1>3. pc' \in {"intermediate", "apply"} => pc' = pc \/ pc = "intermediate"
  BY DEF Next, ParentStep, Start, StartFail, Serve, ServeFail, Wait, CancelContext,
      DeliverCancel, Deliver, Exit, Kill, Adopt, ProcExit, SendSignal, WaitThread, Reap,
      Report, NoChild, LoopStep, HandleSignal, HandleReaped, HandleClosed, HandleTimeout, Elapse
<1> QED
  BY <1>1, <1>2, <1>3, QuietSetup

\* Every step keeps the state of the operations in shape.
LEMMA SetupStep ==
    ASSUME SetupInv, ContainerInv, [Next]_vars
    PROVE  SetupInv'
<1>1. CASE UNCHANGED vars
  BY <1>1, QuietSetup DEF vars, setupVars
<1> QED
  BY <1>1, EarlySetup, EarlyDoneSetup, ApplySetup, PhaseSetup, OutsideSetup DEF ContainerInv

\* Where no name begins with another, HasPrefix says what Under says.
LEMMA PlainNames ==
    ASSUME NamePrefix = {}
    PROVE  Unambiguous
<1> SUFFICES ASSUME NEW a \in Range(HostMounts), NEW b \in Range(HostMounts),
                    HasPrefix(a.at, b.at)
             PROVE  Under(a.at, b.at)
  BY DEF Unambiguous
<1> DEFINE p == a.at
           q == b.at
<1>1. IsPathname(p) /\ IsPathname(q) /\ HasPrefix(p, q)
  BY SetupAssumption
<1> HIDE DEF p, q
<1>2. Len(p) \in Nat /\ Len(q) \in Nat
  BY <1>1, PathnameSeq
<1>3. Len(q) <= Len(p) /\ \A i \in 1..Len(q) : p[i] = q[i]
  <2>1. CASE q = << >>
    BY <1>2, <2>1
  <2>2. CASE q # << >>
    BY <1>1, <1>2, <2>2 DEF HasPrefix
  <2> QED
    BY <2>1, <2>2
<1>4. Under(p, q)
  BY <1>1, <1>3, UnderNames
<1> QED
  BY <1>4 DEF p, q

\* Only the operations count the index up, and only those of apply do so in that phase.
LEMMA OnlyApply ==
    ASSUME SetupInv, Next, pc = "apply", k' = k + 1
    PROVE  ApplyOp
<1>1. k' # k
  BY DEF SetupInv
<1>2. EarlyOp \/ EarlyDone \/ ApplyOp
  BY <1>1 DEF Next, ParentStep, Start, StartFail, Serve, ServeFail, Wait, CancelContext,
      DeliverCancel, Kill, InitStep, Receive, ReceiveFail, UserMap, RSlave, Intermediate,
      ApplyDone, DetachHost, PivotSysroot, DropCaps, LoadFilter, StartProgram, Notify,
      SetupFail, Fatal, Phase, Adopt, ProcExit, SendSignal, WaitThread, Reap, Report, NoChild,
      LoopStep, HandleSignal, HandleReaped, HandleClosed, HandleTimeout, Elapse, setupVars
<1> QED
  BY <1>2 DEF EarlyOp, EarlyDone, Phase

\* The step BindSealed is about.
Sealed ==
    BindApplied =>
        LET at == Real(setup, Op.target)
            mt == setup'.mounts
        IN  \A m \in Visible(mt, at) :
                \/ (BindFlags(Op) \ {"rec"}) \cup {"nosuid"} \subseteq mt[m].flags
                \/ mt[m].at # at /\ mt[m].source \in Denied

\* apply of a bind seals everything visible below its target, but what denies it.
LEMMA SealedStep ==
    ASSUME Unambiguous, SetupInv, [Next]_vars
    PROVE  Sealed
<1> SUFFICES ASSUME BindApplied
             PROVE  \A m \in Visible(setup'.mounts, Real(setup, Op.target)) :
                       \/ (BindFlags(Op) \ {"rec"}) \cup {"nosuid"} \subseteq setup'.mounts[m].flags
                       \/ /\ setup'.mounts[m].at # Real(setup, Op.target)
                          /\ setup'.mounts[m].source \in Denied
  BY DEF Sealed
<1> DEFINE o == cfg.ops[k]
           source == setup.final[k]
           st == BindApply(setup, o, source)
           flags == BindFlags(o)
           at == Real(setup, o.target)
<1>1. /\ pc = "apply" /\ OpLeft /\ o.kind = "bind" /\ source # Missing
      /\ k' = k + 1 /\ Real(setup', o.target) = at
  BY DEF BindApplied, Op
<1>2. k' # k /\ IsSetup(setup)
  BY <1>1 DEF SetupInv
<1>3. ApplyOp
  <2>1. Next
    BY <1>2 DEF vars, setupVars
  <2> QED
    BY <1>1, <2>1, OnlyApply
<1>4. setup' = st /\ st.ok /\ IsFinal(o, source)
  <2>1. apply(setup, k, o) = st
    BY <1>1 DEF apply
  <2> HIDE DEF o, st
  <2> QED
    BY <1>2, <1>3, <2>1, AppliedOp DEF o
<1>5. IsPathname(o.target) /\ IsPathname(source)
  BY <1>1, <1>4 DEF IsFinal
<1>6. Loose(Anything)
  BY AnythingLoose
<1> HIDE DEF o, source, st
<1>7. PICK s : /\ IsSetup(s) /\ s.links = setup.links
               /\ st = bindMount(s, source, o.target, flags)
  BY <1>1, <1>2, <1>4, <1>5, <1>6, BindApplyFollows DEF st
<1>8. Real(s, o.target) = at /\ Real(st, o.target) = at
  BY <1>1, <1>4, <1>7, RealSame
<1>9. "rec" \in flags /\ (flags \ {"rec"}) \cup {"nosuid"} \subseteq remountFlags(flags)
  BY DEF BindFlags, remountFlags
<1> HIDE DEF flags, at
<1>10. \A m \in Visible(st.mounts, at) : SealedMount(st.mounts[m], at, remountFlags(flags))
  BY <1>1, <1>4, <1>5, <1>7, <1>8, <1>9, BindMountSealed
<1>11. \A m \in Visible(st.mounts, at) :
          \/ (flags \ {"rec"}) \cup {"nosuid"} \subseteq st.mounts[m].flags
          \/ st.mounts[m].at # at /\ st.mounts[m].source \in Denied
  BY <1>9, <1>10 DEF SealedMount
<1> QED
  BY <1>4, <1>11 DEF Op, o, flags, at

(***************************************************************************)
(* A bind mount is as restricted as it was asked to be, whatever the host  *)
(* has mounted below its source and whatever the operations before it have *)
(* put in the container: the tree Unfold makes of mountinfo leads remount  *)
(* to every mount at or below the place of the bind that a pathname still  *)
(* resolves to.  Only a mount below it that denies its remount, which      *)
(* procPaths.remount passes over on EACCES, is left as it is.  All this    *)
(* on a host where no mount point is a mere beginning of the text of       *)
(* another: Unfold compares with strings.HasPrefix and takes /usr/lib64    *)
(* for a child of /usr/lib.                                                *)
(***************************************************************************)
THEOREM AlwaysSealed ==
    ASSUME Unambiguous
    PROVE  Spec => BindSealed
<1>1. Init => ContainerInv /\ SetupInv
  BY ContainerInit, SetupInit
<1>2. ContainerInv /\ SetupInv /\ [Next]_vars => ContainerInv' /\ SetupInv'
  BY ContainerStep, SetupStep
<1>3. SetupInv /\ [Next]_vars => [Sealed]_vars
  BY SealedStep
<1> QED
  BY <1>1, <1>2, <1>3, PTL DEF Spec, BindSealed, Sealed

(***************************************************************************)
(* What the operations leave in place: a socket that is bound once nothing *)
(* covers it any more, and a tmpfs over every pathname to be hidden.       *)
(***************************************************************************)
\* Descriptions of mounts, as From compares them.
AreMade(M) ==
    \A d \in M : IsPathname(d.target) /\ (d.source = Missing \/ IsPathname(d.source))

\* A mount that is made for a description is at its target or below it.
LEMMA FromUnder ==
    ASSUME NEW M, AreMade(M), NEW d \in M, NEW m, From(m, d)
    PROVE  /\ IsPathname(m.at) /\ Under(m.at, d.target)
           /\ m.at = d.target => m.source = d.source
<1>1. IsPathname(d.target)
  BY DEF AreMade
<1>2. CASE m.at = d.target /\ m.source = d.source
  BY <1>1, <1>2, UnderSelf
<1>3. CASE /\ d.source # Missing /\ IsPathname(m.source)
           /\ Under(m.source, d.source) /\ m.source # d.source
           /\ m.at = Rebased(m.source, d.source, d.target)
  <2>1. IsPathname(d.source)
    BY <1>3 DEF AreMade
  <2> DEFINE a == m.source
             from == d.source
             to == d.target
  <2>2. IsPathname(a) /\ IsPathname(from) /\ IsPathname(to) /\ Under(a, from) /\ a # from
    BY <1>1, <1>3, <2>1
  <2> HIDE DEF a, from, to
  <2>3. /\ IsPathname(Rebased(a, from, to)) /\ Under(Rebased(a, from, to), to)
        /\ Rebased(a, from, to) # to
    BY <2>2, RebasedUnder
  <2> QED
    BY <1>3, <2>3 DEF a, from, to
<1> QED
  BY <1>2, <1>3 DEF From

\* The mounts of an operation are such.
LEMMA MadeNames ==
    ASSUME NEW op, NEW final, IsFinal(op, final)
    PROVE  AreMade(Made(op, final))
<1> SUFFICES ASSUME NEW d \in Made(op, final)
             PROVE  IsPathname(d.target) /\ (d.source = Missing \/ IsPathname(d.source))
  BY DEF AreMade
<1>1. op.kind \notin {"root", "etc"} => IsPathname(op.target)
  BY DEF IsFinal
<1>2. CASE op.kind = "bind"
  <2>1. final # Missing /\ d = [source |-> final, target |-> op.target]
    BY <1>2 DEF Made
  <2>2. IsPathname(final)
    BY <1>2, <2>1 DEF IsFinal
  <2> QED
    BY <1>1, <1>2, <2>1, <2>2
<1>3. CASE op.kind = "root"
  <2>1. PICK n \in DOMAIN final : d = [source |-> final[n].final, target |-> final[n].target]
    BY <1>3 DEF Made
  <2>2. IsRootBind(final[n])
    BY <1>3 DEF IsFinal
  <2> QED
    BY <2>1, <2>2 DEF IsRootBind
<1>4. CASE op.kind = "dev"
  <2> DEFINE p == op.target
  <2>1. d \in DevMade(p) /\ IsPathname(p)
    BY <1>1, <1>4 DEF Made
  <2> HIDE DEF p
  <2>2. \A name : IsPathname(Append(p, name))
    BY <2>1, PathnameAppend
  <2>3. IsPathname(<< "dev", "null" >>) /\ IsPathname(<< "dev", "tty" >>)
    <3>1. << "dev", "null" >> \in Seq({"dev", "null"}) /\ << "dev", "tty" >> \in Seq({"dev", "tty"})
      OBVIOUS
    <3> QED
      BY <3>1, SeqPathname
  <2> DEFINE null == << "dev", "null" >>
             term == << "dev", "tty" >>
  <2>4. /\ IsPathname(null) /\ IsPathname(term)
        /\ d.source \in {Missing, null, term}
        /\ \/ d.target = p
           \/ \E name \in {"null", "pts", "console", "mqueue", "shm"} : d.target = Append(p, name)
    BY <2>1, <2>3 DEF DevMade
  <2> HIDE DEF null, term
  <2> QED
    BY <2>1, <2>2, <2>4
<1>5. CASE op.kind \in {"overlay", "place", "tmpfs", "proc"}
  <2>1. d = [source |-> Missing, target |-> op.target]
    BY <1>5 DEF Made
  <2> QED
    BY <1>1, <1>5, <2>1
<1>6. CASE op.kind \in {"etc", "link", "mkdir", "remount"}
  BY <1>6 DEF Made
<1> QED
  BY <1>2, <1>3, <1>4, <1>5, <1>6 DEF IsFinal, OpKinds

\* They restrict what is mounted.
LEMMA MadeStrict ==
    ASSUME NEW op, NEW final, IsFinal(op, final)
    PROVE  ~Loose(Made(op, final))
<1> SUFFICES ASSUME NEW d \in Made(op, final) PROVE DOMAIN d # {}
  BY DEF Loose
<1>1. \E source, target : d = [source |-> source, target |-> target]
  <2>1. CASE op.kind = "bind"
    BY <2>1 DEF Made
  <2>2. CASE op.kind = "root"
    BY <2>2 DEF Made
  <2>3. CASE op.kind = "dev"
    <3>1. d \in DevMade(op.target)
      BY <2>3 DEF Made
    <3> QED
      BY <3>1 DEF DevMade
  <2>4. CASE op.kind \in {"overlay", "place", "tmpfs", "proc"}
    BY <2>4 DEF Made
  <2>5. CASE op.kind \in {"etc", "link", "mkdir", "remount"}
    BY <2>5 DEF Made
  <2> QED
    BY <2>1, <2>2, <2>3, <2>4, <2>5 DEF IsFinal, OpKinds
<1> QED
  BY <1>1

\* An operation that may not cover a pathname mounts nothing at or above it.
LEMMA MadeCovers ==
    ASSUME NEW op, NEW final, IsFinal(op, final), NEW p, IsPathname(p), ~MayCover(op, p),
           NEW d \in Made(op, final)
    PROVE  ~Under(p, d.target)
<1>1. op.kind # "root" /\ op.kind \notin {"root", "etc"} => IsPathname(op.target)
  BY DEF IsFinal
<1>2. CASE op.kind \in {"bind", "overlay", "place", "tmpfs", "proc"}
  <2>1. d.target = op.target
    BY <1>2 DEF Made
  <2> QED
    BY <1>2, <2>1 DEF MayCover
<1>3. CASE op.kind = "dev"
  <2> DEFINE q == op.target
  <2>1. d \in DevMade(q) /\ IsPathname(q) /\ ~Under(p, q)
    BY <1>1, <1>3 DEF Made, MayCover
  <2> HIDE DEF q
  <2>2. \A name : IsPathname(Append(q, name)) /\ Under(Append(q, name), q)
    BY <2>1, PathnameAppend
  <2>3. d.target = q \/ \E name \in {"null", "pts", "console", "mqueue", "shm"} :
                              d.target = Append(q, name)
    BY <2>1 DEF DevMade
  <2>4. \A name : ~Under(p, Append(q, name))
    <3> SUFFICES ASSUME NEW name, Under(p, Append(q, name)) PROVE FALSE
      OBVIOUS
    <3> DEFINE x == Append(q, name)
    <3>1. IsPathname(x) /\ Under(x, q) /\ Under(p, x)
      BY <2>2
    <3> HIDE DEF x
    <3>2. Under(p, q)
      BY <2>1, <3>1, UnderTrans
    <3> QED
      BY <2>1, <3>2
  <2> QED
    BY <2>1, <2>3, <2>4
<1>4. CASE op.kind = "root"
  BY <1>4 DEF MayCover
<1>5. CASE op.kind \in {"etc", "link", "mkdir", "remount"}
  BY <1>5 DEF Made
<1> QED
  BY <1>2, <1>3, <1>4, <1>5 DEF IsFinal, OpKinds

(***************************************************************************)
(* What a pathname resolves to is the mount of a source there: from one    *)
(* mount on, every mount at or above the pathname is that.                 *)
(***************************************************************************)
Placed(st, p, source) ==
    /\ p \in DOMAIN st.nodes
    /\ \E v \in DOMAIN st.mounts :
          /\ Under(p, st.mounts[v].at)
          /\ \A c \in DOMAIN st.mounts : c >= v /\ Under(p, st.mounts[c].at) =>
                st.mounts[c].at = p /\ st.mounts[c].source = source

\* It is found there.
LEMMA PlacedFound ==
    ASSUME NEW st, IsSetup(st), NEW p, NEW source, Placed(st, p, source)
    PROVE  /\ p \in DOMAIN st.nodes
           /\ st.mounts[Owner(st.mounts, p)].at = p
           /\ st.mounts[Owner(st.mounts, p)].source = source
<1> DEFINE mt == st.mounts
           o == Owner(mt, p)
<1>1. PICK v \in DOMAIN mt :
          /\ Under(p, mt[v].at)
          /\ \A c \in DOMAIN mt : c >= v /\ Under(p, mt[c].at) =>
                mt[c].at = p /\ mt[c].source = source
  BY DEF Placed
<1>2. IsTable(mt) /\ DOMAIN mt = 1..Len(mt) /\ Len(mt) \in Nat
  BY SetupLength
<1>3. /\ o \in DOMAIN mt /\ Under(p, mt[o].at)
      /\ \A c \in DOMAIN mt : Under(p, mt[c].at) => c <= o
  BY <1>1, <1>2, OwnerLast
<1> HIDE DEF o, mt
<1>4. o >= v
  BY <1>1, <1>2, <1>3
<1>5. mt[o].at = p /\ mt[o].source = source
  BY <1>1, <1>3, <1>4
<1> QED
  BY <1>5 DEF Placed, mt, o

\* It stays there when nothing is mounted at or above the pathname.
LEMMA PlacedKept ==
    ASSUME NEW st, IsSetup(st), NEW p, IsPathname(p), NEW source, Placed(st, p, source),
           NEW M, AreMade(M), ~Loose(M), \A d \in M : ~Under(p, d.target),
           NEW t, Follows(st, t, M)
    PROVE  Placed(t, p, source)
<1> DEFINE a == st.mounts
           b == t.mounts
<1>1. p \in DOMAIN t.nodes
  BY DEF Placed, Follows
<1>2. IsSetup(t) /\ Grown(a, b, M)
  BY DEF Follows
<1>3. DOMAIN a = 1..Len(a) /\ DOMAIN b = 1..Len(b) /\ Len(a) \in Nat /\ Len(b) \in Nat
  BY <1>2, SetupLength
<1>4. PICK v \in DOMAIN a :
          /\ Under(p, a[v].at)
          /\ \A c \in DOMAIN a : c >= v /\ Under(p, a[c].at) =>
                a[c].at = p /\ a[c].source = source
  BY DEF Placed
<1> HIDE DEF a, b
<1>5. v \in DOMAIN b /\ Under(p, b[v].at)
  BY <1>2, <1>3, <1>4 DEF Grown
<1>6. ASSUME NEW c \in DOMAIN b, c >= v, Under(p, b[c].at)
      PROVE  b[c].at = p /\ b[c].source = source
  <2>1. c \in 1..Len(a)
    <3>1. ASSUME c > Len(a) PROVE FALSE
      <4>1. PICK d \in M : From(b[c], d)
        BY <1>2, <1>3, <3>1 DEF Grown
      <4> DEFINE m == b[c]
      <4>2. From(m, d) /\ Under(p, m.at)
        BY <1>6, <4>1
      <4> HIDE DEF m
      <4>3. IsPathname(m.at) /\ Under(m.at, d.target) /\ IsPathname(d.target)
        BY <4>2, FromUnder DEF AreMade
      <4>4. Under(p, d.target)
        BY <4>2, <4>3, UnderTrans
      <4> QED
        BY <4>4
    <3> QED
      BY <1>3, <3>1
  <2>2. b[c].at = a[c].at /\ b[c].source = a[c].source
    BY <1>2, <2>1 DEF Grown
  <2> QED
    BY <1>3, <1>4, <1>6, <2>1, <2>2
<1> QED
  BY <1>1, <1>5, <1>6 DEF Placed, b

\* The table of a bind has the bind behind the mounts that were there.
LEMMA BindTableMounts ==
    ASSUME NEW mt, IsMounts(mt), NEW source, IsPathname(source), source # Missing,
           NEW target, IsPathname(target), NEW flags
    PROVE  /\ IsMounts(BindTable(mt, source, target, flags))
           /\ Len(mt) + 1 \in 1..Len(BindTable(mt, source, target, flags))
           /\ BindTable(mt, source, target, flags)[Len(mt) + 1].at = target
<1> DEFINE own == HostMounts[Owner(HostMounts, source)].flags
           entry == [at |-> target, flags |-> own, source |-> source]
           d == [source |-> source, target |-> target]
           inner == Inner(source, target, flags)
           b == Append(mt, entry)
           t == BindTable(mt, source, target, flags)
           n == Len(mt)
           M == {d}
<1>1. t = b \o inner
  BY DEF BindTable
<1>2. entry.at = target /\ IsEntry(entry) /\ From(entry, d)
  BY DEF IsEntry, IsMount, From
<1>3. IsMounts(inner) /\ \A v \in DOMAIN inner : From(inner[v], d)
  <2>1. d = [source |-> source, target |-> target]
    OBVIOUS
  <2> HIDE DEF d
  <2> QED
    BY <2>1, InnerMounts
<1> HIDE DEF entry, d, inner, t
<1>4. IsMounts(b) /\ Len(b) = n + 1 /\ b[n + 1] = entry /\ n \in Nat
  <2>1. IsTable(mt)
    BY DEF IsMounts
  <2>2. Len(b) = n + 1 /\ b[n + 1] = entry /\ n \in Nat
    BY <2>1, TableAppend, TableSeq
  <2>3. \E e \in M : From(entry, e)
    BY <1>2
  <2> HIDE DEF M, b
  <2>4. IsMounts(Append(mt, entry))
    BY <1>2, <2>3, MountsAppend
  <2> QED
    BY <2>2, <2>4 DEF b
<1> HIDE DEF b
<1>5. IsMounts(t)
  <2>1. \A v \in DOMAIN inner : \E e \in M : From(inner[v], e)
    BY <1>3
  <2> HIDE DEF M
  <2> QED
    BY <1>1, <1>3, <1>4, <2>1, MountsConcat
<1>6. /\ Len(t) = Len(b) + Len(inner) /\ Len(inner) \in Nat
      /\ \A v \in 1..Len(b) : t[v] = b[v]
  <2>1. IsTable(b) /\ IsTable(inner)
    BY <1>3, <1>4 DEF IsMounts
  <2> QED
    BY <1>1, <2>1, TableConcat, TableSeq
<1> HIDE DEF n
<1>7. n + 1 \in 1..Len(t) /\ n + 1 \in 1..Len(b)
  BY <1>4, <1>6
<1>8. t[n + 1] = entry
  BY <1>4, <1>6, <1>7
<1> QED
  BY <1>2, <1>5, <1>7, <1>8 DEF t, n

\* A bind that has succeeded shows its source at its target.
LEMMA BindPlaced ==
    ASSUME NEW st, IsSetup(st), NEW source, IsPathname(source), source # Missing,
           source \in DOMAIN st.host, NEW target, IsPathname(target), NEW flags,
           Real(st, target) = target, NEW t, t = bindMount(st, source, target, flags), t.ok
    PROVE  Placed(t, target, source)
<1> DEFINE d == [source |-> source, target |-> target]
           M == {d}
           bt == BindTable(st.mounts, source, target, flags)
           n == Len(st.mounts)
           b == t.mounts
           v == n + 1
           at == Real(t, target)
<1>1. /\ Follows(st, t, M) /\ b = remount(bt, at, flags) /\ target \in DOMAIN t.nodes
      /\ ~Loose(M)
  <2>1. [source |-> source, target |-> target] \in M /\ ~Loose(M)
    BY DEF Loose
  <2> HIDE DEF M
  <2> QED
    BY <2>1, BindMountFollows
<1> HIDE DEF at
<1>2. IsMounts(bt) /\ v \in 1..Len(bt) /\ bt[v].at = target
  <2>1. IsMounts(st.mounts)
    BY DEF IsSetup
  <2> QED
    BY <2>1, BindTableMounts
<1>3. AreMade(M) /\ d.target = target /\ d.source = source
  BY DEF AreMade
<1>4. \A e \in M : e = d
  OBVIOUS
<1>5. d \in M
  OBVIOUS
<1>6. n \in Nat
  BY SetupLength
<1>7. IsSetup(t) /\ Grown(st.mounts, b, M)
  BY <1>1 DEF Follows
<1>8. DOMAIN b = 1..Len(b) /\ Len(b) \in Nat
  BY <1>7, SetupLength
<1> HIDE DEF d, M, bt, b
<1>9. Len(bt) <= Len(b) /\ \A c \in 1..Len(bt) : b[c].at = bt[c].at
  <2>1. Grown(bt, b, M)
    BY <1>1, <1>2, RemountMounts
  <2> QED
    BY <2>1 DEF Grown
<1>10. Len(bt) \in Nat
  BY <1>2, TableSeq DEF IsMounts
<1> HIDE DEF v
<1>11. v \in DOMAIN b /\ b[v].at = target
  BY <1>2, <1>8, <1>9, <1>10
<1>12. Under(target, b[v].at)
  BY <1>11, UnderSelf
<1>13. ASSUME NEW c \in DOMAIN b, c >= v, Under(target, b[c].at)
       PROVE  b[c].at = target /\ b[c].source = source
  <2>1. c \in 1..Len(b) /\ c > n
    BY <1>6, <1>8, <1>13 DEF v
  <2>2. From(b[c], d)
    BY <1>1, <1>4, <1>7, <2>1 DEF Grown, n
  <2> DEFINE m == b[c]
  <2>3. From(m, d) /\ Under(target, m.at)
    BY <1>13, <2>2
  <2> HIDE DEF m
  <2>4. IsPathname(m.at) /\ Under(m.at, target) /\ (m.at = target => m.source = source)
    BY <1>3, <1>5, <2>3, FromUnder
  <2>5. m.at = target
    BY <2>3, <2>4, UnderEach
  <2> QED
    BY <2>4, <2>5 DEF m
<1> QED
  BY <1>1, <1>11, <1>12, <1>13 DEF Placed, b

\* The phases from the first operation of apply on.
Applied == {"apply"} \cup FromDetach

\* They are entered before the first operation, and leave the setup as apply has made it.
LEMMA AppliedPhases ==
    ASSUME SetupInv, ContainerInv, [Next]_vars, ~ApplyOp, pc' \in Applied
    PROVE  UNCHANGED << cfg, k, setup >> /\ (pc \in Applied \/ k = 1)
<1> USE DEF Applied, FromDetach, FromSysroot, FromCaps, FromFilter, FromStart, Running
<1>1. CASE UNCHANGED vars
  BY <1>1 DEF vars, setupVars
<1>2. CASE EarlyOp \/ EarlyDone
  BY <1>2 DEF EarlyOp, EarlyDone, Phase, Fatal, Exit
<1>3. CASE (InitStep \/ SetupFail) /\ ~EarlyOp /\ ~EarlyDone
  <2>1. UNCHANGED << cfg, k, setup >>
    BY <1>3 DEF InitStep, SetupFail, Receive, ReceiveFail, UserMap, RSlave, Intermediate,
        ApplyDone, DetachHost, PivotSysroot, DropCaps, LoadFilter, StartProgram, Notify, Fatal,
        Phase, setupVars
  <2>2. pc \in Applied \/ pc = "intermediate"
    BY <1>3 DEF InitStep, SetupFail, Receive, ReceiveFail, UserMap, RSlave, Intermediate,
        ApplyDone, DetachHost, PivotSysroot, DropCaps, LoadFilter, StartProgram, Notify, Fatal,
        Exit, Phase
  <2> QED
    BY <2>1, <2>2 DEF SetupInv
<1>4. CASE Next /\ ~InitStep /\ ~SetupFail
  <2>1. UNCHANGED << cfg, k, setup >>
    BY <1>4 DEF Next, ParentStep, Start, StartFail, Serve, ServeFail, Wait, CancelContext,
        DeliverCancel, Kill, Adopt, ProcExit, SendSignal, WaitThread, Reap, Report, NoChild,
        LoopStep, HandleSignal, HandleReaped, HandleClosed, HandleTimeout, Elapse, setupVars
  <2>2. pc' = pc
    BY <1>4 DEF Next, ParentStep, Start, StartFail, Serve, ServeFail, Wait, CancelContext,
        DeliverCancel, Deliver, Exit, Kill, Adopt, ProcExit, SendSignal, WaitThread, Reap,
        Report, NoChild, LoopStep, HandleSignal, HandleReaped, HandleClosed, HandleTimeout, Elapse
  <2> QED
    BY <2>1, <2>2
<1> QED
  BY <1>1, <1>2, <1>3, <1>4

\* Operation i binds socket s, and none after it may cover that.
LastBind(c, i, s) ==
    /\ i \in DOMAIN c.ops /\ BindsSocket(c.ops[i], s)
    /\ \A j \in DOMAIN c.ops : j > i => ~MayCover(c.ops[j], s.at)

\* Every socket that has been bound for good is where it was bound.
SocketInv ==
    pc \in Applied =>
        \A s \in cfg.sockets : \A i \in DOMAIN cfg.ops :
            i < k /\ LastBind(cfg, i, s) => Placed(setup, s.at, s.source)

\* An operation binds a socket, or leaves it where it is.
LEMMA SocketApply ==
    ASSUME SetupInv, Arranged, SocketInv, ApplyOp
    PROVE  SocketInv'
<1> DEFINE n == Len(cfg.ops)
           o == cfg.ops[k]
           final == setup.final[k]
           M == Made(o, final)
<1>1. /\ pc = "apply" /\ n \in Nat /\ k \in 1..n
      /\ IsEarly(o, final, setup.host) /\ IsFinal(o, final)
  BY AppliedOp
<1>2. CASE UNCHANGED << cfg, k, setup >> /\ pc' = "exited"
  BY <1>2 DEF SocketInv, Applied, FromDetach, FromSysroot, FromCaps, FromFilter, FromStart, Running
<1>3. CASE /\ setup' = apply(setup, k, o) /\ setup'.ok /\ k' = k + 1 /\ UNCHANGED << cfg, pc >>
           /\ Direct(setup, o) => Follows(setup, setup', M)
  <2> SUFFICES ASSUME NEW s \in cfg.sockets, NEW i \in DOMAIN cfg.ops, i < k', LastBind(cfg, i, s)
               PROVE  Placed(setup', s.at, s.source)
    BY <1>3 DEF SocketInv
  <2>1. DOMAIN cfg.ops = 1..n /\ cfg \in Configs /\ IsSetup(setup)
    <3>1. cfg \in Configs /\ IsSetup(setup)
      BY DEF SetupInv
    <3> DEFINE R == Range(cfg.ops)
    <3>2. cfg.ops \in Seq(R)
      BY <3>1, ContainerAssumption
    <3> HIDE DEF R
    <3> QED
      BY <3>1, <3>2
  <2>2. /\ BindsSocket(cfg.ops[i], s)
        /\ \A j \in DOMAIN cfg.ops : j > i => ~MayCover(cfg.ops[j], s.at)
    BY DEF LastBind
  <2>3. IsPathname(s.at)
    BY <2>1, <2>2, OpOfConfig DEF BindsSocket
  <2>4. Direct(setup, o) /\ Follows(setup, setup', M)
    <3>1. OpLeft /\ cfg.sockets # {}
      BY <1>1 DEF OpLeft
    <3>2. Direct(setup, o)
      BY <1>1, <3>1 DEF Arranged, Op
    <3> QED
      BY <1>3, <3>2
  <2>5. CASE i = k
    <3>1. /\ o.kind = "bind" /\ "optional" \notin o.flags /\ o.target = s.at
          /\ Resolve(o.source) = s.source
      BY <2>2, <2>5 DEF BindsSocket
    <3>2. final = s.source /\ final # Missing /\ final \in DOMAIN setup.host
      BY <1>1, <3>1 DEF IsEarly
    <3>3. IsPathname(final)
      BY <2>1, <3>2 DEF IsSetup
    <3>4. setup' = BindApply(setup, o, final)
      BY <1>3, <3>1 DEF apply
    <3> DEFINE flags == BindFlags(o)
    <3>5. IsPathname(o.target) /\ OnTheWay(setup.links, o.target) = {} /\ Loose(Anything)
      BY <2>3, <2>4, <3>1, AnythingLoose DEF Direct
    <3> HIDE DEF o, final
    <3>6. PICK u : /\ IsSetup(u) /\ u.host = setup.host /\ u.links = setup.links
                   /\ setup' = bindMount(u, final, o.target, flags)
      BY <1>3, <2>1, <3>2, <3>3, <3>4, <3>5, BindApplyFollows
    <3> HIDE DEF flags
    <3>7. Real(u, o.target) = o.target
      BY <3>5, <3>6, RealClear
    <3>8. Placed(setup', o.target, final)
      BY <1>3, <3>2, <3>3, <3>5, <3>6, <3>7, BindPlaced
    <3> QED
      BY <3>1, <3>2, <3>8
  <2>6. CASE i # k
    <3>1. i < k /\ k > i /\ k \in DOMAIN cfg.ops
      BY <1>1, <1>3, <2>1, <2>6
    <3>2. Placed(setup, s.at, s.source)
      BY <1>1, <3>1 DEF SocketInv, Applied
    <3>3. ~MayCover(o, s.at)
      BY <2>2, <3>1
    <3> DEFINE p == s.at
    <3>4. IsPathname(p) /\ ~MayCover(o, p) /\ Placed(setup, p, s.source)
      BY <2>3, <3>2, <3>3
    <3> HIDE DEF o, final, p
    <3>5. AreMade(M) /\ ~Loose(M) /\ \A d \in M : ~Under(p, d.target)
      BY <1>1, <3>4, MadeNames, MadeStrict, MadeCovers
    <3> HIDE DEF M
    <3>6. Placed(setup', p, s.source)
      BY <2>1, <2>4, <3>4, <3>5, PlacedKept
    <3> QED
      BY <3>6 DEF p
  <2> QED
    BY <2>5, <2>6
<1> QED
  BY <1>2, <1>3, AppliedOp

\* Every step leaves the sockets where they are.
LEMMA SocketStep ==
    ASSUME SetupInv, ContainerInv, Arranged, SocketInv, [Next]_vars
    PROVE  SocketInv'
<1>1. CASE ApplyOp
  BY <1>1, SocketApply
<1>2. CASE ~ApplyOp
  <2> SUFFICES ASSUME pc' \in Applied PROVE SocketInv'
    BY DEF SocketInv
  <2>1. UNCHANGED << cfg, k, setup >> /\ (pc \in Applied \/ k = 1)
    BY <1>2, AppliedPhases
  <2>2. CASE pc \in Applied
    BY <2>1, <2>2 DEF SocketInv
  <2>3. CASE k = 1
    <3>1. \A i \in DOMAIN cfg.ops : ~(i < k)
      <4>1. cfg \in Configs
        BY DEF SetupInv
      <4> DEFINE R == Range(cfg.ops)
      <4>2. cfg.ops \in Seq(R)
        BY <4>1, ContainerAssumption
      <4> HIDE DEF R
      <4>3. DOMAIN cfg.ops = 1..Len(cfg.ops) /\ Len(cfg.ops) \in Nat
        BY <4>2
      <4> QED
        BY <2>3, <4>3
    <3> QED
      BY <2>1, <3>1 DEF SocketInv
  <2> QED
    BY <2>1, <2>2, <2>3
<1> QED
  BY <1>1, <1>2

\* The operations of the configuration are in order.
Ordered == SocketsLast(cfg) /\ HiddenCovered(cfg)

\* They are from the start on: the configuration is given.
LEMMA OrderedKept ==
    /\ Init /\ Arranged => Ordered
    /\ Ordered /\ [Next]_vars => Ordered'
<1>1. Init /\ Arranged => Ordered
  BY DEF Init, Arranged, Ordered
<1>2. ASSUME [Next]_vars PROVE cfg' = cfg
  BY <1>2 DEF vars, setupVars, Next, ParentStep, Start, StartFail, Serve, ServeFail, Wait,
      CancelContext, DeliverCancel, Kill, InitStep, SetupFail, Receive, ReceiveFail, UserMap,
      RSlave, EarlyOp, EarlyDone, Intermediate, ApplyOp, ApplyDone, DetachHost, PivotSysroot,
      DropCaps, LoadFilter, StartProgram, Notify, Fatal, Phase, Adopt, ProcExit, SendSignal,
      WaitThread, Reap, Report, NoChild, LoopStep, HandleSignal, HandleReaped, HandleClosed,
      HandleTimeout, Elapse
<1> QED
  BY <1>1, <1>2 DEF Ordered

(***************************************************************************)
(* The program finds every socket its environment names, in every          *)
(* container whose operations are Arranged: each socket is bound, nothing  *)
(* is mounted at or above it later, and no link is on the way of a mount   *)
(* or of the program.  No operation then undoes what an earlier one has    *)
(* put elsewhere, neither the files below their directories nor the order  *)
(* of the mount table.                                                     *)
(***************************************************************************)
THEOREM AlwaysReachable == Spec /\ []Arranged => []SocketsReachable
<1> DEFINE Inv == ContainerInv /\ SetupInv /\ SocketInv /\ Ordered
<1>1. Init /\ Arranged => Inv
  <2>1. Init => SocketInv
    BY DEF Init, SocketInv, Applied, FromDetach, FromSysroot, FromCaps, FromFilter, FromStart,
        Running
  <2> QED
    BY <2>1, ContainerInit, SetupInit, OrderedKept
<1>2. Inv /\ Arranged /\ [Next]_vars => Inv'
  BY ContainerStep, SetupStep, SocketStep, OrderedKept
<1>3. Inv /\ Arranged => SocketsReachable
  <2> SUFFICES ASSUME ContainerInv, SetupInv, SocketInv, Ordered, Arranged, pc = "notify",
                      NEW s \in cfg.sockets, NEW p, p = Seen(setup, s.at)
               PROVE  /\ p \in DOMAIN setup.nodes
                      /\ setup.mounts[Owner(setup.mounts, p)].at = p
                      /\ setup.mounts[Owner(setup.mounts, p)].source = s.source
    BY DEF SocketsReachable
  <2>1. /\ cfg \in Configs /\ k \in Nat /\ ~(k <= Len(cfg.ops)) /\ IsSetup(setup)
        /\ Len(cfg.ops) \in Nat
    BY OpsLength DEF ContainerInv, ConfinedInv, Progress, OpLeft, SetupInv, FromDetach,
        FromSysroot, FromCaps, FromFilter, FromStart, Running
  <2>2. PICK i \in DOMAIN cfg.ops : LastBind(cfg, i, s)
    BY DEF Ordered, SocketsLast, LastBind
  <2>3. i < k
    <3> DEFINE R == Range(cfg.ops)
    <3>1. cfg.ops \in Seq(R)
      BY <2>1, ContainerAssumption
    <3> HIDE DEF R
    <3>2. DOMAIN cfg.ops = 1..Len(cfg.ops)
      BY <3>1
    <3> QED
      BY <2>1, <3>2
  <2>4. Placed(setup, s.at, s.source)
    BY <2>2, <2>3 DEF SocketInv, Applied, FromDetach, FromSysroot, FromCaps, FromFilter,
        FromStart, Running
  <2>5. p = s.at
    <3>1. OnTheWay(setup.links, s.at) = {}
      BY DEF Arranged
    <3> QED
      BY <3>1, RealClear
  <2> QED
    BY <2>1, <2>4, <2>5, PlacedFound
<1> HIDE DEF Inv
<1> QED
  BY <1>1, <1>2, <1>3, PTL DEF Spec

-----------------------------------------------------------------------------
\* As RebasedNames, with the pathname itself.
LEMMA RebasedEach ==
    ASSUME NEW a, NEW from, NEW to, IsPathname(a), IsPathname(from), IsPathname(to),
           Under(a, from)
    PROVE  IsRebased(Rebased(a, from, to), a, from, to)
<1>1. Len(a) \in Nat /\ Len(from) \in Nat /\ Len(to) \in Nat
  BY PathnameSeq
<1>2. CASE a # from
  BY <1>2, RebasedNames
<1>3. CASE a = from
  <2> DEFINE R == Range(a)
             T == Range(to)
             l == Len(a)
  <2>1. a \in Seq(R) /\ to \in Seq(T)
    BY PathnameSeq
  <2> HIDE DEF R, T
  <2>2. SubSeq(a, l + 1, l) = << >>
    BY <1>1, <2>1
  <2>3. to \o << >> = to
    BY <2>1
  <2>4. Rebased(a, from, to) = to
    BY <1>3, <2>2, <2>3 DEF Rebased
  <2>5. l - l = 0 /\ Len(to) + 0 = Len(to)
    BY <1>1
  <2> HIDE DEF l
  <2>6. /\ Len(to) = Len(to) + (l - l)
        /\ \A i \in 1..(l - l) : FALSE
    BY <1>1, <2>5
  <2>7. IsRebased(to, a, a, to)
    BY <2>6 DEF IsRebased, l
  <2> QED
    BY <1>3, <2>4, <2>7
<1> QED
  BY <1>2, <1>3

\* To take a pathname along by way of one above it makes no difference.
LEMMA RebasedTwice ==
    ASSUME NEW h, NEW s, NEW from, NEW to, IsPathname(h), IsPathname(s), IsPathname(from),
           IsPathname(to), Under(h, s), Under(s, from)
    PROVE  Rebased(h, s, Rebased(s, from, to)) = Rebased(h, from, to)
<1> DEFINE x == Rebased(s, from, to)
           y == Rebased(h, s, x)
           z == Rebased(h, from, to)
           lh == Len(h)
           ls == Len(s)
           lf == Len(from)
           lt == Len(to)
<1>1. /\ IsPathname(x) /\ Len(x) = lt + (ls - lf)
      /\ \A i \in 1..lt : x[i] = to[i]
      /\ \A i \in 1..(ls - lf) : x[lt + i] = s[lf + i]
  <2>1. IsRebased(x, s, from, to)
    BY RebasedEach
  <2> HIDE DEF x
  <2> QED
    BY <2>1 DEF IsRebased
<1> HIDE DEF x
<1>2. /\ IsPathname(y) /\ Len(y) = Len(x) + (lh - ls)
      /\ \A i \in 1..Len(x) : y[i] = x[i]
      /\ \A i \in 1..(lh - ls) : y[Len(x) + i] = h[ls + i]
  <2>1. IsRebased(y, h, s, x)
    BY <1>1, RebasedEach
  <2> HIDE DEF y
  <2> QED
    BY <2>1 DEF IsRebased
<1>3. /\ IsPathname(z) /\ Len(z) = lt + (lh - lf)
      /\ \A i \in 1..lt : z[i] = to[i]
      /\ \A i \in 1..(lh - lf) : z[lt + i] = h[lf + i]
  <2>1. Under(h, from)
    BY UnderTrans
  <2>2. IsRebased(z, h, from, to)
    BY <2>1, RebasedEach
  <2> HIDE DEF z
  <2> QED
    BY <2>2 DEF IsRebased
<1>4. lh \in Nat /\ ls \in Nat /\ lf \in Nat /\ lt \in Nat
  BY PathnameSeq
<1>5. ls <= lh /\ lf <= ls /\ \A i \in 1..ls : h[i] = s[i]
  BY UnderNames
<1> HIDE DEF y, z, lh, ls, lf, lt
<1>6. Len(y) = Len(z)
  BY <1>1, <1>2, <1>3, <1>4, <1>5
<1>7. ASSUME NEW v \in 1..Len(z) PROVE y[v] = z[v]
  <2>1. v \in Nat /\ v >= 1 /\ v <= lt + (lh - lf)
    BY <1>3, <1>4
  <2>2. CASE v <= lt
    <3>1. v \in 1..lt /\ v \in 1..Len(x)
      BY <1>1, <1>4, <1>5, <2>1, <2>2
    <3> QED
      BY <1>1, <1>2, <1>3, <3>1
  <2>3. CASE lt < v /\ v <= Len(x)
    <3> DEFINE i == v - lt
    <3>1. /\ i \in 1..(ls - lf) /\ i \in 1..(lh - lf) /\ lf + i \in 1..ls
          /\ lt + i = v /\ v \in 1..Len(x)
      BY <1>1, <1>2, <1>4, <1>5, <2>1, <2>3
    <3> HIDE DEF i
    <3>2. y[v] = x[v] /\ x[lt + i] = s[lf + i] /\ h[lf + i] = s[lf + i] /\ z[lt + i] = h[lf + i]
      BY <1>1, <1>2, <1>3, <1>5, <3>1
    <3> QED
      BY <3>1, <3>2
  <2>4. CASE v > Len(x)
    <3> DEFINE i == v - lt
               j == v - Len(x)
    <3>1. /\ i \in 1..(lh - lf) /\ j \in 1..(lh - ls) /\ lt + i = v /\ Len(x) + j = v
          /\ lf + i = ls + j
      BY <1>1, <1>2, <1>4, <1>5, <2>1, <2>4
    <3> HIDE DEF i, j
    <3>2. y[Len(x) + j] = h[ls + j] /\ z[lt + i] = h[lf + i]
      BY <1>2, <1>3, <3>1
    <3> QED
      BY <3>1, <3>2
  <2>5. Len(x) \in Nat
    BY <1>1, PathnameSeq
  <2> QED
    BY <1>4, <2>1, <2>2, <2>3, <2>4, <2>5
<1>8. y = [i \in 1..Len(y) |-> y[i]] /\ z = [i \in 1..Len(z) |-> z[i]]
  BY <1>2, <1>3, PathnameSeq
<1>9. y = z
  BY <1>6, <1>7, <1>8
<1> QED
  BY <1>9 DEF x, y, z

\* What shows a file below c of the host is at or below where c shows.
LEMMA RebasedBack ==
    ASSUME NEW p, NEW at, NEW source, NEW c, IsPathname(p), IsPathname(at), IsPathname(source),
           IsPathname(c), Under(p, at), Under(Rebased(p, at, source), c), Under(c, source)
    PROVE  Under(p, Rebased(c, source, at))
<1> DEFINE h == Rebased(p, at, source)
           w == Rebased(c, source, at)
           lp == Len(p)
           la == Len(at)
           ls == Len(source)
           lc == Len(c)
<1>1. /\ IsPathname(h) /\ Len(h) = ls + (lp - la)
      /\ \A i \in 1..(lp - la) : h[ls + i] = p[la + i]
  <2>1. IsRebased(h, p, at, source)
    BY RebasedEach
  <2> HIDE DEF h
  <2> QED
    BY <2>1 DEF IsRebased
<1>2. /\ IsPathname(w) /\ Len(w) = la + (lc - ls)
      /\ \A i \in 1..la : w[i] = at[i]
      /\ \A i \in 1..(lc - ls) : w[la + i] = c[ls + i]
  <2>1. IsRebased(w, c, source, at)
    BY RebasedEach
  <2> HIDE DEF w
  <2> QED
    BY <2>1 DEF IsRebased
<1>3. lp \in Nat /\ la \in Nat /\ ls \in Nat /\ lc \in Nat
  BY PathnameSeq
<1>4. la <= lp /\ ls <= lc /\ \A i \in 1..la : p[i] = at[i]
  BY UnderNames
<1> HIDE DEF h
<1>5. lc <= Len(h) /\ \A i \in 1..lc : h[i] = c[i]
  <2>1. Under(h, c)
    BY DEF h
  <2> QED
    BY <1>1, <2>1, UnderNames
<1> HIDE DEF w, lp, la, ls, lc
<1>6. Len(w) <= lp
  BY <1>1, <1>2, <1>3, <1>4, <1>5
<1>7. ASSUME NEW v \in 1..Len(w) PROVE p[v] = w[v]
  <2>1. v \in Nat /\ v >= 1 /\ v <= la + (lc - ls)
    BY <1>2, <1>3
  <2>2. CASE v <= la
    <3>1. v \in 1..la
      BY <1>3, <2>1, <2>2
    <3> QED
      BY <1>2, <1>4, <3>1
  <2>3. CASE v > la
    <3> DEFINE i == v - la
    <3>1. i \in 1..(lc - ls) /\ i \in 1..(lp - la) /\ ls + i \in 1..lc /\ la + i = v
      BY <1>1, <1>2, <1>3, <1>4, <1>5, <2>1, <2>3
    <3> HIDE DEF i
    <3>2. w[la + i] = c[ls + i] /\ h[ls + i] = c[ls + i] /\ h[ls + i] = p[la + i]
      BY <1>1, <1>2, <1>5, <3>1
    <3> QED
      BY <3>1, <3>2
  <2> QED
    BY <1>3, <2>1, <2>2, <2>3
<1>8. Under(p, w)
  BY <1>2, <1>6, <1>7, UnderNames DEF lp
<1> QED
  BY <1>8 DEF w

\* Of two pathnames above one, one is above the other.
LEMMA UnderBoth ==
    ASSUME NEW h, NEW a, NEW b, IsPathname(h), IsPathname(a), IsPathname(b),
           Under(h, a), Under(h, b)
    PROVE  Under(a, b) \/ Under(b, a)
<1>1. Len(a) \in Nat /\ Len(b) \in Nat
  BY PathnameSeq
<1>2. (\A i \in 1..Len(a) : h[i] = a[i]) /\ (\A i \in 1..Len(b) : h[i] = b[i])
  BY UnderNames
<1>3. CASE Len(a) <= Len(b)
  <2>1. \A i \in 1..Len(a) : i \in 1..Len(b)
    BY <1>1, <1>3
  <2>2. \A i \in 1..Len(a) : b[i] = a[i]
    BY <1>2, <2>1
  <2> QED
    BY <1>3, <2>2, UnderNames
<1>4. CASE Len(b) <= Len(a)
  <2>1. \A i \in 1..Len(b) : i \in 1..Len(a)
    BY <1>1, <1>4
  <2>2. \A i \in 1..Len(b) : a[i] = b[i]
    BY <1>2, <2>1
  <2> QED
    BY <1>4, <2>2, UnderNames
<1> QED
  BY <1>1, <1>3, <1>4

\* An entry of a directory with no link on its way leads to itself unless it is a link.
LEMMA EntryResolves ==
    ASSUME NEW dir, IsPathname(dir), OnTheWay(HostLinks, dir) = {}, NEW e, IsPathname(e),
           Len(e) = Len(dir) + 1, Under(e, dir), e \notin DOMAIN HostLinks
    PROVE  Resolve(e) = e
<1> DEFINE leads == Leads(HostLinks)
           R == Range(e)
           D == Range(dir)
<1>1. Len(e) \in Nat /\ Len(dir) \in Nat /\ e \in Seq(R) /\ dir \in Seq(D)
  BY PathnameSeq
<1>2. \A j \in 1..Len(dir) : e[j] = dir[j]
  BY UnderNames
<1>3. DOMAIN leads = DOMAIN HostLinks /\ Resolve(e) = Follow(leads, e)
  BY DEF Leads, Resolve
<1> HIDE DEF R, D, leads
<1>4. ASSUME NEW n \in OnTheWay(leads, e) PROVE FALSE
  <2>1. n \in 1..Len(e) /\ SubSeq(e, 1, n) \in DOMAIN HostLinks
    BY <1>3, <1>4 DEF OnTheWay
  <2>2. CASE n <= Len(dir)
    <3>1. n \in 1..Len(dir)
      BY <1>1, <2>1, <2>2
    <3>2. SubSeq(e, 1, n) = SubSeq(dir, 1, n)
      BY <1>1, <1>2, <3>1
    <3> QED
      BY <2>1, <3>1, <3>2 DEF OnTheWay
  <2>3. CASE n > Len(dir)
    <3>1. n = Len(e)
      BY <1>1, <2>1, <2>3
    <3>2. SubSeq(e, 1, n) = e
      BY <1>1, <3>1
    <3> QED
      BY <2>1, <3>2
  <2> QED
    BY <1>1, <2>1, <2>2, <2>3
<1>5. OnTheWay(leads, e) = {}
  BY <1>4
<1> QED
  BY <1>3, <1>5, FollowClear

\* The bind mounts an operation makes that show a pathname of the host are those Shows names.
LEMMA MadeShows ==
    ASSUME NEW op, NEW final, NEW host, IsEarly(op, final, host), IsFinal(op, final),
           op.kind = "root" => IsPathname(op.host) /\ OnTheWay(HostLinks, op.host) = {},
           NEW h, IsPathname(h),
           NEW d \in Made(op, final), d.source # Missing, Under(h, d.source)
    PROVE  \E e \in Shows(op, h) : e.source = d.source /\ e.target = d.target
<1>1. CASE op.kind = "bind"
  <2>1. final # Missing /\ d = [source |-> final, target |-> op.target]
    BY <1>1 DEF Made
  <2>2. final = Resolve(op.source)
    BY <1>1, <2>1 DEF IsEarly
  <2>3. [source |-> Resolve(op.source), target |-> op.target] \in Shows(op, h)
    BY <1>1 DEF Shows
  <2> QED
    BY <2>1, <2>2, <2>3
<1>2. CASE op.kind = "root"
  <2>1. PICK n \in DOMAIN final : d = [source |-> final[n].final, target |-> final[n].target]
    BY <1>2 DEF Made
  <2> DEFINE b == final[n]
  <2>2. OfEntry(op, b) /\ d.source = b.final /\ d.target = b.target
    BY <1>2, <2>1 DEF IsEarly
  <2> HIDE DEF b
  <2>3. PICK e : /\ IsPathname(e) /\ Len(e) = Len(op.host) + 1 /\ Under(e, op.host)
                 /\ IsAutoRootBindable(Last(e)) /\ d.target = << Last(e) >>
                 /\ d.source = Resolve(e)
    BY <2>2 DEF OfEntry
  <2> DEFINE S == {SubSeq(h, 1, i) : i \in 1..Len(h)}
  <2>4. e \in DOMAIN HostLinks \cup S
    <3>1. ASSUME e \notin DOMAIN HostLinks PROVE e \in S
      <4>1. Under(h, e)
        <5>1. Resolve(e) = e
          BY <1>2, <2>3, <3>1, EntryResolves
        <5> QED
          BY <2>3, <5>1
      <4>2. Len(e) <= Len(h) /\ \A i \in 1..Len(e) : h[i] = e[i]
        BY <2>3, <4>1, UnderNames
      <4>3. Len(e) \in Nat /\ Len(h) \in Nat /\ e = [i \in 1..Len(e) |-> e[i]]
            /\ h \in Seq(Range(h))
        BY <2>3, PathnameSeq
      <4>4. Len(op.host) \in Nat
        BY <1>2, PathnameSeq
      <4> DEFINE R == Range(h)
                 l == Len(e)
      <4>5. l \in 1..Len(h)
        <5>1. l = Len(op.host) + 1 /\ l <= Len(h)
          BY <2>3, <4>2
        <5> HIDE DEF l
        <5> QED
          BY <4>3, <4>4, <5>1
      <4>6. h \in Seq(R)
        BY <4>3
      <4> HIDE DEF R, l
      <4>7. SubSeq(h, 1, l) = [i \in 1..l |-> h[i]]
        BY <4>5, <4>6
      <4>8. e = SubSeq(h, 1, l)
        BY <4>2, <4>3, <4>7 DEF l
      <4> QED
        BY <4>5, <4>8
    <3> QED
      BY <3>1
  <2>5. e \in RootShows(op, h)
    BY <2>3, <2>4 DEF RootShows
  <2>6. [source |-> Resolve(e), target |-> << Last(e) >>] \in Shows(op, h)
    BY <1>2, <2>5 DEF Shows
  <2> QED
    BY <2>3, <2>6
<1>3. CASE op.kind = "dev"
  <2> DEFINE p == op.target
             x == [source |-> << "dev", "null" >>, target |-> Append(p, "null")]
             y == [source |-> << "dev", "tty" >>, target |-> Append(p, "console")]
  <2>1. x \in Shows(op, h) /\ y \in Shows(op, h)
    BY <1>3 DEF Shows
  <2>2. d \in DevMade(p)
    BY <1>3 DEF Made
  <2>3. d = x \/ d = y
    BY <2>2 DEF DevMade
  <2> QED
    BY <2>1, <2>3
<1>4. CASE op.kind \in {"overlay", "place", "tmpfs", "proc"}
  BY <1>4 DEF Made
<1>5. CASE op.kind \in {"etc", "link", "mkdir", "remount"}
  BY <1>5 DEF Made
<1> QED
  BY <1>1, <1>2, <1>3, <1>4, <1>5 DEF IsFinal, OpKinds

\* A tmpfs operation that has succeeded is the last mount.
LEMMA TmpfsApplied ==
    ASSUME NEW st, IsSetup(st), NEW i, NEW op, op.kind = "tmpfs", IsPathname(op.target),
           Direct(st, op), NEW t, t = apply(st, i, op), t.ok
    PROVE  /\ Len(t.mounts) = Len(st.mounts) + 1
           /\ t.mounts[Len(st.mounts) + 1].at = op.target
<1> DEFINE flags == {"nosuid", "nodev"} \cup op.flags
           p == op.target
           m == [at |-> p, flags |-> flags, source |-> Missing]
           mt == st.mounts
<1>1. t = mountTmpfs(st, p, flags)
  BY DEF apply
<1>2. OnTheWay(st.links, p) = {} /\ IsPathname(p) /\ m.at = p
  BY DEF Direct
<1>3. m = [at |-> p, flags |-> flags, source |-> Missing]
  OBVIOUS
<1>4. IsTable(mt)
  BY SetupLength
<1> HIDE DEF p, flags, m
<1>5. Real(st, p) = p /\ Loose(Anything)
  BY <1>2, RealClear, AnythingLoose
<1>6. Mounted(st, p, Empty, flags, Missing, t)
  BY <1>1, <1>2, <1>5, TmpfsFollows
<1>7. t.mounts = Append(mt, m)
  BY <1>3, <1>6 DEF Mounted
<1>8. Len(Append(mt, m)) = Len(mt) + 1 /\ Append(mt, m)[Len(mt) + 1] = m
  BY <1>4, TableAppend
<1> QED
  BY <1>2, <1>7, <1>8 DEF p

\* A tmpfs at p is among the operations from i on.
Awaited(c, i, p) ==
    \E j \in DOMAIN c.ops : j >= i /\ c.ops[j].kind = "tmpfs" /\ c.ops[j].target = p

\* Something is mounted at p after mount v.
Overlaid(mt, v, p) == \E w \in DOMAIN mt : w > v /\ mt[w].at = p

\* Wherever a mount shows h, that is mounted over, or will be.
Covers(c, i, mt, h) ==
    \A v \in DOMAIN mt : mt[v].source # Missing /\ Under(h, mt[v].source) =>
        \/ Overlaid(mt, v, Rebased(h, mt[v].source, mt[v].at))
        \/ Awaited(c, i, Rebased(h, mt[v].source, mt[v].at))

\* The first mount is the root.
Rooted(mt) == 1 \in DOMAIN mt /\ mt[1].at = << >>

\* The phases before the first operation of apply, which have no mount of a file of the host.
Unapplied == {"none", "receive", "usermap", "rslave", "early", "intermediate"}

\* Nothing of the host is mounted.
Bare(mt) == \A v \in DOMAIN mt : mt[v].source = Missing

(***************************************************************************)
(* Every mount that shows a pathname to be hidden is followed by a mount   *)
(* over it, or by an operation that makes one.                             *)
(***************************************************************************)
HideInv ==
    /\ Rooted(setup.mounts)
    /\ pc \in Unapplied => Bare(setup.mounts)
    /\ \A h \in cfg.hide : Covers(cfg, k, setup.mounts, h)

\* An operation leaves every pathname covered, or due to be.
LEMMA CoversKept ==
    ASSUME NEW st, IsSetup(st), NEW c \in Configs, HiddenCovered(c), NEW i \in 1..Len(c.ops),
           IsEarly(c.ops[i], st.final[i], st.host), IsFinal(c.ops[i], st.final[i]),
           Direct(st, c.ops[i]), NEW t, t = apply(st, i, c.ops[i]), t.ok,
           Follows(st, t, Made(c.ops[i], st.final[i])),
           NEW h \in c.hide, Covers(c, i, st.mounts, h)
    PROVE  Covers(c, i + 1, t.mounts, h)
<1> DEFINE op == c.ops[i]
           final == st.final[i]
           M == Made(op, final)
           a == st.mounts
           b == t.mounts
           n == Len(a)
<1>1. IsSetup(t) /\ Grown(a, b, M)
  BY DEF Follows
<1>2. DOMAIN a = 1..n /\ DOMAIN b = 1..Len(b) /\ n \in Nat /\ Len(b) \in Nat
  BY <1>1, SetupLength
<1>3. DOMAIN c.ops = 1..Len(c.ops) /\ Len(c.ops) \in Nat /\ i \in Nat
  <2> DEFINE R == Range(c.ops)
  <2>1. c.ops \in Seq(R)
    BY ContainerAssumption
  <2> HIDE DEF R
  <2> QED
    BY <2>1
<1>4. IsPathname(h)
  BY ContainerAssumption
<1> SUFFICES ASSUME NEW v \in DOMAIN b, b[v].source # Missing, Under(h, b[v].source)
             PROVE  \/ Overlaid(b, v, Rebased(h, b[v].source, b[v].at))
                    \/ Awaited(c, i + 1, Rebased(h, b[v].source, b[v].at))
  BY DEF Covers
<1> DEFINE p == Rebased(h, b[v].source, b[v].at)
<1>5. CASE v <= n
  <2>1. v \in DOMAIN a /\ b[v].at = a[v].at /\ b[v].source = a[v].source
    BY <1>1, <1>2, <1>5 DEF Grown
  <2>2. Overlaid(a, v, p) \/ Awaited(c, i, p)
    BY <2>1 DEF Covers
  <2> HIDE DEF p
  <2>3. CASE Overlaid(a, v, p)
    <3>1. PICK w \in DOMAIN a : w > v /\ a[w].at = p
      BY <2>3 DEF Overlaid
    <3>2. w \in DOMAIN b /\ b[w].at = p
      BY <1>1, <1>2, <3>1 DEF Grown
    <3>3. Overlaid(b, v, p)
      BY <3>1, <3>2 DEF Overlaid
    <3> QED
      BY <3>3 DEF p
  <2>4. CASE Awaited(c, i, p)
    <3>1. PICK j \in DOMAIN c.ops : j >= i /\ c.ops[j].kind = "tmpfs" /\ c.ops[j].target = p
      BY <2>4 DEF Awaited
    <3>2. CASE j = i
      <4>1. op.kind = "tmpfs" /\ op.target = p /\ t = apply(st, i, op) /\ Direct(st, op)
        BY <3>1, <3>2
      <4>2. IsPathname(op.target)
        BY <4>1, OpOfConfig
      <4> HIDE DEF op
      <4>3. Len(b) = n + 1 /\ b[n + 1].at = p
        BY <4>1, <4>2, TmpfsApplied
      <4>4. n + 1 \in DOMAIN b /\ n + 1 > v
        <5> HIDE DEF n, b
        <5> QED
          BY <1>2, <1>5, <4>3
      <4>5. Overlaid(b, v, p)
        BY <4>3, <4>4 DEF Overlaid
      <4> QED
        BY <4>5 DEF p
    <3>3. CASE j # i
      <4>1. j >= i + 1
        BY <1>3, <3>1, <3>3
      <4>2. Awaited(c, i + 1, p)
        BY <3>1, <4>1 DEF Awaited
      <4> QED
        BY <4>2 DEF p
    <3> QED
      BY <3>2, <3>3
  <2> QED
    BY <2>2, <2>3, <2>4
<1>6. CASE v > n
  <2> DEFINE m == b[v]
  <2>1. PICK d \in M : From(m, d)
    <3>1. ~Loose(M)
      <4>1. IsFinal(op, final)
        OBVIOUS
      <4> HIDE DEF op, final
      <4> QED
        BY <4>1, MadeStrict
    <3> HIDE DEF M
    <3> QED
      BY <1>1, <1>2, <1>6, <3>1 DEF Grown
  <2>2. m.source # Missing /\ Under(h, m.source) /\ p = Rebased(h, m.source, m.at)
    OBVIOUS
  <2>3. op.kind = "root" => IsPathname(op.host) /\ OnTheWay(HostLinks, op.host) = {}
    BY <1>3, OpOfConfig DEF HiddenCovered
  <2>4. IsEarly(op, final, st.host) /\ IsFinal(op, final)
    OBVIOUS
  <2>5. AreMade(M)
    <3> HIDE DEF op, final
    <3> QED
      BY <2>4, MadeNames
  <2>6. IsPathname(m.source)
    BY <1>1, <2>2 DEF IsSetup, IsMounts, IsEntry
  <2> HIDE DEF m, p
  <2>7. d.source # Missing
    BY <2>1, <2>2 DEF From
  <2>8. IsPathname(d.source) /\ IsPathname(d.target)
    BY <2>5, <2>7 DEF AreMade
  <2> DEFINE s == m.source
             from == d.source
             to == d.target
  <2>9. Under(h, from) /\ p = Rebased(h, from, to)
    <3>1. CASE m.at = to /\ s = from
      BY <2>2, <3>1
    <3>2. CASE Under(s, from) /\ m.at = Rebased(s, from, to)
      <4>1. IsPathname(s) /\ IsPathname(from) /\ IsPathname(to) /\ Under(h, s) /\ Under(s, from)
            /\ p = Rebased(h, s, Rebased(s, from, to))
        BY <2>2, <2>6, <2>8, <3>2
      <4> HIDE DEF s, from, to
      <4> QED
        BY <1>4, <4>1, UnderTrans, RebasedTwice
    <3> QED
      BY <2>1, <3>1, <3>2 DEF From
  <2>10. PICK e \in Shows(op, h) : e.source = d.source /\ e.target = d.target
    <3> HIDE DEF op, final
    <3> QED
      BY <1>4, <2>3, <2>4, <2>7, <2>9, MadeShows
  <2>11. PICK j \in DOMAIN c.ops : /\ j > i /\ c.ops[j].kind = "tmpfs"
                                   /\ c.ops[j].target = Rebased(h, e.source, e.target)
    BY <1>3, <2>9, <2>10 DEF HiddenCovered
  <2>12. j >= i + 1
    BY <1>3, <2>11
  <2>13. Awaited(c, i + 1, p)
    BY <2>9, <2>10, <2>11, <2>12 DEF Awaited
  <2> QED
    BY <2>13 DEF p
<1> QED
  BY <1>2, <1>5, <1>6

\* At the start there is the root mount alone.
LEMMA HideInit == Init => HideInv
<1> SUFFICES ASSUME Init PROVE HideInv
  OBVIOUS
<1> DEFINE n == Len(cfg.ops)
           root == [at |-> << >>, flags |-> {"nosuid", "nodev"}, source |-> Missing]
<1>1. setup = NewSetup(n)
  BY DEF Init
<1>2. root.at = << >> /\ root.source = Missing
  OBVIOUS
<1> HIDE DEF n, root
<1>3. setup.mounts = << root >>
  BY <1>1 DEF NewSetup, root
<1>4. DOMAIN << root >> = {1} /\ << root >>[1] = root
  OBVIOUS
<1>5. Rooted(setup.mounts) /\ Bare(setup.mounts)
  BY <1>2, <1>3, <1>4 DEF Rooted, Bare
<1>6. \A h : Covers(cfg, k, setup.mounts, h)
  BY <1>5 DEF Covers, Bare
<1> QED
  BY <1>5, <1>6 DEF HideInv

\* An operation of apply covers what it shows, in time.
LEMMA HideApply ==
    ASSUME SetupInv, Arranged, Ordered, HideInv, ApplyOp
    PROVE  HideInv'
<1> DEFINE n == Len(cfg.ops)
           o == cfg.ops[k]
           final == setup.final[k]
           M == Made(o, final)
<1>1. /\ pc = "apply" /\ n \in Nat /\ k \in 1..n
      /\ IsEarly(o, final, setup.host) /\ IsFinal(o, final)
  BY AppliedOp
<1>2. CASE UNCHANGED << cfg, k, setup >> /\ pc' = "exited"
  <2>1. pc' \notin Unapplied
    BY <1>2 DEF Unapplied
  <2> QED
    BY <1>2, <2>1 DEF HideInv
<1>3. CASE /\ setup' = apply(setup, k, o) /\ setup'.ok /\ k' = k + 1 /\ UNCHANGED << cfg, pc >>
           /\ Follows(setup, setup', Anything)
           /\ Direct(setup, o) => Follows(setup, setup', M)
  <2>1. cfg \in Configs /\ IsSetup(setup) /\ HiddenCovered(cfg)
    BY DEF SetupInv, Ordered
  <2>2. pc' \notin Unapplied
    BY <1>1, <1>3 DEF Unapplied
  <2>3. ASSUME NEW h \in cfg.hide PROVE Covers(cfg, k + 1, setup'.mounts, h)
    <3>1. Covers(cfg, k, setup.mounts, h)
      BY DEF HideInv
    <3>2. Direct(setup, o)
      <4>1. OpLeft /\ cfg.hide # {}
        BY <1>1 DEF OpLeft
      <4> QED
        BY <1>1, <4>1 DEF Arranged, Op
    <3> QED
      BY <1>1, <1>3, <2>1, <3>1, <3>2, CoversKept
  <2>4. Rooted(setup'.mounts)
    <3>1. IsSetup(setup') /\ Grown(setup.mounts, setup'.mounts, Anything)
      BY <1>3 DEF Follows
    <3> DEFINE a == setup.mounts
               b == setup'.mounts
    <3>2. DOMAIN a = 1..Len(a) /\ DOMAIN b = 1..Len(b) /\ Len(a) \in Nat /\ Len(b) \in Nat
      BY <2>1, <3>1, SetupLength
    <3>3. Rooted(a) /\ Grown(a, b, Anything)
      BY <3>1 DEF HideInv
    <3> HIDE DEF a, b
    <3>4. Rooted(b)
      BY <3>2, <3>3 DEF Rooted, Grown
    <3> QED
      BY <3>4 DEF b
  <2> QED
    BY <1>3, <2>2, <2>3, <2>4 DEF HideInv
<1> QED
  BY <1>2, <1>3, AppliedOp

\* The other steps mount nothing.
LEMMA HideQuiet ==
    ASSUME HideInv, cfg' = cfg, setup'.mounts = setup.mounts,
           pc' \in Unapplied => pc \in Unapplied, k' = k \/ pc \in Unapplied
    PROVE  HideInv'
<1>1. CASE k' = k
  BY <1>1 DEF HideInv
<1>2. CASE pc \in Unapplied
  <2>1. Bare(setup.mounts)
    BY <1>2 DEF HideInv
  <2>2. \A h : Covers(cfg', k', setup'.mounts, h)
    BY <2>1 DEF Bare, Covers
  <2> QED
    BY <2>1, <2>2 DEF HideInv
<1> QED
  BY <1>1, <1>2

\* Every step keeps what is to be hidden covered.
LEMMA HideStep ==
    ASSUME SetupInv, ContainerInv, Arranged, Ordered, HideInv, [Next]_vars
    PROVE  HideInv'
<1>1. CASE UNCHANGED vars
  BY <1>1, HideQuiet DEF vars, setupVars
<1>2. CASE ApplyOp
  BY <1>2, HideApply
<1>3. CASE EarlyOp
  <2> DEFINE n == Len(cfg.ops)
             o == cfg.ops[k]
             st == early(setup, k, o)
  <2>1. n \in Nat /\ k \in 1..n /\ pc = "early"
    BY <1>3, OpsLength DEF SetupInv, EarlyOp, OpLeft
  <2>2. /\ o.kind \in OpKinds /\ (o.kind = "bind" => IsPathname(o.source))
        /\ (o.kind = "root" => IsPathname(o.host)) /\ (o.kind = "link" => IsText(o.linkname))
    BY <2>1, OpOfConfig DEF SetupInv
  <2>3. IsSetup(setup) /\ IsResolved(setup, n)
    BY DEF SetupInv
  <2>4. CASE st.ok
    <3>1. setup' = st /\ UNCHANGED << cfg, pc >>
      BY <1>3, <2>4 DEF EarlyOp, Op
    <3> HIDE DEF n, o
    <3>2. Resolves(setup, st, n, k, o)
      BY <2>1, <2>2, <2>3, <2>4, EarlyResolves
    <3> HIDE DEF st
    <3>3. setup'.mounts = setup.mounts
      BY <3>1, <3>2 DEF Resolves
    <3> QED
      BY <2>1, <3>1, <3>3, HideQuiet DEF Unapplied
  <2>5. CASE ~st.ok
    <3>1. Fatal
      BY <1>3, <2>5 DEF EarlyOp, Op
    <3>2. UNCHANGED << cfg, k, setup >> /\ pc' = "exited"
      BY <3>1 DEF Fatal, Exit, setupVars
    <3>3. pc' \notin Unapplied
      BY <3>2 DEF Unapplied
    <3> QED
      BY <3>2, <3>3, HideQuiet
  <2> QED
    BY <2>4, <2>5
<1>4. CASE EarlyDone
  <2>1. UNCHANGED << cfg, setup >> /\ pc = "early"
    BY <1>4 DEF EarlyDone, Phase
  <2> QED
    BY <2>1, HideQuiet DEF Unapplied
<1>5. CASE (InitStep \/ SetupFail) /\ ~EarlyOp /\ ~EarlyDone /\ ~ApplyOp
  <2>1. UNCHANGED << cfg, k, setup >>
    BY <1>5 DEF InitStep, SetupFail, Receive, ReceiveFail, UserMap, RSlave, Intermediate,
        ApplyDone, DetachHost, PivotSysroot, DropCaps, LoadFilter, StartProgram, Notify, Fatal,
        Phase, setupVars
  <2>2. pc' \in Unapplied => pc \in Unapplied
    BY <1>5 DEF InitStep, SetupFail, Receive, ReceiveFail, UserMap, RSlave, Intermediate,
        ApplyDone, DetachHost, PivotSysroot, DropCaps, LoadFilter, StartProgram, Notify, Fatal,
        Exit, Phase, Unapplied
  <2> QED
    BY <2>1, <2>2, HideQuiet
<1>6. CASE Next /\ ~InitStep /\ ~SetupFail
  <2>1. UNCHANGED << cfg, k, setup >>
    BY <1>6 DEF Next, ParentStep, Start, StartFail, Serve, ServeFail, Wait, CancelContext,
        DeliverCancel, Kill, Adopt, ProcExit, SendSignal, WaitThread, Reap, Report, NoChild,
        LoopStep, HandleSignal, HandleReaped, HandleClosed, HandleTimeout, Elapse, setupVars
  <2>2. pc' \in Unapplied => pc \in Unapplied
    <3>1. CASE Start
      BY <3>1 DEF Start, ContainerInv, Unstarted, Unapplied
    <3>2. CASE ~Start
      BY <1>6, <3>2 DEF Next, ParentStep, StartFail, Serve, ServeFail, Wait, CancelContext,
          DeliverCancel, Deliver, Exit, Kill, Adopt, ProcExit, SendSignal, WaitThread, Reap,
          Report, NoChild, LoopStep, HandleSignal, HandleReaped, HandleClosed, HandleTimeout,
          Elapse, Unapplied
    <3> QED
      BY <3>1, <3>2
  <2> QED
    BY <2>1, <2>2, HideQuiet
<1> QED
  BY <1>1, <1>2, <1>3, <1>4, <1>5, <1>6

\* Once no operation is left, a pathname shows a file below c only by a bind from below c.
LEMMA Hides ==
    ASSUME NEW st, IsSetup(st), Rooted(st.mounts), NEW c, IsPathname(c),
           NEW d, NEW i, \A q : ~Awaited(d, i, q), Covers(d, i, st.mounts, c),
           NEW p \in DOMAIN st.nodes,
           NEW m, m = st.mounts[Owner(st.mounts, p)], m.source # Missing,
           Under(Rebased(p, m.at, m.source), c)
    PROVE  Under(m.source, c) /\ m.source # c
<1> DEFINE mt == st.mounts
           o == Owner(mt, p)
           h == Rebased(p, m.at, m.source)
           w == Rebased(c, m.source, m.at)
<1>1. IsPathname(p) /\ IsTable(mt) /\ DOMAIN mt = 1..Len(mt) /\ Len(mt) \in Nat
  BY SetupLength DEF IsSetup
<1>2. Under(p, mt[1].at) /\ 1 \in DOMAIN mt
  <2>1. mt[1].at = << >> /\ 1 \in DOMAIN mt
    BY DEF Rooted
  <2>2. << >> \in Seq({}) /\ Len(<< >>) = 0
    OBVIOUS
  <2>3. IsPathname(<< >>)
    BY <2>2, SeqPathname
  <2>4. Len(p) \in Nat
    BY <1>1, PathnameSeq
  <2>5. Len(<< >>) <= Len(p) /\ \A j \in 1..Len(<< >>) : p[j] = << >>[j]
    BY <2>2, <2>4
  <2>6. Under(p, << >>)
    BY <1>1, <2>3, <2>5, UnderNames
  <2> QED
    BY <2>1, <2>6
<1>3. /\ o \in DOMAIN mt /\ Under(p, mt[o].at)
      /\ \A j \in DOMAIN mt : Under(p, mt[j].at) => j <= o
  BY <1>1, <1>2, OwnerLast
<1>4. m = mt[o] /\ IsPathname(m.at) /\ IsPathname(m.source) /\ Under(p, m.at)
  BY <1>3 DEF IsSetup, IsMounts, IsEntry
<1> HIDE DEF o, mt
<1>5. ASSUME Under(c, m.source) PROVE FALSE
  <2>1. Overlaid(mt, o, w)
    BY <1>3, <1>4, <1>5 DEF Covers, mt
  <2>2. PICK j \in DOMAIN mt : j > o /\ mt[j].at = w
    BY <2>1 DEF Overlaid
  <2>3. Under(p, w)
    <3> DEFINE at == m.at
               source == m.source
    <3>1. /\ IsPathname(at) /\ IsPathname(source) /\ Under(p, at)
          /\ Under(Rebased(p, at, source), c) /\ Under(c, source)
      BY <1>4, <1>5
    <3> HIDE DEF at, source
    <3>2. Under(p, Rebased(c, source, at))
      BY <1>1, <3>1, RebasedBack
    <3> QED
      BY <3>2 DEF at, source
  <2>4. j <= o
    BY <1>3, <2>2, <2>3
  <2> QED
    BY <1>1, <1>3, <2>2, <2>4
<1>6. Under(h, m.source) /\ IsPathname(h)
  <2> DEFINE at == m.at
             source == m.source
             x == Rebased(p, at, source)
  <2>1. IsPathname(at) /\ IsPathname(source) /\ Under(p, at)
    BY <1>4
  <2> HIDE DEF at, source
  <2>2. IsRebased(x, p, at, source)
    BY <1>1, <2>1, RebasedEach
  <2>3. Len(p) \in Nat /\ Len(at) \in Nat /\ Len(source) \in Nat /\ Len(at) <= Len(p)
    BY <1>1, <2>1, PathnameSeq, UnderNames
  <2> HIDE DEF x
  <2>4. /\ IsPathname(x) /\ Len(x) = Len(source) + (Len(p) - Len(at))
        /\ \A j \in 1..Len(source) : x[j] = source[j]
    BY <2>2 DEF IsRebased
  <2>5. Len(source) <= Len(x)
    BY <2>3, <2>4
  <2>6. Under(x, source)
    BY <2>1, <2>4, <2>5, UnderNames
  <2> QED
    BY <2>4, <2>6 DEF x, at, source
<1>7. Under(c, m.source) \/ Under(m.source, c)
  <2> DEFINE source == m.source
  <2>1. IsPathname(source) /\ Under(h, source) /\ Under(h, c) /\ IsPathname(h)
    BY <1>4, <1>6
  <2> HIDE DEF source, h
  <2> QED
    BY <2>1, UnderBoth DEF source
<1>8. m.source # c
  BY <1>4, <1>5, UnderSelf
<1> QED
  BY <1>5, <1>7, <1>8

(***************************************************************************)
(* A file of the host below a pathname to be hidden is seen by the program *)
(* only where it was bound from below it on purpose, in every container    *)
(* whose operations are Arranged: they put a tmpfs, later, wherever one of *)
(* their binds shows such a pathname, and no link leads a mount somewhere  *)
(* else.  So it is whatever the host has mounted below the sources of      *)
(* those binds, whatever links are on the way to them, and whatever else   *)
(* the operations mount.                                                   *)
(***************************************************************************)
THEOREM AlwaysHidden == Spec /\ []Arranged => []HostPathsHidden
<1> DEFINE Inv == ContainerInv /\ SetupInv /\ HideInv /\ Ordered
<1>1. Init /\ Arranged => Inv
  BY ContainerInit, SetupInit, HideInit, OrderedKept
<1>2. Inv /\ Arranged /\ [Next]_vars => Inv'
  BY ContainerStep, SetupStep, HideStep, OrderedKept
<1>3. Inv => HostPathsHidden
  <2> SUFFICES ASSUME ContainerInv, SetupInv, HideInv, pc = "notify",
                      NEW p \in DOMAIN setup.nodes, NEW m,
                      m = setup.mounts[Owner(setup.mounts, p)], m.source # Missing,
                      NEW c \in cfg.hide, Under(Rebased(p, m.at, m.source), c)
               PROVE  Under(m.source, c) /\ m.source # c
    BY DEF HostPathsHidden
  <2>1. /\ cfg \in Configs /\ k \in Nat /\ ~(k <= Len(cfg.ops)) /\ IsSetup(setup)
        /\ Len(cfg.ops) \in Nat
    BY OpsLength DEF ContainerInv, ConfinedInv, Progress, OpLeft, SetupInv, FromDetach,
        FromSysroot, FromCaps, FromFilter, FromStart, Running
  <2>2. \A q : ~Awaited(cfg, k, q)
    <3> DEFINE R == Range(cfg.ops)
    <3>1. cfg.ops \in Seq(R)
      BY <2>1, ContainerAssumption
    <3> HIDE DEF R
    <3>2. DOMAIN cfg.ops = 1..Len(cfg.ops)
      BY <3>1
    <3>3. \A j \in DOMAIN cfg.ops : ~(j >= k)
      BY <2>1, <3>2
    <3> QED
      BY <3>3 DEF Awaited
  <2>3. IsPathname(c)
    BY <2>1, ContainerAssumption
  <2>4. Rooted(setup.mounts) /\ Covers(cfg, k, setup.mounts, c)
    BY DEF HideInv
  <2> QED
    BY <2>1, <2>2, <2>3, <2>4, Hides
<1> HIDE DEF Inv
<1> QED
  BY <1>1, <1>2, <1>3, PTL DEF Spec
=============================================================================
