----------------------------- MODULE Container -----------------------------
(***************************************************************************)
(* A container from Container.Start to the exit of its init: the parent    *)
(* that starts, serves, cancels and waits; initEntrypoint, which sets up   *)
(* the namespaces, applies the setup operations, drops privileges, starts  *)
(* the initial program and then reaps every process of its namespace; and  *)
(* the processes inside.                                                   *)
(***************************************************************************)
EXTENDS Setup

CONSTANTS
    Configs,      \* what a container is started with
    Orphans,      \* processes init may adopt
    LandlockABI,  \* landlock ABI version of the kernel
    Statuses,     \* wait statuses a process may end with
    Faults

FaultKinds == {"start", "serve", "setup", "cancel", "signal"}

ASSUME ContainerAssumption ==
    /\ Faults \subseteq FaultKinds
    /\ LandlockABI \in Nat
    /\ {"initial", "none", "waiting", "closed"} \cap Orphans = {}
    /\ \A c \in Configs :
          /\ c.ops \in Seq(Range(c.ops))
          /\ \A o \in Range(c.ops) :
                /\ o.kind \in OpKinds
                /\ o.kind \notin {"root", "etc"} => IsPathname(o.target)
                /\ o.kind = "bind" => IsPathname(o.source)
                /\ o.kind = "root" => IsPathname(o.host)
                /\ o.kind = "link" => IsText(o.linkname)
          /\ \A p \in c.hide : IsPathname(p)

Procs   == {"initial"} \cup Orphans
Signals == {"usr2", "int", "term"}   \* CancelSignal, Interrupt, SIGTERM or SIGQUIT

VARIABLES
    cfg,     \* the configuration
    par,     \* the parent: new, started, served, failed, waited
    ctx,     \* the context of the container is done
    cancel,  \* Cancel of exec.Cmd has been called
    pipe,    \* the setup pipe
    pc,      \* where init is
    k,       \* index of the next setup operation
    setup,   \* state of the setup operations
    ns,      \* the namespaces and privileges of init
    procs,   \* procs[p]: none, run, zombie, reaped, killed
    status,  \* wait status of the initial process
    wait4,   \* the thread that waits: the process it has to report, if any
    info,    \* channel of reaped processes
    sig,     \* channel of signals
    timeout, \* no, armed, closed
    r,       \* exit status init has settled on
    exit     \* how init has exited

parentVars == << par, ctx, cancel, pipe >>
setupVars  == << k, setup, ns >>
reapVars   == << procs, status, wait4, info, sig, timeout, r >>

vars == << cfg, parentVars, pc, setupVars, reapVars, exit >>

\* The phases of initEntrypoint up to the initial program, in order.
InSetup == {"receive", "usermap", "rslave", "early", "intermediate",
            "apply", "detach", "sysroot", "caps", "filter", "start"}
Alive   == InSetup \cup {"notify", "loop"}

HostNS == [root |-> "host", slave |-> FALSE, hostDir |-> TRUE, rootfs |-> FALSE,
           caps |-> {"sys_admin", "other"}, filter |-> FALSE, landlock |-> FALSE]

Init ==
    /\ cfg \in Configs
    /\ par = "new" /\ ctx = FALSE /\ cancel = FALSE /\ pipe = "none"
    /\ pc = "none" /\ k = 1 /\ setup = NewSetup(Len(cfg.ops)) /\ ns = HostNS
    /\ procs = [p \in Procs |-> "none"] /\ status = "none"
    /\ wait4 = "none" /\ info = << >> /\ sig = << >> /\ timeout = "no" /\ r = 2
    /\ exit = [how |-> "none", code |-> 0]

may(f) == f \in Faults

\* init exits, and the kernel kills what is left in its PID namespace.
Exit(how, code) ==
    /\ pc' = "exited"
    /\ exit' = [how |-> how, code |-> code]
    /\ procs' = [p \in Procs |-> IF procs[p] = "run" THEN "killed" ELSE procs[p]]

-----------------------------------------------------------------------------
(***************************************************************************)
(* The parent                                                              *)
(***************************************************************************)
\* Without a usable landlock only a container that shares the abstract
\* socket namespace of the host may start.
LandlockUsable == LandlockABI >= 6

Start ==
    /\ par = "new"
    /\ cfg.ops # << >>
    /\ ctx = FALSE
    /\ LandlockUsable \/ cfg.hostAbstract
    /\ par' = "started" /\ pipe' = "open" /\ pc' = "receive"
    /\ ns' = [ns EXCEPT !.landlock = LandlockUsable]
    /\ UNCHANGED << cfg, ctx, cancel, k, setup, reapVars, exit >>

StartFail ==
    /\ par = "new"
    /\ \/ cfg.ops = << >> \/ may("start") \/ ctx
       \/ ~LandlockUsable /\ ~cfg.hostAbstract
    /\ par' = "failed"
    /\ UNCHANGED << cfg, ctx, cancel, pipe, pc, setupVars, reapVars, exit >>

Serve ==
    /\ par = "started"
    /\ par' = "served" /\ pipe' = "payload"
    /\ UNCHANGED << cfg, ctx, cancel, pc, setupVars, reapVars, exit >>

\* init does not take the payload in time; there is no pathname, and the pipe
\* stays open; no deadline can be set, and nothing is cancelled either.
ServeFail ==
    /\ par = "started"
    /\ par' = "served"
    /\ \/ (may("serve") \/ pc = "exited") /\ pipe' = "eof" /\ ctx' = TRUE
       \/ may("serve") /\ ctx' = TRUE /\ UNCHANGED pipe
       \/ may("serve") /\ UNCHANGED << pipe, ctx >>
    /\ UNCHANGED << cfg, cancel, pc, setupVars, reapVars, exit >>

CancelContext ==
    /\ may("cancel")
    /\ ctx = FALSE
    /\ ctx' = TRUE
    /\ UNCHANGED << cfg, par, cancel, pipe, pc, setupVars, reapVars, exit >>

(***************************************************************************)
(* A signal for init.  Until init has asked for it, the runtime ignores    *)
(* CancelSignal and ends the process on the others; afterwards it is put   *)
(* in a channel, and dropped when two are in there.                        *)
(***************************************************************************)
Deliver(s) ==
    CASE pc = "loop" ->
            /\ sig' = IF Len(sig) < 2 THEN Append(sig, s) ELSE sig
            /\ UNCHANGED << pc, procs, exit >>
      [] pc # "loop" /\ s = "usr2" -> UNCHANGED << sig, pc, procs, exit >>
      [] OTHER -> Exit("signal", 2) /\ UNCHANGED sig

DeliverCancel ==
    /\ pc \in Alive
    /\ ctx
    /\ cancel = FALSE
    /\ cancel' = TRUE
    /\ IF cfg.ownCancel THEN UNCHANGED << sig, pc, procs, exit >> ELSE Deliver("usr2")
    /\ UNCHANGED << cfg, par, ctx, pipe, setupVars, status, wait4, info, timeout, r >>

\* Mutant: the command is only killed if cancellation is forwarded.
KillForwarded ==
    /\ pc \in Alive
    /\ cancel /\ cfg.forwardCancel
    /\ Exit("killed", 137)
    /\ UNCHANGED << cfg, parentVars, setupVars, status, wait4, info, sig, timeout, r >>

\* WaitDelay has elapsed; exec.Cmd waits for ever if there is none.
Kill ==
    /\ pc \in Alive
    /\ cancel /\ cfg.waitDelay
    /\ Exit("killed", 137)
    /\ UNCHANGED << cfg, parentVars, setupVars, status, wait4, info, sig, timeout, r >>

Wait ==
    /\ par = "served"
    /\ pc = "exited"
    /\ par' = "waited" /\ ctx' = TRUE
    /\ UNCHANGED << cfg, cancel, pipe, pc, setupVars, reapVars, exit >>

-----------------------------------------------------------------------------
(***************************************************************************)
(* initEntrypoint up to the initial program: any failure is fatal.         *)
(***************************************************************************)
Fatal == /\ Exit("fatal", 1)
         /\ UNCHANGED << cfg, parentVars, setupVars, status, wait4, info, sig,
                         timeout, r >>

SetupFail ==
    /\ pc \in InSetup \ {"receive"}
    /\ may("setup")
    /\ Fatal

Receive ==
    /\ pc = "receive"
    /\ pipe = "payload"
    /\ pc' = "usermap"
    /\ UNCHANGED << cfg, parentVars, setupVars, reapVars, exit >>

ReceiveFail ==
    /\ pc = "receive"
    /\ pipe = "eof"
    /\ Fatal

Phase(from, to) ==
    /\ pc = from
    /\ pc' = to
    /\ UNCHANGED << cfg, parentVars, reapVars, exit >>

\* uid_map, setgroups, gid_map, dumpable, hostname
UserMap == Phase("usermap", "rslave") /\ UNCHANGED setupVars

RSlave ==
    /\ Phase("rslave", "early")
    /\ ns' = [ns EXCEPT !.slave = TRUE]
    /\ UNCHANGED << k, setup >>

\* The operation at k, and whether one is left.
Op     == cfg.ops[k]
OpLeft == k <= Len(cfg.ops)

EarlyOp ==
    /\ pc = "early"
    /\ OpLeft
    /\ \E st \in {early(setup, k, Op)} :
       IF st.ok
       THEN /\ setup' = st /\ k' = k + 1
            /\ UNCHANGED << cfg, parentVars, pc, ns, reapVars, exit >>
       ELSE Fatal

EarlyDone ==
    /\ Phase("early", "intermediate")
    /\ ~OpLeft
    /\ k' = 1
    /\ UNCHANGED << setup, ns >>

\* A tmpfs is mounted and pivoted into; the host root is in its directory.
Intermediate ==
    /\ Phase("intermediate", "apply")
    /\ ns' = [ns EXCEPT !.root = "intermediate", !.rootfs = TRUE]
    /\ UNCHANGED << k, setup >>

ApplyOp ==
    /\ pc = "apply"
    /\ OpLeft
    /\ \E st \in {apply(setup, k, Op)} :
       IF st.ok
       THEN /\ setup' = st /\ k' = k + 1
            /\ UNCHANGED << cfg, parentVars, pc, ns, reapVars, exit >>
       ELSE Fatal

ApplyDone ==
    /\ Phase("apply", "detach")
    /\ ~OpLeft
    /\ UNCHANGED setupVars

DetachHost ==
    /\ Phase("detach", "sysroot")
    /\ ns' = [ns EXCEPT !.hostDir = FALSE]
    /\ UNCHANGED << k, setup >>

PivotSysroot ==
    /\ Phase("sysroot", "caps")
    /\ ns' = [ns EXCEPT !.root = "sysroot", !.rootfs = FALSE]
    /\ UNCHANGED << k, setup >>

\* Mutant: the capability for nested containers is always kept.
DropCapsKept ==
    /\ Phase("caps", "filter")
    /\ ns' = [ns EXCEPT !.caps = {"sys_admin"}]
    /\ UNCHANGED << k, setup >>

DropCaps ==
    /\ Phase("caps", "filter")
    /\ ns' = [ns EXCEPT !.caps = IF cfg.privileged THEN {"sys_admin"} ELSE {}]
    /\ UNCHANGED << k, setup >>

LoadFilter ==
    /\ Phase("filter", "start")
    /\ ns' = [ns EXCEPT !.filter = ~cfg.seccompDisable]
    /\ UNCHANGED << k, setup >>

StartProgram ==
    /\ pc = "start"
    /\ pc' = "notify"
    /\ procs' = [procs EXCEPT !["initial"] = "run"]
    /\ wait4' = "waiting"
    /\ UNCHANGED << cfg, parentVars, setupVars, status, info, sig, timeout, r, exit >>

Notify ==
    /\ pc = "notify"
    /\ pc' = "loop"
    /\ UNCHANGED << cfg, parentVars, setupVars, reapVars, exit >>

-----------------------------------------------------------------------------
(***************************************************************************)
(* The processes of the container                                          *)
(***************************************************************************)
Adopt(p) ==
    /\ procs["initial"] = "run"
    /\ procs[p] = "none"
    /\ procs' = [procs EXCEPT ![p] = "run"]
    /\ UNCHANGED << cfg, parentVars, pc, setupVars, status, wait4, info, sig, timeout, r, exit >>

ProcExit(p) ==
    /\ procs[p] = "run"
    /\ procs' = [procs EXCEPT ![p] = "zombie"]
    /\ status' \in (IF p = "initial" THEN Statuses ELSE {status})
    /\ UNCHANGED << cfg, parentVars, pc, setupVars, wait4, info, sig, timeout, r, exit >>

\* A signal from inside the container or from its terminal.
SendSignal ==
    /\ may("signal")
    /\ pc \in {"notify", "loop"}
    /\ \E s \in Signals \ {"usr2"} : Deliver(s)
    /\ UNCHANGED << cfg, parentVars, setupVars, status, wait4, info, timeout, r >>

-----------------------------------------------------------------------------
(***************************************************************************)
(* The wait4 thread: reaps any child and reports it; the channel is closed *)
(* when no child is left.  wait4 fails with ECHILD only.                   *)
(***************************************************************************)
Children4 == {p \in Procs : procs[p] \in {"run", "zombie"}}

Reap(p) ==
    /\ pc \in Alive
    /\ wait4 = "waiting"
    /\ procs[p] = "zombie"
    /\ procs' = [procs EXCEPT ![p] = "reaped"]
    /\ wait4' = p
    /\ UNCHANGED << cfg, parentVars, pc, setupVars, status, info, sig, timeout, r, exit >>

Report ==
    /\ pc \in Alive
    /\ wait4 \in Procs
    /\ info = << >>
    /\ info' = << wait4 >>
    /\ wait4' = "waiting"
    /\ UNCHANGED << cfg, parentVars, pc, setupVars, procs, status, sig, timeout, r, exit >>

NoChild ==
    /\ pc \in Alive
    /\ wait4 = "waiting"
    /\ Children4 = {}
    /\ wait4' = "closed"
    /\ UNCHANGED << cfg, parentVars, pc, setupVars, procs, status, info, sig, timeout, r, exit >>

-----------------------------------------------------------------------------
(***************************************************************************)
(* The select loop of init                                                 *)
(***************************************************************************)
\* A signal forwarded to the initial process may end it; there is nobody to
\* signal once it is dead.
HandleSignal ==
    /\ pc = "loop"
    /\ sig # << >>
    /\ sig' = Tail(sig)
    /\ IF Head(sig) = "term" \/ (Head(sig) = "usr2" /\ cfg.forwardCancel)
       THEN /\ \/ UNCHANGED << procs, status >>
               \/ /\ procs["initial"] = "run"
                  /\ procs' = [procs EXCEPT !["initial"] = "zombie"]
                  /\ status' \in Statuses
            /\ UNCHANGED << pc, exit >>
       ELSE Exit("signal", 0) /\ UNCHANGED status
    /\ UNCHANGED << cfg, parentVars, setupVars, wait4, info, timeout, r >>

\* The exit status of init for a wait status of the initial process.
ExitCode(w) == IF w.signaled THEN 128 + w.value ELSE w.value

\* Mutant: the death of an adopted process starts the timeout.
HandleReapedAny ==
    /\ pc = "loop"
    /\ info # << >>
    /\ info' = << >>
    /\ r' = IF Head(info) = "initial" THEN ExitCode(status) ELSE r
    /\ timeout' = "armed"
    /\ UNCHANGED << cfg, parentVars, pc, setupVars, procs, status, wait4, sig, exit >>

\* Mutant: nothing bounds the wait for the processes that are left.
HandleReapedPatient ==
    /\ pc = "loop"
    /\ info # << >>
    /\ info' = << >>
    /\ r' = IF Head(info) = "initial" THEN ExitCode(status) ELSE r
    /\ UNCHANGED << cfg, parentVars, pc, setupVars, procs, status, wait4, sig, timeout, exit >>

HandleReaped ==
    /\ pc = "loop"
    /\ info # << >>
    /\ info' = << >>
    /\ IF Head(info) = "initial"
       THEN r' = ExitCode(status) /\ timeout' = "armed"
       ELSE UNCHANGED << r, timeout >>
    /\ UNCHANGED << cfg, parentVars, pc, setupVars, procs, status, wait4, sig, exit >>

HandleClosed ==
    /\ pc = "loop"
    /\ info = << >>
    /\ wait4 = "closed"
    /\ Exit("reaped", r)
    /\ UNCHANGED << cfg, parentVars, setupVars, status, wait4, info, sig, timeout, r >>

\* AdoptWaitDelay has elapsed since the initial process died.
Elapse ==
    /\ pc = "loop"
    /\ timeout = "armed"
    /\ timeout' = "closed"
    /\ UNCHANGED << cfg, parentVars, pc, setupVars, procs, status, wait4, info, sig, r, exit >>

HandleTimeout ==
    /\ pc = "loop"
    /\ timeout = "closed"
    /\ Exit("timeout", r)
    /\ UNCHANGED << cfg, parentVars, setupVars, status, wait4, info, sig, timeout, r >>

InitStep ==
    \/ Receive \/ ReceiveFail \/ UserMap \/ RSlave \/ EarlyOp \/ EarlyDone
    \/ Intermediate \/ ApplyOp \/ ApplyDone \/ DetachHost \/ PivotSysroot
    \/ DropCaps \/ LoadFilter \/ StartProgram \/ Notify

LoopStep == HandleSignal \/ HandleReaped \/ HandleClosed \/ HandleTimeout

WaitThread == (\E p \in Procs : Reap(p)) \/ Report \/ NoChild

ParentStep == Start \/ StartFail \/ Serve \/ ServeFail \/ Wait

Next ==
    \/ ParentStep \/ CancelContext \/ DeliverCancel \/ Kill
    \/ InitStep \/ SetupFail
    \/ (\E p \in Orphans : Adopt(p)) \/ (\E p \in Procs : ProcExit(p)) \/ SendSignal
    \/ WaitThread \/ LoopStep \/ Elapse

(***************************************************************************)
(* Threads run and timers fire; nothing is assumed of the processes inside. *)
(* The loop of init waits in a select, which chooses at random among the   *)
(* cases that are ready: none starves the others.                          *)
(***************************************************************************)
Fairness ==
    /\ WF_vars(ParentStep) /\ WF_vars(InitStep) /\ WF_vars(WaitThread)
    /\ SF_vars(HandleSignal) /\ SF_vars(HandleReaped)
    /\ SF_vars(HandleClosed) /\ SF_vars(HandleTimeout)
    /\ WF_vars(Elapse) /\ WF_vars(DeliverCancel) /\ WF_vars(Kill)

Spec == Init /\ [][Next]_vars /\ Fairness

-----------------------------------------------------------------------------
TypeOK ==
    /\ cfg \in Configs
    /\ par \in {"new", "started", "served", "failed", "waited"}
    /\ ctx \in BOOLEAN /\ cancel \in BOOLEAN
    /\ pipe \in {"none", "open", "payload", "eof"}
    /\ pc \in Alive \cup {"none", "exited"}
    /\ k \in 1..(Len(cfg.ops) + 1)
    /\ procs \in [Procs -> {"none", "run", "zombie", "reaped", "killed"}]
    /\ wait4 \in Procs \cup {"none", "waiting", "closed"}
    /\ info \in Seq(Procs) /\ Len(info) <= 1
    /\ sig \in Seq(Signals) /\ Len(sig) <= 2
    /\ timeout \in {"no", "armed", "closed"}

(***************************************************************************)
(* The initial program only ever runs confined: in the new root with the   *)
(* host root and the intermediate root gone, after every operation has     *)
(* been applied, without capabilities beyond what was asked for, and under *)
(* the filter and the landlock scope its configuration promises.           *)
(***************************************************************************)
Confined ==
    procs["initial"] # "none" =>
        /\ ns.root = "sysroot" /\ ns.slave /\ ~ns.hostDir /\ ~ns.rootfs
        /\ ns.caps \subseteq (IF cfg.privileged THEN {"sys_admin"} ELSE {})
        /\ ns.filter \/ cfg.seccompDisable
        /\ ns.landlock \/ cfg.hostAbstract
        /\ setup.ok /\ ~OpLeft

BindApplied ==
    /\ pc = "apply" /\ OpLeft /\ Op.kind = "bind" /\ setup.final[k] # Missing
    /\ k' = k + 1 /\ Real(setup', Op.target) = Real(setup, Op.target)

(***************************************************************************)
(* A bind mount is as restricted as it was asked to be, the mounts below   *)
(* it on the host included: after the operation nothing visible at or      *)
(* below the place it is bound to is writable, has devices or setuid       *)
(* programs unless its flags allow it, but for the mounts below it whose   *)
(* remount is denied, which bindMount passes over.  A bind that covers a   *)
(* link on the way to its own target is remounted somewhere else.          *)
(***************************************************************************)
BindSealed ==
    [][BindApplied =>
        LET at == Real(setup, Op.target)
            mt == setup'.mounts
        IN  \A m \in Visible(mt, at) :
                \/ (BindFlags(Op) \ {"rec"}) \cup {"nosuid"} \subseteq mt[m].flags
                \/ mt[m].at # at /\ mt[m].source \in Denied]_vars

(***************************************************************************)
(* What the operations have to be like for SocketsReachable and            *)
(* HostPathsHidden below: nothing is mounted at or above a socket after it *)
(* has been bound, and a bind that takes a pathname to be hidden along is  *)
(* followed by a tmpfs at the place where that shows.                      *)
(***************************************************************************)
MayCover(o, p) ==
    \/ o.kind = "root"
    \/ o.kind \in {"bind", "overlay", "dev", "place", "tmpfs", "proc"} /\ Under(p, o.target)

BindsSocket(o, s) ==
    /\ o.kind = "bind" /\ "optional" \notin o.flags
    /\ o.target = s.at /\ Resolve(o.source) = s.source

SocketsLast(c) ==
    \A s \in c.sockets : \E i \in DOMAIN c.ops :
        /\ BindsSocket(c.ops[i], s)
        /\ \A j \in DOMAIN c.ops : j > i => ~MayCover(c.ops[j], s.at)

\* The entries of the root that may show h: the one above it, and links.
RootShows(o, h) ==
    {e \in DOMAIN HostLinks \cup {SubSeq(h, 1, n) : n \in 1..Len(h)} :
        Len(e) = Len(o.host) + 1 /\ Under(e, o.host) /\ IsAutoRootBindable(Last(e))}

\* The bind mounts an operation makes, those of the root as far as they may show h.
Shows(o, h) ==
    CASE o.kind = "bind" -> {[source |-> Resolve(o.source), target |-> o.target]}
      [] o.kind = "root" ->
            {[source |-> Resolve(e), target |-> << Last(e) >>] : e \in RootShows(o, h)}
      [] o.kind = "dev"  ->
            {[source |-> << "dev", "null" >>, target |-> Append(o.target, "null")],
             [source |-> << "dev", "tty" >>, target |-> Append(o.target, "console")]}
      [] OTHER           -> {}

HiddenCovered(c) ==
    \A h \in c.hide, i \in DOMAIN c.ops :
        /\ c.ops[i].kind = "root" => OnTheWay(HostLinks, c.ops[i].host) = {}
        /\ \A d \in Shows(c.ops[i], h) :
              Under(h, d.source) =>
                  \E j \in DOMAIN c.ops :
                      /\ j > i /\ c.ops[j].kind = "tmpfs"
                      /\ c.ops[j].target = Rebased(h, d.source, d.target)

\* No link is on the way to where an operation mounts something.
Direct(st, o) ==
    CASE o.kind \in {"etc", "link", "mkdir", "remount"} -> TRUE
      [] o.kind = "root" -> \A q \in DOMAIN st.links : Len(q) # 1
      [] OTHER           -> OnTheWay(st.links, o.target) = {}

(***************************************************************************)
(* The operations that toContainer and the D-Bus proxy register are in     *)
(* that order, and when their time comes no link that an operation before  *)
(* them has made or bound leads them, or the program on its way to a       *)
(* socket, somewhere else.                                                 *)
(***************************************************************************)
Arranged ==
    /\ pc = "none" => SocketsLast(cfg) /\ HiddenCovered(cfg)
    /\ cfg.sockets # {} \/ cfg.hide # {} =>
          /\ pc = "apply" /\ OpLeft => Direct(setup, Op)
          /\ pc = "notify" => \A s \in cfg.sockets : OnTheWay(setup.links, s.at) = {}

(***************************************************************************)
(* The program, once started, finds every socket its environment names:    *)
(* what its pathname leads to, links on the way included, is the bind      *)
(* mount of the socket, whatever the operations after that bind have put   *)
(* on top.                                                                 *)
(***************************************************************************)
SocketsReachable ==
    pc = "notify" =>
        \A s \in cfg.sockets :
            LET p == Seen(setup, s.at)
                m == setup.mounts[Owner(setup.mounts, p)]
            IN  p \in DOMAIN setup.nodes /\ m.at = p /\ m.source = s.source

(***************************************************************************)
(* Path hiding: a pathname of the host that is to be hidden shows through  *)
(* no mount of one of its parents, or of itself; only what was bound from  *)
(* below it on purpose is seen.                                            *)
(***************************************************************************)
HostPathsHidden ==
    pc = "notify" =>
        \A p \in DOMAIN setup.nodes :
            LET m == setup.mounts[Owner(setup.mounts, p)]
                h == Rebased(p, m.at, m.source)
            IN  m.source # Missing =>
                    \A c \in cfg.hide :
                        Under(h, c) /\ h # c => Under(m.source, c) /\ m.source # c

(***************************************************************************)
(* When init exits because its processes are gone, or did not go in time,  *)
(* its exit status is that of the initial process, whatever the order in   *)
(* which the others died and were reaped.                                  *)
(***************************************************************************)
StatusPropagated ==
    exit.how \in {"reaped", "timeout"} =>
        procs["initial"] = "reaped" /\ exit.code = ExitCode(status)

\* init exits once the initial process is dead, whatever it leaves behind.
LingerBounded == procs["initial"] = "zombie" ~> pc = "exited"

\* A container with a WaitDelay goes away once its context is done, in
\* whatever phase it was and whatever became of the signal.
CancelEnds == ctx /\ pc \in Alive /\ cfg.waitDelay ~> pc = "exited"
=============================================================================
