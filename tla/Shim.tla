-------------------------------- MODULE Shim --------------------------------
(***************************************************************************)
(* One monitor, its shim and the container init below it.  The monitor     *)
(* hands over a configuration through the setup pipe and may later ask the *)
(* shim to exit; being another user it can only do so with SIGCONT, which  *)
(* the shim tells from any other SIGCONT by the pid of the sender.  The    *)
(* signal is lost before the handler is installed, and a standard signal   *)
(* that is already pending absorbs the next one with its sender.  Closing  *)
(* the pipe, the parent-death signal and the check for a new parent are    *)
(* what the code has against that.                                         *)
(*                                                                         *)
(* The shim is its main thread, the handler, and a goroutine that reads    *)
(* what the handler wrote; pc names the next call of the main thread.      *)
(* Timeouts are long: a timer of the monitor fires when the shim has done  *)
(* all it can do without the monitor (Working).                            *)
(***************************************************************************)
EXTENDS Naturals, Sequences

CONSTANTS
    Faults,        \* what may go wrong, see FaultKinds
    MaxStrangers   \* SIGCONTs by other processes, such as a job control shell

(***************************************************************************)
(* "commit"    an error of the monitor before the configuration is served  *)
(* "serve"     an error while it is transmitted                            *)
(* "interrupt" SIGINT or SIGTERM to the monitor   "kill"    SIGKILL to it  *)
(* "shim"      a fatal error in the shim          "lockup"  the shim hangs *)
(* "sigint"    SIGINT or SIGTERM to the shim                               *)
(***************************************************************************)
FaultKinds == {"commit", "serve", "interrupt", "kill", "shim", "lockup", "sigint"}

ASSUME ShimAssumption == Faults \subseteq FaultKinds /\ MaxStrangers \in Nat

VARIABLES
    mon,        \* state of outcome.main
    ctxDone,    \* its ctx is done
    sent,       \* cmd.Cancel was called, which happens once
    gaveUp,     \* the wait for the shim timed out
    pipe,       \* the setup pipe, as its reader finds it
    pc,         \* next call of the main thread of the shim
    code,       \* exit status of the shim
    stuck,      \* the shim hangs
    ppid,       \* the parent as read on entry, hakurei_shim_param_ppid
    armed,      \* PR_SET_PDEATHSIG was set while the monitor was the parent
    pending,    \* sender of the pending SIGCONT
    sigpipe,    \* messages of the handler, not yet read
    shimCtx,    \* context of the container, with the reason it is done
    forward,    \* ForwardCancel, that is WaitDelay > 0
    init,       \* the container init
    usr2,       \* CancelSignal to init
    strangers   \* SIGCONTs other processes may still send

monVars  == << mon, ctxDone, sent, gaveUp, pipe >>
mainVars == << pc, code, ppid, armed >>
sigVars  == << pending, sigpipe >>
boxVars  == << shimCtx, init, usr2 >>
vars == << monVars, mainVars, sigVars, boxVars, stuck, forward, strangers >>

may(f) == f \in Faults

TypeOK ==
    /\ mon \in {"commit", "lifecycle", "cleanup", "final", "killed"}
    /\ ctxDone \in BOOLEAN /\ sent \in BOOLEAN /\ gaveUp \in BOOLEAN
    /\ pipe \in {"open", "served", "torn", "closed"}
    /\ pc \in {"getppid", "sigaction", "assign", "receive", "prctl", "spawn",
               "notify", "start", "serve", "seccomp", "wait", "exited"}
    /\ code \in {"none", "zero", "nonzero", "failure", "cancel", "orphan", "request"}
    /\ ppid \in {"unset", "monitor", "reaper"}
    /\ armed \in BOOLEAN /\ stuck \in BOOLEAN /\ forward \in BOOLEAN
    /\ pending \in {"none", "monitor", "other"}
    /\ sigpipe \in Seq({"request", "orphan", "badpid"})
    /\ shimCtx \in {"none", "live", "requested", "signalled"}
    /\ init \in {"none", "waiting", "setup", "running", "zero", "nonzero"}
    /\ usr2 \in {"unsent", "lost", "delivered"}
    /\ strangers \in Nat

\* The monitor has started the shim and enters processCommit.
Init ==
    /\ mon = "commit" /\ pipe = "open"
    /\ ctxDone = FALSE /\ sent = FALSE /\ gaveUp = FALSE
    /\ pc = "getppid" /\ code = "none" /\ stuck = FALSE
    /\ ppid = "unset" /\ armed = FALSE /\ pending = "none" /\ sigpipe = << >>
    /\ shimCtx = "none" /\ init = "none" /\ usr2 = "unsent"
    /\ forward \in BOOLEAN /\ strangers = MaxStrangers

-----------------------------------------------------------------------------
\* The processes.

Dead       == mon \in {"final", "killed"}
exited     == pc = "exited"
Alive      == ~exited /\ ~stuck
Contained  == init \in {"waiting", "setup", "running"}
Cancelled  == shimCtx \in {"requested", "signalled"}
getppid    == IF Dead THEN "reaper" ELSE "monitor"

\* The goroutine reading the signal pipe runs.
Reading == Alive /\ pc \in {"notify", "start", "serve", "seccomp", "wait"}

\* SIGCONT from a process.  The default action discards it, and it merges with
\* one that is pending.
SIGCONT(from) ==
    pending' = IF pending = "none" /\ pc \notin {"getppid", "sigaction", "exited"}
               THEN from ELSE pending

\* Exit of the shim.  Pdeathsig of init is SIGKILL.
Exit(c) ==
    /\ pc' = "exited" /\ code' = c
    /\ init' = IF Contained THEN "nonzero" ELSE init

\* The shim does not merely wait for others.
Working ==
    /\ Alive
    /\ \/ pc \notin {"receive", "wait"}
       \/ pc = "receive" /\ pipe # "open"
       \/ pc = "wait" /\ init \in {"zero", "nonzero", "setup"}
       \/ pending # "none"
       \/ Reading /\ sigpipe # << >>
       \/ Cancelled /\ (usr2 = "unsent" \/ forward \/ usr2 = "delivered")

-----------------------------------------------------------------------------
\* The monitor.

\* processCommit succeeds, then serveShim does.
Serve ==
    /\ mon = "commit"
    /\ mon' = "lifecycle" /\ pipe' = "served"
    /\ UNCHANGED << ctxDone, sent, gaveUp, mainVars, sigVars, boxVars, stuck, forward, strangers >>

\* The pipe is left to the exiting process.
perrorKeepsPipe(left) ==
    /\ ctxDone' = TRUE /\ pipe' = "open"
    /\ mon' = "lifecycle"
    /\ UNCHANGED << sent, gaveUp, mainVars, sigVars, boxVars, stuck, forward, strangers >>

\* perror before the configuration is served: cancel, and close the pipe.
perror(left) ==
    /\ ctxDone' = TRUE /\ pipe' = left
    /\ mon' = "lifecycle"
    /\ UNCHANGED << sent, gaveUp, mainVars, sigVars, boxVars, stuck, forward, strangers >>

CommitFail == may("commit") /\ mon = "commit" /\ perror("closed")

ServeFail ==
    may("serve") /\ mon = "commit" /\ \E left \in {"torn", "closed"} : perror(left)

\* SIGINT or SIGTERM makes the ctx of the monitor done.
Interrupt ==
    /\ may("interrupt") /\ mon \in {"commit", "lifecycle"} /\ ~ctxDone
    /\ ctxDone' = TRUE
    /\ UNCHANGED << mon, sent, gaveUp, pipe, mainVars, sigVars, boxVars, stuck, forward, strangers >>

\* exec.Cmd calls cmd.Cancel once ctx is done, unless the shim was waited for.
CmdCancel ==
    /\ ctxDone /\ ~sent /\ mon \in {"commit", "lifecycle"}
    /\ sent' = TRUE
    /\ SIGCONT("monitor")
    /\ UNCHANGED << mon, ctxDone, gaveUp, pipe, mainVars, sigpipe, boxVars, stuck, forward, strangers >>

\* processLifecycle: shimCmd.Wait returns.
ShimWait ==
    /\ mon = "lifecycle" /\ exited
    /\ mon' = "cleanup" /\ ctxDone' = TRUE
    /\ UNCHANGED << sent, gaveUp, pipe, mainVars, sigVars, boxVars, stuck, forward, strangers >>

\* processLifecycle: WaitDelay + shimWaitTimeout after ctx is done.
WaitTimeout ==
    /\ mon = "lifecycle" /\ sent /\ ~exited /\ ~Working
    /\ mon' = "cleanup" /\ gaveUp' = TRUE
    /\ UNCHANGED << ctxDone, sent, pipe, mainVars, sigVars, boxVars, stuck, forward, strangers >>

\* The monitor is gone: the kernel closes its files and sends the parent-death
\* signal of the shim in its name.
Die(how) ==
    /\ mon' = how
    /\ pipe' = IF pipe = "open" THEN "closed" ELSE pipe
    /\ IF armed THEN SIGCONT("monitor") ELSE UNCHANGED pending
    /\ UNCHANGED << ctxDone, sent, gaveUp, mainVars, sigpipe, boxVars, stuck, forward, strangers >>

\* processCleanup and processFinal.
Final == mon = "cleanup" /\ Die("final")

Kill == may("kill") /\ ~Dead /\ Die("killed")

-----------------------------------------------------------------------------
\* The main thread of the shim.

Getppid ==
    /\ Alive /\ pc = "getppid"
    /\ pc' = "sigaction" /\ ppid' = getppid
    /\ UNCHANGED << monVars, code, armed, sigVars, boxVars, stuck, forward, strangers >>

\* hakurei_shim_setup_cont_signal installs the handler, then stores the parent
\* and the descriptor the handler uses.
Sigaction ==
    /\ Alive /\ pc = "sigaction"
    /\ pc' = "assign"
    /\ UNCHANGED << monVars, code, ppid, armed, sigVars, boxVars, stuck, forward, strangers >>

Assign ==
    /\ Alive /\ pc = "assign"
    /\ pc' = "receive"
    /\ UNCHANGED << monVars, code, ppid, armed, sigVars, boxVars, stuck, forward, strangers >>

\* The configuration arrives and names the parent.
Receive ==
    /\ Alive /\ pc = "receive" /\ pipe = "served" /\ ppid = "monitor"
    /\ pc' = "prctl"
    /\ UNCHANGED << monVars, code, ppid, armed, sigVars, boxVars, stuck, forward, strangers >>

\* EOF is an exit request; a torn configuration and another parent are fatal.
ReceiveFail ==
    /\ Alive /\ pc = "receive"
    /\ \/ pipe = "closed" /\ Exit("request")
       \/ pipe = "torn" /\ Exit("failure")
       \/ pipe = "served" /\ ppid # "monitor" /\ Exit("failure")
    /\ UNCHANGED << monVars, ppid, armed, sigVars, shimCtx, usr2, stuck, forward, strangers >>

\* The parent-death signal is not set.
PrctlSkipped ==
    /\ Alive /\ pc = "prctl"
    /\ pc' = "spawn"
    /\ UNCHANGED << monVars, code, ppid, armed, sigVars, boxVars, stuck, forward, strangers >>

\* PR_SET_PDEATHSIG refers to the parent at the time of the call.
Prctl ==
    /\ Alive /\ pc = "prctl"
    /\ pc' = "spawn" /\ armed' = ~Dead
    /\ UNCHANGED << monVars, code, ppid, sigVars, boxVars, stuck, forward, strangers >>

\* toContainer of every outcomeOp, then the goroutine is started.
Spawn ==
    /\ Alive /\ pc = "spawn"
    /\ pc' = "notify"
    /\ UNCHANGED << monVars, code, ppid, armed, sigVars, boxVars, stuck, forward, strangers >>

\* The context is created and stored for the goroutine.
Notify ==
    /\ Alive /\ pc = "notify"
    /\ pc' = "start" /\ shimCtx' = "live"
    /\ UNCHANGED << monVars, code, ppid, armed, sigVars, init, usr2, stuck, forward, strangers >>

\* containerStart: a command does not start under a context that is done.
ContainerStart ==
    /\ Alive /\ pc = "start"
    /\ \/ ~Cancelled /\ pc' = "serve" /\ init' = "waiting" /\ UNCHANGED code
       \/ Cancelled /\ Exit("failure")
    /\ UNCHANGED << monVars, ppid, armed, sigVars, shimCtx, usr2, stuck, forward, strangers >>

ContainerServe ==
    /\ Alive /\ pc = "serve"
    /\ pc' = "seccomp"
    /\ init' = IF init = "waiting" THEN "setup" ELSE init
    /\ UNCHANGED << monVars, code, ppid, armed, sigVars, shimCtx, usr2, stuck, forward, strangers >>

SeccompLoad ==
    /\ Alive /\ pc = "seccomp"
    /\ pc' = "wait"
    /\ UNCHANGED << monVars, code, ppid, armed, sigVars, boxVars, stuck, forward, strangers >>

\* containerWait: exec.Cmd reports the context when init exits with zero after
\* it was cancelled.
ContainerWait ==
    /\ Alive /\ pc = "wait" /\ init \in {"zero", "nonzero"}
    /\ Exit(IF init = "zero" /\ usr2 # "unsent" THEN "cancel" ELSE init)
    /\ UNCHANGED << monVars, ppid, armed, sigVars, shimCtx, usr2, stuck, forward, strangers >>

\* Any of the calls before containerWait may fail, which is fatal.
ShimFatal ==
    /\ may("shim") /\ Alive /\ pc # "wait"
    /\ Exit("failure")
    /\ UNCHANGED << monVars, ppid, armed, sigVars, shimCtx, usr2, stuck, forward, strangers >>

Lockup ==
    /\ may("lockup") /\ Alive
    /\ stuck' = TRUE
    /\ UNCHANGED << monVars, mainVars, sigVars, boxVars, forward, strangers >>

\* SIGINT or SIGTERM to the shim ends it until notifyContext was called.
ShimInterrupt ==
    /\ may("sigint") /\ Alive
    /\ \/ shimCtx = "none" /\ Exit("failure") /\ UNCHANGED shimCtx
       \/ shimCtx = "live" /\ shimCtx' = "signalled" /\ UNCHANGED << pc, code, init >>
    /\ UNCHANGED << monVars, ppid, armed, sigVars, usr2, stuck, forward, strangers >>

-----------------------------------------------------------------------------
\* The signal handler and the goroutine that reads its messages.

\* Any SIGCONT is taken for a request.
Trusting == << "request" >>

\* The sender is not its parent, who may have died.
IgnoresOrphan == IF pending = ppid THEN << "request" >> ELSE << "badpid" >>

\* The sender is written instead of a message.
RawSender == << pending >>

\* What hakurei_shim_sigaction writes.
Messages ==
    IF pending = ppid THEN << "request" >>
    ELSE IF getppid # ppid THEN << "badpid", "orphan" >>
    ELSE << "badpid" >>

\* hakurei_shim_sigaction: before Assign the descriptor is invalid.
Handler ==
    /\ Alive /\ pending # "none"
    /\ pending' = "none"
    /\ \/ pc = "assign" /\ Exit("failure") /\ UNCHANGED sigpipe
       \/ pc # "assign" /\ sigpipe' = sigpipe \o Messages
          /\ UNCHANGED << pc, code, init >>
    /\ UNCHANGED << monVars, ppid, armed, shimCtx, usr2, stuck, forward, strangers >>

\* The goroutine takes a message.
ReadRequest ==
    /\ Head(sigpipe) = "request"
    /\ \/ /\ forward /\ shimCtx # "none"
          /\ shimCtx' = IF shimCtx = "live" THEN "requested" ELSE shimCtx
          /\ UNCHANGED << pc, code, init >>
       \/ ~(forward /\ shimCtx # "none") /\ Exit("request") /\ UNCHANGED shimCtx

ReadOrphan == Head(sigpipe) = "orphan" /\ Exit("orphan") /\ UNCHANGED shimCtx

ReadBadPID == Head(sigpipe) = "badpid" /\ UNCHANGED << pc, code, init, shimCtx >>

ReadSignal ==
    /\ Reading /\ sigpipe # << >>
    /\ ReadRequest \/ ReadOrphan \/ ReadBadPID
    /\ sigpipe' = Tail(sigpipe)
    /\ UNCHANGED << monVars, ppid, armed, pending, usr2, stuck, forward, strangers >>

-----------------------------------------------------------------------------
\* The command of the container and its init.

\* The context is done: CancelSignal, which init misses until it asks for it.
SignalInit ==
    /\ Alive /\ Cancelled /\ pc \in {"serve", "seccomp", "wait"} /\ usr2 = "unsent"
    /\ usr2' = IF init = "running" THEN "delivered" ELSE "lost"
    /\ UNCHANGED << monVars, mainVars, sigVars, shimCtx, init, stuck, forward, strangers >>

\* WaitDelay, if there is one, has passed.
KillInit ==
    /\ Alive /\ forward /\ usr2 # "unsent" /\ Contained
    /\ init' = "nonzero"
    /\ UNCHANGED << monVars, mainVars, sigVars, shimCtx, usr2, stuck, forward, strangers >>

\* Init completes its setup, starts the initial process and asks for signals.
InitSetup ==
    /\ init = "setup"
    /\ init' = "running"
    /\ UNCHANGED << monVars, mainVars, sigVars, shimCtx, usr2, stuck, forward, strangers >>

\* Without ForwardCancel, init exits on CancelSignal.
InitCancel ==
    /\ init = "running" /\ usr2 = "delivered" /\ ~forward
    /\ init' = "zero"
    /\ UNCHANGED << monVars, mainVars, sigVars, shimCtx, usr2, stuck, forward, strangers >>

\* The setup fails, or the initial process ends.
InitExit ==
    /\ \/ Contained /\ init' = "nonzero"
       \/ init = "running" /\ init' = "zero"
    /\ UNCHANGED << monVars, mainVars, sigVars, shimCtx, usr2, stuck, forward, strangers >>

\* Another process of the session sends SIGCONT.
Stranger ==
    /\ strangers > 0 /\ ~exited
    /\ strangers' = strangers - 1
    /\ SIGCONT("other")
    /\ UNCHANGED << monVars, mainVars, sigpipe, boxVars, stuck, forward >>

-----------------------------------------------------------------------------
MonitorStep == Serve \/ CommitFail \/ ServeFail \/ ShimWait \/ WaitTimeout \/ Final

MainStep ==
    \/ Getppid \/ Sigaction \/ Assign \/ Receive \/ ReceiveFail \/ Prctl \/ Spawn
    \/ Notify \/ ContainerStart \/ ContainerServe \/ SeccompLoad \/ ContainerWait
    \/ ShimFatal

\* Everything is over, or the monitor waits for a shim that hangs.
Ended ==
    /\ (exited /\ Dead) \/ (stuck /\ (Dead \/ (mon = "lifecycle" /\ ~ctxDone)))
    /\ UNCHANGED vars

Next ==
    \/ MonitorStep \/ CmdCancel \/ Interrupt \/ Kill
    \/ MainStep \/ Handler \/ ReadSignal \/ Lockup \/ ShimInterrupt
    \/ SignalInit \/ KillInit \/ InitSetup \/ InitCancel \/ InitExit
    \/ Stranger \/ Ended

Spec == Init /\ [][Next]_vars

\* Threads that can go on do, and timers fire.  Nothing is assumed of users,
\* other processes, failures or the program in the container.
FairSpec ==
    /\ Spec
    /\ WF_vars(MonitorStep) /\ WF_vars(CmdCancel)
    /\ WF_vars(MainStep) /\ WF_vars(Handler) /\ WF_vars(ReadSignal)
    /\ WF_vars(SignalInit) /\ WF_vars(KillInit)
    /\ WF_vars(InitSetup) /\ WF_vars(InitCancel)

-----------------------------------------------------------------------------
\* The monitor wants the shim to exit, or has died.
Asked == ctxDone \/ Dead

\* SIGCONT is what any process of the session may send.  The shim only takes
\* it for a request, to exit or to cancel its container, when its monitor is
\* cancelled or gone, and only reports an orphan when it is one.
RequestsGenuine ==
    /\ (code = "request" \/ shimCtx = "requested") => Asked
    /\ code = "orphan" => Dead

\* A monitor that fails before its configuration is served gets rid of its
\* shim without waiting for the timeout, although SIGCONT may be lost: the end
\* of the setup pipe stands in for it.
AbortPrompt == (gaveUp /\ pipe # "served") => stuck

\* A shim whose monitor is cancelled exits, whenever the cancellation comes
\* and whichever of its signals are lost: if the container runs all the same,
\* the monitor gives up and its own death is signalled, and the container is
\* killed after WaitDelay.
CancelStops == ctxDone ~> (exited \/ stuck \/ mon = "killed")

\* A shim whose monitor dies exits, if the monitor dies before it has served
\* the configuration or after the parent-death signal was set, even when a
\* SIGCONT of another process absorbs that signal.
OrphanStops == (Dead /\ (armed \/ pipe # "served")) ~> (exited \/ stuck)
=============================================================================
