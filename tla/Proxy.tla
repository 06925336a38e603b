------------------------------- MODULE Proxy -------------------------------
(***************************************************************************)
(* The D-Bus proxy operation: dbusProxyOp starts xdg-dbus-proxy through a  *)
(* helper on apply, closes it and waits for it on revert.  The helper gets *)
(* its arguments on one pipe and reports that it is ready on another;      *)
(* proc.Fulfill serves both with four goroutines that hand their errors to *)
(* the caller over one channel, under a timeout and a context that may be  *)
(* cancelled at any time.  The context of exec.Cmd closes the status pipe, *)
(* which ends the proxy, and kills it when WaitDelay has elapsed.          *)
(***************************************************************************)
EXTENDS Naturals, Sequences

CONSTANTS Faults   \* calls and processes that may fail

FaultKinds == {"lookup", "pipe", "start", "upstream", "die", "remove"}

ASSUME ProxyAssumption == Faults \subseteq FaultKinds

VARIABLES
    op,       \* where dbusProxyOp is
    ctx,      \* the context of the helper, with its cause
    expired,  \* FulfillmentTimeout has elapsed
    args,     \* write end of the argument pipe
    stat,     \* read end of the status pipe
    byte,     \* the proxy has written to the status pipe
    go,       \* go[g]: goroutine g of Fulfill
    ec,       \* errors dispatched and not yet received
    ecs,      \* errors still expected
    err,      \* the result of Fulfill so far, then of the operation
    proxy,    \* the proxy process
    cancel,   \* what Cancel of exec.Cmd returned
    socks     \* sockets made by the proxy

vars == << op, ctx, expired, args, stat, byte, go, ec, ecs, err, proxy,
           cancel, socks >>

helperVars == << args, stat, byte, proxy, cancel, socks >>

\* "writer" and "reader" do the transfer, the others wait for them or for c.
Goroutines == {"writer", "writerCtx", "reader", "readerCtx"}

Ops     == {"prepare", "refused", "files", "start", "loop", "running", "closed", "waited", "failed"}
Errors  == {"nil", "fault", "canceled"}
Running == {"starting", "ready"}
Results == {"exit0", "exit1"}

\* Mutant: one error more than the goroutines dispatch is announced.
ErrCountHigh == [writer |-> 4, reader |-> 2]

ErrCount == [writer |-> 3, reader |-> 2]

Init ==
    /\ op = "prepare" /\ ctx = "live" /\ expired = FALSE
    /\ args = "none" /\ stat = "none" /\ byte = FALSE
    /\ go = [g \in Goroutines |-> "none"]
    /\ ec = << >> /\ ecs = 0 /\ err = "nil"
    /\ proxy = "none" /\ cancel = "no" /\ socks = FALSE

may(f) == f \in Faults

\* Fulfill cancels its own context c when it returns.
InFulfill == op \in {"files", "start", "loop"}
CDone     == expired \/ ctx # "live" \/ ~InFulfill

\* Closing an end that is closed already is an error.
CloseErr(end) == IF end = "closed" THEN "fault" ELSE "nil"

Dispatch(e)   == ec' = Append(ec, e)
Enter(g, pc)  == go' = [go EXCEPT ![g] = pc]

-----------------------------------------------------------------------------
(***************************************************************************)
(* Proxy.Start, helper.Start and proc.Fulfill                              *)
(***************************************************************************)
\* The program and its libraries are looked up.
Prepare ==
    /\ op = "prepare"
    /\ op' = "files"
    /\ UNCHANGED << ctx, expired, go, ec, ecs, err, helperVars >>

PrepareFail ==
    /\ op = "prepare"
    /\ may("lookup") \/ ctx # "live"
    /\ op' = "refused" /\ err' = "fault"
    /\ UNCHANGED << ctx, expired, go, ec, ecs, helperVars >>

FulfillFiles ==
    /\ op = "files"
    /\ args' = "open" /\ stat' = "open"
    /\ go' = [writer |-> "write", writerCtx |-> "select",
              reader |-> "read", readerCtx |-> "select"]
    /\ ecs' = ErrCount.writer + ErrCount.reader
    /\ op' = "start"
    /\ UNCHANGED << ctx, expired, byte, ec, err, proxy, cancel, socks >>

\* Mutant: a helper that could not be started is left alone.
StartFailedKept == op' = "failed" /\ UNCHANGED ctx

\* Proxy.Start cancels the context of a helper that could not be started.
StartFailed == /\ op' = "failed"
               /\ ctx' = IF ctx = "live" THEN "failed" ELSE ctx

\* A pipe cannot be made: for the status pipe, the writer runs by then.
FulfillFilesFail ==
    /\ op = "files"
    /\ may("pipe")
    /\ err' = "fault"
    /\ ecs' = ErrCount.writer + ErrCount.reader
    /\ StartFailed
    /\ \/ UNCHANGED << args, go >>
       \/ /\ args' = "open"
          /\ go' = [go EXCEPT !["writer"] = "write", !["writerCtx"] = "select"]
    /\ UNCHANGED << expired, stat, byte, ec, proxy, cancel, socks >>

FulfillStart ==
    /\ op = "start"
    /\ ctx = "live"
    /\ proxy' = "starting"
    /\ op' = "loop"
    /\ UNCHANGED << ctx, expired, args, stat, byte, go, ec, ecs, err, cancel, socks >>

\* In the sandbox the process may be up when its parameters cannot be served.
FulfillStartFail ==
    /\ op = "start"
    /\ \/ ctx # "live" /\ UNCHANGED proxy
       \/ may("start") /\ ctx = "live" /\ proxy' \in {"none", "starting"}
    /\ err' = "fault"
    /\ StartFailed
    /\ UNCHANGED << expired, args, stat, byte, go, ec, ecs, cancel, socks >>

\* The break of the code only leaves the select.
FulfillReceive ==
    /\ op = "loop"
    /\ ecs > 0
    /\ ec # << >>
    /\ err' = Head(ec) /\ ec' = Tail(ec) /\ ecs' = ecs - 1
    /\ UNCHANGED << op, ctx, expired, args, stat, byte, go, proxy, cancel, socks >>

FulfillCtxDone ==
    /\ op = "loop"
    /\ ecs > 0
    /\ ctx # "live"
    /\ err' = "canceled"
    /\ UNCHANGED << op, ctx, expired, args, stat, byte, go, ec, ecs, proxy, cancel, socks >>

FulfillReturn ==
    /\ op = "loop"
    /\ ecs = 0
    /\ IF err = "nil" THEN op' = "running" /\ UNCHANGED ctx ELSE StartFailed
    /\ UNCHANGED << expired, args, stat, byte, go, ec, ecs, err, proxy, cancel, socks >>

-----------------------------------------------------------------------------
(***************************************************************************)
(* The goroutines of writeToFile.  The parent keeps the read end open, so  *)
(* that a write ends when the pipe holds the arguments, when the proxy     *)
(* reads them, or when the pipe is closed under it.                        *)
(***************************************************************************)
WriteArgs ==
    /\ go["writer"] = "write"
    /\ \/ args = "open" /\ Dispatch("nil")
       \/ args = "closed" /\ Dispatch("fault")
    /\ Enter("writer", "close")
    /\ UNCHANGED << op, ctx, expired, ecs, err, helperVars >>

\* Mutant: only a failure to close is dispatched.
CloseArgsQuiet ==
    /\ go["writer"] = "close"
    /\ IF args = "closed" THEN Dispatch("fault") ELSE UNCHANGED ec
    /\ args' = "closed"
    /\ Enter("writer", "end")
    /\ UNCHANGED << op, ctx, expired, stat, byte, ecs, err, proxy, cancel, socks >>

CloseArgs ==
    /\ go["writer"] = "close"
    /\ Dispatch(CloseErr(args))
    /\ args' = "closed"
    /\ Enter("writer", "end")
    /\ UNCHANGED << op, ctx, expired, stat, byte, ecs, err, proxy, cancel, socks >>

\* Mutant: the pipe is closed once more when the writer is done.
WriterCtxDoneTwice ==
    /\ go["writerCtx"] = "select"
    /\ go["writer"] = "end" \/ CDone
    /\ Dispatch(CloseErr(args)) /\ args' = "closed"
    /\ Enter("writerCtx", "end")
    /\ UNCHANGED << op, ctx, expired, stat, byte, ecs, err, proxy, cancel, socks >>

WriterCtxDone ==
    /\ go["writerCtx"] = "select"
    /\ \/ go["writer"] = "end" /\ Dispatch("nil") /\ UNCHANGED args
       \/ CDone /\ Dispatch(CloseErr(args)) /\ args' = "closed"
    /\ Enter("writerCtx", "end")
    /\ UNCHANGED << op, ctx, expired, stat, byte, ecs, err, proxy, cancel, socks >>

(***************************************************************************)
(* The goroutines of statFile.  The parent keeps the write end open, so    *)
(* that a proxy that died does not end the read.                           *)
(***************************************************************************)
ReadStat ==
    /\ go["reader"] = "read"
    /\ \/ byte /\ stat = "open" /\ Dispatch("nil")
       \/ stat = "closed" /\ Dispatch("fault")
    /\ Enter("reader", "end")
    /\ UNCHANGED << op, ctx, expired, ecs, err, helperVars >>

ReaderCtxDone ==
    /\ go["readerCtx"] = "select"
    /\ \/ go["reader"] = "end" /\ Dispatch("nil") /\ UNCHANGED stat
       \/ CDone /\ Dispatch(CloseErr(stat)) /\ stat' = "closed"
    /\ Enter("readerCtx", "end")
    /\ UNCHANGED << op, ctx, expired, args, byte, ecs, err, proxy, cancel, socks >>

-----------------------------------------------------------------------------
(***************************************************************************)
(* exec.Cmd under the context of the helper: Cancel closes the status      *)
(* pipe, and the process is killed when WaitDelay has elapsed after it.    *)
(***************************************************************************)
Cancel ==
    /\ proxy \in Running
    /\ ctx # "live"
    /\ cancel = "no"
    /\ cancel' = CloseErr(stat)
    /\ stat' = "closed"
    /\ UNCHANGED << op, ctx, expired, args, byte, go, ec, ecs, err, proxy, socks >>

Kill ==
    /\ proxy \in Running
    /\ cancel # "no"
    /\ proxy' = "exit1"
    /\ UNCHANGED << op, ctx, expired, args, stat, byte, go, ec, ecs, err, cancel, socks >>

(***************************************************************************)
(* xdg-dbus-proxy: reads its arguments, makes its sockets, writes to the   *)
(* status pipe, and exits when that pipe is closed.                        *)
(***************************************************************************)
ProxyReady ==
    /\ proxy = "starting"
    /\ args = "closed"
    /\ stat = "open"
    /\ proxy' = "ready" /\ byte' = TRUE /\ socks' = TRUE
    /\ UNCHANGED << op, ctx, expired, args, stat, go, ec, ecs, err, cancel >>

ProxyQuit ==
    /\ proxy \in Running
    /\ stat = "closed"
    /\ proxy' = "exit0"
    /\ UNCHANGED << op, ctx, expired, args, stat, byte, go, ec, ecs, err, cancel, socks >>

ProxyDie ==
    /\ proxy \in Running
    /\ may("die")
    /\ proxy' \in Results
    /\ UNCHANGED << op, ctx, expired, args, stat, byte, go, ec, ecs, err, cancel, socks >>

Expire ==
    /\ InFulfill
    /\ expired = FALSE
    /\ expired' = TRUE
    /\ UNCHANGED << op, ctx, go, ec, ecs, err, helperVars >>

\* The context of the monitor is cancelled.
CancelUpstream ==
    /\ may("upstream")
    /\ ctx = "live"
    /\ ctx' = "upstream"
    /\ UNCHANGED << op, expired, go, ec, ecs, err, helperVars >>

-----------------------------------------------------------------------------
\* Mutant: Close does not cancel the context of the helper.
CloseUncancelled ==
    /\ op = "running"
    /\ op' = "closed"
    /\ UNCHANGED << ctx, expired, go, ec, ecs, err, helperVars >>

\* Proxy.Close, first step of revert: the first cause of a context stays.
Close ==
    /\ op = "running"
    /\ ctx' = IF ctx = "live" THEN "closed" ELSE ctx
    /\ op' = "closed"
    /\ UNCHANGED << expired, go, ec, ecs, err, helperVars >>

\* exec.Cmd.Wait prefers the status of the process to the result of Cancel.
HelperWait ==
    IF proxy = "exit1" THEN "fault"
    ELSE CASE cancel = "nil"   -> "canceled"
           [] cancel = "fault" -> "fault"
           [] OTHER            -> "nil"

\* Mutant: the sockets stay.
WaitKeepsSockets ==
    /\ op = "closed"
    /\ proxy \in Results
    /\ op' = "waited"
    /\ err' = IF HelperWait = "canceled" THEN "nil" ELSE HelperWait
    /\ UNCHANGED << ctx, expired, args, stat, byte, go, ec, ecs, proxy, cancel, socks >>

\* Proxy.Wait and the rest of revert.
Wait ==
    /\ op = "closed"
    /\ proxy \in Results
    /\ op' = "waited"
    /\ err' = IF HelperWait = "canceled" THEN "nil" ELSE HelperWait
    /\ socks' = FALSE
    /\ UNCHANGED << ctx, expired, args, stat, byte, go, ec, ecs, proxy, cancel >>

\* A socket cannot be removed: Wait joins that error with the exit, and revert drops
\* both when the exit is the cancellation of the monitor's context.
WaitRemoveFail ==
    /\ op = "closed"
    /\ proxy \in Results
    /\ socks
    /\ may("remove")
    /\ op' = "waited"
    /\ err' = IF HelperWait = "canceled" /\ ctx # "closed" THEN "nil" ELSE "fault"
    /\ UNCHANGED << ctx, expired, args, stat, byte, go, ec, ecs, proxy, cancel, socks >>

GoStep ==
    \/ WriteArgs \/ CloseArgs \/ WriterCtxDone \/ ReadStat \/ ReaderCtxDone

OpStep ==
    \/ Prepare \/ PrepareFail \/ FulfillFiles \/ FulfillFilesFail \/ FulfillStart \/ FulfillStartFail
    \/ FulfillReceive \/ FulfillReturn \/ Wait \/ WaitRemoveFail

Next ==
    \/ OpStep \/ FulfillCtxDone \/ GoStep \/ Cancel \/ Kill
    \/ ProxyReady \/ ProxyQuit \/ ProxyDie \/ Expire \/ CancelUpstream \/ Close

\* Goroutines run, timers fire, select does not prefer a done context for
\* ever, and exec.Cmd watches its context.  The proxy may hang.
Fairness ==
    /\ WF_vars(OpStep) /\ SF_vars(FulfillReceive)
    /\ WF_vars(WriteArgs) /\ WF_vars(CloseArgs) /\ WF_vars(WriterCtxDone)
    /\ WF_vars(ReadStat) /\ WF_vars(ReaderCtxDone)
    /\ WF_vars(Expire) /\ WF_vars(Cancel) /\ WF_vars(Kill)

Spec == Init /\ [][Next]_vars /\ Fairness

-----------------------------------------------------------------------------
TypeOK ==
    /\ op \in Ops
    /\ ctx \in {"live", "closed", "upstream", "failed"}
    /\ expired \in BOOLEAN /\ byte \in BOOLEAN /\ socks \in BOOLEAN
    /\ args \in {"none", "open", "closed"} /\ stat \in {"none", "open", "closed"}
    /\ go \in [Goroutines -> {"none", "write", "read", "select", "close", "end"}]
    /\ ec \in Seq(Errors)
    /\ ecs \in 0..5
    /\ err \in Errors
    /\ proxy \in {"none"} \cup Running \cup Results
    /\ cancel \in {"no", "nil", "fault"}

(***************************************************************************)
(* The goroutines dispatch exactly as many errors as ErrCount announces,   *)
(* whichever side of their select they take: what has been received, what  *)
(* is in the channel and what they still owe add up.  One more would       *)
(* panic, one less would leave Fulfill waiting for ever.                   *)
(***************************************************************************)
Owes(g) == CASE go[g] = "write" -> 2
             [] go[g] \in {"close", "read", "select"} -> 1
             [] OTHER -> 0

DispatchesExact ==
    op = "loop" =>
        ecs = Len(ec) + Owes("writer") + Owes("writerCtx")
                      + Owes("reader") + Owes("readerCtx")

(***************************************************************************)
(* Start fails for a reason: once the process is up and its files are      *)
(* served, it is only taken for failed when the timeout has elapsed or the *)
(* context of the monitor was cancelled.                                   *)
(***************************************************************************)
NoFalseAlarm ==
    op = "failed" /\ ecs = 0 => expired \/ ctx = "upstream"

(***************************************************************************)
(* Revert leaves no proxy behind and no error for a proxy that got ready   *)
(* in time and ended because it was closed.  A socket it leaves in the     *)
(* directory shared with the container is reported, but for the one case   *)
(* in which revert drops what Wait says: a proxy that was ended by the     *)
(* cancellation of the monitor's context.                                  *)
(***************************************************************************)
RevertClean ==
    op = "waited" =>
        /\ proxy \in Results
        /\ err = "nil" /\ socks => ctx = "upstream" /\ cancel = "nil" /\ proxy = "exit0"
        /\ proxy = "exit0" /\ ~socks /\ ~expired /\ ctx = "closed" => err = "nil"

(***************************************************************************)
(* Start and revert return: a proxy that never gets ready, ignores the     *)
(* closed pipe or is already dead delays them no longer than the timeouts. *)
(***************************************************************************)
StartReturns  == <>(op # "prepare" /\ ~InFulfill)
RevertReturns == op = "closed" ~> op = "waited"

\* A proxy whose start was reported as failed does not stay.
FailedStartStops == op = "failed" ~> proxy \notin Running

(***************************************************************************)
(* Start succeeds only when the proxy has reported that it is ready.       *)
(***************************************************************************)
StartedReady == op = "running" => byte
=============================================================================
