----------------------------- MODULE ProxyProofs -----------------------------
(***************************************************************************)
(* That Fulfill receives exactly what it is owed, that a start only fails  *)
(* for a reason, and that revert is clean, under every fault and in every  *)
(* interleaving of the goroutines.  Three accounts are kept: of the errors *)
(* that are owed, of who may have closed a pipe, and of what Cancel of     *)
(* exec.Cmd met.                                                           *)
(***************************************************************************)
EXTENDS Proxy, SequenceTheorems, TLAPS

\* The goroutines have been started.
Served == {"start", "loop", "running", "closed", "waited"}

Owed == Owes("writer") + Owes("writerCtx") + Owes("reader") + Owes("readerCtx")

\* The errors: none is made before the files are served, none is received before the loop, and none is owed after it.
Account ==
    /\ op \in {"prepare", "refused", "files"} =>
            ec = << >> /\ \A g \in Goroutines : go[g] = "none"
    /\ op = "start" => ecs = 5
    /\ op \in Served => ecs = Len(ec) + Owed
    /\ op \in {"running", "closed", "waited"} => ecs = 0

\* Before its files are served there is no process, and nothing has failed.
Fresh ==
    op \in {"prepare", "files"} => err = "nil" /\ cancel = "no" /\ proxy = "none"

\* The program counter of each goroutine.
GoTyped ==
    /\ go["writer"] \in {"none", "write", "close", "end"}
    /\ go["reader"] \in {"none", "read", "end"}
    /\ go["writerCtx"] \in {"none", "select", "end"}
    /\ go["readerCtx"] \in {"none", "select", "end"}

\* The context: what it may be at each stage.
CtxStage ==
    /\ op \in {"prepare", "refused", "files", "start", "loop", "running"}
            => ctx \in {"live", "upstream"}
    /\ op \in {"closed", "waited"} => ctx \in {"closed", "upstream"}
    /\ op = "failed" => ctx \in {"failed", "upstream"}

\* Neither the timeout nor the context of the monitor has interfered.
Quiet == ~expired /\ ctx # "upstream"

\* Until then nobody closes a pipe but its owner, and no error is made.
Undisturbed ==
    op \in Served /\ Quiet =>
        /\ op \in {"start", "loop"} => err = "nil"
        /\ \A n \in 1..Len(ec) : ec[n] = "nil"
        /\ go["writer"] \in {"write", "close"} => args = "open"
        /\ IF cancel = "no" THEN stat = "open" ELSE cancel = "nil"
        /\ ctx = "live" => cancel = "no"

\* A failure after the loop has its reason.
Reasoned == op = "failed" => (ecs = 5 \/ ~Quiet)

ProxyInv ==
    /\ TypeOK /\ GoTyped /\ Account /\ CtxStage /\ Fresh
    /\ Undisturbed /\ Reasoned /\ RevertClean

-----------------------------------------------------------------------------
\* Dispatching an error adds one to the channel, receiving one removes it.
LEMMA Dispatched ==
    ASSUME TypeOK, NEW e \in Errors, Dispatch(e)
    PROVE  /\ ec' \in Seq(Errors) /\ Len(ec') = Len(ec) + 1
           /\ \A n \in 1..Len(ec) : ec'[n] = ec[n]
           /\ ec'[Len(ec')] = e
BY DEF TypeOK, Dispatch

\* What taking an error from the channel leaves in it.
LEMMA Received ==
    ASSUME TypeOK, ec # << >>
    PROVE  /\ Tail(ec) \in Seq(Errors) /\ Len(Tail(ec)) = Len(ec) - 1
           /\ \A n \in 1..Len(Tail(ec)) : Tail(ec)[n] = ec[n + 1] /\ n + 1 \in 1..Len(ec)
           /\ Head(ec) = ec[1] /\ 1 \in 1..Len(ec) /\ Head(ec) \in Errors
<1>1. ec \in Seq(Errors)
  BY DEF TypeOK
<1>2. Len(ec) \in Nat /\ Len(ec) # 0
  BY <1>1, EmptySeq
<1>3. QED  BY <1>1, <1>2, HeadTailProperties

\* Closing a pipe gives an error of the right kind.
LEMMA CloseErrType == \A end : CloseErr(end) \in Errors
BY DEF CloseErr, Errors

\* What a goroutine owes is a number.
LEMMA OwesType == \A g : Owes(g) \in 0..2
BY DEF Owes

\* What the goroutines owe is a number.
LEMMA OwedType == Owed \in Nat
BY OwesType DEF Owed

-----------------------------------------------------------------------------
\* Init is typed, and the books are empty.
LEMMA InitInv == Init => ProxyInv
<1> SUFFICES ASSUME Init PROVE ProxyInv
  OBVIOUS
<1> USE DEF Init, Goroutines
<1>1. TypeOK
  <2>1. ec \in Seq(Errors)
    BY EmptySeq
  <2>2. /\ op \in Ops /\ err \in Errors
        /\ go \in [Goroutines -> {"none", "write", "read", "select", "close", "end"}]
    BY DEF Ops, Errors
  <2>3. expired \in BOOLEAN /\ byte \in BOOLEAN /\ socks \in BOOLEAN
    OBVIOUS
  <2>4. QED  BY <2>1, <2>2, <2>3 DEF TypeOK
<1>2. GoTyped /\ Account /\ CtxStage /\ Fresh /\ Undisturbed /\ Reasoned /\ RevertClean
  BY DEF GoTyped, Account, CtxStage, Fresh, Undisturbed, Reasoned, RevertClean, Served
<1>3. QED  BY <1>1, <1>2 DEF ProxyInv

\* Steps of the operation keep the types.
LEMMA OpTyped ==
    ASSUME TypeOK, GoTyped, OpStep \/ FulfillCtxDone \/ Close
    PROVE  TypeOK' /\ GoTyped'
<1> USE DEF TypeOK, GoTyped, helperVars, Ops, Errors, Goroutines, Running, Results, StartFailed
<1>1. CASE Prepare \/ PrepareFail \/ FulfillCtxDone \/ Close
  BY <1>1 DEF Prepare, PrepareFail, FulfillCtxDone, Close
<1>2. CASE FulfillFiles
  BY <1>2 DEF FulfillFiles, ErrCount
<1>3. CASE FulfillFilesFail
  BY <1>3 DEF FulfillFilesFail, ErrCount
<1>4. CASE FulfillStart \/ FulfillStartFail
  BY <1>4 DEF FulfillStart, FulfillStartFail
<1>5. CASE FulfillReceive
  BY <1>5, Received DEF FulfillReceive
<1>6. CASE FulfillReturn
  BY <1>6 DEF FulfillReturn
<1>7. CASE Wait \/ WaitRemoveFail
  BY <1>7 DEF Wait, WaitRemoveFail, HelperWait
<1>8. QED  BY <1>1, <1>2, <1>3, <1>4, <1>5, <1>6, <1>7 DEF OpStep

\* Steps of the goroutines keep the types.
LEMMA GoStepTyped ==
    ASSUME TypeOK, GoTyped, GoStep
    PROVE  TypeOK' /\ GoTyped'
<1> USE CloseErrType, Dispatched DEF helperVars, Enter
<1> "nil" \in Errors /\ "fault" \in Errors
  BY DEF Errors
<1>1. ec' \in Seq(Errors)
  BY DEF GoStep, WriteArgs, CloseArgs, WriterCtxDone, ReadStat, ReaderCtxDone
<1>2. UNCHANGED << op, ctx, expired, byte, ecs, err, proxy, cancel, socks >>
  BY DEF GoStep, WriteArgs, CloseArgs, WriterCtxDone, ReadStat, ReaderCtxDone
<1>3. /\ args' \in {"none", "open", "closed"} /\ stat' \in {"none", "open", "closed"}
      /\ go' \in [Goroutines -> {"none", "write", "read", "select", "close", "end"}]
      /\ GoTyped'
  BY DEF TypeOK, GoTyped, Goroutines,
         GoStep, WriteArgs, CloseArgs, WriterCtxDone, ReadStat, ReaderCtxDone
<1>4. QED  BY <1>1, <1>2, <1>3 DEF TypeOK

\* So do those of the process, its timers and the context of the monitor.
LEMMA ProcessTyped ==
    ASSUME TypeOK, GoTyped,
           Cancel \/ Kill \/ ProxyReady \/ ProxyQuit \/ ProxyDie \/ Expire \/ CancelUpstream
    PROVE  TypeOK' /\ GoTyped'
BY DEF TypeOK, GoTyped, helperVars, Running, Results, CloseErr,
       Cancel, Kill, ProxyReady, ProxyQuit, ProxyDie, Expire, CancelUpstream

\* Every step keeps the types.
LEMMA StepTyped ==
    ASSUME TypeOK, GoTyped, [Next]_vars
    PROVE  TypeOK' /\ GoTyped'
<1>1. CASE Next
  BY <1>1, OpTyped, GoStepTyped, ProcessTyped DEF Next
<1>2. CASE UNCHANGED vars
  BY <1>2 DEF vars, TypeOK, GoTyped
<1>3. QED  BY <1>1, <1>2

-----------------------------------------------------------------------------
\* The account: a goroutine pays what it dispatches.
LEMMA GoAccount ==
    ASSUME TypeOK, GoTyped, Account, GoStep
    PROVE  Account'
<1> USE CloseErrType, Dispatched DEF Enter, helperVars
<1> "nil" \in Errors /\ "fault" \in Errors
  BY DEF Errors
<1>1. UNCHANGED << op, ecs >> /\ Len(ec') = Len(ec) + 1
  BY DEF GoStep, WriteArgs, CloseArgs, WriterCtxDone, ReadStat, ReaderCtxDone
<1>2. Owed = Owed' + 1
  <2> USE DEF Owed, Owes, TypeOK, GoTyped, Goroutines
  <2>1. CASE WriteArgs
    BY <2>1 DEF WriteArgs
  <2>2. CASE CloseArgs
    BY <2>2 DEF CloseArgs
  <2>3. CASE WriterCtxDone
    BY <2>3 DEF WriterCtxDone
  <2>4. CASE ReadStat
    BY <2>4 DEF ReadStat
  <2>5. CASE ReaderCtxDone
    BY <2>5 DEF ReaderCtxDone
  <2>6. QED  BY <2>1, <2>2, <2>3, <2>4, <2>5 DEF GoStep
<1>3. op \notin {"prepare", "refused", "files"}
  BY DEF Goroutines, Account, GoStep, WriteArgs, CloseArgs, WriterCtxDone, ReadStat, ReaderCtxDone
<1>4. Len(ec) \in Nat /\ Owed' \in Nat
  BY OwesType DEF Owed, Owes, TypeOK
<1>5. QED  BY <1>1, <1>2, <1>3, <1>4 DEF Account

\* Fulfill announces what the goroutines owe, and receives one at a time.
LEMMA OpAccount ==
    ASSUME TypeOK, GoTyped, Account, OpStep \/ FulfillCtxDone \/ Close
    PROVE  Account'
<1> USE DEF Account, Served, helperVars
<1>1. CASE Prepare \/ PrepareFail \/ FulfillCtxDone \/ Close \/ Wait \/ WaitRemoveFail
  BY <1>1 DEF Prepare, PrepareFail, FulfillCtxDone, Close, Wait, WaitRemoveFail, Owed, Owes
<1>2. CASE FulfillFiles
  BY <1>2 DEF FulfillFiles, ErrCount, Owed, Owes
<1>3. CASE FulfillFilesFail
  BY <1>3 DEF FulfillFilesFail, StartFailed
<1>4. CASE FulfillStart \/ FulfillStartFail
  BY <1>4 DEF FulfillStart, FulfillStartFail, StartFailed, Owed, Owes
<1>5. CASE FulfillReceive
  <2>1. Owed' = Owed /\ Owed \in Nat /\ Len(ec') = Len(ec) - 1
    BY <1>5, Received, OwedType DEF FulfillReceive, Owed, Owes
  <2>2. Len(ec) \in Nat /\ ecs \in Nat
    BY DEF TypeOK
  <2>3. QED  BY <1>5, <2>1, <2>2 DEF FulfillReceive
<1>6. CASE FulfillReturn
  BY <1>6 DEF FulfillReturn, StartFailed, Owed, Owes
<1>7. QED  BY <1>1, <1>2, <1>3, <1>4, <1>5, <1>6 DEF OpStep

\* Every step keeps the account of the errors.
LEMMA StepAccount ==
    ASSUME TypeOK, GoTyped, Account, [Next]_vars
    PROVE  Account'
<1>1. CASE GoStep
  BY <1>1, GoAccount
<1>2. CASE OpStep \/ FulfillCtxDone \/ Close
  BY <1>2, OpAccount
<1>3. CASE UNCHANGED << op, go, ec, ecs >>
  BY <1>3 DEF Account, Owed, Owes
<1>4. QED
  BY <1>1, <1>2, <1>3 DEF Next, vars, helperVars, Cancel, Kill, ProxyReady, ProxyQuit,
         ProxyDie, Expire, CancelUpstream

\* Once the loop is over, every goroutine is.
LEMMA NothingOwed ==
    ASSUME TypeOK, GoTyped, Account, op \in {"running", "closed", "waited"}
    PROVE  /\ ec = << >> /\ go["writer"] \notin {"write", "close"}
           /\ go["readerCtx"] # "select" /\ go["writerCtx"] # "select" /\ go["reader"] # "read"
<1>1. Len(ec) + Owed = 0 /\ Len(ec) \in Nat
  BY DEF Account, Served, TypeOK
<1>2. Owed = 0 /\ Len(ec) = 0
  BY <1>1, OwedType
<1>3. ec = << >>
  BY <1>2, EmptySeq DEF TypeOK
<1>4. QED  BY <1>2, <1>3, OwesType DEF Owed, Owes

-----------------------------------------------------------------------------
\* The stages of the context.
LEMMA StepCtx ==
    ASSUME TypeOK, CtxStage, [Next]_vars
    PROVE  CtxStage'
<1> USE DEF CtxStage, helperVars
<1>1. CASE OpStep
  BY <1>1 DEF OpStep, Prepare, PrepareFail, FulfillFiles, FulfillFilesFail, FulfillStart,
         FulfillStartFail, FulfillReceive, FulfillReturn, Wait, WaitRemoveFail, StartFailed
<1>2. CASE Close \/ CancelUpstream
  BY <1>2 DEF Close, CancelUpstream
<1>3. CASE UNCHANGED << op, ctx >>
  BY <1>3
<1>4. QED
  BY <1>1, <1>2, <1>3 DEF Next, vars, FulfillCtxDone, GoStep, WriteArgs, CloseArgs,
         WriterCtxDone, ReadStat, ReaderCtxDone, Cancel, Kill, ProxyReady, ProxyQuit,
         ProxyDie, Expire

\* The interference of the timeout or of the monitor is for good.
LEMMA QuietBefore ==
    ASSUME TypeOK, [Next]_vars, Quiet'
    PROVE  Quiet
<1> USE DEF Quiet, helperVars
<1>1. CASE OpStep
  BY <1>1 DEF OpStep, Prepare, PrepareFail, FulfillFiles, FulfillFilesFail, FulfillStart,
         FulfillStartFail, FulfillReceive, FulfillReturn, Wait, WaitRemoveFail, StartFailed
<1>2. CASE Close \/ CancelUpstream \/ Expire
  BY <1>2 DEF Close, CancelUpstream, Expire
<1>3. CASE UNCHANGED << expired, ctx >>
  BY <1>3
<1>4. QED
  BY <1>1, <1>2, <1>3 DEF Next, vars, FulfillCtxDone, GoStep, WriteArgs, CloseArgs,
         WriterCtxDone, ReadStat, ReaderCtxDone, Cancel, Kill, ProxyReady, ProxyQuit, ProxyDie

\* Without interference the context that goroutines select on is not done
\* before the loop ends.
LEMMA NotDone ==
    ASSUME Quiet, CtxStage, op \in {"start", "loop"}
    PROVE  ~CDone
BY DEF Quiet, CtxStage, CDone, InFulfill

\* Goroutines only dispatch success, and leave the pipe of the other alone.
LEMMA GoUndisturbed ==
    ASSUME TypeOK, GoTyped, Account, CtxStage, Undisturbed, GoStep
    PROVE  Undisturbed'
<1> USE Dispatched DEF helperVars, Enter
<1> "nil" \in Errors /\ "fault" \in Errors
  BY DEF Errors
<1>1. UNCHANGED << op, ctx, expired, err, cancel >>
  BY DEF GoStep, WriteArgs, CloseArgs, WriterCtxDone, ReadStat, ReaderCtxDone
<1>2. SUFFICES ASSUME op \in Served, Quiet
               PROVE  Undisturbed'
  BY <1>1 DEF Undisturbed, Quiet
<1>3. op \in {"start", "loop"}
  BY <1>2, NothingOwed DEF Served, GoStep, WriteArgs, CloseArgs, WriterCtxDone,
         ReadStat, ReaderCtxDone
<1>4. ~CDone /\ ctx = "live" /\ cancel = "no" /\ stat = "open"
  BY <1>2, <1>3, NotDone DEF CtxStage, Quiet, Undisturbed
<1>5. /\ Dispatch("nil") /\ stat' = "open"
      /\ go'["writer"] \in {"write", "close"} => args' = "open"
  <2> USE <1>2, <1>4 DEF Undisturbed, TypeOK, Goroutines, CloseErr
  <2>1. CASE WriteArgs
    BY <2>1 DEF WriteArgs
  <2>2. CASE CloseArgs
    BY <2>2 DEF CloseArgs
  <2>3. CASE WriterCtxDone
    BY <2>3 DEF WriterCtxDone
  <2>4. CASE ReadStat
    BY <2>4 DEF ReadStat
  <2>5. CASE ReaderCtxDone
    BY <2>5 DEF ReaderCtxDone
  <2>6. QED  BY <2>1, <2>2, <2>3, <2>4, <2>5 DEF GoStep
<1>6. \A n \in 1..Len(ec') : ec'[n] = "nil"
  BY <1>2, <1>5 DEF Undisturbed, TypeOK
<1>7. QED  BY <1>1, <1>2, <1>4, <1>5, <1>6 DEF Undisturbed

\* The operation receives only success.
LEMMA OpUndisturbed ==
    ASSUME TypeOK, GoTyped, Account, CtxStage, Fresh, Undisturbed,
           OpStep \/ FulfillCtxDone \/ Close, Quiet
    PROVE  Undisturbed'
<1> USE DEF Undisturbed, Served, helperVars
<1>1. CASE Prepare \/ PrepareFail \/ FulfillFilesFail \/ FulfillStartFail
  BY <1>1 DEF Prepare, PrepareFail, FulfillFilesFail, FulfillStartFail, StartFailed
<1>2. CASE FulfillFiles
  BY <1>2 DEF FulfillFiles, Account, CtxStage, Fresh, Quiet
<1>3. CASE FulfillStart
  BY <1>3 DEF FulfillStart
<1>4. CASE FulfillReceive
  BY <1>4, Received DEF FulfillReceive
<1>5. CASE FulfillReturn
  BY <1>5 DEF FulfillReturn, StartFailed
<1>6. CASE Close
  BY <1>6 DEF Close, CtxStage, Quiet
<1>7. CASE Wait \/ WaitRemoveFail
  BY <1>7 DEF Wait, WaitRemoveFail
<1>8. CASE FulfillCtxDone
  BY <1>8 DEF FulfillCtxDone, CtxStage, Quiet
<1>9. QED
  BY <1>1, <1>2, <1>3, <1>4, <1>5, <1>6, <1>7, <1>8 DEF OpStep

\* Cancel finds the status pipe open, and is called for a context that is done.
LEMMA StepUndisturbed ==
    ASSUME TypeOK, GoTyped, Account, CtxStage, Fresh, Undisturbed, [Next]_vars
    PROVE  Undisturbed'
<1>1. SUFFICES ASSUME Quiet PROVE Undisturbed'
  BY QuietBefore DEF Undisturbed
<1>2. CASE GoStep
  BY <1>2, GoUndisturbed
<1>3. CASE OpStep \/ FulfillCtxDone \/ Close
  BY <1>1, <1>3, OpUndisturbed
<1>4. CASE Cancel
  BY <1>1, <1>4 DEF Cancel, CloseErr, Undisturbed, Quiet, TypeOK
<1>5. CASE Expire \/ CancelUpstream
  BY <1>5 DEF Expire, CancelUpstream, Undisturbed, Quiet
<1>6. CASE UNCHANGED << op, ctx, expired, args, stat, go, ec, err, cancel >>
  BY <1>6 DEF Undisturbed, Quiet
<1>7. QED
  BY <1>2, <1>3, <1>4, <1>5, <1>6 DEF Next, vars, Kill, ProxyReady, ProxyQuit, ProxyDie

\* Nothing has failed before the files are served.
LEMMA StepFresh ==
    ASSUME TypeOK, Fresh, [Next]_vars
    PROVE  Fresh'
<1> USE DEF Fresh, helperVars, Running
<1>1. CASE OpStep
  BY <1>1 DEF OpStep, Prepare, PrepareFail, FulfillFiles, FulfillFilesFail, FulfillStart,
         FulfillStartFail, FulfillReceive, FulfillReturn, Wait, WaitRemoveFail, StartFailed
<1>2. CASE Close \/ FulfillCtxDone \/ Cancel \/ Kill \/ ProxyReady \/ ProxyQuit \/ ProxyDie
  BY <1>2 DEF Close, FulfillCtxDone, Cancel, Kill, ProxyReady, ProxyQuit, ProxyDie
<1>3. CASE UNCHANGED << op, err, cancel, proxy >>
  BY <1>3
<1>4. QED
  BY <1>1, <1>2, <1>3 DEF Next, vars, GoStep, WriteArgs, CloseArgs, WriterCtxDone,
         ReadStat, ReaderCtxDone, Expire, CancelUpstream

-----------------------------------------------------------------------------
\* A start that fails has not announced its errors in vain, or has its reason.
LEMMA StepReasoned ==
    ASSUME TypeOK, Account, CtxStage, Fresh, Undisturbed, Reasoned, [Next]_vars
    PROVE  Reasoned'
<1> USE DEF Reasoned, helperVars
<1>1. CASE FulfillReturn
  <2>1. CASE err # "nil"
    <3>1. ~Quiet /\ op = "loop" /\ op' = "failed"
      BY <1>1, <2>1 DEF FulfillReturn, Undisturbed, Served, StartFailed
    <3>2. QED  BY <1>1, <3>1 DEF FulfillReturn, StartFailed, Quiet
  <2>2. QED  BY <1>1, <2>1 DEF FulfillReturn
<1>2. CASE FulfillFilesFail \/ FulfillStartFail
  BY <1>2 DEF FulfillFilesFail, FulfillStartFail, ErrCount, Account, StartFailed
<1>3. CASE Prepare \/ PrepareFail \/ FulfillFiles \/ FulfillStart \/ FulfillReceive
           \/ Wait \/ WaitRemoveFail \/ FulfillCtxDone \/ Close
  BY <1>3 DEF Prepare, PrepareFail, FulfillFiles, FulfillStart, FulfillReceive,
              Wait, WaitRemoveFail, FulfillCtxDone, Close
<1>4. CASE Expire \/ CancelUpstream
  BY <1>4 DEF Expire, CancelUpstream, Quiet
<1>5. CASE UNCHANGED << op, ctx, expired, ecs >>
  BY <1>5 DEF Quiet
<1>6. QED
  BY <1>1, <1>2, <1>3, <1>4, <1>5 DEF Next, vars, OpStep, GoStep, WriteArgs, CloseArgs,
         WriterCtxDone, ReadStat, ReaderCtxDone, Cancel, Kill, ProxyReady, ProxyQuit, ProxyDie

\* The proxy has exited when revert is over, and nothing undoes what it did.
LEMMA StepClean ==
    ASSUME TypeOK, CtxStage, Undisturbed, RevertClean, [Next]_vars
    PROVE  RevertClean'
<1> USE DEF RevertClean, helperVars
<1>1. CASE Wait
  <2>1. proxy = "exit0" /\ ~expired /\ ctx = "closed" => cancel \in {"no", "nil"}
    BY <1>1 DEF Wait, Undisturbed, Quiet, Served, TypeOK
  <2>2. QED  BY <1>1, <2>1 DEF Wait, HelperWait
<1>2. CASE WaitRemoveFail
  BY <1>2 DEF WaitRemoveFail, HelperWait, CtxStage, Results, TypeOK
<1>3. CASE op' # "waited"
  BY <1>3
<1>4. CASE op = "waited" /\ UNCHANGED << op, ctx, expired, err, proxy, cancel, socks >>
  BY <1>4
<1>5. op' = "waited" /\ ~Wait /\ ~WaitRemoveFail => op = "waited"
  BY DEF Next, vars, OpStep, Prepare, PrepareFail, FulfillFiles, FulfillFilesFail,
         FulfillStart, FulfillStartFail, FulfillReceive, FulfillReturn, StartFailed,
         FulfillCtxDone, GoStep, WriteArgs, CloseArgs, WriterCtxDone, ReadStat,
         ReaderCtxDone, Cancel, Kill, ProxyReady, ProxyQuit, ProxyDie, Expire,
         CancelUpstream, Close
<1>6. op = "waited" => UNCHANGED << op, ctx, expired, err, proxy, cancel, socks >>
  BY DEF Next, vars, OpStep, Prepare, PrepareFail, FulfillFiles, FulfillFilesFail,
         FulfillStart, FulfillStartFail, FulfillReceive, FulfillReturn, Wait, WaitRemoveFail,
         FulfillCtxDone, GoStep, WriteArgs, CloseArgs, WriterCtxDone, ReadStat,
         ReaderCtxDone, Cancel, Kill, ProxyReady, ProxyQuit, ProxyDie, Expire,
         CancelUpstream, Close, InFulfill, CtxStage, Running, Results
<1>7. QED  BY <1>1, <1>2, <1>3, <1>4, <1>5, <1>6

\* Every step keeps the invariant.
LEMMA StepInv == ProxyInv /\ [Next]_vars => ProxyInv'
BY StepTyped, StepAccount, StepCtx, StepFresh, StepUndisturbed, StepReasoned, StepClean
   DEF ProxyInv

-----------------------------------------------------------------------------
\* Type correctness of the proxy operation, under every fault.
THEOREM ProxyTypeCorrect == Spec => []TypeOK
<1>1. ProxyInv => TypeOK
  BY DEF ProxyInv
<1>2. QED  BY <1>1, InitInv, StepInv, PTL DEF Spec

\* Fulfill is owed exactly the errors it has announced and not yet received,
\* whichever side of their select the goroutines take and whatever fails.
THEOREM DispatchesExactAlways == Spec => []DispatchesExact
<1>1. ProxyInv => DispatchesExact
  <2>1. /\ Owes("writer") \in Nat /\ Owes("writerCtx") \in Nat
        /\ Owes("reader") \in Nat /\ Owes("readerCtx") \in Nat
    BY OwesType
  <2>2. ProxyInv => Len(ec) \in Nat /\ (op = "loop" => ecs = Len(ec) + Owed)
    BY DEF ProxyInv, TypeOK, Account, Served
  <2>3. QED  BY <2>1, <2>2 DEF Owed, DispatchesExact
<1>2. QED  BY <1>1, InitInv, StepInv, PTL DEF Spec

\* A proxy that is up and served is only taken for failed when its timeout has
\* elapsed or the monitor was cancelled.
THEOREM NoFalseAlarmEver == Spec => []NoFalseAlarm
<1>1. ProxyInv => NoFalseAlarm
  BY DEF ProxyInv, TypeOK, Reasoned, Quiet, NoFalseAlarm
<1>2. QED  BY <1>1, InitInv, StepInv, PTL DEF Spec

\* Revert leaves no proxy behind, makes no error of a proxy that ended because it
\* was closed, and leaves a socket without an error only after the monitor's
\* context was cancelled and ended the proxy.
THEOREM RevertCleanAlways == Spec => []RevertClean
<1>1. ProxyInv => RevertClean
  BY DEF ProxyInv
<1>2. QED  BY <1>1, InitInv, StepInv, PTL DEF Spec
=============================================================================
