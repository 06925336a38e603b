----------------------------- MODULE ShimProofs -----------------------------
(***************************************************************************)
(* That the shim only acts on genuine requests, for any number of SIGCONTs *)
(* other processes send and under every fault.  A request travels: from a  *)
(* cancelled or dying monitor to the pending signal, from there to the     *)
(* signal pipe, and from there to the exit status or the container.  The   *)
(* invariant says of each place that what it holds came from the monitor.  *)
(***************************************************************************)
EXTENDS Shim, SequenceTheorems, TLAPS

\* The handler knows the parent: it is read before the handler is installed,
\* and a new parent means that the monitor is gone.
ParentKnown ==
    /\ ppid = "reaper" => Dead
    /\ ppid = "unset" => pc \in {"getppid", "exited"}
    /\ pending # "none" => pc \notin {"getppid", "sigaction"}

\* A message the goroutine may act on.
GenuineMessage(m) == (m = "request" => Asked) /\ (m = "orphan" => Dead)

PipeGenuine == \A n \in DOMAIN sigpipe : GenuineMessage(sigpipe[n])

\* What is on its way to the shim comes from its monitor.
Genuine ==
    /\ ParentKnown
    /\ pipe = "closed" => Asked
    /\ pending = "monitor" => Asked
    /\ PipeGenuine
    /\ RequestsGenuine

ShimInv == TypeOK /\ Genuine

-----------------------------------------------------------------------------
\* Every SIGCONT keeps the type of the pending signal, and is only kept when
\* the handler is installed.
LEMMA PendingSignal ==
    ASSUME NEW from \in {"monitor", "other"}, TypeOK, SIGCONT(from)
    PROVE  /\ pending' \in {"none", "monitor", "other"}
           /\ pending' # pending => pending' = from
           /\ pending' # pending => pc \notin {"getppid", "sigaction", "exited"}
BY DEF SIGCONT, TypeOK

\* Short sequences over a set, and sequences put together.
LEMMA ShortSeq ==
    ASSUME NEW S, NEW a \in S, NEW b \in S
    PROVE  << >> \in Seq(S) /\ << a >> \in Seq(S) /\ << a, b >> \in Seq(S)
BY EmptySeq

\* Concatenation stays within the sequences over a set.
LEMMA JoinSeq ==
    ASSUME NEW S, NEW s \in Seq(S), NEW t \in Seq(S)
    PROVE  s \o t \in Seq(S)
BY ConcatProperties

\* The handler writes known messages.
LEMMA MessagesType ==
    Messages \in Seq({"request", "orphan", "badpid"})
<1> DEFINE M == {"request", "orphan", "badpid"}
<1> "request" \in M /\ "orphan" \in M /\ "badpid" \in M
  OBVIOUS
<1> HIDE DEF M
<1>1. Messages \in Seq(M)
  BY ShortSeq DEF Messages
<1>2. QED  BY <1>1 DEF M

\* The initial state is typed.
LEMMA InitTyped == Init => TypeOK
<1>1. << >> \in Seq({"request", "orphan", "badpid"})
  BY EmptySeq
<1>2. QED  BY <1>1, ShimAssumption DEF Init, TypeOK

\* The steps of the monitor keep the types.
LEMMA MonitorTyped ==
    ASSUME TypeOK, MonitorStep \/ CmdCancel \/ Interrupt \/ Kill
    PROVE  TypeOK'
<1> USE DEF TypeOK, monVars, mainVars, sigVars, boxVars
<1>1. CASE Serve
  BY <1>1 DEF Serve
<1>2. CASE CommitFail \/ ServeFail
  <2>1. PICK left \in {"torn", "closed"} : perror(left)
    BY <1>2 DEF CommitFail, ServeFail
  <2>2. QED  BY <2>1 DEF perror
<1>3. CASE ShimWait \/ WaitTimeout
  BY <1>3 DEF ShimWait, WaitTimeout
<1>4. CASE Final \/ Kill
  <2>1. pending' \in {"none", "monitor", "other"}
    BY <1>4, PendingSignal DEF Final, Kill, Die
  <2>2. QED  BY <1>4, <2>1 DEF Final, Kill, Die
<1>5. CASE CmdCancel
  <2>1. pending' \in {"none", "monitor", "other"}
    BY <1>5, PendingSignal DEF CmdCancel
  <2>2. QED  BY <1>5, <2>1 DEF CmdCancel
<1>6. CASE Interrupt
  BY <1>6 DEF Interrupt
<1>7. QED  BY <1>1, <1>2, <1>3, <1>4, <1>5, <1>6 DEF MonitorStep

\* The steps of the main thread of the shim keep the types.
LEMMA MainTyped ==
    ASSUME TypeOK, MainStep
    PROVE  TypeOK'
<1> USE DEF TypeOK, monVars, mainVars, sigVars, boxVars
<1>1. CASE Getppid
  BY <1>1 DEF Getppid, getppid
<1>2. CASE Sigaction \/ Assign \/ Receive
  BY <1>2 DEF Sigaction, Assign, Receive
<1>3. CASE ReceiveFail
  BY <1>3 DEF ReceiveFail, Exit
<1>4. CASE Prctl \/ Spawn \/ Notify
  BY <1>4 DEF Prctl, Spawn, Notify
<1>5. CASE ContainerStart
  BY <1>5 DEF ContainerStart, Exit
<1>6. CASE ContainerServe \/ SeccompLoad
  BY <1>6 DEF ContainerServe, SeccompLoad
<1>7. CASE ContainerWait
  BY <1>7 DEF ContainerWait, Exit
<1>8. CASE ShimFatal
  BY <1>8 DEF ShimFatal, Exit
<1>9. QED  BY <1>1, <1>2, <1>3, <1>4, <1>5, <1>6, <1>7, <1>8 DEF MainStep

\* The other steps keep the types.
LEMMA OtherTyped ==
    ASSUME TypeOK,
           \/ Handler \/ ReadSignal \/ Lockup \/ ShimInterrupt
           \/ SignalInit \/ KillInit \/ InitSetup \/ InitCancel \/ InitExit
           \/ Stranger \/ UNCHANGED vars
    PROVE  TypeOK'
<1> USE DEF TypeOK, monVars, mainVars, sigVars, boxVars
<1>1. CASE Handler
  <2>1. sigpipe \o Messages \in Seq({"request", "orphan", "badpid"})
    BY MessagesType, JoinSeq
  <2>2. sigpipe' \in Seq({"request", "orphan", "badpid"})
    BY <1>1, <2>1 DEF Handler
  <2>3. QED  BY <1>1, <2>2 DEF Handler, Exit
<1>2. CASE ReadSignal
  <2>1. sigpipe' \in Seq({"request", "orphan", "badpid"})
    BY <1>2 DEF ReadSignal
  <2>2. QED
    BY <1>2, <2>1 DEF ReadSignal, ReadRequest, ReadOrphan, ReadBadPID, Exit
<1>3. CASE Lockup
  BY <1>3 DEF Lockup
<1>4. CASE ShimInterrupt
  BY <1>4 DEF ShimInterrupt, Exit
<1>5. CASE SignalInit
  BY <1>5 DEF SignalInit
<1>6. CASE KillInit \/ InitSetup \/ InitCancel \/ InitExit
  BY <1>6 DEF KillInit, InitSetup, InitCancel, InitExit
<1>7. CASE Stranger
  <2>1. pending' \in {"none", "monitor", "other"}
    BY <1>7, PendingSignal DEF Stranger
  <2>2. QED  BY <1>7, <2>1 DEF Stranger
<1>8. CASE UNCHANGED vars
  BY <1>8 DEF vars
<1>9. QED  BY <1>1, <1>2, <1>3, <1>4, <1>5, <1>6, <1>7, <1>8

\* Every step keeps the types.
LEMMA StepTyped ==
    ASSUME TypeOK, [Next]_vars
    PROVE  TypeOK'
BY MonitorTyped, MainTyped, OtherTyped DEF Next, Ended

\* Type correctness of the shim protocol, under every fault.
THEOREM ShimTypeCorrect == Spec => []TypeOK
<1>1. Init => TypeOK
  BY InitTyped
<1>2. TypeOK /\ [Next]_vars => TypeOK'
  BY StepTyped
<1>3. QED  BY <1>1, <1>2, PTL DEF Spec

-----------------------------------------------------------------------------
\* A cancelled monitor stays cancelled, and a dead one dead.
LEMMA AskedForever ==
    ASSUME TypeOK, [Next]_vars
    PROVE  (Asked => Asked') /\ (Dead => Dead')
<1> USE DEF Asked, Dead, monVars
<1>1. CASE MonitorStep \/ CmdCancel \/ Interrupt \/ Kill
  BY <1>1 DEF MonitorStep, CmdCancel, Interrupt, Kill, Serve, CommitFail,
              ServeFail, perror, ShimWait, WaitTimeout, Final, Die, TypeOK
<1>2. CASE UNCHANGED << mon, ctxDone >>
  BY <1>2
<1>3. CASE MainStep
  BY <1>2, <1>3 DEF MainStep, Getppid, Sigaction, Assign, Receive, ReceiveFail,
              Prctl, Spawn, Notify, ContainerStart, ContainerServe, SeccompLoad,
              ContainerWait, ShimFatal
<1>4. QED
  BY <1>1, <1>2, <1>3 DEF Next, Ended, vars, Handler, ReadSignal, Lockup,
              ShimInterrupt, SignalInit, KillInit, InitSetup, InitCancel,
              InitExit, Stranger

\* Messages that stay in the signal pipe stay genuine.
LEMMA MessagesKept ==
    ASSUME TypeOK, [Next]_vars, Genuine, sigpipe' = sigpipe
    PROVE  PipeGenuine'
BY AskedForever DEF Genuine, PipeGenuine, GenuineMessage

\* The initial state is genuine: nothing is on its way.
LEMMA InitGenuine == Init => Genuine
BY DEF Init, Genuine, ParentKnown, PipeGenuine, GenuineMessage, RequestsGenuine, Asked, Dead

\* The steps of the monitor: it is cancelled before it sends a signal, or dies.
LEMMA MonitorGenuine ==
    ASSUME ShimInv, [Next]_vars, MonitorStep \/ CmdCancel \/ Interrupt \/ Kill
    PROVE  Genuine'
<1> TypeOK /\ Genuine
  BY DEF ShimInv
<1>1. (Asked => Asked') /\ (Dead => Dead')
  BY AskedForever
<1>2. sigpipe' = sigpipe /\ UNCHANGED << mainVars, boxVars >>
  BY DEF MonitorStep, CmdCancel, Interrupt, Kill, Serve, CommitFail, ServeFail,
         perror, ShimWait, WaitTimeout, Final, Die, sigVars
<1>3. PipeGenuine'
  BY <1>2, MessagesKept
<1>4. RequestsGenuine'
  BY <1>1, <1>2 DEF Genuine, RequestsGenuine, mainVars, boxVars
<1>5. (pipe = "closed" => Asked)'
  BY <1>1 DEF Genuine, Asked, Dead, MonitorStep, CmdCancel, Interrupt, Kill, Serve,
         CommitFail, ServeFail, perror, ShimWait, WaitTimeout, Final, Die
<1>6. /\ (pending = "monitor" => Asked)'
      /\ pending' # pending => pc \notin {"getppid", "sigaction", "exited"}
  <2>1. CASE CmdCancel
    BY <1>1, <2>1, PendingSignal DEF CmdCancel, Genuine, Asked, Dead
  <2>2. CASE Final \/ Kill
    BY <1>1, <2>2, PendingSignal DEF Final, Kill, Die, Genuine, Asked, Dead
  <2>3. CASE UNCHANGED pending
    BY <1>1, <2>3 DEF Genuine
  <2>4. QED
    BY <2>1, <2>2, <2>3 DEF MonitorStep, Interrupt, Serve, CommitFail,
           ServeFail, perror, ShimWait, WaitTimeout, sigVars
<1>7. ParentKnown'
  BY <1>1, <1>2, <1>6 DEF Genuine, ParentKnown, mainVars
<1>8. QED  BY <1>3, <1>4, <1>5, <1>6, <1>7 DEF Genuine

\* The steps of the main thread: it reads the parent before it installs the
\* handler, and takes only EOF for a request.
LEMMA MainGenuine ==
    ASSUME ShimInv, [Next]_vars, MainStep
    PROVE  Genuine'
<1> TypeOK /\ Genuine
  BY DEF ShimInv
<1>1. UNCHANGED << monVars, sigVars >>
  BY DEF MainStep, Getppid, Sigaction, Assign, Receive, ReceiveFail, Prctl,
         Spawn, Notify, ContainerStart, ContainerServe, SeccompLoad,
         ContainerWait, ShimFatal
<1>2. PipeGenuine'
  BY <1>1, MessagesKept DEF sigVars
<1>3. ParentKnown'
  BY <1>1 DEF Genuine, ParentKnown, Dead, TypeOK, monVars, sigVars, MainStep, Getppid,
         getppid, Sigaction, Assign, Receive, ReceiveFail, Prctl, Spawn, Notify,
         ContainerStart, ContainerServe, SeccompLoad, ContainerWait, ShimFatal, Exit
<1>4. RequestsGenuine'
  <2>1. CASE ReceiveFail
    BY <1>1, <2>1 DEF ReceiveFail, Exit, Genuine, RequestsGenuine, Asked, Dead, monVars
  <2>2. CASE ~ReceiveFail
    BY <1>1, <2>2 DEF Genuine, RequestsGenuine, Asked, Dead, TypeOK, monVars, boxVars,
           MainStep, Getppid, Sigaction, Assign, Receive, Prctl, Spawn, Notify,
           ContainerStart, ContainerServe, SeccompLoad, ContainerWait, ShimFatal, Exit
  <2>3. QED  BY <2>1, <2>2
<1>5. (pipe = "closed" => Asked)' /\ (pending = "monitor" => Asked)'
  BY <1>1 DEF Genuine, Asked, Dead, monVars, sigVars
<1>6. QED  BY <1>2, <1>3, <1>4, <1>5 DEF Genuine

\* What the handler writes is genuine: a pending signal from the parent it
\* knows is a request, and another parent means that the monitor is gone.
LEMMA MessagesGenuine ==
    ASSUME ShimInv, Alive, pending # "none"
    PROVE  \A n \in DOMAIN Messages : GenuineMessage(Messages[n])
<1>1. ppid \in {"monitor", "reaper"} /\ pending \in {"monitor", "other"}
  BY DEF ShimInv, TypeOK, Genuine, ParentKnown, Alive, exited
<1>2. CASE pending = ppid
  BY <1>1, <1>2 DEF Messages, GenuineMessage, ShimInv, Genuine
<1>3. CASE pending # ppid /\ getppid # ppid
  <2>1. Dead
    BY <1>1, <1>3 DEF Dead, getppid, ShimInv, Genuine, ParentKnown
  <2>2. QED  BY <1>3, <2>1 DEF Messages, GenuineMessage
<1>4. CASE pending # ppid /\ getppid = ppid
  BY <1>4 DEF Messages, GenuineMessage
<1>5. QED  BY <1>2, <1>3, <1>4

\* The handler adds genuine messages.
LEMMA HandlerGenuine ==
    ASSUME ShimInv, [Next]_vars, Handler
    PROVE  Genuine'
<1> TypeOK /\ Genuine
  BY DEF ShimInv
<1>1. UNCHANGED << monVars, ppid, armed, shimCtx >> /\ pending' = "none"
  BY DEF Handler
<1>2. Asked' = Asked /\ Dead' = Dead
  BY <1>1 DEF Asked, Dead, monVars
<1>3. PipeGenuine'
  <2>1. CASE sigpipe' = sigpipe
    BY <2>1, MessagesKept
  <2>2. CASE sigpipe' = sigpipe \o Messages
    <3>1. \A n \in DOMAIN Messages : GenuineMessage(Messages[n])
      BY MessagesGenuine DEF Handler
    <3>2. SUFFICES ASSUME NEW n \in DOMAIN sigpipe'
                   PROVE  GenuineMessage(sigpipe'[n])
      BY <1>2 DEF PipeGenuine, GenuineMessage
    <3>3. \/ n \in DOMAIN sigpipe /\ sigpipe'[n] = sigpipe[n]
          \/ \E k \in DOMAIN Messages : sigpipe'[n] = Messages[k]
      <4> DEFINE M == {"request", "orphan", "badpid"}
      <4>1. sigpipe \in Seq(M) /\ Messages \in Seq(M)
        BY MessagesType DEF TypeOK
      <4> HIDE DEF M
      <4>2. /\ n \in 1 .. Len(sigpipe) + Len(Messages)
            /\ sigpipe'[n] = IF n <= Len(sigpipe) THEN sigpipe[n]
                             ELSE Messages[n - Len(sigpipe)]
        BY <2>2, <4>1, ConcatProperties
      <4>3. Len(sigpipe) \in Nat /\ Len(Messages) \in Nat
            /\ DOMAIN sigpipe = 1 .. Len(sigpipe) /\ DOMAIN Messages = 1 .. Len(Messages)
        BY <4>1, LenProperties
      <4>4. QED  BY <4>2, <4>3
    <3>4. QED  BY <3>1, <3>3 DEF Genuine, PipeGenuine
  <2>3. QED  BY <2>1, <2>2 DEF Handler
<1>4. RequestsGenuine'
  BY <1>1, <1>2 DEF Handler, Exit, Genuine, RequestsGenuine
<1>5. ParentKnown'
  BY <1>1, <1>2 DEF Handler, Exit, Genuine, ParentKnown
<1>6. QED  BY <1>1, <1>2, <1>3, <1>4, <1>5 DEF Genuine, monVars

\* The goroutine acts on genuine messages.
LEMMA ReadGenuine ==
    ASSUME ShimInv, [Next]_vars, ReadSignal
    PROVE  Genuine'
<1> TypeOK /\ Genuine
  BY DEF ShimInv
<1> DEFINE M == {"request", "orphan", "badpid"}
<1>1. UNCHANGED << monVars, ppid, armed, pending >> /\ sigpipe # << >>
  BY DEF ReadSignal
<1>2. Asked' = Asked /\ Dead' = Dead
  BY <1>1 DEF Asked, Dead, monVars
<1>3. sigpipe \in Seq(M) /\ sigpipe' = Tail(sigpipe)
  BY DEF TypeOK, ReadSignal
<1> HIDE DEF M
<1>4. /\ DOMAIN sigpipe = 1 .. Len(sigpipe) /\ Len(sigpipe) \in Nat \ {0}
      /\ Head(sigpipe) = sigpipe[1]
  BY <1>1, <1>3, EmptySeq, LenProperties
<1>5. PipeGenuine'
  <2>1. \A n \in DOMAIN sigpipe' : n + 1 \in DOMAIN sigpipe /\ sigpipe'[n] = sigpipe[n + 1]
    BY <1>1, <1>3, <1>4, HeadTailProperties, LenProperties
  <2>2. QED  BY <1>2, <2>1 DEF Genuine, PipeGenuine, GenuineMessage
<1>6. GenuineMessage(Head(sigpipe))
  BY <1>4 DEF Genuine, PipeGenuine
<1>7. RequestsGenuine'
  BY <1>2, <1>6 DEF ReadSignal, ReadRequest, ReadOrphan, ReadBadPID, Exit,
         GenuineMessage, Genuine, RequestsGenuine
<1>8. ParentKnown'
  BY <1>1, <1>2 DEF ReadSignal, ReadRequest, ReadOrphan, ReadBadPID, Exit,
         Genuine, ParentKnown
<1>9. QED  BY <1>1, <1>2, <1>5, <1>7, <1>8 DEF Genuine, monVars

\* Nothing else makes a request.
LEMMA OtherGenuine ==
    ASSUME ShimInv, [Next]_vars,
           \/ Lockup \/ ShimInterrupt \/ SignalInit \/ KillInit \/ InitSetup
           \/ InitCancel \/ InitExit \/ Stranger \/ UNCHANGED vars
    PROVE  Genuine'
<1> TypeOK /\ Genuine
  BY DEF ShimInv
<1>1. UNCHANGED << monVars, ppid, sigpipe >>
  BY DEF Lockup, ShimInterrupt, SignalInit, KillInit, InitSetup, InitCancel,
         InitExit, Stranger, vars, mainVars, sigVars
<1>2. Asked' = Asked /\ Dead' = Dead
  BY <1>1 DEF Asked, Dead, monVars
<1>3. PipeGenuine'
  BY <1>1, MessagesKept
<1>4. CASE Stranger
  <2>1. /\ pending' # pending => pending' = "other"
        /\ pending' # pending => pc \notin {"getppid", "sigaction", "exited"}
    BY <1>4, PendingSignal DEF Stranger
  <2>2. UNCHANGED << pc, code, shimCtx >>
    BY <1>4 DEF Stranger, mainVars, boxVars
  <2>3. ParentKnown' /\ RequestsGenuine'
    BY <1>1, <1>2, <2>1, <2>2 DEF Genuine, ParentKnown, RequestsGenuine
  <2>4. QED  BY <1>1, <1>2, <1>3, <2>1, <2>3 DEF Genuine, monVars
<1>5. CASE ShimInterrupt
  BY <1>1, <1>2, <1>3, <1>5 DEF ShimInterrupt, Exit, Genuine, ParentKnown,
         RequestsGenuine, monVars, sigVars
<1>6. CASE UNCHANGED << pc, code, pending, shimCtx >>
  BY <1>1, <1>2, <1>3, <1>6 DEF Genuine, ParentKnown, RequestsGenuine, monVars
<1>7. QED
  BY <1>4, <1>5, <1>6 DEF Lockup, SignalInit, KillInit, InitSetup, InitCancel,
         InitExit, vars, mainVars, sigVars, boxVars

\* The shim takes SIGCONT for a request only if its monitor is cancelled or
\* gone, and reports an orphan only if it is one, whatever other processes
\* send and whatever fails.
THEOREM RequestsGenuineAlways == Spec => []RequestsGenuine
<1>1. Init => ShimInv
  BY InitTyped, InitGenuine DEF ShimInv
<1>2. ShimInv /\ [Next]_vars => ShimInv'
  <2>1. SUFFICES ASSUME ShimInv, [Next]_vars
                 PROVE  ShimInv'
    OBVIOUS
  <2>2. TypeOK'
    BY <2>1, StepTyped DEF ShimInv
  <2>3. Genuine'
    BY <2>1, MonitorGenuine, MainGenuine, HandlerGenuine, ReadGenuine,
           OtherGenuine DEF Next, Ended
  <2>4. QED  BY <2>2, <2>3 DEF ShimInv
<1>3. ShimInv => RequestsGenuine
  BY DEF ShimInv, Genuine
<1>4. QED  BY <1>1, <1>2, <1>3, PTL DEF Spec

-----------------------------------------------------------------------------
(***************************************************************************)
(* That an abort is prompt.  What the reader of the setup pipe finds is    *)
(* settled when the monitor leaves processCommit, and the shim only gets   *)
(* past the pipe with a configuration: one that is neither gone nor stuck  *)
(* has work to do until then, so that the timer of the monitor does not    *)
(* fire.                                                                   *)
(***************************************************************************)
\* The shim waits for its configuration, or has not got that far.
BeforeConfig == pc \in {"getppid", "sigaction", "assign", "receive", "exited"}

PipeSettled ==
    /\ pipe = "served" => mon # "commit"
    /\ mon \in {"lifecycle", "cleanup"} => pipe # "open"
    /\ gaveUp = TRUE => mon # "commit" /\ pipe # "open"
    /\ ~BeforeConfig => pipe = "served"

Prompt == PipeSettled /\ (gaveUp = TRUE /\ pipe # "served" => stuck = TRUE)

\* At the start the monitor has not given up.
LEMMA InitPrompt == Init => Prompt
BY DEF Init, Prompt, PipeSettled, BeforeConfig

\* The monitor settles the pipe, and its timer waits for the shim to stop.
LEMMA MonitorPrompt ==
    ASSUME TypeOK, Prompt, MonitorStep \/ CmdCancel \/ Interrupt \/ Kill
    PROVE  Prompt'
<1> USE DEF TypeOK, Prompt, PipeSettled, BeforeConfig, mainVars
<1>1. CASE Serve
  BY <1>1 DEF Serve
<1>2. CASE CommitFail \/ ServeFail
  <2>1. PICK left \in {"torn", "closed"} : mon = "commit" /\ perror(left)
    BY <1>2 DEF CommitFail, ServeFail
  <2>2. QED  BY <2>1 DEF perror
<1>3. CASE ShimWait
  BY <1>3 DEF ShimWait
<1>4. CASE WaitTimeout
  BY <1>4 DEF WaitTimeout, Working, Alive, exited
<1>5. CASE Final \/ Kill
  BY <1>5 DEF Final, Kill, Die, Dead
<1>6. CASE CmdCancel \/ Interrupt
  BY <1>6 DEF CmdCancel, Interrupt
<1>7. QED  BY <1>1, <1>2, <1>3, <1>4, <1>5, <1>6 DEF MonitorStep

\* The shim leaves the pipe with its configuration, or exits.
LEMMA OtherPrompt ==
    ASSUME TypeOK, Prompt, UNCHANGED monVars,
           \/ UNCHANGED stuck
           \/ Lockup /\ stuck' = TRUE,
           \/ pc' \in {pc, "exited"}
           \/ BeforeConfig'
           \/ pipe = "served"
    PROVE  Prompt'
BY DEF TypeOK, Prompt, PipeSettled, BeforeConfig, monVars

\* The main goroutine of the shim leaves the setup pipe only served or dead.
LEMMA MainPrompt ==
    ASSUME TypeOK, Prompt, MainStep
    PROVE  Prompt'
<1>1. UNCHANGED << monVars, stuck >>
  BY DEF MainStep, Getppid, Sigaction, Assign, Receive, ReceiveFail, Prctl, Spawn, Notify,
         ContainerStart, ContainerServe, SeccompLoad, ContainerWait, ShimFatal
<1>2. pc' \in {pc, "exited"} \/ BeforeConfig' \/ pipe = "served"
  <2> USE DEF BeforeConfig, Prompt, PipeSettled
  <2>1. CASE Getppid \/ Sigaction \/ Assign \/ Receive
    BY <2>1 DEF Getppid, Sigaction, Assign, Receive
  <2>2. CASE Prctl \/ Spawn \/ Notify \/ ContainerServe \/ SeccompLoad
    BY <2>2 DEF Prctl, Spawn, Notify, ContainerServe, SeccompLoad
  <2>3. CASE ContainerStart \/ ContainerWait
    BY <2>3 DEF ContainerStart, ContainerWait
  <2>4. CASE ReceiveFail \/ ShimFatal
    BY <2>4 DEF ReceiveFail, ShimFatal, Exit
  <2>5. QED  BY <2>1, <2>2, <2>3, <2>4 DEF MainStep
<1>3. QED  BY <1>1, <1>2, OtherPrompt

\* Every step keeps an abort prompt.
LEMMA StepPrompt ==
    ASSUME TypeOK, Prompt, [Next]_vars
    PROVE  Prompt'
<1>1. CASE Handler \/ ReadSignal \/ Lockup \/ ShimInterrupt
  <2>1. UNCHANGED monVars /\ (UNCHANGED stuck \/ (Lockup /\ stuck' = TRUE))
    BY <1>1 DEF Handler, ReadSignal, Lockup, ShimInterrupt
  <2>2. pc' \in {pc, "exited"}
    BY <1>1 DEF Handler, ReadSignal, Lockup, ShimInterrupt, ReadRequest, ReadOrphan,
           ReadBadPID, Exit, mainVars
  <2>3. QED  BY <2>1, <2>2, OtherPrompt
<1>2. CASE UNCHANGED << monVars, mainVars, stuck >>
  BY <1>2, OtherPrompt DEF mainVars
<1>3. QED
  BY <1>1, <1>2, MonitorPrompt, MainPrompt DEF Next, Ended, vars, SignalInit, KillInit,
         InitSetup, InitCancel, InitExit, Stranger

\* A monitor that fails before its configuration is served never has to wait
\* for the timeout, unless the shim hangs.
THEOREM AbortAlwaysPrompt == Spec => []AbortPrompt
<1>1. Init => TypeOK /\ Prompt
  BY InitTyped, InitPrompt
<1>2. TypeOK /\ Prompt /\ [Next]_vars => (TypeOK /\ Prompt)'
  BY StepTyped, StepPrompt
<1>3. TypeOK /\ Prompt => AbortPrompt
  BY DEF TypeOK, Prompt, AbortPrompt
<1>4. QED  BY <1>1, <1>2, <1>3, PTL DEF Spec
=============================================================================
