------------------------------- MODULE Output -------------------------------
(***************************************************************************)
(* What the monitor process says, and when: message.Suspendable withholds  *)
(* log output while the container has the terminal, and linePrefixWriter   *)
(* (internal/system/dbus.go) keeps the output of the message bus proxy     *)
(* until the proxy is reverted.                                            *)
(*                                                                         *)
(* The logger of the process is the only writer of the Suspendable and     *)
(* holds a lock of its own meanwhile; Suspend and Resume are called by the *)
(* state machine of the monitor.  Output is counted in bytes.  What the    *)
(* proxy writes is a sequence of segments, the parts between its newlines. *)
(***************************************************************************)
EXTENDS Naturals, Sequences

CONSTANTS
    suspendBufMax,     \* capacity of the buffer of Suspendable
    lpwSizeThreshold,  \* bytes linePrefixWriter accepts
    MaxLogged,         \* bound on the bytes other goroutines log
    MaxChunks,         \* bound on the writes of the proxy
    Lens,              \* lengths of a line of log output
    Chunks             \* what the proxy may write at once

ASSUME OutputAssumption ==
    /\ {suspendBufMax, lpwSizeThreshold} \subseteq Nat \ {0}
    /\ Lens \subseteq Nat \ {0}
    /\ Chunks \subseteq Seq([len : Nat, init : BOOLEAN])

VARIABLES
    pc,        \* where the monitor is
    s,         \* Suspendable.s
    buf,       \* bytes in Suspendable.buf
    dropped,   \* Suspendable.dropped
    resume,    \* what the call of Resume in progress has to report
    w,         \* the write the logger is in: who, how much, what it saw of s
    down,      \* bytes that have reached the downstream writer
    told,      \* bytes reported as dropped
    logged,    \* bytes logged
    crossed,   \* history: bytes of the write that read s before a Resume and buffers after it
    lpw,       \* linePrefixWriter: n, lines, buf; whether it has refused a write
    chunks,    \* writes of the proxy
    dump       \* lines of lpw still to be printed

suspendable == << s, buf, dropped, resume, down, told, crossed >>
vars == << pc, suspendable, w, logged, lpw, chunks, dump >>

Idle   == [by |-> "none", len |-> 0, saw |-> "none"]
NewLpw == [n |-> 0, lines |-> << >>, buf |-> 0, init |-> FALSE, refused |-> FALSE, passed |-> 0]

Init ==
    /\ pc = "commit" /\ s = FALSE /\ buf = 0 /\ dropped = 0 /\ resume = 0 /\ w = Idle
    /\ down = 0 /\ told = 0 /\ logged = 0 /\ crossed = 0
    /\ lpw = NewLpw /\ chunks = 0 /\ dump = << >>

-----------------------------------------------------------------------------
(***************************************************************************)
(* Suspendable                                                             *)
(***************************************************************************)
\* A line for the logger, which waits for the one before it.
Log(by, len) ==
    /\ w = Idle
    /\ w' = [by |-> by, len |-> len, saw |-> "none"]
    /\ logged' = logged + len

\* Another goroutine logs.
LogOther ==
    /\ pc # "exited"
    /\ \E len \in Lens : logged + len <= MaxLogged /\ Log("other", len)
    /\ UNCHANGED << pc, suspendable, lpw, chunks, dump >>

\* Write reads s before it locks the buffer.
WriteLoad ==
    /\ w # Idle /\ w.saw = "none" /\ pc # "exited"
    /\ w' = [w EXCEPT !.saw = IF s THEN "suspended" ELSE "running"]
    /\ UNCHANGED << pc, suspendable, logged, lpw, chunks, dump >>

WriteDown ==
    /\ w.saw = "running" /\ pc # "exited"
    /\ down' = down + w.len
    /\ w' = Idle
    /\ UNCHANGED << pc, s, buf, dropped, resume, told, crossed, logged, lpw, chunks, dump >>

\* Mutant: bytes that do not fit are not counted.
WriteBufUncounted ==
    /\ w.saw = "suspended" /\ pc # "exited"
    /\ buf' = IF buf + w.len > suspendBufMax THEN suspendBufMax ELSE buf + w.len
    /\ w' = Idle
    /\ UNCHANGED << pc, s, dropped, resume, down, told, crossed, logged, lpw, chunks, dump >>

WriteBuf ==
    /\ w.saw = "suspended" /\ pc # "exited"
    /\ LET free == suspendBufMax - buf
           n    == IF free < w.len THEN free ELSE w.len
       IN  buf' = buf + n /\ dropped' = dropped + (w.len - n)
    /\ w' = Idle
    /\ UNCHANGED << pc, s, resume, down, told, crossed, logged, lpw, chunks, dump >>

Suspend ==
    /\ pc = "lifecycle"
    /\ pc' = "wait"
    /\ s' = TRUE
    /\ UNCHANGED << buf, dropped, resume, w, down, told, logged, crossed, lpw, chunks, dump >>

\* Resume: the flag first, and the buffer if there was something to resume.
ResumeSwap(from, to, after) ==
    /\ pc = from
    /\ pc' = IF s THEN to ELSE after
    /\ s' = FALSE
    /\ UNCHANGED << buf, dropped, resume, w, down, told, logged, crossed, lpw, chunks, dump >>

ResumeDump(from, to) ==
    /\ pc = from
    /\ pc' = to
    /\ resume' = dropped /\ dropped' = 0
    /\ down' = down + buf /\ buf' = 0
    /\ crossed' = crossed + (IF w.saw = "suspended" THEN w.len ELSE 0)
    /\ UNCHANGED << s, w, told, logged, lpw, chunks, dump >>

\* defaultMsg.Resume logs what has been dropped.
ResumeReport(from, to) ==
    /\ pc = from
    /\ pc' = to
    /\ IF resume > 0
       THEN \E len \in Lens : Log("main", len)
       ELSE UNCHANGED << w, logged >>
    /\ told' = told + resume /\ resume' = 0
    /\ UNCHANGED << s, buf, dropped, down, crossed, lpw, chunks, dump >>

-----------------------------------------------------------------------------
(***************************************************************************)
(* linePrefixWriter.  A segment has a length, and init tells whether it    *)
(* begins with the prefix of messages of the container init.               *)
(***************************************************************************)
\* Mutant: the newline of a line is not counted.
WriteLineShort(l, seg) ==
    LET init == IF l.buf = 0 THEN seg.init ELSE l.init
        v    == l.buf + seg.len
    IN  IF init THEN [l EXCEPT !.n = @ - l.buf, !.buf = 0, !.passed = @ + 1]
        ELSE [l EXCEPT !.n = @ + seg.len, !.lines = Append(@, v), !.buf = 0]

\* A segment with the newline after it: init messages are passed through.
WriteLine(l, seg) ==
    LET init == IF l.buf = 0 THEN seg.init ELSE l.init
        v    == l.buf + seg.len
    IN  IF init THEN [l EXCEPT !.n = @ - l.buf, !.buf = 0, !.passed = @ + 1]
        ELSE [l EXCEPT !.n = @ + seg.len + 1, !.lines = Append(@, v), !.buf = 0]

\* The segment after the last newline.
WriteRest(l, seg) ==
    [l EXCEPT !.n = @ + seg.len, !.init = IF l.buf = 0 THEN seg.init ELSE @,
              !.buf = @ + seg.len]

\* A segment that arrives at the threshold is refused, unless nothing is left to write.
WriteSegment(l, segs, k) ==
    IF l.n >= lpwSizeThreshold
    THEN [l EXCEPT !.refused = @ \/ k < Len(segs) \/ segs[k].len > 0]
    ELSE IF k < Len(segs) THEN WriteLine(l, segs[k]) ELSE WriteRest(l, segs[k])

\* write, segment by segment.
lpwWrite(l, segs) ==
    LET acc[k \in 0..Len(segs)] == IF k = 0 THEN l ELSE WriteSegment(acc[k - 1], segs, k)
    IN  acc[Len(segs)]

\* The proxy writes; a line of init goes to the logger.
ProxyWrite ==
    /\ pc # "exited" /\ dump = << >>
    /\ chunks < MaxChunks
    /\ \E c \in Chunks :
        /\ lpw' = lpwWrite(lpw, c)
        /\ IF lpw'.passed > lpw.passed
           THEN \E len \in Lens : Log("proxy", len) ELSE UNCHANGED << w, logged >>
    /\ chunks' = chunks + 1
    /\ UNCHANGED << pc, suspendable, dump >>

\* The proxy op fails to apply, or is reverted: Dump, before the proxy is waited for.
Dump(from, to) ==
    /\ pc = from
    /\ pc' = to
    /\ dump' = lpw.lines \o (IF lpw.buf # 0 THEN << lpw.buf >> ELSE << >>)
                         \o (IF lpw.n >= lpwSizeThreshold THEN << 0 >> ELSE << >>)
    /\ UNCHANGED << suspendable, w, logged, lpw, chunks >>

DumpLine ==
    /\ pc # "exited" /\ dump # << >>
    /\ \E len \in Lens : Log("main", len)
    /\ dump' = Tail(dump)
    /\ UNCHANGED << pc, suspendable, lpw, chunks >>

-----------------------------------------------------------------------------
(***************************************************************************)
(* The monitor: Suspend and Resume around the wait for the shim, the       *)
(* revert of the proxy in cleanup, BeforeExit at the end.                  *)
(***************************************************************************)
Commit ==
    \/ Dump("commit", "cleanup")
    \/ /\ pc = "commit" /\ pc' = "lifecycle"
       /\ UNCHANGED << suspendable, w, logged, lpw, chunks, dump >>

Lifecycle1 ==
    \/ Suspend
    \/ ResumeSwap("wait", "resumeDump", "cleanup")
    \/ ResumeDump("resumeDump", "resumeReport")
    \/ ResumeReport("resumeReport", "cleanup")

Cleanup == dump = << >> /\ Dump("cleanup", "dumped")

\* BeforeExit is a Resume, and complains if there was something to resume.
BeforeExit == dump = << >> /\ ResumeSwap("dumped", "stillSuspended", "final")

\* Lines in flight are lost with the process.
Exit ==
    /\ pc = "final"
    /\ pc' = "exited"
    /\ UNCHANGED << suspendable, w, logged, lpw, chunks, dump >>

Next ==
    \/ LogOther \/ WriteLoad \/ WriteDown \/ WriteBuf
    \/ Commit \/ Lifecycle1 \/ Cleanup \/ BeforeExit \/ Exit
    \/ ProxyWrite \/ DumpLine

Spec == Init /\ [][Next]_vars

-----------------------------------------------------------------------------
(***************************************************************************)
(* Every byte logged has gone downstream, is in the buffer or in the       *)
(* logger, or is counted or reported as dropped, and the buffer keeps      *)
(* within its limit.  Write reads the flag before it locks the buffer, so  *)
(* that a Resume may overtake it, and what it then buffers stays there:    *)
(* when the monitor exits, that is one line at most, and nothing but that  *)
(* line.  The monitor never exits with its output suspended.               *)
(***************************************************************************)
NothingLost ==
    /\ logged = down + buf + dropped + resume + told + w.len
    /\ buf <= suspendBufMax
    /\ pc = "exited" => buf + dropped <= crossed
    /\ crossed \in {0} \cup Lens
    /\ pc # "stillSuspended"

\* What the lines that are kept take, newlines included.
Held(lines) ==
    LET sum[k \in 0..Len(lines)] == IF k = 0 THEN 0 ELSE sum[k - 1] + lines[k] + 1
    IN  sum[Len(lines)]

(***************************************************************************)
(* The count of linePrefixWriter is what it holds, newlines included,      *)
(* however its output was split into writes and lines: the threshold       *)
(* bounds what is kept, and output that was refused is admitted in the     *)
(* dump.                                                                   *)
(***************************************************************************)
LpwAccounted ==
    /\ lpw.n = lpw.buf + Held(lpw.lines)
    /\ lpw.refused => lpw.n >= lpwSizeThreshold
=============================================================================
