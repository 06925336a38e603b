---------------------------- MODULE OutputProofs ----------------------------
(***************************************************************************)
(* That Suspendable loses no output without a word, for every size of its  *)
(* buffer, every number of lines and every way they interleave with        *)
(* Suspend and Resume.  The bytes are counted where they are; the flag is  *)
(* only set while the monitor waits for its shim; and a write that saw the *)
(* flag set has been overtaken by a Resume unless that wait goes on, which *)
(* happens to one line at most.  And that linePrefixWriter counts what it  *)
(* holds, however its output is split into writes.                         *)
(***************************************************************************)
EXTENDS Output, WellFoundedInduction, TLAPS

Stages == {"commit", "lifecycle", "wait", "resumeDump", "resumeReport",
           "cleanup", "dumped", "final", "exited"}

Write == [by : {"none", "main", "other", "proxy"}, len : {0} \cup Lens,
          saw : {"none", "suspended", "running"}]

Typed ==
    /\ pc \in Stages
    /\ s \in BOOLEAN /\ crossed \in {0} \cup Lens
    /\ buf \in Nat /\ dropped \in Nat /\ resume \in Nat
    /\ down \in Nat /\ told \in Nat /\ logged \in Nat
    /\ w \in Write

\* Every byte is somewhere, the buffer is within its limit, and what a Resume
\* has to report is reported before the next one.
Counted ==
    /\ logged = down + buf + dropped + resume + told + w.len
    /\ buf <= suspendBufMax
    /\ pc # "resumeReport" => resume = 0

\* What the write in the logger may still put into the buffer.
InFlight == IF w.saw = "suspended" THEN w.len ELSE 0

\* A Resume happens once, and what belongs to the suspension it has ended was
\* overtaken by it.
Overtaken ==
    /\ s = TRUE <=> pc = "wait"
    /\ pc \in {"commit", "lifecycle", "wait", "resumeDump"} => crossed = 0
    /\ pc \notin {"wait", "resumeDump"} => buf + dropped + InFlight = crossed

OutputInv == Typed /\ Counted /\ Overtaken

-----------------------------------------------------------------------------
\* The buffer has a limit, and a line has bytes.
LEMMA Limits == suspendBufMax \in Nat \ {0} /\ Lens \subseteq Nat \ {0}
BY OutputAssumption

\* Bytes are counted in numbers.
LEMMA Numbers ==
    ASSUME Typed
    PROVE  /\ crossed \in Nat /\ w.len \in Nat /\ InFlight \in Nat
           /\ w.len \in {0} \cup Lens /\ InFlight \in {0} \cup Lens
<1>1. {0} \cup Lens \subseteq Nat
  BY Limits
<1>2. w.len \in {0} \cup Lens /\ crossed \in {0} \cup Lens
  BY DEF Typed, Write
<1>3. InFlight \in {0} \cup Lens
  BY <1>2 DEF InFlight
<1>4. QED  BY <1>1, <1>2, <1>3

\* At the start nothing has been written.
LEMMA InitInv == Init => OutputInv
<1> SUFFICES ASSUME Init PROVE OutputInv
  OBVIOUS
<1> USE DEF Init, Idle
<1>1. Typed
  BY DEF Typed, Write, Stages
<1>2. Counted /\ Overtaken
  BY Limits DEF Counted, Overtaken, InFlight
<1>3. QED  BY <1>1, <1>2 DEF OutputInv

\* A line that enters the logger is a write that has not looked at the flag.
LEMMA Logs ==
    ASSUME Typed, NEW by \in {"main", "other", "proxy"}, NEW len \in Lens, Log(by, len)
    PROVE  /\ w' \in Write /\ logged' \in Nat /\ w.len = 0
           /\ w'.len \in Nat /\ w'.saw = "none" /\ logged' = logged + w'.len
BY Limits DEF Log, Typed, Write, Idle

\* Output of other goroutines and of the proxy, and the lines of a dump.
LEMMA LoggedInv ==
    ASSUME OutputInv, LogOther \/ ProxyWrite \/ DumpLine
    PROVE  OutputInv'
<1> USE DEF OutputInv, suspendable
<1>1. /\ pc' = pc /\ s' = s /\ crossed' = crossed /\ buf' = buf /\ dropped' = dropped
      /\ resume' = resume /\ down' = down /\ told' = told
  BY DEF LogOther, ProxyWrite, DumpLine
<1>2. \/ UNCHANGED << w, logged >>
      \/ /\ w' \in Write /\ logged' \in Nat /\ w.len = 0
         /\ w'.len \in Nat /\ w'.saw = "none" /\ logged' = logged + w'.len
  BY Logs DEF LogOther, ProxyWrite, DumpLine
<1>3. Typed'
  BY <1>1, <1>2 DEF Typed
<1>4. Counted'
  BY <1>1, <1>2 DEF Counted, Typed
<1>5. Overtaken'
  <2>1. InFlight' = InFlight
    BY <1>2 DEF InFlight
  <2>2. QED  BY <1>1, <2>1 DEF Overtaken
<1>6. QED  BY <1>3, <1>4, <1>5

\* Write of Suspendable: the flag, then the writer downstream or the buffer.
LEMMA WriteInv ==
    ASSUME OutputInv, WriteLoad \/ WriteDown \/ WriteBuf
    PROVE  OutputInv'
<1> USE DEF OutputInv, suspendable
<1>1. CASE WriteLoad
  <2>1. Typed'
    BY <1>1 DEF WriteLoad, Typed, Write, Idle
  <2>2. Counted'
    BY <1>1, Limits DEF WriteLoad, Typed, Counted, Write, Idle
  <2>3. Overtaken'
    BY <1>1 DEF WriteLoad, Typed, Overtaken, Write, Idle, InFlight
  <2>4. QED  BY <2>1, <2>2, <2>3
<1>2. CASE WriteDown
  <2>1. Typed'
    BY <1>2, Numbers DEF WriteDown, Typed, Write, Idle
  <2>2. Counted'
    BY <1>2, Limits, Numbers DEF WriteDown, Typed, Counted, Write, Idle
  <2>3. Overtaken'
    BY <1>2 DEF WriteDown, Typed, Overtaken, Write, Idle, InFlight
  <2>4. QED  BY <2>1, <2>2, <2>3
<1>3. CASE WriteBuf
  <2> DEFINE free == suspendBufMax - buf
             n    == IF free < w.len THEN free ELSE w.len
  <2>1. /\ buf' = buf + n /\ dropped' = dropped + (w.len - n) /\ w' = Idle
        /\ UNCHANGED << pc, s, resume, down, told, crossed, logged >>
        /\ w.saw = "suspended"
    BY <1>3 DEF WriteBuf
  <2>2. n \in Nat /\ n <= free /\ n <= w.len /\ w.len \in Nat
    BY Limits, Numbers DEF Typed, Counted
  <2>3. Typed'
    BY <2>1, <2>2 DEF Typed, Idle, Write
  <2> HIDE DEF n
  <2>4. Counted'
    BY <2>1, <2>2, Limits DEF Counted, Typed, Idle
  <2>5. Overtaken'
    <3>1. InFlight = w.len /\ InFlight' = 0
      BY <2>1 DEF InFlight, Idle
    <3>2. buf' + dropped' + InFlight' = buf + dropped + InFlight
      BY <2>1, <2>2, <3>1 DEF Typed
    <3>3. QED  BY <2>1, <3>2 DEF Overtaken
  <2>6. QED  BY <2>3, <2>4, <2>5
<1>4. QED  BY <1>1, <1>2, <1>3

\* Suspend and the two halves of Resume.
LEMMA ResumeInv ==
    ASSUME OutputInv, Lifecycle1 \/ BeforeExit
    PROVE  OutputInv'
<1> USE DEF OutputInv, Stages
<1>1. CASE Suspend
  <2>1. Typed'
    BY <1>1 DEF Suspend, Typed, Write, Idle
  <2>2. Counted'
    BY <1>1, Limits DEF Suspend, Typed, Counted, Write, Idle
  <2>3. Overtaken'
    BY <1>1 DEF Suspend, Typed, Overtaken, Write, Idle
  <2>4. QED  BY <2>1, <2>2, <2>3
<1>2. CASE ResumeSwap("wait", "resumeDump", "cleanup")
  <2>1. Typed'
    BY <1>2 DEF ResumeSwap, Typed, Write, Idle
  <2>2. Counted'
    BY <1>2, Limits DEF ResumeSwap, Typed, Counted, Write, Idle
  <2>3. Overtaken'
    BY <1>2 DEF ResumeSwap, Typed, Overtaken, Write, Idle
  <2>4. QED  BY <2>1, <2>2, <2>3
<1>3. CASE ResumeDump("resumeDump", "resumeReport")
  <2>1. Typed'
    <3>1. crossed = 0 /\ crossed' = crossed + InFlight
      BY <1>3 DEF ResumeDump, Overtaken, InFlight
    <3>2. crossed' \in {0} \cup Lens
      BY <3>1, Numbers
    <3>3. QED  BY <1>3, <3>2 DEF ResumeDump, Typed
  <2>2. Counted'
    <3>1. w.len \in Nat /\ w' = w /\ suspendBufMax \in Nat
      BY <1>3, Limits, Numbers DEF ResumeDump
    <3>2. QED  BY <1>3, <3>1 DEF ResumeDump, Typed, Counted
  <2>3. Overtaken'
    BY <1>3 DEF ResumeDump, Typed, Overtaken, Write, Idle, InFlight
  <2>4. QED  BY <2>1, <2>2, <2>3
<1>4. CASE ResumeReport("resumeReport", "cleanup")
  <2>1. Typed'
    BY <1>4, Logs DEF ResumeReport, Typed, Write, Idle
  <2>2. Counted'
    BY <1>4, Logs, Limits DEF ResumeReport, Typed, Counted, Write, Idle
  <2>3. Overtaken'
    BY <1>4, Logs DEF ResumeReport, Typed, Overtaken, Write, Idle, InFlight
  <2>4. QED  BY <2>1, <2>2, <2>3
<1>5. CASE BeforeExit
  <2>1. Typed'
    BY <1>5 DEF BeforeExit, ResumeSwap, Typed, Overtaken
  <2>2. Counted'
    BY <1>5, Limits DEF BeforeExit, ResumeSwap, Typed, Counted, Write, Idle
  <2>3. Overtaken'
    BY <1>5 DEF BeforeExit, ResumeSwap, Typed, Overtaken, Write, Idle, InFlight
  <2>4. QED  BY <2>1, <2>2, <2>3
<1>6. QED  BY <1>1, <1>2, <1>3, <1>4, <1>5 DEF Lifecycle1

\* The other steps of the monitor only move it on.
LEMMA StageInv ==
    ASSUME OutputInv, Commit \/ Cleanup \/ Exit
    PROVE  OutputInv'
<1> USE DEF OutputInv, suspendable, Commit, Cleanup, Exit, Dump
<1>1. Typed'
  BY Limits DEF Typed, Stages
<1>2. Counted'
  BY Limits DEF Counted
<1>3. Overtaken'
  BY Limits DEF Overtaken, Typed, InFlight
<1>4. QED  BY <1>1, <1>2, <1>3

\* Every step keeps the account.
LEMMA StepInv == OutputInv /\ [Next]_vars => OutputInv'
<1> SUFFICES ASSUME OutputInv, [Next]_vars PROVE OutputInv'
  OBVIOUS
<1>1. CASE UNCHANGED vars
  BY <1>1 DEF vars, suspendable, OutputInv, Typed, Counted, Overtaken, InFlight
<1>2. QED
  BY <1>1, LoggedInv, WriteInv, ResumeInv, StageInv DEF Next

\* Every byte logged is accounted for, the buffer keeps within its limit, the
\* monitor does not exit with its output suspended, and what it leaves in the
\* buffer is the one line that a Resume overtook between reading the flag and
\* taking the buffer, or nothing.
THEOREM NothingEverLost == Spec => []NothingLost
<1>1. OutputInv => NothingLost
  BY Numbers DEF OutputInv, Typed, Counted, Overtaken, NothingLost, Stages
<1>2. QED  BY <1>1, InitInv, StepInv, PTL DEF Spec

-----------------------------------------------------------------------------
(***************************************************************************)
(* Induction and recursion up to a number                                  *)
(***************************************************************************)
\* A set of numbers that is not empty has a smallest one.
LEMMA Smallest ==
    ASSUME NEW S \in SUBSET Nat, S # {}
    PROVE  \E k \in S : \A j \in S : k <= j
<1>1. PICK k \in S : \A j \in S : ~(<< j, k >> \in OpToRel(<, Nat))
  BY NatLessThanWellFounded, WFMin
<1>2. \A j \in S : ~(j < k)
  BY <1>1 DEF OpToRel
<1> QED
  BY <1>2

\* What holds of 0 and is handed on holds up to n.
LEMMA Climb ==
    ASSUME NEW n \in Nat, NEW P \in [0 .. n -> BOOLEAN], P[0],
           \A k \in 1 .. n : P[k - 1] => P[k]
    PROVE  \A k \in 0 .. n : P[k]
<1> DEFINE bad == {k \in 0 .. n : ~P[k]}
<1>1. SUFFICES ASSUME bad # {} PROVE FALSE
  OBVIOUS
<1>2. PICK k \in bad : \A j \in bad : k <= j
  <2>1. bad \in SUBSET Nat
    OBVIOUS
  <2> HIDE DEF bad
  <2> QED
    BY <1>1, <2>1, Smallest
<1>3. k \in 1 .. n /\ k - 1 \in 0 .. n /\ k - 1 \notin bad
  BY <1>2
<1> QED
  BY <1>2, <1>3

\* A function defined by its first value and the step to the next: there is one.
Steps(n, A) == [(1 .. n) \X A -> A]

Solution(n, A, a, step, g) ==
    /\ g \in [0 .. n -> A] /\ g[0] = a
    /\ \A k \in 1 .. n : g[k] = step[<< k, g[k - 1] >>]

\* What is defined step by step exists.
LEMMA Recursion ==
    ASSUME NEW n \in Nat, NEW A, NEW a \in A, NEW step \in Steps(n, A)
    PROVE  \E g : Solution(n, A, a, step, g)
<1> USE DEF Steps
<1> DEFINE Solves(g, m) == /\ g \in [0 .. m -> A] /\ g[0] = a
                           /\ \A k \in 1 .. m : g[k] = step[<< k, g[k - 1] >>]
           P == [m \in 0 .. n |-> \E g : Solves(g, m)]
<1>1. P[0]
  <2>1. Solves([k \in 0 .. 0 |-> a], 0)
    OBVIOUS
  <2> HIDE DEF Solves
  <2> QED
    BY <2>1
<1>2. ASSUME NEW m \in 1 .. n, P[m - 1] PROVE P[m]
  <2>1. PICK g : Solves(g, m - 1)
    <3> HIDE DEF Solves
    <3> QED
      BY <1>2
  <2> DEFINE h == [k \in 0 .. m |-> IF k = m THEN step[<< m, g[m - 1] >>] ELSE g[k]]
  <2>2. g[m - 1] \in A /\ step[<< m, g[m - 1] >>] \in A
    <3>1. m - 1 \in 0 .. m - 1
      OBVIOUS
    <3>2. g[m - 1] \in A
      BY <2>1, <3>1
    <3>3. << m, g[m - 1] >> \in (1 .. n) \X A
      BY <3>2
    <3> QED
      BY <3>2, <3>3
  <2>3. h \in [0 .. m -> A] /\ h[0] = a
    <3>1. \A k \in 0 .. m : k # m => k \in 0 .. m - 1
      OBVIOUS
    <3>2. 0 \in 0 .. m /\ 0 # m
      OBVIOUS
    <3> QED
      BY <2>1, <2>2, <3>1, <3>2
  <2>4. ASSUME NEW k \in 1 .. m PROVE h[k] = step[<< k, h[k - 1] >>]
    <3>1. k \in 0 .. m /\ k - 1 \in 0 .. m /\ k - 1 # m /\ h[k - 1] = g[k - 1]
      OBVIOUS
    <3>2. CASE k = m
      BY <3>1, <3>2
    <3>3. CASE k # m
      <4>1. k \in 1 .. m - 1
        BY <3>3
      <4> QED
        BY <2>1, <3>1, <3>3, <4>1
    <3> QED
      BY <3>2, <3>3
  <2>5. Solves(h, m)
    BY <2>3, <2>4
  <2> HIDE DEF Solves, h
  <2> QED
    BY <2>5
<1>3. P \in [0 .. n -> BOOLEAN] /\ n \in 0 .. n
  <2> HIDE DEF Solves
  <2> QED
    OBVIOUS
<1>4. P[n]
  <2> HIDE DEF P
  <2> QED
    BY <1>1, <1>2, <1>3, Climb
<1>5. PICK g : Solves(g, n)
  <2> HIDE DEF Solves
  <2> QED
    BY <1>3, <1>4
<1> QED
  BY <1>5 DEF Solution

-----------------------------------------------------------------------------
(***************************************************************************)
(* The count of linePrefixWriter.  Every segment keeps the balance between *)
(* the count and what is held, also the one that ends a message of init,   *)
(* where what an earlier write has counted is taken off again.             *)
(***************************************************************************)
Lpw == [n : Nat, lines : Seq(Nat), buf : Nat, init : BOOLEAN, refused : BOOLEAN, passed : Nat]

Pieces == [len : Nat, init : BOOLEAN]

Balanced(l) ==
    /\ l \in Lpw
    /\ l.n = l.buf + Held(l.lines)
    /\ l.refused => l.n >= lpwSizeThreshold

\* The sums of the first lines.
LEMMA HeldSums ==
    ASSUME NEW q \in Seq(Nat)
    PROVE  \E f \in [0..Len(q) -> Nat] :
              /\ f[0] = 0 /\ \A k \in 1..Len(q) : f[k] = f[k - 1] + q[k] + 1
              /\ Held(q) = f[Len(q)]
<1> DEFINE L == Len(q)
           Add(x, k) == x + q[k] + 1
           Sums(g) == [k \in 0..L |-> IF k = 0 THEN 0 ELSE Add(g[k - 1], k)]
           F == CHOOSE g : g = Sums(g)
           step == [p \in (1..L) \X Nat |-> Add(p[2], p[1])]
<1>1. L \in Nat /\ q \in [1..L -> Nat]
  OBVIOUS
<1>2. ASSUME NEW k \in 1..L, NEW x \in Nat PROVE Add(x, k) \in Nat
  BY <1>1
<1>3. Held(q) = F[L]
  BY DEF Held
<1> HIDE DEF Add, L
<1>4. step \in Steps(L, Nat)
  BY <1>2 DEF Steps
<1>5. PICK g : Solution(L, Nat, 0, step, g)
  <2> HIDE DEF step
  <2> QED
    BY <1>1, <1>4, Recursion
<1>6. g = Sums(g)
  <2>1. ASSUME NEW k \in 1..L PROVE g[k] = Add(g[k - 1], k)
    <3>1. k - 1 \in 0..L /\ g[k - 1] \in Nat
      BY <1>1, <1>5 DEF Solution
    <3> QED
      BY <1>5, <3>1 DEF Solution
  <2> QED
    BY <1>1, <1>5, <2>1 DEF Solution
<1>7. F = Sums(F)
  <2> HIDE DEF Sums
  <2> QED
    BY <1>6
<1> HIDE DEF F
<1>8. F[0] = 0 /\ \A k \in 1..L : F[k] = Add(F[k - 1], k)
  BY <1>1, <1>7
<1>9. F \in [0..L -> Nat]
  <2> DEFINE P == [k \in 0..L |-> F[k] \in Nat]
  <2>1. P[0]
    <3>1. 0 \in 0..L /\ F[0] \in Nat
      BY <1>1, <1>8
    <3> QED
      BY <3>1
  <2>2. ASSUME NEW k \in 1..L, P[k - 1] PROVE P[k]
    <3>1. k - 1 \in 0..L /\ k \in 0..L
      BY <1>1
    <3>2. F[k - 1] \in Nat
      BY <2>2, <3>1
    <3>3. F[k] \in Nat
      BY <1>2, <1>8, <3>2
    <3> QED
      BY <3>1, <3>3
  <2>3. P \in [0..L -> BOOLEAN]
    OBVIOUS
  <2>4. \A k \in 0..L : P[k]
    <3> HIDE DEF P
    <3> QED
      BY <1>1, <2>1, <2>2, <2>3, Climb
  <2> QED
    BY <1>7, <2>4
<1> QED
  BY <1>3, <1>8, <1>9 DEF L, Add

\* No line takes nothing, and another one takes its length and a newline.
LEMMA HeldLines ==
    /\ Held(<< >>) = 0
    /\ \A q \in Seq(Nat) : \A v \in Nat :
          Held(q) \in Nat /\ Held(Append(q, v)) = Held(q) + v + 1
<1>1. Held(<< >>) = 0
  <2>1. << >> \in Seq(Nat) /\ Len(<< >>) = 0
    OBVIOUS
  <2>2. PICK f \in [0..Len(<< >>) -> Nat] : f[0] = 0 /\ Held(<< >>) = f[Len(<< >>)]
    BY <2>1, HeldSums
  <2> QED
    BY <2>1, <2>2
<1>2. ASSUME NEW q \in Seq(Nat), NEW v \in Nat
      PROVE  Held(q) \in Nat /\ Held(Append(q, v)) = Held(q) + v + 1
  <2> DEFINE L == Len(q)
             r == Append(q, v)
  <2>1. /\ L \in Nat /\ r \in Seq(Nat) /\ Len(r) = L + 1 /\ r[L + 1] = v
        /\ \A k \in 1..L : r[k] = q[k] /\ q[k] \in Nat
    OBVIOUS
  <2>2. PICK f \in [0..L -> Nat] :
            /\ f[0] = 0 /\ \A k \in 1..L : f[k] = f[k - 1] + q[k] + 1
            /\ Held(q) = f[L]
    BY HeldSums
  <2> HIDE DEF L, r
  <2>3. PICK h \in [0..(L + 1) -> Nat] :
            /\ h[0] = 0 /\ \A k \in 1..(L + 1) : h[k] = h[k - 1] + r[k] + 1
            /\ Held(r) = h[L + 1]
    <3>1. \E h \in [0..Len(r) -> Nat] :
            /\ h[0] = 0 /\ \A k \in 1..Len(r) : h[k] = h[k - 1] + r[k] + 1
            /\ Held(r) = h[Len(r)]
      BY <2>1, HeldSums
    <3> QED
      BY <2>1, <3>1
  <2> DEFINE P == [k \in 0..L |-> h[k] = f[k]]
  <2>4. P[0]
    <3>1. 0 \in 0..L /\ h[0] = f[0]
      BY <2>1, <2>2, <2>3
    <3> QED
      BY <3>1
  <2>5. ASSUME NEW k \in 1..L, P[k - 1] PROVE P[k]
    <3>1. k - 1 \in 0..L /\ k \in 0..L /\ k \in 1..(L + 1)
      BY <2>1
    <3>2. h[k - 1] = f[k - 1]
      BY <2>5, <3>1
    <3>3. h[k] = h[k - 1] + r[k] + 1 /\ f[k] = f[k - 1] + q[k] + 1
      BY <2>2, <2>3, <3>1
    <3>4. h[k] = f[k]
      BY <2>1, <3>2, <3>3
    <3> QED
      BY <3>1, <3>4
  <2>6. P \in [0..L -> BOOLEAN]
    OBVIOUS
  <2>7. \A k \in 0..L : P[k]
    <3> HIDE DEF P
    <3> QED
      BY <2>1, <2>4, <2>5, <2>6, Climb
  <2>8. L \in 0..L /\ L + 1 \in 1..(L + 1) /\ (L + 1) - 1 = L
    BY <2>1
  <2>9. h[L] = f[L] /\ h[L + 1] = h[L] + v + 1 /\ f[L] \in Nat
    BY <2>1, <2>2, <2>3, <2>7, <2>8
  <2> QED
    BY <2>2, <2>3, <2>9 DEF r
<1> QED
  BY <1>1, <1>2

\* A segment with a newline.
LEMMA LineBalanced ==
    ASSUME NEW l, Balanced(l), ~(l.n >= lpwSizeThreshold), NEW seg \in Pieces
    PROVE  Balanced(WriteLine(l, seg))
<1> DEFINE begun == IF l.buf = 0 THEN seg.init ELSE l.init
           v     == l.buf + seg.len
           m     == WriteLine(l, seg)
<1>1. /\ l \in Lpw /\ l.n \in Nat /\ l.buf \in Nat /\ l.lines \in Seq(Nat) /\ l.passed \in Nat
      /\ seg.len \in Nat /\ v \in Nat /\ l.n = l.buf + Held(l.lines) /\ ~l.refused
  BY DEF Balanced, Lpw, Pieces
<1>2. Held(l.lines) \in Nat /\ Held(Append(l.lines, v)) = Held(l.lines) + v + 1
  <2> HIDE DEF v
  <2> QED
    BY <1>1, HeldLines
<1>3. CASE begun
  <2> DEFINE rest == l.n - l.buf
             more == l.passed + 1
  <2>1. m = [l EXCEPT !.n = rest, !.buf = 0, !.passed = more]
    BY <1>1, <1>3 DEF WriteLine, Lpw
  <2> HIDE DEF m
  <2>2. rest \in Nat /\ rest = Held(l.lines) /\ more \in Nat
    <3>1. more \in Nat
      BY <1>1
    <3>2. rest = Held(l.lines)
      BY <1>1, <1>2
    <3> QED
      BY <1>2, <3>1, <3>2
  <2> HIDE DEF rest, more
  <2>3. m \in Lpw
    BY <1>1, <2>1, <2>2 DEF Lpw
  <2>4. m.n = rest /\ m.buf = 0 /\ m.lines = l.lines /\ ~m.refused
    BY <1>1, <2>1 DEF Lpw
  <2> QED
    BY <1>2, <2>2, <2>3, <2>4 DEF Balanced, m
<1>4. CASE ~begun
  <2>1. m = [l EXCEPT !.n = @ + seg.len + 1, !.lines = Append(@, v), !.buf = 0]
    BY <1>4 DEF WriteLine
  <2> HIDE DEF v, m
  <2>2. l.n + seg.len + 1 \in Nat /\ Append(l.lines, v) \in Seq(Nat)
    BY <1>1
  <2>3. m \in Lpw
    BY <1>1, <2>1, <2>2 DEF Lpw
  <2>4. m.n = l.n + seg.len + 1 /\ m.buf = 0 /\ m.lines = Append(l.lines, v) /\ ~m.refused
    BY <1>1, <2>1 DEF Lpw
  <2>5. m.n = m.buf + Held(m.lines)
    BY <1>1, <1>2, <2>4 DEF v
  <2> QED
    BY <2>3, <2>4, <2>5 DEF Balanced, m
<1> QED
  BY <1>3, <1>4

\* A segment without one.
LEMMA RestBalanced ==
    ASSUME NEW l, Balanced(l), ~(l.n >= lpwSizeThreshold), NEW seg \in Pieces
    PROVE  Balanced(WriteRest(l, seg))
<1> DEFINE m == WriteRest(l, seg)
           b == IF l.buf = 0 THEN seg.init ELSE l.init
           n == l.n + seg.len
           v == l.buf + seg.len
<1>1. /\ l \in Lpw /\ l.n \in Nat /\ l.buf \in Nat /\ l.lines \in Seq(Nat)
      /\ seg.len \in Nat /\ l.n = l.buf + Held(l.lines) /\ ~l.refused
  BY DEF Balanced, Lpw, Pieces
<1>2. b \in BOOLEAN /\ n \in Nat /\ v \in Nat
  BY <1>1 DEF Lpw, Pieces
<1>3. m = [l EXCEPT !.n = n, !.init = b, !.buf = v]
  BY <1>1 DEF WriteRest, Lpw
<1> HIDE DEF b, m, n, v
<1>4. m \in Lpw
  BY <1>1, <1>2, <1>3 DEF Lpw
<1>5. m.n = n /\ m.buf = v /\ m.lines = l.lines /\ ~m.refused
  BY <1>1, <1>3 DEF Lpw
<1>6. Held(l.lines) \in Nat
  BY <1>1, HeldLines
<1>7. m.n = m.buf + Held(m.lines)
  BY <1>1, <1>5, <1>6 DEF n, v
<1> QED
  BY <1>4, <1>5, <1>7 DEF Balanced, m

\* Every segment keeps the balance.
LEMMA SegmentBalanced ==
    ASSUME NEW l, Balanced(l), NEW segs \in Seq(Pieces),
           NEW k \in 1..Len(segs)
    PROVE  Balanced(WriteSegment(l, segs, k))
<1>1. segs[k] \in Pieces
  OBVIOUS
<1>2. CASE l.n >= lpwSizeThreshold
  <2> DEFINE b == l.refused \/ k < Len(segs) \/ segs[k].len > 0
             m == [l EXCEPT !.refused = b]
  <2>1. WriteSegment(l, segs, k) = m
    BY <1>2 DEF WriteSegment, Balanced, Lpw
  <2>2. b \in BOOLEAN
    OBVIOUS
  <2> HIDE DEF b
  <2>3. m \in Lpw /\ m.n = l.n /\ m.buf = l.buf /\ m.lines = l.lines
    BY <2>2 DEF Balanced, Lpw
  <2> QED
    BY <1>2, <2>1, <2>3 DEF Balanced
<1>3. CASE ~(l.n >= lpwSizeThreshold)
  <2>1. WriteSegment(l, segs, k) \in {WriteLine(l, segs[k]), WriteRest(l, segs[k])}
    BY <1>3 DEF WriteSegment
  <2>2. Balanced(WriteLine(l, segs[k])) /\ Balanced(WriteRest(l, segs[k]))
    BY <1>1, <1>3, LineBalanced, RestBalanced
  <2> QED
    BY <2>1, <2>2
<1> QED
  BY <1>2, <1>3

\* And so does a write, into however many segments it is split.
LEMMA WriteBalanced ==
    ASSUME NEW l, Balanced(l), NEW segs \in Seq(Pieces)
    PROVE  Balanced(lpwWrite(l, segs))
<1> DEFINE L == Len(segs)
           A == {x \in Lpw : Balanced(x)}
           Segment(x, k) == WriteSegment(x, segs, k)
           Written(g) == [k \in 0..L |-> IF k = 0 THEN l ELSE Segment(g[k - 1], k)]
           F == CHOOSE g : g = Written(g)
           step == [p \in (1..L) \X A |-> Segment(p[2], p[1])]
<1>1. L \in Nat /\ l \in A
  BY DEF Balanced
<1>2. ASSUME NEW k \in 1..L, NEW x \in A PROVE Segment(x, k) \in A
  <2>1. Balanced(Segment(x, k))
    BY SegmentBalanced
  <2> QED
    BY <2>1 DEF Balanced
<1>3. lpwWrite(l, segs) = F[L]
  BY DEF lpwWrite
<1> HIDE DEF A, Segment, L
<1>4. step \in Steps(L, A)
  BY <1>2 DEF Steps
<1>5. PICK g : Solution(L, A, l, step, g)
  <2> HIDE DEF step
  <2> QED
    BY <1>1, <1>4, Recursion
<1>6. g = Written(g)
  <2>1. ASSUME NEW k \in 1..L PROVE g[k] = Segment(g[k - 1], k)
    <3>1. k - 1 \in 0..L /\ g[k - 1] \in A
      BY <1>1, <1>5 DEF Solution
    <3> QED
      BY <1>5, <3>1 DEF Solution
  <2> QED
    BY <1>1, <1>5, <2>1 DEF Solution
<1>7. F = Written(F)
  <2> HIDE DEF Written
  <2> QED
    BY <1>6
<1> HIDE DEF F
<1>8. F[0] = l /\ \A k \in 1..L : F[k] = Segment(F[k - 1], k)
  BY <1>1, <1>7
<1> DEFINE P == [k \in 0..L |-> F[k] \in A]
<1>9. P[0]
  <2>1. 0 \in 0..L /\ F[0] \in A
    BY <1>1, <1>8
  <2> QED
    BY <2>1
<1>10. ASSUME NEW k \in 1..L, P[k - 1] PROVE P[k]
  <2>1. k - 1 \in 0..L /\ k \in 0..L
    BY <1>1
  <2>2. F[k - 1] \in A
    BY <1>10, <2>1
  <2>3. F[k] \in A
    BY <1>2, <1>8, <2>2
  <2> QED
    BY <2>1, <2>3
<1>11. P \in [0..L -> BOOLEAN]
  OBVIOUS
<1>12. \A k \in 0..L : P[k]
  <2> HIDE DEF P
  <2> QED
    BY <1>1, <1>9, <1>10, <1>11, Climb
<1>13. F[L] \in A
  <2>1. L \in 0..L
    BY <1>1
  <2> QED
    BY <1>12, <2>1
<1> QED
  BY <1>3, <1>13 DEF A

\* The count of linePrefixWriter is what it holds, and what was refused shows in it: for
\* every threshold, every length of lines and every way the output is split into writes.
THEOREM LpwAlwaysAccounted == Spec => []LpwAccounted
<1>1. Init => Balanced(lpw)
  BY HeldLines DEF Init, NewLpw, Balanced, Lpw
<1>2. Balanced(lpw) /\ [Next]_vars => Balanced(lpw)'
  <2> SUFFICES ASSUME Balanced(lpw), [Next]_vars PROVE Balanced(lpw')
    BY DEF Balanced
  <2>1. CASE ProxyWrite
    <3>1. PICK c \in Chunks : lpw' = lpwWrite(lpw, c)
      BY <2>1 DEF ProxyWrite
    <3>2. c \in Seq(Pieces)
      BY OutputAssumption DEF Pieces
    <3> QED
      BY <3>1, <3>2, WriteBalanced
  <2>2. CASE ~ProxyWrite
    <3>1. lpw' = lpw
      BY <2>2 DEF Next, vars, LogOther, WriteLoad, WriteDown, WriteBuf, Commit, Lifecycle1,
         Cleanup, BeforeExit, Exit, DumpLine, Dump, Suspend, ResumeSwap, ResumeDump, ResumeReport
    <3> QED
      BY <3>1
  <2> QED
    BY <2>1, <2>2
<1>3. Balanced(lpw) => LpwAccounted
  BY DEF Balanced, LpwAccounted
<1> QED
  BY <1>1, <1>2, <1>3, PTL DEF Spec
=============================================================================
