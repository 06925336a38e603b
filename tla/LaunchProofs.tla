---------------------------- MODULE LaunchProofs ----------------------------
(***************************************************************************)
(* Proofs about Launch, for every command line, every hsurc, every request *)
(* and all sizes of the ranges that satisfy NumbersAssumption.             *)
(***************************************************************************)
EXTENDS Launch, WellFoundedInduction, SequenceTheorems, TLAPS

Argument == [flag : BOOLEAN, name : STRING]

\* What hakurei may be asked for, by whom.
Request(q) ==
    /\ q.args \in Seq(Argument)
    /\ q.identity \in Int
    /\ q.groups \in Seq(Int)
    /\ q.user.uid \in Nat

AnyLaunch ==
    \E q, c, replaced : \E lines \in Hsurc :
        Request(q) /\ InitWith(q, c, lines, replaced)

LaunchSpec == AnyLaunch /\ [][Next]_vars

-----------------------------------------------------------------------------
\* A set of numbers that is not empty has a smallest one.
LEMMA Smallest ==
    ASSUME NEW S \in SUBSET Nat, S # {}
    PROVE  \E k \in S : \A j \in S : k <= j
<1>1. PICK k \in S : \A j \in S : ~(<< j, k >> \in OpToRel(<, Nat))
  BY NatLessThanWellFounded, WFMin
<1>2. \A j \in S : ~(j < k)
  BY <1>1 DEF OpToRel
<1> QED
  BY <1>2

\* What CHOOSE makes of it.
LEMMA ChooseSmallest ==
    ASSUME NEW S \in SUBSET Nat, S # {}
    PROVE  LET m == CHOOSE k \in S : \A j \in S : k <= j
           IN  m \in S /\ \A j \in S : m <= j
  BY Smallest

\* What holds of 0 and is handed on holds up to n.
LEMMA Climb ==
    ASSUME NEW n \in Nat, NEW P \in [0 .. n -> BOOLEAN], P[0],
           \A k \in 1 .. n : P[k - 1] => P[k]
    PROVE  \A k \in 0 .. n : P[k]
<1> DEFINE bad == {k \in 0 .. n : ~P[k]}
<1>1. SUFFICES ASSUME bad # {} PROVE FALSE
  OBVIOUS
<1>2. PICK k \in bad : \A j \in bad : k <= j
  <2>1. bad \in SUBSET Nat
    OBVIOUS
  <2> HIDE DEF bad
  <2> QED
    BY <1>1, <2>1, Smallest
<1>3. k \in 1 .. n /\ k - 1 \in 0 .. n /\ k - 1 \notin bad
  BY <1>2
<1> QED
  BY <1>2, <1>3

\* A function defined by its first value and the step to the next: there is one.
Steps(n, A) == [(1 .. n) \X A -> A]

Solution(n, A, a, step, g) ==
    /\ g \in [0 .. n -> A] /\ g[0] = a
    /\ \A k \in 1 .. n : g[k] = step[<< k, g[k - 1] >>]

\* What is defined step by step exists.
LEMMA Recursion ==
    ASSUME NEW n \in Nat, NEW A, NEW a \in A, NEW step \in Steps(n, A)
    PROVE  \E g : Solution(n, A, a, step, g)
<1> USE DEF Steps
<1> DEFINE Solves(g, m) == /\ g \in [0 .. m -> A] /\ g[0] = a
                           /\ \A k \in 1 .. m : g[k] = step[<< k, g[k - 1] >>]
           P == [m \in 0 .. n |-> \E g : Solves(g, m)]
<1>1. P[0]
  <2>1. Solves([k \in 0 .. 0 |-> a], 0)
    OBVIOUS
  <2> HIDE DEF Solves
  <2> QED
    BY <2>1
<1>2. ASSUME NEW m \in 1 .. n, P[m - 1] PROVE P[m]
  <2>1. PICK g : Solves(g, m - 1)
    <3> HIDE DEF Solves
    <3> QED
      BY <1>2
  <2> DEFINE h == [k \in 0 .. m |-> IF k = m THEN step[<< m, g[m - 1] >>] ELSE g[k]]
  <2>2. g[m - 1] \in A /\ step[<< m, g[m - 1] >>] \in A
    <3>1. m - 1 \in 0 .. m - 1
      OBVIOUS
    <3>2. g[m - 1] \in A
      BY <2>1, <3>1
    <3>3. << m, g[m - 1] >> \in (1 .. n) \X A
      BY <3>2
    <3> QED
      BY <3>2, <3>3
  <2>3. h \in [0 .. m -> A] /\ h[0] = a
    <3>1. \A k \in 0 .. m : k # m => k \in 0 .. m - 1
      OBVIOUS
    <3>2. 0 \in 0 .. m /\ 0 # m
      OBVIOUS
    <3> QED
      BY <2>1, <2>2, <3>1, <3>2
  <2>4. ASSUME NEW k \in 1 .. m PROVE h[k] = step[<< k, h[k - 1] >>]
    <3>1. k \in 0 .. m /\ k - 1 \in 0 .. m /\ k - 1 # m /\ h[k - 1] = g[k - 1]
      OBVIOUS
    <3>2. CASE k = m
      BY <3>1, <3>2
    <3>3. CASE k # m
      <4>1. k \in 1 .. m - 1
        BY <3>3
      <4> QED
        BY <2>1, <3>1, <3>3, <4>1
    <3> QED
      BY <3>2, <3>3
  <2>5. Solves(h, m)
    BY <2>3, <2>4
  <2> HIDE DEF Solves, h
  <2> QED
    BY <2>5
<1>3. P \in [0 .. n -> BOOLEAN] /\ n \in 0 .. n
  <2> HIDE DEF Solves
  <2> QED
    OBVIOUS
<1>4. P[n]
  <2> HIDE DEF P
  <2> QED
    BY <1>1, <1>2, <1>3, Climb
<1>5. PICK g : Solves(g, n)
  <2> HIDE DEF Solves
  <2> QED
    BY <1>3, <1>4
<1> QED
  BY <1>5 DEF Solution

-----------------------------------------------------------------------------
(***************************************************************************)
(* The command line                                                        *)
(***************************************************************************)
\* The flags in front are known up to the one that is not, or taken off up to
\* the first word.
LEMMA FlagsParsed ==
    ASSUME NEW flags, NEW args \in Seq(Argument)
    PROVE  LET p == setParse(flags, args) IN
           /\ p.err \in {"nil", "FlagHelp", "FlagError"}
           /\ \E m \in 0..Len(args) :
                 /\ Known(flags, args, 1, m)
                 /\ p.err = "FlagHelp" => m < Len(args) /\ args[m + 1] = Flag1("help")
                 /\ p.err = "nil" =>
                        /\ p.args \in Seq(Argument) /\ Len(p.args) = Len(args) - m
                        /\ \A k \in 1..Len(p.args) : p.args[k] = args[m + k]
                        /\ m < Len(args) => ~args[m + 1].flag
<1> DEFINE words == {k \in DOMAIN args : ~args[k].flag}
           first == CHOOSE k \in words : \A j \in words : k <= j
           n     == IF words = {} THEN Len(args) ELSE first - 1
           bad   == {k \in 1..n : args[k].name \notin flags}
           low   == CHOOSE k \in bad : \A j \in bad : k <= j
           rest  == SubSeq(args, n + 1, Len(args))
           p     == setParse(flags, args)
<1>1. words \in SUBSET Nat /\ DOMAIN args = 1..Len(args) /\ Len(args) \in Nat
  OBVIOUS
<1>2. words # {} => first \in words /\ \A j \in words : first <= j
  BY <1>1, ChooseSmallest
<1>3. n \in 0..Len(args) /\ \A k \in 1..n : k \in DOMAIN args /\ args[k].flag
  BY <1>1, <1>2
<1>4. bad # {} => low \in bad /\ \A j \in bad : low <= j
  <2>1. bad \in SUBSET Nat
    BY <1>3
  <2> QED
    BY <2>1, ChooseSmallest
<1>5. p = IF bad = {} THEN [err |-> "nil", args |-> rest]
          ELSE [err |-> IF args[low].name = "help" THEN "FlagHelp" ELSE "FlagError",
                args |-> << >>]
  BY DEF setParse
<1>6. /\ rest \in Seq(Argument) /\ Len(rest) = Len(args) - n
      /\ \A k \in 1..Len(rest) : rest[k] = args[n + k] /\ n + k \in DOMAIN args
  <2> HIDE DEF n
  <2>1. n \in Int /\ Len(args) \in Int /\ n <= Len(args)
    BY <1>1, <1>3
  <2>2. \A k \in (n + 1)..Len(args) : args[k] \in Argument
    BY <1>1, <1>3
  <2>3. /\ rest \in Seq(Argument)
        /\ Len(rest) = IF n + 1 <= Len(args) THEN Len(args) - (n + 1) + 1 ELSE 0
        /\ \A k \in 1..(Len(args) - (n + 1) + 1) : rest[k] = args[n + 1 + k - 1]
    <3> HIDE DEF rest
    <3>1. rest = SubSeq(args, n + 1, Len(args)) /\ n + 1 \in Int
      BY <2>1 DEF rest
    <3> QED
      BY <2>1, <2>2, <3>1, SubSeqProperties
  <2> HIDE DEF rest
  <2>4. Len(rest) = Len(args) - n
    BY <2>1, <2>3
  <2>5. ASSUME NEW k \in 1..Len(rest) PROVE rest[k] = args[n + k] /\ n + k \in DOMAIN args
    <3>1. n + 1 + k - 1 = n + k /\ k \in 1..(Len(args) - (n + 1) + 1)
      BY <1>3, <2>1, <2>4
    <3>2. rest[k] = args[n + 1 + k - 1]
      BY <2>3, <3>1
    <3>3. n + k \in 1..Len(args)
      BY <1>3, <2>1, <2>4
    <3> QED
      BY <1>1, <3>1, <3>2, <3>3
  <2> QED
    BY <2>3, <2>4, <2>5
<1> HIDE DEF words, first, n, bad, low, rest, p
<1>7. p.err \in {"nil", "FlagHelp", "FlagError"}
  BY <1>5
<1>8. CASE p.err = "nil"
  <2>1. bad = {} /\ p.args = rest
    BY <1>5, <1>8
  <2>2. Known(flags, args, 1, n)
    BY <1>3, <2>1 DEF bad, Known
  <2>3. ASSUME n < Len(args) PROVE ~args[n + 1].flag
    <3>1. words # {} /\ n = first - 1
      BY <1>1, <2>3 DEF n
    <3> QED
      BY <1>1, <1>2, <3>1 DEF words
  <2> QED
    BY <1>3, <1>6, <1>8, <2>1, <2>2, <2>3 DEF p
<1>9. CASE p.err = "FlagHelp"
  <2>1. bad # {} /\ args[low].name = "help"
    BY <1>5, <1>9
  <2>2. low \in 1..n /\ low \in 1..Len(args) /\ low - 1 \in 0..Len(args)
    BY <1>1, <1>3, <1>4, <2>1 DEF bad
  <2>3. Known(flags, args, 1, low - 1)
    <3> SUFFICES ASSUME NEW j \in 1..(low - 1) PROVE args[j].flag /\ args[j].name \in flags
      BY DEF Known
    <3>1. j \in 1..n /\ ~(low <= j)
      BY <1>1, <1>3, <2>2
    <3> QED
      BY <1>3, <1>4, <2>1, <3>1 DEF bad
  <2>4. args[low] = Flag1("help")
    <3>1. args[low] \in [flag : BOOLEAN, name : STRING]
      BY <2>2, ElementOfSeq DEF Argument
    <3>2. args[low].flag = TRUE
      BY <1>3, <2>2, <3>1
    <3>3. args[low] = [flag |-> args[low].flag, name |-> args[low].name]
      BY <3>1
    <3> QED
      BY <2>1, <3>2, <3>3 DEF Flag1
  <2>5. low - 1 < Len(args) /\ (low - 1) + 1 = low
    BY <1>1, <2>2
  <2> QED
    BY <1>9, <2>2, <2>3, <2>4, <2>5 DEF p
<1>10. CASE p.err = "FlagError"
  <2>1. Known(flags, args, 1, 0) /\ 0 \in 0..Len(args)
    BY <1>1 DEF Known
  <2> QED
    BY <1>10, <2>1 DEF p
<1> QED
  BY <1>7, <1>8, <1>9, <1>10 DEF p

\* When the command tree may end without a handler, and which handler it calls.
LEMMA TreeParsed ==
    ASSUME NEW args \in Seq(Argument)
    PROVE  LET p == Parse(args) IN
           /\ p.err \in {"ErrHelp", "FlagHelp"} => MaySucceed(args)
           /\ p.err = "nil" /\ p.name \in NoContainer /\ (p.name = "show" => ~(Len(p.args) > 1))
                 => MaySucceed(args)
<1> DEFINE top  == setParse(RootFlags, args)
           name == Head(top.args).name
           sub  == setParse(FlagsOf(name), Tail(top.args))
           p    == Parse(args)
<1>0. Len(args) \in Nat
  OBVIOUS
<1>1. PICK m \in 0..Len(args) :
         /\ Known(RootFlags, args, 1, m)
         /\ top.err = "FlagHelp" => m < Len(args) /\ args[m + 1] = Flag1("help")
         /\ top.err = "nil" =>
               /\ top.args \in Seq(Argument) /\ Len(top.args) = Len(args) - m
               /\ \A k \in 1..Len(top.args) : top.args[k] = args[m + k]
               /\ m < Len(args) => ~args[m + 1].flag
  BY FlagsParsed
<1>2. CASE top.err # "nil"
  <2>1. p = [err |-> top.err, name |-> "none", args |-> << >>]
    BY <1>2 DEF Parse
  <2>2. top.err \in {"nil", "FlagHelp", "FlagError"}
    BY FlagsParsed
  <2> HIDE DEF top, p
  <2> QED
    BY <1>1, <1>2, <2>1, <2>2 DEF MaySucceed, p
<1>3. CASE top.err = "nil" /\ top.args = << >>
  <2>1. p = [err |-> "ErrHelp", name |-> "none", args |-> << >>]
    BY <1>3 DEF Parse
  <2> HIDE DEF top, p
  <2>2. m = Len(args)
    <3>1. Len(top.args) = 0
      BY <1>3
    <3> QED
      BY <1>0, <1>1, <1>3, <3>1
  <2> QED
    BY <1>1, <2>1, <2>2 DEF MaySucceed, p
<1>4. CASE top.err = "nil" /\ top.args # << >>
  <2>1. p = IF name \notin ToSet(Commands)
            THEN [err |-> "ErrNoMatch", name |-> "none", args |-> << >>]
            ELSE [err |-> sub.err, name |-> name, args |-> sub.args]
    BY <1>4 DEF Parse
  <2> DEFINE tl == Tail(top.args)
  <2> HIDE DEF top
  <2>2. /\ tl \in Seq(Argument) /\ Len(tl) = Len(args) - m - 1 /\ m < Len(args)
        /\ Head(top.args) = args[m + 1]
        /\ \A k \in 1..Len(tl) : tl[k] = args[m + 1 + k]
    <3>1. Len(top.args) \in Nat \ {0} /\ Len(top.args) = Len(args) - m /\ top.args \in Seq(Argument)
      BY <1>1, <1>4, EmptySeq
    <3>2. /\ tl \in Seq(Argument) /\ Len(tl) = Len(top.args) - 1 /\ Head(top.args) = top.args[1]
          /\ \A k \in 1..Len(tl) : tl[k] = top.args[k + 1]
      BY <1>4, <3>1, HeadTailProperties
    <3> HIDE DEF tl
    <3>3. ASSUME NEW k \in 1..Len(tl) PROVE tl[k] = args[m + 1 + k]
      <4>1. k + 1 \in 1..Len(top.args) /\ m + (k + 1) = m + 1 + k
        BY <3>1, <3>2
      <4> QED
        BY <1>1, <1>4, <3>2, <4>1
    <3>4. Len(tl) = Len(args) - m - 1 /\ m < Len(args) /\ 1 \in 1..Len(top.args)
      BY <1>0, <3>1, <3>2
    <3> QED
      BY <1>1, <1>4, <3>2, <3>3, <3>4
  <2>3. ~args[m + 1].flag /\ name = args[m + 1].name
    BY <1>1, <1>4, <2>2
  <2>4. PICK i \in 0..Len(tl) :
           /\ Known(FlagsOf(name), tl, 1, i)
           /\ sub.err = "FlagHelp" => i < Len(tl) /\ tl[i + 1] = Flag1("help")
           /\ sub.err = "nil" => /\ Len(sub.args) = Len(tl) - i
                                 /\ i < Len(tl) => ~tl[i + 1].flag
    <3> HIDE DEF name
    <3> QED
      BY <2>2, FlagsParsed
  <2>5. sub.err \in {"nil", "FlagHelp", "FlagError"}
    BY <2>2, FlagsParsed
  <2> HIDE DEF tl, name, sub, p
  <2> DEFINE l == m + 1 + i
  <2>6. /\ l \in (m + 1)..Len(args) /\ (l < Len(args) <=> i < Len(tl))
        /\ Len(args) - l = Len(tl) - i
        /\ i < Len(tl) => args[l + 1] = tl[i + 1]
    <3>1. i \in Nat /\ m \in Nat /\ Len(tl) \in Nat /\ i <= Len(tl)
      BY <1>0, <2>2
    <3>2. i < Len(tl) => i + 1 \in 1..Len(tl) /\ m + 1 + (i + 1) = l + 1
      BY <3>1
    <3>3. i < Len(tl) => args[m + 1 + (i + 1)] = tl[i + 1]
      <4> HIDE DEF l
      <4> QED
        BY <2>2, <3>2
    <3>4. i < Len(tl) => args[l + 1] = tl[i + 1]
      BY ONLY <3>2, <3>3
    <3>5. Len(tl) = Len(args) - m - 1 /\ Len(args) \in Nat
      BY <1>0, <2>2
    <3>6. /\ l \in (m + 1)..Len(args) /\ (l < Len(args) <=> i < Len(tl))
          /\ Len(args) - l = Len(tl) - i
      BY ONLY <3>1, <3>5
    <3> QED
      BY <3>4, <3>6
  <2>7. Known(FlagsOf(name), args, m + 2, l)
    <3> SUFFICES ASSUME NEW j \in (m + 2)..l
                 PROVE  args[j].flag /\ args[j].name \in FlagsOf(name)
      BY DEF Known
    <3>1. /\ j - (m + 1) \in 1..i /\ j - (m + 1) \in 1..Len(tl)
          /\ m + 1 + (j - (m + 1)) = j
      BY <1>0, <2>2
    <3> QED
      BY <2>2, <2>4, <3>1 DEF Known
  <2> HIDE DEF l
  <2>8. CASE name \in ToSet(Commands) /\ sub.err = "FlagHelp"
    <3>1. l < Len(args) /\ args[l + 1] = Flag1("help")
      BY <2>4, <2>6, <2>8
    <3>2. MaySucceed(args)
      BY <1>1, <2>3, <2>6, <2>7, <2>8, <3>1 DEF MaySucceed
    <3> QED
      BY <3>2
  <2>9. CASE name \in ToSet(Commands) /\ sub.err = "nil"
    <3>1. p.err = "nil" /\ p.name = name /\ p.args = sub.args
      BY <2>1, <2>9
    <3>2. Len(sub.args) = Len(args) - l /\ (l < Len(args) => ~args[l + 1].flag)
      BY <2>4, <2>6, <2>9
    <3>3. ASSUME name \in NoContainer, name = "show" => ~(Len(sub.args) > 1)
          PROVE  MaySucceed(args)
      <4>1. name = "show" => Len(args) - l <= 1
        BY <1>0, <1>1, <2>6, <3>2, <3>3
      <4> QED
        BY <1>1, <2>3, <2>6, <2>7, <2>9, <3>2, <3>3, <4>1 DEF MaySucceed
    <3> QED
      BY <3>1, <3>3 DEF p
  <2>10. CASE name \notin ToSet(Commands) \/ sub.err = "FlagError"
    <3>1. p.err \in {"ErrNoMatch", "FlagError"}
      BY <2>1, <2>10
    <3> QED
      BY <3>1 DEF p
  <2> QED
    BY <2>5, <2>8, <2>9, <2>10
<1> QED
  BY <1>2, <1>3, <1>4

\* A handler that is called is that of a command of the tree.
LEMMA HandlerNamed ==
    ASSUME NEW args \in Seq(Argument), Parse(args).err = "nil"
    PROVE  Parse(args).name \in NoContainer \cup {"shim", "app", "run"}
<1> DEFINE top  == setParse(RootFlags, args)
           name == Head(top.args).name
<1>1. ToSet(Commands) = {"shim", "app", "run", "show", "ps", "version", "license",
                         "template", "help"}
  BY DEF ToSet, Commands
<1>2. top.err = "nil" /\ top.args # << >> /\ name \in ToSet(Commands) /\ Parse(args).name = name
  BY DEF Parse
<1> QED
  BY <1>1, <1>2 DEF NoContainer

\* Whatever exits with success has been asked for nothing that needs a container.
LEMMA CommandSilent ==
    ASSUME Request(req), NoSilentFailure, Command
    PROVE  NoSilentFailure'
<1> DEFINE p == Parse(req.args)
<1>1. req.args \in Seq(Argument) /\ req' = req
  BY DEF Request, Command, Local
<1>2. /\ p.err \in {"ErrHelp", "FlagHelp"} => MaySucceed(req.args)
      /\ p.err = "nil" /\ p.name \in NoContainer /\ (p.name = "show" => ~(Len(p.args) > 1))
            => MaySucceed(req.args)
  BY <1>1, TreeParsed
<1>3. p.err = "nil" => p.name \in NoContainer \cup {"shim", "app", "run"}
  BY <1>1, HandlerNamed
<1> HIDE DEF p
<1>4. exit' = 0 /\ exit # 0 =>
         /\ req.user.uid # 0
         /\ \/ p.err \in {"ErrHelp", "FlagHelp"}
            \/ /\ p.err = "nil" /\ p.name \notin {"run", "app", "shim"}
               /\ p.name = "show" => ~(Len(p.args) > 1)
  BY DEF Command, Fatal, Step, MustParse, p
<1> QED
  BY <1>1, <1>2, <1>3, <1>4 DEF NoSilentFailure

\* No other step exits with success.
LEMMA OtherSilent ==
    ASSUME NoSilentFailure,
           \/ QueryPasswd \/ Passwd \/ Finalise \/ QueryID \/ PopulateLocal \/ RunOp \/ Start
           \/ HsuMain \/ EditHsurc \/ UNCHANGED vars
    PROVE  NoSilentFailure'
<1>1. req' = req /\ (exit' = exit \/ exit' = 1)
  BY DEF QueryPasswd, Passwd, Finalise, QueryID, PopulateLocal, RunOp, Start, RunHsu, Step,
      Fatal, HsuMain, HsuCheck, HsuParse, HsuIdentity, HsuGroups, SetResGid, SetGroups,
      SetResUid, NoNewPrivs, ExecShim, HsuSyscallFails, HsuStep, EditHsurc, Local, vars
<1> QED
  BY <1>1 DEF NoSilentFailure

\* The request stays what it was.
LEMMA SameRequest ==
    ASSUME [Next]_vars
    PROVE  req' = req
  BY DEF Next, Command, QueryPasswd, Passwd, Finalise, QueryID, PopulateLocal, RunOp, Start,
      RunHsu, HsuMain, HsuCheck, HsuParse, HsuIdentity, HsuGroups, SetResGid, SetGroups,
      SetResUid, NoNewPrivs, ExecShim, HsuSyscallFails, HsuStep, EditHsurc, Local, vars

(***************************************************************************)
(* hakurei exits with success by itself only for help and for the commands *)
(* that need no container, and only when it knows every flag and command   *)
(* up to there, whatever its arguments, its configuration, its             *)
(* installation and hsurc are.                                             *)
(***************************************************************************)
THEOREM NeverSilent == LaunchSpec => []NoSilentFailure
<1>1. AnyLaunch => Request(req) /\ NoSilentFailure
  BY DEF AnyLaunch, InitWith, NoSilentFailure
<1>2. Request(req) /\ NoSilentFailure /\ [Next]_vars => Request(req)' /\ NoSilentFailure'
  <2> SUFFICES ASSUME Request(req), NoSilentFailure, [Next]_vars
               PROVE  Request(req)' /\ NoSilentFailure'
    OBVIOUS
  <2>1. Request(req)'
    BY SameRequest DEF Request
  <2> QED
    BY <2>1, CommandSilent, OtherSilent DEF Next
<1> QED
  BY <1>1, <1>2, PTL DEF LaunchSpec

-----------------------------------------------------------------------------
(***************************************************************************)
(* Numbers and hsurc                                                       *)
(***************************************************************************)
\* A number that wraps is a word.
LEMMA Wrapped == ASSUME NEW x \in Nat PROVE x % Word \in 0..(Word - 1)
<1>1. Word \in Nat /\ Word > 1
  BY LaunchAssumption
<1> QED
  BY <1>1

\* The numbers after each digit, as hsu computes them: words, each from the one before it.
LEMMA ParseDigits ==
    ASSUME NEW s \in Seq(Nat), parseUint32Fast(s).ok
    PROVE  \E f \in [0..Len(s) -> 0..(Word - 1)] :
              /\ f[0] = 0 /\ \A k \in 1..Len(s) : f[k] = (f[k - 1] * Radix + s[k]) % Word
              /\ parseUint32Fast(s).n = f[Len(s)]
<1> DEFINE L == Len(s)
           A == 0..(Word - 1)
           Digit(x, k) == (x * Radix + s[k]) % Word
           Digits(g) == [k \in 0..L |-> IF k = 0 THEN 0 ELSE Digit(g[k - 1], k)]
           F == CHOOSE g : g = Digits(g)
           step == [p \in (1..L) \X A |-> Digit(p[2], p[1])]
<1>1. Radix \in Nat /\ Word \in Nat /\ Word > 1 /\ L \in Nat /\ s \in [1..L -> Nat] /\ 0 \in A
  BY LaunchAssumption
<1>2. ASSUME NEW k \in 1..L, NEW x \in A PROVE Digit(x, k) \in A
  <2>1. x \in Nat /\ s[k] \in Nat
    BY <1>1
  <2>2. x * Radix + s[k] \in Nat
    BY <1>1, <2>1
  <2> QED
    BY <2>2, Wrapped
<1>3. parseUint32Fast(s).n = F[L]
  BY DEF parseUint32Fast, Err
<1> HIDE DEF A, Digit, L
<1>4. step \in Steps(L, A)
  BY <1>2 DEF Steps
<1>5. PICK g : Solution(L, A, 0, step, g)
  <2> HIDE DEF step
  <2> QED
    BY <1>1, <1>4, Recursion
<1>6. g = Digits(g)
  <2>1. ASSUME NEW k \in 1..L PROVE g[k] = Digit(g[k - 1], k)
    <3>1. k - 1 \in 0..L /\ g[k - 1] \in A
      BY <1>1, <1>5 DEF Solution
    <3> QED
      BY <1>5, <3>1 DEF Solution
  <2> QED
    BY <1>1, <1>5, <2>1 DEF Solution
<1>7. F = Digits(F)
  <2> HIDE DEF Digits
  <2> QED
    BY <1>6
<1> HIDE DEF F
<1>8. F[0] = 0 /\ \A k \in 1..L : F[k] = Digit(F[k - 1], k)
  BY <1>1, <1>7
<1>9. F \in [0..L -> A]
  <2> DEFINE P == [k \in 0..L |-> F[k] \in A]
  <2>1. P[0]
    <3>1. 0 \in 0..L /\ F[0] \in A
      BY <1>1, <1>8
    <3> QED
      BY <3>1
  <2>2. ASSUME NEW k \in 1..L, P[k - 1] PROVE P[k]
    <3>1. k - 1 \in 0..L /\ k \in 0..L
      BY <1>1
    <3>2. F[k - 1] \in A
      BY <2>2, <3>1
    <3>3. F[k] \in A
      BY <1>2, <1>8, <3>2
    <3> QED
      BY <3>1, <3>3
  <2>3. P \in [0..L -> BOOLEAN]
    OBVIOUS
  <2>4. \A k \in 0..L : P[k]
    <3> HIDE DEF P
    <3> QED
      BY <1>1, <2>1, <2>2, <2>3, Climb
  <2> QED
    BY <1>7, <2>4
<1> QED
  BY <1>3, <1>8, <1>9 DEF L, A, Digit

\* The values of the prefixes of a string of digits.
LEMMA ValuePrefixes ==
    ASSUME NEW s \in Seq(Nat)
    PROVE  \E v \in [0..Len(s) -> Nat] :
              /\ v[0] = 0 /\ \A k \in 1..Len(s) : v[k] = v[k - 1] * Radix + s[k]
              /\ Value(s) = v[Len(s)]
<1> DEFINE L == Len(s)
           Digit(x, k) == x * Radix + s[k]
           Partial(g) == [k \in 0..L |-> IF k = 0 THEN 0 ELSE Digit(g[k - 1], k)]
           F == CHOOSE g : g = Partial(g)
           step == [p \in (1..L) \X Nat |-> Digit(p[2], p[1])]
<1>1. Radix \in Nat /\ L \in Nat /\ s \in [1..L -> Nat]
  BY LaunchAssumption
<1>2. ASSUME NEW k \in 1..L, NEW x \in Nat PROVE Digit(x, k) \in Nat
  BY <1>1
<1>3. Value(s) = F[L]
  BY DEF Value
<1> HIDE DEF Digit, L
<1>4. step \in Steps(L, Nat)
  BY <1>2 DEF Steps
<1>5. PICK g : Solution(L, Nat, 0, step, g)
  <2> HIDE DEF step
  <2> QED
    BY <1>1, <1>4, Recursion
<1>6. g = Partial(g)
  <2>1. ASSUME NEW k \in 1..L PROVE g[k] = Digit(g[k - 1], k)
    <3>1. k - 1 \in 0..L /\ g[k - 1] \in Nat
      BY <1>1, <1>5 DEF Solution
    <3> QED
      BY <1>5, <3>1 DEF Solution
  <2> QED
    BY <1>1, <1>5, <2>1 DEF Solution
<1>7. F = Partial(F)
  <2> HIDE DEF Partial
  <2> QED
    BY <1>6
<1> HIDE DEF F
<1>8. F[0] = 0 /\ \A k \in 1..L : F[k] = Digit(F[k - 1], k)
  BY <1>1, <1>7
<1>9. F \in [0..L -> Nat]
  <2> DEFINE P == [k \in 0..L |-> F[k] \in Nat]
  <2>1. P[0]
    <3>1. 0 \in 0..L /\ F[0] \in Nat
      BY <1>1, <1>8
    <3> QED
      BY <3>1
  <2>2. ASSUME NEW k \in 1..L, P[k - 1] PROVE P[k]
    <3>1. k - 1 \in 0..L /\ k \in 0..L
      BY <1>1
    <3>2. F[k - 1] \in Nat
      BY <2>2, <3>1
    <3>3. F[k] \in Nat
      BY <1>2, <1>8, <3>2
    <3> QED
      BY <3>1, <3>3
  <2>3. P \in [0..L -> BOOLEAN]
    OBVIOUS
  <2>4. \A k \in 0..L : P[k]
    <3> HIDE DEF P
    <3> QED
      BY <1>1, <2>1, <2>2, <2>3, Climb
  <2> QED
    BY <1>7, <2>4
<1> QED
  BY <1>3, <1>8, <1>9 DEF L, Digit

\* A field that parses is read as a word, the one that was written if it fits.
LEMMA FieldRead ==
    ASSUME NEW s \in Seq(Nat), parseUint32Fast(s).ok
    PROVE  /\ parseUint32Fast(s).n \in Nat
           /\ Value(s) < Word => parseUint32Fast(s).n = Value(s)
<1> DEFINE L == Len(s)
           Digit(x, k) == x * Radix + s[k]
<1>1. PICK f \in [0..L -> 0..(Word - 1)] :
          /\ f[0] = 0 /\ \A k \in 1..L : f[k] = Digit(f[k - 1], k) % Word
          /\ parseUint32Fast(s).n = f[L]
  BY ParseDigits
<1>2. PICK v \in [0..L -> Nat] :
          /\ v[0] = 0 /\ \A k \in 1..L : v[k] = Digit(v[k - 1], k)
          /\ Value(s) = v[L]
  BY ValuePrefixes
<1>3. Radix \in Nat /\ Radix >= 1 /\ Word \in Nat /\ Word > 1 /\ L \in Nat /\ s \in [1..L -> Nat]
  BY LaunchAssumption
<1>4. ASSUME NEW x \in Nat, NEW k \in 1..L PROVE Digit(x, k) \in Nat /\ x <= Digit(x, k)
  <2>1. x * Radix \in Nat /\ x * Radix >= x /\ s[k] \in Nat
    BY <1>3
  <2> QED
    BY <2>1
<1>5. ASSUME NEW x \in Nat, x < Word PROVE x % Word = x
  BY <1>3, <1>5
<1> DEFINE P == [k \in 0..L |-> v[k] < Word => f[k] = v[k]]
<1> HIDE DEF L, Digit
<1>6. P[0]
  <2>1. 0 \in 0..L /\ f[0] = v[0]
    BY <1>1, <1>2, <1>3
  <2> QED
    BY <2>1
<1>7. ASSUME NEW k \in 1..L, P[k - 1] PROVE P[k]
  <2>1. k - 1 \in 0..L /\ k \in 0..L /\ v[k - 1] \in Nat /\ v[k] \in Nat
    BY <1>2, <1>3
  <2>2. v[k - 1] < Word => f[k - 1] = v[k - 1]
    BY <1>7, <2>1
  <2>3. v[k] = Digit(v[k - 1], k) /\ f[k] = Digit(f[k - 1], k) % Word
    BY <1>1, <1>2
  <2>4. v[k - 1] <= v[k]
    BY <1>4, <2>1, <2>3
  <2>5. v[k] < Word => v[k - 1] < Word /\ v[k] % Word = v[k]
    <3>1. v[k] < Word => v[k - 1] < Word
      BY <1>3, <2>1, <2>4
    <3>2. v[k] < Word => v[k] % Word = v[k]
      BY <1>5, <2>1
    <3> QED
      BY <3>1, <3>2
  <2>6. v[k] < Word => f[k] = v[k]
    BY <2>2, <2>3, <2>5
  <2> QED
    BY <2>1, <2>6
<1>8. P \in [0..L -> BOOLEAN]
  OBVIOUS
<1>9. \A k \in 0..L : P[k]
  <2> HIDE DEF P
  <2> QED
    BY <1>3, <1>6, <1>7, <1>8, Climb
<1>10. L \in 0..L
  BY <1>3
<1>11. f[L] \in Nat
  BY <1>3, <1>10
<1>12. v[L] < Word => f[L] = v[L]
  BY <1>9, <1>10
<1> QED
  BY <1>1, <1>2, <1>11, <1>12

\* A userid is taken from the first line for the caller.
LEMMA FirstLine ==
    ASSUME NEW lines \in Hsurc, NEW puid \in Nat, parseConfig(lines, puid).ok
    PROVE  /\ parseConfig(lines, puid).n \in 0..useridEnd
           /\ \E k \in DOMAIN lines :
                /\ ~badLine(lines[k]) /\ parseUint32Fast(lines[k][1]).n = puid
                /\ parseUint32Fast(lines[k][2]).ok
                /\ parseConfig(lines, puid).n = parseUint32Fast(lines[k][2]).n
                /\ \A j \in 1..(k - 1) : /\ ~badLine(lines[j])
                                         /\ parseUint32Fast(lines[j][1]).n # puid
<1> DEFINE stop == {k \in DOMAIN lines : badLine(lines[k])
                                         \/ parseUint32Fast(lines[k][1]).n = puid}
           low  == CHOOSE k \in stop : \A j \in stop : k <= j
           line == lines[low]
           found == parseConfig(lines, puid)
<1>1. DOMAIN lines = 1..Len(lines) /\ Len(lines) \in Nat /\ stop \in SUBSET Nat
  BY DEF Hsurc
<1>2. found = IF stop = {} THEN Err
              ELSE IF badLine(line) \/ ~parseUint32Fast(line[2]).ok
                        \/ parseUint32Fast(line[2]).n > useridEnd
                   THEN Err ELSE parseUint32Fast(line[2])
  BY DEF parseConfig
<1>3. stop # {} /\ ~badLine(line) /\ parseUint32Fast(line[2]).ok
      /\ ~(parseUint32Fast(line[2]).n > useridEnd) /\ found = parseUint32Fast(line[2])
  <2> HIDE DEF stop, line, found
  <2> QED
    BY <1>2 DEF Err, found
<1>4. low \in stop /\ \A j \in stop : low <= j
  BY <1>1, <1>3, ChooseSmallest
<1>5. low \in DOMAIN lines /\ parseUint32Fast(line[1]).n = puid
  BY <1>3, <1>4
<1>6. ASSUME NEW j \in 1..(low - 1)
      PROVE  ~badLine(lines[j]) /\ parseUint32Fast(lines[j][1]).n # puid
  <2> HIDE DEF low
  <2>1. j \in DOMAIN lines /\ ~(low <= j)
    BY <1>1, <1>5
  <2>2. j \notin stop
    <3> HIDE DEF stop
    <3> QED
      BY <1>4, <2>1
  <2> QED
    BY <2>1, <2>2
<1>7. line[2] \in Seq(Nat)
  <2> HIDE DEF low
  <2>1. line \in Seq(Seq(Nat))
    BY <1>1, <1>5 DEF Hsurc
  <2>2. Len(line) = 2
    BY <1>3 DEF badLine
  <2> QED
    BY <2>1, <2>2
<1>8. parseUint32Fast(line[2]).n \in Nat
  <2> HIDE DEF line
  <2> QED
    BY <1>3, <1>7, FieldRead
<1>9. found.n \in 0..useridEnd
  <2>1. useridEnd \in Int
    BY LaunchAssumption DEF useridEnd
  <2> HIDE DEF line, found
  <2> QED
    BY <1>3, <1>8, <2>1
<1> HIDE DEF low
<1> QED
  BY <1>3, <1>5, <1>6, <1>9

\* The range of a userid does not wrap, and hsu and hst place an identity in it alike.
LEMMA InRange ==
    ASSUME NEW id \in 0..useridEnd, NEW appid \in 0..identityEnd
    PROVE  /\ toUser(id, appid) = ToUser(id, appid)
           /\ toUser(id, appid) - id * userOffset - appStart = appid
<1>1. RangeSize \in Nat /\ Spread \in Nat /\ Word \in Nat /\ RangeSize # 0 /\ Word # 0
  BY LaunchAssumption
<1>2. userOffset \in Nat /\ appStart \in Nat /\ useridEnd \in Nat /\ identityEnd \in Nat
  <2>1. RangeSize * Spread \in Nat
    BY <1>1
  <2> QED
    BY <1>1, <2>1 DEF userOffset, appStart, useridEnd, identityEnd
<1>3. id \in Nat /\ appid \in Nat /\ useridEnd - id \in Nat
  BY <1>2
<1>4. id * userOffset <= useridEnd * userOffset
  <2>1. \A x, y, z \in Nat : (x + y) * z = x * z + y * z
    OBVIOUS
  <2>2. \A x, y \in Nat : x * y \in Nat
    OBVIOUS
  <2>3. useridEnd = id + (useridEnd - id)
    BY <1>2, <1>3
  <2>4. useridEnd * userOffset = id * userOffset + (useridEnd - id) * userOffset
    BY <1>2, <1>3, <2>1, <2>3
  <2>5. (useridEnd - id) * userOffset \in Nat /\ id * userOffset \in Nat
    BY <1>2, <1>3, <2>2
  <2> QED
    BY <2>4, <2>5
<1> DEFINE base == id * userOffset
           top  == useridEnd * userOffset
           u    == base + appStart + appid
<1>5. base \in Nat /\ top \in Nat /\ base <= top
  BY <1>2, <1>3, <1>4
<1>6. top + appStart + identityEnd < Word
  BY NumbersAssumption DEF uidEnd
<1> HIDE DEF base, top
<1>7. u \in 0..(Word - 1)
  BY <1>1, <1>2, <1>3, <1>5, <1>6
<1>8. u % Word = u
  <2> HIDE DEF u
  <2> QED
    BY <1>1, <1>7
<1>9. toUser(id, appid) = u % Word /\ ToUser(id, appid) = u
  BY DEF toUser, ToUser, base
<1>10. u - base - appStart = appid
  BY <1>2, <1>3, <1>5
<1> QED
  BY <1>8, <1>9, <1>10 DEF base

\* The quotients of a number: each is the one before it divided by the radix.
LEMMA Quotients ==
    ASSUME NEW i \in Nat
    PROVE  /\ quotients(i) \in [0..MaxLen -> Nat] /\ quotients(i)[0] = i
           /\ \A j \in 1..MaxLen : quotients(i)[j] = quotients(i)[j - 1] \div Radix
<1> DEFINE Quotient(x) == x \div Radix
           Divided(g) == [j \in 0..MaxLen |-> IF j = 0 THEN i ELSE Quotient(g[j - 1])]
           q == CHOOSE g : g = Divided(g)
           step == [p \in (1..MaxLen) \X Nat |-> Quotient(p[2])]
<1>1. Radix \in Nat /\ Radix > 1 /\ MaxLen \in Nat
  BY LaunchAssumption
<1>2. ASSUME NEW x \in Nat PROVE Quotient(x) \in Nat
  BY <1>1
<1>3. quotients(i) = q
  BY DEF quotients
<1> HIDE DEF Quotient
<1>4. step \in Steps(MaxLen, Nat)
  BY <1>2 DEF Steps
<1>5. PICK g : Solution(MaxLen, Nat, i, step, g)
  <2> HIDE DEF step
  <2> QED
    BY <1>1, <1>4, Recursion
<1>6. g = Divided(g)
  <2>1. ASSUME NEW j \in 1..MaxLen PROVE g[j] = Quotient(g[j - 1])
    <3>1. j - 1 \in 0..MaxLen /\ g[j - 1] \in Nat
      BY <1>1, <1>5 DEF Solution
    <3> QED
      BY <1>5, <3>1 DEF Solution
  <2> QED
    BY <1>1, <1>5, <2>1 DEF Solution
<1>7. q = Divided(q)
  <2> HIDE DEF Divided
  <2> QED
    BY <1>6
<1> HIDE DEF q
<1>8. q[0] = i /\ \A j \in 1..MaxLen : q[j] = Quotient(q[j - 1])
  BY <1>1, <1>7
<1>9. q \in [0..MaxLen -> Nat]
  <2> DEFINE P == [j \in 0..MaxLen |-> q[j] \in Nat]
  <2>1. P[0]
    <3>1. 0 \in 0..MaxLen /\ q[0] \in Nat
      BY <1>1, <1>8
    <3> QED
      BY <3>1
  <2>2. ASSUME NEW j \in 1..MaxLen, P[j - 1] PROVE P[j]
    <3>1. j - 1 \in 0..MaxLen /\ j \in 0..MaxLen
      BY <1>1
    <3>2. q[j - 1] \in Nat
      BY <2>2, <3>1
    <3>3. q[j] \in Nat
      BY <1>2, <1>8, <3>2
    <3> QED
      BY <3>1, <3>3
  <2>3. P \in [0..MaxLen -> BOOLEAN]
    OBVIOUS
  <2>4. \A j \in 0..MaxLen : P[j]
    <3> HIDE DEF P
    <3> QED
      BY <1>1, <2>1, <2>2, <2>3, Climb
  <2> QED
    BY <1>7, <2>4
<1> QED
  BY <1>3, <1>8, <1>9 DEF Quotient

\* An identity that is written out is read back, whatever the radix.
LEMMA WrittenRead ==
    ASSUME NEW i \in 0..identityEnd
    PROVE  parseUint32Fast(Itoa(i)) = [ok |-> TRUE, n |-> i]
<1> DEFINE q == quotients(i)
           zeros == {j \in 1..MaxLen : q[j] = 0}
           First(m) == q[m] = 0 /\ \A j \in 1..(m - 1) : q[j] # 0
           l == CHOOSE m \in 1..MaxLen : First(m)
           Rest(x) == x % Radix
           s == [k \in 1..l |-> Rest(q[l - k])]
<1>1. /\ Radix \in Nat /\ Radix > 1 /\ MaxLen \in Nat /\ MaxLen > 1
      /\ Word \in Nat /\ Word > 1 /\ identityEnd \in Nat /\ i \in Nat
  BY LaunchAssumption DEF identityEnd
<1>2. /\ q \in [0..MaxLen -> Nat] /\ q[0] = i
      /\ \A j \in 1..MaxLen : q[j] = q[j - 1] \div Radix
  BY <1>1, Quotients
<1>3. q[MaxLen] = 0
  BY NumbersAssumption
<1>4. Itoa(i) = s
  BY DEF Itoa
<1>5. ASSUME NEW x \in Nat
      PROVE  Rest(x) \in Nat /\ ~(Rest(x) >= Radix) /\ (x \div Radix) * Radix + Rest(x) = x
  BY <1>1
<1> HIDE DEF q, Rest
<1>6. l \in 1..MaxLen /\ First(l)
  <2>1. zeros \in SUBSET Nat /\ MaxLen \in zeros
    BY <1>1, <1>3
  <2>2. PICK m \in zeros : \A j \in zeros : m <= j
    <3> HIDE DEF zeros
    <3> QED
      BY <2>1, Smallest
  <2>3. m \in 1..MaxLen /\ First(m)
    BY <1>1, <2>2
  <2> HIDE DEF First
  <2> QED
    BY <2>3
<1> HIDE DEF l
<1>7. l \in Nat /\ \A k \in 0..l : l - k \in 0..MaxLen /\ q[l - k] \in Nat
  BY <1>1, <1>2, <1>6
<1>8. /\ s \in Seq(Nat) /\ Len(s) = l /\ DOMAIN s = 1..l
      /\ \A k \in 1..l : s[k] = Rest(q[l - k])
  <2>1. \A k \in 1..l : Rest(q[l - k]) \in Nat
    BY <1>5, <1>7
  <2>2. s \in [1..l -> Nat] /\ DOMAIN s = 1..l /\ \A k \in 1..l : s[k] = Rest(q[l - k])
    BY <2>1
  <2> HIDE DEF s
  <2> QED
    BY <1>7, <2>2
<1> HIDE DEF s
<1>9. /\ parseUint32Fast(s).ok
      /\ parseUint32Fast(s) = [ok |-> TRUE, n |-> parseUint32Fast(s).n]
  <2>1. Len(s) \in 1..MaxLen
    BY <1>6, <1>8
  <2>2. ASSUME NEW k \in 1..l PROVE ~(s[k] >= Radix)
    <3>1. k \in 0..l
      BY <1>7
    <3> QED
      BY <1>5, <1>7, <1>8, <3>1
  <2> QED
    BY <1>8, <2>1, <2>2 DEF parseUint32Fast, Err
<1>10. PICK v \in [0..l -> Nat] :
          /\ v[0] = 0 /\ \A k \in 1..l : v[k] = v[k - 1] * Radix + s[k]
          /\ Value(s) = v[l]
  BY <1>8, ValuePrefixes
<1> DEFINE P == [k \in 0..l |-> v[k] = q[l - k]]
<1>11. P[0]
  <2>1. 0 \in 0..l /\ l - 0 = l /\ q[l] = 0
    BY <1>6, <1>7
  <2> QED
    BY <1>10, <2>1
<1>12. ASSUME NEW k \in 1..l, P[k - 1] PROVE P[k]
  <2> DEFINE x == q[l - k]
  <2>1. /\ k - 1 \in 0..l /\ k \in 0..l /\ l - (k - 1) \in 1..MaxLen
        /\ (l - (k - 1)) - 1 = l - k
    BY <1>1, <1>6, <1>7
  <2>2. x \in Nat
    BY <1>7, <2>1
  <2>3. q[l - (k - 1)] = x \div Radix
    BY <1>2, <2>1
  <2>4. v[k - 1] = x \div Radix
    BY <1>12, <2>1, <2>3
  <2>5. v[k] = (x \div Radix) * Radix + Rest(x)
    BY <1>8, <1>10, <2>4
  <2>6. v[k] = x
    <3> HIDE DEF x
    <3> QED
      BY <1>5, <2>2, <2>5
  <2> QED
    BY <2>1, <2>6
<1>13. P \in [0..l -> BOOLEAN]
  OBVIOUS
<1>14. \A k \in 0..l : P[k]
  <2> HIDE DEF P
  <2> QED
    BY <1>7, <1>11, <1>12, <1>13, Climb
<1>15. Value(s) = i
  <2>1. l \in 0..l /\ l - l = 0
    BY <1>7
  <2>2. v[l] = q[l - l]
    BY <1>14, <2>1
  <2> QED
    BY <1>2, <1>10, <2>1, <2>2
<1>16. i < Word
  <2>1. identityEnd <= uidEnd /\ uidEnd \in Nat
    <3>1. {useridEnd, userOffset, appStart} \subseteq Nat
      BY LaunchAssumption DEF useridEnd, userOffset, appStart
    <3>2. useridEnd * userOffset \in Nat
      BY <3>1
    <3> QED
      BY <1>1, <3>1, <3>2 DEF uidEnd
  <2> QED
    BY <1>1, <2>1, NumbersAssumption
<1> QED
  BY <1>4, <1>8, <1>9, <1>15, <1>16, FieldRead

\* An identity that has been validated is passed on as it is.
LEMMA IdentityRead ==
    ASSUME NEW i \in 0..identityEnd
    PROVE  mustReadIdentity(Itoa(i)) = [ok |-> TRUE, n |-> i]
<1>1. parseUint32Fast(Itoa(i)) = [ok |-> TRUE, n |-> i]
  BY WrittenRead
<1>2. identityEnd \in Int /\ i <= identityEnd
  BY LaunchAssumption DEF identityEnd
<1> QED
  BY <1>1, <1>2 DEF mustReadIdentity

-----------------------------------------------------------------------------
(***************************************************************************)
(* hsu                                                                     *)
(***************************************************************************)
\* Where hsu is past a step of it.
PastNnp       == {"exec", "shim"}
PastSetuid    == {"nnp"} \cup PastNnp
PastSetgroups == {"setuid"} \cup PastSetuid
PastSetgid    == {"setgroups"} \cup PastSetgroups
PastGroups    == {"setgid"} \cup PastSetgid
PastIdentity  == {"groups"} \cup PastGroups
Becoming      == {"identity"} \cup PastIdentity

identity == mustReadIdentity(Itoa(req.identity))

Shaped ==
    /\ hsu = [pc |-> hsu.pc, userid |-> hsu.userid, uid |-> hsu.uid, read |-> hsu.read]
    /\ cred = [euid |-> cred.euid, gid |-> cred.gid, groups |-> cred.groups, nnp |-> cred.nnp]
    /\ hsurc \in Hsurc

\* hakurei has validated the identity, and planned for the user hsu told it.
Planned ==
    /\ pc \in {"id", "querying", "toSystem", "started"} => req.identity \in 0..identityEnd
    /\ pc \in {"toSystem", "started"} =>
          /\ uid = ToUser(userid, req.identity)
          /\ ~edited => userid = parseConfig(hsurc, req.user.uid).n

\* hsu goes by what it has read, becomes a user only for outcome.start, and sets one credential after the other.
Read ==
    /\ hsu.pc \in Becoming => pc = "started"
    /\ hsu.pc \in {"printed"} \cup Becoming =>
          /\ hsu.read \in Hsurc
          /\ parseConfig(hsu.read, req.user.uid).ok
          /\ hsu.userid = parseConfig(hsu.read, req.user.uid).n
          /\ ~edited => hsu.read = hsurc

Became ==
    /\ hsu.pc \in PastIdentity => hsu.uid = toUser(hsu.userid, identity.n)
    /\ hsu.pc \in PastGroups =>
          \A g \in ToSet(req.groups) : groupAllowed(g, hsu.uid, req.user)
    /\ hsu.pc \in PastSetgid => cred.gid = hsu.uid
    /\ hsu.pc \in PastSetgroups => cred.groups = ToSet(req.groups) \cup {hsu.uid}
    /\ hsu.pc \in PastSetuid => cred.euid = hsu.uid
    /\ hsu.pc \in PastNnp => cred.nnp = TRUE

LaunchInv == Request(req) /\ Shaped /\ Planned /\ Read /\ Became

\* hakurei goes on, before it has started hsu for the shim, and hsu waits for it.
LEMMA HakureiStep ==
    ASSUME LaunchInv, Command \/ Passwd \/ Finalise \/ PopulateLocal \/ RunOp
    PROVE  LaunchInv'
<1> USE DEF LaunchInv
<1>1. /\ UNCHANGED << req, hsurc, edited, hsu, cred >> /\ pc # "started" /\ pc' # "started"
  BY DEF Command, Passwd, Finalise, PopulateLocal, RunOp, Step, Fatal, Local
<1>2. Request(req)' /\ Shaped'
  BY <1>1 DEF Request, Shaped
<1>3. Read' /\ Became'
  <2>1. hsu.pc \notin Becoming
    BY <1>1 DEF Read
  <2>2. Read'
    BY <1>1, <2>1 DEF Read
  <2>3. Became'
    BY <1>1, <2>1 DEF Became, Becoming, PastIdentity, PastGroups, PastSetgid, PastSetgroups,
        PastSetuid, PastNnp
  <2> QED
    BY <2>2, <2>3
<1>4. Planned'
  <2>1. CASE Command \/ Passwd
    <3>1. pc' \notin {"id", "querying", "toSystem", "started"}
      BY <2>1 DEF Command, Passwd, Step, Fatal
    <3> QED
      BY <3>1 DEF Planned
  <2>2. CASE Finalise
    <3>1. pc' \in {"id", "exited"} /\ (pc' = "id" => req.identity \in 0..identityEnd)
      BY <2>2 DEF Finalise, Step, Fatal, Validate
    <3> QED
      BY <1>1, <3>1 DEF Planned
  <2>3. CASE PopulateLocal
    <3>1. CASE hsu.pc = "printed"
      <4>1. /\ pc = "querying" /\ pc' = "toSystem" /\ userid' = hsu.userid
            /\ uid' = ToUser(hsu.userid, req.identity)
        BY <2>3, <3>1 DEF PopulateLocal, Step
      <4>2. ~edited => hsu.userid = parseConfig(hsurc, req.user.uid).n
        BY <3>1 DEF Read
      <4> QED
        BY <1>1, <4>1, <4>2 DEF Planned
    <3>2. CASE hsu.pc # "printed"
      BY <2>3, <3>2 DEF PopulateLocal, Step, Fatal, Planned
    <3> QED
      BY <3>1, <3>2
  <2>4. CASE RunOp
    BY <1>1, <2>4 DEF RunOp, Planned
  <2> QED
    BY <2>1, <2>2, <2>3, <2>4
<1> QED
  BY <1>2, <1>3, <1>4

\* hsu is run anew, with the credentials of its caller.
LEMMA RunHsuStep ==
    ASSUME LaunchInv, QueryID \/ QueryPasswd \/ Start
    PROVE  LaunchInv'
<1> USE DEF LaunchInv
<1>1. /\ UNCHANGED << req, hsurc, edited, userid, uid >>
      /\ << pc, pc' >> \in {<< "id", "querying" >>, << "passwd", "lookup" >>,
                            << "toSystem", "started" >>}
      /\ hsu' = [NoHsu EXCEPT !.pc = "check"] /\ cred' = NewCred(req)
  BY DEF QueryID, QueryPasswd, Start, RunHsu, Local
<1>2. Request(req)' /\ Shaped'
  BY <1>1 DEF Request, Shaped, NoHsu, NewCred
<1>3. Planned'
  BY <1>1 DEF Planned
<1>4. hsu'.pc = "check"
  BY <1>1 DEF NoHsu
<1>5. Read' /\ Became'
  BY <1>4 DEF Read, Became, Becoming, PastIdentity, PastGroups, PastSetgid, PastSetgroups,
      PastSetuid, PastNnp
<1> QED
  BY <1>2, <1>3, <1>5

\* The administrator replaces hsurc.
LEMMA EditStep ==
    ASSUME LaunchInv, EditHsurc
    PROVE  LaunchInv'
<1>1. /\ UNCHANGED << req, pc, userid, uid, hsu, cred >> /\ edited' = TRUE /\ hsurc' \in Hsurc
  BY LaunchAssumption DEF EditHsurc
<1> QED
  BY <1>1 DEF LaunchInv, Request, Shaped, Planned, Read, Became, identity

\* hsu dies.
LEMMA DieStep ==
    ASSUME LaunchInv, Die, UNCHANGED << req, hsurc, edited, pc, userid, uid >>,
           cred' = [euid |-> cred'.euid, gid |-> cred'.gid, groups |-> cred'.groups, nnp |-> cred'.nnp]
    PROVE  LaunchInv'
<1>1. hsu' = [hsu EXCEPT !.pc = "dead"]
  BY DEF Die
<1>2. hsu' = [pc |-> "dead", userid |-> hsu.userid, uid |-> hsu.uid, read |-> hsu.read]
  BY <1>1 DEF LaunchInv, Shaped
<1>3. Request(req)' /\ Shaped' /\ Planned'
  BY <1>2 DEF LaunchInv, Request, Shaped, Planned
<1>4. Read' /\ Became'
  BY <1>2 DEF Read, Became, Becoming, PastIdentity, PastGroups, PastSetgid, PastSetgroups,
      PastSetuid, PastNnp
<1> QED
  BY <1>3, <1>4 DEF LaunchInv

\* hsu goes on from one step to the next, which is what the step has to establish.
LEMMA GoOn ==
    ASSUME LaunchInv, NEW to, UNCHANGED << req, hsurc, edited, pc, userid, uid >>,
           hsu' = [hsu EXCEPT !.pc = to],
           cred' = [euid |-> cred'.euid, gid |-> cred'.gid, groups |-> cred'.groups, nnp |-> cred'.nnp],
           to = "parse" \/ (hsu.pc \in Becoming /\ to \in Becoming),
           to = "parse" \/ Became'
    PROVE  LaunchInv'
<1>1. hsu' = [pc |-> to, userid |-> hsu.userid, uid |-> hsu.uid, read |-> hsu.read]
  BY DEF LaunchInv, Shaped
<1>2. Request(req)' /\ Shaped' /\ Planned'
  BY <1>1 DEF LaunchInv, Request, Shaped, Planned
<1>3. CASE to = "parse"
  <2>1. Read' /\ Became'
    BY <1>1, <1>3 DEF Read, Became, Becoming, PastIdentity, PastGroups, PastSetgid,
        PastSetgroups, PastSetuid, PastNnp
  <2> QED
    BY <1>2, <2>1 DEF LaunchInv
<1>4. CASE to # "parse"
  <2>1. Read'
    BY <1>1, <1>4 DEF LaunchInv, Read
  <2> QED
    BY <1>2, <1>4, <2>1 DEF LaunchInv
<1> QED
  BY <1>3, <1>4

\* hsu reads hsurc, and the identity it is to become.
LEMMA ReadStep ==
    ASSUME LaunchInv, HsuParse \/ HsuIdentity
    PROVE  LaunchInv'
<1> USE DEF LaunchInv
<1>1. UNCHANGED << req, hsurc, edited, pc, userid, uid, cred >>
  BY DEF HsuParse, HsuIdentity, Local
<1>2. Request(req)' /\ Planned'
  BY <1>1 DEF Request, Planned
<1>3. CASE HsuParse
  <2> DEFINE found == parseConfig(hsurc, req.user.uid)
  <2>1. PICK to : /\ hsu' = [hsu EXCEPT !.pc = to, !.userid = found.n, !.read = hsurc]
                  /\ to \in {"dead", "printed", "identity"}
                  /\ to # "dead" => found.ok
                  /\ to = "identity" => pc = "started"
    <3> DEFINE to == CASE ~found.ok                   -> "dead"
                       [] found.ok /\ pc # "started" -> "printed"
                       [] OTHER                      -> "identity"
    <3>1. hsu' = [hsu EXCEPT !.pc = to, !.userid = found.n, !.read = hsurc]
      BY <1>3 DEF HsuParse
    <3>2. /\ to \in {"dead", "printed", "identity"}
          /\ to # "dead" => found.ok
          /\ to = "identity" => pc = "started"
      <4> HIDE DEF found
      <4> QED
        OBVIOUS
    <3> HIDE DEF to
    <3> QED
      BY <3>1, <3>2
  <2>2. hsu' = [pc |-> to, userid |-> found.n, uid |-> hsu.uid, read |-> hsurc]
    BY <2>1 DEF Shaped
  <2>3. Shaped'
    BY <1>1, <2>2 DEF Shaped
  <2>4. Read'
    BY <1>1, <2>1, <2>2 DEF Read, Shaped, Becoming, PastIdentity, PastGroups, PastSetgid,
        PastSetgroups, PastSetuid, PastNnp
  <2>5. Became'
    BY <2>1, <2>2 DEF Became, PastIdentity, PastGroups, PastSetgid, PastSetgroups,
        PastSetuid, PastNnp
  <2> QED
    BY <1>2, <2>3, <2>4, <2>5
<1>4. CASE HsuIdentity
  <2>1. PICK to : /\ hsu' = [hsu EXCEPT !.pc = to, !.uid = toUser(hsu.userid, identity.n)]
                  /\ to \in {"groups", "dead"}
    <3> DEFINE u  == toUser(hsu.userid, identity.n)
               to == IF shimSetupFd \in 3..9 /\ identity.ok /\ u >= uidStart /\ u < uidEnd
                     THEN "groups" ELSE "dead"
    <3>1. hsu' = [hsu EXCEPT !.pc = to, !.uid = u]
      BY <1>4 DEF HsuIdentity, identity
    <3>2. to \in {"groups", "dead"}
      OBVIOUS
    <3> HIDE DEF to
    <3> QED
      BY <3>1, <3>2
  <2>2. hsu' = [pc |-> to, userid |-> hsu.userid, uid |-> toUser(hsu.userid, identity.n),
                read |-> hsu.read]
    BY <2>1 DEF Shaped
  <2>3. hsu.pc = "identity"
    BY <1>4 DEF HsuIdentity
  <2>4. Shaped'
    BY <1>1, <2>2 DEF Shaped
  <2>5. Read'
    BY <1>1, <2>1, <2>2, <2>3 DEF Read, Becoming, PastIdentity, PastGroups, PastSetgid,
        PastSetgroups, PastSetuid, PastNnp
  <2>6. identity' = identity
    BY <1>1 DEF identity
  <2>7. Became'
    BY <2>1, <2>2, <2>6 DEF Became, PastIdentity, PastGroups, PastSetgid, PastSetgroups,
        PastSetuid, PastNnp
  <2> QED
    BY <1>2, <2>4, <2>5, <2>7
<1> QED
  BY <1>3, <1>4

\* hsu checks its installation and the groups, sets its credentials and runs the shim.
LEMMA CredStep ==
    ASSUME LaunchInv,
           \/ HsuCheck \/ HsuGroups \/ SetResGid \/ SetGroups \/ SetResUid
           \/ NoNewPrivs \/ ExecShim \/ HsuSyscallFails
    PROVE  LaunchInv'
<1> USE DEF PastNnp, PastSetuid, PastSetgroups, PastSetgid, PastGroups, PastIdentity, Becoming
<1>1. UNCHANGED << req, hsurc, edited, pc, userid, uid >>
  BY DEF HsuCheck, HsuGroups, SetResGid, SetGroups, SetResUid, NoNewPrivs, ExecShim,
      HsuSyscallFails, HsuStep, Local
<1>2. cred' = [euid |-> cred'.euid, gid |-> cred'.gid, groups |-> cred'.groups,
               nnp |-> cred'.nnp]
  <2>1. cred = [euid |-> cred.euid, gid |-> cred.gid, groups |-> cred.groups, nnp |-> cred.nnp]
    BY DEF LaunchInv, Shaped
  <2>2. \/ cred' = cred
        \/ cred' = [cred EXCEPT !.gid = hsu.uid]
        \/ cred' = [cred EXCEPT !.groups = ToSet(req.groups) \cup {hsu.uid}]
        \/ cred' = [cred EXCEPT !.euid = hsu.uid]
        \/ cred' = [cred EXCEPT !.nnp = TRUE]
    BY DEF HsuCheck, HsuGroups, SetResGid, SetGroups, SetResUid, NoNewPrivs, ExecShim,
        HsuSyscallFails
  <2> QED
    BY <2>1, <2>2
<1>3. CASE Die
  BY <1>1, <1>2, <1>3, DieStep
<1>4. identity' = identity
  BY <1>1 DEF identity
<1>5. ASSUME NEW to, hsu' = [hsu EXCEPT !.pc = to]
      PROVE  hsu'.pc = to /\ hsu'.userid = hsu.userid /\ hsu'.uid = hsu.uid
  BY <1>5 DEF LaunchInv, Shaped
<1>6. CASE HsuCheck
  <2>1. Die \/ hsu' = [hsu EXCEPT !.pc = "parse"]
    BY <1>6 DEF HsuCheck, HsuStep
  <2> QED
    BY <1>1, <1>2, <1>3, <2>1, GoOn
<1>7. CASE HsuGroups
  <2>1. \/ Die
        \/ /\ hsu.pc = "groups" /\ hsu' = [hsu EXCEPT !.pc = "setgid"] /\ cred' = cred
           /\ \A g \in ToSet(req.groups) : groupAllowed(g, hsu.uid, req.user)
    BY <1>7 DEF HsuGroups, HsuStep
  <2>2. ASSUME hsu.pc = "groups", hsu' = [hsu EXCEPT !.pc = "setgid"], cred' = cred,
               \A g \in ToSet(req.groups) : groupAllowed(g, hsu.uid, req.user)
        PROVE  Became'
    BY <1>1, <1>4, <1>5, <2>2 DEF LaunchInv, Became
  <2> QED
    BY <1>1, <1>2, <1>3, <2>1, <2>2, GoOn
<1>8. CASE SetResGid
  <2>1. \/ Die
        \/ /\ hsu.pc = "setgid" /\ hsu' = [hsu EXCEPT !.pc = "setgroups"]
           /\ cred' = [cred EXCEPT !.gid = hsu.uid]
    BY <1>8 DEF SetResGid, HsuStep
  <2>2. ASSUME hsu.pc = "setgid", hsu' = [hsu EXCEPT !.pc = "setgroups"],
               cred' = [cred EXCEPT !.gid = hsu.uid]
        PROVE  Became'
    <3>1. cred'.gid = hsu.uid
      BY <2>2 DEF LaunchInv, Shaped
    <3> QED
      BY <1>1, <1>4, <1>5, <2>2, <3>1 DEF LaunchInv, Became
  <2> QED
    BY <1>1, <1>2, <1>3, <2>1, <2>2, GoOn
<1>9. CASE SetGroups
  <2>1. \/ Die
        \/ /\ hsu.pc = "setgroups" /\ hsu' = [hsu EXCEPT !.pc = "setuid"]
           /\ cred' = [cred EXCEPT !.groups = ToSet(req.groups) \cup {hsu.uid}]
    BY <1>9 DEF SetGroups, HsuStep
  <2>2. ASSUME hsu.pc = "setgroups", hsu' = [hsu EXCEPT !.pc = "setuid"],
               cred' = [cred EXCEPT !.groups = ToSet(req.groups) \cup {hsu.uid}]
        PROVE  Became'
    <3>1. cred'.groups = ToSet(req.groups) \cup {hsu.uid} /\ cred'.gid = cred.gid
      BY <2>2 DEF LaunchInv, Shaped
    <3> QED
      BY <1>1, <1>4, <1>5, <2>2, <3>1 DEF LaunchInv, Became
  <2> QED
    BY <1>1, <1>2, <1>3, <2>1, <2>2, GoOn
<1>10. CASE SetResUid
  <2>1. \/ Die
        \/ /\ hsu.pc = "setuid" /\ hsu' = [hsu EXCEPT !.pc = "nnp"]
           /\ cred' = [cred EXCEPT !.euid = hsu.uid]
    BY <1>10 DEF SetResUid, HsuStep
  <2>2. ASSUME hsu.pc = "setuid", hsu' = [hsu EXCEPT !.pc = "nnp"],
               cred' = [cred EXCEPT !.euid = hsu.uid]
        PROVE  Became'
    <3>1. cred'.euid = hsu.uid /\ cred'.gid = cred.gid /\ cred'.groups = cred.groups
      BY <2>2 DEF LaunchInv, Shaped
    <3> QED
      BY <1>1, <1>4, <1>5, <2>2, <3>1 DEF LaunchInv, Became
  <2> QED
    BY <1>1, <1>2, <1>3, <2>1, <2>2, GoOn
<1>11. CASE NoNewPrivs \/ ExecShim
  <2>1. PICK to : /\ hsu' = [hsu EXCEPT !.pc = to]
                  /\ << hsu.pc, to >> \in {<< "nnp", "exec" >>, << "exec", "shim" >>}
                  /\ hsu.pc = "nnp" => cred' = [cred EXCEPT !.nnp = TRUE]
                  /\ hsu.pc = "exec" => cred' = cred
    BY <1>11 DEF NoNewPrivs, ExecShim, HsuStep
  <2>2. /\ cred'.euid = cred.euid /\ cred'.gid = cred.gid /\ cred'.groups = cred.groups
        /\ cred'.nnp = TRUE
    BY <2>1 DEF LaunchInv, Shaped, Became
  <2>3. Became'
    BY <1>1, <1>4, <1>5, <2>1, <2>2 DEF LaunchInv, Became
  <2> QED
    BY <1>1, <1>2, <2>1, <2>3, GoOn
<1> QED
  BY <1>3, <1>6, <1>7, <1>8, <1>9, <1>10, <1>11 DEF HsuSyscallFails

\* Every step keeps the invariant.
LEMMA LaunchStep ==
    ASSUME LaunchInv, [Next]_vars
    PROVE  LaunchInv'
<1>1. CASE UNCHANGED vars
  BY <1>1 DEF vars, LaunchInv, Request, Shaped, Planned, Read, Became, identity
<1> QED
  BY <1>1, HakureiStep, RunHsuStep, EditStep, ReadStep, CredStep DEF Next, HsuMain

\* Every launch has it from the start.
LEMMA LaunchSafe == LaunchSpec => []LaunchInv
<1>1. AnyLaunch => LaunchInv
  <2> SUFFICES ASSUME AnyLaunch PROVE LaunchInv
    OBVIOUS
  <2>1. /\ Request(req) /\ hsurc \in Hsurc /\ pc = "command" /\ hsu = NoHsu
        /\ cred = NewCred(req)
    BY DEF AnyLaunch, InitWith
  <2> QED
    BY <2>1 DEF LaunchInv, Shaped, Planned, Read, Became, NoHsu, NewCred, PastNnp, PastSetuid,
        PastSetgroups, PastSetgid, PastGroups, PastIdentity, Becoming
<1> QED
  BY <1>1, LaunchStep, PTL DEF LaunchSpec

-----------------------------------------------------------------------------
(***************************************************************************)
(* The user the monitor has planned for is the one hsu becomes, for every  *)
(* hsurc that is left alone: both take the same line of it, and both place *)
(* the identity in the range of the userid alike.                          *)
(***************************************************************************)
THEOREM UidAlwaysAgrees == LaunchSpec => []UidAgrees
<1>1. LaunchInv => UidAgrees
  <2> SUFFICES ASSUME LaunchInv, hsu.pc = "shim", ~edited
               PROVE  cred.euid = uid /\ hsu.userid = userid
    BY DEF UidAgrees
  <2> USE DEF PastNnp, PastSetuid, PastSetgroups, PastSetgid, PastGroups, PastIdentity, Becoming
  <2>1. /\ pc = "started" /\ hsu.read = hsurc /\ hsurc \in Hsurc
        /\ parseConfig(hsurc, req.user.uid).ok
        /\ hsu.userid = parseConfig(hsurc, req.user.uid).n
    BY DEF LaunchInv, Read
  <2>2. /\ req.identity \in 0..identityEnd /\ userid = hsu.userid
        /\ uid = ToUser(userid, req.identity)
    BY <2>1 DEF LaunchInv, Planned
  <2>3. cred.euid = toUser(hsu.userid, identity.n)
    BY DEF LaunchInv, Became
  <2>4. identity.n = req.identity
    BY <2>2, IdentityRead DEF identity
  <2>5. hsu.userid \in 0..useridEnd
    BY <2>1, FirstLine DEF LaunchInv, Request
  <2>6. toUser(hsu.userid, req.identity) = ToUser(hsu.userid, req.identity)
    BY <2>2, <2>5, InRange
  <2> QED
    BY <2>2, <2>3, <2>4, <2>6
<1> QED
  BY <1>1, LaunchSafe, PTL

(***************************************************************************)
(* hsu becomes only a user of the range that the first line of hsurc for   *)
(* the caller names, with no groups but its own and those asked for, which *)
(* the caller has: for every hsurc, the ones it cannot make sense of       *)
(* included, whatever is replaced while hakurei runs.                      *)
(***************************************************************************)
THEOREM HsuAlwaysConfined == LaunchSpec => []HsuConfined
<1>1. LaunchInv => HsuConfined
  <2> SUFFICES ASSUME LaunchInv, hsu.pc = "shim" PROVE HsuConfined
    BY DEF HsuConfined
  <2> DEFINE id == hsu.userid
             u  == cred.euid
  <2>1. /\ pc = "started" /\ hsu.read \in Hsurc /\ parseConfig(hsu.read, req.user.uid).ok
        /\ id = parseConfig(hsu.read, req.user.uid).n
    BY DEF LaunchInv, Read, PastNnp, PastSetuid, PastSetgroups, PastSetgid, PastGroups,
        PastIdentity, Becoming
  <2>2. /\ u = toUser(id, identity.n) /\ u = hsu.uid /\ cred.gid = u /\ cred.nnp = TRUE
        /\ cred.groups = ToSet(req.groups) \cup {u}
        /\ \A g \in ToSet(req.groups) : groupAllowed(g, hsu.uid, req.user)
    BY DEF LaunchInv, Became, PastNnp, PastSetuid, PastSetgroups, PastSetgid, PastGroups,
        PastIdentity
  <2>3. ToSet(req.groups) \subseteq req.user.groups \ {0, req.user.gid}
    BY <2>2 DEF groupAllowed
  <2>4. req.identity \in 0..identityEnd /\ identity.n = req.identity
    BY <2>1, IdentityRead DEF LaunchInv, Planned, identity
  <2>5. req.user.uid \in Nat
    BY DEF LaunchInv, Request
  <2>6. PICK k \in DOMAIN hsu.read :
          /\ ~badLine(hsu.read[k]) /\ parseUint32Fast(hsu.read[k][1]).n = req.user.uid
          /\ parseUint32Fast(hsu.read[k][2]).ok
          /\ id = parseUint32Fast(hsu.read[k][2]).n
          /\ \A j \in 1..(k - 1) : /\ ~badLine(hsu.read[j])
                                   /\ parseUint32Fast(hsu.read[j][1]).n # req.user.uid
    BY <2>1, <2>5, FirstLine
  <2>7. id \in 0..useridEnd
    BY <2>1, <2>5, FirstLine
  <2>8. u - id * userOffset - appStart \in 0..identityEnd
    BY <2>2, <2>4, <2>7, InRange
  <2>9. ASSUME WellFormed(hsu.read)
        PROVE  /\ Value(hsu.read[k][1]) = req.user.uid
               /\ Value(hsu.read[k][2]) = id
               /\ \A j \in 1..(k - 1) : Value(hsu.read[j][1]) # req.user.uid
    <3>1. ASSUME NEW j \in DOMAIN hsu.read, NEW f \in 1..2,
                 parseUint32Fast(hsu.read[j][f]).ok
          PROVE  parseUint32Fast(hsu.read[j][f]).n = Value(hsu.read[j][f])
      <4>1. Len(hsu.read[j]) = 2 /\ Value(hsu.read[j][f]) < Word
        BY <2>9 DEF WellFormed
      <4>2. hsu.read[j] \in Seq(Seq(Nat))
        BY <2>1 DEF Hsurc
      <4>3. hsu.read[j][f] \in Seq(Nat)
        BY <4>1, <4>2
      <4> QED
        BY <3>1, <4>1, <4>3, FieldRead
    <3>2. \A j \in 1..(k - 1) : j \in DOMAIN hsu.read
      BY <2>1 DEF Hsurc
    <3>3. 1 \in 1..2 /\ 2 \in 1..2
      OBVIOUS
    <3>4. Value(hsu.read[k][1]) = req.user.uid
      BY <2>6, <3>1, <3>3 DEF badLine
    <3>5. Value(hsu.read[k][2]) = id
      BY <2>6, <3>1, <3>3
    <3>6. ASSUME NEW j \in 1..(k - 1) PROVE Value(hsu.read[j][1]) # req.user.uid
      BY <2>6, <3>1, <3>2, <3>3 DEF badLine
    <3> QED
      BY <3>4, <3>5, <3>6
  <2> QED
    BY <2>2, <2>3, <2>7, <2>8, <2>9 DEF HsuConfined
<1> QED
  BY <1>1, LaunchSafe, PTL

-----------------------------------------------------------------------------
(***************************************************************************)
(* Plans.  What an instance i registers, and in which order.               *)
(***************************************************************************)
Whats == {"acl", "dir", "link", "xhost", "socket", "proxy", "cgroup"}

Res(N, i) == [what : Whats, name : N, owner : SUBSET {i}]
Op(N, i)  == [kind : Kinds, et : Types, res : Res(N, i), within : SUBSET Res(N, i)]

Transmitted == {"cgroup", "runtime", "tmpdir", "wayland", "x11", "pulse", "dbus"}

\* What outcomeStateSys holds for the instance i, with paths named in N.
Sys(N, i) == [useRuntimeDir : BOOLEAN, sharePath : BOOLEAN, runtimeSharePath : BOOLEAN,
              sys : Seq(Op(N, i)), Ops : Seq(Transmitted)]

Perms == [path : STRING, ensure : BOOLEAN]

Paths(perms) == {perms[k].path : k \in DOMAIN perms}

\* The operations an entry of ExtraPerms makes.
Entry(p) ==
    (IF p.ensure THEN << Ensure(p.path) >> ELSE << >>)
    \o << UpdatePermType(User, p.path, {}) >>

\* The operations a path may have been flattened to.
EntryOps(path) == {Ensure(path), UpdatePermType(User, path, {})}

\* Two short sequences put together.
LEMMA ShortJoin ==
    ASSUME NEW S, NEW x \in S, NEW y \in S
    PROVE  << x >> \o << y >> = << x, y >> /\ << >> \o << y >> = << y >>
<1>1. << x >> \in Seq(S) /\ << y >> \in Seq(S) /\ << x, y >> \in Seq(S)
  OBVIOUS
<1>2. << x >> \o << y >> = << x, y >>
  <2> DEFINE j == << x >> \o << y >>
  <2>1. j \in Seq(S) /\ Len(j) = 2 /\ j[1] = x /\ j[2] = y
    BY <1>1, ConcatProperties
  <2> HIDE DEF j
  <2>2. Len(<< x, y >>) = 2 /\ << x, y >>[1] = x /\ << x, y >>[2] = y
    OBVIOUS
  <2>3. j = << x, y >>
    BY <1>1, <2>1, <2>2, SeqEqual
  <2> QED
    BY <2>3 DEF j
<1>3. << >> \o << y >> = << y >>
  BY <1>1, ConcatEmptySeq
<1> QED
  BY <1>2, <1>3

\* Every constructor makes an operation, on a path of its instance or of all.
LEMMA OpType ==
    ASSUME NEW N, NEW i, NEW name \in N, NEW owner \in SUBSET {i}, NEW et \in Types,
           NEW dir \in Res(N, i)
    PROVE  /\ Dir(name, owner) \in Res(N, i)
           /\ UpdatePermType(et, name, owner) \in Op(N, i)
           /\ Ensure(name) \in Op(N, i)
           /\ Ephemeral(et, name, owner) \in Op(N, i)
           /\ LinkFileType(et, name, owner, dir) \in Op(N, i)
           /\ ChangeHosts(name) \in Op(N, i)
           /\ Wayland(name, owner, dir) \in Op(N, i)
           /\ ProxyDBus(name, owner, dir) \in Op(N, i)
           /\ Cgroup(name, owner) \in Op(N, i)
<1>1. ASSUME NEW what \in Whats, NEW o \in SUBSET {i}
      PROVE  Resource(what, name, o) \in Res(N, i)
  BY DEF Resource, Res
<1>2. ASSUME NEW kind \in Kinds, NEW t \in Types, NEW r \in Res(N, i),
             NEW w \in SUBSET Res(N, i)
      PROVE  Operation(kind, t, r, w) \in Op(N, i)
  BY DEF Operation, Op
<1>3. Whats = {"acl", "dir", "link", "xhost", "socket", "proxy", "cgroup"}
  BY DEF Whats
<1>4. Kinds = {"acl", "ensure", "ephemeral", "link", "xhost", "wayland", "dbus", "cgroup"}
  BY DEF Kinds
<1>5. {User, Process, "EX11"} \subseteq Types
  BY DEF Types, Enablements
<1>6. {} \in SUBSET {i}
  OBVIOUS
<1>7. {} \in SUBSET Res(N, i) /\ {dir} \in SUBSET Res(N, i)
  OBVIOUS
<1>8. Dir(name, owner) \in Res(N, i) /\ Dir(name, {}) \in Res(N, i)
  BY <1>1, <1>3, <1>6 DEF Dir
<1>9. UpdatePermType(et, name, owner) \in Op(N, i)
  BY <1>1, <1>2, <1>3, <1>4, <1>7 DEF UpdatePermType
<1>10. Ensure(name) \in Op(N, i) /\ Ephemeral(et, name, owner) \in Op(N, i)
  BY <1>2, <1>4, <1>5, <1>7, <1>8 DEF Ensure, Ephemeral
<1>11. LinkFileType(et, name, owner, dir) \in Op(N, i)
  BY <1>1, <1>2, <1>3, <1>4, <1>7 DEF LinkFileType
<1>12. ChangeHosts(name) \in Op(N, i)
  BY <1>1, <1>2, <1>3, <1>4, <1>5, <1>6, <1>7 DEF ChangeHosts
<1>13. Wayland(name, owner, dir) \in Op(N, i) /\ ProxyDBus(name, owner, dir) \in Op(N, i)
  BY <1>1, <1>2, <1>3, <1>4, <1>5, <1>7 DEF Wayland, ProxyDBus
<1>14. Cgroup(name, owner) \in Op(N, i)
  BY <1>1, <1>2, <1>3, <1>4, <1>5, <1>7 DEF Cgroup
<1> QED
  BY <1>8, <1>9, <1>10, <1>11, <1>12, <1>13, <1>14

\* An entry makes one or two operations on its path, on resources of their own.
LEMMA EntryType ==
    ASSUME NEW N, NEW i, NEW p \in Perms, p.path \in N
    PROVE  /\ Entry(p) \in Seq(Op(N, i))
           /\ \A k \in DOMAIN Entry(p) : Entry(p)[k] \in EntryOps(p.path)
           /\ \A k, l \in DOMAIN Entry(p) : k # l => Entry(p)[k].res # Entry(p)[l].res
<1> DEFINE e == Ensure(p.path)
           a == UpdatePermType(User, p.path, {})
<1>1. e \in Op(N, i) /\ a \in Op(N, i)
  <2>1. {} \in SUBSET {i} /\ Dir(p.path, {}) \in Res(N, i)
    BY DEF Dir, Resource, Res, Whats
  <2>2. User \in Types
    BY DEF Types
  <2> QED
    BY <2>1, <2>2, OpType
<1>2. e.res # a.res
  BY DEF Ensure, UpdatePermType, Dir, Operation, Resource
<1>3. Entry(p) = IF p.ensure THEN << e, a >> ELSE << a >>
  <2> HIDE DEF e, a
  <2>1. Entry(p) = (IF p.ensure THEN << e >> ELSE << >>) \o << a >>
    BY DEF Entry, e, a
  <2>2. << e >> \o << a >> = << e, a >> /\ << >> \o << a >> = << a >>
    BY <1>1, ShortJoin
  <2> QED
    BY <2>1, <2>2
<1> HIDE DEF e, a
<1> QED
  BY <1>1, <1>2, <1>3 DEF EntryOps, e, a

\* The equation of flattenExtraPerms has a solution.
LEMMA FlatExists ==
    ASSUME NEW perms \in Seq(Perms), NEW N, Paths(perms) \subseteq N, NEW i
    PROVE  \E g \in [0 .. Len(perms) -> Seq(Op(N, i))] :
              /\ g[0] = << >>
              /\ \A k \in 1 .. Len(perms) : g[k] = g[k - 1] \o Entry(perms[k])
<1> DEFINE L == Len(perms)
           A == Seq(Op(N, i))
           Then(x, k) == x \o Entry(perms[k])
           step == [p \in (1 .. L) \X A |-> Then(p[2], p[1])]
<1>1. L \in Nat /\ DOMAIN perms = 1 .. L /\ << >> \in A
  BY EmptySeq
<1>2. ASSUME NEW k \in 1 .. L, NEW x \in A PROVE Then(x, k) \in A
  <2>1. perms[k] \in Perms /\ perms[k].path \in N
    BY <1>1 DEF Paths
  <2>2. Entry(perms[k]) \in A
    BY <2>1, EntryType
  <2> QED
    BY <2>2, ConcatProperties
<1> HIDE DEF L, A, Then
<1>3. step \in Steps(L, A)
  BY <1>2 DEF Steps
<1>4. PICK g : Solution(L, A, << >>, step, g)
  <2> HIDE DEF step
  <2> QED
    BY <1>1, <1>3, Recursion
<1>5. ASSUME NEW k \in 1 .. L PROVE g[k] = Then(g[k - 1], k)
  <2>1. k - 1 \in 0 .. L /\ g[k - 1] \in A
    BY <1>1, <1>4 DEF Solution
  <2> QED
    BY <1>4, <2>1 DEF Solution
<1>6. g \in [0 .. L -> A] /\ g[0] = << >>
  BY <1>4 DEF Solution
<1> QED
  BY <1>5, <1>6 DEF L, A, Then

\* Where the elements of two sequences put together come from.
LEMMA JoinParts ==
    ASSUME NEW S, NEW s \in Seq(S), NEW t \in Seq(S)
    PROVE  /\ s \o t \in Seq(S)
           /\ \A k \in DOMAIN (s \o t) :
                 \/ k \in DOMAIN s /\ (s \o t)[k] = s[k]
                 \/ k - Len(s) \in DOMAIN t /\ (s \o t)[k] = t[k - Len(s)] /\ k \notin DOMAIN s
           /\ \A k \in DOMAIN s : k \in DOMAIN (s \o t) /\ (s \o t)[k] = s[k]
           /\ \A l \in DOMAIN t : Len(s) + l \in DOMAIN (s \o t) /\ (s \o t)[Len(s) + l] = t[l]
<1> DEFINE j == s \o t
<1>1. /\ j \in Seq(S) /\ Len(j) = Len(s) + Len(t)
      /\ \A k \in 1 .. Len(s) + Len(t) : j[k] = IF k <= Len(s) THEN s[k] ELSE t[k - Len(s)]
  BY ConcatProperties
<1> HIDE DEF j
<1>2. /\ DOMAIN j = 1 .. Len(j) /\ DOMAIN s = 1 .. Len(s) /\ DOMAIN t = 1 .. Len(t)
      /\ Len(s) \in Nat /\ Len(t) \in Nat
  BY <1>1, LenProperties
<1>3. ASSUME NEW k \in DOMAIN j
      PROVE  \/ k \in DOMAIN s /\ j[k] = s[k]
             \/ k - Len(s) \in DOMAIN t /\ j[k] = t[k - Len(s)] /\ k \notin DOMAIN s
  BY <1>1, <1>2
<1>4. ASSUME NEW k \in DOMAIN s PROVE k \in DOMAIN j /\ j[k] = s[k]
  BY <1>1, <1>2
<1>5. ASSUME NEW l \in DOMAIN t PROVE Len(s) + l \in DOMAIN j /\ j[Len(s) + l] = t[l]
  <2>1. Len(s) + l \in 1 .. Len(s) + Len(t) /\ ~(Len(s) + l <= Len(s))
        /\ (Len(s) + l) - Len(s) = l
    BY <1>2
  <2> QED
    BY <1>1, <1>2, <2>1
<1> QED
  BY <1>1, <1>3, <1>4, <1>5 DEF j

\* No resource is registered twice.
Once(s) == \A k, l \in DOMAIN s : k # l => s[k].res # s[l].res

\* Neither within two lists, nor by both.
LEMMA OnceJoin ==
    ASSUME NEW S, NEW s \in Seq(S), NEW t \in Seq(S), Once(s), Once(t),
           \A k \in DOMAIN s : \A l \in DOMAIN t : s[k].res # t[l].res
    PROVE  Once(s \o t)
<1> DEFINE j == s \o t
<1>1. \A k \in DOMAIN j :
         \/ k \in DOMAIN s /\ j[k] = s[k]
         \/ k - Len(s) \in DOMAIN t /\ j[k] = t[k - Len(s)] /\ k \notin DOMAIN s
  BY JoinParts
<1>2. j \in Seq(S) /\ Len(s) \in Nat /\ DOMAIN j = 1 .. Len(j) /\ Len(j) \in Nat
  BY JoinParts, LenProperties
<1> HIDE DEF j
<1>3. ASSUME NEW k \in DOMAIN j, NEW l \in DOMAIN j, k # l PROVE j[k].res # j[l].res
  <2>1. k \in Int /\ l \in Int /\ (k - Len(s) # l - Len(s))
    BY <1>2, <1>3
  <2> QED
    BY <1>1, <1>3, <2>1 DEF Once
<1> QED
  BY <1>3 DEF Once, j

\* What flattenExtraPerms makes of any list of entries.
LEMMA Flattened ==
    ASSUME NEW perms \in Seq(Perms), NEW N, Paths(perms) \subseteq N, NEW i
    PROVE  LET f == flattenExtraPerms(perms) IN
           /\ f \in Seq(Op(N, i))
           /\ \A k \in DOMAIN f : \E p \in Paths(perms) : f[k] \in EntryOps(p)
           /\ (\A k, l \in DOMAIN perms : k # l => perms[k].path # perms[l].path) => Once(f)
<1> DEFINE Dirs(k)  == IF perms[k].ensure THEN << Ensure(perms[k].path) >> ELSE << >>
           Acl(k)   == << UpdatePermType(User, perms[k].path, {}) >>
           Flat(g) == [k \in 0 .. Len(perms) |->
                          IF k = 0 THEN << >> ELSE g[k - 1] \o Dirs(k) \o Acl(k)]
           F == CHOOSE g : g = Flat(g)
<1>0. Len(perms) \in Nat /\ DOMAIN perms = 1 .. Len(perms)
  BY LenProperties
<1>1. ASSUME NEW k \in 1 .. Len(perms), NEW s \in Seq(Op(N, i))
      PROVE  s \o Dirs(k) \o Acl(k) = s \o Entry(perms[k])
  <2>1. perms[k] \in Perms /\ perms[k].path \in N
    BY <1>0 DEF Paths
  <2>2. {} \in SUBSET {i} /\ Dir(perms[k].path, {}) \in Res(N, i)
    BY <2>1 DEF Dir, Resource, Res, Whats
  <2>3. User \in Types
    BY DEF Types
  <2>4. Ensure(perms[k].path) \in Op(N, i) /\ UpdatePermType(User, perms[k].path, {}) \in Op(N, i)
    BY <2>1, <2>2, <2>3, OpType
  <2>5. Dirs(k) \in Seq(Op(N, i)) /\ Acl(k) \in Seq(Op(N, i))
    BY <2>4
  <2>6. Entry(perms[k]) = Dirs(k) \o Acl(k)
    BY DEF Entry
  <2> HIDE DEF Dirs, Acl
  <2> QED
    BY <2>5, <2>6, ConcatAssociative, SMTT(20)
<1>2. \E g : g = Flat(g)
  <2>1. PICK g \in [0 .. Len(perms) -> Seq(Op(N, i))] :
           /\ g[0] = << >>
           /\ \A k \in 1 .. Len(perms) : g[k] = g[k - 1] \o Entry(perms[k])
    BY FlatExists
  <2>2. ASSUME NEW k \in 0 .. Len(perms), k # 0
        PROVE  g[k] = g[k - 1] \o Dirs(k) \o Acl(k)
    <3>1. k \in 1 .. Len(perms) /\ k - 1 \in 0 .. Len(perms)
      BY <1>0, <2>2
    <3> HIDE DEF Dirs, Acl
    <3> QED
      BY <1>1, <2>1, <3>1
  <2> HIDE DEF Dirs, Acl
  <2>3. g = Flat(g)
    BY <2>1, <2>2
  <2> HIDE DEF Flat
  <2> QED
    BY <2>3
<1>3. F = Flat(F)
  <2> HIDE DEF Flat
  <2> QED
    BY <1>2
<1>4. flattenExtraPerms(perms) = F[Len(perms)]
  BY DEF flattenExtraPerms
<1> DEFINE Apart    == \A k, l \in DOMAIN perms : k # l => perms[k].path # perms[l].path
           Right(m) == /\ F[m] \in Seq(Op(N, i))
                       /\ \A k \in DOMAIN F[m] : \E j \in 1 .. m : F[m][k] \in EntryOps(perms[j].path)
                       /\ Apart => Once(F[m])
           bad == {m \in 0 .. Len(perms) : ~Right(m)}
<1> HIDE DEF Dirs, Acl, F
<1>5. F[0] = << >> /\ \A k \in 1 .. Len(perms) : F[k] = F[k - 1] \o Dirs(k) \o Acl(k)
  <2>1. \A k \in 0 .. Len(perms) :
           Flat(F)[k] = IF k = 0 THEN << >> ELSE F[k - 1] \o Dirs(k) \o Acl(k)
    OBVIOUS
  <2>2. 0 \in 0 .. Len(perms) /\ \A k \in 1 .. Len(perms) : k \in 0 .. Len(perms) /\ k # 0
    BY <1>0
  <2> HIDE DEF Flat
  <2> QED
    BY <1>3, <2>1, <2>2
<1>6. Right(0)
  <2>1. << >> \in Seq(Op(N, i)) /\ DOMAIN << >> = {}
    BY EmptySeq
  <2> QED
    BY <1>5, <2>1 DEF Once
<1>7. ASSUME NEW m \in 1 .. Len(perms), Right(m - 1) PROVE Right(m)
  <2> DEFINE s == F[m - 1]
             e == Entry(perms[m])
  <2>1. F[m] = s \o e
    BY <1>1, <1>5, <1>7
  <2>2. perms[m] \in Perms /\ perms[m].path \in N
    BY <1>0 DEF Paths
  <2>3. /\ e \in Seq(Op(N, i))
        /\ \A k \in DOMAIN e : e[k] \in EntryOps(perms[m].path)
        /\ Once(e)
    BY <2>2, EntryType DEF Once
  <2>4. s \in Seq(Op(N, i)) /\ (Apart => Once(s))
        /\ \A k \in DOMAIN s : \E j \in 1 .. (m - 1) : s[k] \in EntryOps(perms[j].path)
    BY <1>7
  <2> HIDE DEF s, e, Apart
  <2>5. /\ s \o e \in Seq(Op(N, i))
        /\ \A k \in DOMAIN (s \o e) : \/ k \in DOMAIN s /\ (s \o e)[k] = s[k]
                                     \/ \E l \in DOMAIN e : (s \o e)[k] = e[l]
    BY <2>3, <2>4, JoinParts
  <2>6. \A k \in DOMAIN (s \o e) : \E j \in 1 .. m : (s \o e)[k] \in EntryOps(perms[j].path)
    <3>1. m \in 1 .. m /\ \A j \in 1 .. (m - 1) : j \in 1 .. m
      BY <1>0
    <3> QED
      BY <2>3, <2>4, <2>5, <3>1
  <2>7. ASSUME Apart PROVE Once(s \o e)
    <3>1. ASSUME NEW k \in DOMAIN s, NEW l \in DOMAIN e PROVE s[k].res # e[l].res
      <4>1. PICK j \in 1 .. (m - 1) : s[k] \in EntryOps(perms[j].path)
        BY <2>4
      <4>2. s[k].res.name = perms[j].path /\ e[l].res.name = perms[m].path
        BY <2>3, <4>1 DEF EntryOps, Ensure, UpdatePermType, Operation, Resource, Dir
      <4>3. j \in DOMAIN perms /\ m \in DOMAIN perms /\ j # m
        BY <1>0
      <4>4. perms[j].path # perms[m].path
        BY <2>7, <4>3 DEF Apart
      <4> QED
        BY <4>2, <4>4
    <3> QED
      BY <2>3, <2>4, <2>7, <3>1, OnceJoin
  <2> QED
    BY <2>1, <2>5, <2>6, <2>7
<1> HIDE DEF Right
<1>8. bad = {}
  <2> SUFFICES ASSUME bad # {} PROVE FALSE
    OBVIOUS
  <2>1. bad \in SUBSET Nat
    BY <1>0
  <2>2. PICK m \in bad : \A j \in bad : m <= j
    <3> HIDE DEF bad
    <3> QED
      BY <2>1, Smallest
  <2>3. m \in 0 .. Len(perms) /\ ~Right(m)
    BY <2>2
  <2>4. m \in 1 .. Len(perms) /\ m - 1 \in 0 .. Len(perms) /\ ~(m <= m - 1)
    BY <1>0, <1>6, <2>3
  <2>5. m - 1 \notin bad
    <3> HIDE DEF bad
    <3> QED
      BY <2>2, <2>4
  <2>6. Right(m - 1)
    BY <2>4, <2>5
  <2> QED
    BY <1>7, <2>3, <2>4, <2>6
<1>9. Right(Len(perms))
  BY <1>0, <1>8
<1> QED
  BY <1>0, <1>4, <1>9 DEF Right, Apart, Paths

-----------------------------------------------------------------------------
Names(c) == OwnNames \cup {c.display} \cup Paths(c.extraPerms)

\* What ConfigsAssumption asks of one configuration.
Distinct(c) ==
    /\ c.display \notin OwnNames
    /\ \A k, l \in DOMAIN c.extraPerms :
          /\ c.extraPerms[k].path \notin OwnNames \cup {c.display}
          /\ k # l => c.extraPerms[k].path # c.extraPerms[l].path

Has(s, o) == \E l \in DOMAIN s.sys : s.sys[l] = o

ShareDir(i) == Ephemeral(Process, "share", {i})
RunDir(i)   == Ephemeral(Process, "run", {i})

\* Directories precede what they hold.
Ordered(q) ==
    \A k \in DOMAIN q : \A d \in q[k].within :
        /\ \E l \in 1 .. k - 1 : q[l].kind = "ephemeral" /\ q[l].res = d
        /\ q[k].et = Process

\* The flags tell which directories have been registered.
Held(i, s) ==
    /\ s.sharePath => Has(s, ShareDir(i))
    /\ s.runtimeSharePath => Has(s, RunDir(i))

Serves(s, src) ==
    \E k \in DOMAIN s.sys : s.sys[k].res.name = src.name /\ s.sys[k].res.owner = src.owner

Provided(c, i, s) ==
    \A j \in DOMAIN s.Ops : \A src \in toContainer(s.Ops[j], c, i) : Serves(s, src)

\* What is not of the instance alone is of the user, or of an enablement it has.
Scope(c, i, o) ==
    \/ o.res.owner = {i}
    \/ /\ o.res.owner = {} /\ o.kind \notin {"wayland", "dbus"}
       /\ \/ /\ o.et = User
             /\ o.res.name \in (OwnNames \ {"wayland"}) \cup Paths(c.extraPerms)
          \/ o.et = "EWayland" /\ o.res.name = "wayland" /\ "EWayland" \in c.et
          \/ o.et = "EX11" /\ o.res.name = c.display /\ "EX11" \in c.et

Scoped(c, i, s) == \A k \in DOMAIN s.sys : Scope(c, i, s.sys[k])

\* The names of what several outcomeOps ask for.
MadeNames == {"RuntimePath", "RunDirPath", "share", "run"}

Made(s) ==
    {x \in MadeNames : \/ s.useRuntimeDir /\ x \in {"RuntimePath", "RunDirPath"}
                       \/ s.sharePath /\ x = "share"
                       \/ s.runtimeSharePath /\ x = "run"}

\* Nothing is registered twice; the names are those of T and of what was made.
Single(T, c, s) ==
    Distinct(c) => /\ Once(s.sys)
                   /\ \A k \in DOMAIN s.sys : s.sys[k].res.name \in T \cup Made(s)

\* The plan so far, of outcomeOps that use the names T.
Plan(T, c, i, s) ==
    /\ s \in Sys(Names(c), i)
    /\ Ordered(s.sys) /\ Held(i, s) /\ Provided(c, i, s) /\ Scoped(c, i, s)
    /\ Single(T, c, s)

\* An operation that may be registered now.
Proper(c, i, s, o) ==
    /\ o \in Op(Names(c), i) /\ Scope(c, i, o)
    /\ \A d \in o.within : /\ o.et = Process
                            /\ \E l \in DOMAIN s.sys : s.sys[l].kind = "ephemeral" /\ s.sys[l].res = d

\* Registering operations under new names.
LEMMA RegisterPlan ==
    ASSUME NEW T, NEW A, NEW c, NEW i, NEW s, Plan(T, c, i, s),
           NEW ops \in Seq(Op(Names(c), i)),
           \A k \in DOMAIN ops : Proper(c, i, s, ops[k]) /\ ops[k].res.name \in A,
           Distinct(c) => Once(ops),
           Distinct(c) => A \cap (T \cup Made(s)) = {}
    PROVE  LET t == Register(s, ops) IN
           /\ Plan(T \cup A, c, i, t)
           /\ \A k \in DOMAIN ops : Has(t, ops[k])
           /\ \A o : Has(s, o) => Has(t, o)
<1> DEFINE t == Register(s, ops)
           S == Op(Names(c), i)
<1>1. s \in Sys(Names(c), i) /\ s.sys \in Seq(S)
  BY DEF Plan, Sys
<1>2. /\ t.sys = s.sys \o ops /\ t.Ops = s.Ops
      /\ t.useRuntimeDir = s.useRuntimeDir /\ t.sharePath = s.sharePath
      /\ t.runtimeSharePath = s.runtimeSharePath
  BY <1>1 DEF Register, Sys
<1> DEFINE q == s.sys \o ops
<1> HIDE DEF S
<1>3. /\ q \in Seq(S)
      /\ \A k \in DOMAIN q :
            \/ k \in DOMAIN s.sys /\ q[k] = s.sys[k]
            \/ k - Len(s.sys) \in DOMAIN ops /\ q[k] = ops[k - Len(s.sys)] /\ k \notin DOMAIN s.sys
      /\ \A k \in DOMAIN s.sys : k \in DOMAIN q /\ q[k] = s.sys[k]
      /\ \A l \in DOMAIN ops : Len(s.sys) + l \in DOMAIN q /\ q[Len(s.sys) + l] = ops[l]
  <2>1. ops \in Seq(S) /\ s.sys \in Seq(S)
    BY <1>1 DEF S
  <2> DEFINE p == s.sys
             j == p \o ops
  <2>3. p \in Seq(S)
    BY <2>1
  <2> HIDE DEF p, t
  <2>2. /\ j \in Seq(S)
        /\ \A k \in DOMAIN j :
              \/ k \in DOMAIN p /\ j[k] = p[k]
              \/ k - Len(p) \in DOMAIN ops /\ j[k] = ops[k - Len(p)] /\ k \notin DOMAIN p
        /\ \A k \in DOMAIN p : k \in DOMAIN j /\ j[k] = p[k]
        /\ \A l \in DOMAIN ops : Len(p) + l \in DOMAIN j /\ j[Len(p) + l] = ops[l]
    BY <2>1, <2>3, JoinParts
  <2> QED
    BY <2>2 DEF p
<1>4. t \in Sys(Names(c), i)
  <2>1. q \in Seq(Op(Names(c), i))
    BY <1>3 DEF S
  <2> HIDE DEF q
  <2>2. t = [s EXCEPT !.sys = q]
    BY DEF Register, q
  <2> QED
    BY <1>1, <2>1, <2>2 DEF Sys
<1> HIDE DEF t, q
<1>5. t.sys = q
  BY <1>2 DEF q
<1>6. (\A k \in DOMAIN ops : Has(t, ops[k])) /\ (\A o : Has(s, o) => Has(t, o))
  BY <1>3, <1>5 DEF Has
<1>7. Ordered(q)
  <2> SUFFICES ASSUME NEW k \in DOMAIN q, NEW d \in q[k].within
               PROVE  /\ \E l \in 1 .. k - 1 : q[l].kind = "ephemeral" /\ q[l].res = d
                      /\ q[k].et = Process
    BY DEF Ordered
  <2>0. /\ DOMAIN s.sys = 1 .. Len(s.sys) /\ Len(s.sys) \in Nat /\ k \in Nat
        /\ DOMAIN q = 1 .. Len(q) /\ Len(q) \in Nat
    <3>1. s.sys \in Seq(S) /\ q \in Seq(S)
      BY <1>1, <1>3 DEF S
    <3>2. DOMAIN q = 1 .. Len(q) /\ Len(q) \in Nat /\ DOMAIN s.sys = 1 .. Len(s.sys) /\ Len(s.sys) \in Nat
      BY <3>1, LenProperties
    <3> QED
      BY <3>2
  <2>1. CASE k \in DOMAIN s.sys /\ q[k] = s.sys[k]
    <3>1. PICK l \in 1 .. k - 1 : s.sys[l].kind = "ephemeral" /\ s.sys[l].res = d
      BY <2>1 DEF Plan, Ordered
    <3>2. s.sys[k].et = Process
      BY <2>1 DEF Plan, Ordered
    <3>3. l \in DOMAIN s.sys
      BY <2>0, <2>1
    <3> QED
      BY <1>3, <2>1, <3>1, <3>2, <3>3
  <2>2. CASE k - Len(s.sys) \in DOMAIN ops /\ q[k] = ops[k - Len(s.sys)] /\ k \notin DOMAIN s.sys
    <3>1. Proper(c, i, s, q[k])
      BY <2>2
    <3>2. PICK l \in DOMAIN s.sys : s.sys[l].kind = "ephemeral" /\ s.sys[l].res = d
      BY <3>1 DEF Proper
    <3>3. l \in 1 .. k - 1
      BY <2>0, <2>2
    <3> QED
      BY <1>3, <3>1, <3>2, <3>3 DEF Proper
  <2> QED
    BY <1>3, <2>1, <2>2
<1>8. Held(i, t)
  BY <1>2, <1>6 DEF Plan, Held
<1>9. Provided(c, i, t)
  <2>1. \A src : Serves(s, src) => Serves(t, src)
    BY <1>3, <1>5 DEF Serves
  <2> QED
    BY <1>2, <2>1 DEF Plan, Provided
<1>10. Scoped(c, i, t)
  BY <1>3, <1>5 DEF Plan, Scoped, Proper
<1>11. ASSUME Distinct(c)
       PROVE  Once(q) /\ \A k \in DOMAIN q : q[k].res.name \in (T \cup A) \cup Made(t)
  <2>1. Made(t) = Made(s)
    BY <1>2 DEF Made
  <2>2. Once(s.sys) /\ \A k \in DOMAIN s.sys : s.sys[k].res.name \in T \cup Made(s)
    BY <1>11 DEF Plan, Single
  <2>3. \A k \in DOMAIN s.sys : \A l \in DOMAIN ops : s.sys[k].res # ops[l].res
    BY <1>11, <2>2
  <2>4. Once(q)
    <3>1. ops \in Seq(S) /\ s.sys \in Seq(S)
      BY <1>1 DEF S
    <3> QED
      BY <1>11, <2>2, <2>3, <3>1, OnceJoin DEF q
  <2> QED
    BY <1>3, <2>1, <2>2, <2>4
<1>12. Plan(T \cup A, c, i, t)
  BY <1>4, <1>5, <1>7, <1>8, <1>9, <1>10, <1>11 DEF Plan, Single
<1> QED
  BY <1>6, <1>12 DEF t

\* An operation of the instance alone, held by no directory or by one that is there.
LEMMA ProperOwn ==
    ASSUME NEW c, NEW i, NEW s, NEW o \in Op(Names(c), i), o.res.owner = {i},
           \/ o.within = {}
           \/ /\ o.et = Process
              /\ \E d : /\ o.within = {d}
                         /\ \E l \in DOMAIN s.sys : s.sys[l].kind = "ephemeral" /\ s.sys[l].res = d
    PROVE  Proper(c, i, s, o)
BY DEF Proper, Scope

\* An operation all instances share.
LEMMA ProperShared ==
    ASSUME NEW c, NEW i, NEW s, NEW o \in Op(Names(c), i), o.res.owner = {}, o.within = {},
           o.kind \notin {"wayland", "dbus"},
           \/ /\ o.et = User
              /\ o.res.name \in (OwnNames \ {"wayland"}) \cup Paths(c.extraPerms)
           \/ o.et = "EWayland" /\ o.res.name = "wayland" /\ "EWayland" \in c.et
           \/ o.et = "EX11" /\ o.res.name = c.display /\ "EX11" \in c.et
    PROVE  Proper(c, i, s, o)
BY DEF Proper, Scope

\* Which operations may be registered, and when.
LEMMA ProperOps ==
    ASSUME NEW c, NEW i, NEW s
    PROVE  /\ \A n \in (OwnNames \ {"wayland"}) \cup Paths(c.extraPerms) :
                 /\ Proper(c, i, s, Ensure(n))
                 /\ Proper(c, i, s, UpdatePermType(User, n, {}))
           /\ \A n \in OwnNames :
                 /\ Proper(c, i, s, UpdatePermType(Process, n, {i}))
                 /\ Proper(c, i, s, Ephemeral(Process, n, {i}))
                 /\ Proper(c, i, s, Cgroup(n, {i}))
           /\ "EWayland" \in c.et => Proper(c, i, s, UpdatePermType("EWayland", "wayland", {}))
           /\ "EX11" \in c.et => /\ Proper(c, i, s, UpdatePermType("EX11", c.display, {}))
                                 /\ Proper(c, i, s, ChangeHosts(c.display))
           /\ Has(s, ShareDir(i)) => \A n \in OwnNames :
                 /\ Proper(c, i, s, Wayland(n, {i}, SharePath(i)))
                 /\ Proper(c, i, s, ProxyDBus(n, {i}, SharePath(i)))
           /\ Has(s, RunDir(i)) => \A n \in OwnNames :
                 Proper(c, i, s, LinkFileType(Process, n, {i}, RuntimePath(i)))
<1> DEFINE N == Names(c)
<1>1. OwnNames \subseteq N /\ Paths(c.extraPerms) \subseteq N /\ c.display \in N
  BY DEF Names
<1>2. {} \in SUBSET {i} /\ {i} \in SUBSET {i}
  OBVIOUS
<1>3. User \in Types /\ Process \in Types /\ "EWayland" \in Types /\ "EX11" \in Types
  BY DEF Types, Enablements
<1>4. SharePath(i) \in Res(N, i) /\ RuntimePath(i) \in Res(N, i)
  <2>1. "share" \in N /\ "run" \in N
    BY <1>1 DEF OwnNames
  <2> HIDE DEF N
  <2> QED
    BY <1>2, <2>1 DEF SharePath, RuntimePath, Dir, Resource, Res, Whats
<1> HIDE DEF N
<1>5. ASSUME NEW n \in (OwnNames \ {"wayland"}) \cup Paths(c.extraPerms)
      PROVE  /\ Proper(c, i, s, Ensure(n))
             /\ Proper(c, i, s, UpdatePermType(User, n, {}))
  <2>1. Ensure(n) \in Op(N, i) /\ UpdatePermType(User, n, {}) \in Op(N, i)
    BY <1>1, <1>2, <1>3, <1>4, OpType
  <2>2. Proper(c, i, s, Ensure(n))
    <3>1. /\ Ensure(n).res.owner = {} /\ Ensure(n).res.name = n /\ Ensure(n).within = {}
          /\ Ensure(n).kind = "ensure" /\ Ensure(n).et = User
      BY DEF Ensure, Operation, Resource, Dir
    <3> QED
      BY <2>1, <3>1, ProperShared DEF N
  <2>3. Proper(c, i, s, UpdatePermType(User, n, {}))
    <3> DEFINE o == UpdatePermType(User, n, {})
    <3>1. o.res.owner = {} /\ o.res.name = n /\ o.within = {} /\ o.kind = "acl" /\ o.et = User
      BY DEF UpdatePermType, Operation, Resource
    <3> HIDE DEF o
    <3> QED
      BY <2>1, <3>1, ProperShared DEF N, o
  <2> QED
    BY <2>2, <2>3
<1>6. ASSUME NEW n \in OwnNames
      PROVE  /\ Proper(c, i, s, UpdatePermType(Process, n, {i}))
             /\ Proper(c, i, s, Ephemeral(Process, n, {i}))
             /\ Proper(c, i, s, Cgroup(n, {i}))
  <2>1. /\ UpdatePermType(Process, n, {i}) \in Op(N, i)
        /\ Ephemeral(Process, n, {i}) \in Op(N, i)
        /\ Cgroup(n, {i}) \in Op(N, i)
    BY <1>1, <1>2, <1>3, <1>4, OpType
  <2>2. /\ UpdatePermType(Process, n, {i}).res.owner = {i}
        /\ UpdatePermType(Process, n, {i}).within = {}
        /\ Ephemeral(Process, n, {i}).res.owner = {i} /\ Ephemeral(Process, n, {i}).within = {}
        /\ Cgroup(n, {i}).res.owner = {i} /\ Cgroup(n, {i}).within = {}
    BY DEF UpdatePermType, Ephemeral, Cgroup, Operation, Resource, Dir
  <2> QED
    BY <2>1, <2>2, ProperOwn DEF N
<1>7. ASSUME "EWayland" \in c.et
      PROVE  Proper(c, i, s, UpdatePermType("EWayland", "wayland", {}))
  <2>0. "wayland" \in N
    BY <1>1 DEF OwnNames
  <2>1. UpdatePermType("EWayland", "wayland", {}) \in Op(N, i)
    BY <2>0, <1>2, <1>3, <1>4, OpType
  <2> DEFINE o == UpdatePermType("EWayland", "wayland", {})
  <2>2. o.res.owner = {} /\ o.res.name = "wayland" /\ o.within = {} /\ o.kind = "acl"
        /\ o.et = "EWayland"
    BY DEF UpdatePermType, Operation, Resource
  <2> HIDE DEF o
  <2> QED
    BY <1>7, <2>1, <2>2, ProperShared DEF N, o
<1>8. ASSUME "EX11" \in c.et
      PROVE  /\ Proper(c, i, s, UpdatePermType("EX11", c.display, {}))
             /\ Proper(c, i, s, ChangeHosts(c.display))
  <2>1. UpdatePermType("EX11", c.display, {}) \in Op(N, i) /\ ChangeHosts(c.display) \in Op(N, i)
    BY <1>1, <1>2, <1>3, <1>4, OpType
  <2> DEFINE o == UpdatePermType("EX11", c.display, {})
             h == ChangeHosts(c.display)
  <2>2. /\ o.res.owner = {} /\ o.res.name = c.display /\ o.within = {} /\ o.kind = "acl"
        /\ o.et = "EX11"
        /\ h.res.owner = {} /\ h.res.name = c.display /\ h.within = {} /\ h.kind = "xhost"
        /\ h.et = "EX11"
    BY DEF UpdatePermType, ChangeHosts, Operation, Resource
  <2> HIDE DEF o, h
  <2> QED
    BY <1>8, <2>1, <2>2, ProperShared DEF N, o, h
<1>9. ASSUME Has(s, ShareDir(i)), NEW n \in OwnNames
      PROVE  /\ Proper(c, i, s, Wayland(n, {i}, SharePath(i)))
             /\ Proper(c, i, s, ProxyDBus(n, {i}, SharePath(i)))
  <2>1. /\ Wayland(n, {i}, SharePath(i)) \in Op(N, i)
        /\ ProxyDBus(n, {i}, SharePath(i)) \in Op(N, i)
    BY <1>1, <1>2, <1>3, <1>4, OpType
  <2>2. ShareDir(i).kind = "ephemeral" /\ ShareDir(i).res = SharePath(i)
    BY DEF ShareDir, SharePath, Ephemeral, Operation
  <2>3. \E l \in DOMAIN s.sys : s.sys[l].kind = "ephemeral" /\ s.sys[l].res = SharePath(i)
    BY <1>9, <2>2 DEF Has
  <2> DEFINE w == Wayland(n, {i}, SharePath(i))
             d == ProxyDBus(n, {i}, SharePath(i))
  <2>4. /\ w.res.owner = {i} /\ w.within = {SharePath(i)} /\ w.et = Process
        /\ d.res.owner = {i} /\ d.within = {SharePath(i)} /\ d.et = Process
    BY DEF Wayland, ProxyDBus, Operation, Resource
  <2> HIDE DEF w, d
  <2> QED
    BY <2>1, <2>3, <2>4, ProperOwn DEF N, w, d
<1>10. ASSUME Has(s, RunDir(i)), NEW n \in OwnNames
       PROVE  Proper(c, i, s, LinkFileType(Process, n, {i}, RuntimePath(i)))
  <2>1. LinkFileType(Process, n, {i}, RuntimePath(i)) \in Op(N, i)
    BY <1>1, <1>2, <1>3, <1>4, OpType
  <2>2. RunDir(i).kind = "ephemeral" /\ RunDir(i).res = RuntimePath(i)
    BY DEF RunDir, RuntimePath, Ephemeral, Operation
  <2>3. \E l \in DOMAIN s.sys : s.sys[l].kind = "ephemeral" /\ s.sys[l].res = RuntimePath(i)
    BY <1>10, <2>2 DEF Has
  <2> DEFINE o == LinkFileType(Process, n, {i}, RuntimePath(i))
  <2>4. o.res.owner = {i} /\ o.within = {RuntimePath(i)} /\ o.et = Process
    BY DEF LinkFileType, Operation, Resource
  <2> HIDE DEF o
  <2> QED
    BY <2>1, <2>3, <2>4, ProperOwn DEF N, o
<1> QED
  BY <1>5, <1>6, <1>7, <1>8, <1>9, <1>10

\* An outcomeOp that registers nothing, or is not enabled.
LEMMA WidenPlan ==
    ASSUME NEW T, NEW A, NEW c, NEW i, NEW s, Plan(T, c, i, s)
    PROVE  Plan(T \cup A, c, i, s)
BY DEF Plan, Single

\* Transmitting an outcomeOp whose sources are there.
LEMMA EnabledPlan ==
    ASSUME NEW T, NEW c, NEW i, NEW s, Plan(T, c, i, s), NEW name \in Transmitted,
           \A src \in toContainer(name, c, i) : Serves(s, src)
    PROVE  Plan(T, c, i, Enabled(s, name))
<1> DEFINE t == Enabled(s, name)
<1>1. s \in Sys(Names(c), i)
  BY DEF Plan
<1>2. s.Ops \in Seq(Transmitted)
  BY <1>1 DEF Sys
<1>3. /\ Append(s.Ops, name) \in Seq(Transmitted)
      /\ \A j \in DOMAIN Append(s.Ops, name) :
            \/ Append(s.Ops, name)[j] = name
            \/ j \in DOMAIN s.Ops /\ Append(s.Ops, name)[j] = s.Ops[j]
  <2> DEFINE p == s.Ops
  <2>1. p \in Seq(Transmitted)
    BY <1>2
  <2> HIDE DEF p, t
  <2>2. /\ Append(p, name) \in Seq(Transmitted)
        /\ \A j \in DOMAIN Append(p, name) :
              Append(p, name)[j] = name \/ (j \in DOMAIN p /\ Append(p, name)[j] = p[j])
    BY <2>1
  <2> QED
    BY <2>2 DEF p
<1>4. /\ t.sys = s.sys /\ t.Ops = Append(s.Ops, name) /\ t \in Sys(Names(c), i)
      /\ t.useRuntimeDir = s.useRuntimeDir /\ t.sharePath = s.sharePath
      /\ t.runtimeSharePath = s.runtimeSharePath
  <2>1. t = [s EXCEPT !.Ops = Append(s.Ops, name)]
    BY DEF Enabled
  <2> HIDE DEF t
  <2> QED
    BY <1>1, <1>3, <2>1 DEF Sys
<1> HIDE DEF t
<1>5. Made(t) = Made(s) /\ (\A o : Has(t, o) <=> Has(s, o)) /\ (\A r : Serves(t, r) <=> Serves(s, r))
  BY <1>4 DEF Made, Has, Serves
<1>6. Provided(c, i, t)
  BY <1>3, <1>4, <1>5 DEF Provided, Plan
<1>7. Held(i, t) /\ Ordered(t.sys) /\ Scoped(c, i, t) /\ Single(T, c, t)
  BY <1>4, <1>5 DEF Plan, Held, Scoped, Single
<1> QED
  BY <1>4, <1>6, <1>7 DEF Plan, t

\* Noting that a directory has been made, once it has.
LEMMA FlagPlan ==
    ASSUME NEW T, NEW A, NEW c, NEW i, NEW s, NEW t, Plan(T \cup A, c, i, s),
           t \in Sys(Names(c), i), t.sys = s.sys, t.Ops = s.Ops,
           Held(i, t), A \subseteq Made(t), Made(s) \subseteq Made(t)
    PROVE  Plan(T, c, i, t)
<1>1. Scoped(c, i, t) /\ Provided(c, i, t) /\ Ordered(t.sys)
  BY DEF Plan, Scoped, Provided, Serves
<1>2. Single(T, c, t)
  BY DEF Plan, Single
<1> QED
  BY <1>1, <1>2 DEF Plan

\* A list of operations that may be registered together, under names of A.
List(A, c, i, s, ops) ==
    /\ ops \in Seq(Op(Names(c), i))
    /\ \A k \in DOMAIN ops : Proper(c, i, s, ops[k]) /\ ops[k].res.name \in A
    /\ Distinct(c) => Once(ops)

\* A single operation, or one more.
LEMMA ListOne ==
    ASSUME NEW A, NEW c, NEW i, NEW s, NEW o, Proper(c, i, s, o), o.res.name \in A
    PROVE  List(A, c, i, s, << o >>)
<1>1. o \in Op(Names(c), i)
  BY DEF Proper
<1> QED
  BY <1>1 DEF List, Once

\* Two lists of resources that differ.
LEMMA ListJoin ==
    ASSUME NEW A, NEW c, NEW i, NEW s, NEW p, NEW q, List(A, c, i, s, p), List(A, c, i, s, q),
           \A k \in DOMAIN p : \A l \in DOMAIN q : p[k].res # q[l].res
    PROVE  List(A, c, i, s, p \o q)
<1> DEFINE S == Op(Names(c), i)
<1>1. p \in Seq(S) /\ q \in Seq(S) /\ (Distinct(c) => Once(p) /\ Once(q))
  BY DEF List
<1> HIDE DEF S
<1>2. Distinct(c) => Once(p \o q)
  BY <1>1, OnceJoin
<1>3. /\ p \o q \in Seq(S)
      /\ \A k \in DOMAIN (p \o q) :
            \/ k \in DOMAIN p /\ (p \o q)[k] = p[k]
            \/ k - Len(p) \in DOMAIN q /\ (p \o q)[k] = q[k - Len(p)]
  BY <1>1, JoinParts
<1> QED
  BY <1>2, <1>3 DEF List, S

\* The directory and ACL of a shared path and its parent.
LEMMA SharedList ==
    ASSUME NEW c, NEW i, NEW s, NEW x \in OwnNames \ {"wayland"},
           NEW y \in OwnNames \ {"wayland"}, x # y
    PROVE  List({x, y}, c, i, s, Shared(x, y)) /\ Shared(x, y)[3] = Ensure(y)
           /\ DOMAIN Shared(x, y) = 1 .. 4
<1> DEFINE o1 == Ensure(x)
           o2 == UpdatePermType(User, x, {})
           o3 == Ensure(y)
           o4 == UpdatePermType(User, y, {})
<1>1. Proper(c, i, s, o1) /\ Proper(c, i, s, o2) /\ Proper(c, i, s, o3) /\ Proper(c, i, s, o4)
  BY ProperOps
<1>2. /\ o1.res.name = x /\ o2.res.name = x /\ o3.res.name = y /\ o4.res.name = y
      /\ o1.res # o2.res /\ o3.res # o4.res
  BY DEF Ensure, UpdatePermType, Operation, Resource, Dir
<1>3. Shared(x, y) = << o1, o2, o3, o4 >>
  BY DEF Shared
<1>4. /\ o1 \in Op(Names(c), i) /\ o2 \in Op(Names(c), i)
      /\ o3 \in Op(Names(c), i) /\ o4 \in Op(Names(c), i)
  BY <1>1 DEF Proper
<1> HIDE DEF o1, o2, o3, o4
<1>5. o1.res # o3.res /\ o1.res # o4.res /\ o2.res # o3.res /\ o2.res # o4.res
  BY <1>2
<1>6. Once(<< o1, o2, o3, o4 >>)
  BY <1>2, <1>5 DEF Once
<1>7. << o1, o2, o3, o4 >> \in Seq(Op(Names(c), i))
  BY <1>4
<1>8. List({x, y}, c, i, s, << o1, o2, o3, o4 >>)
  BY <1>1, <1>2, <1>6, <1>7 DEF List
<1> QED
  BY <1>3, <1>8 DEF o3

\* Registering a list, with what it leaves alone.
LEMMA RegisterList ==
    ASSUME NEW T, NEW A, NEW c, NEW i, NEW s, Plan(T, c, i, s), NEW ops,
           List(A, c, i, s, ops), Distinct(c) => A \cap (T \cup Made(s)) = {}
    PROVE  LET t == Register(s, ops) IN
           /\ Plan(T \cup A, c, i, t)
           /\ \A k \in DOMAIN ops : Has(t, ops[k])
           /\ \A o : Has(s, o) => Has(t, o)
BY RegisterPlan DEF List

\* The directories in XDG_RUNTIME_DIR are there, and were registered by the first who asked.
LEMMA MakeRuntimeDir ==
    ASSUME NEW T, NEW c, Distinct(c) => T \cap MadeNames = {}, NEW i, NEW s, Plan(T, c, i, s)
    PROVE  /\ Plan(T, c, i, ensureRuntimeDir(s))
           /\ ensureRuntimeDir(s).runtimeSharePath = s.runtimeSharePath
<1> DEFINE ops == Shared("RuntimePath", "RunDirPath")
           A   == {"RuntimePath", "RunDirPath"}
           r   == Register(s, ops)
           t   == [r EXCEPT !.useRuntimeDir = TRUE]
<1>1. CASE s.useRuntimeDir
  BY <1>1 DEF ensureRuntimeDir
<1>2. CASE ~s.useRuntimeDir
  <2>1. s \in Sys(Names(c), i)
    BY DEF Plan
  <2>2. ensureRuntimeDir(s) = t
    <3>1. ensureRuntimeDir(s) = Register([s EXCEPT !.useRuntimeDir = TRUE], ops)
      BY <1>2 DEF ensureRuntimeDir, Shared
    <3> HIDE DEF ops
    <3> QED
      BY <2>1, <3>1 DEF Register, Sys
  <2>3. List(A, c, i, s, ops)
    BY SharedList DEF OwnNames
  <2>4. Distinct(c) => A \cap (T \cup Made(s)) = {}
    BY <1>2 DEF Made, MadeNames
  <2> HIDE DEF A, ops
  <2>5. Plan(T \cup A, c, i, r)
    BY <2>3, <2>4, RegisterList
  <2>6. r \in Sys(Names(c), i)
    BY <2>5 DEF Plan
  <2>7. /\ t \in Sys(Names(c), i) /\ t.sys = r.sys /\ t.Ops = r.Ops /\ t.useRuntimeDir
        /\ t.sharePath = r.sharePath /\ t.runtimeSharePath = r.runtimeSharePath
        /\ r.runtimeSharePath = s.runtimeSharePath
    BY <2>1, <2>6 DEF Sys, Register
  <2> HIDE DEF t, r
  <2>8. Held(i, t)
    BY <2>5, <2>7 DEF Plan, Held, Has
  <2>9. A \subseteq Made(t) /\ Made(r) \subseteq Made(t)
    BY <2>7 DEF Made, MadeNames, A
  <2>10. Plan(T, c, i, t)
    BY <2>5, <2>7, <2>8, <2>9, FlagPlan
  <2> QED
    BY <2>2, <2>7, <2>10
<1> QED
  BY <1>1, <1>2 DEF Plan, Sys

\* The directory of the instance in TMPDIR.
LEMMA MakeInstance ==
    ASSUME NEW T, NEW c, Distinct(c) => T \cap MadeNames = {}, NEW i, NEW s, Plan(T, c, i, s)
    PROVE  Plan(T, c, i, instance(i, s)) /\ Has(instance(i, s), ShareDir(i))
<1> DEFINE ops == << ShareDir(i) >>
           A   == {"share"}
           r   == Register(s, ops)
           t   == [r EXCEPT !.sharePath = TRUE]
<1>1. CASE s.sharePath
  BY <1>1 DEF instance, Plan, Held
<1>2. CASE ~s.sharePath
  <2>1. s \in Sys(Names(c), i)
    BY DEF Plan
  <2>2. instance(i, s) = t
    <3>1. instance(i, s) = Register([s EXCEPT !.sharePath = TRUE], ops)
      BY <1>2 DEF instance, ShareDir
    <3> HIDE DEF ops
    <3> QED
      BY <2>1, <3>1 DEF Register, Sys
  <2>3. List(A, c, i, s, ops)
    <3>1. Proper(c, i, s, ShareDir(i))
      BY ProperOps DEF ShareDir, OwnNames
    <3>2. ShareDir(i).res.name = "share"
      BY DEF ShareDir, Ephemeral, Operation, Dir, Resource
    <3> QED
      BY <3>1, <3>2, ListOne
  <2>4. Distinct(c) => A \cap (T \cup Made(s)) = {}
    BY <1>2 DEF Made, MadeNames
  <2>5. 1 \in DOMAIN ops /\ ops[1] = ShareDir(i)
    OBVIOUS
  <2> HIDE DEF A, ops
  <2>6. Plan(T \cup A, c, i, r) /\ Has(r, ShareDir(i))
    BY <2>3, <2>4, <2>5, RegisterList
  <2>7. r \in Sys(Names(c), i)
    BY <2>6 DEF Plan
  <2>8. /\ t \in Sys(Names(c), i) /\ t.sys = r.sys /\ t.Ops = r.Ops /\ t.sharePath
        /\ t.useRuntimeDir = r.useRuntimeDir /\ t.runtimeSharePath = r.runtimeSharePath
    BY <2>7 DEF Sys
  <2> HIDE DEF t, r
  <2>9. Held(i, t) /\ Has(t, ShareDir(i))
    BY <2>6, <2>8 DEF Plan, Held, Has
  <2>10. A \subseteq Made(t) /\ Made(r) \subseteq Made(t)
    BY <2>8 DEF Made, MadeNames, A
  <2>11. Plan(T, c, i, t)
    BY <2>6, <2>8, <2>9, <2>10, FlagPlan
  <2> QED
    BY <2>2, <2>9, <2>11
<1> QED
  BY <1>1, <1>2 DEF Plan, Sys

\* The directory of the instance in XDG_RUNTIME_DIR.
LEMMA MakeRuntime ==
    ASSUME NEW T, NEW c, Distinct(c) => T \cap MadeNames = {}, NEW i, NEW s, Plan(T, c, i, s)
    PROVE  Plan(T, c, i, runtime(i, s)) /\ Has(runtime(i, s), RunDir(i))
<1> DEFINE acl == UpdatePermType(Process, "run", {i})
           ops == << RunDir(i), acl >>
           A   == {"run"}
           u   == ensureRuntimeDir(s)
           r   == Register(u, ops)
           t   == [r EXCEPT !.runtimeSharePath = TRUE]
<1>1. CASE s.runtimeSharePath
  BY <1>1 DEF runtime, Plan, Held
<1>2. CASE ~s.runtimeSharePath
  <2>1. Plan(T, c, i, u) /\ ~u.runtimeSharePath
    BY <1>2, MakeRuntimeDir
  <2> HIDE DEF u
  <2>2. u \in Sys(Names(c), i)
    BY <2>1 DEF Plan
  <2>3. runtime(i, s) = t
    <3>1. runtime(i, s) = Register([u EXCEPT !.runtimeSharePath = TRUE], ops)
      BY <1>2 DEF runtime, RunDir, u
    <3> HIDE DEF ops
    <3> QED
      BY <2>2, <3>1 DEF Register, Sys
  <2>4. List(A, c, i, u, ops)
    <3>1. Proper(c, i, u, RunDir(i)) /\ Proper(c, i, u, acl)
      BY ProperOps DEF RunDir, OwnNames
    <3>2. RunDir(i).res.name = "run" /\ acl.res.name = "run" /\ RunDir(i).res # acl.res
      BY DEF RunDir, Ephemeral, UpdatePermType, Operation, Dir, Resource
    <3>3. RunDir(i) \in Op(Names(c), i) /\ acl \in Op(Names(c), i)
      BY <3>1 DEF Proper
    <3> HIDE DEF acl
    <3>4. ops \in Seq(Op(Names(c), i)) /\ Once(ops)
      BY <3>2, <3>3 DEF Once
    <3> QED
      BY <3>1, <3>2, <3>4 DEF List
  <2>5. Distinct(c) => A \cap (T \cup Made(u)) = {}
    BY <2>1 DEF Made, MadeNames
  <2>6. 1 \in DOMAIN ops /\ ops[1] = RunDir(i)
    OBVIOUS
  <2> HIDE DEF A, ops
  <2>7. Plan(T \cup A, c, i, r) /\ Has(r, RunDir(i))
    BY <2>1, <2>4, <2>5, <2>6, RegisterList
  <2>8. r \in Sys(Names(c), i)
    BY <2>7 DEF Plan
  <2>9. /\ t \in Sys(Names(c), i) /\ t.sys = r.sys /\ t.Ops = r.Ops /\ t.runtimeSharePath
        /\ t.useRuntimeDir = r.useRuntimeDir /\ t.sharePath = r.sharePath
    BY <2>8 DEF Sys
  <2> HIDE DEF t, r
  <2>10. Held(i, t) /\ Has(t, RunDir(i))
    BY <2>7, <2>9 DEF Plan, Held, Has
  <2>11. A \subseteq Made(t) /\ Made(r) \subseteq Made(t)
    BY <2>9 DEF Made, MadeNames, A
  <2>12. Plan(T, c, i, t)
    BY <2>7, <2>9, <2>10, <2>11, FlagPlan
  <2> QED
    BY <2>3, <2>10, <2>12
<1> QED
  BY <1>1, <1>2 DEF Plan, Sys

\* The names an outcomeOp registers by itself.
NamesOf(op, c) ==
    CASE op = "params"     -> {"SharePath"}
      [] op = "cgroup"     -> {"cgroup"}
      [] op = "runtime"    -> {"runtime", "runtimeInst"}
      [] op = "tmpdir"     -> {"tmpdir", "tmpdirInst"}
      [] op = "wayland"    -> {"wayland"}
      [] op = "x11"        -> {c.display}
      [] op = "pulse"      -> {"pulse"}
      [] op = "dbus"       -> {"bus", "system_bus_socket"}
      [] op = "filesystem" -> Paths(c.extraPerms)

\* What an outcomeOp may find: a plan that has none of its names.
Ready(op, T, c, i, s) ==
    /\ Config(c) /\ Plan(T, c, i, s)
    /\ Distinct(c) => T \cap (MadeNames \cup NamesOf(op, c)) = {}

\* The names of an outcomeOp are not those of directories that are shared.
LEMMA NamesFree ==
    ASSUME NEW op \in ToSet(outcomeOps), NEW c, Distinct(c)
    PROVE  NamesOf(op, c) \cap MadeNames = {}
<1>1. op \in {"params", "cgroup", "runtime", "tmpdir", "wayland", "x11", "pulse", "dbus",
              "filesystem"}
  BY DEF ToSet, outcomeOps
<1>2. MadeNames \subseteq OwnNames
  BY DEF MadeNames, OwnNames
<1>3. CASE op \in {"x11", "filesystem"}
  BY <1>2, <1>3 DEF NamesOf, Paths, Distinct
<1>4. CASE op \notin {"x11", "filesystem"}
  BY <1>1, <1>4 DEF NamesOf, MadeNames
<1> QED
  BY <1>3, <1>4

\* What is registered serves as a source.
LEMMA HasServes ==
    ASSUME NEW s, NEW o, Has(s, o)
    PROVE  Serves(s, Source(o.res.name, o.res.owner))
BY DEF Has, Serves, Source

\* spParamsOp.
LEMMA ParamsPlan ==
    ASSUME NEW T, NEW c, NEW i, NEW s, Ready("params", T, c, i, s)
    PROVE  Plan(T \cup NamesOf("params", c), c, i, spParamsOp(c, i, s))
<1> DEFINE o == Ensure("SharePath")
<1>1. NamesOf("params", c) = {"SharePath"}
  BY DEF NamesOf
<1>2. Proper(c, i, s, o) /\ o.res.name = "SharePath"
  <2>1. Proper(c, i, s, o)
    BY ProperOps DEF OwnNames
  <2> QED
    BY <2>1 DEF Ensure, Operation, Dir, Resource
<1>3. Distinct(c) => {"SharePath"} \cap (T \cup Made(s)) = {}
  BY <1>1 DEF Ready, Made, MadeNames
<1> HIDE DEF o
<1>4. List({"SharePath"}, c, i, s, << o >>)
  BY <1>2, ListOne
<1>5. Plan(T \cup {"SharePath"}, c, i, Register(s, << o >>))
  BY <1>3, <1>4, RegisterList DEF Ready
<1> QED
  BY <1>1, <1>5 DEF spParamsOp, o

\* spCgroupOp.
LEMMA CgroupPlan ==
    ASSUME NEW T, NEW c, NEW i, NEW s, Ready("cgroup", T, c, i, s)
    PROVE  Plan(T \cup NamesOf("cgroup", c), c, i, spCgroupOp(c, i, s))
<1> DEFINE o == Cgroup("cgroup", {i})
           r == Register(s, << o >>)
<1>1. NamesOf("cgroup", c) = {"cgroup"}
  BY DEF NamesOf
<1>2. Proper(c, i, s, o)
  BY ProperOps DEF OwnNames
<1>3. o.res.name = "cgroup" /\ o.res.owner = {i}
  BY DEF Cgroup, Operation, Resource
<1>4. Distinct(c) => {"cgroup"} \cap (T \cup Made(s)) = {}
  BY <1>1 DEF Ready, Made, MadeNames
<1> HIDE DEF o
<1>5. List({"cgroup"}, c, i, s, << o >>)
  BY <1>2, <1>3, ListOne
<1>6. Plan(T \cup {"cgroup"}, c, i, r) /\ Has(r, o)
  BY <1>4, <1>5, RegisterList DEF Ready
<1>7. Serves(r, Source("cgroup", {i}))
  BY <1>3, <1>6, HasServes
<1> HIDE DEF r
<1>8. Plan(T \cup {"cgroup"}, c, i, Enabled(r, "cgroup"))
  BY <1>6, <1>7, EnabledPlan DEF toContainer, Transmitted
<1>9. spCgroupOp(c, i, s) = IF c.cgroup THEN Enabled(r, "cgroup") ELSE s
  BY DEF spCgroupOp, Optional, r, o
<1>10. Plan(T \cup {"cgroup"}, c, i, s)
  BY WidenPlan DEF Ready
<1> QED
  BY <1>1, <1>8, <1>9, <1>10

\* spRuntimeOp.
LEMMA RuntimePlan ==
    ASSUME NEW T, NEW c, NEW i, NEW s, Ready("runtime", T, c, i, s)
    PROVE  Plan(T \cup NamesOf("runtime", c), c, i, spRuntimeOp(c, i, s))
<1> DEFINE A   == {"runtime", "runtimeInst"}
           ops == Shared("runtime", "runtimeInst")
           r   == Register(s, ops)
           t   == IF c.shareRuntime THEN r ELSE s
<1>1. NamesOf("runtime", c) = A
  BY DEF NamesOf
<1>2. /\ List(A, c, i, s, ops) /\ ops[3] = Ensure("runtimeInst") /\ 3 \in DOMAIN ops
  BY SharedList DEF OwnNames
<1>3. Distinct(c) => A \cap (T \cup Made(s)) = {}
  BY <1>1 DEF Ready, Made, MadeNames
<1> HIDE DEF A, ops
<1>4. Plan(T \cup A, c, i, r) /\ Has(r, Ensure("runtimeInst"))
  BY <1>2, <1>3, RegisterList DEF Ready
<1>5. Serves(r, Source("runtimeInst", {}))
  <2>1. Ensure("runtimeInst").res.name = "runtimeInst" /\ Ensure("runtimeInst").res.owner = {}
    BY DEF Ensure, Operation, Dir, Resource
  <2> QED
    BY <1>4, <2>1, HasServes
<1> HIDE DEF r
<1>6. Plan(T \cup A, c, i, t)
  BY <1>4, WidenPlan DEF Ready
<1>7. \A src \in toContainer("runtime", c, i) : Serves(t, src)
  BY <1>5 DEF toContainer
<1> HIDE DEF t
<1>8. Plan(T \cup A, c, i, Enabled(t, "runtime"))
  BY <1>6, <1>7, EnabledPlan DEF Transmitted
<1> QED
  BY <1>1, <1>8 DEF spRuntimeOp, Optional, t, r, ops

\* spTmpdirOp.
LEMMA TmpdirPlan ==
    ASSUME NEW T, NEW c, NEW i, NEW s, Ready("tmpdir", T, c, i, s)
    PROVE  Plan(T \cup NamesOf("tmpdir", c), c, i, spTmpdirOp(c, i, s))
<1> DEFINE A   == {"tmpdir", "tmpdirInst"}
           ops == Shared("tmpdir", "tmpdirInst")
           r   == Register(s, ops)
           t   == IF c.shareTmpdir THEN r ELSE s
<1>1. NamesOf("tmpdir", c) = A
  BY DEF NamesOf
<1>2. /\ List(A, c, i, s, ops) /\ ops[3] = Ensure("tmpdirInst") /\ 3 \in DOMAIN ops
  BY SharedList DEF OwnNames
<1>3. Distinct(c) => A \cap (T \cup Made(s)) = {}
  BY <1>1 DEF Ready, Made, MadeNames
<1> HIDE DEF A, ops
<1>4. Plan(T \cup A, c, i, r) /\ Has(r, Ensure("tmpdirInst"))
  BY <1>2, <1>3, RegisterList DEF Ready
<1>5. Serves(r, Source("tmpdirInst", {}))
  <2>1. Ensure("tmpdirInst").res.name = "tmpdirInst" /\ Ensure("tmpdirInst").res.owner = {}
    BY DEF Ensure, Operation, Dir, Resource
  <2> QED
    BY <1>4, <2>1, HasServes
<1> HIDE DEF r
<1>6. Plan(T \cup A, c, i, t)
  BY <1>4, WidenPlan DEF Ready
<1>7. \A src \in toContainer("tmpdir", c, i) : Serves(t, src)
  BY <1>5 DEF toContainer
<1> HIDE DEF t
<1>8. Plan(T \cup A, c, i, Enabled(t, "tmpdir"))
  BY <1>6, <1>7, EnabledPlan DEF Transmitted
<1> QED
  BY <1>1, <1>8 DEF spTmpdirOp, Optional, t, r, ops

\* spWaylandOp.
LEMMA WaylandPlan ==
    ASSUME NEW T, NEW c, NEW i, NEW s, Ready("wayland", T, c, i, s)
    PROVE  Plan(T \cup NamesOf("wayland", c), c, i, spWaylandOp(c, i, s))
<1> DEFINE A == {"wayland"}
           o == IF c.directWayland THEN UpdatePermType("EWayland", "wayland", {})
                ELSE Wayland("wayland", {i}, SharePath(i))
           u == IF c.directWayland THEN ensureRuntimeDir(s) ELSE instance(i, s)
           r == Register(u, << o >>)
<1>1. NamesOf("wayland", c) = A
  BY DEF NamesOf
<1>2. Distinct(c) => T \cap MadeNames = {}
  BY DEF Ready
<1>3. Plan(T, c, i, u) /\ (~c.directWayland => Has(u, ShareDir(i)))
  BY <1>2, MakeRuntimeDir, MakeInstance DEF Ready
<1>4. o.res.name = "wayland" /\ o.res.owner = IF c.directWayland THEN {} ELSE {i}
  BY DEF UpdatePermType, Wayland, Operation, Resource
<1> HIDE DEF u
<1>5. ASSUME "EWayland" \in c.et PROVE Proper(c, i, u, o)
  <2>1. CASE c.directWayland
    BY <1>5, <2>1, ProperOps
  <2>2. CASE ~c.directWayland
    <3>1. Proper(c, i, u, Wayland("wayland", {i}, SharePath(i)))
      BY <1>3, <2>2, ProperOps DEF OwnNames
    <3> QED
      BY <2>2, <3>1
  <2> QED
    BY <2>1, <2>2
<1>6. Distinct(c) => A \cap (T \cup Made(u)) = {}
  BY <1>1 DEF Ready, Made, MadeNames
<1> HIDE DEF A, o
<1>7. ASSUME "EWayland" \in c.et PROVE Plan(T \cup A, c, i, Enabled(r, "wayland"))
  <2>1. List(A, c, i, u, << o >>)
    BY <1>4, <1>5, <1>7, ListOne DEF A
  <2>2. Plan(T \cup A, c, i, r) /\ Has(r, o)
    BY <1>3, <1>6, <2>1, RegisterList
  <2>3. Serves(r, Source("wayland", IF c.directWayland THEN {} ELSE {i}))
    BY <1>4, <2>2, HasServes
  <2> HIDE DEF r
  <2>4. \A src \in toContainer("wayland", c, i) : Serves(r, src)
    BY <2>3 DEF toContainer
  <2> QED
    BY <2>2, <2>4, EnabledPlan DEF Transmitted
<1>8. spWaylandOp(c, i, s) = IF "EWayland" \in c.et THEN Enabled(r, "wayland") ELSE s
  BY DEF spWaylandOp, Optional, r, u, o
<1>9. Plan(T \cup A, c, i, s)
  BY WidenPlan DEF Ready
<1> QED
  BY <1>1, <1>7, <1>8, <1>9

\* spPulseOp.
LEMMA PulsePlan ==
    ASSUME NEW T, NEW c, NEW i, NEW s, Ready("pulse", T, c, i, s)
    PROVE  Plan(T \cup NamesOf("pulse", c), c, i, spPulseOp(c, i, s))
<1> DEFINE A == {"pulse"}
           o == LinkFileType(Process, "pulse", {i}, RuntimePath(i))
           u == runtime(i, s)
           r == Register(u, << o >>)
<1>1. NamesOf("pulse", c) = A
  BY DEF NamesOf
<1>2. Distinct(c) => T \cap MadeNames = {}
  BY DEF Ready
<1>3. Plan(T, c, i, u) /\ Has(u, RunDir(i))
  BY <1>2, MakeRuntime DEF Ready
<1>4. o.res.name = "pulse" /\ o.res.owner = {i}
  BY DEF LinkFileType, Operation, Resource
<1> HIDE DEF u
<1>5. Proper(c, i, u, o)
  BY <1>3, ProperOps DEF OwnNames
<1>6. Distinct(c) => A \cap (T \cup Made(u)) = {}
  BY <1>1 DEF Ready, Made, MadeNames
<1> HIDE DEF A, o
<1>7. List(A, c, i, u, << o >>)
  BY <1>4, <1>5, ListOne DEF A
<1>8. Plan(T \cup A, c, i, r) /\ Has(r, o)
  BY <1>3, <1>6, <1>7, RegisterList
<1>9. Serves(r, Source("pulse", {i}))
  BY <1>4, <1>8, HasServes
<1> HIDE DEF r
<1>10. Plan(T \cup A, c, i, Enabled(r, "pulse"))
  BY <1>8, <1>9, EnabledPlan DEF toContainer, Transmitted
<1>11. spPulseOp(c, i, s) = IF "EPulse" \in c.et THEN Enabled(r, "pulse") ELSE s
  BY DEF spPulseOp, Optional, r, u, o
<1>12. Plan(T \cup A, c, i, s)
  BY WidenPlan DEF Ready
<1> QED
  BY <1>1, <1>10, <1>11, <1>12

\* spX11Op.
LEMMA X11Plan ==
    ASSUME NEW T, NEW c, NEW i, NEW s, Ready("x11", T, c, i, s)
    PROVE  Plan(T \cup NamesOf("x11", c), c, i, spX11Op(c, i, s))
<1> DEFINE A   == {c.display}
           a   == UpdatePermType("EX11", c.display, {})
           h   == ChangeHosts(c.display)
           ops == (IF c.x11Socket THEN << a >> ELSE << >>) \o << h >>
           r   == Register(s, ops)
<1>1. NamesOf("x11", c) = A
  BY DEF NamesOf
<1>2. a.res.name = c.display /\ h.res.name = c.display /\ a.res # h.res
  BY DEF UpdatePermType, ChangeHosts, Operation, Resource
<1>3. Distinct(c) => A \cap (T \cup Made(s)) = {}
  <2>1. "x11" \in ToSet(outcomeOps)
    BY DEF ToSet, outcomeOps
  <2>2. Distinct(c) => A \cap MadeNames = {}
    BY <1>1, <2>1, NamesFree
  <2>3. Made(s) \subseteq MadeNames
    BY DEF Made
  <2>4. Distinct(c) => T \cap A = {}
    BY <1>1 DEF Ready
  <2> HIDE DEF A
  <2> QED
    BY <2>2, <2>3, <2>4
<1>4. ASSUME "EX11" \in c.et PROVE List(A, c, i, s, ops)
  <2>1. Proper(c, i, s, a) /\ Proper(c, i, s, h)
    BY <1>4, ProperOps
  <2> HIDE DEF a, h
  <2>2. List(A, c, i, s, << a >>) /\ List(A, c, i, s, << h >>)
    BY <1>2, <2>1, ListOne
  <2>3. List(A, c, i, s, << >>)
    BY EmptySeq DEF List, Once
  <2>4. List(A, c, i, s, << a >> \o << h >>)
    <3>1. \A k \in DOMAIN << a >> : \A l \in DOMAIN << h >> : << a >>[k].res # << h >>[l].res
      BY <1>2
    <3> QED
      BY <2>2, <3>1, ListJoin
  <2>5. List(A, c, i, s, << >> \o << h >>)
    <3>1. \A k \in DOMAIN << >> : \A l \in DOMAIN << h >> : << >>[k].res # << h >>[l].res
      OBVIOUS
    <3> QED
      BY <2>2, <2>3, <3>1, ListJoin
  <2> QED
    BY <2>4, <2>5
<1> HIDE DEF A, ops
<1>5. ASSUME "EX11" \in c.et PROVE Plan(T \cup A, c, i, Enabled(r, "x11"))
  <2>1. Plan(T \cup A, c, i, r)
    BY <1>3, <1>4, <1>5, RegisterList DEF Ready
  <2> HIDE DEF r
  <2> QED
    BY <2>1, EnabledPlan DEF toContainer, Transmitted
<1>6. spX11Op(c, i, s) = IF "EX11" \in c.et THEN Enabled(r, "x11") ELSE s
  BY DEF spX11Op, Optional, ops
<1>7. Plan(T \cup A, c, i, s)
  BY WidenPlan DEF Ready
<1> QED
  BY <1>1, <1>5, <1>6, <1>7

\* spDBusOp.
LEMMA DBusPlan ==
    ASSUME NEW T, NEW c, NEW i, NEW s, Ready("dbus", T, c, i, s)
    PROVE  Plan(T \cup NamesOf("dbus", c), c, i, spDBusOp(c, i, s))
<1> DEFINE A   == {"bus", "system_bus_socket"}
           d   == ProxyDBus("bus", {i}, SharePath(i))
           a   == UpdatePermType(Process, "bus", {i})
           y   == UpdatePermType(Process, "system_bus_socket", {i})
           ops == << d, a >> \o (IF c.systemBus THEN << y >> ELSE << >>)
           u   == instance(i, s)
           r   == Register(u, ops)
<1>1. NamesOf("dbus", c) = A
  BY DEF NamesOf
<1>2. Distinct(c) => T \cap MadeNames = {}
  BY DEF Ready
<1>3. Plan(T, c, i, u) /\ Has(u, ShareDir(i))
  BY <1>2, MakeInstance DEF Ready
<1>4. /\ d.res.name = "bus" /\ d.res.owner = {i} /\ a.res.name = "bus"
      /\ y.res.name = "system_bus_socket" /\ y.res.owner = {i} /\ d.res # a.res
  BY DEF ProxyDBus, UpdatePermType, Operation, Resource
<1> HIDE DEF u
<1>5. Proper(c, i, u, d) /\ Proper(c, i, u, a) /\ Proper(c, i, u, y)
  BY <1>3, ProperOps DEF OwnNames
<1>6. Distinct(c) => A \cap (T \cup Made(u)) = {}
  BY <1>1 DEF Ready, Made, MadeNames
<1> HIDE DEF d, a, y
<1>7. List(A, c, i, u, << d, a >>)
  <2>1. d \in Op(Names(c), i) /\ a \in Op(Names(c), i)
    BY <1>5 DEF Proper
  <2>2. << d, a >> \in Seq(Op(Names(c), i)) /\ Once(<< d, a >>)
    BY <1>4, <2>1 DEF Once
  <2> QED
    BY <1>4, <1>5, <2>2 DEF List
<1>8. List(A, c, i, u, << y >>) /\ List(A, c, i, u, << >>)
  <2>1. List(A, c, i, u, << y >>)
    BY <1>4, <1>5, ListOne
  <2>2. List(A, c, i, u, << >>)
    BY EmptySeq DEF List, Once
  <2> QED
    BY <2>1, <2>2
<1>9. List(A, c, i, u, ops)
  <2>1. List(A, c, i, u, << d, a >> \o << y >>)
    <3>1. \A k \in DOMAIN << d, a >> : \A l \in DOMAIN << y >> : << d, a >>[k].res # << y >>[l].res
      BY <1>4
    <3> QED
      BY <1>7, <1>8, <3>1, ListJoin
  <2>2. List(A, c, i, u, << d, a >> \o << >>)
    <3>1. \A k \in DOMAIN << d, a >> : \A l \in DOMAIN << >> : << d, a >>[k].res # << >>[l].res
      OBVIOUS
    <3> QED
      BY <1>7, <1>8, <3>1, ListJoin
  <2> QED
    BY <2>1, <2>2
<1>10. /\ \E k \in DOMAIN ops : ops[k] = d
       /\ c.systemBus => \E k \in DOMAIN ops : ops[k] = y
  <2> DEFINE S == Op(Names(c), i)
             p == << d, a >>
             q == IF c.systemBus THEN << y >> ELSE << >>
  <2>1. p \in Seq(S) /\ q \in Seq(S)
    BY <1>7, <1>8 DEF List
  <2>2. 1 \in DOMAIN p /\ p[1] = d /\ (c.systemBus => 1 \in DOMAIN q /\ q[1] = y)
    OBVIOUS
  <2>3. ops = p \o q
    OBVIOUS
  <2> HIDE DEF p, q, ops, S
  <2> QED
    BY <2>1, <2>2, <2>3, JoinParts
<1> HIDE DEF A, ops
<1>11. Plan(T \cup A, c, i, r) /\ Has(r, d) /\ (c.systemBus => Has(r, y))
  <2>1. Plan(T \cup A, c, i, r) /\ \A k \in DOMAIN ops : Has(r, ops[k])
    BY <1>3, <1>6, <1>9, RegisterList
  <2> QED
    BY <1>10, <2>1
<1>12. Serves(r, Source("bus", {i})) /\ (c.systemBus => Serves(r, Source("system_bus_socket", {i})))
  BY <1>4, <1>11, HasServes
<1> HIDE DEF r
<1>13. \A src \in toContainer("dbus", c, i) : Serves(r, src)
  BY <1>12 DEF toContainer
<1>14. Plan(T \cup A, c, i, Enabled(r, "dbus"))
  BY <1>11, <1>13, EnabledPlan DEF Transmitted
<1>15. spDBusOp(c, i, s) = IF "EDBus" \in c.et THEN Enabled(r, "dbus") ELSE s
  BY DEF spDBusOp, Optional, r, u, ops, d, a, y
<1>16. Plan(T \cup A, c, i, s)
  BY WidenPlan DEF Ready
<1> QED
  BY <1>1, <1>14, <1>15, <1>16

\* spFilesystemOp.
LEMMA FilesystemPlan ==
    ASSUME NEW T, NEW c, NEW i, NEW s, Ready("filesystem", T, c, i, s)
    PROVE  Plan(T \cup NamesOf("filesystem", c), c, i, spFilesystemOp(c, i, s))
<1> DEFINE A == Paths(c.extraPerms)
           f == flattenExtraPerms(c.extraPerms)
<1>1. NamesOf("filesystem", c) = A
  BY DEF NamesOf
<1>2. c.extraPerms \in Seq(Perms) /\ A \subseteq Names(c)
  BY DEF Ready, Config, Perms, Names
<1>3. /\ f \in Seq(Op(Names(c), i))
      /\ \A k \in DOMAIN f : \E p \in A : f[k] \in EntryOps(p)
      /\ (\A k, l \in DOMAIN c.extraPerms : k # l => c.extraPerms[k].path # c.extraPerms[l].path)
            => Once(f)
  <2> DEFINE P == c.extraPerms
  <2>1. P \in Seq(Perms) /\ Paths(P) \subseteq Names(c)
    BY <1>2
  <2> HIDE DEF P
  <2> QED
    BY <2>1, Flattened DEF P
<1> HIDE DEF f
<1>4. ASSUME NEW k \in DOMAIN f PROVE Proper(c, i, s, f[k]) /\ f[k].res.name \in A
  <2>1. PICK p \in A : f[k] \in EntryOps(p)
    BY <1>3
  <2>2. \A o \in EntryOps(p) : Proper(c, i, s, o) /\ o.res.name = p
    <3>1. Proper(c, i, s, Ensure(p)) /\ Proper(c, i, s, UpdatePermType(User, p, {}))
      BY ProperOps
    <3>2. Ensure(p).res.name = p /\ UpdatePermType(User, p, {}).res.name = p
      BY DEF Ensure, UpdatePermType, Operation, Dir, Resource
    <3> QED
      BY <3>1, <3>2 DEF EntryOps
  <2> QED
    BY <2>1, <2>2
<1>5. List(A, c, i, s, f)
  BY <1>3, <1>4 DEF List, Distinct
<1>6. Distinct(c) => A \cap (T \cup Made(s)) = {}
  <2>1. "filesystem" \in ToSet(outcomeOps)
    BY DEF ToSet, outcomeOps
  <2>2. Distinct(c) => A \cap MadeNames = {}
    BY <1>1, <2>1, NamesFree
  <2>3. Made(s) \subseteq MadeNames
    BY DEF Made
  <2>4. Distinct(c) => T \cap A = {}
    BY <1>1 DEF Ready
  <2> HIDE DEF A
  <2> QED
    BY <2>2, <2>3, <2>4
<1> HIDE DEF A
<1>7. Plan(T \cup A, c, i, Register(s, f))
  BY <1>5, <1>6, RegisterList DEF Ready
<1> QED
  BY <1>1, <1>7 DEF spFilesystemOp, f

\* The names of the outcomeOps that have run.
Taken(n, c) == UNION {NamesOf(outcomeOps[m], c) : m \in 1 .. n}

\* No two outcomeOps register the same name.
LEMMA NamesApart ==
    ASSUME NEW c, Distinct(c), NEW n \in 1 .. 9, NEW m \in 1 .. 9, m < n
    PROVE  NamesOf(outcomeOps[m], c) \cap NamesOf(outcomeOps[n], c) = {}
<1> DEFINE Fixed(k) == k \in {1, 2, 3, 4, 5, 7, 8}
<1>1. \A k \in 1 .. 9 : k \in {1, 2, 3, 4, 5, 6, 7, 8, 9}
  OBVIOUS
<1>2. /\ NamesOf(outcomeOps[1], c) = {"SharePath"}
      /\ NamesOf(outcomeOps[2], c) = {"cgroup"}
      /\ NamesOf(outcomeOps[3], c) = {"runtime", "runtimeInst"}
      /\ NamesOf(outcomeOps[4], c) = {"tmpdir", "tmpdirInst"}
      /\ NamesOf(outcomeOps[5], c) = {"wayland"}
      /\ NamesOf(outcomeOps[6], c) = {c.display}
      /\ NamesOf(outcomeOps[7], c) = {"pulse"}
      /\ NamesOf(outcomeOps[8], c) = {"bus", "system_bus_socket"}
      /\ NamesOf(outcomeOps[9], c) = Paths(c.extraPerms)
  BY DEF NamesOf, outcomeOps
<1>3. /\ c.display \notin OwnNames /\ Paths(c.extraPerms) \cap OwnNames = {}
      /\ c.display \notin Paths(c.extraPerms)
  BY DEF Distinct, Paths
<1>4. ASSUME NEW k \in 1 .. 9, Fixed(k) PROVE NamesOf(outcomeOps[k], c) \subseteq OwnNames
  BY <1>2, <1>4 DEF OwnNames
<1>5. CASE Fixed(m) /\ Fixed(n)
  BY <1>2, <1>5
<1>6. CASE ~Fixed(n)
  <2>1. n = 6 \/ n = 9
    BY <1>1, <1>6
  <2>2. Fixed(m) \/ (m = 6 /\ n = 9)
    BY <1>1, <2>1
  <2> QED
    BY <1>2, <1>3, <1>4, <2>1, <2>2
<1>7. CASE ~Fixed(m) /\ Fixed(n)
  <2>1. m = 6
    BY <1>1, <1>7
  <2> QED
    BY <1>2, <1>3, <1>4, <1>7, <2>1
<1> QED
  BY <1>5, <1>6, <1>7

\* Each outcomeOp extends the plan.
LEMMA RunOpPlan ==
    ASSUME NEW c, Config(c), NEW i, NEW s, NEW n \in 0 .. 8, Plan(Taken(n, c), c, i, s)
    PROVE  Plan(Taken(n + 1, c), c, i, runOp(outcomeOps[n + 1], c, i, s))
<1> DEFINE op == outcomeOps[n + 1]
           T  == Taken(n, c)
<1>1. op \in {"params", "cgroup", "runtime", "tmpdir", "wayland", "x11", "pulse", "dbus",
              "filesystem"} /\ op \in ToSet(outcomeOps)
  BY DEF outcomeOps, ToSet
<1>2. Taken(n + 1, c) = T \cup NamesOf(op, c)
  <2>1. 1 .. (n + 1) = (1 .. n) \cup {n + 1}
    OBVIOUS
  <2> QED
    BY <2>1 DEF Taken
<1>3. Ready(op, T, c, i, s)
  <2>1. ASSUME Distinct(c) PROVE T \cap MadeNames = {}
    <3>1. \A m \in 1 .. n : outcomeOps[m] \in ToSet(outcomeOps)
      BY DEF ToSet, outcomeOps
    <3>2. \A m \in 1 .. n : NamesOf(outcomeOps[m], c) \cap MadeNames = {}
      BY <2>1, <3>1, NamesFree
    <3> QED
      BY <3>2 DEF Taken
  <2>2. ASSUME Distinct(c) PROVE T \cap NamesOf(op, c) = {}
    <3>1. \A m \in 1 .. n : NamesOf(outcomeOps[m], c) \cap NamesOf(outcomeOps[n + 1], c) = {}
      <4>1. n + 1 \in 1 .. 9 /\ \A m \in 1 .. n : m \in 1 .. 9 /\ m < n + 1
        OBVIOUS
      <4> QED
        BY <2>2, <4>1, NamesApart
    <3> QED
      BY <3>1 DEF Taken
  <2> HIDE DEF T, op
  <2> QED
    BY <2>1, <2>2 DEF Ready, T
<1> HIDE DEF T, op
<1>4. Plan(T \cup NamesOf(op, c), c, i, runOp(op, c, i, s))
  BY <1>1, <1>3, ParamsPlan, CgroupPlan, RuntimePlan, TmpdirPlan, WaylandPlan, X11Plan,
     PulsePlan, DBusPlan, FilesystemPlan DEF runOp
<1> QED
  BY <1>2, <1>4 DEF op

\* How far toSystem has come, and with which plan.
Planning ==
    /\ Config(config) /\ ran \in 0 .. Len(outcomeOps)
    /\ Plan(Taken(ran, config), config, self, state)

\* There are nine outcomeOps.
LEMMA NineOps == Len(outcomeOps) = 9
BY DEF outcomeOps

\* The plan newSys begins with.
LEMMA EmptyPlan == ASSUME NEW c, NEW i PROVE Plan(Taken(0, c), c, i, NewSys)
<1>1. << >> \in Seq(Op(Names(c), i)) /\ << >> \in Seq(Transmitted) /\ DOMAIN << >> = {}
  BY EmptySeq
<1>2. NewSys \in Sys(Names(c), i)
  BY <1>1 DEF NewSys, Sys
<1>3. /\ NewSys.sys = << >> /\ NewSys.Ops = << >>
      /\ ~NewSys.sharePath /\ ~NewSys.runtimeSharePath
  BY DEF NewSys
<1> QED
  BY <1>1, <1>2, <1>3 DEF Plan, Ordered, Held, Provided, Scoped, Single, Once

\* Every step of a launch keeps the plan, or extends it by the next outcomeOp.
LEMMA PlanningNext == Planning /\ [Next]_vars => Planning'
<1> SUFFICES ASSUME Planning, [Next]_vars PROVE Planning'
  OBVIOUS
<1>1. CASE RunOp
  <2>1. ran \in 0 .. 8 /\ ran' = ran + 1 /\ config' = config
        /\ state' = runOp(outcomeOps[ran + 1], config, self, state)
    BY <1>1, NineOps DEF Planning, RunOp, Local
  <2>2. Plan(Taken(ran + 1, config), config, self, state')
    BY <2>1, RunOpPlan DEF Planning
  <2> QED
    BY <2>1, <2>2, NineOps DEF Planning
<1>2. CASE ~RunOp
  <2>1. ran' = ran /\ config' = config /\ state' = state
    BY <1>2 DEF Next, Command, QueryPasswd, Passwd, Finalise, QueryID, PopulateLocal, Start,
       RunHsu, HsuMain, HsuCheck, HsuParse, HsuIdentity, HsuGroups, SetResGid, SetGroups,
       SetResUid, NoNewPrivs, ExecShim, HsuSyscallFails, HsuStep, EditHsurc, Local, vars
  <2> QED
    BY <2>1 DEF Planning
<1> QED
  BY <1>1, <1>2

\* The plan is kept from the beginning to the end.
LEMMA PlanningAlways == LaunchSpec /\ Config(config) => []Planning
<1>1. AnyLaunch /\ Config(config) => Planning
  <2> SUFFICES ASSUME AnyLaunch, Config(config) PROVE Planning
    OBVIOUS
  <2>1. ran = 0 /\ state = NewSys
    BY DEF AnyLaunch, InitWith
  <2> QED
    BY <2>1, EmptyPlan, NineOps DEF Planning
<1> QED
  BY <1>1, PlanningNext, PTL DEF LaunchSpec

(***************************************************************************)
(* Whatever the configuration is, the directories of an instance are       *)
(* registered before the operations that use them.                         *)
(***************************************************************************)
THEOREM DirsAlwaysFirst == LaunchSpec /\ Config(config) => []DirsFirst
<1>1. Planning => DirsFirst
  BY DEF Planning, Plan, Ordered, DirsFirst, sys
<1> QED
  BY <1>1, PlanningAlways, PTL

(***************************************************************************)
(* Whatever the configuration is, the shim binds only what the plan of its *)
(* monitor has provided.                                                   *)
(***************************************************************************)
THEOREM SourcesAlwaysProvided == LaunchSpec /\ Config(config) => []SourcesProvided
<1>1. Planning => SourcesProvided
  BY DEF Planning, Plan, Provided, Serves, SourcesProvided, sys
<1> QED
  BY <1>1, PlanningAlways, PTL

\* The configuration stays what it was.
LEMMA SameConfig ==
    ASSUME [Next]_vars
    PROVE  config' = config
  BY DEF Next, Command, QueryPasswd, Passwd, Finalise, QueryID, PopulateLocal, RunOp, Start,
      RunHsu, HsuMain, HsuCheck, HsuParse, HsuIdentity, HsuGroups, SetResGid, SetGroups,
      SetResUid, NoNewPrivs, ExecShim, HsuSyscallFails, HsuStep, EditHsurc, Local, vars

\* A configuration of an instance of the identity.
LEMMA ConfigDistinct == ASSUME NEW c \in Configs PROVE Config(c) /\ Distinct(c)
BY ConfigsAssumption DEF Distinct

(***************************************************************************)
(* Every resource is registered once, as long as displays and the paths of *)
(* ExtraPerms are not the program's own.                                   *)
(***************************************************************************)
THEOREM AlwaysRegisteredOnce == LaunchSpec /\ config \in Configs => []RegisteredOnce
<1>1. config \in Configs => Config(config) /\ Distinct(config)
  BY ConfigDistinct
<1>2. Distinct(config) /\ [Next]_vars => Distinct(config)'
  BY SameConfig DEF Distinct
<1>3. Planning /\ Distinct(config) => RegisteredOnce
  BY DEF Planning, Plan, Single, Once, RegisteredOnce, sys
<1> QED
  BY <1>1, <1>2, <1>3, PlanningAlways, PTL DEF LaunchSpec

\* The plan toSystem ends with, of any instance.
LEMMA ToSystemPlan ==
    ASSUME NEW c, Config(c), NEW i
    PROVE  \E s : toSystem(c, i) = s.sys /\ Plan(Taken(9, c), c, i, s)
<1> DEFINE L == Len(outcomeOps)
           op(n) == outcomeOps[n]
           Run(g) == [n \in 0 .. L |-> IF n = 0 THEN NewSys ELSE runOp(op(n), c, i, g[n - 1])]
           F == CHOOSE g : g = Run(g)
           Solves(g, m) == /\ g = [n \in 0 .. m |-> g[n]] /\ g[0] = NewSys
                           /\ \A n \in 1 .. m : g[n] = runOp(op(n), c, i, g[n - 1])
           none == {m \in 0 .. L : \A g : ~Solves(g, m)}
<1>1. L = 9 /\ none \in SUBSET Nat
  <2> HIDE DEF Solves
  <2> QED
    BY NineOps
<1>2. ASSUME none # {} PROVE FALSE
  <2>1. PICK m \in none : \A j \in none : m <= j
    <3> HIDE DEF none
    <3> QED
      BY <1>1, <1>2, Smallest
  <2>2. m \in 0 .. L /\ \A g : ~Solves(g, m)
    <3> HIDE DEF Solves
    <3> QED
      BY <2>1
  <2>3. m # 0
    <3>1. Solves([n \in 0 .. 0 |-> NewSys], 0)
      OBVIOUS
    <3> HIDE DEF Solves
    <3> QED
      BY <2>2, <3>1
  <2>4. m - 1 \in 0 .. L /\ ~(m <= m - 1) /\ m \in Nat
    BY <1>1, <2>2, <2>3
  <2>5. PICK g : Solves(g, m - 1)
    <3>1. m - 1 \notin none
      <4> HIDE DEF none
      <4> QED
        BY <2>1, <2>4
    <3> HIDE DEF Solves
    <3> QED
      BY <2>4, <3>1
  <2> DEFINE h == [n \in 0 .. m |-> IF n = m THEN runOp(op(m), c, i, g[m - 1]) ELSE g[n]]
  <2>6. h[0] = NewSys
    <3>1. 0 \in 0 .. m /\ 0 # m
      BY <2>3, <2>4
    <3> QED
      BY <2>5, <3>1
  <2>7. ASSUME NEW n \in 1 .. m PROVE h[n] = runOp(op(n), c, i, h[n - 1])
    <3>1. n \in 0 .. m /\ n - 1 \in 0 .. m /\ n - 1 # m /\ h[n - 1] = g[n - 1]
      BY <2>4
    <3>2. CASE n = m
      BY <3>1, <3>2
    <3>3. CASE n # m
      <4>1. n \in 1 .. (m - 1) /\ h[n] = g[n]
        BY <2>4, <3>1, <3>3
      <4> QED
        BY <2>5, <3>1, <4>1
    <3> QED
      BY <3>2, <3>3
  <2>8. h = [n \in 0 .. m |-> h[n]]
    OBVIOUS
  <2>9. Solves(h, m)
    BY <2>6, <2>7, <2>8
  <2> HIDE DEF Solves, h
  <2> QED
    BY <2>2, <2>9
<1>3. F = Run(F)
  <2>1. PICK g : Solves(g, L)
    <3>1. L \notin none /\ L \in 0 .. L
      <4> HIDE DEF none
      <4> QED
        BY <1>1, <1>2
    <3> HIDE DEF Solves
    <3> QED
      BY <3>1
  <2>2. g = Run(g)
    <3>1. \A n \in 0 .. L : n # 0 => n \in 1 .. L
      BY <1>1
    <3> HIDE DEF L, op
    <3> QED
      BY <2>1, <3>1
  <2> HIDE DEF Run
  <2> QED
    BY <2>2
<1>4. toSystem(c, i) = F[L].sys
  BY DEF toSystem
<1> HIDE DEF F
<1>5. F[0] = NewSys /\ \A n \in 1 .. L : F[n] = runOp(op(n), c, i, F[n - 1])
  <2>1. \A n \in 0 .. L : Run(F)[n] = IF n = 0 THEN NewSys ELSE runOp(op(n), c, i, F[n - 1])
    OBVIOUS
  <2>2. 0 \in 0 .. L /\ \A n \in 1 .. L : n \in 0 .. L /\ n # 0
    BY <1>1
  <2> HIDE DEF Run
  <2> QED
    BY <1>3, <2>1, <2>2
<1> DEFINE bad == {m \in 0 .. L : ~Plan(Taken(m, c), c, i, F[m])}
<1>6. ASSUME bad # {} PROVE FALSE
  <2>1. bad \in SUBSET Nat
    BY <1>1
  <2>2. PICK m \in bad : \A j \in bad : m <= j
    <3> HIDE DEF bad
    <3> QED
      BY <1>6, <2>1, Smallest
  <2>3. m \in 0 .. L /\ ~Plan(Taken(m, c), c, i, F[m])
    BY <2>2
  <2>4. m # 0
    BY <1>5, <2>3, EmptyPlan
  <2>5. m - 1 \in 0 .. 8 /\ m - 1 \in 0 .. L /\ m \in 1 .. L /\ ~(m <= m - 1) /\ (m - 1) + 1 = m
    BY <1>1, <2>3, <2>4
  <2>6. m - 1 \notin bad
    <3> HIDE DEF bad
    <3> QED
      BY <2>2, <2>5
  <2>7. Plan(Taken(m - 1, c), c, i, F[m - 1])
    BY <2>5, <2>6
  <2>8. Plan(Taken((m - 1) + 1, c), c, i, runOp(outcomeOps[(m - 1) + 1], c, i, F[m - 1]))
    BY <2>5, <2>7, RunOpPlan
  <2> QED
    BY <1>5, <2>3, <2>5, <2>8
<1>7. Plan(Taken(9, c), c, i, F[9])
  BY <1>1, <1>6
<1> QED
  BY <1>1, <1>4, <1>7

(***************************************************************************)
(* What two instances hold together is not of a process, and is tied to    *)
(* enablements that both have.                                             *)
(***************************************************************************)
LEMMA ScopesCompatible ==
    ASSUME NEW c \in Configs, NEW e \in Configs, NEW o, NEW p,
           Scope(c, self, o), Scope(e, b, p), o.res = p.res
    PROVE  /\ o.kind \notin {"wayland", "dbus"}
           /\ o.et # Process
           /\ o.et \in Enablements => o.et \in e.et
<1> DEFINE displays == {d.display : d \in Configs}
<1>1. /\ self # b /\ c.display \in displays /\ e.display \in displays
      /\ displays \cap OwnNames = {}
      /\ Paths(e.extraPerms) \cap (OwnNames \cup displays) = {}
  BY ConfigsAssumption DEF Paths
<1> HIDE DEF displays
<1>2. {self} # {b} /\ {self} # {} /\ {b} # {}
  BY <1>1
<1>3. o.res.owner = {} /\ p.res.owner = {}
  BY <1>2 DEF Scope
<1>4. /\ o.kind \notin {"wayland", "dbus"}
      /\ \/ o.et = User
         \/ o.et = "EWayland" /\ o.res.name = "wayland"
         \/ o.et = "EX11" /\ o.res.name = c.display
  BY <1>2, <1>3 DEF Scope
<1>5. \/ p.res.name \in (OwnNames \ {"wayland"}) \cup Paths(e.extraPerms)
      \/ p.res.name = "wayland" /\ "EWayland" \in e.et
      \/ p.res.name = e.display /\ "EX11" \in e.et
  BY <1>2, <1>3 DEF Scope
<1>6. "wayland" \in OwnNames
  BY DEF OwnNames
<1>7. o.et # Process
  BY <1>4 DEF User, Process
<1>8. CASE o.et = User
  BY <1>4, <1>7, <1>8 DEF User, Enablements
<1>9. CASE o.et = "EWayland" /\ o.res.name = "wayland"
  BY <1>1, <1>4, <1>5, <1>6, <1>7, <1>9
<1>10. CASE o.et = "EX11" /\ o.res.name = c.display
  BY <1>1, <1>4, <1>5, <1>6, <1>7, <1>10
<1> QED
  BY <1>4, <1>8, <1>9, <1>10

(***************************************************************************)
(* The plans of any two instances of an identity get along, whatever their *)
(* configurations are: PlanAssumption of Lifecycle holds of what toSystem  *)
(* computes.                                                               *)
(***************************************************************************)
THEOREM PlansAlwaysCompatible == LaunchSpec /\ config \in Configs => []PlansCompatible
<1>1. config \in Configs => Config(config)
  BY ConfigDistinct
<1>2. config \in Configs /\ [Next]_vars => (config \in Configs)'
  BY SameConfig
<1>3. Planning /\ config \in Configs => PlansCompatible
  <2> SUFFICES ASSUME Planning, config \in Configs, NEW k \in DOMAIN sys,
                      NEW o \in Neighbours, sys[k].res = o.op.res
               PROVE  /\ sys[k].kind \notin {"wayland", "dbus"}
                      /\ sys[k].et # Process
                      /\ sys[k].et \in Enablements => sys[k].et \in o.et
    BY DEF PlansCompatible
  <2>1. PICK e \in Configs : \E l \in DOMAIN toSystem(e, b) :
                                 o = [op |-> toSystem(e, b)[l], et |-> e.et]
    BY DEF Neighbours
  <2>2. PICK l \in DOMAIN toSystem(e, b) : o = [op |-> toSystem(e, b)[l], et |-> e.et]
    BY <2>1
  <2>3. PICK s : toSystem(e, b) = s.sys /\ Plan(Taken(9, e), e, b, s)
    BY ConfigDistinct, ToSystemPlan
  <2>4. Scope(e, b, o.op) /\ o.et = e.et
    BY <2>2, <2>3 DEF Plan, Scoped
  <2>5. Scope(config, self, sys[k])
    BY DEF Planning, Plan, Scoped, sys
  <2> QED
    BY <2>4, <2>5, ScopesCompatible
<1> QED
  BY <1>1, <1>2, <1>3, PlanningAlways, PTL DEF LaunchSpec
=============================================================================
