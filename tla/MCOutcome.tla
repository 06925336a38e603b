------------------------------ MODULE MCOutcome ------------------------------
(***************************************************************************)
(* Launches for TLC: every configuration toSystem can see, launched by an  *)
(* ordinary user, and one of them launched in every way that the command   *)
(* line, hsurc and hsu tell apart.  The plans toSystem ends with are also  *)
(* compared with those of every other instance of the identity.            *)
(***************************************************************************)
EXTENDS Launch

CONSTANT Displays    \* values of DISPLAY

AllConfigs ==
    [et : SUBSET Enablements, shareRuntime : BOOLEAN, shareTmpdir : BOOLEAN,
     directWayland : BOOLEAN, systemBus : BOOLEAN, cgroup : BOOLEAN,
     display : Displays, x11Socket : BOOLEAN,
     extraPerms : {<< >>, << [path |-> "extra", ensure |-> TRUE],
                             [path |-> "other", ensure |-> FALSE] >>}]

Minimal == [et |-> {}, shareRuntime |-> FALSE, shareTmpdir |-> FALSE, directWayland |-> FALSE,
            systemBus |-> FALSE, cgroup |-> FALSE, display |-> CHOOSE d \in Displays : TRUE,
            x11Socket |-> FALSE, extraPerms |-> << >>]

\* With Radix 3: uid 5 is "12", and so is "1101" once it has wrapped.
Line(p, u) == << p, u >>
Caller == << 1, 2 >>
Wraps  == << 1, 1, 0, 1 >>
Lines1 == << Line(Caller, << 1 >>) >>

Lines == {
    Lines1,
    << Line(<< 1 >>, << 0 >>), Line(Caller, << 2 >>), Line(Caller, << 1 >>) >>,
    << << Caller >> >> \o Lines1,
    Lines1 \o << << Caller >> >>,
    << Line(<< 3 >>, << 1 >>), Line(Caller, << 1 >>) >>,
    << Line(Caller, << 1, 0 >>) >>,
    << Line(Caller, << 0, 0, 0, 0, 1 >>) >>,
    << Line(Wraps, << 2 >>) >> \o Lines1,
    << Line(<< 2 >>, << 1 >>) >>,
    << >> }

SomeEdits == {<< Line(Caller, << 0 >>) >>, << >>}

Alice == [uid |-> 5, gid |-> 6, groups |-> {2, 6, 9}]

Default == [args |-> << Word1("app"), Word1("config") >>, loads |-> TRUE, identity |-> 1,
            groups |-> << 2 >>, null |-> {}, sessionBus |-> {<< "org", "a", "*" >>},
            systemBus |-> {}, limitPids |-> 0, environ |-> TRUE, user |-> Alice, install |-> {}]

Args == {
    << >>, << Flag1("v") >>, << Flag1("v"), Word1("run"), Flag1("d"), Flag1("u"), Word1("sh") >>,
    << Word1("run"), Flag1("a"), Flag1("wayland") >>, << Word1("run"), Flag1("x") >>,
    << Flag1("help") >>, << Word1("ps"), Flag1("help") >>, << Flag1("x"), Flag1("help") >>,
    << Word1("app") >>, << Word1("app"), Flag1("x"), Word1("config") >>, << Word1("lock") >>,
    << Word1("show") >>, << Word1("show"), Word1("a"), Word1("b") >>, << Word1("shim") >>,
    << Flag1("json"), Word1("ps") >>, << Word1("version") >>,
    << Flag1("x") >>, << Flag1("x"), Word1("ps") >>, << Word1("ps"), Flag1("x"), Flag1("help") >>,
    << Word1("version"), Word1("a"), Flag1("x") >>, << Word1("run"), Flag1("d"), Flag1("help") >> }

Requests ==
    {[Default EXCEPT !.args = a, !.identity = i, !.loads = l] :
        a \in Args, i \in {0, 3}, l \in BOOLEAN}
    \cup {[Default EXCEPT !.null = n] : n \in {{"config"}, {"container"}, {"home"}}}
    \cup {[Default EXCEPT !.sessionBus = {<< "org", "*" >>}],
          [Default EXCEPT !.limitPids = -1], [Default EXCEPT !.environ = FALSE],
          [Default EXCEPT !.user.uid = 0], [Default EXCEPT !.install = {"perm"}]}

\* Identities at and beyond the limits, and groups of every kind.
Launches ==
    {[Default EXCEPT !.identity = i, !.groups = g] :
        i \in {-1, 0, 2, 3},
        g \in {<< >>, << 2 >>, << 2, 9 >>, << 6 >>, << 7 >>, << 0 >>, << -1 >>}}

Init ==
    \/ \E c \in Configs : InitWith(Default, c, Lines1, TRUE)
    \/ \E q \in Requests : InitWith(q, Minimal, Lines1, FALSE)
    \/ \E q \in Launches, l \in Lines : InitWith(q, Minimal, l, FALSE)

Spec == Init /\ [][Next]_vars
=============================================================================
