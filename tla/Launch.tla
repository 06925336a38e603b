------------------------------- MODULE Launch -------------------------------
(***************************************************************************)
(* From the command line to the shim: the command tree (command,           *)
(* cmd/hakurei), outcome.Main with finalise, which validates the           *)
(* configuration, asks hsu for the user and runs toSystem, and the setuid  *)
(* helper cmd/hsu, which hakurei runs twice: to be told the userid of the  *)
(* caller, and to become the target user and exec the shim.  The           *)
(* administrator may replace hsurc between any two steps.                  *)
(*                                                                         *)
(* A string of digits is a sequence of characters, of which those below    *)
(* Radix are digits.  Radix, MaxLen, Word, RangeSize and Spread stand for  *)
(* 10, 10, 2^32, 10000 and 10.                                             *)
(***************************************************************************)
EXTENDS Integers, Sequences, FiniteSets, SequencesExt, Outcome

CONSTANTS
    self,        \* identifier of the instance
    b,           \* another instance of the identity
    Configs,     \* configurations instances are launched with
    Edits,       \* what hsurc may be replaced with
    Radix, MaxLen, Word, RangeSize, Spread

\* Lines of fields of characters.
Hsurc == Seq(Seq(Seq(Nat)))

ASSUME LaunchAssumption ==
    /\ {Radix, MaxLen, Word, RangeSize, Spread} \subseteq Nat \ {0, 1}
    /\ Edits \subseteq Hsurc

\* What a configuration is made of.
Config(c) ==
    /\ c.et \subseteq Enablements
    /\ {c.shareRuntime, c.shareTmpdir, c.directWayland, c.systemBus, c.cgroup, c.x11Socket}
          \subseteq BOOLEAN
    /\ c.display \in STRING
    /\ c.extraPerms \in Seq([path : STRING, ensure : BOOLEAN])

\* Names of the program's own paths.
OwnNames == {"SharePath", "cgroup", "runtime", "runtimeInst", "tmpdir", "tmpdirInst",
             "RuntimePath", "RunDirPath", "share", "run", "wayland", "pulse", "bus",
             "system_bus_socket"}

(***************************************************************************)
(* Displays and the paths of ExtraPerms are none of the program's own, no  *)
(* path of ExtraPerms is the socket of a display, and an ExtraPerms names  *)
(* a path once.                                                            *)
(***************************************************************************)
ASSUME ConfigsAssumption ==
    LET displays == {c.display : c \in Configs} IN
    /\ self # b
    /\ displays \cap OwnNames = {}
    /\ \A c \in Configs :
          /\ Config(c)
          /\ \A k, l \in DOMAIN c.extraPerms :
                /\ c.extraPerms[k].path \notin OwnNames \cup displays
                /\ k # l => c.extraPerms[k].path # c.extraPerms[l].path

Err == [ok |-> FALSE, n |-> 0]

-----------------------------------------------------------------------------
(***************************************************************************)
(* cmd/hsu: numbers and hsurc                                              *)
(***************************************************************************)
userOffset  == RangeSize * Spread
useridEnd   == RangeSize - 1
identityEnd == RangeSize - 1
appStart    == RangeSize

\* The uids hsu lets pass: uidEnd itself is refused.
uidStart == appStart
uidEnd   == useridEnd * userOffset + appStart + identityEnd

\* Mutant: the identity is added to the wrong range.
toUserShifted(userid, appid) == (userid * userOffset + appid) % Word

toUser(userid, appid) == (userid * userOffset + appStart + appid) % Word

\* hst.ToUser, on the priv side.
ToUser(userid, appid) == userid * userOffset + appStart + appid

\* n = n*10 + ch on an unsigned integer, which wraps.
parseUint32Fast(s) ==
    LET n[k \in 0..Len(s)] == IF k = 0 THEN 0 ELSE (n[k - 1] * Radix + s[k]) % Word
    IN  IF Len(s) \notin 1..MaxLen \/ \E k \in DOMAIN s : s[k] >= Radix THEN Err
        ELSE [ok |-> TRUE, n |-> n[Len(s)]]

\* strconv.Itoa: the digits are the remainders, up to the first quotient that is zero.
quotients(n) ==
    LET q[j \in 0..MaxLen] == IF j = 0 THEN n ELSE q[j - 1] \div Radix IN q

Itoa(n) ==
    LET q == quotients(n)
        l == CHOOSE l \in 1..MaxLen : q[l] = 0 /\ \A j \in 1..(l - 1) : q[j] # 0
    IN  [k \in 1..l |-> q[l - k] % Radix]

\* What a string of digits says, however long.
Value(s) ==
    LET v[k \in 0..Len(s)] == IF k = 0 THEN 0 ELSE v[k - 1] * Radix + s[k] IN v[Len(s)]

(***************************************************************************)
(* What the numbers have to be like: every uid fits the word, and hsu      *)
(* takes as many digits as an identity has.                                *)
(***************************************************************************)
ASSUME NumbersAssumption ==
    /\ uidEnd < Word
    /\ \A i \in 0..identityEnd : quotients(i)[MaxLen] = 0

(***************************************************************************)
(* parseConfig reads hsurc up to the first line for the caller, or to the  *)
(* first one it cannot make sense of.  A line is << puid, userid >>, or    *)
(* has fewer fields.                                                       *)
(***************************************************************************)
badLine(line) == Len(line) # 2 \/ ~parseUint32Fast(line[1]).ok \/ parseUint32Fast(line[1]).n < 1

\* Mutant: the last line for the caller takes effect.
parseConfigLast(lines, puid) ==
    LET stop == {k \in DOMAIN lines : ~badLine(lines[k]) /\ parseUint32Fast(lines[k][1]).n = puid}
    IN  IF stop = {} THEN Err
        ELSE parseUint32Fast(lines[CHOOSE k \in stop : \A j \in stop : k >= j][2])

parseConfig(lines, puid) ==
    LET stop == {k \in DOMAIN lines : badLine(lines[k])
                                      \/ parseUint32Fast(lines[k][1]).n = puid}
    IN  IF stop = {} THEN Err
        ELSE LET line == lines[CHOOSE k \in stop : \A j \in stop : k <= j] IN
             IF badLine(line) \/ ~parseUint32Fast(line[2]).ok
                    \/ parseUint32Fast(line[2]).n > useridEnd
             THEN Err ELSE parseUint32Fast(line[2])

\* mustReadIdentity
mustReadIdentity(s) ==
    IF parseUint32Fast(s).ok /\ parseUint32Fast(s).n <= identityEnd
    THEN parseUint32Fast(s) ELSE Err

\* A gid that may be attached: one the caller has, besides its own.
groupAllowed(gid, uid, user) ==
    gid > 0 /\ gid # uid /\ gid # user.gid /\ gid \in user.groups

-----------------------------------------------------------------------------
(***************************************************************************)
(* command: the tree of cmd/hakurei.  An argument is a word or a flag;     *)
(* "help" stands for -h.                                                   *)
(***************************************************************************)
RootFlags == {"v", "json"}
Commands  == << "shim", "app", "run", "show", "ps", "version", "license", "template", "help" >>
FlagsOf(name) ==
    CASE name = "app"  -> {"identifier-fd"}
      [] name = "run"  -> {"dbus-config", "dbus-system", "mpris", "dbus-log", "id", "a", "g", "d",
                           "u", "private-runtime", "private-tmpdir", "wayland", "X", "dbus", "pulse"}
      [] name = "show" -> {"short", "no-store"}
      [] name = "ps"   -> {"short"}
      [] OTHER         -> {}

Word1(w) == [flag |-> FALSE, name |-> w]
Flag1(f) == [flag |-> TRUE, name |-> f]

\* flag.FlagSet.Parse takes the flags in front: the arguments left, or why not.
setParse(flags, args) ==
    LET words == {k \in DOMAIN args : ~args[k].flag}
        n     == IF words = {} THEN Len(args) ELSE (CHOOSE k \in words : \A j \in words : k <= j) - 1
        bad   == {k \in 1..n : args[k].name \notin flags}
    IN  IF bad = {} THEN [err |-> "nil", args |-> SubSeq(args, n + 1, Len(args))]
        ELSE [err |-> IF args[CHOOSE k \in bad : \A j \in bad : k <= j].name = "help"
                      THEN "FlagHelp" ELSE "FlagError", args |-> << >>]

\* node.Parse: what it returns short of a handler, or the handler it calls.
Parse(args) ==
    LET top == setParse(RootFlags, args) IN
    CASE top.err # "nil"   -> [err |-> top.err, name |-> "none", args |-> << >>]
      [] top.err = "nil" /\ top.args = << >> -> [err |-> "ErrHelp", name |-> "none", args |-> << >>]
      [] OTHER ->
            LET name == Head(top.args).name
                sub  == setParse(FlagsOf(name), Tail(top.args))
            IN  IF name \notin ToSet(Commands)
                THEN [err |-> "ErrNoMatch", name |-> "none", args |-> << >>]
                ELSE [err |-> sub.err, name |-> name, args |-> sub.args]

\* Mutant: an unknown command is reported like help.
MustParseLax(err) == IF err \in {"ErrHelp", "FlagHelp", "ErrNoMatch"} THEN 0 ELSE 1

\* The exit status MustParse makes of an error of the tree.
MustParse(err) == IF err \in {"ErrHelp", "FlagHelp"} THEN 0 ELSE 1

-----------------------------------------------------------------------------
(***************************************************************************)
(* hst.Config.Validate.  An interface is a sequence of the names between   *)
(* its dots.                                                               *)
(***************************************************************************)
TrimSuffix(iface) == IF Len(iface) > 1 /\ Last(iface) = "*" THEN Front(iface) ELSE iface

CheckInterfaces(bus) == \A iface \in bus : Len(TrimSuffix(iface)) > 1

Validate(q) ==
    /\ "config" \notin q.null
    /\ q.identity \in 0..identityEnd
    /\ CheckInterfaces(q.sessionBus) /\ CheckInterfaces(q.systemBus)
    /\ q.null \cap {"container", "home", "shell", "path"} = {}
    /\ q.limitPids >= 0
    /\ q.environ

-----------------------------------------------------------------------------
(***************************************************************************)
(* The state.  A request has the arguments, the rest of the configuration  *)
(* (identity, groups as looked up, -1 for an unknown one, null: fields     *)
(* left null, sessionBus, systemBus, limitPids, environ), the user who     *)
(* runs hakurei (uid, gid, groups), loads: the files and programs named    *)
(* can be found and read, and install: what is wrong with the installation *)
(* of hsu.                                                                 *)
(***************************************************************************)
VARIABLES
    req,      \* the request
    config,   \* the part of hst.Config that toSystem reads
    pc,       \* where hakurei is
    userid,   \* Hsu.id
    uid,      \* outcomeState.uid
    ran,      \* outcomeOps run so far
    state,    \* outcomeStateSys
    hsurc,    \* the lines of /etc/hsurc
    edited,   \* hsurc has been replaced
    hsu,      \* the hsu process: pc, userid, uid, the lines it has read
    cred,     \* its credentials
    exit      \* exit status of hakurei

vars == << req, config, pc, userid, uid, ran, state, hsurc, edited, hsu, cred, exit >>

NoHsu      == [pc |-> "none", userid |-> 0, uid |-> 0, read |-> << >>]
NewCred(q) == [euid |-> 0, gid |-> q.user.gid, groups |-> q.user.groups, nnp |-> FALSE]

InitWith(q, c, lines, replaced) ==
    /\ req = q /\ config = c /\ hsurc = lines
    /\ pc = "command" /\ userid = -1 /\ uid = -1 /\ ran = 0 /\ state = NewSys
    /\ edited = replaced /\ hsu = NoHsu /\ cred = NewCred(q) /\ exit = -1

Fatal(code) == pc' = "exited" /\ exit' = code

\* hakurei goes on, or dies of a fatal error.
Step(from, ok, to) ==
    /\ pc = from
    /\ IF ok THEN pc' = to /\ UNCHANGED exit ELSE Fatal(1)

Local == << req, config, hsurc, edited >>

\* main refuses to run as root before it looks at its arguments.
Command ==
    /\ pc = "command"
    /\ LET p == Parse(req.args) IN
       IF req.user.uid = 0 \/ p.err # "nil"
       THEN Fatal(IF req.user.uid = 0 THEN 1 ELSE MustParse(p.err))
       ELSE CASE p.name = "run" ->
                    Step("command", req.identity \in 0..identityEnd /\ req.loads,
                         IF {Flag1("d"), Flag1("u")} \subseteq ToSet(req.args)
                         THEN "validate" ELSE "passwd")
              [] p.name = "app" ->
                    Step("command", p.args # << >> /\ req.loads, "validate")
              [] p.name = "shim" -> Fatal(1)
              [] p.name \in {"show", "ps"} ->
                    \E code \in {0, 1} :
                        (p.name = "show" /\ Len(p.args) > 1 => code = 1) /\ Fatal(code)
              [] OTHER -> Fatal(0)
    /\ UNCHANGED << Local, userid, uid, ran, state, hsu, cred >>

\* finalise up to the groups.
Finalise ==
    /\ Step("validate", Validate(req) /\ -1 \notin ToSet(req.groups), "id")
    /\ UNCHANGED << Local, userid, uid, ran, state, hsu, cred >>

\* Hsu.ID runs hsu without an environment.
RunHsu(from, to) ==
    /\ pc = from
    /\ pc' = to
    /\ hsu' = [NoHsu EXCEPT !.pc = "check"] /\ cred' = NewCred(req)
    /\ UNCHANGED << Local, userid, uid, ran, state, exit >>

QueryID == RunHsu("id", "querying")

\* run looks up the home directory and the name of the target user by default.
QueryPasswd == RunHsu("passwd", "lookup")

Passwd ==
    /\ hsu.pc \in {"printed", "dead"}
    /\ Step("lookup", hsu.pc = "printed", "validate")
    /\ UNCHANGED << Local, userid, uid, ran, state, hsu, cred >>

\* newOutcomeState calls MustID; populateLocal makes the uid of it.
PopulateLocal ==
    /\ hsu.pc \in {"printed", "dead"}
    /\ Step("querying", hsu.pc = "printed", "toSystem")
    /\ IF hsu.pc = "printed"
       THEN userid' = hsu.userid /\ uid' = ToUser(hsu.userid, req.identity)
       ELSE UNCHANGED << userid, uid >>
    /\ UNCHANGED << Local, ran, state, hsu, cred >>

RunOp ==
    /\ pc = "toSystem"
    /\ ran < Len(outcomeOps)
    /\ state' = runOp(outcomeOps[ran + 1], config, self, state)
    /\ ran' = ran + 1
    /\ UNCHANGED << Local, pc, userid, uid, hsu, cred, exit >>

\* outcome.start: identity and groups are passed in the environment.
Start == ran = Len(outcomeOps) /\ RunHsu("toSystem", "started")

EditHsurc ==
    /\ ~edited
    /\ pc # "exited" /\ hsu.pc # "shim"
    /\ hsurc' \in Edits
    /\ edited' = TRUE
    /\ UNCHANGED << req, config, pc, userid, uid, ran, state, hsu, cred, exit >>

-----------------------------------------------------------------------------
(***************************************************************************)
(* cmd/hsu                                                                 *)
(***************************************************************************)
Die == hsu' = [hsu EXCEPT !.pc = "dead"]

HsuStep(from, ok, to) ==
    /\ hsu.pc = from
    /\ IF ok THEN hsu' = [hsu EXCEPT !.pc = to] ELSE Die
    /\ UNCHANGED << Local, pc, userid, uid, ran, state, exit >>

\* euid, egid, the caller, its executable, and the mode of hsurc.
HsuCheck ==
    HsuStep("check", req.install = {} /\ req.user.uid # 0, "parse") /\ UNCHANGED cred

HsuParse ==
    /\ hsu.pc = "parse"
    /\ LET found == parseConfig(hsurc, req.user.uid) IN
       hsu' = [hsu EXCEPT !.pc = CASE ~found.ok          -> "dead"
                                   [] found.ok /\ pc # "started" -> "printed"
                                   [] OTHER              -> "identity",
                          !.userid = found.n, !.read = hsurc]
    /\ UNCHANGED << Local, pc, userid, uid, ran, state, cred, exit >>

\* The setup pipe is the first of the extra files of hsu, whose number is passed on as one digit.
shimSetupFd == 3

HsuIdentity ==
    /\ hsu.pc = "identity"
    /\ LET identity == mustReadIdentity(Itoa(req.identity))
           to       == toUser(hsu.userid, identity.n)
       IN  hsu' = [hsu EXCEPT !.pc = IF shimSetupFd \in 3..9 /\ identity.ok
                                            /\ to >= uidStart /\ to < uidEnd
                                     THEN "groups" ELSE "dead",
                              !.uid = to]
    /\ UNCHANGED << Local, pc, userid, uid, ran, state, cred, exit >>

HsuGroups ==
    HsuStep("groups", \A g \in ToSet(req.groups) : groupAllowed(g, hsu.uid, req.user), "setgid")
    /\ UNCHANGED cred

\* The credentials, in this order; setresgid and setgroups need root.
SetResGid ==
    /\ HsuStep("setgid", cred.euid = 0, "setgroups")
    /\ cred' = [cred EXCEPT !.gid = hsu.uid]

SetGroups ==
    /\ HsuStep("setgroups", cred.euid = 0, "setuid")
    /\ cred' = [cred EXCEPT !.groups = ToSet(req.groups) \cup {hsu.uid}]

SetResUid ==
    /\ HsuStep("setuid", cred.euid = 0, "nnp")
    /\ cred' = [cred EXCEPT !.euid = hsu.uid]

NoNewPrivs ==
    /\ HsuStep("nnp", TRUE, "exec")
    /\ cred' = [cred EXCEPT !.nnp = TRUE]

ExecShim == HsuStep("exec", TRUE, "shim") /\ UNCHANGED cred

HsuSyscallFails ==
    /\ hsu.pc \in {"setgid", "setgroups", "setuid", "nnp", "exec"}
    /\ Die
    /\ UNCHANGED << Local, pc, userid, uid, ran, state, cred, exit >>

HsuMain ==
    \/ HsuCheck \/ HsuParse \/ HsuIdentity \/ HsuGroups
    \/ SetResGid \/ SetGroups \/ SetResUid \/ NoNewPrivs \/ ExecShim \/ HsuSyscallFails

Next ==
    \/ Command \/ QueryPasswd \/ Passwd \/ Finalise \/ QueryID \/ PopulateLocal \/ RunOp \/ Start
    \/ HsuMain \/ EditHsurc

-----------------------------------------------------------------------------
\* The lines of hsurc are well formed and their numbers fit.
WellFormed(lines) ==
    \A k \in DOMAIN lines : /\ Len(lines[k]) = 2
                            /\ \A j \in 1..2 : Value(lines[k][j]) < Word

(***************************************************************************)
(* hsu lets the shim run only as a user of the range that the first line   *)
(* of hsurc for the caller names, with this user's gid and no groups but   *)
(* that one and those asked for, all of them groups the caller has; what   *)
(* hsurc says is read as it is written as long as its numbers fit.         *)
(***************************************************************************)
HsuConfined ==
    hsu.pc = "shim" =>
        LET u == cred.euid IN
        /\ cred.gid = u /\ cred.nnp
        /\ cred.groups = ToSet(req.groups) \cup {u}
        /\ ToSet(req.groups) \subseteq req.user.groups \ {0, req.user.gid}
        /\ \E id \in 0..useridEnd :
              /\ u - id * userOffset - appStart \in 0..identityEnd
              /\ WellFormed(hsu.read) =>
                    \E k \in DOMAIN hsu.read :
                        /\ Value(hsu.read[k][1]) = req.user.uid
                        /\ Value(hsu.read[k][2]) = id
                        /\ \A j \in 1..(k - 1) : Value(hsu.read[j][1]) # req.user.uid

\* The user the monitor has planned for, in its ACLs and its xhost entry, is
\* the one hsu becomes, although each works it out on its own, unless hsurc
\* was replaced in between.
UidAgrees == hsu.pc = "shim" /\ ~edited => cred.euid = uid /\ hsu.userid = userid

(***************************************************************************)
(* The arguments that may end in success without a container.  Up to the   *)
(* argument that decides, there are only flags hakurei knows at that       *)
(* place; what decides is the end of the arguments, a request for help, or *)
(* a command that needs no container followed by what it takes.            *)
(***************************************************************************)
Known(flags, args, from, to) == \A j \in from..to : args[j].flag /\ args[j].name \in flags

NoContainer == {"show", "ps", "version", "license", "template", "help"}

MaySucceed(args) ==
    \E k \in 0..Len(args) :
        /\ Known(RootFlags, args, 1, k)
        /\ \/ k = Len(args) \/ args[k + 1] = Flag1("help")
           \/ /\ ~args[k + 1].flag /\ args[k + 1].name \in ToSet(Commands)
              /\ \E l \in (k + 1)..Len(args) :
                    /\ Known(FlagsOf(args[k + 1].name), args, k + 2, l)
                    /\ \/ l < Len(args) /\ args[l + 1] = Flag1("help")
                       \/ /\ args[k + 1].name \in NoContainer
                          /\ l < Len(args) => ~args[l + 1].flag
                          /\ args[k + 1].name = "show" => Len(args) - l <= 1

(***************************************************************************)
(* hakurei reports success by itself only for help and for the commands    *)
(* that need no container, and only if it is not run by root and knows     *)
(* every flag and command it was given up to there: "app" and "run" never  *)
(* end with status zero before the shim has been started, and neither does *)
(* a flag or command that is unknown, whatever follows it.                 *)
(***************************************************************************)
NoSilentFailure == exit = 0 => req.user.uid # 0 /\ MaySucceed(req.args)

-----------------------------------------------------------------------------
sys == state.sys

\* The directories that hold entries of a single instance are registered
\* before the ops that use them, so that Commit finds them and Revert, which
\* runs backwards, empties them first; what they hold is process-scoped
\* (outcomeStateSys.instance and runtime).
DirsFirst ==
    \A k \in DOMAIN sys : \A d \in sys[k].within :
        /\ \E l \in 1 .. k - 1 : sys[l].kind = "ephemeral" /\ sys[l].res = d
        /\ sys[k].et = Process

\* However many outcomeOps ask for a directory or an ACL, it is registered
\* once: Revert would remove the second Ephemeral while the directory still
\* holds what was registered before it, or remove it twice.
RegisteredOnce ==
    \A k, l \in DOMAIN sys : k # l => sys[k].res # sys[l].res

\* Every op some instance of the identity can register, with the enablements
\* of that instance.
Neighbours ==
    UNION {LET plan == toSystem(c, b)
           IN  {[op |-> plan[k], et |-> c.et] : k \in DOMAIN plan} : c \in Configs}

\* What two instances hold together is never process-scoped, and if it is
\* tied to an enablement both have this enablement.  This is what PlanAssumption
\* of Lifecycle asks of the plans.
PlansCompatible ==
    ran = Len(outcomeOps) =>
        \A k \in DOMAIN sys : \A o \in Neighbours : sys[k].res = o.op.res =>
            /\ sys[k].kind \notin {"wayland", "dbus"}
            /\ sys[k].et # Process
            /\ sys[k].et \in Enablements => sys[k].et \in o.et

\* Whatever the shim binds from the host in another process, going by the
\* transmitted ops alone, has been provided by the plan of this instance.
SourcesProvided ==
    ran = Len(outcomeOps) =>
        \A j \in DOMAIN state.Ops : \A src \in toContainer(state.Ops[j], config, self) :
            \E k \in DOMAIN sys :
                sys[k].res.name = src.name /\ sys[k].res.owner = src.owner
=============================================================================
