------------------------------- MODULE Params -------------------------------
(***************************************************************************)
(* What a configuration makes of a container: hst.ContainerConfig and its  *)
(* file systems on one side, the setup operations the shim hands to the    *)
(* container on the other (toContainer of every outcomeOp, in the order of *)
(* outcomeStateSys.toSystem), with the path hiding of spFilesystemOp.      *)
(*                                                                         *)
(* A configuration c has the fields                                        *)
(*   et, directWayland, systemBus   as in Outcome                          *)
(*   cookie   a PulseAudio cookie was found                                *)
(*   flags    Container.Flags                                              *)
(*   fs       Container.Filesystem                                         *)
(*   delay    Container.WaitDelay                                          *)
(***************************************************************************)
EXTENDS Setup

CONSTANTS
    SharePath, RuntimePath,   \* hst.Paths of the user
    SystemBusDirs,            \* directories of the sockets in the system bus address
    MapUid, RealUid,          \* names of the overflow uid and of the uid of the user
    Instance, Identity        \* names of this instance and of its identity

RunDirPath   == Append(RuntimePath, "hakurei")
instancePath == Append(SharePath, Instance)
runtimePath  == Append(RunDirPath, Instance)

\* hst.WaitDelayDefault and hst.WaitDelayMax, in seconds.
WaitDelayDefault == 5
WaitDelayMax     == 30

Dev      == << "dev" >>
EtcDir   == << "etc" >>
Tmp      == << "tmp" >>
RunUser  == << "run", "user" >>
Private  == << ".hakurei" >>
X11Dir   == << "tmp", ".X11-unix" >>
Nscd     == << "var", "run", "nscd" >>
SystemBusSocket == << "var", "run", "dbus", "system_bus_socket" >>

\* Setup operations as the methods of container.Ops append them.
OpBind(source, target, flags) ==
    << [kind |-> "bind", source |-> source, target |-> target, flags |-> flags] >>
OpTmpfs(target, flags)   == << [kind |-> "tmpfs", target |-> target, flags |-> flags] >>
OpRemount(target)        == << [kind |-> "remount", target |-> target, flags |-> {"ro"}] >>
OpAt(kind, target)       == << [kind |-> kind, target |-> target] >>
OpRoot(host, flags)      == << [kind |-> "root", host |-> host, flags |-> flags] >>
OpOverlay(target, upper, work, lower) ==
    << [kind |-> "overlay", target |-> target, upper |-> upper, work |-> work,
        lower |-> lower] >>
OpLink(target, linkname, dereference) ==
    << [kind |-> "link", target |-> target, linkname |-> linkname,
        dereference |-> dereference] >>
OpDev(target, mqueue, write) ==
    << [kind |-> "dev", target |-> target, mqueue |-> mqueue, write |-> write] >>

Etc(host, prefix) ==
    OpAt("mkdir", EtcDir) \o OpBind(host, << "etc", ".host", prefix >>, {})
        \o << [kind |-> "etc", prefix |-> prefix] >>

-----------------------------------------------------------------------------
(***************************************************************************)
(* hst.FilesystemConfig                                                    *)
(***************************************************************************)
FSBindValid(f) ==
    /\ f.source # Missing
    /\ ~(f.ensure /\ f.optional)
    /\ f.special => f.target \in {<< >>, EtcDir}

FSOverlayValid(f) ==
    /\ f.target # Missing
    /\ Missing \notin ToSet(f.lower)
    /\ IF f.upper # Missing THEN f.work # Missing /\ Len(f.lower) > 0
                            ELSE Len(f.lower) >= 2

\* A linkname to be dereferenced is absolute.
FSLinkValid(f) ==
    /\ f.target # Missing /\ f.linkname # Missing
    /\ f.dereference => f.linkname.abs

FSValid(f) == CASE f.type = "bind"      -> FSBindValid(f)
                [] f.type = "overlay"   -> FSOverlayValid(f)
                [] f.type = "link"      -> FSLinkValid(f)
                [] f.type = "ephemeral" -> f.target # Missing

FSPath(f) == IF f.type = "bind" /\ f.target = Missing THEN f.source ELSE f.target

FSHost(f) == CASE f.type = "bind"    -> {f.source}
               [] f.type = "overlay" -> ToSet(f.lower) \cup ({f.upper, f.work} \ {Missing})
               [] OTHER              -> {}

IsAutoRoot(f) == f.type = "bind" /\ FSValid(f) /\ f.special /\ f.target = << >>
IsAutoEtc(f)  == f.type = "bind" /\ FSValid(f) /\ f.special /\ f.target = EtcDir

FSBindFlags(f) ==
    (IF f.write \/ f.device THEN {"writable"} ELSE {})
    \cup (IF f.device THEN {"device"} ELSE {})
    \cup (IF f.ensure THEN {"ensure"} ELSE {})
    \cup (IF f.optional THEN {"optional"} ELSE {})

FSBindApply(f) ==
    CASE IsAutoRoot(f) -> OpRoot(f.source, FSBindFlags(f))
      [] IsAutoEtc(f)  -> Etc(f.source, Instance)
      [] OTHER         -> OpBind(f.source, FSPath(f), FSBindFlags(f))

FSOverlayApply(f) ==
    IF f.upper # Missing THEN OpOverlay(f.target, f.upper, f.work, f.lower)
                         ELSE OpOverlay(f.target, Missing, Missing, f.lower)

FSEphemeralApply(f) == OpTmpfs(f.target, IF f.write THEN {} ELSE {"ro"})

FSApply(f) == CASE f.type = "bind"      -> FSBindApply(f)
                [] f.type = "overlay"   -> FSOverlayApply(f)
                [] f.type = "link"      -> OpLink(f.target, f.linkname, f.dereference)
                [] f.type = "ephemeral" -> FSEphemeralApply(f)

-----------------------------------------------------------------------------
(***************************************************************************)
(* spFilesystemOp.toSystem: paths of the host that should not be seen in   *)
(* the container, and which of them the configured file systems expose.    *)
(***************************************************************************)
\* A file system at / comes first and is taken off the list.
HasRoot(c)    == c.fs # << >> /\ FSValid(Head(c.fs)) /\ FSPath(Head(c.fs)) = << >>
Filesystem(c) == IF HasRoot(c) THEN Tail(c.fs) ELSE c.fs

\* A pathname that does not exist stays as it is; links are followed.
EvalHide(p) == IF Resolve(p) \in DOMAIN HostNodes THEN Resolve(p) ELSE p

HideCandidates == {EvalHide(p) : p \in {RuntimePath, SharePath, Nscd} \cup SystemBusDirs}

AutoRootSources(c) ==
    IF HasRoot(c) /\ IsAutoRoot(Head(c.fs))
    THEN LET host == Head(c.fs).source IN
         {Append(host, n) : n \in {m \in RootEntries([host |-> HostNodes], host) :
                                       IsAutoRootBindable(m)}}
    ELSE {}

HideSources(c) ==
    {EvalHide(p) : p \in AutoRootSources(c) \cup UNION {FSHost(f) : f \in ToSet(Filesystem(c))}}

\* validate.DeepContainsH: the source is the candidate or above it.
DeepContainsHSwapped(basepath, targpath) == Under(basepath, targpath)   \* Mutant

DeepContainsH(basepath, targpath) == Under(targpath, basepath)

HidePaths(c) == {h \in HideCandidates : \E s \in HideSources(c) : DeepContainsH(s, h)}

-----------------------------------------------------------------------------
(***************************************************************************)
(* toContainer of each outcomeOp                                           *)
(***************************************************************************)
mapuid(c)     == IF "FMapRealUID" \in c.flags THEN RealUid ELSE MapUid
runtimeDir(c) == Append(RunUser, mapuid(c))

spParamsContainer(c) ==
    (IF HasRoot(c) THEN FSApply(Head(c.fs)) ELSE << >>)
    \o OpAt("proc", << "proc" >>) \o OpTmpfs(Private, {})
    \o (IF "FDevice" \notin c.flags THEN OpDev(Dev, TRUE, TRUE)
        ELSE OpBind(Dev, Dev, {"writable", "device"}))
    \o OpTmpfs(<< "dev", "shm" >>, {})

spRuntimeContainer(c) ==
    OpTmpfs(RunUser, {})
    \o (IF "FShareRuntime" \in c.flags
        THEN OpBind(SharePath \o << "runtime", Identity >>, runtimeDir(c), {"writable"})
        ELSE OpAt("mkdir", runtimeDir(c)))

spTmpdirContainer(c) ==
    IF "FShareTmpdir" \in c.flags
    THEN OpBind(SharePath \o << "tmpdir", Identity >>, Tmp, {"writable"})
    ELSE OpTmpfs(Tmp, {})

spAccountContainer(c) ==
    OpAt("place", << "etc", "passwd" >>) \o OpAt("place", << "etc", "group" >>)

spWaylandContainer(c) ==
    OpBind(IF c.directWayland THEN Append(RuntimePath, "wayland-0")
           ELSE Append(instancePath, "wayland"), Append(runtimeDir(c), "wayland-0"), {})

spX11Container(c) == OpBind(X11Dir, X11Dir, {})

spPulseContainer(c) ==
    OpBind(Append(runtimePath, "pulse"), runtimeDir(c) \o << "pulse", "native" >>, {})
    \o (IF c.cookie THEN OpAt("place", Append(Private, "pulse-cookie")) ELSE << >>)

spDBusContainer(c) ==
    OpBind(Append(instancePath, "bus"), Append(runtimeDir(c), "bus"), {})
    \o (IF c.systemBus
        THEN OpBind(Append(instancePath, "system_bus_socket"), SystemBusSocket, {})
        ELSE << >>)

Enabled(c, e, ops) == IF e \in c.et THEN ops ELSE << >>

\* Mutant: paths are hidden before the filesystems are mounted over them.
spFilesystemContainerEarly(c) ==
    FlattenSeq([k \in DOMAIN SetToSeq(HidePaths(c)) |->
                   OpTmpfs(SetToSeq(HidePaths(c))[k], {})])
    \o FlattenSeq([k \in DOMAIN Filesystem(c) |-> FSApply(Filesystem(c)[k])])
    \o (IF "FDevice" \notin c.flags THEN OpRemount(Dev) ELSE << >>)
    \o OpRemount(<< >>)

spFilesystemContainer(c) ==
    FlattenSeq([k \in DOMAIN Filesystem(c) |-> FSApply(Filesystem(c)[k])])
    \o FlattenSeq([k \in DOMAIN SetToSeq(HidePaths(c)) |->
                      OpTmpfs(SetToSeq(HidePaths(c))[k], {})])
    \o (IF "FDevice" \notin c.flags THEN OpRemount(Dev) ELSE << >>)
    \o OpRemount(<< >>)

\* Mutant: the runtime directory is mounted after what is bound into it.
ContainerOpsLate(c) ==
    spParamsContainer(c) \o spTmpdirContainer(c) \o spAccountContainer(c)
    \o Enabled(c, "EWayland", spWaylandContainer(c)) \o Enabled(c, "EX11", spX11Container(c))
    \o Enabled(c, "EPulse", spPulseContainer(c)) \o Enabled(c, "EDBus", spDBusContainer(c))
    \o spRuntimeContainer(c) \o spFilesystemContainer(c)

ContainerOps(c) ==
    spParamsContainer(c) \o spRuntimeContainer(c) \o spTmpdirContainer(c)
    \o spAccountContainer(c)
    \o Enabled(c, "EWayland", spWaylandContainer(c)) \o Enabled(c, "EX11", spX11Container(c))
    \o Enabled(c, "EPulse", spPulseContainer(c)) \o Enabled(c, "EDBus", spDBusContainer(c))
    \o spFilesystemContainer(c)

\* The sockets the environment of the program names, and what they are.
Socket(at, source) == {[at |-> at, source |-> source]}

Env(c) ==
    UNION {
        IF "EWayland" \in c.et
        THEN Socket(Append(runtimeDir(c), "wayland-0"),
                    IF c.directWayland THEN Append(RuntimePath, "wayland-0")
                    ELSE Append(instancePath, "wayland"))
        ELSE {},
        IF "EX11" \in c.et THEN Socket(X11Dir, X11Dir) ELSE {},
        IF "EPulse" \in c.et
        THEN Socket(runtimeDir(c) \o << "pulse", "native" >>, Append(runtimePath, "pulse"))
        ELSE {},
        IF "EDBus" \in c.et
        THEN Socket(Append(runtimeDir(c), "bus"), Append(instancePath, "bus"))
             \cup (IF c.systemBus
                   THEN Socket(SystemBusSocket, Append(instancePath, "system_bus_socket"))
                   ELSE {})
        ELSE {}}

\* newOutcomeState: bounds and the default of the wait delay.
WaitDelay(c) ==
    CASE c.delay < 0            -> 0
      [] c.delay = 0            -> WaitDelayDefault
      [] c.delay > WaitDelayMax -> WaitDelayMax
      [] OTHER                  -> c.delay

ConfigValid(c) == \A f \in ToSet(Filesystem(c)) : FSValid(f)

\* container.Params, as far as Container goes.
toParams(c) == [
    ops |-> ContainerOps(c), privileged |-> FALSE, seccompDisable |-> FALSE,
    waitDelay |-> WaitDelay(c) > 0, forwardCancel |-> WaitDelay(c) > 0,
    hostAbstract |-> "FHostAbstract" \in c.flags, ownCancel |-> FALSE,
    sockets |-> Env(c), hide |-> HideCandidates]

-----------------------------------------------------------------------------
(***************************************************************************)
(* `hakurei run`: the configuration it makes of its flags.                 *)
(***************************************************************************)
FSBind(source, target, opts) == [
    type |-> "bind", source |-> source, target |-> target,
    write |-> "write" \in opts, device |-> "device" \in opts,
    ensure |-> "ensure" \in opts, optional |-> "optional" \in opts,
    special |-> "special" \in opts]

run(flags) == [
    et |-> flags.et, directWayland |-> FALSE, systemBus |-> flags.systemBus, cookie |-> TRUE,
    flags |-> {"FUserns", "FHostNet", "FHostAbstract", "FTty"}
              \cup (IF flags.privateRuntime THEN {} ELSE {"FShareRuntime"})
              \cup (IF flags.privateTmpdir THEN {} ELSE {"FShareTmpdir"}),
    fs |-> << FSBind(<< >>, << >>, {"write", "special"}) >>
           \o (IF flags.et \cap {"EX11", "EWayland"} = {} THEN << >>
               ELSE << FSBind(<< "dev", "dri" >>, Missing, {"device", "optional"}) >>)
           \o << FSBind(<< "dev", "kvm" >>, Missing, {"device", "optional"}),
                 FSBind(EtcDir, EtcDir, {"special"}) >>,
    delay |-> 0]
-----------------------------------------------------------------------------
(***************************************************************************)
(* The container Proxy.Start makes for xdg-dbus-proxy.  A proxy p has the  *)
(* directories libs and bin of its program, and the entries of the         *)
(* addresses of its session bus and, if system, of its system bus: method  *)
(* and path, Missing for any other key.                                    *)
(***************************************************************************)
SessionUpstream(p) == ToSet(p.sessionAddr)
SystemUpstream(p)  == IF p.system THEN ToSet(p.systemAddr) ELSE {}

upstreamPaths(p) ==
    {Front(e.path) : e \in {a \in SessionUpstream(p) \cup SystemUpstream(p) :
                                a.method = "unix" /\ a.path # Missing}}

\* The proxy listens in the directory of the instance for both buses.
sockDirPaths == {Front(Append(instancePath, s)) : s \in {"bus", "system_bus_socket"}}

\* Sorted pathnames: a directory comes before those below it.
SortAbs(paths) == SetToSortSeq(paths, LAMBDA a, b : Len(a) < Len(b))

BindAll(paths, flags) ==
    FlattenSeq([k \in DOMAIN paths |-> OpBind(paths[k], paths[k], flags)])

ProxyOps(p) ==
    BindAll(p.libs, {}) \o BindAll(SortAbs(upstreamPaths(p)), {})
    \o BindAll(SortAbs(sockDirPaths), {"writable"}) \o OpBind(p.bin, p.bin, {})

\* Cancellation closes the status pipe instead of sending a signal.
ProxyParams(p) == [
    ops |-> ProxyOps(p), privileged |-> FALSE, seccompDisable |-> FALSE,
    waitDelay |-> TRUE, forwardCancel |-> FALSE,
    hostAbstract |-> upstreamPaths(p) = {}, ownCancel |-> TRUE,
    sockets |-> UNION {Socket(d, d) : d \in upstreamPaths(p) \cup sockDirPaths},
    hide |-> {}]
=============================================================================
