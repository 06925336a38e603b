---------------------------- MODULE MCContainer ----------------------------
(***************************************************************************)
(* Containers for TLC on a small host: configurations as toParams hands    *)
(* them to the container, and lists of operations for each way an          *)
(* operation may succeed or fail.                                          *)
(***************************************************************************)
EXTENDS Container, Params, TLC

Dirs(paths)  == [p \in paths |-> "dir"]
Files(paths) == [p \in paths |-> "file"]

Runtime1000 == << "run", "user", "1000" >>
Shared      == << "tmp", "hakurei.0" >>
Usr         == << "usr" >>
Share       == << "usr", "share" >>
Home        == << "home" >>
Portal      == Runtime1000 \o << "doc" >>

HostPaths ==
    Dirs({<< >>, Usr, << "usr", "lib" >>, Share, << "etc" >>, << "dev" >>, << "run" >>,
          << "run", "user" >>, Runtime1000, Portal, Runtime1000 \o << "hakurei" >>,
          Runtime1000 \o << "hakurei", "inst" >>, << "run", "nscd" >>, << "run", "dbus" >>,
          << "var" >>, << "tmp" >>, X11Dir, Shared, Shared \o << "inst" >>,
          Shared \o << "runtime" >>, Shared \o << "runtime", "7" >>,
          Shared \o << "tmpdir" >>, Shared \o << "tmpdir", "7" >>})
    @@ Files({<< "etc", "hosts" >>, << "etc", "passwd" >>, << "dev", "null" >>,
              << "dev", "tty" >>, << "dev", "kvm" >>, << "run", "nscd", "socket" >>,
              << "run", "dbus", "system_bus_socket" >>,
              Runtime1000 \o << "wayland-0" >>, Runtime1000 \o << "hakurei", "inst", "pulse" >>,
              Shared \o << "inst", "wayland" >>, Shared \o << "inst", "bus" >>,
              Shared \o << "inst", "system_bus_socket" >>})
    @@ (<< "bin" >> :> "link") @@ (<< "etc", "mtab" >> :> "link")
    @@ (<< "var", "run" >> :> "link")

Absolute(path)     == [abs |-> TRUE, up |-> 0, down |-> path]
Relative(up, path) == [abs |-> FALSE, up |-> up, down |-> path]

LinkTexts == (<< "bin" >> :> Relative(0, << "usr", "lib" >>))
         @@ (<< "etc", "mtab" >> :> Absolute(<< "proc", "mounts" >>))
         @@ (<< "var", "run" >> :> Relative(1, << "run" >>))

Mnt(p, f) == [at |-> p, flags |-> f]

\* A file system of its own below /usr, one that is readonly, /dev, the
\* runtime directory of the user, and a file system in it that lets nobody
\* but the user in.
MountTable == << Mnt(<< >>, {}), Mnt(<< "usr", "lib" >>, {"nodev"}), Mnt(Share, {"ro"}),
            Mnt(<< "dev" >>, {"nosuid"}), Mnt(Runtime1000, {"nosuid", "nodev"}),
            Mnt(Portal, {"nosuid", "nodev"}) >>

DeniedSources == {Portal}

BusDirs == {<< "var", "run", "dbus" >>}

-----------------------------------------------------------------------------
\* Configurations: `hakurei run` with its flags, and custom ones.
AllEt == {"EWayland", "EX11", "EDBus", "EPulse"}

RunFlags(et, priv) == [et |-> et, systemBus |-> FALSE,
                       privateRuntime |-> priv, privateTmpdir |-> priv]

Custom(flags, fs) == [et |-> AllEt, directWayland |-> FALSE, systemBus |-> TRUE,
                      cookie |-> FALSE, flags |-> flags, fs |-> fs, delay |-> -1]

FSEphemeral(target, write) == [type |-> "ephemeral", target |-> target, write |-> write]
FSOverlay(target, lower)   == [type |-> "overlay", target |-> target, upper |-> Missing,
                               work |-> Missing, lower |-> lower]
FSLink(target, linkname, dereference) ==
    [type |-> "link", target |-> target, linkname |-> Absolute(linkname),
     dereference |-> dereference]

HstConfigs == {
    run(RunFlags(AllEt, FALSE)),
    Custom({"FMapRealUID", "FDevice"},
           << FSEphemeral(<< >>, TRUE), FSBind(<< "etc" >>, << "etc" >>, {"special"}),
              FSOverlay(<< "opt" >>, << Usr, Share >>), FSLink(Home, << "bin" >>, TRUE) >>),
    [Custom({"FShareRuntime", "FShareTmpdir", "FHostAbstract"},
            << FSBind(<< "run", "dbus" >>, Missing, {"write"}), FSBind(Usr, Missing, {}),
               FSBind(Home, Missing, {"optional"}) >>)
        EXCEPT !.directWayland = TRUE, !.cookie = TRUE, !.delay = 99] }

-----------------------------------------------------------------------------
\* Lists of operations on their own.
OpLists == {
    OpBind(Usr, Usr, {}) \o OpBind(Share, Share, {"writable"}) \o OpTmpfs(Tmp, {})
        \o OpBind(Home, Home, {"optional"}) \o OpBind(Home, Home, {"ensure"}),
    OpBind(Usr, Usr, {"writable", "device"}) \o OpTmpfs(Share, {"ro"})
        \o OpLink(<< "tmp", "l" >>, Absolute(<< "bin" >>), TRUE)
        \o OpDev(Dev, FALSE, FALSE) \o OpRemount(Dev),
    OpBind(Home, Home, {}),
    OpBind(Home, Home, {"optional", "ensure"}),
    OpBind(<< "bin" >>, << "bin" >>, {}) \o OpAt("mkdir", << "bin", "x" >>),
    OpRoot(<< >>, {"writable"}) \o OpRoot(<< >>, {}),
    Etc(<< "etc" >>, "inst") \o << [kind |-> "etc", prefix |-> "inst"] >>,
    << [kind |-> "etc", prefix |-> "inst"] >>,
    OpOverlay(Usr, Missing, Missing, << Usr >>),
    OpOverlay(Usr, Missing, Missing, << Usr, Share >>) \o OpLink(Home, Absolute(Usr), TRUE),
    OpOverlay(Usr, << >>, Missing, << Usr >>) \o OpOverlay(Home, Usr, Share, << Usr >>)
        \o OpRemount(<< "nowhere" >>),
    OpOverlay(Usr, Share, Missing, << Usr >>),
    OpBind(<< "run" >>, << "run" >>, {}) \o OpBind(Portal, Portal, {}),
    << >> }

\* Targets with links on their way: one that is bound with a directory, into a
\* directory or into nothing; two in a row; an absolute one; one that leads to
\* itself; and one that is covered by the mount it leads to.
Var     == << "var" >>
VarRun  == << "var", "run" >>
Dot     == << "s", "dot" >>

LinkLists == {
    OpBind(Var, Var, {}) \o OpTmpfs(<< "run" >>, {}) \o OpAt("mkdir", VarRun \o << "dbus" >>)
        \o OpBind(<< "dev", "null" >>, VarRun \o << "dbus", "socket" >>, {})
        \o OpBind(<< "dev", "null" >>, VarRun \o << "dbus", "socket" >>, {"writable"})
        \o OpAt("place", VarRun \o << "place" >>) \o OpRemount(VarRun),
    OpBind(Var, Var, {}) \o OpTmpfs(VarRun \o << "dbus" >>, {}),
    OpTmpfs(Tmp, {}) \o OpLink(<< "a" >>, Relative(0, << "b" >>), FALSE)
        \o OpLink(<< "b" >>, Relative(0, Tmp), FALSE) \o OpBind(Usr, << "a", "x" >>, {})
        \o OpAt("proc", << "a" >>) \o OpDev(<< "b", "dev" >>, TRUE, FALSE),
    OpLink(<< "a" >>, Absolute(Tmp), FALSE) \o OpTmpfs(Tmp, {}) \o OpTmpfs(<< "a", "x" >>, {}),
    OpLink(<< "a" >>, Relative(0, << "a" >>), FALSE) \o OpTmpfs(<< "a" >>, {}),
    OpTmpfs(<< "s" >>, {}) \o OpLink(Dot, Relative(0, << >>), FALSE)
        \o OpTmpfs(Dot \o << "x" >>, {}) \o OpBind(Usr, Dot, {}) }

OpConfig(l) == [ops |-> l, privileged |-> FALSE, seccompDisable |-> FALSE,
                waitDelay |-> TRUE, forwardCancel |-> TRUE, hostAbstract |-> FALSE, ownCancel |-> FALSE,
                sockets |-> {}, hide |-> {}]

\* The proxy of both buses, and one that has to share the network of the host.
Unix(path) == [method |-> "unix", path |-> path]
Proxies == {
    [libs |-> << << "usr", "lib" >> >>, bin |-> Usr, system |-> TRUE,
     sessionAddr |-> << Unix(Runtime1000 \o << "bus" >>), Unix(Shared \o << "bus" >>) >>,
     systemAddr |-> << Unix(<< "run", "dbus", "system_bus_socket" >>) >>],
    [libs |-> << >>, bin |-> Usr, system |-> FALSE,
     sessionAddr |-> << [method |-> "tcp", path |-> Missing] >>,
     systemAddr |-> << Unix(<< "run", "dbus", "system_bus_socket" >>) >>] }

ConfigSet ==
    {toParams(c) : c \in {d \in HstConfigs : ConfigValid(d)}}
    \cup {OpConfig(l) : l \in OpLists \cup LinkLists} \cup {ProxyParams(p) : p \in Proxies}
    \cup {[OpConfig(OpAt("proc", << "proc" >>)) EXCEPT
             !.privileged = TRUE, !.seccompDisable = TRUE,
             !.forwardCancel = FALSE, !.hostAbstract = TRUE]}

\* `hakurei run` with the system bus as well, which is bound behind the link
\* /var/run; and its configuration with FMapRealUID, which a configuration file
\* may have: the runtime directory then has the name of the one that is hidden.
CoveredSet == {
    toParams(run([RunFlags(AllEt, FALSE) EXCEPT !.systemBus = TRUE])),
    toParams([run(RunFlags(AllEt, FALSE)) EXCEPT !.flags = @ \cup {"FMapRealUID"}]) }

\* TLC evaluates a definition once, and the operator a constant is replaced
\* with every time.
Host           == HostPaths
Links          == LinkTexts
Table          == MountTable
AllConfigs     == ConfigSet
CoveredConfigs == CoveredSet

Status(s, v) == [signaled |-> s, value |-> v]
AllStatuses  == {Status(FALSE, 3), Status(TRUE, 9)}
=============================================================================
