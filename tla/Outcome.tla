------------------------------- MODULE Outcome -------------------------------
(***************************************************************************)
(* internal/outcome: what an instance does to its host and what its        *)
(* container binds from it.  outcomeStateSys.toSystem runs the list of     *)
(* outcomeOps on the priv side and appends operations to system.I; the ops *)
(* that are enabled are sent to the shim, which runs toContainer on them   *)
(* in another process, with none of the state toSystem has kept.           *)
(*                                                                         *)
(* A configuration c has the fields                                        *)
(*   et             enablements, a subset of Enablements                   *)
(*   shareRuntime   FShareRuntime      shareTmpdir  FShareTmpdir           *)
(*   directWayland  DirectWayland      systemBus    SystemBus # nil        *)
(*   cgroup         Container.Cgroup # nil                                 *)
(*   display        the value of DISPLAY                                   *)
(*   x11Socket      whether DISPLAY names a socket that exists             *)
(*   extraPerms     sequence of [path, ensure], the valid ExtraPerms       *)
(* i is the instance identifier.  The checks that fail before the shim is  *)
(* started (DISPLAY unset, no PulseAudio socket, invalid filesystem) leave *)
(* no plan and are not represented.                                        *)
(***************************************************************************)
EXTENDS Naturals, Sequences, SystemOps

SharePath(i)   == Dir("share", {i})
RuntimePath(i) == Dir("run", {i})

\* outcomeStateSys as newSys returns it; Ops is shimParams.Ops.
NewSys == [useRuntimeDir |-> FALSE, sharePath |-> FALSE,
           runtimeSharePath |-> FALSE, sys |-> << >>, Ops |-> << >>]

\* Methods of system.I append their op to the end of the list.
Register(s, ops) == [s EXCEPT !.sys = @ \o ops]

\* The outcomeOp returned nil: it is transmitted.
Enabled(s, name) == [s EXCEPT !.Ops = Append(@, name)]

\* An outcomeOp that returns errNotEnabled unless cond.
Optional(cond, s, t) == IF cond THEN t ELSE s

-----------------------------------------------------------------------------
(***************************************************************************)
(* The directories outcomeOps share, created by the first that asks.       *)
(***************************************************************************)
ensureRuntimeDir(s) ==
    IF s.useRuntimeDir THEN s
    ELSE Register([s EXCEPT !.useRuntimeDir = TRUE],
             << Ensure("RuntimePath"), UpdatePermType(User, "RuntimePath", {}),
                Ensure("RunDirPath"),  UpdatePermType(User, "RunDirPath", {}) >>)

\* Mutant: every caller of instance registers the directory.
instanceAgain(i, s) ==
    Register([s EXCEPT !.sharePath = TRUE], << Ephemeral(Process, "share", {i}) >>)

\* The process-specific directory in TMPDIR.
instance(i, s) ==
    IF s.sharePath THEN s
    ELSE Register([s EXCEPT !.sharePath = TRUE],
                 << Ephemeral(Process, "share", {i}) >>)

\* The process-specific directory in XDG_RUNTIME_DIR.
runtime(i, s) ==
    IF s.runtimeSharePath THEN s
    ELSE Register([ensureRuntimeDir(s) EXCEPT !.runtimeSharePath = TRUE],
                 << Ephemeral(Process, "run", {i}),
                    UpdatePermType(Process, "run", {i}) >>)

-----------------------------------------------------------------------------
(***************************************************************************)
(* toSystem of each outcomeOp.                                             *)
(***************************************************************************)
spParamsOp(c, i, s) == Register(s, << Ensure("SharePath") >>)

spCgroupOp(c, i, s) ==
    Optional(c.cgroup, s,
        Enabled(Register(s, << Cgroup("cgroup", {i}) >>), "cgroup"))

\* A directory kept for all instances of the identity, and its parent.
Shared(parent, inst) ==
    << Ensure(parent), UpdatePermType(User, parent, {}),
       Ensure(inst),   UpdatePermType(User, inst, {}) >>

spRuntimeOp(c, i, s) ==
    Enabled(Optional(c.shareRuntime, s,
                     Register(s, Shared("runtime", "runtimeInst"))), "runtime")

\* Mutant: only the parent of the shared directory is registered.
spTmpdirOpParent(c, i, s) ==
    Enabled(Optional(c.shareTmpdir, s,
                     Register(s, << Ensure("tmpdir") >>)), "tmpdir")

spTmpdirOp(c, i, s) ==
    Enabled(Optional(c.shareTmpdir, s,
                     Register(s, Shared("tmpdir", "tmpdirInst"))), "tmpdir")

spWaylandOp(c, i, s) ==
    Optional("EWayland" \in c.et, s,
        Enabled(IF c.directWayland
                THEN Register(ensureRuntimeDir(s),
                             << UpdatePermType("EWayland", "wayland", {}) >>)
                ELSE Register(instance(i, s),
                             << Wayland("wayland", {i}, SharePath(i)) >>),
                "wayland"))

\* Mutant: the ACL of the X11 socket is bound to the process.
spX11OpProcess(c, i, s) ==
    Optional("EX11" \in c.et, s,
        Enabled(Register(s, << UpdatePermType(Process, c.display, {}),
                              ChangeHosts(c.display) >>), "x11"))

spX11Op(c, i, s) ==
    Optional("EX11" \in c.et, s,
        Enabled(Register(s,
            (IF c.x11Socket THEN << UpdatePermType("EX11", c.display, {}) >>
             ELSE << >>) \o << ChangeHosts(c.display) >>), "x11"))

\* Mutant: the link is registered before its directory.
spPulseOpEarly(c, i, s) ==
    Optional("EPulse" \in c.et, s,
        Enabled(runtime(i, Register(s,
            << LinkFileType(Process, "pulse", {i}, RuntimePath(i)) >>)), "pulse"))

spPulseOp(c, i, s) ==
    Optional("EPulse" \in c.et, s,
        Enabled(Register(runtime(i, s),
            << LinkFileType(Process, "pulse", {i}, RuntimePath(i)) >>), "pulse"))

spDBusOp(c, i, s) ==
    Optional("EDBus" \in c.et, s,
        Enabled(Register(instance(i, s),
            << ProxyDBus("bus", {i}, SharePath(i)),
               UpdatePermType(Process, "bus", {i}) >>
            \o (IF c.systemBus
                THEN << UpdatePermType(Process, "system_bus_socket", {i}) >>
                ELSE << >>)), "dbus"))

\* flattenExtraPerms, one entry after the other.
flattenExtraPerms(perms) ==
    LET flat[k \in 0 .. Len(perms)] ==
            IF k = 0 THEN << >>
            ELSE flat[k - 1]
                 \o (IF perms[k].ensure THEN << Ensure(perms[k].path) >> ELSE << >>)
                 \o << UpdatePermType(User, perms[k].path, {}) >>
    IN  flat[Len(perms)]

spFilesystemOp(c, i, s) == Register(s, flattenExtraPerms(c.extraPerms))

\* The order of toSystem: spParamsOp runs first and spFilesystemOp last.
outcomeOps == << "params", "cgroup", "runtime", "tmpdir", "wayland", "x11",
                 "pulse", "dbus", "filesystem" >>

runOp(op, c, i, s) ==
    CASE op = "params"     -> spParamsOp(c, i, s)
      [] op = "cgroup"     -> spCgroupOp(c, i, s)
      [] op = "runtime"    -> spRuntimeOp(c, i, s)
      [] op = "tmpdir"     -> spTmpdirOp(c, i, s)
      [] op = "wayland"    -> spWaylandOp(c, i, s)
      [] op = "x11"        -> spX11Op(c, i, s)
      [] op = "pulse"      -> spPulseOp(c, i, s)
      [] op = "dbus"       -> spDBusOp(c, i, s)
      [] op = "filesystem" -> spFilesystemOp(c, i, s)

toSystem(c, i) ==
    LET run[n \in 0 .. Len(outcomeOps)] ==
            IF n = 0 THEN NewSys ELSE runOp(outcomeOps[n], c, i, run[n - 1])
    IN  run[Len(outcomeOps)].sys

-----------------------------------------------------------------------------
(***************************************************************************)
(* toContainer of each transmitted outcomeOp: the paths outside of the     *)
(* container that it binds.  A path is named like the resource of the op   *)
(* that provides it; what it is called by is all the shim has.             *)
(***************************************************************************)
Source(name, owner) == [name |-> name, owner |-> owner]

toContainer(op, c, i) ==
    CASE op = "cgroup"  -> {Source("cgroup", {i})}
      [] op = "runtime" -> IF c.shareRuntime THEN {Source("runtimeInst", {})} ELSE {}
      [] op = "tmpdir"  -> IF c.shareTmpdir THEN {Source("tmpdirInst", {})} ELSE {}
      [] op = "wayland" -> IF c.directWayland THEN {Source("wayland", {})}
                           ELSE {Source("wayland", {i})}
      [] op = "x11"     -> {}
      [] op = "pulse"   -> {Source("pulse", {i})}
      [] op = "dbus"    -> {Source("bus", {i})} \cup
                           (IF c.systemBus THEN {Source("system_bus_socket", {i})}
                            ELSE {})
=============================================================================
