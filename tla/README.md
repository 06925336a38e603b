# Verification of hakurei

hakurei runs desktop applications in containers of their own users.  `hakurei
app` starts a *monitor* (the priv side), which prepares the host, starts a
*shim* through the setuid helper `hsu`, hands it a configuration, waits for it
and cleans up.  Several monitors may run for one *identity* (one target uid) at
once; they are separate processes that share the host, a lock file and a
directory of state entries.  This directory holds TLA+ modules translated from
the source, TLC configurations that check them on small instances, and TLAPS
proofs about them for every instance.

## Inventory

| Component | State | Operations | Interacts with |
|---|---|---|---|
| Monitor, `internal/outcome/process.go` | state of the main loop, `ctx`, shim pipe, entry handle, `isBeforeRevert`, exit code | start, commit, serve, lifecycle, cleanup, final | store (lock, entries), system (Commit, Revert), shim (pipe, SIGCONT, wait) |
| System operations, `internal/system` | list of ops; the host | Commit, Revert, apply and revert of eight kinds of Op | kernel, X server, compositor, D-Bus proxy |
| Store segment, `internal/store/segment.go`, `data.go` | one lock file and one entry file per instance | Lock, Save, Entries, Load, Destroy | all monitors of the identity |
| Store, `internal/store/store.go` | map of handles, big lock | Handle, Segments, All | command line (`hakurei ps`), monitors |
| Planning, `internal/outcome/outcome.go`, `sp*.go` | registered ops, shared directories, transmitted outcomeOps | toSystem (monitor), toContainer (shim) | system, container |
| Shim, `internal/outcome/shim.go`, `shim-signal.c` | setup pipe, signal pipe, container context | receive, cancel, orphan handling, wait | monitor, container init |
| Container, `container/container.go`, `init.go` | namespaces, mounts, capabilities, children, timeout, exit status | Start, Serve, Wait; early and apply phases, pivot, filter, reap, forward signals | shim, D-Bus proxy |
| Setup operations and mounts, `container/init*.go`, `auto*.go`, `vfs` | tree of nodes and mounts below the new root | bind, tmpfs, overlay, dev, proc, etc, root, link, place, remount | container init |
| Helper and D-Bus proxy, `internal/helper`, `internal/dbus`, `internal/system/dbus.go` | two locks, two pipes, four goroutines, the sockets | Start, Fulfill, Wait, Close | system, container |
| Message output, `message`, `linePrefixWriter` | withheld output, dropped bytes | Suspend, Resume, Write, Dump | monitor, proxy |
| Command line, `command`, `cmd/hakurei` | flags, configuration | app, run, show, ps and others | outcome, store |
| Setuid helper, `cmd/hsu` | credentials | parse hsurc, compute the uid, set credentials, exec | command line, monitor, shim |

Hard behaviours: monitors interleave at every call; any call may fail and the
main loop goes on with cleanup; SIGINT, SIGKILL and the shim's exit come at any
time; the decision what to revert is made from entries read earlier; a rollback
runs next to instances that are up; cancellation is one signal that may be lost;
entries are listed while others are written and destroyed; goroutines, timeouts
and a dying process meet in one select; mounts cover each other.

What makes each component correct:

- *Monitor, store and system together*: nothing a live container relies on is
  reverted by another instance; what nobody needs any more is reverted; the
  segment is only used under its lock; an instance is registered before it
  changes the host; a failure shows in the exit code; a cancelled monitor exits.
- *Planning*: directories precede what they hold, a resource is registered
  once, instances only share resources whose scope allows it, and the shim binds
  only what the monitor has provided.
- *Shim*: only its parent can cancel it, a parent that dies is noticed, a cancel
  that was requested stops the container, although each signal may be lost.
- *Store*: a listing misses no instance and never meets an entry that is being
  written; every call returns.
- *Container*: the program starts with everything mounted, confined as promised;
  it finds its sockets and not what is hidden; bind mounts are sealed; its status
  is propagated and it ends when it is told to.
- *D-Bus proxy*: Start and revert return, agree on the number of results, raise no
  false alarm and leave nothing behind.
- *Output*: nothing that was logged is lost unaccounted for.
- *hsu and command line*: hsu stays in the range of its caller and becomes the
  user the monitor planned for; success is not reported for what did not happen.

## Modules

| Module | Models |
|---|---|
| `SystemOps` | the kinds of `system.Op`, enablement types, criteria, what revert undoes |
| `Outcome` | `toSystem` and `toContainer` of every `outcomeOp` as operators on `outcomeStateSys` |
| `Lifecycle` | `outcome.main` of every monitor of an identity, with the store segment and the host |
| `Lease` | the abstract promise: join only when everything needed is present, release nothing a user needs |
| `LifecycleProofs` | what each action does to its monitor; type correctness, the segment invariant, the refinement of `Lease`, mutual exclusion, registration first |
| `LifecycleExit` | failures are reported; what a monitor, and the last of them, leaves on the host |
| `Shim` | one monitor, its shim (main thread, signal handler, goroutine) and the container init below it |
| `ShimProofs` | type correctness of `Shim`, that only genuine requests are acted on, and that an abort is prompt |
| `Store` | `Handle`, `Segments` and `All` of threads and processes that share a store directory, with the steps of `save`, and `ps` and `show` |
| `StoreProofs` | type correctness, complete listings, and that what is yielded exists |
| `Mounts` | mount tables: `Unfold`, `Collective`, `remount` |
| `Setup` | the setup operations of a container on a tree of nodes and mounts |
| `Params` | the setup operations a configuration makes, path hiding, the container of the D-Bus proxy |
| `Container` | a container from `Start` to the exit of init |
| `ContainerProofs` | the program runs confined only, its status is propagated, bind mounts are sealed, sockets are found and hidden paths stay hidden |
| `Proxy` | `dbusProxyOp` with `Fulfill`, its goroutines, and xdg-dbus-proxy |
| `ProxyProofs` | the count of errors Fulfill expects, no false alarm, a clean revert |
| `Output` | `Suspendable`, its use by the monitor, and `linePrefixWriter` |
| `OutputProofs` | nothing logged is lost, and the output of the proxy is accounted for |
| `Launch` | the command tree, `finalise`, `toSystem` op by op, and `hsu` |
| `LaunchProofs` | what the plans of `toSystem` are like, for every configuration; hsu and the exit status of hakurei |
| `MCOutcome`, `MCLifecycle`, `MCStore`, `MCContainer`, `MCOutput` | instances for TLC (`Shim` and `Proxy` are instantiated by their cfg files) |

`Lifecycle` composes the others: its `Plan` constants are what `Outcome`
computes from configurations (`MCLifecycle` evaluates `toSystem`), its
operations are those of `SystemOps`, and it refines `Lease`.  `Launch` runs the
operators of `Outcome` between the two calls of hsu.  `Container` applies the
operations of `Setup`, which `Params` computes from a configuration; `Setup`
seals bind mounts with `Mounts`.

### SystemOps and Outcome

A resource is what an Op creates: a directory, an ACL on a path, a hard link,
an X11 host entry, a Wayland socket, a D-Bus proxy (from Start to Wait), a
cgroup.  It is named by its path; a path that contains the instance identifier
has this instance as `owner`, so that equality of resources is equality of
paths.  `within` is the ephemeral directory that holds a resource: `remove(2)`
on it fails while the resource exists (`Busy`).  `Reverts` is the revert method
of each kind: Wayland and D-Bus ignore the criteria, `Ensure` is never undone,
the rest ask `hasType`, where the nil criteria spares `User`.

`Outcome` threads `outcomeStateSys` through the ops in the order of `toSystem`.
The checks that end the program before a shim exists are left out.  ExtraPerms
paths are assumed distinct from each other, from the displays and from the
program's own (`ConfigsAssumption` of `Launch`): with equal paths the order of
the ACL updates decides what is left.

### Lifecycle

`mon[i]` holds the local variables of `outcome.main`; `lock`, `entry`, `shim`
and `host` are what processes share.  Every call that another process can see
is an action: `Handle.Lock`, creating and writing the entry, writing the
identifier, each `apply`, each `revert`, serving, waiting, destroying the
entry, reading the directory, each header.  An action that can fail has a
`...Fail` twin, enabled by `Faults`, which follows the error path: `perror`
cancels `ctx`, closes the pipe and sets the exit code.  `Cancel` is SIGINT or
SIGTERM, `Kill` SIGKILL (the kernel drops the lock, everything else stays).
The D-Bus operation cannot be applied once `ctx` is done, since neither `ldd`
nor the proxy starts under such a context (`Interrupted`).

Abstractions: time is the order of events (the lifecycle timeout may fire any
time after `ctx` is done); a torn entry is one whose header cannot be read; a
shim is waiting for its configuration, running, or gone with a zero or nonzero
status; the D-Bus proxy process is the handle the monitor holds on it.  A revert
that fails is reported by `perror`, but for a busy cgroup, which is skipped, and
possibly the proxy, whose error is dropped when a signal has cancelled the context
of `Main` (`RevertOpFail` allows for both).

### Shim

`Shim` is the detailed form of the `shim` variable of `Lifecycle`, for one
instance.  The monitor is reduced to what its shim can observe: committing,
waiting, cleaning up, dead, and whether `ctx` is done.  `pc` names the next call
of `shimEntrypoint`; `Handler` is `hakurei_shim_sigaction`, `ReadSignal` the
goroutine that reads what it wrote; `SignalInit` and `KillInit` are what
`exec.Cmd` does when the context of the container is done.  `SIGCONT` models the
kernel: the default action discards the signal, and a pending one absorbs the
next together with its sender.  `Die` closes the pipe and sends the parent-death
signal, if `prctl` was called while the monitor was the parent.  `forward` is
`WaitDelay > 0`, chosen in `Init`.

Abstractions: timeouts are long, i.e. the monitor gives up when the shim has
nothing left to do by itself (`Working`), and `WaitDelay` passes at some time
after the cancellation; the configuration is complete, torn, or missing (EOF);
the program in the container ends whenever it likes, or never.

### Store

Threads that share a process share `handles`; `HandleLoad` is the branch of
`LoadOrStore` that finds a handle, `HandleStore` the one that publishes it before
its directory exists.  A handle whose publisher could not take the store lock
stays in the map, and locking it fails until somebody makes the directory.  The
file of an entry is missing, empty, a header (or a header and part of the body),
or whole; `SaveOpen`, `entryWriteHeader` and `entryEncode` are the writes of
`save`, and `Kill` may come between them.  `Load(nil)` is content with a header,
`Load(&state)` is not.  `CleanupLock` and `DestroyUnlocked` are the cleanup of the
monitor with and without its lock.  The name given to `show` is the set of
instances it may stand for: one for a whole identifier, any set for a prefix.
Entries with names that are no identifiers are skipped by every reader and left
out.

### Mounts, Setup, Params, Container

A pathname is a sequence of names, a tree a function from pathnames to
directory, file, link or device, a mount a record of its place, flags and source.
`Owner` is the mount a pathname resolves to.  `early` and `apply` of every
operation are operators on `setupState`; an operation that fails makes `ok` false,
and init exits.  `Container` takes the operations one at a
time, in the order and with the phases of `initEntrypoint`, next to its parent,
who may cancel, fail or kill, to signals, and to the processes of the container.
`ownCancel` is set where `Cancel` closes a pipe instead of sending a signal.

Symbolic links have texts, absolute or relative, and `Follow` replaces the first one on
the way of a pathname by what it leads to, at most `MaxLinks` times; a pathname that
still goes through a link leads to nothing.  There are three places to be in.  On the
host (`Resolve`), `EvalSymlinks` of `early` follows every link.  While `apply` runs
(`Real`), the root is the intermediate one: `MkdirAll`, `Stat`, `mount` and the
`evalSymlinks` of `procPaths.remount` follow relative links that stay below sysroot,
so that a target behind such a link lands where the link leads; an absolute one leads
out of sysroot, to nothing.  The program itself (`Seen`) is in the new root.  A bind
takes the links of the host along.

`Denied` holds the mounts of the host that answer a remount with EACCES.  The target
of a bind has to be remounted; a mount below it that refuses is passed over and keeps
its flags (`Remountable`, `remount`).

Known limits: a custom file system may be mounted over the target of a socket, and a
source bound at a different place is not found by path hiding (which the code
calls no security feature); none of the configurations of the run does so.  Two
configurations in which path hiding covers the sockets of the program are those of
`sockets_covered`.  `NamePrefix`, the pairs of names for which `HasPrefix` takes a
sibling for a child, is empty in the run: with `<<"lib", "lib64">>` and a host that has
mounts at `/usr/lib` and `/usr/lib64`, `Unfold` (unfold.go:85-100) takes the second one
for a mount covered by the first and leaves it out of the tree when `/usr` is bound, and
it keeps the flags it has on the host.

The children `Unfold` gives a mount are a set of positions, since the lists it builds
are in the order of the table.  The binds of `AutoRootOp` are resolved to a list by
`early` and made one after another by `apply`.

### Proxy

One apply and one revert.  `go` holds the four goroutines of `writeToFile` and
`statFile`, `ec` the error channel, `ecs` what Fulfill still expects.  A pipe end
is open or closed, and closing it twice is an error.  `Prepare` is the lookup of
the program and its libraries.  The proxy may get ready, quit when its pipe is
closed, hang or die.  `Kill` is `WaitDelay` of `exec.Cmd`, which is not zero here.
`Cancel` is that of `helperContainer.Start`, which closes the status pipe.
`WaitRemoveFail` is a socket that cannot be removed: `Wait` joins that error with the
status of the proxy, and revert drops both when the context was cancelled upstream.

### Output

A message is its length.  Load of the flag and the locked part of `Write` are
separate steps, and so are the swap and the dump of `Resume`.  The bounds of the
buffers are `suspendBufMax` and `lpwSizeThreshold`, small in the run, so that they
are reached.  `revert` dumps the output of the proxy and waits for it afterwards, so
that what the proxy writes in between is not printed.  `crossed` is the length of the
write that a Resume has overtaken between its load of the flag and its lock.

### Launch

A request holds the arguments and the parts of a configuration that `Validate`,
`finalise` and `hsu` look at.  Numbers are sequences of digits in a small radix,
with a word that wraps, so that overflow, the largest identity and the end of the
range are reached.  `uidEnd` itself is refused by hsu, so that the last identity
of the last userid cannot be used.  `EditHsurc` replaces the file between any two
steps.

## Runs

| Run | Instance | Shows |
|---|---|---|
| `launch` | every combination of enablements and flags; requests around each check of `Validate` and hsu; hsurc replaced once | `DirsFirst`, `RegisteredOnce`, `PlansCompatible`, `SourcesProvided` after every op; `HsuConfined`, `UidAgrees`, `NoSilentFailure` |
| `shared_segment` | two instances sharing X11 and an ACL, one with D-Bus; all faults `Benign` allows | `TypeOK`, `SegmentInv`, `RegisteredBeforeCommit`, refinement of `Lease` |
| `trio` | three instances, two with X11 and one without, same ACL; start and serve faults, interrupts | `LiveResources`, `RevertedAtFinalExit` |
| `exit_paths` | PulseAudio, both buses, Wayland and a cgroup next to a bare instance; lock, store, commit and read faults, applies that fail halfway, interrupts and SIGKILL; weak fairness | `ProcessReverted`, `FailureReported`, `CancelTerminates` |
| `shim_protocol` | every fault of `Shim`, two foreign SIGCONTs; weak fairness | `TypeOK`, `RequestsGenuine`, `AbortPrompt`, `CancelStops`, `OrphanStops` |
| `store_handles` | two identities, two monitors, a lister in the process of one of them that runs `ps`, `ps --short` or `show` with any name; every fault | `ListingComplete`, `YieldedExists`, `CallsEnd` |
| `container_init` | three configurations, two D-Bus proxies, and lists of operations, six of them with links on the way of a target, on a host of six mounts and three links, one mount of which denies its remount; an adopted orphan; faults, signals, cancellation | `Confined`, `StatusPropagated`, `Arranged`, `SocketsReachable`, `HostPathsHidden`, `BindSealed`, `LingerBounded`, `CancelEnds` |
| `proxy_op` | every fault, interleaving and timeout | `DispatchesExact`, `NoFalseAlarm`, `RevertClean`, `StartReturns`, `RevertReturns`, `FailedStartStops` |
| `output` | two goroutines that log, small buffers that fill up, lines of the proxy around the threshold | `NothingLost`, `LpwAccounted` |

Bounds.  The number of instances is the only bound of the runs of `Lifecycle`:
plans and loops are finite by themselves.  Two instances give every pair of
commit and cleanup; the third gives a monitor that decides while one neighbour
leaves and another stays.  The proofs lift the bound.  The bound of `Shim` is
the number of SIGCONTs other processes send: one can absorb the request of the
monitor and another its parent-death signal.  In `store_handles` one identity is
listed while the other changes, and the lister meets a handle that its process
has published; a second lister would add nothing, since listers only exclude each
other.  In `container_init` each operation succeeds and fails in some list, and
the mounts of the host make bind mounts with mounts below them, readonly ones
included.  `proxy_op` has no bound.

Runs that show a disagreement between the code and its documentation:

| Run | Statement | What happens |
|---|---|---|
| `rollback_neighbour` | xhost.go:8, kept until the enablement is no longer satisfied | SIGINT during a commit with D-Bus rolls back X11 access a running instance shares |
| `proxy_ready` | files.go:69, blocks until all fulfillment completes | the proxy is not ready within `FulfillmentTimeout`; the error is overwritten and Start succeeds |
| `sockets_covered` | container.go:62-64 (`hst`), `FMapRealUID` lets programs connect to D-Bus; run_test.go:398, the system bus is at `/var/run/dbus` | under an automatic root path hiding mounts a tmpfs over the runtime directory that has the name of the user's, or over `/run/dbus`, where `/var/run -> ../run` has led the bind; the program starts without its sockets |

What some of the properties allow for, because the code does it:

- `ProcessReverted`: an operation that fails after it has created its resource is not
  rolled back (wayland.go:45, cgroup.go:60).  The property says that this one resource
  and the directory that holds it are all that stays, and that the exit code tells.
- `RevertClean`: revert may leave a socket without an error only when the context was
  cancelled upstream and the proxy ended cleanly (dbus.go:118-121).
- `BindSealed`: a mount below the source that denies its remount stays as it is
  (mount.go:153), and a bind that covers a link on the way to its own target is
  remounted elsewhere.
- `NothingLost`: when the monitor exits, at most the one line that a Resume has
  overtaken is in the buffer (output.go:33).
- `NoSilentFailure`: the status of `hakurei` itself, up to the start of the shim.  Zero
  is for help and commands that start no container, with only known flags before what
  decides; what the shim returns is the matter of `FailureReported`.

The models show other behaviours that are worth knowing, and that the passing
runs leave out or allow for: the last instance reverts the user-scoped operations
of its own configuration only; a Wayland or cgroup operation that fails halfway
leaves its resource (see `ProcessReverted` above); SIGINT before the shim has its handler is lost, and the
monitor gives up on a container that runs; a monitor killed between serving and
`prctl` leaves a shim that is never told; without `WaitDelay` a cancellation
during the setup of init is lost.

## Fairness

`FairSpec` assumes weak fairness of `MonitorStep(i)` for each monitor that is not
`Blocked`: a process that can go on does.  A monitor that waits in flock for another one
is not `Blocked` any more once the lock is free; while it is held, nothing makes the
call fail, although `lock` is among the faults, so that a lock that is held for ever
would keep the waiting monitor from exiting (the mutant `SaveFailLocked`).  Nothing is
assumed of the shim, of the user, or of which of several outcomes a call has.  Since
every holder releases the lock after finitely many steps or is killed, weak fairness
suffices for two monitors, where the waiting one is the only one left once the other is
done.  Liveness assumes that calls return, the revert of
the D-Bus proxy among them, which `RevertReturns` shows.

`FairSpec` of `Shim` assumes weak fairness of each thread by itself: the main
loop of the monitor, the goroutine of `exec.Cmd` that calls `Cancel`, the main
thread, handler and goroutine of the shim, its timers, and the setup of init.
Nothing is assumed of users, of failures, or of the program in the container,
which may ignore SIGINT.

`Store` assumes weak fairness of the part of a call that does not wait, and of
`Unblocked`, where a thread that waits for a lock takes it once it is free: every
thread takes each lock finitely often, so that one who waits is the only one left
in the end.  Nothing makes a call fail that could succeed.  `Container` assumes
weak fairness of init, of the reaper and of the parent, and strong fairness of
the branches of the select loop, which Go chooses at random among those that are
ready; the program need not exit.  `Proxy` assumes weak fairness of each
goroutine and timer, and strong fairness of `FulfillReceive` for the same reason;
the proxy may hang.

## Proofs

The theorems hold for every value of the constants that satisfies the named
assumptions of the modules, which TLC evaluates for the instances of the runs.
What an assumption says of plans is itself shown of the plans `toSystem`
computes, see `LaunchProofs` below.

### Lifecycle

`LifecycleProofs` and `LifecycleExit` are about every set of instances and every
plan and set of enablements that satisfies `ConstantsAssumption`,
`PlanAssumption` (how the plans of two instances may overlap) and
`OrderAssumption` (how the operations of one plan are ordered).

- `TypeCorrect`: `Spec => []TypeOK`, under all faults.  `TypeOK` is
  strengthened with the bound of the index of Commit and Revert.
- `SegmentSafe`: `Benign` implies `Spec => []SegmentInv`.  `LiveResources` by
  itself is not inductive: a reverting monitor spares its live neighbours
  (`LiveSpared`) because it counted them (`LiveCounted`), because they were
  registered when it read the directory (`Registered`) and nobody could register
  in between (`SegmentLocked`); a monitor becomes live with everything applied
  (`AppliedHeld`, `FreshIndex`), and its own revert comes after its live time
  (`CommitFlag`).  `Benign` asks that locking and header reads succeed and that
  no commit is rolled back, i.e. that no apply fails and that no plan has a D-Bus
  operation if commits may be interrupted.  Both are needed:
  `rollback_neighbour` is the counterexample for rolled back commits, and a
  monitor that cannot lock the segment during cleanup uses it all the same.  The
  invariant is split into what it says of one monitor and of a pair; a step of
  one monitor restores its own part and leaves what the others rely on alone
  (`Undisturbed`).
- `LiveSafe`: the consequence `Spec => []LiveResources`.
- `Refinement`: `Spec => LeaseSpec`: each step acquires or releases one resource,
  lets one instance join or leave, or does nothing that `Lease` sees.
- `MutualExclusion`: `SegmentLocked` when locking does not fail, under all other
  faults, rollbacks included.
- `RegisteredFirst`: `RegisteredBeforeCommit` under all faults.
- `FailureAlwaysReported`: `FailureReported` under all faults.  It speaks of
  monitors that have exited; `Reported` says of all of them that a failure is in
  the exit code from the moment `perror` is called, and the status of the shim
  may replace it only by another failure.
- `ProcessAlwaysReverted`: `ProcessReverted`, for every set of faults without
  failing reverts and applies that fail halfway, each of which may leave a
  resource by itself.  `ScopeInv` ties the host to the index of Commit and
  Revert: a process-scoped resource that exists is one its monitor has yet to
  revert (`ScopeHeld`), and a monitor gets to `processFinal` only with the index
  at zero, through a revert whose criteria include `Process` (`AllSettled`).
  The directories make it hard: `remove(2)` fails while they hold something, and
  it is `OrderAssumption` that has them reverted last.
- `AllRevertedAtFinalExit`: `RevertedAtFinalExit` under `Orderly`: the shim may
  fail to start or to be served, and monitors may be interrupted unless a plan has
  a D-Bus operation; and plans are `Alike`, i.e. user-scoped operations are common
  to all instances, and operations of an enablement to those that have it.
  Without `Alike` the property is false, since the last instance reverts what is
  in its own configuration only; a lost entry, a rollback or SIGKILL leave
  something by design.  `ExitInv` says that what is on the host is something an
  instance has yet to revert (`Owned`), which one monitor may hand to another
  because those it has counted are registered still (`CountedSaved`).

### Shim

For every number of foreign signals and every set of faults.

- `ShimTypeCorrect`, `RequestsGenuineAlways`.  `RequestsGenuine` speaks of the
  last places a request reaches, so that the invariant follows it from the start:
  the pipe is closed, the signal is pending or the message is in the signal pipe
  only if the monitor is cancelled or dead (`Genuine`), and the handler tells
  senders apart because the parent was read before it was installed
  (`ParentKnown`).
- `AbortAlwaysPrompt`: a monitor that fails before its configuration is served
  closes the pipe, and the shim sees that and nothing else (`Prompt`), so that the
  monitor never waits for the timeout.

### Store

For any number of apps and listers in any number of processes, and every set of
faults: `StoreTypeCorrect`, `ListingAlwaysComplete`, `YieldedAlwaysExists`.  The
invariant is a conjunction over threads.  What a lister owes at its end, it has
listed or is going to: an identity is on the way as long as it is neither passed
nor current (`OnTheWay`), and in the current one what is owed is listed or in the
names that were read (`Listed`).  An app is between the writes of `save` only with
the lock of its segment (`Locked`, `Written`), which is why a lister that holds it
meets whole entries (`Yields`).

### Container

For every list of operations, configuration and set of faults.

- `AlwaysConfined`: `Progress` says for each phase of init what the phases before
  it have established and none since has undone; `Begun`, that the initial process
  exists only behind the last; `Unstarted`, that a container is started once.
- `StatusAlwaysPropagated`: `Reaping` follows the status from the wait4 thread
  over its channel to the result of the loop, with any number of adopted
  processes; the timeout starts only once the result is known.
- `AlwaysSealed`: `BindSealed`, for every list of operations, every tree, its links, every
  set of mounts that deny their remount, and every mount table of the host that is
  `Unambiguous`: no mount point of the host is, as
  text, the beginning of another without being above it.  `PlainNames` shows that an
  empty `NamePrefix`, as in the run, is enough for that; without it the property does
  not hold (see the known limits above).  The argument has two halves.
  - What one bind does.  It leaves a table that is `Bound`: its own mount is the last
    one on the target, and behind it is what the bind has taken along, rebased from
    the source to the target, which keeps what is below what (`RebasedUnder`,
    `RebasedPrefix`).  A mount that a pathname still resolves to is `Open`: what came
    after it at or above its place is at the same place.  The parent of an open mount
    is open (`OpenParent`), and `Unfold` keeps an open mount among the children of its
    parent, since only a mount that covers it could push it out (`HungKeeps`,
    `OpenChild`).  So one can walk up from any visible mount to the bind mount, and
    `visit` walks down the same way (`VisitReaches`): what is visible is in the
    `Collective` (`CollectiveVisible`), and remounting it seals it (`RemountSealed`).
    Nothing visible below the target is older than the bind, which covers it.
  - That the state an operation meets is such that this applies.  `SetupInv` says that
    it is a mount table, that the host has finitely many files, and that `final` holds
    what `early` has resolved: a pathname for a bind, a list for `AutoRootOp` once
    `early` has been through it.  There is a lemma for `early` and `apply` of every kind
    of operation.  That of `apply` says that its result `Follows`: it keeps the mounts that
    are there, in place and in order, adds only those of its kind (`Made`) and what a bind
    takes along (`From`), and removes no node but what it covers.  Where a link is on the
    way of the target the mounts are somewhere else, and nothing is said of their places
    (`Loose`).  `SetupAssumption` and
    `ContainerAssumption` say no more than that pathnames are lists of names, that the
    host has finitely many files, and that operations are of the types of `Op`.
- `AlwaysReachable`: `Spec /\ []Arranged => []SocketsReachable`.  `Arranged` says that each
  socket is the target of a bind that is not optional, that no later operation may mount
  anything at or above it (`SocketsLast`), that no link is on the way of a mount when it is
  made (`Direct`), nor on that of a socket when the program starts.  Without the links it
  would be false, as `sockets_covered` shows.  `SocketInv` says of a socket behind its bind
  that it is `Placed`: from one mount on, every mount at or above its pathname is that of
  the socket.  `BindPlaced` shows that the bind does so, with whatever it takes along and
  after it was remounted, and `PlacedKept` that every operation that mounts elsewhere
  leaves it so.
- `AlwaysHidden`: `Spec /\ []Arranged => []HostPathsHidden`.  The part of `Arranged` it needs
  beside `Direct` is `HiddenCovered`: wherever a bind, an entry of the automatic root (links
  included) or a device of `MountDevOp` shows a path to be hidden, a later tmpfs is mounted
  over that.  `HideInv` says of every mount that shows such a path, those included that a
  bind has taken along, that something was mounted over it since or that the tmpfs is still
  to come; before `apply`, nothing of the host is mounted.  What a bind has taken along shows
  a path at the same place as the bind itself (`RebasedTwice`), and a pathname that shows a
  file below a hidden path is below the place where the path shows (`RebasedBack`).

That the operations of a configuration are `Arranged` is an invariant of `container_init`:
the theorems take the host, its mounts, and the other operations out of the bounds of the
run; what `Params` makes of a configuration, and the links it meets, stay with TLC.

### Proxy and Output

- `ProxyTypeCorrect`, `DispatchesExactAlways`, `NoFalseAlarmEver`,
  `RevertCleanAlways` (with the one exception of `RevertClean`), under every fault.  `Account` counts the errors: those
  expected are those in the channel and those each goroutine owes, which is four
  program counters and a queue in one equation.  `Undisturbed` says that without
  timeout and cancellation nobody closes a pipe but its owner and no error is made,
  so that a failure has a reason (`Reasoned`).
- `NothingEverLost`, for every limit of the buffer and any lengths: `Counted` is the
  balance of bytes, and `Overtaken` says that what is withheld without suspension
  belongs to a write that a Resume has overtaken, of which there is one at a time since
  the logger holds its lock while it writes.
- `LpwAlwaysAccounted`, for every threshold and every way the output of the proxy is
  split: `Balanced` is kept by each segment, also by one that ends a message of init
  and takes off what an earlier write has counted.

### Launch

`LaunchSpec` starts from any request, installation and hsurc, where the run
enumerates some.

- `NeverSilent`: `NoSilentFailure`, for every command line: status zero is only set by the
  command tree, which reaches the handler of a command through known flags only; a
  configuration that is refused and an hsu that fails end with another status.
- `UidAlwaysAgrees`, `HsuAlwaysConfined`: for every hsurc, in every order of reading
  and replacing it.  `LaunchInv` says what hakurei has planned from (`Planned`),
  what hsu has read (`Read`), and which credentials each system call has set
  (`Became`).  They rest on facts about digits that hold for every radix and word:
  what is parsed is a word, and the value of its digits if that fits (`FieldRead`);
  an identity that is written out is parsed back to itself (`WrittenRead`).
  `NumbersAssumption` asks that uids fit the word and that hsu accepts as many
  digits as an identity has.
- `DirsAlwaysFirst`, `SourcesAlwaysProvided`: for every configuration;
  `AlwaysRegisteredOnce`, `PlansAlwaysCompatible`: for every set of configurations
  with `ConfigsAssumption`.  The invariant, `Planning`, holds after every op of
  `toSystem`.  It says of the plan so far that it is ordered (`Ordered`), that the
  flags of `outcomeStateSys` stand for directories that are registered (`Held`:
  without it, the next op that finds the flag set would rely on nothing), that
  what was transmitted is provided for (`Provided`), that a resource is the
  instance's own or of a scope that may be shared (`Scoped`), and that names are
  apart, each op using names of its own (`Single`).  There is one lemma for each
  `sp*Op`.
- Together these are what `Lifecycle` assumes: `PlansAlwaysCompatible` is
  `PlanAssumption` for the plans of configurations in `Configs`, and
  `DirsAlwaysFirst` and `AlwaysRegisteredOnce` are the parts of `OrderAssumption`
  that depend on the order of the ops; the third, that no `Ensure` is
  process-scoped, is the definition of `Ensure`.

Recursion.  `toSystem` goes over ops and ExtraPerms, hsu over digits,
`linePrefixWriter` over segments, `Unfold` over mountinfo, lists of any length; `visit`
goes down a tree.  The schemes of induction of the library take an operator, which the
provers cannot instantiate; the proofs use facts about functions instead.  `Climb`: what
holds of 0 and is handed on holds up to n, since there is no smallest number at which it
fails (`Smallest`).  `Recursion`: a function given by its first value and the step to the
next exists.  `VisitSolved`: so does one that collects the children of children, as the
least sets closed under them.

### Only model-checked

- Liveness, which needs `ENABLED`: `CancelTerminates`, `CancelStops`, `OrphanStops`,
  `CallsEnd`, `LingerBounded`, `CancelEnds`, `StartReturns`, `RevertReturns`,
  `FailedStartStops`.
- `Arranged`: that the operations `Params` makes of the configurations of the run are in
  the order the theorems about sockets and hidden paths ask for.  For every
  configuration it is false, since a custom file system may cover a socket, path
  hiding does not find a source that is bound elsewhere (the known limits above), and it
  covers sockets itself in the configurations of `sockets_covered`.

## Plan

1. Done: `SystemOps`, `Outcome`, `Lifecycle`, `Lease` and their proofs.
2. Done: `Shim` and the proof that it acts on genuine requests only.
3. Done: `Store`, `Mounts`, `Setup`, `Params`, `Container`, `Proxy`, `Output`,
   `Launch`.
4. Done: proofs of the safety properties of `Lifecycle`, `Shim`, `Store`, `Proxy`,
   `Output`, `Launch` and of the planning, and of `Container`.
5. Done: conditions on the order of the operations under which `SocketsReachable` and
   `HostPathsHidden` hold, and their proof.
6. Left: conditions on a configuration under which `Params` makes operations in that
   order.

## Not modelled

- The tables of system calls and the generated headers (`container/std`),
  seccomp rules, the C bindings for ACLs, X11 and Wayland, `internal/info`: data,
  or effects outside of the program, which the operations that use them stand for.
- `helper` and `system` at the top of the repository: deprecated aliases.
- `container/stub`, `test`: code of tests.
- Parsing and printing without state: JSON, help texts, D-Bus addresses and
  arguments, mountinfo text, `ldd` output, the PulseAudio cookie.
- `cmd/hpkg`: a proof of concept that runs external programs.
- `Read`, `Write` and `Transform` of `lockedfile`, which have no caller.
