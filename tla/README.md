# A TLA+ model of openDSU

openDSU is a C library, preloaded into a web server, that lets a new version of
the server take over its bound ports from a running one. This directory holds TLA+
modules for its update protocol and its bookkeeping of descriptors, TLC
configurations that check them on small instances, and TLAPS proofs for every
instance. Paths below are relative to the repository (`src/core.c` is the library's
core, `src/event_handlers/*.c` the wrapped event functions).

## 1. The system

| Component | State it keeps | Operations | Talks to |
|---|---|---|---|
| Port state per process (`state.h`, `state.c`) | `struct dsu_socket_list`: `fd`, `shadowfd`, `comfd`, `comfds`, `fds`, `monitoring`, `version`, `locked`, `transfer`, two semaphores, pointer to shared memory | add, remove, find, move between the lists `sockets` and `binds` | every wrapper of its process |
| `bind()` and handshake (`core.c:62-234, 600-749`, `communication.c`) | abstract unix name of the port, listener `comfd`, one connection per requester | claim the name; else connect, send the port, receive `shadowfd` and `comfd`; open semaphores; compute the version | the event function of the running version |
| Monitor (`core.c:237-276`) | shared `pgid`, `version`, `TRANSFER` under `status_sem` | publish the own version, quit, count down `TRANSFER` | the monitors of other versions |
| Termination (`core.c:108-194`) | `workers`, shared by a process group; `live` per process | activate, detect that nothing is left, exit, kill the group | siblings |
| Event functions (`select.c`, `poll.c`, `epoll.c`) | what the call watches, `fd_sem`, epoll's interest list, poll's `revents` | monitor, watch or not watch the port, handle internal connections, hide them from the application | requesters, other versions through `fd_sem` |
| Wrappers (`core.c:430-862`, `file.h`) | connection list | `socket`, `listen`, `accept`, `close`; the others translate one descriptor | application |
| Launcher (`exec.c`), string helpers (`utils.c`) | none | set `LD_PRELOAD`, exec | - |

**What is hard.** Two or more versions, each of one or several processes, share
one TCP queue, one unix listener, one counter and two semaphores. Nothing but
the order of their event calls decides who publishes, who quits and who answers
a requester. In particular:

- `status_sem` and `fd_sem` are opened under one name (`core.c:662,668`), so which
  object is which depends on who opened or unlinked it when;
- `fd_sem` stays taken across the application's wait;
- a process can be killed by its sibling, by a crash or by SIGPIPE between any
  two of these steps, and a requester can vanish at any point of the handshake;
- a signal interrupts `sem_wait` as it does the wait for events, and the code then goes
  on without the lock (`select.c:130`) or without the section (`core.c:245`);
- `fork()` copies the library's state; `select()` interrupted by a signal and
  `poll()` that times out return with their lock;
- everything is remembered by descriptor number, and numbers come back: the number of
  a listener that was closed may be a client's next.

**What makes it correct.** *Monitor and handshake*: the port is served at every
moment, versions follow each other by one, all use one socket. *Semaphores*: one
holder per object, the counter `TRANSFER` is exact, a blocking socket has one
watcher. *Internal connections*: who is answered gets both descriptors, and those
of its own port. *Termination*: no process with a client disappears; an old
version does end; clients in the queue are accepted by somebody; an update completes.
*Descriptors*: the lists agree with what is open; an event function reports
what is ready of the application's descriptors, nothing else, and counts it right.

## 2. Modules

| Module | Content |
|---|---|
| `Update` | the abstract specification: processes join as the next version, publish, retire, leave; `NoGap`, `NextVersionOnly` |
| `UpdateProofs` | its theorems |
| `Handover` | the protocol for one port as the code of several processes runs it, with its properties; instantiates `Update` as `U` and states `Refines` |
| `HandoverProofs` | the inductive invariant `IInv` of types and locks, and its theorems |
| `SocketProofs` | the inductive invariant `SocketInv` of the descriptors passed between versions, and the theorem that all serve one socket |
| `ServiceProofs` | the inductive invariant `ServiceInv` of the handshake, and the theorem that the port stays served and can be updated again |
| `GroupProofs` | the inductive invariants `CountInv` of the worker counts and `GroupInv` of versions of several processes, and the theorems about counts, versions, service and sessions |
| `RefinementProofs` | the proof that `Handover` implements `Update` |
| `TransferProofs` | the inductive invariants `TransferInv` and `WatchInv` of a single update, and the theorems that its counter is right, nobody watches a blocking socket twice, and no requester is left with half an answer |
| `MCHandover` | process sets, groups and event functions for TLC; it extends `RefinementProofs` and `TransferProofs`, so that the inductive invariants are checked too |
| `Ports` | one process with several ports, at the level of descriptor numbers: lists, translation, `accept`, `close`, counts |
| `PortsProofs` | the inductive invariants `PortsInv` and `ReportInv`, and the theorems about lists, reports and counts |
| `MCPorts` | event functions and requests for TLC; it extends `PortsProofs` |

`Handover` has one port, several processes, sockets without numbers, and every
interleaving within an event call. `Ports` has several ports, one process, the
numbers, and an event call of three steps; what other versions do to it
is its environment. `Handover` cannot tell two numbers apart that refer to one socket, and
`Ports` cannot see a lock; no property needs both.

### How Handover corresponds to the code

`pc[p]` says where process `p` is. Between two labels the code touches nothing
that others can change, or does so under a semaphore that the next step
releases. A section under `status_sem` is one step that needs the semaphore
free, with one exception: wherever the code loads and stores `TRANSFER`, load
and store are two steps with the semaphore held between, because the lock of
another process may be a different object.

| Labels | Code | Actions |
|---|---|---|
| `bind listen connect send recv1 recv2` | `dsu_monitor_init`, `dsu_inherit_fd` | `MonitorBind MonitorListen Connect SendPort ReadShadow ReadComfd` |
| `inherit1 inherit2 version` | heir's path of `bind` | `InheritStatusSem InheritFdSem InheritVersion` |
| `sem1 sem2 fresh tcpbind` | fresh path of `bind` | `FreshStatusSem FreshFdSem FreshStatus TcpBind` |
| `version fresh monitor terminate count pre` | a `sem_wait` on `status_sem` that fails | `StatusWaitFails` |
| `user exit` | a `sem_wait` on the lock of `workers` that fails | `WorkersWaitFails` |
| `user accept` | application: fork, sessions, accept | `Fork EventCall Accept CloseClient` |
| `monitor quit terminate exit killpg` | `dsu_monitor_fd`, `dsu_termination_detection`, `dsu_terminate` | `Monitor QuitStore TerminationDetection Terminate KillGroup` |
| `pre wait` | `dsu_pre_select`, `dsu_pre_poll`, `dsu_epoll_shadowfd`, the system call | `PreEvent Wake Timeout PollTimeout Interrupt` |
| `handle count store reply1 reply2` | `dsu_handle_conn`, `_poll`, `_epoll`, `dsu_write_fd`, `dsu_post_*`, `dsu_set_revents` | `HandleAccept HandleClose HandleRace HandleError HandleRequest CountLoad CountStore ReplyShadow ReplyComfd Post ScanFault` |

`sock[p]` is the record of the port in the code's `binds` list, with the lists as
sets. `interest` is what remains in the epoll instance between two waits, and
`revents` whether the TCP socket's entry in the application's `pollfd` array is
still marked from an earlier call. A descriptor is the socket it refers to, named by
the process that created it; `None` is a descriptor that refers to no socket of the
protocol (a closed one, or 0). `Open` is the kernel's reference count: a socket
exists while a live process has it or a message carries it.

**A failing `sem_wait`.** With `SemFails` a `sem_wait` that has to sleep may return -1,
because a signal arrives whose handler was installed without SA_RESTART. It has to sleep if the semaphore is taken
(`~Free`), or if another process may be in a section of the same semaphore that is one step here
(`InSection`). What follows is the code's: `bind()` leaves the version as it is and returns 0 (`core.c:685`, `722`;
`socket()` copied it from a local variable without a value, `JunkVersion`), the monitor and termination detection do
nothing (`core.c:245`, `125`), the port is not watched (`select.c:168`), a worker is not counted (`core.c:186`) or leaves without counting itself
out (`core.c:163`); and where the result is ignored (`select.c:130`, `poll.c:157`, `epoll.c:171`) the process counts itself without the lock
and posts a semaphore that it did not take (`CountUnlocked`). `Step` is the next-state relation without these two
actions.

The event functions differ where the code differs:

- *select* is entered again instead of returning 0 (`Restarts`), and is given
  100 microseconds while a transfer is counted (`hurry`);
- *epoll* handles connections in any order, keeps what is registered between calls, and
  unlocks also when it is interrupted;
- *poll* returns at once, without unlocking, when nothing is ready (`PollTimeout`,
  `poll.c:359-362`); when the TCP socket's entry has left the array the first
  internal entry is never handled (`Handled`, `poll.c:82, 374`); an internal descriptor that is
  ready is searched for behind the end of the application's array (`ScanFault`,
  `poll.c:267-272`), which faults or comes to some end; `revents` stay.

*Outside the code* (`external` in the map): unix and TCP sockets, process table,
`fork`, semaphores, crashes and clients. `accept()` of a client is the
application's; it accepts when told that the port is readable.

*Nondeterminism that stands for undefined or unspecified behaviour*: `core.c:220`
passes a pointer where `F_SETFL` expects flags, so the listener does or does not
become non-blocking; `dsu_write_fd` hands an uninitialised length to `getsockopt`,
so with `JunkLen` an answer may not be sent; with `ScanFaults` the read behind the
array may fault.

*Constants that describe the application and its environment*: `Binder` (who
calls `bind`; the others are forked), `Master` (helpers or masters that never call
an event function), `Handler` (of each version), `Blocking`, `UserTimeout`, `Signals`,
`SemFails`, `LateFork`, `ConcurrentStart`, `SigpipeFatal`. The only bound of the model itself is
`MaxCrashes`; clients connect at most once and a process starts at most once.

### How Ports corresponds to the code

`table` is the kernel's descriptor table: each number refers to an object, and
a new descriptor gets the lowest free number. `sockets` and `binds` are the lists
of `struct dsu_state_struct`, the second a sequence in the order of `bind()`.

| Actions | Code |
|---|---|
| `OpenSocket Bind` | `socket()`; `bind()` as one step, with the numbers it uses up on either path: that of the shared memory, which is never closed (`core.c:641`), that of the listener, and those received |
| `Accept Close` | `accept()`; `close()` with its searches in their order, for unbound, listening and client sockets |
| `EventCall Detect Terminate` | `dsu_initialize_event`: `dsu_monitor_fd` over all ports, `dsu_termination_detection`, exit |
| `Wake` | the system call, `dsu_handle_conn*` port by port (`HandlePort`) and event by event (`HandleEvent`), translation and count (`Original`, `Visible`, `Shadows`), restart of `select()` |
| `Timeout` | the wait ends with nothing ready |
| `Request Send Hangup Supersede` | requesters and newer versions (external) |
| `Connect Leave Elsewhere OpenFile` | clients and the application's own descriptors (external) |

What the application sees (`Visible`) is after `select()` whatever is left in the set: an internal descriptor is hidden by the `FD_CLR` of the
handler alone. `poll()` has its internal entries behind the end of the application's array, and epoll takes its own out (`epoll.c:297`).

`report` is what the last call told the application: the descriptors, the count it
returned, and, for comparison, which of the application's descriptors were in fact
ready. `Modes` is the set of event functions, with or without a timeout, one of which the
application uses. The order in which epoll delivers events matters where a
connection is closed before or after the listener accepts, and is chosen by `ahead`. An epoll instance
keeps an entry as long as any process has the object open: `Ghosts` are the numbers under which it still
reports a listener that this process has closed.

## 3. Runs

Three processes suffice for what two cannot show: a chain of three versions, or
two processes of one version beside another version. One client is enough to
have a session cut off or a queue ignored; two clients are used where
a second could take the first one's place. The status memory starts new or left
over from an earlier run of the port (`Leftover`), as it is never unlinked.
Deadlock checking is off: all processes may have ended or have crashed.

| Run | Instance | Shows |
|---|---|---|
| `chain_mixed` | 3 versions, with select, epoll and poll, failing writes | `ServiceKept`, `VersionStep`, `OneSocket`, `LockExclusive`, `Refines` |
| `forked_epoll` | a version that forks and its update, possibly started at the same time, epoll | `WorkersAccurate`, `SessionsSurvive`, `Refines` |
| `group_crash` | an update of two processes that both call `bind()`, select, signals, one crash, SIGPIPE ignored | `OneVersionPerGroup` (the delayed process of `core.c:689`), `SessionsSurvive` and `ServiceKept` for the survivors, `SocketInv`; `IInv` where a process dies inside a section or `select()` returns with its lock |
| `live_select` | 2 versions, blocking socket, no timeout, 2 clients, fairness | `OldVersionEnds`, `UpdateCompletes`, `ClientsAccepted`, `TransferCounts`, `BlockingWatchExclusive`, `NoneStranded`, and the invariants `ServiceInv`, `TransferInv`, `WatchInv` |
| `live_mixed` | from epoll to poll; the first version has a helper that waits for no event; non-blocking socket, finite timeout, fairness | `OldVersionEnds`, `UpdateCompletes`, `ClientsAccepted`, `GroupInv` |
| `interrupted` | forked version, which also forks late, and update with select, blocking socket, signals that make `sem_wait` fail | `ServiceKept`, `NoneStranded`, `SocketInv` hold, although locks and counters go wrong (section 5) |
| `faults` | forked version and update with poll with a timeout, signals, reads behind the array that fault, one crash, concurrent starts, lost replies, fatal SIGPIPE | `TypeOK`, `IInv` |
| `ports` | 2 ports, one created and one inherited, one requester, one client, a file; any of the three event functions; the application closes its sockets | `TypeOK`, `ListsTrue`, `NothingSpurious`, `NothingMissed`, `CountRight`, `EndsDone` |
| `ports_live` | 2 ports, a requester for each, epoll with a timeout, fairness | `HandedRight`, `Ends`, `Answered` |
| `v_status_mutex` | 3 versions | TLC refutes `StatusMutex` |
| `v_poll_ends` | 2 versions with poll, non-blocking socket, timeout, fairness | TLC refutes `OldVersionEnds` |
| `v_handed` | 2 ports, 2 requesters that may ask for the same one, epoll | TLC refutes `HandedRight` |

The largest, `interrupted` and `ports`, have 1.5 million distinct states and take one to three minutes. `MaxFd` leaves a free number beyond what an instance has open
at once, so that the table is never full at an `accept`.
Each property of a passing run comes with a faulty variant of a definition that
breaks it (the operators named `...Kept`, `...Early`, `...Always` and so on, which stand
before the definitions they vary).

Some properties name an exception that the code makes necessary and hold but for it:
`NothingSpurious` (epoll's -1, `Ghosts` and `Orphans`, and what poll found ready in an earlier call), `NothingMissed`
(`select.c:59`), `CountRight` (poll with several ports), `EndsDone` (ports that were closed). The
exceptions are listed under Disagreements.

### Fairness

`FairSpec` of `Handover` assumes of each process:

- its steps of `bind`, of an event call and of a ready `accept` are not postponed for
  ever (weak fairness: the scheduler). `EventCall` is one of them: an application
  returns to its event loop, as a server does;
- a process that sleeps on a semaphore that is posted again and again gets it
  in the end (strong fairness on `SemStep`: the waiters of a futex are woken in turn);
- a session that has data is noticed in the end (strong on `UserEvent`), and
  every client connection is closed in the end (strong on `CloseClient`). This is owed
  by clients and application: the library waits for sessions without a limit.

Nothing is assumed of starts, forks, signals, crashes and new clients.

`FairSpec` of `Ports` assumes weak fairness of the steps of an event call and of its
return (`Leaves`) once something is ready or there is a timeout, of clients that leave, and of
requesters that send and hang up; and strong fairness of closing a session whose
client has left (the application is in its loop only now and then).

## 4. What is proved

For any sets of processes, groups and clients, any number of crashes and any
event function of each version, under the named assumptions on the constants
in `Handover`, `~SemFails` and `~(LateFork /\ KeepsLock)` (`HandoverProofs`):

- `Inductive`: `Spec => []IInv`
- `TypeCorrect`: `Spec => []TypeOK`. Its part `sem \in [Sem -> {0,1}]` is a claim about
  the code: as long as no `sem_wait` fails, nobody posts a semaphore that he has not taken.
- `LockExclusiveHolds`: `Spec => []LockExclusive`, one holder per semaphore object,
  although `status_sem` of one process and `fd_sem` of another may be one object.

Neither `TypeOK` nor `LockExclusive` is inductive. A post keeps `sem` binary only if the
poster holds the semaphore, which is `LockExclusive`; and that is kept only when
new objects are created free of holders. `IInv` adds

- `SemsOpen`: from which point on a process has each of its semaphores;
- `UncreatedUnknown`: an object that a process may still create is known to nobody,
  so that creating it with value 1 frees no lock;
- `LockedInside`: who has `locked` set is inside an event call (or left one
  early) and has two different semaphores. An heir whose two
  are one object fails its own `sem_trywait`, because it makes the call inside
  the status section;
- `InsideLive`: who is inside an event call has been counted as a worker.

The proof has one lemma per kind of step (a step that touches no semaphore, a death,
taking and giving each semaphore, opening, forking, starting), and every action
is shown to be of one kind. A death releases nothing, so crashes cost exclusion
nothing; they cost liveness.

`~SemFails` says that signals interrupt event functions but no `sem_wait`: every handler is installed with SA_RESTART, which
resumes `sem_wait` and not `select()`, `poll()` or `epoll_wait()`. It is a premise of every theorem about `Handover`, as the
code does not look at the result of `sem_wait` where it answers (section 5 has what becomes of each property without it). `Uninterrupted` shows that `Spec` then takes
only the steps of `Step`, about which the proofs are.

The premise `~(LateFork /\ KeepsLock)` is needed and comes from the code: an
interrupted `select()` returns with the lock (`select.c:305`), and so does `poll()` that times out
(`poll.c:360`); a child forked after that inherits `locked = 1`, and both will post.
`KeepsLock` says that one of the two can happen. `faults` and `group_crash` check `IInv` where it can and nobody forks late; `interrupted`
forks late and shows what holds even so.

`SocketProofs`, under the same two premises and `~JunkLen`:

- `OneSocketHolds`: `Spec => []OneSocket`. All processes that run the event loop serve
  one TCP socket, whichever path of `bind()` they took and whoever crashed, quit or was
  killed meanwhile.

That a process serves the socket it was sent is not inductive: one must know that the first
descriptor a requester reads is the TCP socket, that it is the first one sent, by a single
answerer, and that a requester which read nothing but an end of file will get nothing more and cannot
bind a socket of its own while another is open. `SocketInv` says so in parts:

- `Shadows`: what `shadowfd` is at each point of `bind()` and after it;
- `BoundOnce`: of the sockets bound to the port at most one is open (a second `bind()` fails);
- `Unstarted`: nothing of a process exists before it starts;
- `Answerers`: who answers has read the request and lists the connection, and is alone in that;
- `Repliers`: before its request is read a requester has no reply, and the first is the TCP socket;
- `EofIsFinal`: whoever met the end of file at its first read will get nothing;
- `ReadyListed`: a connection found ready is in the list while it waits for its turn.

Most steps pass no descriptor: one lemma (`CalmStep`) covers them, another
(`SocketDeath`) every death, and each of the actions that pass one has its own.
`~JunkLen` is assumed because the code needs it: TLC refutes `OneSocket` for three versions with
`JunkLen` and one crash. A first reply that is dropped (`communication.c:19-20`) leaves the second descriptor,
the listener, in the place of the first. Without crashes no version gets that far (`OneSocketKept` below, `chain_mixed`).

`ServiceProofs`, for any number of versions that are one process each (`Alone`):

- `ServiceKeptHolds`: `Spec => ServiceKept`. Once a version serves the port and can be asked for its sockets, there is always such a
  version, however the versions' starts, handshakes, monitors and terminations interleave.
- `ServiceInvHolds`: `Spec => []ServiceInv`, the invariant behind it.

A version that can be updated stops being so only when a newer one has published itself; so the newer one
must have the listener. That leads back through the handshake, and `ServiceInv` has a part for each place it passes:

- `Heirs`: whoever may publish has a listener, and a version of a fresh start has number 0 and publishes nothing;
- `Acceptors`: whoever has accepted requesters has the listener, or has closed it; whoever is about to end has no requester left;
- `Waiting`: a request that can still be read has a sender that waits, and one that was read has somebody who keeps its connection,
  so that it meets no end of file and is not answered too late;
- `TwoReplies`: it is sent two descriptors at most, the second a listener. A process that quits between the two
  replies sends one only; its requester then waits for ever (Disagreements) but publishes nothing.

One lemma (`QuietService`) covers the steps that pass nothing, one (`DeathService`) the deaths, and a second row of lemmas
(`...Keeps`) shows that each step leaves a version that can be updated as it is, except the publication by another one.
The premises (`ServicePremises`) are `Alone`, `NoCrashes` and those of the lock proof. The code needs `NoCrashes`: a server that dies between its two
replies leaves an heir that serves without a listener (section 5). `group_crash` checks the property with a crash.

- `OneSocketKept`: `Spec => []OneSocket` under these premises, so also when `dsu_write_fd` drops descriptors. `Waiting` closes the gap
  that `OneSocketHolds` leaves: nobody closes the connection of a requester that was sent nothing, which therefore never
  comes to bind a socket of its own (`Attended`).

`GroupProofs` begins with the worker counts, for a finite set of processes in any number of groups:

- `WorkersAccurateHolds`: `Spec => []WorkersAccurate`. The shared count of a group is the number of its live
  workers, until the one that counted down to zero kills the group.

`CountInv` adds to it that nobody is counted before the first event call, that a group begins with its binder, and
that the count of a group that has not begun is zero. The premises are `~SemFails`, `~LateFork`, `OrderlyDeaths` and `OneBinder`, and the
code needs each: a worker whose `sem_wait` fails is not counted; a child forked after the first event call was never counted; a process that dies without
`dsu_terminate` stays counted (TLC refutes the property for `forked_epoll` with `MaxCrashes = 1`); and a
group that was killed leaves its count in the shared memory for a process of it that calls `bind()` afterwards.

It goes on with versions of any number of forked workers, with any event function each:

- `OneVersionPerGroupHolds`: `Spec => []OneVersionPerGroup`, from `OneBinder` and the premises of the lock proof alone; workers
  may be forked at any time and may crash. `Lineage` says that while a process of a group is inside `bind()` the others do not exist yet.
- `GroupServiceKept`: `Spec => ServiceKept`. Neither a worker that ends nor a group that is killed takes the last process along
  that can be asked for the sockets.
- `VersionStepHolds`: `Spec => VersionStep`. While the port is served, the published version grows by one at a time.
- `SessionsSurviveHolds`: `Spec => SessionsSurvive`. No process goes while it serves a client, neither by its own
  termination nor by the `killpg` of a sibling.
- `GroupOneSocket`: `Spec => []OneSocket` again, with replies that are dropped.
- `GroupInvHolds`: `Spec => []GroupInv`, the invariant behind the last four, on top of those above:
  - `Creator`: one process takes the fresh path of `bind()`, and its listener and TCP socket are the only ones ever bound;
  - `Unopened`: until the first event call there are only the creator and its workers;
  - `Newcomers`: who was never in its event loop has no connection and is at most one version ahead;
  - `Served`: from the first event call on somebody can be asked for the sockets;
  - `Reached`: every requester is in the queue of the one listener or in somebody's list, so it meets no end of file;
  - `Leavers`: who exits serves no client and is superseded, and who kills its group finds nobody in it but children
    that were never in their event loop.

The premises of all but the first (`GroupPremises`) are finitely many processes, `OneBinder`, `~LateFork`, `~SemFails`, `~ConcurrentStart` and `NoCrashes`
(processes leave through `exit` and `killpg` only). Section 5 has a counterexample for each of the last five.

`RefinementProofs`, under the same premises:

- `Refinement`: `Spec => Refines`. The initial state maps to that of `Update`, and each step maps to `Restart`, `Join`, `Publish`, `Retire`,
  `Leave` or to a stutter. `StepSeen` collects one lemma per kind of step; most change nothing that `Update` sees (`Unseen`).

`TransferProofs`, under the same premises, about one update (`OneUpdate`: at most two processes call `bind()`) between versions of any number of workers
and with any number of clients:

- `NoneStrandedHolds`: `Spec => []NoneStranded`, if no length is negative (`~JunkLen`). Whoever reads the request of the update also sends both descriptors.
- `TransferCountsHolds`: `Spec => []TransferCounts`, if the old version is one process (`FirstAlone`). The counter is right between any two
  sections that load and store it.
- `StatusMutexHolds`: `Spec => []StatusMutex` under the same premises, the property that `v_status_mutex` refutes for three versions.
- `BlockingWatchExclusiveHolds`: `Spec => []BlockingWatchExclusive`, if moreover the update does not use epoll (`Laters`).
- `TransferInvHolds`, `WatchInvHolds`: the invariants behind them.

Each of these premises is needed: section 5 has what happens with a third version (all three properties fail), with
a first version that forked (`TransferCounts` and `BlockingWatchExclusive`) and with epoll for the update (`BlockingWatchExclusive`). The argument has three layers:

- `Holding`: until the update is through its `bind()`, whoever serves monitors the port, has the listener and is of the published version, so that
  nobody quits. Hence `Owed`: who reads a request can send the listener, and does, before it can come to quit.
- `TransferInv`: only the first version answers (`Successors`), the update passes through `bind()` by an answer (`Asked`), and the counter is 0
  or 1 as the first version is in transfer or not, through each of the steps between load and store (`FirstCounts`, `FirstInTransfer`). So it needs no mutual exclusion:
  the two versions lock different objects, but one of them never counts.
- `WatchInv`: both semaphores of an heir are one object (`OneObject`), which it holds while it tries to lock it, so that it never does. It therefore
  watches a blocking socket only when `TRANSFER` is 0, which is not before the first version has quit (`Watchers`).
  What keeps the two apart is the counter and not the lock that the code takes for it.

`UpdateProofs`, for any set of processes, if the version left over in memory is a number (`Leftover \subseteq Nat`): `TypeCorrect`, `NoGapHolds` (`Spec => NoGap`) and
`NextVersionHolds`. By `Refinement` the last two are statements about `Handover` for every instance that meets `GroupPremises`,
and by TLC's check of `Refines` about the instances of `chain_mixed` and `forked_epoll`.

`PortsProofs`, for any number of ports, clients, requesters and descriptors, any of the event functions and any closing of sockets,
from the named assumptions on the constants alone (`NoneAssumption` says that a closed number is told from an open one), with one more premise for `HandedRightHolds`:

- `PortsTypeCorrect`: `Spec => []TypeOK`;
- `ListsTrueHolds`: `Spec => []ListsTrue`. What the lists remember by number is what is open, although numbers come back;
- `EndsDoneHolds`: `Spec => EndsDone`;
- `NothingSpuriousHolds`, `NothingMissedHolds`: what an event call reports is ready, and the reverse, but for the exceptions the
  properties name;
- `CountRightHolds`: `Spec => CountRight`. The number it returns is that of the descriptors reported;
- `HandedRightHolds`: `Spec => []HandedRight`, if no two requesters ask for one port (`AskedOnce`). The code needs that premise: `v_handed`
  is the counterexample without it.

The handlers are loops: over the ports, and for each over the positions of its list, which changes meanwhile.
`Ports` has them as recursive functions, and the proofs go by induction over the positions. As a
rule of induction with an operator parameter cannot be used, four lemmas take its place. From the well-foundedness of the natural
numbers, `Least` gives a smallest counterexample; `Persists` and `UpTo` say that what holds at 0 and is passed on holds up
to `N`, for a set in place of an operator; `Repetition` says that the recursive function exists. `PortLoop` and `HandledLoop` give the two loops once, with what all
their proofs need of each position.

`PortsInv` is `TypeOK`, `Lists` and `SocketsTrue`. `Lists` is stronger than `ListsTrue`: a bound socket's own number is that of its TCP
socket or of an unbound one; a list has no number twice, so that taking out the first is taking out all; a port and a number
belong to one bound socket; and the number of a *closed* listener is never a listener or a TCP socket again, as none
is opened once the application is in its loop. That is why the code may remember it: an accept on it finds nothing.

`ReportInv` says of what is kept between calls that `revents` are of numbers which the application still waits for,
and that epoll's entries are of internal objects and their numbers do not belong to a TCP socket. What a call does to the events is
in `Tracks`: an event that is not internal remains, but for select's on the number of a listener it closed (`Remain`), and none
comes from nowhere, but for epoll's -1 (`Stems`). The attempt to prove `NothingSpurious` corrected it: the exception for epoll
had been `Stale`, the numbers of listeners that are no longer monitored, which is too small when two requesters may ask for one port, a
case that no run has; `Ghosts` names what epoll really keeps.

For the count, the translation is one-to-one on what the application asked for (`TranslatedOnce`), so that as many numbers are reported as events are
visible. `select()` has taken away each internal event (`SelectCleaned`) and counted it once (`SelectCounted`): two events never have one number, and a list loses
a number only when its own event is handled. `poll()` counts each entry that is ready behind the application's `nfds`, once for every port
(`PollCounted`), hence the restriction to one monitored port.

*Only model-checked:*

- liveness, as fairness and `ENABLED` are out of the prover's reach: `OldVersionEnds`, `UpdateCompletes`, `ClientsAccepted`, `Ends`, `Answered`;
- what the runs check beyond the premises of the theorems: `ServiceKept` and `SessionsSurvive` after a crash and in a group in which two
  processes call `bind()` (`group_crash`); `SessionsSurvive` and `Refines` with a concurrent start (`forked_epoll`);
  `SocketInv`, `NoneStranded` and `ServiceKept` with a failing `sem_wait` and late forks (`interrupted`).

Every other property of a passing run is stated by a theorem.

## 5. Disagreements between the code and what it says of itself

With a run:

- **Two status locks** (`v_status_mutex`, `core.c:662,668`). The first version unlinks the name between
  its two `sem_open`s and has two objects; an heir opens the name twice and gets
  the first version's `fd_sem` for both. They change `TRANSFER` under different locks.
  `TransferCounts` nevertheless holds with two versions, as only one of them counts (`TransferProofs`); nothing in the code says so. With three it does not: checked as in
  `chain_mixed` (`JunkLen = FALSE`), the decrement of a version that quits falls between load and store of another that counts itself, and is lost.
- **An old version with `poll()` does not end** (`v_poll_ends`, `poll.c:374`). `dsu_set_revents` relies on
  "all internal file descriptors are > nfds" (`poll.c:260-261`), but an entry that is
  taken out moves them down, and `dsu_handle_conn_poll` starts at the application's `nfds`. After it has
  quit, the old version never handles the end of file of its last requester.
- **The wrong descriptor is sent** (`v_handed`, `core.c:254`). The number of a closed listener stays in
  `comfd`; a client gets it; a requester accepted earlier is sent the client's session
  where `core.c:74-76` promises the unix socket.

Without a run of their own, in `Handover`; each is found by checking the property in `MCHandover` with
the constants given, the others as in `live_select` (with `SPECIFICATION Spec` where the property is a safety property):

- `NoneStranded`, `Proc <- Three`, three binders: a process that accepted an internal connection and then quits
  has closed `comfd` (`core.c:254`); when it reads the request it sends `shadowfd` only, ignores the failure and
  keeps the connection. The requester waits in `recvmsg` for ever and the old process never ends.
- `UpdateCompletes`, `Handler <- AllEpoll`: with a blocking socket and `epoll_wait(-1)`, as in
  `tests/version_0/simple_epoll.c:70`, the old version sleeps holding `fd_sem` (`epoll.c:226`), which is the new
  version's `status_sem`: its `bind()` waits until a client happens to connect.
- `UpdateCompletes`, `Handler <- AllPoll`: the same with `poll()`; and with a timeout it keeps the lock over the return.
- `BlockingWatchExclusive`, `Proc <- Three`, three binders: two versions are answered by the first, which counts itself once
  (`select.c:132`) and takes that back when it quits for the earlier one; `TRANSFER` is 0 while the two others are still to
  replace each other, and both watch the blocking socket.
- `BlockingWatchExclusive` and `TransferCounts`, `Pgid <- Forked`, `Binder = {p1, p3}`: a quitting sibling that
  never counted itself decrements `TRANSFER` (`core.c:256`) while the other still serves, so both versions
  watch the blocking socket (`select.c:172` "Only one process can monitor").
- `BlockingWatchExclusive`, `Handler <- AllEpoll`: `epoll_ctl` registers `shadowfd` (`epoll.c:55`)
  but the library deactivates `fd` (`epoll.c:204`); for an heir these differ.
- `OldVersionEnds`, three processes, `Forked`, `Binder = {p1, p3}`, `Master = {p2}`, `Handler <- SelectThenEpoll`: the
  heir, which so watches without the lock, takes the client first, and the old version sleeps in a blocking `accept`.
- A `sem_wait` that a signal interrupts (`SemFails = TRUE`, `Signals = TRUE`): with the constants of `interrupted` (with a client for
  `SessionsSurvive`) TLC refutes
  `LockExclusive` and `StatusMutex` (two processes are inside one section, and a semaphore stands at 2), `TransferCounts`,
  `BlockingWatchExclusive`, `WorkersAccurate` (a worker is never counted) and `SessionsSurvive` (its sibling, counting itself down to zero,
  kills it with its client). `ServiceKept`, `VersionStep`, `OneSocket`, `NoneStranded` and `OneVersionPerGroup` hold there. They need
  that shape: with three versions of one process each,
  `NoneStranded` fails, and when two members of a group call `bind()`, one is left without a version by `core.c:685`, and `ServiceKept`, `VersionStep`,
  `OneVersionPerGroup` and `NoneStranded` fail. `SocketInv` holds in these instances, too. Liveness is not checked with a failing
  `sem_wait`.
- `LockExclusive`, `Forked`, `LateFork = TRUE`, `Signals = TRUE`: a child forked after an interrupted `select()` (`select.c:305`) has `locked`
  set as its parent has, and both post the semaphore.
- `SessionsSurvive`, `Forked`, `LateFork = TRUE`: a child forked after the first event
  call inherits `live` and is never counted; the parent ends as "last" worker
  and kills it with its client.
- `OneVersionPerGroup`, `Forked`, `First = p1`, all three bind: a delayed process of a
  group that has been superseded meanwhile gets a number above that of the
  update (`core.c:689` "Could be a delayed process"). `group_crash` shows that it works for the newest
  group.
- `Refines`, three binders, `ConcurrentStart = TRUE`: a version that connects between the first one's `bind` and
  `listen` is refused and takes the path commented "No other version
  running" (`core.c:706`), where it replaces the semaphores and resets the status.
- `ServiceKept`, `MaxCrashes = 1`, `SigpipeFatal = TRUE`: a requester that dies before it is answered
  takes the serving process with it (`communication.c:52`).
- `ServiceKept`, as in `chain_mixed` with `JunkLen = FALSE`, `SigpipeFatal = FALSE`, `MaxCrashes = 1`: an old version dies between the two replies
  (`select.c:140-142`) to the third, which goes on without a listener (`core.c:88-90` ignores the failure), publishes itself and supersedes the
  second, the only one that could be asked for the sockets.
- `core.c:209-210` wants the listener non-blocking; `core.c:220` leaves that to chance. With
  two processes in a version the one that comes second sleeps in `accept4`.
- `poll()` leaves `revents` set (`poll.c:272`): the application accepts again on a socket that has
  no client, and a blocking `accept` sleeps.

In `Ports`, in `MCPorts` with the constants given, the others as in `ports_live`:

- `Answered`, `Modes <- SelectT`: the number of the listener of a port that was quit comes back as an internal
  connection of the other port; the first port takes its event (`select.c:59`) and the requester is never answered.
- `Delivered`, `Modes <- Select`, one port, `OpensFiles = TRUE`: the same with a descriptor of the application, which is
  ready and not reported.
- `NoClientLost`, `Closes = TRUE`: a process whose listening socket was closed has no port and exits with clients
  connected, although termination is to wait while there are "open connections with clients" (`core.c:109-113`, 145).
- `Answered`, `Closes = TRUE`: closing a bound socket "should also" remove what belongs to it (`core.c:805`), but `comfd` and
  the internal connections stay open (`core.c:827-831`), and requesters wait.
- `Answered` and `Ends`, `Modes <- Poll`: as in `v_poll_ends`.
- poll's count is too small by one for each port after the first (`poll.c:91`), and epoll may report an event on
  descriptor -1 (`epoll.c:147`) or on a listener that was closed or orphaned.

## 6. What is not modelled

- **`dup()` of a session**: a second number for one object, which the connection lists
  do not learn (`core.c:508-512`). `Ports` would need to count references, and the lists go wrong at
  the first `close()`, as reading the code shows.
- **Binding one port twice in one process**: it connects to its own listener and waits for ever.
- **A full descriptor table**: `MaxFd` is chosen so that no `accept` fails.
- In `Handover`: failures of `shm_open`, `ftruncate` and `mmap`, on which the code exits, and of `sem_open`, on which it does not: it
  goes on with `SEM_FAILED` (`core.c:681-682`, `709`, `714`). `sem_unlink` and the
  `sem_open` that follows are one step, and so are the decrement of the last but one worker and its exit. A client leaves the queue
  only by being accepted. Threads; standard input showing as readable when `comfd` is 0.
- **Several ports on blocking sockets**: `transfer` of `dsu_pre_select` (`select.c:170-173`) is one variable of the process, which the first
  port in transfer sets for those after it, so that they lock without being in transfer. `Handover` has one port, and `Ports` no locks;
  neither covers it.
- **Signals elsewhere**: of the blocking calls only the wait for events and `sem_wait` are interrupted. `connect` and `recvmsg` of `dsu_inherit_fd`
  are not, whose results are ignored; a first `recvmsg` that fails would put the TCP socket in the place of the listener
  (`core.c:88-90`). Once a failing `sem_wait` has left a semaphore at 2, sections that are one step here may overlap in the code; the model
  has that overlap only between load and store of `TRANSFER`.
- In `Ports`: the `TRANSFER` timeout of `select()`, so `Ends` is not checked for `select()`
  without a timeout of the application; a newer version that takes requests from the listener it
  shares; write and exception sets; `EPOLL_CTL_MOD` and `_DEL`; `maxevents`; several epoll instances; more
  than `FD_SETSIZE` poll entries.
- Stateless wrappers, launcher, string helpers, tests and benchmark: nothing in them to check.

## 7. Plan

Done, in this order: `Update` and `Handover` with the refinement; `IInv` and its proof; `poll()` in `Handover`;
`Ports` with descriptor numbers and several ports; the proofs of `OneSocket`, `WorkersAccurate` and `ServiceKept`; those for versions of
several processes and of the refinement; those of `Ports`; those of a single update (`TransferProofs`) and of `OneSocket` with lost replies. Left:

1. Proofs: `ServiceKept` for a crash that is not between two replies; `SessionsSurvive` for the survivors of a crash; a bound on poll's error
   of count with several ports; the count returned by poll against what the application finds in `revents`.
2. `SocketInv`, and `ServiceKept` of one update, with a failing `sem_wait`, for every instance (`interrupted` has one of each); `NoneStranded` under late forks.
3. `dup()` in `Ports`, with reference counts, if the code comes to support it.
