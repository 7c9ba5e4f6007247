# Verification of clavister-oneconnect

TLA+ models of the VPN client in this repository, TLC configurations that check
them on small instances, and proofs checked by TLAPS. Paths are relative to the
repository's root; `core/`, `platform/` and `ui/` are below its `src/`.

The client is a Qt GUI or a console program around libopenconnect. What makes it
hard is not the protocol, which the library does, but what surrounds it: two
threads that share a session, a root process at the other end of a socket, a pipe
of commands that is only read where the library waits, a wall clock, a keychain and
a file that outlive the process, and a user who may cancel, quit or edit at any
moment.

## The system

| part | state it keeps | operations |
| --- | --- | --- |
| DTLS watchdog, `core/dtls_watchdog.hpp` | seen up, acted on this loss, disabled, two times | `Observe` |
| VPN session, `core/vpn_session.hpp` | library handle, command pipe, `reconnectPending`, interface, applied MTU, snapshot under a mutex | `Connect`, `RunMainLoop`, `Cancel`, `RequestRefresh`, destructor; callbacks for forms and statistics |
| stored password, `core/stored_password.hpp` and the form code of the session | tracker, pending password, "storable field seen" | `OnForm`, filling a field, outcome of the login |
| VPN controller, `ui/qt/vpn_controller.hpp` | atomic state, session pointer, worker thread, refresh timer | `Connect`, `Disconnect`, `Run`, destructor |
| privileged client and helper, `platform/privileged_client.hpp`, `main_helper.cpp`, `platform/tun_protocol.hpp` | sockets, child pid; the helper keeps nothing between requests | `Start`, `SETUP`, `MTU`, `SCRIPT`, `BYE` |
| saved connections, `core/profile_store.hpp`, `ui/qt/main_window.hpp` | list in memory, YAML file, selection | load, save, add, edit, remove |
| single instance lock, `platform/single_instance.hpp` | a listening abstract socket | `Acquire`, `ServePending` |
| console client, `main_cli.cpp`, and GUI entry point, `main_gui.cpp` | place in `main()`, `activeSession` | signals, event loop, return |
| secret store, profile dialog, prompters, tray, tun device | keychain entry; otherwise presentation or system calls | look up, store, clear; ask |
| pure functions: vpnc environment, route reconciler, IPv4, redactor | none | none |

How they interact:

- The GUI thread starts a worker, which constructs a session, connects, runs the
  mainloop and destroys the session. The worker talks to the GUI thread by queued
  functors, and by a *blocking* call when a form asks for something. The GUI
  thread talks to the worker only through the atomic state and by writing bytes to
  the session's command pipe.
- libopenconnect reads that pipe wherever it waits for the network. `STATS` makes
  it call the session back, and in this callback the session feeds the watchdog,
  corrects the MTU and publishes a snapshot. The watchdog may write `PAUSE` to the
  same pipe from inside the callback.
- A session in an unprivileged process asks a root helper, started through polkit,
  for the tun device, for MTU changes and for vpnc-script; the worker blocks in
  each request.
- `Connect` and the form callback read and write the keychain entry.
- All instances of both programs share one abstract socket name, one YAML file and
  one keychain.

What is hard to get right, and to test: two threads and a pointer; check-then-act on
the state; events of one session handled in the next; commands read late, in another
order, or never; a helper or client that dies between two lines; a clock that is stepped;
form sequences no test has; a kill in the middle of a save. The manifest,
`PROJECT.json`, lists each hazard at its line with the properties that cover it, and
says why where none does.

## The modules

| module | models | extends or instantiates |
| --- | --- | --- |
| `DtlsWatchdog` | `Observe`, one action per way out of the function; the clock is a parameter | |
| `WatchdogTimeline` | the watchdog under any timeline of observations, with real time and a wall clock | extends `DtlsWatchdog` |
| `WatchdogTimelineProofs` | theorems | extends `WatchdogTimeline` |
| `VpnSession` | one session in its worker, the controlling thread's commands, libopenconnect, the helper's life, the kernel's configuration | extends `DtlsWatchdog`, instantiates `SessionLifecycle` |
| `VpnSessionProofs` | theorems, the refinement among them | extends `VpnSession` |
| `SessionLives`, `SessionLifecycle` | a session as its front ends see it: the steps of a life, and the abstract specification | |
| `VpnController` | the GUI and worker threads, the event queue, timers, dialog, window and tray | |
| `VpnControllerProofs` | theorems | extends `VpnController` |
| `AuthExchange` | forms, keychain, tracker, over many connects | |
| `AuthExchangeProofs` | theorems | extends `AuthExchange` |
| `HelperProtocol` | both ends of the helper's socket, line by line | instantiates `PrivilegedCalls` |
| `PrivilegedCalls` | the abstract calls | |
| `HelperProtocolProofs` | theorems, the refinement among them | extends `HelperProtocol` |
| `ProfileStore` | file, temporary file, window | |
| `ProfileStoreProofs` | theorems | extends `ProfileStore` |
| `SingleInstance` | the lock and the question to its holder | |
| `Clients` | `main()` of both programs: lock, session, signals, event loop, quitting | extends `SingleInstance`, `SessionLives` |
| `ClientsProofs` | theorems, of the lock and of the programs | extends `Clients` |
| `Ip4` | masks and prefix lengths over sets of bits | |
| `VpncEnvironment` | `Build`, and what the helper reads and lets through | extends `Ip4` |
| `RouteReconciler` | the kernel's table read back, and the report | extends `Ip4` |
| `TunnelRoutes` | the pushed settings from `SetupTun` to the destructor, with vpnc-script and the kernel | extends the three before |
| `MCTunnelRoutes` | the settings to check it with | extends `TunnelRoutes` |
| `TunnelRoutesProofs` | theorems | extends `TunnelRoutes` |

### Correspondence to the code

**DtlsWatchdog.** The variables are the class's members; `verdict` is what the latest
`Observe` returned. `ObserveReconnect` and `ObserveGiveUp` are the two ends of the
function, the other actions its early returns, in the code's order.

**WatchdogTimeline.** `realTime` passes, `wallClock` follows it but may be stepped back or
forward. The rest is history: how far the clock was set forward, when the present run of
empty observations began, when reconnects were returned. The code sees only the wall
clock; the properties speak of `Elapsed`, real time plus the forward steps. A watchdog
that reads `time(nullptr)` cannot do better: a forward step does make it reconnect, or give
DTLS up, earlier in real time, by exactly as much as the step, which a steady clock would
avoid. Between two moments with no forward step, `Elapsed` is real time.

**VpnSession.** `stage` is where the worker is in `Connect`, `RunMainLoop` and
`Destroy`. A command is written by appending to `pipe` and read by
`ReadCancel`, `ReadPause` or `ReadStats`, only in the stages in which openconnect
waits for the network (`ReadsCommands`): not in a prompt, in `accept`, or in a
script. `ReadStats` is the whole statistics handler: watchdog, snapshot, MTU.
`FrontEnds` says which of the two programs the session may run in; the GUI is the one
that uses a helper and polls (`UseHelper`), the console client does neither. A helper
that died is found out only by a request that fails (`HelperAnswers`); such a
request may also kill the process by SIGPIPE, which this code neither handles nor
ignores (libraries in the same process may ignore it, so both outcomes are modelled).
A `SetMtu` may also be answered with ERR by a helper that lives; then nothing is noted as
applied, and each later refresh tries again. `mtuFailed` is history: the latest refresh asked
for the MTU in vain.
`network` is what vpnc-script left configured: the session's own settings, nothing, or
what a disconnect script that failed left (`stuck`). A script that fails may have done
its work in part, which also stands for a Ctrl-C in the terminal that reaches it.

**SessionLives, SessionLifecycle.** What a front end may rely on, in five fields: a phase,
whose routes and DNS the system has, whether root can still be reached, whether a
`Cancel()` would be heard, and whether one was. Each operator gives the lives one step
may make of a life, so that the same text serves as the next-state relation of the
abstract specification, which `VpnSession` implements under the mapping `Life`, and as
the sessions of `Clients`. It says that a `Cancel()` before the command pipe exists is lost,
that a session which configured something ends only after an attempt to undo it or
without a helper, and that one which ends does not come up again.

**Clients.** Any number of windows and console clients, each with its place in `main()`,
its part of the lock (the actions of `SingleInstance`, conjoined) and a session taken from
`SessionLives`. The places of the console client follow its `main`: session made,
handlers installed, `Connect`, `RunMainLoop`, return. Objects are destroyed in the reverse
of the order in which they were made, so the session's life must be over
before `ReleaseLast`. A signal before the handlers are there, or on a destroyed session, may
end the process, which is `Gone`. `remains` is history: what the sessions that are over left
in the system's routes and DNS, and whether something excuses it. A client that is killed, one
whose helper is lost and one whose vpnc-script fails leave their tunnel's configuration to the
next client (`unavoidable`); `forgotten` would be a session that ends otherwise with its
routes in place, or a lock that goes before them. The window's worker may be at a prompt or in
`accept(2)` (`AtThePrompt`), which only the user ends, and nobody after the event loop.

**VpnController.** Each store to `state`, each test and each use of `session`, and each
posted functor is a step, because any step of the other thread may come in between.
`queue` is Qt's event queue of the GUI thread. `offered` is the state the tray's
menu was built from. A use of a session that is gone writes nowhere or crashes: the
code's behaviour there is undefined, and these are the outcomes a build shows; the
model stops at `crashed`. `overtaken` is history: the worker stored Disconnected
between `Disconnect`'s check and its store.

**AuthExchange.** A form is a sequence of kinds of field, filled one at a time. The
gateway is the environment: it asks for a login, then perhaps for a code, in a field
that may look like a password, and may ask again, in any form of a login. It checks the
password before it asks for a code. Passwords may be changed between
connects, so that a stored one becomes stale, and the keychain may lock. Histories:
the answer that was accepted, the stored password's submissions and its rejection, and
whether a form that asks for no password came after the rejection (`misread`): the tracker
takes it for acceptance.

**HelperProtocol.** Two sequences of lines, one per direction, and a position in the code
for each process. An environment block is a sequence of lines that fit `ReadLine`'s
limit and lines that do not. `PrivilegedCalls` is what the client is to see of it: a call
is asked, performed or refused, and returns that, or fails once the helper is lost.
The refinement mapping finds the effect of the call wherever it is (in the
commands, in the helper, in the reply) and takes a session whose block has an overlong
line for one that has no helper.

**ProfileStore.** Of a profile only the name, by which everything finds it. Save is three
steps: truncate the temporary file, write it, rename it; each may fail, and the GUI may be
killed between any two. A write that fails leaves a part of the list, and is not noticed,
as in the code. The selection is refreshed at the end of each operation, after the save,
failed or not. `reported` is history: this window told its user that the file is malformed.

**SingleInstance.** `bind`, `listen`, `connect` and the answer are separate steps; the
kernel's part (one owner of a name; connections end with their process) is in the
guards and in `Close`, which the lock's destructor and the end of a process share.

**Ip4, VpncEnvironment, RouteReconciler.** An address is the set of its 1 bits, so a mask's
prefix length is a cardinality and the network address an intersection. A pushed route is a
network and a suffix in one of the forms gateways use; text is only told apart where the
code does (a slash, a dot, a word that `std::stoi` does not take). `MaskFromPrefix` with a
length above the width shifts by a negative amount, which is undefined: `wraps` chooses
between the two outcomes processors give. The environment is a function from names to
values; what the helper passes on (`Passed`) is what it reads of the block and allows. The
client writes the block in the order of the names. Of its lines only that of split DNS, a list of
names of any length, can be long; if it reaches `LineLimit`, `ReadLine` fails at it, which ends
the block there
(`ReadBlock`): that variable and all behind it are lost. `IsSaneValue` is left out: no line
that `ReadLine` returns holds a newline or reaches 4096 bytes, so it can refuse nothing that
this client sends. The loop of
`AddSplitList` is what it computes: an entry's index is the number of entries with a suffix
before it (`IndexOf`).

**TunnelRoutes.** `Configure` is `SetupTun` from the moment there is a device: environment,
helper, script. The script and the kernel are external and modelled by what the environment's
documentation and its use imply: it adds the routes it is given, by length with ip(8) or by
mask with route(8); the kernel takes those that are routes, and may refuse any of them.
`MakeReport` reads `/proc/net/route` back, octets swapped, and reconciles. `PushAgain` is
libopenconnect's reconnect, after which it holds other settings than those that were
installed; the destructor builds its environment from these. What the helper does not read of
a block it takes for commands, which are unknown; if the rest of the long line is again too
long, the helper ends (`helperEnded`), and the destructor has nobody to run the script.

Definitions named "a slip" are mistakes a maintainer might make in the definition that
follows; no specification uses them. Substituted for that definition, each breaks one
property, which shows that the property depends on the code.

## The runs

| run | question | result |
| --- | --- | --- |
| `WatchdogTimeline` | reconnects spaced, only for sustained losses, once per loss; DTLS given up only after a reconnect | holds, of real time less the clock's forward steps |
| `VpnSession` | both programs' sessions: losses and MTU changes answered in time, a refused MTU tried again, a pause never ends the session, a cancellation that was written does, nothing left configured; implements `SessionLifecycle` | holds, if polkit grants |
| `VpnSessionPolkit` | `Start` returns after a dismissed prompt | violated |
| `VpnController` | no tunnel shown when disconnected, joins, timer, settling in Disconnected, disconnections that finish | holds |
| `VpnControllerQuit` | no mutual wait on quitting | violated |
| `AuthExchange` | the stored password's life, with a gateway that checks it before it asks for a code and may begin the login anew in any form, and a keychain that may lock | holds, unless a form that asks for no password follows a rejected one |
| `AuthExchangeSaved` | what is saved is what was accepted | violated |
| `HelperProtocol` | blocks whole, implements the abstract calls; calls return; the helper ends with its client | holds |
| `ProfileStore` | file readable, holds what the window shows, selection exists | holds |
| `ProfileStoreMalformed` | malformed files kept | violated |
| `Clients` | one tunnel at a time, under the lock until its routes and DNS are taken back; signals find the session or nothing, and end the console client; askers answered | holds, with the exceptions below |
| `TunnelRoutes` | what the client builds reaches vpnc-script; "missing" means failed; what was installed is taken back | holds, for split DNS that fits `ReadLine` |

A violated run checks what a comment, a document or the program's own text says
against what the code does; `findings` in `PROJECT.json` quotes both.

### Where the code falls short

The four violated runs:

- A polkit prompt that is dismissed leaves the worker in `accept(2)` for ever
  (`VpnSessionPolkit`).
- Quitting while the worker is about to prompt: the destructor joins a worker that
  waits for the GUI thread (`VpnControllerQuit`).
- A gateway that asks again in the same exchange gets the right password from a field
  that is not storable, and the rejected one is saved (`AuthExchangeSaved`).
- A malformed file is reported, left alone, and replaced by the first save
  (`ProfileStoreMalformed`).

Weaker behaviour that has no run of its own. The models contain it, and
the properties that hold name it as their exception:

- The console client never refreshes, so its watchdog is never fed: neither a lost DTLS
  nor a changed MTU is answered (`LossAnsweredInTime` and `MtuCorrectedInTime` are of the
  GUI's sessions).
- The worker may store Disconnected between `Disconnect`'s check and its store of
  Disconnecting, which then stays with no worker to end it (`overtaken` in
  `SettlesDisconnected` and `DisconnectFinishes`).
- The GUI thread tests and uses the session pointer while the worker resets it, a data
  race (`crashed`).
- A `SetMtu` that the helper refuses leaves the device at its old MTU until a later refresh
  succeeds; each tries it again (`mtuFailed` in `MtuCorrectedInTime`).
- A clock that is stepped forward makes the watchdog reconnect, or give DTLS up, early in
  real time, by as much as the step (`Elapsed`).
- A gateway that rejects the stored password and begins the login anew with a form that asks
  for no password, the user name in a form of its own, say: the tracker takes that form for
  acceptance (`stored_password.hpp:21-29`), and the rejected password stays after the login
  has failed, although `README.md:43` says that it is forgotten (`misread` in
  `RejectedPasswordForgotten`).
- A stored password that was rejected stays if the gateway asks again and the exchange
  then succeeds with a field that is not storable, or if the keychain is locked when it
  is to be cleared; the next connect submits it again (`RejectedPasswordForgotten`).
- If the client dies within an environment block, the helper runs vpnc-script on the part
  that arrived (`ScriptGetsWholeBlock`).
- A line longer than `ReadLine`'s limit is read as two, and shifts every later reply
  (`EveryLineFits`).
- A full disk is not noticed while saving, and the truncated file replaces the good one
  (`FileNeverPartial`).
- A console client that holds the lock never answers those who ask, and the second client
  waits for it in `read(2)` (`AskIsAnswered`).
- A window that quits while its session has no command pipe yet cancels in vain: the
  destructor waits for the worker until the tunnel has come and gone by itself, the
  lock is held, and nobody is answered (`CancelLost` in `AskIsAnswered`). So does one that quits
  with its worker at a prompt or in `accept(2)`, as the runs `VpnControllerQuit` and
  `VpnSessionPolkit` show from inside: it never ends (`AtThePrompt`).
- A client that is killed, loses its helper or has vpnc-script fail leaves its routes and DNS to
  the next one, which does not look for them (`remains` in `TunnelUnderLock`).
- After a `Connect` that failed, `main` of the console client returns with `activeSession`
  still set: a signal then calls `Cancel` on a destroyed object (`HandlerFindsSession`).
- A second Ctrl-C in the terminal reaches a vpnc-script that is taking the routes back;
  the session does not run it again (`stuck` in `NoConfigLeftBehind`).
- A line of the environment of 4096 bytes or more, in practice a long `CISCO_SPLIT_DNS`, makes
  `ReadLine` fail, and the block ends there (`main_helper.cpp:170`): vpnc-script gets
  `CISCO_DEF_DOMAIN` and nothing else of the environment, no device and no routes, so that the window's tunnel
  is not configured where the console client's is. Its routes are then reported missing
  though the script never failed at them, and if such a line only comes with a reconnect, the
  disconnect script takes nothing outside the tunnel back. The rest of the block is read as
  unknown commands, each of which is answered (`CutShort` in `NothingRefused`,
  `MissingMeansFailed` and `TakenBack`).
- A pushed route without a suffix is skipped by `AddSplitList` and taken for a host route
  by `Normalise`: it is reported missing although vpnc-script was never asked
  (`route_reconciler.hpp:11` says missing means it failed; `MissingMeansFailed` is of
  IPv4 routes with a suffix). If all pushed routes are of this form, `CISCO_SPLIT_INC` is not
  set, vpnc-script makes a full tunnel, and `IsSplitTunnel()` says split.
- Routes with host bits, with a word as suffix, or of IPv6 are reported missing too.
- A pushed `0.0.0.0/0` matches the kernel's default route before `IsDefault` is looked at,
  so `fullTunnel` stays false and the report says that the default route is untouched
  (`tunnel_report.hpp:74`).
- A prefix above 32 is an undefined shift in `MaskFromPrefix` (`wraps`); one that is no
  number throws from a thread, or a destructor, without a handler, and ends the process:
  before anything is configured if it came with the first settings, with the routes in
  place if it came with a reconnect (`TakenBack`).
- The destructor undoes the settings pushed last: excluded routes and resolvers
  that a reconnect no longer pushed stay (`TakenBack`).
- Outside the models: `Save` drops the hand-set `reconnect_timeout` and
  `reconnect_interval`. Within them: an edit may give two connections one name, by which
  they are then found, selected and removed together.

### Bounds, and why they are enough

- Watchdog and session: `0 < grace < window` as in the code's 15 and 1800 seconds. In
  `WatchdogTimeline` a horizon of 10 against a window of 5 lets two reconnects, the losses
  inside and outside their windows, set-backs and forward steps up to 3, more than the
  grace, happen. In `VpnSession` a horizon of 5
  polls, with a grace of 1 and a window of 3, holds a loss, its reconnect and a second loss
  inside the window. The theorems hold for all spans, steps and horizons.
- Session: `MaxPipe` commands outstanding from the controlling thread, so that a
  CANCEL and a STATS can surround the watchdog's PAUSE in both orders; two MTUs, so
  that a correction can become stale.
- Controller: `MaxBacklog` events before which the user acts again and `MaxQueue`
  before which statistics are reported, so that two sessions' events are in
  the queue at once; the number of sessions is not bounded. The theorems hold for any
  bounds.
- Authentication: two passwords (a stale and a current one), four forms per exchange
  (login, repeated login in any form, code, repeated code), any number of exchanges.
- Helper: blocks of up to two lines and up to two MTU changes put a death, an
  overlong line and the blank line in every position.
- Saved connections: two names, three connections (so that a name can occur twice
  beside another), two hand edits, any number of starts, failures and kills.
- Programs: two windows and a console client, any number of starts, and a backlog of one,
  so that one asker waits for room while another waits for its answer; the console
  client's socket may fail, so that two tunnels without a lock occur. The theorems hold for
  any number of programs and any backlog.
- Routes: lists of up to two routes of twelve kinds (each form, a mask with a gap, host
  bits, IPv6, everything), so that each form stands before and after every other;
  addresses of two octets of two bits, so that the swapped order of octets
  matters; ip(8) and route(8), with and without the helper, with and without the pushed
  resolvers. What is pushed anew differs in each part from what was installed. Split DNS
  makes no line, one that fits, one that does not, and one whose rest does not.

### Time

In `VpnSession` one tick is one poll of the GUI (2 s in the code), and openconnect
reads what is in the pipe before the next tick. That is the assumption behind
`LossAnsweredInTime` and `MtuCorrectedInTime`: a mainloop that is not stalled for a
whole poll.

### Fairness

Stated only where a liveness property is checked, and only for what the code or the
operating system gives:

- both threads and both processes run (weak fairness of their steps);
- openconnect polls the command pipe in each network wait, so a command is read if
  it waits for the network again and again (strong fairness of `ReadCommand` and
  `ReadCancel`);
- once it has read a cancellation, openconnect's call returns;
- a prompt is answered or dismissed, and vpnc-script returns: without that nothing
  could be promised;
- a window's event loop runs, its timer with it, once its start-up warnings are
  dismissed; the kernel gives everyone who waits for room in the backlog a turn;
- in `Clients`, a session that is cancelled, or is ending, gets to its end, which is
  what `VpnSession` shows of it (`CancelEndsSession`), but for a window's whose worker is at
  a prompt or in `accept(2)`; the console client's prompts are answered, and as root it has
  no `accept(2)`; the thread in `main()` goes on.

No fairness is assumed of the peer, of losses, of polls or of the user's commands.
`VpnSession` assumes that polkit grants the helper, since otherwise
`VpnSessionPolkit` shows that `Start` never returns.

Deadlock is checked except where the system may stop for good: a session or a program
that has ended, and in `WatchdogTimeline` the horizon.

## What is proved

`WatchdogTimelineProofs`, from the two positive spans alone: `TypeCorrect`, `Spacing`,
`SustainedLoss`, `GivingUp` and `OncePerLoss`. None of these properties is inductive:
they speak of real time and forward steps, and the watchdog of the wall clock. The
inductive invariant `IInv` (theorem `Invariance`) ties the two: the wall clock never runs
ahead of `Elapsed` by more than it did when a loss or a reconnect was noted, so
`wallClock - lostSince <= Elapsed - observedDownAt`, and likewise for reconnects. A clock
that is set back makes the left side smaller, hence the watchdog more patient; a forward
step adds the same to both sides. The proof has one lemma per action and per half of the invariant.

`VpnControllerProofs`, for any bounds on queue, backlog and timers: `TypeCorrect`,
`JoinsFinishedWorker` (`Connect` joins only a worker with nothing left to do) and
`NoStaleTunnel` (no update or connected event is handled after its session's
Disconnected). Neither property is inductive: a GUI thread at its check does not know the
worker, and a window that shows Disconnected does not know the queue. `IInv`
(theorem `Invariance`) adds:

- `StateTellsWorker`: each state says where the worker may be. While `state` is
  Disconnected, it is not between its start and its last store, and only the GUI
  thread starts one.
- `PromptIsAwaited`: a prompt in the queue or on the screen has its worker waiting.
- `PanelFollowsState`: the events that fill the panel are fenced by those that change
  the shown state. Between an event (or the shown state) that empties the
  panel and a later one that fills it there is always one that shows another state, and
  a worker that may still fill it has been announced by such an event.

The queue is unbounded there, so the last part is proved once for appending an event
and once for taking one off, and each action cites the one it needs. `TimerStops` and
`Settles` rest on a second invariant (`EndsInvariance`) of the same form: whatever starts the
timer is followed in the queue by the event that stops it, unless the worker is still to
post that (`TimerIsStopped`), and the last state event of a worker that finished is
Disconnected, handled or queued (`SessionIsOver`). `DisconnectNotForgotten` is the safety in
`DisconnectFinishes`: while the client is Disconnecting, and the excepted race has not
happened, its worker is on its way out, or the GUI thread is about to write a
cancellation, or it is in the pipe, or openconnect has read it.

`ProfileStoreProofs`, for any names, lengths and hand edits: `TypeCorrect`, `FileWhole`,
`FileShown` and `SelectionIsThere`.
What the file becomes is what the temporary file is when it is renamed, so the
invariant says of that, while a rename is due, that it was written as a whole and holds the
window's list, or that the disk was full. The selection follows from what `Refresh` makes
of any list of names; that the list stays one after a removal is the lemma
`WithoutIsList`, for which `RankIsOnto` counts the names that are kept.

`ClientsProofs` begins with the lock alone, for any number of clients and any backlog:
`TypeCorrect` and `OneTunnel`. Exclusion says nothing of a client that is about to bind; the invariant
ties it to the kernel's name, which every client past the lock owns.

Then the programs, again any number of them: `ClientsTypeCorrect`, `ClientsOneTunnel`,
`SessionUnderLock` and `SignalsFindSessions`. A session step knows nothing of the lock and a
lock step nothing of the session; `ClientsInv` (theorem `ClientsInvariance`) joins them:
a client whose session lives is where `main()` has passed the lock
(`SessionsAdmitted`), and one in its mainloop has a session that is alive
(`LivesInMainloop`). That nothing was forgotten (`NothingForgotten`) needs what the lives of
`SessionLives` do at their last step: one that can reach root has run the script
(`LastStep`). The actions of the lock come with their lemmas from the
module's first part. `AskersInvariance` adds what `AskIsAnswered` and `SignalEndsConsole` rest on:
who waits for an answer is in the backlog of one that listens and has the lock
(`NobodyAsksInVain`), and no step but the session's end takes back the cancellation of a
signal that was handled in time (`SignalNotLost`).

`VpnSessionProofs`, for all spans, pipes, MTUs, horizons and front ends: `TypeCorrect`,
`PausesAreAnnounced`, `ConfigurationTakenBack`, `LossAnswered`, `MtuCorrected` and
`Implementation`, which is `Spec => ImplementsLifecycle`. `SessionInv` (theorem `Invariance`) has three parts:
types; `NetworkInv`, which says in which stages vpnc-script has configured something, and that
a session past its destructor's run has nothing or no helper; and `PauseInv`, by which every
PAUSE in the pipe or just read has `reconnectPending` set, and no mainloop returns with 0
otherwise. The refinement then takes each action to a step of `SessionLifecycle` or a
stutter, one lemma per kind of step (`LifeHears`, `LifeCancelled`, ...); what the lives may do
next depends on `NetworkInv` only. The two bounds on time need what the watchdog knew before
the loss (`LossInv` of `TimingInvariance`): a DTLS that was up for two polls has been
observed up, so that no earlier loss is remembered; the loss is noted within a poll;
when the grace is over the watchdog acts, and its PAUSE in the pipe keeps the next
poll from coming before the mainloop is re-entered. `MtuInv` does the same for the
device's MTU, which is what was applied last; one that is late has been asked for in vain by the
latest refresh, or there was none since. Under `CancelEndsSession` are two facts about the command pipe, which holds any number
of commands: a cancellation that was written stays there until it is read, and then nothing is
entered any more (`CancelNotLost`); and no command gets in front of it, the watchdog's PAUSE
included, so each read brings it one place nearer (`CancelNotOvertaken`).

Together with `Clients`, which takes its sessions from the same `SessionLives`, this
makes `SessionUnderLock` a statement about the real session: what `Clients` allows a session to
do is all that `VpnSession` can do.

`AuthExchangeProofs`, for any passwords, forms and exchanges: all five properties of the
run. What a form may do next depends on what earlier forms of the exchange did, which the
properties do not say. `AuthInv` (theorem `Invariance`) adds that the storable field
has been seen once a login was answered, a code is wanted or the stored password was
submitted (`SeenInv`); that a code field that looks like a password is only ever on a form when
a code is wanted (`FieldsInv`); and that the tracker knows what the gateway decided about
the stored password (`VerdictInv`), unless a form that asks for no password has misled it after
a rejection. The gateway's part is an assumption on the environment: it asks for a code only
after a login it accepted.

`HelperProtocolProofs`, for blocks of any length: `WholeBlock` and `Implementation`, which
is `Spec => ImplementsCalls`. Reply and request are matched by position only, so the
invariant has to say what is in the streams at every pair of positions. `ProtocolInv` (theorem
`Invariance`) does so if every line fits: the lines in the stream are a command, unless it was
read, and the lines of the block in their places (`StreamInv`, counted from `Before`);
the call under way is in one place only (`CallInv`); and a script about to run has its
block (`BlockInv`). If a line does not fit, nothing of this holds, and nothing is claimed. What
holds all the same is weaker and is proved for itself: in `LinesInv` (`LinesInvariance`) every block
has an end behind it, whatever is taken for it, so the helper never waits for the rest of
a block while the client waits for its reply (`NobodyWaitsInVain`); and while the client waits, or
is gone, each step makes `Work` smaller, five times the lines not read plus what the helper is
at (`CallsEnd`), so that `CallsReturn` and `HelperEndsWithClient` can only fail by the processes
not going on. For
the refinement, `Fate` tells the call's effect from the two positions, and each action is
one of six shapes of step (`Asks`, `Performs`, `Returns`, `Loses`, `FailsLost`, `Stutters`), each
of which is a step of `PrivilegedCalls` or a stutter.

`TunnelRoutesProofs`, for addresses of any number of octets of any number of bits, lists of any
length and any settings a gateway pushes, first or anew: `AllowlistInStep` (`NothingRefused`),
`MissingIsFailed` (`MissingMeansFailed`) and `RoutesTakenBack` (`TakenBack`). Most of the
argument is about the operators, in the order a route takes through them. A mask and its
length determine each other (`MaskBits`, `LengthTellsMask`). Two entries of a list never get
the same index, and all are below the count (`IndicesDiffer`), so each is in the environment
(`EntriesAreBuilt`), where neither a setting nor the other list hides it. A block is
cut short if and only if split DNS makes a line that reaches `LineLimit` (`WhatIsCutShort`),
and the script then configures nothing (`CutShortConfiguresNothing`). Of any other block the
helper lets every variable through (`RefusedIsCutShort`), the indexed ones among them
(`EntriesAreReceived`). The script then makes of each entry the route it means, from its
length or from its mask (`EntryMeansRoute`); and octets swapped twice are where they were, so
that a route read back from the kernel's table is reported as it was pushed (`ReadBack`).
`RoutesInv` (theorem `Invariance`) carries this through the session: each route that was
asked for is in the kernel's table or failed, the report is of that table, what was
configured could be parsed, and nothing of a block that was cut short was
(`NothingOfCutShort`). The assumptions are that an address has bits, that no
address is `NoAddress`, and that the line limit is positive.

Model-checked only: the liveness properties (`CancelEndsSession`, `DisconnectFinishes`,
`HelperEndsWithClient`, `CallsReturn`, `SignalEndsConsole`, `AskIsAnswered`). The step from
fairness to progress is out of the prover's reach; what each of them rests on, that a wait has
somebody to end it and a request is neither lost nor overtaken, is proved as above. Every
other property of a run that holds is a theorem.

## What is not modelled

- The certificate callback, logging and its redactor, the printed report, the console
  prompter, argument parsing and the lookups of paths, display and script: text and system
  calls without state that another part reads. The redactor has properties, but they are
  about characters, and a model of it would repeat its code.
- The checks the helper and its client make of each other's credentials, and the
  privileges the console client drops for the keychain: sequences of system calls in a
  process of their own.
- A connection's settings other than its name, and the keychain's entries by name: a
  connection that is renamed or removed leaves its password behind.
- libopenconnect itself, beyond how this code drives it: its waits, its reactions to
  the three commands, its callbacks and the ways its calls end.

## Plan

1. (done) Watchdog, controller, saved connections and lock, with proofs; session,
   authentication, helper protocol with its abstract calls.
2. (done) The abstract session life cycle, implemented by `VpnSession` (proved) and used by
   `Clients`, which composes both programs with the lock; the routes from the gateway's
   settings to their removal.
3. The keychain composed with the saved connections (passwords of renamed and removed
   connections). The worker of `VpnController` is not worth stating as an implementation of the
   life cycle: its session is reduced to what two threads can tell apart, and has no
   network.
4. (done) Proofs of the authentication's properties and of the refinement of
   `PrivilegedCalls`, of the controller's and the session's remaining invariants, and of the saved
   connections' and the routes': every safety property of a run that holds is proved, and the
   safety that the liveness properties rest on.
