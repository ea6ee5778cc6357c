# iTerm: a verification project in TLA+

iTerm (`src/`) is a tabbed local terminal for Windows. Its own code is `win/`: a WTL main frame
with a tab control, and `PuTTY.cpp`, which turns PuTTY's one-session window code into a list of
sessions, each with a ConPTY backend. It stands on a fork of PuTTY in `putty/`, of which the
executable links the terminal, the line discipline, the settings and the Windows event loop
(`handle-io.c`, `handle-wait.c`, `handle-socket.c`, `network.c`, `callback.c`, `timing.c`). The
SSH stack, Pageant, the file-transfer tools and the Unix port are in the tree, not in the program;
the models of the SSH stack and of file transfer are there for the fork that is kept in this tree.
`putty/windows/winterm.c`, from which `win/PuTTY.cpp` was made, is compiled out (`#if 0`).

This directory holds the modules, their TLC configurations and the proofs. `PROJECT.json` lists
every run, the source lines each definition models, the hazards and the theorems; paths below are
relative to `src/`.

Contents: 1 the inventory, 2 the modules, 3 the runs, 4 fairness, 5 the proofs, 6 what the checks
found, 7 what is not modelled, 8 the plan.

## 1. Inventory

One thread runs everything but blocking I/O. `CMainThreadManager::Run` (`win/iTerm.cpp`) calls
`PuTTY_MessageLoop` again and again: it waits for a handle, a window message or nothing at all (if
a toplevel callback is pending), activates at most one handle, dispatches at most one message,
runs at most one toplevel callback. Interleaving therefore has three sources: subthreads (one per
handle in `handle-io.c`), the order in which events of different sessions reach the loop, and
re-entry, where a function called from inside a callback frees or changes what its caller is
working on.

| component | state | operations | talks to | what is hard | what makes it correct |
|---|---|---|---|---|---|
| handle I/O, `windows/handle-io.c` | `struct handle` with `moribund`, `done`, `defunct`, `busy`; ready list; buffers; backlog; queued output | new, write, EOF, throttle, unthrottle, free, `handle_ready_callback` | subthreads by two events and a list under a lock; clients by `gotdata` / `sentdata` | ownership passed between threads; frees from inside callbacks; EOF during a write | one owner at a time, nothing touched after its free, no lost wakeup, data in order, EOF last |
| sessions and tabs, `win/PuTTY.cpp`, `win/MainFrm.h` | list of `TermList`, `term_count`, globals for the current session, `session_closed` | new, switch, remove, exit and close callbacks, unthrottle, message loop | tab control, ConPTY, terminals, callbacks | globals stand for whichever session is current *now*; callbacks without a session | list, tabs, globals agree; nothing dangles; the right session closes; none stays throttled |
| tab control, `win/XTabCtl.h` | items and `m_iCurSel` | insert, select, delete | main frame | picks its own successor after a deletion | same order and selection as the session list |
| ConPTY, `win/PuTTY.cpp` 98-560 | two handles, the process in the wait list, `exited` | data, EOF, error, exit, terminate | handle I/O, seat | exit and EOF are two events | exit status known before the session closes |
| toplevel callbacks, `callback.c` | linked list, `cbcurr`, `queued` flags | queue, idempotent queue, delete for context, run | everything | deletion during a run; queueing during a run | FIFO, none lost, none for a freed object |
| handle sockets, `windows/handle-socket.c` | freeze state, one buffered load, `defer_close` | freeze, thaw, write, EOF, close, deferred set-up | handle I/O, callbacks, plug | a read cannot be interrupted; the plug re-enters | order kept over freezes, no assertion, no free in use |
| timers, `timing.c` | sorted tree of timers, tree of contexts, one OS timer | schedule, expire, run | terminals, pinger | 32-bit clock, order relative to `now`, contexts freed early | every timer on time, in order, none after its context |
| keepalives, `pinger.c` | interval, `pending`, `next`, `when_set` | new, reconfig, timer, free | timers | timers are never cancelled | the next ping is scheduled; no stray ones |
| display updates, `terminal/terminal.c` 1186-1500 | `window_update_pending`, cooldown, blinks, bell | schedule, callback, timer, focus, tab change | timers, callbacks, seat | four waits in one timer function | each request and each wait is served; updates are rationed |
| wait list, `windows/handle-wait.c` | tree of handles | add, delete, activate | message loop | 64 handles; deletion between wait and activate | the handle activated is the one signalled |
| byte queues, `utils/bufchain.c` | granules, an idempotent callback | add, prefix, consume, fetch | most of the program | a prefix stays valid only until the next change | bytes out = bytes in, in order |
| line discipline, `ldisc.c` | line buffer, input queue | send, flush, echo | terminal, backend | input queued until the backend accepts it | nothing lost or reordered |
| SSH-2 connection layer, `ssh/connection2*.c` | channels, windows kept three times, `closes`, request queues, global requests | open, data, window adjust, EOF, close, request, confirm | BPP, channels, sharing | both ends close at once; numbers are used again; windows; replies in order | nothing reaches another channel, windows agree, each channel is closed once, data before EOF |
| SSH channels, `ssh/{mainchan,agentf,portfwd,x11fwd,sesschan}.c` | one state machine each | data, EOF, close, request | connection layer, sockets | throttling across two links; a socket that fails becomes a zombie | no data after EOF, each freed once |
| SSH transport, `ssh/{transport2,bpp2,common}.c`, and assembly, `ssh/ssh.c` | a coroutine, packet queues, `rekey_class`, keys of each direction | send, receive, rekey, reconfigure | network, layers above | rekeying with data in flight, from both ends, with settings changing | nothing of the higher layers is sent during key exchange, keys switch at the same packet, every exchange ends |
| SSH authentication, `ssh/userauth2-*.c`, ... | a coroutine each | questions and answers | transport, seat, agent | order of failures and partial successes | no request without its answer |
| SSH sharing, `ssh/sharing.c` | a connstate per downstream: channels with three numbers, half channels, forwardings, requests | connect, translate, answer, clean up | connection layer, downstreams | a downstream goes with anything outstanding | a message reaches the right one, nothing is left open at the server, the connection ends |
| file transfer, `ssh/sftp.c`, `psftp.c`, `pscp.c` | queue of pipelined requests, table of ids | get, put, reget, reput, receive, send | SFTP server | replies in any order, failures with others outstanding, interruption | a copy reported whole is whole, replies match, transfers end |
| SSH-1, Pageant, proxies | queues and state machines | | sockets, SSH | hand-over and partial failure | |
| network sockets, `windows/network.c` | `NetSocket` flags, `sockets` tree | connect, write, freeze, close, select results | Winsock | events after a close | |
| terminal emulation, `terminal/terminal.c`, `bidi.c` | screen, scrollback, parser | output, resize, mouse | front end, ldisc | data processing | |
| logging, settings, memory pools, containers | | | | a prompt while log data arrives; pool sizes | |
| not iTerm's own: other front ends, other backends, Unix port, cryptography, WTL, tests and docs | | | | | |

The full list of 34 components with its sources and status is in `PROJECT.json`.

## 2. The modules

### HandleIO (`putty/windows/handle-io.c`, all of it)

For each handle: `alloc` (the struct), the four flags with their C names, `ev` (`ev_from_main`),
`tpc` (the subthread: in its system call, about to report, waiting, dying, gone), `io` (the result
it reports), `linked` (whether the list node was ever written: it is uninitialised memory before).
For the main thread: `ready`, `readyEv`, `mpc` and `cur` (which callback it is in). For data: an
input counts what was read, what lies in the buffer, what the client got and has not dealt with; an
output counts bytes accepted, consumed, at the device, and the stretch given to `WriteFile`. The
contents of a unit is its position in the stream, so that order and loss show.

The two thread functions become `ReadData`, `ReadEnd`, `WriteData`, `WriteError` (the system call),
`ThreadAddsToReadyList` and `ThreadWakes`. `ThreadAddsToReadyList` needs `mpc = "idle"` because the
main thread holds `ready_critsec` for the whole of `handle_ready_callback`, callbacks included.
`handle_ready` is split at the call of the client: `ReadyInput` up to `gotdata`, `GotdataReturns`
after it; likewise for outputs; `ReadyMoribund` is the branch without a callback. Client actions
(`HandleInputNew`, `HandleWrite`, `HandleWriteEof`, `HandleUnthrottle`, `HandleFree`) may run
between events and inside any callback, on the same or another handle, within the assertions that
the API states. A failed `CreateThread` is included. `MaxHandles` bounds how many of the handles are
made, so that one run covers two inputs as well as an input with an output.

### Sessions (`win/PuTTY.cpp`, `win/MainFrm.h`, `win/XTabCtl.h`)

The list (`node`, `nxt`, `prv`, `head`, `tail`, `count`, `curr`), the globals (`gTerm`, `gBe`), the
copies in each `TermList` (`nodeBe`), the tab control (`items`, `sel`), each session's ConPTY
(`input`, `waiting`, `exited`), and of each terminal what holds its output back (`inbuf`,
`dragging`, `resize`). `phase` is the position in `PuTTY_MessageLoop`. Handle events, one message
and one callback alternate as they do there; any session's event may come in between. `backend` and
`ldisc` are set and cleared together everywhere, so they are one. `NewSession` contains
`start_backend`, `RemoveSession` the list surgery, `free_term_list` with everything it frees and the
tab deletion. Output is a count of pieces, any of which may ask for a resize; `TermOut` is what
`term_out` does with them. The settings that matter (`close_on_exit`, `no_remote_resize`) are chosen
in `Init` and kept.

### CallbackQueue, CallbackList, Callback (`putty/callback.c`)

`CallbackQueue` is the abstract FIFO. `CallbackList` is the linked list in a memory of cells that
are allocated, freed and used again, with the deletion loop step by step, also re-entered from a
running callback; it implements the queue (`Queue == INSTANCE CallbackQueue WITH ...`). The history
variables `queue` and `cells` hold the callbacks of the list and their cells, in order; a deletion
takes effect on them when its loop has ended, and until then `pos` says how many of them the loop
has dealt with and `kept` which of those it keeps. `ListSound` relates the pointers to them.
`Callback` EXTENDS the list and puts the objects on top: each has an idempotent callback for its
input, some (`PlainUser`) also queue a plain one; objects come and go, also from inside a callback,
and a freed object's deletion is the list's loop, step by step; the front end is one that has to be
notified (`idle`). What the objects rely on is therefore checked on the linked list itself.

### HandleSocket (`putty/windows/handle-socket.c`)

The freeze state machine `frozen`, `inputdata`, the deferral of a close, the queue of
`handle_socket_unfreeze` callbacks, and the plug as a client that may call anything from inside
`plug_receive` and `plug_closing` (`pc`). The input handle is reduced to reading, throttled or gone.
A deferred socket is modelled down to its memory: `hs->frozen` overlays the two bools
`output_eof_pending` and `start_frozen`, and a write to it changes both.
Its specification is `SocketSpec`, of `SocketInit` and `SocketNext`: the module's theorems stand beside
those of `Callback`.

### TimerService, Timing, Pinger, Redraw

`TimerService` is what `putty.h` promises of `timing.c`. `Timing` is the code: the tree ordered
relative to `now`, the context tree, `run_timers` step by step with time passing in it, and the
front end's `SetTimer` timer, early or late; it implements `TimerService`, through the history
variable `promised`. `Pinger` (`pinger.c`) and `Redraw` (the update scheduling of `terminal.c`) are
users of the service: they extend `TimerService` and not `Timing`, which keeps their state small.
They rest on two things that `Timing` shows: the service (`ImplementsService`) and a bound on
lateness (`Punctual`, part of `PromisesKept`), which they assume as `PunctualTick`. `MCTimerUsers`
puts both on one clock and one set of timers; its variable `user` says which of them is at work.

The clock has `W` values instead of 2^32, with every difference taken modulo `W` as the code takes
it modulo 2^32, so wrap-arounds happen all the time. `ASSUME`s keep delays, with the lateness that
comes on top, below half of `W`, as `unsigned long` differences need, and delays are not negative:
`schedule_timer` takes a negative one for a time far ahead (section 6).

### Connection2 (`putty/ssh/connection2.c`, `portfwd.c`, parts of `x11fwd.c` and `network.c`)

Two ends of an SSH connection that both run this code, over FIFO links (`net`). `channels` is each
end's tree of `struct ssh2_channel` with its C fields; a handler is a chain of operators on a record
of the channel, the packets it pushes and the assertions it fails, in the order of the C calls
(`ssh2_try_send`, `ssh2_set_window`, `ssh2_channel_try_eof`, `ssh2_channel_check_close`, ...).
`ssh2_connection_filter_queue` is one action per packet type. On top sits a forwarded connection's
local socket (`pfd_*`), with its own backlog, freezing and failure; a channel that loses its socket
becomes a zombie. An end whose `conn_throttle_count` is not zero has frozen the SSH socket: it handles
what it had read before (`inraw`; at the moment of the freeze, any of the packets on their way) and then
nothing until the count is zero again (`Reads`, `Freeze`). Windows are counted in units, so that `newwin / 2`, the growth of the window and
"winadj" requests all happen with small numbers. The history `stream` says what the sockets have
been given, per channel ever opened, so that a packet for an earlier user of a number shows.

### Transport2 (`putty/ssh/transport2.c`, `bpp2.c`, `common.c`)

The coroutine `ssh2_transport_process_queue` at both ends: `stage` is where it waits. `wake` stands
for the idempotent callbacks that call it; a packet is encoded by a later callback (`Output`), with
the keys of that moment, and decoded by one (`Input`), which stops at NEWKEYS (`pending_newkeys`).
`pq_out_higher` holds back what the layer above sends. A key exchange is KEXINIT, one packet of the
method from each end, NEWKEYS; keys are known by the two KEXINITs they come from, so that switching
at the wrong packet shows. Reasons to rekey are the other end's KEXINIT, the data limits of each
direction, the timer, the user's new settings (`rekey_class`, `deferred_rekey_reason`) and the
server's bugs. `confs` is a history: the settings from which each KEXINIT of an end was made.

### Sharing (`putty/ssh/sharing.c` with its users in `connection2.c`)

The upstream's tables as the code keeps them: of the connection layer the channels, `rportfwds` and
the queue of outstanding global requests; of each `struct ssh_sharing_connstate` the channels by
their three numbers and state, the half channels, the forwardings and the one outstanding request.
Every function of the upstream takes its state to the next one together with what it sends.
`TryCleanup` is `share_try_cleanup`, `Retry` the places that call it again. `listed` says of a channel
that it is in `channels_by_server`, through which a downstream's CLOSE finds it. The server and the
downstreams are external: they follow the protocol in every way that it leaves open, and record in
`faults` what they must never be sent. A token, known only to who opens a channel, travels along with
it, so that a mistaken number shows. What the upstream sends arrives before anything else happens
(`Arrived`): the way back takes as long as it likes, so the upstream still meets every order of
messages, including those that cross. The upstream's own channel may be opened and closed before, after
and between the downstreams' channels, and takes numbers of both sides; the server counts from 0.

Five faults of the code (section 6) are steps of the model and recorded in `lapses`. A `refused` channel
changes nothing but what `ConnectionEnds` claims. The other four put the upstream out of step with its
peers or have it use freed memory: the model stops there (`Sound`), and the properties say in so many
words that they claim nothing of what follows. All five are met in the run.

### Xfer (`putty/ssh/sftp.c`, `psftp.c`, `pscp.c`)

`struct fxp_xfer` with its queue of requests, the table of ids, and one loop per client: psftp's get
and put, pscp's receiving and sending side. The server may answer in any order, fail, or see the end
of a file that grows. `Interrupt` is the connection or the client going at any moment, `Resume` the
user's reget or reput, which goes on at the size of the copy; `basis` is the history of whether that
copy had a gap.

`MC*` modules give the model values and symmetry. `*_proofs` are described in section 5.

## 3. The runs

Ten runs pass, two show a disagreement. Deadlock is checked in the runs of callbacks and timers,
which never stop; the others have states in which nothing remains to be done (a stream has ended,
the handles are freed, the program has quit, the connection has ended).

| run | what it checks | bounds |
|---|---|---|
| `handleio` | `NoUseAfterFree`: a freed handle has no subthread, no place on the list and no callback that goes on with it; `ReadyListSound`: never on the list twice, nor while its subthread runs, and main will look; `BuffersSound`: one owner, bounded backlog; `StreamsInOrder`; `OutputDrains`, `FreeCompletes`, `ReadingResumes` | any two of two inputs and an output, three units read, two written, `MaxBacklog` 1 |
| `sessions_safety` | `TabsMatchSessions`, `PointersLive`, `QuitsForCurrentSession`, `ThrottlingSound` | three sessions, two settings |
| `sessions_unthrottle` | `NoStalledSession` fails, section 6 | two sessions |
| `callback` | `NoDanglingCallback`, `NoInputForgotten`, `InputHandled`; `ImplementsQueue`: the list is the FIFO of `CallbackQueue` | two objects, four cells |
| `handlesocket` | `CallbacksSound`, `NeverStuck`, `InputInOrder`, `DataArrives` | four loads, three callbacks |
| `timing` | `PromisesKept`: the timers in force are exactly those asked for, and never late; `ImplementsService` | two contexts, three timers, `W` 16 |
| `timer_users` | `PingScheduled`, `NoStrayPing`, `UpdateScheduled`, `UpdatesRationed` | intervals off, 1 and 3; all four waits, different delays; `W` 10 |
| `connection2` | `NoProtocolError`, `WindowsAgree`, `StreamsWhole`, `DataArrives`, `ChannelsClose` | two channels one after the other or from both ends, one number per end, window 2 growing to 3 |
| `sharing` | `NoConfusion`, `NothingForgotten`, `ConnectionEnds` | two downstreams, two channels or requests of theirs and one channel of the server's |
| `transport2` | `NoProtocolError`, `QuietDuringKex`, `KexEnds`, `SettingsUsed` | three kinds of servers, one expiry at either end, one change of settings, three packets |
| `transport2_held` | `NothingHeld` fails, section 6 | the same |
| `xfer` | `CopiesWhole`, `RepliesMatch`, `TransferEnds` | four clients, files of up to seven units in blocks of two, three requests at a time |

Why the bounds are enough to matter:

- HandleIO. Subthreads of different handles share the ready list, its event, and the callbacks made
  from one handle into another; two handles of any kinds are the fewest with all pairs of kinds.
  A backlog limit of 1 throttles at once; three units let a read race the first callback and a second
  throttling follow. Two units written are enough for a partial write, a write during a write, and an
  EOF behind either.
- Sessions. Three tabs distinguish the head, a middle and the tail, the three branches of
  `PuTTY_RemoveSession`. A `TermList` is made once per session and not made again after it is freed,
  so that a stale pointer shows. With the default settings, where resize requests make the buffers
  interesting, the constraint `TwoTabs` leaves out states with three tabs; with tabs that stay
  (`FORCE_OFF`) there are three, and resize requests are off. A terminal takes at most one piece
  beyond `MaxBacklog`. The callbacks queue is not bounded: a session queues at most a few.
- Callbacks. Three cells in the queue plus the one being run: a deletion can remove the first, a
  middle, the last, several or all. A queue at its bound refuses more, which is a bound of the model.
- HandleSocket. Two rounds of freezing and thawing need two loads buffered and two given directly.
  The plug does not freeze again once three stale callbacks are queued, a bound of the model.
- Timing. Three timers of two contexts, one of them due at once (`Delays` 0, which the code turns
  into 1). `MaxTimers` bounds the tree, `Slow` the time that one `run_timers` takes, `Early` and
  `Late` the error of `SetTimer`. The pinger and the terminal never touch each other's state, so they
  are looked at one at a time.
- Connection2. With one number per end the second channel uses the first one's at once, when it may.
  A local peer writes up to five units, more than two windows, so a window closes, is adjusted, and
  grows; the client's accepted channels have the fixed window of X11 forwarding, of one unit. Two units
  from the server overrun it, so the client throttles the connection; it is released, or stuck.
- Transport2. One expiry of a limit or a timer, at either end, and one change of the client's settings
  give both ends' KEXINITs at once, crossing with the packets of the higher layers; two packets of the
  client's let one be queued before and one during an exchange.
- Sharing. Two downstreams with equal numbers of their own, and a third set at the server; any two
  acts of theirs give two channels, a channel and a forwarding, two requests at once, or a forwarding
  that is cancelled while the server opens a channel for it. A downstream connects before the first of
  these. `Persistent` is FALSE: a connection that is kept for ever has nothing to check.
- Xfer. Three requests ahead, of which any may fail, be short or overtake the others; seven units are
  four blocks, the last of them short. pscp's download has no failures: section 6 says why.

Each property has a mutant in `PROJECT.json`: a plausible slip in the code, defined next to the
action it changes, under which the run finds that property violated.

## 4. Fairness

- `HandleIO`: `SchedulerFairness` is the operating system (a runnable thread runs) and the message
  loop (it comes back to `ready_event`, and callbacks return). `WritesComplete` assumes that
  somebody drains the pipe, `ReadsComplete` that a read ends; the console's pipes end when its
  process does. `FreeCompletes` needs both, because `handle_free` cannot interrupt a system call.
  `ReadingResumes` has its client in its hypothesis: one that keeps working off its backlog and
  calling `handle_unthrottle`, as `term_out` does.
- `Callback`: a callback that has begun does its work and returns, a deletion in progress goes on, and
  a front end that has been notified calls `run_toplevel_callbacks` again (`PuTTY_MessageLoop` does not
  sleep while `toplevel_callback_pending`). Starting a callback is strongly fair, because deletions,
  which are the program's own doing, interrupt it over and over. Other events need never come.
- `HandleSocket`: the loop runs queued callbacks, a read in progress ends, the plug's functions
  return. Nothing is assumed of what the plug does.
- `Connection2`, `Transport2`, `Sharing` and `Xfer`: a packet that has arrived is handled (in
  `Connection2`, unless the connection is throttled and the packet still unread), and so is a
  callback that is queued; a local peer reads what its socket has for it; the SSH or SFTP server
  answers. Nothing makes anyone send, close, rekey or interrupt. These are weak fairness conditions
  written out, `[]<>(it cannot) \/ []<><<it is done>>_vars`, with the guard stated instead of `ENABLED`,
  which TLC evaluates slowly for handlers that are long functions.
- `Sessions`, `Timing`, `Pinger` and `Redraw` have safety properties only. "In the end" is stated
  as a bound or as the existence of the event that will do it: `Punctual` bounds lateness, where a
  liveness property would only say that a timer is not lost; `PingScheduled` and `UpdateScheduled`
  say that the timer or callback is there. What the timers module makes of it is
  `Timing`'s part.

## 5. The proofs

Theorems hold for every value of the constants that the `ASSUME`s allow. They are proved by TLAPS
with SMT (Z3), Zenon and LS4, from the assumptions on the constants and the modules' definitions.

`HandleIO_proofs`: `TypeCorrect`, `UseAfterFreeFreedom` (`NoUseAfterFree`) and `ReadyListCorrect`
(`ReadyListSound`, with the signal to main), for any number of handles and any `MAX_BACKLOG`. None is
inductive by itself.
The invariant `IInv` says

- `HolderInv`, who holds a handle: a subthread that is running, about to report or dying
  (`ThreadHolds`) excludes a place on the ready list and a pending event, and implies `busy`; a
  place on the list implies that the struct exists, its node has been written and its subthread
  rests. That is what makes `handle_free` safe: on a handle that is not busy nobody else holds it.
- `DyingInv`, how a subthread dies: `done` only for a moribund handle, `defunct` only when the
  subthread has left its loop after reporting, and a handle that is not busy with a subthread gone
  is defunct. Without it the branch of `handle_free` that destroys at once could hit a handle whose
  subthread has not reported yet.
- `WriteInv`, what is being or has just been written is queued: needed for `con <= acc` in
  `TypeOK`, i.e. for `bufchain_consume`.
- `NoDuplicates` and `CallbackInv`: `handle_ready` goes on after a callback only with a struct that
  is live and not defunct.

There is a lemma on lists for each list operation, one on what each helper changes
(`ThrottleEffect`, `TryOutputEffect`, `SignalEffect`, `DestroyEffect`) and one per action.

The second part of `HandleIO_proofs` goes on from `IInv` to the data: `BuffersCorrect` (`BuffersSound`) and
`StreamsCorrect` (`StreamsInOrder`, an action property). `InputInv` and `OutputInv` say, for each
state of a subthread, how the counts of units read, buffered, given to the client, accepted,
consumed and at the device differ; `GotdataInv` that nothing is read into the buffer while
`gotdata` looks at it.

`Callback_proofs`: `NothingDangles` (`NoDanglingCallback`), `NothingForgotten` (`NoInputForgotten`)
and `ListImplementsQueue` (`ImplementsQueue`), for any objects, cells and length of the queue.
`ListSound` (in `CallbackList`) is the invariant of the list in memory: outside a deletion the cells
lie on one chain in the order of `queue`; within one there are two chains, what the loop has kept
and what is still before it; no cell is on both, and whatever is allocated is on one of them or is
the callback being run. Each step of the loop moves one cell, and what the chains become is a lemma
for each. `QueuedOK` (an object's `queued` flag is set exactly if its idempotent callback is in the
queue), `InputOK` and `Announced` are about the objects, over `queue` alone. The refinement then
needs no mapping but the history variables: a step that is none of the queue's leaves `queue` as it
is.

The second part of `Callback_proofs` is about `HandleSocket`, whose thawing is such a callback:
`CallbacksCorrect` (`CallbacksSound`), `NeverStuckCorrect` and `InputInOrderCorrect` (an action
property), for any number of loads and of stale callbacks, from the invariant `SocketIInv`.
`BufferInv` is the heart: exactly while data is buffered is the socket frozen or thawing, and the
handle does not read then; during the `plug_receive` of `handle_socket_unfreeze` both hold, and only
then is a close deferred. `CallbackInv` (callbacks go with the socket; a thawing one has a
callback), `ReaderInv` (a throttled handle has buffered data or is in `plug_receive`), `CountInv`
(all that was read was given to the plug, but for one load) and `WantInv` follow along.

`Timing_proofs`: `PromisesCorrect` (`PromisesKept`) and `TimersImplementService`
(`ImplementsService`), for any contexts, any width of the clock and any delays and latenesses that
`TimingAssumption` leaves room for. Times wrap around, so everything is said in signed differences.
`SignedIs` is what they are and `Compose` that they add up as long as the sum stays below half of
`W`; it is cited wherever two of them meet, with the bound. `ClockInv` gives the bounds: each timer
is ahead by at most its delay; while main waits, the front end's timer is set and does not go off
later than the first of them, but for the time that `run_timers` took; in `run_timers`, `now` is not
older than the time spent there nor than any timer. Hence the order of the tree, relative to the
`now` of whichever moment, is always the order of the times (`FirstIsNext`), and the test of
`run_timers` is true exactly of what is overdue at `now` (`DueMeans`). That a nonempty tree has a
first element (`FirstIsFirst`) rests on the well-foundedness of `<` on numbers. `TreeInv`: no two
timers alike, and none of a context in use that has been expired before, which is where the models'
condition on `Begin` enters.

`TimerUsers_proofs`, over `TimerService` and `PunctualTick`: `UpdatesCorrect` (`UpdateScheduled`),
`UpdatesAreRationed` (`UpdatesRationed`), `PingsCorrect` (`PingScheduled`) and `PingsRationed`
(`NoStrayPing`). `UpdateScheduled` turns out to be inductive. For the others, `RestInv` ties the
time of the last update to the end of the cooldown; `Paced` says that a pinger's wait has not been
going on for longer than its length and the lateness, so that `next - when_set`, unsigned, is that
length; `QuietInv` that the wait ends no earlier than the least interval after the last ping.

`Sessions_proofs`: `TabsCorrect` (`TabsMatchSessions`), `PointersCorrect` (`PointersLive`),
`ThrottlingCorrect` (`ThrottlingSound`) and `QuitsCorrect` (`QuitsForCurrentSession`, an action
property), for any number of sessions and any backlog. `TabsInv` is `ListMatchesTabs` (the list
links the sessions in the order of the tabs, which has neither gaps nor repetitions) with the
globals that follow the selection; `BackendInv` says what the globals and the queued callbacks may
refer to; `StayInv` that `close_session` never runs unless tabs stay; `FreshInv` that a session not
yet made has no output; `ThrottleInv` that without resize requests a session is throttled only in a
drag-select. The surgery on the list (`RemoveSession`, in its three branches) and on the tabs is
proved by indexes. The loop that drops a freed terminal's callbacks is a recursive function over the
length of the queue; that it drops those and no others is proved by taking the least length at
which it would not (`Induction`).

`Transport2_proofs`: `KeyExchangesCorrect` (`NoProtocolError`) and `HigherLayersCorrect`
(`QuietDuringKex`), for any number of key exchanges, changes of the settings and packets, and any of
the server's bugs. All that one end sends is a walk (`Path`) through places: a place says which
packet of which key exchange comes next and how many of the higher layer's there have been; a
packet of the higher layer's is possible only where a KEXINIT is next. An end's place in its own
stream (`Sending`) and in the other's (`Awaiting`) follows from where its coroutine waits and from
the number of its last KEXINIT. The invariant says that there is one place for each direction where
the receiver's decoder stands, such that the receiver's queue is a walk from `Awaiting` to it, and
the sender's packets in wire format and then `out_pq` are one from it to the sender's `Sending`
(`Receives`, `Sends`); and that a frame's keys are those of the key exchanges complete at its place
(`Passed`), numbered from NEWKEYS (`Coded`). Hence the next packet is always the one expected, for
besides the higher layer's a place allows one type only. `Numbers` ties the two KEXINITs to the stage, whence
both ends agree on the keys; `HeldBack` says what may wait on `pq_out_higher`. What an end has done
for good, its KEXINITs and the grant of the service (`View`), only grows, and a walk stays one when
it grows (`PathGrows`), so that an end need not look at what the other does meanwhile. Each operator
of the coroutine has a lemma (`GetKexinitGood` to `IdleGood`), `CallGood` joins them, and each action
has one (`ProcessJoint`, `InputJoint` and so on).

`Xfer_proofs`: `RepliesMatchHolds` (`RepliesMatch`) and `CopiesWholeHolds` (`CopiesWhole`), for files,
blocks, pieces and pipelines of any size, servers that answer in any order and fail where they like,
files that grow, and an interruption anywhere. `Bookkeeping` is about the requests of all four
clients: the queue is in the order of the file and no two requests overlap (`Ordered`); an id is
either on its way to the server or on its way back, is in the table once, and leads to one request
that waits (`Book`), no request waits without one (`Waiting`), and a reply says what a read at its
offset could find in a file that had at least `statsize` units (`Answers`). It is inductive because
the ids given out are not in use and differ (`FreeIds`), although an id is used again at once.
`Download` says that the queue consists of whole blocks without gaps between them (`Blocks`), what a
block that has come says of the file's size (`Received`), and, as long as no error has been seen,
that the copy ends where the queue begins or where the file ends (`Placed`), that the end of the file
was seen only if the copy reaches it or a short block in the queue does (`EofSeen`), and that
`furthestdata` and `filesize` cover the blocks in the queue (`Told`). The last is why data behind
a short block is always noticed: whichever of the two comes first, the other one makes `furthestdata`
pass `filesize`. For pscp, which takes a reply that gives it nothing to write for a lost connection,
`InOrder` matches the replies with the queue position by position; it is used only where the
constants say that nothing fails, overtakes or grows, and shows that pscp does not give up then.
`Upload` says that each unit sent is stored, on its way, or covered by an error on its way back
(`Accounted`). How far one call takes blocks off the queue and what it appends to the file is a
recursive function over the queue; what it computes is shown by taking the least position at which
it would not (`Least`). There is one lemma for each action (`GetKeeps` to `ResumeKeeps`).

`Connection2_proofs`: `NoProtocolErrorHolds` (`NoProtocolError`), `WindowsAgreeHolds`
(`WindowsAgree`) and `StreamsWholeHolds` (`StreamsWhole`), for any window sizes, any number of
channels and of channel numbers, any listeners and ends with fixed windows, and any amounts of data.
The invariant looks at one channel ever opened at a time, by its number `n` in the history (`Conn`).
`Of` picks its packets out of a link, in their order, so that what crosses on behalf of an earlier
or a later user of the same numbers does not matter. A channel is `Closed`; or one end is `Asking`,
with the OPEN or its refusal on the way; or it is `Joined`. Then there is a pair `g` of records, one
for each end: the end's `struct ssh2_channel` or, when that has been freed, what it was at that
moment, so that the end that is still there can be compared with it. `Sides` says of each direction

- `Addressed`: the packets carry the number of the receiver's channel, and OPEN_CONFIRMATION comes
  first exactly while the receiver is half-open;
- `Ends`: nothing follows CLOSE, no data follows EOF, and what one end has in `closes` as sent the
  other has received or has on its way; an end that has received CLOSE has nothing more to come,
  which is why its number can be given away;
- `Answered`: the outstanding requests of an end are the replies on their way to it followed by the
  requests on their way from it, as long as the other has not sent CLOSE. Hence a reply is taken for
  the request it answers, and a CLOSE may answer all that are left;
- `Windows`: `remwindow`, the data and the adjustments under way make up `locwindow`.

`Sound` and `Within` are about one end (`SENT_CLOSE` only without outstanding requests; the window
and the backlog fit into `locmaxwin`), and `Carried` about the history of a direction: what its peer
wrote is at the socket, in `outbuffer`, in the SOCKS buffer or on its way. Sums and selections are
recursive functions over a sequence; what they make of an appended or a removed packet is shown from
`StepsExist` and `StepsUnique`, by taking the least position that would be wrong. Each operator of
`connection2.c` has a lemma on what it keeps of a side, and each handler and socket event one on
what it makes of `Conn(n)`, for its own channel and for the others.

Only model-checked: all liveness, and with it every fairness condition, which is out of TLAPS's
reach (as is `ENABLED`); and the safety properties of `Sharing`, `NoConfusion` and `NothingForgotten`.
There an invariant would have to say what each of three parties still owes the other two for every
number that any of them uses; TLC does so on the small instance.

## 6. What the checks found

Two disagreements have a run:

1. `sessions_unthrottle`. `wintw_unthrottle` (`win/PuTTY.cpp:6314`) passes the backlog on to the
   global `backend`. `term_out_cb` runs for a terminal with a resize behind it, also when the user
   has switched tabs since: the wrong session is unthrottled and the right one stays throttled.
   Without resize requests this does not happen (`ThrottlingSound`).
2. `transport2_held`. After the other side's NEWKEYS of a repeated key exchange the coroutine goes to
   `crReturnV` (`transport2.c:2023`) before it passes `pq_out_higher` on, and nothing is queued that
   would call it again. What the higher layer queued between our NEWKEYS and theirs stays there until
   some other packet comes or goes; 1882 says that "we can send all our queued higher-layer packets".
   `QuietDuringKex` says that only such packets are held.

Further ones met while reading and modelling, without a run of their own:

- `close_session` (`PuTTY.cpp:1059`) frees backend and ldisc and clears the globals, not the copies
  in the `TermList`; with "close on exit" off, switching away and back puts the freed pointers in
  force again, and the tab's closing frees them twice. `PointersLive` excludes that setting.
- The tab limit: `PuTTY.cpp:6687` refuses at `term_count > 60`, `MainFrm.h:311` says "You can open
  60 tabs at maximum". One more is possible.
- `win_seat_connection_fatal` (`PuTTY.cpp:1383`) does nothing, so a session whose pipe fails while
  its process lives is never closed, whatever the comment at 2305 says.
- A tab left in mid-drag (`PuTTY.cpp:6745`) holds its output until it is shown and clicked again
  (`terminal.c:7523`).
- A plug that freezes the socket from inside the `plug_receive` of `handle_socket_unfreeze`
  (`handle-socket.c:233`) finds it unfrozen again afterwards (249-254).
- `handle-io.c:177` says that after an EOF or an error the main thread will "dispose of the handle
  structure at the next opportunity". If the handle is freed while the operation is in progress,
  `handle_ready` (606) sees `moribund` first and sends the subthread a request to die, though it has
  left its loop; the struct, its event and its buffer stay. `FreeCompletes` states what does hold.
- `sk_handle_deferred_set_frozen` (`handle-socket.c:431`) assigns `hs->frozen`, a member of the other
  half of the union; it overlays `output_eof_pending`, so the next write fails the assertion at 416,
  and `start_frozen` is never set. `sk_handle_close` (154) does not free `stderr_h`.
- `timing.c`: a context that is expired and then used again revives its old timers (221, against
  `putty.h:2765`); a timer left over with the same context, function and time swallows a new one
  (133, against 2755); a negative delay is not caught by `when - now <= 0`, an unsigned comparison
  (124, against the comment at 119); a `WM_TIMER` exactly on time runs nothing (188, against 2830).
  `Timing` has users begin only when no timer of theirs is left.
- `connection2.h:94`: `throttled_by_backlog` is never set, so the socket of a channel whose window is
  used up goes on being read. `throttling_conn` is not released when its channel is destroyed or becomes
  a zombie (587-592 sets it, only 1399-1402 takes it back). A channel with a fixed window gets there: its
  socket fails while it throttles, the SSH socket stays frozen, and no channel's data or CLOSE is read
  any more (`Stuck`, reached in the run; `DataArrives` and `ChannelsClose` hold unless an end is stuck).
  The model takes a socket with a backlog to send nothing before FD_WRITE; between FD_CONNECT, which
  sets `writable` (`network.c:1594`), and the FD_WRITE that comes with it `sk_write` can send the
  backlog without a `plug_sent`, and the throttle is not released then either. `remlocwin` is too large once the "pretend"
  branch is taken with a winadj outstanding, and the window then grows later than it might.
- `FD_CLOSE` (`network.c:1680`) reads from a frozen socket, and `pfd_receive` drops what comes before the
  channel is confirmed; the CLOSE of a channel drops its socket's backlog. `StreamsWhole` excludes
  streams cut in these ways (`Cut`).
- `connection2.c:408` goes back to the loop without `pq_pop` after it has given a channel's opening to
  a downstream, and then refuses the rest of the same packet as an unknown kind, for channel 0.
  `OpenFromServer` does so too. `NoConfusion` tolerates this message by name, and its server ignores
  it, where another may disconnect; but if the server's channel 0 waits for an answer it takes the
  refusal for its own (`misdirected`).
- `share_remove_channel` (`sharing.c:617-627`) deletes from `channels_by_server` by number, which is 0 for
  a channel that has none yet. When such a channel is refused (1254), another one whose number is 0
  loses its entry (`unlisted`): its CLOSE from downstream is not noted, so it is never removed and is
  closed again when the downstream goes.
- `sharing.c`: `globreq_tail` is never set (1389, 1454), so a second request of a downstream, made
  before the first is answered, takes the first one's place, and `assert(globreq)` (1177, "should match
  the queue in connection2.c") fails at the second answer; a REQUEST_FAILURE made up at 1367 or 1429
  overtakes the first one's answer (`overtaken`). An OPEN_FAILURE for a downstream that has gone
  (1254) does not try the clean-up again, so that the connection never ends (`refused`).
  `share_try_cleanup` does not look at requests without an answer: a downstream that goes while one to
  cancel a forwarding is outstanding has the forwarding removed a second time, and its connstate is freed
  while the queue of global requests refers to it (`cancelled twice`). A forwarding that the server
  refuses stays in `rportfwds`.
- Downloads: a short read of what proves to be the last block is not noticed (comment at `sftp.c:1013`);
  after a local write error psftp's get goes on writing later blocks, so a later reget goes on from a
  file with a gap; reput goes on at the remote file's size, so a failed or overtaken piece leaves a hole
  that a later reput reports as success (`CopiesWhole` excludes `basis = "gap"`). pscp gives up after a
  local write error without reading the outstanding replies, takes replies out of order for a lost
  connection, and fails an assertion (1514; comment at 1508) when the file has grown since its `stat`;
  `scp_send_finish` returns at the first error without reading the other replies (`RepliesMatch` excludes
  it).
- `transport2.c`: a change of settings is lost when it is made while SERVICE_ACCEPT is awaited
  (`rekey_class` is overwritten at 2021), or when `notify_auth_done` overwrites `rekey_class`;
  `SettingsUsed` starts from changes that are honoured (`honour`). A deferred rekey ignores
  BUG_SSH2_REKEY and is looked at only after the next exchange.

## 7. What is not modelled, and why

- In modelled parts: the standard-error handle of a handle socket, which only logs. Its
  `handle_sentdata` has no action: it touches nothing of the modelled state, and nothing at all after
  its call of the plug, so what the plug does in it is what it may do between two events. Also
  nested message loops in timer functions and menus;
  clock jumps (the code's `Slack` for them is there); reconfiguration of a running session;
  duplicating or restarting a session; the resizing of pseudo-consoles; painting and fonts.
- Of SSH: global requests of the upstream's own, throttling of all channels by the network (`ssh_throttle_all`), extended
  data, simple mode, the main session channel, agent and X11 channels (but for the fixed window);
  GSSAPI, host keys, algorithms, delayed compression (the server's side of which never sets
  `seen_userauth_success`); a rekey before the higher layer has begun. A server session that reports
  its exit status after the client's CLOSE would fail an assertion of `ssh2_chanreq_init`; sessions are
  not modelled. In sharing, xchannels, X11 and agent requests, version strings; messages within a channel
  that change nothing are passed on like the others and left out.
- Of file transfer: directories, wildcards, the old scp protocol, the servers.
- Whole parts, by reason. Data processing without interleaving: escape sequences, bidirectional
  text, cryptography, key files. Tables and dialogs: settings, configuration. Thin over the system:
  network sockets, pipes, serial lines. Not part of this program and superseded or duplicated by
  parts that are: SSH-1, other front ends, Unix port. Third-party: WTL.
- Not yet: see the plan.

## 8. The plan

Done in this order: `HandleIO` and its proofs (every byte of every session goes through it),
`Sessions` (the fork's own code), the callback modules, `HandleSocket` and its proofs, the timers;
then the SSH stack and file transfer: `Connection2`, `Transport2`, `Xfer`, `Sharing`.

The proofs: `HandleIO`, `HandleSocket`, then the data of `HandleIO`, the callbacks, the timers with
their users, `Sessions`, of the SSH stack `Transport2`, file transfer, and `Connection2`. Next:
`Sharing`, `NothingForgotten`.

Then, the model. Runs are one per question, so a new one takes the place of a weaker question.

1. `GlobalRequests`: remote port forwardings asked for, cancelled and asked for again with replies
   outstanding (`connection2-client.c`, `portfwd.c`), joined to `Sharing`.
2. `SshThrottle`: `ssh_throttle_all` and `overall_bufsize`, frozen channels, over `HandleSocket`.
3. `Ldisc`: the input queue against a backend that does not accept input yet, and `Logging`: data
   that arrives while the user is asked about the file.
4. `HandleWait`: indexes, deletion between wait and activation, the limit of 64, composed with the
   number of tabs.
5. `Bufchain` and the memory pools as algorithms against a reference (a sequence; a set of disjoint
   blocks), in modules of their own, as recursion suits them. The authentication coroutines, Pageant's
   queues and the proxies after that.
