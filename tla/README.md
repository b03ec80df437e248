# Formal models of the network programming servers

TLA+ modules, TLC configurations and TLAPS proofs for the four projects under
`src/projects/`. Line numbers below refer to the files of this repository.

## 1. The system

| Part | Files | State it keeps | Operations | What makes it correct |
| --- | --- | --- | --- | --- |
| NPShell core | `01-npshell/shell_core.h`, `02-rwg-server/shell_core.h` (a superset) | numbered pipes waiting for a line (`numberedPipes`), count of executed segments, environment | run a line: plan segments, attach the pipe that is due, make pipes, fork, wait or not, reap | a `\|N` pipe is read by exactly the N-th later line; every unused pipe end is closed in every process, so readers see EOF; no zombie, no wait for a child that cannot finish |
| RWG, one process | `02-rwg-server/np_single_proc.cpp` | clients by fd, ids, nicknames, environments, user pipes (anonymous pipe per sender/receiver pair) | `select` loop: accept, read lines, `who/name/tell/yell`, `>N`, `<N`, disconnect | smallest free id, unique nicknames, a user pipe is used once, no client is served after it was removed, no client blocks the others |
| RWG, many processes | `02-rwg-server/np_multi_proc.cpp` | shared memory: spin lock, user table, mailboxes of 64 texts, `userPipeExists`; FIFOs on disk; per process: slot, client socket | login, logout, `who/name/tell/yell`, mailbox + `SIGUSR1`, user pipes through FIFOs | lock excludes, table and processes agree, texts arrive once and in order, no wake-up is lost, a FIFO belongs to one transfer |
| Simple servers | `*/np_simple.cpp`, `*/npshell.cpp` | none beyond the shell | accept, fork, exec of a shell | - |
| Remote batch console | `03-http-cgi-console/console_components.*`, `console.cpp` | per target: socket, unsent commands, text received since the last prompt | resolve, connect, read, detect `% `, send the next command, finish | one command per prompt, in order, none lost however the bytes are split |
| HTTP server, integrated CGI server | `03-http-cgi-console/http_server.cpp`, `cgi_server.cpp` | per connection: parser, child or remote sessions, output queue | parse, dispatch, fork CGI / start sessions, queue and write the response, close | the response is complete and ordered when the connection is closed |
| SOCKS4 proxy | `04-socks-proxy/socks_server.cpp` | per request: two sockets; firewall file; one start time per client address on disk | CONNECT, BIND, firewall, time limit, relay with one thread per direction | reply before data, deny what is not permitted, everything read is forwarded |
| Console through SOCKS | `04-socks-proxy/console_components.hpp`, `console.cpp`, `pj4.cpp` | as the remote batch console, plus the SOCKS handshake | handshake, prompt detection over split prompts | as above |

Interaction: the multi-process server's processes share memory and signals; the
single-process server runs everything in one `select` loop and forks commands;
the consoles are clients of the RWG servers (they wait for its `% `); the SOCKS
proxy forks per request and relays between the console and the RWG server.

What is hard here: signals against a lock, slots that change hands while a text
or a file is on its way, processes that die inside a critical section, file
descriptors inherited by the wrong child (a pipe without EOF), full pipes and
mailboxes, prompts split over reads, one direction of a relay ending first.

## 2. Modules

| Module | Models | Kind |
| --- | --- | --- |
| `NpMultiProc` | registry, lock, mailboxes, `SIGUSR1`, chat commands of `np_multi_proc.cpp` | detailed |
| `UserPipeFifo` | `>N` and `<N` of `np_multi_proc.cpp`: flags in shared memory, FIFOs on disk | detailed |
| `NpSingleProc` | `np_single_proc.cpp` with the free functions of `shell_core.h`: select loop, descriptor table, numbered and user pipes, commands | detailed |
| `CgiConsole` | a connection of `cgi_server.cpp` and its remote sessions of `console_components.cpp` | detailed |
| `ShellSession` | `class ShellSession`, the shell of `npshell` and `np_simple`: lines, numbered pipes, the descriptors of shell and children, `fork` that fails, `SIGCHLD` | detailed |
| `HttpServer` | `http_server.cpp`: requests in parts, 403 and 404, fork and exec of a CGI program, inherited sockets, `SIGCHLD` | detailed |
| `SocksServer` | `socks_server.cpp`: start-time file, request, firewall, CONNECT, BIND, relay threads | detailed |
| `SocksConsole` | `pj4.cpp` and `console.cpp` of project 4: sessions through a SOCKS proxy or direct, the handshake, prompts over split reads | detailed |
| `UserDirectory` | what both RWG servers promise about numbers and nicknames | abstract |
| `UserPipes` | what both RWG servers promise about user pipes | abstract |
| `*Proofs` | theorems about the module of that name | proofs |
| `MC*` | small instances of the module of that name | TLC |

`NpMultiProc` and `NpSingleProc` both implement `UserDirectory`, and
`UserPipeFifo` and `NpSingleProc` both implement `UserPipes`: it is the same
service twice (README.md:65, "Two server architectures implement the same behavior:"), once
with one process and once with shared memory, signals and FIFOs. `UserPipeFifo`
takes each critical section as one step, which `NpMultiProc`'s
`MutualExclusion` justifies. `SocksConsole` takes the proxy for what
`SocksServer`'s `ClientServed` says of it: one reply, then the shell's bytes in
order.

### NpMultiProc

A process of `Proc` is one connection. `pc` is where its main context is in
`serveClient`; `handler` is its `SIGUSR1` handler. Every `lockShared ...
unlockShared` section is two steps, `Acquire` and the action of its body, which
releases; between the two any other process may run and a signal may arrive.
Between critical sections every call that another process can observe is a step
(`Kill`, `SendSelf`, `EndSend`).

| Code | Definition |
| --- | --- |
| `lockShared` / `unlockShared` (81-89) | `Acquire`, `HandlerAcquire` / `Release`, `Flush` |
| accept and `fork` (675-688) | `Fork` |
| `assignUser` (517-537) | `AssignUser`, `ServerFull` |
| `signal`, welcome, login broadcast (581-584) | `InstallHandler`, then `Collect` |
| `broadcastMessage` (181-194) | `Collect`, then per id `SendSelf` or `Acquire`, `Post`, `Kill` |
| `sendMessageToUser` (158-179) | `SendSelf`, `Post`, `Kill` |
| `handleRwgBuiltin` (269-355) | `Who`, `Rename`, `RenameRefused`, `Tell`, `Yell`; `tell` without a number, which `std::stoi` ends (328), `NotANumber` |
| `cleanupUser` (539-566) | `Cleanup`, then a broadcast of "left" |
| `flushPendingMessages` (144-156) | `Deliver`, `HandlerAcquire`, `Flush`, `FlushBroken` |
| default action of `SIGUSR1`, of `SIGPIPE` | `Deliver` before `signal()`, `BrokenPipe`, `FlushBroken` |

Abstractions: a text is its sender, its kind and its position among the sender's
texts (`Message`; the auxiliary field `to` remembers for whom the sender looked
the slot up); nicknames are model values and `StoredName` says what `copyString`
keeps of one; `usleep` is not modelled, a context that spins simply cannot take
its `Acquire` step; a process number is not reused. `seen`, the history of what
a client was sent, is auxiliary. A process that `std::stoi` has aborted is at
`"aborted"`: dead like one at `"exited"`, but its slot stays online and its mailbox
is not read any more.

`Vanish` lets clients close their socket without `exit`. `Overlap = TRUE` is the
real environment: clients type whenever they have a prompt. `Overlap = FALSE` is
a polite one: somebody logs in, types or leaves only when the server is quiet
(every process at its prompt, no signal pending); it separates what the protocol
does from what only overlapping use can break. What the polite runs show, they do
not show for clients that overlap: the further instances of section 3 have a
counterexample for each of `WellServed`'s parts.

### UserPipeFifo

A session of `Session` is one connection; `pc` is where it is in
`resolveUserPipes`, `executeLine` and `cleanupUser`. Each critical section is a
step, each system call on a path is a step of its own. A transfer
`<<session, n>>` is what the session's n-th line pipes to a user; it also names
the FIFO that `mkfifo` makes for it, so that "which file does this path name"
and "whose output is in it" can be told apart after `unlink` and `mkfifo`.

| Code | Definition |
| --- | --- |
| `resolveUserPipes`, `<N` (364-399) | `ClaimIn`, `OpenIn`, `UnlinkIn` |
| `resolveUserPipes`, `>N` (402-445) | `ClaimOut`, `UnlinkOut`, `Mkfifo`, `MkfifoFails`, `OpenHold`, `OpenWrite` |
| the command, `closeUserPipeResolution` (448-486) | `ReadPiece`, `EndOfInput`, `WritePiece`, `EndOfLine` |
| `std::stoi` of a number that no int holds (239, 241) | `Overflow` |
| `assignUser`, `cleanupUser` (517-566), `_exit` | `Login`, `Cleanup`, `UnlinkNoted`, `Exit` |

Abstractions: a command's output is a number of pieces out of `Outputs`, of which
a FIFO holds one, so that two do not fit: `holdFd` keeps a reader, so the writer
waits until somebody types `<N` and no `EPIPE` ends it. Its descriptors
stay open (`hold`) until the process ends, but for the one that a failed open
closes. `Overlap` is as in `NpMultiProc`.

### NpSingleProc

The server's descriptor table `fd` is explicit: `accept`, `pipe` and `open` take
the lowest free number and a number that is kept in a table says nothing about
what it refers to by now. A child's table is the set of objects it inherits
(`Inherited`, what `runChildProcess` does not close). Ends of pipes decide when a
reader sees its end and when a writer is ended.

| Code | Definition |
| --- | --- |
| `runServer` (505-554) | `Select`, `NextReady`, `NoneReady` |
| `acceptClient`, `cleanupClient` (435-478) | `Accept`, `Refuse`, `CleanupClient`, `EndOfInput`, `ExitLine` |
| `handleClientInput`, `parseCommands` | `TakesLine`, `Parse`, `Prompt` |
| `handleRwgBuiltin` (211-280) | `Builtin`, `Rename`; `tell` without a number (259), `NotANumber` |
| `resolveUserPipes` (282-329) | `NotAsked`, `ResolveInNull`, `ResolveIn`, `ResolveOutNull`, `ResolveOut` |
| `buildLinePlan`, `buildWaitability` | `Starts`, `Forced`, `Waitable` |
| `executeExternalCommands` (497-545), `prepareIoPlan` (397-446) | `RunPlain`, `RunPiped`, `RunNumbered`, `RunNewNumbered` |
| `runChildProcess` (448-488) | `NewKid`, `Inherited` |
| wait, close, prompt (331-383) | `Reap` |

Abstractions: a line is the sequence of its `nextType`s (`Shape`); a command
reads its stdin unit by unit, copies it, or makes a number of units out of
`Outputs` when it reads no pipe; a pipe holds `Capacity` units. What a client sees of
`who`, `tell` and `yell` is left out, and so is their write to another client, which
may have gone; that a reply to one's own reset connection raises `SIGPIPE` is not
(`pc = "dead"`), nor that `std::stoi` ends the server at a `tell` without a number.
The same throw at a `|N`, `<N` or `>N` that no int holds is left out here: after it
nothing happens any more.

### CgiConsole

A handler of the `io_context` is a step with all the calls it makes. `http` is
`CgiHttpSession`, with `Enqueue`, `CloseWhenDrained`, `RemoteDone` and `DoWrite`
as functions of its state, since handlers call several of them in a row; `page`
is what the browser has. A `RemoteBatchSession` is `rs`, `next` and `percent`.
The shells print a prompt, take a command and answer; `toConsole` carries
single characters, and a read takes any prefix of them, so prompts are split in
every way.

| Code | Definition |
| --- | --- |
| `do_read`, `dispatch`, `start_remote_sessions` (cgi_server.cpp:29-84) | `RequestFailed`, `DispatchPage`, `DispatchConsole`; its loop over the sessions is `Started` |
| `do_write` and its completion (103-138) | `DoWrite`, `Wrote`, `WriteFailed` |
| `start`, `do_resolve`, `do_connect` (console_components.cpp:395-436) | `StartRemotes`, `Resolved`, `Refused`, `Connected` |
| `do_read` (438-460) | `Read`, `ReadFailed` |
| `send_next_command` (462-481), `finish` (483-498) | `SendNextCommand`, `Written`, `WriteToShellFailed`, `Finish` |

Abstractions: HTML and escaping are left out, a command is one symbol, text is
the few characters that matter to prompt detection (`%` and the space) and the
`Words` of commands and outputs, which the proofs leave open. What a session has
on the page or in the queue is `Shown`, from `Column`, a recursive function over
the queue as `Started` is one over the sessions, so that both can be reasoned
about.

### ShellSession

`mine` is the set of pipe ends that the shell has open, `kid[k].holds` a child's.
Descriptors 0 and 1 are not numbered: stdin and stdout of a child are the ends
that `dup2` copied, and a pipe ends for its reader when nobody holds its write
end. Commands are external: one without a pipe to read makes `Units` units, one
with a pipe copies it, and with `Quitters` it may end before it has read all,
like `head`. `sent`, `got` and `atEnd` are auxiliary: what was written for the
n-th command with words of a segment, what it read, whether it came to the end:
in `b | | c` the second command is c, which the shell lets read b's pipe.

| Code (01-npshell/shell_core.h) | Definition |
| --- | --- |
| `buildLinePlan` (312-335), `buildWaitability` (181-199) | `Starts`, `SegmentOf`, `Waitable` |
| `run`, `parseLine`, `tryRunBuiltin` | `Exit`, `Throw`, `ReadLine`, `RunBuiltin`, `DiscardIncoming` |
| `attachIncomingNumberedPipe`, `prepareIoPlan` (372-465) | `SkipEmpty`, `Prepare`, `OpenFails` |
| `forkOrReapUntilSuccess` (231-250) | `Fork`, `ForkFails`, `ReapOne`, `GiveUp` |
| `closeChildIo`, `closeAllNumberedPipesInChild`, `closeParentIo` | `ClosedInChild`, `ClosedInParent` |
| waiting, `graceReap`, `reapChildren` | `EndOfLine`, `Wait`, `ReapChildren` |

Abstractions: a command is whether it has words, how it redirects and its
`nextType`; standard error goes where it goes without a property about it
("Unknown command" of a background `nosuch |1` comes behind the prompt, shell_core.h:488);
`setenv` and `printenv` only count as a segment. `reapChildren` may run between
any two steps of the shell, also between `fork` that fails and `waitpid`.

### HttpServer

`session[b]` is where the `HttpSession` of browser b is, `child[b]` the process
that its `execute_cgi` forked, `open` and `holds` are the sockets in the tables
of the server and of each child. The answer of a CGI program ends when the last
process that holds the socket closes it (`EndOfFile`). Handlers of the
`io_context` are steps; the writes of a child are steps of their own, and a
browser may close or reset its connection between any two.

| Code (http_server.cpp) | Definition |
| --- | --- |
| `do_accept` (152-166) | `Accept` |
| `do_read` (47-69) | `ReadPart`, `ReadForbidden`, `ReadError`, `Allowed` |
| `send_forbidden` (71-88) | `SendForbidden`, `CloseForbidden` |
| `execute_cgi` (90-142) | `Execute`; in the child `NotFound`, `Status`, `Exec`, `ExecFailed`, `BrokenPipe` |
| the exception that `remote_endpoint()` throws (92, 181-189) | `Throw` |
| `reap_children` (31-34) | `ReapChildren` |

The program and its test disagree on the status. `http_server.cpp:63` sends 403
for every path but `/panel.cgi`. `03-http-cgi-console/tests/run_reliability_suite.py`
requires 200 of `/printenv.cgi` (230-236, 304-308), `/hello.cgi`, `/welcome.cgi`
(269-275) and `/console.cgi` (370-374), and 404 of `/does-not-exist.cgi` and
`/../secret.cgi` (288-296). The model does what the code does; `AnswersWhole` says
nothing about which status a path gets: it is about one answer, whole, and nothing
behind it, whatever that answer is. An error of `async_accept` (161), which does not
end the loop, is a browser that never comes.

### SocksServer

A process of `Process` is one accepted client; all have the same address and so
share one start-time file. `thread[p][d]` is where the `relay_stream` of
direction `d` is: between the check of the limit, `read_some`, the second check,
`write` and the two calls of `close_socket`. A piece of data bears the time when
it was sent.

| Code | Definition |
| --- | --- |
| `get_or_create_ip_start_time` (27-40) | `ReadStartTime`, `Truncate`, `Flush` |
| `main`, `handle_client` (369-424) | `Fork`, `Drop`, `Throw`, `RefuseRequest`, `ReadRequest` |
| `handle_connect`, `handle_bind` (296-367) | `CheckLimit`, `CheckFirewall`, `Connect`, `Listen`, `AcceptPeer`, `RejectAndEnd` |
| `relay_stream` (266-287) | `CheckTime`, `Receive`, `ReceiveNothing`, `Write`, `WriteToNobody`, `WriteFailed` |
| `close_socket` (260-264) and its two calls | `CloseSocket`, `CloseInput`, `CloseOutput` |
| `relay_bidirectional` (289-294) | `StartRelay`, `Join` |

Abstractions: `load_firewall_rules` and `firewall_allows` yield any verdict per
request, since the file may have changed since the last one; wildcard matching
is not modelled. Both threads close both sockets without
synchronisation: a read or a write on a socket that the other thread has closed
fails. The clock is not set back. Clients that leave between their request and
its reply, which ends the process with an exception, are not modelled beyond
`Throw`. An accept that throws ends the loop in `main`: no further process is
forked, which `Fork` never has to be.

The relay is full duplex and so are its two sides: each sends, ends its sending,
closes or resets when it likes. Who closes a socket in which something is unread,
or sends to one that is closed, causes a reset, which may destroy what the other end
has been sent and has not read: `Remains` is what it leaves, and `got` is what was
written to a side less what was destroyed. `crossed` remembers that the sides acted
against one another: one closed when something was on its way to it, sent when
the other one had ended, or reset the connection.

### SocksConsole

`rs[s]` is the operation that session s waits for; a handler is a step with all
its calls. `asked` is the port in the SOCKS4A request. Reads take any part of
what has arrived, except that of the reply, which `async_read` takes whole.

| Code (04-socks-proxy) | Definition |
| --- | --- |
| `SocksBatchSession::connect_remote`, `build_socks4a_request` (console_components.hpp:341-380) | `ConnectedToProxy`, `RequestedPort`, `Throw`, `RequestSent` |
| `read_socks_reply` (382-397) | `ReadReply` |
| `RemoteBatchSession` (218-327) | `Resolved`, `ConnectedDirectly`, `Read`, `Written`, `Failed` |
| `received_prompt`, `write_next_command` (280-310) | `ReceivedPrompt`, `LastOf`, `ReadPrompt` |
| `output_text` (308-326), `main` of `pj4.cpp` and `console.cpp` | `OutputText`, `Init`, `Return`, `Throw` |

Abstractions: a reply is two symbols (eight bytes in the code), a command one;
HTML and escaping are left out.

## 3. What is checked

| Run | Instance | What it shows |
| --- | --- | --- |
| `npm_overlap` | 2 connections, 2 slots, mailboxes of 2, 1 command of one of them, overlapping, clients vanish, `tell` aborts | `RegistrySafe` (the lock excludes, dead holders included, it dies with nobody while the clients are there, the registry agrees with the processes, and a dead process is listed only if `std::stoi` aborted it, its client vanished, or a signal came before `signal()`), order in mailboxes with two texts of one sender in them, no lost wake-up, in every interleaving of processes and handlers |
| `npm_live` | 3 connections, 2 slots, 1 command each, polite, fair | `WellServed` (nobody listed who has gone but those aborted by `tell`, no text to a stranger when a slot changes hands, no process that waits for its own lock), `SameHistory` (one history of broadcasts for everybody), `ComesToRest` (commands end, mailboxes of living processes are read), `UserDirectory` is implemented |
| `npm_self_deadlock` | 2 connections, overlapping, fair | violated: finding 1 |
| `fifo_overlap` | 2 users, 3 lines, overlapping, outputs of 1 and 2 pieces, fair | a pipe is used up once, no open waits, `UserPipes` is implemented, and `EveryLineEnds`: a line ends, whatever the others do, or hangs at one place only, the write to a full FIFO that nobody reads |
| `fifo_polite` | 3 connections, 2 slots, 1 line each, polite, outputs of 0 to 2 pieces | `CleanTransfers`: only the addressee reads, all of it unless the FIFO could not be made or its sender aborted, and files match flags |
| `single_shell` | 2 clients, 2 lines and 1, of the shapes `a \|1`, `a \|2 b \|1` and `a \| b`, output larger than a pipe | `EndsInRightHands` (a command reads the pipe made for its segment, delays lie ahead, children keep no ends of their own client's pipes but those they use, nothing leaks in the server); the server comes back unless a command waits for an end that another client's command holds; a closed connection is closed by its own commands |
| `single_users` | 3 connections, 2 numbers, 1 line each, `<N`, `>N` and mistakes, names, resets, `tell` without a number, output that fits a pipe and output that does not | tables name their own descriptors across every reuse; both abstract modules are implemented; the server comes back, or has ended, or waits at a full user pipe that nobody takes |
| `shell` | lines of 10 kinds in 3 segments: pipes, `\|1`, `\|2`, files, built-ins, mistakes such as `b \| \| c` and `a \| \|1`; 3 process slots, output larger than a pipe, readers that stop early | every command that reads to its end has all output meant for it; nothing prints behind a prompt; no process holds an end that is not meant for it; the shell comes back |
| `http` | 2 browsers, requests in 2 parts, closes and resets | one answer for each request and nothing behind it, whole when it ends; every request ends although children hold each other's sockets; no zombies |
| `console` | 2 sessions, files of two lines and of none, output that ends in `%`, connections and browser break | `PageFaithful` (each column shows its dialogue in order, a closed response is complete), every response ends |
| `socks` | 2 processes of one address, one served, limit 0, clock to 2, 2 pieces from the client and 1 to it, half closes, closes, resets | replies fit the command, data only in time, in order and with the host asked for; a relay whose side closes ends, and unless the limit cut it or the sides acted against one another, everybody who still reads has all that was sent |
| `socks_console` | 2 sessions of `pj4` or of `console.cpp`, ports that are none, output that ends in `%`, connections and browser break | each column shows its dialogue in order whatever is split or refused; a script with `exit` ends |

Bounds. Two slots and a mailbox of one place (`npm_live`) reach a full table, a full
mailbox, slot reuse and both ends of every loop over ids; two places
(`npm_overlap`) let two texts of one sender stand in a mailbox in an order; two processes reach every pair
of critical sections and signal windows, and a third is there where somebody
sends into a slot that changes hands. Two lines of a session are needed for a
`<N` after a `>N`, three for a `|2` to come due. A pipe that holds one unit (`Capacity`, the
one piece of a FIFO) and an output of two are the smallest pipe that fills. `MaxFd`, `MaxPipes`, `MaxSegments` and
`MaxChildren` are large enough that no action of the instance is held back by
them, but for `shell`, whose three segments end a session and whose fourth pipe
waits until one is gone. `Speakers = 1`
lets one client of `npm_overlap` send a command while the other logs in, logs out,
vanishes or is signalled: every pair of texts still overlaps, since logins and
logouts are broadcasts like a `yell`. `Arrival` numbers the connections in the
order in which they come (`OneOrder`), as liveness forbids the use of symmetry;
it loses nothing, for connections are told apart by nothing else. `Slots = 3` with
pipelines that wait lets `fork` fail. The console's two sessions share the write queue; one of
them has nothing to send. The clock of `socks` passes the limit during the
request, during the relay and after it; two pieces up and one down are there for a
read of both, of one, and for data in either direction when the other ends.

Fairness. Every `FairSpec` asks only that the scheduler runs processes,
threads and children, that the kernel delivers pending signals, and that the
`io_context` runs handlers whose operation has completed. Clients owe nothing in
the servers. In `CgiConsole` the shells answer and the browser reads: the
code has no timeout, and a shell that never answers leaves the response open for
ever; likewise the proxy and the shells of `SocksConsole`. Users and browsers of
`ShellSession` and `HttpServer` owe nothing, but the programs they run end or
make progress (`Work`, `Child`). `ComesBack` of `ShellSession` has one exception,
which the code has: all process slots are taken by writers whose readers are
still to be started (shell_core.h:388), and the shell waits for ever. In `SocksServer` time, clients and hosts owe nothing; `RelayCompletes`
starts when a side has ended its sending. `EveryLineEnds` of `UserPipeFifo` and
`ComesBack` of `NpSingleProc` name what may wait for ever on a user's next line.

`CHECK_DEADLOCK FALSE` everywhere: all sessions may be over, and the
multi-process server really can stop (finding 1).

### Further instances

These configurations are kept for reproduction; each shows a property violated
when one more thing is let happen, which the passing runs leave out, or what a stronger property asks and the code does
not do. Run them
with `tlc -config <cfg> MC<module>`. Properties that are not in section 3 are
conjuncts of one that is, or stated for these instances only.

| Configuration | Violates | Because |
| --- | --- | --- |
| `NpmGhost` | `NoGhostUser` | `SIGUSR1` between `assignUser` and `signal()` (np_multi_proc.cpp:575-581) ends the process, its slot stays occupied; no command is typed in this instance, so no `tell` aborts |
| `NpmSlotReuse` | `ToldToAddressee` | a sender looks the slot up before it locks the mailbox (158-171); a text for the old user reaches the new one |
| `NpmLongNames` | `UniqueNames` | the duplicate test compares the whole name, the table keeps 63 bytes (305, 311) |
| `NpmLockLeak` | `EveryCommandEnds` | the handler writes to a broken socket while it holds the lock (152); `SIGPIPE` ends it, the lock stays taken |
| `FifoLost` | `ReceivedWhole` | `>N` sets its flag before the FIFO exists and before anything is written (np_multi_proc.cpp:409); `<N` in that window uses the pipe up and reads nothing (371, 389), where README.md:62 says that `<N` consumes what `>N` transfers |
| `FifoStranger` | `OnlyAddresseeReads` | paths are unlinked after the section that freed the slot; the slot's next user can open the old FIFO |
| `SingleMistakes` | `OwnDescriptors` | a mistaken `<N` opens `/dev/null`; the shell closes it after the first command, a numbered pipe gets the number, and `closeUserPipeResolution` (331-334) closes it again |
| `SingleBig` | `AlwaysComesBack` | `>N` with output larger than a pipe: the server waits for a writer whose reader has not typed `<N` |
| `SingleHeld` | `AlwaysComesBack` | a child closes its own client's numbered pipes only (02-rwg-server/shell_core.h:366); another client's command holds a write end open, the reader never sees the end and the server waits, which README.md:47 has as the reason to close them |
| `SingleLinger` | `ClientLearns` | children inherit all clients' sockets; a `\|1` writer of one client that waits for room in its pipe keeps the connection of another who has left open |
| `SingleSigpipe` | `StaysUp` | a reply to a reset connection raises `SIGPIPE`, which ends the server for all |
| `ConsolePercent` | `PageInOrder` | `% ` inside a command's output counts as a prompt: the next command is sent early |
| `ConsoleBuffer` | `PageInOrder` | `async_write` is given a local string (console_components.cpp:468-473): what the socket does not take at once is sent from a buffer that is gone |
| `ShellMisused` | `IntendedEnds`, `EverythingArrives` (`tlc -continue` reports both) | `\|0` makes a pipe for the segment under way, which nothing attaches any more, and a command missing in front of a segment leaves that segment's pipe: the shell keeps the ends for good. `a \| \|2 b` hands a's pipe to b, and `\| c` leaves a numbered pipe that was for this line unread |
| `ShellRace` | `GivesUpOnlyWhenFull` | `fork` fails, the handler reaps the only child, `waitpid` says `ECHILD` and the shell exits (01-npshell/shell_core.h:239-248), where the comment at 232 has it retry |
| `HttpReset` | `StaysUp` | a reset between request and `remote_endpoint()` (http_server.cpp:92) throws out of `io_context.run()`: the server ends for all |
| `HttpInherited` | `EveryRequestEnds` | a CGI program that does not end holds the socket of every browser that was connected at its `fork` (95): their answers do not end |
| `PjNoNumber` | `OthersGoOn` | `std::stoi` of a port that is no number (console_components.hpp:366) ends all sessions |
| `PjPort` | `AsksForItsPort` | a port above 65535 is cut to 16 bits: another port is asked for |
| `SocksHalfClose` | `HalfClosedServed` | end of file in one direction closes both sockets (socks_server.cpp:285-286), so the answer to a side that has only ended its sending is lost (README.md:137, "full-duplex relay"; README.md:145, "handling EOF and connection shutdown correctly") |

## 4. What is proved

For every value of the constants, from the named assumptions of the modules.
Each theorem rests on an inductive invariant, proved for the initial states and
for each action, and lifted by temporal logic.

`NpMultiProcProofs`:

* `TypeCorrect`: `Spec => []TypeOK`. Inductive with `Grounded`: a process past
  `assignUser` has a slot, a handler runs only once installed, the pid of an
  occupied slot is a process.
* `LockExcludes`: `Spec => []MutualExclusion`, deaths inside a section included.
* `RegistryAgrees`: `Spec => []RegistryConsistent`, by `RegistryInv`, which adds
  `Phases`: before `assignUser` a process has no slot, and only a process that
  passed `cleanupUser` is saying "left".
* `LockGivenBack`: `Spec => []LockIsGivenBack`. As long as no client has vanished,
  who holds the lock is alive. `AtLock` says where in the code a holder is, and
  `Unknown` that nobody signals a process before `assignUser` has entered it, so
  that a `SIGUSR1` that ends a process finds it between `assignUser` and
  `signal()`, outside every critical section. `NpmLockLeak` shows what a client
  that vanishes does. `RegistryIsSafe`, `Spec => []RegistrySafe`, is the three
  together with `GhostsAreKnown`: which dead processes the table still lists.
* `NamesStayUnique` and `RegistryImplementsDirectory`, for nicknames that
  `copyString` keeps whole (`NamesFit`): unique nicknames, and every step maps to
  a step of `UserDirectory` or a stutter.
* `WakeupsNotLost`: `Spec => []NoLostWakeup`. As long as no client has vanished,
  whoever has something in his mailbox has a signal pending, a handler that will
  flush, or a sender that is about to signal.
* `TextsInOrderOnce`: `Spec => []InOrderOnce`, with overlapping clients that
  vanish. `OrderInv` says of every sender p and slot s the number `Unsent(p, s)`
  of the next text that p can post there: it never falls, what lies in a mailbox
  or was written to a client is below it (`Sent`), what a client saw comes before
  what its slot still holds (`Queued`).
* `PoliteAreWellServed`: `Spec => []WellServed` for `Polite` clients, who wait for
  a quiet server and do not vanish. `ServedInv`: one process is at work at a time
  and signals go to idle ones (`OneAtWork`), so that between a look-up and the
  delivery it leads to the registry does not change (`Addressed`), and that no
  handler runs in a process that is in a section of its own. `NpmGhost`,
  `NpmSlotReuse` and `npm_self_deadlock` show that none of the three parts of
  `WellServed` holds for clients that overlap. An abort by `tell` is a step of these
  clients too, and its slot stays listed: `NoGhostUser` excepts it.
* `PoliteShareOneHistory`: `Spec => []SameHistory` for `Polite` clients and
  mailboxes of at least one place. `HistoryInv` is about `Whole(p)`: the
  broadcasts that p's client saw, those in its mailbox, and the one that is on its
  way to it. It begins with p's own login, and of two users the later one's is a
  suffix of the other's, at every step of a broadcast; when the server is quiet
  nothing is on its way and it is what the clients saw. `Room`: the mailboxes a
  broadcast has still to reach are empty, so that no text is dropped, which needs
  the one place. `Broadcasts` is a recursive function of the text's sequence; what
  the proof needs of it is shown by induction over a set of numbers, as in
  `CgiConsoleProofs`.

`UserPipeFifoProofs`: `TypeCorrect` (with `LineShape`: a line under way has its
slot and its numbers), `FlagsBetweenUsers`, `OpenNeverWaits` (the session's own
`holdFd` is the reader, and a path at which it is not found names no file that
the open could wait for), `UsedUpOnce` (two claims of one transfer are one
claim, since the flag is cleared in the section that tests it and transfers are
made once), `FlagsImplementUserPipes`. `PoliteTransfersAreClean`: `Spec =>
[]CleanTransfers` when sessions do not overlap, for any number of users and
lines. `Clean`: table, files and data agree but for what the one session at work
has under way: every flag has its file, except at the path whose flag it has
changed and whose file it has yet to change (`Behind`), and every flag's output
is in its file or about to be written (`Pending`), but for FIFOs that could not be made (`unmade`) or whose sender has
aborted. `FifoLost` and `FifoStranger`
show what overlapping sessions do.

`NpSingleProcProofs`: `UserPipesBetweenUsers`, `ClientsImplementDirectory`,
`MapImplementsUserPipes`, for tables and steps of the select loop, and
`SingleProcTypes`, `Spec => []TypeOK`, hold for all clients. What follows is
about the descriptor table.

* `DescriptorsAreOwn`: `Spec => []OwnDescriptors`, under `ClosesOnce`: if clients
  make mistakes with `<N`, their lines have one command. A `<N` that finds no pipe
  opens `/dev/null` and closes it twice, before the second command and at the end
  of the line; `SingleMistakes` shows what happens when the line has more. `Desc`:
  every descriptor has one keeper, which is a table or the line under way (`Tables`,
  `LineHolds`), so that no number can be closed by one and opened again for another.
* `DescriptorsDoNotLeak`, `Spec => []NothingLeaks`, and `InputsAreMeant`, `Spec =>
  []InputIsMeantForIt`, under the same assumption. `Accounted`: every open
  descriptor is the listener's, in a table, or held by the line; and what the line
  holds was made for the command that will read it (`LineMeant`).
* `DelaysAreAhead`: `Spec => []DelaysLieAhead`, with `NoneToSelf`, no `|0`, whose
  pipe is for a segment whose turn is over.
* `EndsAreInRightHands`: `Spec => []EndsInRightHands`, for any number of clients,
  under `ClosesOnce` and `NoneToSelf`. A command holds no end of a user pipe and none of its own
  client's pipes but those that it uses. A child closes its own client's numbered pipes only, so it does inherit
  the ends of the others': that is the one exception that `OnlyIntendedEnds` has, and
  `SingleHeld` shows the server hang for it.

`ShellSessionProofs`: `TypeCorrect`, with `UnderWay` (the line's commands and
index fit where the shell is). `EndsAreIntended`: `Spec => []IntendedEnds` for
`Tidy` lines, those without `|0` and without a missing command at the start of a
segment; `ShellMisused` shows that neither can be left out. By four facts: `Apart` (a pipe is in
`numberedPipes` once and is neither the input of the next command nor the pipe
about to be used), `Owns` (which ends the shell has open, pipe by pipe),
`ChildEnds`, and `Ahead` (no pipe waits for a segment whose turn is over, the only
one that needs `Tidy`). `NothingBehindPrompt`: `Spec => []PromptIsLast`, for any
lines, by `Awaited`: a command that prints is one that the line waits for.
`EverythingIsRead`: `Spec => []EverythingArrives` for `Orderly` lines: `Tidy` ones
in which a command is missing only between ordinary pipes or at the end of the
line. `ShellMisused` shows that it fails for a line with a gap elsewhere; `|0`, whose
pipe nobody reads, is excluded because the proof needs `Ahead`. `Feeds(q, p)` says
that pipe q leads to the command at place p, through a child that reads it,
`numberedPipes`, the shell's `inFd`, or the plan of the command about to be forked;
`Front` is the place of the next command. The invariant `Streams` says that
pipes and places lead to each other one to one (`OneToOne`), that who writes into
a pipe is aimed where it leads and the other way round (`AimedWell`), that what
was sent is what was read and what the pipe holds (`NothingLost`), that nothing
more comes to a command that has ended at its input's end (`Settled`), and that the
places beyond the front are untouched but for what a pipe already carries to them
(`Untouched`). A step of the shell only changes in whose hands a pipe is; that a
pipe without readers is one that leads nowhere follows from `Owns` and `ChildEnds`.

`HttpServerProofs`: `TypeCorrect` and `AnswersAreWhole`, by `Story`, which says
for every place of a session and of its child what is on the wire.

`SocksServerProofs`: `TypeCorrect`; `RepliesFit` by `Phases`, which says of
every `pc` what the client has been told and that no thread runs before the last
grant; `ServedAsAsked`, `Spec => []ClientServed`, by `Flows`: what arrived, what
is between read and write and what is on the wire make up what was sent, nothing
is from the future, and what is about to be written was sent before the deadline
because the limit is checked again after the read. That the parts make up the whole
holds into an open socket of a receiver who has not closed; what a reset or a close has
destroyed (`r` in `Flow`) lies at the end, and in every case what was written begins what
was sent. It holds however the sides close and reset, for any limit and number of
pieces.

`SocksConsoleProofs`: `TypeCorrect`; `ColumnsShowTheDialogue`, `Spec =>
[]PageInOrder`, under `OutputsArePlain`: no shell prints a prompt within an
output (the instance of `socks_console` satisfies it; `ConsolePercent` shows
for the other console, which looks for the same prompt, that it is needed). By
`Flow`, one statement for each stage of a session: `Silent` until the
connection, `Asking` until the reply has been read (the shell's greeting may
already lie behind it), `Talking` (column and wire make up what the shell
printed and read; a command is on its way only when nothing is on the way back;
a prompt is the end of what is kept and unread, so that the one that is found
leaves nothing behind), `Over`.

`CgiConsoleProofs`: `TypeCorrect`, by `Counted`: the counter of active sessions is
the number of those that have started and not finished, so that it cannot pass
zero. `PagesAreFaithful`: `Spec => []PageFaithful`, under `OutputsArePlain` (no
shell prints a prompt within an output) and `SendsWhole` (a socket takes a command
at once): `ConsolePercent` and `ConsoleBuffer` show that each is needed. `Flowing`
has, as for the other console, one statement per stage of a session: what its
column shows, queue included, and what is on the wire make up what passed at the
shell's end, and a response closes only when the queue is empty and every session
has finished, those that end within the loop that starts them included. `Column`
and `Started` are recursive functions; facts about them are proved by induction
over a set of numbers (`SetInduction`: the least number outside it, if there is
one), since the library's induction theorems, which have an operator as a
parameter, cannot be used here.

Every invariant and every action property that a run checks is the subject of a
theorem. Only model-checked is liveness under fairness, which is out of the
prover's reach: `ComesToRest`, `EveryLineEnds`, `ComesBack`, `ClosedForGood`,
`EveryRequestEnds`, `EveryChildReaped`, `ResponseEnds`, `RelayCompletes` and
`DialogueEnds`.

A theorem that needs an assumption on the constants (`Polite`, `ClosesOnce`,
`NoneToSelf`, `Tidy`, `Orderly`, `OutputsArePlain`...) names it in its `ASSUME`; the
assumption is defined, with the reason for it, in the `*Proofs` module.

## 5. Findings

1. `SIGUSR1` inside a critical section: the handler waits for the lock of its own process (np_multi_proc.cpp:149), where README.md:68 has the signal trigger message delivery. Run `npm_self_deadlock`.

The further instances of section 3 show the others, and the section on `HttpServer`
the disagreement between the program and its test on statuses.

## 6. Not modelled

`console.cgi` as a program of its own (it runs the sessions that `CgiConsole`
has, with `std::cout` for the queue); the accept loop of `np_simple`, which forks
a `ShellSession` per connection; the commands `number`, `removetag` and so on,
which are filters; redirection to files in the RWG servers' copy of the shell;
the values that `setenv` and `printenv` set and print; parsing of lines, queries
and requests, HTML escaping; matching of firewall wildcards; log lines. Errors
of `shmget` and `pipe`, which end the program at once, are left out, and so is a
client that does not read, which blocks whoever writes to it. Descriptor limits
and memory are not modelled: `holdFd` of a `>N` and the sessions in
`CgiHttpSession::remotes_` are never given back.

Hazards that no property of a passing run covers are in `PROJECT.json` with the
reason: for most of them the code does what the hazard says, and a further instance of
section 3 shows it.

## 7. What could follow

1. Proofs: that `Settled` of `ShellSession` holds for lines with `|0`.
2. `tell`, `yell` and broadcasts of `NpSingleProc`, to compare the two servers'
   texts against one abstract chat.
