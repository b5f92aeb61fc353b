# A TLA+ model of waterfall

`waterfall` (under `src/waterfall`) is a tool that talks to an Android device or
emulator in place of adb: a gRPC server on the device, a client library and
command line on the host, and between them a forwarder that carries the gRPC
connection over a qemu pipe, a usb accessory or a socket. These modules model the
parts of it where bytes, half-closes and sessions cross threads and machines, and
check and prove what their users rely on.

## The system

| Part | Source (under `src/waterfall`) | State it keeps | Modules |
|---|---|---|---|
| qemu pipe connection | `golang/net/qemu/qemu.go` (`Conn`) | leftover count, closed flags, three locks | `QemuConn`, `QemuConnProofs`, `QemuConnRefinement` |
| qemu control socket | `golang/net/qemu/control.go` | map of virtual fds, control connection | `ControlSocket`, `ControlSocketProofs` |
| stream reader and writer | `golang/stream/stream.go` | two channels, the rest of the last message | `StreamReader`, `StreamReaderProofs` |
| forwarder | `golang/forward/forward.go`, `stream.go` | two copiers per side, wait group, error channel | `Tunnel` |
| port forwarding | `golang/forward/ports/ports.go` | session map, listeners, accept loops | `PortForwarder`, `PortForwarderProofs` |
| reverse forwarding | `golang/forward/ports/ports.go`, `golang/server/server.go` | session maps of both sides, listeners, connections | `ReverseForward` |
| exec | `golang/server/server.go`, `golang/client/client.go`, the Java client | process, two output channels, stdin | `ExecSession` |
| push and pull | the same, `golang/stream/tar.go` | two pipes between four workers | `Transfer` |
| install | `golang/server/server.go`, `golang/client/client.go` | temporary file, the package manager's session | `Install`, `InstallProofs` |
| usb service | `java/com/google/waterfall/usb/UsbService.java`, `UsbActivity.java` | static thread pool and flags, descriptor, receivers | `UsbService` |

How they interact: a client's rpc runs over gRPC, gRPC over a connection that the
forwarder joins (`Forward`) to a `Conn` of the pipe, and the server accepts the
other end. A forwarded port is a second layer: `Forward` joins an application's
socket to an rpc through `stream.ReadWriteCloser`, at the client and at the
server. `PortForwarder` starts and stops such tunnels; reverse forwarding adds a
session protocol in front of them. In an emulator that shares its pipe the server
listens on a `ControlSocket`; on a phone `UsbService` copies between the accessory
and the server. Exec, push, pull and install are rpcs of the server. `PROJECT.json`
lists every part under `components`, modelled or not, and the places where the
code is hard to test under `hazards`.

## Modules

**`ByteStream`** is the promise: in each direction bytes arrive in order, each
once; end of file is told only after the writer ended and everything arrived. Put
and Get move one or more bytes. A broken stream may deliver less.

**`QemuConn`** has both ends of one pipe. What an end has sent is a sequence of
cells: a size, or a payload byte, each annotated with the number of bytes still to
come in its message and its offset in the stream. `taken` counts the cells the peer has
read, so the bytes in flight are what lies between. `left`, `closedReads` and
`closedWrites` are the fields of `Conn`; `rd` and `wr` say where the
Read and the Write that hold `readLock` and `writeLock` are, `cl` where `Close`
is (`closed` is set once it is not "open"), `down` which underlying connection is
closed. `ReadStart` is the entry of `read` with its choice between leftovers and a
new size; `ReadSize`, `ReadByte`, `ReadEof` and `ReadFail` are its steps;
`WriteStart`, `WriteByte` and `WriteFail` are those of `Write`; `CloseWrite` and
`SendClose` send the end mark; the `Close*` actions are `Close` and `closeConn`.

**`StreamReader`** has one gRPC stream, the goroutine `startReads`, its two
channels and the Read in progress. A message is a number of bytes. `Write`,
`CloseWrite` and `Break` are the stream's other end and gRPC itself; the `Recv*`,
`PutMsg` and `CloseChan` actions are `startReads`; the `Read*` actions the steps
of `Reader.Read` at which another goroutine can act.

**`Tunnel`** has `Forward` at both sides of one rpc: per side the application,
the copier towards the rpc (`up`), the copier from it (`down`), and the main
goroutine in its `select` and deferred closes. Data are numbered chunks, so a
stream is a few counters; that it may be taken for such a queue is what
`StreamReader` shows. The write to an application returns when that reads enough,
which it may never do. The server's return ends the rpc.

**`ReverseForward`** has the sessions of one client and one server. A session is
the s-th one started. On the client: the API call that holds
`reverseSessionsMutex`, the map, the cancelled contexts and the goroutine of each
session. In between: `StopReverseForward` rpcs (which may be served after their
sender gave up) and the messages of `StartReverseForward`. On the server: the
handler of each session, the map, listeners and connections, and the
`ReverseForward` rpc sent for a connection. A port that the server picks has a
key of its own, and a stop never names it, as in the code. What a rpc does with
its connection is `Tunnel`'s business: here it ends at any time.

**`PortForwarder`** has the sessions of `ForwardPort`. `call` is the rpc that
holds `sessionsMutex`, cut where its goroutines can be seen between two steps;
`lis`, `ctx` and `loop` are the listener, the context and the accept loop of a
session, with its deferred calls in order; `conn` and `rpc` are the connections
made to it and their Forward rpcs, which `makeForwarder` may leave open. `List`
takes no lock and is an operator on the state. What a Forward rpc does with its
connection is `Tunnel`; all that is left of it here is whether a copier is in a
Write to the application, where a cancelled rpc does not reach it.

**`ControlSocket`** has the guest's listener: `Accept` with the opening of the
control connection, `controlSocketHandler`, a goroutine `Open` per connection,
the users of connections, and `Close` of the listener. A connection is wrapped
twice by the code, so its Close runs twice and reports twice, although the comment
on Close (control.go:77) speaks of a close event. `conn[c]` is the stage of that
Close, a step for each lock it waits for, and who runs it; `on[p]` what process p is
closing; `reading` and `writing` the connections whose locks a user holds, and
`teller` who holds the writeLock of the control connection. `hcl` are the closes the host asked for, `missed` those handled before the connection was
stored, `late` the connections stored while the Close of the control connection
went through the map.

**`ExecSession`** has one Exec rpc: the process, the two copiers with a channel of
one chunk each, the merger, `eg.Wait`, `cmd.Wait` and the exit code; the stdin
goroutines of the server (`feeder`) and of the Go client (`outer` is `cancelCopy`
and the CloseSend after it, `inner` the copy it may leave behind); the receiving
loops of both clients. `-1` is a process that a signal ended, and `Mod` the width
of `ExitCode`.

**`Transfer`** has push and pull as one line of four workers, archiver, sender,
receiver and unarchiver, joined by two pipes and an rpc; which of them are at
the client depends on the direction. The source is a file, a byte string or a
directory (`size`). An archive is a sequence of cells (entries, a
footer, padding of the Java archiver); a cut entry has lost its end. The steps
that differ between Go and Java (who closes a pipe, when the result is set, what
an exception does) are separate actions.

**`Install`** has the handler, the client and the package manager. The api level
selects temporary file or session and `pm` or `cmd`; a command prints Success if
and only if it had its effect, and fails with one of `FailCodes`. `install-write`
is given the size of the package (`-S`) and is taken to fail on a shorter payload.
Once the rpc is broken its context is done and a command does not run, the abandon
included. An abandon that runs may fail, which the code ignores: the session is then
"kept".

**`UsbService`** has the main thread's callbacks, a fixed pool, and the tasks of an
instance: `watch`, `drive` and the copiers `r` and `w`. The pool, `TASK_QUEUE` and
two flags are static, so the tasks of a destroyed instance live beside those of
the next one. `onDestroy` is two steps, before and after the descriptor is closed,
since the driver runs meanwhile. An interrupt ends a wait and not a read.

`MCQemuConn`, `MCTunnel` and `MCExecSession` give names to constants that are
functions or negative numbers; the other modules are run as they are.

## Runs

| Run | Shows |
|---|---|
| `qemu_conn` | EOF means the end and each direction refines `ByteStream`, which a slip in the framing, the order or the end marks would break, pipe lost at any time; when both ends call Close both calls return, except in `Wedged` |
| `stream_reader` | no error before the last byte, refinement of `ByteStream`; everything is delivered and the end reported, with a full channel and small slices |
| `tunnel` | no error without a cause, refinement of `ByteStream` end to end, the end of one application's stream reaches the other, and once both have stopped writing both Forwards return, except in `Stuck` and `Unread` |
| `tunnel_writes` | violated: after an orderly end a copier and Forward both send CLOSE, at the same time |
| `reverse_forward` | the maps of client and server name live sessions and live sessions are in them, a stream is joined to a connection of its own session, calls return and sessions wind up |
| `reverse_forward_stop` | violated: a stop that overtakes the start leaves a listener |
| `port_forwarder` | no listener outlives its session, `List` is true, a session that is stopped or rebound ends with all its connections whose application reads |
| `control_socket` | a close is reported by one Close only, once the fd is free, and in full; nothing is left open behind the control connection; connections are closed when asked and Close of the listener returns, unless the host leaves a Read, a Write or an event unserved |
| `exec_session` | success means exit code and all output, stdin ends after its last byte, CloseSend meets no Send while the server runs, handler and call end |
| `transfer` | success means that everything was unpacked, failure that there was a fault, caller and handler return |
| `install` | the result is true, only whole packages are installed, a session is committed or its abandon run, the call returns |
| `usb_service` | descriptors are closed, no notification is lost, a detach stops the service, copiers get a thread |

The type invariants, and `InOrder` and `FramingInv` of the two stream modules,
are not in the configurations of the modules with proofs: they are conjuncts of
the inductive invariants proved below. Definitions marked "Mutant of" are not part
of the model: each is a plausible slip in one definition, which a property of a run
must notice.

The two violated properties state what comments in the repository say; `findings`
in `PROJECT.json` quotes them and gives the lines that disagree. `StopStops` is
about a stop that reaches the server too early. `WritesAlone` is what
`ReadWriteCloser` asks of its users: a copier calls `wg.Done()` before its deferred
`CloseWrite`, so Forward's deferred `x.Close()` can meet it.

### Exceptions

Some properties hold only with an exception. Each is part of the property, is
named there, and is something the code does:

* `Wedged` (`QemuConn`): both ends have stopped reading while each is inside a
  write, so neither Close gets `writeLock`.
* `Stuck` and `Unread` (`Tunnel`): a copier sends to a side that no longer
  receives; a copier is in a write to an application that does not read.
* `LiveIsMapped` (`ReverseForward`): both sides delete by address, without looking
  whose entry it is. A handler whose Send failed may delete that of another session
  of the address, and a goroutine that ends that of a newer session; such a session
  goes on, out of reach of a stop.
* `OwnConnection` (`ReverseForward`): a stream that finds its session stopped may
  be joined to the connection of the same number of the session that has the
  address now; sessions are looked up by address.
* `ListIsTrue` (`PortForwarder`): a session whose accept loop gave up stays in the
  map. `SessionWindsUp`: a connection whose application does not read what Forward
  writes to it stays.
* `missed` and `late` (`ControlSocket`): a connection is stored only when it is
  open, so a close request before that is dropped, and the end of the control
  connection does not see it.
* `HeldUp` (`ControlSocket`): a Close waits for the lock that a Read or a Write on the
  connection holds until the host serves it. If the handler or the Close of the
  listener is in that Close, all others wait with it. A close event that the host
  does not read holds up the handler in the same way.
* `CopierStuck` and `PipeHeld` (`ExecSession`): the merger returns after a failed Send
  and a copier stays on its full channel, so `eg.Wait` does not return; a child keeps
  an output of the process open. `CloseSendAlone` holds while the server runs: once
  the rpc is over CloseSend may meet a Send of the copy that `cancelCopy` leaves behind.
* `ArchiverStuck`, `ResultForgotten` and `Abandoned` (`Transfer`): a Go push whose
  Send failed waits for an archiver nobody reads from; an unchecked exception in a
  Java pull sets no result; a client that gives up without cancelling its rpc
  leaves the handler waiting. `SuccessIsComplete` excepts a Java pull of an archive
  the server could not finish: the result is set at the footer.
* `zeroFail` (`Install`): a command that failed with exit code 0, as the old `pm`
  does, is taken for one that succeeded. `SessionSettled` also excepts a broken
  rpc, whose context the abandon command runs with.
* `late` and `ThreadKept` (`UsbService`): `accessoryFd` is set after `tearDown`
  looked at it; a copier that reads from the socket, which nobody closes, keeps
  its thread after its instance was destroyed.

### Bounds

* `QemuConn`: one end writes up to 3 bytes, in messages of 1 and 3, read with
  slices of 1 and 2 over a pipe that holds 2 cells: a message is split twice, fits
  exactly or leaves room, leftovers meet a following message and a mark, and
  writers block. `Garbage` is what payload could be taken for as a size, were the
  framing lost. The other end sends only its end mark: the two directions share no
  more than the closing calls. As `Wedged` needs writes at both ends it is not
  reached in this run.
* `StreamReader`: up to 3 messages of 0, 1 or 3 bytes and a channel of 2 in place
  of 256, so that it fills; slices of 1, 2 and 4, shorter and longer than a
  message.
* `Tunnel`: one chunk per side; a window of 1 at the client, where a sender can get
  `Stuck`, and of 2 at the server, where a CLOSE follows a chunk that is not yet
  taken.
* `ReverseForward`: two sessions, an old and a new one, between which the races
  of a rebind are; one connection each, as connection numbers restart at 1. The
  violated run needs one session only.
* `PortForwarder`: two sources and two sessions, which may have the same source,
  one connection each.
* `ControlSocket`: two connections, one whose user reads and one whose user writes
  and closes it, which with the handler and the listener's Close is every pair of
  closers, and each lock held once. Virtual fds are not used again: if the host
  used one again after the first of the two close events, the second `Delete` and
  event would be about the new connection.
* `ExecSession`: two chunks on stdout, which fill its channel, and one on stderr;
  one chunk of stdin; a window of 1. The exit code is -1, the only one that is
  converted; no step depends on it. `Mod` is 2^16 in place of 2^32, beyond TLC's
  integers.
* `Transfer`: a source of 1 or 3 entries and a window of 2: a stream can be cut at the
  start, between entries, inside one and before the footer.
* `Install`: sdk versions 0 (unreadable), 19, 21, 24 and 25, on both sides of each
  threshold in the code; a payload of 3 messages; failures with exit code 0 and 1.
* `UsbService`: two instances and one attachment of an accessory. With two
  attachments the state space is six times as large.

Deadlock is not checked where the program may rightly come to rest (callers stop
calling, connections end); the liveness properties say what must not stay undone.

### Fairness

Weak fairness of goroutines and threads that the code starts itself and that need
nothing from outside: copiers, receivers, handlers, workers, deferred closes. The
Go and Java schedulers give that. Of who is outside, nothing is assumed but what is
listed here: callers need not call, applications need not write or read, the host of
the control socket need not send or read, the process that Exec runs need not read,
write or end, nobody need connect to a listener and the user who is asked for
permission need not answer. Beyond that:

* `QemuConn` and `StreamReader`: the user of a connection goes on reading until an
  error, which is what `io.Copy` and gRPC's transport do.
* `PortForwarder`: an Accept on a closed listener returns. `ForwardCancelled` is
  strongly fair: a copier alternates between receiving and writing, and on a
  cancelled rpc it has only what was received before to write.
* `ReverseForward`: an rpc that was sent is served or abandoned.
* `ExecSession`: a process that is killed ends. Its children need not.
* `Install`: a command of the package manager ends. `exec.CommandContext` only ends it
  when the rpc does.
* `Transfer`: files can be read and written, if with errors.
* `ControlSocket`: strong fairness for who waits for a lock, since a Go mutex that
  has starved a waiter is handed to it. A Write on the control connection returns
  when the host has hung up.
* `reverse_forward` and `usb_service` assume less than fairness of each process:
  while one of them can take a step, some step is taken.

## Proofs

For every value of the constants, from the `ASSUME` of each module. Every `IInv`
contains the module's `TypeOK`.

**`QemuConnProofs`**: `TypeCorrect` (so no subtraction on `left` goes below zero),
`DeliveryInOrder`, `FramingAgrees` and `EofIsEnd`, for any number and size of
writes and slices. `IInv` is `TypeOK`, `InOrder`, `FramingInv` and `MarkInv`.
`InOrder` alone is not inductive: that a byte is the next one follows from where
the last cell taken stands in its message (`ReaderOK`), and that from consecutive
cells forming whole messages (`Linked`), which only holds as the holder of
`writeLock` alone leaves a message unfinished (`WriterOK`). `EofMeansEnd` needs
that a mark is the last cell an end sends (`MarkOK`).

**`QemuConnRefinement`**: `ConnIsByteStream`, that is `Spec => StreamSpec`. The
mapping takes `written` to the offset of the last cell sent. Every step maps to a
step of `ByteStream` or a stutter, given `IInv` and that no cell's offset exceeds
that of the last one sent (`Offs`).

The assumptions are that writes and slices are not empty. `Conn` misbehaves without
them (an empty Write is an end mark; a Read into an empty slice takes payload for a
size); `io.Copy` and gRPC's transport, which use it, do neither.

**`StreamReaderProofs`**: `BytesInOrder`, `ErrorsComeLast` and the refinement
`ReaderIsByteStream`, for any messages, slices and capacity of the channel. `IInv`
is `TypeOK`, `ReaderInv`, `InOrder` and `Ends`. `ReaderInv` ties the counts of
messages received, put and taken to what is left of the last one; `Ends`, that no
message ends after the last, is what makes an error that comes after the last
message come after the last byte.

**`PortForwarderProofs`**: `NoListenerLeaks` and `ListedListen`, for any number of
sources, sessions and connections. `IInv` adds to the two properties `MapInv` (an
entry of the map is a session that was started for that source) and `CallInv` (what
the call that holds the mutex has taken out of the map and not yet closed), since
between the two steps of a call the map and the listeners do not agree.

**`InstallProofs`**: `ResultTrue`, `OnlyWhole` and `Settles`, for any api levels,
exit codes and payload. `IInv` is `TypeOK`, `ClientInv` and `HandlerInv`: what the
client has sent bounds what the handler consumed, and each place of the handler
fixes which of file, session and package exist.

**`ControlSocketProofs`**: `HostTold` and `RangeClosesAll`, for any number of
connections and any users. `IInv` adds to `TypeOK` and `NoneLeftBehind` the conjuncts
`OpenInv` (what an Open has done at each place), `CtlInv` (who closes the control
connection), `CloseInv` (while the range over the map runs every entry is still to be
visited, late or just being closed) and `TellInv`: the stage that the Close of a
connection has come to fixes how many events it has sent (`Told`), and from the
first of them on the fd is not in the map. `CloseTold` follows from `TellInv`.

In each proof there is a lemma per action, or per group of actions, under which
each conjunct that the action can disturb is a step.

Only model-checked: liveness everywhere (the prover does not handle fairness), and
all of `Tunnel`, `ReverseForward`, `ExecSession`, `Transfer` and `UsbService`.

## Not modelled

* Set-up of qemu connections (`ConnBuilder`, `PipeConnBuilder`, `Pipe.Accept`,
  `withTimeout`): what it establishes is the initial state of `QemuConn`; its
  retries depend on how the emulator's driver and snapshots answer. Its races are
  on the list of hazards.
* `mux` and `forkfd`: a listener that hands on grpc streams; what could go wrong
  lies in how `grpc.Server.Stop` treats running handlers.
* `bootstrap`, the forwarder and server binaries, `aoa`, the adb wrapper: flags,
  sequences of commands and of usb transfers, without state of their own.
* The command line client and `ParseAddr`: parsing of strings. The models have
  its outcomes: addresses that parse, malformed ones, unknown kinds.
* Wrappers of Android classes, generated code, constants.
* In `ControlSocket`, virtual fds that the host uses again; in `UsbService`, the
  death of the process and the exception for an unknown action.

Payload contents, log messages and wording of errors are left out everywhere. gRPC,
the kernel's sockets, the emulator's pipe and the package manager are modelled by
what the code sees of them: order within a stream, loss of a connection,
cancellation that arrives late, output and exit codes. Data races on Go maps
(`ports.go` in `List` and in the deferred stop) are left to the run-time; the models
take one map access as one step.
