------------------------------ MODULE Transfer ------------------------------
(***************************************************************************)
(* A Push or Pull rpc between WaterfallServer (server/server.go) and the   *)
(* Go client (client/client.go) or the Java client (WaterfallClient.java). *)
(* Four workers form a line:                                               *)
(*                                                                         *)
(*   tar --pipe A--> sender --grpc stream--> receiver --pipe B--> untar    *)
(*                                                                         *)
(* with tar and sender at the client for a push and at the server for a    *)
(* pull.  An archive is a sequence of cells: its entries, a footer, and    *)
(* for the Java archiver padding; a cut entry has lost its end.  A pipe    *)
(* holds one cell and its writer waits until the cell is taken.            *)
(***************************************************************************)
EXTENDS Naturals, Sequences

CONSTANTS
    Modes, Clients,     \* subsets of {"push", "pull"} and {"go", "java"}
    N,                  \* entries of a source that is a directory
    Window              \* messages that gRPC's flow control lets wait

ASSUME TransferAssumption ==
    /\ Modes \subseteq {"push", "pull"} /\ Clients \subseteq {"go", "java"}
    /\ N \in Nat \ {0} /\ Window \in Nat \ {0}

VARIABLES
    mode, kind,
    bytes,              \* pushBytes, PullBytes and pullFile: one file
    size,               \* entries of the source
    tar, made, terr,    \* the archiver, entries it has written, its error
    slotA, wA, rA,      \* pipe A: its cell, closed by its writer, its reader
    snd, held,          \* the sender and the cell it is to send
    net, half, rpc,     \* messages in flight, half-close, "broken" rpc
    rcv,                \* the receiver
    slotB, wB, rB,      \* pipe B
    unt, done, cut,     \* the unarchiver, entries unpacked, a cut one is open
    reply, status,      \* what the server sent, and what its handler returned
    res,                \* the client's result
    fault               \* the rpc broke, or a file could not be read or written

tarVars == <<tar, made, terr>>
pipeA == <<slotA, wA, rA>>
sndVars == <<snd, held>>
wire == <<net, half, rpc>>
pipeB == <<slotB, wB, rB>>
untVars == <<unt, done, cut>>
srvVars == <<reply, status>>
fixed == <<mode, kind, bytes, size>>
vars == <<fixed, tarVars, pipeA, sndVars, wire, rcv, pipeB, untVars, srvVars, res, fault>>

Entry(i) == <<"entry", i>>
Cut == <<"cut", 0>>
Foot == <<"foot", 0>>
Pad == <<"pad", 0>>
None == <<"none", 0>>

Push(k) == mode = "push" /\ kind = k
Pull(k) == mode = "pull" /\ kind = k
Over == rpc = "broken" \/ status # "none"
\* What the handler returned reaches the client unless the rpc broke first.
Told(s) == rpc = "open" /\ status = s
CanSend == ~Over /\ Len(net) < Window
\* A SettableFuture keeps its first value.
Set(r) == res' = IF res = "none" THEN r ELSE res

Init ==
    /\ mode \in Modes /\ kind \in Clients /\ bytes \in BOOLEAN
    \* A file, or a directory: TarBytes and tarFile make one entry.
    /\ size \in (IF mode = "push" /\ bytes THEN {1} ELSE {1, N})
    /\ tar = (IF mode = "push" THEN "walk" ELSE "stat") /\ made = 0 /\ terr = FALSE
    /\ slotA = None /\ wA = FALSE /\ rA = FALSE
    /\ snd = (IF mode = "push" /\ kind = "java" THEN "start" ELSE "read") /\ held = None
    /\ net = <<>> /\ half = FALSE /\ rpc = "open"
    /\ rcv = (IF mode = "push" THEN "first" ELSE "recv")
    /\ slotB = None /\ wB = FALSE /\ rB = FALSE
    /\ unt = (IF mode = "push" THEN "off" ELSE "read") /\ done = 0 /\ cut = FALSE
    /\ reply = "none" /\ status = "none" /\ res = "none" /\ fault = FALSE

\* The connection goes, or the context of the call is cancelled.
Break ==
    /\ ~Over
    /\ rpc' = "broken" /\ fault' = TRUE
    /\ UNCHANGED <<fixed, tarVars, pipeA, sndVars, net, half, rcv, pipeB, untVars, srvVars, res>>
-----------------------------------------------------------------------------
(* The archiver: stream.Tar in Go, Tar.tar in Java.                        *)

TarRest == UNCHANGED <<fixed, sndVars, wire, rcv, pipeB, untVars>>

\* The server's Pull looks for the source first.
PullStat ==
    /\ tar = "stat"
    /\ \/ tar' = "walk" /\ UNCHANGED <<status, fault>>
       \/ tar' = "done" /\ status' = "error" /\ fault' = TRUE
    /\ TarRest /\ UNCHANGED <<made, terr, pipeA, reply, res>>

TarEntry ==
    /\ tar = "walk" /\ made < size /\ slotA = None /\ ~rA
    /\ slotA' = Entry(made + 1) /\ made' = made + 1
    /\ TarRest /\ UNCHANGED <<tar, terr, wA, rA, srvVars, res, fault>>

\* The walk fails between two entries: Go's deferred tw.Close still writes the
\* footer, unless the source itself was not found; Java leaves it out.
TarFailBetween ==
    /\ tar = "walk" /\ slotA = None
    /\ terr' = TRUE /\ fault' = TRUE
    /\ \/ ~Push("java") /\ tar' = "foot"
       \/ (Push("java") \/ made = 0) /\ tar' = "close"
    /\ TarRest /\ UNCHANGED <<made, pipeA, srvVars, res>>

\* A file cannot be read to the end its header announced.
TarFailWithin ==
    /\ tar = "walk" /\ made < size /\ slotA = None /\ ~rA
    /\ slotA' = Cut
    /\ terr' = TRUE /\ fault' = TRUE /\ tar' = "close"
    /\ TarRest /\ UNCHANGED <<made, wA, rA, srvVars, res>>

TarFoot ==
    /\ (tar = "walk" /\ made = size) \/ tar = "foot"
    /\ slotA = None /\ ~rA
    /\ slotA' = Foot
    /\ tar' = IF Push("java") THEN "pad" ELSE "close"
    /\ TarRest /\ UNCHANGED <<made, terr, wA, rA, srvVars, res, fault>>

\* Tar.tar's finish fills the last record, if it is not full.
TarPad ==
    /\ tar = "pad" /\ slotA = None /\ ~rA
    /\ slotA' \in {None, Pad}
    /\ tar' = "close"
    /\ TarRest /\ UNCHANGED <<made, terr, wA, rA, srvVars, res, fault>>

\* The reader of pipe A has closed it: the write fails.  The error of the
\* deferred tw.Close is not looked at.
TarRefused ==
    /\ rA /\ tar \in {"walk", "foot", "pad"}
    /\ slotA' = None
    /\ terr' = (terr \/ slotA # None \/ made < size \/ Push("java"))
    /\ tar' = "close"
    /\ TarRest /\ UNCHANGED <<made, wA, rA, srvVars, res, fault>>

\* The archiver's end of the pipe is closed, whatever its error; Java sets
\* the error first.
TarClose ==
    /\ tar = "close" /\ (slotA = None \/ rA)
    /\ tar' = "done" /\ wA' = TRUE
    /\ IF Push("java") /\ terr THEN Set("err") ELSE UNCHANGED res
    /\ TarRest /\ UNCHANGED <<made, terr, slotA, rA, srvVars, fault>>

Tar ==
    \/ PullStat \/ TarEntry \/ TarFailBetween \/ TarFailWithin
    \/ TarFoot \/ TarPad \/ TarRefused \/ TarClose
-----------------------------------------------------------------------------
(* The sender: pushTar, the transfer task of pushToWaterfall, or the       *)
(* second goroutine of the server's Pull.                                  *)

SndRest == UNCHANGED <<fixed, tarVars, rcv, pipeB, untVars, reply, fault>>

SndTake ==
    /\ snd = "read" /\ slotA # None
    /\ held' = slotA /\ slotA' = None
    /\ snd' = "send"
    /\ UNCHANGED <<wA, rA>>

\* r.Read and io.ReadFull wait for the next cell; the Java task reads only
\* while its future is not done.
SndRead ==
    /\ SndTake
    /\ Push("java") => res = "none"
    /\ SndRest /\ UNCHANGED <<wire, status, res>>

\* Mutant of GoSend: a message is sent again.
GoSendAgain ==
    /\ Push("go") /\ snd = "send"
    /\ \/ CanSend /\ net' = Append(net, held) /\ snd' \in {"read", "send"}
       \/ Over /\ snd' = "err" /\ UNCHANGED net
    /\ SndRest /\ UNCHANGED <<held, pipeA, half, rpc, status, res>>

\* rpc.Send: pushTar returns on an error and does not close its pipe.
GoSend ==
    /\ Push("go") /\ snd = "send"
    /\ \/ CanSend /\ net' = Append(net, held) /\ snd' = "read"
       \/ Over /\ snd' = "err" /\ UNCHANGED net
    /\ held' = None
    /\ SndRest /\ UNCHANGED <<pipeA, half, rpc, status, res>>

\* The end of the archive: CloseAndRecv.
GoCloseSend ==
    /\ Push("go") /\ snd = "read" /\ slotA = None /\ wA
    /\ half' = ~Over /\ snd' = "wait"
    /\ SndRest /\ UNCHANGED <<held, pipeA, net, rpc, status, res>>

\* CloseAndRecv returns the reply once the handler has returned nil.
GoReply ==
    /\ Push("go") /\ snd = "wait"
    /\ \/ Told("nil") /\ snd' = IF reply = "true" THEN "ok" ELSE "err"
       \/ Over /\ ~Told("nil") /\ snd' = "err"
    /\ SndRest /\ UNCHANGED <<held, pipeA, wire, status, res>>

\* Push and PushBytes: eg.Wait.
GoPushReturn ==
    /\ Push("go") /\ res = "none"
    /\ tar = "done" /\ snd \in {"ok", "err"}
    /\ res' = IF terr \/ snd = "err" THEN "err" ELSE "ok"
    /\ SndRest /\ UNCHANGED <<sndVars, pipeA, wire, status>>

\* The task starts, or was cancelled before it could.
JavaStart ==
    /\ Push("java") /\ snd = "start"
    /\ \/ snd' = "read"
       \/ res = "err" /\ snd' = "never"
    /\ SndRest /\ UNCHANGED <<held, pipeA, wire, status, res>>

\* onNext buffers without limit, and drops what comes after the end.
JavaSend ==
    /\ Push("java") /\ snd = "send"
    /\ net' = IF Over THEN net ELSE Append(net, held)
    /\ snd' = "read" /\ held' = None
    /\ SndRest /\ UNCHANGED <<pipeA, half, rpc, status, res>>

\* The loop ends with the archive or with the future: in.close, onCompleted.
JavaCloseSend ==
    /\ Push("java") /\ snd = "read"
    /\ res # "none" \/ (slotA = None /\ wA)
    /\ rA' = TRUE /\ half' = ~Over /\ snd' = "ok"
    /\ SndRest /\ UNCHANGED <<held, slotA, wA, net, rpc, status, res>>

\* The callback of a failed future interrupts the task: onError.
JavaInterrupt ==
    /\ Push("java") /\ snd = "read" /\ res = "err"
    /\ snd' = "err" /\ rpc' = "broken"
    /\ SndRest /\ UNCHANGED <<held, pipeA, net, half, status, res>>

\* Mutant of JavaPushEnd: onNext, the reply, sets the result.
JavaPushEndReply ==
    /\ Push("java") /\ res = "none" /\ (Over \/ reply # "none")
    /\ res' = IF reply = "true" THEN "ok" ELSE "err"
    /\ SndRest /\ UNCHANGED <<sndVars, pipeA, wire, status>>

\* onCompleted or onError of the response observer; onNext ignores the reply.
JavaPushEnd ==
    /\ Push("java") /\ res = "none" /\ Over
    /\ res' = IF Told("nil") THEN "ok" ELSE "err"
    /\ SndRest /\ UNCHANGED <<sndVars, pipeA, wire, status>>

\* The server's Pull: Send, with a deferred r.Close.
PullSend ==
    /\ mode = "pull" /\ snd = "send"
    /\ \/ CanSend /\ net' = Append(net, held) /\ snd' = "read" /\ UNCHANGED rA
       \/ rpc = "broken" /\ snd' = "err" /\ rA' = TRUE /\ UNCHANGED net
    /\ held' = None
    /\ SndRest /\ UNCHANGED <<slotA, wA, half, rpc, status, res>>

PullSent ==
    /\ mode = "pull" /\ snd = "read" /\ slotA = None /\ wA
    /\ snd' = "ok" /\ rA' = TRUE
    /\ SndRest /\ UNCHANGED <<held, slotA, wA, wire, status, res>>

\* Mutant of PullReturn: the error of stream.Tar is not returned.
PullReturnSent ==
    /\ mode = "pull" /\ status = "none"
    /\ tar = "done" /\ snd \in {"ok", "err"}
    /\ status' = IF snd = "err" THEN "error" ELSE "nil"
    /\ SndRest /\ UNCHANGED <<sndVars, pipeA, wire, res>>

\* eg.Wait of the server's Pull.
PullReturn ==
    /\ mode = "pull" /\ status = "none"
    /\ tar = "done" /\ snd \in {"ok", "err"}
    /\ status' = IF terr \/ snd = "err" THEN "error" ELSE "nil"
    /\ SndRest /\ UNCHANGED <<sndVars, pipeA, wire, res>>

Sender ==
    \/ SndRead \/ GoSend \/ GoCloseSend \/ GoReply \/ GoPushReturn
    \/ JavaStart \/ JavaSend \/ JavaCloseSend \/ JavaInterrupt \/ JavaPushEnd
    \/ PullSend \/ PullSent \/ PullReturn
-----------------------------------------------------------------------------
(* The receiver: the second goroutine of the server's Push, pullStream, or *)
(* the response observer of pullFromWaterfall.                             *)

RcvRest == UNCHANGED <<fixed, tarVars, pipeA, sndVars, half, rpc, done, cut, fault>>

\* The server's Push waits for a first message, and then starts its goroutines.
\* Java's first message has a path and no payload.
PushFirst ==
    /\ rcv = "first" /\ status = "none"
    /\ \/ /\ kind = "java" \/ net # <<>>
          /\ rcv' = "recv" /\ unt' = "read"
          /\ UNCHANGED status
       \/ /\ rpc = "broken" \/ (kind = "go" /\ half /\ net = <<>>)
          /\ status' = "error"
          /\ UNCHANGED <<rcv, unt>>
    /\ RcvRest /\ UNCHANGED <<net, pipeB, reply, res>>

\* Recv, and the pipe's Write that waits until the payload is taken.
RcvMsg ==
    /\ ~Pull("java")
    /\ rcv = "recv" /\ net # <<>>
    /\ slotB' = Head(net) /\ net' = Tail(net)
    /\ rcv' = "write"
    /\ RcvRest /\ UNCHANGED <<wB, rB, unt, srvVars, res>>

RcvWritten ==
    /\ rcv = "write" /\ slotB = None
    /\ rcv' = "recv"
    /\ RcvRest /\ UNCHANGED <<net, pipeB, unt, srvVars, res>>

\* The unarchiver has gone: Push answers without success, pullStream returns
\* the error and leaves the rpc alone.
RcvRefused ==
    /\ rcv = "write" /\ slotB # None /\ rB
    /\ slotB' = None /\ wB' = TRUE
    /\ \/ mode = "push" /\ rcv' = "ok" /\ reply' = "false"
       \/ mode = "pull" /\ rcv' = "err" /\ UNCHANGED reply
    /\ RcvRest /\ UNCHANGED <<net, rB, unt, status, res>>

\* io.EOF: the server's Push answers before the unarchiver has finished.
PushEof ==
    /\ mode = "push" /\ rcv = "recv"
    /\ half /\ net = <<>>
    /\ rcv' = "ok" /\ reply' = "true" /\ wB' = TRUE
    /\ RcvRest /\ UNCHANGED <<net, slotB, rB, unt, status, res>>

\* Mutant of PushErr: no deferred w.Close.
PushErrLeaves ==
    /\ mode = "push" /\ rcv = "recv" /\ rpc = "broken"
    /\ rcv' = "err"
    /\ RcvRest /\ UNCHANGED <<net, pipeB, unt, srvVars, res>>

\* Recv fails: the pipe is closed without an error.
PushErr ==
    /\ mode = "push" /\ rcv = "recv" /\ rpc = "broken"
    /\ rcv' = "err" /\ wB' = TRUE
    /\ RcvRest /\ UNCHANGED <<net, slotB, rB, unt, srvVars, res>>

\* eg.Wait of the server's Push.
PushReturn ==
    /\ mode = "push" /\ status = "none"
    /\ rcv \in {"ok", "err"} /\ unt \in {"ok", "fail"}
    /\ status' = IF unt = "fail" \/ rcv = "err" THEN "error" ELSE "nil"
    /\ RcvRest /\ UNCHANGED <<rcv, net, pipeB, unt, reply, res>>

PullEnded(s) == net = <<>> /\ Told(s)

\* Recv returns io.EOF or an error; either way the pipe is closed.
GoPullEnd ==
    /\ Pull("go") /\ rcv = "recv"
    /\ PullEnded("nil") \/ PullEnded("error") \/ rpc = "broken"
    /\ rcv' = IF PullEnded("nil") THEN "ok" ELSE "err"
    /\ wB' = TRUE
    /\ RcvRest /\ UNCHANGED <<net, slotB, rB, unt, srvVars, res>>

\* Pull and PullBytes: eg.Wait.
GoPullReturn ==
    /\ Pull("go") /\ res = "none"
    /\ rcv \in {"ok", "err"} /\ unt \in {"ok", "fail"}
    /\ res' = IF rcv = "ok" /\ unt = "ok" THEN "ok" ELSE "err"
    /\ RcvRest /\ UNCHANGED <<rcv, net, pipeB, unt, srvVars>>

\* onNext: a write to a pipe that is closed fails and sets the result.
JavaNext ==
    /\ Pull("java") /\ rcv = "recv" /\ net # <<>>
    /\ net' = Tail(net)
    /\ \/ wB /\ Set("err") /\ UNCHANGED slotB
       \/ ~wB /\ slotB = None /\ slotB' = Head(net) /\ UNCHANGED res
    /\ RcvRest /\ UNCHANGED <<rcv, wB, rB, unt, srvVars>>

JavaPullCompleted ==
    /\ Pull("java") /\ rcv = "recv" /\ PullEnded("nil")
    /\ rcv' = "ok" /\ wB' = TRUE
    /\ RcvRest /\ UNCHANGED <<net, slotB, rB, unt, srvVars, res>>

JavaPullError ==
    /\ Pull("java") /\ rcv = "recv"
    /\ rpc = "broken" \/ PullEnded("error")
    /\ rcv' = "err" /\ Set("err")
    /\ RcvRest /\ UNCHANGED <<net, pipeB, unt, srvVars>>

Receiver ==
    \/ PushFirst \/ RcvMsg \/ RcvWritten \/ RcvRefused
    \/ PushEof \/ PushErr \/ PushReturn \/ GoPullEnd \/ GoPullReturn
    \/ JavaNext \/ JavaPullCompleted \/ JavaPullError
-----------------------------------------------------------------------------
(* The unarchiver: stream.Untar at the server and in Go, Tar.untar in Java *)
(* as a task of pull that sets the result and closes the pipe's writer.    *)

UntRest == UNCHANGED <<fixed, tarVars, pipeA, sndVars, wire, rcv, made, srvVars>>

\* Untar returns: its caller closes the pipe.
UntarEnds(r) ==
    /\ unt' = r
    /\ rB' = TRUE
    /\ IF Pull("java") THEN wB' = TRUE /\ Set(IF r = "ok" THEN "ok" ELSE "err")
       ELSE UNCHANGED <<wB, res>>

\* There is no entry: Go reports it, Java dereferences null, which is no
\* IOException, so that the task ends without a result.
UntarNothing ==
    \/ ~Pull("java") /\ UntarEnds("fail")
    \/ Pull("java") /\ unt' = "threw" /\ wB' = TRUE /\ UNCHANGED <<rB, res>>

\* An entry is taken from the pipe, and then written.
UntarEntry ==
    /\ unt = "read" /\ slotB \notin {None, Foot, Pad}
    /\ mode = "pull" /\ bytes => done = 0
    /\ slotB' = None
    /\ IF slotB = Cut THEN cut' = TRUE /\ UNCHANGED unt ELSE unt' = "write" /\ UNCHANGED cut
    /\ UntRest /\ UNCHANGED <<wB, rB, done, res, fault>>

UntarWritten ==
    /\ unt = "write"
    /\ done' = done + 1 /\ unt' = "read"
    /\ UntRest /\ UNCHANGED <<pipeB, cut, res, fault>>

UntarFoot ==
    /\ unt = "read" /\ slotB = Foot
    /\ slotB' = None
    /\ IF done = 0 THEN UntarNothing ELSE UntarEnds("ok")
    /\ UntRest /\ UNCHANGED <<done, cut, fault>>

\* The pipe ends before the footer: an error within an entry and before the
\* first, but no error between two entries.
UntarEof ==
    /\ unt = "read" /\ slotB = None /\ wB
    /\ IF done = 0 /\ ~cut THEN UntarNothing ELSE UntarEnds(IF cut THEN "fail" ELSE "ok")
    /\ UntRest /\ UNCHANGED <<slotB, done, cut, fault>>

\* An entry cannot be written.
UntarFail ==
    /\ unt = "write"
    /\ fault' = TRUE
    /\ UntarEnds("fail")
    /\ UntRest /\ UNCHANGED <<slotB, done, cut>>

\* UntarBytes finds a second entry.
UntarBytesTooMany ==
    /\ Pull("go") /\ bytes /\ unt = "read"
    /\ done > 0 /\ slotB \notin {None, Foot}
    /\ fault' = TRUE
    /\ UntarEnds("fail")
    /\ UntRest /\ UNCHANGED <<slotB, done, cut>>

\* untarFile finds one too, or untar a directory for an existing file.  A
\* TarRuntimeException is no IOException: the task ends without a result.
JavaUntarThrows ==
    /\ Pull("java") /\ unt = "read" /\ slotB \notin {None, Foot}
    /\ unt' = "threw" /\ wB' = TRUE /\ fault' = TRUE
    /\ UntRest /\ UNCHANGED <<slotB, rB, done, cut, res>>

\* The callback of a failed future interrupts the task.
JavaUntarInterrupt ==
    /\ Pull("java") /\ unt \in {"read", "write"} /\ res = "err"
    /\ UntarEnds("fail")
    /\ UntRest /\ UNCHANGED <<slotB, done, cut, fault>>

Untar ==
    \/ UntarEntry \/ UntarWritten \/ UntarFoot \/ UntarEof \/ UntarFail
    \/ UntarBytesTooMany \/ JavaUntarThrows \/ JavaUntarInterrupt
-----------------------------------------------------------------------------
Next == Break \/ Tar \/ Sender \/ Receiver \/ Untar

Spec == Init /\ [][Next]_vars

\* Every worker runs on.
FairSpec == Spec /\ WF_vars(Tar) /\ WF_vars(Sender) /\ WF_vars(Receiver) /\ WF_vars(Untar)
-----------------------------------------------------------------------------
(* Properties.                                                             *)

Cell == {Entry(i) : i \in 1..N} \cup {Cut, Foot, Pad}

\* The variables keep their types.
TypeOK ==
    /\ mode \in {"push", "pull"} /\ kind \in {"go", "java"} /\ bytes \in BOOLEAN
    /\ size \in {1, N}
    /\ tar \in {"stat", "walk", "foot", "pad", "close", "done"}
    /\ made \in 0..N /\ terr \in BOOLEAN
    /\ slotA \in Cell \cup {None} /\ wA \in BOOLEAN /\ rA \in BOOLEAN
    /\ snd \in {"start", "read", "send", "wait", "ok", "err", "never"}
    /\ held \in Cell \cup {None}
    /\ net \in Seq(Cell) /\ half \in BOOLEAN /\ rpc \in {"open", "broken"}
    /\ rcv \in {"first", "recv", "write", "ok", "err"}
    /\ slotB \in Cell \cup {None} /\ wB \in BOOLEAN /\ rB \in BOOLEAN
    /\ unt \in {"off", "read", "write", "ok", "fail", "threw"}
    /\ done \in 0..N /\ cut \in BOOLEAN
    /\ reply \in {"none", "true", "false"} /\ status \in {"none", "nil", "error"}
    /\ res \in {"none", "ok", "err"} /\ fault \in BOOLEAN

\* A transfer that succeeds has unpacked every entry of the source, although
\* a stream cut between two entries unpacks without an error.  The exception
\* is a Java pull of an archive the server could not finish: the result is set
\* at the footer, before the rpc's error arrives.
SuccessIsComplete ==
    res = "ok" => done = size \/ (Pull("java") /\ terr)

\* A transfer fails only if the rpc broke or a file could not be read or
\* written: the closings of the two pipes make no error of their own.
NoSpuriousError == res = "err" => fault

\* The Go client's Push with its sender gone and its archiver writing to the
\* pipe that nobody reads and that is closed only after both.
ArchiverStuck == Push("go") /\ snd = "err" /\ (slotA # None \/ tar # "done")

\* The Java client's pull after an exception that sets no result.
ResultForgotten == Pull("java") /\ unt = "threw"

\* A client returned without ending the rpc: its receiver gave up, or its
\* sending task was cancelled before it started.
Abandoned ==
    \/ Pull("go") /\ rcv = "err" /\ rpc = "open"
    \/ Push("java") /\ snd = "never"

\* Every transfer returns to its caller, with the first two exceptions, and the
\* server's handler returns after it, unless the client abandoned the rpc.
TransferEnds ==
    /\ <>[](res = "none") => <>[]ArchiverStuck \/ <>[]ResultForgotten
    /\ <>[](res # "none" /\ status = "none") => <>[]Abandoned
=============================================================================
