---------------------------- MODULE ExecSession ----------------------------
(***************************************************************************)
(* One Exec rpc: WaterfallServer.Exec (server/server.go) runs a command    *)
(* and merges its stdout and stderr into one gRPC stream, the clients      *)
(* (client/client.go and WaterfallClient.java) feed its stdin and write    *)
(* its output.                                                             *)
(*                                                                         *)
(* Output is numbered chunks per stream.  Of the wrote[s] chunks of the    *)
(* process, the copier has put nput[s] on its channel and the merger has   *)
(* taken merged[s]; msgs is the history of the messages sent.              *)
(***************************************************************************)
EXTENDS Integers, Sequences

Stream == {"stdout", "stderr"}

CONSTANTS
    Clients,            \* the clients modelled, a subset of {"go", "java"}
    ExitCodes,          \* statuses of the process, -1 when a signal ended it
    Mod,                \* 2^32 in the code: ExitCode is a uint32
    Window,             \* messages gRPC's flow control lets the server send
    MaxOut,             \* bound: chunks the process writes to a stream
    MaxIn               \* bound: chunks of the client's stdin

ASSUME ExecAssumption ==
    /\ Clients \subseteq {"go", "java"}
    /\ ExitCodes \subseteq Int
    /\ Mod \in Nat \ {0} /\ Window \in Nat \ {0}
    /\ MaxOut \in [Stream -> Nat] /\ MaxIn \in Nat

VARIABLES
    kind, pipeIn,       \* which client, and whether it has a stdin
    rpc,                \* "broken" once its context is done
    srv,                \* where the handler is
    proc, status,       \* the process and its exit status
    pclosed,            \* streams that neither it nor a child of it has open
    wrote,              \* chunks written to a stream
    copier, nput,       \* the goroutines that fill stdoutCh and stderrCh
    merger, merged,     \* the goroutine that empties them; a stream: sending
    open,               \* streams whose channel is not seen closed (oo, eo)
    msgs,               \* messages sent to the client
    feeder, fed,        \* the goroutine that copies to the process's stdin
    inner, outer,       \* the client's io.Copy of stdin and who waits for it
    taken, sentIn,      \* chunks read from the client's stdin, and sent
    half,               \* CloseSend was called
    cl, nrecv,          \* the client's main loop and what it has received
    shown, res          \* chunks written to the caller, the call's result

procVars == <<proc, status, pclosed, wrote>>
copyVars == <<copier, nput, merger, merged, open>>
stdinVars == <<inner, outer, taken, sentIn, half>>
clientVars == <<cl, nrecv, shown, res>>
fixed == <<kind, pipeIn>>
vars == <<fixed, rpc, srv, procVars, copyVars, msgs, feeder, fed, stdinVars, clientVars>>

Msg(s, n) == [on |-> s, n |-> n]
Returned == srv \in {"ok", "error"}
CanSend == rpc = "open" /\ Len(msgs) - nrecv < Window

Init ==
    /\ kind \in Clients /\ pipeIn \in BOOLEAN
    /\ rpc = "open" /\ srv = "recv"
    /\ proc = "none" /\ status = 0 /\ pclosed = {}
    /\ wrote = [s \in Stream |-> 0]
    /\ copier = [s \in Stream |-> "copy"] /\ nput = [s \in Stream |-> 0]
    /\ merger = "select" /\ merged = [s \in Stream |-> 0] /\ open = Stream
    /\ msgs = <<>>
    /\ feeder = "none" /\ fed = 0
    /\ inner = "none" /\ outer = "none" /\ taken = 0 /\ sentIn = 0 /\ half = FALSE
    /\ cl = "start" /\ nrecv = 0
    /\ shown = [s \in Stream |-> <<>>] /\ res = "none"

\* The connection goes or the caller's context is cancelled.
Break ==
    /\ rpc = "open" /\ cl # "start"
    /\ rpc' = "broken"
    /\ UNCHANGED <<fixed, srv, procVars, copyVars, msgs, feeder, fed, stdinVars, clientVars>>
-----------------------------------------------------------------------------
(* The process, killed by exec.CommandContext when the context is done and *)
(* the handler has not released it, and the children it may leave behind.  *)

ProcWrite(s) ==
    /\ proc # "none" /\ s \notin pclosed
    /\ wrote[s] < MaxOut[s]
    /\ wrote' = [wrote EXCEPT ![s] = @ + 1]
    /\ UNCHANGED <<proc, status, pclosed>>

ProcClose(s) ==
    /\ proc # "none" /\ s \notin pclosed
    /\ pclosed' = pclosed \cup {s}
    /\ UNCHANGED <<proc, status, wrote>>

\* A child that inherited a stream keeps it open; a kill does not reach it.
ProcExit(c) ==
    /\ proc = "running"
    /\ proc' = "exited" /\ status' = c
    /\ \E held \in SUBSET (Stream \ pclosed) : pclosed' = Stream \ held
    /\ UNCHANGED wrote

\* Mutant of ProcKilled: exec.Command, which no context ends.
ProcNotKilled ==
    /\ rpc = "broken" /\ Returned
    /\ ProcExit(-1)

ProcKilled ==
    /\ rpc = "broken" /\ ~Returned
    /\ ProcExit(-1)

Proc ==
    /\ (\E s \in Stream : ProcWrite(s) \/ ProcClose(s)) \/ \E c \in ExitCodes : ProcExit(c)
    /\ UNCHANGED <<fixed, rpc, srv, copyVars, msgs, feeder, fed, stdinVars, clientVars>>

Kill ==
    /\ ProcKilled
    /\ UNCHANGED <<fixed, rpc, srv, copyVars, msgs, feeder, fed, stdinVars, clientVars>>
-----------------------------------------------------------------------------
(* The handler.                                                            *)

\* Recv of the command, the pipes and cmd.Start, which may fail.
Start ==
    /\ srv = "recv" /\ cl # "start" /\ rpc = "open"
    /\ feeder' = IF pipeIn THEN "copy" ELSE "none"
    /\ \/ srv' = "group" /\ proc' = "running"
       \/ srv' = "error" /\ UNCHANGED proc
    /\ UNCHANGED <<fixed, rpc, status, pclosed, wrote, copyVars, msgs, fed, stdinVars, clientVars>>

RecvFail ==
    /\ srv = "recv" /\ rpc = "broken"
    /\ srv' = "error"
    /\ UNCHANGED <<fixed, rpc, procVars, copyVars, msgs, feeder, fed, stdinVars, clientVars>>

\* io.Copy has read a chunk and chanWriter.Write is to put it on the channel.
CopyRead(s) ==
    /\ srv = "group" /\ copier[s] = "copy"
    /\ nput[s] < wrote[s]
    /\ copier' = [copier EXCEPT ![s] = "put"]
    /\ UNCHANGED <<nput, merger, merged, open, msgs>>

\* c <- nb: the channel holds one chunk.
CopyPut(s) ==
    /\ copier[s] = "put"
    /\ nput[s] = merged[s]
    /\ nput' = [nput EXCEPT ![s] = @ + 1]
    /\ copier' = [copier EXCEPT ![s] = "copy"]
    /\ UNCHANGED <<merger, merged, open, msgs>>

\* The pipe is at its end: close(stdoutCh).
CopyEnd(s) ==
    /\ srv = "group" /\ copier[s] = "copy"
    /\ s \in pclosed /\ nput[s] = wrote[s]
    /\ copier' = [copier EXCEPT ![s] = "done"]
    /\ UNCHANGED <<nput, merger, merged, open, msgs>>

\* select receives a chunk.
Take(s) ==
    /\ srv = "group" /\ merger = "select" /\ open # {}
    /\ merged[s] < nput[s]
    /\ merged' = [merged EXCEPT ![s] = @ + 1]
    /\ merger' = s
    /\ UNCHANGED <<copier, nput, open, msgs>>

\* select finds the channel closed and empty.
TakeClosed(s) ==
    /\ srv = "group" /\ merger = "select" /\ s \in open
    /\ copier[s] = "done" /\ merged[s] = nput[s]
    /\ open' = open \ {s}
    /\ UNCHANGED <<copier, nput, merger, merged, msgs>>

\* rpc.Send of the chunk received; its error ends the goroutine.
MergerSend(s) ==
    /\ merger = s
    /\ \/ /\ CanSend
          /\ msgs' = Append(msgs, Msg(s, merged[s]))
          /\ merger' = "select"
       \/ /\ rpc = "broken"
          /\ merger' = "failed"
          /\ UNCHANGED msgs
    /\ UNCHANGED <<copier, nput, merged, open>>

\* Mutant of MergerEnd: `oo && eo` for `oo || eo`.
MergerEndFirst ==
    /\ srv = "group" /\ merger = "select" /\ open # Stream
    /\ merger' = "done"
    /\ UNCHANGED <<copier, nput, merged, open, msgs>>

MergerEnd ==
    /\ srv = "group" /\ merger = "select" /\ open = {}
    /\ merger' = "done"
    /\ UNCHANGED <<copier, nput, merged, open, msgs>>

Copying ==
    /\ \/ \E s \in Stream : CopyRead(s) \/ CopyPut(s) \/ CopyEnd(s)
       \/ \E s \in Stream : Take(s) \/ TakeClosed(s) \/ MergerSend(s)
       \/ MergerEnd
    /\ UNCHANGED <<fixed, rpc, srv, procVars, feeder, fed, stdinVars, clientVars>>

\* eg.Wait returns.  On an error the deferred calls run last first: Release,
\* after which Kill finds no process to signal.
GroupWait ==
    /\ srv = "group"
    /\ merger \in {"done", "failed"} /\ \A s \in Stream : copier[s] = "done"
    /\ srv' = IF merger = "failed" THEN "error" ELSE "wait"
    /\ UNCHANGED <<fixed, rpc, procVars, copyVars, msgs, feeder, fed, stdinVars, clientVars>>

\* cmd.Wait and exitCode; a context that is done may make it an error.
CmdWait ==
    /\ srv = "wait" /\ proc = "exited"
    /\ \/ srv' = "exit"
       \/ rpc = "broken" /\ srv' = "error"
    /\ UNCHANGED <<fixed, rpc, procVars, copyVars, msgs, feeder, fed, stdinVars, clientVars>>

\* Mutant of SendExit: the status is not converted.
SendExitSigned ==
    /\ srv = "exit"
    /\ \/ CanSend /\ msgs' = Append(msgs, Msg("exit", status)) /\ srv' = "ok"
       \/ rpc = "broken" /\ srv' = "error" /\ UNCHANGED msgs
    /\ UNCHANGED <<fixed, rpc, procVars, copyVars, feeder, fed, stdinVars, clientVars>>

\* The last message has the exit code.
SendExit ==
    /\ srv = "exit"
    /\ \/ CanSend /\ msgs' = Append(msgs, Msg("exit", status % Mod)) /\ srv' = "ok"
       \/ rpc = "broken" /\ srv' = "error" /\ UNCHANGED msgs
    /\ UNCHANGED <<fixed, rpc, procVars, copyVars, feeder, fed, stdinVars, clientVars>>

\* The stdin goroutine writes a payload to the process or a child of it.
Feed ==
    /\ feeder = "copy" /\ fed < sentIn /\ proc # "none"
    /\ fed' = fed + 1
    /\ UNCHANGED <<fixed, rpc, srv, procVars, copyVars, msgs, feeder, stdinVars, clientVars>>

\* Mutant of FeedEnd: half closing ends the stream at once.
FeedEndEarly ==
    /\ feeder = "copy"
    /\ half \/ rpc = "broken" \/ Returned \/ proc = "exited"
    /\ feeder' = "closed"
    /\ UNCHANGED <<fixed, rpc, srv, procVars, copyVars, msgs, fed, stdinVars, clientVars>>

\* io.Copy ends with the client's half, with the rpc or with the process.
FeedEnd ==
    /\ feeder = "copy"
    /\ (half /\ fed = sentIn) \/ rpc = "broken" \/ Returned \/ proc = "exited"
    /\ feeder' = "closed"
    /\ UNCHANGED <<fixed, rpc, srv, procVars, copyVars, msgs, fed, stdinVars, clientVars>>
-----------------------------------------------------------------------------
(* The clients.                                                            *)

\* Go: send the command; start the stdin goroutine or half-close.
GoStart ==
    /\ kind = "go" /\ cl = "start"
    /\ cl' = "recv"
    /\ inner' = IF pipeIn THEN "read" ELSE "none"
    /\ outer' = IF pipeIn THEN "wait" ELSE "done"
    /\ half' = ~pipeIn
    /\ UNCHANGED <<taken, sentIn>>

\* Java: the command, the whole input and the half-close in one go.
JavaStart ==
    /\ kind = "java" /\ cl = "start"
    /\ cl' = "recv"
    /\ taken' = IF pipeIn THEN 1 ELSE 0
    /\ sentIn' = taken'
    /\ half' = TRUE /\ outer' = "done"
    /\ UNCHANGED inner

ClientStart ==
    /\ GoStart \/ JavaStart
    /\ UNCHANGED <<fixed, rpc, srv, procVars, copyVars, msgs, feeder, fed, nrecv, shown, res>>

\* stdin has more, is at its end, or its Read fails.
InnerRead ==
    /\ inner = "read"
    /\ \/ taken < MaxIn /\ taken' = taken + 1 /\ inner' = "send"
       \/ inner' \in {"end", "fail"} /\ UNCHANGED taken
    /\ UNCHANGED <<outer, sentIn, half>>

\* SendMsg; it returns io.EOF once the rpc is over.
InnerSend ==
    /\ inner = "send"
    /\ \/ rpc = "open" /\ ~Returned /\ sentIn' = sentIn + 1 /\ inner' = "read"
       \/ (rpc = "broken" \/ Returned) /\ inner' = "end" /\ UNCHANGED sentIn
    /\ UNCHANGED <<outer, taken, half>>

\* Mutant of OuterWait: CloseSend also when stdin failed or is still read.
OuterWaitNot ==
    /\ outer = "wait"
    /\ outer' = "done" /\ half' = TRUE
    /\ UNCHANGED <<inner, taken, sentIn>>

\* cancelCopy returns and CloseSend is called, or stdin's error is returned.
OuterWait ==
    /\ outer = "wait"
    /\ \/ /\ inner = "end" \/ cl = "wait"
          /\ outer' = "done" /\ half' = TRUE
       \/ /\ inner = "fail"
          /\ outer' = "failed" /\ UNCHANGED half
    /\ UNCHANGED <<inner, taken, sentIn>>

Stdin ==
    /\ InnerRead \/ InnerSend \/ OuterWait
    /\ UNCHANGED <<fixed, rpc, srv, procVars, copyVars, msgs, feeder, fed, clientVars>>

Receiving == cl = "recv" /\ nrecv < Len(msgs)
Pgrs == msgs[nrecv + 1]

\* A chunk is written to the caller's stdout or stderr.
Recv ==
    /\ Receiving
    /\ nrecv' = nrecv + 1
    /\ shown' = [s \in Stream |-> IF Pgrs.on = s THEN Append(shown[s], Pgrs.n) ELSE shown[s]]
    /\ UNCHANGED <<cl, res>>

\* The caller's writer fails: the Go client returns and leaves the rpc alone.
GoWriteFail ==
    /\ kind = "go" /\ Receiving /\ Pgrs.on \in Stream
    /\ nrecv' = nrecv + 1
    /\ cl' = "ret" /\ res' = "err"
    /\ UNCHANGED shown

\* onNext fails: the result is set, and the observer is called for what follows.
JavaWriteFail ==
    /\ kind = "java" /\ Receiving /\ Pgrs.on \in Stream
    /\ nrecv' = nrecv + 1
    /\ res' = "err"
    /\ UNCHANGED <<cl, shown>>

\* io.EOF: close(earlyExitCh).
GoEof ==
    /\ kind = "go" /\ cl = "recv" /\ srv = "ok" /\ nrecv = Len(msgs)
    /\ cl' = "wait"
    /\ UNCHANGED <<nrecv, shown, res>>

\* onCompleted: a SettableFuture is set once.
JavaCompleted ==
    /\ kind = "java" /\ cl = "recv" /\ srv = "ok" /\ nrecv = Len(msgs)
    /\ cl' = "ret"
    /\ res' = IF res = "none" THEN "code" ELSE res
    /\ UNCHANGED <<nrecv, shown>>

\* The rpc ends with an error, after the messages before it unless it broke.
RecvErr ==
    /\ cl = "recv"
    /\ rpc = "broken" \/ (srv = "error" /\ nrecv = Len(msgs))
    /\ cl' = "ret" /\ res' = "err"
    /\ UNCHANGED <<nrecv, shown>>

\* eg.Wait of the Go client.
Return ==
    /\ cl = "wait" /\ outer \in {"done", "failed"}
    /\ cl' = "ret" /\ res' = IF outer = "failed" THEN "err" ELSE "code"
    /\ UNCHANGED <<nrecv, shown>>

Client ==
    /\ \/ Recv \/ GoWriteFail \/ JavaWriteFail
       \/ GoEof \/ JavaCompleted \/ RecvErr \/ Return
    /\ UNCHANGED <<fixed, rpc, srv, procVars, copyVars, msgs, feeder, fed, stdinVars>>
-----------------------------------------------------------------------------
Handler == Start \/ RecvFail \/ GroupWait \/ CmdWait \/ SendExit

Next ==
    \/ ClientStart \/ Break \/ Proc \/ Kill
    \/ Handler \/ Copying \/ Feed \/ FeedEnd
    \/ Stdin \/ Client

Spec == Init /\ [][Next]_vars

\* Goroutines run on and a kill takes effect; the process, its children, the
\* connection and stdin owe nothing.
Fairness ==
    /\ WF_vars(Kill) /\ WF_vars(Handler) /\ WF_vars(Copying)
    /\ WF_vars(Client) /\ WF_vars(OuterWait /\ Stdin)

FairSpec == Spec /\ Fairness
-----------------------------------------------------------------------------
(* Properties.                                                             *)

\* The variables keep their types.
TypeOK ==
    /\ kind \in {"go", "java"} /\ pipeIn \in BOOLEAN
    /\ rpc \in {"open", "broken"}
    /\ srv \in {"recv", "group", "wait", "exit", "ok", "error"}
    /\ proc \in {"none", "running", "exited"} /\ status \in Int
    /\ pclosed \subseteq Stream
    /\ wrote \in [Stream -> Nat] /\ nput \in [Stream -> Nat] /\ merged \in [Stream -> Nat]
    /\ copier \in [Stream -> {"copy", "put", "done"}]
    /\ merger \in {"select", "done", "failed"} \cup Stream
    /\ open \subseteq Stream
    /\ msgs \in Seq([on : Stream \cup {"exit"}, n : Nat])
    /\ feeder \in {"none", "copy", "closed"} /\ fed \in Nat
    /\ inner \in {"none", "read", "send", "end", "fail"}
    /\ outer \in {"none", "wait", "done", "failed"}
    /\ taken \in Nat /\ sentIn \in Nat /\ half \in BOOLEAN
    /\ cl \in {"start", "recv", "wait", "ret"} /\ nrecv \in Nat
    /\ shown \in [Stream -> Seq(Nat)] /\ res \in {"none", "err", "code"}

\* last.ExitCode of a call that succeeds.
Code == msgs[nrecv].n

\* When a call succeeds there is a last message (the Go client dereferences
\* it unchecked), it is the exit code and no chunk, the code is the process's,
\* and the caller was given all the process wrote on each stream, in order.
ResultIsComplete ==
    res = "code" \/ cl = "wait" =>
        /\ nrecv > 0 /\ msgs[nrecv].on = "exit"
        /\ proc = "exited" /\ Code = status % Mod
        /\ \A s \in Stream :
             /\ Len(shown[s]) = wrote[s]
             /\ \A i \in 1..wrote[s] : shown[s][i] = i

\* A process that runs while the rpc is up sees the end of its stdin only
\* after everything the client read from its own.
StdinIsWhole ==
    feeder = "closed" /\ proc = "running" /\ rpc = "open" /\ ~Returned
        => fed = taken /\ inner \in {"none", "end"}

\* CloseSend does not meet a Send in progress while the server still runs: the
\* early exit of cancelCopy waits for the end of the rpc.  After that it may
\* meet one of the copy that cancelCopy leaves behind (client.go:265-284).
CloseSendAlone == half /\ inner = "send" => srv = "ok" \/ rpc = "broken"

\* The merger gave up and a copier is left with a full channel: eg.Wait
\* does not return.
CopierStuck ==
    merger = "failed" /\ \E s \in Stream : copier[s] = "put" /\ merged[s] < nput[s]

\* A child of the process that ended keeps a stream open: the copier of it
\* reads on.
PipeHeld == proc = "exited" /\ pclosed # Stream

\* The handler returns once the rpc has broken, unless a copier is stuck for
\* good or a child keeps an output of the process that was killed.  When the
\* process ends and its outputs are closed so does the call, whatever stdin
\* does, and so does the handler unless the Go client's caller failed to take
\* output and the server waits for room in the stream (server.go:243-333).
ExecEnds ==
    /\ <>[](rpc = "broken" /\ ~Returned) => <>[]CopierStuck \/ <>[]PipeHeld
    /\ <>[](proc = "exited" /\ ~PipeHeld) =>
           <>[](cl = "ret" /\ (Returned \/ CopierStuck \/ res = "err"))
=============================================================================
