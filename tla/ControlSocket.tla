---------------------------- MODULE ControlSocket ----------------------------
(***************************************************************************)
(* The listener of a guest that shares its pipe with an emulator           *)
(* (net/qemu/control.go).  The host asks over a control connection         *)
(* (virtual fd 0) for connections and has them closed; the guest answers   *)
(* an open by opening a pipe and naming its fd on it, and reports the      *)
(* connections it closes.                                                  *)
(*                                                                         *)
(* Connection c is the c-th the host asks for, and its virtual fd is c.    *)
(* It is a ControlSocketConn around a ControlSocketConn around the pipe    *)
(* (open, control.go:227), so Close runs twice: once for each.  A Read     *)
(* holds the readLocks of both while it waits for the pipe, and a Write    *)
(* the writeLocks; CloseRead and CloseWrite take them.  The host and the   *)
(* server above the listener are the environment: neither need ever read,  *)
(* write or close.                                                         *)
(***************************************************************************)
EXTENDS Integers, Sequences

CONSTANTS
    MaxConns,           \* bound: connections the host asks for
    Readers, Writers,   \* connections whose user reads, and writes
    Leavers             \* connections whose user closes them itself

ASSUME ControlSocketAssumption ==
    MaxConns \in Nat /\ Readers \cup Writers \cup Leavers \subseteq 1..MaxConns

Conn == 1..MaxConns
None == 0
Nobody == -1
\* Who calls Close: controlSocketHandler, ControlSocket.Close, and the user
\* of a connection.
HandlerP == 0
StopP == MaxConns + 1
Procs == 0..MaxConns + 1

VARIABLES
    \* host
    n,                  \* connections asked for
    hin,                \* messages on the way to the guest
    hcl,                \* connections the host has told to close
    ctlHup,             \* the host has closed the control connection
    ev,                 \* ev[c]: close events for c the guest has sent
    \* guest
    acc,                \* the caller of Accept
    handler,            \* controlSocketHandler
    stop,               \* ControlSocket.Close
    op,                 \* op[c]: the goroutine of Open(c)
    m,                  \* ControlSocket.m: connections by their fd
    conn,               \* conn[c]: the connection, up to where Close is
    reading, writing,   \* connections with a Read, a Write in progress
    user,               \* user[c]: the user of the connection
    on,                 \* on[p]: the connection p closes
    ctl, todo,          \* the control connection; what its Close has to close
    teller,             \* who writes a close event on it, under its writeLock
    missed,             \* close messages that found no connection
    late                \* connections stored when the control connection was gone

hostVars == <<n, hcl, ctlHup>>
connVars == <<conn, reading, writing, user, on, ev, m, teller>>
ctlVars == <<ctl, todo, stop>>
history == <<missed, late>>
vars == <<hostVars, hin, acc, handler, op, connVars, ctlVars, history>>

At(f, x, v) == [f EXCEPT ![x] = v]
\* How far the Close of a connection has come, and who is in it.
Stage(at, p) == [at |-> at, by |-> p]
Still(at) == Stage(at, Nobody)

Init ==
    /\ n = 0 /\ hin = <<>> /\ hcl = {} /\ ctlHup = FALSE
    /\ ev = [c \in Conn |-> 0]
    /\ acc = "idle" /\ handler = "none" /\ stop = "none"
    /\ op = [c \in Conn |-> "none"] /\ m = {}
    /\ conn = [c \in Conn |-> Still("none")] /\ reading = {} /\ writing = {} /\ teller = Nobody
    /\ user = [c \in Conn |-> "none"] /\ on = [p \in Procs |-> None]
    /\ ctl = Still("none") /\ todo = {} /\ missed = {} /\ late = {}
-----------------------------------------------------------------------------
(* The host.                                                               *)

HostOpen ==
    /\ ctl.at # "none" /\ ~ctlHup /\ n < MaxConns
    /\ n' = n + 1 /\ hin' = Append(hin, <<"open", n + 1>>)
    /\ UNCHANGED <<hcl, ctlHup, acc, handler, op, connVars, ctlVars, history>>

\* The host knows a connection once it has its identity.
HostClose(c) ==
    /\ ~ctlHup /\ op[c] \in {"store", "offer", "done"} /\ c \notin hcl
    /\ hcl' = hcl \cup {c} /\ hin' = Append(hin, <<"close", c>>)
    /\ UNCHANGED <<n, ctlHup, acc, handler, op, connVars, ctlVars, history>>

HostCtlHup ==
    /\ ctl.at # "none" /\ ~ctlHup /\ ctlHup' = TRUE
    /\ UNCHANGED <<n, hin, hcl, acc, handler, op, connVars, ctlVars, history>>
-----------------------------------------------------------------------------
(* ControlSocketConn.Close, by p.  Every wait for a lock is a step.        *)

Finished(p) == on' = At(on, p, None)

CtlWritable == ctl.at \in {"up", "begun"}

\* The Close of c by p goes from one stage to the next.
CloseStep(p, c, from, to) ==
    /\ c = on[p] /\ c # None /\ conn[c] = Stage(from, p)
    /\ conn' = At(conn, c, Stage(to, p))
    /\ UNCHANGED <<hostVars, hin, acc, handler, op, reading, writing, user, on, ctlVars, history>>

\* Mutant of CloseBegin: closed is not looked at.
CloseBeginAgain(p) ==
    LET c == on[p] IN
    /\ c # None /\ conn[c].at \in {"up", "closed"}
    /\ conn' = At(conn, c, Stage("begun", p))
    /\ UNCHANGED <<hostVars, hin, acc, handler, op, reading, writing, user, on, ev, m, teller,
                   ctlVars, history>>

\* closeLock and q.closed.
CloseBegin(p) ==
    LET c == on[p] IN
    /\ c # None /\ conn[c].at = "up"
    /\ conn' = At(conn, c, Stage("begun", p))
    /\ UNCHANGED <<hostVars, hin, acc, handler, op, reading, writing, user, on, ev, m, teller,
                   ctlVars, history>>

\* A Close that comes second waits for closeLock and returns errClosed.
CloseAgain(p) ==
    LET c == on[p] IN
    /\ c # None /\ conn[c].at = "closed"
    /\ Finished(p)
    /\ UNCHANGED <<hostVars, hin, acc, handler, op, conn, reading, writing, user, ev, m, teller,
                   ctlVars, history>>

\* CloseWrite waits for the writeLock.
CloseWrites(p) ==
    /\ on[p] \notin writing /\ CloseStep(p, on[p], "begun", "writes")
    /\ UNCHANGED <<ev, m, teller>>

\* CloseRead waits for the readLock.
CloseReads(p) ==
    /\ on[p] \notin reading /\ CloseStep(p, on[p], "writes", "reads")
    /\ UNCHANGED <<ev, m, teller>>

\* q.cl.Close() of the connection inside waits for its readLock and closes the
\* pipe.  A Read does not look at closedReads, so there may be one again; a
\* Write was refused outside.
ClosePipe(p) ==
    /\ on[p] \notin reading /\ CloseStep(p, on[p], "reads", "pipe")
    /\ UNCHANGED <<ev, m, teller>>

\* cb.close of the connection inside takes the fd out of the map.
CloseDelete(p) ==
    /\ CloseStep(p, on[p], "pipe", "gone") /\ m' = m \ {on[p]}
    /\ UNCHANGED <<ev, teller>>

\* cb.close sends the close event: the connection inside first ("gone"), then
\* the one outside ("told"), which finds the fd deleted.  Then Close returns.
EventOver(p, c) ==
    /\ c # None /\ conn[c] \in {Stage("gone", p), Stage("told", p)}
    /\ conn' = At(conn, c, IF conn[c].at = "gone" THEN Stage("told", p) ELSE Still("closed"))
    /\ IF conn[c].at = "gone" THEN UNCHANGED on ELSE Finished(p)
    /\ UNCHANGED <<hostVars, hin, acc, handler, op, reading, writing, user, m, ctlVars, history>>

\* b.c.Write refuses the event once the Close of b.c has closed its writes.
EventRefused(p) ==
    /\ ~CtlWritable /\ EventOver(p, on[p]) /\ UNCHANGED <<ev, teller>>

EventStart(p) ==
    LET c == on[p] IN
    /\ c # None /\ conn[c] \in {Stage("gone", p), Stage("told", p)}
    /\ CtlWritable /\ teller = Nobody /\ teller' = p
    /\ UNCHANGED <<hostVars, hin, acc, handler, op, conn, reading, writing, user, on, ev, m,
                   ctlVars, history>>

\* The host reads the event; once it has hung up the Write fails.
EventEnd(p) ==
    /\ teller = p /\ teller' = Nobody /\ EventOver(p, on[p])
    /\ ev' = IF ctlHup THEN ev ELSE At(ev, on[p], ev[on[p]] + 1)

CloseConn(p) ==
    \/ CloseBegin(p) \/ CloseAgain(p) \/ CloseWrites(p) \/ CloseReads(p) \/ ClosePipe(p)
    \/ CloseDelete(p) \/ EventRefused(p) \/ EventStart(p)
-----------------------------------------------------------------------------
(* Close of the control connection, by the handler or by stop.             *)

Closing(p) == \/ p = HandlerP /\ handler = "defer"
              \/ p = StopP /\ stop = "ctl"

\* handler and stop after b.c.Close(): Close of the listener closes the pipe.
CtlReturned(p) ==
    /\ handler' = IF p = HandlerP THEN "done" ELSE handler
    /\ stop' = IF p = StopP THEN "done" ELSE stop

CtlBegin(p) ==
    /\ Closing(p) /\ ctl.at = "up"
    /\ ctl' = Stage("begun", p)
    /\ UNCHANGED <<hostVars, hin, acc, handler, op, connVars, stop, todo, history>>

\* CloseWrite waits for a close event that is being written.
CtlWrites(p) ==
    /\ ctl = Stage("begun", p) /\ teller = Nobody
    /\ ctl' = Stage("writes", p)
    /\ UNCHANGED <<hostVars, hin, acc, handler, op, connVars, stop, todo, history>>

CtlAgain(p) ==
    /\ Closing(p) /\ ctl.at = "closed" /\ CtlReturned(p)
    /\ UNCHANGED <<hostVars, hin, acc, op, connVars, ctl, todo, history>>

\* Mutant of CtlReads: it waits for the handler to be through.
CtlReadsLate(p) ==
    /\ ctl = Stage("writes", p) /\ handler = "done"
    /\ ctl' = Stage("reads", p)
    /\ UNCHANGED <<hostVars, hin, acc, handler, op, connVars, stop, todo, history>>

\* CloseRead waits for a Read of the handler.
CtlReads(p) ==
    /\ ctl = Stage("writes", p) /\ handler # "in"
    /\ ctl' = Stage("reads", p)
    /\ UNCHANGED <<hostVars, hin, acc, handler, op, connVars, stop, todo, history>>

\* Mutant of CtlPipe: the connections in the map are not visited.
CtlPipeOnly(p) ==
    /\ ctl = Stage("reads", p) /\ ctl' = Stage("range", p) /\ todo' = {}
    /\ UNCHANGED <<hostVars, hin, acc, handler, op, connVars, stop, history>>

\* The pipe is closed, which waits for nobody, and the connections in the map
\* are to be closed with it.
CtlPipe(p) ==
    /\ ctl = Stage("reads", p) /\ ctl' = Stage("range", p) /\ todo' = m
    /\ UNCHANGED <<hostVars, hin, acc, handler, op, connVars, stop, history>>

\* The next value of Range, unless it has been deleted meanwhile.
CtlNext(p, c) ==
    /\ ctl = Stage("range", p) /\ on[p] = None /\ c \in todo
    /\ todo' = todo \ {c}
    /\ on' = IF c \in m THEN At(on, p, c) ELSE on
    /\ UNCHANGED <<hostVars, hin, acc, handler, op, conn, reading, writing, user, ev, m, teller,
                   ctl, stop, history>>

CtlEnd(p) ==
    /\ ctl = Stage("range", p) /\ on[p] = None /\ todo = {}
    /\ ctl' = Still("closed") /\ CtlReturned(p)
    /\ UNCHANGED <<hostVars, hin, acc, op, connVars, todo, history>>

CloseCtl(p) ==
    \/ CtlBegin(p) \/ CtlAgain(p) \/ CtlWrites(p) \/ CtlReads(p) \/ CtlPipe(p)
    \/ (\E c \in Conn : CtlNext(p, c)) \/ CtlEnd(p)

\* ControlSocket.Close
Close ==
    /\ stop = "none" /\ ctl.at # "none" /\ stop' = "ctl"
    /\ UNCHANGED <<hostVars, hin, acc, handler, op, connVars, ctl, todo, history>>
-----------------------------------------------------------------------------
(* controlSocketHandler.                                                   *)

CtlPipeOpen == ctl.at \in {"up", "begun", "writes", "reads"}

\* io.ReadFull takes the readLock of b.c.
HandlerRead ==
    /\ handler = "idle" /\ on[HandlerP] = None
    /\ handler' = IF CtlPipeOpen THEN "in" ELSE "defer"
    /\ UNCHANGED <<hostVars, hin, acc, op, connVars, ctlVars, history>>

\* A message: go b.Open(fd), or Close of the connection that m has for fd.
HandlerMsg ==
    /\ handler = "in" /\ hin # <<>> /\ hin' = Tail(hin) /\ handler' = "idle"
    /\ LET c == Head(hin)[2] IN
       \/ /\ Head(hin)[1] = "open" /\ op' = At(op, c, "accept")
          /\ UNCHANGED <<on, missed>>
       \/ /\ Head(hin)[1] = "close" /\ c \in m
          /\ on' = At(on, HandlerP, c) /\ UNCHANGED <<op, missed>>
       \/ /\ Head(hin)[1] = "close" /\ c \notin m
          /\ missed' = (IF conn[c].at = "none" THEN missed \cup {c} ELSE missed)
          /\ UNCHANGED <<op, on>>
    /\ UNCHANGED <<hostVars, acc, conn, reading, writing, user, ev, m, teller, ctlVars, late>>

\* The Read fails: the host has hung up, or the pipe was closed meanwhile (a
\* vsock ends the Read then, a qemu pipe does not).
HandlerErr ==
    /\ handler = "in" /\ hin = <<>> /\ (ctlHup \/ ~CtlPipeOpen) /\ handler' = "defer"
    /\ UNCHANGED <<hostVars, hin, acc, op, connVars, ctlVars, history>>
-----------------------------------------------------------------------------
(* Open and Accept.                                                        *)

\* open: a pipe is accepted and the identity written on it, either of which
\* may fail; no pipe is accepted after ControlSocket.Close.
OpenPipe(c) ==
    /\ op[c] = "accept"
    /\ op' \in {At(op, c, "failed")} \cup
               (IF stop = "done" THEN {} ELSE {At(op, c, "store")})
    /\ UNCHANGED <<hostVars, hin, acc, handler, connVars, ctlVars, history>>

OpenStore(c) ==
    /\ op[c] = "store" /\ op' = At(op, c, "offer")
    /\ m' = m \cup {c} /\ conn' = At(conn, c, Still("up"))
    /\ late' = (IF ctl.at \in {"range", "closed"} THEN late \cup {c} ELSE late)
    /\ UNCHANGED <<hostVars, hin, acc, handler, reading, writing, user, on, ev, teller, ctlVars,
                   missed>>

\* The first Accept opens the control connection; an error leaves b.c nil.
AcceptFirst ==
    /\ acc = "idle" /\ acc' = "wait"
    /\ ctl' = Still("up") /\ handler' = "idle"
    /\ UNCHANGED <<hostVars, hin, op, connVars, todo, stop, history>>

\* Accept takes what an Open offers on the channel, a connection or an error.
\* The server calls Accept again, except that an error may make it leave.
AcceptConn(c) ==
    /\ acc = "wait" /\ op[c] = "offer" /\ op' = At(op, c, "done")
    /\ user' = At(user, c, "uses")
    /\ UNCHANGED <<hostVars, hin, acc, handler, conn, reading, writing, on, ev, m, teller,
                   ctlVars, history>>

AcceptErr(c) ==
    /\ acc = "wait" /\ op[c] = "failed" /\ op' = At(op, c, "done")
    /\ acc' \in {"wait", "gone"}
    /\ UNCHANGED <<hostVars, hin, handler, connVars, ctlVars, history>>
-----------------------------------------------------------------------------
(* The user of a connection.                                               *)

Read(c) ==
    /\ c \in Readers \ reading /\ user[c] = "uses" /\ reading' = reading \cup {c}
    /\ UNCHANGED <<hostVars, hin, acc, handler, op, conn, writing, user, on, ev, m, teller,
                   ctlVars, history>>

\* Read returns data of the host, or an error when either end is closed.
ReadReturns(c) ==
    /\ c \in reading /\ reading' = reading \ {c}
    /\ UNCHANGED <<hostVars, hin, acc, handler, op, conn, writing, user, on, ev, m, teller,
                   ctlVars, history>>

\* A Write that finds closedWrites returns at once.
Write(c) ==
    /\ c \in Writers \ writing /\ user[c] = "uses" /\ conn[c].at \in {"up", "begun"}
    /\ writing' = writing \cup {c}
    /\ UNCHANGED <<hostVars, hin, acc, handler, op, conn, reading, user, on, ev, m, teller,
                   ctlVars, history>>

\* The host has read what was written, or the pipe is lost.
WriteReturns(c) ==
    /\ c \in writing /\ writing' = writing \ {c}
    /\ UNCHANGED <<hostVars, hin, acc, handler, op, conn, reading, user, on, ev, m, teller,
                   ctlVars, history>>

UserClose(c) ==
    /\ c \in Leavers /\ user[c] = "uses" /\ user' = At(user, c, "left")
    /\ on' = At(on, c, c)
    /\ UNCHANGED <<hostVars, hin, acc, handler, op, conn, reading, writing, ev, m, teller,
                   ctlVars, history>>
-----------------------------------------------------------------------------
Handler == HandlerRead \/ HandlerMsg \/ HandlerErr
Open(c) == OpenPipe(c) \/ OpenStore(c)
AcceptNext == \E c \in Conn : AcceptConn(c) \/ AcceptErr(c)

Next ==
    \/ HostOpen \/ HostCtlHup \/ AcceptFirst \/ AcceptNext \/ Close \/ Handler
    \/ \E c \in Conn :
         \/ HostClose(c)
         \/ Open(c)
         \/ Read(c) \/ ReadReturns(c) \/ Write(c) \/ WriteReturns(c) \/ UserClose(c)
    \/ \E p \in Procs : CloseConn(p) \/ EventEnd(p)
    \/ \E p \in {HandlerP, StopP} : CloseCtl(p)

Spec == Init /\ [][Next]_vars

\* Goroutines run, and one that waits for a Mutex gets it if the Mutex is free
\* again and again.  The host need not send or read: a Read or Write on a
\* connection may wait for ever, and so may a close event on the control
\* connection until the host hangs up.
FairSpec ==
    /\ Spec
    /\ WF_vars(Handler) /\ WF_vars(AcceptNext)
    /\ \A c \in Conn : WF_vars(Open(c))
    /\ \A p \in Leavers : SF_vars(CloseConn(p))
    /\ \A p \in {HandlerP, StopP} : SF_vars(CloseConn(p) \/ CloseCtl(p))
    /\ \A p \in Procs : WF_vars(ctlHup /\ EventEnd(p))
-----------------------------------------------------------------------------
(* Properties.                                                             *)

Stages ==
    [at : {"none", "up", "closed"}, by : {Nobody}]
        \cup [at : {"begun", "writes", "reads", "pipe", "gone", "told"}, by : Procs]

\* The variables keep their types.
TypeOK ==
    /\ n \in 0..MaxConns /\ ctlHup \in BOOLEAN /\ ev \in [Conn -> Nat]
    /\ hcl \subseteq Conn /\ m \subseteq Conn
    /\ reading \subseteq Conn /\ writing \subseteq Conn
    /\ todo \subseteq Conn /\ missed \subseteq Conn /\ late \subseteq Conn
    /\ acc \in {"idle", "wait", "gone"}
    /\ handler \in {"none", "idle", "in", "defer", "done"}
    /\ stop \in {"none", "ctl", "done"}
    /\ op \in [Conn -> {"none", "accept", "store", "offer", "failed", "done"}]
    /\ conn \in [Conn -> Stages] /\ on \in [Procs -> 0..MaxConns]
    /\ teller \in Procs \cup {Nobody}
    /\ user \in [Conn -> {"none", "uses", "left"}]

\* Whoever closes a connection, and however many do, the host is sent the two
\* close events of one Close at most, and none while the fd still names the
\* connection in the map; and the Close of a connection that returned while
\* the control connection was up has sent both (control.go:78-91, 192-216).
\* The control connection may be lost between the two.
CloseTold ==
    \A c \in Conn :
        /\ ev[c] <= 2 /\ (ev[c] > 0 => c \notin m)
        /\ conn[c].at = "closed" /\ CtlWritable /\ ~ctlHup => ev[c] = 2

\* When the Close of the control connection is through, no connection is left
\* open but those an Open stored after it had begun to go through the map
\* (control.go:197-201, 264).
NoneLeftBehind == ctl.at = "closed" => m \subseteq late

\* The Close of d waits for a Read or a Write in progress on d.
HeldUp(d) ==
    \/ conn[d].at = "begun" /\ d \in writing
    \/ conn[d].at \in {"writes", "reads"} /\ d \in reading

\* The handler or the Close of the listener is closing d.
InTheWay(d) == on[HandlerP] = d \/ on[StopP] = d

\* c is stored, its close was asked for and not missed, and it is open.
Unclosed(c) ==
    /\ conn[c].at \notin {"none", "closed"} /\ c \notin late
    /\ c \in hcl \ missed \/ ctlHup

\* A connection is closed when the host asks for it, and when the control
\* connection vanishes ("We close out every connection", control.go:195),
\* unless a Read or a Write that never returns holds the lock that its Close
\* waits for, or that of another connection which the one handler or the Close
\* of the listener is closing, or the host leaves a close event unread.  A
\* request that came before the connection was stored is lost, and a connection
\* stored behind the Range stays.  Close of the listener returns once the host
\* hangs up, with the same exception, although it waits for the Read of the
\* handler, and the handler for it (control.go:187, 276).
ClosesWhenAsked ==
    /\ \A c \in Conn :
         <>[]Unclosed(c) =>
             \/ \E d \in Conn : <>[](HeldUp(d) /\ (c = d \/ InTheWay(d)))
             \/ <>[](teller # Nobody /\ ~ctlHup)
    /\ <>[](stop = "ctl" /\ ctlHup) => \E d \in Conn : <>[](HeldUp(d) /\ InTheWay(d))
=============================================================================
