------------------------------- MODULE Tunnel -------------------------------
(***************************************************************************)
(* A forwarded connection: forward.Forward (forward/forward.go) at both    *)
(* sides of one Forward rpc.  Each side copies between the rpc's stream,   *)
(* the ReadWriteCloser x, and a connection y to an application, with one   *)
(* goroutine per direction ("up" is y to x, "down" is x to y), and then    *)
(* closes both.  The client side is makeForwarder of forward/ports, the    *)
(* server side is WaterfallServer.Forward, whose return ends the rpc.      *)
(*                                                                         *)
(* Data are numbered chunks, so counters say which ones have gone where:   *)
(* of the chunks wrote[s] by the application at s, s has read upRead[s]    *)
(* from y and sent sent[s]; recvd[s] and put[s] count what s has taken     *)
(* from its peer's messages and written to y.  StreamReader shows that a   *)
(* stream may be treated as such a queue of chunks.                        *)
(***************************************************************************)
EXTENDS Naturals, Sequences

Side == {"client", "server"}

CONSTANTS
    MaxChunks,          \* bound: chunks the application at a side writes
    Window              \* chunks in flight from a side: msgChan and the flow control

ASSUME TunnelAssumption == MaxChunks \in [Side -> Nat] /\ Window \in [Side -> Nat \ {0}]

Peer(s) == IF s = "client" THEN "server" ELSE "client"

VARIABLES
    app,                \* "open", "half" closed for writing, "gone"
    wrote,              \* chunks written by the application
    fin,                \* sides whose application has seen the end of y
    up, down,           \* where the two copying goroutines of a side are
    main,               \* where Forward itself is
    upRead, sent, recvd, put,
    closes,             \* CLOSE messages sent
    cr, cw,             \* sides whose stream is closed for reading, writing
    yclosed,            \* sides that have closed y
    done, errs,         \* calls of wg.Done and errors put on errCh
    rpc                 \* "up", "finished" by the server, "cancelled"

appVars == <<app, wrote>>
upVars == <<up, upRead, sent>>
downVars == <<down, recvd, put>>
vars == <<appVars, fin, upVars, downVars, main, closes, cr, cw, yclosed, done, errs, rpc>>

At(f, s, v) == [f EXCEPT ![s] = v]
Inc(f, s) == [f EXCEPT ![s] = @ + 1]
InFlight(s) == sent[s] - recvd[Peer(s)]      \* a CLOSE takes no room to speak of
CanSend(s) == rpc = "up" /\ InFlight(s) < Window[s]

Init ==
    /\ app = [s \in Side |-> "open"]
    /\ up = [s \in Side |-> "copy"] /\ down = [s \in Side |-> "copy"]
    /\ main = [s \in Side |-> "wait"]
    /\ wrote = [s \in Side |-> 0] /\ upRead = [s \in Side |-> 0]
    /\ sent = [s \in Side |-> 0] /\ recvd = [s \in Side |-> 0]
    /\ put = [s \in Side |-> 0] /\ closes = [s \in Side |-> 0]
    /\ done = [s \in Side |-> 0] /\ errs = [s \in Side |-> 0]
    /\ fin = {} /\ cr = {} /\ cw = {} /\ yclosed = {}
    /\ rpc = "up"
-----------------------------------------------------------------------------
(* The applications and the rpc.                                           *)

AppWrite(s) ==
    /\ app[s] = "open" /\ wrote[s] < MaxChunks[s]
    /\ wrote' = Inc(wrote, s)
    /\ UNCHANGED <<app, fin, upVars, downVars, main, closes, cr, cw, yclosed, done, errs, rpc>>

AppCloseWrite(s) ==
    /\ app[s] = "open"
    /\ app' = At(app, s, "half")
    /\ UNCHANGED <<wrote, fin, upVars, downVars, main, closes, cr, cw, yclosed, done, errs, rpc>>

\* The application resets the connection or dies.
AppGone(s) ==
    /\ app[s] # "gone"
    /\ app' = At(app, s, "gone")
    /\ UNCHANGED <<wrote, fin, upVars, downVars, main, closes, cr, cw, yclosed, done, errs, rpc>>

\* The forwarding session is stopped: its context is cancelled.
Cancel ==
    /\ rpc = "up"
    /\ rpc' = "cancelled"
    /\ UNCHANGED <<appVars, fin, upVars, downVars, main, closes, cr, cw, yclosed, done, errs>>
-----------------------------------------------------------------------------
(* asyncCopy(x, y): io.Copy reads a chunk from y and writes it to x.       *)

UpRead(s) ==
    /\ up[s] = "copy" /\ s \notin yclosed
    /\ upRead[s] < wrote[s]
    /\ upRead' = Inc(upRead, s)
    /\ up' = At(up, s, "write")
    /\ UNCHANGED <<appVars, fin, sent, downVars, main, closes, cr, cw, yclosed, done, errs, rpc>>

\* End of y: io.Copy returns nil, wg.Done() runs before the deferred closes.
UpEof(s) ==
    /\ up[s] = "copy" /\ s \notin yclosed
    /\ app[s] # "open" /\ upRead[s] = wrote[s]
    /\ done' = Inc(done, s)
    /\ up' = At(up, s, "closeWrite")
    /\ UNCHANGED <<appVars, fin, upRead, sent, downVars, main, closes, cr, cw, yclosed, errs, rpc>>

\* ReadWriteCloser.Write looks at cw, then calls SendMsg.
UpWrite(s) ==
    /\ up[s] = "write" /\ s \notin cw
    /\ up' = At(up, s, "send")
    /\ UNCHANGED <<appVars, fin, upRead, sent, downVars, main, closes, cr, cw, yclosed, done, errs, rpc>>

UpSend(s) ==
    /\ up[s] = "send" /\ CanSend(s)
    /\ sent' = Inc(sent, s)
    /\ up' = At(up, s, "copy")
    /\ UNCHANGED <<appVars, fin, upRead, downVars, main, closes, cr, cw, yclosed, done, errs, rpc>>

\* Reading y, Write or SendMsg fails: the error goes to errCh.
UpFail(s) ==
    /\ \/ up[s] = "copy" /\ (s \in yclosed \/ app[s] = "gone")
       \/ up[s] = "write" /\ s \in cw
       \/ up[s] = "send" /\ rpc # "up"
    /\ errs' = Inc(errs, s)
    /\ up' = At(up, s, "closeWrite")
    /\ UNCHANGED <<appVars, fin, upRead, sent, downVars, main, closes, cr, cw, yclosed, done, rpc>>

\* Mutant of UpCloseWrite: wg.Done() is deferred as well as called.
UpCloseWriteDone(s) ==
    /\ up[s] = "closeWrite"
    /\ \/ CanSend(s) /\ closes' = Inc(closes, s)
       \/ rpc # "up" /\ UNCHANGED closes
    /\ up' = At(up, s, "done")
    /\ done' = Inc(done, s)
    /\ UNCHANGED <<appVars, fin, upRead, sent, downVars, main, cr, cw, yclosed, errs, rpc>>

\* Mutant of UpCloseWrite: the copier sets the flag and sends nothing.
UpCloseWriteSilent(s) ==
    /\ up[s] = "closeWrite"
    /\ up' = At(up, s, "done")
    /\ UNCHANGED <<appVars, fin, upRead, sent, downVars, main, closes, cr, cw, yclosed, done, errs, rpc>>

\* The deferred y.CloseRead(), which the application does not notice, and
\* x.CloseWrite(), which sends CLOSE.  That it sets cw as well is seen by no one:
\* only this copier writes.
UpCloseWrite(s) ==
    /\ up[s] = "closeWrite"
    /\ \/ CanSend(s) /\ closes' = Inc(closes, s)
       \/ rpc # "up" /\ UNCHANGED closes
    /\ up' = At(up, s, "done")
    /\ UNCHANGED <<appVars, fin, upRead, sent, downVars, main, cr, cw, yclosed, done, errs, rpc>>
-----------------------------------------------------------------------------
(* asyncCopy(y, x): io.Copy reads a chunk from x and writes it to y.       *)

\* Read looks at cr on entry only: one that already waits may still take a
\* message after the flag is set.
DownRecv(s) ==
    /\ down[s] = "copy" /\ recvd[s] < sent[Peer(s)]
    /\ recvd' = Inc(recvd, s)
    /\ down' = At(down, s, "write")
    /\ UNCHANGED <<appVars, fin, upVars, put, main, closes, cr, cw, yclosed, done, errs, rpc>>

\* Mutant of DownEof: CLOSE is acted on before the chunks received earlier.
DownEofEarly(s) ==
    /\ down[s] = "copy"
    /\ closes[Peer(s)] > 0
    /\ done' = Inc(done, s)
    /\ down' = At(down, s, "closeRead")
    /\ UNCHANGED <<appVars, fin, upVars, recvd, put, main, closes, cr, cw, yclosed, errs, rpc>>

\* The peer's CLOSE, after everything it sent before.
DownEof(s) ==
    /\ down[s] = "copy" /\ recvd[s] = sent[Peer(s)]
    /\ closes[Peer(s)] > 0
    /\ done' = Inc(done, s)
    /\ down' = At(down, s, "closeRead")
    /\ UNCHANGED <<appVars, fin, upVars, recvd, put, main, closes, cr, cw, yclosed, errs, rpc>>

\* The write to y returns when the application has taken enough of what is
\* before it, which it may never do.
DownWrite(s) ==
    /\ down[s] = "write" /\ s \notin yclosed /\ app[s] # "gone"
    /\ put' = Inc(put, s)
    /\ down' = At(down, s, "copy")
    /\ UNCHANGED <<appVars, fin, upVars, recvd, main, closes, cr, cw, yclosed, done, errs, rpc>>

\* Read finds cr, RecvMsg fails, or writing to y fails.  The client receives
\* what the server sent before it finished the rpc, its CLOSE included; the
\* server's own stream is over when its handler has returned.
DownFail(s) ==
    /\ \/ down[s] = "copy" /\ s \in cr
       \/ down[s] = "copy" /\ rpc = "cancelled"
       \/ down[s] = "copy" /\ rpc = "finished" /\ s = "server"
       \/ down[s] = "write" /\ (s \in yclosed \/ app[s] = "gone")
    /\ errs' = Inc(errs, s)
    /\ down' = At(down, s, "closeRead")
    /\ UNCHANGED <<appVars, fin, upVars, recvd, put, main, closes, cr, cw, yclosed, done, rpc>>

\* Mutant of DownClose: y is not half-closed when one direction ends.
DownCloseSilent(s) ==
    /\ down[s] = "closeRead"
    /\ cr' = cr \cup {s}
    /\ down' = At(down, s, "done")
    /\ UNCHANGED <<appVars, fin, upVars, recvd, put, main, closes, cw, yclosed, done, errs, rpc>>

\* x.CloseRead() and y.CloseWrite(): the application sees the end.
DownClose(s) ==
    /\ down[s] = "closeRead"
    /\ cr' = cr \cup {s}
    /\ fin' = fin \cup {s}
    /\ down' = At(down, s, "done")
    /\ UNCHANGED <<appVars, upVars, recvd, put, main, closes, cw, yclosed, done, errs, rpc>>
-----------------------------------------------------------------------------
(* Forward.                                                                *)

\* Mutant of Return: one finished direction is enough.
ReturnEarly(s) ==
    /\ main[s] = "wait"
    /\ done[s] > 0 \/ errs[s] > 0
    /\ yclosed' = yclosed \cup {s}
    /\ fin' = fin \cup {s}
    /\ main' = At(main, s, "closeX")
    /\ UNCHANGED <<appVars, upVars, downVars, closes, cr, cw, done, errs, rpc>>

\* Both directions are done or one has failed; the deferred calls run:
\* y.Close() first.
Return(s) ==
    /\ main[s] = "wait"
    /\ done[s] = 2 \/ errs[s] > 0
    /\ yclosed' = yclosed \cup {s}
    /\ fin' = fin \cup {s}
    /\ main' = At(main, s, "closeX")
    /\ UNCHANGED <<appVars, upVars, downVars, closes, cr, cw, done, errs, rpc>>

\* x.Close(): both flags, then CloseWrite is in SendMsg.
CloseX(s) ==
    /\ main[s] = "closeX"
    /\ cr' = cr \cup {s} /\ cw' = cw \cup {s}
    /\ main' = At(main, s, "sendClose")
    /\ UNCHANGED <<appVars, fin, upVars, downVars, closes, yclosed, done, errs, rpc>>

\* Forward has returned; at the server the handler returns with it.
Returned(s) ==
    /\ main[s] = "sendClose"
    /\ \/ CanSend(s) /\ closes' = Inc(closes, s)
       \/ rpc # "up" /\ UNCHANGED closes
    /\ main' = At(main, s, "returned")
    /\ rpc' = IF s = "server" /\ rpc = "up" THEN "finished" ELSE rpc
    /\ UNCHANGED <<appVars, fin, upVars, downVars, cr, cw, yclosed, done, errs>>
-----------------------------------------------------------------------------
App(s) == AppWrite(s) \/ AppCloseWrite(s) \/ AppGone(s)
Up(s) == \/ UpRead(s) \/ UpEof(s) \/ UpWrite(s) \/ UpSend(s) \/ UpFail(s)
         \/ UpCloseWrite(s)
DownRun(s) == DownRecv(s) \/ DownEof(s) \/ DownFail(s) \/ DownClose(s)
Down(s) == DownRun(s) \/ DownWrite(s)
Forward(s) == Return(s) \/ CloseX(s) \/ Returned(s)

Next == Cancel \/ \E s \in Side : App(s) \/ Up(s) \/ Down(s) \/ Forward(s)

Spec == Init /\ [][Next]_vars

\* The goroutines run on.  Nothing is assumed of the applications: they need
\* neither write nor read, so DownWrite is not fair.
FairSpec ==
    /\ Spec
    /\ \A s \in Side : WF_vars(Up(s)) /\ WF_vars(DownRun(s)) /\ WF_vars(Forward(s))
-----------------------------------------------------------------------------
(* Properties.                                                             *)

\* The variables keep their types; wg.Done is called at most twice and errCh,
\* of capacity 2, never blocks a copier.
TypeOK ==
    /\ app \in [Side -> {"open", "half", "gone"}]
    /\ up \in [Side -> {"copy", "write", "send", "closeWrite", "done"}]
    /\ down \in [Side -> {"copy", "write", "closeRead", "done"}]
    /\ main \in [Side -> {"wait", "closeX", "sendClose", "returned"}]
    /\ \A f \in {wrote, upRead, sent, recvd, put, closes} : f \in [Side -> Nat]
    /\ fin \subseteq Side /\ cr \subseteq Side /\ cw \subseteq Side /\ yclosed \subseteq Side
    /\ done \in [Side -> 0..2] /\ errs \in [Side -> 0..2]
    /\ rpc \in {"up", "finished", "cancelled"}

\* Something other than orderly half-closes has happened.
Failed == rpc = "cancelled" \/ \E s \in Side : app[s] = "gone"

\* As long as the applications only half-close and the session is not stopped,
\* neither Forward fails, in whatever order the two directions end and the two
\* sides' closing calls and the end of the rpc interleave.
NoSpuriousError == ~Failed => \A s \in Side : errs[s] = 0

\* A side is stuck sending: its peer no longer takes messages off msgChan, and
\* nothing ends the rpc.
Stuck == \E s \in Side : rpc = "up" /\ down[Peer(s)] = "done" /\ InFlight(s) >= Window[s]

\* The copier at s sits in the write to an application that does not read.
Unread(s) == down[s] = "write" /\ s \notin yclosed /\ app[s] # "gone"

\* When both applications have stopped writing, both Forwards return.  If one
\* never does, a side is Stuck or its application Unread for ever.
TunnelEnds ==
    <>[]((\A s \in Side : app[s] # "open") /\ (\E s \in Side : main[s] # "returned"))
        => <>[](Stuck \/ \E s \in Side : Unread(s))

\* An application that stops writing is seen to: its peer reaches the end of the
\* stream whatever the other direction does.  If it never does, that is because
\* it does not read what came before.
EndReachesPeer ==
    \A s \in Side : <>[](app[s] # "open" /\ Peer(s) \notin fin) => <>[]Unread(Peer(s))

\* What ReadWriteCloser asks of its users (stream.go:172): no two writes to the
\* stream of a side at the same time.  Its users are the copier and Forward's
\* deferred x.Close(); this asks it of orderly ends only.
WritesAlone ==
    ~Failed => \A s \in Side : ~(up[s] \in {"send", "closeWrite"} /\ main[s] = "sendClose")

\* From application to application, each direction is a byte stream.
Stream == INSTANCE ByteStream WITH
    Dir <- Side,
    written <- [s \in Side |-> wrote[Peer(s)]],
    delivered <- [s \in Side |-> [i \in 1..put[s] |-> i]],
    ended <- {s \in Side : app[Peer(s)] # "open"},
    eof <- fin,
    pipe <- IF Failed THEN "lost" ELSE "up"

\* Unless something failed, an application sees the end of its peer's stream
\* only after every chunk of it: half-closing one direction never cuts the
\* other, and the two closing CLOSE messages never overtake data.
StreamSpec == Stream!Spec
=============================================================================
