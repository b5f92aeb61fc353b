---------------------------- MODULE PortForwarder ----------------------------
(***************************************************************************)
(* Forwarding sessions of PortForwarder (forward/ports/ports.go): the rpcs *)
(* ForwardPort, Stop, StopAll and List, and the accept loop that a session *)
(* runs in a goroutine of its own.  ReverseForward models the sessions the *)
(* other way round, and Tunnel what a Forward rpc does with a connection.  *)
(*                                                                         *)
(* Session s is the s-th successful ForwardPort call.  The listener is the *)
(* kernel's: at most one is open for a source, and closing it resets the   *)
(* connections nobody has accepted.                                        *)
(***************************************************************************)
EXTENDS Naturals

CONSTANTS
    Srcs,               \* source addresses that parse
    MaxSessions,        \* bound: sessions ever started
    MaxConns            \* bound: connections made to one listener

ASSUME PortForwarderAssumption ==
    /\ MaxSessions \in Nat /\ MaxConns \in Nat
    /\ Srcs \cap {"none", "malformed"} = {}

Session == 1..MaxSessions
Conn == 1..MaxConns
None == 0
NoAddr == "none"
Malformed == "malformed"
Dsts == {"tcp", "other"}    \* a destination of a known kind, and of an unknown one

VARIABLES
    n,                  \* sessions started so far
    src, dst,           \* src[s], dst[s]: the request of session s
    sessions,           \* PortForwarder.sessions
    call,               \* the rpc that holds sessionsMutex
    lis,                \* lis[s]: the listener of session s
    ctx,                \* sessions whose fCtx is cancelled
    loop,               \* loop[s]: the goroutine of session s
    cur,                \* cur[s]: the connection its loop has accepted
    conn,               \* conn[s][k]: connection k to the listener of s
    rpc                 \* rpc[s][k]: the Forward rpc made for it

vars == <<n, src, dst, sessions, call, lis, ctx, loop, cur, conn, rpc>>
callVars == <<n, src, dst, sessions, call>>

At(f, x, v) == [f EXCEPT ![x] = v]
AtConn(f, s, k, v) == [f EXCEPT ![s][k] = v]
Idle == [at |-> "idle"]
Mapped(s) == \E a \in Srcs : sessions[a] = s

Init ==
    /\ n = 0 /\ src = [s \in Session |-> NoAddr] /\ dst = [s \in Session |-> NoAddr]
    /\ sessions = [a \in Srcs |-> None]
    /\ call = Idle
    /\ lis = [s \in Session |-> "none"] /\ ctx = {}
    /\ loop = [s \in Session |-> "none"] /\ cur = [s \in Session |-> None]
    /\ conn = [s \in Session |-> [k \in Conn |-> "none"]]
    /\ rpc = [s \in Session |-> [k \in Conn |-> "none"]]

parseAddr(a) == a # Malformed
networkKind(d) == d # "other"

\* lis.Close(): connections that wait to be accepted are reset.
CloseLis(s) ==
    /\ lis' = At(lis, s, "closed")
    /\ conn' = At(conn, s, [k \in Conn |->
                 IF conn[s][k] = "queued" THEN "closed" ELSE conn[s][k]])
-----------------------------------------------------------------------------
(* The rpcs.                                                               *)

\* ForwardPort returns an error at once for an address that does not parse,
\* and for a forwarded source unless it is told to rebind.  The requests that
\* pass take sessionsMutex and go on.
ForwardPort(a, d) ==
    /\ call = Idle /\ n < MaxSessions
    /\ parseAddr(a) /\ parseAddr(d)
    /\ sessions[a] = None
    /\ call' = [at |-> "listen", src |-> a, dst |-> d]
    /\ UNCHANGED <<n, src, dst, sessions, lis, ctx, loop, cur, conn, rpc>>

\* Mutant of Rebind: the old listener stays open.
RebindKeepsListener(a, d) ==
    LET s == sessions[a] IN
    /\ call = Idle /\ n < MaxSessions
    /\ parseAddr(a) /\ parseAddr(d) /\ s # None
    /\ sessions' = At(sessions, a, None)
    /\ call' = [at |-> "listen", src |-> a, dst |-> d]
    /\ UNCHANGED <<n, src, dst, lis, ctx, loop, cur, conn, rpc>>

\* Rebind: the old session leaves the map and its listener is closed.  The old
\* context is left to the old loop.  If the loop has closed the listener
\* already, lis.Close() fails and so does ForwardPort.
Rebind(a, d) ==
    LET s == sessions[a] IN
    /\ call = Idle /\ n < MaxSessions
    /\ parseAddr(a) /\ parseAddr(d) /\ s # None
    /\ sessions' = At(sessions, a, None)
    /\ \/ /\ lis[s] = "open" /\ CloseLis(s)
          /\ call' = [at |-> "listen", src |-> a, dst |-> d]
       \/ /\ lis[s] = "closed" /\ UNCHANGED <<lis, conn>>
          /\ call' = Idle
    /\ UNCHANGED <<n, src, dst, ctx, loop, cur, rpc>>

\* net.Listen fails, and ForwardPort with it; a rebound session is lost.
ListenFails ==
    /\ call.at = "listen" /\ call' = Idle
    /\ UNCHANGED <<n, src, dst, sessions, lis, ctx, loop, cur, conn, rpc>>

\* The listener, the context and the entry of the session, and its goroutine.
Listen ==
    LET s == n + 1 IN
    /\ call.at = "listen"
    /\ n' = s /\ src' = At(src, s, call.src) /\ dst' = At(dst, s, call.dst)
    /\ lis' = At(lis, s, "open") /\ loop' = At(loop, s, "accept")
    /\ sessions' = At(sessions, call.src, s)
    /\ call' = Idle
    /\ UNCHANGED <<ctx, cur, conn, rpc>>

\* Mutant of Stop: the session stays in the map.
StopKeepsEntry(a) ==
    /\ call = Idle /\ sessions[a] # None
    /\ ctx' = ctx \cup {sessions[a]}
    /\ call' = [at |-> "stop", of |-> sessions[a]]
    /\ UNCHANGED <<n, src, dst, sessions, lis, loop, cur, conn, rpc>>

\* Stop cancels the session, deletes it, and closes its listener.
Stop(a) ==
    /\ call = Idle /\ sessions[a] # None
    /\ ctx' = ctx \cup {sessions[a]}
    /\ sessions' = At(sessions, a, None)
    /\ call' = [at |-> "stop", of |-> sessions[a]]
    /\ UNCHANGED <<n, src, dst, lis, loop, cur, conn, rpc>>

StopClose ==
    /\ call.at = "stop" /\ call' = Idle
    /\ CloseLis(call.of)
    /\ UNCHANGED <<n, src, dst, sessions, ctx, loop, cur, rpc>>

\* StopAll cancels and closes the sessions one after the other; the map is
\* replaced by an empty one when it is through.
StopAll ==
    /\ call = Idle /\ call' = [at |-> "all", todo |-> {s \in Session : Mapped(s)}]
    /\ UNCHANGED <<n, src, dst, sessions, lis, ctx, loop, cur, conn, rpc>>

StopOne(s) ==
    /\ call.at = "all" /\ s \in call.todo
    /\ ctx' = ctx \cup {s} /\ CloseLis(s)
    /\ call' = [call EXCEPT !.todo = @ \ {s}]
    /\ UNCHANGED <<n, src, dst, sessions, loop, cur, rpc>>

StopAllEnd ==
    /\ call.at = "all" /\ call.todo = {} /\ call' = Idle
    /\ sessions' = [a \in Srcs |-> None]
    /\ UNCHANGED <<n, src, dst, lis, ctx, loop, cur, conn, rpc>>

\* The sessions List reports, at whatever moment of another rpc: it does not
\* take sessionsMutex.
List == {s \in Session : Mapped(s)}
-----------------------------------------------------------------------------
(* The goroutine of a session.                                             *)

Connect(s, k) ==
    /\ lis[s] = "open" /\ conn[s][k] = "none"
    /\ conn' = AtConn(conn, s, k, "queued")
    /\ UNCHANGED <<callVars, lis, ctx, loop, cur, rpc>>

Accept(s, k) ==
    /\ loop[s] = "accept" /\ conn[s][k] = "queued"
    /\ conn' = AtConn(conn, s, k, "accepted")
    /\ loop' = At(loop, s, "make") /\ cur' = At(cur, s, k)
    /\ UNCHANGED <<callVars, lis, ctx, rpc>>

\* Accept fails on a closed listener, and may fail on an open one.
AcceptErr(s) ==
    /\ loop[s] = "accept"
    /\ loop' = At(loop, s, "close")
    /\ UNCHANGED <<callVars, lis, ctx, cur, conn, rpc>>

\* Mutant of MakeFails: the connection is not closed.
MakeFailsOpen(s) ==
    /\ loop[s] = "make"
    /\ loop' = At(loop, s, "accept") /\ cur' = At(cur, s, None)
    /\ UNCHANGED <<callVars, lis, ctx, conn, rpc>>

\* makeForwarder: no Forward rpc can be made, or the context is cancelled.
\* The loop closes the connection and goes on.
MakeFails(s) ==
    /\ loop[s] = "make"
    /\ conn' = AtConn(conn, s, cur[s], "closed")
    /\ loop' = At(loop, s, "accept") /\ cur' = At(cur, s, None)
    /\ UNCHANGED <<callVars, lis, ctx, rpc>>

\* The rpc is made, but the kind of the destination is unknown or the first
\* message cannot be sent.  Nobody closes the rpc.
MakeLeaves(s) ==
    /\ loop[s] = "make"
    /\ rpc' = AtConn(rpc, s, cur[s], "open")
    /\ conn' = AtConn(conn, s, cur[s], "closed")
    /\ loop' = At(loop, s, "accept") /\ cur' = At(cur, s, None)
    /\ UNCHANGED <<callVars, lis, ctx>>

\* go fwdr.Forward()
Make(s) ==
    /\ loop[s] = "make" /\ networkKind(dst[s])
    /\ rpc' = AtConn(rpc, s, cur[s], "open")
    /\ conn' = AtConn(conn, s, cur[s], "forwarded")
    /\ loop' = At(loop, s, "accept") /\ cur' = At(cur, s, None)
    /\ UNCHANGED <<callVars, lis, ctx>>

\* The deferred lis.Close() and cancel().
DeferClose(s) ==
    /\ loop[s] = "close" /\ loop' = At(loop, s, "cancel")
    /\ CloseLis(s)
    /\ UNCHANGED <<callVars, ctx, cur, rpc>>

DeferCancel(s) ==
    /\ loop[s] = "cancel" /\ loop' = At(loop, s, "done")
    /\ ctx' = ctx \cup {s}
    /\ UNCHANGED <<callVars, lis, cur, conn, rpc>>

\* The copier towards the application is in a Write, which returns when the
\* application reads.
ForwardWrites(s, k) ==
    /\ conn[s][k] = "forwarded"
    /\ conn' = AtConn(conn, s, k, "writing")
    /\ UNCHANGED <<callVars, lis, ctx, loop, cur, rpc>>

AppReads(s, k) ==
    /\ conn[s][k] = "writing"
    /\ conn' = AtConn(conn, s, k, "forwarded")
    /\ UNCHANGED <<callVars, lis, ctx, loop, cur, rpc>>

\* Forward returns with both of its ends closed: the applications or the rpc
\* have ended, or a copier has failed.
ForwardReturns(s, k) ==
    /\ conn[s][k] \in {"forwarded", "writing"}
    /\ conn' = AtConn(conn, s, k, "closed") /\ rpc' = AtConn(rpc, s, k, "over")
    /\ UNCHANGED <<callVars, lis, ctx, loop, cur>>

\* The context is cancelled: the copier that receives from the rpc fails.  One
\* in a Write does not notice, nor does the other one in its Read.
ForwardCancelled(s, k) == s \in ctx /\ conn[s][k] = "forwarded" /\ ForwardReturns(s, k)
-----------------------------------------------------------------------------
Goroutine(s) ==
    \/ \E k \in Conn : Accept(s, k)
    \/ AcceptErr(s) \/ MakeFails(s) \/ MakeLeaves(s) \/ Make(s)
    \/ DeferClose(s) \/ DeferCancel(s)

ApiCalls ==
    \/ \E a \in Srcs \cup {Malformed}, d \in Dsts \cup {Malformed} :
         ForwardPort(a, d) \/ Rebind(a, d)
    \/ \E a \in Srcs : Stop(a)
    \/ StopAll

ApiRuns ==
    \/ Listen \/ ListenFails \/ StopClose \/ StopAllEnd
    \/ \E s \in Session : StopOne(s)

Next ==
    \/ ApiCalls \/ ApiRuns
    \/ \E s \in Session : Goroutine(s)
    \/ \E s \in Session, k \in Conn :
         Connect(s, k) \/ ForwardWrites(s, k) \/ AppReads(s, k) \/ ForwardReturns(s, k)

Spec == Init /\ [][Next]_vars

\* The goroutines and the handlers run.  An Accept on a closed listener
\* returns, one on an open listener need not.  Applications need not read; a
\* copier of a cancelled rpc has no more than the messages received before, so
\* it does not go on writing for ever.
FairSpec ==
    /\ Spec /\ WF_vars(ApiRuns)
    /\ \A s \in Session :
         /\ WF_vars(lis[s] = "closed" /\ AcceptErr(s))
         /\ WF_vars(MakeFails(s) \/ MakeLeaves(s) \/ Make(s))
         /\ WF_vars(DeferClose(s) \/ DeferCancel(s))
         /\ \A k \in Conn : SF_vars(ForwardCancelled(s, k))
-----------------------------------------------------------------------------
(* Properties.                                                             *)

LisStates == {"none", "open", "closed"}
Loops == {"none", "accept", "make", "close", "cancel", "done"}
ConnStates == {"none", "queued", "accepted", "forwarded", "writing", "closed"}
Calls ==
    {Idle} \cup [at : {"listen"}, src : Srcs, dst : Dsts]
           \cup [at : {"stop"}, of : Session]
           \cup [at : {"all"}, todo : SUBSET Session]

\* The variables keep their types; a connection is in the hands of its loop
\* exactly while the loop makes a forwarder for it.
TypeOK ==
    /\ n \in 0..MaxSessions
    /\ src \in [Session -> Srcs \cup {NoAddr}]
    /\ dst \in [Session -> Dsts \cup {NoAddr}]
    /\ sessions \in [Srcs -> 0..n]
    /\ call \in Calls /\ (call.at = "listen" => n < MaxSessions)
    /\ lis \in [Session -> LisStates] /\ ctx \subseteq Session
    /\ loop \in [Session -> Loops]
    /\ cur \in [Session -> Conn \cup {None}]
    /\ \A s \in Session : loop[s] = "make" <=> cur[s] # None
    /\ conn \in [Session -> [Conn -> ConnStates]]
    /\ rpc \in [Session -> [Conn -> {"none", "open", "over"}]]

\* No listener outlives its session: an open one belongs to the session that
\* the map has for its source, or Stop is about to close it.  So a connection
\* to a source always reaches the session started last (ports.go:124-147).
NoLeakedListener ==
    \A s \in Session : lis[s] = "open" =>
        sessions[src[s]] = s \/ (call.at = "stop" /\ call.of = s)

\* What List reports is forwarded: the listener of a session in the map is
\* open, unless the loop of the session has given up after an error of Accept
\* or StopAll is at work.
ListIsTrue ==
    \A s \in List : lis[s] = "open" \/ loop[s] \in {"cancel", "done"} \/ call.at = "all"

\* A session that has left the map, by Stop, StopAll or a rebind, winds up: its
\* listener is closed, its context cancelled and its loop over, and so are all
\* its connections (ports.go:316), but for those whose application does not read
\* what Forward writes to it.
SessionWindsUp ==
    \A s \in Session : <>[](n >= s /\ ~Mapped(s)) =>
        <>[](/\ lis[s] = "closed" /\ s \in ctx /\ loop[s] = "done"
             /\ \A k \in Conn : conn[s][k] \in {"none", "closed", "writing"})
=============================================================================
