--------------------------- MODULE ReverseForward ---------------------------
(***************************************************************************)
(* Reverse forwarding sessions.  The client side is PortForwarder's        *)
(* ReverseForwardPort, StopReverse and the goroutine of a session          *)
(* (forward/ports/ports.go); the server side is the rpcs                   *)
(* StartReverseForward, ReverseForward and StopReverseForward              *)
(* (server/server.go).  The server listens for the client, announces every *)
(* connection with an OPEN message, and the client answers with a          *)
(* ReverseForward rpc that carries the connection.                         *)
(*                                                                         *)
(* Session s is the s-th successful ReverseForwardPort call.  Its source   *)
(* is an address, or "any" for localhost:0, where the server picks a port. *)
(* Tunnel models what a ReverseForward rpc does with a connection.         *)
(***************************************************************************)
EXTENDS Naturals, Sequences

CONSTANTS
    Srcs,               \* source addresses of the requests
    MaxSessions,        \* bound: sessions ever started
    MaxConns,           \* bound: connections accepted by one listener
    AcceptErrors        \* whether Accept may fail on an open listener

ASSUME ReverseForwardAssumption ==
    MaxSessions \in Nat /\ MaxConns \in Nat /\ AcceptErrors \in BOOLEAN

Session == 1..MaxSessions
Conn == 1..MaxConns
None == 0
Announce == 0           \* in opens; an OPEN message is its connection
\* Who waits for a StopReverseForward rpc: the API call (None), the goroutine of
\* a session, or nobody any more.
Gone == MaxSessions + 1

VARIABLES
    \* client
    n,                  \* sessions started so far
    src,                \* src[s]: the source of session s
    reverseSessions,    \* PortForwarder.reverseSessions
    call,               \* the API call that holds reverseSessionsMutex
    last,               \* last[a]: how the last API call for a ended
    ctx,                \* sessions whose fCtx is cancelled
    gor,                \* the goroutine of a session
    \* in between
    stops,              \* StopReverseForward rpcs to be served: <<who, address>>
    stopped,            \* who has the answer to its StopReverseForward
    opens,              \* opens[s]: messages of s's StartReverseForward rpc
    \* server
    h,                  \* the StartReverseForward handler of a session
    sessions,           \* WaterfallServer.reverseForwardSessions
    lis,                \* the listener of a session
    acc,                \* connections accepted
    conn,               \* conn[s][k]: connection k of session s
    strm                \* strm[s][k]: the ReverseForward rpc sent for it

clientVars == <<n, src, reverseSessions, call, last, ctx, gor>>
connVars == <<acc, conn, strm>>
serverVars == <<h, sessions, lis>>
rpcVars == <<stops, stopped>>
vars == <<clientVars, rpcVars, opens, serverVars, connVars>>

At(f, x, v) == [f EXCEPT ![x] = v]
AtConn(f, s, k, v) == [f EXCEPT ![s][k] = v]

\* The server's name for an address: a picked port is the session's own.
Keys == Srcs \X (0..MaxSessions)
Key(s) == IF src[s] = "any" THEN <<"any", s>> ELSE <<src[s], 0>>
NoStream == [at |-> "none", of |-> None]

Init ==
    /\ n = 0 /\ src = <<>>
    /\ reverseSessions = [a \in Srcs |-> None]
    /\ call = [at |-> "idle"]
    /\ last = [a \in Srcs |-> "none"]
    /\ ctx = {} /\ gor = [s \in Session |-> "none"]
    /\ stops = {} /\ stopped = {}
    /\ opens = [s \in Session |-> <<>>]
    /\ h = [s \in Session |-> "none"]
    /\ sessions = [x \in Keys |-> None]
    /\ lis = [s \in Session |-> "none"]
    /\ acc = [s \in Session |-> 0]
    /\ conn = [s \in Session |-> [k \in Conn |-> "none"]]
    /\ strm = [s \in Session |-> [k \in Conn |-> NoStream]]
-----------------------------------------------------------------------------
(* The client's API.  One call at a time holds reverseSessionsMutex.  A    *)
(* request that is refused (no rebind) and a StopReverse that finds no     *)
(* session change nothing.                                                 *)

\* The part of ReverseForwardPort that starts the session: the rpc is on its
\* way, the session is stored and its goroutine runs.
Start(a) ==
    /\ n < MaxSessions
    /\ n' = n + 1
    /\ src' = Append(src, a)
    /\ h' = At(h, n + 1, "called")
    /\ gor' = At(gor, n + 1, "recv")
    /\ last' = At(last, a, "started")

ReverseForwardPort(a) ==
    /\ call.at = "idle" /\ reverseSessions[a] = None
    /\ Start(a)
    /\ reverseSessions' = At(reverseSessions, a, n + 1)
    /\ UNCHANGED <<call, ctx, rpcVars, opens, sessions, lis, connVars>>

\* stopReverseForwarding: the session leaves the map, then the server is asked
\* to stop it; its context is cancelled when the rpc is over.
BeginStop(a, why) ==
    /\ call.at = "idle" /\ reverseSessions[a] # None
    /\ call' = [at |-> why, src |-> a, of |-> reverseSessions[a]]
    /\ reverseSessions' = At(reverseSessions, a, None)
    /\ stops' = stops \cup {<<None, a>>} /\ UNCHANGED stopped
    /\ last' = At(last, a, "none")
    /\ UNCHANGED <<n, src, ctx, gor, opens, serverVars, connVars>>

Rebind(a) == n < MaxSessions /\ BeginStop(a, "rebind")
StopReverse(a) == BeginStop(a, "stop")

StopReverseReturns ==
    /\ call.at = "stop" /\ None \in stopped
    /\ stopped' = stopped \ {None} /\ UNCHANGED stops
    /\ ctx' = ctx \cup {call.of}
    /\ last' = At(last, call.src, "stopped")
    /\ call' = [at |-> "idle"]
    /\ UNCHANGED <<n, src, reverseSessions, gor, opens, serverVars, connVars>>

RebindStarts ==
    /\ call.at = "rebind" /\ None \in stopped
    /\ stopped' = stopped \ {None} /\ UNCHANGED stops
    /\ ctx' = ctx \cup {call.of}
    /\ Start(call.src)
    /\ reverseSessions' = At(reverseSessions, call.src, n + 1)
    /\ call' = [at |-> "idle"]
    /\ UNCHANGED <<opens, sessions, lis, connVars>>

\* The sender of a StopReverseForward stops waiting; a request on its way is
\* dropped, or still served.
Abandon(who, a) ==
    /\ stopped' = stopped \ {who}
    /\ \/ stops' = stops \ {<<who, a>>}
       \/ <<who, a>> \in stops /\ stops' = (stops \ {<<who, a>>}) \cup {<<Gone, a>>}

\* Mutant of CallFails: an error leaves the mutex locked.
CallFailsLocked ==
    /\ call.at \in {"stop", "rebind"}
    /\ Abandon(None, call.src)
    /\ ctx' = ctx \cup {call.of}
    /\ call' = [at |-> "locked"]
    /\ UNCHANGED <<n, src, reverseSessions, last, gor, opens, serverVars, connVars>>

\* Mutant of CallFails: a failed rpc leaves the session running.
CallFailsNoCancel ==
    /\ call.at \in {"stop", "rebind"}
    /\ Abandon(None, call.src)
    /\ call' = [at |-> "idle"]
    /\ UNCHANGED <<n, src, reverseSessions, last, ctx, gor, opens, serverVars, connVars>>

\* The caller gives up, an rpc fails, or the new request's dst is malformed:
\* the session is cancelled and stays out of the map.
CallFails ==
    /\ call.at \in {"stop", "rebind"}
    /\ Abandon(None, call.src)
    /\ ctx' = ctx \cup {call.of}
    /\ call' = [at |-> "idle"]
    /\ UNCHANGED <<n, src, reverseSessions, last, gor, opens, serverVars, connVars>>
-----------------------------------------------------------------------------
(* The goroutine of a session.                                             *)

\* An OPEN message: a ReverseForward rpc hands the server a stream, whether
\* the connection to dst is refused or not.
Open(s) ==
    /\ gor[s] = "recv" /\ opens[s] # <<>> /\ Head(opens[s]) # Announce
    /\ s \notin ctx
    /\ strm' = AtConn(strm, s, Head(opens[s]), [NoStream EXCEPT !.at = "sent"])
    /\ opens' = At(opens, s, Tail(opens[s]))
    /\ UNCHANGED <<clientVars, rpcVars, serverVars, acc, conn>>

\* Mutant of LeaveLoop: the loop goes on when Recv says that the rpc is over.
LeaveLoopNotOnEnd(s) ==
    /\ gor[s] = "recv"
    /\ s \in ctx \/ (opens[s] # <<>> /\ Head(opens[s]) = Announce)
    /\ gor' = At(gor, s, "stop")
    /\ UNCHANGED <<n, src, reverseSessions, call, last, ctx, rpcVars, opens, serverVars, connVars>>

\* Recv or ReverseForward fails, or the message is not an OPEN.
LeaveLoop(s) ==
    /\ gor[s] = "recv"
    /\ \/ s \in ctx
       \/ h[s] = "done" /\ opens[s] = <<>>
       \/ opens[s] # <<>> /\ Head(opens[s]) = Announce
    /\ gor' = At(gor, s, "stop")
    /\ UNCHANGED <<n, src, reverseSessions, call, last, ctx, rpcVars, opens, serverVars, connVars>>

\* Mutant of DeferredStop: the session is not deleted from the map.
DeferredStopKeeps(s) ==
    /\ gor[s] = "stop"
    /\ UNCHANGED reverseSessions
    /\ IF s \in ctx THEN gor' = At(gor, s, "done") /\ UNCHANGED stops
                    ELSE gor' = At(gor, s, "stopRpc") /\ stops' = stops \cup {<<s, src[s]>>}
    /\ UNCHANGED <<n, src, call, last, ctx, stopped, opens, serverVars, connVars>>

\* The deferred stopReverseForwarding, without the mutex: whatever session the
\* map has for the address leaves it.  With a cancelled context no rpc is sent.
DeferredStop(s) ==
    /\ gor[s] = "stop"
    /\ reverseSessions' = At(reverseSessions, src[s], None)
    /\ IF s \in ctx THEN gor' = At(gor, s, "done") /\ UNCHANGED stops
                    ELSE gor' = At(gor, s, "stopRpc") /\ stops' = stops \cup {<<s, src[s]>>}
    /\ UNCHANGED <<n, src, call, last, ctx, stopped, opens, serverVars, connVars>>

\* The rpc has returned, or its context was cancelled.
DeferredStopReturns(s) ==
    /\ gor[s] = "stopRpc"
    /\ s \in stopped \/ s \in ctx
    /\ Abandon(s, src[s])
    /\ ctx' = ctx \cup {s}
    /\ gor' = At(gor, s, "done")
    /\ UNCHANGED <<n, src, reverseSessions, call, last, opens, serverVars, connVars>>
-----------------------------------------------------------------------------
(* The server's StartReverseForward handler.                               *)

\* The check for an existing session, under a read lock; or the rpc was
\* cancelled before its handler ran.
Check(s) ==
    /\ h[s] = "called"
    /\ \/ sessions[Key(s)] = None /\ h' = At(h, s, "listen")
       \/ (sessions[Key(s)] # None \/ s \in ctx) /\ h' = At(h, s, "done")
    /\ UNCHANGED <<clientVars, rpcVars, opens, sessions, lis, connVars>>

\* buildListener, outside the lock; the address may be in use.
Listen(s) ==
    /\ h[s] = "listen"
    /\ \/ /\ \A t \in 1..n : lis[t] = "open" => Key(t) # Key(s)
          /\ h' = At(h, s, "store") /\ lis' = At(lis, s, "open")
       \/ h' = At(h, s, "done") /\ UNCHANGED lis
    /\ UNCHANGED <<clientVars, rpcVars, opens, sessions, connVars>>

\* The session is stored; a picked port is announced.
Store(s) ==
    /\ h[s] = "store"
    /\ sessions' = At(sessions, Key(s), s)
    /\ opens' = IF src[s] = "any" THEN At(opens, s, Append(opens[s], Announce)) ELSE opens
    /\ h' = At(h, s, "accept")
    /\ UNCHANGED <<clientVars, rpcVars, lis, connVars>>

Accept(s) ==
    /\ h[s] = "accept" /\ lis[s] = "open" /\ acc[s] < MaxConns
    /\ acc' = At(acc, s, acc[s] + 1)
    /\ conn' = AtConn(conn, s, acc[s] + 1, "accepted")
    /\ h' = At(h, s, "map")
    /\ UNCHANGED <<clientVars, rpcVars, opens, sessions, lis, strm>>

MapConn(s) ==
    /\ h[s] = "map"
    /\ conn' = AtConn(conn, s, acc[s], "mapped")
    /\ h' = At(h, s, "send")
    /\ UNCHANGED <<clientVars, rpcVars, opens, sessions, lis, acc, strm>>

\* Send may succeed on an rpc that the client has just cancelled.
SendOpen(s) ==
    /\ h[s] = "send"
    /\ opens' = At(opens, s, Append(opens[s], acc[s]))
    /\ h' = At(h, s, "accept")
    /\ UNCHANGED <<clientVars, rpcVars, sessions, lis, connVars>>

\* Send fails: the entry for the address is deleted, whoever's it is.
SendFails(s) ==
    /\ h[s] = "send" /\ s \in ctx
    /\ sessions' = At(sessions, Key(s), None)
    /\ h' = At(h, s, "exit")
    /\ UNCHANGED <<clientVars, rpcVars, opens, lis, connVars>>

\* Accept fails, by itself or because the listener was closed.
AcceptFails(s) ==
    /\ h[s] = "accept" /\ (AcceptErrors \/ lis[s] = "closed")
    /\ h' = At(h, s, "exit")
    /\ UNCHANGED <<clientVars, rpcVars, opens, sessions, lis, connVars>>

\* The deferred lis.Close().
Exit(s) ==
    /\ h[s] = "exit"
    /\ lis' = At(lis, s, "closed")
    /\ h' = At(h, s, "done")
    /\ UNCHANGED <<clientVars, rpcVars, opens, sessions, connVars>>
-----------------------------------------------------------------------------
(* The server's StopReverseForward and ReverseForward handlers.            *)

\* The session of the address leaves the map; its listener and the
\* connections in its connMap are closed, all under the lock.
StopReverseForward(who, a) ==
    /\ <<who, a>> \in stops
    /\ stops' = stops \ {<<who, a>>}
    /\ stopped' = IF who = Gone THEN stopped ELSE stopped \cup {who}
    /\ LET t == sessions[<<a, 0>>] IN
       IF t = None THEN UNCHANGED <<sessions, lis, conn>>
       ELSE /\ sessions' = At(sessions, <<a, 0>>, None)
            /\ lis' = At(lis, t, "closed")
            /\ conn' = At(conn, t, [k \in Conn |-> IF conn[t][k] = "mapped" THEN "closed" ELSE conn[t][k]])
    /\ UNCHANGED <<clientVars, opens, h, acc, strm>>

\* Mutant of FindSession: the number of the connection alone is looked up.
FindSessionAny(s, k) ==
    /\ strm[s][k].at = "sent"
    /\ \/ \E x \in Keys : sessions[x] # None
            /\ strm' = AtConn(strm, s, k, [at |-> "found", of |-> sessions[x]])
       \/ strm' = AtConn(strm, s, k, [NoStream EXCEPT !.at = "over"])
    /\ UNCHANGED <<clientVars, rpcVars, opens, serverVars, acc, conn>>

\* ReverseForward finds the session that the address has now, or none; a
\* cancelled rpc ends at once.
FindSession(s, k) ==
    /\ strm[s][k].at = "sent"
    /\ LET t == sessions[Key(s)] IN
       \/ t # None /\ strm' = AtConn(strm, s, k, [at |-> "found", of |-> t])
       \/ (t = None \/ s \in ctx) /\ strm' = AtConn(strm, s, k, [NoStream EXCEPT !.at = "over"])
    /\ UNCHANGED <<clientVars, rpcVars, opens, serverVars, acc, conn>>

\* It finds the connection with the number k there, or none.
FindConn(s, k) ==
    /\ strm[s][k].at = "found"
    /\ strm' = AtConn(strm, s, k,
         [strm[s][k] EXCEPT !.at = IF conn[strm[s][k].of][k] \in {"mapped", "closed"} THEN "fwd" ELSE "over"])
    /\ UNCHANGED <<clientVars, rpcVars, opens, serverVars, acc, conn>>

\* Forward ends: one of the two connections is closed, or the rpc cancelled.
\* It has closed the connection, which then leaves connMap.
ForwardEnds(s, k) ==
    /\ strm[s][k].at = "fwd"
    /\ conn' = AtConn(conn, strm[s][k].of, k, "gone")
    /\ strm' = AtConn(strm, s, k, [strm[s][k] EXCEPT !.at = "over"])
    /\ UNCHANGED <<clientVars, rpcVars, opens, serverVars, acc>>
-----------------------------------------------------------------------------
ApiStarts ==
    \E a \in Srcs : \/ ReverseForwardPort(a) \/ Rebind(a)
                    \/ StopReverse(a)
ApiRuns == StopReverseReturns \/ RebindStarts \/ CallFails
Goroutine(s) == Open(s) \/ LeaveLoop(s) \/ DeferredStop(s) \/ DeferredStopReturns(s)
\* What a StartReverseForward handler does by itself.
Handler(s) ==
    \/ Check(s) \/ Listen(s) \/ Store(s) \/ MapConn(s) \/ SendOpen(s)
    \/ SendFails(s) \/ Exit(s) \/ (lis[s] = "closed" /\ AcceptFails(s))
Streams(s) == \E k \in Conn : FindSession(s, k) \/ FindConn(s, k)

Next ==
    \/ ApiStarts \/ ApiRuns
    \/ \E s \in Session :
         \/ Goroutine(s) \/ Handler(s) \/ Streams(s)
         \/ Accept(s) \/ AcceptFails(s)
         \/ \E k \in Conn : ForwardEnds(s, k)
    \/ \E who \in 0..Gone, a \in Srcs : StopReverseForward(who, a)

Spec == Init /\ [][Next]_vars

\* Goroutines and handlers run on, and an rpc that was sent is served.
\* Nothing is assumed of the API's callers or of who connects.
FairSpec ==
    /\ Spec
    /\ WF_vars(ApiRuns)
    /\ \A s \in Session : WF_vars(Goroutine(s)) /\ WF_vars(Handler(s)) /\ WF_vars(Streams(s))
    /\ \A who \in 0..Gone, a \in Srcs : WF_vars(StopReverseForward(who, a))

\* Less than that: while one of them can take a step, some step is taken.
ProgressSpec ==
    /\ Spec
    /\ WF_vars(\/ ApiRuns
               \/ \E s \in Session : Goroutine(s) \/ Handler(s) \/ Streams(s)
               \/ \E who \in 0..Gone, a \in Srcs : StopReverseForward(who, a))
-----------------------------------------------------------------------------
(* Properties.                                                             *)

\* The variables keep their types.
TypeOK ==
    /\ n \in 0..MaxSessions /\ src \in Seq(Srcs) /\ Len(src) = n
    /\ reverseSessions \in [Srcs -> {None} \cup Session]
    /\ call.at \in {"idle", "stop", "rebind"}
    /\ last \in [Srcs -> {"none", "started", "stopped"}]
    /\ ctx \subseteq Session
    /\ gor \in [Session -> {"none", "recv", "stop", "stopRpc", "done"}]
    /\ stops \subseteq (0..Gone) \X Srcs /\ stopped \subseteq {None} \cup Session
    /\ h \in [Session -> {"none", "called", "listen", "store", "accept", "map", "send", "exit", "done"}]
    /\ sessions \in [Keys -> {None} \cup Session]
    /\ lis \in [Session -> {"none", "open", "closed"}]
    /\ acc \in [Session -> 0..MaxConns]
    /\ conn \in [Session -> [Conn -> {"none", "accepted", "mapped", "closed", "gone"}]]
    /\ \A s \in Session, k \in Conn :
         strm[s][k].at \in {"none", "sent", "found", "fwd", "over"}

\* Neither map has the entry of a stopped session.  A session in the client's
\* map is not cancelled, whatever calls and goroutines stop sessions meanwhile
\* (ports.go:252).  One in the server's map listens, or its own handler closed
\* the listener after a failed Accept: the check, the listen and the store of
\* two handlers for one address may interleave (server.go:694, 729).
MapsAreLive ==
    /\ \A a \in Srcs : reverseSessions[a] \notin ctx
    /\ \A x \in Keys : sessions[x] # None =>
         \/ lis[sessions[x]] = "open"
         \/ h[sessions[x]] \in {"exit", "done"}

\* A live session is in the map of its side.  On the server a session that
\* listens can be found and stopped, unless the handler of another session of
\* the address, cancelled by its client, failed to send and deleted the entry
\* (server.go:729).  On the client a session that is neither cancelled nor being
\* stopped can be found, unless the goroutine of an earlier session of the
\* address deleted the entry when it ended (ports.go:252).
LiveIsMapped ==
    \A s \in 1..n :
      /\ lis[s] = "open" /\ h[s] \in {"accept", "map", "send"} =>
           \/ sessions[Key(s)] = s
           \/ \E t \in ctx \ {s} : Key(t) = Key(s) /\ acc[t] > 0 /\ h[t] \in {"exit", "done"}
      /\ gor[s] = "recv" /\ s \notin ctx =>
           \/ reverseSessions[src[s]] = s
           \/ call.at # "idle" /\ call.of = s
           \/ \E t \in 1..(s - 1) : src[t] = src[s] /\ gor[t] \in {"stopRpc", "done"}

\* Again and again no API call holds the mutex, and every session whose listener
\* was closed has wound up on both sides: calls return, and no goroutine and no
\* handler is left behind (ports.go:178, server.go:711).
SessionsWindUp ==
    []<>(/\ call.at = "idle"
         /\ \A s \in Session : lis[s] = "closed" => h[s] = "done" /\ gor[s] = "done")

\* After a successful StopReverse, and until the next request for the address,
\* the server stops listening on it.
StopStops ==
    \A a \in Srcs : last[a] = "stopped" ~>
        last[a] # "stopped" \/ \A s \in 1..n : src[s] = a => lis[s] # "open"

\* The stream sent for a connection of a session forwards that connection.
\* Only a stream that finds its own session stopped may be joined to the
\* connection of the same number of the session that has the address now
\* (server.go:579, 707).
OwnConnection ==
    \A s \in Session, k \in Conn : strm[s][k].at = "fwd" =>
        strm[s][k].of = s \/ (lis[s] = "closed" /\ src[strm[s][k].of] = src[s])
=============================================================================
