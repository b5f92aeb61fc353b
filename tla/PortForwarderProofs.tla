------------------------- MODULE PortForwarderProofs -------------------------
(***************************************************************************)
(* Proofs about PortForwarder, for any number of sources, sessions and     *)
(* connections: no listener outlives its session, and what List reports is *)
(* forwarded.                                                              *)
(***************************************************************************)
EXTENDS PortForwarder, TLAPS

\* What the map knows: a session that was started, under its own source.
MapInv ==
    /\ \A a \in Srcs : sessions[a] # None => src[sessions[a]] = a
    /\ \A s \in Session : s <= n => src[s] \in Srcs /\ lis[s] # "none"
    /\ \A s \in Session : s > n => lis[s] = "none" /\ loop[s] = "none"

\* What an rpc that holds sessionsMutex has done so far: ForwardPort listens for
\* a source that has no session, Stop has taken its session out of the map, and
\* StopAll has closed the listeners it is through with.
CallInv ==
    /\ call.at = "listen" => sessions[call.src] = None
    /\ call.at = "stop" => call.of <= n /\ \A a \in Srcs : sessions[a] # call.of
    /\ call.at = "all" =>
         \A a \in Srcs : sessions[a] # None =>
             sessions[a] \in call.todo \/ lis[sessions[a]] = "closed"
    /\ call.at = "all" => \A s \in call.todo : s <= n

IInv == TypeOK /\ MapInv /\ CallInv /\ NoLeakedListener /\ ListIsTrue

\* What call is, by what it does.
LEMMA CallType ==
    ASSUME call \in Calls
    PROVE  /\ call.at \in {"idle", "listen", "stop", "all"}
           /\ call.at = "listen" => call.src \in Srcs /\ call.dst \in Dsts
           /\ call.at = "stop" => call.of \in Session
           /\ call.at = "all" => call.todo \subseteq Session
           /\ call = Idle => call.at = "idle"
BY DEF Calls, Idle

\* The invariant holds at the start.
LEMMA InitInv == Init => IInv
BY PortForwarderAssumption
   DEF Init, IInv, TypeOK, MapInv, CallInv, NoLeakedListener, ListIsTrue, List, Mapped,
       Session, None, NoAddr, Idle, Calls, LisStates, Loops, ConnStates

\* CloseLis keeps the types and closes one listener.
LEMMA CloseLisFact ==
    ASSUME NEW s \in Session, CloseLis(s),
           lis \in [Session -> LisStates], conn \in [Session -> [Conn -> ConnStates]]
    PROVE  /\ lis' \in [Session -> LisStates] /\ conn' \in [Session -> [Conn -> ConnStates]]
           /\ lis'[s] = "closed"
           /\ \A t \in Session : t # s => lis'[t] = lis[t]
BY DEF CloseLis, At, LisStates, ConnStates

\* A step of a goroutine that leaves the map, the rpcs and the listeners alone,
\* and does not bring a loop back that has given up.
LEMMA LoopKeeps ==
    ASSUME IInv, UNCHANGED <<callVars, lis>>, TypeOK',
           \A s \in Session : loop[s] \in {"cancel", "done"} => loop'[s] \in {"cancel", "done"},
           \A s \in Session : loop[s] = "none" => loop'[s] = "none"
    PROVE  IInv'
<1>1. MapInv' BY DEF IInv, MapInv, callVars
<1>2. CallInv' BY DEF IInv, CallInv, callVars
<1>3. NoLeakedListener' BY DEF IInv, NoLeakedListener, callVars
<1>4. ListIsTrue' BY DEF IInv, ListIsTrue, List, Mapped, callVars
<1> QED BY <1>1, <1>2, <1>3, <1>4 DEF IInv

\* The steps of connections and of the loops other than the deferred ones.
LEMMA ConnStep ==
    ASSUME IInv, NEW s \in Session, NEW k \in Conn,
           \/ Connect(s, k) \/ Accept(s, k)
           \/ ForwardWrites(s, k) \/ AppReads(s, k) \/ ForwardReturns(s, k)
    PROVE  IInv'
<1>1. TypeOK /\ k # None BY PortForwarderAssumption DEF IInv, Conn, None
<1>2. TypeOK'
  <2>1. CASE Connect(s, k)
    BY <1>1, <2>1 DEF Connect, TypeOK, AtConn, callVars, ConnStates
  <2>2. CASE Accept(s, k)
    BY <1>1, <2>2 DEF Accept, TypeOK, At, AtConn, callVars, ConnStates, Loops
  <2>3. CASE ForwardReturns(s, k)
    <3>1. conn' \in [Session -> [Conn -> ConnStates]]
      BY <1>1, <2>3 DEF ForwardReturns, TypeOK, AtConn, ConnStates
    <3>2. rpc' \in [Session -> [Conn -> {"none", "open", "over"}]]
      BY <1>1, <2>3 DEF ForwardReturns, TypeOK, AtConn
    <3> QED BY <1>1, <2>3, <3>1, <3>2 DEF ForwardReturns, TypeOK, callVars
  <2>4. CASE ForwardWrites(s, k) \/ AppReads(s, k)
    <3>1. conn' \in [Session -> [Conn -> ConnStates]]
      <4>1. CASE ForwardWrites(s, k) BY <1>1, <4>1 DEF ForwardWrites, TypeOK, AtConn, ConnStates
      <4>2. CASE AppReads(s, k) BY <1>1, <4>2 DEF AppReads, TypeOK, AtConn, ConnStates
      <4> QED BY <2>4, <4>1, <4>2
    <3>2. UNCHANGED <<callVars, lis, ctx, loop, cur, rpc>> BY <2>4 DEF ForwardWrites, AppReads
    <3> QED BY <1>1, <3>1, <3>2 DEF TypeOK, callVars
  <2> QED BY <2>1, <2>2, <2>3, <2>4
<1>3. /\ UNCHANGED <<callVars, lis>>
      /\ \A t \in Session : loop[t] \in {"cancel", "done"} => loop'[t] \in {"cancel", "done"}
      /\ \A t \in Session : loop[t] = "none" => loop'[t] = "none"
  BY <1>1 DEF Connect, Accept, ForwardWrites, AppReads, ForwardReturns, TypeOK, At
<1> QED BY <1>2, <1>3, LoopKeeps

\* The end of makeForwarder, and an error of Accept.
LEMMA MakeStep ==
    ASSUME IInv, NEW s \in Session,
           AcceptErr(s) \/ MakeFails(s) \/ MakeLeaves(s) \/ Make(s)
    PROVE  IInv'
<1>1. TypeOK BY DEF IInv
<1>2. loop[s] = "make" => cur[s] \in Conn BY <1>1 DEF TypeOK
<1>3. TypeOK'
  <2>1. CASE AcceptErr(s)
    BY <1>1, <2>1 DEF AcceptErr, TypeOK, At, callVars, Loops
  <2>2. CASE MakeFails(s)
    BY <1>1, <1>2, <2>2 DEF MakeFails, TypeOK, At, AtConn, callVars, ConnStates, Loops
  <2>3. CASE MakeLeaves(s)
    BY <1>1, <1>2, <2>3 DEF MakeLeaves, TypeOK, At, AtConn, callVars, ConnStates, Loops
  <2>4. CASE Make(s)
    BY <1>1, <1>2, <2>4 DEF Make, TypeOK, At, AtConn, callVars, ConnStates, Loops
  <2> QED BY <2>1, <2>2, <2>3, <2>4
<1>4. /\ UNCHANGED <<callVars, lis>>
      /\ \A t \in Session : loop[t] \in {"cancel", "done"} => loop'[t] \in {"cancel", "done"}
      /\ \A t \in Session : loop[t] = "none" => loop'[t] = "none"
  BY <1>1 DEF AcceptErr, MakeFails, MakeLeaves, Make, TypeOK, At
<1> QED BY <1>3, <1>4, LoopKeeps

\* The deferred calls of a loop.
LEMMA DeferStep ==
    ASSUME IInv, NEW s \in Session, DeferClose(s) \/ DeferCancel(s)
    PROVE  IInv'
<1>1. TypeOK BY DEF IInv
<1>2. CASE DeferCancel(s)
  <2>1. TypeOK' BY <1>1, <1>2 DEF DeferCancel, TypeOK, At, callVars, Loops
  <2>2. /\ UNCHANGED <<callVars, lis>>
        /\ \A t \in Session : loop[t] \in {"cancel", "done"} => loop'[t] \in {"cancel", "done"}
        /\ \A t \in Session : loop[t] = "none" => loop'[t] = "none"
    BY <1>1, <1>2 DEF DeferCancel, TypeOK, At
  <2> QED BY <2>1, <2>2, LoopKeeps
<1>3. CASE DeferClose(s)
  <2>1. /\ lis' \in [Session -> LisStates] /\ conn' \in [Session -> [Conn -> ConnStates]]
        /\ lis'[s] = "closed"
        /\ \A t \in Session : t # s => lis'[t] = lis[t]
    BY <1>1, <1>3, CloseLisFact DEF DeferClose, TypeOK
  <2>2. /\ UNCHANGED <<callVars, ctx, cur, rpc>>
        /\ loop[s] = "close" /\ loop' = [loop EXCEPT ![s] = "cancel"]
    BY <1>3 DEF DeferClose, At
  <2>3. TypeOK' BY <1>1, <2>1, <2>2 DEF TypeOK, callVars, Loops
  <2>4. /\ loop'[s] = "cancel" /\ \A t \in Session : t # s => loop'[t] = loop[t]
    BY <1>1, <2>2 DEF TypeOK
  <2>5. s <= n BY <1>1, <2>2 DEF IInv, MapInv, TypeOK, Session
  <2>6. MapInv' BY <1>1, <2>1, <2>2, <2>4, <2>5 DEF IInv, MapInv, callVars, Session, TypeOK
  <2>7. sessions \in [Srcs -> 0..n] /\ n \in Nat /\ n <= MaxSessions BY <1>1 DEF TypeOK
  <2>8. CallInv'
    BY <2>1, <2>2, <2>7, PortForwarderAssumption DEF IInv, CallInv, callVars, Session, None
  <2>9. NoLeakedListener' BY <2>1, <2>2 DEF IInv, NoLeakedListener, callVars
  <2>10. ListIsTrue' BY <2>1, <2>2, <2>4 DEF IInv, ListIsTrue, List, Mapped, callVars
  <2> QED BY <2>3, <2>6, <2>8, <2>9, <2>10 DEF IInv
<1> QED BY <1>2, <1>3

\* The facts about the types that the steps of the rpcs use.
LEMMA Types ==
    ASSUME IInv
    PROVE  /\ n \in Nat /\ n <= MaxSessions /\ MaxSessions \in Nat
           /\ sessions \in [Srcs -> 0..n]
           /\ \A a \in Srcs : sessions[a] # None => sessions[a] \in Session
           /\ lis \in [Session -> LisStates] /\ conn \in [Session -> [Conn -> ConnStates]]
           /\ call \in Calls
BY PortForwarderAssumption DEF IInv, TypeOK, Session, None

\* A request for an address that has no session.
LEMMA ForwardPortStep ==
    ASSUME IInv, NEW a, NEW d, a \in Srcs \cup {Malformed}, d \in Dsts \cup {Malformed},
           ForwardPort(a, d)
    PROVE  IInv'
<1>1. a \in Srcs /\ d \in Dsts /\ sessions[a] = None /\ n < MaxSessions
  BY DEF ForwardPort, parseAddr
<1>2. /\ call' = [at |-> "listen", src |-> a, dst |-> d] /\ call.at = "idle"
      /\ UNCHANGED <<n, src, dst, sessions, lis, ctx, loop, cur, conn, rpc>>
  BY DEF ForwardPort, Idle
<1>3. call' \in Calls BY <1>1, <1>2 DEF Calls
<1>4. TypeOK' BY <1>1, <1>2, <1>3 DEF IInv, TypeOK
<1>5. MapInv' BY <1>2 DEF IInv, MapInv
<1>6. CallInv' BY <1>1, <1>2 DEF CallInv
<1>7. NoLeakedListener' BY <1>2 DEF IInv, NoLeakedListener
<1>8. ListIsTrue' BY <1>2 DEF IInv, ListIsTrue, List, Mapped
<1> QED BY <1>4, <1>5, <1>6, <1>7, <1>8 DEF IInv

\* A request to rebind: the old session leaves the map with its listener closed.
LEMMA RebindStep ==
    ASSUME IInv, NEW a, NEW d, a \in Srcs \cup {Malformed}, d \in Dsts \cup {Malformed},
           Rebind(a, d)
    PROVE  IInv'
<1> DEFINE s == sessions[a]
<1>1. a \in Srcs /\ d \in Dsts /\ s # None /\ n < MaxSessions /\ call.at = "idle"
  BY DEF Rebind, parseAddr, Idle
<1>2. s \in Session BY <1>1, Types
<1>3. /\ sessions' = [sessions EXCEPT ![a] = None]
      /\ UNCHANGED <<n, src, dst, ctx, loop, cur, rpc>>
      /\ call' \in {Idle, [at |-> "listen", src |-> a, dst |-> d]}
  BY DEF Rebind, At
<1>4. /\ lis' \in [Session -> LisStates] /\ conn' \in [Session -> [Conn -> ConnStates]]
      /\ lis'[s] = "closed"
      /\ \A t \in Session : t # s => lis'[t] = lis[t]
  <2>1. CASE CloseLis(s) BY <2>1, <1>2, Types, CloseLisFact
  <2>2. CASE lis[s] = "closed" /\ UNCHANGED <<lis, conn>> BY <2>2, Types
  <2> QED BY <2>1, <2>2 DEF Rebind
<1>5. /\ sessions' \in [Srcs -> 0..n] /\ sessions'[a] = None
      /\ \A b \in Srcs : b # a => sessions'[b] = sessions[b] /\ sessions[b] # s
  BY <1>1, <1>3, Types DEF None, IInv, MapInv
<1>6. call' \in Calls /\ call'.at \in {"idle", "listen"} /\ (call'.at = "listen" => call'.src = a)
  BY <1>1, <1>3 DEF Calls, Idle
<1>7. TypeOK' BY <1>1, <1>3, <1>4, <1>5, <1>6 DEF IInv, TypeOK
<1>8. MapInv'
  <2>1. \A b \in Srcs : sessions'[b] # None => src[sessions'[b]] = b
    BY <1>5 DEF IInv, MapInv
  <2>2. \A t \in Session : t <= n => src[t] \in Srcs /\ lis'[t] # "none"
    BY <1>4 DEF IInv, MapInv
  <2>3. s <= n BY <1>1, Types DEF None
  <2>4. \A t \in Session : t > n => lis'[t] = "none" /\ loop[t] = "none"
    BY <1>4, <2>3, Types DEF IInv, MapInv, Session
  <2> QED BY <1>3, <2>1, <2>2, <2>4 DEF MapInv
<1>9. CallInv' BY <1>5, <1>6 DEF CallInv
<1>10. NoLeakedListener'
  <2> SUFFICES ASSUME NEW t \in Session, lis'[t] = "open"
               PROVE  sessions'[src[t]] = t
    BY <1>3 DEF NoLeakedListener
  <2>1. t # s /\ lis[t] = "open" BY <1>4
  <2>2. sessions[src[t]] = t BY <1>1, <2>1 DEF IInv, NoLeakedListener
  <2>3. src[t] \in Srcs
    <3>1. t <= n BY <2>1, Types DEF IInv, MapInv, Session
    <3> QED BY <3>1 DEF IInv, MapInv
  <2> QED BY <1>5, <2>1, <2>2, <2>3
<1>11. ListIsTrue'
  <2> SUFFICES ASSUME NEW t \in Session, NEW b \in Srcs, sessions'[b] = t
               PROVE  lis'[t] = "open" \/ loop[t] \in {"cancel", "done"}
    BY <1>3 DEF ListIsTrue, List, Mapped
  <2>1. t # None BY DEF Session, None
  <2>2. b # a /\ sessions[b] = t /\ t # s BY <1>5, <2>1
  <2> QED BY <1>1, <1>4, <2>2 DEF IInv, ListIsTrue, List, Mapped
<1> QED BY <1>7, <1>8, <1>9, <1>10, <1>11 DEF IInv

\* net.Listen fails.
LEMMA ListenFailsStep == ASSUME IInv, ListenFails PROVE IInv'
<1>1. /\ call' = Idle /\ call'.at = "idle" /\ call.at = "listen"
      /\ UNCHANGED <<n, src, dst, sessions, lis, ctx, loop, cur, conn, rpc>>
  BY DEF ListenFails, Idle
<1>2. call' \in Calls BY <1>1 DEF Calls
<1>3. TypeOK' BY <1>1, <1>2 DEF IInv, TypeOK
<1>4. MapInv' BY <1>1 DEF IInv, MapInv
<1>5. CallInv' BY <1>1 DEF CallInv
<1>6. NoLeakedListener' BY <1>1 DEF IInv, NoLeakedListener
<1>7. ListIsTrue' BY <1>1 DEF IInv, ListIsTrue, List, Mapped
<1> QED BY <1>3, <1>4, <1>5, <1>6, <1>7 DEF IInv

\* The new session: no other listens for its source, for the map had none.
LEMMA ListenStep == ASSUME IInv, Listen PROVE IInv'
<1> DEFINE s == n + 1
<1>1. call.at = "listen" /\ n < MaxSessions /\ call.src \in Srcs /\ call.dst \in Dsts
  BY Types, CallType DEF Listen, IInv, TypeOK
<1>2. s \in Session /\ s # None /\ n \in Nat BY <1>1, Types DEF Session, None
<1>3. /\ n' = s /\ src' = [src EXCEPT ![s] = call.src] /\ dst' = [dst EXCEPT ![s] = call.dst]
      /\ lis' = [lis EXCEPT ![s] = "open"] /\ loop' = [loop EXCEPT ![s] = "accept"]
      /\ sessions' = [sessions EXCEPT ![call.src] = s] /\ call' = Idle /\ call'.at = "idle"
      /\ UNCHANGED <<ctx, cur, conn, rpc>>
  BY DEF Listen, At, Idle
<1>4. sessions[call.src] = None /\ lis[s] = "none" /\ loop[s] = "none"
  BY <1>1, <1>2 DEF IInv, CallInv, MapInv
<1>5. TypeOK'
  <2>1. n' \in 0..MaxSessions BY <1>1, <1>2, <1>3, Types
  <2>2. sessions' \in [Srcs -> 0..n'] BY <1>1, <1>2, <1>3, Types
  <2>3. call' \in Calls BY <1>3 DEF Calls
  <2>4. /\ src' \in [Session -> Srcs \cup {NoAddr}] /\ dst' \in [Session -> Dsts \cup {NoAddr}]
        /\ lis' \in [Session -> LisStates] /\ loop' \in [Session -> Loops]
    BY <1>1, <1>2, <1>3 DEF IInv, TypeOK, LisStates, Loops
  <2>5. \A t \in Session : loop'[t] = "make" <=> cur'[t] # None
    BY <1>2, <1>3, <1>4 DEF IInv, TypeOK
  <2> QED BY <1>3, <2>1, <2>2, <2>3, <2>4, <2>5 DEF IInv, TypeOK
<1>6. /\ src'[s] = call.src /\ lis'[s] = "open" /\ sessions'[call.src] = s
      /\ \A t \in Session : t # s => src'[t] = src[t] /\ lis'[t] = lis[t] /\ loop'[t] = loop[t]
      /\ \A a \in Srcs : a # call.src => sessions'[a] = sessions[a] /\ sessions[a] # s
  BY <1>1, <1>2, <1>3, Types DEF IInv, TypeOK
<1>7. MapInv'
  <2>1. \A a \in Srcs : sessions'[a] # None => src'[sessions'[a]] = a
    <3> SUFFICES ASSUME NEW a \in Srcs, a # call.src, sessions[a] # None
                 PROVE  src'[sessions[a]] = a
      BY <1>6
    <3>1. sessions[a] \in Session /\ sessions[a] # s BY <1>6, Types
    <3> QED BY <1>6, <3>1 DEF IInv, MapInv
  <2>2. ASSUME NEW t \in Session, t <= s PROVE src'[t] \in Srcs /\ lis'[t] # "none"
    <3>1. CASE t = s BY <1>1, <1>6, <3>1
    <3>2. CASE t # s
      <4>1. t <= n BY <1>2, <2>2, <3>2 DEF Session
      <4> QED BY <1>6, <3>2, <4>1 DEF IInv, MapInv
    <3> QED BY <3>1, <3>2
  <2>3. ASSUME NEW t \in Session, t > s PROVE lis'[t] = "none" /\ loop'[t] = "none"
    <3>1. t > n /\ t # s BY <1>2, <2>3 DEF Session
    <3> QED BY <1>6, <3>1 DEF IInv, MapInv
  <2> QED BY <1>3, <2>1, <2>2, <2>3 DEF MapInv
<1>8. CallInv' BY <1>3 DEF CallInv
<1>9. NoLeakedListener'
  <2> SUFFICES ASSUME NEW t \in Session, t # s, lis'[t] = "open" PROVE sessions'[src'[t]] = t
    BY <1>6 DEF NoLeakedListener
  <2>1. lis[t] = "open" /\ src'[t] = src[t] BY <1>6
  <2>2. t <= n BY <1>2, <2>1 DEF IInv, MapInv, Session
  <2>3. src[t] \in Srcs /\ sessions[src[t]] = t
    BY <1>1, <2>1, <2>2 DEF IInv, MapInv, NoLeakedListener
  <2>4. src[t] # call.src BY <1>4, <2>3 DEF Session, None
  <2> QED BY <1>6, <2>1, <2>3, <2>4
<1>10. ListIsTrue'
  <2> SUFFICES ASSUME NEW t \in Session, NEW a \in Srcs, sessions'[a] = t
               PROVE  lis'[t] = "open" \/ loop'[t] \in {"cancel", "done"}
    BY DEF ListIsTrue, List, Mapped
  <2>1. CASE t = s BY <1>6, <2>1
  <2>2. CASE t # s
    <3>1. sessions[a] = t BY <1>6, <2>2
    <3> QED BY <1>1, <1>6, <2>2, <3>1 DEF IInv, ListIsTrue, List, Mapped
  <2> QED BY <2>1, <2>2
<1> QED BY <1>5, <1>7, <1>8, <1>9, <1>10 DEF IInv

\* Stop: the session is cancelled and leaves the map.
LEMMA StopStep == ASSUME IInv, NEW a \in Srcs, Stop(a) PROVE IInv'
<1> DEFINE s == sessions[a]
<1>1. s # None /\ s \in Session /\ call.at = "idle" BY Types DEF Stop, Idle
<1>2. /\ ctx' = ctx \cup {s} /\ sessions' = [sessions EXCEPT ![a] = None]
      /\ call' = [at |-> "stop", of |-> s]
      /\ UNCHANGED <<n, src, dst, lis, loop, cur, conn, rpc>>
  BY DEF Stop, At
<1>3. /\ sessions' \in [Srcs -> 0..n] /\ sessions'[a] = None
      /\ \A b \in Srcs : b # a => sessions'[b] = sessions[b] /\ sessions[b] # s
  BY <1>1, <1>2, Types DEF None, IInv, MapInv
<1>4. call' \in Calls BY <1>1, <1>2 DEF Calls
<1>5. TypeOK' BY <1>1, <1>2, <1>3, <1>4 DEF IInv, TypeOK
<1>6. MapInv' BY <1>2, <1>3 DEF IInv, MapInv
<1>7. s <= n BY <1>1, Types
<1>8. CallInv' BY <1>1, <1>2, <1>3, <1>7 DEF CallInv
<1>9. NoLeakedListener'
  <2> SUFFICES ASSUME NEW t \in Session, t # s, lis[t] = "open" PROVE sessions'[src[t]] = t
    BY <1>2 DEF NoLeakedListener
  <2>1. t <= n BY Types DEF IInv, MapInv, Session
  <2>2. src[t] \in Srcs /\ sessions[src[t]] = t
    BY <1>1, <2>1 DEF IInv, MapInv, NoLeakedListener
  <2> QED BY <1>3, <2>2
<1>10. ListIsTrue'
  <2> SUFFICES ASSUME NEW t \in Session, NEW b \in Srcs, sessions'[b] = t
               PROVE  lis[t] = "open" \/ loop[t] \in {"cancel", "done"}
    BY <1>2 DEF ListIsTrue, List, Mapped
  <2>1. t # None BY DEF Session, None
  <2>2. sessions[b] = t BY <1>3, <2>1
  <2> QED BY <1>1, <2>2 DEF IInv, ListIsTrue, List, Mapped
<1> QED BY <1>5, <1>6, <1>8, <1>9, <1>10 DEF IInv

\* Stop closes the listener of the session it took out of the map.
LEMMA StopCloseStep == ASSUME IInv, StopClose PROVE IInv'
<1> DEFINE s == call.of
<1>1. /\ call.at = "stop" /\ s \in Session /\ s <= n
      /\ \A a \in Srcs : sessions[a] # s
  BY Types, CallType DEF StopClose, IInv, CallInv
<1>2. /\ call' = Idle /\ call'.at = "idle"
      /\ UNCHANGED <<n, src, dst, sessions, ctx, loop, cur, rpc>>
  BY DEF StopClose, Idle
<1>3. /\ lis' \in [Session -> LisStates] /\ conn' \in [Session -> [Conn -> ConnStates]]
      /\ lis'[s] = "closed"
      /\ \A t \in Session : t # s => lis'[t] = lis[t]
  BY <1>1, Types, CloseLisFact DEF StopClose
<1>4. call' \in Calls BY <1>2 DEF Calls
<1>5. TypeOK' BY <1>2, <1>3, <1>4 DEF IInv, TypeOK
<1>6. MapInv'
  <2>1. \A t \in Session : t > n => t # s BY <1>1, Types DEF Session
  <2> QED BY <1>2, <1>3, <2>1 DEF IInv, MapInv
<1>7. CallInv' BY <1>2 DEF CallInv
<1>8. NoLeakedListener' BY <1>1, <1>2, <1>3 DEF IInv, NoLeakedListener
<1>9. ListIsTrue' BY <1>1, <1>2, <1>3 DEF IInv, ListIsTrue, List, Mapped
<1> QED BY <1>5, <1>6, <1>7, <1>8, <1>9 DEF IInv

\* StopAll begins with the sessions of the map.
LEMMA StopAllStep == ASSUME IInv, StopAll PROVE IInv'
<1>1. /\ call' = [at |-> "all", todo |-> {s \in Session : Mapped(s)}] /\ call.at = "idle"
      /\ UNCHANGED <<n, src, dst, sessions, lis, ctx, loop, cur, conn, rpc>>
  BY DEF StopAll, Idle
<1>2. call'.at = "all" /\ call'.todo = {s \in Session : Mapped(s)} BY <1>1
<1>3. call' \in Calls BY <1>1 DEF Calls
<1>4. TypeOK' BY <1>1, <1>2, <1>3 DEF IInv, TypeOK
<1>5. MapInv' BY <1>1 DEF IInv, MapInv
<1>6. CallInv'
  <2>1. \A a \in Srcs : sessions[a] # None => sessions[a] \in call'.todo
    BY <1>2, Types DEF Mapped
  <2>2. \A s \in call'.todo : s <= n BY <1>2, Types DEF Mapped
  <2> QED BY <1>1, <1>2, <2>1, <2>2 DEF CallInv
<1>7. NoLeakedListener' BY <1>1 DEF IInv, NoLeakedListener
<1>8. ListIsTrue' BY <1>2 DEF ListIsTrue
<1> QED BY <1>4, <1>5, <1>6, <1>7, <1>8 DEF IInv

\* One session of StopAll.
LEMMA StopOneStep == ASSUME IInv, NEW s \in Session, StopOne(s) PROVE IInv'
<1>1. call.at = "all" /\ s \in call.todo /\ call.todo \subseteq Session /\ s <= n
  BY Types, CallType DEF StopOne, IInv, CallInv
<1>2. /\ call' = [call EXCEPT !.todo = call.todo \ {s}] /\ ctx' = ctx \cup {s}
      /\ UNCHANGED <<n, src, dst, sessions, loop, cur, rpc>>
  BY DEF StopOne
<1>3. /\ lis' \in [Session -> LisStates] /\ conn' \in [Session -> [Conn -> ConnStates]]
      /\ lis'[s] = "closed"
      /\ \A t \in Session : t # s => lis'[t] = lis[t]
  BY <1>1, Types, CloseLisFact DEF StopOne
<1>4. call \in [at : {"all"}, todo : SUBSET Session] BY <1>1, Types DEF Calls, Idle
<1>5. call' \in Calls /\ call'.at = "all" /\ call'.todo = call.todo \ {s}
  BY <1>2, <1>4 DEF Calls
<1>6. TypeOK' BY <1>2, <1>3, <1>5 DEF IInv, TypeOK
<1>7. MapInv'
  <2>1. \A t \in Session : t > n => t # s BY <1>1, Types DEF Session
  <2> QED BY <1>2, <1>3, <2>1 DEF IInv, MapInv
<1>8. CallInv'
  <2>1. ASSUME NEW a \in Srcs, sessions[a] # None
        PROVE  sessions[a] \in call'.todo \/ lis'[sessions[a]] = "closed"
    <3>1. sessions[a] \in Session BY <2>1, Types
    <3>2. sessions[a] \in call.todo \/ lis[sessions[a]] = "closed"
      BY <1>1, <2>1 DEF IInv, CallInv
    <3> QED BY <1>3, <1>5, <3>1, <3>2
  <2>2. \A t \in call'.todo : t <= n BY <1>1, <1>5 DEF IInv, CallInv
  <2> QED BY <1>2, <1>5, <2>1, <2>2 DEF CallInv
<1>9. NoLeakedListener' BY <1>1, <1>2, <1>3, <1>5 DEF IInv, NoLeakedListener
<1>10. ListIsTrue' BY <1>5 DEF ListIsTrue
<1> QED BY <1>6, <1>7, <1>8, <1>9, <1>10 DEF IInv

\* StopAll replaces the map when every session in it is closed.
LEMMA StopAllEndStep == ASSUME IInv, StopAllEnd PROVE IInv'
<1>1. /\ call.at = "all" /\ call.todo = {} /\ call' = Idle /\ call'.at = "idle"
      /\ sessions' = [a \in Srcs |-> None]
      /\ UNCHANGED <<n, src, dst, lis, ctx, loop, cur, conn, rpc>>
  BY DEF StopAllEnd, Idle
<1>2. call' \in Calls BY <1>1 DEF Calls
<1>3. sessions' \in [Srcs -> 0..n] BY <1>1, Types DEF None
<1>4. TypeOK' BY <1>1, <1>2, <1>3 DEF IInv, TypeOK
<1>5. MapInv' BY <1>1 DEF IInv, MapInv
<1>6. CallInv' BY <1>1 DEF CallInv
<1>7. \A t \in Session : lis[t] # "open"
  <2> SUFFICES ASSUME NEW t \in Session, lis[t] = "open" PROVE FALSE
    OBVIOUS
  <2>1. t <= n BY Types DEF IInv, MapInv, Session
  <2>2. src[t] \in Srcs /\ sessions[src[t]] = t
    BY <1>1, <2>1 DEF IInv, MapInv, NoLeakedListener
  <2>3. sessions[src[t]] # None BY <2>2 DEF Session, None
  <2> QED BY <1>1, <2>2, <2>3 DEF IInv, CallInv
<1>8. NoLeakedListener' BY <1>1, <1>7 DEF NoLeakedListener
<1>9. ListIsTrue'
  <2>1. \A t \in Session : ~Mapped(t)' BY <1>1 DEF Mapped, Session, None
  <2> QED BY <2>1 DEF ListIsTrue, List
<1> QED BY <1>4, <1>5, <1>6, <1>8, <1>9 DEF IInv

\* Every step keeps the invariant.
LEMMA StepInv == ASSUME IInv, [Next]_vars PROVE IInv'
<1>1. CASE UNCHANGED vars
  <2>1. UNCHANGED <<n, src, dst, sessions, call, lis, ctx, loop, cur, conn, rpc>>
    BY <1>1 DEF vars
  <2>2. TypeOK' BY <2>1 DEF IInv, TypeOK
  <2>3. /\ UNCHANGED <<callVars, lis>>
        /\ \A s \in Session : loop[s] \in {"cancel", "done"} => loop'[s] \in {"cancel", "done"}
        /\ \A s \in Session : loop[s] = "none" => loop'[s] = "none"
    BY <2>1 DEF callVars
  <2> QED BY <2>2, <2>3, LoopKeeps
<1>2. CASE ApiCalls
  BY <1>2, ForwardPortStep, RebindStep, StopStep, StopAllStep DEF ApiCalls
<1>3. CASE ApiRuns
  BY <1>3, ListenStep, ListenFailsStep, StopCloseStep, StopAllEndStep, StopOneStep DEF ApiRuns
<1>4. CASE \E s \in Session : Goroutine(s)
  <2> PICK s \in Session : Goroutine(s) BY <1>4
  <2> QED BY ConnStep, MakeStep, DeferStep DEF Goroutine
<1>5. CASE \E s \in Session, k \in Conn :
             Connect(s, k) \/ ForwardWrites(s, k) \/ AppReads(s, k) \/ ForwardReturns(s, k)
  BY <1>5, ConnStep
<1> QED BY <1>1, <1>2, <1>3, <1>4, <1>5 DEF Next

\* For any sources, sessions and connections: the types, no listener without its
\* session, and List as it should be, in every reachable state.
THEOREM Invariance == Spec => []IInv
<1>1. IInv /\ [Next]_vars => IInv' BY StepInv
<1> QED BY InitInv, <1>1, PTL DEF Spec

\* An open listener belongs to the session the map has for its source, or Stop
\* is about to close it (ports.go:124-147, 323-330).
THEOREM NoListenerLeaks == Spec => []NoLeakedListener
BY Invariance, PTL DEF IInv

\* A session that List reports listens, unless its loop gave up or StopAll is at
\* work (ports.go:350-356).
THEOREM ListedListen == Spec => []ListIsTrue
BY Invariance, PTL DEF IInv
=============================================================================
