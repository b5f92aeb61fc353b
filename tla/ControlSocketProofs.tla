------------------------- MODULE ControlSocketProofs -------------------------
(***************************************************************************)
(* Proofs about ControlSocket, for any number of connections and any users *)
(* of them: the host is told of the Close of a connection by one closer    *)
(* only, and the Close of the control connection leaves none behind.       *)
(***************************************************************************)
EXTENDS ControlSocket, TLAPS

Waiting == {"none", "accept", "store", "failed"}
CtlStages ==
    [at : {"none", "up", "closed"}, by : {Nobody}]
        \cup [at : {"begun", "writes", "reads", "range"}, by : {HandlerP, StopP}]

\* A connection is asked for once, and exists once Open has stored it.
OpenInv ==
    /\ hin \in Seq({"open", "close"} \X Conn)
    /\ \A c \in Conn : c > n => op[c] = "none"
    /\ \A c \in Conn : op[c] \in Waiting => conn[c].at = "none" /\ ev[c] = 0 /\ c \notin m
    /\ \A i \in 1..Len(hin) : hin[i][1] = "open" => hin[i][2] <= n /\ op[hin[i][2]] = "none"
    /\ \A i, j \in 1..Len(hin) :
         hin[i][1] = "open" /\ hin[j][1] = "open" /\ hin[i][2] = hin[j][2] => i = j

\* Who closes the control connection, and since when there is one.
CtlInv ==
    /\ ctl \in CtlStages
    /\ acc = "idle" <=> ctl.at = "none"
    /\ ctl.at = "none" => n = 0
    /\ ctl.by = HandlerP => handler = "defer"

\* While the map is gone through, what is in it is still to be closed, being
\* closed or late.
CloseInv == ctl.at = "range" => m \subseteq todo \cup late \cup {on[ctl.by]}

\* How many close events the host has been sent when the Close of a connection
\* has come to stage at; live: the control connection took all of them.
Told(at, k, live) ==
    /\ at \notin {"told", "closed"} => k = 0
    /\ at = "told" => k \in (IF live THEN {1} ELSE {0, 1})
    /\ at = "closed" => k \in (IF live THEN {2} ELSE {0, 1, 2})

TellInv ==
    \A c \in Conn :
        /\ Told(conn[c].at, ev[c], CtlWritable /\ ~ctlHup)
        /\ conn[c].at \in {"gone", "told", "closed"} => c \notin m

IInv == TypeOK /\ OpenInv /\ CtlInv /\ CloseInv /\ TellInv /\ NoneLeftBehind

\* The processes are told apart by their numbers.
LEMMA ProcTypes ==
    /\ MaxConns \in Nat /\ HandlerP \in Procs /\ StopP \in Procs /\ Conn \subseteq Procs
    /\ HandlerP \notin Conn /\ StopP \notin Conn /\ None \notin Conn /\ Conn \subseteq 0..MaxConns
    /\ None \in 0..MaxConns /\ HandlerP # StopP /\ HandlerP # Nobody /\ StopP # Nobody
BY ControlSocketAssumption DEF Procs, HandlerP, StopP, Nobody, None, Conn

\* Stages of a connection.
LEMMA StageTypes ==
    /\ \A p \in Procs, a \in {"begun", "writes", "reads", "pipe", "gone", "told"} :
         Stage(a, p) \in Stages /\ Stage(a, p).at = a /\ Stage(a, p).by = p
    /\ \A a \in {"none", "up", "closed"} : Still(a) \in Stages /\ Still(a).at = a
BY DEF Stages, Stage, Still

\* Stages of the control connection.
LEMMA CtlTypes ==
    /\ \A p \in {HandlerP, StopP}, a \in {"begun", "writes", "reads", "range"} :
         Stage(a, p) \in CtlStages /\ Stage(a, p).at = a /\ Stage(a, p).by = p
    /\ \A a \in {"none", "up", "closed"} :
         Still(a) \in CtlStages /\ Still(a).at = a /\ Still(a).by = Nobody
BY DEF CtlStages, Stage, Still

\* A listener starts with nothing.
LEMMA InitInv == Init => IInv
<1> SUFFICES ASSUME Init PROVE IInv
  OBVIOUS
<1>1. TypeOK
  <2>1. n \in 0..MaxConns /\ ev \in [Conn -> Nat] /\ on \in [Procs -> 0..MaxConns]
    BY ProcTypes DEF Init
  <2>2. conn \in [Conn -> Stages] BY StageTypes DEF Init
  <2>3. op \in [Conn -> {"none", "accept", "store", "offer", "failed", "done"}]
        /\ user \in [Conn -> {"none", "uses", "left"}]
    BY DEF Init
  <2>4. ctlHup \in BOOLEAN /\ teller \in Procs \cup {Nobody} BY Zenon DEF Init
  <2> QED BY <2>1, <2>2, <2>3, <2>4 DEF Init, TypeOK
<1>2. ctl \in CtlStages /\ ctl.at = "none" /\ ctl.by = Nobody BY CtlTypes DEF Init
<1>3. \A c \in Conn : conn[c].at = "none" /\ ev[c] = 0 /\ op[c] = "none" BY StageTypes DEF Init
<1>4. OpenInv BY <1>3 DEF Init, OpenInv, Waiting
<1>5. CtlInv BY <1>2, ProcTypes DEF Init, CtlInv
<1>6. CloseInv BY <1>2 DEF CloseInv
<1>7. TellInv BY <1>3 DEF TellInv, Told
<1>8. NoneLeftBehind BY <1>2 DEF NoneLeftBehind
<1> QED BY <1>1, <1>4, <1>5, <1>6, <1>7, <1>8 DEF IInv

\* A control connection that is lost asks for no more events.
LEMMA ToldWeaker ==
    \A at, k, x, y : Told(at, k, x) /\ (y => x) => Told(at, k, y)
BY Zenon DEF Told

\* What keeps each part of the invariant.
LEMMA Kept ==
    ASSUME IInv
    PROVE  /\ UNCHANGED <<hin, n, op, conn, ev, m>> => OpenInv'
           /\ UNCHANGED <<ctl, acc, n, handler>> => CtlInv'
           /\ UNCHANGED <<m, ctl, todo, late, on>> => CloseInv'
           /\ UNCHANGED <<ev, conn, m>> /\ (CtlWritable' /\ ~ctlHup' => CtlWritable /\ ~ctlHup)
                => TellInv'
           /\ UNCHANGED <<ctl, m, late>> => NoneLeftBehind'
<1>1. UNCHANGED <<hin, n, op, conn, ev, m>> => OpenInv' BY DEF IInv, OpenInv
<1>2. UNCHANGED <<ctl, acc, n, handler>> => CtlInv' BY DEF IInv, CtlInv
<1>3. UNCHANGED <<m, ctl, todo, late, on>> => CloseInv' BY DEF IInv, CloseInv
<1>4. UNCHANGED <<ev, conn, m>> /\ (CtlWritable' /\ ~ctlHup' => CtlWritable /\ ~ctlHup) => TellInv'
  BY ToldWeaker DEF IInv, TellInv
<1>5. UNCHANGED <<ctl, m, late>> => NoneLeftBehind' BY DEF IInv, NoneLeftBehind
<1> QED BY <1>1, <1>2, <1>3, <1>4, <1>5

\* A message joins the others on the way to the guest.
LEMMA AppendMsg ==
    ASSUME IInv, NEW x \in {"open", "close"} \X Conn, hin' = Append(hin, x)
    PROVE  /\ hin' \in Seq({"open", "close"} \X Conn) /\ Len(hin') = Len(hin) + 1
           /\ hin'[Len(hin) + 1] = x /\ Len(hin) \in Nat
           /\ \A i \in 1..Len(hin) : hin'[i] = hin[i]
<1>1. hin \in Seq({"open", "close"} \X Conn) BY DEF IInv, OpenInv
<1> QED BY <1>1

\* The host asks for a connection, or for the end of one.
LEMMA HostStep ==
    ASSUME IInv, HostOpen \/ HostCtlHup \/ \E c \in Conn : HostClose(c)
    PROVE  IInv'
<1>1. TypeOK /\ OpenInv /\ CtlInv /\ TellInv BY DEF IInv
<1>2. UNCHANGED <<acc, handler, op, conn, reading, writing, user, on, ev, m, teller, ctl, todo, stop,
                  missed, late>>
  BY DEF HostOpen, HostCtlHup, HostClose, connVars, ctlVars, history
<1>3. CloseInv' /\ NoneLeftBehind' BY <1>2, Kept
<1>4. n \in Nat /\ MaxConns \in Nat BY <1>1, ProcTypes DEF TypeOK
<1>5. CASE HostOpen
  <2>1. /\ ctl.at # "none" /\ n < MaxConns /\ n' = n + 1 /\ hin' = Append(hin, <<"open", n + 1>>)
        /\ UNCHANGED <<hcl, ctlHup>>
    BY <1>5 DEF HostOpen
  <2>2. n + 1 \in Conn BY <1>4, <2>1 DEF Conn
  <2>3. <<"open", n + 1>> \in {"open", "close"} \X Conn BY <2>2
  <2>4. /\ hin' \in Seq({"open", "close"} \X Conn) /\ Len(hin') = Len(hin) + 1
        /\ hin'[Len(hin) + 1] = <<"open", n + 1>> /\ Len(hin) \in Nat
        /\ \A i \in 1..Len(hin) : hin'[i] = hin[i]
    BY <2>1, <2>3, AppendMsg
  <2>5. \A c \in Conn : c > n' => op'[c] = "none"
    BY <1>1, <1>2, <1>4, <2>1 DEF OpenInv, Conn
  <2>6. ASSUME NEW i \in 1..Len(hin'), hin'[i][1] = "open"
        PROVE  hin'[i][2] <= n' /\ op'[hin'[i][2]] = "none"
    <3>1. CASE i \in 1..Len(hin)
      <4>1. hin[i][2] \in Conn BY <1>1, <3>1 DEF OpenInv
      <4>2. hin[i][2] <= n /\ op[hin[i][2]] = "none" BY <1>1, <2>4, <2>6, <3>1 DEF OpenInv
      <4>3. hin'[i] = hin[i] /\ op' = op BY <1>2, <2>4, <3>1
      <4>4. \A k \in Conn : k <= n => k <= n + 1 BY <1>4 DEF Conn
      <4> QED BY <2>1, <4>1, <4>2, <4>3, <4>4
    <3>2. CASE i = Len(hin) + 1
      <4>1. hin'[i][2] = n + 1 BY <2>4, <3>2
      <4>2. op[n + 1] = "none" BY <1>1, <1>4, <2>2 DEF OpenInv
      <4> QED BY <1>2, <1>4, <2>1, <4>1, <4>2
    <3> QED BY <2>4, <3>1, <3>2
  <2>7. ASSUME NEW i \in 1..Len(hin'), NEW j \in 1..Len(hin'), hin'[i][1] = "open",
               hin'[j][1] = "open", hin'[i][2] = hin'[j][2]
        PROVE  i = j
    <3>1. \A k \in 1..Len(hin) : hin'[k][1] = "open" => hin'[k][2] # n + 1
      <4>1. \A k \in 1..Len(hin) : hin[k][2] \in Conn BY <1>1 DEF OpenInv
      <4>2. \A k \in 1..Len(hin) : hin[k][1] = "open" => hin[k][2] <= n BY <1>1 DEF OpenInv
      <4>3. \A k \in Conn : k <= n => k # n + 1 BY <1>4 DEF Conn
      <4> QED BY <2>4, <4>1, <4>2, <4>3
    <3>2. hin'[Len(hin) + 1][2] = n + 1 BY <2>4
    <3>3. CASE i \in 1..Len(hin) /\ j \in 1..Len(hin) BY <1>1, <2>4, <2>7, <3>3 DEF OpenInv
    <3>4. CASE i = Len(hin) + 1 \/ j = Len(hin) + 1 BY <2>4, <2>7, <3>1, <3>2, <3>4
    <3> QED BY <2>4, <3>3, <3>4
  <2>8. OpenInv' BY <1>1, <1>2, <2>4, <2>5, <2>6, <2>7 DEF OpenInv
  <2>9. CtlInv' BY <1>1, <1>2, <2>1 DEF CtlInv
  <2>10. TellInv' BY <1>2, <2>1, Kept DEF CtlWritable
  <2>11. TypeOK'
    <3>1. n' \in 0..MaxConns BY <1>4, <2>1
    <3> QED BY <1>1, <1>2, <2>1, <3>1 DEF TypeOK
  <2> QED BY <1>3, <2>8, <2>9, <2>10, <2>11 DEF IInv
<1>6. CASE HostCtlHup
  <2>1. ctlHup' = TRUE /\ UNCHANGED <<n, hin, hcl>> BY <1>6 DEF HostCtlHup
  <2>2. OpenInv' /\ CtlInv' BY <1>2, <2>1, Kept
  <2>3. TellInv' BY <1>2, <2>1, Kept
  <2>4. TypeOK'
    <3>1. ctlHup' \in BOOLEAN BY <2>1, Zenon
    <3> QED BY <1>1, <1>2, <2>1, <3>1, Zenon DEF TypeOK
  <2> QED BY <1>3, <2>2, <2>3, <2>4 DEF IInv
<1>7. CASE \E c \in Conn : HostClose(c)
  <2>1. PICK c \in Conn : HostClose(c) BY <1>7
  <2>2. hcl' = hcl \cup {c} /\ hin' = Append(hin, <<"close", c>>) /\ UNCHANGED <<n, ctlHup>>
    BY <2>1 DEF HostClose
  <2>3. <<"close", c>> \in {"open", "close"} \X Conn OBVIOUS
  <2>4. /\ hin' \in Seq({"open", "close"} \X Conn) /\ Len(hin') = Len(hin) + 1
        /\ hin'[Len(hin) + 1] = <<"close", c>> /\ Len(hin) \in Nat
        /\ \A i \in 1..Len(hin) : hin'[i] = hin[i]
    BY <2>2, <2>3, AppendMsg
  <2>5. hin'[Len(hin) + 1][1] # "open" BY <2>4
  <2>6. \A i \in 1..Len(hin') : hin'[i][1] = "open" => i \in 1..Len(hin) BY <2>4, <2>5
  <2>7. \A i \in 1..Len(hin') : hin'[i][1] = "open" => hin'[i][2] <= n' /\ op'[hin'[i][2]] = "none"
    BY <1>1, <1>2, <2>2, <2>4, <2>6 DEF OpenInv
  <2>8. \A i, j \in 1..Len(hin') :
          hin'[i][1] = "open" /\ hin'[j][1] = "open" /\ hin'[i][2] = hin'[j][2] => i = j
    BY <1>1, <2>4, <2>6 DEF OpenInv
  <2>9. OpenInv' BY <1>1, <1>2, <2>2, <2>4, <2>7, <2>8 DEF OpenInv
  <2>10. CtlInv' /\ TellInv' BY <1>2, <2>2, Kept DEF CtlWritable
  <2>11. TypeOK' BY <1>1, <1>2, <2>2 DEF TypeOK
  <2> QED BY <1>3, <2>9, <2>10, <2>11 DEF IInv
<1> QED BY <1>5, <1>6, <1>7

\* A connection is closed by p.
LEMMA CloseConnStep ==
    ASSUME IInv, NEW p \in Procs, CloseConn(p) \/ EventEnd(p)
    PROVE  IInv'
<1> DEFINE c == on[p]
<1>1. TypeOK /\ OpenInv /\ CtlInv /\ CloseInv /\ TellInv /\ NoneLeftBehind BY DEF IInv
<1>2. UNCHANGED <<n, hin, hcl, ctlHup, acc, handler, op, reading, writing, user, ctl, todo, stop,
                  missed, late>>
  BY DEF CloseConn, CloseBegin, CloseAgain, CloseWrites, CloseReads, ClosePipe, CloseDelete, CloseStep,
         EventRefused, EventStart, EventEnd, EventOver, hostVars, ctlVars, history
<1>3. c \in Conn
  <2>1. c \in 0..MaxConns /\ c # None
    BY <1>1 DEF TypeOK, CloseConn, CloseBegin, CloseAgain, CloseWrites, CloseReads, ClosePipe,
                CloseDelete, CloseStep, EventRefused, EventStart, EventEnd, EventOver
  <2> QED BY <2>1, ProcTypes DEF None, Conn
<1>4. CtlInv' BY <1>2, Kept
<1>5. /\ conn \in [Conn -> Stages] /\ on \in [Procs -> 0..MaxConns] /\ ev \in [Conn -> Nat]
      /\ teller \in Procs \cup {Nobody}
  BY <1>1 DEF TypeOK
<1>6. UNCHANGED CtlWritable BY <1>2 DEF CtlWritable
<1>7. ctl.at = "range" => ctl.by \in Procs BY <1>1, ProcTypes DEF CtlInv, CtlStages
<1> HIDE DEF c
<1>8. CASE CloseBegin(p) \/ CloseWrites(p) \/ CloseReads(p) \/ ClosePipe(p) \/ CloseDelete(p)
  <2>1. PICK a \in {"begun", "writes", "reads", "pipe", "gone"} :
          /\ conn[c].at \in {"up", "begun", "writes", "reads", "pipe"}
          /\ conn' = [conn EXCEPT ![c] = Stage(a, p)]
          /\ m' = (IF a = "gone" THEN m \ {c} ELSE m)
          /\ UNCHANGED <<on, ev, teller>>
    <3>1. \A x \in {"begun", "writes", "reads", "pipe"} : Stage(x, p).at = x BY StageTypes
    <3>2. CASE CloseBegin(p) BY <3>2 DEF CloseBegin, At, c
    <3>3. CASE CloseWrites(p) BY <3>1, <3>3 DEF CloseWrites, CloseStep, At, c
    <3>4. CASE CloseReads(p) BY <3>1, <3>4 DEF CloseReads, CloseStep, At, c
    <3>5. CASE ClosePipe(p) BY <3>1, <3>5 DEF ClosePipe, CloseStep, At, c
    <3>6. CASE CloseDelete(p) BY <3>1, <3>6 DEF CloseDelete, CloseStep, At, c
    <3> QED BY <1>8, <3>2, <3>3, <3>4, <3>5, <3>6
  <2>2. Stage(a, p) \in Stages /\ Stage(a, p).at = a BY StageTypes
  <2>3. conn' \in [Conn -> Stages] BY <1>5, <2>1, <2>2
  <2>4. conn'[c].at = a /\ \A d \in Conn : d # c => conn'[d] = conn[d] BY <1>3, <1>5, <2>1, <2>2
  <2>5. TypeOK' BY <1>1, <1>2, <2>1, <2>3 DEF TypeOK
  <2>6. op[c] \notin Waiting BY <1>1, <1>3, <2>1 DEF OpenInv
  <2>7. m' \subseteq m BY <2>1
  <2>8. OpenInv' BY <1>1, <1>2, <2>1, <2>4, <2>6, <2>7 DEF OpenInv
  <2>9. CloseInv' BY <1>1, <1>2, <2>1, <2>7 DEF CloseInv
  <2>10. TellInv'
    <3> SUFFICES ASSUME NEW d \in Conn
                 PROVE  /\ Told(conn'[d].at, ev'[d], (CtlWritable /\ ~ctlHup)')
                        /\ conn'[d].at \in {"gone", "told", "closed"} => d \notin m'
      BY DEF TellInv
    <3>1. CASE d # c BY <1>1, <1>2, <1>6, <2>1, <2>4, <2>7, <3>1 DEF TellInv
    <3>2. CASE d = c
      <4>1. ev[c] = 0 BY <1>1, <1>3, <2>1 DEF TellInv, Told
      <4>2. Told(a, ev[c], (CtlWritable /\ ~ctlHup)') BY <4>1 DEF Told
      <4> QED BY <2>1, <2>4, <3>2, <4>2
    <3> QED BY <3>1, <3>2
  <2>11. NoneLeftBehind' BY <1>1, <1>2, <2>7 DEF NoneLeftBehind
  <2> QED BY <1>4, <2>5, <2>8, <2>9, <2>10, <2>11 DEF IInv
<1>9. CASE CloseAgain(p)
  <2>1. conn[c].at = "closed" /\ on' = [on EXCEPT ![p] = None] /\ UNCHANGED <<conn, ev, m, teller>>
    BY <1>9 DEF CloseAgain, Finished, At, c
  <2>2. on' \in [Procs -> 0..MaxConns] BY <1>5, <2>1, ProcTypes
  <2>3. TypeOK' BY <1>1, <1>2, <2>1, <2>2 DEF TypeOK
  <2>4. OpenInv' /\ TellInv' /\ NoneLeftBehind' BY <1>2, <1>6, <2>1, Kept
  <2>5. c \notin m BY <1>1, <1>3, <2>1 DEF TellInv
  <2>6. \A q \in Procs : on'[q] = on[q] \/ on[q] = c BY <1>5, <2>1 DEF c
  <2>7. CloseInv' BY <1>1, <1>2, <1>7, <2>1, <2>5, <2>6 DEF CloseInv
  <2> QED BY <1>4, <2>3, <2>4, <2>7 DEF IInv
<1>10. CASE EventStart(p)
  <2>1. teller' = p /\ UNCHANGED <<conn, on, ev, m>> BY <1>10 DEF EventStart
  <2>2. TypeOK' BY <1>1, <1>2, <2>1 DEF TypeOK
  <2>3. OpenInv' /\ CloseInv' /\ TellInv' /\ NoneLeftBehind' BY <1>2, <1>6, <2>1, Kept
  <2> QED BY <1>4, <2>2, <2>3 DEF IInv
<1>11. CASE EventRefused(p) \/ EventEnd(p)
  <2>1. /\ conn[c] \in {Stage("gone", p), Stage("told", p)} /\ UNCHANGED m
        /\ \/ /\ conn[c].at = "gone" /\ conn' = [conn EXCEPT ![c] = Stage("told", p)] /\ on' = on
           \/ /\ conn[c].at # "gone" /\ conn' = [conn EXCEPT ![c] = Still("closed")]
              /\ on' = [on EXCEPT ![p] = None]
    BY <1>11 DEF EventRefused, EventEnd, EventOver, Finished, At, c
  <2>2. /\ Stage("gone", p).at = "gone" /\ Stage("told", p).at = "told" /\ Still("closed").at = "closed"
        /\ Stage("told", p) \in Stages /\ Still("closed") \in Stages
    BY StageTypes
  <2>3. \/ conn[c].at = "gone" /\ conn'[c].at = "told"
        \/ conn[c].at = "told" /\ conn'[c].at = "closed"
    BY <1>3, <1>5, <2>1, <2>2
  <2>4. /\ conn' \in [Conn -> Stages] /\ on' \in [Procs -> 0..MaxConns]
        /\ \A d \in Conn : d # c => conn'[d] = conn[d]
    BY <1>3, <1>5, <2>1, <2>2, ProcTypes
  <2>5. \/ ev' = ev /\ ~(CtlWritable /\ ~ctlHup)
        \/ ev' = [ev EXCEPT ![c] = ev[c] + 1]
    BY <1>11 DEF EventRefused, EventEnd, At, c
  <2>6. ev' \in [Conn -> Nat] /\ \A d \in Conn : d # c => ev'[d] = ev[d] BY <1>3, <1>5, <2>5
  <2>7. teller' \in Procs \cup {Nobody} BY <1>5, <1>11 DEF EventRefused, EventEnd
  <2>8. TypeOK' BY <1>1, <1>2, <2>1, <2>4, <2>6, <2>7 DEF TypeOK
  <2>9. c \notin m BY <1>1, <1>3, <2>3 DEF TellInv
  <2>10. op[c] \notin Waiting BY <1>1, <1>3, <2>3 DEF OpenInv
  <2>11. OpenInv' BY <1>1, <1>2, <2>1, <2>4, <2>6, <2>10 DEF OpenInv
  <2>12. \A q \in Procs : on'[q] = on[q] \/ on[q] = c BY <1>5, <2>1 DEF c
  <2>13. CloseInv' BY <1>1, <1>2, <1>7, <2>1, <2>9, <2>12 DEF CloseInv
  <2>14. Told(conn'[c].at, ev'[c], CtlWritable /\ ~ctlHup)
    <3>1. Told(conn[c].at, ev[c], CtlWritable /\ ~ctlHup) /\ ev[c] \in Nat
      BY <1>1, <1>3, <1>5 DEF TellInv
    <3>2. \/ ev'[c] = ev[c] /\ ~(CtlWritable /\ ~ctlHup)
          \/ ev'[c] = ev[c] + 1
      BY <1>3, <1>5, <2>5
    <3> QED BY <2>3, <3>1, <3>2 DEF Told
  <2>15. TellInv'
    <3> SUFFICES ASSUME NEW d \in Conn
                 PROVE  /\ Told(conn'[d].at, ev'[d], (CtlWritable /\ ~ctlHup)')
                        /\ conn'[d].at \in {"gone", "told", "closed"} => d \notin m'
      BY DEF TellInv
    <3>1. CASE d # c BY <1>1, <1>2, <1>6, <2>1, <2>4, <2>6, <3>1 DEF TellInv
    <3>2. CASE d = c BY <1>2, <1>6, <2>1, <2>9, <2>14, <3>2
    <3> QED BY <3>1, <3>2
  <2>16. NoneLeftBehind' BY <1>2, <2>1, Kept
  <2> QED BY <1>4, <2>8, <2>11, <2>13, <2>15, <2>16 DEF IInv
<1> QED BY <1>8, <1>9, <1>10, <1>11 DEF CloseConn

\* The control connection is closed by p, or the listener begins to.
LEMMA CloseCtlStep ==
    ASSUME IInv, Close \/ \E p \in {HandlerP, StopP} : CloseCtl(p)
    PROVE  IInv'
<1>1. TypeOK /\ OpenInv /\ CtlInv /\ CloseInv /\ TellInv /\ NoneLeftBehind BY DEF IInv
<1>2. UNCHANGED <<n, hin, hcl, ctlHup, acc, op, conn, reading, writing, user, ev, m, teller, missed,
                  late>>
  BY DEF Close, CloseCtl, CtlBegin, CtlAgain, CtlWrites, CtlReads, CtlPipe, CtlNext, CtlEnd, hostVars,
         connVars, history
<1>3. OpenInv' BY <1>2, Kept
<1>4. \A q \in {HandlerP, StopP} : q \in Procs /\ q # Nobody BY ProcTypes
<1>5. CASE Close
  <2>1. stop' = "ctl" /\ UNCHANGED <<handler, on, ctl, todo>> BY <1>5 DEF Close, connVars
  <2>2. TypeOK' BY <1>1, <1>2, <2>1 DEF TypeOK
  <2>3. CtlInv' /\ CloseInv' /\ TellInv' /\ NoneLeftBehind' BY <1>2, <2>1, Kept DEF CtlWritable
  <2> QED BY <1>3, <2>2, <2>3 DEF IInv
<1>6. ASSUME NEW p \in {HandlerP, StopP}, CtlBegin(p) \/ CtlWrites(p) \/ CtlReads(p) PROVE IInv'
  <2>1. PICK a \in {"begun", "writes", "reads"} :
          /\ ctl.at \in {"up", "begun", "writes"} /\ (a = "begun" => ctl.at = "up")
          /\ ctl' = Stage(a, p) /\ UNCHANGED <<handler, on, todo, stop>>
          /\ p = HandlerP => handler = "defer"
    <3>1. \A x \in {"begun", "writes"} : Stage(x, p).at = x /\ Stage(x, p).by = p BY CtlTypes
    <3>2. CASE CtlBegin(p) BY <3>2, ProcTypes DEF CtlBegin, Closing, connVars
    <3>3. CASE CtlWrites(p) BY <1>1, <3>1, <3>3 DEF CtlWrites, CtlInv, connVars
    <3>4. CASE CtlReads(p) BY <1>1, <3>1, <3>4 DEF CtlReads, CtlInv, connVars
    <3> QED BY <1>6, <3>2, <3>3, <3>4
  <2>2. ctl' \in CtlStages /\ ctl'.at = a /\ ctl'.by = p BY <2>1, CtlTypes
  <2>3. TypeOK' BY <1>1, <1>2, <2>1 DEF TypeOK
  <2>4. CtlInv' BY <1>1, <1>2, <2>1, <2>2 DEF CtlInv
  <2>5. CloseInv' BY <1>1, <1>2, <2>2 DEF CloseInv
  <2>6. TellInv' BY <1>2, <2>1, <2>2, Kept DEF CtlWritable
  <2>7. NoneLeftBehind' BY <2>2 DEF NoneLeftBehind
  <2> QED BY <1>3, <2>3, <2>4, <2>5, <2>6, <2>7 DEF IInv
<1>7. ASSUME NEW p \in {HandlerP, StopP}, CtlAgain(p) PROVE IInv'
  <2>1. ctl.at = "closed" /\ CtlReturned(p) /\ UNCHANGED <<on, ctl, todo>> BY <1>7 DEF CtlAgain, connVars
  <2>2. handler' \in {handler, "done"} /\ stop' \in {stop, "done"} BY <2>1 DEF CtlReturned
  <2>3. ctl.by = Nobody BY <1>1, <2>1 DEF CtlInv, CtlStages
  <2>4. TypeOK' BY <1>1, <1>2, <2>1, <2>2 DEF TypeOK
  <2>5. CtlInv' BY <1>1, <1>2, <1>4, <2>1, <2>3 DEF CtlInv
  <2>6. CloseInv' /\ TellInv' /\ NoneLeftBehind' BY <1>2, <2>1, Kept DEF CtlWritable
  <2> QED BY <1>3, <2>4, <2>5, <2>6 DEF IInv
<1>8. ASSUME NEW p \in {HandlerP, StopP}, CtlPipe(p) PROVE IInv'
  <2>1. ctl = Stage("reads", p) /\ ctl' = Stage("range", p) /\ todo' = m /\ UNCHANGED <<handler, on, stop>>
    BY <1>8 DEF CtlPipe, connVars
  <2>2. /\ ctl.at = "reads" /\ ctl.by = p /\ ctl' \in CtlStages /\ ctl'.at = "range" /\ ctl'.by = p
    BY <2>1, CtlTypes
  <2>3. TypeOK' BY <1>1, <1>2, <2>1 DEF TypeOK
  <2>4. CtlInv' BY <1>1, <1>2, <2>1, <2>2 DEF CtlInv
  <2>5. CloseInv' BY <1>1, <1>2, <2>1, <2>2 DEF CloseInv
  <2>6. TellInv' BY <1>2, <2>2, Kept DEF CtlWritable
  <2>7. NoneLeftBehind' BY <2>2 DEF NoneLeftBehind
  <2> QED BY <1>3, <2>3, <2>4, <2>5, <2>6, <2>7 DEF IInv
<1>9. ASSUME NEW p \in {HandlerP, StopP}, NEW c \in Conn, CtlNext(p, c) PROVE IInv'
  <2>1. /\ ctl = Stage("range", p) /\ on[p] = None /\ todo' = todo \ {c}
        /\ on' = (IF c \in m THEN [on EXCEPT ![p] = c] ELSE on) /\ UNCHANGED <<handler, ctl, stop>>
    BY <1>9 DEF CtlNext, At
  <2>2. ctl.at = "range" /\ ctl.by = p BY <2>1, CtlTypes
  <2>3. on \in [Procs -> 0..MaxConns] /\ c \in 0..MaxConns /\ None \notin m /\ p \in Procs
    BY <1>1, <1>4, ProcTypes DEF TypeOK
  <2>4. on' \in [Procs -> 0..MaxConns] /\ (c \in m => on'[p] = c) BY <2>1, <2>3
  <2>5. TypeOK' BY <1>1, <1>2, <2>1, <2>4 DEF TypeOK
  <2>6. CtlInv' /\ TellInv' /\ NoneLeftBehind' BY <1>2, <2>1, Kept DEF CtlWritable
  <2>7. m \subseteq todo \cup late BY <1>1, <2>1, <2>2, <2>3 DEF CloseInv
  <2>8. CloseInv' BY <1>1, <1>2, <2>1, <2>2, <2>4, <2>7 DEF CloseInv
  <2> QED BY <1>3, <2>5, <2>6, <2>8 DEF IInv
<1>10. ASSUME NEW p \in {HandlerP, StopP}, CtlEnd(p) PROVE IInv'
  <2>1. /\ ctl = Stage("range", p) /\ on[p] = None /\ todo = {} /\ ctl' = Still("closed")
        /\ CtlReturned(p) /\ UNCHANGED <<on, todo>>
    BY <1>10 DEF CtlEnd, connVars
  <2>2. ctl.at = "range" /\ ctl.by = p /\ ctl' \in CtlStages /\ ctl'.at = "closed" /\ ctl'.by = Nobody
    BY <2>1, CtlTypes
  <2>3. handler' \in {handler, "done"} /\ stop' \in {stop, "done"} BY <2>1 DEF CtlReturned
  <2>4. TypeOK' BY <1>1, <1>2, <2>1, <2>3 DEF TypeOK
  <2>5. CtlInv' BY <1>1, <1>2, <1>4, <2>2 DEF CtlInv
  <2>6. CloseInv' BY <1>1, <1>2, <2>2 DEF CloseInv
  <2>7. TellInv' BY <1>2, <2>2, Kept DEF CtlWritable
  <2>8. None \notin m BY <1>1, ProcTypes DEF TypeOK
  <2>9. m \subseteq late BY <1>1, <2>1, <2>2, <2>8 DEF CloseInv
  <2>10. NoneLeftBehind' BY <1>2, <2>9 DEF NoneLeftBehind
  <2> QED BY <1>3, <2>4, <2>5, <2>6, <2>7, <2>10 DEF IInv
<1> QED BY <1>5, <1>6, <1>7, <1>8, <1>9, <1>10 DEF CloseCtl

\* Open makes a connection, and Accept hands it to the server.
LEMMA OpenStep ==
    ASSUME IInv, NEW c \in Conn, Open(c) \/ AcceptConn(c) \/ AcceptErr(c)
    PROVE  IInv'
<1>1. TypeOK /\ OpenInv /\ CtlInv /\ CloseInv /\ TellInv /\ NoneLeftBehind BY DEF IInv
<1>2. UNCHANGED <<n, hin, hcl, ctlHup, handler, reading, writing, on, ev, teller, ctl, todo, stop, missed>>
  BY DEF Open, OpenPipe, OpenStore, AcceptConn, AcceptErr, hostVars, connVars, ctlVars, history
<1>3. op \in [Conn -> {"none", "accept", "store", "offer", "failed", "done"}] /\ conn \in [Conn -> Stages]
  BY <1>1 DEF TypeOK
<1>4. CASE OpenPipe(c) \/ AcceptConn(c) \/ AcceptErr(c)
  <2>1. UNCHANGED <<conn, m, late>>
    BY <1>4 DEF OpenPipe, AcceptConn, AcceptErr, connVars, history
  <2>2. PICK v \in {"failed", "store", "done"} :
          /\ op' = [op EXCEPT ![c] = v]
          /\ \/ op[c] = "accept" /\ v \in {"failed", "store"}
             \/ op[c] = "offer" /\ v = "done"
             \/ op[c] = "failed" /\ v = "done"
    BY <1>4 DEF OpenPipe, AcceptConn, AcceptErr, At
  <2>3. /\ op' \in [Conn -> {"none", "accept", "store", "offer", "failed", "done"}]
        /\ op'[c] = v /\ \A d \in Conn : d # c => op'[d] = op[d]
    BY <1>3, <2>2
  <2>4. /\ acc' \in {acc, "wait", "gone"} /\ (acc' # acc => acc = "wait")
        /\ user' \in [Conn -> {"none", "uses", "left"}]
    BY <1>1, <1>4 DEF OpenPipe, AcceptConn, AcceptErr, At, connVars, TypeOK
  <2>5. TypeOK' BY <1>1, <1>2, <2>1, <2>3, <2>4 DEF TypeOK
  <2>6. OpenInv'
    <3>1. \A d \in Conn : op[d] = "none" => op'[d] = "none" BY <2>2, <2>3
    <3>2. \A d \in Conn : op'[d] \in Waiting => op[d] \in Waiting BY <2>2, <2>3 DEF Waiting
    <3>3. \A i \in 1..Len(hin) : hin[i][2] \in Conn BY <1>1 DEF OpenInv
    <3>4. \A d \in Conn : d > n' => op'[d] = "none" BY <1>1, <1>2, <3>1 DEF OpenInv
    <3>5. \A i \in 1..Len(hin') : hin'[i][1] = "open" => hin'[i][2] <= n' /\ op'[hin'[i][2]] = "none"
      BY <1>1, <1>2, <3>1, <3>3 DEF OpenInv
    <3> QED BY <1>1, <1>2, <2>1, <3>2, <3>4, <3>5 DEF OpenInv
  <2>7. CtlInv'
    <3>1. acc' = "idle" <=> acc = "idle" BY <2>4
    <3> QED BY <1>1, <1>2, <3>1 DEF CtlInv
  <2>8. CloseInv' /\ TellInv' /\ NoneLeftBehind' BY <1>2, <2>1, Kept DEF CtlWritable
  <2> QED BY <2>5, <2>6, <2>7, <2>8 DEF IInv
<1>5. CASE OpenStore(c)
  <2>1. /\ op[c] = "store" /\ op' = [op EXCEPT ![c] = "offer"] /\ m' = m \cup {c}
        /\ conn' = [conn EXCEPT ![c] = Still("up")]
        /\ late' = (IF ctl.at \in {"range", "closed"} THEN late \cup {c} ELSE late)
        /\ UNCHANGED <<acc, user>>
    BY <1>5 DEF OpenStore, At
  <2>2. /\ op' \in [Conn -> {"none", "accept", "store", "offer", "failed", "done"}]
        /\ op'[c] = "offer" /\ \A d \in Conn : d # c => op'[d] = op[d]
    BY <1>3, <2>1
  <2>3. /\ conn' \in [Conn -> Stages] /\ conn'[c].at = "up"
        /\ \A d \in Conn : d # c => conn'[d] = conn[d]
    BY <1>3, <2>1, StageTypes
  <2>4. TypeOK' BY <1>1, <1>2, <2>1, <2>2, <2>3 DEF TypeOK
  <2>5. ev[c] = 0 BY <1>1, <2>1 DEF OpenInv, Waiting
  <2>6. OpenInv'
    <3>1. \A i \in 1..Len(hin) : hin[i][2] \in Conn BY <1>1 DEF OpenInv
    <3>2. \A d \in Conn : d > n' => op'[d] = "none" BY <1>1, <1>2, <2>1, <2>2 DEF OpenInv
    <3>3. \A i \in 1..Len(hin') : hin'[i][1] = "open" => hin'[i][2] <= n' /\ op'[hin'[i][2]] = "none"
      BY <1>1, <1>2, <2>1, <2>2, <3>1 DEF OpenInv
    <3>4. \A d \in Conn : op'[d] \in Waiting => conn'[d].at = "none" /\ ev'[d] = 0 /\ d \notin m'
      BY <1>1, <1>2, <2>1, <2>2, <2>3 DEF OpenInv, Waiting
    <3> QED BY <1>1, <1>2, <3>2, <3>3, <3>4 DEF OpenInv
  <2>7. CtlInv' BY <1>2, <2>1, Kept
  <2>8. CloseInv' BY <1>1, <1>2, <2>1, <2>3 DEF CloseInv
  <2>9. TellInv'
    <3>1. UNCHANGED (CtlWritable /\ ~ctlHup) BY <1>2 DEF CtlWritable
    <3>2. Told("up", ev[c], CtlWritable /\ ~ctlHup) BY <2>5 DEF Told
    <3> QED BY <1>1, <1>2, <2>1, <2>3, <3>1, <3>2 DEF TellInv
  <2>10. NoneLeftBehind' BY <1>1, <1>2, <2>1 DEF NoneLeftBehind
  <2> QED BY <2>4, <2>6, <2>7, <2>8, <2>9, <2>10 DEF IInv
<1> QED BY <1>4, <1>5 DEF Open

\* The handler reads, and takes a message.
LEMMA HandlerStep ==
    ASSUME IInv, Handler
    PROVE  IInv'
<1>1. TypeOK /\ OpenInv /\ CtlInv /\ CloseInv /\ TellInv /\ NoneLeftBehind BY DEF IInv
<1>2. UNCHANGED <<n, hcl, ctlHup, acc, conn, reading, writing, user, ev, m, teller, ctl, todo, stop,
                  late>>
  BY DEF Handler, HandlerRead, HandlerMsg, HandlerErr, hostVars, connVars, ctlVars, history
<1>3. handler # "defer" /\ handler' \in {"idle", "in", "defer"}
  BY DEF Handler, HandlerRead, HandlerMsg, HandlerErr
<1>4. ctl.by # HandlerP BY <1>1, <1>3 DEF CtlInv
<1>5. CtlInv' BY <1>1, <1>2, <1>4 DEF CtlInv
<1>6. TellInv' /\ NoneLeftBehind' BY <1>2, Kept DEF CtlWritable
<1>7. CASE HandlerRead \/ HandlerErr
  <2>1. UNCHANGED <<hin, op, on, missed>> BY <1>7 DEF HandlerRead, HandlerErr, connVars, history
  <2>2. TypeOK' BY <1>1, <1>2, <1>3, <2>1 DEF TypeOK
  <2>3. OpenInv' /\ CloseInv' BY <1>2, <2>1, Kept
  <2> QED BY <1>5, <1>6, <2>2, <2>3 DEF IInv
<1>8. CASE HandlerMsg
  <2> DEFINE c == Head(hin)[2]
  <2>1. hin \in Seq({"open", "close"} \X Conn) /\ hin # <<>> /\ hin' = Tail(hin)
    BY <1>1, <1>8 DEF HandlerMsg, OpenInv
  <2>2. /\ Len(hin) \in Nat /\ Len(hin) > 0 /\ Head(hin) = hin[1] /\ 1 \in 1..Len(hin)
        /\ hin' \in Seq({"open", "close"} \X Conn)
        /\ Len(hin') = Len(hin) - 1 /\ \A i \in 1..Len(hin') : hin'[i] = hin[i + 1]
    BY <2>1
  <2>3. c \in Conn /\ c = hin[1][2]
    <3>1. Head(hin) \in {"open", "close"} \X Conn BY <2>1
    <3> QED BY <2>2, <3>1
  <2>4. \A i \in 1..Len(hin') : i + 1 \in 1..Len(hin) /\ i + 1 # 1 BY <2>2
  <2>5. \/ /\ hin[1][1] = "open" /\ op' = [op EXCEPT ![c] = "accept"] /\ UNCHANGED <<on, missed>>
        \/ /\ hin[1][1] = "close" /\ on' = [on EXCEPT ![HandlerP] = c] /\ UNCHANGED <<op, missed>>
        \/ /\ hin[1][1] = "close" /\ missed' \in {missed, missed \cup {c}} /\ UNCHANGED <<op, on>>
    BY <1>8, <2>2 DEF HandlerMsg, At
  <2> HIDE DEF c
  <2>6. op \in [Conn -> {"none", "accept", "store", "offer", "failed", "done"}] /\ on \in [Procs -> 0..MaxConns]
    BY <1>1 DEF TypeOK
  <2>7. op[c] = "none" \/ op' = op BY <1>1, <2>2, <2>3, <2>5 DEF OpenInv
  <2>8. /\ op' \in [Conn -> {"none", "accept", "store", "offer", "failed", "done"}]
        /\ \A d \in Conn : op'[d] = op[d] \/ (d = c /\ op[d] = "none" /\ op'[d] = "accept" /\ hin[1][1] = "open")
    BY <2>3, <2>5, <2>6, <2>7
  <2>9. on' \in [Procs -> 0..MaxConns] /\ \A q \in Procs : q # HandlerP => on'[q] = on[q]
    BY <2>3, <2>5, <2>6, ProcTypes
  <2>10. TypeOK'
    <3>1. missed' \subseteq Conn BY <1>1, <2>3, <2>5 DEF TypeOK
    <3> QED BY <1>1, <1>2, <1>3, <2>8, <2>9, <3>1 DEF TypeOK
  <2>11. OpenInv'
    <3>1. \A d \in Conn : d > n' => op'[d] = "none"
      <4>1. hin[1][1] = "open" => c <= n BY <1>1, <2>2, <2>3 DEF OpenInv
      <4>2. n \in Nat BY <1>1, ProcTypes DEF TypeOK
      <4>3. \A d \in Conn : ~(d <= n /\ d > n) BY <4>2 DEF Conn
      <4> QED BY <1>1, <1>2, <2>3, <2>8, <4>1, <4>3 DEF OpenInv
    <3>2. \A d \in Conn : op'[d] \in Waiting => conn'[d].at = "none" /\ ev'[d] = 0 /\ d \notin m'
      BY <1>1, <1>2, <2>8 DEF OpenInv, Waiting
    <3>3. ASSUME NEW i \in 1..Len(hin'), hin'[i][1] = "open"
          PROVE  hin'[i][2] <= n' /\ op'[hin'[i][2]] = "none"
      <4>1. hin'[i] = hin[i + 1] /\ i + 1 \in 1..Len(hin) /\ i + 1 # 1 BY <2>2, <2>4
      <4>2. hin[i + 1][2] <= n /\ op[hin[i + 1][2]] = "none" BY <1>1, <3>3, <4>1 DEF OpenInv
      <4>3. hin[i + 1][2] \in Conn BY <2>1, <4>1
      <4>4. hin[1][1] = "open" => hin[i + 1][2] # c BY <1>1, <2>2, <2>3, <3>3, <4>1 DEF OpenInv
      <4> QED BY <1>2, <2>8, <4>1, <4>2, <4>3, <4>4
    <3>4. ASSUME NEW i \in 1..Len(hin'), NEW j \in 1..Len(hin'),
                 hin'[i][1] = "open", hin'[j][1] = "open", hin'[i][2] = hin'[j][2]
          PROVE  i = j
      <4>1. /\ hin'[i] = hin[i + 1] /\ i + 1 \in 1..Len(hin)
            /\ hin'[j] = hin[j + 1] /\ j + 1 \in 1..Len(hin)
        BY <2>2, <2>4
      <4>2. i + 1 = j + 1 BY <1>1, <3>4, <4>1 DEF OpenInv
      <4> QED BY <2>2, <4>2
    <3> QED BY <2>2, <3>1, <3>2, <3>3, <3>4 DEF OpenInv
  <2>12. ctl.at = "range" => ctl.by \in Procs BY <1>1, ProcTypes DEF CtlInv, CtlStages
  <2>13. CloseInv' BY <1>1, <1>2, <1>4, <2>9, <2>12 DEF CloseInv
  <2> QED BY <1>5, <1>6, <2>10, <2>11, <2>13 DEF IInv
<1> QED BY <1>7, <1>8 DEF Handler

\* The first Accept, and the users of the connections.
LEMMA UserStep ==
    ASSUME IInv,
           \/ AcceptFirst
           \/ \E c \in Conn : Read(c) \/ ReadReturns(c) \/ Write(c) \/ WriteReturns(c) \/ UserClose(c)
    PROVE  IInv'
<1>1. TypeOK /\ OpenInv /\ CtlInv /\ CloseInv /\ TellInv /\ NoneLeftBehind BY DEF IInv
<1>2. UNCHANGED <<n, hin, hcl, ctlHup, op, conn, ev, m, teller, todo, stop, missed, late>>
  BY DEF AcceptFirst, Read, ReadReturns, Write, WriteReturns, UserClose, hostVars, connVars, ctlVars, history
<1>3. OpenInv' BY <1>2, Kept
<1>4. CASE AcceptFirst
  <2>1. /\ acc = "idle" /\ acc' = "wait" /\ ctl' = Still("up") /\ handler' = "idle"
        /\ UNCHANGED <<reading, writing, user, on>>
    BY <1>4 DEF AcceptFirst, connVars
  <2>2. ctl.at = "none" /\ n = 0 BY <1>1, <2>1 DEF CtlInv
  <2>3. ctl' \in CtlStages /\ ctl'.at = "up" /\ ctl'.by = Nobody BY <2>1, CtlTypes
  <2>4. \A c \in Conn : conn[c].at = "none"
    <3>1. \A c \in Conn : c > n BY <2>2 DEF Conn
    <3> QED BY <1>1, <3>1 DEF OpenInv, Waiting
  <2>5. TypeOK' BY <1>1, <1>2, <2>1 DEF TypeOK
  <2>6. CtlInv' BY <2>1, <2>3, ProcTypes DEF CtlInv
  <2>7. CloseInv' BY <1>1, <1>2, <2>3 DEF CloseInv
  <2>8. TellInv'
    <3>1. \A c \in Conn : conn'[c].at = "none" /\ ev'[c] = 0 BY <1>1, <1>2, <2>4 DEF TellInv, Told
    <3> QED BY <3>1 DEF TellInv, Told
  <2>9. NoneLeftBehind' BY <2>3 DEF NoneLeftBehind
  <2> QED BY <1>3, <2>5, <2>6, <2>7, <2>8, <2>9 DEF IInv
<1>5. ASSUME NEW c \in Conn, Read(c) \/ ReadReturns(c) \/ Write(c) \/ WriteReturns(c) PROVE IInv'
  <2>1. /\ reading' \subseteq reading \cup {c} /\ writing' \subseteq writing \cup {c}
        /\ UNCHANGED <<acc, handler, user, on, ctl>>
    BY <1>5 DEF Read, ReadReturns, Write, WriteReturns, ctlVars
  <2>2. TypeOK' BY <1>1, <1>2, <2>1 DEF TypeOK
  <2>3. CtlInv' /\ CloseInv' /\ TellInv' /\ NoneLeftBehind' BY <1>2, <2>1, Kept DEF CtlWritable
  <2> QED BY <1>3, <2>2, <2>3 DEF IInv
<1>6. ASSUME NEW c \in Conn, UserClose(c) PROVE IInv'
  <2>1. /\ user' = [user EXCEPT ![c] = "left"] /\ on' = [on EXCEPT ![c] = c]
        /\ UNCHANGED <<acc, handler, reading, writing, ctl>>
    BY <1>6 DEF UserClose, ctlVars, At
  <2>2. on \in [Procs -> 0..MaxConns] /\ user \in [Conn -> {"none", "uses", "left"}] BY <1>1 DEF TypeOK
  <2>3. /\ on' \in [Procs -> 0..MaxConns] /\ user' \in [Conn -> {"none", "uses", "left"}]
        /\ \A q \in Procs : q # c => on'[q] = on[q]
    BY <2>1, <2>2, ProcTypes
  <2>4. TypeOK' BY <1>1, <1>2, <2>1, <2>3 DEF TypeOK
  <2>5. CtlInv' /\ TellInv' /\ NoneLeftBehind' BY <1>2, <2>1, Kept DEF CtlWritable
  <2>6. ctl.at = "range" => ctl.by \in Procs /\ ctl.by # c BY <1>1, ProcTypes DEF CtlInv, CtlStages
  <2>7. CloseInv' BY <1>1, <1>2, <2>1, <2>3, <2>6 DEF CloseInv
  <2> QED BY <1>3, <2>4, <2>5, <2>7 DEF IInv
<1> QED BY <1>4, <1>5, <1>6

\* Every step keeps the invariant.
LEMMA StepInv == IInv /\ [Next]_vars => IInv'
<1> SUFFICES ASSUME IInv, [Next]_vars PROVE IInv'
  OBVIOUS
<1>1. CASE HostOpen \/ HostCtlHup \/ \E c \in Conn : HostClose(c) BY <1>1, HostStep
<1>2. CASE \E p \in Procs : CloseConn(p) \/ EventEnd(p) BY <1>2, CloseConnStep
<1>3. CASE Close \/ \E p \in {HandlerP, StopP} : CloseCtl(p) BY <1>3, CloseCtlStep
<1>4. CASE AcceptNext \/ \E c \in Conn : Open(c) BY <1>4, OpenStep DEF AcceptNext
<1>5. CASE Handler BY <1>5, HandlerStep
<1>6. CASE \/ AcceptFirst
           \/ \E c \in Conn : Read(c) \/ ReadReturns(c) \/ Write(c) \/ WriteReturns(c) \/ UserClose(c)
  BY <1>6, UserStep
<1>7. CASE UNCHANGED vars
  <2>1. UNCHANGED <<n, hcl, ctlHup, hin, acc, handler, op, conn, reading, writing, user, on, ev, m,
                    teller, ctl, todo, stop, missed, late>>
    BY <1>7 DEF vars, hostVars, connVars, ctlVars, history
  <2>2. TypeOK' BY <2>1 DEF IInv, TypeOK
  <2>3. OpenInv' /\ CtlInv' /\ CloseInv' /\ TellInv' /\ NoneLeftBehind' BY <2>1, Kept DEF CtlWritable
  <2> QED BY <2>2, <2>3 DEF IInv
<1> QED BY <1>1, <1>2, <1>3, <1>4, <1>5, <1>6, <1>7 DEF Next

\* The invariant holds whatever the number of connections and whoever reads
\* and closes them.
THEOREM Invariance == Spec => []IInv
<1> QED BY InitInv, StepInv, PTL DEF Spec

\* However many callers close a connection, q.closed lets one of them send its
\* events, the fd is out of the map before the first, and both are sent while
\* the control connection is up.
THEOREM HostTold == Spec => []CloseTold
<1>1. IInv => CloseTold
  <2> SUFFICES ASSUME IInv, NEW c \in Conn
               PROVE  /\ ev[c] <= 2 /\ (ev[c] > 0 => c \notin m)
                      /\ conn[c].at = "closed" /\ CtlWritable /\ ~ctlHup => ev[c] = 2
    BY DEF CloseTold
  <2>1. /\ Told(conn[c].at, ev[c], CtlWritable /\ ~ctlHup)
        /\ conn[c].at \in {"gone", "told", "closed"} => c \notin m
    BY DEF IInv, TellInv
  <2> QED BY <2>1 DEF Told
<1> QED BY Invariance, <1>1, PTL

\* When the Close of the control connection is through, every connection that
\* was in the map when its Range began is closed.
THEOREM RangeClosesAll == Spec => []NoneLeftBehind
<1>1. IInv => NoneLeftBehind BY DEF IInv
<1> QED BY Invariance, <1>1, PTL
==============================================================================
