----------------------------- MODULE UsbService -----------------------------
(***************************************************************************)
(* The Android service that joins the usb accessory and the server on the  *)
(* device (java/com/google/waterfall/usb/UsbService.java, started by       *)
(* UsbActivity.java and by hand).  Callbacks run on the main thread, one   *)
(* at a time; a fixed pool of threads runs                                 *)
(*   watch  waits for an accessory and asks for permission to use it,      *)
(*   drive  waits for the permission, opens the accessory and proxies,     *)
(*   r, w   copy from and to the accessory.                                *)
(*                                                                         *)
(* Android makes a new instance of the service when it is started after    *)
(* onDestroy.  The pool, the list of tasks and two flags are static: they  *)
(* outlive an instance, as do tasks that an interrupt does not stop.       *)
(* Instance i is the i-th, attachment g of an accessory the g-th.          *)
(***************************************************************************)
EXTENDS Naturals, Sequences, FiniteSets

CONSTANTS
    MaxInsts,           \* bound: instances of the service
    MaxAttach           \* bound: times an accessory is attached

ASSUME UsbServiceAssumption == MaxInsts \in Nat \ {0} /\ MaxAttach \in Nat \ {0}

\* Mutant of NumThreads: nobody counted the driver.
TwoThreads == 2

NumThreads == 3
Inst == 1..MaxInsts
Attachment == 1..MaxAttach
None == 0
Task == {"watch", "drive", "r", "w"}
Copiers == {"r", "w"}
Ended == {"done", "threw"}

VARIABLES
    n, main,            \* instances created, where the main thread is
    att, atts,          \* the accessory attached now, attachments so far
    note, det,          \* an intent and a broadcast under way
    asked, granted,     \* attachments permission was asked for, granted for
    serviceStarted, connectionStarted,
    queue,              \* of IO_EXECUTOR: tasks no thread has taken
    cancelled,          \* tasks in TASK_QUEUE that were cancelled and have not ended
    st,                 \* where a task is
    kind,               \* the action of the drive task
    accessory, fdField, \* fields of an instance: the accessory; accessoryFd is not null
    barrier,            \* of the last instance: permissionBarrier was counted down,
    receiver,           \*   usbReceiver is registered,
    disconnect,         \*   usbDisconnectReceiver is registered
    fd, sock,           \* the descriptor and the socket drive has opened
    late                \* history: accessoryFd was set after tearDown read it

service == <<n, main, note, serviceStarted, connectionStarted>>
usb == <<att, atts, det, asked, granted>>
pool == <<queue, cancelled, st, kind>>
fields == <<accessory, fdField, barrier, receiver, disconnect>>
files == <<fd, sock, late>>
vars == <<service, usb, pool, fields, files>>

Init ==
    /\ n = 0 /\ main = "down" /\ note = FALSE
    /\ att = None /\ atts = 0 /\ det = FALSE /\ asked = {} /\ granted = {}
    /\ serviceStarted = FALSE /\ connectionStarted = FALSE
    /\ queue = <<>> /\ cancelled = {}
    /\ st = [i \in Inst |-> [t \in Task |-> "none"]]
    /\ kind = [i \in Inst |-> "none"]
    /\ accessory = [i \in Inst |-> None]
    /\ fdField = {} /\ barrier = FALSE /\ receiver = FALSE /\ disconnect = FALSE
    /\ fd = [i \in Inst |-> "none"] /\ sock = [i \in Inst |-> "none"] /\ late = {}
-----------------------------------------------------------------------------
(* The pool.                                                               *)

Running == {x \in Inst \X Task : st[x[1]][x[2]] \notin {"none", "queued"} \cup Ended}
Cancelled(i, t) == <<i, t>> \in cancelled

\* A task goes to place p.
Goes(i, t, p) ==
    /\ st' = [st EXCEPT ![i][t] = p]
    /\ cancelled' = IF p \in Ended THEN cancelled \ {<<i, t>>} ELSE cancelled

\* Only the place of a task changes.
Moves(i, t, p) ==
    Goes(i, t, p) /\ UNCHANGED <<service, usb, queue, kind, fields, files>>

\* Where a task begins.
Entry(t) == CASE t = "watch" -> "check" [] t = "drive" -> "await" [] OTHER -> "copy"

\* Mutant of Submit: each task gets a thread of its own.
SubmitOwnThread(i, ts) ==
    /\ st' = [st EXCEPT ![i] = [t \in Task |->
                  IF \E k \in DOMAIN ts : ts[k] = t THEN Entry(t) ELSE @[t]]]
    /\ UNCHANGED queue

\* submitToQueue of the tasks ts, in that order.
Submit(i, ts) ==
    /\ queue' = queue \o [k \in DOMAIN ts |-> <<i, ts[k]>>]
    /\ st' = [st EXCEPT ![i] = [t \in Task |->
                  IF \E k \in DOMAIN ts : ts[k] = t THEN "queued" ELSE @[t]]]

\* A thread takes the next task; one that was cancelled is not run.
RunNext ==
    /\ queue # <<>> /\ Cardinality(Running) < NumThreads
    /\ LET i == Head(queue)[1]
           t == Head(queue)[2]
       IN  Goes(i, t, IF Cancelled(i, t) THEN "threw" ELSE Entry(t))
    /\ queue' = Tail(queue)
    /\ UNCHANGED <<service, usb, kind, fields, files>>
-----------------------------------------------------------------------------
(* The main thread.                                                        *)

Serving == main \in {"down", "up", "stopping"}
\* The instance that gets an intent.
Current == IF main = "down" THEN n + 1 ELSE n

\* startService, after onCreate when there is no instance, with the tasks ts
\* that the intent has submitted.
Starts(ts) ==
    LET i == Current
        watch == IF serviceStarted THEN <<>> ELSE <<"watch">>
    IN  /\ Serving /\ i <= MaxInsts
        /\ n' = i /\ main' = IF main = "down" THEN "up" ELSE main
        /\ Submit(i, watch \o ts)
        /\ serviceStarted' = TRUE /\ receiver' = (receiver \/ ~serviceStarted)
        /\ barrier' = (barrier /\ main # "down") /\ disconnect' = (disconnect /\ main # "down")

\* onStart for an intent with the action proxy or echo.
ConnectIntent(action) ==
    /\ Starts(IF connectionStarted THEN <<>> ELSE <<"drive">>)
    /\ connectionStarted' = TRUE
    /\ kind' = IF connectionStarted THEN kind ELSE [kind EXCEPT ![Current] = action]
    /\ UNCHANGED <<usb, note, cancelled, accessory, fdField, files>>

\* Mutant of Notify: nobody is notified.
NotifyNobody == UNCHANGED <<st, cancelled>>

\* accessoryAttachedLock.notify() by an instance that has its watcher.
Notify ==
    IF st[n]["watch"] = "wait" THEN Goes(n, "watch", "check") ELSE UNCHANGED <<st, cancelled>>

\* onStart for the intent that UsbActivity sends when an accessory is
\* attached: it has no action.
AttachedIntent ==
    /\ note /\ note' = FALSE
    /\ \/ ~serviceStarted /\ Starts(<<>>) /\ UNCHANGED cancelled
       \/ /\ serviceStarted /\ Serving /\ Notify
          /\ UNCHANGED <<n, main, serviceStarted, queue, barrier, receiver, disconnect>>
    /\ UNCHANGED <<connectionStarted, usb, kind, accessory, fdField, files>>

\* usbReceiver: permission was granted or refused, to whomever asked for it.
PermissionBroadcast(g, yes) ==
    /\ Serving /\ g \in asked
    /\ asked' = asked \ {g}
    /\ granted' = IF yes THEN granted \cup {g} ELSE granted
    /\ barrier' = (barrier \/ receiver)
    /\ UNCHANGED <<service, att, atts, det, pool, accessory, fdField, receiver, disconnect, files>>

\* usbDisconnectReceiver, which was registered when the accessory went.
DetachedBroadcast ==
    /\ Serving /\ det /\ det' = FALSE
    /\ main' = IF main = "up" /\ accessory[n] # None THEN "stopping" ELSE main
    /\ UNCHANGED <<n, note, serviceStarted, connectionStarted,
                   att, atts, asked, granted, pool, fields, files>>

\* The service is stopped by someone else (bound: not the last instance).
StopService ==
    /\ main = "up" /\ n < MaxInsts /\ main' = "stopping"
    /\ UNCHANGED <<n, note, serviceStarted, connectionStarted, usb, pool, fields, files>>

\* Mutant of TearDownFd: accessoryFd is set to null but not closed.
TearDownNoClose ==
    /\ main = "stopping" /\ main' = "cancel"
    /\ fdField' = fdField \ {n}
    /\ receiver' = FALSE /\ disconnect' = FALSE /\ det' = FALSE
    /\ UNCHANGED <<n, note, serviceStarted, connectionStarted, att, atts, asked, granted,
                   pool, accessory, barrier, files>>

\* onDestroy is tearDown: close accessoryFd and unregister, cancel the tasks.
TearDownFd ==
    /\ main = "stopping" /\ main' = "cancel"
    /\ fd' = IF n \in fdField THEN [fd EXCEPT ![n] = "closed"] ELSE fd
    /\ fdField' = fdField \ {n}
    /\ receiver' = FALSE /\ disconnect' = FALSE /\ det' = FALSE
    /\ UNCHANGED <<n, note, serviceStarted, connectionStarted, att, atts, asked, granted,
                   pool, accessory, barrier, sock, late>>

CancelTasks ==
    /\ main = "cancel" /\ main' = "down"
    /\ cancelled' = cancelled \cup
           {x \in Inst \X Task : /\ st[x[1]][x[2]] \notin Ended \cup {"none"}
                                 /\ ~(x[2] = "r" /\ kind[x[1]] = "echo")}
    /\ serviceStarted' = FALSE /\ connectionStarted' = FALSE
    /\ UNCHANGED <<n, note, usb, queue, st, kind, fields, files>>

Torn(i) == i < n \/ (i = n /\ main = "down")
-----------------------------------------------------------------------------
(* The watcher, with accessoryAttachedLock.                                *)

Check(i) ==
    /\ st[i]["watch"] = "check"
    /\ IF att = None
         THEN /\ Goes(i, "watch", IF Cancelled(i, "watch") THEN "done" ELSE "wait")
              /\ UNCHANGED <<asked, accessory>>
         ELSE /\ Goes(i, "watch", "done")
              /\ accessory' = [accessory EXCEPT ![i] = att]
              /\ asked' = asked \cup {att}
    /\ UNCHANGED <<service, att, atts, det, granted, queue, kind,
                   fdField, barrier, receiver, disconnect, files>>

\* wait() and await() are interrupted by cancel.
Interrupted(i, t) ==
    /\ st[i][t] \in {"wait", "await"} /\ Cancelled(i, t)
    /\ Moves(i, t, "done")

Watch(i) == Check(i) \/ Interrupted(i, "watch")
-----------------------------------------------------------------------------
(* The driver.                                                             *)

\* Mutant of Permitted: the receiver is not registered.
PermittedUnregistered(i) ==
    /\ st[i]["drive"] = "await" /\ i = n /\ barrier /\ ~Cancelled(i, "drive")
    /\ Moves(i, "drive", IF accessory[i] = None THEN "done" ELSE "open")

\* The barrier is open: getAccessory, which throws on null, and the start of
\* connectToUsbAccessory, which registers the receiver.
Permitted(i) ==
    /\ st[i]["drive"] = "await" /\ i = n /\ barrier /\ ~Cancelled(i, "drive")
    /\ IF accessory[i] = None
         THEN Goes(i, "drive", "done") /\ UNCHANGED disconnect
         ELSE Goes(i, "drive", "open") /\ disconnect' = TRUE
    /\ UNCHANGED <<service, usb, queue, kind, accessory, fdField, barrier, receiver, files>>

Open(i) ==
    /\ st[i]["drive"] = "open"
    /\ accessory[i] \in granted /\ att = accessory[i]
    /\ Goes(i, "drive", "assign") /\ fd' = [fd EXCEPT ![i] = "open"]
    /\ UNCHANGED <<service, usb, queue, kind, fields, sock, late>>

\* No permission, or a null descriptor for whatever reason.
OpenFails(i) == st[i]["drive"] = "open" /\ Moves(i, "drive", "done")

\* accessoryFd = ...: tearDown sees it, or has been there already.
Assign(i) ==
    /\ st[i]["drive"] = "assign"
    /\ Goes(i, "drive", "call") /\ fdField' = fdField \cup {i}
    /\ late' = IF Torn(i) \/ main = "cancel" THEN late \cup {i} ELSE late
    /\ UNCHANGED <<service, usb, queue, kind, accessory, barrier, receiver, disconnect, fd, sock>>

\* The driver has submitted copier t and goes to place p.
Submits(i, t, p) ==
    /\ queue' = Append(queue, <<i, t>>)
    /\ st' = [st EXCEPT ![i]["drive"] = p, ![i][t] = "queued"]
    /\ UNCHANGED <<service, usb, cancelled, kind, fields, files>>

\* proxy is called with accessoryFd, which tearDown may have set to null, but
\* connects to the server before it notices.
Proxy(i) ==
    /\ st[i]["drive"] = "call" /\ kind[i] = "proxy"
    /\ Goes(i, "drive", IF i \in fdField THEN "streams" ELSE "done")
    /\ sock' = [sock EXCEPT ![i] = "up"]
    /\ UNCHANGED <<service, usb, queue, kind, fields, fd, late>>

ConnectFails(i) ==
    st[i]["drive"] = "call" /\ kind[i] = "proxy" /\ Moves(i, "drive", "done")

\* r is submitted, and then w.  Nothing looks whether the descriptor has been
\* closed meanwhile: the copiers find out.
Streams(i) ==
    \/ st[i]["drive"] = "streams" /\ Submits(i, "r", "submitW")
    \/ st[i]["drive"] = "submitW" /\ Submits(i, "w", "get")

\* echo is called with accessoryFd, and submits r past TASK_QUEUE.
Echo(i) ==
    /\ st[i]["drive"] = "call" /\ kind[i] = "echo"
    /\ \/ i \in fdField /\ Submits(i, "r", "get")
       \/ i \notin fdField /\ Moves(i, "drive", "done")

\* r.get(), then w.get().  They throw if the copier did, and if this task was
\* cancelled, as it is whenever the copier is.
Get(i) ==
    \/ /\ st[i]["drive"] = "get" /\ st[i]["r"] = "done" /\ ~Cancelled(i, "drive")
       /\ Moves(i, "drive", IF kind[i] = "proxy" THEN "getW" ELSE "done")
    \/ /\ st[i]["drive"] = "getW" /\ st[i]["w"] = "done" /\ ~Cancelled(i, "drive")
       /\ Moves(i, "drive", "done")
    \/ /\ \/ st[i]["drive"] \in {"get", "getW"} /\ Cancelled(i, "drive")
          \/ st[i]["drive"] = "get" /\ st[i]["r"] = "threw"
          \/ st[i]["drive"] = "getW" /\ st[i]["w"] = "threw"
       /\ Moves(i, "drive", "done")

Drive(i) ==
    \/ Interrupted(i, "drive") \/ Permitted(i) \/ Open(i) \/ OpenFails(i) \/ Assign(i)
    \/ Proxy(i) \/ ConnectFails(i) \/ Streams(i) \/ Echo(i) \/ Get(i)
-----------------------------------------------------------------------------
(* The copiers.  Neither a read nor a write is interrupted by cancel.      *)

Detached(i) == att # accessory[i]

\* The read fails or ends at once: there is nothing left to wait for.
SourceEnds(i, t) ==
    /\ st[i][t] = "copy"
    /\ IF t = "r" THEN Detached(i) ELSE sock[i] = "shut"
    /\ \E p \in {"done", "threw"} : Moves(i, t, p)

\* Data arrive and the other side cannot take them, or the descriptor turns
\* out to be closed.
CopyFails(i, t) ==
    /\ st[i][t] = "copy"
    /\ fd[i] = "closed" \/ Detached(i) \/ sock[i] = "shut"
    /\ Moves(i, t, "threw")

Copy(i, t) == SourceEnds(i, t) \/ CopyFails(i, t)
-----------------------------------------------------------------------------
(* The environment.  Permission lasts as long as the accessory stays; the  *)
(* receiver of an instance that is being destroyed stops nothing.          *)

Attach ==
    /\ att = None /\ atts < MaxAttach
    /\ atts' = atts + 1 /\ att' = atts + 1 /\ note' = TRUE
    /\ UNCHANGED <<n, main, serviceStarted, connectionStarted, det, asked, granted, pool, fields, files>>

Detach ==
    /\ att # None /\ att' = None
    /\ det' = (det \/ (disconnect /\ main \in {"up", "stopping"}))
    /\ granted' = granted \ {att}
    /\ UNCHANGED <<service, atts, asked, pool, fields, files>>

\* The server closes its end of the socket, which shows once it is copied from
\* or to.
WaterfallCloses(i) ==
    /\ sock[i] = "up" /\ \E t \in Copiers : st[i][t] = "copy"
    /\ sock' = [sock EXCEPT ![i] = "shut"]
    /\ UNCHANGED <<service, usb, pool, fields, fd, late>>
-----------------------------------------------------------------------------
TearDown == TearDownFd \/ CancelTasks
Permission == \E g \in Attachment, yes \in BOOLEAN : PermissionBroadcast(g, yes)

Next ==
    \/ \E a \in {"proxy", "echo"} : ConnectIntent(a)
    \/ AttachedIntent \/ Permission \/ DetachedBroadcast \/ StopService \/ TearDown
    \/ RunNext
    \/ \E i \in Inst : Watch(i) \/ Drive(i) \/ \E t \in Copiers : Copy(i, t)
    \/ Attach \/ Detach \/ \E i \in Inst : WaterfallCloses(i)

Spec == Init /\ [][Next]_vars

\* What the main thread and the threads of the pool do by themselves, and the
\* delivery of what is under way.  Permission is answered by a user, and the
\* server need not send or close.
Progress ==
    \/ AttachedIntent \/ DetachedBroadcast \/ TearDown \/ RunNext
    \/ \E i \in Inst : Watch(i) \/ Drive(i) \/ \E t \in Copiers : SourceEnds(i, t)

\* Less than the fairness of each thread: something of it happens.
FairSpec == Spec /\ WF_vars(Progress)
-----------------------------------------------------------------------------
(* Properties.                                                             *)

\* The variables keep their types, and no more tasks run than there are threads.
TypeOK ==
    /\ n \in 0..MaxInsts
    /\ main \in {"down", "up", "stopping", "cancel"}
    /\ att \in {None, atts} /\ atts \in 0..MaxAttach
    /\ asked \cup granted \subseteq Attachment
    /\ queue \in Seq(Inst \X Task) /\ cancelled \subseteq Inst \X Task
    /\ st \in [Inst -> [Task -> {"none", "queued", "check", "wait", "await", "open", "assign",
                                  "call", "streams", "submitW", "get", "getW", "copy"} \cup Ended]]
    /\ kind \in [Inst -> {"none", "proxy", "echo"}]
    /\ accessory \in [Inst -> {None} \cup Attachment]
    /\ fdField \cup late \subseteq Inst /\ {barrier, receiver, disconnect, note, det} \subseteq BOOLEAN
    /\ fd \in [Inst -> {"none", "open", "closed"}]
    /\ sock \in [Inst -> {"none", "up", "shut"}]
    /\ Cardinality(Running) <= NumThreads

\* A service that was destroyed has closed its accessory; only a driver that
\* opened it behind tearDown's back leaves it open (UsbService.java:275, 299).
NoFdLeft == \A i \in Inst : Torn(i) /\ fd[i] = "open" => i \in late \/ st[i]["drive"] = "assign"

\* No watcher waits for ever while an accessory is attached: it looks and waits,
\* and is notified, under one lock (UsbService.java:185, 228).
AttachedIsSeen == []<>(\A i \in Inst : ~(st[i]["watch"] = "wait" /\ att # None))

\* When the accessory that a service has opened is detached, the service is
\* destroyed: the receiver is registered before the accessory is opened.
StopsOnDetach == []<>(\A i \in Inst : fd[i] # "none" /\ Detached(i) => Torn(i))

\* A copier of a destroyed instance keeps its thread while it waits for the
\* server: nobody closes its socket, and cancel does not end its read.
ThreadKept == \E i \in Inst, t \in Copiers : Torn(i) /\ st[i][t] = "copy"

\* "Read/Writer threads + driver thread" (UsbService.java:50): the copiers of a
\* driver are run, or cancelled, unless a destroyed instance keeps a thread.
CopiersRun ==
    []<>(\A i \in Inst, t \in Copiers : st[i]["drive"] = "get" => st[i][t] # "queued")
        \/ <>[]ThreadKept
=============================================================================
