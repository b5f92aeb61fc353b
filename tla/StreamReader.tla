---------------------------- MODULE StreamReader ----------------------------
(***************************************************************************)
(* One direction of a stream.ReadWriteCloser (stream/stream.go): the far   *)
(* end's Writer turns every Write into a message of a gRPC stream, the     *)
(* near end's goroutine startReads moves messages to msgChan, and Read     *)
(* cuts them into the caller's buffers.                                    *)
(*                                                                         *)
(* msgs is the history of the messages sent; the messages not received     *)
(* yet, the one startReads holds and the ones in msgChan are told apart by *)
(* the counters nrecv >= nput >= ntook.                                    *)
(***************************************************************************)
EXTENDS Naturals, Sequences

CONSTANTS
    MsgSizes,           \* lengths of the slices passed to Write, 0 included
    BufSizes,           \* lengths of the slices passed to Read
    ChanCap,            \* capacity of msgChan
    MaxMsgs             \* bound: messages ever sent

ASSUME StreamReaderAssumption ==
    /\ MsgSizes \subseteq Nat
    /\ BufSizes \subseteq Nat \ {0}
    /\ ChanCap \in Nat \ {0}
    /\ MaxMsgs \in Nat

VARIABLES
    msgs,               \* messages sent: bytes lo+1 .. lo+size of the stream
    closes,             \* CLOSE messages sent after them
    stream,             \* "up", "broken" once RecvMsg fails
    nrecv, nput, ntook, \* messages received, put on and taken off msgChan
    loop,               \* startReads; "done" once it has closed msgChan
    errChan,            \* content of errChan, "none" if empty
    rd, room, nt,       \* the Read in progress, what is left of b, its nt
    left,               \* len(lastRead)
    cr,                 \* "closed" once CloseRead was called
    out, rerr           \* the bytes and the error that Reads have returned

sendVars == <<msgs, closes>>
loopVars == <<nrecv, nput, loop>>
readVars == <<ntook, rd, room, nt, left, out, rerr>>
vars == <<sendVars, stream, loopVars, errChan, readVars, cr>>

Msg == [lo : Nat, size : Nat]
MkMsg(l, n) == [lo |-> l, size |-> n]
EndOf(m) == m.lo + m.size
\* Bytes of the stream up to the end of the i-th message.
EndAt(i) == IF i = 0 THEN 0 ELSE EndOf(msgs[i])
Written == EndAt(Len(msgs))
Lesser(m, n) == IF m < n THEN m ELSE n
Bytes(l, n) == [i \in 1..n |-> l + i]

Init ==
    /\ msgs = <<>> /\ closes = 0
    /\ stream = "up"
    /\ nrecv = 0 /\ nput = 0 /\ ntook = 0
    /\ loop = "recv" /\ errChan = "none"
    /\ rd = "idle" /\ room = 0 /\ nt = 0 /\ left = 0
    /\ cr = "open"
    /\ out = <<>> /\ rerr = "none"
-----------------------------------------------------------------------------
(* The far end; as stream.go asks of its callers, writes do not overlap.   *)

Write(n) ==
    /\ closes = 0                                   \* cw is set by CloseWrite
    /\ stream = "up"
    /\ Len(msgs) < MaxMsgs
    /\ msgs' = Append(msgs, MkMsg(Written, n))
    /\ UNCHANGED <<closes, stream, loopVars, errChan, readVars, cr>>

\* CloseWrite and Close both send CloseMsg, also when it was sent before.
CloseWrite ==
    /\ stream = "up"
    /\ closes < 2
    /\ closes' = closes + 1
    /\ UNCHANGED <<msgs, stream, loopVars, errChan, readVars, cr>>

\* The rpc ends or its context is cancelled: messages not received are lost.
Break ==
    /\ stream = "up"
    /\ stream' = "broken"
    /\ UNCHANGED <<sendVars, loopVars, errChan, readVars, cr>>
-----------------------------------------------------------------------------
(* startReads.                                                             *)

\* Mutant of RecvMsg: an empty payload is taken for the end of the stream.
RecvMsgEmptyEnds ==
    /\ loop = "recv"
    /\ nrecv < Len(msgs)
    /\ \/ /\ msgs[nrecv + 1].size > 0
          /\ loop' = "put" /\ nrecv' = nrecv + 1
          /\ UNCHANGED errChan
       \/ /\ msgs[nrecv + 1].size = 0
          /\ loop' = "close" /\ errChan' = "eof"
          /\ UNCHANGED nrecv
    /\ UNCHANGED <<sendVars, stream, nput, readVars, cr>>

\* RecvMsg and GetBytes return the next payload, which may be empty.
RecvMsg ==
    /\ loop = "recv"
    /\ nrecv < Len(msgs)
    /\ nrecv' = nrecv + 1
    /\ loop' = "put"
    /\ UNCHANGED <<sendVars, stream, nput, errChan, readVars, cr>>

\* s.msgChan <- b blocks while the channel is full.
PutMsg ==
    /\ loop = "put"
    /\ nput - ntook < ChanCap
    /\ nput' = nput + 1
    /\ loop' = "recv"
    /\ UNCHANGED <<sendVars, stream, nrecv, errChan, readVars, cr>>

\* GetBytes finds CLOSE and returns io.EOF.
RecvClose ==
    /\ loop = "recv"
    /\ nrecv = Len(msgs) /\ closes > 0
    /\ errChan' = "eof"
    /\ loop' = "close"
    /\ UNCHANGED <<sendVars, stream, nrecv, nput, readVars, cr>>

\* RecvMsg returns an error.
RecvFail ==
    /\ loop = "recv"
    /\ stream = "broken"
    /\ errChan' = "err"
    /\ loop' = "close"
    /\ UNCHANGED <<sendVars, stream, nrecv, nput, readVars, cr>>

CloseChan ==
    /\ loop = "close"
    /\ loop' = "done"
    /\ UNCHANGED <<sendVars, stream, nrecv, nput, errChan, readVars, cr>>
-----------------------------------------------------------------------------
(* Read.  A caller stops at the first error, as io.Copy does.              *)

ReadRefused ==
    /\ rd = "idle" /\ rerr = "none" /\ cr = "closed"
    /\ rerr' = "errClosedRead"
    /\ UNCHANGED <<sendVars, stream, loopVars, errChan, cr>>
    /\ UNCHANGED <<ntook, rd, room, nt, left, out>>

\* Leftover bytes from the last message.
ReadLeft(len) ==
    /\ rd = "idle" /\ rerr = "none" /\ cr = "open"
    /\ left > 0
    /\ out' = out \o Bytes(EndAt(ntook) - left, Lesser(len, left))
    /\ left' = left - Lesser(len, left)
    /\ UNCHANGED <<sendVars, stream, loopVars, errChan, cr>>
    /\ UNCHANGED <<ntook, rd, room, nt, rerr>>

ReadStart(len) ==
    /\ rd = "idle" /\ rerr = "none" /\ cr = "open"
    /\ left = 0
    /\ rd' = "wait" /\ room' = len /\ nt' = 0
    /\ UNCHANGED <<sendVars, stream, loopVars, errChan, cr>>
    /\ UNCHANGED <<ntook, left, out, rerr>>

Taking == rd \in {"wait", "drain"} /\ ntook < nput
TookMsg == msgs[ntook + 1]

\* handleMsg: the message leaves room in b, so Read looks for another one.
ReadPart ==
    /\ Taking /\ TookMsg.size < room
    /\ ntook' = ntook + 1
    /\ out' = out \o Bytes(TookMsg.lo, TookMsg.size)
    /\ nt' = nt + TookMsg.size
    /\ room' = room - TookMsg.size
    /\ rd' = "drain"
    /\ UNCHANGED <<sendVars, stream, loopVars, errChan, cr, left, rerr>>

\* Mutant of ReadFill: lastRead is cut by nt, not by what this message gave.
ReadFillCutsTotal ==
    /\ Taking /\ TookMsg.size >= room
    /\ ntook' = ntook + 1
    /\ out' = out \o Bytes(TookMsg.lo, room)
    /\ left' = TookMsg.size - Lesser(TookMsg.size, nt + room)
    /\ rd' = "idle" /\ room' = 0 /\ nt' = 0
    /\ UNCHANGED <<sendVars, stream, loopVars, errChan, cr, rerr>>

\* handleMsg: the message fills b; the rest of it is lastRead.
ReadFill ==
    /\ Taking /\ TookMsg.size >= room
    /\ ntook' = ntook + 1
    /\ out' = out \o Bytes(TookMsg.lo, room)
    /\ left' = TookMsg.size - room
    /\ rd' = "idle" /\ room' = 0 /\ nt' = 0
    /\ UNCHANGED <<sendVars, stream, loopVars, errChan, cr, rerr>>

\* The channel is empty for now: Read returns what it has.
ReadDrained ==
    /\ rd = "drain" /\ ntook = nput /\ loop # "done"
    /\ rd' = "idle" /\ room' = 0 /\ nt' = 0
    /\ UNCHANGED <<sendVars, stream, loopVars, errChan, cr>>
    /\ UNCHANGED <<ntook, left, out, rerr>>

\* The channel is closed and Read has something: the error waits for the next.
ReadShort ==
    /\ rd = "drain" /\ ntook = nput /\ loop = "done"
    /\ nt > 0
    /\ rd' = "idle" /\ room' = 0 /\ nt' = 0
    /\ UNCHANGED <<sendVars, stream, loopVars, errChan, cr>>
    /\ UNCHANGED <<ntook, left, out, rerr>>

\* Mutant of ReadEnd: the error is looked at before the channel is drained.
ReadEndEager ==
    /\ rd \in {"wait", "drain"} /\ loop = "done"
    /\ nt = 0
    /\ rd' = "err"
    /\ UNCHANGED <<sendVars, stream, loopVars, errChan, cr>>
    /\ UNCHANGED <<ntook, room, nt, left, out, rerr>>

\* The channel is closed and Read has nothing.
ReadEnd ==
    /\ rd \in {"wait", "drain"} /\ ntook = nput /\ loop = "done"
    /\ nt = 0
    /\ rd' = "err"
    /\ UNCHANGED <<sendVars, stream, loopVars, errChan, cr>>
    /\ UNCHANGED <<ntook, room, nt, left, out, rerr>>

\* <-s.errChan
ReadErr ==
    /\ rd = "err" /\ errChan # "none"
    /\ rerr' = errChan
    /\ errChan' = "none"
    /\ rd' = "idle" /\ room' = 0
    /\ UNCHANGED <<sendVars, stream, loopVars, cr, ntook, nt, left, out>>

\* CloseRead, also called by Close, only sets a flag: a Read in progress stays.
CloseRead ==
    /\ cr = "open"
    /\ cr' = "closed"
    /\ UNCHANGED <<sendVars, stream, loopVars, errChan, readVars>>
-----------------------------------------------------------------------------
StartReads == RecvMsg \/ PutMsg \/ RecvClose \/ RecvFail \/ CloseChan
Reading == ReadPart \/ ReadFill \/ ReadDrained \/ ReadShort \/ ReadEnd \/ ReadErr
ReadCall == ReadRefused \/ \E len \in BufSizes : ReadLeft(len) \/ ReadStart(len)

Next ==
    \/ (\E n \in MsgSizes : Write(n)) \/ CloseWrite \/ Break
    \/ StartReads \/ Reading \/ ReadCall \/ CloseRead

Spec == Init /\ [][Next]_vars

\* The goroutine and the Read in progress run on, and the caller reads until
\* an error, as io.Copy does.
FairSpec == Spec /\ WF_vars(StartReads) /\ WF_vars(Reading) /\ WF_vars(ReadCall)
-----------------------------------------------------------------------------
(* Properties.                                                             *)

\* The variables keep their types: in particular the slices' lengths, room and
\* left, do not go below zero.
TypeOK ==
    /\ msgs \in Seq(Msg) /\ closes \in Nat
    /\ stream \in {"up", "broken"}
    /\ nrecv \in Nat /\ nput \in Nat /\ ntook \in Nat
    /\ loop \in {"recv", "put", "close", "done"}
    /\ errChan \in {"none", "eof", "err"}
    /\ rd \in {"idle", "wait", "drain", "err"}
    /\ room \in Nat /\ nt \in Nat /\ left \in Nat
    /\ cr \in {"open", "closed"}
    /\ out \in Seq(Nat)
    /\ rerr \in {"none", "eof", "err", "errClosedRead"}

\* However Read's buffers cut and join the messages, the bytes come out in
\* order, each once.
InOrder == \A i \in DOMAIN out : out[i] = i

\* What the reader's counters and lastRead say about the stream: the
\* inductive invariant behind InOrder and ErrorIsLast.
ReaderInv ==
    /\ \A i \in 1..Len(msgs) : msgs[i].lo = EndAt(i - 1)
    /\ ntook <= nput /\ nput <= nrecv /\ nrecv <= Len(msgs)
    /\ nrecv = (IF loop = "put" THEN nput + 1 ELSE nput)
    /\ left <= EndAt(ntook) /\ Len(out) = EndAt(ntook) - left
    /\ rd # "idle" => left = 0 /\ room > 0 /\ rerr = "none"
    /\ rd = "err" => ntook = nput /\ loop = "done" /\ errChan # "none"
    /\ loop \in {"recv", "put"} => errChan = "none" /\ rerr \in {"none", "errClosedRead"}
    /\ loop \in {"close", "done"} => errChan # "none" \/ rerr \in {"eof", "err"}
    /\ errChan = "eof" \/ rerr = "eof" => nput = Len(msgs) /\ closes > 0
    /\ errChan = "err" \/ rerr = "err" => stream = "broken"
    /\ rerr \in {"eof", "err"} => ntook = nput /\ left = 0 /\ errChan = "none"

\* An error of the stream reaches the caller after every byte received before
\* it (msgChan and lastRead are empty), and io.EOF after every byte written.
ErrorIsLast ==
    /\ rerr \in {"eof", "err"} => Len(out) = EndAt(nrecv)
    /\ rerr = "eof" => Len(out) = Written

\* A caller that keeps reading learns of the end of the stream, although the
\* error and the closing of msgChan are two steps; and it is handed every
\* message unless the stream breaks or reading is closed: a full msgChan or a
\* drained one never loses the goroutine or the reader (stream.go:66-96).
ReadsToEnd ==
    /\ (closes > 0 \/ stream = "broken") ~> rerr # "none"
    /\ \A k \in 1..MaxMsgs :
         (Len(msgs) >= k)
             ~> ((ntook >= k /\ left = 0) \/ stream = "broken" \/ cr = "closed")

\* One direction of the stream is a byte stream.
Stream == INSTANCE ByteStream WITH
    Dir <- {"in"},
    written <- [d \in {"in"} |-> Written],
    delivered <- [d \in {"in"} |-> out],
    ended <- {d \in {"in"} : closes > 0},
    eof <- {d \in {"in"} : rerr = "eof"},
    pipe <- IF stream = "up" THEN "up" ELSE "lost"

\* The reader implements ByteStream: message boundaries are invisible.
StreamSpec == Stream!Spec
=============================================================================
