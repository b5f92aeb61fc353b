------------------------- MODULE StreamReaderProofs -------------------------
(***************************************************************************)
(* Proofs about StreamReader, for any sizes of messages and buffers and    *)
(* any capacity of msgChan: ReaderInv is inductive, the bytes come out in  *)
(* order, an error comes after them, and the reader implements ByteStream. *)
(***************************************************************************)
EXTENDS StreamReader, TLAPS

\* No message ends after the last one.
Ends == \A i \in 1..Len(msgs) : EndOf(msgs[i]) <= Written

IInv == TypeOK /\ ReaderInv /\ InOrder /\ Ends

\* What TypeOK says of the messages.
LEMMA MsgTypes ==
    ASSUME TypeOK
    PROVE  /\ Len(msgs) \in Nat
           /\ \A i \in 1..Len(msgs) : /\ msgs[i].lo \in Nat /\ msgs[i].size \in Nat
                                      /\ EndAt(i) \in Nat
           /\ EndAt(0) = 0
<1>1. msgs \in Seq(Msg) BY DEF TypeOK
<1>2. \A i \in 1..Len(msgs) : msgs[i] \in Msg BY <1>1
<1>3. \A i \in 1..Len(msgs) : msgs[i].lo \in Nat /\ msgs[i].size \in Nat BY <1>2 DEF Msg
<1> QED BY <1>1, <1>3 DEF EndAt, EndOf

\* The ends of the messages are numbers.
LEMMA EndTypes ==
    ASSUME TypeOK, NEW i \in 0..Len(msgs)
    PROVE  EndAt(i) \in Nat
<1>1. i = 0 \/ i \in 1..Len(msgs) BY MsgTypes
<1> QED BY <1>1, MsgTypes

\* Handing over the next k bytes keeps the order.
LEMMA AppendBytes ==
    ASSUME out \in Seq(Nat), InOrder, NEW k \in Nat, out' = out \o Bytes(Len(out), k)
    PROVE  /\ out' \in Seq(Nat) /\ Len(out') = Len(out) + k /\ InOrder'
           /\ \A i \in 1..Len(out) : out'[i] = out[i]
<1> DEFINE b == Bytes(Len(out), k)
<1>1. Len(out) \in Nat OBVIOUS
<1>2. b \in Seq(Nat) /\ Len(b) = k /\ \A i \in 1..k : b[i] = Len(out) + i
  BY <1>1 DEF Bytes
<1> HIDE DEF b
<1>3. out' = out \o b BY DEF b
<1>4. out' \in Seq(Nat) /\ Len(out') = Len(out) + k BY <1>2, <1>3
<1>5. \A i \in 1..Len(out) : out'[i] = out[i] BY <1>2, <1>3
<1>6. \A i \in Len(out) + 1 .. Len(out) + k : out'[i] = b[i - Len(out)]
  BY <1>1, <1>2, <1>3
<1>7. ASSUME NEW i \in 1..Len(out') PROVE out'[i] = i
  <2>1. CASE i \in 1..Len(out) BY <1>5, <2>1 DEF InOrder
  <2>2. CASE i \in Len(out) + 1 .. Len(out) + k
    <3>1. i - Len(out) \in 1..k BY <1>1, <2>2
    <3>2. out'[i] = Len(out) + (i - Len(out)) BY <1>2, <1>6, <2>2, <3>1
    <3> QED BY <1>1, <3>2
  <2> QED BY <1>1, <1>4, <2>1, <2>2
<1>8. InOrder' BY <1>4, <1>7 DEF InOrder
<1> QED BY <1>4, <1>5, <1>8

\* The reader starts with nothing.
LEMMA InitInv == Init => IInv
<1> SUFFICES ASSUME Init PROVE IInv
  OBVIOUS
<1>1. msgs = <<>> /\ out = <<>> /\ Len(msgs) = 0 /\ Len(out) = 0 BY DEF Init
<1>2. TypeOK BY DEF Init, TypeOK
<1>3. ReaderInv BY <1>1 DEF Init, ReaderInv, EndAt
<1>4. InOrder BY <1>1 DEF InOrder
<1>5. Ends BY <1>1 DEF Ends
<1> QED BY <1>2, <1>3, <1>4, <1>5 DEF IInv

\* A step that sends no message leaves the ends of the messages alone.
LEMMA EndsKept ==
    ASSUME IInv, msgs' = msgs
    PROVE  /\ Written' = Written /\ Ends'
           /\ \A i \in 1..Len(msgs') : msgs'[i].lo = EndAt(i - 1)'
<1>1. \A i \in 1..Len(msgs) : msgs[i].lo = EndAt(i - 1) BY DEF IInv, ReaderInv
<1>2. \A i \in 1..Len(msgs) : EndAt(i - 1)' = EndAt(i - 1) BY DEF EndAt
<1>3. Written' = Written BY DEF Written, EndAt
<1>4. Ends' BY <1>3 DEF IInv, Ends
<1> QED BY <1>1, <1>2, <1>3, <1>4

\* The far end sends a message.
LEMMA WriteStep ==
    ASSUME IInv, NEW n \in MsgSizes, Write(n) PROVE IInv'
<1> DEFINE new == MkMsg(Written, n)
<1>1. TypeOK /\ ReaderInv /\ InOrder /\ Ends BY DEF IInv
<1>2. /\ closes = 0 /\ stream = "up" /\ msgs' = Append(msgs, new)
      /\ UNCHANGED <<closes, stream, nrecv, nput, loop, errChan, ntook, rd, room, nt, left, out, rerr, cr>>
  BY DEF Write, loopVars, readVars
<1>3. n \in Nat /\ Written \in Nat /\ Len(msgs) \in Nat
  BY <1>1, StreamReaderAssumption, MsgTypes, EndTypes DEF Written
<1>4. new \in Msg /\ new.lo = Written /\ new.size = n BY <1>3 DEF MkMsg, Msg
<1> HIDE DEF new
<1>5. msgs \in Seq(Msg) BY <1>1 DEF TypeOK
<1>6. /\ msgs' \in Seq(Msg) /\ Len(msgs') = Len(msgs) + 1 /\ msgs'[Len(msgs) + 1] = new
      /\ \A i \in 1..Len(msgs) : msgs'[i] = msgs[i]
  BY <1>2, <1>4, <1>5
<1>7. TypeOK' BY <1>1, <1>2, <1>6 DEF TypeOK
<1>8. \A i \in 0..Len(msgs) : EndAt(i)' = EndAt(i) BY <1>3, <1>6 DEF EndAt
<1>9. Written' = Written + n BY <1>3, <1>4, <1>6 DEF Written, EndAt, EndOf
<1>10. ASSUME NEW i \in 1..Len(msgs') PROVE msgs'[i].lo = EndAt(i - 1)'
  <2>1. CASE i \in 1..Len(msgs)
    <3>1. msgs[i].lo = EndAt(i - 1) /\ i - 1 \in 0..Len(msgs) BY <1>1, <1>3, <2>1 DEF ReaderInv
    <3> QED BY <1>6, <1>8, <2>1, <3>1
  <2>2. CASE i = Len(msgs) + 1
    <3>1. EndAt(i - 1)' = EndAt(Len(msgs)) BY <1>3, <1>8, <2>2
    <3> QED BY <1>4, <1>6, <2>2, <3>1 DEF Written
  <2> QED BY <1>3, <1>6, <2>1, <2>2
<1>11. ntook \in 0..Len(msgs) BY <1>1, <1>3 DEF TypeOK, ReaderInv
<1>12. EndAt(ntook)' = EndAt(ntook) BY <1>2, <1>8, <1>11
<1>13. ReaderInv'
  <2>1. errChan # "eof" /\ rerr # "eof" BY <1>1, <1>2 DEF ReaderInv
  <2>2. nrecv \in Nat /\ nrecv' <= Len(msgs') BY <1>1, <1>2, <1>3, <1>6 DEF TypeOK, ReaderInv
  <2>3. left' <= EndAt(ntook)' /\ Len(out') = EndAt(ntook)' - left'
    BY <1>1, <1>2, <1>12 DEF ReaderInv
  <2> QED BY <1>1, <1>2, <1>10, <2>1, <2>2, <2>3 DEF ReaderInv
<1>14. Ends'
  <2>1. ASSUME NEW i \in 1..Len(msgs') PROVE EndOf(msgs'[i]) <= Written'
    <3>1. CASE i \in 1..Len(msgs)
      <4>1. EndOf(msgs[i]) <= Written /\ EndOf(msgs[i]) \in Nat
        BY <1>1, <3>1, MsgTypes DEF Ends, EndOf
      <4> QED BY <1>3, <1>6, <1>9, <3>1, <4>1
    <3>2. CASE i = Len(msgs) + 1 BY <1>3, <1>4, <1>6, <1>9, <3>2 DEF EndOf
    <3> QED BY <1>3, <1>6, <3>1, <3>2
  <2> QED BY <2>1 DEF Ends
<1>15. InOrder' BY <1>1, <1>2 DEF InOrder
<1> QED BY <1>7, <1>13, <1>14, <1>15 DEF IInv

\* The far end closes, the rpc breaks, or reading is closed.
LEMMA CloseStep ==
    ASSUME IInv, CloseWrite \/ Break \/ CloseRead PROVE IInv'
<1>1. TypeOK /\ ReaderInv /\ InOrder /\ Ends BY DEF IInv
<1>2. /\ UNCHANGED <<msgs, nrecv, nput, loop, errChan, ntook, rd, room, nt, left, out, rerr>>
      /\ \/ closes' = closes + 1 /\ UNCHANGED <<stream, cr>>
         \/ stream = "up" /\ stream' = "broken" /\ UNCHANGED <<closes, cr>>
         \/ cr' = "closed" /\ UNCHANGED <<closes, stream>>
  BY DEF CloseWrite, Break, CloseRead, sendVars, loopVars, readVars
<1>3. TypeOK' BY <1>1, <1>2 DEF TypeOK
<1>4. EndAt(ntook)' = EndAt(ntook) BY <1>2 DEF EndAt
<1>5. closes > 0 => closes' > 0 BY <1>1, <1>2 DEF TypeOK
<1>6. stream = "broken" => stream' = "broken" BY <1>2
<1>7. Ends' /\ \A i \in 1..Len(msgs') : msgs'[i].lo = EndAt(i - 1)' BY <1>2, EndsKept
<1>8. left' <= EndAt(ntook)' /\ Len(out') = EndAt(ntook)' - left' BY <1>1, <1>2, <1>4 DEF ReaderInv
<1>9. ReaderInv' BY <1>1, <1>2, <1>5, <1>6, <1>7, <1>8 DEF ReaderInv
<1>10. InOrder' BY <1>1, <1>2 DEF InOrder
<1> QED BY <1>3, <1>7, <1>9, <1>10 DEF IInv

\* A step of startReads.
LEMMA LoopStep ==
    ASSUME IInv, StartReads PROVE IInv'
<1>1. TypeOK /\ ReaderInv /\ InOrder /\ Ends BY DEF IInv
<1>2. UNCHANGED <<msgs, closes, stream, ntook, rd, room, nt, left, out, rerr, cr>>
  BY DEF StartReads, RecvMsg, PutMsg, RecvClose, RecvFail, CloseChan, sendVars, readVars
<1>3. EndAt(ntook)' = EndAt(ntook) BY <1>2 DEF EndAt
<1>4. Ends' /\ \A i \in 1..Len(msgs') : msgs'[i].lo = EndAt(i - 1)' BY <1>2, EndsKept
<1>5. left' <= EndAt(ntook)' /\ Len(out') = EndAt(ntook)' - left' BY <1>1, <1>2, <1>3 DEF ReaderInv
<1>6. InOrder' BY <1>1, <1>2 DEF InOrder
<1>7. nrecv \in Nat /\ nput \in Nat /\ ntook \in Nat /\ Len(msgs) \in Nat
  BY <1>1, MsgTypes DEF TypeOK
<1>8. CASE RecvMsg \/ PutMsg
  <2>1. /\ errChan' = errChan /\ loop \in {"recv", "put"} /\ loop' \in {"recv", "put"}
        /\ \/ /\ loop = "recv" /\ loop' = "put" /\ nrecv < Len(msgs) /\ nrecv' = nrecv + 1 /\ nput' = nput
           \/ loop = "put" /\ loop' = "recv" /\ nput' = nput + 1 /\ nrecv' = nrecv
    BY <1>8 DEF RecvMsg, PutMsg
  <2>2. TypeOK' BY <1>1, <1>2, <1>7, <2>1 DEF TypeOK
  <2>3. errChan = "none" /\ rerr \in {"none", "errClosedRead"} BY <1>1, <2>1 DEF ReaderInv
  <2>4. /\ ntook' <= nput' /\ nput' <= nrecv' /\ nrecv' <= Len(msgs')
        /\ nrecv' = (IF loop' = "put" THEN nput' + 1 ELSE nput')
    BY <1>1, <1>2, <1>7, <2>1 DEF ReaderInv
  <2>5. rd # "err" BY <1>1, <2>3 DEF ReaderInv
  <2>6. ReaderInv' BY <1>1, <1>2, <1>4, <1>5, <2>1, <2>3, <2>4, <2>5 DEF ReaderInv
  <2> QED BY <1>4, <1>6, <2>2, <2>6 DEF IInv
<1>9. CASE RecvClose \/ RecvFail
  <2>1. /\ loop = "recv" /\ loop' = "close" /\ UNCHANGED <<nrecv, nput>>
        /\ \/ errChan' = "eof" /\ nrecv = Len(msgs) /\ closes > 0
           \/ errChan' = "err" /\ stream = "broken"
    BY <1>9 DEF RecvClose, RecvFail
  <2>2. TypeOK' BY <1>1, <1>2, <2>1 DEF TypeOK
  <2>3. errChan = "none" /\ rerr \in {"none", "errClosedRead"} /\ nrecv = nput /\ rd # "err"
    BY <1>1, <2>1 DEF ReaderInv
  <2>4. ReaderInv' BY <1>1, <1>2, <1>4, <1>5, <2>1, <2>3 DEF ReaderInv
  <2> QED BY <1>4, <1>6, <2>2, <2>4 DEF IInv
<1>10. CASE CloseChan
  <2>1. loop = "close" /\ loop' = "done" /\ UNCHANGED <<nrecv, nput, errChan>> BY <1>10 DEF CloseChan
  <2>2. TypeOK' BY <1>1, <1>2, <2>1 DEF TypeOK
  <2>3. ReaderInv' BY <1>1, <1>2, <1>4, <1>5, <2>1 DEF ReaderInv
  <2> QED BY <1>4, <1>6, <2>2, <2>3 DEF IInv
<1> QED BY <1>8, <1>9, <1>10 DEF StartReads

\* What the steps of Read that take no message have in common.
LEMMA ReadKept ==
    ASSUME IInv, UNCHANGED <<msgs, closes, stream, nrecv, nput, loop, ntook, left, out, cr>>
    PROVE  /\ InOrder' /\ Ends' /\ \A i \in 1..Len(msgs') : msgs'[i].lo = EndAt(i - 1)'
           /\ left' <= EndAt(ntook)' /\ Len(out') = EndAt(ntook)' - left'
<1>1. EndAt(ntook)' = EndAt(ntook) BY DEF EndAt
<1>2. Ends' /\ \A i \in 1..Len(msgs') : msgs'[i].lo = EndAt(i - 1)' BY EndsKept
<1>3. left' <= EndAt(ntook)' /\ Len(out') = EndAt(ntook)' - left' BY <1>1 DEF IInv, ReaderInv
<1>4. InOrder' BY DEF IInv, InOrder
<1> QED BY <1>2, <1>3, <1>4

\* Read begins, is refused, or ends without a message.
LEMMA ReadRestStep ==
    ASSUME IInv,
           ReadRefused \/ (\E len \in BufSizes : ReadStart(len))
             \/ ReadDrained \/ ReadShort \/ ReadEnd \/ ReadErr
    PROVE  IInv'
<1>1. TypeOK /\ ReaderInv BY DEF IInv
<1>2. UNCHANGED <<msgs, closes, stream, nrecv, nput, loop, ntook, left, out, cr>>
  BY DEF ReadRefused, ReadStart, ReadDrained, ReadShort, ReadEnd, ReadErr, sendVars, loopVars
<1>3. /\ InOrder' /\ Ends' /\ \A i \in 1..Len(msgs') : msgs'[i].lo = EndAt(i - 1)'
      /\ left' <= EndAt(ntook)' /\ Len(out') = EndAt(ntook)' - left'
  BY <1>2, ReadKept
<1>4. CASE ReadRefused
  <2>1. /\ rd = "idle" /\ rerr = "none" /\ rerr' = "errClosedRead"
        /\ UNCHANGED <<errChan, rd, room, nt>>
    BY <1>4 DEF ReadRefused
  <2>2. TypeOK' BY <1>1, <1>2, <2>1 DEF TypeOK
  <2>3. ReaderInv' BY <1>1, <1>2, <1>3, <2>1 DEF ReaderInv
  <2> QED BY <1>3, <2>2, <2>3 DEF IInv
<1>5. CASE \E len \in BufSizes : ReadStart(len)
  <2>1. PICK len \in BufSizes : ReadStart(len) BY <1>5
  <2>2. /\ rerr = "none" /\ left = 0 /\ rd' = "wait" /\ room' = len /\ nt' = 0
        /\ UNCHANGED <<errChan, rerr>>
    BY <2>1 DEF ReadStart
  <2>3. len \in Nat /\ len > 0 BY StreamReaderAssumption
  <2>4. TypeOK' BY <1>1, <1>2, <2>2, <2>3 DEF TypeOK
  <2>5. ReaderInv' BY <1>1, <1>2, <1>3, <2>2, <2>3 DEF ReaderInv
  <2> QED BY <1>3, <2>4, <2>5 DEF IInv
<1>6. CASE ReadDrained \/ ReadShort
  <2>1. rd' = "idle" /\ room' = 0 /\ nt' = 0 /\ UNCHANGED <<errChan, rerr>>
    BY <1>6 DEF ReadDrained, ReadShort
  <2>2. TypeOK' BY <1>1, <1>2, <2>1 DEF TypeOK
  <2>3. ReaderInv' BY <1>1, <1>2, <1>3, <2>1 DEF ReaderInv
  <2> QED BY <1>3, <2>2, <2>3 DEF IInv
<1>7. CASE ReadEnd
  <2>1. /\ rd \in {"wait", "drain"} /\ ntook = nput /\ loop = "done" /\ rd' = "err"
        /\ UNCHANGED <<errChan, rerr, room, nt>>
    BY <1>7 DEF ReadEnd
  <2>2. TypeOK' BY <1>1, <1>2, <2>1 DEF TypeOK
  <2>3. rerr = "none" /\ errChan # "none" BY <1>1, <2>1 DEF ReaderInv
  <2>4. ReaderInv' BY <1>1, <1>2, <1>3, <2>1, <2>3 DEF ReaderInv
  <2> QED BY <1>3, <2>2, <2>4 DEF IInv
<1>8. CASE ReadErr
  <2>1. /\ rd = "err" /\ errChan # "none" /\ rerr' = errChan /\ errChan' = "none"
        /\ rd' = "idle" /\ room' = 0 /\ nt' = nt
    BY <1>8 DEF ReadErr
  <2>2. errChan \in {"eof", "err"} /\ TypeOK' BY <1>1, <1>2, <2>1 DEF TypeOK
  <2>3. ntook = nput /\ loop = "done" /\ left = 0 BY <1>1, <2>1 DEF ReaderInv
  <2>4. ReaderInv' BY <1>1, <1>2, <1>3, <2>1, <2>2, <2>3 DEF ReaderInv
  <2> QED BY <1>3, <2>2, <2>4 DEF IInv
<1> QED BY <1>4, <1>5, <1>6, <1>7, <1>8

\* The message that Read takes off msgChan begins where the last one ended.
LEMMA TakenMsg ==
    ASSUME IInv, Taking
    PROVE  /\ TookMsg.size \in Nat /\ TookMsg.lo = Len(out) /\ left = 0 /\ room > 0 /\ rerr = "none"
           /\ EndAt(ntook + 1) = Len(out) + TookMsg.size /\ EndAt(ntook + 1) <= Written
           /\ ntook + 1 \in 1..Len(msgs)
<1>1. TypeOK /\ ReaderInv /\ Ends BY DEF IInv
<1>2. rd # "idle" /\ ntook < nput BY DEF Taking
<1>3. left = 0 /\ room > 0 /\ rerr = "none" BY <1>1, <1>2 DEF ReaderInv
<1>4. ntook \in Nat /\ nput \in Nat /\ nrecv \in Nat /\ Len(msgs) \in Nat BY <1>1, MsgTypes DEF TypeOK
<1>5. ntook + 1 \in 1..Len(msgs) BY <1>1, <1>2, <1>4 DEF ReaderInv
<1>6. msgs[ntook + 1].lo \in Nat /\ msgs[ntook + 1].size \in Nat BY <1>1, <1>5, MsgTypes
<1>7. msgs[ntook + 1].lo = EndAt(ntook) 
  <2>1. msgs[ntook + 1].lo = EndAt((ntook + 1) - 1) BY <1>1, <1>5 DEF ReaderInv
  <2>2. (ntook + 1) - 1 = ntook BY <1>4
  <2> QED BY <2>1, <2>2
<1>8. EndAt(ntook) \in Nat BY <1>6, <1>7
<1>9. Len(out) = EndAt(ntook) BY <1>1, <1>3, <1>8 DEF ReaderInv
<1>10. EndAt(ntook + 1) = EndOf(msgs[ntook + 1]) BY <1>4 DEF EndAt
<1>11. EndOf(msgs[ntook + 1]) <= Written BY <1>1, <1>5 DEF Ends
<1> QED BY <1>3, <1>5, <1>6, <1>7, <1>9, <1>10, <1>11 DEF TookMsg, EndOf

\* What is handed over comes next in the stream, and has been written.
Hands(k) ==
    /\ out' = out \o Bytes(Len(out), k)
    /\ Len(out) + k <= Written
    /\ rerr = "none" /\ UNCHANGED <<msgs, closes, stream, rerr>>

\* Read hands over bytes of the last message.
LEMMA ReadLeftStep ==
    ASSUME IInv, NEW len \in BufSizes, ReadLeft(len)
    PROVE  IInv' /\ \E k \in Nat : Hands(k)
<1> DEFINE k == Lesser(len, left)
<1>1. TypeOK /\ ReaderInv /\ InOrder /\ Ends BY DEF IInv
<1>2. /\ rd = "idle" /\ rerr = "none" /\ out' = out \o Bytes(EndAt(ntook) - left, k) /\ left' = left - k
      /\ UNCHANGED <<msgs, closes, stream, nrecv, nput, loop, errChan, cr, ntook, rd, room, nt, rerr>>
  BY DEF ReadLeft, sendVars, loopVars
<1>3. left \in Nat /\ len \in Nat /\ out \in Seq(Nat) BY <1>1, StreamReaderAssumption DEF TypeOK
<1>4. k \in Nat /\ k <= left BY <1>3 DEF Lesser
<1> HIDE DEF k
<1>5. ntook \in Nat /\ nput \in Nat /\ nrecv \in Nat /\ Len(msgs) \in Nat BY <1>1, MsgTypes DEF TypeOK
<1>6. ntook \in 0..Len(msgs) BY <1>1, <1>5 DEF ReaderInv
<1>7. EndAt(ntook) \in Nat /\ Len(out) = EndAt(ntook) - left /\ left <= EndAt(ntook)
  BY <1>1, <1>6, EndTypes DEF ReaderInv
<1>8. out' = out \o Bytes(Len(out), k) BY <1>2, <1>7
<1>9. out' \in Seq(Nat) /\ Len(out') = Len(out) + k /\ InOrder' BY <1>1, <1>3, <1>4, <1>8, AppendBytes
<1>10. TypeOK' BY <1>1, <1>2, <1>3, <1>4, <1>9 DEF TypeOK
<1>11. Ends' /\ \A i \in 1..Len(msgs') : msgs'[i].lo = EndAt(i - 1)' BY <1>2, EndsKept
<1>12. EndAt(ntook)' = EndAt(ntook) BY <1>2 DEF EndAt
<1>13. left' <= EndAt(ntook)' /\ Len(out') = EndAt(ntook)' - left'
  BY <1>2, <1>3, <1>4, <1>7, <1>9, <1>12
<1>14. ReaderInv' BY <1>1, <1>2, <1>11, <1>13 DEF ReaderInv
<1>15. EndAt(ntook) <= Written
  <2>1. CASE ntook = 0 BY <1>1, <1>5, <2>1, EndTypes, MsgTypes DEF Written
  <2>2. CASE ntook \in 1..Len(msgs) BY <1>1, <1>5, <2>2 DEF Ends, EndAt
  <2> QED BY <1>5, <1>6, <2>1, <2>2
<1>16. Written \in Nat BY <1>1, <1>5, EndTypes DEF Written
<1>17. Hands(k) BY <1>2, <1>3, <1>4, <1>7, <1>8, <1>15, <1>16 DEF Hands
<1> QED BY <1>4, <1>9, <1>10, <1>11, <1>14, <1>17 DEF IInv

\* Read hands over a message, or as much of it as there is room for.
LEMMA TakeStep ==
    ASSUME IInv, ReadPart \/ ReadFill
    PROVE  IInv' /\ \E k \in Nat : Hands(k)
<1>1. TypeOK /\ ReaderInv /\ InOrder /\ Ends BY DEF IInv
<1>2. /\ Taking /\ ntook' = ntook + 1
      /\ UNCHANGED <<msgs, closes, stream, nrecv, nput, loop, errChan, cr, rerr>>
  BY DEF ReadPart, ReadFill, sendVars, loopVars
<1>3. /\ TookMsg.size \in Nat /\ TookMsg.lo = Len(out) /\ left = 0 /\ room > 0 /\ rerr = "none"
      /\ EndAt(ntook + 1) = Len(out) + TookMsg.size /\ EndAt(ntook + 1) <= Written
      /\ ntook + 1 \in 1..Len(msgs)
  BY <1>2, TakenMsg
<1>4. out \in Seq(Nat) /\ room \in Nat /\ nt \in Nat /\ ntook \in Nat /\ nput \in Nat BY <1>1 DEF TypeOK
<1>5. PICK k \in Nat :
        /\ out' = out \o Bytes(Len(out), k) /\ k <= TookMsg.size /\ left' = TookMsg.size - k
        /\ nt' \in Nat /\ room' \in Nat /\ (rd' = "idle" \/ (rd' = "drain" /\ room' > 0 /\ left' = 0))
  <2>1. CASE ReadPart
    <3>1. /\ TookMsg.size < room /\ out' = out \o Bytes(Len(out), TookMsg.size) /\ left' = 0
          /\ nt' = nt + TookMsg.size /\ room' = room - TookMsg.size /\ rd' = "drain"
      BY <1>3, <2>1 DEF ReadPart
    <3>2. TookMsg.size <= TookMsg.size /\ left' = TookMsg.size - TookMsg.size BY <1>3, <3>1
    <3>3. nt' \in Nat /\ room' \in Nat /\ room' > 0
      <4> DEFINE sz == TookMsg.size
      <4>1. sz \in Nat /\ sz < room /\ nt' = nt + sz /\ room' = room - sz BY <1>3, <3>1
      <4> HIDE DEF sz
      <4> QED BY <1>4, <4>1
    <3> QED BY <1>3, <3>1, <3>2, <3>3
  <2>2. CASE ReadFill
    <3>1. /\ TookMsg.size >= room /\ out' = out \o Bytes(Len(out), room)
          /\ left' = TookMsg.size - room /\ rd' = "idle" /\ room' = 0 /\ nt' = 0
      BY <1>3, <2>2 DEF ReadFill
    <3>2. room <= TookMsg.size BY <1>3, <1>4, <3>1
    <3> QED BY <1>4, <3>1, <3>2
  <2> QED BY <2>1, <2>2
<1>6. out' \in Seq(Nat) /\ Len(out') = Len(out) + k /\ InOrder' BY <1>1, <1>4, <1>5, AppendBytes
<1>7. Len(out) \in Nat /\ left' \in Nat BY <1>3, <1>4, <1>5
<1>8. TypeOK' BY <1>1, <1>2, <1>4, <1>5, <1>6, <1>7 DEF TypeOK
<1>9. Ends' /\ \A i \in 1..Len(msgs') : msgs'[i].lo = EndAt(i - 1)' BY <1>2, EndsKept
<1>10. EndAt(ntook)' = EndAt(ntook + 1) BY <1>2 DEF EndAt
<1> DEFINE sz == TookMsg.size
           o == Len(out)
<1>11. /\ sz \in Nat /\ o \in Nat /\ k <= sz /\ left' = sz - k /\ Len(out') = o + k
       /\ EndAt(ntook)' = o + sz /\ o + sz <= Written
  BY <1>3, <1>5, <1>6, <1>7, <1>10
<1> HIDE DEF sz, o
<1>12. left' <= EndAt(ntook)' /\ Len(out') = EndAt(ntook)' - left'
  BY <1>11
<1>13. ntook' <= nput' /\ ntook # nput BY <1>2, <1>4 DEF Taking
<1>14. rd \in {"wait", "drain"} BY <1>2 DEF Taking
<1>15. ReaderInv' BY <1>1, <1>2, <1>3, <1>5, <1>9, <1>12, <1>13, <1>14 DEF ReaderInv
<1>16. Written \in Nat BY <1>1, EndTypes, MsgTypes DEF Written
<1>17. o + k <= Written BY <1>16, <1>11
<1>18. Hands(k) BY <1>2, <1>3, <1>5, <1>17 DEF Hands, o
<1> QED BY <1>6, <1>8, <1>9, <1>15, <1>18 DEF IInv

\* Every step keeps the invariant.
LEMMA StepInv == IInv /\ [Next]_vars => IInv'
<1> SUFFICES ASSUME IInv, [Next]_vars PROVE IInv'
  OBVIOUS
<1>1. CASE \E n \in MsgSizes : Write(n) BY <1>1, WriteStep
<1>2. CASE CloseWrite \/ Break \/ CloseRead BY <1>2, CloseStep
<1>3. CASE StartReads BY <1>3, LoopStep
<1>4. CASE ReadPart \/ ReadFill BY <1>4, TakeStep
<1>5. CASE \E len \in BufSizes : ReadLeft(len) BY <1>5, ReadLeftStep
<1>6. CASE ReadRefused \/ (\E len \in BufSizes : ReadStart(len))
             \/ ReadDrained \/ ReadShort \/ ReadEnd \/ ReadErr
  BY <1>6, ReadRestStep
<1>7. CASE UNCHANGED vars
  <2>1. UNCHANGED <<msgs, closes, stream, nrecv, nput, loop, errChan, ntook, rd, room, nt, left, out, rerr, cr>>
    BY <1>7 DEF vars, sendVars, loopVars, readVars
  <2>2. TypeOK' BY <2>1 DEF IInv, TypeOK
  <2>3. /\ InOrder' /\ Ends' /\ \A i \in 1..Len(msgs') : msgs'[i].lo = EndAt(i - 1)'
        /\ left' <= EndAt(ntook)' /\ Len(out') = EndAt(ntook)' - left'
    BY <2>1, ReadKept
  <2>4. ReaderInv' BY <2>1, <2>3 DEF IInv, ReaderInv
  <2> QED BY <2>2, <2>3, <2>4 DEF IInv
<1> QED BY <1>1, <1>2, <1>3, <1>4, <1>5, <1>6, <1>7 DEF Next, Reading, ReadCall

\* ReaderInv, with the order of the bytes, is inductive.
THEOREM Invariance == Spec => []IInv
<1> QED BY InitInv, StepInv, PTL DEF Spec

\* Whatever the sizes of the messages and of Read's slices, and however full
\* msgChan is, Read returns the bytes in order, each once.
THEOREM BytesInOrder == Spec => []InOrder
<1>1. IInv => InOrder BY DEF IInv
<1> QED BY Invariance, <1>1, PTL

\* Read returns an error after all the bytes received, and io.EOF after all
\* the bytes written.
LEMMA ErrorLast == IInv => ErrorIsLast
<1> SUFFICES ASSUME IInv, rerr \in {"eof", "err"}
             PROVE  Len(out) = EndAt(nrecv) /\ (rerr = "eof" => Len(out) = Written)
  BY DEF ErrorIsLast
<1>1. TypeOK /\ ReaderInv BY DEF IInv
<1>2. ntook = nput /\ left = 0 /\ nrecv = nput /\ (rerr = "eof" => nput = Len(msgs))
  BY <1>1 DEF ReaderInv, TypeOK
<1>3. EndAt(ntook) \in Nat
  <2>1. ntook \in Nat /\ nrecv \in Nat /\ nrecv <= Len(msgs) /\ Len(msgs) \in Nat
    BY <1>1, MsgTypes DEF TypeOK, ReaderInv
  <2> QED BY <1>1, <1>2, <2>1, EndTypes
<1>4. Len(out) = EndAt(ntook) BY <1>1, <1>2, <1>3 DEF ReaderInv
<1> QED BY <1>2, <1>4 DEF Written

\* No error overtakes the data before it on msgChan or in lastRead.
THEOREM ErrorsComeLast == Spec => []ErrorIsLast
<1> QED BY Invariance, ErrorLast, PTL

\* The variables of ByteStream, as the refinement mapping gives them.
AWritten == [d \in {"in"} |-> Written]
ADelivered == [d \in {"in"} |-> out]
AEnded == {d \in {"in"} : closes > 0}
AEof == {d \in {"in"} : rerr = "eof"}
APipe == IF stream = "up" THEN "up" ELSE "lost"

\* A step of the far end puts bytes, finishes or breaks the stream.
LEMMA SendMaps ==
    ASSUME IInv, (\E n \in MsgSizes : Write(n)) \/ CloseWrite \/ Break
    PROVE  Stream!Next \/ UNCHANGED <<AWritten, ADelivered, AEnded, AEof, APipe>>
<1>1. CASE \E n \in MsgSizes : Write(n)
  <2>1. PICK n \in MsgSizes : Write(n) BY <1>1
  <2>2. /\ closes = 0 /\ msgs' = Append(msgs, MkMsg(Written, n)) /\ UNCHANGED <<closes, stream, out, rerr>>
    BY <2>1 DEF Write, readVars
  <2>3. n \in Nat /\ Written \in Nat /\ Len(msgs) \in Nat /\ msgs \in Seq(Msg)
    BY StreamReaderAssumption, MsgTypes, EndTypes DEF Written, IInv, TypeOK
  <2>4. MkMsg(Written, n) \in Msg /\ EndOf(MkMsg(Written, n)) = Written + n
    BY <2>3 DEF MkMsg, Msg, EndOf
  <2>5. Len(msgs') = Len(msgs) + 1 /\ msgs'[Len(msgs) + 1] = MkMsg(Written, n) BY <2>2, <2>3, <2>4
  <2>6. Written' = Written + n BY <2>3, <2>4, <2>5 DEF Written, EndAt
  <2>7. UNCHANGED <<ADelivered, AEnded, AEof, APipe>> BY <2>2 DEF ADelivered, AEnded, AEof, APipe
  <2>8. CASE n = 0
    <3>1. Written' = Written BY <2>3, <2>6, <2>8
    <3> QED BY <2>7, <3>1 DEF AWritten
  <2>9. CASE n > 0
    <3>1. AWritten'["in"] > AWritten["in"] BY <2>3, <2>6, <2>9 DEF AWritten
    <3>2. "in" \notin AEnded BY <2>2 DEF AEnded
    <3>3. Stream!Put("in")
      BY <2>7, <3>1, <3>2 DEF Stream!Put, AWritten, ADelivered, AEnded, AEof, APipe
    <3> QED BY <3>3 DEF Stream!Next
  <2> QED BY <2>3, <2>8, <2>9
<1>2. CASE CloseWrite
  <2>1. /\ closes' = closes + 1 /\ closes \in Nat /\ UNCHANGED <<msgs, stream, out, rerr>>
    BY <1>2 DEF CloseWrite, readVars, IInv, TypeOK
  <2>2. Written' = Written BY <2>1 DEF Written, EndAt
  <2>3. closes' > 0 BY <2>1
  <2>4. AEnded' = AEnded \cup {"in"} BY <2>3 DEF AEnded
  <2>5. UNCHANGED <<AWritten, ADelivered, AEof, APipe>> BY <2>1, <2>2 DEF AWritten, ADelivered, AEof, APipe
  <2>6. Stream!Finish("in")
    BY <2>4, <2>5 DEF Stream!Finish, AWritten, ADelivered, AEnded, AEof, APipe
  <2> QED BY <2>6 DEF Stream!Next
<1>3. CASE Break
  <2>1. stream' = "broken" /\ UNCHANGED <<msgs, closes, out, rerr>> BY <1>3 DEF Break, sendVars, readVars
  <2>2. Written' = Written BY <2>1 DEF Written, EndAt
  <2>3. APipe' = "lost" BY <2>1 DEF APipe
  <2>4. UNCHANGED <<AWritten, ADelivered, AEnded, AEof>> BY <2>1, <2>2 DEF AWritten, ADelivered, AEnded, AEof
  <2>5. Stream!Break BY <2>3, <2>4 DEF Stream!Break, AWritten, ADelivered, AEnded, AEof, APipe
  <2> QED BY <2>5 DEF Stream!Next
<1> QED BY <1>1, <1>2, <1>3

\* Bytes handed over are a Get, and none are nothing.
LEMMA HandsMaps ==
    ASSUME IInv, NEW k \in Nat, Hands(k)
    PROVE  Stream!Next \/ UNCHANGED <<AWritten, ADelivered, AEnded, AEof, APipe>>
<1>1. /\ out' = out \o Bytes(Len(out), k) /\ Len(out) + k <= Written
      /\ rerr = "none" /\ UNCHANGED <<msgs, closes, stream, rerr>>
  BY DEF Hands
<1>2. out \in Seq(Nat) /\ InOrder /\ Len(out) \in Nat /\ TypeOK BY DEF IInv, TypeOK
<1>3. /\ out' \in Seq(Nat) /\ Len(out') = Len(out) + k /\ InOrder'
      /\ \A i \in 1..Len(out) : out'[i] = out[i]
  BY <1>1, <1>2, AppendBytes
<1>4. Written' = Written BY <1>1 DEF Written, EndAt
<1>5. UNCHANGED <<AWritten, AEnded, AEof, APipe>> BY <1>1, <1>4 DEF AWritten, AEnded, AEof, APipe
<1>6. CASE k = 0
  <2>1. out' = out BY <1>2, <1>3, <1>6
  <2> QED BY <1>5, <2>1 DEF ADelivered
<1>7. CASE k > 0
  <2>1. Written \in Nat BY <1>2, EndTypes, MsgTypes DEF Written
  <2>2. Len(out') \in Len(out) + 1 .. Written BY <1>1, <1>2, <1>3, <1>7, <2>1
  <2>3. \A i \in Len(out) + 1 .. Len(out') : out'[i] = i
    <3>1. DOMAIN out' = 1..Len(out') /\ Len(out') \in Nat BY <1>3
    <3>2. \A i \in DOMAIN out' : out'[i] = i BY <1>3 DEF InOrder
    <3> QED BY <1>2, <3>1, <3>2
  <2>4. "in" \notin AEof BY <1>1 DEF AEof
  <2>5. ADelivered["in"] = out /\ ADelivered'["in"] = out' /\ AWritten["in"] = Written
    BY DEF ADelivered, AWritten
  <2>6. Stream!Get("in")
    BY <1>3, <1>5, <2>2, <2>3, <2>4, <2>5 DEF Stream!Get, AWritten, ADelivered, AEnded, AEof, APipe
  <2> QED BY <2>6 DEF Stream!Next
<1> QED BY <1>6, <1>7

\* The end of the stream is reported by TellEof; the rest is invisible.
LEMMA RestMaps ==
    ASSUME IInv, IInv', UNCHANGED <<msgs, closes, stream, out>>
    PROVE  Stream!Next \/ rerr = "eof" \/ UNCHANGED <<AWritten, ADelivered, AEnded, AEof, APipe>>
<1>1. Written' = Written BY DEF Written, EndAt
<1>2. UNCHANGED <<AWritten, ADelivered, AEnded, APipe>> BY <1>1 DEF AWritten, ADelivered, AEnded, APipe
<1>3. CASE rerr # "eof" /\ rerr' = "eof"
  <2>0. ErrorIsLast' BY ErrorLast, PTL
  <2>1. Len(out) = Written BY <1>1, <1>3, <2>0 DEF ErrorIsLast
  <2>2. closes > 0 BY <1>3 DEF IInv, ReaderInv
  <2>3. AEof' = AEof \cup {"in"} /\ "in" \in AEnded BY <1>3, <2>2 DEF AEof, AEnded
  <2>4. ADelivered["in"] = out /\ AWritten["in"] = Written BY DEF ADelivered, AWritten
  <2>5. Stream!TellEof("in")
    BY <1>2, <2>1, <2>3, <2>4 DEF Stream!TellEof, AWritten, ADelivered, AEnded, AEof, APipe
  <2> QED BY <2>5 DEF Stream!Next
<1>4. CASE rerr # "eof" /\ rerr' # "eof" BY <1>2, <1>4 DEF AEof
<1> QED BY <1>3, <1>4

\* Every step of the reader is a step of ByteStream, or changes nothing there.
LEMMA StepMaps ==
    ASSUME IInv, IInv', [Next]_vars
    PROVE  Stream!Next \/ UNCHANGED <<AWritten, ADelivered, AEnded, AEof, APipe>>
<1>1. CASE (\E n \in MsgSizes : Write(n)) \/ CloseWrite \/ Break BY <1>1, SendMaps
<1>2. CASE ReadPart \/ ReadFill \/ \E len \in BufSizes : ReadLeft(len)
  BY <1>2, TakeStep, ReadLeftStep, HandsMaps
<1>3. CASE ReadRefused \/ (\E len \in BufSizes : ReadStart(len)) \/ ReadDrained \/ ReadShort
             \/ ReadEnd \/ ReadErr
  <2>1. UNCHANGED <<msgs, closes, stream, out>>
    BY <1>3 DEF ReadRefused, ReadStart, ReadDrained, ReadShort, ReadEnd, ReadErr, sendVars
  <2>2. rerr # "eof"
    <3>1. ReaderInv BY DEF IInv
    <3> QED BY <1>3, <3>1 DEF ReadRefused, ReadStart, ReadDrained, ReadShort, ReadEnd, ReadErr, ReaderInv
  <2> QED BY <2>1, <2>2, RestMaps
<1>4. CASE StartReads \/ CloseRead \/ UNCHANGED vars
  <2>1. UNCHANGED <<msgs, closes, stream, out, rerr>>
    BY <1>4 DEF StartReads, RecvMsg, PutMsg, RecvClose, RecvFail, CloseChan, CloseRead, vars,
                sendVars, readVars
  <2>2. Written' = Written BY <2>1 DEF Written, EndAt
  <2> QED BY <2>1, <2>2 DEF AWritten, ADelivered, AEnded, AEof, APipe
<1> QED BY <1>1, <1>2, <1>3, <1>4 DEF Next, Reading, ReadCall

\* One direction of a stream.ReadWriteCloser implements ByteStream, for every
\* value of the constants: where messages begin and end, the channel between
\* the goroutine and Read, and lastRead are invisible to the caller.
THEOREM ReaderIsByteStream == Spec => StreamSpec
<1>1. Init => Stream!Init
  <2> SUFFICES ASSUME Init PROVE Stream!Init
    OBVIOUS
  <2>1. Written = 0 BY DEF Init, Written, EndAt
  <2> QED BY <2>1 DEF Init, Stream!Init
<1>2. ASSUME IInv, IInv', [Next]_vars PROVE [Stream!Next]_(Stream!vars)
  BY <1>2, StepMaps DEF Stream!vars, AWritten, ADelivered, AEnded, AEof, APipe
<1> QED BY <1>1, <1>2, Invariance, PTL DEF Spec, StreamSpec, Stream!Spec
=============================================================================
