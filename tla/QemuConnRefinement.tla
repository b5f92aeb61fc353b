------------------------ MODULE QemuConnRefinement --------------------------
(* Proof that a connection of QemuConn implements ByteStream, for every     *)
(* value of the constants.                                                  *)
EXTENDS QemuConnProofs

\* No cell stands for more of the stream than the last one.
Offs == \A e \in End : \A i \in 1..Len(sent[e]) : sent[e][i].off <= LastCell(e).off

\* How a step changes what has been sent: not at all, or by one cell that
\* stands for one more byte or for none.
Sends(e, c) ==
    /\ sent' = [sent EXCEPT ![e] = Append(@, c)]
    /\ c.off \in {LastCell(e).off, LastCell(e).off + 1}

\* Every step but the three that send leaves `sent` alone.
LEMMA Senders ==
    ASSUME IInv, [Next]_vars
    PROVE  sent' = sent \/ \E e \in End : \E c \in Cell : Sends(e, c)
<1>1. ASSUME NEW e \in End, NEW n \in WriteSizes, WriteStart(e, n)
      PROVE  \E c \in Cell : Sends(e, c)
  <2>1. n \in Nat /\ LastCell(e).off \in Nat
    BY CellTypes, CellFields, QemuConnAssumption DEF IInv
  <2>2. /\ SizeCell(n, LastCell(e).off) \in Cell
        /\ SizeCell(n, LastCell(e).off).off = LastCell(e).off
    BY <2>1, Cells
  <2> QED BY <1>1, <2>2 DEF WriteStart, Sends
<1>2. ASSUME NEW e \in End, WriteByte(e) PROVE \E c \in Cell : Sends(e, c)
  <2> DEFINE c == ByteCell(LastCell(e).rem - 1, LastCell(e).off + 1)
  <2>1. LastCell(e).rem > 0
    BY <1>2 DEF WriteByte, IInv, FramingInv, WriterOK
  <2>2. LastCell(e).rem - 1 \in Nat /\ LastCell(e).off + 1 \in Nat
    BY <2>1, CellTypes, CellFields DEF IInv
  <2>3. c \in Cell /\ c.off = LastCell(e).off + 1
    BY <2>2, Cells
  <2>4. sent' = [sent EXCEPT ![e] = Append(@, c)]
    BY <1>2 DEF WriteByte
  <2> QED BY <2>3, <2>4 DEF Sends
<1>3. ASSUME NEW e \in End, SendClose(e) PROVE \E c \in Cell : Sends(e, c)
  <2>1. 0 \in Nat /\ LastCell(e).off \in Nat
    BY CellTypes, CellFields DEF IInv
  <2>2. /\ SizeCell(0, LastCell(e).off) \in Cell
        /\ SizeCell(0, LastCell(e).off).off = LastCell(e).off
    BY <2>1, Cells
  <2> QED BY <1>3, <2>2 DEF SendClose, Sends
<1>4. ASSUME NEW e \in End, EndNext(e)
      PROVE  sent' = sent \/ \E c \in Cell : Sends(e, c)
  <2>1. CASE ReadStart(e)
    BY <2>1 DEF ReadStart, ReadClosed, ReadLeftovers, ReadMessage, writeVars
  <2>2. CASE Reading(e)
    BY <2>2 DEF Reading, ReadSize, ReadEof, ReadByte, ReadFail, writeVars
  <2>3. CASE Closing(e) \/ CloseRead(e) \/ CloseWrite(e) \/ Close(e) \/ WriteFail(e)
    BY <2>3 DEF Closing, CloseAfterWrite, CloseAfterRead, CloseConn, CloseRead,
                CloseWrite, Close, WriteFail, writeVars
  <2> QED BY <1>1, <1>2, <1>3, <1>4, <2>1, <2>2, <2>3 DEF EndNext, Writing
<1> QED BY <1>4 DEF Next, Break, vars, writeVars

\* Offs is inductive relative to IInv.
LEMMA OffsNext ==
    ASSUME IInv, Offs, [Next]_vars
    PROVE  Offs'
<1>1. CASE sent' = sent
  BY <1>1 DEF Offs, LastCell, CellAt
<1>2. ASSUME NEW e \in End, NEW c \in Cell, Sends(e, c) PROVE Offs'
  <2>1. /\ Len(sent'[e]) = Len(sent[e]) + 1 /\ sent'[e][Len(sent[e]) + 1] = c
        /\ \A i \in DOMAIN sent[e] : sent'[e][i] = sent[e][i]
        /\ sent'[Peer(e)] = sent[Peer(e)] /\ LastCell(e)' = c
    BY <1>2, AppendCell DEF IInv, Sends
  <2>2. Len(sent[e]) \in Nat /\ sent[e] \in Seq(Cell)
    BY DEF IInv, TypeOK
  <2>3. LastCell(e).off \in Nat /\ LastCell(e).off <= c.off /\ c.off \in Nat
    BY <1>2, CellTypes, CellFields DEF IInv, Sends
  <2>4. ASSUME NEW i \in 1..Len(sent'[e]) PROVE sent'[e][i].off <= LastCell(e)'.off
    <3>1. CASE i \in 1..Len(sent[e])
      <4>1. sent[e][i].off <= LastCell(e).off /\ sent'[e][i] = sent[e][i]
        BY <3>1, <2>1, <2>2 DEF Offs
      <4>2. sent[e][i] \in Cell
        BY <3>1, <2>2
      <4>3. sent[e][i].off \in Nat
        BY <4>2, CellFields
      <4> QED BY <4>1, <4>3, <2>1, <2>3
    <3>2. CASE i = Len(sent[e]) + 1
      BY <3>2, <2>1, <2>3
    <3> QED BY <3>1, <3>2, <2>1, <2>2
  <2>5. LastCell(Peer(e))' = LastCell(Peer(e))
    BY <2>1, LastCellKept
  <2>6. \A i \in 1..Len(sent'[Peer(e)]) : sent'[Peer(e)][i].off <= LastCell(Peer(e))'.off
    BY <2>1, <2>5, Peers DEF Offs
  <2> QED BY <2>4, <2>6, Peers DEF Offs
<1> QED BY <1>1, <1>2, Senders

\* Offs holds when a connection is made.
LEMMA OffsInit == Init => Offs
  BY DEF Init, Offs, LastCell, CellAt, SizeCell

\* The abstract variables, as the refinement mapping defines them.
Written == [d \in End |-> LastCell(Peer(d)).off]
Ended == {d \in End : Peer(d) \in closedWrites}
Eof == {d \in End : rerr[d] = "eof"}

\* A step that sends no payload byte leaves the abstract `written` alone.
LEMMA WrittenKept ==
    ASSUME IInv, NEW e \in End, NEW c \in Cell,
           sent' = [sent EXCEPT ![e] = Append(@, c)], c.off = LastCell(e).off
    PROVE  Written' = Written
<1>1. sent'[Peer(e)] = sent[Peer(e)] /\ LastCell(e)' = c
  BY AppendCell DEF IInv
<1>2. LastCell(Peer(e))' = LastCell(Peer(e))
  BY <1>1, LastCellKept
<1>3. \A d \in End : LastCell(d)'.off = LastCell(d).off
  BY <1>1, <1>2, Peers
<1> QED BY <1>3, Peers DEF Written

\* Nor does a step that sends nothing.
LEMMA WrittenSame == sent' = sent => Written' = Written
<1> SUFFICES ASSUME sent' = sent PROVE Written' = Written
  OBVIOUS
<1>1. \A d \in End : LastCell(Peer(d))' = LastCell(Peer(d))
  BY DEF LastCell, CellAt
<1> QED BY <1>1 DEF Written

\* The size of a message and the mark are invisible.
LEMMA WriteStartMaps ==
    ASSUME IInv, NEW e \in End, (\E n \in WriteSizes : WriteStart(e, n)) \/ SendClose(e)
    PROVE  UNCHANGED <<Written, got, Ended, Eof, pipe>>
<1>1. PICK n \in Nat : sent' = [sent EXCEPT ![e] = Append(@, SizeCell(n, LastCell(e).off))]
  BY QemuConnAssumption DEF WriteStart, SendClose
<1>2. LastCell(e).off \in Nat
  BY CellTypes, CellFields DEF IInv
<1>3. SizeCell(n, LastCell(e).off) \in Cell /\ SizeCell(n, LastCell(e).off).off = LastCell(e).off
  BY <1>2, Cells
<1>4. Written' = Written
  BY <1>1, <1>3, WrittenKept
<1>5. UNCHANGED <<got, rerr, closedWrites, pipe>>
  BY DEF WriteStart, SendClose, readVars
<1> QED BY <1>4, <1>5 DEF Ended, Eof

\* A payload byte put on the pipe is a Put.
LEMMA WriteByteMaps ==
    ASSUME IInv, NEW e \in End, WriteByte(e)
    PROVE  Stream!Put(Peer(e))
<1> DEFINE c == ByteCell(LastCell(e).rem - 1, LastCell(e).off + 1)
<1>1. /\ wr[e] = "body" /\ sent' = [sent EXCEPT ![e] = Append(@, c)]
      /\ UNCHANGED <<got, rerr, closedWrites, pipe>>
  BY DEF WriteByte, readVars
<1>2. LastCell(e).rem > 0 /\ e \notin closedWrites
  BY <1>1 DEF IInv, FramingInv, WriterOK
<1>3. LastCell(e).rem - 1 \in Nat /\ LastCell(e).off + 1 \in Nat
  BY <1>2, CellTypes, CellFields DEF IInv
<1>4. c \in Cell /\ c.off = LastCell(e).off + 1
  BY <1>3, Cells
<1> HIDE DEF c
<1>5. sent'[Peer(e)] = sent[Peer(e)] /\ LastCell(e)' = c
  BY <1>1, <1>4, AppendCell DEF IInv
<1>6. LastCell(Peer(e))' = LastCell(Peer(e))
  BY <1>5, LastCellKept
<1>7. Peer(e) \in End /\ Peer(Peer(e)) = e /\ Peer(e) # e /\ \A f \in End : f # e => f = Peer(e)
  BY Peers
<1>9. Peer(e) \notin Ended
  BY <1>2, <1>7 DEF Ended
<1>10. Ended' = Ended /\ Eof' = Eof
  BY <1>1 DEF Ended, Eof
<1>11. Written'[Peer(e)] > Written[Peer(e)] /\ \A d \in End \ {Peer(e)} : Written'[d] = Written[d]
  <2>1. LastCell(e).off \in Nat /\ LastCell(e).off + 1 > LastCell(e).off
    BY CellTypes, CellFields DEF IInv
  <2>2. Written[Peer(e)] = LastCell(e).off /\ Written'[Peer(e)] = LastCell(e).off + 1
    BY <1>4, <1>5, <1>7 DEF Written
  <2>3. Written'[e] = Written[e]
    BY <1>6 DEF Written
  <2> QED BY <2>1, <2>2, <2>3, <1>7
<1> QED BY <1>1, <1>9, <1>10, <1>11 DEF Stream!Put, Written, Ended, Eof

\* A byte copied to the caller is a Get.
LEMMA ReadByteMaps ==
    ASSUME IInv, IInv', Offs, NEW e \in End, ReadByte(e)
    PROVE  Stream!Get(e)
<1>1. /\ rd[e] = "full" /\ Avail(e)
      /\ got' = [got EXCEPT ![e] = Append(@, AsByte(NextCell(e)))]
      /\ UNCHANGED <<sent, rerr, closedWrites, pipe>>
  BY DEF ReadByte, writeVars
<1>2. /\ want[e] > 0 /\ want[e] + after[e] = LastTaken(e).rem
      /\ Len(got[e]) = LastTaken(e).off /\ rerr[e] = "none"
  BY <1>1 DEF IInv, FramingInv, ReaderOK
<1>3. want[e] \in Nat /\ after[e] \in Nat /\ LastTaken(e).rem \in Nat /\ LastTaken(e).off \in Nat
  BY TakenTypes DEF IInv, TypeOK
<1>4. NextCell(e) = ByteCell(LastTaken(e).rem - 1, LastTaken(e).off + 1)
  <2>1. LastTaken(e).rem # 0
    BY <1>2, <1>3
  <2>2. Follows(NextCell(e), LastTaken(e))
    BY <1>1, NextLinked DEF IInv
  <2> QED BY <2>1, <2>2 DEF Follows
<1>5. NextCell(e).tag = "byte" /\ NextCell(e).off = LastTaken(e).off + 1
  <2>1. LastTaken(e).rem - 1 \in Nat /\ LastTaken(e).off + 1 \in Nat
    BY <1>2, <1>3
  <2> QED BY <2>1, <1>4, Cells
<1>6. AsByte(NextCell(e)) = Len(got[e]) + 1
  BY <1>2, <1>5 DEF AsByte
<1>7. NextCell(e).off <= LastCell(Peer(e)).off
  <2>0. /\ Peer(e) \in End /\ sent[Peer(e)] \in Seq(Cell)
        /\ taken[e] + 1 \in DOMAIN sent[Peer(e)]
    BY <1>1, Peers, NextLinked DEF IInv, TypeOK
  <2>1. taken[e] + 1 \in 1..Len(sent[Peer(e)])
    BY <2>0
  <2> QED BY <2>0, <2>1 DEF Offs, NextCell
<1>8. Len(got[e]) < Written[e]
  <2>1. LastCell(Peer(e)).off \in Nat
    BY Peers, CellTypes, CellFields DEF IInv
  <2> QED BY <2>1, <1>2, <1>3, <1>5, <1>7 DEF Written
<1>9. Written' = Written /\ Ended' = Ended /\ Eof' = Eof
  BY <1>1, WrittenSame DEF Ended, Eof
<1>10. e \notin Eof
  BY <1>2 DEF Eof
<1>11. got'[e] = Append(got[e], Len(got[e]) + 1) /\ \A d \in End \ {e} : got'[d] = got[d]
  BY <1>1, <1>6 DEF IInv, TypeOK
<1>12. /\ Len(got'[e]) = Len(got[e]) + 1 /\ got'[e][Len(got[e]) + 1] = Len(got[e]) + 1
       /\ \A i \in 1..Len(got[e]) : got'[e][i] = got[e][i]
  <2>1. got[e] \in Seq(Nat)
    BY DEF IInv, TypeOK
  <2> QED BY <1>11, <2>1
<1>13. /\ Len(got'[e]) \in Len(got[e]) + 1 .. Written[e]
       /\ \A i \in Len(got[e]) + 1 .. Len(got'[e]) : got'[e][i] = i
  <2>0. Peer(e) \in End /\ LastCell(Peer(e)).off \in Nat /\ got[e] \in Seq(Nat)
    BY Peers, CellTypes, CellFields DEF IInv, TypeOK
  <2>1. Len(got[e]) \in Nat /\ Written[e] \in Nat
    BY <2>0 DEF Written
  <2> QED BY <2>1, <1>8, <1>12
<1> QED BY <1>1, <1>9, <1>10, <1>11, <1>12, <1>13 DEF Stream!Get, Written, Ended, Eof

\* The zero size, or a connection that ended, is reported as TellEof or, as
\* another error, is invisible.
LEMMA ReadEndMaps ==
    ASSUME IInv, IInv', NEW e \in End, ReadEof(e) \/ ReadFail(e)
    PROVE  Stream!TellEof(e) \/ UNCHANGED <<Written, got, Ended, Eof, pipe>>
<1>1. UNCHANGED <<sent, got, closedWrites, pipe>> /\ rd[e] # "idle"
  BY DEF ReadEof, ReadFail, writeVars
<1>2. Written' = Written /\ Ended' = Ended
  BY <1>1, WrittenSame DEF Ended
<1>3. rerr[e] = "none" /\ \A f \in End : f # e => rerr'[f] = rerr[f]
  <2>1. TypeOK /\ ReaderOK(e)
    BY DEF IInv, FramingInv
  <2>2. rerr[e] = "none"
    BY <1>1, <2>1 DEF ReaderOK
  <2>3. \E err : rerr' = [rerr EXCEPT ![e] = err]
    BY DEF ReadEof, ReadFail
  <2> QED BY <2>1, <2>2, <2>3 DEF TypeOK
<1>4. CASE rerr'[e] = "eof"
  <2>1. Eof' = Eof \cup {e}
    BY <1>3, <1>4 DEF Eof
  <2>2. pipe = "up" => Peer(e) \in closedWrites /\ taken'[e] = Len(sent[Peer(e)])
    BY <1>1, <1>4 DEF IInv, MarkInv, MarkOK
  <2>3. Len(got[e]) = LastTaken(e)'.off
    BY <1>1 DEF IInv, FramingInv, ReaderOK
  <2>4. pipe = "up" => LastTaken(e)' = LastCell(Peer(e))
    <3>1. LastTaken(e)' = CellAt(Peer(e), taken'[e])
      BY <1>1 DEF LastTaken, CellAt
    <3> QED BY <3>1, <2>2 DEF LastCell
  <2>5. pipe = "up" => e \in Ended /\ Len(got[e]) = Written[e]
    BY <2>2, <2>3, <2>4 DEF Ended, Written
  <2>6. pipe \in {"up", "lost"}
    BY DEF IInv, TypeOK
  <2> QED BY <1>1, <1>2, <2>1, <2>5, <2>6 DEF Stream!TellEof, Written, Ended, Eof
<1>5. CASE rerr'[e] # "eof"
  <2>1. Eof' = Eof
    BY <1>3, <1>5 DEF Eof
  <2> QED BY <1>1, <1>2, <2>1
<1> QED BY <1>4, <1>5

\* CloseWrite is Finish.
LEMMA CloseWriteMaps ==
    ASSUME IInv, NEW e \in End, CloseWrite(e)
    PROVE  Stream!Finish(Peer(e))
<1>1. closedWrites' = closedWrites \cup {e} /\ UNCHANGED <<sent, got, rerr, pipe>>
  BY DEF CloseWrite, readVars
<1>2. Written' = Written /\ Eof' = Eof
  BY <1>1, WrittenSame DEF Eof
<1>3. Ended' = Ended \cup {Peer(e)}
  BY <1>1, Peers DEF Ended
<1> QED BY <1>1, <1>2, <1>3 DEF Stream!Finish, Written, Ended, Eof

\* The other steps are invisible.
LEMMA InvisibleSteps ==
    ASSUME IInv,
           NEW e \in End,
           ReadStart(e) \/ ReadSize(e) \/ WriteFail(e) \/ Closing(e) \/ CloseRead(e) \/ Close(e)
    PROVE  UNCHANGED <<Written, got, Ended, Eof, pipe>>
<1>1. CASE ReadClosed(e)
  <2>1. UNCHANGED <<sent, got, closedWrites, pipe>> /\ rerr[e] = "none" /\ rerr'[e] = "errClosed"
        /\ \A f \in End : f # e => rerr'[f] = rerr[f]
    BY <1>1 DEF ReadClosed, writeVars, IInv, TypeOK
  <2> QED BY <2>1, WrittenSame DEF Ended, Eof
<1>2. CASE ~ReadClosed(e)
  <2>1. UNCHANGED <<sent, got, closedWrites, rerr, pipe>>
    BY <1>2 DEF ReadStart, ReadLeftovers, ReadMessage, ReadSize, WriteFail, Closing,
        CloseAfterWrite, CloseAfterRead, CloseConn, CloseRead, Close, readVars, writeVars
  <2> QED BY <2>1, WrittenSame DEF Ended, Eof
<1> QED BY <1>1, <1>2

\* Every step is a step of ByteStream or changes nothing there.
LEMMA StepMaps ==
    ASSUME IInv, IInv', Offs, [Next]_vars
    PROVE  Stream!Next \/ UNCHANGED <<Written, got, Ended, Eof, pipe>>
<1>1. CASE Break
  <2>1. pipe' = "lost" /\ UNCHANGED <<sent, got, closedWrites, rerr>>
    BY <1>1 DEF Break, readVars, writeVars
  <2>2. UNCHANGED <<Written, Ended, Eof>>
    BY <2>1, WrittenSame DEF Ended, Eof
  <2> QED BY <2>1, <2>2 DEF Stream!Next, Stream!Break, Written, Ended, Eof
<1>2. ASSUME NEW e \in End, EndNext(e)
      PROVE  Stream!Next \/ UNCHANGED <<Written, got, Ended, Eof, pipe>>
  <2>1. CASE ReadByte(e)
    BY <2>1, ReadByteMaps DEF Stream!Next
  <2>2. CASE ReadEof(e) \/ ReadFail(e)
    BY <2>2, ReadEndMaps DEF Stream!Next
  <2>3. CASE WriteByte(e)
    BY <2>3, WriteByteMaps, Peers DEF Stream!Next
  <2>4. CASE (\E n \in WriteSizes : WriteStart(e, n)) \/ SendClose(e)
    BY <2>4, WriteStartMaps
  <2>5. CASE CloseWrite(e)
    BY <2>5, CloseWriteMaps, Peers DEF Stream!Next
  <2>6. CASE ReadStart(e) \/ ReadSize(e) \/ WriteFail(e) \/ Closing(e) \/ CloseRead(e) \/ Close(e)
    BY <2>6, InvisibleSteps
  <2> QED BY <1>2, <2>1, <2>2, <2>3, <2>4, <2>5, <2>6 DEF EndNext, Reading, Writing
<1>3. CASE UNCHANGED vars
  <2>1. UNCHANGED <<sent, got, closedWrites, rerr, pipe>>
    BY <1>3 DEF vars, readVars, writeVars
  <2> QED BY <2>1, WrittenSame DEF Ended, Eof
<1> QED BY <1>1, <1>2, <1>3 DEF Next

\* Conn implements ByteStream for every value of the constants: framing, the
\* leftovers kept between Reads and half closing are invisible to the users of
\* the two ends.
THEOREM ConnIsByteStream == Spec => StreamSpec
<1>1. Init => Stream!Init
  <2> SUFFICES ASSUME Init PROVE Stream!Init
    OBVIOUS
  <2>1. \A d \in End : LastCell(Peer(d)).off = 0
    BY Peers DEF Init, LastCell, CellAt, SizeCell
  <2> QED BY <2>1 DEF Init, Stream!Init
<1>2. ASSUME IInv, IInv', Offs, [Next]_vars PROVE [Stream!Next]_(Stream!vars)
  BY <1>2, StepMaps DEF Stream!vars, Written, Ended, Eof
<1> QED BY <1>1, <1>2, OffsInit, OffsNext, Invariance, PTL DEF Spec, StreamSpec, Stream!Spec
=============================================================================
