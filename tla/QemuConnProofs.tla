--------------------------- MODULE QemuConnProofs ---------------------------
(* Proofs about QemuConn, for every set of write and buffer sizes, every    *)
(* bound on the bytes written and every capacity of the pipe.               *)
EXTENDS QemuConn, TLAPS

\* The inductive invariant: InOrder and EofMeansEnd need to know where in the
\* stream of messages the writer and the reader stand.
IInv == TypeOK /\ InOrder /\ FramingInv /\ MarkInv

\* An end has one peer, which is the other end.
LEMMA Peers ==
    ASSUME NEW e \in End
    PROVE  /\ Peer(e) \in End /\ Peer(Peer(e)) = e /\ Peer(e) # e
           /\ \A f \in End : f # e => f = Peer(e)
  BY DEF Peer, End

\* The fields of the two kinds of cell.
LEMMA Cells ==
    ASSUME NEW n \in Nat, NEW o \in Nat
    PROVE  /\ SizeCell(n, o) \in Cell /\ ByteCell(n, o) \in Cell
           /\ SizeCell(n, o).tag = "size" /\ SizeCell(n, o).rem = n /\ SizeCell(n, o).off = o
           /\ ByteCell(n, o).tag = "byte" /\ ByteCell(n, o).rem = n /\ ByteCell(n, o).off = o
  BY DEF SizeCell, ByteCell, Cell

\* The fields of a cell have their types.
LEMMA CellFields ==
    ASSUME NEW c \in Cell
    PROVE  c.tag \in {"size", "byte"} /\ c.rem \in Nat /\ c.off \in Nat
  BY DEF Cell

\* The cells a reader or a writer looks at.
LEMMA CellTypes ==
    ASSUME TypeOK, NEW e \in End
    PROVE  /\ Len(sent[e]) \in Nat
           /\ \A i \in 0..Len(sent[e]) : CellAt(e, i) \in Cell
           /\ LastCell(e) \in Cell
<1>1. sent[e] \in Seq(Cell) /\ Len(sent[e]) \in Nat
  BY DEF TypeOK
<1>2. SizeCell(0, 0) \in Cell
  BY Cells
<1>3. \A i \in 0..Len(sent[e]) : CellAt(e, i) \in Cell
  BY <1>1, <1>2 DEF CellAt
<1>4. Len(sent[e]) \in 0..Len(sent[e])
  BY <1>1
<1> QED BY <1>1, <1>3, <1>4 DEF LastCell

\* Appending a cell leaves the earlier ones and the other direction alone.
LEMMA AppendCell ==
    ASSUME TypeOK, NEW e \in End, NEW c \in Cell,
           sent' = [sent EXCEPT ![e] = Append(@, c)]
    PROVE  /\ sent' \in [End -> Seq(Cell)]
           /\ Len(sent'[e]) = Len(sent[e]) + 1
           /\ LastCell(e)' = c
           /\ \A i \in 0..Len(sent[e]) : CellAt(e, i)' = CellAt(e, i)
           /\ sent'[Peer(e)] = sent[Peer(e)]
           /\ \A i \in DOMAIN sent[e] : sent'[e][i] = sent[e][i]
           /\ DOMAIN sent'[e] = DOMAIN sent[e] \cup {Len(sent[e]) + 1}
           /\ sent'[e][Len(sent[e]) + 1] = c
<1>1. sent[e] \in Seq(Cell) /\ Len(sent[e]) \in Nat
  BY DEF TypeOK
<1>2. sent'[e] = Append(sent[e], c) /\ sent' \in [End -> Seq(Cell)]
  BY <1>1 DEF TypeOK
<1>3. sent'[Peer(e)] = sent[Peer(e)]
  BY Peers DEF TypeOK
<1>4. /\ Len(sent'[e]) = Len(sent[e]) + 1
      /\ \A i \in DOMAIN sent[e] : sent'[e][i] = sent[e][i]
      /\ sent'[e][Len(sent[e]) + 1] = c
      /\ DOMAIN sent'[e] = DOMAIN sent[e] \cup {Len(sent[e]) + 1}
  BY <1>1, <1>2
<1>5. \A i \in 0..Len(sent[e]) : CellAt(e, i)' = CellAt(e, i)
  BY <1>1, <1>4 DEF CellAt
<1>6. LastCell(e)' = c
  BY <1>1, <1>4 DEF LastCell, CellAt
<1> QED BY <1>2, <1>3, <1>4, <1>5, <1>6

\* What a reader finds next continues the message it is in.
LEMMA NextLinked ==
    ASSUME TypeOK, FramingInv, NEW e \in End, Avail(e)
    PROVE  /\ LastTaken(e) \in Cell /\ NextCell(e) \in Cell
           /\ NextCell(e) = CellAt(Peer(e), taken[e] + 1)
           /\ taken[e] + 1 \in DOMAIN sent[Peer(e)]
           /\ Follows(NextCell(e), LastTaken(e))
<1>1. Peer(e) \in End /\ taken[e] \in Nat /\ sent[Peer(e)] \in Seq(Cell)
  BY Peers DEF TypeOK
<1>2. Len(sent[Peer(e)]) \in Nat
  BY <1>1
<1>3. taken[e] \in 0..Len(sent[Peer(e)]) /\ taken[e] + 1 \in 1..Len(sent[Peer(e)])
  BY <1>1, <1>2 DEF Avail
<1>4. taken[e] + 1 \in DOMAIN sent[Peer(e)]
  BY <1>1, <1>3
<1>5. NextCell(e) = CellAt(Peer(e), taken[e] + 1) /\ NextCell(e) \in Cell
  BY <1>1, <1>3, <1>4 DEF NextCell, CellAt
<1>6. Linked(Peer(e)) /\ taken[e] + 1 - 1 = taken[e]
  BY <1>1 DEF FramingInv
<1>7. LastTaken(e) \in Cell
  BY <1>1, <1>3, CellTypes DEF LastTaken
<1>8. Follows(sent[Peer(e)][taken[e] + 1], CellAt(Peer(e), taken[e] + 1 - 1))
  BY <1>1, <1>3, <1>6 DEF Linked
<1> QED
  BY <1>4, <1>5, <1>6, <1>7, <1>8 DEF NextCell, LastTaken

\* The last cell a reader took is a cell.
LEMMA TakenTypes ==
    ASSUME IInv, NEW e \in End
    PROVE  /\ LastTaken(e) \in Cell
           /\ LastTaken(e).rem \in Nat /\ LastTaken(e).off \in Nat
<1>1. taken[e] \in 0..Len(sent[Peer(e)]) /\ Peer(e) \in End
  BY Peers DEF IInv, TypeOK, FramingInv, ReaderOK
<1>2. LastTaken(e) \in Cell
  BY <1>1, CellTypes DEF IInv, LastTaken
<1> QED BY <1>2, CellFields

\* The invariant holds when a connection is made.
LEMMA IInvInit == Init => IInv
<1> SUFFICES ASSUME Init PROVE IInv
  OBVIOUS
<1>1. TypeOK
  BY DEF Init, TypeOK
<1>2. \A e \in End : DOMAIN sent[e] = {} /\ DOMAIN got[e] = {} /\ Len(sent[e]) = 0 /\ Len(got[e]) = 0
  BY DEF Init
<1>3. \A e \in End : CellAt(e, 0).rem = 0 /\ CellAt(e, 0).off = 0
  BY Cells DEF CellAt
<1>4. InOrder
  BY <1>2 DEF InOrder
<1>5. FramingInv
  BY <1>2, <1>3, Peers DEF Init, FramingInv, Linked, WriterOK, ReaderOK, LastCell, LastTaken
<1>6. MarkInv
  BY <1>2 DEF Init, MarkInv, MarkOK
<1> QED BY <1>1, <1>4, <1>5, <1>6 DEF IInv

\* What an action that leaves the writing sides alone keeps.
LEMMA WritersKept ==
    ASSUME IInv, UNCHANGED <<sent, wr, werr, closedWrites, down, pipe>>
    PROVE  \A f \in End : Linked(f)' /\ WriterOK(f)'
  BY DEF IInv, FramingInv, Linked, WriterOK, CellAt, LastCell

\* What an action that leaves f's reading side alone keeps.
LEMMA ReaderKept ==
    ASSUME NEW f \in End, ReaderOK(f), UNCHANGED closedReads,
           taken'[f] = taken[f], LastTaken(f)' = LastTaken(f), sent' = sent,
           got'[f] = got[f], left'[f] = left[f], rd'[f] = rd[f],
           want'[f] = want[f], after'[f] = after[f], rerr'[f] = rerr[f]
    PROVE  ReaderOK(f)'
  BY DEF ReaderOK

\* What an action that leaves f's writing side alone keeps.
LEMMA WriterKept ==
    ASSUME NEW f \in End, WriterOK(f), wr'[f] = wr[f], LastCell(f)' = LastCell(f),
           UNCHANGED <<werr, closedWrites, down, pipe>>
    PROVE  WriterOK(f)'
  BY DEF WriterOK

\* The marks do not depend on the Read in progress.
LEMMA MarksKept ==
    ASSUME MarkInv, UNCHANGED <<taken, rerr, sent, wr, werr, closedReads, closedWrites, cl, down, pipe>>
    PROVE  MarkInv'
<1> SUFFICES ASSUME NEW f \in End PROVE MarkOK(f)'
  BY DEF MarkInv
<1>1. MarkOK(f) /\ LastCell(f)' = LastCell(f)
  BY DEF MarkInv, LastCell, CellAt
<1> QED BY <1>1 DEF MarkOK

\* ReadClosed keeps the invariant.
LEMMA ReadClosedInv ==
    ASSUME IInv, NEW e \in End, ReadClosed(e)
    PROVE  IInv'
<1> USE DEF ReadClosed, writeVars
<1>1. TypeOK'
  BY DEF IInv, TypeOK
<1>2. InOrder'
  BY DEF IInv, InOrder
<1>3. FramingInv'
  <2>1. ASSUME NEW f \in End PROVE ReaderOK(f)'
    BY DEF IInv, TypeOK, FramingInv, ReaderOK, CellAt, LastTaken
  <2> QED BY <2>1, WritersKept DEF FramingInv
<1>4. MarkInv'
  BY DEF IInv, TypeOK, MarkInv, MarkOK, CellAt, LastCell
<1> QED BY <1>1, <1>2, <1>3, <1>4 DEF IInv

\* ReadLeftovers keeps the invariant.
LEMMA ReadLeftoversInv ==
    ASSUME IInv, NEW e \in End, NEW len \in BufSizes, ReadLeftovers(e, len)
    PROVE  IInv'
<1> USE DEF ReadLeftovers, writeVars
<1> DEFINE toRead == Lesser(left[e], len)
<1>0. len \in Nat \ {0} /\ left[e] \in Nat
  BY QemuConnAssumption DEF IInv, TypeOK
<1>1. toRead \in Nat \ {0} /\ left[e] - toRead \in Nat
  BY <1>0 DEF Lesser
<1> HIDE DEF toRead
<1>2. want' = [want EXCEPT ![e] = toRead] /\ after' = [after EXCEPT ![e] = left[e] - toRead]
  BY DEF toRead
<1>3. TypeOK'
  <2>1. TypeOK
    BY DEF IInv
  <2>2. want' \in [End -> Nat] /\ after' \in [End -> Nat]
    BY <1>1, <1>2, <2>1 DEF TypeOK
  <2>3. rd' \in [End -> {"idle", "size", "full"}]
    BY <2>1 DEF TypeOK
  <2> QED BY <2>1, <2>2, <2>3 DEF TypeOK
<1>4. InOrder'
  BY DEF IInv, InOrder
<1>5. FramingInv'
  <2>1. ASSUME NEW f \in End PROVE ReaderOK(f)'
    <3>1. CASE f = e
      <4>1. LastTaken(e)' = LastTaken(e) /\ left[e] = LastTaken(e).rem
        BY DEF IInv, FramingInv, ReaderOK, LastTaken, CellAt
      <4>2. rd'[e] = "full" /\ want'[e] = toRead /\ after'[e] = left[e] - toRead
        BY <1>2 DEF IInv, TypeOK
      <4>3. want'[e] > 0 /\ want'[e] + after'[e] = left[e]
        BY <1>0, <1>1, <4>2
      <4> QED BY <3>1, <4>1, <4>2, <4>3 DEF IInv, FramingInv, ReaderOK
    <3>2. CASE f # e
      <4>1. TypeOK /\ ReaderOK(f)
        BY DEF IInv, FramingInv
      <4>2. LastTaken(f)' = LastTaken(f)
        BY DEF CellAt, LastTaken
      <4>3. rd'[f] = rd[f] /\ want'[f] = want[f] /\ after'[f] = after[f]
        BY <3>2, <4>1, <1>2 DEF TypeOK
      <4> QED BY <4>1, <4>2, <4>3, ReaderKept
    <3> QED BY <3>1, <3>2
  <2> QED BY <2>1, WritersKept DEF FramingInv
<1>6. MarkInv'
  BY MarksKept DEF IInv
<1> QED BY <1>3, <1>4, <1>5, <1>6 DEF IInv

\* ReadMessage keeps the invariant.
LEMMA ReadMessageInv ==
    ASSUME IInv, NEW e \in End, NEW len \in BufSizes, ReadMessage(e, len)
    PROVE  IInv'
<1> USE DEF ReadMessage, writeVars
<1>0. len \in Nat \ {0}
  BY QemuConnAssumption
<1>1. TypeOK'
  BY <1>0 DEF IInv, TypeOK
<1>2. InOrder'
  BY DEF IInv, InOrder
<1>3. FramingInv'
  <2>1. ASSUME NEW f \in End PROVE ReaderOK(f)'
    <3>1. LastTaken(f)' = LastTaken(f)
      BY DEF LastTaken, CellAt
    <3> QED BY <1>0, <3>1 DEF IInv, TypeOK, FramingInv, ReaderOK
  <2> QED BY <2>1, WritersKept DEF FramingInv
<1>4. MarkInv'
  BY MarksKept DEF IInv
<1> QED BY <1>1, <1>2, <1>3, <1>4 DEF IInv

\* Taking the next cell off the pipe.
LEMMA TakeNext ==
    ASSUME IInv, NEW e \in End, Avail(e), UNCHANGED sent,
           taken' = [taken EXCEPT ![e] = @ + 1]
    PROVE  /\ taken' \in [End -> Nat]
           /\ taken'[e] = taken[e] + 1 /\ taken'[e] <= Len(sent[Peer(e)])
           /\ LastTaken(e)' = NextCell(e)
           /\ \A f \in End : f # e => taken'[f] = taken[f] /\ LastTaken(f)' = LastTaken(f)
<1>1. taken' \in [End -> Nat] /\ taken'[e] = taken[e] + 1
  BY DEF IInv, TypeOK
<1>2. taken[e] \in Nat /\ Len(sent[Peer(e)]) \in Nat
  BY Peers, CellTypes DEF IInv, TypeOK
<1>3. LastTaken(e)' = NextCell(e)
  BY <1>1, <1>2 DEF LastTaken, CellAt, NextCell
<1>4. ASSUME NEW f \in End, f # e PROVE taken'[f] = taken[f] /\ LastTaken(f)' = LastTaken(f)
  BY <1>4 DEF IInv, TypeOK, LastTaken, CellAt
<1> QED BY <1>1, <1>2, <1>3, <1>4 DEF Avail

\* ReadSize keeps the invariant.
LEMMA ReadSizeInv ==
    ASSUME IInv, NEW e \in End, ReadSize(e)
    PROVE  IInv'
<1> USE DEF ReadSize, writeVars
<1>1. PICK recd \in AsSize(NextCell(e)) \ {0} :
         /\ want' = [want EXCEPT ![e] = Lesser(recd, @)]
         /\ after' = [after EXCEPT ![e] = recd - Lesser(recd, want[e])]
  OBVIOUS
<1>2. /\ NextCell(e) \in Cell /\ NextCell(e).tag = "size" /\ want[e] \in Nat \ {0}
      /\ NextCell(e).off = LastTaken(e).off
  <2>1. TypeOK /\ FramingInv /\ ReaderOK(e)
    BY DEF IInv, FramingInv
  <2>2. LastTaken(e).rem = 0 /\ want[e] \in Nat \ {0}
    BY <2>1 DEF TypeOK, ReaderOK
  <2>3. NextCell(e) \in Cell /\ Follows(NextCell(e), LastTaken(e))
    BY <2>1, NextLinked
  <2> QED BY <2>2, <2>3 DEF Follows
<1>3. recd = NextCell(e).rem /\ recd \in Nat \ {0}
  BY <1>1, <1>2, CellFields DEF AsSize
<1> DEFINE toRead == Lesser(recd, want[e])
<1>4. toRead \in Nat \ {0} /\ recd - toRead \in Nat /\ toRead + (recd - toRead) = recd
  BY <1>2, <1>3 DEF Lesser
<1> HIDE DEF toRead
<1>5. want' = [want EXCEPT ![e] = toRead] /\ after' = [after EXCEPT ![e] = recd - toRead]
  BY <1>1 DEF toRead
<1>6. TypeOK'
  BY <1>4, <1>5, TakeNext DEF IInv, TypeOK
<1>7. InOrder'
  BY DEF IInv, InOrder
<1>8. FramingInv'
  <2>1. ReaderOK(e)'
    <3>1. rd'[e] = "full" /\ want'[e] = toRead /\ after'[e] = recd - toRead
      BY <1>5 DEF IInv, TypeOK
    <3>2. rerr[e] = "none" /\ e \notin closedReads /\ Len(got[e]) = LastTaken(e).off
      BY DEF IInv, FramingInv, ReaderOK
    <3>3. LastTaken(e)' = NextCell(e) /\ taken'[e] <= Len(sent[Peer(e)])
      BY TakeNext
    <3> QED BY <3>1, <3>2, <3>3, <1>2, <1>3, <1>4 DEF ReaderOK
  <2>2. ASSUME NEW f \in End, f # e PROVE ReaderOK(f)'
    <3>1. taken'[f] = taken[f] /\ LastTaken(f)' = LastTaken(f)
      BY <2>2, TakeNext
    <3>2. rd'[f] = rd[f] /\ want'[f] = want[f] /\ after'[f] = after[f]
      BY <2>2, <1>5 DEF IInv, TypeOK
    <3> QED BY <3>1, <3>2, ReaderKept DEF IInv, FramingInv
  <2> QED BY <2>1, <2>2, WritersKept DEF FramingInv
<1>9. MarkInv'
  <2>1. ASSUME NEW f \in End PROVE MarkOK(f)'
    <3>1. rerr[e] = "none" /\ (f # e => taken'[f] = taken[f])
      BY TakeNext DEF IInv, FramingInv, ReaderOK
    <3>2. LastCell(f)' = LastCell(f)
      BY DEF LastCell, CellAt
    <3> QED BY <3>1, <3>2 DEF IInv, MarkInv, MarkOK
  <2> QED BY <2>1 DEF MarkInv
<1> QED BY <1>6, <1>7, <1>8, <1>9 DEF IInv

\* ReadEof keeps the invariant.
LEMMA ReadEofInv ==
    ASSUME IInv, NEW e \in End, ReadEof(e)
    PROVE  IInv'
<1> USE DEF ReadEof, writeVars
<1>1. /\ NextCell(e) \in Cell /\ NextCell(e).tag = "size" /\ NextCell(e).rem = 0
      /\ NextCell(e).off = LastTaken(e).off
      /\ taken[e] + 1 \in 1..Len(sent[Peer(e)])
  <2>1. LastTaken(e).rem = 0
    BY DEF IInv, FramingInv, ReaderOK
  <2>2. NextCell(e) \in Cell /\ NextCell(e).tag = "size" /\ NextCell(e).off = LastTaken(e).off
    BY <2>1, NextLinked DEF IInv, Follows
  <2>3. taken[e] + 1 \in DOMAIN sent[Peer(e)] /\ sent[Peer(e)] \in Seq(Cell)
    BY NextLinked, Peers DEF IInv, TypeOK
  <2> QED BY <2>2, <2>3 DEF AsSize
<1>2. TypeOK'
  BY TakeNext DEF IInv, TypeOK
<1>3. InOrder'
  BY DEF IInv, InOrder
<1>4. FramingInv'
  <2>1. ReaderOK(e)'
    <3>1. rd'[e] = "idle" /\ rerr'[e] = "eof"
      BY DEF IInv, TypeOK
    <3>2. Len(got[e]) = LastTaken(e).off
      BY DEF IInv, FramingInv, ReaderOK
    <3>3. LastTaken(e)' = NextCell(e) /\ taken'[e] <= Len(sent[Peer(e)])
      BY TakeNext
    <3> QED BY <3>1, <3>2, <3>3, <1>1 DEF ReaderOK
  <2>2. ASSUME NEW f \in End, f # e PROVE ReaderOK(f)'
    <3>1. taken'[f] = taken[f] /\ LastTaken(f)' = LastTaken(f)
      BY <2>2, TakeNext
    <3>2. rd'[f] = rd[f] /\ want'[f] = want[f] /\ rerr'[f] = rerr[f]
      BY <2>2 DEF IInv, TypeOK
    <3> QED BY <3>1, <3>2, ReaderKept DEF IInv, FramingInv
  <2> QED BY <2>1, <2>2, WritersKept DEF FramingInv
<1>5. MarkInv'
  <2>1. /\ taken[e] + 1 = Len(sent[Peer(e)])
        /\ Peer(e) \in closedWrites /\ wr[Peer(e)] = "free"
    BY <1>1, Peers DEF IInv, MarkInv, MarkOK, NextCell
  <2>2. taken'[e] = Len(sent[Peer(e)])
    BY <2>1, TakeNext
  <2>3. ASSUME NEW f \in End PROVE MarkOK(f)'
    <3>1. f # e => taken'[f] = taken[f] /\ rerr'[f] = rerr[f]
      BY TakeNext DEF IInv, TypeOK
    <3>2. rd'[f] = "idle" \/ rd'[f] = rd[f]
      BY DEF IInv, TypeOK
    <3>3. LastCell(f)' = LastCell(f)
      BY DEF LastCell, CellAt
    <3> QED BY <2>1, <2>2, <3>1, <3>2, <3>3 DEF IInv, MarkInv, MarkOK
  <2> QED BY <2>3 DEF MarkInv
<1> QED BY <1>2, <1>3, <1>4, <1>5 DEF IInv

\* ReadByte keeps the invariant.
LEMMA ReadByteInv ==
    ASSUME IInv, NEW e \in End, ReadByte(e)
    PROVE  IInv'
<1>0. /\ rd[e] = "full" /\ Avail(e) /\ taken' = [taken EXCEPT ![e] = @ + 1]
      /\ got' = [got EXCEPT ![e] = Append(@, AsByte(NextCell(e)))]
      /\ want' = [want EXCEPT ![e] = @ - 1]
      /\ UNCHANGED <<rerr, sent, wr, werr, closedReads, closedWrites, cl, down, pipe>>
  BY DEF ReadByte, writeVars
<1>1. /\ want[e] \in Nat \ {0} /\ after[e] \in Nat /\ LastTaken(e) \in Cell
      /\ want[e] + after[e] = LastTaken(e).rem
      /\ rerr[e] = "none" /\ e \notin closedReads /\ Len(got[e]) = LastTaken(e).off
      /\ got[e] \in Seq(Nat)
  <2>1. LastTaken(e) \in Cell
    BY TakenTypes
  <2>2. want[e] \in Nat /\ after[e] \in Nat /\ got[e] \in Seq(Nat)
    BY DEF IInv, TypeOK
  <2>3. ReaderOK(e)
    BY DEF IInv, FramingInv
  <2> QED BY <1>0, <2>1, <2>2, <2>3 DEF ReaderOK
<1>2. LastTaken(e).rem \in Nat \ {0} /\ LastTaken(e).off \in Nat
  BY <1>1, CellFields
<1>3. NextCell(e) = ByteCell(LastTaken(e).rem - 1, LastTaken(e).off + 1)
  BY <1>0, <1>2, NextLinked DEF IInv, Follows
<1>4. /\ NextCell(e).tag = "byte"
      /\ NextCell(e).rem = want[e] + after[e] - 1 /\ NextCell(e).off = Len(got[e]) + 1
  <2> DEFINE r == LastTaken(e).rem - 1
             o == LastTaken(e).off + 1
  <2>1. r \in Nat /\ o \in Nat
    BY <1>2
  <2>2. r = want[e] + after[e] - 1 /\ o = Len(got[e]) + 1
    BY <1>1
  <2> HIDE DEF r, o
  <2>3. NextCell(e) = ByteCell(r, o)
    BY <1>3 DEF r, o
  <2> QED BY <2>1, <2>2, <2>3, Cells
<1>5. /\ got' = [got EXCEPT ![e] = Append(@, Len(@) + 1)]
      /\ got'[e] = Append(got[e], Len(got[e]) + 1) /\ got' \in [End -> Seq(Nat)]
  <2>1. AsByte(NextCell(e)) = Len(got[e]) + 1
    BY <1>4 DEF AsByte
  <2>2. Len(got[e]) + 1 \in Nat /\ got \in [End -> Seq(Nat)]
    BY <1>1 DEF IInv, TypeOK
  <2>3. got' = [got EXCEPT ![e] = Append(@, Len(@) + 1)]
    BY <1>0, <2>1
  <2> QED BY <2>2, <2>3
<1>6. want'[e] = want[e] - 1 /\ want' \in [End -> Nat]
  BY <1>0, <1>1 DEF IInv, TypeOK
<1>7. \/ /\ want[e] > 1
         /\ UNCHANGED <<left, after, rd>>
      \/ /\ want[e] = 1
         /\ left'[e] = after[e] /\ rd'[e] = "idle"
         /\ left' \in [End -> Nat] /\ after' \in [End -> Nat]
         /\ rd' \in [End -> {"idle", "size", "full"}]
  <2>1. left \in [End -> Nat] /\ after \in [End -> Nat] /\ rd \in [End -> {"idle", "size", "full"}]
    BY DEF IInv, TypeOK
  <2>2. \/ want[e] > 1 /\ UNCHANGED <<left, after, rd>>
        \/ /\ want[e] = 1
           /\ left' = [left EXCEPT ![e] = after[e]]
           /\ after' = [after EXCEPT ![e] = 0]
           /\ rd' = [rd EXCEPT ![e] = "idle"]
    BY DEF ReadByte
  <2>3. CASE want[e] > 1
    BY <2>2, <2>3
  <2>4. CASE want[e] = 1
    <3>1. /\ left' = [left EXCEPT ![e] = after[e]] /\ after' = [after EXCEPT ![e] = 0]
          /\ rd' = [rd EXCEPT ![e] = "idle"]
      BY <2>2, <2>4
    <3> QED BY <2>1, <2>4, <3>1
  <2> QED BY <2>2, <2>3, <2>4
<1>8. \A f \in End : f # e => /\ got'[f] = got[f] /\ left'[f] = left[f] /\ rd'[f] = rd[f]
                              /\ want'[f] = want[f] /\ after'[f] = after[f]
  <2>1. TypeOK
    BY DEF IInv
  <2> QED BY <2>1 DEF ReadByte, TypeOK
<1>9. /\ taken' \in [End -> Nat]
      /\ LastTaken(e)' = NextCell(e) /\ taken'[e] <= Len(sent[Peer(e)])
      /\ \A f \in End : f # e => taken'[f] = taken[f] /\ LastTaken(f)' = LastTaken(f)
  BY <1>0, TakeNext
<1>10. TypeOK'
  BY <1>0, <1>5, <1>6, <1>7, <1>9 DEF IInv, TypeOK
<1>11. InOrder'
  <2>1. \A i \in DOMAIN got'[e] : got'[e][i] = i
    BY <1>1, <1>5 DEF IInv, InOrder
  <2> QED BY <2>1, <1>8 DEF IInv, InOrder
<1>12. FramingInv'
  <2>1. ReaderOK(e)'
    <3>1. Len(got'[e]) = Len(got[e]) + 1
      BY <1>1, <1>5
    <3>2. CASE want[e] > 1
      <4>1. want'[e] > 0 /\ want'[e] + after[e] = NextCell(e).rem
        <5>1. want[e] \in Nat /\ after[e] \in Nat /\ NextCell(e).rem = want[e] + after[e] - 1
          BY <1>1, <1>4
        <5> QED BY <3>2, <5>1, <1>6
      <4>2. rd'[e] = "full" /\ after'[e] = after[e]
        BY <3>2, <1>0, <1>7
      <4> QED BY <4>1, <4>2, <3>1, <1>0, <1>1, <1>4, <1>9 DEF ReaderOK
    <3>3. CASE want[e] = 1
      <4>1. after[e] = NextCell(e).rem
        <5>1. after[e] \in Nat /\ NextCell(e).rem = want[e] + after[e] - 1
          BY <1>1, <1>4
        <5> QED BY <3>3, <5>1
      <4>2. rd'[e] = "idle" /\ left'[e] = after[e]
        BY <3>3, <1>7
      <4> QED BY <4>1, <4>2, <3>1, <1>0, <1>1, <1>4, <1>9 DEF ReaderOK
    <3> QED BY <3>2, <3>3, <1>7
  <2>2. ASSUME NEW f \in End, f # e PROVE ReaderOK(f)'
    BY <2>2, <1>0, <1>8, <1>9, ReaderKept DEF IInv, FramingInv
  <2> QED BY <2>1, <2>2, <1>0, WritersKept DEF FramingInv
<1>13. MarkInv'
  <2>1. ASSUME NEW f \in End PROVE MarkOK(f)'
    <3>1. rd'[f] = "idle" \/ rd'[f] = rd[f]
      BY <1>7, <1>8
    <3>2. LastCell(f)' = LastCell(f)
      BY <1>0 DEF LastCell, CellAt
    <3>3. MarkOK(f)
      BY DEF IInv, MarkInv
    <3>4. rerr[f] = "eof" => taken'[f] = taken[f]
      BY <1>0, <1>1, <1>9
    <3> QED BY <1>0, <3>2, <3>3, <3>4 DEF MarkOK
  <2> QED BY <2>1 DEF MarkInv
<1> QED BY <1>10, <1>11, <1>12, <1>13 DEF IInv

\* ReadFail keeps the invariant.
LEMMA ReadFailInv ==
    ASSUME IInv, NEW e \in End, ReadFail(e)
    PROVE  IInv'
<1>0. /\ rd[e] # "idle" /\ (pipe = "lost" \/ (Peer(e) \in down /\ ~Avail(e)))
      /\ rd' = [rd EXCEPT ![e] = "idle"]
      /\ want' = [want EXCEPT ![e] = 0] /\ after' = [after EXCEPT ![e] = 0]
      /\ UNCHANGED <<taken, got, left, sent, wr, werr, closedReads, closedWrites, cl, down, pipe>>
  BY DEF ReadFail, writeVars
<1>1. PICK err \in {"eof", "errUnexpectedEOF"} : rerr' = [rerr EXCEPT ![e] = err]
  BY DEF ReadFail
<1>2. TypeOK'
  BY <1>0, <1>1 DEF IInv, TypeOK
<1>3. rerr'[e] = err /\ rd'[e] = "idle"
  BY <1>0, <1>1 DEF IInv, TypeOK
<1>4. \A f \in End : f # e => /\ rerr'[f] = rerr[f] /\ rd'[f] = rd[f]
                              /\ want'[f] = want[f] /\ after'[f] = after[f]
  BY <1>0, <1>1 DEF IInv, TypeOK
<1>5. \A f \in End : LastTaken(f)' = LastTaken(f) /\ LastCell(f)' = LastCell(f)
  BY <1>0 DEF LastTaken, LastCell, CellAt
<1>6. InOrder'
  BY <1>0 DEF IInv, InOrder
<1>7. FramingInv'
  <2>1. ReaderOK(e)'
    BY <1>0, <1>3, <1>5 DEF IInv, FramingInv, ReaderOK
  <2>2. ASSUME NEW f \in End, f # e PROVE ReaderOK(f)'
    BY <2>2, <1>0, <1>4, <1>5, ReaderKept DEF IInv, FramingInv
  <2> QED BY <2>1, <2>2, <1>0, WritersKept DEF FramingInv
\* With the pipe up the peer has closed, so its mark was there to be read.
<1>8. pipe = "up" => /\ Peer(e) \in closedWrites /\ wr[Peer(e)] = "free"
                     /\ taken[e] = Len(sent[Peer(e)])
  <2>1. Peer(e) \in End /\ taken[e] \in Nat /\ Len(sent[Peer(e)]) \in Nat
    BY Peers, CellTypes DEF IInv, TypeOK
  <2>2. taken[e] <= Len(sent[Peer(e)])
    BY DEF IInv, FramingInv, ReaderOK
  <2>3. MarkOK(Peer(e))
    BY <2>1 DEF IInv, MarkInv
  <2>4. pipe = "up" => Peer(e) \in down /\ ~Avail(e)
    BY <1>0
  <2>5. pipe = "up" => Peer(e) \in closedWrites /\ wr[Peer(e)] = "free"
    BY <2>3, <2>4 DEF MarkOK
  <2> QED BY <2>1, <2>2, <2>4, <2>5 DEF Avail
<1>9. MarkInv'
  <2>1. MarkOK(e)'
    <3>1. MarkOK(e)
      BY DEF IInv, MarkInv
    <3> QED BY <3>1, <1>0, <1>3, <1>5, <1>8 DEF MarkOK
  <2>2. ASSUME NEW f \in End, f # e PROVE MarkOK(f)'
    <3>1. MarkOK(f)
      BY DEF IInv, MarkInv
    <3> QED BY <3>1, <2>2, <1>0, <1>4, <1>5 DEF MarkOK
  <2> QED BY <2>1, <2>2 DEF MarkInv
<1> QED BY <1>2, <1>6, <1>7, <1>9 DEF IInv

\* A reader that takes nothing from an unchanged direction keeps its place.
LEMMA LastTakenKept ==
    ASSUME NEW f \in End, sent'[Peer(f)] = sent[Peer(f)], taken' = taken
    PROVE  LastTaken(f)' = LastTaken(f)
  BY DEF LastTaken, CellAt

\* A direction in which nothing is sent keeps its last cell.
LEMMA LastCellKept ==
    ASSUME NEW f, sent'[f] = sent[f]
    PROVE  LastCell(f)' = LastCell(f)
  BY DEF LastCell, CellAt

\* A direction in which nothing is sent stays well framed.
LEMMA LinkedKept ==
    ASSUME NEW f, Linked(f), sent'[f] = sent[f]
    PROVE  Linked(f)'
  BY DEF Linked, CellAt

\* A cell that continues e's message keeps the framing for both readers.
LEMMA AppendFraming ==
    ASSUME IInv, NEW e \in End, NEW c \in Cell, Follows(c, LastCell(e)),
           sent' = [sent EXCEPT ![e] = Append(@, c)],
           UNCHANGED <<readVars, closedReads>>
    PROVE  /\ \A f \in End : Linked(f)' /\ ReaderOK(f)'
           /\ LastCell(Peer(e))' = LastCell(Peer(e))
<1>0. TypeOK /\ Len(sent[e]) \in Nat /\ sent[e] \in Seq(Cell)
  BY DEF IInv, TypeOK
<1>1. /\ Len(sent'[e]) = Len(sent[e]) + 1 /\ sent'[e][Len(sent[e]) + 1] = c
      /\ \A i \in 0..Len(sent[e]) : CellAt(e, i)' = CellAt(e, i)
      /\ \A i \in DOMAIN sent[e] : sent'[e][i] = sent[e][i]
      /\ sent'[Peer(e)] = sent[Peer(e)]
  BY <1>0, AppendCell
<1>2. Linked(e)'
  <2> SUFFICES ASSUME NEW i \in 1..Len(sent'[e])
               PROVE  Follows(sent'[e][i], CellAt(e, i - 1)')
    BY DEF Linked, Follows
  <2>1. CASE i \in 1..Len(sent[e])
    <3>1. sent'[e][i] = sent[e][i] /\ CellAt(e, i - 1)' = CellAt(e, i - 1)
      BY <2>1, <1>0, <1>1
    <3> QED BY <3>1, <2>1 DEF IInv, FramingInv, Linked
  <2>2. CASE i = Len(sent[e]) + 1
    <3>1. sent'[e][i] = c /\ i - 1 = Len(sent[e]) /\ Len(sent[e]) \in 0..Len(sent[e])
      BY <2>2, <1>0, <1>1
    <3>2. i - 1 \in 0..Len(sent[e])
      BY <3>1
    <3>3. CellAt(e, i - 1)' = CellAt(e, i - 1) /\ CellAt(e, i - 1) = LastCell(e)
      BY <3>1, <3>2, <1>1 DEF LastCell
    <3> QED BY <3>1, <3>3
  <2> QED BY <2>1, <2>2, <1>0, <1>1
<1>3. Linked(Peer(e))' /\ LastCell(Peer(e))' = LastCell(Peer(e))
  <2>1. Peer(e) \in End /\ Linked(Peer(e)) /\ sent'[Peer(e)] = sent[Peer(e)]
    BY <1>1, Peers DEF IInv, FramingInv
  <2> QED BY <2>1, LinkedKept, LastCellKept
<1>4. ReaderOK(e)'
  <2>0. sent'[Peer(e)] = sent[Peer(e)] /\ taken' = taken
    BY <1>1 DEF readVars
  <2>1. LastTaken(e)' = LastTaken(e)
    BY <2>0, LastTakenKept
  <2> QED BY <2>1, <1>1 DEF IInv, FramingInv, ReaderOK, readVars
<1>5. ReaderOK(Peer(e))'
  <2>1. Peer(e) \in End /\ Peer(Peer(e)) = e
    BY Peers
  <2>2. taken[Peer(e)] \in 0..Len(sent[e])
    BY <2>1 DEF IInv, TypeOK, FramingInv, ReaderOK
  <2>3. LastTaken(Peer(e))' = LastTaken(Peer(e))
    BY <1>1, <2>1, <2>2 DEF LastTaken, readVars
  <2>4. taken'[Peer(e)] <= Len(sent'[Peer(Peer(e))])
    BY <1>0, <1>1, <2>1, <2>2 DEF readVars
  <2> QED BY <2>1, <2>3, <2>4 DEF IInv, FramingInv, ReaderOK, readVars
<1> QED BY <1>2, <1>3, <1>4, <1>5, Peers

\* The mark invariants after e appends c: what they ask of e itself is left to
\* the caller.  Nobody has read an end of stream from e before the step.
LEMMA AppendMark ==
    ASSUME IInv, NEW e \in End, NEW c \in Cell,
           sent' = [sent EXCEPT ![e] = Append(@, c)],
           pipe = "up", e \notin closedWrites \/ wr[e] # "free",
           \A f \in End : f # e => wr'[f] = wr[f],
           UNCHANGED <<readVars, werr, closedReads, closedWrites, cl, down, pipe>>,
           e \in closedWrites /\ wr'[e] = "free" => c.tag = "size" /\ c.rem = 0,
           c.tag = "size" /\ c.rem = 0 => e \in closedWrites /\ wr'[e] = "free",
           wr'[e] \in {"free", "body", "mark"}
    PROVE  MarkInv'
<1>0. TypeOK /\ Len(sent[e]) \in Nat /\ sent[e] \in Seq(Cell)
  BY DEF IInv, TypeOK
<1>1. /\ Len(sent'[e]) = Len(sent[e]) + 1 /\ sent'[e][Len(sent[e]) + 1] = c
      /\ \A i \in DOMAIN sent[e] : sent'[e][i] = sent[e][i]
      /\ sent'[Peer(e)] = sent[Peer(e)] /\ LastCell(e)' = c
  BY <1>0, AppendCell
<1>2. Peer(e) \in End /\ Peer(Peer(e)) = e /\ Peer(e) # e
  BY Peers
<1>3. rerr[Peer(e)] # "eof"
  BY <1>2 DEF IInv, MarkInv, MarkOK
<1>4. e \notin down /\ cl[e] \notin {"read", "done"}
  BY DEF IInv, MarkInv, MarkOK
<1>5. \A i \in 1..Len(sent[e]) : ~(sent[e][i].tag = "size" /\ sent[e][i].rem = 0)
  BY DEF IInv, MarkInv, MarkOK
<1>6. MarkOK(e)'
  <2>1. ASSUME NEW i \in 1..Len(sent'[e]), sent'[e][i].tag = "size", sent'[e][i].rem = 0
        PROVE  i = Len(sent'[e]) /\ e \in closedWrites /\ wr'[e] = "free"
    <3>0. Len(sent[e]) \in Nat /\ Len(sent'[e]) = Len(sent[e]) + 1
      BY <1>0, <1>1
    <3>1. i \notin 1..Len(sent[e])
      <4> SUFFICES ASSUME i \in 1..Len(sent[e]) PROVE FALSE
        OBVIOUS
      <4>1. i \in DOMAIN sent[e]
        BY <1>0
      <4>2. sent'[e][i] = sent[e][i]
        BY <4>1, <1>1
      <4> QED BY <4>2, <2>1, <1>5
    <3>2. i = Len(sent[e]) + 1
      BY <3>0, <3>1
    <3> QED BY <2>1, <3>2, <1>1
  <2>2. sent'[e] # <<>>
    BY <1>0, <1>1
  <2>3. rerr[e] = "eof" /\ pipe = "up" =>
            Peer(e) \in closedWrites /\ wr[Peer(e)] = "free" /\ taken[e] = Len(sent[Peer(e)])
    BY DEF IInv, MarkInv, MarkOK
  <2> QED BY <2>1, <2>2, <2>3, <1>1, <1>2, <1>4 DEF MarkOK, readVars
<1>7. MarkOK(Peer(e))'
  <2>1. LastCell(Peer(e))' = LastCell(Peer(e))
    BY <1>1, LastCellKept
  <2>2. MarkOK(Peer(e))
    BY <1>2 DEF IInv, MarkInv
  <2>3. sent'[Peer(e)] = sent[Peer(e)] /\ UNCHANGED <<rerr, taken>>
    BY <1>1 DEF readVars
  <2>4. wr'[Peer(e)] = wr[Peer(e)]
    BY <1>2
  <2> QED BY <2>1, <2>2, <2>3, <2>4, <1>2, <1>3 DEF MarkOK
<1> QED BY <1>6, <1>7, Peers DEF MarkInv

\* WriteStart keeps the invariant.
LEMMA WriteStartInv ==
    ASSUME IInv, NEW e \in End, NEW n \in WriteSizes, WriteStart(e, n)
    PROVE  IInv'
<1> DEFINE c == SizeCell(n, LastCell(e).off)
<1>0. /\ wr[e] = "free" /\ e \notin werr /\ e \notin closedWrites /\ pipe = "up"
      /\ sent' = [sent EXCEPT ![e] = Append(@, c)]
      /\ wr' = [wr EXCEPT ![e] = "body"]
      /\ UNCHANGED <<readVars, werr, closedReads, closedWrites, cl, down, pipe>>
  BY DEF WriteStart, Room
<1>1. LastCell(e) \in Cell /\ LastCell(e).off \in Nat /\ n \in Nat \ {0}
  BY CellTypes, CellFields, QemuConnAssumption DEF IInv
<1>2. c \in Cell /\ c.tag = "size" /\ c.rem = n /\ c.off = LastCell(e).off
  BY <1>1, Cells
<1> HIDE DEF c
<1>3. LastCell(e).rem = 0
  BY <1>0 DEF IInv, FramingInv, WriterOK
<1>4. Follows(c, LastCell(e))
  BY <1>2, <1>3 DEF Follows
<1>5. sent' \in [End -> Seq(Cell)] /\ LastCell(e)' = c
  BY <1>0, <1>2, AppendCell DEF IInv
<1>6. wr'[e] = "body" /\ \A f \in End : f # e => wr'[f] = wr[f]
  BY <1>0 DEF IInv, TypeOK
<1>7. TypeOK'
  BY <1>0, <1>5 DEF IInv, TypeOK, readVars
<1>8. InOrder'
  BY <1>0 DEF IInv, InOrder, readVars
<1>9. FramingInv'
  <2>1. /\ \A f \in End : Linked(f)' /\ ReaderOK(f)'
        /\ LastCell(Peer(e))' = LastCell(Peer(e))
    BY <1>0, <1>2, <1>4, AppendFraming
  <2>2. WriterOK(e)'
    BY <1>0, <1>1, <1>2, <1>5, <1>6 DEF WriterOK
  <2>3. WriterOK(Peer(e))'
    <3>1. Peer(e) \in End /\ WriterOK(Peer(e)) /\ wr'[Peer(e)] = wr[Peer(e)]
      BY <1>6, Peers DEF IInv, FramingInv
    <3> QED BY <3>1, <1>0, <2>1, WriterKept
  <2> QED BY <2>1, <2>2, <2>3, Peers DEF FramingInv
<1>10. MarkInv'
  BY <1>0, <1>1, <1>2, <1>6, AppendMark
<1> QED BY <1>7, <1>8, <1>9, <1>10 DEF IInv

\* WriteByte keeps the invariant.
LEMMA WriteByteInv ==
    ASSUME IInv, NEW e \in End, WriteByte(e)
    PROVE  IInv'
<1> DEFINE r == LastCell(e).rem
           c == ByteCell(r - 1, LastCell(e).off + 1)
<1>0. /\ wr[e] = "body" /\ pipe = "up"
      /\ sent' = [sent EXCEPT ![e] = Append(@, c)]
      /\ wr' = [wr EXCEPT ![e] = IF r = 1 THEN "free" ELSE "body"]
      /\ UNCHANGED <<readVars, werr, closedReads, closedWrites, cl, down, pipe>>
  BY DEF WriteByte, Room
<1>1. LastCell(e) \in Cell /\ LastCell(e).off \in Nat /\ r \in Nat \ {0} /\ e \notin closedWrites
  <2>1. r > 0 /\ e \notin closedWrites
    BY <1>0 DEF IInv, FramingInv, WriterOK
  <2> QED BY <2>1, CellTypes, CellFields DEF IInv
<1>2. c \in Cell /\ c.tag = "byte" /\ c.rem = r - 1
  BY <1>1, Cells
<1>3. Follows(c, LastCell(e))
  BY <1>1 DEF Follows
<1> HIDE DEF c, r
<1>4. sent' \in [End -> Seq(Cell)] /\ LastCell(e)' = c
  BY <1>0, <1>2, AppendCell DEF IInv
<1>5. wr'[e] = (IF r = 1 THEN "free" ELSE "body") /\ \A f \in End : f # e => wr'[f] = wr[f]
  BY <1>0 DEF IInv, TypeOK
<1>6. TypeOK'
  BY <1>0, <1>4 DEF IInv, TypeOK, readVars
<1>7. InOrder'
  BY <1>0 DEF IInv, InOrder, readVars
<1>8. FramingInv'
  <2>1. /\ \A f \in End : Linked(f)' /\ ReaderOK(f)'
        /\ LastCell(Peer(e))' = LastCell(Peer(e))
    BY <1>0, <1>2, <1>3, AppendFraming
  <2>2. e \notin werr
    BY <1>0 DEF IInv, FramingInv, WriterOK
  <2>3. WriterOK(e)'
    BY <1>0, <1>1, <1>2, <1>4, <1>5, <2>2 DEF WriterOK
  <2>4. WriterOK(Peer(e))'
    <3>1. Peer(e) \in End /\ WriterOK(Peer(e)) /\ wr'[Peer(e)] = wr[Peer(e)]
      BY <1>5, Peers DEF IInv, FramingInv
    <3> QED BY <3>1, <1>0, <2>1, WriterKept
  <2> QED BY <2>1, <2>3, <2>4, Peers DEF FramingInv
<1>9. MarkInv'
  BY <1>0, <1>1, <1>2, <1>5, AppendMark
<1> QED BY <1>6, <1>7, <1>8, <1>9 DEF IInv

\* SendClose keeps the invariant.
LEMMA SendCloseInv ==
    ASSUME IInv, NEW e \in End, SendClose(e)
    PROVE  IInv'
<1> DEFINE c == SizeCell(0, LastCell(e).off)
<1>0. /\ wr[e] = "mark" /\ pipe = "up"
      /\ sent' = [sent EXCEPT ![e] = Append(@, c)]
      /\ wr' = [wr EXCEPT ![e] = "free"]
      /\ UNCHANGED <<readVars, werr, closedReads, closedWrites, cl, down, pipe>>
  BY DEF SendClose, Room
<1>1. LastCell(e) \in Cell /\ LastCell(e).off \in Nat
  BY CellTypes, CellFields DEF IInv
<1>2. c \in Cell /\ c.tag = "size" /\ c.rem = 0 /\ c.off = LastCell(e).off
  BY <1>1, Cells
<1> HIDE DEF c
<1>3. LastCell(e).rem = 0 /\ e \in closedWrites /\ e \notin werr
  BY <1>0 DEF IInv, FramingInv, WriterOK
<1>4. Follows(c, LastCell(e))
  BY <1>2, <1>3 DEF Follows
<1>5. sent' \in [End -> Seq(Cell)] /\ LastCell(e)' = c
  BY <1>0, <1>2, AppendCell DEF IInv
<1>6. wr'[e] = "free" /\ \A f \in End : f # e => wr'[f] = wr[f]
  BY <1>0 DEF IInv, TypeOK
<1>7. TypeOK'
  BY <1>0, <1>5 DEF IInv, TypeOK, readVars
<1>8. InOrder'
  BY <1>0 DEF IInv, InOrder, readVars
<1>9. FramingInv'
  <2>1. /\ \A f \in End : Linked(f)' /\ ReaderOK(f)'
        /\ LastCell(Peer(e))' = LastCell(Peer(e))
    BY <1>0, <1>2, <1>4, AppendFraming
  <2>2. WriterOK(e)'
    BY <1>0, <1>2, <1>3, <1>5, <1>6 DEF WriterOK
  <2>3. WriterOK(Peer(e))'
    <3>1. Peer(e) \in End /\ WriterOK(Peer(e)) /\ wr'[Peer(e)] = wr[Peer(e)]
      BY <1>6, Peers DEF IInv, FramingInv
    <3> QED BY <3>1, <1>0, <2>1, WriterKept
  <2> QED BY <2>1, <2>2, <2>3, Peers DEF FramingInv
<1>10. MarkInv'
  BY <1>0, <1>2, <1>3, <1>6, AppendMark
<1> QED BY <1>7, <1>8, <1>9, <1>10 DEF IInv

\* What the closing calls and failures, which put nothing on the pipe, keep.
LEMMA NothingSent ==
    ASSUME IInv, UNCHANGED <<readVars, sent>>
    PROVE  /\ InOrder'
           /\ \A f \in End : /\ Linked(f)' /\ LastCell(f)' = LastCell(f)
                             /\ (rd[f] = "idle" \/ (f \in closedReads' => f \in closedReads))
                                    => ReaderOK(f)'
<1>0. sent' = sent /\ taken' = taken /\ got' = got
  BY DEF readVars
<1>1. InOrder'
  BY <1>0 DEF IInv, InOrder
<1>2. ASSUME NEW f \in End PROVE Linked(f)' /\ LastCell(f)' = LastCell(f)
  BY <1>0 DEF IInv, FramingInv, Linked, CellAt, LastCell
<1>3. ASSUME NEW f \in End, rd[f] = "idle" \/ (f \in closedReads' => f \in closedReads)
      PROVE  ReaderOK(f)'
  <2>1. LastTaken(f)' = LastTaken(f)
    BY <1>0, LastTakenKept
  <2> QED BY <2>1, <1>3 DEF IInv, FramingInv, ReaderOK, readVars
<1> QED BY <1>1, <1>2, <1>3

\* WriteFail keeps the invariant.
LEMMA WriteFailInv ==
    ASSUME IInv, NEW e \in End, WriteFail(e)
    PROVE  IInv'
<1> USE DEF WriteFail
<1>1. TypeOK'
  BY DEF IInv, TypeOK, readVars
<1>2. wr'[e] = "free" /\ \A f \in End : f # e => wr'[f] = wr[f]
  BY DEF IInv, TypeOK
<1>3. FramingInv'
  <2>1. ASSUME NEW f \in End PROVE WriterOK(f)'
    <3>1. WriterOK(f) /\ LastCell(f)' = LastCell(f)
      BY NothingSent DEF IInv, FramingInv
    <3>2. CASE f = e
      BY <3>1, <3>2, <1>2 DEF WriterOK
    <3>3. CASE f # e
      BY <3>1, <3>3, <1>2 DEF WriterOK
    <3> QED BY <3>2, <3>3
  <2> QED BY <2>1, NothingSent DEF FramingInv
<1>4. MarkInv'
  <2>1. ASSUME NEW f \in End PROVE MarkOK(f)'
    <3>1. LastCell(f)' = LastCell(f) /\ sent' = sent /\ rerr' = rerr /\ taken' = taken
      BY NothingSent DEF readVars
    <3>2. wr[f] = "free" => wr'[f] = "free"
      BY <1>2
    <3>3. wr[Peer(f)] = "free" => wr'[Peer(f)] = "free"
      BY <1>2, Peers
    <3>4. wr'[f] = "free" => wr[f] = "free" \/ f \in werr'
      BY <1>2
    <3>5. MarkOK(f)
      BY DEF IInv, MarkInv
    <3> QED BY <3>1, <3>2, <3>3, <3>4, <3>5 DEF MarkOK
  <2> QED BY <2>1 DEF MarkInv
<1> QED BY <1>1, <1>3, <1>4, NothingSent DEF IInv

\* CloseWrite keeps the invariant.
LEMMA CloseWriteInv ==
    ASSUME IInv, NEW e \in End, CloseWrite(e)
    PROVE  IInv'
<1> USE DEF CloseWrite
<1>1. TypeOK'
  BY DEF IInv, TypeOK, readVars
<1>2. /\ wr'[e] = (IF e \in werr THEN "free" ELSE "mark")
      /\ \A f \in End : f # e => wr'[f] = wr[f]
  BY DEF IInv, TypeOK
<1>3. FramingInv'
  <2>1. ASSUME NEW f \in End PROVE WriterOK(f)'
    <3>1. WriterOK(f) /\ LastCell(f)' = LastCell(f)
      BY NothingSent DEF IInv, FramingInv
    <3>2. CASE f = e
      BY <3>1, <3>2, <1>2 DEF WriterOK
    <3>3. CASE f # e
      BY <3>1, <3>3, <1>2 DEF WriterOK
    <3> QED BY <3>2, <3>3
  <2> QED BY <2>1, NothingSent DEF FramingInv
<1>4. MarkInv'
  <2>1. ASSUME NEW f \in End PROVE MarkOK(f)'
    <3>1. LastCell(f)' = LastCell(f) /\ sent' = sent /\ rerr' = rerr /\ taken' = taken
      BY NothingSent DEF readVars
    <3>2. f = e => f \notin down /\ cl[f] \notin {"read", "done"}
      BY DEF IInv, MarkInv, MarkOK
    <3>3. rerr[f] = "eof" /\ pipe = "up" => Peer(f) # e
      BY DEF IInv, MarkInv, MarkOK
    <3>4. MarkOK(f)
      BY DEF IInv, MarkInv
    <3>5. rerr[f] = "eof" /\ pipe = "up" => wr'[Peer(f)] = wr[Peer(f)]
      BY <1>2, <3>3, Peers
    <3>6. f # e => wr'[f] = wr[f]
      BY <1>2
    <3>7. f = e /\ wr'[f] = "free" => f \in werr
      BY <1>2
    <3>8. closedWrites' = closedWrites \cup {e} /\ UNCHANGED <<werr, cl, down, closedReads, pipe>>
      OBVIOUS
    <3>9. CASE f = e
      <4>1. \A i \in 1..Len(sent[f]) : ~(sent[f][i].tag = "size" /\ sent[f][i].rem = 0)
        BY <3>4, <3>9 DEF MarkOK
      <4> QED BY <4>1, <3>1, <3>2, <3>4, <3>5, <3>7, <3>8, <3>9 DEF MarkOK
    <3>10. CASE f # e
      BY <3>1, <3>4, <3>5, <3>6, <3>8, <3>10 DEF MarkOK
    <3> QED BY <3>9, <3>10
  <2> QED BY <2>1 DEF MarkInv
<1> QED BY <1>1, <1>3, <1>4, NothingSent DEF IInv

\* CloseRead, Close and closeConn keep the invariant.
LEMMA ClosingInv ==
    ASSUME IInv, NEW e \in End, CloseRead(e) \/ Close(e) \/ Closing(e)
    PROVE  IInv'
<1> USE DEF CloseRead, Close, Closing, CloseAfterWrite, CloseAfterRead, CloseConn, writeVars
<1>0. /\ UNCHANGED <<readVars, sent, wr, werr, closedWrites, pipe>>
      /\ down \subseteq down' /\ closedReads \subseteq closedReads'
      /\ \A f \in End : rd[f] = "idle" \/ (f \in closedReads' => f \in closedReads)
  BY DEF IInv, FramingInv, ReaderOK
<1>1. TypeOK'
  BY DEF IInv, TypeOK, readVars
<1>2. FramingInv'
  <2>1. ASSUME NEW f \in End PROVE WriterOK(f)'
    BY <1>0, NothingSent DEF IInv, FramingInv, WriterOK
  <2> QED BY <2>1, <1>0, NothingSent DEF FramingInv
<1>3. MarkInv'
  <2>1. ASSUME NEW f \in End PROVE MarkOK(f)'
    <3>0. MarkOK(f) /\ cl \in [End -> {"open", "write", "read", "done"}]
      BY DEF IInv, TypeOK, MarkInv
    <3>1. LastCell(f)' = LastCell(f) /\ rerr' = rerr /\ taken' = taken
      BY <1>0, NothingSent DEF readVars
    <3>2. cl'[f] \in {"read", "done"} => f \in closedWrites /\ wr[f] = "free"
      BY <3>0 DEF MarkOK
    <3>3. f \in down' => f \in closedReads' /\ f \in closedWrites /\ wr[f] = "free"
      BY <3>0 DEF MarkOK
    <3> QED BY <1>0, <3>0, <3>1, <3>2, <3>3 DEF MarkOK
  <2> QED BY <2>1 DEF MarkInv
<1> QED BY <1>0, <1>1, <1>2, <1>3, NothingSent DEF IInv

\* Losing the pipe keeps the invariant.
LEMMA BreakInv ==
    ASSUME IInv, Break
    PROVE  IInv'
<1> USE DEF Break, writeVars
<1>1. TypeOK'
  BY DEF IInv, TypeOK, readVars
<1>2. FramingInv'
  <2>1. ASSUME NEW f \in End PROVE WriterOK(f)'
    BY NothingSent DEF IInv, FramingInv, WriterOK
  <2> QED BY <2>1, NothingSent DEF FramingInv
<1>3. MarkInv'
  BY NothingSent DEF IInv, MarkInv, MarkOK, readVars
<1> QED BY <1>1, <1>2, <1>3, NothingSent DEF IInv

\* A stuttering step keeps the invariant.
LEMMA Unchanged == IInv /\ UNCHANGED vars => IInv'
<1> SUFFICES ASSUME IInv, UNCHANGED vars PROVE IInv'
  OBVIOUS
<1> USE DEF vars, readVars, writeVars
<1>1. TypeOK' /\ InOrder'
  BY DEF IInv, TypeOK, InOrder
<1>2. \A f \in End : LastCell(f)' = LastCell(f) /\ LastTaken(f)' = LastTaken(f)
  BY DEF LastCell, LastTaken, CellAt
<1>3. FramingInv'
  <2>1. ASSUME NEW f \in End PROVE ReaderOK(f)'
    BY <1>2, ReaderKept DEF IInv, FramingInv
  <2> QED BY <2>1, WritersKept DEF FramingInv
<1>4. MarkInv'
  <2>1. ASSUME NEW f \in End PROVE MarkOK(f)'
    <3>1. MarkOK(f)
      BY DEF IInv, MarkInv
    <3> QED BY <3>1, <1>2 DEF MarkOK
  <2> QED BY <2>1 DEF MarkInv
<1> QED BY <1>1, <1>3, <1>4 DEF IInv

\* The invariant is inductive.
LEMMA IInvNext == IInv /\ [Next]_vars => IInv'
<1> SUFFICES ASSUME IInv, [Next]_vars PROVE IInv'
  OBVIOUS
<1>1. CASE Break
  BY <1>1, BreakInv
<1>2. ASSUME NEW e \in End, EndNext(e) PROVE IInv'
  <2>1. CASE ReadStart(e)
    BY <2>1, ReadClosedInv, ReadLeftoversInv, ReadMessageInv DEF ReadStart
  <2>2. CASE \E n \in WriteSizes : WriteStart(e, n)
    BY <2>2, WriteStartInv
  <2>3. CASE Reading(e)
    BY <2>3, ReadSizeInv, ReadEofInv, ReadByteInv, ReadFailInv DEF Reading
  <2>4. CASE Writing(e)
    BY <2>4, WriteByteInv, WriteFailInv, SendCloseInv DEF Writing
  <2>5. CASE Closing(e) \/ CloseRead(e) \/ Close(e)
    BY <2>5, ClosingInv
  <2>6. CASE CloseWrite(e)
    BY <2>6, CloseWriteInv
  <2> QED BY <1>2, <2>1, <2>2, <2>3, <2>4, <2>5, <2>6 DEF EndNext
<1>3. CASE UNCHANGED vars
  BY <1>3, Unchanged
<1> QED BY <1>1, <1>2, <1>3 DEF Next

\* The inductive invariant holds throughout.
LEMMA Invariance == Spec => []IInv
  BY IInvInit, IInvNext, PTL DEF Spec

\* Every variable of a connection keeps its type.
THEOREM TypeCorrect == Spec => []TypeOK
<1>1. IInv => TypeOK
  BY DEF IInv
<1> QED BY <1>1, Invariance, PTL

\* Reads hand over the peer's bytes in order, each once, for all sizes of the
\* slices passed to Write and Read and all interleavings with the closing calls.
THEOREM DeliveryInOrder == Spec => []InOrder
<1>1. IInv => InOrder
  BY DEF IInv
<1> QED BY <1>1, Invariance, PTL

\* Reader and writer never disagree on where a message starts: `left` and the
\* Read in progress always match the writer's framing.
THEOREM FramingAgrees == Spec => []FramingInv
<1>1. IInv => FramingInv
  BY DEF IInv
<1> QED BY <1>1, Invariance, PTL

\* io.EOF on a pipe that was not lost means that the peer closed its writing
\* side and that everything it wrote has been read.
THEOREM EofIsEnd == Spec => []EofMeansEnd
<1>1. IInv => EofMeansEnd
  <2> SUFFICES ASSUME IInv, NEW e \in End, rerr[e] = "eof", pipe = "up"
               PROVE  Peer(e) \in closedWrites /\ Len(got[e]) = LastCell(Peer(e)).off
    BY DEF EofMeansEnd
  <2>1. Peer(e) \in closedWrites /\ taken[e] = Len(sent[Peer(e)])
    BY DEF IInv, MarkInv, MarkOK
  <2>2. Len(got[e]) = LastTaken(e).off
    BY DEF IInv, FramingInv, ReaderOK
  <2> QED BY <2>1, <2>2 DEF LastTaken, LastCell
<1> QED BY <1>1, Invariance, PTL
=============================================================================
