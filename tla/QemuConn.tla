------------------------------ MODULE QemuConn ------------------------------
(***************************************************************************)
(* The two ends of a connection of net/qemu/qemu.go: every Write is sent   *)
(* as a size followed by that many payload bytes, a size of zero means     *)
(* that the writer has closed its side, and a Read that finds a message    *)
(* larger than its buffer leaves the rest for the next Read (`left`).      *)
(*                                                                         *)
(* The pipe of one direction is the history of the cells put on it and the *)
(* number of cells taken off it.  A cell is a size or one payload byte.    *)
(* Only the tag and, for a size, the value `rem` travel; `off` (payload    *)
(* bytes sent up to and including this cell) and a byte's `rem` (payload   *)
(* bytes of the message after it) say what the cell is, so that what the   *)
(* reader makes of it can be judged.                                       *)
(*                                                                         *)
(* The locks are not variables of their own: readLock is held while        *)
(* rd[e] # "idle", writeLock while wr[e] # "free", closeLock while      *)
(* cl[e] is neither "open" nor "done".  Callers are any number of          *)
(* goroutines that wait for those locks.                                   *)
(***************************************************************************)
EXTENDS Naturals, Sequences

CONSTANTS
    WriteSizes,         \* lengths of the slices passed to Write, not empty:
                        \* an empty Write sends the mark of CloseWrite
    BufSizes,           \* lengths of the slices passed to Read, not empty:
                        \* an empty Read would parse leftovers as a size
    Garbage,            \* sizes that payload bytes could be mistaken for
    MaxBytes,           \* bound: payload bytes an end ever writes
    PipeCap             \* cells the pipe holds before a write blocks

End == {"host", "guest"}
Peer(e) == IF e = "host" THEN "guest" ELSE "host"

ASSUME QemuConnAssumption ==
    /\ WriteSizes \subseteq Nat \ {0}
    /\ BufSizes \subseteq Nat \ {0}
    /\ Garbage \subseteq Nat
    /\ MaxBytes \in [End -> Nat]
    /\ PipeCap \in Nat \ {0}

VARIABLES
    sent,               \* sent[e]: the cells e has put on the pipe
    taken,              \* taken[e]: how many cells of its peer e has read
    got,                \* got[e]: what e's Reads copied to their buffers
    left,               \* Conn.left
    rd, want, after,    \* the Read that holds readLock
    rerr,               \* the error that ended e's reading, "none" so far
    wr,                 \* the Write or CloseWrite that holds writeLock
    werr,               \* wb has failed; a bufio.Writer stays failed
    closedReads, closedWrites,
    cl,                 \* progress of Close
    down,               \* e \in down: the underlying Conn was closed by e
    pipe                \* "lost" once the emulator pipe is gone

readVars == <<taken, got, left, rd, want, after, rerr>>
writeVars == <<sent, wr, werr>>
vars == <<readVars, writeVars, closedReads, closedWrites, cl, down, pipe>>

Cell == [tag : {"size", "byte"}, rem : Nat, off : Nat]
SizeCell(n, o) == [tag |-> "size", rem |-> n, off |-> o]
ByteCell(r, o) == [tag |-> "byte", rem |-> r, off |-> o]

\* The i-th cell e sent; before the first it is as after a whole message.
CellAt(e, i) == IF i = 0 THEN SizeCell(0, 0) ELSE sent[e][i]
LastTaken(e) == CellAt(Peer(e), taken[e])
LastCell(e) == CellAt(e, Len(sent[e]))
Room(e) == pipe = "up" /\ Len(sent[e]) - taken[Peer(e)] < PipeCap
Avail(e) == taken[e] < Len(sent[Peer(e)])
NextCell(e) == sent[Peer(e)][taken[e] + 1]
Lesser(m, n) == IF m < n THEN m ELSE n

\* What a reader takes a cell for: payload parsed as a size is garbage, and
\* a size copied to the caller is not a byte of the stream.
AsSize(c) == IF c.tag = "size" THEN {c.rem} ELSE Garbage
AsByte(c) == IF c.tag = "byte" THEN c.off ELSE 0

Init ==
    /\ sent = [e \in End |-> <<>>]
    /\ taken = [e \in End |-> 0]
    /\ got = [e \in End |-> <<>>]
    /\ left = [e \in End |-> 0]
    /\ rd = [e \in End |-> "idle"]
    /\ want = [e \in End |-> 0]
    /\ after = [e \in End |-> 0]
    /\ rerr = [e \in End |-> "none"]
    /\ wr = [e \in End |-> "free"]
    /\ werr = {}
    /\ closedReads = {}
    /\ closedWrites = {}
    /\ cl = [e \in End |-> "open"]
    /\ down = {}
    /\ pipe = "up"
-----------------------------------------------------------------------------
(* Read.  A caller stops reading at the first error, as io.Copy does.      *)

\* Conn.Read takes readLock and read() finds closedReads.
ReadClosed(e) ==
    /\ rd[e] = "idle" /\ rerr[e] = "none"
    /\ e \in closedReads
    /\ rerr' = [rerr EXCEPT ![e] = "errClosed"]
    /\ UNCHANGED <<taken, got, left, rd, want, after>>
    /\ UNCHANGED <<writeVars, closedReads, closedWrites, cl, down, pipe>>

\* Leftovers of the last message come first: io.ReadFull is to find want more
\* bytes, and `left` becomes after when it has.
ReadLeftovers(e, len) ==
    /\ rd[e] = "idle" /\ rerr[e] = "none"
    /\ e \notin closedReads
    /\ left[e] > 0
    /\ rd' = [rd EXCEPT ![e] = "full"]
    /\ want' = [want EXCEPT ![e] = Lesser(left[e], len)]
    /\ after' = [after EXCEPT ![e] = left[e] - Lesser(left[e], len)]
    /\ UNCHANGED <<taken, got, left, rerr>>
    /\ UNCHANGED <<writeVars, closedReads, closedWrites, cl, down, pipe>>

\* No leftovers: binary.Read is to find the next size.  want is len(b).
ReadMessage(e, len) ==
    /\ rd[e] = "idle" /\ rerr[e] = "none"
    /\ e \notin closedReads
    /\ left[e] = 0
    /\ rd' = [rd EXCEPT ![e] = "size"]
    /\ want' = [want EXCEPT ![e] = len]
    /\ UNCHANGED <<taken, got, left, after, rerr>>
    /\ UNCHANGED <<writeVars, closedReads, closedWrites, cl, down, pipe>>

\* The size has come: io.ReadFull is to find what of the message fits b.
ReadSize(e) ==
    /\ rd[e] = "size"
    /\ Avail(e)
    /\ taken' = [taken EXCEPT ![e] = @ + 1]
    /\ rd' = [rd EXCEPT ![e] = "full"]
    /\ \E recd \in AsSize(NextCell(e)) \ {0} :
         /\ want' = [want EXCEPT ![e] = Lesser(recd, @)]
         /\ after' = [after EXCEPT ![e] = recd - Lesser(recd, want[e])]
    /\ UNCHANGED <<got, left, rerr>>
    /\ UNCHANGED <<writeVars, closedReads, closedWrites, cl, down, pipe>>

\* A size of zero is the peer's end of stream.
ReadEof(e) ==
    /\ rd[e] = "size"
    /\ Avail(e)
    /\ 0 \in AsSize(NextCell(e))
    /\ taken' = [taken EXCEPT ![e] = @ + 1]
    /\ rd' = [rd EXCEPT ![e] = "idle"]
    /\ want' = [want EXCEPT ![e] = 0]
    /\ rerr' = [rerr EXCEPT ![e] = "eof"]
    /\ UNCHANGED <<got, left, after>>
    /\ UNCHANGED <<writeVars, closedReads, closedWrites, cl, down, pipe>>

\* io.ReadFull(q.rb, b[:toRead]) copies one more byte; with the last one
\* `left` is assigned and Read returns.
ReadByte(e) ==
    /\ rd[e] = "full"
    /\ Avail(e)
    /\ taken' = [taken EXCEPT ![e] = @ + 1]
    /\ got' = [got EXCEPT ![e] = Append(@, AsByte(NextCell(e)))]
    /\ want' = [want EXCEPT ![e] = @ - 1]
    /\ \/ /\ want[e] > 1
          /\ UNCHANGED <<left, after, rd>>
       \/ /\ want[e] = 1
          /\ left' = [left EXCEPT ![e] = after[e]]
          /\ after' = [after EXCEPT ![e] = 0]
          /\ rd' = [rd EXCEPT ![e] = "idle"]
    /\ UNCHANGED <<rerr, writeVars, closedReads, closedWrites, cl, down, pipe>>

\* The underlying read fails: `left` is not assigned.  "input/output error"
\* and a connection that ends between messages are io.EOF, one that ends
\* within a message is io.ErrUnexpectedEOF.
ReadFail(e) ==
    /\ rd[e] # "idle"
    /\ pipe = "lost" \/ (Peer(e) \in down /\ ~Avail(e))
    /\ \E err \in {"eof", "errUnexpectedEOF"} : rerr' = [rerr EXCEPT ![e] = err]
    /\ rd' = [rd EXCEPT ![e] = "idle"]
    /\ want' = [want EXCEPT ![e] = 0]
    /\ after' = [after EXCEPT ![e] = 0]
    /\ UNCHANGED <<taken, got, left>>
    /\ UNCHANGED <<writeVars, closedReads, closedWrites, cl, down, pipe>>
-----------------------------------------------------------------------------
(* Write and the closing calls.                                            *)

\* Mutant of WriteStart: Write does not look at closedWrites.
WriteStartUnchecked(e, n) ==
    /\ wr[e] = "free" /\ e \notin werr
    /\ LastCell(e).off + n <= MaxBytes[e]
    /\ Room(e)
    /\ sent' = [sent EXCEPT ![e] = Append(@, SizeCell(n, LastCell(e).off))]
    /\ wr' = [wr EXCEPT ![e] = "body"]
    /\ UNCHANGED <<readVars, werr, closedReads, closedWrites, cl, down, pipe>>

\* Write takes writeLock and sends the size; the payload follows cell by
\* cell.  A failed wb or a closed side makes Write return with no effect, and
\* a Write that still waits for room for its size has had none.
WriteStart(e, n) ==
    /\ wr[e] = "free" /\ e \notin werr /\ e \notin closedWrites
    /\ LastCell(e).off + n <= MaxBytes[e]
    /\ Room(e)
    /\ sent' = [sent EXCEPT ![e] = Append(@, SizeCell(n, LastCell(e).off))]
    /\ wr' = [wr EXCEPT ![e] = "body"]
    /\ UNCHANGED <<readVars, werr, closedReads, closedWrites, cl, down, pipe>>

WriteByte(e) ==
    /\ wr[e] = "body"
    /\ Room(e)
    /\ LET c == LastCell(e) IN
       /\ sent' = [sent EXCEPT ![e] = Append(@, ByteCell(c.rem - 1, c.off + 1))]
       /\ wr' = [wr EXCEPT ![e] = IF c.rem = 1 THEN "free" ELSE "body"]
    /\ UNCHANGED <<readVars, werr, closedReads, closedWrites, cl, down, pipe>>

\* The pipe refuses a write: the error sticks to wb.
WriteFail(e) ==
    /\ wr[e] # "free"
    /\ pipe = "lost" \/ Peer(e) \in down
    /\ wr' = [wr EXCEPT ![e] = "free"]
    /\ werr' = werr \cup {e}
    /\ UNCHANGED <<readVars, sent, closedReads, closedWrites, cl, down, pipe>>

\* Mutant of CloseWrite: it does not take writeLock.
CloseWriteUnlocked(e) ==
    /\ e \notin closedWrites
    /\ closedWrites' = closedWrites \cup {e}
    /\ wr' = [wr EXCEPT ![e] = IF e \in werr THEN "free" ELSE "mark"]
    /\ UNCHANGED <<readVars, sent, werr, closedReads, cl, down, pipe>>

\* Mutant of CloseWrite: the peer is not told.
CloseWriteSilent(e) ==
    /\ wr[e] = "free"
    /\ e \notin closedWrites
    /\ closedWrites' = closedWrites \cup {e}
    /\ UNCHANGED <<readVars, sent, wr, werr, closedReads, cl, down, pipe>>

\* CloseWrite takes writeLock, sets closedWrites and sends the zero size.
CloseWrite(e) ==
    /\ wr[e] = "free"
    /\ e \notin closedWrites
    /\ closedWrites' = closedWrites \cup {e}
    /\ wr' = [wr EXCEPT ![e] = IF e \in werr THEN "free" ELSE "mark"]
    /\ UNCHANGED <<readVars, sent, werr, closedReads, cl, down, pipe>>

\* sendClose; then writesCloseChan is closed, which closedWrites with a free
\* writeLock stands for.
SendClose(e) ==
    /\ wr[e] = "mark"
    /\ Room(e)
    /\ sent' = [sent EXCEPT ![e] = Append(@, SizeCell(0, LastCell(e).off))]
    /\ wr' = [wr EXCEPT ![e] = "free"]
    /\ UNCHANGED <<readVars, werr, closedReads, closedWrites, cl, down, pipe>>

\* CloseRead needs readLock, so it waits for a Read in progress.
CloseRead(e) ==
    /\ rd[e] = "idle"
    /\ e \notin closedReads
    /\ closedReads' = closedReads \cup {e}
    /\ UNCHANGED <<readVars, writeVars, closedWrites, cl, down, pipe>>

\* Close: the flag, then CloseWrite, CloseRead and Conn.Close in turn.  A
\* second Close finds closed set and returns.
Close(e) ==
    /\ cl[e] = "open"
    /\ cl' = [cl EXCEPT ![e] = "write"]
    /\ UNCHANGED <<readVars, writeVars, closedReads, closedWrites, down, pipe>>

CloseAfterWrite(e) ==
    /\ cl[e] = "write" /\ wr[e] = "free" /\ e \in closedWrites
    /\ cl' = [cl EXCEPT ![e] = "read"]
    /\ UNCHANGED <<readVars, writeVars, closedReads, closedWrites, down, pipe>>

CloseAfterRead(e) ==
    /\ cl[e] = "read" /\ rd[e] = "idle" /\ e \in closedReads
    /\ cl' = [cl EXCEPT ![e] = "done"]
    /\ down' = down \cup {e}
    /\ UNCHANGED <<readVars, writeVars, closedReads, closedWrites, pipe>>

\* The goroutine that waits for both sides and closes the underlying Conn.
CloseConn(e) ==
    /\ e \in closedReads /\ e \in closedWrites /\ wr[e] = "free"
    /\ e \notin down
    /\ down' = down \cup {e}
    /\ UNCHANGED <<readVars, writeVars, closedReads, closedWrites, cl, pipe>>

\* The emulator, or the process at one end, goes away.
Break ==
    /\ pipe = "up"
    /\ pipe' = "lost"
    /\ UNCHANGED <<readVars, writeVars, closedReads, closedWrites, cl, down>>
-----------------------------------------------------------------------------
ReadStart(e) ==
    \/ ReadClosed(e)
    \/ \E len \in BufSizes : ReadLeftovers(e, len) \/ ReadMessage(e, len)
Reading(e) == ReadSize(e) \/ ReadEof(e) \/ ReadByte(e) \/ ReadFail(e)
Writing(e) == WriteByte(e) \/ WriteFail(e) \/ SendClose(e)
Closing(e) == CloseAfterWrite(e) \/ CloseAfterRead(e) \/ CloseConn(e)

EndNext(e) ==
    \/ ReadStart(e)
    \/ \E n \in WriteSizes : WriteStart(e, n)
    \/ Reading(e) \/ Writing(e) \/ Closing(e)
    \/ CloseRead(e) \/ CloseWrite(e) \/ Close(e)

Next == Break \/ \E e \in End : EndNext(e)

Spec == Init /\ [][Next]_vars

\* The goroutines inside a call run on, a caller reads until an error (io.Copy,
\* the gRPC transport), and Close goes on to CloseWrite and CloseRead.
Fairness ==
    \A e \in End :
        /\ WF_vars(Reading(e))
        /\ WF_vars(Writing(e))
        /\ WF_vars(Closing(e))
        /\ WF_vars(ReadStart(e))
        /\ WF_vars(cl[e] = "write" /\ CloseWrite(e))
        /\ WF_vars(cl[e] = "read" /\ CloseRead(e))

FairSpec == Spec /\ Fairness
-----------------------------------------------------------------------------
(* Properties.                                                             *)

\* The variables keep their types: in particular no subtraction on `left` or on
\* the bytes still wanted goes below zero.
TypeOK ==
    /\ sent \in [End -> Seq(Cell)]
    /\ taken \in [End -> Nat]
    /\ got \in [End -> Seq(Nat)]
    /\ left \in [End -> Nat]
    /\ rd \in [End -> {"idle", "size", "full"}]
    /\ want \in [End -> Nat]
    /\ after \in [End -> Nat]
    /\ rerr \in [End -> {"none", "eof", "errUnexpectedEOF", "errClosed"}]
    /\ wr \in [End -> {"free", "body", "mark"}]
    /\ werr \subseteq End
    /\ closedReads \subseteq End
    /\ closedWrites \subseteq End
    /\ cl \in [End -> {"open", "write", "read", "done"}]
    /\ down \subseteq End
    /\ pipe \in {"up", "lost"}

\* However the Reads' buffers split the messages (`left`), and whatever the
\* closing calls do meanwhile, Reads hand over the peer's bytes in order, each
\* once, none skipped and no size mistaken for payload.
InOrder == \A e \in End : \A i \in DOMAIN got[e] : got[e][i] = i

\* Read reports io.EOF on a pipe that was not lost only when the peer closed
\* its writing side and every byte it wrote has been handed over.
EofMeansEnd ==
    \A e \in End :
        rerr[e] = "eof" /\ pipe = "up" =>
            Peer(e) \in closedWrites /\ Len(got[e]) = LastCell(Peer(e)).off

\* Consecutive cells form whole messages: a size, then that many bytes.
Follows(c, p) ==
    IF p.rem = 0 THEN c.tag = "size" /\ c.off = p.off
    ELSE c = ByteCell(p.rem - 1, p.off + 1)
Linked(e) == \A i \in 1..Len(sent[e]) : Follows(sent[e][i], CellAt(e, i - 1))

\* What writeLock protects: only its holder leaves a message unfinished.
WriterOK(e) ==
    /\ wr[e] = "body" => e \notin closedWrites /\ LastCell(e).rem > 0
    /\ wr[e] = "mark" => e \in closedWrites /\ LastCell(e).rem = 0
    /\ wr[e] = "free" /\ e \notin werr => LastCell(e).rem = 0
    /\ e \in werr => wr[e] = "free" /\ (pipe = "lost" \/ Peer(e) \in down)

\* What `left` and the Read in progress know is where the last cell taken
\* stands in its message.
ReaderOK(e) ==
    /\ taken[e] <= Len(sent[Peer(e)])
    /\ Len(got[e]) = LastTaken(e).off
    /\ rd[e] # "idle" => rerr[e] = "none" /\ e \notin closedReads
    /\ rd[e] = "idle" /\ rerr[e] = "none" => left[e] = LastTaken(e).rem
    /\ rd[e] = "size" => LastTaken(e).rem = 0 /\ want[e] > 0 /\ left[e] = 0
    /\ rd[e] = "full" => want[e] > 0 /\ want[e] + after[e] = LastTaken(e).rem

\* The end-of-stream mark is the last thing an end sends, and an end that
\* closed its underlying Conn has sent it or could not.
MarkOK(e) ==
    /\ \A i \in 1..Len(sent[e]) :
         sent[e][i].tag = "size" /\ sent[e][i].rem = 0
            => i = Len(sent[e]) /\ e \in closedWrites /\ wr[e] = "free"
    /\ cl[e] \in {"read", "done"} => e \in closedWrites /\ wr[e] = "free"
    /\ e \in down => e \in closedReads /\ e \in closedWrites /\ wr[e] = "free"
    /\ e \in closedWrites /\ wr[e] = "free" /\ e \notin werr
         => sent[e] # <<>> /\ LastCell(e).tag = "size" /\ LastCell(e).rem = 0
    /\ rerr[e] = "eof" /\ pipe = "up"
         => Peer(e) \in closedWrites /\ wr[Peer(e)] = "free" /\ taken[e] = Len(sent[Peer(e)])

\* The reader and the writer agree on the framing at every step of every
\* interleaving of Read, Write, CloseRead, CloseWrite, Close and closeConn:
\* the inductive invariant behind InOrder.
FramingInv ==
    \A e \in End : Linked(e) /\ WriterOK(e) /\ ReaderOK(e)

\* No mark is sent or acted on early: with FramingInv, the inductive
\* invariant behind EofMeansEnd.
MarkInv == \A e \in End : MarkOK(e)

\* Both ends have stopped reading while each is inside a write: nothing
\* drains the pipe and Close cannot get writeLock.
Wedged ==
    \A e \in End : wr[e] # "free" /\ e \in closedReads

\* When both ends call Close, both calls return and both underlying
\* connections are closed, although Close has to wait for the Read and the
\* Write in progress; the one exception is that they end up Wedged.
CloseCompletes ==
    (\A e \in End : cl[e] # "open")
        ~> ((\A e \in End : cl[e] = "done" /\ e \in down) \/ []Wedged)

\* A connection is a byte stream in each direction.
Stream == INSTANCE ByteStream WITH
    Dir <- End,
    written <- [d \in End |-> LastCell(Peer(d)).off],
    delivered <- got,
    ended <- {d \in End : Peer(d) \in closedWrites},
    eof <- {d \in End : rerr[d] = "eof"}

\* Conn implements ByteStream: framing, the leftover bookkeeping and half
\* closing are invisible to the users of the two ends.
StreamSpec == Stream!Spec
=============================================================================
