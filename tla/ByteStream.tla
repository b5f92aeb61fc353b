----------------------------- MODULE ByteStream -----------------------------
(***************************************************************************)
(* What a connection of this program promises its two users, one byte      *)
(* stream per direction: bytes arrive in the order they were written,      *)
(* none is lost, invented or repeated, and the end of the stream is        *)
(* reported only when every byte has arrived, unless the connection broke. *)
(*                                                                         *)
(* A byte is named by its position in the stream, 1, 2, 3, ...             *)
(***************************************************************************)
EXTENDS Naturals, Sequences

CONSTANT Dir            \* the directions, named by the reading end

VARIABLES
    written,            \* written[d]: number of bytes the writer has sent
    delivered,          \* delivered[d]: the bytes handed to the reader
    ended,              \* ended: where the writer has closed its side
    eof,                \* eof: where the reader has been told of the end
    pipe                \* "lost" once the connection is gone

vars == <<written, delivered, ended, eof, pipe>>

Init ==
    /\ written = [d \in Dir |-> 0]
    /\ delivered = [d \in Dir |-> <<>>]
    /\ ended = {}
    /\ eof = {}
    /\ pipe = "up"

\* The writer adds one or more bytes.
Put(d) ==
    /\ d \notin ended
    /\ written'[d] > written[d]
    /\ \A c \in Dir \ {d} : written'[c] = written[c]
    /\ UNCHANGED <<delivered, ended, eof, pipe>>

\* The reader gets one or more of the bytes that come next.
Get(d) ==
    /\ d \notin eof
    /\ Len(delivered'[d]) \in Len(delivered[d]) + 1 .. written[d]
    /\ \A i \in 1..Len(delivered[d]) : delivered'[d][i] = delivered[d][i]
    /\ \A i \in Len(delivered[d]) + 1 .. Len(delivered'[d]) : delivered'[d][i] = i
    /\ \A c \in Dir \ {d} : delivered'[c] = delivered[c]
    /\ UNCHANGED <<written, ended, eof, pipe>>

Finish(d) ==
    /\ ended' = ended \cup {d}
    /\ UNCHANGED <<written, delivered, eof, pipe>>

TellEof(d) ==
    /\ pipe = "lost" \/ (d \in ended /\ Len(delivered[d]) = written[d])
    /\ eof' = eof \cup {d}
    /\ UNCHANGED <<written, delivered, ended, pipe>>

\* The connection is gone; the writers may have ended with it.
Break ==
    /\ pipe' = "lost"
    /\ ended \subseteq ended'
    /\ UNCHANGED <<written, delivered, eof>>

Next ==
    \/ \E d \in Dir : Put(d) \/ Get(d) \/ Finish(d) \/ TellEof(d)
    \/ Break

Spec == Init /\ [][Next]_vars
=============================================================================
