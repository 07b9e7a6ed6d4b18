----------------------------- MODULE LogStorage -----------------------------
(***************************************************************************)
(* LogStorage: the one std::ofstream that all workers append to, and the   *)
(* file behind it.  A record is written in two pieces, its text and the end*)
(* of its line, and then flushed.  The stream opens the file to append, so *)
(* that the file outlives the process.                                     *)
(*                                                                         *)
(* libstdc++'s filebuf keeps a short piece in its buffer until flush(), and*)
(* writes one of 1024 bytes or more to the file at once, after what is in  *)
(* the buffer.  Records can be of either kind: handleLogPush() takes       *)
(* payloads of up to 4096 bytes.                                           *)
(***************************************************************************)
EXTENDS Naturals, Sequences

CONSTANTS Worker,  \* the threads that call append()
          Long,    \* numbers of the requests whose record's text is 1024 bytes or more
          Faults   \* what may fail: opening the file, writing to it

ASSUME LogAssumption == /\ Long \subseteq Nat
                        /\ Faults \subseteq {"open", "write"}

VARIABLES stream,  \* m_ofs: not constructed yet, open, bad, or not open
          mutex,   \* the workers that hold m_mutex
          buffer,  \* what was written and not flushed
          file     \* ../logs/access.log

log == <<stream, mutex, buffer, file>>

\* The record has the number of the request before.
PieceWrong(n, part) == [num |-> n - 1, part |-> part]

\* A piece of the record of request n.
Piece(n, part) == [num |-> n, part |-> part]

LogInit == stream = "none" /\ mutex = {} /\ buffer = <<>> /\ file = <<>>

\* The file is opened without ios::app.
OpenWrong == /\ stream = "none"
             /\ stream' = "open"
             /\ file' = <<>>
             /\ UNCHANGED <<mutex, buffer>>

\* The first call of getInstance() constructs the instance; the others wait.
Open == /\ stream = "none"
        /\ stream' \in {"open"} \cup (IF "open" \in Faults THEN {"closed"} ELSE {})
        /\ UNCHANGED <<mutex, buffer, file>>

IsOpen == stream \in {"open", "bad"}

\* Nobody waits for anybody.
FreeWrong == TRUE

Free == mutex = {}
Lock(w) == /\ Free
           /\ mutex' = mutex \cup {w}
           /\ UNCHANGED <<stream, buffer, file>>

\* The pieces s are written to the file, and the buffer is empty.  When the disk is full
\* a part of them is written at most, and the stream is bad from then on.
Store(s) == \/ /\ stream # "bad"
               /\ file' = file \o s
               /\ buffer' = <<>>
               /\ UNCHANGED <<stream, mutex>>
            \/ /\ "write" \in Faults
               /\ stream' = "bad"
               /\ \E k \in 0..Len(s) : file' = file \o SubSeq(s, 1, k)
               /\ buffer' = <<>>
               /\ UNCHANGED mutex

\* operator<<.  Nothing is written to a bad stream.
Direct(piece) == piece.part = "text" /\ piece.num \in Long
Write(piece) == \/ /\ stream = "bad"
                   /\ UNCHANGED log
                \/ /\ stream # "bad"
                   /\ Direct(piece)
                   /\ Store(Append(buffer, piece))
                \/ /\ stream # "bad"
                   /\ ~Direct(piece)
                   /\ buffer' = Append(buffer, piece)
                   /\ UNCHANGED <<stream, mutex, file>>

\* flush() is left out.
FlushWrong == UNCHANGED log

\* flush().
Flush == Store(buffer)

\* The lock_guard is not given back.
UnlockWrong(w) == UNCHANGED log

Unlock(w) == /\ mutex' = mutex \ {w}
             /\ UNCHANGED <<stream, buffer, file>>

\* The process ends, however it does: the file is what is left.
LogCrash == /\ stream' = "none"
            /\ mutex' = {}
            /\ buffer' = <<>>
            /\ UNCHANGED file
=============================================================================
