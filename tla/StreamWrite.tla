----------------------------- MODULE StreamWrite -----------------------------
(***************************************************************************)
(* Writing to a TCP connection: BufferedStream::write and flush over       *)
(* SocketStream, that is over Socket::send_to and the blocking write of    *)
(* the netconn layer, which hands the bytes to TCP piece by piece as the   *)
(* send buffer has room. A byte is the number under which it was accepted. *)
(***************************************************************************)
EXTENDS Naturals, Sequences, SequencesExt

CONSTANTS
  BufferSize,   \* m_write_buffer_size, 0 for no buffer (HttpListener)
  WriteSizes,   \* the sizes write() is called with
  MaxBytes,     \* bound: bytes written over the life of the connection
  MaxWire       \* bound: bytes handed to TCP up to which the route is lost

ASSUME WriteAssumption ==
  /\ BufferSize \in Nat
  /\ WriteSizes \subseteq Nat \ {0}
  /\ {MaxBytes, MaxWire} \subseteq Nat

VARIABLES
  wire,            \* the bytes handed to TCP
  up,              \* the connection has had no fatal error
  m_write_buffer,  \* its first m_write_buffer_usage bytes
  pc,              \* "idle", or which write of the base stream is under way
  data,            \* the bytes of that write
  write_offset,    \* how many of them TCP has taken
  then,            \* size of the write() that began with a flush, 0 for flush()
  numbered,        \* bytes numbered so far
  promised,        \* the bytes of which write() has said that they are written
  mishaps          \* what has befallen a flush half done: "timeout", "route"

vars ==
  <<wire, up, m_write_buffer, pc, data, write_offset, then, numbered, promised, mishaps>>

Init ==
  /\ wire = <<>> /\ up = TRUE /\ m_write_buffer = <<>>
  /\ pc = "idle" /\ data = <<>> /\ write_offset = 0 /\ then = 0
  /\ numbered = 0 /\ promised = {} /\ mishaps = {}

Fresh(n) == [j \in 1 .. n |-> numbered + j]

-----------------------------------------------------------------------------
(* The netconn layer. *)

\* lwip_netconn_do_write, or its refusal after a fatal error.
netconn_write(kind, bytes) ==
  IF up
  THEN pc' = kind /\ data' = bytes /\ write_offset' = 0
  ELSE pc' = "idle" /\ UNCHANGED <<data, write_offset>>

-----------------------------------------------------------------------------
(* BufferedStream. *)

\* The caller's bytes go to the base stream; the buffer is left empty.
WriteDirect(n) ==
  /\ m_write_buffer' = <<>>
  /\ netconn_write("direct", Fresh(n))
  /\ numbered' = IF up THEN numbered + n ELSE numbered
  /\ UNCHANGED promised

\* They are appended to what is in the buffer.
Store(before, n) ==
  /\ m_write_buffer' = before \o Fresh(n)
  /\ numbered' = numbered + n
  /\ promised' = promised \cup ToSet(Fresh(n))
  /\ pc' = "idle"
  /\ UNCHANGED <<data, write_offset>>

\* flush_write_buffer, called by flush (n = 0) or by a write of n bytes.
flush_write_buffer(n) ==
  /\ netconn_write("flush", m_write_buffer)
  /\ then' = n
  /\ UNCHANGED <<m_write_buffer, numbered, promised>>

\* Defect: large writes overtake the buffer.
writeOvertaking(n) ==
  /\ pc = "idle"
  /\ numbered + n <= MaxBytes
  /\ IF n > BufferSize
     THEN /\ netconn_write("direct", Fresh(n))
          /\ numbered' = IF up THEN numbered + n ELSE numbered
          /\ UNCHANGED <<m_write_buffer, promised, then>>
     ELSE IF BufferSize - Len(m_write_buffer) < n
          THEN flush_write_buffer(n)
          ELSE Store(m_write_buffer, n) /\ UNCHANGED then
  /\ UNCHANGED <<wire, up, mishaps>>

\* The order of the checks of write: bytes that do not fit the buffer at all,
\* bytes that do not fit now.
write(n) ==
  /\ pc = "idle"
  /\ numbered + n <= MaxBytes
  /\ IF n > BufferSize
     THEN IF m_write_buffer = <<>> THEN WriteDirect(n) /\ UNCHANGED then
                                   ELSE flush_write_buffer(n)
     ELSE IF BufferSize - Len(m_write_buffer) < n
          THEN flush_write_buffer(n)
          ELSE Store(m_write_buffer, n) /\ UNCHANGED then
  /\ UNCHANGED <<wire, up, mishaps>>

\* flush, and close.
flush ==
  /\ pc = "idle"
  /\ m_write_buffer # <<>>
  /\ flush_write_buffer(0)
  /\ UNCHANGED <<wire, up, mishaps>>

\* The base stream's write returns kOk with val bytes. A flush does not look at
\* val; a write of its own bytes passes it on.
Succeeds(val) ==
  IF pc = "flush"
  THEN /\ \/ /\ then = 0
             /\ m_write_buffer' = <<>>
             /\ pc' = "idle"
             /\ UNCHANGED <<data, write_offset, numbered, promised>>
          \/ then > BufferSize /\ WriteDirect(then)
          \/ then \in 1 .. BufferSize /\ Store(<<>>, then)
       /\ UNCHANGED then
  ELSE /\ promised' = promised \cup ToSet(SubSeq(data, 1, val))
       /\ pc' = "idle"
       /\ UNCHANGED <<m_write_buffer, data, write_offset, then, numbered>>

\* Defect: the buffer is emptied all the same.
FailsEmptied ==
  /\ pc' = "idle"
  /\ m_write_buffer' = <<>>
  /\ UNCHANGED <<data, write_offset, then, numbered, promised>>

\* It fails: a flush leaves the buffer as it was.
Fails ==
  /\ pc' = "idle"
  /\ UNCHANGED <<m_write_buffer, data, write_offset, then, numbered, promised>>

-----------------------------------------------------------------------------
(* lwip_netconn_do_writemore, called again as the send buffer empties. *)

Hand(k) == wire' = wire \o SubSeq(data, write_offset + 1, write_offset + k)
Rest == Len(data) - write_offset

Writing == pc # "idle" /\ Rest > 0

\* TCP takes k bytes.
WriteMore ==
  /\ Writing
  /\ \E k \in 1 .. Rest : Hand(k) /\ write_offset' = write_offset + k
  /\ UNCHANGED <<up, m_write_buffer, pc, data, then, numbered, promised, mishaps>>

\* It has taken them all.
Completes ==
  /\ pc # "idle"
  /\ Rest = 0
  /\ Succeeds(Len(data))
  /\ UNCHANGED <<wire, up, mishaps>>

\* A write of the socket ends with the error e: to a flush that is a mishap.
Mishap(e) == mishaps' = IF pc = "flush" THEN mishaps \cup {e} ELSE mishaps

\* The send timeout that TcpClient::create sets is over: an error when nothing
\* has been written, success with what has been otherwise.
TimesOut ==
  /\ Writing
  /\ \/ write_offset = 0 /\ Fails /\ UNCHANGED mishaps
     \/ write_offset # 0 /\ Succeeds(write_offset) /\ Mishap("timeout")
  /\ UNCHANGED <<wire, up>>

\* The interface goes down for a while and tcp_output finds no route: the bytes
\* tcp_write has taken stay with TCP, the write fails and the connection goes on.
LosesRoute ==
  /\ Writing
  /\ \E k \in 0 .. Rest : Len(wire) + k <= MaxWire /\ Hand(k)
  /\ Fails
  /\ Mishap("route")
  /\ UNCHANGED up

\* The connection is reset or aborted.
Abort ==
  /\ up
  /\ up' = FALSE
  /\ IF Writing
     THEN Fails
     ELSE UNCHANGED <<m_write_buffer, pc, data, write_offset, then, numbered, promised>>
  /\ UNCHANGED <<wire, mishaps>>

Next ==
  \/ \E n \in WriteSizes : write(n)
  \/ flush
  \/ WriteMore
  \/ Completes
  \/ TimesOut
  \/ LosesRoute
  \/ Abort

Spec == Init /\ [][Next]_vars

-----------------------------------------------------------------------------
(* Properties. *)

TypeOK ==
  /\ wire \in Seq(1 .. MaxBytes)
  /\ up \in BOOLEAN
  /\ m_write_buffer \in Seq(1 .. MaxBytes)
  /\ Len(m_write_buffer) <= BufferSize
  /\ pc \in {"idle", "flush", "direct"}
  /\ data \in Seq(1 .. MaxBytes)
  /\ write_offset \in 0 .. Len(data)
  /\ then \in WriteSizes \cup {0}
  /\ numbered \in 0 .. MaxBytes
  /\ promised \subseteq 1 .. numbered
  /\ mishaps \subseteq {"timeout", "route"}

\* No byte of which write() has said that it is written is lost, whatever
\* writes of the base stream fail: it is with TCP or in the buffer. The one
\* exception is a send timeout in the middle of a flush.
NothingLost ==
  "timeout" \notin mishaps => promised \subseteq ToSet(wire) \cup ToSet(m_write_buffer)

\* TCP is handed no byte twice and none before one that was written earlier,
\* although buffered and direct writes mix and writes end half done. The one
\* exception is a route that is lost under a flush, which repeats the buffer.
OnceInOrder ==
  "route" \notin mishaps => \A i, j \in DOMAIN wire : i < j => wire[i] < wire[j]
=============================================================================
