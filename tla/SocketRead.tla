----------------------------- MODULE SocketRead -----------------------------
(***************************************************************************)
(* Reading from a TCP connection: BufferedStream::read over SocketStream,  *)
(* that is over Socket::recv_from, which takes netbufs from the receive    *)
(* mailbox the tcpip thread fills. A byte is the number under which the    *)
(* peer sent it.                                                           *)
(***************************************************************************)
EXTENDS Naturals, Sequences

CONSTANTS
  BufferSize,  \* m_read_buffer_size
  ReadSizes,   \* the sizes read() is called with
  SegSizes,    \* lengths of the netbufs that arrive
  MBOX_SIZE,   \* netbufs the receive mailbox holds
  MaxBytes,    \* bound: bytes the peer sends
  WordSize     \* uint32_t arithmetic is modulo WordSize (2^32 in the code)

ASSUME ReadAssumption ==
  /\ BufferSize \in Nat \ {0}
  /\ ReadSizes \subseteq Nat
  /\ SegSizes \subseteq Nat \ {0}
  /\ MBOX_SIZE \in Nat
  /\ MaxBytes \in Nat
  /\ WordSize \in Nat /\ WordSize > BufferSize
  /\ \A s \in ReadSizes : s < WordSize

VARIABLES
  sent,               \* bytes the peer has sent
  fin,                \* the peer has closed its side
  recvmbox,           \* the netbufs in the receive mailbox
  m_recv_buf,         \* the netbuf the socket is reading, <<>> for nullptr
  m_recv_buf_offset,
  m_read_buffer, m_read_buffer_rp, m_read_buffer_wp,
  pc,                 \* where read() is
  size, remain_size,  \* its argument and local
  want,               \* size with which it has called the base stream
  direct,             \* that call reads into the caller's memory
  stored,             \* bytes read() has put into the caller's memory
  copies,             \* in how many pieces
  ret, val,           \* the RetVal of the last read()
  delivered           \* history: the bytes all calls have stored

sockVars == <<m_recv_buf, m_recv_buf_offset>>
bufVars == <<m_read_buffer, m_read_buffer_rp, m_read_buffer_wp>>
callVars == <<pc, size, remain_size, want, direct, stored, copies, ret, val>>
vars == <<sent, fin, recvmbox, sockVars, bufVars, callVars, delivered>>

NULL == <<>>
Slots == 0 .. BufferSize - 1
Bytes == 1 .. MaxBytes
Stale == 0  \* what the buffer holds before it is first filled

Init ==
  /\ sent = 0 /\ fin = FALSE /\ recvmbox = <<>>
  /\ m_recv_buf = NULL /\ m_recv_buf_offset = 0
  /\ m_read_buffer = [j \in Slots |-> Stale]
  /\ m_read_buffer_rp = 0 /\ m_read_buffer_wp = 0
  /\ pc = "idle" /\ size = 0 /\ remain_size = 0 /\ want = 0 /\ direct = FALSE
  /\ stored = 0 /\ copies = 0 /\ ret = "ok" /\ val = 0
  /\ delivered = <<>>

AtMost(a, b) == IF a <= b THEN a ELSE b
\* uint32_t subtraction.
Minus(a, b) == IF a >= b THEN a - b ELSE a + WordSize - b

-----------------------------------------------------------------------------
(* The peer, through the tcpip thread. *)

\* A segment arrives; while the mailbox is full the stack keeps it back. It is
\* one pbuf: PBUF_POOL_BUFSIZE holds a whole frame and TCP_QUEUE_OOSEQ is 0.
PeerSend(n) ==
  /\ ~fin
  /\ Len(recvmbox) < MBOX_SIZE
  /\ sent + n <= MaxBytes
  /\ recvmbox' = Append(recvmbox, [j \in 1 .. n |-> sent + j])
  /\ sent' = sent + n
  /\ UNCHANGED <<fin, sockVars, bufVars, callVars, delivered>>

PeerClose ==
  /\ ~fin
  /\ fin' = TRUE
  /\ UNCHANGED <<sent, recvmbox, sockVars, bufVars, callVars, delivered>>

-----------------------------------------------------------------------------
(* BufferedStream::read *)

\* read(buf, s) is called.
Read(s) ==
  /\ pc = "idle"
  /\ size' = s /\ remain_size' = s
  /\ stored' = 0 /\ copies' = 0
  /\ pc' = "loop"
  /\ UNCHANGED <<sent, fin, recvmbox, sockVars, bufVars, want, direct, ret, val, delivered>>

\* The caller's memory ends after size bytes: with a copy that would go beyond
\* it, or with a call of the base stream that could, nothing more is said.
Store(bytes) ==
  /\ delivered' = delivered \o bytes
  /\ stored' = stored + Len(bytes)
  /\ copies' = copies + 1

\* copy_size.
CopySizeAll == m_read_buffer_wp - m_read_buffer_rp  \* defect: not capped by size
CopySize == AtMost(size, m_read_buffer_wp - m_read_buffer_rp)

\* Bytes in the buffer are copied to the caller.
CopyFromBuffer ==
  /\ pc = "loop"
  /\ remain_size > 0
  /\ m_read_buffer_wp > m_read_buffer_rp
  /\ Store([j \in 1 .. CopySize |-> m_read_buffer[m_read_buffer_rp + j - 1]])
  /\ remain_size' = Minus(remain_size, CopySize)
  /\ m_read_buffer_rp' = m_read_buffer_rp + CopySize
  /\ pc' = IF stored + CopySize > size THEN "overrun" ELSE "loop"
  /\ UNCHANGED <<sent, fin, recvmbox, sockVars, m_read_buffer, m_read_buffer_wp, size,
                 want, direct, ret, val>>

\* What is asked of the base stream to fill the buffer.
FillSize == BufferSize

\* With an empty buffer the base stream is read: into the caller's memory when
\* more is wanted than the buffer takes, into the buffer otherwise.
ReadBase ==
  /\ pc = "loop"
  /\ remain_size > 0
  /\ m_read_buffer_wp = m_read_buffer_rp
  /\ direct' = (remain_size > BufferSize)
  /\ want' = IF direct' THEN remain_size ELSE FillSize
  /\ pc' = "recv"
  /\ UNCHANGED <<sent, fin, recvmbox, sockVars, bufVars, size, remain_size, stored, copies,
                 ret, val, delivered>>

\* Everything asked for has been stored.
ReadDone ==
  /\ pc = "loop"
  /\ remain_size = 0
  /\ ret' = "ok" /\ val' = size
  /\ pc' = "idle"
  /\ UNCHANGED <<sent, fin, recvmbox, sockVars, bufVars, size, remain_size, want, direct,
                 stored, copies, delivered>>

-----------------------------------------------------------------------------
(* Socket::recv_from *)

\* netconn_recv takes the next netbuf. Without one it blocks.
SocketRecv ==
  /\ pc = "recv"
  /\ m_recv_buf = NULL
  /\ recvmbox # <<>>
  /\ m_recv_buf' = Head(recvmbox)
  /\ m_recv_buf_offset' = 0
  /\ recvmbox' = Tail(recvmbox)
  /\ UNCHANGED <<sent, fin, bufVars, callVars, delivered>>

\* netconn_recv fails: the connection is closed and drained, the receive
\* timeout has passed, or the netbuf pool is empty. read() gives up; the
\* failure of a direct call is returned as it is.
SocketFail ==
  /\ pc = "recv"
  /\ m_recv_buf = NULL
  /\ ret' = "failed"
  /\ val' = IF direct THEN 0 ELSE Minus(size, remain_size)
  /\ pc' = "idle"
  /\ UNCHANGED <<sent, fin, recvmbox, sockVars, bufVars, size, remain_size, want, direct,
                 stored, copies, delivered>>

\* The offset with which the next call goes on in the netbuf.
OffsetRestarted(n) == n  \* defect: the offset is not accumulated
OffsetAfter(n) == m_recv_buf_offset + n

\* At most want bytes are taken from the netbuf, which is deleted at its end.
\* The rest stays for the next call.
SocketCopy ==
  LET n == AtMost(want, Len(m_recv_buf) - m_recv_buf_offset)
      bytes == [j \in 1 .. n |-> m_recv_buf[m_recv_buf_offset + j]]
  IN
  /\ pc = "recv"
  /\ m_recv_buf # NULL
  /\ m_recv_buf_offset' = OffsetAfter(n)
  /\ m_recv_buf' = IF OffsetAfter(n) = Len(m_recv_buf) THEN NULL ELSE m_recv_buf
  /\ \/ /\ direct
        /\ Store(bytes)
        /\ ret' = "ok" /\ val' = n
        /\ pc' = IF stored + n > size THEN "overrun" ELSE "idle"
        /\ UNCHANGED bufVars
     \/ /\ ~direct
        /\ m_read_buffer' = [j \in Slots |-> IF j < n THEN bytes[j + 1] ELSE m_read_buffer[j]]
        /\ m_read_buffer_rp' = 0
        /\ m_read_buffer_wp' = n
        /\ pc' = "loop"
        /\ UNCHANGED <<stored, copies, ret, val, delivered>>
  /\ UNCHANGED <<sent, fin, recvmbox, size, remain_size, want, direct>>

-----------------------------------------------------------------------------
Next ==
  \/ \E n \in SegSizes : PeerSend(n)
  \/ PeerClose
  \/ \E s \in ReadSizes : Read(s)
  \/ CopyFromBuffer \/ ReadBase \/ ReadDone
  \/ SocketRecv \/ SocketFail \/ SocketCopy

Spec == Init /\ [][Next]_vars

-----------------------------------------------------------------------------
(* Properties. *)

\* The values of every variable.
TypeOK ==
  /\ sent \in 0 .. MaxBytes /\ fin \in BOOLEAN
  /\ recvmbox \in Seq(Seq(Bytes))
  /\ m_recv_buf \in Seq(Bytes) /\ m_recv_buf_offset \in Nat
  /\ m_read_buffer \in [Slots -> Bytes \cup {Stale}]
  /\ m_read_buffer_wp \in 0 .. BufferSize /\ m_read_buffer_rp \in 0 .. m_read_buffer_wp
  /\ pc \in {"idle", "loop", "recv", "overrun"}
  /\ size \in 0 .. WordSize - 1 /\ remain_size \in 0 .. WordSize - 1
  /\ want \in Nat /\ direct \in BOOLEAN
  /\ stored \in Nat /\ copies \in Nat
  /\ ret \in {"ok", "failed"} /\ val \in 0 .. WordSize - 1
  /\ delivered \in Seq(Bytes)

\* The bytes on their way from the peer, in the order of their numbers.
InTransit == [j \in 1 .. sent - Len(delivered) |-> Len(delivered) + j]
Stream == INSTANCE ByteStream WITH queue <- InTransit

\* Whatever the sizes of segments, buffer and reads, and wherever reads fail,
\* the two layers of buffering deliver the peer's bytes in order, each once:
\* the detailed reader implements the abstract stream.
InOrder == Stream!Spec

\* A read() that is served in one piece stores no more than was asked for and
\* returns the number of bytes it stored, also when it fails after that piece
\* (but not when the failed call of the base stream was a direct one).
OnePieceExact ==
  copies <= 1 =>
    /\ pc # "overrun"
    /\ pc = "idle" /\ (ret = "ok" \/ size <= BufferSize) => stored = val

-----------------------------------------------------------------------------
(* Inductive invariants, from which the proofs derive the properties. *)

\* Bytes left in the two buffers.
InBuffer == m_read_buffer_wp - m_read_buffer_rp
InNetbuf == IF m_recv_buf = NULL THEN 0 ELSE Len(m_recv_buf) - m_recv_buf_offset

\* b holds consecutive bytes, at least one.
Consecutive(b) == Len(b) > 0 /\ \A j \in 1 .. Len(b) : b[j] = b[1] + j - 1

\* The delivered bytes, the buffer, the netbuf and the mailbox hold, one after
\* the other, the bytes 1 .. sent.
DeliveredInv == \A j \in 1 .. Len(delivered) : delivered[j] = j
BufferInv ==
  \A j \in Slots : m_read_buffer_rp <= j /\ j < m_read_buffer_wp =>
    m_read_buffer[j] = Len(delivered) + 1 + j - m_read_buffer_rp
NetbufInv ==
  m_recv_buf # NULL =>
    /\ m_recv_buf_offset < Len(m_recv_buf)
    /\ \A j \in 1 .. Len(m_recv_buf) : m_recv_buf_offset < j =>
         m_recv_buf[j] = Len(delivered) + InBuffer + j - m_recv_buf_offset
\* Bytes that come before those in the mailbox.
Before == Len(delivered) + InBuffer + InNetbuf
MboxInv ==
  /\ \A k \in 1 .. Len(recvmbox) :
       Consecutive(recvmbox[k]) /\ recvmbox[k][1] + Len(recvmbox[k]) <= sent + 1
  /\ \A k \in 1 .. Len(recvmbox) - 1 :
       recvmbox[k + 1][1] = recvmbox[k][1] + Len(recvmbox[k])
  /\ Len(recvmbox) = 0 => sent = Before
  /\ Len(recvmbox) > 0 =>
       /\ recvmbox[1][1] = Before + 1
       /\ sent + 1 = recvmbox[Len(recvmbox)][1] + Len(recvmbox[Len(recvmbox)])
  /\ Before <= sent
OrderInv == DeliveredInv /\ BufferInv /\ NetbufInv /\ MboxInv

\* What a call has still to do. The buffer is empty while the base stream is
\* being read.
CallInv ==
  /\ pc \in {"loop", "recv"} /\ copies <= 1 => remain_size + stored = size
  /\ copies = 0 => stored = 0
  /\ pc \in {"loop", "recv"} /\ remain_size > 0 => size > 0
  /\ pc = "recv" =>
       /\ m_read_buffer_wp = m_read_buffer_rp
       /\ remain_size > 0
       /\ want = IF direct THEN remain_size ELSE BufferSize
       /\ direct <=> remain_size > BufferSize
=============================================================================
