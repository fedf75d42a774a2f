-------------------------- MODULE SocketReadProofs --------------------------
(***************************************************************************)
(* Proofs about SocketRead: one-piece reads are exact, and the reader      *)
(* implements ByteStream, for every size of buffer, segments and reads.    *)
(***************************************************************************)
EXTENDS SocketRead, SequenceTheorems, TLAPS

-----------------------------------------------------------------------------
(* Runs of consecutive numbers. *)

\* The n numbers after a.
Run(a, n) == [j \in 1 .. n |-> a + j]

\* A run is a sequence.
LEMMA RunSeq ==
  ASSUME NEW a \in Nat, NEW n \in Nat
  PROVE  Run(a, n) \in Seq(Nat) /\ Len(Run(a, n)) = n /\ \A j \in 1 .. n : Run(a, n)[j] = a + j
BY SMT DEF Run

\* Two adjacent runs make one.
LEMMA RunConcat ==
  ASSUME NEW a \in Nat, NEW n \in Nat, NEW m \in Nat
  PROVE  Run(a, n) \o Run(a + n, m) = Run(a, n + m)
<1> DEFINE s == Run(a, n)
           t == Run(a + n, m)
           u == Run(a, n + m)
           w == s \o t
<1>1. /\ s \in Seq(Nat) /\ Len(s) = n /\ \A j \in 1 .. n : s[j] = a + j
      /\ t \in Seq(Nat) /\ Len(t) = m /\ \A j \in 1 .. m : t[j] = a + n + j
      /\ u \in Seq(Nat) /\ Len(u) = n + m /\ \A j \in 1 .. n + m : u[j] = a + j
  <2>1. a + n \in Nat /\ n + m \in Nat
    OBVIOUS
  <2> QED BY <2>1, RunSeq, Zenon
<1> HIDE DEF s, t, u
<1>2. /\ w \in Seq(Nat) /\ Len(w) = n + m
      /\ \A j \in 1 .. n + m : w[j] = IF j <= n THEN s[j] ELSE t[j - n]
  <2>1. /\ w \in Seq(Nat) /\ Len(w) = Len(s) + Len(t)
        /\ \A j \in 1 .. Len(s) + Len(t) : w[j] = IF j <= Len(s) THEN s[j] ELSE t[j - Len(s)]
    BY <1>1, ConcatProperties, Zenon
  <2> QED BY <1>1, <2>1, Zenon
<1> HIDE DEF w
<1>3. \A j \in 1 .. n + m : w[j] = u[j]
  <2> TAKE j \in 1 .. n + m
  <2>1. u[j] = a + j /\ w[j] = IF j <= n THEN s[j] ELSE t[j - n]
    BY <1>1, <1>2
  <2>2. CASE j <= n
    BY <2>1, <2>2, <1>1
  <2>3. CASE j > n
    <3>1. j - n \in 1 .. m
      BY <2>3
    <3>2. t[j - n] = a + n + (j - n)
      BY <3>1, <1>1
    <3> QED BY <2>1, <2>3, <3>2
  <2> QED BY <2>2, <2>3
<1>4. w = u
  BY <1>1, <1>2, <1>3, SeqEqual
<1> QED BY <1>4 DEF s, t, u, w

\* A run is cut into two.
LEMMA RunCut ==
  ASSUME NEW a \in Nat, NEW n \in Nat, NEW m \in 0 .. n
  PROVE  /\ SubSeq(Run(a, n), 1, m) = Run(a, m)
         /\ SubSeq(Run(a, n), m + 1, n) = Run(a + m, n - m)
<1> DEFINE s == Run(a, n)
           t == Run(a, m)
           u == Run(a + m, n - m)
<1>1. /\ s \in Seq(Nat) /\ Len(s) = n /\ \A j \in 1 .. n : s[j] = a + j
      /\ t \in Seq(Nat) /\ Len(t) = m /\ \A j \in 1 .. m : t[j] = a + j
      /\ u \in Seq(Nat) /\ Len(u) = n - m /\ \A j \in 1 .. n - m : u[j] = a + m + j
  <2>1. a + m \in Nat /\ n - m \in Nat /\ m \in Nat
    OBVIOUS
  <2> QED BY <2>1, RunSeq, Zenon
<1> HIDE DEF s, t, u
<1>2. \A j \in 1 .. n : s[j] \in Nat
  BY <1>1
<1>3. /\ SubSeq(s, 1, m) \in Seq(Nat) /\ Len(SubSeq(s, 1, m)) = m
      /\ \A j \in 1 .. m : SubSeq(s, 1, m)[j] = s[j]
  BY <1>2, SubSeqProperties, SMT
<1>4. /\ SubSeq(s, m + 1, n) \in Seq(Nat) /\ Len(SubSeq(s, m + 1, n)) = n - m
      /\ \A j \in 1 .. n - m : SubSeq(s, m + 1, n)[j] = s[m + j]
  BY <1>2, SubSeqProperties, SMT
<1>5. SubSeq(s, 1, m) = t
  BY <1>1, <1>3, SeqEqual
<1>6. SubSeq(s, m + 1, n) = u
  <2>1. \A j \in 1 .. n - m : SubSeq(s, m + 1, n)[j] = u[j]
    BY <1>1, <1>4
  <2> QED BY <2>1, <1>1, <1>4, SeqEqual
<1> QED BY <1>5, <1>6 DEF s, t, u

\* A run of bytes that have been sent.
LEMMA RunBytes ==
  ASSUME TypeOK, NEW a \in Nat, NEW n \in Nat, a + n <= sent
  PROVE  Run(a, n) \in Seq(Bytes)
<1>1. \A j \in 1 .. n : a + j \in Bytes
  BY ReadAssumption, SMT DEF TypeOK, Bytes
<1> QED BY <1>1, SMT DEF Run

\* The bytes the next copies take out of the buffer and the netbuf.
LEMMA Due ==
  ASSUME TypeOK, OrderInv
  PROVE  /\ Len(delivered) \in Nat /\ InBuffer \in Nat /\ InNetbuf \in Nat
         /\ Before <= sent
         /\ \A n \in 0 .. InBuffer :
              [j \in 1 .. n |-> m_read_buffer[m_read_buffer_rp + j - 1]]
                = Run(Len(delivered), n)
         /\ \A n \in 0 .. InNetbuf :
              [j \in 1 .. n |-> m_recv_buf[m_recv_buf_offset + j]]
                = Run(Len(delivered) + InBuffer, n)
<1>1. Len(delivered) \in Nat /\ InBuffer \in Nat /\ InNetbuf \in Nat /\ Before <= sent
  BY SMT DEF TypeOK, OrderInv, NetbufInv, MboxInv, InBuffer, InNetbuf
<1>2. ASSUME NEW n \in 0 .. InBuffer
      PROVE  [j \in 1 .. n |-> m_read_buffer[m_read_buffer_rp + j - 1]] = Run(Len(delivered), n)
  <2>1. ASSUME NEW j \in 1 .. n
        PROVE  m_read_buffer[m_read_buffer_rp + j - 1] = Len(delivered) + j
    <3>1. m_read_buffer_rp + j - 1 \in Slots /\ m_read_buffer_rp + j - 1 >= m_read_buffer_rp
          /\ m_read_buffer_rp + j - 1 < m_read_buffer_wp
      BY ReadAssumption, SMT DEF TypeOK, Slots, InBuffer
    <3>2. m_read_buffer[m_read_buffer_rp + j - 1] =
            Len(delivered) + 1 + (m_read_buffer_rp + j - 1) - m_read_buffer_rp
      BY <3>1, Zenon DEF OrderInv, BufferInv
    <3> QED BY <1>1, <3>2, SMT DEF TypeOK
  <2> QED BY <2>1, Zenon DEF Run
<1>3. ASSUME NEW n \in 0 .. InNetbuf
      PROVE  [j \in 1 .. n |-> m_recv_buf[m_recv_buf_offset + j]]
               = Run(Len(delivered) + InBuffer, n)
  <2>1. ASSUME NEW j \in 1 .. n
        PROVE  m_recv_buf[m_recv_buf_offset + j] = Len(delivered) + InBuffer + j
    <3>1. m_recv_buf # NULL /\ m_recv_buf_offset + j \in 1 .. Len(m_recv_buf)
          /\ m_recv_buf_offset < m_recv_buf_offset + j
      BY SMT DEF TypeOK, OrderInv, NetbufInv, InNetbuf
    <3>2. m_recv_buf[m_recv_buf_offset + j] =
            Len(delivered) + InBuffer + (m_recv_buf_offset + j) - m_recv_buf_offset
      BY <3>1 DEF OrderInv, NetbufInv
    <3> QED BY <1>1, <3>2, SMT DEF TypeOK
  <2> QED BY <2>1, Zenon DEF Run
<1> QED BY <1>1, <1>2, <1>3
-----------------------------------------------------------------------------
(* Types. *)

\* Every step of the reader keeps the types of its variables.
LEMMA TypeStep == TypeOK /\ OrderInv /\ CallInv /\ [Next]_vars => TypeOK'
<1> SUFFICES ASSUME TypeOK, OrderInv, CallInv, [Next]_vars PROVE TypeOK'
  OBVIOUS
<1> USE ReadAssumption
<1>1. ASSUME NEW n \in SegSizes, PeerSend(n) PROVE TypeOK'
  <2>1. [j \in 1 .. n |-> sent + j] \in Seq(Bytes)
    BY <1>1, SMT DEF TypeOK, PeerSend, Bytes
  <2>2. recvmbox' \in Seq(Seq(Bytes))
    BY <1>1, <2>1, AppendProperties, SMT DEF TypeOK, PeerSend
  <2>3. sent' \in 0 .. MaxBytes
    BY <1>1, SMT DEF TypeOK, PeerSend
  <2> QED BY <1>1, <2>2, <2>3 DEF TypeOK, PeerSend, sockVars, bufVars, callVars
<1>2. CASE PeerClose
  BY <1>2 DEF TypeOK, PeerClose, sockVars, bufVars, callVars
<1>3. ASSUME NEW s \in ReadSizes, Read(s) PROVE TypeOK'
  BY <1>3, SMT DEF TypeOK, Read, sockVars, bufVars
<1>4. CASE CopyFromBuffer
  <2>1. CopySize \in Nat /\ CopySize <= m_read_buffer_wp - m_read_buffer_rp /\ CopySize <= size
    BY <1>4, SMT DEF TypeOK, CopySize, AtMost, CopyFromBuffer
  <2> DEFINE b == [j \in 1 .. CopySize |-> m_read_buffer[m_read_buffer_rp + j - 1]]
  <2>2. b = Run(Len(delivered), CopySize) /\ Len(delivered) \in Nat
        /\ Len(delivered) + CopySize <= sent
    <3>1. CopySize \in 0 .. InBuffer
      BY <2>1, SMT DEF InBuffer, TypeOK
    <3> QED BY <2>1, <3>1, Due, SMTT(30) DEF Before, TypeOK
  <2> HIDE DEF b
  <2>3. b \in Seq(Bytes) /\ Len(b) = CopySize
    BY <2>1, <2>2, RunBytes, RunSeq
  <2>4. delivered' \in Seq(Bytes) /\ stored' \in Nat /\ copies' \in Nat
    BY <1>4, <2>1, <2>3, ConcatProperties, SMT DEF TypeOK, CopyFromBuffer, Store, b
  <2>5. remain_size' \in 0 .. WordSize - 1 /\ m_read_buffer_rp' \in 0 .. m_read_buffer_wp
    BY <1>4, <2>1, SMT DEF TypeOK, CopyFromBuffer, Minus
  <2> QED BY <1>4, <2>4, <2>5 DEF TypeOK, CopyFromBuffer, sockVars
<1>5. CASE ReadBase
  BY <1>5, SMT DEF TypeOK, ReadBase, FillSize, sockVars, bufVars
<1>6. CASE ReadDone
  BY <1>6, SMT DEF TypeOK, ReadDone, sockVars, bufVars
<1>7. CASE SocketRecv
  BY <1>7, HeadTailProperties, SMT DEF TypeOK, SocketRecv, bufVars, callVars
<1>8. CASE SocketFail
  BY <1>8, SMT DEF TypeOK, SocketFail, Minus, sockVars, bufVars
<1>9. CASE SocketCopy
  <2> DEFINE n == AtMost(want, Len(m_recv_buf) - m_recv_buf_offset)
             bytes == [j \in 1 .. n |-> m_recv_buf[m_recv_buf_offset + j]]
  <2>1. m_recv_buf \in Seq(Bytes) /\ m_recv_buf_offset \in Nat /\ want \in Nat
        /\ m_recv_buf_offset < Len(m_recv_buf)
    BY <1>9 DEF TypeOK, OrderInv, NetbufInv, SocketCopy
  <2>2. n \in Nat /\ n <= want /\ m_recv_buf_offset + n <= Len(m_recv_buf)
    BY <2>1, SMT DEF AtMost
  <2> HIDE DEF n
  <2>3. \A j \in 1 .. n : m_recv_buf[m_recv_buf_offset + j] \in Bytes
    BY <2>1, <2>2, SMT
  <2>4. bytes \in Seq(Bytes) /\ Len(bytes) = n
    BY <2>2, <2>3, SMT
  <2>5. bytes \in [1 .. n -> Bytes]
    BY <2>3
  <2> HIDE DEF bytes
  <2>6. m_recv_buf_offset' \in Nat /\ m_recv_buf' \in Seq(Bytes)
    BY <1>9, <2>1, <2>2, SMT DEF SocketCopy, OffsetAfter, NULL, n
  <2>7. CASE direct
    <3>0. Store(bytes)
      BY <1>9, <2>7 DEF SocketCopy, n, bytes
    <3>1. delivered' \in Seq(Bytes) /\ stored' \in Nat /\ copies' \in Nat
      <4>1. delivered \in Seq(Bytes) /\ stored \in Nat /\ copies \in Nat
        BY DEF TypeOK
      <4>2. delivered \o bytes \in Seq(Bytes)
        BY <4>1, <2>4, ConcatProperties, Zenon
      <4>3. stored + Len(bytes) \in Nat /\ copies + 1 \in Nat
        BY <4>1, <2>2, <2>4
      <4> QED BY <3>0, <4>2, <4>3, Zenon DEF Store
    <3>2. val' \in 0 .. WordSize - 1
      BY <1>9, <2>7, <2>2, SMT DEF TypeOK, SocketCopy, CallInv, n
    <3>3. pc' \in {"idle", "overrun"} /\ ret' = "ok"
      BY <1>9, <2>7 DEF SocketCopy
    <3> QED BY <1>9, <2>7, <2>6, <3>1, <3>2, <3>3 DEF TypeOK, SocketCopy, bufVars
  <2>8. CASE ~direct
    <3>1. n <= BufferSize
      BY <1>9, <2>8, <2>2 DEF CallInv, SocketCopy
    <3>2. m_read_buffer' = [j \in Slots |-> IF j < n THEN bytes[j + 1] ELSE m_read_buffer[j]]
      BY <1>9, <2>8 DEF SocketCopy, n, bytes
    <3>3. \A j \in Slots : j < n => bytes[j + 1] \in Bytes
      BY <2>2, <2>5, SMT DEF Slots
    <3>4. m_read_buffer' \in [Slots -> Bytes \cup {Stale}]
      BY <3>2, <3>3 DEF TypeOK
    <3>5. m_read_buffer_wp' \in 0 .. BufferSize /\ m_read_buffer_rp' \in 0 .. m_read_buffer_wp'
      BY <1>9, <2>8, <2>2, <3>1, SMT DEF SocketCopy, n
    <3> QED BY <1>9, <2>8, <2>6, <3>4, <3>5 DEF TypeOK, SocketCopy
  <2> QED BY <2>7, <2>8 DEF TypeOK
<1>10. CASE UNCHANGED vars
  BY <1>10 DEF TypeOK, vars, sockVars, bufVars, callVars
<1> QED BY <1>1, <1>2, <1>3, <1>4, <1>5, <1>6, <1>7, <1>8, <1>9, <1>10 DEF Next

-----------------------------------------------------------------------------
(* Calls. *)

\* A call that has copied at most one piece knows what it has still to store.
LEMMA CallStep == TypeOK /\ OrderInv /\ CallInv /\ [Next]_vars => CallInv'
<1> SUFFICES ASSUME TypeOK, OrderInv, CallInv, [Next]_vars PROVE CallInv'
  OBVIOUS
<1> USE ReadAssumption
<1>1. ASSUME NEW n \in SegSizes, PeerSend(n) PROVE CallInv'
  BY <1>1 DEF CallInv, PeerSend, bufVars, callVars
<1>2. CASE PeerClose
  BY <1>2 DEF CallInv, PeerClose, bufVars, callVars
<1>3. ASSUME NEW s \in ReadSizes, Read(s) PROVE CallInv'
  BY <1>3, SMT DEF CallInv, Read, TypeOK
<1>4. CASE CopyFromBuffer
  <2>1. CopySize \in Nat /\ CopySize <= size
    BY <1>4, SMT DEF TypeOK, CopySize, AtMost, CopyFromBuffer
  <2> DEFINE b == [j \in 1 .. CopySize |-> m_read_buffer[m_read_buffer_rp + j - 1]]
  <2>2. Len(b) = CopySize
    BY <2>1, SMT
  <2>3. stored' = stored + CopySize /\ copies' = copies + 1
    BY <1>4, <2>2 DEF CopyFromBuffer, Store
  <2>4. pc' \in {"loop", "overrun"} /\ remain_size' = Minus(remain_size, CopySize) /\ size' = size
    BY <1>4 DEF CopyFromBuffer
  <2>5. remain_size > 0 /\ pc = "loop"
    BY <1>4 DEF CopyFromBuffer
  <2>6. copies' <= 1 => copies = 0 /\ stored = 0 /\ remain_size = size
    BY <2>3, <2>5, SMT DEF TypeOK, CallInv
  <2>7. copies' <= 1 => remain_size' + stored' = size'
    BY <2>1, <2>3, <2>4, <2>6, SMT DEF Minus, TypeOK
  <2>8. copies' # 0 /\ size' > 0
    BY <2>3, <2>4, <2>5, SMT DEF TypeOK, CallInv
  <2>9. pc' # "recv"
    BY <2>4
  <2> QED BY <2>7, <2>8, <2>9 DEF CallInv
<1>5. CASE ReadBase
  <2>1. pc = "loop" /\ pc' = "recv" /\ remain_size > 0 /\ m_read_buffer_wp = m_read_buffer_rp
    BY <1>5 DEF ReadBase
  <2>2. UNCHANGED <<bufVars, size, remain_size, stored, copies>>
    BY <1>5 DEF ReadBase
  <2>3. /\ direct' = (remain_size > BufferSize)
        /\ want' = IF direct' THEN remain_size ELSE BufferSize
    BY <1>5 DEF ReadBase, FillSize
  <2>4. (pc \in {"loop", "recv"})' /\ (pc = "recv")'
    BY <2>1
  <2>5. (copies <= 1 => remain_size + stored = size) /\ (copies = 0 => stored = 0) /\ size > 0
    BY <2>1 DEF CallInv
  <2>6. direct' <=> remain_size > BufferSize
    BY <2>3
  <2> QED BY <2>1, <2>2, <2>3, <2>4, <2>5, <2>6 DEF CallInv, bufVars
<1>6. CASE ReadDone
  BY <1>6, SMT DEF CallInv, ReadDone, TypeOK, bufVars
<1>7. CASE SocketRecv
  BY <1>7 DEF CallInv, SocketRecv, bufVars, callVars
<1>8. CASE SocketFail
  BY <1>8, SMT DEF CallInv, SocketFail, TypeOK, bufVars
<1>9. CASE SocketCopy
  <2>1. CASE direct
    <3>1. pc' \in {"idle", "overrun"} /\ copies' = copies + 1
      BY <1>9, <2>1 DEF SocketCopy, Store
    <3> QED BY <3>1, SMT DEF CallInv, TypeOK
  <2>2. CASE ~direct
    BY <1>9, <2>2 DEF SocketCopy, CallInv
  <2> QED BY <2>1, <2>2
<1>10. CASE UNCHANGED vars
  BY <1>10 DEF CallInv, vars, bufVars, callVars
<1> QED BY <1>1, <1>2, <1>3, <1>4, <1>5, <1>6, <1>7, <1>8, <1>9, <1>10 DEF Next

-----------------------------------------------------------------------------
(* Order. *)

\* A copy of n bytes out of the buffer or the netbuf stores the bytes the
\* reader is due, and nothing else of the delivered bytes changes.
LEMMA StoreRun ==
  ASSUME TypeOK, OrderInv, NEW n \in Nat, Len(delivered) + n <= sent,
         NEW bytes, bytes = Run(Len(delivered), n), Store(bytes)
  PROVE  /\ Len(delivered') = Len(delivered) + n
         /\ \A j \in 1 .. Len(delivered') : delivered'[j] = j
<1>1. Len(delivered) \in Nat /\ delivered \in Seq(Nat)
  <2>1. delivered \in Seq(Bytes) /\ Bytes \subseteq Nat
    BY ReadAssumption DEF TypeOK, Bytes
  <2> QED BY <2>1, SeqMonotonic, LenProperties
<1>2. bytes \in Seq(Nat) /\ Len(bytes) = n /\ \A j \in 1 .. n : bytes[j] = Len(delivered) + j
  BY <1>1, RunSeq
<1>3. delivered' = delivered \o bytes
  BY DEF Store
<1>4. /\ Len(delivered') = Len(delivered) + n
      /\ \A j \in 1 .. Len(delivered) + n :
           delivered'[j] = IF j <= Len(delivered) THEN delivered[j]
                           ELSE bytes[j - Len(delivered)]
  <2>1. /\ Len(delivered \o bytes) = Len(delivered) + Len(bytes)
        /\ \A j \in 1 .. Len(delivered) + Len(bytes) :
             (delivered \o bytes)[j] = IF j <= Len(delivered) THEN delivered[j]
                                       ELSE bytes[j - Len(delivered)]
    BY <1>1, <1>2, ConcatProperties, Zenon
  <2> QED BY <2>1, <1>2, <1>3, Zenon
<1>5. ASSUME NEW j \in 1 .. Len(delivered) + n PROVE delivered'[j] = j
  <2>1. CASE j <= Len(delivered)
    BY <2>1, <1>1, <1>4, SMT DEF OrderInv, DeliveredInv
  <2>2. CASE j > Len(delivered)
    <3>1. j - Len(delivered) \in 1 .. n
      BY <2>2, <1>1, SMT
    <3>2. bytes[j - Len(delivered)] = Len(delivered) + (j - Len(delivered))
      BY <3>1, <1>2
    <3> QED BY <2>2, <3>2, <1>1, <1>4, SMT
  <2> QED BY <2>1, <2>2, <1>1, SMT
<1> QED BY <1>4, <1>5

\* A step that leaves the bytes before the mailbox, the mailbox and sent alone.
LEMMA MboxSame ==
  ASSUME MboxInv, Before' = Before, sent' = sent, recvmbox' = recvmbox
  PROVE  MboxInv'
BY DEF MboxInv, Consecutive

\* The bytes stay in order, wherever they are buffered.
LEMMA OrderStep == TypeOK /\ OrderInv /\ CallInv /\ [Next]_vars => OrderInv'
<1> SUFFICES ASSUME TypeOK, OrderInv, CallInv, [Next]_vars PROVE OrderInv'
  OBVIOUS
<1> USE ReadAssumption
<1>a. /\ Len(delivered) \in Nat /\ InBuffer \in Nat /\ InNetbuf \in Nat
      /\ Before \in Nat /\ Before <= sent /\ sent \in Nat
      /\ DeliveredInv /\ BufferInv /\ NetbufInv /\ MboxInv
  BY Due DEF OrderInv, Before, TypeOK
<1>same. ASSUME UNCHANGED <<sent, recvmbox, sockVars, bufVars, delivered>> PROVE OrderInv'
  BY <1>same DEF OrderInv, DeliveredInv, BufferInv, NetbufInv, MboxInv, Before, InBuffer,
                 InNetbuf, Consecutive, sockVars, bufVars
<1>1. ASSUME NEW n \in SegSizes, PeerSend(n) PROVE OrderInv'
  <2> DEFINE N == Len(recvmbox)
             b == [j \in 1 .. n |-> sent + j]
  <2>1. n \in Nat /\ n > 0 /\ N \in Nat
    BY SMT DEF TypeOK
  <2>2. b \in Seq(Nat) /\ Len(b) = n /\ \A j \in 1 .. n : b[j] = sent + j
    BY <2>1, RunSeq DEF Run, TypeOK
  <2>3. b \in Seq(Bytes)
    BY <1>1, SMT DEF TypeOK, PeerSend, Bytes
  <2> HIDE DEF b
  <2>4. recvmbox' = Append(recvmbox, b) /\ sent' = sent + n
    BY <1>1 DEF PeerSend, b
  <2>5. /\ Len(recvmbox') = N + 1
        /\ \A k \in 1 .. N : recvmbox'[k] = recvmbox[k]
        /\ recvmbox'[N + 1] = b
    BY <2>3, <2>4, AppendProperties DEF TypeOK
  <2> HIDE DEF N
  <2>6. DeliveredInv' /\ BufferInv' /\ NetbufInv' /\ Before' = Before
    BY <1>1, <1>a DEF PeerSend, DeliveredInv, BufferInv, NetbufInv, Before, InBuffer, InNetbuf,
                      sockVars, bufVars
  <2>7. Consecutive(b)
    BY <2>1, <2>2, SMT DEF Consecutive, TypeOK
  <2>8. \A k \in 1 .. N + 1 :
          Consecutive(recvmbox'[k]) /\ recvmbox'[k][1] + Len(recvmbox'[k]) <= sent' + 1
    <3> TAKE k \in 1 .. N + 1
    <3>1. CASE k = N + 1
      BY <3>1, <2>1, <2>2, <2>4, <2>5, <2>7, <1>a
    <3>2. CASE k # N + 1
      <4>1. k \in 1 .. N
        BY <3>2, <2>1
      <4>2. /\ recvmbox'[k] = recvmbox[k] /\ Consecutive(recvmbox[k])
            /\ recvmbox[k][1] + Len(recvmbox[k]) <= sent + 1
        BY <4>1, <2>5, <1>a DEF MboxInv, N
      <4>3. recvmbox[k] \in Seq(Bytes) /\ Len(recvmbox[k]) > 0
        BY <4>1, <4>2, ElementOfSeq DEF TypeOK, Consecutive, N
      <4>4. recvmbox[k][1] \in Nat /\ Len(recvmbox[k]) \in Nat
        BY <4>3, SMT DEF Bytes
      <4> QED BY <4>2, <4>4, <2>1, <2>4, <1>a, SMTT(30)
    <3> QED BY <3>1, <3>2
  <2>9. b[1] = sent + 1
    BY <2>1, <2>2
  <2>10. \A k \in 1 .. N : recvmbox'[k + 1][1] = recvmbox'[k][1] + Len(recvmbox'[k])
    <3> TAKE k \in 1 .. N
    <3>1. recvmbox'[k] = recvmbox[k]
      BY <2>5
    <3>2. CASE k = N
      <4>1. recvmbox'[k + 1] = b
        BY <3>2, <2>5
      <4>2. sent + 1 = recvmbox[N][1] + Len(recvmbox[N])
        BY <2>1, <3>2, <1>a DEF MboxInv, N
      <4> QED BY <4>1, <4>2, <3>1, <3>2, <2>9
    <3>3. CASE k # N
      <4>1. k + 1 \in 1 .. N /\ k \in 1 .. N - 1
        BY <3>3, <2>1
      <4>2. recvmbox[k + 1][1] = recvmbox[k][1] + Len(recvmbox[k])
        BY <4>1, <1>a DEF MboxInv, N
      <4>3. recvmbox'[k + 1] = recvmbox[k + 1]
        BY <4>1, <2>5
      <4> QED BY <3>1, <4>2, <4>3
    <3> QED BY <3>2, <3>3
  <2>11. recvmbox'[1][1] = Before + 1
    <3>1. CASE N = 0
      BY <3>1, <2>5, <2>9, <1>a DEF MboxInv, N
    <3>2. CASE N # 0
      <4>1. 1 \in 1 .. N /\ recvmbox[1][1] = Before + 1
        BY <3>2, <2>1, <1>a DEF MboxInv, N
      <4> QED BY <4>1, <2>5
    <3> QED BY <3>1, <3>2
  <2>12. sent' + 1 = recvmbox'[N + 1][1] + Len(recvmbox'[N + 1]) /\ Before <= sent'
    <3>1. recvmbox'[N + 1] = b
      BY <2>5
    <3>2. sent' + 1 = sent + 1 + Len(b) /\ Before <= sent'
      BY <2>1, <2>2, <2>4, <1>a, SMT
    <3> QED BY <3>1, <3>2, <2>9, Zenon
  <2>13. Len(recvmbox') # 0 /\ Len(recvmbox') - 1 = N
    BY <2>1, <2>5
  <2>14. MboxInv'
    BY <2>5, <2>6, <2>8, <2>10, <2>11, <2>12, <2>13, Zenon DEF MboxInv, Consecutive
  <2> QED BY <2>6, <2>14 DEF OrderInv
<1>2. CASE PeerClose
  BY <1>2, <1>same DEF PeerClose
<1>3. ASSUME NEW s \in ReadSizes, Read(s) PROVE OrderInv'
  BY <1>3, <1>same DEF Read
<1>5. CASE ReadBase
  BY <1>5, <1>same DEF ReadBase
<1>6. CASE ReadDone
  BY <1>6, <1>same DEF ReadDone
<1>8. CASE SocketFail
  BY <1>8, <1>same DEF SocketFail
<1>10. CASE UNCHANGED vars
  BY <1>10, <1>same DEF vars
<1>4. CASE CopyFromBuffer
  <2> DEFINE c == CopySize
             b == [j \in 1 .. c |-> m_read_buffer[m_read_buffer_rp + j - 1]]
  <2>1. c \in Nat /\ c <= InBuffer
    BY <1>4, SMT DEF TypeOK, CopySize, AtMost, InBuffer, CopyFromBuffer
  <2> HIDE DEF c
  <2>2. b = Run(Len(delivered), c)
    BY <2>1, Due, SMT
  <2>3. Store(b) /\ m_read_buffer_rp' = m_read_buffer_rp + c
    BY <1>4 DEF CopyFromBuffer, c
  <2>4. UNCHANGED <<m_read_buffer, m_read_buffer_wp, sockVars, recvmbox, sent>>
    BY <1>4 DEF CopyFromBuffer
  <2>5. Len(delivered) + c <= sent
    BY <1>a, <2>1, SMT DEF Before
  <2> HIDE DEF b
  <2>6. Len(delivered') = Len(delivered) + c /\ DeliveredInv'
    BY <2>1, <2>2, <2>3, <2>5, StoreRun DEF DeliveredInv
  <2>7. InBuffer' = InBuffer - c /\ InNetbuf' = InNetbuf
    BY <2>1, <2>3, <2>4, SMT DEF InBuffer, InNetbuf, TypeOK, sockVars
  <2>8. Before' = Before
    BY <1>a, <2>1, <2>6, <2>7, SMT DEF Before
  <2>9. BufferInv'
    <3> SUFFICES ASSUME NEW j \in Slots, m_read_buffer_rp + c <= j, j < m_read_buffer_wp
                 PROVE  m_read_buffer[j] = Len(delivered) + c + 1 + j - (m_read_buffer_rp + c)
      BY <2>3, <2>4, <2>6 DEF BufferInv
    <3>1. m_read_buffer_rp <= j /\ j \in Int /\ m_read_buffer_rp \in Int
      BY <2>1, SMT DEF TypeOK, Slots
    <3>2. m_read_buffer[j] = Len(delivered) + 1 + j - m_read_buffer_rp
      BY <3>1, <1>a, Zenon DEF BufferInv
    <3> QED BY <3>1, <3>2, <1>a, <2>1, SMT
  <2>10. NetbufInv'
    BY <1>a, <2>1, <2>4, <2>6, <2>7, SMT DEF NetbufInv, sockVars, TypeOK
  <2>11. MboxInv'
    BY <1>a, <2>4, <2>8, MboxSame
  <2> QED BY <2>6, <2>9, <2>10, <2>11 DEF OrderInv
<1>7. CASE SocketRecv
  <2> DEFINE h == Head(recvmbox)
  <2>1. recvmbox \in Seq(Seq(Bytes)) /\ recvmbox # <<>>
    BY <1>7 DEF SocketRecv, TypeOK
  <2>2. /\ Len(recvmbox) \in Nat \ {0} /\ h = recvmbox[1] /\ h \in Seq(Bytes)
        /\ Tail(recvmbox) \in Seq(Seq(Bytes)) /\ Len(Tail(recvmbox)) = Len(recvmbox) - 1
        /\ \A k \in 1 .. Len(recvmbox) - 1 : Tail(recvmbox)[k] = recvmbox[k + 1]
    BY <2>1, HeadTailProperties, EmptySeq, SMT
  <2>3. m_recv_buf = NULL /\ m_recv_buf' = h /\ m_recv_buf_offset' = 0 /\ recvmbox' = Tail(recvmbox)
    BY <1>7 DEF SocketRecv
  <2> HIDE DEF h
  <2>4. UNCHANGED <<bufVars, delivered, sent>>
    BY <1>7 DEF SocketRecv
  <2>5. Consecutive(h) /\ h[1] = Before + 1 /\ Len(h) \in Nat
    BY <1>a, <2>2, LenProperties, SMT DEF MboxInv
  <2>6. InNetbuf = 0 /\ InBuffer' = InBuffer /\ h # NULL /\ InNetbuf' = Len(h)
    <3>1. h # NULL
      BY <2>5 DEF Consecutive, NULL
    <3>2. InBuffer' = InBuffer
      BY <2>4 DEF InBuffer, bufVars
    <3> QED BY <3>1, <3>2, <2>3, <2>5, SMT DEF InNetbuf
  <2>7. Before = Len(delivered) + InBuffer /\ Before' = Before + Len(h)
    BY <1>a, <2>4, <2>5, <2>6, SMT DEF Before
  <2>8. DeliveredInv' /\ BufferInv'
    BY <1>a, <2>4 DEF DeliveredInv, BufferInv, bufVars
  <2>9. NetbufInv'
    <3>1. \A j \in 1 .. Len(h) : h[j] = Before + 1 + j - 1
      BY <2>5 DEF Consecutive
    <3>2. \A j \in 1 .. Len(h) : h[j] = Len(delivered) + InBuffer + j - 0
      BY <1>a, <2>5, <2>7, <3>1, SMT
    <3>3. 0 < Len(h)
      BY <2>5 DEF Consecutive
    <3> QED BY <2>3, <2>4, <2>6, <3>2, <3>3, Zenon DEF NetbufInv
  <2>10. MboxInv'
    <3> DEFINE N == Len(recvmbox)
               t == Tail(recvmbox)
    <3>1. \A k \in 1 .. N - 1 : Consecutive(t[k]) /\ t[k][1] + Len(t[k]) <= sent + 1
      BY <1>a, <2>2, SMT DEF MboxInv
    <3>2. \A k \in 1 .. N - 1 - 1 : t[k + 1][1] = t[k][1] + Len(t[k])
      <4> TAKE k \in 1 .. N - 1 - 1
      <4>1. k \in 1 .. N - 1 /\ k + 1 \in 1 .. N - 1
        BY <2>2
      <4>2. t[k] = recvmbox[k + 1] /\ t[k + 1] = recvmbox[k + 1 + 1]
        BY <2>2, <4>1
      <4>3. recvmbox[k + 1 + 1][1] = recvmbox[k + 1][1] + Len(recvmbox[k + 1])
        BY <1>a, <4>1 DEF MboxInv
      <4> QED BY <4>2, <4>3
    <3>3. sent + 1 = recvmbox[N][1] + Len(recvmbox[N])
      BY <1>a, <2>2 DEF MboxInv
    <3>4. N - 1 = 0 => sent = Before'
      <4> SUFFICES ASSUME N - 1 = 0 PROVE sent = Before'
        OBVIOUS
      <4>1. N = 1
        BY <2>2
      <4> QED BY <4>1, <1>a, <2>2, <2>5, <2>7, <3>3, SMT
    <3>5. ASSUME N - 1 > 0
          PROVE  /\ t[1][1] = Before' + 1
                 /\ sent + 1 = t[N - 1][1] + Len(t[N - 1])
      <4>1. 1 \in 1 .. N - 1 /\ N - 1 \in 1 .. N - 1
        BY <2>2, <3>5
      <4>2. t[1] = recvmbox[1 + 1] /\ t[N - 1] = recvmbox[N - 1 + 1]
        BY <2>2, <4>1
      <4>3. recvmbox[1 + 1][1] = h[1] + Len(h)
        BY <1>a, <2>2, <4>1 DEF MboxInv
      <4>4. N - 1 + 1 = N
        BY <2>2
      <4>5. t[1][1] = Before' + 1
        <5>1. t[1][1] = h[1] + Len(h)
          BY <4>2, <4>3, Zenon
        <5> HIDE DEF t
        <5> QED BY <5>1, <2>5, <2>7, <1>a, SMT
      <4>6. t[N - 1] = recvmbox[N]
        BY <4>2, <4>4, Zenon
      <4> QED BY <4>5, <4>6, <3>3, Zenon
    <3>6. Before' <= sent
      <4>1. h[1] + Len(h) <= sent + 1
        BY <1>a, <2>2, SMT DEF MboxInv
      <4> QED BY <4>1, <1>a, <2>5, <2>7, SMT
    <3> QED BY <2>2, <2>3, <2>4, <3>1, <3>2, <3>4, <3>5, <3>6, Zenon DEF MboxInv, Consecutive
  <2> QED BY <2>8, <2>9, <2>10 DEF OrderInv
<1>9. CASE SocketCopy
  <2> DEFINE n == AtMost(want, Len(m_recv_buf) - m_recv_buf_offset)
             bytes == [j \in 1 .. n |-> m_recv_buf[m_recv_buf_offset + j]]
  <2>1. m_recv_buf \in Seq(Bytes) /\ Len(m_recv_buf) \in Nat /\ m_recv_buf # NULL
        /\ m_recv_buf_offset \in Nat /\ m_recv_buf_offset < Len(m_recv_buf)
        /\ want \in Nat /\ InNetbuf = Len(m_recv_buf) - m_recv_buf_offset
    BY <1>9, <1>a, LenProperties DEF TypeOK, NetbufInv, InNetbuf, SocketCopy
  <2>2. n \in Nat /\ n <= want /\ n <= InNetbuf
    BY <2>1, SMT DEF AtMost
  <2>3. /\ m_recv_buf_offset' = m_recv_buf_offset + n
        /\ m_recv_buf' = IF m_recv_buf_offset + n = Len(m_recv_buf) THEN NULL ELSE m_recv_buf
        /\ UNCHANGED <<recvmbox, sent>>
    BY <1>9 DEF SocketCopy, OffsetAfter
  <2>4. InBuffer = 0
    BY <1>9, SMT DEF SocketCopy, CallInv, InBuffer, TypeOK
  <2> HIDE DEF n
  <2>5. bytes = Run(Len(delivered), n)
    <3>1. n \in 0 .. InNetbuf
      BY <2>2, <1>a
    <3>2. bytes = Run(Len(delivered) + InBuffer, n)
      BY <3>1, Due, Zenon
    <3> QED BY <3>2, <2>4, <1>a, SMT
  <2>6. InNetbuf' = InNetbuf - n
    <3>1. CASE m_recv_buf_offset + n = Len(m_recv_buf)
      <4>1. InNetbuf' = 0
        BY <2>3, <3>1 DEF InNetbuf
      <4> QED BY <4>1, <2>1, <2>2, <3>1
    <3>2. CASE m_recv_buf_offset + n # Len(m_recv_buf)
      <4>1. m_recv_buf' = m_recv_buf
        BY <2>3, <3>2
      <4>2. InNetbuf' = Len(m_recv_buf) - (m_recv_buf_offset + n)
        BY <4>1, <2>1, <2>3, Zenon DEF InNetbuf
      <4> QED BY <4>2, <2>1, <2>2
    <3> QED BY <3>1, <3>2
  <2>7. \A j \in 1 .. Len(m_recv_buf) : m_recv_buf_offset < j =>
          m_recv_buf[j] = Len(delivered) + 0 + j - m_recv_buf_offset
    BY <1>a, <2>1, <2>4, Zenon DEF NetbufInv
  <2>8. ASSUME Len(delivered') + InBuffer' = Len(delivered) + n PROVE NetbufInv'
    <3>1. SUFFICES ASSUME m_recv_buf_offset + n # Len(m_recv_buf)
                   PROVE  NetbufInv'
      BY <2>3 DEF NetbufInv
    <3>2. m_recv_buf' = m_recv_buf /\ m_recv_buf_offset + n < Len(m_recv_buf)
      BY <2>1, <2>2, <2>3, <3>1, SMT
    <3>3. ASSUME NEW j \in 1 .. Len(m_recv_buf), m_recv_buf_offset + n < j
          PROVE  m_recv_buf[j] = Len(delivered') + InBuffer' + j - (m_recv_buf_offset + n)
      <4>1. m_recv_buf_offset < j
        BY <3>3, <2>1, <2>2, SMT
      <4>2. m_recv_buf[j] = Len(delivered) + 0 + j - m_recv_buf_offset
        BY <4>1, <2>7
      <4>3. m_recv_buf[j] = Len(delivered) + n + j - (m_recv_buf_offset + n)
        BY <4>2, <1>a, <2>1, <2>2, SMT
      <4> QED BY <4>3, <2>8, Zenon
    <3> QED BY <2>3, <3>2, <3>3, Zenon DEF NetbufInv
  <2> HIDE DEF bytes
  <2>9. CASE direct
    <3>1. Store(bytes) /\ UNCHANGED bufVars
      BY <1>9, <2>9 DEF SocketCopy, n, bytes
    <3>2. Len(delivered) + n <= sent
      BY <1>a, <2>2, <2>4, SMT DEF Before
    <3>3. Len(delivered') = Len(delivered) + n /\ DeliveredInv'
      BY <2>2, <2>5, <3>1, <3>2, StoreRun DEF DeliveredInv
    <3>4. InBuffer' = 0 /\ m_read_buffer_wp' = m_read_buffer_rp'
      BY <2>4, <3>1, SMT DEF InBuffer, bufVars, TypeOK
    <3>5. BufferInv'
      BY <3>1, <3>4, SMT DEF BufferInv, bufVars, TypeOK, Slots
    <3>6. NetbufInv'
      BY <2>2, <2>8, <3>3, <3>4, <1>a
    <3>7. Before' = Before
      BY <1>a, <2>2, <2>4, <2>6, <3>3, <3>4, SMT DEF Before
    <3> QED BY <1>a, <2>3, <3>3, <3>5, <3>6, <3>7, MboxSame DEF OrderInv
  <2>10. CASE ~direct
    <3>1. /\ m_read_buffer' = [j \in Slots |-> IF j < n THEN bytes[j + 1] ELSE m_read_buffer[j]]
          /\ m_read_buffer_rp' = 0 /\ m_read_buffer_wp' = n /\ delivered' = delivered
      BY <1>9, <2>10 DEF SocketCopy, n, bytes
    <3>2. InBuffer' = n
      BY <3>1, <2>2 DEF InBuffer
    <3>3. BufferInv'
      <4>1. \A j \in 1 .. n : bytes[j] = Len(delivered) + j
        BY <2>2, <2>5, <1>a, RunSeq
      <4>2. ASSUME NEW j \in Slots, j < n
            PROVE  m_read_buffer'[j] = Len(delivered) + 1 + j - 0
        <5>1. j + 1 \in 1 .. n /\ j \in Int
          BY <4>2, <2>2, SMT DEF Slots
        <5>2. bytes[j + 1] = Len(delivered) + (j + 1)
          BY <4>1, <5>1
        <5>3. m_read_buffer'[j] = bytes[j + 1]
          BY <3>1, <4>2
        <5> QED BY <5>1, <5>2, <5>3, <1>a, SMT
      <4> QED BY <3>1, <4>2, Zenon DEF BufferInv
    <3>4. NetbufInv'
      BY <2>8, <3>1, <3>2
    <3>5. Before' = Before
      BY <1>a, <2>2, <2>4, <2>6, <3>1, <3>2, SMT DEF Before
    <3>6. DeliveredInv'
      BY <1>a, <3>1 DEF DeliveredInv
    <3> QED BY <1>a, <2>3, <3>3, <3>4, <3>5, <3>6, MboxSame DEF OrderInv
  <2> QED BY <2>9, <2>10
<1> QED BY <1>1, <1>2, <1>3, <1>4, <1>5, <1>6, <1>7, <1>8, <1>9, <1>10 DEF Next

-----------------------------------------------------------------------------
(* The theorems. *)

ReadInv == TypeOK /\ OrderInv /\ CallInv

\* The invariant holds before the first segment and the first call.
LEMMA ReadInvInit == Init => ReadInv
<1> SUFFICES ASSUME Init PROVE ReadInv
  OBVIOUS
<1> USE ReadAssumption
<1>1. TypeOK
  <2>1. recvmbox \in Seq(Seq(Bytes)) /\ m_recv_buf \in Seq(Bytes) /\ delivered \in Seq(Bytes)
    BY EmptySeq DEF Init, NULL
  <2>2. m_read_buffer \in [Slots -> Bytes \cup {Stale}]
    BY DEF Init
  <2>3. 0 \in 0 .. MaxBytes /\ 0 \in 0 .. BufferSize /\ 0 \in 0 .. 0 /\ 0 \in Nat
        /\ 0 \in 0 .. WordSize - 1
    BY SMT
  <2>4. FALSE \in BOOLEAN
    OBVIOUS
  <2> QED BY <2>1, <2>2, <2>3, <2>4, Zenon DEF Init, TypeOK
<1>2. InBuffer = 0 /\ InNetbuf = 0 /\ Len(delivered) = 0 /\ Len(recvmbox) = 0
  BY SMT DEF Init, InBuffer, InNetbuf
<1>3. Before = 0
  BY <1>2 DEF Before
<1>4. OrderInv
  BY <1>2, <1>3, SMT DEF Init, OrderInv, DeliveredInv, BufferInv, NetbufInv, MboxInv, Slots
<1>5. CallInv
  BY DEF Init, CallInv
<1> QED BY <1>1, <1>4, <1>5 DEF ReadInv

\* Every behaviour of the reader keeps the invariant.
LEMMA ReadInvHolds == Spec => []ReadInv
<1>1. Init => ReadInv
  BY ReadInvInit
<1>2. ReadInv /\ [Next]_vars => ReadInv'
  BY TypeStep, OrderStep, CallStep DEF ReadInv
<1> QED BY <1>1, <1>2, PTL DEF Spec

\* The variables of BufferedStream::read and Socket::recv_from keep their types,
\* the positions in the read buffer included, for every size of buffer, segments
\* and reads.
THEOREM ReadTypeCorrect == Spec => []TypeOK
<1>1. ReadInv => TypeOK
  BY DEF ReadInv
<1> QED BY <1>1, ReadInvHolds, PTL

\* Reads in one piece stay exact.
LEMMA OnePieceStep == ReadInv /\ OnePieceExact /\ [Next]_vars => OnePieceExact'
<1> SUFFICES ASSUME ReadInv, OnePieceExact, [Next]_vars PROVE OnePieceExact'
  OBVIOUS
<1> USE ReadAssumption
<1>a. TypeOK /\ OrderInv /\ CallInv
  BY DEF ReadInv
<1>same. ASSUME UNCHANGED callVars PROVE OnePieceExact'
  BY <1>same DEF OnePieceExact, callVars
<1>1. ASSUME NEW n \in SegSizes, PeerSend(n) PROVE OnePieceExact'
  BY <1>1, <1>same DEF PeerSend
<1>2. CASE PeerClose
  BY <1>2, <1>same DEF PeerClose
<1>3. ASSUME NEW s \in ReadSizes, Read(s) PROVE OnePieceExact'
  BY <1>3 DEF Read, OnePieceExact
<1>4. CASE CopyFromBuffer
  <2>1. CopySize \in Nat /\ CopySize <= size
    BY <1>4, <1>a, SMT DEF TypeOK, CopySize, AtMost, CopyFromBuffer
  <2>2. copies' = copies + 1 /\ pc' = IF stored + CopySize > size THEN "overrun" ELSE "loop"
    BY <1>4 DEF CopyFromBuffer, Store
  <2>3. copies' <= 1 => stored = 0
    BY <2>2, <1>a, SMT DEF TypeOK, CallInv
  <2>4. copies' <= 1 => pc' = "loop"
    BY <2>1, <2>2, <2>3, <1>a, SMT DEF TypeOK
  <2> QED BY <2>4 DEF OnePieceExact
<1>5. CASE ReadBase
  BY <1>5 DEF ReadBase, OnePieceExact
<1>6. CASE ReadDone
  <2>1. pc = "loop" /\ remain_size = 0 /\ val' = size /\ pc' = "idle" /\ UNCHANGED <<stored, copies>>
    BY <1>6 DEF ReadDone
  <2>2. copies <= 1 => stored = size
    BY <2>1, <1>a, SMT DEF CallInv, TypeOK
  <2> QED BY <2>1, <2>2 DEF OnePieceExact
<1>7. CASE SocketRecv
  BY <1>7, <1>same DEF SocketRecv
<1>8. CASE SocketFail
  <2>1. /\ pc = "recv" /\ pc' = "idle" /\ ret' = "failed" /\ UNCHANGED <<size, stored, copies>>
        /\ val' = IF direct THEN 0 ELSE Minus(size, remain_size)
    BY <1>8 DEF SocketFail
  <2>2. copies <= 1 => remain_size + stored = size
    BY <2>1, <1>a DEF CallInv
  <2>3. CASE direct
    <3>1. remain_size > BufferSize
      BY <2>1, <2>3, <1>a DEF CallInv
    <3>2. copies <= 1 => ~(size <= BufferSize)
      BY <2>2, <3>1, <1>a, SMT DEF TypeOK
    <3> QED BY <2>1, <3>2 DEF OnePieceExact
  <2>4. CASE ~direct
    <3>1. copies <= 1 => Minus(size, remain_size) = stored
      BY <2>2, <1>a, SMT DEF Minus, TypeOK
    <3> QED BY <2>1, <2>4, <3>1 DEF OnePieceExact
  <2> QED BY <2>3, <2>4
<1>9. CASE SocketCopy
  <2>1. CASE ~direct
    BY <1>9, <2>1 DEF SocketCopy, OnePieceExact
  <2>2. CASE direct
    <3> DEFINE n == AtMost(want, Len(m_recv_buf) - m_recv_buf_offset)
               bytes == [j \in 1 .. n |-> m_recv_buf[m_recv_buf_offset + j]]
    <3>1. Len(m_recv_buf) \in Nat /\ m_recv_buf_offset \in Nat /\ want \in Nat
          /\ m_recv_buf_offset < Len(m_recv_buf)
      BY <1>9, <1>a, LenProperties DEF TypeOK, OrderInv, NetbufInv, SocketCopy
    <3>2. n \in Nat /\ n <= want
      BY <3>1, SMT DEF AtMost
    <3>3. /\ pc' = IF stored + n > size THEN "overrun" ELSE "idle"
          /\ val' = n /\ Store(bytes) /\ size' = size /\ pc = "recv"
      BY <1>9, <2>2 DEF SocketCopy
    <3> HIDE DEF n
    <3>4. stored' = stored + n /\ copies' = copies + 1
      <4>1. Len(bytes) = n
        BY <3>2, SMT
      <4> QED BY <3>3, <4>1 DEF Store
    <3>5. copies' <= 1 => stored = 0 /\ want = size
      BY <3>3, <3>4, <2>2, <1>a, SMT DEF TypeOK, CallInv
    <3>6. copies' <= 1 => pc' = "idle" /\ stored' = val'
      BY <3>2, <3>3, <3>4, <3>5, <1>a, SMT DEF TypeOK
    <3> QED BY <3>6 DEF OnePieceExact
  <2> QED BY <2>1, <2>2
<1>10. CASE UNCHANGED vars
  BY <1>10, <1>same DEF vars
<1> QED BY <1>1, <1>2, <1>3, <1>4, <1>5, <1>6, <1>7, <1>8, <1>9, <1>10 DEF Next

\* A read() that is served in one piece stores no more than was asked for and
\* returns the number of bytes it stored. The one-byte reads of read_line are
\* of this kind.
THEOREM OnePieceExactHolds == Spec => []OnePieceExact
<1>1. Init => OnePieceExact
  BY DEF Init, OnePieceExact
<1>2. ReadInv /\ OnePieceExact /\ [Next]_vars => OnePieceExact'
  BY OnePieceStep
<1> QED BY <1>1, <1>2, ReadInvHolds, PTL DEF Spec

\* The n bytes due make the step of the abstract stream.
LEMMA DeliverStep ==
  ASSUME ReadInv, NEW n \in Nat, n > 0, Len(delivered) + n <= sent,
         NEW bytes, bytes = Run(Len(delivered), n), Store(bytes), sent' = sent
  PROVE  Stream!Deliver(n) /\ n \in 1 .. MaxBytes
<1> DEFINE a == Len(delivered)
           m == sent - a
<1>1. a \in Nat /\ m \in Nat /\ sent \in Nat /\ n \in 0 .. m /\ n \in 1 .. MaxBytes
  <2>1. Len(delivered) \in Nat
    BY Due DEF ReadInv
  <2>2. sent \in 0 .. MaxBytes /\ MaxBytes \in Nat
    BY ReadAssumption DEF ReadInv, TypeOK
  <2> QED BY <2>1, <2>2, SMT
<1>2. Len(delivered') = a + n
  BY StoreRun DEF ReadInv
<1>3. InTransit = Run(a, m)
  BY DEF InTransit, Run
<1>4. InTransit' = Run(a + n, sent - (a + n))
  BY <1>2 DEF InTransit, Run
<1> HIDE DEF a
<1>5. Len(InTransit) = m
  BY <1>1, <1>3, RunSeq
<1>6. SubSeq(InTransit, 1, n) = bytes
  BY <1>1, <1>3, RunCut DEF a
<1>7. sent - (a + n) = m - n
  BY <1>1
<1>8. SubSeq(InTransit, n + 1, Len(InTransit)) = InTransit'
  <2>1. SubSeq(Run(a, m), n + 1, m) = Run(a + n, m - n)
    BY <1>1, RunCut, Zenon
  <2> QED BY <2>1, <1>3, <1>4, <1>5, <1>7, Zenon
<1>9. delivered' = delivered \o SubSeq(InTransit, 1, n)
  BY <1>6 DEF Store
<1>10. n <= Len(InTransit)
  BY <1>1, <1>5
<1> QED BY <1>1, <1>8, <1>9, <1>10 DEF Stream!Deliver

\* Every step of the reader is a step of the abstract stream, or none.
LEMMA StreamStep == ReadInv /\ [Next]_vars => [Stream!Next]_(Stream!vars)
<1> SUFFICES ASSUME ReadInv, [Next]_vars PROVE [Stream!Next]_(Stream!vars)
  OBVIOUS
<1> USE ReadAssumption
<1>a. TypeOK /\ OrderInv /\ CallInv
  BY DEF ReadInv
<1>b. Len(delivered) \in Nat /\ InBuffer \in Nat /\ InNetbuf \in Nat /\ sent \in Nat /\ Before <= sent
  BY <1>a, Due DEF TypeOK
<1>same. ASSUME UNCHANGED <<sent, delivered>> PROVE UNCHANGED Stream!vars
  BY <1>same DEF Stream!vars, InTransit
<1>1. ASSUME NEW n \in SegSizes, PeerSend(n) PROVE Stream!Next
  <2> DEFINE a == Len(delivered)
             m == sent - a
  <2>1. sent' = sent + n /\ delivered' = delivered /\ sent + n <= MaxBytes
    BY <1>1 DEF PeerSend
  <2>2. n \in Nat /\ n > 0 /\ a \in Nat /\ m \in Nat /\ a + m = sent
    BY <1>b, SMT DEF Before
  <2>3. InTransit = Run(a, m)
    BY DEF InTransit, Run
  <2>4. InTransit' = Run(a, (sent + n) - a)
    <3>1. Len(delivered)' = Len(delivered)
      BY <2>1
    <3>2. InTransit' = [j \in 1 .. (sent + n) - Len(delivered) |-> Len(delivered) + j]
      BY <2>1, <3>1, Zenon DEF InTransit
    <3> QED BY <3>2, Zenon DEF Run
  <2> HIDE DEF a
  <2>5. Len(InTransit) = m
    BY <2>2, <2>3, RunSeq
  <2>6. InTransit' = Run(a, m + n)
    <3>1. (sent + n) - a = m + n
      BY <2>2, <1>b
    <3> QED BY <2>4, <3>1
  <2>7. InTransit' = InTransit \o Run(a + m, n)
    <3> HIDE DEF m
    <3>1. Run(a, m) \o Run(a + m, n) = Run(a, m + n)
      BY <2>2, RunConcat, Zenon
    <3> QED BY <2>3, <2>6, <3>1, Zenon
  <2>8. Run(a + m, n) = [j \in 1 .. n |-> Len(delivered) + Len(InTransit) + j]
    BY <2>5 DEF Run, a
  <2>9. Len(delivered) + Len(InTransit) + n <= MaxBytes
    BY <2>1, <2>2, <2>5 DEF a
  <2>10. Stream!Send(n)
    BY <2>1, <2>7, <2>8, <2>9, Zenon DEF Stream!Send
  <2>11. n \in 1 .. MaxBytes
    BY <2>1, <2>2, <1>b
  <2> QED BY <2>10, <2>11 DEF Stream!Next
<1>2. CASE PeerClose
  BY <1>2, <1>same DEF PeerClose
<1>3. ASSUME NEW s \in ReadSizes, Read(s) PROVE UNCHANGED Stream!vars
  BY <1>3, <1>same DEF Read
<1>4. CASE CopyFromBuffer
  <2> DEFINE n == CopySize
             b == [j \in 1 .. n |-> m_read_buffer[m_read_buffer_rp + j - 1]]
  <2>1. n \in Nat /\ n <= InBuffer /\ n > 0
    BY <1>4, <1>a, SMT DEF TypeOK, CallInv, CopySize, AtMost, InBuffer, CopyFromBuffer
  <2>2. Store(b) /\ sent' = sent
    BY <1>4 DEF CopyFromBuffer
  <2> HIDE DEF n
  <2>3. b = Run(Len(delivered), n)
    <3>1. n \in 0 .. InBuffer
      BY <2>1, <1>b, SMT
    <3> QED BY <1>a, <3>1, Due, Zenon
  <2> HIDE DEF b
  <2>4. Len(delivered) + n <= sent
    BY <1>b, <2>1, SMT DEF Before
  <2>5. Stream!Deliver(n) /\ n \in 1 .. MaxBytes
    BY <2>1, <2>2, <2>3, <2>4, DeliverStep
  <2> QED BY <2>5 DEF Stream!Next
<1>5. CASE ReadBase
  BY <1>5, <1>same DEF ReadBase
<1>6. CASE ReadDone
  BY <1>6, <1>same DEF ReadDone
<1>7. CASE SocketRecv
  BY <1>7, <1>same DEF SocketRecv
<1>8. CASE SocketFail
  BY <1>8, <1>same DEF SocketFail
<1>9. CASE SocketCopy
  <2>1. CASE ~direct
    BY <1>9, <2>1, <1>same DEF SocketCopy
  <2>2. CASE direct
    <3> DEFINE n == AtMost(want, Len(m_recv_buf) - m_recv_buf_offset)
               b == [j \in 1 .. n |-> m_recv_buf[m_recv_buf_offset + j]]
    <3>1. /\ Len(m_recv_buf) \in Nat /\ m_recv_buf_offset \in Nat
          /\ want \in Nat /\ want > 0 /\ InBuffer = 0
          /\ m_recv_buf_offset < Len(m_recv_buf)
          /\ InNetbuf = Len(m_recv_buf) - m_recv_buf_offset
      <4>1. pc = "recv" /\ m_recv_buf # NULL
        BY <1>9 DEF SocketCopy
      <4>2. want = remain_size /\ remain_size > 0 /\ m_read_buffer_wp = m_read_buffer_rp
        BY <4>1, <2>2, <1>a DEF CallInv
      <4>3. InBuffer = 0 /\ want \in Nat /\ want > 0
        BY <4>2, <1>a, SMT DEF InBuffer, TypeOK
      <4> QED BY <4>1, <4>3, <1>a, LenProperties DEF TypeOK, OrderInv, NetbufInv, InNetbuf
    <3>2. n \in Nat /\ n > 0 /\ n <= InNetbuf
      BY <3>1, SMT DEF AtMost
    <3>3. Store(b) /\ sent' = sent
      BY <1>9, <2>2 DEF SocketCopy
    <3> HIDE DEF n
    <3>4. b = Run(Len(delivered), n)
      <4>1. n \in 0 .. InNetbuf
        BY <3>2, <1>b
      <4>2. b = Run(Len(delivered) + InBuffer, n)
        BY <4>1, <1>a, Due, Zenon
      <4> QED BY <4>2, <3>1, <1>b, SMT
    <3> HIDE DEF b
    <3>5. Len(delivered) + n <= sent
      BY <1>b, <3>1, <3>2, SMT DEF Before
    <3>6. Stream!Deliver(n) /\ n \in 1 .. MaxBytes
      BY <3>2, <3>3, <3>4, <3>5, DeliverStep
    <3> QED BY <3>6 DEF Stream!Next
  <2> QED BY <2>1, <2>2
<1>10. CASE UNCHANGED vars
  BY <1>10, <1>same DEF vars
<1> QED BY <1>1, <1>2, <1>3, <1>4, <1>5, <1>6, <1>7, <1>8, <1>9, <1>10 DEF Next

\* BufferedStream::read over Socket::recv_from implements the byte stream: for
\* every size of buffer, segments and reads, and wherever reads fail, the bytes
\* of the peer are delivered in order, each once.
THEOREM InOrderHolds == Spec => InOrder
<1>1. Init => Stream!Init
  <2>1. ASSUME Init PROVE InTransit = <<>> /\ delivered = <<>>
    <3>1. delivered = <<>> /\ sent = 0 /\ Len(delivered) = 0
      BY <2>1 DEF Init
    <3>2. 1 .. sent - Len(delivered) = {}
      BY <3>1, SMT
    <3> QED BY <3>1, <3>2 DEF InTransit
  <2> QED BY <2>1 DEF Stream!Init
<1>2. ReadInv /\ [Next]_vars => [Stream!Next]_(Stream!vars)
  BY StreamStep
<1> QED BY <1>1, <1>2, ReadInvHolds, PTL DEF Spec, InOrder, Stream!Spec
=============================================================================
