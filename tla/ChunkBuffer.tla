----------------------------- MODULE ChunkBuffer -----------------------------
(***************************************************************************)
(* The body of a response: HttpListenerResponseStream writes it into a     *)
(* ChunkBuffer, a list of chunks of equal size, and write_response sends   *)
(* it with a ChunkBufferEnumerator after the length of all of it. Bytes    *)
(* are numbered as they are handed to write(). Chunk k is the k-th that is *)
(* allocated.                                                              *)
(***************************************************************************)
EXTENDS Naturals, Sequences

CONSTANTS
  ChunkSize,   \* m_chunk_size, 512 in the code
  WriteSizes,  \* lengths write() is called with
  MaxBytes,    \* bound: bytes handed to write() for one response
  MaxChunks    \* chunks for which there is memory

ASSUME ChunkAssumption ==
  /\ ChunkSize \in Nat \ {0}
  /\ WriteSizes \subseteq Nat
  /\ MaxBytes \in Nat
  /\ MaxChunks \in Nat

VARIABLES
  pc,
  live,      \* the chunks that are allocated
  buffer,    \* m_buffer of each chunk
  m_next,    \* m_next of each chunk
  m_first_chunk, m_current_chunk, m_current_chunk_pos, m_total_size,
  remain,    \* write(): bytes left to copy
  given,     \* bytes handed to write() so far
  at,        \* the chunk the enumerator, or dispose(), has come to
  length,    \* what the Content-Length header said
  sent,      \* body bytes sent after the header
  stored,    \* history: bytes write() has copied
  oom        \* history: an allocation has failed

listVars == <<live, buffer, m_next, m_first_chunk, m_current_chunk, m_current_chunk_pos,
              m_total_size>>
sendVars == <<length, sent>>
vars == <<pc, listVars, remain, given, at, sendVars, stored, oom>>

Nullptr == 0
Wild == MaxChunks + 1  \* a pointer that was never set and is not null
Chunks == 1 .. MaxChunks
Slots == 0 .. ChunkSize - 1
Stale == 0             \* what new memory holds, as a byte

Init ==
  /\ pc = "new"
  /\ live = {}
  /\ buffer = [k \in Chunks |-> [j \in Slots |-> Stale]]
  /\ m_next = [k \in Chunks |-> Wild]
  /\ m_first_chunk = Nullptr /\ m_current_chunk = Nullptr
  /\ m_current_chunk_pos = 0 /\ m_total_size = 0
  /\ remain = 0 /\ given = 0 /\ at = Nullptr
  /\ length = 0 /\ sent = <<>> /\ stored = <<>> /\ oom = FALSE

----------------------------------------------------------------------------
(* ChunkBuffer::init and write *)

\* The m_next of the first chunk.
FirstNextUnset == m_next' \in {[m_next EXCEPT ![1] = p] : p \in {Nullptr, Wild}}  \* defect
FirstNext == m_next' = [m_next EXCEPT ![1] = Nullptr]

\* HttpListenerResponseStream::create for a new context. It does not look at
\* the result of init(), which leaves the pointers null when memory is short.
Create ==
  /\ pc = "new"
  /\ \/ /\ MaxChunks > 0
        /\ live' = {1}
        /\ FirstNext
        /\ m_first_chunk' = 1 /\ m_current_chunk' = 1
        /\ oom' = FALSE
     \/ /\ oom' = TRUE
        /\ m_first_chunk' = Nullptr /\ m_current_chunk' = Nullptr
        /\ UNCHANGED <<live, m_next>>
  /\ m_current_chunk_pos' = 0 /\ m_total_size' = 0
  /\ given' = 0 /\ remain' = 0 /\ at' = Nullptr
  /\ length' = 0 /\ sent' = <<>> /\ stored' = <<>>
  /\ pc' = "open"
  /\ UNCHANGED buffer

\* write(data, n) is called.
Write(n) ==
  /\ pc = "open"
  /\ given + n <= MaxBytes
  /\ given' = given + n
  /\ remain' = n
  /\ pc' = "write"
  /\ UNCHANGED <<listVars, at, sendVars, stored, oom>>

\* copy_size.
CopySize == LET room == ChunkSize - m_current_chunk_pos
            IN IF remain > room THEN room ELSE remain

\* Bytes are copied to the current chunk. Without one the copy goes to a null
\* address, after which nothing more is said.
Copy ==
  /\ pc = "write"
  /\ remain > 0 /\ m_current_chunk_pos # ChunkSize
  /\ \/ /\ m_current_chunk = Nullptr
        /\ pc' = "wild"
        /\ UNCHANGED <<buffer, remain, m_current_chunk_pos, m_total_size, stored>>
     \/ /\ m_current_chunk # Nullptr
        /\ buffer' = [buffer EXCEPT ![m_current_chunk] =
             [j \in Slots |-> IF m_current_chunk_pos <= j /\ j < m_current_chunk_pos + CopySize
                              THEN given - remain + 1 + j - m_current_chunk_pos
                              ELSE @[j]]]
        /\ stored' = stored \o [j \in 1 .. CopySize |-> given - remain + j]
        /\ remain' = remain - CopySize
        /\ m_current_chunk_pos' = m_current_chunk_pos + CopySize
        /\ m_total_size' = m_total_size + CopySize
        /\ UNCHANGED pc
  /\ UNCHANGED <<live, m_next, m_first_chunk, m_current_chunk, given, at, sendVars, oom>>

\* The current chunk is full and another one is linked behind it. Its own
\* m_next is whatever the memory held.
NewChunk ==
  /\ pc = "write"
  /\ remain > 0 /\ m_current_chunk_pos = ChunkSize
  /\ m_current_chunk < MaxChunks
  /\ \E stale \in {Nullptr, Wild} :
       m_next' = [m_next EXCEPT ![m_current_chunk] = m_current_chunk + 1,
                                ![m_current_chunk + 1] = stale]
  /\ live' = live \cup {m_current_chunk + 1}
  /\ m_current_chunk' = m_current_chunk + 1
  /\ m_current_chunk_pos' = 0
  /\ UNCHANGED <<pc, buffer, m_first_chunk, m_total_size, remain, given, at, sendVars, stored, oom>>

\* There is no memory for it: the rest of the write is given up. operator new
\* is not noexcept, so the test for a null result may have been compiled away.
NewChunkFail ==
  /\ pc = "write"
  /\ remain > 0 /\ m_current_chunk_pos = ChunkSize
  /\ oom' = TRUE
  /\ remain' = 0
  /\ pc' \in {"open", "wild"}
  /\ UNCHANGED <<listVars, given, at, sendVars, stored>>

WriteDone ==
  /\ pc = "write"
  /\ remain = 0
  /\ pc' = "open"
  /\ UNCHANGED <<listVars, remain, given, at, sendVars, stored, oom>>

----------------------------------------------------------------------------
(* HttpListenerResponse::write_response and the enumerator *)

\* The head, with get_total_size(), has been written; the enumerator starts.
WriteHead ==
  /\ pc = "open"
  /\ length' = m_total_size
  /\ at' = m_first_chunk
  /\ pc' = "enum"
  /\ UNCHANGED <<listVars, remain, given, sent, stored, oom>>

\* The connection fails in the head or in the body: write_response returns and
\* the destructor disposes of the chunks.
WriteFail ==
  /\ pc \in {"open", "enum"}
  /\ at' = m_first_chunk
  /\ pc' = "dispose"
  /\ UNCHANGED <<listVars, remain, given, sendVars, stored, oom>>

\* The last chunk is filled up to m_current_chunk_pos.
DataSizeFull == ChunkSize  \* defect: the last chunk is sent whole
get_data_size == IF at = m_current_chunk THEN m_current_chunk_pos ELSE ChunkSize

\* One chunk is sent and the enumerator moves on.
SendChunk ==
  /\ pc = "enum"
  /\ at \in Chunks
  /\ sent' = sent \o [j \in 1 .. get_data_size |-> buffer[at][j - 1]]
  /\ at' = m_next[at]
  /\ UNCHANGED <<pc, listVars, remain, given, length, stored, oom>>

\* A pointer that was never set is followed, by the enumerator or by dispose().
FollowWild ==
  /\ pc \in {"enum", "dispose"}
  /\ at = Wild
  /\ pc' = "wild"
  /\ UNCHANGED <<listVars, remain, given, at, sendVars, stored, oom>>

\* is_end(): the body is sent, and its chunks are disposed of.
EnumEnd ==
  /\ pc = "enum"
  /\ at = Nullptr
  /\ at' = m_first_chunk
  /\ pc' = "dispose"
  /\ UNCHANGED <<listVars, remain, given, sendVars, stored, oom>>

\* dispose() deletes one chunk; it has read the link to the next before.
DisposeFirstOnly == at' = Nullptr  \* defect: only the first chunk is deleted
DisposeNext == at' = m_next[at]

Dispose ==
  /\ pc = "dispose"
  /\ at \in Chunks
  /\ live' = live \ {at}
  /\ DisposeNext
  /\ pc' = IF at \in live THEN pc ELSE "wild"
  /\ UNCHANGED <<buffer, m_next, m_first_chunk, m_current_chunk, m_current_chunk_pos,
                 m_total_size, remain, given, sendVars, stored, oom>>

DisposeEnd ==
  /\ pc = "dispose"
  /\ at = Nullptr
  /\ m_first_chunk' = Nullptr /\ m_current_chunk' = Nullptr
  /\ pc' = "new"
  /\ UNCHANGED <<live, buffer, m_next, m_current_chunk_pos, m_total_size, remain, given, at,
                 sendVars, stored, oom>>

----------------------------------------------------------------------------
Next ==
  \/ Create \/ Copy \/ NewChunk \/ NewChunkFail \/ WriteDone
  \/ \E n \in WriteSizes : Write(n)
  \/ WriteHead \/ WriteFail \/ SendChunk \/ FollowWild \/ EnumEnd
  \/ Dispose \/ DisposeEnd

Spec == Init /\ [][Next]_vars

----------------------------------------------------------------------------
(* Properties. *)

\* When the enumerator has come to the end, the bytes that were sent are those
\* that write() had copied, in order, and the Content-Length header gave their
\* number, whatever the sizes of the writes, and also when a write ran out of
\* memory half way.
LengthRight ==
  pc = "enum" /\ at = Nullptr => sent = stored /\ length = Len(sent)

\* A pointer that was never set, or null, is followed only for a body longer
\* than a chunk or after a failed allocation: the answers of Httpd::run, which
\* fit a chunk, are safe while there is memory.
SmallBodySafe == pc = "wild" => given > ChunkSize \/ oom

\* When a context has ended, all its chunks have been deleted, wherever the
\* response failed.
AllFreed == pc = "new" => live = {}
=============================================================================
