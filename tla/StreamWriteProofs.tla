-------------------------- MODULE StreamWriteProofs --------------------------
(***************************************************************************)
(* Proofs about StreamWrite: whatever writes of the base stream end half   *)
(* done or fail, no promised byte is lost unless a flush is cut short by a *)
(* send timeout, and none is repeated or out of order unless a route is    *)
(* lost under a flush.                                                     *)
(***************************************************************************)
EXTENDS StreamWrite, SequenceTheorems, TLAPS

\* A flush writes the buffer, a direct write leaves it empty; a write that still
\* goes on is on a live connection; the write behind a flush fits MaxBytes.
CallInv ==
  /\ pc = "flush" => data = m_write_buffer /\ numbered + then <= MaxBytes
  /\ pc = "direct" => m_write_buffer = <<>>
  /\ Writing => up

\* The first write_offset bytes of the write under way are with TCP.
HandedInv ==
  pc # "idle" => \A i \in 1 .. write_offset : \E j \in 1 .. Len(wire) : wire[j] = data[i]

Increasing(s) == \A i, j \in 1 .. Len(s) : i < j => s[i] < s[j]
UpTo(s, n) == \A i \in 1 .. Len(s) : s[i] <= n

\* Every byte has been numbered.
NumberInv == UpTo(wire, numbered) /\ UpTo(m_write_buffer, numbered) /\ UpTo(data, numbered)

\* A flush has been cut short by a send timeout; a route was lost under one.
Cut == "timeout" \in mishaps
Rerouted == "route" \in mishaps

\* Mishaps are only added.
MishapsGrow == mishaps \subseteq mishaps' /\ mishaps' \subseteq {"timeout", "route"}

\* The bytes still to be handed over are later than those TCP has.
OrderInv ==
  ~Rerouted =>
    /\ Increasing(wire) /\ Increasing(m_write_buffer) /\ Increasing(data)
    /\ up /\ pc = "idle" =>
         \A i \in 1 .. Len(wire), j \in 1 .. Len(m_write_buffer) : wire[i] < m_write_buffer[j]
    /\ pc # "idle" =>
         \A i \in 1 .. Len(wire), j \in 1 .. Len(data) : j > write_offset => wire[i] < data[j]

WriteInv == TypeOK /\ CallInv /\ HandedInv /\ NumberInv /\ NothingLost /\ OrderInv

-----------------------------------------------------------------------------
(* Facts about sequences. *)

Bytes == 1 .. MaxBytes

\* The elements of a sequence.
LEMMA ToSetElements ==
  ASSUME NEW s \in Seq(Bytes), NEW b
  PROVE  b \in ToSet(s) <=> \E i \in 1 .. Len(s) : s[i] = b
BY DEF ToSet

\* Bytes are numbers.
LEMMA ByteElements ==
  ASSUME NEW s \in Seq(Bytes)
  PROVE  Len(s) \in Nat /\ \A i \in 1 .. Len(s) : s[i] \in Nat
<1>1. \A i \in 1 .. Len(s) : s[i] \in Bytes
  BY ElementOfSeq
<1>2. Bytes \subseteq Nat
  BY WriteAssumption DEF Bytes
<1> QED BY <1>1, <1>2, LenProperties

\* Fresh bytes follow all that are numbered.
LEMMA FreshBytes ==
  ASSUME NEW n \in Nat, numbered \in Nat, MaxBytes \in Nat, numbered + n <= MaxBytes
  PROVE  /\ Fresh(n) \in Seq(Bytes) /\ Len(Fresh(n)) = n
         /\ \A j \in 1 .. n : Fresh(n)[j] = numbered + j
         /\ Increasing(Fresh(n)) /\ UpTo(Fresh(n), numbered + n)
<1>1. \A j \in 1 .. n : numbered + j \in Bytes
  BY DEF Bytes
<1>2. Fresh(n) \in Seq(Bytes) /\ Len(Fresh(n)) = n
  BY <1>1 DEF Fresh
<1>3. \A j \in 1 .. n : Fresh(n)[j] = numbered + j
  BY DEF Fresh
<1> QED BY <1>2, <1>3 DEF Increasing, UpTo

\* Handing over k bytes appends the next k bytes of the write to the wire.
LEMMA HandAppends ==
  ASSUME TypeOK, NEW k \in 0 .. Rest, Hand(k)
  PROVE  /\ wire' \in Seq(Bytes) /\ Len(wire') = Len(wire) + k
         /\ \A i \in 1 .. Len(wire) : wire'[i] = wire[i]
         /\ \A i \in 1 .. k : wire'[Len(wire) + i] = data[write_offset + i]
<1> DEFINE m == write_offset + 1
           n == write_offset + k
           t == SubSeq(data, m, n)
<1>1. /\ wire \in Seq(Bytes) /\ data \in Seq(Bytes) /\ Len(wire) \in Nat /\ Len(data) \in Nat
      /\ write_offset \in Nat /\ write_offset <= Len(data) /\ k \in Nat /\ k <= Len(data) - write_offset
  BY LenProperties DEF TypeOK, Rest, Bytes
<1>2. m \in 1 .. Len(data) + 1 /\ n \in m - 1 .. Len(data) /\ n - m + 1 = k
  BY <1>1
<1>3. t \in Seq(Bytes) /\ Len(t) = k /\ \A i \in 1 .. k : t[i] = data[m + i - 1]
  <2> HIDE DEF m, n
  <2>1. Len(t) = n - m + 1 /\ \A i \in 1 .. n - m + 1 : t[i] = data[m + i - 1]
    BY <1>1, <1>2, SubSeqProperties
  <2>2. t \in Seq(Bytes)
    BY <1>1, <1>2, SubSeqProperties
  <2> QED BY <1>2, <2>1, <2>2
<1>4. wire' = wire \o t
  BY DEF Hand
<1> HIDE DEF t
<1>5. /\ wire' \in Seq(Bytes) /\ Len(wire') = Len(wire) + k
      /\ \A i \in 1 .. Len(wire) + k : wire'[i] = IF i <= Len(wire) THEN wire[i] ELSE t[i - Len(wire)]
  BY <1>1, <1>3, <1>4, ConcatProperties
<1>6. \A i \in 1 .. Len(wire) : wire'[i] = wire[i]
  BY <1>1, <1>5
<1>7. \A i \in 1 .. k : wire'[Len(wire) + i] = data[write_offset + i]
  <2> TAKE i \in 1 .. k
  <2>1. wire'[Len(wire) + i] = t[i]
    BY <1>1, <1>5
  <2>2. t[i] = data[m + i - 1] /\ m + i - 1 = write_offset + i
    BY <1>1, <1>3
  <2> QED BY <2>1, <2>2
<1> QED BY <1>5, <1>6, <1>7

\* Appending fresh bytes to a sequence of numbered ones.
LEMMA AppendFresh ==
  ASSUME NEW n \in Nat, numbered \in Nat, MaxBytes \in Nat, numbered + n <= MaxBytes,
         NEW s \in Seq(Bytes)
  PROVE  /\ s \o Fresh(n) \in Seq(Bytes) /\ Len(s \o Fresh(n)) = Len(s) + n
         /\ \A i \in 1 .. Len(s) : (s \o Fresh(n))[i] = s[i]
         /\ \A i \in 1 .. n : (s \o Fresh(n))[Len(s) + i] = numbered + i
<1> DEFINE t == Fresh(n)
           w == s \o t
<1>1. t \in Seq(Bytes) /\ Len(t) = n /\ \A j \in 1 .. n : t[j] = numbered + j
  BY FreshBytes
<1> HIDE DEF t
<1>2. /\ w \in Seq(Bytes) /\ Len(w) = Len(s) + n
      /\ \A i \in 1 .. Len(s) + n : w[i] = IF i <= Len(s) THEN s[i] ELSE t[i - Len(s)]
  BY <1>1, ConcatProperties
<1>3. Len(s) \in Nat /\ \A i \in 1 .. Len(s) : s[i] \in Nat
  BY ByteElements
<1> HIDE DEF w
<1>4. \A i \in 1 .. Len(s) : w[i] = s[i]
  BY <1>2, <1>3
<1>5. \A i \in 1 .. n : w[Len(s) + i] = numbered + i
  <2> TAKE i \in 1 .. n
  <2>1. Len(s) + i \in 1 .. Len(s) + n /\ ~(Len(s) + i <= Len(s)) /\ (Len(s) + i) - Len(s) = i
    BY <1>3
  <2>2. w[Len(s) + i] = t[i]
    BY <2>1, <1>2
  <2> QED BY <2>2, <1>1
<1> QED BY <1>2, <1>4, <1>5 DEF w, t

\* The order is kept, and every byte numbered.
LEMMA AppendOrdered ==
  ASSUME NEW n \in Nat, numbered \in Nat, MaxBytes \in Nat, numbered + n <= MaxBytes,
         NEW s \in Seq(Bytes), UpTo(s, numbered)
  PROVE  /\ UpTo(s \o Fresh(n), numbered + n)
         /\ Increasing(s) => Increasing(s \o Fresh(n))
<1> DEFINE w == s \o Fresh(n)
<1>2. /\ w \in Seq(Bytes) /\ Len(w) = Len(s) + n
      /\ \A i \in 1 .. Len(s) : w[i] = s[i]
      /\ \A i \in 1 .. n : w[Len(s) + i] = numbered + i
  BY AppendFresh, Zenon
<1>3. Len(s) \in Nat /\ \A i \in 1 .. Len(s) : s[i] \in Nat
  BY ByteElements
<1> HIDE DEF w
<1>6. UpTo(w, numbered + n) /\ (Increasing(s) => Increasing(w))
  <2>1. \A i \in 1 .. Len(s) + n :
          /\ i <= Len(s) => i \in 1 .. Len(s) /\ w[i] = s[i] /\ s[i] <= numbered /\ s[i] \in Nat
          /\ i > Len(s) => w[i] = numbered + (i - Len(s))
    <3> TAKE i \in 1 .. Len(s) + n
    <3>1. CASE i <= Len(s)
      BY <3>1, <1>2, <1>3 DEF UpTo
    <3>2. CASE i > Len(s)
      <4>1. i - Len(s) \in 1 .. n /\ Len(s) + (i - Len(s)) = i
        BY <3>2, <1>3
      <4>2. w[Len(s) + (i - Len(s))] = numbered + (i - Len(s))
        BY <4>1, <1>2
      <4> QED BY <3>2, <4>1, <4>2, <1>3
    <3> QED BY <3>1, <3>2, <1>3
  <2>2. UpTo(w, numbered + n)
    BY <2>1, <1>2, <1>3 DEF UpTo
  <2>3. ASSUME Increasing(s) PROVE Increasing(w)
    <3> SUFFICES ASSUME NEW i \in 1 .. Len(s) + n, NEW j \in 1 .. Len(s) + n, i < j
                 PROVE  w[i] < w[j]
      BY <1>2 DEF Increasing
    <3>1. CASE j <= Len(s)
      BY <3>1, <2>1, <1>3, <2>3 DEF Increasing
    <3>2. CASE i <= Len(s) /\ j > Len(s)
      BY <3>2, <2>1, <1>3
    <3>3. CASE i > Len(s)
      BY <3>3, <2>1, <1>3
    <3> QED BY <3>1, <3>2, <3>3, <1>3
  <2> QED BY <2>2, <2>3
<1> QED BY <1>6 DEF w

-----------------------------------------------------------------------------
(* The parts of the actions. *)

\* What TypeOK says of the types.
LEMMA Types ==
  ASSUME TypeOK
  PROVE  /\ MaxBytes \in Nat /\ BufferSize \in Nat /\ numbered \in Nat /\ numbered <= MaxBytes
         /\ wire \in Seq(Bytes) /\ m_write_buffer \in Seq(Bytes) /\ data \in Seq(Bytes)
         /\ Len(wire) \in Nat /\ Len(m_write_buffer) \in Nat /\ Len(data) \in Nat
         /\ \A i \in 1 .. Len(wire) : wire[i] \in Nat
         /\ \A i \in 1 .. Len(m_write_buffer) : m_write_buffer[i] \in Nat
         /\ \A i \in 1 .. Len(data) : data[i] \in Nat
         /\ write_offset \in Nat /\ write_offset <= Len(data)
         /\ then \in Nat
<1>1. MaxBytes \in Nat /\ BufferSize \in Nat /\ WriteSizes \subseteq Nat
  BY WriteAssumption
<1>2. wire \in Seq(Bytes) /\ m_write_buffer \in Seq(Bytes) /\ data \in Seq(Bytes)
  BY DEF TypeOK, Bytes
<1>3. Len(wire) \in Nat /\ Len(m_write_buffer) \in Nat /\ Len(data) \in Nat
  BY <1>2, LenProperties
<1>4. \A s \in Seq(Bytes) : \A i \in 1 .. Len(s) : s[i] \in Nat
  BY ByteElements
<1> QED BY <1>1, <1>2, <1>3, <1>4 DEF TypeOK

\* Store keeps the invariant, when what is in the buffer before is in order and
\* the rest of what was promised is with TCP.
LEMMA StoreStep ==
  ASSUME WriteInv, NEW n \in WriteSizes, numbered + n <= MaxBytes,
         NEW before \in Seq(Bytes), Len(before) + n <= BufferSize,
         Store(before, n), wire' = wire, up' = up, MishapsGrow, then' \in WriteSizes \cup {0},
         ~Cut' => promised \subseteq ToSet(wire) \cup ToSet(before),
         UpTo(before, numbered),
         ~Rerouted' =>
           /\ Increasing(before)
           /\ up => \A i \in 1 .. Len(wire), j \in 1 .. Len(before) : wire[i] < before[j]
  PROVE  WriteInv'
<1> DEFINE w == before \o Fresh(n)
<1>0. TypeOK /\ CallInv /\ NumberInv /\ OrderInv
  BY DEF WriteInv
<1>1. n \in Nat /\ n > 0
  BY WriteAssumption
<1>2. /\ m_write_buffer' = w /\ numbered' = numbered + n /\ pc' = "idle"
      /\ promised' = promised \cup ToSet(Fresh(n)) /\ data' = data /\ write_offset' = write_offset
  BY DEF Store
<1>3. /\ w \in Seq(Bytes) /\ Len(w) = Len(before) + n
      /\ \A i \in 1 .. Len(before) : w[i] = before[i]
      /\ \A i \in 1 .. n : w[Len(before) + i] = numbered + i
      /\ UpTo(w, numbered + n) /\ (Increasing(before) => Increasing(w))
  <2>1. numbered \in Nat /\ MaxBytes \in Nat
    BY <1>0, Types
  <2>2. /\ w \in Seq(Bytes) /\ Len(w) = Len(before) + n
        /\ \A i \in 1 .. Len(before) : w[i] = before[i]
        /\ \A i \in 1 .. n : w[Len(before) + i] = numbered + i
    <3> HIDE DEF Fresh, Bytes
    <3>1. /\ before \o Fresh(n) \in Seq(Bytes) /\ Len(before \o Fresh(n)) = Len(before) + n
          /\ \A i \in 1 .. Len(before) : (before \o Fresh(n))[i] = before[i]
          /\ \A i \in 1 .. n : (before \o Fresh(n))[Len(before) + i] = numbered + i
      BY <2>1, <1>1, AppendFresh, Zenon
    <3> QED BY <3>1, Zenon
  <2>3. UpTo(w, numbered + n) /\ (Increasing(before) => Increasing(w))
    <3>1. /\ UpTo(before \o Fresh(n), numbered + n)
          /\ Increasing(before) => Increasing(before \o Fresh(n))
      BY <2>1, <1>1, AppendOrdered, Zenon
    <3> QED BY <3>1, Zenon
  <2> QED BY <2>2, <2>3, Zenon
<1>4. /\ Len(before) \in Nat /\ \A i \in 1 .. Len(before) : before[i] \in Nat
  BY ByteElements
<1>5. /\ Fresh(n) \in Seq(Bytes) /\ Len(Fresh(n)) = n
      /\ \A j \in 1 .. n : Fresh(n)[j] = numbered + j
  BY <1>0, <1>1, Types, FreshBytes
<1> HIDE DEF w
<1>6. \A b \in ToSet(Fresh(n)) : \E j \in 1 .. n : b = numbered + j
  BY <1>5, ToSetElements
<1>7. TypeOK'
  <2>1. promised' \subseteq 1 .. numbered + n
    <3>1. promised \subseteq 1 .. numbered
      BY <1>0 DEF TypeOK
    <3>2. numbered \in Nat
      BY <1>0, Types
    <3>3. \A b \in ToSet(Fresh(n)) : b \in 1 .. numbered + n
      BY <3>2, <1>6, <1>1
    <3>4. 1 .. numbered \subseteq 1 .. numbered + n
      BY <3>2, <1>1
    <3> QED BY <3>1, <3>3, <3>4, <1>2, Zenon
  <2>2. m_write_buffer' \in Seq(1 .. MaxBytes) /\ Len(m_write_buffer') <= BufferSize
    BY <1>2, <1>3, <1>4, <1>1 DEF Bytes
  <2>3. numbered' \in 0 .. MaxBytes
    BY <1>0, <1>1, <1>2, Types
  <2> QED BY <1>0, <1>2, <2>1, <2>2, <2>3 DEF TypeOK, MishapsGrow
<1>8. CallInv' /\ HandedInv'
  BY <1>2 DEF CallInv, HandedInv, Writing
<1>9. NothingLost'
  <2> SUFFICES ASSUME ~Cut', NEW b \in promised'
               PROVE  b \in ToSet(wire) \cup ToSet(w)
    BY <1>2 DEF NothingLost, Cut
  <2>1. CASE b \in ToSet(Fresh(n))
    <3>1. PICK j \in 1 .. n : b = numbered + j
      BY <2>1, <1>6
    <3>2. w[Len(before) + j] = b /\ Len(before) + j \in 1 .. Len(w)
      BY <3>1, <1>1, <1>3, <1>4
    <3> QED BY <3>2, <1>3, ToSetElements
  <2>2. CASE b \in ToSet(wire)
    BY <2>2
  <2>3. CASE b \in ToSet(before)
    <3>1. PICK j \in 1 .. Len(before) : before[j] = b
      BY <2>3, ToSetElements
    <3>2. w[j] = b /\ j \in 1 .. Len(w)
      BY <3>1, <1>1, <1>3, <1>4
    <3> QED BY <3>2, <1>3, ToSetElements
  <2> QED BY <2>1, <2>2, <2>3, <1>2
<1>11. NumberInv'
  <2>1. \A i \in 1 .. Len(wire) : wire[i] \in Nat /\ wire[i] <= numbered
    BY <1>0, Types DEF NumberInv, UpTo
  <2>2. \A i \in 1 .. Len(data) : data[i] \in Nat /\ data[i] <= numbered
    BY <1>0, Types DEF NumberInv, UpTo
  <2>3. numbered \in Nat
    BY <1>0, Types
  <2>4. UpTo(wire, numbered + n) /\ UpTo(data, numbered + n)
    BY <2>1, <2>2, <2>3, <1>1 DEF UpTo
  <2> QED BY <1>2, <1>3, <2>4 DEF NumberInv
<1>10. OrderInv'
  <2> SUFFICES ASSUME ~Rerouted' PROVE OrderInv'
    BY DEF OrderInv
  <2>1. Increasing(w)
    BY <1>3
  <2>2. Increasing(wire) /\ Increasing(data)
    BY <1>0 DEF OrderInv, Rerouted, MishapsGrow
  <2>4. ASSUME up, NEW i \in 1 .. Len(wire), NEW j \in 1 .. Len(w) PROVE wire[i] < w[j]
    <3>0. wire[i] <= numbered /\ wire[i] \in Nat /\ numbered \in Nat
      BY <1>0, Types DEF NumberInv, UpTo
    <3>1. CASE j <= Len(before)
      BY <3>1, <1>3, <1>4, <2>4
    <3>2. CASE j > Len(before)
      <4>1. j - Len(before) \in 1 .. n /\ Len(before) + (j - Len(before)) = j
        BY <3>2, <1>1, <1>3, <1>4
      <4>2. w[j] = numbered + (j - Len(before))
        BY <4>1, <1>3
      <4> QED BY <3>0, <4>1, <4>2
    <3> QED BY <3>1, <3>2, <1>4, <1>3, <1>1
  <2> QED BY <1>2, <2>1, <2>2, <2>4 DEF OrderInv
<1> QED BY <1>7, <1>8, <1>9, <1>10, <1>11 DEF WriteInv

\* WriteDirect keeps it, when all that was promised is with TCP.
LEMMA DirectStep ==
  ASSUME WriteInv, NEW n \in WriteSizes, numbered + n <= MaxBytes,
         WriteDirect(n), wire' = wire, up' = up, MishapsGrow, then' \in WriteSizes \cup {0},
         ~Cut' => promised \subseteq ToSet(wire)
  PROVE  WriteInv'
<1>0. TypeOK /\ CallInv /\ NumberInv /\ OrderInv
  BY DEF WriteInv
<1>1. n \in Nat /\ n > 0 /\ numbered \in Nat /\ MaxBytes \in Nat
  BY <1>0, Types, WriteAssumption
<1>2. m_write_buffer' = <<>> /\ promised' = promised
  BY DEF WriteDirect
<1>3. /\ <<>> \in Seq(Bytes) /\ Len(<<>>) = 0 /\ Increasing(<<>>) /\ \A m : UpTo(<<>>, m)
  BY DEF Increasing, UpTo
<1>4. NothingLost'
  BY <1>2 DEF NothingLost, Cut
<1>5. CASE up
  <2>1. pc' = "direct" /\ data' = Fresh(n) /\ write_offset' = 0 /\ numbered' = numbered + n
    BY <1>5 DEF WriteDirect, netconn_write
  <2>2. /\ Fresh(n) \in Seq(Bytes) /\ Len(Fresh(n)) = n
        /\ \A j \in 1 .. n : Fresh(n)[j] = numbered + j
        /\ Increasing(Fresh(n)) /\ UpTo(Fresh(n), numbered + n)
    BY <1>1, FreshBytes
  <2>3. TypeOK'
    <3>1. promised' \subseteq 1 .. numbered'
      <4>1. promised \subseteq 1 .. numbered /\ 1 .. numbered \subseteq 1 .. numbered + n
        BY <1>0, <1>1 DEF TypeOK
      <4> QED BY <4>1, <1>2, <2>1, Zenon
    <3>2. numbered' \in 0 .. MaxBytes /\ write_offset' \in 0 .. Len(data')
      BY <1>1, <2>1, <2>2
    <3>3. data' \in Seq(1 .. MaxBytes)
      BY <2>1, <2>2 DEF Bytes
    <3>4. m_write_buffer' \in Seq(1 .. MaxBytes) /\ Len(m_write_buffer') <= BufferSize
      BY <1>2, <1>3, WriteAssumption DEF Bytes
    <3> QED BY <1>0, <2>1, <3>1, <3>2, <3>3, <3>4 DEF TypeOK, MishapsGrow
  <2>4. CallInv' /\ HandedInv'
    BY <1>2, <1>5, <2>1 DEF CallInv, HandedInv, Writing
  <2>5. \A i \in 1 .. Len(wire) : wire[i] \in Nat /\ wire[i] <= numbered
    BY <1>0, Types DEF NumberInv, UpTo
  <2>6. NumberInv'
    <3>1. UpTo(wire, numbered + n)
      BY <2>5, <1>1 DEF UpTo
    <3> QED BY <1>2, <1>3, <2>1, <2>2, <3>1 DEF NumberInv
  <2>7. OrderInv'
    <3> SUFFICES ASSUME ~Rerouted' PROVE OrderInv'
      BY DEF OrderInv
    <3>1. Increasing(wire)
      BY <1>0 DEF OrderInv, Rerouted, MishapsGrow
    <3>2. \A i \in 1 .. Len(wire), j \in 1 .. n : wire[i] < Fresh(n)[j]
      BY <2>5, <2>2, <1>1
    <3> QED BY <1>2, <1>3, <2>1, <2>2, <3>1, <3>2 DEF OrderInv
  <2> QED BY <1>4, <2>3, <2>4, <2>6, <2>7 DEF WriteInv
<1>6. CASE ~up
  <2>1. pc' = "idle" /\ data' = data /\ write_offset' = write_offset /\ numbered' = numbered
    BY <1>6 DEF WriteDirect, netconn_write
  <2>2. TypeOK'
    <3>1. m_write_buffer' \in Seq(1 .. MaxBytes) /\ Len(m_write_buffer') <= BufferSize
      BY <1>2, <1>3, WriteAssumption DEF Bytes
    <3> QED BY <1>0, <1>2, <2>1, <3>1 DEF TypeOK, MishapsGrow
  <2>3. CallInv' /\ HandedInv'
    BY <2>1 DEF CallInv, HandedInv, Writing
  <2>4. NumberInv' /\ OrderInv'
    BY <1>0, <1>2, <1>3, <1>6, <2>1 DEF NumberInv, OrderInv, Rerouted, MishapsGrow
  <2> QED BY <1>4, <2>2, <2>3, <2>4 DEF WriteInv
<1> QED BY <1>5, <1>6

\* A write of the base stream that has handed over all its bytes, or is cut
\* short by a send timeout, succeeds.
LEMMA SucceedsStep ==
  ASSUME WriteInv, pc # "idle", Rest = 0 \/ pc = "direct" \/ Cut',
         Succeeds(write_offset), wire' = wire, up' = up, MishapsGrow
  PROVE  WriteInv'
<1>0. TypeOK /\ CallInv /\ HandedInv /\ NumberInv /\ NothingLost /\ OrderInv
  BY DEF WriteInv
<1>1. ASSUME ~Cut', pc = "flush" PROVE ToSet(data) \subseteq ToSet(wire)
  <2>1. write_offset = Len(data)
    BY <1>0, <1>1, Types DEF Rest
  <2>2. \A i \in 1 .. Len(data) : \E j \in 1 .. Len(wire) : wire[j] = data[i]
    BY <2>1, <1>0 DEF HandedInv
  <2> QED BY <2>2, <1>0, Types, ToSetElements
<1>2. CASE pc = "flush"
  <2>1. data = m_write_buffer /\ numbered + then <= MaxBytes /\ then \in WriteSizes \cup {0}
    BY <1>0, <1>2 DEF CallInv, TypeOK
  <2>2. ~Cut' => promised \subseteq ToSet(wire)
    BY <1>0, <1>1, <1>2, <2>1 DEF NothingLost, Cut, MishapsGrow
  <2>3. then' = then
    BY <1>2 DEF Succeeds
  <2>4. /\ <<>> \in Seq(Bytes) /\ Len(<<>>) = 0 /\ Increasing(<<>>) /\ \A m : UpTo(<<>>, m)
    BY DEF Increasing, UpTo
  <2>5. CASE then = 0
    <3>1. /\ m_write_buffer' = <<>> /\ pc' = "idle" /\ data' = data
          /\ write_offset' = write_offset /\ numbered' = numbered /\ promised' = promised
      BY <1>2, <2>5, WriteAssumption DEF Succeeds
    <3>2. TypeOK'
      <4>1. m_write_buffer' \in Seq(1 .. MaxBytes) /\ Len(m_write_buffer') <= BufferSize
        BY <3>1, <2>4, WriteAssumption DEF Bytes
      <4> QED BY <1>0, <2>3, <3>1, <4>1 DEF TypeOK, MishapsGrow
    <3>3. CallInv' /\ HandedInv'
      BY <3>1 DEF CallInv, HandedInv, Writing
    <3>4. NothingLost'
      BY <2>2, <3>1 DEF NothingLost, Cut
    <3>5. NumberInv' /\ OrderInv'
      BY <1>0, <2>4, <3>1 DEF NumberInv, OrderInv, Rerouted, MishapsGrow
    <3> QED BY <3>2, <3>3, <3>4, <3>5 DEF WriteInv
  <2>6. CASE then # 0 /\ then > BufferSize
    <3>1. WriteDirect(then)
      BY <1>2, <2>6, <1>0, Types DEF Succeeds
    <3> QED BY <2>1, <2>2, <2>3, <2>6, <3>1, DirectStep
  <2>7. CASE then # 0 /\ ~(then > BufferSize)
    <3>1. Store(<<>>, then)
      BY <1>2, <2>7, <1>0, Types DEF Succeeds
    <3>2. Len(<<>>) + then <= BufferSize
      BY <2>4, <2>7, <1>0, Types
    <3>3. ~Cut' => promised \subseteq ToSet(wire) \cup ToSet(<<>>)
      BY <2>2
    <3>4. then \in WriteSizes
      BY <2>1, <2>7
    <3>5. /\ UpTo(<<>>, numbered) /\ Increasing(<<>>)
          /\ \A i \in 1 .. Len(wire), j \in 1 .. Len(<<>>) : wire[i] < <<>>[j]
      BY <2>4
    <3>6. then' \in WriteSizes \cup {0} /\ <<>> \in Seq(Bytes) /\ numbered + then <= MaxBytes
      BY <2>1, <2>3, <2>4
    <3> QED BY <3>1, <3>2, <3>3, <3>4, <3>5, <3>6, StoreStep, Zenon
  <2> QED BY <2>5, <2>6, <2>7
<1>3. CASE pc = "direct"
  <2>1. /\ promised' = promised \cup ToSet(SubSeq(data, 1, write_offset)) /\ pc' = "idle"
        /\ m_write_buffer' = m_write_buffer /\ data' = data /\ write_offset' = write_offset
        /\ then' = then /\ numbered' = numbered
    BY <1>3 DEF Succeeds
  <2>2. m_write_buffer = <<>>
    BY <1>0, <1>3 DEF CallInv
  <2>3. ToSet(SubSeq(data, 1, write_offset)) \subseteq ToSet(data)
    BY <1>0, Types DEF ToSet
  <2>6. ToSet(SubSeq(data, 1, write_offset)) \subseteq 1 .. numbered
    <3>1. \A i \in 1 .. Len(data) : data[i] \in 1 .. numbered
      <4>1. \A i \in 1 .. Len(data) : data[i] \in Bytes
        BY <1>0, Types, ElementOfSeq
      <4> QED BY <4>1, <1>0, Types DEF NumberInv, UpTo, Bytes
    <3>2. ToSet(data) \subseteq 1 .. numbered
      BY <3>1, <1>0, Types, ToSetElements
    <3> QED BY <2>3, <3>2
  <2>4. TypeOK' /\ CallInv' /\ HandedInv' /\ NumberInv' /\ OrderInv'
    <3>1. promised' \subseteq 1 .. numbered'
      BY <2>1, <2>6, <1>0 DEF TypeOK
    <3>2. TypeOK'
      BY <1>0, <2>1, <3>1 DEF TypeOK, MishapsGrow
    <3>3. CallInv' /\ HandedInv'
      BY <2>1 DEF CallInv, HandedInv, Writing
    <3>4. NumberInv' /\ OrderInv'
      BY <1>0, <2>1, <2>2 DEF NumberInv, OrderInv, Rerouted, MishapsGrow
    <3> QED BY <3>2, <3>3, <3>4
  <2>5. NothingLost'
    <3>1. \A b \in ToSet(SubSeq(data, 1, write_offset)) : \E i \in 1 .. write_offset : b = data[i]
      BY <1>0, Types DEF ToSet
    <3>2. \A i \in 1 .. write_offset : \E j \in 1 .. Len(wire) : wire[j] = data[i]
      BY <1>0 DEF HandedInv
    <3>3. ToSet(SubSeq(data, 1, write_offset)) \subseteq ToSet(wire)
      BY <3>1, <3>2, <1>0, Types, ToSetElements
    <3> QED BY <1>0, <2>1, <3>3 DEF NothingLost, Cut, MishapsGrow
  <2> QED BY <2>4, <2>5 DEF WriteInv
<1> QED BY <1>0, <1>2, <1>3 DEF TypeOK

\* A write of the base stream fails: bytes may have gone to TCP, and when
\* nothing excludes that they are tried again none has.
LEMMA FailsStep ==
  ASSUME WriteInv, Writing, Fails, MishapsGrow, up' \in BOOLEAN,
         wire' \in Seq(Bytes), Len(wire') >= Len(wire),
         \A i \in 1 .. Len(wire) : wire'[i] = wire[i],
         UpTo(wire', numbered),
         ~Rerouted' => Increasing(wire')
                       /\ (up' /\ pc = "flush" => wire' = wire /\ write_offset = 0)
  PROVE  WriteInv'
<1>0. TypeOK /\ CallInv /\ HandedInv /\ NumberInv /\ NothingLost /\ OrderInv
  BY DEF WriteInv
<1>1. /\ pc' = "idle" /\ m_write_buffer' = m_write_buffer /\ data' = data
      /\ write_offset' = write_offset /\ then' = then /\ numbered' = numbered /\ promised' = promised
  BY DEF Fails
<1>2. TypeOK'
  BY <1>0, <1>1 DEF TypeOK, Bytes, MishapsGrow
<1>3. CallInv' /\ HandedInv' /\ NumberInv'
  BY <1>0, <1>1 DEF CallInv, HandedInv, NumberInv, Writing
<1>4. NothingLost'
  <2>1. \A b : b \in ToSet(wire) => b \in ToSet(wire')
    <3> SUFFICES ASSUME NEW b, b \in ToSet(wire) PROVE b \in ToSet(wire')
      OBVIOUS
    <3>1. PICK i \in 1 .. Len(wire) : wire[i] = b
      BY <1>0, Types, ToSetElements
    <3>2. i \in 1 .. Len(wire') /\ wire'[i] = b
      BY <3>1, <1>0, Types, LenProperties
    <3> QED BY <3>2, ToSetElements
  <2> QED BY <2>1, <1>0, <1>1 DEF NothingLost, Cut, MishapsGrow
<1>5. OrderInv'
  <2> SUFFICES ASSUME ~Rerouted' PROVE OrderInv'
    BY DEF OrderInv
  <2>1. Increasing(wire) /\ Increasing(m_write_buffer) /\ Increasing(data)
    BY <1>0 DEF OrderInv, Rerouted, MishapsGrow
  <2>2. ASSUME up' PROVE \A i \in 1 .. Len(wire'), j \in 1 .. Len(m_write_buffer) : wire'[i] < m_write_buffer[j]
    <3>1. CASE pc = "flush"
      <4>1. data = m_write_buffer /\ write_offset = 0 /\ wire' = wire
        BY <3>1, <2>2, <1>0 DEF CallInv
      <4>2. \A i \in 1 .. Len(wire), j \in 1 .. Len(data) : j > write_offset => wire[i] < data[j]
        BY <3>1, <1>0 DEF OrderInv, Rerouted, MishapsGrow
      <4>3. \A j \in 1 .. Len(data) : j > 0
        BY <1>0, Types
      <4> QED BY <4>1, <4>2, <4>3
    <3>2. CASE pc = "direct"
      BY <3>2, <1>0 DEF CallInv
    <3> QED BY <3>1, <3>2, <1>0 DEF TypeOK, Writing
  <2> QED BY <1>1, <2>1, <2>2 DEF OrderInv
<1> QED BY <1>2, <1>3, <1>4, <1>5 DEF WriteInv

\* A flush begins, with a write of n bytes to follow or none.
LEMMA FlushStep ==
  ASSUME WriteInv, pc = "idle", m_write_buffer # <<>>, NEW n \in WriteSizes \cup {0},
         numbered + n <= MaxBytes, flush_write_buffer(n), wire' = wire, up' = up,
         mishaps' = mishaps
  PROVE  WriteInv'
<1>0. TypeOK /\ CallInv /\ HandedInv /\ NumberInv /\ NothingLost /\ OrderInv
  BY DEF WriteInv
<1>1. /\ then' = n /\ m_write_buffer' = m_write_buffer
      /\ numbered' = numbered /\ promised' = promised
  BY DEF flush_write_buffer
<1>2. CASE up
  <2>1. pc' = "flush" /\ data' = m_write_buffer /\ write_offset' = 0
    BY <1>2 DEF flush_write_buffer, netconn_write
  <2>2. TypeOK'
    <3>1. write_offset' \in 0 .. Len(data')
      BY <2>1, <1>0, Types
    <3> QED BY <1>0, <1>1, <2>1, <3>1 DEF TypeOK
  <2>3. CallInv' /\ HandedInv' /\ NumberInv'
    BY <1>0, <1>1, <1>2, <2>1 DEF CallInv, HandedInv, NumberInv
  <2>4. NothingLost'
    BY <1>0, <1>1 DEF NothingLost
  <2>5. OrderInv'
    BY <1>0, <1>1, <1>2, <2>1 DEF OrderInv, Rerouted
  <2> QED BY <2>2, <2>3, <2>4, <2>5 DEF WriteInv
<1>3. CASE ~up
  <2>1. pc' = "idle" /\ data' = data /\ write_offset' = write_offset
    BY <1>3 DEF flush_write_buffer, netconn_write
  <2>2. TypeOK' /\ CallInv' /\ HandedInv' /\ NumberInv'
    BY <1>0, <1>1, <2>1 DEF TypeOK, CallInv, HandedInv, NumberInv, Writing
  <2>3. NothingLost' /\ OrderInv'
    BY <1>0, <1>1, <2>1 DEF NothingLost, OrderInv, Rerouted
  <2> QED BY <2>2, <2>3 DEF WriteInv
<1> QED BY <1>2, <1>3

\* Handing over the next k bytes keeps the order.
LEMMA HandOrdered ==
  ASSUME TypeOK, OrderInv, ~Rerouted, pc # "idle", NEW k \in 0 .. Rest, Hand(k)
  PROVE  /\ Increasing(wire')
         /\ \A i \in 1 .. Len(wire'), j \in 1 .. Len(data) : j > write_offset + k => wire'[i] < data[j]
<1>1. /\ Increasing(wire) /\ Increasing(m_write_buffer) /\ Increasing(data)
      /\ \A i \in 1 .. Len(wire), j \in 1 .. Len(data) : j > write_offset => wire[i] < data[j]
  BY DEF OrderInv
<1>3. /\ Len(wire) \in Nat /\ Len(data) \in Nat /\ write_offset \in Nat /\ k \in Nat
      /\ write_offset + k <= Len(data)
  BY Types DEF Rest
<1>4. /\ wire' \in Seq(Bytes) /\ Len(wire') = Len(wire) + k
      /\ \A i \in 1 .. Len(wire) : wire'[i] = wire[i]
      /\ \A i \in 1 .. k : wire'[Len(wire) + i] = data[write_offset + i]
  BY HandAppends
<1>5. \A i \in 1 .. Len(wire') : i > Len(wire) =>
        \E m \in 1 .. k : i = Len(wire) + m /\ wire'[i] = data[write_offset + m]
                           /\ write_offset + m \in 1 .. Len(data)
  <2> SUFFICES ASSUME NEW i \in 1 .. Len(wire'), i > Len(wire)
               PROVE  \E m \in 1 .. k : i = Len(wire) + m /\ wire'[i] = data[write_offset + m]
                           /\ write_offset + m \in 1 .. Len(data)
    OBVIOUS
  <2>1. i - Len(wire) \in 1 .. k /\ i = Len(wire) + (i - Len(wire))
    BY <1>3, <1>4
  <2>2. wire'[Len(wire) + (i - Len(wire))] = data[write_offset + (i - Len(wire))]
    BY <2>1, <1>4
  <2>3. write_offset + (i - Len(wire)) \in 1 .. Len(data)
    BY <2>1, <1>3
  <2> QED BY <2>1, <2>2, <2>3
<1>6. Increasing(wire')
  <2> SUFFICES ASSUME NEW i \in 1 .. Len(wire'), NEW j \in 1 .. Len(wire'), i < j
               PROVE  wire'[i] < wire'[j]
    BY DEF Increasing
  <2>1. CASE j <= Len(wire)
    BY <2>1, <1>1, <1>3, <1>4 DEF Increasing
  <2>2. CASE i <= Len(wire) /\ j > Len(wire)
    <3>1. PICK m \in 1 .. k : wire'[j] = data[write_offset + m] /\ write_offset + m \in 1 .. Len(data)
      BY <2>2, <1>5
    <3>2. i \in 1 .. Len(wire) /\ wire'[i] = wire[i] /\ write_offset + m > write_offset
      BY <2>2, <3>1, <1>3, <1>4
    <3> QED BY <3>1, <3>2, <1>1
  <2>3. CASE i > Len(wire)
    <3>1. PICK m \in 1 .. k : i = Len(wire) + m /\ wire'[i] = data[write_offset + m]
                              /\ write_offset + m \in 1 .. Len(data)
      BY <2>3, <1>5
    <3>2. j > Len(wire)
      BY <2>3, <1>3, <1>4
    <3>3. PICK n \in 1 .. k : j = Len(wire) + n /\ wire'[j] = data[write_offset + n]
                              /\ write_offset + n \in 1 .. Len(data)
      BY <3>2, <1>5
    <3>4. write_offset + m < write_offset + n
      BY <3>1, <3>3, <1>3
    <3> QED BY <3>1, <3>3, <3>4, <1>1 DEF Increasing
  <2> QED BY <2>1, <2>2, <2>3, <1>3, <1>4
<1>7. \A i \in 1 .. Len(wire'), j \in 1 .. Len(data) : j > write_offset + k => wire'[i] < data[j]
  <2> SUFFICES ASSUME NEW i \in 1 .. Len(wire'), NEW j \in 1 .. Len(data), j > write_offset + k
               PROVE  wire'[i] < data[j]
    OBVIOUS
  <2>1. CASE i <= Len(wire)
    BY <2>1, <1>1, <1>3, <1>4
  <2>2. CASE i > Len(wire)
    <3>1. PICK m \in 1 .. k : wire'[i] = data[write_offset + m] /\ write_offset + m \in 1 .. Len(data)
      BY <2>2, <1>5
    <3>2. write_offset + m < j
      BY <3>1, <1>3
    <3> QED BY <3>1, <3>2, <1>1 DEF Increasing
  <2> QED BY <2>1, <2>2, <1>3, <1>4
<1> QED BY <1>6, <1>7

\* TCP takes the next k bytes.
LEMMA WriteMoreStep ==
  ASSUME WriteInv, WriteMore
  PROVE  WriteInv'
<1>0. TypeOK /\ CallInv /\ HandedInv /\ NumberInv /\ NothingLost /\ OrderInv
  BY DEF WriteInv
<1>1. PICK k \in 1 .. Rest : Hand(k) /\ write_offset' = write_offset + k
  BY DEF WriteMore
<1>2. /\ up' = up /\ m_write_buffer' = m_write_buffer /\ pc' = pc /\ data' = data /\ then' = then
      /\ numbered' = numbered /\ promised' = promised /\ mishaps' = mishaps
      /\ pc # "idle" /\ Rest > 0
  BY DEF WriteMore, Writing
<1>3. /\ Len(wire) \in Nat /\ Len(data) \in Nat /\ write_offset \in Nat /\ k \in Nat /\ k > 0
      /\ k \in 0 .. Rest /\ write_offset + k <= Len(data)
  BY <1>0, <1>1, Types DEF Rest
<1>4. /\ wire' \in Seq(Bytes) /\ Len(wire') = Len(wire) + k
      /\ \A i \in 1 .. Len(wire) : wire'[i] = wire[i]
      /\ \A i \in 1 .. k : wire'[Len(wire) + i] = data[write_offset + i]
  BY <1>0, <1>1, <1>3, HandAppends
<1>5. \A i \in 1 .. Len(wire') : i > Len(wire) =>
        \E m \in 1 .. k : i = Len(wire) + m /\ wire'[i] = data[write_offset + m]
                           /\ write_offset + m \in 1 .. Len(data)
  <2> SUFFICES ASSUME NEW i \in 1 .. Len(wire'), i > Len(wire)
               PROVE  \E m \in 1 .. k : i = Len(wire) + m /\ wire'[i] = data[write_offset + m]
                           /\ write_offset + m \in 1 .. Len(data)
    OBVIOUS
  <2>1. i - Len(wire) \in 1 .. k /\ i = Len(wire) + (i - Len(wire))
    BY <1>3, <1>4
  <2>2. wire'[Len(wire) + (i - Len(wire))] = data[write_offset + (i - Len(wire))]
    BY <2>1, <1>4
  <2>3. write_offset + (i - Len(wire)) \in 1 .. Len(data)
    BY <2>1, <1>3
  <2> QED BY <2>1, <2>2, <2>3
<1>6. TypeOK'
  <2>1. write_offset' \in 0 .. Len(data')
    BY <1>1, <1>2, <1>3
  <2> QED BY <1>0, <1>2, <1>4, <2>1 DEF TypeOK, Bytes
<1>7. CallInv'
  BY <1>0, <1>2 DEF CallInv, Writing
<1>8. HandedInv'
  <2> SUFFICES ASSUME NEW i \in 1 .. write_offset + k
               PROVE  \E j \in 1 .. Len(wire') : wire'[j] = data[i]
    BY <1>1, <1>2 DEF HandedInv
  <2>1. CASE i <= write_offset
    <3>1. PICK j \in 1 .. Len(wire) : wire[j] = data[i]
      BY <2>1, <1>0, <1>2, <1>3 DEF HandedInv
    <3>2. j \in 1 .. Len(wire') /\ wire'[j] = data[i]
      BY <3>1, <1>3, <1>4
    <3> QED BY <3>2
  <2>2. CASE i > write_offset
    <3>1. i - write_offset \in 1 .. k /\ write_offset + (i - write_offset) = i
      BY <2>2, <1>3
    <3>2. wire'[Len(wire) + (i - write_offset)] = data[i]
      BY <3>1, <1>4
    <3>3. Len(wire) + (i - write_offset) \in 1 .. Len(wire')
      BY <3>1, <1>3, <1>4
    <3> QED BY <3>2, <3>3
  <2> QED BY <2>1, <2>2, <1>3
<1>9. NumberInv'
  <2>1. \A i \in 1 .. Len(wire') : wire'[i] <= numbered
    <3> TAKE i \in 1 .. Len(wire')
    <3>1. CASE i <= Len(wire)
      BY <3>1, <1>0, <1>3, <1>4 DEF NumberInv, UpTo
    <3>2. CASE i > Len(wire)
      BY <3>2, <1>0, <1>5 DEF NumberInv, UpTo
    <3> QED BY <3>1, <3>2, <1>3, <1>4
  <2> QED BY <2>1, <1>0, <1>2 DEF NumberInv, UpTo
<1>10. NothingLost'
  <2>1. \A b : b \in ToSet(wire) => b \in ToSet(wire')
    <3> SUFFICES ASSUME NEW b, b \in ToSet(wire) PROVE b \in ToSet(wire')
      OBVIOUS
    <3>1. PICK i \in 1 .. Len(wire) : wire[i] = b
      BY <1>0, Types, ToSetElements
    <3>2. i \in 1 .. Len(wire') /\ wire'[i] = b
      BY <3>1, <1>3, <1>4
    <3> QED BY <3>2, <1>4, ToSetElements
  <2> QED BY <2>1, <1>0, <1>2 DEF NothingLost
<1>11. OrderInv'
  <2> SUFFICES ASSUME ~Rerouted PROVE OrderInv'
    BY <1>2 DEF OrderInv, Rerouted
  <2>1. Increasing(m_write_buffer) /\ Increasing(data)
    BY <1>0 DEF OrderInv
  <2>2. /\ Increasing(wire')
        /\ \A i \in 1 .. Len(wire'), j \in 1 .. Len(data) : j > write_offset + k => wire'[i] < data[j]
    BY <1>0, <1>1, <1>2, <1>3, HandOrdered
  <2> QED BY <1>1, <1>2, <2>1, <2>2 DEF OrderInv
<1> QED BY <1>6, <1>7, <1>8, <1>9, <1>10, <1>11 DEF WriteInv

-----------------------------------------------------------------------------
(* The actions. *)

LEMMA InitWriteInv == Init => WriteInv
<1> SUFFICES ASSUME Init PROVE WriteInv
  OBVIOUS
<1>1. /\ wire = <<>> /\ up = TRUE /\ m_write_buffer = <<>> /\ pc = "idle" /\ data = <<>>
      /\ write_offset = 0 /\ then = 0 /\ numbered = 0 /\ promised = {} /\ mishaps = {}
  BY DEF Init
<1>2. <<>> \in Seq(1 .. MaxBytes) /\ Len(<<>>) = 0
  OBVIOUS
<1>3. TypeOK
  <2>1. up \in BOOLEAN
    BY <1>1, Zenon
  <2> QED BY <1>1, <1>2, <2>1, WriteAssumption DEF TypeOK
<1>4. CallInv /\ HandedInv
  BY <1>1 DEF CallInv, HandedInv, Writing
<1>5. NumberInv /\ OrderInv
  BY <1>1, <1>2 DEF NumberInv, OrderInv, UpTo, Increasing
<1>6. NothingLost
  BY <1>1 DEF NothingLost
<1> QED BY <1>3, <1>4, <1>5, <1>6 DEF WriteInv

\* A call of write.
LEMMA WriteStep ==
  ASSUME WriteInv, NEW n \in WriteSizes, write(n)
  PROVE  WriteInv'
<1>0. TypeOK /\ CallInv /\ NumberInv /\ NothingLost /\ OrderInv
  BY DEF WriteInv
<1>1. /\ pc = "idle" /\ numbered + n <= MaxBytes /\ wire' = wire /\ up' = up
      /\ mishaps' = mishaps /\ MishapsGrow
  BY <1>0 DEF write, MishapsGrow, TypeOK
<1>2. n \in Nat /\ n > 0 /\ Len(m_write_buffer) \in Nat /\ BufferSize \in Nat
  BY <1>0, Types, WriteAssumption
<1>3. CASE n > BufferSize /\ m_write_buffer = <<>>
  <2>1. WriteDirect(n) /\ then' = then
    BY <1>3 DEF write
  <2>2. ToSet(<<>>) = {}
    BY DEF ToSet
  <2>3. ~Cut' => promised \subseteq ToSet(wire)
    BY <2>2, <1>0, <1>1, <1>3 DEF NothingLost, Cut
  <2>4. then' \in WriteSizes \cup {0}
    BY <1>0, <2>1 DEF TypeOK
  <2> QED BY <1>1, <2>1, <2>3, <2>4, DirectStep
<1>4. CASE m_write_buffer # <<>> /\ (n > BufferSize \/ BufferSize - Len(m_write_buffer) < n)
  <2>1. flush_write_buffer(n)
    BY <1>4 DEF write
  <2> QED BY <1>1, <1>4, <2>1, FlushStep
<1>5. CASE ~(n > BufferSize) /\ BufferSize - Len(m_write_buffer) < n /\ m_write_buffer = <<>>
  <2>1. Len(m_write_buffer) = 0
    BY <1>5
  <2> QED BY <2>1, <1>2, <1>5
<1>6. CASE ~(n > BufferSize) /\ ~(BufferSize - Len(m_write_buffer) < n)
  <2>1. Store(m_write_buffer, n) /\ then' = then
    BY <1>6 DEF write
  <2>2. Len(m_write_buffer) + n <= BufferSize
    BY <1>2, <1>6
  <2>3. m_write_buffer \in Seq(Bytes) /\ then' \in WriteSizes \cup {0}
    BY <1>0, <2>1, Types DEF TypeOK
  <2>4. ~Cut' => promised \subseteq ToSet(wire) \cup ToSet(m_write_buffer)
    BY <1>0, <1>1 DEF NothingLost, Cut
  <2>5. UpTo(m_write_buffer, numbered)
    BY <1>0 DEF NumberInv
  <2>6. ~Rerouted' =>
          /\ Increasing(m_write_buffer)
          /\ up => \A i \in 1 .. Len(wire), j \in 1 .. Len(m_write_buffer) : wire[i] < m_write_buffer[j]
    BY <1>0, <1>1 DEF OrderInv, Rerouted
  <2> QED BY <1>1, <2>1, <2>2, <2>3, <2>4, <2>5, <2>6, StoreStep, Zenon
<1> QED BY <1>3, <1>4, <1>5, <1>6

\* The route is lost under a write.
LEMMA LosesRouteStep ==
  ASSUME WriteInv, LosesRoute
  PROVE  WriteInv'
<1>0. TypeOK /\ NumberInv /\ OrderInv
  BY DEF WriteInv
<1>1. PICK k \in 0 .. Rest : Hand(k)
  BY DEF LosesRoute
<1>2. /\ wire' \in Seq(Bytes) /\ Len(wire') = Len(wire) + k
      /\ \A i \in 1 .. Len(wire) : wire'[i] = wire[i]
      /\ \A i \in 1 .. k : wire'[Len(wire) + i] = data[write_offset + i]
  BY <1>0, <1>1, HandAppends
<1>3. /\ Len(wire) \in Nat /\ k \in Nat /\ write_offset \in Nat /\ Len(data) \in Nat
      /\ write_offset + k <= Len(data)
  BY <1>0, <1>1, Types DEF Rest
<1>4. Len(wire') >= Len(wire)
  BY <1>2, <1>3
<1>5. UpTo(wire', numbered)
  <2> SUFFICES ASSUME NEW i \in 1 .. Len(wire') PROVE wire'[i] <= numbered
    BY DEF UpTo
  <2>1. CASE i <= Len(wire)
    BY <2>1, <1>0, <1>2, <1>3 DEF NumberInv, UpTo
  <2>2. CASE i > Len(wire)
    <3>1. i - Len(wire) \in 1 .. k /\ Len(wire) + (i - Len(wire)) = i
      BY <2>2, <1>2, <1>3
    <3>2. wire'[Len(wire) + (i - Len(wire))] = data[write_offset + (i - Len(wire))]
      BY <3>1, <1>2
    <3>3. write_offset + (i - Len(wire)) \in 1 .. Len(data)
      BY <3>1, <1>3
    <3> QED BY <3>1, <3>2, <3>3, <1>0 DEF NumberInv, UpTo
  <2> QED BY <2>1, <2>2, <1>2, <1>3
<1>6. Writing /\ Fails /\ Mishap("route") /\ up' = up /\ pc # "idle"
  BY DEF LosesRoute, Writing
<1>8. MishapsGrow /\ (~Rerouted' => ~Rerouted /\ pc # "flush")
  BY <1>0, <1>6 DEF Mishap, MishapsGrow, TypeOK, Rerouted
<1>9. ~Rerouted' => Increasing(wire')
  BY <1>0, <1>1, <1>6, <1>8, HandOrdered
<1>7. up' \in BOOLEAN
  BY <1>0, <1>6 DEF TypeOK
<1> QED BY <1>2, <1>4, <1>5, <1>6, <1>7, <1>8, <1>9, FailsStep

\* Every step keeps the invariant.
LEMMA NextWriteInv == WriteInv /\ [Next]_vars => WriteInv'
<1> SUFFICES ASSUME WriteInv, [Next]_vars PROVE WriteInv'
  OBVIOUS
<1>0. TypeOK /\ CallInv /\ NumberInv
  BY DEF WriteInv
<1>a. wire \in Seq(Bytes) /\ Len(wire) >= Len(wire) /\ up \in BOOLEAN
  BY <1>0, Types DEF TypeOK
<1>b. UpTo(wire, numbered)
  BY <1>0 DEF NumberInv
<1>c. ASSUME mishaps' = mishaps PROVE MishapsGrow /\ (Rerouted' <=> Rerouted)
  BY <1>0, <1>c DEF MishapsGrow, TypeOK, Rerouted
<1>d. ASSUME ~Rerouted PROVE Increasing(wire)
  BY <1>d DEF WriteInv, OrderInv
<1>1. ASSUME NEW n \in WriteSizes, write(n) PROVE WriteInv'
  BY <1>1, WriteStep
<1>2. CASE flush
  <2>1. /\ pc = "idle" /\ m_write_buffer # <<>> /\ flush_write_buffer(0)
        /\ wire' = wire /\ up' = up /\ mishaps' = mishaps
    BY <1>2 DEF flush
  <2>2. numbered + 0 <= MaxBytes /\ 0 \in WriteSizes \cup {0}
    BY <1>0, Types
  <2> QED BY <2>1, <2>2, FlushStep
<1>3. CASE WriteMore
  BY <1>3, WriteMoreStep
<1>4. CASE Completes
  <2>1. /\ pc # "idle" /\ Rest = 0 /\ Succeeds(Len(data)) /\ wire' = wire /\ up' = up
        /\ mishaps' = mishaps
    BY <1>4 DEF Completes
  <2>2. Len(data) = write_offset
    BY <2>1, <1>0, Types DEF Rest
  <2>3. Succeeds(write_offset)
    BY <2>1, <2>2
  <2> QED BY <1>c, <2>1, <2>3, SucceedsStep
<1>5. CASE TimesOut
  <2>1. Writing /\ pc # "idle" /\ wire' = wire /\ up' = up
    BY <1>5 DEF TimesOut, Writing
  <2>2. CASE write_offset = 0
    <3>1. Fails /\ mishaps' = mishaps
      BY <1>5, <2>2 DEF TimesOut
    <3>2. MishapsGrow /\ (~Rerouted' => Increasing(wire'))
      BY <1>c, <1>d, <2>1, <3>1
    <3> QED BY <1>a, <1>b, <2>1, <2>2, <3>1, <3>2, FailsStep
  <2>3. CASE write_offset # 0
    <3>1. Succeeds(write_offset) /\ Mishap("timeout")
      BY <1>5, <2>3 DEF TimesOut
    <3>2. MishapsGrow /\ (pc = "direct" \/ Cut')
      BY <1>0, <2>1, <3>1 DEF Mishap, MishapsGrow, TypeOK, Cut
    <3> QED BY <2>1, <3>1, <3>2, SucceedsStep
  <2> QED BY <2>2, <2>3
<1>6. CASE LosesRoute
  BY <1>6, LosesRouteStep
<1>7. CASE Abort
  <2>1. up' = FALSE /\ wire' = wire /\ mishaps' = mishaps
    BY <1>7 DEF Abort
  <2>2. CASE Writing
    <3>1. Fails
      BY <1>7, <2>2 DEF Abort
    <3>2. up' \in BOOLEAN
      BY <2>1, Zenon
    <3>3. MishapsGrow /\ (~Rerouted' => Increasing(wire'))
      BY <1>c, <1>d, <2>1
    <3> QED BY <1>a, <1>b, <2>1, <2>2, <3>1, <3>2, <3>3, FailsStep
  <2>3. CASE ~Writing
    <3>1. UNCHANGED <<m_write_buffer, pc, data, write_offset, then, numbered, promised>>
      BY <1>7, <2>3 DEF Abort
    <3>2. up' \in BOOLEAN
      BY <2>1, Zenon
    <3>3. TypeOK'
      BY <1>0, <2>1, <3>1, <3>2 DEF TypeOK
    <3>4. CallInv'
      BY <1>0, <2>3, <3>1 DEF CallInv, Writing, Rest
    <3>5. HandedInv' /\ NumberInv' /\ NothingLost'
      BY <2>1, <3>1 DEF WriteInv, HandedInv, NumberInv, NothingLost
    <3>6. OrderInv'
      BY <2>1, <3>1 DEF WriteInv, OrderInv, Rerouted
    <3> QED BY <3>3, <3>4, <3>5, <3>6 DEF WriteInv
  <2> QED BY <2>2, <2>3
<1>8. CASE UNCHANGED vars
  BY <1>8 DEF vars, WriteInv, TypeOK, CallInv, HandedInv, NumberInv, NothingLost, OrderInv, Rerouted, Writing, Rest
<1> QED BY <1>1, <1>2, <1>3, <1>4, <1>5, <1>6, <1>7, <1>8 DEF Next

LEMMA WriteInvHolds == Spec => []WriteInv
BY InitWriteInv, NextWriteInv, PTL DEF Spec

-----------------------------------------------------------------------------
(* Theorems. *)

\* The buffer never overflows and what the writes pass on is of its type, for
\* every buffer size and every mix of writes, flushes and failures.
THEOREM WriteTypeCorrect == Spec => []TypeOK
<1>1. WriteInv => TypeOK
  BY DEF WriteInv
<1> QED BY <1>1, WriteInvHolds, PTL

\* Unless a send timeout cuts a flush short, no byte of which write has said that
\* it is written is lost: neither a lost route nor an abort makes
\* flush_write_buffer drop it.
THEOREM NothingLostHolds == Spec => []NothingLost
<1>1. WriteInv => NothingLost
  BY DEF WriteInv
<1> QED BY <1>1, WriteInvHolds, PTL

\* As long as no route is lost under a flush TCP is handed every byte at most once
\* and in the order of the writes, also when send timeouts cut writes short.
THEOREM OnceInOrderHolds == Spec => []OnceInOrder
<1>1. WriteInv => OnceInOrder
  <2> SUFFICES ASSUME WriteInv, ~Rerouted
               PROVE  \A i, j \in DOMAIN wire : i < j => wire[i] < wire[j]
    BY DEF OnceInOrder, Rerouted
  <2>1. Increasing(wire) /\ TypeOK
    BY DEF WriteInv, OrderInv
  <2>2. DOMAIN wire = 1 .. Len(wire)
    BY <2>1, Types, LenProperties
  <2> QED BY <2>1, <2>2 DEF Increasing
<1> QED BY <1>1, WriteInvHolds, PTL
=============================================================================
