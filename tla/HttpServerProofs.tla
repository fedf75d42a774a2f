-------------------------- MODULE HttpServerProofs --------------------------
(***************************************************************************)
(* Proofs about HttpServer, for any number of clients and any requests.    *)
(***************************************************************************)
EXTENDS HttpServer, WellFoundedInduction, TLAPS

\* No step lets the server accept twice after stop().
LEMMA StopStep == StopInv /\ [Next]_vars => StopInv'
<1> SUFFICES ASSUME StopInv, [Next]_vars PROVE StopInv'
  OBVIOUS
<1> USE DEF StopInv
<1>1. CASE Stop
  BY <1>1 DEF Stop
<1>2. CASE GetContext
  BY <1>2 DEF GetContext
<1>3. CASE Accept
  <2>1. late' = (IF m_is_started THEN late ELSE late + 1) /\ pc = "accept" /\ pc' = "read"
        /\ m_is_started' = m_is_started
    BY <1>3 DEF Accept, StartLine
  <2> QED BY <2>1
<1>4. CASE AcceptFail \/ Wake
  BY <1>4 DEF AcceptFail, Wake
<1>5. CASE ReadFirst \/ ReadSecond
  <2>1. UNCHANGED <<late, m_is_started>> /\ pc' \in {"read", "read2", "line", "overrun"}
    BY <1>5 DEF ReadFirst, ReadSecond, AppendAll
  <2> QED BY <2>1
<1>6. CASE RequestLine
  BY <1>6 DEF RequestLine, StartLine
<1>7. CASE HeaderLine
  BY <1>7 DEF HeaderLine, StartLine
<1>8. CASE WritePart \/ WriteDone
  BY <1>8 DEF WritePart, WriteDone
<1>9. CASE \E c \in Clients : \/ \E r \in Requests : Connect(c, r)
                            \/ Arrive(c)
                            \/ \E how \in {"fin", "rst"} : Abort(c, how)
  BY <1>9 DEF Connect, Arrive, Abort
<1>10. CASE UNCHANGED vars
  BY <1>10 DEF vars
<1> QED BY <1>1, <1>2, <1>3, <1>4, <1>5, <1>6, <1>7, <1>8, <1>9, <1>10 DEF Next, Server

\* Httpd::stop lets at most one more connection in, whatever the thread is doing
\* when it is called.
THEOREM OneAfterStopHolds == Spec => []OneAfterStop
<1>1. Init => StopInv
  BY DEF Init, StopInv
<1>2. StopInv => OneAfterStop
  BY DEF StopInv, OneAfterStop
<1> QED BY <1>1, <1>2, StopStep, PTL DEF Spec

-----------------------------------------------------------------------------
\* The context that ends takes its connection with it.
LEMMA EndCloses == LeakInv /\ EndContext =>
                     /\ NoneLeaked'
                     /\ conn' \in [Clients -> {"no", "queued", "open", "closed"}]
<1> SUFFICES ASSUME LeakInv, EndContext
             PROVE /\ NoneLeaked'
                   /\ conn' \in [Clients -> {"no", "queued", "open", "closed"}]
  OBVIOUS
<1>1. conn' = [conn EXCEPT ![client] = "closed"]
  BY DEF EndContext, CloseClient
<1>2. conn \in [Clients -> {"no", "queued", "open", "closed"}]
  BY DEF LeakInv
<1>3. conn' \in [Clients -> {"no", "queued", "open", "closed"}]
  BY <1>1, <1>2
<1>4. ASSUME NEW c \in Clients, conn'[c] = "open" PROVE FALSE
  <2>1. conn[c] = "open" => client = c
    BY DEF LeakInv, NoneLeaked
  <2> QED BY <1>1, <1>2, <1>4, <2>1
<1> QED BY <1>3, <1>4 DEF NoneLeaked

\* A step that leaves the server's ends and the context alone keeps them.
LEMMA LeakKept ==
  ASSUME LeakInv, UNCHANGED <<conn, acceptmbox, client>>,
         pc' \in {"get", "sleep", "accept"} => pc \in {"get", "sleep", "accept"}
  PROVE  LeakInv'
  BY DEF LeakInv, NoneLeaked

\* No step loses a connection that has been accepted.
LEMMA LeakStep == LeakInv /\ [Next]_vars => LeakInv'
<1> SUFFICES ASSUME LeakInv, [Next]_vars PROVE LeakInv'
  OBVIOUS
<1>1. CASE Stop \/ GetContext \/ AcceptFail \/ Wake
  BY <1>1, LeakKept DEF Stop, GetContext, AcceptFail, Wake, connVars, ctxVars
<1>2. CASE Accept
  <2> DEFINE h == Head(acceptmbox)
  <2>1. /\ pc = "accept" /\ pc' = "read" /\ acceptmbox # <<>>
        /\ acceptmbox' = Tail(acceptmbox) /\ client' = h
        /\ conn' = [conn EXCEPT ![h] = "open"]
    BY <1>2 DEF Accept, StartLine
  <2>2. h \in Clients /\ acceptmbox' \in Seq(Clients)
    BY <2>1 DEF LeakInv
  <2>3. client = NoClient /\ client \notin Clients
    BY <2>1, HttpAssumption DEF LeakInv
  <2>4. conn \in [Clients -> {"no", "queued", "open", "closed"}]
    BY DEF LeakInv
  <2>5. \A c \in Clients : conn[c] # "open"
    BY <2>3 DEF LeakInv, NoneLeaked
  <2> HIDE DEF h
  <2>6. conn' \in [Clients -> {"no", "queued", "open", "closed"}]
    BY <2>1, <2>2, <2>4
  <2>7. \A c \in Clients : conn'[c] = "open" => client' = c
    BY <2>1, <2>2, <2>4, <2>5
  <2> QED BY <2>1, <2>2, <2>6, <2>7 DEF LeakInv, NoneLeaked
<1>3. CASE ReadFirst \/ ReadSecond
  <2>1. UNCHANGED <<conn, acceptmbox, client>> /\ pc' \in {"read", "read2", "line", "overrun"}
    BY <1>3 DEF ReadFirst, ReadSecond, AppendAll
  <2> QED BY <2>1, LeakKept
<1>4. CASE RequestLine
  <2>1. CASE EndContext /\ pc' = "sleep"
    <3>1. acceptmbox' = acceptmbox /\ client' = NoClient
      BY <1>4, <2>1 DEF RequestLine, EndContext
    <3> QED BY <2>1, <3>1, EndCloses DEF LeakInv
  <2>2. CASE StartLine(TRUE) /\ UNCHANGED <<client, conn>>
    <3>1. acceptmbox' = acceptmbox /\ pc' = "read"
      BY <1>4, <2>2 DEF RequestLine, StartLine
    <3> QED BY <2>2, <3>1, LeakKept
  <2> QED BY <1>4, <2>1, <2>2 DEF RequestLine
<1>5. CASE HeaderLine
  <2>1. UNCHANGED <<conn, acceptmbox, client>> /\ pc' \in {"read", "write"}
    BY <1>5 DEF HeaderLine, StartLine, connVars
  <2> QED BY <2>1, LeakKept
<1>6. CASE WritePart
  BY <1>6, LeakKept DEF WritePart
<1>7. CASE WriteDone
  <2>1. EndContext /\ acceptmbox' = acceptmbox /\ client' = NoClient
    BY <1>7 DEF WriteDone, EndContext
  <2> QED BY <2>1, EndCloses DEF LeakInv
<1>8. CASE \E c \in Clients : \/ Arrive(c)
                            \/ \E how \in {"fin", "rst"} : Abort(c, how)
  BY <1>8, LeakKept DEF Arrive, Abort, ctxVars
<1>9. CASE \E c \in Clients : \E r \in Requests : Connect(c, r)
  <2>1. PICK k \in Clients : \E r \in Requests : Connect(k, r)
    BY <1>9
  <2>2. /\ conn' = [conn EXCEPT ![k] = "queued"] /\ acceptmbox' = Append(acceptmbox, k)
        /\ UNCHANGED <<pc, client>>
    BY <2>1 DEF Connect, ctxVars
  <2>3. conn \in [Clients -> {"no", "queued", "open", "closed"}]
    BY DEF LeakInv
  <2>4. \A c \in Clients : conn[c] = "open" => client = c
    BY DEF LeakInv, NoneLeaked
  <2>5. conn' \in [Clients -> {"no", "queued", "open", "closed"}]
    BY <2>2, <2>3
  <2>6. \A c \in Clients : conn'[c] = "open" => client' = c
    BY <2>2, <2>3, <2>4
  <2>7. acceptmbox' \in Seq(Clients)
    BY <2>2 DEF LeakInv
  <2> QED BY <2>2, <2>5, <2>6, <2>7 DEF LeakInv, NoneLeaked
<1>10. CASE UNCHANGED vars
  BY <1>10, LeakKept DEF vars, connVars, ctxVars
<1> QED BY <1>1, <1>2, <1>3, <1>4, <1>5, <1>6, <1>7, <1>8, <1>9, <1>10 DEF Next, Server

\* Whatever happens to it, a connection that was accepted is closed before the
\* next one is: for any number of clients only the current one is open.
THEOREM NoneLeakedHolds == Spec => []NoneLeaked
<1>1. Init => LeakInv
  BY DEF Init, LeakInv, NoneLeaked
<1>2. LeakInv => NoneLeaked
  BY DEF LeakInv
<1> QED BY <1>1, <1>2, LeakStep, PTL DEF Spec

-----------------------------------------------------------------------------
(* Searching a line. *)

\* A non-empty set of numbers has a least element.
LEMMA LeastNat ==
  ASSUME NEW T \in SUBSET Nat, T # {}
  PROVE  \E x \in T : \A y \in T : x <= y
<1>1. \E x \in T : \A y \in T : ~(<<y, x>> \in OpToRel(<, Nat))
  BY NatLessThanWellFounded, WFMin, Zenon
<1>2. \A x, y \in Nat : y < x => <<y, x>> \in OpToRel(<, Nat)
  BY Zenon DEF OpToRel
<1>3. \E x \in T : \A y \in T : ~(y < x)
  <2>1. PICK x \in T : \A y \in T : ~(<<y, x>> \in OpToRel(<, Nat))
    BY <1>1, Zenon
  <2>2. x \in Nat /\ \A y \in T : y \in Nat
    OBVIOUS
  <2>3. \A y \in T : ~(y < x)
    BY <1>2, <2>1, <2>2, Zenon
  <2>4. QED
    BY <2>3
<1>4. QED
  BY <1>3

\* index_of gives the first place, or 0 when there is none.
LEMMA IndexOfFirst ==
  ASSUME NEW s \in Seq(Char), NEW x, NEW k \in Nat, k >= 1
  PROVE  \/ IndexOf(s, x, k) = 0 /\ \A i \in k .. Len(s) : s[i] # x
         \/ /\ IndexOf(s, x, k) \in k .. Len(s) /\ s[IndexOf(s, x, k)] = x
            /\ \A i \in k .. IndexOf(s, x, k) - 1 : s[i] # x
<1> DEFINE places == {i \in k .. Len(s) : s[i] = x}
<1>1. IndexOf(s, x, k) =
        IF places = {} THEN 0 ELSE CHOOSE i \in places : \A j \in places : i <= j
  BY Zenon DEF IndexOf
<1>2. CASE places = {}
  BY <1>1, <1>2
<1>3. CASE places # {}
  <2>1. places \in SUBSET Nat
    OBVIOUS
  <2>2. \E i \in places : \A j \in places : i <= j
    BY <1>3, <2>1, LeastNat, Zenon
  <2> DEFINE f == IndexOf(s, x, k)
  <2>3. f = CHOOSE i \in places : \A j \in places : i <= j
    BY <1>1, <1>3
  <2> HIDE DEF f
  <2>4. f \in places /\ \A j \in places : f <= j
    <3> HIDE DEF places
    <3> QED BY <2>2, <2>3, Zenon
  <2>5. f \in k .. Len(s) /\ s[f] = x /\ \A i \in k .. f - 1 : s[i] # x
    BY <2>4
  <2> QED BY <2>5 DEF f
<1> QED BY <1>2, <1>3

\* The first CR LF of a request ends its first line.
LEMMA FirstLineEndIs ==
  ASSUME NEW r, NEW n \in Nat, Len(r) \in Nat, n \in 1 .. Len(r) - 1,
         CrLf(r, n), NoCrLf(r, 0, n)
  PROVE  FirstLineEnd(r) = n
<1> DEFINE E(i) == /\ r[i] = "cr" /\ r[i + 1] = "lf"
                   /\ \A j \in 1 .. i - 1 : ~(r[j] = "cr" /\ r[j + 1] = "lf")
<1>1. E(n)
  BY DEF CrLf, NoCrLf
<1>2. \A i \in 1 .. Len(r) - 1 : E(i) => i = n
  <2> SUFFICES ASSUME NEW i \in 1 .. Len(r) - 1, E(i) PROVE i = n
    OBVIOUS
  <2>1. ~(i < n)
    BY <1>1
  <2>2. ~(n < i)
    BY DEF CrLf
  <2> QED BY <2>1, <2>2
<1>3. FirstLineEnd(r) = CHOOSE i \in 1 .. Len(r) - 1 : E(i)
  BY Zenon DEF FirstLineEnd
<1> HIDE DEF E
<1> QED BY <1>1, <1>2, <1>3

\* A Request-Line without a space is malformed; the url of one with a space is
\* "/" exactly when the request asks for the root.
LEMMA RequestLineParsed ==
  ASSUME NEW r, NEW l \in Seq(Char), FirstLineEnd(r) = Len(l) + 1,
         r[Len(l) + 1] = "cr",
         \A j \in 1 .. Len(l) : l[j] = r[j]
  PROVE  /\ IndexOf(l, "sp", 1) = 0 <=> Malformed(r)
         /\ IndexOf(l, "sp", 1) # 0 => (Url(l) = <<"/">> <=> AsksForRoot(r))
<1> DEFINE p0 == IndexOf(l, "sp", 1)
           p1 == IndexOf(l, "sp", p0 + 1)
           n == IF p1 = 0 THEN Len(l) ELSE p1 - 1
<1>1. Len(l) \in Nat
  OBVIOUS
<1>2. \/ p0 = 0 /\ \A i \in 1 .. Len(l) : l[i] # "sp"
      \/ p0 \in 1 .. Len(l) /\ l[p0] = "sp" /\ \A i \in 1 .. p0 - 1 : l[i] # "sp"
  BY IndexOfFirst
<1> HIDE DEF p0
<1>3. p0 \in Nat
  BY <1>1, <1>2
<1>4. \/ p1 = 0 /\ \A i \in p0 + 1 .. Len(l) : l[i] # "sp"
      \/ /\ p1 \in p0 + 1 .. Len(l) /\ l[p1] = "sp"
         /\ \A i \in p0 + 1 .. p1 - 1 : l[i] # "sp"
  BY <1>3, IndexOfFirst
<1>5. Url(l) = SubSeq(l, p0 + 1, n)
  BY Zenon DEF Url, p0
<1> HIDE DEF p1
<1>6. p0 = 0 <=> Malformed(r)
  BY <1>1, <1>2 DEF Malformed
<1>7. ASSUME p0 # 0 PROVE Url(l) = <<"/">> <=> AsksForRoot(r)
  <2>1. n \in Nat /\ p0 <= n /\ n <= Len(l)
    BY <1>1, <1>2, <1>4, <1>7
  <2>2. Url(l) = <<"/">> <=> n = p0 + 1 /\ l[p0 + 1] = "/"
    <3> HIDE DEF n
    <3>1. SubSeq(l, p0 + 1, n) \in Seq(Char)
      BY <1>1, <1>3, <2>1
    <3>2. Len(SubSeq(l, p0 + 1, n)) = n - p0
      BY <1>1, <1>3, <2>1
    <3>3. n > p0 => SubSeq(l, p0 + 1, n)[1] = l[p0 + 1]
      BY <1>1, <1>3, <2>1
    <3>4. \A u \in Seq(Char) : u = <<"/">> <=> Len(u) = 1 /\ u[1] = "/"
      OBVIOUS
    <3> DEFINE u == SubSeq(l, p0 + 1, n)
    <3> HIDE DEF u
    <3>5. u = <<"/">> <=> Len(u) = 1 /\ u[1] = "/"
      BY <3>1, <3>4 DEF u
    <3>6. Len(u) = n - p0 /\ (n > p0 => u[1] = l[p0 + 1]) /\ Url(l) = u
      BY <1>5, <3>2, <3>3 DEF u
    <3> QED BY <1>3, <2>1, <3>5, <3>6
  <2>3. ASSUME n = p0 + 1, l[p0 + 1] = "/" PROVE AsksForRoot(r)
    <3>1. p0 \in 1 .. FirstLineEnd(r) - 2
      BY <1>1, <1>2, <1>7, <2>1, <2>3
    <3>2. r[p0] = "sp" /\ r[p0 + 1] = "/" /\ \A j \in 1 .. p0 - 1 : r[j] # "sp"
      <4>1. l[p0] = "sp" /\ p0 \in 1 .. Len(l) /\ p0 + 1 \in 1 .. Len(l)
        BY <1>1, <1>2, <1>7, <2>1, <2>3
      <4>2. \A j \in 1 .. p0 - 1 : l[j] # "sp" /\ j \in 1 .. Len(l)
        BY <1>1, <1>2, <1>7
      <4> QED BY <2>3, <4>1, <4>2
    <3>3. p0 + 2 = FirstLineEnd(r) \/ r[p0 + 2] = "sp"
      BY <1>1, <1>2, <1>4, <1>7, <2>3
    <3> QED BY <3>1, <3>2, <3>3 DEF AsksForRoot
  <2>4. ASSUME AsksForRoot(r) PROVE n = p0 + 1 /\ l[p0 + 1] = "/"
    <3>1. PICK i \in 1 .. FirstLineEnd(r) - 2 :
            /\ r[i] = "sp" /\ r[i + 1] = "/" /\ \A j \in 1 .. i - 1 : r[j] # "sp"
            /\ i + 2 = FirstLineEnd(r) \/ r[i + 2] = "sp"
      BY <2>4 DEF AsksForRoot
    <3>2. i = p0
      BY <1>1, <1>2, <1>7, <3>1
    <3>3. p0 + 1 \in 1 .. Len(l) /\ l[p0 + 1] = "/"
      BY <1>1, <3>1, <3>2
    <3>4. CASE p0 + 2 = Len(l) + 1
      BY <1>1, <1>3, <1>4, <3>3, <3>4
    <3>5. CASE p0 + 2 # Len(l) + 1
      <4>1. p0 + 2 \in 1 .. Len(l) /\ l[p0 + 2] = "sp"
        BY <1>1, <3>1, <3>2, <3>5
      <4>2. p1 = p0 + 2
        BY <1>1, <1>3, <1>4, <3>3, <4>1
      <4> QED BY <1>3, <3>3, <4>2
    <3> QED BY <3>4, <3>5
  <2> QED BY <2>2, <2>3, <2>4
<1> QED BY <1>6, <1>7 DEF p0

-----------------------------------------------------------------------------
(* The answers. *)

\* The head of an answer is four writes.
LEMMA HeaderTyped ==
  ASSUME NEW code \in Nat, NEW n \in Nat
  PROVE  Header(code, n) \in Seq(Part) /\ Len(Header(code, n)) = 4
<1>1. /\ <<"HTTP/1.1", 0>> \in Part /\ <<"code", code>> \in Part
      /\ <<"Content-Length", n>> \in Part /\ <<"crlf", 0>> \in Part
  BY DEF Part
<1>2. \A a, b, c, d \in Part :
        <<a, b, c, d>> \in Seq(Part) /\ Len(<<a, b, c, d>>) = 4
  OBVIOUS
<1> QED BY <1>1, <1>2, Zenon DEF Header

\* What write_response writes is the answer, when the url was read rightly.
LEMMA WritesAre ==
  /\ Writes(TRUE) = Header(200, 1) \o << <<"time", 1>> >>
  /\ Writes(FALSE) = Header(404, 0)
<1>1. Body(TRUE) = << <<"time", 1>> >> /\ TotalSize(TRUE) = 1
  BY DEF Body, TotalSize
<1>2. Body(FALSE) = <<>> /\ TotalSize(FALSE) = 0
  BY DEF Body, TotalSize
<1>3. Writes(TRUE) = Header(200, 1) \o << <<"time", 1>> >>
  BY <1>1, Zenon DEF Writes, Header
<1>4. Writes(FALSE) = Header(404, 0) \o <<>>
  BY <1>2, Zenon DEF Writes, Header
<1>5. \A h \in Seq(Part) : h \o <<>> = h
  OBVIOUS
<1>6. Header(404, 0) \in Seq(Part)
  BY HeaderTyped
<1>7. Header(404, 0) \o <<>> = Header(404, 0)
  BY <1>5, <1>6, Zenon
<1> QED BY <1>3, <1>4, <1>7, Zenon

\* An answer is four or five writes.
LEMMA WritesTyped ==
  ASSUME NEW ok \in BOOLEAN
  PROVE  Writes(ok) \in Seq(Part) /\ Len(Writes(ok)) \in {4, 5}
<1>1. CASE ok = TRUE
  <2>1. << <<"time", 1>> >> \in Seq(Part) /\ Len(<< <<"time", 1>> >>) = 1
    <3>1. <<"time", 1>> \in Part
      BY DEF Part
    <3>2. \A a \in Part : <<a>> \in Seq(Part) /\ Len(<<a>>) = 1
      OBVIOUS
    <3> QED BY <3>1, <3>2
  <2>2. \A h, b \in Seq(Part) :
          h \o b \in Seq(Part) /\ Len(h \o b) = Len(h) + Len(b)
    OBVIOUS
  <2>3. Header(200, 1) \in Seq(Part) /\ Len(Header(200, 1)) = 4
    BY HeaderTyped
  <2> DEFINE h == Header(200, 1)
             b == << <<"time", 1>> >>
  <2>4. Writes(ok) = h \o b
    BY <1>1, WritesAre, Zenon
  <2> HIDE DEF h, b
  <2>5. h \in Seq(Part) /\ Len(h) = 4 /\ b \in Seq(Part) /\ Len(b) = 1
    BY <2>1, <2>3 DEF h, b
  <2>6. h \o b \in Seq(Part) /\ Len(h \o b) = Len(h) + Len(b)
    BY <2>2, <2>5, Zenon
  <2> QED BY <2>4, <2>5, <2>6
<1>2. CASE ok = FALSE
  <2>1. Writes(ok) = Header(404, 0)
    BY <1>2, WritesAre, Zenon
  <2>2. Header(404, 0) \in Seq(Part) /\ Len(Header(404, 0)) = 4
    BY HeaderTyped
  <2> QED BY <2>1, <2>2
<1> QED BY <1>1, <1>2

\* For a well-formed Request-Line the writes are the answer it should get.
LEMMA WritesAnswer ==
  ASSUME NEW r, NEW ok \in BOOLEAN, ~Malformed(r), ok = TRUE <=> AsksForRoot(r)
  PROVE  Writes(ok) = Answer(r)
  BY WritesAre DEF Answer

-----------------------------------------------------------------------------
(* Connections before they are served. *)

\* A character that is read is the next one of the client's request, or the
\* read has failed.
LEMMA ReadIs ==
  ASSUME NEW x, ReadInto(x)
  PROVE  \/ /\ read[client] < sent[client] /\ x = req[client][read[client] + 1]
            /\ read' = [read EXCEPT ![client] = @ + 1] /\ failed' = failed
         \/ failed' = failed \cup {client} /\ read' = read
  BY Zenon DEF ReadInto

\* What read_line changes.
LEMMA ReadStep ==
  ASSUME ReadFirst \/ ReadSecond
  PROVE  /\ pc \in {"read", "read2"} /\ pc' \in {"read", "read2", "line", "overrun"}
         /\ UNCHANGED <<req, sent, peer, conn, out, acceptmbox, m_is_started, client,
                        inHeaders, found, written, m_error, late>>
         /\ \/ /\ read[client] < sent[client]
               /\ read' = [read EXCEPT ![client] = @ + 1] /\ failed' = failed
            \/ failed' = failed \cup {client} /\ read' = read
<1>1. CASE ReadFirst
  <2>1. PICK x \in Char : /\ ReadInto(x)
                          /\ \/ pc' = "read2"
                             \/ AppendAll(<<x>>)
    BY <1>1, Zenon DEF ReadFirst
  <2>2. pc' \in {"read", "read2", "overrun"}
    BY <2>1 DEF AppendAll
  <2> QED BY <1>1, <2>1, <2>2, ReadIs DEF ReadFirst
<1>2. CASE ReadSecond
  <2>1. PICK x \in Char : /\ ReadInto(x)
                          /\ \/ pc' = "line"
                             \/ AppendAll(<<"cr", x>>)
    BY <1>2, Zenon DEF ReadSecond
  <2>2. pc' \in {"read", "line", "overrun"}
    BY <2>1 DEF AppendAll
  <2> QED BY <1>2, <2>1, <2>2, ReadIs DEF ReadSecond
<1> QED BY <1>1, <1>2

\* A step that leaves the connections alone keeps them fresh and queued.
LEMMA QueueKept ==
  ASSUME QueueInv, UNCHANGED <<req, sent, read, peer, conn, out, acceptmbox, client, failed>>,
         pc' \notin {"get", "sleep", "accept"} => pc \notin {"get", "sleep", "accept"}
  PROVE  QueueInv'
  BY DEF QueueInv, ConnTypes, Fresh, QueuedOnce

\* The connection of a context that ends was accepted before.
LEMMA QueueEnd ==
  ASSUME LeakInv, QueueInv, EndContext, pc \notin {"get", "sleep", "accept"},
         pc' \in {"get", "sleep", "accept"},
         UNCHANGED <<req, sent, read, peer, out, acceptmbox, failed>>
  PROVE  QueueInv'
<1>1. /\ conn' = [conn EXCEPT ![client] = "closed"] /\ client \in Clients
      /\ conn[client] = "open"
      /\ conn \in [Clients -> {"no", "queued", "open", "closed"}]
      /\ acceptmbox \in Seq(Clients)
  BY DEF EndContext, CloseClient, LeakInv, QueueInv
<1>2. \A c \in Clients : Fresh(c)'
  <2> SUFFICES ASSUME NEW c \in Clients PROVE Fresh(c)'
    OBVIOUS
  <2>1. Fresh(c) /\ Fresh(client)
    BY <1>1 DEF QueueInv
  <2> QED BY <1>1, <2>1 DEF Fresh
<1>3. QueuedOnce'
  <2>1. \A j \in 1 .. Len(acceptmbox) : acceptmbox[j] \in Clients /\ conn[acceptmbox[j]] = "queued"
    BY <1>1 DEF QueueInv, QueuedOnce
  <2>2. \A j \in 1 .. Len(acceptmbox) : conn'[acceptmbox[j]] = "queued"
    BY <1>1, <2>1
  <2> QED BY <2>2 DEF QueueInv, QueuedOnce
<1> QED BY <1>2, <1>3 DEF QueueInv, ConnTypes

\* QueueInv is inductive.
LEMMA QueueStep == LeakInv /\ AnswerTypes /\ QueueInv /\ [Next]_vars => QueueInv'
<1> SUFFICES ASSUME LeakInv, AnswerTypes, QueueInv, [Next]_vars PROVE QueueInv'
  OBVIOUS
<1>0. /\ conn \in [Clients -> {"no", "queued", "open", "closed"}]
      /\ acceptmbox \in Seq(Clients)
  BY DEF LeakInv
<1>1. CASE Stop \/ GetContext \/ AcceptFail \/ Wake
  BY <1>1, QueueKept DEF Stop, GetContext, AcceptFail, Wake, connVars, ctxVars
<1>2. CASE Accept
  <2> DEFINE h == Head(acceptmbox)
  <2>1. /\ pc' = "read" /\ acceptmbox # <<>>
        /\ acceptmbox' = Tail(acceptmbox) /\ client' = h
        /\ conn' = [conn EXCEPT ![h] = "open"]
        /\ UNCHANGED <<req, sent, read, peer, out, failed>>
    BY <1>2 DEF Accept, StartLine
  <2>2. h \in Clients /\ h = acceptmbox[1] /\ Len(acceptmbox) \in Nat /\ Len(acceptmbox) >= 1
    BY <1>0, <2>1
  <2>3. /\ Len(acceptmbox') = Len(acceptmbox) - 1
        /\ \A j \in 1 .. Len(acceptmbox) - 1 : acceptmbox'[j] = acceptmbox[j + 1]
    BY <1>0, <2>1
  <2>4. conn[h] = "queued"
    BY <2>2 DEF QueueInv, QueuedOnce
  <2> HIDE DEF h
  <2>5. \A c \in Clients : Fresh(c)'
    <3> SUFFICES ASSUME NEW c \in Clients PROVE Fresh(c)'
      OBVIOUS
    <3>1. Fresh(c)
      BY DEF QueueInv
    <3>2. conn'[c] = IF c = h THEN "open" ELSE conn[c]
      BY <1>0, <2>1, <2>2
    <3> QED BY <2>1, <2>4, <3>1, <3>2 DEF Fresh
  <2>6. QueuedOnce'
    <3>1. ASSUME NEW j \in 1 .. Len(acceptmbox) - 1 PROVE conn'[acceptmbox[j + 1]] = "queued"
      <4>1. j + 1 \in 1 .. Len(acceptmbox) /\ 1 \in 1 .. Len(acceptmbox) /\ j + 1 # 1
        BY <2>2
      <4>2. acceptmbox[j + 1] # h /\ conn[acceptmbox[j + 1]] = "queued"
        BY <2>2, <4>1 DEF QueueInv, QueuedOnce
      <4>3. acceptmbox[j + 1] \in Clients
        BY <1>0, <4>1
      <4> QED BY <1>0, <2>1, <2>2, <4>2, <4>3
    <3>2. ASSUME NEW j \in 1 .. Len(acceptmbox) - 1, NEW k \in 1 .. Len(acceptmbox) - 1,
                 acceptmbox[j + 1] = acceptmbox[k + 1]
          PROVE  j = k
      <4>1. j + 1 \in 1 .. Len(acceptmbox) /\ k + 1 \in 1 .. Len(acceptmbox)
        BY <2>2
      <4>2. j + 1 = k + 1
        BY <3>2, <4>1 DEF QueueInv, QueuedOnce
      <4> QED BY <4>2
    <3> QED BY <2>3, <3>1, <3>2 DEF QueuedOnce
  <2>7. conn'[h] = "open"
    BY <1>0, <2>1, <2>2
  <2>8. ConnTypes'
    BY <2>1 DEF QueueInv, ConnTypes
  <2> QED BY <2>1, <2>2, <2>5, <2>6, <2>7, <2>8 DEF QueueInv
<1>3. CASE ReadFirst \/ ReadSecond
  <2>1. /\ pc \in {"read", "read2"}
        /\ UNCHANGED <<req, sent, peer, conn, out, acceptmbox, client>>
        /\ \/ /\ read[client] < sent[client]
              /\ read' = [read EXCEPT ![client] = @ + 1] /\ failed' = failed
           \/ failed' = failed \cup {client} /\ read' = read
    BY <1>3, ReadStep
  <2>2. client \in Clients /\ conn[client] = "open"
    BY <2>1 DEF QueueInv
  <2>3. /\ read' \in [Clients -> Nat] /\ \A c \in Clients : c # client => read'[c] = read[c]
        /\ \A c \in Clients : c # client => (c \in failed' <=> c \in failed)
        /\ read'[client] <= sent[client]
    <3>0. read[client] <= sent[client] /\ sent[client] \in Nat
      BY <2>2 DEF QueueInv, Fresh, ConnTypes
    <3>1. read \in [Clients -> Nat]
      BY DEF QueueInv, ConnTypes
    <3>2. CASE read' = [read EXCEPT ![client] = @ + 1] /\ failed' = failed
                  /\ read[client] < sent[client]
      BY <2>2, <3>0, <3>1, <3>2
    <3>3. CASE failed' = failed \cup {client} /\ read' = read
      BY <3>0, <3>1, <3>3
    <3> QED BY <2>1, <3>2, <3>3
  <2>4. \A c \in Clients : Fresh(c)'
    BY <2>1, <2>2, <2>3 DEF QueueInv, Fresh
  <2>5. QueuedOnce'
    BY <2>1 DEF QueueInv, QueuedOnce
  <2> QED BY <2>1, <2>2, <2>3, <2>4, <2>5 DEF QueueInv, ConnTypes
<1>4. CASE RequestLine
  <2>0. pc = "line" /\ UNCHANGED <<req, sent, read, peer, out, acceptmbox, failed>>
    BY <1>4 DEF RequestLine
  <2>1. CASE EndContext /\ pc' = "sleep"
    BY <2>0, <2>1, QueueEnd
  <2>2. CASE StartLine(TRUE) /\ UNCHANGED <<client, conn>>
    BY <2>0, <2>2, QueueKept
  <2> QED BY <1>4, <2>1, <2>2 DEF RequestLine
<1>5. CASE HeaderLine
  BY <1>5, QueueKept DEF HeaderLine, connVars
<1>6. CASE WritePart
  <2>1. /\ pc = "write" /\ UNCHANGED <<req, sent, read, peer, conn, acceptmbox, client, failed, pc>>
        /\ \/ out' = [out EXCEPT ![client] = Append(@, Writes(found)[written + 1])]
           \/ out' = out
    BY <1>6, Zenon DEF WritePart
  <2>2. client \in Clients /\ conn[client] = "open"
    BY <2>1 DEF QueueInv
  <2>4. \A c \in Clients : c # client => out'[c] = out[c]
    BY <2>1, <2>2 DEF AnswerTypes
  <2>5. \A c \in Clients : Fresh(c)'
    BY <2>1, <2>2, <2>4 DEF QueueInv, Fresh
  <2> QED BY <2>1, <2>2, <2>5 DEF QueueInv, ConnTypes, QueuedOnce
<1>7. CASE WriteDone
  <2>1. /\ EndContext /\ pc = "write" /\ pc' = "get"
        /\ UNCHANGED <<req, sent, read, peer, out, acceptmbox, failed>>
    BY <1>7 DEF WriteDone
  <2> QED BY <2>1, QueueEnd
<1>8. ASSUME NEW c \in Clients, Arrive(c) PROVE QueueInv'
  <2>1. PICK n \in Cuts \cup {Len(req[c])} :
          sent[c] < n /\ n <= Len(req[c]) /\ sent' = [sent EXCEPT ![c] = n]
    BY <1>8 DEF Arrive
  <2>2. /\ UNCHANGED <<req, read, peer, conn, out, acceptmbox, pc, client, failed>>
        /\ peer[c] = "up" /\ n \in Nat
    BY <1>8, <2>1, HttpAssumption DEF Arrive, ctxVars, QueueInv, ConnTypes
  <2>3. sent' \in [Clients -> Nat] /\ sent'[c] = n /\ \A k \in Clients : k # c => sent'[k] = sent[k]
    BY <2>1, <2>2 DEF QueueInv, ConnTypes
  <2>4. \A k \in Clients : Fresh(k)'
    <3> SUFFICES ASSUME NEW k \in Clients PROVE Fresh(k)'
      OBVIOUS
    <3>1. Fresh(k) /\ read[k] \in Nat /\ sent[k] \in Nat
      BY DEF QueueInv, ConnTypes
    <3> QED BY <2>1, <2>2, <2>3, <3>1 DEF Fresh
  <2> QED BY <2>2, <2>3, <2>4 DEF QueueInv, ConnTypes, QueuedOnce
<1>9. ASSUME NEW c \in Clients, NEW how \in {"fin", "rst"}, Abort(c, how) PROVE QueueInv'
  <2>1. /\ UNCHANGED <<req, sent, read, conn, out, acceptmbox, pc, client, failed>>
        /\ peer[c] = "up" /\ peer' = [peer EXCEPT ![c] = how]
    BY <1>9 DEF Abort, ctxVars
  <2>2. /\ peer' \in [Clients -> {"no", "up", "fin", "rst"}]
        /\ \A k \in Clients : k # c => peer'[k] = peer[k]
    BY <2>1 DEF QueueInv, ConnTypes
  <2>3. \A k \in Clients : Fresh(k)'
    BY <2>1, <2>2 DEF QueueInv, Fresh
  <2>4. ConnTypes'
    BY <2>1, <2>2 DEF QueueInv, ConnTypes
  <2>5. QueuedOnce'
    BY <2>1 DEF QueueInv, QueuedOnce
  <2>6. pc' \notin {"get", "sleep", "accept"} => client' \in Clients /\ conn'[client'] = "open"
    BY <2>1 DEF QueueInv
  <2> QED BY <2>3, <2>4, <2>5, <2>6 DEF QueueInv
<1>10. ASSUME NEW c \in Clients, NEW r \in Requests, Connect(c, r) PROVE QueueInv'
  <2>1. /\ conn[c] = "no" /\ req' = [req EXCEPT ![c] = r] /\ peer' = [peer EXCEPT ![c] = "up"]
        /\ conn' = [conn EXCEPT ![c] = "queued"] /\ acceptmbox' = Append(acceptmbox, c)
        /\ UNCHANGED <<sent, read, out, pc, client, failed>>
    BY <1>10 DEF Connect, ctxVars
  <2>2. r \in Seq(Char)
    BY HttpAssumption
  <2>3. ConnTypes'
    BY <2>1, <2>2 DEF QueueInv, ConnTypes
  <2>4. /\ conn'[c] = "queued" /\ \A k \in Clients : k # c => conn'[k] = conn[k]
        /\ req'[c] = r /\ \A k \in Clients : k # c => req'[k] = req[k]
        /\ \A k \in Clients : k # c => peer'[k] = peer[k]
    BY <1>0, <2>1 DEF QueueInv, ConnTypes
  <2>5. \A k \in Clients : Fresh(k)'
    <3> SUFFICES ASSUME NEW k \in Clients PROVE Fresh(k)'
      OBVIOUS
    <3>1. Fresh(k)
      BY DEF QueueInv
    <3>2. CASE k = c
      <4>1. sent[c] = 0 /\ Len(r) \in Nat
        BY <2>1, <2>2, <3>1, <3>2 DEF Fresh
      <4> QED BY <2>1, <2>4, <3>1, <3>2, <4>1 DEF Fresh
    <3>3. CASE k # c
      BY <2>1, <2>4, <3>1, <3>3 DEF Fresh
    <3> QED BY <3>2, <3>3
  <2>6. QueuedOnce'
    <3>1. /\ Len(acceptmbox') = Len(acceptmbox) + 1 /\ Len(acceptmbox) \in Nat
          /\ acceptmbox'[Len(acceptmbox) + 1] = c
          /\ \A j \in 1 .. Len(acceptmbox) : acceptmbox'[j] = acceptmbox[j]
      BY <1>0, <2>1
    <3>2. \A j \in 1 .. Len(acceptmbox) :
            acceptmbox[j] \in Clients /\ conn[acceptmbox[j]] = "queued" /\ acceptmbox[j] # c
      BY <1>0, <2>1 DEF QueueInv, QueuedOnce
    <3>3. \A j \in 1 .. Len(acceptmbox) : conn'[acceptmbox[j]] = "queued"
      BY <2>4, <3>2
    <3>4. \A j \in 1 .. Len(acceptmbox') : conn'[acceptmbox'[j]] = "queued"
      BY <2>4, <3>1, <3>3
    <3>5. ASSUME NEW j \in 1 .. Len(acceptmbox'), NEW k \in 1 .. Len(acceptmbox'),
                 acceptmbox'[j] = acceptmbox'[k]
          PROVE  j = k
      <4>1. \A a, b \in 1 .. Len(acceptmbox) : acceptmbox[a] = acceptmbox[b] => a = b
        BY DEF QueueInv, QueuedOnce
      <4> QED BY <3>1, <3>2, <3>5, <4>1
    <3> QED BY <3>4, <3>5 DEF QueuedOnce
  <2>7. pc' \notin {"get", "sleep", "accept"} => client' \in Clients /\ conn'[client'] = "open"
    BY <2>1, <2>4 DEF QueueInv
  <2> QED BY <2>3, <2>5, <2>6, <2>7 DEF QueueInv
<1>11. CASE UNCHANGED vars
  BY <1>11, QueueKept DEF vars, connVars, ctxVars
<1> QED BY <1>1, <1>2, <1>3, <1>4, <1>5, <1>6, <1>7, <1>8, <1>9, <1>10, <1>11 DEF Next, Server

-----------------------------------------------------------------------------
(* Lines. *)

\* A step that leaves the line, the client and the client's request alone keeps
\* the line what it is.
LEMMA LineKept ==
  ASSUME LineInv, UNCHANGED <<line, inHeaders, pc, client, failed>>,
         Reading => req'[client] = req[client] /\ read'[client] = read[client]
  PROVE  LineInv'
<1>1. Reading' <=> Reading
  BY DEF Reading
<1>2. ASSUME Reading, client \notin failed
      PROVE  pc # "overrun" /\ \E s \in 0 .. read[client] : LineFrom(req[client], read[client], s)'
  <2>1. PICK s \in 0 .. read[client] : LineFrom(req[client], read[client], s)
    BY <1>2 DEF LineInv
  <2>2. LineFrom(req[client], read[client], s)'
    BY <1>2, <2>1 DEF LineFrom, Lag
  <2> QED BY <1>2, <2>2 DEF LineInv
<1> QED BY <1>1, <1>2 DEF LineInv

\* A new line starts empty, where the last one ended.
LEMMA LineBegins ==
  ASSUME NEW r, NEW n \in Nat, NEW headers \in BOOLEAN, StartLine(headers),
         client' \notin failed' => req'[client'] = r /\ read'[client'] = n /\ LineStart(r, n),
         n = 0 <=> headers = FALSE
  PROVE  LineInv'
<1>1. line' = <<>> /\ inHeaders' = headers /\ pc' = "read"
  BY DEF StartLine, ClearLine
<1>2. line' \in Seq(Char) /\ Len(line') = 0 /\ inHeaders' \in BOOLEAN
  BY <1>1
<1>3. ASSUME client' \notin failed'
      PROVE  LineFrom(req[client], read[client], n)'
  <2>1. Lag' = 0
    BY <1>1 DEF Lag
  <2>2. NoCrLf(r, n, n)
    BY DEF NoCrLf
  <2>3. req'[client'] = r /\ read'[client'] = n /\ LineStart(r, n)
    BY <1>3
  <2>4. /\ n = n + Len(line') + Lag' /\ ~(n > n)
        /\ \A j \in 1 .. Len(line') : FALSE
    BY <1>2, <2>1
  <2> QED BY <1>1, <2>2, <2>3, <2>4 DEF LineFrom
<1>4. client' \notin failed' => n \in 0 .. read'[client']
  OBVIOUS
<1> QED BY <1>1, <1>2, <1>3, <1>4 DEF LineInv

\* After a line the next one may begin.
LEMMA LineEnded ==
  ASSUME QueueInv, LineInv, pc = "line", client \notin failed
  PROVE  /\ read[client] \in Nat /\ read[client] >= 2
         /\ LineStart(req[client], read[client])
<1>1. PICK s \in 0 .. read[client] : LineFrom(req[client], read[client], s)
  BY DEF LineInv, Reading
<1>2. client \in Clients /\ read[client] \in Nat /\ Len(line) \in Nat
  BY DEF QueueInv, ConnTypes, LineInv
<1>3. read[client] = s + Len(line) + 2 /\ CrLf(req[client], read[client] - 1)
  BY <1>1 DEF LineFrom, Lag
<1> QED BY <1>2, <1>3 DEF LineStart

\* The characters of a line fit the buffer.
LEMMA LineFits ==
  ASSUME NEW r, WellFormed(r), Len(r) \in Nat,
         NEW s \in Nat, NEW e \in Nat, s < e, e <= Len(r),
         LineStart(r, s), NoCrLf(r, s, e), r[e] # "cr"
  PROVE  e - s <= Capacity
  BY DEF WellFormed

\* It suffices to know the line for the request and the place after the step.
LEMMA LineAfter ==
  ASSUME NEW r, NEW n \in Nat, NEW s \in 0 .. n,
         line' \in Seq(Char), inHeaders' \in BOOLEAN, pc' # "overrun",
         req'[client'] = r, read'[client'] = n,
         LineFrom(r, n, s)'
  PROVE  LineInv'
<1>1. LineFrom(req[client], read[client], s)'
  BY DEF LineFrom, Lag
<1>2. s \in 0 .. read'[client']
  OBVIOUS
<1> QED BY <1>1, <1>2 DEF LineInv

\* What is known when read_line has read another character x.
LEMMA LineReads ==
  ASSUME \A r \in Requests : WellFormed(r), QueueInv, LineInv,
         pc \in {"read", "read2"}, NEW x \in Char, ReadInto(x), client \notin failed',
         NEW r, NEW n, r = req[client], n = read[client],
         UNCHANGED <<req, client, inHeaders>>
  PROVE  /\ n \in Nat /\ r \in Seq(Char) /\ Len(r) \in Nat /\ WellFormed(r)
         /\ line \in Seq(Char) /\ Len(line) \in Nat /\ inHeaders \in BOOLEAN
         /\ req'[client'] = r /\ read'[client'] = n + 1 /\ n + 1 <= Len(r) /\ x = r[n + 1]
         /\ \E s \in 0 .. n : LineFrom(r, n, s)
<1>1. /\ n < sent[client] /\ x = r[n + 1] /\ read' = [read EXCEPT ![client] = @ + 1]
      /\ client \notin failed
  BY ReadIs
<1>2. /\ client \in Clients /\ read \in [Clients -> Nat]
      /\ sent[client] <= Len(r) /\ sent[client] \in Nat /\ r \in Seq(Char) /\ r \in Requests
  BY DEF QueueInv, ConnTypes, Fresh
<1>3. read'[client'] = n + 1 /\ n \in Nat
  BY <1>1, <1>2
<1>4. \E s \in 0 .. n : LineFrom(r, n, s)
  BY <1>1 DEF LineInv, Reading
<1> QED BY <1>1, <1>2, <1>3, <1>4 DEF LineInv

\* Text appended to the line.
LEMMA Appended ==
  ASSUME NEW l \in Seq(Char), NEW u \in Seq(Char)
  PROVE  /\ l \o u \in Seq(Char) /\ Len(l \o u) = Len(l) + Len(u)
         /\ \A j \in 1 .. Len(l) : (l \o u)[j] = l[j]
         /\ \A j \in 1 .. Len(u) : (l \o u)[Len(l) + j] = u[j]
  OBVIOUS

\* A character that is neither CR nor after one joins the line; a CR waits for
\* the character after it.
LEMMA LineFirst ==
  ASSUME \A r \in Requests : WellFormed(r), QueueInv, LineInv, ReadFirst
  PROVE  LineInv'
<1>0. PICK r, n : r = req[client] /\ n = read[client]
  OBVIOUS
<1>1. PICK x \in Char :
        /\ ReadInto(x)
        /\ \/ x = "cr" /\ pc' = "read2" /\ line' = line
           \/ x # "cr" /\ AppendAll(<<x>>)
  BY Zenon DEF ReadFirst
<1>2. /\ pc = "read" /\ UNCHANGED <<req, client, inHeaders>>
      /\ line \in Seq(Char) /\ inHeaders \in BOOLEAN
  BY DEF ReadFirst, LineInv
<1>3. <<x>> \in Seq(Char) /\ Len(<<x>>) = 1 /\ <<x>>[1] = x
  BY <1>1
<1>4. line' \in Seq(Char)
  BY <1>1, <1>2, <1>3, Appended DEF AppendAll
<1>5. CASE client \in failed'
  BY <1>2, <1>4, <1>5 DEF LineInv
<1>6. CASE client \notin failed'
  <2>1. /\ n \in Nat /\ Len(r) \in Nat /\ WellFormed(r) /\ Len(line) \in Nat
        /\ req'[client'] = r /\ read'[client'] = n + 1 /\ n + 1 <= Len(r) /\ x = r[n + 1]
        /\ \E s \in 0 .. n : LineFrom(r, n, s)
    BY <1>0, <1>1, <1>2, <1>6, LineReads
  <2>2. PICK s \in 0 .. n : LineFrom(r, n, s)
    BY <2>1
  <2>3. /\ LineStart(r, s) /\ (s = 0 <=> inHeaders = FALSE) /\ n = s + Len(line)
        /\ \A j \in 1 .. Len(line) : line[j] = r[s + j]
        /\ NoCrLf(r, s, n) /\ (n > s => r[n] # "cr") /\ s \in Nat
    BY <1>2, <2>1, <2>2 DEF LineFrom, Lag
  <2>4. NoCrLf(r, s, n + 1)
    BY <2>1, <2>3 DEF NoCrLf, CrLf
  <2>5. n + 1 \in Nat /\ s \in 0 .. n + 1 /\ s < n + 1
    BY <2>1
  <2>6. CASE x = "cr"
    <3>1. pc' = "read2" /\ line' = line /\ Lag' = 1
      BY <1>1, <2>6 DEF Lag
    <3>2. LineFrom(r, n + 1, s)'
      BY <1>2, <2>1, <2>3, <2>4, <2>6, <3>1 DEF LineFrom
    <3> QED BY <1>2, <2>1, <2>5, <3>1, <3>2, LineAfter
  <2>7. CASE x # "cr"
    <3>1. /\ line' = line \o <<x>>
          /\ pc' = IF Len(line) + Len(<<x>>) > Capacity THEN "overrun" ELSE "read"
      BY <1>1, <2>7 DEF AppendAll
    <3>2. /\ Len(line') = Len(line) + 1 /\ line'[Len(line) + 1] = x
          /\ \A j \in 1 .. Len(line) : line'[j] = line[j]
      BY <1>2, <1>3, <3>1, Appended
    <3>3. (n + 1) - s <= Capacity
      BY <2>1, <2>3, <2>4, <2>5, <2>7, LineFits
    <3>4. pc' = "read" /\ Lag' = 0
      BY <1>3, <2>1, <2>3, <3>1, <3>3, HttpAssumption DEF Lag
    <3>5. n + 1 = s + Len(line') + 0
      BY <2>1, <2>3, <3>2
    <3>6. \A j \in 1 .. Len(line') : line'[j] = r[s + j]
      BY <2>1, <2>3, <3>2
    <3>7. LineFrom(r, n + 1, s)'
      BY <1>2, <2>1, <2>3, <2>4, <2>7, <3>4, <3>5, <3>6 DEF LineFrom
    <3> QED BY <1>2, <1>4, <2>1, <2>5, <3>4, <3>7, LineAfter
  <2> QED BY <2>6, <2>7
<1> QED BY <1>5, <1>6

\* An LF after a CR ends the line; otherwise both are part of it.
LEMMA LineSecond ==
  ASSUME \A r \in Requests : WellFormed(r), QueueInv, LineInv, ReadSecond
  PROVE  LineInv'
<1>0. PICK r, n : r = req[client] /\ n = read[client]
  OBVIOUS
<1>1. PICK x \in Char :
        /\ ReadInto(x)
        /\ \/ x = "lf" /\ pc' = "line" /\ line' = line
           \/ x # "lf" /\ AppendAll(<<"cr", x>>)
  BY Zenon DEF ReadSecond
<1>2. /\ pc = "read2" /\ UNCHANGED <<req, client, inHeaders>>
      /\ line \in Seq(Char) /\ inHeaders \in BOOLEAN
  BY DEF ReadSecond, LineInv
<1>3. /\ <<"cr", x>> \in Seq(Char) /\ Len(<<"cr", x>>) = 2
      /\ <<"cr", x>>[1] = "cr" /\ <<"cr", x>>[2] = x
  BY <1>1 DEF Char
<1>4. line' \in Seq(Char)
  BY <1>1, <1>2, <1>3, Appended DEF AppendAll
<1>5. CASE client \in failed'
  BY <1>2, <1>4, <1>5 DEF LineInv
<1>6. CASE client \notin failed'
  <2>1. /\ n \in Nat /\ Len(r) \in Nat /\ WellFormed(r) /\ Len(line) \in Nat
        /\ req'[client'] = r /\ read'[client'] = n + 1 /\ n + 1 <= Len(r) /\ x = r[n + 1]
        /\ \E s \in 0 .. n : LineFrom(r, n, s)
    BY <1>0, <1>1, <1>2, <1>6, LineReads
  <2>2. PICK s \in 0 .. n : LineFrom(r, n, s)
    BY <2>1
  <2>3. /\ LineStart(r, s) /\ (s = 0 <=> inHeaders = FALSE) /\ n = s + Len(line) + 1
        /\ \A j \in 1 .. Len(line) : line[j] = r[s + j]
        /\ NoCrLf(r, s, n) /\ r[n] = "cr" /\ s \in Nat
    BY <1>2, <2>1, <2>2 DEF LineFrom, Lag
  <2>4. n + 1 \in Nat /\ s \in 0 .. n + 1 /\ s < n + 1
    BY <2>1
  <2>5. CASE x = "lf"
    <3>1. pc' = "line" /\ line' = line /\ Lag' = 2
      BY <1>1, <2>5 DEF Lag
    <3>2. n + 1 = s + Len(line) + 2 /\ (n + 1) - 1 = n
      BY <2>1, <2>3
    <3>3. CrLf(r, n)
      BY <2>1, <2>3, <2>5 DEF CrLf
    <3>4. LineFrom(r, n + 1, s)'
      BY <1>2, <2>3, <3>1, <3>2, <3>3 DEF LineFrom
    <3> QED BY <1>2, <2>1, <2>4, <3>1, <3>4, LineAfter
  <2>6. CASE x # "lf"
    <3>0. x # "cr"
      BY <2>1, <2>3 DEF WellFormed
    <3>1. /\ line' = line \o <<"cr", x>>
          /\ pc' = IF Len(line) + Len(<<"cr", x>>) > Capacity THEN "overrun" ELSE "read"
      BY <1>1, <2>6 DEF AppendAll
    <3>2. /\ Len(line') = Len(line) + 2
          /\ line'[Len(line) + 1] = "cr" /\ line'[Len(line) + 2] = x
          /\ \A j \in 1 .. Len(line) : line'[j] = line[j]
      BY <1>2, <1>3, <3>1, Appended
    <3>3. NoCrLf(r, s, n + 1)
      BY <2>1, <2>3, <2>6, SMTT(20) DEF NoCrLf, CrLf
    <3>4. (n + 1) - s <= Capacity
      BY <2>1, <2>3, <2>4, <3>0, <3>3, LineFits
    <3>5. pc' = "read" /\ Lag' = 0
      BY <1>3, <2>1, <2>3, <3>1, <3>4, HttpAssumption DEF Lag
    <3>6. n + 1 = s + Len(line') + 0
      BY <2>1, <2>3, <3>2
    <3>7. ASSUME NEW j \in 1 .. Len(line') PROVE line'[j] = r[s + j]
      <4>1. CASE j \in 1 .. Len(line)
        BY <2>3, <3>2, <4>1
      <4>2. CASE j = Len(line) + 1
        <5>1. s + j = n
          BY <2>1, <2>3, <4>2
        <5> QED BY <2>3, <3>2, <4>2, <5>1
      <4>3. CASE j = Len(line) + 2
        <5>1. s + j = n + 1
          BY <2>1, <2>3, <4>3
        <5> QED BY <2>1, <3>2, <4>3, <5>1
      <4> QED BY <2>1, <3>2, <4>1, <4>2, <4>3
    <3>8. LineFrom(r, n + 1, s)'
      BY <1>2, <2>1, <2>3, <3>0, <3>3, <3>5, <3>6, <3>7 DEF LineFrom
    <3> QED BY <1>2, <1>4, <2>1, <2>4, <3>5, <3>8, LineAfter
  <2> QED BY <2>5, <2>6
<1> QED BY <1>5, <1>6

\* LineInv is inductive when the requests are well formed.
LEMMA LineStep ==
  ASSUME \A r \in Requests : WellFormed(r), LeakInv, QueueInv, LineInv, [Next]_vars
  PROVE  LineInv'
<1>0. Reading => client \in Clients /\ conn[client] = "open"
  BY DEF Reading, QueueInv
<1>1. CASE Stop
  BY <1>1, LineKept DEF Stop, connVars, ctxVars
<1>2. CASE GetContext \/ AcceptFail \/ Wake
  <2>1. UNCHANGED <<line, inHeaders>> /\ ~Reading'
    BY <1>2 DEF GetContext, AcceptFail, Wake, ctxVars, Reading
  <2> QED BY <2>1 DEF LineInv
<1>3. CASE Accept
  <2> DEFINE h == Head(acceptmbox)
  <2>1. /\ StartLine(FALSE) /\ client' = h /\ acceptmbox # <<>>
        /\ UNCHANGED <<req, read, failed>>
    BY <1>3 DEF Accept
  <2>2. h = acceptmbox[1] /\ 1 \in 1 .. Len(acceptmbox) /\ h \in Clients
    BY <2>1 DEF LeakInv
  <2>3. conn[h] = "queued"
    BY <2>2 DEF QueueInv, QueuedOnce
  <2> HIDE DEF h
  <2>4. read[h] = 0
    BY <2>2, <2>3 DEF QueueInv, Fresh
  <2>5. LineStart(req[h], 0)
    BY DEF LineStart
  <2>6. req'[client'] = req[h] /\ read'[client'] = 0 /\ 0 \in Nat
    BY <2>1, <2>4
  <2> QED BY <2>1, <2>5, <2>6, LineBegins, Zenon
<1>4. CASE ReadFirst
  BY <1>4, LineFirst
<1>5. CASE ReadSecond
  BY <1>5, LineSecond
<1>6. CASE RequestLine \/ HeaderLine
  <2>1. pc = "line" /\ UNCHANGED <<req, read, failed>>
    BY <1>6 DEF RequestLine, HeaderLine, connVars
  <2>2. CASE ~Reading' /\ UNCHANGED <<line, inHeaders>>
    BY <2>2 DEF LineInv
  <2>3. CASE StartLine(TRUE) /\ client' = client
    <3>1. client \in Clients /\ read[client] \in Nat
      BY <2>1 DEF QueueInv, ConnTypes
    <3>2. CASE client \in failed
      <4>1. line' \in Seq(Char) /\ inHeaders' \in BOOLEAN
        BY <2>3 DEF StartLine, ClearLine
      <4> QED BY <2>1, <2>3, <3>2, <4>1 DEF LineInv
    <3>3. CASE client \notin failed
      <4>1. LineStart(req[client], read[client]) /\ read[client] # 0
        BY <2>1, <3>1, <3>3, LineEnded
      <4>2. req'[client'] = req[client] /\ read'[client'] = read[client]
        BY <2>1, <2>3
      <4>3. TRUE \in BOOLEAN /\ (read[client] = 0 <=> TRUE = FALSE)
        BY <4>1
      <4> QED BY <2>3, <3>1, <4>1, <4>2, <4>3, LineBegins, Zenon
    <3> QED BY <3>2, <3>3
  <2> QED BY <1>6, <2>2, <2>3 DEF RequestLine, HeaderLine, Reading
<1>7. CASE WritePart \/ WriteDone
  <2>1. UNCHANGED <<line, inHeaders>> /\ ~Reading'
    BY <1>7 DEF WritePart, WriteDone, Reading
  <2> QED BY <2>1 DEF LineInv
<1>8. CASE \E c \in Clients : \/ Arrive(c)
                            \/ \E how \in {"fin", "rst"} : Abort(c, how)
  BY <1>8, LineKept DEF Arrive, Abort, ctxVars
<1>9. ASSUME NEW c \in Clients, NEW r \in Requests, Connect(c, r) PROVE LineInv'
  <2>1. /\ conn[c] = "no" /\ req' = [req EXCEPT ![c] = r]
        /\ UNCHANGED <<read, line, inHeaders, pc, client, failed>>
    BY <1>9 DEF Connect, ctxVars
  <2>2. Reading => req'[client] = req[client]
    BY <1>0, <2>1 DEF QueueInv, ConnTypes
  <2> QED BY <2>1, <2>2, LineKept
<1>10. CASE UNCHANGED vars
  BY <1>10, LineKept DEF vars, connVars, ctxVars
<1> QED BY <1>1, <1>2, <1>3, <1>4, <1>5, <1>6, <1>7, <1>8, <1>9, <1>10 DEF Next, Server

\* The types of what an answer is made from.
LEMMA AnswerTypesStep == QueueInv /\ AnswerTypes /\ [Next]_vars => AnswerTypes'
<1> SUFFICES ASSUME QueueInv, AnswerTypes, [Next]_vars PROVE AnswerTypes'
  OBVIOUS
<1>1. ASSUME UNCHANGED <<out, written, m_error, found>> PROVE AnswerTypes'
  BY <1>1 DEF AnswerTypes
<1>2. CASE Stop \/ GetContext \/ AcceptFail \/ Wake \/ Accept \/ HeaderLine
  BY <1>1, <1>2 DEF Stop, GetContext, AcceptFail, Wake, Accept, HeaderLine, connVars, ctxVars
<1>3. CASE ReadFirst \/ ReadSecond
  BY <1>1, <1>3, ReadStep
<1>4. CASE RequestLine
  <2>1. /\ out' = out
        /\ \/ written' = 0 /\ m_error' = FALSE /\ found' = found
           \/ found' = (Url(line) = <<"/">>) /\ UNCHANGED <<written, m_error>>
    BY <1>4, Zenon DEF RequestLine, EndContext
  <2>2. (Url(line) = <<"/">>) \in BOOLEAN
    OBVIOUS
  <2>3. found' \in BOOLEAN /\ written' \in Nat /\ m_error' \in BOOLEAN
    <3>1. 0 \in Nat
      OBVIOUS
    <3> QED BY <2>1, <2>2, <3>1, Zenon DEF AnswerTypes
  <2> QED BY <2>1, <2>3 DEF AnswerTypes
<1>5. CASE WritePart
  <2>1. /\ pc = "write" /\ written < Len(Writes(found)) /\ written' = written + 1
        /\ found' = found
        /\ \/ /\ out' = [out EXCEPT ![client] = Append(@, Writes(found)[written + 1])]
              /\ m_error' = m_error
           \/ m_error' = TRUE /\ out' = out
    BY <1>5, Zenon DEF WritePart
  <2>2. client \in Clients
    BY <2>1 DEF QueueInv
  <2>3. written + 1 \in 1 .. Len(Writes(found)) /\ Writes(found) \in Seq(Part)
    BY <2>1, WritesTyped DEF AnswerTypes
  <2>4. Writes(found)[written + 1] \in Part
    BY <2>3
  <2>5. out' \in [Clients -> Seq(Part)]
    <3> DEFINE w == Writes(found)[written + 1]
    <3> HIDE DEF w
    <3>1. out \in [Clients -> Seq(Part)] /\ w \in Part
      BY <2>4 DEF AnswerTypes, w
    <3>2. out' = [out EXCEPT ![client] = Append(@, w)] \/ out' = out
      BY <2>1 DEF w
    <3> QED BY <2>2, <3>1, <3>2, SMTT(20)
  <2>6. written' \in Nat /\ m_error' \in BOOLEAN /\ found' \in BOOLEAN
    <3>1. written' \in Nat
      BY <2>1 DEF AnswerTypes
    <3> QED BY <2>1, <3>1, Zenon DEF AnswerTypes
  <2> QED BY <2>5, <2>6 DEF AnswerTypes
<1>6. CASE WriteDone
  BY <1>6 DEF WriteDone, EndContext, AnswerTypes
<1>7. CASE \E c \in Clients : \/ \E r \in Requests : Connect(c, r)
                            \/ Arrive(c)
                            \/ \E how \in {"fin", "rst"} : Abort(c, how)
  BY <1>1, <1>7 DEF Connect, Arrive, Abort, ctxVars
<1>8. CASE UNCHANGED vars
  BY <1>1, <1>8 DEF vars, connVars, ctxVars
<1> QED BY <1>2, <1>3, <1>4, <1>5, <1>6, <1>7, <1>8 DEF Next, Server

\* QueueInv, LineInv and the types hold initially.
LEMMA HttpInit == Init => LeakInv /\ AnswerTypes /\ QueueInv /\ LineInv
<1> SUFFICES ASSUME Init PROVE LeakInv /\ AnswerTypes /\ QueueInv /\ LineInv
  OBVIOUS
<1>1. LeakInv
  BY DEF Init, LeakInv, NoneLeaked
<1>2. AnswerTypes
  <2>1. out \in [Clients -> Seq(Part)]
    BY DEF Init
  <2>2. written \in Nat
    BY DEF Init
  <2> QED BY <2>1, <2>2, Zenon DEF Init, AnswerTypes
<1>3. ConnTypes
  BY DEF Init, ConnTypes
<1>4. \A c \in Clients : Fresh(c)
  <2> SUFFICES ASSUME NEW c \in Clients PROVE Fresh(c)
    OBVIOUS
  <2>1. req[c] = <<>> /\ sent[c] = 0 /\ read[c] = 0 /\ peer[c] = "no" /\ conn[c] = "no"
    BY DEF Init
  <2>2. out[c] = <<>> /\ failed = {} /\ Len(req[c]) = 0
    BY <2>1 DEF Init
  <2> QED BY <2>1, <2>2 DEF Fresh
<1>5. QueueInv
  BY <1>3, <1>4 DEF Init, QueueInv, QueuedOnce
<1>6. LineInv
  <2>1. line \in Seq(Char) /\ pc = "get"
    BY DEF Init
  <2>2. inHeaders \in BOOLEAN
    BY Zenon DEF Init
  <2> QED BY <2>1, <2>2 DEF LineInv, Reading
<1> QED BY <1>1, <1>2, <1>5, <1>6

\* As long as no read() has failed, no line of well-formed requests runs over
\* the end of its buffer, however the segments of any number of clients arrive
\* and however often the buffer is used again.
THEOREM OverrunOnlyAfterFailureHolds ==
  ASSUME \A r \in Requests : WellFormed(r)
  PROVE  Spec => []OverrunOnlyAfterFailure
<1>1. LineInv => OverrunOnlyAfterFailure
  BY DEF LineInv, Reading, OverrunOnlyAfterFailure
<1>2. LeakInv /\ QueueInv /\ LineInv /\ [Next]_vars => LineInv'
  BY LineStep
<1> QED BY <1>1, <1>2, HttpInit, LeakStep, AnswerTypesStep, QueueStep, PTL DEF Spec

-----------------------------------------------------------------------------
(* Each client gets its own answer. *)

\* What has been written is the beginning of the answer.
LEMMA Beginnings ==
  ASSUME NEW a \in Seq(Part), NEW o \in Seq(Part)
  PROVE  /\ BeginningOf(<<>>, a)
         /\ BeginningOf(a, a)
         /\ BeginningOf(o, a) /\ Len(o) = Len(a) => o = a
         /\ BeginningOf(o, a) /\ Len(o) < Len(a) =>
              BeginningOf(Append(o, a[Len(o) + 1]), a)
<1>1. Len(a) \in Nat /\ Len(o) \in Nat
  OBVIOUS
<1>2. BeginningOf(<<>>, a)
  BY DEF BeginningOf
<1>3. SubSeq(a, 1, Len(a)) = a
  OBVIOUS
<1>4. BeginningOf(o, a) /\ Len(o) = Len(a) => o = a
  BY <1>3 DEF BeginningOf
<1>5. ASSUME BeginningOf(o, a), Len(o) < Len(a)
      PROVE  BeginningOf(Append(o, a[Len(o) + 1]), a)
  <2> DEFINE m == Len(o) + 1
             q == Append(o, a[m])
             b == SubSeq(a, 1, m)
  <2>1. m \in 1 .. Len(a) /\ a[m] \in Part
    BY <1>1, <1>5
  <2>2. q \in Seq(Part) /\ Len(q) = m /\ q[m] = a[m]
        /\ \A j \in 1 .. Len(o) : q[j] = o[j]
    BY <1>1, <2>1
  <2>3. b \in Seq(Part) /\ Len(b) = m /\ \A j \in 1 .. m : b[j] = a[j]
    BY <1>1, <2>1
  <2>4. \A j \in 1 .. Len(o) : o[j] = a[j]
    <3>1. o = SubSeq(a, 1, Len(o)) /\ Len(o) <= Len(a)
      BY <1>5 DEF BeginningOf
    <3>2. \A k \in 0 .. Len(a) : \A j \in 1 .. k : SubSeq(a, 1, k)[j] = a[j]
      BY <1>1
    <3> QED BY <1>1, <3>1, <3>2
  <2> HIDE DEF q, b
  <2>5. \A j \in 1 .. m : q[j] = b[j]
    BY <1>1, <2>2, <2>3, <2>4
  <2>6. q = b
    BY <2>2, <2>3, <2>5
  <2>7. Len(q) <= Len(a) /\ q = SubSeq(a, 1, Len(q))
    BY <1>1, <2>1, <2>2, <2>6 DEF b
  <2> QED BY <2>7 DEF BeginningOf, q
<1> QED BY <1>2, <1>3, <1>4, <1>5, <1>1 DEF BeginningOf

\* When the Request-Line has been read, the line is its text.
LEMMA RequestLineRead ==
  ASSUME LeakInv, QueueInv, LineInv, pc = "line", inHeaders = FALSE, client \notin failed
  PROVE  /\ IndexOf(line, "sp", 1) = 0 <=> Malformed(req[client])
         /\ IndexOf(line, "sp", 1) # 0 =>
              (Url(line) = <<"/">> <=> AsksForRoot(req[client]))
<1>0. PICK r, n : r = req[client] /\ n = read[client]
  OBVIOUS
<1>1. /\ client \in Clients /\ n \in Nat /\ r \in Seq(Char) /\ n <= Len(r)
      /\ line \in Seq(Char)
  BY <1>0 DEF QueueInv, ConnTypes, Fresh, LineInv
<1>2. PICK s \in 0 .. n : LineFrom(r, n, s)
  BY <1>0 DEF LineInv, Reading
<1>3. /\ s = 0 /\ n = s + Len(line) + 2
      /\ \A j \in 1 .. Len(line) : line[j] = r[s + j]
      /\ NoCrLf(r, s, n - 1) /\ CrLf(r, n - 1)
  BY <1>2 DEF LineFrom, Lag
<1>4. n - 1 = Len(line) + 1 /\ n - 1 \in 1 .. Len(r) - 1 /\ n - 1 \in Nat /\ Len(r) \in Nat
  BY <1>1, <1>3
<1>5. FirstLineEnd(r) = Len(line) + 1
  BY <1>3, <1>4, FirstLineEndIs
<1>6. r[Len(line) + 1] = "cr" /\ \A j \in 1 .. Len(line) : line[j] = r[j]
  BY <1>1, <1>3, <1>4 DEF CrLf
<1> QED BY <1>0, <1>1, <1>5, <1>6, RequestLineParsed

\* A step that leaves the context and its request alone keeps what was parsed.
LEMMA ParseKept ==
  ASSUME ParseInv, UNCHANGED <<inHeaders, client, found>>, failed \subseteq failed',
         Serving' => Serving, Serving => req'[client] = req[client]
  PROVE  ParseInv'
  BY DEF ParseInv

\* ParseInv is inductive.
LEMMA ParseStep ==
  LeakInv /\ QueueInv /\ LineInv /\ WriteInv /\ ParseInv /\ [Next]_vars => ParseInv'
<1> SUFFICES ASSUME LeakInv, QueueInv, LineInv, WriteInv, ParseInv, [Next]_vars
             PROVE  ParseInv'
  OBVIOUS
<1>0. Serving => client \in Clients /\ conn[client] = "open"
  BY DEF Serving, Reading, QueueInv
<1>1. CASE Stop \/ GetContext \/ AcceptFail \/ Wake
  BY <1>1, ParseKept DEF Stop, GetContext, AcceptFail, Wake, connVars, ctxVars, Serving, Reading
<1>2. CASE Accept
  BY <1>2 DEF Accept, StartLine, ParseInv
<1>3. CASE ReadFirst \/ ReadSecond
  <2>1. /\ pc \in {"read", "read2"} /\ UNCHANGED <<req, inHeaders, client, found>>
        /\ failed \subseteq failed'
    BY <1>3, ReadStep
  <2> QED BY <2>1, ParseKept DEF Serving, Reading
<1>4. CASE RequestLine
  <2>1. pc = "line" /\ inHeaders = FALSE /\ UNCHANGED <<req, failed>>
    BY <1>4 DEF RequestLine, LineInv
  <2>2. CASE pc' = "sleep"
    BY <2>2 DEF ParseInv, Serving, Reading
  <2>3. CASE /\ IndexOf(line, "sp", 1) # 0 /\ client' = client
             /\ found' = (Url(line) = <<"/">>)
    <3>1. client \notin failed =>
            /\ ~Malformed(req[client])
            /\ Url(line) = <<"/">> <=> AsksForRoot(req[client])
      BY <2>1, <2>3, RequestLineRead
    <3>2. found' = TRUE <=> Url(line) = <<"/">>
      BY <2>3
    <3>3. req'[client'] = req[client] /\ (client' \notin failed' => client \notin failed)
      BY <2>1, <2>3
    <3>4. client' \notin failed' => ~Malformed(req'[client'])
      BY <3>1, <3>3
    <3>5. client' \notin failed' => (found' = TRUE <=> AsksForRoot(req'[client']))
      BY <3>1, <3>2, <3>3
    <3> QED BY <3>4, <3>5 DEF ParseInv, Malformed, AsksForRoot, FirstLineEnd
  <2> QED BY <1>4, <2>2, <2>3 DEF RequestLine
<1>5. CASE HeaderLine
  <2>1. /\ pc = "line" /\ inHeaders = TRUE /\ inHeaders' = TRUE
        /\ UNCHANGED <<req, client, found, failed>>
    BY <1>5 DEF HeaderLine, StartLine, connVars, LineInv
  <2> QED BY <2>1, ParseKept DEF Serving, Reading
<1>6. CASE WritePart
  BY <1>6, ParseKept DEF WritePart, Serving, Reading
<1>7. CASE WriteDone
  BY <1>7 DEF WriteDone, ParseInv, Serving, Reading
<1>8. CASE \E c \in Clients : \/ Arrive(c)
                            \/ \E how \in {"fin", "rst"} : Abort(c, how)
  BY <1>8, ParseKept DEF Arrive, Abort, ctxVars, Serving, Reading
<1>9. ASSUME NEW c \in Clients, NEW r \in Requests, Connect(c, r) PROVE ParseInv'
  <2>1. /\ conn[c] = "no" /\ req' = [req EXCEPT ![c] = r]
        /\ UNCHANGED <<inHeaders, pc, client, found, failed>>
    BY <1>9 DEF Connect, ctxVars
  <2>2. Serving => req'[client] = req[client]
    BY <1>0, <2>1 DEF QueueInv, ConnTypes
  <2> QED BY <2>1, <2>2, ParseKept DEF Serving, Reading
<1>10. CASE UNCHANGED vars
  BY <1>10, ParseKept DEF vars, connVars, ctxVars, Serving, Reading
<1> QED BY <1>1, <1>2, <1>3, <1>4, <1>5, <1>6, <1>7, <1>8, <1>9, <1>10 DEF Next, Server

\* A step that leaves the context and what it has written alone keeps WriteInv.
LEMMA WriteKept ==
  ASSUME WriteInv, UNCHANGED <<out, inHeaders, client, found, written, m_error>>,
         pc' = "write" <=> pc = "write", Reading' => Reading,
         m_error = TRUE /\ pc = "write" => peer'[client] = peer[client]
  PROVE  WriteInv'
  BY DEF WriteInv, BeginningOf

\* One more write: the next part of the answer, or none after a reset.
LEMMA WriteOne ==
  ASSUME QueueInv, AnswerTypes, WriteInv, WritePart
  PROVE  WriteInv'
<1> DEFINE a == Writes(found)
           o == out[client]
<1>1. /\ pc = "write" /\ written < Len(a) /\ written' = written + 1
      /\ UNCHANGED <<pc, client, found, inHeaders, peer>>
      /\ \/ /\ peer[client] # "rst" /\ out' = [out EXCEPT ![client] = Append(@, a[written + 1])]
            /\ m_error' = m_error
         \/ peer[client] = "rst" /\ m_error' = TRUE /\ out' = out
  BY Zenon DEF WritePart
<1>2. /\ client \in Clients /\ written \in Nat /\ out \in [Clients -> Seq(Part)]
      /\ o \in Seq(Part) /\ a \in Seq(Part) /\ Len(a) \in Nat
  BY <1>1, WritesTyped DEF QueueInv, AnswerTypes
<1>3. /\ inHeaders = TRUE /\ BeginningOf(o, a)
      /\ m_error = FALSE => Len(o) = written
      /\ m_error = TRUE => peer[client] = "rst"
  BY <1>1 DEF WriteInv
<1>4. m_error = TRUE \/ m_error = FALSE
  BY Zenon DEF AnswerTypes
<1>5. a' = a
  BY <1>1 DEF Writes, Body, TotalSize
<1>6. written + 1 <= Len(a)
  BY <1>1, <1>2
<1> HIDE DEF a
<1>7. CASE peer[client] # "rst"
  <2>1. m_error = FALSE /\ m_error' = FALSE /\ Len(o) = written
    BY <1>1, <1>3, <1>4, <1>7
  <2>2. out'[client] = Append(o, a[written + 1])
    BY <1>1, <1>2, <1>7
  <2>3. BeginningOf(Append(o, a[written + 1]), a)
    BY <1>1, <1>2, <1>3, <2>1, Beginnings
  <2>4. Len(out'[client]) = written + 1
    BY <1>2, <1>6, <2>1, <2>2
  <2>5. BeginningOf(out'[client'], Writes(found'))
    BY <1>1, <2>2, <2>3 DEF a
  <2> QED BY <1>1, <1>3, <1>6, <2>1, <2>4, <2>5 DEF WriteInv, Reading, BeginningOf, a
<1>8. CASE peer[client] = "rst"
  <2>1. m_error' = TRUE /\ out' = out
    BY <1>1, <1>8
  <2>2. BeginningOf(out'[client'], Writes(found'))
    BY <1>1, <1>3, <2>1 DEF a
  <2> QED BY <1>1, <1>3, <1>6, <1>8, <2>1, <2>2 DEF WriteInv, Reading, BeginningOf, a
<1> QED BY <1>7, <1>8

\* WriteInv is inductive.
LEMMA WriteStep ==
  LeakInv /\ QueueInv /\ LineInv /\ AnswerTypes /\ WriteInv /\ [Next]_vars => WriteInv'
<1> SUFFICES ASSUME LeakInv, QueueInv, LineInv, AnswerTypes, WriteInv, [Next]_vars
             PROVE  WriteInv'
  OBVIOUS
<1>1. CASE Stop \/ GetContext \/ AcceptFail \/ Wake
  BY <1>1, WriteKept DEF Stop, GetContext, AcceptFail, Wake, connVars, ctxVars, Reading
<1>2. CASE Accept
  <2> DEFINE h == Head(acceptmbox)
  <2>1. /\ pc = "accept" /\ pc' = "read" /\ client' = h /\ acceptmbox # <<>>
        /\ UNCHANGED <<out, written, m_error>>
    BY <1>2 DEF Accept, StartLine
  <2>2. h = acceptmbox[1] /\ 1 \in 1 .. Len(acceptmbox) /\ h \in Clients
    BY <2>1 DEF LeakInv
  <2>3. conn[h] = "queued"
    BY <2>2 DEF QueueInv, QueuedOnce
  <2> HIDE DEF h
  <2>4. out[h] = <<>>
    BY <2>2, <2>3 DEF QueueInv, Fresh
  <2> QED BY <2>1, <2>4 DEF WriteInv
<1>3. CASE ReadFirst \/ ReadSecond
  <2>1. /\ pc \in {"read", "read2"} /\ pc' \in {"read", "read2", "line", "overrun"}
        /\ UNCHANGED <<peer, out, inHeaders, client, found, written, m_error>>
    BY <1>3, ReadStep
  <2> QED BY <2>1, WriteKept DEF Reading
<1>4. CASE RequestLine
  <2>1. pc = "line" /\ out' = out
    BY <1>4 DEF RequestLine
  <2>2. CASE pc' = "sleep" /\ written' = 0 /\ m_error' = FALSE
    BY <2>2 DEF WriteInv, Reading
  <2>3. CASE pc' = "read" /\ UNCHANGED <<client, written, m_error>>
    BY <2>1, <2>3 DEF WriteInv, Reading
  <2> QED BY <1>4, <2>2, <2>3 DEF RequestLine, EndContext, StartLine
<1>5. CASE HeaderLine
  <2>1. /\ pc = "line" /\ inHeaders = TRUE /\ inHeaders' = TRUE /\ pc' \in {"read", "write"}
        /\ UNCHANGED <<out, client, found, written, m_error>>
    BY <1>5 DEF HeaderLine, StartLine, connVars, LineInv
  <2>2. out[client] = <<>> /\ written = 0 /\ m_error = FALSE
    BY <2>1 DEF WriteInv, Reading
  <2>3. Writes(found) \in Seq(Part) /\ Len(Writes(found)) \in Nat
    BY WritesTyped DEF AnswerTypes
  <2>4. BeginningOf(<<>>, Writes(found))
    BY <2>3, Beginnings
  <2>5. BeginningOf(out'[client'], Writes(found'))
    BY <2>1, <2>2, <2>4
  <2>6. written' <= Len(Writes(found')) /\ Len(out'[client']) = 0
    BY <2>1, <2>2, <2>3
  <2> QED BY <2>1, <2>2, <2>5, <2>6 DEF WriteInv, BeginningOf, Writes, Body, TotalSize
<1>6. CASE WritePart
  BY <1>6, WriteOne
<1>7. CASE WriteDone
  BY <1>7 DEF WriteDone, EndContext, WriteInv, Reading
<1>8. CASE \E c \in Clients : Arrive(c) \/ \E r \in Requests : Connect(c, r)
  <2>1. UNCHANGED <<out, inHeaders, pc, client, found, written, m_error>>
    BY <1>8 DEF Arrive, Connect, ctxVars
  <2>2. ASSUME m_error = TRUE, pc = "write" PROVE peer'[client] = peer[client]
    <3>1. client \in Clients /\ conn[client] = "open"
      BY <2>2 DEF QueueInv
    <3>2. ASSUME NEW c \in Clients, NEW r \in Requests, Connect(c, r)
          PROVE  peer'[client] = peer[client]
      BY <3>1, <3>2 DEF Connect, QueueInv, ConnTypes
    <3> QED BY <1>8, <3>2 DEF Arrive
  <2> QED BY <2>1, <2>2, WriteKept DEF Reading
<1>9. ASSUME NEW c \in Clients, NEW how \in {"fin", "rst"}, Abort(c, how) PROVE WriteInv'
  <2>1. /\ peer[c] = "up" /\ peer' = [peer EXCEPT ![c] = how]
        /\ UNCHANGED <<out, inHeaders, pc, client, found, written, m_error>>
    BY <1>9 DEF Abort, ctxVars
  <2>2. m_error = TRUE /\ pc = "write" => peer'[client] = peer[client]
    BY <2>1 DEF WriteInv, QueueInv, ConnTypes
  <2> QED BY <2>1, <2>2, WriteKept DEF Reading
<1>10. CASE UNCHANGED vars
  BY <1>10, WriteKept DEF vars, connVars, ctxVars, Reading
<1> QED BY <1>1, <1>2, <1>3, <1>4, <1>5, <1>6, <1>7, <1>8, <1>9, <1>10 DEF Next, Server

\* Connections that are closed keep what they got.
LEMMA ClosedKept ==
  ASSUME ClosedInv, failed \subseteq failed',
         \A c \in Clients : conn'[c] = "closed" =>
           /\ conn[c] = "closed" /\ out'[c] = out[c] /\ req'[c] = req[c]
           /\ peer'[c] = peer[c] \/ peer'[c] = "rst" \/ peer[c] # "rst"
  PROVE  ClosedInv'
<1> SUFFICES ASSUME NEW c \in Clients \ failed', conn'[c] = "closed"
             PROVE  /\ BeginningOf(out'[c], Answer(req'[c]))
                    /\ peer'[c] # "rst" => out'[c] = Answer(req'[c])
  BY DEF ClosedInv, BeginningOf, Answer, Malformed, AsksForRoot, FirstLineEnd, Header
<1>1. c \in Clients \ failed /\ conn[c] = "closed" /\ out'[c] = out[c] /\ req'[c] = req[c]
      /\ (peer'[c] # "rst" => peer[c] # "rst")
  OBVIOUS
<1> QED BY <1>1 DEF ClosedInv

\* The context that ends has sent its answer.
LEMMA ClosedEnd ==
  ASSUME LeakInv, QueueInv, ClosedInv, EndContext, client \in Clients,
         UNCHANGED <<req, peer, out, failed>>,
         client \notin failed =>
           /\ BeginningOf(out[client], Answer(req[client]))
           /\ peer[client] # "rst" => out[client] = Answer(req[client])
  PROVE  ClosedInv'
<1>1. conn' = [conn EXCEPT ![client] = "closed"] /\ DOMAIN conn = Clients
  BY DEF EndContext, CloseClient, LeakInv
<1> SUFFICES ASSUME NEW c \in Clients \ failed', conn'[c] = "closed"
             PROVE  /\ BeginningOf(out'[c], Answer(req'[c]))
                    /\ peer'[c] # "rst" => out'[c] = Answer(req'[c])
  BY DEF ClosedInv, BeginningOf, Answer, Malformed, AsksForRoot, FirstLineEnd, Header
<1>2. CASE c = client
  BY <1>2
<1>3. CASE c # client
  <2>1. conn[c] = "closed"
    BY <1>1, <1>3
  <2> QED BY <2>1 DEF ClosedInv
<1> QED BY <1>2, <1>3

\* An answer is a sequence of parts.
LEMMA AnswerTyped ==
  ASSUME NEW r
  PROVE  Answer(r) \in Seq(Part)
<1>1. CASE Malformed(r)
  BY <1>1 DEF Answer
<1>2. CASE ~Malformed(r) /\ AsksForRoot(r)
  <2>1. Answer(r) = Writes(TRUE)
    BY <1>2, WritesAre DEF Answer
  <2>2. TRUE \in BOOLEAN
    BY Zenon
  <2> QED BY <2>1, <2>2, WritesTyped
<1>3. CASE ~Malformed(r) /\ ~AsksForRoot(r)
  <2>1. Answer(r) = Writes(FALSE)
    BY <1>3, WritesAre DEF Answer
  <2>2. FALSE \in BOOLEAN
    BY Zenon
  <2> QED BY <2>1, <2>2, WritesTyped
<1> QED BY <1>1, <1>2, <1>3

\* A connection whose Request-Line has no space is closed without an answer,
\* which is what it should get.
LEMMA ClosedMalformed ==
  ASSUME LeakInv, QueueInv, LineInv, WriteInv, ClosedInv,
         pc = "line", inHeaders = FALSE, IndexOf(line, "sp", 1) = 0, EndContext,
         UNCHANGED <<req, peer, out, failed>>
  PROVE  ClosedInv'
<1>1. client \in Clients
  BY DEF QueueInv
<1>2. ASSUME client \notin failed PROVE out[client] = Answer(req[client])
  <2>1. Malformed(req[client])
    BY <1>2, RequestLineRead
  <2>2. out[client] = <<>>
    BY DEF WriteInv, Reading
  <2> QED BY <2>1, <2>2 DEF Answer
<1>3. Answer(req[client]) \in Seq(Part)
  BY AnswerTyped
<1>4. BeginningOf(Answer(req[client]), Answer(req[client]))
  BY <1>3, Beginnings
<1> QED BY <1>1, <1>2, <1>4, ClosedEnd

\* write_response returns when the whole answer is sent, or after a reset.
LEMMA ClosedWritten ==
  ASSUME LeakInv, QueueInv, AnswerTypes, ParseInv, WriteInv, ClosedInv, WriteDone
  PROVE  ClosedInv'
<1> DEFINE a == Writes(found)
           o == out[client]
<1>1. /\ pc = "write" /\ EndContext /\ UNCHANGED <<req, peer, out, failed>>
      /\ written = Len(a) \/ m_error
  BY Zenon DEF WriteDone
<1>2. /\ client \in Clients /\ found \in BOOLEAN /\ a \in Seq(Part) /\ o \in Seq(Part)
  BY <1>1, WritesTyped DEF QueueInv, AnswerTypes
<1>3. /\ inHeaders = TRUE /\ BeginningOf(o, a)
      /\ m_error = FALSE => Len(o) = written
      /\ m_error = TRUE => peer[client] = "rst"
  BY <1>1 DEF WriteInv
<1>4. m_error = TRUE \/ m_error = FALSE
  BY Zenon DEF AnswerTypes
<1>5. client \notin failed => a = Answer(req[client])
  <2> SUFFICES ASSUME client \notin failed PROVE a = Answer(req[client])
    OBVIOUS
  <2>1. ~Malformed(req[client]) /\ (found = TRUE <=> AsksForRoot(req[client]))
    BY <1>1, <1>3 DEF ParseInv, Serving
  <2> QED BY <1>2, <2>1, WritesAnswer
<1> HIDE DEF a
<1>6. peer[client] # "rst" => o = a
  <2> SUFFICES ASSUME peer[client] # "rst" PROVE o = a
    OBVIOUS
  <2>1. Len(o) = Len(a)
    BY <1>1, <1>3, <1>4
  <2> QED BY <1>2, <1>3, <2>1, Beginnings
<1>7. client \notin failed =>
        /\ BeginningOf(out[client], Answer(req[client]))
        /\ peer[client] # "rst" => out[client] = Answer(req[client])
  BY <1>3, <1>5, <1>6
<1> QED BY <1>1, <1>2, <1>7, ClosedEnd

\* ClosedInv is inductive.
LEMMA ClosedStep ==
  LeakInv /\ QueueInv /\ LineInv /\ AnswerTypes /\ ParseInv /\ WriteInv /\ ClosedInv
    /\ [Next]_vars => ClosedInv'
<1> SUFFICES ASSUME LeakInv, QueueInv, LineInv, AnswerTypes, ParseInv, WriteInv, ClosedInv,
                    [Next]_vars
             PROVE  ClosedInv'
  OBVIOUS
<1>0. DOMAIN conn = Clients /\ DOMAIN out = Clients /\ DOMAIN req = Clients
      /\ DOMAIN peer = Clients
  BY DEF LeakInv, AnswerTypes, QueueInv, ConnTypes
<1>1. CASE UNCHANGED <<req, peer, conn, out, failed>>
  BY <1>1, ClosedKept
<1>2. CASE Stop \/ GetContext \/ AcceptFail \/ Wake \/ HeaderLine \/ UNCHANGED vars
  BY <1>1, <1>2 DEF Stop, GetContext, AcceptFail, Wake, HeaderLine, vars, connVars
<1>3. CASE Accept
  <2>1. /\ conn' = [conn EXCEPT ![Head(acceptmbox)] = "open"]
        /\ UNCHANGED <<req, peer, out, failed>>
    BY <1>3 DEF Accept
  <2>2. \A c \in Clients : conn'[c] = "closed" => conn[c] = "closed"
    BY <1>0, <2>1
  <2> QED BY <2>1, <2>2, ClosedKept
<1>4. CASE ReadFirst \/ ReadSecond
  <2>1. UNCHANGED <<req, peer, conn, out>> /\ failed \subseteq failed'
    BY <1>4, ReadStep
  <2> QED BY <2>1, ClosedKept
<1>5. CASE RequestLine
  <2>1. pc = "line" /\ inHeaders = FALSE /\ UNCHANGED <<req, peer, out, failed>>
    BY <1>5 DEF RequestLine, LineInv
  <2>2. CASE IndexOf(line, "sp", 1) = 0 /\ EndContext
    BY <2>1, <2>2, ClosedMalformed
  <2>3. CASE conn' = conn
    BY <1>1, <2>1, <2>3
  <2> QED BY <1>5, <2>2, <2>3 DEF RequestLine
<1>6. CASE WritePart
  <2>1. /\ pc = "write" /\ UNCHANGED <<req, peer, conn, failed>>
        /\ \/ out' = [out EXCEPT ![client] = Append(@, Writes(found)[written + 1])]
           \/ out' = out
    BY <1>6, Zenon DEF WritePart
  <2>2. conn[client] = "open"
    BY <2>1 DEF QueueInv
  <2>3. \A c \in Clients : conn[c] = "closed" => out'[c] = out[c]
    BY <1>0, <2>1, <2>2
  <2> QED BY <2>1, <2>3, ClosedKept
<1>7. CASE WriteDone
  BY <1>7, ClosedWritten
<1>8. CASE \E c \in Clients : Arrive(c)
  BY <1>1, <1>8 DEF Arrive
<1>9. ASSUME NEW c \in Clients, NEW r \in Requests, Connect(c, r) PROVE ClosedInv'
  <2>1. /\ conn[c] = "no" /\ req' = [req EXCEPT ![c] = r]
        /\ peer' = [peer EXCEPT ![c] = "up"] /\ conn' = [conn EXCEPT ![c] = "queued"]
        /\ UNCHANGED <<out, failed>>
    BY <1>9 DEF Connect
  <2>2. \A k \in Clients : conn'[k] = "closed" =>
          conn[k] = "closed" /\ req'[k] = req[k] /\ peer'[k] = peer[k]
    BY <1>0, <2>1
  <2> QED BY <2>1, <2>2, ClosedKept
<1>10. ASSUME NEW c \in Clients, NEW how \in {"fin", "rst"}, Abort(c, how) PROVE ClosedInv'
  <2>1. /\ peer[c] = "up" /\ peer' = [peer EXCEPT ![c] = how]
        /\ UNCHANGED <<req, conn, out, failed>>
    BY <1>10 DEF Abort
  <2>2. \A k \in Clients : peer'[k] = peer[k] \/ peer[k] # "rst"
    BY <1>0, <2>1
  <2> QED BY <2>1, <2>2, ClosedKept
<1> QED BY <1>2, <1>3, <1>4, <1>5, <1>6, <1>7, <1>8, <1>9, <1>10 DEF Next, Server

\* The thread stays within its program.
LEMMA ThreadStep == ThreadInv /\ [Next]_vars => ThreadInv'
<1> SUFFICES ASSUME ThreadInv, [Next]_vars PROVE ThreadInv'
  OBVIOUS
<1>1. CASE ReadFirst \/ ReadSecond
  BY <1>1, ReadStep DEF ThreadInv, Serving, Reading
<1>2. CASE RequestLine \/ HeaderLine \/ WritePart \/ WriteDone
  BY <1>2 DEF RequestLine, HeaderLine, WritePart, WriteDone, StartLine, ThreadInv, Serving, Reading
<1>3. CASE Stop \/ GetContext \/ Accept \/ AcceptFail \/ Wake \/ UNCHANGED vars
  BY <1>3 DEF Stop, GetContext, Accept, AcceptFail, Wake, StartLine, vars, ThreadInv, Serving, Reading
<1>4. CASE \E c \in Clients : \/ \E r \in Requests : Connect(c, r)
                            \/ Arrive(c)
                            \/ \E how \in {"fin", "rst"} : Abort(c, how)
  BY <1>4 DEF Connect, Arrive, Abort, ThreadInv, Serving, Reading
<1> QED BY <1>1, <1>2, <1>3, <1>4 DEF Next, Server

\* What is sent on the connections at any moment: nothing before the answer is
\* begun, its beginning while it is written, and what ClosedInv says after that.
LEMMA AnswerOwn ==
  LeakInv /\ QueueInv /\ AnswerTypes /\ ThreadInv /\ ParseInv /\ WriteInv /\ ClosedInv =>
    OwnAnswer
<1> SUFFICES ASSUME LeakInv, QueueInv, AnswerTypes, ThreadInv, ParseInv, WriteInv, ClosedInv,
                    NEW c \in Clients \ failed, conn[c] # "no"
             PROVE  /\ BeginningOf(out[c], Answer(req[c]))
                    /\ conn[c] = "closed" /\ peer[c] # "rst" => out[c] = Answer(req[c])
  BY DEF OwnAnswer, BeginningOf
<1>1. Answer(req[c]) \in Seq(Part)
  BY AnswerTyped
<1>2. BeginningOf(<<>>, Answer(req[c]))
  BY <1>1, Beginnings
<1>3. conn[c] \in {"queued", "open", "closed"}
  BY DEF LeakInv
<1>4. CASE conn[c] = "queued"
  BY <1>2, <1>4 DEF QueueInv, Fresh
<1>5. CASE conn[c] = "open"
  <2>1. client = c
    BY <1>5 DEF LeakInv, NoneLeaked
  <2>2. CASE Reading
    BY <1>2, <1>5, <2>1, <2>2 DEF WriteInv
  <2>3. CASE pc = "write"
    <3>1. inHeaders = TRUE /\ BeginningOf(out[c], Writes(found)) /\ found \in BOOLEAN
      BY <2>1, <2>3 DEF WriteInv, AnswerTypes
    <3>2. ~Malformed(req[c]) /\ (found = TRUE <=> AsksForRoot(req[c]))
      BY <2>1, <2>3, <3>1 DEF ParseInv, Serving
    <3>3. Writes(found) = Answer(req[c])
      BY <3>1, <3>2, WritesAnswer
    <3> QED BY <1>5, <3>1, <3>3
  <2>4. Serving
    BY <2>1, HttpAssumption DEF ThreadInv, LeakInv
  <2> QED BY <2>2, <2>3, <2>4 DEF Serving
<1>6. CASE conn[c] = "closed"
  BY <1>6 DEF ClosedInv
<1> QED BY <1>3, <1>4, <1>5, <1>6

\* Every client gets the beginning of the answer to its own well-formed request,
\* and all of it when the server has closed a connection that was not reset,
\* for any number of clients, requests and segments.
THEOREM OwnAnswerHolds ==
  ASSUME \A r \in Requests : WellFormed(r)
  PROVE  Spec => []OwnAnswer
<1>1. Init => ThreadInv /\ ParseInv /\ WriteInv /\ ClosedInv
  BY DEF Init, ThreadInv, ParseInv, WriteInv, ClosedInv, Serving, Reading
<1>2. LeakInv /\ QueueInv /\ LineInv /\ [Next]_vars => LineInv'
  BY LineStep
<1> QED BY <1>1, <1>2, HttpInit, LeakStep, AnswerTypesStep, QueueStep, ThreadStep, ParseStep,
           WriteStep, ClosedStep, AnswerOwn, PTL DEF Spec
=============================================================================
