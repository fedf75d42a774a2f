----------------------------- MODULE HttpServer -----------------------------
(***************************************************************************)
(* The web server: Httpd::run over HttpListener, one thread that accepts a *)
(* connection, reads the head of its request line by line, answers and     *)
(* closes. A connection gives its bytes in order, as ByteStream says;      *)
(* read_line takes them one at a time.                                     *)
(***************************************************************************)
EXTENDS Naturals, Sequences

CONSTANTS
  Clients,    \* connections that are made
  NoClient,   \* ctx.m_client is not open
  Requests,   \* what a client may send
  Cuts,       \* bound: lengths after which a segment of a request may end
  Capacity,   \* characters of the StringBuffer line (1024 in the code)
  Failures,   \* clients may close or reset a connection, and reads may fail
  MayStop     \* Httpd::stop may be called

\* The characters of a request that the server tells apart.
Char == {"c", "sp", "/", "cr", "lf"}

ASSUME HttpAssumption ==
  /\ NoClient \notin Clients
  /\ Requests \subseteq Seq(Char)
  /\ Cuts \subseteq Nat
  /\ Capacity \in Nat
  /\ Failures \in BOOLEAN /\ MayStop \in BOOLEAN

VARIABLES
  \* Each connection.
  req,         \* the request of the client
  sent,        \* characters of it that have arrived
  read,        \* characters the server has read
  peer,        \* the client's end: "no", "up", "fin", "rst"
  conn,        \* the server's end: "no", "queued", "open", "closed"
  out,         \* what has been written to the client
  acceptmbox,  \* connections to be accepted
  \* HttpListener.
  m_is_started,
  \* Httpd::run, get_context and read_line.
  pc, client, line, buf, inHeaders, found,
  \* write_response.
  written,     \* writes done
  m_error,     \* the error of the StreamWriter
  \* History.
  failed,      \* connections of which a read() has failed
  late         \* connections accepted after stop()

connVars == <<req, sent, read, peer, conn, out, acceptmbox>>
ctxVars == <<client, line, buf, inHeaders, found, written, m_error>>
vars == <<connVars, m_is_started, pc, ctxVars, failed, late>>

Undefined == "undefined"  \* buf[0] before the first read

Init ==
  /\ req = [c \in Clients |-> <<>>]
  /\ sent = [c \in Clients |-> 0]
  /\ read = [c \in Clients |-> 0]
  /\ peer = [c \in Clients |-> "no"]
  /\ conn = [c \in Clients |-> "no"]
  /\ out = [c \in Clients |-> <<>>]
  /\ acceptmbox = <<>>
  /\ m_is_started = TRUE
  /\ pc = "get" /\ client = NoClient /\ line = <<>> /\ buf = Undefined
  /\ inHeaders = FALSE /\ found = FALSE /\ written = 0 /\ m_error = FALSE
  /\ failed = {} /\ late = 0

-----------------------------------------------------------------------------
(* The clients, through lwIP. *)

\* A connection is set up and waits to be accepted.
Connect(c, r) ==
  /\ conn[c] = "no"
  /\ req' = [req EXCEPT ![c] = r]
  /\ peer' = [peer EXCEPT ![c] = "up"]
  /\ conn' = [conn EXCEPT ![c] = "queued"]
  /\ acceptmbox' = Append(acceptmbox, c)
  /\ UNCHANGED <<sent, read, out, m_is_started, pc, ctxVars, failed, late>>

\* The next segment of the request arrives.
Arrive(c) ==
  /\ peer[c] = "up"
  /\ \E n \in Cuts \cup {Len(req[c])} :
       sent[c] < n /\ n <= Len(req[c]) /\ sent' = [sent EXCEPT ![c] = n]
  /\ UNCHANGED <<req, read, peer, conn, out, acceptmbox, m_is_started, pc, ctxVars, failed, late>>

\* The client closes or resets the connection, in the middle of its request
\* or of the answer.
Abort(c, how) ==
  /\ Failures
  /\ peer[c] = "up"
  /\ peer' = [peer EXCEPT ![c] = how]
  /\ UNCHANGED <<req, sent, read, conn, out, acceptmbox, m_is_started, pc, ctxVars, failed, late>>

-----------------------------------------------------------------------------
(* HttpListener::get_context *)

\* Httpd::stop, from another thread. It does not wake the server.
Stop ==
  /\ MayStop
  /\ m_is_started
  /\ m_is_started' = FALSE
  /\ UNCHANGED <<connVars, pc, ctxVars, failed, late>>

\* defect: a stopped listener goes on
GetContextUnchecked ==
  /\ pc = "get"
  /\ pc' = "accept"
  /\ UNCHANGED <<connVars, m_is_started, ctxVars, failed, late>>
\* A stopped listener is an error, and Httpd::run tries again after a second.
GetContext ==
  /\ pc = "get"
  /\ pc' = IF m_is_started THEN "accept" ELSE "sleep"
  /\ UNCHANGED <<connVars, m_is_started, ctxVars, failed, late>>

\* line.clear() at the start of read_line.
ClearNothing == line' = line  \* defect: the last line is still there
ClearLine == line' = <<>>

\* read_line is called.
StartLine(headers) ==
  /\ ClearLine
  /\ buf' = Undefined
  /\ inHeaders' = headers
  /\ pc' = "read"

\* accept_tcp_client, which waits for a connection.
Accept ==
  /\ pc = "accept"
  /\ acceptmbox # <<>>
  /\ acceptmbox' = Tail(acceptmbox)
  /\ client' = Head(acceptmbox)
  /\ conn' = [conn EXCEPT ![Head(acceptmbox)] = "open"]
  /\ late' = IF m_is_started THEN late ELSE late + 1
  /\ StartLine(FALSE)
  /\ UNCHANGED <<req, sent, read, peer, out, m_is_started, found, written, m_error, failed>>

\* netconn_accept fails (connection aborted, no memory).
AcceptFail ==
  /\ pc = "accept"
  /\ pc' = "sleep"
  /\ UNCHANGED <<connVars, m_is_started, ctxVars, failed, late>>

Wake ==
  /\ pc = "sleep"
  /\ pc' = "get"
  /\ UNCHANGED <<connVars, m_is_started, ctxVars, failed, late>>

-----------------------------------------------------------------------------
(* read_line *)

\* s.read(buf, 1) puts x into buf[0]. The result of the read is not looked at:
\* when it fails where a segment ends (the client has closed, the connection is
\* reset, no netbuf is free for the next segment) buf[0] keeps its value.
ReadInto(x) ==
  \/ /\ read[client] < sent[client]
     /\ x = req[client][read[client] + 1]
     /\ read' = [read EXCEPT ![client] = @ + 1]
     /\ UNCHANGED failed
  \/ /\ Failures
     /\ read[client] \in Cuts \cup {sent[client]}
     /\ x \in IF buf = Undefined THEN Char ELSE {buf}
     /\ failed' = failed \cup {client}
     /\ UNCHANGED read

\* line.append for each character of s. It never reports that the buffer is
\* full (m_length >- m_capacity): beyond its end nothing more is said.
AppendAll(s) ==
  /\ line' = line \o s
  /\ pc' = IF Len(line) + Len(s) > Capacity THEN "overrun" ELSE "read"

\* The first read of a turn.
ReadFirst ==
  /\ pc = "read"
  /\ \E x \in Char :
       /\ ReadInto(x)
       /\ buf' = x
       /\ \/ /\ x = "cr"
             /\ pc' = "read2"
             /\ UNCHANGED line
          \/ /\ x # "cr"
             /\ AppendAll(<<x>>)
  /\ UNCHANGED <<req, sent, peer, conn, out, acceptmbox, m_is_started, client, inHeaders,
                 found, written, m_error, late>>

\* The second one, after a CR: LF ends the line.
ReadSecond ==
  /\ pc = "read2"
  /\ \E x \in Char :
       /\ ReadInto(x)
       /\ buf' = x
       /\ \/ /\ x = "lf"
             /\ pc' = "line"
             /\ UNCHANGED line
          \/ /\ x # "lf"
             /\ AppendAll(<<"cr", x>>)
  /\ UNCHANGED <<req, sent, peer, conn, out, acceptmbox, m_is_started, client, inHeaders,
                 found, written, m_error, late>>

-----------------------------------------------------------------------------
(* parse_request_line, the headers, and Httpd::run *)

\* index_of: the place of the first x in s from k on, 0 if there is none.
IndexOf(s, x, k) ==
  LET places == {i \in k .. Len(s) : s[i] = x} IN
  IF places = {} THEN 0 ELSE CHOOSE i \in places : \A j \in places : i <= j

\* The url is what lies between the first two spaces, or after the first.
UrlToEnd(s) == SubSeq(s, IndexOf(s, "sp", 1) + 1, Len(s))  \* defect: version included
Url(s) ==
  LET p0 == IndexOf(s, "sp", 1)
      p1 == IndexOf(s, "sp", p0 + 1)
  IN SubSeq(s, p0 + 1, IF p1 = 0 THEN Len(s) ELSE p1 - 1)

\* The destructors of the context close the connection, whether get_context
\* has succeeded or not.
\* defect: the connection stays open when get_context has failed
CloseCreated == conn' = IF inHeaders THEN [conn EXCEPT ![client] = "closed"] ELSE conn
CloseClient == conn' = [conn EXCEPT ![client] = "closed"]

\* The context goes out of scope at the end of a turn of Httpd::run.
EndContext ==
  /\ CloseClient
  /\ client' = NoClient
  /\ written' = 0 /\ m_error' = FALSE

\* The Request-Line has been read. Without a space it is kEFormat.
RequestLine ==
  /\ pc = "line"
  /\ ~inHeaders
  /\ \/ /\ IndexOf(line, "sp", 1) = 0
        /\ EndContext
        /\ pc' = "sleep"
        /\ UNCHANGED <<line, buf, inHeaders, found>>
     \/ /\ IndexOf(line, "sp", 1) # 0
        /\ found' = (Url(line) = <<"/">>)
        /\ StartLine(TRUE)
        /\ UNCHANGED <<client, conn, written, m_error>>
  /\ UNCHANGED <<req, sent, read, peer, out, acceptmbox, m_is_started, failed, late>>

\* A header line has been read; an empty one ends them. What a header says has
\* no effect: the length parsed from Content-Length goes to a variable of the
\* inner block.
HeaderLine ==
  /\ pc = "line"
  /\ inHeaders
  /\ \/ /\ line = <<>>
        /\ pc' = "write"
        /\ UNCHANGED <<line, buf, inHeaders>>
     \/ /\ line # <<>>
        /\ StartLine(TRUE)
  /\ UNCHANGED <<connVars, m_is_started, client, found, written, m_error, failed, late>>

-----------------------------------------------------------------------------
(* HttpListenerResponse::write_response *)

\* The body: the time of day for "/", nothing for another url. It is shorter
\* than a chunk.
Body(ok) == IF ok THEN <<<<"time", 1>>>> ELSE <<>>
\* get_total_size().
TotalSize(ok) == Len(Body(ok))

\* The writes of an answer: the status line, the headers and the chunk (of an
\* empty chunk nothing is sent). The writes of text that is always the same are
\* one with the write before them.
StatusEnd == 2
HeadEnd == 4
Writes(ok) ==
  << <<"HTTP/1.1", 0>>, <<"code", IF ok THEN 200 ELSE 404>>,
     <<"Content-Length", TotalSize(ok)>>, <<"crlf", 0>> >> \o Body(ok)

\* One write, that succeeds unless the client has reset the connection. The
\* StreamWriter goes on after a failure and remembers it.
WritePart ==
  /\ pc = "write"
  /\ written < Len(Writes(found))
  /\ written \in {StatusEnd, HeadEnd} => ~m_error
  /\ written' = written + 1
  /\ \/ /\ peer[client] # "rst"
        /\ out' = [out EXCEPT ![client] = Append(@, Writes(found)[written + 1])]
        /\ UNCHANGED m_error
     \/ /\ peer[client] = "rst"
        /\ m_error' = TRUE
        /\ UNCHANGED out
  /\ UNCHANGED <<req, sent, read, peer, conn, acceptmbox, m_is_started, pc, client, line, buf,
                 inHeaders, found, failed, late>>

\* write_response returns: everything is written, or the error is noticed after
\* the status line or after the headers.
WriteDone ==
  /\ pc = "write"
  /\ \/ written = Len(Writes(found))
     \/ written \in {StatusEnd, HeadEnd} /\ m_error
  /\ EndContext
  /\ pc' = "get"
  /\ UNCHANGED <<req, sent, read, peer, out, acceptmbox, m_is_started, line, buf, inHeaders,
                 found, failed, late>>

-----------------------------------------------------------------------------
Server == \/ GetContext \/ Accept \/ AcceptFail \/ Wake
          \/ ReadFirst \/ ReadSecond \/ RequestLine \/ HeaderLine
          \/ WritePart \/ WriteDone

Next ==
  \/ Server \/ Stop
  \/ \E c \in Clients :
       \/ \E r \in Requests : Connect(c, r)
       \/ Arrive(c)
       \/ \E how \in {"fin", "rst"} : Abort(c, how)

Spec == Init /\ [][Next]_vars

\* The server's thread runs when it can, netconn_accept does not fail for ever,
\* and every client sends its whole request.
Fairness ==
  /\ WF_vars(Server)
  /\ SF_vars(Accept)
  /\ \A c \in Clients : WF_vars(Arrive(c))

FairSpec == Spec /\ Fairness

-----------------------------------------------------------------------------
(* Properties. *)

\* What a request asks for, read off its text: the url is the second word of
\* the first line.
FirstLineEnd(r) ==
  CHOOSE i \in 1 .. Len(r) - 1 :
    /\ r[i] = "cr" /\ r[i + 1] = "lf"
    /\ \A j \in 1 .. i - 1 : ~(r[j] = "cr" /\ r[j + 1] = "lf")
AsksForRoot(r) ==
  \E i \in 1 .. FirstLineEnd(r) - 2 :
    /\ r[i] = "sp" /\ r[i + 1] = "/" /\ \A j \in 1 .. i - 1 : r[j] # "sp"
    /\ i + 2 = FirstLineEnd(r) \/ r[i + 2] = "sp"
Malformed(r) == \A i \in 1 .. FirstLineEnd(r) - 1 : r[i] # "sp"

\* The answer it should get.
Header(code, n) ==
  << <<"HTTP/1.1", 0>>, <<"code", code>>, <<"Content-Length", n>>, <<"crlf", 0>> >>
Answer(r) ==
  IF Malformed(r) THEN <<>>
  ELSE IF AsksForRoot(r) THEN Header(200, 1) \o << <<"time", 1>> >>
  ELSE Header(404, 0)

\* Whatever the interleaving of several clients, segments, resets and the
\* reuse of the buffers, what a client gets is the beginning of the answer to
\* its own request, and all of it when the server has closed a connection that
\* the client did not reset. (After a failed read(), which read_line ignores,
\* nothing is promised.)
OwnAnswer ==
  \A c \in {k \in Clients \ failed : conn[k] # "no"} :
    /\ Len(out[c]) <= Len(Answer(req[c]))
    /\ out[c] = SubSeq(Answer(req[c]), 1, Len(out[c]))
    /\ conn[c] = "closed" /\ peer[c] # "rst" => out[c] = Answer(req[c])

\* Every path through Httpd::run, errors included, closes the connection it has
\* accepted before it accepts another.
NoneLeaked == \A c \in Clients : conn[c] = "open" => client = c

\* Httpd::stop lets at most one more connection in: the thread may already be
\* waiting in accept.
OneAfterStop == late <= 1

\* No line of a request that fits the buffer runs over its end, unless a read()
\* has failed, after which read_line appends the same character for ever.
OverrunOnlyAfterFailure == pc = "overrun" => client \in failed

\* With clients that send their whole request, each is answered and closed,
\* resets of any of them included, until a read() fails or the server is
\* stopped: nobody waits behind another for ever.
Answered ==
  \A c \in Clients :
    []<>(conn[c] \notin {"queued", "open"} \/ failed # {} \/ ~m_is_started)

-----------------------------------------------------------------------------
(* Inductive invariants, from which the proofs derive the properties. *)

\* Between two turns of Httpd::run no context exists.
LeakInv ==
  /\ NoneLeaked
  /\ conn \in [Clients -> {"no", "queued", "open", "closed"}]
  /\ acceptmbox \in Seq(Clients)
  /\ pc \in {"get", "sleep", "accept"} => client = NoClient

\* Once a connection has been accepted after stop(), the thread does not come
\* to accept again.
StopInv ==
  /\ late \in 0 .. 1
  /\ m_is_started => late = 0
  /\ late = 1 => pc # "accept"

\* What read_line asks of a request: a CR is not followed by another (it would
\* take the pair for text and miss an LF behind it), and the text of each line,
\* from its start s to a character e that can be part of it, fits the buffer.
CrLf(r, j) == r[j] = "cr" /\ r[j + 1] = "lf"
LineStart(r, s) == s = 0 \/ (s >= 2 /\ CrLf(r, s - 1))
NoCrLf(r, s, e) == \A j \in s + 1 .. e - 1 : ~CrLf(r, j)
WellFormed(r) ==
  /\ \A j \in 1 .. Len(r) - 1 : r[j] = "cr" => r[j + 1] # "cr"
  /\ \A s, e \in 0 .. Len(r) :
       s < e /\ LineStart(r, s) /\ NoCrLf(r, s, e) /\ r[e] # "cr" => e - s <= Capacity

\* A connection is fresh until it is accepted, and waits to be accepted once.
ConnTypes ==
  /\ req \in [Clients -> Seq(Char)]
  /\ sent \in [Clients -> Nat] /\ read \in [Clients -> Nat]
  /\ peer \in [Clients -> {"no", "up", "fin", "rst"}]
Fresh(c) ==
  /\ read[c] <= sent[c] /\ sent[c] <= Len(req[c])
  /\ conn[c] = "no" => sent[c] = 0 /\ peer[c] = "no"
  /\ conn[c] # "no" => req[c] \in Requests
  /\ conn[c] \in {"no", "queued"} => read[c] = 0 /\ out[c] = <<>> /\ c \notin failed
QueuedOnce ==
  /\ \A j \in 1 .. Len(acceptmbox) : conn[acceptmbox[j]] = "queued"
  /\ \A j, k \in 1 .. Len(acceptmbox) : acceptmbox[j] = acceptmbox[k] => j = k
QueueInv ==
  /\ ConnTypes
  /\ \A c \in Clients : Fresh(c)
  /\ QueuedOnce
  /\ pc \notin {"get", "sleep", "accept"} => client \in Clients /\ conn[client] = "open"

\* read_line is within a line, or has read one.
Reading == pc \in {"read", "read2", "line", "overrun"}
\* Characters read that are not part of the line: a CR, and the LF after it.
Lag == IF pc = "read2" THEN 1 ELSE IF pc = "line" THEN 2 ELSE 0

\* The line is the text of the request from s on, as far as it has been read.
LineFrom(r, n, s) ==
  /\ LineStart(r, s)
  /\ s = 0 <=> inHeaders = FALSE
  /\ n = s + Len(line) + Lag
  /\ \A j \in 1 .. Len(line) : line[j] = r[s + j]
  /\ NoCrLf(r, s, IF pc = "line" THEN n - 1 ELSE n)
  /\ pc = "read" /\ n > s => r[n] # "cr"
  /\ pc = "read2" => r[n] = "cr"
  /\ pc = "line" => CrLf(r, n - 1)

LineInv ==
  /\ line \in Seq(Char) /\ inHeaders \in BOOLEAN
  /\ Reading /\ client \notin failed =>
       /\ pc # "overrun"
       /\ \E s \in 0 .. read[client] : LineFrom(req[client], read[client], s)

Part == {"HTTP/1.1", "code", "Content-Length", "crlf", "time"} \X Nat
AnswerTypes ==
  /\ out \in [Clients -> Seq(Part)]
  /\ written \in Nat /\ m_error \in BOOLEAN /\ found \in BOOLEAN

\* o is the beginning of the answer a.
BeginningOf(o, a) == Len(o) <= Len(a) /\ o = SubSeq(a, 1, Len(o))

\* A context exists: a request is read or answered.
Serving == Reading \/ pc = "write"
\* Where else the thread can be.
ThreadInv == Serving \/ pc \in {"get", "sleep", "accept"}

\* Once the Request-Line is parsed, found is what the request asks for.
ParseInv ==
  Serving /\ inHeaders = TRUE /\ client \notin failed =>
    ~Malformed(req[client]) /\ (found = TRUE <=> AsksForRoot(req[client]))

\* The answer is written in order, and broken off only after a reset.
WriteInv ==
  /\ pc # "write" => written = 0 /\ m_error = FALSE
  /\ Reading => out[client] = <<>>
  /\ pc = "write" =>
       /\ inHeaders = TRUE
       /\ written <= Len(Writes(found))
       /\ BeginningOf(out[client], Writes(found))
       /\ m_error = FALSE => Len(out[client]) = written
       /\ m_error = TRUE => peer[client] = "rst"

\* What was sent on a connection that is closed is the answer to its request.
ClosedInv ==
  \A c \in Clients \ failed : conn[c] = "closed" =>
    /\ BeginningOf(out[c], Answer(req[c]))
    /\ peer[c] # "rst" => out[c] = Answer(req[c])
=============================================================================
