----------------------------- MODULE SntpProofs -----------------------------
(***************************************************************************)
(* How far from the true time a synchronisation can leave the clock.       *)
(***************************************************************************)
EXTENDS Sntp, TLAPS

----------------------------------------------------------------------------
(* Arithmetic.                                                             *)

\* Division towards zero is exact up to the remainder.
LEMMA QuotientBounds ==
  ASSUME NEW a \in Int, NEW b \in Nat \ {0}
  PROVE  /\ Quotient(a, b) \in Int
         /\ b * Quotient(a, b) <= a + (b - 1)
         /\ b * Quotient(a, b) >= a - (b - 1)
<1>1. \A x \in Nat : /\ x \div b \in Int
                     /\ b * (x \div b) <= x
                     /\ b * (x \div b) >= x - (b - 1)
  BY SMT
<1>2. CASE a >= 0
  BY <1>1, <1>2 DEF Quotient
<1>3. CASE ~(a >= 0)
  <2>1. Quotient(a, b) = -((-a) \div b)
    BY <1>3 DEF Quotient
  <2>2. -a \in Nat
    BY <1>3
  <2>3. /\ (-a) \div b \in Int
        /\ b * ((-a) \div b) <= -a
        /\ b * ((-a) \div b) >= (-a) - (b - 1)
    BY <1>1, <2>2
  <2>4. \A q \in Int : b * (-q) = -(b * q)
    BY SMT
  <2> QED
    BY <2>1, <2>3, <2>4
<1> QED
  BY <1>2, <1>3

\* The products that occur in the bounds of the average.
LEMMA Monotone ==
  ASSUME NEW k \in Nat, NEW x \in Int, NEW y \in Int, x <= y
  PROVE  k * x \in Int /\ k * x <= k * y
BY SMT

LEMMA OneMore ==
  ASSUME NEW k \in Nat, NEW x \in Int
  PROVE  (k + 1) * x = k * x + x
BY SMT

LEMMA Cancel ==
  ASSUME NEW k \in Nat \ {0}, NEW x \in Int, NEW y \in Int, k * x <= k * y
  PROVE  x <= y
BY SMT

----------------------------------------------------------------------------
(* Types.                                                                  *)

\* There is room in offsets for the next sample.
RoomInv == IF pc \in {"get", "sync"} THEN ok_cnt = NumSamples ELSE ok_cnt < NumSamples

LEMMA TypeInit == Init => TypeOK /\ RoomInv
<1> SUFFICES ASSUME Init PROVE TypeOK /\ RoomInv
  OBVIOUS
<1>1. NoReply \in Reply /\ <<>> \in Seq(Reply) /\ <<>> \in Seq(Nat)
  BY DEF NoReply, Reply
<1>2. 0 \in 0..(MaxErrors - 1) /\ 0 \in 0..NumSamples /\ 0 \in 0..MaxLate /\ 0 < NumSamples
  BY SntpAssumption
<1>3. skew \in Int
  BY SntpAssumption DEF Init
<1>4. RoomInv
  BY <1>2 DEF Init, RoomInv
<1>5. recv_data \in Reply /\ recvmbox \in Seq(Reply) /\ sent \in Seq(Nat)
  BY <1>1 DEF Init
<1>6. /\ now \in Nat /\ due \in Nat
      /\ pc \in {"sleep", "top", "send", "recv", "stamp", "get", "sync"}
      /\ ok_cnt \in 0..NumSamples /\ error_cnt \in 0..(MaxErrors - 1)
      /\ cli_send_tm \in Int /\ cur_tm \in Int /\ offset_avg \in Int
      /\ outcome \in {"none", "ok", "failed"}
      /\ span \in Nat /\ late \in 0..MaxLate
  BY <1>2 DEF Init
<1>7. rest \in BOOLEAN /\ m_is_synced \in BOOLEAN /\ matched \in BOOLEAN
  BY Zenon DEF Init
<1> QED
  BY <1>3, <1>4, <1>5, <1>6, <1>7, Zenon DEF TypeOK

LEMMA OffsetType ==
  ASSUME TypeOK
  PROVE  /\ get_time \in Int
         /\ Offset(get_time) \in Int
         /\ Share(Offset(get_time)) \in Int
<1>1. get_time \in Int /\ recv_data.recv - cli_send_tm \in Int
      /\ get_time - recv_data.send \in Int
  BY DEF TypeOK, Reply, get_time
<1>2. Offset(get_time) \in Int
  <2>1. \A a \in Int : Quotient(a, 2) \in Int
    BY QuotientBounds
  <2> QED
    BY <1>1, <2>1 DEF Offset
<1> QED
  BY <1>1, <1>2, QuotientBounds, SntpAssumption DEF Share

LEMMA TypeStep == TypeOK /\ RoomInv /\ [Next]_vars => TypeOK' /\ RoomInv'
<1> SUFFICES ASSUME TypeOK, RoomInv, [Next]_vars
             PROVE  TypeOK' /\ RoomInv'
  OBVIOUS
<1> USE SntpAssumption
<1>0. NoReply \in Reply
  BY DEF NoReply, Reply
<1>1. CASE Tick
  BY <1>1 DEF Tick, TypeOK, RoomInv, clockVars, threadVars, sockVars
<1>2. ASSUME NEW i \in DOMAIN sent, NEW r \in sent[i]..now, NEW s \in sent[i]..now,
             Arrive(i, r, s)
      PROVE  TypeOK' /\ RoomInv'
  <2>1. i \in Nat /\ sent[i] \in Nat
    BY DEF TypeOK
  <2>2. [of |-> i, recv |-> r, send |-> s] \in Reply
    BY <2>1, SMTT(30) DEF Reply, TypeOK, RoomInv
  <2> QED
    BY <1>2, <2>2 DEF Arrive, TypeOK, RoomInv, clockVars, threadVars, histVars
<1>3. CASE Begin
  BY <1>3 DEF Begin, TypeOK, RoomInv, sockVars
<1>4. CASE GetSendTime
  BY <1>4, OffsetType DEF GetSendTime, TypeOK, RoomInv, clockVars, sockVars, histVars
<1>5. ASSUME Error, pc \notin {"get", "sync"}, UNCHANGED <<now, clockVars, cur_tm, histVars>>
      PROVE  TypeOK' /\ RoomInv'
  <2>1. CASE error_cnt + 1 >= MaxErrors
    <3>1. /\ pc' = "sleep" /\ due' = now /\ outcome' = "failed" /\ cli_send_tm' = 0
          /\ ok_cnt' = 0 /\ error_cnt' = 0 /\ offset_avg' = 0
          /\ recvmbox' = <<>> /\ rest' = FALSE /\ sent' = <<>> /\ recv_data' = NoReply
      BY <1>5, <2>1 DEF Error, Return, Dispose
    <3>2. recv_data' \in Reply /\ recvmbox' \in Seq(Reply) /\ sent' \in Seq(Nat)
      BY <3>1, <1>0
    <3>3. 0 \in 0..(MaxErrors - 1) /\ 0 \in 0..NumSamples /\ 0 < NumSamples
      OBVIOUS
    <3>4. /\ now' \in Nat /\ skew' \in Int /\ m_is_synced' \in BOOLEAN /\ cur_tm' \in Int
          /\ span' \in Nat /\ late' \in 0..MaxLate /\ matched' \in BOOLEAN
      BY <1>5 DEF TypeOK, clockVars, histVars
    <3>5. RoomInv'
      BY <3>1, <3>3 DEF RoomInv
    <3>6. /\ pc' \in {"sleep", "top", "send", "recv", "stamp", "get", "sync"} /\ due' \in Nat
          /\ ok_cnt' \in 0..NumSamples /\ error_cnt' \in 0..(MaxErrors - 1)
          /\ cli_send_tm' \in Int /\ offset_avg' \in Int
          /\ outcome' \in {"none", "ok", "failed"}
      BY <3>1, <3>3 DEF TypeOK
    <3>7. rest' \in BOOLEAN
      BY <3>1, Zenon
    <3> QED
      BY <3>2, <3>4, <3>5, <3>6, <3>7, Zenon DEF TypeOK
  <2>2. CASE ~(error_cnt + 1 >= MaxErrors)
    BY <1>5, <2>2 DEF Error, TypeOK, RoomInv, clockVars, histVars, sockVars
  <2> QED
    BY <2>1, <2>2
<1>6. CASE Send
  <2>1. CASE Error
    BY <1>5, <1>6, <2>1 DEF Send
  <2>2. CASE ~Error
    <3>1. sent' = Append(sent, now) /\ pc = "send" /\ pc' = "recv" /\ due' = now + RECV_TIMEOUT
          /\ UNCHANGED <<ok_cnt, error_cnt, cli_send_tm, offset_avg, outcome,
                        recv_data, rest, recvmbox>>
          /\ UNCHANGED <<now, clockVars, cur_tm, histVars>>
      BY <1>6, <2>2, Zenon DEF Send
    <3>2. sent' \in Seq(Nat)
      BY <3>1 DEF TypeOK
    <3> QED
      BY <3>1, <3>2 DEF TypeOK, RoomInv, clockVars, histVars
  <2> QED
    BY <2>1, <2>2
<1>7. CASE Recv
  <2>1. CASE rest
    BY <1>7, <2>1 DEF Recv, TypeOK, RoomInv, clockVars, histVars
  <2>2. CASE ~rest
    <3>1. Head(recvmbox) \in Reply /\ Tail(recvmbox) \in Seq(Reply)
      BY <1>7, <2>2 DEF Recv, TypeOK, RoomInv
    <3> QED
      BY <1>7, <2>2, <3>1 DEF Recv, TypeOK, RoomInv, clockVars, histVars
  <2> QED
    BY <2>1, <2>2
<1>8. CASE RecvTimeout
  BY <1>5, <1>8 DEF RecvTimeout
<1>9. CASE GetRecvTime
  <2>1. offset_avg' \in Int /\ span' \in Nat /\ ok_cnt' = ok_cnt + 1 /\ matched' \in BOOLEAN
    BY <1>9, OffsetType DEF GetRecvTime, TypeOK, RoomInv
  <2>2. CASE ok_cnt + 1 >= NumSamples
    <3>2. ok_cnt' = NumSamples /\ pc' = "get" /\ due' = now /\ cli_send_tm' = 0
          /\ recvmbox' = <<>> /\ rest' = FALSE /\ sent' = <<>> /\ recv_data' = NoReply
      BY <1>9, <2>1, <2>2 DEF GetRecvTime, Dispose, TypeOK, RoomInv
    <3>3. UNCHANGED <<now, clockVars, error_cnt, cur_tm, outcome, late>>
      BY <1>9 DEF GetRecvTime
    <3>4. recv_data' \in Reply /\ recvmbox' \in Seq(Reply) /\ sent' \in Seq(Nat)
      BY <3>2, <1>0
    <3>5. RoomInv'
      BY <3>2 DEF RoomInv
    <3>6. /\ now' \in Nat /\ skew' \in Int /\ m_is_synced' \in BOOLEAN /\ cur_tm' \in Int
          /\ error_cnt' \in 0..(MaxErrors - 1) /\ outcome' \in {"none", "ok", "failed"}
          /\ late' \in 0..MaxLate
      BY <3>3 DEF TypeOK, clockVars
    <3>7. /\ pc' \in {"sleep", "top", "send", "recv", "stamp", "get", "sync"} /\ due' \in Nat
          /\ ok_cnt' \in 0..NumSamples /\ cli_send_tm' \in Int
      BY <3>2 DEF TypeOK
    <3>8. rest' \in BOOLEAN
      BY <3>2, Zenon
    <3> QED
      BY <2>1, <3>4, <3>5, <3>6, <3>7, <3>8, Zenon DEF TypeOK
  <2>3. CASE ~(ok_cnt + 1 >= NumSamples)
    BY <1>9, <2>1, <2>3, <1>0 DEF GetRecvTime, TypeOK, RoomInv, clockVars
  <2> QED
    BY <2>2, <2>3
<1>10. CASE GetTime
  BY <1>10, OffsetType DEF GetTime, TypeOK, RoomInv, clockVars, sockVars, histVars
<1>11. CASE Sync
  BY <1>11 DEF Sync, Return, TypeOK, RoomInv, sockVars, histVars
<1>12. CASE UNCHANGED vars
  BY <1>12 DEF vars, TypeOK, RoomInv, clockVars, threadVars, sockVars, histVars
<1> QED
  BY <1>1, <1>2, <1>3, <1>4, <1>6, <1>7, <1>8, <1>9, <1>10, <1>11, <1>12 DEF Next, Thread

\* TypeOK is an invariant of the client and the clock; its counters stay within
\* offsets and below the third error.
THEOREM SntpTypeCorrect == Spec => []TypeOK
<1>1. TypeOK /\ RoomInv /\ [Next]_vars => (TypeOK /\ RoomInv)'
  BY TypeStep
<1> QED
  BY TypeInit, <1>1, PTL DEF Spec

----------------------------------------------------------------------------
(* The inductive invariant.                                                *)

\* A reply bears times of the server between the request it answers and now.
Genuine(q) ==
  /\ q.of \in DOMAIN sent
  /\ sent[q.of] <= q.recv /\ q.recv <= q.send /\ q.send <= now

\* The exchange under way: cli_send_tm was read before the request was sent, and
\* a reply about to be used is genuine.
ExchangeInv ==
  /\ \A k \in DOMAIN sent : sent[k] <= now
  /\ \A k \in DOMAIN recvmbox : Genuine(recvmbox[k])
  /\ pc = "send" => 0 <= cli_send_tm - skew /\ cli_send_tm - skew <= now
  /\ pc \in {"recv", "stamp"} =>
       /\ sent # <<>>
       /\ 0 <= cli_send_tm - skew /\ cli_send_tm - skew <= sent[Len(sent)]
  /\ rest \/ pc = "stamp" => Genuine(recv_data)
  /\ pc \in {"sleep", "get", "sync"} => sent = <<>> /\ recvmbox = <<>> /\ rest = FALSE

\* The time up to which the samples were taken.
Until == IF pc = "sync" THEN due ELSE now

\* What the samples so far may have contributed to the average.
AverageInv ==
  /\ (2 * NumSamples) * offset_avg <= ok_cnt * ((span + 2 * NumSamples) - 2 * skew)
  /\ (2 * NumSamples) * offset_avg >= ok_cnt * (-(2 * Until + 2 * NumSamples + 2 * skew))
  /\ matched =>
       (2 * NumSamples) * offset_avg >= ok_cnt * (-(span + 2 * NumSamples + 2 * skew))

\* At the end the time was read at due and the average added to it.
EndInv ==
  /\ IF pc = "sleep" THEN ok_cnt = 0 /\ offset_avg = 0 ELSE outcome = "none"
  /\ pc = "sync" => /\ due <= now /\ now - due <= late
                    /\ cur_tm = (due + skew) + offset_avg

SyncInv == TypeOK /\ RoomInv /\ ExchangeInv /\ AverageInv /\ EndInv /\ NeverAhead /\ NotFarBehind

LEMMA SyncInit == Init => SyncInv
<1> SUFFICES ASSUME Init PROVE SyncInv
  OBVIOUS
<1>1. TypeOK /\ RoomInv
  BY TypeInit
<1>2. ExchangeInv
  <2>1. pc = "sleep" /\ sent = <<>> /\ recvmbox = <<>> /\ rest = FALSE
    BY Zenon DEF Init
  <2> QED
    BY <2>1 DEF ExchangeInv
<1>3. offset_avg = 0 /\ ok_cnt = 0 /\ pc = "sleep" /\ outcome = "none"
  BY DEF Init
<1>4. AverageInv
  <2>1. \A x \in Int : 0 * x = 0
    OBVIOUS
  <2> QED
    BY <1>1, <1>3, <2>1, SntpAssumption DEF AverageInv, TypeOK, Until
<1> QED
  BY <1>1, <1>2, <1>3, <1>4 DEF SyncInv, EndInv, NeverAhead, NotFarBehind

\* What an error does: the attempt ends and the socket goes, or the loop begins anew.
LEMMA ErrorCases ==
  ASSUME Error
  PROVE  \/ /\ pc' = "sleep" /\ outcome' = "failed" /\ ok_cnt' = 0 /\ offset_avg' = 0
            /\ recvmbox' = <<>> /\ rest' = FALSE /\ sent' = <<>>
         \/ pc' = "top" /\ UNCHANGED <<ok_cnt, offset_avg, outcome, recv_data, rest, recvmbox, sent>>
BY DEF Error, Return, Dispose, sockVars

LEMMA ExchangeStep == SyncInv /\ [Next]_vars => ExchangeInv'
<1> SUFFICES ASSUME SyncInv, [Next]_vars PROVE ExchangeInv'
  OBVIOUS
<1>0. TypeOK /\ RoomInv /\ ExchangeInv /\ EndInv
  BY DEF SyncInv
<1>a. ASSUME sent' = <<>>, recvmbox' = <<>>, rest' = FALSE,
             pc' \in {"sleep", "get", "sync", "top"}
      PROVE  ExchangeInv'
  BY <1>a DEF ExchangeInv
<1>b. ASSUME Error, pc \in {"send", "recv"}, UNCHANGED <<now, skew>>
      PROVE  ExchangeInv'
  <2>1. CASE /\ pc' = "sleep" /\ recvmbox' = <<>> /\ rest' = FALSE /\ sent' = <<>>
    BY <1>a, <2>1
  <2>2. CASE pc' = "top" /\ UNCHANGED <<recv_data, rest, recvmbox, sent>>
    BY <1>0, <1>b, <2>2 DEF ExchangeInv, Genuine
  <2> QED
    BY <1>b, <2>1, <2>2, ErrorCases
<1>1. CASE Tick
  <2>1. UNCHANGED <<pc, skew, cli_send_tm, recv_data, rest, recvmbox, sent>> /\ now' = now + 1
    BY <1>1 DEF Tick, clockVars, threadVars, sockVars
  <2>2. \A k \in DOMAIN sent : sent[k] \in Nat
    BY <1>0 DEF TypeOK
  <2>3. \A k \in DOMAIN recvmbox : recvmbox[k] \in Reply
    BY <1>0 DEF TypeOK
  <2>4. \A q \in Reply : Genuine(q) => Genuine(q)'
    BY <2>1, <1>0 DEF Genuine, TypeOK, Reply
  <2>5. \A k \in DOMAIN recvmbox : Genuine(recvmbox[k])'
    BY <1>0, <2>1, <2>3, <2>4 DEF ExchangeInv
  <2>6. rest \/ pc = "stamp" => Genuine(recv_data)'
    BY <1>0, <2>1, <2>4 DEF ExchangeInv, TypeOK
  <2>7. \A k \in DOMAIN sent : sent[k] <= now + 1
    BY <1>0, <2>2 DEF ExchangeInv, TypeOK
  <2>8. pc = "send" => cli_send_tm - skew <= now + 1
    BY <1>0 DEF ExchangeInv, TypeOK
  <2> QED
    BY <1>0, <2>1, <2>5, <2>6, <2>7, <2>8 DEF ExchangeInv, Genuine
<1>2. ASSUME NEW i \in DOMAIN sent, NEW r \in sent[i]..now, NEW t \in sent[i]..now,
             Arrive(i, r, t)
      PROVE  ExchangeInv'
  <2>1. UNCHANGED <<now, pc, skew, cli_send_tm, recv_data, rest, sent>>
    BY <1>2 DEF Arrive, clockVars, threadVars
  <2>2. DEFINE q == [of |-> i, recv |-> r, send |-> t]
  <2>3. Genuine(q)
    <3>1. r <= t /\ sent[i] \in Nat /\ now \in Nat
      BY <1>2, <1>0 DEF Arrive, TypeOK
    <3> QED
      BY <3>1 DEF Genuine
  <2>4. recvmbox \in Seq(Reply) /\ q \in Reply /\ recvmbox' = Append(recvmbox, q)
    <3>1. i \in Nat /\ sent[i] \in Nat
      BY <1>0 DEF TypeOK
    <3> QED
      BY <1>2, <1>0, <3>1, SMTT(30) DEF Arrive, TypeOK, Reply
  <2> HIDE DEF q
  <2>5. \A k \in DOMAIN recvmbox' : recvmbox'[k] = q \/ (k \in DOMAIN recvmbox /\ recvmbox'[k] = recvmbox[k])
    BY <2>4
  <2>6. \A k \in DOMAIN recvmbox' : Genuine(recvmbox'[k])
    BY <2>3, <2>5, <1>0 DEF ExchangeInv
  <2>7. \A k \in DOMAIN recvmbox' : Genuine(recvmbox[k])'
    BY <2>6, <2>1 DEF Genuine
  <2>8. ~(pc \in {"sleep", "get", "sync"})
    BY <1>0, <1>2 DEF ExchangeInv
  <2> QED
    BY <1>0, <2>1, <2>7, <2>8 DEF ExchangeInv, Genuine
<1>3. CASE Begin
  <2>1. pc = "sleep" /\ pc' \in {"sleep", "top"} /\ UNCHANGED <<rest, recvmbox, sent>>
    BY <1>3 DEF Begin, sockVars
  <2> QED
    BY <1>0, <1>a, <2>1 DEF ExchangeInv
<1>4. CASE GetSendTime
  <2>1. /\ pc' = "send" /\ UNCHANGED <<now, skew, recv_data, rest, recvmbox, sent>>
        /\ cli_send_tm' = now + skew
    BY <1>4 DEF GetSendTime, get_time, clockVars, sockVars
  <2>2. 0 <= cli_send_tm' - skew' /\ cli_send_tm' - skew' <= now'
    BY <2>1, <1>0 DEF TypeOK
  <2>3. pc = "top"
    BY <1>4 DEF GetSendTime
  <2> QED
    BY <1>0, <2>1, <2>2, <2>3 DEF ExchangeInv, Genuine
<1>5. CASE Send
  <2>1. CASE Error
    BY <1>5, <1>b, <2>1 DEF Send, clockVars
  <2>2. CASE ~Error
    <3>1. /\ sent' = Append(sent, now) /\ pc = "send" /\ pc' = "recv"
          /\ UNCHANGED <<cli_send_tm, recv_data, rest, recvmbox, now, skew>>
      BY <1>5, <2>2 DEF Send, clockVars
    <3>2. /\ sent' # <<>> /\ sent'[Len(sent')] = now
          /\ \A k \in DOMAIN sent' : sent'[k] = now \/ (k \in DOMAIN sent /\ sent'[k] = sent[k])
          /\ \A k \in DOMAIN sent : k \in DOMAIN sent' /\ sent'[k] = sent[k]
      <4>1. sent \in Seq(Nat) /\ now \in Nat /\ Len(sent) \in Nat /\ DOMAIN sent = 1..Len(sent)
        BY <1>0 DEF TypeOK
      <4>2. /\ Len(sent') = Len(sent) + 1 /\ DOMAIN sent' = 1..(Len(sent) + 1)
            /\ sent'[Len(sent) + 1] = now
            /\ \A k \in 1..Len(sent) : sent'[k] = sent[k]
        BY <3>1, <4>1
      <4>3. sent' # <<>>
        BY <4>1, <4>2
      <4> QED
        BY <4>1, <4>2, <4>3
    <3>3. \A k \in DOMAIN sent' : sent'[k] <= now'
      BY <3>1, <3>2, <1>0 DEF ExchangeInv, TypeOK
    <3>4. \A q : Genuine(q) => Genuine(q)'
      BY <3>1, <3>2 DEF Genuine
    <3>5. 0 <= cli_send_tm' - skew' /\ cli_send_tm' - skew' <= sent'[Len(sent')]
      BY <1>0, <3>1, <3>2 DEF ExchangeInv
    <3>6. \A k \in DOMAIN recvmbox' : Genuine(recvmbox[k])'
      BY <1>0, <3>1, <3>4 DEF ExchangeInv
    <3> QED
      BY <1>0, <3>1, <3>2, <3>3, <3>4, <3>5, <3>6 DEF ExchangeInv
  <2> QED
    BY <2>1, <2>2
<1>6. CASE Recv
  <2>0. /\ pc = "recv" /\ pc' = "stamp" /\ UNCHANGED <<now, skew, cli_send_tm, sent>>
    BY <1>6 DEF Recv, clockVars
  <2>1. CASE rest
    <3>1. rest' = FALSE /\ UNCHANGED <<recv_data, recvmbox>>
      BY <1>6, <2>1 DEF Recv
    <3> QED
      BY <1>0, <2>0, <2>1, <3>1 DEF ExchangeInv, Genuine
  <2>2. CASE ~rest
    <3>1. recvmbox # <<>> /\ recv_data' = Head(recvmbox) /\ recvmbox' = Tail(recvmbox)
      BY <1>6, <2>2 DEF Recv
    <3>2. /\ 1 \in DOMAIN recvmbox /\ recv_data' = recvmbox[1]
          /\ \A k \in DOMAIN recvmbox' : k + 1 \in DOMAIN recvmbox /\ recvmbox'[k] = recvmbox[k + 1]
      <4>1. recvmbox \in Seq(Reply) /\ Len(recvmbox) \in Nat /\ DOMAIN recvmbox = 1..Len(recvmbox)
            /\ Len(recvmbox) >= 1
        BY <3>1, <1>0 DEF TypeOK
      <4>2. Len(recvmbox') = Len(recvmbox) - 1 /\ recvmbox' \in Seq(Reply)
            /\ DOMAIN recvmbox' = 1..(Len(recvmbox) - 1)
        BY <3>1, <4>1
      <4>3. \A k \in 1..(Len(recvmbox) - 1) : recvmbox'[k] = recvmbox[k + 1]
        BY <3>1, <4>1
      <4> QED
        BY <3>1, <4>1, <4>2, <4>3
    <3>3. \A q : Genuine(q) => Genuine(q)'
      BY <2>0 DEF Genuine
    <3>4. Genuine(recv_data)'
      BY <1>0, <2>0, <3>2 DEF ExchangeInv, Genuine
    <3>5. \A k \in DOMAIN recvmbox' : Genuine(recvmbox[k])'
      BY <1>0, <2>0, <3>2 DEF ExchangeInv, Genuine
    <3> QED
      BY <1>0, <2>0, <3>4, <3>5 DEF ExchangeInv
  <2> QED
    BY <2>1, <2>2
<1>7. CASE RecvTimeout
  BY <1>7, <1>b DEF RecvTimeout, clockVars
<1>8. CASE GetRecvTime
  <2>1. CASE ok_cnt + 1 >= NumSamples
    BY <1>8, <1>a, <2>1 DEF GetRecvTime, Dispose
  <2>2. CASE ~(ok_cnt + 1 >= NumSamples)
    <3>1. /\ pc' = "top" /\ UNCHANGED <<now, skew, rest, recvmbox, sent>>
          /\ rest => recv_data' = recv_data
      BY <1>8, <2>2 DEF GetRecvTime, clockVars
    <3> QED
      BY <1>0, <3>1 DEF ExchangeInv, Genuine
  <2> QED
    BY <2>1, <2>2
<1>9. CASE GetTime
  <2>1. pc = "get" /\ pc' = "sync" /\ UNCHANGED <<rest, recvmbox, sent>>
    BY <1>9 DEF GetTime, sockVars
  <2> QED
    BY <1>0, <1>a, <2>1 DEF ExchangeInv
<1>10. CASE Sync
  <2>1. pc = "sync" /\ pc' = "sleep" /\ UNCHANGED <<rest, recvmbox, sent>>
    BY <1>10 DEF Sync, Return, sockVars
  <2> QED
    BY <1>0, <1>a, <2>1 DEF ExchangeInv
<1>11. CASE UNCHANGED vars
  BY <1>0, <1>11 DEF vars, clockVars, threadVars, sockVars, ExchangeInv, Genuine
<1> QED
  BY <1>1, <1>2, <1>3, <1>4, <1>5, <1>6, <1>7, <1>8, <1>9, <1>10, <1>11 DEF Next, Thread

\* The contribution of a sample that is being taken.
LEMMA SampleBounds ==
  ASSUME TypeOK, ExchangeInv, pc = "stamp",
         NEW x \in Int, x = Share(Offset(get_time)),
         NEW sp \in Nat, get_time - cli_send_tm <= sp
  PROVE  /\ (2 * NumSamples) * x <= (sp + 2 * NumSamples) - 2 * skew
         /\ (2 * NumSamples) * x >= -(2 * now + 2 * NumSamples + 2 * skew)
         /\ Matches => (2 * NumSamples) * x >= -(sp + 2 * NumSamples + 2 * skew)
<1> DEFINE o == Offset(get_time)
           R == recv_data.recv
           S == recv_data.send
           Ts == cli_send_tm - skew
<1>1. /\ now \in Nat /\ skew \in Int /\ R \in Int /\ S \in Int /\ Ts \in Int
      /\ cli_send_tm = Ts + skew /\ get_time = now + skew
      /\ NumSamples \in Nat /\ NumSamples >= 1
  BY SntpAssumption DEF TypeOK, Reply, get_time
<1>2. 0 <= Ts /\ Ts <= now /\ 0 <= R /\ R <= S /\ S <= now /\ (Matches => Ts <= R)
  <2>1. /\ sent # <<>> /\ 0 <= Ts /\ Ts <= sent[Len(sent)] /\ Genuine(recv_data)
        /\ \A k \in DOMAIN sent : sent[k] <= now
    BY DEF ExchangeInv
  <2>2. Len(sent) \in DOMAIN sent /\ \A k \in DOMAIN sent : sent[k] \in Nat
    BY <2>1 DEF TypeOK
  <2>3. sent[Len(sent)] <= now /\ sent[Len(sent)] \in Nat /\ sent[recv_data.of] \in Nat
        /\ sent[recv_data.of] <= R /\ R <= S /\ S <= now
    BY <2>1, <2>2 DEF Genuine
  <2>4. Matches => sent[recv_data.of] = sent[Len(sent)]
    BY DEF Matches
  <2> QED
    BY <1>1, <2>1, <2>3, <2>4, SMTT(30)
<1>3. /\ o \in Int
      /\ 2 * o <= ((R - Ts) + (S - now)) - 2 * skew + 2
      /\ 2 * o >= ((R - Ts) + (S - now)) - 2 * skew - 2
  <2> DEFINE a == R - cli_send_tm
             b == get_time - S
  <2>1. a \in Int /\ b \in Int
    BY <1>1
  <2>2. o = Quotient(a, 2) - Quotient(b, 2)
    BY DEF Offset
  <2>3. /\ Quotient(a, 2) \in Int /\ 2 * Quotient(a, 2) <= a + 1 /\ 2 * Quotient(a, 2) >= a - 1
    BY <2>1, QuotientBounds
  <2>4. /\ Quotient(b, 2) \in Int /\ 2 * Quotient(b, 2) <= b + 1 /\ 2 * Quotient(b, 2) >= b - 1
    BY <2>1, QuotientBounds
  <2>5. a = (R - Ts) - skew /\ b = (now - S) + skew
    BY <1>1
  <2> HIDE DEF a, b, R, S, Ts, o
  <2> QED
    BY <1>1, <2>1, <2>2, <2>3, <2>4, <2>5
<1>4. NumSamples * x <= o + (NumSamples - 1) /\ NumSamples * x >= o - (NumSamples - 1)
  <2>1. x = Quotient(o, NumSamples) /\ NumSamples \in Nat \ {0}
    BY <1>1 DEF Share
  <2> HIDE DEF o
  <2> QED
    BY <1>3, <2>1, QuotientBounds
<1>5. (2 * NumSamples) * x = 2 * (NumSamples * x) /\ NumSamples * x \in Int
  BY <1>1
<1>6. now - Ts <= sp
  BY <1>1
<1> DEFINE y == NumSamples * x
<1> HIDE DEF R, S, Ts, o, y
<1>7. /\ 2 * y <= (sp + 2 * NumSamples) - 2 * skew
      /\ 2 * y >= -(2 * now + 2 * NumSamples + 2 * skew)
      /\ Ts <= R => 2 * y >= -(sp + 2 * NumSamples + 2 * skew)
  BY <1>1, <1>2, <1>3, <1>4, <1>5, <1>6 DEF y
<1> QED
  BY <1>2, <1>5, <1>7 DEF y

LEMMA AverageStep == SyncInv /\ [Next]_vars => AverageInv'
<1> SUFFICES ASSUME SyncInv, [Next]_vars PROVE AverageInv'
  OBVIOUS
<1>0. TypeOK /\ RoomInv /\ ExchangeInv /\ AverageInv /\ EndInv /\ TypeOK'
  BY TypeStep DEF SyncInv
<1>n. NumSamples \in Nat /\ NumSamples >= 1
  BY SntpAssumption
<1>a. ASSUME ok_cnt' = 0, offset_avg' = 0
      PROVE  AverageInv'
  <2>1. \A x \in Int : 0 * x = 0
    OBVIOUS
  <2>2. (2 * NumSamples) * 0 = 0
    BY <1>n
  <2>3. /\ ((span + 2 * NumSamples) - 2 * skew)' \in Int
        /\ (-(2 * Until + 2 * NumSamples + 2 * skew))' \in Int
        /\ (-(span + 2 * NumSamples + 2 * skew))' \in Int
    <3>1. span' \in Nat /\ skew' \in Int /\ Until' \in Nat
      BY <1>0 DEF TypeOK, Until
    <3>2. \A p, q \in Int : (p + 2 * NumSamples) - 2 * q \in Int
                          /\ -(2 * p + 2 * NumSamples + 2 * q) \in Int
                          /\ -(p + 2 * NumSamples + 2 * q) \in Int
      BY <1>n
    <3> QED
      BY <3>1, <3>2
  <2> QED
    BY <1>a, <2>1, <2>2, <2>3 DEF AverageInv
<1>b. ASSUME UNCHANGED <<skew, ok_cnt, offset_avg, span, matched>>, Until' \in Nat, Until <= Until'
      PROVE  AverageInv'
  <2> DEFINE x == -(2 * Until' + 2 * NumSamples + 2 * skew)
             y == -(2 * Until + 2 * NumSamples + 2 * skew)
  <2>1. Until \in Nat /\ skew \in Int /\ ok_cnt \in Nat /\ offset_avg \in Int
    BY <1>0, <1>n DEF TypeOK, Until
  <2>2. x \in Int /\ y \in Int /\ x <= y
    <3> HIDE DEF Until
    <3>1. \A u, v \in Nat : u <= v => -(2 * v + 2 * NumSamples + 2 * skew) <= -(2 * u + 2 * NumSamples + 2 * skew)
      BY <1>n, <2>1
    <3>2. \A u \in Nat : -(2 * u + 2 * NumSamples + 2 * skew) \in Int
      BY <1>n, <2>1
    <3> QED
      BY <1>b, <2>1, <3>1, <3>2
  <2>3. (2 * NumSamples) * offset_avg >= ok_cnt * y
    BY <1>0 DEF AverageInv
  <2>4. (2 * NumSamples) * offset_avg \in Int /\ ok_cnt * y \in Int /\ ok_cnt * x \in Int
    BY <1>n, <2>1, <2>2
  <2>5. ok_cnt * x <= ok_cnt * y
    BY <2>1, <2>2, Monotone
  <2> HIDE DEF y
  <2>6. (2 * NumSamples) * offset_avg >= ok_cnt * x
    BY <2>3, <2>4, <2>5
  <2> QED
    BY <1>b, <1>0, <2>6 DEF AverageInv
<1>c. ASSUME UNCHANGED <<now, skew, ok_cnt, offset_avg, span, matched>>, Until = now, Until' = now
      PROVE  AverageInv'
  BY <1>b, <1>c, <1>0 DEF TypeOK
<1>d. ASSUME Error, pc \in {"send", "recv"}, UNCHANGED <<now, skew, span, matched>>
      PROVE  AverageInv'
  <2>1. CASE ok_cnt' = 0 /\ offset_avg' = 0
    BY <1>a, <2>1
  <2>2. CASE pc' = "top" /\ UNCHANGED <<ok_cnt, offset_avg>>
    BY <1>c, <1>d, <2>2 DEF Until
  <2> QED
    BY <1>d, <2>1, <2>2, ErrorCases
<1>1. CASE Tick
  <2>1. UNCHANGED <<pc, due, skew, ok_cnt, offset_avg, span, matched>> /\ now' = now + 1
    BY <1>1 DEF Tick, clockVars, threadVars
  <2> QED
    BY <1>b, <1>0, <2>1 DEF Until, TypeOK
<1>2. ASSUME NEW i \in DOMAIN sent, NEW r \in sent[i]..now, NEW t \in sent[i]..now,
             Arrive(i, r, t)
      PROVE  AverageInv'
  <2>1. UNCHANGED <<now, due, pc, skew, ok_cnt, offset_avg, span, matched>>
    BY <1>2 DEF Arrive, clockVars, threadVars, histVars
  <2> QED
    BY <1>b, <1>0, <2>1 DEF Until, TypeOK
<1>3. CASE Begin
  <2>1. ok_cnt' = 0 /\ offset_avg' = 0
    BY <1>3, <1>0 DEF Begin, EndInv
  <2> QED
    BY <1>a, <2>1
<1>4. CASE GetSendTime
  <2>1. UNCHANGED <<now, skew, ok_cnt, offset_avg, span, matched>> /\ pc = "top" /\ pc' = "send"
    BY <1>4 DEF GetSendTime, clockVars, histVars
  <2> QED
    BY <1>c, <2>1 DEF Until
<1>5. CASE Send
  <2>1. CASE Error
    BY <1>5, <1>d, <2>1 DEF Send, clockVars, histVars
  <2>2. CASE ~Error
    <3>1. pc = "send" /\ pc' = "recv" /\ UNCHANGED <<now, skew, ok_cnt, offset_avg, span, matched>>
      BY <1>5, <2>2 DEF Send, clockVars, histVars
    <3> QED
      BY <1>c, <3>1 DEF Until
  <2> QED
    BY <2>1, <2>2
<1>6. CASE Recv
  <2>1. UNCHANGED <<now, skew, ok_cnt, offset_avg, span, matched>> /\ pc = "recv" /\ pc' = "stamp"
    BY <1>6 DEF Recv, clockVars, histVars
  <2> QED
    BY <1>c, <2>1 DEF Until
<1>7. CASE RecvTimeout
  BY <1>7, <1>d DEF RecvTimeout, clockVars, histVars
<1>8. CASE GetRecvTime
  <2> DEFINE N2 == 2 * NumSamples
             x == Share(Offset(get_time))
             u == (span + 2 * NumSamples) - 2 * skew
             v == -(2 * now + 2 * NumSamples + 2 * skew)
             w == -(span + 2 * NumSamples + 2 * skew)
             u1 == (span' + 2 * NumSamples) - 2 * skew
             w1 == -(span' + 2 * NumSamples + 2 * skew)
  <2>1. /\ pc = "stamp" /\ Until = now /\ Until' = now /\ skew' = skew
        /\ offset_avg' = offset_avg + x /\ ok_cnt' = ok_cnt + 1
        /\ matched' = (matched /\ Matches)
    BY <1>8 DEF GetRecvTime, Until, clockVars
  <2>2. /\ now \in Nat /\ skew \in Int /\ span \in Nat /\ ok_cnt \in Nat /\ offset_avg \in Int
        /\ x \in Int /\ span' \in Nat /\ N2 \in Int
    BY <1>0, <1>n, OffsetType DEF TypeOK
  <2>3. get_time - cli_send_tm <= span' /\ span <= span'
    <3>1. get_time - cli_send_tm \in Int /\ span \in Int
      BY <1>0 DEF TypeOK, get_time
    <3>2. span' = IF get_time - cli_send_tm > span THEN get_time - cli_send_tm ELSE span
      BY <1>8 DEF GetRecvTime
    <3> QED
      BY <3>1, <3>2
  <2>4. N2 * x <= u1 /\ N2 * x >= v /\ (Matches => N2 * x >= w1)
    BY <1>0, <2>1, <2>2, <2>3, SampleBounds
  <2>5. N2 * offset_avg <= ok_cnt * u /\ N2 * offset_avg >= ok_cnt * v
        /\ (matched => N2 * offset_avg >= ok_cnt * w)
    BY <1>0, <2>1 DEF AverageInv
  <2>6. /\ u \in Int /\ v \in Int /\ w \in Int /\ u1 \in Int /\ w1 \in Int
        /\ u <= u1 /\ w1 <= w
    <3>1. \A p, q \in Int : p <= q => /\ (p + 2 * NumSamples) - 2 * skew <= (q + 2 * NumSamples) - 2 * skew
                                      /\ -(q + 2 * NumSamples + 2 * skew) <= -(p + 2 * NumSamples + 2 * skew)
      BY <1>n, <2>2
    <3>2. \A p, q \in Int : (p + 2 * NumSamples) - 2 * q \in Int
                          /\ -(2 * p + 2 * NumSamples + 2 * q) \in Int
                          /\ -(p + 2 * NumSamples + 2 * q) \in Int
      BY <1>n
    <3> QED
      BY <2>2, <2>3, <3>1, <3>2
  <2> HIDE DEF N2, x, u, v, w, u1, w1
  <2>7. N2 * (offset_avg + x) = N2 * offset_avg + N2 * x /\ N2 * offset_avg \in Int /\ N2 * x \in Int
    BY <2>2
  <2>8. ok_cnt * u <= ok_cnt * u1 /\ ok_cnt * w1 <= ok_cnt * w
        /\ ok_cnt * u \in Int /\ ok_cnt * w \in Int /\ ok_cnt * v \in Int
        /\ ok_cnt * u1 \in Int /\ ok_cnt * w1 \in Int
    BY <2>2, <2>6, Monotone
  <2>9. /\ (ok_cnt + 1) * u1 = ok_cnt * u1 + u1 /\ (ok_cnt + 1) * v = ok_cnt * v + v
        /\ (ok_cnt + 1) * w1 = ok_cnt * w1 + w1
    BY <2>2, <2>6, OneMore
  <2>10. N2 * (offset_avg + x) <= (ok_cnt + 1) * u1
    BY <2>4, <2>5, <2>6, <2>7, <2>8, <2>9
  <2>11. N2 * (offset_avg + x) >= (ok_cnt + 1) * v
    BY <2>4, <2>5, <2>6, <2>7, <2>8, <2>9
  <2>12. matched /\ Matches => N2 * (offset_avg + x) >= (ok_cnt + 1) * w1
    BY <2>4, <2>5, <2>6, <2>7, <2>8, <2>9
  <2> QED
    BY <2>1, <2>10, <2>11, <2>12 DEF AverageInv, N2, x, u1, v, w1
<1>9. CASE GetTime
  <2>1. UNCHANGED <<now, skew, ok_cnt, offset_avg, span, matched>> /\ pc = "get" /\ pc' = "sync" /\ due' = now
    BY <1>9 DEF GetTime, clockVars, histVars
  <2> QED
    BY <1>c, <2>1 DEF Until
<1>10. CASE Sync
  BY <1>10, <1>a DEF Sync, Return
<1>11. CASE UNCHANGED vars
  <2>1. UNCHANGED <<now, due, pc, skew, ok_cnt, offset_avg, span, matched>>
    BY <1>11 DEF vars, clockVars, threadVars, histVars
  <2> QED
    BY <1>b, <1>0, <2>1 DEF Until, TypeOK
<1> QED
  BY <1>1, <1>2, <1>3, <1>4, <1>5, <1>6, <1>7, <1>8, <1>9, <1>10, <1>11 DEF Next, Thread

LEMMA EndStep == SyncInv /\ [Next]_vars => EndInv'
<1> SUFFICES ASSUME SyncInv, [Next]_vars PROVE EndInv'
  OBVIOUS
<1>0. TypeOK /\ RoomInv /\ EndInv
  BY DEF SyncInv
<1>a. ASSUME Error, pc \in {"send", "recv"} PROVE EndInv'
  <2>1. outcome = "none"
    BY <1>0, <1>a DEF EndInv
  <2> QED
    BY <1>a, <2>1, ErrorCases DEF EndInv
<1>1. CASE Tick
  <2>1. UNCHANGED <<pc, due, skew, ok_cnt, offset_avg, outcome, cur_tm>> /\ now' = now + 1
    BY <1>1 DEF Tick, clockVars, threadVars
  <2>2. now >= due => late' = late + 1
    BY <1>1, <1>0 DEF Tick, TypeOK
  <2> QED
    BY <1>0, <2>1, <2>2 DEF EndInv, TypeOK
<1>2. ASSUME NEW i \in DOMAIN sent, NEW r \in sent[i]..now, NEW t \in sent[i]..now,
             Arrive(i, r, t)
      PROVE  EndInv'
  BY <1>0, <1>2 DEF Arrive, EndInv, clockVars, threadVars, histVars
<1>3. CASE Begin
  BY <1>0, <1>3 DEF Begin, EndInv
<1>4. CASE GetSendTime
  BY <1>0, <1>4 DEF GetSendTime, EndInv
<1>5. CASE Send
  <2>1. CASE Error
    BY <1>5, <1>a, <2>1 DEF Send
  <2>2. CASE ~Error
    <3>1. pc = "send" /\ pc' = "recv" /\ UNCHANGED <<ok_cnt, offset_avg, outcome>>
      BY <1>5, <2>2 DEF Send
    <3> QED
      BY <1>0, <3>1 DEF EndInv
  <2> QED
    BY <2>1, <2>2
<1>6. CASE Recv
  BY <1>0, <1>6 DEF Recv, EndInv
<1>7. CASE RecvTimeout
  BY <1>7, <1>a DEF RecvTimeout
<1>8. CASE GetRecvTime
  <2>1. pc = "stamp" /\ pc' \in {"top", "get"} /\ outcome' = outcome
    BY <1>8 DEF GetRecvTime
  <2> QED
    BY <1>0, <2>1 DEF EndInv
<1>9. CASE GetTime
  <2>1. /\ pc = "get" /\ pc' = "sync" /\ due' = now
        /\ cur_tm' = (now + skew) + offset_avg
        /\ UNCHANGED <<now, skew, offset_avg, outcome, late>>
    BY <1>9 DEF GetTime, get_time, clockVars, histVars
  <2> QED
    BY <1>0, <2>1 DEF EndInv, TypeOK
<1>10. CASE Sync
  BY <1>10 DEF Sync, Return, EndInv
<1>11. CASE UNCHANGED vars
  BY <1>0, <1>11 DEF vars, clockVars, threadVars, histVars, EndInv
<1> QED
  BY <1>1, <1>2, <1>3, <1>4, <1>5, <1>6, <1>7, <1>8, <1>9, <1>10, <1>11 DEF Next, Thread

\* The steps that can disturb the two properties: the end of an attempt.
LEMMA BoundsStep == SyncInv /\ [Next]_vars => NeverAhead' /\ NotFarBehind'
<1> SUFFICES ASSUME SyncInv, [Next]_vars PROVE NeverAhead' /\ NotFarBehind'
  OBVIOUS
<1>0. TypeOK /\ RoomInv /\ AverageInv /\ EndInv /\ NeverAhead /\ NotFarBehind
  BY DEF SyncInv
<1>a. ASSUME outcome' # "ok" PROVE NeverAhead' /\ NotFarBehind'
  BY <1>a DEF NeverAhead, NotFarBehind
<1>b. CASE pc # "sleep" /\ ~Sync
  <2>1. outcome = "none"
    BY <1>0, <1>b DEF EndInv
  <2>2. Error => outcome' # "ok"
    BY <2>1, ErrorCases
  <2>3. outcome' # "ok"
    BY <1>b, <2>1, <2>2 DEF Next, Thread, Tick, Arrive, Begin, GetSendTime, Send, Recv,
       RecvTimeout, GetRecvTime, GetTime, vars, threadVars
  <2> QED
    BY <1>a, <2>3
<1>c. CASE pc = "sleep"
  <2>1. CASE Begin
    <3>1. outcome' # "ok"
      BY <2>1 DEF Begin
    <3> QED
      BY <1>a, <3>1
  <2>2. CASE UNCHANGED vars
    BY <1>0, <2>2 DEF vars, clockVars, threadVars, histVars, NeverAhead, NotFarBehind
  <2>3. CASE \E i \in DOMAIN sent : \E r, s \in sent[i]..now : Arrive(i, r, s)
    BY <1>0, <2>3 DEF Arrive, clockVars, threadVars, histVars, NeverAhead, NotFarBehind
  <2> QED
    BY <1>c, <2>1, <2>2, <2>3 DEF Next, Thread, Tick, GetSendTime, Send, Recv, RecvTimeout,
       GetRecvTime, GetTime, Sync
<1>d. CASE Sync
  <2> DEFINE N2 == 2 * NumSamples
             A2 == 2 * offset_avg
  <2>1. /\ pc = "sync" /\ skew' = cur_tm - now /\ UNCHANGED <<now, span, matched>>
    BY <1>d DEF Sync, histVars
  <2>2. /\ due <= now /\ now - due <= late /\ cur_tm = (due + skew) + offset_avg
        /\ ok_cnt = NumSamples /\ Until = due
    BY <1>0, <2>1 DEF EndInv, RoomInv, Until
  <2>3. /\ now \in Nat /\ due \in Nat /\ skew \in Int /\ span \in Nat /\ offset_avg \in Int
        /\ late \in Nat /\ late <= MaxLate /\ NumSamples \in Nat \ {0} /\ MaxLate \in Nat
        /\ A2 \in Int /\ N2 \in Nat
    BY <1>0, SntpAssumption DEF TypeOK
  <2>4. N2 * offset_avg = NumSamples * A2
    BY <2>3
  <2>5. /\ NumSamples * A2 <= NumSamples * ((span + N2) - 2 * skew)
        /\ NumSamples * (-(2 * due + N2 + 2 * skew)) <= NumSamples * A2
        /\ matched => NumSamples * (-(span + N2 + 2 * skew)) <= NumSamples * A2
    BY <1>0, <2>2, <2>3, <2>4 DEF AverageInv
  <2>6. /\ (span + N2) - 2 * skew \in Int
        /\ -(2 * due + N2 + 2 * skew) \in Int
        /\ -(span + N2 + 2 * skew) \in Int
    BY <2>3
  <2> HIDE DEF A2, N2
  <2>7. A2 <= (span + N2) - 2 * skew
    BY <2>3, <2>5, <2>6, Cancel
  <2>8. -(2 * due + N2 + 2 * skew) <= A2
    BY <2>3, <2>5, <2>6, Cancel
  <2>9. matched => -(span + N2 + 2 * skew) <= A2
    BY <2>3, <2>5, <2>6, Cancel
  <2>10. skew' = ((due + skew) + offset_avg) - now
    BY <2>1, <2>2
  <2>11. 2 * skew' <= span + 2 * NumSamples
    BY <2>2, <2>3, <2>7, <2>10 DEF A2, N2
  <2>12. skew' >= -(now + NumSamples)
    BY <2>2, <2>3, <2>8, <2>10 DEF A2, N2
  <2>13. matched => 2 * skew' >= -(span + 2 * MaxLate + 2 * NumSamples)
    BY <2>2, <2>3, <2>9, <2>10 DEF A2, N2
  <2> QED
    BY <2>1, <2>11, <2>12, <2>13 DEF NeverAhead, NotFarBehind, Rounding
<1> QED
  BY <1>b, <1>c, <1>d

LEMMA SyncStep == SyncInv /\ [Next]_vars => SyncInv'
BY TypeStep, ExchangeStep, AverageStep, EndStep, BoundsStep DEF SyncInv

LEMMA SyncAlways == Spec => []SyncInv
BY SyncInit, SyncStep, PTL DEF Spec

\* For any number of samples, any timeouts and any delay, loss, repetition and order
\* of the replies, do_sync sets the clock ahead by half an exchange at most.
THEOREM NeverAheadHolds == Spec => []NeverAhead
<1>1. SyncInv => NeverAhead
  BY DEF SyncInv
<1> QED
  BY SyncAlways, <1>1, PTL

\* And it leaves it behind by half an exchange and the lost ticks if the replies
\* match the requests, and by the duration of the attempt in any case.
THEOREM NotFarBehindHolds == Spec => []NotFarBehind
<1>1. SyncInv => NotFarBehind
  BY DEF SyncInv
<1> QED
  BY SyncAlways, <1>1, PTL
=============================================================================
