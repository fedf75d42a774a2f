-------------------------------- MODULE Sntp --------------------------------
(***************************************************************************)
(* The SNTP client and the clock it sets: SntpClientService::do_sync and   *)
(* thread_main over a UDP socket whose replies may be lost, late,          *)
(* duplicated or reordered, with the cyclic handler that counts the time.  *)
(*                                                                         *)
(* The unit of time is arbitrary. now is the true time, which the server   *)
(* knows, counted from the beginning of the attempt; the clock is kept as  *)
(* its lead over the true time.                                            *)
(***************************************************************************)
EXTENDS Integers, Sequences

CONSTANTS
  NumSamples,    \* samples of an attempt, the size of offsets: 4
  MaxErrors,     \* errors that end an attempt: 3
  Skews,         \* how far the clock may be off when an attempt begins
  RECV_TIMEOUT,  \* set_recv_timeout(5000)
  RETRY_SLEEP,   \* Thread::sleep(5000) after an error
  SAMPLE_SLEEP,  \* Thread::sleep(100) after a sample
  LongReplies,   \* whether a reply may be longer than recv_data
  MaxServe,      \* bound: how long the server takes to answer
  MBOX_SIZE,     \* datagrams the receive mailbox of the socket holds
  MaxLate        \* bound: how late this low-priority thread is in an attempt, in all

ASSUME SntpAssumption ==
  /\ NumSamples \in Nat \ {0} /\ MaxErrors \in Nat \ {0}
  /\ Skews \subseteq Int
  /\ RECV_TIMEOUT \in Nat /\ RETRY_SLEEP \in Nat /\ SAMPLE_SLEEP \in Nat
  /\ LongReplies \subseteq BOOLEAN
  /\ MaxServe \in Nat /\ MBOX_SIZE \in Nat
  /\ MaxLate \in Nat

VARIABLES
  now,          \* true time since the attempt began
  skew,         \* s_time_counter minus the true time
  m_is_synced,
  pc, due,      \* where the thread is, and when it goes on if it is not late
  ok_cnt, error_cnt,
  cli_send_tm, cur_tm,
  offset_avg,   \* the sum of offsets[i] / NumSamples over the samples so far
  recv_data,    \* the server's two times in the last reply
  rest,         \* m_recv_buf is not null: the end of a long datagram is unread
  recvmbox,     \* datagrams in the mailbox of the socket
  sent,         \* the true times at which requests of this attempt were sent
  outcome,      \* result of the last attempt
  span,         \* history: the longest exchange of this attempt
  late,         \* history: how late the thread has been in this attempt
  matched       \* history: every sample of this attempt had its own reply

clockVars == <<skew, m_is_synced>>
threadVars == <<pc, due, ok_cnt, error_cnt, cli_send_tm, cur_tm, offset_avg, outcome>>
sockVars == <<recv_data, rest, recvmbox, sent>>
histVars == <<span, late, matched>>
vars == <<now, clockVars, threadVars, sockVars, histVars>>

Reply == [of : Nat, recv : Nat, send : Nat]
NoReply == [of |-> 0, recv |-> 0, send |-> 0]

TypeOK ==
  /\ now \in Nat /\ skew \in Int /\ m_is_synced \in BOOLEAN
  /\ pc \in {"sleep", "top", "send", "recv", "stamp", "get", "sync"}
  /\ due \in Nat
  /\ ok_cnt \in 0..NumSamples /\ error_cnt \in 0..(MaxErrors - 1)
  /\ cli_send_tm \in Int /\ cur_tm \in Int /\ offset_avg \in Int
  /\ recv_data \in Reply /\ rest \in BOOLEAN
  /\ recvmbox \in Seq(Reply) /\ sent \in Seq(Nat)
  /\ outcome \in {"none", "ok", "failed"}
  /\ span \in Nat /\ late \in 0..MaxLate /\ matched \in BOOLEAN

Init ==
  /\ now = 0 /\ skew \in Skews /\ m_is_synced = FALSE
  /\ pc = "sleep" /\ due = 0 /\ ok_cnt = 0 /\ error_cnt = 0
  /\ cli_send_tm = 0 /\ cur_tm = 0 /\ offset_avg = 0
  /\ recv_data = NoReply /\ rest = FALSE /\ recvmbox = <<>> /\ sent = <<>>
  /\ outcome = "none"
  /\ span = 0 /\ late = 0 /\ matched = TRUE

----------------------------------------------------------------------------
(* The clock.                                                              *)

\* Rtc::get_time.
get_time == now + skew

\* Time passes, and the cyclic handler counts it. It runs whatever the thread
\* does, but keeps the thread waiting for MaxLate at most.
Tick ==
  /\ pc # "sleep"
  /\ IF now < due THEN late' = late ELSE late < MaxLate /\ late' = late + 1
  /\ now' = now + 1
  /\ UNCHANGED <<clockVars, threadVars, sockVars, span, matched>>

----------------------------------------------------------------------------
(* Replies. The request i was sent at sent[i]; the server received it and  *)
(* answered at any times since, in this order, and the datagram arrives now*)
(* or never, once or several times. A full mailbox drops it.               *)

Arrive(i, r, s) ==
  /\ r <= s /\ s <= r + MaxServe
  /\ Len(recvmbox) < MBOX_SIZE
  /\ recvmbox' = Append(recvmbox, [of |-> i, recv |-> r, send |-> s])
  /\ UNCHANGED <<now, clockVars, threadVars, recv_data, rest, sent, histVars>>

----------------------------------------------------------------------------
(* The thread.                                                             *)

\* Integer division as in C, towards zero.
Quotient(a, b) == IF a >= 0 THEN a \div b ELSE -((-a) \div b)

\* thread_main and the beginning of do_sync. A name that is not resolved or a
\* socket that cannot be had ends the attempt. Since the last one the clock may
\* have drifted.
Begin ==
  /\ pc = "sleep"
  /\ now' = 0 /\ skew' \in Skews
  /\ due' = 0
  /\ span' = 0 /\ late' = 0 /\ matched' = TRUE
  /\ \/ pc' = "top" /\ outcome' = "none"
     \/ pc' = "sleep" /\ outcome' = "failed"
  /\ UNCHANGED <<m_is_synced, ok_cnt, error_cnt, cli_send_tm, cur_tm, offset_avg, sockVars>>

\* UdpClient::dispose. What is in the mailbox goes with the socket, and the next
\* one has another port, so that nothing sent to this one reaches it.
Dispose ==
  /\ recvmbox' = <<>> /\ rest' = FALSE /\ sent' = <<>>
  /\ recv_data' = NoReply

\* do_sync returns: its locals are gone.
Return(result) ==
  /\ pc' = "sleep" /\ due' = now /\ outcome' = result
  /\ ok_cnt' = 0 /\ error_cnt' = 0 /\ offset_avg' = 0

\* An error of send or recv: the third ends the attempt. cli_send_tm is a local
\* of the loop's body.
Error ==
  /\ cli_send_tm' = 0
  /\ IF error_cnt + 1 >= MaxErrors
     THEN Return("failed") /\ Dispose
     ELSE /\ error_cnt' = error_cnt + 1
          /\ pc' = "top" /\ due' = now + RETRY_SLEEP
          /\ UNCHANGED <<ok_cnt, offset_avg, outcome, sockVars>>

\* The head of the loop, after the sleep that due stands for.
GetSendTime ==
  /\ pc = "top" /\ now >= due
  /\ cli_send_tm' = get_time
  /\ pc' = "send" /\ due' = now
  /\ UNCHANGED <<now, clockVars, ok_cnt, error_cnt, cur_tm, offset_avg, outcome,
                 sockVars, histVars>>

Send ==
  /\ pc = "send"
  /\ \/ /\ sent' = Append(sent, now)
        /\ pc' = "recv" /\ due' = now + RECV_TIMEOUT
        /\ UNCHANGED <<ok_cnt, error_cnt, cli_send_tm, offset_avg, outcome,
                       recv_data, rest, recvmbox>>
     \/ Error
  /\ UNCHANGED <<now, clockVars, cur_tm, histVars>>

\* Socket::recv_from gives the next datagram, or what is left of the last one:
\* that is too short to reach the times in recv_data, so these stay.
Recv ==
  /\ pc = "recv"
  /\ \/ /\ rest
        /\ rest' = FALSE
        /\ UNCHANGED <<recv_data, recvmbox>>
     \/ /\ ~rest /\ recvmbox # <<>>
        /\ recv_data' = Head(recvmbox)
        /\ recvmbox' = Tail(recvmbox)
        /\ rest' \in LongReplies
  /\ pc' = "stamp" /\ due' = now
  /\ UNCHANGED <<now, clockVars, ok_cnt, error_cnt, cli_send_tm, cur_tm, offset_avg,
                 outcome, sent, histVars>>

\* defect: no receive timeout is set.
RecvForever ==
  /\ pc = "recv" /\ recvmbox # <<>>
  /\ Recv

RecvTimeout ==
  /\ pc = "recv" /\ now >= due
  /\ ~rest /\ recvmbox = <<>>
  /\ Error
  /\ UNCHANGED <<now, clockVars, cur_tm, histVars>>

\* defect: the way back is added instead of subtracted.
OffsetSum(cli_recv_tm) ==
  Quotient(recv_data.recv - cli_send_tm, 2) + Quotient(cli_recv_tm - recv_data.send, 2)

\* The offset of a sample taken at cli_recv_tm.
Offset(cli_recv_tm) ==
  Quotient(recv_data.recv - cli_send_tm, 2) - Quotient(cli_recv_tm - recv_data.send, 2)

\* defect: the offsets are added up and not averaged.
ShareWhole(offset) == offset

\* What an offset contributes to the average.
Share(offset) == Quotient(offset, NumSamples)

\* Whether the reply in recv_data answers the request sent last.
Matches == recv_data.of = Len(sent)

GetRecvTime ==
  /\ pc = "stamp"
  /\ offset_avg' = offset_avg + Share(Offset(get_time))
  /\ ok_cnt' = ok_cnt + 1
  /\ span' = IF get_time - cli_send_tm > span THEN get_time - cli_send_tm ELSE span
  /\ matched' = (matched /\ Matches)
  /\ cli_send_tm' = 0
  /\ IF ok_cnt + 1 >= NumSamples
     THEN pc' = "get" /\ due' = now /\ Dispose
     ELSE /\ pc' = "top" /\ due' = now + SAMPLE_SLEEP
          /\ recv_data' = IF rest THEN recv_data ELSE NoReply  \* else overwritten before use
          /\ UNCHANGED <<rest, recvmbox, sent>>
  /\ UNCHANGED <<now, clockVars, error_cnt, cur_tm, outcome, late>>

\* The time to which the average is added ...
GetTime ==
  /\ pc = "get"
  /\ cur_tm' = get_time + offset_avg
  /\ pc' = "sync" /\ due' = now
  /\ UNCHANGED <<now, clockVars, ok_cnt, error_cnt, cli_send_tm, offset_avg, outcome,
                 sockVars, histVars>>

\* defect: the clock is set but not marked as synchronised.
SyncUnmarked ==
  /\ pc = "sync"
  /\ skew' = cur_tm - now
  /\ cur_tm' = 0
  /\ Return("ok")
  /\ UNCHANGED <<now, m_is_synced, cli_send_tm, sockVars, histVars>>

\* ... and Rtc::sync: the ticks in between are lost.
Sync ==
  /\ pc = "sync"
  /\ skew' = cur_tm - now
  /\ m_is_synced' = TRUE
  /\ cur_tm' = 0
  /\ Return("ok")
  /\ UNCHANGED <<now, cli_send_tm, sockVars, histVars>>

Thread ==
  Begin \/ GetSendTime \/ Send \/ Recv \/ RecvTimeout \/ GetRecvTime \/ GetTime \/ Sync

Next ==
  \/ Tick
  \/ Thread
  \/ \E i \in DOMAIN sent : \E r, s \in sent[i]..now : Arrive(i, r, s)

Spec == Init /\ [][Next]_vars

----------------------------------------------------------------------------
(* Safety.                                                                 *)

\* What the integer divisions may add up to.
Rounding == NumSamples

\* However replies are delayed, lost, repeated or reordered, a synchronisation
\* never sets the clock ahead of the true time by more than half the longest
\* exchange (do_sync): replies to earlier requests, duplicates and the rest of a long datagram only ever bear
\* earlier times.
NeverAhead ==
  outcome = "ok" => 2 * skew <= span + 2 * Rounding

\* A synchronisation leaves the clock behind by no more than half the longest
\* exchange and the ticks lost at its end if every sample had its own
\* reply, and by no more than the time the attempt took if not.
NotFarBehind ==
  outcome = "ok" =>
    /\ skew >= -(now + Rounding)
    /\ matched => 2 * skew >= -(span + 2 * MaxLate + 2 * Rounding)

----------------------------------------------------------------------------
(* Liveness: the thread runs and time passes.                              *)

FairSpec == Spec /\ WF_vars(Tick) /\ WF_vars(Thread)

\* Every attempt of do_sync ends, whatever the network does: three errors or
\* four samples.
AttemptEnds == []<>(pc = "sleep")

\* If attempts do not fail again and again, the clock is synchronised: what
\* app_main waits for.
SyncedUnlessFailing == []<>(outcome = "failed") \/ <>m_is_synced
=============================================================================
