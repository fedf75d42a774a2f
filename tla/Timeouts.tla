------------------------------- MODULE Timeouts -------------------------------
(***************************************************************************)
(* The timers of the tcpip thread: one list in order of expiry, in which   *)
(* the time of an entry counts from the expiry of the entry before it and  *)
(* that of the first from timeouts_last_time. The thread sleeps until the  *)
(* first entry expires or a message comes, and runs the handlers itself;   *)
(* every handler arms its own timer again. LWIP_TCPIP_CORE_LOCKING is 1:   *)
(* application threads, which have a better priority, register connections *)
(* themselves under the core lock, which the tcpip thread takes for        *)
(* messages and handlers but not for the list.                             *)
(*                                                                         *)
(* sys_now is kept as elapsed, its distance from timeouts_last_time: only  *)
(* differences of the clock are ever used, so that its wrapping shows      *)
(* nowhere.                                                                *)
(***************************************************************************)
EXTENDS Integers, Sequences

CONSTANTS
  Cyclic,    \* the timers that always run, in the order of lwip_cyclic_timers
  Tcp,       \* the timer of TCP, which runs on demand
  None,      \* no entry
  Interval,  \* ticks between two runs of a timer
  PoolSize,  \* MEMP_NUM_SYS_TIMEOUT
  MayConnect, \* application threads open connections
  MaxBusy    \* bound: ticks for which a message or one check keeps the thread

Cyclics == {Cyclic[n] : n \in DOMAIN Cyclic}
Timers == Cyclics \cup {Tcp}

\* lwIP is not compiled with fewer entries than timers. The firmware has five
\* cyclic timers; with one alone the list would be empty while its handler runs.
ASSUME TimeoutsAssumption ==
  /\ Cyclic \in Seq(Cyclics)
  /\ \A m, n \in DOMAIN Cyclic : Cyclic[m] = Cyclic[n] => m = n
  /\ Len(Cyclic) >= 2
  /\ Tcp \notin Cyclics /\ None \notin Timers
  /\ Interval \in [Timers -> Nat \ {0}]
  /\ PoolSize \in Nat /\ Len(Cyclic) < PoolSize
  /\ MayConnect \in BOOLEAN
  /\ MaxBusy \in Nat

VARIABLES
  list,       \* next_timeout: entries [h, time]
  used,       \* entries that are out of the pool MEMP_SYS_TIMEOUT
  elapsed,    \* sys_now() - timeouts_last_time; 0 while the list is empty
  phase,      \* where the thread is
  sleep,      \* what is left of the sleep in sys_arch_mbox_fetch
  diff,       \* diff of sys_check_timeouts
  running,    \* the timer that has expired and whose handler is called
  follower,   \* the entry tmptimeout->next points to when it is read, or None
  tcpActive,  \* tcpip_tcp_timer_active
  pcbs,       \* tcp_active_pcbs or tcp_tw_pcbs is not empty
  busy,       \* ticks since the message was fetched or the check begun
  left,       \* per armed timer, ticks to the expiry it was armed for, kept
              \* until the thread is disturbed
  disturbed,  \* the thread has been kept for a tick, or interrupted by a connect
              \* between the steps with which it takes an entry off the list
  overtaken   \* a connect has armed the TCP timer between the load of
              \* tmptimeout->next and the store to next_timeout

timerVars == <<list, used, elapsed, phase, sleep, diff, running, follower, tcpActive, pcbs, busy,
               left, disturbed, overtaken>>

Armed == {list[i].h : i \in DOMAIN list}

\* An entry has expired and is still on the list.
Unlinking == phase \in {"unlink", "store"}

-----------------------------------------------------------------------------
(* The list. *)

\* l with h behind its first n entries, and less taken from the time of the
\* entry that follows.
Inserted(l, n, h, time, less) ==
  [i \in 1 .. Len(l) + 1 |->
    IF i <= n THEN l[i]
    ELSE IF i = n + 1 THEN [h |-> h, time |-> time]
    ELSE IF i = n + 2 THEN [h |-> l[i - 1].h, time |-> l[i - 1].time - less]
    ELSE l[i - 1]]

\* The loop of sys_timeout: timeout->time behind each entry, and the first entry
\* whose successor is later than that, or the last one.
Rest(l, time) ==
  LET rest[i \in 0 .. Len(l)] == IF i = 0 THEN time ELSE rest[i - 1] - l[i].time
  IN  rest
Before(l, rest) ==
  CHOOSE i \in 1 .. Len(l) :
    /\ i = Len(l) \/ l[i + 1].time > rest[i]
    /\ \A j \in 1 .. i - 1 : l[j + 1].time <= rest[j]

\* sys_timeout, second half: the list l with h to expire msecs from now, since
\* being now - timeouts_last_time. In front of the first entry, only msecs is
\* taken from that entry's time. At the end of a list that is overdue as a
\* whole, h gets the first entry's time in place of since.
EnqueuedWhenFirst(l, since, msecs, h) == Inserted(l, 0, h, msecs + since, msecs)

\* Defects: the entry behind the new one keeps its time; the time since
\* timeouts_last_time is forgotten.
EnqueuedBehindKept(l, since, msecs, h) ==
  LET rest == Rest(l, msecs + since)
      n == Before(l, rest)
  IN  Inserted(l, n, h, rest[n], 0)

EnqueuedBehindNow(l, since, msecs, h) ==
  LET rest == Rest(l, msecs)
      n == Before(l, rest)
  IN  Inserted(l, n, h, rest[n], rest[n])

EnqueuedBehind(l, since, msecs, h) ==
  LET rest == Rest(l, msecs + since)
      n == Before(l, rest)
      time == IF n = Len(l) /\ rest[n] > msecs THEN msecs + l[1].time ELSE rest[n]
  IN  Inserted(l, n, h, time, time)

Enqueued(l, since, msecs, h) ==
  IF l = <<>> THEN Inserted(l, 0, h, msecs, 0)
  ELSE IF l[1].time > msecs THEN EnqueuedWhenFirst(l, since, msecs, h)
  ELSE EnqueuedBehind(l, since, msecs, h)

\* sys_timeout: without an entry of the pool the timer is lost; the first
\* entry of an empty list sets timeouts_last_time.
sys_timeout(h) ==
  IF used = PoolSize
  THEN UNCHANGED <<list, used, elapsed, left>>
  ELSE /\ used' = used + 1
       /\ list' = Enqueued(list, elapsed, Interval[h], h)
       /\ elapsed' = IF list = <<>> THEN 0 ELSE elapsed
       /\ left' = [left EXCEPT ![h] = Interval[h]]

\* sys_timeouts_init, at one time: the list after each call of sys_timeout.
InitList ==
  LET armed[n \in 0 .. Len(Cyclic)] ==
        IF n = 0 THEN <<>> ELSE Enqueued(armed[n - 1], 0, Interval[Cyclic[n]], Cyclic[n])
  IN  armed

TimerInit ==
  /\ list = InitList[Len(Cyclic)]
  /\ used = Len(Cyclic)
  /\ elapsed = 0
  /\ phase = "fetch"
  /\ sleep = 0
  /\ diff = 0
  /\ running = Tcp
  /\ follower = None
  /\ tcpActive = FALSE
  /\ pcbs = FALSE
  /\ busy = 0
  /\ left = Interval
  /\ disturbed = FALSE
  /\ overtaken = FALSE

-----------------------------------------------------------------------------
(* The thread. *)

BeginCheck ==
  /\ phase' = "check"
  /\ diff' = elapsed
  /\ busy' = 0

\* sys_timeouts_mbox_fetch, with sys_timeouts_sleeptime.
Fetch ==
  /\ phase = "fetch"
  /\ IF list # <<>> /\ elapsed >= list[1].time
     THEN BeginCheck /\ UNCHANGED sleep
     ELSE /\ phase' = "wait"
          /\ sleep' = IF list = <<>> THEN 0 ELSE list[1].time - elapsed
          /\ UNCHANGED <<diff, busy>>
  /\ UNCHANGED <<list, used, elapsed, running, follower, tcpActive, pcbs, left, disturbed, overtaken>>

\* sys_arch_mbox_fetch times out; a sleep of 0 asked of it is endless.
SleepEnds ==
  /\ phase = "wait"
  /\ list # <<>>
  /\ sleep = 0
  /\ BeginCheck
  /\ UNCHANGED <<list, used, elapsed, sleep, running, follower, tcpActive, pcbs, left, disturbed,
                 overtaken>>

\* sys_arch_mbox_fetch returns a message.
Receive ==
  /\ phase = "wait"
  /\ phase' = "message"
  /\ busy' = 0
  /\ UNCHANGED <<list, used, elapsed, sleep, diff, running, follower, tcpActive, pcbs, left,
                 disturbed, overtaken>>

\* Defect: the flag is not looked at.
tcp_timer_needed_again == tcpActive' = TRUE /\ sys_timeout(Tcp)

\* tcp_timer_needed, called when a pcb is put on a list.
tcp_timer_needed ==
  IF ~tcpActive
  THEN tcpActive' = TRUE /\ sys_timeout(Tcp)
  ELSE UNCHANGED <<tcpActive, list, used, elapsed, left>>

\* tcpip_thread handles the message, a packet, which may register a pcb or
\* remove the last one.
Message ==
  /\ phase = "message"
  /\ phase' = "fetch"
  /\ \/ /\ pcbs' = TRUE
        /\ tcp_timer_needed
     \/ /\ pcbs' \in {pcbs, FALSE}
        /\ UNCHANGED <<tcpActive, list, used, elapsed, left>>
  /\ UNCHANGED <<sleep, diff, running, follower, busy, disturbed, overtaken>>

\* sys_check_timeouts: the first entry has expired. This and Fetch are one step
\* each although they read the list more than once: a connect in between changes
\* neither timeouts_last_time nor the first entry, in front of which the TCP
\* timer never comes (TimerInv).
Expire ==
  /\ phase = "check"
  /\ list # <<>>
  /\ list[1].time <= diff
  /\ diff' = diff - list[1].time
  /\ elapsed' = elapsed - list[1].time
  /\ running' = list[1].h
  /\ phase' = "unlink"
  /\ UNCHANGED <<list, used, sleep, follower, tcpActive, pcbs, busy, left, disturbed, overtaken>>

\* next_timeout = tmptimeout->next, the load.
LoadNext ==
  /\ phase = "unlink"
  /\ \E i \in DOMAIN list :
       /\ list[i].h = running
       /\ follower' = IF i = Len(list) THEN None ELSE list[i + 1].h
  /\ phase' = "store"
  /\ UNCHANGED <<list, used, elapsed, sleep, diff, running, tcpActive, pcbs, busy, left,
                 disturbed, overtaken>>

\* The store: what is in front of the follower goes, also what has come there
\* since the load. And memp_free of the entry that has expired.
Unlink ==
  /\ phase = "store"
  /\ list' = IF follower = None THEN <<>>
             ELSE LET i == CHOOSE i \in DOMAIN list : list[i].h = follower
                  IN  SubSeq(list, i, Len(list))
  /\ used' = used - 1
  /\ follower' = None
  /\ phase' = "handler"
  /\ UNCHANGED <<elapsed, sleep, diff, running, tcpActive, pcbs, busy, left, disturbed, overtaken>>

\* It has not: the loop ends.
EndCheck ==
  /\ phase = "check"
  /\ list # <<>> => list[1].time > diff
  /\ phase' = "fetch"
  /\ UNCHANGED <<list, used, elapsed, sleep, diff, running, follower, tcpActive, pcbs, busy, left,
                 disturbed, overtaken>>

\* Defect: a handler that ends the last connection does not arm its timer.
cyclic_timer_once ==
  /\ phase = "handler"
  /\ running # Tcp
  /\ pcbs' \in {pcbs, FALSE}
  /\ IF pcbs # pcbs' THEN UNCHANGED <<list, used, elapsed, left>> ELSE sys_timeout(running)
  /\ phase' = "check"
  /\ UNCHANGED <<sleep, diff, running, follower, tcpActive, busy, disturbed, overtaken>>

\* cyclic_timer: the handler may end the last connection.
cyclic_timer ==
  /\ phase = "handler"
  /\ running # Tcp
  /\ pcbs' \in {pcbs, FALSE}
  /\ sys_timeout(running)
  /\ phase' = "check"
  /\ UNCHANGED <<sleep, diff, running, follower, tcpActive, busy, disturbed, overtaken>>

\* tcpip_tcp_timer: tcp_tmr may remove the last pcb.
tcpip_tcp_timer ==
  /\ phase = "handler"
  /\ running = Tcp
  /\ pcbs' \in {pcbs, FALSE}
  /\ IF pcbs'
     THEN sys_timeout(Tcp) /\ UNCHANGED tcpActive
     ELSE tcpActive' = FALSE /\ UNCHANGED <<list, used, elapsed, left>>
  /\ phase' = "check"
  /\ UNCHANGED <<sleep, diff, running, follower, busy, disturbed, overtaken>>

\* An application thread connects, or closes the last connection: it takes the
\* CPU from the tcpip thread anywhere outside the core lock.
AppConnect ==
  /\ MayConnect
  /\ pcbs' = TRUE
  /\ tcp_timer_needed
  /\ disturbed' = (disturbed \/ Unlinking)
  /\ overtaken' = (overtaken \/ (phase = "store" /\ ~tcpActive))
  /\ UNCHANGED <<phase, sleep, diff, running, follower, busy>>

AppClose ==
  /\ MayConnect
  /\ pcbs
  /\ pcbs' = FALSE
  /\ UNCHANGED <<list, used, elapsed, phase, sleep, diff, running, follower, tcpActive, busy, left,
                 disturbed, overtaken>>

\* The kernel's tick: while the thread sleeps, or while something keeps it.
Tick ==
  /\ \/ /\ phase = "wait" /\ (list = <<>> \/ sleep > 0)
        /\ sleep' = IF sleep > 0 THEN sleep - 1 ELSE 0
        /\ UNCHANGED busy
     \/ /\ phase \in {"message", "check", "unlink", "store", "handler"} /\ busy < MaxBusy
        /\ busy' = busy + 1
        /\ UNCHANGED sleep
  /\ elapsed' = IF list = <<>> THEN 0 ELSE elapsed + 1
  /\ left' = [h \in Timers |->
               IF h \in Armed /\ ~disturbed THEN left[h] - 1 ELSE left[h]]
  /\ disturbed' = (disturbed \/ phase # "wait")
  /\ UNCHANGED <<list, used, phase, diff, running, follower, tcpActive, pcbs, overtaken>>

Thread ==
  \/ Fetch \/ SleepEnds \/ Message
  \/ Expire \/ LoadNext \/ Unlink \/ EndCheck
  \/ cyclic_timer \/ tcpip_tcp_timer

TimerNext == Thread \/ Receive \/ AppConnect \/ AppClose \/ Tick

TimerSpec == TimerInit /\ [][TimerNext]_timerVars

\* The threads above the tcpip thread block again and again, so that it goes on
\* until it waits; time passes however many messages come.
TimerFairSpec == TimerSpec /\ WF_timerVars(Thread) /\ SF_timerVars(Tick)

-----------------------------------------------------------------------------
(* Properties. *)

Wanted == Cyclics \cup (IF tcpActive THEN {Tcp} ELSE {})
Off == IF phase = "handler" THEN {running} ELSE {}

\* Every entry that is out of the pool is on the list; or that of the TCP timer
\* is not, for good: tcpip_tcp_timer_active stays set, so that nothing arms it
\* again.
Counted == used = Len(list) \/ (used = Len(list) + 1 /\ overtaken /\ tcpActive)

\* The timers that have not been lost.
Kept == IF used = Len(list) THEN Wanted ELSE Cyclics

\* Although sys_check_timeouts takes entries off the list without the core lock,
\* no cyclic timer is ever lost and no timer is armed twice: the cyclic timers are
\* armed, except the one whose handler runs, and so is the TCP timer while
\* tcpip_tcp_timer_active says so, which it does while there are connections, and
\* no other entry is out of the pool. A timer and its entry are lost only to a
\* connect between the load and the store that unlink an entry: the TCP timer,
\* and once. No time in the list, an unsigned number that insertions before it
\* make smaller, goes below 0.
EachArmedOnce ==
  /\ Counted
  /\ Armed = Kept \ Off
  /\ \A i, j \in DOMAIN list : list[i].h = list[j].h => i = j
  /\ pcbs => tcpActive
  /\ \A i \in DOMAIN list : list[i].time >= 0

\* What timeouts.c says of tcpip_tcp_timer_active, that it "shows if the tcp timer
\* is currently scheduled or not". It is not so of the code: the store that
\* unlinks an entry drops a TCP timer that came behind the entry since the load,
\* and the flag keeps every later connect from arming it.
ActiveMeansScheduled == tcpActive => Tcp \in Armed \cup Off

\* No handler runs before the interval has passed that sys_timeout was given,
\* at whatever phase of the other timers it was armed, as long as nothing has
\* disturbed the thread.
NeverEarly == [][Expire /\ ~disturbed => left[list[1].h] <= 0]_timerVars

\* Nor does one run late: when sys_check_timeouts returns, every timer whose
\* interval has passed has run.
ExpiredHaveRun == [][EndCheck /\ ~disturbed => \A h \in Armed : left[h] > 0]_timerVars

\* Every timer of lwip_cyclic_timers keeps running, whatever lateness the list
\* collects and however often the TCP timer starts and stops, and that one keeps
\* running while there are connections, unless a connect has come between the load
\* and the store that unlink an entry.
KeepsRunning ==
  /\ \A h \in Cyclics : []<>(phase = "handler" /\ running = h)
  /\ []<>(~pcbs \/ overtaken \/ (phase = "handler" /\ running = Tcp))

-----------------------------------------------------------------------------
(* The inductive invariant, from which the proofs derive the properties. *)

\* How late a check may begin, and how long it may take.
Lag == IF disturbed THEN MaxBusy ELSE 0

\* k runs so often that no other timer is ever armed in front of it, although
\* the handler of k may be late by the lag before a check and within it.
Frequent(k, lag) == \A h \in Timers \ {k} : Interval[k] + 2 * lag <= Interval[h]

TimerTypes ==
  /\ list \in Seq([h : Timers, time : Nat])
  /\ elapsed \in Nat /\ sleep \in Nat /\ diff \in Nat /\ busy \in 0 .. Lag
  /\ phase \in {"fetch", "wait", "message", "check", "unlink", "store", "handler"}
  /\ phase \in {"check", "unlink", "store", "handler"} => elapsed = diff + busy
  /\ left \in [Timers -> Int]

\* The entry that is taken off the list is still the first, and nothing but the
\* TCP timer has come between it and the entry that followed it.
FollowerInv ==
  /\ Unlinking => list[1].h = running
  /\ phase = "store" =>
       \/ Len(list) > 1 /\ list[2].h = follower
       \/ /\ Len(list) > 2 /\ list[3].h = follower /\ list[2].h = Tcp
          /\ overtaken /\ disturbed

ArmedInv ==
  /\ EachArmedOnce
  /\ FollowerInv
  /\ phase = "handler" => running \in Kept

\* Up to k, no entry is long behind the one before it,
GapInv(k) ==
  \A i, j \in DOMAIN list :
    i <= j /\ list[j].h = k => list[i].time <= Interval[k] + 2 * Lag

\* and the first entry is not long overdue.
LateInv ==
  /\ phase = "fetch" => elapsed <= list[1].time + Lag
  /\ phase = "wait" => elapsed + sleep <= list[1].time
  /\ phase = "message" => elapsed <= list[1].time + busy
  /\ phase = "check" => diff <= list[1].time + Lag
  /\ phase \in {"unlink", "store", "handler"} => diff <= Lag

\* Undisturbed, the times of the list add up to what is left for each timer.
LeftInv ==
  disturbed = FALSE =>
    /\ left[list[1].h] = (IF Unlinking THEN 0 ELSE list[1].time) - elapsed
    /\ \A i \in 1 .. Len(list) - 1 :
         left[list[i + 1].h] = left[list[i].h] + list[i + 1].time

TimerInv(k) ==
  /\ disturbed \in BOOLEAN
  /\ Frequent(k, Lag) => TimerTypes /\ ArmedInv /\ GapInv(k) /\ LateInv /\ LeftInv
=============================================================================
