-------------------------- MODULE ApplicationProofs --------------------------
(***************************************************************************)
(* Proofs about the parts that the application builds on: the start of the *)
(* services, the calendar, the body of a response and the text of numbers. *)
(***************************************************************************)
EXTENDS AppStart, Calendar, ChunkBuffer, NumberText, WellFoundedInduction, TLAPS

-----------------------------------------------------------------------------
(* The start of the services. *)

\* The fields of the two services.
SntpIs(rec, socket, thread, started) ==
  rec = [m_socket |-> socket, m_thread |-> thread, m_is_started |-> started]

HttpdIs(rec, socket, thread, started, running) ==
  rec = [m_socket |-> socket, m_thread |-> thread, m_is_started |-> started,
       m_is_running |-> running]

\* The time service, by the place of app_main.
SntpPlace ==
  \/ app \in {"connecting", "sntp_thread"} /\ SntpIs(sntp, "none", "none", FALSE)
  \/ app = "sntp_open" /\ SntpIs(sntp, "none", "dormant", FALSE)
  \/ app = "sntp_start" /\ SntpIs(sntp, "open", "dormant", FALSE)
  \/ /\ app \in {"httpd", "sync", "end"}
     /\ \/ SntpIs(sntp, "none", "none", FALSE)
        \/ SntpIs(sntp, "open", "dormant", TRUE)
        \/ SntpIs(sntp, "open", "running", TRUE)

\* The web server before its start, and after one that failed.
Down ==
  \/ unbound = TRUE /\ HttpdIs(httpd, "open", "none", FALSE, FALSE)
  \/ unbound = FALSE /\ HttpdIs(httpd, "none", "none", FALSE, FALSE)

\* The web server when it serves; restart clears only the listener's flag.
Up ==
  \/ HttpdIs(httpd, "listening", "running", TRUE, TRUE)
  \/ HttpdIs(httpd, "listening", "running", FALSE, TRUE)

\* The web server, by the place of Httpd::start.
HttpdPlace ==
  \/ start \in {"none", "open"} /\ Down
  \/ start = "none" /\ app \in {"sync", "end"} /\ Up
  \/ start = "bind" /\ unbound = FALSE /\ HttpdIs(httpd, "open", "none", FALSE, FALSE)
  \/ start = "listen" /\ unbound = FALSE /\ HttpdIs(httpd, "bound", "none", FALSE, FALSE)
  \/ start = "thread" /\ unbound = FALSE /\ HttpdIs(httpd, "listening", "none", TRUE, FALSE)
  \/ start = "start" /\ unbound = FALSE /\ HttpdIs(httpd, "listening", "dormant", TRUE, FALSE)

\* Httpd::start runs while app_main is in it, or when it is called again later.
StartPlace ==
  /\ app = "httpd" => start # "none"
  /\ start # "none" => app \in {"httpd", "sync", "end"}

StartInv == SntpPlace /\ HttpdPlace /\ StartPlace

\* What an assignment to a field makes of the time service,
LEMMA SntpFields ==
  ASSUME NEW rec, NEW a, NEW b, NEW c, NEW x, SntpIs(rec, a, b, c)
  PROVE  /\ SntpIs([rec EXCEPT !.m_socket = x], x, b, c)
         /\ SntpIs([rec EXCEPT !.m_thread = x], a, x, c)
         /\ SntpIs([rec EXCEPT !.m_is_started = x], a, b, x)
  BY DEF SntpIs

\* and of the web server.
LEMMA HttpdFields ==
  ASSUME NEW rec, NEW a, NEW b, NEW c, NEW e, NEW x, HttpdIs(rec, a, b, c, e)
  PROVE  /\ HttpdIs([rec EXCEPT !.m_socket = x], x, b, c, e)
         /\ HttpdIs([rec EXCEPT !.m_thread = x], a, x, c, e)
         /\ HttpdIs([rec EXCEPT !.m_is_started = x], a, b, x, e)
         /\ HttpdIs([rec EXCEPT !.m_is_running = x], a, b, c, x)
  BY DEF HttpdIs

\* The steps of app_main before Httpd::start find the web server down.
LEMMA DownBefore ==
  ASSUME HttpdPlace, StartPlace, app \notin {"httpd", "sync", "end"},
         UNCHANGED <<httpd, unbound>>,
         UNCHANGED start \/ start' = "open"
  PROVE  HttpdPlace'
<1>1. start = "none" /\ Down
  BY DEF HttpdPlace, StartPlace
<1>2. Down'
  BY <1>1 DEF Down
<1> QED
  BY <1>1, <1>2 DEF HttpdPlace

\* A step of Httpd::start leaves the time service alone, and app_main goes on when
\* the call returns.
LEMMA StartReturns ==
  ASSUME SntpPlace, StartPlace, start # "none", UNCHANGED sntp, NEW to, Return(to)
  PROVE  SntpPlace' /\ StartPlace' /\ start' = to /\ (to = "none" => app' \in {"sync", "end"})
<1>1. app \in {"httpd", "sync", "end"} /\ app' \in {"httpd", "sync", "end"}
  BY DEF StartPlace, Return
<1>2. SntpPlace'
  BY <1>1 DEF SntpPlace
<1> QED
  BY <1>1, <1>2 DEF StartPlace, Return

\* Every step of app_main, of Httpd::start, of lwIP and of a second caller keeps
\* the services where the places say.
LEMMA StartStep ==
  ASSUME StartInv, [StartNext]_startVars
  PROVE  StartInv'
<1> USE DEF StartInv
<1>1. ASSUME UNCHANGED <<sntp, app>>
      PROVE  SntpPlace'
  BY <1>1 DEF SntpPlace
<1>2. ASSUME UNCHANGED <<httpd, start, unbound, app>>
      PROVE  HttpdPlace'
  BY <1>2 DEF HttpdPlace, Down, Up
<1>3. CASE Dhcp
  BY <1>1, <1>2, <1>3 DEF Dhcp, StartPlace
<1>4. CASE Sync
  BY <1>1, <1>2, <1>4 DEF Sync, StartPlace
<1>5. CASE Connected
  BY <1>5, DownBefore DEF Connected, Goto, SntpPlace, StartPlace
<1>6. CASE SntpThread
  <2>1. app = "sntp_thread" /\ SntpIs(sntp, "none", "none", FALSE)
    BY <1>6 DEF SntpThread, Goto, SntpPlace
  <2>2. SntpIs([sntp EXCEPT !.m_thread = "dormant"], "none", "dormant", FALSE)
    BY <2>1, SntpFields
  <2>3. SntpPlace'
    BY <1>6, <2>1, <2>2 DEF SntpThread, Goto, AfterSntpFailure, SntpPlace
  <2> QED
    BY <1>6, <2>1, <2>3, DownBefore DEF SntpThread, Goto, AfterSntpFailure, StartPlace
<1>7. CASE SntpOpen
  <2>1. app = "sntp_open" /\ SntpIs(sntp, "none", "dormant", FALSE)
    BY <1>7 DEF SntpOpen, Goto, SntpPlace
  <2>2. /\ SntpIs([sntp EXCEPT !.m_socket = "open"], "open", "dormant", FALSE)
        /\ SntpIs([sntp EXCEPT !.m_thread = "none"], "none", "none", FALSE)
    BY <2>1, SntpFields
  <2>3. SntpPlace'
    BY <1>7, <2>1, <2>2 DEF SntpOpen, Goto, AfterSntpFailure, SntpPlace
  <2> QED
    BY <1>7, <2>1, <2>3, DownBefore DEF SntpOpen, Goto, AfterSntpFailure, StartPlace
<1>8. CASE SntpStart
  <2>1. app = "sntp_start" /\ SntpIs(sntp, "open", "dormant", FALSE)
    BY <1>8 DEF SntpStart, Goto, SntpPlace
  <2>2. SntpIs([sntp EXCEPT !.m_is_started = TRUE], "open", "dormant", TRUE)
    BY <2>1, SntpFields
  <2>3. SntpIs([sntp EXCEPT !.m_is_started = TRUE, !.m_thread = "running"],
               "open", "running", TRUE)
    BY <2>2, SntpFields
  <2>4. SntpPlace'
    BY <1>8, <2>1, <2>2, <2>3 DEF SntpStart, Goto, SntpPlace
  <2> QED
    BY <1>8, <2>1, <2>4, DownBefore DEF SntpStart, Goto, StartPlace
<1>9. CASE Synced
  BY <1>9 DEF Synced, Goto, StartPlace, SntpPlace, HttpdPlace, Down, Up
<1>10. CASE HttpOpen
  <2>1. unbound = FALSE /\ HttpdIs(httpd, "none", "none", FALSE, FALSE)
    BY <1>10 DEF HttpOpen, HttpdPlace, Down, HttpdIs
  <2>2. HttpdIs([httpd EXCEPT !.m_socket = "open"], "open", "none", FALSE, FALSE)
    BY <2>1, HttpdFields
  <2>3. HttpdPlace'
    BY <1>10, <2>1, <2>2 DEF HttpOpen, Step, Return, HttpdPlace, Down
  <2> QED
    BY <1>10, <2>3, StartReturns DEF HttpOpen, Step
<1>11. CASE HttpReopen
  <2>1. Down
    BY <1>11 DEF HttpReopen, HttpdPlace
  <2>2. HttpdPlace'
    BY <1>11, <2>1 DEF HttpReopen, Return, HttpdPlace, Down
  <2> QED
    BY <1>11, <2>2, StartReturns DEF HttpReopen
<1>12. CASE HttpBind
  <2>1. unbound = FALSE /\ HttpdIs(httpd, "open", "none", FALSE, FALSE)
    BY <1>12 DEF HttpBind, HttpdPlace
  <2>2. HttpdIs([httpd EXCEPT !.m_socket = "bound"], "bound", "none", FALSE, FALSE)
    BY <2>1, HttpdFields
  <2>3. HttpdPlace'
    BY <1>12, <2>1, <2>2 DEF HttpBind, Step, Return, HttpdPlace, Down
  <2> QED
    BY <1>12, <2>3, StartReturns DEF HttpBind, Step
<1>13. CASE HttpListen
  <2>1. unbound = FALSE /\ HttpdIs(httpd, "bound", "none", FALSE, FALSE)
    BY <1>13 DEF HttpListen, HttpdPlace
  <2>2. HttpdIs([httpd EXCEPT !.m_socket = "listening"], "listening", "none", FALSE, FALSE)
    BY <2>1, HttpdFields
  <2>3. HttpdIs([httpd EXCEPT !.m_socket = "listening", !.m_is_started = TRUE],
                "listening", "none", TRUE, FALSE)
    BY <2>2, HttpdFields
  <2>4. HttpdIs(error_failed_http_l_start(httpd), "none", "none", FALSE, FALSE)
    BY <2>1, HttpdFields DEF error_failed_http_l_start
  <2>5. HttpdPlace'
    BY <1>13, <2>1, <2>3, <2>4 DEF HttpListen, Step, Return, HttpdPlace, Down
  <2> QED
    BY <1>13, <2>5, StartReturns DEF HttpListen, Step
<1>14. CASE HttpThread
  <2>1. unbound = FALSE /\ HttpdIs(httpd, "listening", "none", TRUE, FALSE)
    BY <1>14 DEF HttpThread, HttpdPlace
  <2>2. HttpdIs([httpd EXCEPT !.m_thread = "dormant"], "listening", "dormant", TRUE, FALSE)
    BY <2>1, HttpdFields
  <2>3. HttpdIs(error_failed_thread_create(httpd), "none", "none", FALSE, FALSE)
    <3>1. HttpdIs([httpd EXCEPT !.m_is_started = FALSE], "listening", "none", FALSE, FALSE)
      BY <2>1, HttpdFields
    <3> QED
      BY <3>1, HttpdFields DEF error_failed_thread_create, error_failed_http_l_start
  <2>4. HttpdPlace'
    BY <1>14, <2>1, <2>2, <2>3 DEF HttpThread, Step, Return, HttpdPlace, Down
  <2> QED
    BY <1>14, <2>4, StartReturns DEF HttpThread, Step
<1>15. CASE HttpStart
  <2>1. unbound = FALSE /\ HttpdIs(httpd, "listening", "dormant", TRUE, FALSE)
    BY <1>15 DEF HttpStart, HttpdPlace
  <2>2. HttpdIs([httpd EXCEPT !.m_thread = "running"], "listening", "running", TRUE, FALSE)
    BY <2>1, HttpdFields
  <2>3. HttpdIs([httpd EXCEPT !.m_thread = "running", !.m_is_running = TRUE],
                "listening", "running", TRUE, TRUE)
    BY <2>2, HttpdFields
  <2>4. HttpdIs(error_failed_thread_start(httpd), "none", "none", FALSE, FALSE)
    <3>1. HttpdIs([httpd EXCEPT !.m_thread = "none"], "listening", "none", TRUE, FALSE)
      BY <2>1, HttpdFields
    <3>2. HttpdIs([[httpd EXCEPT !.m_thread = "none"] EXCEPT !.m_is_started = FALSE],
                  "listening", "none", FALSE, FALSE)
      BY <3>1, HttpdFields
    <3> QED
      BY <3>2, HttpdFields
         DEF error_failed_thread_start, error_failed_thread_create, error_failed_http_l_start
  <2>5. SntpPlace' /\ StartPlace' /\ start' = "none" /\ app' \in {"sync", "end"}
    BY <1>15, StartReturns DEF HttpStart, Step
  <2>6. HttpdPlace'
    BY <1>15, <2>1, <2>3, <2>4, <2>5 DEF HttpStart, Step, HttpdPlace, Down, Up
  <2> QED
    BY <2>5, <2>6
<1>16. CASE Restart
  <2>1. SntpPlace'
    BY <1>16 DEF Restart, SntpPlace
  <2>2. CASE httpd.m_is_running
    <3>1. Up
      BY <1>16, <2>2 DEF Restart, HttpdPlace, Down, HttpdIs
    <3>2. httpd' = [httpd EXCEPT !.m_is_started = FALSE]
      BY <1>16, <2>2 DEF Restart
    <3>3. HttpdIs(httpd', "listening", "running", FALSE, TRUE)
      BY <3>1, <3>2, HttpdFields DEF Up
    <3> QED
      BY <1>16, <2>1, <2>2, <3>3 DEF Restart, HttpdPlace, StartPlace, Up
  <2>3. CASE ~httpd.m_is_running
    <3>1. Down
      BY <1>16, <2>3 DEF Restart, HttpdPlace, Up, HttpdIs
    <3> QED
      BY <1>16, <2>1, <2>3, <3>1 DEF Restart, HttpdPlace, StartPlace, Down
  <2> QED
    BY <2>2, <2>3
<1>17. CASE UNCHANGED startVars
  BY <1>17, <1>1, <1>2 DEF startVars, StartPlace
<1> QED
  BY <1>3, <1>4, <1>5, <1>6, <1>7, <1>8, <1>9, <1>10, <1>11, <1>12, <1>13,
     <1>14, <1>15, <1>16, <1>17 DEF StartNext, App, HttpdStart

\* Whatever step of a start fails, a service is up as a whole or leaves nothing
\* behind, but for the unbound socket and the time service without its thread.
THEOREM StartAllOrNothing == StartSpec => []AllOrNothing
<1>1. StartInit => StartInv
  BY DEF StartInit, StartInv, SntpPlace, HttpdPlace, StartPlace, Down, SntpIs, HttpdIs
<1>2. StartInv => AllOrNothing
  BY DEF AllOrNothing, StartInv, SntpPlace, HttpdPlace, StartPlace, Down, Up, SntpIs, HttpdIs
<1> QED
  BY <1>1, <1>2, StartStep, PTL DEF StartSpec

-----------------------------------------------------------------------------
(* The calendar. *)

\* A year that begins in March, the month counted from March, and what comes
\* before them in days.
MarchYear == IF month <= 2 THEN year - 1 ELSE year
FromMarch(m) == IF m <= 2 THEN m + 9 ELSE m - 3
BeforeMonth(m) == (153 * FromMarch(m) + 2) \div 5
BeforeYear(y) == 365 * y + y \div 4 - y \div 100 + y \div 400

\* The reference's date is the one whose day it is: the inverse of set_ticks.
DateInv ==
  /\ day \in Nat /\ year \in Nat /\ year >= 1 /\ month \in 1 .. 12
  /\ mday \in 1 .. MonthLength(year, month)
  /\ Days(day) = BeforeYear(MarchYear) + BeforeMonth(month) + mday - 1

\* The same for the time of day.
TimeInv ==
  /\ sec \in Nat /\ hour \in Nat /\ min \in 0 .. 59 /\ s \in 0 .. 59
  /\ sec = 3600 * hour + 60 * min + s

\* A year in its era, century and group of four.
YearIs(y, e, c, q, w) ==
  /\ e \in Nat /\ c \in 0 .. 3 /\ q \in 0 .. 24 /\ w \in 0 .. 3
  /\ y = 400 * e + 100 * c + 4 * q + w

\* The year that begins in this March ends with a leap day.
LongYear(w, q, c) == w = 3 /\ (q = 24 => c = 3)
YearLength(y) == IF Leap(y + 1) THEN 366 ELSE 365

\* Every year has such parts.
LEMMA YearParts ==
  ASSUME NEW y \in Nat
  PROVE  \E e, c, q, w : YearIs(y, e, c, q, w)
<1> DEFINE e == y \div 400
           a == y - 400 * e
           c == a \div 100
           b == a - 100 * c
           q == b \div 4
           w == b - 4 * q
<1>1. e \in Nat /\ a \in 0 .. 399 /\ y = 400 * e + a
  BY SMTT(30)
<1> HIDE DEF e, a
<1>2. c \in 0 .. 3 /\ b \in 0 .. 99 /\ a = 100 * c + b
  BY <1>1
<1> HIDE DEF c, b
<1>3. q \in 0 .. 24 /\ w \in 0 .. 3 /\ b = 4 * q + w
  BY <1>2
<1> HIDE DEF q, w
<1>4. YearIs(y, e, c, q, w)
  BY <1>1, <1>2, <1>3 DEF YearIs
<1> QED
  BY <1>4

\* What the parts say about the days before the year, and about the length of the
\* year before it.
LEMMA PartsDays ==
  ASSUME NEW y, NEW e, NEW c, NEW q, NEW w, YearIs(y, e, c, q, w)
  PROVE  /\ BeforeYear(y) = 146097 * e + 36524 * c + 1461 * q + 365 * w
         /\ Leap(y + 1) <=> LongYear(w, q, c)
         /\ BeforeYear(y + 1) = BeforeYear(y) + YearLength(y)
<1> USE DEF YearIs
<1>1. y \in Nat /\ y \div 4 = 100 * e + 25 * c + q /\ y \div 100 = 4 * e + c /\ y \div 400 = e
  BY SMTT(30)
<1>2. BeforeYear(y) = 146097 * e + 36524 * c + 1461 * q + 365 * w
  BY <1>1, SMTT(30) DEF BeforeYear
<1>3. /\ (y + 1) % 4 = 0 <=> w = 3
      /\ (y + 1) % 100 = 0 <=> w = 3 /\ q = 24
      /\ (y + 1) % 400 = 0 <=> w = 3 /\ q = 24 /\ c = 3
  BY SMTT(30)
<1>4. Leap(y + 1) <=> LongYear(w, q, c)
  BY <1>3 DEF Leap, LongYear
<1>5. /\ (y + 1) \div 4 = 100 * e + 25 * c + q + IF w = 3 THEN 1 ELSE 0
      /\ (y + 1) \div 100 = 4 * e + c + IF w = 3 /\ q = 24 THEN 1 ELSE 0
      /\ (y + 1) \div 400 = e + IF w = 3 /\ q = 24 /\ c = 3 THEN 1 ELSE 0
  BY SMTT(30)
<1>6. BeforeYear(y + 1) = BeforeYear(y) + YearLength(y)
  BY <1>2, <1>4, <1>5, SMTT(30) DEF BeforeYear, YearLength, LongYear
<1> QED
  BY <1>2, <1>4, <1>6

\* The months.
LEMMA MonthLengths ==
  \A y \in Nat : /\ MonthLength(y, 2) = IF Leap(y) THEN 29 ELSE 28
                 /\ \A m \in {4, 6, 9, 11} : MonthLength(y, m) = 30
                 /\ \A m \in {1, 3, 5, 7, 8, 10, 12} : MonthLength(y, m) = 31
  BY DEF MonthLength

\* The days before a month of the year that begins in March.
LEMMA MonthStarts ==
  /\ BeforeMonth(3) = 0 /\ BeforeMonth(4) = 31 /\ BeforeMonth(5) = 61
  /\ BeforeMonth(6) = 92 /\ BeforeMonth(7) = 122 /\ BeforeMonth(8) = 153
  /\ BeforeMonth(9) = 184 /\ BeforeMonth(10) = 214 /\ BeforeMonth(11) = 245
  /\ BeforeMonth(12) = 275 /\ BeforeMonth(1) = 306 /\ BeforeMonth(2) = 337
  BY DEF BeforeMonth, FromMarch

\* A day of the year with such parts.
InEra(c, q, w, yd) ==
  /\ c \in 0 .. 3 /\ q \in 0 .. 24 /\ w \in 0 .. 3 /\ yd \in 0 .. 365
  /\ yd = 365 => LongYear(w, q, c)

\* set_ticks finds the year: the divisions of Erayear undo the sum, the last day
\* of a leap year and of the era included.
LEMMA ErayearRight ==
  ASSUME NEW c, NEW q, NEW w, NEW yd, InEra(c, q, w, yd)
  PROVE  Erayear(36524 * c + 1461 * q + 365 * w + yd) = 100 * c + 4 * q + w
<1> USE DEF InEra, LongYear
<1> DEFINE ed == 36524 * c + 1461 * q + 365 * w + yd
           k == IF 24 * c + q + 365 * w + yd >= 1460 THEN 1 ELSE 0
           z == IF c = 3 /\ q = 24 /\ w = 3 /\ yd = 365 THEN 1 ELSE 0
<1>1. ed \div 1460 = 25 * c + q + k
  BY SMTT(30)
<1>2. ed \div 36524 = c + z
  BY SMTT(30)
<1>3. ed \div 146096 = z
  BY SMTT(30)
<1>4. yd - k \in 0 .. 364
  BY SMTT(30)
<1>5. (ed - ed \div 1460) + ed \div 36524 - ed \div 146096
        = 365 * (100 * c + 4 * q + w) + (yd - k)
  BY <1>1, <1>2, <1>3, SMTT(30)
<1>6. \A a \in Nat, b \in 0 .. 364 : (365 * a + b) \div 365 = a
  BY SMTT(30)
<1>7. 100 * c + 4 * q + w \in Nat
  OBVIOUS
<1> QED
  BY <1>4, <1>5, <1>6, <1>7, SMTT(30)
     DEF Erayear, DAYS_PER_4_YEARS, DAYS_PER_CENTURY, DAYS_PER_ERA

\* The parts of the year and the day in it that a date has. The 366th day is
\* there only in a long year.
DateIs(e, c, q, w, yd) ==
  /\ YearIs(MarchYear, e, c, q, w) /\ InEra(c, q, w, yd)
  /\ yd = BeforeMonth(month) + mday - 1
  /\ Days(day) = 146097 * e + (36524 * c + 1461 * q + 365 * w + yd)

\* Every date of the reference has them.
LEMMA DateParts ==
  ASSUME DateInv
  PROVE  \E e, c, q, w, yd : DateIs(e, c, q, w, yd)
<1> DEFINE yd == BeforeMonth(month) + mday - 1
<1>1. MarchYear \in Nat
  BY DEF DateInv, MarchYear
<1>2. PICK e, c, q, w : YearIs(MarchYear, e, c, q, w)
  BY <1>1, YearParts
<1>3. BeforeYear(MarchYear) = 146097 * e + 36524 * c + 1461 * q + 365 * w
  BY <1>2, PartsDays
<1>4. Leap(MarchYear + 1) <=> LongYear(w, q, c)
  BY <1>2, PartsDays
<1>5. BeforeMonth(month) \in 0 .. 337 /\ mday \in Int
  BY MonthStarts DEF DateInv
<1>6. yd \in 0 .. 365 /\ (yd = 365 => Leap(MarchYear + 1))
  <2>1. CASE month = 2
    <3>1. MonthLength(year, 2) = IF Leap(year) THEN 29 ELSE 28
      BY MonthLengths DEF DateInv
    <3>2. MarchYear + 1 = year
      BY <2>1 DEF DateInv, MarchYear
    <3> QED
      BY <2>1, <3>1, <3>2, MonthStarts DEF DateInv
  <2>2. CASE month # 2
    <3>1. mday \in 1 .. 31
      BY <2>2, MonthLengths DEF DateInv
    <3>2. BeforeMonth(month) \in 0 .. 306
      BY <2>2, MonthStarts DEF DateInv
    <3>3. yd \in 0 .. 336
      BY <3>1, <3>2
    <3> QED
      BY <3>3
  <2> QED
    BY <2>1, <2>2
<1>7. Days(day) = 146097 * e + (36524 * c + 1461 * q + 365 * w + yd)
  BY <1>2, <1>3, <1>5, SMTT(30) DEF DateInv, YearIs
<1>8. DateIs(e, c, q, w, yd)
  BY <1>2, <1>4, <1>6, <1>7, SMTT(30) DEF DateIs, InEra, YearIs
<1> QED
  BY <1>8

\* set_ticks finds the month and the day in it.
LEMMA MonthRight ==
  ASSUME DateInv, NEW yd \in 0 .. 365, yd = BeforeMonth(month) + mday - 1
  PROVE  /\ (5 * yd + 2) \div 153 = FromMarch(month)
         /\ yd - (153 * FromMarch(month) + 2) \div 5 + 1 = mday
<1>1. (153 * FromMarch(month) + 2) \div 5 = BeforeMonth(month) /\ BeforeMonth(month) \in Int
      /\ mday \in Int
  BY DEF BeforeMonth, FromMarch, DateInv
<1>2. /\ FromMarch(month) \in 0 .. 11
      /\ 153 * FromMarch(month) <= 5 * yd + 2 /\ 5 * yd + 2 < 153 * FromMarch(month) + 153
  <2>1. CASE month = 2
    <3>1. mday \in 1 .. 29
      BY <2>1, MonthLengths DEF DateInv
    <3> QED
      BY <2>1, <3>1, MonthStarts DEF FromMarch
  <2>2. CASE month \in {4, 6, 9, 11}
    <3>1. mday \in 1 .. 30
      BY <2>2, MonthLengths DEF DateInv
    <3> QED
      BY <2>2, <3>1, MonthStarts DEF FromMarch
  <2>3. CASE month \in {1, 3, 5, 7, 8, 10, 12}
    <3>1. mday \in 1 .. 31
      BY <2>3, MonthLengths DEF DateInv
    <3> QED
      BY <2>3, <3>1, MonthStarts DEF FromMarch
  <2>4. month \in {1, 2, 3, 4, 5, 6, 7, 8, 9, 10, 11, 12}
    BY DEF DateInv
  <2> QED
    BY <2>1, <2>2, <2>3, <2>4
<1>3. (5 * yd + 2) \div 153 = FromMarch(month)
  <2> DEFINE x == 5 * yd + 2
  <2>1. x \in Nat
    OBVIOUS
  <2> HIDE DEF x
  <2>2. \A k \in Nat : 153 * k <= x /\ x < 153 * k + 153 => x \div 153 = k
    BY <2>1, SMTT(30)
  <2> QED
    BY <1>2, <2>2 DEF x
<1>4. yd - BeforeMonth(month) + 1 = mday
  BY <1>1
<1> QED
  BY <1>1, <1>3, <1>4

\* What set_ticks computes is the reference's date,
LEMMA SetTicksDate ==
  ASSUME DateInv
  PROVE  Year(day) = year /\ Month(EraDay(day)) = month /\ Day(EraDay(day)) = mday
<1>0. PICK e, c, q, w, yd : DateIs(e, c, q, w, yd)
  BY DateParts
<1>1. /\ e \in Nat /\ c \in 0 .. 3 /\ q \in 0 .. 24 /\ w \in 0 .. 3 /\ yd \in 0 .. 365
      /\ yd = BeforeMonth(month) + mday - 1
  BY <1>0 DEF DateIs, YearIs, InEra
<1> DEFINE ed == 36524 * c + 1461 * q + 365 * w + yd
           y == 100 * c + 4 * q + w
<1>2. ed \in Nat /\ ed < 146097 /\ y \in Nat
  BY <1>0, <1>1, SMTT(30) DEF DateIs, InEra, LongYear
<1>3. Days(day) = 146097 * e + ed
  BY <1>0 DEF DateIs
<1>4. Era(day) = e /\ EraDay(day) = ed
  <2> HIDE DEF ed
  <2>1. (146097 * e + ed) \div 146097 = e /\ (146097 * e + ed) - e * 146097 = ed
    BY <1>1, <1>2, SMTT(30)
  <2>2. Era(day) = e
    BY <1>3, <2>1, SMTT(30) DEF Era, DAYS_PER_ERA
  <2> QED
    BY <1>3, <2>1, <2>2, SMTT(30) DEF EraDay, DAYS_PER_ERA
<1>5. Erayear(ed) = y
  BY <1>0, ErayearRight, SMTT(30) DEF DateIs
<1>6. Yearday(ed) = yd
  <2>1. y \div 4 = 25 * c + q /\ y \div 100 = c
    BY <1>1, SMTT(30)
  <2>2. Yearday(ed) = ed - ((365 * y + y \div 4) - y \div 100)
    <3> HIDE DEF ed, y
    <3> QED
      BY <1>5, SMTT(30) DEF Yearday, DAYS_PER_YEAR
  <2> QED
    BY <1>1, <2>1, <2>2, SMTT(30)
<1>7. MarchMonth(ed) = FromMarch(month) /\ Day(ed) = mday
  <2>1. MarchMonth(ed) = FromMarch(month)
    BY <1>1, <1>6, MonthRight DEF MarchMonth
  <2> QED
    BY <1>1, <1>6, <2>1, MonthRight DEF Day
<1>8. Month(ed) = month
  BY <1>7 DEF Month, FromMarch, DateInv
<1>9. Year(day) = year
  <2>1. Year(day) = y + e * 400 + IF month <= 2 THEN 1 ELSE 0
    BY <1>4, <1>5, <1>8 DEF Year, YEARS_PER_ERA
  <2> QED
    BY <1>0, <1>1, <2>1 DEF MarchYear, DateInv, DateIs, YearIs
<1> QED
  BY <1>4, <1>7, <1>8, <1>9

\* and its time of day.
LEMMA SetTicksTime ==
  ASSUME TimeInv
  PROVE  sec \div 3600 = hour /\ (sec % 3600) \div 60 = min /\ (sec % 3600) % 60 = s
<1>1. sec \div 3600 = hour /\ sec % 3600 = 60 * min + s
  BY DEF TimeInv
<1> QED
  BY <1>1 DEF TimeInv

\* The next day of the reference is the next day of the count.
LEMMA NextDayStep ==
  ASSUME DateInv, NextDay
  PROVE  DateInv'
<1>1. CASE mday < MonthLength(year, month)
  <2>1. MonthLength(year, month) \in Int
    BY MonthLengths DEF DateInv
  <2>2. mday' = mday + 1 /\ month' = month /\ year' = year /\ day' = day + 1
    BY <1>1 DEF NextDay
  <2>3. MarchYear' = MarchYear /\ Days(day') = Days(day) + 1
    BY <2>2, SMTT(30) DEF MarchYear, Days, EPOCH_ADJUSTMENT_DAYS, DateInv
  <2>4. BeforeYear(MarchYear) \in Int /\ BeforeMonth(month) \in Int
    BY MonthStarts DEF BeforeYear, MarchYear, DateInv
  <2> QED
    BY <1>1, <2>1, <2>2, <2>3, <2>4 DEF DateInv
<1>2. CASE ~(mday < MonthLength(year, month))
  <2>1. mday = MonthLength(year, month) /\ mday' = 1 /\ day' = day + 1
    BY <1>2, MonthLengths DEF DateInv, NextDay
  <2>2. Days(day') = Days(day) + 1 /\ Days(day) \in Nat
    BY <2>1, SMTT(30) DEF Days, EPOCH_ADJUSTMENT_DAYS, DateInv
  <2>3. year' \in Nat /\ year' >= 1 /\ month' \in 1 .. 12 /\ day' \in Nat
    BY <1>2 DEF DateInv, NextDay
  <2>4. mday' \in 1 .. MonthLength(year', month')
    BY <2>1, <2>3, MonthLengths
  <2>5. Days(day') = BeforeYear(MarchYear') + BeforeMonth(month')
    <3>1. BeforeYear(MarchYear) \in Int /\ MarchYear \in Nat
      BY DEF BeforeYear, MarchYear, DateInv
    <3>2. CASE month # 2
      <4>1. MarchYear' = MarchYear
        BY <1>2, <3>2 DEF NextDay, MarchYear, DateInv
      <4>2. BeforeMonth(month') = BeforeMonth(month) + MonthLength(year, month)
        BY <1>2, <3>2, MonthStarts, MonthLengths DEF NextDay, DateInv
      <4>3. BeforeMonth(month) \in Int /\ MonthLength(year, month) \in Int
        BY MonthStarts, MonthLengths DEF DateInv
      <4> QED
        BY <2>1, <2>2, <3>1, <4>1, <4>2, <4>3 DEF DateInv
    <3>3. CASE month = 2
      <4>1. MarchYear' = MarchYear + 1 /\ month' = 3 /\ year = MarchYear + 1
        BY <1>2, <3>3 DEF NextDay, MarchYear, DateInv
      <4>2. PICK e, c, q, w : YearIs(MarchYear, e, c, q, w)
        BY <3>1, YearParts
      <4>3. BeforeYear(MarchYear + 1) = BeforeYear(MarchYear) + YearLength(MarchYear)
        BY <4>2, PartsDays
      <4>4. MonthLength(year, 2) = IF Leap(MarchYear + 1) THEN 29 ELSE 28
        BY <4>1, MonthLengths DEF DateInv
      <4> QED
        BY <2>1, <2>2, <3>1, <3>3, <4>1, <4>3, <4>4, MonthStarts DEF DateInv, YearLength
    <3> QED
      BY <3>2, <3>3
  <2>6. BeforeYear(MarchYear') \in Int /\ BeforeMonth(month') \in Int
    BY <2>3, MonthStarts DEF BeforeYear, MarchYear
  <2> QED
    BY <2>1, <2>3, <2>4, <2>5, <2>6 DEF DateInv
<1> QED
  BY <1>1, <1>2

\* The steps of the reference.
LEMMA DateStep ==
  ASSUME DateInv, TimeInv, [DateNext]_dateVars
  PROVE  DateInv' /\ TimeInv'
<1>1. CASE NextSecond
  <2>1. TimeInv'
    BY <1>1 DEF NextSecond, TimeInv
  <2>2. DateInv'
    BY <1>1 DEF NextSecond, DateInv, MarchYear
  <2> QED
    BY <2>1, <2>2
<1>2. CASE NextDay
  <2>1. TimeInv'
    BY <1>2 DEF NextDay, TimeInv
  <2> QED
    BY <1>2, <2>1, NextDayStep
<1>3. CASE UNCHANGED dateVars
  BY <1>3 DEF dateVars, DateInv, TimeInv, MarchYear
<1> QED
  BY <1>1, <1>2, <1>3 DEF DateNext, Done

\* set_ticks gives the date and the time of day of the Gregorian calendar on every
\* day from 1970 on, not only in the era that is model-checked.
THEOREM CalendarDateRight == DateSpec => []DateRight
<1>1. DateInit => DateInv /\ TimeInv
  <2> SUFFICES ASSUME DateInit
               PROVE  DateInv /\ TimeInv
    OBVIOUS
  <2>1. MonthLength(1970, 1) = 31
    BY MonthLengths
  <2>2. BeforeYear(1969) = 719162
    BY SMTT(30) DEF BeforeYear
  <2>3. DateInv
    BY <2>1, <2>2, MonthStarts, SMTT(30)
       DEF DateInit, DateInv, MarchYear, Days, EPOCH_ADJUSTMENT_DAYS
  <2> QED
    BY <2>3 DEF DateInit, TimeInv
<1>2. DateInv /\ TimeInv => DateRight
  BY SetTicksDate, SetTicksTime DEF DateRight, set_ticks
<1> QED
  BY <1>1, <1>2, DateStep, PTL DEF DateSpec

\* Whatever the day and the second, what set_ticks computes repeats after 400
\* years: the model-checked era stands for all.
THEOREM EraPeriodic ==
  ASSUME NEW d \in Nat, NEW t \in Nat
  PROVE  set_ticks(d + DAYS_PER_ERA, t) =
           [set_ticks(d, t) EXCEPT !.m_year = @ + YEARS_PER_ERA]
<1> DEFINE e == DAYS_PER_ERA
<1>1. Days(d) \in Nat /\ Days(d + e) = Days(d) + e
  BY SMTT(30) DEF Days, EPOCH_ADJUSTMENT_DAYS, DAYS_PER_ERA
<1>2. \A n \in Nat : (n + 146097) \div 146097 = (n \div 146097) + 1 /\ n \div 146097 \in Int
  BY SMTT(30)
<1>3. Era(d + e) = Era(d) + 1 /\ Era(d) \in Int
  BY <1>1, <1>2, SMTT(30) DEF Era, DAYS_PER_ERA
<1>4. EraDay(d + e) = EraDay(d)
  BY <1>1, <1>3, SMTT(30) DEF EraDay, DAYS_PER_ERA
<1>5. Erayear(EraDay(d)) \in Int
  BY <1>1, <1>3, SMTT(30) DEF Erayear, EraDay, DAYS_PER_ERA, DAYS_PER_4_YEARS, DAYS_PER_CENTURY
<1>6. Year(d + e) = Year(d) + YEARS_PER_ERA
  BY <1>3, <1>4, <1>5, SMTT(30) DEF Year, YEARS_PER_ERA
<1> QED
  BY <1>4, <1>6 DEF set_ticks

-----------------------------------------------------------------------------
(* The body of a response. *)

\* Bytes in the chunks before chunk k.
Base(k) == (k - 1) * ChunkSize

ChunkType ==
  /\ pc \in {"new", "open", "write", "enum", "dispose", "wild"}
  /\ live \subseteq Chunks
  /\ buffer \in [Chunks -> [Slots -> Int]]
  /\ m_next \in [Chunks -> 0 .. Wild]
  /\ m_first_chunk \in 0 .. MaxChunks /\ m_current_chunk \in 0 .. MaxChunks
  /\ m_current_chunk_pos \in 0 .. ChunkSize
  /\ m_total_size \in Nat
  /\ remain \in Nat /\ given \in Nat
  /\ at \in 0 .. Wild
  /\ length \in Nat
  /\ sent \in Seq(Int) /\ stored \in Seq(Int)

\* A context is in use and nothing undefined has happened.
InUse == pc \in {"open", "write", "enum", "dispose"}

\* The chunks are linked in the order they were allocated in. Only the link of
\* the last one may never have been set, and not that of the first.
Linked ==
  /\ m_first_chunk = IF m_current_chunk = Nullptr THEN Nullptr ELSE 1
  /\ m_current_chunk = Nullptr => oom = TRUE
  /\ \A k \in Chunks : k < m_current_chunk => m_next[k] = k + 1
  /\ m_current_chunk = 1 => m_next[1] = Nullptr
  /\ m_current_chunk > 1 => m_next[m_current_chunk] \in {Nullptr, Wild}

\* They hold the bytes that write() has copied, and it has copied all it was
\* handed unless memory ran out.
Filled ==
  /\ Len(stored) = m_total_size
  /\ m_current_chunk = Nullptr => m_total_size = 0 /\ m_current_chunk_pos = 0
  /\ m_current_chunk # Nullptr => m_total_size = Base(m_current_chunk) + m_current_chunk_pos
  /\ \A k \in Chunks, j \in Slots :
       k <= m_current_chunk /\ Base(k) + j < Len(stored) => buffer[k][j] = stored[Base(k) + j + 1]
  /\ m_total_size + remain <= given
  /\ m_current_chunk > 1 => given > ChunkSize

\* No chunk has been deleted yet,
Whole == live = 1 .. m_current_chunk

\* or those before the one that dispose() has come to.
Disposed == live = IF at \in Chunks THEN at .. m_current_chunk ELSE {}

\* An unset pointer is only ever found behind a second chunk.
Pointer ==
  /\ at \in Chunks => at <= m_current_chunk
  /\ at = Wild => m_current_chunk > 1

\* What has been sent is what the chunks before the enumerator's hold.
SentSoFar ==
  /\ length = m_total_size
  /\ Len(sent) = IF at \in Chunks THEN Base(at) ELSE Len(stored)
  /\ Len(sent) <= Len(stored)
  /\ \A i \in 1 .. Len(sent) : sent[i] = stored[i]

ChunkInv ==
  /\ ChunkType
  /\ pc = "new" => live = {}
  /\ InUse => Linked /\ Filled
  /\ pc \in {"open", "write", "enum"} => Whole
  /\ pc \in {"open", "write"} => sent = <<>>
  /\ pc = "enum" => Pointer /\ SentSoFar
  /\ pc = "dispose" => Pointer /\ Disposed
  /\ pc = "wild" => given > ChunkSize \/ oom = TRUE

\* The chunks before a chunk hold whole chunks of bytes.
LEMMA BaseFacts ==
  /\ Base(1) = 0
  /\ \A k \in Nat \ {0} : Base(k) \in Nat /\ Base(k + 1) = Base(k) + ChunkSize
  /\ \A k, l \in Nat \ {0} : k < l => Base(k) + ChunkSize <= Base(l)
<1> USE ChunkAssumption
<1>1. \A a, b \in Nat : a * b \in Nat
  OBVIOUS
<1>2. \A a, b \in Nat : (a + 1) * b = a * b + b
  OBVIOUS
<1>3. \A a, b, d \in Nat : (a + d) * b = a * b + d * b
  OBVIOUS
<1>4. Base(1) = 0
  BY DEF Base
<1>5. ASSUME NEW k \in Nat \ {0}
      PROVE  Base(k) \in Nat /\ Base(k + 1) = Base(k) + ChunkSize
  BY <1>1, <1>2 DEF Base
<1>6. ASSUME NEW k \in Nat \ {0}, NEW l \in Nat \ {0}, k < l
      PROVE  Base(k) + ChunkSize <= Base(l)
  <2> DEFINE a == k - 1
             d == l - 1 - k
  <2>1. a \in Nat /\ d \in Nat /\ l - 1 = a + 1 + d
    BY <1>6
  <2>2. (a + 1 + d) * ChunkSize = (a + 1) * ChunkSize + d * ChunkSize
    BY <1>3, <2>1
  <2>3. (a + 1) * ChunkSize = a * ChunkSize + ChunkSize /\ d * ChunkSize >= 0
        /\ a * ChunkSize \in Nat /\ d * ChunkSize \in Nat
    BY <1>1, <1>2, <2>1
  <2> QED
    BY <2>1, <2>2, <2>3 DEF Base
<1> QED
  BY <1>4, <1>5, <1>6

\* The same for the chunks and the places in them.
LEMMA ChunkFacts ==
  /\ \A k \in Chunks : k \in Nat /\ k >= 1 /\ k <= MaxChunks /\ Base(k) \in Nat
  /\ \A j \in Slots : j \in Nat /\ j < ChunkSize
  /\ \A k, l \in Chunks : k < l => Base(k) + ChunkSize <= Base(l)
<1> USE ChunkAssumption
<1>1. \A k \in Chunks : k \in Nat \ {0} /\ k >= 1 /\ k <= MaxChunks
  BY DEF Chunks
<1>2. \A k \in Chunks : Base(k) \in Nat
  BY <1>1, BaseFacts
<1>3. ASSUME NEW k \in Chunks, NEW l \in Chunks, k < l
      PROVE  Base(k) + ChunkSize <= Base(l)
  <2>1. k \in Nat \ {0} /\ l \in Nat \ {0}
    BY <1>1
  <2> QED
    BY <1>3, <2>1, BaseFacts
<1>4. \A j \in Slots : j \in Nat /\ j < ChunkSize
  BY DEF Slots
<1> QED
  BY <1>1, <1>2, <1>3, <1>4

\* A copy behind a sequence.
LEMMA Appended ==
  ASSUME NEW q \in Seq(Int), NEW n \in Nat, NEW f \in [1 .. n -> Int]
  PROVE  /\ q \o f \in Seq(Int)
         /\ Len(q \o f) = Len(q) + n
         /\ \A i \in 1 .. Len(q) + n :
              (q \o f)[i] = IF i <= Len(q) THEN q[i] ELSE f[i - Len(q)]
<1>1. f \in Seq(Int) /\ Len(f) = n
  OBVIOUS
<1> QED
  BY <1>1

\* The first state.
LEMMA ChunkInitInv == Init => ChunkInv
  BY ChunkAssumption
     DEF Init, ChunkInv, ChunkType, InUse, Chunks, Slots, Wild, Nullptr, Stale

\* Steps that leave the list and what it holds alone.
LEMMA ListKept ==
  ASSUME UNCHANGED <<buffer, m_next, m_first_chunk, m_current_chunk, m_current_chunk_pos,
                     m_total_size, stored>>
  PROVE  /\ Linked /\ UNCHANGED oom => Linked'
         /\ Filled /\ UNCHANGED <<remain, given>> => Filled'
         /\ Whole /\ UNCHANGED live => Whole'
  BY DEF Linked, Filled, Whole

\* A new context has one chunk, or none without memory.
LEMMA CreateStep ==
  ASSUME ChunkInv, Create
  PROVE  ChunkInv'
<1> USE ChunkAssumption
<1>1. \/ live' = {1} /\ m_current_chunk' = 1 /\ m_first_chunk' = 1 /\ MaxChunks > 0
      \/ live' = {} /\ m_current_chunk' = 0 /\ m_first_chunk' = 0
  BY DEF ChunkInv, Create, Nullptr
<1>2. /\ Len(stored') = 0 /\ m_total_size' = 0 /\ m_current_chunk_pos' = 0
      /\ remain' = 0 /\ given' = 0 /\ at' = 0 /\ length' = 0
  BY DEF Create, Nullptr
<1>3. ChunkType'
  <2>1. sent' \in Seq(Int) /\ stored' \in Seq(Int)
    BY DEF Create
  <2>2. m_next' \in [Chunks -> 0 .. Wild]
    BY DEF ChunkInv, ChunkType, Create, FirstNext, Chunks, Wild, Nullptr
  <2>3. /\ live' \subseteq Chunks
        /\ m_first_chunk' \in 0 .. MaxChunks /\ m_current_chunk' \in 0 .. MaxChunks
    BY <1>1 DEF Chunks
  <2>4. buffer' = buffer /\ pc' = "open"
    BY DEF Create
  <2>5. at' \in 0 .. Wild /\ m_current_chunk_pos' \in 0 .. ChunkSize
    BY <1>2 DEF Wild
  <2> QED
    BY <1>2, <2>1, <2>2, <2>3, <2>4, <2>5 DEF ChunkInv, ChunkType
<1>4. Linked'
  BY DEF ChunkInv, ChunkType, Create, FirstNext, Linked, Chunks, Nullptr, Wild
<1>5. Filled'
  <2>1. \A k \in Chunks, j \in Slots : ~(Base(k) + j < 0)
    BY ChunkFacts
  <2>2. Base(1) = 0
    BY BaseFacts
  <2> QED
    BY <1>1, <1>2, <2>1, <2>2 DEF Filled, Nullptr
<1>6. Whole'
  <2>1. 1 .. 1 = {1} /\ 1 .. 0 = {}
    OBVIOUS
  <2> QED
    BY <1>1, <2>1 DEF Whole
<1> QED
  BY <1>3, <1>4, <1>5, <1>6 DEF ChunkInv, Create

\* write() begins, with more bytes.
LEMMA WriteStep ==
  ASSUME ChunkInv, NEW n \in WriteSizes, Write(n)
  PROVE  ChunkInv'
<1> USE ChunkAssumption
<1>1. ChunkType'
  BY DEF ChunkInv, ChunkType, Write, listVars, sendVars
<1>2. Filled'
  BY DEF ChunkInv, ChunkType, InUse, Write, listVars, Filled
<1> QED
  BY <1>1, <1>2, ListKept DEF ChunkInv, InUse, Write, listVars, sendVars

\* Bytes go to the current chunk and are counted.
LEMMA CopyStep ==
  ASSUME ChunkInv, Copy
  PROVE  ChunkInv'
<1> USE ChunkAssumption
<1>1. CASE m_current_chunk = Nullptr
  <2>1. pc' = "wild" /\ oom' = TRUE
    BY <1>1 DEF ChunkInv, InUse, Linked, Copy
  <2>2. ChunkType'
    BY <1>1 DEF ChunkInv, ChunkType, Copy, sendVars
  <2> QED
    BY <2>1, <2>2 DEF ChunkInv, InUse
<1>2. CASE m_current_chunk # Nullptr
  <2> DEFINE c == m_current_chunk
             pos == m_current_chunk_pos
             n == CopySize
             f == [j \in 1 .. n |-> given - remain + j]
  <2>1. c \in Chunks /\ c \in Nat \ {0} /\ pos \in 0 .. ChunkSize - 1
    BY <1>2 DEF ChunkInv, ChunkType, Copy, Chunks, Nullptr
  <2>2. n \in Nat /\ n <= ChunkSize - pos /\ n <= remain
    BY <2>1 DEF ChunkInv, ChunkType, CopySize
  <2>3. Linked /\ Filled /\ Whole /\ sent = <<>>
    BY DEF ChunkInv, InUse, Copy
  <2>4. Len(stored) = Base(c) + pos /\ Base(c) \in Nat
    BY <2>1, <2>3, <1>2, BaseFacts DEF Filled
  <2>5. f \in [1 .. n -> Int] /\ given - remain \in Int
    BY DEF ChunkInv, ChunkType
  <2>6. /\ stored' \in Seq(Int)
        /\ Len(stored') = Len(stored) + n
        /\ \A i \in 1 .. Len(stored) + n :
             stored'[i] = IF i <= Len(stored) THEN stored[i] ELSE f[i - Len(stored)]
    <3>1. stored' = stored \o f
      BY <1>2 DEF Copy
    <3> HIDE DEF f, n
    <3> QED
      BY <2>2, <2>5, <3>1, Appended DEF ChunkInv, ChunkType
  <2>7. ChunkType'
    <3>1. buffer' \in [Chunks -> [Slots -> Int]]
      <4> DEFINE row == [j \in Slots |-> IF pos <= j /\ j < pos + n
                                         THEN given - remain + 1 + j - pos ELSE buffer[c][j]]
      <4>1. row \in [Slots -> Int]
        BY <2>1, <2>2, <2>5, ChunkFacts DEF ChunkInv, ChunkType
      <4>2. buffer' = [buffer EXCEPT ![c] = row]
        BY <1>2 DEF Copy
      <4> HIDE DEF row
      <4> QED
        BY <4>1, <4>2 DEF ChunkInv, ChunkType
    <3>2. remain' \in Nat /\ m_current_chunk_pos' \in 0 .. ChunkSize /\ m_total_size' \in Nat
      BY <1>2, <2>1, <2>2 DEF Copy, ChunkInv, ChunkType
    <3> QED
      BY <1>2, <2>6, <3>1, <3>2 DEF Copy, ChunkInv, ChunkType, sendVars
  <2>8. Linked' /\ Whole'
    BY <1>2, <2>3 DEF Copy, Linked, Whole
  <2>9. Filled'
    <3>1. /\ Len(stored') = m_total_size'
          /\ m_total_size' = Base(c) + m_current_chunk_pos'
          /\ m_total_size' + remain' <= given'
      <4> HIDE DEF n
      <4>1. m_total_size' = m_total_size + n /\ m_current_chunk_pos' = pos + n
            /\ remain' = remain - n /\ given' = given
        BY <1>2 DEF Copy, n
      <4>2. Len(stored) = m_total_size /\ m_total_size + remain <= given
        BY <2>3 DEF Filled
      <4> QED
        BY <2>1, <2>2, <2>4, <2>6, <4>1, <4>2, SMTT(20) DEF ChunkInv, ChunkType
    <3>2. ASSUME NEW k \in Chunks, NEW j \in Slots, k <= c, Base(k) + j < Len(stored')
          PROVE  buffer'[k][j] = stored'[Base(k) + j + 1]
      <4> DEFINE i == Base(k) + j + 1
      <4>1. i \in Nat /\ i >= 1 /\ i <= Len(stored) + n /\ Base(k) \in Nat /\ j \in Int
        BY <2>2, <2>4, <2>6, <3>2, ChunkFacts
      <4>2. CASE k # c
        <5>1. Base(k) + ChunkSize <= Base(c)
          BY <2>1, <3>2, <4>2, ChunkFacts
        <5>2. i <= Len(stored) /\ Base(k) + j < Len(stored)
          BY <2>1, <2>4, <4>1, <5>1, ChunkFacts
        <5>3. buffer[k][j] = stored[i] /\ stored'[i] = stored[i]
          <6>1. buffer[k][j] = stored[i]
            BY <2>3, <3>2, <5>2 DEF Filled
          <6>2. i \in 1 .. Len(stored) + n
            BY <2>2, <2>4, <4>1
          <6> QED
            BY <2>6, <5>2, <6>1, <6>2
        <5>4. buffer'[k] = buffer[k]
          BY <1>2, <2>1, <4>2 DEF Copy, ChunkInv, ChunkType
        <5> QED
          BY <5>3, <5>4
      <4>3. CASE k = c
        <5>1. buffer'[c][j] = IF pos <= j /\ j < pos + n THEN given - remain + 1 + j - pos
                              ELSE buffer[c][j]
          BY <1>2, <2>1, <2>2 DEF Copy, ChunkInv, ChunkType
        <5>2. CASE j < pos
          <6>1. i <= Len(stored) /\ Base(k) + j < Len(stored)
            BY <2>1, <2>4, <4>1, <4>3, <5>2
          <6>2. buffer[k][j] = stored[i]
            BY <2>3, <3>2, <6>1 DEF Filled
          <6>3. i \in 1 .. Len(stored) + n
            BY <2>2, <2>4, <4>1
          <6>4. stored'[i] = stored[i]
            BY <2>6, <6>1, <6>3
          <6> QED
            BY <2>1, <4>1, <4>3, <5>1, <5>2, <6>2, <6>4
        <5>3. CASE pos <= j
          <6>1. /\ j < pos + n /\ ~(i <= Len(stored)) /\ i - Len(stored) = j + 1 - pos
                /\ i - Len(stored) \in 1 .. n /\ i \in 1 .. Len(stored) + n
            <7> HIDE DEF n
            <7> QED BY <2>1, <2>2, <2>4, <4>1, <4>3, <5>3, SMTT(30)
          <6>2. stored'[i] = f[i - Len(stored)]
            BY <2>6, <6>1
          <6>3. f[i - Len(stored)] = given - remain + (j + 1 - pos)
            BY <6>1
          <6> QED
            <7> HIDE DEF f, n
            <7>1. buffer'[c][j] = given - remain + 1 + j - pos
              BY <2>1, <5>1, <5>3, <6>1, SMTT(20)
            <7>2. given - remain + 1 + j - pos = given - remain + (j + 1 - pos)
              BY <2>1, <2>5, <4>1, SMTT(20)
            <7> QED
              BY <4>3, <6>2, <6>3, <7>1, <7>2
        <5> QED
          BY <2>1, <4>1, <5>2, <5>3
      <4> QED
        BY <4>2, <4>3
    <3> QED
      BY <1>2, <2>3, <3>1, <3>2 DEF Copy, Filled
  <2> QED
    BY <1>2, <2>3, <2>7, <2>8, <2>9 DEF ChunkInv, InUse, Copy, sendVars
<1> QED
  BY <1>1, <1>2

\* The list grows by a chunk; the current one was full.
LEMMA NewChunkStep ==
  ASSUME ChunkInv, NewChunk
  PROVE  ChunkInv'
<1> USE ChunkAssumption
<1> DEFINE c == m_current_chunk
<1>1. Linked /\ Filled /\ Whole /\ sent = <<>>
  BY DEF ChunkInv, InUse, NewChunk
<1>2. c \in Chunks /\ c + 1 \in Chunks
  BY <1>1 DEF ChunkInv, ChunkType, NewChunk, Filled, Chunks, Nullptr
<1>3. PICK stale \in {Nullptr, Wild} :
        m_next' = [m_next EXCEPT ![c] = c + 1, ![c + 1] = stale]
  BY DEF NewChunk
<1>4. ChunkType'
  <2>1. m_next' \in [Chunks -> 0 .. Wild]
    <3>1. c + 1 \in 0 .. Wild /\ stale \in 0 .. Wild /\ m_next \in [Chunks -> 0 .. Wild]
      BY <1>2, SMTT(20) DEF ChunkInv, ChunkType, Chunks, Wild, Nullptr
    <3> QED
      BY <1>3, <3>1
  <2>2. live' \subseteq Chunks /\ m_current_chunk' \in 0 .. MaxChunks
        /\ m_current_chunk_pos' \in 0 .. ChunkSize
    BY <1>2 DEF ChunkInv, ChunkType, NewChunk, Chunks
  <2> QED
    BY <2>1, <2>2 DEF ChunkInv, ChunkType, NewChunk, sendVars
<1>5. Linked'
  <2>1. /\ \A k \in Chunks : k < c => m_next[k] = k + 1
        /\ m_next \in [Chunks -> 0 .. Wild]
    BY <1>1 DEF Linked, ChunkInv, ChunkType
  <2>2. \A k \in Chunks : k < c + 1 => m_next'[k] = k + 1
    BY <1>2, <1>3, <2>1 DEF Chunks
  <2>3. m_next'[c + 1] \in {Nullptr, Wild}
    BY <1>2, <1>3, <2>1 DEF Chunks
  <2>4. m_current_chunk' = c + 1 /\ m_first_chunk' = 1 /\ c + 1 > 1
    BY <1>1, <1>2 DEF NewChunk, Linked, Nullptr, Chunks
  <2> QED
    BY <2>2, <2>3, <2>4, <1>2 DEF Linked, Nullptr, Chunks
<1>6. Filled'
  <2>1. m_total_size = Base(c + 1) /\ Base(c + 1) = Base(c) + ChunkSize /\ Base(c) \in Nat
    BY <1>1, <1>2, BaseFacts DEF Filled, NewChunk, Nullptr, Chunks
  <2>2. given > ChunkSize
    BY <1>1, <2>1 DEF Filled, NewChunk, ChunkInv, ChunkType
  <2>3. \A k \in Chunks, j \in Slots :
          k <= c + 1 /\ Base(k) + j < Len(stored) => k <= c
    BY <1>1, <1>2, <2>1 DEF Chunks, Slots, Filled
  <2> QED
    BY <1>1, <1>2, <2>1, <2>2, <2>3 DEF NewChunk, Filled, Nullptr, Chunks
<1>7. Whole'
  BY <1>1, <1>2 DEF ChunkInv, ChunkType, NewChunk, Whole, Chunks
<1> QED
  BY <1>1, <1>4, <1>5, <1>6, <1>7 DEF ChunkInv, InUse, NewChunk, sendVars

\* The rest of a write is given up, or nothing more can be said.
LEMMA NewChunkFailStep ==
  ASSUME ChunkInv, NewChunkFail
  PROVE  ChunkInv'
<1> USE ChunkAssumption
<1>1. ChunkType'
  BY DEF ChunkInv, ChunkType, NewChunkFail, listVars, sendVars
<1>2. Linked'
  BY DEF ChunkInv, InUse, NewChunkFail, listVars, Linked
<1>3. Filled'
  BY DEF ChunkInv, ChunkType, InUse, NewChunkFail, listVars, Filled
<1> QED
  BY <1>1, <1>2, <1>3, ListKept DEF ChunkInv, InUse, NewChunkFail, listVars, sendVars

\* write() ends.
LEMMA WriteDoneStep ==
  ASSUME ChunkInv, WriteDone
  PROVE  ChunkInv'
<1>1. ChunkType'
  BY DEF ChunkInv, ChunkType, WriteDone, listVars, sendVars
<1> QED
  BY <1>1, ListKept DEF ChunkInv, InUse, WriteDone, listVars, sendVars

\* The enumerator starts at the first chunk; nothing has been sent.
LEMMA WriteHeadStep ==
  ASSUME ChunkInv, WriteHead
  PROVE  ChunkInv'
<1> USE ChunkAssumption
<1>1. Linked /\ Filled /\ Whole /\ sent = <<>>
  BY DEF ChunkInv, InUse, WriteHead
<1>2. ChunkType'
  BY <1>1 DEF ChunkInv, ChunkType, WriteHead, listVars, Linked, Wild, Nullptr
<1>3. \/ at' = 0 /\ m_current_chunk = 0 /\ at' \notin Chunks /\ at' # Wild
      \/ at' = 1 /\ m_current_chunk >= 1 /\ at' \in Chunks /\ at' # Wild
  BY <1>1 DEF ChunkInv, ChunkType, WriteHead, Linked, Nullptr, Chunks, Wild
<1>4. Pointer'
  BY <1>3 DEF Pointer, WriteHead, listVars
<1>5. SentSoFar'
  <2>1. Len(sent') = 0 /\ sent' = sent
    BY <1>1 DEF WriteHead
  <2>2. Len(stored') = m_total_size /\ length' = m_total_size' /\ m_total_size \in Nat
    BY <1>1 DEF Filled, WriteHead, listVars, ChunkInv, ChunkType
  <2>3. m_current_chunk = 0 => m_total_size = 0
    BY <1>1 DEF Filled, Nullptr
  <2>4. Len(sent') = IF at' \in Chunks THEN Base(at') ELSE Len(stored')
    <3>1. Base(1) = 0
      BY BaseFacts
    <3> QED
      BY <1>3, <2>1, <2>2, <2>3, <3>1
  <2> QED
    BY <2>1, <2>2, <2>4 DEF SentSoFar
<1> QED
  BY <1>1, <1>2, <1>4, <1>5, ListKept DEF ChunkInv, InUse, WriteHead, listVars

\* dispose() starts at the first chunk, and none has been deleted.
LEMMA DisposeBegins ==
  ASSUME ChunkInv, pc \in {"open", "enum"}, at' = m_first_chunk, pc' = "dispose",
         UNCHANGED <<listVars, remain, given, sendVars, stored, oom>>
  PROVE  ChunkInv'
<1> USE ChunkAssumption
<1>1. Linked /\ Filled /\ Whole
  BY DEF ChunkInv, InUse
<1>2. ChunkType'
  BY <1>1 DEF ChunkInv, ChunkType, listVars, sendVars, Linked, Wild, Nullptr
<1>3. \/ at' = 0 /\ m_current_chunk = 0 /\ at' \notin Chunks /\ at' # Wild
      \/ at' = 1 /\ m_current_chunk >= 1 /\ at' \in Chunks /\ at' # Wild
  BY <1>1 DEF ChunkInv, ChunkType, Linked, Nullptr, Chunks, Wild
<1>4. Pointer'
  BY <1>3 DEF Pointer, listVars
<1>5. Disposed'
  <2>1. 1 .. 0 = {}
    OBVIOUS
  <2> QED
    BY <1>1, <1>3, <2>1 DEF Disposed, Whole, listVars
<1> QED
  BY <1>1, <1>2, <1>4, <1>5, ListKept DEF ChunkInv, InUse, listVars

\* Where the link of a chunk leads: to the next chunk, or from the last to null or
\* to an address that was never set.
LEMMA NextOf ==
  ASSUME ChunkInv, Linked, Pointer, at \in Chunks
  PROVE  /\ at < m_current_chunk => m_next[at] = at + 1 /\ at + 1 \in Chunks
         /\ ~(at < m_current_chunk) => /\ at = m_current_chunk
                                       /\ m_next[at] \in {Nullptr, Wild}
                                       /\ m_next[at] = Wild => m_current_chunk > 1
<1> USE ChunkAssumption
<1>1. at \in Nat /\ at >= 1 /\ at <= m_current_chunk /\ m_current_chunk \in 0 .. MaxChunks
  BY DEF Pointer, Chunks, ChunkInv, ChunkType
<1>2. CASE at < m_current_chunk
  BY <1>1, <1>2 DEF Linked, Chunks
<1>3. CASE at = m_current_chunk
  BY <1>1, <1>3 DEF Linked, Nullptr, Wild
<1> QED
  BY <1>1, <1>2, <1>3

\* The bytes of one chunk are sent.
LEMMA SendChunkStep ==
  ASSUME ChunkInv, SendChunk
  PROVE  ChunkInv'
<1> USE ChunkAssumption
<1>1. Linked /\ Filled /\ Whole /\ Pointer /\ SentSoFar
  BY DEF ChunkInv, InUse, SendChunk
<1> DEFINE n == get_data_size
           f == [j \in 1 .. n |-> buffer[at][j - 1]]
           l == Len(stored)
<1>2. /\ at \in Chunks /\ Base(at) \in Nat /\ Len(sent) = Base(at)
      /\ l = Base(m_current_chunk) + m_current_chunk_pos
      /\ m_current_chunk \in Chunks /\ at <= m_current_chunk
      /\ l \in Nat /\ at \in Nat
  <2>1. at \in Chunks /\ at <= m_current_chunk
    BY <1>1 DEF SendChunk, Pointer
  <2>2. m_current_chunk \in Chunks /\ at \in Nat
    BY <2>1 DEF Chunks, ChunkInv, ChunkType
  <2>3. m_current_chunk # Nullptr
    BY <2>2 DEF Chunks, Nullptr
  <2> QED
    BY <1>1, <2>1, <2>2, <2>3, ChunkFacts DEF Filled, SentSoFar, ChunkInv, ChunkType
<1>3. n \in Nat /\ n <= ChunkSize /\ (at # m_current_chunk => n = ChunkSize)
      /\ (at = m_current_chunk => n = m_current_chunk_pos)
  BY DEF get_data_size, ChunkInv, ChunkType
<1>4. Base(at) + n <= l /\ (at = m_current_chunk => Base(at) + n = l)
  <2>1. CASE at = m_current_chunk
    BY <1>2, <1>3, <2>1
  <2>2. CASE at # m_current_chunk
    <3>1. Base(at) + ChunkSize <= Base(m_current_chunk) /\ Base(m_current_chunk) \in Nat
      BY <1>2, <2>2, ChunkFacts
    <3> QED
      BY <1>2, <1>3, <2>2, <3>1 DEF ChunkInv, ChunkType
  <2> QED
    BY <2>1, <2>2
<1>5. \A j \in 1 .. n : j - 1 \in Slots /\ buffer[at][j - 1] = stored[Base(at) + j]
  <2> SUFFICES ASSUME NEW j \in 1 .. n
               PROVE  j - 1 \in Slots /\ buffer[at][j - 1] = stored[Base(at) + j]
    OBVIOUS
  <2> HIDE DEF n
  <2>1. j - 1 \in Slots /\ Base(at) + (j - 1) < l /\ Base(at) + (j - 1) + 1 = Base(at) + j
    BY <1>2, <1>3, <1>4 DEF Slots
  <2>2. at <= m_current_chunk /\ Base(at) + (j - 1) < Len(stored)
    BY <1>2, <2>1
  <2>3. buffer[at][j - 1] = stored[Base(at) + (j - 1) + 1]
    BY <1>1, <1>2, <2>1, <2>2 DEF Filled
  <2> QED
    BY <2>1, <2>3
<1>6. f \in [1 .. n -> Int]
  BY <1>2, <1>5 DEF ChunkInv, ChunkType
<1>7. /\ sent' \in Seq(Int) /\ Len(sent') = Base(at) + n
      /\ \A i \in 1 .. Base(at) + n :
           sent'[i] = IF i <= Base(at) THEN sent[i] ELSE f[i - Base(at)]
  <2>1. sent' = sent \o f /\ sent \in Seq(Int)
    BY DEF SendChunk, ChunkInv, ChunkType
  <2> HIDE DEF f, n
  <2>2. /\ sent' \in Seq(Int) /\ Len(sent') = Len(sent) + n
        /\ \A i \in 1 .. Len(sent) + n :
             sent'[i] = IF i <= Len(sent) THEN sent[i] ELSE f[i - Len(sent)]
    BY <1>3, <1>6, <2>1, Appended
  <2> QED
    BY ONLY <1>2, <2>2
<1>8. \A i \in 1 .. Base(at) + n : sent'[i] = stored[i]
  <2> SUFFICES ASSUME NEW i \in 1 .. Base(at) + n
               PROVE  sent'[i] = stored[i]
    OBVIOUS
  <2>1. CASE i <= Base(at)
    <3>1. i \in 1 .. Len(sent) /\ Len(sent) = Base(at)
      BY <1>2, <1>3, <2>1
    <3>2. sent[i] = stored[i]
      BY <1>1, <3>1 DEF SentSoFar
    <3> QED
      BY <1>7, <2>1, <3>2
  <2>2. CASE ~(i <= Base(at))
    <3>1. i - Base(at) \in 1 .. n /\ Base(at) + (i - Base(at)) = i
      <4> HIDE DEF n
      <4> QED BY <1>2, <1>3, <2>2
    <3>2. f[i - Base(at)] = stored[i]
      BY <1>5, <3>1
    <3> QED
      BY <1>7, <2>2, <3>2
  <2> QED
    BY <2>1, <2>2
<1>9. ChunkType'
  <2>1. at' \in 0 .. Wild
    BY <1>2 DEF SendChunk, ChunkInv, ChunkType
  <2> QED
    BY <1>7, <2>1 DEF SendChunk, ChunkInv, ChunkType, listVars
<1>10. Pointer' /\ SentSoFar'
  <2> HIDE DEF n
  <2>1. CASE at < m_current_chunk
    <3>1. at' = at + 1 /\ at' \in Chunks /\ Base(at + 1) = Base(at) + ChunkSize
      <4>1. at \in Nat \ {0}
        BY <1>2 DEF Chunks
      <4>2. Base(at + 1) = Base(at) + ChunkSize
        BY <4>1, BaseFacts
      <4> QED
        BY <1>1, <1>2, <2>1, <4>2, NextOf DEF SendChunk
    <3>2. n = ChunkSize
      BY <1>2, <1>3, <2>1 DEF Chunks
    <3>3. Pointer'
      BY <1>2, <2>1, <3>1 DEF Pointer, SendChunk, listVars, Chunks, Wild
    <3>4. /\ length' = m_total_size' /\ stored' = stored
      BY <1>1 DEF SendChunk, SentSoFar, listVars
    <3> QED
      BY <1>4, <1>7, <1>8, <3>1, <3>2, <3>3, <3>4 DEF SentSoFar
  <2>2. CASE ~(at < m_current_chunk)
    <3>1. at = m_current_chunk /\ at' \in {Nullptr, Wild} /\ (at' = Wild => m_current_chunk > 1)
      BY <1>1, <1>2, <2>2, NextOf DEF SendChunk
    <3>2. at' \notin Chunks
      BY <3>1 DEF Chunks, Wild, Nullptr
    <3>3. Pointer'
      BY <3>1, <3>2 DEF Pointer, SendChunk, listVars
    <3>4. /\ length' = m_total_size' /\ stored' = stored
      BY <1>1 DEF SendChunk, SentSoFar, listVars
    <3> QED
      BY <1>2, <1>4, <1>7, <1>8, <3>1, <3>2, <3>3, <3>4 DEF SentSoFar
  <2> QED
    BY <2>1, <2>2
<1> QED
  BY <1>1, <1>9, <1>10, ListKept DEF SendChunk, ChunkInv, InUse, listVars

\* A pointer that was never set is followed for a body of two chunks or more.
LEMMA FollowWildStep ==
  ASSUME ChunkInv, FollowWild
  PROVE  ChunkInv'
<1>1. ChunkType'
  BY DEF ChunkInv, ChunkType, FollowWild, listVars, sendVars
<1>2. given > ChunkSize
  BY DEF ChunkInv, InUse, FollowWild, Pointer, Filled
<1> QED
  BY <1>1, <1>2 DEF ChunkInv, InUse, FollowWild

\* A chunk is deleted, which was still there, and dispose() goes to the next.
LEMMA DisposeStep ==
  ASSUME ChunkInv, Dispose
  PROVE  ChunkInv'
<1> USE ChunkAssumption
<1>1. Linked /\ Filled /\ Pointer /\ Disposed /\ at \in Chunks
  BY DEF ChunkInv, InUse, Dispose
<1>2. /\ at \in Nat /\ at >= 1 /\ at <= m_current_chunk /\ m_current_chunk \in 0 .. MaxChunks
      /\ live = at .. m_current_chunk
  BY <1>1 DEF Pointer, Chunks, ChunkInv, ChunkType, Disposed
<1>3. at \in live /\ pc' = "dispose" /\ live' = (at + 1) .. m_current_chunk
  BY <1>2 DEF Dispose
<1>4. ChunkType'
  <2>1. at' \in 0 .. Wild
    BY <1>1 DEF Dispose, DisposeNext, ChunkInv, ChunkType
  <2>2. live' \subseteq Chunks
    BY DEF Dispose, ChunkInv, ChunkType
  <2> QED
    BY <1>3, <2>1, <2>2 DEF Dispose, ChunkInv, ChunkType, sendVars
<1>5. Pointer' /\ Disposed'
  <2>1. CASE at < m_current_chunk
    <3>1. at' = at + 1 /\ at' \in Chunks
      BY <1>1, <2>1, NextOf DEF Dispose, DisposeNext
    <3> QED
      BY <1>2, <1>3, <2>1, <3>1 DEF Pointer, Disposed, Dispose, Chunks, Wild
  <2>2. CASE ~(at < m_current_chunk)
    <3>1. at = m_current_chunk /\ at' \in {Nullptr, Wild} /\ (at' = Wild => m_current_chunk > 1)
      BY <1>1, <2>2, NextOf DEF Dispose, DisposeNext
    <3>2. at' \notin Chunks
      BY <3>1 DEF Chunks, Wild, Nullptr
    <3>3. live' = {}
      BY <1>2, <1>3, <3>1
    <3> QED
      BY <3>1, <3>2, <3>3 DEF Pointer, Disposed, Dispose
  <2> QED
    BY <2>1, <2>2
<1> QED
  BY <1>1, <1>3, <1>4, <1>5, ListKept DEF Dispose, ChunkInv, InUse

\* dispose() has come to the end.
LEMMA DisposeEndStep ==
  ASSUME ChunkInv, DisposeEnd
  PROVE  ChunkInv'
<1> USE ChunkAssumption
<1>1. ChunkType'
  BY DEF ChunkInv, ChunkType, DisposeEnd, sendVars, Nullptr
<1>2. live' = {}
  BY DEF ChunkInv, DisposeEnd, Disposed, Chunks, Nullptr
<1> QED
  BY <1>1, <1>2 DEF ChunkInv, InUse, DisposeEnd

\* Every step keeps the invariant.
LEMMA ChunkStep ==
  ASSUME ChunkInv, [Next]_vars
  PROVE  ChunkInv'
<1>1. CASE WriteFail
  BY <1>1, DisposeBegins DEF WriteFail
<1>2. CASE EnumEnd
  BY <1>2, DisposeBegins DEF EnumEnd
<1>3. CASE UNCHANGED vars
  <2>1. ChunkType'
    BY <1>3 DEF vars, listVars, sendVars, ChunkInv, ChunkType
  <2>2. (Pointer => Pointer') /\ (Disposed => Disposed') /\ (SentSoFar => SentSoFar')
    BY <1>3 DEF vars, listVars, sendVars, Pointer, Disposed, SentSoFar
  <2> QED
    BY <1>3, <2>1, <2>2, ListKept DEF vars, listVars, sendVars, ChunkInv, InUse
<1> QED
  BY <1>1, <1>2, <1>3, CreateStep, CopyStep, NewChunkStep, NewChunkFailStep, WriteDoneStep,
     WriteStep, WriteHeadStep, SendChunkStep, FollowWildStep, DisposeStep, DisposeEndStep
     DEF Next

\* The invariant holds always.
THEOREM ChunkInvariant == Spec => []ChunkInv
  BY ChunkInitInv, ChunkStep, PTL DEF Spec

\* For chunks and writes of every size and every number of chunks that memory
\* has room for, the header's length and the bytes sent are those write() copied.
THEOREM ChunkLengthRight == Spec => []LengthRight
<1>1. ChunkInv => LengthRight
  <2> SUFFICES ASSUME ChunkInv, pc = "enum", at = Nullptr
               PROVE  sent = stored /\ length = Len(sent)
    BY DEF LengthRight
  <2>1. Filled /\ SentSoFar /\ sent \in Seq(Int) /\ stored \in Seq(Int)
    BY DEF ChunkInv, ChunkType, InUse
  <2>2. Len(sent) = Len(stored) /\ length = Len(sent)
    BY <2>1 DEF Filled, SentSoFar, Chunks, Nullptr
  <2>3. \A i \in 1 .. Len(sent) : sent[i] = stored[i]
    BY <2>1 DEF SentSoFar
  <2> QED
    BY <2>1, <2>2, <2>3
<1> QED
  BY <1>1, ChunkInvariant, PTL

\* A wild or a null pointer is followed only for a body longer than a chunk or
\* after a failed allocation.
THEOREM ChunkSmallBodySafe == Spec => []SmallBodySafe
<1>1. ChunkInv => SmallBodySafe
  BY DEF ChunkInv, SmallBodySafe
<1> QED
  BY <1>1, ChunkInvariant, PTL

\* A context that has ended, wherever its response failed, has no chunk left.
THEOREM ChunkAllFreed == Spec => []AllFreed
<1>1. ChunkInv => AllFreed
  BY DEF ChunkInv, AllFreed
<1> QED
  BY <1>1, ChunkInvariant, PTL

-----------------------------------------------------------------------------
(* Numbers and their text. *)

\* A non-empty set of numbers has a least element.
LEMMA LeastNat ==
  ASSUME NEW T \in SUBSET Nat, T # {}
  PROVE  \E x \in T : \A y \in T : x <= y
<1>1. \E x \in T : \A y \in T : ~(<<y, x>> \in OpToRel(<, Nat))
  BY NatLessThanWellFounded, WFMin, Zenon
<1>2. \A x, y \in Nat : y < x => <<y, x>> \in OpToRel(<, Nat)
  BY Zenon DEF OpToRel
<1>3. \E x \in T : \A y \in T : ~(y < x)
  <2>1. PICK x \in T : \A y \in T : ~(<<y, x>> \in OpToRel(<, Nat))
    BY <1>1, Zenon
  <2>2. x \in Nat /\ \A y \in T : y \in Nat
    OBVIOUS
  <2>3. \A y \in T : ~(y < x)
    BY <1>2, <2>1, <2>2, Zenon
  <2>4. QED
    BY <2>3
<1>4. QED
  BY <1>3

\* Induction up to n: a set that has 0, and with each number below n the next
\* one, has all of them.
LEMMA Climb ==
  ASSUME NEW n \in Nat, NEW T, 0 \in T, \A k \in 0 .. n - 1 : k \in T => k + 1 \in T
  PROVE  \A k \in 0 .. n : k \in T
<1> DEFINE U == {k \in 0 .. n : k \notin T}
<1> SUFFICES ASSUME U # {} PROVE FALSE
  OBVIOUS
<1>1. U \in SUBSET Nat
  OBVIOUS
<1>2. PICK x \in U : \A y \in U : x <= y
  BY <1>1, LeastNat, Zenon
<1>3. x \in 0 .. n /\ x \notin T /\ x # 0
  BY <1>2
<1>4. x - 1 \in 0 .. n - 1 /\ x - 1 \notin U
  BY <1>2, <1>3
<1>5. x - 1 \in T
  BY <1>3, <1>4
<1> QED BY <1>3, <1>4, <1>5


\* The recursion by which sums are defined has a solution.
LEMMA SumExists ==
  ASSUME NEW m \in Seq(Nat)
  PROVE  \E f \in [0 .. Len(m) -> Nat] :
           f = [n \in 0 .. Len(m) |-> IF n = 0 THEN 0 ELSE f[n - 1] + m[n]]
<1> DEFINE G(f, k) == \A n \in 0 .. k : f[n] = IF n = 0 THEN 0 ELSE f[n - 1] + m[n]
           T == {k \in 0 .. Len(m) : \E f \in [0 .. k -> Nat] : G(f, k)}
<1>0. Len(m) \in Nat
  OBVIOUS
<1>1. 0 \in T
  <2> DEFINE z == [n \in 0 .. 0 |-> 0]
  <2>1. z \in [0 .. 0 -> Nat] /\ G(z, 0)
    OBVIOUS
  <2>2. 0 \in 0 .. Len(m)
    BY <1>0
  <2> HIDE DEF z, G
  <2> QED BY <2>1, <2>2
<1>2. ASSUME NEW k \in 0 .. Len(m) - 1, k \in T PROVE k + 1 \in T
  <2>1. PICK f \in [0 .. k -> Nat] : G(f, k)
    BY <1>2
  <2> DEFINE g == [n \in 0 .. k + 1 |-> IF n = k + 1 THEN f[k] + m[k + 1] ELSE f[n]]
  <2>2. m[k + 1] \in Nat /\ f[k] \in Nat
    BY <1>0
  <2>3. g \in [0 .. k + 1 -> Nat]
    BY <2>2
  <2>4. G(g, k + 1)
    <3> SUFFICES ASSUME NEW n \in 0 .. k + 1
                 PROVE  g[n] = IF n = 0 THEN 0 ELSE g[n - 1] + m[n]
      OBVIOUS
    <3>1. CASE n = k + 1
      BY <3>1
    <3>2. CASE n # k + 1
      <4>1. n \in 0 .. k /\ f[n] = IF n = 0 THEN 0 ELSE f[n - 1] + m[n]
        BY <2>1, <3>2
      <4>2. g[n] = f[n] /\ (n # 0 => g[n - 1] = f[n - 1])
        BY <4>1
      <4> QED BY <4>1, <4>2
    <3> QED BY <3>1, <3>2
  <2> HIDE DEF g, G
  <2>5. k + 1 \in 0 .. Len(m)
    BY <1>0
  <2> QED BY <2>3, <2>4, <2>5
<1>3. Len(m) \in T
  <2> HIDE DEF T
  <2>1. \A k \in 0 .. Len(m) : k \in T
    BY <1>0, <1>1, <1>2, Climb
  <2> QED BY <1>0, <2>1
<1>4. PICK f \in [0 .. Len(m) -> Nat] : G(f, Len(m))
  BY <1>3
<1>5. f = [n \in 0 .. Len(m) |-> IF n = 0 THEN 0 ELSE f[n - 1] + m[n]]
  BY <1>4
<1> QED BY <1>5

\* SumTo follows its recursion.
LEMMA SumIs ==
  ASSUME NEW m \in Seq(Nat)
  PROVE  /\ SumTo(m)[0] = 0
         /\ \A n \in 1 .. Len(m) : SumTo(m)[n] = SumTo(m)[n - 1] + m[n]
<1> DEFINE E(f) == f = [n \in 0 .. Len(m) |-> IF n = 0 THEN 0 ELSE f[n - 1] + m[n]]
           w == SumTo(m)
<1>1. \E f : E(f)
  BY SumExists
<1>2. w = CHOOSE f : E(f)
  BY DEF SumTo
<1>3. E(w)
  <2> HIDE DEF E, w
  <2> QED BY <1>1, <1>2
<1> HIDE DEF w
<1>4. w[0] = 0 /\ \A n \in 1 .. Len(m) : w[n] = w[n - 1] + m[n]
  <2>1. Len(m) \in Nat
    OBVIOUS
  <2>2. w = [n \in 0 .. Len(m) |-> IF n = 0 THEN 0 ELSE w[n - 1] + m[n]]
    BY <1>3
  <2>3. \A n \in 0 .. Len(m) : w[n] = IF n = 0 THEN 0 ELSE w[n - 1] + m[n]
    BY <2>2
  <2> QED BY <2>1, <2>3
<1> QED BY <1>4 DEF w

\* A sum of natural numbers is one.
LEMMA SumTyped ==
  ASSUME NEW m \in Seq(Nat)
  PROVE  \A k \in 0 .. Len(m) : SumTo(m)[k] \in Nat
<1> DEFINE w == SumTo(m)
           T == {k \in 0 .. Len(m) : w[k] \in Nat}
<1>0. Len(m) \in Nat
  OBVIOUS
<1>1. w[0] = 0 /\ \A n \in 1 .. Len(m) : w[n] = w[n - 1] + m[n]
  BY SumIs
<1> HIDE DEF w
<1>2. 0 \in T
  BY <1>0, <1>1
<1>3. ASSUME NEW k \in 0 .. Len(m) - 1, k \in T PROVE k + 1 \in T
  <2>1. k + 1 \in 1 .. Len(m) /\ (k + 1) - 1 = k /\ m[k + 1] \in Nat /\ w[k] \in Nat
    BY <1>0, <1>3
  <2>2. w[k + 1] = w[k] + m[k + 1]
    BY <1>1, <2>1
  <2> QED BY <2>1, <2>2
<1>4. \A k \in 0 .. Len(m) : k \in T
  <2> HIDE DEF T
  <2> QED BY <1>0, <1>2, <1>3, Climb
<1> QED BY <1>4 DEF w

\* The first element can be taken out of a sum.
LEMMA SumTail ==
  ASSUME NEW m \in Seq(Nat), m # <<>>
  PROVE  SumTo(m)[Len(m)] = Head(m) + SumTo(Tail(m))[Len(Tail(m))]
<1> DEFINE e == Tail(m)
           w == SumTo(m)
           t == SumTo(e)
           T == {k \in 0 .. Len(e) : w[k + 1] = m[1] + t[k]}
<1>0. /\ Len(m) \in Nat /\ Len(m) >= 1 /\ e \in Seq(Nat)
      /\ Len(e) \in Nat /\ Len(e) = Len(m) - 1
      /\ Head(m) = m[1] /\ m[1] \in Nat /\ \A n \in 1 .. Len(e) : e[n] = m[n + 1]
  OBVIOUS
<1>1. w[0] = 0 /\ \A n \in 1 .. Len(m) : w[n] = w[n - 1] + m[n]
  BY SumIs
<1> HIDE DEF e
<1>2. t[0] = 0 /\ \A n \in 1 .. Len(e) : t[n] = t[n - 1] + e[n]
  BY <1>0, SumIs
<1>7. \A k \in 0 .. Len(e) : t[k] \in Nat
  BY <1>0, SumTyped
<1>8. \A n \in 1 .. Len(m) : m[n] \in Nat
  BY <1>0
<1> HIDE DEF w, t
<1>3. 0 \in T
  BY <1>0, <1>1, <1>2
<1>4. ASSUME NEW k \in 0 .. Len(e) - 1, k \in T PROVE k + 1 \in T
  <2>1. k + 1 \in 1 .. Len(e) /\ (k + 1) - 1 = k /\ k + 2 \in 1 .. Len(m) /\ (k + 2) - 1 = k + 1
        /\ (k + 1) + 1 = k + 2
    BY <1>0
  <2>2. w[k + 2] = w[k + 1] + m[k + 2] /\ t[k + 1] = t[k] + m[k + 2]
    BY <1>0, <1>1, <1>2, <2>1
  <2>3. t[k] \in Nat /\ m[k + 2] \in Nat /\ m[1] \in Nat
    BY <1>0, <1>7, <1>8, <2>1
  <2>4. w[k + 2] = m[1] + t[k + 1]
    BY <1>4, <2>2, <2>3
  <2> QED BY <1>0, <2>1, <2>4
<1>5. \A k \in 0 .. Len(e) : k \in T
  <2> HIDE DEF T
  <2> QED BY <1>0, <1>3, <1>4, Climb
<1>6. w[Len(e) + 1] = m[1] + t[Len(e)]
  BY <1>0, <1>5
<1> QED BY <1>0, <1>6 DEF w, t, e


\* The recursion by which powers are defined has a solution, and the powers
\* that it gives do not depend on how far it is followed.
LEMMA PowerIs ==
  ASSUME NEW b \in Nat, NEW n \in Nat
  PROVE  /\ Power(b, n) \in Nat
         /\ Power(b, 0) = 1
         /\ Power(b, n + 1) = b * Power(b, n)
<1> DEFINE Rec(f, k) == f = [j \in 0 .. k |-> IF j = 0 THEN 1 ELSE b * f[j - 1]]
           Good(f, k) == \A j \in 0 .. k : f[j] = IF j = 0 THEN 1 ELSE b * f[j - 1]
           To(k) == CHOOSE f : Rec(f, k)
<1>1. \A k \in Nat : \E f : Rec(f, k)
  <2> SUFFICES ASSUME NEW m \in Nat PROVE \E f : Rec(f, m)
    OBVIOUS
  <2> DEFINE T == {k \in 0 .. m : \E f \in [0 .. k -> Nat] : Good(f, k)}
  <2>1. 0 \in T
    <3> DEFINE z == [j \in 0 .. 0 |-> 1]
    <3>1. z \in [0 .. 0 -> Nat] /\ Good(z, 0)
      OBVIOUS
    <3>2. 0 \in 0 .. m
      OBVIOUS
    <3> HIDE DEF z, Good
    <3> QED BY <3>1, <3>2
  <2>2. ASSUME NEW k \in 0 .. m - 1, k \in T PROVE k + 1 \in T
    <3>1. PICK f \in [0 .. k -> Nat] : Good(f, k)
      BY <2>2
    <3> DEFINE g == [j \in 0 .. k + 1 |-> IF j = k + 1 THEN b * f[k] ELSE f[j]]
    <3>2. b * f[k] \in Nat
      <4>1. f[k] \in Nat
        OBVIOUS
      <4>2. \A x, y \in Nat : x * y \in Nat
        OBVIOUS
      <4> QED BY <4>1, <4>2
    <3>3. g \in [0 .. k + 1 -> Nat]
      BY <3>2
    <3>4. Good(g, k + 1)
      <4> SUFFICES ASSUME NEW j \in 0 .. k + 1
                   PROVE  g[j] = IF j = 0 THEN 1 ELSE b * g[j - 1]
        OBVIOUS
      <4>1. CASE j = k + 1
        BY <4>1
      <4>2. CASE j # k + 1
        <5>1. j \in 0 .. k /\ f[j] = IF j = 0 THEN 1 ELSE b * f[j - 1]
          BY <3>1, <4>2
        <5>2. g[j] = f[j] /\ (j # 0 => g[j - 1] = f[j - 1])
          BY <5>1
        <5> QED BY <5>1, <5>2
      <4> QED BY <4>1, <4>2
    <3> HIDE DEF g, Good
    <3>5. k + 1 \in 0 .. m
      OBVIOUS
    <3> QED BY <3>3, <3>4, <3>5
  <2>3. m \in T
    <3> HIDE DEF T
    <3>1. \A k \in 0 .. m : k \in T
      BY <2>1, <2>2, Climb
    <3> QED BY <3>1
  <2>4. PICK f \in [0 .. m -> Nat] : Good(f, m)
    BY <2>3
  <2>5. Rec(f, m)
    BY <2>4
  <2> QED BY <2>5
<1>2. \A k \in Nat : Rec(To(k), k)
  <2> HIDE DEF Rec
  <2> QED BY <1>1
<1>3. \A k \in Nat : Power(b, k) = To(k)[k]
  BY DEF Power
<1> HIDE DEF To
<1>4. \A k \in Nat : \A j \in 0 .. k : To(k)[j] = IF j = 0 THEN 1 ELSE b * To(k)[j - 1]
  BY <1>2
<1> HIDE DEF Rec, Good
<1>5. \A k \in Nat : To(k)[0] = 1 /\ \A j \in 0 .. k - 1 : To(k)[j + 1] = b * To(k)[j]
  <2> SUFFICES ASSUME NEW k \in Nat
               PROVE  To(k)[0] = 1 /\ \A j \in 0 .. k - 1 : To(k)[j + 1] = b * To(k)[j]
    OBVIOUS
  <2>1. To(k)[0] = 1
    BY <1>4
  <2>2. ASSUME NEW j \in 0 .. k - 1 PROVE To(k)[j + 1] = b * To(k)[j]
    <3>1. j + 1 \in 0 .. k /\ j + 1 # 0 /\ (j + 1) - 1 = j
      OBVIOUS
    <3> QED BY <1>4, <3>1
  <2> QED BY <2>1, <2>2
<1>6. \A j \in 0 .. n : To(n + 1)[j] = To(n)[j]
  <2> DEFINE T == {j \in 0 .. n : To(n + 1)[j] = To(n)[j]}
  <2>1. 0 \in T
    BY <1>5
  <2>2. ASSUME NEW j \in 0 .. n - 1, j \in T PROVE j + 1 \in T
    <3>1. To(n + 1)[j + 1] = b * To(n + 1)[j] /\ To(n)[j + 1] = b * To(n)[j]
      BY <1>5
    <3> QED BY <2>2, <3>1
  <2>3. \A j \in 0 .. n : j \in T
    <3> HIDE DEF T
    <3> QED BY <2>1, <2>2, Climb
  <2> QED BY <2>3
<1>7. \A j \in 0 .. n : To(n)[j] \in Nat
  <2> DEFINE T == {j \in 0 .. n : To(n)[j] \in Nat}
  <2>1. 0 \in T
    BY <1>5
  <2>2. ASSUME NEW j \in 0 .. n - 1, j \in T PROVE j + 1 \in T
    <3>1. To(n)[j + 1] = b * To(n)[j] /\ To(n)[j] \in Nat
      BY <1>5, <2>2
    <3>2. \A x, y \in Nat : x * y \in Nat
      OBVIOUS
    <3>3. To(n)[j + 1] \in Nat
      BY <3>1, <3>2
    <3> QED BY <3>3
  <2>3. \A j \in 0 .. n : j \in T
    <3> HIDE DEF T
    <3> QED BY <2>1, <2>2, Climb
  <2> QED BY <2>3
<1>8. Power(b, n) \in Nat
  BY <1>3, <1>7
<1>9. Power(b, 0) = 1
  BY <1>3, <1>5
<1>10. Power(b, n + 1) = b * Power(b, n)
  <2>1. Power(b, n + 1) = To(n + 1)[n + 1] /\ Power(b, n) = To(n)[n]
    BY <1>3
  <2>2. To(n + 1)[n + 1] = b * To(n + 1)[n]
    BY <1>5
  <2>3. To(n + 1)[n] = To(n)[n]
    BY <1>6
  <2> QED BY <2>1, <2>2, <2>3
<1> QED BY <1>8, <1>9, <1>10

\* Powers are at least 1 and grow.
LEMMA PowerGrows ==
  ASSUME NEW b \in Nat, b >= 1, NEW n \in Nat
  PROVE  \A k \in 0 .. n : 1 <= Power(b, k) /\ Power(b, n - k) <= Power(b, n)
<1>1. \A k \in Nat : /\ Power(b, k) \in Nat /\ Power(b, 0) = 1
                     /\ Power(b, k + 1) = b * Power(b, k)
  BY PowerIs
<1>2. \A x, y \in Nat : x >= 1 => y <= x * y
  OBVIOUS
<1>3. \A k \in Nat : Power(b, k) <= Power(b, k + 1)
  BY <1>1, <1>2
<1> DEFINE T == {k \in 0 .. n : 1 <= Power(b, k)}
           U == {k \in 0 .. n : Power(b, n - k) <= Power(b, n)}
<1>4. \A k \in 0 .. n : k \in T
  <2>1. 0 \in T
    BY <1>1
  <2>2. ASSUME NEW k \in 0 .. n - 1, k \in T PROVE k + 1 \in T
    <3>1. Power(b, k) <= Power(b, k + 1) /\ Power(b, k) \in Nat /\ Power(b, k + 1) \in Nat
      BY <1>1, <1>3
    <3> QED BY <2>2, <3>1
  <2> HIDE DEF T
  <2> QED BY <2>1, <2>2, Climb
<1>5. \A k \in 0 .. n : k \in U
  <2>1. 0 \in U
    BY <1>1
  <2>2. ASSUME NEW k \in 0 .. n - 1, k \in U PROVE k + 1 \in U
    <3>1. n - (k + 1) \in Nat /\ (n - (k + 1)) + 1 = n - k /\ k + 1 \in 0 .. n
      OBVIOUS
    <3>2. /\ Power(b, n - (k + 1)) <= Power(b, n - k) /\ Power(b, n - k) \in Nat
          /\ Power(b, n - (k + 1)) \in Nat /\ Power(b, n) \in Nat
      BY <1>1, <1>3, <3>1
    <3>3. Power(b, n - k) <= Power(b, n)
      BY <2>2
    <3>4. Power(b, n - (k + 1)) <= Power(b, n)
      BY <3>2, <3>3
    <3> QED BY <3>1, <3>4
  <2> HIDE DEF U
  <2> QED BY <2>1, <2>2, Climb
<1> QED BY <1>4, <1>5

\* What the digits of a text are worth.
LEMMA WorthIs ==
  ASSUME NEW t \in Seq(Nat)
  PROVE  /\ Worth(t) \in Seq(Nat) /\ Len(Worth(t)) = Len(t)
         /\ \A j \in 1 .. Len(t) : Worth(t)[j] = t[j] * Power(10, Len(t) - j)
<1>1. \A j \in 1 .. Len(t) : t[j] * Power(10, Len(t) - j) \in Nat
  <2> SUFFICES ASSUME NEW j \in 1 .. Len(t) PROVE t[j] * Power(10, Len(t) - j) \in Nat
    OBVIOUS
  <2>1. t[j] \in Nat /\ Len(t) - j \in Nat
    OBVIOUS
  <2>2. Power(10, Len(t) - j) \in Nat
    BY <2>1, PowerIs
  <2>3. \A x, y \in Nat : x * y \in Nat
    OBVIOUS
  <2> QED BY <2>1, <2>2, <2>3
<1>2. Len(t) \in Nat
  OBVIOUS
<1> DEFINE W(j) == t[j] * Power(10, Len(t) - j)
<1>3. Worth(t) = [j \in 1 .. Len(t) |-> W(j)]
  BY DEF Worth
<1>4. \A j \in 1 .. Len(t) : W(j) \in Nat
  BY <1>1
<1> HIDE DEF W
<1>5. /\ Worth(t) \in Seq(Nat) /\ Len(Worth(t)) = Len(t)
      /\ \A j \in 1 .. Len(t) : Worth(t)[j] = W(j)
  BY <1>2, <1>3, <1>4
<1> QED BY <1>5 DEF W

\* One more character of a text.
LEMMA NumberNext ==
  ASSUME NEW t \in Seq(Nat)
  PROVE  /\ NumberTo(t)[0] = 0
         /\ \A k \in 0 .. Len(t) : NumberTo(t)[k] \in Nat
         /\ \A k \in 0 .. Len(t) - 1 :
              NumberTo(t)[k + 1] = NumberTo(t)[k] + t[k + 1] * Power(10, Len(t) - (k + 1))
<1>1. /\ Worth(t) \in Seq(Nat) /\ Len(Worth(t)) = Len(t)
      /\ \A j \in 1 .. Len(t) : Worth(t)[j] = t[j] * Power(10, Len(t) - j)
  BY WorthIs
<1>2. /\ NumberTo(t)[0] = 0
      /\ \A j \in 1 .. Len(t) : NumberTo(t)[j] = NumberTo(t)[j - 1] + Worth(t)[j]
  BY <1>1, SumIs DEF NumberTo
<1>3. \A k \in 0 .. Len(t) : NumberTo(t)[k] \in Nat
  BY <1>1, SumTyped DEF NumberTo
<1>4. ASSUME NEW k \in 0 .. Len(t) - 1
      PROVE  NumberTo(t)[k + 1] = NumberTo(t)[k] + t[k + 1] * Power(10, Len(t) - (k + 1))
  <2>1. k + 1 \in 1 .. Len(t) /\ (k + 1) - 1 = k
    OBVIOUS
  <2>2. NumberTo(t)[k + 1] = NumberTo(t)[k] + Worth(t)[k + 1]
    BY <1>2, <2>1
  <2>3. Worth(t)[k + 1] = t[k + 1] * Power(10, Len(t) - (k + 1))
    BY <1>1, <2>1
  <2> QED BY <2>2, <2>3
<1> QED BY <1>2, <1>3, <1>4

\* The number of a beginning is at most that of the text.
LEMMA NumberGrows ==
  ASSUME NEW t \in Seq(Nat)
  PROVE  Number(t) \in Nat /\ \A k \in 0 .. Len(t) : NumberTo(t)[k] <= Number(t)
<1> DEFINE n == Len(t)
           U == {k \in 0 .. n : NumberTo(t)[n - k] <= NumberTo(t)[n]}
<1>1. n \in Nat
  OBVIOUS
<1>2. \A k \in 0 .. n : NumberTo(t)[k] \in Nat
  BY NumberNext
<1>3. ASSUME NEW k \in 0 .. n - 1 PROVE NumberTo(t)[k] <= NumberTo(t)[k + 1]
  <2>1. k + 1 \in 1 .. n /\ t[k + 1] \in Nat /\ n - (k + 1) \in Nat
    BY <1>1
  <2>2. Power(10, n - (k + 1)) \in Nat
    BY <2>1, PowerIs
  <2>3. \A x, y \in Nat : x * y \in Nat
    OBVIOUS
  <2>4. t[k + 1] * Power(10, n - (k + 1)) \in Nat
    BY <2>1, <2>2, <2>3
  <2>5. NumberTo(t)[k + 1] = NumberTo(t)[k] + t[k + 1] * Power(10, n - (k + 1))
    BY NumberNext
  <2>6. NumberTo(t)[k] \in Nat
    BY <1>2
  <2> QED BY <2>4, <2>5, <2>6
<1> HIDE DEF n
<1>4. 0 \in U
  BY <1>1, <1>2
<1>5. ASSUME NEW k \in 0 .. n - 1, k \in U PROVE k + 1 \in U
  <2>1. n - (k + 1) \in 0 .. n - 1 /\ (n - (k + 1)) + 1 = n - k /\ k + 1 \in 0 .. n
        /\ n - k \in 0 .. n /\ n \in 0 .. n
    BY <1>1
  <2>2. NumberTo(t)[n - (k + 1)] <= NumberTo(t)[n - k]
    BY <1>3, <2>1
  <2>3. NumberTo(t)[n - (k + 1)] \in Nat /\ NumberTo(t)[n - k] \in Nat /\ NumberTo(t)[n] \in Nat
    BY <1>1, <1>2, <2>1
  <2>4. NumberTo(t)[n - (k + 1)] <= NumberTo(t)[n]
    BY <1>5, <2>2, <2>3
  <2> QED BY <2>1, <2>4
<1>6. \A k \in 0 .. n : k \in U
  <2> HIDE DEF U
  <2> QED BY <1>1, <1>4, <1>5, Climb
<1>7. ASSUME NEW k \in 0 .. n PROVE NumberTo(t)[k] <= NumberTo(t)[n]
  <2>1. n - k \in 0 .. n /\ n - (n - k) = k
    BY <1>1
  <2>2. NumberTo(t)[n - (n - k)] <= NumberTo(t)[n]
    BY <1>6, <2>1
  <2> QED BY <2>1, <2>2
<1> QED BY <1>1, <1>2, <1>7 DEF Number, n

\* Sequences are the same when their elements are.
LEMMA SameSeq ==
  ASSUME NEW a \in Seq(Nat), NEW b \in Seq(Nat), Len(a) = Len(b),
         \A j \in 1 .. Len(b) : a[j] = b[j]
  PROVE  a = b
  OBVIOUS

\* One more digit, which is copied in front of those made before it.
LEMMA ReversedAppend ==
  ASSUME NEW b \in Seq(Nat), NEW d \in Nat
  PROVE  /\ Reversed(b) \in Seq(Nat) /\ Len(Reversed(b)) = Len(b)
         /\ Reversed(Append(b, d)) \in Seq(Nat) /\ Len(Reversed(Append(b, d))) = Len(b) + 1
         /\ Head(Reversed(Append(b, d))) = d /\ Reversed(Append(b, d))[1] = d
         /\ Tail(Reversed(Append(b, d))) = Reversed(b)
         /\ Number(Reversed(Append(b, d))) = d * Power(10, Len(b)) + Number(Reversed(b))
<1> DEFINE e == Append(b, d)
           c == Reversed(b)
           t == Reversed(e)
           n == Len(b)
<1>1. /\ n \in Nat /\ e \in Seq(Nat) /\ Len(e) = n + 1 /\ e[n + 1] = d
      /\ \A j \in 1 .. n : e[j] = b[j]
  OBVIOUS
<1>2. /\ c \in Seq(Nat) /\ Len(c) = n /\ \A j \in 1 .. n : c[j] = b[n + 1 - j]
  BY DEF Reversed
<1> HIDE DEF e
<1>3. /\ t \in Seq(Nat) /\ Len(t) = n + 1 /\ \A j \in 1 .. n + 1 : t[j] = e[n + 2 - j]
  <2>1. t = [j \in 1 .. n + 1 |-> e[n + 2 - j]]
    <3>1. \A j \in 1 .. n + 1 : (n + 1) + 1 - j = n + 2 - j
      BY <1>1
    <3> QED BY <1>1, <3>1 DEF Reversed
  <2>2. \A j \in 1 .. n + 1 : e[n + 2 - j] \in Nat
    <3>1. \A j \in 1 .. n + 1 : n + 2 - j \in 1 .. n + 1
      BY <1>1
    <3> QED BY <1>1, <3>1
  <2> HIDE DEF t
  <2> QED BY <1>1, <2>1, <2>2
<1> HIDE DEF c, t, n
<1>4. t[1] = d /\ \A j \in 1 .. n : t[j + 1] = c[j]
  <2>1. t[1] = e[n + 1]
    BY <1>1, <1>3
  <2>2. ASSUME NEW j \in 1 .. n PROVE t[j + 1] = c[j]
    <3>1. j + 1 \in 1 .. n + 1 /\ n + 2 - (j + 1) = n + 1 - j /\ n + 1 - j \in 1 .. n
      BY <1>1
    <3>2. t[j + 1] = e[n + 2 - (j + 1)] /\ c[j] = b[n + 1 - j]
      BY <1>2, <1>3, <3>1
    <3>3. e[n + 1 - j] = b[n + 1 - j]
      BY <1>1, <3>1
    <3> QED BY <3>1, <3>2, <3>3
  <2> QED BY <1>1, <2>1, <2>2
<1>5. Head(t) = d /\ Tail(t) = c
  <2>1. t # <<>> /\ Head(t) = t[1]
    BY <1>1, <1>3
  <2>2. Tail(t) \in Seq(Nat) /\ Len(Tail(t)) = n /\ \A j \in 1 .. n : Tail(t)[j] = t[j + 1]
    BY <1>1, <1>3
  <2>3. \A j \in 1 .. n : Tail(t)[j] = c[j]
    BY <1>4, <2>2
  <2>4. Tail(t) = c
    BY <1>2, <2>2, <2>3, SameSeq
  <2> QED BY <1>4, <2>1, <2>4
<1> DEFINE a == Worth(t)
           v == Worth(c)
<1>6. /\ a \in Seq(Nat) /\ Len(a) = n + 1
      /\ \A j \in 1 .. n + 1 : a[j] = t[j] * Power(10, (n + 1) - j)
  BY <1>3, WorthIs
<1>7. /\ v \in Seq(Nat) /\ Len(v) = n
      /\ \A j \in 1 .. n : v[j] = c[j] * Power(10, n - j)
  BY <1>2, WorthIs
<1> HIDE DEF a, v
<1>8. a # <<>> /\ Head(a) = d * Power(10, n)
  <2>1. a # <<>> /\ Head(a) = a[1] /\ 1 \in 1 .. n + 1 /\ (n + 1) - 1 = n
    BY <1>1, <1>6
  <2> QED BY <1>4, <1>6, <2>1
<1>9. Tail(a) = v
  <2>1. Tail(a) \in Seq(Nat) /\ Len(Tail(a)) = n /\ \A j \in 1 .. n : Tail(a)[j] = a[j + 1]
    BY <1>1, <1>6, <1>8
  <2>2. ASSUME NEW j \in 1 .. n PROVE a[j + 1] = v[j]
    <3>1. j + 1 \in 1 .. n + 1 /\ (n + 1) - (j + 1) = n - j
      BY <1>1
    <3> QED BY <1>4, <1>6, <1>7, <3>1
  <2>3. \A j \in 1 .. n : Tail(a)[j] = v[j]
    BY <2>1, <2>2
  <2> QED BY <1>7, <2>1, <2>3, SameSeq
<1>10. Number(t) = SumTo(a)[Len(a)] /\ Number(c) = SumTo(v)[Len(v)]
  BY <1>2, <1>3, <1>6, <1>7 DEF Number, NumberTo, a, v
<1>11. SumTo(a)[Len(a)] = Head(a) + SumTo(Tail(a))[Len(Tail(a))]
  BY <1>6, <1>8, SumTail
<1>12. Number(t) = d * Power(10, n) + Number(c)
  BY <1>8, <1>9, <1>10, <1>11
<1> QED BY <1>2, <1>3, <1>4, <1>5, <1>12 DEF c, t, n, e

\* Quotient and remainder.
LEMMA DivMod ==
  ASSUME NEW m \in Nat, m > 0, NEW v \in Nat
  PROVE  \E d \in Nat, z \in 0 .. m - 1 : v = m * d + z /\ v % m = z /\ v \div m = d
<1> DEFINE d == v \div m
           z == v % m
<1>1. d \in Int /\ z \in 0 .. m - 1
  OBVIOUS
<1>2. z = v - m * d
  OBVIOUS
<1>3. v % m = z /\ v \div m = d
  OBVIOUS
<1> HIDE DEF d, z
<1>4. m * d \in Int
  BY <1>1
<1>5. v = m * d + z
  BY <1>1, <1>2, <1>4
<1>6. d \in Nat
  <2> SUFFICES ASSUME d < 0 PROVE FALSE
    BY <1>1
  <2>1. m * d <= m * (-1)
    BY <1>1
  <2> QED BY <1>1, <1>4, <1>5, <2>1
<1> QED BY <1>1, <1>3, <1>5, <1>6

\* A remainder is what is left when a multiple is taken away.
LEMMA ModOf ==
  ASSUME NEW m \in Nat, m > 0, NEW q \in Nat, NEW x \in 0 .. m - 1
  PROVE  (m * q + x) % m = x
<1>1. m * q \in Nat
  OBVIOUS
<1>2. m * q + x \in Nat
  BY <1>1
<1>3. PICK y \in Nat : y = m * q + x
  BY <1>2
<1>4. PICK d \in Nat, z \in 0 .. m - 1 : y = m * d + z /\ y % m = z
  BY DivMod
<1>5. ASSUME NEW i \in Nat, NEW j \in Nat, i < j PROVE m * i + m <= m * j
  <2>1. PICK k \in Nat : j = i + 1 + k
    <3>1. j - i - 1 \in Nat /\ j = i + 1 + (j - i - 1)
      BY <1>5
    <3> QED BY <3>1
  <2>2. m * j = m * i + m + m * k
    BY <2>1
  <2>3. m * k \in Nat /\ m * i \in Nat
    OBVIOUS
  <2> QED BY <2>2, <2>3
<1>6. ~(d < q) /\ ~(q < d)
  <2>1. m * d \in Nat /\ m * q \in Nat
    BY <1>4
  <2>2. d < q => m * d + m <= m * q
    BY <1>4, <1>5
  <2>3. q < d => m * q + m <= m * d
    BY <1>4, <1>5
  <2> QED BY <1>3, <1>4, <2>1, <2>2, <2>3
<1>7. d = q
  BY <1>4, <1>6
<1>8. z = x
  BY <1>1, <1>3, <1>4, <1>7
<1> QED BY <1>3, <1>4, <1>8

\* Wrapping at each digit comes to the same as wrapping at the end.
LEMMA ModNext ==
  ASSUME NEW m \in Nat, m > 0, NEW u \in Nat, NEW x \in Nat
  PROVE  ((u % m) * 10 + x) % m = (u * 10 + x) % m
<1>1. PICK q \in Nat, w \in 0 .. m - 1 : u = m * q + w /\ u % m = w
  BY DivMod
<1>2. PICK h \in Nat, y \in 0 .. m - 1 : w * 10 + x = m * h + y
  <2>1. w * 10 + x \in Nat
    OBVIOUS
  <2>2. PICK v \in Nat : v = w * 10 + x
    BY <2>1
  <2>3. \E h \in Nat, y \in 0 .. m - 1 : v = m * h + y
    BY DivMod
  <2> QED BY <2>2, <2>3
<1>3. u * 10 + x = m * (q * 10 + h) + y
  <2>1. u * 10 + x = (m * q) * 10 + (w * 10 + x)
    <3>1. m * q \in Nat
      OBVIOUS
    <3> QED BY <1>1, <3>1
  <2>2. (m * q) * 10 + m * h = m * (q * 10 + h)
    OBVIOUS
  <2>3. (m * q) * 10 \in Nat /\ m * h \in Nat
    <3>1. m * q \in Nat /\ m * h \in Nat
      OBVIOUS
    <3> QED BY <3>1
  <2> QED BY <1>2, <2>1, <2>2, <2>3
<1>4. q * 10 + h \in Nat
  OBVIOUS
<1>5. (m * h + y) % m = y
  BY ModOf
<1>6. (m * (q * 10 + h) + y) % m = y
  BY <1>4, ModOf
<1> QED BY <1>1, <1>2, <1>3, <1>5, <1>6

\* The operators depend on their arguments only.
LEMMA NumberPrimed ==
  /\ Number(Reversed(buf))' = Number(Reversed(buf'))
  /\ Power(10, Len(buf))' = Power(10, Len(buf'))
  /\ Number(text)' = Number(text')
  /\ Power(10, Len(text) - p)' = Power(10, Len(text') - p')
  /\ (NumberTo(text)[p])' = NumberTo(text')[p']
  BY DEF Number, NumberTo, SumTo, Worth, Reversed, Power

\* The ranges of the integers.
LEMMA Ranges ==
  /\ Values \in Nat /\ Values > 0 /\ Values <= Power(10, Digits) /\ Digits \in Nat /\ Digits > 0
  /\ MaxInt \in Nat /\ MaxInt < Values /\ MinInt = -(MaxInt + 1) /\ MinInt \in Int
  /\ \A k \in {"Int32", "UInt32"} : \A x \in Numbers(k) :
       x \in Int /\ x < Values /\ (k = "Int32" => x <= MaxInt /\ MinInt <= x)
                 /\ (k = "UInt32" => x >= 0)
<1>1. Bits \in Nat /\ Bits > 0 /\ Digits \in Nat /\ Digits > 0 /\ Values <= Power(10, Digits)
  BY NumberAssumption
<1>2. Bits - 1 \in Nat /\ (Bits - 1) + 1 = Bits
  BY <1>1
<1>3. Power(2, Bits - 1) \in Nat /\ Power(2, (Bits - 1) + 1) = 2 * Power(2, Bits - 1)
  BY <1>2, PowerIs
<1>4. 1 <= Power(2, Bits - 1)
  <2>1. Bits - 1 \in 0 .. Bits - 1 /\ 2 \in Nat /\ 2 >= 1
    BY <1>2
  <2> QED BY <1>2, <2>1, PowerGrows
<1>5. Values = 2 * Power(2, Bits - 1)
  BY <1>2, <1>3 DEF Values
<1>6. /\ Values \in Nat /\ Values > 0 /\ MaxInt \in Nat /\ MaxInt < Values
      /\ MinInt = -(MaxInt + 1) /\ MinInt \in Int
  BY <1>3, <1>4, <1>5 DEF MaxInt, MinInt
<1>7. \A k \in {"Int32", "UInt32"} : \A x \in Numbers(k) :
        x \in Int /\ x < Values /\ (k = "Int32" => x <= MaxInt /\ MinInt <= x)
                  /\ (k = "UInt32" => x >= 0)
  <2>1. Numbers("Int32") = MinInt .. MaxInt /\ Numbers("UInt32") = 0 .. Values - 1
    BY DEF Numbers
  <2> QED BY <1>6, <2>1
<1> QED BY <1>1, <1>6, <1>7

\* The digits that to_string makes are natural numbers, and those of no digit 0.
LEMMA BufNumber ==
  ASSUME TextTypes
  PROVE  /\ buf \in Seq(Nat) /\ text \in Seq(Nat)
         /\ Len(buf) \in Nat /\ Reversed(buf) \in Seq(Nat) /\ Len(Reversed(buf)) = Len(buf)
         /\ Number(Reversed(buf)) \in Nat /\ Number(text) \in Nat
         /\ buf = <<>> => Number(Reversed(buf)) = 0
<1>1. buf \in Seq(Nat) /\ text \in Seq(Nat) /\ Len(buf) \in Nat
  BY DEF TextTypes, Chars, Other
<1>2. Reversed(buf) \in Seq(Nat) /\ Len(Reversed(buf)) = Len(buf)
  BY <1>1, ReversedAppend
<1>3. Number(Reversed(buf)) \in Nat /\ Number(text) \in Nat
  BY <1>1, <1>2, NumberGrows
<1>4. ASSUME buf = <<>> PROVE Number(Reversed(buf)) = 0
  <2>1. Len(Reversed(buf)) = 0
    BY <1>2, <1>4
  <2> QED BY <1>2, <2>1, NumberNext DEF Number
<1> QED BY <1>1, <1>2, <1>3, <1>4

\* A turn of to_string's loop.
LEMMA DigitStep == TextInv /\ Digit => TextInv'
<1> SUFFICES ASSUME TextInv, Digit PROVE TextInv'
  OBVIOUS
<1>0. PICK b, n, v, a, d, q : /\ b = buf /\ n = Len(buf) /\ v = value /\ a = Amount
                              /\ d = value % 10 /\ q = value \div 10
  OBVIOUS
<1>1. /\ step = "digits" /\ buf' = Append(b, d) /\ value' = q
      /\ step' = IF q = 0 THEN "fit" ELSE "digits"
      /\ UNCHANGED <<kind, made, input, text, p, r>>
  BY <1>0 DEF Digit
<1>2. v \in Nat /\ d \in 0 .. 9 /\ q \in Nat /\ v = 10 * q + d
  BY <1>0 DEF TextInv, TextTypes
<1>3. /\ b \in Seq(Nat) /\ n \in Nat /\ Number(Reversed(b)) \in Nat /\ n = Len(b)
      /\ b = <<>> => Number(Reversed(b)) = 0
  BY <1>0, BufNumber DEF TextInv
<1>4. /\ input \in Numbers(kind) /\ a \in Numbers(kind)
      /\ v * Power(10, n) + Number(Reversed(b)) = a /\ (b # <<>> => v # 0)
  BY <1>0, <1>1 DEF TextInv, DigitsInv
<1>5. Power(10, n) \in Nat /\ Power(10, n + 1) = 10 * Power(10, n) /\ Power(10, 0) = 1
  BY <1>3, PowerIs
<1>6. Number(Reversed(Append(b, d))) = d * Power(10, n) + Number(Reversed(b))
  BY <1>2, <1>3, ReversedAppend
<1>7. q * Power(10, n + 1) + Number(Reversed(Append(b, d))) = a
  <2>1. \A x, y, z, w \in Nat : x * (10 * y) + (z * y + w) = (10 * x + z) * y + w
    OBVIOUS
  <2> QED BY <1>2, <1>3, <1>4, <1>5, <1>6, <2>1
<1>8. a \in Int /\ a < Values /\ a' = a /\ Amount' = a /\ a >= 0
  <2>1. a \in Int /\ a < Values
    BY <1>4, Ranges DEF TextInv, TextTypes
  <2>2. Amount' = a
    BY <1>0, <1>1 DEF Amount
  <2>3. a >= 0
    BY <1>0 DEF Amount, TextInv, TextTypes
  <2> QED BY <2>1, <2>2, <2>3
<1>9. /\ Append(b, d) \in Seq(0 .. 9) /\ Len(Append(b, d)) = n + 1
      /\ Append(b, d) # <<>> /\ Append(b, d)[n + 1] = d
  <2>1. b \in Seq(0 .. 9) /\ n = Len(b)
    BY <1>0 DEF TextInv, TextTypes
  <2>2. Append(b, d) \in Seq(0 .. 9) /\ Len(Append(b, d)) = n + 1 /\ Append(b, d)[n + 1] = d
    BY <1>2, <2>1
  <2> QED BY <1>3, <2>2
<1>10. TextTypes'
  BY <1>1, <1>2, <1>9 DEF TextInv, TextTypes
<1>11. MadeInv' /\ DigitsInv'
  <2>1. CASE q = 0
    <3>1. step' = "fit" /\ v = d /\ v \in Nat
      BY <1>1, <1>2, <2>1
    <3>2. Number(Reversed(Append(b, d))) = a
      <4>1. 0 * Power(10, n + 1) = 0
        BY <1>5
      <4>2. Number(Reversed(Append(b, d))) \in Nat
        <5>1. Append(b, d) \in Seq(Nat)
          BY <1>2, <1>3
        <5>2. Reversed(Append(b, d)) \in Seq(Nat)
          BY <1>2, <1>3, ReversedAppend
        <5> QED BY <5>2, NumberGrows
      <4> QED BY <1>7, <2>1, <4>1, <4>2
    <3>3. n + 1 <= Digits
      <4>1. CASE n = 0
        BY <4>1, Ranges
      <4>2. CASE n > 0
        <5>1. v >= 1
          <6>1. b # <<>>
            BY <1>3, <4>2
          <6> QED BY <1>2, <1>4, <6>1
        <5>2. Power(10, n) <= v * Power(10, n) /\ v * Power(10, n) \in Nat
          <6>1. \A x, y \in Nat : x >= 1 => y <= x * y /\ x * y \in Nat
            OBVIOUS
          <6> QED BY <1>2, <1>5, <5>1, <6>1
        <5>3. Power(10, n) < Power(10, Digits)
          <6>1. Power(10, Digits) \in Nat
            BY Ranges, PowerIs
          <6> QED BY <1>3, <1>4, <1>5, <1>8, <5>2, <6>1, Ranges
        <5>4. ASSUME n >= Digits PROVE FALSE
          <6>1. n - Digits \in 0 .. n /\ n - (n - Digits) = Digits
            BY <1>3, <5>4, Ranges
          <6>2. Power(10, n - (n - Digits)) <= Power(10, n)
            BY <1>3, <6>1, PowerGrows
          <6>3. Power(10, Digits) \in Nat
            BY Ranges, PowerIs
          <6> QED BY <1>5, <5>3, <6>1, <6>2, <6>3
        <5> QED BY <1>3, <5>4, Ranges
      <4> QED BY <1>3, <4>1, <4>2
    <3>4. a # 0 => d # 0
      <4>1. CASE b # <<>>
        BY <1>4, <3>1, <4>1
      <4>2. CASE b = <<>>
        <5>1. n = 0 /\ Number(Reversed(b)) = 0
          BY <1>3, <4>2
        <5>2. v * 1 + 0 = a
          BY <1>4, <1>5, <5>1
        <5> QED BY <1>2, <3>1, <5>2
      <4> QED BY <4>1, <4>2
    <3>5. Complete'
      BY <1>1, <1>4, <1>8, <1>9, <3>2, <3>3, <3>4, NumberPrimed DEF Complete, Numbers
    <3> QED BY <3>1, <3>5 DEF MadeInv, DigitsInv
  <2>2. CASE q # 0
    <3>1. step' = "digits"
      BY <1>1, <2>2
    <3>2. value' * Power(10, Len(buf'))  + Number(Reversed(buf')) = Amount'
      BY <1>1, <1>7, <1>8, <1>9
    <3>3. {input, Amount}' \subseteq Numbers(kind)'
      BY <1>1, <1>4, <1>8 DEF Numbers
    <3>4. DigitsInv'
      BY <1>1, <2>2, <3>2, <3>3, NumberPrimed DEF DigitsInv
    <3> QED BY <3>1, <3>4 DEF MadeInv
  <2> QED BY <2>1, <2>2
<1>12. ReadInv' /\ EndInv'
  BY <1>1 DEF ReadInv, EndInv
<1> QED BY <1>10, <1>11, <1>12 DEF TextInv

\* parse begins with nothing read.
LEMMA ReadBegins ==
  ASSUME text' \in Seq(Nat), p' = 0, r' = 0
  PROVE  ReadInv'
<1>1. Len(text') \in Nat
  OBVIOUS
<1>2. Number(text') \in Nat
  BY NumberGrows
<1>3. NumberTo(text')[0] = 0
  BY NumberNext
<1>4. Power(10, Len(text')) \in Nat
  BY <1>1, PowerIs
<1>5. 0 % Values = 0
  <2>1. Values * 0 + 0 = 0 /\ 0 \in 0 .. Values - 1
    BY Ranges
  <2>2. (Values * 0 + 0) % Values = 0
    BY <2>1, Ranges, ModOf
  <2> QED BY <2>1, <2>2
<1>6. Len(text') - p' = Len(text') /\ 0 * Power(10, Len(text')) = 0
  BY <1>1, <1>4
<1>7. /\ 0 \in 0 .. Number(text')
      /\ 0 * Power(10, Len(text') - p') = NumberTo(text')[p']
      /\ kind' = "UInt32" => r' = 0 % Values
      /\ kind' = "Int32" => r' = 0 /\ 0 <= MaxInt
  BY <1>2, <1>3, <1>5, <1>6, Ranges
<1> QED BY <1>7, NumberPrimed DEF ReadInv

\* to_string or parse is called.
LEMMA CallStep == TextInv /\ Call => TextInv'
<1> SUFFICES ASSUME TextInv, Call PROVE TextInv'
  OBVIOUS
<1>1. /\ step = "idle" /\ made = FALSE /\ buf = <<>> /\ text = <<>> /\ p = 0 /\ r = 0
      /\ kind' \in {"Int32", "UInt32"} /\ UNCHANGED <<buf, p, r>>
  BY DEF TextInv, TextTypes, Call
<1>2. CASE /\ made' = TRUE /\ input' \in Numbers(kind')
           /\ value' = IF input' < 0 THEN -input' ELSE input'
           /\ step' = IF value' \in Numbers(kind') THEN "digits" ELSE "undefined"
           /\ text' = text
  <2>1. /\ input' \in Int /\ value' \in Nat /\ Amount' = value'
        /\ kind' = "Int32" => MinInt <= input' /\ input' <= MaxInt
        /\ kind' = "UInt32" => input' >= 0
    BY <1>1, <1>2, Ranges DEF Amount
  <2>2. TextTypes'
    BY <1>1, <1>2, <2>1 DEF TextInv, TextTypes
  <2>3. CASE value' \in Numbers(kind')
    <3>1. step' = "digits"
      BY <1>2, <2>3
    <3>2. Number(Reversed(buf')) = 0 /\ Len(buf') = 0
      BY <1>1, BufNumber DEF TextInv
    <3>3. Power(10, 0) = 1
      BY PowerIs
    <3>4. value' * Power(10, Len(buf')) + Number(Reversed(buf')) = Amount'
      BY <2>1, <3>2, <3>3
    <3>5. {input, Amount}' \subseteq Numbers(kind)'
      BY <1>2, <2>1, <2>3 DEF Numbers
    <3>6. DigitsInv'
      BY <1>1, <3>4, <3>5, NumberPrimed DEF DigitsInv
    <3> QED BY <2>2, <3>1, <3>6 DEF TextInv, MadeInv, ReadInv, EndInv
  <2>4. CASE value' \notin Numbers(kind')
    <3>1. step' = "undefined"
      BY <1>2, <2>4
    <3>2. input' = MinInt
      <4>1. Numbers("Int32") = MinInt .. MaxInt
        BY DEF Numbers
      <4>2. ASSUME kind' = "UInt32" PROVE FALSE
        BY <1>2, <2>1, <2>4, <4>2
      <4>3. kind' = "Int32"
        BY <1>1, <4>2
      <4> QED BY <1>2, <2>1, <2>4, <4>1, <4>3, Ranges
    <3> QED BY <2>2, <3>1, <3>2 DEF TextInv, DigitsInv, MadeInv, ReadInv, EndInv, MinInt, Power
  <2> QED BY <2>3, <2>4
<1>3. CASE /\ step' = "parse" /\ UNCHANGED <<made, input, value>>
           /\ text' \in UNION {[1 .. j -> Chars] : j \in 0 .. MaxText}
  <2>1. text' \in Seq(Chars)
    BY <1>3, NumberAssumption
  <2>2. TextTypes'
    BY <1>1, <1>3, <2>1 DEF TextInv, TextTypes
  <2>3. text' \in Seq(Nat)
    BY <2>1 DEF Chars, Other
  <2>4. ReadInv'
    BY <1>1, <2>3, ReadBegins
  <2> QED BY <1>1, <1>3, <2>2, <2>4 DEF TextInv, DigitsInv, MadeInv, EndInv
<1> QED BY <1>2, <1>3 DEF Call

\* The copied digits are those of the buffer, the last one first.
LEMMA CopyDigits ==
  ASSUME NEW S, NEW b \in Seq(S)
  PROVE  /\ Reversed(b) \in Seq(S) /\ Len(Reversed(b)) = Len(b)
         /\ \A j \in 1 .. Len(b) : Reversed(b)[j] \in S
         /\ b # <<>> => Reversed(b) # <<>> /\ Head(Reversed(b)) = b[Len(b)] /\ Reversed(b)[1] = b[Len(b)]
<1>1. Len(b) \in Nat /\ \A j \in 1 .. Len(b) : Len(b) + 1 - j \in 1 .. Len(b)
  OBVIOUS
<1>2. /\ Reversed(b) \in Seq(S) /\ Len(Reversed(b)) = Len(b)
      /\ \A j \in 1 .. Len(b) : Reversed(b)[j] = b[Len(b) + 1 - j]
  BY <1>1 DEF Reversed
<1>3. \A j \in 1 .. Len(b) : Reversed(b)[j] \in S
  BY <1>1, <1>2
<1>4. ASSUME b # <<>>
      PROVE  Reversed(b) # <<>> /\ Head(Reversed(b)) = b[Len(b)] /\ Reversed(b)[1] = b[Len(b)]
  <2>1. 1 \in 1 .. Len(b) /\ Len(b) + 1 - 1 = Len(b) /\ Len(b) > 0
    BY <1>1, <1>4
  <2>2. Reversed(b)[1] = b[Len(b)]
    BY <1>2, <2>1
  <2>3. Reversed(b) # <<>> /\ Head(Reversed(b)) = Reversed(b)[1]
    BY <1>2, <2>1
  <2> QED BY <2>2, <2>3
<1> QED BY <1>2, <1>3, <1>4

\* The length is checked, and the text is put together.
LEMMA FitStep == TextInv /\ Fit => TextInv'
<1> SUFFICES ASSUME TextInv, Fit PROVE TextInv'
  OBVIOUS
<1>1. step = "fit" /\ Complete /\ UNCHANGED <<kind, made, input, value, buf, p, r>>
  BY DEF TextInv, MadeInv, Fit
<1>2. /\ text = <<>> /\ p = 0 /\ r = 0 /\ buf \in Seq(0 .. 9) /\ kind \in {"Int32", "UInt32"}
  BY <1>1 DEF TextInv, TextTypes
<1>3. Len(buf) \in Nat /\ Len(buf) <= kMaxStringLength
  BY <1>1, <1>2, Ranges DEF Complete, kMaxStringLength
<1> DEFINE e == IF input < 0 THEN Append(buf, Minus) ELSE buf
<1>4. step' = "parse" /\ text' = Reversed(e)
  <2>1. ~(Len(buf) > kMaxStringLength)
    <3>1. kMaxStringLength \in Nat
      BY <1>2, Ranges DEF kMaxStringLength
    <3> QED BY <1>3, <3>1
  <2> QED BY <2>1 DEF Fit
<1>5. e \in Seq(Chars)
  <2>1. buf \in Seq(Chars) /\ Minus \in Chars
    BY <1>2 DEF Chars, Minus, Other
  <2> QED BY <2>1
<1> HIDE DEF e
<1>6. text' \in Seq(Chars)
  BY <1>4, <1>5, CopyDigits
<1>7. text' \in Seq(Nat)
  BY <1>6 DEF Chars, Other
<1>8. ReadInv'
  BY <1>1, <1>2, <1>7, ReadBegins
<1>9. TextTypes'
  BY <1>1, <1>2, <1>4, <1>6 DEF TextInv, TextTypes
<1>10. Complete'
  <2>1. Amount' = Amount /\ Numbers(kind)' = Numbers(kind)
    BY <1>1 DEF Amount, Numbers
  <2> QED BY <1>1, <2>1, NumberPrimed DEF Complete
<1>11. MadeInv'
  <2>1. text' = Reversed(IF input < 0 THEN Append(buf, Minus) ELSE buf)'
    BY <1>1, <1>4 DEF e, Reversed, Minus
  <2> QED BY <1>4, <1>10, <2>1 DEF MadeInv
<1> QED BY <1>4, <1>8, <1>9, <1>11 DEF TextInv, DigitsInv, EndInv

\* The text that to_string has made: a sign for a negative number, then the
\* digits of its amount.
LEMMA MadeText ==
  ASSUME TextInv, made = TRUE, step \in {"parse", "ok"}
  PROVE  /\ input \in Int /\ input \in Numbers(kind) /\ Amount \in Numbers(kind)
         /\ Reversed(buf) \in Seq(Nat) /\ Len(Reversed(buf)) = Len(buf) /\ Number(Reversed(buf)) = Amount
         /\ Len(buf) \in Nat /\ Len(buf) <= Digits /\ Reversed(buf) # <<>>
         /\ Head(Reversed(buf)) \in 0 .. 9 /\ (Amount # 0 => Head(Reversed(buf)) # 0)
         /\ input < 0 => /\ Tail(text) = Reversed(buf) /\ Len(text) = Len(buf) + 1
                         /\ text # <<>> /\ Head(text) = Minus /\ text[1] = Minus
         /\ ~(input < 0) => text = Reversed(buf) /\ \A j \in 1 .. Len(text) : text[j] <= 9
<1>1. /\ Complete /\ text = Reversed(IF input < 0 THEN Append(buf, Minus) ELSE buf)
      /\ buf \in Seq(0 .. 9) /\ input \in Int
  BY DEF TextInv, MadeInv, TextTypes
<1>2. /\ buf # <<>> /\ Number(Reversed(buf)) = Amount /\ Len(buf) <= Digits
      /\ Amount # 0 => buf[Len(buf)] # 0
      /\ input \in Numbers(kind) /\ Amount \in Numbers(kind)
  BY <1>1 DEF Complete
<1>3. /\ Reversed(buf) # <<>> /\ Head(Reversed(buf)) = buf[Len(buf)] /\ Len(Reversed(buf)) = Len(buf)
      /\ \A j \in 1 .. Len(buf) : Reversed(buf)[j] \in 0 .. 9
      /\ Reversed(buf)[1] = buf[Len(buf)]
  BY <1>1, <1>2, CopyDigits
<1>4. Len(buf) \in Nat /\ Len(buf) \in 1 .. Len(buf) /\ buf[Len(buf)] \in 0 .. 9
  BY <1>1, <1>2
<1>5. buf \in Seq(Nat) /\ Reversed(buf) \in Seq(Nat)
  BY BufNumber DEF TextInv
<1>6. ASSUME input < 0
      PROVE  /\ Tail(text) = Reversed(buf) /\ Len(text) = Len(buf) + 1
             /\ text # <<>> /\ Head(text) = Minus /\ text[1] = Minus
  <2>1. text = Reversed(Append(buf, Minus)) /\ Minus \in Nat
    BY <1>1, <1>6 DEF Minus
  <2>2. Tail(text) = Reversed(buf) /\ Len(text) = Len(buf) + 1 /\ Head(text) = Minus /\ text[1] = Minus
    BY <1>5, <2>1, ReversedAppend
  <2> QED BY <1>4, <2>2
<1>7. ASSUME ~(input < 0)
      PROVE  text = Reversed(buf) /\ \A j \in 1 .. Len(text) : text[j] <= 9
  <2>1. text = Reversed(buf)
    BY <1>1, <1>7
  <2> QED BY <1>3, <2>1
<1> QED BY <1>1, <1>2, <1>3, <1>4, <1>5, <1>6, <1>7

\* One more digit that parse has read.
LEMMA ReadDigit ==
  ASSUME TextTypes, ReadInv, step = "parse", p < Len(text), text[p + 1] <= 9
  PROVE  \E u \in 0 .. Number(text) :
           /\ u * Power(10, Len(text) - (p + 1)) = NumberTo(text)[p + 1]
           /\ kind = "UInt32" => (r * 10 + text[p + 1]) % Values = u % Values
           /\ kind = "Int32" => r * 10 + text[p + 1] = u
<1>0. PICK t, n, k, x : t = text /\ n = Len(text) /\ k = p /\ x = text[p + 1]
  OBVIOUS
<1>1. /\ t \in Seq(Nat) /\ n \in Nat /\ k \in 0 .. n - 1 /\ x \in Nat /\ r \in Nat /\ n = Len(t)
      /\ x = t[k + 1]
  <2>1. t \in Seq(Nat) /\ n = Len(t) /\ k \in 0 .. n /\ k < n /\ r \in Nat
    BY <1>0, BufNumber DEF TextTypes
  <2>2. n \in Nat /\ k + 1 \in 1 .. n
    BY <2>1
  <2> QED BY <1>0, <2>1, <2>2
<1>2. PICK u \in 0 .. Number(t) :
        /\ u * Power(10, n - k) = NumberTo(t)[k]
        /\ kind = "UInt32" => r = u % Values
        /\ kind = "Int32" => r = u
  BY <1>0 DEF ReadInv
<1>3. u \in Nat /\ Number(t) \in Nat
  BY <1>1, <1>2, NumberGrows
<1>4. n - (k + 1) \in Nat /\ (n - (k + 1)) + 1 = n - k /\ k + 1 \in 0 .. n
  BY <1>1
<1>5. PICK w \in Nat : w = Power(10, n - (k + 1)) /\ Power(10, n - k) = 10 * w /\ w >= 1
  <2>1. Power(10, n - (k + 1)) \in Nat /\ Power(10, n - k) = 10 * Power(10, n - (k + 1))
    BY <1>4, PowerIs
  <2>2. n - (k + 1) \in 0 .. n - (k + 1) /\ 10 \in Nat /\ 10 >= 1
    BY <1>4
  <2>3. 1 <= Power(10, n - (k + 1))
    BY <1>4, <2>2, PowerGrows
  <2> QED BY <2>1, <2>3
<1>6. NumberTo(t)[k + 1] = NumberTo(t)[k] + x * w
  BY <1>1, <1>5, NumberNext
<1>7. u * 10 + x \in Nat
  BY <1>1, <1>3
<1>8. (u * 10 + x) * w = NumberTo(t)[k + 1]
  <2>1. \A a, b, c \in Nat : (a * 10 + b) * c = a * (10 * c) + b * c
    OBVIOUS
  <2>2. (u * 10 + x) * w = u * (10 * w) + x * w
    BY <1>1, <1>3, <2>1
  <2> QED BY <1>2, <1>5, <1>6, <2>2
<1>9. u * 10 + x <= Number(t)
  <2>1. \A a, b \in Nat : b >= 1 => a <= a * b /\ a * b \in Nat
    OBVIOUS
  <2>2. u * 10 + x <= (u * 10 + x) * w /\ (u * 10 + x) * w \in Nat
    BY <1>5, <1>7, <2>1
  <2>3. NumberTo(t)[k + 1] <= Number(t)
    BY <1>1, <1>4, NumberGrows
  <2>4. PICK y \in Nat : y = (u * 10 + x) * w
    BY <2>2
  <2> QED BY <1>3, <1>7, <1>8, <2>2, <2>3, <2>4
<1>10. kind = "UInt32" => (r * 10 + x) % Values = (u * 10 + x) % Values
  <2>1. ((u % Values) * 10 + x) % Values = (u * 10 + x) % Values
    <3>1. Values \in Nat /\ Values > 0 /\ u \in Nat /\ x \in Nat
      BY <1>1, <1>3, Ranges
    <3> QED BY <3>1, ModNext
  <2> QED BY <1>2, <2>1
<1>11. PICK y \in 0 .. Number(t) : y = u * 10 + x
  BY <1>3, <1>7, <1>9
<1>12. /\ y * Power(10, n - (k + 1)) = NumberTo(t)[k + 1]
       /\ kind = "UInt32" => (r * 10 + x) % Values = y % Values
       /\ kind = "Int32" => r * 10 + x = y
  BY <1>2, <1>5, <1>8, <1>10, <1>11
<1> QED BY <1>0, <1>11, <1>12

\* A character is refused: it is not one that to_string has written for a
\* number that is not negative.
LEMMA RefuseStep ==
  ASSUME TextInv, step = "parse", p < Len(text), NoDigit(text[p + 1]), step' = "kEFormat",
         UNCHANGED <<kind, made, input, value, buf, text, p, r>>
  PROVE  TextInv'
<1>1. TextTypes'
  BY DEF TextInv, TextTypes
<1>2. text[p + 1] > 9 /\ p + 1 \in 1 .. Len(text)
  <2>1. p \in 0 .. Len(text) /\ Len(text) \in Nat
    BY DEF TextInv, TextTypes
  <2>2. text[p + 1] > 9
    BY DEF NoDigit, Minus, Other
  <2> QED BY <2>1, <2>2
<1>3. made = TRUE => input < 0
  <2> SUFFICES ASSUME made = TRUE, ~(input < 0) PROVE FALSE
    OBVIOUS
  <2>1. \A j \in 1 .. Len(text) : text[j] <= 9
    BY MadeText
  <2>2. text[p + 1] \in Nat
    <3>1. text \in Seq(Nat)
      BY BufNumber DEF TextInv
    <3> QED BY <1>2, <3>1
  <2> QED BY <1>2, <2>1, <2>2
<1>4. EndInv'
  BY <1>2, <1>3 DEF EndInv
<1> QED BY <1>1, <1>4 DEF TextInv, DigitsInv, MadeInv, ReadInv

\* A turn of parse's loop.
LEMMA ParseCharStep == TextInv /\ ParseChar => TextInv'
<1> SUFFICES ASSUME TextInv, ParseChar PROVE TextInv'
  OBVIOUS
<1>1. step = "parse" /\ p < Len(text) /\ UNCHANGED <<kind, made, input, value, buf, text>>
  BY DEF ParseChar
<1>2. CASE NoDigit(text[p + 1]) /\ step' = "kEFormat" /\ UNCHANGED <<p, r>>
  BY <1>1, <1>2, RefuseStep
<1>3. CASE /\ ~NoDigit(text[p + 1]) /\ p' = p + 1
           /\ IF kind = "UInt32"
              THEN r' = (r * 10 + text[p + 1]) % Values /\ step' = step
              ELSE /\ r' = r * 10 + text[p + 1]
                   /\ step' = IF r' > MaxInt THEN "undefined" ELSE step
  <2>1. /\ text \in Seq(Chars) /\ p \in 0 .. Len(text) /\ Len(text) \in Nat
        /\ kind \in {"Int32", "UInt32"} /\ r \in Nat
    BY DEF TextInv, TextTypes
  <2>2. p + 1 \in 1 .. Len(text) /\ text[p + 1] \in Chars
    BY <1>1, <2>1
  <2>3. text[p + 1] \in 0 .. 9
    BY <1>3, <2>2 DEF NoDigit, Chars, Minus, Other
  <2>4. PICK u \in 0 .. Number(text) :
          /\ u * Power(10, Len(text) - (p + 1)) = NumberTo(text)[p + 1]
          /\ kind = "UInt32" => (r * 10 + text[p + 1]) % Values = u % Values
          /\ kind = "Int32" => r * 10 + text[p + 1] = u
    BY <1>1, <2>3, ReadDigit DEF TextInv
  <2>5. Number(text) \in Nat /\ u \in Nat
    BY <2>4, BufNumber DEF TextInv
  <2>6. r' \in Nat
    <3>1. r * 10 + text[p + 1] \in Nat
      BY <2>1, <2>3
    <3>2. PICK y \in Nat : y = r * 10 + text[p + 1]
      BY <3>1
    <3>3. y % Values \in Nat
      BY Ranges
    <3> QED BY <1>3, <3>2, <3>3
  <2>7. \A j \in 1 .. p' : text'[j] <= 9
    <3>1. \A j \in 1 .. p : text[j] <= 9
      BY <1>1 DEF TextInv, ReadInv
    <3>2. \A j \in 1 .. p + 1 : j \in 1 .. p \/ j = p + 1
      BY <2>1
    <3> QED BY <1>1, <1>3, <2>3, <3>1, <3>2
  <2>8. CASE step' = "parse"
    <3>1. /\ kind' = "UInt32" => r' = u % Values
          /\ kind' = "Int32" => r' = u /\ u <= MaxInt
      <4>1. kind = "Int32" => ~(r' > MaxInt)
        BY <1>3, <2>8
      <4> QED BY <1>1, <1>3, <2>4, <2>6, <4>1, Ranges
    <3>2. u \in 0 .. Number(text)' /\ u * Power(10, Len(text) - p)' = (NumberTo(text)[p])'
      BY <1>1, <1>3, <2>4, NumberPrimed
    <3>3. ReadInv'
      BY <2>7, <3>1, <3>2 DEF ReadInv
    <3>4. MadeInv'
      <4>1. made = TRUE => Complete /\ text = Reversed(IF input < 0 THEN Append(buf, Minus) ELSE buf)
        BY <1>1 DEF TextInv, MadeInv
      <4>2. Complete => Complete'
        BY <1>1, NumberPrimed DEF Complete, Amount, Numbers
      <4>3. Reversed(IF input < 0 THEN Append(buf, Minus) ELSE buf)'
              = Reversed(IF input < 0 THEN Append(buf, Minus) ELSE buf)
        BY <1>1 DEF Reversed, Minus
      <4> QED BY <1>1, <2>8, <4>1, <4>2, <4>3 DEF MadeInv
    <3>5. TextTypes'
      BY <1>1, <1>3, <2>2, <2>6, <2>8 DEF TextInv, TextTypes
    <3> QED BY <2>8, <3>3, <3>4, <3>5 DEF TextInv, DigitsInv, EndInv
  <2>9. CASE step' = "undefined"
    <3>1. kind = "Int32" /\ r' > MaxInt /\ r' = u
      BY <1>1, <1>3, <2>1, <2>4, <2>9
    <3>2. ASSUME made = TRUE PROVE FALSE
      <4>1. CASE input < 0
        <5>1. text[1] = Minus
          BY <1>1, <3>2, <4>1, MadeText
        <5>2. text[1] <= 9
          <6>1. 1 \in 1 .. p + 1
            BY <2>1
          <6> QED BY <1>1, <1>3, <2>7, <6>1
        <5> QED BY <5>1, <5>2 DEF Minus
      <4>2. CASE ~(input < 0)
        <5>1. text = Reversed(buf) /\ Number(Reversed(buf)) = Amount /\ Amount \in Numbers(kind)
          BY <1>1, <3>2, <4>2, MadeText
        <5>2. Amount <= MaxInt /\ Amount \in Int
          BY <3>1, <5>1, Ranges
        <5>3. Number(text) <= MaxInt
          BY <5>1, <5>2
        <5> QED BY <2>4, <2>5, <3>1, <5>3, Ranges
      <4> QED BY <4>1, <4>2
    <3>3. TextTypes'
      BY <1>1, <1>3, <2>2, <2>6, <2>9 DEF TextInv, TextTypes
    <3>4. made' # TRUE
      BY <1>1, <3>2
    <3> QED BY <2>9, <3>3, <3>4 DEF TextInv, DigitsInv, MadeInv, ReadInv, EndInv
  <2> QED BY <1>1, <1>3, <2>8, <2>9
<1> QED BY <1>2, <1>3 DEF ParseChar

\* TextInv is inductive.
LEMMA TextStep == TextInv /\ [TextNext]_textVars => TextInv'
<1> SUFFICES ASSUME TextInv, [TextNext]_textVars PROVE TextInv'
  OBVIOUS
<1>1. ASSUME UNCHANGED <<kind, made, input, value, buf, text, p, r>>,
             \/ step' = step
             \/ step = "parse" /\ step' = "ok" /\ p = Len(text) /\ text # <<>>
      PROVE  TextInv'
  <2>1. TextTypes'
    BY <1>1 DEF TextInv, TextTypes
  <2>2. Amount' = Amount /\ Numbers(kind)' = Numbers(kind)
    BY <1>1 DEF Amount, Numbers
  <2>3. DigitsInv'
    BY <1>1, <2>2, NumberPrimed DEF TextInv, DigitsInv
  <2>4. Complete => Complete'
    BY <1>1, <2>2, NumberPrimed DEF Complete
  <2>5. Reversed(IF input < 0 THEN Append(buf, Minus) ELSE buf)'
          = Reversed(IF input < 0 THEN Append(buf, Minus) ELSE buf)
    BY <1>1 DEF Reversed, Minus
  <2>6. MadeInv'
    BY <1>1, <2>4, <2>5 DEF TextInv, MadeInv
  <2>7. ReadInv'
    BY <1>1, NumberPrimed DEF TextInv, ReadInv
  <2>8. EndInv'
    BY <1>1 DEF TextInv, EndInv
  <2> QED BY <2>1, <2>3, <2>6, <2>7, <2>8 DEF TextInv
<1>2. CASE Empty
  <2>1. /\ step = "parse" /\ text = <<>> /\ step' = "kEFormat"
        /\ UNCHANGED <<kind, made, input, value, buf, text, p, r>>
    BY <1>2 DEF Empty
  <2>2. TextTypes'
    BY <2>1 DEF TextInv, TextTypes
  <2>3. made = TRUE => FALSE
    <3> SUFFICES ASSUME made = TRUE PROVE FALSE
      OBVIOUS
    <3>1. \/ input < 0 /\ text # <<>>
          \/ text = Reversed(buf) /\ Reversed(buf) # <<>>
      BY <2>1, MadeText
    <3> QED BY <2>1, <3>1
  <2> QED BY <2>1, <2>2, <2>3 DEF TextInv, DigitsInv, MadeInv, ReadInv, EndInv
<1>3. CASE ParseEnd
  BY <1>1, <1>3 DEF ParseEnd
<1>4. CASE Used
  <2>1. /\ kind' = "UInt32" /\ made' = FALSE /\ input' = 0 /\ value' = 0
        /\ buf' = <<>> /\ text' = <<>> /\ p' = 0 /\ r' = 0 /\ step' = "idle"
    BY <1>4 DEF Used
  <2>2. TextTypes'
    <3>1. made' \in BOOLEAN
      BY <2>1, Zenon
    <3>2. <<>> \in Seq(0 .. 9) /\ <<>> \in Seq(Chars) /\ 0 \in 0 .. Len(<<>>)
      OBVIOUS
    <3> QED BY <2>1, <3>1, <3>2 DEF TextTypes
  <2> QED BY <2>1, <2>2 DEF TextInv, DigitsInv, MadeInv, ReadInv, EndInv
<1>5. CASE UNCHANGED textVars
  BY <1>1, <1>5 DEF textVars
<1> QED BY <1>2, <1>3, <1>4, <1>5, CallStep, DigitStep, FitStep, ParseCharStep DEF TextNext

\* TextInv holds initially.
LEMMA TextStart == NoCall => TextInv
<1> SUFFICES ASSUME NoCall PROVE TextInv
  OBVIOUS
<1>1. TextTypes
  <2>1. made \in BOOLEAN
    BY Zenon DEF NoCall
  <2>2. <<>> \in Seq(0 .. 9) /\ <<>> \in Seq(Chars) /\ 0 \in 0 .. Len(<<>>)
    OBVIOUS
  <2> QED BY <2>1, <2>2 DEF NoCall, TextTypes
<1> QED BY <1>1 DEF NoCall, TextInv, DigitsInv, MadeInv, ReadInv, EndInv

\* parse has read the whole text.
LEMMA AllRead ==
  ASSUME TextInv, step = "ok"
  PROVE  /\ \A j \in 1 .. Len(text) : text[j] <= 9
         /\ r = Number(text) % Values
         /\ Number(text) < Values => r = Number(text)
<1>1. p = Len(text) /\ text # <<>> /\ kind \in {"Int32", "UInt32"}
  BY DEF TextInv, TextTypes
<1>2. text \in Seq(Nat) /\ Number(text) \in Nat /\ Len(text) - p = 0
  <2>1. text \in Seq(Nat) /\ Number(text) \in Nat
    BY BufNumber DEF TextInv
  <2>2. Len(text) \in Nat
    BY <2>1
  <2> QED BY <1>1, <2>1, <2>2
<1>3. PICK u \in 0 .. Number(text) :
        /\ u * Power(10, Len(text) - p) = NumberTo(text)[p]
        /\ kind = "UInt32" => r = u % Values
        /\ kind = "Int32" => r = u /\ u <= MaxInt
  BY DEF TextInv, ReadInv
<1>4. u \in Nat /\ u = Number(text)
  <2>1. Power(10, 0) = 1 /\ u \in Nat
    BY <1>2, <1>3, PowerIs
  <2>2. u * 1 = Number(text)
    BY <1>1, <1>2, <1>3, <2>1 DEF Number
  <2> QED BY <2>1, <2>2
<1>5. u < Values => u % Values = u
  <2> SUFFICES ASSUME u < Values PROVE u % Values = u
    OBVIOUS
  <2>1. u \in 0 .. Values - 1 /\ Values * 0 + u = u
    BY <1>4, Ranges
  <2>2. (Values * 0 + u) % Values = u
    BY <2>1, Ranges, ModOf
  <2> QED BY <2>1, <2>2
<1>6. kind = "Int32" => u < Values
  BY <1>3, <1>4, Ranges
<1>7. \A j \in 1 .. Len(text) : text[j] <= 9
  BY <1>1 DEF TextInv, ReadInv
<1> QED BY <1>1, <1>3, <1>4, <1>5, <1>6, <1>7

\* parse gives the number that the digits of its text stand for, modulo the
\* range of the integer, for every width of the integers and texts of any
\* length, and refuses every text that is not a row of digits.
THEOREM ParseIsRight == TextSpec => []ParseRight
<1>1. TextInv => ParseRight
  <2> SUFFICES ASSUME TextInv PROVE ParseRight
    OBVIOUS
  <2>1. step = "ok" => /\ text # <<>> /\ \A j \in 1 .. Len(text) : text[j] <= 9
                       /\ r = Number(text) % Values
    BY AllRead DEF TextInv, TextTypes
  <2>2. step = "kEFormat" => text = <<>> \/ \E j \in 1 .. Len(text) : text[j] > 9
    BY DEF TextInv, EndInv
  <2> QED BY <2>1, <2>2 DEF ParseRight
<1> QED BY <1>1, TextStart, TextStep, PTL DEF TextSpec

\* to_string writes every number of every width, but the smallest, in the digits
\* it has, within the buffer its callers have for it, and parse reads back those
\* that are not negative.
THEOREM TextIsRight == TextSpec => []TextRight
<1>1. TextInv => TextRight
  <2> SUFFICES ASSUME TextInv PROVE TextRight
    OBVIOUS
  <2>0. step # "kEArgument" /\ (made <=> made = TRUE) /\ kind \in {"Int32", "UInt32"}
    BY DEF TextInv, TextTypes
  <2>1. ASSUME made = TRUE, step = "ok" PROVE r = input
    <3>1. ~(input < 0)
      <4> SUFFICES ASSUME input < 0 PROVE FALSE
        OBVIOUS
      <4>1. text[1] = Minus /\ Len(text) = Len(buf) + 1 /\ Len(buf) \in Nat
        BY <2>1, MadeText
      <4>2. text[1] <= 9
        BY <2>1, <4>1, AllRead
      <4> QED BY <4>1, <4>2 DEF Minus
    <3>2. /\ text = Reversed(buf) /\ Number(Reversed(buf)) = Amount /\ Amount \in Numbers(kind)
          /\ Amount = input
      BY <2>1, <3>1, MadeText DEF Amount
    <3>3. Amount < Values
      BY <2>0, <3>2, Ranges
    <3> QED BY <2>1, <3>2, <3>3, AllRead
  <2>2. ASSUME made = TRUE, step \in {"parse", "ok"}
        PROVE  LET digits == IF input < 0 THEN Tail(text) ELSE text IN
               /\ text # <<>> /\ Len(text) <= kMaxStringLength
               /\ input < 0 <=> Head(text) = Minus
               /\ Number(digits) = IF input < 0 THEN -input ELSE input
               /\ input # 0 => Head(digits) # 0
    <3>1. /\ input \in Int /\ input \in Numbers(kind) /\ Number(Reversed(buf)) = Amount
          /\ Len(Reversed(buf)) = Len(buf) /\ Reversed(buf) # <<>>
          /\ Len(buf) \in Nat /\ Len(buf) <= Digits
          /\ Head(Reversed(buf)) \in 0 .. 9 /\ (Amount # 0 => Head(Reversed(buf)) # 0)
      BY <2>2, MadeText
    <3>2. CASE input < 0
      <4>1. Tail(text) = Reversed(buf) /\ Len(text) = Len(buf) + 1 /\ text # <<>> /\ Head(text) = Minus
        BY <2>2, <3>2, MadeText
      <4>2. kind = "Int32"
        BY <2>0, <3>1, <3>2, Ranges
      <4>3. Len(text) <= kMaxStringLength
        BY <3>1, <4>1, <4>2, Ranges DEF kMaxStringLength
      <4>4. Amount = -input /\ Amount # 0
        BY <3>1, <3>2 DEF Amount
      <4> QED BY <3>1, <3>2, <4>1, <4>3, <4>4
    <3>3. CASE ~(input < 0)
      <4>1. text = Reversed(buf)
        BY <2>2, <3>3, MadeText
      <4>2. Len(text) <= kMaxStringLength
        BY <3>1, <4>1, Ranges DEF kMaxStringLength
      <4>3. Amount = input
        BY <3>3 DEF Amount
      <4>4. Head(text) # Minus
        BY <3>1, <4>1 DEF Minus
      <4> QED BY <3>1, <3>3, <4>1, <4>2, <4>3, <4>4
    <3> QED BY <3>2, <3>3
  <2>3. /\ made = TRUE /\ step = "kEFormat" => input < 0
        /\ made = TRUE /\ step = "undefined" => input = MinInt
    BY DEF TextInv, EndInv
  <2> QED BY <2>0, <2>1, <2>2, <2>3 DEF TextRight
<1> QED BY <1>1, TextStart, TextStep, PTL DEF TextSpec

=============================================================================
