------------------------------ MODULE AppStart ------------------------------
(***************************************************************************)
(* app_main: the network interface is connected, and once it has an        *)
(* address the time and the web service are started, each from a thread    *)
(* and a socket that may fail to come up at every step. app_main looks at  *)
(* no result; at the end it waits for the time.                            *)
(***************************************************************************)
EXTENDS Naturals

CONSTANTS
  MayFail,    \* calls of the kernel and of lwIP may fail
  MayRestart  \* Httpd::restart may be called after the first start

ASSUME StartAssumption == {MayFail, MayRestart} \subseteq BOOLEAN

VARIABLES
  link,        \* NETIF_FLAG_LINK_UP, set by low_level_init or never
  lease,       \* the interface has an address
  app,         \* where app_main is
  start,       \* where Httpd::start is, "none" when it is not called
  failed,      \* the services of which a step has failed
  sntp,        \* SntpClientService: m_socket, m_thread, m_is_started
  httpd,       \* Httpd and its HttpListener, the same and m_is_running; sockets
               \* are "none", "open", "bound" or "listening", threads "none",
               \* "dormant" or "running"
  unbound,     \* netconn_bind has failed for the web server
  m_is_synced  \* Rtc

startVars == <<link, lease, app, start, failed, sntp, httpd, unbound, m_is_synced>>

StartInit ==
  /\ link \in BOOLEAN
  /\ lease = FALSE
  /\ app = "connecting" /\ start = "none"
  /\ failed = {}
  /\ sntp = [m_socket |-> "none", m_thread |-> "none", m_is_started |-> FALSE]
  /\ httpd = [m_socket |-> "none", m_thread |-> "none",
              m_is_started |-> FALSE, m_is_running |-> FALSE]
  /\ unbound = FALSE
  /\ m_is_synced = FALSE

\* A step in the start of a service fails.
Fails(service) == MayFail /\ failed' = failed \cup {service}

\* app_main gets from one place to another; "httpd" is the call of start.
Goto(from, to) ==
  /\ app = from
  /\ app' = to
  /\ start' = IF to = "httpd" THEN "open" ELSE start

-----------------------------------------------------------------------------
(* lwIP, and the thread of the time service. *)

\* DHCP runs only on an interface that was up when connect() started it. An
\* address may be lost again.
Dhcp ==
  /\ link
  /\ lease' = ~lease
  /\ UNCHANGED <<link, app, start, failed, sntp, httpd, unbound, m_is_synced>>

\* do_sync succeeds. app_main has the highest priority: it must be asleep, as it is
\* between two turns of its loop (Thread::sleep).
Sync ==
  /\ sntp.m_thread = "running"
  /\ app \in {"sync", "end"}
  /\ lease
  /\ m_is_synced' = TRUE
  /\ UNCHANGED <<link, lease, app, start, failed, sntp, httpd, unbound>>

-----------------------------------------------------------------------------
(* app_main, until the connection is there. *)

Connected ==
  /\ Goto("connecting", "sntp_thread")
  /\ lease
  /\ UNCHANGED <<link, lease, failed, sntp, httpd, unbound, m_is_synced>>

-----------------------------------------------------------------------------
(* SntpClientService::start *)

\* Defect: app_main gives up when the time service cannot start.
AfterSntpFailureEnd == "end"
\* app_main goes on.
AfterSntpFailure == "httpd"

SntpThread ==
  /\ \/ /\ Goto("sntp_thread", "sntp_open")
        /\ sntp' = [sntp EXCEPT !.m_thread = "dormant"]
        /\ UNCHANGED failed
     \/ /\ Goto("sntp_thread", AfterSntpFailure)
        /\ Fails("sntp")
        /\ UNCHANGED sntp
  /\ UNCHANGED <<link, lease, httpd, unbound, m_is_synced>>

\* The timeouts and the port of the socket, which may fail, have no effect:
\* do_sync uses a socket of its own.
SntpOpen ==
  /\ \/ /\ Goto("sntp_open", "sntp_start")
        /\ sntp' = [sntp EXCEPT !.m_socket = "open"]
        /\ UNCHANGED failed
     \/ /\ Goto("sntp_open", AfterSntpFailure)
        /\ Fails("sntp")
        /\ sntp' = [sntp EXCEPT !.m_thread = "none"]
  /\ UNCHANGED <<link, lease, httpd, unbound, m_is_synced>>

\* Defect: the thread is created and never started.
SntpStartDormant ==
  /\ Goto("sntp_start", "httpd")
  /\ sntp' = [sntp EXCEPT !.m_is_started = TRUE]
  /\ UNCHANGED <<link, lease, failed, httpd, unbound, m_is_synced>>

\* The result of m_thread.start() is not looked at.
SntpStart ==
  /\ Goto("sntp_start", "httpd")
  /\ \/ /\ sntp' = [sntp EXCEPT !.m_is_started = TRUE, !.m_thread = "running"]
        /\ UNCHANGED failed
     \/ /\ sntp' = [sntp EXCEPT !.m_is_started = TRUE]
        /\ Fails("sntp")
  /\ UNCHANGED <<link, lease, httpd, unbound, m_is_synced>>

-----------------------------------------------------------------------------
(* Httpd::start *)

\* Its labels, which undo the steps from the last one back.
error_failed_http_l_start(h) == [h EXCEPT !.m_socket = "none"]
\* Defect: the listener is not stopped.
error_failed_thread_create_open(h) == error_failed_http_l_start(h)
error_failed_thread_create(h) == error_failed_http_l_start([h EXCEPT !.m_is_started = FALSE])
error_failed_thread_start(h) == error_failed_thread_create([h EXCEPT !.m_thread = "none"])

\* start goes on, or ("none") back to app_main or another caller.
Return(to) ==
  /\ start' = to
  /\ app' = IF to = "none" /\ app = "httpd" THEN "sync" ELSE app

\* A step of start: on to the next place with the state ok, or out of start with
\* what the error path leaves.
Step(to, ok, undone) ==
  /\ \/ Return(to) /\ httpd' = ok /\ UNCHANGED failed
     \/ Return("none") /\ httpd' = undone /\ Fails("httpd")
  /\ UNCHANGED <<link, lease, sntp, m_is_synced>>

\* TcpServer::create.
HttpOpen ==
  /\ start = "open"
  /\ httpd.m_socket = "none"
  /\ Step("bind", [httpd EXCEPT !.m_socket = "open"], httpd)
  /\ UNCHANGED unbound

\* A socket that is still open cannot be opened.
HttpReopen ==
  /\ start = "open"
  /\ httpd.m_socket # "none"
  /\ Return("none")
  /\ UNCHANGED <<link, lease, failed, sntp, httpd, unbound, m_is_synced>>

\* A socket that could not be bound is not closed.
HttpBind ==
  /\ start = "bind"
  /\ Step("listen", [httpd EXCEPT !.m_socket = "bound"], httpd)
  /\ unbound' = (start' = "none")

\* HttpListener::start.
HttpListen ==
  /\ start = "listen"
  /\ Step("thread", [httpd EXCEPT !.m_socket = "listening", !.m_is_started = TRUE],
          error_failed_http_l_start(httpd))
  /\ UNCHANGED unbound

HttpThread ==
  /\ start = "thread"
  /\ Step("start", [httpd EXCEPT !.m_thread = "dormant"], error_failed_thread_create(httpd))
  /\ UNCHANGED unbound

HttpStart ==
  /\ start = "start"
  /\ Step("none", [httpd EXCEPT !.m_thread = "running", !.m_is_running = TRUE],
          error_failed_thread_start(httpd))
  /\ UNCHANGED unbound

\* Httpd::restart, by another thread: stop, which leaves m_is_running as it is,
\* and start, which refuses when that is set.
Restart ==
  /\ MayRestart
  /\ app \in {"sync", "end"}
  /\ start = "none"
  /\ IF httpd.m_is_running
     THEN httpd' = [httpd EXCEPT !.m_is_started = FALSE] /\ UNCHANGED start
     ELSE start' = "open" /\ UNCHANGED httpd
  /\ UNCHANGED <<link, lease, app, failed, sntp, unbound, m_is_synced>>

-----------------------------------------------------------------------------
(* The end of app_main. *)

Synced ==
  /\ Goto("sync", "end")
  /\ m_is_synced
  /\ UNCHANGED <<link, lease, failed, sntp, httpd, unbound, m_is_synced>>

App == Connected \/ SntpThread \/ SntpOpen \/ SntpStart \/ Synced
HttpdStart == HttpOpen \/ HttpReopen \/ HttpBind \/ HttpListen \/ HttpThread \/ HttpStart

StartNext == Dhcp \/ Sync \/ App \/ HttpdStart \/ Restart

StartSpec == StartInit /\ [][StartNext]_startVars

\* The threads run when they are ready; DHCP gets an address on a link that
\* is up, and keeps it longer than the second between two looks of app_main and
\* long enough for an exchange with the time server.
Fairness ==
  /\ WF_startVars(App) /\ WF_startVars(HttpdStart) /\ WF_startVars(Dhcp)
  /\ SF_startVars(Connected) /\ SF_startVars(Sync)

StartFairSpec == StartSpec /\ Fairness

-----------------------------------------------------------------------------
(* Properties. *)

\* Whatever step of a start fails, the service is either up as a whole or
\* leaves nothing behind, so that a second start can succeed: no socket, no
\* thread, no listener that believes it is started. Two steps are the exception:
\* the web server's socket that could not be bound stays open, and the time
\* service counts as started although its thread could not be.
AllOrNothing ==
  app \in {"sync", "end"} /\ start = "none" =>
    /\ httpd.m_is_running => httpd.m_socket = "listening" /\ httpd.m_thread = "running"
    /\ ~httpd.m_is_running =>
         httpd = [m_socket |-> IF unbound THEN "open" ELSE "none", m_thread |-> "none",
                  m_is_started |-> FALSE, m_is_running |-> FALSE]
    /\ sntp.m_is_started => sntp.m_socket = "open" /\ sntp.m_thread # "none"
    /\ ~sntp.m_is_started => sntp.m_socket = "none" /\ sntp.m_thread = "none"

\* With a link at power-on the web server comes up, whatever happens to the time
\* service, unless a step of its own start fails.
WebUp == link ~> (httpd.m_is_running \/ "httpd" \in failed)

\* app_main ends, whatever happens to the web server, unless a step in the start
\* of the time service fails: what app_main waits for does not depend on the web
\* server or on anything that comes after it. That the service's thread gets the
\* CPU, because app_main sleeps in its loop, is the guard of Sync.
MainEnds == link ~> (app = "end" \/ "sntp" \in failed)
=============================================================================
