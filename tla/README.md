# Verification of the STM32F7 firmware

This directory specifies parts of the firmware in TLA+, model-checks them with
TLC and proves theorems about them with TLAPS. The program is a firmware for an
STM32F746: a C++ framework (`framework/`, the classes `kfw_*`), an application
(`app/`), platform glue (`src/*.c`) and configuration (`inc/`), on top of an
ITRON-like kernel (`kos`, not in the repository), lwIP, mbedTLS and ST's HAL
drivers. Once started it obtains an address by DHCP, sets its clock by SNTP and
serves the time of day over HTTP.

Paths below are relative to the root of the repository. `PROJECT.json` lists
components, runs, mutants, the source lines each definition stands for, findings,
hazards and theorems.

## Inventory

### Components

| Component | Source | State | Operations | What makes it correct |
|---|---|---|---|---|
| Ethernet driver | `src/ethernetif.c`, `Drivers/.../stm32f7xx_hal_eth.c` | two descriptor rings shared with the DMA, status flags, the HAL handle with its lock, a semaphore | interrupt handler, `ethernetif_input`, `low_level_input`, `low_level_output` | driver and DMA never use a descriptor at the same time; no frame is lost, merged or repeated; no wake-up is lost; neither DMA process is left suspended |
| CMSIS-OS wrapper | `src/cmsis_os_itron_wrap.c` | kernel semaphores | `osSemaphoreWait`, `osSemaphoreRelease`, threads, delay | the count it returns means what its caller takes it for |
| lwIP pools | `middlewares/lwip/src/core/memp.c`, `pbuf.c` | a free list per pool | `memp_malloc`, `memp_free` | a block has one holder; the list holds exactly the free blocks |
| lwIP port | `src/sys_arch.c` | mailboxes, semaphores, the critical section | `sys_mbox_*`, `sys_sem_*`, `sys_arch_protect` | messages in order, none lost but by a failing `trypost`; exclusion |
| tcpip thread, timers | `middlewares/lwip/src/api/tcpip.c`, `core/timeouts.c` | its mailbox, the list of timers | `tcpip_inpkt`, `tcpip_thread`, `sys_timeout`, `sys_check_timeouts` | every packet is processed or freed; every timer is armed once and keeps running, neither early nor late |
| Sockets | `framework/src/kfw_net.cpp` | netconn handle, the netbuf being read and the offset in it | open, connect, listen, accept, recv, send, close | bytes in order; everything opened is closed |
| Streams | `framework/src/kfw_io.cpp` | read and write buffers with their positions | `BufferedStream::read`, `write`, `flush`, `StreamWriter` | the buffered stream is the stream; errors are remembered |
| HTTP server | `framework/src/kfw_web.cpp`, `app/src/app_httpd.cpp` | listener state, one context per request, line buffer, chunks of the response | `get_context`, `read_line`, `parse_request_line`, `write_response`, `Httpd::run`, `start`, `stop` | each client gets the answer to its request; each connection is closed; a failing client does not stop the server |
| Text buffers | `framework/src/kfw_text.cpp` | a buffer and its length | `append`, `clear` | nothing is stored outside the buffer |
| SNTP client | `framework/src/kfw_net_ntp.cpp` | samples, error count, state | `do_sync`, `start`, `stop` | the clock is set close to the true time, however replies are delayed, lost, repeated or reordered |
| Clock and calendar | `framework/src/kfw_rtc.cpp` | tick counter, synchronised flag | cyclic handler, `get_time`, `sync`, `DateTime` | ticks are counted; dates are right |
| RTOS classes | `framework/src/kfw_rtos.cpp` | pools, queues, threads, timers | `FixedMemoryPool`, `ThreadPool`, `Timer`, `Thread`, semaphores, event flags | a block has one holder; nothing waits for ever |
| Strings, integers | `framework/src/kfw_common*.cpp` | reference counts | copy, assign, destroy; `to_string`, `parse` | freed once; numbers are written and read right |
| Network interface | `framework/src/kfw_stm_netif.cpp`, `kfw_netif.cpp` | lwIP's netif | `connect`, `disconnect`, status | the state reported is the state of the link |
| TLS stream | `framework/src/kfw_net_secuirty.cpp` | an mbedTLS context | read, write | not used by the application |
| Start-up, application | `framework/src/kfw_startup.cpp`, `app/src/app_main.cpp`, `src/main.c` | - | initialisation, polling for the connection and the time | services start when what they need is there; a failed start leaves nothing behind |
| Memory allocation | `src/wrap_malloc.c` | the kernel's heap | forwards to `kos_alloc`, `kos_free` | kernel, not in the repository |

### How they interact

The DMA fills receive descriptors and raises an interrupt; the handler signals a
semaphore; the `ethernetif_input` task (priority 1, the highest) takes frames out
of the ring, copies them into pbufs and posts them to the mailbox of the tcpip
thread (priority 3). That thread runs the protocols and their timers and posts
data to the receive mailbox of a connection, which an application thread (HTTP
server: 2, SNTP: 3) reads through `Socket::recv_from` and `BufferedStream::read`.
Output goes the other way: `StreamWriter`, `netconn_write`, and `low_level_output`,
which runs in the tcpip thread or, because `LWIP_TCPIP_CORE_LOCKING` is 1, in an
application thread that holds lwIP's core lock; there is one transmitter at a time.
`app_main` waits for an address, starts the SNTP client and the HTTP server and
waits until the first has set the clock that the second reports.

### What is hard

- The DMA and the interrupt handler interleave with the task at every access to a
  descriptor, flag or semaphore; the HAL lock is a plain variable that the handler
  clears whoever holds it.
- Threads of three priorities share lwIP's pools; the exclusion is a
  configuration option. The list of timers is changed under two different
  disciplines, with and without the core lock.
- Resources run out: descriptors, pbufs, mailbox, messages, netbufs, blocks of a
  pool, chunks of a response, the line buffer.
- Connections fail at every point of a request and of an answer, and results are
  not always looked at.
- One server thread serves all clients and blocks without a timeout.
- UDP replies of the time server are lost, late, duplicated, reordered or too long.
- Starting a service takes several steps, each of which may fail.

`PROJECT.json` lists these at the line where they bite, with the properties that
cover them.

## Modules

| Module | Models | Proofs | Run |
|---|---|---|---|
| `EthernetIf` | the Ethernet driver with DMA, interrupt handler, semaphore, input task, tcpip mailbox, pbuf count | `EthernetIfProofs` | `eth` |
| `Memp` (`MCMemp`) | a pool of lwIP under preemption | `LwipProofs` | `memp_prot`, `memp_firmware` |
| `Timeouts` (`MCTimeouts`) | the timers of the tcpip thread, with application threads that connect and close | `LwipProofs` | `timers`, `timers_active` |
| `ByteStream` | abstract: what a reader of a connection is promised | | |
| `SocketRead` | `BufferedStream::read` over `Socket::recv_from`; implements `ByteStream` | `SocketReadProofs` | `socket_read` |
| `StreamWrite` | `BufferedStream::write` and `flush` over `Socket::send_to` and the netconn layer | `StreamWriteProofs` | `write` |
| `HttpServer` (`MCHttpServer`) | the server thread over connections that behave as `ByteStream` says | `HttpServerProofs` | `http` |
| `ChunkBuffer` | the body of a response: written into chunks, enumerated, disposed of | `ApplicationProofs` | `page` |
| `Sntp` (`MCSntp`) | the SNTP client composed with the clock it sets and an unreliable network | `SntpProofs` | `sntp` |
| `Calendar` | `DateTime::set_ticks` beside a reference calendar | `ApplicationProofs` | `page` |
| `NumberText` (`MCPage`, with `Calendar` and `ChunkBuffer`) | `to_string` and `parse` of integers | `ApplicationProofs` | `page` |
| `MemoryPool` (`MCMemoryPool`) | `FixedMemoryPool` between threads of several priorities and interrupt handlers | `MemoryPoolProofs` | `pool` |
| `AppStart` | `app_main` with the start of both services, DHCP and the SNTP thread | `ApplicationProofs` | `app_start` |

A definition whose comment begins with `defect:` is a wrong variant of the
definition next to it. It is not used by any specification; substituted for the
right one it makes the property named with it in `PROJECT.json` ("mutants") fail,
which shows that the property depends on that piece of code.

### EthernetIf

State: `rxd` and `txd` are the descriptor tables (owner bit; for reception the FS
and LS bits and the number of the frame in the buffer), `DMASR` the status flags,
`rxDma*`/`txDma*` the two DMA processes. `Lock`, `RxDesc`, `FSRxDesc`, `SegCount`
and `TxDesc` are fields of `EthHandle` (`FSRxDesc`, `SegCount` of `RxFrameInfos`).
`isr`, `rxpc` and `txpc` say where the handler, the task and `low_level_output`
are; `dmarxdesc`, `i`, `p` are the locals of `low_level_input`. `pbufs`, `mbox`,
`cur` and `held` count the buffers of the pool wherever they are; `PbufsIn` adds up
those of the mailbox. `taken` and
`dry` are history.

| Actions | Code |
|---|---|
| `DmaRx*`, `DmaTx*` | the DMA engine (hardware) |
| `IrqRxCplt`, `IrqClear` | `HAL_ETH_IRQHandler`, `HAL_ETH_RxCpltCallback`, `osSemaphoreRelease` |
| `RxWait`, `RxRefSem` | `osSemaphoreWait` and the test of its result in `ethernetif_input` |
| `RxLock`, `RxScanDesc`, `RxScanEnd` | `HAL_ETH_GetReceivedFrame_IT` |
| `RxAlloc`, `RxCopy`, `RxGive`, `RxResume` | `low_level_input` |
| `RxInput` | `tcpip_inpkt` with `sys_mbox_trypost` |
| `TcpipFetch`, `TcpipInput`, `AppRecv` | the other end of the mailbox and of the pbufs |
| `TxCheck`, `TxUnderflow` | `low_level_output` |
| `TxLock`, `TxOwn`, `TxResume` | `HAL_ETH_TransmitFrame` |

Scheduling is by priority: a thread acts while the handler does not, and the
lower ones only while the task is blocked. The DMA acts at any time. Each action
makes at most one access to what the DMA or the handler also changes.

Simplifications. A suspended DMA process resumes only on a poll demand, which is
the worst case for the driver. The `State` field of the handle is left out: nothing
reads it. Of the handler's branches only R is reachable, because `HAL_ETH_Init`
(`stm32f7xx_hal_eth.c:1841`) enables only normal and receive interrupts. A frame to
send fits one buffer, so the multi-buffer branches of `low_level_output` and
`HAL_ETH_TransmitFrame` are not taken, nor is the length check against 0. Store-and-
forward is on (`stm32f7xx_hal_eth.c:1769`), so an underflow is not expected;
the run allows it anyway. The scan counter of `HAL_ETH_GetReceivedFrame_IT` never
ends the loop, as a frame has at most `ETH_RXBUFNB` buffers. Operations on the
pbuf pool are atomic here; `Memp` looks inside them. Initialisation is the
initial state; PHY and link handling are left out.

What the properties tell besides: when `pbuf_alloc` fails, `low_level_input` drops
one frame and the task stops draining, so that frames behind it wait until
another one arrives (the exception `dry` of `NoLostWakeup` and `FrameTaken`). The
semaphore is not binary, as its comment says: its count is unlimited, and the task
drains the ring when the count that `osSemaphoreWait` returns is 0.

### Memp

`tab` and `next` are the free list of `memp.c`, `pc`, `memp` and `nxt` the progress
and locals of each thread, `lock` the critical section. Reads and writes of the
list are separate actions: `MallocHead`, `MallocNext`, `MallocStore` for
`do_memp_malloc_pool`, `FreeLink`, `FreeStore` for `do_memp_free_pool`. `Write` is
the holder of a block using its memory, in which the link lies. A thread takes
over another in the middle of an operation only with a better priority. `PROT`
is `SYS_LIGHTWEIGHT_PROT`.

### Timeouts

`list` is the list at `next_timeout`; the time of an entry counts from the expiry
of the one before. `used` counts the entries that are out of the pool. `elapsed` is `sys_now() - timeouts_last_time`: only this
difference is ever used, so that the wrapping of the clock shows nowhere. `phase`,
`sleep`, `diff`, `running` and `follower` (the pointer loaded from `tmptimeout->next`) are the
progress of the tcpip thread, `tcpActive` is
`tcpip_tcp_timer_active`, `pcbs` says whether a connection exists. `left`,
`disturbed` and `overtaken` are history.

| Actions | Code |
|---|---|
| `Fetch`, `SleepEnds`, `Receive` | `sys_timeouts_mbox_fetch`, `sys_timeouts_sleeptime`, `sys_arch_mbox_fetch` |
| `Message` | `tcpip_thread` handling a packet |
| `Expire`, `LoadNext`, `Unlink`, `EndCheck` | `sys_check_timeouts`; `next_timeout = tmptimeout->next` is the load `LoadNext` and the store in `Unlink`, with `memp_free` |
| `cyclic_timer`, `tcpip_tcp_timer` | the handlers, with `sys_timeout` |
| `AppConnect`, `AppClose` | `TCP_REG`, `TCP_RMV` in an application thread under the core lock |
| `Tick` | the kernel's clock |

Because `LWIP_TCPIP_CORE_LOCKING` is 1, application threads register connections
themselves and may do so between any two steps of `sys_check_timeouts`, which does
not take the lock for the list. Accesses to the list are therefore split where another
thread could tell: the load and the store that unlink an entry. `Expire` and `Fetch` read the
first entry more than once in one step, which is sound because nothing is ever armed in
front of it (below). The unprotected pool operations that `sys_timeout` and `memp_free` make
are atomic here; `Memp` looks inside them. `sys_untimeout`, `sys_restart_timeouts` and
`tcpip_timeout` are not used by this configuration. In the run `PoolSize` equals the
number of timers; the firmware has ten entries for six timers, and lwIP does not compile
with fewer than there are (`init.c:133`), which is what `TimeoutsAssumption` says.

A connect between the load and the store puts the TCP timer right behind the entry that
is being unlinked, and the store drops it (`overtaken`). `tcpip_tcp_timer_active` stays set, so
no later connect arms the timer, and its entry never returns to the pool. This is a finding.
It takes an application thread that opens a connection while there is none; a firmware that
only accepts connections registers them in the tcpip thread (`MayConnect` FALSE).

What the properties tell besides. A thread that is kept past a tick, or a connect
between the steps with which an entry is taken off the list, makes timers run
at another time (`disturbed`): an insertion in front of an overdue entry postpones
the entries behind, and the branch at `timeouts.c:249` shortens a timer.

Nothing else is lost only because one timer is so frequent that nothing is ever armed in
front of it. `Frequent(k, lag)`: the interval of `k` and twice the lag are no more than any
other interval. The lag counts twice, for a check may begin late by as much as a message
keeps the thread, and the handler of `k` may come late by as much as the check takes. In
the firmware `k` is IGMP's timer with 100 ms and the next one TCP's with 250 ms: neither a
message nor a check may keep the thread for more than 75 ms. The bound is tight: on small
instances TLC finds `EachArmedOnce` violated as soon as TCP's interval falls short of it
(`MaxBusy` 2 in the run: 100 + 2 * 100 > 250). The TCP timer is then armed in front of an entry
that is being taken off, and the store drops it even if the load comes after the connect. `MCTimeouts` assumes `SomeFrequent`, so that TLC
evaluates the hypothesis of the theorems for the run's constants.

### SocketRead and ByteStream

A byte is the number under which it was sent. `recvmbox`, `m_recv_buf` and
`m_recv_buf_offset` belong to the socket, `m_read_buffer*` to the buffered stream,
`size`, `remain_size`, `want`, `direct` to the call. `Read`, `CopyFromBuffer`,
`ReadBase`, `ReadDone` are `BufferedStream::read`, `SocketRecv`, `SocketFail`,
`SocketCopy` are `Socket::recv_from`. `uint32_t` arithmetic is modulo `WordSize`.
A netbuf is one pbuf (`PBUF_POOL_BUFSIZE` holds a frame, `TCP_QUEUE_OOSEQ` and
`IP_REASSEMBLY` are 0). `ByteStream` is the promise: bytes leave in the order in
which they entered, each once; the refinement mapping takes for the abstract queue
the bytes sent and not yet delivered.

In the code `copy_size` is capped by `size` and not by what remains of it
(`kfw_io.cpp:77`): a read served in more than one piece can store beyond the
caller's memory. The model stops there (`pc = "overrun"`), and because that state
is absorbing the run does not check for deadlock. The firmware reads one
byte at a time, which is always one piece.

### StreamWrite

`m_write_buffer` holds the bytes of the buffer in use, `pc`, `data`, `write_offset`
the write of the base stream that is under way, `then` the write that began with a
flush, `wire` what TCP has been handed, `up` whether the connection is alive.
`numbered`, `promised` and `mishaps` are history.

| Actions | Code |
|---|---|
| `write`, `flush` | `BufferedStream::write`, `flush`, `flush_write_buffer` |
| `WriteMore`, `Completes`, `TimesOut`, `LosesRoute`, `Abort` | `Socket::send_to` over `lwip_netconn_do_writemore`: partial progress, success, send timeout, `ERR_RTE`, fatal error |

What the properties tell besides: a send timeout in the middle of a flush counts
as success and the rest of the buffer is dropped (`kfw_io.cpp:157`), and a flush
that fails for want of a route repeats what TCP has already taken
(`kfw_io.cpp:153`). Both are the named exceptions of `NothingLost` and `OnceInOrder`.
The HTTP server writes without a buffer and is touched by neither.

### HttpServer

For each connection: `req` (the request, a sequence of the characters the server
tells apart), `sent` and `read` positions in it, `peer` and `conn` for the two
ends, `out` for what the client has got, as a sequence of writes. `acceptmbox` is
lwIP's queue, `m_is_started` the listener's flag; `pc`, `client`, `line`, `buf`,
`inHeaders`, `found`, `written` and `m_error` are the locals of the server thread.
`failed` and `late` are history.

| Actions | Code |
|---|---|
| `Connect`, `Arrive`, `Abort` | clients, through lwIP (external) |
| `GetContext`, `Accept`, `AcceptFail`, `Wake` | `Httpd::run`, `HttpListener::get_context`, `Socket::accept` |
| `Stop` | `Httpd::stop`, `HttpListener::stop` |
| `ReadFirst`, `ReadSecond` | the two reads of `read_line`, with `StringBuffer::append` |
| `RequestLine`, `HeaderLine` | `get_context` after each line, `parse_request_line` |
| `WritePart`, `WriteDone` | `write_response`, `StreamWriter`, and the end of the context |

A read fails only where a segment ends (what has been taken from the netbuf can
always be read); a write fails once the client has reset the connection, and from
then on. The result of a read is ignored by `read_line`, so after a failure the
byte read last is used again, or any value if nothing was read in this call;
`AppendAll` never reports a full buffer. When the line grows beyond the buffer the
model stops (`pc = "overrun"`), for which reason the run does not check for
deadlock. The writes of an answer that are not looked at one by one are taken
together: the error of the StreamWriter is looked at after the status line and
after the headers. The length in a Content-Length header is parsed into a variable of the
inner block, so headers have no effect. The body is one chunk; `ChunkBuffer` treats
longer ones. `WellFormed` says what `read_line` needs of a request: no CR before a CR, because it
takes such a pair for text and then misses the LF of the real end of the line, and
no line longer than the buffer, because nothing refuses it. Requests of the run are
well-formed in this sense (lines without an end, a lone CR and a malformed
Request-Line are), and the proofs that depend on it say so in their hypothesis.

### ChunkBuffer

`live`, `buffer` and `m_next` are the allocated chunks, `m_first_chunk`,
`m_current_chunk`, `m_current_chunk_pos` and `m_total_size` the fields of the
`ChunkBuffer`; `at` is the enumerator or the pointer of `dispose`. `Create`, `Write`,
`Copy`, `NewChunk`, `NewChunkFail`, `WriteDone` are `init` and `write`, `WriteHead`,
`SendChunk`, `EnumEnd`, `WriteFail` are `write_response`, `Dispose*` is `dispose`.
`m_next` of a chunk after the first is never initialised: in the model it is null
or `Wild`. A failed allocation is reported or goes wild, because the test for null
after `new` may be compiled away. A wild pointer that is followed ends the model
(`pc = "wild"`), for which reason the run does not check for deadlock. The body the
firmware sends fits the first chunk, whose link is set.

### Sntp

`now` is the true time since the attempt began and `skew` the clock's lead over it,
so that the model is finite although the clock runs for ever. `ok_cnt`, `error_cnt`,
`cli_send_tm`, `cur_tm`, `offset_avg`, `recv_data` are the locals of `do_sync`, `rest`
and `recvmbox` belong to the socket, `sent` holds the times of the requests. `span`,
`late` and `matched` are history.

| Actions | Code |
|---|---|
| `Begin` | `thread_main` and the beginning of `do_sync` |
| `GetSendTime`, `Send`, `Recv`, `RecvTimeout`, `GetRecvTime` | the loop of `do_sync` |
| `GetTime`, `Sync` | its end: `Rtc::get_time`, `Rtc::sync` |
| `Tick` | the cyclic handler of `kfw_rtc.cpp` |
| `Arrive` | the network and the server (external) |

Any request of the attempt may be answered any number of times, at any later
moment, in any order; a full mailbox drops. A reply longer than 48 bytes leaves a
rest in the socket that is read as the next reply and reuses the times of the one
before. Replies shorter than 48 bytes and `Rtc::reset` are not modelled. Between two
attempts the clock drifts to any value of `Skews`.

### Calendar and NumberText

`Calendar` advances a reference calendar by the rules of the calendar and compares
it at every step with what `set_ticks` computes from the day's number. The
milliseconds and the kind of a `DateTime` are left out. `NumberText` runs the loops
of `to_string` and `parse` of `Int32` and `UInt32` turn by turn, with any width, on every number and
on every short text; what `to_string` makes is parsed again. Signed overflow ends in
`step = "undefined"`. `MCPage` puts both and `ChunkBuffer` into one run, the
pieces of which `Httpd::run` makes its page; they share no state, so calls of `to_string` and `parse`
and responses are begun on the first day only.

What the properties tell besides: `parse` of `Int32` refuses every negative number,
`parse` of `UInt32` wraps instead of refusing large ones, and `to_string` of the
smallest integer overflows.

### MemoryPool

`sem` and `waiters` are the kernel semaphore, `allocated` and `free` the blocks never
handed out and the free list, `held` and `isr` the blocks in use; `pc` and `block` are
the progress of each thread; `fault` records who has taken the head of an empty list.
`GetWait`, `GetTimeout`, `GetTake` are `get`, `GetIsr` is `get_isr`, `ReleaseSignal` and
`ReleaseLink` are `release`. One CPU runs the ready thread of best priority; waiting
threads are served in their order.

What the properties tell besides: `release` signals before it links, so a thread of
better priority can take the head of an empty list; `get_isr` signals the semaphore
instead of taking from it, which makes the count too high by two for every block.
The firmware uses the pool only from `ThreadPool`.

### AppStart

`link` and `lease` are the network interface, `app` and `start` where `app_main` and
`Httpd::start` are, `sntp` and `httpd` the fields of the two services, `m_is_synced` the
clock's. `failed` and `unbound` are history. Each step of a start that may fail is an
action (`SntpThread`, `SntpOpen`, `SntpStart`, `HttpOpen`, `HttpReopen`, `HttpBind`,
`HttpListen`, `HttpThread`, `HttpStart`), with the labels of `Httpd::start` as operators.
`Dhcp` lets the address come and go, `Sync` is the SNTP thread, `Restart` is
`Httpd::restart`. The link is up at power-on or never, because only `low_level_init`
sets the flag; without it `app_main` polls for ever, for which reason the run does not
check for deadlock.

What the properties tell besides: a socket that could not be bound stays open and
every later start is refused; `stop` leaves `m_is_running` set, so `restart` stops the
server for good; a time service whose thread could not be started counts as started
and `app_main` waits for it for ever.

## Runs

| Run | Instance | Checks and shows |
|---|---|---|
| `eth` | 2 Rx descriptors, 1 Tx descriptor, frames of 1 or 2 buffers, 2 pbufs, 2 messages, mailbox of 1, underflow | `RingSplit`: driver and DMA divide the ring in two arcs; `FrameIntact`: what goes to the stack is one whole frame and the next one; `NoLostWakeup`; `RxNotStalled`, `TxNotStalled`; `NeverBusy`: neither user finds the handle locked; `PbufsConserved`: every pbuf is free or has one holder; `FrameTaken`: received frames are taken; `TxSent`: when reception rests, each frame handed over is sent |
| `memp_prot` | 3 blocks, 3 threads of the firmware's priorities, all of them allocating, protected | `Exclusive`; `PoolIntact`: between operations the list holds exactly the blocks nobody has |
| `memp_firmware` (violated) | as above, unprotected as configured, only the input task allocating | the free list becomes circular: see findings |
| `timers` | two cyclic timers and TCP's with the ratio of 100, 500 and 250 ms, in units of 50 ms, the thread kept by up to one unit | `EachArmedOnce`: no timer is lost or armed twice, no entry of the pool leaks and no time in the list wraps; `NeverEarly`, `ExpiredHaveRun`: undisturbed, timers run when their interval is over; `KeepsRunning`: none starves; a TCP timer that a connect overtook is the exception of the first and the last |
| `timers_active` (violated) | as above | `ActiveMeansScheduled`: `tcpip_tcp_timer_active` does not show whether the TCP timer is scheduled, see findings |
| `socket_read` | buffer of 2, reads of 0 to 4, segments of 1 to 3, mailbox of 2, 6 bytes | `InOrder`: refinement of `ByteStream`; `OnePieceExact`: a read in one piece stores and reports the same, within its memory |
| `write` | buffer of 3, writes of 1, 3 and 4, 8 bytes | `NothingLost`: what `write` has accepted is with TCP or in the buffer; `OnceInOrder`: TCP gets each byte once and in order; both with their one exception |
| `http` | 2 clients, 3 requests, cut after 3 characters, buffer of 4, closes, resets, failing reads, a stop at any point | `OwnAnswer`: each client gets the beginning of the answer to its own request, all of it if it stays; `NoneLeaked`: connections are closed on every path; `OverrunOnlyAfterFailure`; `OneAfterStop`: at most one more connection is accepted; `Answered`: every queued connection is answered and closed |
| `sntp` | 2 samples, 2 errors, clock off by -4 or 3, timeout and sleep of 1, lateness of 1 | `NeverAhead`, `NotFarBehind`: how far the clock is off after a synchronisation; `AttemptEnds`; `SyncedUnlessFailing` |
| `page` | 400 years day by day, two days second by second; integers of 8 bits, texts of up to 4 characters; chunks of 2 bytes, memory for 3, up to 7 bytes in writes of 0 to 5 | `DateRight`; `TextRight`: the text of a number, and that it is read back; `ParseRight`; `LengthRight`: header, stored and sent bytes agree; `SmallBodySafe`: a wild pointer needs a body longer than a chunk or a failed allocation; `AllFreed` |
| `pool` | 4 threads at two priorities, 3 blocks, handlers that use `get_isr` | `OneHolder`; `Accounting`: what the semaphore counts; `FaultOnlyInWindow`: when the head of an empty list can be taken |
| `app_start` | every step may fail, restarts | `AllOrNothing`: what a failed start leaves; `WebUp`, `MainEnds`: neither service keeps the other from coming up |

### Bounds

`eth`: two Rx descriptors and frames of one or two buffers give a frame that wraps
round the end of the ring, a partly received frame behind a complete one, and a
full ring; `FrameIds` exceeds the ring so that frames in it have distinct numbers.
With one Tx descriptor the ring of the transmitter is always at its limit; other
sizes are covered by the proofs. The pools and the mailbox are small enough that
each runs out. `MaxSem` stands for a limit of 2^32 - 1; at the limit a signal is
dropped in the model as in the kernel. `memp_*`: three blocks let two frees and an
allocation interleave. `socket_read`: the buffer is smaller than some reads and
segments and larger than others, `WordSize` larger than any difference that does not
wrap. `write`: writes smaller than, equal to and larger than the buffer; eight bytes
are enough for a flush that fails half-way and the writes around it. `http`: every
line fits the buffer, the longest exactly; the requests have a version and a header,
a lone CR in either line, another url, no space; the cut falls inside a line. `sntp`: with two samples and two errors every order of successes and
failures of an attempt occurs. `page`: 400 years are one era, and `CalendarDateRight`
extends them to all; 8 bits have the same corner cases as 32, which `Bits` and `Digits`
are chosen to respect (`2^Bits <= 10^Digits`);
a body may end inside a chunk, fill one exactly, or need one more than there is memory for. `pool`: three blocks and four threads let two
threads wait while one releases; `MaxSem` bounds the signals of `get_isr`. `timers`:
`MaxBusy` bounds how long one message or one check keeps the thread.

### Fairness

`EthernetIf`: the DMA reads descriptors and sends, interrupts are taken, the input
task runs when ready (it has the highest priority of the threads), and a
transmission that has begun goes on whenever the task leaves the processor long
enough (weak fairness). Nothing is assumed of frames arriving or of the stack
consuming or sending. `TxSent` is conditional on reception coming to rest because
under an unending stream of frames the input task never lets the transmitter run.

`HttpServer`: the server thread runs when it can (nothing of a better priority
runs for ever), clients send their whole request, and `netconn_accept` does not fail
for ever (strong fairness of `Accept`). The second is an assumption on clients, not
something the code ensures: sockets have no receive timeout, so a client that
falls silent in the middle of a request stops the server.

`Sntp`: time passes and the thread runs. `Timeouts`: the tcpip thread goes on until it
waits, since the threads above it block again and again, and time passes however
many messages come (strong fairness of `Tick`). `AppStart`: the threads run when ready,
DHCP gets an address on a link that is up, the time service gets the CPU while `app_main`
waits for the time (it sleeps in its loop, `app_main.cpp:271`: the guard of `Sync`, assumed and
not checked), and an address lasts longer than the second
between two looks of `app_main` and than one exchange with the time server (strong
fairness of `Connected` and `Sync`).

## Findings

`memp_firmware`: `SYS_LIGHTWEIGHT_PROT` is 0 (`inc/lwipopts.h:56`), so pool operations
of the input task, the tcpip thread and the application are not exclusive. In the trace an
application thread is preempted by an allocation of the input task between
`memp->next = *desc->tab` and `*desc->tab = memp` (`memp.c:434`); its free undoes the allocation,
and the list ends up circular, which lwIP asserts it is not. lwIP's `opt.h` demands
the option for use from several contexts.

`timers_active`: `timeouts.c:116` says that `tcpip_tcp_timer_active` "shows if the tcp timer is
currently scheduled or not". `sys_check_timeouts` unlinks an expired entry without the core
lock (`timeouts.c:335`). In the trace IGMP's timer expires, its successor is loaded, a connect
arms the TCP timer behind the expired entry, and the store drops it, with the flag left set.

Other deviations of the code from what one would expect are the named exceptions in
the properties of passing runs, described with the modules above.

## Proofs

All theorems hold for every value of the constants that satisfies the named
assumptions (`SizesAssumption`, `MempAssumption`, `TimeoutsAssumption`, `ReadAssumption`,
`WriteAssumption`, `HttpAssumption`, `SntpAssumption`, `PoolAssumption`, `ChunkAssumption`, `CalendarAssumption`,
`NumberAssumption`), which only say that sizes are
natural numbers in a sensible order and name the kinds of the others. Each is the
usual argument: an invariant that holds initially, is kept by every action, and
implies the property.

- `EthernetIfProofs`. `TypeCorrect`. `NeverBusyHolds` from `LockInv`: a held lock
  belongs to the scan, or to a transmission that is running or is about to be
  unlocked by the handler; the property alone is not inductive because it does not
  say who holds the lock when the task is woken. `RxNotStalledHolds` and
  `TxNotStalledHolds` from `RxStallInv`, `TxStallInv`: a suspended process has its
  flag raised, which is what the driver tests before it demands a poll.
  `RingSplitHolds` from `RingInv`: the arc of the driver begins with the scanned
  descriptors, its FS and LS bits delimit frames, and `RxDesc` is where the
  scanned part ends; `ArcWrite`, `ArcScan`, `ArcGive` and `ArcTake` treat the four ways
  in which the arc changes, on facts about walking in a ring (`RingWalk`,
  `RingDist`). `NoLostWakeupHolds` from `WakeInv` on top of it: as long as a complete
  frame is in the ring, the flag, a count of the semaphore, or the task's own
  position makes it look again. `FrameIntactHolds` from `SeqInv` and `CopyInv`: along the
  arc the numbers of the frames follow each other, a buffer carrying on the frame of
  the one before unless that ended it, and the copy proceeds along the descriptors of
  one frame. `PbufsConservedHolds`: each step moves buffers from one place to another.
  The buffers of the mailbox are a sum over a sequence; `PbufsAppend` and `PbufsTail`
  say how posting and fetching change it.
- `LwipProofs`.
  - Pools: `MempTypeCorrect`, with and without protection. `ProtectedPool`: with `PROT`,
    `Exclusive` and `PoolIntact`, from `PoolInv`: only the thread with the critical section is
    in the middle of an operation, what it has read is still so, and the list holds the blocks
    that are neither held nor on their way back. `ListPop` and `ListPush` say what the two
    operations do to a list. `OneHolder` is the part about holders.
  - Timers: `EachArmedOnceHolds` where some cyclic timer `k` is `Frequent(k, MaxBusy)`,
    `NeverEarlyHolds` and `ExpiredHaveRunHolds` where one is `Frequent(k, 0)`; all from
    `TimerInvHolds`. The first says what is lost if a connect comes between the load and the
    store, and that nothing else ever is. `TimerInv(k)` is stated for a `Lag` of 0 until the thread is disturbed and of
    `MaxBusy` afterwards, and adds to the properties: between expiry and unlinking the expired
    entry is still the first, and only the TCP timer can have come between it and the entry that
    was loaded (`FollowerInv`), so that the store takes off these two at most;
    up to `k` no entry is more than the interval of `k` and twice the lag behind the one
    before it (`GapInv`), so that a timer armed while `k` is in the list never goes to the
    front; the first entry is not overdue by more than the lag (`LateInv`), so that `k` itself is
    armed in time; and, undisturbed, the times add up to what is left for each timer (`LeftInv`).
    `EnqueuedIs` says where `sys_timeout` inserts and what it writes, from the loop's own
    recursion (`RestIs`, `RestFalls`, `LoopEnds`); `EnqueuedArms` and `EnqueuedDue` what that means
    for the list and for the times left; `InitListBegun` that `sys_timeouts_init` arms all of
    them. `LoadNextSound` and `UnlinkTakes` treat
    the load and the store. `Room` and `RoomBesidesLost`: the pool has an entry for a timer that is
    not armed, by counting, also besides the one that is lost.
- `SocketReadProofs`. `ReadTypeCorrect`, `OnePieceExactHolds`, and `InOrderHolds`,
  the refinement of `ByteStream`. `OrderInv`: the bytes delivered, in the buffer, in
  the netbuf and in the mailbox are, one after the other, 1, 2, ... up to the last
  one sent. `CallInv` relates what a call has stored and what remains. Every step
  maps to `Send`, `Deliver` or a stutter (`StreamStep`).
- `StreamWriteProofs`. `WriteTypeCorrect`, which includes that the buffer never
  overflows; `NothingLostHolds`, `OnceInOrderHolds`. `WriteInv` adds to them how far the
  write under way has got (`CallInv`), that what TCP has taken of it is on the wire
  (`HandedInv`), that no byte has a number not given out yet (`NumberInv`), and that
  wire, the rest of the write and the buffer together are in order (`OrderInv`).
- `HttpServerProofs`. `OneAfterStopHolds` from `StopInv`: once a connection has been
  accepted after `stop`, the thread is not at `accept` and `GetContext` does not lead
  there. `NoneLeakedHolds` from `LeakInv`: between two turns no context exists, so
  an accept finds no connection open. `OverrunOnlyAfterFailureHolds` and
  `OwnAnswerHolds`, for requests that are `WellFormed`, which is what makes `read_line`
  find the ends of lines; TLC checks the hypothesis for the requests of the run.
  The first is from `QueueInv` (a connection waits once and is untouched until it is
  accepted) and `LineInv`: unless a read has failed, the line buffer holds exactly the
  characters of the request from the start of a line to the place reached. The second
  adds `ParseInv`: what the Request-Line has been taken for is what the request asks;
  `WriteInv`: what the client has is the part of the answer written so far, and has a gap
  only behind a reset; and `ClosedInv`, which keeps this for connections that are closed.
- `SntpProofs`. `SntpTypeCorrect`, `NeverAheadHolds`, `NotFarBehindHolds`. `SyncInv` adds that a
  sample always has room (`RoomInv`), that the times of an exchange, of replies in the
  mailbox and of the last one read are in the order in which they were taken
  (`ExchangeInv`), that the average so far is within the bounds of as many samples
  (`AverageInv`), and that `cur_tm` is within those of all (`EndInv`).
- `ApplicationProofs`.
  - Calendar: `CalendarDateRight`, up to any last day. `DateInv` says that the number of
    the day is that of the reference's date by the inverse formula, 365 days a year with
    the leap days and months of 153 fifths of a day counted from March. A year is split
    into its place in era, century and four years (`YearParts`), from which the divisions
    of `set_ticks` are worked out (`ErayearRight`), and the month by cases (`MonthRight`).
    `EraPeriodic`: what it computes repeats after 400 years but for the year.
  - Numbers: `TextIsRight`, `ParseIsRight`, for every width and every length of a text.
    `TextInv`: what is left of the number, moved by the digits made, and those digits make
    the number up (`DigitsInv`); what `parse` has read is the leading part of the text's
    number, modulo the range for `UInt32` (`ReadInv`). Powers and the number that a text
    stands for are recursive functions of the length.
  - Start-up: `StartAllOrNothing` from `StartInv`, which gives the fields of both services for
    each place of `app_main` and of `Httpd::start`.
  - Body of a response: `ChunkLengthRight`, `ChunkSmallBodySafe`, `ChunkAllFreed` from
    `ChunkInvariant`: the chunks are linked in the order of their allocation, all but the
    last are full of what was stored, in order, the count is that of the bytes stored, what
    has been sent is what lies in the chunks before the enumerator, and a pointer that was
    never set is met only behind a second chunk.
- `MemoryPoolProofs`. `PoolTypeCorrect`, `OneHolderHolds`, `AccountingHolds`,
  `FaultOnlyInWindowHolds`, and `SafeAmongEqualsHolds`: among threads of one priority and
  without `get_isr` the list is never taken empty. `PoolInv` adds that a thread is in the
  queue once and only while it waits (`WaitInv`), and that a block on its way back, on the
  list, or with a handler is nowhere else (`PlaceInv`, `IsrInv`).

What a recursively defined sum or power computes is proved by the least
counterexample: a set of natural numbers that is not empty has a least element
(`LeastNat`, from the well-foundedness of < on the naturals), so that a fact that holds for 0
and is passed on from n to n + 1 holds up to any bound (`Climb`). It is stated for a set, not
for a formula, which is what the provers can instantiate.

Every invariant and every action property that a passing run checks is proved, and so is
the refinement of `ByteStream`. Model-checked only are the liveness properties (`FrameTaken`, `TxSent`,
`Answered`, `AttemptEnds`, `SyncedUnlessFailing`, `KeepsRunning`, `WebUp`, `MainEnds`), which need
fairness and ENABLED and are out of the prover's reach.

## Not modelled

- lwIP's protocols, mbedTLS and the HAL beyond the Ethernet functions: vendored and
  used unchanged. The kernel: its source is not in the repository; its priority
  scheduling, `loc_cpu` and semaphores are assumed as the code uses them. They make up
  nearly all the lines of the repository.
- `Semaphore`, `Mutex`, `EventFlag`, `DataQueue`, `sys_sem_*`, `sys_mutex_*`, `sys_thread_new`:
  one kernel call each.
- `ThreadPool` and `Timer`: `Timer::create` takes a positive identifier for an error, so
  no timer can be created, and nothing else queues work items.
- The reference counts of `String`: no `String` is shared between threads. Comparison,
  concatenation and callbacks keep no state.
- `HttpListenerRequestStream`: the length it is given is always 0, because the length of
  the request is parsed into a variable that shadows the one it is given.
- Nested use of `sys_arch_protect`: the firmware sets `SYS_LIGHTWEIGHT_PROT` to 0 and
  calls neither function.
- The TLS stream: not reached by the application.
- Start-up before `app_main` (clocks, caches, kernel objects, constructors), LCD and GPIO:
  sequential initialisation of hardware.
- `Rtc::reset`, `disconnect`, `ethernetif_set_link`, `networkd.c` (`#if 0`), `httpd.c`,
  `mdnsd.c`, `websocket.c`, `dummy_stdlib.c`: disabled, stubs or never called.
- Failed allocations other than those of `ChunkBuffer`, and stores beyond a buffer: the
  models stop where the code's behaviour becomes undefined.
