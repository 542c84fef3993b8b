# A verification model of the BeagleBone AI-64 heterogeneous application

The repository shows two programs that share one TDA4VM: a Linux process on the A72 cores and bare-metal
firmware on an R5 core, which call functions of each other over RPMsg, and a set of smaller demos on the PRU cores.
This directory holds TLA+ models of its protocols, configurations that check them with TLC, and theorems about
them that TLAPS checks. Paths below are relative to `src/`.

## Inventory

| Part | State | Operations | Talks to |
|---|---|---|---|
| Linux client, `LINUX_SIDE/linux_code/src/rpmsg_char_example.c` | `rcdev`, `rpmsg_connected`, `next_reconnect_attempt_ms`, `r5_remoteproc_was_running`, `r5_remoteproc_running_since_ms`, `req_id_counter` | `rpmsg_try_connect`, `drain_pending_messages`, `run_demo_cycle`, `wait_for_response`, `handle_request_linux`, `rpmsg_mark_disconnected`, `rpmsg_cleanup` | R5 over RPMsg; sysfs; the rpmsg_char library |
| rpmsg_char library, `.../rpmsg_char/rpmsg_char.c`, `utils.c`, `soc.c` | `ghead`, its mutex, saved signal handlers | `rpmsg_char_init`, `_open`, `_close`, `_exit`, `signal_handler` | kernel character devices, sysfs, `rpmsg_cleanup` of the client |
| R5 application, `R5_SIDE/r5_code/src/example_rpmsg_talk.c`, `main.c` | `remoteEndPt`, `linux_ping_resolved_once`, request id | `process_linux_messages`, `handle_request_r5`, `send_blocking_request_r5`, `send_nonblocking_command_r5`, `mark_linux_peer_stale` | Linux over RPMsg |
| R5 IPC and stop, `R5_SIDE/r5_code/src/ai64/bbai64_rpmsg.c` | `gbShutdown`, `gbShutdownRemotecoreID`, `gSciclientReady` | `setup_ipc`, `IpcRpMboxCallback` (interrupt), `finalize_ipc_shutdown` | kernel remoteproc over a mailbox |
| Two-core LED demo, `extra-examples/rtu0_0-pru0_0-rpmsg-led` | `struct led_mailbox` in shared memory, `last_seq` | `mailbox_init`, `mailbox_request_and_wait`, `blink_led`, `run.sh` start/stop | RTU0_0 and PRU0_0 over shared memory, Linux over RPMsg |
| One-core LED demo, `extra-examples/pru0_0-rpmsg-led` | vring, event flag, channel | `pru_rpmsg_*`, `parse_uint32`, `blink_led`, `blink_count.py` | kernel and script over RPMsg |
| Framed UART driver, `R5_SIDE/r5_code/src/ai64/bbai64_uart.c` | `is_initialized`, marker match, deadline, FIFO | `write_frame`, `read_frame`, `drain_rx`, plain reads, checksums | a peer on the line |
| Semaphore in shared memory, `SHARED_CODE/include/bbai64_semaphore.h`, `bbai64_atomic.h` | one word | `sem_wait`, `sem_post`, `sem_trywait` | all cores |
| Shared memory, `SHARED_CODE/src/shared_mem.c` | the bytes of the region | `strlen_aligned16`, `memcpy_aligned16`, `full_pages` | R5 |
| Trace buffer, `R5_SIDE/r5_code/src/setup.c`, `scripts/print_trace0.py`, `print_dual_trace.py` | buffer, `gTraceBufIndex`, `last_line_count` | `_write`, `trace_putc`, poll, wait until ready | kernel's trace file |
| R5 start-up, `R5_SIDE/r5_code/src/setup.c`, `R5_SIDE/r5/our_MpuP*`, `our_CacheP*`, `our_HwiP*` | MPU regions, cache and interrupt bits, VIM lines | `Reset_Handler`, `our_MpuP_init`, `our_CacheP_init`, `Intc_Init` | everything that runs later |
| R5 exception entries, `R5_SIDE/r5_code/src/setup.c` | registers, saved status, stack | seven vectors | interrupted code, C handlers |
| R5 time, `R5_SIDE/r5_code/include/ai64/bbai64_clocks.h` | 64-bit counter in two halves | `get_current_ticks`, `delay_ticks`, deadlines | UART driver, RPMsg waits |
| I/O tests, peripheral drivers, random numbers, scripts, overlays | registers | - | - |

What is hard in this code, and which property is after it (PROJECT.json, `hazards`, has every one with its line):

* **Two single threads that block on each other.** Each side makes blocking calls, and each must serve the other
  from inside its wait loop. Late responses, responses of a rebooted R5, pings and commands arrive in between.
* **A peer that is learnt and forgotten.** Linux pings once per connection; the R5 forgets the endpoint after any
  timeout or failed send and learns it from whatever comes next, perhaps from a process that is dead.
* **Independent restarts.** The client watches sysfs, waits, backs off; the state is read twice per attempt.
* **A stop that must be answered in time**, wherever the main thread is, to a core whose id is 0, before anything
  that can hang.
* **A mailbox without a lock** between two cores that are restarted over memory that keeps its content.
* **Exit from a signal handler**: the library frees what the client still points to, under a mutex the interrupted
  thread may hold, on devices the kernel is taking away.
* **A byte stream with noise** in which a marker can begin inside a failed match, a call can time out inside a frame,
  and a length can lie.
* **A compare-exchange that is not atomic**, and means the opposite of itself on other architectures.
* **Code that runs before there is anything to rely on**: caches and MPU regions in the right order, interrupts
  unmasked before the vectors are set, exception entries that must leave no trace.
* **Values read in pieces**: a counter in two halves, a log by somebody who only counts its lines.

What would make each part correct:

* Linux client and R5 application: every call is answered when nothing fails; what a call returns was computed for
  that call, once; the R5's idea of its peer is current and comes back.
* Reconnection: an R5 that stays up is connected to, one that is gone is let go, no endpoint is lost, the grace
  period is kept.
* Stop: acknowledged once, in time, to whoever asked.
* LED demo: the answer follows exactly the blinks asked for.
* rpmsg_char library: the list holds what is allocated; a signal ends the process, and no endpoint device outlives it.
* UART: a call gives the oldest frame or says why not, and finds its way back after damage, each as far as what looks
  like a frame is one. The checksums notice what checksums of their names notice.
* Semaphore: what its header says it does not give, mutual exclusion, and what is left: units are accounted for until a
  store overwrites a store, and nobody spins over a unit.
* One-core LED demo: a run prints the answer to its own request; no message is left in the vring.
* Trace: the buffer holds the end (R5) or the beginning (PRU) of what was written; lines are printed once and in order.
* Start-up: no dirty line is lost, no interrupt comes early, memory is mapped as the linker script uses it.
* Exception entries: the interrupted code finds its registers, status and stack. Time: no torn value, no short wait.

## Modules

| Module | Models | Kind |
|---|---|---|
| `RpcClient` | what a blocking call promises its caller | abstract specification |
| `RpmsgTalk` | client and firmware exchanging messages over two virtqueues | composition of both programs, the kernel and the operator |
| `MCRpmsgTalk` | both sides' calls mapped to `RpcClient`, one restart of the client | refinement, model checking |
| `RpmsgTalkProofs` | theorems about `RpmsgTalk` and `MCRpmsgTalk`, the refinement among them | proofs |
| `LinuxReconnect` | how the client finds the R5 again, with time | component and its environment |
| `RpmsgCharLib` | the endpoint library, exit and signals under the client | component, kernel, client's clean-up |
| `MCLinuxClient` | `LinuxReconnect` or `RpmsgCharLib` | model checking |
| `LinuxClientProofs` | the list, the devices, the states of the client | proofs |
| `R5Shutdown` | bring-up and stop of the firmware, with time | component, interrupt, kernel |
| `R5ShutdownProofs` | theorems about `R5Shutdown` | proofs |
| `LedService` | what the LED demo promises | abstract specification |
| `LedMailbox` | RTU0_0 and PRU0_0 over the shared words | both programs and `run.sh` |
| `PruNumbers` | `parse_uint32`, and the script's message | pure function |
| `PruTexts` | every short text, with a reference definition | check of an algorithm |
| `PruLed` | firmware, kernel and `blink_count.py` of the one-core demo | composition |
| `MCLeds` | `LedMailbox`, `PruLed` or `PruTexts` | model checking |
| `LedProofs` | both demos, the refinement of `LedService` and `parse_uint32` among them | proofs |
| `FrameChannel` | what framed reads promise | abstract specification |
| `UartChecksum` | the four checksums, one byte at a time | pure functions |
| `UartFrame` | writer, noisy line and reader, byte by byte | component and its peer |
| `UartFrameProofs` | marker search, length field, size on the wire, the refinement of `FrameChannel` | proofs |
| `ChecksumPair` | the checksum of what was sent beside that of what was heard | check of an algorithm |
| `ChecksumPairProofs` | single wrong bytes and bursts of two are noticed | proofs |
| `MCUart` | two configurations of `UartFrame`, or `ChecksumPair`; the mapping to `FrameChannel` | refinement, model checking |
| `R5Boot` | `Reset_Handler` with MPU, caches, VIM | component |
| `ExceptionEntry` | seven exception entries, instruction by instruction | component |
| `GlobalTimer` | reading the counter, waiting | component |
| `TraceLog` | trace buffer, kernel's trace file, scripts | composition |
| `MCR5Core` | `GlobalTimer`, `R5Boot`, `ExceptionEntry` or `TraceLog` | model checking |
| `R5CoreProofs` | clock and waits, start-up and memory map, trace | proofs |
| `SharedSemaphore` | the semaphore, one memory access a step | component |
| `SharedMemoryProofs` | accounting of units; exact lengths, copies and mappings | proofs |
| `AlignedCopy` | aligned length, copy and page rounding | pure operations on a memory |
| `MCSharedMemory` | `SharedSemaphore` or `AlignedCopy` | model checking |

Five of the MC modules (`MCLinuxClient`, `MCLeds`, `MCUart`, `MCR5Core`, `MCSharedMemory`) check parts that share no
state in the code side by side: the variable `part`, chosen in the initial state and never changed, says which part a
behaviour is about, and the others stay as they are. Such a specification is the union of those of its parts, with
the fairness of each stated for its own steps; a property is that of the part, which `MCInit` keeps trivially true for
the others. A part that is not running costs one state, not a product.

`map` in PROJECT.json names the lines behind each definition. Operators commented "Mutant" are plausible bugs that no
specification uses; they show that each property can fail.

### RpmsgTalk

A program is its program counter (`lpc`, `rpc`), its globals under the names of the code, and the call it has open.
An action is one pass of a loop body up to the next place where the other side can be noticed: a read of one message
with everything that is done to it, a send, a timeout. `handle_request_linux` is split in two
(`LinuxTakesRequest`, `LinuxSendsResponse`) because it burns time in between; the R5's `Osal_delay(500)` before a
second send is the state `"resend"`. `toR5` and `vring` are the virtqueues, `inbox` what the kernel keeps for the
Linux endpoint; all three are bounded by `Capacity`. Abstracted: parameters and results; the clock (with `Timeouts`
a wait may end at any time, and without it never); the content of log lines; the byte layout of `MESSAGE`.

### LinuxReconnect

Instants are kept as ages and remaining times, capped where the code no longer tells them apart, so that there is no
bound on the clock. `rpmsg_try_connect` is four steps, because sysfs is read twice and the devices appear and vanish
in between; `late` is how old `now_ms` has become, up to `MaxLate`. What cannot be read from sysfs counts as running
(`Running`), as in `is_r5_remoteproc_running`.

### R5Shutdown

Here messages are a choice and the time the main thread spends is what counts: every delay of the code is a number of
100 ms units, everything else takes none. `IpcRpMboxCallback` is the only thing that can happen in the middle of a
delay. The kernel sends `RP_MBOX_SHUTDOWN`, waits up to `StopTimeout`, and may try again after it failed. The I/O
tests before `setup_r5_example_talk` are one place in which nothing is heard. Setup may fail at every step at which
the code checks. The ACK, when it is sent, arrives (the status of `Ipc_mailboxSend` is only printed).

### LedMailbox

One action per load or store of the shared words. `run.sh` starts RTU0_0 before PRU0_0 and stops them in the
opposite order (`Together`), or somebody restarts one of them alone. The memory holds any values at power-on. The
RPMsg side of the RTU is one action (`Take`); `MaxSeq` bounds how many requests are made between two restarts and
stands for the 2^32 - 1 after which `seq` wraps.

### RpmsgCharLib

The process has one thread. `pc` is where it is in `rpmsg_char_open`, `rpmsg_char_close` or the client code around
them; each kernel call is a step, so that the R5 can stop between any two. `rproc` distinguishes a processor that is
being stopped and still "running" in sysfs. A signal replaces the thread by the handler (`phase`), which never returns
and finds the mutex as it was; `exit` then runs `rpmsg_cleanup_atexit` of the client over what the handler has left.
Memory is `Handles` (`alive`), devices and file descriptors are small sets that are reused, as the kernel does.
Transport errors, on which the client abandons an endpoint, occur only when the device is gone. A second signal and
several threads in the library are left out: the client has neither handler nesting nor threads.

### UartFrame, FrameChannel

A peer sends frames made by `WriteFrame`; `line` is what is on the wire of the frame being sent, `fifo` what the
receiver has. The reader takes one byte a step; before each the deadline may have passed (`Timeout`), as
`bbai64_uart_read_byte_before_deadline` looks at the clock before it looks at the FIFO. `pc` runs through marker,
length, discard, payload, checksum and end marker. `NextMarkerMatch` remembers only how much of the marker is matched,
as the driver does. The other operations of the driver (init, drain, plain reads) take bytes out of the same FIFO.
`faults` bounds noise bytes, damaged and lost bytes, and time-outs. `FrameChannel` is what the comments in the header
promise; a channel queue is the frames whose first byte has been read and those that wait (`current \o awaited`).

The writer neither escapes a payload that contains the start marker nor refuses it, and noise or a byte that is lost can
complete one, so the model sends all of it. A reader that begins a search inside such a payload takes it for a frame.
Two histories say when that cannot be: `clean`, nothing on the line has looked like a start marker but where a frame
begins (`Clean`), and `whole`, there was no noise and no read, drain or set-up has ended inside a frame. `FramesInOrder`
promises the channel while one of them holds (`Tame`): with clean payloads whatever noise there is and wherever reads
end, with any payloads as long as each frame is read to its end. Once a history has ended it stays so; when both have,
`FramesInOrder` promises nothing more, and `Resync` takes over: if from some time on nothing unclean is put on the line
(`CleanPut`), then only finitely many intact frames are lost (`lost`: no call reports the payload, or the size, of the
frame whose beginning was read; `Reports`). Without that premise it is false: in the second configuration of `MCUart`
the length and the payload of one frame spell the start marker, a reader that has begun there takes the beginning of the
next frame for a length, and with no checksum to tell, it may stay out of step and lose intact frames again and again.
The comment at `bbai64_uart.c:492` says only that the parser *can* recover, which is why there is no finding of it.

An invalid frame configuration is refused before anything happens and is left out. `TIMEOUT` during the discard of a
frame that is too large leaves `*payload_length` nonzero; `FrameChannel` promises nothing of it.

### UartChecksum, ChecksumPair

`UartChecksum` has the checksum state and its update, bit by bit, as functions of a byte. `ChecksumPair` feeds two of
them, one with the bytes sent and one with the bytes heard.

### SharedSemaphore

Each load and store of `value` is a step of one process. On ARM the compare-exchange is a load with its test and a
store; elsewhere it is one step whose result means the opposite. History variables record what has been given and
taken, and whether a store has overwritten another one's (`raced`). `MaxCalls` bounds all calls together. Plain `int`
overflow is out of reach of that bound.

### PruLed, PruNumbers, PruTexts

The firmware is its inner and outer loop and `blink_led`; the kernel is the virtio device's status, the channel and
its endpoint; the script uses the channel's device or creates one of its own, writes, waits and prints the first
answer. A message is in `vring` before its kick sets `event`. The core may be stopped and started at any place: that
removes the device (`DeviceGone`) and what is queued. The 30 s of the script are any time (`GiveUp`, without fairness),
and `gaveUp` remembers that an answer may have been left behind. The kernel's probe (`DRIVER_OK`) comes later than the
first instructions of the core. The result of `pru_rpmsg_send` is ignored by the code, and the model always has a buffer
for it. `PruNumbers` writes `parse_uint32` as a recursive function over digits, blanks, NULs and other characters;
`PruTexts` applies it to every short text. `Word` stands for 2^32.

### R5Boot

`Reset_Handler` call by call, `our_MpuP_init` region by region, the VIM loop line by line. Addresses are megabytes, as
no region is smaller; the six rows are `gMpuRegionConfig`, with the value of the last of overlapping regions
(`Attributes`). The address mask of the 4 GB region shifts 1 by 32, which C leaves undefined: `{0, 1}`. Between steps
the core stores (a dirty line if the cache is on), devices raise lines, and unmasked interrupts are taken. After
`_start` a jump to vector 0 runs all of it again on a core whose caches and MPU are on. Left out: enabling the vector
port of the VIC and the L2 bits, which change nothing here; regions 6 to 15, which are off after a reset and are never
written (after a warm entry they are as the program left them, which it never does).

### ExceptionEntry

Each vector is a program of symbolic instructions, and one step executes one. Register contents are known by their
origin, so that "restored" means the very value the interrupted code had. A C handler may change all that the calling
convention lets it (r0-r3, r12, and with hard float d0-d7) and, for `masterIsr`, unmask interrupts and be interrupted.
Only `DAbt_Handler` looks at the T bit; the others are entered from ARM state, for which the firmware is built.
r12 is taken as shared in FIQ mode, which the entry saves and restores all the same. The numbers subtracted from the
link register are the code's; what they mean per exception is the processor's (`Undef` and `SVC` go back to the
instruction itself).

### GlobalTimer

The counter ticks between any two register reads; halves have `Half` values. `get_current_ticks` reads high, low, high
and starts again when the high half has changed. The deadline is computed modulo `Half * Half` as in 64 bits.

### TraceLog

`PutRound` is the loop body of `_write`, `PutUntilFull` is `trace_putc`; `core` says which of the two a behaviour is
about. A line is two characters and a newline; the R5 hands `_write` whole lines, the PRU writes characters. The kernel
shows the buffer up to the first NUL while the core runs, and no file when it does not; a start loads the image with an
empty buffer. `Poll` is one turn of a script's loop. The scripts say that they do not handle the buffer running over,
so the properties of printed lines stop there.

### AlignedCopy

The three operations of `shared_mem.c` on a memory of a few bytes; the volatile copy has the same text as the plain one.

## Runs

| Run | Configuration | Shows | Size |
|---|---|---|---|
| `fault_free` | `TalkFaultFree` | nobody stopped, no timeout: no call fails and each is answered, both sides blocked on each other included | one endpoint, ids 0..3 that wrap, queues of 3, batches of 2 |
| `recover` | `TalkRecover` | the R5 gets its endpoint back again and again | one endpoint, queues of 1, batches of 1, all faults |
| `rpc` | `TalkRpc` | the R5's peer is current or unknown once it has read everything; both sides' calls implement `RpcClient` | two endpoints (symmetric), ids 0..3 without wrap, queues of 2, timeouts, R5 stops, one client restart |
| `linux_client` | `LinuxClient` | connects, lets go, loses no endpoint; the library's list is sound, a signal ends the process, only devices that failed to open outlive it | back-off 2, grace 5, an attempt may take 1; 3 handles and devices, 2 descriptors, every open may fail |
| `reconnect_grace` | `ReconnectGrace` | **violated**: the grace period is skipped after a stop | back-off and grace as above |
| `shutdown` | `Shutdown` | acknowledged, once, within 2 s | delays of the code in 100 ms, the kernel's patience 20 |
| `shutdown_setup` | `ShutdownSetup` | **violated**: a failed setup leaves a later stop unanswered | same |
| `leds` | `Leds` | the mailbox implements `LedService`, requests end; the script prints its own answer, messages are served; numbers are read as written | mailbox: up to 2 blinks, 3 requests; script: 3 runs, 1 stop, counts 1, 2, 15; texts of up to 4 of 7 characters, word 256 |
| `led_restart` | `LedRestart` | **violated**: an old acknowledgement answers a new request | mailbox as above, cores restarted singly |
| `uart` | `Uart` | the reader implements `FrameChannel` while that is promised; the longest match is kept; it finds its way back once only frames look like frames; checksums notice what they should | marker AA AA 55; two-byte lengths, SUM8, end marker, buffer 2, payloads of one marker byte and of what looks like a frame; one-byte lengths alone, payloads of two bytes, which with their length spell the marker, and of three; FIFO 1, 2 faults; messages of 1..9 bytes, every wrong byte |
| `r5_core` | `R5Core` | no torn read, no short wait; nothing lost or early in start-up, memory as linked; interrupted code restored; the trace keeps its end and is printed in order | halves of 5; 3 VIM lines, all regions; 7 vectors; buffer of 10, 7 lines, 2 starts |
| `shared_memory` | `SharedMemory` | units are accounted for, nobody spins over one; length, copy and rounding are exact | 3 processes, 4 calls, 1 unit; 6 bytes, every copy |

Why the bounds are enough. In `RpmsgTalk` four ids are more than the calls that can be in flight (one per side, plus
the late response of one given up, plus one of a command), so a wrap can meet an old id if it ever can; `rpc` runs
without a wrap because an id really does come round again after 2^32 calls. Queues of one and two messages are the
smallest that are full, half full and empty; the three of `fault_free` are the fewest with which `NoCallFails` is true
(`CallsSucceed` proves it for every larger queue, the code's 256 buffers among them): with two, a request, a response
and a command can meet in one direction. A second endpoint is enough to tell a
current peer from a stale one. In `LinuxReconnect` the grace period is longer than two back-offs and not a multiple
of one, and `MaxLate` makes one attempt straddle a tick. In `Shutdown` the real lengths are used, and 20 is the
smallest patience that suffices: the worst case is 19 units, a resend (5), a short burn (2) and a long one (12). The
kernel's 5 s are longer. In `LedMailbox` three requests are two generations of sequence numbers and a restart; in
`PruLed` a third run can meet what two before it have left.

Two descriptors and three handles are enough for an abandoned endpoint whose number is reused while a new one is open
and another is on its way. The marker `AA AA 55` overlaps itself, and of the two payloads of each configuration one ends
in bytes of it and one holds it or, with the length, spells it, and one is too large for the buffer, in the second
configuration the one that is clean; two faults are the damage of one frame and a time-out inside it or the next. The
first configuration has lengths in two bytes (`U16_LE`), the second in one byte with an adjustment of 168, so that a
length read from the wrong place, the marker's `AA`, is the small number 2; the third layout changes only numbers
(`LengthRoundTrip` proves them). Three processes and four calls give a store that is overwritten, a third that sees it,
and one more that waits. Texts of three digits lie below, at and above the word of 256. Three VIM lines are none, one
and several of the loop. Halves of 5 and `Last` 12 let the low half run over twice; the time 12 with two cycles each,
added to a counter that has begun to run, is beyond the 25 values of 64 bits. The trace buffer's length is not a
multiple of a line, so lines are split at its end, and seven lines go around it twice.

`CHECK_DEADLOCK FALSE` is set where a bound or the end of the work ends a behaviour: ids without wrap (`rpc`), requests,
runs of the script and texts (`leds`, `led_restart`), the end of a message (`uart`), trace lines and exception entries
(`r5_core`), and `MaxCalls` (`shared_memory`). The other runs check for deadlock.

Fairness. Both programs of `RpmsgTalk` are loops that never end, and the kernel's virtqueue interrupt is served: weak
fairness of each. Stops, boots and restarts are nobody's duty. `LinuxReconnect` needs strong fairness of
`PingSucceeds`: an attempt reaches the ping again and again, and the queue it writes to is polled by the R5, so it is
not full at every one of them. In `R5Shutdown` the core runs, takes its interrupts, and time passes; `VdevReady` is
not fair since Linux need never come up. In `LedMailbox` both cores run, but nobody need send a request. The process
of `RpmsgCharLib` runs on; signals and stops need not come. The UART reader runs, bytes that are on the line arrive, and
a silent line reaches the deadline; the peer need not send. A core inside a semaphore call runs on (weak fairness of
each process); none has to call. In `PruLed` a started core, the kernel's probe and the script run; nobody need give up.
The other modules state safety only.

## Findings

Each is a run that TLC answers with a behaviour.

1. **The grace period is skipped** (`rpmsg_char_example.c:281`, run `reconnect_grace`). After the client has seen the R5
   stopped it should wait `REMOTEPROC_RPMSG_GRACE_MS` once it runs again. The first look at sysfs returns early and
   leaves `r5_remoteproc_was_running` set; when the R5 is back the old time of start counts, and the endpoint is opened
   at once. Only a stop that falls between the two looks resets it. (`README.md:180`)
2. **A stop after a failed setup is never acknowledged** (`main.c:79`, run `shutdown_setup`). `main` returns 1 with the
   mailbox callback registered. (`bbai64_rpmsg.c:45`)
3. **An answer without blinks** (`rpmsg_led/main.c:121`, run `led_restart`). A restarted RTU0_0 begins again at sequence
   number 1 while PRU0_0 still works on request 1 of before; its `done_seq` answers the new request. `run.sh start`
   restarts a single core that is offline. (`led_mailbox.h:5`, the example's `README.md:5`)

Also seen while modelling. These have no run; the properties above leave each of them out by a premise or a
constant, named here:

* A signal inside open or close locks the mutex its own thread holds, and the process hangs (`rpmsg_char.c:530`;
  `SignalsInCalls = TRUE` makes `SignalEndsProcess` fail).
* The handler frees the endpoint whose `fd` `rpmsg_cleanup` then reads (`rpmsg_char_example.c:201`), and destroys
  endpoints of a bus that is going away, which the client takes care to avoid (`rpmsg_char.c:518`).
* A name of 31 characters passes the check and leaves a device that is never found (`rpmsg_char.c:587`; `NameLength`).
* The compare-exchange of other architectures returns the opposite of what its callers expect (`bbai64_atomic.h:47`;
  `Arm = FALSE`), and `sem_trywait` can fail although the value is positive (`bbai64_semaphore.h:71`).
* A late acknowledgement is printed by the next run of the script (`blink_count.py:192`; `gaveUp` in `PrintsOwnAck`).
* Counts of ten digits wrap modulo 2^32 (`main.c:94` of the one-core demo; `Word`).
* `DAbt_Handler` changes r0 and r1 of the interrupted code (`setup.c:357`), and six of the seven entries do not save
  d0-d7, which C may change (`setup.c:410`; `Kept` in `ExceptionEntry`).
* The trace scripts never complete a line they have read half-written (`print_trace0.py:84`), and skip the first
  lines of a core that is restarted between two polls (`print_trace0.py:78`; `NewLinesPrinted` is about the first life
  and whole lines).
* A start marker inside a payload, which the writer neither escapes nor refuses, is taken for a frame by a reader that
  lost its place, and the reader may stay out of step (`bbai64_uart.c:893`; `Tame` in `FramesInOrder`, `CleanPut` in
  `Resync`).
* `strlen_aligned16` is one short at an odd address (`shared_mem.c:41`; `Starts`).
* A restarted client counts its ids from 1 again and may be given the address of the old endpoint, to which a response
  is still on its way: what `LinuxCallsAreRpc` promises ends with the first client (`restarted`).

## Proofs

All theorems hold for every value of the constants, under the assumptions named in the modules.

* `RpmsgTalkProofs!TypeCorrect`: `Spec => []TypeOK`. The inductive invariant `TInv` adds `ControlOK`, which ties the
  positions in the demo cycles and batches to the program counters.
* `RpmsgTalkProofs!PeerCorrect`: `Spec => []PeerIsCurrent`. The property speaks of an empty queue, so it is not
  inductive. `PeerInv` says it of the last message of the queue: whoever reads everything ends with the sender of
  that one, and while the client is attached nobody but the client writes; the R5's own invalidations only make
  the peer unknown.
* `RpmsgTalkProofs!R5CallsRefine` and `!LinuxCallsRefine`: `MCSpec => R5CallsAreRpc` and `=> LinuxCallsAreRpc`, assuming
  `~WrapIds` (nobody calls again once its counter has come round) and nothing about sizes. The property looks at a call
  from its caller; what makes it true is spread over both queues, the inbox, the response the R5 has yet to resend and
  the request the client is working on. The invariant of a side has three parts: where the program counter is while a
  call is open (`R5Place`, `LinuxPlace`); that an id not used yet is nowhere (`R5Fresh`, `LinuxFresh`); and that of the
  call that is open there is at most one request anywhere until the peer has run the function, and no response before
  (`R5CountOK`, `LinuxCountOK`). A queue is seen only through whether it holds a message of a kind and id, and whether
  a request is in it once (`In`, `Once`). A restart of the client costs it its own invariant, not that of the R5.
* `RpmsgTalkProofs!CallsSucceed`: `Spec => []NoCallFails`, assuming `NoFaults`: nobody is stopped or restarted, no wait is
  cut short, and a queue holds three messages (the code's hold 256). `FlowInv` makes of each direction one lane of at
  most three messages, a request, a response and one that asks for nothing, a request behind the latter (`Lane`),
  although it is two queues on the way to Linux. `CallOK` follows the call of a side through both lanes: its request is
  on its way, or the other side is at work on it, or its response is on its way back, and nothing is ahead of the first
  request of a cycle but the command of the cycle before. So there is always room for what is to be sent, and a response
  that arrives is that of the call that waits. Ids may wrap: what is unique is not the id but the message.
* `LinuxClientProofs!EndpointsSound`: `MCSpec => []EndpointsAreSound`, for any number of handles, devices and
  descriptors and wherever the signal arrives. The invariant `LibInv` follows a handle through `rpmsg_char_open` and
  `rpmsg_char_close`: on the list exactly between the two (`OnList`), in no two places at once (`InUse`), its device
  and descriptor its own unless it was abandoned (`Devices`). It is needed because the walk of `rpmsg_char_exit` frees
  what it stands on: its next handle is always one that has not been closed.
* `LinuxClientProofs!NoDeviceLeft`: `MCSpec => []NoOtherDeviceIsLeft`. Two more invariants: whatever device is open is
  that of the call in progress, of a handle the walk has not passed, or behind the one it stands on (`Reached`); and
  the devices nothing holds open are at most as many as the opens that failed, or are about to (`Counted`).
  Assumption: the model's names for handles, devices and places are different values (`NamesAreApart`).
* `LinuxClientProofs!TypeCorrect` and `!ClientTypeCorrect`: types, and that an endpoint is held exactly in the states
  that use it.
* `R5ShutdownProofs!TypeCorrect` and `!InTime`. `InTime` assumes that the kernel waits longer than
  `WorstCase == Resend + ShortBurn + Longer(Pause, MaxBurn)`. `Due` is what the main thread may still spend in delays
  if `gbShutdown` is set; the invariant is `Due <= WorstCase` always and `waited + Due <= WorstCase` from the interrupt
  on. It is needed because the bound is about what lies ahead: a short burn that is followed by a resend that is
  followed by a long burn, none of which looks at the flag.
* `LedProofs!BlinksCorrect`: for cores restarted together, `Spec => BlinksAsAsked`, a refinement of
  `LedService`. Every step is a step of `LedService` or a stutter in states of `IInv`. Its core is that `doneSeq` never
  runs ahead (`DoneInv`) and that the PRU is at work only on the request the RTU waits for, once (`PruInv`).
* `LedProofs!OwnAckPrinted`: `MCSpec => PrintsOwnAck`, for any number of runs of the script and of stops of the core,
  and any counts. Answers carry no number, so what is at the endpoint must be all there is: until a run gives up there
  is one message, or the work on it, or its answer, of the run in progress, and nothing between two runs (`OneInv`).
  That the count in it is the one asked for holds of every run's answers (`AnswerInv`). Which of the two endpoints the
  script reads is settled by `DeviceInv`: a script that made its own device found no channel, so no message that is
  still to be answered came through one. That the text of a count is read as that count is
  `ReadsBack`, by induction over its digits. Assumption (`SingleAssumption`): the counts fit the word, and white space,
  NUL and other characters are no digits and not each other.
* `LedProofs!LeadingNumberRead`: `MCSpec => []ReadsLeadingNumber`, for texts of any length. The invariant of the loop
  (`After`) says that the characters so far are blanks, or blanks and digits whose value modulo the word is `val`
  (`Places`), or that the number has ended; taking the remainder at every digit comes to the same as taking it at the
  end (`LateRemainder`). Induction over positions and digits is by the least element of a set of numbers (`UpTo`), as
  the library's induction theorems take an operator; `Recursion` gives the recursive functions their equations.
* `LedProofs!TypeCorrect` and `!TypesCorrect` come from the same invariants.

* `UartFrameProofs!SearchCorrect`: `MatchIsLongest` for every marker of up to eight bytes. Its invariant says that the
  bytes read since the call end in the part of the marker that is matched, and in no longer one; the step is a lemma
  about prefixes that are suffixes (`EndsAfterAppend`): a longer match after a byte was a match one shorter before it.
  `LengthRoundTrip` and `EncodedSizeIsWireLength` are about the operators of the writer and the reader.
* `UartFrameProofs!FramesArriveInOrder`: `MCSpec => FramesInOrder`, the refinement of `FrameChannel` while `Tame`, for
  every marker, length layout, end marker, set of payloads (those that contain the marker, too), buffer, FIFO and noise.
  `Tame` only ever ends (`TameEnds`), and while it holds every step of the driver and its peer is a step of the channel
  or a stutter: in states of `ChannelInv`, which says how the bytes that are on their way lie. They are a stream with
  the unread frames at known positions (`Stream`), and the reader has consumed so many of them. What keeps a search from
  ending inside a frame is either of two things (`Orderly`). If `clean`, a marker stands only where a frame begins
  (`Marked`), and what the peer remembers of the last bytes is enough to see whether the next ones complete one
  (`Remembered`). If `whole`, frames follow each other without a gap (`Contiguous`) and the search began at the first
  byte of one (`Front`), so that it ends behind that frame's marker, whatever the payload (`AtFront`); a call that
  returns has then read its frame to the end (`ReadWhole`). A frame that
  is being read begins at the first position, and the fields read so far are its bytes (`FieldsRead`); so its length is
  known (`LengthKnown`) and the reader stops or discards exactly at its end. A frame passes the last test only if it was
  not damaged (`Verdict`): a frame is damaged in one byte behind its length, in its payload, its checksum or its end
  marker, and the checksum tells (`ChecksumTells`, from `ChecksumPairProofs`). Assumptions (`KeepsStep`): there is a
  start marker, the length field is not damaged, and the checksum covers the payload; without the first two the reader
  may take noise for a frame or lose its place, which is what `Resync` is about, and without the last a damaged payload
  passes. Nothing is assumed of what payloads contain, and nothing is claimed once the behaviour is no longer tame. The
  induction over the bytes of a frame is the least element of a set of positions, since the provers cannot use the
  library's induction theorems.
* `UartFrameProofs!FrameTypesCorrect` and `!UartTypes`: `Spec => []TypeOK` and `MCSpec => []TypesOK` without that
  assumption, so also for a reader that takes noise or the middle of a frame for a frame and whatever it finds there
  for a length. That a frame's first byte is never read before the frame was written then does
  not come from the reader's place in the stream: behind every part of what is on its way (`Counts`) there are no more
  first bytes than frames in `awaited`. Lengths and discards are numbers because a length that is waited for has been
  decoded from as many bytes as the field has (`TypeInv`).
* `ChecksumPairProofs!ErrorsAreAlwaysNoticed`: the update is injective in the running value, so that values that
  differ stay different. For the CRCs one shift is linear over the bits of the register, and so are the eight of a byte.
  For a burst, what one wrong byte leaves behind lies not only in the bits the next byte is fed to
  (`DifferenceSpreads`), so that no second byte can make up for it (`SecondByteDoesNotHide`).
* `ChecksumPairProofs!ValuesAreWellKnown`: `PairSpec => []WellKnownValues`. What the published text leaves in a running
  CRC after each of its nine digits is computed bit by bit (`CrcUpdates`); the invariant `KnownSoFar` says that what has
  been read of a message that is still a prefix of the text has left just that.
* `SharedMemoryProofs!SemaphoreAccounts` and `!SemaphoreTypeOK`: until a store has overwritten another
  (`raced`), the value is `Initial + given - taken`. Needed besides: a process between its test and its store has read
  a value that is still there unless it is `late`.
* `SharedMemoryProofs!CallsAreExact`: `MCSpec => CallsExact` for memories, strings, copies and mappings of any length.
  `CopyStates` gives the loop of `memcpy_aligned16` its states and `WordCopied` its invariant (`Copied`): the words so
  far are those of the source before the call, since a word that is read has not been written unless `dest` lies
  inside the source. `LengthIsFirstNul` takes the least word with a NUL in it; `PagesAreLeast` divides by the page.
  Assumption (`WordsAssumption`): memory is made of whole words, strings begin at even addresses, a page is not empty.
* `R5CoreProofs!TimerNeverTorn`: for every `Half`. The invariant orders the counter at the call, at the read of
  the low half, and now, and ties the halves read to those instants.
* `R5CoreProofs!TimerWaitsLongEnough`: a wait ends on a tick or a second that is past its limit. The invariant
  `WaitInv` says where the limit comes from, a read that began after the wait did; of a wait for whole seconds, the
  one it starts in may count for nothing. Assumption: the 64-bit counter itself does not run over.
* `R5CoreProofs!QuietBoot`: `MCSpec => []NothingLostOrEarly` for any number of VIM lines. `BootInv` adds that nothing
  is dirty while the data cache is off, so that its invalidation loses nothing, and that interrupts stay masked from
  `mask` until no line before `loop`, and then none at all, is enabled.
* `R5CoreProofs!LinkedMemory`: `MCSpec => []MemoryAsLinked`. `MapInv` says of every region register that it is unused
  or holds its row of `gMpuRegionConfig`: the base in each row is a multiple of what `setRegion` may round to, the
  undefined shift of the 4 GB row included. The rows then decide every address (`GivenDecides`, `RowsCover`).
* `R5CoreProofs!CompleteTrace` and `!PrintedInOrder`: `MCSpec => []TraceIsComplete` and `=> PrintsInOrder` for any size
  of the buffer from two on (one would have no room for a NUL after a character) and any number of lines and starts.
  `LogInv` says where in the buffer each character is, for the ring of the R5 and the full buffer of a PRU. From it
  follows what `splitlines` makes of it, for every length: `GlyphLines`, over a ranking of the cuts (`RankExists`).
  `ScriptInv` then ties the output to the core: no entry is of a later life than `starts` (`Lives`), the lines
  counted so far are out (`Counted`), and the last number printed is below all that are to come (`Ordered`), which is
  why a count that is reset too late skips lines but repeats none.
* `R5CoreProofs!ContextIsRestored`: `MCSpec => []ContextRestored`, instruction by instruction. An entry is seen through
  its stack: `Saved1` to `Saved3` for the six short ones, `Master1` to `Master6` for `masterIsr`, each the one before and
  one `Frame`, which is what a push of a register list leaves there. `BriefInv` and `MasterInv` say for every position of
  a program which of them the stack is and which registers already are, or still are, those of the interrupted code
  (`InPlace`, `FpInPlace`, the link register). `PushStep` and `PopStep` are about any register list and any frame: a pop
  of what is on top gives back what was pushed. What another interrupt may change while `open` holds, the link register
  and the saved status, `MasterInv` does not rely on between positions 11 and 19. Which of the two alignments the stack
  has at the call follows from the frames' lengths (`CallIsAligned`).
* `R5CoreProofs!CoreTypes`: `MCSpec => []TypesOK`, from the invariants of the four layers; `StackBound` takes the 18 words of
  a stack from the frames. Needed besides: a stopped firmware has a start left (`StartsLeft`), for which the bound on
  starts must be at least one (`CoreAssumption`).

Theorems are in eight modules, one for each component above, apart from the models.

Only model-checked: all liveness (`CallsAnswered`, `PeerRecovers`, `Connects`, `LetsGo`, `ShutdownAcked`,
`RequestAcknowledged`, `MessagesServed`, `SignalEndsProcess`, `Resync`, `NobodySpinsOverAUnit`), since the prover has no
ENABLED. Every invariant that a run checks is also the subject of a theorem.

## Plan

Done, in the order of how much the system depends on them: the two programs and their calls, reconnection, stop, the
LED mailbox; then the library under the client, the UART driver, the semaphore, the one-core LED demo, the R5's
start-up, exceptions and time, the trace log, aligned copies. What is left:

1. The RTU's RPMsg loop over `LedMailbox`, so that a count goes all the way from the script to the blinks of the other
   core.
2. The scripts as an operator of remoteproc; the walk over cache sets and ways; the ePWM divider search.

## Not modelled

Register programming of SPI, I2C, GPIO, eQEP and ePWM and the tests that exercise it, which run once at boot and share
no state; the walks over cache sets and ways, performance counters, core identification and the debug printing of the
kernel layer; mapping `/dev/mem`, which nothing calls; the start and stop scripts apart from `run.sh` and the trace
readers; the build, deployment and device-tree tooling; random numbers (their ranges are choices); formatting and
logging. Code outside the repository (remoteproc, virtio, the TI IPC library, newlib, the processor's exception
behaviour) appears only as the repository uses it and is marked external in the map.
