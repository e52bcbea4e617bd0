# TLA+ models of BMSTU_OS

The repository collects the laboratory programs of an operating-systems course and
one course work, a Linux kernel module that watches incoming traffic. Each program
is small; what makes them hard is exactly what a test run rarely shows:
interleavings of processes, threads and softirqs, unlocked shared tables, partial
initialisation, processes killed at the wrong moment.

## 1. Inventory

| component | state | operations | hard behaviour | correctness |
|---|---|---|---|---|
| **traffic module** `course_work/code/core_module.c` | `first_layer_table` + `first_layer_table_next_index` (one record per source address in the current period), `from_time`, `second_layer_table` + `_next_index` (history of closed periods), `second_layer_table_read_index` | `catch_traffic`/`add_packet_info` (netfilter hook), `dump_first_layer_table`, `inspect_last`, `read_l2_data`, `read_stats` | hook runs concurrently on several CPUs without a lock; one read index shared by all readers; tables at their limit; 32-bit arithmetic | indices in range, division by the number of addresses is defined, no address twice, what a slice reports is what arrived, the history is the last slices in order, a slice is flagged exactly when it exceeds the limit |
| **module visibility and life cycle** (same file) | place in the kernel's module list, `flag_hidden`, `module_prev`; registered hook and devices | `hide`, `unhide`, `write_command`, `my_module_init`, `my_module_exit` | `module_prev` kept while other modules come and go; failed registration half way | hidden exactly when not in the list; unhide restores the place; unload leaves nothing registered |
| **command line** `course_work/code/cli.c` | an open device, the slices printed | `show_l2_data`, `show_stats`, `hide_unhide` | two command lines at a time, one interrupted half way | one complete listing prints each slice of the history once, in order |
| **producer-consumer** `sem_05/lab_04/pc` | three SysV semaphores, two pointers into the alphabet in shared memory | `producer_work`, `consumer_work`, `main` | 6 processes; kill inside the critical section (no `SEM_UNDO`) | mutual exclusion, no over- or underrun of the 5 cells, consumption in order of production, everything ends |
| **readers-writers (SysV)** `sem_05/lab_04/rw` | two semaphores used as counters, `*counter` in shared memory | `reader_run`, `writer_work`, `main` | loop condition read outside the critical section; starving writers | writers exclude everybody, counter never lost, bounded overshoot, everything ends |
| **readers-writers monitor (Win32)** `sem_05/lab_05` | a manual-reset and an auto-reset event, `count_active_readers`, `shared_variable` | `start_read`, `stop_read`, `start_write`, `stop_write`, `wait_threads` | the writers' event is never reset by a writer; wait and reset are two calls; waits for the wrong handles | documented: writers have monopoly, all threads awaited; real: readers exclude readers most of the time, no thread is stuck |
| **daemon** `sem_05/lab_03` | lock on the pid file, its contents, signal mask, threads | `daemonize`, `already_running`, `thr_fn`, `main` | two copies starting together, signal before the mask is set, crash with the lock held | one copy at a time; the pid file names the copy that runs |
| **process programs** `sem_05/lab_02` (`task_01`..`task_05`) | children, a pipe, a signal flag | fork, exec, wait, pipe, signal | signal at every moment, exit status, order of children | parent reaps every child and reads both messages; reported codes |
| **pure programs** `sem_05/lab_02/p_1.c`, `p_2.c`, `sem_06/lab_03/p_1` | arrays | `product_odd`, `fill`, `swap_upper_lower_triangle` | boundaries of the loops | spiral is a bijection; swapping twice is the identity |
| **socketpair / datagram programs** `sem_06/lab_01` | socket files, queued datagrams | servers and clients | crashed server's socket file, second server, client gone before the reply, message of exactly the buffer's size | a running server is reachable; replies go to the asker |
| **epoll server** `sem_06/lab_02` | registered sockets, ready list | accept loop, `handle_event`, client | edge-triggered events, reset connections, sockets never closed | each client gets its answer; descriptors in use |
| **/proc readers** `sem_06/lab_03/get_info`, **daemon copy** `p_2` | - | printing of /proc files | none (pure I/O) | - |
| **kernel examples** `sem_06/lab_04` | module dependency | printing of tasks, exported symbols | load order | - |
| **file system** `sem_06/lab_05/myfs.c` | slab cache, `inode_pointers`, `cached_count` | init, mount, exit | partial failure of init, limit of 128, two mounts at a time | every cached inode freed once |
| **buffered I/O programs** `sem_06/lab_08` | descriptors, open files with positions, stdio buffers, the file | `task_01`..`task_03`, one and two threads | two streams over one position; two positions over one file; truncation and close order; missing join | which letters come out and where |

The programs do not communicate with each other. Inside one program the parts
meet as follows: the System V programs through a semaphore set and a shared
segment; the Win32 program through two events and two integers; the traffic
module's hook, its two reading devices and the command line through
`second_layer_table` and its indices, with `read()` as the call between `cli.c` and
the module; servers and clients through sockets. The hazards each of them is
exposed to are listed, at their lines, under `hazards` in `PROJECT.json`.

## 2. Plan

The order in which the components were taken: the one with the most state and the
hardest interleavings first, a proof module after each module that has theorems.

| modules | abstract specification | proofs |
|---|---|---|
| `ProducerConsumer` | `BoundedBuffer` | `ProducerConsumer_proof` |
| `ReadersWriters` | `SharedCounter` | `ReadersWriters_proof` |
| `EventMonitor` | - (the promise of the readme does not hold) | `Events_proof` |
| `Inspection` (operators), `TrafficTables` | `SlidingHistory` | `TrafficTables_proof` |
| `TrafficRace` (the same hook on several CPUs) | - (bounds on what goes wrong) | `TrafficConcurrency_proof` |
| `HistoryListing` (hook, command lines, two devices) | - (`ListingComplete` says what a listing is) | `TrafficConcurrency_proof` |
| `ModuleLifecycle` | - (the kernel's list is part of the model) | `ModuleLifecycle_proof` |
| `MyFs` | - (`UnloadsClean` says what unloading promises) | `Files_proof` |
| `Daemon` | - (`OneDaemon` is the promise) | `Servers_proof` |
| `EpollServer` | - (an answer to each request: `ClientServed`) | `Events_proof` |
| `DatagramServers` | - (an answer to each request: `Replied`) | `Servers_proof` |
| `OpenFiles` | - (which letters come out and where) | `Files_proof` |

Each `MC...` module is the instance of the module of that name that TLC checks. Every safety
property of the runs is a theorem now. Worth adding next: abstract specifications of one
request and its answer for the two servers, as `BoundedBuffer` is for the producers.

## 3. The modules and the code

A model keeps every state change, test, early return and error path of the code and
leaves out printing, formatting and the creation of IPC objects before the first
`fork` or thread (nothing else runs at that time; it is the initial state). One step is
one atomic action of the machine: one `semop`, one call on an event, one load or store of
a shared word. Processes and threads are elements of sets given as CONSTANTS.

The operators whose comment starts with "Fault:" are variants of the operation that
follows them, wrong in the way a slip of the pen would make it. No specification uses
them. Each property was seen to be violated when one of them takes the place of the
operation it belongs to (`mutants` in `PROJECT.json`).

**`ProducerConsumer`** (`sem_05/lab_04/pc`). `sem` is the semaphore set,
indexed by the code's `FULL`, `BIN`, `EMPTY`; `pptr`, `cptr` are the two pointers as
offsets into the alphabet; `pc[p]` is the child's place in its loop, `tmp[p]` the pointer it has
loaded (`buffer->pptr++` is a load and a store). `ProducerBegin`, `ProducerLoad`,
`ProducerStore`, `ProducerEnd` are the body of `producer_work` with `write_buffer`; the
consumer's four are `consumer_work` with `read_buffer`. `Fork`, `ForkFails`, `Wait`,
`Remove` are `main` with `create_producers` and `create_consumers`. `Kill` is a
signal at any moment: no `sembuf` has `SEM_UNDO`, so the semaphores keep what the
child took. `got`, `killed` and `reaped` record what the properties speak of.

**`ReadersWriters`** (`sem_05/lab_04/rw`). `activeWriters` and `activeReaders` are the two semaphores,
which count up from zero; `counter` is the shared integer. `Test` is the loop condition, which is
evaluated before the child's `sleep` and outside the critical section; `StartRead`, `StartWrite`
are each one `semop` with its waits for zero. `main` is as above.

**`EventMonitor`** (`sem_05/lab_05/main.c`). `can_write` is a manual-reset event (a wait leaves
it set), `can_read` an auto-reset one (a wait that succeeds resets it). Every call of
`start_read`, `stop_read`, `start_write` and `stop_write` is an action, with the test of
`count_active_readers` of `stop_read` a step of its own (`LastReader`, `NotLastReader`).
`WaitWriters` and `WaitAgain` are the two calls of `wait_threads`. The second one is given
the array of three writers' handles and the number five; what the two words behind the array are is not
determined by the program, so `handles` is chosen freely: two of the readers, or
something that is no handle, on which the call fails at once.

**`Inspection`** and **`TrafficTables`** (`course_work/code/core_module.c`). `table1`, `next1`,
`from_time`, `table2`, `next2` are the module's variables; `now` is `ktime_get_ns`, read
again where the code reads it again. A packet goes through `CatchTraffic`: it falls
into the running period (`CatchInPeriod`), starts the first one (`CatchFirst`), or closes one
(`CatchAndDump`, with `dump_first_layer_table` as `Dump` and `inspect_last` as `InspectLast`),
and in each case `Add` is the rest of `add_packet_info`. All sums, products and
counters wrap at `Word` (2^32 in the code), `Limit` included; `TotLen` is the byte order that
`iph->tot_len` is read in. `window` and `closed` record the packets themselves, so
that properties can say what the tables ought to hold. One CPU is in the hook here.

**`HistoryListing`** (`core_module.c` and `cli.c`). The hook on one CPU against `read_l2_data`
called by `show_l2_data`, and against `read_stats`, all without a lock: each of them reads and writes
`second_layer_table`, `second_layer_table_next_index` and
`second_layer_table_read_index` word by word (`Shift`, `Drop`, `Store`, `Publish`,
`Inspect` in the hook; `Read`, `Copy`, `Load`, `Advance`, `Reset` in the reader;
`StatsLoop` ... `StatsFinish` in the statistics). A slice has two words that matter: its time,
and the flag that `inspect_last` sets after the slice has been published. The
values of a slice are the matter of `TrafficTables`. Stores are seen in program order, as on the
x86 machines the course work was run on. `Interrupt` is a signal to the
command line between two `read` calls. `cut`, `quiet`, `clean`, `listed` only record what happened.

**`ModuleLifecycle`** (`core_module.c`, `hide_unhide` of `cli.c`). `list` holds the two links of
each element of the kernel's list of modules; `Added`, `Deleted`, `DeletedRcu` are the
operations of `<linux/list.h>`, each one step; `Listed` is what `lsmod` and `rmmod` meet
on their walk: the smallest set with the first element that the links do not lead out of.
`Load`, `Unload` are other modules, `Insmod`, `Rmmod`, `Free` the kernel's part for this one; these are external.
`Register` is the next call of `my_module_init` (the result of the first is ignored by the code, so
it may do nothing), `RegisterFails` its early returns, `Deregister` the next call of
`my_module_exit`. A command line opens the device (`Open`), and in `write_command` it
goes through `Test`, `SavePrev`, `Delete`, `SetHidden` or `Test`, `Add`, `SetExposed`. Following a poisoned
link, or one into freed memory, either kills the process (`Oops`) or goes through. `together` and `torn`
record that two commands have been in `write_command` at a time and that a freed element has
been used: the code guards against neither, and what the list is worth then is not claimed
(only `NothingLeft` holds unconditionally).

**`MyFs`** (`sem_06/lab_05/myfs.c`). `inode_pointers` and `cached_count` are the code's; `slab` is the
set of objects taken from `my_inode_cache`; `mount[m]` is the place of the process that mounts at `m`,
the index it has loaded and the root's `i_private`. `Register`, `Allocate`, `AllocateFails` are
`myfs_init` (mounting is possible from `Register` on, since the kernel lets a module that is coming
be used), `Free`, `Unregister` are `myfs_exit`. `Mount`, `Check`, `LoadCount`, `StoreCount`, `Alloc`,
`MakeRoot` are one call of `myfs_mount` down to `cache_get_inode`, with `cached_count++` as a load and a
store and the failures `Null` (from `kmem_cache_alloc`), `AllocEarly` (nothing is allocated yet) and
`MakeRootFails`. `corrupt` names the way memory was corrupted; the model stops there. `overlap` and
`lacked` record that two mounters have been in `cache_get_inode` at a time and that an
allocation has failed.

**`TrafficRace`** (`core_module.c`). The hook on several CPUs at once: every access to
`first_layer_table_next_index`, `second_layer_table_next_index` and `from_time` is a step, with
the two halves of each `+= 1` and `-= 1` apart (`Load1`, `Store1`, ...), wrapping as a `size_t` does. What the
tables hold is left out: `top1` and `top2` are how far they were written, and a search finds its
address or not. `from_time` is zero within the first
period after the boot (`ktime_get_ns` counts from there), zero later, recent, or older than a period (`Tick`). `late` records that an index went
down under a CPU that had tested it and was about to raise it, `crossed` that a dump began
while another CPU was in `add_packet_info`, `oops` the division by zero.

**`Daemon`** (`sem_05/lab_03/src/main.c`). Several launches of the program. `lock` is the holder of the
record lock, `file` the content of the pid file (`Absent`, `Empty`, or a copy's number),
`pending[c]` the signals kept for `sigwait`. `Fork`, `IgnoreHup`, `Detach` are `daemonize`; `Open`, `Lockfile`,
`Truncate`, `Write` are `already_running`, where the results of `ftruncate` and `write` are not looked at, so
both may do nothing; `Mask`, `Create` are `main`, `Take` is `thr_fn`. `Signal` does what the
disposition and the mask of that moment make of it; `Fail` is an `exit(1)` after a failed call. That a close
of the file or the death of the holder drops the lock is the kernel's part (`Released`, `End`).

**`EpollServer`** (`sem_06/lab_02`). `conn[c]` is the connection of client `c` as the kernel keeps it, `edge` the
connections whose edge no `epoll_wait` has told yet, `batch` what the last call returned and the loop has not
handled. `Accept` includes `fcntl` and the `epoll_ctl` that raises an edge for what has arrived already;
`HandleEvent` is `handle_event`, where the end of the stream is passed over without `close` and any error ends the
server. `Connect` ... `Close` are `client.c`. `Stop` is the signal handler, a kill, or any failing call:
those before the loop, and in it `accept` for another cause than the descriptors (`client_len` is not initialised),
`fcntl`, `epoll_ctl`, `epoll_wait`. TCP on one machine loses nothing; a process that ends with unread data resets its connections.

**`DatagramServers`** (`sem_06/lab_01`, `task_02` and `task_03`). `task` chooses the pair of programs. `path` is the
server that bound the name which now exists (`NoFile` when it was removed), `names` the names clients have bound,
which nothing removes; `server[s]` and `client[c]` are the places of the processes, `queue[s]` the datagrams in a
server's socket. `BindFails` is the failed `bind` with its
`del_socket` in `task_02`, `Interrupt` the handler of `SIGTSTP`, `Close` and `Unlink` the two calls of `del_socket` or
`close_socket`. `Launch` starts a client, also under the number of one that has ended.

**`OpenFiles`** (`sem_06/lab_08/src`). `prog` is one of the eight programs, `pos` the positions of the open files (one for both
streams in `task_01`), `buf` what stdio has read ahead or not flushed yet, `at[i]` what stream `i` is at. A `read` or
`write` is one step. `MayRun` is who may go on: either thread, or the two streams in turn. `Exit` is the `main` of
`task_02_v4.c` that returns without a join.

## 4. Runs

Bounds are stated in the `.cfg` files. All passing runs are exhaustive.

| run | bounds | shows |
|---|---|---|
| `PC` | 2 producers, 2 consumers, 2 rounds, 2 cells, all may be killed | `SemaphoresAccount` (what each semaphore counts at each place of each child), `RemovedAfterUse` (segment and semaphores go only when no child can use them and every letter was written and read, and stay in the system only after a failed fork or a killed child), `DeadHolderBlocks`, `Implements` (`BoundedBuffer`), `Termination` unless somebody is killed |
| `RW` | 2 readers, 2 writers, limit 2, one of each may be killed | `SemaphoresCount`, `Overshoot` (the integer passes the limit by at most the writers past the test), `DeadReaderBlocks`, `Implements` (`SharedCounter`), `Termination` if there is again and again a moment without readers |
| `EM` | 2 readers, 2 writers, 2 rounds | `EventsNotLost` (who will set an event that is not set), `SomeoneRuns` (the threads never all wait for good), `ProgramEnds` |
| `TT` | 3 addresses, tables of 2 and 3, 5 packets, 6 clock units | `TableFaithful`, `SlicesFaithful` (records and slices say what the packets were, dropped addresses, reused records and shifted slices included), `FlagsMeanExcess` (flagged whenever a value exceeds the mean before it by the margin, wrapped products included; where none wraps only then, up to the rounding of two divisions), `Implements` (`SlidingHistory`) |
| `TR` | 3 CPUs, tables of 2 and 1, 2 periods that end | `OverrunBounded` (packets that meet on n CPUs write at most n - 1 records past the end, dumps that meet n - 1 slices), `DivisionNeedsMeeting` |
| `HL` | 1 command line `l2`, 1 `stats`, history of 3, 5 periods | `CopiesFromTable`, `ListingInOrder`, `ListingComplete` (an undisturbed listing prints the latest slices, all of them unless the listing before it was interrupted), `StatsInOrder` |
| `LC` | 2 command lines, 2 other modules | `ListSound` (the list links exactly the modules in memory that are not hidden, forwards and back, between the steps of hide and unhide too), `HiddenStays` (no `rmmod` removes a hidden module), `NothingLeft` |
| `FS` | 3 mount points, an array of 3, 4 objects | `PrivateOwn` (no two roots share an object, none is freed under a mount), `UnloadsClean` (nothing is freed twice or wrongly, after mounts that overlapped too, unless an allocation failed; no overrun and nothing left behind unless mounts overlapped) |
| `DA` | 3 launches, 3 kinds of signals, 2 signals sent | `OneDaemon`, `NumberStands` (the file names the running copy unless its own write failed), `StartsUp` (a dead copy's file keeps nobody out), `TermEnds` (a `SIGTERM` that met the mask ends the daemon all the same) |
| `EP` | 3 clients, 2 descriptors, 2 events per call, backlog 1 | `EventsMatch` (no edge is overlooked, none is left with nothing to read), `DownForCause` (what can bring the server down), `ClientServed` |
| `DG` | 3 starts of a server, 2 clients, queues of 2, 3 datagrams in `task_02` | `Reachable` (a waiting server is the one its name leads to, until a second `task_02` server has failed to bind), `EndsForCause`, `Replied` |
| `OF` | text of 5, stdio buffers of 2, 4 letters a stream, an old file of 0 or 6 | `ReadsEachLetter`, `LastWriterWins` |

The type invariants (`TypeOK`) of the modules with a proof module are proved for every value of the constants
(section 6), so no run is spent on them; nor on `MutualExclusion`, `WriterExclusive`, `ActiveCount`,
`DivisionDefined` and `UniqueAddresses`, which are theorems as well. In `TT` a period of 0 is over one clock
unit later, since the code compares with `>`.

Why these bounds are enough. With two of each kind every pair of roles meets itself and the
other; two rounds make a child come back to the start of its loop while another is still in its
first round, and two cells let the buffer be empty, partly filled and full with
producers waiting at the full one (four letters in all). A limit of two for two writers lets the integer pass
it. Three addresses for two records is the first size at which an address is turned away; a
history of three, over four slices, is shifted once and has a mean of two
older slices before and after the shift. With three CPUs one can be overtaken by a second while
the third dumps; the history of one slice is full after the first dump, so that the second shifts it. Five
periods over a history of three shift the history twice under a reader that
has read none, one, two or all slices. With two other modules the hidden one can have a neighbour
on each side, lose either, and see a new one come in between; two command lines are two at any
place of `write_command`. Three mount points over three entries fill the array by mounting, by
mounting again after unmounting and by mounts that overlap, and the fourth object is the one a slot
is overwritten with. Of three launches one can have died with its number in the file while the other two race; two
signals are a `SIGTERM` and one around it. The third client is one too many for the descriptors and for the events of
one `epoll_wait`, and two wait in the queue at once. With three starts of a server, the third can bind what the second has
removed from the first; two clients in a queue of two fill it. The text is not a multiple of the stdio buffer, so
one stream ends with a partial buffer; the old file of six letters is longer than what is written over it.

In `TT`, `Word` is 2^17: no sum reaches it, but the product of 130 with the mean length of two packets does.
A wrap can only lower the limit of `inspect_last`, so it hides no excess: the first part of
`FlagsMeanExcess`, that a slice without a flag exceeds nothing, is claimed there as well. The second, that a flag has a
cause, is claimed only where neither the sum nor the product wraps (`InWord`): where one wraps the code flags slices
that exceed nothing, in this run too, see the hazard at `core_module.c:168`.

Findings: sentences of the documentation or of a comment that the code does not keep, each plain from the
actions that translate the code. No run is spent on refuting them; the properties of the runs say what holds instead.

- `start_write` does not reset the manual-reset event, so several writers are inside, though
  `sem_05/lab_05/readme.md:10` gives writers exclusive access (`StartWrite` of `EventMonitor`);
- a reader passes the wait between another's `SetEvent(can_read)` and its late
  `SetEvent(can_write)`, which lets a writer in beside it (`readme.md:85`; `SetCanRead`, `LastReader`, `SetCanWrite`);
- `wait_threads` waits for the writers twice and never for the readers
  (`sem_05/lab_05/readme.md:278`; `WaitWriters`, `WaitAgain`);
- a child ended by a signal makes `main` return before `Remove`, though
  `sem_05/lab_04/readme.md:25` asks for the semaphores to be freed (`Wait`, `Remove`);
- after an interrupted listing the next one starts where that one stopped, though the command prints the
  collected history (`main.tex:1035`; `Interrupt`, `Read`, `Reset` of `HistoryListing`; `ListingComplete` says that it
  prints the rest and nothing else);
- after `unhide` `lsmod` finds the module (`main.tex:1012`) only if the module it stood behind is still loaded
  (`SavePrev`, `Unload`, `Add` of `ModuleLifecycle`);
- packets of addresses that no longer fit the table are in no slice, though the report has the
  total (`main.tex:1035`; `Add`, and `TableFaithful` says exactly which are counted);
- `iph->tot_len` is added up without `ntohs`, so "bytes" are bytes times 256 for small
  packets (`TotLen`);
- the comment at `sem_05/lab_03/src/main.c:195` restores the default action of `SIGHUP`, the code ignores the signal
  (on Linux `sigwait` gets it all the same, being blocked);
- `task_05.c:82` of `sem_05/lab_02` analyses `statval`, always 0, in place of the status of the child (not modelled).

Two command lines `l2` at a time share one read index. With two elements in `Listers` TLC
violates `CopiesFromTable` (the second one passes the test, the first one advances the index to the
end of the table) and `ListingComplete`. The documentation does not promise anything for two command lines, so
this is recorded as a hazard and not as a finding. Also not claimed: that a
listing under way while periods are closed prints every slice (the
shift may move one past the reader), and that the last critical slice of `stats`
is not later than the end it reports (it may be a slice that was not published when the end was read).

Two commands `hide` or `unhide` at a time: both pass the test of `flag_hidden`, the second `hide`
saves a poisoned link and dies in the deletion, or two `unhide` link the module to itself. Two mounts at a time:
both may take the same slot of `inode_pointers`, so that one object is never freed, or pass the
test before the last entry together and write behind the array. The documents promise nothing
for either, so they are hazards. `ListSound` and `HiddenStays` carry the condition `~together`; in `UnloadsClean` only
the overrun and the objects left behind depend on `overlap`. That no object is freed twice, and no slot that was never
set is freed, holds for mounts that overlap as well.

Of a failed `misc_register` (`core_module.c:559`) nothing is claimed: the hook stays registered, `RegisterFails`
models it, and `NothingLeft` speaks of removals only.

## 5. Fairness

*ProducerConsumer*: weak fairness of each child and of `main`. No child repeats a round,
so a child that stays blocked while others use up the semaphore it waits for does
so at most a bounded number of times. `ForkFails` and `Kill` are never fair.

*ReadersWriters*: weak fairness of each process, and strong fairness of `StartRead` and
`StartWrite`: a process asleep in `semop` is tried again by the kernel whenever the
set changes, so one whose conditions come true again and again is served. That
there are such moments for a writer is not guaranteed by the code (readers may
overlap for ever), so it is a hypothesis of `Termination`, as is that no fork fails.
That nobody is killed inside follows from it.

*EventMonitor*: weak fairness of each thread and of `main` is enough: when the writers have
passed, and when the readers have, the remaining event stays set.

*Daemon*: weak fairness of the steps of each copy; nobody need launch, kill or signal, and no call need fail.

*EpollServer*: weak fairness of the server once it listens, and of each client once it is connected (a connection
attempt need not succeed). `epoll_wait` returns when something is ready, and an event
of a batch is handled in the same pass of the loop, so no client is passed over for ever.

*DatagramServers*: weak fairness of each server and client that has been started. The queue is read
in order, so no request is passed over.

`TrafficTables`, `TrafficRace`, `HistoryListing`, `ModuleLifecycle` and `MyFs` state no liveness: packets, commands
and mounts may stop at any time. In `OpenFiles` deadlock is checked in its place: a program stops
only when both streams have come to their end.

## 6. Theorems

Proved with TLAPS for all values of the constants that satisfy the assumptions named in the modules:

| modules | what is free | what is assumed of it |
|---|---|---|
| `ProducerConsumer`, `ReadersWriters`, `EventMonitor` | children or threads, rounds, cells, limit | no process is of both kinds; producers, consumers, readers and writers of System V and the readers of `EventMonitor` are finitely many |
| `TrafficTables` | addresses, packet sizes, lengths of the tables, period, width of a word, percentage and constants of the test | tables and word are not empty; one packet's `TotLen` is below `Word` (a 16-bit field added to a 32-bit counter, `WidthAssumption`); `EpsPercent` is at most 200 (30 in the code) and each of `InitialVec` below half of `Word` (at most 10^6, `InspectionAssumption`) |
| `TrafficRace` | CPUs, lengths, periods, width of an index | finitely many CPUs, and a table's length with their number is below `Word` (2^64 in the code) |
| `HistoryListing` | length, command lines, readers of the statistics | at least two slices |
| `ModuleLifecycle`, `MyFs` | command lines, other modules; mount points, objects, length of the array | head, poison, the module itself and the others are different; the array has one entry at least |
| `Daemon`, `EpollServer`, `DatagramServers` | launches, signals; clients, descriptors, events per call; servers, clients, length of the queues | clients and servers of the last two are finitely many, there is a client, a queue holds one datagram at least |
| `OpenFiles` | length of the text, of the stdio buffers, of what a stream writes, of the old file | a buffer and a stream have one letter at least |

*ProducerConsumer.* `SemaphoresAccount` is the inductive invariant: exclusion alone is
not inductive, because the bound of the buffer follows from the semaphores only
if one knows which unit a child inside has taken and which pointer it has loaded.
From it: `MutualExclusion`, `BufferBounds`, `PrintsOwnLetter`, `EachLetterOnce` (with a second
induction over the shares of the consumers), `DeadHolderBlocks`, and `Refinement`, that every step is
a `Put`, a `Get` or a stutter of `BoundedBuffer`. Behind `RemovedAfterUse` are three: `Reaping`, that `main` has
reaped only children that ended; `Work`, that each pointer is the number of pairs of a child and a round it has done, so
that when all have ended all letters are accounted for; and `Caused`, that what is left behind has a cause.

*ReadersWriters.* `SemaphoresCount /\ WriterExclusive` is inductive: the waits for zero
are waits for empty sets only because the semaphores are cardinalities.
`LoadedStands` (no lost increment) rests on it, `Overshoot` on both and on how `Committed`
changes; `Refinement` to `SharedCounter` and the two action properties
use all of them.

*EventMonitor.* `ActiveCount` is inductive with `TypeOK`; `EventsNotLost` is inductive with it too and gives
`SomeoneRuns`: take a waiting thread and the event it waits for; whoever will set it
does not wait for the same event, and if it waits for the other one, somebody who does not wait
will set that.

*TrafficTables.* `IndexInv`: both indices stay in range, the tables keep their domains, one record
per address, and no dump of an empty table, whatever the packets are. `TypeCorrect` adds the fields of the records
and that there are as many closed periods as slices. `Implementation` is the refinement: with `next2` and the
filled part of `table2` as the visible history, each step adds a slice to `SlidingHistory`, turns one out for it, or stutters.
`SaysInv` is the invariant behind `TableFaithful`: each record of `table1` in use holds, modulo `Word`, the sums
over the packets of its address in the window, and an address without a record came later
than all that have one, the table being full. A packet more is a member more of one of these sets, which is where the lemmas about sums are
used. `SlicesInv` carries the same to the slices: what `Dump` adds up over the records is what the closed period held of
the addresses that had one, and a shift moves a slice with its period. `FlagsMeanExcess` needs of the state only that
the properties of a slice are numbers (`VecInv`); the rest is the rounding of the two divisions of `inspect_last`,
and that a sum or product taken modulo `Word` is not above the true one (`LimitBelow`).
The sums are over finite sets, by functions on the subsets. No induction over a number is needed for them: among the
subsets for which a claim fails one is minimal (`Minimal`), and taking one member out of it contradicts that.

*TrafficRace.* `OverrunBounded` is not inductive: that `n` CPUs write at most `n - 1` records past the end holds
because each CPU past the test for room stands for a place of its own between the index and the furthest place it may
still write, and because no loaded index is above the index (`Within` in `First` and `Second`, while nothing went down `late`).
`DivisionNeedsMeeting` says that the division by zero needs a dump that begins while another CPU is in
`add_packet_info`. Its proof (`EmptyInv`: while that has not happened, one CPU at most dumps, and `next1` is
positive until it clears the table) has the hypothesis `[]NoWrap`, that no CPU stores the index that follows the last value of the
type. The code does not exclude that: stores of stale indices after a clear can drive the index up past the
end of the table step by step, and after 2^64 of them it would be 0 again with no dump at all. `DivisionNeedsRace` has no such
hypothesis: a division by zero needs such a dump, or an index that went down under a CPU about to raise it.

*HistoryListing.* The invariant says, for each step of the dump, where the two indices stand, and
that times never fall along the filled places *while the slices are being shifted*
(`HistoryInv`); a dump never takes a place away nor puts an older slice where a newer one stood
(`Grows`). What a reader holds is therefore never above what it has still to read
(`NotAbove`), which is stable under every step of the hook: this gives `StatsInOrder` for any number of command lines, and
`ListingInOrder`, `CopiesFromTable` and `ListingComplete` (with what has been printed as the slices below
the read index, from wherever the listing started) for one `l2` at a time
(the hypothesis `\A k, l \in Listers : k = l` of these theorems).

*ModuleLifecycle.* `Undone`: commands run only in a live module, and what is registered is what
`my_module_exit` has still to undo; it gives `NothingLeft` for any number of command lines, and `TypeCorrect` rests on it.
`ListSound` and `HiddenStays` rest on `Ring`: the modules in memory that are not hidden and the head form one ring, the links back
are the inverse of those forth, and no smaller set with the head is closed under the links. Its last part is
what `Listed` needs, and is kept by inserting and removing one element. With it the invariant (`Sound`) says that
one command runs at a time and that what it has found in `flag_hidden` still holds.

*MyFs.* `Alone`: while mounts have not overlapped, one mounter at most is in `cache_get_inode` and the count
stands where its step says; it gives the bound in `TypeOK`. `Bare` (nobody holds an object before it is
allocated) makes `PrivateOwn` inductive without any such condition, because the slab
gives no object twice. `UnloadsClean` rests on two invariants. `Slots`, without overlaps: the slots below the count,
or below the slot being allocated, or from the one `myfs_exit` is at, are exactly the objects of the cache, each once,
so none is left. `Entries` and `NoGap`, whatever overlaps: no two slots hold the same object and each holds one of the cache
until it is freed, and every slot below the count was set, or a mounter is about to set it, which keeps the
module from being unloaded; so nothing is freed that is no object.

*Daemon.* A copy past `lockfile` holds the lock: inductive because nothing between there and its end closes the pid
file, and it gives `OneDaemon`. With it `NumberStands`: only the holder writes to the file, and `open` leaves a file
that exists as it is.

*EpollServer.* `EventsMatch` is inductive with what the queue of the listening socket holds (`Queue`: queued connections,
each once), with `Started` (nothing is on the connection of a client that has not written) and with the exact
bookkeeping of `AllTold`: an edge and an event of one connection at a time stand for its end. `DownForCause` is an induction over
the same: a server that goes down has lost a connection by a reset or has used up its
descriptors, and the sockets it never closes are the ones counted.

*DatagramServers.* `Reachable` follows from `NameInv`: a server whose socket is bound is the one its name
leads to, until a second server of `task_02` has failed to bind and removed the name. `EndsForCause` needs to know where
the one message of a process number is: in one queue, or with one server, at most once (`Once`); its sender waits, or
was killed while it waited, and cannot send again since its name stays (`Sent`). So a server that ends
carries the message of a client that was killed (`Ends`).

*OpenFiles.* Two invariants, by what the program does. `WriteInv`: how far each stream of a writer has come
at each place, which of two descriptors each letter of the file is from (`DescriptorInv`), and that of
two streams the one closed last leaves all its letters and nothing else (`StreamInv`). It gives `LastWriterWins`. `ReadInv`: what a
reading stream has printed and what it holds rises and lies below the position; on one descriptor the
two share nothing and miss nothing, on two each misses nothing. It gives `ReadsEachLetter`.

Only model-checked: the liveness properties (`Termination` twice, `ProgramEnds`, `StartsUp`, `TermEnds`,
`ClientServed`, `Replied`). Each rests on fairness, hence on when an action is enabled, of which the prover knows nothing.

## 7. Not modelled

- `sem_05/lab_02/task_01`..`task_05`: a parent and two children that share nothing but a pipe, written before
  and read after the children have ended, and a flag each has its own copy of. No step of one
  can change what another does, only the order of the printed lines.
- `sem_05/lab_02/p_1.c`, `p_2.c`, `sem_06/lab_03/p_1`: deterministic loops over at most ten rows, with one
  number as the only thing that varies; ten test runs say all that a model could.
- `sem_06/lab_01/task_01`: a socketpair with one message each way between a parent and one child.
- `sem_06/lab_03/get_info`: prints `/proc` files. `sem_06/lab_03/p_2`: `daemonize`, as in `Daemon`, and a loop that
  logs; its lock is commented out, so copies do not meet.
- `sem_06/lab_04`: kernel modules that print tasks or exported symbols when they are loaded.
- `apue.h` (twice) is a textbook's header; reports, images and build files are not programs.
- Inside modelled components: the text of messages and logs, the creation of IPC objects before the first `fork`,
  a `copy_to_user` that fails, what the kernel does when it calls into a freed module, and memory orders weaker than x86's.
