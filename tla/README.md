# libviface in TLA+

libviface is a C++ library that creates TUN/TAP interfaces or hooks existing
network interfaces, configures them, and sends and receives packets on them.
These are TLA+ models of what is hard in it, model-checked with TLC, and
theorems about them checked by TLAPS. Paths are relative to the repository's
root; `viface.cpp` is `src/viface.cpp`, `viface.hpp` is
`include/viface/viface.hpp`.

## Inventory of the system

| Component | State | Operations | Hard part |
|---|---|---|---|
| Reception: `dispatch()`, `receive()` (viface.cpp 826-866, 1003-1105) | `pktbuff` per object; the locals `reverse_id`, `rfds`, `nfds`, `tvp` of a call | wait in `select()`, scan the ready descriptors, read, call back | spurious readiness, blocking sockets, signals, timeouts, callbacks that stop, several threads, starvation |
| Construction, destruction (viface.cpp 133-404) | `queues`, `kernel_socket`, `kernel_socket_ipv6`, `name`, `id`, `idseq` | `alloc_viface`, `hook_viface`, `read_mtu`, destructor | every system call may fail half way; descriptor numbers are used again; two objects may share an interface |
| Network configuration (viface.cpp 406-824) | `mac`, `ipv4`, `netmask`, `broadcast`, `ipv6s`, `mtu`, size of `pktbuff` | setters, `up()`, `down()`, `isUp()`, getters | a failure between the `ioctl()` calls of `up()`, retries, the union in `struct ifreq` |
| Emission: `send()` (868-896) | none | size checks, one `write()` | sizes against the MTU, which up() and setMTU() change apart |
| Statistics (898-1000) | `stats_keys_cache`, `stats_cache` | `listStats`, `readStat`, `clearStat` | the kernel counts between read and cache; stale keys, files that cannot be read, wrap-around |
| Utilities (26-109) | none | `parse_mac`, `hexdump`, `crc32` | crc by nibbles |
| Facade `VIface` (1117-1228) | a pointer | forwards | none |
| Examples | a `quit` flag per program, what it has printed | signal handlers, alarm, receive and send workers, loops around `dispatch()`, `receive()` and the statistics | flag, timeout, alarm and signal together |
| Tests, build, docs | | `test/create.cpp` is one sequential scenario; `test/catch.hpp` is a third party's | |

How they interact: a program constructs objects, calls setters, `up()`, and then
`dispatch()` from one or more threads. The objects share the process's
descriptor table and `idseq`; `dispatch()` takes a set of objects and calls
`receive()` of each that is ready; `receive()` relies on `pktbuff`, which the
constructor (when hooking) and `up()` size by the MTU. Everything else goes
through the kernel: an object sees another one only through interfaces and
descriptors.

What makes each correct:

- Reception: no packet that left the kernel is lost, repeated or reordered; the
  call waits in `select()` and nowhere else (it does in `read()` of a hooked
  interface, after a discarded packet and only then); every watched interface is
  served; a call goes on past its timeout only if it got a packet.
- Construction: a live object owns the descriptors it stores, whatever other
  objects do or fail to do, except for one double `close()`; failures roll back;
  names and ids do not collide.
- Configuration: an interface comes up only fully configured and stays as it is
  while up; the packet buffer has room for what `read()` is asked for (it has not
  between a `setMTU()` and the next `up()`); what is sent fits the MTU.
- Statistics: each is the number of events since it was cleared.
- Examples: they end when they should, libtins.cpp with its queue read, and use
  no interface after its end.

## Modules

| Module | Models |
|---|---|
| `Delivery` | abstract specification: what `dispatch()` and `receive()` promise, without descriptors, `select()` or buffers |
| `Dispatch` | `dispatch()` and `receive()` called by any number of threads, with the kernel's queues; implements `Delivery` |
| `DispatchFair` | `Dispatch` with two history variables: by how many packets an interface is overtaken, and whether a packet left a queue since the timeout was last set |
| `DispatchProofs` | theorems about `Dispatch`, among them that it implements the safety part of `Delivery` |
| `DispatchFairProofs` | theorems about `DispatchFair` |
| `Lifecycle` | constructors and destructors of several objects against a descriptor table |
| `LifecycleProofs` | theorems about `Lifecycle` |
| `NetConfig` | setters, getters, `up()`, `down()` of one object against the kernel's configuration |
| `PacketIO` | `receive()` and `send()`, with sizes of packets, in one thread while another one runs `NetConfig` on the same object |
| `NetConfigProofs` | theorems about `NetConfig` and `PacketIO` |
| `Counters` | abstract specification: what the statistics promise, without files and caches |
| `Stats` | `listStats()`, `readStat()`, `clearStat()` while the kernel counts; implements `Counters` |
| `StatsProofs` | theorems about `Stats` and `StatsExample` |
| `Utils` | `crc32()` by nibbles, and CRC-32 by bits to compare it with |
| `UtilsProofs` | the theorem that the two agree on every sequence of bytes |
| `StatsExample` | `examples/stats` on top of `Stats` and `Utils` |
| `Programs` | `examples/threads`, `signal`, `vifaced`, `timeout` and the receiving half of `libtins`, on top of `Dispatch` |
| `ProgramsProofs` | theorems about `Programs`, on top of `DispatchProofs` |
| `Minima` | the lemmas that a finite set of numbers has a least and a greatest element |
| `MC*` | constants for TLC |

### Dispatch

A thread's program counter `pc` follows the code: `prepare` (FD_ZERO, FD_SET and the
timeout at the head of the loop), `select`, `scan` (the loop over `reverse_id`),
`read` and `copy` (the two halves of `receive()`), `callback`. `call`, `watch`,
`timed` are the arguments of the call; `rfds` the descriptor set, less the entries
the scan has visited; `cur` the interface being read. The kernel's queue of an
interface holds the packets `taken+1 .. arrived`, which are numbers, so that `log`
shows loss, repetition and order. `Drop` discards a queued packet, which is how a
descriptor reported readable turns out empty (the comment at viface.cpp 833-848).
Sockets of `hook_viface()` are opened without O_NONBLOCK (viface.cpp 263): on those a
`read()` of an empty queue waits instead of returning EAGAIN. A signal ends the call
only if it interrupts `select()` (EINTR, viface.cpp 1063). In a `read()` that waits
it either makes `receive()` throw (EINTR, viface.cpp 853-860) or, when the handler
was installed with SA_RESTART, has no effect (`Interrupted`, `Unnoticed`). Exceptions
of `select()` and `read()` end the call as `threw`.

The order of `reverse_id`, a `std::map`, is the order of descriptors. `nfds` is
kept, as `select()` ignores descriptors at or above it. The callback neither
destroys interfaces nor calls the library on them.

### Lifecycle

`files` is the descriptor table: `open()` and `socket()` return the lowest free
number. A TUN/TAP interface exists while a queue is attached to it. The local `fd`
of the helpers is separate from `own`, the stored descriptors, because the leaks and
double closes are in the difference. Each object is constructed at most once; a
construction that fails leaves it in `failed`, with what it left open still in
`files` under its name. A behaviour is of a program with one thread, or, if
`threaded`, of one whose threads construct and destroy the objects of `Parallel` at
the same time; `idseq++` is then two steps of which one may be undone. `CloseErrors`
lets any `close()` report an error after freeing the number, as Linux does. The
rollback of `read_mtu()` then closes that number once more (viface.cpp 177), which
by now may be another object's; `misclosed` records that this happened, and after it
a number that an object stored may stand for another file or none (`Kind`), on which
the next call fails. A `stoul` that finds no digits in the MTU file is left out.

### NetConfig

One action per `ioctl()` of `up()`, each of which may fail and end it. `word` is the
low 16 bits of the union in `struct ifreq`, which `ifr_flags` shares with the family
of the addresses, `ifr_ifindex` and `ifr_mtu`: what `up()` writes with SIOCSIFFLAGS
is what is in it by then. The kernel's rules are the ones that matter to the calls:
a netmask or broadcast needs an address, a new address resets both and a new netmask
may reset the broadcast, an IPv6 address the interface has is refused, IPv6
addresses go when an interface goes down, SIOCSIFFLAGS changes the settable flags
only. The object keeps texts and the kernel addresses: `Printed` gives the text that
a getter prints of an address, which may differ from the one that was set
(`parse_mac()` takes capitals, `inet_pton()` takes several texts of one IPv6
address, and two of them in the set make `up()` fail). Values of the wrong form,
refused by the setters with no change, are not enumerated, MTUs out of range are.
MTUs below 1280, at which the kernel drops IPv6 altogether, are outside of the
model.

### PacketIO

A second thread, started when the interface was up once, receives and sends while
the first one goes on as `NetConfig` says. A packet is its length; `Read` is
`read(queues.rx, pktbuff, mtu)` and `Copy` the copy from `pktbuff`, between which
`up()` may resize it. Frames are up to 14 bytes longer than the kernel's MTU.
What `setMTU()` does to an interface that was up is in four history variables.
`remtu`: it changed the MTU after the second thread started. `unsized`: it changed
the MTU after `up()` last resized the buffer. `fits`: the `read()` under way was asked
for an MTU that the buffer had been resized to, and the buffer has not changed since.
`large`: the interface was hooked with an MTU of more than four digits, which
`read_mtu()` cuts.

### Stats and StatsExample

A call is the steps `list` (readdir, when the name cache is empty), `check` (the
name, and opening the file), `read`, `finish`; the kernel counts between any two.
`Abstract` maps them to `Counters`, in which a call has its effect in one step, the
reading of the file: `since` is the kernel's counter less what is, or in `clearStat()`
is about to be, in `stats_cache`. `ReadErrors` lets `readdir()` end early and a file
that was opened give nothing, so that `readStatFile()` returns a variable that was
never set (viface.cpp 962-982). `StatsExample` has `main()` of stats.cpp, and a
program that calls in any order.

### Programs

`prog` says which example runs; the loop around `dispatch()` or `receive()` is in
`loop`, its body is the next-state relation of `Dispatch` for the thread `Receiver`,
with what the callback returns fixed by the program. SIGINT sets `quit` in the three
programs that handle it. It goes to `main()`: where that is the thread in
`dispatch()`, `Signal` of `Dispatch` follows. An exception in a function of a thread
ends the process (`aborted`). Packets are those that reach the RX queue. libtins.cpp
makes its interface with two queues, of which it reads one, so that a packet that the
kernel steers to the other is sent and never received.

## Runs

| Run | Question | Bounds |
|---|---|---|
| `dispatch` | loss, order, blocking in `read()`, starvation, rounds of a timed call; implements `Delivery` with its fairness; pending packets are served | one thread, a hooked and a TUN interface, 3 packets each; signals, errors, and discarded packets on both |
| `lifecycle` | descriptors, rollbacks, names, ids | 4 objects: two of one name, one by the placeholder, one whose name is too long, one at a time; or the two of one name in two threads; `close()` may fail; 8 descriptors, just enough for two objects |
| `netconfig` | partial failures and retries of `up()`, stability, sizes; another thread that receives and sends | 2 IPv4 addresses, 3 texts of 2 IPv6 addresses, one value of the rest, MTUs 13, 2000, 70000 and 9999 of a hooked interface besides 1500, frames of 1514 and 10013 bytes, one queued; `setMTU()` at any time |
| `stats` | implements `Counters`; no wrap; what the example prints; CRC | 2 statistics and a name that is none, counters up to 3, 2 packets sent, all packets of one byte and 169 of two |
| `programs` | the examples end in time and in order | 2 TUN interfaces, 2 packets each, 3 rounds of timeout.cpp |

Violation runs, each a place where the code and what is written about it differ:

| Run | What the code does |
|---|---|
| `dispatch_signal` | a signal that arrives outside `select()`, as in a callback, does not end `dispatch()` (viface.hpp 72-74) |
| `dispatch_frozen` | `dispatch()` on a hooked interface waits in `read()` when the kernel discards the packet that `select()` reported (comment at viface.cpp 833-848); so does `receive()` without a packet, instead of returning an empty vector (viface.hpp 303-304) |
| `mtu_at_once` | `setMTU()` on an interface that was up makes `receive()` read more bytes than the buffer has, until the next `up()` (viface.hpp 246-247) |
| `receive_cuts` | a frame of a full MTU loses its last 14 bytes in `receive()` (viface.hpp 306) |
| `hook_rollback` | a failure between `socket()` and `bind()` leaks the socket (comment at viface.cpp 311) |
| `up_flags` | `up()` writes bits of the MTU as flags: with 1500, MULTICAST is cleared, NOARP and PROMISC are set (viface.cpp 657, 784) |
| `hook_mtu` | an MTU of five digits is read as its first four (viface.cpp 347, 543) |

Why the bounds are enough. Dispatch compares packets only by their order, and two per
interface are what loss, repetition and reordering need; three let one interface
overtake another three times, and the bound is two. Threads with interfaces of their
own share no variable, so that one thread is enough; the theorems have any number.
The descriptors are 5, 7 and 9, so that their order and `nfds` matter. Every
constructor can fail at each of its system calls, and the descriptor table is small
enough to fill up. In `NetConfig` what counts of a value is whether it is unset, the
same as before or different; the low bits of the MTUs 1500 and 2000 differ in flags,
9999 is the largest MTU that `read_mtu()` does not cut, and frames of 1514 and 10013
bytes are full ones for 1500 and 9999, so that either MTU has a frame longer than
itself. In `Stats` the properties relate a counter at three moments (cleared, read,
now), and 3 keeps them apart. The CRC is a fold over bytes, so that every byte alone
and pairs that put each nibble value in each place reach every entry of the table
from different registers. CHECK_DEADLOCK is FALSE in `lifecycle` and `hook_rollback`
because each object lives once, in `stats` and `programs` because programs end and
counters are bounded.

Each property is stated in words where its module defines it. `BoundedBypass`:
while an interface waits in a call, that call serves any other at most twice, also
when other threads take packets of both (the run has one thread; two threads that
share two interfaces were tried with TLC, and the theorem has any number). It speaks
of one call: a callback that stops at each first packet and a program that calls
again does favour the lowest descriptor.

What holds only under an assumption, and fails without it (each tried with TLC):

- two threads that receive on one interface share `pktbuff` and may deliver one
  packet twice (`ExclusiveReaders` excludes it);
- with overlapping constructors, `AllocExclusive` fails between `access()` and
  TUNSETIFF, and `AutoIdsDistinct` at `idseq`;
- after a `close()` in `read_mtu()` that reported an error, the second one
  (viface.cpp 177) may take a descriptor from an object of another thread:
  `OwnsItsDescriptors` is about programs in which it has not (`misclosed`; the run has
  both). That `close()` reports an error at all is rare, and nothing written about
  the library speaks of it, so that there is no violation run;
- a constructor that throws after its queues were opened (viface.cpp 368, 379, or
  `read_mtu()`) leaves them open, and an interface it made stays alive; `NoLeak`
  speaks of the failures that roll back;
- `setMTU()` on an interface that was up takes effect in `receive()` and `send()` at
  once, the buffer and the kernel follow at the next `up()`. Run `mtu_at_once` shows
  the overrun, which needs one thread only and is another matter than the
  concurrent resize of README.rst 64-66; `ReadFits` shows that these two are the
  only ways to it, and `SendWithinMtu`, `LosesAtMostHeader` and
  `ReceivesWholeFrames` except a program that does the former;
- `LosesAtMostHeader` excepts hooked interfaces with an MTU above 9999 too, of which
  run `hook_mtu` shows what becomes;
- `Served` and the fairness of `Delivery` except a thread that is frozen for good in
  a `read()` (run `dispatch_frozen`);
- `Counts` and `NoWrap` need that a file that could be opened can be read;
- `InterruptEnds` leaves vifaced out: without an alarm a SIGINT that is lost to
  `dispatch()` has to wait for a packet (`QuitWithinOnePacket`);
- `LoopsEnd` has libtins.cpp on the interface it allocates: on a hooked one the last
  `receive()` would wait.

Disagreements too small for a run: `setMTU()` takes MTUs from 14, viface.hpp 253 says
68; viface.hpp 169, 191 and 215 promise an empty string of an interface without an
address, and `ioctlGetIPv4()` throws (viface.cpp 463); viface.hpp 68 says a timeout
"> 0 means wait forever" where negative ones do; viface.hpp 75 says that a call ends
when its timeout is reached, while the timeout is set anew in each round (viface.cpp
1053), so that steady traffic keeps the call alive for ever: `RoundsTakePackets` says
how much of the promise is kept; viface.hpp 71 says "always void" of functions that
throw.

## Fairness

`FairSpec` of `Dispatch` has weak fairness of `Step(t)`: a thread inside the library
is scheduled, a timer of `select()` expires, and a callback returns. The first two
are the operating system's, the third is the program's duty and without it
`dispatch()` promises nothing. Arrivals, discards, signals, errors and new calls
have no fairness. `FSpec` of `DispatchFair` has the same. `Delivers`
and `Served` leave out a thread that is frozen for good: it is inside a system call
that the kernel need not finish.

`ESpec` of `StatsExample` has weak fairness of `LibraryStep`: a call that has begun
goes on, as its files can be read without waiting. `PSpec` of `Programs` has it of
each thread (`ReceiverRuns`, `SenderStep`, whose `sleep_for()` expires, and `Joins`)
and of `SIGALRM`, as its handler renews the alarm each time (signal.cpp 30). SIGINT
has none: whether the user interrupts is open.

## Proofs

Every safety invariant and every action property of the passing runs is a theorem.
The theorems speak of all values of the constants that satisfy the assumptions in
the modules, which TLC checks in the runs, and of the hypotheses named below. Each
inductive invariant was checked with TLC on a small instance before it was proved.

`DispatchProofs`, for any set of threads, descriptors and packets and finitely many
interfaces:

- `TypeCorrect`: `Spec => []TypeOK`. The inductive invariant is `Control`: `TypeOK`
  with what `call`, `watch`, `rfds` and `cur` can be at each `pc`; without it nothing
  bounds `cur` in `receive()` nor ties it to the thread's own interfaces.
- `NoPacketLost`, `OrderKept`: `[]NothingLost` and `[]InOrder`, assuming
  `ExclusiveReaders`. The invariant `Books` says that log, discarded packets and
  the packet in hand make up `1..taken`, that the packet in hand is newer than the
  log, and that all are at most `taken`. Neither property is inductive alone: that
  `Copy` keeps the order needs the packet in hand to be the newest, and that `Read`
  loses none needs no other thread to be between `Read` and `Copy` on the same
  buffer (`SoleReader`, from `ExclusiveReaders`).
- `FrozenByDiscardOnly`: `[]FrozenOnlyByDiscard`, assuming `ExclusiveReaders`, with
  discards on hooked interfaces too. The invariant `StillReady` carries what
  `select()` reported through the scan, the callbacks and the reads of other
  descriptors up to each `read()`: the packet is there, or the last one to leave was
  discarded.
- `DeliversSafely`: `Dispatch` implements the safety part of `Delivery`, assuming
  `ExclusiveReaders`. `Arrive`, `Drop`, the calls, their ends and `Copy` map to the
  actions of the same meaning, everything else to a stutter. Two facts carry the
  proof. `Copy` must hand over the oldest packet that is pending (`HandIsOldest`):
  what is pending is the packet in hand and the queue, from `Books`, and the packet
  in hand is older than the queue. And a timeout or an empty result must mean that
  nothing is pending (`NothingPending`): `select()` is given every interface of the
  call (`RoundOK`), and looks at all of them (`SelectSeesAll`), because `nfds`
  exceeds each descriptor; that it is defined at all takes finitely many interfaces
  (`Minima`), hence `IsFiniteSet(Ifaces)` in `DispatchAssumption`.

`DispatchFairProofs`: `BypassIsBounded`, `[]BoundedBypass` of any number of threads
and interfaces, shared or not. That the count is at most two is not inductive:
`Bound` says how many are used up at each point of a round, by whether the waiting
interface and the one that overtakes it are still ahead in the scan. An interface
whose packet arrives after it was passed over may be overtaken once in that round
and once in the next, in which it is served. Nothing else of another thread matters
than that it leaves the call of this one alone (`OthersApart`): what it takes from
a queue can only empty it, and then nothing waits. `RoundsAreBounded`,
`[]RoundsTakePackets`, at the same generality: the invariant says that in each round
the call has yet to read what `select()` reported, or a packet has left since. It
does not use that packets are finitely many.

`LifecycleProofs`, for any number of objects, names and descriptors, any failures,
one thread or overlapping constructors:

- `TypesOK`, `DescriptorsOwned`, `NothingLeaks`, `AllocIsExclusive`,
  `AutoIdsAreDistinct`: the invariants of the run `lifecycle`, which say themselves
  where they need one thread. They follow from one inductive invariant, `IInv`.
  `Shape` says which of its four descriptors and of the local `fd` an object holds at
  each step. `Accounted` says that the descriptors open for an object are exactly the
  ones it holds, each in one place: this is what makes ownership inductive, as a
  `close()` of one object could otherwise hit a number that another one was given
  meanwhile. It holds until that has happened (`misclosed`), which takes a thread and
  a failed `close()` in `read_mtu()` (`mtuerr`, where the local number is free
  already). `NothingLeaks` has no such condition: by `Kept`, whatever is open for an
  object is in its local `fd` or in one of its slots, which a double close can only
  make less. `NewName` and `MadeApart` carry the result of `access()` to TUNSETIFF,
  `IdBelow` relates each id to `idseq`.

`NetConfigProofs`, for any values and MTUs:

- `TypeCorrect`; `UpAppliesAlways`: every step that sets IFF_UP finds the whole
  configuration in place, whatever the texts and what they stand for. The invariant
  `Applied` says which part is in place at each step of `up()`; it holds because the
  setters cannot run inside `up()`.
- `UpIsStableAlways`: nothing of an interface that is up changes; the invariant is
  that inside `up()` the interface is down.

The same module about `PacketIO`, for any lengths of packets, with or without
`setMTU()` on an interface that is up:

- `IOConfigures`: `IOSpec => Spec`, so that the theorems about `NetConfig` hold while
  packets are received.
- `ReadsFit`: `[]ReadFits`. The invariant `BufferSized` says that once the interface
  was up, the buffer is as long as the object's MTU unless `setMTU()` changed it since
  the last resize.
- `SendsWithinMtu`: `[]SendWithinMtu`. The three lengths (MTU of the object, buffer,
  MTU of the kernel) may differ before the first `up()` that succeeds, and after
  `setMTU()`. `LengthsAgree` says that between the two the buffer is as long as the
  MTU, and the kernel's MTU no shorter; it needs `Applied` at the step that sets
  IFF_UP, and then survives any `down()` and `up()`, also those that fail half way, as
  they write the lengths that are there already (`MtuChanges`).
- `LosesAtMostHeaderAlways`: `[]LosesAtMostHeader`. `FramesFit` says that the object's
  MTU is the kernel's once the interface was up, and that no frame in the queue or in
  the buffer is longer than it and a header: the frames may have been queued before a
  `down()` and an `up()`.

`StatsProofs`, for any statistics, counts and order of calls:

- `StatsTypeCorrect`: `Spec => []TypeOK`.
- `DifferenceNeverWraps`: `[]NoWrap`, assuming `~ReadErrors`. It is inductive with
  `TypeOK`: what was read is at most the counter, which only grows, and what is
  cached was read.
- `StatsCountsRight`: `Stats` implements the safety part of `Counters`, assuming
  `~ReadErrors`. The initial states map to initial ones; `ReadFile` maps to the
  effect of the call (`Read` or `Clear`), `ReadStat`, `ClearStat`, `Throw` and a
  listing to `End`, the rest to a stutter. It needs `NoWrap` before and after the
  step, as the abstract count is a natural number, and `CallsWellFormed`.
- `ExampleUsesStats`: `ESpec => Spec`; `SendsAreCounted`, `ClearedIsNotCountedTwice`:
  `[]SendsCounted` and `[]NotCountedTwice`, assuming `~ReadErrors`. The properties
  compare numbers that were printed at different times; `SendsOK` and `ClearedOK`
  relate each to the counter in between (what was printed, and sent since, is at most
  the counter; what is cleared is at least what was printed), `MainOK` says which call
  `main()` can be in, so that the last loop never reads what it has not just cleared.

`UtilsProofs`, for any bytes and any number of them:

- `CrcOfBytes`: `crc32()` is `Crc32`, the standard CRC. The two registers differ by
  the complement after every byte (`ByteShifts`): a nibble shifted in through the
  table is four shifts by one bit (`NibbleShifts`), because each of the 16 entries is
  the register that four shifts make of the complement of its index, complemented
  again (`TableEntry`, one case per entry), and because shifting is linear in the
  bits above the nibble (`HighBitsMove`). That both are right after n bytes for every
  n is by the smallest counterexample (`Minima`), over functions that satisfy the
  recursion (`FoldExists`).
- in `StatsProofs`, `CrcPrintedIsStandard`: `[]CrcIsStandard` of all packets of the
  example.

`ProgramsProofs`, for any interfaces, packets and rounds:

- `ProgramsUseTheLibrary`: the examples are programs as `Dispatch` has them, with
  `ExclusiveReaders`, so that all of `DispatchProofs` holds of them.
- `InterfaceIsSafe`: `[]InterfaceOutlivesThreads`, from the order in which the threads
  and `main()` end (`EndsOK`) and that a call is under way only inside the loop
  (`CallsOK`).
- `QuitsWithinOnePacket`: `LateOK` says that after the one packet the thread is in the
  callback that will return false, or out of `dispatch()` with no way back. It needs
  that `outcome` is unset during a call, by which the callback's false is known.
- `DrainsItsQueueAlways`: `TinsOK` fixes, at the moment when `receive()` finds
  nothing, that all packets that reached the RX queue are received or discarded,
  which is `Books` with an empty queue and nothing in hand.

Only model-checked is liveness: the fairness of `Delivery` and `Counters`, `Served`,
`InterruptEnds`, `LoopsEnd`. It needs ENABLED of the fair actions,
which these provers do not reason about.

## Not modelled

Left out for good: the facade `VIface`, which forwards each call; `hexdump()` and
the texts `parse_mac()` takes, which are layout and form; `dispatch.cpp`,
`basic.cpp` and the sending half of `libtins.cpp`, straight lines of calls that the
other runs contain; callbacks that destroy interfaces and descriptors beyond
FD_SETSIZE, for which the code promises nothing; tests, build files and
documentation tools.
