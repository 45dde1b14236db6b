# A verification project for the CSF programs

The repository holds the programs of a systems course: 256-bit arithmetic
(`csf_assign01`), a hex dump in C and in assembly (`csf_assign02`), a cache
simulator (`csf_assign03`), a parallel merge sort over `fork` and a shared
mapping (`csf_assign04`), the clients of a chat system with the I/O library they
use (`csf_assign05`), and the unit-test framework of the assignments. This
directory holds TLA+ specifications of them, TLC configurations that check the
specifications on small instances, and proofs for the TLA+ proof system of what
holds for every instance.

Run everything from this directory:

    tlc -config ParSort_faults.cfg ParSort      # one run; PROJECT.json lists all
    tlapm ParSortProofs.tla                     # the proofs, one call per *Proofs module

## 1. Inventory

| Component | State | Operations | Interaction | Hard part |
|---|---|---|---|---|
| parallel merge sort, `csf_assign04/parsort.c` | the mapped file, shared by all processes; per process its range, `temparr`, the results of `waitpid`; exit codes | `main`, `merge_sort`, `do_child_work`, `merge`, `compare_i64` | processes meet only in the mapped file and in exit codes | interleaving without locks, orphans after a failure, signals, partial failure deep in the tree, `int` arithmetic on sizes |
| `is_sorted.c` | none | tests neighbours in a mapped file | reads what parsort wrote | nothing |
| `gen_rand_data.c` | a random stream | writes bytes | makes the inputs of parsort | nothing |
| cache simulator, `csf_assign03` | sets of blocks (tag, valid, dirty, two timestamps), two counters per set, seven statistics | `load`, `load_miss`, `store`, `store_miss`, `get_tag`, `get_index`, `read`, `write`, flags in `main` | one trace on standard input | the victim depends on the whole history; counters that wrap; statistics corrected after the fact; mode combinations |
| 256-bit arithmetic, `csf_assign01` | none (values of four 64-bit chunks) | create from numbers or hex, format, add, negate, sub, leftshift, mul | a value is parsed, computed with and formatted | carries across chunks, strings of other lengths than a value |
| hex dump, `csf_assign02` | buffer of 16 bytes, offset, text of the line | read, format offset and bytes, write; once in C and once in assembly | the two programs promise the same output | short reads, read errors, widths of registers |
| chat clients, `csf_assign05` (`sender`, `receiver`) | place in the dialogue, room | connect, login, join, send, leave, quit, display | with a server that is not in the repository, through a connection each | answers are matched by order only; the server may refuse, close or crash at any time |
| connection, `csf_assign05/connection.cpp` | socket, read buffer | connect, send, receive, destructor | used by the clients, uses Rio | framing at the length limit, end of the connection |
| Rio, `csapp.c` 755-941 | `rio_t`: buffer, pointer, count | `rio_readn`, `rio_writen`, `rio_readinitb`, `rio_readnb`, `rio_readlineb` | the two ends of one connection | short counts, EINTR, errors in the middle of a call, off-by-one at the end of a line, sizes that are 0 or no `int` |
| `open_clientfd`, `open_listenfd`, `csapp.c` 956-1071 | descriptors, the address list, `errno` | one call per address until one works | used by `Connection::connect` | cleaning up whichever of seven calls fails |
| error-checking wrappers, `csapp.c` 32-750 | `errno`, the error flag of a stream | one wrapper per library call | share `errno` with each other and with `open_clientfd` | errors told from ends by state that outlives a call, or by results that a success has as well |
| tctest, `tctest.h`, `tctest.c` | failures, number executed, the line of the last ASSERT, a jump buffer | `TEST`, `ASSERT`, `FAIL`, signal handler, `TEST_FINI` | test functions and signals jump into it | `siglongjmp` out of any place, also out of cleanup |
| chat server, `csf_assign05` (`server`, `room`, `message_queue`) | - | skeleton with TODO bodies | - | nothing to model |

What makes each component correct:

* **parsort.** No two processes touch the same element at the same time; exit
  code 0 means that the file is sorted, holds what it held, and is at rest; no
  failure below a process is swallowed by it; without a signal no element is
  ever lost; every process ends; the threshold bounds the number of processes.
* **cache simulator.** The hits and misses reported are those of the cache the
  usage text describes; a set never holds a block twice; every access is
  counted once; dirty data is not dropped without a write back; address fields
  name the block; more ways never hurt under lru.
* **256-bit arithmetic.** Results are those of integers modulo 2^256; a value
  written and read again is the same value.
* **hex dump.** The output lists every byte of the input at its offset,
  however `read` cuts the input up; both programs write the same; both end.
* **Rio.** What is written at one end is handed over at the other, in order,
  each byte once, in the pieces the calls promise, and an error loses less than
  such a piece; nothing is stored past the end of a caller's buffer; every call
  returns. Sizes of 0 and of 2^31 or more are exceptions (section 3).
* **open and wrappers.** A descriptor returned is the only one left open, and is
  ready; a failure leaves nothing behind; the program is stopped for a failure of
  the call just made, and for nothing else but what section 3 names.
* **tctest.** The exit code is the verdict of the reports, for every selection
  of tests and wherever a signal arrives.
* **chat clients.** A request is matched with its own answer; deliveries are
  written to `std::cout` once and in order, each in the end, and appear on a
  terminal as far as newlines bring them there; the sender comes to its end.

## 2. Modules

| Module | Models | Role |
|---|---|---|
| `SortContract` | what parsort promises to its caller | abstract specification: a file that is rearranged, then an outcome |
| `ParSort` | all of `parsort.c`, process by process | detailed specification, and the refinement of `SortContract` |
| `ParSortProofs` | | proofs, in five parts: types and `temparr`; the fork tree, races, exit codes; contents of the file; the refinement; the number of processes |
| `CacheAddress` | `get_tag`, `get_index` | pure operators |
| `CacheContract` | the cache of the usage text, `main.cpp` 19-26 | abstract specification: each set is its blocks, and which of them is newer than which |
| `CacheSim` | `cachesimfuncs.cpp`, the modes of `main.cpp` | detailed specification |
| `CacheRefinement` | | `CacheSim` implements `CacheContract` |
| `CacheInclusion` | two simulators with sets of different size on one trace | composition of two instances; what the run checks |
| `CacheProofs` | | proofs about one cache: sets, statistics, write-backs, addresses, the refinement |
| `CacheInclusionProofs` | | proofs about both: inclusion, and what `CacheProofs` says of each |
| `UInt256` | create, add, negate, sub, leftshift, mul | operators, and the loop of `uint256_mul` as a system |
| `UInt256Hex` | `uint256_create_from_hex`, `uint256_format_as_hex` | operators |
| `MCUInt256` | parse, multiply, format | composition; what the run checks |
| `HexDump` | `c_hexmain.c`, `c_hexfuncs.c` | specification, which the assembly implements |
| `HexDumpAsm` | `asm_hexmain.S`, `asm_hexfuncs.S` | detailed specification |
| `MCHexDump` | either program | the refinement mapping; what the run checks |
| `HexDumpProofs` | | proofs: each program dumps its input; the refinement |
| `RioContract` | what the comments of Rio promise to a reader | abstract specification: a stream handed over piece by piece |
| `Rio` | the reading functions | detailed specification, and the refinement of `RioContract` |
| `RioWriten` | `rio_writen` | detailed specification |
| `RioPipe` | a writer and a reader | composition of both; what the run checks |
| `RioProofs` | | proofs: no byte is sent twice or skipped; what is read is the stream; the refinement of `RioContract` |
| `Netp` | `open_clientfd`, `open_listenfd` | detailed specification |
| `CsappWrappers` | the wrappers | detailed specification |
| `Csapp` | a program that uses wrappers and opens its connection | composition of both over one `errno`; what the run checks |
| `CsappProofs` | | proofs: what the two functions return and leave behind, what stops a program |
| `TcTest` | `tctest.h`, `tctest.c`, `main` of `hextests.c` | detailed specification |
| `Assign01Proofs` | | proofs about `csf_assign01`: of `TcTest` the verdict, the lines named, the objects freed; of `MCUInt256` sums, differences, narrow products, conversions |
| `Connection` | `connection.cpp`, its two directions, and the server's end | part of the clients |
| `Sender`, `Receiver` | `sender.cpp`, `receiver.cpp` | one client each |
| `Chat` | both clients and a server (external) | composition |
| `MCChat` | | sets of texts for the configurations |
| `ChatProofs` | | proofs: requests and answers stay together, deliveries are displayed in order |

Definitions that begin with the comment "Mutant:" are variants of the
definition that follows them, each with one plausible mistake of a programmer.
They are used by nothing else: substituting one for its original has to break
the property that PROJECT.json pairs it with, which shows that the property
depends on that code.

### ParSort and parsort.c

A process is a value of `Path`, the sequence of "l" and "r" forks that leads to
it. `pc[p]` is its place in the source; one action per statement that matters:

| Action | parsort.c |
|---|---|
| `Main` | `main` 153-187 up to the call of `merge_sort`; every exit code 1 to 6 |
| `Begin` | `merge_sort` 97-102: the choice of the base case |
| `Qsort` | 103 |
| `ForkLeft`, `ForkRight` | 106-121; the child starts at `begin` with its half |
| `WaitLeft`, `WaitRight` | 123, 124 |
| `Check` | the three tests 125-136, with exit codes 10, 11, 12 |
| `Merge` | one iteration of the loop of `merge` 48-65 |
| `Copy` | `memcpy` and `free`, 138-139 |
| `Return` | back in `do_child_work` and 112/120, or in `main` 188-193 |
| `Kill` | a signal, at any point; in the middle of `qsort` any arrangement of elements (also with repetitions), in the middle of `memcpy` any part copied |
| `Ended` | nothing is left to run |

The file is `arr`, which gives for every index the *element* there, an element
being the index it had at the start; `key` gives the 64-bit number the element
holds. So a lost or doubled element shows even when numbers are equal. The
range `[begin, end)` is `lo`, `hi`. `numelements` is computed by `CInt`, the
conversion of a `size_t` to an `int` of `IntMod` values, and halved as C does.
`wstatus_l` and `wstatus_r` are not variables of the model: after a `waitpid`
that did not fail they are the status of the child, and before that they are
uninitialized, which `WStatus` makes a free choice of a status.

A merge step reads the shared array and writes private memory; `qsort` and
`memcpy` are one step each. That loses nothing as long as nobody else reads or
writes the range meanwhile, and this is what `NoRace` says, in states, of the
processes that are *about to* or *in the middle of* such an access.

### CacheSim and cachesimfuncs.cpp

`Load` and `Store` stand for `read`, then `load` or `store` with the helpers
they call. `LoadSet` and `StoreSet` give the new state of the set, `LoadCycles`
and `StoreCycles` the price. `Victim` is the scan of lines 262-278 with the
choice of lines 216-223. A store miss with write-allocate runs the whole of
`load`, including its two counters (`Ticked`), as in the source. The modes are
chosen in `Init` the way `main` chooses them: by comparing with one spelling.
The history variable `unsaved`, not in the program (which has no data), records
the stores memory has not seen. `Block.offset` is never read and is left out.

### UInt256 and uint256.c

A value is a function from 0..3 to chunks of `Bits` bits; every sum and shift of
chunks is taken modulo `Base`, as the `uint64_t` of the code is. The four steps
of `uint256_add` are nested as in the source: the carry of each comes from
`check_overflow` of the one below. `uint256_leftshift` is a loop over the chunks
that reads what it has written; it is a recursive function of the chunk.
`uint256_mul` is one step per bit. Characters of a string are digits or `Other`,
at which `strtoul` stops (the sign, blanks and `0x` it takes in front of the digits are
left out).

### HexDump, HexDumpAsm

One action per call or loop iteration; in the assembly one per label, with the
registers that live across labels (`%ebx` the count, `%r12d` the offset, `%r14`
the index). `read()` returns some bytes, none at the end, or -1. The buffer of
the C program is uninitialized at first. `MCHexDump` maps registers to
variables; the digits the assembly masks out of an offset (line 37) are 0 in both.

### Rio and RioPipe

`ReadSome`, `ReadEof`, `ReadInterrupted` and `ReadFails` are the results of the
`read()` in `rio_read`; `CopyChar`, `CopyNewline`, `CopyBytes` are the `memcpy`
with what its caller does with the bytes, `Full` the end of a loop. The `Raw`
actions are the same of `rio_readn`. A call has any size up to `UsrSize`, 0 included, and is
given a buffer of just that size; `usrbuf` has one byte more, behind the largest. `rio_read` makes
an `int` of its n and `rio_readlineb` of its maxlen, which is `CInt`. What `rio_readnb` then copies is
`Copied`: nothing when that is 0 (`CopyNothing`: the caller takes it for the end of the stream), and
when it is negative a `memcpy` of nearly 2^64 bytes, in which the program is `Killed` (`CopyWild`), with or
without bytes stored before. A maxlen that is 0 or less as an `int` ends the loop at once, and
`Full` stores the terminator. `stream` is what has arrived; in `RioPipe`
that is the `wire` of `RioWriten`, and it ends when the writer closes. A reader
uses the buffered functions or `rio_readn`, not both: the first may have read ahead.

### Netp, CsappWrappers and Csapp

Each action of `Netp` is one place where a call succeeds or fails; a step that
closes a descriptor covers a `close` that fails. `CsappWrappers` has two sides. One is the library's:
which values a function may return when it succeeds, when it fails, and when it is at an end (`Values`,
`Items`, `StreamLeaves`; external, as the manual pages have it, with a `realloc` to size 0 that frees and returns
null, as in glibc). The other is that of csapp.c: the test which each wrapper puts to the value
(`IsError`, or the condition in the action of a wrapper with a test of its own: `Realloc`, `Readdir`, `Fgets`,
`Fread`, `Fwrite`, `Inet_pton`, `Sigsuspend`, `Rio_writen`), and the function it then calls. Whether a wrapper stops for
a failure, and for nothing else, follows from the two or does not. `told` is what the message
says; `BareFails` is a call without its wrapper, which leaves an old `errno` and may set the flag of the stream.

### TcTest

`Begin`, `SetUp`, the ASSERTs, `FuncReturns`, `CleanUp` are the macro `TEST` from
top to bottom. `JumpBack` is the second return of `sigsetjmp`, reached from a failing
ASSERT, from FAIL, or from the handler (`Crash`, `CleanupCrashes`). `t` is changed
between the two returns and not volatile, so after the second one it has its value
or the one it had before. `made`, `cleaned`, `reports` and `said` are history.

### Chat

A client is at the request it waits for (`pc`). `receive` takes the next line, or, at
the end of the connection, what its buffer happens to hold: the line before or anything
(`frame`). The server is external: it answers in order, grants or refuses at
will (what needs a room only in a room), forwards what it has granted, and closes
either connection at any time, possibly in the middle of the last line (`Cut`). A delivery is
longer than its request by `DeliveryMore`, for the room and the sender's name, which is not modelled otherwise.
A line that is too long comes in `Pieces`, the first without the end of its text, the others
anything (`LaterPieces`), since the text may say anything. `m_last_result` is left out: neither client looks at it.

The receiver writes what it shows to `std::cout` (`receiver.cpp` 77), and never flushes it: `shown` is what
has been written, `flushed` how much of that has left the buffer. If the output is a terminal (`tty`) a newline
takes along all that is in the buffer, and a text without a colon is written with its newline; a text with a
colon is not, since only the part in front of the colon is read. Elsewhere only a full buffer is written
out, and that may be at any output or never: the loop does not end, and a signal that stops the receiver loses the
rest.
Empty lines and unknown commands change nothing and are no action of their own.

## 3. Runs

| Run | Instance | Properties | Shows |
|---|---|---|---|
| `parsort_faults` | 3 elements, threshold 1, 5 processes, keys {0,1}, failing calls and signals | `TypeOK`, `NoOverrun`, `NoRace`, `SortedOnSuccess`, `SuccessIsComplete`, `WstatusIsSet`, `DataKept`, `KeepsContract`, `AllEnd` | whatever fails, exit code 0 can be trusted, and everyone ends |
| `parsort_live` | 4 elements, threshold 1, 7 processes on 3 levels, nothing fails | `ProcessBound`, `Succeeds` | no deadlock of waits, exit code 0 in the end, no process too many |
| `parsort_overflow` | 5 elements, an `int` of 4 values | `SortedOnSuccess` (violated) | finding 1 |
| `cache` | 2 sets of 2 and of 3 blocks, 5 addresses, traces of 5, all modes | `WellFormed`, `EveryAccessCounted`, `NoHitStoreLost`, `LruInclusion`, `EveryAddressNamed`, `KeepsContract`, `DirtyLeavesPaid` | both simulators are the cache of the usage text; with lru the larger one is never worse |
| `cache_lost` | 1 set of 2 blocks | `NoStoreLost` (violated) | finding 2 |
| `uint256` | chunks of 2 bits: every string of digits of full length with every operand, and every shorter or longer string, or one with other characters, up to 9 | `AddIsExact`, `SubIsExact`, `NarrowProduct`, `RoundTrip` | all carry patterns; the conversions; how far products are right |
| `uint256_mul` | chunks of 2 bits, all pairs of values | `MulIsExact` (violated) | finding 3 |
| `hexdump` | lines of 2 bytes, inputs of 0 to 3 bytes over three values, one of 4 and one of 6, one read error; offsets of 3 digits, 2 of them shown by the assembly | `DumpIsFaithful`, `SameAsC`, `Ends` | both programs dump the input; the assembly implements the C program |
| `rio` | messages of 1 and 3 bytes, 4 on the wire in all, a buffer of 2, an `int` of 8 values, lines of size 0, 3 and 9, blocks of 3, 5 and 9, raw reads of 3, every fault at every call | `WireIsPrefix`, `BufferIsStream`, `HandsOverTheStream`, `StaysInUsrbuf`, `AllReturn` | what is written is what is read; which calls leave their buffer |
| `csapp` | up to 4 addresses, any sequence of wrappers before, sizes of 0 to 5, an `int` of 4 values | `OutcomeIsClean`, `StopsForFailure` | nothing is leaked; no stale `errno`; which successes stop a program |
| `tctest` | 3 tests of 2 ASSERTs, 2 signals in cleanup, every selection | `VerdictIsTheReports`, `OwnLine`, `FreedOnce` | the exit code can be trusted |
| `chat` | 3 commands, 2 rooms, 2 messages displayed, texts with and without a colon, a terminal or not, answers of `MAX_LEN` - 1 characters, closing at any time | `InStep`, `AckIsTrue`, `DisplayedInOrder`, `SenderEnds`, `DeliveriesShown` | request and answer stay together; deliveries come through |

Bounds and why they are enough:

* parsort: three elements with threshold 1 make an uneven split and two levels of
  forks, so there is a leaf, a process that is both parent and child, and a root.
  The proofs lift `NoRace` and the like to every `N` and `Threshold`. With
  `Key` = {0, 1} an unsorted output of a comparison sort shows, and equal keys occur.
  `MaxDepth`, where fork fails for lack of processes, lies at the depth that is
  needed, so that one more fork fails; in `parsort_live` it lies one level below, so
  that a fork too many succeeds and is counted. `IntMod` is 64 where the file is to fit
  in an `int` (all that matters is `2 * N < IntMod`), and 4 where it is not to.
* cache: 5 accesses over 5 addresses fill a set of two, hit in it, make it evict and
  access what was evicted, in every order and mode, in one set while the other
  is used; sets of three make lru and fifo choose. `CounterMod` is out of reach.
  `WordBits` is 6: every address of a word is tried against every pair of sizes.
* uint256: two bits per chunk are the least in which a chunk can be neither 0, all
  ones, nor one bit, and `Operands` are all values, so each of the three inner
  carries is taken and not taken, together and apart. Strings of 8 digits fill a value.
* hexdump: lines of two bytes, so that 0, 1 and 2 bytes are in a line; six bytes are
  three full lines; offsets of two hex digits in base 2 reach the mask after four bytes.
* rio: a buffer of two under lines of three: lines are spread over refills, refills
  hold parts of two lines, and calls fill exactly, end at a newline, or end at the end
  of the stream. With an `int` of 8 values, -4 to 3, a size of 3 is itself, 5 is negative, 9 is
  1, and what is left of 9 after one byte is 0: the three ways a conversion can go.
* csapp: the loop over addresses is the same from the second on; four make a first,
  a last, and two between. With an `int` of 4 values, -2 to 1, sizes up to 5 are themselves, -2, -1,
  and 0 and 1 again.
* tctest: a test before and a test after the one that is hit; a second signal in cleanup
  arrives in the branch the first one led to. More change only counters.
* chat: a join and two messages are the shortest dialogue in which order matters; two
  rooms tell deliveries apart. `MAX_LEN` is 4: only the comparison with a length
  matters. `MaxShown` is the number of messages three commands can send.

Deadlock is checked in the parsort and rio runs: in parsort the only state without
another step is the one where every process has ended (`Ended`), and a reader of Rio can
always go on or call again, unless it is killed (`BothEnded`). The other programs stop: at the end of a trace, at an exit,
or at the end of a computation.

**Fairness.** `ParSort!FairSpec` has weak fairness of the steps of each process:
the kernel runs a runnable process eventually. A process in `waitpid` is not
runnable until its child is dead. There is no fairness for `Kill`, and since a
failing call is only one way of taking a step, no failure is owed to anyone.
`RioPipe!PipeSpec`: the kernel takes bytes from a writer in the end, the writer closes
in the end (strong fairness, since it can only between two calls), and a reader
is not interrupted for ever. It owes no call to anyone: a program may stop calling.
`MCHexDump!MCSpec`: the program runs, and `read()` does not fail for ever (it
fails a bounded number of times in the run).
`Chat!FairSpec`: each client runs, and the server answers what it has been asked while
it has the connection open. It owes neither a grant nor a close to anyone, and nobody owes the buffer
of `std::cout` a flush. The sender's
input ends: it has at most `MaxCommands` commands. `connect` succeeds or fails in one step.

### Findings

1. `parsort.c` 98 keeps a `size_t` difference in an `int`. A file of 2^32 + k
   elements is taken for k elements: the run sorts a prefix and reports success
   (`parsort_overflow`).
2. `store_miss` (`cachesimfuncs.cpp` 302-311) allocates through `load`, which
   leaves the block clean. With write-back the store is then in no dirty block,
   though `main.cpp` 23 says a store marks the block dirty (`cache_lost`). The
   same state arises without allocation, for which line 84 of `main.cpp` means
   to reject write-back but compares the words exactly. `NoHitStoreLost` is the
   part of the promise that is kept.
3. `uint256_leftshift` (`uint256.c` 354) takes the carry into a chunk from the chunk below
   after that has been shifted, so from the third chunk on the carried bits are wrong and
   `uint256_mul` adds wrong partial products (`uint256_mul`). `NarrowProduct` is the
   part that is kept.

Other places where the code does less than its comments say. They are exceptions in the
properties above, each named in a comment; the configurations in brackets are not among the
runs, and TLC finds the property named violated (`tlc -config Chat_split.cfg MCChat`).

* Timestamps are 32-bit counters; when one wraps, the block used last is evicted first
  (`CacheSim_wrap.cfg` on `CacheRefinement`, `KeepsContract`).
* `hex_read` returns the -1 of a failing `read()` as an unsigned: a line of stale bytes is
  written and the offset is wrong by one (`HexDump_errors.cfg`, `OffsetIsPosition`). The
  assembly shows 16 bits of an offset (`asm_hexmain.S` 37; `ShownDigits`).
* A signal in cleanup brings the test back to its failure branch: it is counted and reported
  again, so the number of passed tests is wrong (the last part of `VerdictIsTheReports`).
* `receive` (`connection.cpp` 63) gives `rio_readlineb` room for `MAX_LEN` - 1 characters: a
  message of `MAX_LEN` is read as two, and each later answer is taken for the one
  before (`Chat_split.cfg`, `OkIsSuccess`).
* At the end of the connection `receive` parses its uninitialized buffer; the receiver
  displays its last delivery again and again (`Chat_eof.cfg`, `DisplayedOnce`).
* The receiver reads the text up to the next colon only (`Chat_colon.cfg`, `DisplayedWhole`).
* The sender sends a line of any length (`Chat_long.cfg`, `SentFits`).
* `rio_read` "transfers min(n, rio_cnt) bytes" (`csapp.c` 802), but takes n as an `int`: a `rio_readnb` of 2^31
  bytes or more runs into a `memcpy` of a negative count, or ends early when what is left is a multiple of 2^32.
  `rio_readlineb` compares with `(int)maxlen` (882): a line of such a size is empty or cut. With a maxlen of 0 it stores
  its terminator (897) past the end of a buffer of no bytes. Both are named in `MayStore`, `StaysInUsrbuf`
  and `RioContract!NoInt`; no program of the repository makes such a call.
* A wrapper may stop the program without a failure: `Realloc` to size 0 (470), whose null pointer is no
  error; `Fwrite` of items of no bytes (545), which returns 0; `Rio_writen` of 2^31 bytes or more, which
  compares with `(int)n` (916), so that one of 2^32 - 1 bytes, whose `int` is -1, goes on from a failure and
  stops at a success. `StoppedForNothing` and `Unnoticed` name them.
* The receiver writes deliveries to `std::cout` (`receiver.cpp` 77) without a flush in a loop without an end. Into
  a pipe or a file they may never appear, and on a terminal a text with a colon, which loses its newline,
  waits for the next text without one. `DeliveriesShown` says what is left: each is written, and the newline of a
  text brings it and all before it to a terminal.
* `m_last_result` compares the bytes sent or received with `sizeof(Message)`
  (`connection.cpp` 55 and 68), so it says SUCCESS for messages of just that length. Neither client reads it, and the model leaves it out.
* `Open_clientfd` and `Open_listenfd` print `strerror(errno)` also for an error of
  `getaddrinfo`, which sets none. `Fgets` and `Fread` stop the
  program at an end of file after an earlier error, since nothing clears the flag.
* A threshold of 0 is accepted by parsort, and no sort ever succeeds with it
  (`ParSort_zero.cfg`, where `NeverSucceeds` holds). `ParSort_orphans.cfg` has 4 elements and
  failing calls: orphans on both sides, and `NoRace` holds.

## 4. Proofs

Eight modules hold proofs. Every invariant and every action property that a passing run checks is proved in
them; what is left to the runs is named at the end of this section. A theorem is about the same definition as the run.

| Theorem | Module | Property | Assumed |
|---|---|---|---|
| `TypeCorrect` | `ParSortProofs` | `TypeOK`: every range is in the file, every slot holds an element | `FitsInt` |
| `MergeFitsTemparr` | | `NoOverrun` | `FitsInt` |
| `RaceFree` | | `NoRace` | `FitsInt` |
| `SuccessComplete` | | `SuccessIsComplete` | `FitsInt` |
| `NoUnsetWstatus` | | `WstatusIsSet` | `FitsInt` |
| `ElementsKept` | | `DataKept` | `FitsInt` |
| `SortedAtExit` | | `SortedOnSuccess` | `FitsInt` |
| `ImplementsContract` | | `KeepsContract`, the refinement of `SortContract` | `FitsInt` |
| `ProcessesAreBounded` | | `ProcessBound` | `FitsInt`, `Threshold > 0` |
| `BothWellFormed` | `CacheInclusionProofs` | `WellFormed` | `NoWrap` |
| `BothCounted` | | `EveryAccessCounted` | - |
| `BothKeepHitStores` | | `NoHitStoreLost` | - |
| `AddressesAreNamed` | | `EveryAddressNamed` | - |
| `BothPay` | | `DirtyLeavesPaid` | `CyclesFit` |
| `BothKeepContract` | | `KeepsContract`, the refinement of `CacheContract` | `NoWrap` |
| `MoreWaysNeverHurt` | | `LruInclusion` | `NoWrap` |
| `ImplementsContract` and five others | `CacheProofs` | the same of one cache | as above |
| `AddsExactly`, `SubtractsExactly` | `Assign01Proofs` | `AddIsExact`, `SubIsExact` | - |
| `MultipliesNarrow` | | `NarrowProduct` | - |
| `HexReadsBack` | | `RoundTrip` | - |
| `DumpsFaithfully` | `HexDumpProofs` | `DumpIsFaithful` | - |
| `AssemblyImplementsC` | | `SameAsC` without its fairness | - |
| `WritesExactly`, `PipeWritesExactly` | `RioProofs` | `WireIsPrefix` | - |
| `BufferHoldsTheRest` | | `BufferIsStream` | - |
| `CallsStayInUsrbuf` | | `StaysInUsrbuf` | - |
| `PiecesAreTheStream` | | `HandsOverTheStream`, the refinement of `RioContract` | - |
| `ReturnsCleanly` | `CsappProofs` | `OutcomeIsClean` | - |
| `StopsOnlyForFailure` | | `StopsForFailure` | - |
| `ReportsAreTheVerdict` | `Assign01Proofs` | `VerdictIsTheReports` | - |
| `SignalNamesOwnLine` | | `OwnLine` | - |
| `ObjectsAreFreedOnce` | | `FreedOnce` | - |
| `RequestsAndAnswersPair` | `ChatProofs` | `InStep` | `AnswersFit` |
| `AcksAreGranted` | | `AckIsTrue` | `AnswersFit` |
| `DeliveriesInOrder` | | `DisplayedInOrder` | `AnswersFit`, `TextsFit` |

Each assumption is a limit of the program that it does not test itself; without it TLC finds
counterexamples to the properties:

* `FitsInt`: `2 * N < IntMod`, the number of elements fits in a signed `int` (finding 1). With
  `Threshold = 0`, which `main` accepts, a single element is split for ever and only the limit of the
  system ends the forking; `ParSort_zero.cfg` shows where that leads.
* `NoWrap`: `2 * MaxTrace < CounterMod`, fewer than 2^31 lines in the trace: a line advances a
  timestamp counter by two at most. `CacheSim_wrap.cfg` shows what a wrap does.
* `CyclesFit`: the cycles of the whole trace are below 2^32 (`total_cycles` is an `unsigned`); a line
  costs at most two transfers and 102 more.
* `AnswersFit`, `TextsFit`: answers are shorter than `MAX_LEN`, and so are texts with what a delivery adds to
  them (`DeliveryMore`: tag, room and sender). `receive` reads one
  character less than a message may have, and takes the rest for the next one (`Chat_split.cfg`).

### ParSort

The theorems are about `ParSort!Spec`, for every number of elements, threshold,
depth limit, set of keys and set of faults, under `FitsInt`. The factor of two is what makes
the conversion `CInt` the identity (a signed `int` uses half of its values for negatives).

**Types.** `TypeOK` is not inductive: `Merge` appends to `temparr`, and it takes
the position of the merge in both halves to see that it reads in range. `TypeInv`
adds `ArgsInv` (begin <= end), `CursorInv` (how far a merge may be, and that
`temparr` is empty outside a merge) and `FreshInv` (a child exists only once
its parent is past the fork, so that a fork never hits a live process).

**Races.** `RaceInv` adds what is known of the tree:

* `NestedInv`: the range of a process lies in that of every process above it;
* `SplitInv`: the halves of a process meet at mid;
* `DisjointInv`: processes in different branches have disjoint ranges;
* `WaitInv`: after a `waitpid` that succeeded the child is dead;
* `QuietInv`: a process at work on the array, or one that has succeeded, has only
  successful processes below it;
* `StatusInv`: the dead processes are those with a status.

Take two processes at work. If neither is below the other, `DisjointInv` keeps
their ranges apart. If q is below p, `QuietInv` for p says that q has succeeded,
so by `StatusInv` it is dead and not at work. `QuietInv` is also `SuccessIsComplete`.
The step that needs care is `Check`: that both children have exited with 0 has
to mean that *everything* below has, which is `QuietInv` for the children and
`BelowIsBelowChild`: a path strictly below p is below one of its children. A
fork needs that nobody above the new process is quiet; the forking process
itself is alive and not quiet, and were one above it quiet, it would be dead.

`RaceInv` puts no condition on the faults: orphans are covered by it, since an
exiting parent changes no range and is neither quiet nor above anyone at rest.

**Contents of the file.** That the file is sorted at the exit needs more than
the absence of races: a range that one process has sorted must still be sorted
when its parent merges it, which may be long after. `OrderInv` has four parts:

* `ShareInv`: the root has the whole file, and a child the outer end of its
  parent's range. With `SplitInv` the ranges of the two children are exactly the
  halves the parent merges;
* `ResultInv`: a process about to return has its range in order, and so has a
  child that has exited with 0, as long as its parent has not begun to merge;
* `MergeInv`: in the loop of `merge` both halves are in order, `temparr` is in
  order, it holds what was taken from the halves (`Done`), and nothing in it is
  above anything that is left (`Todo`); at the `memcpy` it holds the whole range;
* `DataKept` itself: whatever is written to a range is made of what was there.

The parts speak of ranges nobody should be writing to. `WriterApart` shows, from
`RaceInv`, that a process in `qsort` or `memcpy` is either above such a range's owner,
which `QuietInv` excludes for a parent that still waits, or apart from it. So a
step of another process keeps the part (`RangeUntouched`, `MergeKept`), and only
the step of the process itself has to be looked at: `Qsort` and `Copy` establish
`ResultInv`, `Check` starts a merge (`HalvesSorted`, `MergeStarts`), and one
iteration of the loop keeps `Merging` because the element taken is below all
that are left (`TakeLeftOrder`, `TakeRightOrder`). `OrderInv` is inductive
relative to `RaceInv`.

**Refinement.** `Outcome` and `Torn` are the mapping. `StepHasEffect` sums up what
a step shows outside; a step that writes to the array, or ends a process by a
signal, is `Rearrange` (`RearrangeMaps`), which needs that the program has not
succeeded while anybody is alive (`AliveNoSuccess`, from `QuietInv` for the root);
the exit of the root is `Succeed` or `Fail` (`ExitMaps`), and all else is a stutter.

**The number of processes.** `SplitsLong`, inductive relative to `RaceInv`, says that a process that
has forked, or is about to, has a range longer than `Threshold`. So both of its halves have at least
`MinLeaf` elements, and the points at which two processes split are `MinLeaf` apart
(`SplitsApart`): one of them works on a half of the other, or their ranges are apart. Then a child is
named by its side and the quotient of its parent's point by `MinLeaf` (`ForksAreFew` makes this an
injection), and there are at most `N \div MinLeaf - 1` quotients.

### The cache

`CacheProofs` is about one `CacheSim` on any trace, of any size whose number of sets times bytes per block is below
2^32 (`SizesAssumption`; `main` 69-82 does not test this, and larger ones shift an address by its width); `PowersDouble` says of
powers of two what is used of them, and TLC evaluates it. Each property is proved set by set: `LoadSet`
and `StoreSet` change one set, in one of four ways (hit or miss, with or without room).

* `WellFormed` is not inductive: that a new timestamp is unlike the others needs that none is ahead of
  the counters. `CacheInv` adds this (`Good`), and `CounterInv` bounds the counters by the lines read, so
  that with `NoWrap` they do not wrap.
* `EveryAccessCounted` and `NoHitStoreLost` hold with counters that wrap. The first is inductive; the
  second needs that a set is filled from the front (`Filled`), so that the block put in place
  of another is that other's only copy.
* `DirtyLeavesPaid` is a property of steps. A dirty bit is cleared only where `load` fills a block
  over a dirty one, and there both transfers are charged; `CyclesInv` keeps the sum from wrapping.
* `ImplementsContract`: a set of `CacheContract` has tags and the relation `newer`; `Content` reads both off the
  blocks and their timestamps. A touched block becomes the newest (`WithNewest`), the victim of the scan
  is the oldest, and what replaces it is the newest: one lemma for each, for lru and fifo together
  by the one timestamp that counts (`Stamp`).

In `CacheInclusionProofs` both caches are instances, and what is proved of one is cited for both. `LruInclusion`
alone relates them. Its invariant, `InclusionInv`, is stated on the contents of the contract,
so that timestamps do not matter: with lru, a set of the smaller cache is a part of the set of the
larger one *with the order it has there*, and all of it as long as the smaller one has room
(`Included`). Then the oldest block of the larger set, if the smaller one holds it, is the oldest
there too, so an eviction keeps the inclusion. A miss of the larger cache is a miss of the
smaller one, and `HitsInv` keeps the counts comparable.

### UInt256

For every `Base` > 1 and all operands of four chunks. `CarryIsExact` is the heart: with a carry
of 0 or 1, `check_overflow` is 1 just when the sum of two chunks and the carry leaves
the chunk, also when it is the carry that makes it wrap. `AddChunks` applies it four times,
`ChunksAddUp` adds the four equations with their weights, and the top carry is the Modulus
that may be lost. A difference is a sum with the negated operand: inverting is
`Modulus - 1 - Value` (`InvertedIs`).

`Held` is the inductive invariant of reading, multiplying and writing together: the left operand is what was
read, the text what is written of the product, and the product is as `NarrowProduct` has it. `NarrowProduct`
and `RoundTrip` need three things:

* The bit that `uint256_mul` tests is the bit of the number, so that the bits below `i` and this one
  make the bits below `i + 1`; both are statements about quotients by powers of two.
* A shift of a narrow value is a multiplication. In `uint256_leftshift` the lowest chunk that is not 0
  goes to chunk `shift \div Bits`, and what leaves it to the next; the loop takes that carry rightly
  as long as no third chunk gets one (`ShiftLoop`, `LeftshiftNarrow`), which is what `NarrowRight` and
  `HalfLeft` provide (`NarrowShift`). The loop is a recursive function of the chunk; that there is one is
  shown by writing it down for the four chunks it has.
* Reading by chunks is reading the whole. `NumberOf` is a recursive function of the digits; that it exists, that
  the number of two strings put together is the first one shifted plus the second one, and that what
  `uint256_format_as_hex` writes has the number of its value are inductions over the length
  of a string, each from the well-foundedness of < (`CountUp`). A string that is too long loses
  its first digits, which is a remainder by the Modulus.

Of `^` the prover knows nothing when the exponent is a variable. `PowersDouble`, `HexPowers` and
`HexDump!PowersMultiply` say of the powers in use that the next one is the base times this one, and TLC
evaluates them in the runs; all else about powers (sums of exponents, order, that they are not 0) is proved from these.

### HexDump

For every base, line size, mask, bound on read errors, and every set of inputs. `Stage` says where the C
program would be when the assembly is at a label, and in its terms each step of either program is one
step of the C program (`Step`) or changes nothing it has (`Still`): `CSteps`, `AsmSteps`. So what
follows is proved once for both programs.

* `DumpIsFaithful` says nothing of a line that is being written. `DumpInv` does: the line has the offset
  of its first byte, and for each index below `%r14` the hex digits and the character of its byte, and
  `Nul` past the bytes (`Dumped`). At the end of a line, the text ends at the first `Nul`, and that is where the
  bytes end (`TextIs`), since no byte that is shown is one.
* A line is found by its offset, so two offsets must not look alike: `FormatInjective` goes over the
  places from the top, at each of which the quotients of both numbers agree.
  `OffsetOf` looks among the offsets of bytes: the length of the input is none, and would be
  formatted like 0 for the longest input that the digits reach.
* The assembly masks an offset before it formats it, the refinement mapping cuts the digits afterwards:
  `CutFormat`, the digits of a remainder are the last digits of the number. For an input within reach
  of the mask both change nothing, so the lines say the whole offset (`AsmDump`).
* `AssemblyImplementsC` needs of the invariant only the types: each action of the C program on the line that
  is cut is the cut of the action, and jumps are stuttering.

### Rio

For every message, buffer size, width of an `int`, sequence of calls of any size, and whatever `read()` and `write()` return.
`WireIsPrefix` is inductive once `bufp` is known to lie within the message (`Typed`); the step with content
is `WriteSome`, where the first `bufp` bytes followed by the next `k` are the first `bufp + k`
(`PrefixGrows`).

The reader's invariant, `ReaderInv`, says where every byte is: the `rio_t` holds the stretch of the stream
that ends at what `read()` returned last (`BufferIsStream`), and the caller's buffer the stretch
before that (`Held`), with no newline in a line that has not ended; and a call never has more than
it was asked for, in a line one less (`HasRoom`). The last gives `StaysInUsrbuf`; its two exceptions are
steps of `Full` with a maxlen of 0 and of `CopyWild`, and the proof has to show that a negative count comes up only
where a block of more than `IntMax` bytes was asked for. The refinement follows at the end of a call: the piece
from `From`, where the call began, is a line or a block as `RioContract` has it, ended by a newline, by the
size, by the end of the stream, or by a size that is no `int`. A failing call maps to `Fail(k)` with k the bytes it
had stored, and `HasRoom` with the newlines in `Held` makes these less than the line or block it was asked for.
While the writer and the reader go on, the stream only grows at its end.

### Csapp

`OutcomeIsClean` speaks of the end only. `Phase` says for every place of the code which
descriptors are open and in which state, whether the address list is allocated, and, past the
first address, that `errno` is from a call of this function (`Causes`, to which `setsockopt` and
`getaddrinfo` do not belong). It is inductive together with the types, for every
`MaxAddrs`. For `StopsForFailure` the program is followed through its wrappers as well. `TestsAreTheLibrarys`
says that the test of each wrapper in `UnixCall`, `CodeCall` and `SioCall` holds of the values its function returns when it
fails and of none that it returns otherwise; the wrappers with a test of their own are taken one by one,
and the exceptions of `StoppedForNothing` and `Unnoticed` are where this goes wrong. As long as the program runs, no call
has failed in a way a wrapper must stop for (`WrapperRuns`, `WrapperLeaves`).

### TcTest

For any number of tests, ASSERTs and signals. `ReportInv` ties the reports to the position of `main`
and to both counters: as long as no signal has hit cleanup, `executed` counts the reports and the test
under way. `LineInv` needs that the line of the last ASSERT is of the current test once a test is under
way. `CleanInv` follows `t`, which is null or lost exactly where cleanup is left out; it rests on
`ReportInv`, since a test whose `t` is lost has jumped, and so has failed.

### Chat

The sender's half, `SenderInv`: as long as the connection is open, a sender that waits has one request or
one answer on its way, otherwise none (`OneRequest`), and the answer is to the request last made
(`OneAnswer`). So `ask` and answer cannot drift apart, and this is all `InStep` and `AckIsTrue`
need. It is a statement about the pair: neither client nor server keeps a number by which an
answer could be matched.

The receiver's half, `ReceiverInv`: what is written to `std::cout` and what is on its way together are all that was
delivered. Lines for other rooms lie between, so the invariant counts: there is a function `f` which
says of each line on its way how many deliveries have been seen when it has been read
(`Counts`, `Pending`). A step of the server extends `f`, a line read shifts it. `AnswerFirst` and
`ListensAfterJoin` keep deliveries behind the answers to the login and the join, which
the receiver would otherwise take for them. When the server has gone, the last line may be cut, in its
text or before it.

### Only model-checked

* Liveness (`AllEnd`, `Succeeds`, `Ends`, `AllReturn`, `SenderEnds`, `DeliveriesShown`) under
  fairness, which is beyond the prover.
* The liveness half of `SameAsC`: that the assembly goes on as the C program must. The steps
  are proved (`AssemblyImplementsC`).
* Products of operands that are not narrow: not exact in general (finding 3), so there is nothing to prove.
* The 2^31 boundary that `FitsInt` excludes, and the wraps that `NoWrap` and `CyclesFit` exclude.

## 5. Not modelled

* The chat server, which is a skeleton: its functions are TODO stubs.
* Argument parsing and error texts of the programs; of trace lines of the
  simulator (`scanf`, `stoul`). `main.cpp` 37 reads `argv` before it tests `argc` and
  does not test the number of blocks per set: both end the program at once.
* `malloc` failing and the leak of `temparr` in the base case.
* Two runs of parsort on one file, or a file that is truncated while mapped.
* `gen_rand_data.c`; `genfact` and the tests of `csf_assign01`.
* `uint256_get_bits`, which reads a chunk; the write to `data[5]` (`uint256.c` 76), past the end of an
  array, whose effect is the compiler's choice and is taken to be none.
* The assembly takes `%rsi` to be unchanged after `call hex_read` and the formatting functions; so
  does the model. `write()` of the hex dumps is taken to write everything.
* Wrappers that look at no result (`Pause`, `Sleep`, `Alarm`, `Getpgrp`, `Free`, `Freeaddrinfo`,
  `Pthread_exit`, `Pthread_self`, `Pthread_once`, `Rio_readinitb`); `sio_ltoa` and `sio_reverse`, which no
  program uses (with the least `long`, whose negation does not fit, `sio_ltoa` writes no digits).
* `Connection(fd)` and `Connection::close`, which no program calls; the splitting of command lines
  into words (`client_util.cpp`).

## 6. Plan

1. *(done)* parsort: contract, model, faults, liveness, all safety proved. Cache simulator: contract,
   refinement, inclusion.
2. *(done)* uint256, both hex dumps and their refinement, Rio with its contract, `open_clientfd` and the
   wrappers, tctest, the chat clients; proofs of sums, of `rio_writen` and of `open_clientfd`.
3. *(done)* Proofs of the safety properties of parsort, the cache, Rio, `csapp`, tctest and the chat.
4. *(done)* Proofs of narrow products and of the conversions; of the dumps and of the refinement between
   the two programs.
5. When the server is written: `server.cpp`, `room.cpp` and `message_queue.cpp` in place of the
   external server of `Chat`.
