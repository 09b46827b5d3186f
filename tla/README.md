# Models and proofs for the ICS labs

The repository holds ten programs of a computer systems course. They share no
code; each directory is a program of its own. This directory models their
logic in TLA+, checks it with TLC on small instances, and proves the main
properties with TLAPS for every value of the constants. Paths below are
relative to `src/`.

## 1. Inventory

| Part | State it keeps | Operations | What is hard about it |
|---|---|---|---|
| `lab9/tsh.c`, shell with job control | job array, `nextjid`, signal mask, locals of the routine that runs | `eval`, `do_bgfg`, `waitfg`, `sigchld_handler`, `sigint_handler`, `sigtstp_handler`, `sigquit_handler`, job-list helpers | handlers interrupt the main flow and each other; signals do not queue; children change state at any time; an uninitialised `sigset_t` |
| `lab7/mm.c` over `lab7/memlib.c`, allocator | words of memory, the break, both ends of the free list | `mm_init`, `mm_malloc`, `mm_free`, `mm_realloc`, `mem_sbrk` | three representations of the free blocks kept in step over long call sequences; stale words; running out of memory |
| `lab7/mdriver.c`, its driver | range list, payload addresses and sizes, current and largest total size | `eval_mm_valid`, `eval_mm_util`, `add_range`, `remove_range` | states what an allocator owes its client |
| `lab8/csim.c`, cache simulator | tag and age of every line, three counters | `addressCache` | ages kept by three loops with different ends; tag 0 is both a tag and "empty" |
| `lab8/trans.c`, blocked transpose | two matrices | `transpose_submit`, `trans` | part of a block is parked in the target matrix |
| `lab10/proxy.c`, web proxy | one thread per connection, its buffers, the log semaphore | `main`, `thread`, `doit`, `parse_uri`, `format_log_entry` | either peer may close, stall or send less than it announced; concurrent logging |
| `lab10/csapp.c`, robust I/O | buffer, cursor and count of a `rio_t` | `rio_read`, `rio_readnb`, `rio_readlineb`, `rio_writen` | short counts, interrupted calls, mixing line and byte reads |
| `lab4/y64sim.c`, Y86-64 simulator | pc, registers, memory, condition codes, a copy of the memory before the run | `load_binfile`, `nexti`, `compute_alu`, `compute_cc`, `cond_doit`, `diff_reg`, `diff_mem` | overflow and sign on words; what a failing instruction has already changed |
| `lab5/y64asm.c`, Y86-64 assembler | symbol and relocation tables, list of lines | `assemble`, `relocate`, `binfile`, `parse_line` | names used before their labels; `relocate` reads back code bytes that `parse_line` wrote; lines placed over each other; a file left half written |
| `lab6/ncopy.ys`, unrolled copy | registers, source and target | one routine | the counter arithmetic of three loops |
| `lab1/bits.c`, bit puzzles | none | 15 pure functions | word width, overflow |
| `lab2`, `lab3` | none | binaries, listings, answers | nothing of its own to model |
| graders and timers (`yat.c`, `btest.c`, `fcyc.c`, ...) | measurements, output files | run and compare | none that other parts rely on |

How they interact: the driver calls the allocator, and the allocator calls
`memlib`, all in one thread. The shell interacts with its children through the
kernel: `fork`, `setpgid`, `kill`, `waitpid`, signals. The proxy interacts with
its peers through sockets, by way of `csapp`. The assembler's output is the
simulator's input: `make` runs the one after the other on a `.bin` file. Otherwise the parts are alone.

What makes each part correct:

- **tsh**: every job on the list is a child and every child can be found; no
  zombie is forgotten; at most one job is in the foreground and the shell waits
  for it, and no longer than it must; ctrl-c and ctrl-z reach the foreground job
  and no other; the signal mask is right outside the handlers.
- **mm**: tags and free list describe one partition of the heap; neighbours are
  merged; nothing leaks; payloads are disjoint and keep their contents.
- **csim**: the ages order the lines of a set by last use, hence the counts are
  those of an LRU cache.
- **proxy, csapp**: bytes are relayed in order, none invented or lost; a thread
  ends whatever the peers do; descriptors are closed; log lines are whole.
- **y64sim, y64asm**: an instruction has the effect the instruction set gives
  it, and one that fails has none but what the code admits; conditions mean what
  they say; every reference is resolved to the address of its one label; image,
  listing and report tell of the same bytes.

## 2. Modules

### The shell

`JobList` holds the array `jobs`, `nextjid` and the helpers (`addjob`,
`deletejob`, `fgpid`, ...) as operators. `Tsh` is the shell: the main flow is a
program counter with the locals `bg`, `pid`, `slot` (the pointer `do_bgfg`
keeps), the handlers are a stack of frames. A step is the code between two
points where a signal can be taken that matters, so every read of shared state
followed by its use is two steps:

| Action | Code |
|---|---|
| `Run`, `Fork`, `AddJob`, `Unblock` | `eval`: block SIGCHLD; fork; `addjob`; unblock, and call `waitfg` or not |
| `FindJob`, `LoadPid`, `KillCont`, `SetState`, `LoadWait` | `do_bgfg`: look the job up; read its PID; `kill(-pid, SIGCONT)`; store the state; read the PID again for `waitfg` |
| `WaitFg` | the test of `waitfg` that ends its loop |
| `Deliver`, `WaitDead`, `WaitStopped`, `WaitNone`, `BlockMask`, `UpdateList`, `UnblockMask` | the kernel enters a handler; `sigchld_handler`, one `waitpid` result at a time |
| `LookUpForeground`, `Forward` | `sigint_handler` and `sigtstp_handler`: `fgpid`; `kill` |
| `SigQuit`, `Quit` | `sigquit_handler`; `quit` or end of input |
| `Keyboard`, `SetPgid`, `ChildDies`, `ChildStops`, `ChildContinues` | the world outside; `SetPgid` is the child of `eval`, before its `execve` |

`sigchld_handler` blocks and unblocks a `sigset_t` it never initialises
(`lab9/tsh.c:419`): the frame's `mset` is any member of `HandlerMasks`. A failing
`kill` ends the shell (`unix_error`): `Die`. A job number that is found on a
slot whose job has gone gives PID 0, and `kill(-0, ...)` signals the shell's own
group, that is, the children that have not called `setpgid` yet. Command text,
messages, `quit` and `jobs` (which changes nothing) are abstracted.

`JobControl` is the abstract specification: one state per process and the
transitions the comment in `lab9/tsh.c` (lines 30-37) promises, with one that the
comment omits and the program has: a background job may stop.

`TshProps` states the properties, `MCTsh` the instances.

### The allocator

`Heap` has one operator per routine of `mm.c`, from the heap it finds to the
heap it leaves. The memory is an array of 4-byte words, so a stale link, a
payload over a tag or a footer left behind are all visible. Sizes count words
(`WSIZE` is 1, `DSIZE` is 2); a link is an offset from `heap_listp` and 0 is
none, as in the code. `Stored` writes words anywhere: one written outside the memory would enlarge its
domain, which `Malloc!TypeOK` excludes. `Padded` is the pair of special sizes of `mm_malloc`
(112 to 128, 448 to 512). `Malloc` is the client: the loop of `eval_mm_valid`
over every sequence of requests. Unlike the driver it goes on after a call has
returned NULL, it also reallocates to size 0, and it writes its payload in a
step of its own, so that nothing hinges on when it does. `mm_realloc` with no
memory left copies to NULL: status `crashed`, where the behaviour ends.

`Allocator` is the abstract specification: payloads aligned, inside, disjoint,
their contents changed by their owner only, and kept by `realloc`.

`eval_mm_util` runs the same requests and keeps `total_size` and
`max_total_size`, from which the utilisation is computed: `Grows` and `sums`.

### The cache simulator

`Csim` keeps the array of `csim.c` as one record per line; the scan and the
three aging loops are the operators `HitLines`, `EmptyLines`, `OldestLines`,
`Rehit`, `Filled`, `Replaced`. `LRUCache` is a cache that remembers the order
of last use; nothing in it is an age. The parsing of a trace line is input.

### The proxy

`Proxy` has `main`, which accepts a connection into a malloc'd block and creates
a thread for it, and one thread per connection with `doit` as a program counter.
A thread is named after the connection it was created for, but reads its
descriptor from the block, so that a block that is reused too early is visible;
and it uses descriptors, not peers: what is behind a descriptor is up to the
table `fds`, which all threads change.

| Action | Code in `lab10/proxy.c` |
|---|---|
| `Accept`, `Pthread_create`, `MainFails` | the loop of `main`; a wrapper that fails ends the process |
| `Start`, `CloseConnection` | `thread` before and after `doit` |
| `RequestLine`, `RequestHeader`, `Connect`, `SendRequest`, `RequestBody` | the request, an item a step |
| `ResponseHeader`, `ResponseBody` | the response, an item a step |
| `Abandon`, `Finish` | `close(clientfd)` before an early return; before the log |
| `P`, `PrintLog`, `V` | the log line |
| `Hangup` | a peer closes its end, at any time while it is connected |

A peer's message is a sequence of items: lines and body bytes. An item arrives
when the proxy reads it; until then the reader waits. A peer that has hung up
gives an end of file, and what is written to it is lost or fails. So every
prefix of a message may be all that ever arrives, and a peer that stalls is one
that does nothing. The loops over the bodies (`RelayByte`) keep the buffer they
read into, because they may write it again after a read that failed. Left out:
the text of the lines, `parse_uri` (a "bad" line is one it rejects), lines that
are cut short by a hang-up, and the buffering inside `rio_read`.

### The assembler and the simulator

| Module | Models |
|---|---|
| `Y64` | what both programs share: a long of `LONG` bytes and an int of `INT` (8 and 4 in the code), their wrapping, their bytes, the instruction codes and registers |
| `Y64Asm` | `lab5/y64asm.c`: `main`, `assemble`, `parse_line`, the tables, `relocate`, `binfile`, `print_line` |
| `Y64Sim` | `lab4/y64sim.c`: `main`, `load_binfile`, `nexti`, `diff_reg`, `diff_mem` |
| `Y64Tools` | the two together, as the Makefiles of lab4 and lab5 run them |
| `Y64ISA` | the abstract machine: what an instruction means, with integers for comparisons and no condition flags |
| `Y64Props`, `MCY64` | the properties; the source files of the instance |

`Y64Asm` reads a source file of lines, a line of tokens. A token is what one of
the parsers of characters recognises (a label, a name of the table, a register, a number,
a symbol, an address in parentheses, a comma, a comment) or "junk", which none does; blanks, the
spelling of numbers and the cut of `fgets` at 512 characters are left out. `parse_line` calls itself
for what is left of a line, so one step reads one label or one instruction with its operands:

| Action | Code in `lab5/y64asm.c` |
|---|---|
| `Start`, `OpenOut` | the two `fopen`s of `main`, which may fail |
| `NextLine`, `EndOfLine`, `EndOfSource` | `assemble`: a new `line_t`; end of the line or a comment; end of the file |
| `Label`, `Instruction`, `Directive` | `parse_line`: a label enters `symtab`; an instruction or datum is put into `codes` and its symbol into `reltab`; `.pos` and `.align` move `vmaddr` |
| `AlignTraps` | `.align 0`, and the least long divided by -1, end the process (line 760): `DivisionTraps` |
| `LineError` | a duplicate label, or tokens that fit nothing |
| `Relocate`, `UnknownSymbol` | `relocate`, one entry of `reltab` a step, the last one added first |
| `WriteLine`, `SeekError`, `Finish` | `binfile`, one line a step |

A second instruction on a line starts from the codes of the first, as in the code:
`RegsByte`, `Codes` and `addressMemory` write into what is there.

`Y64Sim` has one action for a call of `nexti` with a disjunct per case. `call` and
`pushq` move `%rsp` and then find that the stack cannot be written (`Push`).
The test of an address adds 8 before it compares; for the last addresses of a
long that sum overflows, which is undefined: `Fault` may refuse the address or
crash. `compute_cc` takes sign and overflow from the low halves (`ToInt`).
`Simulate` runs whatever file there is, also one that a failed assembler left.

`Y64Props!ISA` maps the simulator to `Y64ISA`: the three flags become the sign of
a comparison, and the state after a failed step is the one the code leaves. `Y64ISA` is what the code
promises, not what its comments do: it stops with ADR at an address that is out of memory, whatever it is the
address of, and gives register 15 the value 0. Where a comment says otherwise `StatusAsDocumented` holds the code
against it (section 5). And after a subtraction whose sign `compute_cc` gets wrong (`Known` says which) the
sign is left open; only that it is 0 just when the operands are equal is promised. `ConditionsTellOrder` says
exactly when the conditions are wrong.

## 3. Checks

| Run | Question | Bounds |
|---|---|---|
| `tsh_safety` | Does the job list stay in step with the children, and does it implement `JobControl`, with handlers that interrupt handlers, and do the keys spare background jobs? | 2 children, 2 slots, `nextjid` up to 2, handlers 2 deep, ctrl-c, sigset empty or holding SIGCHLD |
| `tsh_signals` | Is the signal mask right whenever no handler runs? | 1 child, 1 slot, all signals, handlers 3 deep, three contents of the sigset, SIGCONT from elsewhere |
| `tsh_liveness` | Does `waitfg` come back, is every zombie reaped? | 2 children and only 1 slot, so that one child is unlisted; ctrl-c pressed forever |
| `tsh_ctrl_c`, `tsh_waitfg`, `tsh_jids` | Three statements of comments that the code does not keep (section 5) | the smallest instance that shows it |
| `mm_safety` | Tags, list, merging, leaks, stale words, payloads, the high-water mark, refinement of `Allocator` | 24 words, chunk of 4, three blocks, sizes 1, 4 and 5 (5 padded to 7), memory that starts all 0 or all 4 |
| `proxy` | Do threads keep to their own descriptors, is what they relay what was sent, does the log tell the truth, and does a stalled peer hold up its own connection only? | 2 connections, 3 descriptors, 2 blocks; requests that are bad or have 2 bytes, responses of 2 bytes |
| `proxy_log` | A statement of a comment that the code does not keep (section 5) | 1 connection |
| `y64` | Does the image hold the program, does the listing show the image, does a step do what the instruction set says, does the report tell all, and does everything come to an end? | longs of 2 bytes, ints of 1; memory of 24 bytes (22 in blocks of 8); at most 2 or 9 steps; 10,093 source files (239,073 states) |
| `y64_status` | A comment on the status of an instruction that the code does not keep (section 5) | four programs of one or two lines |
| `csim` | Ages and counts, refinement of `LRUCache` | 2 sets of 3 lines, 4 and 2 blocks, 7 accesses |

Why the bounds are enough. In `tsh`, two children are what it takes for one to
take the other's place (PIDs are reused after reaping) and for one SIGCHLD to
stand for two; a second handler level is needed for a handler to run between
`waitpid` and the update of the list; a third adds a keyboard handler on top.
`MaxJid` only stops new jobs once the counter is above it. In `mm`, 24 words are a prologue, an epilogue and
up to five minimal blocks: all four cases of `coalesce`, list heads, middles and tails,
splits with and without a rest, both ways of growing, moves, and the memory
running out all occur, and so do the two calls that crash. In `csim` a set is
filled, hit at every age and evicted twice in 7 accesses; three lines make the
three aging loops end at different places.

In `proxy` three descriptors are one too few, so `open_clientfd` runs
out of them and numbers are reused as soon as a thread closes one; two bytes are
a first turn of a body loop, which is treated differently, and a last one.

In `y64` the source files are those of `MCY64!Files`. `Arithmetic`: all four operations
on operands at and around the ends of an int and of a long, before a jump on every condition,
and after a subtraction a move on every condition. `Stack`: `%rsp` at 13 places (below,
above, across the end of the memory, over the program, at both ends of a long), and two of eight
instructions that use it, so a program overwrites itself and runs on. `Mixed`: every
sequence of two or three of 18 lines, among them labels that occur twice, unknown names,
forward references, data with names, lines with two instructions, lines over other
lines, negative and far addresses, `.align 0` and lines that do not parse. `Traps`: `.align -1` where the least long is divided. `Raw`: any
byte as an instruction, at a place where its operands fit and where they do not. A long of two bytes
keeps what matters: it has a low and a high half, and an address takes more than one byte. `LISTING` is 16
instead of 4096, so addresses that the listing cannot tell apart occur.

`mm_safety` identifies states that differ only in words that are neither tags,
links nor payloads the client has filled (VIEW `LiveView`). That is sound because no call reads such
a word (and the client fills a new payload before its next call), and the invariant `LeftoversDoNotMatter` checks just that: in every state, all
calls are repeated on a heap whose left-over words are scrambled, and must
answer and leave the same. `tsh_safety` and `tsh_jids` use the symmetry of the
PIDs, which the model only compares; the PROPERTYs of `tsh_safety` are safety properties and symmetric too.

Deadlock is not checked where the system may stop: the shell exits, the client
of the allocator and the trace of the cache end.

Fairness (`tsh_liveness`, `tsh_waitfg`). The main flow, the delivery of SIGCHLD
and `sigchld_handler` are strongly fair: a key pressed again and again delays
them (it interposes handlers) but the processor returns to them. The keyboard
handlers are weakly fair: nothing disables the one on top. The user, the
keyboard and the children are not fair: a child need not end, nor call
`setpgid`.

Fairness (`proxy`). Threads run, so the steps that wait for nobody are weakly
fair, and so is `P`, because each thread passes it once. `Connect` is among them:
the kernel ends a connection attempt that nobody answers. The
steps that read from or write to a peer are fair for the connections in
`Patient` only, one of the two; its peers say what they have to say and then hang
up. The peers of the other may stall forever.

Fairness (`y64`). Assembler and simulator are two programs that wait for nobody, one after
the other: the operating system lets them go on, `WF_vars(Next)`. Deadlock is not checked because
both end.

## 4. Proofs

Everything below holds for any `MAXJOBS`, any finite set of PIDs, any `Keys`,
any contents of the sigset, any handler depth; respectively for any size of memory and chunk, any
special sizes and any requests to the allocator; respectively for any number of
sets, lines, bytes per block and any trace; respectively for any number of
connections, descriptors and blocks, any messages and any choice the kernel makes among free
descriptors; respectively for every source file, every width of long (up to 8 bytes) and int, every size of
memory that an address of a long can reach, and every number of steps. The assumptions are those of the
modules: positive sizes, 0 and -1 are not PIDs and there are finitely many PIDs, masks are sets of signals; a
chunk is an even number of words and at least a minimal block, and no special size is smaller than the request it stands for; an int has
fewer bytes than a long and is at least two bits shorter, a block of the simulator's memory holds whole longs (32
bytes and 8 in the code), `&` and `^` of bytes work on the top bit by itself, and an
instruction token names an entry of `instr_set`, whose data directives are among the four of the code. `PowerAssumption`, 256^(i+1) = 256 * 256^i, is a law of
arithmetic that the provers do not know; TLC evaluates it with the others.

| Theorem | States |
|---|---|
| `TshProofs!TypeCorrectness` | `TypeOK` |
| `TshProofs!ChildrenKept` | `NoLostChild` |
| `TshProofs!SigchldHeldOff`, `MaskIsRestored` | SIGCHLD is held off while `eval` forks and adds; `MaskRestored` |
| `TshJobsProofs!ListedAreChildren`, `PidsAreUnique` | `JobsAreChildren`, `UniquePids` |
| `TshJobsProofs!OneForegroundJob`, `KeysAimAtForeground` | `ForegroundIsWaitedFor`, `KeysSpareBackground` |
| `TshJobsProofs!ReportsStayTrue` | what `waitpid` reported of a child still holds when the job list is updated (`ReportsTrue`) |
| `TshJobsProofs!NobodyIsOrphaned`, `StopsAreRecordedInTime` | `NoOrphan`, `StopsRecordedWhileStopped` |
| `TshJobsProofs!ImplementsJobControl` | `Tsh` implements `JobControl` |
| `MallocProofs!TypeCorrect`, `TagsAlwaysAgree`, `FreeListAlwaysExact` | `TypeOK`, `TagsAgree`, `FreeListExact` |
| `MallocProofs!NeverFreeNeighbours`, `NothingEverLeaks` | `NoFreeNeighbours`, `NothingLeaks` |
| `MallocProofs!HighWaterAlwaysInHeap`, `LeftoversNeverMatter` | `HighWaterInHeap`, `LeftoversDoNotMatter` |
| `MallocProofs!PayloadsAlwaysSafe` | `Malloc` implements `Allocator` |
| `CsimProofs!TypeCorrectness`, `LinesStayConsistent`, `AgesStayOrdered` | `TypeOK`, `LinesConsistent`, `AgesOrderLines` |
| `CsimProofs!ImplementsLRU` | `Csim` implements `LRUCache` |
| `ProxyProofs!DescriptorsAreOwned`, `TypeCorrectness` | `DescriptorsOwned`, `TypeOK` |
| `ProxyProofs!RequestsAreGenuine`, `ResponsesInOrder`, `LogIsTrue` | `NoForgedRequest`, `ResponseInOrder`, `LoggedWhenDelivered` |
| `Y64Proofs!TypesCorrect` | `TypeOK` |
| `Y64Proofs!FilesResolved`, `ListingsMatch` | `NoFileUnresolved`, `ListingMatchesFile` |
| `Y64Proofs!ConditionsCorrect`, `FailedStepsHarmless` | `ConditionsTellOrder`, `FailedStepIsHarmless` |
| `Y64Proofs!ImagesHoldPrograms` | `AssembledRight` |
| `Y64Proofs!ReportsTellAll` | `ReportTellsAll` |
| `Y64Proofs!ImplementsInstructions` | `Y64Sim` implements `Y64ISA` |

The argument for `tsh` goes in layers, each an invariant that uses the ones before:

1. `TypeInv`: types, and `slot` is a slot while `do_bgfg` uses it.
2. `BlockInv`: what a frame saved on entry is what was blocked then, so
   popping frames one by one leads back to the mask of the main flow; hence while `eval` is
   between its block and its unblock, no SIGCHLD frame is on the stack and
   SIGCHLD stays blocked, whatever garbage the sigset holds. `MaskRestored`
   alone is not inductive: it says nothing while a handler runs.
3. `ListInv`: `JobsAreChildren` and `UniquePids` with what is known of a child
   that is forked and not listed yet (`NewChild`). Layer 2 is why it cannot be reaped in that window.
4. `FgInv`: the job in the foreground is the one the main flow waits for, and a
   command started in the background never gets to `waitfg`.
5. `KeysInv`: a PID that a keyboard handler has looked up was in the foreground
   and can only stop or disappear since, because the main flow stands still
   while a handler runs.
6. `ListedHasState` and the above give the step of the refinement: one step
   moves at most one process, along a promised transition.
7. `ReportsTrue`: a child that a handler's `waitpid` reported as ended has no process, and one it reported
   as stopped is not running, when the handler updates the job. No process is forked, and none is continued by the
   shell, while a handler runs (`NobodyWakes`); a stop can be out of date only if somebody
   else sends SIGCONT (`ForeignSIGCONT`). `StopsRecordedWhileStopped` is a consequence.
8. `NoOrphan` follows from layers 3 and 7: `addjob` fails only if every slot is taken. The jobs are
   children with different PIDs, so as long as there are fewer children than slots one slot is empty
   (`SlotToSpare`, the pigeonhole principle for the finite set of PIDs); and no job is deleted
   while its process lives.

For `mm`, the invariant `Inv` says that the words of memory are *described* by a heap: `Described`
gives the sizes `S` of a sequence of blocks that fills the memory from the prologue to the epilogue
(`Tiling`), a header and a footer for each of them (`TagsBut`), a list of the free ones
with its two links in their payload (`List`, `Links`), and says that no two free blocks touch
(`Apartness`). `Tenants` adds that the client's blocks are the used blocks of it, each
long enough for what was asked. None of the properties is inductive alone: a routine reads the tags of a
neighbour to decide whether to merge, unlinks it through the links in its payload, and writes tags where the
merged block ends, so that every property of the next state rests on all of them in this one.

`HeapProofs` proves for each routine (`place`, `coalesce`, `extend_heap`, `mm_malloc`, `mm_free`, `mm_realloc`)
that it leads from a described heap to a described heap, and that the description of the new
heap depends on that of the old one only. The second half is what makes `LeftoversDoNotMatter` a theorem: two memories
that differ in payloads have the same description, hence all their
descendants have (`Leads`). Between the steps of a routine the description has
gaps (a block that is in no list yet, a pair of free blocks that touch), which is why `TagsBut` and
its companions take the exception as a parameter. `MallocProofs` reads the properties off the
description. `BlocksOf` and `FreeBlocks`, in which they are stated, are recursive functions of an
address; that they return the described sequence is proved with a least counterexample in
`Nat`, since the induction theorems of the library take an operator as parameter.
`HighWaterInHeap` needs one more invariant (`HighInv`): the payloads of different blocks are disjoint and between
the first and the last word, and the heap never shrinks, so the words the driver counted as held
at its peak were words of the heap then and still are.

For `csim`, `SetOK` states the three facts about the lines of one set
(different tags, used lines first, different ages). Neither `LinesConsistent` nor
`AgesOrderLines` is inductive alone: the aging loops stop at the first unused line,
so the ages need the order of the lines, and the order needs that a line with
age 0 has tag 0. The refinement then follows from one lemma on what an
access does to ages (`TouchedOrder`) and one on the number of used lines
(`FullSet`: a set is full just when no line is empty).

For the proxy, `ControlInv` follows a descriptor from `main` through the block to its
thread (`Handed`, `Starting`, `Holding`), and back from the descriptor table to
whoever holds it (`NoLeak`). The two directions need each other: that a new descriptor or
block is nobody's yet comes from the second, that a thread closes its own from the first.
`TypeOK` needs it too (what is read is an item only if the descriptor is a peer's),
together with the exclusion around the log (`LogExclusive`): without it V could make the
semaphore 2.

What the proxy relays is the subject of `RelayInv`, which says for every line of `doit` what
has been read from either peer, what was written to either and what is still in the buffer
(`Asking` up to the end of the request, `Asked`, `Answering`, `Delivering`; `Conversation` puts them
together). The three properties say something only about the end of the
relaying, so none is inductive. The heart of it are the two loops over the body: `i` bytes
have gone, and the last turn, which writes the buffer even when nothing was
read, leaves the two streams different in length, which is why a request cut short
is never whole for the server (`RequestBodyRelays`) and a response has at most
one byte that the server did not send (`ResponseBodyRelays`). That a stream consists of lines, then of bytes, is
`MessageAssumption`: it is the point of view of `doit`, which reads lines up to the empty one
(lines 104 to 114) and bytes from there on (lines 129 to 141), so a peer cannot make it otherwise.
`LogIsTrue` leaves out a response with a negative length: `atoi` takes it, no byte is relayed, and the log
shows it subtracted.

For the assembler and the simulator, `Y64Inv` has four parts. `SimTypeOK` and `AsmInv` are types; that a byte stays
a byte needs the division and remainder lemmas at the head of `Y64Proofs`, and that
`parse_line` finds its operands needs the shapes of `Operands`. `SymInv` relates the
tables to the source that has been read so far: `Taken` counts the tokens of the current line that are
gone, `Read` says which tokens of the file are, and then a name is in `symtab` just when one label that was read has it
(`OneLabel`, `LabelsRead`), and every use that was read is in `reltab` (`UsesRead`). `NoFileUnresolved` alone
is not inductive, because it speaks of the source and the file and of no table. A
file exists only after `relocate` has met every entry (`Resolved`) and the whole source was read
(`Finished`). `FileInv` says that every line that is written is in the file unless a
later line *that is written too* took its place; at the end this is `ListingMatchesFile`. `ConditionsCorrect` is about all
longs: the sign and the overflow flag are those of the low halves. The low half of a difference is that of the
difference of the low halves (`LowDifference`, because the long wraps at a multiple of where the int does:
`LongTurns`, which is what `PowerAssumption` is for). A difference of two ints wraps at most once, and just when
it does the overflow flag is set, unless 0 is less the least int (`FlagsOfDifference`). So the conditions
give the order `LowLess` of the low halves (`ConditionsOfDifference`), which is that of the operands when
they are ints (`OrderOfInts`).

`ImagesHoldPrograms` compares the file with what the source says, and rests on `ImageInv`, which follows each
line from `parse_line` to the file (`LayoutInv`). For every line whose instruction was read it says that the
line is at `Place`, the sum of the sizes before it, and that its codes are those of the instruction
(`CodesAre`) with *some* number (`NumberFor`): the one that is written, or for a name 0 until
`relocate` has met the entry of the line and the label's address from then on (`Addend`). So the same statement holds
before, while and after the table is worked off. That `relocate` finds the place from the code byte (`CodesPatched`),
and meets each line once, needs that a line has one entry at most and its instruction an operand for a name
(`EntryRight`). `NowAt` says where `vmaddr` is in the middle of a line, `SymbolRight` that
a symbol is the place of the line of its label. At the end nothing is unread, so a line is covered in the file
just when the source says so (`LineInFile`), and the bytes decode to `Meaning` (`CodeDecodes`, `MeaningIs`);
`TableMeans` goes through `instr_set`, every entry of which stands for the instruction of its name. `Place`, in which the property is stated,
is a recursive function; that it has the values its equations say (`PlaceSteps`) is proved with a least counterexample.

`ReportsTellAll`, `ImplementsInstructions` and `ImagesHoldPrograms` need that a long is the number of its bytes, for any number of bytes.
The sums of `FromBytes` and the quotients of `ByteOf` are tied by a `Chain`: numbers each of which is
its lowest byte and 256 times the next. A long and its bytes are two ends of one chain (`ChainRange`,
`ChainDiff`, `ChainBytes`), so bytes that are made into a long come back (`BytesBack`), and a long that is
put into bytes does (`LongBack`). For the report this
means that words of memory that differ somewhere differ as longs, so `diff_mem`, which compares longs, misses no byte;
that needs a memory of whole longs (`WholeLongs`), because `diff_mem` goes in steps of one
long. `ReportInv` adds that a report is made once, of a machine that has stopped, and that nothing moves afterwards.

The refinement is one lemma for each case of the switch in `nexti` (`RrmovqStep` to `PopqStep`, and
`BadFetchStep` and `BadInstrStep` for those that stop), each from the same few operators on memory and registers:
what `nexti` fetches is what the instruction set decodes (`DecodeIs`, where the constants that it
reads past the end of an instruction cannot matter). `xorq` and `andq` take the sign
from the top byte (`TopByte`, `SignOfBits`), and `compute_cc` takes that of the low half (`IntByte`).
The flags map to a sign only under `FlagsInv`: with the zero flag the sign flag equals the overflow flag, so that
"zero", "less" and "greater" exclude each other. It holds of the flags at the start and of all that `compute_cc` packs
(`FlagsFit`): after a result of zero both are clear.

Model-checked only: the liveness of `tsh`, of the proxy and of the two Y86-64 tools, because fairness and ENABLED are out of the
prover's reach. Every other property is proved.

## 5. Where code and comments disagree

- A ctrl-c between `addjob` and the child's `setpgid`, or between the end of
  the foreground job and the handler's `kill`, makes `kill` fail and the shell
  exit; the comment promises to send the signal along (`tsh_ctrl_c`).
- `fg` on a job that is reaped before `waitfg`'s argument is read makes the
  shell wait for PID 0 forever, because `fgpid` also returns 0 for "none" (`tsh_waitfg`).
- `doit` fills up a response that is one byte too short with the byte in its
  buffer, and logs the announced size; `format_log_entry` calls that size "the
  number of bytes from the server" (`proxy_log`).
- `addjob` wraps `nextjid` without looking whether the number is in use, so two
  live jobs may share a job ID (`tsh_jids`).
- `nexti` (`lab4/y64sim.c:377`) promises `STAT_INS` for an invalid register id, data address or stack address. It
  returns `STAT_ADR` for the addresses, executes an instruction that names register 15 (reading 0, storing
  nothing), and takes a move on a condition above 6 for one that is not met (`y64_status`; each of its four
  programs alone shows it).

Not a run, but worth knowing: the comment's list of transitions lacks "BG to ST",
which a background job that receives SIGSTOP or SIGTTIN takes; `bg` may store BG over an ST that `sigchld_handler` recorded between its `kill` and the store, though line 27 says
that BG is "running in background"; with a full job list a
child runs unlisted (it is reaped, but cannot be managed); and `bg` on a
slot whose job has gone sends SIGCONT to the shell's own process group, which
continues a child that has stopped before its `setpgid`. For that reason "a job in state ST is
stopped" is not an invariant, and `StopsRecordedWhileStopped` is the statement about the
moment at which the stop is recorded. `mm_realloc` without memory copies to
NULL (`lab7/mm.c:439`), and `mm_realloc(NULL, 0)` frees NULL (line 373).

Of the Y86-64 tools:

- `load_binfile` (line 226) wants to see the end of the file, so an image
  that just fills the memory is refused (`Load`).
- `mrmovq` from one of the last eight addresses of a long (line 54) overflows a sum; when
  the test passes for that, the access is outside the memory and crashes.
- Subtracting the least int from 0 gives no overflow flag (`compute_cc` asks for an operand above 0), hence
  the wrong order. And for longs beyond an int, the sign and the overflow are those of the low halves: the
  conditions are wrong whenever these are in another order. `ConditionsTellOrder` says so for every pair of longs.
- `.align 0` ends the assembler with a division by zero (`lab5/y64asm.c:760`), and so does
  `.align -1` when the sum it divides is the least long (the quotient overflows), and a negative `.pos` leaves
  a `.bin` file that has the lines before it (line 895).
- A label behind an instruction on its line moves the address of the line (line 579): the instruction is written
  behind the place it was counted for, where the next line goes. And the last addresses of a long wrap, as
  does the sum before an alignment (line 760). `AssembledRight` is about sources without these (`Plain`, `Fits`); the attempt to
  prove it without them failed for that reason, on sources that are not in the instance of `y64`.

## 6. Not modelled

- **A `fwrite` that fails** in `binfile` (`lab5/y64asm.c:899`), whose result the code does not test: on a full disk the file is
  cut short and the assembler reports success.
- **The inside of `rio_read`** (`lab10/csapp.c`): short counts, interrupted calls and
  the buffer. The proxy reads lines and single bytes through it; the model takes what these reads
  return. A line cut short by a hang-up (`lab10/proxy.c:104`) is left out with it. So are header lines
  that together exceed `MAXLINE` (line 109), lengths that are no numbers in the range of an int (line 146), and the buffer that
  `localtime` shares between threads (line 265), which affects the text of a log line only.
- **Huge sizes** in `mm.c` (line 297: rounding wraps) and in `csim.c` (lines 37 and 68: products and
  ages beyond an int), which no trace in the repository comes near; the word that `csim.c:50` reads behind a
  full last set, which changes nothing; and the decoding of a trace line into 9 digits (line 189).
- **`lab8/trans.c`**: copies with constant bounds in one thread; `test-trans` checks all of what it does for the
  three sizes it is written for.
- **`lab6/ncopy.ys`**: a program for the pipeline of another tool set; as a program of
  `Y64Sim` its inputs are far beyond the memory TLC can run.
- **`lab1/bits.c`**: pure functions on 32 bits without state, which `btest` compares with references.
- **`lab2`, `lab3`**: binaries and answers. **Graders and timers** run other programs and compare or measure.

## 7. What is left to do

A model of `rio_t` over short counts, composed with `Proxy` in place of its items, and
with it the lines that are cut short.
