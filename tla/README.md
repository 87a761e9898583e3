# Verification of the CSAPP-3e labs

This directory holds TLA+ models of the programs in the CSAPP lab repository,
their TLC configurations, and TLAPS proofs. Paths below are relative to the
repository (`src/`).

## 1. The system

The repository is not one program but five labs with their notes. What carries
logic of its own:

| Component | Source | State | Operations |
|---|---|---|---|
| Shell: job list | `shlab-handout/tsh.c:43-52, 467-613` | `jobs[MAXJOBS]`, `nextjid` | `initjobs`, `addjob`, `deletejob`, look-ups by pid, job number and state |
| Shell: control flow and handlers | `tsh.c:92-457, 653-677` | the list, the signal mask, the handlers' locals | `eval`, `waitfg`, `do_bgfg`, `quit`, handlers of SIGCHLD, SIGINT, SIGTSTP, SIGQUIT |
| Reference shell | `shlab-handout/tsh-ref.c` | the same | the same, with handlers that write the list themselves |
| Cache simulator | `cachelab-handout/csim.c` | flat array of lines, three counters | one load, store or modify per trace line |
| Transpose and its tests | `cachelab-handout/trans.c`, `tracegen.c`, `test-trans.c`, `cachelab.c` | two matrices, the table of functions, the results | block loops; tracing, simulating, scoring; the alarm |
| Allocator | `malloclab-handout/mm.c`, `memlib.c` | simulated heap with boundary tags | `mm_init`, `mm_malloc`, `mm_free`, `mm_realloc`, `mem_sbrk` |
| Allocator driver | `malloclab-handout/mdriver.c` | list of allocated ranges | `add_range`, `remove_range`, `eval_mm_valid` |
| Timing | `malloclab-handout/fcyc.c`, `clock.c`, `ftimer.c`, `fsecs.c` | the K best samples, a two-word counter, a timer | `fcyc`, `callibrate`, `ftimer_itimer`, `ftimer_gettod` |
| Robust I/O, sockets | `proxylab-handout/csapp.c` (and its copy under `tiny/`) | `rio_t` buffer, descriptors | `rio_readn`, `rio_readnb`, `rio_readlineb`, `rio_writen`, `open_listenfd`, `open_clientfd` |
| Tiny server | `proxylab-handout/tiny/tiny.c`, `cgi-bin/adder.c` | one connection, one child | `doit`, `serve_static`, `serve_dynamic` |
| Data lab harness | `datalab-handout/btest.c`, `decl.c` | test values, score, a jump target and an alarm | `gen_vals`, `test_function`, `run_tests` |

How they interact: in the shell the main flow and the four handlers share the
job list and nothing but a SIGCHLD mask in `eval` orders them; the children
reach the shell only through signals and `waitpid`. The transpose tests run
`tracegen` and feed its accesses to the simulator. The allocator calls
`mem_sbrk`, and the driver calls both and checks what they return. Tiny is
written on the robust I/O functions and the socket helpers. The data lab's
harness calls the puzzles under an alarm that jumps out of its handler.

What is hard:

- The shell is by far the hardest: a handler may run between any two
  instructions of the main flow and of other handlers, SIGCHLDs coalesce, and
  children stop and end when they like.
- The I/O functions must survive short counts, EINTR and errors in the middle
  of a call; Tiny must survive clients that leave, files that change between
  `stat` and `mmap`, and a child that cannot start.
- Alarms (`test-trans.c`, `btest.c`) go off anywhere.
- The simulator, the allocator, the transpose and the sampler are sequential;
  what is hard in them is a long sequence of legal calls that leaves the data in
  a wrong shape, and arithmetic at a boundary.

What makes each one correct:

- Job list: one entry per process; a new job's number is not in use.
- Shells: every child is in the list from `addjob` until it is reaped and no
  longer; the foreground job is the one the shell waits for; the prompt comes
  back; ctrl-c and ctrl-z reach the foreground job only; every zombie is reaped.
- Simulator: it is a least-recently-used cache and its counters add up.
- Transpose: B is A's transpose at every shape; the misses are those on record.
- Allocator: allocated blocks do not overlap and keep their contents; the heap
  is a chain of blocks with matching tags and no two neighbouring free blocks.
- Timing: the counter is exact across its words; the result is the least
  sample; measuring ends.
- Robust I/O: the bytes handed out are the stream's, in order, none twice.
- Tiny: a request is answered once and whole; no descriptor or child is left;
  the server survives the client's requests.
- Harness: the values fit their arrays and no int overflows on the way to them; the
  points are the ratings of the puzzles that agreed everywhere; it ends.

`PROJECT.json` lists all components, those not modelled too, and the hazards
at their lines.

## 2. Modules

| Module | Models | Proofs |
|---|---|---|
| `JobList` | the list alone, under any sequence of calls (`ListSpec`) | `TshProofs` |
| `Tsh` (EXTENDS `JobList`) | the running shell with children and kernel | `TshProofs` |
| `TshRef` (EXTENDS `Tsh`) | the reference shell | `TshProofs` |
| `Lru` | abstract least-recently-used cache | |
| `Csim` | `csim.c`; implements `Lru` | `CachelabProofs` |
| `Trans` (EXTENDS `Csim`) | both transposes, traced, simulated and scored | `CachelabProofs` |
| `NatFacts` | facts the proofs share: least and greatest elements of sets of naturals, division with a remainder | itself |
| `Memlib` | `memlib.c`: the region and its break | |
| `Mm` (EXTENDS `Memlib`) | `mm.c` as operators on a heap | |
| `Alloc` | abstract: what a client of malloc, realloc and free may rely on | |
| `Mdriver` (EXTENDS `Mm`) | `eval_mm_valid` with the range list, calling `mm.c`; implements `Alloc` | `MdriverProofs` |
| `Fcyc` | `clock.c` and `fcyc.c` | |
| `Fsecs` (EXTENDS `Fcyc`) | `fsecs.c` and `ftimer.c`: the three timing packages | `FsecsProofs` |
| `ByteStream` | abstract: calls that take the next bytes of a stream | |
| `Rio` | the Rio package; implements `ByteStream` | `RioProofs` |
| `Sockets` | `open_listenfd` and `open_clientfd` | |
| `Tiny` (EXTENDS `Sockets`) | the server, its CGI child, clients and files | `TinyProofs` |
| `Btest` | the data lab's test harness | `BtestProofs` |
| `MC...` | instances for TLC | |

Definitions named `X_Something` with a comment starting "Mutant:" are variants
of `X` with a plausible mistake. No specification uses them; putting one in
the place of `X` must break the property that `PROJECT.json` pairs it with.

### 2.1 JobList

`jobs` is a function from slots `0 .. MAXJOBS-1` to records `[pid, jid,
state]`; `cmdline` is left out, since no decision reads it. The scans
(`fgpid`, `getjobpid`, ...) are operators that take the first matching slot,
as the loops do; a pointer to an entry is its slot, `NULL` is -1. `AddJob` and
`DeleteJob` keep the two different rules for `nextjid` (wrap above MAXJOBS;
`maxjid + 1`). `SetState` is a write through a pointer and checks nothing,
like the code. In `ListSpec` the caller is any caller that adds a pid only
when it has no entry.

### 2.2 Tsh

The shell is one thread. `mpc` is where the main flow stands, `hpc[h]` and
`hpid[h]` where handler `h` stands and its local pid, and `level[h]` its
nesting depth: the deepest active handler runs, the main flow runs when none
is active. `Signal` installs the handlers with an empty mask, so a handler
blocks only its own signal; `eval` blocks SIGCHLD from before `fork` until
after `addjob`. `Deliverable` says both.

| Action | Code |
|---|---|
| `EvalBlock`, `EvalFork`, `EvalAddJob`, `EvalUnblock` | `eval`, 167-224 |
| `WaitFg` | `waitfg`, 372-384 |
| `BgFgLookup`, `BgFgCont`, `BgFgSetState` | `do_bgfg`: look-up, `kill(SIGCONT)`, write of the state |
| `Quit`, `Sigquit` | `builtin_cmd`, `sigquit_handler` |
| `ChldEnter`, `ChldWaitpid`, `ChldDelete`, `ChldStop` | `sigchld_handler` |
| `IntEnter`, `IntKill` | `sigint_handler` |
| `TstpEnter`, `TstpCheck`, `TstpKill` | `sigtstp_handler` |
| `Keyboard`, `Child...` | the world: keys, and what a child may do |

`proc[p]` is the life of child `p`: forked (before `setpgid`), grouped (before
`execve`), running, stopping (stopped, not yet reported by `waitpid`),
stopped, zombie, and none once reaped. `pend[p]` and `sigs` are the pending
signals of the child and of the shell, sets because signals do not queue.

Granularity. Each action is one system call or one walk through the list. The
walks are single steps because no handler can make a difference in the middle
of one that it could not make just before or after it:

- A scan by the main flow (`fgpid`, `getjobpid`) interrupted by SIGCHLD: the
  handler only clears entries or writes ST, never FG or a pid, so a slot
  already passed does not become a match. An entry that is cleared between the
  test of its state and the read of its pid yields 0, as does a scan after the
  deletion.
- `addjob` runs with SIGCHLD blocked. `sigint_handler` and `sigtstp_handler`
  only read; they look for state FG first, which `addjob` writes after the pid,
  so they find the new entry whole or not at all.
- `deletejob` in the SIGCHLD handler, interrupted by one of those two:
  `clearjob` writes the pid first, so `fgpid` gives 0 as after the deletion.
- A read-only first scan of a handler (`IntEnter`, `TstpEnter`) is joined with
  its delivery: a SIGCHLD between the two is the same as one before delivery.

Three variables in `hist` remember mishaps the code lets happen (a stale
write, a lost stop, an untracked child), so that the properties can say what
holds as long as they have not happened. `tsh_one_foreground` shows a stale
write happening; section 5 names the other two.

Left out: output and its buffering, `cmdline`, the child's exit status,
`mysplit`'s grandchildren (a job is one process), pids reused by processes
that are not the shell's children, failures of `sigprocmask`.

### 2.3 TshRef

The reference shell has the same list, main flow and children; `RefNext` takes
those actions from `Tsh`. Its handlers are its own: `sigint_handler` sends SIGKILL and
deletes the job itself (`RefIntKill`, `RefIntDelete`), `sigtstp_handler` sends
SIGTSTP, looks the job up and writes ST itself (`RefTstpKill`,
`RefTstpLookup`, `RefTstpMark`), a `kill` that fails ends the shell from inside the
handler (`ErrorExit`), and so does a stop of a child that is not listed
(`RefChldStop`). A child with SIGKILL pending (`Doomed`) runs no instruction of
its own, reports no stop any more and ends (`ChildDies`).

Handlers that write the list make two walks of `Tsh` visible in the middle:
`addjob` is `RefAddEntry` (pid and state) and `RefAddJid` (the number), since
`sigint_handler` may empty the entry in between; and a look-up in a handler
and the write through its result are two steps. What is still one step:
`jobs[i].jid = nextjid++` with its wrap, and `deletejob`'s `clearjob` with the
new `nextjid`; a `deletejob` inside another could leave `nextjid` higher than
needed, which is still a fresh number.

### 2.4 Csim and Lru

`cache` is the flat array, as allocated (twice the sets that are used), and a
step is one trace line. `HitLines`/`FreeLines` are what the loops of
`inCachetable` and `writeCache` look for, `refreshCache` is the shift to the
end of the set. `Parsed` keeps the low `AddrBits` bits, which is what `%x` into
an `unsigned int` does. `Lru` knows only which tags are resident and which was
used before which, and shows the block of each access (`request`, mapped to
`addrinfo`): without it a first-in-first-out cache would refine `Lru` by
passing each hit off as a hit on the newest block. `Csim` maps to it by
forgetting positions: `SetTags` and `OlderTags`.

### 2.5 Memlib, Mm, Mdriver and Alloc

The allocator is sequential and keeps no state but the heap, so each routine
of `mm.c` is an operator from a heap (`mem`, `brk`, `heap_listp`) to the heap
it leaves and the pointer it returns; the macros keep their names. Memory is
one word per `ALIGNMENT` bytes: a tag, what a client stored, or what was there
before; sizes and addresses stay in bytes. A read outside the region has no
value, and TLC would stop at one. `Chain` is the set of blocks that
`find_fit`'s loop goes through, and `find_fit` takes the first that fits.
`ChunkAssumption` says that the first free block has room for its two tags and
the region for that block; the real values (an extension of 512 bytes, tags of
8, a region of 20 MB) meet it easily. `extend_heap` takes `words`, which
all callers but `mm_init` give in bytes; so does the model.

`Mdriver` is the client: any trace that allocates ids that are not live and
reallocates or frees those that are. One step is one request with all that
`eval_mm_valid` does for it: the call, `add_range`'s three tests in their
order (the overlap test as written, which looks for an end of the new payload
inside an old one), the comparison of the data after realloc, `memset`. That
comparison reads signed chars, so that it fails for ids whose low byte is 128
or more, whatever `mm.c` did; `DriverSatisfied` excepts those and nothing
else.
`ranges` is a set, since `add_range` admits no two ranges with one start.
`blocks` and `block_sizes` are reset when an id is freed; the code leaves them
and does not read them again. A new trace may start at any time, at a heap that
is emptied and not wiped.

`Alloc` has no blocks or tags: each live id has a start, a size and words. A
request gives its id a place that no other live payload touches and changes
nothing else. The refinement mapping reads the words of each payload from the
memory of `mm.c`, so a tag written into a payload, a wrong copy, or a block
handed out twice is a step `Alloc` does not have.

### 2.6 Trans

Both registered functions copy chunks: some elements of a row of A are read into
locals, then written to a column of B. `transpose_submit` and `trans` say
which chunk comes x-th (`Blocked`, `Ragged`), `Access` which address a chunk
touches k-th; the loops are turned into their counters, the order of the
accesses is kept. `RunTracegen`, `Outside`, `Start`, `CallFunction`, `Copy`,
`End`, `Validate` are one turn of `eval_perf`'s loop with the `tracegen` it
runs: a step is one line of valgrind's log, which goes into the simulator of
`Csim` at once (the code keeps it in a file first; `tracegen` does not see the
simulator). `csim-ref` has no source here; `Csim` stands in its place with the
geometry the tests give it. The addresses are those of `trace.f0` and
`trace.f1`, and `GLOBALS` the three reads of a call through `func_list`. The
alarm may go off before every step and after the report.

### 2.7 Fcyc and Fsecs

Time is counted in cycles; `tsc` is the machine's counter and wraps at `B * B`,
`Elapsed` subtracts its two words as `get_counter` does. `add_sample`,
`has_converged`, `clear`, the `set_fcyc_` calls and `fcyc`'s loop are one
operator or action each. `CalGap` is a turn of `callibrate`'s loop. Timer
interrupts may fall into the function, into a gap of `callibrate`, and between
reading the counter and calling `times` on either side (`late`). A double is
an integer and `epsilon` a percentage. In `Fsecs` `package` is the timing
package that `config.h` chooses; `elapsed` and `clock` are real time and the
clock of the day, which `ClockStep` sets once. The result is the sum over the
runs; the code divides it by their number.

### 2.8 ByteStream and Rio

A byte is its place in the stream, so losing, repeating or swapping bytes
shows. The caller reads with `rio_readn`, `rio_readnb` or `rio_readlineb` and
writes what it got with `rio_writen` before it reads on. Each `read` or `write`
of the kernel is a step: `...Some` for any count it may return,
`...Interrupted` for EINTR, `...Error` for another error, `RefillEof` at the
end. The copying of one byte by `rio_readlineb` is a step of its own
(`CopyByte`). `errno` is kept because `rio_writen` asks it also when `write`
returned 0 (`WriteNothing`). The `Rio_` wrappers end the program
(`UnixError`). A caller that mixes buffered and unbuffered calls on one
descriptor loses what is buffered; the package says so, and the model's caller
does not do it.

`ByteStream` knows only what is taken: a call takes what it returns, comes short
only at the end, and a line ends at its newline; a call that fails may have
used bytes up. `Rio` maps to it by `taken <- base`.

### 2.9 Sockets and Tiny

`pc` is where the server stands, from `getaddrinfo` in `open_listenfd` to
`accept` and through `doit`; `cpc` the same for the client with its
`open_clientfd`. Both walk `NAddrs` addresses. `fds` are the server's
descriptors by what they are for. Every system call that has a capitalised
wrapper may fail and then ends the server (`unix_error`, `WrapperFails`); `bind`,
`connect` and `socket` try the next address.

Lines travel on a connection, not bytes: `Rio` shows that `rio_readlineb` and
`rio_writen` neither lose nor repeat any. `RequestLine`, `Header`, `Stat`,
`ServeStatic`, `OpenFile`, `MmapFile`, `ServeDynamic`, `Fork`, `Wait`,
`Write` and `CloseConn` follow `doit`; an early return is a `Send` that goes on to
"close". At the end of the file `Header` is disabled: `read_requesthdrs` then
loops for ever on the line before. `HeaderStale` is the case where `buf` on the
stack still holds an earlier request's empty line. The body is read from the
file while it is written, so that a file that has become shorter faults there
(`WriteFault`). The child's output is what `adder` writes, or, when `execve`
fails, the server's own buffered log, which `exit` flushes to the connection.
A client may leave at any point; its first unread write then passes in silence
and the next ones break the pipe. Header text, file types and the log's
wording are left out.

### 2.10 Btest

`Generate` takes the values of `gen_vals` for every argument, with all of its
three cases, and any weights `rand` may give; `Agree` and `Differ` are one call of
both functions, `at` the places in the three nested loops; `Hang` a solution
that does not return. `Second` lets a second go by: the alarm that is never
cancelled may go off at the next puzzle, where the jump either lands in the
new `sigsetjmp` or is undefined. A word has `W` bits. The options `-1`, `-2`, `-3` come in
any combination, with or without `-f`. Left out: reports, the grading output.

The values are computed with integers that do not overflow, which is right only for
ranges that `gen_vals` can do (`Computable`). The table must have no others
(`TestSetAssumption`), and `decl.c` has none: a range that is tried exhaustively up to
the largest int would never end its loop, and one that ends within `MAX_TEST_VALS` of the
smallest int would overflow in the comparison (section 5). That the assumption is enough
is part of `ValuesFit`: `Computed` are the ints that `gen_vals` goes through, the loop
counter's last value included, and they all lie between `TMin` and `TMax`.


## 3. Runs

| Run | Instance | What it shows |
|---|---|---|
| `tsh` | 2 slots, 2 pids, ctrl-z, SIGQUIT | the list and the children agree; a reported stop is recorded; the table is used through its calls only |
| `tsh_keys` | 1 slot, 2 pids, ctrl-c and ctrl-z | nested handlers, a list too short for the children; what a key's handler has in hand and when a key is lost |
| `tsh_live` | 1 slot, 2 pids, no keys | zombies are reaped, the prompt comes back |
| `tsh_one_foreground` | 2 slots, 2 pids | violated: two foreground jobs |
| `tshref` | 1 slot, 1 pid, ctrl-c and ctrl-z | handlers that write the list forget no job that lives on; ctrl-c ends the job |
| `csim` | 2 sets of 3 lines, five addresses, 12 accesses | an LRU cache, its counters included |
| `trans` | 32 sets, direct mapped, 32-byte blocks; seven shapes | B is right at every shape, and the misses are those on record |
| `mdriver` | 28 bytes of heap, 3 ids, sizes 1 and 5 | the block chain stays whole, nothing leaks, no request disturbs another payload |
| `fsecs` | words of 4, a tick of 4 cycles, two best of 1 or 3 samples | the counter is exact, the best sample is returned, runs are timed rightly, measuring ends |
| `rio` | 4 bytes, a buffer of 2, lines of at most 4 | no byte lost, repeated or swapped; every call returns |
| `tiny` | 2 addresses, 2 connections, 7 kinds of request | whole answers, nothing left open, the server survives requests and comes back to `accept` |
| `btest` | words of 7 bits, six puzzles, two seconds | values fit their arrays and no int overflows, the points are the sum of what was earned, the harness ends, an alarm ends its own puzzle in time or is one that nobody cancelled |

Bounds.

- Shell: two children are what one SIGCHLD can stand for at least, and what it
  takes for a foreground and a background job at once; one slot with two
  children fills the list. ctrl-c is left to the run with one slot because each
  key multiplies the handlers that may be nested, and the liveness run has no
  keys: its children stop and end by themselves, which tells `waitfg` the same.
  The reference shell's handlers write, so that one job is enough for them to
  get in each other's way; its theorems are for any number.
- Simulator: three lines per set are the least for which "oldest" and "not
  newest" differ; four blocks of set 0 force evictions, and the fifth
  address lies in set 1, whose lines must stay as they are while set 0's are shifted.
- Transpose: 32x32, 64x64 and 61x67 are the shapes the lab grades, at its
  own cache; 5x3, 17x18, 33x20 and 3x40 leave over rows, columns and both, or have no
  whole block at all. The alarm may go off anywhere.
- Allocator: in the heap of 28 bytes (tags of 2, first extension of 4, later
  ones of at least 8) both extensions happen, by `CHUNKSIZE` and by a larger
  request; three smallest blocks fit, so that a block is freed with free
  neighbours on neither, either and both sides; a split leaves a block or is
  refused; malloc and realloc run out of memory.
- Timing: durations of two and three cycles against words of four make the low
  word borrow and the high one wrap; one sample is fewer than `kbest`, three
  are one more. A second has five microseconds here, and the clock is set back by
  one second or forth by three microseconds, once.
- Robust I/O: a buffer of two is refilled twice for four bytes, a request is
  larger than it and smaller; the lines of the two texts have one to three bytes,
  three being the most that `MAXLINE` leaves room for, with and without a
  newline at the end of the stream.
- Tiny: two connections show what one leaves to the next; two addresses are
  what a failure and a retry need.
- Harness: seven bits hold, with `MAX_TEST_VALS` 52, all three cases of `gen_vals`,
  ranges that touch `TMin`, `TMax` or both, the lowest range that is sampled, and one
  that ends just below `TMax` and fills its array when tried exhaustively.

`JidBound`, `CountBound` and `ConnBound` bound otherwise endless counters.
Symmetry over pids is used in the shell's safety runs only. Configurations switch
deadlock checking off where the system really ends: the shell (`quit`, SIGQUIT,
the crash), a trace, a measurement, a program after `unix_error`; the
allocator's driver never ends and is checked for it.

Fairness. `FairSpec` of `Tsh` (and `RefFairSpec`) gives strong fairness to the
main flow after a command and to each handler: the processor runs the shell
again and again, and a signal that is unblocked again and again is delivered.
Strong, because a context is disabled whenever another handler interrupts it.
Commands, keys and children have none. `QuietWorld` says that other processes
stop sending SIGCONT to the children at some point: without it a child that is
stopped and continued for ever keeps `sigchld_handler` in its loop, and the
main flow waits with reason. `TshRef` adds that the kernel carries a SIGKILL
out. In `Rio` a call under way gets on, and the kernel does not answer EINTR
for ever. In `Tiny` the server, its child and a client that has not left get on;
nothing says that a client stays. In `Fsecs` the loops run and timer
interrupts keep coming, which is what `callibrate` waits for. In `Btest` a
solution that returns does so, and seconds pass.

## 4. Proofs

All theorems hold for every value of the constants that meets the `ASSUME`s,
which TLC evaluates on every run.

`TshProofs`, the list. `ListTypeOK` is inductive with the lemmas about the scans
(`FirstIsLeast`, `MaxjidIsGreatest`, `GetjobpidFinds`, `FgpidFinds`).
`NextJidAboveAll` needs that a job number 0 marks an unused slot and that
`deletejob` recomputes `nextjid`; `JidFresh` follows from it.

`TshProofs`, the shell. `TypeOK` and `EntriesLive` are not inductive: that
`addjob` adds a pid without an entry depends on SIGCHLD being masked between
`fork` and `addjob`, on the handler being idle then, and on where `mpid` comes
from. `IInv` says so, part by part: `HandlersIdle`, the meaning of `masked`,
what the main flow's and the handlers' locals may hold at each `mpc` and
`hpc`. One lemma per action keeps it. From it follow `EntriesLive`, that no
child has two entries, and that the shell implements `ListSpec` (each step is a
list operation or a stutter). Four more properties rest on it with an invariant of
their own each: `ForegroundAwaited`; `ChildrenTracked`;
`StopRecorded`, which needs `FreshNotStopped` (a child that eval is about to
enter has no stop that was reported before); `WaitfgReturnsWhenDone` with
`AwaitedState` (the job waited for is in state FG or ST, never BG); and
`NoSignalToBackground` with `InHand` (the job a key's handler has in its hand
was in the foreground, and the main flow, which alone writes BG, does not run
until the handler has returned). The same argument gives `KeyHandlerHoldsJob`: in
the window between `fgpid` and the use of its result the job is in the list (without a
stale write, the one the main flow waits for), or it was reaped within the window; so `getjobpid`
finds nothing (`tsh.c:450`) only for a job that is gone. From it follows `KeysArrive`, an
action property: a key's handler ends without its signal pending at the job only if
the child has not called `setpgid` yet, has ended, or is down as stopped.

No wake-up is lost, although SIGCHLDs coalesce (`NoWakeUpLost`): a child's end or
stop that `waitpid` has not reported has a SIGCHLD pending or the handler at its
loop (`ChangesNoticed`), and the signal is blocked only in `eval` (`MaskOnlyInEval`), never
while `waitfg` polls. With `StopRecorded` and `ChildrenTracked` this gives
`WaitfgNotForgotten`: a job that is waited for and has ended or stopped either
stands so in the list already or the handler is still to come. These are the safety halves of
`ZombiesReaped` and `WaitfgEnds`.

`TshProofs`, the reference shell. `RefInv` is the counterpart of `IInv` for the reference shell.
What is new in it is `KilledDoomed`: `sigint_handler` deletes a job before its
process is reaped, so `EntriesLive` needs that the handler deletes only a job
that it has sent SIGKILL or that has ended by itself. That handler may also
renumber in the middle of `addjob`, so job numbers have no bound in `RefTypeOK`
and the scan of `maxjid` is redone for natural numbers (`MaxjidNat`).
`ForgottenOnlyDoomed` follows from what every step leaves alone (`Fates`: pids
stay, the dead stay dead, the killed stay killed). `RefWaitfgReturnsWhenDone`
follows from `RefAwaited`: without a stale write, the FG job is the one waited
for, and the one waited for is in state FG or ST. `RefNoWakeUpLost`,
`RefStopRecordedHolds` and `RefWaitfgNotForgottenHolds` are the counterparts of the
theorems about `Tsh`. `RefEndsEarlyHolds` says when the handlers end the shell:
`sigtstp_handler` writes through NULL only for a job that has died or been sent
SIGKILL since `fgpid` found it (`RefHandsHold`, with `ForgottenOnlyDoomed`), a `kill`
fails only for a job that is not in its own process group yet or is gone, and only
a child that is dead, doomed or untracked is missing when its stop is reported. `RefKillStaysHolds` is
the safety half of `InterruptEndsJob`.

`CachelabProofs`, the simulator. `IInv` is `TypeOK /\ ValidLast /\ TagsUnique`. `ValidLast` is
the key: it makes the first invalid line the first line of the set, so that
every access is one shift that drops a line and appends one (`Shifted`), hit
or miss. `TagsAfter` and `OlderAfter` compute the abstract state after a
shift, `SetSize` relates a full set to its number of tags, and
`SimulatorIsLru` is the refinement. `LinesAccountedForHolds` (its property is
stated there and no run checks it) counts the valid lines: replacing a valid line by a valid one leaves as many, and a miss in a set
with a free line makes one more. `CsimPowers` states that the powers of two
used are positive integers, as no prover here computes with `^`.

`CachelabProofs`, the transpose. That B is the transpose when a function returns is not inductive:
`Traced` adds that after `chunk` chunks everything they cover is right (`Copied`)
and that of the next one some values are read into the locals, or all are read and
some written (`AtChunk`). A write of the right value at its place spoils none that
is right already (`WriteRight`, since the place determines row and column,
`PlaceFacts`). At the end nothing is left out: `ChunksCover` gives the chunk that
writes a given element, through the divisions and remainders by which the blocks
are numbered (`Blocked32`, `Blocked64`, and for the ragged case the whole blocks,
the columns and the rows that remain, `RaggedCovers`), and `ChunksInMatrix` says
that no chunk reaches outside. `FirstLineDecides` rests on it, since `validate`
always finds the matrix right, and on `Recorded` (the submission's result is in
both tables once the loop has passed it) and `Printed` (what has been printed at
each `pc`). Both are for every M and N with M = N where N is 32 or 64 (the
hard-coded cases do not ask for M), for arrays at any address and a cache of any
geometry.

`RioProofs`. `RioTypes` says where the buffer's bytes lie in the stream: the
unread ones are the `cnt` just before the kernel's position. From it follow
`StreamKept` (`RioKeepsStream`), that what is written is what was read
(`RioEchoes`), that a line leaves room for its 0 (`RioLineFits`), and the
refinement of `ByteStream` (`RioImplementsStream`), for every length, buffer
and sequence of short counts. `RioCallsGetOn` measures what a call has still to do
(`Work`: a refill and a copy for each byte, and one for an empty buffer): every step that
does not end the call makes it less, but for those that EINTR sends round again.

`FsecsProofs`. Three invariants, one per property. `CounterInv` says that what
was recorded is the counter; `ElapsedExact` is the arithmetic of the borrow,
for every width of a word, drawn from division with a remainder (`DivMod`).
`TimerInv` says that the recorded time is that of the first run, moved along
with the clock. `SamplerInv` says that the places in use are in order, that each
holds a sample of its own (an injection into the samples, `Kept`) and that none
is below the first; `Insert` shows that the insertion sort keeps that, and
`EnoughClose` counts the samples close to the least one through that
injection. `BestReturned` follows. `FcycGetsOnHolds` is about the way there: before a
sample there are none or fewer than `maxsamples` (`CallInv`), and from one sample to the
next `pc` goes through its places in one order (`Phase`); only `callibrate` may wait.

`TinyProofs`. Four groups of invariants: `Resources` (which descriptors and
children exist at each `pc`) gives `NothingLeaked`; `Queue`, `Known`
and `Faultless` (what may still be on the connection and which faults are recorded)
give `SurvivesRequests`; with `Texts`, `Fresh` and `Answering` (what has been
written at each `pc` is a beginning of the one answer due) they give
`AnswersWhole`. They are for any number of addresses and connections. For "it comes
back" there are two more. `SomebodyMovesHolds`: at every place of `doit` the server or its
child can go on, or there is a line of the kind that `doit` reads there, or the end of
the file, or the client has still to send; server and client never wait for each
other. It needs `InOrder`: which lines are still on each connection, that all clients
but the last have closed, and that a client which is served always has an empty line to come.
(`AtEof` in the headers is the loop of section 5.) `ServerGetsOnHolds`: the server goes
from each place to a later one (`Stage`), apart from the pieces of a write and the headers,
of which each step leaves fewer.

`MdriverProofs`. None of the allocator's properties is inductive: that the
tags are right depends on payloads not overlapping them, and that payloads do
not overlap depends on the tags. `IInv` ties both to one set `S` of blocks:

- `Blocks`: the blocks of `S` tile the heap from the prologue to the epilogue at
  the break, each with the same tag at both ends;
- `Apart`: no two neighbours in `S` are free;
- `Holds`: the allocated blocks of `S` are the prologue and one for each live id,
  with its payload before the footer; the range list is that of the payloads;
- `Intact`: the payloads hold what the driver filled them with.

The proof follows `mm.c` from the bottom. `Cut`, `Concat` and `Replace` say
how a tiling is taken apart and put together, `Join` and `Retag` what writing
a header and a footer makes of it, `Undisturbed` that such a write touches no
payload. On these rest `CoalesceMerges` (all four cases, and the previous
block is found through its footer, `Previous`), `PlaceBlock` (whole or split),
`ExtendBlocks` (the old epilogue becomes a header) and `Inits`. `ChainIs` shows
by well-founded descent, from a greatest counterexample, that the recursive
`Chain` is exactly `S`, so that `Fit` gives what `find_fit` promises. `Malloc`,
`Frees` and `Reallocs` put the routines together, the last with the copy of the
whole old block (`Moved`). One lemma per request of the driver keeps `IInv`;
`DriverIsSatisfied`, `ChainTilesTheHeap`, `NeighboursNotFree` and
`NothingIsLeaked` follow, and in `ImplementsTheStore` every request is a step of
`Alloc` or a stutter (`ObtainStep`, `FreeStep`). The theorems are for any
alignment, word, chunk and heap size and any ids and sizes, on memory that
held anything before. They assume, beyond the `ASSUME`s of `Memlib` and `Mm`,
that `None` is not itself a payload (`NoneAssumption`).

`BtestProofs`. What `gen_vals` leaves in an array is computed by `FlattenSeq`, whose
recursive function is shown to exist and then unfolded (`FlattenWalk`), one step
for each number of the range (`UpTo`); `Flattened` gives its elements, that those
of the first part are among them, and its length. With that `GenVals` covers all
cases: one value given, floats (`FloatFits`, on `FloatNumbers`, the order of the
special bit patterns), small ranges (`ExhaustiveFits`) and large ones
(`SampledFits`, with `RandomVal` for the rounding); `ValuesFit` is in the invariant
from there. `PointsEarned` is not inductive: `Progress` adds that at each call the
functions have agreed on exactly the combinations before the present one in the
order of the nested loops (`Tested`), and that a timed-out puzzle has an error.
`FirstPlaces`, `NextPlaces` and `LastPlaces` are the start, the step and the end
of the loops. `Accounts` says that the points are the `Total` of the ratings of the
puzzles passed, the errors the number of the others, and that a puzzle has no verdict
before its turn; the recursive function of `Total` is shown to exist (`TotalWalk`), and
`TotalStep` is what one verdict adds. `NoOverflow` is about the ints on the way to the
values. With a time limit, `AlarmSet` says that while the functions run an
alarm is set, for the present call of `test_function`, and how many seconds it has
counted: `HangsAreEndedHolds` follows, that a function which does not return is
ended in time and never by an undefined jump. `Left` says what an alarm may be left over
from at every other place, and with it `StrayAlarmsHolds` follows. `HarnessGetsOnHolds` orders all steps: the
next puzzle, a later `Stage`, a combination not tried before, or a second of those
left. The assumptions are those on the table that `decl.c` meets
(`TestSetAssumption`: ranges of ints, in order, which `gen_vals` can do, see sections
2.10 and 5, and positive ratings), the room that `btest.c:46` asks for, and facts
about powers of two (`BtestPowers`).

Model-checked only. `MissesAsRecorded` is about particular numbers at particular
shapes, so there is nothing to generalise. The liveness properties themselves are out of the
prover's reach, which has no rules for ENABLED here. What is proved of each is its safety
half, for all values of the constants; TLC adds the fairness, on the instances of section 3:

| Checked by TLC | Proved part |
|---|---|
| `ZombiesReaped` | `NoWakeUpLost`: what `waitpid` has to report will be asked for |
| `WaitfgEnds` | `WaitfgNotForgottenHolds`: no waiting for a change that has been missed |
| `InterruptEndsJob` | `RefKillStaysHolds`, `RefNoWakeUpLost`: the SIGKILL stays, and the end is noticed |
| `CallsReturn` | `RioCallsGetOn`: a bounded number of steps besides EINTR |
| `ComesBack` | `SomebodyMovesHolds`, `ServerGetsOnHolds`: somebody can move, and the server moves forward |
| `FcycReturns` | `FcycGetsOnHolds`: forward to the next of at most `maxsamples` samples, or waiting for an interrupt |
| `HarnessEnds` | `HarnessGetsOnHolds`, `HangsAreEndedHolds`: forward, and the alarm is set while it hangs |

## 5. What the code does not keep

One is a run that TLC must find violated.

- `tsh_one_foreground`: `fg` may write FG into an entry already cleared (`tsh.c:366`),
  and then there are two foreground jobs, where the comment at line 36 says "At most 1
  job can be in the FG state."

The models contain more that a reader should know; the properties say what holds
beside them.

- Shell: ctrl-c before the child's `setpgid` is lost (`tsh.c:433`).
  `sigtstp_handler` may dereference NULL (`tsh.c:450`): the model ends in status
  "segv". `KeysArrive` says that the latter takes a child reaped since `fgpid`
  found it, and that a live job misses the key in the former way only,
  or when ctrl-z finds it down as stopped; for the reference shell `RefEndsEarly` says
  when its handlers end it. Two jobs may share a number after the wrap (`tsh.c:507`). `fg` may
  overwrite a stop recorded after its SIGCONT ("lostStop", `tsh.c:366`). With
  the list full a child is not in it and is not waited for (`tsh.c:200`).
- Data lab: the alarm of a puzzle is never cancelled (`btest.c:357`). It may go off when
  `test_function` has returned, and the handler's `siglongjmp` then goes into a call that
  is over; or when the next puzzle has called `sigsetjmp` and not yet `alarm`, and that
  puzzle, which did nothing wrong, is reported as timed out before its time, although the
  comment at line 352 says "control will reach here if there is a timeout" and the message at
  line 354 "Timed out after %d secs". `StrayAlarms` says when an alarm may do so,
  `HarnessEnds` counts the undefined jump as an end, and `PointsEarned` holds beside both.
- Simulator: addresses are cut to 32 bits (`csim.c:235`).
- Driver: a signed char is compared with an int from 0 to 255
  (`mdriver.c:656`): realloc of an id whose low byte is 128 or more is always
  reported as a loss of data. The traces in the directory have no realloc.
- Tiny: an empty file ends the server, since `mmap` refuses a length of 0
  (`tiny.c:167`). A client that closes before its empty line keeps the server in
  `read_requesthdrs` for ever (`tiny.c:105`), and one that leaves before its
  answer ends it, by SIGPIPE or by `unix_error`. `SurvivesRequests` says nothing of a
  server that has met such a fault. A child whose `execve` fails
  flushes the server's buffered log into the answer (`tiny.c:209`). `adder`
  takes the position of a `&` that need not be there (`adder.c:14`).
- Harness: with a range of exactly `MAX_TEST_VALS` the array is one short, with one tried
  exhaustively up to the largest int the loop `i <= max` never ends (`btest.c:199`), and
  with one that ends near the smallest int `max - MAX_TEST_VALS` overflows
  (`btest.c:198`). No entry of `decl.c` has such a range, and the model assumes none.

## 6. Not modelled

- Printing, usage texts, `listjobs`, `parseline`: no state of their own. (The
  shells' command lines are reduced to which command they give.)
- `mdriver.c`: reading traces, `eval_mm_util`, `eval_mm_speed` and the scores,
  which are arithmetic on what `eval_mm_valid` has checked.
- `clock.c`: `mhz`, `ovhd`; they sleep and divide.
- `csapp.c`: the wrappers of calls none of the programs here makes: threads,
  semaphores, signals, `Sio_`.
- Test programs: `mysplit`'s grandchild; `sdriver.pl`, `driver.sh`, `driver.py`
  and the other grading scripts; `test-trans.c`'s SIGSEGV handler.
- `proxy.c` does not compile.
- `bits.c` and `tests.c`: stubs, and reference functions that need 32-bit
  words; the harness that calls them is `Btest`.
- The rounding of a size in `mm.c:79` to an int, which wraps for requests near
  2^31: no trace comes near.

Worth doing next: a general statement about the misses of `transpose_submit`, of which
`MissesAsRecorded` checks particular shapes.
