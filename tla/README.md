# Verification of the computer architecture simulators

The repository holds the programs of four assignments, each a small simulator:
a branch predictor (`HW1`), a two-level cache (`HW2`, rewritten as `HW2_NEW`), a
dataflow analyser (`HW3`) and a multithreaded core (`HW4`). They are sequential
programs. What is hard in them is the state they carry from one step to the
next: timers and thread choices, LRU orders that four operations share, entries
that change owner. This directory models them in TLA+, checks them with TLC and
proves part of what is checked with TLAPS.

## 1. Inventory

| component | state | operations | what makes it correct |
|---|---|---|---|
| HW4 cores (`core_api.cpp`) | per thread: stand-by timer, done flag, line, registers; current thread, cycle and instruction counts | one iteration of the main loop of `CORE_BlockedMT` or `CORE_FinegrainedMT`; `getNextThread`, `getNextThreadFine`, `sbTimerHandler` | each thread executes in program order, the choice is the one the comments promise, timers measure time, no idle cycle while a thread is ready, the core returns, the cycle count adds up |
| HW4 memory simulator (`sim_api.c`) | `data[]`, instructions, latencies | `SIM_MemDataRead`, `SIM_MemDataWrite`, `SIM_MemInstRead` | each address of the block hits a word of its own, no other aligned address hits one |
| HW4 image loader (`SIM_MemReset` in `sim_api.c`) | the loop it is in, thread, line and data index, what is loaded so far | one line of the image | it stays inside its tables; what is loaded is what the lines say |
| HW4 `main.c` | the two register pictures | run the blocked core, then the fine-grained one on the same memory | both return; in a program without races each thread's registers are those of its running alone, the second time on the memory of the first |
| HW2_NEW caches (`cacheSim.cpp`) | per cell: tag, address, valid, dirty, LRU rank; five counters | read or write one block | L1 is an LRU cache, ranks stay a permutation, write-backs go to the right block, L1 is contained in L2, counters agree |
| HW2 caches (older version) | the same | the same, in one function that searches by tag | the same, and only reads and writes with write-allocate bring blocks in; here L2 really contains L1 |
| HW1 predictor (`bp.cpp`) and its driver | buffer entries, local or global histories and counter tables, statistics | `BP_init`, `BP_predict`, `BP_update`, `BP_GetStats`; a line of the trace | each prediction is what the trace warrants; flushes are counted right; the size reported is that of the state kept |
| HW3 analyser (`dflow_calc.cpp`) | last writer per register; dependences and depth per instruction | `analyzeProg`, `getInstDepth`, `getInstDeps`, `getProgDepth` | dependences are last writers, depths are longest chains |
| HW3 driver (`dflow_main.c`) | latency table, growing program buffer | a line of the latency file, a line of the program, analysis, queries, exit | the program fits its buffer, the analysis gets the latencies of the file |
| command lines and trace readers of the caches | none | parse and print | not modelled: pure I/O |

Interaction. `main.c` calls the two cores in turn; both call into `sim_api.c`,
whose `data[]` is the only state they share. Within a core all threads share
`data[]`, and a thread influences the others through the timers and the choice
of the next thread. In the cache simulator a replacement in L2 reaches back into
L1, and a replacement in L1 writes into L2. In the predictor, branches share
entries, and with global tables or histories also counters and histories. The
driver of the predictor calls predict and update in turn for each line. The
driver of the analyser owns the program buffer and the latency table that the
analysis reads. The loader fills the tables the cores read; its outer loop never
sees the line that made an inner loop stop.

Hard behaviours: see `hazards` in `PROJECT.json`, each at its line. There are no
threads, messages or files to recover in this code, so no crashes and no lost
messages; there is interleaving (of the simulated threads and of the branches
and commands of a trace), there are stale values (entries and cells that changed
owner, an address overwritten on the way), boundaries (latency 0, the last
thread, counters at their ends, full tables), and one read in front of an array.

## 2. Modules

| module | models | built on |
|---|---|---|
| `MTCore` | what both cores share: instructions on registers and memory, timers, `RRpolicy`, the choice of the next thread; images and what makes one well formed | |
| `NextThreadSearch` | the two loops of `getNextThread`, turn by turn | `MTCore` |
| `SCThreads` | abstract: threads interleaving whole instructions on one memory, each getting on | `MTCore` |
| `BlockedMT` | `CORE_BlockedMT` | `MTCore`, refines `SCThreads` |
| `FinegrainedMT` | `CORE_FinegrainedMT` | `MTCore`, refines `SCThreads` |
| `MTSim` | `main.c`: both cores on one memory | instances of both cores |
| `MTImages` | the programs the runs load | |
| `ImageFormat` | abstract: what a memory image means, line by line | |
| `MemReset` | `SIM_MemReset`, `get_inst`, `get_data` and the accessors on what is loaded | `MTCore`, refines `ImageFormat` |
| `Cache` | class `Cache`: its methods, on one set | |
| `CacheMemHandler` | class `CacheMemHandler`: two caches, one action per path of `readHandler` and `writeHandler` | `Cache` |
| `LRUCache` | abstract: sets of blocks that lose the least recently used | |
| `OldCache` | the older simulator: `cacheMemHandler` of `HW2`, on the same state | `CacheMemHandler` (state, searches, counters) |
| `CacheVersions` | both simulators with the order of use, a set of pairs of blocks, as history | `OldCache`, refines `LRUCache` |
| `BranchPredictor` | the predictor and its driver | |
| `Dataflow` | `analyzeProg` and the queries | |
| `DflowMain` | the driver of HW3 around them | `Dataflow` |
| `MTCoreTheorems` | lemmas about the operators of `MTCore` | TLAPS |
| `MTSimProofs`, `BlockedMTProofs`, `FinegrainedMTProofs`, `DataflowProofs`, `CacheProofs`, `MemResetProofs`, `BranchPredictorProofs` | theorems about the module each is named for; `MTSimProofs` also about `NextThreadSearch`, `DataflowProofs` is about `DflowMain` around `Dataflow`, `CacheProofs` about `CacheVersions` | TLAPS |
| `MC...` | small instances for TLC | |

How the state corresponds to the code:

* **Cores.** `sbTimer`, `done`, `instId` are the fields of `ThreadData`, one
  function each; `regs` is `regsPerThread`; the other names are those of the
  code. An iteration of the main loop is one step, except that in the blocked
  core an iteration that executes LOAD, STORE or HALT is cut at the inner idle
  loop: `ExecLoad/ExecStore/ExecHalt` is the code up to that loop, `Idle` one turn
  of it, `Resume` the penalty and the end of the iteration. `phase = "wait"`
  marks the inner loop. `due`, `idles`, `switches`, `lastIssued` and `overtaken` are history
  variables. A word has `2 * HalfWord` values and arithmetic wraps.
* **threads[-1].** After the last HALT `getNextThread` returns -1 and the code
  reads `threads[-1].sbTimer`. The value it finds there is `ghostTimer`, chosen once,
  because nothing in the program writes it: `sbTimerHandler` starts at 0.
* **Memory.** The index into `data[]` is computed as in the code, with 32-bit
  subtraction and division towards zero, and an access outside the array is no
  step: images are assumed to stay inside. The images the cores run are any that
  `WellFormedImage` admits.
* **Loader.** A line is a kind and a value; how its characters are split into
  tokens is left out, except where it decides what is loaded: a `$` in a comment
  behind an immediate (`note`) and a command without a space behind it (`spaced`). `phase`
  is the loop the program is in. `line` is the buffer, still there when a block
  ends. Writing behind a table, or a command that is not found, leads to
  `phase = "undefined"`. `InFormat` states the order of lines that the images in
  `HW4/tests` keep to; `Separated` says whether a blank line ends each block.
* **Caches.** An address is the number of its block. A set is a function from
  ways to cells and each method an operator on one set. `config` is the command
  line, and says which of the two simulators runs; `blocks` in it are the blocks the
  trace touches. `junk` in `addToL2` is the uninitialised `dirtyAddress`: any address;
  `idxInSet` in `BringToL2` the uninitialised way: any way. Which commands count as a use
  of a block is up to `NewCommand` and `OldCommand`; `LRUCache` leaves it open.
* **Predictor.** A table index is kept as the sequence of its bits, so the xor
  with bits of the pc is a comparison per bit. Slot -1 of `history` and `fsmTable`
  stands for the global ones. `trace` is a history variable. A line of the trace is
  its three fields; a line with a bad outcome is the action `BadTrace`.
* **Dataflow.** The instructions of the trace are chosen as the loop gets to
  them; the loop looks at no later one. While the driver reads the program only the
  number of instructions counts, and where comments stand between them.

Operators marked *Mistake* are variants of the definition below them with a
plausible bug; no specification uses them. Putting one in the place of the
definition shows that a property would notice.

## 3. Runs

| run | bounds | shows |
|---|---|---|
| `NextThreadSearch` | 4 threads, timers 0..2, every start, every set of finished threads, two values of the uninitialised `minTimer` | `SearchCorrect`: the loops return `FirstReady`; `MinTimerInitialised`; `SearchReturns` |
| `BlockedMT` | 3 threads, each with one of 5 programs, load latency 0 or 5, store 1 or 2, penalty 0 or 2, `ghostTimer` 0 or 1, `MaxCycles` 20 | the thread at the loop head is ready, the core waits for the earliest thread, timers are exact, the cycle count adds up, `SCThreads` is implemented (with its fairness), and the core returns if `ghostTimer` is 0 |
| `BlockedMTHang` (violation) | the same | the core does not return once all threads are done, if `ghostTimer` is not 0 |
| `FinegrainedMT` | 3 threads, load latency 0 or 5, store 0, 1 or 2 | the choice stands while the core idles, no ready thread is overtaken twice by the same other, timers are exact, `SCThreads` is implemented, the core returns |
| `MTSim` | 3 threads, 7 programs, `ghostTimer` 0; 536 of the 1372 images have no races | in images without races `CORE_BlockedMT` leaves the registers of each thread running alone, `CORE_FinegrainedMT` those of each thread running alone on the memory its first run has left |
| `MemReset` | images of any length for up to 2 threads, room for 2 instructions and 2 data words, words of 5 bits, a data block at 8 or across the middle of the address space, blank line behind each block | the loader stays inside its tables with full rooms, addresses hit their own words, and `ImageFormat` is implemented: at every line the instructions and the words of the data block are what the lines say |
| `MemResetBlocks` (violation) | the same, blocks may follow each other directly | data behind a `D@` that ends a block of code is not loaded |
| `CacheSim` | `HW2_NEW` with L1 of 1 set x 2 ways over L2 of 1x2 and 2x1, and 2x1 over 1x2; `HW2` with 1x2 over 1x2 and 2x1, 1x1 and 2x1 over 2x2; 3 or 4 blocks, with and without write-allocate; counters modulo 2 | ranks are permutations, tag searches find the valid cell, L1 addresses are right, counters agree, L1 implements `LRUCache`, only the commands of `AllocatesAsSaid` bring blocks to L1, no written block turns clean while L2 keeps it, and in `HW2` L2 contains L1 |
| `CacheInclusive` (violation) | the same | in `HW2_NEW` L1 can hold what L2 has lost |
| `BranchPredictor` | 2 entries, history of 1 or 2, all 8 kinds of predictor, traces of up to 5 branches over 3 program counters, two of which share an entry | every prediction is the one a reference definition gives that knows only the trace; flushes; training; the size |
| `Dataflow` | 2 registers, 2 opcodes, programs of up to 4 instructions with comments anywhere, buffer quota 3, latency files that are short, full, too long and bad | dependences, depths and program depth against definitions over the trace; the buffer holds the program; the latencies are those of the file |
| `DataflowIndex` (violation) | words of 4 bits | an index with the top bit set is accepted |

Why the bounds are enough to be interesting. Three threads are the least with
which a choice among others than the current thread exists, and ties and orders
matter; the programs load and store the same words, compute addresses in
registers, overflow a 4-bit word and end at different times; one latency is
longer than the work of the other threads, so the core idles, and one is
shorter. `MaxCycles` bounds the cycle counter only while the core spins on
`threads[-1]`; there it stops counting, so that the endless loop is a loop of the
state graph. The caches have more blocks than cells, so each set overflows, and
invalid cells reappear. A saturating counter crosses from one end to the
other in three outcomes; five branches let one branch lose its entry and win it
back. Two registers and four instructions give diamonds, self-dependences and
dead writes, and fill a buffer of quota 3 once. Two instructions and two words fill
the rooms of the loader exactly, and its images are not bounded: blocks can come
again and again, for the same thread or another.

Fairness. A core is one sequential function: as long as it has a next step the
program takes it, hence `WF_vars(Step)`; the same for the search. Nothing is assumed about the threads a core simulates: that
each of them gets on (the fairness in `SCThreads`) is a consequence, checked by
`ImplementsSC`. The caches, the predictor and the analyser react to a trace that may
stop at any line, so they have no fairness and no liveness property.

Deadlock is checked in every run; a program that has returned stutters.

## 4. Findings

* `BlockedMTHang`: `core_api.cpp:141` waits for `threads[-1].sbTimer`. Whether the
  simulation ends depends on the heap in front of the array. (Built with gcc it
  hangs for 40, 45, 64, 70 and 80 threads.)
* `MemResetBlocks`: an inner loop of the loader stops at the line that starts the
  next block and has consumed it (`sim_api.c:220`), so that block is skipped unless
  an empty line stands in front of it; the header only speaks of the next `@`
  line. (With gcc, `HALT $0`, `D@0x10`, `0x7` loads 0 from 0x10.)
* `CacheInclusive`: `evictLRU(set, &address)` at `cacheSim.cpp:308` overwrites the
  address that the new cell is then given, and `evict` leaves its loop after way
  0 (`cacheSim.cpp:210`); blocks that leave L2 stay in L1.
* `DataflowIndex`: `dflow_calc.cpp:124` and `:132` compare the index as an `int`; the
  query `p-1` passes the check.

Disagreements with comments that have no run of their own; the definitions name
them:

* `HW2/cacheSim.cpp:325` assigns where it means to compare, so a write that misses
  both levels is brought in like a read also without write-allocate. The comments
  at `:286` and `:324` say "bring data to L1 only if (writeAlloc and w) or just a (r)".
  `AssignedRead` is this case; `AllocatesAsSaid` shows that it is the only one. (With gcc,
  `w 0x0`, `r 0x0` without write-allocate hits L1 at the read.)
* `HW2/cacheSim.cpp:345` passes the set and tag of L1 to `updateLRU` of L2, where they name
  another block, or none, and then an uninitialised way (`BringToL2`). The block it
  makes the newest is not the one used (comment at `:166`), and what leaves L2 later
  not the least recently used (`:155`). (With gcc, L1 of one set and L2 of two, two ways
  each, the blocks `r 2`, `r 0`, `w 1`, `r 3`, `r 1`, `r 5`, `r 4`, `r 0` miss L2 at the last read, as 4 has
  replaced the newer block 0; with `r 1` for `w 1` it hits.) The order in L2 is therefore
  not a property; the ranks, the order in L1 and inclusion survive, as `CacheSim` shows.
* `HW2_NEW/cacheSim.cpp:320` writes back although `evict` did nothing, to an
  uninitialised address (`junk` in `addToL2`); the comment at `:319` speaks of "an eviction
  from L1".
* `sim_api.c:253-263` index `data[]` without a check, so outside the 100 words of the
  block a load returns what lies beside the array, where `sim_api.h:36` promises zero.
  (With gcc and `example1.img`, the load latency, the switch overhead and the number of
  threads can be read there.) `ImplementsFormat` speaks of the words of the block only.

Met besides, where no document says otherwise or the behaviour is undefined:

* `sim_api.c:147`: a command with no space behind it (`NOP` at the end of a line)
  runs off the table of commands; a gcc build crashes.
* `sim_api.c:82`: `ADDI $1, $0, 5 # sets $3` adds register 3.
* `sim_api.c:230`: a second `D@` block overwrites the words of the first.
* `sim_api.c:144`, `dflow_main.c:50`: long lines overflow a buffer, or are read as two
  lines.
* `cacheSim.cpp:460` reads `argv[19]` if there are exactly 19 arguments.
* A branch target buffer of one entry is indexed with one bit (`bp.cpp:223`).

## 5. Proofs

Checked by TLAPS for all values of the constants that satisfy the assumptions
stated in the modules: `SizesAssumption` and `ImagesAssumption` (`MTCore`),
`TimersAssumption`, `GarbageAssumption` (`NextThreadSearch`), `GhostAssumption`,
`CyclesAssumption` (`BlockedMT`, `MTSim`), `SizesAssumption` (`Dataflow`), `MainAssumption`
(`DflowMain`), `ConfigsAssumption`, `CounterAssumption` (`CacheMemHandler`),
`OldConfigsAssumption` (`OldCache`), `LinesAssumption` (`MemReset`), `ConfigsAssumption`,
`BranchesAssumption`, `MaxBranchesAssumption` (`BranchPredictor`). The theorems about the loader assume more of the
images, and say so: `OrdinaryImages`, `OrdinaryBlock`, and for the refinement
`PlainImages`; `ImagesAreOrdinary` in `MCMemReset` has TLC check that the images of the
run satisfy them.
Each inductive invariant (`BlockedInv`, `FineInv`, `SimInv`, `MainInv`, `DepthInv`, `CacheInv`, `LRUInv`,
`LoaderInv`, `PredictorInv`) was also checked by TLC on the instance of its module's run.

**The search** (`MTSimProofs`). `SearchInv` says that the threads passed by
the first loop are done, and that in the second loop the candidate is the first
in the order (timer, round-robin distance) among the threads visited, where the
visited ones are counted from the first live thread. It needs the position of
`nextThreadID` as a function of the loop counter (`Around`), since the walk wraps around. From
it: `SearchIsCorrect` and `MinTimerIsInitialised`. That `FirstReady` exists and is unique for
any number of threads is `FirstExists`/`FirstUnique` in `MTCoreTheorems`, by
well-foundedness of the naturals, stated without an operator parameter.

**The blocked core** (`BlockedMTProofs`). `BlockedInv` strengthens `ReadyAtLoopHead` and
`WaitsForEarliest` by: -1 is chosen exactly when all threads are done, and a live
thread has a next line. The step that matters is `Resume`: the thread that was waited for is
live and its timer is 0, so it is ready at the loop head. From it:
`BlockedTypes`, `BlockedReady`, `BlockedEarliest`, and `BlockedNeverIdles`, an action property no run checks (the
earliest live thread is not ready, so none is). `BlockedTimersExact` is proved with `BlockedInv` as
support; `BlockedCyclesAccounted` from `Account`, the books during the run, in which the
penalty that `Exit` takes back appears as soon as the chosen thread differs from
the one that issued last.

**The fine-grained core** (`FinegrainedMTProofs`). `FineInv` is `TypeOK`, `ChoiceStands` and
that a live thread has a next line. In an idle cycle all live timers are positive
and go down together, so the order among threads, and with it the choice, stands;
`FineNeverIdles` follows, since the first thread of the order is not ready.
`FineOvertaken` needs `OvertakenIsNext`: a thread that has been overtaken is ready and stands
nearer behind the thread that issued last than the one that overtook it, so the
latter cannot be chosen again before it.

**Refinement.** `BlockedRefinesSC` and `FineRefinesSC` are the safety half of `ImplementsSC`:
initial states map to initial states, and each step is a whole instruction of one
thread or a stutter. In the blocked core the line of a thread lags behind until
`Resume`; `NextLine` makes up for it.

**Both cores** (`MTSimProofs`). `ThreadsRunAloneAlways`: in a program in which no thread loads
from a cell another one stores to, each thread of the blocked core computes what it
computes alone on the data of the image (`FirstRun`), and each thread of the
fine-grained core what it computes alone on the memory its own first run leaves
behind (`SecondRun`), whatever the timers make of the order. What a thread itself has
stored is observable, since nothing resets `data[]`. `SimInv` joins the invariants of
the two cores, taken over through their instances in `MTSim`, with `OnCourse`: a thread of
either core has the registers its course prescribes for its line, and `Sees`: the
memory agrees with that of the course in every cell the thread ever loads from. A
step of the thread itself keeps both (`GoesOn`, from `AloneUnfolds`: a course goes on by
`Outcome` and `Stored`, the same two operators the cores' lemmas `BlockedExecutes` and
`FineExecutes` speak of); a step of another thread stores, if at all, in a cell this one
does not load from. At its HALT a thread of the blocked core has run the whole of
its first course (`AtHalt`), so the memory the fine-grained core takes over is, as far as
the thread can see, the one its second course begins with (`TakesOver`). The course is a
recursive function, of which the proof needs only its value at line 0 and its step.

**The analyser** (`DataflowProofs`). `MainInv` adds to the properties: `WritesRecorded` (`lastWrite`
holds for each register its last writer among the instructions analysed so far),
`DriverOK` (what the driver has when it gets to the analysis) and `LatenciesSoFar` (the table
agrees with the lines read). The buffer part of `InputsArrive` is arithmetic about the
quota. `DflowDepths` and `DflowProgDepth` say that the depths are longest chains, where a
chain is a set of instructions in which each depends on the one before it, and its
length the sum of their latencies. `DepthInv` is what the loop maintains: each depth is the larger of what
its two dependences take (`Ready`), a register is ready when its last writer is, the
program is as deep as the latest instruction, and no empty program is analysed. Two inductions lead from
there to the chains, both over sets of numbers (`InductiveSet`) and without an operator
parameter. The first says that the sum over a finite set exists and does not
depend on the order in which its elements are added, though the fold of the
library picks an order (`SumsAgree`, `Totals`). The second (`AllDeepest`) says that the depth of
every instruction is that of its longest chain (`Deepest`): a chain that ends with
it is a chain that ends with one of its dependences, and one more
(`ChainShorter`); and adding it to the longest chain of the later dependence gives one
that is as long as its depth (`ChainLonger`).

**The caches** (`CacheProofs`). All about `SpecBoth`, hence both
simulators, every geometry, any number of blocks and any size of the counters. `CacheInv`
says of each set `SetOK`: the ranks differ, a valid cell stands in front of stale cells
with its tag, and a valid cell has a tag and an address that fit its set. That
ranks in 0 .. ways-1 that differ leave no number out, so that there is an oldest
cell to evict, is the pigeonhole principle (`OldestExists`). The second part survives
a fill because a block that is filled in is not valid anywhere in its set and the
first invalid way is taken. In L2 of `HW2_NEW` only the set of the address fits, not its
tag: that is what the run `CacheInclusive` is about. There is a lemma for each operator
of `Cache` and `OldCache`, one for each way a command changes a cache, and one for each simulator.
`OldInclusion` adds that an L2 cell of the older simulator holds the address of its own
block, which makes the block removed from L1 the one that leaves L2; what enters L1 is in
L2 already.
`DirtyStays` is the action property `DirtyKept`, from two relations between a set before and after
an operator. `Dirtier`: the cells hold the same blocks and nothing dirty became clean
(hits and write-backs). `Kept`: of one block, no new cell, and the old one as dirty as
before (fills and removals, for every other block). `Safe` says of an operation on both caches that
L2 keeps what it has of a block as dirty as it was, and that if L2 holds it
afterwards and a level had it dirty, a level has it dirty. The operations of a command are `Safe` one by
one and so is their composition (`SafeTwice`). Two places need `CacheInv`: a dirty victim of L1 is saved under the right
address (`L1Enters`, `L1Evicted`), and in `BringToL2` the block that leaves L1 is the one
that leaves L2, so that its mark may go with it.
`OnlyTheseAllocate` is `AllocatesAsSaid`: a command that does not allocate hits L1 or leaves it as it is.
`L1KeepsRecent` is the refinement `L1IsLRU`, for both simulators. `LRUInv` adds to `CacheInv` that of two
valid cells of a set the one with the lower rank holds the block used earlier
(`RanksInOrder`), and that L2 holds blocks of the trace only (`HoldsBlocks`). Invalid cells share the
ranks with valid ones, are left at any rank by `remove` and `evictLRU` and sent to rank 0 by
`evict`; the order among the valid ones is what survives all of them. `Follows` says that of an
operator on a set: no other block comes, and those that stay keep their
order. `Newest` says that the touched cell is above every other. From them follows what a
command comes to: it uses a block of L1 (`Hits`), brings one from L2 (`FromL2`) or from
memory (`FromMemory`), or uses none (`Passes`), and no command has another outcome
(`NewOutcome`, `OldOutcome`). Each outcome is a step of `LRUCache`: a set is full when it holds as many
blocks as ways (`SetCount`, an injection from its blocks to its ways), and the block in the oldest cell of a full
set is the least recent (`LeastLeaves`). The order of use is a set of pairs of blocks
rather than a sequence, since a step changes it by a formula and not by a
recursion.

**The loader** (`MemResetProofs`). `LoaderInv` says which lines each loop can have seen last
and that inside a block the index of the table counts its lines. `LoaderAddresses`
is modular arithmetic: the offset of an aligned address, wrapped, is four times
its index (`IndexOfAddress`), and wrapping is undone by adding the start (`WrapBack`).
`LoaderRefinesFormat` is `ImplementsFormat`: `Place` says where in the format the loader is, given
its loop and index, `CodeSoFar` and `MemorySoFar` what its tables say of each line of
code and each word of the block of data. The format speaks of no other address, since
outside the block the accessors read what lies there (section 4). Each line the
loader reads is the step of the format for a line of its kind, and the end of the file
is `Format!End`; the invariant `DataInBlock` (the block is aligned, and no word is set
before it begins) makes `D@` clear the words of the block (`IndexInBlock`). What the theorem assumes: each block ends with a blank line (without
it the run `MemResetBlocks` fails), code starts at instruction 0, a `$` in a comment does not pass for
a register, and the block of data is aligned and small against the address space.

**The predictor** (`BranchPredictorProofs`). `PredictorInv` speaks of every branch that may come next, not
only the last: what `BP_update` would find for it, in its entry or the global
tables, is what a definition over the trace says. That definition looks back to the
last time the entry changed its owner (`Stint`), takes the last outcomes as history, and runs the
counter over the outcomes that were counted under it. What a counter computes is
a recursive function over the outcomes; the proof needs only its value for none and its step
(`CountsExtended`, `CountStep`). The lemmas named `Grown...` say how these definitions change when the
trace grows by one branch, those named `Next...` what that means for the
branch itself, a branch that shares its entry, and any other. From it: `PredictionsRight`, `Statistics`
(the size needs the number of index sequences of each length), and `TrainedRight`: after
historySize + 2 equal outcomes the history is constant and its counter has been
moved at least twice the same way.

Only model-checked: everything under fairness (`SearchReturns`, `ReturnsIfGhostIsZero` and the
others, the fair half of `ImplementsSC`), since liveness and `ENABLED` are out of the
prover's reach. Every safety property and every action property of a passing run, apart
from the fair half of `ImplementsSC`, is stated by a theorem.

## 6. Not modelled

* Command lines, the trace readers of the caches, the splitting of lines into
  fields, and printing: pure I/O without state of its own. Errors of the command
  line end each program before it has any state.
* Lines longer than the buffer they are read into, files that cannot be opened,
  memory that cannot be allocated.
* Copying of register pictures, CPI, miss rates and average access time: quotients
  of modelled numbers.
* Memory that is never freed, copy constructors that are never called.
* Stores outside `data[]` and what a core does with words read there, images with several data blocks or with more lines than
  there is room for, branches outside a buffer of one entry, opcodes and registers
  out of range, `HW2` caches with fewer sets in L2 than in L1, an uninitialised
  `idxInSet` (`HW2/cacheSim.cpp:169`) that is no way and indexes outside the vector: undefined
  or unspecified. A branch target buffer has a power of two of entries.
* The loader is not composed with the cores. What it promises (`ImplementsFormat`) is
  what `WellFormedImage` assumes of the instructions of an image; that programs end
  with HALT and stay inside the data block is up to the image.

## 7. Plan

Done, in this order: HW4 cores and search, HW4 main, HW2_NEW caches, HW1, HW3, with the
proofs of section 5; then the loader, the older caches and both drivers.

Then the proofs about the fine-grained core, the analyser, both caches and the
loader, and the safety half of `ImplementsSC` for both cores.

Then the inclusion of the older caches, the depths of the analyser, the refinement of
the image format, the predictor, and the dirty bits of both caches.

Then the agreement of the two cores and the LRU order of both caches. With these
nothing is left to prove that is within the prover's reach.
