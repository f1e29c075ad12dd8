# A TLA+ development of Idris 2

Idris 2 (`src/`) is a compiler written in Idris with several back ends.  Most
of it is a pure function from source text to target text.  The parts with
*state that more than one actor changes* are the run times that compiled
programs are linked with, the code generator that decides when memory is
shared, reused and freed, and the builds that leave their results in files for
the next one.  The RefC numbers are pure, but they are computed twice, by the
compiler's evaluator and by C, and the two must agree.  This project
models those parts, checks them with TLC and proves the properties that matter
most with TLAPS.

All modules are translated from the code.  Source paths below leave out `src/`.

## 1. Inventory

| component | state | operations | what is hard | what makes it correct |
|---|---|---|---|---|
| Chez channel (`support/chez/support.ss` 373-490) | a mutex, `read-box`, `val-box`, two condition variables | `put`, `get`, non-blocking get, timed get | signals are sent after the mutex is released and wake one sleeper; two boxes answer the same question; polling against blocking | each message is taken once, in order; nobody sleeps with what it waits for at hand; calls return |
| Chez semaphore and thread handle (`support.ss` 306-350) | counter, mutex, condition variable | `post`, `wait`, `fork` / `threadWait` | `wait` tests the counter once; one signal per post | a wait returns only with a unit of its own; no post is lost on a sleeper |
| Barrier (`support.ss` 352-371, `support/racket/support.rkt` 324-341) | arrivals; mutex, condition variable / turnstile semaphore | `barrierWait` | nothing is reset; the turnstile is passed from thread to thread | nobody leaves before all have come; all leave |
| Racket condition variable (`support.rkt` 357-465) | three semaphores, a counter, the user's mutex | `wait`, `signal`, `broadcast` | the mutex is released before the permit is awaited; the handshake; blocking with a lock held | no wakeup is stolen or lost; notifiers return |
| Chez future (`support.ss` 514-533, `libs/contrib/System/Future.idr`) | result, ready flag, mutex, condition variable | fork, publish, `await`, `map`, `<*>`, `>>=` | several awaiters, failing work, one test of the flag | `await` returns the result; a failure stops only those who need it |
| Signals (`support/c/idris_signal.c`, `libs/base/System/Signal.idr`) | an atomic word of pending bits, dispositions | handler, `sigaction`, `handle_next_collected_signal` | the handler runs between any two instructions; the lowest bit is always taken first | nothing collected is forgotten, nothing is handled more often than collected, all are handled where lower ones stop coming |
| RefC memory (`support/refc/memoryManagement.c`, `runtime.c`, `prim.c`) | heap cells with 16-bit counts | new/remove reference, closures, trampoline, reuse tokens, IORefs, arrays | counts that saturate, building in place, moving arguments out of a unique closure | see the next row |
| RefC code generator (`src/Compiler/RefC/RefC.idr`, `src/Compiler/ANF.idr`) | owned variables and reuse tokens of each path | the reference-count instructions of each ANF node | borrowing against moving; the two arms of a uniqueness test; tokens | every count is exact at every node; in-place building is invisible |
| RefC numbers (`support/refc/mathFunctions.[ch]`, `casts.[ch]`, `_datatypes.h`) | a field of 32 bits, or a cell | arithmetic, division, shifts, bit operations, comparisons, casts, the switch on a literal | fields that keep bits their type does not have; signs in division; `atoi`; an `int` in every switch | C computes what the compiler evaluates |
| RefC path coverage (`support/refc/pathcov.c`) | open-addressing table, text arena, count, saturation flag | `enterTest`, `recordPathHit`, reset, dump | four limits, wrap-round | a loss is flagged; a key is stored once; the count is exact; a dump is complete or says it is not |
| C processes (`support/c/idris_file.c` 320-441, `libs/base/System/File/Process.idr`) | descriptor tables, pipes, stdio buffers | `popen2`, write, close, read, `popen2Wait` | a fork copies descriptors and buffers; pipes and forks fail; two threads inside `popen2` | the child gets its pipes, nothing is written twice or lost, descriptors come back, everything ends |
| Incremental build (`src/Idris/ModTree.idr`, `ProcessIdr.idr`, `src/Core/Binary.idr`) | sources and TTC files with times, hashes and totality requirement | `buildDeps`, `buildAll`, `needsBuilding`, `process`, `writeToTTC` | skipping by time and by hash; builds that stop, are killed or write half a file; edits meanwhile | what is loaded was compiled from the sources as they are and against its imports as they are |
| Build order (`mkModTree`, `mkBuildMods`, `getAllBuildMods`, `dropLater` of `ModTree.idr`) | the modules seen, the order so far, the path of the modules entered | the traversals of the tree | shared imports, cycles, files that need one another's modules; the second traversal trusts the first | everything once, after its imports; refused only for a cause |
| Linear and session channels (`libs/linear/System/Concurrency/`) | none of their own | typed send and receive | protocol order, which the types fix | *not modelled*: they call what `Channel` models |
| Elaborator, termination checker, parser, REPL, package manager, optimisation passes, Scheme and JavaScript generators, C support library, Gambit run time, RefC strings and buffers | | | | *not modelled*: pure functions, or one call of the operating system each; `PROJECT.json` gives the reason for each |

How they interact.  An Idris program calls `System.Concurrency`,
`System.Future` and `System.Signal`; each function is a foreign call into the
run time of the back end.  Threads share channels, semaphores, barriers,
condition variables and futures only through those calls.  Within the run times
a thread handle is a semaphore which the forked thread posts when it ends, and
a Racket mutex is a semaphore which `cv-wait` releases and takes again.  Signal
handlers share one atomic word with the program.  In RefC the generated code
calls the memory functions, and the trampoline calls generated code back
through closures; numbers of at most 32 bits never reach the heap.  `popen2`
shares the descriptor table with everything else in the process, and its
children share pipes with it and, by inheritance, with one another.  A build
shares files with the user, and with the builds before it.  The path-coverage
record is called by generated code and read by an external collector.

`PROJECT.json` lists under *hazards* every place where the code is hard to
test, with its line and the properties that watch it, or why none does.

## 2. Modules

| module | models | composed of |
|---|---|---|
| `Channel` | what a channel promises: one slot, atomic put and take | |
| `ChezChannel` | the Chez channel | implements `Channel` |
| `ChezSemaphore`, `RacketCV`, `Barrier`, `ChezFuture`, `Signals`, `PathCov`, `RefCNumbers`, `Popen2` | the component of the name | |
| `RefCMemory` | the heap and the memory functions, as operators on it | |
| `RefCCode` | the code emitted for each ANF node, as a machine over that heap | extends `RefCMemory` |
| `ANF` | `freeVariables` and `usedConstructors`, which the generator consults | given to `RefCCode` as constants |
| `RefCMeaning` | what the language says a program returns | extends `RefCCode` |
| `MC...` | the instances that TLC checks | the module of the name |
| `ImportGraph` | what is reached, what a cycle is, what an order of modules is | |
| `BuildOrder` | the traversals that put the modules of a project in order | extends `ImportGraph` |
| `ModTree` | the builds | extends `ImportGraph`; its assumption on `Order` is a theorem about `BuildOrder` |
| `...Proofs` | theorems | the module of the name; `ThreadsProofs` on `ChezSemaphore`, `ChezFuture`, `Barrier` and `Signals`, `RefCCodeProofs` on `RefCCode` and `RefCMemory`, `BuildProofs` on `ModTree` and `BuildOrder` |

Conventions.  A thread is a program counter `pc[t]` (`at[f]` for a future,
`place[t]` at a barrier, `phase[t]` of a handler of signals) whose values name the next thing it does.  What runs
with a mutex held is one step where only that mutex's holders touch the state
(Chez); where the primitives are semaphores (Racket) each semaphore operation
is a step.  A `condition-wait` is two steps, going to sleep with the mutex
released and coming back to contend for it; in `ChezChannel` taking the mutex
and testing the boxes are separate steps too, since the polling operations can
see a held mutex.  Histories (`sent`, `received`, `posts`, `waits`, `due`,
`owed`, `unanswered`, `hits`, `lost`, `got`) record what happened and no action of
the code depends on them but for the bounds on what is called and written; so
do `ideal` in `RefCNumbers`, `put`, `said`, `heard`, `overlap` and `late` in
`Popen2`, and the fields `from`, `raced` and `saw` of a TTC file in `ModTree`.
A definition commented *Mutant* is a plausible slip of the code, named in
`PROJECT.json`; nothing else refers to it.

**`ChezChannel`.** `PutLock/PutWait/PutStore/PutSignal` are
`blodwen-channel-put` with its helper, `GetLock/GetWait/GetTake/TakeSignal` are
`blodwen-channel-get`, `TryLock/TryNothing/TryTake` the non-blocking get and
`Timed...` the timed one.  A message is `<<sender, call>>`; those in `NullMsgs`
are represented by the Scheme empty list at run time.  `elapsed` counts sleeps
of 10 us and stops at `Timeout`, as only the comparison matters.

**`ChezSemaphore`.** `Post` raises the counter and wakes one sleeper; `Wait`
takes a unit or sleeps; `Woke` is the code after `condition-wait`, which takes
a unit without looking.

**`Barrier`.** One module for both run times, chosen in `Init`: the same
promise is kept by a counter with a broadcast (Chez) and by a turnstile
(Racket).

**`RacketCV`.** A step for each semaphore operation of `cv-wait`, `cv-signal`
and `cv-broadcast`, all four semaphores in the record `sem`; the helpers of the
broadcast count down their own argument `i`.

**`ChezFuture`.** Each future has a thread; its work awaits the futures in
`Needs`, as the instances in `Future.idr` do, then returns or raises.

**`Signals`.** `Deliver` may happen between any two steps;
`handle_next_collected_signal` is its load and its atomic and.  Deliveries may
go on for ever: `unanswered` counts what was collected and not returned, and
stops at `MaxUnanswered`.

**`PathCov`.** The hash, the lengths of the keys, the cut of long labels and
the three capacities are constants; `Insert` is the probing loop and `Format`
the loop of the text dump, with the room it reserves for the mark.

**`RefCMemory` and `RefCCode`.** The generator threads an environment (owned
variables, reuse tokens) through a definition, and each path through the
emitted code has its own sequence of environments.  `RefCCode` runs one path:
at each node it performs the calls emitted there and goes on with the
environment the generator would have.  Frames on `stack` are the `ALet`s and
trampolines that wait.  `RemoveReference` frees one cell and leaves what it
referred to in `drops`, so that `idris2_removeReference`, which calls itself,
is a step for each cell; `prim__arraySet` is two steps (`AExtPrim` and
`ArrayStore`), as what it drops lies in between.  `RefCCode` knows of terms
what `ProgramAssumption` says: well-formed, typed, with the free variables and
constructors of `ANF`.  `start` is the program with what it finds: a heap with
exact counters, the parameters, and the references and cells (`outside`,
`shared`) that other data holds.  `Eval` of `RefCMeaning` is what the language
says a program means; it is a reference definition and not a model of the code.

**`RefCNumbers`.** A state is one value: its type, its representation and the
value that the compiler evaluates the expression so far to when it checks types
(`Core/Primitives.idr`; the optimiser folds with the same functions).  Each C
function is an operator on representations, with its conversions; `CastFrom`
picks the row of `casts.h`, and `Convert` says which targets keep the field as
it is.  `FoldsCast` and `FoldCast` are the casts of the compiler: to `Char` it
makes the character of a code point, or `'\0'`; from `Char` and text it
evaluates casts to `Integer` and `Int` only, and where it evaluates nothing the
value goes on as what the run time makes.  A `Char` literal may be any code
point; `Spelled` is the number that `escapeChar` leaves of it in C.  The widths
are a constant, and so are the code points (`CodePoint`) and whether C's plain
`char` is signed (`CharSigned`).

**`Popen2`.** `OutPipe`, `InPipe`, `Flush`, `Fork` and `Return` are the steps
of `idris2_popen2` between its system calls, so that threads interleave in it;
`Exec` and `ExecFails` are the child (`Wire` is its sequence of `close` and
`dup2`, which touch only its own table).  Descriptors are numbers that the
kernel gives out lowest first.  What the command does with its pipes is
external.

**`BuildOrder`.** A recursive function that walks the tree is a path of the
modules it has entered and, for each, the imports still to be visited, so that
a state is a call stack and a step one test of one module.  `phase` tells the
two walks of a file apart: `"tree"` is `mkModTree`, which throws at a cycle and
at a header that does not parse, and `"order"` is `mkBuildMods`, which does
neither.  `"files"` is the recursion of `getAllBuildMods` over the files and
`"drop"` that of `dropLater`.

**`ModTree`.** `Order(files)` is the order in which the modules are built;
`OrderAssumption` says of it what `OrderIsRight` proves of `BuildOrder`.  For
the first module of `todo`, `UpToDate`, `OutOfDate` and `TooWeak` are the
answers of `needsBuilding`, `ReadSource` and `ReadHeader` are `process` up to
the second decision, `Compile` and `WriteTTC` the elaboration with the
truncation of the file and the write.  A text is what matters of a source: its
interface, the totality it satisfies and its `%default`, if it has one.  The
requirement that a TTC records is that `%default`, or else the session's
(`Requirement`); what `needsBuilding` compares it with is the session's.  An interface hash is the text's
interface with the hashes of the public imports, so equal hashes are equal
interfaces: collisions are left out.  Times are numbered by rank, so the clock
needs no bound.

## 3. Runs

| run | instance and bounds | what it shows |
|---|---|---|
| `chez_channel` | 2 senders (3 messages, one null), 2 getters, 1 polling thread; timeout 2; spurious wakeups | all properties of the channel, and that it implements `Channel` |
| `racket_cv` | two scripts: 2 waiters twice and 2 signallers twice; 3 waiters with a signal and then a broadcast | no stolen or lost wakeup, no deadlock on `waitersLock`; calls return |
| `chez_semaphore` | 2 posters of 3, 3 waiters of 2; spurious wakeups | no post is lost; all waits return |
| `chez_semaphore_unbacked` | the same, no spurious wakeup | **violation**: a wait returns with no post behind it |
| `barrier` | 4 threads, 2 rounds, both run times | the first meeting is a rendezvous and ends, early comers to the second included; no early pass in the second on Chez |
| `chez_future` | 5 futures, three awaiting one, one raising; with and without spurious wakeups | results are right; a failure does not spread further than it must |
| `signals` | 3 signals, delivered without end, of which the history counts 2 unanswered each; one handling thread, dispositions that change | nothing forgotten, nothing twice, each handled where lower ones stop coming |
| `refc_counts` | about seventeen hundred programs, 5 starts, 16 cells, the real maximum 65535 | counts, results and sharing |
| `refc_numbers` | types of 3, 4, 5 and 6 bits, the ends of each type and what is near zero; code points past a byte, with a gap; Integers up to 300 | C agrees with the compiler in chains of operations and casts; remainders; switches |
| `pathcov_table` | 3 slots, 7 bytes of arena, 22 of dump, 9 keys | all properties of the table |
| `c_processes` | 2 children started by 2 threads, 11 descriptors, one byte sent to one and one read from the other, one byte printed, standard output open or not | wiring, descriptors, buffers, output, end |
| `build` | 3 modules in a chain with a re-export, 3 builds with 3 goals, 1 edit of 5, of which one adds a weaker `%default`, 1 kill or failed write | what is loaded is current; failures have a cause; nothing is compiled for nothing |

Why the bounds are enough.  *Channel*: a third thread between a signal and the
wakeup needs two of each kind; a second message of one sender tests the order;
two rounds of the timer test both exits.  *Condition variable*: stealing needs
one early and one late waiter, and the late one needs a second signaller; the
broadcast loop has its interesting cases at more than one waiter with one
already gone.  *Semaphore*: the overtaking needs two waiters and a poster;
three let two sleep at once.  *Barrier*: four threads let two pass, one hold
and one linger; a second round lets an early thread meet late ones.  *Table*:
every limit is smaller than what the nine keys need, keys collide and a search
wraps. *RefC*: the families have every pair of nodes in the shapes where the
environment is handed over (value to body, branch to token, nested branches of
one or two constructors), every way of aliasing two parameters, and starts
where each cell is unique, shared, saturated or one below.  `MaxCells` is never
reached, and no closure is applied whose counter is at its maximum.  `MaxExtractFunArgs` is 1 where the code has 16, so that functions of
two arguments already take the path through a closure array. *Numbers*: the
four widths keep the order of 8, 16, 32 and 64, and no function looks at a
width but to compare or to cut; values pass both ends of every type, and code points pass a byte.  With
`CharSigned` false the run passes as well.  *Signals*: two unanswered
deliveries of one signal share a bit, and three signals have one between two
others.  The state of a number
is one value, so chains have any length.  *Processes*: two children are the
least that can inherit from each other, 11 descriptors are enough for two
`popen2` with a fork that failed, and one byte in a pipe of one byte is already
a full pipe.  *Builds*: a chain of three with a re-export is the least where a
module depends on something it does not import; an outdated, an interrupted and
a repairing build are three; the one edit may fall into any of them.

`BuildOrder` has an instance too, `MCBuildOrder` with `BuildOrder.cfg` (every
graph of three modules with at most two imports each in every order, with a
missing source or a broken header, and diamonds and cycles of four; 41130
states).  It is not among the runs, as its two invariants are proved for every
project; `Answered`, that there is an order or a refusal, is checked by it
alone.

**Deadlock** is checked in `chez_channel` (which has a `Stop` step for finished
scripts), `refc_counts`, `refc_numbers`, `signals`, `pathcov_table` and
`c_processes` (whose `Done` step is the end of the program, or two children
that hold one another's input, which `AllEnd` allows only after overlapping
calls).  `build` ends with its last build.  The others stop when scripts end,
or, in a barrier's second round and with an un-notified waiter, block as the
code does.

**Fairness.** Chez threads are operating-system threads: every thread that can
step is scheduled (WF of its steps).  Chez mutexes are not promised to be fair
and nothing stronger is assumed of them.  In `chez_channel` spurious wakeups
eventually stop, since a thread woken for ever without a signal makes any loop
on a condition endless.  Racket documents its semaphores as fair, hence SF in
`RacketCV` and `Barrier`.  In `signals` the program calls
`handleNextCollectedSignal` in its main loop (WF of its steps); nothing says
that signals stop.  In `c_processes` the operating
system runs every thread, every reader and every child (WF); nothing makes the
program print or write.  Where a script gives each blocking call a partner,
termination is promised to every call; where it does not, only to those that
have one.

## 4. What the violation means, and what else was seen

`chez_semaphore_unbacked`.  `wait` uses `when` where a loop is needed: a thread
that comes between a post and the wakeup takes the unit, and the woken thread
takes it again, leaving -1.  `OneWaiterBacked` proves that this cannot happen
with one waiting thread and no spurious wakeup, which covers thread handles
awaited once.

Differences that a passing property names as its exception:

- `WaitersCounted`, `CallsReturn`: `broadcast-while-helper` counts down its
  argument but `cv-waiters` itself is never reset (`support.rkt` 462), so a
  signal after a broadcast posts a permit to nobody and waits for a handshake
  with `waitersLock` held.
- `ExactCount`: a branch that builds over its unique scrutinee drops none of
  the fields it does not use (`RefC.idr` 444), and external primitives forget
  their owned arguments (`RefC.idr` 590).  The property says that these are the
  *only* lost references.  Arrays take part in the second.
- `ExactCount` and `SharedIntact` (`worn`): `idris2_tailcall_apply_closure`
  decrements the counter of the closure (`runtime.c` 171), without the test for
  the maximum that the memory functions make.  A closure that has reached
  65535 references and is applied becomes mortal again, with a counter that
  says nothing any more.  Both are about the time before such an application.
- `FoldAgrees` (`ModGap`): the remainder of a negative multiple is the divisor
  and not zero (`mathFunctions.c` 100 adds the divisor without looking): -19
  mod 19 is 19, and `x = (x div 19) * 19 + x mod 19`, which
  `tests/refc/integers/TestIntegers.idr` 127 checks on samples that have no
  such multiple, fails there.
- `FoldAgrees` (`CastGap`): casts between small types keep what is in the
  field, and numerals outside an `int` (or a `long`) are read by `atoi`.
- `FoldAgrees` (`CastGap`): a character of RefC is a byte.  `castChar`
  (`Core/Primitives.idr` 143) evaluates `cast 300 : Char` to `'\300'` and
  `cast (-1) : Char` to `'\0'`, and the C casts make 44 and 255 of them.  A
  literal above a byte is cut in the same way (`RefC.idr` 92), so the property
  starts from, and compares with, the values of literals that C keeps.
- `FoldAgrees` (`FoldsCast`): casts from `Char` or text to the types of fixed
  width, `Int` excepted, are not evaluated by the compiler
  (`Core/Primitives.idr` 76), so there is nothing to agree with; the chain goes
  on with what the run time makes.
- `CaseAgrees`: a switch goes through an `int`, so two 64-bit values or
  Integers that differ above bit 31 take the same alternative; and it compares
  a `Char` or an unsigned value that is not canonical.  The alternative of a
  character is written `(char)` and its number (`RefC.idr` 382), which where
  `char` is signed is negative from 128 on: a value of 200 that a cast made
  misses the alternative for `'\200'`.
- `EverySignalHandled`: `handle_next_collected_signal` returns the lowest
  pending signal (`idris_signal.c` 84), so one that keeps coming starves the
  higher ones for ever.  The property promises a signal to the program where no
  lower one is delivered any more (`LowerStop`).
- `ChildWired`: if descriptor 0 or 1 is closed in the program a pipe gets that
  number, and the child closes it while it wires the rest (`idris_file.c`
  368-376).
- `FdsReturned`: a failing fork leaves four descriptors open (`idris_file.c`
  356).
- `WrittenOnce`: a child that cannot run its command flushes its copies of the
  buffers on exit, another child's unsent input among them; and what another
  thread prints between the flush and the fork, which such a child writes
  again.
- `AllEnd`: two calls of `popen2` that overlap let each child inherit the
  other's input; if both read to the end, neither ever sees it.
- `LoadedIsCurrent`: a source that is edited between being read and its TTC
  being written is older than that TTC, and stays uncompiled until it is edited
  again.
- `FailsForCause`: a torn TTC is newer than its source.  Every later build
  takes it for up to date and fails to load it, until the source is touched or
  the file removed; a package build reports success.
- `TotalityHonoured`: `needsBuilding` answers *yes* before it asks about
  totality if an import is no older than the main file, and `processMod` then
  skips the file, as source and hashes are unchanged: it is not checked with
  `--total`.
- `TotalityHonoured` and `Stable`: the TTC records the default that a `%default`
  of the source has set (`Binary.idr` 304), and `needsBuilding` compares it with
  the session's (`ModTree.idr` 214).  A main file with `%default partial` built
  under `--total` loads with the weaker requirement, and every build removes its
  TTC and compiles it again, whether or not anything has changed.  `Stable` is
  about builds whose main file has what is asked for (`Current`).

Seen while modelling, and without a property:

- The finaliser of a GC pointer gets the payload while the pointer is freed,
  and the payload is dropped again afterwards (`memoryManagement.c` 288); only
  the extra reference taken by `prim__onCollect` (`prim.c` 110) pays for it.
- `conditionWaitTimeout` of RefC passes a relative time (`prim.c` 202).  RefC
  forks no thread.
- `-Xcheck-hashes` finds no hash function (`Core/Options.idr` 296) and so
  compiles everything always.
- A Racket mutex is a semaphore: acquiring one's own blocks for ever, where
  `System/Concurrency.idr` 61 speaks of recursive mutexes (for Chez).
- A forked Chez thread that raises never posts the semaphore of its handle.
- A polling get tests `null?` on `val-box`, so it never finds a message that is
  compiled to the empty list (`Nil`, `Nothing`).  `MaybeGetTakes` states this
  exception.
- Neither barrier is reset.  Used a second time, the Chez barrier blocks all
  who come and the Racket barrier lets all through.  `Rendezvous` and
  `EverybodyPasses` are about the first meeting, which threads that come again
  must not disturb; `NeverEarly` says that on Chez nobody gets through a later
  one early.
- A spurious wakeup would let one thread through the Chez barrier, and would
  make `await` return `#f`.  `AwaitReturnsResult` is about the runs without;
  `OthersFinish` holds with them.
- Two threads that handle signals may return one delivery twice, as the load
  and the clearing are two steps.  `NothingForgotten` holds for any number.
- A closure applied to itself is moved twice with one reference (`RefC.idr`
  499).  `WellFormed` excludes it; in a typed program it takes a closure of a
  recursive type.
- Labels of 512 bytes or more are cut without the saturation flag (documented
  at `pathcov.c` 78); `NoSilentLoss` is about labels as kept.

## 5. Proofs

Each theorem is for every value of the constants under the named assumptions of
its module, which say no more than that the constants have their types (finite
sets of threads where the code counts them, a table with at least one slot, a
dump with room for its mark) and, in `RefCNumbers`, that a field is wide enough
for the types kept in one, that a byte is a character and that a literal is a
number of its type; what
`RefCCode` assumes of programs is said below.  The
bounds of the models are among the constants; in `Popen2` no stream carries
more than a pipe holds.

- **`ChezChannelProofs`.** `IInv` is `TypeOK`, `ExactlyOnce` and `BoxesAgree`
  with two facts that make them inductive: the mutex is held by exactly the
  thread whose program counter is inside a critical section (`MutexInv`), and a
  thread carries a message only where its call has one (`HandInv`).  Without
  the first, two threads could pass the test of the boxes together; without the
  second, a put could store something that is no message.  From it follow
  `TypeCorrect`, `Delivery`, `Agreement` and, as an action property,
  `MaybeGets`. `Wakeups` proves `NoLostWakeup` on top of `IInv`: a step that
  changes `read-box` leaves its thread before a signal, and a signal that finds
  no sleeper has nobody to forget.  `Refinement` maps each step to a step of
  `Channel` or a stutter; the critical section that stores or takes is the
  abstract step, the signal is the return.
- **`ThreadsProofs`**, on semaphores, futures, barriers and signals.
  `PostsReachSleepers`: units are never more than the threads already woken
  while somebody sleeps.  `OneWaiterBacked`: with one waiter, a woken thread
  still finds the unit it was woken for.  `ResultsAreRight`: a ready future
  holds its result, and a woken thread was promised a ready future, though it
  does not test again.  `FirstMeeting`: either everybody has come, or nobody is
  through and the counter is the number of threads that are held; the counter
  reaches the number of threads only when they are all among those.
  `NobodyEarly`: on Chez the counter equals the number of threads once only, so
  who is through has passed once and everybody has come (`PassedOnce`).
  `OneHandlerOnce`: a bit that is set has a delivery that is unanswered, and a
  snapshot only holds bits that are still set.
  `NothingForgotten`: the atomic and clears no bit but the one returned.
- **`RacketCVProofs`.** `MutexStaysMutex`: the semaphore that `cv-wait`
  releases and takes again is taken exactly while one thread is between its
  acquire and its release, broadcasts included.  The other three need the state
  of the notifier that has the lock (`AInv`): while a signal is under way
  permits, claims and handshakes out add up to one, in a broadcast to the
  rounds it has still to go, and to nothing otherwise; a permit is owed to a
  thread that waited when the notifier began.  Without it a late waiter could
  take the permit.  `NobodyMiscounted` holds until a broadcast is called;
  `SignalsNotStolen` and `NobodyLeftWaiting` (`BroadcastWakesAll`) until the
  first broadcast has ended, since `cv-waiters` is wrong from then on
  (section 4): TLC checks the two beyond that point.
- **`PathCovProofs`.** `GapFree` (probing leaves no gap before a key) gives the
  uniqueness of keys, from which `CountCorrect` follows; `LossIsFlagged` says
  that what is not recorded is flagged.  `DumpIsComplete` is about the loop of
  the dump: as long as it has not stopped it has the keys of all slots passed
  and its text fits with the mark (`Fits`), by induction on the slots.
- **`RefCNumbersProofs`.** `ChainsFold`: after any chain of operations and
  casts outside the gaps of section 4, the representation is the compiler's
  value, whatever the code points are and whether or not `char` is signed.  Its
  invariant `Agreed` says that what is held is a field or a cell of its type and
  reads as the compiler's value.  That each function keeps it takes
  congruence modulo powers of two, since C works on the wider field; the
  provers have no laws of powers, which are derived from the number of subsets
  of a set.  `SwitchesAgree` and `RemaindersCongruent` follow with the division
  lemmas, of which `QuotientIsEuclidean` and `RemainderIsCongruent` are about
  the C expressions of `mathFunctions.c` for numbers of any size, in the four
  cases of the signs: the quotient leaves a remainder between 0 and the
  divisor, and the remainder lies between 0 and the divisor (that one included:
  the gap above) and differs from the dividend by a multiple.
- **`RefCCodeProofs`**, for any program, any functions that call one another in
  any way, any data that main finds and a heap of any size.  `CountsAreExact`
  and `OthersSeeNothing` follow from one invariant.
  - *Exact*: the counter of a cell is the number of references to it, in the
    fields of other cells (`InHeap`) and outside the heap (`Roots`): with other
    data, with the variables and tokens that the frames own, waiting to be
    dropped, or lost.  Each memory function has a lemma that says how many of
    the latter it uses up and how many it gives (`Ledger`); a node keeps the
    invariant if what its environment loses is what those calls use up.
  - *Ownership* (`FramesOK`): what a frame owns it still needs, and each
    variable that a node may use it owns, or a frame below owns it for the
    whole time (`Lent`).  That is what the environment of `RefC.idr` promises,
    and nothing in the counters shows it: without it a borrowed variable could
    be gone before its last use.
  - *Soleness* (`Solo`, `FullOK`): a reuse token, a running closure and a
    closure with all its arguments have one reference, so what was moved out of
    them is held by nobody else.  This needs the position of a call: only what a
    trampoline waits for returns a closure with all its arguments.
  - *Stores* (`StoreOK`): the array and the new value of `arraySet` outlive the
    drop of the old element.
  - *Intact*: a cell of `shared` has a reference outside the program's reach,
    itself or by another such cell.  So its counter is never 1 when a case that
    owns it tests for uniqueness, and no token is one of these.

  Assumed of the program is what the type checker and the passes before code
  generation see to (`ProgramAssumption`: names of a definition that differ,
  calls with as many arguments as parameters), of what main finds that its
  counters are exact (`StartAssumption`), and of the counter that its maximum
  is not one.  A step that finds no cell free, or a value of the wrong kind or
  with the wrong number of fields, is not taken.
- **`Popen2Proofs`**, for any number of children, of threads inside `popen2` at
  once, and of descriptors.  `IInv` says at each line of `popen2` which of its
  four descriptors the program has open (`Owns`), that they are open on the
  ends that the code takes them for and that no other descriptor is
  (`ParentTable`), and the same of a child's table before and after the wiring
  (`ChildTables`): `DescriptorsReturned` and `ChildrenWired` are read off it.
  `NothingDoubled` and `OutputHeard` need what buffers, pipes and readers hold
  together (`Printed`, `Told`, `Served`): a child's copy of a buffer has
  something in it only if a thread printed between flush and fork, a reader
  finds the end of a pipe only when the child and all who inherited from it are
  done with it, and a child does not exit before its input is closed.
- **`BuildProofs`**, on `ModTree`, for any import graph without cycles, any
  texts, and any number of edits, builds, kills and failed writes.  `IInv` has
  the types; that no time is ahead of the clock (`Clocked`); that what is
  `todo` is the end of the order (`InOrder`); that a TTC file newer than its
  source was compiled from it, or from a text edited meanwhile (`Fresh`), and
  one newer than an import's was compiled against that (`Timely`); what the
  build knows at each line of `process` (`Reading`, `Asked`, `Hashing`); and
  that each module the build is done with is as the properties want it
  (`Progress`, `Settled`).  What a module offers depends on all it re-exports,
  so that equal hashes are equal offers seems to need an induction over the
  graph.  It does not: there is a record of which hash came with which offer,
  closed under what hashes are made of and a one-to-one relation, to which each
  compilation adds an entry (`Remembered`).  So a module has only to agree with
  the files of its own imports.  `Agreement` and `Currency` follow: a module
  that is skipped because its imports' hashes are the old ones was compiled
  against what they offer.  `Cause`, `Totality` and `Stability` (an action
  property) rest on the same invariant; that what a TTC records is what its own
  text asks for, and less than the session's only where that text has a weaker
  `%default`, is part of `Settled`.
  On `BuildOrder`, `OrderIsRight` and `RefusedWithCause` are for any project.
  `OrderInv` is that of a depth-first search: the modules entered import one
  another (`Trail`, so finding one of them again is a cycle), what an entered
  module imports is done, or still to be visited, or further along the path
  (`Pending`), and what is done is closed (`Done`).  `mkBuildMods` looks for no
  cycle; that the modules on its path are no cycle comes from `mkModTree`,
  which went through the same modules first.  Reached and acyclic are stated
  by sets (a least closed set; a set each part of which has a member to begin
  with), so no recursion over the graph is needed.

Only model-checked:

- `Termination`, `EveryWaitReturns`, `EverybodyPasses`, `OthersFinish`,
  `EverySignalHandled`, `CallsReturn` and `AllEnd`: they rest on fairness,
  which is beyond the prover;
- `ResultCorrect`: what a program means is defined by recursion on terms and
  on the calls it makes, of which the prover has no account.  So are `ANF`'s
  two functions, of which the proofs use what `ProgramAssumption` says; TLC
  evaluates that assumption for every term of the instance.

## 6. Not modelled, and why

- *Compiler passes* (elaborator, termination and coverage checkers, linearity,
  parser, optimiser, Scheme and JavaScript generators): pure functions over
  terms, whose correctness is metatheory of the language or the text they
  print.
- *REPL, IDE mode, package manager*: loops over one command at a time that call
  those passes and the build that `ModTree` models.
- *RefC strings and buffers, the C support library but for processes and
  signals, Gambit*: one call of the operating system or of a library each, or
  copying of bytes.
- *Within the modelled parts*: GC pointers and their finalisers, predefined
  values and strings of the RefC heap; reference counts at `AOp` and
  `AConstCase`; doubles; `popen` and the Windows branch of `popen2`; two builds
  at once, TTM files and incremental code generators.

What a next step would take up: spurious wakeups in `Barrier`; the abstract
promise of a barrier that both run times implement; a lock file for builds, if
the compiler gets one.
