# SST-PIM: models, checks and proofs

SST-PIM simulates a node with processing in memory (PIM). A memory controller
has a small device behind it that copies blocks between memory and its own
scratch-pad, or multiplies them by a scalar, when a host program writes to its
registers. The host is a RISC-V program (through `revpim.h`) or a native program
that runs in a thread of the simulator's process (through `AppLink`).

This directory holds TLA+ models of these parts, their TLC configurations, and
proofs checked by TLAPS.

## 1. Inventory

### TCLPIM device (`PIMBackend/tclpim*`, `userpim_functions*`, `pim.*`)
*State.* Per function a register protocol (`FuncState`: `fstate`, `counter`,
`params`) and a DMA engine (`dma_state`, word counter, addresses, a return
state); one `sramArray` and one data `buffer` for all of them.
*Operations.* `read` and `write` of a register or a scratch-pad word, `clock`,
and the completion callbacks of DRAM requests.
*Hard.* An engine issues a request, sets WAITING afterwards, and its callback
sets the next state. The order in which requests of different functions complete
is arbitrary. Both engines resize and fill the same buffer.
*Correct if* each waiting engine has exactly one request in flight and no other
engine has one; a stopped function leaves nothing behind; the whole transfer and
nothing else is performed; a function that is run is done some day; no assertion
fails.

### Host library and tests (`test/pim/rev-test-src/revpim.h`, `*.cc`)
*State.* The program counter of the host. *Operations.* `init` (nine stores to
one register), `run`, `finish` (polling). *Hard.* The parameters are told apart by
their order only. *Correct if* host and device stay in step, and calls behave as
blocking calls.

### Address map and decoder (`pimdef.h`, `PIMDecoder.*`)
Stateless. Decides which accesses are MMIO, and to which function or
scratch-pad word they go.

### PIM backend (`PIMBackend.*`)
*State.* `requestBuffer` with its self link (the delay buffer),
`pendingPIMEvents`, the self-test flags. *Operations.* `issueRequest`,
`handleNextRequest`, `clock`, `issueDRAMRequest`, the three completions.
*Hard.* One wakeup per buffered request, also when the memory model refuses it;
the first completion is taken for the self-test's; the return value of `clock`
lets the simulator stop the clock. *Correct if* no wakeup and no request is lost
or doubled, and the clock runs while it is needed.

### Memory controller (`memoryControllerKG.*`, `PIMMemController.*`, `memHierarchy/memEvent*.h`)
*State.* `outstandingEvents_`, `clockOn_`, `region_`, the backing. *Operations.*
`handleEvent` (host), `handlePIMEvent` (PIM), `handleCustomEvent`, `clock`,
`turnClockOn`, `handleMemResponse`; address translation; init phases. *Hard.* Data
move when the memory answers, not when a request arrives; a flush that carries
data becomes two events; write-backs must not be answered and everything else
must; a flag of the event decides whether data are those of its line or of its
address; addresses are translated on the way in and back; the region may change
while the system is set up. *Correct if* each event is answered once, accesses to
one address take effect in order, reads see what was stored last and flushes
reach memory, whatever the caches do, and the owned addresses are a memory, each a
cell of its own within the backing.

### Application link (`AppGen/app*`, `appLink.h`, `appTransactor.*`)
*State.* `q` (one event), a mutex and condition variable, `loadQ`, `done`, the
native thread. *Operations.* `send`, `receive`, `generate`,
`handleLoadResponse`. *Hard.* The only real concurrency of the program: two
threads, one condition variable for both, a `loadQ` without a lock. *Correct if*
loads return the latest stored value, no wakeup is lost, and the simulation ends.

### Request generator CPU (`AppGen/mirandaCPU_kg.*`, `mirandaGenerator_kg.h`, `mirandaMemMgr_kg.h`)
*State.* `pendingRequests`, requests in flight, counts per operation, the page map.
*Operations.* `clockTick` with its loops that generate, issue and erase,
`issueRequest`, `issueCustomRequest`, `handleEvent`; `mapAddress` and the shuffle
of the page map. *Hard.* The issue loop passes requests over and
looks behind them, within bounds on the places looked at, the requests per cycle
and the slots; what it issues is erased by place in a second loop, with one cursor in the list of
places, which relies on their order; fences and
dependencies are answered for elsewhere. *Correct if* fences and dependencies
hold, no request is lost or issued twice, counters agree with what is in flight,
the page map merges no addresses, and the CPU ends.

### Left aside
`SingleStreamGenerator_KG`, which cannot be used: `clockTick` casts every
generator to `AppTransactor` and calls its virtual functions, and `useAppLink` is a
constant. The debug spinner, build files and scripts, and those headers in
`memHierarchy/` that describe fields nothing here uses.

### How they interact
Host stores and loads reach `PIMMemController::handleEvent`, are flagged MMIO if
the decoder says so, wait in the convertor, the delay buffer and the memory
model, and reach `TCLPIM::read/write` when the memory answers. The device's own
requests take the same way with the flag `F_PIM` and come back through
`handlePIMCompletion`. The simulator runs one handler at a time, so all of this
interleaves at handlers; only `AppLink` interleaves threads.

## 2. Modules

| Module | Models | Uses |
|---|---|---|
| `AddressMap` | segments, decoding, scratch-pad indices, by word | |
| `TCLPIM` | the device, with a DRAM port that answers at any time in any order | `AddressMap` |
| `RevPIM` | host threads that use the device through `revpim.h` | `TCLPIM`, `Offload` |
| `Offload` | abstract: running a function is a blocking call with an effect on memory | |
| `MC_RevPIM` | instances of `RevPIM` for TLC | `RevPIM` |
| `RevPIM_proofs` | inductive invariants and theorems of `RevPIM` | `RevPIM`, `DataLemmas` |
| `MemController` | the queues and clocks: controller, PIM backend, and what they rely on of convertor and memory model | `MemPort` |
| `MemPort` | abstract: a memory port that answers each request once, in order per address | |
| `MC_MemController` | instances of `MemController` for TLC | `MemController` |
| `MemController_proofs` | inductive invariant and theorems of `MemController` | `MemController`, `DataLemmas` |
| `CachedMemory` | the controller between caches, cores and PIM: every command that `handleEvent` accepts, with data | |
| `CachedMemory_proofs` | inductive invariant and theorems of `CachedMemory` | `CachedMemory`, `DataLemmas` |
| `Interleave` | the controller's region, its adjustment to the memory, the init phases, address translation | `FlatMemory` |
| `FlatMemory` | abstract: the addresses a controller owns are a memory | |
| `MC_Interleave` | instances of `Interleave` for TLC | `Interleave` |
| `Interleave_proofs` | theorems of `Interleave` | `Interleave`, `DataLemmas` |
| `AppLink` | the native thread, the transactor and the CPU that issues its requests | |
| `AppLink_proofs` | two invariants and the theorems of `AppLink` | `AppLink`, `DataLemmas` |
| `PageMap` | `MirandaMemoryManager`: the page map, its shuffle, `mapAddress` | |
| `RequestCPU` | the request generator CPU with any generator | `PageMap` |
| `MC_RequestCPU` | an instance of `RequestCPU` for TLC | `RequestCPU` |
| `PageMap_proofs` | the page map keeps pages and addresses apart | `PageMap`, `TLAPS` |
| `RequestCPU_proofs` | inductive invariant and theorems of `RequestCPU` | `RequestCPU`, `PageMap_proofs` |
| `DataLemmas` | facts about numbers, sets and sequences that the proofs share | `TLAPS` |

**State and code.** Variables keep the names of the members they model.
`fault` stands for a failed `assert` ("assert"), a call of `fatal` ("fatal") or an
access outside `sramArray` ("overrun"); nothing happens after it. A handler of
the simulator is one action. The exception is `TCLPIM::clock`, whose visits to two
running functions are two actions with `cursor` between them, and nothing else
may happen there. In `AppLink` a critical section is one action, the
`notify_one` after it another, and each look at `loadQ` one of its own. In `RequestCPU` each turn of
the loops of `clockTick` is an action, and answers come between cycles only, as
the simulator delivers them.

**Abstractions.** Words of 8 bytes and word addresses (every access of the
functions is of whole words; sizes given by the host stay in bytes and are
checked and divided as in the code). `MemController` has no data: a function's
run is a number of steps, each a DRAM request or a scratch-pad transfer; its
`init` with parameters is one store. `TCLPIM` and `RevPIM` have the data, and
take from the controller only that each request is answered once, which
`MemController` checks. `Interleave` has the addresses and the data of the same
handlers (`handleEvent`, `handleMemResponse`) but not their queues: a request is
answered at any time, which is more than `MemController` allows. Its `Minus` and
`Plus` are the arithmetic of `uint64_t` (modulo `W`). `CachedMemory` has the
commands, flags and data of events for a host with caches; queues and clocks are
reduced to the order `MemController` shows it keeps, the caches of the host count
as one, the call of `fatal` for a command that `handleEvent` does not know is left
out because nobody sends one, and an event carries in `expect` what a read should see, for the property
only. `RequestCPU` takes any generator and any order of answers. In `AppLink` the program is any sequence of loads and
stores.

**External code**, modelled from how `src/` uses it: the backend convertor
(`Room`, `issuing`, `Taken`; a flush waits for those requests for its line that
have not been passed on, `dependsOn`), caches and cores (`Fetch`, `Hit`, `Evict`,
`Flush`, `Load`, `Store`), the memory model (`MayAnswer`, `SameAddress`: the
order per address is kept; `simpleMem` works by its own events and lets the clock
stop, `dramsim3` works in its clock and does not), the order in which StandardMem
answers, `condition_variable` and `deque`.

## 3. Runs

| Run | Shows |
|---|---|
| `sequential` | One call at a time: types, no failed assertion, `finish()` returns, and the device implements `Offload`: each call has exactly the effect of its transfer (several chunks, a partial chunk, twice round the scratch-pad, between segments). |
| `overlap` | Calls of the two functions overlap in every way: engines and requests in flight agree, stopped functions are quiet, host and device are in step. |
| `overlap_buffer` | *Violated.* Two running functions resize each other's buffer, and the assertion of `tclpim_functions.cc:92` fails. |
| `empty` | *Violated.* A transfer of zero bytes is never done, `finish()` polls for ever. |
| `controller` | Calls one at a time and overlapping with `simpleMem`, overlapping with a memory model that refuses and reorders, with and without a delay buffer. No fatal call where memory answers in order; the clock runs while one call at a time needs it (with two it does stop under a running function, and polls wake it); one wakeup per buffered request; the tables of controller and PIM agree with the requests under way; the controller implements `MemPort` (`KeepsOrder`, `OldestAnswered`); calls return. |
| `selftest` | *Violated.* The start-up test "to SRAM base" never touches the scratch-pad. |
| `interleave` | The addresses owned are a memory (`FlatMemory`), within the backing but for the block in a last, partial step, which the code does not count (`Counted`), answers carry the address of the request, and a region that has been adjusted stays. Left out are the addresses in answers to stores to a device, unless the region starts at 0 and is not interleaved: they are translated twice and are wrong, and nothing says what they should be. |
| `interleave_initdata` | *Violated.* `processInitEvent` checks the local address against the region of global ones: init data of interleaved nodes are dropped. |
| `cached` | Lines are fetched, stored to, written back and flushed at any time, host and PIM use the noncacheable region: reads return what was stored last, no store is lost, what a flush carries is in memory when it is answered, each event has one entry and at most one answer, whoever waits is answered, and only a custom command ends the simulation. |
| `cpu` | Fences and dependencies hold although the issue loop looks past requests; counters agree with what is in flight and stay within the slots; no request is lost or issued twice; a shuffled page map merges no addresses; the CPU ends when its generator has. |
| `applink` | Loads return the latest store, no wakeup is lost, the simulation ends, also after a `receive` that failed. |
| `applink_race` | *Violated.* `receive` fails although its answer is there, because it reads `loadQ` while the simulator appends to it. |

**Bounds.** `RevPIM`: chunks of 2 words (64 in the code), a scratch-pad of 4, so
that a transfer of 6 words has three chunks and goes round the scratch-pad and one
of 3 words ends in a partial chunk; 4 parameters (8), those the functions use;
two event identifiers, because an engine never has two requests in flight, which
`overlap` checks and `RevPIM_proofs` proves; words modulo 61, so that all words
are different and products wrap, or modulo 5 where the data do not matter. No
bound on the number of calls. `MemController`: 2 steps per run (`MaxSteps`), 2
requests passed on per cycle (`MaxIssue`, 128 in `1node.py`, less makes queues
longer), room for 2 requests in `dramsim3` so that it refuses
(`Capacity`), or 12 in `simpleMem`, more than there are, so that it does not.
`CachedMemory`: a line of 2 words, so that the word asked for need not be the
first of its line, and one noncacheable word that host and PIM share; 3 events at
once (`MaxEvents`), enough for a write-back, the second write-back of a flush and
the flush itself; two values, as a store always changes what is there.
`RequestCPU`: 4 requests, so that a fence has requests before and behind it, of
which a store crosses a line and a load lies beyond the memory; 3 places looked
at, 2 requests a cycle, and one slot for custom commands, so that each bound is met
with requests left; two pages of one line. `Interleave`: 8
addresses, blocks of 2, the regions `1node.py` computes for one node and for two,
device addresses inside translated and untranslated regions,
a region up to the last address, one whose step is no multiple of its block, and
memories of 4 (just enough), 3 (the region is cut) and 1 (less than a block); two
phases of init, so that the link changes the region in between; two requests under
way. The arithmetic for all other sizes is proved. `AppLink`: 4
operations (`MaxOps`) on 2 addresses and 2 values, 2 requests looked at, one slot
per operation so that slots run out, and deque nodes of 2 elements (64), so that
a push starts a node.

**Deadlock** is checked where the system goes on for ever. It is not checked in
runs in which a fault ends the simulation (`overlap`, `overlap_buffer`,
`controller`, `cached`, `cpu`; `dramsim3` may answer the self-test out of turn, and
a custom command always ends it), in `interleave`, where a controller cut to nothing has nothing to do,
nor in `AppLink` and `RequestCPU`, which end.

**Fairness.** `RevPIM`: the clock ticks each running function and requests are
answered (the event loop of the simulator serves every event at its time), and a
thread that began a call goes on. `MemController`: the same per handler; no
fairness for new calls. `CachedMemory`: the memory takes requests, answers its
oldest and the flushes that wait for nothing; none for host and PIM. `RequestCPU`:
the clock ticks (weak), and the oldest request is answered, between two ticks
(strong, as below). `AppLink`: the operating system schedules both threads
(weak), and the answer of the oldest request is served in the end although ticks
go on (strong: a tick and the answer are alternatives between ticks). No fairness
for spurious wakeups. The program is assumed to end.

**Assumptions made.** A call is such as the device asks for (`Transferable`): whole
words, no register among its addresses, transfers from and to DRAM that end in the
region, chunks that do not go round the scratch-pad, and no word of the source
overwritten by an earlier one. TLC evaluates that the calls of the runs are. One
node (`num_nodes` is asserted to be 1). `receive`'s 0x100000 tries do not run
out. Blocks of a region do not overlap (`interleaveSize <= interleaveStep`, a part
of "Translations assume interleaveStep is divisible by interleaveSize"), an access
lies within a block, and a memory is smaller than 2^64 - 1 bytes. The link
announces no other region once data have been sent, as the comment in `init` says
it should. A generator lets no request depend on one that has been
answered, on a fence, or on one request twice (each of them would never be
satisfied). `pageSize * pageCount` does not wrap. The cast of a 64-bit command to a 32-bit enumeration loses nothing.

## 4. Proofs

`RevPIM_proofs` proves, for every address map, chunk size, scratch-pad, set of
jobs (whatever their parameters are), overlapping calls or not, and every order of
events, from the named assumptions of `AddressMap`, `TCLPIM` and `RevPIM`:

| Theorem | Statement |
|---|---|
| `TypeCorrect` | `Spec => []TypeOK` |
| `EnginesMatchEvents` | `Spec => []OneEventPerWait` |
| `StoppedFunctionsAreQuiet` | `Spec => []StoppedIsQuiet` |
| `HostAndDeviceInStep` | `Spec => []InStep` |
| `Invariance` | `Spec => []IInv`, from which those above follow |
| `NoAssertionFails` | under `OneAtATime`, `Spec => []AssertionsHold` |
| `CallsAreBlocking` | under `OneAtATime`, `Spec` implies the safety part of `ImplementsCalls` |
| `CallInvariance` | under `OneAtATime`, `Spec => []CallInv`, from which these two follow |

`IInv` joins `TypeOK`, `OneEventPerWait`, `StoppedIsQuiet` and `InStep`. None of
them is inductive alone: that `start` does not disturb an engine that waits needs
`StoppedIsQuiet`; that a function which is not running is never ended, so that the
register protocol is left alone, needs `InStep`. The
controller checks that the base address of a request lies in its region, not its
end (`InRegion`). An answer to a request that runs past the region ends in
"overrun", so that all data that arrive are words; under `OneAtATime` this does not
happen, because each chunk of a job lies in the region (`AnswerFits`).
There is one lemma per action (`IssueReadIInv`, `ReadSramIInv`, ...,
`CompletionIInv`, `BeginIInv`, ...); the steps of the engine share `EngineStep`,
which says what a step of one engine leaves alone, and `IssueAdds`, which says
what a new event does to the sets of events of both. Faults share `AbortIInv`.

The last three hold only under `OneAtATime`: one call at a time (`Sequential`), and
every job `Transferable` (section 3). Without the first the assertion fails (run
`overlap_buffer`); the second is what `Effect` needs to be the effect. `CallInv`
adds `InTransfer`: if `n` words have been taken off the counter, the words before
the present chunk have arrived, each at its place, and nothing else has changed
(`Copied`); the words of the chunk are still unread, in the buffer or in the
request to write them (`Carries`), by the state of the engine. A chunk is then read
as it was when the function started, since no earlier word has been stored there
(`StillUnread`), and when the engine is done `AllArrived` makes of `Copied` what
`Offload` asks for, the last of the words that arrive at one cell included. The
mapping takes `run` to `Call`, the step that ends the function to `Return`, the
host's `store` to `Store`, and every other step to a stutter. Jobs of no words are
allowed: they never return, which is liveness (run `empty`).

`Interleave_proofs` proves for every width of the address, every set of well-formed
regions and every memory size, from `InterleaveAssumption`:

| Theorem | Statement |
|---|---|
| `RoundTrip` | `translateToGlobal` undoes `translateToLocal` on owned addresses |
| `CellsOfTheirOwn` | no two owned addresses share a cell |
| `InterleaveTypeCorrect` | `Spec => []TypeOK` |
| `ResponsesKeepAddress` | `Spec => []AnswersKeepAddress` |
| `RegionAdjustedOnce` | `Spec => AdjustedOnce` |
| `OwnedAddressesInBounds` | `Spec => []InBounds` |
| `IsFlatMemory` | `Spec => ImplementsFlatMemory` |

The first two rest on one lemma, `Block`: an owned address is `k` steps and an
offset `o` within a block, and its local form is `k` blocks and `o`. The invariant
of `ResponsesKeepAddress` adds that requests carry the local form of the address
asked for and that there are neither requests nor answers while the region may
change. `RegionAdjustedOnce` and `OwnedAddressesInBounds` follow from `Fits`, which `adjustRegionToMemSize` establishes (`AdjustFits`): the
region takes no more than the memory, or not even a block fits and it has been cut
to end just before its start. Two limits show up in the proof and are conditions of
`InBounds` (`Counted`): the blocks of a part of a step are not counted, so
that a region ending in one can go beyond its memory by a block; and a region cut
to nothing that starts at 0 ends at the last address and holds all of them.

`IsFlatMemory` maps each owned address to the content of its cell. A store changes
no other address because cells are not shared. The set-up needs an argument of its
own: `init` may put another region in the place of the present one, and `FlatMemory`
demands that what is held stays if the set of owned addresses does. Two regions that
own the same addresses give each the same cell (`SameSetSameCells`): the local form
of an owned address that is not the first is one more than that of the owned address
before it (`Predecessor`), so a least counterexample would have one below it.

`MemController_proofs` proves for every set of configurations, every capacity of
the memory model, number of requests a cycle and length of a run, from
`MemControllerAssumption`:

| Theorem | Statement |
|---|---|
| `TypeCorrect` | `Spec => []TypeOK` |
| `WakeupsMatch` | `Spec => []WakeupPerRequest` |
| `NoEventLost` | `Spec => []EachEventOnce` |
| `NeverFatal` | `Spec => []NoFatal` |
| `ClockRuns` | `Spec => []ClockWhileNeeded` |
| `OrderKept` | `Spec => KeepsOrder`: it implements the safety part of `MemPort` |
| `Invariance` | `Spec => []IInv`, from which the others follow |

The three queues are looked at as one sequence, `Pipeline`: the convertor and the
delay buffer move its borders, new requests make it longer (`Grown`), an answer
takes one out (`Shrunk`). `PipelineOK` says that no event is there twice and that
none stands before one it must follow (`Earlier`: the accesses of a thread in the
order of its program, the self-test's write before its read, and both before
requests of the PIM). With the order in which memory answers this gives
`AnsweredFirst`: when an event is answered what comes before it has been. `NoFatal`
rests on it, with `SelfTestOK` (which of the self-test's events are still to be
answered) and `ThreadsOK` (what a thread has under way determines the state of its
function). `ClockWhileNeeded` needs more than itself: no store of RUN may be under way
when the clock stops, which holds because only one thread has a call (`Alone`). The
part `Inner` is claimed only until a fault, which may occur with `dramsim3`.

`RequestCPU_proofs` proves for every set of requests a generator may make, every
number of slots, places looked at and requests a cycle, every size and number of
pages, from `RequestCPUAssumption` and `PageMapAssumption`:

| Theorem | Statement |
|---|---|
| `TypeCorrect` | `Spec => []TypeOK` |
| `FencesStand` | `Spec => []FenceOrder` |
| `DependenciesObeyed` | `Spec => []DependenciesHold` |
| `SlotsKept` | `Spec => []SlotsAgree` |
| `NoneLostOrTwice` | `Spec => []EachRequestOnce` |
| `PagesApart` | `Spec => []AddressesApart` |
| `Invariance` | `Spec => []IInv`, from which the others follow |

The queue keeps the order of generation. The heart is `PassedOver`: what the issue
loop has passed over in this cycle is no fence, because a fence ends the loop, and is
listed for erasure, waits for a dependency or finds its slots taken. From it
`FenceClears` follows: a fence is retired only when everything before it has been
answered, because what had a reason to be passed over would have something in flight. `EraseOK` says that `newQ` and the places not yet copied are what is not listed
in `delReqs`. The one cursor of `erase` finds every listed place because the list
is in ascending order (`Ascending`, `PushedBack`), as the issue loop goes forward
and `nextSkipIndex` is behind exactly the listed places that have been passed. `PagesApart` rests on `ShuffleApart` of `PageMap_proofs`: a swap
permutes the pages, and page and offset of an address are unique.

`CachedMemory_proofs` proves for lines of any length, every set of lines and of
noncacheable words, every set of values and number of events at once, from
`CachedMemoryAssumption`:

| Theorem | Statement |
|---|---|
| `TypeCorrect` | `Spec => []TypeOK` |
| `TablesAgree` | `Spec => []TableAgrees` |
| `FaultsAreCustom` | `Spec => []OnlyCustomFaults` |
| `NoStoreLost` | `Spec => []NothingLost` |
| `ReadsSeeLatest` | `Spec => ReadsLatest` |
| `FlushesWriteBack` | `Spec => FlushWritesBack` |
| `Invariant` | `Spec => []IInv`, from which the others follow |

`Leaves(E, b, n, a, v)` says that memory `b` holds `v` at `a` once the first `n` of
the requests `E` are done. `NothingLost` is that of the whole `Pipeline` with what
was stored last; what a read expects is that of the requests before it
(`ReadsSettled`). A new request adds at the end; an answer takes out a request
before which none is for the same place, and does to memory what `Leaves` says it
will. Around this stand the kinds of events there are (`EventsKnown`), that lines
in the cache, fetches and flushes agree with what was stored last and that a line is
not stored to while it is under way (`LinesCurrent`), that the host waits for each
answer it gets and for one per place (`HostWaits`), and, for flushes, that one with
data depends on a request behind all those for its line (`FlushesFollow`): the
write-back made from it, for which `handleFlush` queues that first.

`AppLink_proofs` proves for every program, every size of the slots and of the
nodes of `loadQ`, and every order of answers, from `AppLinkAssumption`:

| Theorem | Statement |
|---|---|
| `WakeupsKept` | `Spec => []NoLostWakeup` |
| `TypeCorrect` | `Spec => []TypeOK` |
| `AnswersAreLatest` | `Spec => []ReceivesLatest` |
| `Invariant` | `Spec => []IInv`, from which `TypeCorrect` and `AnswersAreLatest` follow |

The invariant for wakeups adds `Waiting`: a sleeping application is in `send`, and a
sleeping simulator's thread in `generate` with what it looked at unchanged, because
only that thread changes it. `NoLostWakeup` says that the two never sleep together,
so that `notify_one` cannot wake the wrong one: the thread that notifies is awake,
and the only one left to wake is the other.

That a load gets the latest store is harder, since no tag ties the answers in
`loadQ` to the loads. `AnswersKept` tells two states apart: `InTurn`, in which the
one load without an answer, or the one answer in `loadQ`, is that of the load the
program is at; and `Behindhand`, in which an earlier `receive` has failed and there
is more than that, so that the next `receive` leaves something unanswered and
`ReceivesLatest` claims nothing of what it returns. A failed `receive` leads from
the first to the second, and without one each step keeps the first.
`StoresSettled` says what the requests on their way
leave in memory, `Places` where the two threads are while a node of `loadQ` is
being started (`torn`).

`DataLemmas` has what these proofs share. Induction on numbers is done there by the
least counterexample (`LeastNumber`), from the library's fact that `Nat` is well
founded.

**Only model-checked:** liveness, which is out of reach of the prover: `FinishReturns`
and the fairness of `Offload` in `ImplementsCalls`, `OldestAnswered` and the calls
that return in `MemController`, `Answered` of `CachedMemory`, the ends of the
program, the CPU and the simulation. The runs that expect a violation are
counterexamples, and TLC's alone. Every invariant and every action property of a
passing run is proved.

## 5. Not modelled

`F_REMOTE` and other nodes (`num_nodes` is asserted to be 1, and `handleFLinkEvent`
asserts FALSE); the setup, shutdown and status phases, which pass the call on or
print; `read`s of several words by the host; MMIO stores that are not of 8 bytes
(dropped with a warning); requests of the CPU split over two lines, which an
assertion excludes; generators loaded over the `src` link and the stream generator (section 1);
a page map shared between ranks; what the PIM would see of data that are dirty in
a cache, since programs share data with it in the noncacheable region only;
`receive` running out of its tries; statistics and output.

## 6. Plan

1. Done: `AddressMap`, `TCLPIM`, `Offload`, `RevPIM`; `MemPort`, `MemController`;
   `CachedMemory`; `FlatMemory`, `Interleave`; `PageMap`, `RequestCPU`; `AppLink`;
   and the proofs of what their runs check but for liveness.
2. Models: the wait of `init` in `PIMBackend`; the deletion of the application while
   its thread still runs.
3. Proofs: that `CachedMemory` implements a flat memory for host and PIM together;
   the order of loads and stores of a program in `RequestCPU` beyond fences.
