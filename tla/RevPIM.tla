------------------------------- MODULE RevPIM -------------------------------
(***************************************************************************)
(* Host programs that use the device through test/pim/rev-test-src/        *)
(* revpim.h.  For each function there is a host thread that repeats        *)
(*                                                                         *)
(*     init(f, p0, ..., p7);  run(f);  finish(f);                          *)
(*                                                                         *)
(* with parameters from Jobs[f].  The programs of rev-test-src are one     *)
(* thread and "run 1, poll until it's done, run the next" (checksram.cc):  *)
(* Sequential is TRUE.  With Sequential FALSE nothing keeps the calls of   *)
(* the two functions apart, as when a program runs both and then polls     *)
(* both.                                                                   *)
(***************************************************************************)
EXTENDS TCLPIM

CONSTANTS
    Jobs,         (* Jobs[f]: the parameters f may be called with.           *)
    Stores,       (* Pairs of an address and a word the host may store.      *)
    Sequential    (* TRUE: a function is called only when none is in use.    *)

ASSUME RevPIMAssumption ==
    /\ Jobs \in [Functions -> SUBSET [ParamIndex -> Nat]]
    /\ Stores \subseteq (Addr \X Word)
    /\ \A s \in Stores : decode(s[1]) # "FUNC"
    /\ Sequential \in BOOLEAN

VARIABLES
    hpc,          (* hpc[f]: what the thread of f does next.                 *)
    hidx,         (* hidx[f]: words init() has written to the register.      *)
    job,          (* job[f]: the parameters of f's current or last call.     *)
    before        (* The memory when the last function was started.          *)

hostVars == <<hpc, hidx, job, before>>
vars == <<deviceVars, hostVars>>

memory == [sram |-> sramArray, dram |-> backing]

Init ==
    /\ DeviceInit
    /\ hpc = [f \in Functions |-> "idle"]
    /\ hidx = [f \in Functions |-> 0]
    /\ job = [f \in Functions |-> [i \in ParamIndex |-> 0]]
    /\ before = memory

(* The register of f in the FUNC segment, func[f] of revpim.h.             *)
func(f) == FuncBase + f

(* The caller picks the parameters and enters init().                      *)
Begin(f) ==
    /\ fault = "none" /\ hpc[f] = "idle"
    /\ Sequential => \A g \in Functions : hpc[g] = "idle"
    /\ \E p \in Jobs[f] : job' = [job EXCEPT ![f] = p]
    /\ hpc' = [hpc EXCEPT ![f] = "init"]
    /\ hidx' = [hidx EXCEPT ![f] = 0]
    /\ UNCHANGED <<before, deviceVars>>

(* One of the stores of init(): the command, then the parameters in turn.  *)
init(f) ==
    /\ BetweenHandlers /\ hpc[f] = "init"
    /\ write(func(f), IF hidx[f] = 0 THEN INIT ELSE job[f][hidx[f] - 1])
    /\ hidx' = [hidx EXCEPT ![f] = @ + 1]
    /\ hpc' = [hpc EXCEPT ![f] = IF hidx[f] = NumParams THEN "run" ELSE @]
    /\ UNCHANGED <<job, before>>

run(f) ==
    /\ BetweenHandlers /\ hpc[f] = "run"
    /\ write(func(f), RUN)
    /\ hpc' = [hpc EXCEPT ![f] = "finish"]
    /\ before' = memory
    /\ UNCHANGED <<hidx, job>>

(* The polling load of finish() that ends the loop.  The loads that leave  *)
(* the thread in the loop change nothing.  A load that finds the function  *)
(* invalid fails the assertion of the host.                                *)
finish(f) ==
    /\ BetweenHandlers /\ hpc[f] = "finish"
    /\ \/ /\ read(func(f), 1) = <<DONE>>
          /\ hpc' = [hpc EXCEPT ![f] = "idle"]
          /\ UNCHANGED <<deviceVars, hidx, job, before>>
       \/ /\ read(func(f), 1) = <<INVALID>>
          /\ Abort("assert")
          /\ UNCHANGED hostVars

(* The host's own stores, to the SRAM through MMIO and to DRAM, made while *)
(* no function is in use.                                                  *)
store ==
    /\ BetweenHandlers
    /\ \A f \in Functions : hpc[f] = "idle"
    /\ \E s \in Stores :
          \/ isIO(s[1]) /\ write(s[1], s[2])
          \/ /\ ~isIO(s[1])
             /\ backing' = [backing EXCEPT ![s[1]] = s[2]]
             /\ UNCHANGED <<fsmVars, dmaVars, buffer, sramArray,
                            pendingPIMEvents, cursor, fault>>
    /\ UNCHANGED hostVars

Device ==
    \/ \E f \in Functions : clock(f) /\ UNCHANGED hostVars
    \/ \E e \in pendingPIMEvents : handlePIMCompletion(e) /\ UNCHANGED hostVars

Host ==
    \/ \E f \in Functions : Begin(f) \/ init(f) \/ run(f) \/ finish(f)
    \/ store

Next == Device \/ Host

(***************************************************************************)
(* The event loop ticks the device and completes its requests, and a host  *)
(* thread that has begun a call goes on with it.                           *)
(***************************************************************************)
Fairness ==
    /\ \A f \in Functions : WF_vars(clock(f) /\ UNCHANGED hostVars)
    /\ WF_vars(\E e \in pendingPIMEvents :
                  handlePIMCompletion(e) /\ UNCHANGED hostVars)
    /\ \A f \in Functions : WF_vars(init(f) \/ run(f) \/ finish(f))

Spec == Init /\ [][Next]_vars
FairSpec == Spec /\ Fairness

-----------------------------------------------------------------------------
(* What a function does to the memory, by its description in               *)
(* tclpim_functions.cc and userpim_functions.h: each word of the source,   *)
(* multiplied by the scalar if it is MulVecByScalar, arrives at its place  *)
(* in the destination.  A transfer longer than the SRAM goes round it and  *)
(* its last words stay.  What a call must be like for that: Transferable.  *)
Size(f, p) == p[IF f = F1 THEN 2 ELSE 3] \div 8

OnSpd(f, a) == f = F1 /\ decode(a) = "SRAM"

SourceWord(f, p, m, i) ==
    IF OnSpd(f, p[1]) THEN m.sram[spdIndex(p[1] + i)]
    ELSE IF f = F1 THEN m.dram[p[1] + i]
    ELSE (p[2] * m.dram[p[1] + i]) % WordMod

(* The words of the transfer that are stored in cell k of the SRAM.        *)
Arrivals(f, p, k) == {i \in 0 .. Size(f, p) - 1 : spdIndex(p[0] + i) = k}

Latest(S) == CHOOSE i \in S : \A j \in S : j <= i

Effect(f, p, m) ==
    IF OnSpd(f, p[0])
    THEN [m EXCEPT !.sram =
            [k \in DOMAIN m.sram |->
                IF Arrivals(f, p, k) = {} THEN m.sram[k]
                ELSE SourceWord(f, p, m, Latest(Arrivals(f, p, k)))]]
    ELSE [m EXCEPT !.dram =
            [a \in DOMAIN m.dram |->
                IF a \in p[0] .. p[0] + Size(f, p) - 1
                THEN SourceWord(f, p, m, a - p[0])
                ELSE m.dram[a]]]

(* What the device asks of a call: whole words, no register among the      *)
(* addresses, transfers from and to DRAM within the region, chunks from    *)
(* and to the SRAM that do not go round it, and no word of the source      *)
(* overwritten by an earlier one.                                          *)
ChunksFit(a, n) ==
    \A k \in 0 .. n : k * ChunkWords < n =>
        LET left == n - k * ChunkWords
        IN  /\ decode(a + k * ChunkWords) = "SRAM"
            /\ SpdFits(a + k * ChunkWords, IF left >= ChunkWords THEN ChunkWords ELSE left)

Fits(f, a, n) == IF OnSpd(f, a) THEN ChunksFit(a, n) ELSE a + n - 1 <= MaxAddr

Overwrites(f, p, i, j) ==
    \/ OnSpd(f, p[0]) /\ OnSpd(f, p[1]) /\ spdIndex(p[0] + i) = spdIndex(p[1] + j)
    \/ ~OnSpd(f, p[0]) /\ ~OnSpd(f, p[1]) /\ p[0] + i = p[1] + j

Transferable(f, p) ==
    LET n == Size(f, p)
    IN  /\ p[IF f = F1 THEN 2 ELSE 3] % 8 = 0
        /\ n > 0 =>
              /\ f = F1 => "FUNC" \notin {decode(p[0]), decode(p[1])}
              /\ Fits(f, p[0], n) /\ Fits(f, p[1], n)
              /\ \A i, j \in 0 .. n - 1 : i < j => ~Overwrites(f, p, i, j)

(* Seen by the program, a function is called when it starts to run and     *)
(* returns when it is done; until then the memory is what it was before.   *)
Calls == INSTANCE Offload WITH
    Tasks <- Jobs,
    call <- [f \in Functions |-> IF running(f) THEN {params[f]} ELSE {}],
    mem <- IF \E f \in Functions : running(f) THEN before ELSE memory

-----------------------------------------------------------------------------
(* Type correctness of the device and of the host threads.                 *)
TypeOK ==
    /\ DeviceTypeOK
    /\ hpc \in [Functions -> {"idle", "init", "run", "finish"}]
    /\ hidx \in [Functions -> 0 .. NumParams + 1]
    /\ job \in [Functions -> [ParamIndex -> Nat]]
    /\ before \in [sram : [0 .. SramWords - 1 -> Word], dram : [Addr -> Word]]

EventsOf(f) == {e \in pendingPIMEvents : e.fn = f}

(* The engine of f waits for just the requests of f in flight, and the one *)
(* completion there may be carries the state that follows the present one. *)
WaitMatches(f) ==
    IF dma_state[f] = "WAITING"
    THEN \E e \in EventsOf(f) :
            /\ EventsOf(f) = {e}
            /\ e.next = IF ~e.wr THEN "WRITE"
                        ELSE IF word_counter[f] > 0 THEN "READ" ELSE "DONE"
    ELSE EventsOf(f) = {}

(* An engine that waits has exactly one request in flight, and one that    *)
(* does not wait has none: no completion is lost, none comes to an engine  *)
(* that does not expect it, and none carries the state of another chunk    *)
(* (MemCopy::clock sets WAITING after the request is issued, the           *)
(* completion function sets the next state).                               *)
OneEventPerWait == \A f \in Functions : WaitMatches(f)

(* A function that does not run has left nothing behind: its engine is     *)
(* idle and no request of it is in flight, so that the next run starts     *)
(* from scratch (TCLPIM::clock, FuncState::writeFSM).                      *)
StoppedIsQuiet ==
    \A f \in Functions :
        ~running(f) => dma_state[f] = "IDLE" /\ EventsOf(f) = {}

(* The register protocol keeps in step with the host thread: the function  *)
(* expects the very word the thread stores next, and when it runs it runs  *)
(* with the parameters of the call (FuncState::writeFSM, revpim.h:29-74).  *)
InStep ==
    fault = "none" => \A f \in Functions :
        /\ hpc[f] = "idle" => fstate[f] \in {INVALID, DONE}
        /\ hpc[f] = "init" =>
              IF hidx[f] = 0
              THEN fstate[f] \in {INVALID, DONE}
              ELSE /\ fstate[f] = INITIALIZING
                   /\ counter[f] = hidx[f] - 1
                   /\ counter[f] < NumParams
                   /\ \A i \in 0 .. counter[f] - 1 : params[f][i] = job[f][i]
        /\ hpc[f] = "run" => fstate[f] = READY /\ params[f] = job[f]
        /\ hpc[f] = "finish" =>
              fstate[f] \in {RUNNING, DONE} /\ params[f] = job[f]

(* No assertion of the device or of the host fails, no transfer leaves the *)
(* SRAM array and no fatal call is reached: in particular the buffer has   *)
(* the size of the answer when a read completes (tclpim_functions.cc:92,   *)
(* userpim_functions.cc:44).                                               *)
AssertionsHold == fault = "none"

(* finish() returns: a function that was run is done some day.             *)
FinishReturns ==
    \A f \in Functions : (hpc[f] = "finish") ~> (hpc[f] = "idle")

(* With one call at a time the device implements blocking calls whose      *)
(* effect is the whole transfer and nothing but the transfer, and every    *)
(* call returns.                                                           *)
ImplementsCalls == Calls!Spec
=============================================================================
