------------------------------- MODULE TCLPIM -------------------------------
(***************************************************************************)
(* The PIM device of sstcomp/PIMBackend (tclpim, tclpim_functions and      *)
(* userpim_functions): its two functions, each a register-level state      *)
(* machine (FuncState) in front of a DMA engine (MemCopy at F1,            *)
(* MulVecByScalar at U5), the scratch-pad memory, the one data buffer the  *)
(* engines share, and the DRAM port through which they issue requests.     *)
(*                                                                         *)
(* The simulator runs one handler at a time, so a handler is one action,   *)
(* with one exception: TCLPIM::clock visits the functions in turn, and     *)
(* when both run its visit to U5 is an action of its own.  cursor is U5    *)
(* between the two visits and no other handler may then run.               *)
(*                                                                         *)
(* The memory controller and its backend appear as pendingPIMEvents: a     *)
(* request is issued by adding an event, and is performed and answered,    *)
(* in one handler, at any later time and in any order.                     *)
(*                                                                         *)
(* Words stand for the 8-byte words every transfer is made of; addresses   *)
(* are word addresses (see AddressMap); sizes given by the host are bytes. *)
(***************************************************************************)
EXTENDS AddressMap, Sequences, FiniteSets

CONSTANTS
    NumParams,    (* NUM_FUNC_PARAMS, 8 in the code.                         *)
    ChunkWords,   (* Words one DMA request carries at most, 64 in the code.  *)
    WordMod,      (* Words are integers modulo this, 2^64 in the code.       *)
    MaxAddr,      (* The last word address of the controller's region.       *)
    PimId,        (* The identifier the constructor leaves in sramArray[0].  *)
    BackingInit,  (* What the loader and the host have put in memory.        *)
    EventIds      (* Event identifiers: bounds the requests in flight.       *)

Addr == 0 .. MaxAddr
Word == 0 .. WordMod - 1

(* FUNC_CMD, FSTATE (the host reads these as numbers) and FUNC_NUM.        *)
INIT == 0
RUN == 1
FINISH == 2

INVALID == 0
INITIALIZING == 1
READY == 2
RUNNING == 3
DONE == 4

F1 == 1
U5 == 13
Functions == {F1, U5}
ParamIndex == 0 .. NumParams - 1

ASSUME TCLPIMAssumption ==
    /\ NumParams \in Nat /\ NumParams >= 4
    /\ ChunkWords \in Nat \ {0}
    /\ WordMod \in Nat /\ WordMod > DONE
    /\ MaxAddr \in Nat
    /\ PimId \in Word
    /\ BackingInit \in [Addr -> Word]

VARIABLES
    fstate, counter, params,        (* FuncState, per function               *)
    dma_state, word_counter,        (* MemCopy and MulVecByScalar,           *)
    src, dst,                       (* per function                          *)
    scalar,                         (* MulVecByScalar only                   *)
    src_is_sram, dst_is_sram,       (* MemCopy only                          *)
    buffer,                         (* PIM::buffer, shared by the engines    *)
    sramArray,                      (* the scratch-pad                       *)
    backing,                        (* the controller's backing store        *)
    pendingPIMEvents,               (* DRAM requests issued, not completed   *)
    cursor,                         (* where TCLPIM::clock's loop stands     *)
    fault                           (* how the simulation aborted, or "none" *)

fsmVars == <<fstate, counter, params>>
dmaVars == <<dma_state, word_counter, src, dst, scalar, src_is_sram,
             dst_is_sram>>
deviceVars == <<fsmVars, dmaVars, buffer, sramArray, backing,
                pendingPIMEvents, cursor, fault>>

(* A DRAM request in flight.  data is the event's payload, for a read only *)
(* its length counts; next is the state the completion moves the engine to.*)
Event == [id : EventIds, fn : Functions, wr : BOOLEAN, addr : Nat,
          data : Seq(Word), next : {"READ", "WRITE", "DONE"}]

DeviceInit ==
    /\ fstate = [f \in Functions |-> INVALID]
    /\ counter = [f \in Functions |-> 0]
    /\ params = [f \in Functions |-> [i \in ParamIndex |-> 0]]
    /\ dma_state = [f \in Functions |-> "IDLE"]
    /\ word_counter = [f \in Functions |-> 0]
    /\ src = [f \in Functions |-> 0]
    /\ dst = [f \in Functions |-> 0]
    /\ scalar = 0
    /\ src_is_sram = FALSE
    /\ dst_is_sram = FALSE
    /\ buffer = << >>
    /\ sramArray = [i \in 0 .. SramWords - 1 |-> IF i = 0 THEN PimId ELSE 0]
    /\ backing = BackingInit
    /\ pendingPIMEvents = {}
    /\ cursor = F1
    /\ fault = "none"

(* An assertion, a fatal call or undefined behaviour ends the simulation:  *)
(* nothing else of the state matters after it, and no action is enabled.   *)
Abort(why) ==
    /\ fault' = why
    /\ UNCHANGED <<fsmVars, dmaVars, buffer, sramArray, backing,
                   pendingPIMEvents, cursor>>

(* The event loop may deliver an MMIO access or a completion, or tick.     *)
BetweenHandlers == fault = "none" /\ cursor = F1

-----------------------------------------------------------------------------
(* Starting a function: MemCopy::start and MulVecByScalar::start.          *)

numBytes(f) == params[f][IF f = F1 THEN 2 ELSE 3]

(* assert((numBytes%8)==0) and MemCopy's two fatal calls.                  *)
StartFault(f) ==
    /\ numBytes(f) # 0
    /\ \/ numBytes(f) % 8 # 0
       \/ f = F1 /\ "FUNC" \in {decode(params[F1][0]), decode(params[F1][1])}

(* A transfer of no bytes returns at once and leaves the engine as it was. *)
start(f) ==
    IF numBytes(f) = 0
    THEN UNCHANGED dmaVars
    ELSE /\ dst' = [dst EXCEPT ![f] = params[f][0]]
         /\ src' = [src EXCEPT ![f] = params[f][1]]
         /\ word_counter' = [word_counter EXCEPT ![f] = numBytes(f) \div 8]
         /\ dma_state' = [dma_state EXCEPT ![f] = "READ"]
         /\ scalar' = IF f = U5 THEN params[U5][2] ELSE scalar
         /\ IF f = F1
            THEN /\ dst_is_sram' = (decode(params[F1][0]) = "SRAM")
                 /\ src_is_sram' = (decode(params[F1][1]) = "SRAM")
            ELSE UNCHANGED <<src_is_sram, dst_is_sram>>

-----------------------------------------------------------------------------
(* FuncState::writeFSM: a word d written to the register of function f.    *)

WriteInit(f, d) ==
    /\ fstate[f] \in {DONE, INVALID}
    /\ IF d = INIT
       THEN /\ fstate' = [fstate EXCEPT ![f] = INITIALIZING]
            /\ counter' = [counter EXCEPT ![f] = 0]
            /\ UNCHANGED <<params, dmaVars, fault>>
       ELSE fault' = "assert" /\ UNCHANGED <<fsmVars, dmaVars>>

(* Mutant: one parameter too many is expected.                             *)
WriteParam_LateReady(f, d) ==
    /\ fstate[f] = INITIALIZING
    /\ params' = [params EXCEPT ![f][counter[f]] = d]
    /\ counter' = [counter EXCEPT ![f] = @ + 1]
    /\ fstate' = [fstate EXCEPT ![f] =
                    IF counter[f] = NumParams THEN READY ELSE @]
    /\ UNCHANGED <<dmaVars, fault>>

WriteParam(f, d) ==
    /\ fstate[f] = INITIALIZING
    /\ params' = [params EXCEPT ![f][counter[f]] = d]
    /\ counter' = [counter EXCEPT ![f] = @ + 1]
    /\ fstate' = [fstate EXCEPT ![f] =
                    IF counter[f] + 1 = NumParams THEN READY ELSE @]
    /\ UNCHANGED <<dmaVars, fault>>

WriteRun(f, d) ==
    /\ fstate[f] = READY
    /\ IF d # RUN \/ StartFault(f)
       THEN fault' = "assert" /\ UNCHANGED <<fsmVars, dmaVars>>
       ELSE /\ fstate' = [fstate EXCEPT ![f] = RUNNING]
            /\ counter' = [counter EXCEPT ![f] = 0]
            /\ start(f)
            /\ UNCHANGED <<params, fault>>

(* Whatever is written to a running function ends it, its engine or not.   *)
WriteFinish(f) ==
    /\ fstate[f] = RUNNING
    /\ fstate' = [fstate EXCEPT ![f] = DONE]
    /\ counter' = [counter EXCEPT ![f] = 0]
    /\ UNCHANGED <<params, dmaVars, fault>>

writeFSM(f, d) ==
    \/ WriteInit(f, d)
    \/ WriteParam(f, d)
    \/ WriteRun(f, d)
    \/ WriteFinish(f)

(* FuncState::readFSM.                                                     *)
readFSM(f) == fstate[f]

-----------------------------------------------------------------------------
(* TCLPIM::read and TCLPIM::write.  Only the first word of an access to    *)
(* the SRAM is reduced to an index; the words that follow it run past the  *)
(* end of sramArray if there are too many of them.                         *)

SpdFits(a, n) == spdIndex(a) + n <= SramWords

(* An unassigned function is a null pointer, a longer access an assertion. *)
FuncAccessOk(a, n) == n = 1 /\ decodeFuncNum(a) \in Functions

ReadOk(a, n) ==
    IF decode(a) = "SRAM" THEN SpdFits(a, n) ELSE FuncAccessOk(a, n)

read(a, n) ==
    IF decode(a) = "SRAM"
    THEN [i \in 1 .. n |-> sramArray[spdIndex(a) + i - 1]]
    ELSE [i \in 1 .. n |-> readFSM(decodeFuncNum(a))]

(* The SRAM case of TCLPIM::write, for a whole chunk.                      *)
SpdWrite(a, data) ==
    [k \in DOMAIN sramArray |->
        IF k \in spdIndex(a) .. spdIndex(a) + Len(data) - 1
        THEN data[k - spdIndex(a) + 1]
        ELSE sramArray[k]]

(* An 8-byte store of the host to an MMIO address.                         *)
write(a, d) ==
    \/ /\ decode(a) = "SRAM"
       /\ sramArray' = SpdWrite(a, <<d>>)
       /\ UNCHANGED <<fsmVars, dmaVars, buffer, backing, pendingPIMEvents,
                      cursor, fault>>
    \/ /\ decode(a) = "FUNC"
       /\ decodeFuncNum(a) \in Functions
       /\ writeFSM(decodeFuncNum(a), d)
       /\ UNCHANGED <<buffer, sramArray, backing, pendingPIMEvents, cursor>>
    \/ /\ \/ decode(a) \in {"DRAM", "NONE"}
          \/ decode(a) = "FUNC" /\ decodeFuncNum(a) \notin Functions
       /\ Abort("assert")

-----------------------------------------------------------------------------
(* The engines: MemCopy::clock and MulVecByScalar::clock.  Every visit     *)
(* first resizes the shared buffer to the size of the engine's next chunk. *)

running(f) == fstate[f] = RUNNING

(* Mutant: a chunk is all that is left.                                    *)
words_All(f) == word_counter[f]

words(f) == IF word_counter[f] >= ChunkWords THEN ChunkWords
                                             ELSE word_counter[f]

Resized(n) == [i \in 1 .. n |-> IF i <= Len(buffer) THEN buffer[i] ELSE 0]

(* TCLPIM::clock's loop goes on to the next function that is running.      *)
Advance(f) == cursor' = IF f = F1 /\ running(U5) THEN U5 ELSE F1

(* PIMBackend::issueDRAMRequest: the event takes a copy of the buffer.  A  *)
(* request that starts outside the region of the controller is fatal; where*)
(* it ends nobody looks.                                                   *)
InRegion(a) == a \in Addr

issueDRAMRequest(f, isWrite, a, next) ==
    \E i \in EventIds \ {e.id : e \in pendingPIMEvents} :
        pendingPIMEvents' = pendingPIMEvents \cup
            {[id |-> i, fn |-> f, wr |-> isWrite, addr |-> a,
              data |-> Resized(words(f)), next |-> next]}

ReadsSram(f) == f = F1 /\ src_is_sram
WritesSram(f) == f = F1 /\ dst_is_sram

(* case READ of an engine whose source is DRAM.                            *)
IssueRead(f) ==
    /\ dma_state[f] = "READ" /\ ~ReadsSram(f)
    /\ IF InRegion(src[f])
       THEN /\ issueDRAMRequest(f, FALSE, src[f], "WRITE")
            /\ buffer' = Resized(words(f))
            /\ dma_state' = [dma_state EXCEPT ![f] = "WAITING"]
            /\ src' = [src EXCEPT ![f] = @ + words(f)]
            /\ Advance(f)
            /\ UNCHANGED <<fsmVars, word_counter, dst, scalar, src_is_sram,
                           dst_is_sram, sramArray, backing, fault>>
       ELSE Abort("fatal")

(* case READ of MemCopy when the source is the SRAM.                       *)
ReadSram(f) ==
    /\ dma_state[f] = "READ" /\ ReadsSram(f)
    /\ IF ReadOk(src[f], words(f))
       THEN /\ buffer' = read(src[f], words(f))
            /\ dma_state' = [dma_state EXCEPT ![f] = "WRITE"]
            /\ src' = [src EXCEPT ![f] = @ + words(f)]
            /\ Advance(f)
            /\ UNCHANGED <<fsmVars, word_counter, dst, scalar, src_is_sram,
                           dst_is_sram, sramArray, backing,
                           pendingPIMEvents, fault>>
       ELSE Abort("overrun")

(* Mutant: the counter is tested before the chunk is taken off it.         *)
nextState_Early(f) == IF word_counter[f] > 0 THEN "READ" ELSE "DONE"

(* The state that follows the transfer of a chunk.                         *)
nextState(f) == IF word_counter[f] - words(f) > 0 THEN "READ" ELSE "DONE"

(* case WRITE of an engine whose destination is DRAM.                      *)
IssueWrite(f) ==
    /\ dma_state[f] = "WRITE" /\ ~WritesSram(f)
    /\ IF InRegion(dst[f])
       THEN /\ issueDRAMRequest(f, TRUE, dst[f], nextState(f))
            /\ buffer' = Resized(words(f))
            /\ dma_state' = [dma_state EXCEPT ![f] = "WAITING"]
            /\ word_counter' = [word_counter EXCEPT ![f] = @ - words(f)]
            /\ dst' = [dst EXCEPT ![f] = @ + words(f)]
            /\ Advance(f)
            /\ UNCHANGED <<fsmVars, src, scalar, src_is_sram, dst_is_sram,
                           sramArray, backing, fault>>
       ELSE Abort("fatal")

(* case WRITE of MemCopy when the destination is the SRAM.                 *)
WriteSram(f) ==
    /\ dma_state[f] = "WRITE" /\ WritesSram(f)
    /\ IF decode(dst[f]) = "SRAM" /\ SpdFits(dst[f], words(f))
       THEN /\ buffer' = Resized(words(f))
            /\ sramArray' = SpdWrite(dst[f], Resized(words(f)))
            /\ dma_state' = [dma_state EXCEPT ![f] = nextState(f)]
            /\ word_counter' = [word_counter EXCEPT ![f] = @ - words(f)]
            /\ dst' = [dst EXCEPT ![f] = @ + words(f)]
            /\ Advance(f)
            /\ UNCHANGED <<fsmVars, src, scalar, src_is_sram, dst_is_sram,
                           backing, pendingPIMEvents, fault>>
       ELSE Abort("overrun")

(* Mutants: FINISH is written to the first function, or to none.           *)
FinishFunction_First(f) ==
    /\ fstate' = [fstate EXCEPT ![F1] = DONE]
    /\ counter' = [counter EXCEPT ![F1] = 0]
FinishFunction_Lost(f) == UNCHANGED <<fstate, counter>>

(* TCLPIM::clock writes FINISH to a function whose engine reports its end. *)
FinishFunction(f) ==
    /\ fstate' = [fstate EXCEPT ![f] = DONE]
    /\ counter' = [counter EXCEPT ![f] = 0]

(* case DONE.  TCLPIM::clock returns without visiting the functions after. *)
EngineDone(f) ==
    /\ dma_state[f] = "DONE"
    /\ dma_state' = [dma_state EXCEPT ![f] = "IDLE"]
    /\ buffer' = Resized(words(f))
    /\ FinishFunction(f)
    /\ cursor' = F1
    /\ UNCHANGED <<params, word_counter, src, dst, scalar, src_is_sram,
                   dst_is_sram, sramArray, backing, pendingPIMEvents, fault>>

(* IDLE and WAITING: nothing to do but the resize.                         *)
EngineWait(f) ==
    /\ dma_state[f] \in {"IDLE", "WAITING"}
    /\ buffer' = Resized(words(f))
    /\ Advance(f)
    /\ UNCHANGED <<fsmVars, dmaVars, sramArray, backing, pendingPIMEvents,
                   fault>>

(* One visit of TCLPIM::clock to a running function.  The visit to U5      *)
(* starts the loop when F1 is not running.                                 *)
clock(f) ==
    /\ fault = "none"
    /\ running(f)
    /\ cursor = f \/ ~running(cursor)
    /\ \/ IssueRead(f)
       \/ ReadSram(f)
       \/ IssueWrite(f)
       \/ WriteSram(f)
       \/ EngineDone(f)
       \/ EngineWait(f)

-----------------------------------------------------------------------------
(* The controller performs a request on its backing store and hands the    *)
(* answer to the completion function the engine gave with it.              *)

Span(e) == e.addr .. e.addr + Len(e.data) - 1

Response(e) == [i \in 1 .. Len(e.data) |-> backing[e.addr + i - 1]]

Stored(e) == [a \in Addr |-> IF a \in Span(e) THEN e.data[a - e.addr + 1]
                                              ELSE backing[a]]

(* Mutant: the products are computed from the buffer, not from the data.   *)
Received_FromBuffer(e) ==
    IF e.fn = F1 THEN Response(e)
    ELSE [i \in 1 .. Len(e.data) |-> (scalar * buffer[i]) % WordMod]

(* MemCopy's completion stores the data, MulVecByScalar's their products.  *)
Received(e) ==
    IF e.fn = F1 THEN Response(e)
    ELSE [i \in 1 .. Len(e.data) |-> (scalar * Response(e)[i]) % WordMod]

CompleteRead(e) ==
    /\ ~e.wr
    /\ IF Len(buffer) = Len(e.data)
       THEN /\ buffer' = Received(e)
            /\ dma_state' = [dma_state EXCEPT ![e.fn] = e.next]
            /\ pendingPIMEvents' = pendingPIMEvents \ {e}
            /\ UNCHANGED <<fsmVars, word_counter, src, dst, scalar,
                           src_is_sram, dst_is_sram, sramArray, backing,
                           cursor, fault>>
       ELSE Abort("assert")

CompleteWrite(e) ==
    /\ e.wr
    /\ backing' = Stored(e)
    /\ dma_state' = [dma_state EXCEPT ![e.fn] = e.next]
    /\ pendingPIMEvents' = pendingPIMEvents \ {e}
    /\ UNCHANGED <<fsmVars, word_counter, src, dst, scalar, src_is_sram,
                   dst_is_sram, buffer, sramArray, cursor, fault>>

(* A request that goes on beyond the region leaves the backing store.      *)
handlePIMCompletion(e) ==
    /\ BetweenHandlers
    /\ IF Span(e) \subseteq Addr
       THEN CompleteRead(e) \/ CompleteWrite(e)
       ELSE Abort("overrun")

-----------------------------------------------------------------------------
DeviceTypeOK ==
    /\ fstate \in [Functions -> {INVALID, INITIALIZING, READY, RUNNING, DONE}]
    /\ counter \in [Functions -> 0 .. NumParams]
    /\ params \in [Functions -> [ParamIndex -> Nat]]
    /\ dma_state \in
          [Functions -> {"IDLE", "READ", "WRITE", "WAITING", "DONE"}]
    /\ word_counter \in [Functions -> Nat]
    /\ src \in [Functions -> Nat]
    /\ dst \in [Functions -> Nat]
    /\ scalar \in Nat
    /\ src_is_sram \in BOOLEAN
    /\ dst_is_sram \in BOOLEAN
    /\ buffer \in Seq(Word)
    /\ sramArray \in [0 .. SramWords - 1 -> Word]
    /\ backing \in [Addr -> Word]
    /\ pendingPIMEvents \subseteq Event
    /\ cursor \in Functions
    /\ fault \in {"none", "assert", "fatal", "overrun"}
=============================================================================
