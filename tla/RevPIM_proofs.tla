--------------------------- MODULE RevPIM_proofs ----------------------------
(***************************************************************************)
(* Proofs about RevPIM, for every value of its constants: type             *)
(* correctness, and that the engines, the requests in flight, the register *)
(* protocol and the host threads stay in step, whether the calls of the    *)
(* functions overlap or not; and that with one call at a time no assertion *)
(* fails and the device implements blocking calls (Offload).               *)
(***************************************************************************)
EXTENDS RevPIM, SequenceTheorems, DataLemmas, TLAPS

USE AddressMapAssumption, TCLPIMAssumption, RevPIMAssumption

-----------------------------------------------------------------------------
(* Facts about the operators the device is built from.                     *)

(* A function on 1 .. n is a sequence of length n.                         *)
LEMMA FunctionIsSeq ==
    ASSUME NEW S, NEW n \in Nat, NEW g \in [1 .. n -> S]
    PROVE  g \in Seq(S) /\ Len(g) = n
BY SeqDef

(* The register of a function decodes to that function (AddressMap).       *)
LEMMA RegisterDecodes ==
    ASSUME NEW f \in Functions
    PROVE  decode(func(f)) = "FUNC" /\ decodeFuncNum(func(f)) = f
<1>1. f \in 1 .. NUM_FUNCS - 1
    BY DEF Functions, F1, U5, NUM_FUNCS
<1>2. decodeFuncNum(func(f)) = f
    BY <1>1 DEF decodeFuncNum, func, NUM_FUNCS
<1>3. ~InSegment(DramBase, func(f)) /\ ~InSegment(SramBase, func(f))
    BY <1>1 DEF InSegment, func, NUM_FUNCS
<1>4. InSegment(FuncBase, func(f))
    BY <1>1 DEF InSegment, func, NUM_FUNCS, SEG_SIZE
<1> QED
    BY <1>2, <1>3, <1>4 DEF decode

(* A store of the host to that register is a write to the function's state *)
(* machine and nothing else (TCLPIM::write).                               *)
LEMMA RegisterWrite ==
    ASSUME NEW f \in Functions, NEW d, write(func(f), d)
    PROVE  /\ writeFSM(f, d)
           /\ UNCHANGED <<buffer, sramArray, backing, pendingPIMEvents, cursor>>
BY RegisterDecodes DEF write, Functions

(* The buffer after resize() has the size asked for (std::vector::resize). *)
LEMMA ResizedType ==
    ASSUME NEW n \in Nat, buffer \in Seq(Word)
    PROVE  Resized(n) \in Seq(Word) /\ Len(Resized(n)) = n
<1>1. 0 \in Word
    BY DEF Word, DONE
<1>2. \A i \in 1 .. Len(buffer) : buffer[i] \in Word
    BY ElementOfSeq
<1>3. Len(buffer) \in Nat
    BY LenProperties
<1>4. Resized(n) \in [1 .. n -> Word]
    BY <1>1, <1>2, <1>3 DEF Resized
<1> QED
    BY <1>4, FunctionIsSeq

(* The chunk is a part of what is left of the transfer (MemCopy::clock).   *)
LEMMA WordsType ==
    ASSUME NEW f \in Functions, word_counter[f] \in Nat
    PROVE  words(f) \in Nat /\ word_counter[f] - words(f) \in Nat
BY DEF words

(* An index into sramArray is within its bounds (TCLPIM::read).            *)
LEMMA SpdIndexType ==
    ASSUME NEW a \in Nat
    PROVE  spdIndex(a) \in 0 .. SramWords - 1
BY DEF spdIndex

-----------------------------------------------------------------------------
(* The inductive invariant.  OneEventPerWait alone is not inductive: that  *)
(* start() does not disturb a waiting engine needs StoppedIsQuiet, and     *)
(* that a function which does not run is never ended needs InStep.         *)
IInv ==
    /\ TypeOK
    /\ OneEventPerWait
    /\ StoppedIsQuiet
    /\ InStep

LEMMA InitIInv == Init => IInv
<1> SUFFICES ASSUME Init PROVE IInv
    OBVIOUS
<1> USE DEF Init, DeviceInit, memory
<1>1. TypeOK
    <2>1. 0 \in Word /\ << >> \in Seq(Word)
        BY EmptySeq DEF Word, DONE
    <2>2. /\ sramArray \in [0 .. SramWords - 1 -> Word]
          /\ backing \in [Addr -> Word]
        BY <2>1
    <2>3. DeviceTypeOK
        <3>1. F1 \in Functions
            BY DEF Functions
        <3>2. /\ counter \in [Functions -> 0 .. NumParams]
              /\ params \in [Functions -> [ParamIndex -> Nat]]
            OBVIOUS
        <3>3. /\ fstate \in [Functions -> {INVALID, INITIALIZING, READY,
                                           RUNNING, DONE}]
              /\ dma_state \in [Functions -> {"IDLE", "READ", "WRITE",
                                              "WAITING", "DONE"}]
            OBVIOUS
        <3>4. /\ word_counter \in [Functions -> Nat]
              /\ src \in [Functions -> Nat]
              /\ dst \in [Functions -> Nat]
              /\ scalar \in Nat
              /\ src_is_sram \in BOOLEAN
              /\ dst_is_sram \in BOOLEAN
            OBVIOUS
        <3>5. /\ pendingPIMEvents \subseteq Event
              /\ fault \in {"none", "assert", "fatal", "overrun"}
            OBVIOUS
        <3> QED
            BY <2>1, <2>2, <3>1, <3>2, <3>3, <3>4, <3>5 DEF DeviceTypeOK
    <2>4. before \in [sram : [0 .. SramWords - 1 -> Word], dram : [Addr -> Word]]
        BY <2>2
    <2> QED
        <3>1. /\ hpc \in [Functions -> {"idle", "init", "run", "finish"}]
              /\ hidx \in [Functions -> 0 .. NumParams + 1]
              /\ job \in [Functions -> [ParamIndex -> Nat]]
            OBVIOUS
        <3> QED
            BY <2>3, <2>4, <3>1 DEF TypeOK
<1>3. OneEventPerWait
    BY DEF OneEventPerWait, WaitMatches, EventsOf
<1>4. StoppedIsQuiet
    BY DEF StoppedIsQuiet, EventsOf
<1>5. InStep
    BY DEF InStep
<1> QED
    BY <1>1, <1>3, <1>4, <1>5 DEF IInv

(* The end of the simulation changes nothing the invariant speaks of.      *)
LEMMA AbortIInv ==
    ASSUME IInv, NEW why \in {"assert", "fatal", "overrun"}, Abort(why),
           UNCHANGED hostVars
    PROVE  IInv'
<1> USE DEF Abort, fsmVars, dmaVars, hostVars, IInv
<1>1. TypeOK'
    BY DEF TypeOK, DeviceTypeOK
<1>3. OneEventPerWait'
    BY DEF OneEventPerWait, WaitMatches, EventsOf
<1>4. StoppedIsQuiet'
    BY DEF StoppedIsQuiet, EventsOf, running
<1>5. InStep'
    BY DEF InStep
<1> QED
    BY <1>1, <1>3, <1>4, <1>5

(* A request for the next chunk of f: exactly one event of f is added, it  *)
(* is typed and it lies in the region (PIMBackend::issueDRAMRequest).      *)
LEMMA IssueAdds ==
    ASSUME TypeOK, NEW f \in Functions, NEW wr \in BOOLEAN,
           NEW a \in Nat, NEW next \in {"READ", "WRITE", "DONE"},
           issueDRAMRequest(f, wr, a, next),
           EventsOf(f) = {}
    PROVE  /\ pendingPIMEvents' \subseteq Event
           /\ \E e \in pendingPIMEvents' :
                 EventsOf(f)' = {e} /\ e.next = next /\ (e.wr <=> wr)
           /\ \A g \in Functions \ {f} : EventsOf(g)' = EventsOf(g)
<1>1. words(f) \in Nat
    BY WordsType DEF TypeOK, DeviceTypeOK
<1>2. Resized(words(f)) \in Seq(Word) /\ Len(Resized(words(f))) = words(f)
    BY <1>1, ResizedType DEF TypeOK, DeviceTypeOK
<1>3. PICK i \in EventIds :
        pendingPIMEvents' = pendingPIMEvents \cup
            {[id |-> i, fn |-> f, wr |-> wr, addr |-> a,
              data |-> Resized(words(f)), next |-> next]}
    BY DEF issueDRAMRequest
<1> DEFINE new == [id |-> i, fn |-> f, wr |-> wr, addr |-> a,
                   data |-> Resized(words(f)), next |-> next]
<1>5. new \in Event
    BY <1>2 DEF Event
<1>6. pendingPIMEvents' \subseteq Event
    BY <1>3, <1>5 DEF TypeOK, DeviceTypeOK
<1>8. EventsOf(f)' = {new}
    BY <1>3 DEF EventsOf
<1>9. \A g \in Functions \ {f} : EventsOf(g)' = EventsOf(g)
    BY <1>3 DEF EventsOf
<1>10. \E e \in pendingPIMEvents' :
          EventsOf(f)' = {e} /\ e.next = next /\ (e.wr <=> wr)
    <2>1. new \in pendingPIMEvents' /\ new.next = next /\ (new.wr <=> wr)
        BY <1>3
    <2> QED
        BY <1>8, <2>1
<1> QED
    BY <1>6, <1>9, <1>10

-----------------------------------------------------------------------------
(* The clock.                                                              *)

(* What the visits to an engine have in common: they concern one running   *)
(* function and leave the register protocol and the host alone.            *)
LEMMA EngineStep ==
    ASSUME IInv, NEW f \in Functions, running(f),
           UNCHANGED <<fsmVars, hostVars, fault>>,
           DeviceTypeOK', WaitMatches(f)',
           \A g \in Functions \ {f} :
              /\ dma_state'[g] = dma_state[g]
              /\ word_counter'[g] = word_counter[g]
              /\ EventsOf(g)' = EventsOf(g)
    PROVE  IInv'
<1> USE DEF fsmVars, hostVars, IInv
<1>1. TypeOK'
    BY DEF TypeOK
<1>2. OneEventPerWait'
    <2> SUFFICES ASSUME NEW g \in Functions PROVE WaitMatches(g)'
        BY DEF OneEventPerWait
    <2>1. CASE g = f
        BY <2>1
    <2>2. CASE g # f
        BY <2>2 DEF OneEventPerWait, WaitMatches
    <2> QED
        BY <2>1, <2>2
<1>3. StoppedIsQuiet'
    BY DEF StoppedIsQuiet, running
<1>4. InStep'
    BY DEF InStep
<1> QED
    BY <1>1, <1>2, <1>3, <1>4

(* A visit that issues no request leaves the events as they are.           *)
LEMMA QuietEvents ==
    ASSUME UNCHANGED pendingPIMEvents
    PROVE  \A f \in Functions : EventsOf(f)' = EventsOf(f)
BY DEF EventsOf

(* The loop of TCLPIM::clock stays within the functions.                   *)
LEMMA AdvanceType ==
    ASSUME NEW f \in Functions, Advance(f)
    PROVE  cursor' \in Functions
BY DEF Advance, Functions

(* Case READ of an engine whose source is DRAM: it now waits for the one    *)
(* request it has issued.                                                  *)
LEMMA IssueReadIInv ==
    ASSUME IInv, NEW f \in Functions, running(f), IssueRead(f),
           UNCHANGED hostVars
    PROVE  IInv'
<1>. /\ TypeOK /\ OneEventPerWait /\ DeviceTypeOK
    BY DEF IInv, TypeOK
<1>0. /\ src \in [Functions -> Nat] /\ dst \in [Functions -> Nat]
      /\ word_counter \in [Functions -> Nat]
      /\ dma_state \in [Functions -> {"IDLE", "READ", "WRITE", "WAITING",
                                       "DONE"}]
    BY DEF DeviceTypeOK
<1>1. CASE ~InRegion(src[f])
    BY <1>1, AbortIInv DEF IssueRead
<1>2. CASE InRegion(src[f])
    <2>1. /\ dma_state[f] = "READ"
          /\ issueDRAMRequest(f, FALSE, src[f], "WRITE")
          /\ buffer' = Resized(words(f))
          /\ dma_state' = [dma_state EXCEPT ![f] = "WAITING"]
          /\ src' = [src EXCEPT ![f] = @ + words(f)]
          /\ Advance(f)
          /\ UNCHANGED <<fsmVars, word_counter, dst, scalar, src_is_sram,
                         dst_is_sram, sramArray, backing, fault>>
        BY <1>2 DEF IssueRead
    <2>2. EventsOf(f) = {} /\ src[f] \in Nat /\ dst[f] \in Nat
        BY <2>1 DEF OneEventPerWait, WaitMatches, DeviceTypeOK
    <2>3. /\ pendingPIMEvents' \subseteq Event
          /\ \E e \in pendingPIMEvents' :
                EventsOf(f)' = {e} /\ e.next = "WRITE" /\ ~e.wr
          /\ \A g \in Functions \ {f} : EventsOf(g)' = EventsOf(g)
        BY <1>2, <2>1, <2>2, IssueAdds
    <2>4. words(f) \in Nat
        BY WordsType DEF DeviceTypeOK
    <2>5. DeviceTypeOK'
        <3>1. buffer' \in Seq(Word) /\ cursor' \in Functions
            BY <2>1, <2>4, ResizedType, AdvanceType DEF DeviceTypeOK
        <3>2. /\ src' \in [Functions -> Nat]
              /\ dma_state' \in [Functions -> {"IDLE", "READ", "WRITE",
                                               "WAITING", "DONE"}]
            BY <1>0, <2>1, <2>4
        <3> QED
            BY <2>1, <2>3, <3>1, <3>2 DEF fsmVars, DeviceTypeOK
    <2>6. WaitMatches(f)'
        BY <2>1, <2>3 DEF WaitMatches, DeviceTypeOK
    <2> QED
        BY <2>1, <2>3, <2>5, <2>6, EngineStep DEF DeviceTypeOK
<1> QED
    BY <1>1, <1>2

(* Case WRITE of an engine whose destination is DRAM: the request carries  *)
(* the state that follows the chunk, and what is left agrees with it.      *)
LEMMA IssueWriteIInv ==
    ASSUME IInv, NEW f \in Functions, running(f), IssueWrite(f),
           UNCHANGED hostVars
    PROVE  IInv'
<1>. /\ TypeOK /\ OneEventPerWait /\ DeviceTypeOK
    BY DEF IInv, TypeOK
<1>0. /\ src \in [Functions -> Nat] /\ dst \in [Functions -> Nat]
      /\ word_counter \in [Functions -> Nat]
      /\ dma_state \in [Functions -> {"IDLE", "READ", "WRITE", "WAITING",
                                       "DONE"}]
    BY DEF DeviceTypeOK
<1>1. CASE ~InRegion(dst[f])
    BY <1>1, AbortIInv DEF IssueWrite
<1>2. CASE InRegion(dst[f])
    <2>1. /\ dma_state[f] = "WRITE"
          /\ issueDRAMRequest(f, TRUE, dst[f], nextState(f))
          /\ buffer' = Resized(words(f))
          /\ dma_state' = [dma_state EXCEPT ![f] = "WAITING"]
          /\ word_counter' = [word_counter EXCEPT ![f] = @ - words(f)]
          /\ dst' = [dst EXCEPT ![f] = @ + words(f)]
          /\ Advance(f)
          /\ UNCHANGED <<fsmVars, src, scalar, src_is_sram, dst_is_sram,
                         sramArray, backing, fault>>
        BY <1>2 DEF IssueWrite
    <2>2. EventsOf(f) = {} /\ src[f] \in Nat /\ dst[f] \in Nat
        BY <2>1 DEF OneEventPerWait, WaitMatches, DeviceTypeOK
    <2>3. nextState(f) \in {"READ", "WRITE", "DONE"} /\ TRUE \in BOOLEAN
        BY DEF nextState
    <2>4. /\ pendingPIMEvents' \subseteq Event
          /\ \E e \in pendingPIMEvents' :
                EventsOf(f)' = {e} /\ e.next = nextState(f) /\ e.wr
          /\ \A g \in Functions \ {f} : EventsOf(g)' = EventsOf(g)
        <3>1. issueDRAMRequest(f, TRUE, dst[f], nextState(f))
            BY <2>1
        <3> DEFINE next == nextState(f)
        <3>3. \A t \in BOOLEAN : issueDRAMRequest(f, t, dst[f], next) =>
                 /\ pendingPIMEvents' \subseteq Event
                 /\ \E e \in pendingPIMEvents' :
                       EventsOf(f)' = {e} /\ e.next = next /\ (e.wr <=> t)
                 /\ \A g \in Functions \ {f} : EventsOf(g)' = EventsOf(g)
            <4> HIDE DEF next
            <4>1. next \in {"READ", "WRITE", "DONE"}
                BY <2>3 DEF next
            <4> QED
                BY <1>2, <2>2, <4>1, IssueAdds
        <3> QED
            BY <2>3, <3>1, <3>3
    <2>5. words(f) \in Nat /\ word_counter[f] - words(f) \in Nat
        BY WordsType DEF DeviceTypeOK
    <2>6. DeviceTypeOK'
        <3>1. buffer' \in Seq(Word) /\ cursor' \in Functions
            BY <2>1, <2>5, ResizedType, AdvanceType DEF DeviceTypeOK
        <3>2. /\ word_counter' \in [Functions -> Nat]
              /\ dst' \in [Functions -> Nat]
              /\ dma_state' \in [Functions -> {"IDLE", "READ", "WRITE",
                                               "WAITING", "DONE"}]
            BY <1>0, <2>1, <2>5
        <3> QED
            BY <2>1, <2>4, <3>1, <3>2 DEF fsmVars, DeviceTypeOK
    <2>7. WaitMatches(f)'
        <3>1. /\ dma_state'[f] = "WAITING"
              /\ word_counter'[f] = word_counter[f] - words(f)
            BY <2>1 DEF DeviceTypeOK
        <3> QED
            BY <2>4, <3>1 DEF WaitMatches, nextState
    <2> QED
        BY <2>1, <2>4, <2>6, <2>7, EngineStep DEF DeviceTypeOK
<1> QED
    BY <1>1, <1>2

(* What TCLPIM::read delivers of the SRAM, or of a register, is words.     *)
LEMMA ReadType ==
    ASSUME DeviceTypeOK, NEW a \in Nat, NEW n \in Nat, ReadOk(a, n)
    PROVE  read(a, n) \in Seq(Word)
<1>1. CASE decode(a) = "SRAM"
    <2>1. spdIndex(a) \in 0 .. SramWords - 1 /\ spdIndex(a) + n <= SramWords
        <3>1. SpdFits(a, n)
            BY <1>1 DEF ReadOk
        <3> QED
            BY <3>1, SpdIndexType DEF SpdFits
    <2>2. \A i \in 1 .. n : sramArray[spdIndex(a) + i - 1] \in Word
        BY <2>1 DEF DeviceTypeOK
    <2>3. read(a, n) \in [1 .. n -> Word]
        BY <1>1, <2>2 DEF read
    <2> QED
        BY <2>3, FunctionIsSeq
<1>2. CASE decode(a) # "SRAM"
    <2>1. readFSM(decodeFuncNum(a)) \in Word
        <3>1. fstate \in [Functions -> {INVALID, INITIALIZING, READY,
                                        RUNNING, DONE}]
            BY DEF DeviceTypeOK
        <3>2. decodeFuncNum(a) \in Functions
            BY <1>2 DEF ReadOk, FuncAccessOk
        <3>3. 0 .. DONE \subseteq Word
            BY DEF Word, DONE
        <3>4. {INVALID, INITIALIZING, READY, RUNNING, DONE} \subseteq 0 .. DONE
            BY DEF INVALID, INITIALIZING, READY, RUNNING, DONE
        <3> QED
            BY <3>1, <3>2, <3>3, <3>4 DEF readFSM
    <2>2. read(a, n) \in [1 .. n -> Word]
        BY <1>2, <2>1 DEF read
    <2> QED
        BY <2>2, FunctionIsSeq
<1> QED
    BY <1>1, <1>2

(* A write into the SRAM stores words and keeps the size of the array.     *)
LEMMA SpdWriteType ==
    ASSUME DeviceTypeOK, NEW a \in Nat, NEW data \in Seq(Word)
    PROVE  SpdWrite(a, data) \in [0 .. SramWords - 1 -> Word]
<1>1. spdIndex(a) \in 0 .. SramWords - 1 /\ Len(data) \in Nat
    BY SpdIndexType, LenProperties
<1>2. \A i \in 1 .. Len(data) : data[i] \in Word
    BY ElementOfSeq
<1>3. /\ DOMAIN sramArray = 0 .. SramWords - 1
      /\ \A k \in 0 .. SramWords - 1 : sramArray[k] \in Word
    BY DEF DeviceTypeOK
<1>4. \A k \in 0 .. SramWords - 1 :
        k \in spdIndex(a) .. spdIndex(a) + Len(data) - 1
            => data[k - spdIndex(a) + 1] \in Word
    BY <1>1, <1>2
<1> QED
    BY <1>3, <1>4 DEF SpdWrite

(* Case READ of MemCopy from the SRAM: no request, so nothing to wait for. *)
LEMMA ReadSramIInv ==
    ASSUME IInv, NEW f \in Functions, running(f), ReadSram(f),
           UNCHANGED hostVars
    PROVE  IInv'
<1>. /\ TypeOK /\ OneEventPerWait /\ DeviceTypeOK
    BY DEF IInv, TypeOK
<1>0. /\ src \in [Functions -> Nat] /\ dst \in [Functions -> Nat]
      /\ word_counter \in [Functions -> Nat]
      /\ dma_state \in [Functions -> {"IDLE", "READ", "WRITE", "WAITING",
                                       "DONE"}]
    BY DEF DeviceTypeOK
<1>1. CASE ~ReadOk(src[f], words(f))
    BY <1>1, AbortIInv DEF ReadSram
<1>2. CASE ReadOk(src[f], words(f))
    <2>1. /\ dma_state[f] = "READ"
          /\ buffer' = read(src[f], words(f))
          /\ dma_state' = [dma_state EXCEPT ![f] = "WRITE"]
          /\ src' = [src EXCEPT ![f] = @ + words(f)]
          /\ Advance(f)
          /\ UNCHANGED <<fsmVars, word_counter, dst, scalar, src_is_sram,
                         dst_is_sram, sramArray, backing,
                         pendingPIMEvents, fault>>
        BY <1>2 DEF ReadSram
    <2>2. words(f) \in Nat /\ src[f] \in Nat
        BY <1>0, WordsType
    <2>3. DeviceTypeOK'
        <3>1. buffer' \in Seq(Word) /\ cursor' \in Functions
            BY <1>2, <2>1, <2>2, ReadType, AdvanceType
        <3>2. /\ src' \in [Functions -> Nat]
              /\ dma_state' \in [Functions -> {"IDLE", "READ", "WRITE",
                                               "WAITING", "DONE"}]
            BY <1>0, <2>1, <2>2
        <3> QED
            BY <2>1, <3>1, <3>2 DEF fsmVars, DeviceTypeOK
    <2>5. WaitMatches(f)'
        BY <1>0, <2>1, QuietEvents DEF WaitMatches, OneEventPerWait
    <2> QED
        BY <1>0, <2>1, <2>3, <2>5, EngineStep, QuietEvents
<1> QED
    BY <1>1, <1>2

(* Case WRITE of MemCopy to the SRAM: no request, the next chunk follows.  *)
LEMMA WriteSramIInv ==
    ASSUME IInv, NEW f \in Functions, running(f), WriteSram(f),
           UNCHANGED hostVars
    PROVE  IInv'
<1>. /\ TypeOK /\ OneEventPerWait /\ DeviceTypeOK
    BY DEF IInv, TypeOK
<1>0. /\ src \in [Functions -> Nat] /\ dst \in [Functions -> Nat]
      /\ word_counter \in [Functions -> Nat]
      /\ dma_state \in [Functions -> {"IDLE", "READ", "WRITE", "WAITING",
                                       "DONE"}]
    BY DEF DeviceTypeOK
<1> DEFINE fits == decode(dst[f]) = "SRAM" /\ SpdFits(dst[f], words(f))
<1>1. CASE ~fits
    BY <1>1, AbortIInv DEF WriteSram
<1>2. CASE fits
    <2>1. /\ dma_state[f] = "WRITE"
          /\ buffer' = Resized(words(f))
          /\ sramArray' = SpdWrite(dst[f], Resized(words(f)))
          /\ dma_state' = [dma_state EXCEPT ![f] = nextState(f)]
          /\ word_counter' = [word_counter EXCEPT ![f] = @ - words(f)]
          /\ dst' = [dst EXCEPT ![f] = @ + words(f)]
          /\ Advance(f)
          /\ UNCHANGED <<fsmVars, src, scalar, src_is_sram, dst_is_sram,
                         backing, pendingPIMEvents, fault>>
        BY <1>2 DEF WriteSram
    <2>2. /\ words(f) \in Nat /\ word_counter[f] - words(f) \in Nat
          /\ dst[f] \in Nat /\ nextState(f) \in {"READ", "DONE"}
        BY <1>0, WordsType DEF nextState
    <2>3. DeviceTypeOK'
        <3>1. buffer' \in Seq(Word) /\ cursor' \in Functions
            BY <2>1, <2>2, ResizedType, AdvanceType DEF DeviceTypeOK
        <3>2. sramArray' \in [0 .. SramWords - 1 -> Word]
            BY <2>1, <2>2, <3>1, SpdWriteType
        <3>3. /\ word_counter' \in [Functions -> Nat]
              /\ dst' \in [Functions -> Nat]
              /\ dma_state' \in [Functions -> {"IDLE", "READ", "WRITE",
                                               "WAITING", "DONE"}]
            BY <1>0, <2>1, <2>2
        <3> QED
            BY <2>1, <3>1, <3>2, <3>3 DEF fsmVars, DeviceTypeOK
    <2>5. WaitMatches(f)'
        <3>1. dma_state'[f] # "WAITING" /\ EventsOf(f)' = EventsOf(f)
            BY <1>0, <2>1, <2>2, QuietEvents
        <3>2. EventsOf(f) = {}
            BY <2>1 DEF WaitMatches, OneEventPerWait
        <3> QED
            BY <3>1, <3>2 DEF WaitMatches
    <2> QED
        BY <1>0, <2>1, <2>3, <2>5, EngineStep, QuietEvents
<1> QED
    BY <1>1, <1>2

(* A visit to an engine that is idle or waits changes only the buffer.     *)
LEMMA EngineWaitIInv ==
    ASSUME IInv, NEW f \in Functions, running(f), EngineWait(f),
           UNCHANGED hostVars
    PROVE  IInv'
<1>. /\ TypeOK /\ OneEventPerWait /\ DeviceTypeOK
    BY DEF IInv, TypeOK
<1>0. /\ src \in [Functions -> Nat] /\ dst \in [Functions -> Nat]
      /\ word_counter \in [Functions -> Nat]
      /\ dma_state \in [Functions -> {"IDLE", "READ", "WRITE", "WAITING",
                                       "DONE"}]
    BY DEF DeviceTypeOK
<1>1. /\ buffer' = Resized(words(f))
      /\ Advance(f)
      /\ UNCHANGED <<fsmVars, dmaVars, sramArray, backing, pendingPIMEvents,
                     fault>>
    BY DEF EngineWait
<1>2. buffer' \in Seq(Word) /\ cursor' \in Functions
    BY <1>0, <1>1, WordsType, ResizedType, AdvanceType DEF DeviceTypeOK
<1>3. DeviceTypeOK'
    BY <1>1, <1>2 DEF fsmVars, dmaVars, DeviceTypeOK
<1>5. WaitMatches(f)'
    BY <1>1, QuietEvents DEF dmaVars, WaitMatches, OneEventPerWait
<1> QED
    BY <1>1, <1>3, <1>5, EngineStep, QuietEvents DEF dmaVars

(* The one visit that ends a function: its engine is then idle and nothing *)
(* of it is in flight.                                                     *)
LEMMA EngineDoneIInv ==
    ASSUME IInv, NEW f \in Functions, running(f), EngineDone(f),
           UNCHANGED hostVars
    PROVE  IInv'
<1>. /\ TypeOK /\ OneEventPerWait /\ DeviceTypeOK
    BY DEF IInv, TypeOK
<1>0. /\ src \in [Functions -> Nat] /\ dst \in [Functions -> Nat]
      /\ word_counter \in [Functions -> Nat]
      /\ dma_state \in [Functions -> {"IDLE", "READ", "WRITE", "WAITING",
                                       "DONE"}]
    BY DEF DeviceTypeOK
<1>1. /\ dma_state[f] = "DONE"
      /\ dma_state' = [dma_state EXCEPT ![f] = "IDLE"]
      /\ buffer' = Resized(words(f))
      /\ fstate' = [fstate EXCEPT ![f] = DONE]
      /\ counter' = [counter EXCEPT ![f] = 0]
      /\ cursor' = F1
      /\ UNCHANGED <<params, word_counter, src, dst, scalar, src_is_sram,
                     dst_is_sram, sramArray, backing, pendingPIMEvents, fault>>
    BY DEF EngineDone, FinishFunction
<1>2. /\ fstate \in [Functions -> {INVALID, INITIALIZING, READY, RUNNING,
                                   DONE}]
      /\ counter \in [Functions -> 0 .. NumParams]
      /\ fstate[f] = RUNNING
    BY DEF DeviceTypeOK, running
<1>3. \A g \in Functions : EventsOf(g)' = EventsOf(g)
    BY <1>1, QuietEvents
<1>4. TypeOK'
    <2>1. buffer' \in Seq(Word) /\ cursor' \in Functions
        BY <1>0, <1>1, WordsType, ResizedType DEF DeviceTypeOK, Functions
    <2>2. /\ fstate' \in [Functions -> {INVALID, INITIALIZING, READY, RUNNING,
                                        DONE}]
          /\ counter' \in [Functions -> 0 .. NumParams]
          /\ dma_state' \in [Functions -> {"IDLE", "READ", "WRITE",
                                           "WAITING", "DONE"}]
        BY <1>0, <1>1, <1>2
    <2>3. DeviceTypeOK'
        BY <1>1, <2>1, <2>2 DEF DeviceTypeOK
    <2> QED
        BY <2>3 DEF TypeOK, hostVars
<1>6. EventsOf(f) = {}
    BY <1>1 DEF OneEventPerWait, WaitMatches
<1>7. OneEventPerWait'
    <2> SUFFICES ASSUME NEW g \in Functions PROVE WaitMatches(g)'
        BY DEF OneEventPerWait
    <2>1. CASE g = f
        BY <1>0, <1>1, <1>3, <1>6, <2>1 DEF WaitMatches
    <2>2. CASE g # f
        BY <1>0, <1>1, <1>3, <2>2 DEF OneEventPerWait, WaitMatches
    <2> QED
        BY <2>1, <2>2
<1>8. StoppedIsQuiet'
    <2> SUFFICES ASSUME NEW g \in Functions, ~running(g)'
                 PROVE  dma_state'[g] = "IDLE" /\ EventsOf(g)' = {}
        BY DEF StoppedIsQuiet
    <2>1. CASE g = f
        BY <1>0, <1>1, <1>3, <1>6, <2>1
    <2>2. CASE g # f
        BY <1>0, <1>1, <1>2, <1>3, <2>2 DEF IInv, StoppedIsQuiet, running
    <2> QED
        BY <2>1, <2>2
<1>9. InStep'
    <2> SUFFICES ASSUME fault = "none" PROVE InStep'
        BY <1>1 DEF InStep
    <2>1. hpc[f] = "finish"
        <3>1. hpc[f] \in {"idle", "init", "run", "finish"}
            BY DEF TypeOK
        <3>2. fstate[f] \notin {INVALID, DONE, INITIALIZING, READY}
            BY <1>2 DEF INVALID, INITIALIZING, READY, RUNNING, DONE
        <3> QED
            BY <3>1, <3>2 DEF IInv, InStep
    <2> QED
        BY <1>1, <1>2, <2>1 DEF IInv, InStep, hostVars
<1> QED
    BY <1>4, <1>7, <1>8, <1>9 DEF IInv

(* One visit of TCLPIM::clock preserves the invariant.                     *)
LEMMA ClockIInv ==
    ASSUME IInv, NEW f \in Functions, clock(f), UNCHANGED hostVars
    PROVE  IInv'
BY IssueReadIInv, ReadSramIInv, IssueWriteIInv, WriteSramIInv,
   EngineDoneIInv, EngineWaitIInv DEF clock

-----------------------------------------------------------------------------
(* The completion of a request.                                            *)

(* The answer to a request that lies in the region consists of words, and  *)
(* so does the memory after it.                                            *)
LEMMA CompletionTypes ==
    ASSUME DeviceTypeOK, NEW e \in pendingPIMEvents, Span(e) \subseteq Addr
    PROVE  Received(e) \in Seq(Word) /\ Stored(e) \in [Addr -> Word]
<1>1. e.addr \in Nat /\ e.data \in Seq(Word)
    BY DEF DeviceTypeOK, Event
<1>2. Len(e.data) \in Nat /\ \A i \in 1 .. Len(e.data) : e.data[i] \in Word
    BY <1>1, LenProperties, ElementOfSeq
<1>3. \A i \in 1 .. Len(e.data) : e.addr + i - 1 \in Addr
    BY <1>1, <1>2 DEF Span
<1>4. /\ backing \in [Addr -> Word] /\ scalar \in Nat
    BY DEF DeviceTypeOK
<1>5. \A i \in 1 .. Len(e.data) : Response(e)[i] \in Word
    BY <1>1, <1>2, <1>3, <1>4 DEF Response
<1>6. \A i \in 1 .. Len(e.data) : (scalar * Response(e)[i]) % WordMod \in Word
    <2> TAKE i \in 1 .. Len(e.data)
    <2>1. Response(e)[i] \in Nat
        BY <1>5 DEF Word
    <2>2. scalar * Response(e)[i] \in Nat
        BY <1>4, <2>1
    <2> DEFINE product == scalar * Response(e)[i]
    <2>3. \A p \in Nat : p % WordMod \in Word
        BY DEF Word
    <2> QED
        BY <2>2, <2>3
<1>7. Received(e) \in [1 .. Len(e.data) -> Word]
    BY <1>5, <1>6 DEF Received, Response
<1>8. Received(e) \in Seq(Word)
    BY <1>2, <1>7, FunctionIsSeq
<1>9. \A a \in Addr : a \in Span(e) => e.data[a - e.addr + 1] \in Word
    BY <1>1, <1>2 DEF Span, Addr
<1>10. Stored(e) \in [Addr -> Word]
    BY <1>4, <1>9 DEF Stored
<1> QED
    BY <1>8, <1>10

(* A completion finds its function running and its engine waiting for just *)
(* this request, and moves it to the state the request carried.            *)
LEMMA CompletionIInv ==
    ASSUME IInv, NEW e \in pendingPIMEvents, handlePIMCompletion(e),
           UNCHANGED hostVars
    PROVE  IInv'
<1>. /\ TypeOK /\ OneEventPerWait /\ StoppedIsQuiet
     /\ DeviceTypeOK
    BY DEF IInv, TypeOK
<1>0. /\ e.fn \in Functions /\ e.next \in {"READ", "WRITE", "DONE"}
      /\ e \in EventsOf(e.fn)
    BY DEF DeviceTypeOK, Event, EventsOf
<1> DEFINE done == /\ Span(e) \subseteq Addr
                   /\ dma_state' = [dma_state EXCEPT ![e.fn] = e.next]
                   /\ pendingPIMEvents' = pendingPIMEvents \ {e}
                   /\ UNCHANGED <<fsmVars, word_counter, src, dst, scalar,
                                  src_is_sram, dst_is_sram, sramArray, cursor,
                                  fault>>
                   /\ \/ buffer' = Received(e) /\ UNCHANGED backing
                      \/ backing' = Stored(e) /\ UNCHANGED buffer
<1>1. done \/ Abort("assert") \/ Abort("overrun")
    BY DEF handlePIMCompletion, CompleteRead, CompleteWrite
<1>2. CASE Abort("assert") \/ Abort("overrun")
    BY <1>2, AbortIInv
<1>3. CASE done
    <2>1. running(e.fn)
        BY <1>0 DEF StoppedIsQuiet
    <2>2. DeviceTypeOK'
        <3>1. buffer' \in Seq(Word) /\ backing' \in [Addr -> Word]
            BY <1>3, CompletionTypes DEF DeviceTypeOK
        <3>2. pendingPIMEvents' \subseteq Event
            BY <1>3 DEF DeviceTypeOK
        <3>3. dma_state' \in [Functions -> {"IDLE", "READ", "WRITE",
                                            "WAITING", "DONE"}]
            BY <1>0, <1>3 DEF DeviceTypeOK
        <3> QED
            BY <1>3, <3>1, <3>2, <3>3 DEF DeviceTypeOK, fsmVars
    <2>4. dma_state'[e.fn] = e.next
        BY <1>0, <1>3 DEF DeviceTypeOK
    <2>5. EventsOf(e.fn)' = {}
        <3>1. EventsOf(e.fn) = {e}
            BY <1>0 DEF OneEventPerWait, WaitMatches
        <3>2. EventsOf(e.fn)' = EventsOf(e.fn) \ {e}
            BY <1>3 DEF EventsOf
        <3> QED
            BY <3>1, <3>2
    <2>6. WaitMatches(e.fn)'
        BY <1>0, <2>4, <2>5 DEF WaitMatches
    <2>7. \A g \in Functions \ {e.fn} :
            /\ dma_state'[g] = dma_state[g]
            /\ word_counter'[g] = word_counter[g]
            /\ EventsOf(g)' = EventsOf(g)
        BY <1>3 DEF EventsOf, DeviceTypeOK
    <2> QED
        BY <1>0, <1>3, <2>1, <2>2, <2>6, <2>7, EngineStep
<1> QED
    BY <1>1, <1>2, <1>3

-----------------------------------------------------------------------------
(* The host.                                                               *)

(* A thread enters init() with its function invalid or done.               *)
LEMMA BeginIInv ==
    ASSUME IInv, NEW f \in Functions, Begin(f)
    PROVE  IInv'
<1>. TypeOK /\ DeviceTypeOK /\ InStep
    BY DEF IInv, TypeOK
<1>1. /\ hpc[f] = "idle"
      /\ hpc' = [hpc EXCEPT ![f] = "init"]
      /\ hidx' = [hidx EXCEPT ![f] = 0]
      /\ UNCHANGED <<before, deviceVars>>
    BY DEF Begin
<1>2. PICK p \in Jobs[f] : job' = [job EXCEPT ![f] = p]
    BY DEF Begin
<1>3. p \in [ParamIndex -> Nat]
    OBVIOUS
<1> USE DEF deviceVars, fsmVars, dmaVars
<1>4. DeviceTypeOK'
    BY <1>1 DEF DeviceTypeOK
<1>5. TypeOK'
    <2>1. /\ hpc' \in [Functions -> {"idle", "init", "run", "finish"}]
          /\ hidx' \in [Functions -> 0 .. NumParams + 1]
          /\ job' \in [Functions -> [ParamIndex -> Nat]]
        BY <1>1, <1>2, <1>3 DEF TypeOK
    <2> QED
        BY <1>1, <1>4, <2>1 DEF TypeOK
<1>6. OneEventPerWait' /\ StoppedIsQuiet'
    BY <1>1 DEF IInv, OneEventPerWait, WaitMatches, EventsOf,
                StoppedIsQuiet, running
<1>7. InStep'
    <2>1. \A g \in Functions \ {f} :
            hpc'[g] = hpc[g] /\ hidx'[g] = hidx[g] /\ job'[g] = job[g]
        BY <1>1, <1>2 DEF TypeOK
    <2>2. hpc'[f] = "init" /\ hidx'[f] = 0
        BY <1>1 DEF TypeOK
    <2>3. fault = "none" /\ fstate[f] \in {INVALID, DONE}
        BY <1>1 DEF InStep, Begin
    <2> QED
        BY <1>1, <2>1, <2>2, <2>3 DEF InStep
<1> QED
    BY <1>5, <1>6, <1>7 DEF IInv

(* The polling loop of finish() ends when the function is done.            *)
LEMMA FinishIInv ==
    ASSUME IInv, NEW f \in Functions, finish(f)
    PROVE  IInv'
<1>. TypeOK /\ DeviceTypeOK /\ InStep
    BY DEF IInv, TypeOK
<1>1. CASE Abort("assert") /\ UNCHANGED hostVars
    BY <1>1, AbortIInv
<1>2. CASE /\ read(func(f), 1) = <<DONE>>
           /\ hpc' = [hpc EXCEPT ![f] = "idle"]
           /\ UNCHANGED <<deviceVars, hidx, job, before>>
    <2> USE DEF deviceVars, fsmVars, dmaVars
    <2>1. fstate[f] = DONE
        <3>1. read(func(f), 1) = [i \in 1 .. 1 |-> fstate[f]]
            BY RegisterDecodes DEF read, readFSM
        <3>2. read(func(f), 1)[1] = fstate[f]
            BY <3>1
        <3> QED
            BY <1>2, <3>2
    <2>2. TypeOK'
        <3>1. DeviceTypeOK'
            BY <1>2 DEF DeviceTypeOK
        <3> QED
            BY <1>2, <3>1 DEF TypeOK
    <2>3. OneEventPerWait' /\ StoppedIsQuiet'
        BY <1>2 DEF IInv, OneEventPerWait, WaitMatches, EventsOf,
                    StoppedIsQuiet, running
    <2>4. InStep'
        BY <1>2, <2>1 DEF InStep, TypeOK
    <2> QED
        BY <2>2, <2>3, <2>4 DEF IInv
<1> QED
    BY <1>1, <1>2 DEF finish

(* The stores of the host to memory reach no register.                     *)
LEMMA StoreIInv ==
    ASSUME IInv, store
    PROVE  IInv'
<1>. TypeOK /\ DeviceTypeOK
    BY DEF IInv, TypeOK
<1>1. PICK s \in Stores :
        \/ isIO(s[1]) /\ write(s[1], s[2])
        \/ /\ ~isIO(s[1])
           /\ backing' = [backing EXCEPT ![s[1]] = s[2]]
           /\ UNCHANGED <<fsmVars, dmaVars, buffer, sramArray,
                          pendingPIMEvents, cursor, fault>>
    BY DEF store
<1>2. s[1] \in Addr /\ s[1] \in Nat /\ s[2] \in Word /\ decode(s[1]) # "FUNC"
    BY DEF Addr
<1>3. /\ sramArray' \in [0 .. SramWords - 1 -> Word]
      /\ backing' \in [Addr -> Word]
      /\ UNCHANGED <<fsmVars, dmaVars, buffer, pendingPIMEvents, cursor, fault>>
    <2>1. CASE isIO(s[1]) /\ write(s[1], s[2])
        <3>1. decode(s[1]) = "SRAM"
            BY <1>2, <2>1 DEF isIO
        <3>2. /\ sramArray' = SpdWrite(s[1], <<s[2]>>)
              /\ UNCHANGED <<fsmVars, dmaVars, buffer, backing,
                             pendingPIMEvents, cursor, fault>>
            BY <2>1, <3>1 DEF write
        <3>3. <<s[2]>> \in Seq(Word)
            BY <1>2
        <3> QED
            BY <1>2, <3>2, <3>3, SpdWriteType DEF DeviceTypeOK
    <2>2. CASE ~isIO(s[1])
        BY <1>1, <1>2, <2>2 DEF DeviceTypeOK
    <2> QED
        BY <1>1, <2>1, <2>2
<1>4. UNCHANGED hostVars
    BY DEF store
<1> USE DEF fsmVars, dmaVars, hostVars
<1>5. TypeOK'
    <2>1. DeviceTypeOK'
        BY <1>3 DEF DeviceTypeOK
    <2> QED
        BY <1>4, <2>1 DEF TypeOK
<1>6. OneEventPerWait' /\ StoppedIsQuiet'
    BY <1>3 DEF IInv, OneEventPerWait, WaitMatches, EventsOf,
                StoppedIsQuiet, running
<1>7. InStep'
    BY <1>3, <1>4 DEF IInv, InStep
<1> QED
    BY <1>5, <1>6, <1>7 DEF IInv

(* The types the register protocol works on, and its numbers told apart.   *)
LEMMA ProtocolTypes ==
    ASSUME DeviceTypeOK
    PROVE  /\ fstate \in [Functions -> {INVALID, INITIALIZING, READY, RUNNING,
                                         DONE}]
           /\ counter \in [Functions -> 0 .. NumParams]
           /\ params \in [Functions -> [ParamIndex -> Nat]]
BY DEF DeviceTypeOK

(* Two states of the register protocol are never the same number (FSTATE). *)
LEMMA StatesDiffer ==
    /\ INVALID # INITIALIZING /\ INVALID # READY /\ INVALID # RUNNING
    /\ INVALID # DONE /\ INITIALIZING # READY /\ INITIALIZING # RUNNING
    /\ INITIALIZING # DONE /\ READY # RUNNING /\ READY # DONE
    /\ RUNNING # DONE
BY DEF INVALID, INITIALIZING, READY, RUNNING, DONE

(* A store to the register of a function that does not run leaves engines  *)
(* and requests alone, so that they still agree with each other.           *)
LEMMA RegisterStep ==
    ASSUME IInv, NEW f \in Functions, ~running(f),
           UNCHANGED <<word_counter, pendingPIMEvents, dma_state>>,
           \A g \in Functions \ {f} : fstate'[g] = fstate[g]
    PROVE  OneEventPerWait' /\ StoppedIsQuiet'
<1>1. OneEventPerWait'
    BY DEF IInv, OneEventPerWait, WaitMatches, EventsOf
<1>2. StoppedIsQuiet'
    <2> SUFFICES ASSUME NEW g \in Functions, ~running(g)'
                 PROVE  dma_state'[g] = "IDLE" /\ EventsOf(g)' = {}
        BY DEF StoppedIsQuiet
    <2>1. ~running(g)
        BY DEF running
    <2> QED
        BY <2>1, QuietEvents DEF IInv, StoppedIsQuiet
<1> QED
    BY <1>1, <1>2

(* The stores of init(): the command INIT, then parameter after parameter; *)
(* the last one makes the function READY with the parameters of the call.  *)
LEMMA InitCallIInv ==
    ASSUME IInv, NEW f \in Functions, init(f)
    PROVE  IInv'
<1>. TypeOK /\ DeviceTypeOK /\ InStep
    BY DEF IInv, TypeOK
<1> DEFINE d == IF hidx[f] = 0 THEN INIT ELSE job[f][hidx[f] - 1]
<1>0. /\ fault = "none" /\ hpc[f] = "init"
      /\ write(func(f), d)
      /\ hidx' = [hidx EXCEPT ![f] = @ + 1]
      /\ hpc' = [hpc EXCEPT ![f] = IF hidx[f] = NumParams THEN "run" ELSE @]
      /\ UNCHANGED <<job, before>>
    BY DEF init, BetweenHandlers
<1>1. /\ writeFSM(f, d)
      /\ UNCHANGED <<buffer, sramArray, backing, pendingPIMEvents, cursor>>
    BY <1>0, RegisterWrite
<1>2. /\ hpc \in [Functions -> {"idle", "init", "run", "finish"}]
      /\ hidx \in [Functions -> 0 .. NumParams + 1]
      /\ job \in [Functions -> [ParamIndex -> Nat]]
    BY DEF TypeOK
<1>3. /\ fstate \in [Functions -> {INVALID, INITIALIZING, READY, RUNNING,
                                    DONE}]
      /\ counter \in [Functions -> 0 .. NumParams]
      /\ params \in [Functions -> [ParamIndex -> Nat]]
    BY ProtocolTypes
<1>4. \A g \in Functions \ {f} :
        hpc'[g] = hpc[g] /\ hidx'[g] = hidx[g] /\ job'[g] = job[g]
    BY <1>0, <1>2
<1>5. CASE hidx[f] = 0
    <2>1. fstate[f] \in {INVALID, DONE}
        BY <1>0, <1>5 DEF InStep
    <2>2. WriteInit(f, INIT)
        BY <1>1, <1>5, <2>1, StatesDiffer
           DEF writeFSM, WriteParam, WriteRun, WriteFinish
    <2>3. /\ fstate' = [fstate EXCEPT ![f] = INITIALIZING]
          /\ counter' = [counter EXCEPT ![f] = 0]
          /\ UNCHANGED <<params, dmaVars, fault>>
        BY <2>2 DEF WriteInit
    <2>4. hidx'[f] = 1 /\ hpc'[f] = "init" /\ NumParams > 0
        BY <1>0, <1>2, <1>5
    <2>5. TypeOK'
        <3>1. /\ fstate' \in [Functions -> {INVALID, INITIALIZING, READY,
                                             RUNNING, DONE}]
              /\ counter' \in [Functions -> 0 .. NumParams]
            BY <1>3, <2>3
        <3>2. DeviceTypeOK'
            BY <1>1, <2>3, <3>1 DEF DeviceTypeOK, dmaVars
        <3>3. /\ hpc' \in [Functions -> {"idle", "init", "run", "finish"}]
              /\ hidx' \in [Functions -> 0 .. NumParams + 1]
            <4>1. hpc' = hpc
                BY <1>0, <1>2, <1>5
            <4>2. hidx[f] + 1 \in 0 .. NumParams + 1
                BY <1>5
            <4> QED
                BY <1>0, <1>2, <4>1, <4>2
        <3> QED
            BY <1>0, <3>2, <3>3 DEF TypeOK
    <2>6. OneEventPerWait' /\ StoppedIsQuiet'
        <3>1. ~running(f)
            BY <2>1, StatesDiffer DEF running
        <3>2. \A g \in Functions \ {f} : fstate'[g] = fstate[g]
            BY <1>3, <2>3
        <3> QED
            BY <1>1, <2>3, <3>1, <3>2, RegisterStep DEF dmaVars
    <2>7. InStep'
        <3>1. /\ fstate'[f] = INITIALIZING /\ counter'[f] = 0
              /\ \A g \in Functions \ {f} : fstate'[g] = fstate[g]
                                          /\ counter'[g] = counter[g]
            BY <1>3, <2>3
        <3> QED
            BY <1>0, <1>4, <2>3, <2>4, <3>1 DEF InStep
    <2> QED
        BY <2>5, <2>6, <2>7 DEF IInv
<1>6. CASE hidx[f] # 0
    <2>1. /\ fstate[f] = INITIALIZING
          /\ counter[f] = hidx[f] - 1
          /\ counter[f] < NumParams
          /\ \A i \in 0 .. counter[f] - 1 : params[f][i] = job[f][i]
        BY <1>0, <1>6 DEF InStep
    <2>2. WriteParam(f, job[f][counter[f]])
        BY <1>1, <1>6, <2>1, StatesDiffer
           DEF writeFSM, WriteInit, WriteRun, WriteFinish
    <2>3. /\ params' = [params EXCEPT ![f][counter[f]] = job[f][counter[f]]]
          /\ counter' = [counter EXCEPT ![f] = @ + 1]
          /\ fstate' = [fstate EXCEPT ![f] =
                           IF counter[f] + 1 = NumParams THEN READY ELSE @]
          /\ UNCHANGED <<dmaVars, fault>>
        BY <2>2 DEF WriteParam
    <2>4. counter[f] \in ParamIndex /\ job[f][counter[f]] \in Nat
        <3>1. counter[f] \in 0 .. NumParams
            BY <1>3
        <3>2. counter[f] \in ParamIndex
            BY <2>1, <3>1 DEF ParamIndex
        <3> QED
            BY <1>2, <3>2
    <2>5. TypeOK'
        <3>1. /\ fstate' \in [Functions -> {INVALID, INITIALIZING, READY,
                                             RUNNING, DONE}]
              /\ params' \in [Functions -> [ParamIndex -> Nat]]
            BY <1>3, <2>3, <2>4
        <3>2. counter' \in [Functions -> 0 .. NumParams]
            <4>1. counter[f] + 1 \in 0 .. NumParams
                BY <2>4 DEF ParamIndex
            <4> QED
                BY <1>3, <2>3, <4>1
        <3>3. DeviceTypeOK'
            BY <1>1, <2>3, <3>1, <3>2 DEF DeviceTypeOK, dmaVars
        <3>4. /\ hpc' \in [Functions -> {"idle", "init", "run", "finish"}]
              /\ hidx' \in [Functions -> 0 .. NumParams + 1]
            <4>1. hidx[f] + 1 \in 0 .. NumParams + 1
                BY <2>1, <2>4, <1>2 DEF ParamIndex
            <4> QED
                BY <1>0, <1>2, <4>1
        <3> QED
            BY <1>0, <3>3, <3>4 DEF TypeOK
    <2>6. OneEventPerWait' /\ StoppedIsQuiet'
        <3>1. ~running(f)
            BY <2>1, StatesDiffer DEF running
        <3>2. \A g \in Functions \ {f} : fstate'[g] = fstate[g]
            BY <1>3, <2>3
        <3> QED
            BY <1>1, <2>3, <3>1, <3>2, RegisterStep DEF dmaVars
    <2>7. /\ hidx'[f] = hidx[f] + 1 /\ counter'[f] = counter[f] + 1
          /\ job' = job
          /\ \A g \in Functions \ {f} : /\ fstate'[g] = fstate[g]
                                       /\ counter'[g] = counter[g]
                                       /\ params'[g] = params[g]
        BY <1>0, <1>2, <1>3, <2>3
    <2>8. \A i \in 0 .. counter[f] : params'[f][i] = job[f][i]
        <3>1. params'[f] = [params[f] EXCEPT ![counter[f]] = job[f][counter[f]]]
            BY <1>3, <2>3
        <3>2. params[f] \in [ParamIndex -> Nat]
            BY <1>3
        <3>3. \A i \in 0 .. counter[f] :
                i \in ParamIndex /\ (i = counter[f] \/ i \in 0 .. counter[f] - 1)
            BY <2>4 DEF ParamIndex
        <3> QED
            BY <2>1, <3>1, <3>2, <3>3
    <2>9. InStep'
        <3>1. CASE counter[f] + 1 = NumParams
            <4>1. hpc'[f] = "run" /\ fstate'[f] = READY
                BY <1>0, <1>2, <1>3, <2>1, <2>3, <3>1
            <4>2. params'[f] = job'[f]
                <5>1. params'[f] \in [ParamIndex -> Nat]
                    BY <2>5 DEF TypeOK, DeviceTypeOK
                <5>2. job[f] \in [ParamIndex -> Nat]
                    BY <1>2
                <5>3. ParamIndex = 0 .. counter[f]
                    BY <3>1, <2>4 DEF ParamIndex
                <5>4. \A i \in ParamIndex : params'[f][i] = job[f][i]
                    BY <2>8, <5>3
                <5> QED
                    BY <2>7, <5>1, <5>2, <5>4
            <4> QED
                BY <1>0, <1>4, <2>3, <2>7, <4>1, <4>2 DEF InStep
        <3>2. CASE counter[f] + 1 # NumParams
            <4>1. hpc'[f] = "init" /\ fstate'[f] = INITIALIZING
                BY <1>0, <1>2, <1>3, <2>1, <2>3, <2>4, <3>2 DEF ParamIndex
            <4>2. /\ hidx'[f] # 0
                  /\ counter'[f] = hidx'[f] - 1
                  /\ counter'[f] < NumParams
                  /\ \A i \in 0 .. counter'[f] - 1 : params'[f][i] = job'[f][i]
                <5>1. /\ counter[f] \in Nat /\ hidx[f] \in Nat
                      /\ counter[f] + 1 < NumParams
                    <6>1. counter[f] \in 0 .. NumParams - 1
                        BY <2>4 DEF ParamIndex
                    <6>2. hidx[f] \in 0 .. NumParams + 1
                        BY <1>2
                    <6> QED
                        BY <3>2, <6>1, <6>2
                <5>2. 0 .. counter'[f] - 1 = 0 .. counter[f]
                    BY <2>7, <5>1
                <5>3. \A i \in 0 .. counter'[f] - 1 : params'[f][i] = job'[f][i]
                    BY <2>7, <2>8, <5>2
                <5>4. /\ hidx'[f] # 0
                      /\ counter'[f] = hidx'[f] - 1
                      /\ counter'[f] < NumParams
                    BY <2>1, <2>7, <5>1
                <5> QED
                    BY <5>3, <5>4
            <4> QED
                BY <1>0, <1>4, <2>3, <2>7, <4>1, <4>2 DEF InStep
        <3> QED
            BY <3>1, <3>2
    <2> QED
        BY <2>5, <2>6, <2>9 DEF IInv
<1> QED
    BY <1>5, <1>6

(* The store of run(): the engine starts with the parameters of the call.  *)
(* A transfer of no bytes leaves the engine idle.                          *)
LEMMA RunIInv ==
    ASSUME IInv, NEW f \in Functions, run(f)
    PROVE  IInv'
<1>. TypeOK /\ DeviceTypeOK /\ InStep
    BY DEF IInv, TypeOK
<1>0. /\ fault = "none" /\ hpc[f] = "run"
      /\ write(func(f), RUN)
      /\ hpc' = [hpc EXCEPT ![f] = "finish"]
      /\ before' = memory
      /\ UNCHANGED <<hidx, job>>
    BY DEF run, BetweenHandlers
<1>1. /\ writeFSM(f, RUN)
      /\ UNCHANGED <<buffer, sramArray, backing, pendingPIMEvents, cursor>>
    BY <1>0, RegisterWrite
<1>2. fstate[f] = READY /\ params[f] = job[f]
    BY <1>0 DEF InStep
<1>3. WriteRun(f, RUN)
    BY <1>1, <1>2, StatesDiffer DEF writeFSM, WriteInit, WriteParam, WriteFinish
<1>4. /\ hpc' \in [Functions -> {"idle", "init", "run", "finish"}]
      /\ before' \in [sram : [0 .. SramWords - 1 -> Word],
                      dram : [Addr -> Word]]
    BY <1>0 DEF TypeOK, DeviceTypeOK, memory
<1>5. EventsOf(f) = {} /\ dma_state[f] = "IDLE"
    BY <1>2, StatesDiffer DEF IInv, StoppedIsQuiet, running
<1>6. \A g \in Functions : EventsOf(g)' = EventsOf(g)
    BY <1>1, QuietEvents DEF IInv
<1>7. CASE RUN # RUN \/ StartFault(f)
    <2>1. fault' = "assert" /\ UNCHANGED <<fsmVars, dmaVars>>
        BY <1>3, <1>7 DEF WriteRun
    <2>2. TypeOK'
        <3>1. DeviceTypeOK'
            BY <1>1, <2>1 DEF DeviceTypeOK, fsmVars, dmaVars
        <3> QED
            BY <1>0, <1>4, <3>1 DEF TypeOK
    <2>3. OneEventPerWait' /\ StoppedIsQuiet'
        BY <1>1, <1>6, <2>1 DEF IInv, OneEventPerWait, WaitMatches,
           StoppedIsQuiet, running, fsmVars, dmaVars
    <2>4. InStep'
        BY <2>1 DEF InStep
    <2> QED
        BY <1>6, <2>2, <2>3, <2>4 DEF IInv
<1>8. CASE ~(RUN # RUN \/ StartFault(f))
    <2>1. /\ fstate' = [fstate EXCEPT ![f] = RUNNING]
          /\ counter' = [counter EXCEPT ![f] = 0]
          /\ start(f)
          /\ UNCHANGED <<params, fault>>
        BY <1>3, <1>8 DEF WriteRun
    <2>2. /\ fstate \in [Functions -> {INVALID, INITIALIZING, READY, RUNNING,
                                        DONE}]
          /\ counter \in [Functions -> 0 .. NumParams]
          /\ params \in [Functions -> [ParamIndex -> Nat]]
        BY ProtocolTypes
    <2>3. /\ src \in [Functions -> Nat] /\ dst \in [Functions -> Nat]
          /\ word_counter \in [Functions -> Nat] /\ scalar \in Nat
          /\ dma_state \in [Functions -> {"IDLE", "READ", "WRITE", "WAITING",
                                           "DONE"}]
          /\ src_is_sram \in BOOLEAN /\ dst_is_sram \in BOOLEAN
        BY DEF DeviceTypeOK
    <2>4. \A i \in 0 .. 3 : params[f][i] \in Nat
        <3>1. params[f] \in [ParamIndex -> Nat]
            BY <2>2
        <3>2. \A i \in 0 .. 3 : i \in ParamIndex
            BY DEF ParamIndex
        <3> QED
            BY <3>1, <3>2
    <2>5. numBytes(f) \in Nat /\ numBytes(f) \div 8 \in Nat
        BY <2>4 DEF numBytes
    <2>6. params[U5][2] \in Nat
        BY <2>2 DEF ParamIndex, Functions
    <2>7. /\ src' \in [Functions -> Nat] /\ dst' \in [Functions -> Nat]
          /\ word_counter' \in [Functions -> Nat] /\ scalar' \in Nat
          /\ dma_state' \in [Functions -> {"IDLE", "READ", "WRITE", "WAITING",
                                            "DONE"}]
          /\ src_is_sram' \in BOOLEAN /\ dst_is_sram' \in BOOLEAN
        <3>1. CASE numBytes(f) = 0
            BY <2>1, <2>3, <3>1 DEF start, dmaVars
        <3>2. CASE numBytes(f) # 0
            <4>1. /\ dst' = [dst EXCEPT ![f] = params[f][0]]
                  /\ src' = [src EXCEPT ![f] = params[f][1]]
                  /\ word_counter' = [word_counter EXCEPT
                                        ![f] = numBytes(f) \div 8]
                  /\ dma_state' = [dma_state EXCEPT ![f] = "READ"]
                  /\ scalar' = IF f = U5 THEN params[U5][2] ELSE scalar
                BY <2>1, <3>2 DEF start
            <4>2. src_is_sram' \in BOOLEAN /\ dst_is_sram' \in BOOLEAN
                BY <2>1, <2>3, <3>2 DEF start
            <4>3. 0 \in 0 .. 3 /\ 1 \in 0 .. 3
                OBVIOUS
            <4>4. params[f][0] \in Nat /\ params[f][1] \in Nat
                BY <2>4, <4>3
            <4> QED
                BY <2>3, <2>5, <2>6, <4>1, <4>2, <4>4
        <3> QED
            BY <3>1, <3>2
    <2>8. TypeOK'
        <3>1. /\ fstate' \in [Functions -> {INVALID, INITIALIZING, READY,
                                             RUNNING, DONE}]
              /\ counter' \in [Functions -> 0 .. NumParams]
            BY <2>1, <2>2
        <3>2. DeviceTypeOK'
            BY <1>1, <2>1, <2>2, <2>7, <3>1 DEF DeviceTypeOK
        <3> QED
            BY <1>0, <1>4, <3>2 DEF TypeOK
    <2>9. /\ dma_state'[f] \in {"IDLE", "READ"}
          /\ \A g \in Functions \ {f} : /\ dma_state'[g] = dma_state[g]
                                       /\ word_counter'[g] = word_counter[g]
                                       /\ fstate'[g] = fstate[g]
        <3>1. CASE numBytes(f) = 0
            BY <1>5, <2>1, <2>2, <2>3, <3>1 DEF start, dmaVars
        <3>2. CASE numBytes(f) # 0
            BY <2>1, <2>2, <2>3, <3>2 DEF start
        <3> QED
            BY <3>1, <3>2
    <2>10. OneEventPerWait'
        <3> SUFFICES ASSUME NEW g \in Functions PROVE WaitMatches(g)'
            BY DEF OneEventPerWait
        <3>1. CASE g = f
            BY <1>5, <1>6, <2>9, <3>1 DEF WaitMatches
        <3>2. CASE g # f
            BY <1>6, <2>9, <3>2 DEF IInv, OneEventPerWait, WaitMatches
        <3> QED
            BY <3>1, <3>2
    <2>11. StoppedIsQuiet'
        <3> SUFFICES ASSUME NEW g \in Functions, ~running(g)'
                     PROVE  dma_state'[g] = "IDLE" /\ EventsOf(g)' = {}
            BY DEF StoppedIsQuiet
        <3>1. g # f
            BY <2>1, <2>2 DEF running
        <3> QED
            BY <1>6, <2>9, <3>1 DEF IInv, StoppedIsQuiet, running
    <2>12. InStep'
        <3>1. /\ hpc'[f] = "finish" /\ fstate'[f] = RUNNING
              /\ \A g \in Functions \ {f} :
                    hpc'[g] = hpc[g] /\ counter'[g] = counter[g]
            BY <1>0, <2>1, <2>2 DEF TypeOK
        <3> QED
            BY <1>0, <1>2, <2>1, <2>9, <3>1 DEF InStep
    <2> QED
        BY <1>6, <2>8, <2>10, <2>11, <2>12 DEF IInv
<1> QED
    BY <1>7, <1>8

(* Every step preserves the invariant.                                     *)
LEMMA NextIInv == IInv /\ [Next]_vars => IInv'
<1> SUFFICES ASSUME IInv, [Next]_vars PROVE IInv'
    OBVIOUS
<1>1. ASSUME NEW f \in Functions, clock(f), UNCHANGED hostVars
      PROVE  IInv'
    BY <1>1, ClockIInv
<1>2. ASSUME NEW e \in pendingPIMEvents, handlePIMCompletion(e),
             UNCHANGED hostVars
      PROVE  IInv'
    BY <1>2, CompletionIInv
<1>3. ASSUME NEW f \in Functions, Begin(f) \/ init(f) \/ run(f) \/ finish(f)
      PROVE  IInv'
    BY <1>3, BeginIInv, InitCallIInv, RunIInv, FinishIInv
<1>4. CASE store
    BY <1>4, StoreIInv
<1>5. CASE UNCHANGED vars
    <2> USE <1>5 DEF IInv, vars, deviceVars, hostVars, fsmVars, dmaVars
    <2>1. TypeOK'
        BY DEF TypeOK, DeviceTypeOK
    <2>2. OneEventPerWait' /\ StoppedIsQuiet'
        BY DEF OneEventPerWait, WaitMatches, EventsOf,
               StoppedIsQuiet, running
    <2>3. InStep'
        BY DEF InStep
    <2> QED
        BY <2>1, <2>2, <2>3
<1> QED
    BY <1>1, <1>2, <1>3, <1>4, <1>5 DEF Next, Device, Host

(* The invariant holds throughout, whatever order of host stores, ticks    *)
(* and completions the event loop chooses.                                 *)
THEOREM Invariance == Spec => []IInv
<1>1. Init => IInv
    BY InitIInv
<1>2. IInv /\ [Next]_vars => IInv'
    BY NextIInv
<1> QED
    BY <1>1, <1>2, PTL DEF Spec

(* Type correctness: in particular the sizes of sramArray and of the       *)
(* parameter array never change, and every word stays a word.              *)
THEOREM TypeCorrect == Spec => []TypeOK
<1>1. IInv => TypeOK
    BY DEF IInv
<1> QED
    BY <1>1, Invariance, PTL

(* An engine waits for exactly its own one request, whether the calls of   *)
(* the functions overlap or not (MemCopy::clock, MulVecByScalar::clock,    *)
(* PIMBackend::handlePIMCompletion).                                       *)
THEOREM EnginesMatchEvents == Spec => []OneEventPerWait
<1>1. IInv => OneEventPerWait
    BY DEF IInv
<1> QED
    BY <1>1, Invariance, PTL

(* A function that does not run has an idle engine and nothing in flight   *)
(* (TCLPIM::clock, FuncState::writeFSM).                                   *)
THEOREM StoppedFunctionsAreQuiet == Spec => []StoppedIsQuiet
<1>1. IInv => StoppedIsQuiet
    BY DEF IInv
<1> QED
    BY <1>1, Invariance, PTL

(* The register protocol never loses step with the host thread, and a      *)
(* function runs with the parameters of its call (FuncState::writeFSM).    *)
THEOREM HostAndDeviceInStep == Spec => []InStep
<1>1. IInv => InStep
    BY DEF IInv
<1> QED
    BY <1>1, Invariance, PTL

-----------------------------------------------------------------------------
(* With one call at a time, each such as the device asks for.              *)

OneAtATime ==
    /\ Sequential
    /\ \A f \in Functions : \A p \in Jobs[f] : Transferable(f, p)

(* now is old after the first n words have arrived, each at its place.     *)
Copied(now, old, place, word, n) ==
    /\ \A k \in DOMAIN old : (\A i \in 0 .. n - 1 : place[i] # k) => now[k] = old[k]
    /\ \A i \in 0 .. n - 1 :
          (\A j \in i + 1 .. n - 1 : place[j] # place[i]) => now[place[i]] = word[i]

Places(f, p) ==
    [i \in 0 .. Size(f, p) - 1 |-> IF OnSpd(f, p[0]) THEN spdIndex(p[0] + i) ELSE p[0] + i]

SourceWords(f, p) == [i \in 0 .. Size(f, p) - 1 |-> SourceWord(f, p, before, i)]

(* The first n words of the call of f are in memory, and nothing else.     *)
Arrived(f, p, n) ==
    IF OnSpd(f, p[0])
    THEN /\ backing = before.dram
         /\ Copied(sramArray, before.sram, Places(f, p), SourceWords(f, p), n)
    ELSE /\ sramArray = before.sram
         /\ Copied(backing, before.dram, Places(f, p), SourceWords(f, p), n)

Carries(data, f, p, n) ==
    \A i \in 1 .. Len(data) : data[i] = SourceWord(f, p, before, n + i - 1)

(* Where the engine of a running function is in its transfer, of which n   *)
(* words have been taken off the counter.                                  *)
Engine(f, p, n) ==
    /\ f = U5 => scalar = p[2]
    /\ f = F1 => src_is_sram = OnSpd(f, p[1]) /\ dst_is_sram = OnSpd(f, p[0])
    /\ dst[f] = p[0] + n
    /\ word_counter[f] > 0 => \E k \in 0 .. Size(f, p) : n = k * ChunkWords

Reading(f, p, n) == word_counter[f] > 0 /\ src[f] = p[1] + n /\ Arrived(f, p, n)

Writing(f, p, n) ==
    /\ word_counter[f] > 0 /\ src[f] = p[1] + n + words(f)
    /\ Len(buffer) = words(f) /\ Carries(buffer, f, p, n)
    /\ Arrived(f, p, n)

AwaitsRead(f, p, n, e) ==
    /\ word_counter[f] > 0 /\ src[f] = p[1] + n + words(f)
    /\ ~OnSpd(f, p[1])
    /\ e.addr = p[1] + n /\ Len(e.data) = words(f) /\ Len(buffer) = words(f)
    /\ Arrived(f, p, n)

AwaitsWrite(f, p, n, e) ==
    LET c == Len(e.data) IN
    /\ src[f] = p[1] + n
    /\ ~OnSpd(f, p[0])
    /\ c <= n /\ e.addr = p[0] + (n - c)
    /\ Carries(e.data, f, p, n - c)
    /\ Arrived(f, p, n - c)

Awaits(f, p, n) ==
    \A e \in EventsOf(f) : IF e.wr THEN AwaitsWrite(f, p, n, e) ELSE AwaitsRead(f, p, n, e)

Transfer(f, p, n) ==
    /\ n \in Nat /\ Engine(f, p, n)
    /\ dma_state[f] = "READ" => Reading(f, p, n)
    /\ dma_state[f] = "WRITE" => Writing(f, p, n)
    /\ dma_state[f] = "WAITING" => Awaits(f, p, n)
    /\ dma_state[f] = "DONE" => word_counter[f] = 0 /\ Arrived(f, p, n)

InTransfer(f) ==
    running(f) =>
        IF dma_state[f] = "IDLE" THEN memory = before
        ELSE Transfer(f, params[f], Size(f, params[f]) - word_counter[f])

OneInUse ==
    \A f \in Functions : hpc[f] # "idle" =>
        /\ job[f] \in Jobs[f]
        /\ \A g \in Functions : hpc[g] # "idle" => g = f

CallInv ==
    /\ IInv
    /\ AssertionsHold
    /\ OneInUse
    /\ \A f \in Functions : InTransfer(f)

(* A call is made with numbers, and it is one the device asks for.         *)
LEMMA CallTypes ==
    ASSUME OneAtATime, NEW f \in Functions, NEW p \in Jobs[f]
    PROVE  /\ p[0] \in Nat /\ p[1] \in Nat /\ p[2] \in Nat /\ p[3] \in Nat
           /\ Size(f, p) \in Nat
           /\ Transferable(f, p)
<1>1. p \in [ParamIndex -> Nat]
    OBVIOUS
<1>2. 0 \in ParamIndex /\ 1 \in ParamIndex /\ 2 \in ParamIndex /\ 3 \in ParamIndex
    BY DEF ParamIndex
<1>3. p[0] \in Nat /\ p[1] \in Nat /\ p[2] \in Nat /\ p[3] \in Nat
    BY <1>1, <1>2
<1>4. \A m \in Nat : m \div 8 \in Nat
    OBVIOUS
<1>5. Size(f, p) \in Nat
    BY <1>3, <1>4 DEF Size
<1> QED
    BY <1>3, <1>5 DEF OneAtATime

(* Division with remainder.                                                *)
LEMMA Remainder ==
    ASSUME NEW d \in Nat \ {0}, NEW a \in Nat
    PROVE  \E q \in Nat : a = d * q + (a % d)
<1>1. a = d * (a \div d) + (a % d) /\ a \div d \in Nat
    BY Z3
<1> QED
    BY <1>1

LEMMA RemainderUnique ==
    ASSUME NEW d \in Nat \ {0}, NEW q \in Nat, NEW r \in 0 .. d - 1
    PROVE  (d * q + r) % d = r
BY Z3

(* While an access to the scratch-pad stays in the array, the address goes *)
(* along with the index.                                                   *)
LEMMA SpdShift ==
    ASSUME NEW a \in Nat, NEW n \in Nat, spdIndex(a) + n < SramWords
    PROVE  spdIndex(a + n) = spdIndex(a) + n
<1>1. PICK q \in Nat : a = SramWords * q + (a % SramWords)
    BY Remainder
<1>2. a % SramWords \in Nat
    BY SpdIndexType DEF spdIndex
<1>3. (a % SramWords) + n \in 0 .. SramWords - 1
    BY <1>2 DEF spdIndex
<1>4. (SramWords * q + ((a % SramWords) + n)) % SramWords = (a % SramWords) + n
    BY <1>3, RemainderUnique
<1>5. SramWords * q \in Nat
    BY <1>1
<1>6. a + n = SramWords * q + ((a % SramWords) + n)
    <2>1. \A x, y, z \in Nat : x = y + z => x + n = y + (z + n)
        OBVIOUS
    <2> QED
        BY <1>1, <1>2, <1>5, <2>1
<1> QED
    BY <1>4, <1>6 DEF spdIndex

(* A further chunk of a copy, the words n to m - 1: the cells it is meant  *)
(* for have its words, the others stay as they are.                        *)
ChunkArrives(new, now, place, word, n, m) ==
    /\ \A k \in DOMAIN now : (\A j \in n .. m - 1 : place[j] # k) => new[k] = now[k]
    /\ \A j \in n .. m - 1 : new[place[j]] = word[j]

LEMMA CopiedMore ==
    ASSUME NEW D, NEW old, NEW now, NEW new, DOMAIN old = D, DOMAIN now = D,
           NEW N \in Nat, NEW place \in [0 .. N - 1 -> D], NEW word,
           NEW n \in Nat, NEW m \in Nat, n <= m, m <= N,
           Copied(now, old, place, word, n),
           ChunkArrives(new, now, place, word, n, m)
    PROVE  Copied(new, old, place, word, m)
<1>1. ASSUME NEW k \in D, \A j \in 0 .. m - 1 : place[j] # k
      PROVE  new[k] = old[k]
    <2>1. /\ \A j \in n .. m - 1 : place[j] # k
          /\ \A j \in 0 .. n - 1 : place[j] # k
        <3>1. n .. m - 1 \subseteq 0 .. m - 1 /\ 0 .. n - 1 \subseteq 0 .. m - 1
            OBVIOUS
        <3> QED
            BY <1>1, <3>1
    <2>2. new[k] = now[k]
        BY <2>1 DEF ChunkArrives
    <2>3. now[k] = old[k]
        BY <2>1 DEF Copied
    <2> QED
        BY <2>2, <2>3
<1>2. ASSUME NEW l \in 0 .. m - 1,
             \A j \in l + 1 .. m - 1 : place[j] # place[l]
      PROVE  new[place[l]] = word[l]
    <2>1. CASE l >= n
        <3>1. l \in n .. m - 1
            BY <2>1
        <3> QED
            BY <3>1 DEF ChunkArrives
    <2>2. CASE l < n
        <3>1. l \in 0 .. n - 1 /\ l \in 0 .. N - 1
            BY <2>2
        <3>2. place[l] \in D
            BY <3>1
        <3>3. \A j \in n .. m - 1 : place[j] # place[l]
            BY <1>2, <2>2
        <3>4. \A j \in l + 1 .. n - 1 : place[j] # place[l]
            BY <1>2
        <3>5. new[place[l]] = now[place[l]]
            BY <3>2, <3>3 DEF ChunkArrives
        <3>6. now[place[l]] = word[l]
            BY <3>1, <3>4 DEF Copied
        <3> QED
            BY <3>5, <3>6
    <2> QED
        BY <2>1, <2>2
<1> QED
    BY <1>1, <1>2 DEF Copied

(* Before the first chunk nothing has arrived.                             *)
LEMMA CopiedNone ==
    ASSUME NEW old, NEW place, NEW word
    PROVE  Copied(old, old, place, word, 0)
BY DEF Copied

(* The words of the next chunk when m are left.                            *)
Chunk(m) == IF m >= ChunkWords THEN ChunkWords ELSE m

(* Where the device meets a chunk it may transfer it, and the addresses of *)
(* the words follow one another (MemCopy::clock, TCLPIM::read).            *)
LEMMA ChunkInPlace ==
    ASSUME OneAtATime, NEW f \in Functions, NEW p \in Jobs[f], NEW q \in {0, 1},
           NEW k \in 0 .. Size(f, p), NEW n \in Nat, n = k * ChunkWords, n < Size(f, p)
    PROVE  /\ Chunk(Size(f, p) - n) \in Nat
           /\ n + Chunk(Size(f, p) - n) <= Size(f, p)
           /\ OnSpd(f, p[q]) =>
                /\ decode(p[q] + n) = "SRAM"
                /\ SpdFits(p[q] + n, Chunk(Size(f, p) - n))
                /\ \A j \in n .. n + Chunk(Size(f, p) - n) - 1 :
                      spdIndex(p[q] + j) = spdIndex(p[q] + n) + (j - n)
           /\ ~OnSpd(f, p[q]) =>
                /\ InRegion(p[q] + n)
                /\ \A j \in 0 .. Size(f, p) - 1 : p[q] + j \in Addr
<1> DEFINE N == Size(f, p)
           c == Chunk(N - n)
<1>1. N \in Nat /\ p[q] \in Nat /\ Transferable(f, p)
    BY CallTypes
<1>2. c \in Nat /\ c > 0 /\ n + c <= N
    BY <1>1 DEF Chunk
<1>3. Fits(f, p[q], N)
    BY <1>1 DEF Transferable
<1>4. ASSUME OnSpd(f, p[q])
      PROVE  /\ decode(p[q] + n) = "SRAM" /\ SpdFits(p[q] + n, c)
             /\ \A j \in n .. n + c - 1 :
                   spdIndex(p[q] + j) = spdIndex(p[q] + n) + (j - n)
    <2>1. ChunksFit(p[q], N)
        BY <1>3, <1>4 DEF Fits
    <2>2. decode(p[q] + n) = "SRAM" /\ SpdFits(p[q] + n, c)
        BY <2>1 DEF ChunksFit, Chunk
    <2>3. ASSUME NEW j \in n .. n + c - 1
          PROVE  spdIndex(p[q] + j) = spdIndex(p[q] + n) + (j - n)
        <3>1. p[q] + n \in Nat /\ j - n \in Nat /\ j - n < c
            BY <1>1, <1>2
        <3>2. spdIndex(p[q] + n) \in 0 .. SramWords - 1
            BY <3>1, SpdIndexType
        <3>3. spdIndex(p[q] + n) + (j - n) < SramWords
            BY <1>2, <2>2, <3>1, <3>2 DEF SpdFits
        <3>4. spdIndex((p[q] + n) + (j - n)) = spdIndex(p[q] + n) + (j - n)
            BY <3>1, <3>3, SpdShift
        <3>5. (p[q] + n) + (j - n) = p[q] + j
            BY <1>1, <3>1
        <3> QED
            BY <3>4, <3>5
    <2> QED
        BY <2>2, <2>3
<1>5. ASSUME ~OnSpd(f, p[q])
      PROVE  InRegion(p[q] + n) /\ \A j \in 0 .. N - 1 : p[q] + j \in Addr
    <2>1. p[q] + N - 1 <= MaxAddr
        BY <1>3, <1>5 DEF Fits
    <2>2. \A j \in 0 .. N - 1 : p[q] + j \in Addr
        BY <1>1, <2>1 DEF Addr
    <2>3. InRegion(p[q] + n)
        <3>1. n \in 0 .. N - 1
            BY <1>1
        <3> HIDE DEF N
        <3> QED
            BY <2>2, <3>1 DEF InRegion
    <2> QED
        BY <2>2, <2>3
<1> QED
    BY <1>2, <1>4, <1>5

(* Places and source words, by the kinds of memory they are in.            *)
LEMMA PlacesType ==
    ASSUME OneAtATime, NEW f \in Functions, NEW p \in Jobs[f], TypeOK
    PROVE  Places(f, p) \in [0 .. Size(f, p) - 1 ->
                               IF OnSpd(f, p[0]) THEN 0 .. SramWords - 1 ELSE Addr]
<1>1. Size(f, p) \in Nat /\ p[0] \in Nat /\ Transferable(f, p)
    BY CallTypes
<1>2. CASE OnSpd(f, p[0])
    <2>1. \A j \in 0 .. Size(f, p) - 1 : spdIndex(p[0] + j) \in 0 .. SramWords - 1
        BY <1>1, SpdIndexType
    <2> QED
        BY <1>2, <2>1 DEF Places
<1>3. CASE ~OnSpd(f, p[0])
    <2>1. Size(f, p) > 0 => p[0] + Size(f, p) - 1 <= MaxAddr
        BY <1>1, <1>3 DEF Transferable, Fits
    <2>2. \A j \in 0 .. Size(f, p) - 1 : p[0] + j \in Addr
        BY <1>1, <2>1 DEF Addr
    <2> QED
        BY <1>3, <2>2 DEF Places
<1> QED
    BY <1>2, <1>3

(* The words that are still to be read are what they were before the call: *)
(* nothing that has arrived has overwritten them.                          *)
LEMMA StillUnread ==
    ASSUME OneAtATime, NEW f \in Functions, NEW p \in Jobs[f], TypeOK,
           NEW n \in Nat, Arrived(f, p, n), NEW j \in n .. Size(f, p) - 1
    PROVE  /\ OnSpd(f, p[1]) =>
                sramArray[spdIndex(p[1] + j)] = SourceWord(f, p, before, j)
           /\ ~OnSpd(f, p[1]) => backing[p[1] + j] = before.dram[p[1] + j]
<1>1. Size(f, p) \in Nat /\ p[0] \in Nat /\ p[1] \in Nat /\ Transferable(f, p)
    BY CallTypes
<1>2. \A m \in 0 .. n - 1 : m \in 0 .. Size(f, p) - 1 /\ ~Overwrites(f, p, m, j)
    BY <1>1 DEF Transferable
<1>3. /\ DOMAIN before.sram = 0 .. SramWords - 1
      /\ DOMAIN before.dram = Addr
    BY DEF TypeOK
<1>4. ASSUME OnSpd(f, p[1])
      PROVE  sramArray[spdIndex(p[1] + j)] = SourceWord(f, p, before, j)
    <2> DEFINE k == spdIndex(p[1] + j)
    <2>1. k \in DOMAIN before.sram
        <3>1. p[1] + j \in Nat
            BY <1>1
        <3> QED
            BY <1>3, <3>1, SpdIndexType
    <2>2. CASE OnSpd(f, p[0])
        <3>1. \A m \in 0 .. n - 1 : Places(f, p)[m] # k
            BY <1>2, <1>4, <2>2 DEF Places, Overwrites
        <3>2. sramArray[k] = before.sram[k]
            BY <2>1, <2>2, <3>1 DEF Arrived, Copied
        <3> QED
            BY <1>4, <3>2 DEF SourceWord
    <2>3. CASE ~OnSpd(f, p[0])
        BY <1>4, <2>3 DEF Arrived, SourceWord
    <2> QED
        BY <2>2, <2>3
<1>5. ASSUME ~OnSpd(f, p[1])
      PROVE  backing[p[1] + j] = before.dram[p[1] + j]
    <2> DEFINE k == p[1] + j
    <2>1. k \in DOMAIN before.dram
        <3>1. p[1] + Size(f, p) - 1 <= MaxAddr
            BY <1>1, <1>5 DEF Transferable, Fits
        <3> QED
            BY <1>1, <1>3, <3>1 DEF Addr
    <2>2. CASE ~OnSpd(f, p[0])
        <3>1. \A m \in 0 .. n - 1 : Places(f, p)[m] # k
            BY <1>2, <1>5, <2>2 DEF Places, Overwrites
        <3> QED
            BY <2>1, <2>2, <3>1 DEF Arrived, Copied
    <2>3. CASE OnSpd(f, p[0])
        BY <2>3 DEF Arrived
    <2> QED
        BY <2>2, <2>3
<1> QED
    BY <1>4, <1>5

(* When the last word has arrived the memory is as the call promises.      *)
LEMMA AllArrived ==
    ASSUME OneAtATime, NEW f \in Functions, NEW p \in Jobs[f], TypeOK,
           Arrived(f, p, Size(f, p))
    PROVE  memory = Effect(f, p, before)
<1> DEFINE N == Size(f, p)
<1>1. N \in Nat /\ p[0] \in Nat /\ Transferable(f, p)
    BY CallTypes
<1>2. /\ before \in [sram : [0 .. SramWords - 1 -> Word], dram : [Addr -> Word]]
      /\ sramArray \in [0 .. SramWords - 1 -> Word]
      /\ backing \in [Addr -> Word]
    BY DEF TypeOK, DeviceTypeOK
<1>3. CASE OnSpd(f, p[0])
    <2>1. backing = before.dram
          /\ Copied(sramArray, before.sram, Places(f, p), SourceWords(f, p), N)
        BY <1>3 DEF Arrived
    <2>2. \A m \in 0 .. N - 1 : /\ Places(f, p)[m] = spdIndex(p[0] + m)
                               /\ SourceWords(f, p)[m] = SourceWord(f, p, before, m)
        BY <1>3 DEF Places, SourceWords
    <2> DEFINE new == [k \in DOMAIN before.sram |->
                         IF Arrivals(f, p, k) = {} THEN before.sram[k]
                         ELSE SourceWord(f, p, before, Latest(Arrivals(f, p, k)))]
    <2>3. ASSUME NEW k \in 0 .. SramWords - 1 PROVE sramArray[k] = new[k]
        <3>0. k \in DOMAIN before.sram
            BY <1>2
        <3>1. CASE Arrivals(f, p, k) = {}
            <4>1. \A m \in 0 .. N - 1 : Places(f, p)[m] # k
                BY <2>2, <3>1 DEF Arrivals
            <4> QED
                BY <2>1, <3>0, <3>1, <4>1 DEF Copied
        <3>2. CASE Arrivals(f, p, k) # {}
            <4> DEFINE T == Arrivals(f, p, k)
                       l == Latest(T)
            <4>1. T \in SUBSET (0 .. N) /\ T # {}
                BY <1>1, <3>2 DEF Arrivals
            <4>2. \E m \in T : \A j \in T : j <= m
                BY <1>1, <4>1, MaxGreatest
            <4>3. l \in T /\ \A j \in T : j <= l
                BY <4>2 DEF Latest
            <4>4. l \in 0 .. N - 1 /\ Places(f, p)[l] = k
                BY <2>2, <4>3 DEF Arrivals
            <4>5. \A j \in l + 1 .. N - 1 : Places(f, p)[j] # Places(f, p)[l]
                <5> SUFFICES ASSUME NEW j \in l + 1 .. N - 1, Places(f, p)[j] = k
                             PROVE  FALSE
                    BY <4>4
                <5>1. j \in 0 .. N - 1 /\ j > l
                    BY <1>1, <4>4
                <5>2. j \in T
                    BY <2>2, <5>1 DEF Arrivals
                <5>3. j <= l
                    BY <4>3, <5>2
                <5> QED
                    BY <1>1, <4>4, <5>1, <5>3
            <4>6. sramArray[k] = SourceWords(f, p)[l]
                BY <2>1, <4>4, <4>5 DEF Copied
            <4> QED
                BY <2>2, <3>0, <3>2, <4>4, <4>6
        <3> QED
            BY <3>1, <3>2
    <2>4. sramArray = new
        BY <1>2, <2>3
    <2>5. Effect(f, p, before) = [before EXCEPT !.sram = new]
        BY <1>3 DEF Effect
    <2> QED
        BY <1>2, <2>1, <2>4, <2>5 DEF memory
<1>4. CASE ~OnSpd(f, p[0])
    <2>1. sramArray = before.sram
          /\ Copied(backing, before.dram, Places(f, p), SourceWords(f, p), N)
        BY <1>4 DEF Arrived
    <2>2. \A m \in 0 .. N - 1 : /\ Places(f, p)[m] = p[0] + m
                               /\ SourceWords(f, p)[m] = SourceWord(f, p, before, m)
        BY <1>4 DEF Places, SourceWords
    <2> DEFINE new == [a \in DOMAIN before.dram |->
                         IF a \in p[0] .. p[0] + N - 1
                         THEN SourceWord(f, p, before, a - p[0])
                         ELSE before.dram[a]]
    <2>3. ASSUME NEW a \in Addr PROVE backing[a] = new[a]
        <3>0. a \in DOMAIN before.dram /\ a \in Nat
            BY <1>2 DEF Addr
        <3>1. CASE a \notin p[0] .. p[0] + N - 1
            <4>1. \A m \in 0 .. N - 1 : Places(f, p)[m] # a
                BY <1>1, <2>2, <3>1
            <4> QED
                BY <2>1, <3>0, <3>1, <4>1 DEF Copied
        <3>2. CASE a \in p[0] .. p[0] + N - 1
            <4>1. a - p[0] \in 0 .. N - 1 /\ p[0] + (a - p[0]) = a
                BY <1>1, <3>0, <3>2
            <4>2. Places(f, p)[a - p[0]] = a
                BY <2>2, <4>1
            <4>3. \A j \in a - p[0] + 1 .. N - 1 : Places(f, p)[j] # a
                <5> SUFFICES ASSUME NEW j \in a - p[0] + 1 .. N - 1 PROVE Places(f, p)[j] # a
                    OBVIOUS
                <5>1. j \in 0 .. N - 1 /\ p[0] + j # a
                    BY <1>1, <3>0, <4>1
                <5> QED
                    BY <2>2, <5>1
            <4>4. backing[a] = SourceWords(f, p)[a - p[0]]
                BY <2>1, <4>1, <4>2, <4>3 DEF Copied
            <4> QED
                BY <2>2, <3>0, <3>2, <4>1, <4>4
        <3> QED
            BY <3>1, <3>2
    <2>4. backing = new
        BY <1>2, <2>3
    <2>5. Effect(f, p, before) = [before EXCEPT !.dram = new]
        BY <1>4 DEF Effect
    <2> QED
        BY <1>2, <2>1, <2>4, <2>5 DEF memory
<1> QED
    BY <1>3, <1>4

(* A function that runs is the only one in use, and it runs for a call its *)
(* host thread waits for.                                                  *)
LEMMA RunningAlone ==
    ASSUME CallInv, NEW f \in Functions, running(f)
    PROVE  /\ hpc[f] = "finish" /\ params[f] \in Jobs[f]
           /\ \A g \in Functions : running(g) => g = f
           /\ \A g \in Functions : hpc[g] # "idle" => g = f
<1>1. \A g \in Functions : running(g) => hpc[g] = "finish" /\ params[g] = job[g]
    <2> SUFFICES ASSUME NEW g \in Functions, running(g)
                 PROVE  hpc[g] = "finish" /\ params[g] = job[g]
        OBVIOUS
    <2>1. hpc[g] \in {"idle", "init", "run", "finish"}
        BY DEF CallInv, IInv, TypeOK
    <2>2. fstate[g] \notin {INVALID, DONE, INITIALIZING, READY}
        BY StatesDiffer DEF running
    <2> QED
        BY <2>1, <2>2 DEF CallInv, IInv, InStep, AssertionsHold
<1> QED
    BY <1>1 DEF CallInv, OneInUse

(* When no thread waits for its function, none runs.                       *)
LEMMA NoneRunning ==
    IInv /\ AssertionsHold /\ (\A g \in Functions : hpc[g] # "finish")
        => \A g \in Functions : ~running(g)
<1> SUFFICES ASSUME IInv, AssertionsHold, NEW g \in Functions, hpc[g] # "finish", running(g)
             PROVE  FALSE
    OBVIOUS
<1>1. hpc[g] \in {"idle", "init", "run", "finish"}
    BY DEF IInv, TypeOK
<1>2. fstate[g] \notin {INVALID, DONE, INITIALIZING, READY}
    BY StatesDiffer DEF running
<1> QED
    BY <1>1, <1>2 DEF IInv, InStep, AssertionsHold

(* A step of the engine of f keeps the invariant if it keeps to the        *)
(* transfer.                                                               *)
LEMMA TransferStep ==
    ASSUME CallInv, NEW f \in Functions, running(f), IInv',
           UNCHANGED <<fsmVars, hostVars, fault>>, InTransfer(f)'
    PROVE  CallInv'
<1>1. AssertionsHold' /\ OneInUse'
    BY DEF CallInv, AssertionsHold, OneInUse, hostVars
<1>2. ASSUME NEW g \in Functions PROVE InTransfer(g)'
    <2>1. CASE g = f
        BY <2>1
    <2>2. CASE g # f
        <3>1. ~running(g)
            BY <2>2, RunningAlone
        <3>2. ~running(g)'
            BY <3>1 DEF running, fsmVars
        <3> QED
            BY <3>2 DEF InTransfer
    <2> QED
        BY <2>1, <2>2
<1> QED
    BY <1>1, <1>2 DEF CallInv

(* How far the transfer is, as far as both its ends are concerned.         *)
LEMMA NextChunk ==
    ASSUME OneAtATime, TypeOK, NEW f \in Functions, NEW p \in Jobs[f],
           NEW n, n = Size(f, p) - word_counter[f], Transfer(f, p, n)
    PROVE  /\ n \in Nat /\ n <= Size(f, p)
           /\ ReadsSram(f) = OnSpd(f, p[1]) /\ WritesSram(f) = OnSpd(f, p[0])
           /\ word_counter[f] > 0 =>
                /\ \E k \in 0 .. Size(f, p) : n = k * ChunkWords
                /\ n < Size(f, p) /\ n + words(f) <= Size(f, p)
                /\ words(f) \in Nat /\ words(f) > 0
                /\ words(f) = Chunk(Size(f, p) - n)
                /\ word_counter[f] - words(f) \in Nat
                /\ Size(f, p) - (word_counter[f] - words(f)) = n + words(f)
                /\ word_counter[f] - words(f) > 0 =>
                      \E k \in 0 .. Size(f, p) : n + words(f) = k * ChunkWords
<1>1. Size(f, p) \in Nat
    BY CallTypes
<1>2. word_counter[f] \in Nat /\ n \in Nat /\ n <= Size(f, p)
    <2>1. word_counter[f] \in Nat
        BY DEF TypeOK, DeviceTypeOK
    <2>2. n \in Nat
        BY DEF Transfer
    <2>3. \A N, w \in Nat : n = N - w => n <= N
        BY <2>2
    <2> QED
        BY <1>1, <2>1, <2>2, <2>3
<1>3. ReadsSram(f) = OnSpd(f, p[1]) /\ WritesSram(f) = OnSpd(f, p[0])
    BY DEF Transfer, Engine, ReadsSram, WritesSram, OnSpd, TypeOK, DeviceTypeOK
<1>4. ASSUME word_counter[f] > 0
      PROVE  /\ \E k \in 0 .. Size(f, p) : n = k * ChunkWords
             /\ n < Size(f, p) /\ n + words(f) <= Size(f, p)
             /\ words(f) \in Nat /\ words(f) > 0
             /\ words(f) = Chunk(Size(f, p) - n)
             /\ word_counter[f] - words(f) \in Nat
             /\ Size(f, p) - (word_counter[f] - words(f)) = n + words(f)
             /\ word_counter[f] - words(f) > 0 =>
                   \E k \in 0 .. Size(f, p) : n + words(f) = k * ChunkWords
    <2>1. PICK k \in 0 .. Size(f, p) : n = k * ChunkWords
        BY <1>4 DEF Transfer, Engine
    <2>2. Size(f, p) - n = word_counter[f]
        BY <1>1, <1>2
    <2>3. words(f) = Chunk(Size(f, p) - n)
        BY <2>2 DEF words, Chunk
    <2>4. /\ words(f) \in Nat /\ words(f) > 0 /\ word_counter[f] - words(f) \in Nat
          /\ n < Size(f, p) /\ n + words(f) <= Size(f, p)
          /\ Size(f, p) - (word_counter[f] - words(f)) = n + words(f)
        BY <1>1, <1>2, <1>4 DEF words
    <2>5. ASSUME word_counter[f] - words(f) > 0
          PROVE  \E j \in 0 .. Size(f, p) : n + words(f) = j * ChunkWords
        <3>1. words(f) = ChunkWords
            BY <1>2, <2>5 DEF words
        <3>2. n + words(f) = (k + 1) * ChunkWords
            BY <2>1, <3>1
        <3>3. n + words(f) < Size(f, p)
            BY <1>1, <1>2, <2>4, <2>5
        <3>4. k + 1 <= (k + 1) * ChunkWords
            BY <2>1
        <3>5. k + 1 \in 0 .. Size(f, p)
            BY <1>1, <2>1, <3>2, <3>3, <3>4
        <3> QED
            BY <3>2, <3>5
    <2> QED
        BY <2>1, <2>3, <2>4, <2>5
<1> QED
    BY <1>2, <1>3, <1>4

(* The request the engine of f issues, with what it carries.               *)
LEMMA IssuedRequest ==
    ASSUME NEW f \in Functions, NEW wr \in BOOLEAN, NEW a, NEW next,
           issueDRAMRequest(f, wr, a, next), EventsOf(f) = {}
    PROVE  \A e \in EventsOf(f)' :
              (e.wr <=> wr) /\ e.addr = a /\ e.data = Resized(words(f))
<1>1. PICK i \in EventIds :
        pendingPIMEvents' = pendingPIMEvents \cup
            {[id |-> i, fn |-> f, wr |-> wr, addr |-> a,
              data |-> Resized(words(f)), next |-> next]}
    BY DEF issueDRAMRequest
<1> DEFINE new == [id |-> i, fn |-> f, wr |-> wr, addr |-> a,
                   data |-> Resized(words(f)), next |-> next]
<1>2. EventsOf(f)' = {new}
    BY <1>1 DEF EventsOf
<1>3. (new.wr <=> wr) /\ new.addr = a /\ new.data = Resized(words(f))
    OBVIOUS
<1> QED
    BY <1>2, <1>3

(* The resize leaves a buffer of the right size alone.                     *)
LEMMA ResizedSame ==
    ASSUME buffer \in Seq(Word), NEW n \in Nat, Len(buffer) = n
    PROVE  Resized(n) = buffer
<1>1. DOMAIN buffer = 1 .. n /\ buffer = [i \in 1 .. n |-> buffer[i]]
    BY SeqParts
<1>2. Resized(n) = [i \in 1 .. n |-> buffer[i]]
    BY DEF Resized
<1> QED
    BY <1>1, <1>2

(* What has arrived stays while the memory does.                           *)
LEMMA ArrivedStays ==
    ASSUME UNCHANGED <<sramArray, backing, before>>, NEW f, NEW p, NEW n,
           Arrived(f, p, n)
    PROVE  Arrived(f, p, n)'
BY DEF Arrived, Copied, Places, SourceWords

LEMMA CarriesStays ==
    ASSUME UNCHANGED before, NEW data, NEW f, NEW p, NEW n, Carries(data, f, p, n)
    PROVE  Carries(data, f, p, n)'
BY DEF Carries

(* The transfer of the engine of f, once it is known how far it is.        *)
LEMMA TransferGoesOn ==
    ASSUME CallInv, NEW f \in Functions, running(f), IInv',
           UNCHANGED <<fsmVars, hostVars, fault>>,
           NEW p, p = params[f], NEW m, m = Size(f, p) - word_counter'[f],
           dma_state'[f] # "IDLE", Transfer(f, p, m)'
    PROVE  CallInv'
<1>1. params'[f] = p
    BY DEF fsmVars
<1>2. Transfer(f, params[f], Size(f, params[f]) - word_counter[f])'
    BY <1>1
<1>3. InTransfer(f)'
    BY <1>2 DEF InTransfer
<1> QED
    BY <1>3, TransferStep

(* The state of a running engine that is not idle.                         *)
LEMMA TransferNow ==
    ASSUME OneAtATime, CallInv, NEW f \in Functions, running(f), dma_state[f] # "IDLE"
    PROVE  /\ TypeOK /\ DeviceTypeOK
           /\ \E p \in Jobs[f], n \in Nat :
                 /\ p = params[f] /\ n = Size(f, p) - word_counter[f]
                 /\ Transfer(f, p, n)
<1>1. TypeOK /\ DeviceTypeOK
    BY DEF CallInv, IInv, TypeOK
<1>2. Transfer(f, params[f], Size(f, params[f]) - word_counter[f])
    BY DEF CallInv, InTransfer
<1>3. Size(f, params[f]) - word_counter[f] \in Nat
    BY <1>2 DEF Transfer
<1>4. params[f] \in Jobs[f]
    BY RunningAlone
<1> QED
    BY <1>1, <1>2, <1>3, <1>4

(* A read from DRAM is issued for the next words of the source.            *)
LEMMA IssueReadCall ==
    ASSUME OneAtATime, CallInv, NEW f \in Functions, running(f), IssueRead(f),
           UNCHANGED hostVars
    PROVE  CallInv'
<1>0. dma_state[f] = "READ" /\ ~ReadsSram(f)
    BY DEF IssueRead
<1>. TypeOK /\ DeviceTypeOK
    BY <1>0, TransferNow
<1>1. PICK p \in Jobs[f], n \in Nat :
        p = params[f] /\ n = Size(f, p) - word_counter[f] /\ Transfer(f, p, n)
    BY <1>0, TransferNow
<1>2. Reading(f, p, n) /\ Engine(f, p, n)
    BY <1>0, <1>1 DEF Transfer
<1>3. /\ ~OnSpd(f, p[1]) /\ word_counter[f] > 0 /\ src[f] = p[1] + n
      /\ \E k \in 0 .. Size(f, p) : n = k * ChunkWords
      /\ n < Size(f, p) /\ words(f) \in Nat /\ words(f) = Chunk(Size(f, p) - n)
    BY <1>0, <1>1, <1>2, NextChunk DEF Reading
<1>4. InRegion(src[f])
    <2>1. 1 \in {0, 1}
        OBVIOUS
    <2> QED
        BY <1>1, <1>3, <2>1, ChunkInPlace
<1>5. /\ issueDRAMRequest(f, FALSE, src[f], "WRITE")
      /\ buffer' = Resized(words(f))
      /\ dma_state' = [dma_state EXCEPT ![f] = "WAITING"]
      /\ src' = [src EXCEPT ![f] = @ + words(f)]
      /\ UNCHANGED <<fsmVars, word_counter, dst, scalar, src_is_sram,
                     dst_is_sram, sramArray, backing, fault>>
    BY <1>4 DEF IssueRead
<1>6. EventsOf(f) = {}
    BY <1>0 DEF CallInv, IInv, OneEventPerWait, WaitMatches
<1>7. \A e \in EventsOf(f)' : ~e.wr /\ e.addr = src[f] /\ e.data = Resized(words(f))
    <2>1. FALSE \in BOOLEAN /\ issueDRAMRequest(f, FALSE, src[f], "WRITE")
        BY <1>5
    <2> QED
        BY <1>6, <2>1, IssuedRequest
<1>8. Len(Resized(words(f))) = words(f)
    BY <1>3, ResizedType DEF DeviceTypeOK
<1>9. dma_state'[f] = "WAITING" /\ src'[f] = p[1] + n + words(f)
    BY <1>3, <1>5 DEF DeviceTypeOK
<1>10. Arrived(f, p, n)'
    BY <1>2, <1>5, ArrivedStays DEF Reading, hostVars
<1>11. words(f)' = words(f)
    BY <1>5 DEF words
<1>12. \A e \in EventsOf(f)' : AwaitsRead(f, p, n, e)'
    BY <1>3, <1>5, <1>7, <1>8, <1>9, <1>10, <1>11 DEF AwaitsRead
<1>13. Transfer(f, p, n)'
    BY <1>1, <1>2, <1>5, <1>7, <1>9, <1>12 DEF Transfer, Engine, Awaits
<1>14. IInv'
    BY IssueReadIInv DEF CallInv
<1> QED
    BY <1>1, <1>5, <1>9, <1>13, <1>14, TransferGoesOn

(* A read from the scratch-pad takes the next words of the source, as they *)
(* were before the call.                                                   *)
LEMMA ReadSramCall ==
    ASSUME OneAtATime, CallInv, NEW f \in Functions, running(f), ReadSram(f),
           UNCHANGED hostVars
    PROVE  CallInv'
<1>0. dma_state[f] = "READ" /\ ReadsSram(f)
    BY DEF ReadSram
<1>. TypeOK /\ DeviceTypeOK
    BY <1>0, TransferNow
<1>1. PICK p \in Jobs[f], n \in Nat :
        p = params[f] /\ n = Size(f, p) - word_counter[f] /\ Transfer(f, p, n)
    BY <1>0, TransferNow
<1>2. Reading(f, p, n) /\ Engine(f, p, n)
    BY <1>0, <1>1 DEF Transfer
<1>3. /\ OnSpd(f, p[1]) /\ word_counter[f] > 0 /\ src[f] = p[1] + n
      /\ \E k \in 0 .. Size(f, p) : n = k * ChunkWords
      /\ n < Size(f, p) /\ words(f) \in Nat /\ words(f) = Chunk(Size(f, p) - n)
      /\ n + words(f) <= Size(f, p)
    BY <1>0, <1>1, <1>2, NextChunk DEF Reading
<1>4. /\ decode(src[f]) = "SRAM" /\ SpdFits(src[f], words(f))
      /\ \A j \in n .. n + words(f) - 1 :
            spdIndex(p[1] + j) = spdIndex(src[f]) + (j - n)
    <2>1. 1 \in {0, 1}
        OBVIOUS
    <2> QED
        BY <1>1, <1>3, <2>1, ChunkInPlace
<1>5. /\ buffer' = read(src[f], words(f))
      /\ dma_state' = [dma_state EXCEPT ![f] = "WRITE"]
      /\ src' = [src EXCEPT ![f] = @ + words(f)]
      /\ UNCHANGED <<fsmVars, word_counter, dst, scalar, src_is_sram,
                     dst_is_sram, sramArray, backing, fault>>
    BY <1>4 DEF ReadSram, ReadOk
<1>6. buffer' = [i \in 1 .. words(f) |-> sramArray[spdIndex(src[f]) + i - 1]]
    BY <1>4, <1>5 DEF read
<1>7. IInv'
    BY ReadSramIInv DEF CallInv
<1>8. Len(buffer') = words(f)
    <2>1. buffer' \in Seq(Word)
        BY <1>7 DEF IInv, TypeOK, DeviceTypeOK
    <2> QED
        BY <1>3, <1>6, <2>1, LenProperties
<1>9. \A i \in 1 .. words(f) : buffer'[i] = SourceWord(f, p, before, n + i - 1)
    <2> TAKE i \in 1 .. words(f)
    <2> DEFINE j == n + i - 1
    <2>1. j \in n .. n + words(f) - 1 /\ j \in n .. Size(f, p) - 1 /\ j - n = i - 1
        BY <1>3, CallTypes
    <2>2. spdIndex(p[1] + j) = spdIndex(src[f]) + (i - 1)
        BY <1>4, <2>1
    <2>3. sramArray[spdIndex(p[1] + j)] = SourceWord(f, p, before, j)
        BY <1>1, <1>2, <1>3, <2>1, StillUnread DEF Reading
    <2>4. spdIndex(src[f]) \in Nat
        <3>1. src[f] \in Nat
            BY DEF DeviceTypeOK
        <3> QED
            BY <3>1, SpdIndexType
    <2>5. spdIndex(src[f]) + i - 1 = spdIndex(src[f]) + (i - 1)
        BY <1>3, <2>4
    <2> QED
        BY <1>6, <2>2, <2>3, <2>5
<1>10. /\ dma_state'[f] = "WRITE" /\ src'[f] = p[1] + n + words(f)
       /\ words(f)' = words(f)
    BY <1>3, <1>5 DEF DeviceTypeOK, words
<1>11. Arrived(f, p, n)'
    BY <1>2, <1>5, ArrivedStays DEF Reading, hostVars
<1>12. Carries(buffer, f, p, n)'
    BY <1>8, <1>9 DEF Carries, hostVars
<1>13. Writing(f, p, n)'
    BY <1>3, <1>5, <1>8, <1>10, <1>11, <1>12 DEF Writing
<1>14. Transfer(f, p, n)'
    BY <1>1, <1>2, <1>5, <1>10, <1>13 DEF Transfer, Engine
<1> QED
    BY <1>1, <1>5, <1>7, <1>10, <1>14, TransferGoesOn

(* A write to DRAM is issued with the words in the buffer, for the next    *)
(* places.                                                                 *)
LEMMA IssueWriteCall ==
    ASSUME OneAtATime, CallInv, NEW f \in Functions, running(f), IssueWrite(f),
           UNCHANGED hostVars
    PROVE  CallInv'
<1>0. dma_state[f] = "WRITE" /\ ~WritesSram(f)
    BY DEF IssueWrite
<1>. TypeOK /\ DeviceTypeOK
    BY <1>0, TransferNow
<1>1. PICK p \in Jobs[f], n \in Nat :
        p = params[f] /\ n = Size(f, p) - word_counter[f] /\ Transfer(f, p, n)
    BY <1>0, TransferNow
<1>2. Writing(f, p, n) /\ Engine(f, p, n)
    BY <1>0, <1>1 DEF Transfer
<1>3. /\ ~OnSpd(f, p[0]) /\ word_counter[f] > 0
      /\ \E k \in 0 .. Size(f, p) : n = k * ChunkWords
      /\ n < Size(f, p) /\ words(f) \in Nat /\ words(f) = Chunk(Size(f, p) - n)
      /\ word_counter[f] - words(f) \in Nat
      /\ Size(f, p) - (word_counter[f] - words(f)) = n + words(f)
      /\ word_counter[f] - words(f) > 0 =>
            \E k \in 0 .. Size(f, p) : n + words(f) = k * ChunkWords
    <2>1. word_counter[f] > 0
        BY <1>2 DEF Writing
    <2> QED
        BY <1>0, <1>1, <2>1, NextChunk
<1>4. dst[f] = p[0] + n /\ InRegion(dst[f])
    <2>1. 0 \in {0, 1}
        OBVIOUS
    <2> QED
        BY <1>1, <1>2, <1>3, <2>1, ChunkInPlace DEF Engine
<1>c. PICK c \in Nat : c = words(f)
    BY <1>3
<1>5. /\ issueDRAMRequest(f, TRUE, dst[f], nextState(f))
      /\ dma_state' = [dma_state EXCEPT ![f] = "WAITING"]
      /\ word_counter' = [word_counter EXCEPT ![f] = @ - c]
      /\ dst' = [dst EXCEPT ![f] = @ + c]
      /\ UNCHANGED <<fsmVars, src, scalar, src_is_sram, dst_is_sram,
                     sramArray, backing, fault>>
    BY <1>4, <1>c DEF IssueWrite
<1>6. EventsOf(f) = {}
    BY <1>0 DEF CallInv, IInv, OneEventPerWait, WaitMatches
<1>7. Resized(c) = buffer /\ Len(buffer) = c /\ buffer' = buffer
    <2>1. buffer' = Resized(c)
        BY <1>4, <1>c DEF IssueWrite
    <2>2. Len(buffer) = c
        BY <1>2, <1>c DEF Writing
    <2> QED
        BY <2>1, <2>2, ResizedSame DEF DeviceTypeOK
<1>8. \A e \in EventsOf(f)' : e.wr /\ e.addr = dst[f] /\ e.data = buffer
    <2>1. TRUE \in BOOLEAN /\ issueDRAMRequest(f, TRUE, dst[f], nextState(f))
        BY <1>5
    <2>2. \A e \in EventsOf(f)' : e.wr /\ e.addr = dst[f] /\ e.data = Resized(words(f))
        BY <1>6, <2>1, IssuedRequest
    <2> QED
        BY <1>7, <1>c, <2>2
<1>9. /\ dma_state'[f] = "WAITING" /\ dst'[f] = p[0] + (n + c)
      /\ word_counter'[f] = word_counter[f] - c
    <2>1. p[0] \in Nat
        BY CallTypes
    <2>2. dst'[f] = dst[f] + c /\ word_counter'[f] = word_counter[f] - c
        BY <1>5 DEF DeviceTypeOK
    <2>3. dma_state'[f] = "WAITING"
        BY <1>5 DEF DeviceTypeOK
    <2>4. (p[0] + n) + c = p[0] + (n + c)
        BY <2>1
    <2> QED
        BY <1>4, <2>2, <2>3, <2>4
<1>10. src'[f] = p[1] + (n + c)
    <2>1. p[1] \in Nat
        BY CallTypes
    <2> QED
        BY <1>2, <1>3, <1>5, <1>c, <2>1 DEF Writing
<1>11. (n + c) - c = n /\ c <= n + c /\ n + c \in Nat
    BY <1>3
<1>12. Arrived(f, p, n)' /\ Carries(buffer, f, p, n)'
    <2>1. Arrived(f, p, n)'
        BY <1>2, <1>5, ArrivedStays DEF Writing, hostVars
    <2>2. Carries(buffer, f, p, n)
        BY <1>2 DEF Writing
    <2> QED
        BY <1>7, <2>1, <2>2 DEF Carries, hostVars
<1>13. \A e \in EventsOf(f)' : AwaitsWrite(f, p, n + c, e)'
    BY <1>3, <1>4, <1>7, <1>8, <1>10, <1>11, <1>12, <1>c DEF AwaitsWrite
<1>14. Engine(f, p, n + c)'
    BY <1>2, <1>3, <1>5, <1>9, <1>c DEF Engine
<1>15. Transfer(f, p, n + c)'
    BY <1>8, <1>9, <1>11, <1>13, <1>14 DEF Transfer, Awaits
<1>16. IInv'
    BY IssueWriteIInv DEF CallInv
<1> QED
    BY <1>1, <1>3, <1>5, <1>9, <1>15, <1>16, <1>c, TransferGoesOn

(* A write to the scratch-pad puts the words of the buffer in the next     *)
(* places.                                                                 *)
LEMMA WriteSramCall ==
    ASSUME OneAtATime, CallInv, NEW f \in Functions, running(f), WriteSram(f),
           UNCHANGED hostVars
    PROVE  CallInv'
<1>0. dma_state[f] = "WRITE" /\ WritesSram(f)
    BY DEF WriteSram
<1>. TypeOK /\ DeviceTypeOK
    BY <1>0, TransferNow
<1>1. PICK p \in Jobs[f], n \in Nat :
        p = params[f] /\ n = Size(f, p) - word_counter[f] /\ Transfer(f, p, n)
    BY <1>0, TransferNow
<1>2. Writing(f, p, n) /\ Engine(f, p, n)
    BY <1>0, <1>1 DEF Transfer
<1>3. /\ OnSpd(f, p[0]) /\ word_counter[f] > 0
      /\ \E k \in 0 .. Size(f, p) : n = k * ChunkWords
      /\ n < Size(f, p) /\ n + words(f) <= Size(f, p)
      /\ words(f) \in Nat /\ words(f) = Chunk(Size(f, p) - n)
      /\ word_counter[f] - words(f) \in Nat
      /\ Size(f, p) - (word_counter[f] - words(f)) = n + words(f)
      /\ word_counter[f] - words(f) > 0 =>
            \E k \in 0 .. Size(f, p) : n + words(f) = k * ChunkWords
    <2>1. word_counter[f] > 0
        BY <1>2 DEF Writing
    <2> QED
        BY <1>0, <1>1, <2>1, NextChunk
<1>c. PICK c \in Nat : c = words(f)
    BY <1>3
<1>a. p[0] \in Nat /\ p[1] \in Nat /\ Size(f, p) \in Nat
    BY CallTypes
<1>4. /\ dst[f] = p[0] + n /\ decode(dst[f]) = "SRAM" /\ SpdFits(dst[f], c)
      /\ \A j \in n .. n + c - 1 : spdIndex(p[0] + j) = spdIndex(dst[f]) + (j - n)
    <2>1. 0 \in {0, 1}
        OBVIOUS
    <2>2. dst[f] = p[0] + n
        BY <1>2 DEF Engine
    <2> QED
        BY <1>1, <1>3, <1>c, <2>1, <2>2, ChunkInPlace
<1>5. /\ sramArray' = SpdWrite(dst[f], Resized(c))
      /\ dma_state' = [dma_state EXCEPT ![f] = nextState(f)]
      /\ word_counter' = [word_counter EXCEPT ![f] = @ - c]
      /\ dst' = [dst EXCEPT ![f] = @ + c]
      /\ UNCHANGED <<fsmVars, src, scalar, src_is_sram, dst_is_sram,
                     backing, fault>>
    BY <1>4, <1>c DEF WriteSram
<1>6. Resized(c) = buffer /\ Len(buffer) = c
    BY <1>2, <1>c, ResizedSame DEF Writing, DeviceTypeOK
<1>7. /\ dma_state'[f] = nextState(f) /\ dst'[f] = p[0] + (n + c)
      /\ word_counter'[f] = word_counter[f] - c
    <2>1. dst'[f] = dst[f] + c /\ word_counter'[f] = word_counter[f] - c
        BY <1>5 DEF DeviceTypeOK
    <2>2. dma_state'[f] = nextState(f)
        BY <1>5 DEF DeviceTypeOK
    <2>3. (p[0] + n) + c = p[0] + (n + c)
        BY <1>a
    <2> QED
        BY <1>4, <2>1, <2>2, <2>3
<1>8. src'[f] = p[1] + (n + c)
    BY <1>2, <1>5, <1>a, <1>c DEF Writing
<1>9. Arrived(f, p, n + c)'
    <2> DEFINE x == spdIndex(dst[f])
    <2>1. x \in 0 .. SramWords - 1 /\ x + c <= SramWords
        <3>1. dst[f] \in Nat
            BY DEF DeviceTypeOK
        <3> QED
            BY <1>4, <3>1, SpdIndexType DEF SpdFits
    <2>2. /\ DOMAIN sramArray = 0 .. SramWords - 1
          /\ DOMAIN before.sram = 0 .. SramWords - 1
        BY DEF DeviceTypeOK, TypeOK
    <2>3. sramArray' = [k \in 0 .. SramWords - 1 |->
                          IF k \in x .. x + c - 1 THEN buffer[k - x + 1]
                          ELSE sramArray[k]]
        BY <1>5, <1>6, <2>2 DEF SpdWrite
    <2>4. Places(f, p) \in [0 .. Size(f, p) - 1 -> 0 .. SramWords - 1]
        BY <1>3, PlacesType
    <2>5. ASSUME NEW j \in n .. n + c - 1
          PROVE  /\ Places(f, p)[j] = x + (j - n)
                 /\ SourceWords(f, p)[j] = SourceWord(f, p, before, j)
                 /\ buffer[j - n + 1] = SourceWord(f, p, before, j)
        <3>1. j \in 0 .. Size(f, p) - 1
            BY <1>3, <1>a, <1>c
        <3>2. j - n + 1 \in 1 .. c /\ n + (j - n + 1) - 1 = j
            OBVIOUS
        <3>3. buffer[j - n + 1] = SourceWord(f, p, before, n + (j - n + 1) - 1)
            BY <1>2, <1>6, <3>2 DEF Writing, Carries
        <3> QED
            BY <1>3, <1>4, <3>1, <3>2, <3>3 DEF Places, SourceWords
    <2>6. Copied(sramArray, before.sram, Places(f, p), SourceWords(f, p), n)
        BY <1>2, <1>3 DEF Writing, Arrived
    <2>7. ASSUME NEW k \in 0 .. SramWords - 1, \A j \in n .. n + c - 1 : Places(f, p)[j] # k
          PROVE  sramArray'[k] = sramArray[k]
        <3>1. k \notin x .. x + c - 1
            <4> SUFFICES ASSUME k \in x .. x + c - 1 PROVE FALSE
                OBVIOUS
            <4>1. n + (k - x) \in n .. n + c - 1 /\ x + ((n + (k - x)) - n) = k
                BY <2>1
            <4> QED
                BY <2>5, <2>7, <4>1
        <3> QED
            BY <2>3, <3>1
    <2>8. \A j \in n .. n + c - 1 : sramArray'[Places(f, p)[j]] = SourceWords(f, p)[j]
        <3> TAKE j \in n .. n + c - 1
        <3>1. /\ x + (j - n) \in x .. x + c - 1 /\ x + (j - n) \in 0 .. SramWords - 1
              /\ (x + (j - n)) - x + 1 = j - n + 1
            BY <2>1
        <3>2. sramArray'[x + (j - n)] = buffer[j - n + 1]
            BY <2>3, <3>1
        <3> QED
            BY <2>5, <3>2
    <2>9. Copied(sramArray', before.sram, Places(f, p), SourceWords(f, p), n + c)
        <3>1. n + c <= Size(f, p) /\ n <= n + c /\ n + c \in Nat
            BY <1>3, <1>c
        <3>2. ChunkArrives(sramArray', sramArray, Places(f, p), SourceWords(f, p), n, n + c)
            <4>1. \A k \in DOMAIN sramArray :
                    (\A j \in n .. n + c - 1 : Places(f, p)[j] # k)
                        => sramArray'[k] = sramArray[k]
                BY <2>2, <2>7
            <4> QED
                BY <2>8, <4>1 DEF ChunkArrives
        <3> QED
            BY <1>a, <2>2, <2>4, <2>6, <3>1, <3>2, CopiedMore
    <2>10. before' = before /\ backing' = before.dram
        BY <1>2, <1>3, <1>5 DEF hostVars, Writing, Arrived
    <2> QED
        BY <1>3, <2>9, <2>10 DEF Arrived, SourceWords, Places
<1>10. Engine(f, p, n + c)'
    BY <1>2, <1>3, <1>5, <1>7, <1>c DEF Engine
<1>11. Transfer(f, p, n + c)'
    <2>1. CASE word_counter[f] - c > 0
        <3>1. dma_state'[f] = "READ"
            BY <1>7, <1>c, <2>1 DEF nextState
        <3> QED
            BY <1>7, <1>8, <1>9, <1>10, <2>1, <3>1 DEF Transfer, Reading
    <2>2. CASE ~(word_counter[f] - c > 0)
        <3>1. dma_state'[f] = "DONE" /\ word_counter'[f] = 0
            BY <1>3, <1>7, <1>c, <2>2 DEF nextState
        <3> QED
            BY <1>7, <1>9, <1>10, <3>1 DEF Transfer
    <2> QED
        BY <2>1, <2>2
<1>12. IInv'
    BY WriteSramIInv DEF CallInv
<1>13. dma_state'[f] # "IDLE"
    BY <1>7 DEF nextState
<1> QED
    BY <1>1, <1>3, <1>5, <1>7, <1>11, <1>12, <1>13, <1>c, TransferGoesOn

(* The visits to an engine that waits, or that has nothing to do.          *)
LEMMA EngineWaitCall ==
    ASSUME OneAtATime, CallInv, NEW f \in Functions, running(f), EngineWait(f),
           UNCHANGED hostVars
    PROVE  CallInv'
<1>0. /\ dma_state[f] \in {"IDLE", "WAITING"} /\ buffer' = Resized(words(f))
      /\ UNCHANGED <<fsmVars, dmaVars, sramArray, backing, pendingPIMEvents, fault>>
    BY DEF EngineWait
<1>1. IInv'
    BY EngineWaitIInv DEF CallInv
<1> USE DEF hostVars, fsmVars, dmaVars
<1>2. CASE dma_state[f] = "IDLE"
    <2>1. InTransfer(f)'
        BY <1>0, <1>2 DEF CallInv, InTransfer, memory
    <2> QED
        BY <1>0, <1>1, <2>1, TransferStep
<1>3. CASE dma_state[f] = "WAITING"
    <2>. TypeOK /\ DeviceTypeOK
        BY <1>3, TransferNow
    <2>1. PICK p \in Jobs[f], n \in Nat :
            p = params[f] /\ n = Size(f, p) - word_counter[f] /\ Transfer(f, p, n)
        BY <1>3, TransferNow
    <2>2. words(f)' = words(f) /\ words(f) \in Nat
        BY <1>0, WordsType DEF words, DeviceTypeOK
    <2>3. Len(buffer') = words(f)
        BY <1>0, <2>2, ResizedType DEF DeviceTypeOK
    <2>4. EventsOf(f)' = EventsOf(f)
        BY <1>0 DEF EventsOf
    <2>5. ASSUME NEW m, Arrived(f, p, m) PROVE Arrived(f, p, m)'
        BY <1>0, <2>5, ArrivedStays
    <2>6. ASSUME NEW e \in EventsOf(f), AwaitsRead(f, p, n, e)
          PROVE  AwaitsRead(f, p, n, e)'
        BY <1>0, <2>2, <2>3, <2>5, <2>6 DEF AwaitsRead
    <2>7. ASSUME NEW e \in EventsOf(f), AwaitsWrite(f, p, n, e)
          PROVE  AwaitsWrite(f, p, n, e)'
        BY <1>0, <2>5, <2>7, CarriesStays DEF AwaitsWrite
    <2>8. Awaits(f, p, n)'
        BY <1>3, <2>1, <2>4, <2>6, <2>7 DEF Transfer, Awaits
    <2>9. Transfer(f, p, n)'
        BY <1>0, <1>3, <2>1, <2>8 DEF Transfer, Engine
    <2> QED
        BY <1>0, <1>1, <1>3, <2>1, <2>9, TransferGoesOn
<1> QED
    BY <1>0, <1>2, <1>3

(* A completion comes to the one engine that waits for it.                 *)
LEMMA CompletionComes ==
    ASSUME CallInv, NEW e \in pendingPIMEvents, NEW f, f = e.fn
    PROVE  /\ f \in Functions /\ running(f) /\ dma_state[f] = "WAITING"
           /\ e \in EventsOf(f)
           /\ e.next = IF ~e.wr THEN "WRITE"
                       ELSE IF word_counter[f] > 0 THEN "READ" ELSE "DONE"
           /\ e.addr \in Nat /\ e.data \in Seq(Word) /\ Len(e.data) \in Nat
           /\ DOMAIN e.data = 1 .. Len(e.data)
<1>1. e \in Event
    BY DEF CallInv, IInv, TypeOK, DeviceTypeOK
<1>2. f \in Functions /\ e.addr \in Nat /\ e.data \in Seq(Word)
    BY <1>1 DEF Event
<1>3. e \in EventsOf(f)
    BY DEF EventsOf
<1>4. running(f)
    BY <1>2, <1>3 DEF CallInv, IInv, StoppedIsQuiet
<1>5. WaitMatches(f)
    BY <1>2 DEF CallInv, IInv, OneEventPerWait
<1>6. dma_state[f] = "WAITING"
    BY <1>3, <1>5 DEF WaitMatches
<1>7. PICK d \in EventsOf(f) :
        /\ EventsOf(f) = {d}
        /\ d.next = IF ~d.wr THEN "WRITE"
                    ELSE IF word_counter[f] > 0 THEN "READ" ELSE "DONE"
    BY <1>5, <1>6 DEF WaitMatches
<1>8. d = e
    BY <1>3, <1>7
<1>9. Len(e.data) \in Nat /\ DOMAIN e.data = 1 .. Len(e.data)
    BY <1>2, SeqParts
<1> QED
    BY <1>2, <1>3, <1>4, <1>5, <1>6, <1>7, <1>8, <1>9

(* No request goes on beyond the region: it is for a chunk of a transfer   *)
(* that lies in it.                                                        *)
LEMMA AnswerFits ==
    ASSUME OneAtATime, CallInv, NEW e \in pendingPIMEvents
    PROVE  Span(e) \subseteq Addr
<1>1. PICK f : f = e.fn
    OBVIOUS
<1>2. /\ f \in Functions /\ running(f) /\ dma_state[f] = "WAITING"
      /\ e \in EventsOf(f) /\ e.addr \in Nat /\ Len(e.data) \in Nat
    BY <1>1, CompletionComes
<1>. TypeOK
    BY <1>2, TransferNow
<1>3. PICK p \in Jobs[f], n \in Nat :
        p = params[f] /\ n = Size(f, p) - word_counter[f] /\ Transfer(f, p, n)
    BY <1>2, TransferNow
<1>4. Awaits(f, p, n) /\ n <= Size(f, p)
    BY <1>2, <1>3, NextChunk DEF Transfer
<1>5. /\ p[0] \in Nat /\ p[1] \in Nat /\ Size(f, p) \in Nat /\ Transferable(f, p)
      /\ MaxAddr \in Nat
    BY <1>2, CallTypes, TCLPIMAssumption
<1>6. PICK a \in {p[0], p[1]}, m \in Nat :
        /\ e.addr = a + m /\ m + Len(e.data) <= Size(f, p)
        /\ Len(e.data) > 0 => Size(f, p) > 0 /\ Fits(f, a, Size(f, p)) /\ ~OnSpd(f, a)
    <2>1. CASE AwaitsRead(f, p, n, e)
        <3>1. /\ words(f) \in Nat /\ n + words(f) <= Size(f, p) /\ ~OnSpd(f, p[1])
              /\ e.addr = p[1] + n /\ Len(e.data) = words(f)
            BY <1>2, <1>3, <2>1, NextChunk DEF AwaitsRead
        <3>2. Len(e.data) > 0 => Size(f, p) > 0
            BY <1>3, <1>5, <3>1
        <3> QED
            BY <1>3, <1>5, <3>1, <3>2 DEF Transferable
    <2>2. CASE AwaitsWrite(f, p, n, e)
        <3>1. /\ Len(e.data) <= n /\ ~OnSpd(f, p[0])
              /\ e.addr = p[0] + (n - Len(e.data))
            BY <2>2 DEF AwaitsWrite
        <3>2. Len(e.data) > 0 => Size(f, p) > 0
            BY <1>2, <1>3, <1>4, <1>5, <3>1
        <3>3. n - Len(e.data) \in Nat /\ (n - Len(e.data)) + Len(e.data) <= Size(f, p)
            BY <1>2, <1>3, <1>4, <1>5, <3>1
        <3> QED
            BY <1>3, <1>5, <3>1, <3>2, <3>3 DEF Transferable
    <2> QED
        BY <1>2, <1>4, <2>1, <2>2 DEF Awaits
<1>7. Len(e.data) > 0 => a + Size(f, p) - 1 <= MaxAddr
    BY <1>6 DEF Fits
<1> DEFINE l == Len(e.data)
           N == Size(f, p)
<1>8. a \in Nat /\ m \in Nat /\ l \in Nat /\ N \in Nat /\ e.addr = a + m /\ m + l <= N
    BY <1>2, <1>5, <1>6
<1> HIDE DEF l, N
<1>9. l > 0 => a + N - 1 <= MaxAddr
    BY <1>7 DEF l, N
<1>10. \A b \in a + m .. a + m + l - 1 : b \in 0 .. MaxAddr
    BY <1>5, <1>8, <1>9
<1> QED
    BY <1>8, <1>10 DEF Span, Addr, l

(* The answer to a read: the buffer has the size of it, and then the next  *)
(* words of the source, or their products.                                 *)
LEMMA CompleteReadCall ==
    ASSUME OneAtATime, CallInv, NEW e \in pendingPIMEvents, BetweenHandlers,
           Span(e) \subseteq Addr, CompleteRead(e), UNCHANGED hostVars
    PROVE  CallInv'
<1>0. IInv'
    BY CompletionIInv DEF CallInv, handlePIMCompletion
<1>1. PICK f : f = e.fn
    OBVIOUS
<1>2. /\ f \in Functions /\ running(f) /\ dma_state[f] = "WAITING" /\ ~e.wr
      /\ e \in EventsOf(f) /\ e.next = "WRITE" /\ e.addr \in Nat
      /\ Len(e.data) \in Nat
    BY <1>1, CompletionComes DEF CompleteRead
<1>. TypeOK /\ DeviceTypeOK
    BY <1>2, TransferNow
<1>3. PICK p \in Jobs[f], n \in Nat :
        p = params[f] /\ n = Size(f, p) - word_counter[f] /\ Transfer(f, p, n)
    BY <1>2, TransferNow
<1>4. AwaitsRead(f, p, n, e) /\ Engine(f, p, n)
    BY <1>2, <1>3 DEF Transfer, Awaits
<1>5. /\ word_counter[f] > 0 /\ ~OnSpd(f, p[1])
      /\ words(f) \in Nat /\ n + words(f) <= Size(f, p)
      /\ e.addr = p[1] + n /\ Len(e.data) = words(f) /\ Len(buffer) = words(f)
    BY <1>2, <1>3, <1>4, NextChunk DEF AwaitsRead
<1>6. /\ buffer' = Received(e)
      /\ dma_state' = [dma_state EXCEPT ![f] = "WRITE"]
      /\ UNCHANGED <<fsmVars, word_counter, src, dst, scalar, src_is_sram,
                     dst_is_sram, sramArray, backing, fault>>
    BY <1>1, <1>2, <1>5 DEF CompleteRead
<1>7. p[1] \in Nat /\ p[2] \in Nat /\ Size(f, p) \in Nat
    BY <1>2, CallTypes
<1>8. \A i \in 1 .. words(f) :
        Received(e)[i] = SourceWord(f, p, before, n + i - 1)
    <2> TAKE i \in 1 .. words(f)
    <2> DEFINE j == n + i - 1
    <2>1. /\ j \in n .. Size(f, p) - 1 /\ e.addr + i - 1 = p[1] + j
          /\ i \in 1 .. Len(e.data)
        BY <1>5, <1>7
    <2>2. backing[p[1] + j] = before.dram[p[1] + j]
        <3>1. Arrived(f, p, n)
            BY <1>4 DEF AwaitsRead
        <3> QED
            BY <1>2, <1>5, <2>1, <3>1, StillUnread
    <2>3. Response(e)[i] = before.dram[p[1] + j]
        BY <2>1, <2>2 DEF Response
    <2>4. CASE f = F1
        BY <1>1, <1>5, <2>3, <2>4 DEF Received, SourceWord
    <2>5. CASE f # F1
        <3>1. scalar = p[2]
            BY <1>2, <1>4, <2>5 DEF Engine, Functions
        <3>2. Received(e)[i] = (scalar * Response(e)[i]) % WordMod
            BY <1>1, <2>1, <2>5 DEF Received
        <3>3. SourceWord(f, p, before, j) = (p[2] * before.dram[p[1] + j]) % WordMod
            BY <1>5, <2>5 DEF SourceWord
        <3> QED
            BY <2>3, <3>1, <3>2, <3>3
    <2> QED
        BY <2>4, <2>5
<1>9. Len(Received(e)) = words(f)
    <2>1. Received(e) \in Seq(Word)
        BY CompletionTypes DEF CallInv, IInv
    <2>2. DOMAIN Received(e) = 1 .. words(f)
        BY <1>5 DEF Received, Response
    <2> QED
        BY <1>5, <2>1, <2>2, LenProperties
<1>10. words(f)' = words(f) /\ dma_state'[f] = "WRITE"
    BY <1>2, <1>6 DEF words, DeviceTypeOK
<1>11. Carries(buffer, f, p, n)'
    BY <1>6, <1>8, <1>9 DEF Carries, hostVars
<1>12. Arrived(f, p, n)'
    BY <1>4, <1>6, ArrivedStays DEF AwaitsRead, hostVars
<1>13. Writing(f, p, n)'
    BY <1>4, <1>5, <1>6, <1>9, <1>10, <1>11, <1>12 DEF Writing, AwaitsRead
<1>14. Transfer(f, p, n)'
    BY <1>3, <1>4, <1>6, <1>10, <1>13 DEF Transfer, Engine
<1> QED
    BY <1>0, <1>2, <1>3, <1>6, <1>10, <1>14, TransferGoesOn

(* The performed write: a further chunk has arrived.                       *)
LEMMA CompleteWriteCall ==
    ASSUME OneAtATime, CallInv, NEW e \in pendingPIMEvents, BetweenHandlers,
           Span(e) \subseteq Addr, CompleteWrite(e), UNCHANGED hostVars
    PROVE  CallInv'
<1>0. IInv'
    BY CompletionIInv DEF CallInv, handlePIMCompletion
<1>1. PICK f : f = e.fn
    OBVIOUS
<1>2. /\ f \in Functions /\ running(f) /\ dma_state[f] = "WAITING" /\ e.wr
      /\ e \in EventsOf(f) /\ e.next = IF word_counter[f] > 0 THEN "READ" ELSE "DONE"
      /\ e.addr \in Nat /\ e.data \in Seq(Word) /\ Len(e.data) \in Nat
    BY <1>1, CompletionComes DEF CompleteWrite
<1>. TypeOK /\ DeviceTypeOK
    BY <1>2, TransferNow
<1>3. PICK p \in Jobs[f], n \in Nat :
        p = params[f] /\ n = Size(f, p) - word_counter[f] /\ Transfer(f, p, n)
    BY <1>2, TransferNow
<1>4. AwaitsWrite(f, p, n, e) /\ Engine(f, p, n)
    BY <1>2, <1>3 DEF Transfer, Awaits
<1>5. PICK m \in Nat : m = n - Len(e.data)
    <2>1. Len(e.data) <= n
        BY <1>4 DEF AwaitsWrite
    <2>2. n - Len(e.data) \in Nat
        BY <1>2, <2>1
    <2> QED
        BY <2>2
<1>6. /\ n <= Size(f, p) /\ ~OnSpd(f, p[0]) /\ m <= n /\ m + Len(e.data) = n
      /\ e.addr = p[0] + m /\ Carries(e.data, f, p, m) /\ Arrived(f, p, m)
    <2>1. m <= n /\ m + Len(e.data) = n
        <3>1. \A l \in Nat : m = n - l => m <= n /\ m + l = n
            OBVIOUS
        <3> QED
            BY <1>2, <1>5, <3>1
    <2>2. n <= Size(f, p)
        BY <1>2, <1>3, NextChunk
    <2> QED
        BY <1>4, <1>5, <2>1, <2>2 DEF AwaitsWrite
<1>7. /\ backing' = Stored(e)
      /\ dma_state' = [dma_state EXCEPT ![f] = e.next]
      /\ UNCHANGED <<fsmVars, word_counter, src, dst, scalar, src_is_sram,
                     dst_is_sram, sramArray, fault>>
    BY <1>1 DEF CompleteWrite
<1>8. p[0] \in Nat /\ Size(f, p) \in Nat
    BY <1>2, CallTypes
<1>9. Arrived(f, p, n)'
    <2>1. DOMAIN backing = Addr /\ DOMAIN before.dram = Addr
        BY DEF DeviceTypeOK, TypeOK
    <2>2. /\ Places(f, p) \in [0 .. Size(f, p) - 1 -> Addr]
          /\ Copied(backing, before.dram, Places(f, p), SourceWords(f, p), m)
        BY <1>2, <1>6, PlacesType DEF Arrived
    <2>3. \A a \in Addr : backing'[a] = IF a \in p[0] + m .. p[0] + n - 1
                                        THEN e.data[a - (p[0] + m) + 1]
                                        ELSE backing[a]
        <3>1. p[0] + m + Len(e.data) - 1 = p[0] + n - 1
            <4>1. \A l \in Nat : m + l = n => p[0] + m + l - 1 = p[0] + n - 1
                BY <1>8
            <4>2. Len(e.data) \in Nat /\ m + Len(e.data) = n
                BY <1>2, <1>6
            <4> QED
                BY <4>1, <4>2
        <3> QED
            BY <1>6, <1>7, <3>1 DEF Stored, Span
    <2>4. ASSUME NEW j \in m .. n - 1
          PROVE  /\ Places(f, p)[j] = p[0] + j
                 /\ SourceWords(f, p)[j] = SourceWord(f, p, before, j)
                 /\ e.data[j - m + 1] = SourceWord(f, p, before, j)
        <3>1. j \in 0 .. Size(f, p) - 1
            BY <1>6, <1>8
        <3>2. j - m + 1 \in 1 .. Len(e.data) /\ m + (j - m + 1) - 1 = j
            BY <1>2, <1>6
        <3>3. e.data[j - m + 1] = SourceWord(f, p, before, m + (j - m + 1) - 1)
            BY <1>6, <3>2 DEF Carries
        <3> QED
            BY <1>6, <3>1, <3>2, <3>3 DEF Places, SourceWords
    <2>5. ASSUME NEW a \in Addr, \A j \in m .. n - 1 : Places(f, p)[j] # a
          PROVE  backing'[a] = backing[a]
        <3>1. a \notin p[0] + m .. p[0] + n - 1
            <4> SUFFICES ASSUME a \in p[0] + m .. p[0] + n - 1 PROVE FALSE
                OBVIOUS
            <4>1. a - p[0] \in m .. n - 1 /\ p[0] + (a - p[0]) = a
                BY <1>8
            <4> QED
                BY <2>4, <2>5, <4>1
        <3> QED
            BY <2>3, <3>1
    <2>6. \A j \in m .. n - 1 : backing'[Places(f, p)[j]] = SourceWords(f, p)[j]
        <3> TAKE j \in m .. n - 1
        <3>1. /\ p[0] + j \in p[0] + m .. p[0] + n - 1
              /\ (p[0] + j) - (p[0] + m) + 1 = j - m + 1
            BY <1>8
        <3>2. p[0] + j \in Addr
            <4>1. j \in 0 .. Size(f, p) - 1
                BY <1>6, <1>8
            <4> QED
                BY <2>2, <2>4, <4>1
        <3>3. backing'[p[0] + j] = e.data[j - m + 1]
            BY <2>3, <3>1, <3>2
        <3> QED
            BY <2>4, <3>3
    <2>7. ChunkArrives(backing', backing, Places(f, p), SourceWords(f, p), m, n)
        <3>1. \A a \in DOMAIN backing :
                (\A j \in m .. n - 1 : Places(f, p)[j] # a) => backing'[a] = backing[a]
            BY <2>1, <2>5
        <3> QED
            BY <2>6, <3>1 DEF ChunkArrives
    <2>8. Copied(backing', before.dram, Places(f, p), SourceWords(f, p), n)
        <3>1. m <= n /\ n <= Size(f, p)
            BY <1>6
        <3> QED
            BY <1>8, <2>1, <2>2, <2>7, <3>1, CopiedMore
    <2>9. before' = before /\ sramArray' = before.sram
        BY <1>6, <1>7 DEF hostVars, Arrived
    <2> QED
        BY <1>6, <2>8, <2>9 DEF Arrived, SourceWords, Places
<1>10. dma_state'[f] = IF word_counter[f] > 0 THEN "READ" ELSE "DONE"
    BY <1>2, <1>7 DEF DeviceTypeOK
<1>11. src'[f] = p[1] + n /\ word_counter'[f] = word_counter[f]
    BY <1>4, <1>7 DEF AwaitsWrite
<1>12. Engine(f, p, n)'
    BY <1>4, <1>7 DEF Engine
<1>13. Transfer(f, p, n)'
    <2>1. CASE word_counter[f] > 0
        BY <1>9, <1>10, <1>11, <1>12, <2>1 DEF Transfer, Reading
    <2>2. CASE ~(word_counter[f] > 0)
        <3>1. word_counter[f] = 0
            BY <1>2, <2>2 DEF DeviceTypeOK
        <3> QED
            BY <1>9, <1>10, <1>11, <1>12, <2>2, <3>1 DEF Transfer
    <2> QED
        BY <2>1, <2>2
<1> QED
    BY <1>0, <1>2, <1>3, <1>7, <1>10, <1>11, <1>13, TransferGoesOn

(* The visit that finds the engine done ends the call, and with it the     *)
(* claim about its transfer.                                               *)
LEMMA EngineDoneCall ==
    ASSUME OneAtATime, CallInv, NEW f \in Functions, running(f), EngineDone(f),
           UNCHANGED hostVars
    PROVE  CallInv' /\ \A g \in Functions : ~running(g)'
<1>1. IInv'
    BY EngineDoneIInv DEF CallInv
<1>2. fstate' = [fstate EXCEPT ![f] = DONE] /\ UNCHANGED fault
    BY DEF EngineDone, FinishFunction
<1>3. fstate'[f] = DONE /\ \A g \in Functions \ {f} : fstate'[g] = fstate[g]
    BY <1>2 DEF CallInv, IInv, TypeOK, DeviceTypeOK
<1>4. \A g \in Functions : ~running(g)'
    BY <1>3, RunningAlone, StatesDiffer DEF running
<1>5. AssertionsHold' /\ OneInUse'
    BY <1>2 DEF CallInv, AssertionsHold, OneInUse, hostVars
<1> QED
    BY <1>1, <1>4, <1>5 DEF CallInv, InTransfer

(* The steps of the event loop.                                            *)
LEMMA ClockCall ==
    ASSUME OneAtATime, CallInv, NEW f \in Functions, clock(f), UNCHANGED hostVars
    PROVE  CallInv'
BY IssueReadCall, ReadSramCall, IssueWriteCall, WriteSramCall,
   EngineDoneCall, EngineWaitCall DEF clock

LEMMA CompletionCall ==
    ASSUME OneAtATime, CallInv, NEW e \in pendingPIMEvents, handlePIMCompletion(e),
           UNCHANGED hostVars
    PROVE  CallInv'
BY AnswerFits, CompleteReadCall, CompleteWriteCall DEF handlePIMCompletion

(* A step of the host that leaves no thread waiting for its function.      *)
LEMMA HostStep ==
    ASSUME CallInv, IInv', AssertionsHold', OneInUse',
           \A g \in Functions : hpc'[g] # "finish"
    PROVE  CallInv' /\ \A g \in Functions : ~running(g)'
<1>1. IInv' /\ AssertionsHold' /\ (\A g \in Functions : hpc[g] # "finish")'
          => (\A g \in Functions : ~running(g))'
    BY NoneRunning, PTL
<1>2. \A g \in Functions : ~running(g)'
    BY <1>1
<1> QED
    BY <1>2 DEF CallInv, InTransfer

(* A thread begins a call when no function is in use.                      *)
LEMMA BeginCall ==
    ASSUME OneAtATime, CallInv, NEW f \in Functions, Begin(f)
    PROVE  /\ CallInv' /\ \A g \in Functions : ~running(g) /\ ~running(g)'
           /\ UNCHANGED memory
<1>1. /\ \A g \in Functions : hpc[g] = "idle"
      /\ hpc' = [hpc EXCEPT ![f] = "init"]
      /\ UNCHANGED <<before, deviceVars>>
    BY DEF Begin, OneAtATime
<1>2. PICK p \in Jobs[f] : job' = [job EXCEPT ![f] = p]
    BY DEF Begin
<1>3. /\ hpc \in [Functions -> {"idle", "init", "run", "finish"}]
      /\ job \in [Functions -> [ParamIndex -> Nat]]
    BY DEF CallInv, IInv, TypeOK
<1>4. OneInUse' /\ \A g \in Functions : hpc'[g] # "finish"
    BY <1>1, <1>2, <1>3 DEF OneInUse
<1>5. IInv' /\ AssertionsHold'
    BY <1>1, BeginIInv DEF CallInv, AssertionsHold, deviceVars
<1>6. \A g \in Functions : ~running(g)
    BY <1>1, NoneRunning DEF CallInv
<1>7. UNCHANGED memory
    BY <1>1 DEF memory, deviceVars
<1> QED
    BY <1>4, <1>5, <1>6, <1>7, HostStep

(* A word of init() is the one the function expects, so no assertion fails.*)
LEMMA InitCall ==
    ASSUME OneAtATime, CallInv, NEW f \in Functions, init(f)
    PROVE  /\ CallInv' /\ \A g \in Functions : ~running(g) /\ ~running(g)'
           /\ UNCHANGED memory
<1>. InStep /\ IInv /\ DeviceTypeOK
    BY DEF CallInv, IInv, TypeOK
<1> DEFINE d == IF hidx[f] = 0 THEN INIT ELSE job[f][hidx[f] - 1]
<1>1. /\ fault = "none" /\ hpc[f] = "init"
      /\ write(func(f), d)
      /\ hpc' = [hpc EXCEPT ![f] = IF hidx[f] = NumParams THEN "run" ELSE @]
      /\ UNCHANGED <<job, before>>
    BY DEF init, BetweenHandlers
<1>2. /\ writeFSM(f, d)
      /\ UNCHANGED <<buffer, sramArray, backing, pendingPIMEvents, cursor>>
    BY <1>1, RegisterWrite
<1>3. UNCHANGED fault
    <2>1. CASE hidx[f] = 0
        <3>1. fstate[f] \in {INVALID, DONE}
            BY <1>1, <2>1 DEF InStep
        <3>2. WriteInit(f, INIT)
            BY <1>2, <2>1, <3>1, StatesDiffer
               DEF writeFSM, WriteParam, WriteRun, WriteFinish
        <3> QED
            BY <3>2 DEF WriteInit
    <2>2. CASE hidx[f] # 0
        <3>1. fstate[f] = INITIALIZING
            BY <1>1, <2>2 DEF InStep
        <3>2. WriteParam(f, d)
            BY <1>2, <3>1, StatesDiffer
               DEF writeFSM, WriteInit, WriteRun, WriteFinish
        <3> QED
            BY <3>2 DEF WriteParam
    <2> QED
        BY <2>1, <2>2
<1>4. hpc \in [Functions -> {"idle", "init", "run", "finish"}]
    BY DEF IInv, TypeOK
<1>5. \A g \in Functions : hpc[g] # "idle" => g = f
    BY <1>1 DEF CallInv, OneInUse
<1>6. /\ \A g \in Functions : hpc[g] # "finish"
      /\ \A g \in Functions : hpc'[g] # "finish" /\ (hpc'[g] = "idle" <=> hpc[g] = "idle")
    BY <1>1, <1>4, <1>5
<1>7. OneInUse'
    BY <1>1, <1>6 DEF CallInv, OneInUse
<1>8. IInv' /\ AssertionsHold'
    BY <1>3, InitCallIInv DEF CallInv, AssertionsHold
<1>9. \A g \in Functions : ~running(g)
    BY <1>6, NoneRunning DEF CallInv
<1>10. UNCHANGED memory
    BY <1>2 DEF memory
<1> QED
    BY <1>6, <1>7, <1>8, <1>9, <1>10, HostStep

(* finish() finds the function done, and the memory as the device left it. *)
LEMMA FinishCall ==
    ASSUME OneAtATime, CallInv, NEW f \in Functions, finish(f)
    PROVE  /\ CallInv' /\ UNCHANGED memory
           /\ \A g \in Functions : ~running(g) /\ ~running(g)'
<1>. InStep /\ IInv /\ DeviceTypeOK
    BY DEF CallInv, IInv, TypeOK
<1>1. fault = "none" /\ hpc[f] = "finish"
    BY DEF finish, BetweenHandlers
<1>2. fstate[f] \in {RUNNING, DONE}
    BY <1>1 DEF InStep
<1>3. read(func(f), 1)[1] = fstate[f]
    BY RegisterDecodes DEF read, readFSM
<1>4. /\ read(func(f), 1) = <<DONE>>
      /\ hpc' = [hpc EXCEPT ![f] = "idle"]
      /\ UNCHANGED <<deviceVars, job, before>>
    <2>1. read(func(f), 1) # <<INVALID>>
        BY <1>2, <1>3, StatesDiffer
    <2> QED
        BY <2>1 DEF finish
<1>5. fstate[f] = DONE
    BY <1>3, <1>4
<1>6. hpc \in [Functions -> {"idle", "init", "run", "finish"}]
    BY DEF IInv, TypeOK
<1>7. \A g \in Functions : hpc[g] # "idle" => g = f
    BY <1>1 DEF CallInv, OneInUse
<1>8. \A g \in Functions : hpc'[g] = "idle"
    BY <1>4, <1>6, <1>7
<1>9. OneInUse' /\ \A g \in Functions : hpc'[g] # "finish"
    BY <1>8 DEF OneInUse
<1>10. IInv' /\ AssertionsHold'
    BY <1>4, FinishIInv DEF CallInv, AssertionsHold, deviceVars
<1>11. \A g \in Functions : ~running(g)
    <2> SUFFICES ASSUME NEW g \in Functions, running(g) PROVE FALSE
        OBVIOUS
    <2>1. hpc[g] = "finish"
        BY RunningAlone
    <2>2. g = f
        BY <1>7, <2>1
    <2> QED
        BY <1>5, <2>2, StatesDiffer DEF running
<1>12. UNCHANGED memory
    BY <1>4 DEF memory, deviceVars
<1> QED
    BY <1>9, <1>10, <1>11, <1>12, HostStep

(* The program stores only while no function is in use.                    *)
LEMMA StoreCall ==
    ASSUME OneAtATime, CallInv, store
    PROVE  CallInv' /\ \A g \in Functions : ~running(g) /\ ~running(g)'
<1>1. /\ \A g \in Functions : hpc[g] = "idle"
      /\ UNCHANGED hostVars
    BY DEF store
<1>2. PICK s \in Stores :
        \/ isIO(s[1]) /\ write(s[1], s[2])
        \/ ~isIO(s[1]) /\ UNCHANGED fault
    BY DEF store
<1>3. UNCHANGED fault
    BY <1>2 DEF isIO, write
<1>4. IInv' /\ AssertionsHold'
    BY <1>3, StoreIInv DEF CallInv, AssertionsHold
<1>5. OneInUse' /\ \A g \in Functions : hpc'[g] # "finish"
    BY <1>1 DEF OneInUse, hostVars
<1>6. \A g \in Functions : ~running(g)
    BY <1>1, NoneRunning DEF CallInv
<1> QED
    BY <1>4, <1>5, <1>6, HostStep

(* The store of run(): the engine starts at the first word, with the       *)
(* parameters of the call, and no assertion of start() fails.              *)
LEMMA RunCall ==
    ASSUME OneAtATime, CallInv, NEW f \in Functions, run(f)
    PROVE  /\ CallInv' /\ before' = memory
           /\ \A g \in Functions : ~running(g) /\ (running(g)' <=> g = f)
           /\ params'[f] \in Jobs[f]
<1>. InStep /\ IInv /\ TypeOK /\ DeviceTypeOK
    BY DEF CallInv, IInv, TypeOK
<1>1. /\ fault = "none" /\ hpc[f] = "run"
      /\ write(func(f), RUN)
      /\ hpc' = [hpc EXCEPT ![f] = "finish"]
      /\ before' = memory
      /\ UNCHANGED <<hidx, job>>
    BY DEF run, BetweenHandlers
<1>2. /\ writeFSM(f, RUN)
      /\ UNCHANGED <<buffer, sramArray, backing, pendingPIMEvents, cursor>>
    BY <1>1, RegisterWrite
<1>3. fstate[f] = READY /\ params[f] = job[f] /\ job[f] \in Jobs[f]
    BY <1>1 DEF InStep, CallInv, OneInUse
<1>4. WriteRun(f, RUN)
    BY <1>2, <1>3, StatesDiffer DEF writeFSM, WriteInit, WriteParam, WriteFinish
<1>5. PICK p \in Jobs[f] : p = params[f]
    BY <1>3
<1>6. /\ Size(f, p) \in Nat /\ Transferable(f, p) /\ p[2] \in Nat /\ p[3] \in Nat
      /\ p[0] \in Nat /\ p[1] \in Nat
    BY CallTypes
<1>7. /\ numBytes(f) \in Nat /\ Size(f, p) = numBytes(f) \div 8 /\ numBytes(f) % 8 = 0
    BY <1>5, <1>6 DEF numBytes, Size, Transferable
<1>8. numBytes(f) # 0 => Size(f, p) > 0
    BY <1>7
<1>9. ~StartFault(f)
    <2> SUFFICES ASSUME numBytes(f) # 0
                 PROVE  f = F1 => "FUNC" \notin {decode(params[F1][0]), decode(params[F1][1])}
        BY <1>7 DEF StartFault
    <2> QED
        BY <1>5, <1>6, <1>8 DEF Transferable
<1>10. /\ fstate' = [fstate EXCEPT ![f] = RUNNING]
       /\ start(f)
       /\ UNCHANGED <<params, fault>>
    BY <1>4, <1>9 DEF WriteRun
<1>11. /\ fstate'[f] = RUNNING
       /\ \A g \in Functions \ {f} : fstate'[g] = fstate[g]
    BY <1>10 DEF DeviceTypeOK
<1>12. \A g \in Functions : hpc[g] # "idle" => g = f
    BY <1>1 DEF CallInv, OneInUse
<1>13. \A g \in Functions : ~running(g)
    <2>1. \A g \in Functions : hpc[g] # "finish"
        BY <1>1, <1>12
    <2> QED
        BY <2>1, NoneRunning DEF CallInv
<1>14. \A g \in Functions : running(g)' <=> g = f
    BY <1>11, <1>13 DEF running
<1>15. OneInUse'
    BY <1>1, <1>3, <1>12 DEF OneInUse, TypeOK
<1>16. IInv' /\ AssertionsHold'
    BY <1>10, RunIInv DEF CallInv, AssertionsHold
<1>17. dma_state[f] = "IDLE"
    BY <1>13 DEF IInv, StoppedIsQuiet
<1>18. InTransfer(f)'
    <2>1. CASE numBytes(f) = 0
        <3>1. dma_state'[f] = "IDLE"
            BY <1>10, <1>17, <2>1 DEF start, dmaVars
        <3>2. memory' = before'
            BY <1>1, <1>2 DEF memory
        <3> QED
            BY <3>1, <3>2 DEF InTransfer
    <2>2. CASE numBytes(f) # 0
        <3>1. /\ dst' = [dst EXCEPT ![f] = params[f][0]]
              /\ src' = [src EXCEPT ![f] = params[f][1]]
              /\ word_counter' = [word_counter EXCEPT ![f] = numBytes(f) \div 8]
              /\ dma_state' = [dma_state EXCEPT ![f] = "READ"]
              /\ scalar' = IF f = U5 THEN params[U5][2] ELSE scalar
              /\ f = F1 => /\ dst_is_sram' = (decode(params[F1][0]) = "SRAM")
                           /\ src_is_sram' = (decode(params[F1][1]) = "SRAM")
            BY <1>10, <2>2 DEF start
        <3>2. /\ dst'[f] = p[0] + 0 /\ src'[f] = p[1] + 0
              /\ word_counter'[f] = Size(f, p) /\ dma_state'[f] = "READ"
            <4>1. /\ dst'[f] = p[0] /\ src'[f] = p[1]
                  /\ word_counter'[f] = Size(f, p) /\ dma_state'[f] = "READ"
                BY <1>5, <1>7, <3>1 DEF DeviceTypeOK
            <4> QED
                BY <1>6, <4>1
        <3>3. f = U5 => scalar' = p[2]
            BY <1>5, <3>1
        <3>4. f = F1 => src_is_sram' = OnSpd(f, p[1]) /\ dst_is_sram' = OnSpd(f, p[0])
            BY <1>5, <3>1 DEF OnSpd
        <3>5. 0 = 0 * ChunkWords /\ 0 \in 0 .. Size(f, p)
            BY <1>6
        <3>6. Engine(f, p, 0)'
            BY <3>2, <3>3, <3>4, <3>5 DEF Engine
        <3>7. Arrived(f, p, 0)'
            BY <1>1, <1>2, CopiedNone DEF memory, Arrived, Places, SourceWords
        <3>8. Transfer(f, p, 0)'
            BY <1>6, <1>8, <2>2, <3>2, <3>6, <3>7 DEF Transfer, Reading
        <3>9. params'[f] = p /\ Size(f, p) - word_counter'[f] = 0
            BY <1>5, <1>6, <1>10, <3>2
        <3>10. Transfer(f, params[f], Size(f, params[f]) - word_counter[f])'
            BY <3>8, <3>9
        <3> QED
            BY <3>2, <3>10 DEF InTransfer
    <2> QED
        BY <2>1, <2>2
<1>19. \A g \in Functions : InTransfer(g)'
    BY <1>14, <1>18 DEF InTransfer
<1> QED
    BY <1>1, <1>3, <1>10, <1>13, <1>14, <1>15, <1>16, <1>19 DEF CallInv

-----------------------------------------------------------------------------
(* With one call at a time every step keeps to the invariant.              *)

(* At first no function runs.                                              *)
LEMMA InitCallInv == Init => CallInv
<1> SUFFICES ASSUME Init PROVE CallInv
    OBVIOUS
<1>1. IInv
    BY InitIInv
<1>2. AssertionsHold /\ OneInUse
    BY DEF Init, DeviceInit, AssertionsHold, OneInUse
<1>3. \A g \in Functions : hpc[g] # "finish"
    BY DEF Init
<1> QED
    BY <1>1, <1>2, <1>3, NoneRunning DEF CallInv, InTransfer

(* The invariant speaks of nothing but the variables.                      *)
LEMMA StutterCall == CallInv /\ UNCHANGED vars => CallInv'
<1> SUFFICES ASSUME CallInv, UNCHANGED vars PROVE CallInv'
    OBVIOUS
<1> USE DEF vars, deviceVars, hostVars, fsmVars, dmaVars
<1>1. IInv'
    BY NextIInv DEF CallInv
<1>2. AssertionsHold' /\ OneInUse'
    BY DEF CallInv, AssertionsHold, OneInUse
<1>3. ASSUME NEW f, NEW p, NEW n, Arrived(f, p, n) PROVE Arrived(f, p, n)'
    BY <1>3, ArrivedStays
<1>4. ASSUME NEW f \in Functions PROVE InTransfer(f)'
    <2>1. ASSUME NEW p, NEW n, Transfer(f, p, n) PROVE Transfer(f, p, n)'
        <3>1. Engine(f, p, n)' /\ words(f)' = words(f) /\ EventsOf(f)' = EventsOf(f)
            BY <2>1 DEF Transfer, Engine, words, EventsOf
        <3>2. Reading(f, p, n) => Reading(f, p, n)'
            BY <1>3 DEF Reading
        <3>3. Writing(f, p, n) => Writing(f, p, n)'
            BY <1>3, <3>1, CarriesStays DEF Writing
        <3>4. \A e : AwaitsRead(f, p, n, e) => AwaitsRead(f, p, n, e)'
            BY <1>3, <3>1 DEF AwaitsRead
        <3>5. \A e : AwaitsWrite(f, p, n, e) => AwaitsWrite(f, p, n, e)'
            BY <1>3, CarriesStays DEF AwaitsWrite
        <3>6. Awaits(f, p, n) => Awaits(f, p, n)'
            BY <3>1, <3>4, <3>5 DEF Awaits
        <3> QED
            BY <1>3, <2>1, <3>1, <3>2, <3>3, <3>6 DEF Transfer
    <2> QED
        BY <2>1 DEF CallInv, InTransfer, running, memory
<1> QED
    BY <1>1, <1>2, <1>4 DEF CallInv

(* Every step preserves it.                                                *)
LEMMA NextCallInv == ASSUME OneAtATime PROVE CallInv /\ [Next]_vars => CallInv'
<1> SUFFICES ASSUME CallInv, [Next]_vars PROVE CallInv'
    OBVIOUS
<1>1. ASSUME NEW f \in Functions, clock(f), UNCHANGED hostVars PROVE CallInv'
    BY <1>1, ClockCall
<1>2. ASSUME NEW e \in pendingPIMEvents, handlePIMCompletion(e), UNCHANGED hostVars
      PROVE  CallInv'
    BY <1>2, CompletionCall
<1>3. ASSUME NEW f \in Functions, Begin(f) \/ init(f) \/ run(f) \/ finish(f)
      PROVE  CallInv'
    BY <1>3, BeginCall, InitCall, RunCall, FinishCall
<1>4. CASE store
    BY <1>4, StoreCall
<1>5. CASE UNCHANGED vars
    BY <1>5, StutterCall
<1> QED
    BY <1>1, <1>2, <1>3, <1>4, <1>5 DEF Next, Device, Host

(* With one call at a time, each such as the device asks for, the engine   *)
(* of the one function that runs keeps to its transfer: what has arrived,  *)
(* what is in the buffer or in flight, and what is still to come.          *)
THEOREM CallInvariance == ASSUME OneAtATime PROVE Spec => []CallInv
<1>1. Init => CallInv
    BY InitCallInv
<1>2. CallInv /\ [Next]_vars => CallInv'
    BY NextCallInv
<1> QED
    BY <1>1, <1>2, PTL DEF Spec

(* Then no assertion of the device or of the host fails, no access leaves  *)
(* the SRAM array, and no fatal call is reached (tclpim_functions.cc:92,   *)
(* userpim_functions.cc:44, TCLPIM::read and write, revpim.h).             *)
THEOREM NoAssertionFails == ASSUME OneAtATime PROVE Spec => []AssertionsHold
<1>1. CallInv => AssertionsHold
    BY DEF CallInv
<1> QED
    BY <1>1, CallInvariance, PTL

-----------------------------------------------------------------------------
(* The refinement: seen by the program a call is one step that begins it   *)
(* and one that ends it, and the device's steps in between are not seen.   *)

(* Nothing is called at first.                                             *)
LEMMA CallsInit == Init => Calls!Init
<1> SUFFICES ASSUME Init PROVE Calls!Init
    OBVIOUS
<1>1. \A g \in Functions : ~running(g)
    BY StatesDiffer DEF Init, DeviceInit, running
<1> QED
    BY <1>1 DEF Calls!Init

(* Steps between which nothing runs and the memory stays.                  *)
LEMMA CallsIdle ==
    ASSUME \A g \in Functions : ~running(g) /\ ~running(g)', UNCHANGED memory
    PROVE  UNCHANGED Calls!vars
BY DEF Calls!vars

(* Steps in the middle of a call.                                          *)
LEMMA CallsBusy ==
    ASSUME UNCHANGED <<fsmVars, before>>, NEW f \in Functions, running(f)
    PROVE  UNCHANGED Calls!vars
<1>1. \A g \in Functions : (running(g)' <=> running(g)) /\ params'[g] = params[g]
    BY DEF running, fsmVars
<1> QED
    BY <1>1 DEF Calls!vars

(* The store of run() begins the call.                                     *)
LEMMA CallsRun ==
    ASSUME OneAtATime, CallInv, NEW f \in Functions, run(f)
    PROVE  Calls!Call(f)
<1>1. /\ before' = memory /\ params'[f] \in Jobs[f]
      /\ \A g \in Functions : ~running(g) /\ (running(g)' <=> g = f)
    BY RunCall
<1> QED
    BY <1>1 DEF Calls!Call, Calls!AllReturned

(* The visit that ends the call finds everything in its place.             *)
LEMMA CallsReturn ==
    ASSUME OneAtATime, CallInv, NEW f \in Functions, running(f), EngineDone(f),
           UNCHANGED hostVars
    PROVE  Calls!Return(f)
<1>0. dma_state[f] = "DONE"
    BY DEF EngineDone
<1>. TypeOK
    BY <1>0, TransferNow
<1>1. PICK p \in Jobs[f], n \in Nat :
        p = params[f] /\ n = Size(f, p) - word_counter[f] /\ Transfer(f, p, n)
    BY <1>0, TransferNow
<1>2. Size(f, p) \in Nat
    BY CallTypes
<1>3. n = Size(f, p) /\ Arrived(f, p, n)
    BY <1>0, <1>1, <1>2 DEF Transfer
<1>4. memory = Effect(f, params[f], before)
    BY <1>1, <1>3, AllArrived
<1>5. UNCHANGED memory
    BY DEF EngineDone, memory
<1>6. /\ \A g \in Functions : ~running(g)'
      /\ \A g \in Functions : running(g) => g = f
    BY EngineDoneCall, RunningAlone
<1> QED
    BY <1>4, <1>5, <1>6 DEF Calls!Return

(* Every step is one of blocking calls, or not seen.                       *)
LEMMA CallsStep ==
    ASSUME OneAtATime PROVE CallInv /\ [Next]_vars => [Calls!Next]_(Calls!vars)
<1> SUFFICES ASSUME CallInv, [Next]_vars PROVE [Calls!Next]_(Calls!vars)
    OBVIOUS
<1>1. ASSUME NEW f \in Functions, clock(f), UNCHANGED hostVars
      PROVE  Calls!Next \/ UNCHANGED Calls!vars
    <2>1. running(f)
        BY <1>1 DEF clock
    <2>2. CASE EngineDone(f)
        BY <1>1, <2>1, <2>2, CallsReturn DEF Calls!Next
    <2>3. CASE ~EngineDone(f)
        <3>1. UNCHANGED <<fsmVars, before>>
            BY <1>1, <2>3 DEF clock, hostVars, IssueRead, ReadSram, IssueWrite, WriteSram,
               EngineWait, Abort
        <3> QED
            BY <2>1, <3>1, CallsBusy
    <2> QED
        BY <2>2, <2>3
<1>2. ASSUME NEW e \in pendingPIMEvents, handlePIMCompletion(e), UNCHANGED hostVars
      PROVE  UNCHANGED Calls!vars
    <2>1. PICK f : f = e.fn
        OBVIOUS
    <2>2. f \in Functions /\ running(f)
        BY <2>1, CompletionComes
    <2>3. UNCHANGED <<fsmVars, before>>
        BY <1>2 DEF handlePIMCompletion, CompleteRead, CompleteWrite, Abort, hostVars
    <2> QED
        BY <2>2, <2>3, CallsBusy
<1>3. ASSUME NEW f \in Functions, Begin(f) \/ init(f) \/ finish(f)
      PROVE  UNCHANGED Calls!vars
    BY <1>3, BeginCall, InitCall, FinishCall, CallsIdle
<1>4. ASSUME NEW f \in Functions, run(f) PROVE Calls!Next
    BY <1>4, CallsRun DEF Calls!Next
<1>5. CASE store
    <2>1. \A g \in Functions : ~running(g) /\ ~running(g)'
        BY <1>5, StoreCall
    <2>2. Calls!Store
        BY <2>1 DEF Calls!Store, Calls!AllReturned
    <2> QED
        BY <2>2 DEF Calls!Next
<1>6. CASE UNCHANGED vars
    BY <1>6 DEF vars, Calls!vars, memory, running, deviceVars, hostVars, fsmVars
<1> QED
    BY <1>1, <1>2, <1>3, <1>4, <1>5, <1>6 DEF Next, Device, Host

(* The safety part of ImplementsCalls.  The calls are blocking calls with  *)
(* the effect Effect: the memory the program sees between calls is its     *)
(* own, and when a function returns all of its transfer is there and       *)
(* nothing but its transfer (revpim.h, MemCopy, MulVecByScalar).  That     *)
(* every call returns is left to the model checker.                        *)
THEOREM CallsAreBlocking ==
    ASSUME OneAtATime PROVE Spec => Calls!Init /\ [][Calls!Next]_(Calls!vars)
<1>1. Init => Calls!Init
    BY CallsInit
<1>2. CallInv /\ [Next]_vars => [Calls!Next]_(Calls!vars)
    BY CallsStep
<1> QED
    BY <1>1, <1>2, CallInvariance, PTL DEF Spec
=============================================================================
