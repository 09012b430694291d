----------------------------- MODULE Interleave -----------------------------
(***************************************************************************)
(* The addresses of one memory controller: the region of memory it owns,   *)
(* how the region is cut to the memory behind it while the system is set   *)
(* up, and how addresses are translated on the way in (to an index in the  *)
(* memory, "local") and on the way out (back to the address, "global").    *)
(* With interleaving a controller owns blocks of interleaveSize bytes, one *)
(* every interleaveStep bytes.  Addresses wrap at W.  privateMemOffset_ is *)
(* 0 throughout.  An access is of one cell.                                *)
(***************************************************************************)
EXTENDS Naturals, FiniteSets

CONSTANTS
    W,          (* Number of values of an Addr: 2^64 in the code.            *)
    Regions,    (* Regions that parameters or the link's peer may give.      *)
    MemSizes,   (* Sizes the backend may report.                             *)
    Values,
    MMIO,       (* Addresses PIMDecoder finds to be I/O.                     *)
    MaxPhases,  (* Bounds the phases of init.                                *)
    MaxPending  (* Bounds the requests without an answer.                    *)

Addr == 0 .. W - 1

MemRegion == [start : Addr, end : Addr, interleaveSize : Addr, interleaveStep : Addr]

Interleaved(r) == r.interleaveSize # 0

(* Blocks do not overlap ("Translations assume interleaveStep is divisible *)
(* by interleaveSize").                                                    *)
WellFormed(r) ==
    \/ r.interleaveSize = 0 /\ r.interleaveStep = 0
    \/ 0 < r.interleaveSize /\ r.interleaveSize <= r.interleaveStep

ASSUME InterleaveAssumption ==
    /\ W \in Nat \ {0}
    /\ Regions \subseteq MemRegion /\ \A r \in Regions : WellFormed(r)
    /\ MemSizes \subseteq 1 .. W - 2
    /\ Values # {}
    /\ MMIO \subseteq Addr
    /\ MaxPhases \in Nat /\ MaxPending \in Nat

(* Arithmetic of uint64_t.                                                 *)
Plus(a, b) == (a + b) % W
Minus(a, b) == (a + W - b) % W

(* MemRegion::contains.                                                    *)
contains(r, a) ==
    /\ r.start <= a /\ a <= r.end
    /\ Interleaved(r) => Minus(a, r.start) % r.interleaveStep < r.interleaveSize

Owned(r) == {a \in Addr : contains(r, a)}

(* Mutant: every block goes where the first one is.                        *)
translateToLocal_SameBlock(r, a) ==
    LET shift == Minus(a, r.start)
    IN  IF Interleaved(r) THEN shift % r.interleaveStep ELSE shift

translateToLocal(r, a) ==
    LET shift == Minus(a, r.start)
    IN  IF Interleaved(r)
        THEN ((shift \div r.interleaveStep) * r.interleaveSize
                 + (shift % r.interleaveStep)) % W
        ELSE shift

(* Mutant: the start of the region is not added in the interleaved case.   *)
translateToGlobal_NoStart(r, a) ==
    IF Interleaved(r)
    THEN ((a \div r.interleaveSize) * r.interleaveStep + (a % r.interleaveSize)) % W
    ELSE Plus(a, r.start)

translateToGlobal(r, a) ==
    IF Interleaved(r)
    THEN ((a \div r.interleaveSize) * r.interleaveStep
             + (a % r.interleaveSize) + r.start) % W
    ELSE Plus(a, r.start)

(* The length of a region; that of all of memory is one short.             *)
regSize(r) ==
    LET n == Minus(r.end, r.start) IN IF n = W - 1 THEN n ELSE n + 1

(* The bytes of memory a region takes, and the length of the region that   *)
(* takes m bytes.  Parts of steps do not count.                            *)
LocalSize(r) ==
    IF Interleaved(r) THEN ((regSize(r) \div r.interleaveStep) * r.interleaveSize) % W
    ELSE regSize(r)

Limited(r, m) ==
    IF Interleaved(r) THEN ((m \div r.interleaveSize) * r.interleaveStep) % W ELSE m

(* Mutant: the new end does not wrap.                                      *)
adjustRegionToMemSize_Wide(r, m) ==
    IF LocalSize(r) > m THEN [r EXCEPT !.end = r.start + Limited(r, m) - 1] ELSE r

(* Mutant: the end is taken for exclusive.                                 *)
adjustRegionToMemSize_Exclusive(r, m) ==
    IF LocalSize(r) > m THEN [r EXCEPT !.end = Plus(r.start, Limited(r, m))] ELSE r

(* Mutant: a region that just fits is cut as well.                         *)
adjustRegionToMemSize_Again(r, m) ==
    IF LocalSize(r) >= m
    THEN [r EXCEPT !.end = Minus(r.end, 1)] ELSE r

adjustRegionToMemSize(r, m) ==
    IF LocalSize(r) > m
    THEN [r EXCEPT !.end = Minus(Plus(r.start, Limited(r, m)), 1)]
    ELSE r

-----------------------------------------------------------------------------
VARIABLES
    region, memSize,    (* MemControllerKG::region_ and memSize_             *)
    linkRegion,         (* the region the link announces for the controller  *)
    phase,              (* calls of init so far                              *)
    backing,            (* backing_, by local address                        *)
    pushed,             (* data sent for initialisation, by address, as far  *)
                        (* as no store has been answered since               *)
    pending,            (* outstandingEvents_; global is the address asked   *)
                        (* for, addr the one in the event                    *)
    answer              (* the last response, until the next request         *)

setupVars == <<region, memSize, linkRegion, phase>>
vars == <<setupVars, backing, pushed, pending, answer>>

Zero == CHOOSE v \in Values : TRUE
NoData == [a \in {} |-> Zero]

(* The constructor: parameters and backend give region and size.           *)
Init ==
    /\ memSize \in MemSizes
    /\ \E r \in Regions : region = adjustRegionToMemSize(r, memSize)
    /\ linkRegion = region
    /\ phase = 0
    /\ backing = [a \in Addr |-> Zero]
    /\ pushed = NoData
    /\ pending = {} /\ answer = {}

(* The link's peer sets the region: it "can change during init, but should *)
(* stabilize before we start receiving init data".                         *)
setRegion ==
    /\ phase < MaxPhases /\ pushed = NoData
    /\ linkRegion' \in Regions
    /\ UNCHANGED <<region, memSize, phase, backing, pushed, pending, answer>>

(* Data for the address a of the region r.  The check is of the address    *)
(* after its translation.                                                  *)
processInitEvent(r, a, v) ==
    LET addr == translateToLocal(r, a) IN
    /\ backing' = IF contains(r, addr) THEN [backing EXCEPT ![addr] = v] ELSE backing
    /\ pushed' = [b \in DOMAIN pushed \cup {a} |-> IF b = a THEN v ELSE pushed[b]]

(* A phase of init, in which data for one address may have arrived.        *)
init ==
    /\ phase < MaxPhases /\ phase' = phase + 1
    /\ region' = adjustRegionToMemSize(linkRegion, memSize)
    /\ linkRegion' = region'
    /\ \/ UNCHANGED <<backing, pushed>>
       \/ \E a \in Owned(region'), v \in Values : processInitEvent(region', a, v)
    /\ UNCHANGED <<memSize, pending, answer>>

(* handleEvent: an access to an address of the region.  No two requests    *)
(* that are alike are under way at once.                                   *)
handleEvent ==
    /\ phase = MaxPhases /\ Cardinality(pending) < MaxPending
    /\ \E a \in Owned(region), cmd \in {"READ", "WRITE"}, v \in Values :
          LET q == [cmd |-> cmd, global |-> a, data |-> v,
                    addr |-> translateToLocal(region, a)] IN
          /\ cmd = "READ" => v = Zero
          /\ q \notin pending /\ pending' = pending \cup {q}
    /\ answer' = {}
    /\ UNCHANGED <<setupVars, backing, pushed>>

isMMIO(q) == q.global \in MMIO

(* The address in the event once it has been completed: a store to a       *)
(* device is translated in place before the response is made.              *)
Completed(q) ==
    IF isMMIO(q) /\ q.cmd = "WRITE" THEN translateToGlobal(region, q.addr) ELSE q.addr

(* handleMemResponse: data move, and the response is sent.                 *)
handleMemResponse(q) ==
    /\ q \in pending /\ pending' = pending \ {q}
    /\ backing' = IF q.cmd = "WRITE" /\ ~isMMIO(q)
                  THEN [backing EXCEPT ![q.addr] = q.data] ELSE backing
    /\ pushed' = IF q.cmd = "WRITE"
                 THEN [b \in DOMAIN pushed \ {q.global} |-> pushed[b]] ELSE pushed
    /\ answer' = {[cmd |-> q.cmd, global |-> q.global, data |-> backing[q.addr],
                   addr |-> translateToGlobal(region, Completed(q))]}
    /\ UNCHANGED setupVars

Next ==
    \/ setRegion \/ init
    \/ handleEvent
    \/ \E q \in pending : handleMemResponse(q)

Spec == Init /\ [][Next]_vars

-----------------------------------------------------------------------------
Request == [cmd : {"READ", "WRITE"}, global : Addr, data : Values, addr : Addr]

TypeOK ==
    /\ region \in MemRegion /\ WellFormed(region)
    /\ linkRegion \in MemRegion /\ WellFormed(linkRegion)
    /\ memSize \in 1 .. W - 2
    /\ phase \in 0 .. MaxPhases
    /\ backing \in [Addr -> Values]
    /\ DOMAIN pushed \subseteq Addr /\ \A a \in DOMAIN pushed : pushed[a] \in Values
    /\ pending \subseteq Request
    /\ answer \subseteq Request

(* A request keeps its cell: what is in the event is the local address of  *)
(* an address that is owned.                                               *)
PendingAreLocal ==
    \A q \in pending :
        contains(region, q.global) /\ q.addr = translateToLocal(region, q.global)

(* Local addresses are the global ones.                                    *)
Untranslated(r) == r.start = 0 /\ ~Interleaved(r)

(* The response carries the address of the request, whatever the region    *)
(* and its interleaving, as handleEvent and handleMemResponse translate it *)
(* there and back.  A store to a device is translated twice on its way     *)
(* back, which only a region that needs no translation forgives.           *)
AnswersKeepAddress ==
    \A r \in answer :
        \/ r.addr = r.global
        \/ r.cmd = "WRITE" /\ r.global \in MMIO /\ ~Untranslated(region)

(* adjustRegionToMemSize counts the blocks of the whole steps of a region, *)
(* not the one of a part of a step at its end, for which there is memory   *)
(* only by chance; and it cuts a region of blocks larger than the memory   *)
(* to one that ends before it starts.                                      *)
Counted(a) ==
    Interleaved(region) =>
        LET steps == regSize(region) \div region.interleaveStep
        IN  /\ region.interleaveSize <= memSize
            /\ \/ Minus(a, region.start) \div region.interleaveStep < steps
               \/ (steps + 1) * region.interleaveSize <= memSize

(* After adjustRegionToMemSize an address the controller owns, and         *)
(* announces on its link, lies outside the memory behind it only if it is  *)
(* one of a block that has not been counted.                               *)
InBounds ==
    \A a \in Addr :
        contains(region, a) /\ Counted(a) => translateToLocal(region, a) < memSize

(* A region that has been cut to the memory fits: init, which does it over *)
(* again in each phase, does not change it unless the peer has.            *)
AdjustedOnce == [][linkRegion = region => region' = region]_vars

(* The interleaved memory is a memory of the addresses owned: no two share *)
(* a cell, loads return the latest store to their address, and answers     *)
(* carry the address of the request.                                       *)
Flat == INSTANCE FlatMemory WITH
            Cells <- Addr,
            mem <- [a \in Owned(region) |-> backing[translateToLocal(region, a)]]

ImplementsFlatMemory == Flat!Spec

(* "Push data to memory" (memoryControllerKG.cc:1076): data sent to an     *)
(* address during init are in memory until a store replaces them.          *)
InitDataInMemory ==
    \A a \in DOMAIN pushed \ MMIO :
        a \in Owned(region) => backing[translateToLocal(region, a)] = pushed[a]
=============================================================================
