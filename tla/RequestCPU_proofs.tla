------------------------- MODULE RequestCPU_proofs --------------------------
(***************************************************************************)
(* Proofs about RequestCPU, for every kind of request and every number of  *)
(* slots, places and pages: types, the page map, and that a fence stands,  *)
(* dependencies hold and no request is lost or issued twice.               *)
(***************************************************************************)
EXTENDS RequestCPU, PageMap_proofs, FiniteSetTheorems, SequenceTheorems, TLAPS

-----------------------------------------------------------------------------
(* The inductive invariant.                                                *)

Sorted(q) == \A j, k \in DOMAIN q : j < k => q[j].id < q[k].id

(* A request's place is its id, and it depends on requests that depend on  *)
(* nothing and will be answered.                                           *)
GeneratedOK ==
    \A k \in DOMAIN generated :
        /\ generated[k].id = k
        /\ \A d \in generated[k].dependsOn :
              /\ d \in 1 .. k - 1
              /\ generated[d].kind.op # "FENCE"
              /\ generated[d].dependsOn = {}

(* The queue keeps the order of the generator, and a request in it waits   *)
(* for what it depends on and has not been answered.                       *)
QueueOK ==
    /\ Sorted(pendingRequests)
    /\ \A k \in DOMAIN pendingRequests :
          /\ pendingRequests[k].id \in DOMAIN generated
          /\ pendingRequests[k].kind = generated[pendingRequests[k].id].kind
          /\ pendingRequests[k].dependsOn
               = generated[pendingRequests[k].id].dependsOn \ completed

FlightOK ==
    /\ IsFiniteSet(requestsInFlight)
    /\ \A r \in requestsInFlight :
          r.id \in DOMAIN generated /\ r.op = generated[r.id].kind.op
    /\ \A r, s \in requestsInFlight : r.id = s.id => r = s

(* What the issue loop has passed over is no fence, and has a reason that  *)
(* lasts until the end of the loop.                                        *)
PassedOver(k) ==
    /\ pendingRequests[k].kind.op \in Ops
    /\ \/ k \in ToSet(delReqs)
       \/ pendingRequests[k].dependsOn # {}
       \/ requestsPending[pendingRequests[k].kind.op] > 0

LoopOK ==
    /\ at \in {"idle", "generate"} => delReqs = << >>
    /\ at \in {"issue", "erase"} => i >= 1
    /\ at = "issue" =>
          /\ \A k \in ToSet(delReqs) : k < i
          /\ \A k \in DOMAIN pendingRequests : k < i => PassedOver(k)

(* The list is in the order of the queue, so that erase finds every place  *)
(* in it: those before its cursor are behind it, the others to come.       *)
Ascending(s) == \A j, k \in DOMAIN s : j < k => s[j] < s[k]

ListOK ==
    /\ Ascending(delReqs)
    /\ nextSkipIndex >= 1
    /\ at # "erase" => nextSkipIndex = 1
    /\ at = "erase" =>
          \A j \in DOMAIN delReqs :
             /\ j < nextSkipIndex => delReqs[j] < i
             /\ j >= nextSkipIndex => delReqs[j] >= i

(* newQ is what the erase loop has kept so far.                            *)
EraseOK ==
    /\ at # "erase" => newQ = << >>
    /\ at = "erase" =>
          /\ Sorted(newQ)
          /\ \A j \in DOMAIN newQ :
                \E k \in DOMAIN pendingRequests \ ToSet(delReqs) :
                    k < i /\ newQ[j] = pendingRequests[k]
          /\ \A k \in DOMAIN pendingRequests \ ToSet(delReqs) :
                k < i => \E j \in DOMAIN newQ : newQ[j] = pendingRequests[k]

(* A fence that has been retired has nothing before it that has not been   *)
(* answered.                                                               *)
RetiredInOrder ==
    \A f \in completed :
        generated[f].kind.op = "FENCE" => \A a \in 1 .. f - 1 : a \in completed

IInv ==
    /\ TypeOK
    /\ GeneratedOK /\ QueueOK /\ FlightOK
    /\ LoopOK /\ ListOK /\ EraseOK
    /\ EachRequestOnce
    /\ SlotsAgree
    /\ DependenciesHold
    /\ RetiredInOrder /\ FenceOrder

-----------------------------------------------------------------------------
(* Facts that the steps share.                                             *)

LEMMA QueueIsSeq ==
    ASSUME TypeOK
    PROVE  /\ DOMAIN pendingRequests = 1 .. Len(pendingRequests)
           /\ Len(pendingRequests) \in Nat
           /\ \A k \in DOMAIN pendingRequests : pendingRequests[k] \in Entry
           /\ DOMAIN generated = 1 .. Len(generated)
           /\ Len(generated) \in Nat
           /\ \A k \in DOMAIN generated : generated[k] \in Entry
           /\ DOMAIN newQ = 1 .. Len(newQ)
           /\ Len(newQ) \in Nat
BY ElementOfSeq, LenProperties DEF TypeOK

LEMMA EntryFields ==
    ASSUME NEW e \in Entry
    PROVE  /\ e.id \in Nat /\ e.dependsOn \subseteq Nat
           /\ e.kind.op \in Ops \cup {"FENCE"} /\ e.kind.addr \in Nat
BY RequestCPUAssumption DEF Entry

LEMMA ListIsSeq ==
    ASSUME TypeOK
    PROVE  /\ Len(delReqs) \in Nat /\ DOMAIN delReqs = 1 .. Len(delReqs)
           /\ \A j \in DOMAIN delReqs : delReqs[j] \in DOMAIN pendingRequests
           /\ ToSet(delReqs) \subseteq DOMAIN pendingRequests
           /\ ToSet(<< >>) = {}
BY ElementOfSeq, LenProperties DEF TypeOK, ToSet

(* A step that leaves requests alone and only goes on in a loop.           *)
requestVars == <<pageVars, generated, pendingRequests, cpuVars, completed, fault>>

LEMMA ControlStep ==
    ASSUME IInv, UNCHANGED requestVars
    PROVE  /\ GeneratedOK' /\ QueueOK' /\ FlightOK' /\ SlotsAgree'
           /\ DependenciesHold' /\ RetiredInOrder' /\ FenceOrder'
           /\ delReqs' = delReqs => EachRequestOnce'
<1> USE DEF IInv, requestVars, pageVars, cpuVars
<1>1. GeneratedOK'
    BY DEF GeneratedOK
<1>2. QueueOK'
    BY DEF QueueOK, Sorted
<1>3. FlightOK'
    BY DEF FlightOK
<1>4. SlotsAgree'
    BY DEF SlotsAgree
<1>5. DependenciesHold'
    BY DEF DependenciesHold, InFlightIds
<1>6. RetiredInOrder'
    BY DEF RetiredInOrder
<1>7. FenceOrder'
    BY DEF FenceOrder, InFlightIds
<1>8. delReqs' = delReqs => EachRequestOnce'
    BY DEF EachRequestOnce, PendingIds, InFlightIds
<1> QED
    BY <1>1, <1>2, <1>3, <1>4, <1>5, <1>6, <1>7, <1>8

LEMMA StutterIInv ==
    ASSUME IInv, UNCHANGED vars
    PROVE  IInv'
<1> USE DEF vars, genVars, tickVars, loopVars
<1>1. UNCHANGED requestVars
    BY DEF requestVars
<1>2. TypeOK'
    BY DEF IInv, TypeOK, pageVars, cpuVars
<1>3. LoopOK'
    BY DEF IInv, LoopOK, PassedOver, cpuVars
<1>4. EraseOK' /\ ListOK'
    BY DEF IInv, EraseOK, Sorted, ListOK, Ascending
<1> QED
    BY <1>1, <1>2, <1>3, <1>4, ControlStep DEF IInv

-----------------------------------------------------------------------------
LEMMA InitIInv == Init => IInv
<1> SUFFICES ASSUME Init PROVE IInv
    OBVIOUS
<1> USE DEF Init
<1>1. TypeOK
    <2>1. linear \in [Pages -> Nat]
        BY PageMapAssumption DEF linear, Pages
    <2>2. swaps \in 0 .. 2 * pageCount
        BY PageMapAssumption DEF PageInit
    <2> QED
        BY <2>1, <2>2, EmptySeq DEF TypeOK, PageInit
<1>2. /\ GeneratedOK /\ QueueOK /\ LoopOK /\ ListOK /\ EraseOK
      /\ RetiredInOrder /\ FenceOrder
    BY DEF GeneratedOK, QueueOK, Sorted, LoopOK, ListOK, Ascending, EraseOK,
           RetiredInOrder, FenceOrder
<1>3. FlightOK
    BY FS_EmptySet DEF FlightOK
<1>4. EachRequestOnce /\ DependenciesHold
    BY DEF EachRequestOnce, PendingIds, InFlightIds, DependenciesHold
<1>5. SlotsAgree
    <2> SUFFICES ASSUME NEW op \in Ops
                 PROVE  /\ requestsPending[op] = Cardinality({r \in requestsInFlight : r.op = op})
                        /\ requestsPending[op] <= maxRequestsPending[op]
        BY DEF SlotsAgree
    <2>1. {r \in requestsInFlight : r.op = op} = {}
        OBVIOUS
    <2>2. requestsPending[op] = 0 /\ maxRequestsPending[op] \in Nat
        BY RequestCPUAssumption
    <2> QED
        BY <2>1, <2>2, FS_EmptySet
<1> QED
    BY <1>1, <1>2, <1>3, <1>4, <1>5 DEF IInv

LEMMA ConstructIInv ==
    ASSUME IInv, construct
    PROVE  IInv'
<1> USE DEF construct, shuffle, genVars, cpuVars, tickVars, loopVars
<1>1. TypeOK'
    <2>1. pageMap' \in [Pages -> Nat]
        BY DEF IInv, TypeOK, swapped
    <2>2. swaps' \in 0 .. 2 * pageCount
        BY PageMapAssumption DEF IInv, TypeOK
    <2> QED
        BY <2>1, <2>2 DEF IInv, TypeOK
<1>2. GeneratedOK' /\ QueueOK' /\ FlightOK' /\ RetiredInOrder'
    BY DEF IInv, GeneratedOK, QueueOK, Sorted, FlightOK, RetiredInOrder
<1>3. LoopOK' /\ ListOK' /\ EraseOK'
    BY DEF IInv, LoopOK, PassedOver, ListOK, Ascending, EraseOK, Sorted
<1>4. EachRequestOnce' /\ DependenciesHold' /\ FenceOrder'
    BY DEF IInv, EachRequestOnce, PendingIds, InFlightIds, DependenciesHold, FenceOrder
<1>5. SlotsAgree'
    BY DEF IInv, SlotsAgree
<1> QED
    BY <1>1, <1>2, <1>3, <1>4, <1>5 DEF IInv

LEMMA ClockTickIInv ==
    ASSUME IInv, clockTick
    PROVE  IInv'
<1> USE DEF clockTick, genVars, loopVars
<1>1. UNCHANGED requestVars
    BY DEF requestVars
<1>2. TypeOK'
    BY QueueIsSeq DEF IInv, TypeOK, pageVars, cpuVars
<1>3. LoopOK' /\ ListOK' /\ EraseOK'
    BY DEF IInv, LoopOK, ListOK, Ascending, EraseOK
<1> QED
    BY <1>1, <1>2, <1>3, ControlStep DEF IInv

LEMMA LookUpIInv ==
    ASSUME IInv, lookUp
    PROVE  IInv'
<1> USE DEF lookUp, genVars, loopVars
<1>1. UNCHANGED requestVars
    BY DEF requestVars
<1>2. TypeOK'
    BY DEF IInv, TypeOK, pageVars, cpuVars
<1>3. LoopOK' /\ ListOK' /\ EraseOK'
    BY QueueIsSeq, ListIsSeq DEF IInv, LoopOK, ListOK, Ascending, EraseOK
<1> QED
    BY <1>1, <1>2, <1>3, ControlStep DEF IInv

LEMMA EndOfLoopIInv ==
    ASSUME IInv, endOfLoop
    PROVE  IInv'
<1> USE DEF endOfLoop, Break, genVars, loopVars
<1>1. UNCHANGED requestVars
    BY DEF requestVars
<1>2. TypeOK'
    BY DEF IInv, TypeOK, pageVars, cpuVars
<1>3. LoopOK'
    BY DEF IInv, LoopOK
<1>4. EraseOK' /\ ListOK'
    BY QueueIsSeq, ListIsSeq DEF IInv, EraseOK, Sorted, ListOK, Ascending
<1> QED
    BY <1>1, <1>2, <1>3, <1>4, ControlStep DEF IInv

LEMMA PassOverIInv ==
    ASSUME IInv, passOver
    PROVE  IInv'
<1> USE DEF passOver, Looking, genVars, loopVars
<1>1. UNCHANGED requestVars
    BY DEF requestVars
<1>2. TypeOK'
    BY DEF IInv, TypeOK, pageVars, cpuVars
<1>3. PassedOver(i)
    <2>1. CASE hasSlot /\ ~canIssue
        BY <2>1 DEF PassedOver, canIssue, nxtRq
    <2>2. CASE ~hasSlot
        <3>1. requestsPending[nxtRq.kind.op] \in Nat
            BY DEF IInv, TypeOK
        <3>2. maxRequestsPending[nxtRq.kind.op] \in Nat \ {0}
            BY RequestCPUAssumption
        <3> QED
            BY <2>2, <3>1, <3>2 DEF PassedOver, hasSlot, nxtRq
    <2> QED
        BY <2>1, <2>2
<1>4. LoopOK'
    <2>1. i \in Nat
        BY DEF IInv, TypeOK
    <2>2. \A k \in DOMAIN pendingRequests : k < i + 1 => PassedOver(k)
        BY QueueIsSeq, <1>3, <2>1 DEF IInv, LoopOK
    <2>3. \A k \in DOMAIN pendingRequests : PassedOver(k)' <=> PassedOver(k)
        BY DEF PassedOver, cpuVars
    <2>4. \A k \in ToSet(delReqs) : k < i + 1
        BY QueueIsSeq, ListIsSeq, <2>1 DEF IInv, LoopOK
    <2> QED
        BY <2>1, <2>2, <2>3, <2>4 DEF LoopOK, IInv
<1>5. EraseOK' /\ ListOK'
    BY DEF IInv, EraseOK, ListOK, Ascending
<1> QED
    BY <1>1, <1>2, <1>4, <1>5, ControlStep DEF IInv

-----------------------------------------------------------------------------
(* The queue is in the order of the ids, and a place tells an id.          *)
LEMMA QueueOrder ==
    ASSUME IInv, NEW j \in DOMAIN pendingRequests, NEW k \in DOMAIN pendingRequests
    PROVE  /\ pendingRequests[j].id < pendingRequests[k].id => j < k
           /\ pendingRequests[j].id = pendingRequests[k].id => j = k
           /\ pendingRequests[j].id \in Nat
<1>1. j \in Nat /\ k \in Nat
    BY QueueIsSeq DEF IInv
<1>2. pendingRequests[j].id \in Nat /\ pendingRequests[k].id \in Nat
    BY QueueIsSeq, EntryFields DEF IInv
<1>3. /\ j < k => pendingRequests[j].id < pendingRequests[k].id
      /\ k < j => pendingRequests[k].id < pendingRequests[j].id
    BY DEF IInv, QueueOK, Sorted
<1> QED
    BY <1>1, <1>2, <1>3

(* The request that the issue loop looks at is in the queue, and nothing   *)
(* has been done about it.                                                 *)
LEMMA Next_rq ==
    ASSUME IInv, Looking
    PROVE  /\ i \in DOMAIN pendingRequests /\ i \notin ToSet(delReqs)
           /\ nxtRq.id \in DOMAIN generated
           /\ nxtRq.id \in PendingIds
           /\ nxtRq.id \notin InFlightIds \cup completed
           /\ nxtRq.kind = generated[nxtRq.id].kind
           /\ nxtRq.dependsOn = generated[nxtRq.id].dependsOn \ completed
<1>1. i \in DOMAIN pendingRequests
    BY QueueIsSeq DEF IInv, TypeOK, LoopOK, Looking, LoopEnds
<1>2. i \notin ToSet(delReqs)
    BY QueueIsSeq, <1>1 DEF IInv, LoopOK, Looking
<1>3. nxtRq.id \in PendingIds
    BY <1>1, <1>2 DEF PendingIds, nxtRq
<1>4. nxtRq.id \notin InFlightIds \cup completed
    BY <1>3 DEF IInv, EachRequestOnce, Looking, Running
<1> QED
    BY <1>1, <1>2, <1>3, <1>4 DEF IInv, QueueOK, nxtRq

(* The place of the loop is listed behind the others.                      *)
LEMMA PushedBack ==
    ASSUME IInv, Looking, delReqs' = push_back(delReqs, i)
    PROVE  /\ ToSet(delReqs') = ToSet(delReqs) \cup {i}
           /\ delReqs' \in Seq(DOMAIN pendingRequests)
           /\ Ascending(delReqs')
<1> DEFINE m == Len(delReqs) + 1
<1>1. /\ delReqs \in Seq(DOMAIN pendingRequests) /\ i \in DOMAIN pendingRequests
      /\ DOMAIN pendingRequests \subseteq Nat
    BY Next_rq, QueueIsSeq DEF IInv, TypeOK
<1>2. delReqs' = Append(delReqs, i)
    BY DEF push_back
<1>3. /\ delReqs' \in Seq(DOMAIN pendingRequests) /\ DOMAIN delReqs' = 1 .. m
      /\ \A j \in DOMAIN delReqs : delReqs'[j] = delReqs[j]
      /\ delReqs'[m] = i
    BY <1>1, <1>2, AppendProperties, LenProperties
<1>4. m \in Nat /\ DOMAIN delReqs = 1 .. m - 1 /\ DOMAIN delReqs' = DOMAIN delReqs \cup {m}
    BY <1>3, ListIsSeq DEF IInv
<1> HIDE DEF m
<1>5. ToSet(delReqs') = ToSet(delReqs) \cup {i}
    <2>1. \A j \in DOMAIN delReqs' : delReqs'[j] \in ToSet(delReqs) \cup {i}
        BY <1>3, <1>4 DEF ToSet
    <2>2. \A j \in DOMAIN delReqs : delReqs[j] \in ToSet(delReqs')
        BY <1>3, <1>4 DEF ToSet
    <2>3. i \in ToSet(delReqs')
        BY <1>3, <1>4 DEF ToSet
    <2> QED
        BY <2>1, <2>2, <2>3 DEF ToSet
<1>6. \A j \in DOMAIN delReqs : delReqs[j] < i
    BY DEF IInv, LoopOK, Looking, ToSet
<1>7. ASSUME NEW j \in DOMAIN delReqs', NEW k \in DOMAIN delReqs', j < k
      PROVE  delReqs'[j] < delReqs'[k]
    <2>1. j \in DOMAIN delReqs /\ (k \in DOMAIN delReqs \/ k = m)
        BY <1>4, <1>7
    <2> QED
        BY <2>1, <1>3, <1>6, <1>7 DEF IInv, ListOK, Ascending
<1> QED
    BY <1>3, <1>5, <1>7 DEF Ascending

(* What is not listed for erasure any more.                                *)
LEMMA Listed ==
    ASSUME IInv, Looking, delReqs' = push_back(delReqs, i),
           UNCHANGED pendingRequests
    PROVE  PendingIds' = PendingIds \ {nxtRq.id}
<1>1. \A k \in DOMAIN pendingRequests : pendingRequests[k].id = nxtRq.id => k = i
    BY QueueOrder, Next_rq DEF nxtRq
<1> QED
    BY <1>1, Next_rq, PushedBack DEF PendingIds, nxtRq

(* A fence is retired only when all before it has been answered: what the  *)
(* loop has passed over waits for something, which is before it and would  *)
(* have to be in flight.                                                   *)
LEMMA FenceClears ==
    ASSUME IInv, Looking, nxtRq.kind.op = "FENCE", retires
    PROVE  \A a \in 1 .. nxtRq.id - 1 : a \in completed
<1> DEFINE f == nxtRq.id
<1>1. f \in DOMAIN generated /\ f \in Nat /\ DOMAIN generated = 1 .. Len(generated)
      /\ Len(generated) \in Nat
    BY Next_rq, QueueIsSeq DEF IInv
<1>2. \A op \in Ops : requestsPending[op] = 0
    <2> SUFFICES ASSUME NEW op \in Ops PROVE requestsPending[op] = 0
        OBVIOUS
    <2>1. {r \in requestsInFlight : r.op = op} = {}
        BY DEF retires
    <2> QED
        BY <2>1, FS_EmptySet DEF IInv, SlotsAgree
<1>3. ASSUME NEW a \in 1 .. f - 1, a \notin completed
      PROVE  generated[a].dependsOn \ completed # {}
    <2>1. a \in DOMAIN generated /\ a < f
        BY <1>1
    <2>2. a \in PendingIds
        BY <1>3, <2>1 DEF IInv, EachRequestOnce, Looking, Running, InFlightIds, retires
    <2>3. PICK k \in DOMAIN pendingRequests \ ToSet(delReqs) : pendingRequests[k].id = a
        BY <2>2 DEF PendingIds
    <2>4. k < i
        BY <2>1, <2>3, QueueOrder, Next_rq DEF nxtRq
    <2>5. PassedOver(k)
        BY <2>3, <2>4 DEF IInv, LoopOK, Looking
    <2>6. pendingRequests[k].dependsOn # {}
        BY <2>3, <2>5, <1>2 DEF PassedOver
    <2> QED
        BY <2>3, <2>6 DEF IInv, QueueOK
<1>4. ASSUME NEW a \in 1 .. f - 1, a \notin completed
      PROVE  FALSE
    <2>1. PICK d \in generated[a].dependsOn : d \notin completed
        BY <1>3, <1>4
    <2>2. a \in DOMAIN generated
        BY <1>1
    <2>3. d \in 1 .. a - 1 /\ generated[d].dependsOn = {}
        BY <2>1, <2>2 DEF IInv, GeneratedOK
    <2>4. d \in 1 .. f - 1
        BY <2>3, <1>1
    <2> QED
        BY <1>3, <2>1, <2>3, <2>4
<1> QED
    BY <1>4

LEMMA FenceIInv ==
    ASSUME IInv, fence
    PROVE  IInv'
<1> USE DEF fence, Break, genVars, cpuVars, pageVars
<1>0. /\ delReqs' \in Seq(DOMAIN pendingRequests) /\ Ascending(delReqs')
      /\ Looking
    BY PushedBack DEF IInv, TypeOK, ListOK, Ascending
<1>1. TypeOK'
    BY <1>0, Next_rq DEF IInv, TypeOK
<1>2. LoopOK' /\ ListOK'
    <2>1. \A j \in DOMAIN delReqs' : delReqs'[j] \in Nat /\ delReqs'[j] >= 1
        BY <1>0, QueueIsSeq, ElementOfSeq, LenProperties DEF IInv
    <2>2. \A j \in DOMAIN delReqs' : j \in Nat /\ j >= 1
        BY <1>0, LenProperties
    <2> QED
        BY <1>0, <2>1, <2>2 DEF IInv, LoopOK, ListOK, Ascending, Looking
<1>3. EraseOK'
    BY QueueIsSeq DEF IInv, EraseOK, Sorted, Looking
<1>4. CASE ~retires
    <2>1. UNCHANGED requestVars /\ delReqs' = delReqs
        BY <1>4 DEF requestVars
    <2> QED
        BY <1>1, <1>2, <1>3, <2>1, ControlStep DEF IInv
<1>5. CASE retires
    <2> DEFINE f == nxtRq.id
    <2>1. /\ completed' = completed \cup {f} /\ delReqs' = push_back(delReqs, i)
          /\ f \in DOMAIN generated /\ f \in Nat
          /\ generated[f].kind.op = "FENCE"
        BY <1>5, Next_rq, QueueIsSeq DEF IInv
    <2>2. \A a \in 1 .. f - 1 : a \in completed
        BY <1>5, FenceClears
    <2>3. GeneratedOK' /\ FlightOK' /\ SlotsAgree'
        BY DEF IInv, GeneratedOK, FlightOK, SlotsAgree
    <2>4. QueueOK'
        <3>1. Sorted(pendingRequests)'
            BY DEF IInv, QueueOK, Sorted
        <3>2. \A b \in DOMAIN generated : f \notin generated[b].dependsOn
            BY <2>1 DEF IInv, GeneratedOK
        <3> QED
            BY <2>1, <3>1, <3>2 DEF IInv, QueueOK
    <2>5. EachRequestOnce'
        <3>1. PendingIds' = PendingIds \ {f} /\ InFlightIds' = InFlightIds
            BY <2>1, Listed DEF InFlightIds
        <3>2. f \in PendingIds /\ f \notin InFlightIds \cup completed
            BY Next_rq
        <3> HIDE DEF f, fence
        <3> QED
            BY <2>1, <3>1, <3>2 DEF IInv, EachRequestOnce, fence
    <2>6. DependenciesHold'
        <3>1. \A d \in generated[f].dependsOn : d \in completed
            BY <2>1, <2>2 DEF IInv, GeneratedOK
        <3> QED
            BY <2>1, <3>1 DEF IInv, DependenciesHold, InFlightIds
    <2>7. RetiredInOrder'
        BY <2>1, <2>2 DEF IInv, RetiredInOrder
    <2>8. FenceOrder'
        <3> SUFFICES ASSUME NEW g \in DOMAIN generated, NEW b \in DOMAIN generated,
                            generated[g].kind.op = "FENCE", g < b,
                            b \in InFlightIds \cup completed \cup {f},
                            NEW a \in 1 .. g
                     PROVE  a \in completed \cup {f}
            BY <2>1 DEF FenceOrder, InFlightIds
        <3>1. CASE b \in InFlightIds \cup completed
            BY <3>1 DEF IInv, FenceOrder
        <3>2. CASE b = f
            BY <3>2, <2>1, <2>2, QueueIsSeq DEF IInv
        <3> QED
            BY <3>1, <3>2
    <2> QED
        BY <1>1, <1>2, <1>3, <2>3, <2>4, <2>5, <2>6, <2>7, <2>8 DEF IInv
<1> QED
    BY <1>4, <1>5

-----------------------------------------------------------------------------
(* What is in flight after a request has been issued.                      *)
LEMMA Issued ==
    ASSUME IInv, issue, fault' = "none"
    PROVE  /\ InFlight(nxtRq) \in [id : Nat, op : Ops, addr : Nat]
           /\ InFlight(nxtRq).id = nxtRq.id
           /\ InFlight(nxtRq).op = nxtRq.kind.op
           /\ InFlight(nxtRq) \notin requestsInFlight
           /\ requestsInFlight' = requestsInFlight \cup {InFlight(nxtRq)}
           /\ InFlightIds' = InFlightIds \cup {nxtRq.id}
<1>1. nxtRq \in Entry /\ nxtRq.id \notin InFlightIds
    BY Next_rq, QueueIsSeq DEF IInv, issue, nxtRq
<1>2. nxtRq.id \in Nat /\ nxtRq.kind.op \in Ops /\ nxtRq.kind.addr \in Nat
    BY <1>1, EntryFields DEF issue
<1>3. nxtRq.kind.op # "CUSTOM" => mapAddress(nxtRq.kind.addr) \in Nat
    BY MapAddressNat DEF IInv, TypeOK, issue, refusal
<1>4. InFlight(nxtRq) \in [id : Nat, op : Ops, addr : Nat]
    BY <1>2, <1>3 DEF InFlight
<1>5. InFlight(nxtRq).id = nxtRq.id /\ InFlight(nxtRq).op = nxtRq.kind.op
    BY DEF InFlight
<1> QED
    BY <1>1, <1>4, <1>5 DEF issue, InFlightIds

LEMMA IssueTypeOK ==
    ASSUME IInv, issue
    PROVE  TypeOK'
<1> USE DEF issue, genVars, pageVars, cpuVars
<1>1. delReqs' \in Seq(DOMAIN pendingRequests)
    BY PushedBack
<1>2. fault' \in {"none", "assert", "fatal"}
    BY DEF refusal
<1>3. CASE fault' = "none"
    <2>1. requestsInFlight' \subseteq [id : Nat, op : Ops, addr : Nat]
        BY <1>3, Issued DEF IInv, TypeOK
    <2>2. requestsPending' \in [Ops -> Nat]
        <3>1. /\ requestsPending \in [Ops -> Nat] /\ nxtRq.kind.op \in Ops
              /\ requestsPending' = [requestsPending EXCEPT ![nxtRq.kind.op] = @ + 1]
            BY <1>3 DEF IInv, TypeOK
        <3> HIDE DEF issue
        <3> QED
            BY <3>1
    <2> QED
        BY <1>1, <1>2, <2>1, <2>2 DEF IInv, TypeOK
<1>4. CASE fault' # "none"
    BY <1>1, <1>2, <1>4 DEF IInv, TypeOK
<1> QED
    BY <1>3, <1>4

LEMMA IssueSlots ==
    ASSUME IInv, issue, fault' = "none"
    PROVE  SlotsAgree'
<1> DEFINE r == InFlight(nxtRq)
           Of(op) == {s \in requestsInFlight : s.op = op}
<1> SUFFICES ASSUME NEW op \in Ops
             PROVE  /\ requestsPending'[op] = Cardinality(Of(op)')
                    /\ requestsPending'[op] <= maxRequestsPending[op]
    BY DEF SlotsAgree
<1>1. requestsPending[op] \in Nat /\ maxRequestsPending[op] \in Nat
    BY RequestCPUAssumption DEF IInv, TypeOK
<1>2. requestsPending[op] = Cardinality(Of(op)) /\ requestsPending[op] <= maxRequestsPending[op]
    BY DEF IInv, SlotsAgree
<1>3. IsFiniteSet(Of(op))
    BY FS_Subset DEF IInv, FlightOK
<1>4. CASE nxtRq.kind.op = op
    <2>1. Of(op)' = Of(op) \cup {r} /\ r \notin Of(op)
        BY <1>4, Issued
    <2>2. Cardinality(Of(op)') = Cardinality(Of(op)) + 1
        BY <1>3, <2>1, FS_AddElement
    <2>3. requestsPending'[op] = requestsPending[op] + 1
        BY <1>4 DEF issue, IInv, TypeOK
    <2>4. requestsPending[op] < maxRequestsPending[op]
        BY <1>4 DEF issue, hasSlot
    <2> QED
        BY <1>1, <1>2, <2>2, <2>3, <2>4
<1>5. CASE nxtRq.kind.op # op
    <2>1. Of(op)' = Of(op)
        BY <1>5, Issued
    <2>2. requestsPending'[op] = requestsPending[op]
        BY <1>5 DEF issue, IInv, TypeOK
    <2> QED
        BY <1>2, <2>1, <2>2
<1> QED
    BY <1>4, <1>5

LEMMA IssueLoop ==
    ASSUME IInv, issue
    PROVE  LoopOK' /\ ListOK' /\ EraseOK'
<1> USE DEF issue, Looking, genVars, cpuVars
<1>0. ToSet(delReqs') = ToSet(delReqs) \cup {i} /\ Ascending(delReqs')
    BY PushedBack
<1>1. i \in Nat
    BY DEF IInv, TypeOK
<1>2. \A op \in Ops : requestsPending'[op] \in Nat /\ requestsPending'[op] >= requestsPending[op]
    <2>1. requestsPending \in [Ops -> Nat]
        BY DEF IInv, TypeOK
    <2> HIDE DEF issue, IInv
    <2>2. \/ UNCHANGED requestsPending
          \/ requestsPending' = [requestsPending EXCEPT ![nxtRq.kind.op] = @ + 1]
        BY DEF issue
    <2> QED
        BY <2>1, <2>2
<1>3. ASSUME NEW k \in DOMAIN pendingRequests, k < i + 1
      PROVE  PassedOver(k)'
    <2>1. CASE k = i
        BY <2>1, <1>0 DEF PassedOver, nxtRq
    <2>2. CASE k # i
        <3>1. PassedOver(k)
            BY <1>1, <1>3, <2>2, QueueIsSeq DEF IInv, LoopOK
        <3>2. requestsPending[pendingRequests[k].kind.op] \in Nat
            BY <3>1 DEF PassedOver, IInv, TypeOK
        <3> QED
            BY <3>1, <3>2, <1>0, <1>2 DEF PassedOver
    <2> QED
        BY <2>1, <2>2
<1>4. \A k \in ToSet(delReqs) : k < i /\ k \in Nat
    BY QueueIsSeq, ListIsSeq DEF IInv, LoopOK
<1> QED
    BY <1>0, <1>1, <1>3, <1>4 DEF IInv, LoopOK, ListOK, EraseOK

LEMMA IssueIInv ==
    ASSUME IInv, issue
    PROVE  IInv'
<1>1. GeneratedOK' /\ QueueOK' /\ RetiredInOrder'
    BY DEF issue, genVars, IInv, GeneratedOK, QueueOK, Sorted, RetiredInOrder
<1>2. CASE fault' # "none"
    <2>1. FlightOK' /\ SlotsAgree' /\ DependenciesHold' /\ FenceOrder' /\ EachRequestOnce'
        BY <1>2 DEF issue, genVars, cpuVars, IInv, FlightOK, SlotsAgree,
                    DependenciesHold, FenceOrder, InFlightIds, EachRequestOnce
    <2> QED
        BY <1>1, <2>1, IssueTypeOK, IssueLoop DEF IInv
<1>3. CASE fault' = "none"
    <2> DEFINE b == nxtRq.id
    <2>1. /\ b \in DOMAIN generated /\ b \in PendingIds
          /\ b \notin InFlightIds \cup completed
          /\ InFlightIds' = InFlightIds \cup {b}
          /\ generated' = generated /\ completed' = completed
        BY <1>3, Next_rq, Issued DEF issue, genVars
    <2>2. FlightOK'
        <3>1. IsFiniteSet(requestsInFlight')
            BY <1>3, Issued, FS_AddElement DEF IInv, FlightOK
        <3>2. \A s \in requestsInFlight : s.id # b
            BY <2>1 DEF InFlightIds
        <3>3. InFlight(nxtRq).op = generated[b].kind.op
            BY <1>3, Issued, Next_rq DEF issue
        <3> QED
            BY <1>3, <2>1, <3>1, <3>2, <3>3, Issued DEF IInv, FlightOK
    <2>3. DependenciesHold'
        <3>1. generated[b].dependsOn \subseteq completed
            BY Next_rq DEF issue, canIssue
        <3> QED
            BY <2>1, <3>1 DEF IInv, DependenciesHold
    <2>4. EachRequestOnce'
        <3>1. PendingIds' = PendingIds \ {b}
            BY Listed DEF issue
        <3> HIDE DEF b
        <3> QED
            BY <2>1, <3>1 DEF IInv, EachRequestOnce, issue, Looking, Running
    <2>5. FenceOrder'
        <3> SUFFICES ASSUME NEW f \in DOMAIN generated, NEW c \in DOMAIN generated,
                            generated[f].kind.op = "FENCE", f < c,
                            c \in InFlightIds \cup completed \cup {b},
                            NEW a \in 1 .. f
                     PROVE  a \in completed
            BY <2>1 DEF FenceOrder
        <3>1. CASE c \in InFlightIds \cup completed
            BY <3>1 DEF IInv, FenceOrder
        <3>2. CASE c = b
            <4>1. f \notin PendingIds
                <5> SUFFICES ASSUME NEW k \in DOMAIN pendingRequests,
                                    pendingRequests[k].id = f
                             PROVE  FALSE
                    BY DEF PendingIds
                <5>1. k < i
                    BY <3>2, QueueOrder, Next_rq DEF nxtRq, issue
                <5>2. pendingRequests[k].kind.op \in Ops
                    BY <5>1 DEF IInv, LoopOK, PassedOver, issue, Looking
                <5> QED
                    BY <5>2 DEF IInv, QueueOK, Ops
            <4>2. f \notin InFlightIds
                BY DEF IInv, FlightOK, TypeOK, InFlightIds, Ops
            <4>3. f \in completed
                BY <4>1, <4>2 DEF IInv, EachRequestOnce, issue, Looking, Running
            <4>4. a = f \/ a \in 1 .. f - 1
                BY QueueIsSeq DEF IInv
            <4> QED
                BY <4>3, <4>4 DEF IInv, RetiredInOrder
        <3> QED
            BY <3>1, <3>2
    <2> QED
        BY <1>1, <1>3, <2>2, <2>3, <2>4, <2>5, IssueTypeOK, IssueLoop, IssueSlots DEF IInv
<1> QED
    BY <1>2, <1>3

-----------------------------------------------------------------------------
(* What a call of the generator makes.                                     *)
LEMMA Batch ==
    ASSUME TypeOK, NEW b \in Batches
    PROVE  /\ b \in Seq(Entry)
           /\ \A k \in DOMAIN b :
                 /\ b[k].id = Len(generated) + k
                 /\ \A d \in b[k].dependsOn :
                       /\ d = Len(generated) + 1 /\ k = 2
                       /\ b[1].kind.op # "FENCE" /\ b[1].dependsOn = {}
<1> DEFINE n == Len(generated)
<1>1. n \in Nat
    BY QueueIsSeq
<1>2. CASE b = << >>
    BY <1>2
<1>3. ASSUME NEW k \in Kinds, b = <<Request(n + 1, k, {})>>
      PROVE  /\ b \in Seq(Entry)
             /\ \A m \in DOMAIN b : b[m].id = n + m /\ b[m].dependsOn = {}
    <2>1. Request(n + 1, k, {}) \in Entry
        BY <1>1 DEF Request, Entry
    <2> QED
        BY <1>3, <2>1 DEF Request
<1>4. ASSUME NEW j \in Kinds, NEW k \in Kinds, NEW deps \in SUBSET {n + 1},
             j.op # "FENCE",
             b = <<Request(n + 1, j, {}), Request(n + 2, k, deps)>>
      PROVE  /\ b \in Seq(Entry)
             /\ \A m \in DOMAIN b :
                   /\ b[m].id = n + m
                   /\ \A d \in b[m].dependsOn :
                         /\ d = n + 1 /\ m = 2
                         /\ b[1].kind.op # "FENCE" /\ b[1].dependsOn = {}
    <2>1. Request(n + 1, j, {}) \in Entry /\ Request(n + 2, k, deps) \in Entry
        BY <1>1 DEF Request, Entry
    <2>2. b \in Seq(Entry) /\ DOMAIN b = {1, 2}
        BY <1>4, <2>1
    <2>3. b[1].id = n + 1 /\ b[1].kind = j /\ b[1].dependsOn = {}
        BY <1>4 DEF Request
    <2>4. b[2].id = n + 2 /\ b[2].dependsOn = deps
        BY <1>4 DEF Request
    <2> HIDE DEF n
    <2>5. \A m \in DOMAIN b : b[m].id = n + m
        BY <2>2, <2>3, <2>4
    <2>6. ASSUME NEW m \in DOMAIN b, NEW d \in b[m].dependsOn
          PROVE  d = n + 1 /\ m = 2
        BY <2>2, <2>3, <2>4, <2>6
    <2> QED
        BY <1>4, <2>2, <2>3, <2>5, <2>6
<1> QED
    BY <1>2, <1>3, <1>4 DEF Batches

(* A sequence with another behind it.                                      *)
LEMMA Behind ==
    ASSUME NEW q \in Seq(Entry), NEW b \in Seq(Entry)
    PROVE  /\ q \o b \in Seq(Entry)
           /\ DOMAIN (q \o b) = 1 .. Len(q) + Len(b)
           /\ \A k \in DOMAIN q : k \in DOMAIN (q \o b) /\ (q \o b)[k] = q[k]
           /\ \A k \in DOMAIN b :
                 Len(q) + k \in DOMAIN (q \o b) /\ (q \o b)[Len(q) + k] = b[k]
           /\ \A k \in DOMAIN (q \o b) :
                 k \in DOMAIN q \/ \E j \in DOMAIN b : k = Len(q) + j
<1>1. /\ Len(q) \in Nat /\ DOMAIN q = 1 .. Len(q)
      /\ Len(b) \in Nat /\ DOMAIN b = 1 .. Len(b)
    BY LenProperties
<1>2. /\ q \o b \in Seq(Entry) /\ Len(q \o b) = Len(q) + Len(b)
      /\ \A k \in 1 .. Len(q) + Len(b) :
            (q \o b)[k] = IF k <= Len(q) THEN q[k] ELSE b[k - Len(q)]
    BY ConcatProperties
<1> DEFINE c == q \o b
<1>3. DOMAIN c = 1 .. Len(q) + Len(b)
    BY <1>2, LenProperties
<1> HIDE DEF c
<1>4. \A k \in 1 .. Len(q) + Len(b) :
            c[k] = IF k <= Len(q) THEN q[k] ELSE b[k - Len(q)]
    BY <1>2 DEF c
<1>5. ASSUME NEW k \in DOMAIN b
      PROVE  Len(q) + k \in DOMAIN c /\ c[Len(q) + k] = b[k]
    <2>1. /\ Len(q) + k \in 1 .. Len(q) + Len(b) /\ ~(Len(q) + k <= Len(q))
          /\ Len(q) + k - Len(q) = k
        BY <1>1
    <2> QED
        BY <2>1, <1>3, <1>4
<1>6. \A k \in DOMAIN c : k \in DOMAIN q \/ \E j \in DOMAIN b : k = Len(q) + j
    <2> SUFFICES ASSUME NEW k \in DOMAIN c, k \notin DOMAIN q
                 PROVE  \E j \in DOMAIN b : k = Len(q) + j
        OBVIOUS
    <2>1. k - Len(q) \in DOMAIN b /\ k = Len(q) + (k - Len(q))
        BY <1>1, <1>3
    <2> QED
        BY <2>1
<1>7. \A k \in DOMAIN q : k \in DOMAIN c /\ c[k] = q[k]
    BY <1>1, <1>3, <1>4
<1> QED
    BY <1>2, <1>3, <1>5, <1>6, <1>7 DEF c

LEMMA GenerateIInv ==
    ASSUME IInv, generate
    PROVE  IInv'
<1> PICK b \in Batches : /\ generated' = generated \o b
                         /\ pendingRequests' = pendingRequests \o b
    BY DEF generate
<1> DEFINE n == Len(generated)
           p == Len(pendingRequests)
<1>1. /\ UNCHANGED <<pageVars, cpuVars, at, loopVars, completed, ended, fault>>
      /\ at = "generate" /\ i' = i + 1 /\ fault = "none"
      /\ finished' \in BOOLEAN
    BY DEF generate, Running
<1>2. /\ b \in Seq(Entry)
      /\ \A k \in DOMAIN b :
            /\ b[k].id = n + k
            /\ \A d \in b[k].dependsOn :
                  /\ d = n + 1 /\ k = 2
                  /\ b[1].kind.op # "FENCE" /\ b[1].dependsOn = {}
    BY Batch DEF IInv
<1>3. /\ generated \in Seq(Entry) /\ pendingRequests \in Seq(Entry)
      /\ n \in Nat /\ p \in Nat /\ Len(b) \in Nat
      /\ DOMAIN generated = 1 .. n /\ DOMAIN pendingRequests = 1 .. p
      /\ DOMAIN b = 1 .. Len(b)
    BY <1>2, QueueIsSeq, LenProperties DEF IInv, TypeOK
<1>4. /\ generated' \in Seq(Entry) /\ DOMAIN generated' = 1 .. n + Len(b)
      /\ \A k \in DOMAIN generated : k \in DOMAIN generated' /\ generated'[k] = generated[k]
      /\ \A k \in DOMAIN b : n + k \in DOMAIN generated' /\ generated'[n + k] = b[k]
      /\ \A k \in DOMAIN generated' :
            k \in DOMAIN generated \/ \E j \in DOMAIN b : k = n + j
    <2>1. /\ (generated \o b) \in Seq(Entry) /\ DOMAIN (generated \o b) = 1 .. n + Len(b)
          /\ \A k \in DOMAIN generated : k \in DOMAIN (generated \o b) /\ (generated \o b)[k] = generated[k]
          /\ \A k \in DOMAIN b : n + k \in DOMAIN (generated \o b) /\ (generated \o b)[n + k] = b[k]
          /\ \A k \in DOMAIN (generated \o b) :
                k \in DOMAIN generated \/ \E j \in DOMAIN b : k = n + j
        BY <1>2, <1>3, Behind, Zenon
    <2> QED
        BY <2>1, Zenon
<1>5. /\ pendingRequests' \in Seq(Entry)
      /\ \A k \in DOMAIN pendingRequests :
            k \in DOMAIN pendingRequests' /\ pendingRequests'[k] = pendingRequests[k]
      /\ \A k \in DOMAIN b :
            p + k \in DOMAIN pendingRequests' /\ pendingRequests'[p + k] = b[k]
      /\ \A k \in DOMAIN pendingRequests' :
            k \in DOMAIN pendingRequests \/ \E j \in DOMAIN b : k = p + j
    <2>1. /\ (pendingRequests \o b) \in Seq(Entry)
          /\ \A k \in DOMAIN pendingRequests :
                k \in DOMAIN (pendingRequests \o b) /\ (pendingRequests \o b)[k] = pendingRequests[k]
          /\ \A k \in DOMAIN b :
                p + k \in DOMAIN (pendingRequests \o b) /\ (pendingRequests \o b)[p + k] = b[k]
          /\ \A k \in DOMAIN (pendingRequests \o b) :
                k \in DOMAIN pendingRequests \/ \E j \in DOMAIN b : k = p + j
        BY <1>2, <1>3, Behind, Zenon
    <2> QED
        BY <2>1, Zenon
<1> HIDE DEF n, p
<1>6. completed \subseteq DOMAIN generated /\ InFlightIds \subseteq DOMAIN generated
    BY DEF IInv, TypeOK, FlightOK, InFlightIds
<1>7. delReqs = << >> /\ delReqs' = << >>
    BY <1>1 DEF IInv, LoopOK, loopVars
<1>8. TypeOK'
    <2>1. i' \in Nat
        BY <1>1 DEF IInv, TypeOK
    <2>2. completed' \subseteq DOMAIN generated'
        BY <1>1, <1>4, <1>6
    <2> QED
        BY <1>1, <1>4, <1>5, <1>7, <2>1, <2>2 DEF IInv, TypeOK, pageVars, cpuVars, loopVars
<1>9. GeneratedOK'
    <2> SUFFICES ASSUME NEW k \in DOMAIN generated'
                 PROVE  /\ generated'[k].id = k
                        /\ \A d \in generated'[k].dependsOn :
                              /\ d \in 1 .. k - 1
                              /\ generated'[d].kind.op # "FENCE"
                              /\ generated'[d].dependsOn = {}
        BY DEF GeneratedOK
    <2>1. CASE k \in DOMAIN generated
        <3>1. \A d \in generated[k].dependsOn : d \in DOMAIN generated
            BY <2>1, <1>3 DEF IInv, GeneratedOK
        <3> QED
            BY <2>1, <3>1, <1>4 DEF IInv, GeneratedOK
    <2>2. ASSUME NEW j \in DOMAIN b, k = n + j
          PROVE  /\ generated'[k].id = k
                 /\ \A d \in generated'[k].dependsOn :
                       /\ d \in 1 .. k - 1
                       /\ generated'[d].kind.op # "FENCE"
                       /\ generated'[d].dependsOn = {}
        <3>1. generated'[k] = b[j]
            BY <2>2, <1>4
        <3>2. ASSUME NEW d \in b[j].dependsOn
              PROVE  /\ d \in 1 .. k - 1
                     /\ generated'[d] = b[1]
            <4>1. d = n + 1 /\ j = 2
                BY <3>2, <1>2
            <4>2. 1 \in DOMAIN b
                BY <4>1, <1>3
            <4> QED
                BY <4>1, <4>2, <2>2, <1>3, <1>4
        <3> QED
            BY <3>1, <3>2, <2>2, <1>2
    <2> QED
        BY <2>1, <2>2, <1>4
<1>10. Sorted(pendingRequests')
    <2> SUFFICES ASSUME NEW j \in DOMAIN pendingRequests', NEW k \in DOMAIN pendingRequests',
                        j < k
                 PROVE  pendingRequests'[j].id < pendingRequests'[k].id
        BY DEF Sorted
    <2>1. CASE k \in DOMAIN pendingRequests
        <3>1. j \in DOMAIN pendingRequests
            BY <2>1, <1>3, <1>5
        <3> QED
            BY <2>1, <3>1, <1>5 DEF IInv, QueueOK, Sorted
    <2>2. ASSUME NEW m \in DOMAIN b, k = p + m, j \in DOMAIN pendingRequests
          PROVE  pendingRequests'[j].id < pendingRequests'[k].id
        <3>1. pendingRequests'[j].id \in 1 .. n
            BY <2>2, <1>3, <1>5 DEF IInv, QueueOK
        <3>2. pendingRequests'[k].id = n + m
            BY <2>2, <1>2, <1>5
        <3>3. n \in Nat /\ m \in Nat /\ 0 < m
            BY <1>3
        <3> QED
            BY <3>1, <3>2, <3>3
    <2>3. ASSUME NEW m \in DOMAIN b, k = p + m, NEW l \in DOMAIN b, j = p + l
          PROVE  pendingRequests'[j].id < pendingRequests'[k].id
        <3>1. pendingRequests'[j] = b[l] /\ pendingRequests'[k] = b[m]
            BY <2>3, <1>5
        <3>2. b[l].id = n + l /\ b[m].id = n + m
            BY <1>2
        <3>3. l \in Nat /\ m \in Nat /\ p + l < p + m
            BY <2>3, <1>3
        <3>4. n + l < n + m
            BY <3>3, <1>3
        <3> QED
            BY <3>1, <3>2, <3>4
    <2> QED
        BY <2>1, <2>2, <2>3, <1>5
<1>11. QueueOK'
    <2> SUFFICES ASSUME NEW k \in DOMAIN pendingRequests'
                 PROVE  /\ pendingRequests'[k].id \in DOMAIN generated'
                        /\ pendingRequests'[k].kind = generated'[pendingRequests'[k].id].kind
                        /\ pendingRequests'[k].dependsOn
                             = generated'[pendingRequests'[k].id].dependsOn \ completed
        BY <1>1, <1>10 DEF QueueOK, Sorted
    <2>1. CASE k \in DOMAIN pendingRequests
        BY <2>1, <1>4, <1>5 DEF IInv, QueueOK
    <2>2. ASSUME NEW j \in DOMAIN b, k = p + j
          PROVE  /\ pendingRequests'[k].id \in DOMAIN generated'
                 /\ pendingRequests'[k].kind = generated'[pendingRequests'[k].id].kind
                 /\ pendingRequests'[k].dependsOn
                      = generated'[pendingRequests'[k].id].dependsOn \ completed
        <3>1. /\ pendingRequests'[k] = b[j] /\ b[j].id = n + j
              /\ generated'[n + j] = b[j] /\ n + j \in DOMAIN generated'
            BY <2>2, <1>2, <1>4, <1>5
        <3>2. \A d \in b[j].dependsOn : d \notin completed
            BY <1>2, <1>3, <1>6
        <3> QED
            BY <3>1, <3>2
    <2> QED
        BY <2>1, <2>2, <1>5
<1>12. FlightOK' /\ SlotsAgree'
    BY <1>1, <1>4 DEF IInv, FlightOK, SlotsAgree, cpuVars
<1>13. LoopOK' /\ ListOK' /\ EraseOK'
    BY <1>1, <1>7 DEF IInv, LoopOK, ListOK, Ascending, EraseOK, loopVars
<1>14. EachRequestOnce'
    <2>1. PendingIds' = PendingIds \cup (DOMAIN generated' \ DOMAIN generated)
        <3>1. PendingIds = {pendingRequests[k].id : k \in DOMAIN pendingRequests}
            BY <1>7 DEF PendingIds, ToSet
        <3>2. PendingIds' = {pendingRequests'[k].id : k \in DOMAIN pendingRequests'}
            BY <1>7 DEF PendingIds, ToSet
        <3>3. ASSUME NEW k \in DOMAIN b
              PROVE  /\ pendingRequests'[p + k].id = n + k
                     /\ n + k \in DOMAIN generated' \ DOMAIN generated
            <4>1. pendingRequests'[p + k] = b[k] /\ b[k].id = n + k
                BY <1>2, <1>5
            <4>2. n + k \in DOMAIN generated'
                BY <1>4
            <4>3. n + k \notin DOMAIN generated
                BY <1>3
            <4> QED
                BY <4>1, <4>2, <4>3
        <3>4. PendingIds' \subseteq PendingIds \cup (DOMAIN generated' \ DOMAIN generated)
            BY <3>1, <3>2, <3>3, <1>5
        <3>5. PendingIds \subseteq PendingIds'
            BY <3>1, <3>2, <1>5
        <3>6. DOMAIN generated' \ DOMAIN generated \subseteq PendingIds'
            BY <3>2, <3>3, <1>4, <1>5
        <3> QED
            BY <3>4, <3>5, <3>6
    <2>2. InFlightIds' = InFlightIds /\ completed' = completed
        BY <1>1 DEF InFlightIds, cpuVars
    <2>3. DOMAIN generated \subseteq DOMAIN generated'
        BY <1>4
    <2>4. /\ PendingIds \cup InFlightIds \cup completed = DOMAIN generated
          /\ PendingIds \cap (InFlightIds \cup completed) = {}
          /\ InFlightIds \cap completed = {}
        BY <1>1 DEF IInv, EachRequestOnce
    <2> QED
        BY <2>1, <2>2, <2>3, <2>4 DEF EachRequestOnce
<1>15. DependenciesHold' /\ RetiredInOrder'
    BY <1>1, <1>4, <1>6 DEF IInv, DependenciesHold, RetiredInOrder, InFlightIds, cpuVars
<1>16. FenceOrder'
    <2> SUFFICES ASSUME NEW f \in DOMAIN generated', NEW c \in DOMAIN generated',
                        generated'[f].kind.op = "FENCE", f < c,
                        c \in InFlightIds \cup completed,
                        NEW a \in 1 .. f
                 PROVE  a \in completed
        BY <1>1 DEF FenceOrder, InFlightIds, cpuVars
    <2>1. c \in DOMAIN generated /\ f \in DOMAIN generated
        BY <1>3, <1>4, <1>6
    <2> QED
        BY <2>1, <1>4 DEF IInv, FenceOrder
<1> QED
    BY <1>8, <1>9, <1>11, <1>12, <1>13, <1>14, <1>15, <1>16 DEF IInv

-----------------------------------------------------------------------------
(* A turn of the erase loop.                                               *)
LEMMA EraseIInv ==
    ASSUME IInv, erase
    PROVE  IInv'
<1> USE DEF erase, Erasing, genVars, cpuVars, pageVars
<1>1. UNCHANGED requestVars /\ delReqs' = delReqs
    BY DEF requestVars
<1>2. /\ i \in DOMAIN pendingRequests /\ i \in Nat
      /\ pendingRequests[i] \in Entry /\ newQ \in Seq(Entry)
      /\ DOMAIN newQ = 1 .. Len(newQ) /\ Len(newQ) \in Nat
      /\ DOMAIN pendingRequests \subseteq Nat
    BY QueueIsSeq DEF IInv, TypeOK, LoopOK
<1>0. skipped <=> i \in ToSet(delReqs)
    <2>1. /\ Len(delReqs) \in Nat /\ DOMAIN delReqs = 1 .. Len(delReqs)
          /\ \A j \in DOMAIN delReqs : delReqs[j] \in Nat
          /\ nextSkipIndex \in Nat /\ nextSkipIndex >= 1
        BY <1>2, ListIsSeq DEF IInv, TypeOK, ListOK
    <2>2. ASSUME NEW j \in DOMAIN delReqs, delReqs[j] = i
          PROVE  skipped
        <3>1. nextSkipIndex \in DOMAIN delReqs /\ nextSkipIndex <= j
            BY <1>2, <2>1, <2>2 DEF IInv, ListOK
        <3>2. delReqs[nextSkipIndex] >= i
            BY <2>1, <3>1 DEF IInv, ListOK
        <3>3. nextSkipIndex < j => delReqs[nextSkipIndex] < i
            BY <2>2, <3>1 DEF IInv, ListOK, Ascending
        <3> QED
            BY <1>2, <2>1, <2>2, <3>1, <3>2, <3>3 DEF skipped
    <2>3. skipped => i \in ToSet(delReqs)
        BY <2>1 DEF skipped, ToSet
    <2> QED
        BY <2>2, <2>3 DEF ToSet
<1>3. LoopOK' /\ ListOK'
    <2>0. at = "erase" /\ i' = i + 1 /\ UNCHANGED <<at, pendingRequests, delReqs>>
        OBVIOUS
    <2>1. LoopOK'
        BY <1>2 DEF IInv, LoopOK
    <2>2. /\ nextSkipIndex \in Nat /\ nextSkipIndex' \in Nat
          /\ DOMAIN delReqs \subseteq Nat
          /\ \A j \in DOMAIN delReqs : delReqs[j] \in Nat
        BY <1>2, ListIsSeq DEF IInv, TypeOK
    <2>3. CASE skipped
        <3>1. /\ nextSkipIndex \in DOMAIN delReqs /\ delReqs[nextSkipIndex] = i
              /\ nextSkipIndex' = nextSkipIndex + 1
            BY <2>2, <2>3, ListIsSeq DEF IInv, ListOK, skipped
        <3>2. \A j \in DOMAIN delReqs : nextSkipIndex < j => i < delReqs[j]
            BY <3>1 DEF IInv, ListOK, Ascending
        <3>3. \A j \in DOMAIN delReqs :
                 /\ j < nextSkipIndex => delReqs[j] < i
                 /\ j >= nextSkipIndex => delReqs[j] >= i
            BY DEF IInv, ListOK
        <3> HIDE DEF erase
        <3> QED
            BY <1>2, <2>0, <2>1, <2>2, <3>1, <3>2, <3>3 DEF IInv, ListOK, Ascending
    <2>4. CASE ~skipped
        <3>1. \A j \in DOMAIN delReqs : delReqs[j] # i
            BY <2>4, <1>0 DEF ToSet
        <3>2. nextSkipIndex' = nextSkipIndex
            BY <2>4
        <3>3. \A j \in DOMAIN delReqs :
                 /\ j < nextSkipIndex => delReqs[j] < i
                 /\ j >= nextSkipIndex => delReqs[j] >= i
            BY DEF IInv, ListOK
        <3> HIDE DEF erase
        <3> QED
            BY <1>2, <2>0, <2>1, <2>2, <2>4, <3>1, <3>2, <3>3 DEF IInv, ListOK, Ascending
    <2> QED
        BY <2>1, <2>3, <2>4
<1>4. newQ' \in Seq(Entry) => TypeOK'
    <2>1. /\ i' \in Nat /\ nextSkipIndex' \in Nat
          /\ UNCHANGED <<pageMap, swaps, generated, finished, pendingRequests,
                         requestsInFlight, requestsPending, at, delReqs,
                         reqsIssuedThisCycle, completed, ended, fault>>
        BY <1>2 DEF IInv, TypeOK
    <2> HIDE DEF erase
    <2> QED
        BY <2>1 DEF IInv, TypeOK
<1>7. at = "erase" /\ i' = i + 1 /\ UNCHANGED <<at, pendingRequests, delReqs>>
    OBVIOUS
<1>5. CASE i \in ToSet(delReqs)
    <2>1. newQ' = newQ
        BY <1>0, <1>5
    <2>2. TypeOK'
        BY <1>2, <1>4, <2>1
    <2> HIDE DEF erase
    <2>3. EraseOK'
        BY <1>2, <1>5, <1>7, <2>1 DEF IInv, EraseOK, Sorted
    <2> QED
        BY <1>1, <1>3, <2>2, <2>3, ControlStep DEF IInv
<1>6. CASE i \notin ToSet(delReqs)
    <2> DEFINE e == pendingRequests[i]
               m == Len(newQ) + 1
    <2>1. newQ' = Append(newQ, e)
        BY <1>0, <1>6
    <2> HIDE DEF erase
    <2>2. /\ newQ' \in Seq(Entry) /\ DOMAIN newQ' = 1 .. m
          /\ \A j \in DOMAIN newQ : newQ'[j] = newQ[j]
          /\ newQ'[m] = e
        BY <1>2, <2>1, AppendProperties, LenProperties
    <2>3. TypeOK'
        BY <1>4, <2>2
    <2>4. /\ Sorted(newQ)
          /\ \A j \in DOMAIN newQ :
                \E k \in DOMAIN pendingRequests \ ToSet(delReqs) :
                    k < i /\ newQ[j] = pendingRequests[k]
          /\ \A k \in DOMAIN pendingRequests \ ToSet(delReqs) :
                k < i => \E j \in DOMAIN newQ : newQ[j] = pendingRequests[k]
        BY <1>7 DEF IInv, EraseOK
    <2> HIDE DEF e, m
    <2>5. m \in Nat /\ \A j \in DOMAIN newQ' : j \in DOMAIN newQ \/ j = m
        BY <1>2, <2>2 DEF m
    <2>6. DOMAIN newQ \subseteq DOMAIN newQ' /\ m \in DOMAIN newQ'
          /\ \A j \in DOMAIN newQ : j < m /\ j \in Nat
        BY <1>2, <2>2 DEF m
    <2>7. \A j \in DOMAIN newQ : newQ[j].id < e.id
        BY <1>2, <2>4 DEF IInv, QueueOK, Sorted, e
    <2>8. Sorted(newQ')
        BY <2>2, <2>4, <2>5, <2>6, <2>7 DEF Sorted
    <2>9. \A j \in DOMAIN newQ' :
             \E k \in DOMAIN pendingRequests \ ToSet(delReqs) :
                 k < i + 1 /\ newQ'[j] = pendingRequests[k]
        <3>1. \A k \in DOMAIN pendingRequests : k < i => k < i + 1
            BY <1>2
        <3>2. i < i + 1
            BY <1>2
        <3> QED
            BY <1>2, <1>6, <2>2, <2>4, <2>5, <3>1, <3>2 DEF e
    <2>10. \A k \in DOMAIN pendingRequests \ ToSet(delReqs) :
              k < i + 1 => \E j \in DOMAIN newQ' : newQ'[j] = pendingRequests[k]
        <3>1. \A k \in DOMAIN pendingRequests : k < i + 1 => k < i \/ k = i
            BY <1>2
        <3> QED
            BY <1>2, <2>2, <2>4, <2>6, <3>1 DEF e
    <2>11. EraseOK'
        BY <1>7, <2>8, <2>9, <2>10 DEF EraseOK, Sorted
    <2> QED
        BY <1>1, <1>3, <2>3, <2>11, ControlStep DEF IInv
<1> QED
    BY <1>5, <1>6

(* Its end: the queue is left with what was not listed.                    *)
LEMMA ErasedIInv ==
    ASSUME IInv, erased
    PROVE  IInv'
<1> USE DEF erased, tickEnds, genVars, cpuVars, pageVars
<1>0. CASE delReqs = << >> /\ UNCHANGED pendingRequests
    <2>1. UNCHANGED requestVars /\ delReqs' = delReqs
        BY <1>0 DEF requestVars
    <2>2. TypeOK'
        BY <1>0, EmptySeq DEF IInv, TypeOK
    <2>3. LoopOK' /\ ListOK' /\ EraseOK'
        BY DEF LoopOK, ListOK, Ascending, EraseOK
    <2> QED
        BY <2>1, <2>2, <2>3, ControlStep DEF IInv
<1> SUFFICES ASSUME Erasing, i > Len(pendingRequests), pendingRequests' = newQ
             PROVE  IInv'
    BY <1>0
<1> USE DEF Erasing
<1>1. \A k \in DOMAIN pendingRequests : k < i
    BY QueueIsSeq DEF IInv, TypeOK
<1>2. /\ Sorted(newQ)
      /\ \A j \in DOMAIN newQ :
            \E k \in DOMAIN pendingRequests \ ToSet(delReqs) : newQ[j] = pendingRequests[k]
      /\ \A k \in DOMAIN pendingRequests \ ToSet(delReqs) :
            \E j \in DOMAIN newQ : newQ[j] = pendingRequests[k]
    BY <1>1 DEF IInv, EraseOK
<1>3. TypeOK'
    BY EmptySeq DEF IInv, TypeOK
<1>4. GeneratedOK' /\ FlightOK' /\ SlotsAgree' /\ RetiredInOrder'
    BY DEF IInv, GeneratedOK, FlightOK, SlotsAgree, RetiredInOrder
<1>5. DependenciesHold' /\ FenceOrder'
    BY DEF IInv, DependenciesHold, FenceOrder, InFlightIds
<1>6. QueueOK'
    BY <1>2 DEF IInv, QueueOK, Sorted
<1>7. LoopOK' /\ ListOK' /\ EraseOK'
    BY DEF LoopOK, ListOK, Ascending, EraseOK
<1>8. EachRequestOnce'
    <2>1. PendingIds' = {newQ[j].id : j \in DOMAIN newQ}
        BY DEF PendingIds, ToSet
    <2> HIDE DEF erased
    <2>2. {newQ[j].id : j \in DOMAIN newQ} = PendingIds
        BY <1>2 DEF PendingIds
    <2> QED
        BY <2>1, <2>2 DEF erased, IInv, EachRequestOnce, InFlightIds
<1> QED
    BY <1>3, <1>4, <1>5, <1>6, <1>7, <1>8 DEF IInv

-----------------------------------------------------------------------------
(* An answer.                                                              *)
LEMMA AnswerSlots ==
    ASSUME IInv, NEW r \in requestsInFlight, handleEvent(r)
    PROVE  requestsPending' \in [Ops -> Nat] /\ SlotsAgree'
<1> DEFINE Of(op) == {s \in requestsInFlight : s.op = op}
<1>1. /\ requestsPending \in [Ops -> Nat] /\ r.op \in Ops
      /\ requestsPending' = [requestsPending EXCEPT ![r.op] = @ - 1]
      /\ requestsInFlight' = requestsInFlight \ {r}
    BY DEF IInv, TypeOK, handleEvent
<1>2. \A op \in Ops :
         /\ requestsPending[op] = Cardinality(Of(op))
         /\ requestsPending[op] <= maxRequestsPending[op]
         /\ maxRequestsPending[op] \in Nat
    BY RequestCPUAssumption DEF IInv, SlotsAgree
<1>3. /\ Of(r.op)' = Of(r.op) \ {r} /\ r \in Of(r.op)
      /\ \A op \in Ops : op # r.op => Of(op)' = Of(op)
    BY <1>1
<1>4. IsFiniteSet(Of(r.op))
    BY FS_Subset DEF IInv, FlightOK
<1> HIDE DEF Of
<1>5. /\ Cardinality(Of(r.op)') = Cardinality(Of(r.op)) - 1
      /\ Cardinality(Of(r.op)') \in Nat
    BY <1>3, <1>4, FS_RemoveElement, FS_CardinalityType
<1>6. ASSUME NEW op \in Ops
      PROVE  /\ requestsPending'[op] \in Nat
             /\ requestsPending'[op] = Cardinality(Of(op)')
             /\ requestsPending'[op] <= maxRequestsPending[op]
    <2>1. CASE op = r.op
        <3>1. requestsPending'[op] = requestsPending[op] - 1 /\ requestsPending[op] \in Nat
            BY <2>1, <1>1
        <3> QED
            BY <2>1, <3>1, <1>2, <1>5
    <2>2. CASE op # r.op
        <3>1. requestsPending'[op] = requestsPending[op] /\ requestsPending[op] \in Nat
            BY <2>2, <1>1
        <3> QED
            BY <2>2, <3>1, <1>2, <1>3
    <2> QED
        BY <2>1, <2>2
<1>7. requestsPending' \in [Ops -> Nat]
    BY <1>1, <1>6
<1> QED
    BY <1>6, <1>7 DEF SlotsAgree, Of

LEMMA HandleEventIInv ==
    ASSUME IInv, NEW r \in requestsInFlight, handleEvent(r)
    PROVE  IInv'
<1>1. /\ r.id \in DOMAIN generated /\ r.id \in InFlightIds
      /\ r.op = generated[r.id].kind.op /\ r.op \in Ops
    BY DEF IInv, FlightOK, TypeOK, InFlightIds
<1>2. /\ requestsInFlight' = requestsInFlight \ {r}
      /\ completed' = completed \cup {r.id}
      /\ UNCHANGED <<pageVars, genVars, tickVars, ended, fault>>
      /\ at = "idle" /\ fault = "none"
    BY DEF handleEvent, Running
<1>3. InFlightIds' = InFlightIds \ {r.id}
    BY <1>2 DEF IInv, FlightOK, InFlightIds
<1>4. /\ DOMAIN pendingRequests' = DOMAIN pendingRequests
      /\ \A k \in DOMAIN pendingRequests :
            /\ pendingRequests'[k].id = pendingRequests[k].id
            /\ pendingRequests'[k].kind = pendingRequests[k].kind
            /\ pendingRequests'[k].dependsOn = pendingRequests[k].dependsOn \ {r.id}
            /\ pendingRequests'[k] \in Entry
    <2>1. pendingRequests' = [k \in DOMAIN pendingRequests |->
                                 satisfied(pendingRequests[k], r.id)]
        BY DEF handleEvent
    <2>2. \A k \in DOMAIN pendingRequests : pendingRequests[k] \in Entry
        BY QueueIsSeq DEF IInv
    <2>3. ASSUME NEW e \in Entry
          PROVE  /\ satisfied(e, r.id).id = e.id
                 /\ satisfied(e, r.id).kind = e.kind
                 /\ satisfied(e, r.id).dependsOn = e.dependsOn \ {r.id}
                 /\ satisfied(e, r.id) \in Entry
        BY DEF satisfied, Entry
    <2> QED
        BY <2>1, <2>2, <2>3
<1>5. TypeOK'
    <2>1. pendingRequests' \in Seq(Entry)
        <3>1. /\ DOMAIN pendingRequests = 1 .. Len(pendingRequests)
              /\ Len(pendingRequests) \in Nat
            BY QueueIsSeq DEF IInv
        <3>2. pendingRequests' \in [1 .. Len(pendingRequests) -> Entry]
            BY <1>4, <3>1 DEF handleEvent
        <3> QED
            BY <3>1, <3>2
    <2>2. completed' \subseteq DOMAIN generated
        BY <1>1, <1>2 DEF IInv, TypeOK
    <2>3. requestsPending' \in [Ops -> Nat]
        BY AnswerSlots
    <2> QED
        BY <1>2, <1>4, <2>1, <2>2, <2>3
           DEF IInv, TypeOK, pageVars, genVars, tickVars, loopVars
<1>6. GeneratedOK'
    BY <1>2 DEF IInv, GeneratedOK, genVars
<1>7. QueueOK'
    BY <1>2, <1>4 DEF IInv, QueueOK, Sorted, genVars
<1>8. FlightOK'
    BY <1>2, FS_Subset DEF IInv, FlightOK, genVars
<1>9. LoopOK' /\ ListOK'
    BY <1>2 DEF IInv, LoopOK, ListOK, Ascending, tickVars, loopVars
<1>10. EraseOK'
    BY <1>2 DEF IInv, EraseOK, tickVars, loopVars
<1>11. EachRequestOnce'
    <2>1. PendingIds' = PendingIds
        BY <1>2, <1>4 DEF PendingIds, tickVars, loopVars
    <2> QED
        BY <1>1, <1>2, <1>3, <2>1 DEF IInv, EachRequestOnce, genVars
<1>12. DependenciesHold'
    BY <1>1, <1>2, <1>3 DEF IInv, DependenciesHold, genVars
<1>13. RetiredInOrder'
    BY <1>1, <1>2 DEF IInv, RetiredInOrder, genVars, Ops
<1>14. FenceOrder'
    BY <1>1, <1>2, <1>3 DEF IInv, FenceOrder, genVars
<1> QED
    BY <1>5, <1>6, <1>7, <1>8, <1>9, <1>10, <1>11, <1>12, <1>13, <1>14, AnswerSlots
       DEF IInv

-----------------------------------------------------------------------------
LEMMA Invariance == Spec => []IInv
<1>1. ASSUME IInv, [Next]_vars
      PROVE  IInv'
    <2>1. CASE UNCHANGED vars
        BY <1>1, <2>1, StutterIInv
    <2>2. CASE construct
        BY <1>1, <2>2, ConstructIInv
    <2>3. CASE clockTick
        BY <1>1, <2>3, ClockTickIInv
    <2>4. CASE generate
        BY <1>1, <2>4, GenerateIInv
    <2>5. CASE lookUp
        BY <1>1, <2>5, LookUpIInv
    <2>6. CASE fence
        BY <1>1, <2>6, FenceIInv
    <2>7. CASE issue
        BY <1>1, <2>7, IssueIInv
    <2>8. CASE passOver
        BY <1>1, <2>8, PassOverIInv
    <2>9. CASE endOfLoop
        BY <1>1, <2>9, EndOfLoopIInv
    <2>10. CASE erase
        BY <1>1, <2>10, EraseIInv
    <2>11. CASE erased
        BY <1>1, <2>11, ErasedIInv
    <2>12. ASSUME NEW r \in requestsInFlight, handleEvent(r)
           PROVE  IInv'
        BY <1>1, <2>12, HandleEventIInv
    <2> QED
        BY <1>1, <2>1, <2>2, <2>3, <2>4, <2>5, <2>6, <2>7, <2>8, <2>9, <2>10,
           <2>11, <2>12 DEF Next, Cycle
<1> QED
    BY InitIInv, <1>1, PTL DEF Spec

(* Every variable keeps its type; in particular no counter of requests in  *)
(* flight goes below 0, and no request is listed for erasure that is not   *)
(* in the queue.                                                           *)
THEOREM TypeCorrect == Spec => []TypeOK
<1>1. IInv => TypeOK
    BY DEF IInv
<1> QED
    BY <1>1, Invariance, PTL

(* A fence stands: what was asked for behind it is issued only when        *)
(* everything before it has been answered (clockTick, REQ_FENCE).          *)
THEOREM FencesStand == Spec => []FenceOrder
<1>1. IInv => FenceOrder
    BY DEF IInv
<1> QED
    BY <1>1, Invariance, PTL

(* A request is issued only when what it depends on has been answered      *)
(* (canIssue, satisfyDependency).                                          *)
THEOREM DependenciesObeyed == Spec => []DependenciesHold
<1>1. IInv => DependenciesHold
    BY DEF IInv
<1> QED
    BY <1>1, Invariance, PTL

(* The counters agree with the requests in flight and stay within the      *)
(* slots (requestsPending, maxRequestsPending).                            *)
THEOREM SlotsKept == Spec => []SlotsAgree
<1>1. IInv => SlotsAgree
    BY DEF IInv
<1> QED
    BY <1>1, Invariance, PTL

(* No request is lost by the erasing of the queue, and none is issued      *)
(* twice (MirandaRequestQueue::erase).                                     *)
THEOREM NoneLostOrTwice == Spec => []EachRequestOnce
<1>1. IInv => EachRequestOnce
    BY DEF IInv
<1> QED
    BY <1>1, Invariance, PTL

(* The page map, shuffled or not, keeps the generator's addresses apart    *)
(* (MirandaMemoryManager's constructor, mapAddress).                       *)
THEOREM PagesApart == Spec => []AddressesApart
<1>1. Init => Apart
    BY InitApart DEF Init
<1>2. ASSUME Apart, [Next]_vars
      PROVE  Apart'
    <2>1. CASE construct
        BY <1>2, <2>1, ShuffleApart DEF construct
    <2>2. CASE ~construct
        <3>1. UNCHANGED pageVars
            BY <1>2, <2>2 DEF Next, Cycle, vars, clockTick, generate, lookUp, fence,
               issue, passOver, endOfLoop, erase, erased, handleEvent
        <3> QED
            BY <1>2, <3>1, KeptApart
    <2> QED
        BY <2>1, <2>2
<1>3. Apart => AddressesApart
    BY MapAddressApart DEF AddressesApart
<1> QED
    BY <1>1, <1>2, <1>3, PTL DEF Spec
=============================================================================
