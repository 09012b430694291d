----------------------------- MODULE RequestCPU -----------------------------
(***************************************************************************)
(* RequestGenCPU_KG with any generator: loads and stores, custom commands  *)
(* and fences, some of which depend on others.  AppLink looks at the two   *)
(* threads behind the one generator of the repository, which asks only for *)
(* loads and stores and blocks; this module looks at the CPU.              *)
(*                                                                         *)
(* A cycle of the CPU is one call, clockTick; here each turn of its two    *)
(* loops is a step, and answers come between cycles only.                  *)
(***************************************************************************)
EXTENDS PageMap, FiniteSets, SequencesExt

CONSTANTS
    Kinds,              (* What the generator asks for: [op, addr].          *)
    MaxRequests,        (* Bounds the requests of the generator.             *)
    cacheLine,          (* cache_line_size                                   *)
    maxOpLookup,        (* max_reorder_lookups                               *)
    reqMaxPerCycle,     (* max_reqs_cycle                                    *)
    maxRequestsPending  (* Slots for the requests of each operation.         *)

Ops == {"READ", "WRITE", "CUSTOM"}

ASSUME RequestCPUAssumption ==
    /\ Kinds \subseteq [op : Ops \cup {"FENCE"}, addr : Nat]
    /\ {MaxRequests, cacheLine, maxOpLookup, reqMaxPerCycle} \subseteq Nat \ {0}
    /\ pageSize % cacheLine = 0
    /\ maxRequestsPending \in [Ops -> Nat \ {0}]

VARIABLES
    generated,              (* every request the generator has made; the     *)
                            (* place of a request is its id                  *)
    finished,               (* reqGen->isFinished()                          *)
    pendingRequests,        (* MirandaRequestQueue: id, kind, dependsOn      *)
    requestsInFlight,       (* issued and not answered: id, op, addr         *)
    requestsPending,        (* how many of them, per operation               *)
    at, i,                  (* where clockTick is, the variable of its loop  *)
    reqsIssuedThisCycle,
    delReqs,                (* the places to be erased, as they are issued   *)
    nextSkipIndex, newQ,    (* erase: the place in delReqs of the next       *)
                            (* request to be skipped; what it keeps          *)
    completed,              (* ids of the requests answered, fences retired  *)
    ended, fault

genVars == <<generated, finished>>
cpuVars == <<requestsInFlight, requestsPending>>
loopVars == <<reqsIssuedThisCycle, delReqs, nextSkipIndex, newQ>>
tickVars == <<at, i, loopVars>>
vars == <<pageVars, genVars, pendingRequests, cpuVars, tickVars, completed,
          ended, fault>>

Init ==
    /\ PageInit
    /\ generated = << >> /\ finished = FALSE
    /\ pendingRequests = << >>
    /\ requestsInFlight = {}
    /\ requestsPending = [op \in Ops |-> 0]
    /\ at = "idle" /\ i = 1 /\ reqsIssuedThisCycle = 0 /\ delReqs = << >>
    /\ nextSkipIndex = 1 /\ newQ = << >>
    /\ completed = {}
    /\ ended = FALSE /\ fault = "none"

Running == fault = "none" /\ ~ended

(* The constructor.                                                        *)
construct ==
    /\ shuffle
    /\ UNCHANGED <<genVars, pendingRequests, cpuVars, tickVars, completed,
                   ended, fault>>

-----------------------------------------------------------------------------
(* clockTick.                                                              *)

Quiet == pendingRequests = << >> /\ \A op \in Ops : requestsPending[op] = 0

(* Its start: the CPU ends with its generator once nothing is pending.     *)
clockTick ==
    /\ Running /\ swaps = 0 /\ at = "idle"
    /\ IF finished /\ Quiet
       THEN ended' = TRUE /\ UNCHANGED <<at, i>>
       ELSE at' = "generate" /\ i' = Len(pendingRequests) /\ UNCHANGED ended
    /\ UNCHANGED <<pageVars, genVars, pendingRequests, cpuVars, loopVars,
                   completed, fault>>

(* No request is generated while a load is in flight (useAppLink).         *)
generating == i < maxOpLookup /\ ~finished /\ requestsPending["READ"] = 0

(* What the generator makes in one call: nothing, a request, or two of     *)
(* which the second may depend on the first.  It cannot depend on those    *)
(* made earlier, of which nobody knows whether they have been answered,    *)
(* nor on a fence, which tells nobody, nor on one request twice, as only   *)
(* one of the entries is removed.                                          *)
Entry == [id : Nat, kind : Kinds, dependsOn : SUBSET Nat]

Request(id, kind, deps) == [id |-> id, kind |-> kind, dependsOn |-> deps]

Batches ==
    LET n == Len(generated) IN
    {<< >>}
      \cup {<<Request(n + 1, k, {})>> : k \in Kinds}
      \cup {<<Request(n + 1, j, {}), Request(n + 2, k, deps)>> :
              j \in {h \in Kinds : h.op # "FENCE"},
              k \in Kinds, deps \in SUBSET {n + 1}}

(* RequestGenerator::generate.                                             *)
generate ==
    /\ Running /\ at = "generate" /\ generating
    /\ \E b \in Batches :
          /\ Len(generated) + Len(b) <= MaxRequests
          /\ generated' = generated \o b
          /\ pendingRequests' = pendingRequests \o b
    /\ finished' \in {TRUE, Len(generated') = MaxRequests}
    /\ i' = i + 1
    /\ UNCHANGED <<pageVars, cpuVars, at, loopVars, completed, ended, fault>>

lookUp ==
    /\ Running /\ at = "generate" /\ ~generating
    /\ at' = "issue" /\ i' = 1
    /\ UNCHANGED <<pageVars, genVars, pendingRequests, cpuVars, loopVars,
                   completed, ended, fault>>

LoopEnds ==
    \/ i > Len(pendingRequests)
    \/ reqsIssuedThisCycle = reqMaxPerCycle
    \/ i > maxOpLookup

Looking == Running /\ at = "issue" /\ ~LoopEnds

nxtRq == pendingRequests[i]

(* Mutant: one request too many.                                           *)
hasSlot_OneMore == requestsPending[nxtRq.kind.op] <= maxRequestsPending[nxtRq.kind.op]

hasSlot == requestsPending[nxtRq.kind.op] < maxRequestsPending[nxtRq.kind.op]

(* Mutant: dependencies are not looked at.                                 *)
canIssue_Always == TRUE

canIssue == nxtRq.dependsOn = {}

Break == at' = "erase" /\ i' = 1

(* Mutant: a fence waits for loads and stores only.                        *)
retires_MemoryOnly == requestsPending["READ"] + requestsPending["WRITE"] = 0

(* Whether a fence may be retired.                                         *)
retires == requestsInFlight = {}

(* Mutant: the place is put first in the list.                             *)
push_back_Front(list, k) == <<k>> \o list

push_back(list, k) == Append(list, k)

(* A fence: whether it is retired or not, nothing behind it is looked at   *)
(* in this cycle.                                                          *)
fence ==
    /\ Looking /\ nxtRq.kind.op = "FENCE"
    /\ IF retires
       THEN /\ delReqs' = push_back(delReqs, i)
            /\ completed' = completed \cup {nxtRq.id}
       ELSE UNCHANGED <<delReqs, completed>>
    /\ Break
    /\ UNCHANGED <<pageVars, genVars, pendingRequests, cpuVars,
                   reqsIssuedThisCycle, nextSkipIndex, newQ, ended, fault>>

(* Loads and stores are of 8 bytes.                                        *)
crossesLine(kind) ==
    kind.op \in {"READ", "WRITE"} /\ (kind.addr % cacheLine) + 8 > cacheLine

InFlight(rq) ==
    [id |-> rq.id, op |-> rq.kind.op,
     addr |-> IF rq.kind.op = "CUSTOM" THEN rq.kind.addr ELSE mapAddress(rq.kind.addr)]

(* What keeps issueRequest from issuing.  With an AppLink no request may   *)
(* cross a cache line, and mapAddress is fatal beyond the memory; a custom *)
(* command is not looked at.                                               *)
refusal(kind) ==
    IF crossesLine(kind) THEN "assert"
    ELSE IF kind.op # "CUSTOM" /\ kind.addr \notin Address THEN "fatal"
    ELSE "none"

(* issueRequest and issueCustomRequest.                                    *)
issue ==
    /\ Looking /\ nxtRq.kind.op \in Ops /\ hasSlot /\ canIssue
    /\ reqsIssuedThisCycle' = reqsIssuedThisCycle + 1
    /\ delReqs' = push_back(delReqs, i)
    /\ i' = i + 1
    /\ fault' = refusal(nxtRq.kind)
    /\ IF fault' = "none"
       THEN /\ requestsInFlight' = requestsInFlight \cup {InFlight(nxtRq)}
            /\ requestsPending' = [requestsPending EXCEPT ![nxtRq.kind.op] = @ + 1]
       ELSE UNCHANGED cpuVars
    /\ UNCHANGED <<pageVars, genVars, pendingRequests, at, nextSkipIndex, newQ,
                   completed, ended>>

(* A request that depends on another is passed over, and a custom command  *)
(* without a slot.                                                         *)
passOver ==
    /\ Looking /\ nxtRq.kind.op \in Ops
    /\ \/ hasSlot /\ ~canIssue
       \/ ~hasSlot /\ nxtRq.kind.op = "CUSTOM"
    /\ i' = i + 1
    /\ UNCHANGED <<pageVars, genVars, pendingRequests, cpuVars, at, loopVars,
                   completed, ended, fault>>

(* The loop ends, at a load or store without a slot for instance.          *)
endOfLoop ==
    /\ Running /\ at = "issue"
    /\ \/ LoopEnds
       \/ Looking /\ nxtRq.kind.op \in {"READ", "WRITE"} /\ ~hasSlot
    /\ Break
    /\ UNCHANGED <<pageVars, genVars, pendingRequests, cpuVars, loopVars,
                   completed, ended, fault>>

(* MirandaRequestQueue::erase, of the places listed in delReqs.  It goes   *)
(* through the queue once and through the list at the same time: the       *)
(* request at nextSkip is the next one not to be copied to newQ.           *)
Erasing == Running /\ at = "erase" /\ delReqs # << >>

skipped ==
    nextSkipIndex <= Len(delReqs) /\ delReqs[nextSkipIndex] = i

erase ==
    /\ Erasing /\ i <= Len(pendingRequests)
    /\ IF skipped
       THEN nextSkipIndex' = nextSkipIndex + 1 /\ UNCHANGED newQ
       ELSE newQ' = Append(newQ, pendingRequests[i]) /\ UNCHANGED nextSkipIndex
    /\ i' = i + 1
    /\ UNCHANGED <<pageVars, genVars, pendingRequests, cpuVars, at, delReqs,
                   reqsIssuedThisCycle, completed, ended, fault>>

(* Mutant: the list of places is not cleared.                              *)
tickEnds_Listed ==
    /\ at' = "idle" /\ i' = 1
    /\ reqsIssuedThisCycle' = 0 /\ nextSkipIndex' = 1 /\ newQ' = << >>
    /\ UNCHANGED delReqs

(* What was local to the call of clockTick is gone.                        *)
tickEnds ==
    /\ at' = "idle" /\ i' = 1
    /\ reqsIssuedThisCycle' = 0 /\ nextSkipIndex' = 1 /\ newQ' = << >>
    /\ delReqs' = << >>

(* The end of erase, which is at once if nothing is listed.                *)
erased ==
    /\ Running /\ at = "erase"
    /\ \/ delReqs = << >> /\ UNCHANGED pendingRequests
       \/ Erasing /\ i > Len(pendingRequests) /\ pendingRequests' = newQ
    /\ tickEnds
    /\ UNCHANGED <<pageVars, genVars, cpuVars, completed, ended, fault>>

-----------------------------------------------------------------------------
(* Mutant: nobody is told that a request has been answered.                *)
satisfied_Never(r, id) == r

(* GeneratorRequest::satisfyDependency.                                    *)
satisfied(r, id) == [r EXCEPT !.dependsOn = @ \ {id}]

(* The answer of the memory, in whatever order it answers, and what        *)
(* handleEvent makes of it.                                                *)
handleEvent(r) ==
    /\ Running /\ at = "idle"
    /\ requestsInFlight' = requestsInFlight \ {r}
    /\ requestsPending' = [requestsPending EXCEPT ![r.op] = @ - 1]
    /\ pendingRequests' = [k \in DOMAIN pendingRequests |->
                              satisfied(pendingRequests[k], r.id)]
    /\ completed' = completed \cup {r.id}
    /\ UNCHANGED <<pageVars, genVars, tickVars, ended, fault>>

Cycle ==
    \/ construct \/ clockTick \/ generate \/ lookUp
    \/ fence \/ issue \/ passOver \/ endOfLoop \/ erase \/ erased

Next == Cycle \/ \E r \in requestsInFlight : handleEvent(r)

Spec == Init /\ [][Next]_vars

Oldest(r) == \A s \in requestsInFlight : r.id <= s.id

AnswerOldest == \E r \in requestsInFlight : Oldest(r) /\ handleEvent(r)

(* The clock ticks, and memory answers its oldest request; an answer that  *)
(* is on its way is delivered between two ticks.                           *)
FairSpec == Spec /\ WF_vars(Cycle) /\ SF_vars(AnswerOldest)

-----------------------------------------------------------------------------
TypeOK ==
    /\ pageMap \in [Pages -> Nat] /\ swaps \in 0 .. 2 * pageCount
    /\ generated \in Seq(Entry) /\ finished \in BOOLEAN
    /\ pendingRequests \in Seq(Entry) /\ newQ \in Seq(Entry)
    /\ requestsInFlight \subseteq [id : Nat, op : Ops, addr : Nat]
    /\ requestsPending \in [Ops -> Nat]
    /\ at \in {"idle", "generate", "issue", "erase"}
    /\ i \in Nat /\ reqsIssuedThisCycle \in Nat
    /\ delReqs \in Seq(DOMAIN pendingRequests) /\ nextSkipIndex \in Nat
    /\ completed \subseteq DOMAIN generated
    /\ ended \in BOOLEAN /\ fault \in {"none", "assert", "fatal"}

InFlightIds == {r.id : r \in requestsInFlight}

(* A fence stands: what was asked for behind it is issued only when        *)
(* everything asked for before it has been answered, although the issue    *)
(* loop passes requests over and looks behind them (clockTick's            *)
(* REQ_FENCE).                                                             *)
FenceOrder ==
    \A f, b \in DOMAIN generated :
        /\ generated[f].kind.op = "FENCE" /\ f < b
        /\ b \in InFlightIds \cup completed
        => \A a \in 1 .. f : a \in completed

(* A request is issued only when those it depends on have been answered.   *)
DependenciesHold ==
    \A b \in InFlightIds \cup completed :
        generated[b].dependsOn \subseteq completed

(* The counters that the slots and the end of the CPU are decided by agree *)
(* with what is in flight, and stay within the slots.                      *)
SlotsAgree ==
    \A op \in Ops :
        /\ requestsPending[op] = Cardinality({r \in requestsInFlight : r.op = op})
        /\ requestsPending[op] <= maxRequestsPending[op]

(* No request is lost between the queue and the memory, or issued twice:   *)
(* what is pending, and not listed for erasure, in flight or answered is   *)
(* all there is (MirandaRequestQueue::erase, requestsInFlight).            *)
PendingIds == {pendingRequests[k].id : k \in DOMAIN pendingRequests \ ToSet(delReqs)}

EachRequestOnce ==
    fault = "none" =>
        /\ PendingIds \cup InFlightIds \cup completed = DOMAIN generated
        /\ PendingIds \cap (InFlightIds \cup completed) = {}
        /\ InFlightIds \cap completed = {}

(* The page map moves pages and does not merge them: addresses of the      *)
(* generator that differ are different in memory (mapAddress).             *)
AddressesApart ==
    \A a, b \in Address : mapAddress(a) = mapAddress(b) => a = b

(* The CPU ends when its generator has finished: every request is issued   *)
(* and answered, no fence is left, and no request waits for one that has   *)
(* been answered (a request that is refused ends it, too).               *)
EndsWhenFinished == finished ~> (ended \/ fault # "none")
=============================================================================
