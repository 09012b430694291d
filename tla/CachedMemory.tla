---------------------------- MODULE CachedMemory ----------------------------
(***************************************************************************)
(* MemControllerKG between the caches of the host and the PIM: what it     *)
(* makes of fetches, write-backs, flushes, noncacheable accesses and       *)
(* custom commands, and when the memory (backing_) changes.                *)
(*                                                                         *)
(*   cache --GetS, GetX, GetSX, PutM, PutE, PutS, FlushLine--> handleEvent *)
(*   core  --noncacheable GetS, Write, CustomReq-->    |                   *)
(*   PIM   --GetS, Write (F_PIM)--> handlePIMEvent ----+                   *)
(*     requestQueue --> inBackend --> handleMemResponse --> who asked      *)
(*                                                                         *)
(* MemController models the queues and clocks on this way and takes every  *)
(* event for noncacheable; here the events carry data, and clocks are left *)
(* out.  An address is that of a word.  The caches of the host count as    *)
(* one, and the order that the convertor and the memory model keep is that *)
(* of MemPort.                                                             *)
(***************************************************************************)
EXTENDS Naturals, FiniteSets, SequencesExt

CONSTANTS
    lineSize,       (* Words of a cache line.                                *)
    Lines,          (* First words of the lines the host caches.             *)
    Noncacheable,   (* Words of the noncacheable region, which the PIM uses. *)
    Values,         (* What is stored in a word.                             *)
    Initial,        (* What is there at first.                               *)
    MaxEvents       (* Bounds the events the controller has at once.         *)

Words(line) == line .. line + lineSize - 1

Cacheable == UNION {Words(line) : line \in Lines}

Address == Cacheable \cup Noncacheable

ASSUME CachedMemoryAssumption ==
    /\ lineSize \in Nat \ {0} /\ MaxEvents \in Nat \ {0}
    /\ Lines \subseteq Nat /\ Noncacheable \subseteq Nat
    /\ Cacheable \cap Noncacheable = {}
    /\ \A k, l \in Lines : k # l => Words(k) \cap Words(l) = {}
    /\ Initial \in Values

Flushes == {"FlushLine", "FlushLineInv"}

Reads == {"GetS", "GetX", "GetSX"}

Writes == {"PutM", "Write"}

CleanPuts == {"PutS", "PutE"}

(* A MemEvent.  Reads carry what they should see in "expect", for the      *)
(* properties only.                                                        *)
Event == [cmd : Reads \cup Writes \cup Flushes \cup CleanPuts \cup {"CustomReq"},
          addr : Address, baseAddr : Address, size : Nat,
          payload : Seq(Values), flags : SUBSET {"NONCACHEABLE", "NORESPONSE", "PIM"},
          expect : Seq(Values)]

VARIABLES
    cache,              (* per line [state, data]; I, E, M as in MESI        *)
    waiting,            (* per line or noncacheable word, what the host      *)
                        (* waits for an answer to                            *)
    outstandingEvents,  (* MemControllerKG::outstandingEvents_: id -> event  *)
    requestQueue,       (* ids the convertor has not passed on               *)
    inBackend,          (* ids the memory model has taken                    *)
    waitingFlushes,     (* the convertor's: id -> ids it depends on          *)
    backing,            (* backing_                                          *)
    pendingPIMEvents,   (* PIMBackend::pendingPIMEvents                      *)
    latest,             (* what was last stored to each word                 *)
    fault

hostVars == <<cache, waiting>>
controllerVars == <<outstandingEvents, requestQueue, waitingFlushes>>
memVars == <<inBackend, backing>>
vars == <<hostVars, controllerVars, memVars, pendingPIMEvents, latest, fault>>

Zero(line) == [k \in 1 .. lineSize |-> Initial]

Init ==
    /\ cache = [l \in Lines |-> [state |-> "I", data |-> Zero(l)]]
    /\ waiting = [p \in Lines \cup Noncacheable |-> "nothing"]
    /\ outstandingEvents = << >> /\ requestQueue = << >>
    /\ waitingFlushes = << >>
    /\ inBackend = << >>
    /\ backing = [a \in Address |-> Initial]
    /\ pendingPIMEvents = {}
    /\ latest = backing
    /\ fault = "none"

-----------------------------------------------------------------------------
(* MemEvent's constructors: a read of size words, a write of its payload.  *)

Read(cmd, addr, baseAddr, size, flags, expect) ==
    [cmd |-> cmd, addr |-> addr, baseAddr |-> baseAddr, size |-> size,
     payload |-> << >>, flags |-> flags, expect |-> expect]

Write(cmd, addr, baseAddr, data, flags) ==
    [cmd |-> cmd, addr |-> addr, baseAddr |-> baseAddr, size |-> Len(data),
     payload |-> data, flags |-> flags, expect |-> << >>]

(* The ids of SST are never used twice; these are as soon as nobody knows  *)
(* them any more.                                                          *)
Ids == 1 .. MaxEvents

Unused == Ids \ DOMAIN outstandingEvents

FirstId == Min(Unused)

NextId == Min(Unused \ {FirstId})

Added(f, id, x) == [n \in DOMAIN f \cup {id} |-> IF n = id THEN x ELSE f[n]]

Erased(f, id) == [n \in DOMAIN f \ {id} |-> f[n]]

(* Mutant: a write-back is answered like any other event.                  *)
Posted_Answered(ev) == ev

(* A write-back has no response.                                           *)
Posted(ev) == IF ev.cmd = "PutM" THEN [ev EXCEPT !.flags = @ \cup {"NORESPONSE"}] ELSE ev

(* The commands that handleEvent passes on as they are.                    *)
PassedOn == Reads \cup Writes \cup {"CustomReq"}

handlePassedOn(ev) ==
    /\ ev.cmd \in PassedOn /\ Unused # {}
    /\ outstandingEvents' = Added(outstandingEvents, FirstId, Posted(ev))
    /\ requestQueue' = Append(requestQueue, FirstId)
    /\ UNCHANGED waitingFlushes

(* What a flush waits for in the convertor: the requests for its line that *)
(* have not been passed on.                                                *)
dependsOn(ev, queue, events) ==
    {id \in ToSet(queue) : events[id].baseAddr = ev.baseAddr}

(* Mutant: the flush is queued before the write-back made from it.         *)
handleFlush_First(ev) ==
    /\ ev.cmd \in Flushes /\ Cardinality(Unused) >= 2
    /\ LET put == Write("PutM", ev.baseAddr, ev.baseAddr, ev.payload, {"NORESPONSE"})
           dirty == ev.payload # << >>
       IN
       /\ requestQueue' = IF dirty THEN Append(requestQueue, FirstId) ELSE requestQueue
       /\ outstandingEvents' =
            Added(IF dirty THEN Added(outstandingEvents, FirstId, put)
                  ELSE outstandingEvents, NextId, [ev EXCEPT !.cmd = "FlushLine"])
       /\ waitingFlushes' =
            Added(waitingFlushes, NextId, dependsOn(ev, requestQueue, outstandingEvents))

(* A flush: what it carries is written back by an event of its own, which  *)
(* goes first.                                                             *)
handleFlush(ev) ==
    /\ ev.cmd \in Flushes /\ Cardinality(Unused) >= 2
    /\ LET put == Write("PutM", ev.baseAddr, ev.baseAddr, ev.payload, {"NORESPONSE"})
           dirty == ev.payload # << >>
           queue == IF dirty THEN Append(requestQueue, FirstId) ELSE requestQueue
           events == IF dirty THEN Added(outstandingEvents, FirstId, put)
                     ELSE outstandingEvents
       IN
       /\ requestQueue' = queue
       /\ outstandingEvents' = Added(events, NextId, [ev EXCEPT !.cmd = "FlushLine"])
       /\ waitingFlushes' = Added(waitingFlushes, NextId, dependsOn(ev, queue, events))

(* Mutant: a flush that carries nothing is dropped, too.                   *)
handleClean_Flush(ev) ==
    ev.cmd \in CleanPuts \cup Flushes /\ ev.payload = << >> /\ UNCHANGED controllerVars

(* A clean line given up is no news to the memory.                         *)
handleClean(ev) == ev.cmd \in CleanPuts /\ UNCHANGED controllerVars

(* MemControllerKG::handleEvent, of an event that is not for a register.   *)
(* Any other command is fatal; nobody here sends one.                      *)
handleEvent(ev) == handlePassedOn(ev) \/ handleFlush(ev) \/ handleClean(ev)

-----------------------------------------------------------------------------
(* The host.                                                               *)

Current(line) == [k \in 1 .. lineSize |-> latest[line + k - 1]]

Idle(p) == fault = "none" /\ waiting[p] = "nothing"

Sends(p, ev) ==
    /\ Idle(p)
    /\ handleEvent(ev)
    /\ UNCHANGED <<memVars, pendingPIMEvents, fault>>

(* A miss on some word of the line.                                        *)
Fetch(line, cmd) ==
    /\ cache[line].state = "I"
    /\ \E a \in Words(line) : Sends(line, Read(cmd, a, line, lineSize, {}, Current(line)))
    /\ waiting' = [waiting EXCEPT ![line] = cmd]
    /\ UNCHANGED <<cache, latest>>

(* A store to a line that is there.                                        *)
Hit(line) ==
    /\ Idle(line) /\ cache[line].state # "I"
    /\ \E a \in Words(line), v \in Values :
          /\ v # latest[a]
          /\ latest' = [latest EXCEPT ![a] = v]
          /\ cache' = [cache EXCEPT ![line].state = "M", ![line].data[a - line + 1] = v]
    /\ UNCHANGED <<waiting, controllerVars, memVars, pendingPIMEvents, fault>>

Dirty(line) == IF cache[line].state = "M" THEN cache[line].data ELSE << >>

(* A line is given up, and written back if it has been stored to.  Nobody  *)
(* waits for that: the line may be fetched again at once.                  *)
Evict(line) ==
    /\ cache[line].state # "I"
    /\ \E cmd \in IF cache[line].state = "M" THEN {"PutM"} ELSE CleanPuts :
          Sends(line, Write(cmd, line, line, Dirty(line), {}))
    /\ cache' = [cache EXCEPT ![line].state = "I"]
    /\ UNCHANGED <<waiting, latest>>

(* A line is flushed, whether it is there or not, and kept or given up.    *)
Flush(line, cmd) ==
    /\ Sends(line, Write(cmd, line, line, Dirty(line), {}))
    /\ cache' = [cache EXCEPT ![line].state =
                    IF @ = "I" \/ cmd = "FlushLineInv" THEN "I" ELSE "E"]
    /\ waiting' = [waiting EXCEPT ![line] = cmd]
    /\ UNCHANGED latest

Load(a) ==
    /\ Sends(a, Read("GetS", a, a, 1, {"NONCACHEABLE"}, <<latest[a]>>))
    /\ waiting' = [waiting EXCEPT ![a] = "GetS"]
    /\ UNCHANGED <<cache, latest>>

Store(a) ==
    /\ \E v \in Values \ {latest[a]} :
          /\ Sends(a, Write("Write", a, a, <<v>>, {"NONCACHEABLE"}))
          /\ latest' = [latest EXCEPT ![a] = v]
    /\ waiting' = [waiting EXCEPT ![a] = "Write"]
    /\ UNCHANGED cache

(* handleCustomEvent.                                                      *)
Custom(a) ==
    /\ Sends(a, Read("CustomReq", a, a, 0, {}, << >>))
    /\ waiting' = [waiting EXCEPT ![a] = "CustomReq"]
    /\ UNCHANGED <<cache, latest>>

(* PIMMemController::handleEvent takes a custom command for a MemEvent and *)
(* decodes an address it does not have.  Whatever is found there may be    *)
(* that of a register, and then an assertion fails.                        *)
CustomDecoded(a) ==
    /\ Idle(a) /\ fault' = "custom"
    /\ UNCHANGED <<hostVars, controllerVars, memVars, pendingPIMEvents, latest>>

(* PIMBackend::issueDRAMRequest and handlePIMEvent.                        *)
Requested(ev) ==
    /\ fault = "none"
    /\ handleEvent([ev EXCEPT !.flags = @ \cup {"PIM"}])
    /\ pendingPIMEvents' = pendingPIMEvents \cup {FirstId}
    /\ UNCHANGED <<hostVars, memVars, fault>>

PIMRead(a) ==
    /\ Requested(Read("GetS", a, a, 1, {"NONCACHEABLE"}, <<latest[a]>>))
    /\ UNCHANGED latest

PIMWrite(a) ==
    \E v \in Values \ {latest[a]} :
        /\ Requested(Write("Write", a, a, <<v>>, {"NONCACHEABLE"}))
        /\ latest' = [latest EXCEPT ![a] = v]

-----------------------------------------------------------------------------
(* The memory.                                                             *)

(* Mutant: the address that was asked for, not that of the line.           *)
start_Asked(ev) == ev.addr

(* Where the data of an event start in the memory: a Write always at the   *)
(* address it gives, the others by their flag.                             *)
start(ev) ==
    IF ev.cmd = "Write" \/ "NONCACHEABLE" \in ev.flags THEN ev.addr ELSE ev.baseAddr

(* Mutant: only stores are written, not write-backs.                       *)
written_Stores(ev) ==
    [a \in Address |->
        IF ev.cmd = "Write" /\ a \in start(ev) .. start(ev) + ev.size - 1
        THEN ev.payload[a - start(ev) + 1] ELSE backing[a]]

(* MemControllerKG::writeData: the words an event stores to, and what it   *)
(* leaves there.                                                           *)
StoresTo(ev, a) == ev.cmd \in Writes /\ a \in start(ev) .. start(ev) + ev.size - 1

Stored(ev, a) == ev.payload[a - start(ev) + 1]

written(ev) ==
    [a \in Address |-> IF StoresTo(ev, a) THEN Stored(ev, a) ELSE backing[a]]

(* Mutant: the payload is not resized.                                     *)
readData_Short(ev) == <<backing[start(ev)]>>

(* MemControllerKG::readData.                                              *)
readData(ev) ==
    [k \in 1 .. ev.size |->
        IF start(ev) + k - 1 \in Address THEN backing[start(ev) + k - 1] ELSE Initial]

Issue ==
    /\ fault = "none" /\ requestQueue # << >>
    /\ inBackend' = Append(inBackend, Head(requestQueue))
    /\ requestQueue' = Tail(requestQueue)
    /\ UNCHANGED <<hostVars, outstandingEvents, waitingFlushes, backing,
                   pendingPIMEvents, latest, fault>>

(* Requests for the same words are answered in their order.                *)
MayAnswer(k) ==
    \A j \in 1 .. k - 1 :
        outstandingEvents[inBackend[j]].baseAddr # outstandingEvents[inBackend[k]].baseAddr

(* The answers that handleMemResponse makes of an event.                   *)

(* A custom command reaches an assertion.                                  *)
CustomAnswered(ev) ==
    /\ ev.cmd = "CustomReq" /\ fault' = "custom"
    /\ UNCHANGED <<hostVars, pendingPIMEvents>>

NoAnswer(ev) ==
    /\ "NORESPONSE" \in ev.flags
    /\ UNCHANGED <<hostVars, pendingPIMEvents, fault>>

Answers(ev) == ev.cmd # "CustomReq" /\ "NORESPONSE" \notin ev.flags

(* handlePIMCompletion: fatal unless there is an entry.                    *)
PIMAnswered(id, ev) ==
    /\ Answers(ev) /\ "PIM" \in ev.flags
    /\ pendingPIMEvents' = pendingPIMEvents \ {id}
    /\ fault' = IF id \in pendingPIMEvents THEN "none" ELSE "fatal"
    /\ UNCHANGED hostVars

(* The host knows what to do with an answer it waits for.  Memory always   *)
(* answers a cacheable read by GetXResp: the line is the cache's own.      *)
HostAnswered(ev) ==
    LET p == IF "NONCACHEABLE" \in ev.flags THEN ev.addr ELSE ev.baseAddr IN
    /\ Answers(ev) /\ "PIM" \notin ev.flags
    /\ waiting' = [waiting EXCEPT ![p] = "nothing"]
    /\ fault' = IF \/ waiting[p] = ev.cmd
                   \/ ev.cmd = "FlushLine" /\ waiting[p] \in Flushes
                THEN "none" ELSE "unexpected response"
    /\ cache' = IF ev.cmd \in Reads /\ "NONCACHEABLE" \notin ev.flags
                THEN [cache EXCEPT ![p] = [state |-> "E", data |-> readData(ev)]]
                ELSE cache
    /\ UNCHANGED pendingPIMEvents

(* Mutant: the entry of an event without a response is kept.               *)
Complete_Kept(id) ==
    /\ outstandingEvents' = IF "NORESPONSE" \in outstandingEvents[id].flags
                            THEN outstandingEvents ELSE Erased(outstandingEvents, id)
    /\ LET ev == outstandingEvents[id] IN
       /\ backing' = written(ev)
       /\ CustomAnswered(ev) \/ NoAnswer(ev) \/ PIMAnswered(id, ev) \/ HostAnswered(ev)
    /\ UNCHANGED <<requestQueue, latest>>

(* MemControllerKG::handleMemResponse.                                     *)
Complete(id) ==
    /\ outstandingEvents' = Erased(outstandingEvents, id)
    /\ LET ev == outstandingEvents[id] IN
       /\ backing' = written(ev)
       /\ CustomAnswered(ev) \/ NoAnswer(ev) \/ PIMAnswered(id, ev) \/ HostAnswered(ev)
    /\ UNCHANGED <<requestQueue, latest>>

(* The memory model answers a request; no flush depends on it any more.    *)
handleMemResponse(k) ==
    /\ fault = "none" /\ k \in DOMAIN inBackend /\ MayAnswer(k)
    /\ inBackend' = RemoveAt(inBackend, k)
    /\ waitingFlushes' = [f \in DOMAIN waitingFlushes |->
                             waitingFlushes[f] \ {inBackend[k]}]
    /\ Complete(inBackend[k])

(* The convertor answers a flush that depends on nothing.                  *)
handleFlushResponse(f) ==
    /\ fault = "none" /\ f \in DOMAIN waitingFlushes /\ waitingFlushes[f] = {}
    /\ waitingFlushes' = Erased(waitingFlushes, f)
    /\ Complete(f)
    /\ UNCHANGED inBackend

Host ==
    \/ \E line \in Lines :
          \/ \E cmd \in Reads : Fetch(line, cmd)
          \/ Hit(line) \/ Evict(line)
          \/ \E cmd \in Flushes : Flush(line, cmd)
    \/ \E a \in Noncacheable : Load(a) \/ Store(a) \/ Custom(a) \/ CustomDecoded(a)

PIM == \E a \in Noncacheable : PIMRead(a) \/ PIMWrite(a)

Memory ==
    \/ Issue
    \/ \E k \in DOMAIN inBackend : handleMemResponse(k)
    \/ \E f \in DOMAIN waitingFlushes : handleFlushResponse(f)

Next == Host \/ PIM \/ Memory

Spec == Init /\ [][Next]_vars

(* The memory takes requests, answers the oldest one and the flushes.      *)
FairSpec ==
    /\ Spec
    /\ WF_vars(Issue) /\ WF_vars(handleMemResponse(1))
    /\ \A f \in Ids : WF_vars(handleFlushResponse(f))

-----------------------------------------------------------------------------
TypeOK ==
    /\ cache \in [Lines -> [state : {"I", "E", "M"}, data : Seq(Values)]]
    /\ \A line \in Lines : Len(cache[line].data) = lineSize
    /\ waiting \in [Lines \cup Noncacheable ->
                      Reads \cup Flushes \cup {"nothing", "Write", "CustomReq"}]
    /\ DOMAIN outstandingEvents \subseteq Ids
    /\ \A id \in DOMAIN outstandingEvents : outstandingEvents[id] \in Event
    /\ requestQueue \in Seq(Ids) /\ inBackend \in Seq(Ids)
    /\ DOMAIN waitingFlushes \subseteq Ids
    /\ \A f \in DOMAIN waitingFlushes : waitingFlushes[f] \subseteq Ids
    /\ backing \in [Address -> Values] /\ latest \in [Address -> Values]
    /\ pendingPIMEvents \subseteq Ids
    /\ fault \in {"none", "custom", "fatal", "unexpected response"}

(* The requests under way, oldest first.                                   *)
Pipeline == inBackend \o requestQueue

EventAt(n) == outstandingEvents[Pipeline[n]]

(* Every event in the table is in one place only, and every event has its  *)
(* entry: one that lost it would end in a fatal error, one that kept it    *)
(* would be answered for ever (outstandingEvents_, pendingPIMEvents).      *)
TableAgrees ==
    /\ IsInjective(Pipeline)
    /\ ToSet(Pipeline) \cap DOMAIN waitingFlushes = {}
    /\ ToSet(Pipeline) \cup DOMAIN waitingFlushes = DOMAIN outstandingEvents
    /\ pendingPIMEvents = {id \in DOMAIN outstandingEvents :
                              "PIM" \in outstandingEvents[id].flags}

(* Nobody is answered who does not wait, and nobody twice: of all events   *)
(* only a custom command ends the simulation (handleMemResponse).          *)
OnlyCustomFaults == fault \in {"none", "custom"}

(* A read is answered by what had been stored last when it was asked for,  *)
(* although the memory changes only when a store is answered, write-backs  *)
(* are answered to nobody, and the host does not wait for them.            *)
ReadsLatest ==
    [][\A id \in DOMAIN outstandingEvents :
          LET ev == outstandingEvents[id] IN
          ev.cmd \in Reads /\ id \notin DOMAIN outstandingEvents' =>
              readData(ev) = ev.expect]_vars

(* No store is lost: what is not in the cache of the host is on its way to *)
(* memory as the last store to its word, or in memory if there is none on  *)
(* its way (handleEvent's write-back of a flush, writeData).               *)
NothingLost ==
    \A a \in Address :
        \/ \E line \in Lines : a \in Words(line) /\ cache[line].state = "M"
        \/ LET stores == {n \in DOMAIN Pipeline : StoresTo(EventAt(n), a)}
           IN  latest[a] = IF stores = {} THEN backing[a] ELSE Stored(EventAt(Max(stores)), a)

(* When a flush is answered, what it carried is in memory.  (A write-back  *)
(* of an earlier eviction may not be: the convertor looks only for those   *)
(* it has not passed on.)                                                  *)
FlushWritesBack ==
    [][\A f \in DOMAIN waitingFlushes :
          LET ev == outstandingEvents[f] IN
          f \notin DOMAIN waitingFlushes' =>
              \A k \in DOMAIN ev.payload : backing'[ev.baseAddr + k - 1] = ev.payload[k]]_vars

(* Whoever waits for the memory gets an answer.                            *)
Answered ==
    \A p \in Lines \cup Noncacheable :
        waiting[p] # "nothing" ~> waiting[p] = "nothing" \/ fault # "none"
=============================================================================
