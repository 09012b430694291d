------------------------------ MODULE AppLink -------------------------------
(***************************************************************************)
(* A native program as the host: App runs it in a thread of its own, which *)
(* hands one event at a time to the simulator's thread through AppLink.    *)
(* AppTransactor turns events into requests, RequestGenCPU_KG issues them  *)
(* to memory, and answers to loads come back through loadQ.                *)
(*                                                                         *)
(* The queue q is guarded by a mutex and a condition variable both threads *)
(* wait on; a critical section is one step here, and the notify_one after  *)
(* it another.  loadQ is not guarded at all.                               *)
(***************************************************************************)
EXTENDS Naturals, FiniteSets, SequencesExt

CONSTANTS
    Addrs, Values,  (* What the program loads from and stores to.            *)
    MaxOps,         (* Bounds the loads and stores of the program.           *)
    maxOpLookup,    (* max_reorder_lookups of RequestGenCPU_KG.              *)
    reqMaxPerCycle, (* max_reqs_cycle.                                       *)
    maxPending,     (* maxloadmemreqpending and maxstorememreqpending.       *)
    NodeSize        (* Elements in a node of std::deque: 64 in libstdc++.    *)

ASSUME AppLinkAssumption ==
    /\ Addrs # {} /\ Values # {}
    /\ MaxOps \in Nat
    /\ {maxOpLookup, reqMaxPerCycle, maxPending, NodeSize} \subseteq Nat \ {0}

Load(a) == [cmd |-> "READ", address |-> a]
Store(a, v) == [cmd |-> "WRITE", address |-> a, data |-> v]
NOP == [cmd |-> "NOP"]
DONE == [cmd |-> "DONE"]

Requests == {Load(a) : a \in Addrs} \cup {Store(a, v) : a \in Addrs, v \in Values}
AppEvent == Requests \cup {NOP, DONE}

VARIABLES
    pc, event,      (* the application's thread: where it is, what it sends  *)
    target, result, (* the last load: its address, what receive returned     *)
    ops,            (* how many requests the program has made                *)
    latest,         (* memory, had every store taken effect at once          *)
    q, asleep,      (* AppLink::q, and the threads that wait on AppLink::cv  *)
    loadQ, loads,   (* AppLink::loadQ, and how many loads were ever put in   *)
    torn,           (* a push that starts a new node of loadQ is under way   *)
    done,           (* AppLink::done                                         *)
    at, i,          (* the simulator: where it is, generate's loop variable  *)
    pendingRequests, inFlight, (* of RequestGenCPU_KG                        *)
    memory,
    ended           (* The generator, and App with it, is deleted.           *)

appVars == <<pc, event, target, result, ops, latest>>
linkVars == <<q, asleep>>
loadVars == <<loadQ, loads, torn>>
simVars == <<done, at, i, pendingRequests, inFlight, memory, ended>>
vars == <<appVars, linkVars, loadVars, simVars>>

Zero == CHOOSE v \in Values : TRUE
Nothing == [rc |-> "none"]

Init ==
    /\ pc = "unborn" /\ event = NOP
    /\ target = CHOOSE a \in Addrs : TRUE
    /\ result = Nothing /\ ops = 0
    /\ latest = [a \in Addrs |-> Zero]
    /\ q = << >> /\ asleep = {}
    /\ loadQ = << >> /\ loads = 0 /\ torn = FALSE
    /\ done = FALSE /\ at = "idle" /\ i = 0
    /\ pendingRequests = << >> /\ inFlight = << >>
    /\ memory = [a \in Addrs |-> Zero]
    /\ ended = FALSE

(* condition_variable::notify_one.                                         *)
notify_one ==
    \/ asleep = {} /\ UNCHANGED asleep
    \/ \E t \in asleep : asleep' = asleep \ {t}

-----------------------------------------------------------------------------
(* The application's thread.                                               *)

App(from, to) == pc = from /\ pc' = to /\ UNCHANGED simVars

(* The program goes on with the next thing it does.  It loads through      *)
(* receive and does not look at what an earlier load returned.             *)
theApp ==
    /\ \/ /\ ops < MaxOps /\ ops' = ops + 1
          /\ \/ \E a \in Addrs :
                   event' = Load(a) /\ target' = a /\ UNCHANGED latest
             \/ \E a \in Addrs, v \in Values :
                   /\ event' = Store(a, v)
                   /\ latest' = [latest EXCEPT ![a] = v]
                   /\ UNCHANGED target
       \/ event' = DONE /\ UNCHANGED <<ops, target, latest>>
    /\ result' = Nothing
    /\ App("work", "send") /\ UNCHANGED <<linkVars, loadVars>>

(* App::send: the critical section, once the queue is empty.               *)
send ==
    /\ "app" \notin asleep /\ q = << >>
    /\ q' = <<event>>
    /\ App("send", "notify")
    /\ UNCHANGED <<event, target, result, ops, latest, asleep, loadVars>>

sendWaits ==
    /\ "app" \notin asleep /\ q # << >>
    /\ asleep' = asleep \cup {"app"}
    /\ App("send", "send")
    /\ UNCHANGED <<event, target, result, ops, latest, q, loadVars>>

(* Its tail.  A load goes on with receive, which sends NOPs.               *)
sendNotifies ==
    /\ notify_one
    /\ App("notify", CASE event.cmd = "WRITE" -> "work"
                       [] event.cmd = "READ" -> "send"
                       [] event.cmd = "NOP" -> "poll"
                       [] event.cmd = "DONE" -> "gone")
    /\ event' = IF event.cmd = "READ" THEN NOP ELSE event
    /\ UNCHANGED <<target, result, ops, latest, q, loadVars>>

(* What loadQ.size() may return.  While the other thread starts a node the *)
(* two cursors of the deque belong to different nodes.                     *)
Garbage == 2
Sizes == IF torn THEN {Len(loadQ) - 1, Len(loadQ), Garbage} ELSE {Len(loadQ)}

(* App::receive looks at the size three times: at the end of its loop,     *)
(* whose bound of 0x100000 tries is not reached, to tell that there is an  *)
(* answer, and to tell that there is only one.                             *)
Looks(from, again, on) ==
    /\ \E n \in Sizes : App(from, IF n = 0 THEN again ELSE on)
    /\ UNCHANGED <<event, target, result, ops, latest, linkVars, loadVars>>

Returns(r) ==
    /\ result' = r
    /\ App(pc, "work")
    /\ UNCHANGED <<event, target, ops, latest, linkVars>>

receive ==
    \/ Looks("poll", "send", "answered")
    \/ Looks("answered", "empty", "single")
    \/ pc = "empty" /\ Returns([rc |-> "empty"]) /\ UNCHANGED loadVars
    \/ \E n \in Sizes :
          /\ pc = "single"
          /\ \/ n > 1 /\ Returns([rc |-> "several"]) /\ UNCHANGED loadVars
             \/ /\ n <= 1
                /\ Returns([rc |-> "ok", data |-> Head(loadQ)])
                /\ loadQ' = Tail(loadQ) /\ UNCHANGED <<loads, torn>>

-----------------------------------------------------------------------------
(* The simulator's thread.                                                 *)

Simulator(from, to) == at = from /\ at' = to /\ UNCHANGED loadVars

InFlight(cmd) == {k \in DOMAIN inFlight : inFlight[k].cmd = cmd}

(* Mutant: room is made for maxOpLookup new requests, not for the rest.    *)
firstNew_Zero == 0

firstNew == Len(pendingRequests)

(* RequestGenCPU_KG::clockTick, its start: the thread is spawned the first *)
(* time, and the generator deleted when it has finished.                   *)
clockTick ==
    /\ ~ended
    /\ pc' = IF pc = "unborn" THEN "work" ELSE pc
    /\ IF done /\ pendingRequests = << >> /\ inFlight = << >>
       THEN ended' = TRUE /\ Simulator("idle", "idle") /\ UNCHANGED i
       ELSE /\ Simulator("idle", "generate") /\ UNCHANGED ended
            /\ i' = firstNew
    /\ UNCHANGED <<event, target, result, ops, latest, linkVars>>
    /\ UNCHANGED <<done, pendingRequests, inFlight, memory>>

(* Mutant: the generator is asked for more after its last event.           *)
generating_AfterDone == i < maxOpLookup /\ InFlight("READ") = {}

(* Its loop over generate, which does nothing while a load is in flight.   *)
generating == i < maxOpLookup /\ ~done /\ InFlight("READ") = {}

(* AppTransactor::generate: the critical section, once there is an event.  *)
generate ==
    /\ generating
    /\ "simulator" \notin asleep /\ q # << >>
    /\ q' = Tail(q)
    /\ done' = (Head(q) = DONE)
    /\ pendingRequests' = IF Head(q) \in Requests THEN Append(pendingRequests, Head(q))
                                                  ELSE pendingRequests
    /\ Simulator("generate", "notify")
    /\ UNCHANGED <<appVars, asleep, i, inFlight, memory, ended>>

generateWaits ==
    /\ generating
    /\ "simulator" \notin asleep /\ q = << >>
    /\ asleep' = asleep \cup {"simulator"}
    /\ Simulator("generate", "generate")
    /\ UNCHANGED <<appVars, q, done, i, pendingRequests, inFlight, memory, ended>>

(* Mutant: the application is not told that the queue is empty.            *)
generateNotifies_Silent ==
    /\ UNCHANGED asleep
    /\ Simulator("notify", "generate")
    /\ i' = i + 1
    /\ UNCHANGED <<appVars, q, done, pendingRequests, inFlight, memory, ended>>

generateNotifies ==
    /\ notify_one
    /\ Simulator("notify", "generate")
    /\ i' = i + 1
    /\ UNCHANGED <<appVars, q, done, pendingRequests, inFlight, memory, ended>>

(* The issue loop stops at the bound for a cycle, and at the first request *)
(* that finds no slot for its operation.                                   *)
HasSlot(k) ==
    LET cmd == pendingRequests[k].cmd
    IN  Cardinality(InFlight(cmd))
          + Cardinality({j \in 1 .. k - 1 : pendingRequests[j].cmd = cmd}) < maxPending

issued ==
    Max({n \in 0 .. Len(pendingRequests) :
            n <= reqMaxPerCycle /\ \A j \in 1 .. n : HasSlot(j)})

(* Mutant: the loop goes on after a request that finds no slot.            *)
issue_Skipping ==
    /\ ~generating
    /\ \E k \in DOMAIN pendingRequests :
          /\ HasSlot(k)
          /\ inFlight' = Append(inFlight, pendingRequests[k])
          /\ pendingRequests' = RemoveAt(pendingRequests, k)
    /\ Simulator("generate", "idle")
    /\ UNCHANGED <<appVars, linkVars, done, i, memory, ended>>

issue ==
    /\ ~generating
    /\ inFlight' = inFlight \o SubSeq(pendingRequests, 1, issued)
    /\ pendingRequests' = SubSeq(pendingRequests, issued + 1, Len(pendingRequests))
    /\ Simulator("generate", "idle")
    /\ UNCHANGED <<appVars, linkVars, done, i, memory, ended>>

(* Memory answers, per address in the order of issue, and handleEvent and  *)
(* handleLoadResponse take the answer.                                     *)
MayAnswer(k) ==
    \A j \in 1 .. k - 1 : inFlight[j].address # inFlight[k].address

handleEvent(k) ==
    /\ at = "idle" /\ ~torn
    /\ k \in DOMAIN inFlight /\ MayAnswer(k)
    /\ inFlight' = RemoveAt(inFlight, k)
    /\ LET r == inFlight[k] IN
       \/ /\ r.cmd = "WRITE"
          /\ memory' = [memory EXCEPT ![r.address] = r.data]
          /\ UNCHANGED loadVars
       \/ /\ r.cmd = "READ"
          /\ loadQ' = Append(loadQ, memory[r.address])
          /\ loads' = loads + 1
          /\ torn' = ((loads + 1) % NodeSize = 0)
          /\ UNCHANGED memory
    /\ at' = IF torn' THEN "push" ELSE "idle"
    /\ UNCHANGED <<appVars, linkVars, done, i, pendingRequests, ended>>

(* The push that starts a node sets its cursors one after the other.       *)
pushed ==
    /\ at = "push" /\ at' = "idle"
    /\ torn' = FALSE
    /\ UNCHANGED <<appVars, linkVars, loadQ, loads>>
    /\ UNCHANGED <<done, i, pendingRequests, inFlight, memory, ended>>

-----------------------------------------------------------------------------
(* A thread that waits may wake without being notified.                    *)
spurious ==
    /\ \E t \in asleep : asleep' = asleep \ {t}
    /\ UNCHANGED <<appVars, q, loadVars, simVars>>

AppSteps == theApp \/ send \/ sendWaits \/ sendNotifies \/ receive
SimulatorSteps ==
    \/ clockTick \/ generate \/ generateWaits \/ generateNotifies \/ issue
    \/ pushed

Next ==
    \/ AppSteps
    \/ SimulatorSteps
    \/ \E k \in DOMAIN inFlight : handleEvent(k)
    \/ spurious

Spec == Init /\ [][Next]_vars

(* Both threads are scheduled, and memory answers its oldest request; that *)
(* the event of the answer is served before the next tick for ever is what *)
(* strong fairness excludes.  The program ends (MaxOps).                   *)
Fairness ==
    /\ WF_vars(AppSteps)
    /\ WF_vars(SimulatorSteps)
    /\ SF_vars(handleEvent(1))

FairSpec == Spec /\ Fairness

-----------------------------------------------------------------------------
TypeOK ==
    /\ pc \in {"unborn", "work", "send", "notify", "poll", "answered", "empty",
               "single", "gone"}
    /\ event \in AppEvent
    /\ target \in Addrs
    /\ result \in [rc : {"none", "empty", "several"}] \cup [rc : {"ok"}, data : Values]
    /\ ops \in 0 .. MaxOps
    /\ latest \in [Addrs -> Values]
    /\ q \in Seq(AppEvent) /\ Len(q) <= 1
    /\ asleep \subseteq {"app", "simulator"}
    /\ loadQ \in Seq(Values)
    /\ loads \in Nat
    /\ torn \in BOOLEAN
    /\ done \in BOOLEAN
    /\ at \in {"idle", "generate", "notify", "push"}
    /\ i \in 0 .. maxOpLookup
    /\ pendingRequests \in Seq(Requests) /\ Len(pendingRequests) <= maxOpLookup
    /\ inFlight \in Seq(Requests)
    /\ memory \in [Addrs -> Values]
    /\ ended \in BOOLEAN

(* Loads whose answer the program has not got: more than one, if receive   *)
(* has failed and left an answer behind.                                   *)
Unanswered ==
    \/ loadQ # << >>
    \/ \E r \in ToSet(pendingRequests \o inFlight) : r.cmd = "READ"

(* An answer that receive returns, if it leaves no load unanswered, is the *)
(* value of the latest store the program made to the address it loads      *)
(* from, although stores are posted, several requests are in flight, and   *)
(* nothing but their order ties an answer to its load (App::receive).      *)
ReceivesLatest ==
    result.rc = "ok" /\ ~Unanswered => result.data = latest[target]

(* One condition variable serves both threads and only one is notified:    *)
(* yet the two never sleep at the same time, nor one of them when what it  *)
(* waits for holds and no notification is to come.                         *)
NoLostWakeup ==
    /\ asleep # {"app", "simulator"}
    /\ "app" \in asleep => q # << >> \/ at = "notify"
    /\ "simulator" \in asleep => q = << >> \/ pc = "notify"

(* The simulation comes to its end: neither thread is left waiting for the *)
(* other, and every request is answered (RequestGenCPU_KG::clockTick).     *)
SimulationEnds == <>ended

(* "Syncrhonized access functions invoked by the derived application"      *)
(* (app.h:25): receive gets the one answer there is.                       *)
ReceiveSucceeds == result.rc \in {"none", "ok"}
=============================================================================
