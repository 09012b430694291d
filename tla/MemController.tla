--------------------------- MODULE MemController ----------------------------
(***************************************************************************)
(* The memory controller of a PIM node: MemControllerKG and                *)
(* PIMMemController, the PIMBackend behind them with its delay buffer and  *)
(* its self-test, and, as far as src/ relies on them, the convertor and    *)
(* the memory model of sst-elements that are its other neighbours.         *)
(*                                                                         *)
(*   host ---> handleEvent ---> reqQueue ---> requestBuffer ---> inBackend *)
(*   PIM  ---> handlePIMEvent --^   (clock)    (handleNextRequest)    |    *)
(*     ^                                                              |    *)
(*     +---------------------- handleMemResponse <--------------------+    *)
(*                                                                         *)
(* The data of TCLPIM are left out: a function runs for a number of steps, *)
(* each of them a DRAM request or a transfer in the scratch-pad, and INIT  *)
(* with its parameters is one store.  TCLPIM and RevPIM model these parts  *)
(* and take from here only that requests are answered.                     *)
(***************************************************************************)
EXTENDS Naturals, FiniteSets, SequencesExt

CONSTANTS
    Configurations, (* Those of Configuration there may be.                  *)
    Capacity,       (* Per memory model, the requests it holds before it     *)
                    (* refuses another.                                      *)
    MaxIssue,       (* max_requests_per_cycle.                               *)
    MaxSteps        (* Bounds the steps of a function's run.                 *)

F1 == 1
U5 == 13
Functions == {F1, U5}

Memories == {"simpleMem", "dramsim3"}

(* A simulation: its memory model, whether request_delay is not 0, so that *)
(* there is a delay buffer, and whether the program calls a function only  *)
(* when none is in use.                                                    *)
Configuration == [memory : Memories, delayed : BOOLEAN, sequential : BOOLEAN]

ASSUME MemControllerAssumption ==
    /\ Configurations \subseteq Configuration
    /\ Capacity \in [Memories -> Nat \ {0}]
    /\ MaxIssue \in Nat \ {0} /\ MaxSteps \in Nat \ {0}

(* A memory event: the self-test's write and read, a DRAM request of the   *)
(* engine of fn, or an access of the host to the register of fn.  No two   *)
(* events that are alike are ever outstanding at once.                     *)
Event == [kind : {"selfwrite", "selfread"}, fn : {0}] \cup
         [kind : {"dma", "init", "run", "poll"}, fn : Functions]

selfwrite == [kind |-> "selfwrite", fn |-> 0]
selfread == [kind |-> "selfread", fn |-> 0]

VARIABLES
    config,             (* which of the configurations this is               *)
    clockOn,            (* the controller's clock handler is registered      *)
    outstandingEvents,  (* MemControllerKG::outstandingEvents_               *)
    reqQueue,           (* the convertor's request queue                     *)
    requestBuffer,      (* PIMBackend::requestBuffer                         *)
    wakeups,            (* events under way on delay_self_link               *)
    inBackend,          (* requests the memory model has taken               *)
    pendingPIMEvents,   (* PIMBackend::pendingPIMEvents                      *)
    initDRAMDone, selfCheckDone,
    stored,             (* where the self-test's data have been stored       *)
    fstate, engine, left,   (* per function, see TCLPIM                      *)
    hpc,                (* per function, what the thread that uses it does   *)
    fault

controllerVars == <<clockOn, outstandingEvents, reqQueue>>
backendVars == <<requestBuffer, wakeups, inBackend>>
pimVars == <<pendingPIMEvents, initDRAMDone, selfCheckDone, stored>>
deviceVars == <<fstate, engine, left>>
vars == <<controllerVars, backendVars, pimVars, deviceVars, hpc, fault,
          config>>

Init ==
    /\ config \in Configurations
    /\ clockOn = TRUE
    /\ outstandingEvents = {}
    /\ reqQueue = << >> /\ requestBuffer = << >> /\ inBackend = << >>
    /\ wakeups = 0
    /\ pendingPIMEvents = {}
    /\ initDRAMDone = FALSE /\ selfCheckDone = FALSE
    /\ stored = {}
    /\ fstate = [f \in Functions |-> "INVALID"]
    /\ engine = [f \in Functions |-> "IDLE"]
    /\ left = [f \in Functions |-> 0]
    /\ hpc = [f \in Functions |-> "idle"]
    /\ fault = "none"

(* simpleMem works by events of its own and answers in the order of issue, *)
(* dramsim3 in its clock and in any order that keeps that of an address.   *)
InOrder == config.memory = "simpleMem"
BackendClocked == config.memory = "dramsim3"

Full == Len(inBackend) >= Capacity[config.memory]

(* PIMMemController::handleEvent: an event that does not come from the PIM *)
(* goes to the PIM itself if its address decodes to it.  All addresses     *)
(* here do, that of the self-test too (SRAM_BASE + 64).                    *)
fromPIM(e) == e.kind \in {"selfwrite", "selfread", "dma"}
isMMIO(e) == ~fromPIM(e)

running(f) == fstate[f] = "RUNNING"

-----------------------------------------------------------------------------
(* The host: a thread initialises a function, runs it, and polls it until  *)
(* it is done.  Stores are posted, loads are waited for.                   *)

(* Mutant: an event does not wake the controller.                          *)
handleEvent_Asleep(e) ==
    /\ outstandingEvents' = outstandingEvents \cup {e}
    /\ reqQueue' = Append(reqQueue, e)
    /\ UNCHANGED clockOn

(* MemControllerKG::handleEvent, with the turnClockOn at its head.         *)
handleEvent(e) ==
    /\ outstandingEvents' = outstandingEvents \cup {e}
    /\ reqQueue' = Append(reqQueue, e)
    /\ clockOn' = TRUE

Access(f, from, kind, to) ==
    /\ fault = "none" /\ hpc[f] = from
    /\ handleEvent([kind |-> kind, fn |-> f])
    /\ hpc' = [hpc EXCEPT ![f] = to]
    /\ UNCHANGED <<config, backendVars, pimVars, deviceVars, fault>>

Begin(f) ==
    /\ config.sequential => \A g \in Functions : hpc[g] = "idle"
    /\ Access(f, "idle", "init", "run")

Continue(f) == Access(f, "run", "run", "poll") \/ Access(f, "poll", "poll", "wait")

-----------------------------------------------------------------------------
(* The clock.                                                              *)

(* TCLPIM::clock visits the running functions in their order and returns   *)
(* TRUE, without going on, as soon as one of them is done.                 *)
visited == {f \in Functions :
              /\ running(f)
              /\ \A g \in Functions : g < f /\ running(g) => engine[g] # "DONE"}

finished == {f \in visited : engine[f] = "DONE"}

(* Mutant: a PIM that has nothing to do, or waits, lets the clock stop.    *)
unclockPIM_Idle == \A f \in visited : engine[f] # "STEP"

unclockPIM == finished # {}

stepping == {f \in visited : engine[f] = "STEP"}

(* Mutant: a function that is done takes another step.                     *)
Visit_Overrun(D) ==
    /\ fstate' = [f \in Functions |-> IF f \in finished THEN "DONE" ELSE fstate[f]]
    /\ left' = [f \in Functions |-> IF f \in visited THEN left[f] - 1 ELSE left[f]]
    /\ engine' = [f \in Functions |->
                    CASE f \in D -> "WAITING"
                      [] f \in stepping \ D -> IF left[f] = 1 THEN "DONE" ELSE "STEP"
                      [] f \in finished -> "IDLE"
                      [] OTHER -> engine[f]]

(* The visits, of which those to the functions D issue a DRAM request.     *)
Visit(D) ==
    /\ fstate' = [f \in Functions |-> IF f \in finished THEN "DONE" ELSE fstate[f]]
    /\ left' = [f \in Functions |-> IF f \in stepping THEN left[f] - 1 ELSE left[f]]
    /\ engine' = [f \in Functions |->
                    CASE f \in D -> "WAITING"
                      [] f \in stepping \ D -> IF left[f] = 1 THEN "DONE" ELSE "STEP"
                      [] f \in finished -> "IDLE"
                      [] OTHER -> engine[f]]

(* PIMBackend::issueDRAMRequest, in the order of the visits.               *)
Requests(D) ==
    [i \in 1 .. Cardinality(D) |->
        [kind |-> "dma",
         fn |-> CHOOSE f \in D : Cardinality({g \in D : g < f}) = i - 1]]

(* Mutant: the test data are read before they are written.                 *)
SelfTest_Swapped == IF initDRAMDone THEN << >> ELSE <<selfread, selfwrite>>

(* The self-test that PIMBackend::clock issues in its first cycle.         *)
SelfTest == IF initDRAMDone THEN << >> ELSE <<selfwrite, selfread>>

(* How many requests the convertor can pass on to PIMBackend::issueRequest *)
(* in a cycle; with a delay buffer none is refused.                        *)
Least(S) == CHOOSE n \in S : \A m \in S : n <= m
Room == IF config.delayed THEN MaxIssue
        ELSE Capacity[config.memory] - Len(inBackend)
issuing == Least({MaxIssue, Len(reqQueue), Room})

Taken == SubSeq(reqQueue, 1, issuing)

(* PIMBackend::issueRequest, for each of the requests passed on.           *)
issueRequest ==
    IF config.delayed
    THEN /\ requestBuffer' = requestBuffer \o Taken
         /\ wakeups' = wakeups + Len(Taken)
         /\ UNCHANGED inBackend
    ELSE /\ inBackend' = inBackend \o Taken
         /\ UNCHANGED <<requestBuffer, wakeups>>

(* MemControllerKG::clock: the convertor passes requests on, PIMBackend's  *)
(* clock runs the PIM and, the first time, the self-test, and the clock    *)
(* stops if all of them agree to it.  simpleMem always agrees, dramsim3    *)
(* never does.                                                             *)
clock ==
    /\ fault = "none" /\ clockOn
    /\ issueRequest
    /\ \E D \in SUBSET stepping :
          LET new == Requests(D) \o SelfTest IN
          /\ Visit(D)
          /\ reqQueue' = SubSeq(reqQueue, issuing + 1, Len(reqQueue)) \o new
          /\ outstandingEvents' = outstandingEvents \cup ToSet(new)
          /\ pendingPIMEvents' = pendingPIMEvents \cup ToSet(Requests(D))
    /\ initDRAMDone' = TRUE
    /\ clockOn' = ~(unclockPIM /\ ~BackendClocked /\ reqQueue' = << >>)
    /\ UNCHANGED <<config, selfCheckDone, stored, hpc, fault>>

(* Mutant: a refused request is not tried again.                           *)
handleNextRequest_NoRetry ==
    /\ fault = "none" /\ wakeups > 0
    /\ wakeups' = wakeups - 1
    /\ IF ~Full
       THEN /\ inBackend' = Append(inBackend, Head(requestBuffer))
            /\ requestBuffer' = Tail(requestBuffer)
       ELSE UNCHANGED <<inBackend, requestBuffer>>
    /\ UNCHANGED <<config, controllerVars, pimVars, deviceVars, hpc, fault>>

(* Mutant: a request that is passed on stays in the buffer.                *)
handleNextRequest_NoPop ==
    /\ fault = "none" /\ wakeups > 0
    /\ ~Full
    /\ wakeups' = wakeups - 1
    /\ inBackend' = Append(inBackend, Head(requestBuffer))
    /\ UNCHANGED requestBuffer
    /\ UNCHANGED <<config, controllerVars, pimVars, deviceVars, hpc, fault>>

(* Mutant: the newest request is passed on first.                          *)
handleNextRequest_Newest ==
    /\ fault = "none" /\ wakeups > 0
    /\ \/ /\ ~Full
          /\ inBackend' = Append(inBackend, Last(requestBuffer))
          /\ requestBuffer' = Front(requestBuffer)
          /\ wakeups' = wakeups - 1
       \/ /\ Full
          /\ UNCHANGED <<inBackend, requestBuffer, wakeups>>
    /\ UNCHANGED <<config, controllerVars, pimVars, deviceVars, hpc, fault>>

(* A wakeup of the delay buffer: the oldest request is passed on, or, if   *)
(* the memory model refuses it, another wakeup is sent in its stead.       *)
handleNextRequest ==
    /\ fault = "none" /\ wakeups > 0
    /\ \/ /\ ~Full
          /\ inBackend' = Append(inBackend, Head(requestBuffer))
          /\ requestBuffer' = Tail(requestBuffer)
          /\ wakeups' = wakeups - 1
       \/ /\ Full
          /\ UNCHANGED <<inBackend, requestBuffer, wakeups>>
    /\ UNCHANGED <<config, controllerVars, pimVars, deviceVars, hpc, fault>>

-----------------------------------------------------------------------------
(* The answer of the memory model to a request: MemControllerKG's          *)
(* handleMemResponse, by what becomes of the event.                        *)

(* The self-test's write has no response.                                  *)
SelfWriteDone(e) ==
    /\ e.kind = "selfwrite"
    /\ stored' = stored \cup {IF isMMIO(e) THEN "SRAM" ELSE "DRAM"}
    /\ UNCHANGED <<pendingPIMEvents, initDRAMDone, selfCheckDone, deviceVars,
                   hpc, fault>>

(* PIMBackend::handlePIMCompletion.  The first response there is, whoever  *)
(* asked for it, is compared with the test data.                           *)
SelfCheck(e) ==
    /\ fromPIM(e) /\ e.kind # "selfwrite" /\ ~selfCheckDone
    /\ selfCheckDone' = TRUE
    /\ fault' = IF e.kind = "selfread" /\ "DRAM" \in stored THEN "none" ELSE "fatal"
    /\ UNCHANGED <<pendingPIMEvents, initDRAMDone, stored, deviceVars, hpc>>

(* Mutant: the entry of an event that is complete is not erased.           *)
handlePIMCompletion_Kept(e) ==
    /\ fromPIM(e) /\ e.kind # "selfwrite" /\ selfCheckDone
    /\ engine' = [engine EXCEPT ![e.fn] = IF left[e.fn] = 0 THEN "DONE" ELSE "STEP"]
    /\ UNCHANGED <<fstate, left, fault>>
    /\ UNCHANGED <<pimVars, hpc>>

(* PIMBackend::handlePIMCompletion once the self-test is over: the engine  *)
(* that asked goes on.                                                     *)
handlePIMCompletion(e) ==
    /\ fromPIM(e) /\ e.kind # "selfwrite" /\ selfCheckDone
    /\ IF e \in pendingPIMEvents
       THEN /\ engine' = [engine EXCEPT ![e.fn] =
                            IF left[e.fn] = 0 THEN "DONE" ELSE "STEP"]
            /\ pendingPIMEvents' = pendingPIMEvents \ {e}
            /\ UNCHANGED <<fstate, left, fault>>
       ELSE fault' = "fatal" /\ UNCHANGED <<pendingPIMEvents, deviceVars>>
    /\ UNCHANGED <<initDRAMDone, selfCheckDone, stored, hpc>>

(* PIMBackend::handleMMIOWriteCompletion: INIT with the parameters.        *)
InitWritten(e) ==
    /\ e.kind = "init"
    /\ IF fstate[e.fn] \in {"INVALID", "DONE"}
       THEN fstate' = [fstate EXCEPT ![e.fn] = "READY"] /\ UNCHANGED fault
       ELSE fault' = "assert" /\ UNCHANGED fstate
    /\ UNCHANGED <<pimVars, engine, left, hpc>>

(* And RUN, which starts the engine.                                       *)
RunWritten(e) ==
    /\ e.kind = "run"
    /\ IF fstate[e.fn] = "READY"
       THEN /\ fstate' = [fstate EXCEPT ![e.fn] = "RUNNING"]
            /\ engine' = [engine EXCEPT ![e.fn] = "STEP"]
            /\ \E n \in 1 .. MaxSteps : left' = [left EXCEPT ![e.fn] = n]
            /\ UNCHANGED fault
       ELSE fault' = "assert" /\ UNCHANGED deviceVars
    /\ UNCHANGED <<pimVars, hpc>>

(* PIMBackend::handleMMIOReadCompletion: the thread polls again unless the *)
(* function is done.                                                       *)
Polled(e) ==
    /\ e.kind = "poll"
    /\ IF fstate[e.fn] = "INVALID"
       THEN fault' = "assert" /\ UNCHANGED hpc
       ELSE /\ hpc' = [hpc EXCEPT ![e.fn] =
                         IF fstate[e.fn] = "DONE" THEN "idle" ELSE "poll"]
            /\ UNCHANGED fault
    /\ UNCHANGED <<pimVars, deviceVars>>

(* Two accesses to one register, or the two of the self-test, or two DRAM  *)
(* requests of one engine: the memory model keeps them in order.           *)
SameAddress(d, e) == d.fn = e.fn /\ (fromPIM(d) <=> fromPIM(e))

MayAnswer(k) ==
    IF InOrder THEN k = 1
    ELSE \A j \in 1 .. k - 1 : ~SameAddress(inBackend[j], inBackend[k])

handleMemResponse(k) ==
    /\ fault = "none"
    /\ BackendClocked => clockOn
    /\ k \in DOMAIN inBackend /\ MayAnswer(k)
    /\ inBackend' = RemoveAt(inBackend, k)
    /\ outstandingEvents' = outstandingEvents \ {inBackend[k]}
    /\ LET e == inBackend[k] IN
       \/ SelfWriteDone(e)
       \/ SelfCheck(e)
       \/ handlePIMCompletion(e)
       \/ InitWritten(e)
       \/ RunWritten(e)
       \/ Polled(e)
    /\ UNCHANGED <<config, clockOn, reqQueue, requestBuffer, wakeups>>

Next ==
    \/ \E f \in Functions : Begin(f) \/ Continue(f)
    \/ clock
    \/ handleNextRequest
    \/ \E k \in DOMAIN inBackend : handleMemResponse(k)

Spec == Init /\ [][Next]_vars

(* Simulated time passes: clocks that are on tick, links deliver, and the  *)
(* memory model answers its oldest request.  A thread goes on with a call. *)
Fairness ==
    /\ WF_vars(clock)
    /\ WF_vars(handleNextRequest)
    /\ WF_vars(handleMemResponse(1))
    /\ \A f \in Functions : WF_vars(Continue(f))

FairSpec == Spec /\ Fairness

-----------------------------------------------------------------------------
TypeOK ==
    /\ config \in Configurations
    /\ clockOn \in BOOLEAN
    /\ outstandingEvents \subseteq Event
    /\ reqQueue \in Seq(Event)
    /\ requestBuffer \in Seq(Event)
    /\ inBackend \in Seq(Event)
    /\ wakeups \in Nat
    /\ pendingPIMEvents \subseteq Event
    /\ initDRAMDone \in BOOLEAN
    /\ selfCheckDone \in BOOLEAN
    /\ stored \subseteq {"SRAM", "DRAM"}
    /\ fstate \in [Functions -> {"INVALID", "READY", "RUNNING", "DONE"}]
    /\ engine \in [Functions -> {"IDLE", "STEP", "WAITING", "DONE"}]
    /\ left \in [Functions -> 0 .. MaxSteps]
    /\ hpc \in [Functions -> {"idle", "run", "poll", "wait"}]
    /\ fault \in {"none", "assert", "fatal"}

(* All requests without an answer, oldest first.                           *)
Pipeline == inBackend \o requestBuffer \o reqQueue

(* Every request the delay buffer holds has a wakeup under way, and no     *)
(* wakeup finds the buffer empty (PIMBackend::handleNextRequest takes the  *)
(* front of requestBuffer without looking).                                *)
WakeupPerRequest == wakeups = Len(requestBuffer)

(* The controller's table and PIMBackend's agree with what is under way:   *)
(* no event is lost, none is there twice, and a PIM event has its          *)
(* completion function (outstandingEvents_, pendingPIMEvents).             *)
EachEventOnce ==
    /\ IsInjective(Pipeline)
    /\ ToSet(Pipeline) = outstandingEvents
    /\ fault = "none" =>
          pendingPIMEvents = {e \in outstandingEvents : e.kind = "dma"}

(* If memory answers in order, no fatal call and no assertion is reached:  *)
(* the first response is that of the self-test's read and shows its data,  *)
(* every later one has an entry, and the register stores arrive in the     *)
(* order of the program.                                                   *)
NoFatal == InOrder => fault = "none"

(* The clock is stopped only when nothing needs it: a function that runs   *)
(* is visited only by a clock (MemControllerKG::clock, TCLPIM::clock).     *)
(* With two functions in use the first that is done stops it for both.     *)
ClockWhileNeeded ==
    config.sequential /\ ~clockOn =>
        reqQueue = << >> /\ \A f \in Functions : ~running(f)

(* Every call comes to its end, whether the clock stops on the way or not, *)
(* unless the simulation does, which NoFatal excludes with simpleMem.      *)
CallsReturn ==
    \A f \in Functions : hpc[f] # "idle" ~> hpc[f] = "idle" \/ fault # "none"

(* The self-test tests the scratch-pad: "Write test data to SRAM base +    *)
(* 64" (PIMBackend.cc:151).                                                *)
SelfTestReachesSram == selfCheckDone => "SRAM" \in stored

(* To its clients the controller is a memory port: moves from one queue to *)
(* the next show nothing, and per address nothing overtakes.               *)
Port == INSTANCE MemPort WITH pending <- Pipeline

KeepsOrder == Port!Safety

(* And as long as nothing fails, the oldest request is answered.           *)
OldestAnswered == Port!Fairness \/ <>(fault # "none")
=============================================================================
