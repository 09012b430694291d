------------------------ MODULE MemController_proofs ------------------------
(***************************************************************************)
(* Proofs about MemController, for every set of configurations, capacity   *)
(* of the memory model, number of requests a cycle and length of a run:    *)
(* types, that no event and no wakeup is lost or doubled, that nothing is  *)
(* fatal if memory answers in order, that the clock runs while one call at *)
(* a time needs it, and that the controller keeps the order of MemPort.    *)
(***************************************************************************)
EXTENDS MemController, DataLemmas

-----------------------------------------------------------------------------
(* What must not overtake what: the accesses of one host thread, and the   *)
(* PIM and the self-test, whose data it must see first.                    *)
rank == [kind \in {"init", "run", "poll"} |->
            IF kind = "init" THEN 1 ELSE IF kind = "run" THEN 2 ELSE 3]

Earlier(d, e) ==
    \/ d.fn = e.fn /\ ~fromPIM(d) /\ ~fromPIM(e) /\ rank[d.kind] < rank[e.kind]
    \/ d.kind = "selfwrite" /\ e.kind = "selfread"
    \/ d.kind = "selfread" /\ e.kind = "dma"

Ordered(s) == \A j, k \in DOMAIN s : j < k => ~Earlier(s[k], s[j])

LEMMA EarlierStrict == \A e \in Event : ~Earlier(e, e)
<1> SUFFICES ASSUME NEW e \in Event, Earlier(e, e) PROVE FALSE
    OBVIOUS
<1>1. e.kind \in {"init", "run", "poll"} /\ rank[e.kind] < rank[e.kind]
    BY DEF Earlier, Event, fromPIM
<1>2. rank[e.kind] \in {1, 2, 3}
    BY <1>1 DEF rank
<1> QED
    BY <1>1, <1>2

LEMMA Grown ==
    ASSUME NEW s \in Seq(Event), NEW t \in Seq(Event),
           IsInjective(s), IsInjective(t), ToSet(s) \cap ToSet(t) = {},
           Ordered(s), Ordered(t),
           \A d \in ToSet(s), e \in ToSet(t) : ~Earlier(e, d)
    PROVE  IsInjective(s \o t) /\ ToSet(s \o t) = ToSet(s) \cup ToSet(t)
           /\ Ordered(s \o t)
<1> DEFINE u == s \o t
<1>1. /\ Len(s) \in Nat /\ DOMAIN s = 1 .. Len(s)
      /\ Len(t) \in Nat /\ DOMAIN t = 1 .. Len(t)
    BY SeqParts
<1>2. /\ \A k \in DOMAIN s : k \in DOMAIN u /\ u[k] = s[k]
      /\ \A k \in DOMAIN t : Len(s) + k \in DOMAIN u /\ u[Len(s) + k] = t[k]
      /\ \A k \in DOMAIN u : k \in DOMAIN s \/ \E j \in DOMAIN t : k = Len(s) + j
    BY Behind
<1> HIDE DEF u
<1>3. ToSet(u) = ToSet(s) \cup ToSet(t)
    BY <1>2 DEF ToSet
<1>4. \A j \in DOMAIN s, k \in DOMAIN t :
          /\ s[j] # t[k] /\ ~Earlier(t[k], s[j])
    BY DEF ToSet
<1>5. ASSUME NEW j \in DOMAIN u, NEW k \in DOMAIN u
      PROVE  /\ u[j] = u[k] => j = k
             /\ j < k => ~Earlier(u[k], u[j])
    <2>1. CASE j \in DOMAIN s /\ k \in DOMAIN s
        BY <2>1, <1>2 DEF IsInjective, Ordered
    <2>2. ASSUME j \in DOMAIN s, NEW m \in DOMAIN t, k = Len(s) + m
          PROVE  u[j] # u[k] /\ ~Earlier(u[k], u[j])
        BY <2>2, <1>2, <1>4
    <2>3. ASSUME k \in DOMAIN s, NEW l \in DOMAIN t, j = Len(s) + l
          PROVE  u[j] # u[k] /\ ~(j < k)
        BY <2>3, <1>1, <1>2, <1>4
    <2>4. ASSUME NEW l \in DOMAIN t, j = Len(s) + l, NEW m \in DOMAIN t, k = Len(s) + m
          PROVE  /\ u[j] = u[k] => j = k
                 /\ j < k => ~Earlier(u[k], u[j])
        <3>1. u[j] = t[l] /\ u[k] = t[m]
            BY <2>4, <1>2
        <3>2. j < k => l < m
            BY <2>4, <1>1
        <3> QED
            BY <2>4, <3>1, <3>2 DEF IsInjective, Ordered
    <2> QED
        BY <2>1, <2>2, <2>3, <2>4, <1>2
<1> QED
    BY <1>3, <1>5 DEF IsInjective, Ordered, u

LEMMA Shrunk ==
    ASSUME NEW s \in Seq(Event), NEW k \in DOMAIN s, IsInjective(s), Ordered(s)
    PROVE  /\ IsInjective(RemoveAt(s, k)) /\ Ordered(RemoveAt(s, k))
           /\ ToSet(RemoveAt(s, k)) = ToSet(s) \ {s[k]}
<1> DEFINE r == RemoveAt(s, k)
           from(j) == IF j < k THEN j ELSE j + 1
<1>1. Len(s) \in Nat /\ DOMAIN s = 1 .. Len(s) /\ k \in Nat
    BY SeqParts
<1>2. /\ DOMAIN r = 1 .. Len(s) - 1
      /\ \A j \in 1 .. Len(s) - 1 : r[j] = IF j < k THEN s[j] ELSE s[j + 1]
    BY WithoutOne
<1> HIDE DEF r
<1>3. \A j \in DOMAIN r : r[j] = s[from(j)] /\ from(j) \in DOMAIN s \ {k}
    BY <1>1, <1>2
<1>4. \A j, m \in DOMAIN r : /\ from(j) = from(m) => j = m
                             /\ j < m => from(j) < from(m)
    BY <1>1, <1>2
<1>5. \A m \in DOMAIN s \ {k} : \E j \in DOMAIN r : from(j) = m
    <2> SUFFICES ASSUME NEW m \in DOMAIN s \ {k}
                 PROVE  \E j \in DOMAIN r : from(j) = m
        OBVIOUS
    <2>1. CASE m < k
        <3>1. m \in DOMAIN r
            BY <2>1, <1>1, <1>2
        <3> QED
            BY <2>1, <3>1
    <2>2. CASE ~(m < k)
        <3>1. m - 1 \in DOMAIN r /\ ~(m - 1 < k) /\ (m - 1) + 1 = m
            BY <2>2, <1>1, <1>2
        <3> QED
            BY <3>1
    <2> QED
        BY <2>1, <2>2
<1> HIDE DEF from
<1>6. IsInjective(r)
    BY <1>3, <1>4 DEF IsInjective
<1>7. Ordered(r)
    BY <1>3, <1>4 DEF Ordered
<1>8. ToSet(r) = ToSet(s) \ {s[k]}
    BY <1>3, <1>5 DEF ToSet, IsInjective
<1> QED
    BY <1>6, <1>7, <1>8 DEF r
-----------------------------------------------------------------------------
(* The inductive invariant.                                                *)

Under(kind, f) == [kind |-> kind, fn |-> f] \in outstandingEvents

(* The queues of the convertor, the delay buffer and the memory model.     *)
QueuesOK ==
    /\ Len(inBackend) <= Capacity[config.memory]
    /\ ~config.delayed => requestBuffer = << >>
    /\ WakeupPerRequest

PipelineOK ==
    /\ IsInjective(Pipeline) /\ ToSet(Pipeline) = outstandingEvents
    /\ Ordered(Pipeline)

PendingOK == pendingPIMEvents = {e \in outstandingEvents : e.kind = "dma"}

(* An engine waits exactly while it has a request under way.               *)
EnginesOK ==
    \A f \in Functions :
        /\ Under("dma", f) <=> engine[f] = "WAITING"
        /\ ~running(f) => engine[f] = "IDLE"
        /\ engine[f] = "STEP" => left[f] >= 1

(* What a thread has under way, and what the function makes of it.         *)
ThreadsOK ==
    \A f \in Functions :
        /\ Under("poll", f) <=> hpc[f] = "wait"
        /\ Under("run", f) => hpc[f] \in {"poll", "wait"}
        /\ Under("init", f) => hpc[f] # "idle" /\ (hpc[f] = "run" \/ Under("run", f))
        /\ fstate[f] \in IF hpc[f] = "idle" \/ Under("init", f) THEN {"INVALID", "DONE"}
                         ELSE IF hpc[f] = "run" \/ Under("run", f) THEN {"READY"}
                         ELSE {"RUNNING", "DONE"}

(* Nothing reaches memory before the first cycle of the clock, in which    *)
(* the self-test is issued.                                                *)
SelfTestOK ==
    /\ ~initDRAMDone => /\ inBackend = << >> /\ requestBuffer = << >>
                        /\ ~selfCheckDone
                        /\ \A e \in outstandingEvents : ~fromPIM(e)
                        /\ \A f \in Functions : engine[f] = "IDLE"
    /\ initDRAMDone => /\ selfread \in outstandingEvents <=> ~selfCheckDone
                       /\ selfwrite \in outstandingEvents \/ "DRAM" \in stored

(* One call at a time, if the program is such.                             *)
Alone ==
    config.sequential =>
        \A f, g \in Functions : hpc[f] # "idle" /\ hpc[g] # "idle" => f = g

(* When the clock stands still no function runs, nor is about to.          *)
ClockOK ==
    config.sequential /\ ~clockOn =>
        /\ reqQueue = << >>
        /\ \A f \in Functions : ~running(f) /\ ~Under("run", f)

Inner == PendingOK /\ EnginesOK /\ ThreadsOK /\ SelfTestOK /\ Alone

IInv ==
    /\ TypeOK
    /\ QueuesOK
    /\ PipelineOK
    /\ ClockOK
    /\ NoFatal
    /\ fault = "none" => Inner

-----------------------------------------------------------------------------
(* The queues.                                                             *)

LEMMA Parts ==
    ASSUME TypeOK
    PROVE  /\ inBackend \in Seq(Event) /\ requestBuffer \in Seq(Event)
           /\ reqQueue \in Seq(Event)
           /\ requestBuffer \o reqQueue \in Seq(Event)
           /\ Pipeline \in Seq(Event)
           /\ Pipeline = inBackend \o (requestBuffer \o reqQueue)
           /\ \A k \in DOMAIN inBackend : k \in DOMAIN Pipeline /\ Pipeline[k] = inBackend[k]
           /\ DOMAIN inBackend = 1 .. Len(inBackend) /\ Len(inBackend) \in Nat
<1>1. /\ inBackend \in Seq(Event) /\ requestBuffer \in Seq(Event)
      /\ reqQueue \in Seq(Event)
    BY DEF TypeOK
<1>2. requestBuffer \o reqQueue \in Seq(Event)
    BY <1>1, ConcatProperties
<1>3. Pipeline = inBackend \o (requestBuffer \o reqQueue)
    BY <1>1, ConcatAssociative DEF Pipeline
<1> DEFINE t == requestBuffer \o reqQueue
<1> HIDE DEF t
<1>4. /\ inBackend \o t \in Seq(Event)
      /\ \A k \in DOMAIN inBackend :
            k \in DOMAIN (inBackend \o t) /\ (inBackend \o t)[k] = inBackend[k]
    <2>1. t \in Seq(Event)
        BY <1>2 DEF t
    <2> QED
        BY <1>1, <2>1, Behind
<1>5. DOMAIN inBackend = 1 .. Len(inBackend) /\ Len(inBackend) \in Nat
    BY <1>1, SeqParts
<1> QED
    BY <1>1, <1>2, <1>3, <1>4, <1>5 DEF t

LEMMA Grows ==
    ASSUME TypeOK, PipelineOK, NEW new \in Seq(Event), Pipeline' = Pipeline \o new,
           outstandingEvents' = outstandingEvents \cup ToSet(new),
           IsInjective(new), Ordered(new),
           ToSet(new) \cap outstandingEvents = {},
           \A d \in outstandingEvents, e \in ToSet(new) : ~Earlier(e, d)
    PROVE  PipelineOK'
<1>1. Pipeline \in Seq(Event)
    BY Parts
<1>2. /\ IsInjective(Pipeline \o new)
      /\ ToSet(Pipeline \o new) = ToSet(Pipeline) \cup ToSet(new)
      /\ Ordered(Pipeline \o new)
    BY <1>1, Grown DEF PipelineOK
<1> QED
    BY <1>2 DEF PipelineOK

LEMMA Shrinks ==
    ASSUME TypeOK, PipelineOK, NEW k \in DOMAIN inBackend,
           inBackend' = RemoveAt(inBackend, k),
           UNCHANGED <<requestBuffer, reqQueue>>,
           outstandingEvents' = outstandingEvents \ {inBackend[k]}
    PROVE  /\ PipelineOK'
           /\ Pipeline' = RemoveAt(Pipeline, k)
           /\ inBackend[k] \in outstandingEvents
<1> DEFINE t == requestBuffer \o reqQueue
<1>1. /\ inBackend \in Seq(Event) /\ t \in Seq(Event)
      /\ requestBuffer \in Seq(Event) /\ reqQueue \in Seq(Event)
      /\ Pipeline \in Seq(Event) /\ Pipeline = inBackend \o t
      /\ k \in DOMAIN Pipeline /\ Pipeline[k] = inBackend[k]
    BY Parts
<1>2. RemoveAt(inBackend, k) \in Seq(Event)
    BY <1>1, WithoutOne
<1>3. Pipeline' = RemoveAt(inBackend, k) \o t
    <2>1. Pipeline' = (RemoveAt(inBackend, k) \o requestBuffer) \o reqQueue
        BY DEF Pipeline
    <2> DEFINE r == RemoveAt(inBackend, k)
    <2> HIDE DEF r
    <2>2. (r \o requestBuffer) \o reqQueue = r \o (requestBuffer \o reqQueue)
        <3>1. r \in Seq(Event)
            BY <1>2 DEF r
        <3>2. requestBuffer \in Seq(Event) /\ reqQueue \in Seq(Event)
            BY <1>1
        <3> QED
            BY <3>1, <3>2, ConcatAssociative
    <2> QED
        BY <2>1, <2>2 DEF r
<1>4. Pipeline' = RemoveAt(Pipeline, k)
    BY <1>1, <1>3, OutOfTheFront
<1>5. /\ IsInjective(RemoveAt(Pipeline, k)) /\ Ordered(RemoveAt(Pipeline, k))
      /\ ToSet(RemoveAt(Pipeline, k)) = ToSet(Pipeline) \ {Pipeline[k]}
    BY <1>1, Shrunk DEF PipelineOK
<1>6. inBackend[k] \in outstandingEvents
    BY <1>1 DEF PipelineOK, ToSet
<1> QED
    BY <1>1, <1>4, <1>5, <1>6 DEF PipelineOK

(* When an event is answered, what must go before it has been.             *)
LEMMA AnsweredFirst ==
    ASSUME TypeOK, PipelineOK, NEW k \in DOMAIN inBackend, MayAnswer(k),
           NEW d \in outstandingEvents, Earlier(d, inBackend[k])
    PROVE  ~InOrder /\ ~SameAddress(d, inBackend[k])
<1>1. /\ k \in DOMAIN Pipeline /\ Pipeline[k] = inBackend[k]
      /\ DOMAIN inBackend = 1 .. Len(inBackend) /\ Len(inBackend) \in Nat
      /\ Pipeline \in Seq(Event)
      /\ \A j \in DOMAIN inBackend : Pipeline[j] = inBackend[j]
    BY Parts
<1>2. \A j \in DOMAIN Pipeline : j \in Nat /\ 1 <= j
    BY <1>1, SeqParts
<1>3. PICK j \in DOMAIN Pipeline : Pipeline[j] = d
    BY DEF PipelineOK, ToSet
<1>4. j # k /\ ~(k < j)
    <2>1. ~Earlier(d, d)
        BY EarlierStrict DEF TypeOK
    <2> QED
        BY <1>1, <1>3, <2>1 DEF PipelineOK, Ordered
<1>5. j \in 1 .. k - 1 /\ j \in DOMAIN inBackend
    BY <1>1, <1>2, <1>4
<1>6. ~InOrder
    BY <1>1, <1>5 DEF MayAnswer
<1> QED
    BY <1>1, <1>3, <1>5, <1>6 DEF MayAnswer

-----------------------------------------------------------------------------
LEMMA StutterIInv ==
    ASSUME IInv, UNCHANGED vars
    PROVE  IInv'
<1> USE DEF vars, controllerVars, backendVars, pimVars, deviceVars
<1>1. TypeOK'
    BY DEF IInv, TypeOK
<1>2. QueuesOK' /\ PipelineOK'
    BY DEF IInv, QueuesOK, WakeupPerRequest, PipelineOK, Pipeline
<1>3. ClockOK' /\ NoFatal'
    BY DEF IInv, ClockOK, running, Under, NoFatal, InOrder
<1>4. fault' = "none" => Inner'
    BY DEF IInv, Inner, PendingOK, EnginesOK, ThreadsOK, SelfTestOK, Alone, running, Under
<1> QED
    BY <1>1, <1>2, <1>3, <1>4 DEF IInv

LEMMA InitIInv == Init => IInv
<1> SUFFICES ASSUME Init PROVE IInv
    OBVIOUS
<1> USE DEF Init
<1>1. TypeOK
    <2>1. 0 \in 0 .. MaxSteps
        BY MemControllerAssumption
    <2> QED
        BY <2>1, EmptySeq DEF TypeOK
<1>2. Pipeline = << >>
    BY DEF Pipeline
<1>3. PipelineOK
    BY <1>2 DEF PipelineOK, IsInjective, ToSet, Ordered
<1>4. QueuesOK
    <2>1. Capacity[config.memory] \in Nat
        BY MemControllerAssumption DEF Configuration
    <2> QED
        BY <2>1 DEF QueuesOK, WakeupPerRequest
<1>5. ClockOK /\ NoFatal
    BY DEF ClockOK, NoFatal
<1>6. Inner
    BY DEF Inner, PendingOK, EnginesOK, ThreadsOK, SelfTestOK, Alone, running, Under
<1> QED
    BY <1>1, <1>3, <1>4, <1>5, <1>6 DEF IInv

-----------------------------------------------------------------------------
(* The host.                                                               *)

HostStep(from, kind, to) ==
    \/ /\ from = "idle" /\ kind = "init" /\ to = "run"
       /\ config.sequential => \A g \in Functions : hpc[g] = "idle"
    \/ from = "run" /\ kind = "run" /\ to = "poll"
    \/ from = "poll" /\ kind = "poll" /\ to = "wait"

LEMMA AccessPipeline ==
    ASSUME TypeOK, NEW e \in Event, UNCHANGED <<inBackend, requestBuffer>>,
           reqQueue' = Append(reqQueue, e)
    PROVE  Pipeline' = Pipeline \o <<e>>
<1> DEFINE new == <<e>>
<1>1. reqQueue' = reqQueue \o new
    BY AppendIsConcat DEF TypeOK
<1>2. Pipeline' = (inBackend \o requestBuffer) \o (reqQueue \o new)
    BY <1>1 DEF Pipeline
<1>3. /\ new \in Seq(Event) /\ reqQueue \in Seq(Event)
      /\ inBackend \o requestBuffer \in Seq(Event)
    BY ConcatProperties DEF TypeOK
<1> DEFINE b == inBackend \o requestBuffer
<1> HIDE DEF b, new
<1>4. (b \o reqQueue) \o new = b \o (reqQueue \o new)
    BY <1>3, ConcatAssociative DEF b
<1> QED
    BY <1>2, <1>4 DEF Pipeline, b, new

LEMMA AccessIInv ==
    ASSUME IInv, NEW f \in Functions, NEW from, NEW kind, NEW to,
           HostStep(from, kind, to), Access(f, from, kind, to)
    PROVE  IInv'
<1> DEFINE e == [kind |-> kind, fn |-> f]
           new == <<e>>
<1>1. /\ fault = "none" /\ hpc[f] = from
      /\ hpc' = [hpc EXCEPT ![f] = to]
      /\ outstandingEvents' = outstandingEvents \cup {e}
      /\ reqQueue' = Append(reqQueue, e) /\ clockOn' = TRUE
      /\ UNCHANGED <<config, backendVars, pimVars, deviceVars, fault>>
    BY DEF Access, handleEvent
<1>2. e \in Event /\ ~fromPIM(e) /\ kind \in {"init", "run", "poll"}
    BY DEF HostStep, Event, fromPIM
<1>3. Inner /\ TypeOK /\ PipelineOK
    BY <1>1 DEF IInv
<1>4. TypeOK'
    <2>1. reqQueue' \in Seq(Event)
        BY <1>1, <1>2, <1>3, AppendProperties DEF TypeOK
    <2>2. to \in {"idle", "run", "poll", "wait"}
        BY DEF HostStep
    <2> QED
        BY <1>1, <1>2, <1>3, <2>1, <2>2 DEF TypeOK, backendVars, pimVars, deviceVars
<1>5. QueuesOK'
    BY <1>1 DEF IInv, QueuesOK, WakeupPerRequest, backendVars
<1>6. \A kd \in {"init", "run", "poll", "dma"}, g \in Functions :
          Under(kd, g)' <=> Under(kd, g) \/ (kd = kind /\ g = f)
    BY <1>1 DEF Under
<1>7. ~Under(kind, f)
    BY <1>1, <1>3 DEF Inner, ThreadsOK, HostStep
<1>8. PipelineOK'
    <2>1. Pipeline' = Pipeline \o new
        BY <1>1, <1>2, <1>3, AccessPipeline DEF backendVars
    <2>2. /\ new \in Seq(Event) /\ ToSet(new) = {e}
          /\ IsInjective(new) /\ Ordered(new)
        BY <1>2 DEF ToSet, IsInjective, Ordered
    <2>3. ToSet(new) \cap outstandingEvents = {}
        BY <1>7, <2>2 DEF Under
    <2>4. ASSUME NEW d \in outstandingEvents, Earlier(e, d)
          PROVE  FALSE
        <3>1. /\ d.fn = f /\ d.kind \in {"init", "run", "poll"}
              /\ rank[kind] < rank[d.kind]
              /\ d = [kind |-> d.kind, fn |-> d.fn]
            BY <1>2, <1>3, <2>4 DEF Earlier, TypeOK, Event, fromPIM
        <3>2. \/ kind = "init" /\ d.kind \in {"run", "poll"}
              \/ kind = "run" /\ d.kind = "poll"
            BY <1>2, <3>1 DEF rank
        <3>3. Under(d.kind, f)
            BY <3>1 DEF Under
        <3> QED
            BY <1>1, <1>3, <3>2, <3>3 DEF Inner, ThreadsOK, HostStep
    <2> HIDE DEF new, e
    <2> QED
        BY <1>1, <1>3, <2>1, <2>2, <2>3, <2>4, Grows
<1>9. ClockOK' /\ NoFatal'
    BY <1>1 DEF IInv, ClockOK, NoFatal, InOrder
<1>10. PendingOK'
    BY <1>1, <1>2, <1>3 DEF Inner, PendingOK, pimVars
<1>11. EnginesOK'
    BY <1>1, <1>2, <1>3, <1>6 DEF Inner, EnginesOK, deviceVars, running
<1>12. ThreadsOK'
    <2> SUFFICES ASSUME NEW g \in Functions
                 PROVE  /\ Under("poll", g)' <=> hpc'[g] = "wait"
                        /\ Under("run", g)' => hpc'[g] \in {"poll", "wait"}
                        /\ Under("init", g)' => /\ hpc'[g] # "idle"
                                                /\ hpc'[g] = "run" \/ Under("run", g)'
                        /\ fstate[g] \in IF hpc'[g] = "idle" \/ Under("init", g)'
                                         THEN {"INVALID", "DONE"}
                                         ELSE IF hpc'[g] = "run" \/ Under("run", g)'
                                         THEN {"READY"}
                                         ELSE {"RUNNING", "DONE"}
        BY <1>1 DEF ThreadsOK, deviceVars
    <2>1. CASE g = f
        <3>1. hpc'[g] = to
            BY <2>1, <1>1, <1>3 DEF TypeOK
        <3> QED
            BY <2>1, <3>1, <1>1, <1>3, <1>6 DEF Inner, ThreadsOK, HostStep
    <2>2. CASE g # f
        <3>1. hpc'[g] = hpc[g]
            BY <2>2, <1>1, <1>3 DEF TypeOK
        <3> QED
            BY <2>2, <3>1, <1>3, <1>6 DEF Inner, ThreadsOK
    <2> QED
        BY <2>1, <2>2
<1>13. SelfTestOK'
    <2>1. selfread # e /\ selfwrite # e
        BY <1>2 DEF selfread, selfwrite
    <2> QED
        BY <1>1, <1>2, <1>3, <2>1 DEF Inner, SelfTestOK, backendVars, pimVars, deviceVars
<1>14. Alone'
    BY <1>1, <1>3 DEF Inner, Alone, HostStep, TypeOK
<1> QED
    BY <1>4, <1>5, <1>8, <1>9, <1>10, <1>11, <1>12, <1>13, <1>14 DEF IInv, Inner

LEMMA BeginIInv ==
    ASSUME IInv, NEW f \in Functions, Begin(f)
    PROVE  IInv'
BY AccessIInv DEF Begin, HostStep

LEMMA ContinueIInv ==
    ASSUME IInv, NEW f \in Functions, Continue(f)
    PROVE  IInv'
BY AccessIInv DEF Continue, HostStep

-----------------------------------------------------------------------------
(* The requests that a cycle of the clock adds.                            *)

dma(f) == [kind |-> "dma", fn |-> f]

LEMMA RequestsOf ==
    ASSUME NEW D \in SUBSET Functions
    PROVE  /\ Requests(D) \in Seq(Event)
           /\ IsInjective(Requests(D)) /\ Ordered(Requests(D))
           /\ ToSet(Requests(D)) = {dma(f) : f \in D}
           /\ D = {} => Requests(D) = << >>
<1> DEFINE nth(i) == CHOOSE f \in D : Cardinality({g \in D : g < f}) = i - 1
<1>1. Requests(D) = [i \in 1 .. Cardinality(D) |-> dma(nth(i))]
    BY DEF Requests, dma
<1> HIDE DEF nth
<1>2. D = {} \/ (\E f \in Functions : D = {f}) \/ D = {F1, U5}
    BY DEF Functions
<1>3. Cardinality({}) = 0 /\ \A f : Cardinality({f}) = 1
    BY FS_EmptySet, FS_Singleton
<1>4. \A f \in Functions : dma(f) \in Event /\ f \in Nat
    BY DEF dma, Event, Functions, F1, U5
<1>5. CASE D = {}
    <2>1. Requests(D) = << >>
        BY <1>1, <1>3, <1>5
    <2>2. {dma(f) : f \in D} = {}
        BY <1>5
    <2>3. << >> \in Seq(Event) /\ ToSet(<< >>) = {}
        BY DEF ToSet
    <2>4. IsInjective(<< >>) /\ Ordered(<< >>)
        BY DEF IsInjective, Ordered
    <2> QED
        BY <2>1, <2>2, <2>3, <2>4
<1>6. ASSUME NEW f \in Functions, D = {f}
      PROVE  /\ Requests(D) \in Seq(Event)
             /\ IsInjective(Requests(D)) /\ Ordered(Requests(D))
             /\ ToSet(Requests(D)) = {dma(f)}
    <2>1. nth(1) = f
        <3>1. {g \in D : g < f} = {}
            BY <1>4, <1>6
        <3> QED
            BY <1>3, <1>6, <3>1 DEF nth
    <2>2. Requests(D) = [i \in 1 .. 1 |-> dma(nth(i))]
        BY <1>1, <1>3, <1>6
    <2>3. Requests(D) = <<dma(f)>>
        BY <2>1, <2>2
    <2> QED
        BY <2>3, <1>4 DEF IsInjective, Ordered, ToSet
<1>7. CASE D = {F1, U5}
    <2>1. {g \in D : g < F1} = {} /\ {g \in D : g < U5} = {F1}
        BY <1>7 DEF F1, U5
    <2>2. /\ Cardinality({g \in D : g < F1}) = 0
          /\ Cardinality({g \in D : g < U5}) = 1
        BY <1>3, <2>1
    <2>3. nth(1) = F1
        <3>1. nth(1) = CHOOSE f \in D : Cardinality({g \in D : g < f}) = 0
            BY DEF nth
        <3> QED
            BY <1>7, <2>2, <3>1
    <2>4. nth(2) = U5
        <3>1. nth(2) = CHOOSE f \in D : Cardinality({g \in D : g < f}) = 1
            BY DEF nth
        <3> QED
            BY <1>7, <2>2, <3>1
    <2>5. Cardinality(D) = 2
        <3>1. IsFiniteSet({F1}) /\ U5 \notin {F1} /\ Cardinality({F1}) = 1
            BY FS_Singleton DEF F1, U5
        <3>2. Cardinality({F1} \cup {U5}) = Cardinality({F1}) + 1
            BY <3>1, FS_AddElement
        <3>3. D = {F1} \cup {U5}
            BY <1>7
        <3> QED
            BY <3>1, <3>2, <3>3
    <2>6. Requests(D) = <<dma(F1), dma(U5)>>
        BY <1>1, <2>3, <2>4, <2>5
    <2>7. /\ dma(F1) # dma(U5) /\ dma(F1) \in Event /\ dma(U5) \in Event
          /\ \A d, e \in {dma(F1), dma(U5)} : ~Earlier(d, e)
        <3>1. \A d, e \in {dma(F1), dma(U5)} : ~Earlier(d, e)
            BY DEF Earlier, dma, fromPIM
        <3> QED
            BY <1>4, <3>1 DEF dma, F1, U5, Functions
    <2> HIDE DEF dma
    <2>8. ToSet(Requests(D)) = {dma(f) : f \in D}
        BY <1>7, <2>6 DEF ToSet
    <2>9. Requests(D) \in Seq(Event) /\ D # {}
        <3>1. <<dma(F1), dma(U5)>> \in Seq(Event)
            BY <2>7
        <3>2. D # {}
            BY <1>7
        <3> QED
            BY <2>6, <3>1, <3>2
    <2>10. IsInjective(Requests(D)) /\ Ordered(Requests(D))
        BY <2>6, <2>7 DEF IsInjective, Ordered
    <2> QED
        BY <2>8, <2>9, <2>10
<1> QED
    BY <1>2, <1>5, <1>6, <1>7

(* A cycle's new events: requests of engines, or those of the self-test.   *)
LEMMA NewEvents ==
    ASSUME IInv, fault = "none", NEW D \in SUBSET stepping
    PROVE  LET new == Requests(D) \o SelfTest IN
           /\ new \in Seq(Event) /\ IsInjective(new) /\ Ordered(new)
           /\ ToSet(new) = IF initDRAMDone THEN {dma(f) : f \in D}
                           ELSE {selfwrite, selfread}
           /\ ~initDRAMDone => D = {}
           /\ ToSet(new) \cap outstandingEvents = {}
           /\ \A d \in outstandingEvents, e \in ToSet(new) : ~Earlier(e, d)
<1> DEFINE r == Requests(D)
           new == r \o SelfTest
<1>1. D \subseteq Functions /\ Inner
    BY DEF stepping, visited, IInv
<1>2. /\ r \in Seq(Event) /\ IsInjective(r) /\ Ordered(r)
      /\ ToSet(r) = {dma(f) : f \in D} /\ (D = {} => r = << >>)
    BY <1>1, RequestsOf
<1> HIDE DEF r
<1>3. CASE initDRAMDone
    <2>1. new = r
        BY <1>2, <1>3, ConcatEmptySeq DEF SelfTest
    <2> HIDE DEF new
    <2>2. ASSUME NEW f \in D
          PROVE  dma(f) \notin outstandingEvents
        BY <1>1 DEF Inner, EnginesOK, stepping, visited, Under, dma
    <2>3. \A d \in outstandingEvents, f \in D : ~Earlier(dma(f), d)
        BY DEF Earlier, dma, fromPIM
    <2>4. ToSet(new) \cap outstandingEvents = {}
        BY <1>2, <2>1, <2>2
    <2>5. \A d \in outstandingEvents, e \in ToSet(new) : ~Earlier(e, d)
        BY <1>2, <2>1, <2>3
    <2> QED
        BY <1>2, <1>3, <2>1, <2>4, <2>5 DEF new, r
<1>4. CASE ~initDRAMDone
    <2>1. \A e \in outstandingEvents : e.kind \notin {"selfwrite", "selfread", "dma"}
        BY <1>1, <1>4 DEF Inner, SelfTestOK, fromPIM
    <2>2. D = {}
        BY <1>1, <1>4 DEF Inner, SelfTestOK, stepping, visited
    <2>3. new = <<selfwrite, selfread>>
        BY <1>2, <1>4, <2>2 DEF SelfTest
    <2> HIDE DEF new
    <2>4. /\ selfwrite \in Event /\ selfread \in Event /\ selfwrite # selfread
          /\ selfwrite.kind = "selfwrite" /\ selfread.kind = "selfread"
        BY DEF Event, selfwrite, selfread
    <2>5. /\ new \in Seq(Event) /\ ToSet(new) = {selfwrite, selfread}
          /\ IsInjective(new)
        BY <2>3, <2>4 DEF ToSet, IsInjective
    <2>6. ~Earlier(selfread, selfwrite)
        BY DEF Earlier, fromPIM, selfwrite, selfread
    <2>7. Ordered(new)
        BY <2>3, <2>6 DEF Ordered
    <2>8. \A d \in outstandingEvents : ~Earlier(selfread, d) /\ ~Earlier(selfwrite, d)
        BY <2>1, <2>4 DEF Earlier, fromPIM
    <2>9. ToSet(new) \cap outstandingEvents = {}
        BY <2>1, <2>4, <2>5
    <2>10. \A d \in outstandingEvents, e \in ToSet(new) : ~Earlier(e, d)
        BY <2>5, <2>8
    <2> QED
        BY <1>4, <2>2, <2>5, <2>7, <2>9, <2>10 DEF new, r
<1> QED
    BY <1>3, <1>4

-----------------------------------------------------------------------------
(* Requests move on from one queue to the next.                            *)

LEMMA ConcatRegroups ==
    \A x, y, z \in Seq(Event) : (x \o y) \o z = x \o (y \o z)
<1> SUFFICES ASSUME NEW x \in Seq(Event), NEW y \in Seq(Event), NEW z \in Seq(Event)
             PROVE  (x \o y) \o z = x \o (y \o z)
    OBVIOUS
<1> QED
    BY ConcatAssociative

LEMMA Closed == \A x, y \in Seq(Event) : x \o y \in Seq(Event)
<1> SUFFICES ASSUME NEW x \in Seq(Event), NEW y \in Seq(Event)
             PROVE  x \o y \in Seq(Event)
    OBVIOUS
<1> QED
    BY ConcatProperties

LEMMA EmptyConcat ==
    \A x, y \in Seq(Event) : x \o y = << >> => x = << >> /\ y = << >>
<1> SUFFICES ASSUME NEW x \in Seq(Event), NEW y \in Seq(Event), x \o y = << >>
             PROVE  x = << >> /\ y = << >>
    OBVIOUS
<1> QED
    BY ConcatEqualIffEmpty

LEMMA Shifted ==
    ASSUME NEW a \in Seq(Event), NEW t \in Seq(Event), NEW m \in Seq(Event),
           NEW r \in Seq(Event), NEW n \in Seq(Event), t \o m = r \o n
    PROVE  (a \o t) \o m = (a \o r) \o n
<1>1. (a \o t) \o m = a \o (t \o m)
    BY ConcatRegroups, Zenon
<1>2. (a \o r) \o n = a \o (r \o n)
    BY ConcatRegroups, Zenon
<1> QED
    BY <1>1, <1>2

(* The requests t move from the queue of t \o r to that of b, and n comes.  *)
SameWhole(a, b, t, r, n) ==
    ((a \o (b \o t)) \o (r \o n)) = ((a \o b) \o (t \o r)) \o n

LEMMA Moved == \A a, b, t, r, n \in Seq(Event) : SameWhole(a, b, t, r, n)
<1> SUFFICES ASSUME NEW a \in Seq(Event), NEW b \in Seq(Event), NEW t \in Seq(Event),
                    NEW r \in Seq(Event), NEW n \in Seq(Event)
             PROVE  ((a \o (b \o t)) \o (r \o n)) = ((a \o b) \o (t \o r)) \o n
    BY DEF SameWhole
<1>1. /\ a \o b \in Seq(Event) /\ r \o n \in Seq(Event)
      /\ t \o r \in Seq(Event)
    BY Closed, Zenon
<1>2. /\ (a \o b) \o t = a \o (b \o t)
      /\ t \o (r \o n) = (t \o r) \o n
    BY ConcatRegroups, Zenon
<1>3. ((a \o b) \o t) \o (r \o n) = ((a \o b) \o (t \o r)) \o n
    BY <1>1, <1>2, Shifted
<1> QED
    BY <1>2, <1>3, Zenon

(* How many requests the convertor passes on.                              *)
LEMMA Issuing ==
    ASSUME TypeOK, QueuesOK
    PROVE  /\ issuing \in 0 .. Len(reqQueue)
           /\ ~config.delayed => Len(inBackend) + issuing <= Capacity[config.memory]
           /\ Len(inBackend) \in Nat /\ Capacity[config.memory] \in Nat
<1>1. /\ MaxIssue \in Nat /\ Len(reqQueue) \in Nat /\ Len(inBackend) \in Nat
    BY MemControllerAssumption, SeqParts DEF TypeOK
<1>2. Capacity[config.memory] \in Nat /\ config.delayed \in BOOLEAN
    BY MemControllerAssumption DEF TypeOK, Configuration
<1>3. Len(inBackend) <= Capacity[config.memory]
    BY DEF QueuesOK
<1>4. Room \in Nat /\ (~config.delayed => Room = Capacity[config.memory] - Len(inBackend))
    BY <1>1, <1>2, <1>3 DEF Room
<1>5. ASSUME NEW x \in Nat, NEW y \in Nat, NEW z \in Nat
      PROVE  /\ Least({x, y, z}) \in Nat
             /\ Least({x, y, z}) <= y /\ Least({x, y, z}) <= z
    <2>1. \E n \in {x, y, z} : \A m \in {x, y, z} : n <= m
        <3>1. CASE x <= y /\ x <= z
            BY <3>1
        <3>2. CASE y <= x /\ y <= z
            BY <3>2
        <3>3. CASE z <= x /\ z <= y
            BY <3>3
        <3> QED
            BY <3>1, <3>2, <3>3
    <2> QED
        BY <2>1 DEF Least
<1>6. issuing \in Nat /\ issuing <= Len(reqQueue) /\ issuing <= Room
    BY <1>1, <1>4, <1>5 DEF issuing
<1> QED
    BY <1>1, <1>2, <1>4, <1>6

LEMMA ClockQueues ==
    ASSUME IInv, issueRequest, NEW new \in Seq(Event),
           reqQueue' = SubSeq(reqQueue, issuing + 1, Len(reqQueue)) \o new,
           config' = config
    PROVE  /\ Pipeline' = Pipeline \o new
           /\ reqQueue' \in Seq(Event) /\ requestBuffer' \in Seq(Event)
           /\ inBackend' \in Seq(Event) /\ wakeups' \in Nat
           /\ reqQueue' = << >> => new = << >>
           /\ QueuesOK'
<1> DEFINE rest == SubSeq(reqQueue, issuing + 1, Len(reqQueue))
<1>1. /\ TypeOK /\ QueuesOK /\ reqQueue \in Seq(Event) /\ wakeups \in Nat
      /\ inBackend \in Seq(Event) /\ requestBuffer \in Seq(Event)
      /\ \A k \in 1 .. Len(reqQueue) : reqQueue[k] \in Event
    BY ElementOfSeq DEF IInv, TypeOK
<1>2. /\ issuing \in 0 .. Len(reqQueue) /\ issuing \in Nat /\ Len(reqQueue) \in Nat
      /\ ~config.delayed => Len(inBackend) + issuing <= Capacity[config.memory]
    BY <1>1, Issuing, SeqParts
<1>3. Taken \in Seq(Event) /\ Len(Taken) = issuing
    <2>1. /\ 1 \in Int /\ issuing \in Int
          /\ \A k \in 1 .. issuing : reqQueue[k] \in Event
        BY <1>1, <1>2
    <2>2. /\ Taken \in Seq(Event)
          /\ Len(Taken) = IF 1 <= issuing THEN issuing - 1 + 1 ELSE 0
        BY <2>1, SubSeqProperties DEF Taken
    <2> QED
        BY <2>2, <1>2
<1>4. rest \in Seq(Event)
    <2>1. /\ issuing + 1 \in Int /\ Len(reqQueue) \in Int
          /\ \A k \in issuing + 1 .. Len(reqQueue) : reqQueue[k] \in Event
        BY <1>1, <1>2
    <2> QED
        BY <2>1, SubSeqProperties
<1>5. Taken \o rest = reqQueue
    <2>1. /\ 1 \in 1 .. Len(reqQueue) + 1 /\ issuing \in 1 - 1 .. Len(reqQueue)
          /\ Len(reqQueue) \in issuing .. Len(reqQueue)
        BY <1>2
    <2>2. SubSeq(reqQueue, 1, issuing) \o SubSeq(reqQueue, issuing + 1, Len(reqQueue))
            = SubSeq(reqQueue, 1, Len(reqQueue))
        BY <1>1, <2>1, ConcatAdjacentSubSeq
    <2> QED
        BY <1>1, <2>2, SubSeqFull DEF Taken
<1> HIDE DEF rest
<1>6. reqQueue' = rest \o new /\ reqQueue' \in Seq(Event) /\ (reqQueue' = << >> => new = << >>)
    <2>1. reqQueue' = rest \o new
        BY DEF rest
    <2>2. rest \o new \in Seq(Event)
        BY <1>4, ConcatProperties
    <2>3. rest \o new = << >> => new = << >>
        BY <1>4, EmptyConcat, Zenon
    <2> QED
        BY <2>1, <2>2, <2>3
<1>7. CASE config.delayed
    <2>1. /\ requestBuffer' = requestBuffer \o Taken
          /\ wakeups' = wakeups + Len(Taken) /\ inBackend' = inBackend
        BY <1>7 DEF issueRequest
    <2>2. requestBuffer' \in Seq(Event) /\ Len(requestBuffer') = Len(requestBuffer) + Len(Taken)
        BY <1>1, <1>3, <2>1, ConcatProperties
    <2>3. Pipeline' = (inBackend \o (requestBuffer \o Taken)) \o (rest \o new)
        BY <1>6, <2>1 DEF Pipeline
    <2>4. Pipeline' = ((inBackend \o requestBuffer) \o (Taken \o rest)) \o new
        <3>1. /\ Taken \in Seq(Event) /\ rest \in Seq(Event)
              /\ inBackend \in Seq(Event) /\ requestBuffer \in Seq(Event)
            BY <1>1, <1>3, <1>4
        <3>2. SameWhole(inBackend, requestBuffer, Taken, rest, new)
            BY <3>1, Moved
        <3> QED
            BY <2>3, <3>2, Zenon DEF SameWhole
    <2>5. Pipeline' = Pipeline \o new
        BY <1>5, <2>4 DEF Pipeline
    <2>6. QueuesOK'
        BY <1>1, <1>7, <2>1, <2>2 DEF QueuesOK, WakeupPerRequest
    <2>7. wakeups' \in Nat
        BY <1>1, <1>2, <1>3, <2>1
    <2> QED
        BY <1>1, <1>6, <2>1, <2>2, <2>5, <2>6, <2>7
<1>8. CASE ~config.delayed
    <2>1. /\ inBackend' = inBackend \o Taken /\ requestBuffer = << >>
          /\ requestBuffer' = << >> /\ wakeups' = wakeups
        BY <1>1, <1>8 DEF issueRequest, QueuesOK
    <2>2. inBackend' \in Seq(Event) /\ Len(inBackend') = Len(inBackend) + Len(Taken)
        BY <1>1, <1>3, <2>1, ConcatProperties
    <2>3. Pipeline' = ((inBackend \o Taken) \o << >>) \o (rest \o new)
        BY <1>6, <2>1 DEF Pipeline
    <2>4. (inBackend \o Taken) \o << >> = inBackend \o (<< >> \o Taken)
        <3>1. (inBackend \o Taken) \o << >> = inBackend \o Taken
            BY <2>1, <2>2, ConcatEmptySeq
        <3>2. << >> \o Taken = Taken
            BY <1>3, ConcatEmptySeq
        <3> QED
            BY <3>1, <3>2
    <2>5. Pipeline' = ((inBackend \o << >>) \o (Taken \o rest)) \o new
        <3>1. /\ Taken \in Seq(Event) /\ rest \in Seq(Event)
              /\ inBackend \in Seq(Event) /\ << >> \in Seq(Event)
            BY <1>1, <1>3, <1>4, <2>1
        <3>2. SameWhole(inBackend, << >>, Taken, rest, new)
            BY <3>1, Moved
        <3> QED
            BY <2>3, <2>4, <3>2, Zenon DEF SameWhole
    <2>6. Pipeline' = Pipeline \o new
        BY <1>5, <2>1, <2>5 DEF Pipeline
    <2>7. QueuesOK'
        <3>1. Len(inBackend') <= Capacity[config.memory]
            BY <1>2, <1>3, <1>8, <2>2
        <3> QED
            BY <1>1, <1>8, <2>1, <3>1 DEF QueuesOK, WakeupPerRequest
    <2> QED
        BY <1>1, <1>6, <2>1, <2>2, <2>6, <2>7
<1> QED
    BY <1>7, <1>8

LEMMA PassedOn ==
    ASSUME TypeOK, requestBuffer # << >>, reqQueue' = reqQueue,
           inBackend' = Append(inBackend, Head(requestBuffer)),
           requestBuffer' = Tail(requestBuffer)
    PROVE  Pipeline' = Pipeline
<1> DEFINE h == <<Head(requestBuffer)>>
           b == Tail(requestBuffer)
<1>1. requestBuffer \in Seq(Event) /\ inBackend \in Seq(Event)
    BY DEF TypeOK
<1>2. h \in Seq(Event) /\ b \in Seq(Event) /\ requestBuffer = h \o b
    BY <1>1, HeadTailProperties
<1>3. inBackend' = inBackend \o h
    BY <1>1, HeadTailProperties, AppendIsConcat
<1> HIDE DEF h
<1>4. requestBuffer' = b
    OBVIOUS
<1> HIDE DEF b
<1>5. (inBackend \o h) \o b = inBackend \o (h \o b)
    BY <1>1, <1>2, ConcatAssociative
<1> QED
    BY <1>2, <1>3, <1>4, <1>5 DEF Pipeline

LEMMA HandleNextRequestIInv ==
    ASSUME IInv, handleNextRequest
    PROVE  IInv'
<1>1. /\ wakeups > 0 /\ fault = "none"
      /\ UNCHANGED <<config, controllerVars, pimVars, deviceVars, hpc, fault>>
    BY DEF handleNextRequest
<1>2. /\ requestBuffer \in Seq(Event) /\ inBackend \in Seq(Event) /\ reqQueue \in Seq(Event)
      /\ wakeups = Len(requestBuffer) /\ Len(requestBuffer) \in Nat
      /\ Len(inBackend) \in Nat /\ Capacity[config.memory] \in Nat
    BY Issuing, SeqParts DEF IInv, TypeOK, QueuesOK, WakeupPerRequest
<1>3. CASE Full
    <2>1. UNCHANGED vars
        BY <1>1, <1>3 DEF handleNextRequest, vars, backendVars
    <2> QED
        BY <2>1, StutterIInv
<1>4. CASE ~Full
    <2> DEFINE h == Head(requestBuffer)
               b == Tail(requestBuffer)
    <2>1. /\ inBackend' = Append(inBackend, h) /\ requestBuffer' = b
          /\ wakeups' = wakeups - 1
        BY <1>4 DEF handleNextRequest
    <2>2. requestBuffer # << >>
        BY <1>1, <1>2
    <2>3. /\ h \in Event /\ b \in Seq(Event) /\ Len(b) = Len(requestBuffer) - 1
          /\ \A k \in 1 .. Len(b) : b[k] = requestBuffer[k + 1]
        BY <1>2, <2>2, HeadTailProperties
    <2> HIDE DEF h, b
    <2>5. /\ inBackend' = inBackend \o <<h>> /\ inBackend' \in Seq(Event)
          /\ Len(inBackend') = Len(inBackend) + 1
        BY <1>2, <2>1, <2>3, AppendIsConcat, AppendProperties
    <2>6. Pipeline' = Pipeline
        <3>1. inBackend' = Append(inBackend, Head(requestBuffer))
              /\ requestBuffer' = Tail(requestBuffer) /\ reqQueue' = reqQueue
            BY <1>1, <1>4 DEF handleNextRequest, controllerVars
        <3> QED
            BY <2>2, <3>1, PassedOn DEF IInv
    <2>7. TypeOK'
        BY <1>1, <1>2, <2>1, <2>3, <2>5
           DEF IInv, TypeOK, controllerVars, pimVars, deviceVars
    <2>8. QueuesOK'
        <3>1. Len(inBackend') <= Capacity[config.memory]
            BY <1>2, <1>4, <2>5 DEF Full
        <3>2. config.delayed
            BY <2>2 DEF IInv, QueuesOK
        <3> QED
            BY <1>1, <1>2, <2>1, <2>3, <3>1, <3>2 DEF QueuesOK, WakeupPerRequest
    <2>9. PipelineOK'
        BY <1>1, <2>6 DEF IInv, PipelineOK, controllerVars
    <2>10. ClockOK' /\ NoFatal'
        BY <1>1 DEF IInv, ClockOK, NoFatal, InOrder, running, Under, controllerVars, deviceVars
    <2>11. PendingOK' /\ EnginesOK' /\ ThreadsOK' /\ Alone'
        BY <1>1 DEF IInv, Inner, PendingOK, EnginesOK, ThreadsOK, Alone,
                    running, Under, controllerVars, pimVars, deviceVars
    <2>12. SelfTestOK'
        BY <1>1, <2>2 DEF IInv, Inner, SelfTestOK, controllerVars, pimVars, deviceVars
    <2> QED
        BY <2>7, <2>8, <2>9, <2>10, <2>11, <2>12 DEF IInv, Inner
<1> QED
    BY <1>3, <1>4

-----------------------------------------------------------------------------
(* A cycle of the clock.                                                   *)

LEMMA ClockIInv ==
    ASSUME IInv, clock
    PROVE  IInv'
<1>1. /\ fault = "none" /\ clockOn /\ issueRequest /\ initDRAMDone' = TRUE
      /\ clockOn' = ~(unclockPIM /\ ~BackendClocked /\ reqQueue' = << >>)
      /\ UNCHANGED <<config, selfCheckDone, stored, hpc, fault>>
    BY DEF clock
<1>2. PICK D \in SUBSET stepping :
         LET new == Requests(D) \o SelfTest IN
         /\ Visit(D)
         /\ reqQueue' = SubSeq(reqQueue, issuing + 1, Len(reqQueue)) \o new
         /\ outstandingEvents' = outstandingEvents \cup ToSet(new)
         /\ pendingPIMEvents' = pendingPIMEvents \cup ToSet(Requests(D))
    BY DEF clock
<1> DEFINE new == Requests(D) \o SelfTest
<1>3. Inner /\ TypeOK /\ PipelineOK
    BY <1>1 DEF IInv
<1>4. /\ new \in Seq(Event) /\ IsInjective(new) /\ Ordered(new)
      /\ ToSet(new) = IF initDRAMDone THEN {dma(f) : f \in D} ELSE {selfwrite, selfread}
      /\ ~initDRAMDone => D = {}
      /\ ToSet(new) \cap outstandingEvents = {}
      /\ \A d \in outstandingEvents, e \in ToSet(new) : ~Earlier(e, d)
    BY <1>1, NewEvents
<1>5. /\ reqQueue' = SubSeq(reqQueue, issuing + 1, Len(reqQueue)) \o new
      /\ outstandingEvents' = outstandingEvents \cup ToSet(new)
      /\ Visit(D)
    BY <1>2
<1> HIDE DEF new
<1>6. /\ Pipeline' = Pipeline \o new
      /\ reqQueue' \in Seq(Event) /\ requestBuffer' \in Seq(Event)
      /\ inBackend' \in Seq(Event) /\ wakeups' \in Nat
      /\ reqQueue' = << >> => new = << >>
      /\ QueuesOK'
    BY <1>1, <1>4, <1>5, ClockQueues
<1>7. PipelineOK'
    BY <1>3, <1>4, <1>5, <1>6, Grows
<1>8. /\ D \subseteq Functions /\ ToSet(Requests(D)) = {dma(f) : f \in D}
      /\ pendingPIMEvents' = pendingPIMEvents \cup {dma(f) : f \in D}
    BY <1>2, RequestsOf DEF stepping, visited
<1>9. ToSet(new) \subseteq Event
    BY <1>4, SeqParts DEF ToSet
<1>10. \A e \in ToSet(new) :
          /\ e.kind \in {"dma", "selfwrite", "selfread"}
          /\ e.kind = "dma" <=> e \in {dma(f) : f \in D}
    BY <1>4 DEF dma, selfwrite, selfread
<1>11. \A f \in Functions :
          /\ \A kd \in {"init", "run", "poll"} : Under(kd, f)' <=> Under(kd, f)
          /\ Under("dma", f)' <=> Under("dma", f) \/ f \in D
    <2> SUFFICES ASSUME NEW f \in Functions
                 PROVE  /\ \A kd \in {"init", "run", "poll"} : Under(kd, f)' <=> Under(kd, f)
                        /\ Under("dma", f)' <=> Under("dma", f) \/ f \in D
        OBVIOUS
    <2>1. ASSUME NEW kd \in {"init", "run", "poll"}
          PROVE  [kind |-> kd, fn |-> f] \notin ToSet(new)
        BY <1>10
    <2>2. dma(f) \in ToSet(new) <=> f \in D
        <3>1. dma(f) \in {dma(g) : g \in D} <=> f \in D
            BY DEF dma
        <3>2. dma(f).kind = "dma"
            BY DEF dma
        <3> QED
            BY <1>4, <1>10, <3>1, <3>2 DEF dma, selfwrite, selfread
    <2> QED
        BY <1>5, <2>1, <2>2 DEF Under, dma
<1>12. /\ \A f \in finished : f \in Functions /\ running(f) /\ engine[f] = "DONE"
       /\ \A f \in stepping : f \in Functions /\ running(f) /\ engine[f] = "STEP"
                             /\ left[f] \in 1 .. MaxSteps
       /\ D \subseteq stepping
    <2>1. \A f \in stepping : f \in Functions /\ engine[f] = "STEP" /\ running(f)
        BY DEF stepping, visited
    <2>2. \A f \in stepping : left[f] \in 1 .. MaxSteps
        BY <1>3, <2>1 DEF Inner, EnginesOK, TypeOK
    <2> QED
        BY <1>2, <2>1, <2>2 DEF finished, visited
<1>13. /\ fstate' = [f \in Functions |-> IF f \in finished THEN "DONE" ELSE fstate[f]]
       /\ left' = [f \in Functions |-> IF f \in stepping THEN left[f] - 1 ELSE left[f]]
       /\ engine' = [f \in Functions |->
                       CASE f \in D -> "WAITING"
                         [] f \in stepping \ D -> IF left[f] = 1 THEN "DONE" ELSE "STEP"
                         [] f \in finished -> "IDLE"
                         [] OTHER -> engine[f]]
    BY <1>5 DEF Visit
<1>14. ASSUME NEW f \in Functions
       PROVE  /\ fstate'[f] = IF f \in finished THEN "DONE" ELSE fstate[f]
              /\ left'[f] = IF f \in stepping THEN left[f] - 1 ELSE left[f]
              /\ f \in D => engine'[f] = "WAITING"
              /\ f \in stepping \ D =>
                    engine'[f] = IF left[f] = 1 THEN "DONE" ELSE "STEP"
              /\ f \in finished => engine'[f] = "IDLE"
              /\ f \notin stepping /\ f \notin finished => engine'[f] = engine[f]
    <2>1. f \in finished => f \notin stepping
        BY <1>12
    <2> QED
        BY <1>12, <1>13, <2>1
<1>15. TypeOK'
    <2>1. fstate' \in [Functions -> {"INVALID", "READY", "RUNNING", "DONE"}]
        BY <1>3, <1>13 DEF TypeOK
    <2>2. left' \in [Functions -> 0 .. MaxSteps]
        <3>1. ASSUME NEW f \in Functions PROVE left'[f] \in 0 .. MaxSteps
            <4>1. left[f] \in 0 .. MaxSteps /\ MaxSteps \in Nat
                BY <1>3, MemControllerAssumption DEF TypeOK
            <4>2. CASE f \in stepping
                <5>1. left[f] \in 1 .. MaxSteps /\ left'[f] = left[f] - 1
                    BY <1>12, <1>14, <4>2
                <5> QED
                    BY <4>1, <5>1
            <4>3. CASE f \notin stepping
                BY <1>14, <4>1, <4>3
            <4> QED
                BY <4>2, <4>3
        <3> QED
            BY <1>13, <3>1
    <2>3. engine' \in [Functions -> {"IDLE", "STEP", "WAITING", "DONE"}]
        <3>1. ASSUME NEW f \in Functions
              PROVE  engine'[f] \in {"IDLE", "STEP", "WAITING", "DONE"}
            BY <1>3, <1>12, <1>14 DEF TypeOK
        <3> QED
            BY <1>13, <3>1
    <2>4. outstandingEvents' \subseteq Event
        BY <1>3, <1>5, <1>9 DEF TypeOK
    <2>5. pendingPIMEvents' \subseteq Event
        BY <1>3, <1>8 DEF TypeOK, dma, Event
    <2>6. clockOn' \in BOOLEAN
        BY <1>1
    <2> QED
        BY <1>1, <1>3, <1>6, <2>1, <2>2, <2>3, <2>4, <2>5, <2>6 DEF TypeOK
<1>16. PendingOK'
    <2>1. outstandingEvents' = outstandingEvents \cup ToSet(new)
        BY <1>5
    <2>2. {e \in ToSet(new) : e.kind = "dma"} = {dma(f) : f \in D}
        <3>1. CASE initDRAMDone
            BY <1>4, <1>10, <3>1
        <3>2. CASE ~initDRAMDone
            BY <1>4, <1>10, <3>2
        <3> QED
            BY <3>1, <3>2
    <2> HIDE DEF new
    <2>3. {e \in outstandingEvents' : e.kind = "dma"} =
             {e \in outstandingEvents : e.kind = "dma"} \cup {e \in ToSet(new) : e.kind = "dma"}
        BY <2>1
    <2> QED
        BY <1>3, <1>8, <2>2, <2>3 DEF Inner, PendingOK
<1>17. EnginesOK'
    <2> SUFFICES ASSUME NEW f \in Functions
                 PROVE  /\ Under("dma", f)' <=> engine'[f] = "WAITING"
                        /\ fstate'[f] # "RUNNING" => engine'[f] = "IDLE"
                        /\ engine'[f] = "STEP" => left'[f] >= 1
        BY DEF EnginesOK, running
    <2>1. /\ Under("dma", f) <=> engine[f] = "WAITING"
          /\ fstate[f] # "RUNNING" => engine[f] = "IDLE"
          /\ engine[f] = "STEP" => left[f] >= 1
        BY <1>3 DEF Inner, EnginesOK, running
    <2>2. CASE f \in D
        BY <2>2, <1>11, <1>12, <1>14 DEF running
    <2>3. CASE f \in stepping \ D
        BY <2>1, <2>3, <1>11, <1>12, <1>14 DEF running
    <2>4. CASE f \in finished
        BY <2>1, <2>4, <1>11, <1>12, <1>14
    <2>5. CASE f \notin stepping /\ f \notin finished
        BY <2>1, <2>5, <1>11, <1>12, <1>14
    <2> QED
        BY <2>2, <2>3, <2>4, <2>5
<1>18. ThreadsOK'
    <2> SUFFICES ASSUME NEW f \in Functions
                 PROVE  /\ Under("poll", f)' <=> hpc[f] = "wait"
                        /\ Under("run", f)' => hpc[f] \in {"poll", "wait"}
                        /\ Under("init", f)' => /\ hpc[f] # "idle"
                                                /\ hpc[f] = "run" \/ Under("run", f)'
                        /\ fstate'[f] \in IF hpc[f] = "idle" \/ Under("init", f)'
                                         THEN {"INVALID", "DONE"}
                                         ELSE IF hpc[f] = "run" \/ Under("run", f)'
                                         THEN {"READY"}
                                         ELSE {"RUNNING", "DONE"}
        BY <1>1 DEF ThreadsOK
    <2>1. fstate'[f] = fstate[f] \/ (fstate[f] = "RUNNING" /\ fstate'[f] = "DONE")
        BY <1>12, <1>14 DEF running
    <2> QED
        BY <2>1, <1>3, <1>11 DEF Inner, ThreadsOK
<1>19. SelfTestOK'
    <2>1. CASE initDRAMDone
        <3>1. selfread \notin ToSet(new)
            BY <1>4, <2>1 DEF selfread, dma
        <3> QED
            BY <2>1, <3>1, <1>1, <1>3, <1>5 DEF Inner, SelfTestOK
    <2>2. CASE ~initDRAMDone
        BY <2>2, <1>1, <1>3, <1>4, <1>5 DEF Inner, SelfTestOK
    <2> QED
        BY <2>1, <2>2, <1>3 DEF TypeOK
<1>20. Alone' /\ NoFatal'
    BY <1>1, <1>3 DEF Inner, Alone, NoFatal
<1>21. ClockOK'
    <2> SUFFICES ASSUME config.sequential, ~clockOn', NEW g \in Functions
                 PROVE  reqQueue' = << >> /\ fstate'[g] # "RUNNING" /\ ~Under("run", g)'
        BY <1>1 DEF ClockOK, running
    <2>1. reqQueue' = << >> /\ finished # {}
        BY <1>1 DEF unclockPIM
    <2>2. PICK f \in finished : f \in Functions /\ fstate[f] = "RUNNING"
        BY <1>12, <2>1 DEF running
    <2>3. hpc[f] # "idle" /\ ~Under("run", f)
        BY <1>3, <2>2 DEF Inner, ThreadsOK
    <2>4. CASE g = f
        BY <2>1, <2>2, <2>3, <2>4, <1>11, <1>14
    <2>5. CASE g # f
        <3>1. hpc[g] = "idle"
            BY <2>2, <2>3, <2>5, <1>3 DEF Inner, Alone
        <3>2. fstate[g] # "RUNNING" /\ ~Under("run", g)
            BY <3>1, <1>3 DEF Inner, ThreadsOK
        <3> QED
            BY <2>1, <3>2, <1>11, <1>14
    <2> QED
        BY <2>4, <2>5
<1> QED
    BY <1>6, <1>7, <1>15, <1>16, <1>17, <1>18, <1>19, <1>20, <1>21 DEF IInv, Inner

-----------------------------------------------------------------------------
(* The answers.                                                            *)

(* What every answer does to the queues and tables.                        *)
Answered(k) ==
    /\ inBackend' = RemoveAt(inBackend, k)
    /\ outstandingEvents' = outstandingEvents \ {inBackend[k]}
    /\ UNCHANGED <<config, clockOn, reqQueue, requestBuffer, wakeups>>

LEMMA AnsweredQueues ==
    ASSUME IInv, fault = "none", NEW k \in DOMAIN inBackend, Answered(k)
    PROVE  /\ QueuesOK' /\ PipelineOK'
           /\ inBackend' \in Seq(Event) /\ outstandingEvents' \subseteq Event
           /\ inBackend[k] \in outstandingEvents /\ inBackend[k] \in Event
           /\ initDRAMDone
<1>1. TypeOK /\ PipelineOK /\ Inner /\ QueuesOK
    BY DEF IInv
<1>2. PipelineOK' /\ inBackend[k] \in outstandingEvents
    BY <1>1, Shrinks DEF Answered
<1>3. /\ inBackend' \in Seq(Event) /\ Len(inBackend') = Len(inBackend) - 1
      /\ Len(inBackend) \in Nat /\ Capacity[config.memory] \in Nat
    <2>1. inBackend \in Seq(Event)
        BY <1>1 DEF TypeOK
    <2> QED
        BY <1>1, <2>1, WithoutOne, Issuing DEF Answered
<1>4. QueuesOK'
    <2>1. Len(inBackend') <= Capacity[config.memory]
        BY <1>1, <1>3 DEF QueuesOK, Answered
    <2> QED
        BY <1>1, <2>1 DEF QueuesOK, WakeupPerRequest, Answered
<1>5. initDRAMDone
    <2>1. inBackend # << >>
        OBVIOUS
    <2> QED
        BY <1>1, <2>1 DEF Inner, SelfTestOK
<1> QED
    BY <1>1, <1>2, <1>3, <1>4, <1>5 DEF Answered, TypeOK

LEMMA SelfWriteDoneIInv ==
    ASSUME IInv, fault = "none", NEW k \in DOMAIN inBackend, Answered(k),
           SelfWriteDone(inBackend[k])
    PROVE  IInv'
<1> DEFINE e == inBackend[k]
<1>1. /\ TypeOK /\ Inner /\ ClockOK /\ NoFatal
      /\ e.kind = "selfwrite"
      /\ stored' = stored \cup {IF isMMIO(e) THEN "SRAM" ELSE "DRAM"}
      /\ UNCHANGED <<pendingPIMEvents, initDRAMDone, selfCheckDone, deviceVars, hpc, fault>>
    BY DEF IInv, SelfWriteDone
<1>2. /\ QueuesOK' /\ PipelineOK'
      /\ inBackend' \in Seq(Event) /\ outstandingEvents' \subseteq Event
      /\ e \in outstandingEvents /\ e \in Event /\ initDRAMDone
    BY AnsweredQueues
<1>3. outstandingEvents' = outstandingEvents \ {e}
      /\ UNCHANGED <<config, clockOn, reqQueue, requestBuffer, wakeups>>
    BY DEF Answered
<1> HIDE DEF e
<1>4. "DRAM" \in stored'
    BY <1>1 DEF isMMIO, fromPIM
<1>5. \A kd \in {"init", "run", "poll", "dma"}, f \in Functions :
          Under(kd, f)' <=> Under(kd, f)
    BY <1>1, <1>3 DEF Under
<1>6. TypeOK'
    BY <1>1, <1>2, <1>3 DEF TypeOK, deviceVars
<1>7. ClockOK' /\ NoFatal'
    BY <1>1, <1>3, <1>5 DEF ClockOK, NoFatal, InOrder, running, deviceVars
<1>8. PendingOK'
    BY <1>1, <1>3 DEF Inner, PendingOK
<1>9. EnginesOK' /\ ThreadsOK' /\ Alone'
    BY <1>1, <1>3, <1>5 DEF Inner, EnginesOK, ThreadsOK, Alone, running, deviceVars
<1>10. SelfTestOK'
    BY <1>1, <1>2, <1>3, <1>4 DEF Inner, SelfTestOK, selfread
<1> QED
    BY <1>2, <1>6, <1>7, <1>8, <1>9, <1>10 DEF IInv, Inner

LEMMA SelfCheckIInv ==
    ASSUME IInv, fault = "none", NEW k \in DOMAIN inBackend, MayAnswer(k), Answered(k),
           SelfCheck(inBackend[k])
    PROVE  IInv'
<1> DEFINE e == inBackend[k]
<1>1. /\ TypeOK /\ Inner /\ ClockOK /\ NoFatal /\ PipelineOK
      /\ fromPIM(e) /\ e.kind # "selfwrite" /\ ~selfCheckDone
      /\ selfCheckDone' = TRUE
      /\ fault' = IF e.kind = "selfread" /\ "DRAM" \in stored THEN "none" ELSE "fatal"
      /\ UNCHANGED <<pendingPIMEvents, initDRAMDone, stored, deviceVars, hpc>>
    BY DEF IInv, SelfCheck
<1>2. /\ QueuesOK' /\ PipelineOK'
      /\ inBackend' \in Seq(Event) /\ outstandingEvents' \subseteq Event
      /\ e \in outstandingEvents /\ e \in Event /\ initDRAMDone
    BY AnsweredQueues
<1>3. outstandingEvents' = outstandingEvents \ {e}
      /\ UNCHANGED <<config, clockOn, reqQueue, requestBuffer, wakeups>>
    BY DEF Answered
<1>4. InOrder => e.kind = "selfread" /\ "DRAM" \in stored
    <2> SUFFICES ASSUME InOrder PROVE e.kind = "selfread" /\ "DRAM" \in stored
        OBVIOUS
    <2>1. selfread \in outstandingEvents
        BY <1>1, <1>2 DEF Inner, SelfTestOK
    <2>2. \A d \in outstandingEvents : ~Earlier(d, e)
        BY <1>1, AnsweredFirst
    <2> HIDE DEF e
    <2>3. e.kind = "selfread"
        BY <1>1, <2>1, <2>2 DEF Earlier, fromPIM, selfread
    <2>4. selfwrite \notin outstandingEvents
        BY <2>2, <2>3 DEF Earlier, selfwrite
    <2> QED
        BY <1>1, <1>2, <2>3, <2>4 DEF Inner, SelfTestOK
<1> HIDE DEF e
<1>5. \A kd \in {"init", "run", "poll"}, f \in Functions :
          Under(kd, f)' <=> Under(kd, f)
    BY <1>1, <1>3 DEF Under, fromPIM
<1>6. TypeOK'
    BY <1>1, <1>2, <1>3 DEF TypeOK, deviceVars
<1>7. ClockOK'
    BY <1>1, <1>3, <1>5 DEF ClockOK, running, deviceVars
<1>8. NoFatal'
    BY <1>1, <1>3, <1>4 DEF NoFatal, InOrder
<1>9. ASSUME fault' = "none" PROVE Inner'
    <2>1. e.kind = "selfread" /\ "DRAM" \in stored
        BY <1>1, <1>9
    <2>2. e = selfread
        BY <1>2, <2>1 DEF Event, selfread
    <2>3. \A f \in Functions : Under("dma", f)' <=> Under("dma", f)
        BY <1>3, <2>1 DEF Under
    <2>4. PendingOK'
        BY <1>1, <1>3, <2>1 DEF Inner, PendingOK
    <2>5. EnginesOK' /\ ThreadsOK' /\ Alone'
        BY <1>1, <1>3, <1>5, <2>3
           DEF Inner, EnginesOK, ThreadsOK, Alone, running, deviceVars
    <2>6. SelfTestOK'
        BY <1>1, <1>2, <1>3, <2>1, <2>2 DEF Inner, SelfTestOK
    <2> QED
        BY <2>4, <2>5, <2>6 DEF Inner
<1> QED
    BY <1>2, <1>6, <1>7, <1>8, <1>9 DEF IInv

LEMMA HandlePIMCompletionIInv ==
    ASSUME IInv, fault = "none", NEW k \in DOMAIN inBackend, Answered(k),
           handlePIMCompletion(inBackend[k])
    PROVE  IInv'
<1> DEFINE e == inBackend[k]
<1>1. /\ TypeOK /\ Inner /\ ClockOK /\ NoFatal
      /\ fromPIM(e) /\ e.kind # "selfwrite" /\ selfCheckDone
      /\ UNCHANGED <<initDRAMDone, selfCheckDone, stored, hpc>>
    BY DEF IInv, handlePIMCompletion
<1>2. /\ QueuesOK' /\ PipelineOK'
      /\ inBackend' \in Seq(Event) /\ outstandingEvents' \subseteq Event
      /\ e \in outstandingEvents /\ e \in Event /\ initDRAMDone
    BY AnsweredQueues
<1>3. outstandingEvents' = outstandingEvents \ {e}
      /\ UNCHANGED <<config, clockOn, reqQueue, requestBuffer, wakeups>>
    BY DEF Answered
<1>4. e.kind = "dma" /\ e.fn \in Functions /\ e = [kind |-> "dma", fn |-> e.fn]
    <2>1. selfread \notin outstandingEvents
        BY <1>1, <1>2 DEF Inner, SelfTestOK
    <2> HIDE DEF e
    <2>2. e.kind # "selfread"
        BY <1>2, <2>1 DEF Event, selfread
    <2> QED
        BY <1>1, <1>2, <2>2 DEF Event, fromPIM
<1>5. /\ engine' = [engine EXCEPT ![e.fn] = IF left[e.fn] = 0 THEN "DONE" ELSE "STEP"]
      /\ pendingPIMEvents' = pendingPIMEvents \ {e}
      /\ UNCHANGED <<fstate, left, fault>>
    <2>1. e \in pendingPIMEvents
        BY <1>1, <1>2, <1>4 DEF Inner, PendingOK
    <2> QED
        BY <2>1 DEF handlePIMCompletion
<1> HIDE DEF e
<1>6. /\ Under("dma", e.fn) /\ engine[e.fn] = "WAITING" /\ running(e.fn)
      /\ left[e.fn] \in 0 .. MaxSteps /\ MaxSteps \in Nat
    <2>1. Under("dma", e.fn)
        BY <1>2, <1>4 DEF Under
    <2>2. engine[e.fn] = "WAITING" /\ running(e.fn)
        BY <1>1, <1>4, <2>1 DEF Inner, EnginesOK
    <2> QED
        BY <1>1, <1>4, <2>1, <2>2, MemControllerAssumption DEF TypeOK
<1>7. \A f \in Functions :
          /\ \A kd \in {"init", "run", "poll"} : Under(kd, f)' <=> Under(kd, f)
          /\ Under("dma", f)' <=> Under("dma", f) /\ f # e.fn
    BY <1>3, <1>4 DEF Under
<1>8. engine' \in [Functions -> {"IDLE", "STEP", "WAITING", "DONE"}]
      /\ \A f \in Functions :
            engine'[f] = IF f = e.fn THEN IF left[e.fn] = 0 THEN "DONE" ELSE "STEP"
                         ELSE engine[f]
    BY <1>1, <1>4, <1>5 DEF TypeOK
<1>9. TypeOK'
    BY <1>1, <1>2, <1>3, <1>5, <1>8 DEF TypeOK
<1>10. ClockOK' /\ NoFatal'
    BY <1>1, <1>3, <1>5, <1>7 DEF ClockOK, NoFatal, InOrder, running
<1>11. PendingOK'
    BY <1>1, <1>3, <1>5 DEF Inner, PendingOK
<1>12. EnginesOK'
    <2> SUFFICES ASSUME NEW f \in Functions
                 PROVE  /\ Under("dma", f)' <=> engine'[f] = "WAITING"
                        /\ fstate[f] # "RUNNING" => engine'[f] = "IDLE"
                        /\ engine'[f] = "STEP" => left[f] >= 1
        BY <1>5 DEF EnginesOK, running
    <2>1. /\ Under("dma", f) <=> engine[f] = "WAITING"
          /\ fstate[f] # "RUNNING" => engine[f] = "IDLE"
          /\ engine[f] = "STEP" => left[f] >= 1
        BY <1>1 DEF Inner, EnginesOK, running
    <2>2. CASE f = e.fn
        BY <2>2, <1>6, <1>7, <1>8 DEF running
    <2>3. CASE f # e.fn
        BY <2>1, <2>3, <1>7, <1>8
    <2> QED
        BY <2>2, <2>3
<1>13. ThreadsOK' /\ Alone'
    BY <1>1, <1>3, <1>5, <1>7 DEF Inner, ThreadsOK, Alone
<1>14. SelfTestOK'
    <2>1. e # selfread /\ e # selfwrite
        BY <1>4 DEF selfread, selfwrite
    <2> QED
        BY <1>1, <1>2, <1>3, <2>1 DEF Inner, SelfTestOK
<1> QED
    BY <1>2, <1>9, <1>10, <1>11, <1>12, <1>13, <1>14 DEF IInv, Inner

(* The accesses of a thread that are answered in a call to a register:     *)
(* none that comes before it in the thread's program is left.              *)
LEMMA RegisterAnswered ==
    ASSUME IInv, NEW k \in DOMAIN inBackend, MayAnswer(k),
           inBackend[k].kind \in {"init", "run", "poll"}
    PROVE  LET e == inBackend[k] IN
           /\ e \in Event /\ e.fn \in Functions /\ Under(e.kind, e.fn)
           /\ e = [kind |-> e.kind, fn |-> e.fn]
           /\ e.kind \in {"run", "poll"} => ~Under("init", e.fn)
           /\ e.kind = "poll" => ~Under("run", e.fn)
<1> DEFINE e == inBackend[k]
<1>1. e \in outstandingEvents /\ e \in Event
    BY Parts DEF IInv, TypeOK, PipelineOK, ToSet
<1>2. \A d \in outstandingEvents :
          Earlier(d, e) => ~InOrder /\ ~SameAddress(d, e)
    BY AnsweredFirst DEF IInv
<1>3. e.kind \in {"init", "run", "poll"}
    OBVIOUS
<1> HIDE DEF e
<1>4. e.fn \in Functions /\ e = [kind |-> e.kind, fn |-> e.fn] /\ Under(e.kind, e.fn)
    BY <1>1, <1>3 DEF Event, Under
<1>5. ASSUME NEW kd \in {"init", "run"}, rank[kd] < rank[e.kind]
      PROVE  ~Under(kd, e.fn)
    <2> DEFINE d == [kind |-> kd, fn |-> e.fn]
    <2>1. Earlier(d, e) /\ SameAddress(d, e)
        BY <1>3, <1>5 DEF Earlier, SameAddress, fromPIM
    <2> QED
        BY <1>2, <2>1 DEF Under
<1>6. rank["init"] < rank["run"] /\ rank["init"] < rank["poll"] /\ rank["run"] < rank["poll"]
    BY DEF rank
<1> QED
    BY <1>1, <1>4, <1>5, <1>6 DEF e

LEMMA InitWrittenIInv ==
    ASSUME IInv, fault = "none", NEW k \in DOMAIN inBackend, MayAnswer(k), Answered(k),
           InitWritten(inBackend[k])
    PROVE  IInv'
<1> DEFINE e == inBackend[k]
<1>1. /\ TypeOK /\ Inner /\ ClockOK /\ NoFatal /\ e.kind = "init"
      /\ UNCHANGED <<pimVars, engine, left, hpc>>
    BY DEF IInv, InitWritten
<1>2. /\ QueuesOK' /\ PipelineOK'
      /\ inBackend' \in Seq(Event) /\ outstandingEvents' \subseteq Event
      /\ e \in outstandingEvents /\ initDRAMDone
    BY AnsweredQueues
<1>3. outstandingEvents' = outstandingEvents \ {e}
      /\ UNCHANGED <<config, clockOn, reqQueue, requestBuffer, wakeups>>
    BY DEF Answered
<1>4. /\ e \in Event /\ e.fn \in Functions /\ Under("init", e.fn)
      /\ e = [kind |-> "init", fn |-> e.fn]
    BY <1>1, RegisterAnswered
<1>5. fstate[e.fn] \in {"INVALID", "DONE"}
    BY <1>1, <1>4 DEF Inner, ThreadsOK
<1>6. fstate' = [fstate EXCEPT ![e.fn] = "READY"] /\ UNCHANGED fault
    BY <1>5 DEF InitWritten
<1> HIDE DEF e
<1>7. \A f \in Functions :
          /\ \A kd \in {"dma", "run", "poll"} : Under(kd, f)' <=> Under(kd, f)
          /\ Under("init", f)' <=> Under("init", f) /\ f # e.fn
          /\ fstate'[f] = IF f = e.fn THEN "READY" ELSE fstate[f]
    <2>1. \A f \in Functions :
              /\ \A kd \in {"dma", "run", "poll"} : Under(kd, f)' <=> Under(kd, f)
              /\ Under("init", f)' <=> Under("init", f) /\ f # e.fn
        BY <1>3, <1>4 DEF Under
    <2> QED
        BY <1>1, <1>6, <2>1 DEF TypeOK
<1>8. TypeOK'
    BY <1>1, <1>2, <1>3, <1>4, <1>6 DEF TypeOK, pimVars
<1>9. ClockOK' /\ NoFatal'
    BY <1>1, <1>3, <1>6, <1>7 DEF ClockOK, NoFatal, InOrder, running
<1>10. PendingOK'
    BY <1>1, <1>3 DEF Inner, PendingOK, pimVars
<1>11. EnginesOK'
    BY <1>1, <1>5, <1>7 DEF Inner, EnginesOK, running
<1>12. ThreadsOK'
    <2> SUFFICES ASSUME NEW f \in Functions
                 PROVE  /\ Under("poll", f)' <=> hpc[f] = "wait"
                        /\ Under("run", f)' => hpc[f] \in {"poll", "wait"}
                        /\ Under("init", f)' => /\ hpc[f] # "idle"
                                                /\ hpc[f] = "run" \/ Under("run", f)'
                        /\ fstate'[f] \in IF hpc[f] = "idle" \/ Under("init", f)'
                                         THEN {"INVALID", "DONE"}
                                         ELSE IF hpc[f] = "run" \/ Under("run", f)'
                                         THEN {"READY"}
                                         ELSE {"RUNNING", "DONE"}
        BY <1>1 DEF ThreadsOK
    <2>1. CASE f = e.fn
        BY <2>1, <1>1, <1>4, <1>7 DEF Inner, ThreadsOK
    <2>2. CASE f # e.fn
        BY <2>2, <1>1, <1>7 DEF Inner, ThreadsOK
    <2> QED
        BY <2>1, <2>2
<1>13. SelfTestOK'
    <2>1. e # selfread /\ e # selfwrite
        BY <1>4 DEF selfread, selfwrite
    <2> QED
        BY <1>1, <1>2, <1>3, <2>1 DEF Inner, SelfTestOK, pimVars
<1>14. Alone'
    BY <1>1, <1>3 DEF Inner, Alone
<1> QED
    BY <1>2, <1>8, <1>9, <1>10, <1>11, <1>12, <1>13, <1>14 DEF IInv, Inner

LEMMA RunWrittenIInv ==
    ASSUME IInv, fault = "none", NEW k \in DOMAIN inBackend, MayAnswer(k), Answered(k),
           RunWritten(inBackend[k])
    PROVE  IInv'
<1> DEFINE e == inBackend[k]
<1>1. /\ TypeOK /\ Inner /\ ClockOK /\ NoFatal /\ e.kind = "run"
      /\ UNCHANGED <<pimVars, hpc>>
    BY DEF IInv, RunWritten
<1>2. /\ QueuesOK' /\ PipelineOK'
      /\ inBackend' \in Seq(Event) /\ outstandingEvents' \subseteq Event
      /\ e \in outstandingEvents /\ initDRAMDone
    BY AnsweredQueues
<1>3. outstandingEvents' = outstandingEvents \ {e}
      /\ UNCHANGED <<config, clockOn, reqQueue, requestBuffer, wakeups>>
    BY DEF Answered
<1>4. /\ e \in Event /\ e.fn \in Functions /\ Under("run", e.fn) /\ ~Under("init", e.fn)
      /\ e = [kind |-> "run", fn |-> e.fn]
    BY <1>1, RegisterAnswered
<1>5. hpc[e.fn] \in {"poll", "wait"} /\ fstate[e.fn] = "READY"
    BY <1>1, <1>4 DEF Inner, ThreadsOK
<1>6. PICK n \in 1 .. MaxSteps :
         /\ fstate' = [fstate EXCEPT ![e.fn] = "RUNNING"]
         /\ engine' = [engine EXCEPT ![e.fn] = "STEP"]
         /\ left' = [left EXCEPT ![e.fn] = n]
         /\ UNCHANGED fault
    BY <1>5 DEF RunWritten
<1> HIDE DEF e
<1>7. \A f \in Functions :
          /\ \A kd \in {"dma", "init", "poll"} : Under(kd, f)' <=> Under(kd, f)
          /\ Under("run", f)' <=> Under("run", f) /\ f # e.fn
    BY <1>3, <1>4 DEF Under
<1>8. \A f \in Functions :
          /\ fstate'[f] = IF f = e.fn THEN "RUNNING" ELSE fstate[f]
          /\ engine'[f] = IF f = e.fn THEN "STEP" ELSE engine[f]
          /\ left'[f] = IF f = e.fn THEN n ELSE left[f]
    BY <1>1, <1>6 DEF TypeOK
<1>9. TypeOK'
    <2>1. n \in 0 .. MaxSteps
        BY <1>6, MemControllerAssumption
    <2> QED
        BY <1>1, <1>2, <1>3, <1>4, <1>6, <2>1 DEF TypeOK, pimVars
<1>10. config.sequential => clockOn
    BY <1>1, <1>4 DEF ClockOK
<1>11. ClockOK' /\ NoFatal'
    BY <1>1, <1>3, <1>6, <1>10 DEF ClockOK, NoFatal, InOrder
<1>12. PendingOK'
    BY <1>1, <1>3 DEF Inner, PendingOK, pimVars
<1>13. EnginesOK'
    <2> SUFFICES ASSUME NEW f \in Functions
                 PROVE  /\ Under("dma", f)' <=> engine'[f] = "WAITING"
                        /\ fstate'[f] # "RUNNING" => engine'[f] = "IDLE"
                        /\ engine'[f] = "STEP" => left'[f] >= 1
        BY DEF EnginesOK, running
    <2>1. /\ Under("dma", f) <=> engine[f] = "WAITING"
          /\ fstate[f] # "RUNNING" => engine[f] = "IDLE"
          /\ engine[f] = "STEP" => left[f] >= 1
        BY <1>1 DEF Inner, EnginesOK, running
    <2>2. CASE f = e.fn
        <3>1. n >= 1
            BY <1>6
        <3> QED
            BY <2>1, <2>2, <3>1, <1>5, <1>7, <1>8
    <2>3. CASE f # e.fn
        BY <2>1, <2>3, <1>7, <1>8
    <2> QED
        BY <2>2, <2>3
<1>14. ThreadsOK'
    <2> SUFFICES ASSUME NEW f \in Functions
                 PROVE  /\ Under("poll", f)' <=> hpc[f] = "wait"
                        /\ Under("run", f)' => hpc[f] \in {"poll", "wait"}
                        /\ Under("init", f)' => /\ hpc[f] # "idle"
                                                /\ hpc[f] = "run" \/ Under("run", f)'
                        /\ fstate'[f] \in IF hpc[f] = "idle" \/ Under("init", f)'
                                         THEN {"INVALID", "DONE"}
                                         ELSE IF hpc[f] = "run" \/ Under("run", f)'
                                         THEN {"READY"}
                                         ELSE {"RUNNING", "DONE"}
        BY <1>1 DEF ThreadsOK
    <2>1. CASE f = e.fn
        BY <2>1, <1>1, <1>4, <1>5, <1>7, <1>8 DEF Inner, ThreadsOK
    <2>2. CASE f # e.fn
        BY <2>2, <1>1, <1>7, <1>8 DEF Inner, ThreadsOK
    <2> QED
        BY <2>1, <2>2
<1>15. SelfTestOK'
    <2>1. e # selfread /\ e # selfwrite
        BY <1>4 DEF selfread, selfwrite
    <2> QED
        BY <1>1, <1>2, <1>3, <2>1 DEF Inner, SelfTestOK, pimVars
<1>16. Alone'
    BY <1>1, <1>3 DEF Inner, Alone
<1> QED
    BY <1>2, <1>9, <1>11, <1>12, <1>13, <1>14, <1>15, <1>16 DEF IInv, Inner

LEMMA PolledIInv ==
    ASSUME IInv, fault = "none", NEW k \in DOMAIN inBackend, MayAnswer(k), Answered(k),
           Polled(inBackend[k])
    PROVE  IInv'
<1> DEFINE e == inBackend[k]
           to == IF fstate[e.fn] = "DONE" THEN "idle" ELSE "poll"
<1>1. /\ TypeOK /\ Inner /\ ClockOK /\ NoFatal /\ e.kind = "poll"
      /\ UNCHANGED <<pimVars, deviceVars>>
    BY DEF IInv, Polled
<1>2. /\ QueuesOK' /\ PipelineOK'
      /\ inBackend' \in Seq(Event) /\ outstandingEvents' \subseteq Event
      /\ e \in outstandingEvents /\ initDRAMDone
    BY AnsweredQueues
<1>3. outstandingEvents' = outstandingEvents \ {e}
      /\ UNCHANGED <<config, clockOn, reqQueue, requestBuffer, wakeups>>
    BY DEF Answered
<1>4. /\ e \in Event /\ e.fn \in Functions /\ Under("poll", e.fn)
      /\ ~Under("init", e.fn) /\ ~Under("run", e.fn)
      /\ e = [kind |-> "poll", fn |-> e.fn]
    BY <1>1, RegisterAnswered
<1>5. hpc[e.fn] = "wait" /\ fstate[e.fn] \in {"RUNNING", "DONE"}
    BY <1>1, <1>4 DEF Inner, ThreadsOK
<1>6. hpc' = [hpc EXCEPT ![e.fn] = to] /\ UNCHANGED fault
    BY <1>5 DEF Polled
<1> HIDE DEF e
<1>7. \A f \in Functions :
          /\ \A kd \in {"dma", "init", "run"} : Under(kd, f)' <=> Under(kd, f)
          /\ Under("poll", f)' <=> Under("poll", f) /\ f # e.fn
    BY <1>3, <1>4 DEF Under
<1>8. /\ to \in {"idle", "poll"}
      /\ \A f \in Functions : hpc'[f] = IF f = e.fn THEN to ELSE hpc[f]
    BY <1>1, <1>6 DEF TypeOK
<1>9. TypeOK'
    BY <1>1, <1>2, <1>3, <1>6, <1>8 DEF TypeOK, pimVars, deviceVars
<1>10. ClockOK' /\ NoFatal'
    BY <1>1, <1>3, <1>6, <1>7 DEF ClockOK, NoFatal, InOrder, running, deviceVars
<1>11. PendingOK'
    BY <1>1, <1>3 DEF Inner, PendingOK, pimVars
<1>12. EnginesOK'
    BY <1>1, <1>7 DEF Inner, EnginesOK, running, deviceVars
<1>13. ThreadsOK'
    <2> SUFFICES ASSUME NEW f \in Functions
                 PROVE  /\ Under("poll", f)' <=> hpc'[f] = "wait"
                        /\ Under("run", f)' => hpc'[f] \in {"poll", "wait"}
                        /\ Under("init", f)' => /\ hpc'[f] # "idle"
                                                /\ hpc'[f] = "run" \/ Under("run", f)'
                        /\ fstate[f] \in IF hpc'[f] = "idle" \/ Under("init", f)'
                                         THEN {"INVALID", "DONE"}
                                         ELSE IF hpc'[f] = "run" \/ Under("run", f)'
                                         THEN {"READY"}
                                         ELSE {"RUNNING", "DONE"}
        BY <1>1 DEF ThreadsOK, deviceVars
    <2>1. CASE f = e.fn
        BY <2>1, <1>4, <1>5, <1>7, <1>8
    <2>2. CASE f # e.fn
        BY <2>2, <1>1, <1>7, <1>8 DEF Inner, ThreadsOK
    <2> QED
        BY <2>1, <2>2
<1>14. SelfTestOK'
    <2>1. e # selfread /\ e # selfwrite
        BY <1>4 DEF selfread, selfwrite
    <2> QED
        BY <1>1, <1>2, <1>3, <2>1 DEF Inner, SelfTestOK, pimVars, deviceVars
<1>15. Alone'
    <2> HIDE DEF to
    <2>1. \A f \in Functions : hpc'[f] # "idle" => hpc[f] # "idle"
        BY <1>5, <1>8
    <2> QED
        BY <1>1, <1>3, <2>1 DEF Inner, Alone
<1> QED
    BY <1>2, <1>9, <1>10, <1>11, <1>12, <1>13, <1>14, <1>15 DEF IInv, Inner

LEMMA HandleMemResponseIInv ==
    ASSUME IInv, NEW k \in DOMAIN inBackend, handleMemResponse(k)
    PROVE  IInv'
<1> DEFINE e == inBackend[k]
<1>1. /\ fault = "none" /\ MayAnswer(k) /\ Answered(k)
      /\ \/ SelfWriteDone(e) \/ SelfCheck(e) \/ handlePIMCompletion(e)
         \/ InitWritten(e) \/ RunWritten(e) \/ Polled(e)
    BY DEF handleMemResponse, Answered
<1> HIDE DEF e
<1>2. CASE SelfWriteDone(e)
    BY <1>1, <1>2, SelfWriteDoneIInv DEF e
<1>3. CASE SelfCheck(e)
    BY <1>1, <1>3, SelfCheckIInv DEF e
<1>4. CASE handlePIMCompletion(e)
    BY <1>1, <1>4, HandlePIMCompletionIInv DEF e
<1>5. CASE InitWritten(e)
    BY <1>1, <1>5, InitWrittenIInv DEF e
<1>6. CASE RunWritten(e)
    BY <1>1, <1>6, RunWrittenIInv DEF e
<1>7. CASE Polled(e)
    BY <1>1, <1>7, PolledIInv DEF e
<1> QED
    BY <1>1, <1>2, <1>3, <1>4, <1>5, <1>6, <1>7

-----------------------------------------------------------------------------
(* The inductive invariant holds in every reachable state.                 *)
LEMMA Invariance == Spec => []IInv
<1>1. Init => IInv
    BY InitIInv
<1>2. IInv /\ [Next]_vars => IInv'
    <2> SUFFICES ASSUME IInv, [Next]_vars PROVE IInv'
        OBVIOUS
    <2>1. ASSUME NEW f \in Functions, Begin(f) PROVE IInv'
        BY <2>1, BeginIInv
    <2>2. ASSUME NEW f \in Functions, Continue(f) PROVE IInv'
        BY <2>2, ContinueIInv
    <2>3. CASE clock
        BY <2>3, ClockIInv
    <2>4. CASE handleNextRequest
        BY <2>4, HandleNextRequestIInv
    <2>5. ASSUME NEW k \in DOMAIN inBackend, handleMemResponse(k) PROVE IInv'
        BY <2>5, HandleMemResponseIInv
    <2>6. CASE UNCHANGED vars
        BY <2>6, StutterIInv
    <2> QED
        BY <2>1, <2>2, <2>3, <2>4, <2>5, <2>6 DEF Next
<1> QED
    BY <1>1, <1>2, PTL DEF Spec

(* Types are kept: the queues hold events, and no counter of steps falls   *)
(* below zero or rises above its bound (MemControllerKG, PIMBackend).      *)
THEOREM TypeCorrect == Spec => []TypeOK
<1>1. IInv => TypeOK
    BY DEF IInv
<1> QED
    BY <1>1, Invariance, PTL

(* A wakeup is under way for every request in the delay buffer, and no     *)
(* wakeup finds it empty (PIMBackend::handleNextRequest).                  *)
THEOREM WakeupsMatch == Spec => []WakeupPerRequest
<1>1. IInv => WakeupPerRequest
    BY DEF IInv, QueuesOK
<1> QED
    BY <1>1, Invariance, PTL

(* No event is lost or doubled between the tables of the controller and of *)
(* PIMBackend and the queues a request passes (outstandingEvents_,         *)
(* pendingPIMEvents).                                                      *)
THEOREM NoEventLost == Spec => []EachEventOnce
<1>1. IInv => EachEventOnce
    BY DEF IInv, PipelineOK, Inner, PendingOK, EachEventOnce
<1> QED
    BY <1>1, Invariance, PTL

(* With memory that answers in order no fatal call and no assertion is     *)
(* reached (PIMBackend::handlePIMCompletion, TCLPIM::write).               *)
THEOREM NeverFatal == Spec => []NoFatal
<1>1. IInv => NoFatal
    BY DEF IInv
<1> QED
    BY <1>1, Invariance, PTL

(* With one call at a time the clock stands still only when nothing needs  *)
(* it (MemControllerKG::clock, TCLPIM::clock).                             *)
THEOREM ClockRuns == Spec => []ClockWhileNeeded
<1>1. IInv => ClockWhileNeeded
    BY DEF IInv, ClockOK, ClockWhileNeeded
<1> QED
    BY <1>1, Invariance, PTL

-----------------------------------------------------------------------------
(* The controller as a memory port.                                        *)

LEMMA PrefixKept ==
    ASSUME NEW s \in Seq(Event), NEW t \in Seq(Event)
    PROVE  IsPrefix(s, s \o t)
<1> DEFINE u == s \o t
<1>1. /\ Len(s) \in Nat /\ Len(t) \in Nat /\ u \in Seq(Event)
      /\ Len(u) = Len(s) + Len(t)
      /\ DOMAIN s = 1 .. Len(s) /\ \A k \in DOMAIN s : u[k] = s[k] /\ s[k] \in Event
    BY Behind, SeqParts
<1> HIDE DEF u
<1>2. SubSeq(s, 1, Len(s)) = s
    BY SubSeqFull
<1>3. /\ SubSeq(u, 1, Len(s)) \in Seq(Event)
      /\ Len(SubSeq(u, 1, Len(s))) = IF 1 <= Len(s) THEN Len(s) - 1 + 1 ELSE 0
      /\ \A i \in 1 .. Len(s) - 1 + 1 : SubSeq(u, 1, Len(s))[i] = u[1 + i - 1]
    <2>1. 1 \in Int /\ Len(s) \in Int /\ \A k \in 1 .. Len(s) : u[k] \in Event
        BY <1>1
    <2> QED
        BY <2>1, SubSeqProperties
<1> DEFINE v == SubSeq(u, 1, Len(s))
<1>4. v \in Seq(Event) /\ Len(v) = Len(s) /\ \A i \in 1 .. Len(v) : v[i] = s[i]
    BY <1>1, <1>3
<1>5. v = s
    <2> HIDE DEF v
    <2> QED
        BY <1>4, SeqEqual
<1>6. Len(s) <= Len(u)
    BY <1>1
<1> QED
    BY <1>2, <1>5, <1>6 DEF IsPrefix, u


LEMMA HostAsks ==
    ASSUME IInv, NEW f \in Functions, Begin(f) \/ Continue(f)
    PROVE  IsPrefix(Pipeline, Pipeline')
<1>1. PICK kind \in {"init", "run", "poll"} :
         /\ reqQueue' = Append(reqQueue, [kind |-> kind, fn |-> f])
         /\ UNCHANGED <<inBackend, requestBuffer>>
    BY DEF Begin, Continue, Access, handleEvent, backendVars
<1> DEFINE e == [kind |-> kind, fn |-> f]
<1>2. e \in Event
    BY DEF Event
<1> HIDE DEF e
<1>3. Pipeline' = Pipeline \o <<e>>
    BY <1>1, <1>2, AccessPipeline DEF IInv, e
<1>4. <<e>> \in Seq(Event) /\ Pipeline \in Seq(Event)
    BY <1>2, Parts DEF IInv
<1> QED
    BY <1>3, <1>4, PrefixKept

LEMMA ClockAsks ==
    ASSUME IInv, clock
    PROVE  IsPrefix(Pipeline, Pipeline')
<1>1. PICK D \in SUBSET stepping :
         reqQueue' = SubSeq(reqQueue, issuing + 1, Len(reqQueue))
                        \o (Requests(D) \o SelfTest)
    BY DEF clock
<1> DEFINE new == Requests(D) \o SelfTest
<1>2. fault = "none" /\ issueRequest /\ config' = config
    BY DEF clock
<1>3. new \in Seq(Event)
    BY <1>2, NewEvents
<1> HIDE DEF new
<1>4. Pipeline' = Pipeline \o new
    BY <1>1, <1>2, <1>3, ClockQueues DEF new
<1>5. Pipeline \in Seq(Event)
    BY Parts DEF IInv
<1> QED
    BY <1>3, <1>4, <1>5, PrefixKept

LEMMA PassesOn ==
    ASSUME IInv, handleNextRequest
    PROVE  Pipeline' = Pipeline
<1>1. reqQueue' = reqQueue /\ wakeups > 0
    BY DEF handleNextRequest, controllerVars
<1>2. CASE UNCHANGED <<inBackend, requestBuffer>>
    BY <1>1, <1>2 DEF Pipeline
<1>3. CASE /\ inBackend' = Append(inBackend, Head(requestBuffer))
           /\ requestBuffer' = Tail(requestBuffer)
    <2>1. requestBuffer # << >>
        BY <1>1 DEF IInv, QueuesOK, WakeupPerRequest
    <2> QED
        BY <1>1, <1>3, <2>1, PassedOn DEF IInv
<1> QED
    BY <1>2, <1>3 DEF handleNextRequest

LEMMA ResponseAnswers ==
    ASSUME IInv, NEW k \in DOMAIN inBackend, handleMemResponse(k)
    PROVE  Port!Answer(k)
<1>1. MayAnswer(k) /\ Answered(k)
    BY DEF handleMemResponse, Answered
<1>2. Pipeline' = RemoveAt(Pipeline, k)
    BY <1>1, Shrinks DEF IInv, Answered
<1>3. /\ k \in DOMAIN Pipeline /\ DOMAIN inBackend = 1 .. Len(inBackend)
      /\ Len(inBackend) \in Nat
      /\ \A j \in DOMAIN inBackend : Pipeline[j] = inBackend[j]
    BY Parts DEF IInv
<1>4. ASSUME NEW j \in 1 .. k - 1
      PROVE  ~SameAddress(Pipeline[j], Pipeline[k])
    <2>1. j \in DOMAIN inBackend /\ k # 1
        BY <1>3
    <2> QED
        BY <1>1, <1>3, <2>1 DEF MayAnswer
<1> QED
    <2>1. Pipeline' = Port!RemoveAt(Pipeline, k)
        BY <1>2 DEF RemoveAt, Port!RemoveAt
    <2> QED
        BY <1>3, <1>4, <2>1 DEF Port!Answer

(* The controller implements the order of a memory port: whatever the way  *)
(* of a request through reqQueue, the delay buffer and the memory model,   *)
(* it is answered once, and after the older ones to its address            *)
(* (MemControllerKG::handleEvent, PIMBackend::issueRequest).               *)
THEOREM OrderKept == Spec => KeepsOrder
<1>1. Init => Port!Init
    BY DEF Init, Port!Init, Pipeline
<1>2. IInv /\ [Next]_vars => [Port!Next]_Pipeline
    <2> SUFFICES ASSUME IInv, [Next]_vars PROVE [Port!Next]_Pipeline
        OBVIOUS
    <2>1. ASSUME NEW f \in Functions, Begin(f) \/ Continue(f) PROVE Port!Next
        <3>1. Port!Ask
            BY <2>1, HostAsks DEF Port!Ask, IsPrefix, Port!IsPrefix
        <3> QED
            BY <3>1 DEF Port!Next
    <2>2. CASE clock
        <3>1. Port!Ask
            BY <2>2, ClockAsks DEF Port!Ask, IsPrefix, Port!IsPrefix
        <3> QED
            BY <3>1 DEF Port!Next
    <2>3. CASE handleNextRequest
        BY <2>3, PassesOn
    <2>4. ASSUME NEW k \in DOMAIN inBackend, handleMemResponse(k) PROVE Port!Next
        <3>1. k \in DOMAIN Pipeline
            BY Parts DEF IInv
        <3> QED
            BY <2>4, <3>1, ResponseAnswers DEF Port!Next
    <2>5. CASE UNCHANGED vars
        BY <2>5 DEF vars, controllerVars, backendVars, Pipeline
    <2> QED
        BY <2>1, <2>2, <2>3, <2>4, <2>5 DEF Next
<1> QED
    BY <1>1, <1>2, Invariance, PTL DEF Spec, KeepsOrder, Port!Safety
=============================================================================
