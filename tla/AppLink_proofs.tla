--------------------------- MODULE AppLink_proofs ---------------------------
(***************************************************************************)
(* Proofs about AppLink, for every program, every size of the slots and of *)
(* the nodes of loadQ, and every order of answers.  The one condition      *)
(* variable of the two threads, of which only one is notified, loses no    *)
(* wakeup, whatever threads wake without being notified; and a load that   *)
(* leaves no other unanswered gets what was stored last, though no tag     *)
(* ties the answers in loadQ to the loads.                                 *)
(***************************************************************************)
EXTENDS AppLink, DataLemmas

(* Where a thread is when it waits.  What the simulator's thread looked at *)
(* before it went to sleep is its own, and still so when it wakes.         *)
Waiting ==
    /\ asleep \subseteq {"app", "simulator"}
    /\ "app" \in asleep => pc = "send"
    /\ "simulator" \in asleep => at = "generate" /\ generating

Wakes == Waiting /\ NoLostWakeup

(* The requests of the program on their way to memory, oldest first.       *)
OfQueue == IF q # << >> /\ Head(q) \in Requests THEN <<Head(q)>> ELSE << >>
OfApp == IF pc = "send" /\ event \in Requests THEN <<event>> ELSE << >>
Way == inFlight \o (pendingRequests \o (OfQueue \o OfApp))

StoresTo(r, a) == r.cmd = "WRITE" /\ r.address = a

(* Memory b holds v at a once the first n of the requests E are done.      *)
Leaves(E, b, n, a, v) ==
    /\ (\A j \in 1 .. n : ~StoresTo(E[j], a)) => b[a] = v
    /\ \A j \in 1 .. n :
          /\ StoresTo(E[j], a)
          /\ \A k \in j + 1 .. n : ~StoresTo(E[k], a)
          => E[j].data = v

StoresSettled == \A a \in Addrs : Leaves(Way, memory, Len(Way), a, latest[a])

(* The program is at a load, from the call until receive returns.          *)
Loading ==
    \/ pc \in {"poll", "answered", "single", "empty"}
    \/ pc \in {"send", "notify"} /\ event.cmd \in {"READ", "NOP"}

(* While the simulator's thread starts a node of loadQ and the answer has  *)
(* been taken from it, the program gets no further than its next event.    *)
TornApart ==
    \/ pc \in {"work", "gone"}
    \/ pc = "send" /\ (event # NOP \/ q # << >>)
    \/ pc = "notify" /\ event # NOP /\ q # << >>

(* Where the threads are, and what they have then to do.                   *)
Places ==
    /\ torn <=> at = "push"
    /\ at = "generate" => Len(pendingRequests) <= i
    /\ at = "notify" => i < maxOpLookup /\ Len(pendingRequests) <= i + 1
    /\ pc \in {"poll", "answered", "single", "empty"} => event = NOP
    /\ pc \in {"answered", "single", "empty"} => loadQ # << >>
    /\ torn /\ loadQ = << >> => TornApart
    /\ q # << >> /\ Head(q).cmd = "READ" =>
          \/ pc = "notify" /\ event.cmd = "READ"
          \/ pc = "send" /\ event = NOP
    /\ result # Nothing => pc = "work"

(* The one load that is not answered is the one the program is at.         *)
Reads == {n \in DOMAIN Way : Way[n].cmd = "READ"}

InTurn ==
    IF ~Loading THEN loadQ = << >> /\ Reads = {}
    ELSE \/ /\ loadQ = << >> /\ Way # << >> /\ Reads = {Len(Way)}
            /\ Way[Len(Way)].address = target
         \/ loadQ = <<latest[target]>> /\ Reads = {}

(* Or an earlier one is not, and will not be while the program loads.      *)
Behindhand ==
    IF ~Loading THEN loadQ # << >> \/ Reads # {}
    ELSE \/ Len(loadQ) >= 2
         \/ loadQ # << >> /\ Reads # {}
         \/ \E m, n \in Reads : m # n

AnswersKept ==
    /\ InTurn \/ Behindhand
    /\ result.rc = "ok" /\ InTurn => result.data = latest[target]

IInv == TypeOK /\ Places /\ StoresSettled /\ AnswersKept

-----------------------------------------------------------------------------
(* A step after which nobody sleeps who did not sleep before, and which    *)
(* changes nothing that the threads that sleep have looked at.             *)
LEMMA Undisturbed ==
    ASSUME Wakes, UNCHANGED <<q, asleep>>,
           "app" \in asleep => pc' = pc /\ (at = "notify" => at' = "notify"),
           "simulator" \in asleep =>
               /\ UNCHANGED <<at, i, done, inFlight>>
               /\ pc = "notify" => pc' = "notify"
    PROVE  Wakes'
<1>1. Waiting'
    <2>1. "simulator" \in asleep => generating'
        BY DEF Wakes, Waiting, generating, InFlight
    <2> QED
        BY <2>1 DEF Wakes, Waiting
<1>2. NoLostWakeup'
    BY DEF Wakes, NoLostWakeup
<1> QED
    BY <1>1, <1>2 DEF Wakes

-----------------------------------------------------------------------------
(* The application's thread.                                               *)

LEMMA SendWakes ==
    ASSUME Wakes, send
    PROVE  Wakes'
<1>1. /\ "app" \notin asleep /\ q' = <<event>> /\ pc' = "notify"
      /\ UNCHANGED <<asleep, at, i, done, inFlight>>
    BY DEF send, App, simVars
<1>2. Waiting'
    BY <1>1 DEF Wakes, Waiting, generating, InFlight
<1>3. NoLostWakeup'
    BY <1>1 DEF Wakes, NoLostWakeup
<1> QED
    BY <1>2, <1>3 DEF Wakes

(* The queue is not empty, so the simulator's thread does not sleep.       *)
LEMMA SendWaitsWakes ==
    ASSUME Wakes, sendWaits
    PROVE  Wakes'
<1>1. /\ asleep' = asleep \cup {"app"} /\ pc = "send" /\ pc' = "send" /\ q # << >>
      /\ UNCHANGED <<q, at, i, done, inFlight>>
    BY DEF sendWaits, App, simVars
<1>2. "simulator" \notin asleep
    BY <1>1 DEF Wakes, NoLostWakeup
<1>3. Waiting'
    BY <1>1, <1>2 DEF Wakes, Waiting
<1>4. NoLostWakeup'
    BY <1>1, <1>2 DEF Wakes, NoLostWakeup
<1> QED
    BY <1>3, <1>4 DEF Wakes

(* At most one thread sleeps, and it is the other one: it is the one that  *)
(* is notified.                                                            *)
LEMMA SendNotifiesWakes ==
    ASSUME Wakes, sendNotifies
    PROVE  Wakes'
<1>1. pc = "notify" /\ notify_one /\ UNCHANGED <<q, at, i, done, inFlight>>
    BY DEF sendNotifies, App, simVars
<1>2. asleep \subseteq {"simulator"}
    BY <1>1 DEF Wakes, Waiting
<1>3. asleep' = {}
    BY <1>1, <1>2 DEF notify_one
<1> QED
    BY <1>3 DEF Wakes, Waiting, NoLostWakeup

LEMMA AppStepsWakes ==
    ASSUME Wakes, AppSteps
    PROVE  Wakes'
<1>1. CASE theApp \/ receive
    <2>1. /\ pc # "send" /\ pc # "notify"
          /\ UNCHANGED <<q, asleep, at, i, done, inFlight>>
        BY <1>1 DEF theApp, receive, Looks, Returns, App, simVars, linkVars
    <2>2. "app" \notin asleep
        BY <2>1 DEF Wakes, Waiting
    <2> QED
        BY <2>1, <2>2, Undisturbed
<1> QED
    BY <1>1, SendWakes, SendWaitsWakes, SendNotifiesWakes DEF AppSteps

-----------------------------------------------------------------------------
(* The simulator's thread.                                                 *)

LEMMA GenerateWakes ==
    ASSUME Wakes, generate
    PROVE  Wakes'
<1>1. /\ "simulator" \notin asleep /\ at' = "notify"
      /\ UNCHANGED <<asleep, pc>>
    BY DEF generate, Simulator, appVars
<1> QED
    BY <1>1 DEF Wakes, Waiting, NoLostWakeup

(* The queue is empty, so the application's thread does not sleep.         *)
LEMMA GenerateWaitsWakes ==
    ASSUME Wakes, generateWaits
    PROVE  Wakes'
<1>1. /\ asleep' = asleep \cup {"simulator"} /\ q = << >> /\ generating
      /\ at = "generate" /\ at' = "generate"
      /\ UNCHANGED <<q, pc, i, done, inFlight>>
    BY DEF generateWaits, Simulator, appVars
<1>2. "app" \notin asleep
    BY <1>1 DEF Wakes, NoLostWakeup
<1>3. Waiting'
    BY <1>1, <1>2 DEF Wakes, Waiting, generating, InFlight
<1>4. NoLostWakeup'
    BY <1>1, <1>2 DEF Wakes, NoLostWakeup
<1> QED
    BY <1>3, <1>4 DEF Wakes

LEMMA GenerateNotifiesWakes ==
    ASSUME Wakes, generateNotifies
    PROVE  Wakes'
<1>1. at = "notify" /\ notify_one /\ UNCHANGED <<pc, q>>
    BY DEF generateNotifies, Simulator, appVars
<1>2. asleep \subseteq {"app"}
    BY <1>1 DEF Wakes, Waiting
<1>3. asleep' = {}
    BY <1>1, <1>2 DEF notify_one
<1> QED
    BY <1>3 DEF Wakes, Waiting, NoLostWakeup

(* The other steps of the simulator's thread are not taken while it waits. *)
LEMMA SimulatorStepsWakes ==
    ASSUME Wakes, SimulatorSteps
    PROVE  Wakes'
<1>1. CASE clockTick
    <2>1. /\ at = "idle" /\ UNCHANGED <<q, asleep>>
          /\ pc' = IF pc = "unborn" THEN "work" ELSE pc
        BY <1>1 DEF clockTick, Simulator, linkVars
    <2> QED
        BY <2>1, Undisturbed DEF Wakes, Waiting
<1>2. CASE issue
    <2>1. ~generating /\ at = "generate" /\ UNCHANGED <<q, asleep, pc>>
        BY <1>2 DEF issue, Simulator, linkVars, appVars
    <2> QED
        BY <2>1, Undisturbed DEF Wakes, Waiting
<1>3. CASE pushed
    <2>1. at = "push" /\ UNCHANGED <<q, asleep, pc>>
        BY <1>3 DEF pushed, linkVars, appVars
    <2> QED
        BY <2>1, Undisturbed DEF Wakes, Waiting
<1> QED
    BY <1>1, <1>2, <1>3, GenerateWakes, GenerateWaitsWakes, GenerateNotifiesWakes
       DEF SimulatorSteps

LEMMA HandleEventWakes ==
    ASSUME Wakes, NEW k \in DOMAIN inFlight, handleEvent(k)
    PROVE  Wakes'
<1>1. at = "idle" /\ UNCHANGED <<q, asleep, pc>>
    BY DEF handleEvent, linkVars, appVars
<1> QED
    BY <1>1, Undisturbed DEF Wakes, Waiting

LEMMA SpuriousWakes ==
    ASSUME Wakes, spurious
    PROVE  Wakes'
<1>1. PICK t \in asleep : asleep' = asleep \ {t}
    BY DEF spurious
<1>2. UNCHANGED <<pc, q, at, i, done, inFlight>>
    BY DEF spurious, appVars, simVars
<1>3. Waiting'
    BY <1>1, <1>2 DEF Wakes, Waiting, generating, InFlight
<1>4. NoLostWakeup'
    BY <1>1, <1>2 DEF Wakes, NoLostWakeup, Waiting
<1> QED
    BY <1>3, <1>4 DEF Wakes

-----------------------------------------------------------------------------
(* No wakeup is lost: App::send and AppTransactor::generate wait on the    *)
(* same condition variable and notify one thread, yet the two never sleep  *)
(* at the same time, nor one when what it waits for holds and nobody is    *)
(* about to notify it.                                                     *)
THEOREM WakeupsKept == Spec => []NoLostWakeup
<1>1. Init => Wakes
    BY DEF Init, Wakes, Waiting, NoLostWakeup
<1>2. Wakes /\ [Next]_vars => Wakes'
    <2> SUFFICES ASSUME Wakes, [Next]_vars PROVE Wakes'
        OBVIOUS
    <2>1. CASE UNCHANGED vars
        <3>1. UNCHANGED <<q, asleep, pc, at, i, done, inFlight>>
            BY <2>1 DEF vars, appVars, linkVars, simVars
        <3> QED
            BY <3>1, Undisturbed
    <2> QED
        BY <2>1, AppStepsWakes, SimulatorStepsWakes, HandleEventWakes, SpuriousWakes DEF Next
<1>3. Wakes => NoLostWakeup
    BY DEF Wakes
<1> QED
    BY <1>1, <1>2, <1>3, PTL DEF Spec
-----------------------------------------------------------------------------
(* The events, and the requests on their way.                              *)

LEMMA Kinds ==
    /\ \A r \in Requests : /\ r \in AppEvent /\ r.cmd \in {"READ", "WRITE"}
                           /\ r.address \in Addrs
                           /\ r.cmd = "WRITE" => r.data \in Values
    /\ \A e \in AppEvent : /\ e \in Requests <=> e.cmd \in {"READ", "WRITE"}
                           /\ e = NOP <=> e.cmd = "NOP"
                           /\ e = DONE <=> e.cmd = "DONE"
                           /\ e.cmd \in {"READ", "WRITE", "NOP", "DONE"}
    /\ NOP \in AppEvent /\ DONE \in AppEvent
    /\ Nothing.rc = "none"
BY DEF Requests, AppEvent, Load, Store, NOP, DONE, Nothing

LEMMA Parameters ==
    /\ MaxOps \in Nat
    /\ maxOpLookup \in Nat /\ reqMaxPerCycle \in Nat /\ NodeSize \in Nat
    /\ Zero \in Values /\ \E a \in Addrs : TRUE
BY AppLinkAssumption DEF Zero

LEMMA WayParts ==
    ASSUME TypeOK
    PROVE  /\ OfQueue \in Seq(Requests) /\ OfApp \in Seq(Requests)
           /\ OfQueue \o OfApp \in Seq(Requests)
           /\ pendingRequests \o (OfQueue \o OfApp) \in Seq(Requests)
           /\ Way \in Seq(Requests) /\ Len(Way) \in Nat /\ DOMAIN Way = 1 .. Len(Way)
           /\ \A n \in DOMAIN Way : Way[n] \in Requests /\ n \in Nat
           /\ Reads \subseteq 1 .. Len(Way)
<1>1. OfQueue \in Seq(Requests) /\ OfApp \in Seq(Requests)
    BY DEF OfQueue, OfApp
<1>2. /\ OfQueue \o OfApp \in Seq(Requests)
      /\ pendingRequests \o (OfQueue \o OfApp) \in Seq(Requests)
      /\ Way \in Seq(Requests)
    BY <1>1, ConcatProperties DEF TypeOK, Way
<1> QED
    BY <1>1, <1>2, SeqParts DEF Reads

(* The way from the application's thread to the pending requests.          *)
LEMMA SameWay ==
    ASSUME UNCHANGED <<inFlight, pendingRequests>>, OfQueue' \o OfApp' = OfQueue \o OfApp
    PROVE  Way' = Way
BY DEF Way

LEMMA SameAnswers ==
    ASSUME IInv, UNCHANGED <<Way, memory, latest, target, loadQ>>,
           Loading' <=> Loading, result' \in {result, Nothing}
    PROVE  StoresSettled' /\ AnswersKept'
<1>1. StoresSettled'
    BY DEF IInv, StoresSettled, Leaves
<1>2. Reads' = Reads
    BY DEF Reads
<1>3. (InTurn' <=> InTurn) /\ (Behindhand' <=> Behindhand)
    BY <1>2 DEF InTurn, Behindhand
<1>4. result'.rc = "ok" => result' = result
    BY Kinds
<1> QED
    BY <1>1, <1>3, <1>4 DEF IInv, AnswersKept

LEMMA WayGrows ==
    ASSUME TypeOK, UNCHANGED <<inFlight, pendingRequests, q>>,
           pc # "send", pc' = "send", event' \in Requests
    PROVE  Way' = Append(Way, event')
<1> DEFINE r == event'
<1>1. OfQueue' = OfQueue /\ OfApp = << >> /\ OfApp' = <<r>>
    BY DEF OfQueue, OfApp
<1>2. /\ OfQueue \in Seq(Requests) /\ OfQueue \o OfApp \in Seq(Requests)
      /\ pendingRequests \o OfQueue \in Seq(Requests)
      /\ pendingRequests \in Seq(Requests) /\ inFlight \in Seq(Requests)
    BY WayParts, ConcatProperties DEF TypeOK
<1> DEFINE s == OfQueue
<1>3. s \in Seq(Requests) /\ <<r>> \in Seq(Requests)
    BY <1>2
<1>4. Way = inFlight \o (pendingRequests \o s)
    BY <1>1, <1>2, ConcatEmptySeq DEF Way
<1>5. Way' = inFlight \o (pendingRequests \o (s \o <<r>>))
    BY <1>1 DEF Way
<1> HIDE DEF s, r
<1>6. (pendingRequests \o s) \o <<r>> = pendingRequests \o (s \o <<r>>)
    BY <1>2, <1>3, ConcatAssociative
<1>7. pendingRequests \o s \in Seq(Requests)
    BY <1>2, <1>3, ConcatProperties
<1>8. (inFlight \o (pendingRequests \o s)) \o <<r>>
        = inFlight \o ((pendingRequests \o s) \o <<r>>)
    <2> DEFINE p == pendingRequests \o s
    <2> HIDE DEF p
    <2>1. p \in Seq(Requests)
        BY <1>7 DEF p
    <2>2. (inFlight \o p) \o <<r>> = inFlight \o (p \o <<r>>)
        BY <1>2, <1>3, <2>1, ConcatAssociative
    <2> QED
        BY <2>2 DEF p
<1>9. Way \in Seq(Requests) /\ r \in Requests
    BY WayParts DEF r
<1>10. Append(Way, r) = Way \o <<r>>
    BY <1>9, AppendIsConcat
<1> QED
    BY <1>4, <1>5, <1>6, <1>8, <1>10 DEF r

(* What a sequence of requests leaves in memory, when one is added.        *)
LEMMA LeavesNext ==
    ASSUME NEW E, NEW F, NEW b, NEW n \in Nat, NEW a, NEW v, NEW w,
           \A j \in 1 .. n : F[j] = E[j],
           Leaves(E, b, n, a, v),
           IF StoresTo(F[n + 1], a) THEN F[n + 1].data = w ELSE w = v
    PROVE  Leaves(F, b, n + 1, a, w)
<1>1. /\ n + 1 \in 1 .. n + 1 /\ \A j \in 1 .. n : j \in 1 .. n + 1
      /\ \A j \in 1 .. n + 1 : j \in 1 .. n \/ j = n + 1
      /\ \A j \in 1 .. n : n + 1 \in j + 1 .. n + 1
      /\ \A j \in 1 .. n : \A k \in j + 1 .. n : k \in j + 1 .. n + 1 /\ k \in 1 .. n
    OBVIOUS
<1>2. CASE StoresTo(F[n + 1], a)
    BY <1>1, <1>2 DEF Leaves
<1>3. CASE ~StoresTo(F[n + 1], a)
    <2>1. v = w
        BY <1>3
    <2>2. (\A j \in 1 .. n + 1 : ~StoresTo(F[j], a)) => b[a] = w
        <3> SUFFICES ASSUME \A j \in 1 .. n + 1 : ~StoresTo(F[j], a) PROVE b[a] = v
            BY <2>1
        <3>1. \A j \in 1 .. n : ~StoresTo(E[j], a)
            BY <1>1
        <3> QED
            BY <3>1 DEF Leaves
    <2>3. ASSUME NEW j \in 1 .. n + 1, StoresTo(F[j], a),
                 \A k \in j + 1 .. n + 1 : ~StoresTo(F[k], a)
          PROVE  F[j].data = w
        <3>1. j \in 1 .. n /\ F[j] = E[j]
            BY <1>1, <1>3, <2>3
        <3>2. \A k \in j + 1 .. n : ~StoresTo(E[k], a)
            BY <3>1, <1>1, <2>3
        <3> QED
            BY <2>1, <2>3, <3>1, <3>2 DEF Leaves
    <2> QED
        BY <2>2, <2>3 DEF Leaves
<1> QED
    BY <1>2, <1>3
-----------------------------------------------------------------------------
(* The application's thread.                                               *)

LEMMA TheAppStep ==
    ASSUME IInv, theApp
    PROVE  IInv'
<1>1. /\ pc = "work" /\ pc' = "send" /\ result' = Nothing
      /\ UNCHANGED <<q, asleep, loadQ, loads, torn, done, at, i,
                     pendingRequests, inFlight, memory, ended>>
    BY DEF theApp, App, linkVars, loadVars, simVars
<1>2. TypeOK
    BY DEF IInv
<1>3. \/ event' \in Requests /\ ops < MaxOps /\ ops' = ops + 1
      \/ event' = DONE /\ UNCHANGED <<ops, target, latest>>
    BY DEF theApp, Requests
<1>4. /\ event' \in AppEvent /\ target' \in Addrs /\ latest' \in [Addrs -> Values]
      /\ event'.cmd = "READ" => target' = event'.address
      /\ IF event'.cmd = "WRITE"
         THEN latest' = [latest EXCEPT ![event'.address] = event'.data] /\ target' = target
         ELSE latest' = latest
    <2>1. latest \in [Addrs -> Values] /\ target \in Addrs
        BY <1>2 DEF TypeOK
    <2>2. CASE \E a \in Addrs : event' = Load(a) /\ target' = a /\ latest' = latest
        BY <2>1, <2>2 DEF AppEvent, Requests, Load
    <2>3. CASE \E a \in Addrs, v \in Values :
                  /\ event' = Store(a, v)
                  /\ latest' = [latest EXCEPT ![a] = v]
                  /\ target' = target
        <3>1. PICK a \in Addrs, v \in Values :
                  /\ event' = Store(a, v)
                  /\ latest' = [latest EXCEPT ![a] = v]
                  /\ target' = target
            BY <2>3
        <3>2. event'.cmd = "WRITE" /\ event'.address = a /\ event'.data = v
            BY <3>1 DEF Store
        <3>3. event' \in AppEvent
            BY <3>1 DEF AppEvent, Requests
        <3> QED
            BY <2>1, <3>1, <3>2, <3>3
    <2>4. CASE event' = DONE /\ UNCHANGED <<target, latest>>
        BY <2>1, <2>4, Kinds DEF DONE
    <2> QED
        BY <2>2, <2>3, <2>4 DEF theApp
<1>5. TypeOK'
    <2>1. ops' \in 0 .. MaxOps
        BY <1>2, <1>3, Parameters DEF TypeOK
    <2>2. result' \in [rc : {"none", "empty", "several"}]
        BY <1>1 DEF Nothing
    <2> QED
        BY <1>1, <1>2, <1>4, <2>1, <2>2 DEF TypeOK
<1>6. event' # NOP
    BY <1>3, Kinds DEF NOP, DONE
<1>7. Places'
    BY <1>1, <1>6 DEF IInv, Places, TornApart
<1>8. ~Loading /\ (Loading' <=> event'.cmd = "READ")
    BY <1>1, <1>4, <1>6, Kinds DEF Loading
<1>9. /\ Way \in Seq(Requests) /\ Len(Way) \in Nat /\ DOMAIN Way = 1 .. Len(Way)
    BY <1>2, WayParts
<1>10. CASE event' \in Requests
    <2>1. Way' = Append(Way, event')
        BY <1>1, <1>2, <1>10, WayGrows
    <2>2. /\ Len(Way') = Len(Way) + 1 /\ DOMAIN Way' = 1 .. Len(Way) + 1
          /\ Way'[Len(Way) + 1] = event'
          /\ \A k \in 1 .. Len(Way) : Way'[k] = Way[k]
        BY <1>9, <1>10, <2>1, OneMore
    <2>3. StoresSettled'
        <3> SUFFICES ASSUME NEW a \in Addrs
                     PROVE  Leaves(Way', memory', Len(Way'), a, latest'[a])
            BY DEF StoresSettled
        <3>1. Leaves(Way, memory, Len(Way), a, latest[a])
            BY DEF IInv, StoresSettled
        <3>2. IF StoresTo(event', a) THEN event'.data = latest'[a] ELSE latest'[a] = latest[a]
            BY <1>2, <1>4, <1>10, Kinds DEF StoresTo, TypeOK
        <3> QED
            BY <1>1, <1>9, <2>2, <3>1, <3>2, LeavesNext
    <2>4. Reads' = Reads \cup (IF event'.cmd = "READ" THEN {Len(Way')} ELSE {})
        BY <1>9, <2>2 DEF Reads
    <2>5. CASE event'.cmd = "READ"
        <3>1. Loading' /\ Reads' = Reads \cup {Len(Way')} /\ Way' # << >>
            BY <1>8, <2>2, <2>4, <2>5, <1>9
        <3>2. InTurn => InTurn'
            BY <1>1, <1>4, <1>8, <2>2, <2>5, <3>1 DEF InTurn
        <3>3. Behindhand => Behindhand'
            <4>1. Len(Way') \notin Reads
                BY <1>2, <1>9, <2>2, WayParts
            <4>2. CASE loadQ # << >>
                BY <1>1, <3>1, <4>2 DEF Behindhand
            <4>3. CASE Reads # {}
                BY <3>1, <4>1, <4>3 DEF Behindhand
            <4> QED
                BY <1>8, <4>2, <4>3 DEF Behindhand
        <3> QED
            BY <1>1, <1>5, <1>7, <2>3, <3>2, <3>3, Kinds DEF IInv, AnswersKept
    <2>6. CASE event'.cmd # "READ"
        <3>1. ~Loading' /\ Reads' = Reads
            BY <1>8, <2>4, <2>6
        <3>2. (InTurn => InTurn') /\ (Behindhand => Behindhand')
            BY <1>1, <1>8, <3>1 DEF InTurn, Behindhand
        <3> QED
            BY <1>1, <1>5, <1>7, <2>3, <3>2, Kinds DEF IInv, AnswersKept
    <2> QED
        BY <2>5, <2>6
<1>11. CASE event' \notin Requests
    <2>1. Way' = Way
        BY <1>1, <1>11, SameWay DEF OfQueue, OfApp
    <2>2. event' = DONE /\ UNCHANGED <<target, latest>>
        BY <1>3, <1>11
    <2>3. ~Loading'
        BY <1>8, <2>2 DEF DONE
    <2> QED
        BY <1>1, <1>5, <1>7, <1>8, <2>1, <2>2, <2>3, SameAnswers DEF IInv
<1> QED
    BY <1>10, <1>11

(* An event of the program goes into the queue: the request on its way     *)
(* that it is stays the last.                                              *)
LEMMA SendStep ==
    ASSUME IInv, send
    PROVE  IInv'
<1>1. /\ pc = "send" /\ pc' = "notify" /\ q = << >> /\ q' = <<event>>
      /\ UNCHANGED <<event, target, result, ops, latest, asleep, loadQ, loads, torn,
                     done, at, i, pendingRequests, inFlight, memory, ended>>
    BY DEF send, App, loadVars, simVars
<1>2. TypeOK /\ event \in AppEvent
    BY DEF IInv, TypeOK
<1>3. q' \in Seq(AppEvent) /\ Len(q') = 1 /\ q' # << >> /\ Head(q') = event
    BY <1>1, <1>2
<1>4. TypeOK'
    BY <1>1, <1>2, <1>3 DEF TypeOK
<1>5. OfQueue' \o OfApp' = OfQueue \o OfApp
    <2>1. OfQueue = << >> /\ OfApp' = << >> /\ OfQueue' = OfApp
        BY <1>1, <1>3 DEF OfQueue, OfApp
    <2>2. OfApp \in Seq(Requests)
        BY <1>2, WayParts
    <2> QED
        BY <2>1, <2>2, ConcatEmptySeq
<1>6. Places'
    BY <1>1, <1>2, <1>3, Kinds DEF IInv, Places, TornApart
<1> QED
    BY <1>1, <1>4, <1>5, <1>6, SameWay, SameAnswers DEF IInv, Loading

LEMMA SendWaitsStep ==
    ASSUME IInv, sendWaits
    PROVE  IInv'
<1>1. /\ asleep' = asleep \cup {"app"}
      /\ UNCHANGED <<pc, event, target, result, ops, latest, q, loadQ, loads, torn,
                     done, at, i, pendingRequests, inFlight, memory, ended>>
    BY DEF sendWaits, App, loadVars, simVars
<1>2. TypeOK'
    BY <1>1 DEF IInv, TypeOK
<1>3. Places' /\ OfQueue' = OfQueue /\ OfApp' = OfApp
    BY <1>1 DEF IInv, Places, TornApart, OfQueue, OfApp
<1> QED
    BY <1>1, <1>2, <1>3, SameWay, SameAnswers DEF IInv, Loading

LEMMA Notified ==
    ASSUME notify_one
    PROVE  asleep' \subseteq asleep
BY DEF notify_one

LEMMA SendNotifiesStep ==
    ASSUME IInv, sendNotifies
    PROVE  IInv'
<1>1. /\ pc = "notify" /\ asleep' \subseteq asleep
      /\ pc' = CASE event.cmd = "WRITE" -> "work" [] event.cmd = "READ" -> "send"
                 [] event.cmd = "NOP" -> "poll" [] event.cmd = "DONE" -> "gone"
      /\ event' = IF event.cmd = "READ" THEN NOP ELSE event
      /\ UNCHANGED <<target, result, ops, latest, q, loadQ, loads, torn,
                     done, at, i, pendingRequests, inFlight, memory, ended>>
    BY Notified DEF sendNotifies, App, loadVars, simVars
<1>2. TypeOK /\ event \in AppEvent
    BY DEF IInv, TypeOK
<1>3. \/ event.cmd = "WRITE" /\ pc' = "work" /\ event' = event
      \/ event.cmd = "READ" /\ pc' = "send" /\ event' = NOP
      \/ event = NOP /\ pc' = "poll" /\ event' = event
      \/ event.cmd = "DONE" /\ pc' = "gone" /\ event' = event
    BY <1>1, <1>2, Kinds
<1>4. TypeOK'
    <2>1. event' \in AppEvent /\ asleep' \subseteq {"app", "simulator"}
        BY <1>1, <1>2, Kinds DEF TypeOK
    <2>2. pc' \in {"work", "send", "poll", "gone"}
        BY <1>3
    <2> QED
        BY <1>1, <1>2, <2>1, <2>2 DEF TypeOK
<1>5. NOP \notin Requests
    BY Kinds DEF NOP
<1>6. OfQueue' = OfQueue /\ OfApp' = OfApp
    BY <1>1, <1>3, <1>5 DEF OfQueue, OfApp
<1>7. Loading' <=> Loading
    BY <1>1, <1>3, Kinds DEF Loading, NOP
<1>8. Places'
    <2>1. event.cmd = "READ" => event # NOP
        BY DEF NOP
    <2>2. event.cmd = "READ" \/ event.cmd # "READ"
        OBVIOUS
    <2> QED
        BY <1>1, <1>3, <2>1, Kinds DEF IInv, Places, TornApart, NOP
<1> QED
    BY <1>1, <1>4, <1>6, <1>7, <1>8, SameWay, SameAnswers DEF IInv

(* What the size of loadQ is taken to be: where the program polls, what is *)
(* torn apart is not empty.                                                *)
LEMMA SizesTaken ==
    ASSUME IInv, pc \in {"poll", "answered", "single"}, NEW n \in Sizes, n # 0
    PROVE  loadQ # << >>
<1>1. CASE torn
    BY <1>1 DEF IInv, Places, TornApart
<1>2. CASE ~torn
    BY <1>2 DEF Sizes
<1> QED
    BY <1>1, <1>2

LEMMA ReceiveStep ==
    ASSUME IInv, receive
    PROVE  IInv'
<1>1. /\ pc \in {"poll", "answered", "single", "empty"} /\ event = NOP
      /\ UNCHANGED <<event, target, ops, latest, q, asleep, loads, torn,
                     done, at, i, pendingRequests, inFlight, memory, ended>>
    BY DEF receive, Looks, Returns, App, linkVars, loadVars, simVars, IInv, Places
<1>2. TypeOK /\ Loading /\ result = Nothing /\ event \notin Requests
    <2>1. event \notin Requests
        BY <1>1, Kinds DEF NOP
    <2> QED
        BY <1>1, <2>1 DEF IInv, Loading, Places
<1>3. OfQueue' = OfQueue /\ OfApp' = OfApp
    BY <1>1, <1>2 DEF OfQueue, OfApp
<1>4. Way' = Way
    BY <1>1, <1>3, SameWay
<1>5. ~(q # << >> /\ Head(q).cmd = "READ")
    BY <1>1 DEF IInv, Places
<1>6. \/ \E n \in Sizes : /\ pc = "poll" /\ result' = result /\ loadQ' = loadQ
                          /\ pc' = IF n = 0 THEN "send" ELSE "answered"
      \/ \E n \in Sizes : /\ pc = "answered" /\ result' = result /\ loadQ' = loadQ
                          /\ pc' = IF n = 0 THEN "empty" ELSE "single"
      \/ /\ pc \in {"empty", "single"} /\ pc' = "work" /\ loadQ' = loadQ
         /\ result' \in {[rc |-> "empty"], [rc |-> "several"]}
      \/ /\ pc = "single" /\ pc' = "work"
         /\ result' = [rc |-> "ok", data |-> Head(loadQ)]
         /\ loadQ' = Tail(loadQ)
    BY DEF receive, Looks, Returns, App, loadVars
<1>7. CASE \E n \in Sizes : /\ pc = "poll" /\ result' = result /\ loadQ' = loadQ
                            /\ pc' = IF n = 0 THEN "send" ELSE "answered"
    <2>1. PICK n \in Sizes : pc' = IF n = 0 THEN "send" ELSE "answered"
        BY <1>7
    <2>2. TypeOK'
        BY <1>1, <1>2, <1>7, <2>1 DEF TypeOK
    <2>3. CASE n = 0
        <3>1. pc' = "send" /\ Loading'
            BY <1>1, <2>1, <2>3 DEF Loading, NOP
        <3>2. torn => loadQ # << >>
            BY <1>7 DEF IInv, Places, TornApart
        <3>3. Places'
            BY <1>1, <1>2, <1>5, <1>7, <3>1, <3>2 DEF IInv, Places, TornApart
        <3> QED
            BY <1>1, <1>2, <1>4, <1>7, <2>2, <3>1, <3>3, SameAnswers DEF IInv
    <2>4. CASE n # 0
        <3>1. pc' = "answered" /\ Loading' /\ loadQ # << >>
            BY <1>7, <2>1, <2>4, SizesTaken DEF Loading
        <3>2. Places'
            BY <1>1, <1>2, <1>5, <1>7, <3>1 DEF IInv, Places
        <3> QED
            BY <1>1, <1>2, <1>4, <1>7, <2>2, <3>1, <3>2, SameAnswers DEF IInv
    <2> QED
        BY <2>3, <2>4
<1>8. CASE \E n \in Sizes : /\ pc = "answered" /\ result' = result /\ loadQ' = loadQ
                            /\ pc' = IF n = 0 THEN "empty" ELSE "single"
    <2>1. pc' \in {"empty", "single"} /\ loadQ # << >> /\ loadQ' = loadQ /\ Loading'
        BY <1>8 DEF IInv, Places, Loading
    <2>2. TypeOK'
        BY <1>1, <1>2, <1>8, <2>1 DEF TypeOK
    <2>3. Places'
        BY <1>1, <1>2, <1>5, <1>8, <2>1 DEF IInv, Places
    <2> QED
        BY <1>1, <1>2, <1>4, <1>8, <2>1, <2>2, <2>3, SameAnswers DEF IInv
<1>9. CASE /\ pc \in {"empty", "single"} /\ pc' = "work" /\ loadQ' = loadQ
           /\ result' \in {[rc |-> "empty"], [rc |-> "several"]}
    <2>1. loadQ # << >> /\ ~Loading'
        BY <1>9 DEF IInv, Places, Loading
    <2>2. TypeOK'
        BY <1>1, <1>2, <1>9 DEF TypeOK
    <2>3. Places'
        BY <1>1, <1>5, <1>9, <2>1 DEF IInv, Places
    <2>4. StoresSettled'
        BY <1>1, <1>4 DEF IInv, StoresSettled, Leaves
    <2>5. Behindhand' /\ ~InTurn'
        BY <1>9, <2>1 DEF Behindhand, InTurn
    <2> QED
        BY <2>2, <2>3, <2>4, <2>5 DEF IInv, AnswersKept
<1>10. CASE /\ pc = "single" /\ pc' = "work"
            /\ result' = [rc |-> "ok", data |-> Head(loadQ)]
            /\ loadQ' = Tail(loadQ)
    <2>1. loadQ # << >> /\ ~Loading' /\ loadQ \in Seq(Values)
        BY <1>2, <1>10 DEF IInv, Places, Loading, TypeOK
    <2>2. Head(loadQ) \in Values /\ Tail(loadQ) \in Seq(Values)
          /\ Len(Tail(loadQ)) = Len(loadQ) - 1 /\ Len(loadQ) \in Nat
        BY <2>1, HeadTailProperties, LenProperties
    <2>3. TypeOK'
        BY <1>1, <1>2, <1>10, <2>2 DEF TypeOK
    <2>4. Places'
        BY <1>1, <1>5, <1>10, <2>1 DEF IInv, Places, TornApart
    <2>5. StoresSettled'
        BY <1>1, <1>4 DEF IInv, StoresSettled, Leaves
    <2>6. Reads' = Reads
        BY <1>4 DEF Reads
    <2>7. CASE InTurn
        <3>1. loadQ = <<latest[target]>> /\ Reads = {}
            BY <1>2, <2>1, <2>7 DEF InTurn
        <3>2. loadQ' = << >> /\ result'.data = latest'[target']
            BY <1>1, <1>10, <3>1
        <3>3. InTurn'
            BY <2>1, <2>6, <3>1, <3>2 DEF InTurn
        <3> QED
            BY <2>3, <2>4, <2>5, <3>2, <3>3 DEF IInv, AnswersKept
    <2>8. CASE Behindhand
        <3>1. Reads # {} \/ Len(loadQ) >= 2
            BY <1>2, <2>8 DEF Behindhand
        <3>2. Len(loadQ) >= 2 => loadQ' # << >>
            <4>1. Len(loadQ') = Len(loadQ) - 1 /\ Len(loadQ) \in Nat
                BY <1>10, <2>2
            <4>2. Len(loadQ) >= 2 => Len(loadQ') # 0
                BY <4>1
            <4>3. loadQ' = << >> => Len(loadQ') = 0
                OBVIOUS
            <4> QED
                BY <4>2, <4>3
        <3>3. Behindhand' /\ ~InTurn'
            BY <2>1, <2>6, <3>1, <3>2 DEF Behindhand, InTurn
        <3> QED
            BY <2>3, <2>4, <2>5, <3>3 DEF IInv, AnswersKept
    <2> QED
        BY <2>7, <2>8 DEF IInv, AnswersKept
<1> QED
    BY <1>6, <1>7, <1>8, <1>9, <1>10

-----------------------------------------------------------------------------
(* The simulator's thread.                                                 *)

LEMMA ClockTickStep ==
    ASSUME IInv, clockTick
    PROVE  IInv'
<1>1. /\ pc' = (IF pc = "unborn" THEN "work" ELSE pc) /\ at = "idle"
      /\ at' \in {"idle", "generate"} /\ ended' \in {TRUE, ended}
      /\ i' = i \/ i' = Len(pendingRequests)
      /\ at' = "generate" => i' = Len(pendingRequests)
      /\ UNCHANGED <<event, target, result, ops, latest, q, asleep, loadQ, loads, torn,
                     done, pendingRequests, inFlight, memory>>
    BY DEF clockTick, Simulator, linkVars, loadVars, firstNew
<1>2. TypeOK
    BY DEF IInv
<1>3. TypeOK'
    <2>1. i' \in 0 .. maxOpLookup
        BY <1>1, <1>2, Parameters DEF TypeOK
    <2>2. pc' \in {"unborn", "work", "send", "notify", "poll", "answered", "empty",
                   "single", "gone"}
        BY <1>1, <1>2 DEF TypeOK
    <2> QED
        BY <1>1, <1>2, <2>1, <2>2 DEF TypeOK
<1>4. (Loading' <=> Loading) /\ OfQueue' = OfQueue /\ OfApp' = OfApp
    BY <1>1 DEF Loading, OfQueue, OfApp
<1>5. Len(pendingRequests) <= Len(pendingRequests)
    BY <1>2 DEF TypeOK
<1>6. Places'
    BY <1>1, <1>5 DEF IInv, Places, TornApart
<1> QED
    BY <1>1, <1>3, <1>4, <1>6, SameWay, SameAnswers DEF IInv

(* The event at the head of the queue goes behind the pending requests.    *)
LEMMA GenerateStep ==
    ASSUME IInv, generate
    PROVE  IInv'
<1> DEFINE h == Head(q)
<1>1. /\ at = "generate" /\ at' = "notify" /\ q # << >> /\ q' = Tail(q)
      /\ i < maxOpLookup /\ done' = (h = DONE)
      /\ pendingRequests' = IF h \in Requests THEN Append(pendingRequests, h)
                                              ELSE pendingRequests
      /\ UNCHANGED <<pc, event, target, result, ops, latest, asleep, loadQ, loads, torn,
                     i, inFlight, memory, ended>>
    BY DEF generate, generating, Simulator, appVars, loadVars
<1>2. TypeOK
    BY DEF IInv
<1>3. q' = << >>
    <2>1. q \in Seq(AppEvent) /\ Len(q) <= 1 /\ Len(q) \in Nat
        BY <1>2, LenProperties DEF TypeOK
    <2>2. q' \in Seq(AppEvent) /\ Len(q') = Len(q) - 1 /\ Len(q') \in Nat
        BY <1>1, <2>1, HeadTailProperties, LenProperties
    <2>3. Len(q') = 0
        BY <2>1, <2>2
    <2> QED
        BY <2>2, <2>3, EmptySeq
<1> HIDE DEF h
<1>4. /\ pendingRequests' \in Seq(Requests) /\ Len(pendingRequests') <= i + 1
      /\ Len(pendingRequests') \in Nat
    <2>1. /\ pendingRequests \in Seq(Requests) /\ Len(pendingRequests) \in Nat
          /\ Len(pendingRequests) <= i /\ i \in Nat
        BY <1>1, <1>2, Parameters, LenProperties DEF TypeOK, IInv, Places
    <2>2. CASE h \in Requests
        BY <1>1, <2>1, <2>2, AppendProperties
    <2>3. CASE h \notin Requests
        BY <1>1, <2>1, <2>3
    <2> QED
        BY <2>2, <2>3
<1>5. TypeOK'
    <2>1. Len(pendingRequests') <= maxOpLookup
        BY <1>1, <1>2, <1>4, Parameters DEF TypeOK
    <2>2. q' \in Seq(AppEvent) /\ Len(q') <= 1
        BY <1>3
    <2> QED
        BY <1>1, <1>2, <1>4, <2>1, <2>2 DEF TypeOK
<1>6. Places'
    BY <1>1, <1>3, <1>4 DEF IInv, Places
<1>7. Way' = Way
    <2>1. /\ OfQueue' = << >> /\ OfApp' = OfApp
          /\ OfQueue = IF h \in Requests THEN <<h>> ELSE << >>
        BY <1>1, <1>3 DEF OfQueue, OfApp, h
    <2> DEFINE s == OfApp
    <2>2. s \in Seq(Requests) /\ pendingRequests \in Seq(Requests)
        BY <1>2, WayParts DEF TypeOK
    <2>3. Way' = inFlight \o (pendingRequests' \o s) /\ Way = inFlight \o (pendingRequests \o (OfQueue \o s))
        BY <1>1, <2>1, <2>2, ConcatEmptySeq DEF Way
    <2> HIDE DEF s
    <2>4. CASE h \in Requests
        <3>1. pendingRequests' = pendingRequests \o <<h>> /\ <<h>> \in Seq(Requests)
            BY <1>1, <2>2, <2>4, AppendIsConcat
        <3>2. (pendingRequests \o <<h>>) \o s = pendingRequests \o (<<h>> \o s)
            BY <2>2, <3>1, ConcatAssociative
        <3> QED
            BY <2>1, <2>3, <2>4, <3>1, <3>2
    <2>5. CASE h \notin Requests
        <3>1. OfQueue \o s = s
            BY <2>1, <2>2, <2>5, ConcatEmptySeq
        <3> QED
            BY <1>1, <2>3, <2>5, <3>1
    <2> QED
        BY <2>4, <2>5
<1> QED
    BY <1>1, <1>5, <1>6, <1>7, SameAnswers DEF IInv, Loading

LEMMA GenerateWaitsStep ==
    ASSUME IInv, generateWaits
    PROVE  IInv'
<1>1. /\ asleep' = asleep \cup {"simulator"} /\ at' = at
      /\ UNCHANGED <<pc, event, target, result, ops, latest, q, loadQ, loads, torn,
                     done, i, pendingRequests, inFlight, memory, ended>>
    BY DEF generateWaits, Simulator, appVars, loadVars
<1>2. TypeOK'
    BY <1>1 DEF IInv, TypeOK
<1>3. Places' /\ OfQueue' = OfQueue /\ OfApp' = OfApp
    BY <1>1 DEF IInv, Places, TornApart, OfQueue, OfApp
<1> QED
    BY <1>1, <1>2, <1>3, SameWay, SameAnswers DEF IInv, Loading

LEMMA GenerateNotifiesStep ==
    ASSUME IInv, generateNotifies
    PROVE  IInv'
<1>1. /\ asleep' \subseteq asleep /\ at = "notify" /\ at' = "generate" /\ i' = i + 1
      /\ UNCHANGED <<pc, event, target, result, ops, latest, q, loadQ, loads, torn,
                     done, pendingRequests, inFlight, memory, ended>>
    BY Notified DEF generateNotifies, Simulator, appVars, loadVars
<1>2. i < maxOpLookup /\ Len(pendingRequests) <= i + 1
    BY <1>1 DEF IInv, Places
<1>3. TypeOK'
    <2>1. i' \in 0 .. maxOpLookup
        BY <1>1, <1>2, Parameters DEF IInv, TypeOK
    <2> QED
        BY <1>1, <2>1 DEF IInv, TypeOK
<1>4. Places' /\ OfQueue' = OfQueue /\ OfApp' = OfApp
    BY <1>1, <1>2 DEF IInv, Places, TornApart, OfQueue, OfApp
<1> QED
    BY <1>1, <1>3, <1>4, SameWay, SameAnswers DEF IInv, Loading

LEMMA Issued ==
    ASSUME TypeOK
    PROVE  issued \in 0 .. Len(pendingRequests)
<1> DEFINE T == {n \in 0 .. Len(pendingRequests) :
                     n <= reqMaxPerCycle /\ \A j \in 1 .. n : HasSlot(j)}
<1>1. Len(pendingRequests) \in Nat
    BY LenProperties DEF TypeOK
<1>2. 0 \in T
    BY <1>1, Parameters
<1>3. T \in SUBSET (0 .. Len(pendingRequests)) /\ T # {}
    BY <1>2
<1>4. issued = Max(T)
    BY DEF issued
<1> HIDE DEF T
<1>5. Max(T) \in T
    BY <1>1, <1>3, MaxGreatest
<1> QED
    BY <1>3, <1>4, <1>5

(* The first of the pending requests go behind those in flight.            *)
LEMMA IssueStep ==
    ASSUME IInv, issue
    PROVE  IInv'
<1> DEFINE front == SubSeq(pendingRequests, 1, issued)
           back == SubSeq(pendingRequests, issued + 1, Len(pendingRequests))
<1>1. /\ inFlight' = inFlight \o front /\ pendingRequests' = back
      /\ at = "generate" /\ at' = "idle"
      /\ UNCHANGED <<pc, event, target, result, ops, latest, q, asleep, loadQ, loads, torn,
                     done, i, memory, ended>>
    BY DEF issue, Simulator, appVars, linkVars, loadVars
<1>2. TypeOK
    BY DEF IInv
<1>3. /\ Len(pendingRequests) \in Nat /\ issued \in 0 .. Len(pendingRequests)
      /\ \A n \in 1 .. Len(pendingRequests) : pendingRequests[n] \in Requests
      /\ pendingRequests \in Seq(Requests) /\ inFlight \in Seq(Requests)
    BY <1>2, Issued, SeqParts DEF TypeOK
<1>4. front \in Seq(Requests)
    <2>1. \A n \in 1 .. issued : pendingRequests[n] \in Requests
        BY <1>3
    <2> QED
        BY <1>3, <2>1, SubSeqProperties
<1>5. back \in Seq(Requests) /\ Len(back) <= Len(pendingRequests) /\ Len(back) \in Nat
    <2>1. \A n \in issued + 1 .. Len(pendingRequests) : pendingRequests[n] \in Requests
        BY <1>3
    <2>2. back \in Seq(Requests) /\ Len(back) = IF issued + 1 <= Len(pendingRequests)
                                     THEN Len(pendingRequests) - (issued + 1) + 1 ELSE 0
        BY <1>3, <2>1, SubSeqProperties
    <2> HIDE DEF back
    <2> QED
        BY <1>3, <2>2
<1>6. front \o back = pendingRequests
    <2>1. SubSeq(pendingRequests, 1, Len(pendingRequests)) = pendingRequests
        BY <1>3, SubSeqFull
    <2>2. /\ 1 \in 1 .. Len(pendingRequests) + 1 /\ issued \in 1 - 1 .. Len(pendingRequests)
          /\ Len(pendingRequests) \in issued .. Len(pendingRequests)
        BY <1>3
    <2> QED
        BY <1>3, <2>1, <2>2, ConcatAdjacentSubSeq
<1> HIDE DEF front, back
<1>7. inFlight' \in Seq(Requests)
    BY <1>1, <1>3, <1>4, ConcatProperties
<1>8. TypeOK'
    <2>1. Len(pendingRequests') <= maxOpLookup
        BY <1>1, <1>2, <1>3, <1>5, Parameters DEF TypeOK
    <2> QED
        BY <1>1, <1>2, <1>5, <1>7, <2>1 DEF TypeOK
<1>9. Places'
    BY <1>1 DEF IInv, Places
<1>10. Way' = Way
    <2> DEFINE s == OfQueue \o OfApp
    <2>1. s \in Seq(Requests)
        BY <1>2, WayParts
    <2>2. OfQueue' = OfQueue /\ OfApp' = OfApp
        BY <1>1 DEF OfQueue, OfApp
    <2>3. Way' = (inFlight \o front) \o (back \o s) /\ Way = inFlight \o (pendingRequests \o s)
        BY <1>1, <2>2 DEF Way
    <2> HIDE DEF s
    <2> DEFINE r == back \o s
    <2>4. r \in Seq(Requests)
        BY <1>5, <2>1, ConcatProperties
    <2>5. (front \o back) \o s = front \o r
        BY <1>4, <1>5, <2>1, ConcatAssociative
    <2> HIDE DEF r
    <2>6. (inFlight \o front) \o r = inFlight \o (front \o r)
        BY <1>3, <1>4, <2>4, ConcatAssociative
    <2> QED
        BY <1>6, <2>3, <2>5, <2>6 DEF r
<1> QED
    BY <1>1, <1>8, <1>9, <1>10, SameAnswers DEF IInv, Loading

LEMMA PushedStep ==
    ASSUME IInv, pushed
    PROVE  IInv'
<1>1. /\ at' = "idle" /\ torn' = FALSE
      /\ UNCHANGED <<pc, event, target, result, ops, latest, q, asleep, loadQ, loads,
                     done, i, pendingRequests, inFlight, memory, ended>>
    BY DEF pushed, appVars, linkVars
<1>2. TypeOK'
    BY <1>1 DEF IInv, TypeOK
<1>3. Places' /\ OfQueue' = OfQueue /\ OfApp' = OfApp
    BY <1>1 DEF IInv, Places, OfQueue, OfApp
<1> QED
    BY <1>1, <1>2, <1>3, SameWay, SameAnswers DEF IInv, Loading

LEMMA SpuriousStep ==
    ASSUME IInv, spurious
    PROVE  IInv'
<1>1. /\ asleep' \subseteq asleep
      /\ UNCHANGED <<pc, event, target, result, ops, latest, q, loadQ, loads, torn,
                     done, at, i, pendingRequests, inFlight, memory, ended>>
    BY DEF spurious, appVars, loadVars, simVars
<1>2. TypeOK'
    BY <1>1 DEF IInv, TypeOK
<1>3. Places' /\ OfQueue' = OfQueue /\ OfApp' = OfApp
    BY <1>1 DEF IInv, Places, TornApart, OfQueue, OfApp
<1> QED
    BY <1>1, <1>2, <1>3, SameWay, SameAnswers DEF IInv, Loading

-----------------------------------------------------------------------------
(* Memory answers.                                                         *)

(* The k-th of N is done, before which there was none for its address.     *)
LEMMA LeavesDone ==
    ASSUME NEW E, NEW F, NEW b, NEW c, NEW N \in Nat, NEW k \in 1 .. N, NEW a, NEW v,
           \A j \in 1 .. N - 1 : F[j] = IF j < k THEN E[j] ELSE E[j + 1],
           c[a] = IF StoresTo(E[k], a) THEN E[k].data ELSE b[a],
           StoresTo(E[k], a) => \A j \in 1 .. k - 1 : ~StoresTo(E[j], a),
           Leaves(E, b, N, a, v)
    PROVE  Leaves(F, c, N - 1, a, v)
<1>1. ASSUME NEW j \in 1 .. N, j # k
      PROVE  IF j < k THEN j \in 1 .. N - 1 /\ F[j] = E[j]
                      ELSE j - 1 \in 1 .. N - 1 /\ F[j - 1] = E[j]
    <2>1. CASE j < k
        BY <2>1
    <2>2. CASE ~(j < k)
        <3>1. j - 1 \in 1 .. N - 1 /\ ~(j - 1 < k) /\ j - 1 + 1 = j
            BY <1>1, <2>2
        <3>2. F[j - 1] = E[j - 1 + 1]
            BY <3>1
        <3> QED
            BY <2>2, <3>1, <3>2
    <2> QED
        BY <2>1, <2>2
<1>2. ASSUME \A j \in 1 .. N - 1 : ~StoresTo(F[j], a)
      PROVE  c[a] = v
    <2>1. ASSUME NEW j \in 1 .. N, j # k PROVE ~StoresTo(E[j], a)
        BY <1>1, <1>2, <2>1
    <2>2. \A n \in k + 1 .. N : n \in 1 .. N /\ n # k
        OBVIOUS
    <2>3. CASE StoresTo(E[k], a)
        BY <2>1, <2>2, <2>3 DEF Leaves
    <2>4. CASE ~StoresTo(E[k], a)
        BY <2>1, <2>4 DEF Leaves
    <2> QED
        BY <2>3, <2>4
<1>3. ASSUME NEW j \in 1 .. N - 1, StoresTo(F[j], a),
             \A n \in j + 1 .. N - 1 : ~StoresTo(F[n], a)
      PROVE  F[j].data = v
    <2> DEFINE m == IF j < k THEN j ELSE j + 1
    <2>1. m \in 1 .. N /\ m # k /\ F[j] = E[m]
        OBVIOUS
    <2>2. ASSUME NEW n \in m + 1 .. N PROVE ~StoresTo(E[n], a)
        <3>1. CASE n # k
            <4>1. n \in 1 .. N
                BY <2>1
            <4>2. CASE n < k
                <5>1. n \in j + 1 .. N - 1
                    BY <4>2
                <5> QED
                    BY <1>1, <1>3, <3>1, <4>1, <4>2, <5>1
            <4>3. CASE ~(n < k)
                <5>1. n - 1 \in j + 1 .. N - 1
                    BY <3>1, <4>3
                <5>2. F[n - 1] = E[n]
                    BY <1>1, <3>1, <4>1, <4>3
                <5> QED
                    BY <1>3, <5>1, <5>2
            <4> QED
                BY <4>2, <4>3
        <3>2. CASE n = k
            <4>1. m \in 1 .. k - 1
                BY <2>1, <3>2
            <4> QED
                BY <1>3, <2>1, <3>2, <4>1
        <3> QED
            BY <3>1, <3>2
    <2> HIDE DEF m
    <2> QED
        BY <1>3, <2>1, <2>2 DEF Leaves
<1> QED
    BY <1>2, <1>3 DEF Leaves

(* The loads on their way, when the k-th request is done.                  *)
LEMMA ReadsDone ==
    ASSUME TypeOK, NEW k \in DOMAIN Way, Way' = RemoveAt(Way, k)
    PROVE  /\ \A n \in Reads \ {k} : (IF n < k THEN n ELSE n - 1) \in Reads'
           /\ \A n \in Reads' : (IF n < k THEN n ELSE n + 1) \in Reads \ {k}
<1>1. /\ Len(Way) \in Nat /\ DOMAIN Way = 1 .. Len(Way) /\ k \in 1 .. Len(Way)
      /\ DOMAIN Way' = 1 .. Len(Way) - 1
      /\ \A j \in 1 .. Len(Way) - 1 : Way'[j] = IF j < k THEN Way[j] ELSE Way[j + 1]
    BY WayParts, WithoutOne
<1>2. ASSUME NEW n \in Reads \ {k}
      PROVE  (IF n < k THEN n ELSE n - 1) \in Reads'
    <2>1. n \in 1 .. Len(Way) /\ Way[n].cmd = "READ" /\ n # k
        BY <1>1 DEF Reads
    <2>2. CASE n < k
        BY <1>1, <2>1, <2>2 DEF Reads
    <2>3. CASE ~(n < k)
        <3>1. n - 1 \in 1 .. Len(Way) - 1 /\ ~(n - 1 < k) /\ n - 1 + 1 = n
            BY <1>1, <2>1, <2>3
        <3>2. Way'[n - 1] = Way[n - 1 + 1]
            BY <1>1, <3>1
        <3> QED
            BY <1>1, <2>1, <2>3, <3>1, <3>2 DEF Reads
    <2> QED
        BY <2>2, <2>3
<1>3. ASSUME NEW n \in Reads'
      PROVE  (IF n < k THEN n ELSE n + 1) \in Reads \ {k}
    <2>1. n \in 1 .. Len(Way) - 1 /\ Way'[n].cmd = "READ"
        BY <1>1 DEF Reads
    <2> QED
        BY <1>1, <2>1 DEF Reads
<1> QED
    BY <1>2, <1>3

(* An answer takes the k-th request in flight off the way.                 *)
LEMMA AnsweredParts ==
    ASSUME IInv, NEW k \in DOMAIN inFlight, handleEvent(k)
    PROVE  /\ at = "idle" /\ torn = FALSE /\ (at' = IF torn' THEN "push" ELSE "idle")
           /\ inFlight' \in Seq(Requests) /\ k \in DOMAIN Way /\ Way' = RemoveAt(Way, k)
           /\ Way[k] \in Requests
           /\ \A j \in 1 .. k - 1 : Way[j].address # Way[k].address
           /\ IF Way[k].cmd = "WRITE"
              THEN /\ memory' = [memory EXCEPT ![Way[k].address] = Way[k].data]
                   /\ UNCHANGED <<loadQ, loads, torn>>
              ELSE /\ loadQ' = Append(loadQ, memory[Way[k].address])
                   /\ loads' = loads + 1 /\ torn' \in BOOLEAN /\ memory' = memory
           /\ UNCHANGED <<pc, event, target, result, ops, latest, q, asleep,
                          done, i, pendingRequests, ended>>
<1>1. /\ at = "idle" /\ torn = FALSE /\ (at' = IF torn' THEN "push" ELSE "idle")
      /\ MayAnswer(k) /\ inFlight' = RemoveAt(inFlight, k)
      /\ \/ /\ inFlight[k].cmd = "WRITE"
            /\ memory' = [memory EXCEPT ![inFlight[k].address] = inFlight[k].data]
            /\ UNCHANGED <<loadQ, loads, torn>>
         \/ /\ inFlight[k].cmd = "READ"
            /\ loadQ' = Append(loadQ, memory[inFlight[k].address])
            /\ loads' = loads + 1 /\ torn' \in BOOLEAN /\ memory' = memory
      /\ UNCHANGED <<pc, event, target, result, ops, latest, q, asleep,
                     done, i, pendingRequests, ended>>
    <2>1. at = "idle" /\ ~torn
        BY DEF handleEvent
    <2>2. torn = FALSE
        BY <2>1 DEF IInv, TypeOK
    <2> QED
        BY <2>1, <2>2 DEF handleEvent, appVars, linkVars, loadVars
<1>2. /\ inFlight \in Seq(Requests) /\ Len(inFlight) \in Nat
      /\ DOMAIN inFlight = 1 .. Len(inFlight) /\ inFlight[k] \in Requests
    BY SeqParts DEF IInv, TypeOK
<1> DEFINE rest == pendingRequests \o (OfQueue \o OfApp)
<1>3. rest \in Seq(Requests) /\ Way = inFlight \o rest
    BY WayParts DEF IInv, Way
<1>4. Way' = inFlight' \o rest
    <2>1. OfQueue' = OfQueue /\ OfApp' = OfApp
        BY <1>1 DEF OfQueue, OfApp
    <2> QED
        BY <1>1, <2>1 DEF Way
<1> HIDE DEF rest
<1>5. Way' = RemoveAt(Way, k) /\ inFlight' \in Seq(Requests)
    BY <1>1, <1>2, <1>3, <1>4, OutOfTheFront, WithoutOne
<1>6. \A j \in DOMAIN inFlight : j \in DOMAIN Way /\ Way[j] = inFlight[j]
    BY <1>2, <1>3, Behind
<1>7. \A j \in 1 .. k - 1 : j \in DOMAIN inFlight
    BY <1>2
<1>8. \A j \in 1 .. k - 1 : Way[j].address # Way[k].address
    BY <1>1, <1>6, <1>7 DEF MayAnswer
<1>9. Way[k] = inFlight[k] /\ k \in DOMAIN Way
    BY <1>6
<1> QED
    BY <1>1, <1>2, <1>5, <1>8, <1>9, Kinds

LEMMA HandleEventStores ==
    ASSUME IInv, NEW k \in DOMAIN inFlight, handleEvent(k)
    PROVE  StoresSettled'
<1>1. TypeOK
    BY DEF IInv
<1>2. /\ Len(Way) \in Nat /\ k \in 1 .. Len(Way) /\ Way' = RemoveAt(Way, k)
      /\ Way \in Seq(Requests) /\ k \in DOMAIN Way
    BY <1>1, AnsweredParts, WayParts
<1>3. /\ Len(Way') = Len(Way) - 1
      /\ \A j \in 1 .. Len(Way) - 1 : Way'[j] = IF j < k THEN Way[j] ELSE Way[j + 1]
    BY <1>2, WithoutOne
<1> SUFFICES ASSUME NEW a \in Addrs
             PROVE  Leaves(Way', memory', Len(Way) - 1, a, latest[a])
    BY <1>3, AnsweredParts DEF StoresSettled
<1>4. Leaves(Way, memory, Len(Way), a, latest[a])
    BY DEF IInv, StoresSettled
<1>5. memory'[a] = IF StoresTo(Way[k], a) THEN Way[k].data ELSE memory[a]
    <2>1. Way[k] \in Requests /\ memory \in [Addrs -> Values]
        BY <1>1, AnsweredParts DEF TypeOK
    <2> QED
        BY <2>1, AnsweredParts, Kinds DEF StoresTo
<1>6. StoresTo(Way[k], a) => \A j \in 1 .. k - 1 : ~StoresTo(Way[j], a)
    BY AnsweredParts DEF StoresTo
<1> QED
    BY <1>2, <1>3, <1>4, <1>5, <1>6, LeavesDone

LEMMA HandleEventAnswers ==
    ASSUME IInv, NEW k \in DOMAIN inFlight, handleEvent(k)
    PROVE  AnswersKept'
<1>1. TypeOK
    BY DEF IInv
<1>2. /\ Len(Way) \in Nat /\ k \in 1 .. Len(Way) /\ Way' = RemoveAt(Way, k)
      /\ Way \in Seq(Requests) /\ k \in DOMAIN Way /\ Way[k] \in Requests
      /\ DOMAIN Way = 1 .. Len(Way) /\ k \in Nat
    BY <1>1, AnsweredParts, WayParts
<1>3. /\ Len(Way') = Len(Way) - 1
      /\ \A j \in 1 .. Len(Way) - 1 : Way'[j] = IF j < k THEN Way[j] ELSE Way[j + 1]
    BY <1>2, WithoutOne
<1>4. /\ \A n \in Reads \ {k} : (IF n < k THEN n ELSE n - 1) \in Reads'
      /\ \A n \in Reads' : (IF n < k THEN n ELSE n + 1) \in Reads \ {k}
    BY <1>1, <1>2, ReadsDone
<1>5. Reads \subseteq 1 .. Len(Way)
    BY <1>1, WayParts
<1>6. (Loading' <=> Loading) /\ UNCHANGED <<pc, target, result, latest>>
    BY AnsweredParts DEF Loading
<1>7. result.rc = "ok" => ~Loading
    BY Kinds DEF IInv, Places, Loading
<1>8. CASE Way[k].cmd = "WRITE"
    <2>1. loadQ' = loadQ /\ k \notin Reads
        BY <1>8, AnsweredParts DEF Reads
    <2>2. (Reads' = {}) <=> (Reads = {})
        BY <1>4, <2>1
    <2>3. InTurn => InTurn'
        <3>1. CASE Way # << >> /\ Reads = {Len(Way)} /\ Way[Len(Way)].address = target
            <4>1. Len(Way) \in Reads /\ k # Len(Way)
                BY <2>1, <3>1
            <4>2. k < Len(Way) /\ Len(Way) - 1 \in 1 .. Len(Way) - 1
                  /\ ~(Len(Way) - 1 < k) /\ Len(Way) - 1 + 1 = Len(Way)
                BY <1>2, <4>1
            <4>3. Way'[Len(Way) - 1] = Way[Len(Way)]
                <5>1. Way'[Len(Way) - 1] = Way[Len(Way) - 1 + 1]
                    BY <1>3, <4>2
                <5> QED
                    BY <4>2, <5>1
            <4>4. Reads' = {Len(Way) - 1}
                <5>1. Len(Way) - 1 \in Reads'
                    BY <1>4, <4>1, <4>2
                <5>2. ASSUME NEW n \in Reads' PROVE n = Len(Way) - 1
                    <6>1. (IF n < k THEN n ELSE n + 1) = Len(Way) /\ n \in 1 .. Len(Way')
                        BY <1>4, <3>1 DEF Reads
                    <6> QED
                        BY <1>3, <4>2, <6>1
                <5> QED
                    BY <5>1, <5>2
            <4>5. Way' # << >>
                <5>1. Len(Way') # 0
                    BY <1>3, <4>2
                <5> QED
                    BY <5>1
            <4> QED
                BY <1>3, <1>6, <2>1, <3>1, <4>1, <4>3, <4>4, <4>5 DEF InTurn
        <3> QED
            BY <1>6, <2>1, <2>2, <3>1 DEF InTurn
    <2>4. Behindhand => Behindhand'
        <3>1. ASSUME NEW m \in Reads, NEW n \in Reads, m # n
              PROVE  \E o, p \in Reads' : o # p
            <4>1. /\ (IF m < k THEN m ELSE m - 1) \in Reads'
                  /\ (IF n < k THEN n ELSE n - 1) \in Reads'
                  /\ m # k /\ n # k
                BY <1>4, <2>1
            <4>2. (IF m < k THEN m ELSE m - 1) # (IF n < k THEN n ELSE n - 1)
                BY <1>2, <1>5, <3>1, <4>1
            <4> QED
                BY <4>1, <4>2
        <3> QED
            BY <1>6, <2>1, <2>2, <3>1 DEF Behindhand
    <2>5. InTurn' /\ ~Loading => InTurn
        BY <1>6, <2>1, <2>2 DEF InTurn
    <2> QED
        BY <1>6, <1>7, <2>3, <2>4, <2>5 DEF IInv, AnswersKept
<1>9. CASE Way[k].cmd # "WRITE"
    <2>1. /\ Way[k].cmd = "READ" /\ k \in Reads
          /\ loadQ' = Append(loadQ, memory[Way[k].address])
        BY <1>2, <1>9, AnsweredParts, Kinds DEF Reads
    <2>2. /\ loadQ \in Seq(Values) /\ memory[Way[k].address] \in Values /\ Len(loadQ) \in Nat
        BY <1>1, <1>2, Kinds, LenProperties DEF TypeOK
    <2>3. Len(loadQ') = Len(loadQ) + 1 /\ loadQ' # << >>
        BY <2>1, <2>2, AppendProperties
    <2>4. CASE ~Loading
        BY <1>6, <2>3, <2>4 DEF AnswersKept, InTurn, Behindhand
    <2>5. CASE Loading /\ InTurn
        <3>1. /\ loadQ = << >> /\ Reads = {Len(Way)} /\ Way[Len(Way)].address = target
            BY <2>1, <2>5 DEF InTurn
        <3>2. k = Len(Way)
            BY <2>1, <3>1
        <3>3. \A j \in 1 .. Len(Way) : ~StoresTo(Way[j], target)
            <4> SUFFICES ASSUME NEW j \in 1 .. Len(Way) PROVE ~StoresTo(Way[j], target)
                OBVIOUS
            <4>1. CASE j = k
                BY <1>9, <4>1 DEF StoresTo
            <4>2. CASE j # k
                <5> DEFINE N == Len(Way)
                <5>1. N \in Nat /\ k = N /\ j \in 1 .. N
                    BY <1>2, <3>2
                <5> HIDE DEF N
                <5>2. j \in 1 .. k - 1
                    BY <4>2, <5>1
                <5> QED
                    BY <3>1, <3>2, <5>2, AnsweredParts DEF StoresTo
            <4> QED
                BY <4>1, <4>2
        <3>4. memory[target] = latest[target]
            BY <1>1, <3>3 DEF IInv, TypeOK, StoresSettled, Leaves
        <3>5. loadQ' = <<latest[target]>>
            BY <2>1, <3>1, <3>2, <3>4
        <3>6. Reads' = {}
            BY <1>4, <3>1, <3>2
        <3> QED
            BY <1>6, <1>7, <2>5, <3>5, <3>6 DEF AnswersKept, InTurn
    <2>6. CASE Loading /\ Behindhand
        <3>1. ASSUME NEW n \in Reads, n # k PROVE Reads' # {}
            BY <1>4, <3>1
        <3>2. CASE loadQ # << >>
            <4>1. Len(loadQ) # 0
                BY <2>2, <3>2, EmptySeq
            <4>2. Len(loadQ') >= 2
                BY <2>2, <2>3, <4>1
            <4> QED
                BY <1>6, <1>7, <2>6, <4>2 DEF AnswersKept, Behindhand
        <3>3. CASE loadQ = << >>
            <4>1. PICK m \in Reads, n \in Reads : m # n
                <5>1. ~(Len(loadQ) >= 2)
                    BY <3>3
                <5> QED
                    BY <2>6, <3>3, <5>1 DEF Behindhand
            <4>2. Reads' # {}
                BY <3>1, <4>1
            <4> QED
                BY <1>6, <1>7, <2>3, <2>6, <4>2 DEF AnswersKept, Behindhand
        <3> QED
            BY <3>2, <3>3
    <2> QED
        BY <2>4, <2>5, <2>6 DEF IInv, AnswersKept
<1> QED
    BY <1>8, <1>9

LEMMA HandleEventStep ==
    ASSUME IInv, NEW k \in DOMAIN inFlight, handleEvent(k)
    PROVE  IInv'
<1>1. TypeOK
    BY DEF IInv
<1>2. /\ memory' \in [Addrs -> Values] /\ loadQ' \in Seq(Values)
      /\ loads' \in Nat /\ torn' \in BOOLEAN
      /\ loadQ' # << >> \/ (loadQ' = loadQ /\ torn' = torn)
    <2>1. /\ memory \in [Addrs -> Values] /\ loadQ \in Seq(Values) /\ loads \in Nat
          /\ torn \in BOOLEAN /\ Way[k] \in Requests
        BY <1>1, AnsweredParts DEF TypeOK
    <2>2. CASE Way[k].cmd = "WRITE"
        <3>1. memory' = [memory EXCEPT ![Way[k].address] = Way[k].data]
              /\ UNCHANGED <<loadQ, loads, torn>>
            BY <2>2, AnsweredParts
        <3>2. Way[k].address \in Addrs /\ Way[k].data \in Values
            BY <2>1, <2>2, Kinds
        <3> QED
            BY <2>1, <3>1, <3>2
    <2>3. CASE Way[k].cmd # "WRITE"
        <3>1. /\ loadQ' = Append(loadQ, memory[Way[k].address])
              /\ loads' = loads + 1 /\ torn' \in BOOLEAN /\ memory' = memory
            BY <2>3, AnsweredParts
        <3>2. memory[Way[k].address] \in Values
            BY <2>1, Kinds
        <3>3. loadQ' \in Seq(Values) /\ loadQ' # << >>
            BY <2>1, <3>1, <3>2, AppendProperties
        <3> QED
            BY <2>1, <3>1, <3>3
    <2> QED
        BY <2>2, <2>3
<1>3. TypeOK'
    <2>1. /\ inFlight' \in Seq(Requests) /\ at' \in {"idle", "push"}
          /\ UNCHANGED <<pc, event, target, result, ops, latest, q, asleep,
                         done, i, pendingRequests, ended>>
        BY AnsweredParts
    <2> QED
        BY <1>1, <1>2, <2>1 DEF TypeOK
<1>4. Places'
    <2>1. /\ loadQ # << >> => loadQ' # << >>
          /\ torn' => loadQ' # << >>
        BY <1>2, AnsweredParts
    <2>2. /\ at' = IF torn' THEN "push" ELSE "idle"
          /\ UNCHANGED <<pc, event, q, result, i, pendingRequests>>
        BY AnsweredParts
    <2> QED
        BY <2>1, <2>2 DEF IInv, Places
<1> QED
    BY <1>3, <1>4, HandleEventStores, HandleEventAnswers DEF IInv

-----------------------------------------------------------------------------
LEMMA IInvInit == Init => IInv
<1> SUFFICES ASSUME Init PROVE IInv
    OBVIOUS
<1>1. TypeOK
    <2>1. /\ (CHOOSE a \in Addrs : TRUE) \in Addrs
          /\ [a \in Addrs |-> Zero] \in [Addrs -> Values]
        BY Parameters
    <2>2. result \in [rc : {"none", "empty", "several"}]
        BY DEF Init, Nothing
    <2>3. /\ ops \in 0 .. MaxOps /\ i \in 0 .. maxOpLookup
          /\ q \in Seq(AppEvent) /\ Len(q) <= 1 /\ loadQ \in Seq(Values)
          /\ pendingRequests \in Seq(Requests) /\ Len(pendingRequests) <= maxOpLookup
          /\ inFlight \in Seq(Requests) /\ loads \in Nat
        BY Parameters DEF Init
    <2> QED
        BY <2>1, <2>2, <2>3, Kinds DEF Init, TypeOK
<1>2. Places
    BY DEF Init, Places
<1>3. Way = << >>
    <2>1. OfQueue = << >> /\ OfApp = << >>
        BY DEF Init, OfQueue, OfApp
    <2> QED
        BY <2>1 DEF Init, Way
<1>4. StoresSettled
    BY <1>3 DEF Init, StoresSettled, Leaves
<1>5. AnswersKept
    <2>1. Reads = {} /\ ~Loading
        BY <1>3 DEF Init, Reads, Loading
    <2> QED
        BY <2>1, Kinds DEF Init, AnswersKept, InTurn
<1> QED
    BY <1>1, <1>2, <1>4, <1>5 DEF IInv

LEMMA IInvStutters ==
    ASSUME IInv, UNCHANGED vars
    PROVE  IInv'
<1>1. UNCHANGED <<pc, event, target, result, ops, latest, q, asleep, loadQ, loads, torn,
                  done, at, i, pendingRequests, inFlight, memory, ended>>
    BY DEF vars, appVars, linkVars, loadVars, simVars
<1>2. TypeOK'
    BY <1>1 DEF IInv, TypeOK
<1>3. Places' /\ OfQueue' = OfQueue /\ OfApp' = OfApp
    BY <1>1 DEF IInv, Places, TornApart, OfQueue, OfApp
<1> QED
    BY <1>1, <1>2, <1>3, SameWay, SameAnswers DEF IInv, Loading

LEMMA IInvNext ==
    ASSUME IInv, [Next]_vars
    PROVE  IInv'
<1>1. CASE AppSteps
    BY <1>1, TheAppStep, SendStep, SendWaitsStep, SendNotifiesStep, ReceiveStep DEF AppSteps
<1>2. CASE SimulatorSteps
    BY <1>2, ClockTickStep, GenerateStep, GenerateWaitsStep, GenerateNotifiesStep,
       IssueStep, PushedStep DEF SimulatorSteps
<1>3. CASE \E k \in DOMAIN inFlight : handleEvent(k)
    BY <1>3, HandleEventStep
<1> QED
    BY <1>1, <1>2, <1>3, SpuriousStep, IInvStutters DEF Next

(* What is on its way holds what the program stored last, and the answers  *)
(* the program has not got are those of the loads before, if any, and of   *)
(* the one it is at, in whatever order the two threads run.                *)
THEOREM Invariant == Spec => []IInv
BY IInvInit, IInvNext, PTL DEF Spec

(* The threads stay within what App, AppTransactor and RequestGenCPU_KG    *)
(* provide: one event at a time in the queue, no more pending requests     *)
(* than are looked up.                                                     *)
THEOREM TypeCorrect == Spec => []TypeOK
<1>1. IInv => TypeOK
    BY DEF IInv
<1> QED
    BY <1>1, Invariant, PTL

(* The answer receive returns is the value stored last where the program   *)
(* loads from, if no load is left unanswered: for every program, any       *)
(* number of requests in flight, and any order of answers from different   *)
(* addresses.                                                              *)
THEOREM AnswersAreLatest == Spec => []ReceivesLatest
<1>1. IInv => ReceivesLatest
    <2> SUFFICES ASSUME IInv, result.rc = "ok", ~Unanswered
                 PROVE  result.data = latest[target]
        BY DEF ReceivesLatest
    <2>1. pc = "work" /\ loadQ = << >>
        BY Kinds DEF IInv, Places, Unanswered
    <2>2. ~Loading /\ OfApp = << >> /\ ~(q # << >> /\ Head(q).cmd = "READ")
        BY <2>1 DEF Loading, OfApp, IInv, Places
    <2>3. /\ pendingRequests \in Seq(Requests) /\ inFlight \in Seq(Requests)
          /\ OfQueue \in Seq(Requests) /\ OfQueue \o OfApp \in Seq(Requests)
          /\ pendingRequests \o (OfQueue \o OfApp) \in Seq(Requests)
        BY WayParts DEF IInv, TypeOK
    <2>4. /\ \A k \in DOMAIN pendingRequests : pendingRequests[k].cmd # "READ"
          /\ \A k \in DOMAIN inFlight : inFlight[k].cmd # "READ"
        <3> DEFINE c == pendingRequests \o inFlight
        <3>1. \A k \in DOMAIN c : c[k].cmd # "READ"
            BY DEF Unanswered, ToSet
        <3>2. \A k \in DOMAIN pendingRequests : k \in DOMAIN c /\ c[k] = pendingRequests[k]
            BY <2>3, Behind
        <3>3. ASSUME NEW k \in DOMAIN inFlight
              PROVE  \E j \in DOMAIN c : c[j] = inFlight[k]
            <4> DEFINE j == Len(pendingRequests) + k
            <4>1. j \in DOMAIN c /\ c[j] = inFlight[k]
                BY <2>3, Behind
            <4> HIDE DEF c, j
            <4> QED
                BY <4>1
        <3> HIDE DEF c
        <3> QED
            BY <3>1, <3>2, <3>3
    <2>5. \A k \in DOMAIN (OfQueue \o OfApp) : (OfQueue \o OfApp)[k].cmd # "READ"
        <3>1. OfQueue \o OfApp = OfQueue
            BY <2>2, <2>3, ConcatEmptySeq
        <3>2. \A k \in DOMAIN OfQueue : OfQueue[k].cmd # "READ"
            <4>1. CASE OfQueue = << >>
                BY <4>1
            <4>2. CASE q # << >> /\ OfQueue = <<Head(q)>>
                BY <2>2, <4>2
            <4> QED
                BY <4>1, <4>2 DEF OfQueue
        <3> QED
            BY <3>1, <3>2
    <2>6. Reads = {}
        <3> DEFINE s == OfQueue \o OfApp
                   p == pendingRequests \o s
        <3>1. s \in Seq(Requests) /\ p \in Seq(Requests) /\ Way = inFlight \o p
            BY <2>3 DEF Way
        <3>2. \A k \in DOMAIN s : s[k].cmd # "READ"
            BY <2>5
        <3> HIDE DEF s
        <3>3. \A k \in DOMAIN p : p[k].cmd # "READ"
            BY <2>3, <2>4, <3>1, <3>2, Behind
        <3> HIDE DEF p
        <3>4. \A k \in DOMAIN Way : Way[k].cmd # "READ"
            BY <2>3, <2>4, <3>1, <3>3, Behind
        <3> QED
            BY <3>4 DEF Reads
    <2>7. ~Behindhand
        BY <2>1, <2>2, <2>6 DEF Behindhand
    <2> QED
        BY <2>7 DEF IInv, AnswersKept
<1> QED
    BY <1>1, Invariant, PTL
=============================================================================
