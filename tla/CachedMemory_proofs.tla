------------------------ MODULE CachedMemory_proofs -------------------------
(***************************************************************************)
(* Proofs about CachedMemory, for lines of any length, any set of lines    *)
(* and of noncacheable words, any values, and any number of events at a    *)
(* time: the tables agree, nobody is answered who does not wait, no store  *)
(* is lost, reads see the latest store, and flushes write back.            *)
(***************************************************************************)
EXTENDS CachedMemory, DataLemmas

(* The words that a base address stands for: those of its line, or itself. *)
Place(p) == IF p \in Lines THEN Words(p) ELSE {p}

(* The events there are: for lines the fetches, write-backs and flushes of *)
(* the host, for other words what host and PIM load and store, and custom  *)
(* commands.                                                               *)
ForLine(ev) ==
    /\ ev.baseAddr \in Lines /\ ev.addr \in Words(ev.baseAddr)
    /\ \/ /\ ev.cmd \in Reads /\ ev.flags = {}
          /\ ev.size = lineSize /\ ev.payload = << >> /\ Len(ev.expect) = lineSize
       \/ /\ ev.cmd = "PutM" /\ ev.flags = {"NORESPONSE"}
          /\ ev.size = lineSize /\ Len(ev.payload) = lineSize
       \/ /\ ev.cmd = "FlushLine" /\ ev.flags = {}
          /\ ev.payload = << >> \/ Len(ev.payload) = lineSize

ForWord(ev) ==
    /\ ev.baseAddr \in Noncacheable /\ ev.addr = ev.baseAddr
    /\ \/ /\ ev.cmd = "GetS" /\ ev.flags \in {{"NONCACHEABLE"}, {"NONCACHEABLE", "PIM"}}
          /\ ev.size = 1 /\ Len(ev.expect) = 1
       \/ /\ ev.cmd = "Write" /\ ev.flags \in {{"NONCACHEABLE"}, {"NONCACHEABLE", "PIM"}}
          /\ ev.size = 1 /\ Len(ev.payload) = 1
       \/ ev.cmd = "CustomReq" /\ ev.flags = {}

EventsKnown ==
    \A id \in DOMAIN outstandingEvents :
        ForLine(outstandingEvents[id]) \/ ForWord(outstandingEvents[id])

(* The host waits for each answer it is to get, and for one per place.     *)
ToHost(ev) == "NORESPONSE" \notin ev.flags /\ "PIM" \notin ev.flags

Expected(ev) ==
    \/ waiting[ev.baseAddr] = ev.cmd
    \/ ev.cmd = "FlushLine" /\ waiting[ev.baseAddr] \in Flushes

HostWaits ==
    \A id \in DOMAIN outstandingEvents :
        LET ev == outstandingEvents[id] IN
        ToHost(ev) =>
            /\ Expected(ev)
            /\ \A other \in DOMAIN outstandingEvents :
                  /\ ToHost(outstandingEvents[other])
                  /\ outstandingEvents[other].baseAddr = ev.baseAddr
                  => other = id

(* A line that is there holds what was stored last, and so does what is    *)
(* carried by its flush and what its fetch expects: while they are under   *)
(* way the line is not stored to.                                          *)
Holding(content, line) == [k \in 1 .. lineSize |-> content[line + k - 1]]

CurrentFor(lines, content, ev) ==
    /\ ev.cmd \in Reads /\ ev.flags = {} =>
          /\ ev.expect = Holding(content, ev.baseAddr)
          /\ lines[ev.baseAddr].state = "I"
    /\ ev.cmd = "FlushLine" =>
          /\ ev.payload \in {<< >>, Holding(content, ev.baseAddr)}
          /\ lines[ev.baseAddr].state # "M"

LinesCurrent ==
    /\ \A line \in Lines :
          cache[line].state # "I" => cache[line].data = Holding(latest, line)
    /\ \A id \in DOMAIN outstandingEvents :
          CurrentFor(cache, latest, outstandingEvents[id])

(* The requests under way themselves, oldest first.                        *)
Requests == [n \in DOMAIN Pipeline |-> outstandingEvents[Pipeline[n]]]

(* Memory b holds v for the word a once the first n of the requests E are  *)
(* done.                                                                   *)
Leaves(E, b, n, a, v) ==
    /\ (\A j \in 1 .. n : ~StoresTo(E[j], a)) => b[a] = v
    /\ \A j \in 1 .. n :
          /\ StoresTo(E[j], a)
          /\ \A k \in j + 1 .. n : ~StoresTo(E[k], a)
          => Stored(E[j], a) = v

(* What the read that comes n-th expects is what it will find.             *)
Settled(E, b, n) ==
    E[n].cmd \in Reads =>
        \A k \in 1 .. E[n].size :
            Leaves(E, b, n - 1, E[n].baseAddr + k - 1, E[n].expect[k])

ReadsSettled == \A n \in DOMAIN Pipeline : Settled(Requests, backing, n)

StoresSettled ==
    \A a \in Address :
        \/ \E line \in Lines : a \in Words(line) /\ cache[line].state = "M"
        \/ Leaves(Requests, backing, Len(Pipeline), a, latest[a])

(* A flush of what ev is for that depends on the requests deps comes after *)
(* all the requests for the same place.                                    *)
Follows(E, p, base, deps) ==
    \A n \in DOMAIN p :
        E[n].baseAddr = base =>
            \E k \in DOMAIN p : n <= k /\ p[k] \in deps /\ E[k].baseAddr = base

FlushesFollow ==
    \A f \in DOMAIN waitingFlushes :
        LET ev == outstandingEvents[f] IN
        /\ ev.cmd = "FlushLine"
        /\ ev.payload # << >> => Follows(Requests, Pipeline, ev.baseAddr, waitingFlushes[f])

(* No flush is in the pipeline.                                            *)
OnlyRequests == \A n \in DOMAIN Pipeline : Requests[n].cmd # "FlushLine"

IInv ==
    /\ TypeOK /\ TableAgrees /\ OnlyCustomFaults
    /\ EventsKnown /\ HostWaits /\ LinesCurrent
    /\ ReadsSettled /\ StoresSettled /\ FlushesFollow /\ OnlyRequests
-----------------------------------------------------------------------------
(* The places, and the words of an event.                                  *)

LEMMA Constants ==
    /\ lineSize \in Nat /\ lineSize >= 1 /\ MaxEvents \in Nat
    /\ Address \subseteq Nat /\ Lines \subseteq Address /\ Noncacheable \subseteq Address
    /\ Lines \cap Noncacheable = {}
    /\ \A line \in Lines : /\ line \in Words(line) /\ Words(line) \subseteq Address
                           /\ Words(line) \cap Noncacheable = {}
                           /\ line \in Nat
    /\ Initial \in Values
<1>1. /\ lineSize \in Nat /\ lineSize >= 1 /\ MaxEvents \in Nat
      /\ Lines \subseteq Nat /\ Noncacheable \subseteq Nat /\ Initial \in Values
      /\ Cacheable \cap Noncacheable = {}
    BY CachedMemoryAssumption
<1>2. \A line \in Lines : /\ line \in Words(line) /\ Words(line) \subseteq Nat
                          /\ Words(line) \subseteq Cacheable
    BY <1>1 DEF Words, Cacheable
<1>3. Cacheable \subseteq Nat /\ Lines \subseteq Cacheable
    BY <1>2 DEF Cacheable
<1> QED
    BY <1>1, <1>2, <1>3 DEF Address

LEMMA PlacesApart ==
    ASSUME NEW p \in Lines \cup Noncacheable, NEW o \in Lines \cup Noncacheable,
           NEW a \in Place(p), a \in Place(o)
    PROVE  p = o /\ a \in Address
<1>1. \A k, l \in Lines : k # l => Words(k) \cap Words(l) = {}
    BY CachedMemoryAssumption
<1> QED
    BY <1>1, Constants DEF Place

Known(ev) == ev \in Event /\ (ForLine(ev) \/ ForWord(ev))

(* An event starts at its base address, and what it stores or reads is     *)
(* what its base address stands for.                                       *)
LEMMA EventWords ==
    ASSUME NEW ev, Known(ev)
    PROVE  /\ start(ev) = ev.baseAddr /\ ev.baseAddr \in Lines \cup Noncacheable
           /\ ev.baseAddr \in Nat /\ ev.baseAddr \in Address
           /\ ev.cmd \in Reads \cup Writes =>
                 /\ Place(ev.baseAddr) = ev.baseAddr .. ev.baseAddr + ev.size - 1
                 /\ ev.size \in Nat
           /\ ev.cmd \in Reads => Len(ev.expect) = ev.size
           /\ ev.cmd \in Writes => Len(ev.payload) = ev.size
<1>1. /\ ev.baseAddr \in Lines \cup Noncacheable /\ ev.baseAddr \in Nat
      /\ ev.baseAddr \in Address
    BY Constants DEF Known, ForLine, ForWord
<1>2. CASE ForLine(ev)
    <2>1. start(ev) = ev.baseAddr
        BY <1>2 DEF ForLine, start, Reads
    <2>2. Place(ev.baseAddr) = ev.baseAddr .. ev.baseAddr + lineSize - 1
        BY <1>2 DEF ForLine, Place, Words
    <2> QED
        BY <1>1, <1>2, <2>1, <2>2, Constants DEF ForLine, Reads, Writes
<1>3. CASE ForWord(ev)
    <2>1. start(ev) = ev.baseAddr
        BY <1>3 DEF ForWord, start
    <2>2. Place(ev.baseAddr) = {ev.baseAddr}
        BY <1>3, Constants DEF ForWord, Place
    <2>3. ev.baseAddr .. ev.baseAddr + 1 - 1 = {ev.baseAddr}
        BY <1>1
    <2>4. /\ ev.cmd \in Reads \cup Writes => ev.size = 1
          /\ ev.cmd \in Reads => Len(ev.expect) = 1
          /\ ev.cmd \in Writes => Len(ev.payload) = 1
        BY <1>3 DEF ForWord, Reads, Writes
    <2>5. ASSUME ev.cmd \in Reads \cup Writes
          PROVE  /\ Place(ev.baseAddr) = ev.baseAddr .. ev.baseAddr + ev.size - 1
                 /\ ev.size \in Nat
                 /\ ev.cmd \in Reads => Len(ev.expect) = ev.size
                 /\ ev.cmd \in Writes => Len(ev.payload) = ev.size
        <3>1. ev.size = 1
            BY <2>4, <2>5
        <3> QED
            BY <2>2, <2>3, <2>4, <3>1
    <2> QED
        BY <1>1, <2>1, <2>5
<1> QED
    BY <1>2, <1>3 DEF Known

LEMMA StoreWords ==
    ASSUME NEW ev, Known(ev), NEW a
    PROVE  /\ StoresTo(ev, a) <=> ev.cmd \in Writes /\ a \in Place(ev.baseAddr)
           /\ StoresTo(ev, a) => Stored(ev, a) = ev.payload[a - ev.baseAddr + 1]
                                 /\ Stored(ev, a) \in Values /\ a \in Address
<1>1. start(ev) = ev.baseAddr /\ ev.baseAddr \in Nat
      /\ ev.baseAddr \in Lines \cup Noncacheable
    BY EventWords
<1>2. ASSUME ev.cmd \in Writes
      PROVE  /\ Place(ev.baseAddr) = ev.baseAddr .. ev.baseAddr + ev.size - 1
             /\ ev.size \in Nat /\ Len(ev.payload) = ev.size
    BY <1>2, EventWords
<1>3. StoresTo(ev, a) <=> ev.cmd \in Writes /\ a \in Place(ev.baseAddr)
    BY <1>1, <1>2 DEF StoresTo
<1>4. ASSUME StoresTo(ev, a)
      PROVE  /\ Stored(ev, a) = ev.payload[a - ev.baseAddr + 1]
             /\ Stored(ev, a) \in Values /\ a \in Address
    <2>1. a \in Address
        BY <1>1, <1>3, <1>4, PlacesApart
    <2>2. a - ev.baseAddr + 1 \in 1 .. Len(ev.payload)
        BY <1>1, <1>2, <1>3, <1>4
    <2>3. ev.payload \in Seq(Values)
        BY DEF Known, Event
    <2>4. ev.payload[a - ev.baseAddr + 1] \in Values
        BY <2>2, <2>3, ElementOfSeq
    <2> QED
        BY <1>1, <2>1, <2>4 DEF Stored
<1> QED
    BY <1>3, <1>4

-----------------------------------------------------------------------------
(* Ids and the table.                                                      *)

LEMMA FreshIds ==
    ASSUME Unused # {}
    PROVE  /\ FirstId \in Ids /\ FirstId \notin DOMAIN outstandingEvents
           /\ Cardinality(Unused) >= 2 =>
                 /\ NextId \in Ids /\ NextId \notin DOMAIN outstandingEvents
                 /\ NextId # FirstId
<1>1. Unused \in SUBSET Nat /\ Unused \subseteq Ids
    BY DEF Unused, Ids
<1>2. FirstId \in Unused
    BY <1>1, MinLeast DEF FirstId
<1>3. ASSUME Cardinality(Unused) >= 2 PROVE Unused \ {FirstId} # {}
    <2>1. IsFiniteSet(Unused)
        <3>1. IsFiniteSet(Ids)
            BY Constants, FS_Interval DEF Ids
        <3> QED
            BY <1>1, <3>1, FS_Subset
    <2>2. IsFiniteSet(Unused \ {FirstId})
          /\ Cardinality(Unused \ {FirstId}) = Cardinality(Unused) - 1
        BY <1>2, <2>1, FS_RemoveElement
    <2>3. Cardinality(Unused) \in Nat
        BY <2>1, FS_CardinalityType
    <2>4. Cardinality(Unused \ {FirstId}) # 0
        BY <1>3, <2>2, <2>3
    <2> QED
        BY <2>4, FS_EmptySet
<1>4. ASSUME Cardinality(Unused) >= 2 PROVE NextId \in Unused \ {FirstId}
    <2>1. Unused \ {FirstId} \in SUBSET Nat
        BY <1>1
    <2> QED
        BY <1>3, <1>4, <2>1, MinLeast DEF NextId
<1> QED
    BY <1>1, <1>2, <1>4 DEF Unused

(* What is in the pipeline is in the table.                                *)
LEMMA PipelineParts ==
    ASSUME TypeOK, TableAgrees, EventsKnown
    PROVE  /\ inBackend \in Seq(Ids) /\ requestQueue \in Seq(Ids) /\ Pipeline \in Seq(Ids)
           /\ Len(Pipeline) \in Nat /\ DOMAIN Pipeline = 1 .. Len(Pipeline)
           /\ \A n \in DOMAIN Pipeline :
                 /\ n \in Nat /\ Pipeline[n] \in DOMAIN outstandingEvents
                 /\ Known(EventAt(n))
           /\ \A id \in DOMAIN outstandingEvents : Known(outstandingEvents[id])
<1>1. /\ inBackend \in Seq(Ids) /\ requestQueue \in Seq(Ids)
    BY DEF TypeOK
<1>2. Pipeline \in Seq(Ids)
    BY <1>1, ConcatProperties DEF Pipeline
<1>3. \A id \in DOMAIN outstandingEvents : Known(outstandingEvents[id])
    BY DEF TypeOK, EventsKnown, Known
<1>4. \A n \in DOMAIN Pipeline : Pipeline[n] \in DOMAIN outstandingEvents
    BY DEF TableAgrees, ToSet
<1> QED
    BY <1>1, <1>2, <1>3, <1>4, SeqParts DEF EventAt

(* NothingLost, said of the last store or of memory.                       *)
LEMMA SettledIsLast ==
    ASSUME TypeOK, TableAgrees, EventsKnown, NEW a,
           Leaves(Requests, backing, Len(Pipeline), a, latest[a])
    PROVE  LET stores == {n \in DOMAIN Pipeline : StoresTo(EventAt(n), a)}
           IN  latest[a] = IF stores = {} THEN backing[a] ELSE Stored(EventAt(Max(stores)), a)
<1> DEFINE stores == {n \in DOMAIN Pipeline : StoresTo(EventAt(n), a)}
<1>1. Len(Pipeline) \in Nat /\ DOMAIN Pipeline = 1 .. Len(Pipeline)
    BY PipelineParts
<1>2. \A n \in DOMAIN Pipeline : EventAt(n) = Requests[n]
    BY DEF EventAt, Requests
<1>3. CASE stores = {}
    BY <1>1, <1>2, <1>3 DEF Leaves
<1>4. CASE stores # {}
    <2>1. stores \in SUBSET (0 .. Len(Pipeline))
        BY <1>1
    <2>2. Max(stores) \in stores /\ \A n \in stores : n <= Max(stores)
        <3> HIDE DEF stores
        <3> QED
            BY <1>1, <1>4, <2>1, MaxGreatest
    <2> DEFINE m == Max(stores)
    <2>3. m \in 1 .. Len(Pipeline) /\ StoresTo(Requests[m], a) /\ EventAt(m) = Requests[m]
        BY <1>1, <1>2, <2>2
    <2>4. ASSUME NEW k \in m + 1 .. Len(Pipeline) PROVE ~StoresTo(Requests[k], a)
        <3>1. k \in DOMAIN Pipeline /\ ~(k <= m)
            BY <1>1, <2>3
        <3> QED
            BY <3>1, <1>2, <2>2
    <2> HIDE DEF m
    <2>5. Stored(EventAt(m), a) = latest[a]
        BY <2>3, <2>4 DEF Leaves
    <2> QED
        BY <1>4, <2>5 DEF m
<1> QED
    BY <1>3, <1>4

LEMMA SettledIsNothingLost ==
    ASSUME TypeOK, TableAgrees, EventsKnown, StoresSettled
    PROVE  NothingLost
BY SettledIsLast DEF StoresSettled, NothingLost

-----------------------------------------------------------------------------
(* What a sequence of requests leaves in memory, and how that changes when *)
(* one is added or done.                                                   *)

LEMMA LeavesKept ==
    ASSUME NEW E, NEW F, NEW b, NEW c, NEW n \in Nat, NEW a, NEW v,
           \A j \in 1 .. n : F[j] = E[j], b[a] = c[a]
    PROVE  Leaves(E, b, n, a, v) <=> Leaves(F, c, n, a, v)
<1>1. \A j \in 1 .. n : \A k \in j + 1 .. n : k \in 1 .. n
    OBVIOUS
<1> QED
    BY <1>1 DEF Leaves

LEMMA LeavesNext ==
    ASSUME NEW E, NEW b, NEW n \in Nat, NEW a, NEW v,
           IF StoresTo(E[n + 1], a) THEN Stored(E[n + 1], a) = v ELSE Leaves(E, b, n, a, v)
    PROVE  Leaves(E, b, n + 1, a, v)
<1>1. /\ n + 1 \in 1 .. n + 1 /\ \A j \in 1 .. n : j \in 1 .. n + 1
      /\ \A j \in 1 .. n + 1 : j \in 1 .. n \/ j = n + 1
      /\ \A j \in 1 .. n : n + 1 \in j + 1 .. n + 1
      /\ \A j \in 1 .. n : \A k \in j + 1 .. n : k \in j + 1 .. n + 1
    OBVIOUS
<1>2. CASE StoresTo(E[n + 1], a)
    BY <1>1, <1>2 DEF Leaves
<1>3. CASE ~StoresTo(E[n + 1], a)
    BY <1>1, <1>3 DEF Leaves
<1> QED
    BY <1>2, <1>3

(* The k-th of N is done, before which there was none for its words.       *)
LEMMA LeavesDone ==
    ASSUME NEW E, NEW F, NEW b, NEW c, NEW N \in Nat, NEW k \in 1 .. N, NEW a, NEW v,
           \A j \in 1 .. N - 1 : F[j] = IF j < k THEN E[j] ELSE E[j + 1],
           c[a] = IF StoresTo(E[k], a) THEN Stored(E[k], a) ELSE b[a],
           StoresTo(E[k], a) => \A j \in 1 .. k - 1 : ~StoresTo(E[j], a),
           NEW n \in k .. N, Leaves(E, b, n, a, v)
    PROVE  Leaves(F, c, n - 1, a, v)
<1>1. ASSUME \A j \in 1 .. n - 1 : ~StoresTo(F[j], a)
      PROVE  c[a] = v
    <2>1. ASSUME NEW j \in 1 .. n, j # k PROVE ~StoresTo(E[j], a)
        <3>1. CASE j < k
            <4>1. j \in 1 .. n - 1 /\ j \in 1 .. N - 1
                BY <3>1
            <4> QED
                BY <1>1, <3>1, <4>1
        <3>2. CASE ~(j < k)
            <4>1. /\ j - 1 \in 1 .. n - 1 /\ j - 1 \in 1 .. N - 1
                  /\ ~(j - 1 < k) /\ j - 1 + 1 = j
                BY <2>1, <3>2
            <4>2. F[j - 1] = E[j - 1 + 1]
                BY <4>1
            <4> QED
                BY <1>1, <4>1, <4>2
        <3> QED
            BY <3>1, <3>2
    <2>2. k \in 1 .. n /\ \A i \in k + 1 .. n : i \in 1 .. n /\ i # k
        OBVIOUS
    <2>3. CASE StoresTo(E[k], a)
        BY <2>1, <2>2, <2>3 DEF Leaves
    <2>4. CASE ~StoresTo(E[k], a)
        BY <2>1, <2>4 DEF Leaves
    <2> QED
        BY <2>3, <2>4
<1>2. ASSUME NEW j \in 1 .. n - 1, StoresTo(F[j], a),
             \A i \in j + 1 .. n - 1 : ~StoresTo(F[i], a)
      PROVE  Stored(F[j], a) = v
    <2> DEFINE m == IF j < k THEN j ELSE j + 1
    <2>1. m \in 1 .. n /\ m # k /\ j \in 1 .. N - 1 /\ F[j] = E[m]
        <3>1. j \in 1 .. N - 1
            OBVIOUS
        <3>2. F[j] = E[m]
            BY <3>1
        <3> QED
            BY <3>1, <3>2
    <2>2. ASSUME NEW i \in m + 1 .. n PROVE ~StoresTo(E[i], a)
        <3>1. CASE i < k
            <4>1. i \in j + 1 .. n - 1 /\ i \in 1 .. N - 1
                BY <3>1
            <4> QED
                BY <1>2, <3>1, <4>1
        <3>2. CASE i > k
            <4>1. /\ i - 1 \in j + 1 .. n - 1 /\ i - 1 \in 1 .. N - 1
                  /\ ~(i - 1 < k) /\ i - 1 + 1 = i
                BY <3>2
            <4>2. F[i - 1] = E[i - 1 + 1]
                BY <4>1
            <4> QED
                BY <1>2, <4>1, <4>2
        <3>3. CASE i = k
            <4>1. m \in 1 .. k - 1
                BY <2>1, <3>3
            <4> QED
                BY <1>2, <2>1, <3>3, <4>1
        <3> QED
            BY <3>1, <3>2, <3>3
    <2> HIDE DEF m
    <2> QED
        BY <1>2, <2>1, <2>2 DEF Leaves
<1> QED
    BY <1>1, <1>2 DEF Leaves

(* What nothing under way stores to is in memory already.                  *)
LEMMA LeavesMemory ==
    ASSUME NEW E, NEW b, NEW n, NEW a, NEW v, Leaves(E, b, n, a, v),
           \A j \in 1 .. n : ~StoresTo(E[j], a)
    PROVE  b[a] = v
BY DEF Leaves

(* A request is added, for another place than the flush.                   *)
LEMMA FollowsStill ==
    ASSUME NEW E, NEW F, NEW p, NEW q, NEW N \in Nat, NEW base, NEW deps,
           DOMAIN p = 1 .. N, DOMAIN q = 1 .. N + 1,
           \A j \in 1 .. N : F[j] = E[j] /\ q[j] = p[j],
           F[N + 1].baseAddr # base,
           Follows(E, p, base, deps)
    PROVE  Follows(F, q, base, deps)
<1> SUFFICES ASSUME NEW n \in DOMAIN q, F[n].baseAddr = base
             PROVE  \E k \in DOMAIN q : n <= k /\ q[k] \in deps /\ F[k].baseAddr = base
    BY DEF Follows
<1>1. n \in 1 .. N
    <2>1. n # N + 1
        OBVIOUS
    <2> QED
        BY <2>1
<1>2. PICK k \in DOMAIN p : n <= k /\ p[k] \in deps /\ E[k].baseAddr = base
    BY <1>1 DEF Follows
<1>3. k \in 1 .. N /\ k \in DOMAIN q
    OBVIOUS
<1> QED
    BY <1>2, <1>3

(* The k-th request is done, before which there was none for its place.    *)
LEMMA FollowsDone ==
    ASSUME NEW E, NEW F, NEW p, NEW q, NEW N \in Nat, NEW k \in 1 .. N, NEW base, NEW deps,
           DOMAIN p = 1 .. N, DOMAIN q = 1 .. N - 1, IsInjective(p),
           \A j \in 1 .. N - 1 : /\ F[j] = IF j < k THEN E[j] ELSE E[j + 1]
                                 /\ q[j] = IF j < k THEN p[j] ELSE p[j + 1],
           \A j \in 1 .. k - 1 : E[j].baseAddr # E[k].baseAddr,
           Follows(E, p, base, deps)
    PROVE  Follows(F, q, base, deps \ {p[k]})
<1> SUFFICES ASSUME NEW n \in DOMAIN q, F[n].baseAddr = base
             PROVE  \E i \in DOMAIN q : /\ n <= i /\ q[i] \in deps \ {p[k]}
                                        /\ F[i].baseAddr = base
    BY DEF Follows
<1> DEFINE m == IF n < k THEN n ELSE n + 1
<1>1. m \in 1 .. N /\ m # k /\ n \in 1 .. N - 1
    OBVIOUS
<1>2. E[m].baseAddr = base
    BY <1>1
<1>3. PICK i \in DOMAIN p : m <= i /\ p[i] \in deps /\ E[i].baseAddr = base
    BY <1>1, <1>2 DEF Follows
<1>4. i # k
    <2> SUFFICES ASSUME i = k PROVE FALSE
        OBVIOUS
    <2>1. m \in 1 .. k - 1
        BY <1>1, <1>3
    <2> HIDE DEF m
    <2> QED
        BY <1>2, <1>3, <2>1
<1>5. p[i] # p[k]
    BY <1>3, <1>4 DEF IsInjective
<1> DEFINE o == IF i < k THEN i ELSE i - 1
<1>6. o \in 1 .. N - 1 /\ n <= o /\ i = IF o < k THEN o ELSE o + 1
    BY <1>1, <1>3, <1>4
<1> HIDE DEF o, m
<1>7. F[o] = E[i] /\ q[o] = p[i]
    BY <1>6
<1> QED
    BY <1>3, <1>5, <1>6, <1>7

-----------------------------------------------------------------------------
(* The state when a request is added to those under way, or none is.       *)

(* The entries of the table stay, with perhaps new ones, and memory stays. *)
Kept ==
    /\ \A id \in DOMAIN outstandingEvents :
          id \in DOMAIN outstandingEvents' /\ outstandingEvents'[id] = outstandingEvents[id]
    /\ UNCHANGED backing

LEMMA RequestParts ==
    ASSUME TypeOK, TableAgrees, EventsKnown
    PROVE  /\ Len(Pipeline) \in Nat /\ DOMAIN Pipeline = 1 .. Len(Pipeline)
           /\ \A n \in DOMAIN Pipeline :
                 /\ Requests[n] = outstandingEvents[Pipeline[n]]
                 /\ Pipeline[n] \in DOMAIN outstandingEvents
                 /\ Known(Requests[n])
<1>1. /\ Len(Pipeline) \in Nat /\ DOMAIN Pipeline = 1 .. Len(Pipeline)
      /\ \A n \in DOMAIN Pipeline : Pipeline[n] \in DOMAIN outstandingEvents
      /\ \A id \in DOMAIN outstandingEvents : Known(outstandingEvents[id])
    BY PipelineParts
<1>2. \A n \in DOMAIN Pipeline : Requests[n] = outstandingEvents[Pipeline[n]]
    BY DEF Requests
<1> QED
    BY <1>1, <1>2

LEMMA RequestsStay ==
    ASSUME IInv, Kept, Pipeline' = Pipeline
    PROVE  Requests' = Requests /\ ReadsSettled' /\ OnlyRequests'
<1>1. \A n \in DOMAIN Pipeline :
          outstandingEvents'[Pipeline[n]] = outstandingEvents[Pipeline[n]]
    BY RequestParts DEF IInv, Kept
<1>2. Requests' = Requests
    BY <1>1 DEF Requests
<1>3. backing' = backing
    BY DEF Kept
<1> QED
    BY <1>2, <1>3 DEF IInv, ReadsSettled, OnlyRequests

LEMMA RequestAdded ==
    ASSUME IInv, Kept, NEW id \in Ids, id \notin DOMAIN outstandingEvents,
           NEW ev, ev.cmd # "FlushLine",
           outstandingEvents'[id] = ev, Pipeline' = Append(Pipeline, id)
    PROVE  /\ Len(Pipeline') = Len(Pipeline) + 1
           /\ DOMAIN Pipeline' = 1 .. Len(Pipeline) + 1
           /\ Pipeline'[Len(Pipeline) + 1] = id /\ Requests'[Len(Pipeline) + 1] = ev
           /\ \A j \in 1 .. Len(Pipeline) :
                 Requests'[j] = Requests[j] /\ Pipeline'[j] = Pipeline[j]
           /\ IsInjective(Pipeline') /\ ToSet(Pipeline') = ToSet(Pipeline) \cup {id}
           /\ OnlyRequests'
<1> DEFINE p == Pipeline
           q == Pipeline'
<1>1. /\ p \in Seq(Ids) /\ Len(p) \in Nat /\ DOMAIN p = 1 .. Len(p)
    BY PipelineParts DEF IInv
<1>2. id \notin ToSet(p) /\ IsInjective(p)
    BY DEF IInv, TableAgrees
<1>3. /\ Len(q) = Len(p) + 1 /\ DOMAIN q = 1 .. Len(p) + 1
      /\ \A j \in DOMAIN p : q[j] = p[j]
      /\ q[Len(p) + 1] = id
      /\ ToSet(q) = ToSet(p) \cup {id} /\ IsInjective(q)
    BY <1>1, <1>2, OneMore
<1>4. \A n \in DOMAIN q : Requests'[n] = outstandingEvents'[q[n]]
    BY DEF Requests
<1>5. \A n \in DOMAIN p : /\ Requests[n] = outstandingEvents[p[n]]
                          /\ p[n] \in DOMAIN outstandingEvents
    BY RequestParts DEF IInv
<1> HIDE DEF p, q
<1>6. \A j \in 1 .. Len(p) : j \in DOMAIN p /\ j \in DOMAIN q
    BY <1>1, <1>3
<1>7. Len(p) + 1 \in DOMAIN q
    BY <1>1, <1>3
<1>8. \A j \in DOMAIN p : Requests'[j] = Requests[j]
    BY <1>1, <1>3, <1>4, <1>5, <1>6 DEF Kept
<1>9. Requests'[Len(p) + 1] = ev
    BY <1>3, <1>4, <1>7
<1>10. ASSUME NEW n \in DOMAIN q PROVE Requests'[n].cmd # "FlushLine"
    <2>1. n \in DOMAIN p \/ n = Len(p) + 1
        BY <1>1, <1>3
    <2> QED
        BY <2>1, <1>8, <1>9 DEF IInv, OnlyRequests, p
<1>11. OnlyRequests'
    BY <1>10 DEF OnlyRequests, q
<1> QED
    BY <1>1, <1>3, <1>6, <1>8, <1>9, <1>11 DEF p, q

LEMMA AddedSettles ==
    ASSUME IInv, Kept, NEW id \in Ids, id \notin DOMAIN outstandingEvents,
           NEW ev, ev.cmd # "FlushLine",
           outstandingEvents'[id] = ev, Pipeline' = Append(Pipeline, id)
    PROVE  /\ \A a, v : (IF StoresTo(ev, a) THEN Stored(ev, a) = v
                         ELSE Leaves(Requests, backing, Len(Pipeline), a, v))
                        => Leaves(Requests', backing', Len(Pipeline'), a, v)
           /\ (ev.cmd \in Reads =>
                  \A k \in 1 .. ev.size :
                      Leaves(Requests, backing, Len(Pipeline), ev.baseAddr + k - 1, ev.expect[k]))
              => ReadsSettled'
<1>1. PICK N \in Nat : N = Len(Pipeline)
    BY PipelineParts DEF IInv
<1>2. /\ Len(Pipeline') = N + 1 /\ DOMAIN Pipeline' = 1 .. N + 1
      /\ Requests'[N + 1] = ev
      /\ \A j \in 1 .. N : Requests'[j] = Requests[j]
    BY <1>1, RequestAdded
<1>3. DOMAIN Pipeline = 1 .. N
    BY <1>1, RequestParts DEF IInv
<1>4. backing' = backing
    BY DEF Kept
<1>5. ASSUME NEW n \in 0 .. N, NEW a, NEW v, Leaves(Requests, backing, n, a, v)
      PROVE  Leaves(Requests', backing', n, a, v)
    <2>1. n \in Nat /\ \A j \in 1 .. n : Requests'[j] = Requests[j]
        BY <1>2
    <2> QED
        BY <2>1, <1>4, <1>5, LeavesKept
<1>6. ASSUME NEW a, NEW v,
             IF StoresTo(ev, a) THEN Stored(ev, a) = v
             ELSE Leaves(Requests, backing, Len(Pipeline), a, v)
      PROVE  Leaves(Requests', backing', Len(Pipeline'), a, v)
    <2>1. IF StoresTo(Requests'[N + 1], a) THEN Stored(Requests'[N + 1], a) = v
          ELSE Leaves(Requests', backing', N, a, v)
        BY <1>1, <1>2, <1>5, <1>6
    <2>2. Leaves(Requests', backing', N + 1, a, v)
        BY <2>1, LeavesNext
    <2> QED
        BY <1>2, <2>2
<1>7. ASSUME ev.cmd \in Reads =>
                 \A k \in 1 .. ev.size :
                     Leaves(Requests, backing, Len(Pipeline), ev.baseAddr + k - 1, ev.expect[k]),
             NEW n \in 1 .. N + 1
      PROVE  Settled(Requests', backing', n)
    <2>1. CASE n \in 1 .. N
        <3>1. Settled(Requests, backing, n) /\ n - 1 \in 0 .. N /\ Requests'[n] = Requests[n]
            BY <1>2, <1>3, <2>1 DEF IInv, ReadsSettled
        <3> QED
            BY <1>5, <3>1 DEF Settled
    <2>2. CASE n = N + 1
        <3>1. N + 1 - 1 = N /\ N \in 0 .. N
            OBVIOUS
        <3> QED
            BY <1>1, <1>2, <1>5, <1>7, <2>2, <3>1 DEF Settled
    <2> QED
        BY <2>1, <2>2
<1> QED
    BY <1>2, <1>6, <1>7 DEF ReadsSettled

LEMMA AddedFollows ==
    ASSUME IInv, Kept, NEW id \in Ids, id \notin DOMAIN outstandingEvents,
           NEW ev, ev.cmd # "FlushLine",
           outstandingEvents'[id] = ev, Pipeline' = Append(Pipeline, id),
           NEW base, NEW deps, Follows(Requests, Pipeline, base, deps), ev.baseAddr # base
    PROVE  Follows(Requests', Pipeline', base, deps)
<1>1. PICK N \in Nat : N = Len(Pipeline)
    BY PipelineParts DEF IInv
<1>2. /\ DOMAIN Pipeline' = 1 .. N + 1 /\ Requests'[N + 1] = ev
      /\ \A j \in 1 .. N : Requests'[j] = Requests[j] /\ Pipeline'[j] = Pipeline[j]
    BY <1>1, RequestAdded
<1>3. DOMAIN Pipeline = 1 .. N
    BY <1>1, RequestParts DEF IInv
<1> QED
    BY <1>2, <1>3, FollowsStill

(* The types and the tables of the controller, which all events concern.   *)
ControllerType ==
    /\ DOMAIN outstandingEvents \subseteq Ids
    /\ \A id \in DOMAIN outstandingEvents : outstandingEvents[id] \in Event
    /\ requestQueue \in Seq(Ids) /\ inBackend \in Seq(Ids)
    /\ DOMAIN waitingFlushes \subseteq Ids
    /\ \A f \in DOMAIN waitingFlushes : waitingFlushes[f] \subseteq Ids
    /\ backing \in [Address -> Values]
    /\ pendingPIMEvents \subseteq Ids

HostType ==
    /\ cache \in [Lines -> [state : {"I", "E", "M"}, data : Seq(Values)]]
    /\ \A line \in Lines : Len(cache[line].data) = lineSize
    /\ waiting \in [Lines \cup Noncacheable ->
                      Reads \cup Flushes \cup {"nothing", "Write", "CustomReq"}]
    /\ latest \in [Address -> Values]

ControllerInv ==
    /\ ControllerType /\ TableAgrees /\ EventsKnown
    /\ ReadsSettled /\ FlushesFollow /\ OnlyRequests

(* The host and the PIM ask for something that is passed on.               *)
AddsRequest(id, ev) ==
    /\ outstandingEvents' = Added(outstandingEvents, id, ev)
    /\ requestQueue' = Append(requestQueue, id) /\ UNCHANGED inBackend
    /\ UNCHANGED <<waitingFlushes, backing>>
    /\ pendingPIMEvents' = IF "PIM" \in ev.flags THEN pendingPIMEvents \cup {id}
                           ELSE pendingPIMEvents

LEMMA QueueIsPipeline ==
    ASSUME IInv, NEW id \in Ids, requestQueue' = Append(requestQueue, id),
           inBackend' = inBackend
    PROVE  Pipeline' = Append(Pipeline, id) /\ requestQueue' \in Seq(Ids)
<1>1. /\ inBackend \in Seq(Ids) /\ requestQueue \in Seq(Ids) /\ Pipeline \in Seq(Ids)
    BY PipelineParts DEF IInv
<1>2. /\ <<id>> \in Seq(Ids)
      /\ requestQueue' = requestQueue \o <<id>> /\ Append(Pipeline, id) = Pipeline \o <<id>>
    BY <1>1, AppendIsConcat
<1>3. (inBackend \o requestQueue) \o <<id>> = inBackend \o (requestQueue \o <<id>>)
    BY <1>1, <1>2, ConcatAssociative
<1>4. requestQueue' \in Seq(Ids)
    BY <1>1, AppendProperties
<1> QED
    BY <1>2, <1>3, <1>4 DEF Pipeline

LEMMA NewRequest ==
    ASSUME IInv, NEW id \in Ids, id \notin DOMAIN outstandingEvents,
           NEW ev, Known(ev), ev.cmd # "FlushLine", AddsRequest(id, ev),
           \A f \in DOMAIN outstandingEvents :
               outstandingEvents[f].cmd = "FlushLine" =>
                   outstandingEvents[f].baseAddr # ev.baseAddr,
           ev.cmd \in Reads =>
               \A k \in 1 .. ev.size :
                   Leaves(Requests, backing, Len(Pipeline), ev.baseAddr + k - 1, ev.expect[k])
    PROVE  /\ ControllerInv' /\ Kept
           /\ DOMAIN outstandingEvents' = DOMAIN outstandingEvents \cup {id}
           /\ outstandingEvents'[id] = ev
           /\ \A a, v : (IF StoresTo(ev, a) THEN Stored(ev, a) = v
                         ELSE Leaves(Requests, backing, Len(Pipeline), a, v))
                        => Leaves(Requests', backing', Len(Pipeline'), a, v)
<1>1. /\ DOMAIN outstandingEvents' = DOMAIN outstandingEvents \cup {id}
      /\ outstandingEvents'[id] = ev
      /\ \A n \in DOMAIN outstandingEvents : outstandingEvents'[n] = outstandingEvents[n]
    <2>1. outstandingEvents' = Added(outstandingEvents, id, ev)
        BY DEF AddsRequest
    <2> QED
        BY <2>1 DEF Added
<1>2. Kept
    BY <1>1 DEF Kept, AddsRequest
<1>3. Pipeline' = Append(Pipeline, id) /\ requestQueue' \in Seq(Ids)
    BY QueueIsPipeline DEF AddsRequest
<1>4. /\ IsInjective(Pipeline') /\ ToSet(Pipeline') = ToSet(Pipeline) \cup {id}
      /\ OnlyRequests'
    BY <1>1, <1>2, <1>3, RequestAdded
<1>5. /\ ReadsSettled'
      /\ \A a, v : (IF StoresTo(ev, a) THEN Stored(ev, a) = v
                    ELSE Leaves(Requests, backing, Len(Pipeline), a, v))
                   => Leaves(Requests', backing', Len(Pipeline'), a, v)
    BY <1>1, <1>2, <1>3, AddedSettles
<1>6. ControllerType'
    BY <1>1, <1>3 DEF IInv, TypeOK, ControllerType, AddsRequest, Known
<1>7. EventsKnown'
    BY <1>1 DEF IInv, EventsKnown, Known, ForLine, ForWord
<1>8. TableAgrees'
    <2>1. /\ ToSet(Pipeline') \cap DOMAIN waitingFlushes' = {}
          /\ ToSet(Pipeline') \cup DOMAIN waitingFlushes' = DOMAIN outstandingEvents'
        BY <1>1, <1>4 DEF IInv, TableAgrees, AddsRequest
    <2>2. pendingPIMEvents' = {n \in DOMAIN outstandingEvents' :
                                 "PIM" \in outstandingEvents'[n].flags}
        BY <1>1 DEF IInv, TableAgrees, AddsRequest
    <2> QED
        BY <1>4, <2>1, <2>2 DEF TableAgrees
<1>9. FlushesFollow'
    <2>1. ASSUME NEW f \in DOMAIN waitingFlushes
          PROVE  /\ outstandingEvents'[f] = outstandingEvents[f]
                 /\ outstandingEvents[f].cmd = "FlushLine"
                 /\ outstandingEvents[f].payload # << >> =>
                       Follows(Requests', Pipeline', outstandingEvents[f].baseAddr,
                               waitingFlushes[f])
        <3>1. f \in DOMAIN outstandingEvents /\ outstandingEvents[f].cmd = "FlushLine"
            BY DEF IInv, TableAgrees, FlushesFollow
        <3>2. ASSUME outstandingEvents[f].payload # << >>
              PROVE  Follows(Requests', Pipeline', outstandingEvents[f].baseAddr,
                             waitingFlushes[f])
            <4>1. Follows(Requests, Pipeline, outstandingEvents[f].baseAddr, waitingFlushes[f])
                BY <3>2 DEF IInv, FlushesFollow
            <4> QED
                BY <1>1, <1>2, <1>3, <3>1, <4>1, AddedFollows
        <3> QED
            BY <1>1, <3>1, <3>2
    <2>2. waitingFlushes' = waitingFlushes
        BY DEF AddsRequest
    <2> QED
        BY <2>1, <2>2 DEF FlushesFollow
<1> QED
    BY <1>1, <1>2, <1>4, <1>5, <1>6, <1>7, <1>8, <1>9 DEF ControllerInv

-----------------------------------------------------------------------------
(* The host: who waits for what, and what its lines hold.                  *)

(* Nothing under way concerns a place for which the host does not wait,    *)
(* but write-backs and what the PIM asks for.                              *)
LEMMA IdleAlone ==
    ASSUME IInv, NEW p, waiting[p] = "nothing",
           NEW id \in DOMAIN outstandingEvents,
           outstandingEvents[id].baseAddr = p
    PROVE  /\ ~ToHost(outstandingEvents[id])
           /\ outstandingEvents[id].cmd # "FlushLine"
           /\ ~(outstandingEvents[id].cmd \in Reads /\ outstandingEvents[id].flags = {})
<1> DEFINE ev == outstandingEvents[id]
<1>1. Known(ev)
    BY PipelineParts DEF IInv
<1>2. ~ToHost(ev)
    <2>1. ev.cmd # "nothing" /\ "nothing" \notin Flushes
        BY <1>1 DEF Known, Event, Reads, Writes, CleanPuts, Flushes
    <2> QED
        BY <2>1 DEF IInv, HostWaits, Expected
<1> HIDE DEF ev
<1>3. ev.cmd = "FlushLine" => ToHost(ev)
    BY <1>1 DEF Known, ForLine, ForWord, ToHost, Reads
<1> QED
    BY <1>2, <1>3 DEF ev, ToHost

(* New events: one at most is for the host to be answered, and it waits    *)
(* for nothing else there.                                                 *)
LEMMA HostAsks ==
    ASSUME IInv, NEW id \in DOMAIN outstandingEvents', id \notin DOMAIN outstandingEvents,
           NEW p \in Lines \cup Noncacheable, NEW w,
           \A n \in DOMAIN outstandingEvents' :
               \/ n \in DOMAIN outstandingEvents
                  /\ outstandingEvents'[n] = outstandingEvents[n]
               \/ ~ToHost(outstandingEvents'[n])
               \/ /\ n = id /\ outstandingEvents'[n].baseAddr = p
                  /\ \/ w = outstandingEvents'[n].cmd
                     \/ outstandingEvents'[n].cmd = "FlushLine" /\ w \in Flushes,
           waiting[p] = "nothing",
           waiting' = [waiting EXCEPT ![p] = w]
    PROVE  HostWaits'
<1>1. /\ \A o \in Lines \cup Noncacheable : o # p => waiting'[o] = waiting[o]
      /\ waiting'[p] = w
    BY DEF IInv, TypeOK
<1>2. ASSUME NEW n \in DOMAIN outstandingEvents', ToHost(outstandingEvents'[n])
      PROVE  \/ /\ n \in DOMAIN outstandingEvents
                /\ outstandingEvents'[n] = outstandingEvents[n]
                /\ outstandingEvents'[n].baseAddr # p
                /\ outstandingEvents'[n].baseAddr \in Lines \cup Noncacheable
             \/ /\ n = id /\ outstandingEvents'[n].baseAddr = p
                /\ \/ w = outstandingEvents'[n].cmd
                   \/ outstandingEvents'[n].cmd = "FlushLine" /\ w \in Flushes
    <2>1. CASE n \in DOMAIN outstandingEvents /\ outstandingEvents'[n] = outstandingEvents[n]
        <3>1. Known(outstandingEvents[n])
            BY <2>1, PipelineParts DEF IInv
        <3>2. outstandingEvents[n].baseAddr \in Lines \cup Noncacheable
            BY <3>1, EventWords
        <3>3. outstandingEvents[n].baseAddr # p
            BY <1>2, <2>1, IdleAlone
        <3> QED
            BY <2>1, <3>2, <3>3
    <2> QED
        BY <1>2, <2>1
<1>3. ASSUME NEW n \in DOMAIN outstandingEvents', ToHost(outstandingEvents'[n])
      PROVE  \/ waiting'[outstandingEvents'[n].baseAddr] = outstandingEvents'[n].cmd
             \/ /\ outstandingEvents'[n].cmd = "FlushLine"
                /\ waiting'[outstandingEvents'[n].baseAddr] \in Flushes
    <2>1. CASE outstandingEvents'[n].baseAddr = p
        BY <1>1, <1>2, <1>3, <2>1
    <2>2. CASE outstandingEvents'[n].baseAddr # p
        BY <1>1, <1>2, <1>3, <2>2 DEF IInv, HostWaits, Expected
    <2> QED
        BY <2>1, <2>2
<1>4. ASSUME NEW n \in DOMAIN outstandingEvents', ToHost(outstandingEvents'[n]),
             NEW o \in DOMAIN outstandingEvents', ToHost(outstandingEvents'[o]),
             outstandingEvents'[o].baseAddr = outstandingEvents'[n].baseAddr
      PROVE  o = n
    <2>1. CASE outstandingEvents'[n].baseAddr = p
        BY <1>2, <1>4, <2>1
    <2>2. CASE outstandingEvents'[n].baseAddr # p
        <3>1. /\ n \in DOMAIN outstandingEvents /\ o \in DOMAIN outstandingEvents
              /\ outstandingEvents'[n] = outstandingEvents[n]
              /\ outstandingEvents'[o] = outstandingEvents[o]
            BY <1>2, <1>4, <2>2
        <3> QED
            BY <1>4, <3>1 DEF IInv, HostWaits
    <2> QED
        BY <2>1, <2>2
<1>5. \A ev : ToHost(ev)' <=> ToHost(ev)
    BY DEF ToHost
<1> QED
    BY <1>3, <1>4 DEF HostWaits, Expected, ToHost

LEMMA LineWords ==
    ASSUME NEW content \in [Address -> Values], NEW line \in Lines
    PROVE  /\ Holding(content, line) \in Seq(Values) /\ Len(Holding(content, line)) = lineSize
           /\ DOMAIN Holding(content, line) = 1 .. lineSize
           /\ \A k \in 1 .. lineSize :
                 line + k - 1 \in Words(line) /\ Holding(content, line)[k] = content[line + k - 1]
           /\ \A a \in Words(line) :
                 a - line + 1 \in 1 .. lineSize /\ Holding(content, line)[a - line + 1] = content[a]
<1>1. line \in Nat /\ Words(line) \subseteq Address /\ lineSize \in Nat
    BY Constants
<1>2. \A k \in 1 .. lineSize : line + k - 1 \in Words(line)
    BY <1>1 DEF Words
<1>3. \A k \in 1 .. lineSize : content[line + k - 1] \in Values
    BY <1>1, <1>2
<1>4. Holding(content, line) \in [1 .. lineSize -> Values]
    BY <1>3 DEF Holding
<1>5. Holding(content, line) \in Seq(Values) /\ DOMAIN Holding(content, line) = 1 .. lineSize
    BY <1>1, <1>4, SeqDef
<1>6. Len(Holding(content, line)) = lineSize
    BY <1>1, <1>5, LenProperties
<1>7. ASSUME NEW a \in Words(line)
      PROVE  a - line + 1 \in 1 .. lineSize /\ line + (a - line + 1) - 1 = a
    BY <1>1 DEF Words
<1> QED
    BY <1>2, <1>5, <1>6, <1>7 DEF Holding

(* One place changes, for which nothing is under way that looks at it, and *)
(* new events look at what is there.                                       *)
LEMMA LinesStay ==
    ASSUME IInv, NEW p, p \in Lines => waiting[p] = "nothing",
           \A line \in Lines : line # p =>
               /\ cache'[line] = cache[line]
               /\ \A a \in Words(line) : latest'[a] = latest[a],
           p \in Lines => (cache'[p].state # "I" => cache'[p].data = Holding(latest', p)),
           \A n \in DOMAIN outstandingEvents' :
               \/ n \in DOMAIN outstandingEvents
                  /\ outstandingEvents'[n] = outstandingEvents[n]
               \/ CurrentFor(cache', latest', outstandingEvents'[n])
    PROVE  LinesCurrent'
<1>1. latest \in [Address -> Values]
    BY DEF IInv, TypeOK
<1>2. ASSUME NEW line \in Lines, line # p
      PROVE  Holding(latest', line) = Holding(latest, line) /\ cache'[line] = cache[line]
    <2>1. \A k \in 1 .. lineSize : line + k - 1 \in Words(line)
        BY <1>1, LineWords
    <2> QED
        BY <1>2, <2>1 DEF Holding
<1>3. ASSUME NEW line \in Lines, cache'[line].state # "I"
      PROVE  cache'[line].data = Holding(latest', line)
    BY <1>2, <1>3 DEF IInv, LinesCurrent
<1>4. ASSUME NEW n \in DOMAIN outstandingEvents,
             outstandingEvents'[n] = outstandingEvents[n]
      PROVE  CurrentFor(cache', latest', outstandingEvents'[n])
    <2> DEFINE ev == outstandingEvents[n]
    <2>1. Known(ev) /\ CurrentFor(cache, latest, ev)
        BY PipelineParts DEF IInv, LinesCurrent
    <2>2. (ev.cmd = "FlushLine" \/ (ev.cmd \in Reads /\ ev.flags = {})) =>
              ev.baseAddr \in Lines /\ ev.baseAddr # p
        <3>1. (ev.cmd = "FlushLine" \/ (ev.cmd \in Reads /\ ev.flags = {})) => ev.baseAddr \in Lines
            BY <2>1 DEF Known, ForLine, ForWord, Reads
        <3>2. p \in Lines /\ ev.baseAddr = p =>
                  ev.cmd # "FlushLine" /\ ~(ev.cmd \in Reads /\ ev.flags = {})
            BY IdleAlone
        <3> QED
            BY <3>1, <3>2
    <2> HIDE DEF ev
    <2>3. ASSUME (ev.cmd = "FlushLine" \/ (ev.cmd \in Reads /\ ev.flags = {}))
          PROVE  CurrentFor(cache', latest', ev)
        <3>1. /\ Holding(latest', ev.baseAddr) = Holding(latest, ev.baseAddr)
              /\ cache'[ev.baseAddr] = cache[ev.baseAddr]
            BY <1>2, <2>2, <2>3
        <3> QED
            BY <2>1, <3>1 DEF CurrentFor
    <2>4. ASSUME ~((ev.cmd = "FlushLine" \/ (ev.cmd \in Reads /\ ev.flags = {})))
          PROVE  CurrentFor(cache', latest', ev)
        BY <2>4 DEF CurrentFor
    <2>5. CurrentFor(cache', latest', ev)
        BY <2>3, <2>4
    <2> QED
        BY <1>4, <2>5 DEF ev
<1> QED
    BY <1>3, <1>4 DEF LinesCurrent

(* What is not in a dirty line settles.                                    *)
LEMMA NotDirty ==
    ASSUME IInv, NEW p \in Lines \cup Noncacheable, NEW a \in Place(p),
           p \in Lines => cache[p].state # "M"
    PROVE  Leaves(Requests, backing, Len(Pipeline), a, latest[a]) /\ a \in Address
<1>1. a \in Address /\ \A line \in Lines : a \in Words(line) => line = p
    BY PlacesApart DEF Place
<1> QED
    BY <1>1 DEF IInv, StoresSettled

LEMMA Assembled ==
    ASSUME ControllerInv', HostType', fault' \in {"none", "custom"},
           HostWaits', LinesCurrent', StoresSettled'
    PROVE  IInv'
BY DEF ControllerInv, ControllerType, HostType, IInv, TypeOK, OnlyCustomFaults

-----------------------------------------------------------------------------
(* The steps of host and PIM that ask for one thing.                       *)

LEMMA PassedAlong ==
    ASSUME IInv, NEW ev, ev.cmd \in PassedOn, handleEvent(ev), UNCHANGED memVars,
           pendingPIMEvents' = IF "PIM" \in ev.flags THEN pendingPIMEvents \cup {FirstId}
                               ELSE pendingPIMEvents
    PROVE  /\ FirstId \in Ids /\ FirstId \notin DOMAIN outstandingEvents
           /\ AddsRequest(FirstId, Posted(ev))
<1>1. handlePassedOn(ev)
    BY DEF handleEvent, handleFlush, handleClean, PassedOn, Reads, Writes, CleanPuts,
           Flushes
<1>2. FirstId \in Ids /\ FirstId \notin DOMAIN outstandingEvents
    BY <1>1, FreshIds DEF handlePassedOn
<1>3. "PIM" \in Posted(ev).flags <=> "PIM" \in ev.flags
    BY DEF Posted
<1> QED
    BY <1>1, <1>2, <1>3 DEF handlePassedOn, AddsRequest, memVars

LEMMA FetchStep ==
    ASSUME IInv, NEW line \in Lines, NEW cmd \in Reads, Fetch(line, cmd)
    PROVE  IInv'
<1>1. PICK a \in Words(line) : Sends(line, Read(cmd, a, line, lineSize, {}, Current(line)))
    BY DEF Fetch
<1> DEFINE ev == Read(cmd, a, line, lineSize, {}, Current(line))
<1>2. /\ latest \in [Address -> Values] /\ Current(line) = Holding(latest, line)
      /\ cache[line].state = "I" /\ waiting[line] = "nothing" /\ fault = "none"
    BY <1>1 DEF IInv, TypeOK, Current, Holding, Fetch, Sends, Idle
<1>3. /\ ev.cmd = cmd /\ ev.addr = a /\ ev.baseAddr = line /\ ev.size = lineSize
      /\ ev.payload = << >> /\ ev.flags = {} /\ ev.expect = Holding(latest, line)
      /\ Posted(ev) = ev /\ ev.cmd \in PassedOn
    BY <1>2 DEF Read, Posted, PassedOn, Reads
<1>4. ev \in Event
    <2>1. /\ a \in Address /\ line \in Address /\ lineSize \in Nat
          /\ Holding(latest, line) \in Seq(Values) /\ << >> \in Seq(Values)
        BY <1>2, LineWords, Constants, EmptySeq
    <2> QED
        BY <1>2, <2>1 DEF Read, Event
<1>5. Known(ev)
    BY <1>2, <1>3, <1>4, LineWords DEF Known, ForLine
<1>6. /\ FirstId \in Ids /\ FirstId \notin DOMAIN outstandingEvents
      /\ AddsRequest(FirstId, ev)
    <2>1. handleEvent(ev) /\ UNCHANGED memVars /\ UNCHANGED pendingPIMEvents
        BY <1>1 DEF Sends
    <2> HIDE DEF ev
    <2> QED
        BY <1>3, <2>1, PassedAlong
<1> HIDE DEF ev
<1>7. \A k \in 1 .. ev.size :
          Leaves(Requests, backing, Len(Pipeline), ev.baseAddr + k - 1, ev.expect[k])
    <2>1. \A b \in Words(line) : Leaves(Requests, backing, Len(Pipeline), b, latest[b])
        BY <1>2, NotDirty DEF Place
    <2> QED
        BY <1>2, <1>3, <2>1, LineWords
<1>8. \A f \in DOMAIN outstandingEvents :
          outstandingEvents[f].cmd = "FlushLine" => outstandingEvents[f].baseAddr # ev.baseAddr
    BY <1>2, <1>3, IdleAlone
<1>9. /\ ControllerInv' /\ Kept
      /\ DOMAIN outstandingEvents' = DOMAIN outstandingEvents \cup {FirstId}
      /\ outstandingEvents'[FirstId] = ev
      /\ \A b, v : (IF StoresTo(ev, b) THEN Stored(ev, b) = v
                    ELSE Leaves(Requests, backing, Len(Pipeline), b, v))
                   => Leaves(Requests', backing', Len(Pipeline'), b, v)
    BY <1>3, <1>5, <1>6, <1>7, <1>8, NewRequest DEF Reads
<1>10. /\ cache' = cache /\ latest' = latest /\ fault' = fault
       /\ waiting' = [waiting EXCEPT ![line] = cmd]
    BY <1>1 DEF Fetch, Sends
<1>11. HostType'
    BY <1>10 DEF IInv, TypeOK, HostType
<1>12. HostWaits'
    <2>1. \A n \in DOMAIN outstandingEvents' :
              \/ n \in DOMAIN outstandingEvents
                 /\ outstandingEvents'[n] = outstandingEvents[n]
              \/ ~ToHost(outstandingEvents'[n])
              \/ /\ n = FirstId /\ outstandingEvents'[n].baseAddr = line
                 /\ \/ cmd = outstandingEvents'[n].cmd
                    \/ outstandingEvents'[n].cmd = "FlushLine" /\ cmd \in Flushes
        BY <1>3, <1>9 DEF Kept
    <2>2. FirstId \in DOMAIN outstandingEvents' /\ line \in Lines \cup Noncacheable
        BY <1>9
    <2> QED
        BY <1>2, <1>6, <1>10, <2>1, <2>2, HostAsks
<1>13. LinesCurrent'
    <2>1. CurrentFor(cache', latest', ev)
        BY <1>2, <1>3, <1>10 DEF CurrentFor, Reads
    <2>2. \A n \in DOMAIN outstandingEvents' :
              \/ n \in DOMAIN outstandingEvents
                 /\ outstandingEvents'[n] = outstandingEvents[n]
              \/ CurrentFor(cache', latest', outstandingEvents'[n])
        BY <1>9, <2>1 DEF Kept
    <2>3. cache'[line].state = "I"
        BY <1>2, <1>10
    <2> QED
        BY <1>2, <1>10, <2>2, <2>3, LinesStay
<1>14. StoresSettled'
    <2>1. \A b : ~StoresTo(ev, b)
        BY <1>3 DEF StoresTo, Reads, Writes
    <2> QED
        BY <1>9, <1>10, <2>1 DEF IInv, StoresSettled
<1> QED
    BY <1>2, <1>9, <1>10, <1>11, <1>12, <1>13, <1>14, Assembled

(* New events that the host is not to be answered.                         *)
LEMMA HostStays ==
    ASSUME IInv,
           \A n \in DOMAIN outstandingEvents' :
               \/ n \in DOMAIN outstandingEvents
                  /\ outstandingEvents'[n] = outstandingEvents[n]
               \/ ~ToHost(outstandingEvents'[n]),
           waiting' = waiting
    PROVE  HostWaits'
<1>1. ASSUME NEW n \in DOMAIN outstandingEvents', ToHost(outstandingEvents'[n])
      PROVE  n \in DOMAIN outstandingEvents /\ outstandingEvents'[n] = outstandingEvents[n]
    BY <1>1
<1>2. ASSUME NEW n \in DOMAIN outstandingEvents', ToHost(outstandingEvents'[n])
      PROVE  \/ waiting'[outstandingEvents'[n].baseAddr] = outstandingEvents'[n].cmd
             \/ /\ outstandingEvents'[n].cmd = "FlushLine"
                /\ waiting'[outstandingEvents'[n].baseAddr] \in Flushes
    BY <1>1, <1>2 DEF IInv, HostWaits, Expected
<1>3. ASSUME NEW n \in DOMAIN outstandingEvents', ToHost(outstandingEvents'[n]),
             NEW o \in DOMAIN outstandingEvents', ToHost(outstandingEvents'[o]),
             outstandingEvents'[o].baseAddr = outstandingEvents'[n].baseAddr
      PROVE  o = n
    BY <1>1, <1>3 DEF IInv, HostWaits
<1> QED
    BY <1>2, <1>3 DEF HostWaits, Expected, ToHost

(* Host or PIM ask for a word.                                             *)
LEMMA WordStep ==
    ASSUME IInv, fault = "none", NEW a \in Noncacheable,
           NEW ev \in Event, ForWord(ev), ev.baseAddr = a,
           handleEvent(ev), UNCHANGED <<memVars, cache, fault>>,
           pendingPIMEvents' = IF "PIM" \in ev.flags THEN pendingPIMEvents \cup {FirstId}
                               ELSE pendingPIMEvents,
           IF ToHost(ev)
           THEN waiting[a] = "nothing" /\ waiting' = [waiting EXCEPT ![a] = ev.cmd]
           ELSE waiting' = waiting,
           ev.cmd = "GetS" => ev.expect = <<latest[a]>>,
           IF ev.cmd = "Write"
           THEN \E v \in Values : latest' = [latest EXCEPT ![a] = v] /\ ev.payload = <<v>>
           ELSE latest' = latest
    PROVE  IInv'
<1>1. /\ latest \in [Address -> Values] /\ a \in Address /\ a \notin Lines /\ a \in Nat
      /\ Place(a) = {a} /\ \A line \in Lines : a \notin Words(line)
    BY Constants DEF IInv, TypeOK, Place
<1>2. /\ Posted(ev) = ev /\ ev.cmd \in PassedOn /\ ev.cmd # "FlushLine" /\ Known(ev)
      /\ ev.cmd \in Writes => ev.cmd = "Write"
      /\ ev.cmd \in Reads => ev.cmd = "GetS" /\ ev.size = 1
      /\ ~(ev.cmd \in Reads /\ ev.flags = {})
    BY DEF ForWord, ForLine, Posted, PassedOn, Reads, Writes, Known
<1>3. /\ FirstId \in Ids /\ FirstId \notin DOMAIN outstandingEvents
      /\ AddsRequest(FirstId, ev)
    BY <1>2, PassedAlong
<1>4. \A f \in DOMAIN outstandingEvents :
          outstandingEvents[f].cmd = "FlushLine" => outstandingEvents[f].baseAddr # ev.baseAddr
    <2>1. \A f \in DOMAIN outstandingEvents : Known(outstandingEvents[f])
        BY PipelineParts DEF IInv
    <2> QED
        BY <1>1, <2>1 DEF Known, ForLine, ForWord
<1>5. ev.cmd \in Reads =>
          \A k \in 1 .. ev.size :
              Leaves(Requests, backing, Len(Pipeline), ev.baseAddr + k - 1, ev.expect[k])
    <2>1. Leaves(Requests, backing, Len(Pipeline), a, latest[a])
        BY <1>1, NotDirty
    <2>2. ASSUME ev.cmd \in Reads, NEW k \in 1 .. ev.size
          PROVE  ev.baseAddr + k - 1 = a /\ ev.expect[k] = latest[a]
        <3>1. k \in 1 .. 1
            BY <1>2, <2>2
        <3>2. k = 1 /\ a + 1 - 1 = a
            BY <1>1, <3>1
        <3> QED
            BY <1>2, <2>2, <3>2
    <2> QED
        BY <2>1, <2>2
<1>6. /\ ControllerInv' /\ Kept
      /\ DOMAIN outstandingEvents' = DOMAIN outstandingEvents \cup {FirstId}
      /\ outstandingEvents'[FirstId] = ev
      /\ \A b, v : (IF StoresTo(ev, b) THEN Stored(ev, b) = v
                    ELSE Leaves(Requests, backing, Len(Pipeline), b, v))
                   => Leaves(Requests', backing', Len(Pipeline'), b, v)
    BY <1>2, <1>3, <1>4, <1>5, NewRequest
<1>7. /\ latest' \in [Address -> Values] /\ \A b \in Address : b # a => latest'[b] = latest[b]
      /\ ev.cmd = "Write" => ev.payload = <<latest'[a]>>
      /\ ev.cmd # "Write" => latest' = latest
    BY <1>1
<1>8. HostType'
    <2>1. waiting' \in [Lines \cup Noncacheable ->
                          Reads \cup Flushes \cup {"nothing", "Write", "CustomReq"}]
        <3>1. ev.cmd \in Reads \cup Flushes \cup {"nothing", "Write", "CustomReq"}
            BY DEF ForWord, ForLine, Reads
        <3> QED
            BY <3>1 DEF IInv, TypeOK
    <2> QED
        BY <1>7, <2>1 DEF IInv, TypeOK, HostType
<1>9. \A n \in DOMAIN outstandingEvents' :
          \/ n \in DOMAIN outstandingEvents
             /\ outstandingEvents'[n] = outstandingEvents[n]
          \/ n = FirstId /\ outstandingEvents'[n] = ev
    BY <1>6 DEF Kept
<1>10. HostWaits'
    <2>1. CASE ToHost(ev)
        <3>1. \A n \in DOMAIN outstandingEvents' :
                  \/ n \in DOMAIN outstandingEvents
                     /\ outstandingEvents'[n] = outstandingEvents[n]
                  \/ ~ToHost(outstandingEvents'[n])
                  \/ /\ n = FirstId /\ outstandingEvents'[n].baseAddr = a
                     /\ \/ ev.cmd = outstandingEvents'[n].cmd
                        \/ outstandingEvents'[n].cmd = "FlushLine" /\ ev.cmd \in Flushes
            BY <1>9
        <3>2. FirstId \in DOMAIN outstandingEvents' /\ a \in Lines \cup Noncacheable
            BY <1>6
        <3> QED
            BY <1>3, <2>1, <3>1, <3>2, HostAsks
    <2>2. CASE ~ToHost(ev)
        BY <1>9, <2>2, HostStays
    <2> QED
        BY <2>1, <2>2
<1>11. LinesCurrent'
    <2>1. CurrentFor(cache', latest', ev)
        BY <1>2 DEF CurrentFor
    <2>2. \A line \in Lines : /\ cache'[line] = cache[line]
                              /\ \A b \in Words(line) : latest'[b] = latest[b]
        BY <1>1, <1>7, Constants
    <2> QED
        BY <1>1, <1>9, <2>1, <2>2, LinesStay
<1>12. StoresSettled'
    <2> SUFFICES ASSUME NEW b \in Address
                 PROVE  \/ \E line \in Lines : b \in Words(line) /\ cache'[line].state = "M"
                        \/ Leaves(Requests', backing', Len(Pipeline'), b, latest'[b])
        BY DEF StoresSettled
    <2>1. StoresTo(ev, b) <=> ev.cmd = "Write" /\ b = a
        BY <1>1, <1>2, StoreWords DEF Writes
    <2>2. CASE StoresTo(ev, b)
        <3>1. Stored(ev, b) = ev.payload[a - a + 1] /\ a - a + 1 = 1
            BY <1>1, <1>2, <2>1, <2>2, StoreWords
        <3>2. Stored(ev, b) = latest'[b]
            BY <1>7, <2>1, <2>2, <3>1
        <3> QED
            BY <1>6, <2>2, <3>2
    <2>3. CASE ~StoresTo(ev, b)
        <3>1. latest'[b] = latest[b]
            BY <1>7, <2>1, <2>3
        <3> QED
            BY <1>6, <2>3, <3>1 DEF IInv, StoresSettled
    <2> QED
        BY <2>2, <2>3
<1> QED
    BY <1>6, <1>8, <1>10, <1>11, <1>12, Assembled

LEMMA WordSteps ==
    ASSUME IInv, NEW a \in Noncacheable,
           Load(a) \/ Store(a) \/ Custom(a) \/ PIMRead(a) \/ PIMWrite(a)
    PROVE  IInv'
<1>1. latest \in [Address -> Values] /\ a \in Address /\ latest[a] \in Values
    BY Constants DEF IInv, TypeOK
<1>2. << >> \in Seq(Values) /\ \A v \in Values : <<v>> \in Seq(Values) /\ Len(<<v>>) = 1
    OBVIOUS
<1>3. CASE Load(a)
    <2> DEFINE ev == Read("GetS", a, a, 1, {"NONCACHEABLE"}, <<latest[a]>>)
    <2>1. /\ ev \in Event /\ ForWord(ev) /\ ev.baseAddr = a /\ ToHost(ev)
          /\ ev.cmd = "GetS" /\ ev.expect = <<latest[a]>> /\ "PIM" \notin ev.flags
        BY <1>1, <1>2 DEF Read, Event, ForWord, ToHost, Reads
    <2>2. /\ fault = "none" /\ waiting[a] = "nothing" /\ handleEvent(ev)
          /\ UNCHANGED <<memVars, cache, fault>> /\ pendingPIMEvents' = pendingPIMEvents
          /\ waiting' = [waiting EXCEPT ![a] = "GetS"] /\ latest' = latest
        BY <1>3 DEF Load, Sends, Idle
    <2> HIDE DEF ev
    <2> QED
        BY <2>1, <2>2, WordStep
<1>4. CASE Store(a)
    <2>1. PICK v \in Values \ {latest[a]} :
              /\ Sends(a, Write("Write", a, a, <<v>>, {"NONCACHEABLE"}))
              /\ latest' = [latest EXCEPT ![a] = v]
        BY <1>4 DEF Store
    <2> DEFINE ev == Write("Write", a, a, <<v>>, {"NONCACHEABLE"})
    <2>2. /\ ev \in Event /\ ForWord(ev) /\ ev.baseAddr = a /\ ToHost(ev)
          /\ ev.cmd = "Write" /\ ev.payload = <<v>> /\ "PIM" \notin ev.flags
        BY <1>1, <1>2 DEF Write, Event, ForWord, ToHost, Writes
    <2>3. /\ fault = "none" /\ waiting[a] = "nothing" /\ handleEvent(ev)
          /\ UNCHANGED <<memVars, cache, fault>> /\ pendingPIMEvents' = pendingPIMEvents
          /\ waiting' = [waiting EXCEPT ![a] = "Write"]
        BY <1>4, <2>1 DEF Store, Sends, Idle
    <2> HIDE DEF ev
    <2> QED
        BY <2>1, <2>2, <2>3, WordStep
<1>5. CASE Custom(a)
    <2> DEFINE ev == Read("CustomReq", a, a, 0, {}, << >>)
    <2>1. /\ ev \in Event /\ ForWord(ev) /\ ev.baseAddr = a /\ ToHost(ev)
          /\ ev.cmd = "CustomReq" /\ "PIM" \notin ev.flags
        BY <1>1, <1>2 DEF Read, Event, ForWord, ToHost
    <2>2. /\ fault = "none" /\ waiting[a] = "nothing" /\ handleEvent(ev)
          /\ UNCHANGED <<memVars, cache, fault>> /\ pendingPIMEvents' = pendingPIMEvents
          /\ waiting' = [waiting EXCEPT ![a] = "CustomReq"] /\ latest' = latest
        BY <1>5 DEF Custom, Sends, Idle
    <2> HIDE DEF ev
    <2> QED
        BY <2>1, <2>2, WordStep
<1>6. CASE PIMRead(a)
    <2> DEFINE ask == Read("GetS", a, a, 1, {"NONCACHEABLE"}, <<latest[a]>>)
               ev == [ask EXCEPT !.flags = @ \cup {"PIM"}]
    <2>1. /\ ev \in Event /\ ForWord(ev) /\ ev.baseAddr = a /\ ~ToHost(ev)
          /\ ev.cmd = "GetS" /\ ev.expect = <<latest[a]>> /\ "PIM" \in ev.flags
        <3>1. {"NONCACHEABLE"} \cup {"PIM"} = {"NONCACHEABLE", "PIM"}
            OBVIOUS
        <3> QED
            BY <1>1, <1>2, <3>1 DEF Read, Event, ForWord, ToHost, Reads
    <2>2. /\ fault = "none" /\ handleEvent(ev)
          /\ UNCHANGED <<memVars, cache, fault>>
          /\ pendingPIMEvents' = pendingPIMEvents \cup {FirstId}
          /\ waiting' = waiting /\ latest' = latest
        BY <1>6 DEF PIMRead, Requested, hostVars
    <2> HIDE DEF ev
    <2> QED
        BY <2>1, <2>2, WordStep
<1>7. CASE PIMWrite(a)
    <2>1. PICK v \in Values \ {latest[a]} :
              /\ Requested(Write("Write", a, a, <<v>>, {"NONCACHEABLE"}))
              /\ latest' = [latest EXCEPT ![a] = v]
        BY <1>7 DEF PIMWrite
    <2> DEFINE ask == Write("Write", a, a, <<v>>, {"NONCACHEABLE"})
               ev == [ask EXCEPT !.flags = @ \cup {"PIM"}]
    <2>2. /\ ev \in Event /\ ForWord(ev) /\ ev.baseAddr = a /\ ~ToHost(ev)
          /\ ev.cmd = "Write" /\ ev.payload = <<v>> /\ "PIM" \in ev.flags
        <3>1. {"NONCACHEABLE"} \cup {"PIM"} = {"NONCACHEABLE", "PIM"}
            OBVIOUS
        <3> QED
            BY <1>1, <1>2, <3>1 DEF Write, Event, ForWord, ToHost, Writes
    <2>3. /\ fault = "none" /\ handleEvent(ev)
          /\ UNCHANGED <<memVars, cache, fault>>
          /\ pendingPIMEvents' = pendingPIMEvents \cup {FirstId}
          /\ waiting' = waiting
        BY <2>1 DEF Requested, hostVars
    <2> HIDE DEF ev
    <2> QED
        BY <2>1, <2>2, <2>3, WordStep
<1> QED
    BY <1>3, <1>4, <1>5, <1>6, <1>7

-----------------------------------------------------------------------------
(* The steps of the host with a line, and those that ask for nothing.      *)

(* Nothing of the controller's changes.                                    *)
LEMMA ControllerStays ==
    ASSUME IInv, UNCHANGED <<controllerVars, memVars, pendingPIMEvents>>
    PROVE  ControllerInv' /\ Requests' = Requests /\ Pipeline' = Pipeline
<1>1. /\ Pipeline' = Pipeline /\ outstandingEvents' = outstandingEvents
      /\ requestQueue' = requestQueue /\ inBackend' = inBackend
      /\ waitingFlushes' = waitingFlushes /\ backing' = backing
      /\ pendingPIMEvents' = pendingPIMEvents
    BY DEF Pipeline, controllerVars, memVars
<1>2. Kept
    BY <1>1 DEF Kept
<1>3. Requests' = Requests /\ ReadsSettled' /\ OnlyRequests'
    BY <1>1, <1>2, RequestsStay
<1>4. ControllerType'
    BY <1>1 DEF IInv, TypeOK, ControllerType
<1>5. TableAgrees'
    BY <1>1 DEF IInv, TableAgrees
<1>6. EventsKnown'
    BY <1>1 DEF IInv, EventsKnown, ForLine, ForWord
<1>7. FlushesFollow'
    BY <1>1, <1>3 DEF IInv, FlushesFollow
<1> QED
    BY <1>1, <1>3, <1>4, <1>5, <1>6, <1>7 DEF ControllerInv

LEMMA HitStep ==
    ASSUME IInv, NEW line \in Lines, Hit(line)
    PROVE  IInv'
<1>1. PICK a \in Words(line), v \in Values :
          /\ latest' = [latest EXCEPT ![a] = v]
          /\ cache' = [cache EXCEPT ![line].state = "M", ![line].data[a - line + 1] = v]
    BY DEF Hit
<1>2. /\ fault = "none" /\ waiting[line] = "nothing" /\ cache[line].state # "I"
      /\ UNCHANGED <<waiting, controllerVars, memVars, pendingPIMEvents, fault>>
    BY DEF Hit, Idle
<1>3. /\ latest \in [Address -> Values] /\ a \in Address /\ line \in Nat /\ a \in Nat
      /\ cache \in [Lines -> [state : {"I", "E", "M"}, data : Seq(Values)]]
      /\ cache[line].data = Holding(latest, line)
    BY <1>2, Constants DEF IInv, TypeOK, LinesCurrent
<1>4. /\ latest' \in [Address -> Values] /\ latest'[a] = v
      /\ \A b \in Address : b # a => latest'[b] = latest[b]
    BY <1>1, <1>3
<1> DEFINE new == [cache[line].data EXCEPT ![a - line + 1] = v]
<1>5. cache' = [cache EXCEPT ![line] = [state |-> "M", data |-> new]]
    <2> DEFINE c == [cache EXCEPT ![line].state = "M"]
    <2>1. /\ cache[line] \in [state : {"I", "E", "M"}, data : Seq(Values)]
          /\ c[line] = [state |-> "M", data |-> cache[line].data]
        BY <1>3
    <2>2. cache' = [c EXCEPT ![line].data[a - line + 1] = v]
        BY <1>1
    <2>3. DOMAIN c = Lines /\ DOMAIN cache = Lines /\ \A l \in Lines : l # line => c[l] = cache[l]
        BY <1>3
    <2> HIDE DEF c
    <2>4. cache' = [c EXCEPT ![line] = [c[line] EXCEPT !.data = [@ EXCEPT ![a - line + 1] = v]]]
        BY <2>2
    <2>5. [c[line] EXCEPT !.data = [@ EXCEPT ![a - line + 1] = v]] = [state |-> "M", data |-> new]
        BY <2>1
    <2> HIDE DEF new
    <2> QED
        BY <2>3, <2>4, <2>5
<1>6. new = Holding(latest', line)
    <2> DEFINE H == Holding(latest, line)
    <2>1. /\ DOMAIN H = 1 .. lineSize /\ a - line + 1 \in 1 .. lineSize
          /\ \A k \in 1 .. lineSize : line + k - 1 \in Words(line) /\ H[k] = latest[line + k - 1]
        BY <1>3, LineWords
    <2>2. /\ DOMAIN Holding(latest', line) = 1 .. lineSize
          /\ \A k \in 1 .. lineSize : Holding(latest', line)[k] = latest'[line + k - 1]
        BY DEF Holding
    <2>3. /\ DOMAIN new = 1 .. lineSize /\ new[a - line + 1] = v
          /\ \A k \in 1 .. lineSize : k # a - line + 1 => new[k] = H[k]
        BY <1>3, <2>1
    <2> HIDE DEF H
    <2>4. ASSUME NEW k \in 1 .. lineSize PROVE new[k] = Holding(latest', line)[k]
        <3>1. line + k - 1 \in Address /\ (k = a - line + 1 <=> line + k - 1 = a)
            <4>1. line + k - 1 \in Address
                BY <2>1, Constants
            <4> QED
                BY <1>3, <4>1
        <3>2. CASE k = a - line + 1
            BY <1>4, <2>2, <2>3, <3>1, <3>2
        <3>3. CASE k # a - line + 1
            BY <1>4, <2>1, <2>2, <2>3, <3>1, <3>3
        <3> QED
            BY <3>2, <3>3
    <2>5. new = [k \in DOMAIN new |-> new[k]]
        OBVIOUS
    <2> HIDE DEF new
    <2>6. Holding(latest', line) = [k \in 1 .. lineSize |-> latest'[line + k - 1]]
        BY DEF Holding
    <2> QED
        BY <2>2, <2>3, <2>4, <2>5, <2>6
<1> HIDE DEF new
<1>7. /\ new \in Seq(Values) /\ Len(new) = lineSize
    BY <1>4, <1>6, LineWords
<1>8. /\ \A l \in Lines : l # line => cache'[l] = cache[l]
      /\ cache'[line] = [state |-> "M", data |-> new]
    BY <1>3, <1>5
<1>9. ControllerInv' /\ Requests' = Requests /\ Pipeline' = Pipeline /\ backing' = backing
    BY <1>2, ControllerStays DEF memVars
<1>10. outstandingEvents' = outstandingEvents
    BY <1>2 DEF controllerVars
<1>11. HostType'
    <2>1. cache' \in [Lines -> [state : {"I", "E", "M"}, data : Seq(Values)]]
        BY <1>3, <1>5, <1>7
    <2>2. ASSUME NEW l \in Lines PROVE Len(cache'[l].data) = lineSize
        <3>1. CASE l = line
            BY <1>7, <1>8, <3>1
        <3>2. CASE l # line
            BY <1>8, <3>2 DEF IInv, TypeOK
        <3> QED
            BY <3>1, <3>2
    <2> QED
        BY <1>2, <1>4, <2>1, <2>2 DEF IInv, TypeOK, HostType
<1>12. HostWaits'
    BY <1>2, <1>10, HostStays
<1>13. LinesCurrent'
    <2>1. \A l \in Lines : l # line =>
              /\ cache'[l] = cache[l] /\ \A b \in Words(l) : latest'[b] = latest[b]
        <3>1. \A l \in Lines : Words(l) \subseteq Address
                               /\ (l # line => Words(l) \cap Words(line) = {})
            BY Constants, CachedMemoryAssumption
        <3> QED
            BY <1>4, <1>8, <3>1
    <2>2. cache'[line].data = Holding(latest', line)
        BY <1>6, <1>8
    <2> QED
        BY <1>2, <1>10, <2>1, <2>2, LinesStay
<1>14. StoresSettled'
    <2> SUFFICES ASSUME NEW b \in Address
                 PROVE  \/ \E l \in Lines : b \in Words(l) /\ cache'[l].state = "M"
                        \/ Leaves(Requests', backing', Len(Pipeline'), b, latest'[b])
        BY DEF StoresSettled
    <2>1. CASE b = a
        BY <1>8, <2>1
    <2>2. CASE b # a
        <3>1. /\ latest'[b] = latest[b]
              /\ \A l \in Lines : cache[l].state = "M" => cache'[l].state = "M"
            BY <1>4, <1>8, <2>2
        <3> QED
            BY <1>9, <3>1 DEF IInv, StoresSettled
    <2> QED
        BY <2>1, <2>2
<1> QED
    BY <1>2, <1>9, <1>11, <1>12, <1>13, <1>14, Assembled

LEMMA CustomDecodedStep ==
    ASSUME IInv, NEW a, CustomDecoded(a)
    PROVE  IInv'
<1>1. /\ fault' = "custom" /\ UNCHANGED <<controllerVars, memVars, pendingPIMEvents>>
      /\ UNCHANGED <<cache, waiting, latest>>
    BY DEF CustomDecoded, hostVars
<1>2. ControllerInv' /\ Requests' = Requests /\ Pipeline' = Pipeline
      /\ outstandingEvents' = outstandingEvents /\ backing' = backing
    BY <1>1, ControllerStays DEF controllerVars, memVars
<1>3. HostType' /\ HostWaits' /\ LinesCurrent' /\ StoresSettled'
    <2>1. HostWaits'
        BY <1>1, <1>2, HostStays
    <2> QED
        BY <1>1, <1>2, <2>1 DEF IInv, TypeOK, HostType, LinesCurrent, StoresSettled
<1> QED
    BY <1>1, <1>2, <1>3, Assembled

LEMMA IssueStep ==
    ASSUME IInv, Issue
    PROVE  IInv'
<1>1. /\ requestQueue # << >> /\ fault = "none"
      /\ inBackend' = Append(inBackend, Head(requestQueue))
      /\ requestQueue' = Tail(requestQueue)
      /\ UNCHANGED <<cache, waiting, outstandingEvents, waitingFlushes, backing,
                     pendingPIMEvents, latest, fault>>
    BY DEF Issue, hostVars
<1>2. inBackend \in Seq(Ids) /\ requestQueue \in Seq(Ids)
    BY DEF IInv, TypeOK
<1>3. /\ Head(requestQueue) \in Ids /\ Tail(requestQueue) \in Seq(Ids)
      /\ requestQueue = <<Head(requestQueue)>> \o Tail(requestQueue)
      /\ <<Head(requestQueue)>> \in Seq(Ids)
    BY <1>1, <1>2, HeadTailProperties
<1>4. inBackend' \in Seq(Ids) /\ requestQueue' \in Seq(Ids)
    BY <1>1, <1>2, <1>3, AppendProperties
<1>5. Pipeline' = Pipeline
    <2>1. inBackend' = inBackend \o <<Head(requestQueue)>>
        BY <1>1, <1>2, <1>3, AppendIsConcat
    <2>2. (inBackend \o <<Head(requestQueue)>>) \o Tail(requestQueue)
              = inBackend \o (<<Head(requestQueue)>> \o Tail(requestQueue))
        BY <1>2, <1>3, ConcatAssociative
    <2> QED
        BY <1>1, <1>3, <2>1, <2>2 DEF Pipeline
<1>6. Kept
    BY <1>1 DEF Kept
<1>7. Requests' = Requests /\ ReadsSettled' /\ OnlyRequests'
    BY <1>5, <1>6, RequestsStay
<1>8. ControllerType'
    BY <1>1, <1>4 DEF IInv, TypeOK, ControllerType
<1>9. TableAgrees'
    BY <1>1, <1>5 DEF IInv, TableAgrees
<1>10. EventsKnown'
    BY <1>1 DEF IInv, EventsKnown, ForLine, ForWord
<1>11. FlushesFollow'
    BY <1>1, <1>5, <1>7 DEF IInv, FlushesFollow
<1>12. ControllerInv'
    BY <1>7, <1>8, <1>9, <1>10, <1>11 DEF ControllerInv
<1>13. HostType' /\ HostWaits' /\ LinesCurrent' /\ StoresSettled'
    <2>1. HostWaits'
        BY <1>1, HostStays
    <2> QED
        BY <1>1, <1>5, <1>7, <2>1 DEF IInv, TypeOK, HostType, LinesCurrent, StoresSettled
<1>14. fault' \in {"none", "custom"}
    BY <1>1
<1> QED
    BY <1>12, <1>13, <1>14, Assembled

(* What a write-back of a line stores.                                     *)
LEMMA WriteBack ==
    ASSUME HostType, NEW line \in Lines, NEW put \in Event,
           put.cmd = "PutM", put.addr = line, put.baseAddr = line,
           put.payload = Holding(latest, line), put.size = Len(put.payload),
           put.flags = {"NORESPONSE"}
    PROVE  /\ Known(put)
           /\ \A b : StoresTo(put, b) <=> b \in Words(line)
           /\ \A b : StoresTo(put, b) => Stored(put, b) = latest[b]
<1>1. /\ latest \in [Address -> Values] /\ line \in Words(line)
    BY Constants DEF HostType
<1>2. Known(put)
    BY <1>1, LineWords DEF Known, ForLine
<1>3. \A b : StoresTo(put, b) <=> b \in Words(line)
    BY <1>2, StoreWords DEF Place, Writes
<1>4. \A b : StoresTo(put, b) => Stored(put, b) = put.payload[b - line + 1]
    BY <1>2, StoreWords
<1> QED
    BY <1>1, <1>2, <1>3, <1>4, LineWords

LEMMA EvictStep ==
    ASSUME IInv, NEW line \in Lines, Evict(line)
    PROVE  IInv'
<1> PICK cmd \in IF cache[line].state = "M" THEN {"PutM"} ELSE CleanPuts :
           Sends(line, Write(cmd, line, line, Dirty(line), {}))
    BY DEF Evict
<1> DEFINE ev == Write(cmd, line, line, Dirty(line), {})
<1>1. /\ cache[line].state # "I" /\ fault = "none" /\ waiting[line] = "nothing"
      /\ handleEvent(ev) /\ UNCHANGED memVars
      /\ UNCHANGED <<pendingPIMEvents, fault, waiting, latest>>
      /\ cache' = [cache EXCEPT ![line].state = "I"]
    BY DEF Evict, Sends, Idle
<1>2. /\ latest \in [Address -> Values] /\ line \in Address
      /\ cache \in [Lines -> [state : {"I", "E", "M"}, data : Seq(Values)]]
      /\ cache[line].data = Holding(latest, line)
      /\ \A l \in Lines : Len(cache[l].data) = lineSize
    BY <1>1, Constants DEF IInv, TypeOK, LinesCurrent
<1>3. /\ cache' \in [Lines -> [state : {"I", "E", "M"}, data : Seq(Values)]]
      /\ cache'[line].state = "I"
      /\ \A l \in Lines : l # line => cache'[l] = cache[l]
      /\ \A l \in Lines : cache'[l].data = cache[l].data
    BY <1>1, <1>2
<1>4. HostType'
    BY <1>1, <1>2, <1>3 DEF IInv, TypeOK, HostType
<1>5. CASE cache[line].state # "M"
    <2>1. UNCHANGED controllerVars
        <3>1. ev.cmd \in CleanPuts
            BY <1>5 DEF Write
        <3> HIDE DEF ev
        <3> QED
            BY <1>1, <3>1 DEF handleEvent, handlePassedOn, handleFlush, handleClean,
                              PassedOn, Reads, Writes, CleanPuts, Flushes
    <2>2. /\ ControllerInv' /\ Requests' = Requests /\ Pipeline' = Pipeline
          /\ outstandingEvents' = outstandingEvents /\ backing' = backing
        BY <1>1, <2>1, ControllerStays DEF controllerVars, memVars
    <2>3. HostWaits'
        BY <1>1, <2>2, HostStays
    <2>4. LinesCurrent'
        BY <1>1, <1>3, <2>2, LinesStay
    <2>5. StoresSettled'
        <3>1. \A l \in Lines : cache[l].state = "M" => cache'[l].state = "M"
            BY <1>3, <1>5
        <3> QED
            BY <1>1, <2>2, <3>1 DEF IInv, StoresSettled
    <2> QED
        BY <1>1, <1>4, <2>2, <2>3, <2>4, <2>5, Assembled
<1>6. CASE cache[line].state = "M"
    <2> DEFINE put == Posted(ev)
    <2>1. /\ ev \in Event /\ ev.cmd = "PutM" /\ "PIM" \notin ev.flags
          /\ put \in Event /\ put.cmd = "PutM" /\ put.addr = line /\ put.baseAddr = line
          /\ put.payload = Holding(latest, line) /\ put.size = Len(put.payload)
          /\ put.flags = {"NORESPONSE"}
        <3>1. /\ Holding(latest, line) \in Seq(Values) /\ Len(Holding(latest, line)) \in Nat
              /\ << >> \in Seq(Values) /\ {} \cup {"NORESPONSE"} = {"NORESPONSE"}
            BY <1>2, LineWords, LenProperties
        <3>2. ev = Write("PutM", line, line, Holding(latest, line), {})
            BY <1>2, <1>6 DEF Dirty
        <3> HIDE DEF ev
        <3> QED
            BY <1>2, <3>1, <3>2 DEF Write, Event, Posted, Writes
    <2> HIDE DEF ev
    <2>2. /\ FirstId \in Ids /\ FirstId \notin DOMAIN outstandingEvents
          /\ AddsRequest(FirstId, put)
        BY <1>1, <2>1, PassedAlong DEF PassedOn, Writes
    <2> HIDE DEF put
    <2>3. HostType
        BY DEF IInv, TypeOK, HostType
    <2>4. /\ Known(put)
          /\ \A b : StoresTo(put, b) <=> b \in Words(line)
          /\ \A b : StoresTo(put, b) => Stored(put, b) = latest[b]
        BY <2>1, <2>3, WriteBack
    <2>5. \A f \in DOMAIN outstandingEvents :
              outstandingEvents[f].cmd = "FlushLine" => outstandingEvents[f].baseAddr # put.baseAddr
        BY <1>1, <2>1, IdleAlone
    <2>6. /\ ControllerInv' /\ Kept
          /\ DOMAIN outstandingEvents' = DOMAIN outstandingEvents \cup {FirstId}
          /\ outstandingEvents'[FirstId] = put
          /\ \A b, v : (IF StoresTo(put, b) THEN Stored(put, b) = v
                        ELSE Leaves(Requests, backing, Len(Pipeline), b, v))
                       => Leaves(Requests', backing', Len(Pipeline'), b, v)
        BY <2>1, <2>2, <2>4, <2>5, NewRequest DEF Reads
    <2>7. \A n \in DOMAIN outstandingEvents' :
              \/ n \in DOMAIN outstandingEvents
                 /\ outstandingEvents'[n] = outstandingEvents[n]
              \/ n = FirstId /\ outstandingEvents'[n] = put
        BY <2>6 DEF Kept
    <2>8. HostWaits'
        BY <1>1, <2>1, <2>7, HostStays DEF ToHost
    <2>9. LinesCurrent'
        <3>1. CurrentFor(cache', latest', put)
            BY <2>1 DEF CurrentFor, Reads
        <3> QED
            BY <1>1, <1>3, <2>7, <3>1, LinesStay
    <2>10. StoresSettled'
        <3> SUFFICES ASSUME NEW b \in Address
                     PROVE  \/ \E l \in Lines : b \in Words(l) /\ cache'[l].state = "M"
                            \/ Leaves(Requests', backing', Len(Pipeline'), b, latest[b])
            BY <1>1 DEF StoresSettled
        <3>1. CASE b \in Words(line)
            BY <2>4, <2>6, <3>1
        <3>2. CASE b \notin Words(line)
            BY <1>3, <2>4, <2>6, <3>2 DEF IInv, StoresSettled
        <3> QED
            BY <3>1, <3>2
    <2> QED
        BY <1>1, <1>4, <2>6, <2>8, <2>9, <2>10, Assembled
<1> QED
    BY <1>5, <1>6

(* A new flush, before which the write-back made from it may have been     *)
(* added to the pipeline.                                                  *)
LEMMA NewFlush ==
    ASSUME IInv, Kept, ReadsSettled', OnlyRequests',
           NEW id \in Ids, NEW fl, Known(fl), fl.cmd = "FlushLine",
           NEW added \in SUBSET Ids, id \notin added, NEW deps \in SUBSET Ids,
           id \notin DOMAIN outstandingEvents, added \cap DOMAIN outstandingEvents = {},
           outstandingEvents'[id] = fl,
           DOMAIN outstandingEvents' = DOMAIN outstandingEvents \cup added \cup {id},
           \A n \in added : /\ Known(outstandingEvents'[n])
                            /\ outstandingEvents'[n].flags = {"NORESPONSE"},
           IsInjective(Pipeline'), ToSet(Pipeline') = ToSet(Pipeline) \cup added,
           requestQueue' \in Seq(Ids), inBackend' = inBackend,
           waitingFlushes' = Added(waitingFlushes, id, deps),
           pendingPIMEvents' = pendingPIMEvents,
           \A f \in DOMAIN waitingFlushes : outstandingEvents[f].payload # << >> =>
               Follows(Requests', Pipeline', outstandingEvents[f].baseAddr, waitingFlushes[f]),
           fl.payload # << >> => Follows(Requests', Pipeline', fl.baseAddr, deps)
    PROVE  ControllerInv'
<1>1. \A n \in DOMAIN outstandingEvents' :
          \/ n \in DOMAIN outstandingEvents /\ outstandingEvents'[n] = outstandingEvents[n]
          \/ n \in added \/ n = id
    BY DEF Kept
<1>2. \A n \in DOMAIN outstandingEvents' : Known(outstandingEvents'[n])
    <2>1. \A n \in DOMAIN outstandingEvents : Known(outstandingEvents[n])
        BY PipelineParts DEF IInv
    <2> QED
        BY <1>1, <2>1
<1>3. /\ DOMAIN waitingFlushes' = DOMAIN waitingFlushes \cup {id}
      /\ waitingFlushes'[id] = deps
      /\ \A f \in DOMAIN waitingFlushes : f # id => waitingFlushes'[f] = waitingFlushes[f]
    BY DEF Added
<1>4. /\ DOMAIN waitingFlushes \subseteq DOMAIN outstandingEvents
      /\ DOMAIN outstandingEvents \subseteq Ids
    BY DEF IInv, TableAgrees, TypeOK
<1>5. ControllerType'
    <2>1. \A n \in DOMAIN outstandingEvents' : outstandingEvents'[n] \in Event
        BY <1>2 DEF Known
    <2>2. \A f \in DOMAIN waitingFlushes' : waitingFlushes'[f] \subseteq Ids
        BY <1>3, <1>4 DEF IInv, TypeOK
    <2>3. inBackend' \in Seq(Ids) /\ backing' \in [Address -> Values]
          /\ pendingPIMEvents' \subseteq Ids
        BY DEF IInv, TypeOK, Kept
    <2> QED
        BY <1>3, <1>4, <2>1, <2>2, <2>3 DEF ControllerType
<1>6. EventsKnown'
    BY <1>2 DEF EventsKnown, Known, ForLine, ForWord
<1>7. TableAgrees'
    <2>1. /\ ToSet(Pipeline') \cap DOMAIN waitingFlushes' = {}
          /\ ToSet(Pipeline') \cup DOMAIN waitingFlushes' = DOMAIN outstandingEvents'
        BY <1>3 DEF IInv, TableAgrees
    <2>2. "PIM" \notin fl.flags
        BY DEF Known, ForLine, ForWord
    <2>3. pendingPIMEvents' = {n \in DOMAIN outstandingEvents' :
                                 "PIM" \in outstandingEvents'[n].flags}
        BY <2>2 DEF IInv, TableAgrees, Kept
    <2> QED
        BY <2>1, <2>3 DEF TableAgrees
<1>8. FlushesFollow'
    <2>1. ASSUME NEW f \in DOMAIN waitingFlushes'
          PROVE  /\ outstandingEvents'[f].cmd = "FlushLine"
                 /\ outstandingEvents'[f].payload # << >> =>
                       Follows(Requests', Pipeline', outstandingEvents'[f].baseAddr,
                               waitingFlushes'[f])
        <3>1. CASE f = id
            BY <1>3, <3>1
        <3>2. CASE f # id
            <4>1. /\ f \in DOMAIN waitingFlushes /\ f \in DOMAIN outstandingEvents
                  /\ outstandingEvents'[f] = outstandingEvents[f]
                  /\ waitingFlushes'[f] = waitingFlushes[f]
                  /\ outstandingEvents[f].cmd = "FlushLine"
                BY <1>3, <1>4, <3>2 DEF Kept, IInv, FlushesFollow
            <4> QED
                BY <4>1
        <3> QED
            BY <3>1, <3>2
    <2> QED
        BY <2>1 DEF FlushesFollow
<1> QED
    BY <1>5, <1>6, <1>7, <1>8 DEF ControllerInv

LEMMA FlushStep ==
    ASSUME IInv, NEW line \in Lines, NEW cmd \in Flushes, Flush(line, cmd)
    PROVE  IInv'
<1> DEFINE ev == Write(cmd, line, line, Dirty(line), {})
           fl == [ev EXCEPT !.cmd = "FlushLine"]
           put == Write("PutM", ev.baseAddr, ev.baseAddr, ev.payload, {"NORESPONSE"})
           dirty == ev.payload # << >>
           queue == IF dirty THEN Append(requestQueue, FirstId) ELSE requestQueue
           events == IF dirty THEN Added(outstandingEvents, FirstId, put)
                     ELSE outstandingEvents
           deps == dependsOn(ev, queue, events)
<1>1. /\ fault = "none" /\ waiting[line] = "nothing"
      /\ handleEvent(ev) /\ UNCHANGED <<inBackend, backing>>
      /\ UNCHANGED <<pendingPIMEvents, fault, latest>>
      /\ cache' = [cache EXCEPT ![line].state =
                      IF @ = "I" \/ cmd = "FlushLineInv" THEN "I" ELSE "E"]
      /\ waiting' = [waiting EXCEPT ![line] = cmd]
    BY DEF Flush, Sends, Idle, memVars
<1>2. /\ latest \in [Address -> Values] /\ line \in Address /\ lineSize \in Nat /\ lineSize >= 1
      /\ cache \in [Lines -> [state : {"I", "E", "M"}, data : Seq(Values)]]
      /\ cache[line].state = "M" => cache[line].data = Holding(latest, line)
      /\ \A l \in Lines : Len(cache[l].data) = lineSize
      /\ HostType
    BY <1>1, Constants DEF IInv, TypeOK, LinesCurrent, HostType
<1>3. /\ Holding(latest, line) \in Seq(Values) /\ Len(Holding(latest, line)) = lineSize
      /\ << >> \in Seq(Values) /\ Holding(latest, line) # << >>
    BY <1>2, LineWords
<1>4. /\ cache' \in [Lines -> [state : {"I", "E", "M"}, data : Seq(Values)]]
      /\ cache'[line].state # "M" /\ (cache'[line].state # "I" => cache[line].state # "I")
      /\ \A l \in Lines : l # line => cache'[l] = cache[l]
      /\ \A l \in Lines : cache'[l].data = cache[l].data
    BY <1>1, <1>2
<1>5. HostType'
    BY <1>1, <1>2, <1>4 DEF HostType
<1>6. /\ ev.cmd = cmd /\ ev.baseAddr = line /\ ev.payload = Dirty(line)
      /\ dirty <=> cache[line].state = "M"
      /\ dirty => ev.payload = Holding(latest, line)
    BY <1>2, <1>3 DEF Write, Dirty
<1>7. /\ fl \in Event /\ fl.cmd = "FlushLine" /\ fl.addr = line /\ fl.baseAddr = line
      /\ fl.flags = {} /\ fl.payload = Dirty(line)
      /\ fl.payload \in {<< >>, Holding(latest, line)} /\ Known(fl)
    <2>1. /\ Dirty(line) \in {<< >>, Holding(latest, line)} /\ Len(Dirty(line)) \in Nat
          /\ Dirty(line) = << >> \/ Len(Dirty(line)) = lineSize
        BY <1>2, <1>3 DEF Dirty
    <2>2. /\ fl \in Event /\ fl.cmd = "FlushLine" /\ fl.addr = line /\ fl.baseAddr = line
          /\ fl.flags = {} /\ fl.payload = Dirty(line)
        BY <1>2, <1>3, <2>1 DEF Write, Event, Flushes
    <2> HIDE DEF fl
    <2> QED
        BY <2>1, <2>2, Constants DEF Known, ForLine
<1>8. /\ Cardinality(Unused) >= 2 /\ requestQueue' = queue
      /\ outstandingEvents' = Added(events, NextId, fl)
      /\ waitingFlushes' = Added(waitingFlushes, NextId, deps)
    <2>1. handleFlush(ev)
        <3> HIDE DEF ev
        <3> QED
            BY <1>1, <1>6 DEF handleEvent, handlePassedOn, handleClean,
                              PassedOn, Reads, Writes, CleanPuts, Flushes
    <2> QED
        BY <2>1 DEF handleFlush
<1>9. /\ FirstId \in Ids /\ FirstId \notin DOMAIN outstandingEvents
      /\ NextId \in Ids /\ NextId \notin DOMAIN outstandingEvents /\ NextId # FirstId
    <2>1. Unused # {}
        <3>1. 0 >= 2 <=> FALSE
            OBVIOUS
        <3> QED
            BY <1>8, <3>1, FS_EmptySet
    <2> QED
        BY <1>8, <2>1, FreshIds
<1>10. \A f \in DOMAIN waitingFlushes :
          /\ outstandingEvents[f].baseAddr # line
          /\ outstandingEvents[f].payload # << >> =>
                Follows(Requests, Pipeline, outstandingEvents[f].baseAddr, waitingFlushes[f])
    <2>1. \A f \in DOMAIN waitingFlushes :
              f \in DOMAIN outstandingEvents /\ outstandingEvents[f].cmd = "FlushLine"
        BY DEF IInv, TableAgrees, FlushesFollow
    <2> QED
        BY <1>1, <2>1, IdleAlone DEF IInv, FlushesFollow
<1> HIDE DEF fl
<1>11. CASE ~dirty
    <2>1. /\ requestQueue' = requestQueue
          /\ outstandingEvents' = Added(outstandingEvents, NextId, fl)
          /\ deps \subseteq ToSet(requestQueue)
        BY <1>8, <1>11 DEF dependsOn
    <2>2. /\ DOMAIN outstandingEvents' = DOMAIN outstandingEvents \cup {} \cup {NextId}
          /\ outstandingEvents'[NextId] = fl
          /\ Kept
        <3> HIDE DEF ev, queue, events, deps, dirty
        <3> QED
            BY <1>1, <1>9, <2>1 DEF Added, Kept
    <2>3. Pipeline' = Pipeline
        BY <1>1, <2>1 DEF Pipeline
    <2>4. Requests' = Requests /\ ReadsSettled' /\ OnlyRequests'
        BY <2>2, <2>3, RequestsStay
    <2>5. deps \in SUBSET Ids /\ requestQueue' \in Seq(Ids)
        <3>1. ToSet(requestQueue) \subseteq Ids /\ requestQueue \in Seq(Ids)
            <4>1. requestQueue \in Seq(Ids)
                BY DEF IInv, TypeOK
            <4> QED
                BY <4>1, SeqParts DEF ToSet
        <3> QED
            BY <2>1, <3>1
    <2>6. fl.payload = << >>
        BY <1>6, <1>7, <1>11
    <2> HIDE DEF ev, put, dirty, queue, events, deps
    <2>7. ControllerInv'
        <3>1. /\ IsInjective(Pipeline') /\ ToSet(Pipeline') = ToSet(Pipeline) \cup {}
            BY <2>3 DEF IInv, TableAgrees
        <3>2. \A f \in DOMAIN waitingFlushes : outstandingEvents[f].payload # << >> =>
                  Follows(Requests', Pipeline', outstandingEvents[f].baseAddr, waitingFlushes[f])
            BY <1>10, <2>3, <2>4
        <3>3. {} \in SUBSET Ids /\ NextId \notin {} /\ {} \cap DOMAIN outstandingEvents = {}
              /\ \A n \in {} : /\ Known(outstandingEvents'[n])
                               /\ outstandingEvents'[n].flags = {"NORESPONSE"}
            OBVIOUS
        <3> QED
            BY <1>1, <1>7, <1>8, <1>9, <2>2, <2>4, <2>5, <2>6, <3>1, <3>2, <3>3, NewFlush
    <2>8. \A n \in DOMAIN outstandingEvents' :
              \/ n \in DOMAIN outstandingEvents
                 /\ outstandingEvents'[n] = outstandingEvents[n]
              \/ n = NextId /\ outstandingEvents'[n] = fl
        BY <2>2 DEF Kept
    <2>9. HostWaits'
        <3>1. \A n \in DOMAIN outstandingEvents' :
                  \/ n \in DOMAIN outstandingEvents
                     /\ outstandingEvents'[n] = outstandingEvents[n]
                  \/ ~ToHost(outstandingEvents'[n])
                  \/ /\ n = NextId /\ outstandingEvents'[n].baseAddr = line
                     /\ \/ cmd = outstandingEvents'[n].cmd
                        \/ outstandingEvents'[n].cmd = "FlushLine" /\ cmd \in Flushes
            BY <1>7, <2>8
        <3>2. NextId \in DOMAIN outstandingEvents' /\ line \in Lines \cup Noncacheable
            BY <2>2
        <3> QED
            BY <1>1, <1>9, <3>1, <3>2, HostAsks
    <2>10. LinesCurrent'
        <3>1. CurrentFor(cache', latest', fl)
            BY <1>1, <1>4, <1>7 DEF CurrentFor, Reads
        <3>2. cache'[line].state # "I" => cache'[line].data = Holding(latest', line)
            BY <1>1, <1>4 DEF IInv, LinesCurrent
        <3> QED
            BY <1>1, <1>4, <2>8, <3>1, <3>2, LinesStay
    <2>11. StoresSettled'
        <3>1. \A l \in Lines : cache[l].state = "M" => cache'[l].state = "M"
            BY <1>4, <1>6, <1>11
        <3>2. latest' = latest /\ backing' = backing
            BY <1>1
        <3> QED
            BY <2>3, <2>4, <3>1, <3>2 DEF IInv, StoresSettled
    <2> QED
        BY <1>1, <1>5, <2>7, <2>9, <2>10, <2>11, Assembled
<1>12. CASE dirty
    <2>1. /\ put \in Event /\ put.cmd = "PutM" /\ put.addr = line /\ put.baseAddr = line
          /\ put.payload = Holding(latest, line) /\ put.size = Len(put.payload)
          /\ put.flags = {"NORESPONSE"}
        <3>1. put = Write("PutM", line, line, Holding(latest, line), {"NORESPONSE"})
            BY <1>6, <1>12
        <3> HIDE DEF put
        <3> QED
            BY <1>2, <1>3, <3>1 DEF Write, Event, Writes
    <2>2. /\ requestQueue' = Append(requestQueue, FirstId)
          /\ events = Added(outstandingEvents, FirstId, put)
          /\ outstandingEvents' = Added(events, NextId, fl)
          /\ deps = {id \in ToSet(requestQueue') : events[id].baseAddr = line}
        BY <1>6, <1>8, <1>12 DEF dependsOn
    <2> HIDE DEF ev, put, queue, events, deps
    <2>3. /\ Known(put)
          /\ \A b : StoresTo(put, b) <=> b \in Words(line)
          /\ \A b : StoresTo(put, b) => Stored(put, b) = latest[b]
        BY <1>2, <2>1, WriteBack
    <2>4. /\ DOMAIN outstandingEvents' = DOMAIN outstandingEvents \cup {FirstId} \cup {NextId}
          /\ outstandingEvents'[NextId] = fl /\ outstandingEvents'[FirstId] = put
          /\ events[FirstId] = put
          /\ Kept
        BY <1>1, <1>9, <2>2 DEF Added, Kept
    <2>5. Pipeline' = Append(Pipeline, FirstId) /\ requestQueue' \in Seq(Ids)
        BY <1>1, <1>9, <2>2, QueueIsPipeline
    <2>6. put.cmd # "FlushLine" /\ ~(put.cmd \in Reads)
        BY <2>1 DEF Reads
    <2>7. PICK N \in Nat : N = Len(Pipeline)
        BY PipelineParts DEF IInv
    <2>8. /\ DOMAIN Pipeline' = 1 .. N + 1 /\ Pipeline'[N + 1] = FirstId
          /\ Requests'[N + 1] = put
          /\ IsInjective(Pipeline') /\ ToSet(Pipeline') = ToSet(Pipeline) \cup {FirstId}
          /\ OnlyRequests'
        BY <1>9, <2>4, <2>5, <2>6, <2>7, RequestAdded
    <2>9. /\ ReadsSettled'
          /\ \A b, v : (IF StoresTo(put, b) THEN Stored(put, b) = v
                        ELSE Leaves(Requests, backing, Len(Pipeline), b, v))
                       => Leaves(Requests', backing', Len(Pipeline'), b, v)
        BY <1>9, <2>4, <2>5, <2>6, AddedSettles
    <2>10. deps \in SUBSET Ids /\ FirstId \in deps
        <3>1. ToSet(requestQueue') \subseteq Ids
            BY <2>5, SeqParts DEF ToSet
        <3>2. FirstId \in ToSet(requestQueue')
            <4>1. requestQueue \in Seq(Ids)
                BY DEF IInv, TypeOK
            <4>2. ToSet(requestQueue') = ToSet(requestQueue) \cup {FirstId}
                BY <1>9, <2>2, <4>1, OneMore
            <4> QED
                BY <4>2
        <3> QED
            BY <2>1, <2>2, <2>4, <3>1, <3>2
    <2>11. Follows(Requests', Pipeline', line, deps)
        <3> SUFFICES ASSUME NEW n \in DOMAIN Pipeline'
                     PROVE  \E k \in DOMAIN Pipeline' :
                               /\ n <= k /\ Pipeline'[k] \in deps
                               /\ Requests'[k].baseAddr = line
            BY DEF Follows
        <3>1. N + 1 \in DOMAIN Pipeline' /\ n <= N + 1
            BY <2>8
        <3> QED
            BY <2>1, <2>8, <2>10, <3>1
    <2>12. \A f \in DOMAIN waitingFlushes : outstandingEvents[f].payload # << >> =>
               Follows(Requests', Pipeline', outstandingEvents[f].baseAddr, waitingFlushes[f])
        BY <1>9, <1>10, <2>1, <2>4, <2>5, <2>6, AddedFollows
    <2>13. ControllerInv'
        <3>1. /\ {FirstId} \in SUBSET Ids /\ NextId \notin {FirstId}
              /\ {FirstId} \cap DOMAIN outstandingEvents = {}
              /\ \A n \in {FirstId} : /\ Known(outstandingEvents'[n])
                                      /\ outstandingEvents'[n].flags = {"NORESPONSE"}
            BY <1>9, <2>1, <2>3, <2>4
        <3>2. fl.payload # << >> => Follows(Requests', Pipeline', fl.baseAddr, deps)
            BY <1>7, <2>11
        <3> QED
            BY <1>1, <1>7, <1>8, <1>9, <2>4, <2>5, <2>8, <2>9, <2>10, <2>12, <3>1, <3>2,
               NewFlush
    <2>14. \A n \in DOMAIN outstandingEvents' :
               \/ n \in DOMAIN outstandingEvents
                  /\ outstandingEvents'[n] = outstandingEvents[n]
               \/ n = FirstId /\ outstandingEvents'[n] = put
               \/ n = NextId /\ outstandingEvents'[n] = fl
        BY <2>4 DEF Kept
    <2>15. HostWaits'
        <3>1. \A n \in DOMAIN outstandingEvents' :
                  \/ n \in DOMAIN outstandingEvents
                     /\ outstandingEvents'[n] = outstandingEvents[n]
                  \/ ~ToHost(outstandingEvents'[n])
                  \/ /\ n = NextId /\ outstandingEvents'[n].baseAddr = line
                     /\ \/ cmd = outstandingEvents'[n].cmd
                        \/ outstandingEvents'[n].cmd = "FlushLine" /\ cmd \in Flushes
            BY <1>7, <2>1, <2>14 DEF ToHost
        <3>2. NextId \in DOMAIN outstandingEvents' /\ line \in Lines \cup Noncacheable
            BY <2>4
        <3> QED
            BY <1>1, <1>9, <3>1, <3>2, HostAsks
    <2>16. LinesCurrent'
        <3>1. CurrentFor(cache', latest', fl)
            BY <1>1, <1>4, <1>7 DEF CurrentFor, Reads
        <3>2. CurrentFor(cache', latest', put)
            BY <2>1 DEF CurrentFor, Reads
        <3>3. cache'[line].state # "I" => cache'[line].data = Holding(latest', line)
            BY <1>1, <1>4 DEF IInv, LinesCurrent
        <3> QED
            BY <1>1, <1>4, <2>14, <3>1, <3>2, <3>3, LinesStay
    <2>17. StoresSettled'
        <3> SUFFICES ASSUME NEW b \in Address
                     PROVE  \/ \E l \in Lines : b \in Words(l) /\ cache'[l].state = "M"
                            \/ Leaves(Requests', backing', Len(Pipeline'), b, latest[b])
            BY <1>1 DEF StoresSettled
        <3>1. CASE b \in Words(line)
            BY <2>3, <2>9, <3>1
        <3>2. CASE b \notin Words(line)
            BY <1>4, <2>3, <2>9, <3>2 DEF IInv, StoresSettled
        <3> QED
            BY <3>1, <3>2
    <2> QED
        BY <1>1, <1>5, <2>13, <2>15, <2>16, <2>17, Assembled
<1> QED
    BY <1>11, <1>12

-----------------------------------------------------------------------------
(* The steps of the memory that answer something.                          *)

(* A read that no request for its place precedes finds what it expects.    *)
LEMMA ReadFinds ==
    ASSUME IInv, NEW k \in DOMAIN Pipeline, Requests[k].cmd \in Reads,
           \A j \in 1 .. k - 1 : Requests[j].baseAddr # Requests[k].baseAddr
    PROVE  readData(Requests[k]) = Requests[k].expect
<1> DEFINE ev == Requests[k]
<1>1. /\ Len(Pipeline) \in Nat /\ DOMAIN Pipeline = 1 .. Len(Pipeline)
      /\ \A n \in DOMAIN Pipeline : Known(Requests[n])
    BY RequestParts DEF IInv
<1>2. /\ start(ev) = ev.baseAddr /\ ev.baseAddr \in Lines \cup Noncacheable
      /\ ev.baseAddr \in Nat
      /\ Place(ev.baseAddr) = ev.baseAddr .. ev.baseAddr + ev.size - 1
      /\ ev.size \in Nat /\ Len(ev.expect) = ev.size
    BY <1>1, EventWords
<1>3. ev.expect \in Seq(Values)
    BY <1>1 DEF Known, Event
<1>4. Settled(Requests, backing, k)
    BY DEF IInv, ReadsSettled
<1>5. ASSUME NEW i \in 1 .. ev.size
      PROVE  /\ ev.baseAddr + i - 1 \in Address
             /\ backing[ev.baseAddr + i - 1] = ev.expect[i]
    <2> DEFINE a == ev.baseAddr + i - 1
    <2>1. a \in Place(ev.baseAddr)
        BY <1>2
    <2>2. Leaves(Requests, backing, k - 1, a, ev.expect[i])
        BY <1>4 DEF Settled
    <2> HIDE DEF a
    <2>3. a \in Address
        BY <1>2, <2>1, PlacesApart
    <2>4. ASSUME NEW j \in 1 .. k - 1 PROVE ~StoresTo(Requests[j], a)
        <3>1. j \in DOMAIN Pipeline
            BY <1>1
        <3>2. /\ Known(Requests[j]) /\ Requests[j].baseAddr \in Lines \cup Noncacheable
              /\ Requests[j].baseAddr # ev.baseAddr
            BY <1>1, <3>1, EventWords
        <3>3. a \notin Place(Requests[j].baseAddr)
            BY <1>2, <2>1, <3>2, PlacesApart
        <3> QED
            BY <3>2, <3>3, StoreWords
    <2>5. backing[a] = ev.expect[i]
        BY <2>2, <2>4, LeavesMemory
    <2> QED
        BY <2>3, <2>5 DEF a
<1>6. DOMAIN ev.expect = 1 .. ev.size /\ ev.expect = [i \in DOMAIN ev.expect |-> ev.expect[i]]
    BY <1>2, <1>3, LenProperties
<1> HIDE DEF ev
<1>7. readData(ev) = [i \in 1 .. ev.size |-> ev.expect[i]]
    BY <1>2, <1>5 DEF readData
<1> QED
    BY <1>6, <1>7 DEF ev

(* Whoever asked is answered, and nobody else is concerned.                *)
LEMMA AnswerStep ==
    ASSUME IInv, fault = "none", NEW id \in DOMAIN outstandingEvents,
           outstandingEvents' = Erased(outstandingEvents, id),
           LET ev == outstandingEvents[id] IN
           /\ CustomAnswered(ev) \/ NoAnswer(ev) \/ PIMAnswered(id, ev) \/ HostAnswered(ev)
           /\ ev.cmd \in Reads => readData(ev) = ev.expect,
           latest' = latest
    PROVE  /\ HostType' /\ fault' \in {"none", "custom"} /\ HostWaits' /\ LinesCurrent'
           /\ pendingPIMEvents' = {n \in DOMAIN outstandingEvents' :
                                     "PIM" \in outstandingEvents'[n].flags}
           /\ \A line \in Lines : cache[line].state = "M" => cache'[line] = cache[line]
<1> DEFINE ev == outstandingEvents[id]
           p == ev.baseAddr
<1>1. /\ Known(ev) /\ CurrentFor(cache, latest, ev)
      /\ \A n \in DOMAIN outstandingEvents : Known(outstandingEvents[n])
    BY PipelineParts DEF IInv, LinesCurrent
<1>2. p \in Lines \cup Noncacheable
    BY <1>1, EventWords
<1>3. /\ DOMAIN outstandingEvents' = DOMAIN outstandingEvents \ {id}
      /\ \A n \in DOMAIN outstandingEvents' : outstandingEvents'[n] = outstandingEvents[n]
    BY DEF Erased
<1>4. pendingPIMEvents = {n \in DOMAIN outstandingEvents : "PIM" \in outstandingEvents[n].flags}
    BY DEF IInv, TableAgrees
<1>5. /\ HostType /\ latest \in [Address -> Values]
      /\ cache \in [Lines -> [state : {"I", "E", "M"}, data : Seq(Values)]]
      /\ waiting \in [Lines \cup Noncacheable ->
                        Reads \cup Flushes \cup {"nothing", "Write", "CustomReq"}]
    BY DEF IInv, TypeOK, HostType
(* Nothing changes for the host.                                           *)
<1>6. ASSUME UNCHANGED hostVars, "PIM" \notin ev.flags, UNCHANGED pendingPIMEvents,
             fault' \in {"none", "custom"}
      PROVE  /\ HostType' /\ fault' \in {"none", "custom"} /\ HostWaits' /\ LinesCurrent'
             /\ pendingPIMEvents' = {n \in DOMAIN outstandingEvents' :
                                       "PIM" \in outstandingEvents'[n].flags}
             /\ \A line \in Lines : cache[line].state = "M" => cache'[line] = cache[line]
    <2>1. waiting' = waiting /\ cache' = cache
        BY <1>6 DEF hostVars
    <2>2. HostWaits'
        BY <1>3, <2>1, HostStays
    <2>3. LinesCurrent'
        BY <1>3, <2>1 DEF IInv, LinesCurrent
    <2>4. pendingPIMEvents' = {n \in DOMAIN outstandingEvents' :
                                 "PIM" \in outstandingEvents'[n].flags}
        BY <1>3, <1>4, <1>6
    <2> QED
        BY <1>5, <1>6, <2>1, <2>2, <2>3, <2>4 DEF HostType
<1>7. CASE CustomAnswered(ev)
    <2>1. "PIM" \notin ev.flags
        BY <1>1, <1>7 DEF CustomAnswered, Known, ForLine, ForWord, Reads
    <2> QED
        BY <1>6, <1>7, <2>1 DEF CustomAnswered
<1>8. CASE NoAnswer(ev)
    <2>1. "PIM" \notin ev.flags
        BY <1>1, <1>8 DEF NoAnswer, Known, ForLine, ForWord
    <2> QED
        BY <1>6, <1>8, <2>1 DEF NoAnswer
<1>9. CASE PIMAnswered(id, ev)
    <2>1. id \in pendingPIMEvents
        BY <1>4, <1>9 DEF PIMAnswered
    <2>2. /\ waiting' = waiting /\ cache' = cache /\ fault' = "none"
          /\ pendingPIMEvents' = pendingPIMEvents \ {id}
        BY <1>9, <2>1 DEF PIMAnswered, hostVars
    <2>3. HostWaits'
        BY <1>3, <2>2, HostStays
    <2>4. LinesCurrent'
        BY <1>3, <2>2 DEF IInv, LinesCurrent
    <2>5. pendingPIMEvents' = {n \in DOMAIN outstandingEvents' :
                                 "PIM" \in outstandingEvents'[n].flags}
        BY <1>3, <1>4, <2>2
    <2> QED
        BY <1>5, <2>2, <2>3, <2>4, <2>5 DEF HostType
<1>10. CASE HostAnswered(ev)
    <2>1. (IF "NONCACHEABLE" \in ev.flags THEN ev.addr ELSE ev.baseAddr) = p
        <3>1. start(ev) = p
            BY <1>1, EventWords
        <3> QED
            BY <3>1 DEF start
    <2>2. ToHost(ev)
        BY <1>10 DEF HostAnswered, Answers, ToHost
    <2>3. /\ waiting' = [waiting EXCEPT ![p] = "nothing"]
          /\ fault' = IF \/ waiting[p] = ev.cmd
                         \/ ev.cmd = "FlushLine" /\ waiting[p] \in Flushes
                      THEN "none" ELSE "unexpected response"
          /\ cache' = IF ev.cmd \in Reads /\ "NONCACHEABLE" \notin ev.flags
                      THEN [cache EXCEPT ![p] = [state |-> "E", data |-> readData(ev)]]
                      ELSE cache
          /\ pendingPIMEvents' = pendingPIMEvents
        <3> HIDE DEF ev, p
        <3> QED
            BY <1>10, <2>1 DEF HostAnswered
    <2>4. Expected(ev) /\ \A n \in DOMAIN outstandingEvents :
              ToHost(outstandingEvents[n]) /\ outstandingEvents[n].baseAddr = p => n = id
        BY <2>2 DEF IInv, HostWaits
    <2>5. fault' = "none"
        BY <2>3, <2>4 DEF Expected
    <2>6. pendingPIMEvents' = {n \in DOMAIN outstandingEvents' :
                                 "PIM" \in outstandingEvents'[n].flags}
        BY <1>3, <1>4, <2>2, <2>3 DEF ToHost
    <2> DEFINE filled == ev.cmd \in Reads /\ "NONCACHEABLE" \notin ev.flags
    <2>7. ASSUME filled
          PROVE  /\ p \in Lines /\ ev.flags = {}
                 /\ readData(ev) = Holding(latest, p) /\ cache[p].state = "I"
        <3>1. p \in Lines /\ ev.cmd \in Reads /\ ev.flags = {}
            BY <1>1, <2>7 DEF Known, ForLine, ForWord, Reads
        <3> QED
            BY <1>1, <3>1 DEF CurrentFor
    <2>8. /\ \A l \in Lines : l # p => cache'[l] = cache[l]
          /\ p \in Lines => \/ cache'[p] = cache[p]
                            \/ /\ cache[p].state = "I" /\ cache'[p].state = "E"
                               /\ cache'[p].data = Holding(latest, p)
        BY <1>5, <2>3, <2>7
    <2> HIDE DEF filled, ev, p
    <2>9. HostType'
        <3>1. cache' \in [Lines -> [state : {"I", "E", "M"}, data : Seq(Values)]]
            <4>1. CASE filled
                <5>1. /\ p \in Lines /\ readData(ev) \in Seq(Values)
                      /\ [state |-> "E", data |-> readData(ev)]
                            \in [state : {"I", "E", "M"}, data : Seq(Values)]
                    BY <1>5, <2>7, <4>1, LineWords
                <5> QED
                    BY <1>5, <2>3, <4>1, <5>1 DEF filled
            <4>2. CASE ~filled
                BY <1>5, <2>3, <4>2 DEF filled
            <4> QED
                BY <4>1, <4>2
        <3>2. ASSUME NEW l \in Lines PROVE Len(cache'[l].data) = lineSize
            <4>1. Len(cache[l].data) = lineSize /\ Len(Holding(latest, l)) = lineSize
                BY <1>5, LineWords DEF HostType
            <4> QED
                BY <2>8, <4>1
        <3>3. waiting' \in [Lines \cup Noncacheable ->
                              Reads \cup Flushes \cup {"nothing", "Write", "CustomReq"}]
            BY <1>5, <2>3
        <3> QED
            BY <1>5, <3>1, <3>2, <3>3 DEF HostType
    <2>10. HostWaits'
        <3>1. \A n \in DOMAIN outstandingEvents' : ToHost(outstandingEvents'[n]) =>
                  /\ n \in DOMAIN outstandingEvents
                  /\ outstandingEvents'[n] = outstandingEvents[n]
                  /\ outstandingEvents[n].baseAddr # p
                  /\ waiting'[outstandingEvents[n].baseAddr] = waiting[outstandingEvents[n].baseAddr]
            <4>1. ASSUME NEW n \in DOMAIN outstandingEvents', ToHost(outstandingEvents'[n])
                  PROVE  /\ n \in DOMAIN outstandingEvents
                         /\ outstandingEvents'[n] = outstandingEvents[n]
                         /\ outstandingEvents[n].baseAddr # p
                         /\ outstandingEvents[n].baseAddr \in Lines \cup Noncacheable
                BY <1>1, <1>3, <2>4, <4>1, EventWords
            <4> QED
                BY <1>5, <2>3, <4>1
        <3>2. ASSUME NEW n \in DOMAIN outstandingEvents', ToHost(outstandingEvents'[n])
              PROVE  \/ waiting'[outstandingEvents'[n].baseAddr] = outstandingEvents'[n].cmd
                     \/ /\ outstandingEvents'[n].cmd = "FlushLine"
                        /\ waiting'[outstandingEvents'[n].baseAddr] \in Flushes
            BY <3>1, <3>2 DEF IInv, HostWaits, Expected
        <3>3. ASSUME NEW n \in DOMAIN outstandingEvents', ToHost(outstandingEvents'[n]),
                     NEW o \in DOMAIN outstandingEvents', ToHost(outstandingEvents'[o]),
                     outstandingEvents'[o].baseAddr = outstandingEvents'[n].baseAddr
              PROVE  o = n
            BY <3>1, <3>3 DEF IInv, HostWaits
        <3> QED
            BY <3>2, <3>3 DEF HostWaits, Expected, ToHost
    <2>11. LinesCurrent'
        <3>1. ASSUME NEW l \in Lines, cache'[l].state # "I"
              PROVE  cache'[l].data = Holding(latest, l)
            BY <2>8, <3>1 DEF IInv, LinesCurrent
        <3>2. ASSUME NEW n \in DOMAIN outstandingEvents'
              PROVE  CurrentFor(cache', latest, outstandingEvents'[n])
            <4> DEFINE x == outstandingEvents[n]
            <4>1. /\ n \in DOMAIN outstandingEvents /\ outstandingEvents'[n] = x /\ n # id
                  /\ CurrentFor(cache, latest, x) /\ Known(x)
                BY <1>1, <1>3 DEF IInv, LinesCurrent
            <4>2. ASSUME x.cmd = "FlushLine" \/ (x.cmd \in Reads /\ x.flags = {})
                  PROVE  cache'[x.baseAddr] = cache[x.baseAddr]
                <5>1. x.baseAddr \in Lines /\ ToHost(x)
                    BY <4>1, <4>2 DEF Known, ForLine, ForWord, Reads, ToHost
                <5>2. x.baseAddr # p
                    BY <2>4, <4>1, <5>1
                <5> QED
                    BY <2>8, <5>1, <5>2
            <4> HIDE DEF x
            <4> QED
                BY <4>1, <4>2 DEF CurrentFor
        <3> QED
            BY <3>1, <3>2 DEF LinesCurrent
    <2>12. \A line \in Lines : cache[line].state = "M" => cache'[line] = cache[line]
        BY <2>8
    <2> QED
        BY <2>5, <2>6, <2>9, <2>10, <2>11, <2>12
<1> QED
    BY <1>7, <1>8, <1>9, <1>10

(* The pipeline when its k-th request is done.                             *)
LEMMA RequestDone ==
    ASSUME IInv, NEW k \in DOMAIN inBackend, MayAnswer(k),
           inBackend' = RemoveAt(inBackend, k), requestQueue' = requestQueue,
           outstandingEvents' = Erased(outstandingEvents, inBackend[k])
    PROVE  LET N == Len(Pipeline) IN
           /\ k \in 1 .. N /\ Pipeline[k] = inBackend[k]
           /\ Requests[k] = outstandingEvents[inBackend[k]]
           /\ inBackend[k] \in DOMAIN outstandingEvents
           /\ \A j \in 1 .. k - 1 : Requests[j].baseAddr # Requests[k].baseAddr
           /\ inBackend' \in Seq(Ids)
           /\ Len(Pipeline') = N - 1 /\ DOMAIN Pipeline' = 1 .. N - 1
           /\ IsInjective(Pipeline') /\ ToSet(Pipeline') = ToSet(Pipeline) \ {inBackend[k]}
           /\ \A j \in 1 .. N - 1 :
                 /\ Pipeline'[j] = IF j < k THEN Pipeline[j] ELSE Pipeline[j + 1]
                 /\ Requests'[j] = IF j < k THEN Requests[j] ELSE Requests[j + 1]
<1>1. PICK N \in Nat : N = Len(Pipeline)
    BY PipelineParts DEF IInv
<1>2. /\ inBackend \in Seq(Ids) /\ requestQueue \in Seq(Ids) /\ Pipeline \in Seq(Ids)
      /\ DOMAIN Pipeline = 1 .. N /\ IsInjective(Pipeline)
    BY <1>1, PipelineParts DEF IInv, TableAgrees
<1>3. /\ \A j \in DOMAIN inBackend : j \in DOMAIN Pipeline /\ Pipeline[j] = inBackend[j]
      /\ DOMAIN inBackend = 1 .. Len(inBackend) /\ Len(inBackend) \in Nat
    BY <1>2, Behind, SeqParts DEF Pipeline
<1>4. \A n \in DOMAIN Pipeline : /\ Requests[n] = outstandingEvents[Pipeline[n]]
                                 /\ Pipeline[n] \in DOMAIN outstandingEvents
    BY RequestParts DEF IInv
<1>5. ASSUME NEW j \in 1 .. k - 1 PROVE Requests[j].baseAddr # Requests[k].baseAddr
    <2>1. j \in DOMAIN inBackend
        BY <1>3
    <2> QED
        BY <2>1, <1>3, <1>4 DEF MayAnswer
<1>6. Pipeline' = RemoveAt(Pipeline, k)
    BY <1>2, OutOfTheFront DEF Pipeline
<1>7. inBackend' \in Seq(Ids)
    BY <1>2, WithoutOne
<1>8. k \in DOMAIN Pipeline /\ Pipeline[k] = inBackend[k]
    BY <1>3
<1>9. /\ Len(Pipeline') = N - 1 /\ DOMAIN Pipeline' = 1 .. N - 1
      /\ \A j \in 1 .. N - 1 : Pipeline'[j] = IF j < k THEN Pipeline[j] ELSE Pipeline[j + 1]
    BY <1>1, <1>2, <1>6, <1>8, WithoutOne
<1>10. IsInjective(Pipeline') /\ ToSet(Pipeline') = ToSet(Pipeline) \ {inBackend[k]}
    BY <1>2, <1>6, <1>8, OneLess
<1>11. ASSUME NEW j \in 1 .. N - 1
       PROVE  Requests'[j] = IF j < k THEN Requests[j] ELSE Requests[j + 1]
    <2> DEFINE m == IF j < k THEN j ELSE j + 1
    <2>1. m \in DOMAIN Pipeline /\ m # k /\ k \in Nat
        BY <1>2, <1>3
    <2>2. Pipeline'[j] = Pipeline[m] /\ Requests'[j] = outstandingEvents'[Pipeline'[j]]
        BY <1>9 DEF Requests
    <2>3. Pipeline[m] # inBackend[k]
        BY <1>2, <1>8, <2>1 DEF IsInjective
    <2>4. Pipeline[m] \in DOMAIN outstandingEvents \ {inBackend[k]}
        BY <1>4, <2>1, <2>3
    <2>5. outstandingEvents'[Pipeline[m]] = outstandingEvents[Pipeline[m]]
        <3> HIDE DEF m
        <3> QED
            BY <2>4 DEF Erased
    <2>6. Requests'[j] = Requests[m]
        <3> HIDE DEF m
        <3> QED
            BY <1>4, <2>1, <2>2, <2>5
    <2> QED
        BY <2>6
<1>12. Requests[k] = outstandingEvents[inBackend[k]] /\ inBackend[k] \in DOMAIN outstandingEvents
    BY <1>4, <1>8
<1> QED
    BY <1>1, <1>2, <1>5, <1>7, <1>8, <1>9, <1>10, <1>11, <1>12

LEMMA MemoryTypes ==
    ASSUME IInv, NEW ev, Known(ev)
    PROVE  /\ written(ev) \in [Address -> Values]
           /\ ev.cmd \notin Writes => written(ev) = backing
<1>1. backing \in [Address -> Values]
    BY DEF IInv, TypeOK
<1>2. \A a \in Address : StoresTo(ev, a) => Stored(ev, a) \in Values
    BY StoreWords
<1>3. ev.cmd \notin Writes => \A a : ~StoresTo(ev, a)
    BY DEF StoresTo
<1>4. written(ev) \in [Address -> Values]
    BY <1>1, <1>2 DEF written
<1>5. backing = [a \in Address |-> backing[a]]
    BY <1>1
<1> QED
    BY <1>3, <1>4, <1>5 DEF written

LEMMA MemResponseStep ==
    ASSUME IInv, NEW k \in DOMAIN inBackend, handleMemResponse(k)
    PROVE  IInv'
<1> DEFINE id == inBackend[k]
           ev == outstandingEvents[id]
<1>1. /\ fault = "none" /\ MayAnswer(k)
      /\ inBackend' = RemoveAt(inBackend, k) /\ requestQueue' = requestQueue
      /\ waitingFlushes' = [f \in DOMAIN waitingFlushes |-> waitingFlushes[f] \ {id}]
      /\ outstandingEvents' = Erased(outstandingEvents, id)
      /\ backing' = written(ev) /\ latest' = latest
      /\ CustomAnswered(ev) \/ NoAnswer(ev) \/ PIMAnswered(id, ev) \/ HostAnswered(ev)
    BY DEF handleMemResponse, Complete
<1>2. PICK N \in Nat : N = Len(Pipeline)
    BY PipelineParts DEF IInv
<1>3. /\ k \in 1 .. N /\ Pipeline[k] = id /\ Requests[k] = ev /\ id \in DOMAIN outstandingEvents
      /\ \A j \in 1 .. k - 1 : Requests[j].baseAddr # Requests[k].baseAddr
      /\ inBackend' \in Seq(Ids)
      /\ Len(Pipeline') = N - 1 /\ DOMAIN Pipeline' = 1 .. N - 1
      /\ IsInjective(Pipeline') /\ ToSet(Pipeline') = ToSet(Pipeline) \ {id}
      /\ \A j \in 1 .. N - 1 :
            /\ Pipeline'[j] = IF j < k THEN Pipeline[j] ELSE Pipeline[j + 1]
            /\ Requests'[j] = IF j < k THEN Requests[j] ELSE Requests[j + 1]
    BY <1>1, <1>2, RequestDone
<1>4. /\ DOMAIN Pipeline = 1 .. N /\ \A n \in 1 .. N : Known(Requests[n])
      /\ \A n \in DOMAIN outstandingEvents : Known(outstandingEvents[n])
    BY <1>2, RequestParts, PipelineParts DEF IInv
<1>5. Known(ev)
    BY <1>3, <1>4
<1>6. /\ HostType' /\ fault' \in {"none", "custom"} /\ HostWaits' /\ LinesCurrent'
      /\ pendingPIMEvents' = {n \in DOMAIN outstandingEvents' :
                                "PIM" \in outstandingEvents'[n].flags}
      /\ \A line \in Lines : cache[line].state = "M" => cache'[line] = cache[line]
    <2>1. ev.cmd \in Reads => readData(ev) = ev.expect
        BY <1>3, <1>4, ReadFinds
    <2> QED
        BY <1>1, <1>3, <2>1, AnswerStep
<1> HIDE DEF ev, id
<1>7. /\ DOMAIN outstandingEvents' = DOMAIN outstandingEvents \ {id}
      /\ \A n \in DOMAIN outstandingEvents' : outstandingEvents'[n] = outstandingEvents[n]
    BY <1>1 DEF Erased
<1>8. /\ backing' \in [Address -> Values]
      /\ \A a \in Address : backing'[a] = IF StoresTo(Requests[k], a) THEN Stored(Requests[k], a)
                                          ELSE backing[a]
    BY <1>1, <1>3, <1>5, MemoryTypes DEF written
(* Whether the k-th request stores to a word of another one.               *)
<1>9. ASSUME NEW a, NEW j \in 1 .. N, a \in Place(Requests[j].baseAddr),
             StoresTo(Requests[k], a)
      PROVE  Requests[j].baseAddr = Requests[k].baseAddr
    <2>1. a \in Place(Requests[k].baseAddr)
        BY <1>3, <1>4, <1>9, StoreWords
    <2>2. /\ Requests[k].baseAddr \in Lines \cup Noncacheable
          /\ Requests[j].baseAddr \in Lines \cup Noncacheable
        BY <1>3, <1>4, EventWords
    <2> QED
        BY <1>9, <2>1, <2>2, PlacesApart
<1>10. ASSUME NEW a, StoresTo(Requests[k], a), NEW j \in 1 .. k - 1
       PROVE  ~StoresTo(Requests[j], a)
    <2>1. j \in 1 .. N
        BY <1>3
    <2>2. Requests[j].baseAddr # Requests[k].baseAddr
        BY <1>3
    <2>3. a \notin Place(Requests[j].baseAddr)
        BY <1>9, <1>10, <2>1, <2>2
    <2> QED
        BY <1>4, <2>1, <2>3, StoreWords
<1>11. ASSUME NEW a \in Address, NEW v, NEW n \in k .. N, Leaves(Requests, backing, n, a, v)
       PROVE  Leaves(Requests', backing', n - 1, a, v)
    <2>1. /\ StoresTo(Requests[k], a) => \A j \in 1 .. k - 1 : ~StoresTo(Requests[j], a)
          /\ backing'[a] = IF StoresTo(Requests[k], a) THEN Stored(Requests[k], a) ELSE backing[a]
          /\ \A j \in 1 .. N - 1 : Requests'[j] = IF j < k THEN Requests[j] ELSE Requests[j + 1]
        BY <1>3, <1>8, <1>10
    <2> QED
        BY <1>3, <1>11, <2>1, LeavesDone
<1>12. ReadsSettled'
    <2> SUFFICES ASSUME NEW n \in 1 .. N - 1, Requests'[n].cmd \in Reads,
                        NEW i \in 1 .. Requests'[n].size
                 PROVE  Leaves(Requests', backing', n - 1, Requests'[n].baseAddr + i - 1,
                               Requests'[n].expect[i])
        BY <1>3 DEF ReadsSettled, Settled
    <2> DEFINE m == IF n < k THEN n ELSE n + 1
               a == Requests'[n].baseAddr + i - 1
               v == Requests'[n].expect[i]
    <2>1. m \in 1 .. N /\ Requests'[n] = Requests[m]
        BY <1>3
    <2>2. Settled(Requests, backing, m)
        BY <1>4, <2>1 DEF IInv, ReadsSettled
    <2>3. Leaves(Requests, backing, m - 1, a, v)
        <3> HIDE DEF m
        <3> QED
            BY <2>1, <2>2 DEF Settled
    <2>4. a \in Place(Requests[m].baseAddr) /\ a \in Address
        <3> HIDE DEF m
        <3>1. /\ Place(Requests[m].baseAddr)
                     = Requests[m].baseAddr .. Requests[m].baseAddr + Requests[m].size - 1
              /\ Requests[m].baseAddr \in Lines \cup Noncacheable
              /\ Requests[m].baseAddr \in Nat /\ Requests[m].size \in Nat
            BY <1>4, <2>1, EventWords
        <3>2. a \in Place(Requests[m].baseAddr)
            BY <2>1, <3>1
        <3> QED
            BY <3>1, <3>2, PlacesApart
    <2>5. CASE n < k
        <3>1. m = n /\ m - 1 \in Nat /\ m \in 1 .. k - 1
            BY <1>3, <2>5
        <3> HIDE DEF m, a, v
        <3>2. ~StoresTo(Requests[k], a)
            BY <1>3, <1>9, <2>1, <2>4, <3>1
        <3>3. backing'[a] = backing[a]
            BY <1>8, <2>4, <3>2
        <3>4. \A j \in 1 .. m - 1 : Requests'[j] = Requests[j]
            <4>1. \A j \in 1 .. m - 1 : j \in 1 .. N - 1 /\ j < k
                BY <1>3, <3>1
            <4> QED
                BY <1>3, <4>1
        <3>5. Leaves(Requests', backing', m - 1, a, v)
            BY <2>3, <3>1, <3>3, <3>4, LeavesKept
        <3> QED
            BY <3>1, <3>5 DEF a, v
    <2>6. CASE ~(n < k)
        <3>1. m - 1 = n /\ n \in k .. N
            BY <1>3, <2>6
        <3> HIDE DEF m, a, v
        <3>2. Leaves(Requests', backing', n - 1, a, v)
            BY <1>11, <2>3, <2>4, <3>1
        <3> QED
            BY <3>2 DEF a, v
    <2> QED
        BY <2>5, <2>6
<1>13. StoresSettled'
    <2> SUFFICES ASSUME NEW a \in Address
                 PROVE  \/ \E line \in Lines : a \in Words(line) /\ cache'[line].state = "M"
                        \/ Leaves(Requests', backing', Len(Pipeline'), a, latest[a])
        BY <1>1 DEF StoresSettled
    <2>1. CASE \E line \in Lines : a \in Words(line) /\ cache[line].state = "M"
        BY <1>6, <2>1
    <2>2. CASE Leaves(Requests, backing, N, a, latest[a])
        <3>1. N \in k .. N
            BY <1>3
        <3> QED
            BY <1>3, <1>11, <2>2, <3>1
    <2> QED
        BY <1>2, <2>1, <2>2 DEF IInv, StoresSettled
<1>14. FlushesFollow'
    <2> SUFFICES ASSUME NEW f \in DOMAIN waitingFlushes
                 PROVE  /\ outstandingEvents'[f].cmd = "FlushLine"
                        /\ outstandingEvents'[f].payload # << >> =>
                              Follows(Requests', Pipeline', outstandingEvents'[f].baseAddr,
                                      waitingFlushes[f] \ {id})
        BY <1>1 DEF FlushesFollow
    <2>1. /\ f \in DOMAIN outstandingEvents /\ outstandingEvents[f].cmd = "FlushLine"
          /\ f \notin ToSet(Pipeline)
        BY DEF IInv, TableAgrees, FlushesFollow
    <2>2. id \in ToSet(Pipeline)
        BY <1>3, <1>4 DEF ToSet
    <2>3. outstandingEvents'[f] = outstandingEvents[f]
        BY <1>7, <2>1, <2>2
    <2>4. ASSUME outstandingEvents[f].payload # << >>
          PROVE  Follows(Requests', Pipeline', outstandingEvents[f].baseAddr,
                         waitingFlushes[f] \ {id})
        <3>1. Follows(Requests, Pipeline, outstandingEvents[f].baseAddr, waitingFlushes[f])
            BY <2>4 DEF IInv, FlushesFollow
        <3>2. IsInjective(Pipeline)
            BY DEF IInv, TableAgrees
        <3>3. Follows(Requests', Pipeline', outstandingEvents[f].baseAddr,
                      waitingFlushes[f] \ {Pipeline[k]})
            <4>1. /\ \A j \in 1 .. N - 1 :
                        /\ Requests'[j] = IF j < k THEN Requests[j] ELSE Requests[j + 1]
                        /\ Pipeline'[j] = IF j < k THEN Pipeline[j] ELSE Pipeline[j + 1]
                  /\ \A j \in 1 .. k - 1 : Requests[j].baseAddr # Requests[k].baseAddr
                  /\ DOMAIN Pipeline = 1 .. N /\ DOMAIN Pipeline' = 1 .. N - 1
                  /\ k \in 1 .. N /\ N \in Nat
                BY <1>3, <1>4
            <4> QED
                BY <3>1, <3>2, <4>1, FollowsDone
        <3> QED
            BY <1>3, <3>3
    <2> QED
        BY <2>1, <2>3, <2>4
<1>15. OnlyRequests'
    <2>1. ASSUME NEW n \in 1 .. N - 1 PROVE Requests'[n].cmd # "FlushLine"
        <3>1. n \in 1 .. N /\ n + 1 \in 1 .. N
            OBVIOUS
        <3> QED
            BY <1>3, <1>4, <3>1 DEF IInv, OnlyRequests
    <2> QED
        BY <1>3, <2>1 DEF OnlyRequests
<1>16. ControllerType'
    <2>1. requestQueue' \in Seq(Ids) /\ inBackend' \in Seq(Ids)
        BY <1>1, <1>3 DEF IInv, TypeOK
    <2>2. /\ DOMAIN outstandingEvents' \subseteq Ids
          /\ \A n \in DOMAIN outstandingEvents' : outstandingEvents'[n] \in Event
        BY <1>7 DEF IInv, TypeOK
    <2>3. /\ DOMAIN waitingFlushes' \subseteq Ids
          /\ \A f \in DOMAIN waitingFlushes' : waitingFlushes'[f] \subseteq Ids
        BY <1>1 DEF IInv, TypeOK
    <2>4. pendingPIMEvents' \subseteq Ids
        BY <1>6, <2>2
    <2> QED
        BY <1>8, <2>1, <2>2, <2>3, <2>4 DEF ControllerType
<1>17. TableAgrees'
    <2>1. /\ ToSet(Pipeline') \cap DOMAIN waitingFlushes' = {}
          /\ ToSet(Pipeline') \cup DOMAIN waitingFlushes' = DOMAIN outstandingEvents'
        <3>1. id \in ToSet(Pipeline) /\ DOMAIN waitingFlushes' = DOMAIN waitingFlushes
            BY <1>1, <1>3, <1>4 DEF ToSet
        <3> QED
            BY <1>3, <1>7, <3>1 DEF IInv, TableAgrees
    <2> QED
        BY <1>3, <1>6, <2>1 DEF TableAgrees
<1>18. EventsKnown'
    BY <1>4, <1>7 DEF EventsKnown, Known, ForLine, ForWord
<1>19. ControllerInv'
    BY <1>12, <1>14, <1>15, <1>16, <1>17, <1>18 DEF ControllerInv
<1> QED
    BY <1>6, <1>13, <1>19, Assembled

LEMMA FlushResponseStep ==
    ASSUME IInv, NEW f \in DOMAIN waitingFlushes, handleFlushResponse(f)
    PROVE  IInv'
<1> DEFINE ev == outstandingEvents[f]
<1>1. /\ fault = "none" /\ waitingFlushes' = Erased(waitingFlushes, f)
      /\ inBackend' = inBackend /\ requestQueue' = requestQueue
      /\ outstandingEvents' = Erased(outstandingEvents, f)
      /\ backing' = written(ev) /\ latest' = latest
      /\ CustomAnswered(ev) \/ NoAnswer(ev) \/ PIMAnswered(f, ev) \/ HostAnswered(ev)
    BY DEF handleFlushResponse, Complete
<1>2. /\ f \in DOMAIN outstandingEvents /\ ev.cmd = "FlushLine" /\ f \notin ToSet(Pipeline)
    BY DEF IInv, TableAgrees, FlushesFollow
<1>3. \A n \in DOMAIN outstandingEvents : Known(outstandingEvents[n])
    BY PipelineParts DEF IInv
<1>4. backing' = backing
    BY <1>1, <1>2, <1>3, MemoryTypes DEF Writes
<1>5. /\ HostType' /\ fault' \in {"none", "custom"} /\ HostWaits' /\ LinesCurrent'
      /\ pendingPIMEvents' = {n \in DOMAIN outstandingEvents' :
                                "PIM" \in outstandingEvents'[n].flags}
      /\ \A line \in Lines : cache[line].state = "M" => cache'[line] = cache[line]
    <2>1. ev.cmd \in Reads => readData(ev) = ev.expect
        BY <1>2 DEF Reads
    <2> QED
        BY <1>1, <1>2, <2>1, AnswerStep
<1> HIDE DEF ev
<1>6. /\ DOMAIN outstandingEvents' = DOMAIN outstandingEvents \ {f}
      /\ \A n \in DOMAIN outstandingEvents' : outstandingEvents'[n] = outstandingEvents[n]
      /\ DOMAIN waitingFlushes' = DOMAIN waitingFlushes \ {f}
      /\ \A n \in DOMAIN waitingFlushes' : waitingFlushes'[n] = waitingFlushes[n]
    BY <1>1 DEF Erased
<1>7. Pipeline' = Pipeline
    BY <1>1 DEF Pipeline
<1>8. Requests' = Requests
    <2>1. \A n \in DOMAIN Pipeline : Pipeline[n] \in DOMAIN outstandingEvents'
        BY <1>2, <1>6, RequestParts DEF IInv, ToSet
    <2>2. \A n \in DOMAIN Pipeline :
              outstandingEvents'[Pipeline[n]] = outstandingEvents[Pipeline[n]]
        BY <1>6, <2>1
    <2> QED
        BY <1>7, <2>2 DEF Requests
<1>9. ReadsSettled' /\ OnlyRequests'
    BY <1>4, <1>7, <1>8 DEF IInv, ReadsSettled, OnlyRequests
<1>10. StoresSettled'
    <2>1. \A line \in Lines : cache[line].state = "M" => cache'[line].state = "M"
        BY <1>5
    <2> QED
        BY <1>1, <1>4, <1>7, <1>8, <2>1 DEF IInv, StoresSettled
<1>11. ControllerType'
    <2>1. /\ DOMAIN outstandingEvents' \subseteq Ids
          /\ \A n \in DOMAIN outstandingEvents' : outstandingEvents'[n] \in Event
        BY <1>6 DEF IInv, TypeOK
    <2>2. pendingPIMEvents' \subseteq Ids
        BY <1>5, <2>1
    <2> QED
        BY <1>1, <1>4, <1>6, <2>1, <2>2 DEF IInv, TypeOK, ControllerType
<1>12. TableAgrees'
    <2>1. /\ ToSet(Pipeline') \cap DOMAIN waitingFlushes' = {}
          /\ ToSet(Pipeline') \cup DOMAIN waitingFlushes' = DOMAIN outstandingEvents'
        BY <1>2, <1>6, <1>7 DEF IInv, TableAgrees
    <2>2. IsInjective(Pipeline')
        BY <1>7 DEF IInv, TableAgrees
    <2> QED
        BY <1>5, <2>1, <2>2 DEF TableAgrees
<1>13. EventsKnown'
    BY <1>3, <1>6 DEF EventsKnown, Known, ForLine, ForWord
<1>14. FlushesFollow'
    <2>1. \A g \in DOMAIN waitingFlushes' : g \in DOMAIN outstandingEvents'
        BY <1>6 DEF IInv, TableAgrees
    <2> QED
        BY <1>6, <1>7, <1>8, <2>1 DEF IInv, FlushesFollow
<1>15. ControllerInv'
    BY <1>9, <1>11, <1>12, <1>13, <1>14 DEF ControllerInv
<1> QED
    BY <1>5, <1>10, <1>15, Assembled

-----------------------------------------------------------------------------
(* The invariant.                                                          *)

LEMMA IInvInit == Init => IInv
<1> SUFFICES ASSUME Init PROVE IInv
    OBVIOUS
<1> USE DEF Init
<1>1. /\ Initial \in Values /\ lineSize \in Nat
    BY Constants
<1>2. /\ << >> \in Seq(Ids) /\ Pipeline = << >> /\ DOMAIN Pipeline = {} /\ Len(Pipeline) = 0
    <2>1. << >> \o << >> = << >> /\ Len(<< >>) = 0 /\ DOMAIN << >> = {}
        OBVIOUS
    <2> QED
        BY <2>1 DEF Pipeline
<1>3. \A line \in Lines : Zero(line) \in Seq(Values) /\ Len(Zero(line)) = lineSize
    <2>1. \A line \in Lines : Zero(line) \in [1 .. lineSize -> Values]
        BY <1>1 DEF Zero
    <2> QED
        BY <1>1, <2>1, SeqDef, LenProperties DEF Zero
<1>4. \A a \in Address : latest[a] = Initial /\ backing[a] = Initial
    OBVIOUS
<1>5. DOMAIN outstandingEvents = {} /\ DOMAIN waitingFlushes = {}
    OBVIOUS
<1>6. TypeOK
    BY <1>1, <1>2, <1>3, <1>5 DEF TypeOK, Reads, Flushes
<1>7. TableAgrees
    BY <1>2, <1>5 DEF TableAgrees, IsInjective, ToSet
<1>8. EventsKnown /\ HostWaits /\ FlushesFollow /\ OnlyCustomFaults
    BY <1>5 DEF EventsKnown, HostWaits, FlushesFollow, OnlyCustomFaults
<1>9. LinesCurrent
    BY <1>5 DEF LinesCurrent
<1>10. ReadsSettled /\ OnlyRequests
    BY <1>2 DEF ReadsSettled, OnlyRequests
<1>11. StoresSettled
    BY <1>2, <1>4 DEF StoresSettled, Leaves
<1> QED
    BY <1>6, <1>7, <1>8, <1>9, <1>10, <1>11 DEF IInv

LEMMA IInvStutters ==
    ASSUME IInv, UNCHANGED vars
    PROVE  IInv'
<1>1. /\ UNCHANGED <<controllerVars, memVars, pendingPIMEvents>>
      /\ UNCHANGED <<cache, waiting, latest, fault>>
    BY DEF vars, hostVars
<1>2. ControllerInv' /\ Requests' = Requests /\ Pipeline' = Pipeline
      /\ outstandingEvents' = outstandingEvents /\ backing' = backing
    BY <1>1, ControllerStays DEF controllerVars, memVars
<1>3. HostWaits'
    BY <1>1, <1>2, HostStays
<1>4. HostType' /\ LinesCurrent' /\ StoresSettled'
    BY <1>1, <1>2 DEF IInv, TypeOK, HostType, LinesCurrent, StoresSettled
<1>5. fault' \in {"none", "custom"}
    BY <1>1 DEF IInv, OnlyCustomFaults
<1> QED
    BY <1>2, <1>3, <1>4, <1>5, Assembled

LEMMA IInvNext ==
    ASSUME IInv, [Next]_vars
    PROVE  IInv'
<1>1. CASE Host
    <2>1. ASSUME NEW line \in Lines, NEW cmd \in Reads, Fetch(line, cmd) PROVE IInv'
        BY <2>1, FetchStep
    <2>2. ASSUME NEW line \in Lines, Hit(line) PROVE IInv'
        BY <2>2, HitStep
    <2>3. ASSUME NEW line \in Lines, Evict(line) PROVE IInv'
        BY <2>3, EvictStep
    <2>4. ASSUME NEW line \in Lines, NEW cmd \in Flushes, Flush(line, cmd) PROVE IInv'
        BY <2>4, FlushStep
    <2>5. ASSUME NEW a \in Noncacheable, Load(a) \/ Store(a) \/ Custom(a) PROVE IInv'
        BY <2>5, WordSteps
    <2>6. ASSUME NEW a \in Noncacheable, CustomDecoded(a) PROVE IInv'
        BY <2>6, CustomDecodedStep
    <2> QED
        BY <1>1, <2>1, <2>2, <2>3, <2>4, <2>5, <2>6 DEF Host
<1>2. CASE PIM
    BY <1>2, WordSteps DEF PIM
<1>3. CASE Memory
    <2>1. CASE Issue
        BY <2>1, IssueStep
    <2>2. ASSUME NEW k \in DOMAIN inBackend, handleMemResponse(k) PROVE IInv'
        BY <2>2, MemResponseStep
    <2>3. ASSUME NEW f \in DOMAIN waitingFlushes, handleFlushResponse(f) PROVE IInv'
        BY <2>3, FlushResponseStep
    <2> QED
        BY <1>3, <2>1, <2>2, <2>3 DEF Memory
<1>4. CASE UNCHANGED vars
    BY <1>4, IInvStutters
<1> QED
    BY <1>1, <1>2, <1>3, <1>4 DEF Next

(* In every state the tables agree with what is under way, and memory with *)
(* what the requests under way will have stored in it, whatever the order  *)
(* of answers for different lines (MemControllerKG, its backend).          *)
THEOREM Invariant == Spec => []IInv
<1>1. Init => IInv
    BY IInvInit
<1>2. IInv /\ [Next]_vars => IInv'
    BY IInvNext
<1> QED
    BY <1>1, <1>2, PTL DEF Spec

(* Every variable has its type: no event without a command the controller  *)
(* knows, no line that is not of full length (CachedMemory's state).       *)
THEOREM TypeCorrect == Spec => []TypeOK
<1>1. IInv => TypeOK
    BY DEF IInv
<1> QED
    BY <1>1, Invariant, PTL

(* Each event has one entry and one place, each entry an event, and the    *)
(* PIM's table has those of the PIM (outstandingEvents_, the convertor,    *)
(* pendingPIMEvents).                                                      *)
THEOREM TablesAgree == Spec => []TableAgrees
<1>1. IInv => TableAgrees
    BY DEF IInv
<1> QED
    BY <1>1, Invariant, PTL

(* Every answer is for somebody who waits for it, and only a custom        *)
(* command ends the simulation (handleMemResponse, handlePIMCompletion).   *)
THEOREM FaultsAreCustom == Spec => []OnlyCustomFaults
<1>1. IInv => OnlyCustomFaults
    BY DEF IInv
<1> QED
    BY <1>1, Invariant, PTL

(* No store is lost: what was stored last is in a dirty line, on its way,  *)
(* or in memory (handleEvent, writeData).                                  *)
THEOREM NoStoreLost == Spec => []NothingLost
<1>1. IInv => NothingLost
    BY SettledIsNothingLost DEF IInv
<1> QED
    BY <1>1, Invariant, PTL

-----------------------------------------------------------------------------
(* What a step may do.                                                     *)

LEMMA Asking ==
    ASSUME NEW ev, handleEvent(ev)
    PROVE  /\ DOMAIN outstandingEvents \subseteq DOMAIN outstandingEvents'
           /\ DOMAIN waitingFlushes \subseteq DOMAIN waitingFlushes'
<1>1. CASE handlePassedOn(ev)
    BY <1>1 DEF handlePassedOn, Added
<1>2. CASE handleFlush(ev)
    BY <1>2 DEF handleFlush, Added
<1>3. CASE handleClean(ev)
    BY <1>3 DEF handleClean, controllerVars
<1> QED
    BY <1>1, <1>2, <1>3 DEF handleEvent

LEMMA OnlyMemoryAnswers ==
    ASSUME [Next]_vars
    PROVE  \/ /\ DOMAIN outstandingEvents \subseteq DOMAIN outstandingEvents'
              /\ DOMAIN waitingFlushes \subseteq DOMAIN waitingFlushes'
           \/ \E k \in DOMAIN inBackend : handleMemResponse(k)
           \/ \E f \in DOMAIN waitingFlushes : handleFlushResponse(f)
<1>1. CASE Host
    <2>1. ASSUME NEW p, NEW ev, Sends(p, ev)
          PROVE  /\ DOMAIN outstandingEvents \subseteq DOMAIN outstandingEvents'
                 /\ DOMAIN waitingFlushes \subseteq DOMAIN waitingFlushes'
        BY <2>1, Asking DEF Sends
    <2>2. CASE \E line \in Lines : \E cmd \in Reads : Fetch(line, cmd)
        BY <2>1, <2>2 DEF Fetch
    <2>3. CASE \E line \in Lines : Hit(line)
        BY <2>3 DEF Hit, controllerVars
    <2>4. CASE \E line \in Lines : Evict(line)
        BY <2>1, <2>4 DEF Evict
    <2>5. CASE \E line \in Lines : \E cmd \in Flushes : Flush(line, cmd)
        BY <2>1, <2>5 DEF Flush
    <2>6. CASE \E a \in Noncacheable : Load(a) \/ Store(a) \/ Custom(a)
        BY <2>1, <2>6 DEF Load, Store, Custom
    <2>7. CASE \E a \in Noncacheable : CustomDecoded(a)
        BY <2>7 DEF CustomDecoded, controllerVars
    <2> QED
        BY <1>1, <2>2, <2>3, <2>4, <2>5, <2>6, <2>7 DEF Host
<1>2. CASE PIM
    BY <1>2, Asking DEF PIM, PIMRead, PIMWrite, Requested
<1>3. CASE Memory
    BY <1>3 DEF Memory, Issue
<1>4. CASE UNCHANGED vars
    BY <1>4 DEF vars, controllerVars
<1> QED
    BY <1>1, <1>2, <1>3, <1>4 DEF Next

(* A read is answered by what had been stored last when it was asked for   *)
(* (readData, and the order that the memory model keeps).                  *)
THEOREM ReadsSeeLatest == Spec => ReadsLatest
<1> DEFINE A == \A id \in DOMAIN outstandingEvents :
                    LET ev == outstandingEvents[id] IN
                    ev.cmd \in Reads /\ id \notin DOMAIN outstandingEvents' =>
                        readData(ev) = ev.expect
<1>1. IInv /\ [Next]_vars => A
    <2> SUFFICES ASSUME IInv, [Next]_vars, NEW id \in DOMAIN outstandingEvents,
                        outstandingEvents[id].cmd \in Reads,
                        id \notin DOMAIN outstandingEvents'
                 PROVE  readData(outstandingEvents[id]) = outstandingEvents[id].expect
        OBVIOUS
    <2>1. CASE \E k \in DOMAIN inBackend : handleMemResponse(k)
        <3>1. PICK k \in DOMAIN inBackend : handleMemResponse(k)
            BY <2>1
        <3>2. /\ MayAnswer(k) /\ inBackend' = RemoveAt(inBackend, k)
              /\ requestQueue' = requestQueue
              /\ outstandingEvents' = Erased(outstandingEvents, inBackend[k])
            BY <3>1 DEF handleMemResponse, Complete
        <3>3. id = inBackend[k]
            BY <3>2 DEF Erased
        <3>4. /\ k \in 1 .. Len(Pipeline) /\ Requests[k] = outstandingEvents[id]
              /\ \A j \in 1 .. k - 1 : Requests[j].baseAddr # Requests[k].baseAddr
            BY <3>2, <3>3, RequestDone
        <3>5. k \in DOMAIN Pipeline
            BY <3>4, RequestParts DEF IInv
        <3> QED
            BY <3>4, <3>5, ReadFinds
    <2>2. CASE \E f \in DOMAIN waitingFlushes : handleFlushResponse(f)
        <3>1. PICK f \in DOMAIN waitingFlushes : handleFlushResponse(f)
            BY <2>2
        <3>2. id = f
            BY <3>1 DEF handleFlushResponse, Complete, Erased
        <3> QED
            BY <3>2 DEF IInv, FlushesFollow, Reads
    <2> QED
        BY <2>1, <2>2, OnlyMemoryAnswers
<1>2. Spec => [][A]_vars
    BY <1>1, Invariant, PTL DEF Spec
<1> QED
    BY <1>2 DEF ReadsLatest

(* What a flush carried is in memory when it is answered (handleEvent's    *)
(* write-back, and what the convertor makes a flush wait for).             *)
THEOREM FlushesWriteBack == Spec => FlushWritesBack
<1> DEFINE A == \A f \in DOMAIN waitingFlushes :
                    LET ev == outstandingEvents[f] IN
                    f \notin DOMAIN waitingFlushes' =>
                        \A k \in DOMAIN ev.payload :
                            backing'[ev.baseAddr + k - 1] = ev.payload[k]
<1>1. IInv /\ [Next]_vars => A
    <2> SUFFICES ASSUME IInv, [Next]_vars, NEW f \in DOMAIN waitingFlushes,
                        f \notin DOMAIN waitingFlushes',
                        NEW k \in DOMAIN outstandingEvents[f].payload
                 PROVE  backing'[outstandingEvents[f].baseAddr + k - 1]
                            = outstandingEvents[f].payload[k]
        OBVIOUS
    <2> DEFINE ev == outstandingEvents[f]
               line == ev.baseAddr
               a == line + k - 1
    <2>1. /\ f \in DOMAIN outstandingEvents /\ ev.cmd = "FlushLine"
          /\ ev.payload # << >> => Follows(Requests, Pipeline, line, waitingFlushes[f])
        BY DEF IInv, TableAgrees, FlushesFollow
    <2>2. Known(ev) /\ CurrentFor(cache, latest, ev)
        BY <2>1, PipelineParts DEF IInv, LinesCurrent
    <2>3. latest \in [Address -> Values]
        BY DEF IInv, TypeOK
    <2>4. handleFlushResponse(f)
        <3>1. \E g \in DOMAIN waitingFlushes : handleFlushResponse(g)
            BY OnlyMemoryAnswers DEF handleMemResponse
        <3>2. PICK g \in DOMAIN waitingFlushes : handleFlushResponse(g)
            BY <3>1
        <3>3. g = f
            BY <3>2 DEF handleFlushResponse, Erased
        <3> QED
            BY <3>2, <3>3
    <2>5. waitingFlushes[f] = {} /\ backing' = written(ev)
        BY <2>4 DEF handleFlushResponse, Complete
    <2>6. backing' = backing
        BY <2>1, <2>2, <2>5, MemoryTypes DEF Writes
    <2>7. /\ line \in Lines /\ ev.payload = Holding(latest, line)
          /\ cache[line].state # "M"
        <3>1. ev.payload # << >>
            OBVIOUS
        <3>2. line \in Lines
            BY <2>1, <2>2 DEF Known, ForLine, ForWord
        <3> QED
            BY <2>1, <2>2, <3>1, <3>2 DEF CurrentFor
    <2>8. a \in Words(line) /\ a \in Place(line) /\ ev.payload[k] = latest[a]
        <3>1. k \in 1 .. lineSize
            BY <2>3, <2>7, LineWords
        <3> QED
            BY <2>3, <2>7, <3>1, LineWords DEF Place
    <2>9. Leaves(Requests, backing, Len(Pipeline), a, latest[a])
        BY <2>7, <2>8, NotDirty
    <2>10. ASSUME NEW j \in 1 .. Len(Pipeline) PROVE ~StoresTo(Requests[j], a)
        <3>1. /\ j \in DOMAIN Pipeline /\ Known(Requests[j])
              /\ Requests[j].baseAddr \in Lines \cup Noncacheable
            BY RequestParts, EventWords DEF IInv
        <3>2. Requests[j].baseAddr # line
            <4>1. ev.payload # << >>
                OBVIOUS
            <4> QED
                BY <2>1, <2>5, <3>1, <4>1 DEF Follows
        <3>3. a \notin Place(Requests[j].baseAddr)
            BY <2>7, <2>8, <3>1, <3>2, PlacesApart
        <3> QED
            BY <3>1, <3>3, StoreWords
    <2>11. backing[a] = latest[a]
        <3> HIDE DEF a
        <3> QED
            BY <2>9, <2>10, LeavesMemory
    <2> QED
        BY <2>6, <2>8, <2>11
<1>2. Spec => [][A]_vars
    BY <1>1, Invariant, PTL DEF Spec
<1> QED
    BY <1>2 DEF FlushWritesBack
=============================================================================
