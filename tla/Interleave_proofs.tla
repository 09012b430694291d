------------------------- MODULE Interleave_proofs --------------------------
(***************************************************************************)
(* Proofs about Interleave: the two translations are inverse to each other *)
(* on the addresses of a region, no two of them share a cell, and what     *)
(* follows from it for the controller.                                     *)
(***************************************************************************)
EXTENDS Interleave, DataLemmas

(* Division.                                                               *)
LEMMA DivMod ==
    ASSUME NEW x \in Nat, NEW z \in Nat, 0 < z
    PROVE  /\ x \div z \in Nat /\ x % z \in Nat /\ x % z < z
           /\ x = ((x \div z) * z) + (x % z)
    BY SMT

LEMMA DivModUnique ==
    ASSUME NEW k \in Nat, NEW o \in Nat, NEW z \in Nat, o < z
    PROVE  ((k * z) + o) \div z = k /\ ((k * z) + o) % z = o
    BY SMT

LEMMA SmallMod ==
    ASSUME NEW x \in Nat, NEW z \in Nat, x < z
    PROVE  x % z = x
    BY SMT

LEMMA OnceMod ==
    ASSUME NEW x \in Nat, NEW z \in Nat, z <= x, x < 2 * z
    PROVE  x % z = x - z
    BY SMT

LEMMA Monotone ==
    ASSUME NEW a \in Nat, NEW b \in Nat, NEW z \in Nat, a <= b
    PROVE  a * z <= b * z
    BY SMT

LEMMA Product ==
    ASSUME NEW a \in Nat, NEW z \in Nat
    PROVE  (a + 1) * z = (a * z) + z
    BY SMT

LEMMA MulNat ==
    ASSUME NEW a \in Nat, NEW b \in Nat
    PROVE  a * b \in Nat
    BY SMT

(* A distance within the address space does not wrap.                      *)
LEMMA Distance ==
    ASSUME NEW a \in Addr, NEW b \in Addr, b <= a
    PROVE  Minus(a, b) = a - b /\ a - b \in Addr
<1>1. W \in Nat /\ a + W - b \in Nat /\ W <= a + W - b /\ a + W - b < 2 * W
    BY InterleaveAssumption DEF Addr
<1>2. (a + W - b) % W = (a + W - b) - W
    BY <1>1, OnceMod
<1> QED
    BY <1>1, <1>2 DEF Minus, Addr

(* An owned address, as block number and offset in the block.              *)
LEMMA Block ==
    ASSUME NEW r \in MemRegion, WellFormed(r), Interleaved(r),
           NEW a \in Addr, contains(r, a)
    PROVE  \E k \in Nat, o \in Nat :
              /\ o < r.interleaveSize
              /\ a - r.start = (k * r.interleaveStep) + o
              /\ translateToLocal(r, a) = (k * r.interleaveSize) + o
              /\ (k * r.interleaveSize) + o \in Addr
<1> DEFINE s == a - r.start
           k == s \div r.interleaveStep
           o == s % r.interleaveStep
<1>1. /\ r.start \in Addr /\ r.interleaveSize \in Nat /\ r.interleaveStep \in Nat
      /\ W \in Nat /\ r.start <= a
    BY InterleaveAssumption DEF MemRegion, Addr, contains
<1>2. Minus(a, r.start) = s /\ s \in Addr
    BY <1>1, Distance
<1>3. 0 < r.interleaveStep /\ r.interleaveSize <= r.interleaveStep
    BY <1>1 DEF WellFormed, Interleaved
<1>4. s \in Nat
    BY <1>1, <1>2 DEF Addr
<1>5. k \in Nat /\ o \in Nat /\ s = (k * r.interleaveStep) + o
    BY <1>1, <1>3, <1>4, DivMod
<1>6. o < r.interleaveSize
    BY <1>2 DEF contains
<1>7. k * r.interleaveSize <= k * r.interleaveStep
    BY <1>1, <1>3, <1>5, SMT
<1>8. (k * r.interleaveSize) \in Nat /\ (k * r.interleaveStep) \in Nat
    BY <1>1, <1>5, MulNat
<1>9. (k * r.interleaveSize) + o <= s
    BY <1>5, <1>7, <1>8
<1>10. (k * r.interleaveSize) + o \in Nat /\ (k * r.interleaveSize) + o < W
    BY <1>1, <1>2, <1>5, <1>8, <1>9 DEF Addr
<1>11. translateToLocal(r, a) = (k * r.interleaveSize) + o
    BY <1>1, <1>2, <1>10, SmallMod DEF translateToLocal
<1> HIDE DEF s, k, o
<1>12. (k * r.interleaveSize) + o \in Addr
    BY <1>1, <1>10 DEF Addr
<1> QED
    BY <1>5, <1>6, <1>11, <1>12 DEF s

(* What handleEvent translates into an address of the memory,              *)
(* handleMemResponse translates back into the address of the request       *)
(* (translateToLocal and translateToGlobal).                               *)
THEOREM RoundTrip ==
    ASSUME NEW r \in MemRegion, WellFormed(r), NEW a \in Addr, contains(r, a)
    PROVE  /\ translateToLocal(r, a) \in Addr
           /\ translateToGlobal(r, translateToLocal(r, a)) = a
<1>1. r.start \in Addr /\ r.start <= a /\ W \in Nat
    BY InterleaveAssumption DEF MemRegion, contains
<1>2. CASE ~Interleaved(r)
  <2>1. translateToLocal(r, a) = a - r.start /\ a - r.start \in Addr
      BY <1>1, <1>2, Distance DEF translateToLocal
  <2>2. translateToGlobal(r, a - r.start) = (a - r.start + r.start) % W
      BY <1>2 DEF translateToGlobal, Plus
  <2>3. a - r.start + r.start = a /\ a \in Nat /\ a < W
      BY <1>1 DEF Addr
  <2> QED
      BY <1>1, <2>1, <2>2, <2>3, SmallMod
<1>3. CASE Interleaved(r)
  <2>1. PICK k \in Nat, o \in Nat :
              /\ o < r.interleaveSize
              /\ a - r.start = (k * r.interleaveStep) + o
              /\ translateToLocal(r, a) = (k * r.interleaveSize) + o
              /\ (k * r.interleaveSize) + o \in Addr
      BY <1>3, Block
  <2>2. r.interleaveSize \in Nat /\ r.interleaveStep \in Nat
      BY <1>1 DEF MemRegion, Addr
  <2>3. /\ ((k * r.interleaveSize) + o) \div r.interleaveSize = k
        /\ ((k * r.interleaveSize) + o) % r.interleaveSize = o
      BY <2>1, <2>2, DivModUnique
  <2>4. translateToGlobal(r, translateToLocal(r, a))
           = ((k * r.interleaveStep) + o + r.start) % W
      BY <1>3, <2>1, <2>3 DEF translateToGlobal
  <2>5. (k * r.interleaveStep) \in Nat
      BY <2>2, MulNat
  <2>6. (k * r.interleaveStep) + o + r.start = a /\ a \in Nat /\ a < W
      BY <1>1, <2>1, <2>5 DEF Addr
  <2> QED
      BY <1>1, <2>1, <2>4, <2>6, SmallMod
<1> QED
    BY <1>2, <1>3

(* No two addresses of a region share a cell of the memory                 *)
(* (translateToLocal).                                                     *)
THEOREM CellsOfTheirOwn ==
    ASSUME NEW r \in MemRegion, WellFormed(r),
           NEW a \in Addr, NEW b \in Addr, contains(r, a), contains(r, b),
           translateToLocal(r, a) = translateToLocal(r, b)
    PROVE  a = b
BY RoundTrip

-----------------------------------------------------------------------------
(* The inductive invariant: no request is under way while the region may   *)
(* still change, and requests carry local addresses of owned ones.         *)
IInv ==
    /\ TypeOK
    /\ phase # MaxPhases => pending = {} /\ answer = {}
    /\ PendingAreLocal
    /\ AnswersKeepAddress

LEMMA ModType ==
    ASSUME NEW x \in Nat
    PROVE  x % W \in Addr
BY InterleaveAssumption, DivMod DEF Addr

LEMMA LocalType ==
    ASSUME NEW r \in MemRegion, NEW a \in Addr, contains(r, a), WellFormed(r)
    PROVE  translateToLocal(r, a) \in Addr
BY RoundTrip

LEMMA GlobalType ==
    ASSUME NEW r \in MemRegion, WellFormed(r), NEW a \in Addr
    PROVE  translateToGlobal(r, a) \in Addr
<1>1. /\ a \in Nat /\ r.start \in Nat
      /\ r.interleaveSize \in Nat /\ r.interleaveStep \in Nat
    BY InterleaveAssumption DEF MemRegion, Addr
<1>2. CASE ~Interleaved(r)
    BY <1>1, <1>2, ModType DEF translateToGlobal, Plus
<1>3. CASE Interleaved(r)
  <2>1. 0 < r.interleaveSize
      BY <1>1, <1>3 DEF Interleaved
  <2>2. a \div r.interleaveSize \in Nat /\ a % r.interleaveSize \in Nat
      BY <1>1, <2>1, DivMod
  <2>3. (a \div r.interleaveSize) * r.interleaveStep \in Nat
      BY <1>1, <2>2, MulNat
  <2>4. ((a \div r.interleaveSize) * r.interleaveStep)
           + (a % r.interleaveSize) + r.start \in Nat
      BY <1>1, <2>2, <2>3
  <2> QED
      BY <1>3, <2>4, ModType DEF translateToGlobal
<1> QED
    BY <1>2, <1>3

LEMMA MinusType ==
    ASSUME NEW a \in Addr, NEW b \in Addr
    PROVE  Minus(a, b) \in Addr
<1>1. a + W - b \in Nat
    BY InterleaveAssumption DEF Addr
<1> QED
    BY <1>1, ModType DEF Minus

LEMMA LimitedType ==
    ASSUME NEW r \in MemRegion, WellFormed(r), NEW m \in 1 .. W - 2
    PROVE  Limited(r, m) \in Addr
<1>1. m \in Nat /\ r.interleaveSize \in Nat /\ r.interleaveStep \in Nat /\ m \in Addr
    BY InterleaveAssumption DEF MemRegion, Addr
<1>2. CASE ~Interleaved(r)
    BY <1>1, <1>2 DEF Limited
<1>3. CASE Interleaved(r)
  <2>1. m \div r.interleaveSize \in Nat
      BY <1>1, <1>3, DivMod DEF Interleaved
  <2>2. (m \div r.interleaveSize) * r.interleaveStep \in Nat
      BY <1>1, <2>1, MulNat
  <2> QED
      BY <1>3, <2>2, ModType DEF Limited
<1> QED
    BY <1>2, <1>3

(* Only the end of a region is adjusted.                                   *)
LEMMA AdjustType ==
    ASSUME NEW r \in MemRegion, WellFormed(r), NEW m \in 1 .. W - 2
    PROVE  /\ adjustRegionToMemSize(r, m) \in MemRegion
           /\ WellFormed(adjustRegionToMemSize(r, m))
<1> DEFINE e == Minus(Plus(r.start, Limited(r, m)), 1)
<1>1. r.start \in Addr /\ Limited(r, m) \in Addr /\ 1 \in Addr
    BY LimitedType, InterleaveAssumption DEF MemRegion, Addr
<1>2. r.start + Limited(r, m) \in Nat
    BY <1>1, InterleaveAssumption DEF Addr
<1>3. e \in Addr
    BY <1>1, <1>2, ModType, MinusType DEF Plus
<1>4. [r EXCEPT !.end = e] \in MemRegion /\ WellFormed([r EXCEPT !.end = e])
    BY <1>3 DEF MemRegion, WellFormed
<1> QED
    BY <1>4 DEF adjustRegionToMemSize

LEMMA ZeroValue == Zero \in Values
BY InterleaveAssumption DEF Zero

LEMMA InitIInv == Init => IInv
<1> SUFFICES ASSUME Init PROVE IInv
    OBVIOUS
<1>1. memSize \in 1 .. W - 2
    BY InterleaveAssumption DEF Init
<1>2. region \in MemRegion /\ WellFormed(region)
  <2>1. PICK r \in Regions : region = adjustRegionToMemSize(r, memSize)
      BY DEF Init
  <2> QED
      BY <1>1, <2>1, AdjustType, InterleaveAssumption
<1>3. linkRegion = region /\ phase \in 0 .. MaxPhases
    BY InterleaveAssumption DEF Init
<1>4. backing \in [Addr -> Values] /\ DOMAIN pushed = {}
    BY ZeroValue DEF Init, NoData
<1>5. pending = {} /\ answer = {}
    BY DEF Init
<1> QED
    BY <1>1, <1>2, <1>3, <1>4, <1>5
    DEF IInv, TypeOK, PendingAreLocal, AnswersKeepAddress

LEMMA NextIInv == IInv /\ [Next]_vars => IInv'
<1> SUFFICES ASSUME IInv, [Next]_vars PROVE IInv'
    OBVIOUS
<1> USE DEF IInv
<1>1. CASE setRegion
  <2>1. linkRegion' \in MemRegion /\ WellFormed(linkRegion')
      BY <1>1, InterleaveAssumption DEF setRegion
  <2> QED
      BY <1>1, <2>1 DEF setRegion, TypeOK, PendingAreLocal, AnswersKeepAddress
<1>2. CASE init
  <2>1. pending = {} /\ answer = {} /\ phase' \in 0 .. MaxPhases /\ memSize' = memSize
        /\ pending' = pending /\ answer' = answer
      BY <1>2, InterleaveAssumption DEF init, TypeOK
  <2>2. /\ region' \in MemRegion /\ WellFormed(region')
        /\ linkRegion' = region'
      BY <1>2, AdjustType DEF init, TypeOK
  <2>3. CASE UNCHANGED <<backing, pushed>>
      BY <2>1, <2>2, <2>3 DEF TypeOK, PendingAreLocal, AnswersKeepAddress
  <2>4. CASE \E a \in Owned(region'), v \in Values : processInitEvent(region', a, v)
    <3>1. PICK a \in Addr, v \in Values : processInitEvent(region', a, v)
        BY <2>4 DEF Owned
    <3>2. backing' \in [Addr -> Values]
        BY <3>1 DEF processInitEvent, TypeOK
    <3>3. /\ DOMAIN pushed' = DOMAIN pushed \cup {a}
          /\ \A b \in DOMAIN pushed' : pushed'[b] = IF b = a THEN v ELSE pushed[b]
        BY <3>1 DEF processInitEvent
    <3>4. DOMAIN pushed' \subseteq Addr /\ \A b \in DOMAIN pushed' : pushed'[b] \in Values
        BY <3>3 DEF TypeOK
    <3> QED
        BY <2>1, <2>2, <3>2, <3>4 DEF TypeOK, PendingAreLocal, AnswersKeepAddress
  <2> QED
      BY <1>2, <2>3, <2>4 DEF init
<1>3. CASE handleEvent
  <2>1. /\ phase = MaxPhases /\ answer' = {}
        /\ UNCHANGED <<setupVars, backing, pushed>>
      BY <1>3 DEF handleEvent
  <2>2. PICK a \in Owned(region), cmd \in {"READ", "WRITE"}, v \in Values :
           pending' = pending \cup
              {[cmd |-> cmd, global |-> a, data |-> v,
                addr |-> translateToLocal(region, a)]}
      BY <1>3 DEF handleEvent
  <2>3. a \in Addr /\ contains(region, a)
      BY DEF Owned
  <2>4. translateToLocal(region, a) \in Addr
      BY <2>3, LocalType DEF TypeOK
  <2>5. pending' \subseteq Request
      BY <2>2, <2>3, <2>4 DEF TypeOK, Request
  <2>6. PendingAreLocal'
      BY <2>1, <2>2, <2>3 DEF PendingAreLocal, setupVars
  <2> QED
      BY <2>1, <2>5, <2>6 DEF TypeOK, setupVars, AnswersKeepAddress
<1>4. CASE \E q \in pending : handleMemResponse(q)
  <2>1. PICK q \in pending : handleMemResponse(q)
      BY <1>4
  <2>2. q \in Request /\ region \in MemRegion /\ WellFormed(region)
      BY DEF TypeOK
  <2>3. q.global \in Addr /\ q.addr \in Addr /\ q.data \in Values
        /\ q.cmd \in {"READ", "WRITE"}
      BY <2>2 DEF Request
  <2>4. translateToGlobal(region, q.addr) = q.global
      BY <2>2, <2>3, RoundTrip DEF PendingAreLocal
  <2>5. Completed(q) \in Addr
      BY <2>2, <2>3, GlobalType DEF Completed
  <2>6. translateToGlobal(region, Completed(q)) \in Addr
      BY <2>2, <2>5, GlobalType
  <2>7. UNCHANGED setupVars /\ pending' = pending \ {q}
      BY <2>1 DEF handleMemResponse
  <2>8. answer' = {[cmd |-> q.cmd, global |-> q.global, data |-> backing[q.addr],
                    addr |-> translateToGlobal(region, Completed(q))]}
      BY <2>1 DEF handleMemResponse
  <2>9. answer' \subseteq Request
      BY <2>3, <2>6, <2>8 DEF TypeOK, Request
  <2>10. AnswersKeepAddress'
    <3>1. CASE isMMIO(q) /\ q.cmd = "WRITE"
      <4>1. CASE ~Untranslated(region)
          BY <2>7, <2>8, <3>1, <4>1 DEF AnswersKeepAddress, isMMIO, setupVars, Untranslated, Interleaved
      (* The second translation does nothing.                              *)
      <4>2. CASE Untranslated(region)
        <5>1. Plus(q.global, region.start) = q.global
            BY <2>3, <4>2, InterleaveAssumption, SmallMod DEF Untranslated, Plus, Addr
        <5>2. translateToGlobal(region, Completed(q)) = q.global
            BY <2>4, <3>1, <4>2, <5>1 DEF Completed, translateToGlobal, Untranslated
        <5> QED
            BY <2>8, <5>2 DEF AnswersKeepAddress
      <4> QED
          BY <4>1, <4>2
    <3>2. CASE ~(isMMIO(q) /\ q.cmd = "WRITE")
        BY <2>4, <2>8, <3>2 DEF AnswersKeepAddress, Completed
    <3> QED
        BY <3>1, <3>2
  <2>11. backing' \in [Addr -> Values]
      BY <2>1, <2>3 DEF handleMemResponse, TypeOK
  <2>12. DOMAIN pushed' \subseteq Addr /\ \A b \in DOMAIN pushed' : pushed'[b] \in Values
      BY <2>1 DEF handleMemResponse, TypeOK
  <2>13. PendingAreLocal'
      BY <2>7 DEF PendingAreLocal, setupVars
  <2>14. (phase # MaxPhases => pending = {} /\ answer = {})'
      BY <2>1, <2>7 DEF handleMemResponse, setupVars
  <2> QED
      BY <2>7, <2>9, <2>10, <2>11, <2>12, <2>13, <2>14 DEF TypeOK, setupVars
<1>5. CASE UNCHANGED vars
    BY <1>5 DEF vars, setupVars, TypeOK, PendingAreLocal, AnswersKeepAddress
<1> QED
    BY <1>1, <1>2, <1>3, <1>4, <1>5 DEF Next

THEOREM InterleaveInvariance == Spec => []IInv
BY InitIInv, NextIInv, PTL DEF Spec

(* The types of the controller's region, its memory and its requests.      *)
THEOREM InterleaveTypeCorrect == Spec => []TypeOK
<1>1. IInv => TypeOK
    BY DEF IInv
<1> QED
    BY <1>1, InterleaveInvariance, PTL

(* Every response carries the address of its request, but those to stores  *)
(* to a device in a region that needs translation (handleMemResponse).     *)
THEOREM ResponsesKeepAddress == Spec => []AnswersKeepAddress
<1>1. IInv => AnswersKeepAddress
    BY DEF IInv
<1> QED
    BY <1>1, InterleaveInvariance, PTL

-----------------------------------------------------------------------------
(* What adjustRegionToMemSize achieves: the region takes no more than the  *)
(* memory, or it has been cut to nothing because not even a block fits.    *)
Fits(r, m) ==
    \/ LocalSize(r) <= m
    \/ Interleaved(r) /\ m < r.interleaveSize /\ r.end = Minus(r.start, 1)

(* The region that begins at b and has n addresses ends n - 1 further on.  *)
LEMMA EndOf ==
    ASSUME NEW b \in Addr, NEW n \in Addr, 0 < n
    PROVE  Minus(Minus(Plus(b, n), 1), b) = n - 1
<1>1. W \in Nat /\ b \in Nat /\ n \in Nat /\ b < W /\ n < W
    BY InterleaveAssumption DEF Addr
<1>2. CASE b + n < W
  <2>1. Plus(b, n) = b + n
      BY <1>1, <1>2, SmallMod DEF Plus
  <2>2. Minus(b + n, 1) = b + n - 1
      BY <1>1, <1>2, Distance DEF Addr
  <2>3. Minus(b + n - 1, b) = n - 1
      BY <1>1, <1>2, Distance DEF Addr
  <2> QED
      BY <2>1, <2>2, <2>3
<1>3. CASE b + n >= W
  <2>1. Plus(b, n) = b + n - W
    <3>1. b + n \in Nat /\ W <= b + n /\ b + n < 2 * W
        BY <1>1, <1>3
    <3>2. (b + n) % W = (b + n) - W
      <4> DEFINE x == b + n
      <4>1. x \in Nat /\ W <= x /\ x < 2 * W
          BY <3>1
      <4> HIDE DEF x
      <4>2. x % W = x - W
          BY <1>1, <4>1, OnceMod
      <4> QED
          BY <4>2 DEF x
    <3> QED
        BY <1>1, <3>2 DEF Plus
  <2>2. CASE b + n = W
    <3>1. Minus(0, 1) = W - 1
        BY <1>1, SmallMod DEF Minus
    <3>2. Minus(W - 1, b) = W - 1 - b
        BY <1>1, Distance DEF Addr
    <3> QED
        BY <1>1, <2>1, <2>2, <3>1, <3>2
  <2>3. CASE b + n > W
    <3>1. Minus(b + n - W, 1) = b + n - W - 1
        BY <1>1, <2>3, Distance DEF Addr
    <3>2. b + n - W - 1 + W - b = n - 1 /\ n - 1 \in Nat /\ n - 1 < W
        BY <1>1
    <3>3. Minus(b + n - W - 1, b) = n - 1
        BY <1>1, <3>2, SmallMod DEF Minus
    <3> QED
        BY <2>1, <3>1, <3>3
  <2> QED
      BY <1>1, <1>3, <2>2, <2>3
<1> QED
    BY <1>1, <1>2, <1>3

LEMMA RegSizeType ==
    ASSUME NEW r \in MemRegion
    PROVE  regSize(r) \in Addr
<1>1. Minus(r.end, r.start) \in Addr
    BY MinusType DEF MemRegion
<1> QED
    BY <1>1, InterleaveAssumption DEF regSize, Addr

LEMMA LocalSizeType ==
    ASSUME NEW r \in MemRegion, WellFormed(r)
    PROVE  LocalSize(r) \in Nat
<1>1. /\ regSize(r) \in Nat
      /\ r.interleaveSize \in Nat /\ r.interleaveStep \in Nat
    BY RegSizeType DEF MemRegion, Addr
<1>2. CASE ~Interleaved(r)
    BY <1>1, <1>2 DEF LocalSize
<1>3. CASE Interleaved(r)
  <2>1. regSize(r) \div r.interleaveStep \in Nat
      BY <1>1, <1>3, DivMod DEF WellFormed, Interleaved
  <2>2. (regSize(r) \div r.interleaveStep) * r.interleaveSize \in Nat
      BY <1>1, <2>1, MulNat
  <2> QED
      BY <1>3, <2>2, ModType DEF LocalSize, Addr
<1> QED
    BY <1>2, <1>3

LEMMA AdjustFits ==
    ASSUME NEW r \in MemRegion, WellFormed(r), NEW m \in 1 .. W - 2
    PROVE  Fits(adjustRegionToMemSize(r, m), m)
<1> DEFINE e == Minus(Plus(r.start, Limited(r, m)), 1)
           t == [r EXCEPT !.end = e]
           z == r.interleaveSize
           p == r.interleaveStep
           R == regSize(r)
           K == m \div z
<1>1. CASE LocalSize(r) <= m
  <2>1. m \in Nat /\ LocalSize(r) \in Nat
      BY LocalSizeType, InterleaveAssumption
  <2>2. ~(LocalSize(r) > m)
      BY <1>1, <2>1
  <2> QED
      BY <1>1, <2>2 DEF Fits, adjustRegionToMemSize
<1>2. CASE ~(LocalSize(r) <= m)
  <2>1. /\ W \in Nat /\ m \in Nat /\ m \in Addr /\ 0 < m /\ m < W - 1
        /\ r.start \in Addr /\ z \in Nat /\ p \in Nat
        /\ R \in Nat /\ R < W
      BY InterleaveAssumption, RegSizeType DEF MemRegion, Addr
  <2>2. t.start = r.start /\ t.end = e /\ t.interleaveSize = z /\ t.interleaveStep = p
      BY DEF MemRegion
  <2>3. LocalSize(r) \in Nat
      BY LocalSizeType
  <2>4. LocalSize(r) > m
      BY <1>2, <2>1, <2>3
  <2>5. adjustRegionToMemSize(r, m) = t
      BY <2>4 DEF adjustRegionToMemSize
  <2>6. CASE ~Interleaved(r)
    <3>1. Limited(r, m) = m
        BY <2>6 DEF Limited
    <3>2. Minus(e, r.start) = m - 1
        BY <2>1, <3>1, EndOf
    <3>3. LocalSize(t) = m
        BY <2>1, <2>2, <2>6, <3>2 DEF LocalSize, regSize, Interleaved
    <3> QED
        BY <2>1, <2>5, <3>3 DEF Fits
  <2>7. CASE Interleaved(r)
    <3>1. 0 < z /\ z <= p /\ 0 < p
        BY <2>1, <2>7 DEF WellFormed, Interleaved
    <3>2. /\ K \in Nat /\ K * z \in Nat /\ K * z <= m
          /\ K * p \in Nat
        BY <2>1, <3>1, DivMod, MulNat
    <3>3. R \div p \in Nat /\ (R \div p) * p \in Nat /\ (R \div p) * p <= R
        BY <2>1, <3>1, DivMod, MulNat
    <3>4. (R \div p) * z \in Nat /\ (R \div p) * z <= (R \div p) * p
        BY <2>1, <3>1, <3>3, SMT
    <3>5. (R \div p) * z < W
        BY <2>1, <3>3, <3>4
    <3>6. LocalSize(r) = (R \div p) * z
        BY <2>1, <2>7, <3>4, <3>5, SmallMod DEF LocalSize
    <3>7. K <= R \div p
      <4>1. SUFFICES ASSUME R \div p <= K PROVE (R \div p) * z <= K * z
          BY <2>1, <2>4, <3>2, <3>3, <3>4, <3>6
      <4> QED
          BY <2>1, <3>2, <3>3, <4>1, Monotone
    <3>8. K * p <= (R \div p) * p
        BY <2>1, <3>2, <3>3, <3>7, Monotone
    <3>9. K * p \in Addr
        BY <2>1, <3>2, <3>3, <3>8 DEF Addr
    <3>10. Limited(r, m) = K * p
        BY <2>1, <2>7, <3>2, <3>9, SmallMod DEF Limited, Addr
    <3>11. CASE K = 0
      <4>1. m < z
          BY <2>1, <3>1, <3>11, DivMod
      <4>2. Plus(r.start, 0) = r.start
          BY <2>1, SmallMod DEF Plus, Addr
      <4>3. K * p = 0
          BY <2>1, <3>11
      <4>4. e = Minus(r.start, 1)
          BY <3>10, <4>2, <4>3
      <4> QED
          BY <2>2, <2>5, <2>7, <4>1, <4>4 DEF Fits, Interleaved
    <3>12. CASE K > 0
      <4>1. 0 < K * p
          BY <2>1, <3>1, <3>2, <3>12, SMT
      <4>2. Minus(e, r.start) = K * p - 1
          BY <2>1, <3>9, <3>10, <4>1, EndOf
      <4>3. regSize(t) = K * p
          BY <2>1, <2>2, <3>9, <4>1, <4>2 DEF regSize, Addr
      <4>4. (K * p) + 0 = K * p
          BY <3>2
      <4>5. (K * p) \div p = K
          BY <2>1, <3>1, <3>2, <4>4, DivModUnique
      <4>6. (K * z) % W = K * z
          BY <2>1, <3>2, SmallMod
      <4>7. LocalSize(t) = K * z
          BY <2>2, <2>7, <4>3, <4>5, <4>6 DEF LocalSize, Interleaved
      <4> QED
          BY <2>5, <3>2, <4>7 DEF Fits
    <3> QED
        BY <3>2, <3>11, <3>12
  <2> QED
      BY <2>6, <2>7
<1> QED
    BY <1>1, <1>2

LEMMA FitsInit == Init => Fits(region, memSize)
<1> SUFFICES ASSUME Init PROVE Fits(region, memSize)
    OBVIOUS
<1>1. PICK r \in Regions : region = adjustRegionToMemSize(r, memSize)
    BY DEF Init
<1>2. memSize \in 1 .. W - 2
    BY InterleaveAssumption DEF Init
<1> QED
    BY <1>1, <1>2, AdjustFits, InterleaveAssumption

LEMMA FitsNext ==
    TypeOK /\ Fits(region, memSize) /\ [Next]_vars => Fits(region, memSize)'
<1> SUFFICES ASSUME TypeOK, Fits(region, memSize), [Next]_vars
             PROVE  Fits(region', memSize')
    BY DEF Fits, LocalSize, regSize, Minus, Interleaved
<1>1. CASE init
    BY <1>1, AdjustFits DEF init, TypeOK
<1>2. CASE UNCHANGED <<region, memSize>>
    BY <1>2
<1> QED
    BY <1>1, <1>2 DEF Next, setRegion, handleEvent, handleMemResponse, vars, setupVars

(* A region that fits is left as it is.                                    *)
LEMMA FitsStays ==
    ASSUME NEW r \in MemRegion, WellFormed(r), NEW m \in 1 .. W - 2, Fits(r, m)
    PROVE  adjustRegionToMemSize(r, m) = r
<1>1. LocalSize(r) \in Nat /\ m \in Nat /\ r.interleaveSize \in Nat
      /\ r.interleaveStep \in Nat /\ r.start \in Nat /\ r.start < W /\ W \in Nat
    BY LocalSizeType, InterleaveAssumption DEF MemRegion, Addr
<1>2. CASE LocalSize(r) <= m
    BY <1>1, <1>2 DEF adjustRegionToMemSize
<1>3. CASE Interleaved(r) /\ m < r.interleaveSize /\ r.end = Minus(r.start, 1)
  <2>1. m \div r.interleaveSize = 0
    <3>1. (0 * r.interleaveSize) + m = m
        BY <1>1
    <3> QED
        BY <1>1, <1>3, <3>1, DivModUnique
  <2>2. 0 * r.interleaveStep = 0 /\ 0 % W = 0
      BY <1>1, SmallMod
  <2>3. Limited(r, m) = 0
      BY <1>3, <2>1, <2>2 DEF Limited
  <2>4. Plus(r.start, 0) = r.start
      BY <1>1, SmallMod DEF Plus
  <2>5. [r EXCEPT !.end = r.end] = r
      BY DEF MemRegion
  <2> QED
      BY <1>3, <2>3, <2>4, <2>5 DEF adjustRegionToMemSize
<1> QED
    BY <1>2, <1>3 DEF Fits

(* Every region the controller ever uses fits its memory                   *)
(* (adjustRegionToMemSize in the constructor and in init).                 *)
LEMMA FitsAlways == Spec => [](TypeOK /\ Fits(region, memSize))
<1>1. Init => TypeOK /\ Fits(region, memSize)
    BY InitIInv, FitsInit DEF IInv
<1>2. TypeOK /\ IInv /\ Fits(region, memSize) /\ [Next]_vars
        => Fits(region, memSize)'
    BY FitsNext
<1>3. IInv => TypeOK
    BY DEF IInv
<1> QED
    BY <1>1, <1>2, <1>3, InterleaveInvariance, PTL DEF Spec

(* init adjusts the region over again in each phase; one that has been     *)
(* adjusted stays as it is.                                                *)
THEOREM RegionAdjustedOnce == Spec => AdjustedOnce
<1>1. TypeOK /\ Fits(region, memSize) /\ [Next]_vars
        => [linkRegion = region => region' = region]_vars
  <2> SUFFICES ASSUME TypeOK, Fits(region, memSize), Next, linkRegion = region
               PROVE  region' = region
      OBVIOUS
  <2>1. CASE init
      BY <2>1, FitsStays DEF init, TypeOK
  <2> QED
      BY <2>1 DEF Next, setRegion, handleEvent, handleMemResponse, setupVars
<1> QED
    BY <1>1, FitsAlways, PTL DEF Spec, AdjustedOnce

(* An owned address is inside the memory, when its block has been counted. *)
LEMMA OwnedInBounds ==
    ASSUME TypeOK, Fits(region, memSize),
           NEW a \in Addr, contains(region, a), Counted(a)
    PROVE  translateToLocal(region, a) < memSize
<1> DEFINE r == region
           z == r.interleaveSize
           p == r.interleaveStep
           R == regSize(r)
<1>1. /\ W \in Nat /\ memSize \in Nat /\ memSize < W - 1
      /\ r \in MemRegion /\ WellFormed(r)
      /\ r.start \in Nat /\ r.end \in Nat /\ r.end < W /\ z \in Nat /\ p \in Nat
      /\ R \in Nat /\ R < W
      /\ a \in Nat /\ r.start <= a /\ a <= r.end
    BY InterleaveAssumption, RegSizeType DEF TypeOK, MemRegion, Addr, contains
<1>2. Minus(r.end, r.start) = r.end - r.start
    BY <1>1, Distance DEF Addr
<1>3. a - r.start <= R /\ (Minus(r.end, r.start) < W - 1 => a - r.start < R)
    BY <1>1, <1>2 DEF regSize
<1>4. CASE ~Interleaved(r)
  <2>1. R <= memSize
      BY <1>4 DEF Fits, LocalSize
  <2>2. Minus(r.end, r.start) < W - 1
      BY <1>1, <1>2, <2>1 DEF regSize
  <2>3. translateToLocal(r, a) = a - r.start
      BY <1>1, <1>4, Distance DEF translateToLocal, Addr
  <2> QED
      BY <1>1, <1>3, <2>1, <2>2, <2>3
<1>5. CASE Interleaved(r)
  <2>1. PICK k \in Nat, o \in Nat :
              /\ o < z
              /\ a - r.start = (k * p) + o
              /\ translateToLocal(r, a) = (k * z) + o
              /\ (k * z) + o \in Addr
      BY <1>1, <1>5, Block
  <2>2. 0 < z /\ z <= p /\ 0 < p
      BY <1>1, <1>5 DEF WellFormed, Interleaved
  <2> DEFINE Q == R \div p
  <2>3. Q \in Nat /\ R % p \in Nat /\ R % p < p /\ R = (Q * p) + (R % p)
      BY <1>1, <2>2, DivMod
  <2>4. LocalSize(r) = (Q * z) % W
      BY <1>5 DEF LocalSize
  <2>5. z <= memSize /\ (k < Q \/ (Q + 1) * z <= memSize)
    <3>1. Minus(a, r.start) = (k * p) + o
        BY <1>1, <2>1, Distance DEF Addr
    <3>2. o < p
        BY <1>1, <2>1, <2>2
    <3>3. Minus(a, r.start) \div p = k
        BY <1>1, <2>1, <3>1, <3>2, DivModUnique
    <3> QED
        BY <1>5, <3>3 DEF Counted
  <2> HIDE DEF Q
  <2>6. k * p \in Nat /\ k * z \in Nat /\ Q * p \in Nat /\ Q * z \in Nat
      BY <1>1, <2>1, <2>3, MulNat
  <2>7. k + 1 \in Nat /\ (k + 1) * z = (k * z) + z
    <3>1. k + 1 \in Nat
        BY <2>1
    <3>2. (k + 1) * z = (k * z) + z
        BY <1>1, <2>1, Product, Zenon
    <3> QED
        BY <3>1, <3>2
  <2>8. Q + 1 \in Nat /\ (Q + 1) * p = (Q * p) + p /\ (Q + 1) * z \in Nat
    <3>1. Q + 1 \in Nat
        BY <2>3
    <3>2. (Q + 1) * p = (Q * p) + p
        BY <1>1, <2>3, Product, Zenon
    <3>3. (Q + 1) * z \in Nat
        BY <1>1, <3>1, MulNat, Zenon
    <3> QED
        BY <3>1, <3>2, <3>3
  <2>9. CASE k < Q
    <3>1. k + 1 <= Q
        BY <2>1, <2>3, <2>9
    <3>2. (k + 1) * z <= Q * z
        BY <1>1, <2>3, <2>7, <3>1, Monotone
    <3>3. Q * z <= Q * p
        BY <1>1, <2>2, <2>3, SMT
    <3>4. Q * z < W
        BY <1>1, <2>3, <2>6, <3>3
    <3>5. LocalSize(r) = Q * z
        BY <1>1, <2>4, <2>6, <3>4, SmallMod
    <3>6. LocalSize(r) <= memSize
        BY <1>1, <2>5 DEF Fits
    <3> QED
        BY <1>1, <2>1, <2>6, <2>7, <3>2, <3>5, <3>6
  <2>10. CASE (Q + 1) * z <= memSize
    <3>1. k * p < (Q + 1) * p
        BY <1>1, <1>3, <2>1, <2>3, <2>6, <2>8
    <3>2. ~(Q + 1 <= k)
      <4>1. Q + 1 <= k => (Q + 1) * p <= k * p
          BY <1>1, <2>1, <2>8, Monotone
      <4> QED
          BY <1>1, <2>6, <2>8, <3>1, <4>1
    <3>3. k + 1 <= Q + 1
        BY <2>1, <2>3, <3>2
    <3>4. (k + 1) * z <= (Q + 1) * z
        BY <1>1, <2>7, <2>8, <3>3, Monotone
    <3> QED
        BY <1>1, <2>1, <2>6, <2>7, <2>8, <2>10, <3>4
  <2> QED
      BY <2>5, <2>9, <2>10
<1> QED
    BY <1>4, <1>5

(* No address the controller owns lies outside its memory, but those of a  *)
(* block that adjustRegionToMemSize does not count.                        *)
THEOREM OwnedAddressesInBounds == Spec => []InBounds
<1>1. TypeOK /\ Fits(region, memSize) => InBounds
    BY OwnedInBounds DEF InBounds
<1> QED
    BY <1>1, FitsAlways, PTL
-----------------------------------------------------------------------------
(* The refinement of FlatMemory.  Its cells are the owned addresses, so    *)
(* that a region which stays the same set of addresses must stay the same  *)
(* translation: the local address of an owned address is the number of     *)
(* owned addresses before it.                                              *)

(* The owned address before one that is not the first, and its cell.       *)
LEMMA Predecessor ==
    ASSUME NEW r \in MemRegion, WellFormed(r),
           NEW a \in Addr, contains(r, a), a # r.start
    PROVE  \E b \in Addr :
              /\ contains(r, b) /\ b < a
              /\ \A c \in Addr : contains(r, c) /\ c < a => c <= b
              /\ translateToLocal(r, a) = translateToLocal(r, b) + 1
<1>1. /\ r.start \in Addr /\ r.start \in Nat /\ a \in Nat /\ W \in Nat
      /\ a < W /\ r.start < a /\ a <= r.end /\ r.end \in Nat
      /\ r.interleaveSize \in Nat /\ r.interleaveStep \in Nat
    BY InterleaveAssumption DEF MemRegion, Addr, contains
<1>2. CASE ~Interleaved(r)
  <2>1. a - 1 \in Addr /\ a - 1 < a /\ \A c \in Addr : c < a => c <= a - 1
      BY <1>1 DEF Addr
  <2>2. contains(r, a - 1)
      BY <1>1, <1>2 DEF contains
  <2>3. translateToLocal(r, a) = a - r.start
      BY <1>1, <1>2, Distance DEF translateToLocal
  <2>4. translateToLocal(r, a - 1) = (a - 1) - r.start
      BY <1>1, <1>2, <2>1, Distance DEF translateToLocal
  <2>5. translateToLocal(r, a) = translateToLocal(r, a - 1) + 1
      BY <1>1, <2>3, <2>4
  <2> QED
      BY <2>1, <2>2, <2>5
<1>3. CASE Interleaved(r)
  <2> DEFINE z == r.interleaveSize
             p == r.interleaveStep
  <2>1. z \in Nat /\ p \in Nat /\ 0 < z /\ z <= p
      BY <1>1, <1>3 DEF WellFormed, Interleaved
  <2>2. PICK k \in Nat, o \in Nat :
            /\ o < z /\ a - r.start = (k * p) + o
            /\ translateToLocal(r, a) = (k * z) + o
      BY <1>3, Block
  <2>3. (k * z) \in Nat /\ (k * p) \in Nat
      BY <2>1, MulNat
  (* An address of the region is made of a block and an offset, too.       *)
  <2>4. ASSUME NEW j \in Nat, NEW u \in Nat, u < z, (j * p) + u < a - r.start
        PROVE  LET b == r.start + ((j * p) + u)
               IN  b \in Addr /\ b < a /\ contains(r, b)
                   /\ translateToLocal(r, b) = (j * z) + u
    <3> DEFINE d == (j * p) + u
               b == r.start + d
    <3>1. (j * p) \in Nat /\ (j * z) \in Nat
        BY <2>1, MulNat
    <3>2. d \in Nat /\ d < a - r.start
        BY <3>1, <2>4
    <3>3. d \div p = j /\ d % p = u
        <4>1. u < p
            BY <2>1, <2>4
        <4> QED
            BY <2>1, <4>1, DivModUnique
    <3> HIDE DEF d, z, p
    <3>4. b \in Addr /\ b < a /\ r.start <= b /\ b - r.start = d /\ b <= r.end
        BY <1>1, <3>2 DEF Addr
    <3>5. Minus(b, r.start) = d
        BY <1>1, <3>4, Distance
    <3>6. contains(r, b)
        BY <2>4, <3>3, <3>4, <3>5 DEF contains, z, p
    <3>7. (j * z) <= (j * p)
        BY <2>1, SMT
    <3>8. (j * z) + u \in Nat /\ (j * z) + u < W
        <4>1. d = (j * p) + u
            BY DEF d
        <4> QED
            BY <1>1, <2>4, <3>1, <3>2, <3>7, <4>1
    <3>9. translateToLocal(r, b) = (j * z) + u
        <4>1. translateToLocal(r, b) = ((j * z) + u) % W
            BY <1>3, <3>3, <3>5 DEF translateToLocal, z, p
        <4> QED
            BY <1>1, <3>8, <4>1, SmallMod
    <3> QED
        BY <3>4, <3>6, <3>9 DEF d
  <2>5. CASE o > 0
    <3> DEFINE u == o - 1
               b == r.start + ((k * p) + u)
    <3>1. u \in Nat /\ u < z /\ (k * p) + u < a - r.start
        BY <1>1, <2>1, <2>2, <2>3, <2>5
    <3>2. b \in Addr /\ b < a /\ contains(r, b) /\ translateToLocal(r, b) = (k * z) + u
        BY <2>4, <3>1
    <3>3. b = a - 1
        <4>1. ASSUME NEW m \in Nat, a - r.start = m + o
              PROVE  r.start + (m + u) = a - 1
            BY <1>1, <2>5, <4>1
        <4> QED
            BY <2>2, <2>3, <4>1
    <3>4. \A c \in Addr : c < a => c <= b
        BY <1>1, <3>3 DEF Addr
    <3>5. translateToLocal(r, a) = translateToLocal(r, b) + 1
        BY <2>2, <2>3, <2>5, <3>2
    <3> QED
        BY <3>2, <3>4, <3>5
  <2>6. CASE o = 0
    <3> DEFINE j == k - 1
               u == z - 1
               b == r.start + ((j * p) + u)
    <3>1. k # 0
        <4>1. (k * p) # 0
            <5>1. ASSUME NEW m \in Nat, a - r.start = m + o PROVE m # 0
                BY <1>1, <2>6, <5>1
            <5> QED
                BY <2>2, <2>3, <5>1
        <4> QED
            BY <2>1, <4>1
    <3>2. j \in Nat /\ u \in Nat /\ u < z /\ k = j + 1
        BY <2>1, <3>1
    <3>3. (k * p) = (j * p) + p /\ (k * z) = (j * z) + z
        BY <2>1, <3>2, Product
    <3>4. (j * p) \in Nat /\ (j * z) \in Nat
        BY <2>1, <3>2, MulNat
    <3>5. (j * p) + u < a - r.start
        <4> HIDE DEF j
        <4> QED
            BY <1>1, <2>1, <2>2, <2>6, <3>2, <3>3, <3>4
    <3>6. b \in Addr /\ b < a /\ contains(r, b) /\ translateToLocal(r, b) = (j * z) + u
        BY <2>4, <3>2, <3>5
    <3>7. translateToLocal(r, a) = translateToLocal(r, b) + 1
        <4> HIDE DEF j, b
        <4> QED
            BY <2>1, <2>2, <2>6, <3>3, <3>4, <3>6
    <3>8. ASSUME NEW c \in Addr, contains(r, c), c < a, ~(c <= b) PROVE FALSE
        <4>1. PICK l \in Nat, v \in Nat : v < z /\ c - r.start = (l * p) + v
            BY <1>3, <3>8, Block
        <4>2. (l * p) \in Nat /\ c \in Nat
            BY <2>1, MulNat DEF Addr
        <4>3. (l * p) < (k * p)
            BY <1>1, <2>2, <2>3, <2>6, <3>8, <4>1, <4>2
        <4>4. l <= j
            <5>1. ~(k <= l)
                <6>1. k <= l => (k * p) <= (l * p)
                    BY <2>1, Monotone
                <6> QED
                    BY <2>3, <4>2, <4>3, <6>1
            <5> QED
                BY <3>2, <5>1
        <4>5. (l * p) <= (j * p)
            BY <2>1, <3>2, <4>4, Monotone
        <4> HIDE DEF j
        <4> QED
            BY <1>1, <2>1, <3>2, <3>4, <3>8, <4>1, <4>2, <4>5
    <3> QED
        BY <3>6, <3>7, <3>8
  <2> QED
      BY <2>2, <2>5, <2>6
<1> QED
    BY <1>2, <1>3
(* Regions that are the same set of addresses translate them alike: the    *)
(* least address that they did not would have a predecessor that they do.  *)
LEMMA SameSetSameCells ==
    ASSUME NEW r \in MemRegion, WellFormed(r), NEW t \in MemRegion, WellFormed(t),
           Owned(r) = Owned(t), NEW a \in Owned(r)
    PROVE  translateToLocal(r, a) = translateToLocal(t, a)
<1>1. /\ Addr \subseteq Nat /\ W \in Nat
      /\ \A b \in Addr : contains(r, b) <=> contains(t, b)
      /\ r.start \in Addr /\ t.start \in Addr
    <2>1. \A b \in Addr : contains(r, b) <=> b \in Owned(r)
        BY DEF Owned
    <2>2. \A b \in Addr : contains(t, b) <=> b \in Owned(t)
        BY DEF Owned
    <2> QED
        BY <2>1, <2>2, InterleaveAssumption DEF Addr, MemRegion
<1>2. ASSUME NEW b \in Addr, contains(r, b)
      PROVE  contains(r, r.start) /\ contains(t, t.start)
    <2>1. r.start <= b /\ b <= r.end /\ t.start <= b /\ b <= t.end
        BY <1>1, <1>2 DEF contains
    <2>2. r.end \in Nat /\ t.end \in Nat /\ b \in Nat /\ r.start \in Nat /\ t.start \in Nat
        BY <1>1 DEF MemRegion, Addr
    <2>3. r.start <= r.end /\ t.start <= t.end
        BY <2>1, <2>2
    <2>4. Minus(r.start, r.start) = 0 /\ Minus(t.start, t.start) = 0
        BY <1>1, <2>2, Distance
    <2>5. Interleaved(r) => 0 % r.interleaveStep < r.interleaveSize
        BY SmallMod DEF WellFormed, Interleaved, MemRegion, Addr
    <2>6. Interleaved(t) => 0 % t.interleaveStep < t.interleaveSize
        BY SmallMod DEF WellFormed, Interleaved, MemRegion, Addr
    <2> QED
        BY <2>2, <2>3, <2>4, <2>5, <2>6 DEF contains
<1>3. ASSUME NEW b \in Addr, contains(r, b) PROVE r.start = t.start
    <2>1. contains(r, t.start) /\ contains(t, r.start)
        BY <1>1, <1>2, <1>3
    <2>2. r.start <= t.start /\ t.start <= r.start
        BY <2>1 DEF contains
    <2>3. r.start \in Nat /\ t.start \in Nat
        BY <1>1
    <2> QED
        BY <2>2, <2>3
<1> DEFINE T == {b \in Addr : contains(r, b)
                              /\ translateToLocal(r, b) # translateToLocal(t, b)}
<1>4. SUFFICES ASSUME T # {} PROVE FALSE
    BY DEF Owned
<1>5. PICK b \in T : \A c \in T : b <= c
    <2>1. T \in SUBSET Nat
        BY <1>1
    <2> HIDE DEF T
    <2> QED
        BY <1>4, <2>1, LeastNumber
<1>6. b \in Addr /\ contains(r, b) /\ contains(t, b) /\ r.start = t.start
      /\ translateToLocal(r, b) # translateToLocal(t, b)
    BY <1>1, <1>3
<1>7. b # r.start
    <2>1. translateToLocal(r, r.start) = 0 /\ translateToLocal(t, t.start) = 0
        <3>1. ASSUME NEW s \in MemRegion, WellFormed(s)
              PROVE  translateToLocal(s, s.start) = 0
            <4>1. s.start \in Addr /\ Minus(s.start, s.start) = 0
                <5>1. s.start \in Addr /\ s.start \in Nat
                    BY <1>1 DEF MemRegion
                <5>2. s.start <= s.start /\ s.start - s.start = 0
                    BY <5>1
                <5> QED
                    BY <5>1, <5>2, Distance
            <4>2. CASE ~Interleaved(s)
                BY <4>1, <4>2 DEF translateToLocal
            <4>3. CASE Interleaved(s)
                <5>1. /\ s.interleaveStep \in Nat /\ 0 < s.interleaveStep
                      /\ s.interleaveSize \in Nat
                    BY <4>3, <3>1 DEF WellFormed, Interleaved, MemRegion, Addr
                <5>2. 0 \div s.interleaveStep = 0 /\ 0 % s.interleaveStep = 0
                    BY <5>1
                <5>3. ((0 * s.interleaveSize) + 0) % W = 0
                    BY <5>1, <1>1, InterleaveAssumption
                <5> QED
                    BY <4>1, <4>3, <5>2, <5>3 DEF translateToLocal
            <4> QED
                BY <4>2, <4>3
        <3> QED
            BY <3>1
    <2> QED
        BY <1>6, <2>1
<1>8. PICK c \in Addr :
          /\ contains(r, c) /\ c < b
          /\ \A d \in Addr : contains(r, d) /\ d < b => d <= c
          /\ translateToLocal(r, b) = translateToLocal(r, c) + 1
    BY <1>6, <1>7, Predecessor
<1>9. PICK e \in Addr :
          /\ contains(t, e) /\ e < b
          /\ \A d \in Addr : contains(t, d) /\ d < b => d <= e
          /\ translateToLocal(t, b) = translateToLocal(t, e) + 1
    BY <1>6, <1>7, Predecessor
<1>10. c = e
    <2>1. c <= e /\ e <= c
        BY <1>1, <1>8, <1>9
    <2> QED
        BY <1>1, <2>1
<1>11. c \notin T
    BY <1>1, <1>5, <1>8
<1> QED
    BY <1>6, <1>8, <1>9, <1>10, <1>11

(* The owned addresses and what they hold, as FlatMemory sees them.        *)
FlatMem == [a \in Owned(region) |-> backing[translateToLocal(region, a)]]

LEMMA FlatInit == Init => Flat!Init
<1> SUFFICES ASSUME Init PROVE Flat!Init
    OBVIOUS
<1>1. TypeOK
    BY InitIInv DEF IInv
<1>2. FlatMem \in [Owned(region) -> Values]
    BY <1>1, LocalType DEF FlatMem, TypeOK, Owned
<1>3. Owned(region) \in SUBSET Addr
    BY DEF Owned
<1> QED
    BY <1>2, <1>3 DEF Init, Flat!Init, FlatMem

(* A phase of init changes one cell at most, if the region stays what it   *)
(* is.                                                                     *)
LEMMA FlatSetUp ==
    ASSUME IInv, IInv', answer = {}, init
    PROVE  Flat!SetUp
<1>1. pending = {} /\ UNCHANGED <<pending, answer>>
    BY InterleaveAssumption DEF init, IInv, TypeOK
<1>2. TypeOK /\ TypeOK'
    BY DEF IInv
<1>3. FlatMem' \in [Owned(region') -> Values]
    BY <1>2, LocalType DEF FlatMem, TypeOK, Owned
<1>4. DOMAIN FlatMem = Owned(region) /\ DOMAIN FlatMem' = Owned(region)'
      /\ Owned(region)' = Owned(region') /\ Owned(region') \subseteq Addr
    BY DEF FlatMem, Owned
<1>5. ASSUME Owned(region') = Owned(region)
      PROVE  \E b \in Addr : \A a \in Owned(region) \ {b} : FlatMem'[a] = FlatMem[a]
    <2>1. \A a \in Owned(region) :
              /\ translateToLocal(region', a) = translateToLocal(region, a)
              /\ FlatMem[a] = backing[translateToLocal(region, a)]
              /\ FlatMem'[a] = backing'[translateToLocal(region, a)]
        BY <1>2, <1>4, <1>5, SameSetSameCells DEF FlatMem, TypeOK
    <2>2. CASE UNCHANGED backing
        <3>1. 0 \in Addr
            BY InterleaveAssumption DEF Addr
        <3> QED
            BY <2>1, <2>2, <3>1
    <2>3. CASE \E a \in Owned(region'), v \in Values : processInitEvent(region', a, v)
        <3>1. PICK a \in Owned(region'), v \in Values : processInitEvent(region', a, v)
            BY <2>3
        <3>2. a \in Addr /\ contains(region', a)
            BY DEF Owned
        <3> DEFINE addr == translateToLocal(region', a)
        <3>3. \A d \in Addr : d # addr => backing'[d] = backing[d]
            BY <3>1, <1>2 DEF processInitEvent, TypeOK
        (* The cell that is set may be that of another owned address only  *)
        (* if it is that of a.                                             *)
        <3>4. ASSUME NEW d \in Owned(region), d # a PROVE FlatMem'[d] = FlatMem[d]
            <4>1. d \in Addr /\ contains(region', d)
                BY <1>5 DEF Owned
            <4>2. translateToLocal(region', d) \in Addr /\ translateToLocal(region', d) # addr
                BY <4>1, <3>2, <3>4, <1>2, CellsOfTheirOwn, LocalType DEF TypeOK
            <4> QED
                BY <2>1, <3>3, <4>2
        <3> QED
            BY <3>2, <3>4
    <2> QED
        BY <2>2, <2>3 DEF init
<1>6. DOMAIN FlatMem' \subseteq Addr /\ \A a \in DOMAIN FlatMem' : FlatMem'[a] \in Values
    BY <1>3, <1>4
<1>7. DOMAIN FlatMem' = DOMAIN FlatMem =>
         \E b \in Addr : \A a \in DOMAIN FlatMem \ {b} : FlatMem'[a] = FlatMem[a]
    BY <1>4, <1>5
<1> QED
    BY <1>1, <1>6, <1>7 DEF Flat!SetUp, FlatMem

LEMMA FlatAsk ==
    ASSUME IInv, handleEvent
    PROVE  Flat!Ask
<1>1. /\ answer' = {} /\ UNCHANGED <<region, backing>>
    BY DEF handleEvent, setupVars
<1>2. PICK a \in Owned(region), cmd \in {"READ", "WRITE"}, v \in Values :
          LET q == [cmd |-> cmd, global |-> a, data |-> v,
                    addr |-> translateToLocal(region, a)]
          IN  q \notin pending /\ pending' = pending \cup {q}
    BY DEF handleEvent
<1> DEFINE q == [cmd |-> cmd, global |-> a, data |-> v,
                 addr |-> translateToLocal(region, a)]
<1>3. q \in pending' \ pending /\ q.global \in DOMAIN FlatMem
    BY <1>2 DEF FlatMem
<1>4. FlatMem' = FlatMem
    BY <1>1 DEF FlatMem
<1> QED
    BY <1>1, <1>2, <1>3, <1>4 DEF Flat!Ask, FlatMem

LEMMA FlatAnswer ==
    ASSUME IInv, IInv', NEW q \in pending, handleMemResponse(q)
    PROVE  Flat!Answer(q)
<1>1. /\ q \in Request /\ region \in MemRegion /\ WellFormed(region)
      /\ backing \in [Addr -> Values]
    BY DEF IInv, TypeOK
<1>2. q.global \in Addr /\ contains(region, q.global) /\ q.addr \in Addr
      /\ q.addr = translateToLocal(region, q.global) /\ q.global \in Owned(region)
      /\ q.cmd \in {"READ", "WRITE"}
    BY <1>1 DEF IInv, PendingAreLocal, Request, Owned
<1>3. UNCHANGED region /\ pending' = pending \ {q}
    BY DEF handleMemResponse, setupVars
<1> DEFINE a == [cmd |-> q.cmd, global |-> q.global, data |-> backing[q.addr],
                 addr |-> translateToGlobal(region, Completed(q))]
<1>4. answer' = {a}
    BY DEF handleMemResponse
<1>5. a.addr = q.global \/ (q.cmd = "WRITE" /\ q.global \in MMIO)
    <2>1. a \in answer'
        BY <1>4
    <2>2. a.addr = a.global \/ (a.cmd = "WRITE" /\ a.global \in MMIO)
        <3> HIDE DEF a
        <3> QED
            BY <2>1 DEF IInv, AnswersKeepAddress
    <2> QED
        BY <2>2
<1>6. FlatMem[q.global] = backing[q.addr]
    BY <1>2 DEF FlatMem
<1>7. FlatMem' = IF q.cmd = "WRITE" /\ q.global \notin MMIO
                 THEN [FlatMem EXCEPT ![q.global] = q.data] ELSE FlatMem
    <2>1. FlatMem' = [d \in Owned(region) |-> backing'[translateToLocal(region, d)]]
        BY <1>3 DEF FlatMem, Owned, contains, Interleaved, Minus, translateToLocal
    <2>2. CASE ~(q.cmd = "WRITE" /\ q.global \notin MMIO)
        <3>1. backing' = backing
            BY <2>2 DEF handleMemResponse, isMMIO
        <3> QED
            BY <2>1, <2>2, <3>1 DEF FlatMem
    <2>3. CASE q.cmd = "WRITE" /\ q.global \notin MMIO
        <3>1. backing' = [backing EXCEPT ![q.addr] = q.data]
            BY <2>3 DEF handleMemResponse, isMMIO
        <3>2. ASSUME NEW d \in Owned(region)
              PROVE  backing'[translateToLocal(region, d)]
                       = IF d = q.global THEN q.data ELSE FlatMem[d]
            <4>1. d \in Addr /\ contains(region, d)
                BY DEF Owned
            <4>2. translateToLocal(region, d) \in Addr
                  /\ (d # q.global => translateToLocal(region, d) # q.addr)
                BY <1>1, <1>2, <4>1, LocalType, CellsOfTheirOwn
            <4>3. FlatMem[d] = backing[translateToLocal(region, d)]
                BY DEF FlatMem
            <4> QED
                BY <1>1, <1>2, <3>1, <4>2, <4>3
        <3>3. [FlatMem EXCEPT ![q.global] = q.data]
                = [d \in Owned(region) |-> IF d = q.global THEN q.data ELSE FlatMem[d]]
            BY DEF FlatMem
        <3> QED
            BY <2>1, <2>3, <3>2, <3>3
    <2> QED
        BY <2>2, <2>3
<1> QED
    BY <1>3, <1>4, <1>5, <1>6, <1>7 DEF Flat!Answer, FlatMem

(* The controller implements a flat memory of the addresses it owns: each  *)
(* has a cell of its own, a load returns the latest store to its address,  *)
(* and an answer carries the address of its request, whatever regions,     *)
(* blocks and memories there are (translateToLocal, handleMemResponse).    *)
THEOREM IsFlatMemory == Spec => ImplementsFlatMemory
<1>1. IInv /\ IInv' /\ [Next]_vars
        => [Flat!Next]_<<FlatMem, pending, answer>>
    <2> SUFFICES ASSUME IInv, IInv', [Next]_vars
                 PROVE  [Flat!Next]_<<FlatMem, pending, answer>>
        OBVIOUS
    <2>1. CASE setRegion
        BY <2>1 DEF setRegion, FlatMem
    <2>2. CASE init
        <3>1. answer = {}
            BY <2>2, InterleaveAssumption DEF init, IInv, TypeOK
        <3> QED
            BY <2>2, <3>1, FlatSetUp DEF Flat!Next
    <2>3. CASE handleEvent
        BY <2>3, FlatAsk DEF Flat!Next
    <2>4. CASE \E q \in pending : handleMemResponse(q)
        BY <2>4, FlatAnswer DEF Flat!Next
    <2>5. CASE UNCHANGED vars
        BY <2>5 DEF vars, setupVars, FlatMem
    <2> QED
        BY <2>1, <2>2, <2>3, <2>4, <2>5 DEF Next
<1> QED
    BY <1>1, FlatInit, InterleaveInvariance, PTL
       DEF Spec, ImplementsFlatMemory, Flat!Spec, Flat!vars, FlatMem
=============================================================================
