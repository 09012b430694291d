--------------------------- MODULE PageMap_proofs ---------------------------
(***************************************************************************)
(* Proofs about PageMap, for every size and number of pages: the shuffle   *)
(* leaves a map in which every page starts at a page of the memory and no  *)
(* two at the same, and such a map keeps addresses apart.                  *)
(***************************************************************************)
EXTENDS PageMap, TLAPS

(* Division.                                                               *)
LEMMA DivMod ==
    ASSUME NEW x \in Nat, NEW z \in Nat, 0 < z
    PROVE  /\ x \div z \in Nat /\ x % z \in Nat /\ x % z < z
           /\ x = ((x \div z) * z) + (x % z)
    BY SMT

LEMMA DivModUnique ==
    ASSUME NEW k \in Nat, NEW o \in Nat, NEW z \in Nat, o < z
    PROVE  ((k * z) + o) \div z = k /\ ((k * z) + o) % z = o
    BY SMT

LEMMA Monotone ==
    ASSUME NEW a \in Nat, NEW b \in Nat, NEW z \in Nat, a <= b
    PROVE  a * z <= b * z
    BY SMT

LEMMA MulNat ==
    ASSUME NEW a \in Nat, NEW b \in Nat
    PROVE  a * b \in Nat
    BY SMT

-----------------------------------------------------------------------------
page(a) == (a - pageOffset(a)) \div pageSize

(* The page of an address, and its place in the page.                      *)
LEMMA PageOf ==
    ASSUME NEW a \in Address
    PROVE  /\ page(a) \in Pages
           /\ pageOffset(a) \in Nat /\ pageOffset(a) < pageSize
           /\ a = (page(a) * pageSize) + pageOffset(a)
<1> DEFINE k == a \div pageSize
           o == a % pageSize
<1>1. pageSize \in Nat /\ 0 < pageSize /\ pageCount \in Nat
    BY PageMapAssumption
<1>2. pageSize * pageCount \in Nat
    BY <1>1, MulNat
<1>3. a \in Nat /\ a < pageSize * pageCount
    BY <1>2 DEF Address, maxMemoryAddress
<1>4. k \in Nat /\ o \in Nat /\ o < pageSize /\ a = (k * pageSize) + o
    BY <1>1, <1>3, DivMod
<1> HIDE DEF k
<1>5. k * pageSize \in Nat
    BY <1>1, <1>4, MulNat
<1>6. a - o = (k * pageSize) + 0
    BY <1>4, <1>5
<1>7. ((k * pageSize) + 0) \div pageSize = k
    BY <1>1, <1>4, DivModUnique
<1>8. page(a) = k
    BY <1>6, <1>7 DEF page, pageOffset
<1>9. k \in Pages
    <2>1. CASE pageCount <= k
        <3>1. pageCount * pageSize <= k * pageSize
            BY <2>1, <1>1, <1>4, Monotone
        <3>2. pageCount * pageSize = pageSize * pageCount
            BY <1>1, SMT
        <3> QED
            BY <1>2, <1>3, <1>4, <1>5, <3>1, <3>2
    <2>2. CASE ~(pageCount <= k)
        BY <2>2, <1>1, <1>4 DEF Pages
    <2> QED
        BY <2>1, <2>2
<1> QED
    BY <1>4, <1>8, <1>9 DEF pageOffset

LEMMA MapAddressNat ==
    ASSUME pageMap \in [Pages -> Nat], NEW a \in Address
    PROVE  mapAddress(a) \in Nat
BY PageOf DEF mapAddress, page

-----------------------------------------------------------------------------
(* What the shuffle preserves.                                             *)
Apart ==
    /\ pageMap \in [Pages -> Nat]
    /\ \A p \in Pages : \E q \in Nat : pageMap[p] = q * pageSize
    /\ \A p, r \in Pages : pageMap[p] = pageMap[r] => p = r

LEMMA InitApart == PageInit => Apart
<1> SUFFICES ASSUME PageInit PROVE Apart
    OBVIOUS
<1>1. pageSize \in Nat /\ 0 < pageSize
    BY PageMapAssumption
<1>2. pageMap \in [Pages -> Nat]
    BY <1>1, MulNat DEF PageInit, linear, Pages
<1>3. \A p \in Pages : p \in Nat /\ pageMap[p] = p * pageSize
    BY DEF PageInit, linear, Pages
<1>4. ASSUME NEW p \in Pages, NEW r \in Pages, pageMap[p] = pageMap[r]
      PROVE  p = r
    <2>1. p \in Nat /\ r \in Nat /\ p * pageSize = r * pageSize
        BY <1>3, <1>4
    <2>2. ((p * pageSize) + 0) \div pageSize = p
          /\ ((r * pageSize) + 0) \div pageSize = r
        BY <1>1, <2>1, DivModUnique
    <2> QED
        BY <2>1, <2>2
<1> QED
    BY <1>2, <1>3, <1>4 DEF Apart

LEMMA ShuffleApart ==
    ASSUME Apart, shuffle
    PROVE  Apart'
<1> PICK a \in Pages, b \in Pages : pageMap' = swapped(a, b)
    BY DEF shuffle
<1>1. pageMap' \in [Pages -> Nat]
    BY DEF Apart, swapped
<1>2. \A p \in Pages :
        pageMap'[p] = pageMap[IF p = b THEN a ELSE IF p = a THEN b ELSE p]
    BY DEF Apart, swapped
<1>3. \A p \in Pages : \E q \in Nat : pageMap'[p] = q * pageSize
    BY <1>2 DEF Apart
<1>4. \A p, r \in Pages : pageMap'[p] = pageMap'[r] => p = r
    BY <1>2 DEF Apart
<1> QED
    BY <1>1, <1>3, <1>4 DEF Apart

LEMMA KeptApart ==
    ASSUME Apart, UNCHANGED pageVars
    PROVE  Apart'
BY DEF Apart, pageVars

(* Addresses that differ stay different.                                   *)
LEMMA MapAddressApart ==
    ASSUME Apart, NEW a \in Address, NEW b \in Address,
           mapAddress(a) = mapAddress(b)
    PROVE  a = b
<1>1. pageSize \in Nat
    BY PageMapAssumption
<1>2. PICK q \in Nat : pageMap[page(a)] = q * pageSize
    BY PageOf DEF Apart
<1>3. PICK r \in Nat : pageMap[page(b)] = r * pageSize
    BY PageOf DEF Apart
<1>4. (q * pageSize) + pageOffset(a) = (r * pageSize) + pageOffset(b)
    BY <1>2, <1>3 DEF mapAddress, page
<1>5. /\ ((q * pageSize) + pageOffset(a)) \div pageSize = q
      /\ ((q * pageSize) + pageOffset(a)) % pageSize = pageOffset(a)
    BY <1>1, PageOf, DivModUnique
<1>6. /\ ((r * pageSize) + pageOffset(b)) \div pageSize = r
      /\ ((r * pageSize) + pageOffset(b)) % pageSize = pageOffset(b)
    BY <1>1, PageOf, DivModUnique
<1>7. q = r /\ pageOffset(a) = pageOffset(b)
    BY <1>4, <1>5, <1>6
<1>8. page(a) = page(b)
    BY <1>2, <1>3, <1>7, PageOf DEF Apart
<1> QED
    BY <1>7, <1>8, PageOf
=============================================================================
