------------------------------ MODULE PageMap -------------------------------
(***************************************************************************)
(* MirandaMemoryManager (mirandaMemMgr_kg.h): the map from the pages of a  *)
(* generator's addresses to those of the memory.  The constructor lays the *)
(* pages out in their order and, if the policy is RANDOMIZED, swaps two of *)
(* them 2 * pageCount times; its random numbers are any numbers here.      *)
(***************************************************************************)
EXTENDS Naturals

CONSTANTS pageSize, pageCount

ASSUME PageMapAssumption == pageSize \in Nat \ {0} /\ pageCount \in Nat \ {0}

VARIABLES
    pageMap,    (* where in the memory each page starts                      *)
    swaps       (* how many times the constructor still swaps two pages      *)

pageVars == <<pageMap, swaps>>

Pages == 0 .. pageCount - 1

maxMemoryAddress == pageSize * pageCount

Address == 0 .. maxMemoryAddress - 1

linear == [p \in Pages |-> p * pageSize]

(* The policy is LINEAR, or RANDOMIZED.                                    *)
PageInit ==
    /\ pageMap = linear
    /\ swaps \in {0, 2 * pageCount}

(* Mutant: the second page is read after it has been written.              *)
swapped_Overwritten(a, b) == [pageMap EXCEPT ![a] = pageMap[b]]

swapped(a, b) == [pageMap EXCEPT ![a] = pageMap[b], ![b] = pageMap[a]]

(* One turn of the shuffle.                                                *)
shuffle ==
    /\ swaps > 0
    /\ swaps' = swaps - 1
    /\ \E selectA, selectB \in Pages : pageMap' = swapped(selectA, selectB)

pageOffset(a) == a % pageSize

mapAddress(a) == pageMap[(a - pageOffset(a)) \div pageSize] + pageOffset(a)
=============================================================================
