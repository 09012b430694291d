----------------------------- MODULE MC_RevPIM ------------------------------
(***************************************************************************)
(* Instances of RevPIM for TLC: chunks of two words and an SRAM of four,   *)
(* so that transfers of several chunks, of a partial last chunk and round  *)
(* the SRAM are small; four parameters, the ones the two functions use.    *)
(***************************************************************************)
EXTENDS RevPIM

(* All words different, and all the same where the data do not matter.     *)
DistinctWords == [a \in 0 .. MaxAddr |-> a]
EqualWords == [a \in 0 .. MaxAddr |-> 0]

Params(p0, p1, p2, p3) == [i \in 0 .. 3 |-> <<p0, p1, p2, p3>>[i + 1]]

(* 0..15 registers, 16..23 the SRAM twice, 24..35 DRAM.                    *)
(* MemCopy: twice round the SRAM but two words; SRAM to DRAM, the last     *)
(* chunk partial; DRAM to DRAM; a single word.                             *)
CopyJobs == {Params(16, 24, 48, 0), Params(32, 17, 24, 0),
             Params(28, 32, 32, 0), Params(18, 26, 8, 0)}

(* MulVecByScalar: two chunks, the last one partial.                       *)
MulJobs == {Params(28, 24, 3, 24)}

MC_Jobs == [f \in {1, 13} |-> IF f = 1 THEN CopyJobs ELSE MulJobs]

(* A transfer of no bytes.                                                 *)
MC_EmptyJobs ==
    [f \in {1, 13} |-> IF f = 1 THEN {Params(32, 24, 0, 0), Params(32, 24, 8, 0)}
                                ELSE MulJobs]

(* These are calls as the device asks for them.                            *)
ASSUME JobsAssumption ==
    \A f \in Functions : \A p \in MC_Jobs[f] \cup MC_EmptyJobs[f] : Transferable(f, p)

OneStore == {<<25, 7>>}
NoStores == {}
=============================================================================
