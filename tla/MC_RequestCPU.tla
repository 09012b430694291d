--------------------------- MODULE MC_RequestCPU ----------------------------
(***************************************************************************)
(* An instance of RequestCPU for TLC: two pages of one line, four          *)
(* requests, as many places looked at as make a request behind another     *)
(* that is passed over, and a single slot for custom commands.             *)
(***************************************************************************)
EXTENDS RequestCPU

Memory(op, addr) == [op |-> op, addr |-> addr]

(* One store crosses a line, one load is beyond the memory.                *)
MC_Kinds == {Memory("READ", 0), Memory("WRITE", 8),
             Memory("WRITE", 4), Memory("READ", 16), Memory("CUSTOM", 0), Memory("FENCE", 0)}

MC_Slots == [op \in Ops |-> IF op = "CUSTOM" THEN 1 ELSE 2]
=============================================================================
