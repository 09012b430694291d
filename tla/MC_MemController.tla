-------------------------- MODULE MC_MemController --------------------------
(***************************************************************************)
(* Instances of MemController for TLC.  simpleMem never refuses one of the *)
(* at most ten requests there are; dramsim3 refuses the third.             *)
(***************************************************************************)
EXTENDS MemController

MC_Capacity == [m \in Memories |-> IF m = "simpleMem" THEN 12 ELSE 2]

Simulation(memory, delayed, sequential) ==
    [memory |-> memory, delayed |-> delayed, sequential |-> sequential]

MC_Configurations == {Simulation("simpleMem", TRUE, TRUE),
                      Simulation("simpleMem", TRUE, FALSE),
                      Simulation("dramsim3", TRUE, FALSE),
                      Simulation("dramsim3", FALSE, FALSE)}

MC_SimpleMem == {Simulation("simpleMem", TRUE, TRUE)}
=============================================================================
