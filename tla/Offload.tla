------------------------------ MODULE Offload -------------------------------
(***************************************************************************)
(* What a program may believe of the PIM while it keeps to the init, run,  *)
(* finish sequence of revpim.h: running a function is a blocking call.     *)
(* While the call is in progress the memory is as it was, and when it      *)
(* returns the whole effect of the function is there at once.  Between     *)
(* calls the memory is the program's own.                                  *)
(***************************************************************************)
CONSTANTS
    Functions,          (* The functions that can be called.               *)
    Tasks,              (* Tasks[f]: the arguments f can be called with.   *)
    Effect(_, _, _)     (* Effect(f, t, m): memory m after f ran with t.   *)

VARIABLES
    call,               (* call[f]: {t} during a call of f with t, else {} *)
    mem                 (* The memory, as the program sees it.             *)

vars == <<call, mem>>

Init == call = [f \in Functions |-> {}]

AllReturned == \A f \in Functions : call[f] = {}

(* No function runs while another one does.                                *)
Call(f) ==
    /\ AllReturned
    /\ \E t \in Tasks[f] : call' = [call EXCEPT ![f] = {t}]
    /\ UNCHANGED mem

Return(f) ==
    /\ \E t \in call[f] : mem' = Effect(f, t, mem)
    /\ call' = [call EXCEPT ![f] = {}]

(* The program's own stores.                                               *)
Store ==
    /\ AllReturned
    /\ UNCHANGED call

Next ==
    \/ \E f \in Functions : Call(f) \/ Return(f)
    \/ Store

(* Every call returns.                                                     *)
Spec ==
    /\ Init
    /\ [][Next]_vars
    /\ \A f \in Functions : WF_vars(Return(f))
=============================================================================
