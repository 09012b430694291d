------------------------------ MODULE MemPort -------------------------------
(***************************************************************************)
(* What the clients of a memory controller may believe of it: a request is *)
(* answered once, requests to the same address are answered in the order   *)
(* they were made, and the oldest request is answered some day.  TCLPIM    *)
(* asks less than this of its DRAM port: there the order is arbitrary.     *)
(***************************************************************************)
EXTENDS Naturals, SequencesExt

CONSTANT
    SameAddress(_, _)   (* Whether two requests concern the same address.  *)

VARIABLE
    pending             (* The requests without an answer, oldest first.   *)

Init == pending = << >>

(* Clients make requests, several of them in one step if they like.        *)
Ask == IsPrefix(pending, pending')

(* A request is answered before those to other addresses, if need be.      *)
Answer(k) ==
    /\ k \in DOMAIN pending
    /\ \A j \in 1 .. k - 1 : ~SameAddress(pending[j], pending[k])
    /\ pending' = RemoveAt(pending, k)

Next == Ask \/ \E k \in DOMAIN pending : Answer(k)

Safety == Init /\ [][Next]_pending

Fairness == WF_pending(Answer(1))

Spec == Safety /\ Fairness
=============================================================================
