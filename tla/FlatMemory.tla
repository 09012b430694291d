----------------------------- MODULE FlatMemory -----------------------------
(***************************************************************************)
(* What a memory controller promises about the addresses it owns: they are *)
(* a memory, each a cell of its own.  An access takes effect when it is    *)
(* answered, a load returns what its cell holds, and the answer carries    *)
(* the address of the request.                                             *)
(***************************************************************************)
CONSTANTS
    Cells,      (* All addresses there are.                                  *)
    Values,
    MMIO        (* Addresses that belong to a device, not to the memory.     *)

VARIABLES
    mem,        (* The content of the addresses the controller owns.         *)
    pending,    (* Requests without an answer.                               *)
    answer      (* The last answer, until the next request.                  *)

vars == <<mem, pending, answer>>

Init ==
    /\ \E S \in SUBSET Cells : mem \in [S -> Values]
    /\ pending = {} /\ answer = {}

(* While the system is set up the addresses owned may still change, and    *)
(* data may be put into memory.                                            *)
SetUp ==
    /\ pending = {} /\ answer = {}
    /\ UNCHANGED <<pending, answer>>
    /\ DOMAIN mem' \subseteq Cells
    /\ \A a \in DOMAIN mem' : mem'[a] \in Values
    /\ DOMAIN mem' = DOMAIN mem =>
          \E b \in Cells : \A a \in DOMAIN mem \ {b} : mem'[a] = mem[a]

Ask ==
    /\ \E q \in pending' \ pending :
          q.global \in DOMAIN mem /\ pending' = pending \cup {q}
    /\ answer' = {} /\ UNCHANGED mem

(* The address in the answer to a store to a device is not promised.       *)
Answer(q) ==
    /\ q \in pending /\ pending' = pending \ {q}
    /\ \E r \in answer' :
          /\ answer' = {r}
          /\ r.global = q.global /\ r.cmd = q.cmd
          /\ r.addr = q.global \/ (q.cmd = "WRITE" /\ q.global \in MMIO)
          /\ r.cmd = "READ" /\ q.global \notin MMIO => r.data = mem[q.global]
    /\ mem' = IF q.cmd = "WRITE" /\ q.global \notin MMIO
              THEN [mem EXCEPT ![q.global] = q.data] ELSE mem

Next == SetUp \/ Ask \/ \E q \in pending : Answer(q)

Spec == Init /\ [][Next]_vars
=============================================================================
