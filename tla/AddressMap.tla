----------------------------- MODULE AddressMap -----------------------------
(***************************************************************************)
(* The address map of one PIM node (pimdef.h) and its decoder              *)
(* (PIMDecoder).  Addresses are word addresses: the byte address divided   *)
(* by 8.  Every access the device makes of its own accord is 8-byte        *)
(* aligned, so the three low bits carry no information here.               *)
(***************************************************************************)
EXTENDS Naturals

CONSTANTS
    FuncBase,   (* FUNC_BASE / 8: the function registers.                  *)
    SramBase,   (* SRAM_BASE / 8: the scratch-pad memory.                  *)
    DramBase,   (* DRAM_BASE / 8: the part of DRAM reserved for the PIM.   *)
    SramWords   (* SRAM_SIZE / 8: words of sramArray.                      *)

NUM_FUNCS == 16

(***************************************************************************)
(* What the values in pimdef.h satisfy and the decoding relies on: the     *)
(* three bases are in this order, the register file is aligned on its own  *)
(* size and ends before the SRAM, and the SRAM is aligned on its size.     *)
(***************************************************************************)
ASSUME AddressMapAssumption ==
    /\ FuncBase \in Nat /\ SramBase \in Nat /\ DramBase \in Nat
    /\ SramWords \in Nat \ {0}
    /\ FuncBase % NUM_FUNCS = 0
    /\ FuncBase + NUM_FUNCS <= SramBase
    /\ SramBase % SramWords = 0
    /\ SramBase + SramWords <= DramBase

(* PIMDecoder's segments are all this long, so that they overlap.          *)
SEG_SIZE == 8 * DramBase

InSegment(base, a) == base <= a /\ a < base + SEG_SIZE

(***************************************************************************)
(* PIMDecoder::decode: the segments are searched in the order DRAM, SRAM,  *)
(* FUNC and the first one that holds the address gives its type.           *)
(***************************************************************************)
decode(a) ==
    IF InSegment(DramBase, a) THEN "DRAM"
    ELSE IF InSegment(SramBase, a) THEN "SRAM"
    ELSE IF InSegment(FuncBase, a) THEN "FUNC"
    ELSE "NONE"

isIO(a) == decode(a) \in {"SRAM", "FUNC"}

(* TCLPIM::decodeFuncNum: the function a register address selects.         *)
decodeFuncNum(a) == a % NUM_FUNCS

(* The index in sramArray of a scratch-pad address: the SRAM is aliased    *)
(* over the whole of its segment.                                          *)
spdIndex(a) == a % SramWords
=============================================================================
