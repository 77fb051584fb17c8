---------------------------- MODULE MCStoreExec ----------------------------
(***************************************************************************)
(* StoreExec on small instances.  A byte has 4 values, so u32 = 256 and   *)
(* u64 = 65536; a Const16 holds -8..7 and an Offset16 0..15.  A memory    *)
(* has 8 bytes, so that an i64.store fits at address 0 and not at 1.      *)
(***************************************************************************)
EXTENDS StoreExec

MCMems == {0, 1}
MCFrameRegs == {0, 1}

(* Register values: an in-bounds pointer, a pointer at the memory's last  *)
(* byte, and u64::MAX - 1, whose sum with offset 2 overflows checked_add   *)
(* and would wrap to the in-bounds address 0.                              *)
MCRegValues == {0, 7, 65534}

(* 9 and -100 do not fit a Const16; they live in the constant pool. *)
MCConstPool == << 9, 65436 >>

Regs(R) == {[kind |-> "reg", id |-> r] : r \in R}
Consts(C) == {[kind |-> "const", val |-> c] : c \in C}

Ops(K, M, P, O, V) ==
  [kind : K, mem : M, ptr : P, offset : O, value : V]

(* Every store shape once: constant pointers 1 and 254 (254 + 2 leaves    *)
(* u32), offsets below, at and above the Offset16 and u32 limits.          *)
SingleOps ==
  Ops(StoreKinds, MCMems, Regs({0, 1}) \cup Consts({1, 254}), {0, 1, 2, 256},
      Regs({1}) \cup Consts({-1, 9, -100}))

(* Pairs of stores, so that a handler's ip step is followed by another.   *)
PairOps ==
  Ops({"i64.store", "i32.store8"}, MCMems, Regs({0}) \cup Consts({254}), {1, 256},
      Regs({1}) \cup Consts({-1}))

MCSrcPrograms ==
  {<< op >> : op \in SingleOps} \cup {<< a, b >> : a, b \in PairOps}

=============================================================================
