# TLA+ models of the wasmi register-machine core

This directory holds TLA+ specifications of the parts of the wasmi register-machine engine that are under `src/`. Each component has a module. MC modules and `.cfg` files check these modules with TLC on small instances, and proof modules prove their main properties with TLAPS for every value of the constants. `PROJECT.json` lists:
- the components;
- the runs and what each one shows;
- a mutant for every checked property;
- a map from each definition to the source lines it translates;
- the findings;
- the hazards of the code;
- the theorems.

## The system and its parts

| Part | Source | What it does |
|------|--------|--------------|
| C2 IR primitives | `crates/ir/src/primitive.rs` | Range-checked value types: `BranchOffset` (i32) and `BranchOffset16` (i16), where 0 is the "uninitialized" placeholder, with `from_src_to_dst`, `try_from` and `init`; `BlockFuel` (u32) with `bump_by`; the 38-variant `Comparator`; `ComparatorAndOffset` packed into a u64 (`as_u64`, `from_u64`). |
| C3 instruction set | (not under `src/`) | Fixed-size slots. A store is a head slot, optionally followed by `RegisterAndImm32`, `Imm16AndOffsetHi` and `MemoryIndex` parameter slots. |
| C4 translator | tests under `src/`: `select.rs`, `i32_mul.rs`, `f64_max.rs`, `memory_size.rs` | Lowers Wasm to slots: the six store variants, constants inlined or placed in the constant pool (negative register ids), branch placeholders and fix-ups, compare-branch fusion with a packed fallback, and the select and identity rewrites. |
| C5 executor | `engine/executor/instrs/store.rs`, `simd.rs` | One instruction pointer `ip`. A store handler reads its head, fetches its parameter slots at `ip+1`/`ip+2` without checking them, resolves the memory, runs `UntypedVal::store*` and then advances `ip` or traps. A SIMD handler reads its v128 operands, calls a `simd::` lane function and writes the result. Shuffle and bitselect first fetch a third register from the `Register` slot at `ip+1` and then step by 2. |
| Fuel metering | `primitive.rs` (`BlockFuel`); translator and `ConsumeFuel` handler not under `src/` | The translator puts a `ConsumeFuel` at the top of every basic block and bumps its `BlockFuel` by each instruction's static cost; a bump past u32 fails with `BlockFuelOutOfBounds`. The executor's `ConsumeFuel` subtracts the block's fuel from the store's budget, or traps with `OutOfFuel` when the budget would go negative. |
| C6 store facade | `store.rs` (`fetch_*_memory_bytes_mut`) | Uses the cached default memory, or resolves a `MemoryIndex` through the store. |

How the parts interact. The translator emits the stream from the primitives, and the executor trusts the stream's shape. The store handlers do not check the tags of their parameter slots: they hit `unreachable_unchecked` on a mismatch. So the executor's safety rests on the translator's *well-formedness* (spec section 3), which the models make explicit as `StoreIR!WellFormed`. Branch offsets are written by the translator (`from_src_to_dst`, `init`) and read by the executor's branch handlers. The packed `ComparatorAndOffset` passes from the translator to the executor through the constant pool.

Hard behaviours of this code:
- **Slot protocols.** How many slots each handler consumes, compared with how far it moves `ip`.
- **Numeric edges.** The 64-bit offset split into `hi`/`lo`; `ptr + offset` overflowing u64; the tail of a store running past the end of memory; sign extension of narrow immediates; i16 and i32 offset ranges; packing two halves into one u64; fuel overflow.
- **All-or-nothing writes.** A store that traps must write nothing.
- **Stale state.** The cached default-memory pointer.
- **Multi-step translation.** Placeholders that must be initialized exactly once, by the fix-up of their own label.

Nothing in this code runs concurrently (spec section 5: the executor is single-threaded and never suspends within its loop). So there are no interleaving, crash or message-loss hazards. The one liveness question is whether a call ends: a loop of blocks is cancelled only by running out of fuel (spec section 5, "Cancellation/timeouts").

## Modules

| Module | Models | State / operations |
|--------|--------|--------------------|
| `Words` | integer widths | `ByteRange` (256 in the code), `U32 = ByteRange^4`, `U64 = U32*U32`, `Signed(c, n)` (an `as iN` cast), `ByteOf` (little-endian byte) |
| `StoreIR` | store instructions and their lowering | `Slot` (all head and parameter slot records), `Width` (the store function each instruction table binds), `InlineImm`, `Encode` and `Translate` (the translator's six-way store lowering, from the spec), and `WellFormed` (the spec section 3 invariants of a finalized stream) |
| `WasmStore` | **abstract** spec of a body of stores | `src`, `pc`, `regs`, `mem`, `status`. Stores run in order; each traps when the bytes it would write are not all in memory, otherwise it writes the low `Width` bytes little-endian |
| `StoreExec` | the `store.rs` handlers | `code`, `ip`, `regs`, `mem`, `status`. There is one action per handler (`ExecStore`, `ExecStoreImm`, `ExecStoreOffset16`, `ExecStoreOffset16Imm`, `ExecStoreAt`, `ExecStoreAtImm`), plus `ExecTrap` and `ExecReturn`. `StoreWrap`, `StoreWrapMem0` and `StoreWrapAt` are `execute_store_wrap*`: a checked address, then a trap or the write, then the `ip` advance over the whole slot count. `FetchOptionalMemory`/`IpAfterMemory` are `fetch_optional_memory` (spec 4.4): it reads an optional `MemoryIndex` slot and steps `ip` over it before the store; a trap leaves `ip` where that fetch put it |
| `MCStoreExec` | TLC instance of `StoreExec` | two memories, two frame registers, a two-entry constant pool, and bodies of one store (every kind, memory, pointer class, offset class and value class) or two |
| `StoreExecProofs` | TLAPS proofs for `StoreExec` | see below |
| `Primitives` | `primitive.rs` | `FromSrcToDst`, `BranchOffset16TryFrom`, `BranchOffsetInit`, `BranchOffset16Init`, `IsInit`, `BlockFuelTryFrom`, `BumpBy`, `ComparatorTryFrom`, `FromU64`, where a failing `assert!` becomes `Panic` and a `Result` becomes `Ok`/`Err` |
| `PrimitivesProofs` | TLAPS proofs for `Primitives` | see below |
| `BranchFixup` | the translator's branch encoding over the primitives | `len`, `branches`, `pinned`, `fixups`, `status`. `PushOthers`, `PushBranch` (backward: immediate `from_src_to_dst`; forward: placeholder plus fix-up) and `PinLabel` (init of every fix-up of the label, with the fallback to `BranchCmpFallback` and `AsU64` = `as_u64`). The u64 `&` and `|` are `WordOp`, a recursive function over the `8 * ByteBits` bits of a u64 that `MCBranchFixup!PackReference` checks against the community `Bitwise` operators |
| `BranchFixupProofs` | TLAPS proofs for `BranchFixup` | see below |
| `MCBranchFixup` | TLC instance of `BranchFixup` | two labels (symmetric), comparators 0 and 4, and runs of 8 or 128 other instructions |
| `SimdIR` | v128 values, the SIMD slots and their lowering | `Lane`/`FromLanes` (lane i is byte i, little-endian; `FromLanes` is the v128 with the given lanes, by `CHOOSE`), the `simd::` lane functions (`I8x16Shuffle`, `V128Bitselect`, `I8x16Neg`, `I8x16Add`, `I8x16ExtractLaneU`, `I8x16Shl`, from the Wasm semantics; `V128Bitselect` selects bit by bit through `ByteSelect`), `Slot`, `WellFormed` (the shape of a SIMD stream the handlers rely on), and `Encode`/`Translate` (a shuffle's immediate goes to the constant pool as `Pool`; shuffle and bitselect get a trailing `Register` slot) |
| `WasmSimd` | **abstract** spec of a body of SIMD operations | `src`, `pc`, `regs`, `status`: each operation writes `WasmResult` to its result register, in order |
| `SimdExec` | the `simd.rs` handlers | `code`, `ip`, `regs`, `status`. `ExecShuffle`, `ExecBitselect`, `ExecUnary`, `ExecBinary`, `ExecExtractLane`, `ExecShiftBy` and `ExecReturn`. `FetchRegister` is `fetch_register`, `NeBytes` is `as_u128().to_ne_bytes()` under the constant `HostEndian`, `LanesInBounds` is `ImmLaneIdx32::try_from`, and `Undefined` is an `unreachable_unchecked!` arm |
| `SimdExecProofs` | TLAPS proofs for `SimdExec` | see below |
| `SimdRefinementProofs` | TLAPS proof that `SimdExec` implements `WasmSimd` | see below |
| `StoreRefinementProofs` | TLAPS proof that `StoreExec` implements `WasmStore` | see below |
| `Fuel` | fuel metering: the translator's block accumulation composed with the executor's `ConsumeFuel` | `prog` (blocks as instruction costs and successor sets, 0 meaning return), `tb`/`ti`/`blockFuel` (translation), `fuel0`/`fuel`/`pc`/`charged`/`visits` (execution), `phase`. `TranslateInstr` (one `bump_by` per instruction), `EndBlock`, `ConsumeFuel`, `LeaveBlock` (a branch to a successor or the return) |
| `MCFuel` | TLC instance of `Fuel` | five bodies and budgets 0, 3 and 300 |
| `FuelProofs` | TLAPS proofs for `Fuel` | see below |
| `MCSimdExec` | TLC instance of `SimdExec` | 2 lanes of 8 values, three frame registers, every shuffle selector, and chains of the other operations with aliased registers |

### How the executor model corresponds to the code

- `ExecStore` is `execute_store` (store.rs:169-188):
  - `FetchValueAndOffset` is `fetch_value_and_offset_hi`.
  - `FetchOptionalMemory(2)` is `fetch_optional_memory(2)`.
  - `Combine` is `Offset64::combine`.
  - `StoreWrap(..., 2)` is `execute_store_wrap` followed by `try_next_instr_at(2)`.
- The imm variants widen their immediate with `ImmToUntyped` (`T::from(value).into()`).
- The offset16 variants use memory 0 (`execute_store_wrap_mem0`).
- The at-variants use `StoreWrapAt` (`execute_store_wrap_at`, then `try_next_instr`).

A trap leaves memory as it was, and `status` becomes `"trapped"`, which ends the call.

The translator, the `Instruction` enum, the dispatch loop, `get_register` and `UntypedVal::store*` are not under `src/`. Their definitions are modelled from the spec and marked `spec_modelled` in the map.

The SIMD handlers map the same way. `ExecShuffle` is `execute_i8x16_shuffle` (simd.rs:32-52): `FetchRegister`, then the selector through `NeBytes` and `LanesInBounds`, then `WriteAndStep(result, ..., 2)`, which is `set_register_as` followed by `next_instr_at(2)`. If the slot is not a `Register`, or a selector byte is 32 or more, the code reaches `unreachable_unchecked!`. That is undefined behaviour; the model ends the call in status `"undefined"`. Each handler table (unary, binary, extract-lane, shift-by) has one action, with one i8x16 operation standing for all the rows: the handlers of a table differ only in the `simd::` function they call. The `simd::` library and `V128::as_u128` are not under `src/`.

Two hypotheses about code that is not under `src/` are constants, so that each one is visible:
- `PackOp`: `as_u64` as written (`"and"`) or with the `|` the spec prescribes (`"or"`).
- `HostEndian`: the target's byte order, which `to_ne_bytes` follows. `V128::as_u128` is taken to put lane 0 in the least significant byte, the Wasm order.

### Data abstraction and bounds

- **Byte range.** A byte has `ByteRange` values, 4 in every run instead of 256. Every width is counted in bytes, so a u32 has 256 values and a u64 has 65536. Overflow thresholds, sign extension, i16/i32 ranges and byte order keep their shape. `Bitwise` needs a power of two, and a u32 must hold all 38 comparators, so 4 is the smallest byte range that keeps both.
- **Stores.** A memory has 8 bytes, so an i64 store fits at address 0 and traps from address 1 on, and narrow stores straddle the end. The bodies include:
  - offset 256 (`hi = 1`, `lo = 0`), which exercises `Combine`;
  - pointers 254 (u32 overflow at translation time, and `Trap`) and 1;
  - register value 65534 with offset 2, whose effective address overflows u64 (65536 values) in the `checked_add`, so `StoreWrap` traps before the bounds check;
  - values -1 (an immediate), 9 (in the pool) and -100 (in the pool, negative).
- **SIMD.** A v128 has 2 lanes of 8 values (16 lanes of 256 in the code). So a shuffle index is 0..3, and a selector byte 0..7 can hold an index that `ImmLaneIdx32::try_from` refuses. The lane bits are 3, so shift amounts 3 and 4 exercise the reduction modulo the lane width. Every one of the 16 selectors is run. Two shuffles in one body read pool entries -1 and -2. A bitselect writes its own selector register, and a later operation reads the result.
- **Fuel.** Costs are numbers and a block is its costs and its successors. The five bodies are: spec scenario 2 (one block of cost 1 looping on itself); a block of cost 100 + 155 = 255 = u32 - 1 that loops through a cheap block, the largest fuel that fits; a block of 200 + 100 = 300, one bump past u32; a block of 255 + 65535, where the u64 `checked_add` itself overflows; and a block branching to two others. Budgets 0, 3 and 300 give immediate `OutOfFuel`, the scenario's three iterations, and a budget that covers the expensive block once but not twice.
- **Branches.** Runs of 8 other instructions put targets just inside and just past the i16 reach (-8..7) in both directions. A run of 128 instructions crosses the i32 reach (-128..127). There are up to 3 branches, over two labels.

## Runs

| Run | Checks | Shows |
|-----|--------|-------|
| `store_refinement` (pass) | `TypeOK`, `NoParamDispatch`, `RefinesWasmStore` | translate-then-execute implements `WasmStore` under the refinement mapping `pc <- AbsPc` (the store whose slots hold `ip`), traps and u64 address overflow included; while running, `ip` never rests on a parameter slot, so every handler, `fetch_optional_memory`'s step included, advances by its whole slot count |
| `branch_fixup` (pass) | `TypeOK`, `BranchTargetsCorrect` | every resolved branch and fused compare-branch decodes to its label, through pins in any order |
| `branch_fixup_far` (pass) | `TypeOK`, `BranchTargetsCorrect` | an offset beyond i32 fails the translation and never wraps |
| `branch_self_offset` (violation) | `FinalizedOffsetsInit` | `from_src_to_dst(i, i)` yields the 0 sentinel without the documented panic |
| `branch_pack_and` (violation) | `FallbackRoundTrip` | `as_u64` as written loses the offset |
| `branch_pack_or` (violation) | `FallbackRoundTrip` | the spec's `|` fix still fails for negative offsets, because of sign extension |
| `simd_refinement` (pass) | `TypeOK`, `NoUnreachableReached`, `RefinesWasmSimd` | on a little-endian host, translate-then-execute implements `WasmSimd`; no `unreachable_unchecked!` arm is reached and `ip` never rests on a `Register` slot |
| `fuel_metering` (pass) | `TypeOK`, `FuelAccounting`, `Terminates` | every block's `BlockFuel` is the exact sum of its static costs, or translation fails with `BlockFuelOutOfBounds` exactly when the sum passes u32; the fuel a call has used is the sum of the static costs of the blocks it entered; every call, looping ones included, ends |
| `simd_big_endian` (violation) | `RefinesWasmSimd` | with `HostEndian = "big"`, a shuffle with selector (0,1) writes lanes (1,0) (finding 4) |

Every property of a passing run has a mutant in `PROJECT.json`: a plausible bug in a mapped definition that TLC catches under that run's configuration.

Fairness is assumed only in `fuel_metering`, whose `Terminates` is a liveness property: `FairSpec == Spec /\ WF_vars(Next)`. Weak fairness of the whole next-state relation says that a call that can take a step eventually does; spec section 5 justifies it, since `run` is single-threaded, never suspends, and no opcode is preemptable. No fairness of any one branch is assumed: `LeaveBlock` may pick any successor forever, so a call ends only because fuel runs out, which is exactly the property. `CHECK_DEADLOCK FALSE` is used because a call really stops: it ends on return, trap or `OutOfFuel`, and a translation ends on an error or at the instruction bound.

The spec says two things about when fuel traps. Section 4.4 says `ConsumeFuel` traps if the budget "would go negative", and scenario 2 (budget 3, cost 1: three iterations, then the fourth `ConsumeFuel` traps) agrees. Section 5 says "zero or negative triggers a trap". `Fuel` follows section 4.4 and the scenario: a budget that reaches exactly 0 still lets the block run.

## Proofs

`StoreExecProofs` (TLAPS, for all constants satisfying the `ASSUME`s):
- `TypeCorrect`: `Spec => []TypeOK`.
- `NoParamDispatchHolds`: `Spec => []NoParamDispatch`.

`TypeOK` is not inductive as it stands, because a handler reads `code[ip+1]` and `code[ip+2]` unchecked. The inductive invariant is

    IInv == TypeOK /\ WellFormed(code) /\ IpOnHead

- `WellFormed` comes from `TranslateAssumption`, which says every translated body is well formed. TLC evaluates it on every run's bodies; it is the translator's guarantee.
- `IpOnHead` says that while running `ip` sits on a head slot. It implies `NoParamDispatch`, and it is what lets a handler read its parameter slots: `WellFormed` says which slots follow each head, and that the slot after an offset16 store is again a head.

The step proof has one lemma per action. Each cites:
- `SlotFields` (the field types of a slot with a given tag);
- `GetRegisterType`;
- `FetchOptionalMemoryType`;
- `StoreWrapStep`/`StoreWrapAtStep` (a write either keeps memory typed and moves `ip` on, or traps in place);
- `HandlerStep`, the common conclusion.

The arithmetic rests on `Words!RadixAssumption`: `ByteRange^i` is a positive natural number for `i` in 0..8. The provers have no axioms for `^`, so this fact is stated as an assumption about the constant, and TLC checks it.

`PrimitivesProofs`:
- `FromSrcToDstExact` (spec 8, branch-offset monotonicity);
- `ForwardOffsetInit`;
- `Init16NoPanic`;
- `BumpByExact` (fuel never wraps);
- `FromU64NonNegative` (the unpack inverts `cmp * 2^32 + offset` for non-negative offsets).
- `FromU64RoundTrip`: `from_u64` reads back every comparator and every i32 offset, negative ones included, packed as `cmp << 32 | (offset as u32)`. The packing the code uses sign-extends the offset instead (findings 1 and 2). This theorem shows the unpack is right, so the fault is in the packing.
- `Fits16Exact`: the translator's 16-bit-immediate test `Fits16` (an `as i16` round trip) holds exactly for the i16 values. It assumes an even number of byte values, which the real 256 satisfies. It rests on `SignedRoundTrip` (an `as iN` cast leaves an n-byte signed value unchanged) and `SignedBounded` (its result is always one).

`SimdExecProofs`:
- `SimdTypeCorrect`: `Spec => []TypeOK`.
- `SimdNoUnreachable`: `Spec => []NoUnreachableReached`, on either host byte order.

The inductive invariant is `TypeOK /\ WellFormed(code, Pool(src)) /\ NoUnreachableReached`. `SimdIR!WellFormed` says: a head first and `Return` last; `Shuffle` and `Bitselect` followed by a `Register` slot and then a head; a shuffle's register naming a pool entry whose every byte is a lane index below 2 * Lanes; a bitselect's naming a frame register; and a head after every one-slot instruction. As for stores, `SimdExec!TranslateAssumption` states that the translator lowers every body to a well-formed stream, and TLC checks it on the run's bodies. The step proof has one lemma per handler (`ShuffleInv`, `BitselectInv`, `OneSlotInv`, `ReturnInv`) over `WriteStep` (writing a v128 and stepping onto a head keeps the invariant) and one type lemma per lane function. For the shuffle, the big-endian case reads byte `Lanes - 1 - i` of the selector, which is still in bounds, so `NoUnreachableReached` holds on both byte orders even though the refinement does not.

The lane functions are defined by what their result satisfies (`FromLanes` and `ByteSelect` by `CHOOSE`). They rest on `SimdIR!LaneRadixAssumption`: the powers a lane index reaches are positive, every choice of lanes is a v128, and every bitwise selection of bytes is a byte. These are facts of positional notation stated as assumptions, and TLC checks them.

`FuelProofs`:
- `FuelTypeCorrect`: `Spec => []TypeOK`: the store's remaining fuel never goes below zero, and every `BlockFuel` is a u32. The inductive invariant adds `prog \in Programs`, which keeps successors inside the body. The translation step cites `BumpByExact`.
- `FuelAccountingHolds`: `Spec => []FuelAccounting`, for every body, budget and byte range. The translator's `bump_by` never wraps: a block's `BlockFuel` is its exact static cost. `ConsumeFuel` takes exactly that cost. The translator fails with `BlockFuelOutOfBounds` only on a block that costs more than a u32 holds.

  The inductive invariant `FInv` adds three facts to `IInv` and `FuelAccounting`:
  - while translating, nothing has been charged: `fuel = fuel0` and every visit count is 0;
  - while translating, the blocks after `tb` still have `BlockFuel` 0, so the next block starts from `CostPrefix(tb + 1, 0)`;
  - once running, `tb` is the last block, so every block's `BlockFuel` is its `StaticCost` when `ConsumeFuel` charges it.

  `CostPrefix` and `ChargedTotal` are recursive functions, not `RECURSIVE` operators, so the provers can work with them. Both are instances of one prefix sum, `PSum(g, k)`. What `PSum` computes is proved by well-founded induction on the naturals (`WellFoundedInduction!WFMin` on the least counterexample): the table the definition chooses exists and is unique (`PSumExists`, `PSumUnique`).
  - `PSumStep`: the recurrence.
  - `PSumExcept`: one more visit of a block adds its cost to `ChargedTotal`.
  - `PSumMono`: a prefix of a block costs at most the whole block. This is why a failed bump means the whole block is past u32.
  - `PSumZero`: at the start of execution `ChargedTotal` is 0.

  `SumsOf` restates Fuel's sums as operators of the body and the visit counts. One lemma then serves both a state and its successor.

`BranchFixupProofs`:
- `BranchTypeCorrect`: `Spec => []TypeOK`.
- `BranchTargets`: `Spec => []BranchTargetsCorrect`: every resolved branch and every fused compare-branch with an i16 offset decodes to its label's position. A packed fallback (`BranchCmpFallback`) is not covered: `BranchTargetsCorrect` excludes it, because `as_u64` loses the offset (finding 1).

The inductive invariant is `TypeOK /\ FixupsPending /\ BranchTargetsCorrect /\ FixupsArePlaceholders`. Two facts need the strengthening:
- `PinLabel` keeps `BranchTargetsCorrect` for the branches it does not touch only because a resolved branch's label is already pinned (from `FixupsPending`, defined in `BranchFixupProofs`: a branch is a pending placeholder exactly while its label is unpinned), so pinning another label cannot move its target.
- `PinLabel` initialises every fix-up of the label, and `init` keeps the types only because each fix-up still holds the placeholder (`FixupsArePlaceholders`).

The per-action lemmas are `PushOthersInv`, `PushBranchInv` and `PinLabelInv`. `ResolvedFacts` and `InitResultFacts` state what `Resolved` and `InitResult` yield; they rest on `PrimitivesProofs` (`FromSrcToDstExact`, `ForwardOffsetInit`, `FromU64NonNegative`) and on `BranchFixup!PackAssumption`: `AsU64` of any comparator and i32 offset is a u64. `WordOp` is recursive and the provers cannot unfold it, so this fact is stated as an assumption, and TLC checks it on every `branch_fixup` run. `Words!RadixStep` (each byte position is `ByteRange` times the one below it) is the other positional fact stated this way.

`SimdRefinementProofs`:
- `SimdRefinement`: with `HostEndian = "little"`, `Spec => RefinesWasmSimd`, for every lane count, byte range, frame and set of bodies.

The hypothesis is needed: the `simd_big_endian` run violates the property. The argument is a step simulation:
- `RInit`: `Init => RInv /\ Abs!Init`.
- `RStep`: `RInv /\ [Next]_vars => RInv' /\ [Abs!Next]_(Abs!vars)`: every handler step is one `ExecuteOp` of `WasmSimd`, and `ExecReturn` is `Return`.

`RInv == IInv /\ src \in SrcPrograms /\ code = Translate(src) /\ OnOpStart`. Here `IInv` is the invariant of `SimdExecProofs`, and `OnOpStart` says that `ip` is the first slot of some operation `p`. Then `AbsPc = p` (lemma `AbsPcValue`: exactly the `p - 1` earlier operations start below `ip`), which needs `OpStart` strictly increasing (`OpStartMonotone`, by well-founded induction on the naturals through `WellFoundedInduction!WFMin`). Each handler lemma (`BinaryRefines`, `UnaryRefines`, `ExtractRefines`, `ShiftRefines`, `BitselectRefines`, `ShuffleRefines`, `ReturnRefines`) shows that the handler reads the operands of the abstract operation `src[p]`, writes `WasmResult`, and lands on `OpStart(src, p + 1)`. The shuffle reads its selector from the pool. `SelectorBytes` shows that on a little-endian host `NeBytes(FromLanes(l)) = l`. The shift reduces its amount at translation time, and `(a % L) % L = a % L` makes that agree with the abstract shift.

What `Translate` lays out rests on `SimdExec!LayoutAssumption` (`SimdIR!Layout`): the first operation starts at slot 1, each operation's slots are its `Encode` placed at `OpStart`, `OpStart` advances by the length of each encoding, and a shuffle's pool entry is its selector. `Translate`, `OpStart` and the pool are recursive functions over the body, which the provers cannot unfold, so the layout is an assumption over the run's bodies, and TLC checks it.

`StoreRefinementProofs`:
- `StoreRefinement`: `Spec => RefinesWasmStore`, for every byte range, memory size, frame, constant pool and set of bodies.

The layout is that of `SimdRefinementProofs`: `RInit` and `RStep` with

    RInv == IInv /\ src \in SrcPrograms /\ code = Translate(src) /\ OnOpStart

Here `OnOpStart` says that while running `ip` is the first slot of some store `p`. A handler that traps has already let `fetch_optional_memory` step over its `MemoryIndex`, so a trapped `ip` may rest inside store `p`. `AbsPcWithin` gives `AbsPc = p` for every `ip` from the first slot of store `p` up to, not including, the first slot of store `p + 1`; this covers the running and the trapped states alike. The `ip` a store moves to is `OpStart(src, p + 1)`, and there `AbsPc = p + 1`.

The lowering (spec 4.2) is split into seven shapes: `ShapeTrap`, `ShapeAtImm`, `ShapeAt`, `ShapeOffset16Imm`, `ShapeOffset16`, `ShapeStoreImm` and `ShapeStore`. `EncodeShapes` and `ShapeOfTag` say that a head tag names its shape. `HandlerRefines` is the common step: a handler on the first slot of store `p` that runs `StoreWrap` on the store's memory is `WasmStore`'s `ExecuteStore`, provided that
- its address and offset add up to the store's effective address;
- its value has the store operand's low `Width` bytes;
- it moves on by its head and parameter slots.

Each handler lemma (`ExecStoreRefines` ... `ExecStoreAtImmRefines`) establishes these premises:
- `MemoryOf`: `fetch_optional_memory` finds the store's memory, or memory 0 when the next head follows, and leaves `ip` at `ip + MemSlots`, past the `MemoryIndex` slot when there is one.
- `CombineSplit`: `Combine(off \div U32, off % U32) = off`.
- `RegRead`/`ValueRead`: a value that is not inlined is read from its frame register or its constant-pool entry.
- `ImmRead`/`ImmBytes`: an inlined immediate, narrowed to `i8`/`i16`/`Const16` and widened again by `ImmToUntyped`, keeps the low `Width` bytes of the constant. This rests on `SignedCongruent` and `ByteOfCongruent`, over the integer-division lemmas `DivOfDiv`, `ModOfMod` and `PowDivides`.
- `StoreCheck`: the handler's `ea <= U64 - 1 /\ ea + W <= MemSize` agrees with `WasmStore`'s `ea + W <= MemSize`, since `MemSize <= U32`.
- `ExecTrapRefines`: the translator's `Trap` for a constant address past u32 is `WasmStore`'s trapping step, since those bytes cannot fit a memory of at most u32 bytes.

Two assumptions of `StoreExec`, both checked by TLC on every run over the run's bodies, carry the translator's recursion:
- `LayoutAssumption` (`StoreIR!Layout`): the first store starts at slot 1; each store's slots are its `Encode` placed at `OpStart`; `OpStart` advances by the length of each encoding; `Return` is the last slot.
- `PoolAssumption`: every constant that is not inlined has an entry in `ConstPool`.

`Emitted` is a recursive function of the body that the provers cannot unfold, and the pool is a constant of the model.

Only model-checked:
- `Terminates`, a liveness property under fairness, which TLAPS does not reach.
- The properties of the violation runs, which are counterexamples by design.

## Findings

1. **`as_u64` uses `&`** (`primitive.rs:318`): the packed fallback always decodes to offset 0.
2. **The spec's `|` fix is not enough** (`primitive.rs:317`): `offset.to_i32() as u64` sign-extends. For a negative offset, `|` writes ones over the comparator half and `from_u64` returns `None`. This contradicts the spec's scenario 6 (I32Eq with offset -12).
3. **`from_src_to_dst` returns 0 for src = dst** (`primitive.rs:119`), despite its doc comment's panic. A self-branch in a finalized stream then carries the uninit sentinel.
4. **Shuffle selector decoded in host byte order** (`simd.rs:40`). `to_ne_bytes` reverses the selector on a big-endian target. Spec section 9 asks for little-endian decoding.

## Not modelled yet (plan for the next sittings)

- **SIMD tag reuse** (spec section 9): some rows of the unary table name `I16x8Neg`/`I16x8Abs` for other shapes. The macro that reads those names is not under `src/`, so what the rows do cannot be modelled from the source.
- **Select lowering** (`select.rs` tests): `SelectLower` as a function from operand provenance to the emitted slots. It would be checked against a reference select semantics over small operand sets, and shown to refine the source `select`.
- **Binary identities** (`i32_mul.rs`, `f64_max.rs`): `x*0`, `x*1`, and `max` with -inf or NaN, checked against a reference.
- **Memory growth** and the cached default memory: not under `src/`. The model has one fixed-size memory per index, so the stale-cache hazard at `store.rs:64` cannot arise in it.
- **Small conversions of `primitive.rs`** that keep the value: `Sign::to_f32`/`to_f64` (float constants), `From<i16>`, `From<BranchOffset16> for BranchOffset`, `to_i16`, `to_i32`, `to_u64`, `uninit`, `from_untyped` and `From<ComparatorAndOffset> for UntypedVal`. Each is the identity on the integers the models use, so modelling them would add nothing a property could tell apart.
