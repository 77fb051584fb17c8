----------------------------- MODULE BranchFixup -----------------------------
(***************************************************************************)
(* The translator's branch encoding (spec 4.3) over the primitives of      *)
(* primitive.rs.  A backward branch gets its BranchOffset at once from     *)
(* from_src_to_dst; a forward branch is emitted with the 0 placeholder and *)
(* a fix-up that init()s the offset when its label is pinned.  A fused     *)
(* compare-branch carries a BranchOffset16; when the offset does not fit   *)
(* 16 bits it falls back to BranchCmpFallback, whose comparator and offset *)
(* are packed by ComparatorAndOffset::as_u64 into the constant pool and     *)
(* unpacked by from_u64 when the executor takes the branch.                *)
(*                                                                         *)
(* The translator is not part of the source: the emission order is         *)
(* modelled from the spec, the primitives from primitive.rs.  Runs of      *)
(* instructions that are not branches only move the instruction counter,   *)
(* so branches are kept in a function from their index and the rest is a  *)
(* count.                                                                  *)
(***************************************************************************)
EXTENDS Primitives, FiniteSets

CONSTANTS
  Labels,       \* the branch targets of a function body
  Cmps,         \* comparator ordinals the fused branches use
  FillerSizes,  \* lengths of the runs of other instructions the body has
  MaxInstrs,    \* bound on the instruction count
  MaxBranches,  \* bound on the number of branches
  PackOp        \* "and": as_u64 as written; "or": the fix the spec names

ASSUME BranchFixupAssumption ==
  /\ Cmps \subseteq 0..(NumComparators - 1)
  /\ FillerSizes \subseteq Nat \ {0}
  /\ MaxInstrs \in 1..U32 /\ MaxBranches \in Nat
  /\ PackOp \in {"and", "or"}
  /\ \E k \in 1..ByteRange : 2^k = ByteRange

NotPinned == -1

VARIABLES
  len,       \* instructions emitted so far; the next one has index len
  branches,  \* index -> the branch instruction at that index
  pinned,    \* label -> the index it was pinned at, or NotPinned
  fixups,    \* indices of forward branches whose offset is a placeholder
  status     \* "translating", or the error that ended the translation

vars == <<len, branches, pinned, fixups, status>>

(* Bits of a byte: ByteRange = 2^ByteBits; a u64 has 8 * ByteBits bits. *)
ByteBits == CHOOSE k \in 1..ByteRange : 2^k = ByteRange

(* Bit k of x. *)
Bit(x, k) == (x \div 2^k) % 2

(* The u64 whose bit k is op(bit k of x, bit k of y), built from the most *)
(* significant bit down.                                                   *)
WordOp(x, y, op(_, _)) ==
  LET w == 8 * ByteBits
      f[k \in 0..w] == IF k = 0 THEN 0
                       ELSE 2 * f[k - 1] + op(Bit(x, w - k), Bit(y, w - k))
  IN  f[w]

(* u64 & and | . *)
AndU64(x, y) == WordOp(x, y, LAMBDA a, b : a * b)

OrU64(x, y) == WordOp(x, y, LAMBDA a, b : a + b - a * b)

(* ComparatorAndOffset::as_u64: hi = cmp as u64; lo = offset.to_i32() as  *)
(* u64 (sign-extending); hi << 32 & lo.                                    *)
AsU64(cmp, offset) ==
  LET hi == cmp
      lo == offset % U64
      shifted == (hi * U32) % U64
  IN  IF PackOp = "and" THEN AndU64(shifted, lo) ELSE OrU64(shifted, lo)

(* Packing a comparator and an i32 offset yields a u64 (checked by TLC;   *)
(* the provers cannot unfold WordOp's recursion).                          *)
ASSUME PackAssumption == \A c \in Cmps, o \in I32 : AsU64(c, o) \in Word64

(* The instruction for a branch to label l from index i with the resolved *)
(* offset.  A compare-branch whose offset does not fit 16 bits becomes     *)
(* BranchCmpFallback with the packed parameter.                            *)
Resolved(b, offset) ==
  IF b.kind = "br" THEN [b EXCEPT !.offset = offset]
  ELSE IF BranchOffset16TryFrom(offset).ok THEN [b EXCEPT !.offset = offset]
  ELSE [kind |-> "brcmpfb", label |-> b.label, cmp |-> b.cmp,
        param |-> AsU64(b.cmp, offset)]

(* The branches with instruction x added at index i. *)
Append1(f, i, x) == [j \in DOMAIN f \cup {i} |-> IF j = i THEN x ELSE f[j]]

(* A run of n instructions that are not branches. *)
PushOthers(n) ==
  /\ status = "translating"
  /\ len + n <= MaxInstrs
  /\ len' = len + n
  /\ UNCHANGED <<branches, pinned, fixups, status>>

(* br / br_if to label l (kind "br": BranchOffset) or a fused compare-     *)
(* branch with comparator c (kind "brcmp": BranchOffset16).                *)
PushBranch(l, b) ==
  /\ status = "translating"
  /\ len < MaxInstrs
  /\ Cardinality(DOMAIN branches) < MaxBranches
  /\ len' = len + 1
  /\ IF pinned[l] /= NotPinned
     THEN LET r == FromSrcToDst(len, pinned[l]) IN
          IF r.ok
          THEN /\ branches' = Append1(branches, len, Resolved(b, r.val))
               /\ UNCHANGED <<fixups, status>>
          ELSE /\ status' = r.err
               /\ UNCHANGED <<branches, fixups>>
     ELSE /\ branches' = Append1(branches, len, b)
          /\ fixups' = fixups \cup {len}
          /\ UNCHANGED status
  /\ UNCHANGED pinned

(* Init of the placeholder of the forward branch at index i to target dst: *)
(* BranchOffset::init or BranchOffset16::init, the latter falling back to  *)
(* the packed form on BranchOffsetOutOfBounds.                             *)
InitResult(i, dst) ==
  LET b == branches[i]
      r == FromSrcToDst(i, dst)
  IN  IF ~r.ok THEN r
      ELSE IF b.kind = "br" THEN
        LET s == BranchOffsetInit(b.offset, r.val) IN
        IF s.ok THEN Ok(Resolved(b, s.val)) ELSE s
      ELSE
        LET s == BranchOffset16Init(b.offset, r.val) IN
        IF s.ok \/ s.err = "BranchOffsetOutOfBounds"
        THEN Ok(Resolved(b, r.val)) ELSE s

(* The label is pinned at the next index; its fix-ups are resolved in     *)
(* turn and the first failure ends the translation.                        *)
PinLabel(l) ==
  /\ status = "translating"
  /\ pinned[l] = NotPinned
  /\ pinned' = [pinned EXCEPT ![l] = len]
  /\ LET users  == {i \in fixups : branches[i].label = l}
         failed == {i \in users : ~InitResult(i, len).ok}
     IN  IF failed = {}
         THEN /\ branches' = [i \in DOMAIN branches |->
                               IF i \in users THEN InitResult(i, len).val
                               ELSE branches[i]]
              /\ fixups' = fixups \ users
              /\ UNCHANGED status
         ELSE /\ \E i \in failed : status' = InitResult(i, len).err
              /\ UNCHANGED <<branches, fixups>>
  /\ UNCHANGED len

BranchKinds ==
  [kind : {"br"}, label : Labels, offset : {0}]
    \cup [kind : {"brcmp"}, label : Labels, cmp : Cmps, offset : {0}]

Init ==
  /\ len = 0
  /\ branches = << >>
  /\ pinned = [l \in Labels |-> NotPinned]
  /\ fixups = {}
  /\ status = "translating"

Next ==
  \/ \E n \in FillerSizes : PushOthers(n)
  \/ \E l \in Labels, b \in BranchKinds : b.label = l /\ PushBranch(l, b)
  \/ \E l \in Labels : PinLabel(l)

Spec == Init /\ [][Next]_vars

(***************************************************************************)
(* Properties.                                                             *)
(***************************************************************************)

Branch ==
       [kind : {"br"}, label : Labels, offset : I32]
  \cup [kind : {"brcmp"}, label : Labels, cmp : Cmps, offset : I16]
  \cup [kind : {"brcmpfb"}, label : Labels, cmp : Cmps, param : Word64]

TypeOK ==
  /\ len \in 0..MaxInstrs
  /\ DOMAIN branches \subseteq 0..(len - 1)
  /\ \A i \in DOMAIN branches : branches[i] \in Branch
  /\ pinned \in [Labels -> 0..MaxInstrs \cup {NotPinned}]
  /\ fixups \subseteq DOMAIN branches
  /\ status \in {"translating", "BranchOffsetOutOfBounds", "panic"}

(* Every resolved Branch or BranchCmp instruction, taken at index i, jumps *)
(* to the index its label was pinned at: from_src_to_dst, the 16-bit       *)
(* conversion and init keep dst - src intact (spec 8, branch-offset        *)
(* monotonicity).                                                           *)
BranchTargetsCorrect ==
  \A i \in DOMAIN branches \ fixups :
    branches[i].kind \in {"br", "brcmp"} =>
      i + branches[i].offset = pinned[branches[i].label]

(* Every offset of a resolved branch is initialized, i.e. not the 0        *)
(* placeholder (spec 3; from_src_to_dst documents a panic on 0).           *)
FinalizedOffsetsInit ==
  \A i \in DOMAIN branches \ fixups :
    branches[i].kind \in {"br", "brcmp"} => IsInit(branches[i].offset)

(* A BranchCmpFallback decodes, through from_u64, to the comparator and    *)
(* the offset it was built with (spec 8: from_u64(x.as_u64()) = x).        *)
FallbackRoundTrip ==
  \A i \in DOMAIN branches :
    branches[i].kind = "brcmpfb" =>
      FromU64(branches[i].param)
        = Ok([cmp |-> branches[i].cmp,
              offset |-> pinned[branches[i].label] - i])

=============================================================================
