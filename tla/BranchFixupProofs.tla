-------------------------- MODULE BranchFixupProofs --------------------------
(***************************************************************************)
(* Proofs about the translator's branch encoding (BranchFixup), for every  *)
(* set of labels and comparators, every filler size, instruction bound and *)
(* byte range that satisfy the assumptions, and either packing of as_u64.  *)
(***************************************************************************)
EXTENDS BranchFixup, PrimitivesProofs

(* A branch is pending a fix-up exactly while its label is not pinned (a  *)
(* conjunct of the inductive invariant).                                   *)
FixupsPending ==
  status = "translating" =>
    \A i \in DOMAIN branches :
      i \in fixups <=> pinned[branches[i].label] = NotPinned

(* A pending fix-up is a Branch or BranchCmp placeholder: a fallback is   *)
(* only ever made by resolving one.                                        *)
FixupsArePlaceholders == \A i \in fixups : branches[i].kind \in {"br", "brcmp"}

(* The safety properties are not inductive on their own: PinLabel keeps    *)
(* BranchTargetsCorrect only because the resolved branches' labels were    *)
(* pinned already (FixupsPending), and init() keeps the types only because *)
(* what it resolves is a placeholder.                                      *)
IInv ==
  /\ TypeOK
  /\ FixupsPending
  /\ BranchTargetsCorrect
  /\ FixupsArePlaceholders

Errors == {"BranchOffsetOutOfBounds", "panic"}

(***************************************************************************)
(* Lemmas on the resolution of one branch.                                 *)
(***************************************************************************)

(* Resolving a placeholder with an i32 offset gives an instruction of the *)
(* same label, which carries exactly that offset unless it fell back to    *)
(* the packed form.                                                        *)
LEMMA ResolvedFacts ==
  ASSUME NEW b \in Branch, b.kind \in {"br", "brcmp"}, NEW o \in I32
  PROVE  /\ Resolved(b, o) \in Branch
         /\ Resolved(b, o).label = b.label
         /\ Resolved(b, o).kind \in {"br", "brcmp"} => Resolved(b, o).offset = o
<1>1. CASE b.kind = "br"
  <2>1. b \in [kind : {"br"}, label : Labels, offset : I32]
    BY <1>1 DEF Branch
  <2>. QED
    BY <1>1, <2>1 DEF Resolved, Branch
<1>2. CASE b.kind = "brcmp" /\ BranchOffset16TryFrom(o).ok
  <2>1. b \in [kind : {"brcmp"}, label : Labels, cmp : Cmps, offset : I16]
    BY <1>2 DEF Branch
  <2>2. o \in I16
    BY <1>2 DEF BranchOffset16TryFrom, Ok, Err
  <2>. QED
    BY <1>2, <2>1, <2>2 DEF Resolved, Branch
<1>3. CASE b.kind = "brcmp" /\ ~BranchOffset16TryFrom(o).ok
  <2>1. b \in [kind : {"brcmp"}, label : Labels, cmp : Cmps, offset : I16]
    BY <1>3 DEF Branch
  <2>2. AsU64(b.cmp, o) \in Word64
    BY <2>1, PackAssumption
  <2>. QED
    BY <1>3, <2>1, <2>2 DEF Resolved, Branch
<1>. QED
  BY <1>1, <1>2, <1>3

(* init() of the placeholder at index i for target dst either resolves it *)
(* to dst - i, keeping its label, or reports an error of the translator.   *)
LEMMA InitResultFacts ==
  ASSUME NEW i \in Int, NEW dst \in Int,
         branches[i] \in Branch, branches[i].kind \in {"br", "brcmp"}
  PROVE  /\ InitResult(i, dst).ok =>
              /\ InitResult(i, dst).val \in Branch
              /\ InitResult(i, dst).val.label = branches[i].label
              /\ InitResult(i, dst).val.kind \in {"br", "brcmp"} =>
                   InitResult(i, dst).val.offset = dst - i
         /\ ~InitResult(i, dst).ok => InitResult(i, dst).err \in Errors
<1>. DEFINE b == branches[i]
            r == FromSrcToDst(i, dst)
<1>1. CASE ~r.ok
  <2>1. InitResult(i, dst) = Err("BranchOffsetOutOfBounds")
    BY <1>1 DEF InitResult, FromSrcToDst, Ok, Err
  <2>. QED
    BY <2>1 DEF Err, Errors
<1>2. CASE r.ok
  <2>1. r.val = dst - i /\ dst - i \in I32
    BY <1>2 DEF FromSrcToDst, Ok, Err
  <2>2. /\ Resolved(b, dst - i) \in Branch
        /\ Resolved(b, dst - i).label = b.label
        /\ Resolved(b, dst - i).kind \in {"br", "brcmp"} =>
             Resolved(b, dst - i).offset = dst - i
    BY <2>1, ResolvedFacts
  <2>3. CASE b.kind = "br"
    <3>1. \/ BranchOffsetInit(b.offset, r.val) = Ok(r.val)
          \/ BranchOffsetInit(b.offset, r.val) = Panic
      BY DEF BranchOffsetInit
    <3>2. CASE BranchOffsetInit(b.offset, r.val) = Ok(r.val)
      <4>1. InitResult(i, dst) = Ok(Resolved(b, r.val))
        BY <1>2, <2>3, <3>2 DEF InitResult, Ok
      <4>. QED
        BY <2>1, <2>2, <4>1 DEF Ok
    <3>3. CASE BranchOffsetInit(b.offset, r.val) = Panic
      <4>1. InitResult(i, dst) = Panic
        BY <1>2, <2>3, <3>3 DEF InitResult, Panic, Err
      <4>. QED
        BY <4>1 DEF Panic, Err, Errors
    <3>. QED
      BY <3>1, <3>2, <3>3
  <2>4. CASE b.kind = "brcmp"
    <3>1. \/ BranchOffset16Init(b.offset, r.val) = Ok(r.val)
          \/ BranchOffset16Init(b.offset, r.val) = Err("BranchOffsetOutOfBounds")
          \/ BranchOffset16Init(b.offset, r.val) = Panic
      BY DEF BranchOffset16Init, BranchOffset16TryFrom
    <3>2. \/ InitResult(i, dst) = Ok(Resolved(b, dst - i))
          \/ InitResult(i, dst) = Panic
      BY <1>2, <2>1, <2>4, <3>1 DEF InitResult, Ok, Panic, Err
    <3>. QED
      BY <2>2, <3>2 DEF Ok, Panic, Err, Errors
  <2>. QED
    BY <2>3, <2>4
<1>. QED
  BY <1>1, <1>2

(***************************************************************************)
(* One lemma per action.                                                   *)
(***************************************************************************)

(* A run of other instructions only moves the counter. *)
LEMMA PushOthersInv ==
  ASSUME IInv, NEW n \in FillerSizes, PushOthers(n)
  PROVE  IInv'
<1>1. n \in Nat /\ MaxInstrs \in Nat
  BY BranchFixupAssumption, WordSizes
<1>. QED
  BY <1>1 DEF PushOthers, IInv, TypeOK, FixupsPending, BranchTargetsCorrect,
              FixupsArePlaceholders

(* A branch is emitted: resolved at once to a pinned label, or a           *)
(* placeholder registered as a fix-up of an unpinned one.                  *)
LEMMA PushBranchInv ==
  ASSUME IInv, NEW l \in Labels, NEW b \in BranchKinds, b.label = l,
         PushBranch(l, b)
  PROVE  IInv'
<1>. DEFINE r == FromSrcToDst(len, pinned[l])
<1>1. b \in Branch /\ b.kind \in {"br", "brcmp"}
  BY ZeroOffsets DEF BranchKinds, Branch
<1>2. /\ MaxInstrs \in Nat
      /\ status = "translating" /\ len \in 0..(MaxInstrs - 1)
      /\ len' = len + 1 /\ pinned' = pinned
      /\ len \notin DOMAIN branches
  BY BranchFixupAssumption, WordSizes DEF PushBranch, IInv, TypeOK
<1>3. /\ DOMAIN branches \subseteq 0..(len - 1)
      /\ \A i \in DOMAIN branches : branches[i] \in Branch
      /\ pinned \in [Labels -> 0..MaxInstrs \cup {NotPinned}]
      /\ fixups \subseteq DOMAIN branches
      /\ FixupsPending /\ BranchTargetsCorrect /\ FixupsArePlaceholders
  BY DEF IInv, TypeOK
<1>4. CASE pinned[l] /= NotPinned /\ r.ok
  <2>. DEFINE x == Resolved(b, r.val)
  <2>1. r.val = pinned[l] - len /\ r.val \in I32
    BY <1>4 DEF FromSrcToDst, Ok, Err
  <2>2. x \in Branch /\ x.label = l /\ (x.kind \in {"br", "brcmp"} => x.offset = r.val)
    BY <1>1, <2>1, ResolvedFacts
  <2>3. branches' = Append1(branches, len, x) /\ UNCHANGED <<fixups, status>>
    BY <1>4 DEF PushBranch
  <2>4. /\ DOMAIN branches' = DOMAIN branches \cup {len}
        /\ branches'[len] = x
        /\ \A j \in DOMAIN branches : branches'[j] = branches[j]
    BY <1>2, <2>3 DEF Append1
  <2>5. TypeOK'
    BY <1>2, <1>3, <2>2, <2>3, <2>4 DEF TypeOK
  <2>6. FixupsPending'
    BY <1>2, <1>3, <1>4, <2>2, <2>3, <2>4 DEF FixupsPending
  <2>7. BranchTargetsCorrect'
    <3>. SUFFICES ASSUME NEW j \in DOMAIN branches' \ fixups',
                        branches'[j].kind \in {"br", "brcmp"}
                 PROVE  j + branches'[j].offset = pinned'[branches'[j].label]
      BY DEF BranchTargetsCorrect
    <3>1. CASE j = len
      <4>0. pinned[l] \in Int /\ len \in Int
        BY <1>2, <1>3 DEF NotPinned
      <4>1. len + r.val = pinned[l]
        BY <2>1, <4>0
      <4>. QED
        BY <1>2, <2>2, <2>4, <3>1, <4>1
    <3>2. CASE j /= len
      BY <1>2, <1>3, <2>3, <2>4, <3>2 DEF BranchTargetsCorrect
    <3>. QED
      BY <3>1, <3>2
  <2>8. FixupsArePlaceholders'
    BY <1>2, <1>3, <2>3, <2>4 DEF FixupsArePlaceholders
  <2>. QED
    BY <2>5, <2>6, <2>7, <2>8 DEF IInv
<1>5. CASE pinned[l] /= NotPinned /\ ~r.ok
  <2>1. r.err = "BranchOffsetOutOfBounds"
    BY <1>5 DEF FromSrcToDst, Ok, Err
  <2>2. status' = "BranchOffsetOutOfBounds" /\ UNCHANGED <<branches, fixups>>
    BY <1>5, <2>1 DEF PushBranch
  <2>3. TypeOK'
    <3>1. len' \in 0..MaxInstrs /\ DOMAIN branches' \subseteq 0..(len' - 1)
      BY <1>2, <1>3, <2>2
    <3>2. \A i \in DOMAIN branches' : branches'[i] \in Branch
      BY <1>3, <2>2
    <3>3. pinned' \in [Labels -> 0..MaxInstrs \cup {NotPinned}]
      BY <1>2, <1>3
    <3>4. fixups' \subseteq DOMAIN branches'
      BY <1>3, <2>2
    <3>5. status' \in {"translating", "BranchOffsetOutOfBounds", "panic"}
      BY <2>2
    <3>. QED
      BY <3>1, <3>2, <3>3, <3>4, <3>5 DEF TypeOK
  <2>4. FixupsPending'
    BY <2>2 DEF FixupsPending
  <2>5. BranchTargetsCorrect' /\ FixupsArePlaceholders'
    BY <1>2, <1>3, <2>2 DEF BranchTargetsCorrect, FixupsArePlaceholders
  <2>. QED
    BY <2>3, <2>4, <2>5 DEF IInv
<1>6. CASE pinned[l] = NotPinned
  <2>1. branches' = Append1(branches, len, b) /\ fixups' = fixups \cup {len}
        /\ UNCHANGED status
    BY <1>6 DEF PushBranch
  <2>2. /\ DOMAIN branches' = DOMAIN branches \cup {len}
        /\ branches'[len] = b
        /\ \A j \in DOMAIN branches : branches'[j] = branches[j]
    BY <1>2, <2>1 DEF Append1
  <2>3. TypeOK'
    BY <1>1, <1>2, <1>3, <2>1, <2>2 DEF TypeOK
  <2>4. FixupsPending'
    BY <1>2, <1>3, <1>6, <2>1, <2>2 DEF FixupsPending
  <2>5. BranchTargetsCorrect'
    BY <1>2, <1>3, <2>1, <2>2 DEF BranchTargetsCorrect
  <2>6. FixupsArePlaceholders'
    BY <1>1, <1>2, <1>3, <2>1, <2>2 DEF FixupsArePlaceholders
  <2>. QED
    BY <2>3, <2>4, <2>5, <2>6 DEF IInv
<1>. QED
  BY <1>4, <1>5, <1>6

------------------------------------------------------------------------

(* Pinning a label init()s every fix-up of that label to the pinned index, *)
(* or ends the translation with the error of one of them.                  *)
LEMMA PinLabelInv ==
  ASSUME IInv, NEW l \in Labels, PinLabel(l)
  PROVE  IInv'
<1>. DEFINE users  == {i \in fixups : branches[i].label = l}
            failed == {i \in users : ~InitResult(i, len).ok}
<1>1. /\ MaxInstrs \in Nat /\ len \in 0..MaxInstrs
      /\ status = "translating" /\ pinned[l] = NotPinned
      /\ pinned' = [pinned EXCEPT ![l] = len] /\ len' = len
  BY BranchFixupAssumption, WordSizes DEF PinLabel, IInv, TypeOK
<1>2. /\ DOMAIN branches \subseteq 0..(len - 1)
      /\ \A i \in DOMAIN branches : branches[i] \in Branch
      /\ pinned \in [Labels -> 0..MaxInstrs \cup {NotPinned}]
      /\ fixups \subseteq DOMAIN branches
      /\ FixupsPending /\ BranchTargetsCorrect /\ FixupsArePlaceholders
  BY DEF IInv, TypeOK
<1>3. pinned' \in [Labels -> 0..MaxInstrs \cup {NotPinned}]
  BY <1>1, <1>2
<1>4. ASSUME NEW i \in users
      PROVE  /\ i \in Int /\ branches[i].label = l
             /\ InitResult(i, len).ok =>
                  /\ InitResult(i, len).val \in Branch
                  /\ InitResult(i, len).val.label = l
                  /\ InitResult(i, len).val.kind \in {"br", "brcmp"} =>
                       InitResult(i, len).val.offset = len - i
             /\ ~InitResult(i, len).ok => InitResult(i, len).err \in Errors
  <2>1. i \in Int /\ branches[i] \in Branch /\ branches[i].label = l
        /\ branches[i].kind \in {"br", "brcmp"}
    BY <1>2 DEF FixupsArePlaceholders
  <2>. QED
    BY <1>1, <2>1, InitResultFacts
(* Resolved branches were pinned before, so their label is not l. *)
<1>5. \A j \in DOMAIN branches \ fixups :
        branches[j].label /= l /\ pinned'[branches[j].label] = pinned[branches[j].label]
  <2>. SUFFICES ASSUME NEW j \in DOMAIN branches \ fixups
                PROVE  branches[j].label /= l
    BY <1>1, <1>2 DEF Branch
  <2>. QED
    BY <1>1, <1>2 DEF FixupsPending
<1>6. CASE failed = {}
  <2>1. /\ branches' = [i \in DOMAIN branches |->
                          IF i \in users THEN InitResult(i, len).val
                          ELSE branches[i]]
        /\ fixups' = fixups \ users /\ status' = status
    BY <1>6 DEF PinLabel
  <2>2. \A i \in users : InitResult(i, len).ok
    BY <1>6
  <2>3. /\ DOMAIN branches' = DOMAIN branches
        /\ \A i \in DOMAIN branches :
             branches'[i] \in Branch /\ branches'[i].label = branches[i].label
    BY <1>2, <1>4, <2>1, <2>2
  <2>4. TypeOK'
    BY <1>1, <1>2, <1>3, <2>1, <2>3 DEF TypeOK
  <2>5. FixupsPending'
    <3>. SUFFICES ASSUME NEW i \in DOMAIN branches'
                  PROVE  i \in fixups' <=> pinned'[branches'[i].label] = NotPinned
      BY DEF FixupsPending
    <3>0. i \in DOMAIN branches
      BY <2>3
    <3>1. branches[i] \in Branch /\ branches'[i].label = branches[i].label
      BY <1>2, <2>3, <3>0
    <3>2. CASE branches[i].label = l
      <4>1. pinned'[l] = len /\ len /= NotPinned
        BY <1>1, <1>2 DEF NotPinned
      <4>. QED
        BY <2>1, <3>1, <3>2, <4>1
    <3>3. CASE branches[i].label /= l
      <4>1. branches[i].label \in Labels
        BY <3>1 DEF Branch
      <4>. QED
        BY <1>1, <1>2, <2>1, <2>3, <3>1, <3>3, <4>1 DEF FixupsPending
    <3>. QED
      BY <3>2, <3>3
  <2>6. BranchTargetsCorrect'
    <3>. SUFFICES ASSUME NEW j \in DOMAIN branches' \ fixups',
                        branches'[j].kind \in {"br", "brcmp"}
                 PROVE  j + branches'[j].offset = pinned'[branches'[j].label]
      BY DEF BranchTargetsCorrect
    <3>1. CASE j \in users
      <4>1. branches'[j] = InitResult(j, len).val
        BY <2>1, <3>1
      <4>2. branches'[j].offset = len - j /\ branches'[j].label = l /\ j \in Int
        BY <1>4, <2>2, <3>1, <4>1
      <4>3. pinned'[l] = len
        BY <1>1, <1>2
      <4>. QED
        BY <1>1, <4>2, <4>3
    <3>2. CASE j \notin users
      <4>1. j \in DOMAIN branches \ fixups /\ branches'[j] = branches[j]
        BY <2>1, <2>3, <3>2
      <4>. QED
        BY <1>2, <1>5, <4>1 DEF BranchTargetsCorrect
    <3>. QED
      BY <3>1, <3>2
  <2>7. FixupsArePlaceholders'
    BY <1>2, <2>1 DEF FixupsArePlaceholders
  <2>. QED
    BY <2>4, <2>5, <2>6, <2>7 DEF IInv
<1>7. CASE failed /= {}
  <2>1. PICK i \in failed : status' = InitResult(i, len).err
    BY <1>7 DEF PinLabel
  <2>2. UNCHANGED <<branches, fixups>>
    BY <1>7 DEF PinLabel
  <2>3. status' \in Errors
    BY <1>4, <2>1
  <2>4. TypeOK'
    BY <1>1, <1>2, <1>3, <2>2, <2>3 DEF TypeOK, Errors
  <2>5. FixupsPending'
    BY <2>3 DEF FixupsPending, Errors
  <2>6. BranchTargetsCorrect'
    BY <1>2, <1>5, <2>2 DEF BranchTargetsCorrect
  <2>7. FixupsArePlaceholders'
    BY <1>2, <2>2 DEF FixupsArePlaceholders
  <2>. QED
    BY <2>4, <2>5, <2>6, <2>7 DEF IInv
<1>. QED
  BY <1>6, <1>7

(***************************************************************************)
(* The inductive invariant and the theorems.                               *)
(***************************************************************************)

LEMMA InitInv == Init => IInv
<1>. SUFFICES ASSUME Init PROVE IInv
  OBVIOUS
<1>1. MaxInstrs \in Nat /\ DOMAIN branches = {}
  BY BranchFixupAssumption, WordSizes DEF Init
<1>. QED
  BY <1>1 DEF Init, IInv, TypeOK, FixupsPending, BranchTargetsCorrect,
              FixupsArePlaceholders, NotPinned

LEMMA IInvStep == IInv /\ [Next]_vars => IInv'
<1>. SUFFICES ASSUME IInv, [Next]_vars PROVE IInv'
  OBVIOUS
<1>1. CASE \E n \in FillerSizes : PushOthers(n)
  BY <1>1, PushOthersInv
<1>2. CASE \E l \in Labels, b \in BranchKinds : b.label = l /\ PushBranch(l, b)
  BY <1>2, PushBranchInv
<1>3. CASE \E l \in Labels : PinLabel(l)
  BY <1>3, PinLabelInv
<1>4. CASE UNCHANGED vars
  BY <1>4 DEF vars, IInv, TypeOK, FixupsPending, BranchTargetsCorrect,
              FixupsArePlaceholders
<1>. QED
  BY <1>1, <1>2, <1>3, <1>4 DEF Next

(* Every instruction the translator has emitted is well formed at every    *)
(* step: a Branch carries an i32 offset, a BranchCmp an i16 offset and a   *)
(* BranchCmpFallback a u64 parameter, whatever the labels, comparators and  *)
(* bounds.                                                                 *)
THEOREM BranchTypeCorrect == Spec => []TypeOK
<1>1. Init => IInv
  BY InitInv
<1>2. IInv /\ [Next]_vars => IInv'
  BY IInvStep
<1>3. IInv => TypeOK
  BY DEF IInv
<1>. QED
  BY <1>1, <1>2, <1>3, PTL DEF Spec

(* Every resolved Branch or BranchCmp jumps to the index its label was     *)
(* pinned at, whether resolved at once by from_src_to_dst or later by a    *)
(* fix-up's init(), for every value of the constants.                      *)
THEOREM BranchTargets == Spec => []BranchTargetsCorrect
<1>1. Init => IInv
  BY InitInv
<1>2. IInv /\ [Next]_vars => IInv'
  BY IInvStep
<1>3. IInv => BranchTargetsCorrect
  BY DEF IInv
<1>. QED
  BY <1>1, <1>2, <1>3, PTL DEF Spec

=============================================================================
