-------------------------- MODULE BlobVolumeProofs --------------------------
(***************************************************************************)
(* Proofs about BlobVolume, for every headroom, hysteresis, cap and number *)
(* of overlapping passes: no sequence of resizes, failed commands, crashes *)
(* and reboots lets the filesystem reach past its backing store, loses     *)
(* what is stored, or shrinks into a reservation.                          *)
(***************************************************************************)
EXTENDS BlobVolume, TLAPS

LEMMA Sized ==
  /\ headroomBytes \in Nat /\ shrinkHysteresisBytes \in Nat \ {0}
  /\ maxSizeBytes \in Nat
BY SizeAssumption

LEMMA ClampType == \A n \in Nat : clamp(n) \in Nat
BY Sized DEF clamp

LEMMA TargetType == TypeOK => Target \in Nat /\ Reserved \in Nat
<1> SUFFICES ASSUME TypeOK PROVE Target \in Nat /\ Reserved \in Nat
  OBVIOUS
<1>1. Reserved \in Nat
  BY DEF TypeOK, Reserved, Keys
<1>2. Larger(used + headroomBytes + Reserved, floor) \in Nat
  BY <1>1, Sized DEF TypeOK, Larger
<1> QED BY <1>1, <1>2, ClampType DEF Target

LEMMA TypeInit == Init => TypeOK
<1> SUFFICES ASSUME Init PROVE TypeOK
  OBVIOUS
<1>1. Off \in Ops
  BY DEF Off, Ops, Steps
<1>2. IdlePass \in PassRecords
  BY DEF IdlePass, PassRecords, Keys
<1> QED BY <1>1, <1>2 DEF Init, TypeOK, Sizes, Absent

\* Dispatching a batch keeps a pass record well-formed.
LEMMA DispatchedType ==
  ASSUME NEW r \in PassRecords, NEW told \in BOOLEAN
  PROVE  Dispatched(r, told) \in PassRecords
BY DEF Dispatched, PassRecords, Keys

LEMMA OffType == Off \in Ops
BY DEF Off, Ops, Steps

LEMMA GotoType ==
  ASSUME op \in Ops, NEW s \in Steps
  PROVE  [op EXCEPT !.step = s] \in Ops
BY DEF Ops

LEMMA FaultType == TypeOK /\ (Fault \/ UNCHANGED faults) => faults' \in Nat
BY DEF TypeOK, Fault

\* Every step keeps every variable in its type.
LEMMA TypeStep == TypeOK /\ [Next]_vars => TypeOK'
<1> SUFFICES ASSUME TypeOK, [Next]_vars PROVE TypeOK'
  OBVIOUS
<1> USE DEF TypeOK
<1>1. ASSUME NEW by \in Passes \cup {"watch"}, EnsureCapacity(by) PROVE TypeOK'
  <2>1. ASSUME NEW s \in Steps, NEW n \in Nat
        PROVE  [step |-> s, new |-> image = Absent, target |-> n,
                base |-> used, by |-> by] \in Ops
    BY DEF Ops
  <2>2. op' \in Ops
    <3>1. clamp(headroomBytes) \in Nat /\ Target \in Nat
      BY Sized, ClampType, TargetType
    <3> QED BY <1>1, <2>1, <3>1 DEF EnsureCapacity, Enter, Steps
  <2> QED BY <1>1, <2>2 DEF EnsureCapacity, storage
<1>2. CASE TruncNew \/ GrowTrunc \/ ShrinkTrunc
  <2>1. op.target \in Sizes
    BY DEF Ops, Sizes
  <2>2. op' \in Ops
    BY <1>2, GotoType DEF TruncNew, GrowTrunc, ShrinkTrunc, Goto, Steps
  <2> QED BY <1>2, <2>1, <2>2 DEF TruncNew, GrowTrunc, ShrinkTrunc
<1>3. CASE Attach \/ GrowLoop \/ ShrinkLoop
  <2>1. op' \in Ops
    BY <1>3, GotoType DEF Attach, GrowLoop, ShrinkLoop, Goto, Steps
  <2> QED BY <1>3, <2>1 DEF Attach, GrowLoop, ShrinkLoop
<1>4. CASE Mkfs \/ Mount \/ Subvolume \/ GrowFs \/ ShrinkFs
  <2>1. op.target \in Sizes
    BY DEF Ops, Sizes
  <2>2. op' \in Ops
    BY <1>4, GotoType DEF Mkfs, Mount, Subvolume, GrowFs, ShrinkFs, Goto, Steps
  <2>3. used' \in Nat
    BY <1>4 DEF Mkfs, Mount, Subvolume, GrowFs, ShrinkFs
  <2> QED BY <1>4, <2>1, <2>2, <2>3 DEF Mkfs, Mount, Subvolume, GrowFs, ShrinkFs
<1>5. CASE Statvfs \/ Fits \/ CallFails
  <2>1. pass' \in [Passes -> PassRecords]
    <3>1. CASE op.by = "watch"
      BY <1>5, <3>1 DEF Statvfs, Fits, Return, CallFails
    <3>2. CASE op.by # "watch"
      <4>1. op.by \in Passes
        BY <3>2 DEF Ops
      <4> DEFINE r == pass[op.by]
      <4>2. /\ Dispatched(r, Free >= r.ask) \in PassRecords
            /\ Dispatched(r, fs - op.base >= r.ask) \in PassRecords
            /\ Dispatched(r, FALSE) \in PassRecords
        <5>1. r \in PassRecords
          BY <4>1
        <5>2. Free \in Int /\ fs - op.base \in Int /\ r.ask \in Int
          BY <5>1 DEF Free, Sizes, Absent, PassRecords, Ops
        <5>3. (Free >= r.ask) \in BOOLEAN /\ (fs - op.base >= r.ask) \in BOOLEAN
          BY <5>2
        <5> HIDE DEF r
        <5> QED BY <5>1, <5>3, DispatchedType
      <4>3. CASE Statvfs \/ Fits
        BY <3>2, <4>1, <4>2, <4>3 DEF Statvfs, Fits, Return
      <4>4. CASE CallFails
        BY <3>2, <4>1, <4>2, <4>4 DEF CallFails
      <4> QED BY <1>5, <4>3, <4>4
    <3> QED BY <3>1, <3>2
  <2>2. faults' \in Nat
    <3>1. Fault \/ UNCHANGED faults
      BY <1>5 DEF Statvfs, Fits, Return, CallFails
    <3> QED BY <3>1, FaultType
  <2> QED BY <1>5, <2>1, <2>2, OffType DEF Statvfs, Fits, Return, CallFails, storage
<1>6. ASSUME NEW n \in 1 .. MaxFloor, SetFloor(n) PROVE TypeOK'
  BY <1>6, BoundAssumption DEF SetFloor, storage
<1>7. ASSUME NEW k \in Keys, Lapse(k) PROVE TypeOK'
  <2>1. faults' \in Nat /\ resv' \in [Keys -> Nat]
    BY <1>7 DEF Lapse, Fault
  <2> QED BY <1>7, <2>1 DEF Lapse, storage
<1>8. ASSUME NEW p \in Passes, NEW n \in 1 .. MaxBatch, Reserve(p, n) PROVE TypeOK'
  <2>1. n \in Nat
    BY BoundAssumption
  <2>2. pass' \in [Passes -> PassRecords]
    BY <1>8, <2>1 DEF Reserve, PassRecords
  <2>3. resv' \in [Keys -> Nat]
    BY <1>8, <2>1 DEF Reserve, PassRecords
  <2> QED BY <1>8, <2>2, <2>3 DEF Reserve, storage
<1>9. ASSUME NEW p \in Passes, NEW k \in Keys, Write(p, k) PROVE TypeOK'
  <2>1. pass[p].left[k] - 1 \in Nat
    BY <1>9 DEF Write, PassRecords
  <2>2. pass' \in [Passes -> PassRecords]
    BY <1>9, <2>1 DEF Write, PassRecords
  <2>3. used' \in Nat
    BY <1>9 DEF Write
  <2> QED BY <1>9, <2>2, <2>3 DEF Write, storage
<1>10. ASSUME NEW p \in Passes, ReserveTimeout(p) PROVE TypeOK'
  <2>1. pass' \in [Passes -> PassRecords]
    BY <1>10, DispatchedType DEF ReserveTimeout
  <2>2. faults' \in Nat
    BY <1>10 DEF ReserveTimeout, Fault
  <2> QED BY <1>10, <2>1, <2>2 DEF ReserveTimeout, storage
<1>11. ASSUME NEW p \in Passes, PassStart(p) \/ SkipBatch(p) PROVE TypeOK'
  <2>1. pass' \in [Passes -> PassRecords]
    <3>1. CASE PassStart(p)
      BY <3>1 DEF PassStart, PassRecords
    <3>2. CASE SkipBatch(p)
      <4>1. PICK pc \in {"draining", "resolving"} :
                pass' = [pass EXCEPT ![p].pc = pc, ![p].key = "workshop"]
        BY <3>2 DEF SkipBatch
      <4>2. [pass[p] EXCEPT !.pc = pc, !.key = "workshop"] \in PassRecords
        BY <4>1 DEF PassRecords, Keys
      <4>3. pass' = [pass EXCEPT ![p] = [pass[p] EXCEPT !.pc = pc, !.key = "workshop"]]
        BY <4>1
      <4> QED BY <4>2, <4>3
    <3> QED BY <1>11, <3>1, <3>2
  <2> QED BY <1>11, <2>1 DEF PassStart, SkipBatch, storage
<1>12. ASSUME NEW p \in Passes, PassDone(p) \/ ReleaseSecond(p) \/ PassFail(p)
       PROVE  TypeOK'
  <2>1. IdlePass \in PassRecords /\ [IdlePass EXCEPT !.pc = "releasing"] \in PassRecords
    BY DEF IdlePass, PassRecords, Keys
  <2>2. pass' \in [Passes -> PassRecords]
    BY <1>12, <2>1 DEF PassDone, ReleaseSecond, PassFail
  <2>3. resv' \in [Keys -> Nat]
    BY <1>12 DEF PassDone, ReleaseSecond, PassFail, Keys
  <2>4. faults' \in Nat
    BY <1>12 DEF PassDone, ReleaseSecond, PassFail, Fault
  <2> QED BY <1>12, <2>2, <2>3, <2>4 DEF PassDone, ReleaseSecond, PassFail, storage
<1>13. CASE OtherWrite \/ Delete
  <2>1. used' \in Nat /\ other' \in Nat
    BY <1>13 DEF OtherWrite, Delete
  <2> QED BY <1>13, <2>1 DEF OtherWrite, Delete, storage
<1>14. CASE Crash \/ Reboot
  <2>1. IdlePass \in PassRecords
    BY DEF IdlePass, PassRecords, Keys
  <2>2. pass' \in [Passes -> PassRecords]
    BY <1>14, <2>1, DispatchedType DEF Crash, Reboot
  <2>3. faults' \in Nat
    BY <1>14, FaultType DEF Crash, Reboot
  <2>4. resv' = [k \in Keys |-> 0] /\ floor' = 0 /\ used' = used /\ other' = other
    BY <1>14 DEF Crash, Reboot
  <2>5. op' \in Ops
    BY <1>14, OffType DEF Crash, Reboot
  <2>6. image' \in Sizes /\ loop' \in Sizes /\ fs' \in Sizes
    BY <1>14 DEF Crash, Reboot, storage, Sizes, Absent
  <2>7. mounted' \in BOOLEAN /\ content' \in BOOLEAN
    BY <1>14 DEF Crash, Reboot, storage
  <2> QED BY <2>2, <2>3, <2>4, <2>5, <2>6, <2>7
<1>15. CASE UNCHANGED vars
  BY <1>15 DEF vars
<1> QED
  BY <1>1, <1>2, <1>3, <1>4, <1>5, <1>6, <1>7, <1>8, <1>9, <1>10, <1>11, <1>12, <1>13,
     <1>14, <1>15 DEF Next, Command, PassStep

(***************************************************************************)
(* Type correctness of blob.Manager's state and the storage under it.      *)
(***************************************************************************)
THEOREM TypeCorrect == Spec => []TypeOK
BY TypeInit, TypeStep, PTL DEF Spec

-----------------------------------------------------------------------------
\* What each command of a resize may rely on: what the commands before it in
\* the same call did, which nobody else undoes because mu is held.
OpInv ==
  /\ op.step = "truncNew" => image = Absent
  /\ op.step \in {"attach", "mkfs"} => image # Absent /\ (op.new => fs = Absent)
  /\ op.step = "mkfs" => op.new /\ loop # Absent
  /\ op.step = "mount" => loop # Absent
  /\ op.step \in {"growTrunc", "growLoop", "growFs",
                  "shrinkFs", "shrinkTrunc", "shrinkLoop"} => mounted
  /\ op.step = "growTrunc" => fs <= op.target
  /\ op.step = "growFs" => loop = image
  /\ op.step = "shrinkFs" => op.target <= fs
  /\ op.step \in {"shrinkTrunc", "shrinkLoop"} => fs = op.target

\* What is on the node: nothing without an image file, a loop device over an
\* unformatted image shows the image, only a filesystem can be mounted.
DiskInv ==
  /\ image = Absent => loop = Absent /\ fs = Absent
  /\ fs = Absent => used = 0 /\ ~ mounted /\ (loop # Absent => loop = image)
  /\ mounted => loop # Absent

\* A shrink's target counts everything reserved: the map is frozen by mu.
ShrinkInv ==
  op.step = "shrinkFs" =>
    op.target = clamp(Larger(op.base + headroomBytes + Reserved, floor))

BlobInv == FsFits /\ OpInv /\ DiskInv /\ ShrinkInv

LEMMA BlobInit == Init => BlobInv
BY DEF Init, BlobInv, FsFits, OpInv, DiskInv, ShrinkInv, Off, Absent

\* A step of the rest of the node: storage and the call on it stay put.
LEMMA QuietStep ==
  ASSUME TypeOK, BlobInv, UNCHANGED <<storage, op>>,
         fs = Absent => used' = 0,
         op.step = "shrinkFs" => UNCHANGED <<resv, floor>>
  PROVE  BlobInv'
<1>1. FsFits' /\ OpInv'
  BY DEF BlobInv, FsFits, OpInv, storage
<1>2. DiskInv'
  BY DEF BlobInv, DiskInv, storage
<1>3. ShrinkInv'
  BY DEF BlobInv, ShrinkInv, storage, Reserved
<1> QED BY <1>1, <1>2, <1>3 DEF BlobInv

\* A call ends, and the storage stays as it is or loses only its loop device.
LEMMA OffStep ==
  ASSUME TypeOK, BlobInv, op' = Off, UNCHANGED <<image, fs, used>>,
         \/ UNCHANGED <<loop, mounted>>
         \/ loop' = Absent /\ mounted' = FALSE
  PROVE  BlobInv'
<1>1. OpInv' /\ ShrinkInv'
  BY DEF OpInv, ShrinkInv, Off
<1>2. FsFits' /\ DiskInv'
  BY DEF BlobInv, FsFits, DiskInv
<1> QED BY <1>1, <1>2 DEF BlobInv

LEMMA StepOf ==
  ASSUME TypeOK, NEW s, Goto(s)
  PROVE  /\ op'.step = s /\ op'.new = op.new /\ op'.target = op.target
         /\ op'.base = op.base /\ op'.by = op.by
BY DEF TypeOK, Ops, Goto

\* Taking mu and deciding.
LEMMA EnterStep ==
  ASSUME TypeOK, BlobInv, NEW by \in Passes \cup {"watch"}, EnsureCapacity(by)
  PROVE  BlobInv'
<1> USE DEF TypeOK
<1>1. UNCHANGED <<storage, used, resv, floor>>
  BY DEF EnsureCapacity, storage
<1>2. FsFits' /\ DiskInv'
  BY <1>1 DEF BlobInv, FsFits, DiskInv, storage
<1>3. CASE ~ mounted
  <2>1. /\ op'.step = (IF image = Absent THEN "truncNew" ELSE "attach")
        /\ op'.new = (image = Absent)
    BY <1>3 DEF EnsureCapacity, Enter
  <2> QED BY <1>1, <1>2, <2>1 DEF BlobInv, OpInv, ShrinkInv, storage
<1>4. CASE mounted
  <2>1. /\ op'.step = (IF Target > fs THEN "growTrunc"
                       ELSE IF fs - Target >= shrinkHysteresisBytes THEN "shrinkFs"
                       ELSE "fits")
        /\ op'.target = Target
        /\ op'.base = used
    BY <1>4 DEF EnsureCapacity, Enter
  <2>2. Target \in Nat /\ fs \in Nat
    <3>1. fs # Absent
      BY <1>4 DEF BlobInv, DiskInv
    <3> QED BY <3>1, TargetType DEF Sizes
  <2>3. OpInv'
    BY <1>1, <1>4, <2>1, <2>2, Sized DEF OpInv, storage
  <2>4. ShrinkInv'
    <3>1. Reserved' = Reserved /\ floor' = floor
      BY <1>1 DEF Reserved
    <3> QED BY <2>1, <3>1 DEF ShrinkInv, Target
  <2> QED BY <1>2, <2>3, <2>4 DEF BlobInv
<1> QED BY <1>3, <1>4

\* Every command keeps the invariant.
LEMMA CommandStep ==
  ASSUME TypeOK, BlobInv, Command
  PROVE  BlobInv'
<1> USE DEF TypeOK, Sizes, Absent
<1>1. CASE TruncNew
  <2>1. op.target \in Nat
    BY DEF Ops
  <2>2. op'.step = "attach" /\ op'.new = op.new
    BY <1>1, StepOf DEF TruncNew
  <2> QED BY <1>1, <2>1, <2>2 DEF TruncNew, BlobInv, FsFits, OpInv, DiskInv, ShrinkInv
<1>2. CASE Attach
  <2>1. op'.step = (IF op.new THEN "mkfs" ELSE "mount") /\ op'.new = op.new
    BY <1>2, StepOf DEF Attach
  <2> QED BY <1>2, <2>1 DEF Attach, BlobInv, FsFits, OpInv, DiskInv, ShrinkInv
<1>3. CASE Mkfs
  <2>1. op'.step = "mount"
    BY <1>3, StepOf DEF Mkfs
  <2> QED BY <1>3, <2>1 DEF Mkfs, BlobInv, FsFits, OpInv, DiskInv, ShrinkInv
<1>4. CASE Mount
  <2>1. op'.step = "subvolume"
    BY <1>4, StepOf DEF Mount
  <2> QED BY <1>4, <2>1 DEF Mount, BlobInv, FsFits, OpInv, DiskInv, ShrinkInv
<1>5. CASE Subvolume
  <2>1. op'.step = "statvfs"
    BY <1>5, StepOf DEF Subvolume
  <2> QED BY <1>5, <2>1 DEF Subvolume, BlobInv, FsFits, OpInv, DiskInv, ShrinkInv
<1>6. CASE GrowTrunc
  <2>1. op'.step = "growLoop" /\ op.target \in Nat
    BY <1>6, StepOf DEF GrowTrunc, Ops
  <2> QED BY <1>6, <2>1 DEF GrowTrunc, BlobInv, FsFits, OpInv, DiskInv, ShrinkInv
<1>7. CASE GrowLoop
  <2>1. op'.step = "growFs"
    BY <1>7, StepOf DEF GrowLoop
  <2> QED BY <1>7, <2>1 DEF GrowLoop, BlobInv, FsFits, OpInv, DiskInv, ShrinkInv
<1>8. CASE GrowFs
  <2>1. op'.step = "statvfs"
    BY <1>8, StepOf DEF GrowFs
  <2> QED BY <1>8, <2>1 DEF GrowFs, BlobInv, FsFits, OpInv, DiskInv, ShrinkInv
<1>9. CASE ShrinkFs
  <2>1. op'.step = "shrinkTrunc" /\ op'.target = op.target /\ op.target \in Nat
    BY <1>9, StepOf DEF ShrinkFs, Ops
  <2> QED BY <1>9, <2>1 DEF ShrinkFs, BlobInv, FsFits, OpInv, DiskInv, ShrinkInv
<1>10. CASE ShrinkTrunc
  <2>1. op'.step = "shrinkLoop" /\ op'.target = op.target /\ op.target \in Nat
    BY <1>10, StepOf DEF ShrinkTrunc, Ops
  <2> QED BY <1>10, <2>1 DEF ShrinkTrunc, BlobInv, FsFits, OpInv, DiskInv, ShrinkInv
<1>11. CASE ShrinkLoop
  <2>1. op'.step = "statvfs"
    BY <1>11, StepOf DEF ShrinkLoop
  <2> QED BY <1>11, <2>1 DEF ShrinkLoop, BlobInv, FsFits, OpInv, DiskInv, ShrinkInv
<1>12. CASE Statvfs \/ Fits
  BY <1>12, OffStep DEF Statvfs, Fits, Return, storage
<1> QED
  BY <1>1, <1>2, <1>3, <1>4, <1>5, <1>6, <1>7, <1>8, <1>9, <1>10, <1>11, <1>12 DEF Command

LEMMA BlobStep == TypeOK /\ BlobInv /\ [Next]_vars => BlobInv'
<1> SUFFICES ASSUME TypeOK, BlobInv, [Next]_vars PROVE BlobInv'
  OBVIOUS
<1>1. ASSUME NEW by \in Passes \cup {"watch"}, EnsureCapacity(by) PROVE BlobInv'
  BY <1>1, EnterStep
<1>2. CASE Command
  BY <1>2, CommandStep
<1>3. CASE CallFails \/ Crash \/ Reboot
  BY <1>3, OffStep DEF CallFails, Crash, Reboot, storage
<1>4. ASSUME NEW n, SetFloor(n) PROVE BlobInv'
  BY <1>4, QuietStep DEF SetFloor, BlobInv, DiskInv
<1>5. ASSUME NEW k, Lapse(k) PROVE BlobInv'
  BY <1>5, QuietStep DEF Lapse, BlobInv, DiskInv
<1>6. ASSUME NEW p \in Passes, NEW n, Reserve(p, n) PROVE BlobInv'
  BY <1>6, QuietStep DEF Reserve, BlobInv, DiskInv
<1>7. ASSUME NEW p \in Passes, PassDone(p) \/ ReleaseSecond(p) PROVE BlobInv'
  BY <1>7, QuietStep DEF PassDone, ReleaseSecond, BlobInv, DiskInv
<1>8. ASSUME NEW p \in Passes, PassStart(p) \/ SkipBatch(p) \/ ReserveTimeout(p) \/ PassFail(p)
      PROVE BlobInv'
  BY <1>8, QuietStep DEF PassStart, SkipBatch, ReserveTimeout, PassFail, BlobInv, DiskInv
<1>9. ASSUME NEW p \in Passes, NEW k, Write(p, k) PROVE BlobInv'
  <2>1. fs # Absent
    BY <1>9 DEF Write, Free, TypeOK, Absent, Sizes
  <2> QED BY <1>9, <2>1, QuietStep DEF Write
<1>10. CASE OtherWrite \/ Delete
  <2>1. fs # Absent
    BY <1>10 DEF OtherWrite, Delete, BlobInv, DiskInv
  <2> QED BY <1>10, <2>1, QuietStep DEF OtherWrite, Delete
<1>11. CASE UNCHANGED vars
  BY <1>11, QuietStep DEF vars, storage, BlobInv, DiskInv
<1> QED
  BY <1>1, <1>2, <1>3, <1>4, <1>5, <1>6, <1>7, <1>8, <1>9, <1>10, <1>11
     DEF Next, PassStep

LEMMA Inductive == Spec => [](TypeOK /\ BlobInv)
<1>1. Init => TypeOK /\ BlobInv
  BY TypeInit, BlobInit
<1>2. TypeOK /\ BlobInv /\ [Next]_vars => (TypeOK /\ BlobInv)'
  BY TypeStep, BlobStep
<1> QED BY <1>1, <1>2, PTL DEF Spec

(***************************************************************************)
(* growTo's and shrinkTo's command orders are safe (blob.go): wherever a   *)
(* resize is cut off, the filesystem fits its image and its loop device,   *)
(* for every size, cap and number of passes.                               *)
(***************************************************************************)
THEOREM FilesystemFits == Spec => []FsFits
<1>1. BlobInv => FsFits
  BY DEF BlobInv
<1> QED BY <1>1, Inductive, PTL

\* The steps that leave size, content and usage alone, or change only usage.
LEMMA StorageKept ==
  ASSUME TypeOK, BlobInv, [Next]_vars, ~ Command
  PROVE  /\ fs' = fs /\ content' = content
         /\ used' >= used - 1
<1> USE DEF TypeOK
<1>1. ASSUME NEW by, EnsureCapacity(by) PROVE UNCHANGED <<fs, content, used>>
  BY <1>1 DEF EnsureCapacity, storage
<1>2. CallFails \/ Crash \/ Reboot => UNCHANGED <<fs, content, used>>
  BY DEF CallFails, Crash, Reboot, storage
<1>3. ASSUME NEW n, SetFloor(n) PROVE UNCHANGED <<fs, content, used>>
  BY <1>3 DEF SetFloor, storage
<1>4. ASSUME NEW k, Lapse(k) PROVE UNCHANGED <<fs, content, used>>
  BY <1>4 DEF Lapse, storage
<1>5. ASSUME NEW p, NEW n, Reserve(p, n) PROVE UNCHANGED <<fs, content, used>>
  BY <1>5 DEF Reserve, storage
<1>6. ASSUME NEW p, \/ PassStart(p) \/ SkipBatch(p) \/ ReserveTimeout(p)
                    \/ PassDone(p) \/ ReleaseSecond(p) \/ PassFail(p)
      PROVE  UNCHANGED <<fs, content, used>>
  BY <1>6 DEF PassStart, SkipBatch, ReserveTimeout, PassDone, ReleaseSecond, PassFail, storage
<1>7. ASSUME NEW p, NEW k, Write(p, k) PROVE UNCHANGED <<fs, content>> /\ used' = used + 1
  BY <1>7 DEF Write, storage
<1>8. OtherWrite => UNCHANGED <<fs, content>> /\ used' = used + 1
  BY DEF OtherWrite, storage
<1>9. Delete => UNCHANGED <<fs, content>> /\ used' = used - 1
  BY DEF Delete, storage
<1>10. UNCHANGED vars => UNCHANGED <<fs, content, used>>
  BY DEF vars
<1>11. /\ UNCHANGED <<fs, content>>
       /\ used' \in {used, used + 1, used - 1}
  BY <1>1, <1>2, <1>3, <1>4, <1>5, <1>6, <1>7, <1>8, <1>9, <1>10 DEF Next, PassStep
<1> QED BY <1>11

(***************************************************************************)
(* bootstrap (blob.go) never formats an image that may hold content: what  *)
(* is stored only shrinks by deletions, the filesystem and its content     *)
(* subvolume never go away, across every failure, crash and reboot.        *)
(***************************************************************************)
THEOREM ContentSurvives == Spec => NeverReformatted
<1>1. TypeOK /\ BlobInv /\ [Next]_vars
        => [/\ used' >= used - 1
            /\ fs # Absent => fs' # Absent /\ (content => content')]_vars
  <2> SUFFICES ASSUME TypeOK, BlobInv, Next
               PROVE  /\ used' >= used - 1
                      /\ fs # Absent => fs' # Absent /\ (content => content')
    OBVIOUS
  <2>1. CASE ~ Command
    BY <2>1, StorageKept
  <2>2. CASE Mkfs
    BY <2>2 DEF Mkfs, BlobInv, OpInv, DiskInv, TypeOK
  <2>3. CASE GrowFs
    BY <2>3 DEF GrowFs, BlobInv, OpInv, DiskInv, TypeOK
  <2>4. CASE ShrinkFs
    BY <2>4 DEF ShrinkFs, TypeOK, Ops, Absent
  <2>5. CASE \/ TruncNew \/ Attach \/ Mount \/ Subvolume \/ GrowTrunc \/ GrowLoop
             \/ ShrinkTrunc \/ ShrinkLoop \/ Statvfs \/ Fits
    BY <2>5 DEF TypeOK, TruncNew, Attach, Mount, Subvolume, GrowTrunc, GrowLoop,
                ShrinkTrunc, ShrinkLoop, Statvfs, Fits, Return, storage
  <2> QED BY <2>1, <2>2, <2>3, <2>4, <2>5 DEF Command
<1> QED BY <1>1, Inductive, PTL DEF Spec, NeverReformatted

(***************************************************************************)
(* No shrink cuts into what is stored, into a reservation on record or     *)
(* below the provisioned floor (EnsureCapacity and Reserve, blob.go), for  *)
(* every interleaving of Reserve, Release, SetFloor and the watchdog.      *)
(***************************************************************************)
THEOREM ReservationsKept == Spec => ShrinkKeepsReservations
<1>1. TypeOK /\ BlobInv /\ [Next]_vars
        => [fs' < fs /\ fs' # Absent =>
              /\ fs' >= used'
              /\ fs' >= clamp(op.base + headroomBytes + Reserved)
              /\ fs' >= clamp(floor)]_vars
  <2> SUFFICES ASSUME TypeOK, BlobInv, Next, fs' < fs, fs' # Absent
               PROVE  /\ fs' >= used'
                      /\ fs' >= clamp(op.base + headroomBytes + Reserved)
                      /\ fs' >= clamp(floor)
    OBVIOUS
  <2>1. fs' # fs
    BY DEF TypeOK, Sizes, Absent
  <2>2. Command
    BY <2>1, StorageKept
  <2>3. ~ Mkfs /\ ~ GrowFs
    BY DEF Mkfs, GrowFs, BlobInv, FsFits, OpInv, DiskInv, TypeOK, Sizes, Absent
  <2>4. ShrinkFs
    BY <2>1, <2>2, <2>3 DEF Command, TruncNew, Attach, Mount, Subvolume, GrowTrunc, GrowLoop,
       ShrinkTrunc, ShrinkLoop, Statvfs, Fits, Return, storage
  <2>5. /\ fs' = op.target /\ used' = used /\ used <= op.target
        /\ op.target = clamp(Larger(op.base + headroomBytes + Reserved, floor))
    BY <2>4 DEF ShrinkFs, BlobInv, ShrinkInv
  <2>6. op.base \in Nat /\ op.target \in Nat /\ Reserved \in Nat /\ floor \in Nat
    BY TargetType DEF TypeOK, Ops
  <2> QED BY <2>5, <2>6, Sized DEF clamp, Larger, TypeOK
<1> QED BY <1>1, Inductive, PTL DEF Spec, ShrinkKeepsReservations
-----------------------------------------------------------------------------
(***************************************************************************)
(* The room that was promised.  A pass is due what its dispatched batches  *)
(* have left to write and what it has just asked for; the blob is large    *)
(* enough for it when it also has the part of the headroom that nobody     *)
(* has written into yet, or has reached its cap.                           *)
(***************************************************************************)
Left(p) == pass[p].left["server-depots"] + pass[p].left["workshop"]
Due(p) == Left(p) + IF pass[p].pc = "recorded" THEN pass[p].ask ELSE 0
Enough(n, need) ==
  \/ maxSizeBytes > 0 /\ n >= maxSizeBytes
  \/ n >= used + need + (headroomBytes - other)
Alone(p) == Passes = {p} /\ faults = 0 /\ other <= headroomBytes

\* Without faults the blob is bootstrapped once, before any pass runs.
BootInv ==
  /\ op.step \in {"truncNew", "attach", "mkfs", "mount"} => ~ mounted
  /\ op.step = "subvolume" => mounted /\ ~ content
  /\ content => mounted

\* A pass has nothing left under the key it announces next, and its
\* reservations cover what it is due.
PassInv(p) ==
  /\ pass[p].pc # "idle" => content
  /\ pass[p].pc \in {"idle", "releasing"} =>
       pass[p].key = "server-depots" /\ \A k \in Keys : pass[p].left[k] = 0
  /\ pass[p].pc \in {"resolving", "recorded"} =>
       /\ pass[p].left[pass[p].key] = 0
       /\ pass[p].left["workshop"] = 0
  /\ \A k \in Keys : pass[p].left[k] <= resv[k]
  /\ pass[p].pc = "recorded" => pass[p].ask <= resv[pass[p].key]
  /\ op.step # "off" /\ op.by = p => pass[p].pc = "recorded"

\* The call in progress makes, or leaves, the blob large enough.
CallInv(p) ==
  op.step # "off" /\ Due(p) > 0 =>
    /\ Enough(op.target, Due(p))
    /\ op.step = "growLoop" => image = op.target
    /\ op.step = "growFs" => loop = op.target
    /\ op.step \in {"statvfs", "fits"} => Enough(fs, Due(p))

Served(p) ==
  /\ BootInv
  /\ PassInv(p)
  /\ CallInv(p)
  /\ Left(p) > 0 => Enough(fs, Left(p))

RoomInv == \A p \in Passes : Alone(p) => Served(p)

LEMMA RoomInit == Init => RoomInv
<1> SUFFICES ASSUME Init, NEW p \in Passes PROVE Served(p)
  BY DEF RoomInv
<1>1. pass[p] = IdlePass /\ op = Off /\ resv = [k \in Keys |-> 0] /\ content = FALSE
  BY DEF Init
<1>2. BootInv /\ PassInv(p) /\ CallInv(p)
  BY <1>1 DEF BootInv, PassInv, CallInv, IdlePass, Off, Keys
<1>3. ~ (Left(p) > 0)
  BY <1>1 DEF Left, IdlePass, Keys
<1> QED BY <1>2, <1>3 DEF Served

LEMMA DueType ==
  ASSUME TypeOK, NEW p \in Passes
  PROVE  /\ pass[p] \in PassRecords
         /\ \A k \in Keys : pass[p].left[k] \in Nat
         /\ pass[p].ask \in Nat
         /\ Left(p) \in Nat /\ Due(p) \in Nat /\ Left(p) <= Due(p)
<1>1. pass[p] \in PassRecords
  BY DEF TypeOK
<1>2. \A k \in Keys : pass[p].left[k] \in Nat
  BY <1>1 DEF PassRecords
<1>3. pass[p].ask \in Nat
  BY <1>1 DEF PassRecords
<1> QED BY <1>1, <1>2, <1>3 DEF Left, Due, Keys

\* What a pass is due is reserved, so that EnsureCapacity's target counts it.
LEMMA DueReserved ==
  ASSUME TypeOK, NEW p \in Passes, PassInv(p)
  PROVE  Due(p) <= Reserved
<1>1. /\ pass[p].key \in Keys /\ resv["server-depots"] \in Nat /\ resv["workshop"] \in Nat
  BY DueType DEF PassRecords, TypeOK, Keys
<1> QED BY <1>1, DueType DEF PassInv, Due, Left, Reserved, Keys

LEMMA EnoughMore ==
  ASSUME TypeOK, NEW n \in Int, NEW m \in Int, n <= m,
         NEW need \in Nat, NEW less \in Nat, less <= need, Enough(n, need)
  PROVE  Enough(m, less)
BY Sized DEF Enough, TypeOK

\* Faults and unannounced bytes are only ever counted up.
LEMMA CountsUp ==
  ASSUME TypeOK, [Next]_vars
  PROVE  faults' \in {faults, faults + 1} /\ other' \in {other, other + 1}
<1>1. ASSUME NEW by, EnsureCapacity(by) PROVE UNCHANGED <<faults, other>>
  BY <1>1 DEF EnsureCapacity
<1>2. Command => UNCHANGED <<faults, other>>
  BY DEF Command, TruncNew, Attach, Mkfs, Mount, Subvolume, GrowTrunc, GrowLoop, GrowFs,
         ShrinkFs, ShrinkTrunc, ShrinkLoop, Statvfs, Fits, Return
<1>3. CallFails \/ Crash \/ Reboot => faults' \in {faults, faults + 1} /\ UNCHANGED other
  BY DEF CallFails, Crash, Reboot, Fault
<1>4. ASSUME NEW n, SetFloor(n) PROVE UNCHANGED <<faults, other>>
  BY <1>4 DEF SetFloor
<1>5. ASSUME NEW k, Lapse(k) PROVE faults' \in {faults, faults + 1} /\ UNCHANGED other
  BY <1>5 DEF Lapse, Fault
<1>6. ASSUME NEW p, NEW n, Reserve(p, n) PROVE UNCHANGED <<faults, other>>
  BY <1>6 DEF Reserve
<1>7. ASSUME NEW p, NEW k, Write(p, k) PROVE UNCHANGED <<faults, other>>
  BY <1>7 DEF Write
<1>8. ASSUME NEW p, PassStart(p) \/ SkipBatch(p) \/ PassDone(p) \/ ReleaseSecond(p)
      PROVE  UNCHANGED <<faults, other>>
  BY <1>8 DEF PassStart, SkipBatch, PassDone, ReleaseSecond
<1>9. ASSUME NEW p, ReserveTimeout(p) \/ PassFail(p)
      PROVE  faults' \in {faults, faults + 1} /\ UNCHANGED other
  BY <1>9 DEF ReserveTimeout, PassFail, Fault
<1>10. OtherWrite \/ Delete => UNCHANGED faults /\ other' \in {other, other + 1}
  BY DEF OtherWrite, Delete
<1>11. UNCHANGED vars => UNCHANGED <<faults, other>>
  BY DEF vars
<1> QED
  BY <1>1, <1>2, <1>3, <1>4, <1>5, <1>6, <1>7, <1>8, <1>9, <1>10, <1>11 DEF Next, PassStep

\* Taking mu: the target counts what is stored, what is due and the headroom.
LEMMA EnterServed ==
  ASSUME TypeOK, TypeOK', BlobInv, NEW p \in Passes, Alone(p), Served(p),
         NEW by \in Passes \cup {"watch"}, EnsureCapacity(by)
  PROVE  Served(p)'
<1>1. UNCHANGED <<image, loop, fs, mounted, content, used, other, resv, pass>>
  BY DEF EnsureCapacity, storage
<1>2. Left(p)' = Left(p) /\ Due(p)' = Due(p)
  BY <1>1 DEF Left, Due
<1>3. op'.by = by /\ (by = p => pass[p].pc = "recorded")
  BY WatchAssumption DEF EnsureCapacity, Enter
<1>4. PassInv(p)'
  BY <1>1, <1>3 DEF Served, PassInv
<1>5. CASE ~ mounted
  <2>1. op'.step \in {"truncNew", "attach"}
    BY <1>5 DEF EnsureCapacity, Enter
  <2>2. BootInv'
    BY <1>1, <1>5, <2>1 DEF Served, BootInv
  <2>3. Due(p) = 0 /\ Left(p) = 0
    BY <1>5 DEF Served, BootInv, PassInv, Due, Left, Keys
  <2> QED BY <1>2, <1>4, <2>2, <2>3 DEF Served, CallInv
<1>6. CASE mounted
  <2>1. /\ op'.step = (IF Target > fs THEN "growTrunc"
                       ELSE IF fs - Target >= shrinkHysteresisBytes THEN "shrinkFs"
                       ELSE "fits")
        /\ op'.target = Target
    BY <1>6 DEF EnsureCapacity, Enter
  <2>2. BootInv'
    BY <1>1, <2>1 DEF Served, BootInv
  <2>3. Target \in Nat /\ fs \in Nat /\ Reserved \in Nat
    BY <1>6, TargetType DEF TypeOK, Sizes, Absent, BlobInv, DiskInv
  <2>4. Due(p) <= Reserved /\ Due(p) \in Nat
    BY DueReserved, DueType DEF Served
  <2>5. Enough(Target, Due(p))
    BY <2>3, <2>4, Sized DEF Enough, Target, clamp, Larger, TypeOK, Alone
  <2>6. op'.step = "fits" => Enough(fs, Due(p))
    BY <2>1, <2>3, <2>4, <2>5, EnoughMore
  <2>7. CallInv(p)'
    BY <1>1, <1>2, <2>1, <2>5, <2>6 DEF CallInv, Enough
  <2> QED BY <1>1, <1>2, <1>4, <2>2, <2>7 DEF Served, Enough
<1> QED BY <1>5, <1>6
\* A command of the call: passes and reservations stay put, mu stays held.
LEMMA CommandServed ==
  ASSUME TypeOK, TypeOK', BlobInv, NEW p \in Passes, Alone(p), Served(p),
         Command, ~ Statvfs, ~ Fits
  PROVE  Served(p)'
<1>1. UNCHANGED <<other, resv, pass>>
  BY DEF Command, TruncNew, Attach, Mkfs, Mount, Subvolume, GrowTrunc, GrowLoop, GrowFs,
         ShrinkFs, ShrinkTrunc, ShrinkLoop
<1>2. Left(p)' = Left(p) /\ Due(p)' = Due(p)
  BY <1>1 DEF Left, Due
<1>3. Left(p) \in Nat /\ Due(p) \in Nat /\ Left(p) <= Due(p)
  BY DueType
<1>4. CASE TruncNew \/ Attach \/ Mkfs \/ Mount
  <2>1. op'.step \in {"attach", "mkfs", "mount", "subvolume"} /\ op'.by = op.by
    BY <1>4, StepOf DEF TruncNew, Attach, Mkfs, Mount
  <2>2. op.step \in {"truncNew", "attach", "mkfs", "mount"} /\ ~ mounted /\ ~ content
    BY <1>4 DEF TruncNew, Attach, Mkfs, Mount, Served, BootInv
  <2>3. /\ content' = FALSE
        /\ IF Mount THEN mounted' = TRUE /\ op'.step = "subvolume"
                    ELSE mounted' = mounted /\ op'.step # "subvolume"
    BY <1>4, <2>2, StepOf DEF TruncNew, Attach, Mkfs, Mount
  <2>4. BootInv'
    BY <2>1, <2>2, <2>3 DEF BootInv
  <2>5. pass[p].pc = "idle" /\ Due(p) = 0 /\ Left(p) = 0
    BY <2>2 DEF Served, PassInv, Due, Left, Keys
  <2>6. PassInv(p)'
    BY <1>1, <2>1, <2>2, <2>5 DEF Served, PassInv
  <2> QED BY <1>2, <2>4, <2>5, <2>6 DEF Served, CallInv
<1>5. CASE Subvolume
  <2>1. op'.step = "statvfs" /\ op'.by = op.by /\ content' = TRUE /\ mounted' = mounted
    BY <1>5, StepOf DEF Subvolume
  <2>2. op.step = "subvolume" /\ mounted /\ ~ content
    BY <1>5 DEF Subvolume, Served, BootInv
  <2>3. BootInv'
    BY <2>1, <2>2 DEF BootInv
  <2>4. pass[p].pc = "idle" /\ Due(p) = 0 /\ Left(p) = 0
    BY <2>2 DEF Served, PassInv, Due, Left, Keys
  <2>5. PassInv(p)'
    BY <1>1, <2>1, <2>2, <2>4 DEF Served, PassInv
  <2> QED BY <1>2, <2>3, <2>4, <2>5 DEF Served, CallInv
<1>6. CASE GrowTrunc \/ GrowLoop \/ GrowFs \/ ShrinkFs \/ ShrinkTrunc \/ ShrinkLoop
  <2>1. UNCHANGED <<mounted, content, used>>
    BY <1>6 DEF GrowTrunc, GrowLoop, GrowFs, ShrinkFs, ShrinkTrunc, ShrinkLoop
  <2>2. /\ op'.step \in {"growLoop", "growFs", "statvfs", "shrinkTrunc", "shrinkLoop"}
        /\ op'.target = op.target /\ op'.by = op.by /\ op.step # "off"
    BY <1>6, StepOf DEF GrowTrunc, GrowLoop, GrowFs, ShrinkFs, ShrinkTrunc, ShrinkLoop
  <2>3. BootInv' /\ PassInv(p)'
    BY <1>1, <2>1, <2>2 DEF Served, BootInv, PassInv
  <2>4. CASE Due(p) = 0
    BY <1>2, <1>3, <2>3, <2>4 DEF Served, CallInv
  <2>5. CASE Due(p) > 0
    <3>1. Enough(op.target, Due(p))
      BY <2>2, <2>5 DEF Served, CallInv
    <3>2. op.target \in Int
      BY DEF TypeOK, Ops
    <3>3. Enough(op.target, Left(p))
      BY <1>3, <3>1, <3>2, EnoughMore
    <3>4. /\ op'.step = "growLoop" => image' = op.target
          /\ op'.step = "growFs" => loop' = op.target
          /\ op'.step = "statvfs" => fs' = op.target
          /\ fs' = fs \/ fs' = op.target
      <4>1. CASE GrowTrunc
        BY <4>1, StepOf DEF GrowTrunc
      <4>2. CASE GrowLoop
        BY <2>5, <4>2, StepOf DEF GrowLoop, Served, CallInv
      <4>3. CASE GrowFs
        BY <2>5, <4>3, StepOf DEF GrowFs, Served, CallInv
      <4>4. CASE ShrinkFs
        BY <4>4, StepOf DEF ShrinkFs
      <4>5. CASE ShrinkTrunc
        BY <4>5, StepOf DEF ShrinkTrunc
      <4>6. CASE ShrinkLoop
        BY <4>6, StepOf DEF ShrinkLoop, BlobInv, OpInv
      <4> QED BY <1>6, <4>1, <4>2, <4>3, <4>4, <4>5, <4>6
    <3>5. CallInv(p)'
      BY <1>1, <1>2, <2>1, <2>2, <3>1, <3>4 DEF CallInv, Enough
    <3>6. (Left(p) > 0 => Enough(fs, Left(p)))'
      BY <1>1, <1>2, <2>1, <3>3, <3>4 DEF Served, Enough
    <3> QED BY <2>3, <3>5, <3>6 DEF Served
  <2> QED BY <1>3, <2>4, <2>5
<1> QED BY <1>4, <1>5, <1>6 DEF Command

\* Dispatching a recorded batch moves what it asked for to what it has left.
LEMMA DispatchedDue ==
  ASSUME TypeOK, NEW p \in Passes, PassInv(p), pass[p].pc = "recorded",
         NEW told \in BOOLEAN, pass'[p] = Dispatched(pass[p], told)
  PROVE  /\ pass'[p].pc = (IF pass[p].key = "workshop" THEN "draining" ELSE "resolving")
         /\ pass'[p].key = "workshop"
         /\ pass'[p].left = [pass[p].left EXCEPT ![pass[p].key] = pass[p].ask]
         /\ Left(p)' = Due(p) /\ Due(p)' = Due(p)
<1>1. pass[p] \in PassRecords /\ pass[p].key \in Keys /\ pass[p].left \in [Keys -> Nat]
  BY DueType DEF PassRecords
<1>2. /\ pass'[p].pc = (IF pass[p].key = "workshop" THEN "draining" ELSE "resolving")
      /\ pass'[p].key = "workshop"
      /\ pass'[p].left = [pass[p].left EXCEPT ![pass[p].key] = pass[p].ask]
  BY <1>1 DEF Dispatched, PassRecords
<1>3. Left(p)' = Due(p)
  <2>1. pass[p].left[pass[p].key] = 0
    BY DEF PassInv
  <2> QED BY <1>1, <1>2, <2>1, DueType DEF Left, Due, Keys
<1>4. Due(p)' = Left(p)'
  BY <1>1, <1>2, <1>3, DueType DEF Due
<1> QED BY <1>2, <1>3, <1>4

\* The call returns, or btrfs refused its shrink: a batch is dispatched into
\* a blob that the call made, or found, large enough.
LEMMA ReturnServed ==
  ASSUME TypeOK, TypeOK', BlobInv, NEW p \in Passes, Alone(p), Alone(p)', Served(p),
         Statvfs \/ Fits \/ CallFails
  PROVE  Served(p)'
<1>1. /\ UNCHANGED <<image, loop, fs, mounted, content, used, other, resv>>
      /\ op' = Off /\ op.step # "off"
  BY DEF Statvfs, Fits, CallFails, Return, storage
<1>2. BootInv' /\ CallInv(p)'
  BY <1>1 DEF Served, BootInv, CallInv, Off
<1>3. CASE op.by # p
  <2>1. op.by = "watch"
    BY <1>3 DEF Alone, TypeOK, Ops
  <2>2. pass' = pass
    BY <2>1 DEF Statvfs, Fits, CallFails, Return
  <2>3. PassInv(p)' /\ Left(p)' = Left(p)
    BY <1>1, <2>2 DEF Served, PassInv, Left, Off
  <2> QED BY <1>1, <1>2, <2>3 DEF Served, Enough
<1>4. CASE op.by = p
  <2>1. pass[p].pc = "recorded" /\ op.by # "watch"
    BY <1>1, <1>4, WatchAssumption DEF Served, PassInv
  <2>2. PICK told \in BOOLEAN : pass'[p] = Dispatched(pass[p], told)
    <3>1. Free \in Int /\ fs - op.base \in Int /\ pass[p].ask \in Int
      BY DueType DEF Free, TypeOK, Sizes, Absent, Ops
    <3>2. (Free >= pass[p].ask) \in BOOLEAN /\ (fs - op.base >= pass[p].ask) \in BOOLEAN
      BY <3>1
    <3>3. \/ pass'[p] = Dispatched(pass[p], Free >= pass[p].ask)
          \/ pass'[p] = Dispatched(pass[p], fs - op.base >= pass[p].ask)
          \/ pass'[p] = Dispatched(pass[p], FALSE)
      BY <1>4, <2>1 DEF Statvfs, Fits, CallFails, Return, TypeOK
    <3> QED BY <3>2, <3>3
  <2>3. /\ pass'[p].pc = (IF pass[p].key = "workshop" THEN "draining" ELSE "resolving")
        /\ pass'[p].key = "workshop"
        /\ pass'[p].left = [pass[p].left EXCEPT ![pass[p].key] = pass[p].ask]
        /\ Left(p)' = Due(p)
    BY <2>1, <2>2, DispatchedDue DEF Served
  <2>4. pass[p].left \in [Keys -> Nat] /\ pass[p].key \in Keys
    BY DueType DEF PassRecords
  <2>5. PassInv(p)'
    <3>1. content
      BY <2>1 DEF Served, PassInv
    <3>2. pass[p].left["workshop"] = 0 /\ pass[p].ask <= resv[pass[p].key]
          /\ \A k \in Keys : pass[p].left[k] <= resv[k]
      BY <2>1 DEF Served, PassInv
    <3> QED BY <1>1, <2>3, <2>4, <3>1, <3>2 DEF PassInv, Off, Keys
  <2>6. Due(p) > 0 => Enough(fs, Due(p))
    <3>1. CASE Statvfs \/ Fits
      BY <1>1, <3>1 DEF Statvfs, Fits, Served, CallInv
    <3>2. CASE CallFails
      <4>1. op.step = "mount" \/ op.step = "shrinkFs"
        BY <3>2 DEF CallFails, Fault, Alone, TypeOK
      <4>2. op.step # "mount"
        BY <2>1 DEF Served, BootInv, PassInv
      <4>3. op.target <= fs /\ op.target \in Int /\ fs \in Int
        BY <4>1, <4>2 DEF BlobInv, OpInv, TypeOK, Ops, Sizes, Absent
      <4>4. Due(p) > 0 => Enough(op.target, Due(p))
        BY <1>1 DEF Served, CallInv
      <4> QED BY <4>3, <4>4, EnoughMore, DueType
    <3> QED BY <3>1, <3>2
  <2> QED BY <1>1, <1>2, <2>3, <2>5, <2>6 DEF Served, Enough
<1> QED BY <1>3, <1>4
\* A step after which the pass has nothing dispatched and nothing asked for.
LEMMA IdleServed ==
  ASSUME TypeOK, TypeOK', NEW p \in Passes, Served(p),
         UNCHANGED <<mounted, content, op>>,
         op.step = "off" \/ op.by # p,
         \/ pass'[p] = IdlePass
         \/ content /\ pass'[p] = [IdlePass EXCEPT !.pc = "releasing"]
  PROVE  Served(p)'
<1>1. /\ pass'[p].pc = "idle" \/ (pass'[p].pc = "releasing" /\ content)
      /\ pass'[p].key = "server-depots"
      /\ \A k \in Keys : pass'[p].left[k] = 0
  BY DEF IdlePass
<1>2. Left(p)' = 0 /\ Due(p)' = 0
  BY <1>1 DEF Left, Due, Keys
<1>3. \A k \in Keys : resv'[k] \in Nat
  BY DEF TypeOK
<1>4. PassInv(p)'
  BY <1>1, <1>3 DEF PassInv
<1>5. BootInv'
  BY DEF Served, BootInv
<1> QED BY <1>2, <1>4, <1>5 DEF Served, CallInv

\* A step of the pass itself, other than a download's write.
LEMMA PassServed ==
  ASSUME TypeOK, TypeOK', NEW p \in Passes, Alone(p), Alone(p)', Served(p),
         \/ PassStart(p) \/ SkipBatch(p) \/ ReserveTimeout(p)
         \/ \E n \in 1 .. MaxBatch : Reserve(p, n)
         \/ PassDone(p) \/ ReleaseSecond(p) \/ PassFail(p)
  PROVE  Served(p)'
<1>1. UNCHANGED <<image, loop, fs, mounted, content, used, other, op>>
  BY DEF PassStart, SkipBatch, ReserveTimeout, Reserve, PassDone, ReleaseSecond, PassFail,
         storage
<1>2. BootInv'
  BY <1>1 DEF Served, BootInv
<1>3. pass[p] \in PassRecords /\ pass[p].key \in Keys /\ pass[p].left \in [Keys -> Nat]
  BY DueType DEF PassRecords
<1>4. CASE PassStart(p) \/ SkipBatch(p)
  <2>1. resv' = resv /\ pass'[p].left = pass[p].left /\ pass[p].pc # "recorded"
    BY <1>3, <1>4 DEF PassStart, SkipBatch, TypeOK, PassRecords
  <2>2. /\ content
        /\ pass'[p].pc \in {"resolving", "draining"}
        /\ pass'[p].key \in {pass[p].key, "workshop"}
        /\ pass[p].left["workshop"] = 0
        /\ pass'[p].pc = "resolving" => pass[p].left[pass'[p].key] = 0
    <3>1. CASE PassStart(p)
      <4>1. pass'[p].pc = "resolving" /\ pass'[p].key = pass[p].key
        BY <1>3, <3>1 DEF PassStart, TypeOK, PassRecords
      <4> QED BY <1>3, <3>1, <4>1 DEF PassStart, Served, PassInv, Keys
    <3>2. CASE SkipBatch(p)
      <4>1. /\ pass'[p].pc = (IF pass[p].key = "workshop" THEN "draining" ELSE "resolving")
            /\ pass'[p].key = "workshop"
        BY <1>3, <3>2 DEF SkipBatch, TypeOK, PassRecords
      <4> QED BY <1>3, <3>2, <4>1 DEF SkipBatch, Served, PassInv, Keys
    <3> QED BY <1>4, <3>1, <3>2
  <2>3. Left(p)' = Left(p) /\ Due(p)' = Due(p)
    BY <2>1, <2>2, DueType DEF Left, Due
  <2>4. PassInv(p)'
    BY <1>1, <2>1, <2>2 DEF Served, PassInv
  <2>5. CallInv(p)' /\ (Left(p) > 0 => Enough(fs, Left(p)))'
    BY <1>1, <2>3 DEF Served, CallInv, Enough
  <2> QED BY <1>2, <2>4, <2>5 DEF Served
<1>5. CASE ReserveTimeout(p)
  BY <1>5 DEF ReserveTimeout, Fault, Alone, TypeOK
<1>6. ASSUME NEW n \in 1 .. MaxBatch, Reserve(p, n) PROVE Served(p)'
  <2>1. /\ resv' = [resv EXCEPT ![pass[p].key] = n] /\ n \in Nat
        /\ op.step = "off" /\ pass[p].pc = "resolving"
    BY <1>6, BoundAssumption DEF Reserve
  <2>2. /\ pass'[p].pc = "recorded" /\ pass'[p].ask = n
        /\ pass'[p].key = pass[p].key /\ pass'[p].left = pass[p].left
    BY <1>3, <1>6 DEF Reserve, TypeOK, PassRecords
  <2>3. PassInv(p)'
    BY <1>1, <1>3, <2>1, <2>2 DEF Served, PassInv, TypeOK
  <2>4. Left(p)' = Left(p)
    BY <2>2 DEF Left
  <2> QED BY <1>1, <1>2, <2>1, <2>3, <2>4 DEF Served, CallInv, Enough
<1>7. CASE PassDone(p) \/ ReleaseSecond(p) \/ PassFail(p)
  <2>1. op.step = "off" \/ op.by # p
    BY <1>7 DEF PassDone, ReleaseSecond, PassFail, Served, PassInv
  <2>2. CASE PassDone(p)
    <3>1. pass'[p] = [IdlePass EXCEPT !.pc = "releasing"] /\ content
      BY <2>2 DEF PassDone, TypeOK, Served, PassInv
    <3> QED BY <1>1, <2>1, <3>1, IdleServed
  <2>3. CASE ReleaseSecond(p) \/ PassFail(p)
    <3>1. pass'[p] = IdlePass
      BY <2>3 DEF ReleaseSecond, PassFail, TypeOK
    <3> QED BY <1>1, <2>1, <3>1, IdleServed
  <2> QED BY <1>7, <2>2, <2>3
<1> QED BY <1>4, <1>5, <1>6, <1>7

\* A download writes what it announced: the blob needs room for one byte less.
LEMMA WriteServed ==
  ASSUME TypeOK, TypeOK', NEW p \in Passes, Alone(p), Served(p),
         NEW k \in Keys, Write(p, k)
  PROVE  Served(p)'
<1>1. /\ UNCHANGED <<image, loop, fs, mounted, content, other, resv, op>>
      /\ used' = used + 1 /\ pass[p].left[k] > 0
  BY DEF Write, storage
<1>2. pass[p] \in PassRecords /\ pass[p].key \in Keys /\ pass[p].left \in [Keys -> Nat]
  BY DueType DEF PassRecords
<1>3. /\ pass'[p].pc = pass[p].pc /\ pass'[p].key = pass[p].key /\ pass'[p].ask = pass[p].ask
      /\ pass'[p].left = [pass[p].left EXCEPT ![k] = pass[p].left[k] - 1]
  BY <1>2 DEF Write, TypeOK, PassRecords
<1>4. Left(p)' = Left(p) - 1 /\ Due(p)' = Due(p) - 1
  BY <1>2, <1>3, DueType DEF Left, Due, Keys
<1>5. BootInv'
  BY <1>1 DEF Served, BootInv
<1>6. PassInv(p)'
  <2>1. \A j \in Keys : pass'[p].left[j] \in Nat /\ pass'[p].left[j] <= pass[p].left[j]
    BY <1>1, <1>2, <1>3
  <2>2. \A j \in Keys : pass'[p].left[j] <= resv[j]
    BY <1>2, <2>1 DEF Served, PassInv, TypeOK
  <2> QED BY <1>1, <1>2, <1>3, <2>1, <2>2 DEF Served, PassInv, Keys
<1>7. Left(p) \in Nat /\ Due(p) \in Nat /\ op.target \in Int /\ fs \in Int
  BY DueType DEF TypeOK, Ops, Sizes, Absent
<1>8. CallInv(p)'
  <2> SUFFICES ASSUME (op.step # "off")', (Due(p) > 0)'
               PROVE  (/\ Enough(op.target, Due(p))
                       /\ op.step = "growLoop" => image = op.target
                       /\ op.step = "growFs" => loop = op.target
                       /\ op.step \in {"statvfs", "fits"} => Enough(fs, Due(p)))'
    BY DEF CallInv
  <2>1. op.step # "off" /\ Due(p) > 0
    BY <1>1, <1>4, <1>7
  <2> QED BY <1>1, <1>4, <1>7, <2>1, Sized DEF Served, CallInv, Enough, TypeOK
<1>9. (Left(p) > 0 => Enough(fs, Left(p)))'
  BY <1>1, <1>4, <1>7, Sized DEF Served, Enough, TypeOK
<1> QED BY <1>5, <1>6, <1>8, <1>9 DEF Served

\* What is stored grows by no more than what eats into the headroom.
LEMMA EnoughStays ==
  ASSUME TypeOK, TypeOK', UNCHANGED <<used, other>> \/ OtherWrite \/ Delete,
         NEW n \in Int, NEW need \in Nat, Enough(n, need)
  PROVE  \/ maxSizeBytes > 0 /\ n >= maxSizeBytes
         \/ n >= used' + need + (headroomBytes - other')
<1>1. used \in Int /\ other \in Int /\ headroomBytes \in Int
  BY Sized DEF TypeOK
<1>2. CASE OtherWrite
  BY <1>1, <1>2 DEF Enough, OtherWrite
<1>3. CASE Delete
  BY <1>1, <1>3 DEF Enough, Delete
<1>4. CASE UNCHANGED <<used, other>>
  BY <1>1, <1>4 DEF Enough
<1> QED BY <1>2, <1>3, <1>4

\* The rest of the node: deletions, unannounced writes that the headroom
\* covers, a higher floor, and reservations lapsing that nobody relies on.
LEMMA NodeServed ==
  ASSUME TypeOK, TypeOK', NEW p \in Passes, Alone(p), Alone(p)', Served(p),
         \/ OtherWrite \/ Delete
         \/ \E n \in 1 .. MaxFloor : SetFloor(n)
         \/ \E k \in Keys : Lapse(k)
         \/ UNCHANGED vars
  PROVE  Served(p)'
<1>1. /\ UNCHANGED <<image, loop, fs, mounted, content, op, pass>>
      /\ UNCHANGED <<used, other>> \/ OtherWrite \/ Delete
  BY DEF OtherWrite, Delete, SetFloor, Lapse, storage, vars
<1>2. Left(p)' = Left(p) /\ Due(p)' = Due(p) /\ Left(p) \in Nat /\ Due(p) \in Nat
  BY <1>1, DueType DEF Left, Due
<1>3. BootInv'
  BY <1>1 DEF Served, BootInv
<1>4. PassInv(p)'
  <2>1. CASE resv' = resv
    BY <1>1, <2>1 DEF Served, PassInv
  <2>2. ASSUME NEW k \in Keys, Lapse(k) PROVE PassInv(p)'
    <3>1. pass[p].pc = "idle" /\ \A j \in Keys : resv'[j] \in Nat
      BY <2>2 DEF Lapse, Fault, Alone, TypeOK
    <3> QED BY <1>1, <3>1 DEF Served, PassInv
  <2> QED BY <2>1, <2>2 DEF OtherWrite, Delete, SetFloor, vars
<1>5. op.target \in Int /\ fs \in Int
  BY DEF TypeOK, Ops, Sizes, Absent
<1>6. ASSUME NEW n \in Int, NEW need \in Nat, Enough(n, need)
      PROVE  \/ maxSizeBytes > 0 /\ n >= maxSizeBytes
             \/ n >= used' + need + (headroomBytes - other')
  BY <1>1, <1>6, EnoughStays
<1>7. CallInv(p)' /\ (Left(p) > 0 => Enough(fs, Left(p)))'
  <2>1. (Left(p) > 0 => Enough(fs, Left(p)))'
    BY <1>1, <1>2, <1>5, <1>6 DEF Served, Enough
  <2>2. CASE op.step = "off" \/ ~ (Due(p) > 0)
    BY <1>1, <1>2, <2>1, <2>2 DEF CallInv
  <2>3. CASE op.step # "off" /\ Due(p) > 0
    <3>1. Enough(op.target, Due(p))'
      <4>1. Enough(op.target, Due(p))
        BY <2>3 DEF Served, CallInv
      <4> QED BY <1>1, <1>2, <1>5, <1>6, <4>1 DEF Enough
    <3>2. (op.step \in {"statvfs", "fits"} => Enough(fs, Due(p)))'
      <4>1. op.step \in {"statvfs", "fits"} => Enough(fs, Due(p))
        BY <2>3 DEF Served, CallInv
      <4> QED BY <1>1, <1>2, <1>5, <1>6, <4>1 DEF Enough
    <3> QED BY <1>1, <2>1, <2>3, <3>1, <3>2 DEF Served, CallInv
  <2> QED BY <2>1, <2>2, <2>3
<1> QED BY <1>3, <1>4, <1>7 DEF Served

LEMMA RoomStep == TypeOK /\ TypeOK' /\ BlobInv /\ RoomInv /\ [Next]_vars => RoomInv'
<1> SUFFICES ASSUME TypeOK, TypeOK', BlobInv, RoomInv, [Next]_vars,
                    NEW p \in Passes, Alone(p)'
             PROVE  Served(p)'
  BY DEF RoomInv
<1>1. Alone(p) /\ Served(p)
  <2>1. Alone(p)
    BY CountsUp, Sized DEF Alone, TypeOK
  <2> QED BY <2>1 DEF RoomInv
<1>2. Passes = {p}
  BY <1>1 DEF Alone
<1>3. ASSUME NEW by \in Passes \cup {"watch"}, EnsureCapacity(by) PROVE Served(p)'
  BY <1>1, <1>3, EnterServed
<1>4. CASE Command \/ CallFails
  BY <1>1, <1>4, CommandServed, ReturnServed
<1>5. CASE Crash \/ Reboot
  <2>1. Fault
    BY <1>5 DEF Crash, Reboot
  <2> QED BY <2>1 DEF Fault, Alone, TypeOK
<1>6. CASE PassStep(p)
  BY <1>1, <1>3, <1>6, PassServed, WriteServed DEF PassStep
<1>7. CASE \/ OtherWrite \/ Delete \/ UNCHANGED vars
           \/ \E n \in 1 .. MaxFloor : SetFloor(n)
           \/ \E k \in Keys : Lapse(k)
  BY <1>1, <1>7, NodeServed
<1> QED BY <1>2, <1>3, <1>4, <1>5, <1>6, <1>7 DEF Next

(***************************************************************************)
(* The promise of ReserveCapacity (capacity.go, service.rs's sync_content) *)
(* holds for every headroom, hysteresis, cap and batch size: a lone pass   *)
(* can write all it was told it has room for, whatever the watchdog        *)
(* resizes and others write into the headroom meanwhile.                   *)
(***************************************************************************)
THEOREM RoomAsPromised == Spec => []PromisedRoom
<1>1. Init => RoomInv
  BY RoomInit
<1>2. TypeOK /\ TypeOK' /\ BlobInv /\ RoomInv /\ [Next]_vars => RoomInv'
  BY RoomStep
<1>3. TypeOK /\ RoomInv => PromisedRoom
  <2> SUFFICES ASSUME TypeOK, RoomInv, WithinCap, faults = 0, other <= headroomBytes,
                      NEW p \in Passes, Passes = {p}, PromisedTo(p) > 0
               PROVE  PromisedTo(p) <= Free
    BY DEF PromisedRoom
  <2>1. Served(p)
    BY DEF RoomInv, Alone
  <2>2. PromisedTo(p) \in Nat /\ PromisedTo(p) <= Left(p) /\ Left(p) \in Nat
    BY DueType DEF PromisedTo, Promised, Left, Keys
  <2>3. Left(p) <= Reserved /\ Reserved \in Nat
    BY <2>1, <2>2, DueType, DueReserved, TargetType DEF Served
  <2>4. Enough(fs, Left(p))
    BY <2>1, <2>2 DEF Served
  <2>5. fs \in Int
    BY DEF TypeOK, Sizes, Absent
  <2> QED BY <2>2, <2>3, <2>4, <2>5, Sized DEF Enough, WithinCap, Free, TypeOK
<1> QED BY <1>1, <1>2, <1>3, Inductive, PTL DEF Spec
=============================================================================
