----------------------------- MODULE BlobVolume -----------------------------
(***************************************************************************)
(* magpie-csi's node-local blob: a btrfs filesystem in a sparse image      *)
(* behind a loop device, resized online by blob.Manager, and the capacity  *)
(* reservations a sync pass announces before it downloads                  *)
(* (services/magpie-csi/internal/blob/blob.go, internal/capacity,          *)
(* services/sync-daemon/src/{capacity,service}.rs).                        *)
(*                                                                         *)
(* Every resize is a sequence of external commands, each an action here,   *)
(* that may fail or be cut off by a crash.  EnsureCapacity holds the       *)
(* manager's mutex from its first to its last command: `op` is the call    *)
(* that holds it.  Reserve records under the mutex, gives it up, and then  *)
(* competes for it again.                                                  *)
(***************************************************************************)
EXTENDS Integers

CONSTANTS
  Passes,                 \* sync_content calls that may overlap
  headroomBytes,
  shrinkHysteresisBytes,
  maxSizeBytes,           \* cap on the blob; 0 means unlimited
  MaxBatch,               \* bound: bytes one batch announces
  MaxUsed,                \* bound: bytes stored
  MaxOther,               \* bound: bytes written without an announcement
  MaxFloor,               \* bound: size a PVC expansion asks for
  MaxFaults               \* bound: failed calls, crashes, reboots, lapsed TTLs

ASSUME SizeAssumption ==
  /\ headroomBytes \in Nat \ {0}
  /\ shrinkHysteresisBytes \in Nat \ {0}
  /\ maxSizeBytes \in Nat
ASSUME BoundAssumption ==
  /\ MaxBatch \in Nat /\ MaxUsed \in Nat /\ MaxOther \in Nat
  /\ MaxFloor \in Nat /\ MaxFaults \in Nat
ASSUME WatchAssumption == "watch" \notin Passes

VARIABLES
  image,           \* size of the backing file, or Absent
  loop,            \* size the attached loop device shows, or Absent
  fs,              \* size of the btrfs filesystem in it, or Absent
  mounted,
  content,         \* the content subvolume exists, owned by nonroot
  used,            \* bytes stored in the filesystem
  other,           \* bytes written without an announcement so far
  resv,            \* per key, the bytes reserved (0: no reservation)
  floor,           \* provisionedFloor
  op,              \* the EnsureCapacity call that holds mu
  pass,            \* per pass: its step, its batches and what it was told
  faults

vars == <<image, loop, fs, mounted, content, used, other, resv, floor, op,
          pass, faults>>
storage == <<image, loop, fs, mounted, content>>

-----------------------------------------------------------------------------
Absent == -1
Sizes == Nat \cup {Absent}
Keys == {"server-depots", "workshop"}

\* `step` is the next command of the call, "off" when nobody holds mu;
\* `new`: this call found no image file; `base`: usage its first statvfs saw;
\* `by`: the pass whose Reserve is running, or "watch" for the watchdog and the
\* CSI volume calls.
Steps == {"off", "truncNew", "attach", "mkfs", "mount", "subvolume",
          "growTrunc", "growLoop", "growFs",
          "shrinkFs", "shrinkTrunc", "shrinkLoop", "statvfs", "fits"}
Ops == [step : Steps, new : BOOLEAN, target : Nat, base : Nat,
        by : Passes \cup {"watch"}]
Off == [step |-> "off", new |-> FALSE, target |-> 0, base |-> 0, by |-> "watch"]

\* "resolving" the batch `key`; "recorded": its reservation of `ask` bytes is in
\* the map, EnsureCapacity still to be called or running; "draining": every
\* batch dispatched; "releasing": first key released.  Batch k has left[k]
\* announced bytes still to write, and was told `satisfied` or not.
PassRecords ==
  [pc : {"idle", "resolving", "recorded", "draining", "releasing"},
   key : Keys, ask : Nat, left : [Keys -> Nat], satisfied : [Keys -> BOOLEAN]]
IdlePass ==
  [pc |-> "idle", key |-> "server-depots", ask |-> 0,
   left |-> [k \in Keys |-> 0], satisfied |-> [k \in Keys |-> FALSE]]

TypeOK ==
  /\ image \in Sizes /\ loop \in Sizes /\ fs \in Sizes
  /\ mounted \in BOOLEAN /\ content \in BOOLEAN
  /\ used \in Nat /\ other \in Nat
  /\ resv \in [Keys -> Nat]
  /\ floor \in Nat
  /\ op \in Ops
  /\ pass \in [Passes -> PassRecords]
  /\ faults \in Nat

Init ==
  /\ image = Absent /\ loop = Absent /\ fs = Absent
  /\ mounted = FALSE /\ content = FALSE
  /\ used = 0 /\ other = 0
  /\ resv = [k \in Keys |-> 0]
  /\ floor = 0
  /\ op = Off
  /\ pass = [p \in Passes |-> IdlePass]
  /\ faults = 0

clamp(n) == IF maxSizeBytes > 0 /\ n > maxSizeBytes THEN maxSizeBytes ELSE n
Larger(m, n) == IF m > n THEN m ELSE n

\* reservedBytesLocked; Lapse takes an expired reservation out of the map.
Reserved == resv["server-depots"] + resv["workshop"]

\* Mutant of Target: reservations are not counted.
TargetUnreserved == clamp(Larger(used + headroomBytes, floor))

\* Mutant of Target: no headroom on top of what is used and reserved.
TargetBare == clamp(Larger(used + Reserved, floor))

\* desiredFloor, game content plus headroom, never exceeds used + headroom, so
\* it decides nothing here; while nothing is mounted it is the bare headroom.
Target == clamp(Larger(used + headroomBytes + Reserved, floor))

Free == fs - used
Fault == faults < MaxFaults /\ faults' = faults + 1
Goto(step) == op' = [op EXCEPT !.step = step]

-----------------------------------------------------------------------------
(***************************************************************************)
(* EnsureCapacity: it takes mu and decides to bootstrap, grow, shrink or   *)
(* leave the blob alone; the commands follow.                              *)
(***************************************************************************)
Enter(by, step, target) ==
  op' = [step |-> step, new |-> image = Absent, target |-> target,
         base |-> used, by |-> by]

EnsureCapacity(by) ==
  /\ op.step = "off"
  /\ by # "watch" => pass[by].pc = "recorded"
  /\ IF ~ mounted
       THEN Enter(by, IF image = Absent THEN "truncNew" ELSE "attach",
                  clamp(headroomBytes))
       ELSE Enter(by, IF Target > fs THEN "growTrunc"
                      ELSE IF fs - Target >= shrinkHysteresisBytes THEN "shrinkFs"
                      ELSE "fits",
                  Target)
  /\ UNCHANGED <<storage, used, other, resv, floor, pass, faults>>

TruncNew ==
  /\ op.step = "truncNew"
  /\ image' = op.target
  /\ Goto("attach")
  /\ UNCHANGED <<loop, fs, mounted, content, used, other, resv, floor, pass, faults>>

\* Mutant of Attach: every bootstrap formats.
AttachFormat ==
  /\ op.step = "attach"
  /\ loop' = IF loop = Absent THEN image ELSE loop
  /\ Goto("mkfs")
  /\ UNCHANGED <<image, fs, mounted, content, used, other, resv, floor, pass, faults>>

\* attachLoopDevice reuses an existing association, whatever size it shows.
\* bootstrap formats only an image that it created itself.
Attach ==
  /\ op.step = "attach"
  /\ loop' = IF loop = Absent THEN image ELSE loop
  /\ Goto(IF op.new THEN "mkfs" ELSE "mount")
  /\ UNCHANGED <<image, fs, mounted, content, used, other, resv, floor, pass, faults>>

Mkfs ==
  /\ op.step = "mkfs"
  /\ fs' = loop
  /\ content' = FALSE
  /\ used' = 0
  /\ Goto("mount")
  /\ UNCHANGED <<image, loop, mounted, other, resv, floor, pass, faults>>

\* mount refuses an unformatted device; see CallFails.
Mount ==
  /\ op.step = "mount"
  /\ fs # Absent
  /\ mounted' = TRUE
  /\ Goto("subvolume")
  /\ UNCHANGED <<image, loop, fs, content, used, other, resv, floor, pass, faults>>

\* ensureContentSubvolume: create it unless it is there, then chown.
Subvolume ==
  /\ op.step = "subvolume"
  /\ content' = TRUE
  /\ Goto("statvfs")
  /\ UNCHANGED <<image, loop, fs, mounted, used, other, resv, floor, pass, faults>>

\* growTo: truncate, losetup -c, resize max.
GrowTrunc ==
  /\ op.step = "growTrunc"
  /\ image' = op.target
  /\ Goto("growLoop")
  /\ UNCHANGED <<loop, fs, mounted, content, used, other, resv, floor, pass, faults>>

GrowLoop ==
  /\ op.step = "growLoop"
  /\ loop' = image
  /\ Goto("growFs")
  /\ UNCHANGED <<image, fs, mounted, content, used, other, resv, floor, pass, faults>>

GrowFs ==
  /\ op.step = "growFs"
  /\ fs' = loop
  /\ Goto("statvfs")
  /\ UNCHANGED <<image, loop, mounted, content, used, other, resv, floor, pass, faults>>

\* Mutant of ShrinkFs: the backing file is truncated before the resize.
ShrinkImageFirst ==
  /\ op.step = "shrinkFs"
  /\ used <= op.target
  /\ image' = op.target
  /\ Goto("shrinkTrunc")
  /\ UNCHANGED <<loop, fs, mounted, content, used, other, resv, floor, pass, faults>>

\* shrinkTo: resize to the target, truncate, losetup -c.  btrfs refuses to go
\* below what is stored by then; see CallFails.
ShrinkFs ==
  /\ op.step = "shrinkFs"
  /\ used <= op.target
  /\ fs' = op.target
  /\ Goto("shrinkTrunc")
  /\ UNCHANGED <<image, loop, mounted, content, used, other, resv, floor, pass, faults>>

ShrinkTrunc ==
  /\ op.step = "shrinkTrunc"
  /\ image' = op.target
  /\ Goto("shrinkLoop")
  /\ UNCHANGED <<loop, fs, mounted, content, used, other, resv, floor, pass, faults>>

ShrinkLoop ==
  /\ op.step = "shrinkLoop"
  /\ loop' = image
  /\ Goto("statvfs")
  /\ UNCHANGED <<image, fs, mounted, content, used, other, resv, floor, pass, faults>>

\* Whatever Reserve answered, the pass dispatches the batch it announced and
\* moves on to the next one.
Dispatched(p, told) ==
  [p EXCEPT !.pc = IF p.key = "workshop" THEN "draining" ELSE "resolving",
            !.key = "workshop",
            !.left[p.key] = p.ask,
            !.satisfied[p.key] = told]

\* EnsureCapacity returns FreeBytes, and Reserve `FreeBytes >= bytes`.
Return(free) ==
  /\ op' = Off
  /\ pass' = IF op.by = "watch" THEN pass
             ELSE [pass EXCEPT ![op.by] = Dispatched(@, free >= @.ask)]
  /\ UNCHANGED <<storage, used, other, resv, floor, faults>>

\* After a bootstrap or a resize a second statvfs says how much is free.
Statvfs == op.step = "statvfs" /\ Return(Free)

\* Neither grow nor shrink: what the first statvfs saw is returned.
Fits == op.step = "fits" /\ Return(fs - op.base)

\* A command fails, or the RPC's deadline kills it: the call returns the error
\* and leaves what earlier commands did.  The two refusals are not faults.
CallFails ==
  /\ op.step # "off"
  /\ IF \/ op.step = "mount" /\ fs = Absent
        \/ op.step = "shrinkFs" /\ used > op.target
       THEN UNCHANGED faults
       ELSE Fault
  /\ op' = Off
  /\ pass' = IF op.by = "watch" THEN pass
             ELSE [pass EXCEPT ![op.by] = Dispatched(@, FALSE)]
  /\ UNCHANGED <<storage, used, other, resv, floor>>

\* SetFloor, before its EnsureCapacity (which is any other's): never lowered.
SetFloor(n) ==
  /\ op.step = "off"
  /\ n > floor
  /\ floor' = n
  /\ UNCHANGED <<storage, used, other, resv, op, pass, faults>>

\* A reservation's TTL runs out; it is meant to outlast the batch it covers.
Lapse(k) ==
  /\ op.step = "off"
  /\ resv[k] > 0
  /\ IF \A p \in Passes : pass[p].pc = "idle" THEN UNCHANGED faults ELSE Fault
  /\ resv' = [resv EXCEPT ![k] = 0]
  /\ UNCHANGED <<storage, used, other, floor, op, pass>>

-----------------------------------------------------------------------------
(***************************************************************************)
(* sync_content: server depots first, then workshop mods, each announced   *)
(* and dispatched; then it joins the downloads and releases both keys.     *)
(***************************************************************************)
\* sync-daemon only runs with its golden volume mounted.
PassStart(p) ==
  /\ mounted /\ content
  /\ pass[p].pc = "idle"
  /\ pass' = [pass EXCEPT ![p].pc = "resolving"]
  /\ UNCHANGED <<storage, used, other, resv, floor, op, faults>>

\* Nothing to download in this batch, or (server depots) no licensed session or
\* a failed resolve.
SkipBatch(p) ==
  /\ pass[p].pc = "resolving"
  /\ pass' = [pass EXCEPT
       ![p].pc = IF pass[p].key = "workshop" THEN "draining" ELSE "resolving",
       ![p].key = "workshop"]
  /\ UNCHANGED <<storage, used, other, resv, floor, op, faults>>

\* Mutant of Reserve: the batch is announced but not recorded.
ReserveUnrecorded(p, bytes) ==
  /\ op.step = "off"
  /\ pass[p].pc = "resolving"
  /\ pass' = [pass EXCEPT ![p].pc = "recorded", ![p].ask = bytes]
  /\ UNCHANGED <<storage, used, other, resv, floor, op, faults>>

\* Reserve up to its unlock: a key's earlier reservation is replaced.
Reserve(p, bytes) ==
  /\ op.step = "off"
  /\ pass[p].pc = "resolving"
  /\ resv' = [resv EXCEPT ![pass[p].key] = bytes]
  /\ pass' = [pass EXCEPT ![p].pc = "recorded", ![p].ask = bytes]
  /\ UNCHANGED <<storage, used, other, floor, op, faults>>

\* RESERVE_TIMEOUT while the call still waits for mu: the batch goes ahead.
ReserveTimeout(p) ==
  /\ pass[p].pc = "recorded"
  /\ op.by # p
  /\ Fault
  /\ pass' = [pass EXCEPT ![p] = Dispatched(@, FALSE)]
  /\ UNCHANGED <<storage, used, other, resv, floor, op>>

Write(p, k) ==
  /\ pass[p].left[k] > 0
  /\ Free > 0 /\ used < MaxUsed
  /\ used' = used + 1
  /\ pass' = [pass EXCEPT ![p].left[k] = @ - 1]
  /\ UNCHANGED <<storage, other, resv, floor, op, faults>>

\* All downloads joined (what was announced is an upper bound); the first
\* release ...
PassDone(p) ==
  /\ op.step = "off"
  /\ pass[p].pc = "draining"
  /\ resv' = [resv EXCEPT !["server-depots"] = 0]
  /\ pass' = [pass EXCEPT ![p] = [IdlePass EXCEPT !.pc = "releasing"]]
  /\ UNCHANGED <<storage, used, other, floor, op, faults>>

\* ... and the second.
ReleaseSecond(p) ==
  /\ op.step = "off"
  /\ pass[p].pc = "releasing"
  /\ resv' = [resv EXCEPT !["workshop"] = 0]
  /\ pass' = [pass EXCEPT ![p] = IdlePass]
  /\ UNCHANGED <<storage, used, other, floor, op, faults>>

\* A download fails, for one because the filesystem is full: sync_content
\* returns early, cancels the rest and releases nothing.
PassFail(p) ==
  /\ pass[p].pc \in {"resolving", "draining"}
  /\ IF Free = 0 /\ \E k \in Keys : pass[p].left[k] > 0
       THEN UNCHANGED faults
       ELSE Fault
  /\ pass' = [pass EXCEPT ![p] = IdlePass]
  /\ UNCHANGED <<storage, used, other, resv, floor, op>>

-----------------------------------------------------------------------------
(***************************************************************************)
(* The rest of the node.                                                   *)
(***************************************************************************)
\* Servers write into their snapshots of the content.
OtherWrite ==
  /\ mounted
  /\ Free > 0 /\ used < MaxUsed /\ other < MaxOther
  /\ used' = used + 1
  /\ other' = other + 1
  /\ UNCHANGED <<storage, resv, floor, op, pass, faults>>

\* A mod or a server's snapshot is deleted.
Delete ==
  /\ mounted
  /\ used > 0
  /\ used' = used - 1
  /\ UNCHANGED <<storage, other, resv, floor, op, pass, faults>>

\* The plugin's process dies: mount and loop device stay, memory does not.
Crash ==
  /\ Fault
  /\ op' = Off
  /\ resv' = [k \in Keys |-> 0]
  /\ floor' = 0
  /\ pass' = [p \in Passes |->
                IF pass[p].pc = "recorded" THEN Dispatched(pass[p], FALSE) ELSE pass[p]]
  /\ UNCHANGED <<storage, used, other>>

\* The host reboots: only the image file and what is in it survive.
Reboot ==
  /\ Fault
  /\ loop' = Absent
  /\ mounted' = FALSE
  /\ op' = Off
  /\ resv' = [k \in Keys |-> 0]
  /\ floor' = 0
  /\ pass' = [p \in Passes |-> IdlePass]
  /\ UNCHANGED <<image, fs, content, used, other>>

Command ==
  \/ TruncNew \/ Attach \/ Mkfs \/ Mount \/ Subvolume
  \/ GrowTrunc \/ GrowLoop \/ GrowFs
  \/ ShrinkFs \/ ShrinkTrunc \/ ShrinkLoop
  \/ Statvfs \/ Fits

PassStep(p) ==
  \/ PassStart(p) \/ SkipBatch(p)
  \/ \E n \in 1 .. MaxBatch : Reserve(p, n)
  \/ EnsureCapacity(p)
  \/ ReserveTimeout(p)
  \/ \E k \in Keys : Write(p, k)
  \/ PassDone(p) \/ ReleaseSecond(p) \/ PassFail(p)

Next ==
  \/ EnsureCapacity("watch")
  \/ Command
  \/ CallFails
  \/ \E n \in 1 .. MaxFloor : SetFloor(n)
  \/ \E k \in Keys : Lapse(k)
  \/ \E p \in Passes : PassStep(p)
  \/ OtherWrite \/ Delete \/ Crash \/ Reboot

Spec == Init /\ [][Next]_vars

\* Commands end, one way or the other, and the watchdog ticks for ever.  Go's
\* mutex is handed over in FIFO order to a waiter that starves, hence strong
\* fairness for the calls that compete for it.
Fairness ==
  /\ WF_vars(Command \/ CallFails)
  /\ SF_vars(EnsureCapacity("watch"))

FairSpec == Spec /\ Fairness

-----------------------------------------------------------------------------
(***************************************************************************)
(* The filesystem never reaches past its backing file or its loop device,  *)
(* whichever command of growTo or shrinkTo fails or is cut off by a crash  *)
(* or a reboot: the order shrinkTo's comment argues for, "doing this       *)
(* before the btrfs resize could truncate away data".                      *)
(***************************************************************************)
FsFits ==
  fs # Absent =>
    /\ fs <= image
    /\ loop # Absent => fs <= loop

(***************************************************************************)
(* bootstrap "never re-creates or re-formats an image that's already       *)
(* there": content on the blob only ever goes away by being deleted, over  *)
(* every crash and reboot and however far the bootstrap before it got.     *)
(***************************************************************************)
NeverReformatted ==
  [][/\ used' >= used - 1
     /\ fs # Absent => fs' # Absent /\ (content => content')]_vars

(***************************************************************************)
(* A shrink leaves room for what is stored and for every reservation that  *)
(* was recorded before EnsureCapacity took mu, a concurrent Reserve's      *)
(* included ("whichever caller wins the lock computes a target that        *)
(* includes it"): it never goes below what it keeps.                       *)
(***************************************************************************)
ShrinkKeepsReservations ==
  [][fs' < fs /\ fs' # Absent =>
       /\ fs' >= used'
       /\ fs' >= clamp(op.base + headroomBytes + Reserved)
       /\ fs' >= clamp(floor)]_vars

(***************************************************************************)
(* ReserveCapacity's comment: "a caller that awaits this before            *)
(* dispatching genuinely has the room it asked for".  So the batches told  *)
(* that they are satisfied can all be written, whatever the watchdog       *)
(* shrinks and others store meanwhile.  It rests on the cap not cutting    *)
(* off what is reserved, no reservation having been lost (faults), no      *)
(* second pass ever using the same two keys, and the headroom covering     *)
(* what was stored unannounced.                                            *)
(***************************************************************************)
Promised(p, k) == IF pass[p].satisfied[k] THEN pass[p].left[k] ELSE 0
PromisedTo(p) == Promised(p, "server-depots") + Promised(p, "workshop")
WithinCap == maxSizeBytes = 0 \/ used + headroomBytes + Reserved <= maxSizeBytes
PromisedRoom ==
  WithinCap /\ faults = 0 /\ other <= headroomBytes =>
    \A p \in Passes : Passes = {p} /\ PromisedTo(p) > 0 => PromisedTo(p) <= Free

(***************************************************************************)
(* The watchdog keeps restoring the headroom: again and again the blob is  *)
(* mounted with headroomBytes free, or at its cap, whatever failed before, *)
(* unless an image was left behind without a filesystem.                   *)
(***************************************************************************)
Unformatted == image # Absent /\ fs = Absent
HeadroomRestored ==
  []<>(\/ Unformatted
       \/ mounted /\ (Free >= headroomBytes \/ (maxSizeBytes > 0 /\ fs >= maxSizeBytes)))
=============================================================================
