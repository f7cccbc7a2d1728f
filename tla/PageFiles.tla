----------------------------- MODULE PageFiles -----------------------------
(***************************************************************************)
(* The slotted page-files a namespace keeps its partitions in              *)
(* (server/src/persist/files_repo_inner.rs, slot.rs, size_class.rs).       *)
(*                                                                         *)
(* One page-file per size class; a slot holds one partition with the       *)
(* version it was written under, or nothing.  Index, free list and version *)
(* counter live in memory only and are rebuilt by a scan at start.  Every  *)
(* operation runs under the FilesRepo mutex, so at most one is under way;  *)
(* what interleaves with its disk steps is the death of the process.       *)
(*                                                                         *)
(* Abstractions.  A key is a (table, partition) pair, a value a serialized *)
(* partition; ClassOf gives the size class its slot needs.  The free list  *)
(* is a set: Vec::pop becomes the choice of any free slot.  A write is     *)
(* seen by every later read (page cache); a write under way when the       *)
(* process dies may be torn unless its slot is one sector.  I/O errors     *)
(* panic in the code and are not modelled, except the one vacuum handles.  *)
(***************************************************************************)
EXTENDS Naturals, FiniteSets, FiniteSetsExt

CONSTANTS
  Keys,          \* (table name, partition key) pairs
  Values,        \* serialized partitions
  NONE,          \* no payload, no location
  Classes,       \* size classes, i.e. page-files
  ClassOf,       \* Values -> Classes
  SectorClasses, \* classes whose slot is one disk sector: never torn
  SkipBroken,    \* values of SkipBrokenPartitions the server is started with
  MaxSlots,      \* bound: slots per page-file
  MaxVersion     \* bound: number of writes

ASSUME ClassAssumption ==
  /\ ClassOf \in [Values -> Classes]
  /\ SectorClasses \subseteq Classes
  /\ NONE \notin Values
ASSUME BoundAssumption ==
  /\ SkipBroken \subseteq BOOLEAN
  /\ MaxSlots \in Nat \ {0}
  /\ MaxVersion \in Nat

VARIABLES
  disk,         \* SlotLocation -> what the scan decodes there
  len,          \* Classes -> slots the page-file physically holds; 0: no file
  status,       \* "down", "loading", "up", or "refused" (the start panicked)
  index,        \* Keys -> location of its slot
  slotCount,    \* ClassState.slot_count
  free,         \* the locations on the free lists
  nextVersion,  \* next_version
  op,           \* the operation holding the mutex, with its locals
  promised,     \* history: what the last call for a partition promised
  torn          \* history: operations whose write a crash has torn

disks == <<disk, len>>
memory == <<index, slotCount, free, nextVersion>>
ghosts == <<promised, torn>>
vars == <<disk, len, status, index, slotCount, free, nextVersion, op, promised, torn>>

SlotLocation == Classes \X (0 .. MaxSlots - 1)
ASSUME LocationAssumption == NONE \notin SlotLocation

SizeClass(loc) == loc[1]
SlotIndex(loc) == loc[2]

Free == [state |-> "free"]
Corrupt == [state |-> "corrupt"]
Occupied(k, n, v) == [state |-> "occupied", key |-> k, version |-> n, value |-> v]

Slot == {Free, Corrupt}
        \cup [state : {"occupied"}, key : Keys, version : 0 .. MaxVersion, value : Values]

Idle == [kind |-> "idle"]

InFile(c, length) == {loc \in SlotLocation : SizeClass(loc) = c /\ SlotIndex(loc) < length}
Holding(state) ==
  {loc \in SlotLocation : SlotIndex(loc) < len[SizeClass(loc)] /\ disk[loc].state = state}
FreeIn(c) == {loc \in free : SizeClass(loc) = c}
LiveIn(c) == {k \in Keys : index[k] # NONE /\ SizeClass(index[k]) = c}

Init ==
  /\ disk = [loc \in SlotLocation |-> Free]
  /\ len = [c \in Classes |-> 0]
  /\ status = "up"
  /\ index = [k \in Keys |-> NONE]
  /\ slotCount = [c \in Classes |-> 0]
  /\ free = {}
  /\ nextVersion = 1
  /\ op = Idle
  /\ promised = [k \in Keys |-> NONE]
  /\ torn = {}

-----------------------------------------------------------------------------
(* save_partition: target, index and version are settled in memory first. *)

SameClass(k, v) == index[k] # NONE /\ SizeClass(index[k]) = ClassOf[v]

(* allocate_slot: a freed slot when there is one, else one more at the end. *)
AllocateSlot(c) ==
  IF FreeIn(c) # {} THEN FreeIn(c)
  ELSE IF slotCount[c] < MaxSlots THEN {<<c, slotCount[c]>>} ELSE {}

TargetSlots(k, v) == IF SameClass(k, v) THEN {index[k]} ELSE AllocateSlot(ClassOf[v])

Save(k, v) ==
  /\ status = "up" /\ op = Idle
  /\ nextVersion <= MaxVersion
  /\ \E target \in TargetSlots(k, v) :
       /\ index' = [index EXCEPT ![k] = target]
       /\ free' = free \ {target}
       /\ slotCount' = [slotCount EXCEPT ![SizeClass(target)] =
                          IF SlotIndex(target) = @ THEN @ + 1 ELSE @]
       /\ op' = [kind |-> "write", at |-> target, old |-> index[k],
                 slot |-> Occupied(k, nextVersion, v)]
  /\ nextVersion' = nextVersion + 1
  /\ promised' = [promised EXCEPT ![k] = v]
  /\ UNCHANGED <<disks, status, torn>>

(* write_slot, then on to the old slot when the partition has moved. *)
WriteSlot ==
  /\ status = "up" /\ op.kind = "write"
  /\ disk' = [disk EXCEPT ![op.at] = op.slot]
  /\ len' = [len EXCEPT ![SizeClass(op.at)] =
               IF SlotIndex(op.at) >= @ THEN SlotIndex(op.at) + 1 ELSE @]
  /\ op' = IF op.old \in {NONE, op.at} THEN Idle
           ELSE [kind |-> "zero", at |-> op.old, key |-> op.slot.key, value |-> op.slot.value]
  /\ UNCHANGED <<status, memory, ghosts>>

(* delete_partition of a key the index knows; of any other it does nothing. *)
Delete(k) ==
  /\ status = "up" /\ op = Idle
  /\ index[k] # NONE
  /\ index' = [index EXCEPT ![k] = NONE]
  /\ op' = [kind |-> "zero", at |-> index[k], key |-> k, value |-> NONE]
  /\ promised' = [promised EXCEPT ![k] = NONE]
  /\ UNCHANGED <<disks, status, slotCount, free, nextVersion, torn>>

(* zero_slot of a left or deleted slot, which then joins the free list. *)
ZeroSlot ==
  /\ status = "up" /\ op.kind = "zero"
  /\ disk' = [disk EXCEPT ![op.at] = Free]
  /\ free' = free \cup {op.at}
  /\ op' = Idle
  /\ UNCHANGED <<len, status, index, slotCount, nextVersion, ghosts>>

-----------------------------------------------------------------------------
(* vacuum: phase 1 removes dead page-files, phase 2 compacts half-empty     *)
(* ones.  The mutex is held from the first step to the last.                *)

FullyFree(c) == slotCount[c] > 0 /\ InFile(c, slotCount[c]) \subseteq free

(* Slip: page-files of three slots are left alone too. *)
HalfEmptyAndLarge(c) ==
  /\ slotCount[c] > 3
  /\ Cardinality(FreeIn(c)) < slotCount[c]
  /\ Cardinality(FreeIn(c)) * 2 >= slotCount[c]

HalfEmpty(c) ==
  /\ slotCount[c] > 2
  /\ Cardinality(FreeIn(c)) < slotCount[c]
  /\ Cardinality(FreeIn(c)) * 2 >= slotCount[c]

Vacuum ==
  /\ status = "up" /\ op = Idle
  /\ op' = [kind |-> "remove", classes |-> {c \in Classes : FullyFree(c)}]
  /\ UNCHANGED <<disks, status, memory, ghosts>>

VacuumRemoveFile(c) ==
  /\ status = "up" /\ op.kind = "remove" /\ c \in op.classes
  /\ disk' = [loc \in SlotLocation |-> IF SizeClass(loc) = c THEN Free ELSE disk[loc]]
  /\ len' = [len EXCEPT ![c] = 0]
  /\ slotCount' = [slotCount EXCEPT ![c] = 0]
  /\ free' = free \ FreeIn(c)
  /\ op' = [op EXCEPT !.classes = @ \ {c}]
  /\ UNCHANGED <<status, index, nextVersion, ghosts>>

(* The file can not be removed: left for the next pass. *)
VacuumRemoveFails(c) ==
  /\ status = "up" /\ op.kind = "remove" /\ c \in op.classes
  /\ op' = [op EXCEPT !.classes = @ \ {c}]
  /\ UNCHANGED <<disks, status, memory, ghosts>>

VacuumChooseCompactions ==
  /\ status = "up" /\ op.kind = "remove" /\ op.classes = {}
  /\ op' = [kind |-> "compact", classes |-> {c \in Classes : HalfEmpty(c)}]
  /\ UNCHANGED <<disks, status, memory, ghosts>>

(* compact_class: live slots past the new end pair up with free slots before it. *)
LiveCount(c) == slotCount[c] - Cardinality(FreeIn(c))
TailLives(c) == {k \in LiveIn(c) : SlotIndex(index[k]) >= LiveCount(c)}
HeadFrees(c) == {loc \in FreeIn(c) : SlotIndex(loc) < LiveCount(c)}

Pairings(from, to) ==
  {m \in [from -> to] : \A k1, k2 \in from : m[k1] = m[k2] => k1 = k2}

(* Slip: the file is cut without copying its tail. *)
CompactWithoutCopies(c) ==
  /\ status = "up" /\ op.kind = "compact" /\ c \in op.classes
  /\ \E moves \in Pairings(TailLives(c), HeadFrees(c)) :
       op' = [kind |-> "copy", class |-> c, live |-> LiveCount(c), moves |-> moves,
              left |-> {}, classes |-> op.classes \ {c}]
  /\ UNCHANGED <<disks, status, memory, ghosts>>

CompactBegin(c) ==
  /\ status = "up" /\ op.kind = "compact" /\ c \in op.classes
  /\ \E moves \in Pairings(TailLives(c), HeadFrees(c)) :
       op' = [kind |-> "copy", class |-> c, live |-> LiveCount(c), moves |-> moves,
              left |-> TailLives(c), classes |-> op.classes \ {c}]
  /\ UNCHANGED <<disks, status, memory, ghosts>>

CompactCopy(k) ==
  /\ status = "up" /\ op.kind = "copy" /\ k \in op.left
  /\ disk' = [disk EXCEPT ![op.moves[k]] = disk[index[k]]]
  /\ op' = [op EXCEPT !.left = @ \ {k}]
  /\ UNCHANGED <<len, status, memory, ghosts>>

(* Every copy is synced; the file is cut and the index repointed. *)
CompactTruncate ==
  /\ status = "up" /\ op.kind = "copy" /\ op.left = {}
  /\ disk' = [loc \in SlotLocation |->
                IF SizeClass(loc) = op.class /\ SlotIndex(loc) >= op.live
                THEN Free ELSE disk[loc]]
  /\ len' = [len EXCEPT ![op.class] = op.live]
  /\ index' = [k \in Keys |-> IF k \in DOMAIN op.moves THEN op.moves[k] ELSE index[k]]
  /\ slotCount' = [slotCount EXCEPT ![op.class] = op.live]
  /\ free' = free \ FreeIn(op.class)
  /\ op' = [kind |-> "compact", classes |-> op.classes]
  /\ UNCHANGED <<status, nextVersion, ghosts>>

VacuumEnd ==
  /\ status = "up" /\ op.kind = "compact" /\ op.classes = {}
  /\ op' = Idle
  /\ UNCHANGED <<disks, status, memory, ghosts>>

-----------------------------------------------------------------------------
(* The process dies.  The one slot being written may be left torn, in a     *)
(* page-file that may or may not have grown to hold it.  A call that had    *)
(* not returned promised nothing: it counts for what it left on disk.       *)

Copies(k) == {loc \in Holding("occupied") : disk[loc].key = k}

(* Within a page-file slots are scanned in order and only a strictly higher *)
(* version replaces the winner so far; page-files come in no order.         *)
Wins(loc, k) ==
  /\ loc \in Copies(k)
  /\ \A other \in Copies(k) :
       /\ disk[other].version <= disk[loc].version
       /\ (disk[other].version = disk[loc].version /\ SizeClass(other) = SizeClass(loc))
             => SlotIndex(loc) <= SlotIndex(other)

(* What a start would load for a partition. *)
Content(k) == IF Copies(k) = {} THEN NONE
              ELSE disk[CHOOSE loc \in Copies(k) : Wins(loc, k)].value

Unreturned ==
  CASE op.kind = "write" -> {op.slot.key}
    [] op.kind = "zero"  -> {op.key}
    [] OTHER             -> {}

BeingWritten ==
  {loc \in CASE op.kind = "write" -> {op.at}
             [] op.kind = "copy"  -> {op.moves[k] : k \in op.left}
             [] OTHER             -> {} : SizeClass(loc) \notin SectorClasses}

Tear(loc) ==
  /\ disk' = [disk EXCEPT ![loc] = Corrupt]
  /\ len' = [len EXCEPT ![SizeClass(loc)] =
               IF SlotIndex(loc) >= @ THEN SlotIndex(loc) + 1 ELSE @]
  /\ torn' = torn \cup {op.kind}

Crash ==
  /\ status \in {"loading", "up"}
  /\ status' = "down"
  /\ index' = [k \in Keys |-> NONE]
  /\ slotCount' = [c \in Classes |-> 0]
  /\ free' = {}
  /\ nextVersion' = 0
  /\ op' = Idle
  /\ \/ UNCHANGED <<disks, torn>>
     \/ \E loc \in BeingWritten : Tear(loc)
  /\ promised' = [k \in Keys |-> IF k \in Unreturned THEN Content(k)' ELSE promised[k]]

-----------------------------------------------------------------------------
(* open and load_all_partitions: discover the files, scan every slot, keep  *)
(* the highest version of each key, zero and free the losers.               *)

OnDisk == {disk[loc].key : loc \in Holding("occupied")}
Winners == {w \in [OnDisk -> Holding("occupied")] : \A k \in OnDisk : Wins(w[k], k)}
MaxVersionSeen == IF Holding("occupied") = {} THEN 0
                  ELSE Max({disk[loc].version : loc \in Holding("occupied")})

NothingBroken == Holding("corrupt") = {}

RefuseToStart ==
  /\ status = "down"
  /\ FALSE \in SkipBroken /\ ~NothingBroken
  /\ status' = "refused"
  /\ UNCHANGED <<disks, memory, op, ghosts>>

Scan ==
  /\ status \in {"down", "refused"}
  /\ TRUE \in SkipBroken \/ NothingBroken
  /\ status' = "loading"
  /\ slotCount' = len
  /\ free' = Holding("free") \cup Holding("corrupt")
  /\ \E w \in Winners :
       op' = [kind |-> "recover", winners |-> w, seen |-> MaxVersionSeen,
              losers |-> Holding("occupied") \ {w[k] : k \in OnDisk}]
  /\ UNCHANGED <<disks, index, nextVersion, ghosts>>

ZeroLoser(loc) ==
  /\ status = "loading" /\ loc \in op.losers
  /\ disk' = [disk EXCEPT ![loc] = Free]
  /\ free' = free \cup {loc}
  /\ op' = [op EXCEPT !.losers = @ \ {loc}]
  /\ UNCHANGED <<len, status, index, slotCount, nextVersion, ghosts>>

LoadedFrom(version) ==
  /\ status = "loading" /\ op.losers = {}
  /\ status' = "up"
  /\ nextVersion' = version
  /\ index' = [k \in Keys |-> IF k \in DOMAIN op.winners THEN op.winners[k] ELSE NONE]
  /\ op' = Idle
  /\ UNCHANGED <<disks, slotCount, free, ghosts>>

(* Slip: the counter starts at the highest version there is. *)
LoadedAtHighest == LoadedFrom(op.seen)

Loaded == LoadedFrom(op.seen + 1)

-----------------------------------------------------------------------------
Next ==
  \/ \E k \in Keys, v \in Values : Save(k, v)
  \/ \E k \in Keys : Delete(k) \/ CompactCopy(k)
  \/ WriteSlot \/ ZeroSlot
  \/ Vacuum \/ VacuumChooseCompactions \/ CompactTruncate \/ VacuumEnd
  \/ \E c \in Classes : VacuumRemoveFile(c) \/ VacuumRemoveFails(c) \/ CompactBegin(c)
  \/ Crash \/ RefuseToStart \/ Scan \/ Loaded
  \/ \E loc \in SlotLocation : ZeroLoser(loc)

Spec == Init /\ [][Next]_vars

-----------------------------------------------------------------------------
Operations ==
  {Idle}
  \cup [kind : {"write"}, at : SlotLocation, old : SlotLocation \cup {NONE}, slot : Slot]
  \cup [kind : {"zero"}, at : SlotLocation, key : Keys, value : Values \cup {NONE}]
  \cup [kind : {"remove", "compact"}, classes : SUBSET Classes]
  \cup [kind : {"copy"}, class : Classes, live : 0 .. MaxSlots,
        moves : UNION {[from -> SlotLocation] : from \in SUBSET Keys},
        left : SUBSET Keys, classes : SUBSET Classes]
  \cup [kind : {"recover"}, losers : SUBSET SlotLocation, seen : 0 .. MaxVersion,
        winners : UNION {[from -> SlotLocation] : from \in SUBSET Keys}]

(* The types of the variables. *)
TypeOK ==
  /\ disk \in [SlotLocation -> Slot]
  /\ len \in [Classes -> 0 .. MaxSlots]
  /\ status \in {"down", "loading", "up", "refused"}
  /\ index \in [Keys -> SlotLocation \cup {NONE}]
  /\ slotCount \in [Classes -> 0 .. MaxSlots]
  /\ free \subseteq SlotLocation
  /\ nextVersion \in 0 .. MaxVersion + 1
  /\ op \in Operations
  /\ promised \in [Keys -> Values \cup {NONE}]
  /\ torn \subseteq {"write", "copy"}

(* Between operations of a running repo, the slots of every page-file are    *)
(* split between the free list and the index, and no two partitions share    *)
(* one: what compact_class relies on ("live and free slots partition         *)
(* 0..slot_count", the assertion on its pairs) and what keeps a reused slot  *)
(* from overwriting somebody's partition.                                    *)
SlotsPartitioned ==
  (status = "up" /\ op = Idle) =>
    /\ \A c \in Classes :
         LET live == {index[k] : k \in LiveIn(c)} IN
         /\ live \cap FreeIn(c) = {}
         /\ live \cup FreeIn(c) = InFile(c, slotCount[c])
         /\ Cardinality(live) = Cardinality(LiveIn(c))
    /\ len = slotCount

(* The assertion of compact_class: as many live slots to move as free slots  *)
(* to move them to.                                                          *)
CompactionPairsUp ==
  (op.kind = "compact" /\ status = "up") =>
    \A c \in op.classes : Cardinality(TailLives(c)) = Cardinality(HeadFrees(c))

(* No slot on disk carries a version the next write could repeat or go       *)
(* below: the dedup of the next start would prefer the stale slot.           *)
VersionsAhead ==
  status = "up" =>
    \A loc \in Holding("occupied") : disk[loc].version < nextVersion

(* Two slots of one partition with the same version are the two halves of an *)
(* interrupted compaction: same page-file, same content, so whichever of     *)
(* them wins, the same rows are loaded.                                      *)
TiesAreCopies ==
  \A a, b \in Holding("occupied") :
    (disk[a].key = disk[b].key /\ disk[a].version = disk[b].version) =>
      disk[a] = disk[b] /\ SizeClass(a) = SizeClass(b)

(* A vacuum that has run to its end leaves no page-file that one more pass   *)
(* would compact.                                                            *)
VacuumReclaims ==
  [][(op.kind \in {"compact", "copy"} /\ op'.kind = "idle" /\ status' = "up") =>
        \A c \in Classes :
          LET unused == Cardinality(FreeIn(c)') IN
          (slotCount'[c] > 2 /\ unused < slotCount'[c]) => unused * 2 < slotCount'[c]]_vars

(* Whatever happened since (other calls, a vacuum, a crash inside either, a  *)
(* recovery cut short), a start loads every partition as the last call that  *)
(* returned left it: nothing saved is lost, nothing deleted comes back.      *)
PromisesKept == \A k \in Keys \ Unreturned : Content(k) = promised[k]

(* What holds at every step of the page-files: the slots agree with the      *)
(* index, versions order the copies of a partition, and a start at this      *)
(* moment would load what was promised (files_repo_inner.rs:141-220, 318-468).*)
Inv ==
  /\ TypeOK
  /\ SlotsPartitioned
  /\ CompactionPairsUp
  /\ VersionsAhead
  /\ TiesAreCopies
  /\ PromisesKept

(* The same, step by step: save and delete calls take effect one at a time   *)
(* and as a whole, and nothing else ever changes what a start would load.    *)
Call ==
  CASE op.kind = "write" ->
         {[key |-> op.slot.key, value |-> op.slot.value,
           fragile |-> op.at = op.old /\ SizeClass(op.at) \notin SectorClasses]}
    [] op.kind = "zero" -> {[key |-> op.key, value |-> op.value, fragile |-> FALSE]}
    [] OTHER -> {}

Promise == INSTANCE PartitionStore
             WITH content <- [k \in Keys |-> Content(k)], inflight <- Call

ImplementsPartitionStore == Promise!Spec

(* The doc comment of compact_class: "a torn copy fails its crc on the next  *)
(* scan and is skipped while the original tail slot still holds the data".   *)
(* So a crash that only ever tore compaction copies never keeps the server   *)
(* from starting.                                                            *)
TornCopyIsSkipped == (torn = {"copy"}) => status # "refused"
=============================================================================
