--------------------------- MODULE PageFilesProofs ---------------------------
(***************************************************************************)
(* PageFiles for any number of partitions, payloads, size classes, slots   *)
(* and writes: slots and index agree, versions order the copies of a       *)
(* partition, what was promised is what a start would load, and all of it  *)
(* together implements PartitionStore.                                     *)
(***************************************************************************)
EXTENDS PageFiles, FunctionTheorems, FiniteSetTheorems, WellFoundedInduction, TLAPS

(* The slot a call has yet to zero: the partition has left it. *)
Pending ==
  {loc \in SlotLocation :
     \/ op.kind = "write" /\ op.old # op.at /\ loc = op.old
     \/ op.kind = "zero" /\ loc = op.at}

(* The partition of the call under way. *)
Calling == IF op.kind = "write" THEN op.slot.key ELSE op.key

Occupies(loc, k) == loc \in Holding("occupied") /\ disk[loc].key = k
NotOlder(loc, k) ==
  \A other \in SlotLocation : Occupies(other, k) => disk[other].version <= disk[loc].version

(* What a start would load for a partition, without choosing a copy. *)
Loads(k, value) ==
  IF value = NONE THEN \A loc \in SlotLocation : ~Occupies(loc, k)
  ELSE \E loc \in SlotLocation :
         Occupies(loc, k) /\ disk[loc].value = value /\ NotOlder(loc, k)

(* An operation is under way only in the state that can run it. *)
Modes ==
  /\ status \in {"down", "refused"} => op = Idle
  /\ status = "loading" <=> op.kind = "recover"

(* The index and the free list split the slots of every page-file, but for   *)
(* the slot a call has yet to zero and the one it has yet to write.          *)
Memory == status = "up" =>
  /\ \A k, other \in Keys : index[k] = index[other] /\ index[k] # NONE => k = other
  /\ \A loc \in SlotLocation :
       SlotIndex(loc) < slotCount[SizeClass(loc)] <=>
         \/ loc \in free
         \/ loc \in Pending
         \/ \E k \in Keys : index[k] = loc
  /\ \A k \in Keys : index[k] \notin free \cup Pending
  /\ free \cap Pending = {}
  /\ \A c \in Classes :
       \/ len[c] = slotCount[c]
       \/ /\ op.kind = "write" /\ SizeClass(op.at) = c
          /\ SlotIndex(op.at) = len[c] /\ slotCount[c] = len[c] + 1

(* Nothing is on disk that memory does not know of, and the other way round. *)
Disk == status = "up" =>
  /\ \A loc \in Holding("occupied") :
       LET k == disk[loc].key IN
       \/ loc = index[k]
       \/ loc \in Pending /\ k = Calling
       \/ op.kind = "copy" /\ k \in DOMAIN op.moves \ op.left /\ loc = op.moves[k]
  /\ \A k \in Keys :
       index[k] # NONE => \/ Occupies(index[k], k)
                          \/ op.kind = "write" /\ op.slot.key = k

(* A write goes to the slot of its partition or to one that holds nothing,   *)
(* under a version above every other; the slot it leaves still holds the     *)
(* partition, and what is zeroed afterwards is the older copy.               *)
Writing == op.kind = "write" =>
  /\ op.slot = Occupied(op.slot.key, op.slot.version, op.slot.value)
  /\ op.slot.key \in Keys /\ op.slot.value \in Values
  /\ index[op.slot.key] = op.at
  /\ op.slot.version \in 0 .. MaxVersion
  /\ op.slot.version + 1 = nextVersion
  /\ \A loc \in Holding("occupied") : disk[loc].version < op.slot.version
  /\ op.old # op.at => op.at \notin Holding("occupied")
  /\ op.old # NONE => Occupies(op.old, op.slot.key)
  /\ promised[op.slot.key] = op.slot.value

Zeroing == op.kind = "zero" =>
  /\ Occupies(op.at, op.key)
  /\ promised[op.key] = op.value
  /\ op.value = NONE => index[op.key] = NONE
  /\ op.value # NONE =>
       /\ Occupies(index[op.key], op.key)
       /\ disk[index[op.key]].value = op.value
       /\ disk[op.at].version < disk[index[op.key]].version

(* What a vacuum has found of the page-files it has yet to look at still     *)
(* holds: nobody else changes them meanwhile.                                *)
Vacuuming ==
  /\ op.kind = "remove" => \A c \in op.classes : LiveIn(c) = {}
  /\ op.kind = "compact" => \A c \in Classes : c \in op.classes <=> HalfEmpty(c)
  /\ op.kind = "copy" =>
       /\ op.class \notin op.classes
       /\ \A c \in Classes \ {op.class} : c \in op.classes <=> HalfEmpty(c)
       /\ HalfEmpty(op.class)
       /\ op.live = LiveCount(op.class)
       /\ op.moves \in Pairings(TailLives(op.class), HeadFrees(op.class))
       /\ op.left \subseteq DOMAIN op.moves
       /\ \A k \in DOMAIN op.moves \ op.left :
            Occupies(op.moves[k], k) /\ disk[op.moves[k]] = disk[index[k]]

(* A start has a winner for every partition, newer than all its other        *)
(* copies; those are still to be zeroed or are zeroed and free.              *)
Recovering == op.kind = "recover" =>
  /\ \A k \in DOMAIN op.winners :
       /\ Occupies(op.winners[k], k) /\ NotOlder(op.winners[k], k)
       /\ op.winners[k] \notin op.losers
  /\ op.losers \subseteq Holding("occupied")
  /\ \A loc \in Holding("occupied") :
       /\ disk[loc].key \in DOMAIN op.winners
       /\ loc = op.winners[disk[loc].key] \/ loc \in op.losers
       /\ disk[loc].version <= op.seen
  /\ \A loc \in SlotLocation :
       loc \in free <=> /\ SlotIndex(loc) < len[SizeClass(loc)]
                        /\ disk[loc].state # "occupied"
  /\ slotCount = len

Promised == \A k \in Keys \ Unreturned : Loads(k, promised[k])

(* The inductive invariant. *)
IInv ==
  /\ TypeOK
  /\ Modes
  /\ Memory
  /\ Disk
  /\ Writing
  /\ Zeroing
  /\ Vacuuming
  /\ Recovering
  /\ VersionsAhead
  /\ TiesAreCopies
  /\ Promised

-----------------------------------------------------------------------------
(* Locations. *)

LEMMA LocParts ==
  ASSUME NEW loc \in SlotLocation
  PROVE  SizeClass(loc) \in Classes /\ SlotIndex(loc) \in 0 .. MaxSlots - 1
         /\ SlotIndex(loc) \in Nat
BY BoundAssumption DEF SlotLocation, SizeClass, SlotIndex

LEMMA LocEqual ==
  ASSUME NEW a \in SlotLocation, NEW b \in SlotLocation,
         SizeClass(a) = SizeClass(b), SlotIndex(a) = SlotIndex(b)
  PROVE  a = b
BY DEF SlotLocation, SizeClass, SlotIndex

LEMMA LocOf ==
  ASSUME NEW c \in Classes, NEW n \in 0 .. MaxSlots - 1
  PROVE  /\ <<c, n>> \in SlotLocation
         /\ SizeClass(<<c, n>>) = c
         /\ SlotIndex(<<c, n>>) = n
BY DEF SlotLocation, SizeClass, SlotIndex

LEMMA InFileParts ==
  ASSUME NEW c, NEW n, NEW loc
  PROVE  loc \in InFile(c, n) <=> loc \in SlotLocation /\ SizeClass(loc) = c /\ SlotIndex(loc) < n
BY DEF InFile

(* The first n slots of a page-file are n. *)
LEMMA InFileSize ==
  ASSUME NEW c \in Classes, NEW n \in 0 .. MaxSlots
  PROVE  IsFiniteSet(InFile(c, n)) /\ Cardinality(InFile(c, n)) = n
<1> DEFINE f == [i \in 1 .. n |-> <<c, i - 1>>]
<1>1. \A i \in 1 .. n : /\ f[i] \in InFile(c, n)
                        /\ SlotIndex(f[i]) = i - 1
  BY LocOf, BoundAssumption DEF InFile
<1>2. f \in Bijection(1 .. n, InFile(c, n))
  <2>1. f \in [1 .. n -> InFile(c, n)]
    BY <1>1
  <2>2. \A i, j \in 1 .. n : f[i] = f[j] => i = j
    BY <1>1
  <2>3. \A loc \in InFile(c, n) : \E i \in 1 .. n : f[i] = loc
    <3> SUFFICES ASSUME NEW loc \in InFile(c, n) PROVE \E i \in 1 .. n : f[i] = loc
      OBVIOUS
    <3>1. loc \in SlotLocation /\ SizeClass(loc) = c /\ SlotIndex(loc) < n
      BY DEF InFile
    <3>2. SlotIndex(loc) + 1 \in 1 .. n
      BY <3>1, LocParts
    <3>3. f[SlotIndex(loc) + 1] = <<c, SlotIndex(loc)>>
      BY <3>2, <3>1, LocParts
    <3>4. f[SlotIndex(loc) + 1] = loc
      BY <3>3, <3>1, LocParts, LocOf, LocEqual
    <3> QED BY <3>2, <3>4
  <2> HIDE DEF f
  <2> QED BY <2>1, <2>2, <2>3, Fun_IsInj, Fun_IsSurj, Fun_IsBij
<1>3. IsFiniteSet(1 .. n) /\ Cardinality(1 .. n) = n
  BY FS_Interval, BoundAssumption
<1>4. ExistsBijection(1 .. n, InFile(c, n))
  BY <1>2 DEF ExistsBijection
<1> QED BY <1>3, <1>4, FS_Bijection

(* A set of numbers with a least and, when bounded, a greatest member. *)
LEMMA LeastExists ==
  ASSUME NEW S, S \subseteq Nat, S # {}
  PROVE  \E n \in S : \A m \in S : n <= m
<1> DEFINE Below(n) == 0 .. n - 1
           T == {Below(n) : n \in S}
<1>1. T \subseteq FiniteSubsetsOf(Nat) /\ T # {}
  <2>1. \A n \in S : n \in Nat /\ n - 1 \in Int
    OBVIOUS
  <2>2. \A n \in S : IsFiniteSet(Below(n)) /\ Below(n) \subseteq Nat
    BY <2>1, FS_Interval
  <2> HIDE DEF Below
  <2> QED BY <2>2 DEF FiniteSubsetsOf
<1>2. PICK least \in T : \A other \in T : <<other, least>> \notin StrictSubsetOrdering(Nat)
  <2> HIDE DEF T
  <2> QED BY <1>1, FS_StrictSubsetOrderingWellFounded, WFMin
<1>3. PICK n \in S : least = Below(n)
  OBVIOUS
<1>4. \A m \in S : ~ (m < n)
  <2> SUFFICES ASSUME NEW m \in S, m < n PROVE FALSE
    OBVIOUS
  <2>1. Below(m) \in T /\ Below(m) \subseteq Below(n) /\ Below(m) # Below(n)
    <3>1. m \in Below(n) /\ m \notin Below(m)
      OBVIOUS
    <3> QED BY <3>1
  <2>2. <<Below(m), Below(n)>> \in StrictSubsetOrdering(Nat)
    BY <2>1 DEF StrictSubsetOrdering
  <2> QED BY <1>2, <1>3, <2>1, <2>2
<1> QED BY <1>3, <1>4

LEMMA GreatestExists ==
  ASSUME NEW bound \in Nat, NEW S, S \subseteq 0 .. bound, S # {}
  PROVE  \E n \in S : \A m \in S : m <= n
<1> DEFINE T == {bound - n : n \in S}
<1>1. T \subseteq Nat /\ T # {}
  <2>1. \A n \in S : n \in Nat /\ n <= bound
    OBVIOUS
  <2>2. \A n \in S : bound - n \in Nat
    BY <2>1
  <2> QED BY <2>2
<1>2. PICK least \in T : \A m \in T : least <= m
  <2> HIDE DEF T
  <2> QED BY <1>1, LeastExists
<1>3. PICK n \in S : least = bound - n
  OBVIOUS
<1>4. \A m \in S : bound - n <= bound - m
  BY <1>2, <1>3
<1> QED BY <1>3, <1>4

-----------------------------------------------------------------------------
(* What a slot and an operation are made of. *)

LEMMA SlotShape ==
  ASSUME disk \in [SlotLocation -> Slot], NEW loc \in Holding("occupied")
  PROVE  /\ loc \in SlotLocation
         /\ SlotIndex(loc) < len[SizeClass(loc)]
         /\ disk[loc].key \in Keys
         /\ disk[loc].version \in 0 .. MaxVersion
         /\ disk[loc].value \in Values
         /\ disk[loc] = Occupied(disk[loc].key, disk[loc].version, disk[loc].value)
<1>1. loc \in SlotLocation /\ disk[loc] \in Slot /\ disk[loc].state = "occupied"
      /\ SlotIndex(loc) < len[SizeClass(loc)]
  BY DEF Holding
<1>2. disk[loc] \in [state : {"occupied"}, key : Keys, version : 0 .. MaxVersion, value : Values]
  BY <1>1 DEF Slot, Free, Corrupt
<1> QED BY <1>1, <1>2 DEF Occupied

LEMMA SlotTypes ==
  ASSUME TypeOK, NEW loc \in Holding("occupied")
  PROVE  /\ loc \in SlotLocation
         /\ SlotIndex(loc) < len[SizeClass(loc)]
         /\ disk[loc].key \in Keys
         /\ disk[loc].version \in 0 .. MaxVersion
         /\ disk[loc].value \in Values
         /\ disk[loc] = Occupied(disk[loc].key, disk[loc].version, disk[loc].value)
BY SlotShape DEF TypeOK

LEMMA OccupiedType ==
  ASSUME NEW k \in Keys, NEW n \in 0 .. MaxVersion, NEW v \in Values
  PROVE  /\ Occupied(k, n, v) \in Slot
         /\ Occupied(k, n, v).state = "occupied"
         /\ Occupied(k, n, v).key = k
         /\ Occupied(k, n, v).version = n
         /\ Occupied(k, n, v).value = v
BY DEF Occupied, Slot

LEMMA OccupiesShape ==
  ASSUME disk \in [SlotLocation -> Slot], NEW loc, NEW k, Occupies(loc, k)
  PROVE  /\ loc \in SlotLocation /\ k \in Keys /\ disk[loc].key = k
         /\ disk[loc].version \in 0 .. MaxVersion
         /\ disk[loc].version \in Nat
         /\ disk[loc].value \in Values
BY SlotShape, BoundAssumption DEF Occupies

LEMMA OccupiesTypes ==
  ASSUME TypeOK, NEW loc, NEW k, Occupies(loc, k)
  PROVE  /\ loc \in SlotLocation /\ k \in Keys /\ disk[loc].key = k
         /\ disk[loc].version \in 0 .. MaxVersion
         /\ disk[loc].version \in Nat
         /\ disk[loc].value \in Values
BY OccupiesShape DEF TypeOK

LEMMA OpTypes ==
  ASSUME op \in Operations
  PROVE  /\ op.kind \in {"idle", "write", "zero", "remove", "compact", "copy", "recover"}
         /\ op.kind = "idle" <=> op = Idle
         /\ op.kind = "write" =>
              op.at \in SlotLocation /\ op.old \in SlotLocation \cup {NONE} /\ op.slot \in Slot
         /\ op.kind = "zero" =>
              op.at \in SlotLocation /\ op.key \in Keys /\ op.value \in Values \cup {NONE}
         /\ op.kind \in {"remove", "compact"} => op.classes \subseteq Classes
         /\ op.kind = "copy" =>
              /\ op.class \in Classes /\ op.live \in 0 .. MaxSlots
              /\ op.left \subseteq Keys /\ op.classes \subseteq Classes
              /\ DOMAIN op.moves \subseteq Keys
              /\ \A k \in DOMAIN op.moves : op.moves[k] \in SlotLocation
         /\ op.kind = "recover" =>
              /\ op.losers \subseteq SlotLocation /\ op.seen \in 0 .. MaxVersion
              /\ DOMAIN op.winners \subseteq Keys
              /\ \A k \in DOMAIN op.winners : op.winners[k] \in SlotLocation
BY DEF Operations, Idle

-----------------------------------------------------------------------------
(* What a start loads. *)

(* A partition that has a copy has one that is not older than any other. *)
LEMMA NewestExists ==
  ASSUME disk \in [SlotLocation -> Slot], NEW k \in Keys, NEW copy, Occupies(copy, k)
  PROVE  \E loc \in SlotLocation : Occupies(loc, k) /\ NotOlder(loc, k)
<1> DEFINE V == {disk[loc].version : loc \in {l \in SlotLocation : Occupies(l, k)}}
<1>1. V \subseteq 0 .. MaxVersion /\ V # {}
  BY OccupiesShape
<1>2. PICK n \in V : \A m \in V : m <= n
  <2> HIDE DEF V
  <2> QED BY <1>1, GreatestExists, BoundAssumption
<1> QED BY <1>2 DEF NotOlder

(* Among the newest copies, all alike, the first of the page-file wins. *)
LEMMA WinnerExists ==
  ASSUME disk \in [SlotLocation -> Slot], TiesAreCopies, NEW k \in Keys, NEW copy, Occupies(copy, k)
  PROVE  \E loc \in Copies(k) : Wins(loc, k)
<1>1. PICK newest \in SlotLocation : Occupies(newest, k) /\ NotOlder(newest, k)
  BY NewestExists
<1> DEFINE Tied == {l \in SlotLocation :
                      Occupies(l, k) /\ disk[l].version = disk[newest].version}
           I == {SlotIndex(l) : l \in Tied}
<1>2. I \subseteq Nat /\ I # {}
  BY <1>1, LocParts
<1>3. PICK n \in I : \A m \in I : n <= m
  <2> HIDE DEF I
  <2> QED BY <1>2, LeastExists
<1>4. PICK loc \in Tied : SlotIndex(loc) = n
  BY <1>3
<1>5. loc \in Copies(k)
  BY <1>4 DEF Copies, Occupies
<1>6. \A other \in Copies(k) : Occupies(other, k) /\ other \in SlotLocation
  BY OccupiesShape DEF Copies, Occupies
<1>7. \A other \in Copies(k) : disk[other].version <= disk[loc].version
  BY <1>1, <1>4, <1>6 DEF NotOlder
<1>8. ASSUME NEW other \in Copies(k), disk[other].version = disk[loc].version
      PROVE  SlotIndex(loc) <= SlotIndex(other)
  BY <1>3, <1>4, <1>6, <1>8
<1> QED BY <1>5, <1>7, <1>8 DEF Wins

LEMMA ContentIs ==
  ASSUME disk \in [SlotLocation -> Slot], TiesAreCopies, NEW k \in Keys, NEW value, Loads(k, value)
  PROVE  Content(k) = value
<1>1. CASE value = NONE
  BY <1>1, OccupiesShape DEF Loads, Content, Copies, Occupies, Holding
<1>2. CASE value # NONE
  <2>1. PICK newest \in SlotLocation :
          Occupies(newest, k) /\ disk[newest].value = value /\ NotOlder(newest, k)
    BY <1>2 DEF Loads
  <2> DEFINE chosen == CHOOSE loc \in Copies(k) : Wins(loc, k)
  <2>2. chosen \in Copies(k) /\ Wins(chosen, k)
    BY <2>1, WinnerExists
  <2>3. newest \in Copies(k) /\ Occupies(chosen, k)
    BY <2>1, <2>2 DEF Copies, Occupies
  <2>4. disk[chosen].version = disk[newest].version
    <3>1. disk[newest].version <= disk[chosen].version
      BY <2>2, <2>3 DEF Wins
    <3>2. disk[chosen].version <= disk[newest].version
      BY <2>1, <2>3, OccupiesShape DEF NotOlder
    <3> HIDE DEF chosen
    <3> QED BY <3>1, <3>2, <2>1, <2>3, OccupiesShape
  <2>5. disk[chosen] = disk[newest]
    BY <2>1, <2>3, <2>4 DEF TiesAreCopies, Occupies
  <2>6. Content(k) = disk[chosen].value
    BY <2>3 DEF Content
  <2> QED BY <2>1, <2>5, <2>6
<1> QED BY <1>1, <1>2

LEMMA ContentLoads ==
  ASSUME disk \in [SlotLocation -> Slot], TiesAreCopies, NEW k \in Keys
  PROVE  Loads(k, Content(k)) /\ Content(k) \in Values \cup {NONE}
<1>1. CASE \A loc \in SlotLocation : ~Occupies(loc, k)
  <2>1. Loads(k, NONE)
    BY <1>1 DEF Loads
  <2> QED BY <2>1, ContentIs
<1>2. CASE \E loc \in SlotLocation : Occupies(loc, k)
  <2>1. PICK newest \in SlotLocation : Occupies(newest, k) /\ NotOlder(newest, k)
    BY <1>2, NewestExists
  <2>2. Loads(k, disk[newest].value) /\ disk[newest].value \in Values
    BY <2>1, OccupiesShape, ClassAssumption DEF Loads
  <2> QED BY <2>2, ContentIs
<1> QED BY <1>1, <1>2

(* The same, in the form a step can take to the next state. *)
DiskTyped == disk \in [SlotLocation -> Slot]
ContentLoaded == \A k \in Keys : Loads(k, Content(k)) /\ Content(k) \in Values \cup {NONE}

LEMMA ContentAlwaysLoads == DiskTyped /\ TiesAreCopies => ContentLoaded
BY ContentLoads DEF DiskTyped, ContentLoaded

LEMMA ContentLoadsNext ==
  ASSUME DiskTyped', TiesAreCopies'
  PROVE  ContentLoaded'
BY ContentAlwaysLoads, PTL

(* The same copies load the same. *)
LEMMA LoadsSame ==
  ASSUME NEW k, NEW value, Loads(k, value),
         \A loc \in SlotLocation : Occupies(loc, k)' <=> Occupies(loc, k),
         \A loc \in SlotLocation : Occupies(loc, k) => disk'[loc] = disk[loc]
  PROVE  Loads(k, value)'
BY DEF Loads, NotOlder

-----------------------------------------------------------------------------
(* How many slots of a page-file hold something.  No call is under way.      *)

LiveSlots(c) == {index[k] : k \in LiveIn(c)}

LEMMA LiveInFile ==
  ASSUME TypeOK, Memory, status = "up", Pending = {}, NEW c \in Classes
  PROVE  /\ LiveSlots(c) \cap FreeIn(c) = {}
         /\ LiveSlots(c) \cup FreeIn(c) = InFile(c, slotCount[c])
         /\ \A k \in LiveIn(c) : k \in Keys /\ index[k] \in SlotLocation
                                 /\ SizeClass(index[k]) = c /\ SlotIndex(index[k]) \in Nat
         /\ \A k, other \in LiveIn(c) : index[k] = index[other] => k = other
<1>1. \A k \in LiveIn(c) : k \in Keys /\ index[k] \in SlotLocation /\ SizeClass(index[k]) = c
  BY DEF LiveIn, TypeOK
<1>2. \A loc \in free : loc \in SlotLocation
  BY DEF TypeOK
<1>3. \A loc \in SlotLocation :
        SizeClass(loc) = c /\ SlotIndex(loc) < slotCount[c] <=>
          loc \in FreeIn(c) \/ loc \in LiveSlots(c)
  BY LocationAssumption, LocParts DEF Memory, FreeIn, LiveSlots, LiveIn
<1> QED BY <1>1, <1>2, <1>3, LocationAssumption, LocParts
        DEF Memory, FreeIn, LiveSlots, LiveIn, InFile

LEMMA LiveSize ==
  ASSUME TypeOK, Memory, status = "up", Pending = {}, NEW c \in Classes,
         NEW some \in SUBSET LiveIn(c)
  PROVE  LET slots == {index[k] : k \in some} IN
         /\ IsFiniteSet(some) /\ IsFiniteSet(slots)
         /\ Cardinality(some) = Cardinality(slots)
<1> DEFINE slots == {index[k] : k \in some}
           f == [k \in some |-> index[k]]
<1>1. slots \subseteq InFile(c, slotCount[c])
  BY LiveInFile DEF LiveSlots
<1>2. slotCount[c] \in 0 .. MaxSlots
  BY DEF TypeOK
<1>3. IsFiniteSet(InFile(c, slotCount[c]))
  BY <1>2, InFileSize
<1>4. IsFiniteSet(slots)
  <2> HIDE DEF slots
  <2> QED BY <1>1, <1>3, FS_Subset
<1>5. f \in Bijection(some, slots)
  <2>1. f \in [some -> slots]
    OBVIOUS
  <2>2. \A a, b \in some : f[a] = f[b] => a = b
    BY LiveInFile
  <2>3. \A s \in slots : \E k \in some : f[k] = s
    OBVIOUS
  <2> HIDE DEF f, slots
  <2> QED BY <2>1, <2>2, <2>3, Fun_IsInj, Fun_IsSurj, Fun_IsBij
<1>6. f \in Injection(some, slots) /\ f \in Surjection(some, slots)
  BY <1>5 DEF Bijection
<1>7. IsFiniteSet(some) /\ Cardinality(some) = Cardinality(slots)
  <2> HIDE DEF f, slots
  <2> QED BY <1>4, <1>6, FS_Injection
<1> QED BY <1>4, <1>7

(* compact_class: as many live slots past the new end as free ones before. *)
LEMMA PairsUp ==
  ASSUME TypeOK, Memory, status = "up", Pending = {}, NEW c \in Classes
  PROVE  /\ IsFiniteSet(FreeIn(c)) /\ Cardinality(FreeIn(c)) \in 0 .. slotCount[c]
         /\ LiveCount(c) \in 0 .. slotCount[c]
         /\ IsFiniteSet(HeadFrees(c)) /\ IsFiniteSet(TailLives(c))
         /\ Cardinality(TailLives(c)) = Cardinality(HeadFrees(c))
         /\ Cardinality(LiveSlots(c)) = Cardinality(LiveIn(c))
<1> DEFINE n == slotCount[c]
           file == InFile(c, n)
           head == InFile(c, LiveCount(c))
           tail == {index[k] : k \in TailLives(c)}
           headLive == LiveSlots(c) \cap head
<1>1. n \in 0 .. MaxSlots /\ n \in Nat
  BY BoundAssumption DEF TypeOK
<1>2. IsFiniteSet(file) /\ Cardinality(file) = n
  BY <1>1, InFileSize
<1>3. /\ FreeIn(c) \subseteq file /\ LiveSlots(c) \subseteq file
      /\ FreeIn(c) = file \ LiveSlots(c) /\ LiveSlots(c) = file \ FreeIn(c)
      /\ FreeIn(c) \subseteq SlotLocation
  BY LiveInFile DEF InFile
<1>4. /\ IsFiniteSet(FreeIn(c)) /\ Cardinality(FreeIn(c)) \in Nat
      /\ Cardinality(FreeIn(c)) <= n
  <2> HIDE DEF file, n
  <2> QED BY <1>2, <1>3, FS_Subset, FS_CardinalityType
<1>5. LiveCount(c) \in 0 .. n /\ LiveCount(c) \in 0 .. MaxSlots /\ LiveCount(c) \in Nat
  BY <1>1, <1>4, BoundAssumption DEF LiveCount
<1>6. /\ IsFiniteSet(LiveSlots(c))
      /\ Cardinality(LiveSlots(c)) = LiveCount(c)
  <2>1. file \cap FreeIn(c) = FreeIn(c)
    BY <1>3
  <2>2. /\ IsFiniteSet(file \ FreeIn(c))
        /\ Cardinality(file \ FreeIn(c)) = Cardinality(file) - Cardinality(file \cap FreeIn(c))
    <3> HIDE DEF file
    <3> QED BY <1>2, FS_Difference
  <2> QED BY <1>2, <1>3, <2>1, <2>2 DEF LiveCount
<1>7. IsFiniteSet(head) /\ Cardinality(head) = LiveCount(c)
  BY <1>5, InFileSize
<1>8. head \subseteq file
  BY <1>1, <1>5, LocParts DEF InFile
<1>9. HeadFrees(c) = head \ LiveSlots(c)
  <2>1. \A loc : loc \in HeadFrees(c) <=> loc \in FreeIn(c) /\ SlotIndex(loc) < LiveCount(c)
    BY DEF HeadFrees
  <2>2. \A loc \in FreeIn(c) : SizeClass(loc) = c
    BY DEF FreeIn
  <2>3. \A loc : loc \in head <=> loc \in SlotLocation /\ SizeClass(loc) = c
                                  /\ SlotIndex(loc) < LiveCount(c)
    BY DEF InFile
  <2> HIDE DEF file, head
  <2> QED BY <1>3, <1>8, <2>1, <2>2, <2>3
<1>10. tail = LiveSlots(c) \ head
  <2>1. \A k : k \in TailLives(c) <=> k \in LiveIn(c) /\ SlotIndex(index[k]) >= LiveCount(c)
    BY DEF TailLives
  <2>2. \A k \in LiveIn(c) : SlotIndex(index[k]) >= LiveCount(c) <=> index[k] \notin head
    BY <1>5, LiveInFile, LocParts DEF InFile
  <2> HIDE DEF head
  <2> QED BY <2>1, <2>2 DEF LiveSlots
<1>11. /\ IsFiniteSet(HeadFrees(c))
       /\ Cardinality(HeadFrees(c)) = LiveCount(c) - Cardinality(headLive)
  <2>1. head \cap LiveSlots(c) = headLive
    OBVIOUS
  <2> HIDE DEF head, headLive
  <2> QED BY <1>7, <1>9, <2>1, FS_Difference
<1>12. Cardinality(tail) = LiveCount(c) - Cardinality(headLive)
  <2> HIDE DEF head, tail
  <2> QED BY <1>6, <1>10, FS_Difference
<1>13. TailLives(c) \subseteq LiveIn(c)
  BY DEF TailLives
<1>14. IsFiniteSet(TailLives(c)) /\ Cardinality(TailLives(c)) = Cardinality(tail)
  BY <1>13, LiveSize
<1>15. Cardinality(LiveIn(c)) = Cardinality(LiveSlots(c))
  BY LiveSize DEF LiveSlots
<1> QED BY <1>4, <1>5, <1>11, <1>12, <1>14, <1>15

(* So the pairing of a compaction uses every free slot before the new end. *)
LEMMA PairingIsOnto ==
  ASSUME TypeOK, Memory, status = "up", Pending = {}, NEW c \in Classes,
         NEW m \in Pairings(TailLives(c), HeadFrees(c))
  PROVE  \A loc \in HeadFrees(c) : \E k \in TailLives(c) : m[k] = loc
<1>1. m \in Injection(TailLives(c), HeadFrees(c))
  BY Fun_IsInj DEF Pairings
<1>2. m \in Surjection(TailLives(c), HeadFrees(c))
  BY <1>1, PairsUp, FS_Injection
<1> QED BY <1>2, Fun_SurjectionProperties

-----------------------------------------------------------------------------
(* What is on disk stays what it is when nobody writes. *)

LEMMA DiskStays ==
  ASSUME UNCHANGED disks
  PROVE  /\ Holding("occupied")' = Holding("occupied")
         /\ \A loc, k : Occupies(loc, k)' <=> Occupies(loc, k)
         /\ \A loc, k : NotOlder(loc, k)' <=> NotOlder(loc, k)
         /\ \A k, v : Loads(k, v)' <=> Loads(k, v)
         /\ TiesAreCopies' <=> TiesAreCopies
BY DEF disks, Holding, Occupies, NotOlder, Loads, TiesAreCopies

LEMMA InitIInv == Init => IInv
<1> SUFFICES ASSUME Init PROVE IInv
  OBVIOUS
<1>1. Holding("occupied") = {}
  BY DEF Init, Holding, Free
<1>2. TypeOK
  <2>1. Free \in Slot /\ Idle \in Operations
    BY DEF Slot, Operations
  <2> QED BY <2>1, BoundAssumption DEF Init, TypeOK
<1>3. Modes /\ Memory /\ Disk
  BY <1>1, LocationAssumption, LocParts DEF Init, Modes, Memory, Disk, Pending, Idle
<1>4. Writing /\ Zeroing /\ Vacuuming /\ Recovering
  BY DEF Init, Writing, Zeroing, Vacuuming, Recovering, Idle
<1>5. VersionsAhead /\ TiesAreCopies
  BY <1>1 DEF VersionsAhead, TiesAreCopies
<1>6. Promised
  BY <1>1 DEF Promised, Loads, Occupies, Init
<1> QED BY <1>2, <1>3, <1>4, <1>5, <1>6 DEF IInv

(* Where a save may go: its own slot, a free one, or one more at the end. *)
LEMMA Targets ==
  ASSUME TypeOK, Memory, Disk, status = "up", op = Idle,
         NEW k \in Keys, NEW v \in Values, NEW target \in TargetSlots(k, v)
  PROVE  /\ target \in SlotLocation /\ target # NONE
         /\ \A j \in Keys : index[j] = target => j = k
         /\ target # index[k] => target \notin Holding("occupied")
         /\ \/ /\ target = index[k] /\ target \notin free
               /\ SlotIndex(target) < slotCount[SizeClass(target)]
            \/ /\ target # index[k] /\ target \in free
               /\ SlotIndex(target) < slotCount[SizeClass(target)]
            \/ /\ target # index[k] /\ target \notin free
               /\ SlotIndex(target) = slotCount[SizeClass(target)]
               /\ slotCount[SizeClass(target)] < MaxSlots
<1>1. Pending = {}
  BY DEF Pending, Idle
<1>2. ClassOf[v] \in Classes
  BY ClassAssumption
<1>3. \A loc \in Holding("occupied") : loc = index[disk[loc].key] /\ disk[loc].key \in Keys
  BY <1>1, SlotTypes DEF Disk, Idle
<1>4. \A c \in Classes : len[c] = slotCount[c] /\ slotCount[c] \in Nat
  BY BoundAssumption DEF Memory, Idle, TypeOK
<1>5. CASE SameClass(k, v)
  <2>1. target = index[k] /\ index[k] # NONE /\ index[k] \in SlotLocation
    BY <1>5 DEF TargetSlots, SameClass, TypeOK
  <2> QED BY <2>1, LocationAssumption DEF Memory
<1>6. CASE ~SameClass(k, v) /\ FreeIn(ClassOf[v]) # {}
  <2>1. target \in free /\ target \in SlotLocation
    BY <1>6 DEF TargetSlots, AllocateSlot, FreeIn, TypeOK
  <2>2. \A j \in Keys : index[j] # target
    BY <2>1 DEF Memory
  <2> QED BY <1>1, <1>3, <2>1, <2>2, LocationAssumption DEF Memory
<1>7. CASE ~SameClass(k, v) /\ FreeIn(ClassOf[v]) = {}
  <2> DEFINE c == ClassOf[v]
  <2>1. slotCount[c] < MaxSlots /\ target = <<c, slotCount[c]>>
    BY <1>7 DEF TargetSlots, AllocateSlot
  <2>2. slotCount[c] \in 0 .. MaxSlots - 1
    BY <1>2, <1>4, <2>1, BoundAssumption
  <2>3. target \in SlotLocation /\ SizeClass(target) = c /\ SlotIndex(target) = slotCount[c]
    BY <1>2, <2>1, <2>2, LocOf
  <2>4. ~ (SlotIndex(target) < slotCount[c])
    BY <1>2, <1>4, <2>3
  <2>5. target \notin free /\ \A j \in Keys : index[j] # target
    BY <2>3, <2>4 DEF Memory
  <2> QED BY <1>3, <2>1, <2>3, <2>5, LocationAssumption, SlotTypes
<1> QED BY <1>5, <1>6, <1>7

-----------------------------------------------------------------------------
(* Every step keeps the invariant.                                           *)

LEMMA SaveStep ==
  ASSUME IInv, NEW k \in Keys, NEW v \in Values, Save(k, v)
  PROVE  IInv'
<1>1. PICK target \in TargetSlots(k, v) :
       /\ index' = [index EXCEPT ![k] = target]
       /\ free' = free \ {target}
       /\ slotCount' = [slotCount EXCEPT ![SizeClass(target)] =
                          IF SlotIndex(target) = @ THEN @ + 1 ELSE @]
       /\ op' = [kind |-> "write", at |-> target, old |-> index[k],
                 slot |-> Occupied(k, nextVersion, v)]
  BY DEF Save
<1>2. /\ status = "up" /\ op = Idle /\ nextVersion <= MaxVersion
      /\ nextVersion' = nextVersion + 1
      /\ promised' = [promised EXCEPT ![k] = v]
      /\ UNCHANGED <<disks, status, torn>>
  BY DEF Save
<1>3. TypeOK /\ Memory /\ Disk /\ VersionsAhead /\ TiesAreCopies /\ Promised
  BY DEF IInv
<1>4. /\ target \in SlotLocation /\ target # NONE
      /\ \A j \in Keys : index[j] = target => j = k
      /\ target # index[k] => target \notin Holding("occupied")
      /\ \/ /\ target = index[k] /\ target \notin free
            /\ SlotIndex(target) < slotCount[SizeClass(target)]
         \/ /\ target # index[k] /\ target \in free
            /\ SlotIndex(target) < slotCount[SizeClass(target)]
         \/ /\ target # index[k] /\ target \notin free
            /\ SlotIndex(target) = slotCount[SizeClass(target)]
            /\ slotCount[SizeClass(target)] < MaxSlots
  BY <1>2, <1>3, Targets
<1>5. /\ nextVersion \in 0 .. MaxVersion /\ nextVersion \in Nat
      /\ \A c \in Classes : slotCount[c] \in 0 .. MaxSlots /\ slotCount[c] \in Nat
      /\ MaxSlots \in Nat
      /\ SizeClass(target) \in Classes /\ SlotIndex(target) \in Nat
  BY <1>2, <1>3, <1>4, BoundAssumption, LocParts DEF TypeOK
<1>6. /\ op'.kind = "write" /\ op'.at = target /\ op'.old = index[k]
      /\ op'.slot = Occupied(k, nextVersion, v)
      /\ op'.slot.key = k /\ op'.slot.version = nextVersion /\ op'.slot.value = v
      /\ op'.slot \in Slot
  BY <1>1, <1>5, OccupiedType
<1>7. /\ index' \in [Keys -> SlotLocation \cup {NONE}]
      /\ index'[k] = target
      /\ \A j \in Keys : j # k => index'[j] = index[j]
  BY <1>1, <1>3, <1>4 DEF TypeOK
<1>8. /\ slotCount' \in [Classes -> 0 .. MaxSlots]
      /\ \A c \in Classes : c # SizeClass(target) => slotCount'[c] = slotCount[c]
      /\ slotCount'[SizeClass(target)] =
           IF SlotIndex(target) = slotCount[SizeClass(target)]
           THEN slotCount[SizeClass(target)] + 1 ELSE slotCount[SizeClass(target)]
  BY <1>1, <1>3, <1>4, <1>5 DEF TypeOK
<1>9. Pending = {} /\ \A loc : loc \in Pending' <=>
                         loc = index[k] /\ index[k] # NONE /\ index[k] # target
  BY <1>2, <1>3, <1>6, LocationAssumption DEF Pending, Idle, TypeOK
<1>10. /\ UNCHANGED disks /\ len' = len /\ disk' = disk
       /\ Holding("occupied")' = Holding("occupied")
       /\ \A loc, j : Occupies(loc, j)' <=> Occupies(loc, j)
       /\ \A j, w : Loads(j, w)' <=> Loads(j, w)
       /\ TiesAreCopies'
  BY <1>2, <1>3, DiskStays DEF disks
<1>11. \A loc \in Holding("occupied") :
         /\ loc = index[disk[loc].key] /\ disk[loc].key \in Keys
         /\ disk[loc].version < nextVersion
  BY <1>2, <1>3, <1>9, SlotTypes DEF Disk, Idle, VersionsAhead
<1>12. \A c \in Classes : len[c] = slotCount[c]
  BY <1>2, <1>3 DEF Memory, Idle
<1>13. TypeOK'
  <2>1. op' \in Operations
    BY <1>1, <1>3, <1>4, <1>6 DEF Operations, TypeOK
  <2>2. nextVersion' \in 0 .. MaxVersion + 1
    BY <1>2, <1>5, BoundAssumption
  <2>3. promised' \in [Keys -> Values \cup {NONE}]
    BY <1>2, <1>3 DEF TypeOK
  <2> QED BY <1>1, <1>2, <1>3, <1>7, <1>8, <2>1, <2>2, <2>3 DEF TypeOK, disks
<1>14. Modes'
  BY <1>2, <1>6 DEF Modes
<1>15. Memory'
  <2>1. \A i, j \in Keys : index'[i] = index'[j] /\ index'[i] # NONE => i = j
    BY <1>2, <1>3, <1>4, <1>7 DEF Memory
  <2>2. \A loc \in SlotLocation :
          SlotIndex(loc) < slotCount'[SizeClass(loc)] <=>
            \/ loc \in free'
            \/ loc \in Pending'
            \/ \E j \in Keys : index'[j] = loc
    <3> SUFFICES ASSUME NEW loc \in SlotLocation
                 PROVE  SlotIndex(loc) < slotCount'[SizeClass(loc)] <=>
                          \/ loc \in free'
                          \/ loc \in Pending'
                          \/ \E j \in Keys : index'[j] = loc
      OBVIOUS
    <3>1. SlotIndex(loc) < slotCount[SizeClass(loc)] <=>
            \/ loc \in free
            \/ \E j \in Keys : index[j] = loc
      BY <1>2, <1>3, <1>9 DEF Memory
    <3>2. SlotIndex(loc) < slotCount'[SizeClass(loc)] <=>
            SlotIndex(loc) < slotCount[SizeClass(loc)] \/ loc = target
      <4>1. SlotIndex(loc) \in Nat /\ SizeClass(loc) \in Classes
        BY LocParts
      <4>2. CASE SlotIndex(target) = slotCount[SizeClass(target)] /\ SizeClass(loc) = SizeClass(target)
        <5>1. slotCount'[SizeClass(loc)] = slotCount[SizeClass(loc)] + 1
          BY <4>2, <1>8
        <5>2. SlotIndex(loc) = slotCount[SizeClass(loc)] <=> loc = target
          BY <4>2, <1>4, LocEqual
        <5> QED BY <4>1, <5>1, <5>2, <1>5
      <4>3. CASE ~ (SlotIndex(target) = slotCount[SizeClass(target)] /\ SizeClass(loc) = SizeClass(target))
        <5>1. slotCount'[SizeClass(loc)] = slotCount[SizeClass(loc)]
          BY <4>1, <4>3, <1>8
        <5>2. loc = target => SlotIndex(loc) < slotCount[SizeClass(loc)]
          BY <4>3, <1>4
        <5> QED BY <5>1, <5>2
      <4> QED BY <4>2, <4>3
    <3>3. (\E j \in Keys : index[j] = loc) <=> index[k] = loc \/ \E j \in Keys : j # k /\ index[j] = loc
      OBVIOUS
    <3>4. (\E j \in Keys : index'[j] = loc) <=> target = loc \/ \E j \in Keys : j # k /\ index[j] = loc
      BY <1>7
    <3> QED BY <1>1, <1>4, <1>9, <3>1, <3>2, <3>3, <3>4, LocationAssumption
  <2>3. \A j \in Keys : index'[j] \notin free' \cup Pending'
    BY <1>1, <1>2, <1>3, <1>4, <1>7, <1>9 DEF Memory
  <2>4. free' \cap Pending' = {}
    BY <1>1, <1>2, <1>3, <1>9 DEF Memory
  <2>5. \A c \in Classes :
          \/ len'[c] = slotCount'[c]
          \/ /\ op'.kind = "write" /\ SizeClass(op'.at) = c
             /\ SlotIndex(op'.at) = len'[c] /\ slotCount'[c] = len'[c] + 1
    BY <1>6, <1>8, <1>10, <1>12
  <2> QED BY <2>1, <2>2, <2>3, <2>4, <2>5 DEF Memory
<1>16. Disk'
  <2>1. \A loc \in Holding("occupied")' :
          \/ loc = index'[disk'[loc].key]
          \/ loc \in Pending' /\ disk'[loc].key = k
    BY <1>7, <1>9, <1>10, <1>11, LocationAssumption, SlotTypes, <1>3
  <2>2. \A j \in Keys : index'[j] # NONE => Occupies(index[j], j)' \/ j = k
    <3>1. \A j \in Keys : j # k /\ index[j] # NONE => Occupies(index[j], j)
      BY <1>2, <1>3 DEF Disk, Idle
    <3> QED BY <3>1, <1>7, <1>10 DEF Occupies
  <2> QED BY <1>6, <2>1, <2>2 DEF Disk, Calling
<1>17. Writing'
  <2>1. op'.old # NONE => Occupies(op.old, k)'
    <3>1. index[k] # NONE => Occupies(index[k], k)
      BY <1>2, <1>3 DEF Disk, Idle
    <3> QED BY <3>1, <1>6, <1>10 DEF Occupies
  <2>2. promised'[k] = v
    BY <1>2, <1>3 DEF TypeOK
  <2> QED BY <1>2, <1>4, <1>5, <1>6, <1>7, <1>10, <1>11, <2>1, <2>2 DEF Writing
<1>18. Zeroing' /\ Vacuuming' /\ Recovering'
  BY <1>6 DEF Zeroing, Vacuuming, Recovering
<1>19. VersionsAhead'
  BY <1>2, <1>3, <1>5, <1>10, <1>11, SlotTypes DEF VersionsAhead
<1>20. Promised'
  <2>1. Unreturned' = {k} /\ Unreturned = {}
    BY <1>2, <1>6 DEF Unreturned, Idle
  <2>2. \A j \in Keys \ {k} : promised'[j] = promised[j]
    BY <1>2, <1>3 DEF TypeOK
  <2> QED BY <1>3, <1>10, <2>1, <2>2 DEF Promised
<1> QED BY <1>10, <1>13, <1>14, <1>15, <1>16, <1>17, <1>18, <1>19, <1>20 DEF IInv

LEMMA DeleteStep ==
  ASSUME IInv, NEW k \in Keys, Delete(k)
  PROVE  IInv'
<1> DEFINE at == index[k]
<1>1. /\ status = "up" /\ op = Idle /\ at # NONE
      /\ index' = [index EXCEPT ![k] = NONE]
      /\ op' = [kind |-> "zero", at |-> at, key |-> k, value |-> NONE]
      /\ promised' = [promised EXCEPT ![k] = NONE]
      /\ UNCHANGED <<disks, status, slotCount, free, nextVersion, torn>>
  BY DEF Delete
<1>2. TypeOK /\ Memory /\ Disk /\ VersionsAhead /\ TiesAreCopies /\ Promised
  BY DEF IInv
<1>3. /\ at \in SlotLocation /\ index' \in [Keys -> SlotLocation \cup {NONE}]
      /\ index'[k] = NONE
      /\ \A j \in Keys : j # k => index'[j] = index[j]
      /\ promised' \in [Keys -> Values \cup {NONE}] /\ promised'[k] = NONE
      /\ \A j \in Keys : j # k => promised'[j] = promised[j]
  BY <1>1, <1>2 DEF TypeOK
<1>4. op'.kind = "zero" /\ op'.at = at /\ op'.key = k /\ op'.value = NONE
  BY <1>1
<1> HIDE DEF at
<1>5. Pending = {} /\ \A loc : loc \in Pending' <=> loc = at
  BY <1>1, <1>3, <1>4 DEF Pending, Idle
<1>6. /\ UNCHANGED disks /\ len' = len /\ disk' = disk
      /\ Holding("occupied")' = Holding("occupied")
      /\ \A loc, j : Occupies(loc, j)' <=> Occupies(loc, j)
      /\ \A j, w : Loads(j, w)' <=> Loads(j, w)
      /\ TiesAreCopies'
  BY <1>1, <1>2, DiskStays DEF disks
<1>7. TypeOK'
  <2>1. op' \in Operations
    BY <1>1, <1>3 DEF Operations
  <2> QED BY <1>1, <1>2, <1>3, <2>1 DEF TypeOK, disks
<1>8. Modes'
  BY <1>1, <1>4 DEF Modes
<1>9. Memory'
  <2>1. \A i, j \in Keys : index'[i] = index'[j] /\ index'[i] # NONE => i = j
    BY <1>1, <1>2, <1>3 DEF Memory
  <2>2. \A loc \in SlotLocation :
          (\E j \in Keys : index[j] = loc) <=> loc = at \/ \E j \in Keys : index'[j] = loc
    BY <1>3, LocationAssumption DEF at
  <2>3. \A loc \in SlotLocation :
          SlotIndex(loc) < slotCount[SizeClass(loc)] <=>
            loc \in free \/ \E j \in Keys : index[j] = loc
    BY <1>1, <1>2, <1>5 DEF Memory
  <2>4. \A loc \in SlotLocation :
          SlotIndex(loc) < slotCount'[SizeClass(loc)] <=>
            \/ loc \in free'
            \/ loc \in Pending'
            \/ \E j \in Keys : index'[j] = loc
    BY <1>1, <1>5, <2>2, <2>3
  <2>5. \A j \in Keys : index'[j] \notin free' \cup Pending'
    BY <1>1, <1>2, <1>3, <1>5, LocationAssumption DEF Memory, TypeOK, at
  <2>6. free' \cap Pending' = {}
    BY <1>1, <1>2, <1>3, <1>5 DEF Memory, at
  <2>7. \A c \in Classes : len'[c] = slotCount'[c]
    BY <1>1, <1>2, <1>6 DEF Memory, Idle
  <2> QED BY <2>1, <2>4, <2>5, <2>6, <2>7 DEF Memory
<1>10. \A loc \in Holding("occupied") : loc = index[disk[loc].key] /\ disk[loc].key \in Keys
  BY <1>1, <1>2, <1>5, SlotTypes DEF Disk, Idle
<1>11. Disk'
  <2>1. \A loc \in Holding("occupied")' :
          \/ loc = index'[disk'[loc].key]
          \/ loc \in Pending' /\ disk'[loc].key = k
    BY <1>3, <1>5, <1>6, <1>10 DEF at
  <2>2. \A j \in Keys : index'[j] # NONE => Occupies(index[j], j)'
    <3>1. \A j \in Keys : j # k /\ index[j] # NONE => Occupies(index[j], j)
      BY <1>1, <1>2 DEF Disk, Idle
    <3> QED BY <3>1, <1>3, <1>6 DEF Occupies
  <2> QED BY <1>4, <2>1, <2>2 DEF Disk, Calling
<1>12. Zeroing'
  <2>1. Occupies(at, k)
    BY <1>1, <1>2 DEF Disk, Idle, at
  <2>2. Occupies(op.at, op.key)'
    BY <1>4, <1>6, <2>1 DEF Occupies
  <2> QED BY <1>3, <1>4, <2>2 DEF Zeroing
<1>13. Writing' /\ Vacuuming' /\ Recovering'
  BY <1>4 DEF Writing, Vacuuming, Recovering
<1>14. VersionsAhead'
  BY <1>1, <1>2, <1>6 DEF VersionsAhead
<1>15. Promised'
  <2>1. Unreturned' = {k} /\ Unreturned = {}
    BY <1>1, <1>4 DEF Unreturned, Idle
  <2> QED BY <1>2, <1>3, <1>6, <2>1 DEF Promised
<1> QED BY <1>6, <1>7, <1>8, <1>9, <1>11, <1>12, <1>13, <1>14, <1>15 DEF IInv

(* What a write changes on the disk: one slot, of one partition, and the     *)
(* length of its page-file when the slot is the next one.                    *)
LEMMA WriteEffect ==
  ASSUME IInv, WriteSlot
  PROVE  /\ op.at \in SlotLocation /\ op.slot.key \in Keys /\ op.slot.value \in Values
         /\ disk' \in [SlotLocation -> Slot] /\ disk'[op.at] = op.slot
         /\ \A loc \in SlotLocation : loc # op.at => disk'[loc] = disk[loc]
         /\ len' = slotCount /\ len' \in [Classes -> 0 .. MaxSlots]
         /\ \A loc : loc \in Holding("occupied")' <=> loc = op.at \/ loc \in Holding("occupied")
         /\ \A loc, k : Occupies(loc, k)' <=>
              \/ loc = op.at /\ k = op.slot.key
              \/ loc # op.at /\ Occupies(loc, k)
         /\ \A k : k # op.slot.key => ~Occupies(op.at, k)
<1> DEFINE at == op.at
           mine == op.slot.key
           c == SizeClass(at)
<1>1. /\ status = "up" /\ op.kind = "write"
      /\ disk' = [disk EXCEPT ![at] = op.slot]
      /\ len' = [len EXCEPT ![c] = IF SlotIndex(at) >= @ THEN SlotIndex(at) + 1 ELSE @]
  BY DEF WriteSlot
<1>2. TypeOK /\ Memory /\ Writing
  BY DEF IInv
<1>3. /\ at \in SlotLocation /\ op.slot \in Slot /\ c \in Classes
      /\ SlotIndex(at) \in Nat /\ SlotIndex(at) \in 0 .. MaxSlots - 1
  BY <1>1, <1>2, OpTypes, LocParts DEF TypeOK
<1>4. mine \in Keys /\ op.slot.value \in Values /\ index[mine] = at /\ op.slot.state = "occupied"
  BY <1>1, <1>2 DEF Writing, Occupied
<1>5. SlotIndex(at) < slotCount[c] /\ slotCount[c] \in Nat /\ len[c] \in Nat
  BY <1>1, <1>2, <1>3, <1>4, BoundAssumption DEF Memory, TypeOK
<1>6. \A d \in Classes : d # c => len[d] = slotCount[d]
  BY <1>1, <1>2, <1>3 DEF Memory
<1>7. len[c] = slotCount[c] \/ (SlotIndex(at) = len[c] /\ slotCount[c] = len[c] + 1)
  BY <1>1, <1>2, <1>3 DEF Memory
<1>8. len' = slotCount
  <2>1. len'[c] = slotCount[c]
    BY <1>1, <1>2, <1>3, <1>5, <1>7 DEF TypeOK
  <2>2. len' \in [Classes -> Nat] /\ DOMAIN len' = Classes /\ DOMAIN slotCount = Classes
    BY <1>1, <1>2, <1>3, <1>5, BoundAssumption DEF TypeOK
  <2>3. \A d \in Classes : len'[d] = slotCount[d]
    BY <1>1, <1>2, <1>6, <2>1 DEF TypeOK
  <2>4. len' = [d \in Classes |-> len'[d]] /\ slotCount = [d \in Classes |-> slotCount[d]]
    BY <1>2, <2>2 DEF TypeOK
  <2> QED BY <2>3, <2>4
<1>9. /\ disk' \in [SlotLocation -> Slot] /\ disk'[at] = op.slot
      /\ \A loc \in SlotLocation : loc # at => disk'[loc] = disk[loc]
  BY <1>1, <1>2, <1>3 DEF TypeOK
<1>10. \A loc \in SlotLocation :
         SlotIndex(loc) < len'[SizeClass(loc)] <=> SlotIndex(loc) < len[SizeClass(loc)] \/ loc = at
  <2> SUFFICES ASSUME NEW loc \in SlotLocation
               PROVE  SlotIndex(loc) < len'[SizeClass(loc)] <=>
                        SlotIndex(loc) < len[SizeClass(loc)] \/ loc = at
    OBVIOUS
  <2>1. SlotIndex(loc) \in Nat /\ SizeClass(loc) \in Classes
    BY LocParts
  <2>2. CASE SizeClass(loc) # c
    BY <1>6, <1>8, <2>1, <2>2
  <2>3. CASE SizeClass(loc) = c
    <3>1. SlotIndex(loc) = SlotIndex(at) => loc = at
      BY <1>3, <2>3, LocEqual
    <3> QED BY <1>5, <1>7, <1>8, <2>1, <2>3, <3>1
  <2> QED BY <2>2, <2>3
<1>11. \A loc : loc \in Holding("occupied")' <=> loc = at \/ loc \in Holding("occupied")
  BY <1>3, <1>4, <1>9, <1>10 DEF Holding
<1>12. \A loc, j : Occupies(loc, j)' <=>
         \/ loc = at /\ j = mine
         \/ loc # at /\ Occupies(loc, j)
  <2> SUFFICES ASSUME NEW loc, NEW j
               PROVE  Occupies(loc, j)' <=>
                        \/ loc = at /\ j = mine
                        \/ loc # at /\ Occupies(loc, j)
    OBVIOUS
  <2>1. loc \in Holding("occupied") => loc \in SlotLocation
    BY DEF Holding
  <2>2. disk'[at].key = mine
    BY <1>9
  <2>3. Occupies(loc, j)' <=> loc \in Holding("occupied")' /\ disk'[loc].key = j
    BY DEF Occupies
  <2>4. CASE loc = at
    BY <1>11, <2>2, <2>3, <2>4
  <2>5. CASE loc # at
    BY <1>9, <1>11, <2>1, <2>3, <2>5 DEF Occupies
  <2> QED BY <2>4, <2>5
<1>13. \A j : j # mine => ~Occupies(at, j)
  BY <1>1, <1>2, <1>3, LocationAssumption DEF Writing, Occupies
<1>14. len' \in [Classes -> 0 .. MaxSlots]
  BY <1>2, <1>8 DEF TypeOK
<1> QED BY <1>3, <1>4, <1>8, <1>9, <1>11, <1>12, <1>13, <1>14

LEMMA WriteSlotStep ==
  ASSUME IInv, WriteSlot
  PROVE  IInv'
<1>0. PICK at \in SlotLocation, mine \in Keys : at = op.at /\ mine = op.slot.key
  BY WriteEffect
<1>1. /\ status = "up" /\ op.kind = "write"
      /\ op' = IF op.old \in {NONE, at} THEN Idle
               ELSE [kind |-> "zero", at |-> op.old, key |-> mine, value |-> op.slot.value]
      /\ UNCHANGED <<status, memory, ghosts>>
  BY <1>0 DEF WriteSlot
<1>2. /\ status' = status /\ index' = index /\ slotCount' = slotCount /\ free' = free
      /\ nextVersion' = nextVersion /\ promised' = promised /\ torn' = torn
  BY <1>1 DEF memory, ghosts
<1>3. TypeOK /\ Memory /\ Disk /\ Writing /\ VersionsAhead /\ TiesAreCopies /\ Promised
  BY DEF IInv
<1>4. /\ at \in SlotLocation /\ mine \in Keys /\ op.slot.value \in Values
      /\ op.old \in SlotLocation \cup {NONE}
  BY <1>0, <1>1, <1>3, OpTypes, WriteEffect DEF TypeOK
<1>5. /\ op.slot = Occupied(mine, op.slot.version, op.slot.value)
      /\ index[mine] = at
      /\ op.slot.version \in 0 .. MaxVersion
      /\ op.slot.version + 1 = nextVersion
      /\ \A loc \in Holding("occupied") : disk[loc].version < op.slot.version
      /\ op.old # NONE => Occupies(op.old, mine)
      /\ promised[mine] = op.slot.value
  BY <1>0, <1>1, <1>3 DEF Writing
<1>6. /\ disk' \in [SlotLocation -> Slot] /\ disk'[at] = op.slot
      /\ \A loc \in SlotLocation : loc # at => disk'[loc] = disk[loc]
      /\ len' = slotCount /\ len' \in [Classes -> 0 .. MaxSlots]
      /\ \A loc : loc \in Holding("occupied")' <=> loc = at \/ loc \in Holding("occupied")
      /\ \A loc, k : Occupies(loc, k)' <=>
           \/ loc = at /\ k = mine
           \/ loc # at /\ Occupies(loc, k)
      /\ \A k : k # mine => ~Occupies(at, k)
  BY <1>0, WriteEffect
<1>7. \/ op' = Idle /\ op.old \in {NONE, at}
      \/ /\ op.old \notin {NONE, at}
         /\ op'.kind = "zero" /\ op'.at = op.old /\ op'.key = mine
         /\ op'.value = op.slot.value /\ op' \in Operations
  BY <1>1, <1>4 DEF Operations
<1>8. op'.kind \in {"idle", "zero"}
  BY <1>7 DEF Idle
<1>9. \A loc \in SlotLocation : loc \in Holding("occupied") <=> \E k \in Keys : Occupies(loc, k)
  BY <1>3, SlotTypes DEF Occupies
<1>10. \A loc : loc \in Pending' <=> loc \in Pending
  BY <1>0, <1>1, <1>4, <1>7, LocationAssumption DEF Pending, Idle
<1>11. TypeOK'
  <2>1. op' \in Operations
    BY <1>7 DEF Operations
  <2> QED BY <1>2, <1>3, <1>6, <2>1 DEF TypeOK
<1>12. Modes'
  BY <1>1, <1>2, <1>8 DEF Modes
<1>13. Memory'
  <2>1. Memory => /\ \A k, other \in Keys : index[k] = index[other] /\ index[k] # NONE => k = other
                  /\ \A loc \in SlotLocation :
                       SlotIndex(loc) < slotCount[SizeClass(loc)] <=>
                         \/ loc \in free
                         \/ loc \in Pending
                         \/ \E k \in Keys : index[k] = loc
                  /\ \A k \in Keys : index[k] \notin free \cup Pending
                  /\ free \cap Pending = {}
    BY <1>1 DEF Memory
  <2>2. Pending' = Pending
    BY <1>10
  <2> QED BY <1>2, <1>3, <1>6, <2>1, <2>2 DEF Memory
<1>14. Disk'
  <2>1. \A loc \in Holding("occupied")' :
          loc = index[disk'[loc].key] \/ (loc \in Pending' /\ disk'[loc].key = mine)
    <3> SUFFICES ASSUME NEW loc \in Holding("occupied")'
                 PROVE  loc = index[disk'[loc].key] \/ (loc \in Pending' /\ disk'[loc].key = mine)
      OBVIOUS
    <3>1. CASE loc = at
      BY <1>0, <1>5, <1>6, <3>1
    <3>2. CASE loc # at
      <4>1. loc \in Holding("occupied") /\ loc \in SlotLocation /\ disk'[loc] = disk[loc]
        BY <1>6, <3>2 DEF Holding
      <4>2. loc = index[disk[loc].key] \/ (loc \in Pending /\ disk[loc].key = mine)
        <5>1. /\ \/ loc = index[disk[loc].key]
                 \/ loc \in Pending /\ disk[loc].key = Calling
              /\ Calling = op.slot.key
          BY <1>1, <1>3, <4>1 DEF Disk, Calling
        <5> QED BY <1>0, <5>1
      <4> QED BY <1>10, <4>1, <4>2
    <3> QED BY <3>1, <3>2
  <2>2. \A loc : loc \in Pending' => Calling' = mine
    BY <1>7, <1>8 DEF Pending, Calling, Idle
  <2>3. \A k \in Keys : index[k] # NONE => Occupies(index[k], k)'
    <3> SUFFICES ASSUME NEW k \in Keys, index[k] # NONE
                 PROVE  Occupies(index[k], k)'
      BY <1>2
    <3>1. CASE k = mine
      BY <1>2, <1>5, <1>6, <3>1 DEF Occupies
    <3>2. CASE k # mine
      <4>1. Occupies(index[k], k)
        BY <1>0, <1>1, <1>3, <3>2 DEF Disk
      <4>2. index[k] # at
        BY <1>6, <3>2, <4>1
      <4>3. index[k] \in Holding("occupied")' /\ disk'[index[k]].key = k
        BY <1>6, <4>1, <4>2 DEF Occupies, Holding
      <4> QED BY <1>2, <4>3 DEF Occupies
    <3> QED BY <3>1, <3>2
  <2> QED BY <1>2, <2>1, <2>2, <2>3 DEF Disk
<1>15. Zeroing'
  <2> SUFFICES ASSUME op'.kind = "zero" PROVE Zeroing'
    BY DEF Zeroing
  <2>1. op.old \notin {NONE, at} /\ op'.at = op.old /\ op'.key = mine /\ op'.value = op.slot.value
    BY <1>7 DEF Idle
  <2>2. op.old \in SlotLocation /\ Occupies(op.old, mine)
    BY <1>4, <1>5, <2>1
  <2>3. op.old \in Holding("occupied")' /\ disk'[op.old].key = mine
        /\ disk'[op.old] = disk[op.old]
    BY <1>6, <2>1, <2>2 DEF Occupies
  <2>4. at \in Holding("occupied")' /\ disk'[at].key = mine
    BY <1>0, <1>6
  <2>5. disk'[op.old].version < disk'[at].version
    BY <1>5, <1>6, <2>2, <2>3 DEF Occupies
  <2>6. op'.value # NONE
    BY <1>4, <2>1, ClassAssumption
  <2> QED BY <1>2, <1>5, <1>6, <2>1, <2>3, <2>4, <2>5, <2>6 DEF Zeroing, Occupies
<1>16. Writing' /\ Vacuuming' /\ Recovering'
  BY <1>8 DEF Writing, Vacuuming, Recovering
<1>17. \A loc \in Holding("occupied")' :
         /\ loc # at => loc \in Holding("occupied") /\ disk'[loc] = disk[loc]
         /\ loc = at => disk'[loc] = op.slot
  BY <1>6 DEF Holding
<1>18. nextVersion \in Nat /\ op.slot.version \in Nat
       /\ \A loc \in Holding("occupied") : disk[loc].version \in Nat
  BY <1>3, <1>5, SlotTypes, BoundAssumption DEF TypeOK
<1>19. VersionsAhead'
  <2>1. \A loc \in Holding("occupied")' : disk'[loc].version < nextVersion
    BY <1>5, <1>17, <1>18
  <2> QED BY <1>2, <2>1 DEF VersionsAhead
<1>20. TiesAreCopies'
  <2> SUFFICES ASSUME NEW a \in Holding("occupied")', NEW b \in Holding("occupied")',
                      disk'[a].key = disk'[b].key, disk'[a].version = disk'[b].version
               PROVE  disk'[a] = disk'[b] /\ SizeClass(a) = SizeClass(b)
    BY DEF TiesAreCopies
  <2>1. CASE a # at /\ b # at
    BY <1>3, <1>17, <2>1 DEF TiesAreCopies
  <2>2. a = at <=> b = at
    BY <1>5, <1>17, <1>18
  <2> QED BY <2>1, <2>2
<1>21. Promised'
  <2> SUFFICES ASSUME NEW k \in Keys, k \notin Unreturned' PROVE Loads(k, promised[k])'
    BY DEF Promised
  <2>1. CASE k = mine
    <3>1. \A other \in SlotLocation : Occupies(other, mine)' => disk'[other].version <= disk'[at].version
      <4> SUFFICES ASSUME NEW other \in SlotLocation, Occupies(other, mine)'
                   PROVE  disk'[other].version <= disk'[at].version
        OBVIOUS
      <4>1. CASE other = at
        BY <1>6, <1>18, <1>5, <4>1
      <4>2. CASE other # at
        <5>1. other \in Holding("occupied") /\ disk'[other] = disk[other]
          BY <1>6, <4>2 DEF Occupies
        <5>2. disk'[at] = op.slot
          BY <1>6
        <5> QED BY <1>5, <1>18, <5>1, <5>2
      <4> QED BY <4>1, <4>2
    <3>2. Occupies(at, mine)' /\ disk'[at].value = op.slot.value
      BY <1>6
    <3>3. promised'[k] = op.slot.value /\ op.slot.value # NONE
      BY <1>2, <1>4, <1>5, <2>1, ClassAssumption
    <3>4. k = mine
      BY <2>1
    <3>5. NotOlder(at, mine)'
      BY <3>1 DEF NotOlder
    <3>6. Loads(mine, promised[mine])' <=>
            \E loc \in SlotLocation :
              /\ Occupies(loc, mine)' /\ disk'[loc].value = promised'[mine]
              /\ NotOlder(loc, mine)'
      BY <3>3, <3>4 DEF Loads
    <3> QED BY <1>4, <3>2, <3>3, <3>4, <3>5, <3>6
  <2>2. CASE k # mine
    <3>1. Loads(k, promised[k])
      BY <1>0, <1>1, <1>3, <2>2 DEF Promised, Unreturned
    <3>2. \A loc \in SlotLocation : Occupies(loc, k)' <=> Occupies(loc, k)
      BY <1>6, <2>2
    <3>3. \A loc \in SlotLocation : Occupies(loc, k) => disk'[loc] = disk[loc]
      BY <1>6, <2>2
    <3>4. promised'[k] = promised[k]
      BY <1>2
    <3> QED BY <3>1, <3>2, <3>3, <3>4 DEF Loads, NotOlder
  <2> QED BY <2>1, <2>2
<1> QED BY <1>11, <1>12, <1>13, <1>14, <1>15, <1>16, <1>19, <1>20, <1>21 DEF IInv

(* Every copy a partition is about to lose has one like it or a newer one    *)
(* that stays.                                                               *)
Replaced(k, gone) ==
  \A loc \in gone : Occupies(loc, k) =>
    \E other \in SlotLocation \ gone :
      /\ Occupies(other, k)
      /\ disk[other] = disk[loc] \/ disk[loc].version < disk[other].version

(* What zeroing, cutting, removing or tearing slots does to the disk.        *)
LEMMA SlotsGone ==
  ASSUME TypeOK, NEW gone,
         \A loc \in SlotLocation : loc \notin gone =>
           /\ disk'[loc] = disk[loc]
           /\ SlotIndex(loc) < len'[SizeClass(loc)] <=> SlotIndex(loc) < len[SizeClass(loc)],
         \A loc \in SlotLocation : loc \in gone => disk'[loc].state # "occupied"
  PROVE  /\ \A loc : loc \in Holding("occupied")' <=> loc \in Holding("occupied") /\ loc \notin gone
         /\ \A loc \in SlotLocation : loc \notin gone => disk'[loc] = disk[loc]
         /\ \A loc, k : Occupies(loc, k)' <=> Occupies(loc, k) /\ loc \notin gone
         /\ TiesAreCopies => TiesAreCopies'
         /\ VersionsAhead /\ UNCHANGED <<status, nextVersion>> => VersionsAhead'
         /\ \A k, value : Loads(k, value) /\ Replaced(k, gone) => Loads(k, value)'
<1>1. \A loc : loc \in Holding("occupied")' <=> loc \in Holding("occupied") /\ loc \notin gone
  BY DEF Holding
<1>2. \A loc \in Holding("occupied")' : disk'[loc] = disk[loc] /\ loc \in Holding("occupied")
  BY <1>1 DEF Holding
<1>3. \A loc, k : Occupies(loc, k)' <=> Occupies(loc, k) /\ loc \notin gone
  BY <1>1, <1>2 DEF Occupies
<1>4. TiesAreCopies => TiesAreCopies'
  BY <1>2 DEF TiesAreCopies
<1>5. VersionsAhead /\ UNCHANGED <<status, nextVersion>> => VersionsAhead'
  BY <1>2 DEF VersionsAhead
<1>6. ASSUME NEW k, NEW value, Loads(k, value), Replaced(k, gone)
      PROVE  Loads(k, value)'
  <2>1. CASE value = NONE
    BY <1>3, <1>6, <2>1 DEF Loads
  <2>2. CASE value # NONE
    <3>1. PICK newest \in SlotLocation :
            Occupies(newest, k) /\ disk[newest].value = value /\ NotOlder(newest, k)
      BY <1>6, <2>2 DEF Loads
    <3>2. PICK stays \in SlotLocation :
            /\ stays \notin gone /\ Occupies(stays, k)
            /\ disk[stays] = disk[newest] \/ disk[newest].version < disk[stays].version
      BY <1>6, <3>1 DEF Replaced
    <3>3. disk[stays] = disk[newest]
      BY <3>1, <3>2, OccupiesTypes DEF NotOlder
    <3>4. \A other \in SlotLocation : Occupies(other, k)' =>
            Occupies(other, k) /\ disk'[other] = disk[other]
      BY <1>3
    <3>5. Occupies(stays, k)' /\ disk'[stays] = disk[newest]
      BY <1>3, <3>2, <3>3
    <3>6. NotOlder(stays, k)'
      BY <3>1, <3>4, <3>5 DEF NotOlder
    <3> QED BY <2>2, <3>1, <3>5, <3>6 DEF Loads
  <2> QED BY <2>1, <2>2
<1> QED BY <1>1, <1>3, <1>4, <1>5, <1>6

LEMMA ZeroSlotStep ==
  ASSUME IInv, ZeroSlot
  PROVE  IInv'
<1>1. /\ status = "up" /\ op.kind = "zero" /\ op' = Idle
      /\ disk' = [disk EXCEPT ![op.at] = Free]
      /\ free' = free \cup {op.at}
      /\ UNCHANGED <<len, status, index, slotCount, nextVersion, promised, torn>>
  BY DEF ZeroSlot, ghosts
<1>2. TypeOK /\ Memory /\ Disk /\ Zeroing /\ VersionsAhead /\ TiesAreCopies /\ Promised
  BY DEF IInv
<1>3. PICK at \in SlotLocation, mine \in Keys, value \in Values \cup {NONE} :
        at = op.at /\ mine = op.key /\ value = op.value
  BY <1>1, <1>2, OpTypes DEF TypeOK
<1>4. /\ Occupies(at, mine) /\ promised[mine] = value
      /\ value = NONE => index[mine] = NONE
      /\ value # NONE => /\ Occupies(index[mine], mine)
                         /\ disk[index[mine]].value = value
                         /\ disk[at].version < disk[index[mine]].version
  BY <1>1, <1>2, <1>3 DEF Zeroing
<1>5. /\ disk' \in [SlotLocation -> Slot] /\ disk'[at] = Free
      /\ \A loc \in SlotLocation : loc # at => disk'[loc] = disk[loc]
  <2>1. Free \in Slot
    BY DEF Slot
  <2> QED BY <1>1, <1>2, <1>3, <2>1 DEF TypeOK
<1>6. /\ \A loc : loc \in Holding("occupied")' <=> loc \in Holding("occupied") /\ loc # at
      /\ \A loc, k : Occupies(loc, k)' <=> Occupies(loc, k) /\ loc # at
      /\ TiesAreCopies' /\ VersionsAhead'
      /\ \A k, v : Loads(k, v) /\ Replaced(k, {at}) => Loads(k, v)'
  <2>1. \A loc \in SlotLocation : loc \notin {at} => disk'[loc] = disk[loc] /\ len' = len
    BY <1>1, <1>5
  <2>2. \A loc \in SlotLocation : loc \in {at} => disk'[loc].state # "occupied"
    BY <1>5 DEF Free
  <2> QED BY <1>1, <1>2, <2>1, <2>2, SlotsGone
<1>7. /\ \A loc : loc \in Pending <=> loc = at
      /\ Pending' = {} /\ Calling = mine
  BY <1>1, <1>3 DEF Pending, Calling, Idle
<1>8. TypeOK'
  <2>1. op' \in Operations
    BY <1>1 DEF Operations
  <2> QED BY <1>1, <1>2, <1>3, <1>5, <2>1 DEF TypeOK
<1>9. op'.kind = "idle" /\ Modes'
  BY <1>1 DEF Modes, Idle
<1>10. Memory'
  <2>1. /\ \A k, other \in Keys : index[k] = index[other] /\ index[k] # NONE => k = other
        /\ \A loc \in SlotLocation :
             SlotIndex(loc) < slotCount[SizeClass(loc)] <=>
               loc \in free \/ loc = at \/ \E k \in Keys : index[k] = loc
        /\ \A k \in Keys : index[k] \notin free /\ index[k] # at
        /\ \A c \in Classes : len[c] = slotCount[c]
    BY <1>1, <1>2, <1>7 DEF Memory
  <2> QED BY <1>1, <1>3, <1>7, <2>1 DEF Memory
<1>11. \A k : index[k] # NONE /\ k \in Keys => Occupies(index[k], k) /\ index[k] # at
  BY <1>1, <1>2, <1>7 DEF Disk, Memory
<1>12. \A loc \in Holding("occupied") :
         \/ loc = index[disk[loc].key]
         \/ loc = at /\ disk[loc].key = mine
  BY <1>1, <1>2, <1>7 DEF Disk
<1>13. Disk'
  <2>1. \A loc \in Holding("occupied")' : loc = index[disk'[loc].key]
    BY <1>5, <1>6, <1>12 DEF Holding
  <2>2. \A k \in Keys : index[k] # NONE => index[k] \in Holding("occupied")' /\ disk'[index[k]].key = k
    BY <1>5, <1>6, <1>11 DEF Occupies, Holding
  <2>3. \A k \in Keys : index'[k] # NONE => Occupies(index[k], k)'
    BY <1>1, <2>2 DEF Occupies
  <2> QED BY <1>1, <2>1, <2>3 DEF Disk
<1>14. Writing' /\ Zeroing' /\ Vacuuming' /\ Recovering'
  BY <1>9 DEF Writing, Zeroing, Vacuuming, Recovering
<1>15. Promised'
  <2> SUFFICES ASSUME NEW k \in Keys PROVE Loads(k, promised[k])'
    BY DEF Promised
  <2>1. promised' = promised
    BY <1>1
  <2>2. CASE k # mine
    <3>1. Loads(k, promised[k])
      BY <1>1, <1>2, <1>3, <2>2 DEF Promised, Unreturned
    <3>2. Replaced(k, {at})
      BY <1>4, <2>2 DEF Replaced, Occupies
    <3>3. PICK v : v = promised[k]
      OBVIOUS
    <3>4. Loads(k, v)'
      BY <1>6, <3>1, <3>2, <3>3
    <3> QED BY <2>1, <3>3, <3>4
  <2>3. CASE k = mine /\ value = NONE
    <3>1. \A loc \in SlotLocation : ~Occupies(loc, mine)'
      BY <1>4, <1>6, <1>12, <2>3, LocationAssumption DEF Occupies
    <3> QED BY <1>4, <2>1, <2>3, <3>1 DEF Loads
  <2>4. CASE k = mine /\ value # NONE
    <3>1. PICK here \in SlotLocation : here = index[mine]
      BY <1>2, <1>4, <2>4, OccupiesTypes
    <3>2. here # at /\ Occupies(here, mine) /\ disk[here].value = value
      BY <1>4, <1>11, <2>4, <3>1, LocationAssumption
    <3>3. Occupies(here, mine)' /\ disk'[here] = disk[here]
      BY <1>5, <1>6, <3>2
    <3>4. \A loc \in SlotLocation : Occupies(loc, mine)' => loc = here
      BY <1>6, <1>12, <3>1 DEF Occupies
    <3>5. disk[here].version \in Nat
      BY <1>2, <3>2, OccupiesTypes
    <3>6. NotOlder(here, mine)'
      BY <3>3, <3>4, <3>5 DEF NotOlder
    <3> QED BY <1>4, <2>1, <2>4, <3>2, <3>3, <3>6 DEF Loads
  <2> QED BY <2>2, <2>3, <2>4
<1> QED BY <1>6, <1>8, <1>9, <1>10, <1>13, <1>14, <1>15 DEF IInv

(* A step of a vacuum that only moves on to its next task.                   *)
LEMMA QuietStep ==
  ASSUME IInv, status = "up", op.kind \in {"idle", "remove", "compact"},
         op'.kind \in {"idle", "remove", "compact", "copy"}, op' \in Operations,
         UNCHANGED <<disks, status, memory, ghosts>>, Vacuuming'
  PROVE  IInv'
<1>1. /\ UNCHANGED disks /\ disk' = disk /\ len' = len /\ status' = status /\ index' = index
      /\ slotCount' = slotCount /\ free' = free /\ nextVersion' = nextVersion
      /\ promised' = promised /\ torn' = torn
  BY DEF disks, memory, ghosts
<1>2. TypeOK /\ Memory /\ Disk /\ VersionsAhead /\ TiesAreCopies /\ Promised
  BY DEF IInv
<1>3. /\ Holding("occupied")' = Holding("occupied")
      /\ \A loc, k : Occupies(loc, k)' <=> Occupies(loc, k)
      /\ \A k, v : Loads(k, v)' <=> Loads(k, v)
      /\ TiesAreCopies'
  BY <1>1, <1>2, DiskStays
<1>4. Pending = {} /\ Pending' = {}
  BY DEF Pending
<1>5. TypeOK' /\ Modes'
  BY <1>1, <1>2 DEF TypeOK, Modes
<1>6. Memory'
  <2>1. /\ \A k, other \in Keys : index[k] = index[other] /\ index[k] # NONE => k = other
        /\ \A loc \in SlotLocation :
             SlotIndex(loc) < slotCount[SizeClass(loc)] <=>
               loc \in free \/ \E k \in Keys : index[k] = loc
        /\ \A k \in Keys : index[k] \notin free
        /\ \A c \in Classes : len[c] = slotCount[c]
    BY <1>2, <1>4 DEF Memory
  <2> QED BY <1>1, <1>4, <2>1 DEF Memory
<1>7. Disk'
  <2>1. \A loc \in Holding("occupied") : loc = index[disk[loc].key]
    BY <1>2, <1>4 DEF Disk
  <2>2. \A k \in Keys : index[k] # NONE => Occupies(index[k], k)
    BY <1>2 DEF Disk
  <2>3. \A k \in Keys : index'[k] # NONE => Occupies(index[k], k)'
    BY <1>1, <1>3, <2>2 DEF Occupies
  <2> QED BY <1>1, <1>3, <2>1, <2>3 DEF Disk
<1>8. Writing' /\ Zeroing' /\ Recovering'
  BY DEF Writing, Zeroing, Recovering
<1>9. VersionsAhead'
  BY <1>1, <1>2, <1>3 DEF VersionsAhead
<1>10. Promised'
  <2>1. Unreturned' = {} /\ Unreturned = {}
    BY DEF Unreturned
  <2>2. \A k \in Keys : Loads(k, promised[k])
    BY <1>2, <2>1 DEF Promised
  <2> QED BY <1>1, <1>3, <2>1, <2>2 DEF Promised
<1> QED BY <1>3, <1>5, <1>6, <1>7, <1>8, <1>9, <1>10 DEF IInv

LEMMA VacuumStep ==
  ASSUME IInv, Vacuum
  PROVE  IInv'
<1>1. /\ status = "up" /\ op = Idle
      /\ op' = [kind |-> "remove", classes |-> {c \in Classes : FullyFree(c)}]
      /\ UNCHANGED <<disks, status, memory, ghosts>>
  BY DEF Vacuum
<1>2. TypeOK /\ Memory
  BY DEF IInv
<1>3. \A c \in Classes : FullyFree(c) => LiveIn(c) = {}
  <2> SUFFICES ASSUME NEW c \in Classes, FullyFree(c), NEW k \in LiveIn(c)
               PROVE  FALSE
    OBVIOUS
  <2>1. k \in Keys /\ index[k] \in SlotLocation /\ SizeClass(index[k]) = c
    BY <1>2 DEF LiveIn, TypeOK
  <2>2. SlotIndex(index[k]) < slotCount[c]
    BY <1>1, <1>2, <2>1 DEF Memory
  <2>3. index[k] \in free
    BY <2>1, <2>2 DEF FullyFree, InFile
  <2> QED BY <1>1, <1>2, <2>1, <2>3 DEF Memory
<1>4. op' \in Operations /\ op'.kind = "remove" /\ op.kind = "idle"
  BY <1>1 DEF Operations, Idle
<1>5. Vacuuming'
  <2>1. \A c \in op'.classes : LiveIn(c) = {}
    BY <1>1, <1>3
  <2> QED BY <1>1, <1>4, <2>1 DEF Vacuuming, LiveIn, memory
<1> QED BY <1>1, <1>4, <1>5, QuietStep

LEMMA VacuumRemoveFailsStep ==
  ASSUME IInv, NEW c \in Classes, VacuumRemoveFails(c)
  PROVE  IInv'
<1>1. /\ status = "up" /\ op.kind = "remove"
      /\ op' = [op EXCEPT !.classes = @ \ {c}]
      /\ UNCHANGED <<disks, status, memory, ghosts>>
  BY DEF VacuumRemoveFails
<1>2. TypeOK /\ Vacuuming
  BY DEF IInv
<1>3. op' \in Operations /\ op'.kind = "remove" /\ op'.classes \subseteq op.classes
  BY <1>1, <1>2 DEF Operations, TypeOK, Idle
<1>4. Vacuuming'
  <2>1. \A d \in op'.classes : LiveIn(d) = {}
    BY <1>1, <1>2, <1>3 DEF Vacuuming
  <2> QED BY <1>1, <1>3, <2>1 DEF Vacuuming, LiveIn, memory
<1> QED BY <1>1, <1>3, <1>4, QuietStep

LEMMA VacuumChooseCompactionsStep ==
  ASSUME IInv, VacuumChooseCompactions
  PROVE  IInv'
<1>1. /\ status = "up" /\ op.kind = "remove"
      /\ op' = [kind |-> "compact", classes |-> {c \in Classes : HalfEmpty(c)}]
      /\ UNCHANGED <<disks, status, memory, ghosts>>
  BY DEF VacuumChooseCompactions
<1>2. op' \in Operations /\ op'.kind = "compact"
  BY <1>1 DEF Operations
<1>3. Vacuuming'
  <2>1. \A c \in Classes : c \in op'.classes <=> HalfEmpty(c)
    BY <1>1
  <2>2. \A c : HalfEmpty(c)' <=> HalfEmpty(c)
    BY <1>1 DEF HalfEmpty, FreeIn, memory
  <2> QED BY <1>2, <2>1, <2>2 DEF Vacuuming
<1> QED BY <1>1, <1>2, <1>3, QuietStep

LEMMA VacuumEndStep ==
  ASSUME IInv, VacuumEnd
  PROVE  IInv'
<1>1. /\ status = "up" /\ op.kind = "compact" /\ op' = Idle
      /\ UNCHANGED <<disks, status, memory, ghosts>>
  BY DEF VacuumEnd
<1>2. op' \in Operations /\ op'.kind = "idle"
  BY <1>1 DEF Operations, Idle
<1> QED BY <1>1, <1>2, QuietStep DEF Vacuuming

(* A compaction starts from as many slots to move as there is room for.      *)
LEMMA CompactBeginStep ==
  ASSUME IInv, NEW c \in Classes, CompactBegin(c)
  PROVE  IInv'
<1>1. /\ status = "up" /\ op.kind = "compact" /\ c \in op.classes
      /\ UNCHANGED <<disks, status, memory, ghosts>>
  BY DEF CompactBegin
<1>2. PICK moves \in Pairings(TailLives(c), HeadFrees(c)) :
        op' = [kind |-> "copy", class |-> c, live |-> LiveCount(c), moves |-> moves,
               left |-> TailLives(c), classes |-> op.classes \ {c}]
  BY DEF CompactBegin
<1>3. TypeOK /\ Memory /\ Vacuuming
  BY DEF IInv
<1>4. Pending = {}
  BY <1>1 DEF Pending
<1>5. LiveCount(c) \in 0 .. MaxSlots
  <2>1. LiveCount(c) \in 0 .. slotCount[c] /\ slotCount[c] \in 0 .. MaxSlots
    BY <1>1, <1>3, <1>4, PairsUp DEF TypeOK
  <2> QED BY <2>1, BoundAssumption
<1>6. /\ moves \in [TailLives(c) -> SlotLocation] /\ TailLives(c) \subseteq Keys
      /\ DOMAIN moves = TailLives(c)
  BY <1>3 DEF Pairings, TailLives, LiveIn, HeadFrees, FreeIn, TypeOK
<1>7. op' \in Operations
  <2>1. op.classes \subseteq Classes
    BY <1>1, <1>3, OpTypes DEF TypeOK
  <2>2. moves \in UNION {[from -> SlotLocation] : from \in SUBSET Keys}
    BY <1>6
  <2> QED BY <1>2, <1>5, <1>6, <2>1, <2>2 DEF Operations
<1>8. Vacuuming'
  <2>1. /\ op'.kind = "copy" /\ op'.class = c /\ op'.live = LiveCount(c) /\ op'.moves = moves
        /\ op'.left = TailLives(c) /\ op'.classes = op.classes \ {c}
    BY <1>2
  <2>2. \A d \in Classes : d \in op.classes <=> HalfEmpty(d)
    BY <1>1, <1>3 DEF Vacuuming
  <2>3. /\ \A d : HalfEmpty(d)' <=> HalfEmpty(d)
        /\ LiveCount(c)' = LiveCount(c)
        /\ Pairings(TailLives(c), HeadFrees(c))' = Pairings(TailLives(c), HeadFrees(c))
    BY <1>1 DEF HalfEmpty, FreeIn, memory, LiveCount, TailLives, HeadFrees, LiveIn, Pairings
  <2>4. /\ op'.class \notin op'.classes
        /\ \A d \in Classes \ {op'.class} : d \in op'.classes <=> HalfEmpty(d)'
        /\ HalfEmpty(c)'
        /\ op'.live = LiveCount(c)'
        /\ op'.moves \in Pairings(TailLives(c), HeadFrees(c))'
        /\ op'.left = DOMAIN op'.moves
    BY <1>1, <1>6, <2>1, <2>2, <2>3
  <2>5. HalfEmpty(op.class)' /\ op'.live = LiveCount(op.class)'
        /\ op'.moves \in Pairings(TailLives(op.class), HeadFrees(op.class))'
    BY <2>1, <2>4
  <2> QED BY <2>1, <2>4, <2>5 DEF Vacuuming
<1> QED BY <1>1, <1>2, <1>7, <1>8, QuietStep

LEMMA VacuumRemoveFileStep ==
  ASSUME IInv, NEW c \in Classes, VacuumRemoveFile(c)
  PROVE  IInv'
<1> DEFINE gone == {loc \in SlotLocation : SizeClass(loc) = c}
<1>1. /\ status = "up" /\ op.kind = "remove" /\ c \in op.classes
      /\ disk' = [loc \in SlotLocation |-> IF SizeClass(loc) = c THEN Free ELSE disk[loc]]
      /\ len' = [len EXCEPT ![c] = 0]
      /\ slotCount' = [slotCount EXCEPT ![c] = 0]
      /\ free' = free \ FreeIn(c)
      /\ op' = [op EXCEPT !.classes = @ \ {c}]
      /\ UNCHANGED <<status, index, nextVersion, promised, torn>>
  BY DEF VacuumRemoveFile, ghosts
<1>2. TypeOK /\ Memory /\ Disk /\ Vacuuming /\ VersionsAhead /\ TiesAreCopies /\ Promised
  BY DEF IInv
<1>3. op' \in Operations /\ op'.kind = "remove" /\ op'.classes \subseteq op.classes
  BY <1>1, <1>2 DEF Operations, TypeOK, Idle
<1>4. /\ disk' \in [SlotLocation -> Slot]
      /\ \A loc \in SlotLocation : SizeClass(loc) = c => disk'[loc] = Free
      /\ \A loc \in SlotLocation : SizeClass(loc) # c => disk'[loc] = disk[loc]
  <2>1. Free \in Slot
    BY DEF Slot
  <2> QED BY <1>1, <1>2, <2>1 DEF TypeOK
<1>5. /\ len' \in [Classes -> 0 .. MaxSlots] /\ len'[c] = 0
      /\ \A d \in Classes : d # c => len'[d] = len[d]
      /\ slotCount' \in [Classes -> 0 .. MaxSlots] /\ slotCount'[c] = 0
      /\ \A d \in Classes : d # c => slotCount'[d] = slotCount[d]
  BY <1>1, <1>2, BoundAssumption DEF TypeOK
<1>6. Pending = {} /\ Pending' = {}
  BY <1>1, <1>3 DEF Pending
<1>7. \A loc \in Holding("occupied") : loc = index[disk[loc].key]
  BY <1>1, <1>2, <1>6 DEF Disk
<1>8. \A k \in Keys : index[k] # NONE => Occupies(index[k], k)
  BY <1>1, <1>2 DEF Disk
<1>9. \A k \in Keys : index[k] # NONE => index[k] \in SlotLocation /\ SizeClass(index[k]) # c
  BY <1>1, <1>2 DEF Vacuuming, LiveIn, TypeOK
<1>10. \A loc \in Holding("occupied") : loc \notin gone
  BY <1>2, <1>7, <1>9, SlotTypes, LocationAssumption
<1>11. /\ \A loc : loc \in Holding("occupied")' <=> loc \in Holding("occupied")
       /\ \A loc, k : Occupies(loc, k)' <=> Occupies(loc, k)
       /\ TiesAreCopies' /\ VersionsAhead'
       /\ \A k, v : Loads(k, v) => Loads(k, v)'
  <2>1. \A loc \in SlotLocation : loc \notin gone =>
          /\ disk'[loc] = disk[loc]
          /\ SlotIndex(loc) < len'[SizeClass(loc)] <=> SlotIndex(loc) < len[SizeClass(loc)]
    BY <1>4, <1>5, LocParts
  <2>2. \A loc \in SlotLocation : loc \in gone => disk'[loc].state # "occupied"
    BY <1>4 DEF Free
  <2>3. \A k : Replaced(k, gone)
    BY <1>10 DEF Replaced, Occupies
  <2>4. \A loc, k : Occupies(loc, k) => loc \notin gone
    BY <1>10 DEF Occupies
  <2> HIDE DEF gone
  <2> QED BY <1>1, <1>2, <1>10, <2>1, <2>2, <2>3, <2>4, SlotsGone
<1>12. TypeOK'
  BY <1>1, <1>2, <1>3, <1>4, <1>5 DEF TypeOK
<1>13. Modes'
  BY <1>1, <1>3 DEF Modes
<1>14. Memory'
  <2>1. /\ \A k, other \in Keys : index[k] = index[other] /\ index[k] # NONE => k = other
        /\ \A loc \in SlotLocation :
             SlotIndex(loc) < slotCount[SizeClass(loc)] <=>
               loc \in free \/ \E k \in Keys : index[k] = loc
        /\ \A k \in Keys : index[k] \notin free
        /\ \A d \in Classes : len[d] = slotCount[d]
    BY <1>1, <1>2, <1>6 DEF Memory
  <2>2. \A loc : loc \in free' <=> loc \in free /\ SizeClass(loc) # c
    BY <1>1 DEF FreeIn
  <2>3. \A d \in Classes : len'[d] = slotCount'[d]
    BY <1>5, <2>1
  <2>4. \A loc \in SlotLocation :
          SlotIndex(loc) < slotCount'[SizeClass(loc)] <=>
            loc \in free' \/ \E k \in Keys : index[k] = loc
    <3> SUFFICES ASSUME NEW loc \in SlotLocation
                 PROVE  SlotIndex(loc) < slotCount'[SizeClass(loc)] <=>
                          loc \in free' \/ \E k \in Keys : index[k] = loc
      OBVIOUS
    <3>1. CASE SizeClass(loc) = c
      <4>1. ~ (SlotIndex(loc) < slotCount'[SizeClass(loc)])
        BY <1>5, <3>1, LocParts
      <4> QED BY <1>9, <2>2, <3>1, <4>1, LocationAssumption
    <3>2. CASE SizeClass(loc) # c
      BY <1>5, <2>1, <2>2, <3>2, LocParts
    <3> QED BY <3>1, <3>2
  <2> QED BY <1>1, <1>6, <2>1, <2>2, <2>3, <2>4 DEF Memory
<1>15. Disk'
  <2>1. \A loc \in Holding("occupied")' : loc = index[disk'[loc].key]
    BY <1>4, <1>7, <1>10, <1>11, SlotTypes, <1>2
  <2>2. \A k \in Keys : index'[k] # NONE => Occupies(index[k], k)'
    BY <1>1, <1>8, <1>9, <1>4, <1>11 DEF Occupies
  <2> QED BY <1>1, <2>1, <2>2 DEF Disk
<1>16. Writing' /\ Zeroing' /\ Recovering'
  BY <1>3 DEF Writing, Zeroing, Recovering
<1>17. Vacuuming'
  <2>1. \A d \in op'.classes : LiveIn(d) = {}
    BY <1>1, <1>2, <1>3 DEF Vacuuming
  <2> QED BY <1>1, <1>3, <2>1 DEF Vacuuming, LiveIn
<1>18. Promised'
  <2>1. Unreturned = {} /\ promised' = promised
    BY <1>1 DEF Unreturned
  <2>2. \A k \in Keys : Loads(k, promised[k])
    BY <1>2, <2>1 DEF Promised
  <2> SUFFICES ASSUME NEW k \in Keys PROVE Loads(k, promised[k])'
    BY DEF Promised
  <2>3. PICK v : v = promised[k]
    OBVIOUS
  <2>4. Loads(k, v)'
    BY <1>11, <2>2, <2>3
  <2> QED BY <2>1, <2>3, <2>4
<1> QED BY <1>11, <1>12, <1>13, <1>14, <1>15, <1>16, <1>17, <1>18 DEF IInv

LEMMA CompactCopyStep ==
  ASSUME IInv, NEW k \in Keys, CompactCopy(k)
  PROVE  IInv'
<1>1. /\ status = "up" /\ op.kind = "copy" /\ k \in op.left
      /\ disk' = [disk EXCEPT ![op.moves[k]] = disk[index[k]]]
      /\ op' = [op EXCEPT !.left = @ \ {k}]
      /\ UNCHANGED <<len, status, index, slotCount, free, nextVersion, promised, torn>>
  BY DEF CompactCopy, memory, ghosts
<1>2. TypeOK /\ Memory /\ Disk /\ Vacuuming /\ VersionsAhead /\ TiesAreCopies /\ Promised
  BY DEF IInv
<1>3. /\ op'.kind = "copy" /\ op'.class = op.class /\ op'.live = op.live /\ op'.moves = op.moves
      /\ op'.left = op.left \ {k} /\ op'.classes = op.classes /\ op' \in Operations
  BY <1>1, <1>2 DEF Operations, TypeOK, Idle
<1>4. PICK c \in Classes, moves \in Pairings(TailLives(op.class), HeadFrees(op.class)) :
        c = op.class /\ moves = op.moves
  BY <1>1, <1>2, OpTypes DEF Vacuuming, TypeOK
<1>5. /\ moves \in [TailLives(c) -> HeadFrees(c)] /\ DOMAIN moves = TailLives(c)
      /\ \A i, j \in TailLives(c) : moves[i] = moves[j] => i = j
      /\ op.left \subseteq TailLives(c) /\ k \in TailLives(c)
      /\ \A j \in TailLives(c) \ op.left :
           Occupies(moves[j], j) /\ disk[moves[j]] = disk[index[j]]
  BY <1>1, <1>2, <1>4 DEF Vacuuming, Pairings
<1>6. Pending = {} /\ Pending' = {}
  BY <1>1, <1>3 DEF Pending
<1>7. \A j \in TailLives(c) :
        /\ j \in Keys /\ index[j] \in SlotLocation /\ SizeClass(index[j]) = c
        /\ index[j] # NONE /\ Occupies(index[j], j)
        /\ moves[j] \in free /\ moves[j] \in SlotLocation /\ SizeClass(moves[j]) = c
  BY <1>1, <1>2, <1>5 DEF TailLives, LiveIn, HeadFrees, FreeIn, Disk, TypeOK
<1>8. \A loc \in Holding("occupied") :
        \/ loc = index[disk[loc].key]
        \/ /\ disk[loc].key \in TailLives(c) \ op.left
           /\ loc = moves[disk[loc].key]
  BY <1>1, <1>2, <1>4, <1>5, <1>6 DEF Disk
<1>9. PICK to \in SlotLocation, from \in SlotLocation : to = moves[k] /\ from = index[k]
  BY <1>5, <1>7
<1>10. /\ to \in free /\ SizeClass(to) = c /\ SizeClass(from) = c
       /\ from \notin free /\ to # from /\ Occupies(from, k)
  BY <1>1, <1>2, <1>5, <1>7, <1>9 DEF Memory
<1>11. \A j \in Keys : index[j] # to
  BY <1>1, <1>2, <1>10 DEF Memory
<1>12. to \notin Holding("occupied")
  BY <1>1, <1>2, <1>5, <1>8, <1>9, <1>11, SlotTypes
<1>13. /\ disk' \in [SlotLocation -> Slot] /\ disk'[to] = disk[from]
       /\ \A loc \in SlotLocation : loc # to => disk'[loc] = disk[loc]
  BY <1>1, <1>2, <1>4, <1>9 DEF TypeOK
<1>14. SlotIndex(to) < len[SizeClass(to)]
  BY <1>1, <1>2, <1>10, LocParts DEF Memory
<1>15. \A loc : loc \in Holding("occupied")' <=> loc = to \/ loc \in Holding("occupied")
  <2>1. disk'[to].state = "occupied"
    BY <1>10, <1>13 DEF Occupies, Holding
  <2> QED BY <1>1, <1>12, <1>13, <1>14, <2>1 DEF Holding
<1>16. \A loc \in Holding("occupied") : loc # to /\ loc \in SlotLocation /\ disk'[loc] = disk[loc]
  BY <1>12, <1>13 DEF Holding
<1>17. from \in Holding("occupied") /\ disk[from].key = k
  BY <1>10 DEF Occupies
<1>18. \A loc, j : Occupies(loc, j)' <=>
         \/ loc = to /\ j = k
         \/ Occupies(loc, j)
  BY <1>12, <1>13, <1>15, <1>16, <1>17 DEF Occupies
<1>19. TypeOK' /\ Modes'
  BY <1>1, <1>2, <1>3, <1>13 DEF TypeOK, Modes
<1>20. Memory'
  <2>1. /\ \A i, other \in Keys : index[i] = index[other] /\ index[i] # NONE => i = other
        /\ \A loc \in SlotLocation :
             SlotIndex(loc) < slotCount[SizeClass(loc)] <=>
               loc \in free \/ \E j \in Keys : index[j] = loc
        /\ \A j \in Keys : index[j] \notin free
        /\ \A d \in Classes : len[d] = slotCount[d]
    BY <1>1, <1>2, <1>6 DEF Memory
  <2> QED BY <1>1, <1>6, <2>1 DEF Memory
<1>21. Disk'
  <2>1. \A loc \in Holding("occupied")' :
          \/ loc = index[disk'[loc].key]
          \/ /\ disk'[loc].key \in TailLives(c) \ (op.left \ {k})
             /\ loc = moves[disk'[loc].key]
    <3> SUFFICES ASSUME NEW loc \in Holding("occupied")'
                 PROVE  \/ loc = index[disk'[loc].key]
                        \/ /\ disk'[loc].key \in TailLives(c) \ (op.left \ {k})
                           /\ loc = moves[disk'[loc].key]
      OBVIOUS
    <3>1. CASE loc = to
      BY <1>5, <1>9, <1>13, <1>17, <3>1
    <3>2. CASE loc # to
      BY <1>8, <1>15, <1>16, <3>2
    <3> QED BY <3>1, <3>2
  <2>2. \A j \in Keys : index'[j] # NONE => Occupies(index[j], j)'
    <3>1. \A j \in Keys : index[j] # NONE => Occupies(index[j], j)
      BY <1>1, <1>2 DEF Disk
    <3> QED BY <1>1, <1>13, <1>15, <1>16, <3>1 DEF Occupies
  <2> QED BY <1>1, <1>3, <1>4, <1>5, <2>1, <2>2 DEF Disk
<1>22. Writing' /\ Zeroing' /\ Recovering'
  BY <1>3 DEF Writing, Zeroing, Recovering
<1>23. Vacuuming'
  <2>1. /\ \A d : HalfEmpty(d)' <=> HalfEmpty(d)
        /\ LiveCount(c)' = LiveCount(c)
        /\ Pairings(TailLives(c), HeadFrees(c))' = Pairings(TailLives(c), HeadFrees(c))
    BY <1>1 DEF HalfEmpty, FreeIn, LiveCount, TailLives, HeadFrees, LiveIn, Pairings
  <2>2. /\ c \notin op.classes
        /\ \A d \in Classes \ {c} : d \in op.classes <=> HalfEmpty(d)
        /\ HalfEmpty(c) /\ op.live = LiveCount(c)
        /\ moves \in Pairings(TailLives(c), HeadFrees(c))
    BY <1>1, <1>2, <1>4 DEF Vacuuming
  <2>3. \A j \in TailLives(c) \ (op.left \ {k}) :
          /\ moves[j] \in Holding("occupied")' /\ disk'[moves[j]].key = j
          /\ disk'[moves[j]] = disk'[index[j]]
    <3> SUFFICES ASSUME NEW j \in TailLives(c), j \notin op.left \ {k}
                 PROVE  /\ moves[j] \in Holding("occupied")' /\ disk'[moves[j]].key = j
                        /\ disk'[moves[j]] = disk'[index[j]]
      OBVIOUS
    <3>1. index[j] \in SlotLocation /\ index[j] # to /\ disk'[index[j]] = disk[index[j]]
      BY <1>7, <1>11, <1>13
    <3>2. CASE j = k
      BY <1>9, <1>13, <1>15, <1>17, <3>1, <3>2
    <3>3. CASE j # k
      <4>1. Occupies(moves[j], j) /\ disk[moves[j]] = disk[index[j]]
        BY <1>5, <3>3
      <4>2. moves[j] \in Holding("occupied") /\ disk[moves[j]].key = j
        BY <4>1 DEF Occupies
      <4> QED BY <1>15, <1>16, <3>1, <4>1, <4>2
    <3> QED BY <3>2, <3>3
  <2>4. \A j \in DOMAIN op'.moves \ op'.left :
          Occupies(op.moves[j], j)' /\ disk'[op'.moves[j]] = disk'[index'[j]]
    <3>1. \A j \in TailLives(c) \ (op.left \ {k}) : Occupies(moves[j], j)'
      BY <2>3 DEF Occupies
    <3> QED BY <1>1, <1>3, <1>4, <1>5, <2>3, <3>1 DEF Occupies
  <2>5. HalfEmpty(op.class)' /\ op'.live = LiveCount(op.class)'
        /\ op'.moves \in Pairings(TailLives(op.class), HeadFrees(op.class))'
    BY <1>3, <1>4, <2>1, <2>2
  <2>6. op'.left \subseteq DOMAIN op'.moves
    BY <1>3, <1>4, <1>5
  <2> QED BY <1>3, <1>4, <2>1, <2>2, <2>4, <2>5, <2>6 DEF Vacuuming
<1>24. \A loc \in Holding("occupied")' :
         \E twin \in Holding("occupied") :
           disk'[loc] = disk[twin] /\ SizeClass(loc) = SizeClass(twin)
  BY <1>10, <1>13, <1>15, <1>16, <1>17
<1>25. VersionsAhead'
  <2>1. \A loc \in Holding("occupied")' : disk'[loc].version < nextVersion
    BY <1>1, <1>2, <1>24 DEF VersionsAhead
  <2> QED BY <1>1, <2>1 DEF VersionsAhead
<1>26. TiesAreCopies'
  BY <1>2, <1>24 DEF TiesAreCopies
<1>27. Promised'
  <2>1. Unreturned = {} /\ promised' = promised
    BY <1>1 DEF Unreturned
  <2> SUFFICES ASSUME NEW j \in Keys PROVE Loads(j, promised[j])'
    BY DEF Promised
  <2>2. Loads(j, promised[j])
    BY <1>2, <2>1 DEF Promised
  <2>3. CASE promised[j] = NONE
    <3>1. \A loc \in SlotLocation : ~Occupies(loc, j)
      BY <2>2, <2>3 DEF Loads
    <3>2. \A loc \in SlotLocation : ~Occupies(loc, j)'
      BY <1>10, <1>18, <3>1
    <3> QED BY <2>1, <2>3, <3>2 DEF Loads
  <2>4. CASE promised[j] # NONE
    <3>1. PICK newest \in SlotLocation :
            Occupies(newest, j) /\ disk[newest].value = promised[j] /\ NotOlder(newest, j)
      BY <2>2, <2>4 DEF Loads
    <3>2. Occupies(newest, j)' /\ disk'[newest] = disk[newest]
      BY <1>16, <1>18, <3>1 DEF Occupies
    <3>3. \A other \in SlotLocation : Occupies(other, j)' => disk'[other].version <= disk'[newest].version
      <4> SUFFICES ASSUME NEW other \in SlotLocation, Occupies(other, j)'
                   PROVE  disk'[other].version <= disk'[newest].version
        OBVIOUS
      <4>1. CASE other = to /\ j = k
        BY <1>10, <1>13, <3>1, <3>2, <4>1 DEF NotOlder
      <4>2. CASE Occupies(other, j)
        BY <1>16, <3>1, <3>2, <4>2 DEF NotOlder, Occupies
      <4> QED BY <1>18, <4>1, <4>2
    <3>4. NotOlder(newest, j)'
      BY <3>3 DEF NotOlder
    <3> QED BY <2>1, <2>4, <3>1, <3>2, <3>4 DEF Loads
  <2> QED BY <2>3, <2>4
<1> QED BY <1>19, <1>20, <1>21, <1>22, <1>23, <1>25, <1>26, <1>27 DEF IInv

LEMMA CompactTruncateStep ==
  ASSUME IInv, CompactTruncate
  PROVE  IInv'
<1>1. /\ status = "up" /\ op.kind = "copy" /\ op.left = {}
      /\ disk' = [loc \in SlotLocation |->
                    IF SizeClass(loc) = op.class /\ SlotIndex(loc) >= op.live
                    THEN Free ELSE disk[loc]]
      /\ len' = [len EXCEPT ![op.class] = op.live]
      /\ index' = [k \in Keys |-> IF k \in DOMAIN op.moves THEN op.moves[k] ELSE index[k]]
      /\ slotCount' = [slotCount EXCEPT ![op.class] = op.live]
      /\ free' = free \ FreeIn(op.class)
      /\ op' = [kind |-> "compact", classes |-> op.classes]
      /\ UNCHANGED <<status, nextVersion, promised, torn>>
  BY DEF CompactTruncate, ghosts
<1>2. TypeOK /\ Memory /\ Disk /\ Vacuuming /\ VersionsAhead /\ TiesAreCopies /\ Promised
  BY DEF IInv
<1>3. PICK c \in Classes, live \in 0 .. MaxSlots,
           moves \in Pairings(TailLives(op.class), HeadFrees(op.class)) :
        /\ c = op.class /\ live = op.live /\ moves = op.moves
        /\ live = LiveCount(c)
        /\ c \notin op.classes
        /\ \A d \in Classes \ {c} : d \in op.classes <=> HalfEmpty(d)
  BY <1>1, <1>2, OpTypes DEF Vacuuming, TypeOK
<1>4. /\ op.classes \subseteq Classes /\ op' \in Operations /\ op'.kind = "compact"
      /\ op'.classes = op.classes
  <2>1. op.classes \subseteq Classes
    BY <1>1, <1>2, OpTypes DEF TypeOK
  <2> QED BY <1>1, <2>1 DEF Operations
<1>5. /\ moves \in [TailLives(c) -> HeadFrees(c)] /\ DOMAIN moves = TailLives(c)
      /\ \A i, j \in TailLives(c) : moves[i] = moves[j] => i = j
      /\ \A j \in TailLives(c) : Occupies(moves[j], j) /\ disk[moves[j]] = disk[index[j]]
  BY <1>1, <1>2, <1>3 DEF Vacuuming, Pairings
<1>6. Pending = {} /\ Pending' = {}
  BY <1>1, <1>4 DEF Pending
<1>7. /\ live \in 0 .. slotCount[c] /\ live \in Nat
      /\ \A loc \in HeadFrees(c) : \E j \in TailLives(c) : moves[j] = loc
      /\ len[c] = slotCount[c] /\ slotCount[c] \in Nat
  <2>1. live \in Nat /\ slotCount[c] \in Nat
    BY <1>2, <1>3, BoundAssumption DEF TypeOK
  <2> QED BY <1>1, <1>2, <1>3, <1>6, <2>1, PairsUp, PairingIsOnto DEF Memory
<1> DEFINE gone == {loc \in SlotLocation : SizeClass(loc) = c /\ SlotIndex(loc) >= live}
<1>8. \A j \in Keys : j \in TailLives(c) <=> index[j] \in gone
  BY <1>2, <1>3, LocationAssumption DEF TailLives, LiveIn, TypeOK
<1>9. /\ TailLives(c) \subseteq Keys
      /\ \A j \in TailLives(c) :
           /\ moves[j] \in free /\ moves[j] \in SlotLocation /\ moves[j] # NONE
           /\ SizeClass(moves[j]) = c /\ SlotIndex(moves[j]) < live /\ moves[j] \notin gone
  <2>1. TailLives(c) \subseteq Keys
    BY DEF TailLives, LiveIn
  <2>2. \A j \in TailLives(c) :
           /\ moves[j] \in free /\ moves[j] \in SlotLocation /\ moves[j] # NONE
           /\ SizeClass(moves[j]) = c /\ SlotIndex(moves[j]) < live
    BY <1>2, <1>3, <1>5, LocationAssumption DEF HeadFrees, FreeIn, TypeOK
  <2>3. \A loc \in SlotLocation : SlotIndex(loc) < live => loc \notin gone
    BY <1>7, LocParts
  <2> HIDE DEF gone
  <2> QED BY <2>1, <2>2, <2>3
<1>10. /\ index' \in [Keys -> SlotLocation \cup {NONE}]
       /\ \A j \in TailLives(c) : index'[j] = moves[j]
       /\ \A j \in Keys : j \notin TailLives(c) => index'[j] = index[j]
  BY <1>1, <1>2, <1>3, <1>5, <1>9 DEF TypeOK
<1>11. /\ len' \in [Classes -> 0 .. MaxSlots] /\ len'[c] = live
       /\ \A d \in Classes : d # c => len'[d] = len[d]
       /\ slotCount' \in [Classes -> 0 .. MaxSlots] /\ slotCount'[c] = live
       /\ \A d \in Classes : d # c => slotCount'[d] = slotCount[d]
  BY <1>1, <1>2, <1>3 DEF TypeOK
<1>12. /\ disk' \in [SlotLocation -> Slot]
       /\ \A loc \in SlotLocation : disk'[loc] = IF loc \in gone THEN Free ELSE disk[loc]
  <2>1. Free \in Slot
    BY DEF Slot
  <2> QED BY <1>1, <1>2, <1>3, <2>1 DEF TypeOK
<1>13. \A loc : loc \in free' <=> loc \in free /\ SizeClass(loc) # c
  BY <1>1, <1>3 DEF FreeIn
<1>14. \A loc \in Holding("occupied") :
         \/ loc = index[disk[loc].key]
         \/ disk[loc].key \in TailLives(c) /\ loc = moves[disk[loc].key]
  BY <1>1, <1>2, <1>3, <1>5, <1>6 DEF Disk
<1>15. \A k \in Keys : Replaced(k, gone)
  <2> SUFFICES ASSUME NEW k \in Keys, NEW loc \in gone, Occupies(loc, k)
               PROVE  \E other \in SlotLocation \ gone :
                        Occupies(other, k) /\ disk[other] = disk[loc]
    BY DEF Replaced
  <2>1. k \in TailLives(c) /\ loc = index[k]
    BY <1>8, <1>9, <1>14 DEF Occupies
  <2> QED BY <1>5, <1>9, <2>1
<1>16. /\ \A loc : loc \in Holding("occupied")' <=> loc \in Holding("occupied") /\ loc \notin gone
       /\ \A loc \in SlotLocation : loc \notin gone => disk'[loc] = disk[loc]
       /\ \A loc, k : Occupies(loc, k)' <=> Occupies(loc, k) /\ loc \notin gone
       /\ TiesAreCopies' /\ VersionsAhead'
       /\ \A k \in Keys : \A v : Loads(k, v) => Loads(k, v)'
  <2>1. \A loc \in SlotLocation : loc \notin gone =>
          /\ disk'[loc] = disk[loc]
          /\ SlotIndex(loc) < len'[SizeClass(loc)] <=> SlotIndex(loc) < len[SizeClass(loc)]
    <3> SUFFICES ASSUME NEW loc \in SlotLocation, loc \notin gone
                 PROVE  /\ disk'[loc] = disk[loc]
                        /\ SlotIndex(loc) < len'[SizeClass(loc)] <=> SlotIndex(loc) < len[SizeClass(loc)]
      OBVIOUS
    <3>1. SizeClass(loc) \in Classes /\ SlotIndex(loc) \in Nat
      BY LocParts
    <3>2. CASE SizeClass(loc) = c
      BY <1>7, <1>11, <1>12, <3>1, <3>2
    <3>3. CASE SizeClass(loc) # c
      BY <1>11, <1>12, <3>1, <3>3
    <3> QED BY <3>2, <3>3
  <2>2. \A loc \in SlotLocation : loc \in gone => disk'[loc].state # "occupied"
    BY <1>12 DEF Free
  <2> HIDE DEF gone
  <2> QED BY <1>1, <1>2, <1>15, <2>1, <2>2, SlotsGone
<1>17. TypeOK'
  BY <1>1, <1>2, <1>4, <1>10, <1>11, <1>12, <1>13 DEF TypeOK
<1>18. Modes'
  BY <1>1, <1>4 DEF Modes
<1>19. Memory'
  <2>1. /\ \A k, other \in Keys : index[k] = index[other] /\ index[k] # NONE => k = other
        /\ \A loc \in SlotLocation :
             SlotIndex(loc) < slotCount[SizeClass(loc)] <=>
               loc \in free \/ \E k \in Keys : index[k] = loc
        /\ \A k \in Keys : index[k] \notin free
        /\ \A d \in Classes : len[d] = slotCount[d]
    BY <1>1, <1>2, <1>6 DEF Memory
  <2>2. \A i, j \in Keys : index'[i] = index'[j] /\ index'[i] # NONE => i = j
    BY <1>5, <1>9, <1>10, <2>1
  <2>3. \A loc \in SlotLocation :
          SlotIndex(loc) < slotCount'[SizeClass(loc)] <=>
            loc \in free' \/ \E k \in Keys : index'[k] = loc
    <3> SUFFICES ASSUME NEW loc \in SlotLocation
                 PROVE  SlotIndex(loc) < slotCount'[SizeClass(loc)] <=>
                          loc \in free' \/ \E k \in Keys : index'[k] = loc
      OBVIOUS
    <3>1. SizeClass(loc) \in Classes /\ SlotIndex(loc) \in Nat
      BY LocParts
    <3>2. CASE SizeClass(loc) # c
      <4>1. loc \notin gone
        BY <3>2
      <4>2. (\E k \in Keys : index'[k] = loc) <=> \E k \in Keys : index[k] = loc
        BY <1>8, <1>9, <1>10, <3>2, <4>1
      <4>3. slotCount'[SizeClass(loc)] = slotCount[SizeClass(loc)]
        BY <1>11, <3>1, <3>2
      <4> QED BY <1>13, <2>1, <3>2, <4>2, <4>3
    <3>3. CASE SizeClass(loc) = c /\ SlotIndex(loc) < live
      <4>1. loc \notin gone /\ SlotIndex(loc) < slotCount[c]
        BY <1>7, <3>1, <3>3
      <4>2. CASE loc \in free
        <5>1. loc \in HeadFrees(c)
          BY <1>3, <3>3, <4>2 DEF HeadFrees, FreeIn
        <5> QED BY <1>7, <1>9, <1>10, <1>11, <3>3, <5>1
      <4>3. CASE loc \notin free
        <5>1. PICK k \in Keys : index[k] = loc
          BY <2>1, <3>3, <4>1, <4>3
        <5> QED BY <1>8, <1>10, <1>11, <3>3, <4>1, <5>1
      <4> QED BY <4>2, <4>3
    <3>4. CASE SizeClass(loc) = c /\ ~ (SlotIndex(loc) < live)
      <4>1. loc \in gone /\ ~ (SlotIndex(loc) < slotCount'[c])
        BY <1>7, <1>11, <3>1, <3>4
      <4>2. \A k \in Keys : index'[k] # loc
        BY <1>8, <1>9, <1>10, <4>1
      <4> QED BY <1>13, <3>4, <4>1, <4>2
    <3> QED BY <3>2, <3>3, <3>4
  <2>4. \A k \in Keys : index'[k] \notin free'
    BY <1>9, <1>10, <1>13, <2>1
  <2>5. \A d \in Classes : len'[d] = slotCount'[d]
    BY <1>11, <2>1
  <2> QED BY <1>6, <2>2, <2>3, <2>4, <2>5 DEF Memory
<1>20. Disk'
  <2>1. \A loc \in Holding("occupied")' : loc = index'[disk'[loc].key]
    <3> SUFFICES ASSUME NEW loc \in Holding("occupied")'
                 PROVE  loc = index'[disk'[loc].key]
      OBVIOUS
    <3>1. loc \in Holding("occupied") /\ loc \notin gone /\ disk'[loc] = disk[loc]
          /\ disk[loc].key \in Keys
      BY <1>2, <1>16, SlotTypes
    <3> QED BY <1>8, <1>10, <1>14, <3>1
  <2>2. \A k \in Keys : index'[k] # NONE => /\ index'[k] \in Holding("occupied")'
                                            /\ disk'[index'[k]].key = k
    <3> SUFFICES ASSUME NEW k \in Keys, index'[k] # NONE
                 PROVE  index'[k] \in Holding("occupied")' /\ disk'[index'[k]].key = k
      OBVIOUS
    <3>1. CASE k \in TailLives(c)
      <4>1. Occupies(moves[k], k) /\ moves[k] \notin gone /\ index'[k] = moves[k]
            /\ disk'[moves[k]] = disk[moves[k]]
        BY <1>5, <1>9, <1>10, <1>16, <3>1
      <4> QED BY <1>16, <4>1 DEF Occupies
    <3>2. CASE k \notin TailLives(c)
      <4>1. index'[k] = index[k] /\ Occupies(index[k], k) /\ index[k] \notin gone
        BY <1>1, <1>2, <1>8, <1>10, <3>2 DEF Disk
      <4>2. index[k] \in SlotLocation
        BY <1>2, <4>1, OccupiesTypes
      <4> QED BY <1>16, <4>1, <4>2 DEF Occupies
    <3> QED BY <3>1, <3>2
  <2>3. \A k \in Keys : index'[k] # NONE => Occupies(index[k], k)'
    BY <2>2 DEF Occupies
  <2> QED BY <2>1, <2>3 DEF Disk
<1>21. Writing' /\ Zeroing' /\ Recovering'
  BY <1>4 DEF Writing, Zeroing, Recovering
<1>22. Vacuuming'
  <2>1. \A d : FreeIn(d)' = IF d = c THEN {} ELSE FreeIn(d)
    BY <1>13 DEF FreeIn
  <2>2. \A d \in Classes : d # c => (HalfEmpty(d)' <=> HalfEmpty(d))
    BY <1>11, <2>1 DEF HalfEmpty
  <2>3. ~HalfEmpty(c)'
    <3>1. FreeIn(c)' = {} /\ Cardinality({}) = 0
      BY <2>1, FS_EmptySet
    <3>2. Cardinality(FreeIn(c))' = 0
      BY <3>1
    <3>3. slotCount'[c] \in Nat
      BY <1>7, <1>11
    <3> QED BY <3>2, <3>3 DEF HalfEmpty
  <2>4. \A d \in Classes : d \in op'.classes <=> HalfEmpty(d)'
    BY <1>3, <1>4, <2>2, <2>3
  <2> QED BY <1>4, <2>4 DEF Vacuuming
<1>23. Promised'
  <2>1. Unreturned = {} /\ promised' = promised
    BY <1>1 DEF Unreturned
  <2>2. \A k \in Keys : Loads(k, promised[k])
    BY <1>2, <2>1 DEF Promised
  <2> SUFFICES ASSUME NEW k \in Keys PROVE Loads(k, promised[k])'
    BY DEF Promised
  <2>3. PICK v : v = promised[k]
    OBVIOUS
  <2>4. Loads(k, v)'
    BY <1>16, <2>2, <2>3
  <2> QED BY <2>1, <2>3, <2>4
<1> QED BY <1>16, <1>17, <1>18, <1>19, <1>20, <1>21, <1>22, <1>23 DEF IInv

(* The slot a death can tear holds nothing, or an earlier payload of the     *)
(* partition being written; it is within its page-file or next to it.        *)
LEMMA TearEffect ==
  ASSUME IInv, NEW loc \in BeingWritten
  PROVE  /\ loc \in SlotLocation
         /\ status = "up" /\ op.kind \in {"write", "copy"}
         /\ SlotIndex(loc) <= len[SizeClass(loc)]
         /\ \A k : Occupies(loc, k) => op.kind = "write" /\ k = op.slot.key
         /\ op.kind = "write" => loc = op.at /\ SizeClass(loc) \notin SectorClasses
<1>1. TypeOK /\ Modes /\ Memory /\ Disk /\ Writing /\ Vacuuming
  BY DEF IInv
<1>2. /\ op.kind \in {"write", "copy"}
      /\ op.kind = "write" => loc = op.at /\ SizeClass(loc) \notin SectorClasses
      /\ op.kind = "copy" => \E j \in op.left : loc = op.moves[j]
  BY DEF BeingWritten
<1>3. status = "up"
  BY <1>1, <1>2 DEF Modes, TypeOK, Idle
<1>4. \A c \in Classes : len[c] \in Nat /\ slotCount[c] \in Nat
  BY <1>1, BoundAssumption DEF TypeOK
<1>5. CASE op.kind = "write"
  <2>1. loc = op.at /\ loc \in SlotLocation /\ index[op.slot.key] = loc /\ op.slot.key \in Keys
    BY <1>1, <1>2, <1>5, OpTypes DEF Writing, TypeOK
  <2>2. SlotIndex(loc) < slotCount[SizeClass(loc)] /\ SizeClass(loc) \in Classes /\ SlotIndex(loc) \in Nat
    BY <1>1, <1>3, <2>1, LocParts DEF Memory
  <2>3. \/ len[SizeClass(loc)] = slotCount[SizeClass(loc)]
        \/ SlotIndex(loc) = len[SizeClass(loc)]
    BY <1>1, <1>3, <2>1, <2>2 DEF Memory
  <2>4. \A k : Occupies(loc, k) => k = op.slot.key
    BY <1>1, <1>5, <2>1, LocationAssumption DEF Writing, Occupies
  <2> QED BY <1>2, <1>3, <1>4, <1>5, <2>1, <2>2, <2>3, <2>4
<1>6. CASE op.kind = "copy"
  <2>1. PICK k \in op.left : loc = op.moves[k]
    BY <1>2, <1>6
  <2>2. /\ op.moves \in Pairings(TailLives(op.class), HeadFrees(op.class))
        /\ op.left \subseteq DOMAIN op.moves /\ op.class \in Classes
    BY <1>1, <1>6, OpTypes DEF Vacuuming, TypeOK
  <2>3. /\ DOMAIN op.moves = TailLives(op.class) /\ k \in DOMAIN op.moves
        /\ \A i, j \in DOMAIN op.moves : op.moves[i] = op.moves[j] => i = j
        /\ loc \in free /\ loc \in SlotLocation
    BY <1>1, <2>1, <2>2 DEF Pairings, HeadFrees, FreeIn, TypeOK
  <2>4. \A j \in Keys : index[j] # loc
    BY <1>1, <1>3, <2>3 DEF Memory
  <2>5. loc \notin Holding("occupied")
    <3> SUFFICES ASSUME loc \in Holding("occupied") PROVE FALSE
      OBVIOUS
    <3>1. disk[loc].key \in Keys
      BY <1>1, SlotTypes
    <3>2. disk[loc].key \in DOMAIN op.moves \ op.left /\ loc = op.moves[disk[loc].key]
      BY <1>1, <1>3, <1>6, <2>4, <3>1 DEF Disk, Pending
    <3> QED BY <2>1, <2>3, <3>2
  <2>6. SlotIndex(loc) < slotCount[SizeClass(loc)] /\ len[SizeClass(loc)] = slotCount[SizeClass(loc)]
        /\ SizeClass(loc) \in Classes /\ SlotIndex(loc) \in Nat
    BY <1>1, <1>3, <1>6, <2>3, LocParts DEF Memory
  <2> QED BY <1>2, <1>3, <1>4, <1>6, <2>3, <2>5, <2>6 DEF Occupies
<1> QED BY <1>2, <1>5, <1>6

(* What a death leaves on the disk. *)
LEMMA CrashEffect ==
  ASSUME IInv, Crash
  PROVE  /\ DiskTyped' /\ len' \in [Classes -> 0 .. MaxSlots] /\ torn' \subseteq {"write", "copy"}
         /\ TiesAreCopies'
         /\ \A k \in Keys : k \notin Unreturned => \A v : Loads(k, v) => Loads(k, v)'
         /\ \/ UNCHANGED disks
            \/ \E loc \in BeingWritten :
                 /\ \A other, k : Occupies(other, k)' <=> Occupies(other, k) /\ other # loc
                 /\ \A other \in SlotLocation : other # loc => disk'[other] = disk[other]
<1>1. TypeOK /\ TiesAreCopies
  BY DEF IInv
<1>2. CASE UNCHANGED <<disks, torn>>
  <2>1. UNCHANGED disks /\ disk' = disk /\ len' = len /\ torn' = torn
    BY <1>2 DEF disks
  <2> QED BY <1>1, <2>1, DiskStays DEF DiskTyped, TypeOK
<1>3. CASE \E loc \in BeingWritten : Tear(loc)
  <2>1. PICK loc \in BeingWritten : Tear(loc)
    BY <1>3
  <2>2. /\ disk' = [disk EXCEPT ![loc] = Corrupt]
        /\ len' = [len EXCEPT ![SizeClass(loc)] =
                     IF SlotIndex(loc) >= @ THEN SlotIndex(loc) + 1 ELSE @]
        /\ torn' = torn \cup {op.kind}
    BY <2>1 DEF Tear
  <2>3. /\ loc \in SlotLocation /\ op.kind \in {"write", "copy"}
        /\ SlotIndex(loc) <= len[SizeClass(loc)]
        /\ \A k : Occupies(loc, k) => op.kind = "write" /\ k = op.slot.key
    BY TearEffect
  <2>4. /\ SizeClass(loc) \in Classes /\ SlotIndex(loc) \in Nat /\ SlotIndex(loc) \in 0 .. MaxSlots - 1
        /\ \A c \in Classes : len[c] \in Nat /\ len[c] \in 0 .. MaxSlots
        /\ MaxSlots \in Nat
    BY <1>1, <2>3, LocParts, BoundAssumption DEF TypeOK
  <2>5. /\ disk' \in [SlotLocation -> Slot] /\ disk'[loc] = Corrupt
        /\ \A other \in SlotLocation : other # loc => disk'[other] = disk[other]
    <3>1. Corrupt \in Slot
      BY DEF Slot
    <3> QED BY <1>1, <2>2, <2>3, <3>1 DEF TypeOK
  <2>6. /\ len' \in [Classes -> 0 .. MaxSlots]
        /\ \A c \in Classes : c # SizeClass(loc) => len'[c] = len[c]
        /\ len'[SizeClass(loc)] = IF SlotIndex(loc) >= len[SizeClass(loc)]
                                  THEN SlotIndex(loc) + 1 ELSE len[SizeClass(loc)]
    BY <1>1, <2>2, <2>4 DEF TypeOK
  <2>7. \A other \in SlotLocation : other \notin {loc} =>
          /\ disk'[other] = disk[other]
          /\ SlotIndex(other) < len'[SizeClass(other)] <=> SlotIndex(other) < len[SizeClass(other)]
    <3> SUFFICES ASSUME NEW other \in SlotLocation, other # loc
                 PROVE  SlotIndex(other) < len'[SizeClass(other)] <=>
                          SlotIndex(other) < len[SizeClass(other)]
      BY <2>5
    <3>1. SizeClass(other) \in Classes /\ SlotIndex(other) \in Nat
      BY LocParts
    <3>2. CASE SizeClass(other) = SizeClass(loc)
      <4>1. SlotIndex(other) # SlotIndex(loc)
        BY <2>3, <3>2, LocEqual
      <4> QED BY <2>3, <2>4, <2>6, <3>1, <3>2, <4>1
    <3>3. CASE SizeClass(other) # SizeClass(loc)
      BY <2>6, <3>1, <3>3
    <3> QED BY <3>2, <3>3
  <2>8. \A other \in SlotLocation : other \in {loc} => disk'[other].state # "occupied"
    BY <2>5 DEF Corrupt
  <2>9. /\ \A other, k : Occupies(other, k)' <=> Occupies(other, k) /\ other \notin {loc}
        /\ TiesAreCopies'
        /\ \A k, v : Loads(k, v) /\ Replaced(k, {loc}) => Loads(k, v)'
    BY <1>1, <2>7, <2>8, SlotsGone
  <2>10. \A k : k \notin Unreturned => Replaced(k, {loc})
    BY <2>3 DEF Replaced, Unreturned
  <2>11. torn' \subseteq {"write", "copy"}
    BY <1>1, <2>2, <2>3 DEF TypeOK
  <2>12. DiskTyped'
    BY <2>5 DEF DiskTyped
  <2>13. \A k \in Keys : k \notin Unreturned => \A v : Loads(k, v) => Loads(k, v)'
    BY <2>9, <2>10
  <2> QED BY <2>5, <2>6, <2>9, <2>11, <2>12, <2>13
<1> QED BY <1>2, <1>3 DEF Crash

LEMMA CrashStep ==
  ASSUME IInv, Crash
  PROVE  IInv'
<1>1. /\ status' = "down" /\ op' = Idle /\ nextVersion' = 0 /\ free' = {}
      /\ index' = [k \in Keys |-> NONE]
      /\ slotCount' = [c \in Classes |-> 0]
      /\ promised' = [k \in Keys |-> IF k \in Unreturned THEN Content(k)' ELSE promised[k]]
  BY DEF Crash
<1>2. TypeOK /\ Promised
  BY DEF IInv
<1>3. /\ DiskTyped' /\ len' \in [Classes -> 0 .. MaxSlots] /\ torn' \subseteq {"write", "copy"}
      /\ TiesAreCopies'
      /\ \A k \in Keys : k \notin Unreturned => \A v : Loads(k, v) => Loads(k, v)'
  BY CrashEffect
<1>4. \A k \in Keys : Loads(k, Content(k))' /\ Content(k)' \in Values \cup {NONE}
  BY <1>3, ContentLoadsNext DEF ContentLoaded
<1>5. promised' \in [Keys -> Values \cup {NONE}]
  BY <1>1, <1>2, <1>4 DEF TypeOK
<1>6. TypeOK'
  <2>1. op' \in Operations /\ nextVersion' \in 0 .. MaxVersion + 1 /\ slotCount' \in [Classes -> 0 .. MaxSlots]
    BY <1>1, BoundAssumption DEF Operations
  <2> QED BY <1>1, <1>3, <1>5, <2>1 DEF TypeOK, DiskTyped
<1>7. op'.kind = "idle" /\ Modes'
  BY <1>1 DEF Modes, Idle
<1>8. Memory' /\ Disk' /\ VersionsAhead'
  BY <1>1 DEF Memory, Disk, VersionsAhead
<1>9. Writing' /\ Zeroing' /\ Vacuuming' /\ Recovering'
  BY <1>7 DEF Writing, Zeroing, Vacuuming, Recovering
<1>10. Promised'
  <2> SUFFICES ASSUME NEW k \in Keys PROVE Loads(k, promised[k])'
    BY DEF Promised
  <2>1. CASE k \in Unreturned
    <3>1. PICK v : v = Content(k)'
      OBVIOUS
    <3>2. promised'[k] = v
      BY <1>1, <2>1, <3>1
    <3>3. Loads(k, v)'
      BY <1>4, <3>1
    <3> QED BY <3>2, <3>3
  <2>2. CASE k \notin Unreturned
    <3>1. PICK v : v = promised[k]
      OBVIOUS
    <3>2. Loads(k, v)'
      BY <1>2, <1>3, <2>2, <3>1 DEF Promised
    <3>3. promised'[k] = v
      BY <1>1, <2>2, <3>1
    <3> QED BY <3>2, <3>3
  <2> QED BY <2>1, <2>2
<1> QED BY <1>3, <1>6, <1>7, <1>8, <1>9, <1>10 DEF IInv

LEMMA RefuseToStartStep ==
  ASSUME IInv, RefuseToStart
  PROVE  IInv'
<1>1. /\ status = "down" /\ status' = "refused" /\ UNCHANGED disks
      /\ disk' = disk /\ len' = len /\ index' = index /\ slotCount' = slotCount /\ free' = free
      /\ nextVersion' = nextVersion /\ op' = op /\ promised' = promised /\ torn' = torn
  BY DEF RefuseToStart, disks, memory, ghosts
<1>2. TypeOK /\ Modes /\ TiesAreCopies /\ Promised
  BY DEF IInv
<1>3. op = Idle /\ op.kind = "idle"
  BY <1>1, <1>2 DEF Modes, Idle
<1>4. TypeOK' /\ Modes'
  BY <1>1, <1>2, <1>3 DEF TypeOK, Modes
<1>5. Memory' /\ Disk' /\ VersionsAhead' /\ Writing' /\ Zeroing' /\ Vacuuming' /\ Recovering'
  BY <1>1, <1>3 DEF Memory, Disk, VersionsAhead, Writing, Zeroing, Vacuuming, Recovering
<1>6. TiesAreCopies' /\ \A k, v : Loads(k, v)' <=> Loads(k, v)
  BY <1>1, <1>2, DiskStays
<1>7. Promised'
  BY <1>1, <1>2, <1>6 DEF Promised, Unreturned
<1> QED BY <1>4, <1>5, <1>6, <1>7 DEF IInv

(* The highest version a scan has seen is one it has seen, if any.           *)
LEMMA HighestSeen ==
  ASSUME TypeOK
  PROVE  /\ MaxVersionSeen \in 0 .. MaxVersion
         /\ \A loc \in Holding("occupied") : disk[loc].version <= MaxVersionSeen
<1> DEFINE V == {disk[loc].version : loc \in Holding("occupied")}
<1>1. CASE Holding("occupied") = {}
  BY <1>1, BoundAssumption DEF MaxVersionSeen
<1>2. CASE Holding("occupied") # {}
  <2>1. V \subseteq 0 .. MaxVersion /\ V # {}
    BY <1>2, SlotTypes
  <2>2. \E n \in V : \A m \in V : n >= m
    <3> HIDE DEF V
    <3>1. PICK n \in V : \A m \in V : m <= n
      BY <2>1, GreatestExists, BoundAssumption
    <3> QED BY <2>1, <3>1
  <2>3. Max(V) \in V /\ \A m \in V : Max(V) >= m
    <3> HIDE DEF V
    <3> QED BY <2>2 DEF Max
  <2>4. MaxVersionSeen = Max(V)
    BY <1>2 DEF MaxVersionSeen
  <2>5. \A m \in V : m <= Max(V)
    <3> HIDE DEF V
    <3> QED BY <2>1, <2>3
  <2> QED BY <2>1, <2>3, <2>4, <2>5
<1> QED BY <1>1, <1>2

LEMMA ScanStep ==
  ASSUME IInv, Scan
  PROVE  IInv'
<1>1. /\ status \in {"down", "refused"} /\ status' = "loading" /\ UNCHANGED disks
      /\ slotCount' = len
      /\ free' = Holding("free") \cup Holding("corrupt")
      /\ disk' = disk /\ len' = len /\ index' = index /\ nextVersion' = nextVersion
      /\ promised' = promised /\ torn' = torn
  BY DEF Scan, disks, ghosts
<1>2. PICK w \in Winners :
        op' = [kind |-> "recover", winners |-> w, seen |-> MaxVersionSeen,
               losers |-> Holding("occupied") \ {w[k] : k \in OnDisk}]
  BY DEF Scan
<1>3. TypeOK /\ Modes /\ TiesAreCopies /\ Promised
  BY DEF IInv
<1>4. /\ w \in [OnDisk -> Holding("occupied")] /\ DOMAIN w = OnDisk
      /\ \A k \in OnDisk : Wins(w[k], k)
      /\ OnDisk \subseteq Keys /\ Holding("occupied") \subseteq SlotLocation
  BY <1>3, SlotTypes DEF Winners, OnDisk
<1>5. /\ Holding("occupied")' = Holding("occupied")
      /\ \A loc, k : Occupies(loc, k)' <=> Occupies(loc, k)
      /\ \A loc, k : NotOlder(loc, k)' <=> NotOlder(loc, k)
      /\ \A k, v : Loads(k, v)' <=> Loads(k, v)
      /\ TiesAreCopies'
  BY <1>1, <1>3, DiskStays
<1>6. /\ op'.kind = "recover" /\ op'.winners = w /\ op'.seen = MaxVersionSeen
      /\ op'.losers = Holding("occupied") \ {w[k] : k \in OnDisk}
  BY <1>2
<1>7. TypeOK'
  <2>1. w \in UNION {[from -> SlotLocation] : from \in SUBSET Keys}
    BY <1>4
  <2>2. op'.losers \subseteq SlotLocation
    BY <1>4, <1>6
  <2>3. op' \in Operations
    BY <1>2, <1>3, <1>6, <2>1, <2>2, HighestSeen DEF Operations
  <2>4. free' \subseteq SlotLocation
    BY <1>1 DEF Holding
  <2> QED BY <1>1, <1>3, <2>3, <2>4 DEF TypeOK
<1>8. Modes'
  BY <1>1, <1>6 DEF Modes
<1>9. Memory' /\ Disk' /\ VersionsAhead' /\ Writing' /\ Zeroing' /\ Vacuuming'
  BY <1>1, <1>6 DEF Memory, Disk, VersionsAhead, Writing, Zeroing, Vacuuming
<1>10. \A k \in OnDisk : /\ Occupies(w[k], k)
                         /\ NotOlder(w[k], k)
  <2> SUFFICES ASSUME NEW k \in OnDisk
               PROVE  Occupies(w[k], k) /\ NotOlder(w[k], k)
    OBVIOUS
  <2>1. Wins(w[k], k)
    BY <1>4
  <2>2. \A other \in SlotLocation : Occupies(other, k) => other \in Copies(k)
    BY DEF Copies, Occupies
  <2> QED BY <2>1, <2>2 DEF Wins, NotOlder, Copies, Occupies
<1>11. \A loc \in Holding("occupied") :
         /\ disk[loc].key \in OnDisk
         /\ loc = w[disk[loc].key] \/ loc \in op'.losers
  <2> SUFFICES ASSUME NEW loc \in Holding("occupied")
               PROVE  /\ disk[loc].key \in OnDisk
                      /\ loc = w[disk[loc].key] \/ loc \in op'.losers
    OBVIOUS
  <2>1. disk[loc].key \in OnDisk
    BY DEF OnDisk
  <2>2. CASE \E k \in OnDisk : loc = w[k]
    BY <1>10, <2>2 DEF Occupies
  <2>3. CASE ~ \E k \in OnDisk : loc = w[k]
    <3>1. loc \notin {w[k] : k \in OnDisk}
      BY <2>3
    <3>2. loc \in Holding("occupied") \ {w[k] : k \in OnDisk}
      BY <3>1
    <3> QED BY <1>6, <2>1, <3>2
  <2> QED BY <2>1, <2>2, <2>3
<1>12. \A loc \in SlotLocation :
         loc \in free' <=> /\ SlotIndex(loc) < len[SizeClass(loc)]
                           /\ disk[loc].state # "occupied"
  <2>1. \A loc \in SlotLocation : disk[loc].state \in {"free", "corrupt", "occupied"}
    BY <1>3 DEF TypeOK, Slot, Free, Corrupt
  <2> QED BY <1>1, <2>1 DEF Holding
<1>13. Recovering'
  <2>1. \A k \in DOMAIN op'.winners : Occupies(op.winners[k], k)' /\ NotOlder(op.winners[k], k)'
    <3>1. \A k \in OnDisk : Occupies(w[k], k)' /\ NotOlder(w[k], k)'
      BY <1>5, <1>10
    <3> QED BY <1>4, <1>6, <3>1
  <2>2. \A k \in DOMAIN op'.winners : op'.winners[k] \notin op'.losers
    BY <1>4, <1>6
  <2>3. \A loc \in Holding("occupied")' : disk'[loc].version <= op'.seen
    BY <1>1, <1>3, <1>5, <1>6, HighestSeen
  <2>4. \A loc \in Holding("occupied")' :
          /\ disk'[loc].key \in DOMAIN op'.winners
          /\ loc = op'.winners[disk'[loc].key] \/ loc \in op'.losers
    BY <1>1, <1>4, <1>5, <1>6, <1>11
  <2>5. op'.losers \subseteq Holding("occupied")'
    BY <1>5, <1>6
  <2> QED BY <1>1, <1>12, <2>1, <2>2, <2>3, <2>4, <2>5 DEF Recovering
<1>14. Promised'
  <2>1. Unreturned = {}
    BY <1>1, <1>3 DEF Unreturned, Modes, Idle
  <2>2. \A k \in Keys : Loads(k, promised[k])
    BY <1>3, <2>1 DEF Promised
  <2> QED BY <1>1, <1>5, <2>2 DEF Promised
<1> QED BY <1>5, <1>7, <1>8, <1>9, <1>13, <1>14 DEF IInv

LEMMA ZeroLoserStep ==
  ASSUME IInv, NEW loc \in SlotLocation, ZeroLoser(loc)
  PROVE  IInv'
<1>1. /\ status = "loading" /\ loc \in op.losers
      /\ disk' = [disk EXCEPT ![loc] = Free]
      /\ free' = free \cup {loc}
      /\ op' = [op EXCEPT !.losers = @ \ {loc}]
      /\ UNCHANGED <<len, status, index, slotCount, nextVersion, promised, torn>>
  BY DEF ZeroLoser, ghosts
<1>2. TypeOK /\ Modes /\ Recovering /\ TiesAreCopies /\ Promised
  BY DEF IInv
<1>3. op.kind = "recover"
  BY <1>1, <1>2 DEF Modes
<1>4. /\ \A k \in DOMAIN op.winners :
           /\ Occupies(op.winners[k], k) /\ NotOlder(op.winners[k], k)
           /\ op.winners[k] \notin op.losers
      /\ op.losers \subseteq Holding("occupied")
      /\ \A at \in Holding("occupied") :
           /\ disk[at].key \in DOMAIN op.winners
           /\ at = op.winners[disk[at].key] \/ at \in op.losers
           /\ disk[at].version <= op.seen
      /\ \A at \in SlotLocation :
           at \in free <=> /\ SlotIndex(at) < len[SizeClass(at)]
                           /\ disk[at].state # "occupied"
      /\ slotCount = len
  BY <1>2, <1>3 DEF Recovering
<1>5. /\ op'.kind = "recover" /\ op'.winners = op.winners /\ op'.seen = op.seen
      /\ op'.losers = op.losers \ {loc} /\ op' \in Operations
  BY <1>1, <1>2, <1>3 DEF Operations, TypeOK, Idle
<1>6. /\ disk' \in [SlotLocation -> Slot] /\ disk'[loc] = Free
      /\ \A at \in SlotLocation : at # loc => disk'[at] = disk[at]
  <2>1. Free \in Slot
    BY DEF Slot
  <2> QED BY <1>1, <1>2, <2>1 DEF TypeOK
<1>7. /\ \A at : at \in Holding("occupied")' <=> at \in Holding("occupied") /\ at # loc
      /\ \A at, k : Occupies(at, k)' <=> Occupies(at, k) /\ at # loc
      /\ TiesAreCopies'
      /\ \A k, v : Loads(k, v) /\ Replaced(k, {loc}) => Loads(k, v)'
  <2>1. \A at \in SlotLocation : at \notin {loc} =>
          /\ disk'[at] = disk[at]
          /\ SlotIndex(at) < len'[SizeClass(at)] <=> SlotIndex(at) < len[SizeClass(at)]
    BY <1>1, <1>6
  <2>2. \A at \in SlotLocation : at \in {loc} => disk'[at].state # "occupied"
    BY <1>6 DEF Free
  <2>3. /\ \A at : at \in Holding("occupied")' <=> at \in Holding("occupied") /\ at \notin {loc}
        /\ \A at, k : Occupies(at, k)' <=> Occupies(at, k) /\ at \notin {loc}
        /\ TiesAreCopies'
        /\ \A k, v : Loads(k, v) /\ Replaced(k, {loc}) => Loads(k, v)'
    BY <1>2, <2>1, <2>2, SlotsGone
  <2> QED BY <2>3
<1>8. TypeOK' /\ Modes'
  BY <1>1, <1>2, <1>3, <1>5, <1>6 DEF TypeOK, Modes
<1>9. Memory' /\ Disk' /\ VersionsAhead' /\ Writing' /\ Zeroing' /\ Vacuuming'
  BY <1>1, <1>5 DEF Memory, Disk, VersionsAhead, Writing, Zeroing, Vacuuming
<1>10. Recovering'
  <2>1. \A k \in DOMAIN op.winners :
          /\ Occupies(op.winners[k], k) /\ NotOlder(op.winners[k], k)
          /\ op.winners[k] # loc /\ op.winners[k] \in SlotLocation
          /\ disk'[op.winners[k]] = disk[op.winners[k]]
    BY <1>1, <1>2, <1>4, <1>6, OccupiesTypes
  <2>2. \A k \in DOMAIN op'.winners : Occupies(op.winners[k], k)' /\ NotOlder(op.winners[k], k)'
    <3> SUFFICES ASSUME NEW k \in DOMAIN op.winners
                 PROVE  Occupies(op.winners[k], k)' /\ NotOlder(op.winners[k], k)'
      BY <1>5
    <3>1. PICK at \in SlotLocation : at = op.winners[k]
      BY <2>1
    <3>2. Occupies(at, k)' /\ disk'[at] = disk[at]
      BY <1>7, <2>1, <3>1
    <3>3. \A other \in SlotLocation : Occupies(other, k)' => Occupies(other, k) /\ disk'[other] = disk[other]
      BY <1>6, <1>7
    <3>4. NotOlder(at, k)'
      BY <2>1, <3>1, <3>2, <3>3 DEF NotOlder
    <3> QED BY <1>5, <3>1, <3>2, <3>4
  <2>3. \A k \in DOMAIN op'.winners : op'.winners[k] \notin op'.losers
    BY <1>4, <1>5
  <2>4. \A at \in Holding("occupied")' :
          /\ disk'[at].key \in DOMAIN op'.winners
          /\ at = op'.winners[disk'[at].key] \/ at \in op'.losers
          /\ disk'[at].version <= op'.seen
    BY <1>2, <1>4, <1>5, <1>6, <1>7, SlotTypes
  <2>5. op'.losers \subseteq Holding("occupied")'
    BY <1>4, <1>5, <1>7
  <2>6. \A at \in SlotLocation :
           at \in free' <=> /\ SlotIndex(at) < len'[SizeClass(at)]
                            /\ disk'[at].state # "occupied"
    <3>1. SlotIndex(loc) < len[SizeClass(loc)]
      BY <1>1, <1>2, <1>4, SlotTypes
    <3> QED BY <1>1, <1>4, <1>6, <3>1 DEF Free
  <2> QED BY <1>1, <1>4, <2>2, <2>3, <2>4, <2>5, <2>6 DEF Recovering
<1>11. Promised'
  <2>1. Unreturned = {} /\ promised' = promised
    BY <1>1, <1>3 DEF Unreturned
  <2>2. \A k \in Keys : Loads(k, promised[k])
    BY <1>2, <2>1 DEF Promised
  <2> SUFFICES ASSUME NEW k \in Keys PROVE Loads(k, promised[k])'
    BY DEF Promised
  <2>3. Replaced(k, {loc})
    <3> SUFFICES ASSUME Occupies(loc, k)
                 PROVE  \E other \in SlotLocation \ {loc} :
                          /\ Occupies(other, k)
                          /\ disk[other] = disk[loc] \/ disk[loc].version < disk[other].version
      BY DEF Replaced
    <3>1. PICK w : w = op.winners[k]
      OBVIOUS
    <3>2. /\ k \in DOMAIN op.winners /\ Occupies(w, k) /\ w # loc
          /\ disk[loc].version <= disk[w].version
      BY <1>1, <1>4, <3>1 DEF Occupies, NotOlder
    <3>3. /\ disk[loc].version \in Nat /\ disk[w].version \in Nat /\ w \in SlotLocation
      BY <1>2, <3>2, OccupiesTypes
    <3>4. disk[loc].version = disk[w].version => disk[w] = disk[loc]
      BY <1>2, <3>2 DEF TiesAreCopies, Occupies
    <3> QED BY <3>2, <3>3, <3>4
  <2>4. PICK v : v = promised[k]
    OBVIOUS
  <2>5. Loads(k, v)'
    BY <1>7, <2>2, <2>3, <2>4
  <2> QED BY <2>1, <2>4, <2>5
<1> QED BY <1>7, <1>8, <1>9, <1>10, <1>11 DEF IInv

LEMMA LoadedStep ==
  ASSUME IInv, Loaded
  PROVE  IInv'
<1>1. /\ status = "loading" /\ op.losers = {} /\ status' = "up" /\ UNCHANGED disks
      /\ nextVersion' = op.seen + 1
      /\ index' = [k \in Keys |-> IF k \in DOMAIN op.winners THEN op.winners[k] ELSE NONE]
      /\ op' = Idle /\ disk' = disk /\ len' = len
      /\ slotCount' = slotCount /\ free' = free /\ promised' = promised /\ torn' = torn
  BY DEF Loaded, LoadedFrom, disks, ghosts
<1>2. TypeOK /\ Modes /\ Recovering /\ TiesAreCopies /\ Promised
  BY DEF IInv
<1>3. op.kind = "recover"
  BY <1>1, <1>2 DEF Modes
<1>4. /\ \A k \in DOMAIN op.winners : Occupies(op.winners[k], k) /\ k \in Keys
                                      /\ op.winners[k] \in SlotLocation
      /\ \A at \in Holding("occupied") :
           /\ disk[at].key \in DOMAIN op.winners
           /\ at = op.winners[disk[at].key]
           /\ disk[at].version <= op.seen
      /\ \A at \in SlotLocation :
           at \in free <=> /\ SlotIndex(at) < len[SizeClass(at)]
                           /\ disk[at].state # "occupied"
      /\ slotCount = len
      /\ op.seen \in 0 .. MaxVersion
  BY <1>1, <1>2, <1>3, OpTypes DEF Recovering, TypeOK
<1>5. op'.kind = "idle" /\ Pending' = {} /\ op' \in Operations
  BY <1>1 DEF Pending, Idle, Operations
<1>6. /\ Holding("occupied")' = Holding("occupied")
      /\ \A loc, k : Occupies(loc, k)' <=> Occupies(loc, k)
      /\ \A k, v : Loads(k, v)' <=> Loads(k, v)
      /\ TiesAreCopies'
  BY <1>1, <1>2, DiskStays
<1>7. /\ index' \in [Keys -> SlotLocation \cup {NONE}]
      /\ \A k \in Keys : index'[k] # NONE => k \in DOMAIN op.winners /\ index'[k] = op.winners[k]
      /\ \A k \in DOMAIN op.winners : index'[k] = op.winners[k]
  BY <1>1, <1>4
<1>8. TypeOK' /\ Modes'
  <2>1. nextVersion' \in 0 .. MaxVersion + 1
    BY <1>1, <1>4, BoundAssumption
  <2> QED BY <1>1, <1>2, <1>5, <1>7, <2>1 DEF TypeOK, Modes
<1>9. Memory'
  <2>1. \A k, other \in Keys : index'[k] = index'[other] /\ index'[k] # NONE => k = other
    BY <1>4, <1>7 DEF Occupies
  <2>2. \A loc \in SlotLocation :
          SlotIndex(loc) < slotCount[SizeClass(loc)] <=>
            loc \in free \/ \E k \in Keys : index'[k] = loc
    <3> SUFFICES ASSUME NEW loc \in SlotLocation
                 PROVE  SlotIndex(loc) < slotCount[SizeClass(loc)] <=>
                          loc \in free \/ \E k \in Keys : index'[k] = loc
      OBVIOUS
    <3>1. loc \in Holding("occupied") <=> SlotIndex(loc) < len[SizeClass(loc)] /\ disk[loc].state = "occupied"
      BY DEF Holding
    <3>2. loc \in Holding("occupied") => \E k \in Keys : index'[k] = loc
      BY <1>4, <1>7
    <3>3. \A k \in Keys : index'[k] = loc => loc \in Holding("occupied")
      BY <1>4, <1>7, LocationAssumption DEF Occupies
    <3> QED BY <1>4, <3>1, <3>2, <3>3
  <2>3. \A k \in Keys : index'[k] \notin free
    <3> SUFFICES ASSUME NEW k \in Keys, index'[k] \in free PROVE FALSE
      OBVIOUS
    <3>1. index'[k] \in SlotLocation /\ index'[k] # NONE
      BY <1>2, LocationAssumption DEF TypeOK
    <3>2. index'[k] \in Holding("occupied")
      BY <1>4, <1>7, <3>1 DEF Occupies
    <3> QED BY <1>4, <3>1, <3>2 DEF Holding
  <2> QED BY <1>1, <1>4, <1>5, <2>1, <2>2, <2>3 DEF Memory
<1>10. Disk'
  <2>1. \A loc \in Holding("occupied")' : loc = index'[disk'[loc].key]
    BY <1>1, <1>4, <1>6, <1>7
  <2>2. \A k \in Keys : index'[k] # NONE => Occupies(index[k], k)'
    <3>1. \A k \in Keys : index'[k] # NONE => /\ index'[k] \in Holding("occupied")
                                              /\ disk[index'[k]].key = k
      BY <1>4, <1>7 DEF Occupies
    <3> QED BY <1>1, <1>6, <3>1 DEF Occupies
  <2> QED BY <2>1, <2>2 DEF Disk
<1>11. Writing' /\ Zeroing' /\ Vacuuming' /\ Recovering'
  BY <1>5 DEF Writing, Zeroing, Vacuuming, Recovering
<1>12. VersionsAhead'
  <2>1. \A loc \in Holding("occupied") : disk[loc].version \in Nat
    BY <1>2, SlotTypes
  <2>2. \A loc \in Holding("occupied")' : disk'[loc].version < nextVersion'
    BY <1>1, <1>4, <1>6, <2>1
  <2> QED BY <2>2 DEF VersionsAhead
<1>13. Promised'
  <2>1. Unreturned = {}
    BY <1>3 DEF Unreturned
  <2>2. \A k \in Keys : Loads(k, promised[k])
    BY <1>2, <2>1 DEF Promised
  <2> QED BY <1>1, <1>6, <2>2 DEF Promised
<1> QED BY <1>6, <1>8, <1>9, <1>10, <1>11, <1>12, <1>13 DEF IInv

LEMMA StutterStep ==
  ASSUME IInv, UNCHANGED vars
  PROVE  IInv'
<1>1. /\ disk' = disk /\ len' = len /\ status' = status /\ index' = index
      /\ slotCount' = slotCount /\ free' = free /\ nextVersion' = nextVersion /\ op' = op
      /\ promised' = promised /\ torn' = torn /\ UNCHANGED disks
  BY DEF vars, disks
<1>2. TypeOK' /\ Modes'
  BY <1>1 DEF IInv, TypeOK, Modes
<1>3. /\ Holding("occupied")' = Holding("occupied")
      /\ \A loc, k : Occupies(loc, k)' <=> Occupies(loc, k)
      /\ \A loc, k : NotOlder(loc, k)' <=> NotOlder(loc, k)
      /\ \A k, v : Loads(k, v)' <=> Loads(k, v)
      /\ TiesAreCopies'
  BY <1>1, DiskStays DEF IInv
<1>4. Memory'
  BY <1>1 DEF IInv, Memory, Pending
<1>5. Disk'
  BY <1>1, <1>3 DEF IInv, Disk, Pending, Calling
<1>6. Writing' /\ Zeroing'
  BY <1>1, <1>3 DEF IInv, Writing, Zeroing
<1>7. Vacuuming'
  BY <1>1, <1>3 DEF IInv, Vacuuming, LiveIn, HalfEmpty, LiveCount, TailLives, HeadFrees,
     FreeIn, Pairings
<1>8. Recovering' /\ VersionsAhead'
  BY <1>1, <1>3 DEF IInv, Recovering, VersionsAhead
<1>9. Promised'
  BY <1>1, <1>3 DEF IInv, Promised, Unreturned
<1> QED BY <1>2, <1>3, <1>4, <1>5, <1>6, <1>7, <1>8, <1>9 DEF IInv

LEMMA StepKeeps ==
  ASSUME IInv, [Next]_vars
  PROVE  IInv'
<1>1. CASE \E k \in Keys, v \in Values : Save(k, v)
  BY <1>1, SaveStep
<1>2. CASE \E k \in Keys : Delete(k) \/ CompactCopy(k)
  BY <1>2, DeleteStep, CompactCopyStep
<1>3. CASE WriteSlot \/ ZeroSlot
  BY <1>3, WriteSlotStep, ZeroSlotStep
<1>4. CASE Vacuum \/ VacuumChooseCompactions \/ CompactTruncate \/ VacuumEnd
  BY <1>4, VacuumStep, VacuumChooseCompactionsStep, CompactTruncateStep, VacuumEndStep
<1>5. CASE \E c \in Classes : VacuumRemoveFile(c) \/ VacuumRemoveFails(c) \/ CompactBegin(c)
  BY <1>5, VacuumRemoveFileStep, VacuumRemoveFailsStep, CompactBeginStep
<1>6. CASE Crash \/ RefuseToStart \/ Scan \/ Loaded
  BY <1>6, CrashStep, RefuseToStartStep, ScanStep, LoadedStep
<1>7. CASE \E loc \in SlotLocation : ZeroLoser(loc)
  BY <1>7, ZeroLoserStep
<1>8. CASE UNCHANGED vars
  BY <1>8, StutterStep
<1> QED BY <1>1, <1>2, <1>3, <1>4, <1>5, <1>6, <1>7, <1>8 DEF Next

(* What memory, disk and promises have to do with each other holds at every  *)
(* step of the page-files.                                                   *)
THEOREM InvariantHolds == Spec => []IInv
<1>1. IInv /\ [Next]_vars => IInv'
  BY StepKeeps
<1> QED BY InitIInv, <1>1, PTL DEF Spec

(* The slots are split between the index and the free list.                  *)
LEMMA SplitSlots ==
  ASSUME IInv
  PROVE  SlotsPartitioned
<1> SUFFICES ASSUME status = "up", op = Idle PROVE SlotsPartitioned
  BY DEF SlotsPartitioned
<1>1. TypeOK /\ Memory
  BY DEF IInv
<1>2. Pending = {}
  BY DEF Pending, Idle
<1>3. \A c \in Classes :
        /\ LiveSlots(c) \cap FreeIn(c) = {}
        /\ LiveSlots(c) \cup FreeIn(c) = InFile(c, slotCount[c])
        /\ Cardinality(LiveSlots(c)) = Cardinality(LiveIn(c))
  BY <1>1, <1>2, LiveInFile, PairsUp
<1>4. len = slotCount
  <2>1. \A c \in Classes : len[c] = slotCount[c]
    BY <1>1 DEF Memory, Idle
  <2>2. len = [c \in Classes |-> len[c]] /\ slotCount = [c \in Classes |-> slotCount[c]]
    BY <1>1 DEF TypeOK
  <2> QED BY <2>1, <2>2
<1> QED BY <1>3, <1>4 DEF SlotsPartitioned, LiveSlots

(* The page-files keep what PageFiles says of them: every partition is       *)
(* loaded as the last call that returned left it, whatever crashed between.  *)
THEOREM PageFilesCorrect == Spec => []Inv
<1>1. ASSUME IInv PROVE Inv
  <2>1. TypeOK /\ Memory /\ TiesAreCopies /\ VersionsAhead /\ Promised
    BY <1>1 DEF IInv
  <2>2. SlotsPartitioned
    BY <1>1, SplitSlots
  <2>3. CompactionPairsUp
    <3> SUFFICES ASSUME op.kind = "compact", status = "up", NEW c \in op.classes
                 PROVE  Cardinality(TailLives(c)) = Cardinality(HeadFrees(c))
      BY DEF CompactionPairsUp
    <3>1. c \in Classes
      BY <2>1, OpTypes DEF TypeOK
    <3>2. Pending = {}
      BY DEF Pending
    <3> QED BY <2>1, <3>1, <3>2, PairsUp
  <2>4. PromisesKept
    BY <2>1, ContentIs DEF PromisesKept, Promised, TypeOK
  <2> QED BY <2>1, <2>2, <2>3, <2>4 DEF Inv
<1> QED BY InvariantHolds, <1>1, PTL

(* A vacuum that ends has compacted all there was to compact.                *)
THEOREM VacuumLeavesNoHalf == Spec => VacuumReclaims
<1> DEFINE Reclaimed == \A c \in Classes :
             LET unused == Cardinality(FreeIn(c)') IN
             (slotCount'[c] > 2 /\ unused < slotCount'[c]) => unused * 2 < slotCount'[c]
           Ends == op.kind \in {"compact", "copy"} /\ op'.kind = "idle" /\ status' = "up"
<1>1. ASSUME IInv, [Next]_vars PROVE [Ends => Reclaimed]_vars
  <2> SUFFICES ASSUME Next, Ends PROVE Reclaimed
    BY <1>1
  <2>1. TypeOK /\ Memory /\ Vacuuming
    BY <1>1 DEF IInv
  <2>2. VacuumEnd
    <3>1. \A k \in Keys : ~CompactCopy(k)
      BY <2>1 DEF CompactCopy, TypeOK, Operations, Idle
    <3>2. \A k \in Keys, v \in Values : ~Save(k, v)
      BY DEF Save
    <3>3. \A k \in Keys : ~Delete(k)
      BY DEF Delete
    <3>4. ~WriteSlot /\ ~ZeroSlot /\ ~Vacuum /\ ~VacuumChooseCompactions /\ ~CompactTruncate
      BY DEF WriteSlot, ZeroSlot, Vacuum, VacuumChooseCompactions, CompactTruncate
    <3>5. \A c \in Classes : ~VacuumRemoveFile(c) /\ ~VacuumRemoveFails(c) /\ ~CompactBegin(c)
      BY DEF VacuumRemoveFile, VacuumRemoveFails, CompactBegin
    <3>6. ~Crash /\ ~RefuseToStart /\ ~Scan
      BY DEF Crash, RefuseToStart, Scan
    <3>7. ~Loaded /\ \A loc \in SlotLocation : ~ZeroLoser(loc)
      <4>1. status # "loading"
        BY <1>1 DEF IInv, Modes
      <4> QED BY <4>1 DEF Loaded, LoadedFrom, ZeroLoser
    <3> QED BY <3>1, <3>2, <3>3, <3>4, <3>5, <3>6, <3>7 DEF Next
  <2>3. /\ op.kind = "compact" /\ status = "up" /\ op.classes = {}
        /\ slotCount' = slotCount /\ free' = free
    BY <2>2 DEF VacuumEnd, memory
  <2>4. \A c \in Classes : ~HalfEmpty(c)
    BY <2>1, <2>3 DEF Vacuuming
  <2>5. Pending = {}
    BY <2>3 DEF Pending
  <2>6. \A c \in Classes : Cardinality(FreeIn(c)) \in Nat /\ slotCount[c] \in Nat
    BY <2>1, <2>3, <2>5, PairsUp, BoundAssumption DEF TypeOK
  <2>7. \A c : FreeIn(c)' = FreeIn(c)
    BY <2>3 DEF FreeIn
  <2> QED BY <2>3, <2>4, <2>6, <2>7 DEF HalfEmpty
<1>2. [Next]_vars /\ IInv => [Ends => Reclaimed]_vars
  BY <1>1
<1>3. Spec => [][Ends => Reclaimed]_vars
  <2> HIDE DEF Ends, Reclaimed
  <2> QED BY InvariantHolds, <1>2, PTL DEF Spec
<1> QED BY <1>3 DEF VacuumReclaims

-----------------------------------------------------------------------------
(* The refinement of PartitionStore. *)

Held == [k \in Keys |-> Content(k)]

LEMMA ContentStays ==
  ASSUME UNCHANGED disks
  PROVE  Held' = Held
BY DEF disks, Held, Content, Copies, Wins, Holding

LEMMA HeldAs ==
  ASSUME IInv
  PROVE  \A k \in Keys : /\ k \notin Unreturned => Held[k] = promised[k]
                         /\ \A v : Loads(k, v) => Held[k] = v
                         /\ Loads(k, Held[k])
                         /\ Held[k] \in Values \cup {NONE}
BY ContentIs, ContentLoads DEF IInv, TypeOK, Promised, Held

HeldOnly == \A k \in Keys : /\ k \notin Unreturned => Held[k] = promised[k]
                            /\ \A v : Loads(k, v) => Held[k] = v
                            /\ Held[k] \in Values \cup {NONE}

LEMMA HeldAlways == IInv => HeldOnly
BY HeldAs DEF HeldOnly

LEMMA HeldAsNext ==
  ASSUME IInv'
  PROVE  HeldOnly'
BY HeldAlways, PTL

(* A partition that has been moved is loaded from where it now is. *)
LEMMA MovedLoads ==
  ASSUME IInv, op.kind = "zero", op.value # NONE
  PROVE  op.key \in Keys /\ Loads(op.key, op.value)
<1>1. TypeOK /\ Modes /\ Disk /\ Zeroing
  BY DEF IInv
<1>2. PICK at \in SlotLocation, mine \in Keys, value \in Values \cup {NONE} :
        at = op.at /\ mine = op.key /\ value = op.value
  BY <1>1, OpTypes DEF TypeOK
<1>3. PICK here \in SlotLocation :
        /\ here = index[mine] /\ Occupies(here, mine) /\ disk[here].value = value
        /\ disk[at].version < disk[here].version
  BY <1>1, <1>2, OccupiesTypes DEF Zeroing
<1>4. status = "up"
  BY <1>1 DEF Modes, TypeOK, Idle
<1>5. \A loc \in SlotLocation : Occupies(loc, mine) => loc = here \/ loc = at
  BY <1>1, <1>2, <1>3, <1>4 DEF Disk, Occupies, Pending
<1>6. Occupies(at, mine)
  BY <1>1, <1>2 DEF Zeroing
<1>7. disk[at].version \in Nat /\ disk[here].version \in Nat
  BY <1>1, <1>3, <1>6, OccupiesTypes
<1>8. NotOlder(here, mine)
  BY <1>3, <1>5, <1>7 DEF NotOlder
<1> QED BY <1>2, <1>3, <1>8 DEF Loads

MovedHeld == (op.kind = "zero" /\ op.value # NONE) => Held[op.key] = op.value

LEMMA MovedAlways == IInv => MovedHeld
BY MovedLoads, HeldAs DEF MovedHeld

LEMMA MovedNext ==
  ASSUME IInv'
  PROVE  MovedHeld'
BY MovedAlways, PTL

(* What is held changes for one partition, or for none. *)
LEMMA HeldChanges ==
  ASSUME NEW k \in Keys, NEW v, \A j \in Keys : Held'[j] = IF j = k THEN v ELSE Held[j]
  PROVE  Held' = [Held EXCEPT ![k] = v]
BY DEF Held

LEMMA HeldSame ==
  ASSUME \A j \in Keys : Held'[j] = Held[j]
  PROVE  Held' = Held
BY DEF Held

(* Steps of the promise, told of what is held. *)
LEMMA PromiseStutters ==
  ASSUME Held' = Held, Call' = Call
  PROVE  [Promise!Next]_(Promise!vars)
BY DEF Promise!vars, Held

LEMMA PromiseBegins ==
  ASSUME Held' = Held, Call = {}, NEW k \in Keys, NEW v \in Values \cup {NONE},
         NEW fragile \in BOOLEAN, Call' = {[key |-> k, value |-> v, fragile |-> fragile]}
  PROVE  [Promise!Next]_(Promise!vars)
<1> DEFINE call == [key |-> k, value |-> v, fragile |-> fragile]
<1>1. call \in Promise!Call
  BY DEF Promise!Call
<1>2. Promise!Begin(call)
  BY DEF Promise!Begin, Held
<1> QED BY <1>1, <1>2 DEF Promise!Next

LEMMA PromiseApplies ==
  ASSUME NEW k \in Keys, NEW v \in Values \cup {NONE}, NEW fragile \in BOOLEAN,
         Held' = [Held EXCEPT ![k] = v],
         Call = {[key |-> k, value |-> v, fragile |-> fragile]}, Call' \in {{}, Call}
  PROVE  [Promise!Next]_(Promise!vars)
<1> DEFINE call == [key |-> k, value |-> v, fragile |-> fragile]
<1>1. call \in Promise!Call
  BY DEF Promise!Call
<1>2. Promise!Apply(call)
  BY DEF Promise!Apply, Held
<1> QED BY <1>1, <1>2 DEF Promise!Next

LEMMA PromiseCrashes ==
  ASSUME Held' = Held, Call' = {}
  PROVE  [Promise!Next]_(Promise!vars)
BY DEF Promise!Next, Promise!Crash, Held

LEMMA PromiseLoses ==
  ASSUME NEW k \in Keys, NEW v,
         Held' = [Held EXCEPT ![k] = NONE],
         Call = {[key |-> k, value |-> v, fragile |-> TRUE]}, Call' = {}
  PROVE  [Promise!Next]_(Promise!vars)
BY DEF Promise!Next, Promise!Crash, Held

(* No call is under way and nothing is promised anew: nothing changes.       *)
LEMMA QuietImplements ==
  ASSUME IInv, IInv', op.kind \notin {"write", "zero"}, op'.kind \notin {"write", "zero"},
         promised' = promised
  PROVE  [Promise!Next]_(Promise!vars)
<1>1. Unreturned = {} /\ Unreturned' = {} /\ Call = {} /\ Call' = {}
  BY DEF Unreturned, Call
<1>2. \A k \in Keys : Held'[k] = Held[k]
  BY <1>1, HeldAs, HeldAsNext DEF HeldOnly
<1> QED BY <1>1, <1>2, HeldSame, PromiseStutters

LEMMA SaveImplements ==
  ASSUME IInv, IInv', NEW k \in Keys, NEW v \in Values, Save(k, v)
  PROVE  [Promise!Next]_(Promise!vars)
<1>1. /\ op = Idle /\ UNCHANGED disks
      /\ \E target \in TargetSlots(k, v) :
           op' = [kind |-> "write", at |-> target, old |-> index[k],
                  slot |-> Occupied(k, nextVersion, v)]
  BY DEF Save, disks
<1>2. Call = {} /\ Held' = Held
  BY <1>1, ContentStays DEF Call, Idle
<1> DEFINE fragile == op'.at = op'.old /\ SizeClass(op'.at) \notin SectorClasses
<1>3. Call' = {[key |-> k, value |-> v, fragile |-> fragile]} /\ fragile \in BOOLEAN
  BY <1>1 DEF Call, Occupied
<1>4. v \in Values \cup {NONE}
  OBVIOUS
<1> HIDE DEF fragile
<1>5. PICK f \in BOOLEAN : f = fragile
  BY <1>3
<1> QED BY <1>2, <1>3, <1>4, <1>5, PromiseBegins

LEMMA DeleteImplements ==
  ASSUME IInv, IInv', NEW k \in Keys, Delete(k)
  PROVE  [Promise!Next]_(Promise!vars)
<1>1. /\ op = Idle /\ UNCHANGED disks
      /\ op' = [kind |-> "zero", at |-> index[k], key |-> k, value |-> NONE]
  BY DEF Delete, disks
<1>2. Call = {} /\ Held' = Held /\ Call' = {[key |-> k, value |-> NONE, fragile |-> FALSE]}
  BY <1>1, ContentStays DEF Call, Idle
<1> QED BY <1>2, PromiseBegins

LEMMA WriteSlotImplements ==
  ASSUME IInv, IInv', WriteSlot
  PROVE  [Promise!Next]_(Promise!vars)
<1>1. /\ op.kind = "write" /\ promised' = promised
      /\ op' = IF op.old \in {NONE, op.at} THEN Idle
               ELSE [kind |-> "zero", at |-> op.old, key |-> op.slot.key, value |-> op.slot.value]
  BY DEF WriteSlot, ghosts
<1>2. PICK k \in Keys, v \in Values : k = op.slot.key /\ v = op.slot.value
  BY WriteEffect
<1>3. promised[k] = v /\ v # NONE
  BY <1>1, <1>2, ClassAssumption DEF IInv, Writing
<1>4. PICK fragile \in BOOLEAN :
        fragile = (op.at = op.old /\ SizeClass(op.at) \notin SectorClasses)
  OBVIOUS
<1>5. Call = {[key |-> k, value |-> v, fragile |-> fragile]}
  BY <1>1, <1>2, <1>4 DEF Call
<1>6. Unreturned = {k} /\ Unreturned' \subseteq {k}
  BY <1>1, <1>2 DEF Unreturned, Idle
<1>7. /\ Call' \in {{}, Call}
      /\ Held'[k] = v
  <2>1. CASE op.old \in {NONE, op.at}
    <3>1. op'.kind = "idle"
      BY <1>1, <2>1 DEF Idle
    <3>2. Call' = {} /\ Unreturned' = {}
      BY <3>1 DEF Call, Unreturned
    <3> QED BY <1>1, <1>3, <3>2, HeldAsNext DEF HeldOnly
  <2>2. CASE op.old \notin {NONE, op.at}
    <3>1. op'.kind = "zero" /\ op'.key = k /\ op'.value = v
      BY <1>1, <1>2, <2>2
    <3>2. Call' = Call
      BY <1>4, <1>5, <2>2, <3>1 DEF Call
    <3>3. Held'[k] = v
      BY <1>3, <3>1, MovedNext DEF MovedHeld
    <3> QED BY <3>2, <3>3
  <2> QED BY <2>1, <2>2
<1>8. \A j \in Keys : Held'[j] = IF j = k THEN v ELSE Held[j]
  BY <1>1, <1>6, <1>7, HeldAs, HeldAsNext DEF HeldOnly
<1>9. Held' = [Held EXCEPT ![k] = v]
  BY <1>8, HeldChanges
<1> QED BY <1>5, <1>7, <1>9, PromiseApplies

LEMMA ZeroSlotImplements ==
  ASSUME IInv, IInv', ZeroSlot
  PROVE  [Promise!Next]_(Promise!vars)
<1>1. op.kind = "zero" /\ op' = Idle /\ promised' = promised
  BY DEF ZeroSlot, ghosts
<1>2. PICK k \in Keys, v \in Values \cup {NONE} : k = op.key /\ v = op.value
  BY <1>1, OpTypes DEF IInv, TypeOK
<1>3. promised[k] = v
  BY <1>1, <1>2 DEF IInv, Zeroing
<1>4. /\ Call = {[key |-> k, value |-> v, fragile |-> FALSE]} /\ Call' = {}
      /\ Unreturned = {k} /\ Unreturned' = {}
  BY <1>1, <1>2 DEF Call, Unreturned, Idle
<1>5. \A j \in Keys : Held'[j] = IF j = k THEN v ELSE Held[j]
  BY <1>1, <1>3, <1>4, HeldAs, HeldAsNext DEF HeldOnly
<1>6. Held' = [Held EXCEPT ![k] = v]
  BY <1>5, HeldChanges
<1> QED BY <1>4, <1>6, PromiseApplies

(* A death inside an in-place write may cost the partition that was being    *)
(* written; at any other moment it costs nothing.                            *)
LEMMA CrashImplements ==
  ASSUME IInv, IInv', Crash
  PROVE  [Promise!Next]_(Promise!vars)
<1>1. /\ op' = Idle
      /\ promised' = [k \in Keys |-> IF k \in Unreturned THEN Content(k)' ELSE promised[k]]
  BY DEF Crash
<1>2. Call' = {} /\ Unreturned' = {}
  BY <1>1 DEF Call, Unreturned, Idle
<1>3. \A k \in Keys : k \notin Unreturned => Held'[k] = Held[k]
  BY <1>1, <1>2, HeldAs, HeldAsNext DEF HeldOnly
<1>4. CASE UNCHANGED disks
  BY <1>2, <1>4, ContentStays, PromiseCrashes
<1>5. CASE \E loc \in BeingWritten :
             /\ \A other, k : Occupies(other, k)' <=> Occupies(other, k) /\ other # loc
             /\ \A other \in SlotLocation : other # loc => disk'[other] = disk[other]
  <2>1. PICK loc \in BeingWritten :
          /\ \A other, k : Occupies(other, k)' <=> Occupies(other, k) /\ other # loc
          /\ \A other \in SlotLocation : other # loc => disk'[other] = disk[other]
    BY <1>5
  <2>2. /\ loc \in SlotLocation /\ op.kind \in {"write", "copy"} /\ status = "up"
        /\ op.kind = "write" => loc = op.at /\ SizeClass(loc) \notin SectorClasses
        /\ \A k : Occupies(loc, k) => op.kind = "write" /\ k = op.slot.key
    BY TearEffect
  <2>3. CASE op.kind = "copy"
    <3>1. Unreturned = {}
      BY <2>3 DEF Unreturned
    <3> QED BY <1>2, <1>3, <3>1, HeldSame, PromiseCrashes
  <2>4. CASE op.kind = "write"
    <3>1. PICK k \in Keys, v \in Values, old \in SlotLocation \cup {NONE} :
            k = op.slot.key /\ v = op.slot.value /\ old = op.old
      BY <2>4, OpTypes DEF IInv, TypeOK, Writing
    <3>2. Unreturned = {k}
      BY <2>4, <3>1 DEF Unreturned
    <3>3. /\ index[k] = loc
          /\ old # loc => loc \notin Holding("occupied")
      BY <2>2, <2>4, <3>1 DEF IInv, Writing
    <3>4. CASE old = loc
      <4>1. Call = {[key |-> k, value |-> v, fragile |-> TRUE]}
        BY <2>2, <2>4, <3>1, <3>4 DEF Call
      <4>2. \A other \in SlotLocation : Occupies(other, k) => other = loc
        BY <2>2, <2>4, <3>1, <3>3, <3>4 DEF IInv, Disk, Pending, Occupies
      <4>3. Loads(k, NONE)'
        BY <2>1, <4>2 DEF Loads
      <4>4. Held'[k] = NONE
        BY <4>3, HeldAsNext DEF HeldOnly
      <4>5. \A j \in Keys : Held'[j] = IF j = k THEN NONE ELSE Held[j]
        BY <1>3, <3>2, <4>4
      <4> QED BY <1>2, <4>1, <4>5, HeldChanges, PromiseLoses
    <3>5. CASE old # loc
      <4>1. PICK value : value = Held[k]
        OBVIOUS
      <4>2. Loads(k, value)
        BY <4>1, HeldAs
      <4>3. \A other \in SlotLocation :
              /\ Occupies(other, k)' <=> Occupies(other, k)
              /\ Occupies(other, k) => disk'[other] = disk[other]
        BY <2>1, <3>3, <3>5 DEF Occupies
      <4>4. Loads(k, value)'
        BY <4>2, <4>3, LoadsSame
      <4>5. Held'[k] = Held[k]
        BY <4>1, <4>4, HeldAsNext DEF HeldOnly
      <4>6. \A j \in Keys : Held'[j] = Held[j]
        BY <1>3, <3>2, <4>5
      <4> QED BY <1>2, <4>6, HeldSame, PromiseCrashes
    <3> QED BY <3>4, <3>5
  <2> QED BY <2>2, <2>3, <2>4
<1> QED BY <1>4, <1>5, CrashEffect

LEMMA StepImplements ==
  ASSUME IInv, IInv', [Next]_vars
  PROVE  [Promise!Next]_(Promise!vars)
<1> DEFINE Calm == op.kind \notin {"write", "zero"} /\ op'.kind \notin {"write", "zero"}
                   /\ promised' = promised
<1>1. CASE \E k \in Keys, v \in Values : Save(k, v)
  BY <1>1, SaveImplements
<1>2. CASE \E k \in Keys : Delete(k)
  BY <1>2, DeleteImplements
<1>3. CASE WriteSlot \/ ZeroSlot
  BY <1>3, WriteSlotImplements, ZeroSlotImplements
<1>4. CASE Crash
  BY <1>4, CrashImplements
<1>5. CASE UNCHANGED vars
  <2>1. UNCHANGED disks /\ op' = op
    BY <1>5 DEF vars, disks
  <2> QED BY <2>1, ContentStays, PromiseStutters DEF Call
<1>6. CASE \/ \E k \in Keys : CompactCopy(k)
           \/ Vacuum \/ VacuumChooseCompactions \/ CompactTruncate \/ VacuumEnd
           \/ \E c \in Classes : VacuumRemoveFile(c) \/ VacuumRemoveFails(c) \/ CompactBegin(c)
           \/ RefuseToStart \/ Scan \/ Loaded
           \/ \E loc \in SlotLocation : ZeroLoser(loc)
  <2> SUFFICES Calm
    BY QuietImplements
  <2>1. TypeOK /\ Modes
    BY DEF IInv
  <2>2. op.kind \in {"remove", "copy", "recover"} =>
          \A c, k, loc : /\ [op EXCEPT !.classes = @ \ {c}].kind = op.kind
                         /\ [op EXCEPT !.left = @ \ {k}].kind = op.kind
                         /\ [op EXCEPT !.losers = @ \ {loc}].kind = op.kind
    BY <2>1 DEF TypeOK, Operations, Idle
  <2>3. CASE \E k \in Keys : CompactCopy(k)
    BY <2>2, <2>3 DEF CompactCopy, ghosts
  <2>4. CASE Vacuum \/ VacuumChooseCompactions \/ CompactTruncate \/ VacuumEnd
    BY <2>4 DEF Vacuum, VacuumChooseCompactions, CompactTruncate, VacuumEnd, ghosts, Idle
  <2>5. CASE \E c \in Classes : VacuumRemoveFile(c) \/ VacuumRemoveFails(c) \/ CompactBegin(c)
    <3>1. \A c \in Classes : VacuumRemoveFile(c) \/ VacuumRemoveFails(c) => Calm
      BY <2>2 DEF VacuumRemoveFile, VacuumRemoveFails, ghosts
    <3>2. \A c \in Classes : CompactBegin(c) => Calm
      BY DEF CompactBegin, ghosts
    <3> QED BY <2>5, <3>1, <3>2
  <2>6. CASE RefuseToStart \/ Scan \/ Loaded
    <3>1. status \in {"down", "refused"} => op.kind = "idle"
      BY <2>1 DEF Modes, Idle
    <3>2. status = "loading" => op.kind = "recover"
      BY <2>1 DEF Modes
    <3>3. RefuseToStart => Calm
      BY <3>1 DEF RefuseToStart, ghosts
    <3>4. Scan => Calm
      BY <3>1 DEF Scan, ghosts
    <3>5. Loaded => Calm
      BY <3>2 DEF Loaded, LoadedFrom, ghosts, Idle
    <3> QED BY <2>6, <3>3, <3>4, <3>5
  <2>7. CASE \E loc \in SlotLocation : ZeroLoser(loc)
    <3>1. status = "loading" => op.kind = "recover"
      BY <2>1 DEF Modes
    <3> QED BY <2>2, <2>7, <3>1 DEF ZeroLoser, ghosts
  <2> QED BY <1>6, <2>3, <2>4, <2>5, <2>6, <2>7
<1> QED BY <1>1, <1>2, <1>3, <1>4, <1>5, <1>6 DEF Next

(* Save and delete calls take effect one at a time and as a whole, a death   *)
(* of the process costs at most the partition it was overwriting in place,   *)
(* and no vacuum and no start ever changes what is kept.                     *)
THEOREM PageFilesImplementPartitionStore == Spec => ImplementsPartitionStore
<1>1. Init => Promise!Init
  <2> SUFFICES ASSUME Init PROVE Promise!Init
    OBVIOUS
  <2>1. IInv /\ Unreturned = {} /\ Call = {} /\ \A k \in Keys : promised[k] = NONE
    BY InitIInv DEF Init, Unreturned, Call, Idle
  <2>2. \A k \in Keys : Held[k] = NONE
    BY <2>1, HeldAs
  <2> QED BY <2>1, <2>2 DEF Promise!Init, Held
<1>2. IInv /\ IInv' /\ [Next]_vars => [Promise!Next]_(Promise!vars)
  BY StepImplements
<1>3. Spec => Promise!Spec
  BY InvariantHolds, <1>1, <1>2, PTL DEF Spec, Promise!Spec
<1> QED BY <1>3 DEF ImplementsPartitionStore
=============================================================================
