-------------------------- MODULE ReaderSyncProofs --------------------------
(***************************************************************************)
(* The invariants of ReaderSync for any keys, writers and sessions, any    *)
(* size of a chunk and any ceiling of a queue.                             *)
(*                                                                         *)
(* A reader takes chunks in one at a time, and a queue is as long as its   *)
(* ceiling lets it be.  What all of it comes to is said by Follows: there  *)
(* is a run of the reader through these chunks, from one view to another.  *)
(* Such runs are put together and taken apart, and the one through the     *)
(* chunks of a call is known, however many they are (CallsAreTold).        *)
(***************************************************************************)
EXTENDS ReaderSync, FiniteSetTheorems, TLAPS

(* As much of a reader as chunks bear on. *)
View(r) == [cache |-> r.cache, kind |-> r.kind, batch |-> r.batch]
Contents == [Keys -> Content]
Views == [cache : Contents, kind : BatchKinds \cup {NONE}, batch : Partial(Content)]

(* Between two batches. *)
Fresh(cache) == [cache |-> cache, kind |-> NONE, batch |-> Nothing]

(* From one view to another through the chunks of a sequence. *)
Follows(v, chunks, e) ==
  \E f \in [0..Len(chunks) -> Views] :
    /\ f[0] = v /\ f[Len(chunks)] = e
    /\ \A n \in 1..Len(chunks) : f[n] = TakenIn(f[n - 1], chunks[n])

-----------------------------------------------------------------------------
(* Contents and changes of them.                                             *)

LEMMA PartialType ==
  ASSUME NEW x
  PROVE  x \in Partial(Content) <=> \E keys \in SUBSET Keys : x \in [keys -> Content]
BY DEF Partial

LEMMA PartialFields ==
  ASSUME NEW x \in Partial(Content)
  PROVE  /\ DOMAIN x \subseteq Keys
         /\ \A k \in DOMAIN x : x[k] \in Content
         /\ x = [k \in DOMAIN x |-> x[k]]
<1>1. PICK keys \in SUBSET Keys : x \in [keys -> Content]
  BY PartialType
<1> QED BY <1>1

LEMMA NothingType ==
  /\ Nothing \in Partial(Content) /\ DOMAIN Nothing = {}
  /\ NoRows \in Contents /\ \A k \in Keys : NoRows[k] = NONE
<1>1. Nothing \in [{} -> Content] /\ DOMAIN Nothing = {}
  BY DEF Nothing
<1> QED BY <1>1, PartialType DEF NoRows, Contents, Content

LEMMA OverlayFields ==
  ASSUME NEW a, NEW b
  PROVE  /\ DOMAIN Overlay(a, b) = DOMAIN a \cup DOMAIN b
         /\ \A k \in DOMAIN a \cup DOMAIN b :
              Overlay(a, b)[k] = IF k \in DOMAIN b THEN b[k] ELSE a[k]
         /\ Overlay(a, b) = [k \in DOMAIN a \cup DOMAIN b |-> Overlay(a, b)[k]]
BY DEF Overlay

LEMMA OverlayPartial ==
  ASSUME NEW a \in Partial(Content), NEW b \in Partial(Content)
  PROVE  Overlay(a, b) \in Partial(Content)
<1> DEFINE over == Overlay(a, b)
           keys == DOMAIN a \cup DOMAIN b
<1>1. /\ \A k \in keys : over[k] = IF k \in DOMAIN b THEN b[k] ELSE a[k]
      /\ over = [k \in keys |-> over[k]]
  BY OverlayFields
<1>2. keys \in SUBSET Keys
  BY PartialFields
<1>3. \A k \in keys : over[k] \in Content
  BY <1>1, PartialFields
<1> HIDE DEF over, keys
<1>4. over \in [keys -> Content]
  BY <1>1, <1>3
<1>5. over \in Partial(Content)
  BY <1>2, <1>4, PartialType
<1> QED BY <1>5 DEF over

LEMMA OverlayContents ==
  ASSUME NEW a \in Contents, NEW b \in Partial(Content)
  PROVE  /\ Overlay(a, b) \in Contents
         /\ \A k \in Keys : Overlay(a, b)[k] = IF k \in DOMAIN b THEN b[k] ELSE a[k]
<1> DEFINE over == Overlay(a, b)
<1>1. DOMAIN a = Keys /\ DOMAIN a \cup DOMAIN b = Keys /\ \A k \in Keys : a[k] \in Content
  BY PartialFields DEF Contents
<1>2. /\ \A k \in Keys : over[k] = IF k \in DOMAIN b THEN b[k] ELSE a[k]
      /\ over = [k \in Keys |-> over[k]]
  <2>1. /\ \A k \in DOMAIN a \cup DOMAIN b : over[k] = IF k \in DOMAIN b THEN b[k] ELSE a[k]
        /\ over = [k \in DOMAIN a \cup DOMAIN b |-> over[k]]
    BY OverlayFields
  <2> HIDE DEF over
  <2> QED BY <1>1, <2>1
<1>3. \A k \in Keys : over[k] \in Content
  BY <1>1, <1>2, PartialFields
<1> HIDE DEF over
<1>4. over \in Contents
  BY <1>2, <1>3 DEF Contents
<1> QED BY <1>2, <1>4 DEF over

LEMMA RemovedType ==
  ASSUME NEW keys \in SUBSET Keys
  PROVE  /\ Removed(keys) \in Partial(Content) /\ DOMAIN Removed(keys) = keys
         /\ \A k \in keys : Removed(keys)[k] = NONE
<1>1. Removed(keys) \in [keys -> Content]
  BY DEF Removed, Content
<1> QED BY <1>1, PartialType DEF Removed

LEMMA SamePartitionHolds ==
  ASSUME NEW keys \in SUBSET Keys
  PROVE  SamePartition(keys) \in SUBSET Keys /\ keys \subseteq SamePartition(keys)
BY DEF SamePartition

ChangeKinds == {"update", "init", "clean", "delete", "cleanPartitions"}
GoodChange == {change \in [kind : ChangeKinds, rows : Partial(Content)] :
                 change.kind \in BatchKinds => DOMAIN change.rows # {}}

LEMMA ChangesAreGood ==
  ASSUME NEW content \in Contents
  PROVE  /\ Changes(content) \subseteq GoodChange
         /\ Actions(content) \subseteq GoodChange
<1>1. ASSUME NEW keys \in SUBSET Keys, NEW v \in Values
      PROVE  Written(keys, v) \in Partial(Content) /\ DOMAIN Written(keys, v) = keys
  <2>1. Written(keys, v) \in [keys -> Content] /\ DOMAIN Written(keys, v) = keys
    BY DEF Written, Content
  <2> QED BY <2>1, PartialType
<1>2. ASSUME NEW change \in Changes(content) PROVE change \in GoodChange
  <2> DEFINE present == {k \in Keys : content[k] # NONE}
             some == (SUBSET Keys) \ {{}}
             somePresent == (SUBSET present) \ {{}}
             puts == {Written(keys, v) : keys \in some, v \in Values}
             cleans == {Written(keys, v) : keys \in SUBSET Keys, v \in Values}
             deletes == {Removed(keys) : keys \in somePresent}
             partitions == {Removed(SamePartition(keys)) : keys \in somePresent}
  <2>1. Changes(content) = [kind : {"update", "init"}, rows : puts]
                           \cup [kind : {"clean"}, rows : cleans]
                           \cup [kind : {"delete"}, rows : deletes]
                           \cup [kind : {"cleanPartitions"}, rows : partitions]
    BY DEF Changes
  <2>2. \A x \in puts : x \in Partial(Content) /\ DOMAIN x # {}
    <3>1. \A x \in puts : \E keys \in some, v \in Values : x = Written(keys, v)
      OBVIOUS
    <3>2. \A keys \in some : keys \in SUBSET Keys /\ keys # {}
      OBVIOUS
    <3> HIDE DEF puts, some
    <3>3. ASSUME NEW x \in puts PROVE x \in Partial(Content) /\ DOMAIN x # {}
      <4>1. PICK keys \in some, v \in Values : x = Written(keys, v)
        BY <3>1
      <4>2. Written(keys, v) \in Partial(Content) /\ DOMAIN Written(keys, v) = keys
        BY <1>1, <3>2
      <4> QED BY <3>2, <4>1, <4>2
    <3> QED BY <3>3
  <2>3. \A x \in cleans : x \in Partial(Content)
    <3>1. \A x \in cleans : \E keys \in SUBSET Keys, v \in Values : x = Written(keys, v)
      OBVIOUS
    <3> HIDE DEF cleans
    <3>2. ASSUME NEW x \in cleans PROVE x \in Partial(Content)
      <4>1. PICK keys \in SUBSET Keys, v \in Values : x = Written(keys, v)
        BY <3>1
      <4>2. Written(keys, v) \in Partial(Content)
        BY <1>1
      <4> QED BY <4>1, <4>2
    <3> QED BY <3>2
  <2>4. \A keys \in somePresent : keys \in SUBSET Keys /\ keys # {}
    OBVIOUS
  <2>5. \A x \in deletes : x \in Partial(Content) /\ DOMAIN x # {}
    <3>1. \A x \in deletes : \E keys \in somePresent : x = Removed(keys)
      OBVIOUS
    <3> HIDE DEF deletes, somePresent
    <3> QED BY <2>4, <3>1, RemovedType, Zenon
  <2>6. \A x \in partitions : x \in Partial(Content)
    <3>1. \A x \in partitions : \E keys \in somePresent : x = Removed(SamePartition(keys))
      OBVIOUS
    <3> HIDE DEF partitions, somePresent
    <3> QED BY <2>4, <3>1, RemovedType, SamePartitionHolds, Zenon
  <2> HIDE DEF puts, cleans, deletes, partitions
  <2> QED BY <2>1, <2>2, <2>3, <2>5, <2>6 DEF GoodChange, ChangeKinds, BatchKinds
<1> QED BY <1>2 DEF Actions

(* What a change leaves of a key, and which keys it settles.                 *)
LEMMA AppliedFields ==
  ASSUME NEW content \in Contents, NEW change \in GoodChange
  PROVE  /\ Applied(content, change) \in Contents
         /\ Touched(change) \subseteq Keys /\ DOMAIN change.rows \subseteq Touched(change)
         /\ \A k \in Keys : Applied(content, change)[k] =
              IF k \in DOMAIN change.rows THEN change.rows[k]
              ELSE IF k \in Touched(change) THEN NONE ELSE content[k]
<1>1. change.rows \in Partial(Content) /\ DOMAIN change.rows \in SUBSET Keys
  BY PartialFields DEF GoodChange
<1>2. Touched(change) \subseteq Keys /\ DOMAIN change.rows \subseteq Touched(change)
  BY <1>1, SamePartitionHolds DEF Touched
<1> DEFINE cleared == [k \in Keys |-> IF k \in Touched(change) THEN NONE ELSE content[k]]
<1>3. cleared \in Contents
  BY DEF Contents, Content
<1>4. \A k \in Keys : cleared[k] = IF k \in Touched(change) THEN NONE ELSE content[k]
  OBVIOUS
<1>5. Applied(content, change) = Overlay(cleared, change.rows)
  BY DEF Applied
<1> HIDE DEF cleared
<1> QED BY <1>1, <1>2, <1>3, <1>4, <1>5, OverlayContents

(* What a change settles does not depend on what was there before.           *)
LEMMA Settled ==
  ASSUME NEW one \in Contents, NEW other \in Contents, NEW change \in GoodChange,
         NEW k \in Touched(change)
  PROVE  Applied(one, change)[k] = Applied(other, change)[k]
BY AppliedFields

-----------------------------------------------------------------------------
(* What a reader makes of a chunk.                                           *)

LEMMA ViewFields ==
  ASSUME NEW v \in Views
  PROVE  /\ v = [cache |-> v.cache, kind |-> v.kind, batch |-> v.batch]
         /\ v.cache \in Contents /\ v.kind \in BatchKinds \cup {NONE}
         /\ v.batch \in Partial(Content)
BY DEF Views

LEMMA FreshType ==
  ASSUME NEW cache \in Contents
  PROVE  /\ Fresh(cache) \in Views /\ Fresh(cache).cache = cache
         /\ Fresh(cache).kind = NONE /\ Fresh(cache).batch = Nothing
BY NothingType DEF Fresh, Views

LEMMA ChunkFields ==
  ASSUME NEW chunk \in Chunk
  PROVE  /\ chunk.kind \in BatchKinds \cup {"updateEnd", "deleteEnd", "initEnd"}
                           \cup {"clean", "cleanPartitions", "deleteTable"}
         /\ chunk.rows \in Partial(Content)
BY DEF Chunk, BatchKinds, End

LEMMA ChunkType ==
  ASSUME NEW kind \in BatchKinds \cup {"updateEnd", "deleteEnd", "initEnd"}
                      \cup {"clean", "cleanPartitions", "deleteTable"},
         NEW change \in Partial(Content)
  PROVE  [kind |-> kind, rows |-> change] \in Chunk
<1>1. /\ "update" \in BatchKinds /\ End("update") = "updateEnd"
      /\ "delete" \in BatchKinds /\ End("delete") = "deleteEnd"
      /\ "init" \in BatchKinds /\ End("init") = "initEnd"
  BY DEF BatchKinds, End
<1>2. {"updateEnd", "deleteEnd", "initEnd"} \subseteq {End(k) : k \in BatchKinds}
  BY <1>1
<1> QED BY <1>2 DEF Chunk

(* A chunk of records is added to those that wait...                         *)
LEMMA TakesRecords ==
  ASSUME NEW v \in Views, NEW chunk \in Chunk, chunk.kind \in BatchKinds
  PROVE  TakenIn(v, chunk) = [cache |-> v.cache, kind |-> chunk.kind,
                              batch |-> Overlay(v.batch, chunk.rows)]
<1>1. PICK c, k, b : v = [cache |-> c, kind |-> k, batch |-> b]
  BY ViewFields
<1>2. TakenIn(v, chunk) = [v EXCEPT !.kind = chunk.kind, !.batch = Overlay(v.batch, chunk.rows)]
  BY DEF TakenIn, BatchKinds
<1> QED BY <1>1, <1>2

LEMMA ViewCloses ==
  ASSUME NEW v \in Views, NEW x \in Contents
  PROVE  [v EXCEPT !.cache = x, !.kind = NONE, !.batch = Nothing] = Fresh(x)
<1> DEFINE closed == [v EXCEPT !.cache = x, !.kind = NONE, !.batch = Nothing]
<1>1. closed \in Views /\ closed.cache = x /\ closed.kind = NONE /\ closed.batch = Nothing
  BY NothingType DEF Views
<1> HIDE DEF closed
<1>2. closed = Fresh(x)
  BY <1>1, ViewFields DEF Fresh
<1> QED BY <1>2 DEF closed

(* ... until their End closes the batch.                                     *)
LEMMA TakesEnd ==
  ASSUME NEW v \in Views, NEW chunk \in Chunk
  PROVE  /\ chunk.kind \in {"updateEnd", "deleteEnd"} =>
              TakenIn(v, chunk) = Fresh(Overlay(v.cache, v.batch))
         /\ chunk.kind = "initEnd" =>
              TakenIn(v, chunk) =
                Fresh(Overlay(Overlay(v.cache, Removed(SamePartition(DOMAIN v.batch))), v.batch))
<1>1. Overlay(v.cache, v.batch) \in Contents
  BY ViewFields, OverlayContents
<1>2. Overlay(Overlay(v.cache, Removed(SamePartition(DOMAIN v.batch))), v.batch) \in Contents
  <2>1. SamePartition(DOMAIN v.batch) \in SUBSET Keys
    BY ViewFields, PartialFields, SamePartitionHolds
  <2>2. Overlay(v.cache, Removed(SamePartition(DOMAIN v.batch))) \in Contents
    BY <2>1, ViewFields, RemovedType, OverlayContents
  <2> QED BY <2>2, ViewFields, OverlayContents
<1>3. ASSUME chunk.kind \in {"updateEnd", "deleteEnd"}
      PROVE  TakenIn(v, chunk) = [v EXCEPT !.cache = Overlay(v.cache, v.batch), !.kind = NONE,
                                           !.batch = Nothing]
  BY <1>3 DEF TakenIn
<1>4. ASSUME chunk.kind = "initEnd"
      PROVE  TakenIn(v, chunk) =
               [v EXCEPT !.cache = Overlay(Overlay(v.cache, Removed(SamePartition(DOMAIN v.batch))),
                                           v.batch),
                         !.kind = NONE, !.batch = Nothing]
  BY <1>4 DEF TakenIn
<1> QED BY <1>1, <1>2, <1>3, <1>4, ViewCloses

LEMMA TakesInstruction ==
  ASSUME NEW v \in Views, NEW chunk \in Chunk
  PROVE  /\ chunk.kind = "cleanPartitions" =>
              TakenIn(v, chunk) = [cache |-> Overlay(v.cache, chunk.rows),
                                   kind |-> v.kind, batch |-> v.batch]
         /\ chunk.kind \in {"clean", "deleteTable"} =>
              TakenIn(v, chunk) = [cache |-> NoRows, kind |-> v.kind, batch |-> v.batch]
BY ViewFields DEF TakenIn

LEMMA TakenInType ==
  ASSUME NEW v \in Views, NEW chunk \in Chunk
  PROVE  TakenIn(v, chunk) \in Views
<1>1. CASE chunk.kind \in BatchKinds
  <2>1. Overlay(v.batch, chunk.rows) \in Partial(Content)
    BY ViewFields, ChunkFields, OverlayPartial
  <2> QED BY <1>1, <2>1, ViewFields, TakesRecords DEF Views
<1>2. CASE chunk.kind \in {"updateEnd", "deleteEnd"}
  <2>1. Overlay(v.cache, v.batch) \in Contents
    BY ViewFields, OverlayContents
  <2>2. TakenIn(v, chunk) = Fresh(Overlay(v.cache, v.batch))
    BY <1>2, TakesEnd
  <2> QED BY <2>1, <2>2, FreshType
<1>3. CASE chunk.kind = "initEnd"
  <2>1. SamePartition(DOMAIN v.batch) \in SUBSET Keys
    BY ViewFields, PartialFields, SamePartitionHolds
  <2>2. Overlay(v.cache, Removed(SamePartition(DOMAIN v.batch))) \in Contents
    BY <2>1, ViewFields, RemovedType, OverlayContents
  <2>3. Overlay(Overlay(v.cache, Removed(SamePartition(DOMAIN v.batch))), v.batch) \in Contents
    BY <2>2, ViewFields, OverlayContents
  <2>4. TakenIn(v, chunk) =
          Fresh(Overlay(Overlay(v.cache, Removed(SamePartition(DOMAIN v.batch))), v.batch))
    BY <1>3, TakesEnd
  <2> QED BY <2>3, <2>4, FreshType
<1>4. CASE chunk.kind = "cleanPartitions"
  <2>1. Overlay(v.cache, chunk.rows) \in Contents
    BY ViewFields, ChunkFields, OverlayContents
  <2> QED BY <1>4, <2>1, ViewFields, TakesInstruction DEF Views
<1>5. CASE chunk.kind \in {"clean", "deleteTable"}
  BY <1>5, ViewFields, NothingType, TakesInstruction DEF Views
<1> QED BY <1>1, <1>2, <1>3, <1>4, <1>5, ChunkFields DEF BatchKinds

-----------------------------------------------------------------------------
(* Runs through sequences of chunks.                                         *)

LEMMA FollowsNothing ==
  ASSUME NEW v \in Views
  PROVE  Follows(v, <<>>, v)
<1> DEFINE f == [n \in 0..0 |-> v]
<1>1. f \in [0..Len(<<>>) -> Views] /\ f[0] = v /\ f[Len(<<>>)] = v
  OBVIOUS
<1>2. \A n \in 1..Len(<<>>) : f[n] = TakenIn(f[n - 1], <<>>[n])
  OBVIOUS
<1> HIDE DEF f
<1> QED BY <1>1, <1>2 DEF Follows

LEMMA FollowsViews ==
  ASSUME NEW v, NEW e, NEW chunks \in Seq(Chunk), Follows(v, chunks, e)
  PROVE  v \in Views /\ e \in Views
<1>1. PICK f \in [0..Len(chunks) -> Views] : f[0] = v /\ f[Len(chunks)] = e
  BY DEF Follows
<1>2. Len(chunks) \in Nat
  OBVIOUS
<1> QED BY <1>1, <1>2

LEMMA FollowsOne ==
  ASSUME NEW v \in Views, NEW chunk \in Chunk
  PROVE  Follows(v, <<chunk>>, TakenIn(v, chunk))
<1> DEFINE e == TakenIn(v, chunk)
           f == [n \in 0..1 |-> IF n = 0 THEN v ELSE e]
<1>1. e \in Views
  BY TakenInType
<1>2. f[0] = v /\ f[1] = TakenIn(v, chunk) /\ f[1] = e
  OBVIOUS
<1> HIDE DEF e
<1>3. f \in [0..1 -> Views]
  BY <1>1
<1>4. Len(<<chunk>>) = 1 /\ <<chunk>>[1] = chunk
  OBVIOUS
<1> HIDE DEF f
<1>5. \A n \in 1..1 : f[n] = TakenIn(f[n - 1], <<chunk>>[n])
  <2>0. 1 - 1 = 0
    OBVIOUS
  <2>1. f[1] = TakenIn(f[1 - 1], <<chunk>>[1])
    BY <1>2, <1>4, <2>0, Zenon
  <2>2. \A n \in 1..1 : n = 1
    OBVIOUS
  <2> QED BY <2>1, <2>2
<1>6. Follows(v, <<chunk>>, e)
  BY <1>2, <1>3, <1>4, <1>5 DEF Follows
<1> QED BY <1>6 DEF e

LEMMA FollowsBoth ==
  ASSUME NEW one \in Seq(Chunk), NEW other \in Seq(Chunk), NEW v, NEW m, NEW e,
         Follows(v, one, m), Follows(m, other, e)
  PROVE  Follows(v, one \o other, e)
<1>1. PICK f \in [0..Len(one) -> Views] :
        /\ f[0] = v /\ f[Len(one)] = m
        /\ \A n \in 1..Len(one) : f[n] = TakenIn(f[n - 1], one[n])
  BY DEF Follows
<1>2. PICK g \in [0..Len(other) -> Views] :
        /\ g[0] = m /\ g[Len(other)] = e
        /\ \A n \in 1..Len(other) : g[n] = TakenIn(g[n - 1], other[n])
  BY DEF Follows
<1>3. PICK a \in Nat, b \in Nat : a = Len(one) /\ b = Len(other)
  OBVIOUS
<1> DEFINE all == one \o other
<1>4. /\ all \in Seq(Chunk) /\ Len(all) = a + b
      /\ \A n \in 1..(a + b) : all[n] = IF n <= a THEN one[n] ELSE other[n - a]
  BY <1>3
<1> HIDE DEF all
<1> DEFINE h == [n \in 0..(a + b) |-> IF n <= a THEN f[n] ELSE g[n - a]]
<1>5. h \in [0..(a + b) -> Views]
  BY <1>1, <1>2, <1>3
<1>6. h[0] = v /\ h[a + b] = e
  BY <1>1, <1>2, <1>3
<1>7. ASSUME NEW n \in 1..(a + b) PROVE h[n] = TakenIn(h[n - 1], all[n])
  <2>1. CASE n <= a
    <3>1. h[n] = f[n] /\ h[n - 1] = f[n - 1] /\ all[n] = one[n] /\ n \in 1..Len(one)
      BY <1>3, <1>4, <2>1
    <3> QED BY <1>1, <3>1
  <2>2. CASE n > a
    <3>1. h[n] = g[n - a] /\ all[n] = other[n - a] /\ n - a \in 1..Len(other)
      BY <1>3, <1>4, <2>2
    <3>2. h[n - 1] = g[(n - a) - 1]
      BY <1>1, <1>2, <1>3, <2>2
    <3> QED BY <1>2, <3>1, <3>2
  <2> QED BY <2>1, <2>2
<1> HIDE DEF h
<1>8. Follows(v, all, e)
  BY <1>4, <1>5, <1>6, <1>7 DEF Follows
<1> QED BY <1>8 DEF all

(* A run through a sequence begins with its first chunk.                     *)
LEMMA FollowsRest ==
  ASSUME NEW chunk \in Chunk, NEW rest \in Seq(Chunk), NEW v, NEW e,
         Follows(v, <<chunk>> \o rest, e)
  PROVE  Follows(TakenIn(v, chunk), rest, e)
<1>1. PICK b \in Nat : b = Len(rest)
  OBVIOUS
<1> DEFINE all == <<chunk>> \o rest
<1>2. /\ all \in Seq(Chunk) /\ Len(all) = b + 1 /\ all[1] = chunk
      /\ \A n \in 1..b : all[n + 1] = rest[n]
  BY <1>1
<1>0. Follows(v, all, e)
  OBVIOUS
<1> HIDE DEF all
<1>3. PICK f \in [0..(b + 1) -> Views] :
        /\ f[0] = v /\ f[b + 1] = e
        /\ \A n \in 1..(b + 1) : f[n] = TakenIn(f[n - 1], all[n])
  BY <1>0, <1>2 DEF Follows
<1> DEFINE g == [n \in 0..b |-> f[n + 1]]
<1>4. g \in [0..b -> Views] /\ g[b] = e
  BY <1>3
<1>5. g[0] = TakenIn(v, chunk)
  <2>1. f[1] = TakenIn(f[1 - 1], all[1])
    BY <1>3
  <2> QED BY <1>2, <1>3, <2>1
<1>6. ASSUME NEW n \in 1..b PROVE g[n] = TakenIn(g[n - 1], rest[n])
  <2>1. f[n + 1] = TakenIn(f[(n + 1) - 1], all[n + 1])
    BY <1>3
  <2>2. g[n] = f[n + 1] /\ g[n - 1] = f[(n + 1) - 1]
    OBVIOUS
  <2> QED BY <1>2, <2>1, <2>2
<1> HIDE DEF g
<1> QED BY <1>1, <1>4, <1>5, <1>6 DEF Follows

-----------------------------------------------------------------------------
(* What a call tells, and what a reader that takes it in comes to.           *)

LEMMA ContentsEqual ==
  ASSUME NEW a \in Contents, NEW b \in Contents, \A k \in Keys : a[k] = b[k]
  PROVE  a = b
BY DEF Contents

LEMMA SequenceType ==
  ASSUME NEW S, NEW n \in Nat, NEW f \in [1..n -> S]
  PROVE  f \in Seq(S) /\ Len(f) = n /\ DOMAIN f = 1..n
OBVIOUS

LEMMA BothFields ==
  ASSUME NEW S, NEW one \in Seq(S), NEW other \in Seq(S)
  PROVE  /\ one \o other \in Seq(S) /\ Len(one) \in Nat /\ Len(other) \in Nat
         /\ Len(one \o other) = Len(one) + Len(other)
         /\ \A n \in 1..(Len(one) + Len(other)) :
              (one \o other)[n] = IF n <= Len(one) THEN one[n] ELSE other[n - Len(one)]
OBVIOUS

LEMMA SequencesEqual ==
  ASSUME NEW S, NEW one \in Seq(S), NEW other \in Seq(S), Len(one) = Len(other),
         \A n \in 1..Len(one) : one[n] = other[n]
  PROVE  one = other
OBVIOUS

(* Every element once, in some order.                                        *)
LEMMA OrderFields ==
  ASSUME NEW S, IsFiniteSet(S)
  PROVE  /\ Cardinality(S) \in Nat /\ Len(SetToSeq(S)) = Cardinality(S)
         /\ \A j \in 1..Cardinality(S) : SetToSeq(S)[j] \in S
         /\ \A x \in S : \E j \in 1..Cardinality(S) : SetToSeq(S)[j] = x
<1>1. PICK size \in Nat : size = Cardinality(S)
  BY FS_CardinalityType
<1>2. ExistsBijection(1..size, S)
  BY <1>1, FS_CardinalityType
<1>3. \E f \in [1..size -> S] : IsInjective(f)
  BY <1>2 DEF ExistsBijection, Bijection, Injection, IsInjective
<1>4. SetToSeq(S) \in [1..size -> S] /\ IsInjective(SetToSeq(S))
  BY <1>1, <1>3 DEF SetToSeq
<1> DEFINE order == SetToSeq(S)
<1>5. order \in Injection(1..size, S)
  BY <1>4 DEF Injection, IsInjective
<1> HIDE DEF order
<1>6. IsFiniteSet(1..size) /\ Cardinality(1..size) = size
  BY FS_Interval
<1>7. order \in Surjection(1..size, S)
  BY <1>1, <1>5, <1>6, FS_Injection
<1>8. \A x \in S : \E j \in 1..size : order[j] = x
  BY <1>7 DEF Surjection
<1> QED BY <1>1, <1>4, <1>8, SequenceType DEF order

LEMMA CutCovers ==
  ASSUME NEW a \in Nat \ {0}, NEW b \in Nat \ {0}
  PROVE  (a + b - 1) \div b \in Nat \ {0} /\ ((a + b - 1) \div b) * b >= a
<1>1. PICK x \in Nat : x = a + b - 1
  OBVIOUS
<1>2. PICK q \in Nat : q = x \div b
  OBVIOUS
<1>3. x = b * q + (x % b) /\ x % b \in 0..(b - 1)
  BY <1>2
<1> QED BY <1>1, <1>2, <1>3

(* The chunks of a batch are of one kind; each adds some of the rows, and    *)
(* the last completes them.                                                  *)
LEMMA CutFields ==
  ASSUME NEW kind \in BatchKinds, NEW changed \in Partial(Content), DOMAIN changed # {}
  PROVE  \E count \in Nat \ {0} :
         \E part \in [1..count -> SUBSET DOMAIN changed],
            upto \in [0..count -> SUBSET DOMAIN changed] :
           /\ Cut(kind, changed) =
                [n \in 1..count |-> [kind |-> kind, rows |-> Restrict(changed, part[n])]]
           /\ upto[0] = {} /\ upto[count] = DOMAIN changed
           /\ \A n \in 1..count : upto[n] = upto[n - 1] \cup part[n]
<1> DEFINE domain == DOMAIN changed
           order == SetToSeq(domain)
           size == Len(order)
           M == MaxRowsPerChunk
           count == (size + M - 1) \div M
           Nth(n) == {order[j] : j \in {m \in 1..size : (n - 1) * M < m /\ m <= n * M}}
           part == [n \in 1..count |-> Nth(n)]
           upto == [n \in 0..count |-> {order[j] : j \in {m \in 1..size : m <= n * M}}]
<1>1. IsFiniteSet(domain)
  <2>1. domain \subseteq Keys
    BY PartialFields
  <2> QED BY <2>1, KeysAssumption, FS_Subset
<1>2. /\ size \in Nat /\ \A j \in 1..size : order[j] \in domain
      /\ \A x \in domain : \E j \in 1..size : order[j] = x
  BY <1>1, OrderFields
<1>3. size # 0
  BY <1>2
<1>4. M \in Nat \ {0} /\ count \in Nat \ {0} /\ count * M >= size
  <2>1. M \in Nat \ {0} /\ size \in Nat \ {0}
    BY <1>2, <1>3, CeilingAssumption
  <2> HIDE DEF M, size
  <2> QED BY <2>1, CutCovers
<1>5. Cut(kind, changed) =
        [n \in 1..count |-> [kind |-> kind, rows |-> Restrict(changed, part[n])]]
  BY DEF Cut
<1> HIDE DEF size, order, M, count
<1>6. part \in [1..count -> SUBSET domain] /\ upto \in [0..count -> SUBSET domain]
  BY <1>2
<1>7. upto[0] = {}
  BY <1>4
<1>8. upto[count] = domain
  <2>1. \A m \in 1..size : m <= count * M
    BY <1>2, <1>4
  <2>2. upto[count] = {order[j] : j \in 1..size}
    BY <1>4, <2>1
  <2> QED BY <1>2, <2>2
<1>9. ASSUME NEW n \in 1..count PROVE upto[n] = upto[n - 1] \cup part[n]
  <2>1. PICK low \in Nat, high \in Nat : low = (n - 1) * M /\ high = n * M
    BY <1>4
  <2>2. low <= high
    BY <1>4, <2>1
  <2>3. part[n] = {order[j] : j \in {m \in 1..size : low < m /\ m <= high}}
    BY <2>1
  <2>4. upto[n] = {order[j] : j \in {m \in 1..size : m <= high}}
    BY <2>1
  <2>5. upto[n - 1] = {order[j] : j \in {m \in 1..size : m <= low}}
    <3>1. n - 1 \in 0..count
      BY <1>4
    <3> QED BY <2>1, <3>1
  <2>6. {m \in 1..size : m <= high} = {m \in 1..size : m <= low}
                                       \cup {m \in 1..size : low < m /\ m <= high}
    BY <1>2, <2>2
  <2> HIDE DEF part, upto
  <2> QED BY <2>3, <2>4, <2>5, <2>6
<1> DEFINE Covers(c, p, u) ==
             /\ Cut(kind, changed) =
                  [n \in 1..c |-> [kind |-> kind, rows |-> Restrict(changed, p[n])]]
             /\ u[0] = {} /\ u[c] = DOMAIN changed
             /\ \A n \in 1..c : u[n] = u[n - 1] \cup p[n]
<1> HIDE DEF part, upto
<1>10. Covers(count, part, upto)
  BY <1>5, <1>7, <1>8, <1>9
<1>11. /\ count \in Nat \ {0} /\ part \in [1..count -> SUBSET DOMAIN changed]
       /\ upto \in [0..count -> SUBSET DOMAIN changed]
  BY <1>4, <1>6
<1> HIDE DEF Covers, domain
<1>12. \E c \in Nat \ {0} : \E p \in [1..c -> SUBSET DOMAIN changed],
                              u \in [0..c -> SUBSET DOMAIN changed] : Covers(c, p, u)
  BY <1>10, <1>11, Zenon
<1> QED BY <1>12, Zenon DEF Covers

LEMMA Restricted ==
  ASSUME NEW changed \in Partial(Content), NEW A \in SUBSET DOMAIN changed,
         NEW B \in SUBSET DOMAIN changed
  PROVE  /\ Restrict(changed, A) \in Partial(Content)
         /\ Overlay(Restrict(changed, A), Restrict(changed, B)) = Restrict(changed, A \cup B)
         /\ Restrict(changed, {}) = Nothing /\ Restrict(changed, DOMAIN changed) = changed
<1>1. Restrict(changed, A) \in [A -> Content] /\ A \in SUBSET Keys
  BY PartialFields DEF Restrict
<1>2. Overlay(Restrict(changed, A), Restrict(changed, B)) = Restrict(changed, A \cup B)
  BY DEF Overlay, Restrict
<1>3. Restrict(changed, {}) = Nothing
  BY DEF Restrict, Nothing
<1>4. Restrict(changed, DOMAIN changed) = changed
  BY PartialFields DEF Restrict
<1> QED BY <1>1, <1>2, <1>3, <1>4, PartialType

LEMMA CutFollows ==
  ASSUME NEW kind \in BatchKinds, NEW changed \in Partial(Content), DOMAIN changed # {},
         NEW cache \in Contents
  PROVE  /\ Cut(kind, changed) \in Seq(Chunk) /\ Cut(kind, changed) # <<>>
         /\ Follows(Fresh(cache), Cut(kind, changed),
                    [cache |-> cache, kind |-> kind, batch |-> changed])
<1>0. PICK count \in Nat \ {0} :
        \E part \in [1..count -> SUBSET DOMAIN changed],
           upto \in [0..count -> SUBSET DOMAIN changed] :
          /\ Cut(kind, changed) =
               [n \in 1..count |-> [kind |-> kind, rows |-> Restrict(changed, part[n])]]
          /\ upto[0] = {} /\ upto[count] = DOMAIN changed
          /\ \A n \in 1..count : upto[n] = upto[n - 1] \cup part[n]
  BY CutFields
<1>1. PICK part \in [1..count -> SUBSET DOMAIN changed],
           upto \in [0..count -> SUBSET DOMAIN changed] :
        /\ Cut(kind, changed) =
             [n \in 1..count |-> [kind |-> kind, rows |-> Restrict(changed, part[n])]]
        /\ upto[0] = {} /\ upto[count] = DOMAIN changed
        /\ \A n \in 1..count : upto[n] = upto[n - 1] \cup part[n]
  BY <1>0
<1> DEFINE cut == Cut(kind, changed)
           f == [n \in 0..count |-> [cache |-> cache, kind |-> IF n = 0 THEN NONE ELSE kind,
                                     batch |-> Restrict(changed, upto[n])]]
<1>2. \A n \in 1..count : [kind |-> kind, rows |-> Restrict(changed, part[n])] \in Chunk
  BY Restricted, ChunkType
<1>3. /\ cut \in [1..count -> Chunk]
      /\ \A n \in 1..count : cut[n] = [kind |-> kind, rows |-> Restrict(changed, part[n])]
  BY <1>1, <1>2
<1>4. cut \in Seq(Chunk) /\ Len(cut) = count
  BY <1>3, SequenceType
<1> HIDE DEF cut
<1>5. cut # <<>>
  BY <1>4
<1>6. f \in [0..count -> Views]
  BY Restricted DEF Views
<1>7. f[0] = Fresh(cache) /\ f[count] = [cache |-> cache, kind |-> kind, batch |-> changed]
  BY <1>1, Restricted DEF Fresh
<1>8. ASSUME NEW n \in 1..count PROVE f[n] = TakenIn(f[n - 1], cut[n])
  <2>1. /\ f[n - 1] \in Views /\ cut[n] \in Chunk /\ cut[n].kind = kind
        /\ cut[n].rows = Restrict(changed, part[n])
    BY <1>2, <1>3, <1>6
  <2>2. f[n - 1].cache = cache /\ f[n - 1].batch = Restrict(changed, upto[n - 1])
    OBVIOUS
  <2>3. TakenIn(f[n - 1], cut[n]) =
          [cache |-> cache, kind |-> kind,
           batch |-> Overlay(Restrict(changed, upto[n - 1]), Restrict(changed, part[n]))]
    BY <2>1, <2>2, TakesRecords
  <2>4. upto[n - 1] \in SUBSET DOMAIN changed /\ part[n] \in SUBSET DOMAIN changed
    OBVIOUS
  <2>5. Overlay(Restrict(changed, upto[n - 1]), Restrict(changed, part[n]))
          = Restrict(changed, upto[n])
    <3>1. PICK A \in SUBSET DOMAIN changed, B \in SUBSET DOMAIN changed :
            A = upto[n - 1] /\ B = part[n]
      BY <2>4
    <3>2. Overlay(Restrict(changed, A), Restrict(changed, B)) = Restrict(changed, A \cup B)
      BY Restricted
    <3> QED BY <1>1, <3>1, <3>2
  <2>6. f[n] = [cache |-> cache, kind |-> kind, batch |-> Restrict(changed, upto[n])]
    OBVIOUS
  <2> QED BY <2>3, <2>5, <2>6
<1> HIDE DEF f
<1>9. Follows(Fresh(cache), cut, [cache |-> cache, kind |-> kind, batch |-> changed])
  BY <1>4, <1>6, <1>7, <1>8 DEF Follows
<1> QED BY <1>4, <1>5, <1>9 DEF cut

LEMMA EndKinds ==
  ASSUME NEW kind \in BatchKinds
  PROVE  /\ End(kind) \in {"updateEnd", "deleteEnd", "initEnd"} /\ End(kind) \notin BatchKinds
         /\ \A other \in BatchKinds : End(kind) = End(other) => kind = other
         /\ End("update") = "updateEnd" /\ End("delete") = "deleteEnd" /\ End("init") = "initEnd"
BY DEF BatchKinds, End

(* One chunk of no batch.                                                    *)
LEMMA InstructionFollows ==
  ASSUME NEW kind \in {"clean", "cleanPartitions", "deleteTable"}, NEW changed \in Partial(Content),
         NEW cache \in Contents
  PROVE  /\ Instruction(kind, changed) \in Seq(Chunk) /\ Len(Instruction(kind, changed)) = 1
         /\ Instruction(kind, changed) # <<>>
         /\ Instruction(kind, changed)[1] = [kind |-> kind, rows |-> changed]
         /\ Follows(Fresh(cache), Instruction(kind, changed),
                    Fresh(IF kind = "cleanPartitions" THEN Overlay(cache, changed) ELSE NoRows))
<1> DEFINE chunk == [kind |-> kind, rows |-> changed]
<1>1. chunk \in Chunk /\ chunk.kind = kind /\ chunk.rows = changed
  BY ChunkType
<1>2. Instruction(kind, changed) = <<chunk>>
  BY DEF Instruction
<1> HIDE DEF chunk
<1>3. Follows(Fresh(cache), <<chunk>>, TakenIn(Fresh(cache), chunk))
  BY <1>1, FreshType, FollowsOne
<1>4. TakenIn(Fresh(cache), chunk) =
        Fresh(IF kind = "cleanPartitions" THEN Overlay(cache, changed) ELSE NoRows)
  <2>1. Fresh(cache) \in Views
    BY FreshType
  <2>2. CASE kind = "cleanPartitions"
    BY <1>1, <2>1, <2>2, FreshType, TakesInstruction DEF Fresh
  <2>3. CASE kind \in {"clean", "deleteTable"}
    BY <1>1, <2>1, <2>3, FreshType, TakesInstruction DEF Fresh
  <2> QED BY <2>2, <2>3
<1>5. <<chunk>> \in Seq(Chunk) /\ Len(<<chunk>>) = 1 /\ <<chunk>> # <<>> /\ <<chunk>>[1] = chunk
  BY <1>1
<1> QED BY <1>2, <1>3, <1>4, <1>5 DEF chunk

LEMMA BatchFollows ==
  ASSUME NEW change \in GoodChange, change.kind \in BatchKinds, NEW cache \in Contents
  PROVE  /\ Batch(change.kind, change.rows) \in Seq(Chunk)
         /\ Batch(change.kind, change.rows) # <<>>
         /\ Follows(Fresh(cache), Batch(change.kind, change.rows), Fresh(Applied(cache, change)))
<1>1. PICK kind \in BatchKinds, changed \in Partial(Content) :
        kind = change.kind /\ changed = change.rows /\ DOMAIN changed # {}
  BY DEF GoodChange
<1> DEFINE cut == Cut(kind, changed)
           end == [kind |-> End(kind), rows |-> Nothing]
           filled == [cache |-> cache, kind |-> kind, batch |-> changed]
<1>2. cut \in Seq(Chunk) /\ cut # <<>> /\ Follows(Fresh(cache), cut, filled)
  BY <1>1, CutFollows
<1>3. /\ end \in Chunk /\ end.kind = End(kind)
      /\ filled \in Views /\ filled.cache = cache /\ filled.batch = changed
  BY EndKinds, NothingType, ChunkType DEF Views
<1>4. Batch(kind, changed) = cut \o <<end>>
  BY <1>1 DEF Batch, Instruction
<1> HIDE DEF cut, end, filled
<1>5. cut \o <<end>> \in Seq(Chunk) /\ cut \o <<end>> # <<>>
  BY <1>2, <1>3
<1>6. <<end>> \in Seq(Chunk)
  BY <1>3
<1>7. Follows(filled, <<end>>, TakenIn(filled, end))
  BY <1>3, FollowsOne
<1>8. Follows(Fresh(cache), cut \o <<end>>, TakenIn(filled, end))
  BY <1>2, <1>6, <1>7, FollowsBoth
<1>9. Applied(cache, change) \in Contents
  BY AppliedFields
<1>10. TakenIn(filled, end) = Fresh(Applied(cache, change))
  <2>1. CASE kind \in {"update", "delete"}
    <3>1. end.kind \in {"updateEnd", "deleteEnd"}
      BY <1>3, <2>1, EndKinds
    <3>2. TakenIn(filled, end) = Fresh(Overlay(cache, changed))
      BY <1>3, <3>1, TakesEnd
    <3>3. Touched(change) = DOMAIN changed
      BY <1>1, <2>1 DEF Touched
    <3>4. Overlay(cache, changed) = Applied(cache, change)
      <4>1. /\ Overlay(cache, changed) \in Contents
            /\ \A k \in Keys : Overlay(cache, changed)[k] =
                                 IF k \in DOMAIN changed THEN changed[k] ELSE cache[k]
        BY OverlayContents
      <4>2. \A k \in Keys : Applied(cache, change)[k] =
                              IF k \in DOMAIN changed THEN changed[k] ELSE cache[k]
        BY <1>1, <3>3, AppliedFields
      <4> QED BY <1>9, <4>1, <4>2, ContentsEqual
    <3> QED BY <3>2, <3>4
  <2>2. CASE kind = "init"
    <3>1. end.kind = "initEnd"
      BY <1>3, <2>2, EndKinds
    <3> DEFINE same == SamePartition(DOMAIN changed)
               cleared == Overlay(cache, Removed(same))
    <3>2. TakenIn(filled, end) = Fresh(Overlay(cleared, changed))
      BY <1>3, <3>1, TakesEnd
    <3>3. Touched(change) = same
      BY <1>1, <2>2 DEF Touched
    <3>4. same \in SUBSET Keys
      BY PartialFields, SamePartitionHolds
    <3> HIDE DEF same
    <3>5. /\ Removed(same) \in Partial(Content) /\ DOMAIN Removed(same) = same
          /\ \A k \in same : Removed(same)[k] = NONE
      BY <3>4, RemovedType
    <3>6. /\ cleared \in Contents
          /\ \A k \in Keys : cleared[k] = IF k \in same THEN NONE ELSE cache[k]
      BY <3>5, OverlayContents
    <3> HIDE DEF cleared
    <3>7. /\ Overlay(cleared, changed) \in Contents
          /\ \A k \in Keys : Overlay(cleared, changed)[k] =
                               IF k \in DOMAIN changed THEN changed[k] ELSE cleared[k]
      BY <3>6, OverlayContents
    <3>8. \A k \in Keys : Applied(cache, change)[k] =
                            IF k \in DOMAIN changed THEN changed[k]
                            ELSE IF k \in same THEN NONE ELSE cache[k]
      BY <1>1, <3>3, AppliedFields
    <3>9. Overlay(cleared, changed) = Applied(cache, change)
      BY <1>9, <3>6, <3>7, <3>8, ContentsEqual
    <3> QED BY <3>2, <3>9
  <2> QED BY <2>1, <2>2 DEF BatchKinds
<1> QED BY <1>1, <1>4, <1>5, <1>8, <1>10

(* Whatever was in a cache, the chunks of a change do to it what the change  *)
(* did to the table.                                                         *)
LEMMA ChangesAreTold ==
  ASSUME NEW change \in GoodChange, NEW cache \in Contents
  PROVE  /\ ChunksOf(change) \in Seq(Chunk) /\ ChunksOf(change) # <<>>
         /\ Follows(Fresh(cache), ChunksOf(change), Fresh(Applied(cache, change)))
<1>0. /\ change.kind \in ChangeKinds /\ change.rows \in Partial(Content)
      /\ Applied(cache, change) \in Contents
  BY AppliedFields DEF GoodChange
<1>1. CASE change.kind \in BatchKinds
  <2>1. ChunksOf(change) = Batch(change.kind, change.rows)
    BY <1>1 DEF ChunksOf, BatchKinds
  <2> QED BY <1>1, <2>1, BatchFollows
<1>2. CASE change.kind = "cleanPartitions"
  <2>1. ChunksOf(change) = Instruction("cleanPartitions", change.rows)
    BY <1>2 DEF ChunksOf
  <2>2. Touched(change) = DOMAIN change.rows
    BY <1>2 DEF Touched
  <2>3. Overlay(cache, change.rows) = Applied(cache, change)
    <3>1. /\ Overlay(cache, change.rows) \in Contents
          /\ \A k \in Keys : Overlay(cache, change.rows)[k] =
                               IF k \in DOMAIN change.rows THEN change.rows[k] ELSE cache[k]
      BY <1>0, OverlayContents
    <3>2. \A k \in Keys : Applied(cache, change)[k] =
                            IF k \in DOMAIN change.rows THEN change.rows[k] ELSE cache[k]
      BY <2>2, AppliedFields
    <3> QED BY <1>0, <3>1, <3>2, ContentsEqual
  <2>4. /\ Instruction("cleanPartitions", change.rows) \in Seq(Chunk)
        /\ Instruction("cleanPartitions", change.rows) # <<>>
        /\ Follows(Fresh(cache), Instruction("cleanPartitions", change.rows),
                   Fresh(Overlay(cache, change.rows)))
    BY <1>0, InstructionFollows
  <2> QED BY <2>1, <2>3, <2>4
<1>3. CASE change.kind = "clean"
  <2>1. ChunksOf(change) = Instruction("clean", Nothing) \o Batch("update", change.rows)
    BY <1>3 DEF ChunksOf
  <2>2. /\ Instruction("clean", Nothing) \in Seq(Chunk) /\ Len(Instruction("clean", Nothing)) = 1
        /\ Follows(Fresh(cache), Instruction("clean", Nothing), Fresh(NoRows))
    BY NothingType, InstructionFollows
  <2>3. Touched(change) = Keys
    BY <1>3 DEF Touched
  <2>4. \A k \in Keys : Applied(cache, change)[k] =
                          IF k \in DOMAIN change.rows THEN change.rows[k] ELSE NONE
    BY <2>3, AppliedFields
  <2>5. CASE DOMAIN change.rows = {}
    <3>1. Batch("update", change.rows) = <<>>
      BY <2>5 DEF Batch
    <3>2. ChunksOf(change) = Instruction("clean", Nothing)
      BY <2>1, <2>2, <3>1
    <3>3. NoRows = Applied(cache, change)
      BY <1>0, <2>4, <2>5, NothingType, ContentsEqual
    <3> QED BY <2>2, <3>2, <3>3
  <2>6. CASE DOMAIN change.rows # {}
    <3> DEFINE update == [kind |-> "update", rows |-> change.rows]
    <3>1. update \in GoodChange /\ update.kind = "update" /\ update.rows = change.rows
      BY <1>0, <2>6 DEF GoodChange, ChangeKinds
    <3> HIDE DEF update
    <3>2. update.kind \in BatchKinds /\ NoRows \in Contents
      BY <3>1, NothingType DEF BatchKinds
    <3>3. /\ Batch("update", change.rows) \in Seq(Chunk)
          /\ Follows(Fresh(NoRows), Batch("update", change.rows), Fresh(Applied(NoRows, update)))
      BY <3>1, <3>2, BatchFollows
    <3>4. Applied(NoRows, update) = Applied(cache, change)
      <4>1. Applied(NoRows, update) \in Contents
        BY <3>1, <3>2, AppliedFields
      <4>2. \A k \in Keys : Applied(NoRows, update)[k] =
                              IF k \in DOMAIN change.rows THEN change.rows[k] ELSE NONE
        BY <3>1, <3>2, NothingType, AppliedFields
      <4> QED BY <1>0, <2>4, <4>1, <4>2, ContentsEqual
    <3>5. Follows(Fresh(cache), ChunksOf(change), Fresh(Applied(cache, change)))
      BY <2>1, <2>2, <3>3, <3>4, FollowsBoth
    <3>6. ChunksOf(change) \in Seq(Chunk) /\ ChunksOf(change) # <<>>
      <4>1. PICK one \in Seq(Chunk), other \in Seq(Chunk) :
              one = Instruction("clean", Nothing) /\ other = Batch("update", change.rows)
        BY <2>2, <3>3
      <4>2. Len(one) = 1
        BY <2>2, <4>1
      <4>3. one \o other \in Seq(Chunk) /\ one \o other # <<>>
        BY <4>2
      <4> QED BY <2>1, <4>1, <4>3
    <3> QED BY <3>5, <3>6
  <2> QED BY <2>5, <2>6
<1> QED BY <1>0, <1>1, <1>2, <1>3 DEF ChangeKinds, BatchKinds

-----------------------------------------------------------------------------
(* Whole batches.                                                            *)

ChunkKinds == BatchKinds \cup {"updateEnd", "deleteEnd", "initEnd"}
              \cup {"clean", "cleanPartitions", "deleteTable"}

Run(kinds) ==
  \A n \in DOMAIN kinds :
    /\ kinds[n] \in BatchKinds =>
         n < Len(kinds) /\ kinds[n + 1] \in {kinds[n], End(kinds[n])}
    /\ \A kind \in BatchKinds :
         kinds[n] = End(kind) => n > 1 /\ kinds[n - 1] = kind

KindsOf(chunks) == [n \in DOMAIN chunks |-> chunks[n].kind]

LEMMA KindsType ==
  ASSUME NEW chunks \in Seq(Chunk)
  PROVE  /\ KindsOf(chunks) \in Seq(ChunkKinds) /\ Len(KindsOf(chunks)) = Len(chunks)
         /\ DOMAIN KindsOf(chunks) = 1..Len(chunks)
         /\ \A n \in 1..Len(chunks) : KindsOf(chunks)[n] = chunks[n].kind
<1>1. PICK size \in Nat : size = Len(chunks) /\ DOMAIN chunks = 1..size
  OBVIOUS
<1>2. \A n \in 1..size : chunks[n].kind \in ChunkKinds
  <2>1. \A n \in 1..size : chunks[n] \in Chunk
    BY <1>1
  <2> QED BY <2>1, ChunkFields DEF ChunkKinds
<1>3. KindsOf(chunks) = [n \in 1..size |-> chunks[n].kind]
  BY <1>1 DEF KindsOf
<1>4. KindsOf(chunks) \in [1..size -> ChunkKinds]
  BY <1>2, <1>3
<1> QED BY <1>1, <1>3, <1>4, SequenceType

LEMMA KindsBoth ==
  ASSUME NEW one \in Seq(Chunk), NEW other \in Seq(Chunk)
  PROVE  KindsOf(one \o other) = KindsOf(one) \o KindsOf(other)
<1> DEFINE all == one \o other
           k1 == KindsOf(one)
           k2 == KindsOf(other)
           k3 == KindsOf(all)
           both == k1 \o k2
<1>1. /\ all \in Seq(Chunk) /\ Len(one) \in Nat /\ Len(other) \in Nat
      /\ Len(all) = Len(one) + Len(other)
      /\ \A n \in 1..(Len(one) + Len(other)) :
           all[n] = IF n <= Len(one) THEN one[n] ELSE other[n - Len(one)]
  BY BothFields
<1> HIDE DEF all
<1>2. /\ k1 \in Seq(ChunkKinds) /\ k2 \in Seq(ChunkKinds) /\ k3 \in Seq(ChunkKinds)
      /\ Len(k1) = Len(one) /\ Len(k2) = Len(other) /\ Len(k3) = Len(all)
      /\ \A n \in 1..Len(one) : k1[n] = one[n].kind
      /\ \A n \in 1..Len(other) : k2[n] = other[n].kind
      /\ \A n \in 1..Len(all) : k3[n] = all[n].kind
  BY <1>1, KindsType
<1> HIDE DEF k1, k2, k3
<1>3. /\ both \in Seq(ChunkKinds) /\ Len(both) = Len(one) + Len(other)
      /\ \A n \in 1..(Len(one) + Len(other)) :
           both[n] = IF n <= Len(one) THEN k1[n] ELSE k2[n - Len(one)]
  <2>1. /\ both \in Seq(ChunkKinds) /\ Len(both) = Len(k1) + Len(k2)
        /\ \A n \in 1..(Len(k1) + Len(k2)) :
             both[n] = IF n <= Len(k1) THEN k1[n] ELSE k2[n - Len(k1)]
    <3>1. k1 \in Seq(ChunkKinds) /\ k2 \in Seq(ChunkKinds)
      BY <1>2
    <3> QED BY <3>1, BothFields
  <2> HIDE DEF both
  <2> QED BY <1>2, <2>1
<1> HIDE DEF both
<1>4. ASSUME NEW n \in 1..Len(both) PROVE both[n] = k3[n]
  <2>1. CASE n <= Len(one)
    <3>1. n \in 1..Len(one) /\ n \in 1..Len(all)
      BY <1>1, <1>3, <2>1
    <3> QED BY <1>1, <1>2, <1>3, <2>1, <3>1
  <2>2. CASE n > Len(one)
    <3>1. PICK m \in 1..Len(other) : m = n - Len(one)
      BY <1>1, <1>3, <2>2
    <3>2. n \in 1..Len(all) /\ n \in 1..(Len(one) + Len(other)) /\ ~(n <= Len(one))
      BY <1>1, <1>3, <2>2
    <3>3. both[n] = k2[m] /\ all[n] = other[m]
      BY <1>1, <1>3, <3>1, <3>2
    <3>4. k2[m] = other[m].kind /\ k3[n] = all[n].kind
      BY <1>2, <3>2
    <3> QED BY <3>3, <3>4
  <2> QED BY <1>1, <1>3, <2>1, <2>2
<1>5. both = k3
  BY <1>1, <1>2, <1>3, <1>4, SequencesEqual
<1> QED BY <1>5 DEF both, k1, k2, k3, all

LEMMA RunBoth ==
  ASSUME NEW one \in Seq(ChunkKinds), NEW other \in Seq(ChunkKinds), Run(one), Run(other)
  PROVE  Run(one \o other)
<1>1. PICK a \in Nat, b \in Nat : /\ a = Len(one) /\ b = Len(other)
                                  /\ DOMAIN one = 1..a /\ DOMAIN other = 1..b
  OBVIOUS
<1> DEFINE all == one \o other
<1>2. /\ all \in Seq(ChunkKinds) /\ Len(all) = a + b /\ DOMAIN all = 1..(a + b)
      /\ \A n \in 1..a : all[n] = one[n]
      /\ \A n \in 1..b : all[n + a] = other[n]
  BY <1>1
<1> HIDE DEF all
<1>3. ASSUME NEW n \in 1..a
      PROVE  /\ all[n] \in BatchKinds =>
                  n < Len(all) /\ all[n + 1] \in {all[n], End(all[n])}
             /\ \A kind \in BatchKinds : all[n] = End(kind) => n > 1 /\ all[n - 1] = kind
  <2>1. /\ one[n] \in BatchKinds => n < a /\ one[n + 1] \in {one[n], End(one[n])}
        /\ \A kind \in BatchKinds : one[n] = End(kind) => n > 1 /\ one[n - 1] = kind
    BY <1>1 DEF Run
  <2>2. n < a => n + 1 \in 1..a
    OBVIOUS
  <2>3. n > 1 => n - 1 \in 1..a
    OBVIOUS
  <2> QED BY <1>2, <2>1, <2>2, <2>3
<1>4. ASSUME NEW m \in 1..b
      PROVE  /\ all[m + a] \in BatchKinds =>
                  m + a < Len(all) /\ all[(m + a) + 1] \in {all[m + a], End(all[m + a])}
             /\ \A kind \in BatchKinds :
                  all[m + a] = End(kind) => m + a > 1 /\ all[(m + a) - 1] = kind
  <2>1. /\ other[m] \in BatchKinds => m < b /\ other[m + 1] \in {other[m], End(other[m])}
        /\ \A kind \in BatchKinds : other[m] = End(kind) => m > 1 /\ other[m - 1] = kind
    BY <1>1 DEF Run
  <2>2. all[m + a] = other[m]
    BY <1>2
  <2>3. m < b => m + 1 \in 1..b /\ (m + a) + 1 = (m + 1) + a
    OBVIOUS
  <2>4. m < b => all[(m + a) + 1] = other[m + 1]
    BY <1>2, <2>3
  <2>5. m > 1 => m - 1 \in 1..b /\ (m + a) - 1 = (m - 1) + a
    OBVIOUS
  <2>6. m > 1 => all[(m + a) - 1] = other[m - 1]
    BY <1>2, <2>5
  <2>7. (m < b => m + a < Len(all)) /\ (m > 1 => m + a > 1)
    BY <1>2
  <2> QED BY <2>1, <2>2, <2>4, <2>6, <2>7
<1>5. ASSUME NEW n \in DOMAIN all
      PROVE  /\ all[n] \in BatchKinds =>
                  n < Len(all) /\ all[n + 1] \in {all[n], End(all[n])}
             /\ \A kind \in BatchKinds : all[n] = End(kind) => n > 1 /\ all[n - 1] = kind
  <2>1. CASE n <= a
    BY <1>2, <1>3, <2>1
  <2>2. CASE n > a
    <3>1. PICK m \in 1..b : n = m + a
      <4>1. n - a \in 1..b /\ n = (n - a) + a
        BY <1>2, <2>2
      <4> QED BY <4>1
    <3> QED BY <1>4, <3>1
  <2> QED BY <1>2, <2>1, <2>2
<1>6. Run(all)
  BY <1>5 DEF Run
<1> QED BY <1>6 DEF all

LEMMA InstructionRuns ==
  ASSUME NEW kind \in {"clean", "cleanPartitions", "deleteTable"}, NEW changed \in Partial(Content)
  PROVE  Run(KindsOf(Instruction(kind, changed)))
<1>1. /\ Instruction(kind, changed) \in Seq(Chunk) /\ Len(Instruction(kind, changed)) = 1
      /\ Instruction(kind, changed)[1] = [kind |-> kind, rows |-> changed]
  BY NothingType, InstructionFollows
<1>2. /\ DOMAIN KindsOf(Instruction(kind, changed)) = 1..1
      /\ KindsOf(Instruction(kind, changed))[1] = kind
  BY <1>1, KindsType
<1>3. kind \notin BatchKinds /\ \A other \in BatchKinds : kind # End(other)
  BY EndKinds DEF BatchKinds
<1> QED BY <1>2, <1>3 DEF Run

LEMMA BatchRuns ==
  ASSUME NEW kind \in BatchKinds, NEW changed \in Partial(Content)
  PROVE  /\ Batch(kind, changed) \in Seq(Chunk)
         /\ Run(KindsOf(Batch(kind, changed)))
<1>1. CASE DOMAIN changed = {}
  <2>1. Batch(kind, changed) = <<>>
    BY <1>1 DEF Batch
  <2>2. DOMAIN KindsOf(<<>>) = {}
    BY DEF KindsOf
  <2> QED BY <2>1, <2>2 DEF Run
<1>2. CASE DOMAIN changed # {}
  <2>1. PICK count \in Nat \ {0} :
          \E part \in [1..count -> SUBSET DOMAIN changed] :
             Cut(kind, changed) =
               [n \in 1..count |-> [kind |-> kind, rows |-> Restrict(changed, part[n])]]
    BY <1>2, CutFields
  <2>2. PICK part \in [1..count -> SUBSET DOMAIN changed] :
          Cut(kind, changed) =
            [n \in 1..count |-> [kind |-> kind, rows |-> Restrict(changed, part[n])]]
    BY <2>1
  <2> DEFINE cut == Cut(kind, changed)
             end == [kind |-> End(kind), rows |-> Nothing]
  <2>3. \A n \in 1..count : [kind |-> kind, rows |-> Restrict(changed, part[n])] \in Chunk
    BY Restricted, ChunkType
  <2>4. /\ cut \in [1..count -> Chunk] /\ \A n \in 1..count : cut[n].kind = kind
    BY <2>2, <2>3
  <2>5. cut \in Seq(Chunk) /\ Len(cut) = count
    BY <2>4, SequenceType
  <2>6. end \in Chunk /\ end.kind = End(kind)
    BY EndKinds, NothingType, ChunkType
  <2>7. Batch(kind, changed) = cut \o <<end>>
    BY <1>2 DEF Batch, Instruction
  <2> HIDE DEF cut, end
  <2> DEFINE all == cut \o <<end>>
  <2>8. /\ all \in Seq(Chunk) /\ Len(all) = count + 1 /\ all[count + 1] = end
        /\ \A n \in 1..count : all[n] = cut[n]
    BY <2>5, <2>6
  <2> HIDE DEF all
  <2> DEFINE kinds == KindsOf(all)
  <2>9. /\ DOMAIN kinds = 1..(count + 1) /\ Len(kinds) = count + 1
        /\ \A n \in 1..count : kinds[n] = kind
        /\ kinds[count + 1] = End(kind)
    <3>1. /\ DOMAIN kinds = 1..(count + 1) /\ kinds \in Seq(ChunkKinds)
          /\ Len(kinds) = count + 1 /\ \A n \in 1..(count + 1) : kinds[n] = all[n].kind
      BY <2>8, KindsType
    <3> HIDE DEF kinds
    <3>2. \A n \in 1..count : n \in 1..(count + 1) /\ all[n].kind = kind
      BY <2>4, <2>8
    <3>3. count + 1 \in 1..(count + 1) /\ all[count + 1].kind = End(kind)
      BY <2>6, <2>8
    <3> QED BY <3>1, <3>2, <3>3
  <2> HIDE DEF kinds
  <2>10. ASSUME NEW n \in 1..(count + 1)
         PROVE  /\ kinds[n] \in BatchKinds =>
                     n < Len(kinds) /\ kinds[n + 1] \in {kinds[n], End(kinds[n])}
                /\ \A other \in BatchKinds : kinds[n] = End(other) => n > 1 /\ kinds[n - 1] = other
    <3>1. CASE n <= count
      <4>1. kinds[n] = kind /\ \A other \in BatchKinds : kind # End(other)
        BY <2>9, <3>1, EndKinds
      <4>2. kinds[n + 1] \in {kind, End(kind)}
        BY <2>9, <3>1
      <4> QED BY <2>9, <3>1, <4>1, <4>2
    <3>2. CASE n = count + 1
      <4>1. kinds[n] = End(kind) /\ End(kind) \notin BatchKinds
        BY <2>9, <3>2, EndKinds
      <4>2. n > 1 /\ kinds[n - 1] = kind
        BY <2>9, <3>2
      <4>3. \A other \in BatchKinds : End(kind) = End(other) => kind = other
        BY EndKinds
      <4> QED BY <4>1, <4>2, <4>3
    <3> QED BY <3>1, <3>2
  <2>11. Run(kinds)
    BY <2>9, <2>10 DEF Run
  <2> QED BY <2>7, <2>8, <2>11 DEF all, kinds
<1> QED BY <1>1, <1>2

LEMMA ChangesRun ==
  ASSUME NEW change \in GoodChange
  PROVE  Run(KindsOf(ChunksOf(change)))
<1>0. /\ change.kind \in ChangeKinds /\ change.rows \in Partial(Content)
      /\ "update" \in BatchKinds /\ Nothing \in Partial(Content) /\ NoRows \in Contents
  BY NothingType DEF GoodChange, BatchKinds
<1>1. CASE change.kind \in BatchKinds
  <2>1. ChunksOf(change) = Batch(change.kind, change.rows)
    BY <1>1 DEF ChunksOf, BatchKinds
  <2> QED BY <1>0, <1>1, <2>1, BatchRuns
<1>2. CASE change.kind = "cleanPartitions"
  <2>1. ChunksOf(change) = Instruction("cleanPartitions", change.rows)
    BY <1>2 DEF ChunksOf
  <2> QED BY <1>0, <2>1, InstructionRuns
<1>3. CASE change.kind = "clean"
  <2>1. ChunksOf(change) = Instruction("clean", Nothing) \o Batch("update", change.rows)
    BY <1>3 DEF ChunksOf
  <2>2. Instruction("clean", Nothing) \in Seq(Chunk)
    BY <1>0, InstructionFollows
  <2>3. Batch("update", change.rows) \in Seq(Chunk) /\ Run(KindsOf(Batch("update", change.rows)))
    BY <1>0, BatchRuns
  <2>4. Run(KindsOf(Instruction("clean", Nothing)))
    BY <1>0, InstructionRuns
  <2> QED BY <2>1, <2>2, <2>3, <2>4, KindsType, KindsBoth, RunBoth
<1> QED BY <1>0, <1>1, <1>2, <1>3 DEF ChangeKinds, BatchKinds

(* What the chunks of a call make of a cache: the values of what was touched.*)
Retold(cache, touched, val) == [k \in Keys |-> IF k \in touched THEN val[k] ELSE cache[k]]

Tells(chunks, touched, val) ==
  \A cache \in Contents : Follows(Fresh(cache), chunks, Fresh(Retold(cache, touched, val)))

LEMMA RetoldFields ==
  ASSUME NEW cache \in Contents, NEW touched, NEW val \in Contents
  PROVE  /\ Retold(cache, touched, val) \in Contents
         /\ \A k \in Keys :
              Retold(cache, touched, val)[k] = IF k \in touched THEN val[k] ELSE cache[k]
BY DEF Retold, Contents

GoodCall(content, call) ==
  /\ call.rows \in Contents /\ call.touched \in SUBSET Keys
  /\ call.chunks \in Seq(Chunk) /\ call.chunks # <<>>
  /\ Run(KindsOf(call.chunks))
  /\ Tells(call.chunks, call.touched, call.rows)
  /\ \A k \in Keys \ call.touched : call.rows[k] = content[k]

LEMMA SinglesAreGood ==
  ASSUME NEW content \in Contents, NEW change \in GoodChange
  PROVE  GoodCall(content, Single(content, change))
<1> DEFINE call == Single(content, change)
<1>1. /\ call.rows = Applied(content, change) /\ call.touched = Touched(change)
      /\ call.chunks = ChunksOf(change)
  BY DEF Single
<1> HIDE DEF call
<1>2. /\ call.rows \in Contents /\ call.touched \in SUBSET Keys
      /\ \A k \in Keys \ call.touched : call.rows[k] = content[k]
  BY <1>1, AppliedFields
<1>3. call.chunks \in Seq(Chunk) /\ call.chunks # <<>> /\ Run(KindsOf(call.chunks))
  BY <1>1, NothingType, ChangesAreTold, ChangesRun
<1>4. Tells(call.chunks, call.touched, call.rows)
  <2> SUFFICES ASSUME NEW cache \in Contents
               PROVE  Follows(Fresh(cache), call.chunks,
                              Fresh(Retold(cache, call.touched, call.rows)))
    BY DEF Tells
  <2>1. /\ Applied(cache, change) \in Contents
        /\ \A k \in Keys : Applied(cache, change)[k] =
             IF k \in call.touched THEN call.rows[k] ELSE cache[k]
    BY <1>1, AppliedFields, Settled
  <2>2. Applied(cache, change) = Retold(cache, call.touched, call.rows)
    BY <1>2, <2>1, RetoldFields, ContentsEqual
  <2> QED BY <1>1, <2>2, ChangesAreTold
<1>5. GoodCall(content, call)
  BY <1>2, <1>3, <1>4 DEF GoodCall
<1> QED BY <1>5 DEF call

LEMMA GoodCallsFollow ==
  ASSUME NEW content \in Contents, NEW call, GoodCall(content, call), NEW change \in GoodChange
  PROVE  GoodCall(content, AndThen(call, change))
<1> DEFINE both == AndThen(call, change)
<1>1. /\ both.rows = Applied(call.rows, change) /\ both.touched = call.touched \cup Touched(change)
      /\ both.chunks = call.chunks \o ChunksOf(change)
  BY DEF AndThen
<1> HIDE DEF both
<1>0. /\ call.rows \in Contents /\ call.touched \in SUBSET Keys
      /\ call.chunks \in Seq(Chunk) /\ call.chunks # <<>> /\ Run(KindsOf(call.chunks))
      /\ Tells(call.chunks, call.touched, call.rows)
      /\ \A k \in Keys \ call.touched : call.rows[k] = content[k]
  BY DEF GoodCall
<1>2. /\ both.rows \in Contents /\ both.touched \in SUBSET Keys
      /\ \A k \in Keys \ both.touched : both.rows[k] = content[k]
  BY <1>0, <1>1, AppliedFields
<1>3. ChunksOf(change) \in Seq(Chunk) /\ Run(KindsOf(ChunksOf(change)))
  BY NothingType, ChangesAreTold, ChangesRun
<1>4. both.chunks \in Seq(Chunk) /\ both.chunks # <<>>
  <2> DEFINE other == ChunksOf(change) one == call.chunks
  <2>1. one \in Seq(Chunk) /\ other \in Seq(Chunk) /\ one # <<>>
    BY <1>0, <1>3
  <2> HIDE DEF other, one
  <2>2. one \o other \in Seq(Chunk) /\ one \o other # <<>>
    BY <2>1
  <2> QED BY <1>1, <2>2 DEF one, other
<1>5. Run(KindsOf(both.chunks))
  BY <1>0, <1>1, <1>3, KindsType, KindsBoth, RunBoth
<1>6. Tells(both.chunks, both.touched, both.rows)
  <2> SUFFICES ASSUME NEW cache \in Contents
               PROVE  Follows(Fresh(cache), both.chunks,
                              Fresh(Retold(cache, both.touched, both.rows)))
    BY DEF Tells
  <2> DEFINE mid == Retold(cache, call.touched, call.rows)
             told == Retold(cache, both.touched, both.rows)
  <2>1. /\ mid \in Contents /\ told \in Contents
        /\ \A k \in Keys : mid[k] = IF k \in call.touched THEN call.rows[k] ELSE cache[k]
        /\ \A k \in Keys : told[k] = IF k \in both.touched THEN both.rows[k] ELSE cache[k]
    BY <1>0, <1>2, RetoldFields
  <2>2. Follows(Fresh(cache), call.chunks, Fresh(mid))
    BY <1>0 DEF Tells
  <2> HIDE DEF mid, told
  <2>3. Applied(mid, change) = told
    <3>1. Applied(mid, change) \in Contents
      BY <2>1, AppliedFields
    <3>2. ASSUME NEW k \in Keys PROVE Applied(mid, change)[k] = told[k]
      BY <1>0, <1>1, <2>1, AppliedFields
    <3> QED BY <2>1, <3>1, <3>2, ContentsEqual
  <2>4. Follows(Fresh(mid), ChunksOf(change), Fresh(told))
    BY <2>1, <2>3, ChangesAreTold
  <2>5. Follows(Fresh(cache), call.chunks \o ChunksOf(change), Fresh(told))
    BY <1>0, <1>3, <2>2, <2>4, FollowsBoth
  <2> QED BY <1>1, <2>5 DEF told
<1>7. GoodCall(content, both)
  BY <1>2, <1>4, <1>5, <1>6 DEF GoodCall
<1> QED BY <1>7 DEF both

(* Whatever a call is, its chunks tell every cache what it did. *)
LEMMA CallsAreGood ==
  ASSUME NEW content \in Contents, NEW call \in Calls(content)
  PROVE  GoodCall(content, call)
<1>1. CASE call \in {Single(content, only) : only \in Changes(content)}
  <2>1. PICK only \in Changes(content) : call = Single(content, only)
    BY <1>1
  <2> QED BY <2>1, ChangesAreGood, SinglesAreGood
<1>2. CASE call \in UNION {{AndThen(Single(content, first), second) :
                 second \in Actions(Applied(content, first))} : first \in Actions(content)}
  <2>1. PICK first \in Actions(content) :
          call \in {AndThen(Single(content, first), second) :
                      second \in Actions(Applied(content, first))}
    BY <1>2
  <2>2. PICK second \in Actions(Applied(content, first)) :
          call = AndThen(Single(content, first), second)
    BY <2>1
  <2>3. first \in GoodChange
    BY ChangesAreGood
  <2>4. Applied(content, first) \in Contents
    BY <2>3, AppliedFields
  <2>5. second \in GoodChange
    BY <2>4, ChangesAreGood
  <2> QED BY <2>2, <2>3, <2>5, SinglesAreGood, GoodCallsFollow
<1> QED BY <1>1, <1>2 DEF Calls

(* The deletion of a table, too. *)
LEMMA DeletionIsTold ==
  LET chunks == Instruction("deleteTable", Nothing) IN
    /\ chunks \in Seq(Chunk) /\ chunks # <<>> /\ Run(KindsOf(chunks))
    /\ Tells(chunks, Keys, NoRows)
<1> DEFINE chunks == Instruction("deleteTable", Nothing)
<1>1. chunks \in Seq(Chunk) /\ chunks # <<>> /\ Run(KindsOf(chunks))
  BY NothingType, InstructionFollows, InstructionRuns
<1>2. Tells(chunks, Keys, NoRows)
  <2> SUFFICES ASSUME NEW cache \in Contents
               PROVE  Follows(Fresh(cache), chunks, Fresh(Retold(cache, Keys, NoRows)))
    BY DEF Tells
  <2>1. Retold(cache, Keys, NoRows) = NoRows
    BY DEF Retold, NoRows
  <2>2. Follows(Fresh(cache), chunks, Fresh(NoRows))
    BY NothingType, InstructionFollows
  <2> QED BY <2>1, <2>2
<1> QED BY <1>1, <1>2


-----------------------------------------------------------------------------
(* The inductive invariant.                                                  *)

WriterStates == {"idle", "resolved", "removed", "announce", "push"}
Before == {"greeted", "missing", "registered", "found"}
After == {"ready", "pop", "wait", "popAgain", "answered"}
Writing == [at : WriterStates, inst : Instances \cup {NONE}, touched : SUBSET Keys,
            chunks : Seq(Chunk), to : SUBSET Sessions, notify : SUBSET Sessions]
Session == [live : BOOLEAN, subscribed : BOOLEAN, queue : Seq(Chunk), overflowed : BOOLEAN,
            permit : BOOLEAN]
Reading == [at : {"away"} \cup Before \cup After, inst : Instances \cup {NONE},
            chunk : Chunk \cup {NONE}, cache : Contents, kind : BatchKinds \cup {NONE},
            batch : Partial(Content)]

Typed ==
  /\ table \in Instances \cup {NONE}
  /\ rows \in [Instances -> Contents]
  /\ writer \in [Writers -> Writing]
  /\ session \in [Sessions -> Session]
  /\ reader \in [Sessions -> Reading]
  /\ writes \in 0 .. MaxWrites
  /\ disputed \in [Sessions -> SUBSET Keys]

WriterWorks(w) ==
  /\ writer[w].at \in {"resolved", "removed"} => writer[w].inst \in Instances
  /\ writer[w].at = "removed" => writer[w].inst # table /\ writer[w].touched = Keys
  /\ writer[w].at \in {"announce", "push"} => writer[w].chunks # <<>>
  /\ Run(KindsOf(writer[w].chunks))
  /\ writer[w].to # {} => writer[w].at = "push"
  /\ writer[w].notify # {} =>
       writer[w].at = "push" /\ \E s \in Sessions : writer[w].notify = {s}

ReaderWorks(s) ==
  /\ Len(session[s].queue) <= MaxQueuedChunks
  /\ reader[s].at = "answered" => reader[s].chunk \in Chunk
  /\ reader[s].at = "found" => reader[s].inst \in Instances
  /\ reader[s].at \in Before => View(reader[s]) = Fresh(NoRows)
  /\ (reader[s].at # "away" /\ ~session[s].subscribed) =>
       /\ reader[s].at \in Before \ {"registered"} /\ session[s].queue = <<>>
       /\ \A w \in Writers : s \notin writer[w].to

(* A poll that waits, or is about to, is or will be woken. *)
Woken(s) ==
  (\/ reader[s].at = "wait" /\ session[s].queue # <<>>
   \/ reader[s].at \in {"pop", "wait"} /\ session[s].overflowed)
    => session[s].permit \/ \E w \in Writers : s \in writer[w].notify

Whole(s) == (reader[s].at # "away" /\ ~session[s].overflowed) => Run(Ahead(s))

(* What a writer is about to tell is so, but for what is in dispute. *)
Truthful(w) ==
  writer[w].at \in {"removed", "announce", "push"} =>
    \E val \in Contents :
      /\ writer[w].at = "removed" => val = NoRows
      /\ writer[w].at # "removed" => Tells(writer[w].chunks, writer[w].touched, val)
      /\ \A s \in Sessions : Owes(w, s) =>
           \A k \in writer[w].touched \ disputed[s] : val[k] = Current[k]

(* What nobody contests and nobody has yet to tell. *)
Known(s) == Keys \ (disputed[s] \cup Unannounced(s, Writers))

Coming(s) ==
  IF reader[s].at = "answered" THEN <<reader[s].chunk>> \o session[s].queue ELSE session[s].queue

(* The cache once everything on its way has been taken in. *)
Told(s) ==
  (session[s].live /\ ~session[s].overflowed) =>
    /\ reader[s].at \in Before =>
         \A cache \in Contents : \E then \in Contents :
           /\ Follows(Fresh(cache), session[s].queue, Fresh(then))
           /\ \A k \in Known(s) : cache[k] = Current[k] => then[k] = Current[k]
    /\ reader[s].at \in After =>
         \E then \in Contents :
           /\ Follows(View(reader[s]), Coming(s), Fresh(then))
           /\ \A k \in Known(s) : then[k] = Current[k]

IInv ==
  /\ Typed
  /\ \A w \in Writers : WriterWorks(w) /\ Truthful(w)
  /\ \A s \in Sessions : ReaderWorks(s) /\ Woken(s) /\ Whole(s) /\ Told(s)


-----------------------------------------------------------------------------
(* What a step leaves alone.                                                 *)

LEMMA NewRecords ==
  /\ NewWriter \in Writing /\ NewSession \in Session /\ NewReader \in Reading
  /\ NewWriter.chunks = <<>> /\ Run(KindsOf(<<>>))
<1>1. NewWriter \in Writing /\ NewSession \in Session
  BY DEF NewWriter, NewSession, Writing, Session, WriterStates
<1>2. NewReader \in Reading
  BY NothingType DEF NewReader, Reading, Before, After
<1>3. NewWriter.chunks = <<>>
  BY DEF NewWriter
<1>4. Run(KindsOf(<<>>))
  BY DEF Run, KindsOf
<1> QED BY <1>1, <1>2, <1>3, <1>4

LEMMA TurnFields ==
  ASSUME NEW w \in Writers, NEW next \in Writing, writer \in [Writers -> Writing], Turns(w, next)
  PROVE  /\ writer' \in [Writers -> Writing] /\ writer'[w] = next
         /\ \A u \in Writers \ {w} : writer'[u] = writer[u]
BY DEF Turns

LEMMA ReadFields ==
  ASSUME NEW s \in Sessions, NEW next \in Reading, reader \in [Sessions -> Reading], Reads(s, next)
  PROVE  /\ reader' \in [Sessions -> Reading] /\ reader'[s] = next
         /\ \A t \in Sessions \ {s} : reader'[t] = reader[t]
BY DEF Reads

LEMMA SessionFields ==
  ASSUME NEW s \in Sessions, NEW next \in Session, session \in [Sessions -> Session],
         session' = [session EXCEPT ![s] = next]
  PROVE  /\ session' \in [Sessions -> Session] /\ session'[s] = next
         /\ \A t \in Sessions \ {s} : session'[t] = session[t]
OBVIOUS

LEMMA WriterKeeps ==
  ASSUME NEW w \in Writers, WriterWorks(w), writer'[w] = writer[w],
         writer[w].at = "removed" => writer[w].inst # table'
  PROVE  WriterWorks(w)'
BY DEF WriterWorks

LEMMA TruthKeeps ==
  ASSUME NEW w \in Writers, Truthful(w), writer'[w] = writer[w],
         \A s \in Sessions : Owes(w, s) =>
           \A k \in writer[w].touched \ disputed'[s] : k \notin disputed[s] /\ Current'[k] = Current[k]
  PROVE  Truthful(w)'
BY DEF Truthful, Owes

LEMMA ReaderKeeps ==
  ASSUME NEW s \in Sessions, ReaderWorks(s), reader'[s] = reader[s], session'[s] = session[s],
         (reader[s].at # "away" /\ ~session[s].subscribed) =>
           \A w \in Writers : s \in writer'[w].to => s \in writer[w].to
  PROVE  ReaderWorks(s)'
BY DEF ReaderWorks

LEMMA WakingKeeps ==
  ASSUME NEW s \in Sessions, Woken(s), reader'[s] = reader[s], session'[s] = session[s],
         \A w \in Writers : s \in writer[w].notify => s \in writer'[w].notify
  PROVE  Woken(s)'
BY DEF Woken

LEMMA WholeKeeps ==
  ASSUME NEW s \in Sessions, Whole(s), reader'[s] = reader[s], session'[s] = session[s]
  PROVE  Whole(s)'
BY DEF Whole, Ahead

LEMMA ToldKeeps ==
  ASSUME NEW s \in Sessions, Told(s), reader'[s] = reader[s], session'[s] = session[s],
         \A k \in Known(s)' : k \in Known(s) /\ Current'[k] = Current[k]
  PROVE  Told(s)'
BY DEF Told, Coming

(* Of a session that has not been told anything yet nothing has to be known. *)
LEMMA NothingTold ==
  ASSUME NEW s \in Sessions, reader[s].at \in Before, session[s].queue = <<>>
  PROVE  Told(s)
<1>1. ASSUME NEW cache \in Contents PROVE Follows(Fresh(cache), <<>>, Fresh(cache))
  BY FreshType, FollowsNothing
<1>2. reader[s].at \notin After
  BY DEF Before, After
<1> QED BY <1>1, <1>2 DEF Told

LEMMA KnownFields ==
  ASSUME NEW s \in Sessions, NEW k \in Keys
  PROVE  k \in Known(s) <=> /\ k \notin disputed[s]
                            /\ \A w \in Writers : Owes(w, s) => k \notin writer[w].touched
BY DEF Known, Unannounced

(* A step of the reader of one session. *)
LEMMA ReaderSide ==
  ASSUME IInv, Typed', NEW s \in Sessions, UNCHANGED <<table, rows, writer>>,
         \A t \in Sessions \ {s} :
           reader'[t] = reader[t] /\ session'[t] = session[t] /\ disputed'[t] = disputed[t],
         disputed[s] \cap Unannounced(s, Writers) \subseteq disputed'[s],
         ReaderWorks(s)', Woken(s)', Whole(s)', Told(s)'
  PROVE  IInv'
<1>1. Current' = Current
  BY DEF Current
<1>2. ASSUME NEW w \in Writers PROVE WriterWorks(w)'
  <2>1. WriterWorks(w) /\ writer'[w] = writer[w]
    BY DEF IInv
  <2>2. writer[w].at = "removed" => writer[w].inst # table'
    BY <2>1 DEF WriterWorks
  <2> QED BY <2>1, <2>2, WriterKeeps
<1>3. ASSUME NEW w \in Writers PROVE Truthful(w)'
  <2>1. ASSUME NEW t \in Sessions, Owes(w, t), NEW k \in writer[w].touched \ disputed'[t]
        PROVE  k \notin disputed[t]
    <3>1. CASE t = s
      BY <2>1, <3>1 DEF Unannounced
    <3> QED BY <2>1, <3>1
  <2> QED BY <1>1, <2>1, TruthKeeps DEF IInv
<1>4. ASSUME NEW t \in Sessions PROVE ReaderWorks(t)' /\ Woken(t)' /\ Whole(t)' /\ Told(t)'
  <2>1. CASE t = s
    BY <2>1
  <2>2. CASE t # s
    <3>1. reader'[t] = reader[t] /\ session'[t] = session[t] /\ disputed'[t] = disputed[t]
      BY <2>2
    <3>2. ReaderWorks(t) /\ Woken(t) /\ Whole(t) /\ Told(t)
      BY DEF IInv
    <3>3. Known(t)' = Known(t)
      BY <3>1 DEF Known, Unannounced, Owes
    <3>4. ReaderWorks(t)'
      BY <3>1, <3>2, ReaderKeeps
    <3>5. Woken(t)'
      BY <3>1, <3>2, WakingKeeps
    <3>6. Whole(t)'
      BY <3>1, <3>2, WholeKeeps
    <3>7. Told(t)'
      BY <1>1, <3>1, <3>2, <3>3, ToldKeeps
    <3> QED BY <3>4, <3>5, <3>6, <3>7
  <2> QED BY <2>1, <2>2
<1> QED BY <1>2, <1>3, <1>4 DEF IInv

(* A step of a writer that no session sees. *)
LEMMA WriterSide ==
  ASSUME IInv, Typed', NEW w \in Writers, UNCHANGED <<session, reader>>,
         \A u \in Writers \ {w} : writer'[u] = writer[u],
         \A u \in Writers \ {w} : writer[u].at = "removed" => writer[u].inst # table',
         writer[w].notify = {},
         \A s \in Sessions : s \in writer'[w].to => s \in Subscribed \/ s \in writer[w].to,
         WriterWorks(w)', Truthful(w)',
         \A u \in Writers \ {w}, s \in Sessions : Owes(u, s) =>
           \A k \in writer[u].touched \ disputed'[s] : k \notin disputed[s] /\ Current'[k] = Current[k],
         \A s \in Sessions : (session[s].live /\ reader[s].at # "away") =>
           \/ ~session[s].subscribed
           \/ \A k \in Known(s)' : k \in Known(s) /\ Current'[k] = Current[k]
  PROVE  IInv'
<1>1. ASSUME NEW u \in Writers PROVE WriterWorks(u)' /\ Truthful(u)'
  <2>1. CASE u = w
    BY <2>1
  <2>2. CASE u # w
    <3>1. WriterWorks(u) /\ Truthful(u) /\ writer'[u] = writer[u]
      BY <2>2 DEF IInv
    <3>2. WriterWorks(u)'
      BY <2>2, <3>1, WriterKeeps
    <3>3. Truthful(u)'
      BY <2>2, <3>1, TruthKeeps
    <3> QED BY <3>2, <3>3
  <2> QED BY <2>1, <2>2
<1>2. ASSUME NEW s \in Sessions PROVE ReaderWorks(s)' /\ Woken(s)' /\ Whole(s)' /\ Told(s)'
  <2>1. /\ ReaderWorks(s) /\ Woken(s) /\ Whole(s) /\ Told(s)
        /\ reader'[s] = reader[s] /\ session'[s] = session[s]
    BY DEF IInv
  <2>2. ReaderWorks(s)'
    <3>1. ASSUME ~session[s].subscribed, NEW u \in Writers, s \in writer'[u].to
          PROVE  s \in writer[u].to
      BY <3>1 DEF Subscribed
    <3> QED BY <2>1, <3>1, ReaderKeeps
  <2>3. Woken(s)'
    <3>1. ASSUME NEW u \in Writers, s \in writer[u].notify PROVE s \in writer'[u].notify
      BY <3>1
    <3> QED BY <2>1, <3>1, WakingKeeps
  <2>4. Whole(s)'
    BY <2>1, WholeKeeps
  <2>5. Told(s)'
    <3>1. CASE session[s].live /\ reader[s].at # "away" /\ ~session[s].subscribed
      <4>1. reader[s].at \in Before /\ session[s].queue = <<>>
        BY <2>1, <3>1 DEF ReaderWorks
      <4>2. (reader[s].at \in Before /\ session[s].queue = <<>>)'
        BY <2>1, <4>1
      <4>3. (reader[s].at \in Before /\ session[s].queue = <<>>) => Told(s)
        BY NothingTold
      <4>4. (reader[s].at \in Before /\ session[s].queue = <<>>)' => Told(s)'
        BY NothingTold, PTL
      <4> QED BY <4>2, <4>4
    <3>2. CASE session[s].live /\ reader[s].at # "away" /\ session[s].subscribed
      BY <2>1, <3>2, ToldKeeps
    <3>3. CASE ~session[s].live \/ reader[s].at = "away"
      BY <2>1, <3>3 DEF Told, Before, After
    <3> QED BY <3>1, <3>2, <3>3
  <2> QED BY <2>2, <2>3, <2>4, <2>5
<1> QED BY <1>1, <1>2 DEF IInv


-----------------------------------------------------------------------------
(* The invariant is inductive: the writers.                                  *)

LEMMA InitHolds == Init => IInv
<1> SUFFICES ASSUME Init PROVE IInv
  OBVIOUS
<1>1. Typed
  <2>1. NoRows \in Contents
    BY NothingType
  <2> QED BY <2>1, NewRecords, BoundAssumption DEF Init, Typed
<1>2. ASSUME NEW w \in Writers PROVE WriterWorks(w) /\ Truthful(w)
  <2>1. writer[w] = NewWriter
    BY DEF Init
  <2>2. /\ writer[w].at = "idle" /\ writer[w].to = {} /\ writer[w].notify = {}
        /\ writer[w].chunks = <<>>
    BY <2>1 DEF NewWriter
  <2>3. WriterWorks(w)
    BY <2>2, NewRecords DEF WriterWorks
  <2> QED BY <2>2, <2>3 DEF Truthful
<1>3. ASSUME NEW s \in Sessions PROVE ReaderWorks(s) /\ Woken(s) /\ Whole(s) /\ Told(s)
  <2>1. session[s] = NewSession /\ reader[s] = NewReader
    BY DEF Init
  <2>2. /\ reader[s].at = "away" /\ session[s].queue = <<>> /\ session[s].live = FALSE
    BY <2>1 DEF NewSession, NewReader
  <2>3. Len(<<>>) = 0 /\ 0 <= MaxQueuedChunks
    BY CeilingAssumption
  <2>4. ReaderWorks(s)
    BY <2>2, <2>3 DEF ReaderWorks, Before
  <2> QED BY <2>2, <2>4 DEF Woken, Whole, Told
<1> QED BY <1>1, <1>2, <1>3 DEF IInv

(* A writer that owes nothing, before and after. *)
LEMMA QuietTurn ==
  ASSUME IInv, NEW w \in Writers, NEW next \in Writing, Turns(w, next),
         UNCHANGED <<table, rows, session, reader, writes, disputed>>,
         (writer[w].at \in {"idle", "resolved"} \/ (writer[w].at = "push" /\ writer[w].to = {})),
         writer[w].notify = {},
         next.at \in {"idle", "resolved"}, next.to = {}, next.notify = {}, next.chunks = <<>>,
         next.at = "resolved" => next.inst \in Instances
  PROVE  IInv'
<1>1. /\ writer' \in [Writers -> Writing] /\ writer'[w] = next
      /\ \A u \in Writers \ {w} : writer'[u] = writer[u]
  BY TurnFields DEF IInv, Typed
<1>2. Typed'
  BY <1>1 DEF IInv, Typed
<1>3. Current' = Current
  BY DEF Current
<1>4. WriterWorks(w)' /\ Truthful(w)'
  BY <1>1, NewRecords DEF WriterWorks, Truthful
<1>5. writer[w].to = {}
  BY DEF IInv, WriterWorks
<1>6. ASSUME NEW s \in Sessions, NEW k \in Known(s)' PROVE k \in Known(s)
  <2>1. ~Owes(w, s)
    BY <1>5 DEF Owes
  <2>2. k \in Keys
    BY DEF Known
  <2>3. k \in Known(s)' => /\ k \notin disputed'[s]
                           /\ \A u \in Writers : Owes(u, s)' => k \notin writer'[u].touched
    BY <2>2 DEF Known, Unannounced
  <2>4. \A u \in Writers : Owes(u, s) => k \notin writer[u].touched
    BY <1>1, <2>1, <2>3 DEF Owes
  <2> QED BY <2>2, <2>3, <2>4, KnownFields
<1>7. \A u \in Writers \ {w} : writer[u].at = "removed" => writer[u].inst # table'
  BY DEF IInv, WriterWorks
<1> QED BY <1>1, <1>2, <1>3, <1>4, <1>6, <1>7, WriterSide

LEMMA ResolveStep ==
  ASSUME IInv, NEW w \in Writers, Resolve(w)
  PROVE  IInv'
<1> DEFINE next == [NewWriter EXCEPT !.at = "resolved", !.inst = table]
<1>1. /\ next \in Writing /\ next.at = "resolved" /\ next.to = {} /\ next.notify = {}
      /\ next.chunks = <<>> /\ next.inst \in Instances
  <2>1. table \in Instances
    BY DEF IInv, Typed, Resolve
  <2> QED BY <2>1, NewRecords DEF NewWriter, Writing, WriterStates
<1>2. writer[w].notify = {}
  BY DEF IInv, WriterWorks, Resolve
<1>3. Turns(w, next)
  BY DEF Resolve
<1> HIDE DEF next
<1> QED BY <1>1, <1>2, <1>3, QuietTurn DEF Resolve

LEMMA NothingToDoStep ==
  ASSUME IInv, NEW w \in Writers, NothingToDo(w)
  PROVE  IInv'
<1>1. /\ NewWriter \in Writing /\ NewWriter.at = "idle" /\ NewWriter.to = {}
      /\ NewWriter.notify = {} /\ NewWriter.chunks = <<>>
  BY NewRecords DEF NewWriter
<1>2. writer[w].notify = {}
  BY DEF IInv, WriterWorks, NothingToDo
<1> QED BY <1>1, <1>2, QuietTurn DEF NothingToDo

LEMMA AnnouncedStep ==
  ASSUME IInv, NEW w \in Writers, Announced(w)
  PROVE  IInv'
<1>1. /\ NewWriter \in Writing /\ NewWriter.at = "idle" /\ NewWriter.to = {}
      /\ NewWriter.notify = {} /\ NewWriter.chunks = <<>>
  BY NewRecords DEF NewWriter
<1> QED BY <1>1, QuietTurn DEF Announced


LEMMA ChangeStep ==
  ASSUME IInv, NEW w \in Writers, writer[w].inst # NONE,
         NEW call \in Calls(rows[writer[w].inst]), Change(w, call)
  PROVE  IInv'
<1> DEFINE inst == writer[w].inst
           next == [writer[w] EXCEPT !.at = "announce", !.touched = call.touched,
                                     !.chunks = call.chunks]
<1>1. writer[w] \in Writing /\ writer[w].at = "resolved" /\ inst \in Instances
  BY DEF IInv, Typed, WriterWorks, Change
<1>2. rows \in [Instances -> Contents] /\ rows[inst] \in Contents
  BY <1>1 DEF IInv, Typed
<1>3. GoodCall(rows[inst], call)
  BY <1>2, CallsAreGood
<1>4. /\ call.rows \in Contents /\ call.touched \in SUBSET Keys
      /\ call.chunks \in Seq(Chunk) /\ call.chunks # <<>> /\ Run(KindsOf(call.chunks))
      /\ Tells(call.chunks, call.touched, call.rows)
      /\ \A k \in Keys \ call.touched : call.rows[k] = rows[inst][k]
  BY <1>3 DEF GoodCall
<1>5. /\ writer[w].to = {} /\ writer[w].notify = {}
  BY <1>1 DEF IInv, WriterWorks
<1>6. next \in Writing
  BY <1>1, <1>4 DEF Writing, WriterStates
<1>7. /\ next.at = "announce" /\ next.inst = inst /\ next.touched = call.touched
      /\ next.chunks = call.chunks /\ next.to = {} /\ next.notify = {}
  BY <1>1, <1>5 DEF Writing
<1>8. Turns(w, next)
  BY DEF Change
<1> HIDE DEF next
<1>9. /\ writer' \in [Writers -> Writing] /\ writer'[w] = next
      /\ \A u \in Writers \ {w} : writer'[u] = writer[u]
  BY <1>6, <1>8, TurnFields DEF IInv, Typed
<1>10. /\ UNCHANGED <<table, session, reader>> /\ writes' \in 0 .. MaxWrites
       /\ rows' = [rows EXCEPT ![inst] = call.rows]
  BY BoundAssumption DEF Change, IInv, Typed
<1>11. /\ rows' \in [Instances -> Contents] /\ rows'[inst] = call.rows
       /\ \A i \in Instances \ {inst} : rows'[i] = rows[i]
  BY <1>1, <1>2, <1>4, <1>10
<1>12. /\ inst = table => Current = rows[inst] /\ Current' = call.rows
       /\ inst # table => Current' = Current
  BY <1>1, <1>10, <1>11, NoneAssumption DEF Current, IInv, Typed
<1>13. \A k \in Keys \ call.touched : Current'[k] = Current[k]
  BY <1>4, <1>12
<1>14. \A s \in Sessions : disputed'[s] =
         (disputed[s] \ call.touched)
         \cup IF inst # table THEN call.touched
              ELSE call.touched \cap Unannounced(s, Writers \ {w})
  BY DEF Change, Dispute
<1>15. disputed' \in [Sessions -> SUBSET Keys]
  <2>1. disputed \in [Sessions -> SUBSET Keys]
    BY DEF IInv, Typed
  <2>2. \A s \in Sessions : disputed'[s] \subseteq Keys
    BY <1>4, <1>14, <2>1
  <2>3. disputed' = [s \in Sessions |-> disputed'[s]]
    BY DEF Change, Dispute
  <2> QED BY <2>2, <2>3
<1>16. Typed'
  BY <1>9, <1>10, <1>11, <1>15 DEF IInv, Typed
<1>17. WriterWorks(w)'
  BY <1>4, <1>7, <1>9 DEF WriterWorks
<1>18. Truthful(w)'
  <2>1. ASSUME NEW s \in Sessions, NEW k \in call.touched \ disputed'[s]
        PROVE  call.rows[k] = Current'[k]
    BY <1>12, <1>14, <2>1
  <2> QED BY <1>4, <1>7, <1>9, <2>1 DEF Truthful
<1>19. ASSUME NEW u \in Writers \ {w}, NEW s \in Sessions, Owes(u, s),
              NEW k \in writer[u].touched \ disputed'[s]
       PROVE  k \notin disputed[s] /\ Current'[k] = Current[k]
  <2>1. k \in Unannounced(s, Writers \ {w})
    BY <1>19 DEF Unannounced
  <2>2. k \notin call.touched /\ k \notin disputed[s]
    BY <1>14, <1>19, <2>1
  <2>3. k \in Keys
    BY <1>19 DEF IInv, Typed, Writing
  <2> QED BY <1>13, <2>2, <2>3
<1>20. ASSUME NEW s \in Sessions, NEW k \in Known(s)'
       PROVE  k \in Known(s) /\ Current'[k] = Current[k]
  <2>1. /\ k \in Keys /\ k \notin disputed'[s]
        /\ \A u \in Writers : Owes(u, s)' => k \notin writer'[u].touched
    BY DEF Known, Unannounced
  <2>2. k \notin call.touched
    BY <1>7, <1>9, <2>1 DEF Owes
  <2>3. k \notin disputed[s]
    BY <1>14, <2>1, <2>2
  <2>4. ~Owes(w, s)
    BY <1>1, <1>5 DEF Owes
  <2>5. \A u \in Writers : Owes(u, s) => k \notin writer[u].touched
    BY <1>9, <2>1, <2>4 DEF Owes
  <2> QED BY <1>13, <2>1, <2>2, <2>3, <2>5, KnownFields
<1>21. \A u \in Writers \ {w} : writer[u].at = "removed" => writer[u].inst # table'
  BY <1>10 DEF IInv, WriterWorks
<1>22. \A s \in Sessions : s \in writer'[w].to => s \in Subscribed \/ s \in writer[w].to
  BY <1>7, <1>9
<1> QED BY <1>5, <1>9, <1>10, <1>16, <1>17, <1>18, <1>19, <1>20, <1>21, <1>22, WriterSide

LEMMA CreateTableStep ==
  ASSUME IInv, NEW i \in Instances, CreateTable(i)
  PROVE  IInv'
<1>1. /\ UNCHANGED <<writer, session, reader, disputed>> /\ table' = i /\ table = NONE
      /\ writes' \in 0 .. MaxWrites /\ rows' = [rows EXCEPT ![i] = NoRows]
  BY BoundAssumption DEF CreateTable, IInv, Typed
<1>2. rows' \in [Instances -> Contents] /\ rows'[i] = NoRows
  BY <1>1, NothingType DEF IInv, Typed
<1>3. Typed'
  BY <1>1, <1>2 DEF IInv, Typed
<1>4. Current' = Current
  BY <1>1, <1>2, NoneAssumption DEF Current
<1>5. ASSUME NEW w \in Writers PROVE WriterWorks(w)' /\ Truthful(w)'
  <2>1. WriterWorks(w) /\ Truthful(w) /\ writer'[w] = writer[w] /\ writer[w].inst # table'
    BY <1>1 DEF IInv, CreateTable, Unused
  <2>2. WriterWorks(w)'
    BY <2>1, WriterKeeps
  <2>3. Truthful(w)'
    BY <1>1, <1>4, <2>1, TruthKeeps
  <2> QED BY <2>2, <2>3
<1>6. ASSUME NEW s \in Sessions PROVE ReaderWorks(s)' /\ Woken(s)' /\ Whole(s)' /\ Told(s)'
  <2>1. /\ ReaderWorks(s) /\ Woken(s) /\ Whole(s) /\ Told(s)
        /\ reader'[s] = reader[s] /\ session'[s] = session[s]
    BY <1>1 DEF IInv
  <2>2. ReaderWorks(s)'
    BY <1>1, <2>1, ReaderKeeps
  <2>3. Woken(s)'
    BY <1>1, <2>1, WakingKeeps
  <2>4. Whole(s)'
    BY <2>1, WholeKeeps
  <2>5. Known(s)' = Known(s)
    BY <1>1 DEF Known, Unannounced, Owes
  <2>6. Told(s)'
    BY <1>4, <2>1, <2>5, ToldKeeps
  <2> QED BY <2>2, <2>3, <2>4, <2>6
<1> QED BY <1>3, <1>5, <1>6 DEF IInv

LEMMA DeleteTableStep ==
  ASSUME IInv, NEW w \in Writers, DeleteTable(w)
  PROVE  IInv'
<1> DEFINE next == [NewWriter EXCEPT !.at = "removed", !.inst = table, !.touched = Keys]
<1>1. table \in Instances /\ table # NONE
  BY DEF IInv, Typed, DeleteTable
<1>2. /\ next \in Writing /\ next.at = "removed" /\ next.inst = table /\ next.touched = Keys
      /\ next.chunks = <<>> /\ next.to = {} /\ next.notify = {}
  BY <1>1, NewRecords DEF NewWriter, Writing, WriterStates
<1>3. Turns(w, next)
  BY DEF DeleteTable
<1> HIDE DEF next
<1>4. /\ writer' \in [Writers -> Writing] /\ writer'[w] = next
      /\ \A u \in Writers \ {w} : writer'[u] = writer[u]
  BY <1>2, <1>3, TurnFields DEF IInv, Typed
<1>5. /\ UNCHANGED <<rows, session, reader>> /\ table' = NONE /\ writes' \in 0 .. MaxWrites
      /\ disputed' = [s \in Sessions |-> Unannounced(s, Writers \ {w})]
  BY BoundAssumption DEF DeleteTable, IInv, Typed
<1>6. Current' = NoRows
  BY <1>5 DEF Current
<1>7. \A s \in Sessions : disputed'[s] \subseteq Keys
  BY <1>5 DEF Unannounced, IInv, Typed, Writing
<1>8. Typed'
  BY <1>4, <1>5, <1>7 DEF IInv, Typed
<1>9. WriterWorks(w)'
  BY <1>1, <1>2, <1>4, <1>5, NewRecords DEF WriterWorks
<1>10. Truthful(w)'
  BY <1>2, <1>4, <1>6, NothingType DEF Truthful
<1>11. ASSUME NEW u \in Writers \ {w}, NEW s \in Sessions, Owes(u, s)
       PROVE  writer[u].touched \subseteq disputed'[s]
  BY <1>5, <1>11 DEF Unannounced
<1>12. ASSUME NEW s \in Sessions PROVE Known(s)' = {}
  <2>1. Owes(w, s)' /\ writer'[w].touched = Keys
    BY <1>2, <1>4 DEF Owes
  <2> QED BY <2>1 DEF Known, Unannounced
<1>13. \A u \in Writers \ {w} : writer[u].at = "removed" => writer[u].inst # table'
  BY <1>5, NoneAssumption DEF IInv, WriterWorks
<1>14. writer[w].notify = {}
  BY DEF IInv, WriterWorks, DeleteTable
<1>15. \A s \in Sessions : s \in writer'[w].to => s \in Subscribed \/ s \in writer[w].to
  BY <1>2, <1>4
<1> QED BY <1>4, <1>5, <1>8, <1>9, <1>10, <1>11, <1>12, <1>13, <1>14, <1>15, WriterSide

LEMMA CleanDeletedStep ==
  ASSUME IInv, NEW w \in Writers, CleanDeleted(w)
  PROVE  IInv'
<1> DEFINE chunks == Instruction("deleteTable", Nothing)
           next == [writer[w] EXCEPT !.at = "announce", !.chunks = chunks]
<1>1. /\ writer[w] \in Writing /\ writer[w].at = "removed" /\ writer[w].inst \in Instances
      /\ writer[w].inst # table /\ writer[w].touched = Keys
      /\ writer[w].to = {} /\ writer[w].notify = {}
  BY DEF IInv, Typed, WriterWorks, CleanDeleted
<1>2. /\ chunks \in Seq(Chunk) /\ chunks # <<>> /\ Run(KindsOf(chunks))
      /\ Tells(chunks, Keys, NoRows)
  BY DeletionIsTold
<1>3. Turns(w, next)
  BY DEF CleanDeleted
<1> HIDE DEF chunks
<1>4. /\ next \in Writing /\ next.at = "announce" /\ next.touched = Keys
      /\ next.chunks = chunks /\ next.to = {} /\ next.notify = {}
  BY <1>1, <1>2 DEF Writing, WriterStates
<1> HIDE DEF next
<1>5. /\ writer' \in [Writers -> Writing] /\ writer'[w] = next
      /\ \A u \in Writers \ {w} : writer'[u] = writer[u]
  BY <1>3, <1>4, TurnFields DEF IInv, Typed
<1>6. /\ UNCHANGED <<table, session, reader, writes, disputed>>
      /\ rows' = [rows EXCEPT ![writer[w].inst] = NoRows]
  BY DEF CleanDeleted
<1>7. /\ rows' \in [Instances -> Contents]
      /\ \A i \in Instances \ {writer[w].inst} : rows'[i] = rows[i]
  BY <1>1, <1>6, NothingType DEF IInv, Typed
<1>8. Current' = Current
  BY <1>1, <1>6, <1>7 DEF Current, IInv, Typed
<1>9. Typed'
  BY <1>5, <1>6, <1>7 DEF IInv, Typed
<1>10. WriterWorks(w)'
  BY <1>2, <1>4, <1>5 DEF WriterWorks
<1>11. Truthful(w)'
  <2>1. \A s \in Sessions : \A k \in Keys \ disputed[s] : NoRows[k] = Current[k]
    BY <1>1 DEF IInv, Truthful, Owes
  <2> QED BY <1>2, <1>4, <1>5, <1>6, <1>8, <2>1, NothingType DEF Truthful
<1>12. ASSUME NEW s \in Sessions PROVE Known(s)' = {}
  <2>1. Owes(w, s)' /\ writer'[w].touched = Keys
    BY <1>4, <1>5 DEF Owes
  <2> QED BY <2>1 DEF Known, Unannounced
<1>13. \A u \in Writers \ {w} : writer[u].at = "removed" => writer[u].inst # table'
  BY <1>6 DEF IInv, WriterWorks
<1>14. \A s \in Sessions : s \in writer'[w].to => s \in Subscribed \/ s \in writer[w].to
  BY <1>4, <1>5
<1> QED BY <1>1, <1>5, <1>6, <1>8, <1>9, <1>10, <1>11, <1>12, <1>13, <1>14, WriterSide


LEMMA AnnounceStep ==
  ASSUME IInv, NEW w \in Writers, Announce(w)
  PROVE  IInv'
<1> DEFINE next == IF Subscribed = {} \/ writer[w].chunks = <<>> THEN NewWriter
                   ELSE [writer[w] EXCEPT !.at = "push", !.to = Subscribed]
<1>1. /\ writer[w] \in Writing /\ writer[w].at = "announce" /\ writer[w].chunks # <<>>
      /\ Run(KindsOf(writer[w].chunks)) /\ writer[w].to = {} /\ writer[w].notify = {}
  BY DEF IInv, Typed, WriterWorks, Announce
<1>2. Subscribed \in SUBSET Sessions
  BY DEF Subscribed
<1>3. CASE Subscribed = {}
  <2>1. next \in Writing /\ next.at = "idle" /\ next.to = {} /\ next.notify = {}
        /\ next.chunks = <<>>
    BY <1>3, NewRecords DEF NewWriter
  <2>2. Turns(w, next)
    BY DEF Announce
  <2> HIDE DEF next
  <2>3. /\ writer' \in [Writers -> Writing] /\ writer'[w] = next
        /\ \A u \in Writers \ {w} : writer'[u] = writer[u]
    BY <2>1, <2>2, TurnFields DEF IInv, Typed
  <2>4. UNCHANGED <<table, rows, session, reader, writes, disputed>>
    BY DEF Announce
  <2>5. Current' = Current
    BY <2>4 DEF Current
  <2>6. Typed'
    BY <2>3, <2>4 DEF IInv, Typed
  <2>7. WriterWorks(w)' /\ Truthful(w)'
    BY <2>1, <2>3, NewRecords DEF WriterWorks, Truthful
  <2>8. \A s \in Sessions : session[s].live => ~session[s].subscribed
    BY <1>3 DEF Subscribed
  <2>9. \A u \in Writers \ {w} : writer[u].at = "removed" => writer[u].inst # table'
    BY <2>4 DEF IInv, WriterWorks
  <2>10. \A s \in Sessions : s \notin writer'[w].to
    BY <2>1, <2>3
  <2> QED BY <1>1, <2>3, <2>4, <2>5, <2>6, <2>7, <2>8, <2>9, <2>10, WriterSide
<1>4. CASE Subscribed # {}
  <2>1. next = [writer[w] EXCEPT !.at = "push", !.to = Subscribed]
    BY <1>1, <1>4
  <2>2. Turns(w, next)
    BY DEF Announce
  <2> HIDE DEF next
  <2>3. /\ next \in Writing /\ next.at = "push" /\ next.to = Subscribed /\ next.notify = {}
        /\ next.chunks = writer[w].chunks /\ next.touched = writer[w].touched
    BY <1>1, <1>2, <2>1 DEF Writing, WriterStates
  <2>4. /\ writer' \in [Writers -> Writing] /\ writer'[w] = next
        /\ \A u \in Writers \ {w} : writer'[u] = writer[u]
    BY <2>2, <2>3, TurnFields DEF IInv, Typed
  <2>5. UNCHANGED <<table, rows, session, reader, writes, disputed>>
    BY DEF Announce
  <2>6. Current' = Current
    BY <2>5 DEF Current
  <2>7. Typed'
    BY <2>4, <2>5 DEF IInv, Typed
  <2>8. WriterWorks(w)'
    BY <1>1, <2>3, <2>4 DEF WriterWorks
  <2>9. Truthful(w)'
    <3>1. PICK val \in Contents :
            /\ Tells(writer[w].chunks, writer[w].touched, val)
            /\ \A s \in Sessions : \A k \in writer[w].touched \ disputed[s] : val[k] = Current[k]
      BY <1>1 DEF IInv, Truthful, Owes
    <3> QED BY <2>3, <2>4, <2>5, <2>6, <3>1 DEF Truthful
  <2>10. ASSUME NEW s \in Sessions, session[s].live, session[s].subscribed, NEW k \in Known(s)'
         PROVE  k \in Known(s)
    <3>1. Owes(w, s)'
      BY <2>3, <2>4, <2>10 DEF Owes, Subscribed
    <3>2. /\ k \in Keys /\ k \notin disputed'[s]
          /\ \A u \in Writers : Owes(u, s)' => k \notin writer'[u].touched
      BY DEF Known, Unannounced
    <3>3. \A u \in Writers : Owes(u, s) => k \notin writer[u].touched
      BY <2>3, <2>4, <3>1, <3>2 DEF Owes
    <3> QED BY <2>5, <3>2, <3>3, KnownFields
  <2>11. \A u \in Writers \ {w} : writer[u].at = "removed" => writer[u].inst # table'
    BY <2>5 DEF IInv, WriterWorks
  <2>12. \A s \in Sessions : s \in writer'[w].to => s \in Subscribed \/ s \in writer[w].to
    BY <2>3, <2>4
  <2> QED BY <1>1, <2>4, <2>5, <2>6, <2>7, <2>8, <2>9, <2>10, <2>11, <2>12, WriterSide
<1> QED BY <1>3, <1>4

LEMMA PushedFields ==
  ASSUME NEW sess \in Session, NEW chunks \in Seq(Chunk), Len(sess.queue) <= MaxQueuedChunks
  PROVE  /\ Pushed(sess, chunks) \in Session
         /\ Pushed(sess, chunks).live = sess.live
         /\ Pushed(sess, chunks).subscribed = sess.subscribed
         /\ Pushed(sess, chunks).permit = sess.permit
         /\ sess.overflowed => Pushed(sess, chunks) = sess
         /\ ~Pushed(sess, chunks).overflowed =>
              ~sess.overflowed /\ Pushed(sess, chunks).queue = sess.queue \o chunks
         /\ Len(Pushed(sess, chunks).queue) <= MaxQueuedChunks
<1> DEFINE longer == sess.queue \o chunks
<1>1. sess.queue \in Seq(Chunk)
  BY DEF Session
<1>2. longer \in Seq(Chunk) /\ Len(longer) \in Nat
  BY <1>1
<1>3. CASE sess.overflowed
  BY <1>3 DEF Pushed
<1>4. CASE ~sess.overflowed /\ Len(longer) > MaxQueuedChunks
  <2> DEFINE next == [sess EXCEPT !.queue = <<>>, !.overflowed = TRUE]
  <2>1. Pushed(sess, chunks) = next
    BY <1>4 DEF Pushed
  <2>2. /\ next \in Session /\ next.live = sess.live /\ next.subscribed = sess.subscribed
        /\ next.permit = sess.permit /\ next.overflowed = TRUE /\ next.queue = <<>>
    <3>1. NewSession.queue \in Seq(Chunk) /\ NewSession.queue = <<>>
      BY NewRecords DEF Session, NewSession
    <3> QED BY <3>1 DEF Session
  <2>3. Len(<<>>) <= MaxQueuedChunks
    BY CeilingAssumption
  <2> HIDE DEF next
  <2> QED BY <1>4, <2>1, <2>2, <2>3
<1>5. CASE ~sess.overflowed /\ ~(Len(longer) > MaxQueuedChunks)
  <2> DEFINE next == [sess EXCEPT !.queue = longer]
  <2>1. Pushed(sess, chunks) = next
    BY <1>5 DEF Pushed
  <2> HIDE DEF longer
  <2>2. /\ next \in Session /\ next.live = sess.live /\ next.subscribed = sess.subscribed
        /\ next.permit = sess.permit /\ next.overflowed = sess.overflowed /\ next.queue = longer
    BY <1>2 DEF Session
  <2> HIDE DEF next
  <2>3. Len(longer) <= MaxQueuedChunks
    BY <1>2, <1>5, CeilingAssumption
  <2> QED BY <1>5, <2>1, <2>2, <2>3 DEF longer
<1> QED BY <1>3, <1>4, <1>5


LEMMA ConcatAssociates ==
  ASSUME NEW S, NEW a \in Seq(S), NEW b \in Seq(S), NEW c \in Seq(S)
  PROVE  (a \o b) \o c = a \o (b \o c)
OBVIOUS

(* What a reader has of a batch and in hand. *)
InHand(r) ==
  (IF r.kind = NONE THEN <<>> ELSE <<r.kind>>)
  \o (IF r.at = "answered" THEN <<r.chunk.kind>> ELSE <<>>)

LEMMA InHandType ==
  ASSUME NEW r \in Reading, r.at = "answered" => r.chunk \in Chunk
  PROVE  InHand(r) \in Seq(ChunkKinds)
<1>1. r.kind # NONE => r.kind \in ChunkKinds
  BY DEF Reading, ChunkKinds
<1>2. r.at = "answered" => r.chunk.kind \in ChunkKinds
  BY ChunkFields DEF ChunkKinds
<1> DEFINE a == IF r.kind = NONE THEN <<>> ELSE <<r.kind>>
           b == IF r.at = "answered" THEN <<r.chunk.kind>> ELSE <<>>
<1>3. a \in Seq(ChunkKinds) /\ b \in Seq(ChunkKinds)
  BY <1>1, <1>2
<1> HIDE DEF a, b
<1>4. a \o b \in Seq(ChunkKinds)
  BY <1>3
<1> QED BY <1>4 DEF InHand, a, b

LEMMA AheadFields ==
  ASSUME NEW s \in Sessions
  PROVE  Ahead(s) = InHand(reader[s]) \o KindsOf(session[s].queue)
BY DEF Ahead, InHand, KindsOf

(* Whole batches before and whole batches after. *)
LEMMA RunGrows ==
  ASSUME NEW hand \in Seq(ChunkKinds), NEW queue \in Seq(Chunk), NEW chunks \in Seq(Chunk),
         Run(hand \o KindsOf(queue)), Run(KindsOf(chunks))
  PROVE  Run(hand \o KindsOf(queue \o chunks))
<1>1. KindsOf(queue) \in Seq(ChunkKinds) /\ KindsOf(chunks) \in Seq(ChunkKinds)
  BY KindsType
<1>2. KindsOf(queue \o chunks) = KindsOf(queue) \o KindsOf(chunks)
  BY KindsBoth
<1>3. (hand \o KindsOf(queue)) \o KindsOf(chunks) = hand \o (KindsOf(queue) \o KindsOf(chunks))
  BY <1>1, ConcatAssociates
<1>4. hand \o KindsOf(queue) \in Seq(ChunkKinds)
  BY <1>1
<1>5. Run((hand \o KindsOf(queue)) \o KindsOf(chunks))
  BY <1>1, <1>4, RunBoth
<1> QED BY <1>2, <1>3, <1>5

(* What comes, and then what a writer tells. *)
LEMMA FollowsMore ==
  ASSUME NEW v \in Views, NEW coming \in Seq(Chunk), NEW then \in Contents,
         Follows(v, coming, Fresh(then)),
         NEW chunks \in Seq(Chunk), NEW touched, NEW val \in Contents,
         Tells(chunks, touched, val)
  PROVE  \E after \in Contents :
           /\ Follows(v, coming \o chunks, Fresh(after))
           /\ \A k \in Keys : after[k] = IF k \in touched THEN val[k] ELSE then[k]
<1>1. Follows(Fresh(then), chunks, Fresh(Retold(then, touched, val)))
  BY DEF Tells
<1>2. Follows(v, coming \o chunks, Fresh(Retold(then, touched, val)))
  BY <1>1, FollowsBoth
<1> QED BY <1>2, RetoldFields

LEMMA ReaderViews ==
  ASSUME NEW r \in Reading
  PROVE  View(r) \in Views /\ r.cache \in Contents
BY DEF View, Views, Reading

LEMMA ComingFields ==
  ASSUME NEW s \in Sessions, reader[s] \in Reading, session[s] \in Session, ReaderWorks(s)
  PROVE  Coming(s) \in Seq(Chunk) /\ session[s].queue \in Seq(Chunk)
<1>1. session[s].queue \in Seq(Chunk)
  BY DEF Session
<1>2. reader[s].at = "answered" => reader[s].chunk \in Chunk
  BY DEF ReaderWorks
<1> QED BY <1>1, <1>2 DEF Coming

LEMMA PushStep ==
  ASSUME IInv, NEW w \in Writers, NEW s \in Sessions, Push(w, s)
  PROVE  IInv'
<1> DEFINE chunks == writer[w].chunks
           next == [writer[w] EXCEPT !.to = @ \ {s},
                                     !.notify = IF session[s].overflowed THEN {} ELSE {s}]
           sess == Pushed(session[s], chunks)
<1>1. /\ writer[w] \in Writing /\ session[s] \in Session /\ reader[s] \in Reading
      /\ WriterWorks(w) /\ ReaderWorks(s) /\ Woken(s) /\ Whole(s) /\ Told(s)
      /\ Len(session[s].queue) <= MaxQueuedChunks
  BY DEF IInv, Typed, ReaderWorks
<1>2. /\ writer[w].at = "push" /\ writer[w].notify = {} /\ s \in writer[w].to
      /\ chunks # <<>> /\ Run(KindsOf(chunks)) /\ chunks \in Seq(Chunk)
      /\ writer[w].touched \in SUBSET Keys
  BY <1>1 DEF Push, WriterWorks, Writing
<1>3. /\ next \in Writing /\ next.at = "push" /\ next.to = writer[w].to \ {s}
      /\ next.notify = (IF session[s].overflowed THEN {} ELSE {s})
      /\ next.chunks = chunks /\ next.touched = writer[w].touched
  BY <1>1, <1>2 DEF Writing
<1>4. Turns(w, next) /\ session' = [session EXCEPT ![s] = sess]
  BY DEF Push
<1> HIDE DEF next
<1>5. /\ writer' \in [Writers -> Writing] /\ writer'[w] = next
      /\ \A u \in Writers \ {w} : writer'[u] = writer[u]
  BY <1>3, <1>4, TurnFields DEF IInv, Typed
<1>6. /\ sess \in Session /\ sess.live = session[s].live
      /\ sess.subscribed = session[s].subscribed /\ sess.permit = session[s].permit
      /\ session[s].overflowed => sess = session[s]
      /\ ~sess.overflowed => ~session[s].overflowed /\ sess.queue = session[s].queue \o chunks
      /\ Len(sess.queue) <= MaxQueuedChunks
  BY <1>1, <1>2, PushedFields
<1> HIDE DEF sess
<1>7. /\ session' \in [Sessions -> Session] /\ session'[s] = sess
      /\ \A t \in Sessions \ {s} : session'[t] = session[t]
  BY <1>4, <1>6, SessionFields DEF IInv, Typed
<1>8. UNCHANGED <<table, rows, reader, writes, disputed>>
  BY DEF Push
<1>9. Current' = Current
  BY <1>8 DEF Current
<1>10. Typed'
  BY <1>5, <1>7, <1>8 DEF IInv, Typed
<1>11. \A t \in Sessions : Owes(w, t)' <=> t \in writer[w].to /\ t # s
  BY <1>3, <1>5 DEF Owes
<1>12. ASSUME NEW u \in Writers PROVE WriterWorks(u)' /\ Truthful(u)'
  <2>1. CASE u = w
    <3>1. WriterWorks(w)'
      BY <1>2, <1>3, <1>5 DEF WriterWorks
    <3>2. PICK val \in Contents :
            /\ Tells(chunks, writer[w].touched, val)
            /\ \A t \in Sessions : Owes(w, t) =>
                 \A k \in writer[w].touched \ disputed[t] : val[k] = Current[k]
      BY <1>2 DEF IInv, Truthful
    <3>3. \A t \in Sessions : Owes(w, t)' => Owes(w, t)
      BY <1>2, <1>11 DEF Owes
    <3>4. Truthful(w)'
      BY <1>3, <1>5, <1>8, <1>9, <3>2, <3>3 DEF Truthful
    <3> QED BY <2>1, <3>1, <3>4
  <2>2. CASE u # w
    <3>1. WriterWorks(u) /\ Truthful(u) /\ writer'[u] = writer[u]
      BY <1>5, <2>2 DEF IInv
    <3>2. writer[u].at = "removed" => writer[u].inst # table'
      BY <1>8, <3>1 DEF WriterWorks
    <3> QED BY <1>8, <1>9, <3>1, <3>2, WriterKeeps, TruthKeeps
  <2> QED BY <2>1, <2>2
<1>13. ASSUME NEW t \in Sessions \ {s}
       PROVE  ReaderWorks(t)' /\ Woken(t)' /\ Whole(t)' /\ Told(t)'
  <2>1. /\ ReaderWorks(t) /\ Woken(t) /\ Whole(t) /\ Told(t)
        /\ reader'[t] = reader[t] /\ session'[t] = session[t]
    BY <1>7, <1>8 DEF IInv
  <2>2. ReaderWorks(t)'
    <3>1. \A u \in Writers : t \in writer'[u].to => t \in writer[u].to
      BY <1>3, <1>5
    <3> QED BY <2>1, <3>1, ReaderKeeps
  <2>3. Woken(t)'
    <3>1. \A u \in Writers : t \in writer[u].notify => t \in writer'[u].notify
      BY <1>2, <1>5
    <3> QED BY <2>1, <3>1, WakingKeeps
  <2>4. Whole(t)'
    BY <2>1, WholeKeeps
  <2>5. ASSUME NEW k \in Known(t)' PROVE k \in Known(t)
    <3>1. /\ k \in Keys /\ k \notin disputed'[t]
          /\ \A u \in Writers : Owes(u, t)' => k \notin writer'[u].touched
      BY DEF Known, Unannounced
    <3>2. Owes(w, t) => Owes(w, t)'
      BY <1>2, <1>11, <1>13 DEF Owes
    <3>3. \A u \in Writers : Owes(u, t) => k \notin writer[u].touched
      BY <1>3, <1>5, <3>1, <3>2 DEF Owes
    <3> QED BY <1>8, <3>1, <3>3, KnownFields
  <2>6. Told(t)'
    BY <1>9, <2>1, <2>5, ToldKeeps
  <2> QED BY <2>2, <2>3, <2>4, <2>6
<1>14. ReaderWorks(s)'
  BY <1>1, <1>2, <1>6, <1>7, <1>8 DEF ReaderWorks
<1>15. Woken(s)'
  <2>1. CASE session[s].overflowed
    <3>1. \A u \in Writers : s \in writer[u].notify => s \in writer'[u].notify
      BY <1>2, <1>5
    <3> QED BY <1>1, <1>6, <1>7, <1>8, <2>1, <3>1, WakingKeeps
  <2>2. CASE ~session[s].overflowed
    <3>1. s \in writer'[w].notify
      BY <1>3, <1>5, <2>2
    <3> QED BY <3>1 DEF Woken
  <2> QED BY <2>1, <2>2
<1>16. Whole(s)'
  <2> SUFFICES ASSUME reader[s].at # "away", ~sess.overflowed
               PROVE  Run(Ahead(s)')
    BY <1>7, <1>8 DEF Whole
  <2>1. Run(InHand(reader[s]) \o KindsOf(session[s].queue))
    BY <1>1, <1>6, AheadFields DEF Whole
  <2>2. InHand(reader[s]) \in Seq(ChunkKinds) /\ session[s].queue \in Seq(Chunk)
    BY <1>1, InHandType DEF ReaderWorks, Session
  <2>3. Run(InHand(reader[s]) \o KindsOf(session[s].queue \o chunks))
    BY <1>2, <2>1, <2>2, RunGrows
  <2>4. Ahead(s)' = InHand(reader[s]) \o KindsOf(sess.queue)
    BY <1>7, <1>8 DEF Ahead, InHand, KindsOf
  <2> QED BY <1>6, <2>3, <2>4
<1>17. Told(s)'
  <2> SUFFICES ASSUME sess.live, ~sess.overflowed
               PROVE  Told(s)'
    BY <1>7 DEF Told
  <2>1. session[s].live /\ ~session[s].overflowed /\ sess.queue = session[s].queue \o chunks
    BY <1>6
  <2>2. PICK val \in Contents :
          /\ Tells(chunks, writer[w].touched, val)
          /\ \A k \in writer[w].touched \ disputed[s] : val[k] = Current[k]
    BY <1>2 DEF IInv, Truthful, Owes
  <2>3. ASSUME NEW k \in Known(s)'
        PROVE  /\ k \in Keys /\ (k \in writer[w].touched => val[k] = Current[k])
               /\ k \notin writer[w].touched => k \in Known(s)
    <3>1. /\ k \in Keys /\ k \notin disputed'[s]
          /\ \A u \in Writers : Owes(u, s)' => k \notin writer'[u].touched
      BY DEF Known, Unannounced
    <3>2. k \in writer[w].touched => val[k] = Current[k]
      BY <1>8, <2>2, <3>1
    <3>3. k \notin writer[w].touched => \A u \in Writers : Owes(u, s) => k \notin writer[u].touched
      BY <1>5, <3>1 DEF Owes
    <3> QED BY <1>8, <3>1, <3>2, <3>3, KnownFields
  <2>4. Coming(s) \in Seq(Chunk) /\ session[s].queue \in Seq(Chunk)
    BY <1>1, ComingFields
  <2>5. ASSUME reader[s].at \in Before, NEW cache \in Contents
        PROVE  \E then \in Contents :
                 /\ Follows(Fresh(cache), sess.queue, Fresh(then))
                 /\ \A k \in Known(s)' : cache[k] = Current[k] => then[k] = Current[k]
    <3>1. PICK then \in Contents :
            /\ Follows(Fresh(cache), session[s].queue, Fresh(then))
            /\ \A k \in Known(s) : cache[k] = Current[k] => then[k] = Current[k]
      BY <1>1, <2>1, <2>5 DEF Told
    <3>2. PICK after \in Contents :
            /\ Follows(Fresh(cache), session[s].queue \o chunks, Fresh(after))
            /\ \A k \in Keys : after[k] = IF k \in writer[w].touched THEN val[k] ELSE then[k]
      BY <1>2, <2>2, <2>4, <3>1, FreshType, FollowsMore
    <3> QED BY <2>1, <2>3, <3>1, <3>2
  <2>6. ASSUME reader[s].at \in After
        PROVE  \E then \in Contents :
                 /\ Follows(View(reader[s]), Coming(s)', Fresh(then))
                 /\ \A k \in Known(s)' : then[k] = Current[k]
    <3>1. PICK then \in Contents :
            /\ Follows(View(reader[s]), Coming(s), Fresh(then))
            /\ \A k \in Known(s) : then[k] = Current[k]
      BY <1>1, <2>1, <2>6 DEF Told
    <3>2. View(reader[s]) \in Views
      BY <1>1, ReaderViews
    <3>3. PICK after \in Contents :
            /\ Follows(View(reader[s]), Coming(s) \o chunks, Fresh(after))
            /\ \A k \in Keys : after[k] = IF k \in writer[w].touched THEN val[k] ELSE then[k]
      BY <1>2, <2>2, <2>4, <3>1, <3>2, FollowsMore
    <3>4. Coming(s)' = Coming(s) \o chunks
      <4>1. CASE reader[s].at = "answered"
        <5>1. reader[s].chunk \in Chunk
          BY <1>1, <4>1 DEF ReaderWorks
        <5> DEFINE one == <<reader[s].chunk>>
                   queue == session[s].queue
        <5>2. one \in Seq(Chunk) /\ queue \in Seq(Chunk) /\ chunks \in Seq(Chunk)
          BY <1>2, <2>4, <5>1
        <5>3. Coming(s)' = one \o (queue \o chunks) /\ Coming(s) = one \o queue
          BY <1>7, <1>8, <2>1, <4>1 DEF Coming
        <5> HIDE DEF one, chunks, queue
        <5>4. one \o (queue \o chunks) = (one \o queue) \o chunks
          BY <5>2, ConcatAssociates
        <5> QED BY <5>3, <5>4
      <4>2. CASE reader[s].at # "answered"
        BY <1>7, <1>8, <2>1, <4>2 DEF Coming
      <4> QED BY <4>1, <4>2
    <3> QED BY <2>3, <3>1, <3>3, <3>4
  <2> QED BY <1>7, <1>8, <1>9, <2>5, <2>6 DEF Told
<1> QED BY <1>10, <1>12, <1>13, <1>14, <1>15, <1>16, <1>17 DEF IInv

LEMMA NotifyStep ==
  ASSUME IInv, NEW w \in Writers, NEW s \in Sessions, Notify(w, s)
  PROVE  IInv'
<1> DEFINE next == [writer[w] EXCEPT !.notify = {}]
           sess == [session[s] EXCEPT !.permit = TRUE]
<1>1. /\ writer[w] \in Writing /\ session[s] \in Session
      /\ WriterWorks(w) /\ ReaderWorks(s) /\ Woken(s) /\ Whole(s) /\ Told(s)
  BY DEF IInv, Typed
<1>2. writer[w].at = "push" /\ writer[w].notify = {s}
  BY <1>1 DEF Notify, WriterWorks
<1>3. /\ next \in Writing /\ next.at = "push" /\ next.to = writer[w].to /\ next.notify = {}
      /\ next.chunks = writer[w].chunks /\ next.touched = writer[w].touched
  BY <1>1, <1>2 DEF Writing
<1>4. Turns(w, next) /\ session' = [session EXCEPT ![s] = sess]
  BY DEF Notify
<1> HIDE DEF next
<1>5. /\ writer' \in [Writers -> Writing] /\ writer'[w] = next
      /\ \A u \in Writers \ {w} : writer'[u] = writer[u]
  BY <1>3, <1>4, TurnFields DEF IInv, Typed
<1>6. /\ sess \in Session /\ sess.live = session[s].live
      /\ sess.subscribed = session[s].subscribed /\ sess.permit = TRUE
      /\ sess.overflowed = session[s].overflowed /\ sess.queue = session[s].queue
  BY <1>1 DEF Session
<1> HIDE DEF sess
<1>7. /\ session' \in [Sessions -> Session] /\ session'[s] = sess
      /\ \A t \in Sessions \ {s} : session'[t] = session[t]
  BY <1>4, <1>6, SessionFields DEF IInv, Typed
<1>8. UNCHANGED <<table, rows, reader, writes, disputed>>
  BY DEF Notify
<1>9. Current' = Current
  BY <1>8 DEF Current
<1>10. Typed'
  BY <1>5, <1>7, <1>8 DEF IInv, Typed
<1>11. \A u \in Writers, t \in Sessions : Owes(u, t)' <=> Owes(u, t)
  BY <1>2, <1>3, <1>5 DEF Owes
<1>12. \A u \in Writers : writer'[u].touched = writer[u].touched /\ writer'[u].to = writer[u].to
  BY <1>3, <1>5
<1>13. \A t \in Sessions : Known(t)' = Known(t)
  BY <1>8, <1>11, <1>12 DEF Known, Unannounced
<1>14. ASSUME NEW u \in Writers PROVE WriterWorks(u)' /\ Truthful(u)'
  <2>1. CASE u = w
    <3>1. WriterWorks(w)'
      BY <1>1, <1>2, <1>3, <1>5 DEF WriterWorks
    <3>2. PICK val \in Contents :
            /\ Tells(writer[w].chunks, writer[w].touched, val)
            /\ \A t \in Sessions : Owes(w, t) =>
                 \A k \in writer[w].touched \ disputed[t] : val[k] = Current[k]
      BY <1>2 DEF IInv, Truthful
    <3>3. Truthful(w)'
      BY <1>3, <1>5, <1>8, <1>9, <1>11, <3>2 DEF Truthful
    <3> QED BY <2>1, <3>1, <3>3
  <2>2. CASE u # w
    <3>1. WriterWorks(u) /\ Truthful(u) /\ writer'[u] = writer[u]
      BY <1>5, <2>2 DEF IInv
    <3>2. writer[u].at = "removed" => writer[u].inst # table'
      BY <1>8, <3>1 DEF WriterWorks
    <3> QED BY <1>8, <1>9, <3>1, <3>2, WriterKeeps, TruthKeeps
  <2> QED BY <2>1, <2>2
<1>15. ASSUME NEW t \in Sessions \ {s}
       PROVE  ReaderWorks(t)' /\ Woken(t)' /\ Whole(t)' /\ Told(t)'
  <2>1. /\ ReaderWorks(t) /\ Woken(t) /\ Whole(t) /\ Told(t)
        /\ reader'[t] = reader[t] /\ session'[t] = session[t]
    BY <1>7, <1>8 DEF IInv
  <2>2. ReaderWorks(t)'
    BY <1>12, <2>1, ReaderKeeps
  <2>3. Woken(t)'
    <3>1. \A u \in Writers : t \in writer[u].notify => t \in writer'[u].notify
      BY <1>2, <1>5, <1>15
    <3> QED BY <2>1, <3>1, WakingKeeps
  <2>4. Whole(t)'
    BY <2>1, WholeKeeps
  <2>5. Told(t)'
    BY <1>9, <1>13, <2>1, ToldKeeps
  <2> QED BY <2>2, <2>3, <2>4, <2>5
<1>16. ReaderWorks(s)'
  BY <1>1, <1>6, <1>7, <1>8, <1>12 DEF ReaderWorks
<1>17. Woken(s)'
  BY <1>6, <1>7 DEF Woken
<1>18. Whole(s)'
  BY <1>1, <1>6, <1>7, <1>8 DEF Whole, Ahead
<1>19. Told(s)'
  BY <1>1, <1>6, <1>7, <1>8, <1>9, <1>13 DEF Told, Coming
<1> QED BY <1>10, <1>14, <1>15, <1>16, <1>17, <1>18, <1>19 DEF IInv


-----------------------------------------------------------------------------
(* The invariant is inductive: the readers.                                  *)

LEMMA AwayHolds ==
  ASSUME NEW s \in Sessions, reader'[s].at = "away", Len(session'[s].queue) <= MaxQueuedChunks
  PROVE  ReaderWorks(s)' /\ Woken(s)' /\ Whole(s)' /\ Told(s)'
BY DEF ReaderWorks, Woken, Whole, Told, Before, After

LEMMA KnownSame ==
  ASSUME NEW s \in Sessions, writer' = writer, disputed'[s] = disputed[s]
  PROVE  Known(s)' = Known(s)
BY DEF Known, Unannounced, Owes

LEMMA LeaveStep ==
  ASSUME IInv, NEW s \in Sessions, Leave(s)
  PROVE  IInv'
<1>1. UNCHANGED <<table, rows, writer, session, writes, disputed>> /\ Reads(s, NewReader)
  BY DEF Leave
<1>2. /\ reader' \in [Sessions -> Reading] /\ reader'[s] = NewReader
      /\ \A t \in Sessions \ {s} : reader'[t] = reader[t]
  BY <1>1, NewRecords, ReadFields DEF IInv, Typed
<1>3. Typed'
  BY <1>1, <1>2 DEF IInv, Typed
<1>4. NewReader.at = "away"
  BY DEF NewReader
<1>5. Len(session'[s].queue) <= MaxQueuedChunks
  BY <1>1 DEF IInv, ReaderWorks
<1>6. ReaderWorks(s)' /\ Woken(s)' /\ Whole(s)' /\ Told(s)'
  BY <1>2, <1>4, <1>5, AwayHolds
<1> QED BY <1>1, <1>2, <1>3, <1>6, ReaderSide

LEMMA Forgotten ==
  ASSUME NEW s \in Sessions, session[s] \in Session
  PROVE  /\ [session[s] EXCEPT !.live = FALSE] \in Session
         /\ [session[s] EXCEPT !.live = FALSE].live = FALSE
         /\ [session[s] EXCEPT !.live = FALSE].queue = session[s].queue
         /\ [session[s] EXCEPT !.live = FALSE].overflowed = session[s].overflowed
         /\ [session[s] EXCEPT !.live = FALSE].subscribed = session[s].subscribed
         /\ [session[s] EXCEPT !.live = FALSE].permit = session[s].permit
BY DEF Session

LEMMA StartOverStep ==
  ASSUME IInv, NEW s \in Sessions, StartOver(s)
  PROVE  IInv'
<1> DEFINE sess == [session[s] EXCEPT !.live = FALSE]
<1>1. /\ UNCHANGED <<table, rows, writer, writes, disputed>> /\ Reads(s, NewReader)
      /\ session' = [session EXCEPT ![s] = sess]
  BY DEF StartOver
<1>2. /\ reader' \in [Sessions -> Reading] /\ reader'[s] = NewReader
      /\ \A t \in Sessions \ {s} : reader'[t] = reader[t]
  BY <1>1, NewRecords, ReadFields DEF IInv, Typed
<1>3. session[s] \in Session /\ Len(session[s].queue) <= MaxQueuedChunks
  BY DEF IInv, Typed, ReaderWorks
<1>4. sess \in Session /\ sess.queue = session[s].queue
  BY <1>3, Forgotten
<1> HIDE DEF sess
<1>5. /\ session' \in [Sessions -> Session] /\ session'[s] = sess
      /\ \A t \in Sessions \ {s} : session'[t] = session[t]
  BY <1>1, <1>4, SessionFields DEF IInv, Typed
<1>6. Typed'
  BY <1>1, <1>2, <1>5 DEF IInv, Typed
<1>7. NewReader.at = "away"
  BY DEF NewReader
<1>8. ReaderWorks(s)' /\ Woken(s)' /\ Whole(s)' /\ Told(s)'
  BY <1>2, <1>3, <1>4, <1>5, <1>7, AwayHolds
<1> QED BY <1>1, <1>2, <1>5, <1>6, <1>8, ReaderSide

LEMMA CollectStep ==
  ASSUME IInv, NEW s \in Sessions, Collect(s)
  PROVE  IInv'
<1> DEFINE sess == [session[s] EXCEPT !.live = FALSE]
<1>1. /\ UNCHANGED <<table, rows, writer, reader, writes, disputed>>
      /\ session' = [session EXCEPT ![s] = sess]
  BY DEF Collect
<1>2. /\ session[s] \in Session
      /\ ReaderWorks(s) /\ Woken(s) /\ Whole(s) /\ Told(s)
  BY DEF IInv, Typed
<1>3. /\ sess \in Session /\ sess.live = FALSE /\ sess.queue = session[s].queue
      /\ sess.overflowed = session[s].overflowed /\ sess.subscribed = session[s].subscribed
      /\ sess.permit = session[s].permit
  BY <1>2, Forgotten
<1> HIDE DEF sess
<1>4. /\ session' \in [Sessions -> Session] /\ session'[s] = sess
      /\ \A t \in Sessions \ {s} : session'[t] = session[t]
  BY <1>1, <1>3, SessionFields DEF IInv, Typed
<1>5. Typed'
  BY <1>1, <1>4 DEF IInv, Typed
<1>6. ReaderWorks(s)'
  BY <1>1, <1>2, <1>3, <1>4 DEF ReaderWorks
<1>7. Woken(s)'
  BY <1>1, <1>2, <1>3, <1>4 DEF Woken
<1>8. Whole(s)'
  BY <1>1, <1>2, <1>3, <1>4 DEF Whole, Ahead
<1>9. Told(s)'
  BY <1>3, <1>4 DEF Told
<1> QED BY <1>1, <1>4, <1>5, <1>6, <1>7, <1>8, <1>9, ReaderSide

LEMMA GreetingStep ==
  ASSUME IInv, NEW s \in Sessions, Greeting(s)
  PROVE  IInv'
<1> DEFINE sess == [NewSession EXCEPT !.live = TRUE]
           next == [NewReader EXCEPT !.at = "greeted"]
<1>1. /\ UNCHANGED <<table, rows, writer, writes, disputed>> /\ Reads(s, next)
      /\ session' = [session EXCEPT ![s] = sess]
      /\ \A w \in Writers : s \notin writer[w].to
  BY DEF Greeting
<1>2. /\ sess \in Session /\ sess.live = TRUE /\ sess.queue = <<>> /\ sess.overflowed = FALSE
      /\ sess.subscribed = FALSE
  BY NewRecords DEF NewSession, Session
<1>3. /\ next \in Reading /\ next.at = "greeted" /\ View(next) = Fresh(NoRows)
  BY NewRecords DEF NewReader, Reading, Before, View, Fresh
<1>4. InHand(next) = <<>>
  BY DEF InHand, NewReader
<1> HIDE DEF sess, next
<1>5. /\ session' \in [Sessions -> Session] /\ session'[s] = sess
      /\ \A t \in Sessions \ {s} : session'[t] = session[t]
  BY <1>1, <1>2, SessionFields DEF IInv, Typed
<1>6. /\ reader' \in [Sessions -> Reading] /\ reader'[s] = next
      /\ \A t \in Sessions \ {s} : reader'[t] = reader[t]
  BY <1>1, <1>3, ReadFields DEF IInv, Typed
<1>7. Typed'
  BY <1>1, <1>5, <1>6 DEF IInv, Typed
<1>8. ReaderWorks(s)'
  <2>1. Len(sess.queue) <= MaxQueuedChunks
    BY <1>2, CeilingAssumption
  <2> QED BY <1>1, <1>2, <1>3, <1>5, <1>6, <2>1 DEF ReaderWorks, Before
<1>9. Woken(s)'
  BY <1>3, <1>6 DEF Woken
<1>10. Whole(s)'
  <2>1. Ahead(s)' = InHand(next) \o KindsOf(sess.queue)
    BY <1>5, <1>6 DEF Ahead, InHand, KindsOf
  <2>2. KindsOf(<<>>) = <<>>
    BY DEF KindsOf
  <2>3. Ahead(s)' = <<>>
    BY <1>2, <1>4, <2>1, <2>2
  <2> QED BY <2>2, <2>3, NewRecords DEF Whole
<1>11. Told(s)'
  <2>1. (reader[s].at \in Before /\ session[s].queue = <<>>)'
    BY <1>2, <1>3, <1>5, <1>6 DEF Before
  <2>2. (reader[s].at \in Before /\ session[s].queue = <<>>) => Told(s)
    BY NothingTold
  <2>3. (reader[s].at \in Before /\ session[s].queue = <<>>)' => Told(s)'
    BY NothingTold, PTL
  <2> QED BY <2>1, <2>3
<1> QED BY <1>1, <1>5, <1>6, <1>7, <1>8, <1>9, <1>10, <1>11, ReaderSide


LEMMA FollowsNone ==
  ASSUME NEW v, NEW e, Follows(v, <<>>, e)
  PROVE  e = v
<1>1. Len(<<>>) = 0
  OBVIOUS
<1> QED BY <1>1 DEF Follows

(* Before the snapshot a reader holds nothing; what is queued fits any cache.*)
LEMMA BeforeTurn ==
  ASSUME IInv, NEW s \in Sessions, NEW next \in Reading, NEW sess \in Session, Reads(s, next),
         session' = [session EXCEPT ![s] = sess],
         UNCHANGED <<table, rows, writer, writes, disputed>>,
         reader[s].at \in Before, next.at \in Before, View(next) = View(reader[s]),
         next.at = "found" => next.inst \in Instances,
         sess.queue = session[s].queue, sess.live = session[s].live,
         sess.overflowed = session[s].overflowed,
         session[s].subscribed => sess.subscribed,
         next.at = "registered" => sess.subscribed
  PROVE  IInv'
<1>1. /\ session' \in [Sessions -> Session] /\ session'[s] = sess
      /\ \A t \in Sessions \ {s} : session'[t] = session[t]
  BY SessionFields DEF IInv, Typed
<1>2. /\ reader' \in [Sessions -> Reading] /\ reader'[s] = next
      /\ \A t \in Sessions \ {s} : reader'[t] = reader[t]
  BY ReadFields DEF IInv, Typed
<1>3. Typed'
  BY <1>1, <1>2 DEF IInv, Typed
<1>4. ReaderWorks(s) /\ Woken(s) /\ Whole(s) /\ Told(s) /\ reader[s] \in Reading
  BY DEF IInv, Typed
<1>5. reader[s].at # "away" /\ next.at # "answered" /\ reader[s].at # "answered"
  BY DEF Before
<1>6. ReaderWorks(s)'
  BY <1>1, <1>2, <1>4, <1>5 DEF ReaderWorks
<1>7. Woken(s)'
  BY <1>2 DEF Woken, Before
<1>8. Whole(s)'
  <2>1. next.kind = reader[s].kind
    BY DEF View
  <2>2. Ahead(s)' = Ahead(s)
    BY <1>1, <1>2, <1>5, <2>1 DEF Ahead
  <2> QED BY <1>1, <1>4, <1>5, <2>2 DEF Whole
<1>9. Told(s)'
  <2>1. Known(s)' = Known(s) /\ Current' = Current
    BY KnownSame DEF Current
  <2>2. next.at \notin After
    BY DEF Before, After
  <2> QED BY <1>1, <1>2, <1>4, <2>1, <2>2 DEF Told
<1> QED BY <1>1, <1>2, <1>3, <1>6, <1>7, <1>8, <1>9, ReaderSide

LEMMA SessionSame ==
  ASSUME NEW s \in Sessions, session \in [Sessions -> Session]
  PROVE  session = [session EXCEPT ![s] = session[s]]
OBVIOUS

LEMMA SubscribeLookUpStep ==
  ASSUME IInv, NEW s \in Sessions, SubscribeLookUp(s)
  PROVE  IInv'
<1> DEFINE next == IF table # NONE THEN [reader[s] EXCEPT !.at = "found", !.inst = table]
                   ELSE [reader[s] EXCEPT !.at = "missing"]
<1>1. /\ reader[s] \in Reading /\ session[s] \in Session /\ session \in [Sessions -> Session]
      /\ table \in Instances \cup {NONE} /\ reader[s].at = "greeted"
  BY DEF IInv, Typed, SubscribeLookUp
<1>2. /\ next \in Reading /\ next.at \in Before /\ next.at # "registered"
      /\ next.at = "found" => next.inst \in Instances
  <2>1. CASE table # NONE
    <3>1. next = [reader[s] EXCEPT !.at = "found", !.inst = table]
      BY <2>1
    <3> QED BY <1>1, <2>1, <3>1 DEF Reading, Before
  <2>2. CASE table = NONE
    <3>1. next = [reader[s] EXCEPT !.at = "missing"]
      BY <2>2
    <3> QED BY <1>1, <3>1 DEF Reading, Before
  <2> QED BY <2>1, <2>2
<1>3. View(next) = View(reader[s])
  BY <1>1 DEF View, Reading
<1>4. Reads(s, next) /\ UNCHANGED <<table, rows, writer, session, writes, disputed>>
  BY DEF SubscribeLookUp
<1>5. session' = [session EXCEPT ![s] = session[s]]
  BY <1>1, <1>4, SessionSame
<1>6. reader[s].at \in Before
  BY <1>1 DEF Before
<1> HIDE DEF next
<1> QED BY <1>1, <1>2, <1>3, <1>4, <1>5, <1>6, BeforeTurn

LEMMA SubscribeEarlyStep ==
  ASSUME IInv, NEW s \in Sessions, SubscribeEarly(s)
  PROVE  IInv'
<1> DEFINE next == [reader[s] EXCEPT !.at = "registered"]
           sess == [session[s] EXCEPT !.subscribed = TRUE]
<1>1. reader[s] \in Reading /\ session[s] \in Session /\ reader[s].at = "missing"
  BY DEF IInv, Typed, SubscribeEarly
<1>2. next \in Reading /\ next.at = "registered" /\ View(next) = View(reader[s])
  BY <1>1 DEF Reading, Before, View
<1>3. /\ sess \in Session /\ sess.queue = session[s].queue /\ sess.live = session[s].live
      /\ sess.overflowed = session[s].overflowed /\ sess.subscribed = TRUE
  BY <1>1 DEF Session
<1>4. /\ Reads(s, next) /\ session' = [session EXCEPT ![s] = sess]
      /\ UNCHANGED <<table, rows, writer, writes, disputed>>
  BY DEF SubscribeEarly
<1>5. reader[s].at \in Before /\ next.at \in Before /\ next.at # "found"
  BY <1>1, <1>2 DEF Before
<1> HIDE DEF next, sess
<1> QED BY <1>1, <1>2, <1>3, <1>4, <1>5, BeforeTurn

(* The snapshot: what it leaves in dispute is all that may differ once what  *)
(* was queued before it has been taken in.                                   *)
LEMMA SnapshotTurn ==
  ASSUME IInv, NEW s \in Sessions, NEW next \in Reading, NEW sess \in Session, Reads(s, next),
         session' = [session EXCEPT ![s] = sess],
         UNCHANGED <<table, rows, writer, writes>>,
         NEW inst, disputed' = [disputed EXCEPT ![s] = Contested(s, inst)],
         reader[s].at \in Before, next.at = "ready", View(next) = Fresh(next.cache),
         inst = table => next.cache = Current,
         sess.queue = session[s].queue, sess.live = session[s].live,
         sess.overflowed = session[s].overflowed, sess.subscribed
  PROVE  IInv'
<1>1. /\ session' \in [Sessions -> Session] /\ session'[s] = sess
      /\ \A t \in Sessions \ {s} : session'[t] = session[t]
  BY SessionFields DEF IInv, Typed
<1>2. /\ reader' \in [Sessions -> Reading] /\ reader'[s] = next
      /\ \A t \in Sessions \ {s} : reader'[t] = reader[t]
  BY ReadFields DEF IInv, Typed
<1>3. /\ ReaderWorks(s) /\ Woken(s) /\ Whole(s) /\ Told(s) /\ reader[s] \in Reading
      /\ session[s] \in Session /\ disputed \in [Sessions -> SUBSET Keys]
      /\ \A w \in Writers : writer[w].touched \subseteq Keys
  BY DEF IInv, Typed, Writing
<1>4. /\ inst # table => Contested(s, inst) = Keys
      /\ (inst = table /\ session[s].queue # <<>>) => Contested(s, inst) = disputed[s]
      /\ (inst = table /\ session[s].queue = <<>>) =>
           Contested(s, inst) = disputed[s] \cap Unannounced(s, Writers)
  BY DEF Contested
<1>5. Contested(s, inst) \in SUBSET Keys /\ disputed[s] \cap Unannounced(s, Writers) \subseteq Contested(s, inst)
  BY <1>3, <1>4
<1>6. /\ disputed' \in [Sessions -> SUBSET Keys] /\ disputed'[s] = Contested(s, inst)
      /\ \A t \in Sessions \ {s} : disputed'[t] = disputed[t]
  BY <1>3, <1>5
<1>7. Typed'
  BY <1>1, <1>2, <1>6 DEF IInv, Typed
<1>8. reader[s].at # "away" /\ reader[s].at # "answered"
  BY DEF Before
<1>9. ReaderWorks(s)'
  BY <1>1, <1>2, <1>3 DEF ReaderWorks, Before
<1>10. Woken(s)'
  BY <1>2 DEF Woken
<1>11. Whole(s)'
  <2>1. next.kind = NONE /\ reader[s].kind = NONE
    BY <1>3 DEF View, Fresh, ReaderWorks
  <2>2. Ahead(s)' = Ahead(s)
    BY <1>1, <1>2, <1>8, <2>1 DEF Ahead
  <2> QED BY <1>1, <1>3, <1>8, <2>2 DEF Whole
<1>12. Told(s)'
  <2> SUFFICES ASSUME sess.live, ~sess.overflowed
               PROVE  Told(s)'
    BY <1>1 DEF Told
  <2>1. next.cache \in Contents
    BY ReaderViews
  <2>2. PICK then \in Contents :
          /\ Follows(Fresh(next.cache), session[s].queue, Fresh(then))
          /\ \A k \in Known(s) : next.cache[k] = Current[k] => then[k] = Current[k]
    BY <1>3, <2>1 DEF Told
  <2>3. Current' = Current
    BY DEF Current
  <2>4. ASSUME NEW k \in Known(s)' PROVE then[k] = Current[k]
    <3>1. /\ k \in Keys /\ k \notin Contested(s, inst) /\ k \notin Unannounced(s, Writers)
      BY <1>6 DEF Known, Unannounced, Owes
    <3>2. inst = table /\ next.cache = Current
      BY <1>4, <3>1
    <3>3. CASE session[s].queue # <<>>
      BY <1>4, <2>2, <3>1, <3>2, <3>3 DEF Known
    <3>4. CASE session[s].queue = <<>>
      <4>1. Fresh(then) = Fresh(next.cache)
        BY <2>2, <3>4, FollowsNone
      <4> QED BY <3>2, <4>1 DEF Fresh
    <3> QED BY <3>3, <3>4
  <2>5. Coming(s)' = session[s].queue
    BY <1>1, <1>2 DEF Coming
  <2>6. next.at \in After /\ next.at \notin Before
    BY DEF Before, After
  <2> QED BY <1>2, <2>2, <2>3, <2>4, <2>5, <2>6 DEF Told
<1> QED BY <1>1, <1>2, <1>5, <1>6, <1>7, <1>9, <1>10, <1>11, <1>12, ReaderSide

LEMMA LookAgainStep ==
  ASSUME IInv, NEW s \in Sessions, LookAgain(s)
  PROVE  IInv'
<1>1. /\ reader[s] \in Reading /\ session[s] \in Session /\ session \in [Sessions -> Session]
      /\ table \in Instances \cup {NONE} /\ reader[s].at = "registered" /\ ReaderWorks(s)
  BY DEF IInv, Typed, LookAgain
<1>2. reader[s].at \in Before /\ View(reader[s]) = Fresh(NoRows)
  BY <1>1 DEF Before, ReaderWorks
<1>3. UNCHANGED <<table, rows, writer, session, writes>>
  BY DEF LookAgain
<1>4. session' = [session EXCEPT ![s] = session[s]]
  BY <1>1, <1>3, SessionSame
<1>5. CASE table # NONE
  <2> DEFINE next == [reader[s] EXCEPT !.at = "found", !.inst = table]
  <2>1. /\ next \in Reading /\ next.at = "found" /\ next.inst \in Instances
        /\ View(next) = View(reader[s])
    BY <1>1, <1>5 DEF Reading, Before, View
  <2>2. Reads(s, next) /\ UNCHANGED disputed
    BY <1>5 DEF LookAgain
  <2>3. next.at \in Before
    BY <2>1 DEF Before
  <2> HIDE DEF next
  <2> QED BY <1>1, <1>2, <1>3, <1>4, <2>1, <2>2, <2>3, BeforeTurn
<1>6. CASE table = NONE
  <2> DEFINE next == [reader[s] EXCEPT !.at = "ready"]
  <2>1. next \in Reading /\ next.at = "ready" /\ View(next) = View(reader[s])
    BY <1>1 DEF Reading, After, View
  <2>2. Reads(s, next) /\ disputed' = [disputed EXCEPT ![s] = Contested(s, NONE)]
    BY <1>6 DEF LookAgain
  <2>3. next.cache = NoRows /\ Current = NoRows
    BY <1>2, <1>6, <2>1 DEF View, Fresh, Current
  <2>4. session[s].subscribed
    <3>1. reader[s].at # "away"
      BY <1>1
    <3> QED BY <1>1, <3>1 DEF ReaderWorks, Session
  <2> HIDE DEF next
  <2> QED BY <1>1, <1>2, <1>3, <1>4, <2>1, <2>2, <2>3, <2>4, SnapshotTurn
<1> QED BY <1>5, <1>6

LEMMA SnapshotStep ==
  ASSUME IInv, NEW s \in Sessions, Snapshot(s)
  PROVE  IInv'
<1> DEFINE inst == reader[s].inst
           next == [reader[s] EXCEPT !.at = "ready", !.inst = NONE, !.cache = rows[inst]]
           sess == [session[s] EXCEPT !.subscribed = TRUE]
<1>1. /\ reader[s] \in Reading /\ session[s] \in Session /\ rows \in [Instances -> Contents]
      /\ reader[s].at = "found" /\ ReaderWorks(s)
  BY DEF IInv, Typed, Snapshot
<1>2. /\ reader[s].at \in Before /\ View(reader[s]) = Fresh(NoRows)
      /\ inst \in Instances /\ rows[inst] \in Contents
  BY <1>1 DEF Before, ReaderWorks
<1>3. /\ next \in Reading /\ next.at = "ready" /\ next.cache = rows[inst]
      /\ next.kind = reader[s].kind /\ next.batch = reader[s].batch
  BY <1>1, <1>2 DEF Reading, After
<1>4. View(next) = Fresh(next.cache)
  BY <1>2, <1>3 DEF View, Fresh
<1>5. /\ sess \in Session /\ sess.queue = session[s].queue /\ sess.live = session[s].live
      /\ sess.overflowed = session[s].overflowed /\ sess.subscribed
  BY <1>1 DEF Session
<1>6. /\ Reads(s, next) /\ session' = [session EXCEPT ![s] = sess]
      /\ UNCHANGED <<table, rows, writer, writes>>
      /\ disputed' = [disputed EXCEPT ![s] = Contested(s, inst)]
  BY DEF Snapshot
<1>7. inst = table => next.cache = Current
  BY <1>2, <1>3, NoneAssumption DEF Current
<1> HIDE DEF next, sess
<1> QED BY <1>2, <1>3, <1>4, <1>5, <1>6, <1>7, SnapshotTurn


(* Between two polls, and from one to the next: nothing is taken in. *)
LEMMA PollTurn ==
  ASSUME IInv, NEW s \in Sessions, NEW next \in Reading, NEW sess \in Session, Reads(s, next),
         session' = [session EXCEPT ![s] = sess],
         UNCHANGED <<table, rows, writer, writes, disputed>>,
         reader[s].at \in After \ {"answered"}, next.at \in After \ {"answered"},
         View(next) = View(reader[s]),
         sess.queue = session[s].queue, sess.live = session[s].live,
         sess.overflowed = session[s].overflowed, sess.subscribed = session[s].subscribed,
         Woken(s)'
  PROVE  IInv'
<1>1. /\ session' \in [Sessions -> Session] /\ session'[s] = sess
      /\ \A t \in Sessions \ {s} : session'[t] = session[t]
  BY SessionFields DEF IInv, Typed
<1>2. /\ reader' \in [Sessions -> Reading] /\ reader'[s] = next
      /\ \A t \in Sessions \ {s} : reader'[t] = reader[t]
  BY ReadFields DEF IInv, Typed
<1>3. Typed'
  BY <1>1, <1>2 DEF IInv, Typed
<1>4. ReaderWorks(s) /\ Whole(s) /\ Told(s) /\ reader[s] \in Reading
  BY DEF IInv, Typed
<1>5. /\ reader[s].at # "away" /\ next.at # "answered" /\ reader[s].at # "answered"
      /\ next.at # "found" /\ next.at \notin Before /\ reader[s].at \notin Before
      /\ next.at \in After /\ reader[s].at \in After
  BY DEF After, Before
<1>6. ReaderWorks(s)'
  BY <1>1, <1>2, <1>4, <1>5 DEF ReaderWorks
<1>7. Whole(s)'
  <2>1. next.kind = reader[s].kind
    BY DEF View
  <2>2. Ahead(s)' = Ahead(s)
    BY <1>1, <1>2, <1>5, <2>1 DEF Ahead
  <2> QED BY <1>1, <1>4, <1>5, <2>2 DEF Whole
<1>8. Told(s)'
  <2>1. Known(s)' = Known(s) /\ Current' = Current
    BY KnownSame DEF Current
  <2>2. Coming(s)' = Coming(s)
    BY <1>1, <1>2, <1>5 DEF Coming
  <2> QED BY <1>1, <1>2, <1>4, <1>5, <2>1, <2>2 DEF Told
<1> QED BY <1>1, <1>2, <1>3, <1>6, <1>7, <1>8, ReaderSide

LEMMA TurnedTo ==
  ASSUME NEW r \in Reading, NEW at \in After \ {"answered"}
  PROVE  /\ [r EXCEPT !.at = at] \in Reading /\ [r EXCEPT !.at = at].at = at
         /\ View([r EXCEPT !.at = at]) = View(r)
BY DEF Reading, View

LEMMA GetChangeStep ==
  ASSUME IInv, NEW s \in Sessions, GetChange(s)
  PROVE  IInv'
<1> DEFINE next == [reader[s] EXCEPT !.at = "pop"]
<1>1. /\ reader[s] \in Reading /\ session[s] \in Session /\ session \in [Sessions -> Session]
  BY DEF IInv, Typed
<1>2. /\ Reads(s, next) /\ UNCHANGED <<table, rows, writer, session, writes, disputed>>
      /\ reader[s].at = "ready" /\ ~session[s].overflowed
  BY DEF GetChange, Refused
<1>3. "pop" \in After \ {"answered"} /\ "ready" \in After \ {"answered"}
  BY DEF After
<1>4. next \in Reading /\ next.at = "pop" /\ View(next) = View(reader[s])
  BY <1>1, <1>3, TurnedTo
<1> HIDE DEF next
<1>5. session' = [session EXCEPT ![s] = session[s]]
  BY <1>1, <1>2, SessionSame
<1>6. Woken(s)'
  <2>1. reader'[s].at = "pop"
    BY <1>2, <1>4, ReadFields DEF IInv, Typed
  <2> QED BY <1>2, <2>1 DEF Woken
<1> QED BY <1>1, <1>2, <1>3, <1>4, <1>5, <1>6, PollTurn

LEMMA TimeOutStep ==
  ASSUME IInv, NEW s \in Sessions, TimeOut(s)
  PROVE  IInv'
<1> DEFINE next == [reader[s] EXCEPT !.at = "popAgain"]
<1>1. /\ reader[s] \in Reading /\ session[s] \in Session /\ session \in [Sessions -> Session]
  BY DEF IInv, Typed
<1>2. /\ Reads(s, next) /\ UNCHANGED <<table, rows, writer, session, writes, disputed>>
      /\ reader[s].at = "wait"
  BY DEF TimeOut
<1>3. "popAgain" \in After \ {"answered"} /\ "wait" \in After \ {"answered"}
  BY DEF After
<1>4. next \in Reading /\ next.at = "popAgain" /\ View(next) = View(reader[s])
  BY <1>1, <1>3, TurnedTo
<1> HIDE DEF next
<1>5. session' = [session EXCEPT ![s] = session[s]]
  BY <1>1, <1>2, SessionSame
<1>6. Woken(s)'
  <2>1. reader'[s].at = "popAgain"
    BY <1>2, <1>4, ReadFields DEF IInv, Typed
  <2> QED BY <2>1 DEF Woken
<1> QED BY <1>1, <1>2, <1>3, <1>4, <1>5, <1>6, PollTurn

LEMMA WakeStep ==
  ASSUME IInv, NEW s \in Sessions, Wake(s)
  PROVE  IInv'
<1> DEFINE next == [reader[s] EXCEPT !.at = "popAgain"]
           sess == [session[s] EXCEPT !.permit = FALSE]
<1>1. reader[s] \in Reading /\ session[s] \in Session
  BY DEF IInv, Typed
<1>2. /\ Reads(s, next) /\ UNCHANGED <<table, rows, writer, writes, disputed>>
      /\ session' = [session EXCEPT ![s] = sess] /\ reader[s].at = "wait"
  BY DEF Wake
<1>3. "popAgain" \in After \ {"answered"} /\ "wait" \in After \ {"answered"}
  BY DEF After
<1>4. next \in Reading /\ next.at = "popAgain" /\ View(next) = View(reader[s])
  BY <1>1, <1>3, TurnedTo
<1>5. /\ sess \in Session /\ sess.queue = session[s].queue /\ sess.live = session[s].live
      /\ sess.overflowed = session[s].overflowed /\ sess.subscribed = session[s].subscribed
  BY <1>1 DEF Session
<1> HIDE DEF next, sess
<1>6. Woken(s)'
  <2>1. reader'[s].at = "popAgain"
    BY <1>2, <1>4, ReadFields DEF IInv, Typed
  <2> QED BY <2>1 DEF Woken
<1> QED BY <1>1, <1>2, <1>3, <1>4, <1>5, <1>6, PollTurn

LEMMA HeadAndTail ==
  ASSUME NEW queue \in Seq(Chunk), queue # <<>>
  PROVE  /\ Head(queue) \in Chunk /\ Tail(queue) \in Seq(Chunk)
         /\ <<Head(queue)>> \in Seq(Chunk) /\ <<Head(queue)>> \o Tail(queue) = queue
         /\ Len(Tail(queue)) <= Len(queue) /\ Len(queue) \in Nat /\ Len(Tail(queue)) \in Nat
OBVIOUS

LEMMA PopStep ==
  ASSUME IInv, NEW s \in Sessions, Pop(s)
  PROVE  IInv'
<1> DEFINE queue == session[s].queue
<1>1. /\ reader[s] \in Reading /\ session[s] \in Session /\ session \in [Sessions -> Session]
      /\ queue \in Seq(Chunk) /\ Len(queue) <= MaxQueuedChunks
      /\ ReaderWorks(s) /\ Woken(s) /\ Whole(s) /\ Told(s)
  BY DEF IInv, Typed, ReaderWorks, Session
<1>2. /\ reader[s].at \in {"pop", "popAgain"} /\ UNCHANGED <<table, rows, writer, writes, disputed>>
  BY DEF Pop
<1>3. /\ reader[s].at \in After \ {"answered"} /\ "wait" \in After \ {"answered"}
      /\ "ready" \in After \ {"answered"} /\ "answered" \in After
  BY <1>2 DEF After
<1>4. CASE queue = <<>>
  <2> DEFINE at == IF reader[s].at = "pop" THEN "wait" ELSE "ready"
             next == [reader[s] EXCEPT !.at = at]
  <2>1. at \in After \ {"answered"}
    BY <1>3
  <2>2. Reads(s, next) /\ UNCHANGED session
    BY <1>4 DEF Pop
  <2>3. next \in Reading /\ next.at = at /\ View(next) = View(reader[s])
    BY <1>1, <2>1, TurnedTo
  <2> HIDE DEF next
  <2>4. session' = [session EXCEPT ![s] = session[s]]
    BY <1>1, <2>2, SessionSame
  <2>5. Woken(s)'
    <3>1. reader'[s].at = at
      BY <2>2, <2>3, ReadFields DEF IInv, Typed
    <3>2. CASE reader[s].at = "pop"
      BY <1>1, <1>2, <1>4, <2>2, <3>1, <3>2 DEF Woken
    <3>3. CASE reader[s].at # "pop"
      BY <3>1, <3>3 DEF Woken
    <3> QED BY <3>2, <3>3
  <2> HIDE DEF at
  <2> QED BY <1>1, <1>2, <1>3, <2>1, <2>2, <2>3, <2>4, <2>5, PollTurn
<1>5. CASE queue # <<>>
  <2> DEFINE next == [reader[s] EXCEPT !.at = "answered", !.chunk = Head(queue)]
             sess == [session[s] EXCEPT !.queue = Tail(queue)]
  <2>1. /\ Head(queue) \in Chunk /\ Tail(queue) \in Seq(Chunk)
        /\ <<Head(queue)>> \in Seq(Chunk) /\ <<Head(queue)>> \o Tail(queue) = queue
        /\ Len(Tail(queue)) <= Len(queue) /\ Len(queue) \in Nat /\ Len(Tail(queue)) \in Nat
    BY <1>1, <1>5, HeadAndTail
  <2>2. Reads(s, next) /\ session' = [session EXCEPT ![s] = sess]
    BY <1>5 DEF Pop
  <2>3. /\ next \in Reading /\ next.at = "answered" /\ next.chunk = Head(queue)
        /\ View(next) = View(reader[s]) /\ next.kind = reader[s].kind
    BY <1>1, <2>1 DEF Reading, After, View
  <2>4. /\ sess \in Session /\ sess.queue = Tail(queue) /\ sess.live = session[s].live
        /\ sess.overflowed = session[s].overflowed /\ sess.subscribed = session[s].subscribed
    BY <1>1, <2>1 DEF Session
  <2> HIDE DEF next, sess
  <2>5. /\ session' \in [Sessions -> Session] /\ session'[s] = sess
        /\ \A t \in Sessions \ {s} : session'[t] = session[t]
    BY <2>2, <2>4, SessionFields DEF IInv, Typed
  <2>6. /\ reader' \in [Sessions -> Reading] /\ reader'[s] = next
        /\ \A t \in Sessions \ {s} : reader'[t] = reader[t]
    BY <2>2, <2>3, ReadFields DEF IInv, Typed
  <2>7. Typed'
    BY <1>2, <2>5, <2>6 DEF IInv, Typed
  <2>8. ReaderWorks(s)'
    <3>1. Len(Tail(queue)) <= MaxQueuedChunks
      BY <1>1, <2>1, CeilingAssumption
    <3>2. session[s].subscribed
      BY <1>1, <1>2 DEF ReaderWorks, Before
    <3> QED BY <2>1, <2>3, <2>4, <2>5, <2>6, <3>1, <3>2 DEF ReaderWorks, Before
  <2>9. Woken(s)'
    BY <2>3, <2>6 DEF Woken
  <2>10. Whole(s)'
    <3> SUFFICES ASSUME ~session[s].overflowed PROVE Run(Ahead(s)')
      BY <2>4, <2>5 DEF Whole
    <3>1. Run(InHand(reader[s]) \o KindsOf(queue))
      BY <1>1, <1>2, AheadFields DEF Whole
    <3> DEFINE before == IF reader[s].kind = NONE THEN <<>> ELSE <<reader[s].kind>>
               one == <<Head(queue).kind>>
               rest == KindsOf(Tail(queue))
    <3>2. before \in Seq(ChunkKinds)
      <4>1. reader[s].kind # NONE => reader[s].kind \in ChunkKinds
        BY <1>1 DEF Reading, ChunkKinds
      <4> QED BY <4>1
    <3>3. one \in Seq(ChunkKinds) /\ rest \in Seq(ChunkKinds)
      <4>1. Head(queue).kind \in ChunkKinds
        BY <2>1, ChunkFields DEF ChunkKinds
      <4>2. one \in Seq(ChunkKinds)
        BY <4>1
      <4> DEFINE tail == Tail(queue)
      <4>3. tail \in Seq(Chunk)
        BY <2>1
      <4> HIDE DEF tail
      <4>4. KindsOf(tail) \in Seq(ChunkKinds)
        BY <4>3, KindsType
      <4> QED BY <4>2, <4>4 DEF tail
    <3>4. KindsOf(queue) = one \o rest
      <4>1. KindsOf(queue) = KindsOf(<<Head(queue)>>) \o rest
        BY <2>1, KindsBoth
      <4>2. KindsOf(<<Head(queue)>>) = one
        BY DEF KindsOf
      <4> QED BY <4>1, <4>2
    <3>5. InHand(reader[s]) = before
      <4>1. InHand(reader[s]) = before \o <<>>
        BY <1>2 DEF InHand
      <4> HIDE DEF before
      <4> QED BY <3>2, <4>1
    <3>6. Ahead(s)' = (before \o one) \o rest
      BY <2>3, <2>4, <2>5, <2>6 DEF Ahead, KindsOf
    <3> HIDE DEF before, one, rest
    <3>7. before \in Seq(ChunkKinds) /\ one \in Seq(ChunkKinds) /\ rest \in Seq(ChunkKinds)
      BY <3>2, <3>3
    <3>8. (before \o one) \o rest = before \o (one \o rest)
      BY <3>7, ConcatAssociates
    <3> QED BY <3>1, <3>4, <3>5, <3>6, <3>8
  <2>11. Told(s)'
    <3>1. Known(s)' = Known(s) /\ Current' = Current
      BY <1>2, KnownSame DEF Current
    <3>2. Coming(s)' = queue /\ Coming(s) = queue
      BY <1>2, <2>1, <2>3, <2>4, <2>5, <2>6 DEF Coming
    <3>3. next.at \in After /\ next.at \notin Before /\ reader[s].at \in After
      BY <1>2, <2>3 DEF Before, After
    <3> QED BY <1>1, <2>3, <2>4, <2>5, <2>6, <3>1, <3>2, <3>3 DEF Told
  <2> QED BY <1>2, <2>5, <2>6, <2>7, <2>8, <2>9, <2>10, <2>11, ReaderSide
<1> QED BY <1>4, <1>5

(* What is left of a run once its first kinds are taken off: a run again, if  *)
(* the last of them was of no batch or the batch goes on.                    *)
LEMMA RunRest ==
  ASSUME NEW one \in Seq(ChunkKinds), one # <<>>, NEW rest \in Seq(ChunkKinds),
         Run(one \o rest),
         (one[Len(one)] \notin BatchKinds \/ (rest # <<>> /\ rest[1] \in BatchKinds))
  PROVE  Run(rest)
<1> DEFINE all == one \o rest
           m == Len(one)
<1>1. /\ Len(rest) \in Nat /\ m \in Nat \ {0} /\ Len(all) = m + Len(rest) /\ all[m] = one[m]
      /\ DOMAIN rest = 1..Len(rest) /\ DOMAIN all = 1..(m + Len(rest))
      /\ \A n \in 1..Len(rest) : all[n + m] = rest[n]
  OBVIOUS
<1>0. one[m] \notin BatchKinds \/ (rest # <<>> /\ rest[1] \in BatchKinds)
  OBVIOUS
<1>2. Run(all)
  OBVIOUS
<1> HIDE DEF all, m
<1>3. ASSUME NEW n \in 1..Len(rest)
      PROVE  /\ rest[n] \in BatchKinds =>
                  n < Len(rest) /\ rest[n + 1] \in {rest[n], End(rest[n])}
             /\ \A kind \in BatchKinds :
                  rest[n] = End(kind) => n > 1 /\ rest[n - 1] = kind
  <2>1. n + m \in DOMAIN all /\ all[n + m] = rest[n]
    BY <1>1
  <2>2. ASSUME rest[n] \in BatchKinds
        PROVE  n < Len(rest) /\ rest[n + 1] \in {rest[n], End(rest[n])}
    <3>1. n + m < Len(all) /\ all[(n + m) + 1] \in {rest[n], End(rest[n])}
      BY <1>2, <2>1, <2>2 DEF Run
    <3>2. n < Len(rest)
      BY <1>1, <3>1
    <3>3. n + 1 \in 1..Len(rest) /\ (n + m) + 1 = (n + 1) + m
      BY <1>1, <3>2
    <3>4. all[(n + m) + 1] = rest[n + 1]
      BY <1>1, <3>3
    <3> QED BY <3>1, <3>2, <3>4
  <2>3. ASSUME NEW kind \in BatchKinds, rest[n] = End(kind)
        PROVE  n > 1 /\ rest[n - 1] = kind
    <3>1. all[(n + m) - 1] = kind
      BY <1>2, <2>1, <2>3 DEF Run
    <3>2. CASE n = 1
      <4>1. (n + m) - 1 = m
        BY <1>1, <3>2
      <4>2. one[m] = kind
        BY <1>1, <3>1, <4>1
      <4>3. End(kind) \in BatchKinds
        BY <1>0, <2>3, <3>2, <4>2
      <4> QED BY <4>3, EndKinds
    <3>3. CASE n # 1
      <4>1. n - 1 \in 1..Len(rest) /\ (n + m) - 1 = (n - 1) + m
        BY <1>1, <3>3
      <4>2. all[(n + m) - 1] = rest[n - 1]
        BY <1>1, <4>1
      <4> QED BY <3>1, <3>3, <4>2
    <3> QED BY <3>2, <3>3
  <2> QED BY <2>2, <2>3
<1> QED BY <1>1, <1>3 DEF Run

(* In a run, records are followed by more of them or by their End, and       *)
(* nothing else is.                                                         *)
LEMMA RunPair ==
  ASSUME NEW a \in ChunkKinds, NEW b \in ChunkKinds, NEW rest \in Seq(ChunkKinds),
         Run(<<a>> \o (<<b>> \o rest))
  PROVE  /\ a \in BatchKinds => b \in {a, End(a)}
         /\ \A kind \in BatchKinds : b = End(kind) => a = kind
<1> DEFINE more == <<b>> \o rest
           all == <<a>> \o more
<1>1. more \in Seq(ChunkKinds) /\ Len(more) = Len(rest) + 1 /\ Len(rest) \in Nat /\ more[1] = b
  OBVIOUS
<1> HIDE DEF more
<1>2. all[1] = a /\ all[2] = more[1] /\ DOMAIN all = 1..(Len(more) + 1)
  BY <1>1
<1>3. 1 \in DOMAIN all /\ 2 \in DOMAIN all /\ 1 + 1 = 2 /\ 2 - 1 = 1
  BY <1>1, <1>2
<1>4. Run(all)
  BY DEF more
<1> HIDE DEF all
<1>5. a \in BatchKinds => b \in {a, End(a)}
  BY <1>1, <1>2, <1>3, <1>4 DEF Run
<1>6. ASSUME NEW kind \in BatchKinds, b = End(kind) PROVE a = kind
  BY <1>1, <1>2, <1>3, <1>4, <1>6 DEF Run
<1> QED BY <1>5, <1>6

LEMMA RunHead ==
  ASSUME NEW b \in ChunkKinds, NEW rest \in Seq(ChunkKinds), Run(<<b>> \o rest)
  PROVE  \A kind \in BatchKinds : b # End(kind)
<1> DEFINE all == <<b>> \o rest
<1>1. all[1] = b /\ 1 \in DOMAIN all /\ ~(1 > 1)
  OBVIOUS
<1>2. Run(all)
  OBVIOUS
<1> HIDE DEF all
<1> QED BY <1>1, <1>2 DEF Run

(* What remains ahead of a reader that has taken in a chunk. *)
Begun(kind) == IF kind = NONE THEN <<>> ELSE <<kind>>

LEMMA RunTaken ==
  ASSUME NEW v \in Views, NEW chunk \in Chunk, NEW rest \in Seq(ChunkKinds),
         Run(Begun(v.kind) \o (<<chunk.kind>> \o rest))
  PROVE  Run(Begun(TakenIn(v, chunk).kind) \o rest)
<1>1. PICK a, b, c : a = v.kind /\ b = chunk.kind /\ c = TakenIn(v, chunk).kind
  OBVIOUS
<1>2. /\ b \in BatchKinds \cup {"updateEnd", "deleteEnd", "initEnd"}
                 \cup {"clean", "cleanPartitions", "deleteTable"}
      /\ b \in ChunkKinds /\ a \in BatchKinds \cup {NONE} /\ NONE \notin BatchKinds
  BY <1>1, ViewFields, ChunkFields, NoneAssumption DEF ChunkKinds, BatchKinds
<1>3. /\ b \in BatchKinds => c = b
      /\ b \in {"updateEnd", "deleteEnd", "initEnd"} => c = NONE
      /\ b \in {"clean", "cleanPartitions", "deleteTable"} => c = a
  <2>1. b \in BatchKinds => c = b
    BY <1>1, TakesRecords
  <2>2. b \in {"updateEnd", "deleteEnd"} => c = NONE
    BY <1>1, TakesEnd DEF Fresh
  <2>3. b = "initEnd" => c = NONE
    <3>1. \A cache : Fresh(cache).kind = NONE
      BY DEF Fresh
    <3>2. b = "initEnd" => TakenIn(v, chunk) =
            Fresh(Overlay(Overlay(v.cache, Removed(SamePartition(DOMAIN v.batch))), v.batch))
      BY <1>1, TakesEnd
    <3> QED BY <1>1, <3>1, <3>2
  <2>4. b \in {"clean", "cleanPartitions", "deleteTable"} => c = a
    BY <1>1, TakesInstruction
  <2> QED BY <2>1, <2>2, <2>3, <2>4
<1>4. /\ \A x \in {"updateEnd", "deleteEnd", "initEnd"} :
           x \notin BatchKinds /\ \E y \in BatchKinds : x = End(y)
      /\ \A x \in {"clean", "cleanPartitions", "deleteTable"} : x \notin BatchKinds
      /\ \A x \in BatchKinds, y \in {"clean", "cleanPartitions", "deleteTable"} : End(x) # y
      /\ BatchKinds \subseteq ChunkKinds
  BY DEF BatchKinds, End, ChunkKinds
<1>5. Run(Begun(a) \o (<<b>> \o rest))
  BY <1>1
<1>6. CASE a = NONE
  <2>1. Begun(a) \o (<<b>> \o rest) = <<b>> \o rest
    BY <1>2, <1>6 DEF Begun
  <2>2. Run(<<b>> \o rest)
    BY <1>5, <2>1
  <2>3. b \notin {"updateEnd", "deleteEnd", "initEnd"}
    BY <1>2, <1>4, <2>2, RunHead
  <2>4. CASE b \in BatchKinds
    <3>1. Begun(c) = <<b>>
      BY <1>2, <1>3, <2>4 DEF Begun
    <3> QED BY <1>1, <2>2, <3>1
  <2>5. CASE b \in {"clean", "cleanPartitions", "deleteTable"}
    <3>1. <<b>> \in Seq(ChunkKinds) /\ <<b>> # <<>> /\ <<b>>[Len(<<b>>)] = b
      BY <1>2
    <3>2. Run(rest)
      BY <1>4, <2>2, <2>5, <3>1, RunRest
    <3>3. Begun(c) \o rest = rest
      BY <1>3, <1>6, <2>5 DEF Begun
    <3> QED BY <1>1, <3>2, <3>3
  <2> QED BY <1>2, <2>3, <2>4, <2>5
<1>7. CASE a \in BatchKinds
  <2> DEFINE more == <<b>> \o rest
  <2>1. Begun(a) = <<a>> /\ a \in ChunkKinds
    BY <1>2, <1>4, <1>7 DEF Begun
  <2>2. Run(<<a>> \o more)
    BY <1>5, <2>1
  <2>3. b \in {a, End(a)}
    BY <1>2, <1>7, <2>1, <2>2, RunPair
  <2>4. CASE b = a
    <3>1. /\ <<a>> \in Seq(ChunkKinds) /\ <<a>> # <<>> /\ more \in Seq(ChunkKinds)
          /\ more # <<>> /\ more[1] = b
      BY <1>2, <2>1
    <3>2. Begun(c) = <<b>>
      BY <1>2, <1>3, <1>7, <2>4 DEF Begun
    <3> HIDE DEF more
    <3>3. Run(more)
      BY <1>7, <2>2, <2>4, <3>1, RunRest
    <3> QED BY <1>1, <3>2, <3>3 DEF more
  <2>5. CASE b = End(a)
    <3> DEFINE one == <<a>> \o <<b>>
    <3>0. <<a>> \in Seq(ChunkKinds) /\ <<b>> \in Seq(ChunkKinds)
      BY <1>2, <2>1
    <3>1. one \in Seq(ChunkKinds) /\ one # <<>> /\ one[Len(one)] = b /\ one \o rest = <<a>> \o more
      <4>1. one \in Seq(ChunkKinds) /\ one # <<>> /\ one[Len(one)] = b
        BY <3>0
      <4>2. (<<a>> \o <<b>>) \o rest = <<a>> \o (<<b>> \o rest)
        BY <3>0, ConcatAssociates
      <4> QED BY <4>1, <4>2
    <3>2. b \in {"updateEnd", "deleteEnd", "initEnd"}
      BY <1>7, <2>5, EndKinds
    <3> HIDE DEF one, more
    <3>3. Run(rest)
      BY <1>4, <2>2, <3>1, <3>2, RunRest
    <3>4. Begun(c) \o rest = rest
      BY <1>3, <3>2 DEF Begun
    <3> QED BY <1>1, <3>3, <3>4
  <2> QED BY <2>3, <2>4, <2>5
<1> QED BY <1>2, <1>6, <1>7

LEMMA ReadingsEqual ==
  ASSUME NEW r \in Reading, NEW q \in Reading, r.at = q.at, r.inst = q.inst, r.chunk = q.chunk,
         r.cache = q.cache, r.kind = q.kind, r.batch = q.batch
  PROVE  r = q
BY DEF Reading

(* The reader takes in what its view does. *)
LEMMA ReadingTakes ==
  ASSUME NEW r \in Reading, NEW chunk \in Chunk, NEW v, v = TakenIn(View(r), chunk)
  PROVE  TakenIn(r, chunk) = [at |-> r.at, inst |-> r.inst, chunk |-> r.chunk,
                              cache |-> v.cache, kind |-> v.kind, batch |-> v.batch]
<1> DEFINE q == [at |-> r.at, inst |-> r.inst, chunk |-> r.chunk,
                 cache |-> v.cache, kind |-> v.kind, batch |-> v.batch]
           taken == TakenIn(r, chunk)
<1>1. /\ View(r) \in Views /\ View(r).cache = r.cache /\ View(r).kind = r.kind
      /\ View(r).batch = r.batch
  BY ReaderViews DEF View
<1>2. /\ v.cache \in Contents /\ v.kind \in BatchKinds \cup {NONE} /\ v.batch \in Partial(Content)
  <2>1. v \in Views
    BY <1>1, TakenInType
  <2> QED BY <2>1, ViewFields
<1>3. /\ q \in Reading /\ q.at = r.at /\ q.inst = r.inst /\ q.chunk = r.chunk
      /\ q.cache = v.cache /\ q.kind = v.kind /\ q.batch = v.batch
  BY <1>2 DEF Reading
<1> HIDE DEF q
<1>4. /\ taken \in Reading /\ taken.at = r.at /\ taken.inst = r.inst /\ taken.chunk = r.chunk
      /\ taken.cache = v.cache /\ taken.kind = v.kind /\ taken.batch = v.batch
  <2>1. CASE chunk.kind \in BatchKinds
    <3>1. v.cache = r.cache /\ v.kind = chunk.kind /\ v.batch = Overlay(r.batch, chunk.rows)
      BY <1>1, <2>1, TakesRecords
    <3>2. taken = [r EXCEPT !.kind = chunk.kind, !.batch = Overlay(r.batch, chunk.rows)]
      BY <2>1 DEF TakenIn, BatchKinds
    <3>3. taken = [r EXCEPT !.kind = v.kind, !.batch = v.batch]
      BY <3>1, <3>2
    <3> HIDE DEF taken
    <3> QED BY <1>2, <3>1, <3>3 DEF Reading
  <2>2. CASE chunk.kind \in {"updateEnd", "deleteEnd", "initEnd"}
    <3> DEFINE content == IF chunk.kind = "initEnd"
                          THEN Overlay(Overlay(r.cache, Removed(SamePartition(DOMAIN r.batch))), r.batch)
                          ELSE Overlay(r.cache, r.batch)
    <3>1. v = Fresh(content)
      <4>1. CASE chunk.kind = "initEnd"
        BY <1>1, <4>1, TakesEnd
      <4>2. CASE chunk.kind # "initEnd"
        BY <1>1, <2>2, <4>2, TakesEnd
      <4> QED BY <4>1, <4>2
    <3>2. taken = [r EXCEPT !.cache = content, !.kind = NONE, !.batch = Nothing]
      BY <2>2 DEF TakenIn
    <3> HIDE DEF content, taken
    <3>3. v.cache = content /\ v.kind = NONE /\ v.batch = Nothing
      BY <3>1 DEF Fresh
    <3>4. taken = [r EXCEPT !.cache = v.cache, !.kind = v.kind, !.batch = v.batch]
      BY <3>2, <3>3
    <3> QED BY <1>2, <3>4 DEF Reading
  <2>3. CASE chunk.kind \in {"clean", "cleanPartitions", "deleteTable"}
    <3> DEFINE content == IF chunk.kind = "cleanPartitions" THEN Overlay(r.cache, chunk.rows)
                          ELSE NoRows
    <3>1. v.cache = content /\ v.kind = r.kind /\ v.batch = r.batch
      <4>1. CASE chunk.kind = "cleanPartitions"
        BY <1>1, <4>1, TakesInstruction
      <4>2. CASE chunk.kind # "cleanPartitions"
        BY <1>1, <2>3, <4>2, TakesInstruction
      <4> QED BY <4>1, <4>2
    <3>2. taken = [r EXCEPT !.cache = content]
      BY <2>3 DEF TakenIn
    <3> HIDE DEF content, taken
    <3>3. taken = [r EXCEPT !.cache = v.cache]
      BY <3>1, <3>2
    <3> QED BY <1>2, <3>1, <3>3 DEF Reading
  <2> QED BY <2>1, <2>2, <2>3, ChunkFields
<1> HIDE DEF taken
<1>5. taken = q
  BY <1>3, <1>4, ReadingsEqual
<1> QED BY <1>5 DEF taken, q

LEMMA TakeInStep ==
  ASSUME IInv, NEW s \in Sessions, TakeIn(s)
  PROVE  IInv'
<1> DEFINE r == reader[s]
           chunk == r.chunk
           queue == session[s].queue
           next == [TakenIn(r, chunk) EXCEPT !.at = "ready", !.chunk = NONE]
           v == TakenIn(View(r), chunk)
<1>1. /\ r \in Reading /\ session[s] \in Session /\ queue \in Seq(Chunk)
      /\ ReaderWorks(s) /\ Woken(s) /\ Whole(s) /\ Told(s)
      /\ r.at = "answered" /\ chunk \in Chunk
  BY DEF IInv, Typed, ReaderWorks, Session, TakeIn
<1>2. Reads(s, next) /\ UNCHANGED <<table, rows, writer, session, writes, disputed>>
  BY DEF TakeIn
<1>3. /\ v \in Views /\ View(r) \in Views
      /\ v.cache \in Contents /\ v.kind \in BatchKinds \cup {NONE} /\ v.batch \in Partial(Content)
      /\ v = [cache |-> v.cache, kind |-> v.kind, batch |-> v.batch]
  <2>1. View(r) \in Views /\ v \in Views
    BY <1>1, ReaderViews, TakenInType
  <2> HIDE DEF v
  <2> QED BY <2>1, ViewFields
<1>4. TakenIn(r, chunk) = [at |-> r.at, inst |-> r.inst, chunk |-> r.chunk,
                           cache |-> v.cache, kind |-> v.kind, batch |-> v.batch]
  BY <1>1, ReadingTakes
<1> HIDE DEF v
<1>5. next = [at |-> "ready", inst |-> r.inst, chunk |-> NONE,
              cache |-> v.cache, kind |-> v.kind, batch |-> v.batch]
  <2> DEFINE taken == [at |-> r.at, inst |-> r.inst, chunk |-> r.chunk,
                       cache |-> v.cache, kind |-> v.kind, batch |-> v.batch]
             left == [taken EXCEPT !.at = "ready", !.chunk = NONE]
             q == [at |-> "ready", inst |-> r.inst, chunk |-> NONE,
                   cache |-> v.cache, kind |-> v.kind, batch |-> v.batch]
  <2>1. next = left
    BY <1>4
  <2>2. /\ q \in Reading /\ q.at = "ready" /\ q.inst = r.inst /\ q.chunk = NONE
        /\ q.cache = v.cache /\ q.kind = v.kind /\ q.batch = v.batch
    BY <1>1, <1>3 DEF Reading, After
  <2>3. /\ left \in Reading /\ left.at = "ready" /\ left.inst = r.inst /\ left.chunk = NONE
        /\ left.cache = v.cache /\ left.kind = v.kind /\ left.batch = v.batch
    BY <1>1, <1>3 DEF Reading, After
  <2> HIDE DEF next, left, q
  <2>4. left = q
    BY <2>2, <2>3, ReadingsEqual
  <2> QED BY <2>1, <2>4 DEF q
<1> HIDE DEF next
<1>6. next \in Reading /\ next.at = "ready" /\ View(next) = v /\ next.kind = v.kind
  BY <1>1, <1>3, <1>5 DEF Reading, After, View
<1>7. /\ reader' \in [Sessions -> Reading] /\ reader'[s] = next
      /\ \A t \in Sessions \ {s} : reader'[t] = reader[t]
  BY <1>2, <1>6, ReadFields DEF IInv, Typed
<1>8. Typed'
  BY <1>2, <1>7 DEF IInv, Typed
<1>9. ReaderWorks(s)'
  <2>1. session[s].subscribed
    BY <1>1 DEF ReaderWorks, Before
  <2> QED BY <1>1, <1>2, <1>6, <1>7, <2>1 DEF ReaderWorks, Before
<1>10. Woken(s)'
  BY <1>6, <1>7 DEF Woken
<1>11. Whole(s)'
  <2> SUFFICES ASSUME ~session[s].overflowed PROVE Run(Ahead(s)')
    BY <1>2 DEF Whole
  <2> DEFINE rest == KindsOf(queue)
             kinds == Begun(r.kind)
             hand == <<chunk.kind>>
  <2>1. rest \in Seq(ChunkKinds)
    <3> HIDE DEF queue
    <3> QED BY <1>1, KindsType
  <2>2. kinds \in Seq(ChunkKinds)
    <3>1. r.kind # NONE => r.kind \in ChunkKinds
      BY <1>1 DEF Reading, ChunkKinds
    <3> QED BY <3>1 DEF Begun
  <2>3. hand \in Seq(ChunkKinds)
    <3>1. chunk.kind \in ChunkKinds
      BY <1>1, ChunkFields DEF ChunkKinds
    <3> QED BY <3>1
  <2>4. Ahead(s) = (kinds \o hand) \o rest
    BY <1>1 DEF Ahead, Begun, KindsOf
  <2>5. Run(Ahead(s))
    BY <1>1 DEF Whole
  <2> HIDE DEF rest, kinds, hand
  <2>6. (kinds \o hand) \o rest = kinds \o (hand \o rest)
    BY <2>1, <2>2, <2>3, ConcatAssociates
  <2>7. Run(kinds \o (hand \o rest))
    BY <2>4, <2>5, <2>6
  <2>8. Run(Begun(v.kind) \o rest)
    <3>1. View(r).kind = r.kind
      BY DEF View
    <3> QED BY <1>1, <1>3, <2>1, <2>7, <3>1, RunTaken DEF v, kinds, hand
  <2>9. Ahead(s)' = Begun(v.kind) \o rest
    <3>1. Ahead(s)' = (Begun(v.kind) \o <<>>) \o rest
      BY <1>2, <1>6, <1>7 DEF Ahead, Begun, rest, KindsOf
    <3>2. Begun(v.kind) \in Seq(BatchKinds)
      <4>1. v.kind # NONE => v.kind \in BatchKinds
        BY <1>3
      <4> QED BY <4>1 DEF Begun
    <3>3. Begun(v.kind) \o <<>> = Begun(v.kind)
      BY <3>2
    <3> QED BY <3>1, <3>3
  <2> QED BY <2>8, <2>9
<1>12. Told(s)'
  <2> SUFFICES ASSUME session[s].live, ~session[s].overflowed
               PROVE  Told(s)'
    BY <1>2 DEF Told
  <2>1. Coming(s) = <<chunk>> \o queue
    BY <1>1 DEF Coming
  <2>2. r.at \in After
    BY <1>1 DEF After
  <2>3. PICK then \in Contents :
          /\ Follows(View(r), <<chunk>> \o queue, Fresh(then))
          /\ \A k \in Known(s) : then[k] = Current[k]
    BY <1>1, <2>1, <2>2 DEF Told
  <2>4. Follows(v, queue, Fresh(then))
    BY <1>1, <2>3, FollowsRest DEF v
  <2>5. Known(s)' = Known(s) /\ Current' = Current
    BY <1>2, KnownSame DEF Current
  <2>6. Coming(s)' = queue
    BY <1>2, <1>6, <1>7 DEF Coming
  <2>7. next.at \in After /\ next.at \notin Before
    BY <1>6 DEF Before, After
  <2> QED BY <1>2, <1>6, <1>7, <2>3, <2>4, <2>5, <2>6, <2>7 DEF Told
<1> QED BY <1>2, <1>7, <1>8, <1>9, <1>10, <1>11, <1>12, ReaderSide

-----------------------------------------------------------------------------

LEMMA StepHolds == IInv /\ [Next]_vars => IInv'
<1> SUFFICES ASSUME IInv, [Next]_vars PROVE IInv'
  OBVIOUS
<1>1. ASSUME NEW w \in Writers, WriterStep(w) PROVE IInv'
  <2>1. ASSUME writer[w].inst # NONE, NEW call \in Calls(rows[writer[w].inst]), Change(w, call)
        PROVE  IInv'
    BY <2>1, ChangeStep
  <2>2. ASSUME NEW s \in Sessions, Push(w, s) \/ Notify(w, s) PROVE IInv'
    BY <2>2, PushStep, NotifyStep
  <2> QED BY <1>1, <2>1, <2>2, ResolveStep, NothingToDoStep, DeleteTableStep, CleanDeletedStep,
             AnnounceStep, AnnouncedStep DEF WriterStep
<1>2. ASSUME NEW i \in Instances, CreateTable(i) PROVE IInv'
  BY <1>2, CreateTableStep
<1>3. ASSUME NEW s \in Sessions, ReaderStep(s) \/ TimeOut(s) \/ Leave(s) \/ Collect(s) PROVE IInv'
  BY <1>3, GreetingStep, StartOverStep, SubscribeLookUpStep, SubscribeEarlyStep, LookAgainStep,
     SnapshotStep, GetChangeStep, PopStep, WakeStep, TakeInStep, TimeOutStep, LeaveStep, CollectStep
     DEF ReaderStep
<1>4. CASE UNCHANGED vars
  <2>1. /\ table' = table /\ rows' = rows /\ writer' = writer /\ session' = session
        /\ reader' = reader /\ writes' = writes /\ disputed' = disputed
    BY <1>4 DEF vars
  <2>2. Typed'
    BY <2>1 DEF IInv, Typed
  <2>3. Current' = Current
    BY <2>1 DEF Current
  <2>4. ASSUME NEW w \in Writers PROVE WriterWorks(w)' /\ Truthful(w)'
    <3>1. WriterWorks(w) /\ Truthful(w)
      BY DEF IInv
    <3>2. writer[w].at = "removed" => writer[w].inst # table'
      BY <2>1, <3>1 DEF WriterWorks
    <3> QED BY <2>1, <2>3, <3>1, <3>2, WriterKeeps, TruthKeeps
  <2>5. ASSUME NEW s \in Sessions PROVE ReaderWorks(s)' /\ Woken(s)' /\ Whole(s)' /\ Told(s)'
    <3>1. ReaderWorks(s) /\ Woken(s) /\ Whole(s) /\ Told(s) /\ Known(s)' = Known(s)
      BY <2>1, KnownSame DEF IInv
    <3> QED BY <2>1, <2>3, <3>1, ReaderKeeps, WakingKeeps, WholeKeeps, ToldKeeps
  <2> QED BY <2>2, <2>4, <2>5 DEF IInv
<1> QED BY <1>1, <1>2, <1>3, <1>4 DEF Next

(* The inductive invariant holds in every behaviour: what writers are about  *)
(* to tell is so, and every queue leads its reader to what the table holds.   *)
THEOREM InvariantHolds == Spec => []IInv
<1>1. Init => IInv
  BY InitHolds
<1>2. IInv /\ [Next]_vars => IInv'
  BY StepHolds
<1> QED BY <1>1, <1>2, PTL DEF Spec

LEMMA TypesFollow == IInv => TypeOK
<1> SUFFICES ASSUME IInv PROVE TypeOK
  OBVIOUS
<1>1. /\ table \in Instances \cup {NONE} /\ rows \in [Instances -> [Keys -> Content]]
      /\ writes \in 0 .. MaxWrites /\ disputed \in [Sessions -> SUBSET Keys]
  BY DEF IInv, Typed, Contents
<1>2. ASSUME NEW w \in Writers
      PROVE  /\ writer[w].at \in {"idle", "resolved", "removed", "announce", "push"}
             /\ writer[w].inst \in Instances \cup {NONE}
             /\ writer[w].touched \subseteq Keys
             /\ \A n \in DOMAIN writer[w].chunks : writer[w].chunks[n] \in Chunk
             /\ writer[w].to \cup writer[w].notify \subseteq Sessions
  <2>1. writer[w] \in Writing
    BY DEF IInv, Typed
  <2>2. /\ writer[w].at \in WriterStates /\ writer[w].inst \in Instances \cup {NONE}
        /\ writer[w].touched \subseteq Keys /\ writer[w].chunks \in Seq(Chunk)
        /\ writer[w].to \cup writer[w].notify \subseteq Sessions
    BY <2>1 DEF Writing
  <2>3. \A n \in DOMAIN writer[w].chunks : writer[w].chunks[n] \in Chunk
    BY <2>2
  <2> QED BY <2>2, <2>3 DEF WriterStates
<1>3. ASSUME NEW s \in Sessions
      PROVE  /\ session[s].live \in BOOLEAN /\ session[s].subscribed \in BOOLEAN
             /\ session[s].overflowed \in BOOLEAN /\ session[s].permit \in BOOLEAN
             /\ Len(session[s].queue) <= MaxQueuedChunks
             /\ \A n \in DOMAIN session[s].queue : session[s].queue[n] \in Chunk
             /\ reader[s].at \in {"away", "greeted", "missing", "registered", "found", "ready",
                                  "pop", "wait", "popAgain", "answered"}
             /\ reader[s].cache \in [Keys -> Content] /\ reader[s].batch \in Partial(Content)
  <2>1. session[s] \in Session /\ reader[s] \in Reading /\ Len(session[s].queue) <= MaxQueuedChunks
    BY DEF IInv, Typed, ReaderWorks
  <2>2. /\ session[s].live \in BOOLEAN /\ session[s].subscribed \in BOOLEAN
        /\ session[s].overflowed \in BOOLEAN /\ session[s].permit \in BOOLEAN
        /\ session[s].queue \in Seq(Chunk)
    BY <2>1 DEF Session
  <2>3. \A n \in DOMAIN session[s].queue : session[s].queue[n] \in Chunk
    BY <2>2
  <2>4. /\ reader[s].at \in {"away"} \cup Before \cup After
        /\ reader[s].cache \in Contents /\ reader[s].batch \in Partial(Content)
    BY <2>1 DEF Reading
  <2> QED BY <2>1, <2>2, <2>3, <2>4 DEF Before, After, Contents
<1> QED BY <1>1, <1>2, <1>3 DEF TypeOK

LEMMA AgreementFollows == IInv => CachesAgree
<1> SUFFICES ASSUME IInv, NEW s \in Sessions, CaughtUp(s), NEW k \in Keys \ disputed[s]
             PROVE  reader[s].cache[k] = Current[k]
  BY DEF CachesAgree
<1>1. /\ session[s].live /\ ~session[s].overflowed /\ session[s].queue = <<>>
      /\ reader[s].at \in {"ready", "wait"} /\ \A w \in Writers : ~Owes(w, s)
  BY DEF CaughtUp
<1>2. reader[s].at \in After /\ Coming(s) = <<>>
  BY <1>1 DEF After, Coming
<1>3. PICK then \in Contents :
        /\ Follows(View(reader[s]), <<>>, Fresh(then))
        /\ \A x \in Known(s) : then[x] = Current[x]
  BY <1>1, <1>2 DEF IInv, Told
<1>4. Fresh(then) = View(reader[s])
  BY <1>3, FollowsNone
<1>5. then = reader[s].cache
  BY <1>4 DEF Fresh, View
<1>6. k \in Known(s)
  BY <1>1, KnownFields
<1> QED BY <1>3, <1>5, <1>6

LEMMA WakeupsFollow == IInv => NoLostWakeup
BY DEF IInv, Woken, NoLostWakeup

LEMMA BatchesFollow == IInv => BatchesStayWhole
BY DEF IInv, Whole, Run, BatchesStayWhole

(* For any number of keys, writers and sessions, and any ceilings: a reader   *)
(* that has been told everything holds what the table holds, except for keys  *)
(* whose announcements crossed or that were written to a deleted table        *)
(* (sync.rs:20-270, reader_session.rs:100-200).                               *)
THEOREM CachesAgreeAlways == Spec => []CachesAgree
BY InvariantHolds, AgreementFollows, PTL

(* A poll that waits while something is queued for it, or after its backlog   *)
(* was thrown away, has a notification stored or on its way                   *)
(* (reader_session.rs push, get_next).                                        *)
THEOREM NoWakeupIsLost == Spec => []NoLostWakeup
BY InvariantHolds, WakeupsFollow, PTL

(* Whatever is cut is closed and comes through uninterrupted, whoever else    *)
(* pushes to the session and wherever the queue is cut by the reader's polls. *)
THEOREM BatchesArriveWhole == Spec => []BatchesStayWhole
BY InvariantHolds, BatchesFollow, PTL

(* All the safety invariants together. *)
THEOREM ReaderSyncCorrect == Spec => []Inv
<1>1. IInv => Inv
  BY TypesFollow, AgreementFollows, WakeupsFollow, BatchesFollow DEF Inv
<1> QED BY <1>1, InvariantHolds, PTL
=============================================================================
