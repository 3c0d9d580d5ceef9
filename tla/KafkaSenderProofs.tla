-------------------------- MODULE KafkaSenderProofs --------------------------
(***************************************************************************)
(* Proofs about KafkaSender, for a batch of any size.                       *)
(*                                                                          *)
(* The argument is about the slots of the array: the n-th goroutine to read *)
(* the length owns one of the slots 0 .. n-1, possibly together with others, *)
(* and below a slot that is owned all slots are owned.  So there is room    *)
(* for each append, and each element of the slice that SendEvents returns   *)
(* has been written, last by one of the owners of its slot: it is the index *)
(* of an event that failed, and no two slots hold the same one.             *)
(***************************************************************************)
EXTENDS KafkaSender, FiniteSetTheorems, TLAPS

\* The loop starts the goroutines in order; only a goroutine whose event has
\* failed appends, and only while it appends are its stores outstanding.
Lifecycle ==
  /\ \A j \in Index : pc[j] = "unborn" <=> j >= spawned
  /\ \A j \in failed : pc[j] \in {"append", "store", "done"}
  /\ \A j \in Index : pc[j] \in {"append", "store"} => j \in failed
  /\ \A j \in Index : todo[j] # {} => pc[j] = "store"

\* The WaitGroup counts the goroutines that are not done.
Working == {j \in Index : pc[j] # "done"}
Accounted == wg = Cardinality(Working)

\* The slots 0 .. n-1 are owned.
Owned(n) == \A p \in 0 .. n - 1 : \E k \in Appending : seen[k] = p

\* The n-th goroutine to append finds at most n-1 elements.
Slots ==
  /\ len <= Cardinality(Appending)
  /\ Owned(len)
  /\ \A j \in Appending : seen[j] < Cardinality(Appending) /\ Owned(seen[j])

\* A slot holds the index of the last of its owners to write it.
Wrote(j) == j \in Appending /\ "elem" \notin todo[j]
Contents ==
  \A j \in Index : Wrote(j) =>
    /\ Wrote(backing[seen[j]])
    /\ seen[backing[seen[j]]] = seen[j]

\* A length that has been stored is not 0, and never becomes 0 again.
Positive == (\E j \in Appending : "len" \notin todo[j]) => len > 0

\* After the return nothing moves, and the reply is sound.
Returned ==
  /\ returned => spawned = N /\ Working = {}
  /\ ReplyIsSound /\ SomeFailureReported
  /\ ~returned => reply = << >>

IInv ==
  /\ TypeOK /\ Lifecycle /\ Accounted /\ Slots /\ Contents /\ Positive
  /\ Returned

-----------------------------------------------------------------------------
\* Any set of goroutines is finite, and no larger than the batch.
LEMMA FiniteSubset ==
  ASSUME NEW S \in SUBSET Index
  PROVE  IsFiniteSet(S) /\ Cardinality(S) \in 0 .. N
<1>1. IsFiniteSet(Index) /\ Cardinality(Index) = N
  BY BatchAssumption, FS_Interval DEF Index
<1>2. IsFiniteSet(S) /\ Cardinality(S) <= N
  BY <1>1, FS_Subset
<1>3. Cardinality(S) \in Nat
  BY <1>2, FS_CardinalityType
<1> QED  BY <1>2, <1>3, BatchAssumption

LEMMA InitIInv == Init => IInv
<1> SUFFICES ASSUME Init PROVE IInv
  OBVIOUS
<1> USE BatchAssumption DEF Init
<1>1. TypeOK
  <2>1. spawned \in 0 .. N /\ wg \in 0 .. N /\ len \in Nat
    OBVIOUS
  <2>4. returned \in BOOLEAN
    OBVIOUS
  <2>5. reply \in Seq(Index)
    OBVIOUS
  <2>2. /\ pc \in [Index -> {"unborn", "sending", "append", "store", "finish", "done"}]
        /\ seen \in [Index -> Nat]
        /\ todo \in [Index -> SUBSET {"len", "elem"}]
    OBVIOUS
  <2>3. backing \in [Index -> Index]
    BY DEF Index
  <2> QED  BY <2>1, <2>2, <2>3, <2>4, <2>5 DEF TypeOK
<1>2. Lifecycle
  BY DEF Lifecycle, Index
<1>3. Accounted
  <2>1. Working = Index
    BY DEF Working
  <2>2. Cardinality(Index) = N
    BY FS_Interval DEF Index
  <2> QED  BY <2>1, <2>2 DEF Accounted
<1>4. Appending = {}
  BY DEF Appending
<1>5. Slots
  <2>1. Cardinality(Appending) \in Nat
    BY <1>4, FS_EmptySet
  <2> QED  BY <1>4, <2>1 DEF Slots, Owned
<1>6. Contents /\ Positive
  BY <1>4 DEF Contents, Wrote, Positive
<1>7. Returned
  BY DEF Returned, ReplyIsSound, SomeFailureReported, IsInjective
<1> QED  BY <1>1, <1>2, <1>3, <1>5, <1>6, <1>7 DEF IInv

\* The slots keep what they have as long as no goroutine moves in them.
LEMMA SlotsUntouched ==
  ASSUME Appending' = Appending, UNCHANGED slice,
         Slots, Contents, Positive
  PROVE  Slots' /\ Contents' /\ Positive'
BY DEF Slots, Contents, Positive, Owned, Wrote, slice

\* As long as SendEvents has not returned, what it returns is sound.
LEMMA NotReturned ==
  ASSUME Returned, ~returned, UNCHANGED <<returned, reply>>
  PROVE  Returned'
BY DEF Returned, ReplyIsSound, SomeFailureReported, IsInjective

\* A goroutine that is not done keeps SendEvents waiting.
LEMMA Waiting ==
  ASSUME IInv, NEW j \in Index, pc[j] # "done"
  PROVE  ~returned
BY DEF IInv, Returned, Working

\* A step of one goroutine that is not its last leaves the WaitGroup alone.
LEMMA StillWorking ==
  ASSUME TypeOK, Accounted, NEW j \in Index, NEW to,
         pc[j] # "done", to # "done",
         pc' = [pc EXCEPT ![j] = to], wg' = wg
  PROVE  Accounted'
<1>1. Working' = Working
  BY DEF TypeOK, Working
<1> QED  BY <1>1 DEF Accounted

LEMMA SpawnStep == IInv /\ Spawn => IInv'
<1> SUFFICES ASSUME IInv, Spawn PROVE IInv'
  OBVIOUS
<1> USE BatchAssumption DEF IInv
<1>0. spawned \in Index /\ pc[spawned] = "unborn"
  BY DEF Spawn, Goto, TypeOK, Index
<1>1. TypeOK'
  BY <1>0 DEF Spawn, Goto, TypeOK, slice
<1>2. Lifecycle'
  <2>1. ASSUME NEW j \in Index PROVE (pc[j] = "unborn" <=> j >= spawned)'
    BY <1>0 DEF Spawn, Goto, TypeOK, Lifecycle, Index
  <2>2. /\ \A j \in failed : pc[j] \in {"append", "store", "done"}
        /\ \A j \in Index : pc[j] \in {"append", "store"} => j \in failed
        /\ \A j \in Index : todo[j] # {} => pc[j] = "store"
    BY DEF Lifecycle
  <2>3. /\ pc' = [pc EXCEPT ![spawned] = "sending"]
        /\ failed' = failed /\ todo' = todo
    BY DEF Spawn, Goto, slice
  <2>4. (/\ \A j \in failed : pc[j] \in {"append", "store", "done"}
         /\ \A j \in Index : pc[j] \in {"append", "store"} => j \in failed
         /\ \A j \in Index : todo[j] # {} => pc[j] = "store")'
    BY <1>0, <2>2, <2>3 DEF TypeOK
  <2> QED  BY <2>1, <2>4 DEF Lifecycle
<1>3. Accounted'
  BY <1>0, StillWorking, pc' = [pc EXCEPT ![spawned] = "sending"] DEF Spawn, Goto
<1>4. Appending' = Appending
  BY <1>0 DEF Spawn, Goto, TypeOK, Appending
<1>5. Slots' /\ Contents' /\ Positive'
  BY <1>4, SlotsUntouched DEF Spawn
<1>6. Returned'
  BY <1>0, Waiting, NotReturned DEF Spawn
<1> QED  BY <1>1, <1>2, <1>3, <1>5, <1>6

\* Reject, ProduceOk and ProduceErr: the event is sent, or it has failed and
\* its index is to be appended.
LEMMA SendStep ==
  ASSUME IInv, NEW j \in Index, Reject(j) \/ ProduceOk(j) \/ ProduceErr(j)
  PROVE  IInv'
<1> USE BatchAssumption DEF IInv
<1> DEFINE to == pc'[j]
<1>0. /\ pc[j] = "sending"
      /\ pc' = [pc EXCEPT ![j] = to]
      /\ \/ to = "append" /\ failed' = failed \cup {j}
         \/ to = "finish" /\ failed' = failed
      /\ stored' \in {stored, stored \cup {j}}
      /\ UNCHANGED <<valid, spawned, wg, slice, returned, reply>>
  BY DEF Reject, ProduceOk, ProduceErr, Goto, TypeOK
<1> HIDE DEF to
<1>1. TypeOK'
  BY <1>0 DEF TypeOK, slice
<1>2. Lifecycle'
  BY <1>0 DEF TypeOK, Lifecycle, slice, Index
<1>3. Accounted'
  BY <1>0, StillWorking
<1>4. Appending' = Appending
  BY <1>0 DEF TypeOK, Lifecycle, Appending
<1>5. Slots' /\ Contents' /\ Positive'
  BY <1>0, <1>4, SlotsUntouched
<1>6. Returned'
  BY <1>0, Waiting, NotReturned
<1> QED  BY <1>1, <1>2, <1>3, <1>5, <1>6

\* The goroutine takes the slot at the length it reads.
LEMMA LoadLenStep ==
  ASSUME IInv, NEW j \in Index, LoadLen(j)
  PROVE  IInv'
<1> USE BatchAssumption DEF IInv
<1>0. /\ pc[j] = "append" /\ j \in failed /\ j \notin Appending
      /\ pc' = [pc EXCEPT ![j] = "store"]
      /\ seen' = [seen EXCEPT ![j] = len]
      /\ todo' = [todo EXCEPT ![j] = {"len", "elem"}]
      /\ UNCHANGED <<valid, spawned, wg, len, backing, failed, stored,
                     returned, reply>>
  BY DEF LoadLen, Goto, Lifecycle, Appending
<1>1. TypeOK'
  BY <1>0 DEF TypeOK
<1>2. Lifecycle'
  BY <1>0 DEF TypeOK, Lifecycle, Index
<1>3. Accounted'
  BY <1>0, StillWorking
<1>4. Appending' = Appending \cup {j}
  BY <1>0 DEF TypeOK, Lifecycle, Appending
<1>5. /\ Cardinality(Appending) \in Nat
      /\ Cardinality(Appending') = Cardinality(Appending) + 1
  <2>1. Appending \in SUBSET Index
    BY DEF Appending
  <2>2. IsFiniteSet(Appending) /\ Cardinality(Appending) \in 0 .. N
    BY <2>1, FiniteSubset
  <2>3. Cardinality(Appending \cup {j}) = Cardinality(Appending) + 1
    BY <1>0, <2>2, FS_AddElement
  <2> QED  BY <1>4, <2>2, <2>3
<1>6. \A k \in Appending : k # j /\ seen'[k] = seen[k] /\ todo'[k] = todo[k]
  BY <1>0 DEF TypeOK, Appending
<1>7. ASSUME NEW n \in Nat, Owned(n) PROVE Owned(n)'
  BY <1>4, <1>6, <1>7 DEF Owned
<1>8. seen'[j] = len /\ todo'[j] = {"len", "elem"}
  BY <1>0 DEF TypeOK
<1>9. Slots'
  <2>1. len' <= Cardinality(Appending')
    BY <1>0, <1>5 DEF Slots, TypeOK
  <2>2. Owned(len)'
    BY <1>0, <1>7 DEF Slots, TypeOK, Owned
  <2>3. ASSUME NEW k \in Appending'
        PROVE  (seen[k] < Cardinality(Appending) /\ Owned(seen[k]))'
    <3>1. CASE k = j
      BY <1>0, <1>5, <1>8, <2>2, <3>1 DEF Slots, TypeOK, Owned
    <3>2. CASE k \in Appending
      <4>1. seen[k] \in Nat /\ seen'[k] = seen[k]
        BY <1>6, <3>2 DEF TypeOK, Appending
      <4>2. seen[k] < Cardinality(Appending) /\ Owned(seen[k])
        BY <3>2 DEF Slots
      <4>3. Owned(seen[k])'
        BY <1>4, <1>6, <4>1, <4>2 DEF Owned
      <4> QED  BY <1>5, <4>1, <4>2, <4>3
    <3> QED  BY <1>4, <3>1, <3>2
  <2> QED  BY <2>1, <2>2, <2>3 DEF Slots
<1>10. Contents'
  <2>1. \A k : Wrote(k)' <=> Wrote(k)
    BY <1>4, <1>6, <1>8, <1>0 DEF Wrote
  <2>2. backing \in [Index -> Index] /\ seen \in [Index -> Nat]
    BY DEF TypeOK
  <2> SUFFICES ASSUME NEW k \in Index, Wrote(k)'
               PROVE  (/\ Wrote(backing[seen[k]])
                       /\ seen[backing[seen[k]]] = seen[k])'
    BY DEF Contents
  <2>3. /\ Wrote(k) /\ Wrote(backing[seen[k]])
        /\ seen[backing[seen[k]]] = seen[k]
    BY <2>1 DEF Contents
  <2>4. k \in Appending /\ backing[seen[k]] \in Appending
    BY <2>3 DEF Wrote
  <2>5. seen'[k] = seen[k] /\ seen'[backing[seen[k]]] = seen[backing[seen[k]]]
    BY <1>6, <2>4
  <2> QED  BY <1>0, <2>1, <2>3, <2>5
<1>11. Positive'
  BY <1>0, <1>4, <1>6, <1>8 DEF Positive
<1>12. Returned'
  BY <1>0, Waiting, NotReturned
<1> QED  BY <1>1, <1>2, <1>3, <1>9, <1>10, <1>11, <1>12

LEMMA StoreLenStep ==
  ASSUME IInv, NEW j \in Index, StoreLen(j)
  PROVE  IInv'
<1> USE BatchAssumption DEF IInv
<1>0. /\ pc[j] = "store" /\ j \in Appending
      /\ len' = seen[j] + 1
      /\ todo' = [todo EXCEPT ![j] = @ \ {"len"}]
      /\ UNCHANGED <<valid, spawned, pc, wg, seen, backing, failed, stored,
                     returned, reply>>
  BY DEF StoreLen, NewLen, Lifecycle, Appending
<1>1. TypeOK'
  BY <1>0 DEF TypeOK
<1>2. Lifecycle'
  BY <1>0 DEF TypeOK, Lifecycle
<1>3. Accounted'
  BY <1>0 DEF Accounted, Working
<1>4. Appending' = Appending
  BY <1>0 DEF Appending
<1>5. \A k \in Index : "elem" \in todo'[k] <=> "elem" \in todo[k]
  BY <1>0 DEF TypeOK
<1>6. Cardinality(Appending) \in Nat /\ seen[j] \in Nat
  BY FiniteSubset, Appending \in SUBSET Index DEF Appending, TypeOK
<1>7. Slots'
  <2>1. seen[j] < Cardinality(Appending) /\ Owned(seen[j])
    BY <1>0 DEF Slots
  <2>2. Owned(seen[j] + 1)
    BY <1>0, <1>6, <2>1 DEF Owned
  <2> QED  BY <1>0, <1>4, <1>6, <2>1, <2>2 DEF Slots, Owned
<1>8. Contents'
  <2>1. \A k : Wrote(k)' <=> Wrote(k)
    BY <1>4, <1>5 DEF Wrote, Appending
  <2> QED  BY <1>0, <2>1 DEF Contents
<1>9. Positive'
  BY <1>0, <1>6 DEF Positive
<1>10. Returned'
  BY <1>0, Waiting, NotReturned
<1> QED  BY <1>1, <1>2, <1>3, <1>7, <1>8, <1>9, <1>10

LEMMA StoreElemStep ==
  ASSUME IInv, NEW j \in Index, StoreElem(j)
  PROVE  IInv'
<1> USE BatchAssumption DEF IInv
<1>0. /\ pc[j] = "store" /\ j \in Appending
      /\ backing' = [backing EXCEPT ![seen[j]] = j]
      /\ todo' = [todo EXCEPT ![j] = @ \ {"elem"}]
      /\ UNCHANGED <<valid, spawned, pc, wg, seen, len, failed, stored,
                     returned, reply>>
  BY DEF StoreElem, Lifecycle, Appending
<1>1. TypeOK'
  BY <1>0 DEF TypeOK
<1>2. Lifecycle'
  BY <1>0 DEF TypeOK, Lifecycle
<1>3. Accounted'
  BY <1>0 DEF Accounted, Working
<1>4. Appending' = Appending
  BY <1>0 DEF Appending
<1>5. Slots'
  BY <1>0, <1>4 DEF Slots, Owned
<1>6. \A k \in Index : seen[k] \in Nat /\ (k \in Appending => seen[k] \in Index)
  <2>1. Cardinality(Appending) \in 0 .. N
    BY FiniteSubset, Appending \in SUBSET Index DEF Appending
  <2>2. \A k \in Index : seen[k] \in Nat
    BY DEF TypeOK
  <2>3. \A k \in Appending : seen[k] < Cardinality(Appending)
    BY DEF Slots
  <2> QED  BY <2>1, <2>2, <2>3 DEF Index
<1>7. Contents'
  <2>1. \A k \in Index : Wrote(k)' <=> Wrote(k) \/ k = j
    BY <1>0, <1>4 DEF Wrote, TypeOK
  <2> SUFFICES ASSUME NEW k \in Index, Wrote(k)'
               PROVE  (/\ Wrote(backing[seen[k]])
                       /\ seen[backing[seen[k]]] = seen[k])'
    BY DEF Contents
  <2>2. seen[k] \in Index /\ seen[j] \in Index
    BY <1>0, <1>4, <1>6 DEF Wrote
  <2>3. CASE seen[k] = seen[j]
    <3>1. backing'[seen'[k]] = j
      BY <1>0, <2>2, <2>3 DEF TypeOK
    <3> QED  BY <1>0, <2>1, <2>3, <3>1
  <2>4. CASE seen[k] # seen[j]
    <3>1. backing'[seen'[k]] = backing[seen[k]]
      BY <1>0, <2>2, <2>4 DEF TypeOK
    <3>2. Wrote(k)
      BY <2>1, <2>4
    <3>3. Wrote(backing[seen[k]]) /\ seen[backing[seen[k]]] = seen[k]
      BY <3>2 DEF Contents
    <3>4. backing[seen[k]] \in Index
      BY <2>2 DEF TypeOK
    <3> QED  BY <1>0, <2>1, <3>1, <3>3, <3>4
  <2> QED  BY <2>3, <2>4
<1>8. Positive'
  <2>1. \A k \in Index : "len" \in todo'[k] <=> "len" \in todo[k]
    BY <1>0 DEF TypeOK
  <2> QED  BY <1>0, <1>4, <2>1 DEF Positive, Appending
<1>9. Returned'
  BY <1>0, Waiting, NotReturned
<1> QED  BY <1>1, <1>2, <1>3, <1>5, <1>7, <1>8, <1>9

\* The last step of a goroutine: its index is in the slice, or did not fail.
LEMMA FinishStep ==
  ASSUME IInv, NEW j \in Index, Finish(j)
  PROVE  IInv'
<1> USE BatchAssumption DEF IInv
<1>0. /\ pc[j] = "finish" \/ (pc[j] = "store" /\ todo[j] = {})
      /\ pc' = [pc EXCEPT ![j] = "done"]
      /\ wg' = wg - 1
      /\ UNCHANGED <<valid, spawned, slice, failed, stored, returned, reply>>
  BY DEF Finish
<1>1. /\ Cardinality(Working) \in Nat
      /\ Cardinality(Working') = Cardinality(Working) - 1
  <2>1. j \in Working /\ Working' = Working \ {j}
    BY <1>0 DEF Working, TypeOK
  <2>2. IsFiniteSet(Working) /\ Cardinality(Working) \in 0 .. N
    BY FiniteSubset, Working \in SUBSET Index DEF Working
  <2> QED  BY <2>1, <2>2, FS_RemoveElement
<1>2. Accounted'
  BY <1>0, <1>1 DEF Accounted
<1>3. TypeOK'
  <2>1. wg' \in 0 .. N
    <3>1. Cardinality(Working') \in 0 .. N
      <4>1. Working' \in SUBSET Index
        BY DEF Working, Index
      <4> QED  BY <4>1, FiniteSubset
    <3> QED  BY <1>2, <3>1 DEF Accounted
  <2> QED  BY <1>0, <2>1 DEF TypeOK, slice
<1>4. Lifecycle'
  BY <1>0 DEF TypeOK, Lifecycle, slice, Index
<1>5. Appending' = Appending
  BY <1>0 DEF TypeOK, Lifecycle, Appending
<1>6. Slots' /\ Contents' /\ Positive'
  BY <1>0, <1>5, SlotsUntouched
<1>7. Returned'
  BY <1>0, Waiting, NotReturned
<1> QED  BY <1>2, <1>3, <1>4, <1>6, <1>7

\* All goroutines are done: each slot up to the length has been written.
LEMMA ReturnStep == IInv /\ Return => IInv'
<1> SUFFICES ASSUME IInv, Return PROVE IInv'
  OBVIOUS
<1> USE BatchAssumption DEF IInv
<1>0. /\ spawned = N /\ wg = 0
      /\ returned' = TRUE /\ reply' = Slice
      /\ UNCHANGED <<valid, spawned, pc, wg, slice, failed, stored>>
  BY DEF Return, WaitOver
<1>1. Working = {}
  <2>1. Working \in SUBSET Index
    BY DEF Working
  <2>2. IsFiniteSet(Working) /\ Cardinality(Working) = 0
    BY <1>0, <2>1, FiniteSubset DEF Accounted
  <2> QED  BY <2>2, FS_EmptySet
<1>2. /\ Appending = failed
      /\ \A k \in Index : todo[k] = {}
  BY <1>1 DEF Working, Appending, Lifecycle, TypeOK
<1>3. \A p \in 0 .. len - 1 :
        /\ p \in Index
        /\ backing[p] \in failed /\ seen[backing[p]] = p
  <2> SUFFICES ASSUME NEW p \in 0 .. len - 1
               PROVE  /\ p \in Index
                      /\ backing[p] \in failed /\ seen[backing[p]] = p
    OBVIOUS
  <2>1. PICK k \in Appending : seen[k] = p
    BY DEF Slots, Owned
  <2>2. k \in Index /\ Wrote(k)
    BY <1>2 DEF Wrote, Appending
  <2>3. Wrote(backing[seen[k]]) /\ seen[backing[seen[k]]] = seen[k]
    BY <2>2 DEF Contents
  <2>4. p \in Index
    <3>1. Cardinality(Appending) \in 0 .. N
      BY FiniteSubset, Appending \in SUBSET Index DEF Appending
    <3>2. len \in Nat /\ len <= Cardinality(Appending)
      BY DEF Slots, TypeOK
    <3> QED  BY <3>1, <3>2 DEF Index
  <2> QED  BY <1>2, <2>1, <2>3, <2>4 DEF Wrote
<1>4. Slice \in Seq(failed) /\ Len(Slice) = len
  <2>1. len \in Nat
    BY DEF TypeOK
  <2>2. \A i \in 1 .. len : backing[i - 1] \in failed
    BY <1>3, <2>1
  <2> QED  BY <2>1, <2>2 DEF Slice
<1>5. IsInjective(Slice)
  <2> SUFFICES ASSUME NEW a \in 1 .. len, NEW b \in 1 .. len,
                      Slice[a] = Slice[b]
               PROVE  a = b
    BY DEF IsInjective, Slice
  <2>1. len \in Nat /\ backing[a - 1] = backing[b - 1]
    BY DEF TypeOK, Slice
  <2>2. a - 1 \in 0 .. len - 1 /\ b - 1 \in 0 .. len - 1
    BY <2>1
  <2>3. a - 1 = b - 1
    BY <1>3, <2>1, <2>2
  <2> QED  BY <2>3
<1>6. TypeOK'
  <2>1. reply' \in Seq(Index)
    BY <1>0, <1>4 DEF TypeOK
  <2>2. returned' \in BOOLEAN
    BY <1>0
  <2> QED  BY <1>0, <2>1, <2>2 DEF TypeOK, slice
<1>7. Lifecycle' /\ Accounted' /\ Slots' /\ Contents' /\ Positive'
  <2>1. Lifecycle' /\ Accounted'
    BY <1>0 DEF Lifecycle, Accounted, Working, slice
  <2>2. Appending' = Appending
    BY <1>0 DEF Appending
  <2> QED  BY <1>0, <2>1, <2>2, SlotsUntouched
<1>8. Returned'
  <2>1. (returned => spawned = N /\ Working = {})'
    BY <1>0, <1>1 DEF Working
  <2>2. ReplyIsSound'
    <3>1. \A i \in 1 .. Len(reply') : reply'[i] \in failed'
      BY <1>0, <1>4
    <3> QED  BY <1>0, <1>5, <3>1 DEF ReplyIsSound
  <2>3. SomeFailureReported'
    <3>1. failed # {} => len > 0
      BY <1>2 DEF Positive, Appending
    <3>2. failed # {} => Slice # << >>
      BY <1>4, <3>1 DEF TypeOK
    <3> QED  BY <1>0, <3>2 DEF SomeFailureReported
  <2> QED  BY <1>0, <2>1, <2>2, <2>3 DEF Returned
<1> QED  BY <1>6, <1>7, <1>8

LEMMA StutterStep == IInv /\ UNCHANGED vars => IInv'
<1> SUFFICES ASSUME IInv, UNCHANGED vars PROVE IInv'
  OBVIOUS
<1>1. TypeOK' /\ Lifecycle' /\ Accounted'
  BY DEF IInv, vars, slice, TypeOK, Lifecycle, Accounted, Working
<1>2. Appending' = Appending
  BY DEF vars, slice, Appending
<1>3. Slots' /\ Contents' /\ Positive'
  BY <1>2, SlotsUntouched DEF IInv, vars
<1>4. Returned'
  BY DEF IInv, vars, slice, Returned, Working, ReplyIsSound,
         SomeFailureReported
<1> QED  BY <1>1, <1>3, <1>4 DEF IInv

LEMMA NextIInv == IInv /\ [Next]_vars => IInv'
<1> SUFFICES ASSUME IInv, [Next]_vars PROVE IInv'
  OBVIOUS
<1>1. CASE Spawn
  BY <1>1, SpawnStep
<1>2. ASSUME NEW j \in Index, Goroutine(j) PROVE IInv'
  BY <1>2, SendStep, LoadLenStep, StoreLenStep, StoreElemStep, FinishStep
  DEF Goroutine
<1>3. CASE Return
  BY <1>3, ReturnStep
<1>4. CASE UNCHANGED vars
  BY <1>4, StutterStep
<1> QED  BY <1>1, <1>2, <1>3, <1>4 DEF Next

\* The inductive invariant: slots are owned without gaps, at most one more for
\* each goroutine that has read the length.
THEOREM Invariance == Spec => []IInv
<1> QED  BY InitIInv, NextIInv, PTL DEF Spec

-----------------------------------------------------------------------------
\* The variables keep their types, for a batch of any size: the WaitGroup of
\* SendEvents never goes below 0.
THEOREM TypeCorrect == Spec => []TypeOK
<1>1. IInv => TypeOK
  BY DEF IInv
<1> QED  BY <1>1, Invariance, PTL

\* The array made with capacity len(events) is large enough for the appends,
\* however they interleave: append never moves it.
THEOREM SlotsFit == Spec => []SlotFits
<1>1. IInv => SlotFits
  <2> SUFFICES ASSUME IInv, NEW j \in Appending PROVE seen[j] < N
    BY DEF SlotFits
  <2>1. Cardinality(Appending) \in 0 .. N
    BY FiniteSubset, Appending \in SUBSET Index DEF Appending
  <2>2. seen[j] \in Nat /\ seen[j] < Cardinality(Appending)
    BY DEF IInv, TypeOK, Slots, Appending
  <2> QED  BY <2>1, <2>2, BatchAssumption
<1> QED  BY <1>1, Invariance, PTL

\* No goroutine of the call touches the slice once SendEvents has returned it.
THEOREM NothingWritesAfterReturn == Spec => []NoWriteAfterReturn
<1>1. IInv => NoWriteAfterReturn
  BY DEF IInv, Returned, Working, NoWriteAfterReturn
<1> QED  BY <1>1, Invariance, PTL

\* The response lists failed events only, none of them twice, in spite of the
\* race on the slice.
THEOREM RepliesAreSound == Spec => []ReplyIsSound
<1>1. IInv => ReplyIsSound
  BY DEF IInv, Returned
<1> QED  BY <1>1, Invariance, PTL

\* The race never hides all failures of a batch.
THEOREM FailureIsReported == Spec => []SomeFailureReported
<1>1. IInv => SomeFailureReported
  BY DEF IInv, Returned
<1> QED  BY <1>1, Invariance, PTL

-----------------------------------------------------------------------------
(* The call implements BatchSend.                                           *)

LEMMA InitPromise == Init => Promise!Init
BY DEF Init, Promise!Init, Acked

\* Produce settles an event; what follows until the return is internal.
LEMMA StepPromise == IInv /\ [Next]_vars => [Promise!Next]_(Promise!vars)
<1> SUFFICES ASSUME IInv, [Next]_vars
             PROVE  Promise!Next \/ UNCHANGED Promise!vars
  OBVIOUS
<1> USE DEF Promise!vars
<1>1. CASE Spawn
  <2>1. spawned \in Index /\ pc[spawned] = "unborn"
    BY <1>1, BatchAssumption DEF Spawn, Goto, IInv, TypeOK, Index
  <2>2. Acked' = Acked
    BY <1>1, <2>1 DEF Spawn, Goto, IInv, TypeOK, Acked
  <2> QED  BY <1>1, <2>2 DEF Spawn
<1>2. ASSUME NEW j \in Index, Reject(j) \/ ProduceErr(j)
      PROVE  Promise!Fail(j)
  <2>1. /\ pc[j] = "sending" /\ pc' = [pc EXCEPT ![j] = "append"]
        /\ failed' = failed \cup {j}
        /\ stored' = stored \/ stored' = stored \cup {j}
        /\ UNCHANGED <<returned, reply>>
    BY <1>2 DEF Reject, ProduceErr, Goto
  <2>2. j \notin failed /\ j \notin Acked
    BY <2>1 DEF IInv, Lifecycle, Acked
  <2>3. Acked' = Acked
    BY <2>1, <2>2 DEF IInv, TypeOK, Acked
  <2> QED  BY <2>1, <2>2, <2>3 DEF Promise!Fail, Promise!Settled
<1>3. ASSUME NEW j \in Index, ProduceOk(j)
      PROVE  Promise!Acknowledge(j)
  <2>1. /\ pc[j] = "sending" /\ pc' = [pc EXCEPT ![j] = "finish"]
        /\ stored' = stored \cup {j}
        /\ UNCHANGED <<failed, returned, reply>>
    BY <1>3 DEF ProduceOk, Goto
  <2>2. j \notin failed /\ j \notin Acked
    BY <2>1 DEF IInv, Lifecycle, Acked
  <2>3. Acked' = Acked \cup {j}
    BY <2>1, <2>2 DEF IInv, TypeOK, Acked
  <2> QED  BY <2>1, <2>2, <2>3 DEF Promise!Acknowledge, Promise!Settled
<1>4. ASSUME NEW j \in Index,
             LoadLen(j) \/ StoreLen(j) \/ StoreElem(j) \/ Finish(j)
      PROVE  UNCHANGED Promise!vars
  <2>1. UNCHANGED <<stored, failed, returned, reply>>
    BY <1>4 DEF LoadLen, StoreLen, StoreElem, Finish
  <2>2. Acked' = Acked
    BY <1>4, <2>1
    DEF LoadLen, StoreLen, StoreElem, Finish, Goto, IInv, TypeOK, Lifecycle,
        Acked
  <2> QED  BY <2>1, <2>2
<1>5. CASE Return
  <2>1. IInv'
    BY NextIInv
  <2>2. /\ ~returned /\ returned' = TRUE
        /\ UNCHANGED <<pc, failed, stored>>
    BY <1>5 DEF Return
  <2>3. Acked' = Acked
    BY <2>2 DEF Acked
  <2>4. Acked \cup failed = Index
    BY <2>1, <2>2 DEF IInv, Returned, Working, Acked, TypeOK
  <2>5. Promise!Honest(reply')
    <3>1. reply' \in Seq(Index) /\ \A i \in 1 .. Len(reply') : reply'[i] \in failed
      BY <2>1, <2>2 DEF IInv, TypeOK, Returned, ReplyIsSound
    <3>2. reply' \in Seq(failed)
      BY <3>1
    <3>3. Promise!IsInjective(reply')
      BY <2>1 DEF IInv, Returned, ReplyIsSound, IsInjective, Promise!IsInjective
    <3>4. failed # {} => reply' # << >>
      BY <2>1, <2>2 DEF IInv, Returned, SomeFailureReported
    <3> QED  BY <3>2, <3>3, <3>4 DEF Promise!Honest
  <2>6. Promise!Return(reply')
    BY <2>2, <2>3, <2>4, <2>5 DEF Promise!Return, Promise!Settled
  <2> QED  BY <2>6 DEF Promise!Next
<1>6. CASE UNCHANGED vars
  BY <1>6 DEF vars, slice, Acked
<1> QED
  BY <1>1, <1>2, <1>3, <1>4, <1>5, <1>6 DEF Next, Goroutine, Promise!Next

\* A call with a batch of any size keeps the promise of BatchSend.
THEOREM SenderKeepsPromise == Spec => KeepsPromise
<1> QED
  BY InitPromise, StepPromise, Invariance, PTL DEF Spec, KeepsPromise, Promise!Spec
=============================================================================
