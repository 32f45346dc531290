-------------------------- MODULE AllocatorProofs --------------------------
(***************************************************************************)
(* The asserts of the tracking allocator hold and its table is accurate,   *)
(* for any threads and any blocks.  IInv (Allocator) is inductive: what an *)
(* assert looks up is known from the place a thread has reached            *)
(* (EntriesUpToDate), because nobody else works at its block (OneUser).    *)
(***************************************************************************)
EXTENDS Allocator, TLAPS

(* What the invariant says of a thread in the middle of an operation. *)
LEMMA Working ==
    ASSUME IInv, NEW t \in Thread, pc[t] # "idle"
    PROVE  /\ block[t] \in Block
           /\ block[t] \in taken /\ block[t] \notin objects
           /\ inflight[block[t]] = EntryAt(pc[t])
           /\ \A u \in Thread \ {t} : block[u] # block[t]
BY DEF IInv, TypeOK, OneUser, EntriesUpToDate

(* An access that changes no entry keeps the invariant: the next access    *)
(* expects what this one found.                                            *)
LEMMA Looks ==
    ASSUME IInv, NEW t \in Thread,
           NEW l \in Acquiring \cup Releasing, NEW k \in Acquiring \cup Releasing,
           Goes(t, l, k), EntryAt(l) = EntryAt(k),
           UNCHANGED <<taken, objects, inflight, block>>
    PROVE  IInv'
<1>1. l # "idle" /\ k # "idle"
  BY DEF Acquiring, Releasing
<1>2. TypeOK'
  BY DEF IInv, TypeOK, Goes
<1>3. OneUser'
  BY <1>1 DEF IInv, TypeOK, OneUser, Goes
<1>4. LeaksTold'
  BY DEF IInv, LeaksTold
<1>5. EntriesUpToDate'
  <2> SUFFICES ASSUME NEW u \in Thread, pc'[u] # "idle"
               PROVE  inflight[block[u]] = EntryAt(pc'[u])
    BY DEF EntriesUpToDate
  <2>1. CASE u = t
    <3>1. pc'[u] = k /\ pc[u] = l
      BY <2>1 DEF Goes, IInv, TypeOK
    <3>2. QED
      BY <3>1, <1>1 DEF IInv, EntriesUpToDate
  <2>2. CASE u # t
    BY <2>2 DEF IInv, EntriesUpToDate, Goes, TypeOK
  <2>3. QED
    BY <2>1, <2>2
<1>6. QED
  BY <1>2, <1>3, <1>4, <1>5 DEF IInv

(* An access that gives the block in hand the entry the next one expects   *)
(* keeps the invariant.                                                    *)
LEMMA Puts ==
    ASSUME IInv, NEW t \in Thread,
           NEW l \in Acquiring \cup Releasing, NEW k \in Acquiring \cup Releasing,
           Goes(t, l, k),
           inflight' = [inflight EXCEPT ![block[t]] = EntryAt(k)],
           UNCHANGED <<taken, objects, block>>
    PROVE  IInv'
<1>1. l # "idle" /\ k # "idle" /\ pc[t] = l
  BY DEF Acquiring, Releasing, Goes
<1>2. EntryAt(k) \in AllocOp \cup {Null}
  BY DEF EntryAt, AllocOp
<1>3. /\ block[t] \in Block /\ block[t] \notin objects
      /\ \A u \in Thread \ {t} : block[u] # block[t]
  BY <1>1, Working
<1>4. TypeOK'
  BY <1>2 DEF IInv, TypeOK, Goes
<1>5. OneUser'
  BY <1>1 DEF IInv, TypeOK, OneUser, Goes
<1>6. LeaksTold'
  BY <1>3 DEF IInv, LeaksTold, TypeOK
<1>7. EntriesUpToDate'
  <2> SUFFICES ASSUME NEW u \in Thread, pc'[u] # "idle"
               PROVE  inflight'[block[u]] = EntryAt(pc'[u])
    BY DEF EntriesUpToDate
  <2>1. CASE u = t
    BY <2>1, <1>3 DEF Goes, IInv, TypeOK
  <2>2. CASE u # t
    BY <2>2, <1>3 DEF IInv, EntriesUpToDate, Goes, TypeOK
  <2>3. QED
    BY <2>1, <2>2
<1>8. QED
  BY <1>4, <1>5, <1>6, <1>7 DEF IInv

(* A check finds the entry it wants, and operator[] inserts none. *)
LEMMA Checks ==
    ASSUME IInv, NEW t \in Thread,
           NEW l \in Acquiring \cup Releasing, NEW k \in Acquiring \cup Releasing,
           Check(t, l, k), EntryAt(l) = EntryAt(k), EntryAt(l) # Null
    PROVE  IInv'
<1>1. l # "idle" /\ pc[t] = l
  BY DEF Acquiring, Releasing, Check, Goes
<1>2. inflight[block[t]] = EntryAt(l) /\ block[t] \in Block
  BY <1>1, Working
<1>3. inflight' = inflight
  BY <1>2 DEF Check, IInv, TypeOK
<1>4. QED
  BY <1>3, Looks DEF Check

-----------------------------------------------------------------------------
(* ::malloc returns a block nobody uses, so that no thread is at it and it *)
(* has no entry.                                                           *)
LEMMA MallocKeeps ==
    ASSUME IInv, NEW t \in Thread, Malloc(t)
    PROVE  IInv'
<1>1. PICK b \in Block \ taken : taken' = taken \cup {b}
                               /\ block' = [block EXCEPT ![t] = b]
  BY DEF Malloc
<1>2. pc[t] = "idle" /\ pc' = [pc EXCEPT ![t] = "malloc_find"]
  BY DEF Malloc, Goes
<1>3. objects' = objects /\ inflight' = inflight
  BY DEF Malloc
<1>4. b # Null /\ block[t] = Null
  BY <1>2, AllocatorAssumption DEF IInv, OneUser
<1>5. \A u \in Thread : block[u] # b
  BY <1>4 DEF IInv, OneUser
<1>6. b \notin objects /\ inflight[b] = Null
  BY <1>5 DEF IInv, OneUser, LeaksTold
<1>7. TypeOK'
  BY <1>1, <1>2, <1>3 DEF IInv, TypeOK, Acquiring
<1>8. OneUser'
  <2>1. \A u \in Thread : (pc'[u] = "idle") <=> (block'[u] = Null)
    BY <1>1, <1>2, <1>4 DEF IInv, OneUser, TypeOK
  <2>2. \A u \in Thread : block'[u] \notin objects'
    BY <1>1, <1>3, <1>6 DEF IInv, OneUser, TypeOK
  <2>3. \A u, v \in Thread : u # v /\ block'[u] # Null => block'[u] # block'[v]
    BY <1>1, <1>5 DEF IInv, OneUser, TypeOK
  <2>4. taken' = objects' \cup {block'[u] : u \in {v \in Thread : block'[v] # Null}}
    BY <1>1, <1>3, <1>4 DEF IInv, OneUser, TypeOK
  <2>5. QED
    BY <2>1, <2>2, <2>3, <2>4 DEF OneUser
<1>9. LeaksTold'
  BY <1>1, <1>3, <1>4, AllocatorAssumption DEF IInv, LeaksTold, TypeOK
<1>10. EntriesUpToDate'
  BY <1>1, <1>2, <1>3, <1>6 DEF IInv, EntriesUpToDate, EntryAt, TypeOK
<1>11. QED
  BY <1>7, <1>8, <1>9, <1>10 DEF IInv

(* The end of new_ makes an object of the block. *)
LEMMA NewPutKeeps ==
    ASSUME IInv, NEW t \in Thread, NewPut(t)
    PROVE  IInv'
<1>1. /\ pc[t] = "new_put" /\ pc' = [pc EXCEPT ![t] = "idle"]
      /\ inflight' = [inflight EXCEPT ![block[t]] = "NEW_"]
      /\ objects' = objects \cup {block[t]}
      /\ block' = [block EXCEPT ![t] = Null]
      /\ taken' = taken
  BY DEF NewPut, Goes
<1>2. /\ block[t] \in Block /\ block[t] \in taken /\ block[t] # Null
      /\ \A u \in Thread \ {t} : block[u] # block[t]
  BY <1>1, Working, AllocatorAssumption
<1>3. TypeOK'
  BY <1>1, <1>2 DEF IInv, TypeOK, AllocOp
<1>4. OneUser'
  <2>1. \A u \in Thread : (pc'[u] = "idle") <=> (block'[u] = Null)
    BY <1>1 DEF IInv, OneUser, TypeOK
  <2>2. \A u \in Thread : block'[u] \notin objects'
    BY <1>1, <1>2, AllocatorAssumption DEF IInv, OneUser, TypeOK
  <2>3. \A u, v \in Thread : u # v /\ block'[u] # Null => block'[u] # block'[v]
    BY <1>1 DEF IInv, OneUser, TypeOK
  <2>4. taken' = objects' \cup {block'[u] : u \in {v \in Thread : block'[v] # Null}}
    BY <1>1, <1>2 DEF IInv, OneUser, TypeOK
  <2>5. QED
    BY <2>1, <2>2, <2>3, <2>4 DEF OneUser
<1>5. LeaksTold'
  BY <1>1, <1>2 DEF IInv, LeaksTold, TypeOK
<1>6. EntriesUpToDate'
  BY <1>1, <1>2 DEF IInv, EntriesUpToDate, TypeOK
<1>7. QED
  BY <1>3, <1>4, <1>5, <1>6 DEF IInv

(* A thread that begins to delete an object is the only one to have it. *)
LEMMA DeleteKeeps ==
    ASSUME IInv, NEW t \in Thread, Delete(t)
    PROVE  IInv'
<1>1. PICK b \in objects : objects' = objects \ {b}
                          /\ block' = [block EXCEPT ![t] = b]
  BY DEF Delete
<1>2. /\ pc[t] = "idle" /\ pc' = [pc EXCEPT ![t] = "delete_find"]
      /\ taken' = taken /\ inflight' = inflight
  BY DEF Delete, Goes
<1>3. b \in Block /\ b # Null /\ block[t] = Null /\ inflight[b] = "NEW_"
  BY <1>1, <1>2, AllocatorAssumption DEF IInv, OneUser, TypeOK, LeaksTold
<1>4. \A u \in Thread : block[u] # b
  BY <1>1 DEF IInv, OneUser
<1>5. TypeOK'
  BY <1>1, <1>2, <1>3 DEF IInv, TypeOK, Releasing
<1>6. OneUser'
  <2>1. \A u \in Thread : (pc'[u] = "idle") <=> (block'[u] = Null)
    BY <1>1, <1>2, <1>3 DEF IInv, OneUser, TypeOK
  <2>2. \A u \in Thread : block'[u] \notin objects'
    BY <1>1 DEF IInv, OneUser, TypeOK
  <2>3. \A u, v \in Thread : u # v /\ block'[u] # Null => block'[u] # block'[v]
    BY <1>1, <1>4 DEF IInv, OneUser, TypeOK
  <2>4. taken' = objects' \cup {block'[u] : u \in {v \in Thread : block'[v] # Null}}
    BY <1>1, <1>2, <1>3 DEF IInv, OneUser, TypeOK
  <2>5. QED
    BY <2>1, <2>2, <2>3, <2>4 DEF OneUser
<1>7. LeaksTold'
  BY <1>1, <1>2, <1>3, AllocatorAssumption DEF IInv, LeaksTold, TypeOK
<1>8. EntriesUpToDate'
  BY <1>1, <1>2, <1>3 DEF IInv, EntriesUpToDate, EntryAt, TypeOK
<1>9. QED
  BY <1>5, <1>6, <1>7, <1>8 DEF IInv

(* ::free takes a block that has no entry any more. *)
LEMMA FreeKeeps ==
    ASSUME IInv, NEW t \in Thread, Free(t)
    PROVE  IInv'
<1>1. /\ pc[t] = "free" /\ pc' = [pc EXCEPT ![t] = "idle"]
      /\ taken' = taken \ {block[t]}
      /\ block' = [block EXCEPT ![t] = Null]
      /\ objects' = objects /\ inflight' = inflight
  BY DEF Free, Goes
<1>2. /\ block[t] \in Block /\ block[t] \notin objects /\ block[t] # Null
      /\ inflight[block[t]] = Null
      /\ \A u \in Thread \ {t} : block[u] # block[t]
  BY <1>1, Working, AllocatorAssumption DEF EntryAt
<1>3. TypeOK'
  BY <1>1 DEF IInv, TypeOK
<1>4. OneUser'
  <2>1. \A u \in Thread : (pc'[u] = "idle") <=> (block'[u] = Null)
    BY <1>1 DEF IInv, OneUser, TypeOK
  <2>2. \A u \in Thread : block'[u] \notin objects'
    BY <1>1, AllocatorAssumption DEF IInv, OneUser, TypeOK
  <2>3. \A u, v \in Thread : u # v /\ block'[u] # Null => block'[u] # block'[v]
    BY <1>1 DEF IInv, OneUser, TypeOK
  <2>4. taken' = objects' \cup {block'[u] : u \in {v \in Thread : block'[v] # Null}}
    BY <1>1, <1>2 DEF IInv, OneUser, TypeOK
  <2>5. QED
    BY <2>1, <2>2, <2>3, <2>4 DEF OneUser
<1>5. LeaksTold'
  BY <1>1, <1>2 DEF IInv, LeaksTold, TypeOK
<1>6. EntriesUpToDate'
  BY <1>1 DEF IInv, EntriesUpToDate, TypeOK
<1>7. QED
  BY <1>3, <1>4, <1>5, <1>6 DEF IInv

-----------------------------------------------------------------------------
LEMMA InitEstablishes == Init => IInv
<1> SUFFICES ASSUME Init PROVE IInv
  OBVIOUS
<1>1. TypeOK
  BY DEF Init, TypeOK
<1>2. OneUser
  <2>1. {block[t] : t \in {u \in Thread : block[u] # Null}} = {}
    BY DEF Init
  <2>2. QED
    BY <2>1 DEF Init, OneUser
<1>3. LeaksTold /\ EntriesUpToDate
  BY DEF Init, LeaksTold, EntriesUpToDate
<1>4. QED
  BY <1>1, <1>2, <1>3 DEF IInv

LEMMA NextKeeps == IInv /\ [Next]_vars => IInv'
<1> SUFFICES ASSUME IInv, [Next]_vars PROVE IInv'
  OBVIOUS
<1>1. CASE UNCHANGED vars
  <2>1. TypeOK' /\ OneUser'
    BY <1>1 DEF vars, IInv, TypeOK, OneUser
  <2>2. LeaksTold' /\ EntriesUpToDate'
    BY <1>1 DEF vars, IInv, LeaksTold, EntriesUpToDate
  <2>3. QED
    BY <2>1, <2>2 DEF IInv
<1>2. ASSUME NEW t \in Thread, Malloc(t) PROVE IInv'
  BY <1>2, MallocKeeps
<1>3. ASSUME NEW t \in Thread, MallocFind(t) PROVE IInv'
  BY <1>3, Looks DEF MallocFind, Find, EntryAt, Acquiring
<1>4. ASSUME NEW t \in Thread, MallocPut(t) PROVE IInv'
  BY <1>4, Puts DEF MallocPut, Put, EntryAt, Acquiring
<1>5. ASSUME NEW t \in Thread, NewFind(t) PROVE IInv'
  BY <1>5, Looks DEF NewFind, Find, EntryAt, Acquiring
<1>6. ASSUME NEW t \in Thread, NewCheck(t) PROVE IInv'
  BY <1>6, Checks, AllocatorAssumption DEF NewCheck, EntryAt, Acquiring, AllocOp
<1>7. ASSUME NEW t \in Thread, NewPut(t) PROVE IInv'
  BY <1>7, NewPutKeeps
<1>8. ASSUME NEW t \in Thread, Delete(t) PROVE IInv'
  BY <1>8, DeleteKeeps
<1>9. ASSUME NEW t \in Thread, DeleteFind(t) PROVE IInv'
  BY <1>9, Looks DEF DeleteFind, Find, EntryAt, Releasing
<1>10. ASSUME NEW t \in Thread, DeleteCheck(t) PROVE IInv'
  BY <1>10, Checks, AllocatorAssumption DEF DeleteCheck, EntryAt, Releasing, AllocOp
<1>11. ASSUME NEW t \in Thread, DeletePut(t) PROVE IInv'
  BY <1>11, Puts DEF DeletePut, Put, EntryAt, Releasing
<1>12. ASSUME NEW t \in Thread, FreeFind(t) PROVE IInv'
  BY <1>12, Looks DEF FreeFind, Find, EntryAt, Releasing
<1>13. ASSUME NEW t \in Thread, FreeCheck(t) PROVE IInv'
  BY <1>13, Checks, AllocatorAssumption DEF FreeCheck, EntryAt, Releasing, AllocOp
<1>14. ASSUME NEW t \in Thread, FreeErase(t) PROVE IInv'
  BY <1>14, Puts DEF FreeErase, EntryAt, Releasing
<1>15. ASSUME NEW t \in Thread, Free(t) PROVE IInv'
  BY <1>15, FreeKeeps
<1>16. QED
  BY <1>1, <1>2, <1>3, <1>4, <1>5, <1>6, <1>7, <1>8, <1>9, <1>10, <1>11, <1>12,
     <1>13, <1>14, <1>15 DEF Next

(* The table, the blocks and the places of the threads fit together in     *)
(* every reachable state: IInv of Allocator, for any threads and blocks.   *)
THEOREM TableAccurate == Spec => []IInv
BY InitEstablishes, NextKeeps, PTL DEF Spec

(* No assert of the allocator fails while its callers delete each object   *)
(* once.                                                                   *)
THEOREM AllocatorSafe == Spec => []AssertsHold
<1>1. IInv => AssertsHold
  BY DEF IInv, EntriesUpToDate, AssertsHold, EntryAt, Asserted, AllocOp, TypeOK,
         Acquiring, Releasing
<1>2. QED
  BY <1>1, TableAccurate, PTL

(* The destructor prints the objects that were never deleted, and nothing  *)
(* else.                                                                   *)
THEOREM LeaksReported == Spec => []LeaksTold
<1>1. IInv => LeaksTold
  BY DEF IInv
<1>2. QED
  BY <1>1, TableAccurate, PTL
=============================================================================
