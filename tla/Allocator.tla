----------------------------- MODULE Allocator -----------------------------
(***************************************************************************)
(* The tracking allocator of a debug build (TrackingAllocator.hpp behind   *)
(* wrapped_allocator.hpp, with GAM_DBG): every block that new_ obtains is  *)
(* listed in the table inflight until delete_ gives it back, with what has *)
(* been done to it so far, and asserts compare the two at every operation. *)
(*                                                                         *)
(* The lock is taken once for each access to the table and not once for an *)
(* operation, and ::malloc and ::free are called outside of it.  The user  *)
(* thread and the daemon of an executor (and the threads of an application *)
(* that drop what local() returned) interleave between those accesses, and *)
(* ::malloc may return at any moment a block another thread has just freed.*)
(*                                                                         *)
(* Callers delete a block once and only what new_ returned: that is what   *)
(* MemoryAccounted (GamContext) and NoDanglingChild (PrivatePtr) show.     *)
(***************************************************************************)
CONSTANTS
    Thread,     \* the threads of one executor
    Block,      \* the addresses ::malloc may return
    Null

(* What inflight says of a block (alloc_op). *)
AllocOp == {"MALLOC_", "NEW_"}

ASSUME AllocatorAssumption == Null \notin Block \cup AllocOp

VARIABLES
    taken,      \* the blocks the C library has given out
    objects,    \* the blocks new_ returned and nobody has begun to delete
    inflight,   \* inflight[b]: what the table says of b, Null without an entry
    pc,         \* pc[t]: the access t makes next
    block       \* block[t]: the block it is about, or Null

vars == <<taken, objects, inflight, pc, block>>

(* The accesses of new_ and of delete_, in their order. *)
Acquiring == {"malloc_find", "malloc_put", "new_find", "new_check", "new_put"}
Releasing == {"delete_find", "delete_check", "delete_put",
              "free_find", "free_check", "free_erase", "free"}

Init ==
    /\ taken = {}
    /\ objects = {}
    /\ inflight = [b \in Block |-> Null]
    /\ pc = [t \in Thread |-> "idle"]
    /\ block = [t \in Thread |-> Null]

-----------------------------------------------------------------------------
(* t makes the access at l and comes to the one at k. *)
Goes(t, l, k) == pc[t] = l /\ pc' = [pc EXCEPT ![t] = k]

(* The entries of a block with which the assert at l holds.  operator[]    *)
(* gives MALLOC_, which is zero, for a block without one.                  *)
Asserted(l) ==
    CASE l = "malloc_find"                                           -> {Null}
      [] l \in {"new_find", "delete_find", "free_find", "free_erase"} -> AllocOp
      [] l \in {"new_check", "free_check"}                  -> {Null, "MALLOC_"}
      [] l = "delete_check"                                        -> {"NEW_"}
      [] OTHER                                      -> AllocOp \cup {Null}

(* assert on inflight.find(p) *)
Find(t, l, k) ==
    /\ Goes(t, l, k)
    /\ inflight[block[t]] \in Asserted(l)
    /\ UNCHANGED <<taken, objects, inflight, block>>

(* assert on inflight[p], which inserts an entry that is missing *)
Check(t, l, k) ==
    /\ Goes(t, l, k)
    /\ inflight[block[t]] \in Asserted(l)
    /\ inflight' = [inflight EXCEPT ![block[t]] = IF @ = Null THEN "MALLOC_" ELSE @]
    /\ UNCHANGED <<taken, objects, block>>

(* inflight[p] = op *)
Put(t, l, k, op) ==
    /\ Goes(t, l, k)
    /\ inflight' = [inflight EXCEPT ![block[t]] = op]
    /\ UNCHANGED <<taken, block>>

(* ::malloc *)
Malloc(t) ==
    /\ Goes(t, "idle", "malloc_find")
    /\ \E b \in Block \ taken :
        /\ taken' = taken \cup {b}
        /\ block' = [block EXCEPT ![t] = b]
    /\ UNCHANGED <<objects, inflight>>

MallocFind(t) == Find(t, "malloc_find", "malloc_put")
MallocPut(t)  == Put(t, "malloc_put", "new_find", "MALLOC_") /\ UNCHANGED objects
NewFind(t)    == Find(t, "new_find", "new_check")
NewCheck(t)   == Check(t, "new_check", "new_put")

(* The end of new_: its caller has a pointer to the block. *)
NewPut(t) ==
    /\ Goes(t, "new_put", "idle")
    /\ inflight' = [inflight EXCEPT ![block[t]] = "NEW_"]
    /\ objects' = objects \cup {block[t]}
    /\ block' = [block EXCEPT ![t] = Null]
    /\ UNCHANGED taken

(* A thread begins to delete a block, its own or another's. *)
Delete(t) ==
    /\ Goes(t, "idle", "delete_find")
    /\ \E b \in objects :
        /\ objects' = objects \ {b}
        /\ block' = [block EXCEPT ![t] = b]
    /\ UNCHANGED <<taken, inflight>>

DeleteFind(t)  == Find(t, "delete_find", "delete_check")
DeleteCheck(t) == Check(t, "delete_check", "delete_put")

(* Fault: delete_ leaves the entry as it is. *)
DeletePut_Kept(t) ==
    /\ Goes(t, "delete_put", "free_find")
    /\ UNCHANGED <<taken, objects, inflight, block>>

DeletePut(t) == Put(t, "delete_put", "free_find", "MALLOC_") /\ UNCHANGED objects

FreeFind(t)    == Find(t, "free_find", "free_check")
FreeCheck(t)   == Check(t, "free_check", "free_erase")

(* Faults: ::free comes before erase; the entry is not erased. *)
FreeErase_FreesFirst(t) ==
    /\ Goes(t, "free_erase", "free")
    /\ taken' = taken \ {block[t]}
    /\ UNCHANGED <<objects, inflight, block>>

FreeErase_Kept(t) ==
    /\ Goes(t, "free_erase", "free")
    /\ UNCHANGED <<taken, objects, inflight, block>>

(* erase(p), which must have found the block *)
FreeErase(t) ==
    /\ Goes(t, "free_erase", "free")
    /\ inflight[block[t]] \in Asserted("free_erase")
    /\ inflight' = [inflight EXCEPT ![block[t]] = Null]
    /\ UNCHANGED <<taken, objects, block>>

(* ::free *)
Free(t) ==
    /\ Goes(t, "free", "idle")
    /\ taken' = taken \ {block[t]}
    /\ block' = [block EXCEPT ![t] = Null]
    /\ UNCHANGED <<objects, inflight>>

Next ==
    \E t \in Thread :
        \/ Malloc(t) \/ MallocFind(t) \/ MallocPut(t)
        \/ NewFind(t) \/ NewCheck(t) \/ NewPut(t)
        \/ Delete(t) \/ DeleteFind(t) \/ DeleteCheck(t) \/ DeletePut(t)
        \/ FreeFind(t) \/ FreeCheck(t) \/ FreeErase(t) \/ Free(t)

Spec == Init /\ [][Next]_vars

-----------------------------------------------------------------------------
TypeOK ==
    /\ taken \in SUBSET Block /\ objects \in SUBSET Block
    /\ inflight \in [Block -> AllocOp \cup {Null}]
    /\ pc \in [Thread -> {"idle"} \cup Acquiring \cup Releasing]
    /\ block \in [Thread -> Block \cup {Null}]

(* No assert of malloc, new_, delete_ or free fails, whatever other        *)
(* threads do between two accesses to the table and whichever block        *)
(* ::malloc returns.                                                       *)
AssertsHold ==
    \A t \in Thread : pc[t] # "idle" => inflight[block[t]] \in Asserted(pc[t])

(* A block that ::malloc returned is an object, or one thread is about to  *)
(* make it one or to give it back: never two of these.                     *)
OneUser ==
    /\ \A t \in Thread : (pc[t] = "idle") <=> (block[t] = Null)
    /\ \A t \in Thread : block[t] \notin objects
    /\ \A t, u \in Thread : t # u /\ block[t] # Null => block[t] # block[u]
    /\ taken = objects \cup {block[t] : t \in {u \in Thread : block[u] # Null}}

(* The destructor of the allocator prints the entries that are left and    *)
(* fails if there are any.  At every moment an object has its entry, and   *)
(* an entry is an object's or that of a block some thread is working at:   *)
(* with the threads at rest, what it prints is what nobody deleted.        *)
LeaksTold ==
    /\ \A b \in objects : inflight[b] = "NEW_"
    /\ \A b \in Block : inflight[b] # Null =>
         b \in objects \/ \E t \in Thread : block[t] = b

(* What the table says of a block at each access. *)
EntryAt(l) ==
    CASE l \in {"malloc_find", "malloc_put", "free"}            -> Null
      [] l \in {"delete_find", "delete_check", "delete_put"}    -> "NEW_"
      [] OTHER                                                  -> "MALLOC_"

EntriesUpToDate ==
    \A t \in Thread : pc[t] # "idle" => inflight[block[t]] = EntryAt(pc[t])

(* The inductive invariant *)
IInv == TypeOK /\ OneUser /\ LeaksTold /\ EntriesUpToDate
=============================================================================
