------------------------- MODULE PrivatePtrProofs -------------------------
(***************************************************************************)
(* The safety of private pointers in a pipeline, for every number of       *)
(* executors, addresses, blocks and values: IInv of PrivatePipeline is     *)
(* inductive, and implies the properties of PrivatePtr that the runs check *)
(* on small instances.                                                     *)
(*                                                                         *)
(* There is one lemma per action.  Each first states what the action       *)
(* changes, pointwise (an entry, a block, a handle), then proves the       *)
(* conjuncts of IInv one by one from those facts, in the order Unissued,   *)
(* Entries, Children, Uniques, SoleCapability, Handles, Messages,          *)
(* Frontier, Resets, Waiting, Loads.  The last part shows that PrivatePtr  *)
(* then implements PrivateMemory.                                          *)
(***************************************************************************)
EXTENDS PrivatePipeline, TLAPS

-----------------------------------------------------------------------------
(* The setters of View, and types *)

(* View::bind_committed changes one field of an entry and keeps its type.  *)
LEMMA CommittedBound ==
  ASSUME NEW x \in Entry, NEW c \in Cell \cup {Null}
  PROVE  LET y == BindCommitted(x, c)
         IN  /\ y \in Entry /\ y.committed = c /\ y.child = x.child
             /\ y.owner = x.owner /\ y.author = x.author
             /\ y.access_level = x.access_level
BY DEF Entry, BindCommitted

(* View::bind_child changes one field of an entry and keeps its type.      *)
LEMMA ChildBound ==
  ASSUME NEW x \in Entry, NEW c \in Cell \cup {Null}
  PROVE  LET y == BindChild(x, c)
         IN  /\ y \in Entry /\ y.child = c /\ y.committed = x.committed
             /\ y.owner = x.owner /\ y.author = x.author
             /\ y.access_level = x.access_level
BY DEF Entry, BindChild

(* View::bind_owner changes one field of an entry and keeps its type.      *)
LEMMA OwnerBound ==
  ASSUME NEW x \in Entry, NEW o \in Executor
  PROVE  LET y == BindOwner(x, o)
         IN  /\ y \in Entry /\ y.owner = o /\ y.committed = x.committed
             /\ y.child = x.child /\ y.author = x.author
             /\ y.access_level = x.access_level
BY DEF Entry, BindOwner

(* View::bind_author changes one field of an entry and keeps its type.     *)
LEMMA AuthorBound ==
  ASSUME NEW x \in Entry, NEW o \in Executor
  PROVE  LET y == BindAuthor(x, o)
         IN  /\ y \in Entry /\ y.author = o /\ y.committed = x.committed
             /\ y.child = x.child /\ y.owner = x.owner
             /\ y.access_level = x.access_level
BY DEF Entry, BindAuthor

(* What TypeOK says of the parts of every entry, request and message: the  *)
(* form the proofs use it in.                                              *)
Typed ==
  /\ \A e \in Executor, b \in Address : Mapped(e, b) =>
        /\ view[e][b] \in Entry
        /\ view[e][b].committed \in Cell \cup {Null}
        /\ view[e][b].child \in Cell \cup {Null}
        /\ view[e][b].author \in Executor
  /\ \A e \in Executor, c \in Cell : parent[e][c] \in Address \cup {Null}
  /\ \A e \in Executor : pvt[e] \subseteq Address /\ uniq[e] \subseteq Cell
  /\ \A e \in Executor : ~Running(e) =>
        fwd[e].p \in Address /\ fwd[e].lp \in Cell /\ fwd[e].to \in Executor
  /\ \A m \in pap : m.from \in Executor /\ m.to \in Executor /\ m.p \in Address
                    /\ m.author \in Executor
  /\ \A r \in dmn : r.from \in Executor /\ r.to \in Executor /\ r.p \in Address
  /\ \A s \in mem : s.from \in Executor /\ s.to \in Executor /\ s.value \in Value

(* Type correctness, read off pointwise.                                   *)
LEMMA TypeFacts == TypeOK => Typed
<1> SUFFICES ASSUME TypeOK PROVE Typed OBVIOUS
<1> USE DEF TypeOK, TableTypeOK
<1>1. ASSUME NEW e \in Executor, NEW b \in Address, Mapped(e, b)
      PROVE  view[e][b] \in Entry
  BY <1>1 DEF Mapped
<1>2. ASSUME NEW e \in Executor, NEW b \in Address, view[e][b] \in Entry
      PROVE  /\ view[e][b].committed \in Cell \cup {Null}
             /\ view[e][b].child \in Cell \cup {Null}
             /\ view[e][b].author \in Executor
  BY <1>2 DEF Entry
<1>3. \A e \in Executor : ~Running(e) =>
        fwd[e].p \in Address /\ fwd[e].lp \in Cell /\ fwd[e].to \in Executor
  BY DEF Running, Load
<1>4. \A m \in pap : m.from \in Executor /\ m.to \in Executor /\ m.p \in Address
                     /\ m.author \in Executor
  BY DEF Capability
<1>5. \A r \in dmn : r.from \in Executor /\ r.to \in Executor /\ r.p \in Address
  BY DEF Request
<1>6. \A s \in mem : s.from \in Executor /\ s.to \in Executor /\ s.value \in Value
  BY DEF Answer
<1> QED BY <1>1, <1>2, <1>3, <1>4, <1>5, <1>6 DEF Typed

(* An answer that has not been received yet goes to a thread that waits    *)
(* for it, and the block it was read from is still committed, at an author *)
(* without a child of that address.                                        *)
LEMMA LoadedBlock ==
  ASSUME IInv, NEW s \in mem
  PROVE  LET a == fwd[s.to].p
             c == view[s.from][a].committed
         IN  /\ s.from \in Executor /\ s.to \in Executor /\ s.from # s.to
             /\ a \in Address /\ c \in Cell
             /\ ~Running(s.to) /\ HeldBy(s.to, a) /\ ~OpenAt(s.from, a)
             /\ view[s.to][a].author = s.from
             /\ Mapped(s.from, a) /\ Backs(s.from, a)
             /\ parent[s.from][c] = a /\ s.value = heap[s.from][c]
<1> DEFINE a == fwd[s.to].p
           c == view[s.from][a].committed
<1>0. TypeOK /\ Typed /\ Entries /\ Waiting /\ Loads /\ Handles /\ SoleCapability
  BY TypeFacts DEF IInv
<1>1. /\ s.from \in Executor /\ s.to \in Executor /\ ~Running(s.to)
      /\ fwd[s.to].to = s.from /\ s.value = heap[s.from][c]
  BY <1>0 DEF Loads, Typed
<1>2. a \in Address /\ HeldBy(s.to, a) /\ view[s.to][a].author = s.from /\ s.from # s.to
  BY <1>0, <1>1 DEF Typed, Waiting
<1>3. Backs(s.from, a)
  <2>1. \A b \in Address : HeldBy(s.to, b) => Backs(view[s.to][b].author, b)
    BY <1>0, <1>1 DEF Handles, HeldBy
  <2> QED BY <2>1, <1>2
<1>4. Mapped(s.from, a) /\ c # Null BY <1>3 DEF Backs
<1>6. c \in Cell
  <2>1. \A f \in Executor, b \in Address :
           Mapped(f, b) => view[f][b].committed \in Cell \cup {Null}
    BY <1>0 DEF Typed
  <2>2. s.from \in Executor /\ a \in Address /\ Mapped(s.from, a) /\ c # Null
    BY <1>1, <1>2, <1>4
  <2> HIDE DEF a
  <2> QED BY <2>1, <2>2
<1>7. parent[s.from][c] = a BY <1>0, <1>1, <1>2, <1>3, <1>4 DEF Entries
<1>5. ~OpenAt(s.from, a) BY <1>0, <1>1, <1>2 DEF SoleCapability
<1> QED BY <1>1, <1>2, <1>3, <1>4, <1>5, <1>6, <1>7

(* Steps that leave the waiting threads, their answers and the blocks read *)
(* for them alone, and send no RLOAD, preserve Loads.                      *)
LEMMA LoadsKept ==
  ASSUME Loads, UNCHANGED <<fwd, mem>>,
         \A r \in dmn' : r.op = "RLOAD" => r \in dmn,
         \A s \in mem : heap'[s.from][view'[s.from][fwd[s.to].p].committed]
                          = heap[s.from][view[s.from][fwd[s.to].p].committed]
  PROVE  Loads'
BY DEF Loads, Running

-----------------------------------------------------------------------------
(* Steps that move a capability *)

(* private_ptr::push preserves the invariant. The only step that needs the *)
(* pipeline: the message and its receiver are above everything that has    *)
(* heard of the address (Frontier), hence above the target of any release  *)
(* (Resets).                                                               *)
LEMMA PushKeeps ==
  ASSUME IInv, NEW e \in Executor, NEW a \in Address, NEW t \in Executor,
         <<e, t>> \in Routes, Push(e, a, t)
  PROVE  IInv'
<1> DEFINE x == view[e][a]
           y == view'[e][a]
           n == [from |-> e, to |-> t, p |-> a, author |-> x.author]
<1> USE ViewAssumption, LoadAssumption
<1>0. /\ TypeOK /\ Unissued /\ Entries /\ Children /\ Uniques
      /\ SoleCapability /\ Handles /\ Messages /\ Frontier
      /\ Resets /\ Waiting /\ Loads /\ Typed
  BY TypeFacts DEF IInv
<1>1. x \in Entry /\ HeldBy(e, a) /\ x.owner = e /\ x # Null /\ fwd[e] = Null
  BY <1>0 DEF TypeOK, TableTypeOK, Push, AmOwner, Mapped, HeldBy, Running
<1>2. /\ y = BindOwner(x, t)
      /\ \A f \in Executor, b \in Address : f # e \/ b # a => view'[f][b] = view[f][b]
      /\ view' \in [Executor -> [Address -> Entry \cup {Null}]]
  BY <1>0, <1>1, OwnerBound DEF TypeOK, TableTypeOK, Push
<1>3. y \in Entry /\ y # Null /\ y.owner = t /\ y.committed = x.committed /\ y.child = x.child
       /\ y.author = x.author /\ y.access_level = x.access_level
  BY <1>1, <1>2, OwnerBound
<1>4. n \in Capability /\ n.from = e /\ n.to = t /\ n.p = a /\ n.author = x.author
  BY <1>1 DEF Entry, Capability
<1>5. UNCHANGED <<issued, parent, heap, uniq, fwd, dmn, mem>> BY DEF Push
<1>6. pap' = pap \cup {n}
  BY DEF Push
<1> HIDE DEF n
<1>7. /\ \A f \in Executor, b \in Address : HeldBy(f, b)' <=> HeldBy(f, b) /\ (f # e \/ b # a)
      /\ pvt' \in [Executor -> SUBSET Address]
  BY <1>0 DEF Push, TypeOK, Release, HeldBy
<1>8. TypeOK' BY <1>0, <1>2, <1>4, <1>5, <1>6, <1>7 DEF TypeOK, TableTypeOK
<1>9. \A f \in Executor, b \in Address : /\ Mapped(f, b)' <=> Mapped(f, b)
                                         /\ Backs(f, b)' <=> Backs(f, b)
                                         /\ OpenAt(f, b)' <=> OpenAt(f, b)
                                         /\ SentTo(f, b)' <=> SentTo(f, b) \/ (f = t /\ b = a)
                                         /\ view'[f][b].committed = view[f][b].committed
                                         /\ view'[f][b].child = view[f][b].child
                                         /\ view'[f][b].author = view[f][b].author
                                         /\ view'[f][b].access_level = view[f][b].access_level
  BY <1>1, <1>2, <1>3, <1>4, <1>5, <1>6 DEF Mapped, Backs, OpenAt, SentTo
<1>a. Unissued' BY <1>0, <1>1, <1>4, <1>5, <1>6, <1>7, <1>9 DEF Unissued
<1>b. Entries' BY <1>0, <1>5, <1>9 DEF Entries
<1>c. Children'
  BY <1>0, <1>5, <1>9 DEF Typed, Children, HasParent, Running, Mapped
<1>d. Uniques'
  <2> SUFFICES ASSUME NEW f \in Executor, NEW c \in uniq[f] 
      PROVE heap[f][c] # Null /\ (HasParent(f, c) => AmOwner(f, parent[f][c])' /\ view'[f][parent[f][c]].committed = c)
      BY <1>5 DEF Uniques, HasParent
  <2>1. c \in Cell /\ (HasParent(f, c) => parent[f][c] \in Address) BY <1>0 DEF TypeOK, TableTypeOK, HasParent
  <2>2. HasParent(f, c) => ~(f = e /\ parent[f][c] = a)
     BY <1>1, <1>0 DEF SoleCapability, OpenAt
  <2> QED 
     BY <2>1, <2>2, <1>0, <1>2, <1>5, <1>9 DEF Uniques, AmOwner, Mapped, HasParent
<1>e. SoleCapability'
  <2>3. ASSUME NEW m \in pap PROVE m.p # a
    BY <1>1, <1>0 DEF SoleCapability, SentTo, TypeOK, Capability
  <2> QED BY <1>0, <1>1, <2>3, <1>4, <1>6, <1>7, <1>9 DEF SoleCapability
<1>f. Handles'
  <2> SUFFICES ASSUME NEW f \in Executor, NEW b \in Address, HeldBy(f, b), f # e \/ b # a
               PROVE  /\ AmOwner(f, b)'
                      /\ Backs(view[f][b].author, b)'
                      /\ view'[f][b].author <= f
                      /\ view'[f][b].author # f => ~Backs(f, b)'
    BY <1>7, <1>8 DEF Handles, HeldBy, TypeOK
  <2>1. /\ AmOwner(f, b) /\ Mapped(f, b) /\ view[f][b].author \in Executor
        /\ Backs(view[f][b].author, b) /\ view[f][b].author <= f
        /\ view[f][b].author # f => ~Backs(f, b)
    BY <1>0 DEF Handles, HeldBy, AmOwner, Typed
  <2>2. view'[f][b] = view[f][b] BY <1>2
  <2> QED BY <2>1, <2>2, <1>9 DEF AmOwner, Mapped, Backs
<1>g. Messages' BY <1>0, <1>1, <1>4, <1>6, <1>9, OneWay DEF Messages, Handles, HeldBy, TypeOK, Capability
<1>h. Frontier' BY <1>0, <1>1, <1>4, <1>6, <1>7, <1>9 DEF Frontier, TypeOK, Capability
<1>i. Resets' 
  <2> SUFFICES ASSUME NEW r \in dmn', r.op = "PVT_RESET"
               PROVE  /\ Backs(r.to, r.p)'
                      /\ \A s \in dmn' : s.op = r.op /\ s.to = r.to /\ s.p = r.p => s = r
                      /\ \A f \in Executor : HeldBy(f, r.p)' \/ OpenAt(f, r.p)' =>
                            r.to < f /\ view'[f][r.p].author # r.to
                      /\ \A m \in pap' : m.p = r.p => r.to < m.from /\ m.author # r.to
    BY DEF Resets
  <2>1. r \in dmn /\ dmn' = dmn /\ r.to \in Executor /\ r.p \in Address
    BY <1>0, <1>5 DEF Typed
  <2>2. /\ Backs(r.to, r.p)
        /\ \A s \in dmn : s.op = r.op /\ s.to = r.to /\ s.p = r.p => s = r
        /\ \A f \in Executor : HeldBy(f, r.p) \/ OpenAt(f, r.p) =>
              r.to < f /\ view[f][r.p].author # r.to
        /\ \A m \in pap : m.p = r.p => r.to < m.from /\ m.author # r.to
    BY <2>1, <1>0 DEF Resets
  <2>3. Backs(r.to, r.p)' BY <2>1, <2>2, <1>9
  <2>4. \A f \in Executor : HeldBy(f, r.p)' \/ OpenAt(f, r.p)' =>
           r.to < f /\ view'[f][r.p].author # r.to
    BY <2>1, <2>2, <1>7, <1>9
  <2>5. r.p = n.p => r.to < n.from /\ n.author # r.to
    BY <2>2, <1>1, <1>4
  <2> QED BY <2>1, <2>2, <2>3, <2>4, <2>5, <1>6
<1>j. Waiting'
  <2>1. ASSUME NEW f \in Executor, ~Running(f)
        PROVE  f # e /\ fwd[f].p \in Address
    BY <2>1, <1>0, <1>1 DEF Running, Typed
  <2> QED BY <2>1, <1>0, <1>5, <1>7, <1>9 DEF Waiting, Running
<1>k. Loads'
  <2>1. ASSUME NEW s \in mem PROVE view'[s.from][fwd[s.to].p].committed = view[s.from][fwd[s.to].p].committed
    <3> DEFINE b == fwd[s.to].p
    <3>1. s.from \in Executor /\ b \in Address BY LoadedBlock
    <3> HIDE DEF b
    <3>2. view'[s.from][b].committed = view[s.from][b].committed BY <3>1, <1>9
    <3> QED BY <3>2 DEF b
  <2> QED BY <2>1, <1>0, <1>5, LoadsKept
<1> QED BY <1>8, <1>a, <1>b, <1>c, <1>d, <1>e, <1>f, <1>g, <1>h, <1>i, <1>j, <1>k DEF IInv

-----------------------------------------------------------------------------
(* Local memory *)

(* make_gam_unique preserves the invariant: a free block has no parent and *)
(* nobody points to it.                                                    *)
LEMMA MakeUniqueKeeps ==
  ASSUME IInv, NEW e \in Executor, NEW v \in Value, MakeUnique(e, v)
  PROVE  IInv'
<1> USE ViewAssumption, LoadAssumption
<1>0. /\ TypeOK /\ Unissued /\ Entries /\ Children /\ Uniques
      /\ SoleCapability /\ Handles /\ Messages /\ Frontier
      /\ Resets /\ Waiting /\ Loads /\ Typed
  BY TypeFacts DEF IInv
<1>1. PICK c \in FreeCells(e) : /\ heap' = [heap EXCEPT ![e][c] = v]
                                /\ Point(e, c)
  BY DEF MakeUnique
<1>2. c \in Cell /\ heap[e][c] = Null BY DEF FreeCells
<1>3. parent[e][c] = Null BY <1>0, <1>2 DEF Children, HasParent
<1>4. UNCHANGED <<issued, view, parent, pvt, fwd, pap, dmn, mem>>
  BY DEF MakeUnique, linkVars
<1>5. \A f \in Executor, d \in Cell :
         heap'[f][d] = IF f = e /\ d = c THEN v ELSE heap[f][d]
  BY <1>0, <1>1, <1>2 DEF TypeOK, TableTypeOK
<1>6. /\ \A f \in Executor : \A d : d \in uniq'[f] <=> d \in uniq[f] \/ (f = e /\ d = c)
      /\ uniq' \in [Executor -> SUBSET Cell]
  BY <1>0, <1>1, <1>2 DEF TypeOK, Point
<1>7. TypeOK' BY <1>0, <1>1, <1>2, <1>4, <1>6 DEF TypeOK, TableTypeOK
<1>8. \A f \in Executor, b \in Address :
         /\ HeldBy(f, b)' <=> HeldBy(f, b)
         /\ OpenAt(f, b)' <=> OpenAt(f, b)
         /\ SentTo(f, b)' <=> SentTo(f, b)
         /\ Mapped(f, b)' <=> Mapped(f, b)
         /\ Backs(f, b)' <=> Backs(f, b)
  BY <1>3, <1>4, <1>6 DEF HeldBy, OpenAt, SentTo, Mapped, Backs
<1>a. Unissued' BY <1>0, <1>4, <1>8 DEF Unissued
<1>b. Entries' BY <1>0, <1>4, <1>8 DEF Entries
<1>c. Children' BY <1>0, <1>3, <1>4, <1>5 DEF Children, HasParent, Mapped, Running
<1>d. Uniques' BY <1>0, <1>2, <1>3, <1>4, <1>5, <1>6 DEF Uniques, HasParent, AmOwner, Mapped, Typed
<1>e. SoleCapability' BY <1>0, <1>4, <1>8 DEF SoleCapability
<1>f. Handles' BY <1>0, <1>4 DEF Handles, AmOwner, Mapped, Backs
<1>g. Messages' BY <1>0, <1>4 DEF Messages, Mapped, Backs
<1>h. Frontier' BY <1>0, <1>4, <1>8, ApplicationAssumption DEF Frontier, Typed
<1>i. Resets' BY <1>0, <1>4, <1>8 DEF Resets, Typed
<1>j. Waiting' BY <1>0, <1>3, <1>4, <1>6, <1>8 DEF Waiting, Running, Typed
<1>k. Loads'
  <2>1. ASSUME NEW s \in mem PROVE heap'[s.from][view[s.from][fwd[s.to].p].committed]
                                 = heap[s.from][view[s.from][fwd[s.to].p].committed]
     BY LoadedBlock, <1>3, <1>5
  <2> QED BY <2>1, <1>0, <1>4, LoadsKept
<1> QED BY <1>7, <1>a, <1>b, <1>c, <1>d, <1>e, <1>f, <1>g, <1>h, <1>i, <1>j, <1>k DEF IInv

(* Writing through a gam_unique_ptr preserves the invariant: no answer in  *)
(* flight was read from an open block.                                     *)
LEMMA WriteKeeps ==
  ASSUME IInv, NEW e \in Executor, NEW c \in Cell, NEW v \in Value, Write(e, c, v)
  PROVE  IInv'
<1> USE ViewAssumption, LoadAssumption
<1>0. /\ TypeOK /\ Unissued /\ Entries /\ Children /\ Uniques
      /\ SoleCapability /\ Handles /\ Messages /\ Frontier
      /\ Resets /\ Waiting /\ Loads /\ Typed
  BY TypeFacts DEF IInv
<1>1. heap' = [heap EXCEPT ![e][c] = v] /\ c \in uniq[e] BY DEF Write
<1>2. UNCHANGED <<issued, view, parent, pvt, uniq, fwd, pap, dmn, mem>>
  BY DEF Write, userVars, linkVars
<1>3. \A f \in Executor, d \in Cell :
         heap'[f][d] = IF f = e /\ d = c THEN v ELSE heap[f][d]
  BY <1>0, <1>1 DEF TypeOK, TableTypeOK
<1>4. TypeOK' BY <1>0, <1>1, <1>2 DEF TypeOK, TableTypeOK
<1>5. /\ Unissued' /\ Entries' /\ SoleCapability' /\ Handles' /\ Messages'
      /\ Frontier' /\ Resets' /\ Waiting'
  <2>1. Unissued' /\ Entries' /\ Handles' /\ Messages'
    BY <1>0, <1>2 DEF Unissued, Entries, Handles, Messages, Mapped, Backs, HeldBy, AmOwner
  <2>2. SoleCapability' /\ Frontier'
    BY <1>0, <1>2 DEF SoleCapability, Frontier, Mapped, HeldBy, OpenAt, SentTo
  <2>3. Resets' BY <1>0, <1>2 DEF Resets, Mapped, Backs, HeldBy, OpenAt
  <2>4. Waiting' BY <1>0, <1>2 DEF Waiting, HeldBy, Running
  <2> QED BY <2>1, <2>2, <2>3, <2>4
<1>6. Children' BY <1>0, <1>2, <1>3 DEF Children, HasParent, Mapped, Running
<1>7. Uniques'
  <2>1. \A f \in Executor : \A d \in uniq[f] : d \in Cell BY <1>0 DEF Typed
  <2>2. \A f \in Executor : \A d \in uniq[f] : heap[f][d] # Null BY <1>0 DEF Uniques
  <2>3. \A f \in Executor : \A d \in uniq[f] : heap'[f][d] # Null BY <2>1, <2>2, <1>3
  <2> QED BY <2>3, <1>0, <1>2 DEF Uniques, HasParent, AmOwner, Mapped
<1>8. Loads'
  <2>1. ASSUME NEW s \in mem PROVE heap'[s.from][view[s.from][fwd[s.to].p].committed]
                                 = heap[s.from][view[s.from][fwd[s.to].p].committed]
     <3> DEFINE d == view[s.from][fwd[s.to].p].committed
     <3>1. s.from \in Executor /\ d \in Cell /\ d \notin uniq[s.from]
       BY LoadedBlock DEF OpenAt
     <3> HIDE DEF d
     <3>2. heap'[s.from][d] = heap[s.from][d] BY <3>1, <1>1, <1>3
     <3> QED BY <3>2 DEF d
  <2> QED BY <2>1, <1>0, <1>2, LoadsKept
<1> QED BY <1>4, <1>5, <1>6, <1>7, <1>8 DEF IInv

-----------------------------------------------------------------------------
(* Opening and closing at home *)

(* writeback() preserves the invariant: the child of an address becomes    *)
(* its handle.                                                             *)
LEMMA WriteBackKeeps ==
  ASSUME IInv, NEW e \in Executor, NEW c \in Cell, WriteBack(e, c)
  PROVE  IInv'
<1> DEFINE a == parent[e][c]
<1> USE ViewAssumption, LoadAssumption
<1>0. /\ TypeOK /\ Unissued /\ Entries /\ Children /\ Uniques
      /\ SoleCapability /\ Handles /\ Messages /\ Frontier
      /\ Resets /\ Waiting /\ Loads /\ Typed
  BY TypeFacts DEF IInv
<1>1. /\ c \in uniq[e] /\ a \in Address /\ AmOwner(e, a) /\ Running(e)
      /\ view[e][a].committed = c /\ Backs(e, a) /\ view[e][a].author = e
  <2>1. c \in uniq[e] /\ a \in Address /\ AmOwner(e, a) /\ HasParent(e, c) /\ Running(e)
    BY <1>0 DEF WriteBack, HasParent, Typed
  <2>2. view[e][a].committed = c BY <1>0, <2>1 DEF Uniques
  <2>3. Backs(e, a) BY <2>1, <2>2 DEF Backs, AmOwner
  <2> QED BY <2>1, <2>2, <2>3, <1>0 DEF Entries, Backs
<1>2. UNCHANGED <<issued, view, parent, heap, fwd, pap, dmn, mem>>
  BY DEF WriteBack, tableVars, linkVars
<1>3. /\ \A f \in Executor, b \in Address : HeldBy(f, b)' <=> HeldBy(f, b) \/ (f = e /\ b = a)
      /\ \A f \in Executor : \A d : d \in uniq'[f] <=> d \in uniq[f] /\ (f # e \/ d # c)
  BY <1>0, <1>1 DEF WriteBack, Hold, Unpoint, HeldBy, TypeOK
<1>4. TypeOK' BY <1>0, <1>1, <1>2 DEF TypeOK, TableTypeOK, WriteBack, Hold, Unpoint
<1>5. OpenAt(e, a) BY <1>1 DEF OpenAt
<1>6. \A d \in Cell : parent[e][d] = a => d = c
  BY <1>0, <1>1 DEF Children, HasParent
<1>7. \A f \in Executor, b \in Address : /\ OpenAt(f, b)' <=> OpenAt(f, b) /\ (f # e \/ b # a)
                                         /\ SentTo(f, b)' <=> SentTo(f, b)
  <2>1. \A f \in Executor, b \in Address : OpenAt(f, b)' => OpenAt(f, b) /\ (f # e \/ b # a)
    BY <1>0, <1>2, <1>3, <1>6 DEF OpenAt, Typed
  <2>2. \A f \in Executor, b \in Address : OpenAt(f, b) /\ (f # e \/ b # a) => OpenAt(f, b)'
    BY <1>2, <1>3 DEF OpenAt
  <2> QED BY <2>1, <2>2, <1>2 DEF SentTo
<1>a. Unissued' BY <1>0, <1>1, <1>2, <1>3 DEF Unissued, Mapped, Backs
<1>b. Entries' /\ Children' /\ Messages'
  BY <1>0, <1>2 DEF Entries, Children, Messages, Mapped, Backs, HasParent, Running
<1>d. Uniques' BY <1>0, <1>2, <1>3 DEF Uniques, HasParent, AmOwner, Mapped
<1>e. SoleCapability' BY <1>0, <1>1, <1>2, <1>3, <1>5, <1>7 DEF SoleCapability
<1>f. Handles'
  <2>1. ASSUME NEW f \in Executor, NEW b \in Address, HeldBy(f, b)'
        PROVE  /\ AmOwner(f, b) /\ Backs(view[f][b].author, b)
               /\ view[f][b].author <= f
               /\ view[f][b].author # f => ~Backs(f, b)
    BY <2>1, <1>0, <1>1, <1>3, ApplicationAssumption DEF Handles, HeldBy
  <2> QED BY <2>1, <1>2, <1>4 DEF Handles, HeldBy, TypeOK, AmOwner, Mapped, Backs
<1>h. Frontier' BY <1>0, <1>1, <1>2, <1>3, <1>5, <1>7 DEF Frontier, Mapped
<1>i. Resets' BY <1>0, <1>1, <1>2, <1>3, <1>5, <1>7 DEF Resets, Mapped, Backs, Typed
<1>j. Waiting' BY <1>0, <1>1, <1>2, <1>3 DEF Waiting, Running, Typed
<1>k. Loads' BY <1>0, <1>2 DEF Loads, Running
<1> QED BY <1>4, <1>a, <1>b, <1>d, <1>e, <1>f, <1>h, <1>i, <1>j, <1>k DEF IInv

(* local() by the author preserves the invariant: a handle becomes a       *)
(* child.                                                                  *)
LEMMA LocalAtHomeKeeps ==
  ASSUME IInv, NEW e \in Executor, NEW a \in Address, LocalAtHome(e, a)
  PROVE  IInv'
<1> DEFINE c == view[e][a].committed
<1> USE ViewAssumption, LoadAssumption
<1>0. /\ TypeOK /\ Unissued /\ Entries /\ Children /\ Uniques
      /\ SoleCapability /\ Handles /\ Messages /\ Frontier
      /\ Resets /\ Waiting /\ Loads /\ Typed
  BY TypeFacts DEF IInv
<1>1. /\ c \in Cell /\ HeldBy(e, a) /\ AmOwner(e, a) /\ Running(e)
      /\ Backs(e, a) /\ view[e][a].author = e /\ parent[e][c] = a
  <2>1. HeldBy(e, a) /\ AmOwner(e, a) /\ Mapped(e, a) /\ c # Null /\ view[e][a].author = e /\ Running(e)
    BY DEF LocalAtHome, HeldBy, AmOwner, AmAuthor
  <2>2. c \in Cell BY <1>0, <2>1 DEF Typed
  <2>3. Backs(e, a) BY <2>1 DEF Backs
  <2> QED BY <2>1, <2>2, <2>3, <1>0 DEF Entries
<1>2. UNCHANGED <<issued, view, parent, heap, fwd, pap, dmn, mem>>
  BY DEF LocalAtHome, tableVars, linkVars
<1>3. /\ \A f \in Executor, b \in Address : HeldBy(f, b)' <=> HeldBy(f, b) /\ (f # e \/ b # a)
      /\ \A f \in Executor : \A d : d \in uniq'[f] <=> d \in uniq[f] \/ (f = e /\ d = c)
  BY <1>0, <1>1 DEF LocalAtHome, Release, Point, HeldBy, TypeOK
<1>4. TypeOK' BY <1>0, <1>1, <1>2 DEF TypeOK, TableTypeOK, LocalAtHome, Release, Point
<1>5. \A f \in Executor, b \in Address : /\ OpenAt(f, b)' <=> OpenAt(f, b) \/ (f = e /\ b = a)
                                         /\ SentTo(f, b)' <=> SentTo(f, b)
  <2>1. \A f \in Executor, b \in Address : OpenAt(f, b)' => OpenAt(f, b) \/ (f = e /\ b = a)
    BY <1>1, <1>2, <1>3 DEF OpenAt
  <2>2. \A f \in Executor, b \in Address : OpenAt(f, b) \/ (f = e /\ b = a) => OpenAt(f, b)'
    BY <1>1, <1>2, <1>3 DEF OpenAt
  <2> QED BY <2>1, <2>2, <1>2 DEF SentTo
<1>a. Unissued' BY <1>0, <1>1, <1>2, <1>3 DEF Unissued, Mapped
<1>b. Entries' /\ Children' /\ Messages'
  BY <1>0, <1>2 DEF Entries, Children, Messages, Mapped, Backs, HasParent, Running
<1>d. Uniques'
  <2>1. HasParent(e, c) BY <1>1 DEF HasParent
  <2>2. heap[e][c] # Null BY <2>1, <1>0, <1>1 DEF Children
  <2> QED BY <2>2, <1>0, <1>1, <1>2, <1>3 DEF Uniques, HasParent, AmOwner, Mapped
<1>e. SoleCapability' BY <1>0, <1>1, <1>2, <1>3, <1>5 DEF SoleCapability
<1>f. Handles'
  <2>1. ASSUME NEW f \in Executor, NEW b \in Address, HeldBy(f, b)'
        PROVE  /\ AmOwner(f, b) /\ Backs(view[f][b].author, b)
               /\ view[f][b].author <= f
               /\ view[f][b].author # f => ~Backs(f, b)
    BY <2>1, <1>0, <1>3 DEF Handles, HeldBy
  <2> QED BY <2>1, <1>2, <1>4 DEF Handles, HeldBy, TypeOK, AmOwner, Mapped, Backs
<1>h. Frontier' BY <1>0, <1>1, <1>2, <1>3, <1>5 DEF Frontier, Mapped
<1>i. Resets' BY <1>0, <1>1, <1>2, <1>3, <1>5 DEF Resets, Mapped, Backs, Typed
<1>j. Waiting'
  BY <1>0, <1>1, <1>2, <1>3 DEF Waiting, Running, Typed
<1>k. Loads' BY <1>0, <1>2 DEF Loads, Running
<1> QED BY <1>4, <1>a, <1>b, <1>d, <1>e, <1>f, <1>h, <1>i, <1>j, <1>k DEF IInv

(* What mmap_private does to the tables. *)

-----------------------------------------------------------------------------
(* Creation *)

(* What mmap_private changes, pointwise.                                   *)
LEMMA MmapPrivateEffect ==
  ASSUME TypeOK, NEW e \in Executor, NEW a \in Address, NEW c \in Cell,
         MmapPrivate(e, a, c)
  PROVE  /\ issued' \subseteq Address /\ issued' = issued \cup {a}
         /\ view' \in [Executor -> [Address -> Entry \cup {Null}]]
         /\ parent' \in [Executor -> [Cell -> Address \cup {Null}]]
         /\ view'[e][a] # Null /\ view'[e][a].committed = c
         /\ view'[e][a].child = c /\ view'[e][a].owner = e
         /\ view'[e][a].author = e /\ view'[e][a].access_level = "private"
         /\ \A f \in Executor, b \in Address :
               f # e \/ b # a => view'[f][b] = view[f][b]
         /\ \A f \in Executor, d \in Cell :
               parent'[f][d] = IF f = e /\ d = c THEN a ELSE parent[f][d]
<1>1. PrivateEntry(e, c) \in Entry BY DEF PrivateEntry, Entry, AccessLevel
<1>2. view' = [view EXCEPT ![e][a] = PrivateEntry(e, c)] BY DEF MmapPrivate
<1>3. view'[e][a] = PrivateEntry(e, c) BY <1>2 DEF TypeOK, TableTypeOK
<1>4. PrivateEntry(e, c) # Null BY <1>1, ViewAssumption
<1>5. /\ view' \in [Executor -> [Address -> Entry \cup {Null}]]
      /\ \A f \in Executor, b \in Address :
               f # e \/ b # a => view'[f][b] = view[f][b]
  BY <1>1, <1>2 DEF TypeOK, TableTypeOK
<1>6. /\ parent' \in [Executor -> [Cell -> Address \cup {Null}]]
      /\ \A f \in Executor, d \in Cell :
               parent'[f][d] = IF f = e /\ d = c THEN a ELSE parent[f][d]
  BY DEF MmapPrivate, TypeOK, TableTypeOK
<1>7. issued' \subseteq Address /\ issued' = issued \cup {a}
  BY DEF MmapPrivate, TypeOK, TableTypeOK
<1> QED BY <1>3, <1>4, <1>5, <1>6, <1>7 DEF PrivateEntry

(* A fresh address mapped to a live block that has no parent. *)

(* A handle on a fresh address of a block without parent preserves the     *)
(* invariant: what make_private and make() have in common.                 *)
LEMMA FreshKeeps ==
  ASSUME IInv, NEW e \in Executor, NEW a \in FreshAddresses, NEW c \in Cell,
         MmapPrivate(e, a, c), Hold(e, a), Running(e),
         parent[e][c] = Null,
         heap' \in [Executor -> [Cell -> Value \cup {Null}]],
         heap'[e][c] # Null,
         \A f \in Executor, d \in Cell : f # e \/ d # c => heap'[f][d] = heap[f][d],
         uniq' \in [Executor -> SUBSET Cell],
         \A f \in Executor, d \in Cell : d \in uniq'[f] <=> d \in uniq[f] /\ (f # e \/ d # c),
         UNCHANGED <<fwd, pap, dmn, mem>>
  PROVE  IInv'
<1> USE ViewAssumption, LoadAssumption
<1>0. /\ TypeOK /\ Unissued /\ Entries /\ Children /\ Uniques
      /\ SoleCapability /\ Handles /\ Messages /\ Frontier
      /\ Resets /\ Waiting /\ Loads /\ Typed
  BY TypeFacts DEF IInv
<1>1. a \in Address /\ a \notin issued BY DEF FreshAddresses
<1>2. /\ \A f \in Executor : ~Mapped(f, a) /\ ~HeldBy(f, a)
      /\ \A f \in Executor : ~OpenAt(f, a) /\ ~SentTo(f, a)
      /\ \A f \in Executor, d \in Cell : parent[f][d] # a
  <2>1. \A f \in Executor : ~Mapped(f, a) /\ ~HeldBy(f, a) /\ ~SentTo(f, a)
    BY <1>0, <1>1 DEF Unissued, SentTo
  <2>2. \A f \in Executor, d \in Cell : parent[f][d] # a
    BY <2>1, <1>1, <1>0 DEF Children, HasParent
  <2> QED BY <2>1, <2>2, <1>0 DEF OpenAt, Typed
<1>3. /\ issued' \subseteq Address /\ issued' = issued \cup {a}
      /\ view' \in [Executor -> [Address -> Entry \cup {Null}]]
      /\ parent' \in [Executor -> [Cell -> Address \cup {Null}]]
      /\ view'[e][a] # Null /\ view'[e][a].committed = c
      /\ view'[e][a].child = c /\ view'[e][a].owner = e
      /\ view'[e][a].author = e /\ view'[e][a].access_level = "private"
      /\ \A f \in Executor, b \in Address :
            f # e \/ b # a => view'[f][b] = view[f][b]
      /\ \A f \in Executor, d \in Cell :
            parent'[f][d] = IF f = e /\ d = c THEN a ELSE parent[f][d]
  BY <1>0, <1>1, MmapPrivateEffect
<1>4. /\ \A f \in Executor, b \in Address : HeldBy(f, b)' <=> HeldBy(f, b) \/ (f = e /\ b = a)
      /\ pvt' \in [Executor -> SUBSET Address]
  BY <1>0, <1>1 DEF Hold, HeldBy, TypeOK
<1>5. TypeOK' BY <1>0, <1>3, <1>4 DEF TypeOK, TableTypeOK
<1>6. \A f \in Executor, b \in Address :
         /\ Mapped(f, b)' <=> Mapped(f, b) \/ (f = e /\ b = a)
         /\ Backs(f, b)' <=> Backs(f, b) \/ (f = e /\ b = a)
         /\ SentTo(f, b)' <=> SentTo(f, b)
  BY <1>1, <1>2, <1>3 DEF Mapped, Backs, SentTo
<1>7. \A f \in Executor, b \in Address : OpenAt(f, b)' <=> OpenAt(f, b)
  <2>1. ASSUME NEW f \in Executor, NEW b \in Address, OpenAt(f, b)' PROVE OpenAt(f, b)
    <3>1. PICK d \in uniq'[f] : parent'[f][d] = b BY <2>1 DEF OpenAt
    <3>2. d \in Cell /\ d \in uniq[f] /\ (f # e \/ d # c) BY <1>5 DEF TypeOK
    <3>3. parent[f][d] = b BY <3>1, <3>2, <1>3
    <3> QED BY <3>2, <3>3 DEF OpenAt
  <2>2. ASSUME NEW f \in Executor, NEW b \in Address, OpenAt(f, b) PROVE OpenAt(f, b)'
    <3>1. PICK d \in uniq[f] : parent[f][d] = b BY <2>2 DEF OpenAt
    <3>2. d \in Cell /\ (f # e \/ d # c) BY <3>1, <1>0 DEF Typed
    <3> QED BY <3>1, <3>2, <1>3 DEF OpenAt
  <2> QED BY <2>1, <2>2
<1>a. Unissued' BY <1>0, <1>3, <1>4, <1>6 DEF Unissued
<1>b. Entries'
  <2> SUFFICES ASSUME NEW f \in Executor, NEW b \in Address, Mapped(f, b)'
               PROVE  /\ view'[f][b].access_level = "private"
                      /\ Backs(f, b)' => /\ view'[f][b].author = f
                                         /\ view'[f][b].child = view'[f][b].committed
                                         /\ parent'[f][view'[f][b].committed] = b
    BY DEF Entries
  <2>1. CASE f = e /\ b = a BY <2>1, <1>3
  <2>2. CASE f # e \/ b # a
    <3>1. view'[f][b] = view[f][b] /\ Mapped(f, b) BY <2>2, <1>3, <1>6
    <3>2. CASE ~Backs(f, b) BY <3>1, <3>2, <2>2, <1>0, <1>6 DEF Entries
    <3>3. CASE Backs(f, b)
      <4>1. view[f][b].committed \in Cell /\ parent[f][view[f][b].committed] = b
        BY <3>1, <3>3, <1>0 DEF Entries, Typed, Backs
      <4>2. parent'[f][view[f][b].committed] = b BY <4>1, <1>3
      <4> QED BY <4>2, <3>1, <3>3, <1>0 DEF Entries
    <3> QED BY <3>2, <3>3
  <2> QED BY <2>1, <2>2
<1>c. Children'
  <2> SUFFICES ASSUME NEW f \in Executor, NEW d \in Cell, HasParent(f, d)'
               PROVE  /\ heap'[f][d] # Null
                      /\ view'[f][parent'[f][d]] # Null
                      /\ view'[f][parent'[f][d]].child = d
                      /\ \/ view'[f][parent'[f][d]].committed = d
                         \/ ~Running(f) /\ fwd[f].lp = d /\ fwd[f].p = parent'[f][d]
    BY DEF Children, Running, Mapped
  <2>1. CASE f = e /\ d = c BY <2>1, <1>3
  <2>2. CASE f # e \/ d # c
    <3>1. parent'[f][d] = parent[f][d] /\ HasParent(f, d) /\ heap'[f][d] = heap[f][d]
      BY <2>2, <1>3 DEF HasParent
    <3>2. parent[f][d] \in Address /\ parent[f][d] # a BY <3>1, <1>0, <1>2 DEF Typed, HasParent
    <3>3. view'[f][parent[f][d]] = view[f][parent[f][d]] BY <3>2, <1>3
    <3> QED BY <3>1, <3>3, <1>0 DEF Children, Mapped
  <2> QED BY <2>1, <2>2
<1>d. Uniques'
  <2> SUFFICES ASSUME NEW f \in Executor, NEW d \in uniq'[f]
               PROVE  /\ heap'[f][d] # Null
                      /\ parent'[f][d] # Null => /\ view'[f][parent'[f][d]] # Null
                                                 /\ view'[f][parent'[f][d]].owner = f
                                                 /\ view'[f][parent'[f][d]].committed = d
    BY DEF Uniques, HasParent, AmOwner, Mapped
  <2>1. d \in Cell /\ d \in uniq[f] /\ (f # e \/ d # c) BY <1>5 DEF TypeOK
  <2>2. parent'[f][d] = parent[f][d] /\ heap'[f][d] = heap[f][d] BY <2>1, <1>3
  <2>3. parent[f][d] # Null => parent[f][d] \in Address /\ parent[f][d] # a
    BY <2>1, <1>0, <1>2 DEF Typed
  <2>4. parent[f][d] # Null => view'[f][parent[f][d]] = view[f][parent[f][d]] BY <2>3, <1>3
  <2> QED BY <2>1, <2>2, <2>4, <1>0 DEF Uniques, HasParent, AmOwner, Mapped
<1>e. SoleCapability' BY <1>0, <1>1, <1>2, <1>4, <1>6, <1>7 DEF SoleCapability
<1>f. Handles'
  <2> SUFFICES ASSUME NEW f \in Executor, NEW b \in Address, HeldBy(f, b)'
               PROVE  /\ AmOwner(f, b)' /\ Backs(view[f][b].author, b)'
                      /\ view'[f][b].author <= f
                      /\ view'[f][b].author # f => ~Backs(f, b)'
    BY <1>5 DEF Handles, HeldBy, TypeOK
  <2>1. CASE f = e /\ b = a
    BY <2>1, <1>1, <1>3, ApplicationAssumption DEF AmOwner, Mapped, Backs
  <2>2. CASE f # e \/ b # a
    <3>1. view'[f][b] = view[f][b] /\ HeldBy(f, b) BY <2>2, <1>3, <1>4
    <3>2. /\ AmOwner(f, b) /\ Mapped(f, b) /\ view[f][b].author \in Executor
          /\ Backs(view[f][b].author, b) /\ view[f][b].author <= f
          /\ view[f][b].author # f => ~Backs(f, b)
      BY <3>1, <1>0 DEF Handles, HeldBy, AmOwner, Typed
    <3> QED BY <3>1, <3>2, <2>2, <1>2, <1>3 DEF AmOwner, Mapped, Backs
  <2> QED BY <2>1, <2>2
<1>g. Messages'
  <2>1. ASSUME NEW m \in pap PROVE m.p # a /\ m.p \in Address /\ m.author \in Executor
    BY <1>0, <1>1 DEF Unissued, Typed
  <2>2. ASSUME NEW m \in pap PROVE view'[m.author][m.p] = view[m.author][m.p]
    BY <2>1, <1>3
  <2>3. pap' = pap BY <1>2
  <2> QED BY <2>2, <2>3, <1>0 DEF Messages, Mapped, Backs
<1>h. Frontier'
  <2>1. \A m \in pap : m.p # a /\ m.p \in Address
    BY <1>0, <1>1 DEF Unissued, Typed
  <2> QED BY <2>1, <1>0, <1>2, <1>4, <1>6, <1>7, ApplicationAssumption DEF Frontier
<1>i. Resets'
  <2>1. \A r \in dmn : r.p # a /\ r.p \in Address /\ r.to \in Executor
    BY <1>0, <1>1 DEF Unissued, Typed
  <2>2. \A r \in dmn, f \in Executor : view'[f][r.p] = view[f][r.p]
    BY <2>1, <1>3
  <2> QED BY <2>1, <2>2, <1>0, <1>4, <1>7 DEF Resets, Mapped, Backs
<1>j. Waiting'
  <2>1. ASSUME NEW f \in Executor, ~Running(f)
        PROVE /\ fwd[f].p # a /\ fwd[f].p \in Address /\ fwd[f].lp \in Cell
              /\ f # e
    BY <2>1, <1>0, <1>2 DEF Waiting, Typed
  <2>2. ASSUME NEW f \in Executor, ~Running(f)
        PROVE  /\ view'[f][fwd[f].p] = view[f][fwd[f].p]
               /\ parent'[f][fwd[f].lp] = parent[f][fwd[f].lp]
               /\ HeldBy(f, fwd[f].p) => fwd[f].p \in pvt'[f]
               /\ fwd[f].lp \in uniq'[f] => fwd[f].lp \in uniq[f]
    BY <2>1, <2>2, <1>3, <1>4 DEF HeldBy
  <2> QED BY <2>2, <1>0 DEF Waiting, Running, HeldBy
<1>k. Loads'
  <2>1. ASSUME NEW s \in mem
        PROVE  heap'[s.from][view'[s.from][fwd[s.to].p].committed]
                  = heap[s.from][view[s.from][fwd[s.to].p].committed]
    <3> DEFINE b == fwd[s.to].p
               d == view[s.from][b].committed
    <3>1. /\ s.from \in Executor /\ b \in Address /\ d \in Cell
          /\ parent[s.from][d] = b /\ Mapped(s.from, b)
      BY LoadedBlock
    <3> HIDE DEF b, d
    <3>2. view'[s.from][b] = view[s.from][b] BY <3>1, <1>2, <1>3
    <3>3. s.from # e \/ d # c BY <3>1, <1>2
    <3>4. heap'[s.from][d] = heap[s.from][d] BY <3>1, <3>3, <1>3
    <3> QED BY <3>2, <3>4 DEF b, d
  <2> QED BY <2>1, <1>0, LoadsKept
<1> QED BY <1>5, <1>a, <1>b, <1>c, <1>d, <1>e, <1>f, <1>g, <1>h, <1>i, <1>j, <1>k DEF IInv

(* make_private preserves the invariant.                                   *)
LEMMA MakeKeeps ==
  ASSUME IInv, NEW e \in Executor, NEW v \in Value, Make(e, v)
  PROVE  IInv'
<1>0. TypeOK /\ Children BY DEF IInv
<1>1. PICK a \in FreshAddresses, c \in FreeCells(e) :
         /\ MmapPrivate(e, a, c)
         /\ heap' = [heap EXCEPT ![e][c] = v]
         /\ Hold(e, a)
  BY DEF Make
<1>2. c \in Cell /\ parent[e][c] = Null /\ v # Null
  BY <1>0, ViewAssumption DEF FreeCells, Children, HasParent
<1>3. c \notin uniq[e] BY <1>1 DEF IInv, Uniques, FreeCells
<1>4. Running(e) /\ UNCHANGED <<uniq, fwd, pap, dmn, mem>> BY DEF Make, linkVars
<1>5. /\ heap' \in [Executor -> [Cell -> Value \cup {Null}]] /\ heap'[e][c] # Null
      /\ \A f \in Executor, d \in Cell : f # e \/ d # c => heap'[f][d] = heap[f][d]
  BY <1>0, <1>1, <1>2 DEF TypeOK, TableTypeOK
<1>6. /\ uniq' \in [Executor -> SUBSET Cell]
      /\ \A f \in Executor, d \in Cell : d \in uniq'[f] <=> d \in uniq[f] /\ (f # e \/ d # c)
  BY <1>0, <1>3, <1>4 DEF TypeOK
<1> QED BY <1>1, <1>2, <1>4, <1>5, <1>6, FreshKeeps

(* make() of a gam_unique_ptr without parent preserves the invariant.      *)
LEMMA AdoptKeeps ==
  ASSUME IInv, NEW e \in Executor, NEW c \in Cell, Adopt(e, c)
  PROVE  IInv'
<1>0. TypeOK BY DEF IInv
<1>1. PICK a \in FreshAddresses : MmapPrivate(e, a, c) /\ Hold(e, a) BY DEF Adopt
<1>2. /\ parent[e][c] = Null /\ c \in uniq[e] /\ Running(e)
      /\ UNCHANGED <<heap, fwd, pap, dmn, mem>>
  BY DEF Adopt, HasParent, linkVars
<1>3. /\ heap' \in [Executor -> [Cell -> Value \cup {Null}]] /\ heap'[e][c] # Null
      /\ \A f \in Executor, d \in Cell : f # e \/ d # c => heap'[f][d] = heap[f][d]
  BY <1>0, <1>2 DEF TypeOK, TableTypeOK, IInv, Uniques
<1>4. /\ uniq' \in [Executor -> SUBSET Cell]
      /\ \A f \in Executor, d \in Cell : d \in uniq'[f] <=> d \in uniq[f] /\ (f # e \/ d # c)
  BY <1>0 DEF Adopt, Unpoint, TypeOK
<1> QED BY <1>1, <1>2, <1>3, <1>4, FreshKeeps

(* What unmap does to the tables. *)

-----------------------------------------------------------------------------
(* Release *)

(* What Context::unmap changes where the executor has the memory: the      *)
(* entry, the parent of its block and the block disappear, and nothing     *)
(* else.                                                                   *)
LEMMA UnmapEffect ==
  ASSUME TypeOK, Entries, NEW e \in Executor, NEW a \in Address,
         Backs(e, a), Unmap(e, a)
  PROVE  LET c == view[e][a].committed
         IN  /\ c \in Cell /\ parent[e][c] = a /\ view[e][a].author = e
             /\ issued' = issued
             /\ TableTypeOK'
             /\ \A f \in Executor, b \in Address :
                   view'[f][b] = IF f = e /\ b = a THEN Null ELSE view[f][b]
             /\ \A f \in Executor, d \in Cell :
                   parent'[f][d] = IF f = e /\ d = c THEN Null ELSE parent[f][d]
             /\ \A f \in Executor, d \in Cell :
                   heap'[f][d] = IF f = e /\ d = c THEN Null ELSE heap[f][d]
<1> DEFINE c == view[e][a].committed
<1>1. /\ Mapped(e, a) /\ c # Null /\ view[e][a].access_level = "private"
      /\ view[e][a].author = e /\ view[e][a].child = c /\ parent[e][c] = a
  BY DEF Backs, Entries
<1>2. c \in Cell BY <1>1, TypeFacts DEF Typed
<1>3. /\ issued' = issued /\ view' = [view EXCEPT ![e][a] = Null]
      /\ parent' = [parent EXCEPT ![e] = [d \in Cell |->
                       IF d = c THEN Null ELSE parent[e][d]]]
      /\ heap' = [heap EXCEPT ![e] = [d \in Cell |->
                       IF d = c THEN Null ELSE heap[e][d]]]
  BY <1>1 DEF Unmap, ParentsWithout, HeapWithout
<1> HIDE DEF c
<1>4. /\ view' \in [Executor -> [Address -> Entry \cup {Null}]]
      /\ \A f \in Executor, b \in Address :
            view'[f][b] = IF f = e /\ b = a THEN Null ELSE view[f][b]
  BY <1>3 DEF TypeOK, TableTypeOK
<1>5. /\ parent' \in [Executor -> [Cell -> Address \cup {Null}]]
      /\ \A f \in Executor, d \in Cell :
            parent'[f][d] = IF f = e /\ d = c THEN Null ELSE parent[f][d]
  BY <1>3 DEF TypeOK, TableTypeOK
<1>6. /\ heap' \in [Executor -> [Cell -> Value \cup {Null}]]
      /\ \A f \in Executor, d \in Cell :
            heap'[f][d] = IF f = e /\ d = c THEN Null ELSE heap[f][d]
  BY <1>3 DEF TypeOK, TableTypeOK
<1>7. TableTypeOK' BY <1>3, <1>4, <1>5, <1>6 DEF TypeOK, TableTypeOK
<1> QED BY <1>1, <1>2, <1>3, <1>4, <1>5, <1>6, <1>7 DEF c

(* Unmapping an address at an executor nobody will look for it at. *)

(* Unmapping an address that nobody will look for at this executor any     *)
(* more preserves the invariant: what the destructors and the PVT_RESET    *)
(* handler have in common.                                                 *)
LEMMA UnmapKeeps ==
  ASSUME IInv, NEW e \in Executor, NEW a \in Address,
         Backs(e, a), Unmap(e, a),
         pvt' \in [Executor -> SUBSET Address],
         \A f \in Executor, b \in Address : HeldBy(f, b)' <=> HeldBy(f, b) /\ (f # e \/ b # a),
         uniq' \in [Executor -> SUBSET Cell],
         \A f \in Executor, d \in Cell :
            d \in uniq'[f] <=> d \in uniq[f] /\ (f # e \/ d # view[e][a].committed),
         dmn' \subseteq dmn,
         \A r \in dmn' : r.op = "PVT_RESET" => r.to # e \/ r.p # a,
         UNCHANGED <<fwd, pap, mem>>,
         \A f \in Executor : f # e /\ HeldBy(f, a) => view[f][a].author # e,
         \A m \in pap : m.p = a => m.author # e,
         ~Running(e) => fwd[e].p # a
  PROVE  IInv'
<1> DEFINE c == view[e][a].committed
<1> USE ViewAssumption, LoadAssumption
<1>0. /\ TypeOK /\ Unissued /\ Entries /\ Children /\ Uniques
      /\ SoleCapability /\ Handles /\ Messages /\ Frontier
      /\ Resets /\ Waiting /\ Loads /\ Typed
  BY TypeFacts DEF IInv
<1>1. /\ c \in Cell /\ parent[e][c] = a /\ view[e][a].author = e
      /\ issued' = issued
      /\ TableTypeOK'
      /\ \A f \in Executor, b \in Address :
            view'[f][b] = IF f = e /\ b = a THEN Null ELSE view[f][b]
      /\ \A f \in Executor, d \in Cell :
            parent'[f][d] = IF f = e /\ d = c THEN Null ELSE parent[f][d]
      /\ \A f \in Executor, d \in Cell :
            heap'[f][d] = IF f = e /\ d = c THEN Null ELSE heap[f][d]
  BY <1>0, UnmapEffect
<1>2. \A f \in Executor, d \in Cell :
         d \in uniq'[f] <=> d \in uniq[f] /\ (f # e \/ d # c)
  OBVIOUS
<1>3. TypeOK' BY <1>0, <1>1 DEF TypeOK
<1>4. \A d \in Cell : parent[e][d] = a => d = c
  <2>1. view[e][a].child = c BY <1>0 DEF Entries, Backs
  <2> QED BY <2>1, <1>0 DEF Children, HasParent
<1> HIDE DEF c
<1>5. \A f \in Executor, b \in Address :
         /\ Mapped(f, b)' <=> Mapped(f, b) /\ (f # e \/ b # a)
         /\ Backs(f, b)' <=> Backs(f, b) /\ (f # e \/ b # a)
         /\ SentTo(f, b)' <=> SentTo(f, b)
  BY <1>1 DEF Mapped, Backs, SentTo
<1>6. ASSUME NEW f \in Executor, NEW b \in Address, OpenAt(f, b)'
      PROVE  OpenAt(f, b) /\ (f # e \/ b # a)
  <2>1. PICK d \in uniq'[f] : parent'[f][d] = b BY <1>6 DEF OpenAt
  <2>2. d \in Cell /\ d \in uniq[f] /\ (f # e \/ d # c) BY <2>1, <1>2, <1>3 DEF TypeOK
  <2>3. parent[f][d] = b BY <2>1, <2>2, <1>1
  <2>4. f # e \/ b # a BY <2>2, <2>3, <1>4
  <2> QED BY <2>2, <2>3, <2>4 DEF OpenAt
<1>a. Unissued'
  <2>1. \A r \in dmn' : r \in dmn OBVIOUS
  <2> QED BY <2>1, <1>0, <1>1, <1>5 DEF Unissued
<1>b. Entries'
  <2> SUFFICES ASSUME NEW f \in Executor, NEW b \in Address, Mapped(f, b)'
               PROVE  /\ view'[f][b].access_level = "private"
                      /\ Backs(f, b)' => /\ view'[f][b].author = f
                                         /\ view'[f][b].child = view'[f][b].committed
                                         /\ parent'[f][view'[f][b].committed] = b
    BY DEF Entries
  <2>1. view'[f][b] = view[f][b] /\ Mapped(f, b) /\ (f # e \/ b # a) BY <1>1, <1>5
  <2>2. CASE ~Backs(f, b) BY <2>1, <2>2, <1>0, <1>5 DEF Entries
  <2>3. CASE Backs(f, b)
    <3>1. view[f][b].committed \in Cell /\ parent[f][view[f][b].committed] = b
      BY <2>1, <2>3, <1>0 DEF Entries, Typed, Backs
    <3>2. parent'[f][view[f][b].committed] = b BY <2>1, <3>1, <1>1
    <3> QED BY <2>1, <2>3, <3>2, <1>0 DEF Entries
  <2> QED BY <2>2, <2>3
<1>c. Children'
  <2> SUFFICES ASSUME NEW f \in Executor, NEW d \in Cell, HasParent(f, d)'
               PROVE  /\ heap'[f][d] # Null
                      /\ view'[f][parent'[f][d]] # Null
                      /\ view'[f][parent'[f][d]].child = d
                      /\ \/ view'[f][parent'[f][d]].committed = d
                         \/ ~Running(f) /\ fwd[f].lp = d /\ fwd[f].p = parent'[f][d]
    BY DEF Children, Running, Mapped
  <2>1. /\ f # e \/ d # c
        /\ parent'[f][d] = parent[f][d] /\ HasParent(f, d)
        /\ heap'[f][d] = heap[f][d]
    BY <1>1 DEF HasParent
  <2>2. parent[f][d] \in Address /\ (f # e \/ parent[f][d] # a)
    BY <2>1, <1>0, <1>4 DEF Typed, HasParent
  <2>3. view'[f][parent[f][d]] = view[f][parent[f][d]] BY <2>2, <1>1
  <2> QED BY <2>1, <2>3, <1>0 DEF Children, Mapped
<1>d. Uniques'
  <2> SUFFICES ASSUME NEW f \in Executor, NEW d \in uniq'[f]
               PROVE  /\ heap'[f][d] # Null
                      /\ parent'[f][d] # Null => /\ view'[f][parent'[f][d]] # Null
                                                 /\ view'[f][parent'[f][d]].owner = f
                                                 /\ view'[f][parent'[f][d]].committed = d
    BY DEF Uniques, HasParent, AmOwner, Mapped
  <2>1. d \in Cell /\ d \in uniq[f] /\ (f # e \/ d # c) BY <1>2, <1>3 DEF TypeOK
  <2>2. parent'[f][d] = parent[f][d] /\ heap'[f][d] = heap[f][d] BY <2>1, <1>1
  <2>3. parent[f][d] # Null => parent[f][d] \in Address /\ (f # e \/ parent[f][d] # a)
    BY <2>1, <1>0, <1>4 DEF Typed
  <2>4. parent[f][d] # Null => view'[f][parent[f][d]] = view[f][parent[f][d]] BY <2>3, <1>1
  <2> QED BY <2>1, <2>2, <2>4, <1>0 DEF Uniques, HasParent, AmOwner, Mapped
<1>e. SoleCapability' BY <1>0, <1>5, <1>6 DEF SoleCapability
<1>f. Handles'
  <2> SUFFICES ASSUME NEW f \in Executor, NEW b \in Address, HeldBy(f, b)'
               PROVE  /\ AmOwner(f, b)' /\ Backs(view[f][b].author, b)'
                      /\ view'[f][b].author <= f
                      /\ view'[f][b].author # f => ~Backs(f, b)'
    BY <1>3 DEF Handles, HeldBy, TypeOK
  <2>1. HeldBy(f, b) /\ (f # e \/ b # a) /\ view'[f][b] = view[f][b] BY <1>1
  <2>2. /\ AmOwner(f, b) /\ Mapped(f, b) /\ view[f][b].author \in Executor
        /\ Backs(view[f][b].author, b) /\ view[f][b].author <= f
        /\ view[f][b].author # f => ~Backs(f, b)
    BY <2>1, <1>0 DEF Handles, HeldBy, AmOwner, Typed
  <2>3. view[f][b].author # e \/ b # a BY <2>1
  <2>4. view'[view[f][b].author][b] = view[view[f][b].author][b] BY <2>2, <2>3, <1>1
  <2> QED BY <2>1, <2>2, <2>4 DEF AmOwner, Mapped, Backs
<1>g. Messages'
  <2>1. ASSUME NEW m \in pap PROVE view'[m.author][m.p] = view[m.author][m.p]
    BY <1>0, <1>1 DEF Typed
  <2> QED BY <2>1, <1>0 DEF Messages, Mapped, Backs
<1>h. Frontier' BY <1>0, <1>5, <1>6 DEF Frontier, Typed
<1>i. Resets'
  <2> SUFFICES ASSUME NEW r \in dmn', r.op = "PVT_RESET"
               PROVE  /\ Backs(r.to, r.p)'
                      /\ \A s \in dmn' : s.op = r.op /\ s.to = r.to /\ s.p = r.p => s = r
                      /\ \A f \in Executor : HeldBy(f, r.p)' \/ OpenAt(f, r.p)' =>
                            r.to < f /\ view'[f][r.p].author # r.to
                      /\ \A m \in pap : m.p = r.p => r.to < m.from /\ m.author # r.to
    BY DEF Resets
  <2>1. /\ r \in dmn /\ r.to \in Executor /\ r.p \in Address /\ (r.to # e \/ r.p # a)
    BY <1>0 DEF Typed
  <2>2. /\ Backs(r.to, r.p)
        /\ \A s \in dmn : s.op = r.op /\ s.to = r.to /\ s.p = r.p => s = r
        /\ \A f \in Executor : HeldBy(f, r.p) \/ OpenAt(f, r.p) =>
              r.to < f /\ view[f][r.p].author # r.to
        /\ \A m \in pap : m.p = r.p => r.to < m.from /\ m.author # r.to
    BY <2>1, <1>0 DEF Resets
  <2>3. Backs(r.to, r.p)' BY <2>1, <2>2, <1>5
  <2>4. ASSUME NEW f \in Executor, HeldBy(f, r.p)' \/ OpenAt(f, r.p)'
        PROVE  r.to < f /\ view'[f][r.p].author # r.to
    <3>1. (HeldBy(f, r.p) \/ OpenAt(f, r.p)) /\ (f # e \/ r.p # a)
      BY <2>1, <2>4, <1>6
    <3> QED BY <2>1, <2>2, <3>1, <1>1
  <2> QED BY <2>1, <2>2, <2>3, <2>4
<1>j. Waiting'
  <2>1. ASSUME NEW f \in Executor, ~Running(f)
        PROVE  /\ view'[f][fwd[f].p] = view[f][fwd[f].p]
               /\ parent'[f][fwd[f].lp] = parent[f][fwd[f].lp]
               /\ HeldBy(f, fwd[f].p) => fwd[f].p \in pvt'[f]
               /\ fwd[f].lp \in uniq'[f] => fwd[f].lp \in uniq[f]
    <3>1. /\ fwd[f].p \in Address /\ fwd[f].lp \in Cell /\ (f # e \/ fwd[f].p # a)
          /\ parent[f][fwd[f].lp] = fwd[f].p
      BY <2>1, <1>0 DEF Typed, Waiting
    <3>2. f # e \/ fwd[f].lp # c BY <3>1, <1>1
    <3> QED BY <3>1, <3>2, <1>1, <1>2 DEF HeldBy
  <2> QED BY <2>1, <1>0 DEF Waiting, Running, HeldBy
<1>k. Loads'
  <2>1. ASSUME NEW s \in mem
        PROVE  heap'[s.from][view'[s.from][fwd[s.to].p].committed]
                  = heap[s.from][view[s.from][fwd[s.to].p].committed]
    <3> DEFINE b == fwd[s.to].p
               d == view[s.from][b].committed
    <3>1. /\ s.from \in Executor /\ b \in Address /\ d \in Cell /\ s.to \in Executor
          /\ parent[s.from][d] = b /\ HeldBy(s.to, b) /\ s.from # s.to
          /\ view[s.to][b].author = s.from
      BY LoadedBlock
    <3>2. s.from # e \/ b # a BY <3>1
    <3> HIDE DEF b, d
    <3>3. view'[s.from][b] = view[s.from][b] BY <3>1, <3>2, <1>1
    <3>4. s.from # e \/ d # c BY <3>1, <3>2, <1>1
    <3>5. heap'[s.from][d] = heap[s.from][d] BY <3>1, <3>4, <1>1
    <3> QED BY <3>3, <3>5 DEF b, d
  <2>2. \A r \in dmn' : r \in dmn OBVIOUS
  <2> QED BY <2>1, <2>2, <1>0, LoadsKept
<1> QED BY <1>3, <1>a, <1>b, <1>c, <1>d, <1>e, <1>f, <1>g, <1>h, <1>i, <1>j, <1>k DEF IInv

(* DropUnique of a block without parent: it is nobody's but its pointer's. *)

(* Freeing the block of a gam_unique_ptr without parent preserves the      *)
(* invariant.                                                              *)
LEMMA FreeKeeps ==
  ASSUME IInv, NEW e \in Executor, NEW c \in Cell, c \in uniq[e],
         parent[e][c] = Null, Unpoint(e, c),
         heap' = [heap EXCEPT ![e][c] = Null],
         UNCHANGED <<issued, view, parent, pvt, fwd, pap, dmn, mem>>
  PROVE  IInv'
<1> USE ViewAssumption, LoadAssumption
<1>0. /\ TypeOK /\ Unissued /\ Entries /\ Children /\ Uniques
      /\ SoleCapability /\ Handles /\ Messages /\ Frontier
      /\ Resets /\ Waiting /\ Loads /\ Typed
  BY TypeFacts DEF IInv
<1>1. \A f \in Executor, d \in Cell :
         heap'[f][d] = IF f = e /\ d = c THEN Null ELSE heap[f][d]
  BY <1>0 DEF TypeOK, TableTypeOK
<1>2. /\ \A f \in Executor : \A d : d \in uniq'[f] <=> d \in uniq[f] /\ (f # e \/ d # c)
      /\ uniq' \in [Executor -> SUBSET Cell]
  BY <1>0 DEF TypeOK, Unpoint
<1>3. TypeOK' BY <1>0, <1>2 DEF TypeOK, TableTypeOK
<1>4. \A f \in Executor, b \in Address :
         /\ HeldBy(f, b)' <=> HeldBy(f, b)
         /\ OpenAt(f, b)' <=> OpenAt(f, b)
         /\ SentTo(f, b)' <=> SentTo(f, b)
         /\ Mapped(f, b)' <=> Mapped(f, b)
         /\ Backs(f, b)' <=> Backs(f, b)
  BY <1>2 DEF HeldBy, OpenAt, SentTo, Mapped, Backs
<1>a. Unissued' BY <1>0, <1>4 DEF Unissued
<1>b. Entries' BY <1>0, <1>4 DEF Entries
<1>c. Children' BY <1>0, <1>1 DEF Children, HasParent, Mapped, Running
<1>d. Uniques' BY <1>0, <1>1, <1>2 DEF Uniques, HasParent, AmOwner, Mapped, Typed
<1>e. SoleCapability' BY <1>0, <1>4 DEF SoleCapability
<1>f. Handles' BY <1>0 DEF Handles, AmOwner, Mapped, Backs
<1>g. Messages' BY <1>0 DEF Messages, Mapped, Backs
<1>h. Frontier' BY <1>0, <1>4 DEF Frontier, Typed
<1>i. Resets' BY <1>0, <1>4 DEF Resets, Typed
<1>j. Waiting' BY <1>0, <1>2, <1>4 DEF Waiting, Running, Typed
<1>k. Loads'
  <2>1. ASSUME NEW s \in mem PROVE heap'[s.from][view[s.from][fwd[s.to].p].committed]
                                 = heap[s.from][view[s.from][fwd[s.to].p].committed]
    <3> DEFINE d == view[s.from][fwd[s.to].p].committed
    <3>1. /\ s.from \in Executor /\ d \in Cell
          /\ parent[s.from][d] \in Address
      BY LoadedBlock
    <3>2. s.from # e \/ d # c BY <3>1
    <3> HIDE DEF d
    <3>3. heap'[s.from][d] = heap[s.from][d] BY <3>1, <3>2, <1>1
    <3> QED BY <3>3 DEF d
  <2> QED BY <2>1, <1>0, LoadsKept
<1> QED BY <1>3, <1>a, <1>b, <1>c, <1>d, <1>e, <1>f, <1>g, <1>h, <1>i, <1>j, <1>k DEF IInv

(* The destructor of a gam_unique_ptr preserves the invariant.             *)
LEMMA DropUniqueKeeps ==
  ASSUME IInv, NEW e \in Executor, NEW c \in Cell, DropUnique(e, c)
  PROVE  IInv'
<1> DEFINE a == parent[e][c]
<1> USE ViewAssumption, LoadAssumption
<1>0. /\ TypeOK /\ Uniques /\ SoleCapability /\ Resets /\ Waiting /\ Typed
      /\ Entries /\ Handles
  BY TypeFacts DEF IInv
<1>1. /\ Running(e) /\ c \in uniq[e] /\ Unpoint(e, c)
      /\ UNCHANGED <<pvt, fwd, pap, dmn, mem>>
  BY DEF DropUnique, linkVars
<1>2. CASE ~HasParent(e, c) BY <1>1, <1>2, FreeKeeps DEF DropUnique, HasParent
<1>3. CASE HasParent(e, c)
  <2>1. Unmap(e, a) /\ a \in Address BY <1>0, <1>3 DEF DropUnique, Typed, HasParent
  <2>2. /\ view[e][a].committed = c /\ Backs(e, a) /\ OpenAt(e, a)
    BY <1>0, <1>1, <1>3 DEF Uniques, AmOwner, Backs, OpenAt
  <2>3. /\ \A f \in Executor : ~HeldBy(f, a)
        /\ \A m \in pap : m.p # a
    BY <2>1, <2>2, <1>0 DEF SoleCapability, SentTo, Typed
  <2>4. \A r \in dmn : r.op = "PVT_RESET" => r.to # e \/ r.p # a
    BY <2>1, <2>2, <1>0, ApplicationAssumption DEF Resets
  <2>5. /\ pvt' \in [Executor -> SUBSET Address]
        /\ \A f \in Executor, b \in Address : HeldBy(f, b)' <=> HeldBy(f, b) /\ (f # e \/ b # a)
    BY <1>0, <1>1, <2>1, <2>3 DEF TypeOK, HeldBy
  <2>6. /\ uniq' \in [Executor -> SUBSET Cell]
        /\ \A f \in Executor, d \in Cell : d \in uniq'[f] <=> d \in uniq[f] /\ (f # e \/ d # c)
    BY <1>0, <1>1 DEF TypeOK, Unpoint
  <2>7. dmn' = dmn /\ UNCHANGED <<fwd, pap, mem>> BY <1>1
  <2> HIDE DEF a
  <2> QED BY <1>1, <2>1, <2>2, <2>3, <2>4, <2>5, <2>6, <2>7, UnmapKeeps
<1> QED BY <1>2, <1>3

(* The PVT_RESET handler preserves the invariant: by Resets the capability *)
(* is not backed from the copy it frees.                                   *)
LEMMA DmnPvtResetKeeps ==
  ASSUME IInv, NEW r \in dmn, DmnPvtReset(r)
  PROVE  IInv'
<1> DEFINE e == r.to
           a == r.p
<1> USE ViewAssumption, LoadAssumption
<1>0. /\ TypeOK /\ SoleCapability /\ Resets /\ Waiting /\ Typed
      /\ Entries /\ Handles
  BY TypeFacts DEF IInv
<1>1. /\ e \in Executor /\ a \in Address /\ r.op = "PVT_RESET"
      /\ Backs(e, a) /\ Unmap(e, a) /\ dmn' = dmn \ {r}
      /\ UNCHANGED <<pvt, uniq, fwd, pap, mem>>
  BY <1>0 DEF DmnPvtReset, Typed, Serviceable, userVars
<1>2. /\ \A s \in dmn : s.op = r.op /\ s.to = e /\ s.p = a => s = r
      /\ \A f \in Executor : HeldBy(f, a) \/ OpenAt(f, a) =>
            e < f /\ view[f][a].author # e
      /\ \A m \in pap : m.p = a => e < m.from /\ m.author # e
  BY <1>0, <1>1 DEF Resets
<1>3. ~HeldBy(e, a) /\ ~OpenAt(e, a)
  <2>0. e \in Nat BY <1>1, ApplicationAssumption DEF ApplicationAssumption
  <2>1. ~(e < e) BY <2>0
  <2> QED BY <2>1, <1>1, <1>2
<1>4. view[e][a].committed \in Cell /\ view[e][a].committed \notin uniq[e]
  <2>1. parent[e][view[e][a].committed] = a BY <1>0, <1>1 DEF Entries, Backs
  <2> QED BY <2>1, <1>0, <1>1, <1>3 DEF Typed, Backs, OpenAt
<1>5. /\ pvt' \in [Executor -> SUBSET Address]
      /\ \A f \in Executor, b \in Address : HeldBy(f, b)' <=> HeldBy(f, b) /\ (f # e \/ b # a)
  BY <1>0, <1>1, <1>3 DEF TypeOK, HeldBy
<1>6. /\ uniq' \in [Executor -> SUBSET Cell]
      /\ \A f \in Executor, d \in Cell :
            d \in uniq'[f] <=> d \in uniq[f] /\ (f # e \/ d # view[e][a].committed)
  BY <1>0, <1>1, <1>4 DEF TypeOK
<1>7. /\ dmn' \subseteq dmn
      /\ \A s \in dmn' : s.op = "PVT_RESET" => s.to # e \/ s.p # a
  BY <1>1, <1>2
<1>8. ~Running(e) => fwd[e].p # a BY <1>0, <1>1, <1>3 DEF Waiting
<1> HIDE DEF e, a
<1> QED BY <1>1, <1>2, <1>5, <1>6, <1>7, <1>8, UnmapKeeps

-----------------------------------------------------------------------------
(* Destruction, remote loads and pulls *)

(* reset() and ~private_ptr preserve the invariant: the release sent to    *)
(* the author is the only one.                                             *)
LEMMA DropKeeps ==
  ASSUME IInv, NEW e \in Executor, NEW a \in Address, Drop(e, a)
  PROVE  IInv'
<1> DEFINE y == view[e][a].author
           n == [op |-> "PVT_RESET", from |-> e, to |-> y, p |-> a]
<1> USE ViewAssumption, LoadAssumption
<1>0. /\ TypeOK /\ Unissued /\ Entries /\ Children /\ Uniques
      /\ SoleCapability /\ Handles /\ Messages /\ Frontier
      /\ Resets /\ Waiting /\ Loads /\ Typed
  BY TypeFacts DEF IInv
<1>1. /\ Running(e) /\ HeldBy(e, a) /\ Mapped(e, a) /\ y \in Executor /\ Backs(y, a)
      /\ UNCHANGED <<uniq, fwd, pap, mem>>
  BY <1>0 DEF Drop, HeldBy, Handles, Typed
<1>2. /\ pvt' \in [Executor -> SUBSET Address]
      /\ \A f \in Executor, b \in Address : HeldBy(f, b)' <=> HeldBy(f, b) /\ (f # e \/ b # a)
  BY <1>0 DEF Drop, Release, TypeOK, HeldBy
<1>3. /\ \A f \in Executor : ~OpenAt(f, a) /\ ~SentTo(f, a)
      /\ \A f \in Executor : HeldBy(f, a) => f = e
      /\ \A m \in pap : m.p # a
  BY <1>1, <1>0 DEF SoleCapability, SentTo, Typed
<1>4. \A r \in dmn : r.op = "PVT_RESET" /\ r.p = a => r.to # y
  BY <1>0, <1>1 DEF Resets
<1>5. CASE AmAuthor(e, a)
  <2>1. y = e /\ Unmap(e, a) /\ dmn' = dmn BY <1>5 DEF Drop, AmAuthor
  <2>2. view[e][a].committed \in Cell /\ parent[e][view[e][a].committed] = a
    BY <1>0, <1>1, <2>1 DEF Entries, Typed, Backs
  <2>3. /\ uniq' \in [Executor -> SUBSET Cell]
        /\ \A f \in Executor, d \in Cell :
              d \in uniq'[f] <=> d \in uniq[f] /\ (f # e \/ d # view[e][a].committed)
    BY <1>0, <1>1, <1>3, <2>2 DEF TypeOK, OpenAt
  <2>4. /\ \A f \in Executor : f # e /\ HeldBy(f, a) => view[f][a].author # e
        /\ \A m \in pap : m.p = a => m.author # e
        /\ dmn' \subseteq dmn
        /\ \A r \in dmn' : r.op = "PVT_RESET" => r.to # e \/ r.p # a
        /\ ~Running(e) => fwd[e].p # a
    BY <1>1, <1>3, <1>4, <2>1
  <2> HIDE DEF y
  <2> QED BY <1>1, <1>2, <2>1, <2>3, <2>4, UnmapKeeps
<1>6. CASE ~AmAuthor(e, a)
  <2>1. y # e /\ dmn' = dmn \cup {n} /\ UNCHANGED <<issued, view, parent, heap>>
    BY <1>1, <1>6 DEF Drop, AmAuthor, RequestTo, tableVars
  <2>2. n \in Request /\ n.op = "PVT_RESET" /\ n.from = e /\ n.to = y /\ n.p = a
    BY <1>1 DEF Request
  <2> HIDE DEF n, y
  <2>3. TypeOK' BY <1>0, <1>1, <1>2, <2>1, <2>2 DEF TypeOK, TableTypeOK
  <2>4. \A f \in Executor, b \in Address :
           /\ OpenAt(f, b)' <=> OpenAt(f, b)
           /\ SentTo(f, b)' <=> SentTo(f, b)
           /\ Mapped(f, b)' <=> Mapped(f, b)
           /\ Backs(f, b)' <=> Backs(f, b)
    BY <1>1, <2>1 DEF OpenAt, SentTo, Mapped, Backs
  <2>a. Unissued' BY <1>0, <1>1, <1>2, <2>1, <2>2, <2>4 DEF Unissued
  <2>b. /\ Entries' /\ Children' /\ Uniques' /\ Messages'
    BY <1>0, <1>1, <2>1 DEF Entries, Children, Uniques, Messages, Mapped, Backs,
       HasParent, AmOwner, Running
  <2>e. SoleCapability' BY <1>0, <1>1, <1>2, <2>4 DEF SoleCapability
  <2>f. Handles'
    <3>1. ASSUME NEW f \in Executor, NEW b \in Address, HeldBy(f, b)'
          PROVE  /\ AmOwner(f, b) /\ Backs(view[f][b].author, b)
                 /\ view[f][b].author <= f
                 /\ view[f][b].author # f => ~Backs(f, b)
      BY <3>1, <1>0, <1>2 DEF Handles, HeldBy
    <3> QED BY <3>1, <2>1, <2>3 DEF Handles, HeldBy, TypeOK, AmOwner, Mapped, Backs
  <2>h. Frontier' BY <1>0, <1>1, <1>2, <2>4 DEF Frontier, Typed
  <2>i. Resets'
    <3> SUFFICES ASSUME NEW r \in dmn', r.op = "PVT_RESET"
                 PROVE  /\ Backs(r.to, r.p)'
                        /\ \A s \in dmn' : s.op = r.op /\ s.to = r.to /\ s.p = r.p => s = r
                        /\ \A f \in Executor : HeldBy(f, r.p)' \/ OpenAt(f, r.p)' =>
                              r.to < f /\ view[f][r.p].author # r.to
                        /\ \A m \in pap : m.p = r.p => r.to < m.from /\ m.author # r.to
      BY <1>1, <2>1 DEF Resets
    <3>1. CASE r = n
      BY <3>1, <1>1, <1>2, <1>3, <1>4, <2>1, <2>2, <2>4
    <3>2. CASE r \in dmn
      <4>1. r.to \in Executor /\ r.p \in Address /\ (r.p = a => r.to # y)
        BY <3>2, <1>0, <1>4 DEF Typed
      <4> QED BY <3>2, <4>1, <1>0, <1>2, <2>1, <2>2, <2>4 DEF Resets
    <3> QED BY <3>1, <3>2, <2>1
  <2>j. Waiting' BY <1>0, <1>1, <1>2, <2>1 DEF Waiting, Running, Typed
  <2>k. Loads' BY <1>0, <1>1, <2>1, <2>2 DEF Loads, Running
  <2> QED BY <2>3, <2>a, <2>b, <2>e, <2>f, <2>h, <2>i, <2>j, <2>k DEF IInv
<1> QED BY <1>5, <1>6

(* The RLOAD handler preserves the invariant: the answer is the only one   *)
(* its requester will get, and what it carries stays at the author until   *)
(* then.                                                                   *)
LEMMA DmnRloadKeeps ==
  ASSUME IInv, NEW r \in dmn, DmnRload(r)
  PROVE  IInv'
<1> DEFINE a == r.p
           e == r.from
           y == r.to
           c == view[y][a].committed
           n == [from |-> y, to |-> e, value |-> heap[y][c]]
<1> USE ViewAssumption, LoadAssumption
<1>0. /\ TypeOK /\ Unissued /\ Entries /\ Children /\ Uniques
      /\ SoleCapability /\ Handles /\ Messages /\ Frontier
      /\ Resets /\ Waiting /\ Loads /\ Typed
  BY TypeFacts DEF IInv
<1>1. /\ r.op = "RLOAD" /\ Backs(y, a) /\ mem' = mem \cup {n} /\ dmn' = dmn \ {r}
      /\ UNCHANGED <<issued, view, parent, heap, pvt, uniq, fwd, pap>>
  BY DEF DmnRload, Serviceable, tableVars, userVars
<1>2. a \in Address /\ e \in Executor /\ y \in Executor BY <1>0 DEF Typed
<1>3. c \in Cell /\ heap[y][c] \in Value
  <2>1. c \in Cell /\ parent[y][c] = a
    <3>1. Mapped(y, a) /\ c # Null BY <1>1 DEF Backs
    <3>2. parent[y][c] = a BY <3>1, <1>0, <1>1, <1>2 DEF Entries
    <3> QED BY <3>1, <3>2, <1>0, <1>2 DEF Typed
  <2>2. heap[y][c] # Null BY <2>1, <1>0, <1>2 DEF Children, HasParent
  <2> QED BY <2>1, <2>2, <1>0, <1>2 DEF TypeOK, TableTypeOK
<1>4. n \in Answer /\ n.from = y /\ n.to = e /\ n.value = heap[y][c]
  BY <1>2, <1>3 DEF Answer
<1>5. ~Running(e) /\ fwd[e].p = a /\ fwd[e].to = y BY <1>0, <1>1 DEF Loads
<1>6. \A q \in dmn : q.op = "RLOAD" /\ q.from = e => q = r
  <2>1. ASSUME NEW q \in dmn, q.op = "RLOAD", q.from = e PROVE q = r
    <3>1. q.p = r.p /\ q.to = r.to /\ q.from = r.from /\ q.op = r.op
      BY <2>1, <1>0, <1>1, <1>5 DEF Loads
    <3>2. q \in Request /\ r \in Request BY <1>0 DEF TypeOK
    <3> QED BY <3>1, <3>2 DEF Request
  <2> QED BY <2>1
<1> HIDE DEF n
<1>7. TypeOK' BY <1>0, <1>1, <1>4 DEF TypeOK, TableTypeOK
<1>8. /\ Unissued' /\ Entries' /\ Children' /\ Uniques' /\ SoleCapability'
      /\ Handles' /\ Messages' /\ Frontier' /\ Waiting'
  <2>1. Unissued' /\ Entries' /\ Children'
    BY <1>0, <1>1 DEF Unissued, Entries, Children, HasParent, Mapped, HeldBy, Backs, Running
  <2>2. Uniques' /\ Handles' /\ Messages'
    BY <1>0, <1>1 DEF Uniques, Handles, Messages, HasParent, AmOwner, Mapped, Backs
  <2>3. SoleCapability' /\ Frontier'
    BY <1>0, <1>1 DEF SoleCapability, Frontier, Mapped, HeldBy, OpenAt, SentTo
  <2>4. Waiting' BY <1>0, <1>1 DEF Waiting, HeldBy, Running
  <2> QED BY <2>1, <2>2, <2>3, <2>4
<1>9. Resets'
  <2>1. \A s \in dmn' : s \in dmn BY <1>1
  <2> QED BY <2>1, <1>0, <1>1 DEF Resets, Mapped, Backs, HeldBy, OpenAt
<1>a. Loads'
  <2>1. \A q \in dmn' : q \in dmn /\ (q.op = "RLOAD" => q.from # e) BY <1>1, <1>6
  <2>2. \A q \in dmn' : q.op = "RLOAD" =>
           ~Running(q.from)' /\ fwd'[q.from].p = q.p /\ fwd'[q.from].to = q.to
    BY <2>1, <1>0, <1>1 DEF Loads, Running
  <2>3. ASSUME NEW s \in mem'
        PROVE  /\ ~Running(s.to)' /\ fwd'[s.to].to = s.from
               /\ s.value = heap'[s.from][view'[s.from][fwd'[s.to].p].committed]
               /\ \A q \in dmn' : q.op = "RLOAD" => q.from # s.to
    <3>1. CASE s \in mem BY <3>1, <2>1, <1>0, <1>1 DEF Loads, Running
    <3>2. CASE s = n BY <3>2, <2>1, <1>1, <1>4, <1>5 DEF Running
    <3> QED BY <3>1, <3>2, <1>1
  <2> QED BY <2>2, <2>3 DEF Loads
<1> QED BY <1>7, <1>8, <1>9, <1>a DEF IInv

(* pull_private preserves the invariant: by Frontier the puller has never  *)
(* heard of the address, so its entry is bound anew.                       *)
LEMMA PullKeeps ==
  ASSUME IInv, NEW e \in Executor, NEW m \in pap, Pull(e, m)
  PROVE  IInv'
<1> DEFINE a == m.p
           y == view'[e][a]
<1> USE ViewAssumption, LoadAssumption
<1>0. /\ TypeOK /\ Unissued /\ Entries /\ Children /\ Uniques
      /\ SoleCapability /\ Handles /\ Messages /\ Frontier
      /\ Resets /\ Waiting /\ Loads /\ Typed
  BY TypeFacts DEF IInv
<1>1. /\ m.to = e /\ pap' = pap \ {m} /\ Running(e) /\ SentTo(e, a)
      /\ UNCHANGED <<issued, parent, heap, uniq, fwd, dmn, mem>>
  BY DEF Pull, SentTo
<1>2. /\ a \in Address /\ m.from \in Executor /\ m.author \in Executor
      /\ m.from \in Nat /\ m.author \in Nat /\ e \in Nat
      /\ m.author <= m.from /\ m.from < e /\ Backs(m.author, a)
  BY <1>0, <1>1, ApplicationAssumption DEF Typed, Messages, ApplicationAssumption
<1>3. ~Mapped(e, a) BY <1>0, <1>2 DEF Frontier
<1>4. m.author # e /\ a \in issued
  <2>1. a \in issued BY <1>0, <1>2 DEF Unissued
  <2> QED BY <2>1, <1>2
<1>5. PulledEntry(e, m) = [committed |-> Null, owner |-> e, author |-> m.author,
                           child |-> Null, access_level |-> "private"]
  BY <1>3 DEF PulledEntry
<1>6. PulledEntry(e, m) \in Entry BY <1>2, <1>5 DEF Entry, AccessLevel
<1>7. /\ view' \in [Executor -> [Address -> Entry \cup {Null}]]
      /\ y = PulledEntry(e, m)
      /\ \A f \in Executor, b \in Address : f # e \/ b # a => view'[f][b] = view[f][b]
  BY <1>0, <1>2, <1>6 DEF Pull, TypeOK, TableTypeOK
<1>8. /\ y # Null /\ y.committed = Null /\ y.child = Null /\ y.owner = e
      /\ y.author = m.author /\ y.access_level = "private"
  BY <1>5, <1>6, <1>7
<1>9. /\ pvt' \in [Executor -> SUBSET Address]
      /\ \A f \in Executor, b \in Address : HeldBy(f, b)' <=> HeldBy(f, b) \/ (f = e /\ b = a)
  BY <1>0, <1>2 DEF Pull, Hold, TypeOK, HeldBy
<1>10. TypeOK' BY <1>0, <1>1, <1>7, <1>9 DEF TypeOK, TableTypeOK
<1>11. /\ \A k \in pap : k.p = a => k = m
       /\ \A f \in Executor : ~HeldBy(f, a) /\ ~OpenAt(f, a)
       /\ \A f \in Executor : ~SentTo(f, a)'
  BY <1>0, <1>1, <1>2 DEF SoleCapability, SentTo
<1>12. \A f \in Executor, b \in Address :
         /\ Mapped(f, b)' <=> Mapped(f, b) \/ (f = e /\ b = a)
         /\ Backs(f, b)' <=> Backs(f, b)
         /\ OpenAt(f, b)' <=> OpenAt(f, b)
         /\ SentTo(f, b)' => SentTo(f, b)
  BY <1>1, <1>3, <1>7, <1>8 DEF Mapped, Backs, OpenAt, SentTo
<1>13. \A f \in Executor, c \in Cell : HasParent(f, c) => parent[f][c] \in Address
                                                   /\ (f # e \/ parent[f][c] # a)
  BY <1>0, <1>3 DEF Children, Typed, HasParent
<1>a. Unissued' BY <1>0, <1>1, <1>4, <1>9, <1>12 DEF Unissued
<1>b. Entries'
  <2>1. ASSUME NEW f \in Executor, NEW b \in Address, Mapped(f, b)'
        PROVE  /\ view'[f][b].access_level = "private"
               /\ Backs(f, b)' => /\ view'[f][b].author = f
                                  /\ view'[f][b].child = view'[f][b].committed
                                  /\ parent'[f][view'[f][b].committed] = b
    <3>1. CASE f = e /\ b = a BY <3>1, <1>8 DEF Backs
    <3>2. CASE f # e \/ b # a BY <3>2, <2>1, <1>0, <1>1, <1>7 DEF Entries, Mapped, Backs
    <3> QED BY <3>1, <3>2
  <2> QED BY <2>1 DEF Entries
<1>c. Children' BY <1>0, <1>1, <1>7, <1>13 DEF Children, HasParent, Mapped, Running
<1>d. Uniques'
  <2>1. \A f \in Executor, c \in Cell : HasParent(f, c) =>
           view'[f][parent[f][c]] = view[f][parent[f][c]]
    BY <1>7, <1>13
  <2> QED BY <2>1, <1>0, <1>1 DEF Uniques, HasParent, AmOwner, Mapped, Typed
<1>e. SoleCapability' BY <1>0, <1>1, <1>2, <1>9, <1>11, <1>12 DEF SoleCapability
<1>f. Handles'
  <2> SUFFICES ASSUME NEW f \in Executor, NEW b \in Address, HeldBy(f, b)'
               PROVE  /\ AmOwner(f, b)' /\ Backs(view[f][b].author, b)'
                      /\ view'[f][b].author <= f
                      /\ view'[f][b].author # f => ~Backs(f, b)'
    BY <1>10 DEF Handles, HeldBy, TypeOK
  <2>1. CASE f = e /\ b = a
    <3>1. view'[m.author][a] = view[m.author][a] BY <1>2, <1>4, <1>7
    <3> QED BY <2>1, <3>1, <1>2, <1>8 DEF AmOwner, Mapped, Backs
  <2>2. CASE f # e \/ b # a
    <3>1. HeldBy(f, b) /\ view'[f][b] = view[f][b] BY <2>2, <1>7, <1>9
    <3>2. /\ AmOwner(f, b) /\ Mapped(f, b) /\ view[f][b].author \in Executor
          /\ Backs(view[f][b].author, b) /\ view[f][b].author <= f
          /\ view[f][b].author # f => ~Backs(f, b)
      BY <3>1, <1>0 DEF Handles, HeldBy, AmOwner, Typed
    <3>3. b # a BY <3>1, <1>11
    <3>4. view'[view[f][b].author][b] = view[view[f][b].author][b] BY <3>2, <3>3, <1>7
    <3> QED BY <3>1, <3>2, <3>4 DEF AmOwner, Mapped, Backs
  <2> QED BY <2>1, <2>2
<1>g. Messages'
  <2>1. ASSUME NEW k \in pap' PROVE k \in pap /\ view'[k.author][k.p] = view[k.author][k.p]
    BY <1>0, <1>1, <1>7, <1>11 DEF Typed
  <2> QED BY <2>1, <1>0 DEF Messages, Mapped, Backs
<1>h. Frontier'
  <2>1. ASSUME NEW f \in Executor, NEW g \in Executor, NEW b \in Address,
               g > f, HeldBy(f, b)' \/ OpenAt(f, b)'
        PROVE  ~Mapped(g, b)'
    <3>1. CASE f = e /\ b = a
      <4>1. g \in Nat /\ g > m.from /\ g # e
        BY <2>1, <3>1, <1>2, ApplicationAssumption DEF ApplicationAssumption
      <4> QED BY <4>1, <3>1, <1>0, <1>2, <1>12 DEF Frontier
    <3>2. CASE f # e \/ b # a
      <4>1. HeldBy(f, b) \/ OpenAt(f, b) BY <2>1, <3>2, <1>9, <1>12
      <4>2. b # a BY <4>1, <1>11
      <4> QED BY <2>1, <4>1, <4>2, <1>0, <1>12 DEF Frontier
    <3> QED BY <3>1, <3>2
  <2>2. ASSUME NEW k \in pap', NEW f \in Executor, f > k.from PROVE ~Mapped(f, k.p)'
    <3>1. k \in pap /\ k.p # a /\ k.p \in Address BY <1>0, <1>1, <1>11 DEF Typed
    <3> QED BY <2>2, <3>1, <1>0, <1>12 DEF Frontier
  <2> QED BY <2>1, <2>2 DEF Frontier
<1>i. Resets'
  <2> SUFFICES ASSUME NEW r \in dmn, r.op = "PVT_RESET"
               PROVE  /\ Backs(r.to, r.p)'
                      /\ \A f \in Executor : HeldBy(f, r.p)' \/ OpenAt(f, r.p)' =>
                            r.to < f /\ view'[f][r.p].author # r.to
                      /\ \A k \in pap' : k.p = r.p => r.to < k.from /\ k.author # r.to
    BY <1>0, <1>1 DEF Resets
  <2>1. /\ Backs(r.to, r.p) /\ r.to \in Executor /\ r.p \in Address /\ r.to \in Nat
        /\ \A f \in Executor : HeldBy(f, r.p) \/ OpenAt(f, r.p) =>
              r.to < f /\ view[f][r.p].author # r.to
        /\ \A k \in pap : k.p = r.p => r.to < k.from /\ k.author # r.to
    BY <1>0, ApplicationAssumption DEF Resets, Typed, ApplicationAssumption
  <2>2. Backs(r.to, r.p)' BY <2>1, <1>12
  <2>3. ASSUME NEW f \in Executor, HeldBy(f, r.p)' \/ OpenAt(f, r.p)'
        PROVE  r.to < f /\ view'[f][r.p].author # r.to
    <3>1. CASE f = e /\ r.p = a BY <3>1, <2>1, <1>2, <1>8
    <3>2. CASE f # e \/ r.p # a BY <3>2, <2>1, <2>3, <1>7, <1>9, <1>12
    <3> QED BY <3>1, <3>2
  <2> QED BY <2>1, <2>2, <2>3, <1>1
<1>j. Waiting'
  <2>1. ASSUME NEW f \in Executor, ~Running(f)
        PROVE  /\ view'[f][fwd[f].p] = view[f][fwd[f].p]
               /\ HeldBy(f, fwd[f].p) => fwd[f].p \in pvt'[f]
    <3>1. fwd[f].p \in Address /\ fwd[f].p # a BY <2>1, <1>0, <1>11 DEF Typed, Waiting
    <3> QED BY <3>1, <1>7, <1>9 DEF HeldBy
  <2> QED BY <2>1, <1>0, <1>1 DEF Waiting, Running, HeldBy
<1>k. Loads'
  <2>1. ASSUME NEW s \in mem
        PROVE  view'[s.from][fwd[s.to].p] = view[s.from][fwd[s.to].p]
    <3>1. s.from \in Executor /\ s.to \in Executor /\ fwd[s.to].p \in Address
          /\ HeldBy(s.to, fwd[s.to].p)
      BY LoadedBlock
    <3>2. fwd[s.to].p # a BY <3>1, <1>11
    <3> QED BY <3>1, <3>2, <1>7
  <2> QED BY <2>1, <1>0, <1>1, LoadsKept
<1> QED BY <1>10, <1>a, <1>b, <1>c, <1>d, <1>e, <1>f, <1>g, <1>h, <1>i, <1>j, <1>k DEF IInv

-----------------------------------------------------------------------------
(* Remote loads *)

(* The first half of local() elsewhere, withdraw() up to the request,      *)
(* preserves the invariant.                                                *)
LEMMA LocalRequestKeeps ==
  ASSUME IInv, NEW e \in Executor, NEW a \in Address, LocalRequest(e, a)
  PROVE  IInv'
<1> DEFINE x == view[e][a]
           y == x.author
           n == [op |-> "RLOAD", from |-> e, to |-> y, p |-> a]
<1> USE ViewAssumption, LoadAssumption
<1>0. /\ TypeOK /\ Unissued /\ Entries /\ Children /\ Uniques
      /\ SoleCapability /\ Handles /\ Messages /\ Frontier
      /\ Resets /\ Waiting /\ Loads /\ Typed
  BY TypeFacts DEF IInv
<1>1. /\ Running(e) /\ HeldBy(e, a) /\ Mapped(e, a) /\ x.owner = e
      /\ x.committed = Null /\ y # e /\ x \in Entry /\ y \in Executor
      /\ UNCHANGED <<issued, pvt, uniq, pap, mem>>
  BY <1>0 DEF LocalRequest, HeldBy, AmOwner, AmAuthor, Typed
<1>2. PICK c \in FreeCells(e) :
         /\ heap' = [heap EXCEPT ![e][c] = Default]
         /\ parent' = [parent EXCEPT ![e][c] = a]
         /\ view' = [view EXCEPT ![e][a] = BindChild(@, c)]
         /\ fwd' = [fwd EXCEPT ![e] = [p |-> a, lp |-> c, to |-> y]]
  BY DEF LocalRequest
<1>3. dmn' = dmn \cup {n} BY DEF LocalRequest, RequestTo
<1>4. n \in Request /\ n.op = "RLOAD" /\ n.from = e /\ n.to = y /\ n.p = a
  BY <1>1 DEF Request
<1>5. /\ c \in Cell /\ heap[e][c] = Null /\ parent[e][c] = Null /\ c \notin uniq[e]
  BY <1>0 DEF FreeCells, Children, HasParent, Uniques
<1>6. [p |-> a, lp |-> c, to |-> y] \in Load BY <1>1, <1>5 DEF Load
<1>7. /\ fwd' \in [Executor -> Load \cup {Null}]
      /\ fwd'[e] # Null /\ fwd'[e].p = a /\ fwd'[e].lp = c /\ fwd'[e].to = y
      /\ \A f \in Executor : f # e => fwd'[f] = fwd[f]
  BY <1>0, <1>2, <1>6 DEF TypeOK
<1>8. /\ heap' \in [Executor -> [Cell -> Value \cup {Null}]]
      /\ \A f \in Executor, d \in Cell :
            heap'[f][d] = IF f = e /\ d = c THEN Default ELSE heap[f][d]
  BY <1>0, <1>2, <1>5 DEF TypeOK, TableTypeOK
<1>9. /\ parent' \in [Executor -> [Cell -> Address \cup {Null}]]
      /\ \A f \in Executor, d \in Cell :
            parent'[f][d] = IF f = e /\ d = c THEN a ELSE parent[f][d]
  BY <1>0, <1>2, <1>5 DEF TypeOK, TableTypeOK
<1>10. BindChild(x, c) \in Entry BY <1>1, <1>5, ChildBound
<1>11. /\ view' \in [Executor -> [Address -> Entry \cup {Null}]]
       /\ view'[e][a] = BindChild(x, c)
       /\ \A f \in Executor, b \in Address : f # e \/ b # a => view'[f][b] = view[f][b]
  BY <1>0, <1>2, <1>10 DEF TypeOK, TableTypeOK
<1>12. /\ view'[e][a] # Null /\ view'[e][a].child = c /\ view'[e][a].committed = Null
       /\ view'[e][a].owner = e /\ view'[e][a].author = y
       /\ view'[e][a].access_level = x.access_level
  BY <1>1, <1>5, <1>10, <1>11, ChildBound
<1> HIDE DEF n
<1>13. TypeOK' BY <1>0, <1>1, <1>3, <1>4, <1>7, <1>8, <1>9, <1>11 DEF TypeOK, TableTypeOK
<1>14. \A f \in Executor, b \in Address :
          /\ HeldBy(f, b)' <=> HeldBy(f, b)
          /\ SentTo(f, b)' <=> SentTo(f, b)
          /\ Mapped(f, b)' <=> Mapped(f, b)
          /\ Backs(f, b)' <=> Backs(f, b)
          /\ view'[f][b].author = view[f][b].author
          /\ view'[f][b].owner = view[f][b].owner
          /\ view'[f][b].committed = view[f][b].committed
          /\ view'[f][b].access_level = view[f][b].access_level
  BY <1>1, <1>11, <1>12 DEF HeldBy, SentTo, Mapped, Backs
<1>15. \A d \in Cell : parent[e][d] # a
  <2>1. ASSUME NEW d \in Cell, parent[e][d] = a PROVE FALSE
    BY <2>1, <1>0, <1>1 DEF Children, HasParent, Running
  <2> QED BY <2>1
<1>16. \A f \in Executor, b \in Address : OpenAt(f, b)' <=> OpenAt(f, b)
  <2>1. \A f \in Executor : \A d \in uniq[f] : parent'[f][d] = parent[f][d]
    BY <1>0, <1>5, <1>9 DEF Typed
  <2> QED BY <2>1, <1>1 DEF OpenAt
<1>a. Unissued' BY <1>0, <1>1, <1>3, <1>4, <1>14 DEF Unissued
<1>b. Entries'
  <2>1. ASSUME NEW f \in Executor, NEW b \in Address, Mapped(f, b)'
        PROVE  /\ view'[f][b].access_level = "private"
               /\ Backs(f, b)' => /\ view'[f][b].author = f
                                  /\ view'[f][b].child = view'[f][b].committed
                                  /\ parent'[f][view'[f][b].committed] = b
    <3>1. CASE f = e /\ b = a BY <3>1, <1>0, <1>1, <1>12 DEF Backs, Entries
    <3>2. CASE ~Backs(f, b) BY <3>2, <2>1, <1>0, <1>14 DEF Entries
    <3>3. CASE (f # e \/ b # a) /\ Backs(f, b)
      <4>1. view'[f][b] = view[f][b] /\ Mapped(f, b) BY <3>3, <2>1, <1>11 DEF Mapped
      <4>2. view[f][b].committed \in Cell /\ parent[f][view[f][b].committed] = b
        BY <4>1, <3>3, <1>0 DEF Entries, Typed, Backs
      <4>3. parent'[f][view[f][b].committed] = b BY <4>2, <1>5, <1>9
      <4> QED BY <4>1, <4>3, <3>3, <1>0 DEF Entries
    <3> QED BY <3>1, <3>2, <3>3
  <2> QED BY <2>1 DEF Entries
<1>c. Children'
  <2> SUFFICES ASSUME NEW f \in Executor, NEW d \in Cell, HasParent(f, d)'
               PROVE  /\ heap'[f][d] # Null
                      /\ view'[f][parent'[f][d]] # Null
                      /\ view'[f][parent'[f][d]].child = d
                      /\ \/ view'[f][parent'[f][d]].committed = d
                         \/ fwd'[f] # Null /\ fwd'[f].lp = d /\ fwd'[f].p = parent'[f][d]
    BY DEF Children, Running, Mapped
  <2>1. CASE f = e /\ d = c BY <2>1, <1>7, <1>8, <1>9, <1>12
  <2>2. CASE f # e \/ d # c
    <3>1. parent'[f][d] = parent[f][d] /\ HasParent(f, d) /\ heap'[f][d] = heap[f][d]
      BY <2>2, <1>8, <1>9 DEF HasParent
    <3>2. parent[f][d] \in Address /\ (f # e \/ parent[f][d] # a)
      BY <3>1, <1>0, <1>15 DEF Typed, HasParent
    <3>3. view'[f][parent[f][d]] = view[f][parent[f][d]] BY <3>2, <1>11
    <3>4. \/ view[f][parent[f][d]].committed = d
          \/ f # e /\ fwd[f] # Null /\ fwd[f].lp = d /\ fwd[f].p = parent[f][d]
      BY <3>1, <1>0, <1>1 DEF Children, Running
    <3> QED BY <3>1, <3>3, <3>4, <1>0, <1>7 DEF Children, Mapped
  <2> QED BY <2>1, <2>2
<1>d. Uniques'
  <2> SUFFICES ASSUME NEW f \in Executor, NEW d \in uniq[f]
               PROVE  /\ heap'[f][d] # Null
                      /\ parent'[f][d] # Null => /\ view'[f][parent'[f][d]] # Null
                                                 /\ view'[f][parent'[f][d]].owner = f
                                                 /\ view'[f][parent'[f][d]].committed = d
    BY <1>1 DEF Uniques, HasParent, AmOwner, Mapped
  <2>1. d \in Cell /\ (f # e \/ d # c) BY <1>0, <1>5 DEF Typed
  <2>2. parent'[f][d] = parent[f][d] /\ heap'[f][d] = heap[f][d] BY <2>1, <1>8, <1>9
  <2>3. parent[f][d] # Null => parent[f][d] \in Address BY <2>1, <1>0 DEF Typed
  <2> QED BY <2>1, <2>2, <2>3, <1>0, <1>14 DEF Uniques, HasParent, AmOwner, Mapped
<1>e. SoleCapability' BY <1>0, <1>1, <1>14, <1>16 DEF SoleCapability
<1>f. Handles'
  <2>1. ASSUME NEW f \in Executor, NEW b \in Address, HeldBy(f, b)
        PROVE  /\ AmOwner(f, b) /\ Backs(view[f][b].author, b)
               /\ view[f][b].author <= f /\ view[f][b].author \in Executor
               /\ view[f][b].author # f => ~Backs(f, b)
    BY <2>1, <1>0 DEF Handles, HeldBy, Typed, AmOwner
  <2>2. ASSUME NEW f \in Executor, NEW b \in Address, HeldBy(f, b)
        PROVE  /\ AmOwner(f, b)' /\ Backs(view[f][b].author, b)'
               /\ view'[f][b].author <= f
               /\ view'[f][b].author # f => ~Backs(f, b)'
    BY <2>1, <2>2, <1>14 DEF AmOwner, Mapped, Backs
  <2> QED BY <2>2, <1>1, <1>13 DEF Handles, HeldBy, TypeOK
<1>g. Messages' BY <1>0, <1>1, <1>14 DEF Messages, Typed, Backs, Mapped
<1>h. Frontier' BY <1>0, <1>1, <1>14, <1>16 DEF Frontier, Typed
<1>i. Resets'
  <2>1. \A r \in dmn' : r.op = "PVT_RESET" => r \in dmn BY <1>3, <1>4
  <2> QED BY <2>1, <1>0, <1>1, <1>14, <1>16 DEF Resets, Typed, Mapped, Backs
<1>j. Waiting'
  <2> SUFFICES ASSUME NEW f \in Executor, fwd'[f] # Null
               PROVE  /\ HeldBy(f, fwd'[f].p)
                      /\ view'[f][fwd'[f].p].author = fwd'[f].to /\ fwd'[f].to # f
                      /\ view'[f][fwd'[f].p].child = fwd'[f].lp
                      /\ parent'[f][fwd'[f].lp] = fwd'[f].p
                      /\ fwd'[f].lp \notin uniq[f]
    BY <1>1 DEF Waiting, Running, HeldBy
  <2>1. CASE f = e BY <2>1, <1>1, <1>5, <1>7, <1>9, <1>12
  <2>2. CASE f # e
    <3>1. ~Running(f) /\ fwd'[f] = fwd[f] BY <2>2, <1>7 DEF Running
    <3>2. fwd[f].p \in Address /\ fwd[f].lp \in Cell BY <3>1, <1>0 DEF Typed
    <3> QED BY <2>2, <3>1, <3>2, <1>0, <1>9, <1>11 DEF Waiting
  <2> QED BY <2>1, <2>2
<1>k. Loads'
  <2>1. ASSUME NEW r \in dmn', r.op = "RLOAD"
        PROVE  ~Running(r.from)' /\ fwd'[r.from].p = r.p /\ fwd'[r.from].to = r.to
    <3>1. CASE r = n BY <3>1, <1>4, <1>7 DEF Running
    <3>2. CASE r \in dmn
      <4>1. /\ r.from \in Executor
            /\ ~Running(r.from) /\ fwd[r.from].p = r.p /\ fwd[r.from].to = r.to
        <5>1. r.from \in Executor BY <3>2, <1>0 DEF Typed
        <5> QED BY <5>1, <3>2, <2>1, <1>0 DEF Loads
      <4>2. r.from # e BY <4>1, <1>1
      <4>3. fwd'[r.from] = fwd[r.from] BY <4>1, <4>2, <1>7
      <4> QED BY <4>1, <4>3 DEF Running
    <3> QED BY <3>1, <3>2, <1>3
  <2>2. ASSUME NEW s \in mem
        PROVE  /\ ~Running(s.to)' /\ fwd'[s.to].to = s.from
               /\ s.value = heap'[s.from][view'[s.from][fwd'[s.to].p].committed]
               /\ \A r \in dmn' : r.op = "RLOAD" => r.from # s.to
    <3> DEFINE b == fwd[s.to].p
               d == view[s.from][b].committed
    <3>1. /\ s.from \in Executor /\ s.to \in Executor /\ b \in Address /\ d \in Cell
          /\ ~Running(s.to) /\ parent[s.from][d] = b /\ s.value = heap[s.from][d]
      BY LoadedBlock
    <3>2. s.to # e BY <3>1, <1>1
    <3>3. fwd'[s.to] = fwd[s.to] BY <3>1, <3>2, <1>7
    <3>4. s.from # e \/ d # c BY <3>1, <1>5
    <3>5. view'[s.from][b].committed = d BY <3>1, <1>14
    <3>6. \A r \in dmn' : r.op = "RLOAD" => r.from # s.to
      BY <3>2, <1>0, <1>3, <1>4 DEF Loads
    <3>7. fwd[s.to].to = s.from BY <1>0 DEF Loads
    <3>8. s.value = heap'[s.from][view'[s.from][fwd'[s.to].p].committed]
      <4>1. s.value = heap'[s.from][d]
        <5> HIDE DEF d
        <5> QED BY <3>1, <3>4, <1>8
      <4> QED BY <4>1, <3>3, <3>5
    <3> QED BY <3>1, <3>3, <3>6, <3>7, <3>8 DEF Running
  <2> QED BY <2>1, <2>2, <1>1 DEF Loads
<1> QED BY <1>13, <1>a, <1>b, <1>c, <1>d, <1>e, <1>f, <1>g, <1>h, <1>i, <1>j, <1>k DEF IInv

(* The second half of local() elsewhere preserves the invariant: the       *)
(* caller becomes the author, and the release it sends is the first to     *)
(* that former author.                                                     *)
LEMMA LocalAnswerKeeps ==
  ASSUME IInv, NEW e \in Executor, NEW s \in mem, LocalAnswer(e, s)
  PROVE  IInv'
<1> DEFINE a == fwd[e].p
           c == fwd[e].lp
           y == fwd[e].to
           x == view[e][a]
           n == [op |-> "PVT_RESET", from |-> e, to |-> y, p |-> a]
<1> USE ViewAssumption, LoadAssumption
<1>0. /\ TypeOK /\ Unissued /\ Entries /\ Children /\ Uniques
      /\ SoleCapability /\ Handles /\ Messages /\ Frontier
      /\ Resets /\ Waiting /\ Loads /\ Typed
  BY TypeFacts DEF IInv
<1>1. /\ ~Running(e) /\ s.to = e /\ s.from = y /\ s.value \in Value
      /\ a \in Address /\ c \in Cell /\ y \in Executor
      /\ HeldBy(e, a) /\ x.author = y /\ y # e /\ x.child = c
      /\ parent[e][c] = a /\ c \notin uniq[e]
      /\ UNCHANGED <<issued, parent, pap>>
  BY <1>0 DEF LocalAnswer, Typed, Waiting
<1>2. /\ AmOwner(e, a) /\ Mapped(e, a) /\ x \in Entry /\ Backs(y, a)
      /\ ~Backs(e, a) /\ x.committed = Null
  BY <1>0, <1>1 DEF Handles, HeldBy, AmOwner, Typed, Backs
<1>3. y < e /\ y \in Nat /\ e \in Nat
  BY <1>0, <1>1, ApplicationAssumption DEF Handles, HeldBy, ApplicationAssumption
<1>4. /\ heap' = [heap EXCEPT ![e][c] = s.value]
      /\ view' = [view EXCEPT ![e][a] = BindAuthor(BindCommitted(@, c), e)]
      /\ dmn' = dmn \cup {n} /\ Point(e, c) /\ Release(e, a)
      /\ fwd' = [fwd EXCEPT ![e] = Null] /\ mem' = mem \ {s}
  BY DEF LocalAnswer
<1>5. n \in Request /\ n.op = "PVT_RESET" /\ n.from = e /\ n.to = y /\ n.p = a
  BY <1>1 DEF Request
<1>6. LET z == BindAuthor(BindCommitted(x, c), e)
      IN  /\ z \in Entry /\ z.committed = c /\ z.child = c /\ z.owner = x.owner
          /\ z.author = e /\ z.access_level = x.access_level
  <2>1. LET w == BindCommitted(x, c)
        IN  /\ w \in Entry /\ w.committed = c /\ w.child = x.child
            /\ w.owner = x.owner /\ w.access_level = x.access_level
    BY <1>1, <1>2, CommittedBound
  <2> QED BY <2>1, <1>1, AuthorBound
<1> HIDE DEF n, a, c, y
<1>7. /\ view' \in [Executor -> [Address -> Entry \cup {Null}]]
      /\ view'[e][a] = BindAuthor(BindCommitted(x, c), e)
      /\ \A f \in Executor, b \in Address : f # e \/ b # a => view'[f][b] = view[f][b]
  BY <1>0, <1>1, <1>4, <1>6 DEF TypeOK, TableTypeOK
<1>8. /\ view'[e][a] # Null /\ view'[e][a].committed = c /\ view'[e][a].child = c
      /\ view'[e][a].owner = e /\ view'[e][a].author = e
      /\ view'[e][a].access_level = x.access_level
  BY <1>2, <1>6, <1>7 DEF AmOwner
<1>9. /\ heap' \in [Executor -> [Cell -> Value \cup {Null}]]
      /\ \A f \in Executor, d \in Cell :
            heap'[f][d] = IF f = e /\ d = c THEN s.value ELSE heap[f][d]
  BY <1>0, <1>1, <1>4 DEF TypeOK, TableTypeOK
<1>10. /\ fwd' \in [Executor -> Load \cup {Null}] /\ fwd'[e] = Null
       /\ \A f \in Executor : f # e => fwd'[f] = fwd[f]
  BY <1>0, <1>4 DEF TypeOK
<1>11. /\ pvt' \in [Executor -> SUBSET Address]
       /\ \A f \in Executor, b \in Address : HeldBy(f, b)' <=> HeldBy(f, b) /\ (f # e \/ b # a)
  BY <1>0, <1>4 DEF TypeOK, HeldBy, Release
<1>12. /\ uniq' \in [Executor -> SUBSET Cell]
       /\ \A f \in Executor : \A d : d \in uniq'[f] <=> d \in uniq[f] \/ (f = e /\ d = c)
  BY <1>0, <1>1, <1>4 DEF TypeOK, Point
<1>13. TypeOK'
  BY <1>0, <1>1, <1>4, <1>5, <1>7, <1>9, <1>10, <1>11, <1>12 DEF TypeOK, TableTypeOK
<1>14. \A f \in Executor, b \in Address :
          /\ OpenAt(f, b)' <=> OpenAt(f, b) \/ (f = e /\ b = a)
          /\ SentTo(f, b)' <=> SentTo(f, b)
          /\ Mapped(f, b)' <=> Mapped(f, b)
          /\ Backs(f, b)' <=> Backs(f, b) \/ (f = e /\ b = a)
  <2>1. \A f \in Executor, b \in Address : OpenAt(f, b)' => OpenAt(f, b) \/ (f = e /\ b = a)
    BY <1>1, <1>12 DEF OpenAt
  <2>2. \A f \in Executor, b \in Address : OpenAt(f, b) \/ (f = e /\ b = a) => OpenAt(f, b)'
    BY <1>1, <1>12 DEF OpenAt
  <2>3. c # Null BY <1>1
  <2> QED BY <2>1, <2>2, <2>3, <1>1, <1>2, <1>7, <1>8 DEF SentTo, Mapped, Backs
<1>15. /\ \A f \in Executor : (HeldBy(f, a) => f = e) /\ ~OpenAt(f, a) /\ ~SentTo(f, a)
       /\ \A m \in pap : m.p # a
  BY <1>0, <1>1 DEF SoleCapability, SentTo, Typed
<1>16. a \in issued BY <1>0, <1>1 DEF Unissued
<1>a. Unissued' BY <1>0, <1>1, <1>4, <1>5, <1>11, <1>14, <1>16 DEF Unissued
<1>b. Entries'
  <2>1. ASSUME NEW f \in Executor, NEW b \in Address, Mapped(f, b)'
        PROVE  /\ view'[f][b].access_level = "private"
               /\ Backs(f, b)' => /\ view'[f][b].author = f
                                  /\ view'[f][b].child = view'[f][b].committed
                                  /\ parent'[f][view'[f][b].committed] = b
    <3>1. CASE f = e /\ b = a BY <3>1, <1>0, <1>1, <1>2, <1>8 DEF Entries
    <3>2. CASE f # e \/ b # a
      BY <3>2, <2>1, <1>0, <1>1, <1>7, <1>14 DEF Entries, Mapped
    <3> QED BY <3>1, <3>2
  <2> QED BY <2>1 DEF Entries
<1>c. Children'
  <2> SUFFICES ASSUME NEW f \in Executor, NEW d \in Cell, HasParent(f, d)
               PROVE  /\ heap'[f][d] # Null
                      /\ view'[f][parent[f][d]] # Null
                      /\ view'[f][parent[f][d]].child = d
                      /\ \/ view'[f][parent[f][d]].committed = d
                         \/ fwd'[f] # Null /\ fwd'[f].lp = d /\ fwd'[f].p = parent[f][d]
    BY <1>1 DEF Children, Running, Mapped, HasParent
  <2>1. /\ heap[f][d] # Null /\ parent[f][d] \in Address
        /\ view[f][parent[f][d]] # Null /\ view[f][parent[f][d]].child = d
    BY <1>0 DEF Children, HasParent, Typed, Mapped
  <2>2. heap'[f][d] # Null BY <2>1, <1>1, <1>9
  <2>3. CASE f = e /\ parent[f][d] = a
    BY <2>1, <2>2, <2>3, <1>1, <1>8
  <2>4. CASE f # e \/ parent[f][d] # a
    <3>1. view'[f][parent[f][d]] = view[f][parent[f][d]] BY <2>1, <2>4, <1>7
    <3>2. \/ view[f][parent[f][d]].committed = d
          \/ f # e /\ fwd[f] # Null /\ fwd[f].lp = d /\ fwd[f].p = parent[f][d]
      BY <2>4, <1>0 DEF Children, Running, a
    <3> QED BY <2>1, <2>2, <3>1, <3>2, <1>10
  <2> QED BY <2>3, <2>4
<1>d. Uniques'
  <2> SUFFICES ASSUME NEW f \in Executor, NEW d \in uniq'[f]
               PROVE  /\ heap'[f][d] # Null
                      /\ parent[f][d] # Null => /\ view'[f][parent[f][d]] # Null
                                                /\ view'[f][parent[f][d]].owner = f
                                                /\ view'[f][parent[f][d]].committed = d
    BY <1>1 DEF Uniques, HasParent, AmOwner, Mapped
  <2>1. d \in Cell BY <1>13 DEF TypeOK
  <2>2. CASE f = e /\ d = c BY <2>1, <2>2, <1>1, <1>8, <1>9
  <2>3. CASE f # e \/ d # c
    <3>1. d \in uniq[f] /\ heap'[f][d] = heap[f][d] BY <2>1, <2>3, <1>9, <1>12
    <3>2. parent[f][d] # Null => parent[f][d] \in Address /\ (f # e \/ parent[f][d] # a)
      BY <3>1, <2>1, <1>0, <1>15 DEF Typed, OpenAt
    <3>3. parent[f][d] # Null => view'[f][parent[f][d]] = view[f][parent[f][d]]
      BY <3>2, <1>7
    <3> QED BY <3>1, <3>3, <1>0 DEF Uniques, HasParent, AmOwner, Mapped
  <2> QED BY <2>2, <2>3
<1>e. SoleCapability' BY <1>0, <1>1, <1>11, <1>14, <1>15 DEF SoleCapability
<1>f. Handles'
  <2> SUFFICES ASSUME NEW f \in Executor, NEW b \in Address, HeldBy(f, b)'
               PROVE  /\ AmOwner(f, b)' /\ Backs(view[f][b].author, b)'
                      /\ view'[f][b].author <= f
                      /\ view'[f][b].author # f => ~Backs(f, b)'
    BY <1>13 DEF Handles, HeldBy, TypeOK
  <2>1. HeldBy(f, b) /\ b # a BY <1>11, <1>15
  <2>2. /\ AmOwner(f, b) /\ Mapped(f, b) /\ view[f][b].author \in Executor
        /\ Backs(view[f][b].author, b) /\ view[f][b].author <= f
        /\ view[f][b].author # f => ~Backs(f, b)
    BY <2>1, <1>0 DEF Handles, HeldBy, AmOwner, Typed
  <2>3. /\ view'[f][b] = view[f][b]
        /\ view'[view[f][b].author][b] = view[view[f][b].author][b]
    BY <2>1, <2>2, <1>7
  <2> QED BY <2>1, <2>2, <2>3 DEF AmOwner, Mapped, Backs
<1>g. Messages'
  <2>1. ASSUME NEW m \in pap PROVE view'[m.author][m.p] = view[m.author][m.p]
    BY <1>0, <1>7, <1>15 DEF Typed
  <2> QED BY <2>1, <1>0, <1>1 DEF Messages, Mapped, Backs
<1>h. Frontier' BY <1>0, <1>1, <1>11, <1>14 DEF Frontier, Typed
<1>i. Resets'
  <2> SUFFICES ASSUME NEW r \in dmn', r.op = "PVT_RESET"
               PROVE  /\ Backs(r.to, r.p)'
                      /\ \A q \in dmn' : q.op = r.op /\ q.to = r.to /\ q.p = r.p => q = r
                      /\ \A f \in Executor : HeldBy(f, r.p)' \/ OpenAt(f, r.p)' =>
                            r.to < f /\ view'[f][r.p].author # r.to
                      /\ \A m \in pap : m.p = r.p => r.to < m.from /\ m.author # r.to
    BY <1>1 DEF Resets
  <2>0. \A q \in dmn : q.op = "PVT_RESET" /\ q.p = a => q.to # y
    BY <1>0, <1>1 DEF Resets
  <2>1. CASE r = n
    BY <2>0, <2>1, <1>1, <1>2, <1>3, <1>4, <1>5, <1>8, <1>11, <1>14, <1>15
  <2>2. CASE r \in dmn
    <3>1. /\ r.to \in Executor /\ r.p \in Address /\ r.to \in Nat /\ Backs(r.to, r.p)
          /\ \A q \in dmn : q.op = r.op /\ q.to = r.to /\ q.p = r.p => q = r
          /\ \A f \in Executor : HeldBy(f, r.p) \/ OpenAt(f, r.p) =>
                r.to < f /\ view[f][r.p].author # r.to
          /\ \A m \in pap : m.p = r.p => r.to < m.from /\ m.author # r.to
      BY <2>2, <1>0, ApplicationAssumption DEF Resets, Typed, ApplicationAssumption
    <3>2. \A q \in dmn' : q.op = r.op /\ q.to = r.to /\ q.p = r.p => q = r
      BY <2>0, <2>2, <3>1, <1>4, <1>5
    <3>3. ASSUME NEW f \in Executor, HeldBy(f, r.p)' \/ OpenAt(f, r.p)'
          PROVE  r.to < f /\ view'[f][r.p].author # r.to
      <4>1. CASE f = e /\ r.p = a
        <5>1. r.to < e /\ r.to # e BY <4>1, <3>1, <1>1, <1>3
        <5> QED BY <4>1, <5>1, <1>8
      <4>2. CASE f # e \/ r.p # a BY <4>2, <3>1, <3>3, <1>7, <1>11, <1>14
      <4> QED BY <4>1, <4>2
    <3> QED BY <3>1, <3>2, <3>3, <1>14
  <2> QED BY <2>1, <2>2, <1>4
<1>j. Waiting'
  <2> SUFFICES ASSUME NEW f \in Executor, fwd'[f] # Null
               PROVE  /\ fwd'[f].p \in pvt'[f]
                      /\ view'[f][fwd'[f].p].author = fwd'[f].to /\ fwd'[f].to # f
                      /\ view'[f][fwd'[f].p].child = fwd'[f].lp
                      /\ parent'[f][fwd'[f].lp] = fwd'[f].p
                      /\ fwd'[f].lp \notin uniq'[f]
    BY DEF Waiting, Running, HeldBy
  <2>1. f # e /\ ~Running(f) /\ fwd'[f] = fwd[f] BY <1>10 DEF Running
  <2>2. fwd[f].p \in Address /\ fwd[f].lp \in Cell /\ HeldBy(f, fwd[f].p)
    BY <2>1, <1>0 DEF Typed, Waiting
  <2>3. fwd[f].p \in pvt'[f] BY <2>1, <2>2, <1>11 DEF HeldBy
  <2>4. fwd[f].lp \notin uniq'[f] BY <2>1, <2>2, <1>0, <1>12 DEF Waiting
  <2>5. view'[f][fwd[f].p] = view[f][fwd[f].p] BY <2>1, <2>2, <1>7
  <2> QED BY <2>1, <2>3, <2>4, <2>5, <1>0, <1>1 DEF Waiting
<1>k. Loads'
  <2>1. ASSUME NEW r \in dmn', r.op = "RLOAD"
        PROVE  /\ r \in dmn /\ r.from \in Executor /\ r.from # e
               /\ ~Running(r.from)' /\ fwd'[r.from].p = r.p /\ fwd'[r.from].to = r.to
    <3>1. r \in dmn BY <2>1, <1>4, <1>5
    <3>2. /\ r.from \in Executor
          /\ ~Running(r.from) /\ fwd[r.from].p = r.p /\ fwd[r.from].to = r.to
          /\ r.from # e
      <4>1. r.from \in Executor BY <3>1, <1>0 DEF Typed
      <4>2. \A q \in dmn : q.op = "RLOAD" =>
              /\ ~Running(q.from) /\ fwd[q.from].p = q.p /\ fwd[q.from].to = q.to
              /\ q.from # s.to
        BY <1>0 DEF Loads
      <4> QED BY <4>1, <4>2, <2>1, <3>1, <1>1
    <3>3. fwd'[r.from] = fwd[r.from] BY <3>2, <1>10
    <3> QED BY <3>1, <3>2, <3>3 DEF Running
  <2>2. ASSUME NEW t \in mem'
        PROVE  /\ ~Running(t.to)' /\ fwd'[t.to].to = t.from
               /\ t.value = heap'[t.from][view'[t.from][fwd'[t.to].p].committed]
               /\ \A r \in dmn' : r.op = "RLOAD" => r.from # t.to
    <3> DEFINE b == fwd[t.to].p
               d == view[t.from][b].committed
    <3>1. t \in mem /\ t # s BY <1>4
    <3>2. /\ t.from \in Executor /\ t.to \in Executor /\ b \in Address /\ d \in Cell
          /\ ~Running(t.to) /\ parent[t.from][d] = b /\ t.value = heap[t.from][d]
          /\ HeldBy(t.to, b) /\ t.from # t.to
      BY <3>1, LoadedBlock
    <3>3. fwd[t.to].to = t.from BY <3>1, <1>0 DEF Loads
    <3>4. t.to # e
      <4>1. SUFFICES ASSUME t.to = e PROVE FALSE OBVIOUS
      <4>2. t.from = s.from /\ t.to = s.to BY <4>1, <3>3, <1>1 DEF y
      <4>3. t.value = s.value BY <4>2, <3>1, <1>0 DEF Loads
      <4>4. t \in Answer /\ s \in Answer BY <3>1, <1>0 DEF TypeOK
      <4> QED BY <4>2, <4>3, <4>4, <3>1 DEF Answer
    <3>5. fwd'[t.to] = fwd[t.to] BY <3>2, <3>4, <1>10
    <3>6. b # a BY <3>2, <3>4, <1>15
    <3>7. view'[t.from][b] = view[t.from][b] BY <3>2, <3>6, <1>7
    <3>8. t.from # e \/ d # c BY <3>2, <3>6, <1>1
    <3>9. heap'[t.from][d] = heap[t.from][d]
      <4> HIDE DEF d
      <4> QED BY <3>2, <3>8, <1>9
    <3>10. \A r \in dmn' : r.op = "RLOAD" => r.from # t.to
      BY <2>1, <3>1, <1>0 DEF Loads
    <3> QED BY <3>2, <3>3, <3>5, <3>7, <3>9, <3>10 DEF Running
  <2> QED BY <2>1, <2>2 DEF Loads
<1> QED BY <1>13, <1>a, <1>b, <1>c, <1>d, <1>e, <1>f, <1>g, <1>h, <1>i, <1>j, <1>k DEF IInv

-----------------------------------------------------------------------------
(* The induction *)

(* The invariant holds before anything is created.                         *)
LEMMA InitIInv == Init => IInv
<1> SUFFICES ASSUME Init PROVE IInv OBVIOUS
<1> USE ViewAssumption
<1>1. /\ issued = {} /\ pap = {} /\ dmn = {} /\ mem = {}
      /\ view = [e \in Executor |-> [a \in Address |-> Null]]
      /\ parent = [e \in Executor |-> [c \in Cell |-> Null]]
      /\ heap = [e \in Executor |-> [c \in Cell |-> Null]]
      /\ pvt = [e \in Executor |-> {}] /\ uniq = [e \in Executor |-> {}]
      /\ fwd = [e \in Executor |-> Null]
  BY DEF Init, TableInit
<1>2. TypeOK BY <1>1 DEF TypeOK, TableTypeOK
<1>3. \A e \in Executor :
         /\ Running(e)
         /\ \A a \in Address : ~Mapped(e, a) /\ ~HeldBy(e, a)
                               /\ ~OpenAt(e, a) /\ ~SentTo(e, a)
         /\ \A c \in Cell : ~HasParent(e, c)
         /\ pvt[e] = {} /\ uniq[e] = {}
  BY <1>1 DEF Running, Mapped, HeldBy, OpenAt, SentTo, HasParent
<1> HIDE DEF Mapped
<1>4. Unissued /\ Entries /\ Frontier
  BY <1>1, <1>3 DEF Unissued, Entries, Frontier
<1>5. Children /\ Uniques /\ SoleCapability
  BY <1>1, <1>3 DEF Children, Uniques, SoleCapability
<1>6. Handles /\ Messages /\ Resets /\ Waiting /\ Loads
  BY <1>1, <1>3 DEF Handles, Messages, Resets, Waiting, Loads
<1> QED BY <1>2, <1>4, <1>5, <1>6 DEF IInv

(* A step that changes nothing preserves the invariant.                    *)
LEMMA StutterKeeps ==
  ASSUME IInv, UNCHANGED vars
  PROVE  IInv'
<1>1. UNCHANGED <<issued, view, parent, heap, pvt, uniq, fwd, pap, dmn, mem>>
  BY DEF vars, tableVars, userVars, linkVars
<1>2. TypeOK' BY <1>1 DEF IInv, TypeOK, TableTypeOK
<1>3. /\ Unissued' /\ Entries' /\ Children' /\ Uniques'
  BY <1>1 DEF IInv, Unissued, Entries, Children, Uniques, Mapped, HeldBy,
              Backs, HasParent, Running, AmOwner
<1>4. SoleCapability' /\ Handles' /\ Messages' /\ Frontier'
  BY <1>1 DEF IInv, SoleCapability, Handles, Messages, Frontier, Mapped,
              HeldBy, OpenAt, SentTo, AmOwner, Backs
<1>5. Resets' BY <1>1 DEF IInv, Resets, Backs, Mapped, HeldBy, OpenAt
<1>6. Waiting' BY <1>1 DEF IInv, Waiting, HeldBy, Running
<1>7. Loads' BY <1>1, LoadsKept DEF IInv
<1> QED BY <1>2, <1>3, <1>4, <1>5, <1>6, <1>7 DEF IInv

(* Every operation of a user thread preserves the invariant.               *)
LEMMA UserKeeps ==
  ASSUME IInv, NEW e \in Executor, User(e)
  PROVE  IInv'
<1>1. CASE \E v \in Value : Make(e, v) \/ MakeUnique(e, v)
  BY <1>1, MakeKeeps, MakeUniqueKeeps
<1>2. CASE \E c \in Cell : Adopt(e, c) \/ DropUnique(e, c) \/ WriteBack(e, c)
  BY <1>2, AdoptKeeps, DropUniqueKeeps, WriteBackKeeps
<1>3. CASE \E c \in Cell, v \in Value : Write(e, c, v)
  BY <1>3, WriteKeeps
<1>4. CASE \E a \in Address : LocalAtHome(e, a) \/ Drop(e, a) \/ LocalRequest(e, a)
  BY <1>4, LocalAtHomeKeeps, DropKeeps, LocalRequestKeeps
<1>5. CASE \E a \in Address, t \in Executor : <<e, t>> \in Routes /\ Push(e, a, t)
  BY <1>5, PushKeeps
<1>6. CASE \E m \in pap : Pull(e, m)
  BY <1>6, PullKeeps
<1> QED BY <1>1, <1>2, <1>3, <1>4, <1>5, <1>6 DEF User

(* Every step preserves the invariant.                                     *)
LEMMA NextIInv == IInv /\ [Next]_vars => IInv'
<1> SUFFICES ASSUME IInv, [Next]_vars PROVE IInv' OBVIOUS
<1>1. CASE \E e \in Executor : User(e) BY <1>1, UserKeeps
<1>2. CASE \E e \in Executor : Answered(e)
  BY <1>2, LocalAnswerKeeps DEF Answered
<1>3. CASE \E e \in Executor : Daemon(e)
  BY <1>3, DmnRloadKeeps, DmnPvtResetKeeps DEF Daemon
<1>4. CASE Finished \/ UNCHANGED vars
  BY <1>4, StutterKeeps DEF Finished
<1> QED BY <1>1, <1>2, <1>3, <1>4 DEF Next

-----------------------------------------------------------------------------
(* What the invariant implies *)

(* The invariant implies the asserts of the daemon: a release by Resets, a *)
(* remote load because its requester still waits (Loads), holds a handle   *)
(* (Waiting) and addresses the executor that has the memory (Handles).     *)
LEMMA IInvDaemonAsserts == IInv => DaemonAsserts
<1> SUFFICES ASSUME IInv, NEW r \in dmn PROVE Serviceable(r)
  BY DEF DaemonAsserts
<1>0. TypeOK /\ Typed /\ Entries /\ Handles /\ Resets /\ Waiting /\ Loads
  BY TypeFacts DEF IInv
<1>1. r.to \in Executor /\ r.from \in Executor /\ r.p \in Address BY <1>0 DEF Typed
<1>2. CASE r.op = "PVT_RESET"
  BY <1>2, <1>1, <1>0 DEF Resets, Entries, Backs, Serviceable, AmAuthor
<1>3. CASE r.op = "RLOAD"
  <2>1. /\ ~Running(r.from) /\ fwd[r.from].p = r.p /\ fwd[r.from].to = r.to
    BY <1>3, <1>0 DEF Loads
  <2>2. HeldBy(r.from, r.p) /\ view[r.from][r.p].author = r.to
    BY <2>1, <1>1, <1>0 DEF Waiting
  <2>3. Backs(r.to, r.p) BY <2>2, <1>1, <1>0 DEF Handles, HeldBy
  <2> QED BY <2>3, <1>1, <1>0 DEF Entries, Backs, Serviceable, AmAuthor
<1> QED BY <1>0, <1>2, <1>3 DEF TypeOK, Request

(* The invariant implies the asserts of the user side.                     *)
LEMMA IInvUserAsserts == IInv => UserAsserts
<1> SUFFICES ASSUME IInv, NEW e \in Executor, NEW a \in pvt[e]
             PROVE  /\ AmOwner(e, a)
                    /\ IF AmAuthor(e, a)
                       THEN LET c == view[e][a].committed
                            IN  /\ c # Null /\ c = view[e][a].child
                                /\ parent[e][c] = a /\ heap[e][c] # Null
                       ELSE ~Backs(e, a)
  BY DEF UserAsserts
<1> USE ViewAssumption
<1>0. TypeOK /\ Typed /\ Entries /\ Children /\ Handles BY TypeFacts DEF IInv
<1>1. /\ a \in Address /\ AmOwner(e, a) /\ Mapped(e, a)
      /\ Backs(view[e][a].author, a)
      /\ view[e][a].author # e => ~Backs(e, a)
  BY <1>0 DEF Typed, Handles, AmOwner
<1>2. CASE view[e][a].author = e
  <2> DEFINE c == view[e][a].committed
  <2>1. Backs(e, a) /\ c # Null /\ c \in Cell
    BY <1>2, <1>1, <1>0 DEF Backs, Typed
  <2>2. c = view[e][a].child /\ parent[e][c] = a
    BY <2>1, <1>1, <1>0 DEF Entries
  <2>3. heap[e][c] # Null
    BY <2>1, <2>2, <1>1, <1>0 DEF Children, HasParent
  <2> QED BY <1>1, <1>2, <2>1, <2>2, <2>3 DEF AmAuthor
<1>3. CASE view[e][a].author # e BY <1>3, <1>1 DEF AmAuthor
<1> QED BY <1>2, <1>3

(* The invariant implies that no gam_unique_ptr dangles.                   *)
LEMMA IInvNoDanglingChild == IInv => NoDanglingChild
<1> SUFFICES ASSUME IInv, NEW e \in Executor, NEW c \in uniq[e]
             PROVE  /\ heap[e][c] # Null
                    /\ HasParent(e, c) => LET a == parent[e][c]
                                          IN  /\ AmOwner(e, a) /\ AmAuthor(e, a)
                                              /\ view[e][a].committed = c
                    /\ ~HasParent(e, c) => \A a \in Address :
                                  Mapped(e, a) => view[e][a].committed # c
  BY DEF NoDanglingChild
<1> USE ViewAssumption
<1>0. TypeOK /\ Typed /\ Entries /\ Uniques BY TypeFacts DEF IInv
<1>1. c \in Cell /\ c # Null /\ heap[e][c] # Null BY <1>0 DEF Typed, Uniques
<1>2. ASSUME HasParent(e, c)
      PROVE  LET a == parent[e][c]
             IN  /\ AmOwner(e, a) /\ AmAuthor(e, a) /\ view[e][a].committed = c
  <2>1. /\ parent[e][c] \in Address /\ AmOwner(e, parent[e][c])
        /\ view[e][parent[e][c]].committed = c
    BY <1>2, <1>1, <1>0 DEF Typed, Uniques, HasParent
  <2>2. Backs(e, parent[e][c]) /\ Mapped(e, parent[e][c])
    BY <2>1, <1>1 DEF Backs, AmOwner
  <2> QED BY <2>1, <2>2, <1>0 DEF Entries, AmAuthor
<1>3. ASSUME ~HasParent(e, c), NEW a \in Address, Mapped(e, a)
      PROVE  view[e][a].committed # c
  <2> SUFFICES ASSUME view[e][a].committed = c PROVE FALSE OBVIOUS
  <2>1. Backs(e, a) BY <1>1, <1>3 DEF Backs
  <2>2. parent[e][c] = a BY <2>1, <1>3, <1>0 DEF Entries
  <2> QED BY <2>2, <1>3 DEF HasParent
<1> QED BY <1>1, <1>2, <1>3

(* The invariant implies that the two threads of an executor never work on *)
(* the same entry: a release goes strictly below the capability, a remote  *)
(* load goes to an executor other than the sole holder.                    *)
LEMMA IInvEntryRaceFree == IInv => EntryRaceFree
<1> SUFFICES ASSUME IInv, NEW r \in dmn
             PROVE  ~HeldBy(r.to, r.p) /\ ~OpenAt(r.to, r.p)
  BY DEF EntryRaceFree
<1>0. /\ TypeOK /\ Typed /\ SoleCapability /\ Resets /\ Waiting /\ Loads
  BY TypeFacts DEF IInv
<1>1. r.to \in Executor /\ r.from \in Executor /\ r.p \in Address /\ r.to \in Nat
  BY <1>0, ApplicationAssumption DEF Typed, ApplicationAssumption
<1>2. CASE r.op = "PVT_RESET"
  <2>1. HeldBy(r.to, r.p) \/ OpenAt(r.to, r.p) => r.to < r.to
    BY <1>2, <1>1, <1>0 DEF Resets
  <2> QED BY <2>1, <1>1
<1>3. CASE r.op = "RLOAD"
  <2>1. ~Running(r.from) /\ fwd[r.from].p = r.p /\ fwd[r.from].to = r.to
    BY <1>3, <1>0 DEF Loads
  <2>2. HeldBy(r.from, r.p) /\ r.to # r.from BY <2>1, <1>1, <1>0 DEF Waiting
  <2> QED BY <2>2, <1>1, <1>0 DEF SoleCapability
<1> QED BY <1>0, <1>2, <1>3 DEF TypeOK, Request

-----------------------------------------------------------------------------
(* Theorems *)

(* IInv is an invariant of every pipeline, for any number of executors,    *)
(* addresses, blocks and values.                                           *)
THEOREM Inductive == Spec => []IInv
BY InitIInv, NextIInv, PTL DEF Spec

(* The tables, the pointers and the messages keep their types.             *)
THEOREM TypeCorrect == Spec => []TypeOK
<1>1. IInv => TypeOK BY DEF IInv
<1> QED BY <1>1, Inductive, PTL

(* push, local and the constructors from gam_unique_ptr never duplicate a  *)
(* private pointer: at most one handle, child or message carries an        *)
(* address.                                                                *)
THEOREM CapabilitySole == Spec => []SoleCapability
<1>1. IInv => SoleCapability BY DEF IInv
<1> QED BY <1>1, Inductive, PTL

(* The asserts of the RLOAD and PVT_RESET handlers (Context.hpp) never     *)
(* fail: an executor that is sent a request is still the author and still  *)
(* has the memory when it reads it.                                        *)
THEOREM DaemonSafe == Spec => []DaemonAsserts
BY Inductive, IInvDaemonAsserts, PTL

(* The asserts of local_private, withdraw, unmap and of private_ptr never  *)
(* fail.                                                                   *)
THEOREM UserSafe == Spec => []UserAsserts
BY Inductive, IInvUserAsserts, PTL

(* A gam_unique_ptr never dangles, and its deleter frees exactly its       *)
(* block.                                                                  *)
THEOREM ChildrenSafe == Spec => []NoDanglingChild
BY Inductive, IInvNoDanglingChild, PTL

(* The daemon and the user thread of an executor never use a reference     *)
(* into the table (ConcurrentMapWrap::operator[]) for the same address.    *)
THEOREM EntriesRaceFree == Spec => []EntryRaceFree
BY Inductive, IInvEntryRaceFree, PTL

-----------------------------------------------------------------------------
(***************************************************************************)
(* Private pointers in a pipeline implement PrivateMemory, for every       *)
(* number of executors, addresses, blocks and values, and keep no memory   *)
(* that nobody will look for or release.                                   *)
(*                                                                         *)
(* Seen says, in the terms of PrivateMemory, where the capability of an    *)
(* address is and what its location contains; it follows from IInv, and    *)
(* holds before and after every step.  Each action then changes what is    *)
(* seen of one address at most: SameAt lists what leaves an address alone. *)
(***************************************************************************)

-----------------------------------------------------------------------------
(* What the invariant says of an address *)

(* Memory kept for an address is where the holder of the capability will   *)
(* look for it, or about to be released (the first half of NoLeak).        *)
CoveredAt(a) ==
  \A y \in Executor : Backs(y, a) => BackedFrom(a, y) \/ ResetPending(y, a)

Covered == \A a \in Address : CoveredAt(a)

(* What the holder of a capability looks for is there, and stays (the      *)
(* second half).                                                           *)
Sourced ==
  \A y \in Executor, a \in Address :
     BackedFrom(a, y) => Backs(y, a) /\ ~ResetPending(y, a)

(* There is one such author.                                               *)
OneSource ==
  \A a \in Address : \A y, z \in Executor :
     BackedFrom(a, y) /\ BackedFrom(a, z) => y = z

SeenPlaces ==
  \A a \in Address :
     /\ \A e \in Executor :
           /\ HeldBy(e, a) => Places[a] = Memory!At("held", e)
           /\ OpenAt(e, a) => Places[a] = Memory!At("open", e)
           /\ SentTo(e, a) => Places[a] = Memory!At("sent", e)
     /\ (\A e \in Executor : ~HeldBy(e, a) /\ ~OpenAt(e, a) /\ ~SentTo(e, a)) =>
           Places[a] = IF a \in issued THEN Memory!Gone ELSE Memory!Unborn

SeenContents ==
  \A a \in Address :
     /\ \A y \in Executor :
           BackedFrom(a, y) => Contents[a] = heap[y][view[y][a].committed]
     /\ (\A y \in Executor : ~BackedFrom(a, y)) => Contents[a] = Null

Seen == Sourced /\ OneSource /\ SeenPlaces /\ SeenContents

(* A child of a pointer is the block its executor, the author, has         *)
(* committed.                                                              *)
LEMMA OpenFacts ==
  ASSUME IInv, NEW e \in Executor, NEW a \in Address, OpenAt(e, a)
  PROVE  /\ Backs(e, a) /\ view[e][a].author = e
         /\ view[e][a].committed \in uniq[e]
         /\ parent[e][view[e][a].committed] = a
<1>0. Typed /\ Entries /\ Uniques BY TypeFacts DEF IInv
<1>1. PICK c \in uniq[e] : parent[e][c] = a BY DEF OpenAt
<1>2. c \in Cell /\ HasParent(e, c)
  BY <1>0, <1>1, ViewAssumption DEF Typed, HasParent
<1>3. AmOwner(e, a) /\ view[e][a].committed = c BY <1>0, <1>1, <1>2 DEF Uniques
<1>4. Backs(e, a) BY <1>2, <1>3, ViewAssumption DEF Backs, AmOwner
<1> QED BY <1>0, <1>1, <1>3, <1>4 DEF Entries, Backs

(* The block committed for an address is live, and its child.              *)
LEMMA BackedBlock ==
  ASSUME IInv, NEW e \in Executor, NEW a \in Address, Backs(e, a)
  PROVE  LET c == view[e][a].committed
         IN  c \in Cell /\ parent[e][c] = a /\ heap[e][c] \in Value
<1> DEFINE c == view[e][a].committed
<1>0. TypeOK /\ Typed /\ Entries /\ Children BY TypeFacts DEF IInv
<1>1. c \in Cell BY <1>0 DEF Typed, Backs
<1>2. parent[e][c] = a BY <1>0 DEF Entries, Backs
<1>3. heap[e][c] # Null
  BY <1>0, <1>1, <1>2, ViewAssumption DEF Children, HasParent
<1> HIDE DEF c
<1>4. heap[e][c] \in Value BY <1>0, <1>1, <1>3 DEF TypeOK, TableTypeOK
<1> QED BY <1>1, <1>2, <1>4 DEF c

(* The author a capability is backed from has the memory, and no release   *)
(* of it is on its way.                                                    *)
LEMMA IInvSourced == IInv => Sourced
<1> SUFFICES ASSUME IInv, NEW y \in Executor, NEW a \in Address, BackedFrom(a, y)
             PROVE  Backs(y, a) /\ ~ResetPending(y, a)
  BY DEF Sourced
<1>0. Typed /\ Handles /\ Messages /\ Resets BY TypeFacts DEF IInv
<1>1. ASSUME NEW e \in Executor, HeldBy(e, a) \/ OpenAt(e, a),
             view[e][a].author = y
      PROVE  Backs(y, a) /\ ~ResetPending(y, a)
  <2>1. Backs(y, a)
    <3>1. CASE HeldBy(e, a) BY <3>1, <1>0, <1>1 DEF Handles, HeldBy
    <3>2. CASE OpenAt(e, a) BY <3>2, <1>1, OpenFacts
    <3> QED BY <1>1, <3>1, <3>2
  <2>2. ~ResetPending(y, a) BY <1>0, <1>1 DEF Resets, ResetPending
  <2> QED BY <2>1, <2>2
<1>2. ASSUME NEW m \in pap, m.p = a, m.author = y
      PROVE  Backs(y, a) /\ ~ResetPending(y, a)
  BY <1>0, <1>2 DEF Messages, Resets, ResetPending
<1> QED BY <1>1, <1>2 DEF BackedFrom

(* A capability is in one place.                                           *)
LEMMA IInvSeenPlaces == IInv => SeenPlaces
<1> SUFFICES ASSUME IInv, NEW a \in Address
    PROVE  /\ \A e \in Executor :
                 /\ HeldBy(e, a) => Places[a] = Memory!At("held", e)
                 /\ OpenAt(e, a) => Places[a] = Memory!At("open", e)
                 /\ SentTo(e, a) => Places[a] = Memory!At("sent", e)
           /\ (\A e \in Executor : ~HeldBy(e, a) /\ ~OpenAt(e, a) /\ ~SentTo(e, a)) =>
                 Places[a] = IF a \in issued THEN Memory!Gone ELSE Memory!Unborn
  BY DEF SeenPlaces
<1>0. Places[a] = PlaceOf(a) BY DEF Places
<1>1. /\ \A e, f \in Executor :
           /\ HeldBy(e, a) => ~OpenAt(f, a) /\ ~SentTo(f, a) /\ (HeldBy(f, a) => e = f)
           /\ OpenAt(e, a) => ~SentTo(f, a) /\ (OpenAt(f, a) => e = f)
      /\ \A e, f \in Executor : SentTo(e, a) /\ SentTo(f, a) => e = f
  BY DEF IInv, SoleCapability, SentTo
<1>2. ASSUME NEW e \in Executor, HeldBy(e, a) PROVE Places[a] = Memory!At("held", e)
  <2>1. (CHOOSE f \in Executor : HeldBy(f, a)) = e BY <1>1, <1>2
  <2>2. ~(\E f \in Executor : OpenAt(f, a)) /\ ~(\E f \in Executor : SentTo(f, a))
    BY <1>1, <1>2
  <2> QED BY <1>0, <1>2, <2>1, <2>2 DEF PlaceOf, Memory!At
<1>3. ASSUME NEW e \in Executor, OpenAt(e, a) PROVE Places[a] = Memory!At("open", e)
  <2>1. (CHOOSE f \in Executor : OpenAt(f, a)) = e BY <1>1, <1>3
  <2>2. ~(\E f \in Executor : HeldBy(f, a)) /\ ~(\E f \in Executor : SentTo(f, a))
    BY <1>1, <1>3
  <2> QED BY <1>0, <1>3, <2>1, <2>2 DEF PlaceOf, Memory!At
<1>4. ASSUME NEW e \in Executor, SentTo(e, a) PROVE Places[a] = Memory!At("sent", e)
  <2>1. (CHOOSE f \in Executor : SentTo(f, a)) = e BY <1>1, <1>4
  <2>2. ~(\E f \in Executor : HeldBy(f, a)) /\ ~(\E f \in Executor : OpenAt(f, a))
    BY <1>1, <1>4
  <2> QED BY <1>0, <1>4, <2>1, <2>2 DEF PlaceOf, Memory!At
<1>5. ASSUME \A e \in Executor : ~HeldBy(e, a) /\ ~OpenAt(e, a) /\ ~SentTo(e, a)
      PROVE  Places[a] = IF a \in issued THEN Memory!Gone ELSE Memory!Unborn
  BY <1>0, <1>5 DEF PlaceOf, Memory!Gone, Memory!Unborn
<1> QED BY <1>2, <1>3, <1>4, <1>5

(* A capability is backed from one author, because it is in one place.     *)
LEMMA IInvOneSource == IInv => OneSource
<1> SUFFICES ASSUME IInv, NEW a \in Address
             PROVE  \A y, z \in Executor : BackedFrom(a, y) /\ BackedFrom(a, z) => y = z
  BY DEF OneSource
<1>1. Typed /\ SoleCapability BY TypeFacts DEF IInv
<1>2. \A e, f \in Executor :
         (HeldBy(e, a) \/ OpenAt(e, a)) /\ (HeldBy(f, a) \/ OpenAt(f, a)) => e = f
  BY <1>1 DEF SoleCapability
<1>3. \A e \in Executor, m \in pap :
         HeldBy(e, a) \/ OpenAt(e, a) => m.p # a
  BY <1>1 DEF SoleCapability, SentTo, Typed
<1>4. \A m, n \in pap : m.p = n.p => m = n BY <1>1 DEF SoleCapability
<1> QED BY <1>2, <1>3, <1>4 DEF BackedFrom

(* What an application sees of a location is the block of that author.     *)
LEMMA IInvSeenContents == IInv => SeenContents
<1> SUFFICES ASSUME IInv, NEW a \in Address
    PROVE  /\ \A y \in Executor :
                 BackedFrom(a, y) => Contents[a] = heap[y][view[y][a].committed]
           /\ (\A y \in Executor : ~BackedFrom(a, y)) => Contents[a] = Null
  BY DEF SeenContents
<1>0. Contents[a] = ContentOf(a) BY DEF Contents
<1>1. \A y, z \in Executor : BackedFrom(a, y) /\ BackedFrom(a, z) => y = z
  BY IInvOneSource DEF OneSource
<1>2. ASSUME NEW y \in Executor, BackedFrom(a, y)
      PROVE  Contents[a] = heap[y][view[y][a].committed]
  <2>1. (CHOOSE z \in Executor : BackedFrom(a, z)) = y BY <1>1, <1>2
  <2>2. Backs(y, a) BY <1>2, IInvSourced DEF Sourced
  <2> QED BY <1>0, <1>2, <2>1, <2>2 DEF ContentOf
<1>3. (\A y \in Executor : ~BackedFrom(a, y)) => Contents[a] = Null
  BY <1>0 DEF ContentOf
<1> QED BY <1>2, <1>3

LEMMA SeenHolds == IInv => Seen
BY IInvSourced, IInvOneSource, IInvSeenPlaces, IInvSeenContents DEF Seen

(* It holds after every step.                                              *)
LEMMA SeenNext == IInv' => Seen'
BY SeenHolds, PTL

-----------------------------------------------------------------------------
(* What a step leaves alone *)

(* The capability of b stays where it is. *)
StaysAt(b) ==
  /\ b \in issued' <=> b \in issued
  /\ \A f \in Executor : /\ HeldBy(f, b)' <=> HeldBy(f, b)
                         /\ OpenAt(f, b)' <=> OpenAt(f, b)
  /\ \A m \in Capability : m.p = b => (m \in pap' <=> m \in pap)

(* So does everything the tables, the heap and the daemons' requests say   *)
(* of b.                                                                   *)
SameAt(b) ==
  /\ StaysAt(b)
  /\ \A f \in Executor :
        /\ view'[f][b] = view[f][b]
        /\ Backs(f, b) => heap'[f][view[f][b].committed]
                            = heap[f][view[f][b].committed]
        /\ ResetPending(f, b)' <=> ResetPending(f, b)

(* A capability that stays is seen where it was.                           *)
LEMMA PlaceKept ==
  ASSUME IInv, IInv', NEW b \in Address, StaysAt(b)
  PROVE  /\ Places'[b] = Places[b]
         /\ \A f \in Executor : SentTo(f, b)' <=> SentTo(f, b)
<1>0. SeenPlaces /\ SeenPlaces' BY SeenHolds, SeenNext DEF Seen
<1>1. pap \subseteq Capability /\ pap' \subseteq Capability BY DEF IInv, TypeOK
<1>2. \A f \in Executor : SentTo(f, b)' <=> SentTo(f, b)
  BY <1>1 DEF StaysAt, SentTo
<1>3. ASSUME NEW f \in Executor, HeldBy(f, b) PROVE Places'[b] = Places[b]
  BY <1>0, <1>3 DEF SeenPlaces, StaysAt
<1>4. ASSUME NEW f \in Executor, OpenAt(f, b) PROVE Places'[b] = Places[b]
  BY <1>0, <1>4 DEF SeenPlaces, StaysAt
<1>5. ASSUME NEW f \in Executor, SentTo(f, b) PROVE Places'[b] = Places[b]
  BY <1>0, <1>2, <1>5 DEF SeenPlaces
<1>6. ASSUME \A f \in Executor : ~HeldBy(f, b) /\ ~OpenAt(f, b) /\ ~SentTo(f, b)
      PROVE  Places'[b] = Places[b]
  <2>1. Places[b] = IF b \in issued THEN Memory!Gone ELSE Memory!Unborn
    BY <1>0, <1>6 DEF SeenPlaces
  <2>2. Places'[b] = IF b \in issued' THEN Memory!Gone ELSE Memory!Unborn
    <3>1. \A f \in Executor : ~HeldBy(f, b)' /\ ~OpenAt(f, b)' /\ ~SentTo(f, b)'
      BY <1>2, <1>6 DEF StaysAt
    <3> QED BY <1>0, <3>1 DEF SeenPlaces
  <2> QED BY <2>1, <2>2 DEF StaysAt, Memory!Gone, Memory!Unborn
<1> QED BY <1>2, <1>3, <1>4, <1>5, <1>6

(* A location backed from the same author, whose block there has not       *)
(* changed, contains what it contained.                                    *)
LEMMA ContentKept ==
  ASSUME IInv, IInv', NEW b \in Address,
         \A y \in Executor : BackedFrom(b, y)' <=> BackedFrom(b, y),
         \A y \in Executor : BackedFrom(b, y) =>
            heap'[y][view'[y][b].committed] = heap[y][view[y][b].committed]
  PROVE  Contents'[b] = Contents[b]
<1>0. SeenContents /\ SeenContents' BY SeenHolds, SeenNext DEF Seen
<1>1. ASSUME NEW y \in Executor, BackedFrom(b, y) PROVE Contents'[b] = Contents[b]
  <2>1. Contents[b] = heap[y][view[y][b].committed]
    BY <1>0, <1>1 DEF SeenContents
  <2>2. Contents'[b] = heap'[y][view'[y][b].committed]
    BY <1>0, <1>1 DEF SeenContents
  <2> QED BY <1>1, <2>1, <2>2
<1>2. ASSUME \A y \in Executor : ~BackedFrom(b, y) PROVE Contents'[b] = Contents[b]
  BY <1>0, <1>2 DEF SeenContents
<1> QED BY <1>1, <1>2

(* A capability backed from the same author as before is backed from no    *)
(* other.                                                                  *)
LEMMA SameSource ==
  ASSUME IInv, IInv', NEW a \in Address, NEW y \in Executor,
         BackedFrom(a, y), BackedFrom(a, y)'
  PROVE  \A z \in Executor : BackedFrom(a, z)' <=> BackedFrom(a, z)
<1>1. OneSource /\ OneSource' BY SeenHolds, SeenNext DEF Seen
<1> QED BY <1>1 DEF OneSource

(* Nothing is seen of a step elsewhere.                                    *)
LEMMA Elsewhere ==
  ASSUME IInv, IInv', NEW b \in Address, SameAt(b)
  PROVE  /\ Places'[b] = Places[b] /\ Contents'[b] = Contents[b]
         /\ CoveredAt(b) => CoveredAt(b)'
<1>1. StaysAt(b) BY DEF SameAt
<1>2. pap \subseteq Capability /\ pap' \subseteq Capability BY DEF IInv, TypeOK
<1>3. \A y \in Executor : BackedFrom(b, y)' <=> BackedFrom(b, y)
  <2>1. \A y \in Executor : (\E m \in pap' : m.p = b /\ m.author = y) <=>
                            (\E m \in pap : m.p = b /\ m.author = y)
    BY <1>1, <1>2 DEF StaysAt
  <2>2. \A e \in Executor : /\ (HeldBy(e, b) \/ OpenAt(e, b))' <=>
                                HeldBy(e, b) \/ OpenAt(e, b)
                            /\ view'[e][b] = view[e][b]
    BY <1>1 DEF StaysAt, SameAt
  <2> QED BY <2>1, <2>2 DEF BackedFrom
<1>4. \A y \in Executor : Backs(y, b)' <=> Backs(y, b)
  BY DEF SameAt, Backs, Mapped
<1>5. \A y \in Executor : BackedFrom(b, y) =>
         heap'[y][view'[y][b].committed] = heap[y][view[y][b].committed]
  <2>1. Sourced BY SeenHolds DEF Seen
  <2> QED BY <2>1 DEF SameAt, Sourced
<1>6. Places'[b] = Places[b] BY <1>1, PlaceKept
<1>7. Contents'[b] = Contents[b] BY <1>3, <1>5, ContentKept
<1>8. CoveredAt(b) => CoveredAt(b)' BY <1>3, <1>4 DEF CoveredAt, SameAt
<1> QED BY <1>6, <1>7, <1>8

(* A step that concerns one address.                                       *)
LEMMA OneAddress ==
  ASSUME IInv, IInv', Covered, NEW a \in Address,
         \A b \in Address : b # a => SameAt(b),
         CoveredAt(a)'
  PROVE  /\ Places' = [Places EXCEPT ![a] = Places'[a]]
         /\ Contents' = [Contents EXCEPT ![a] = Contents'[a]]
         /\ Places'[a] = Places[a] => Places' = Places
         /\ Contents'[a] = Contents[a] => Contents' = Contents
         /\ Covered'
<1>1. \A b \in Address : b # a => /\ Places'[b] = Places[b]
                                  /\ Contents'[b] = Contents[b]
                                  /\ CoveredAt(b)'
  BY Elsewhere DEF Covered
<1>2. /\ Places = [b \in Address |-> Places[b]]
      /\ Places' = [b \in Address |-> Places'[b]]
      /\ Contents = [b \in Address |-> Contents[b]]
      /\ Contents' = [b \in Address |-> Contents'[b]]
  BY DEF Places, Contents
<1>3. Places' = [Places EXCEPT ![a] = Places'[a]] BY <1>1, <1>2
<1>4. Contents' = [Contents EXCEPT ![a] = Contents'[a]] BY <1>1, <1>2
<1>5. Places'[a] = Places[a] => Places' = Places BY <1>1, <1>2
<1>6. Contents'[a] = Contents[a] => Contents' = Contents BY <1>1, <1>2
<1>7. Covered' BY <1>1 DEF Covered
<1> QED BY <1>3, <1>4, <1>5, <1>6, <1>7

(* A step that changes what is seen of no address.                         *)
NothingSeen == Places' = Places /\ Contents' = Contents

LEMMA NoAddress ==
  ASSUME IInv, IInv', Covered, \A b \in Address : SameAt(b)
  PROVE  NothingSeen /\ Covered'
<1>1. \A b \in Address : /\ Places'[b] = Places[b]
                         /\ Contents'[b] = Contents[b]
                         /\ CoveredAt(b)'
  BY Elsewhere DEF Covered
<1>2. /\ Places = [b \in Address |-> Places[b]]
      /\ Places' = [b \in Address |-> Places'[b]]
      /\ Contents = [b \in Address |-> Contents[b]]
      /\ Contents' = [b \in Address |-> Contents'[b]]
  BY DEF Places, Contents
<1> QED BY <1>1, <1>2 DEF Covered, NothingSeen

-----------------------------------------------------------------------------
(* One lemma per action: the step of PrivateMemory it is, and that no      *)
(* memory is left behind                                                   *)

(* A handle on a fresh address creates the location.                       *)
LEMMA FreshCreates ==
  ASSUME IInv, IInv', Covered,
         NEW e \in Executor, NEW a \in FreshAddresses, NEW c \in Cell,
         MmapPrivate(e, a, c), Hold(e, a), parent[e][c] = Null,
         \A f \in Executor, d \in Cell : f # e \/ d # c => heap'[f][d] = heap[f][d],
         \A f \in Executor, d \in Cell : d \in uniq'[f] <=> d \in uniq[f] /\ (f # e \/ d # c),
         UNCHANGED <<pap, dmn>>
  PROVE  Memory!Create(e, a, heap'[e][c]) /\ Covered'
<1>0. TypeOK /\ Typed /\ Typed' /\ Unissued /\ Children /\ Seen /\ Seen'
  <2>1. Typed' BY TypeFacts, PTL DEF IInv
  <2> QED BY <2>1, TypeFacts, SeenHolds, SeenNext DEF IInv
<1>1. a \in Address /\ a \notin issued BY DEF FreshAddresses
<1>2. /\ \A f \in Executor : ~Mapped(f, a) /\ ~HeldBy(f, a) /\ ~SentTo(f, a)
      /\ \A f \in Executor, d \in Cell : parent[f][d] # a
      /\ \A f \in Executor : ~OpenAt(f, a)
  <2>1. \A f \in Executor : ~Mapped(f, a) /\ ~HeldBy(f, a) /\ ~SentTo(f, a)
    BY <1>0, <1>1 DEF Unissued, SentTo
  <2>2. \A f \in Executor, d \in Cell : parent[f][d] # a
    BY <2>1, <1>1, <1>0, ViewAssumption DEF Children, HasParent
  <2> QED BY <2>1, <2>2, <1>0 DEF OpenAt, Typed
<1>3. /\ issued' = issued \cup {a} /\ view'[e][a] # Null
      /\ view'[e][a].committed = c /\ view'[e][a].author = e
      /\ \A f \in Executor, b \in Address :
            f # e \/ b # a => view'[f][b] = view[f][b]
      /\ \A f \in Executor, d \in Cell :
            parent'[f][d] = IF f = e /\ d = c THEN a ELSE parent[f][d]
  BY <1>0, <1>1, MmapPrivateEffect
<1>4. \A f \in Executor, b \in Address :
         HeldBy(f, b)' <=> HeldBy(f, b) \/ (f = e /\ b = a)
  BY <1>0, <1>1 DEF Hold, HeldBy, TypeOK
<1>5. ASSUME NEW b \in Address, b # a PROVE SameAt(b)
  <2>1. ASSUME NEW f \in Executor PROVE OpenAt(f, b)' <=> OpenAt(f, b)
    <3>1. ASSUME OpenAt(f, b)' PROVE OpenAt(f, b)
      <4>1. PICK d \in uniq'[f] : parent'[f][d] = b BY <3>1 DEF OpenAt
      <4>2. d \in Cell BY <1>0, <4>1 DEF Typed
      <4> QED BY <4>1, <4>2, <1>3, <1>5 DEF OpenAt
    <3>2. ASSUME OpenAt(f, b) PROVE OpenAt(f, b)'
      <4>1. PICK d \in uniq[f] : parent[f][d] = b BY <3>2 DEF OpenAt
      <4>2. d \in Cell BY <1>0, <4>1 DEF Typed
      <4>3. f # e \/ d # c BY <4>1, <1>5, ViewAssumption
      <4> QED BY <4>1, <4>2, <4>3, <1>3 DEF OpenAt
    <3> QED BY <3>1, <3>2
  <2>2. ASSUME NEW f \in Executor, Backs(f, b)
        PROVE  heap'[f][view[f][b].committed] = heap[f][view[f][b].committed]
    <3> DEFINE d == view[f][b].committed
    <3>1. d \in Cell /\ parent[f][d] = b BY <2>2, BackedBlock
    <3> HIDE DEF d
    <3>2. f # e \/ d # c BY <3>1, ViewAssumption
    <3>3. heap'[f][d] = heap[f][d] BY <3>1, <3>2
    <3> QED BY <3>3 DEF d
  <2>3. StaysAt(b) BY <1>3, <1>4, <1>5, <2>1 DEF StaysAt
  <2>4. \A f \in Executor : ResetPending(f, b)' <=> ResetPending(f, b)
    BY DEF ResetPending
  <2> QED BY <1>3, <1>5, <2>2, <2>3, <2>4 DEF SameAt
<1>6. HeldBy(e, a)' /\ BackedFrom(a, e)' BY <1>1, <1>3, <1>4 DEF BackedFrom
<1>7. CoveredAt(a)'
  <2>1. \A f \in Executor : Backs(f, a)' => f = e
    BY <1>1, <1>2, <1>3 DEF Backs, Mapped
  <2> QED BY <2>1, <1>6 DEF CoveredAt
<1>8. Places[a] = Memory!Unborn
  BY <1>0, <1>1, <1>2 DEF Seen, SeenPlaces
<1>9. Places'[a] = Memory!At("held", e) BY <1>0, <1>1, <1>6 DEF Seen, SeenPlaces
<1>10. Contents'[a] = heap'[e][c]
  BY <1>0, <1>1, <1>3, <1>6 DEF Seen, SeenContents
<1>11. /\ Places' = [Places EXCEPT ![a] = Places'[a]]
       /\ Contents' = [Contents EXCEPT ![a] = Contents'[a]]
       /\ Covered'
  BY <1>1, <1>5, <1>7, OneAddress
<1> QED BY <1>8, <1>9, <1>10, <1>11 DEF Memory!Create

(* make_private creates a location with the initial value.                 *)
LEMMA MakeCreates ==
  ASSUME IInv, IInv', Covered, NEW e \in Executor, NEW v \in Value, Make(e, v)
  PROVE  Covered' /\ \E a \in Address : Memory!Create(e, a, v)
<1>0. TypeOK /\ Children BY DEF IInv
<1>1. PICK a \in FreshAddresses, c \in FreeCells(e) :
         /\ MmapPrivate(e, a, c)
         /\ heap' = [heap EXCEPT ![e][c] = v]
         /\ Hold(e, a)
  BY DEF Make
<1>2. c \in Cell /\ parent[e][c] = Null /\ a \in Address
  BY <1>0 DEF FreeCells, Children, HasParent, FreshAddresses
<1>3. c \notin uniq[e] BY <1>1 DEF IInv, Uniques, FreeCells
<1>4. UNCHANGED <<uniq, pap, dmn>> BY DEF Make, linkVars
<1>5. /\ heap'[e][c] = v
      /\ \A f \in Executor, d \in Cell : f # e \/ d # c => heap'[f][d] = heap[f][d]
  BY <1>0, <1>1, <1>2 DEF TypeOK, TableTypeOK
<1>6. \A f \in Executor, d \in Cell : d \in uniq'[f] <=> d \in uniq[f] /\ (f # e \/ d # c)
  BY <1>3, <1>4
<1>7. Memory!Create(e, a, heap'[e][c]) /\ Covered'
  BY <1>1, <1>2, <1>4, <1>5, <1>6, FreshCreates
<1> QED BY <1>2, <1>5, <1>7

(* make() creates a location with what the gam_unique_ptr pointed to.      *)
LEMMA AdoptCreates ==
  ASSUME IInv, IInv', Covered, NEW e \in Executor, NEW c \in Cell, Adopt(e, c)
  PROVE  Covered' /\ \E a \in Address, v \in Value : Memory!Create(e, a, v)
<1>0. TypeOK BY DEF IInv
<1>1. PICK a \in FreshAddresses : MmapPrivate(e, a, c) /\ Hold(e, a) BY DEF Adopt
<1>2. /\ parent[e][c] = Null /\ c \in uniq[e] /\ a \in Address
      /\ UNCHANGED <<heap, pap, dmn>>
  BY DEF Adopt, HasParent, linkVars, FreshAddresses
<1>3. \A f \in Executor, d \in Cell : f # e \/ d # c => heap'[f][d] = heap[f][d]
  BY <1>2
<1>4. heap'[e][c] \in Value
  <2>1. heap[e][c] # Null BY <1>2 DEF IInv, Uniques
  <2> QED BY <1>0, <1>2, <2>1 DEF TypeOK, TableTypeOK
<1>5. \A f \in Executor, d \in Cell : d \in uniq'[f] <=> d \in uniq[f] /\ (f # e \/ d # c)
  BY <1>0 DEF Adopt, Unpoint, TypeOK
<1>6. Memory!Create(e, a, heap'[e][c]) /\ Covered'
  BY <1>1, <1>2, <1>3, <1>5, FreshCreates
<1> QED BY <1>2, <1>4, <1>6

(* A block of make_gam_unique belongs to no location.                      *)
LEMMA MakeUniqueSilent ==
  ASSUME IInv, IInv', Covered, NEW e \in Executor, NEW v \in Value, MakeUnique(e, v)
  PROVE  NothingSeen /\ Covered'
<1>0. TypeOK /\ Typed /\ Children BY TypeFacts DEF IInv
<1>1. PICK c \in FreeCells(e) : heap' = [heap EXCEPT ![e][c] = v] /\ Point(e, c)
  BY DEF MakeUnique
<1>2. /\ c \in Cell /\ heap[e][c] = Null /\ parent[e][c] = Null
      /\ UNCHANGED <<issued, view, parent, pvt, pap, dmn>>
  BY <1>0 DEF FreeCells, Children, HasParent, MakeUnique, linkVars
<1>3. \A f \in Executor, d \in Cell : f # e \/ d # c => heap'[f][d] = heap[f][d]
  BY <1>0, <1>1, <1>2 DEF TypeOK, TableTypeOK
<1>4. \A f \in Executor : \A d : d \in uniq'[f] <=> d \in uniq[f] \/ (f = e /\ d = c)
  BY <1>0, <1>1, <1>2 DEF TypeOK, Point
<1>5. ASSUME NEW b \in Address PROVE SameAt(b)
  <2>1. \A f \in Executor : OpenAt(f, b)' <=> OpenAt(f, b)
    BY <1>2, <1>4, ViewAssumption DEF OpenAt
  <2>2. ASSUME NEW f \in Executor, Backs(f, b)
        PROVE  heap'[f][view[f][b].committed] = heap[f][view[f][b].committed]
    <3> DEFINE d == view[f][b].committed
    <3>1. d \in Cell /\ parent[f][d] = b BY <2>2, BackedBlock
    <3> HIDE DEF d
    <3>2. f # e \/ d # c BY <3>1, <1>2, ViewAssumption
    <3>3. heap'[f][d] = heap[f][d] BY <3>1, <3>2, <1>3
    <3> QED BY <3>3 DEF d
  <2>3. StaysAt(b) BY <1>2, <2>1 DEF StaysAt, HeldBy
  <2> QED BY <1>2, <2>2, <2>3 DEF SameAt, ResetPending
<1> QED BY <1>5, NoAddress

(* A write through a gam_unique_ptr changes the location it is the child   *)
(* of, if any.                                                             *)
LEMMA WriteWrites ==
  ASSUME IInv, IInv', Covered, NEW e \in Executor, NEW c \in Cell, NEW v \in Value,
         Write(e, c, v)
  PROVE  /\ Covered'
         /\ NothingSeen \/ \E a \in Address : Memory!Write(e, a, v)
<1>0. TypeOK /\ Typed /\ Seen /\ Seen'
  BY TypeFacts, SeenHolds, SeenNext DEF IInv
<1>1. /\ c \in uniq[e] /\ heap' = [heap EXCEPT ![e][c] = v]
      /\ UNCHANGED <<issued, view, parent, pvt, uniq, pap, dmn>>
  BY DEF Write, userVars, linkVars
<1>2. /\ heap'[e][c] = v
      /\ \A f \in Executor, d \in Cell : f # e \/ d # c => heap'[f][d] = heap[f][d]
  BY <1>0, <1>1 DEF TypeOK, TableTypeOK
<1>3. ASSUME NEW b \in Address PROVE StaysAt(b)
  BY <1>1 DEF StaysAt, HeldBy, OpenAt
<1>4. ASSUME NEW b \in Address, parent[e][c] # b PROVE SameAt(b)
  <2>1. ASSUME NEW f \in Executor, Backs(f, b)
        PROVE  heap'[f][view[f][b].committed] = heap[f][view[f][b].committed]
    <3> DEFINE d == view[f][b].committed
    <3>1. d \in Cell /\ parent[f][d] = b BY <2>1, BackedBlock
    <3> HIDE DEF d
    <3>2. f # e \/ d # c BY <3>1, <1>4
    <3>3. heap'[f][d] = heap[f][d] BY <3>1, <3>2, <1>2
    <3> QED BY <3>3 DEF d
  <2> QED BY <1>1, <1>3, <2>1 DEF SameAt, ResetPending
<1>5. CASE ~HasParent(e, c)
  <2>1. \A b \in Address : parent[e][c] # b BY <1>5, ViewAssumption DEF HasParent
  <2> QED BY <2>1, <1>4, NoAddress
<1>6. CASE HasParent(e, c)
  <2>1. PICK a \in Address : parent[e][c] = a BY <1>0, <1>6 DEF HasParent, Typed
  <2>2. OpenAt(e, a) BY <1>1, <2>1 DEF OpenAt
  <2>3. view[e][a].committed = c
    BY <1>1, <1>6, <2>1 DEF IInv, Uniques
  <2>4. BackedFrom(a, e)' /\ OpenAt(e, a)'
    BY <1>1, <2>2, OpenFacts DEF BackedFrom, OpenAt
  <2>5. CoveredAt(a)'
    <3>1. CoveredAt(a) BY DEF Covered
    <3> QED BY <3>1, <1>1 DEF CoveredAt, Backs, Mapped, BackedFrom, ResetPending,
                              HeldBy, OpenAt
  <2>6. /\ Places'[a] = Places[a] => Places' = Places
        /\ Contents' = [Contents EXCEPT ![a] = Contents'[a]] /\ Covered'
    BY <2>1, <2>5, <1>4, OneAddress
  <2>7. Places[a] = Memory!At("open", e) /\ Places'[a] = Memory!At("open", e)
    BY <2>2, <2>4, <1>0 DEF Seen, SeenPlaces
  <2>8. Contents'[a] = v
    BY <2>3, <2>4, <1>0, <1>1, <1>2 DEF Seen, SeenContents
  <2>9. Memory!Write(e, a, v) BY <2>6, <2>7, <2>8 DEF Memory!Write
  <2> QED BY <2>6, <2>9
<1> QED BY <1>5, <1>6

(* Steps of a user thread on its own tables, which it leaves alone: the    *)
(* capability of a goes from one place at e to another.                    *)
LEMMA TablesKept ==
  ASSUME IInv, IInv', Covered, NEW e \in Executor, NEW a \in Address,
         UNCHANGED <<issued, view, parent, heap, pap, dmn>>,
         \A f \in Executor, b \in Address :
            b # a => (HeldBy(f, b)' <=> HeldBy(f, b)) /\ (OpenAt(f, b)' <=> OpenAt(f, b)),
         HeldBy(e, a) \/ OpenAt(e, a), (HeldBy(e, a) \/ OpenAt(e, a))',
         \A f \in Executor : f # e =>
            (HeldBy(f, a)' <=> HeldBy(f, a)) /\ (OpenAt(f, a)' <=> OpenAt(f, a))
  PROVE  /\ Places' = [Places EXCEPT ![a] = Places'[a]] /\ Contents' = Contents
         /\ Covered'
<1>1. ASSUME NEW b \in Address, b # a PROVE SameAt(b)
  BY <1>1 DEF SameAt, StaysAt, ResetPending
<1>2. \A y \in Executor : BackedFrom(a, y)' <=> BackedFrom(a, y)
  BY DEF BackedFrom
<1>3. CoveredAt(a)'
  <2>1. CoveredAt(a) BY DEF Covered
  <2> QED BY <2>1, <1>2 DEF CoveredAt, Backs, Mapped, ResetPending
<1>4. Contents'[a] = Contents[a] BY <1>2, ContentKept
<1> QED BY <1>1, <1>3, <1>4, OneAddress

(* The constructor from a child closes the location.                       *)
LEMMA WriteBackCloses ==
  ASSUME IInv, IInv', Covered, NEW e \in Executor, NEW c \in Cell, WriteBack(e, c)
  PROVE  Covered' /\ \E a \in Address : Memory!Close(e, a)
<1>0. TypeOK /\ Typed /\ Children /\ Seen /\ Seen'
  BY TypeFacts, SeenHolds, SeenNext DEF IInv
<1>1. PICK a \in Address : parent[e][c] = a
  BY <1>0 DEF WriteBack, HasParent, Typed
<1>2. /\ c \in uniq[e] /\ Hold(e, a) /\ Unpoint(e, c)
      /\ UNCHANGED <<issued, view, parent, heap, pap, dmn>>
  BY <1>1 DEF WriteBack, tableVars, linkVars
<1>3. OpenAt(e, a) BY <1>1, <1>2 DEF OpenAt
<1>4. /\ \A f \in Executor, b \in Address :
            HeldBy(f, b)' <=> HeldBy(f, b) \/ (f = e /\ b = a)
      /\ \A f \in Executor : \A d : d \in uniq'[f] <=> d \in uniq[f] /\ (f # e \/ d # c)
  BY <1>0, <1>2 DEF Hold, Unpoint, HeldBy, TypeOK
<1>5. \A f \in Executor, b \in Address :
         f # e \/ b # a => (OpenAt(f, b)' <=> OpenAt(f, b))
  BY <1>1, <1>2, <1>4 DEF OpenAt
<1>6. HeldBy(e, a)' BY <1>4
<1>7. /\ Places' = [Places EXCEPT ![a] = Places'[a]] /\ Contents' = Contents
      /\ Covered'
  BY <1>2, <1>3, <1>4, <1>5, <1>6, TablesKept
<1>8. Places[a] = Memory!At("open", e) /\ Places'[a] = Memory!At("held", e)
  BY <1>0, <1>3, <1>6 DEF Seen, SeenPlaces
<1>9. Memory!Close(e, a) BY <1>7, <1>8 DEF Memory!Close, Memory!Move
<1> QED BY <1>7, <1>9

(* local() at the author opens the location.                               *)
LEMMA LocalAtHomeOpens ==
  ASSUME IInv, IInv', Covered, NEW e \in Executor, NEW a \in Address, LocalAtHome(e, a)
  PROVE  Covered' /\ Memory!Open(e, a)
<1> DEFINE c == view[e][a].committed
<1>0. TypeOK /\ Typed /\ Seen /\ Seen'
  BY TypeFacts, SeenHolds, SeenNext DEF IInv
<1>1. /\ HeldBy(e, a) /\ Backs(e, a) /\ Point(e, c) /\ Release(e, a)
      /\ UNCHANGED <<issued, view, parent, heap, pap, dmn>>
  BY DEF LocalAtHome, HeldBy, AmOwner, Backs, tableVars, linkVars
<1>2. c \in Cell /\ parent[e][c] = a BY <1>1, BackedBlock
<1> HIDE DEF c
<1>3. /\ \A f \in Executor, b \in Address :
            HeldBy(f, b)' <=> HeldBy(f, b) /\ (f # e \/ b # a)
      /\ \A f \in Executor : \A d : d \in uniq'[f] <=> d \in uniq[f] \/ (f = e /\ d = c)
  BY <1>0, <1>1, <1>2 DEF Point, Release, HeldBy, TypeOK
<1>4. \A f \in Executor, b \in Address :
         f # e \/ b # a => (OpenAt(f, b)' <=> OpenAt(f, b))
  BY <1>1, <1>2, <1>3 DEF OpenAt
<1>5. OpenAt(e, a)' BY <1>1, <1>2, <1>3 DEF OpenAt
<1>6. /\ Places' = [Places EXCEPT ![a] = Places'[a]] /\ Contents' = Contents
      /\ Covered'
  BY <1>1, <1>3, <1>4, <1>5, TablesKept
<1>7. Places[a] = Memory!At("held", e) /\ Places'[a] = Memory!At("open", e)
  BY <1>0, <1>1, <1>5 DEF Seen, SeenPlaces
<1> QED BY <1>6, <1>7 DEF Memory!Open, Memory!Move

-----------------------------------------------------------------------------
(* The actions that involve other executors *)

(* push() sends the capability; the memory stays, and so does the author.  *)
LEMMA PushSends ==
  ASSUME IInv, IInv', Covered, NEW e \in Executor, NEW a \in Address,
         NEW t \in Executor, <<e, t>> \in Routes, Push(e, a, t)
  PROVE  Covered' /\ Memory!Send(e, t, a)
<1> DEFINE x == view[e][a]
           n == [from |-> e, to |-> t, p |-> a, author |-> x.author]
<1>0. TypeOK /\ Typed /\ Seen /\ Seen'
  BY TypeFacts, SeenHolds, SeenNext DEF IInv
<1>1. /\ HeldBy(e, a) /\ x \in Entry /\ x.author \in Executor /\ e # t
      /\ pap' = pap \cup {n}
      /\ UNCHANGED <<issued, parent, heap, uniq, dmn>>
  BY <1>0, ApplicationAssumption DEF Push, HeldBy, AmOwner, Mapped, TypeOK,
     TableTypeOK, Typed, ApplicationAssumption
<1>2. /\ view'[e][a] = BindOwner(x, t)
      /\ \A f \in Executor, b \in Address : f # e \/ b # a => view'[f][b] = view[f][b]
  BY <1>0 DEF Push, TypeOK, TableTypeOK
<1>3. /\ view'[e][a] # Null /\ view'[e][a].committed = x.committed
      /\ view'[e][a].author = x.author
  <2>1. LET w == BindOwner(x, t)
        IN  w \in Entry /\ w.committed = x.committed /\ w.author = x.author
    BY <1>1, OwnerBound
  <2> QED BY <2>1, <1>2, ViewAssumption
<1>4. n.to = t /\ n.p = a /\ n.author = x.author OBVIOUS
<1> HIDE DEF n
<1>5. \A f \in Executor, b \in Address :
         HeldBy(f, b)' <=> HeldBy(f, b) /\ (f # e \/ b # a)
  BY <1>0 DEF Push, TypeOK, Release, HeldBy
<1>6. ASSUME NEW b \in Address, b # a PROVE SameAt(b)
  BY <1>1, <1>2, <1>4, <1>5, <1>6 DEF SameAt, StaysAt, OpenAt, ResetPending
<1>7. PICK y \in Executor : x.author = y BY <1>1
<1>8. \A z \in Executor : BackedFrom(a, z)' <=> BackedFrom(a, z)
  <2>1. BackedFrom(a, y) BY <1>1, <1>7 DEF BackedFrom
  <2>2. BackedFrom(a, y)' BY <1>1, <1>4, <1>7 DEF BackedFrom
  <2> QED BY <2>1, <2>2, SameSource
<1>9. \A z \in Executor : /\ view'[z][a].committed = view[z][a].committed
                          /\ Backs(z, a)' <=> Backs(z, a)
  BY <1>1, <1>2, <1>3, ViewAssumption DEF Backs, Mapped
<1>10. CoveredAt(a)'
  <2>1. CoveredAt(a) BY DEF Covered
  <2> QED BY <2>1, <1>1, <1>8, <1>9 DEF CoveredAt, ResetPending
<1>11. Contents'[a] = Contents[a] BY <1>1, <1>8, <1>9, ContentKept
<1>12. SentTo(t, a)' BY <1>1, <1>4 DEF SentTo
<1>13. Places[a] = Memory!At("held", e) /\ Places'[a] = Memory!At("sent", t)
  BY <1>0, <1>1, <1>12 DEF Seen, SeenPlaces
<1>14. /\ Places' = [Places EXCEPT ![a] = Places'[a]] /\ Contents' = Contents
       /\ Covered'
  BY <1>6, <1>10, <1>11, OneAddress
<1> QED BY <1>1, <1>13, <1>14 DEF Memory!Send, Memory!Move

(* pull_private receives the capability, with its author.                  *)
LEMMA PullReceives ==
  ASSUME IInv, IInv', Covered, NEW e \in Executor, NEW m \in pap, Pull(e, m)
  PROVE  Covered' /\ \E a \in Address : Memory!Receive(e, a)
<1>0. /\ TypeOK /\ Typed /\ Messages /\ Frontier /\ SoleCapability
      /\ Seen /\ Seen'
  BY TypeFacts, SeenHolds, SeenNext DEF IInv
<1>1. PICK a \in Address, y \in Executor : m.p = a /\ m.author = y
  BY <1>0 DEF Typed
<1>2. /\ m.to = e /\ pap' = pap \ {m} /\ Hold(e, a)
      /\ view' = [view EXCEPT ![e][a] = PulledEntry(e, m)]
      /\ UNCHANGED <<issued, parent, heap, uniq, dmn>>
  BY <1>1 DEF Pull
<1>3. ~Mapped(e, a) /\ BackedFrom(a, y)
  BY <1>0, <1>1, <1>2 DEF Messages, Frontier, BackedFrom
<1>4. PulledEntry(e, m) = [committed |-> Null, owner |-> e, author |-> y,
                           child |-> Null, access_level |-> "private"]
  BY <1>1, <1>3 DEF PulledEntry
<1>5. /\ view'[e][a].committed = Null /\ view'[e][a].author = y
      /\ \A f \in Executor, b \in Address : f # e \/ b # a => view'[f][b] = view[f][b]
  <2>1. view'[e][a] = PulledEntry(e, m) BY <1>0, <1>2 DEF TypeOK, TableTypeOK
  <2>2. \A f \in Executor, b \in Address : f # e \/ b # a => view'[f][b] = view[f][b]
    BY <1>0, <1>2 DEF TypeOK, TableTypeOK
  <2> QED BY <2>1, <2>2, <1>4
<1>6. \A f \in Executor, b \in Address :
         HeldBy(f, b)' <=> HeldBy(f, b) \/ (f = e /\ b = a)
  BY <1>0, <1>2 DEF Hold, TypeOK, HeldBy
<1>7. ASSUME NEW b \in Address, b # a PROVE SameAt(b)
  BY <1>1, <1>2, <1>5, <1>6, <1>7 DEF SameAt, StaysAt, OpenAt, ResetPending
<1>8. HeldBy(e, a)' /\ BackedFrom(a, y)' BY <1>5, <1>6 DEF BackedFrom
<1>9. \A z \in Executor : BackedFrom(a, z)' <=> BackedFrom(a, z)
  BY <1>3, <1>8, SameSource
<1>10. \A z \in Executor : Backs(z, a)' <=> Backs(z, a)
  BY <1>3, <1>5 DEF Backs, Mapped
<1>11. CoveredAt(a)'
  <2>1. CoveredAt(a) BY DEF Covered
  <2> QED BY <2>1, <1>2, <1>9, <1>10 DEF CoveredAt, ResetPending
<1>12. Contents'[a] = Contents[a]
  <2>1. ASSUME NEW z \in Executor, BackedFrom(a, z)
        PROVE  heap'[z][view'[z][a].committed] = heap[z][view[z][a].committed]
    <3>1. Backs(z, a) BY <1>0, <2>1 DEF Seen, Sourced
    <3>2. z # e BY <3>1, <1>3 DEF Backs
    <3> QED BY <3>2, <1>2, <1>5
  <2> QED BY <2>1, <1>9, ContentKept
<1>13. Places[a] = Memory!At("sent", e) /\ Places'[a] = Memory!At("held", e)
  <2>1. SentTo(e, a) BY <1>1, <1>2 DEF SentTo
  <2> QED BY <2>1, <1>0, <1>8 DEF Seen, SeenPlaces
<1>14. /\ Places' = [Places EXCEPT ![a] = Places'[a]] /\ Contents' = Contents
       /\ Covered'
  BY <1>7, <1>11, <1>12, OneAddress
<1>15. Memory!Receive(e, a) BY <1>13, <1>14 DEF Memory!Receive, Memory!Move
<1> QED BY <1>14, <1>15

(* withdraw() allocates the child and asks for the memory: an application  *)
(* sees nothing of it.                                                     *)
LEMMA LocalRequestSilent ==
  ASSUME IInv, IInv', Covered, NEW e \in Executor, NEW a \in Address,
         LocalRequest(e, a)
  PROVE  NothingSeen /\ Covered'
<1> DEFINE x == view[e][a]
<1>0. TypeOK /\ Typed /\ Children /\ Uniques /\ Seen
  BY TypeFacts, SeenHolds DEF IInv
<1>1. /\ HeldBy(e, a) /\ x \in Entry /\ x # Null /\ x.committed = Null
      /\ UNCHANGED <<issued, pvt, uniq, pap>>
  BY <1>0 DEF LocalRequest, HeldBy, AmOwner, Mapped, Typed
<1>2. PICK c \in FreeCells(e) :
         /\ heap' = [heap EXCEPT ![e][c] = Default]
         /\ parent' = [parent EXCEPT ![e][c] = a]
         /\ view' = [view EXCEPT ![e][a] = BindChild(@, c)]
  BY DEF LocalRequest
<1>3. c \in Cell /\ heap[e][c] = Null /\ c \notin uniq[e]
  BY <1>0 DEF FreeCells, Uniques
<1>4. /\ \A f \in Executor, d \in Cell : f # e \/ d # c => heap'[f][d] = heap[f][d]
      /\ \A f \in Executor, d \in Cell :
            f # e \/ d # c => parent'[f][d] = parent[f][d]
  BY <1>0, <1>2, <1>3 DEF TypeOK, TableTypeOK
<1>5. \A f \in Executor, b \in Address : f # e \/ b # a => view'[f][b] = view[f][b]
  BY <1>0, <1>2 DEF TypeOK, TableTypeOK
<1>6. /\ view'[e][a] # Null /\ view'[e][a].committed = Null
      /\ view'[e][a].author = x.author
  <2>1. view'[e][a] = BindChild(x, c) BY <1>0, <1>2 DEF TypeOK, TableTypeOK
  <2> QED BY <2>1, <1>1, <1>3, ChildBound, ViewAssumption
<1>7. \A f \in Executor, b \in Address : /\ HeldBy(f, b)' <=> HeldBy(f, b)
                                         /\ OpenAt(f, b)' <=> OpenAt(f, b)
  <2>1. \A f \in Executor, b \in Address : OpenAt(f, b)' <=> OpenAt(f, b)
    BY <1>0, <1>1, <1>3, <1>4 DEF OpenAt, Typed
  <2> QED BY <2>1, <1>1 DEF HeldBy
<1>8. \A b \in Address : StaysAt(b) BY <1>1, <1>7 DEF StaysAt
<1>9. \A f \in Executor, b \in Address : ResetPending(f, b)' <=> ResetPending(f, b)
  <2>1. dmn' = dmn \cup {RequestTo("RLOAD", e, a)} BY DEF LocalRequest
  <2>2. RequestTo("RLOAD", e, a).op # "PVT_RESET" BY DEF RequestTo
  <2> QED BY <2>1, <2>2 DEF ResetPending
<1>10. ASSUME NEW f \in Executor, NEW b \in Address, Backs(f, b)
       PROVE  heap'[f][view[f][b].committed] = heap[f][view[f][b].committed]
  <2> DEFINE d == view[f][b].committed
  <2>1. d \in Cell /\ heap[f][d] # Null BY <1>10, BackedBlock, ViewAssumption
  <2> HIDE DEF d
  <2>2. heap'[f][d] = heap[f][d] BY <2>1, <1>3, <1>4
  <2> QED BY <2>2 DEF d
<1>11. ASSUME NEW b \in Address, b # a PROVE SameAt(b)
  BY <1>5, <1>8, <1>9, <1>10, <1>11 DEF SameAt
<1>12. \A z \in Executor : /\ BackedFrom(a, z)' <=> BackedFrom(a, z)
                           /\ Backs(z, a)' <=> Backs(z, a)
  BY <1>1, <1>5, <1>6, <1>7 DEF BackedFrom, Backs, Mapped
<1>13. CoveredAt(a)'
  <2>1. CoveredAt(a) BY DEF Covered
  <2> QED BY <2>1, <1>9, <1>12 DEF CoveredAt
<1>14. Places'[a] = Places[a] BY <1>8, PlaceKept
<1>15. Contents'[a] = Contents[a]
  <2>1. ASSUME NEW z \in Executor, BackedFrom(a, z)
        PROVE  heap'[z][view'[z][a].committed] = heap[z][view[z][a].committed]
    <3>1. Backs(z, a) BY <1>0, <2>1 DEF Seen, Sourced
    <3>2. z # e BY <3>1, <1>1 DEF Backs
    <3> QED BY <3>1, <3>2, <1>5, <1>10
  <2> QED BY <2>1, <1>12, ContentKept
<1> QED BY <1>11, <1>13, <1>14, <1>15, OneAddress DEF NothingSeen

(* The answer to a remote load opens the location, with the content it     *)
(* had at the author.                                                      *)
LEMMA LocalAnswerOpens ==
  ASSUME IInv, IInv', Covered, NEW e \in Executor, NEW s \in mem,
         LocalAnswer(e, s)
  PROVE  Covered' /\ \E a \in Address : Memory!Open(e, a)
<1>0. /\ TypeOK /\ Typed /\ Waiting /\ Handles /\ Seen /\ Seen'
  BY TypeFacts, SeenHolds, SeenNext DEF IInv
<1>1. /\ ~Running(e) /\ s.to = e /\ s.from = fwd[e].to BY DEF LocalAnswer
<1>2. PICK a \in Address, c \in Cell, y \in Executor :
         fwd[e].p = a /\ fwd[e].lp = c /\ fwd[e].to = y
  BY <1>0, <1>1 DEF Typed
<1>3. /\ HeldBy(e, a) /\ view[e][a].author = y /\ y # e
      /\ parent[e][c] = a /\ Backs(y, a)
      /\ s.value = heap[y][view[y][a].committed]
  <2>1. /\ HeldBy(e, a) /\ view[e][a].author = y /\ y # e
        /\ parent[e][c] = a
    BY <1>0, <1>1, <1>2 DEF Waiting
  <2>2. LET b == fwd[s.to].p
        IN  Backs(s.from, b) /\ s.value = heap[s.from][view[s.from][b].committed]
    BY LoadedBlock
  <2> QED BY <2>1, <2>2, <1>1, <1>2
<1> DEFINE x == view[e][a]
           n == [op |-> "PVT_RESET", from |-> e, to |-> y, p |-> a]
<1>4. /\ heap' = [heap EXCEPT ![e][c] = s.value]
      /\ view' = [view EXCEPT ![e][a] = BindAuthor(BindCommitted(@, c), e)]
      /\ dmn' = dmn \cup {n} /\ Point(e, c) /\ Release(e, a)
      /\ UNCHANGED <<issued, parent, pap>>
  BY <1>2 DEF LocalAnswer
<1>5. n.op = "PVT_RESET" /\ n.to = y /\ n.p = a OBVIOUS
<1> HIDE DEF n
<1>6. /\ heap'[e][c] = s.value
      /\ \A f \in Executor, d \in Cell : f # e \/ d # c => heap'[f][d] = heap[f][d]
  BY <1>0, <1>4 DEF TypeOK, TableTypeOK
<1>7. \A f \in Executor, b \in Address : f # e \/ b # a => view'[f][b] = view[f][b]
  BY <1>0, <1>4 DEF TypeOK, TableTypeOK
<1>8. view'[e][a].committed = c /\ view'[e][a].author = e
  <2>1. x \in Entry BY <1>0, <1>3 DEF Handles, HeldBy, AmOwner, Typed
  <2>2. BindCommitted(x, c) \in Entry /\ BindCommitted(x, c).committed = c
    BY <2>1, CommittedBound
  <2>3. LET z == BindAuthor(BindCommitted(x, c), e)
        IN  z.committed = c /\ z.author = e
    BY <2>2, AuthorBound
  <2>4. view'[e][a] = BindAuthor(BindCommitted(x, c), e)
    BY <1>0, <1>4 DEF TypeOK, TableTypeOK
  <2> QED BY <2>3, <2>4
<1>9. /\ \A f \in Executor, b \in Address :
            HeldBy(f, b)' <=> HeldBy(f, b) /\ (f # e \/ b # a)
      /\ \A f \in Executor : \A d : d \in uniq'[f] <=> d \in uniq[f] \/ (f = e /\ d = c)
  BY <1>0, <1>4 DEF TypeOK, HeldBy, Release, Point
<1>10. \A f \in Executor, b \in Address :
          f # e \/ b # a => (OpenAt(f, b)' <=> OpenAt(f, b))
  BY <1>3, <1>4, <1>9 DEF OpenAt
<1>11. OpenAt(e, a)' BY <1>3, <1>4, <1>9 DEF OpenAt
<1>12. \A f \in Executor, b \in Address :
          ResetPending(f, b)' <=> ResetPending(f, b) \/ (f = y /\ b = a)
  BY <1>4, <1>5 DEF ResetPending
<1>13. ASSUME NEW b \in Address, b # a PROVE SameAt(b)
  <2>1. StaysAt(b) BY <1>4, <1>9, <1>10, <1>13 DEF StaysAt
  <2>2. ASSUME NEW f \in Executor, Backs(f, b)
        PROVE  heap'[f][view[f][b].committed] = heap[f][view[f][b].committed]
    <3> DEFINE d == view[f][b].committed
    <3>1. d \in Cell /\ parent[f][d] = b BY <2>2, BackedBlock
    <3> HIDE DEF d
    <3>2. f # e \/ d # c BY <3>1, <1>3, <1>13
    <3>3. heap'[f][d] = heap[f][d] BY <3>1, <3>2, <1>6
    <3> QED BY <3>3 DEF d
  <2> QED BY <2>1, <2>2, <1>7, <1>12, <1>13 DEF SameAt
<1>14. BackedFrom(a, y) /\ BackedFrom(a, e)'
  BY <1>3, <1>8, <1>11 DEF BackedFrom
<1>15. CoveredAt(a)'
  <2> SUFFICES ASSUME NEW z \in Executor, Backs(z, a)'
               PROVE  BackedFrom(a, z)' \/ ResetPending(z, a)'
    BY DEF CoveredAt
  <2>1. CASE z = e BY <2>1, <1>14
  <2>2. CASE z # e
    <3>1. Backs(z, a) BY <2>2, <1>7 DEF Backs, Mapped
    <3>2. BackedFrom(a, z) \/ ResetPending(z, a) BY <3>1 DEF Covered, CoveredAt
    <3>3. BackedFrom(a, z) => z = y BY <1>0, <1>14 DEF Seen, OneSource
    <3> QED BY <3>2, <3>3, <1>12
  <2> QED BY <2>1, <2>2
<1>16. Contents'[a] = Contents[a]
  <2>1. Contents[a] = s.value BY <1>0, <1>3, <1>14 DEF Seen, SeenContents
  <2>2. Contents'[a] = s.value
    BY <1>0, <1>6, <1>8, <1>14 DEF Seen, SeenContents
  <2> QED BY <2>1, <2>2
<1>17. Places[a] = Memory!At("held", e) /\ Places'[a] = Memory!At("open", e)
  BY <1>0, <1>3, <1>11 DEF Seen, SeenPlaces
<1>18. /\ Places' = [Places EXCEPT ![a] = Places'[a]] /\ Contents' = Contents
       /\ Covered'
  BY <1>13, <1>15, <1>16, OneAddress
<1>19. Memory!Open(e, a) BY <1>17, <1>18 DEF Memory!Open, Memory!Move
<1> QED BY <1>18, <1>19

(* What unmap at e leaves alone, when the child there, if it is open,      *)
(* disappears with it.                                                     *)
LEMMA UnmapElsewhere ==
  ASSUME IInv, NEW e \in Executor, NEW a \in Address,
         Backs(e, a), Unmap(e, a),
         \A f \in Executor, b \in Address :
            b # a => (HeldBy(f, b)' <=> HeldBy(f, b)),
         \A f \in Executor, d \in Cell :
            d \in uniq'[f] <=> d \in uniq[f] /\ (f # e \/ d # view[e][a].committed),
         uniq' \in [Executor -> SUBSET Cell],
         \A f \in Executor, b \in Address :
            b # a => (ResetPending(f, b)' <=> ResetPending(f, b)),
         UNCHANGED pap
  PROVE  /\ \A b \in Address : b # a => SameAt(b)
         /\ \A f \in Executor : /\ Backs(f, a)' <=> Backs(f, a) /\ f # e
                                /\ OpenAt(f, a)' <=> OpenAt(f, a) /\ f # e
                                /\ f # e => view'[f][a] = view[f][a]
         /\ \A f \in Executor, d \in Cell : f # e => heap'[f][d] = heap[f][d]
         /\ UNCHANGED issued
<1> DEFINE c == view[e][a].committed
<1>0. TypeOK /\ Typed /\ Entries /\ Children BY TypeFacts DEF IInv
<1>1. /\ c \in Cell /\ parent[e][c] = a /\ issued' = issued
      /\ \A f \in Executor, b \in Address :
            view'[f][b] = IF f = e /\ b = a THEN Null ELSE view[f][b]
      /\ \A f \in Executor, d \in Cell :
            parent'[f][d] = IF f = e /\ d = c THEN Null ELSE parent[f][d]
      /\ \A f \in Executor, d \in Cell :
            heap'[f][d] = IF f = e /\ d = c THEN Null ELSE heap[f][d]
  BY <1>0, UnmapEffect
<1>2. \A d \in Cell : parent[e][d] = a => d = c
  <2>1. view[e][a].child = c BY <1>0 DEF Entries, Backs
  <2> QED BY <2>1, <1>0, ViewAssumption DEF Children, HasParent
<1>3. \A f \in Executor, d \in Cell :
         d \in uniq'[f] <=> d \in uniq[f] /\ (f # e \/ d # c)
  OBVIOUS
<1> HIDE DEF c
<1>4. ASSUME NEW f \in Executor, NEW b \in Address
      PROVE  OpenAt(f, b)' <=> OpenAt(f, b) /\ (f # e \/ b # a)
  <2>1. ASSUME OpenAt(f, b)' PROVE OpenAt(f, b) /\ (f # e \/ b # a)
    <3>1. PICK d \in uniq'[f] : parent'[f][d] = b BY <2>1 DEF OpenAt
    <3>2. d \in Cell /\ d \in uniq[f] /\ (f # e \/ d # c) BY <3>1, <1>3
    <3>3. parent[f][d] = b BY <3>1, <3>2, <1>1
    <3> QED BY <3>2, <3>3, <1>2 DEF OpenAt
  <2>2. ASSUME OpenAt(f, b), f # e \/ b # a PROVE OpenAt(f, b)'
    <3>1. PICK d \in uniq[f] : parent[f][d] = b BY <2>2 DEF OpenAt
    <3>2. d \in Cell BY <3>1, <1>0 DEF Typed
    <3>3. f # e \/ d # c BY <3>1, <2>2, <1>1
    <3>4. d \in uniq'[f] /\ parent'[f][d] = b BY <3>1, <3>2, <3>3, <1>1, <1>3
    <3> QED BY <3>4 DEF OpenAt
  <2> QED BY <2>1, <2>2
<1>5. ASSUME NEW b \in Address, b # a PROVE SameAt(b)
  <2>1. StaysAt(b) BY <1>1, <1>4, <1>5 DEF StaysAt
  <2>2. ASSUME NEW f \in Executor, Backs(f, b)
        PROVE  heap'[f][view[f][b].committed] = heap[f][view[f][b].committed]
    <3> DEFINE d == view[f][b].committed
    <3>1. d \in Cell /\ parent[f][d] = b BY <2>2, BackedBlock
    <3> HIDE DEF d
    <3>2. f # e \/ d # c BY <3>1, <1>1, <1>5
    <3>3. heap'[f][d] = heap[f][d] BY <3>1, <3>2, <1>1
    <3> QED BY <3>3 DEF d
  <2> QED BY <2>1, <2>2, <1>1, <1>5 DEF SameAt
<1>6. \A f \in Executor : Backs(f, a)' <=> Backs(f, a) /\ f # e
  BY <1>1 DEF Backs, Mapped
<1> QED BY <1>1, <1>4, <1>5, <1>6

(* A location nobody has the capability of any more is destroyed.          *)
LEMMA Destroys ==
  ASSUME IInv, IInv', Covered, NEW e \in Executor, NEW a \in Address,
         HeldBy(e, a) \/ OpenAt(e, a),
         \A f \in Executor : ~HeldBy(f, a)' /\ ~OpenAt(f, a)',
         UNCHANGED <<issued, pap>>,
         \A b \in Address : b # a => SameAt(b),
         CoveredAt(a)'
  PROVE  Covered' /\ Memory!Destroy(e, a)
<1>0. Typed /\ Unissued /\ SoleCapability /\ Children /\ Seen /\ Seen'
  BY TypeFacts, SeenHolds, SeenNext DEF IInv
<1>1. \A m \in pap : m.p # a
  BY <1>0 DEF SoleCapability, SentTo, Typed
<1>2. a \in issued
  <2>1. Mapped(e, a)
    <3>1. CASE HeldBy(e, a) BY <3>1 DEF IInv, Handles, HeldBy, AmOwner
    <3>2. CASE OpenAt(e, a) BY <3>2, OpenFacts DEF Backs
    <3> QED BY <3>1, <3>2
  <2> QED BY <2>1, <1>0 DEF Unissued
<1>3. Places'[a] = Memory!Gone
  <2>1. \A f \in Executor : ~SentTo(f, a)' BY <1>1 DEF SentTo
  <2> QED BY <2>1, <1>0, <1>2 DEF Seen, SeenPlaces
<1>4. Contents'[a] = Null
  <2>1. \A y \in Executor : ~BackedFrom(a, y)' BY <1>1 DEF BackedFrom
  <2> QED BY <2>1, <1>0 DEF Seen, SeenContents
<1>5. Places[a] \in {Memory!At("held", e), Memory!At("open", e)}
  BY <1>0 DEF Seen, SeenPlaces
<1>6. /\ Places' = [Places EXCEPT ![a] = Places'[a]]
      /\ Contents' = [Contents EXCEPT ![a] = Contents'[a]] /\ Covered'
  BY OneAddress
<1> QED BY <1>3, <1>4, <1>5, <1>6 DEF Memory!Destroy

(* The destructor of a gam_unique_ptr destroys the location it is the      *)
(* child of, if any.                                                       *)
LEMMA DropUniqueDestroys ==
  ASSUME IInv, IInv', Covered, NEW e \in Executor, NEW c \in Cell, DropUnique(e, c)
  PROVE  Covered' /\ (NothingSeen \/ \E a \in Address : Memory!Destroy(e, a))
<1>0. TypeOK /\ Typed /\ Uniques /\ SoleCapability
  BY TypeFacts DEF IInv
<1>1. c \in uniq[e] /\ Unpoint(e, c) /\ UNCHANGED <<pvt, pap, dmn>>
  BY DEF DropUnique, linkVars
<1>2. /\ uniq' \in [Executor -> SUBSET Cell]
      /\ \A f \in Executor, d \in Cell : d \in uniq'[f] <=> d \in uniq[f] /\ (f # e \/ d # c)
  BY <1>0, <1>1 DEF TypeOK, Unpoint
<1>3. CASE ~HasParent(e, c)
  <2>1. /\ parent[e][c] = Null /\ heap' = [heap EXCEPT ![e][c] = Null]
        /\ UNCHANGED <<issued, view, parent>>
    BY <1>3 DEF DropUnique, HasParent
  <2>2. \A f \in Executor, d \in Cell : f # e \/ d # c => heap'[f][d] = heap[f][d]
    BY <1>0, <2>1 DEF TypeOK, TableTypeOK
  <2>3. ASSUME NEW b \in Address PROVE SameAt(b)
    <3>1. \A f \in Executor : OpenAt(f, b)' <=> OpenAt(f, b)
      <4>1. \A f \in Executor : uniq[f] \subseteq Cell /\ uniq'[f] \subseteq Cell
        BY <1>0, <1>2 DEF Typed
      <4> QED BY <4>1, <1>2, <2>1, ViewAssumption DEF OpenAt
    <3>2. ASSUME NEW f \in Executor, Backs(f, b)
          PROVE  heap'[f][view[f][b].committed] = heap[f][view[f][b].committed]
      <4> DEFINE d == view[f][b].committed
      <4>1. d \in Cell /\ parent[f][d] = b BY <3>2, BackedBlock
      <4> HIDE DEF d
      <4>2. f # e \/ d # c BY <4>1, <2>1, ViewAssumption
      <4>3. heap'[f][d] = heap[f][d] BY <4>1, <4>2, <2>2
      <4> QED BY <4>3 DEF d
    <3>3. StaysAt(b) BY <1>1, <2>1, <3>1 DEF StaysAt, HeldBy
    <3> QED BY <1>1, <2>1, <3>2, <3>3 DEF SameAt, ResetPending
  <2> QED BY <2>3, NoAddress
<1>4. CASE HasParent(e, c)
  <2>1. PICK a \in Address : parent[e][c] = a BY <1>0, <1>4 DEF HasParent, Typed
  <2>2. Unmap(e, a) BY <1>4, <2>1 DEF DropUnique
  <2>3. OpenAt(e, a) BY <1>1, <2>1 DEF OpenAt
  <2>4. Backs(e, a) BY <2>3, OpenFacts
  <2>5. view[e][a].committed = c BY <1>0, <1>1, <1>4, <2>1 DEF Uniques
  <2>6. /\ \A b \in Address : b # a => SameAt(b)
        /\ \A f \in Executor : /\ Backs(f, a)' <=> Backs(f, a) /\ f # e
                               /\ OpenAt(f, a)' <=> OpenAt(f, a) /\ f # e
        /\ UNCHANGED issued
    <3>1. \A f \in Executor, b \in Address :
             /\ HeldBy(f, b)' <=> HeldBy(f, b)
             /\ ResetPending(f, b)' <=> ResetPending(f, b)
      BY <1>1 DEF HeldBy, ResetPending
    <3>2. \A f \in Executor, d \in Cell :
             d \in uniq'[f] <=> d \in uniq[f] /\ (f # e \/ d # view[e][a].committed)
      BY <1>2, <2>5
    <3> QED BY <1>1, <1>2, <2>2, <2>4, <3>1, <3>2, UnmapElsewhere
  <2>7. \A f \in Executor : ~HeldBy(f, a) /\ (OpenAt(f, a) => f = e)
    BY <1>0, <2>3 DEF SoleCapability
  <2>8. \A f \in Executor : ~HeldBy(f, a)' /\ ~OpenAt(f, a)'
    BY <1>1, <2>6, <2>7 DEF HeldBy
  <2>9. CoveredAt(a)'
    <3> SUFFICES ASSUME NEW z \in Executor, Backs(z, a)' PROVE ResetPending(z, a)'
      BY DEF CoveredAt
    <3>1. Backs(z, a) /\ z # e BY <2>6
    <3>2. ~BackedFrom(a, z)
      <4>1. BackedFrom(a, e) BY <2>3, OpenFacts DEF BackedFrom
      <4> QED BY <4>1, <3>1, SeenHolds DEF Seen, OneSource
    <3>3. ResetPending(z, a) BY <3>1, <3>2 DEF Covered, CoveredAt
    <3> QED BY <3>3, <1>1 DEF ResetPending
  <2>10. Covered' /\ Memory!Destroy(e, a)
    BY <1>1, <2>3, <2>6, <2>8, <2>9, Destroys
  <2> QED BY <2>10
<1> QED BY <1>3, <1>4

(* reset() destroys the location: at the author at once, elsewhere the     *)
(* memory is left to the release it sends.                                 *)
LEMMA DropDestroys ==
  ASSUME IInv, IInv', Covered, NEW e \in Executor, NEW a \in Address, Drop(e, a)
  PROVE  Covered' /\ Memory!Destroy(e, a)
<1>0. TypeOK /\ Typed /\ Handles /\ SoleCapability /\ Seen
  BY TypeFacts, SeenHolds DEF IInv
<1>1. HeldBy(e, a) /\ Mapped(e, a) /\ Release(e, a) /\ UNCHANGED <<uniq, pap>>
  BY DEF Drop, HeldBy
<1>2. PICK y \in Executor : view[e][a].author = y BY <1>0, <1>1 DEF Typed
<1>3. BackedFrom(a, y) BY <1>1, <1>2 DEF BackedFrom
<1>4. \A f \in Executor, b \in Address :
         HeldBy(f, b)' <=> HeldBy(f, b) /\ (f # e \/ b # a)
  BY <1>0, <1>1 DEF Release, TypeOK, HeldBy
<1>5. \A f \in Executor : ~HeldBy(f, a)' /\ ~OpenAt(f, a)
  BY <1>0, <1>1, <1>4 DEF SoleCapability
<1>6. \A z \in Executor : Backs(z, a) => z = y \/ ResetPending(z, a)
  BY <1>0, <1>3 DEF Seen, OneSource, Covered, CoveredAt
<1>7. CASE AmAuthor(e, a)
  <2>1. Unmap(e, a) /\ dmn' = dmn /\ y = e
    BY <1>2, <1>7 DEF Drop, AmAuthor
  <2>2. Backs(e, a) BY <1>0, <1>3, <2>1 DEF Seen, Sourced
  <2>3. \A f \in Executor, d \in Cell :
           d \in uniq'[f] <=> d \in uniq[f] /\ (f # e \/ d # view[e][a].committed)
    <3>1. parent[e][view[e][a].committed] = a BY <2>2, BackedBlock
    <3>2. view[e][a].committed \notin uniq[e] BY <3>1, <1>5 DEF OpenAt
    <3> QED BY <3>2, <1>1
  <2>4. uniq' \in [Executor -> SUBSET Cell] BY <1>0, <1>1 DEF TypeOK
  <2>5. \A f \in Executor, b \in Address : ResetPending(f, b)' <=> ResetPending(f, b)
    BY <2>1 DEF ResetPending
  <2>6. /\ \A b \in Address : b # a => SameAt(b)
        /\ \A f \in Executor : /\ Backs(f, a)' <=> Backs(f, a) /\ f # e
                               /\ OpenAt(f, a)' <=> OpenAt(f, a) /\ f # e
        /\ UNCHANGED issued
    BY <1>1, <1>4, <2>1, <2>2, <2>3, <2>4, <2>5, UnmapElsewhere
  <2>7. CoveredAt(a)' BY <1>6, <2>1, <2>5, <2>6 DEF CoveredAt
  <2> QED BY <1>1, <1>5, <2>6, <2>7, Destroys
<1>8. CASE ~AmAuthor(e, a)
  <2> DEFINE n == RequestTo("PVT_RESET", e, a)
  <2>1. dmn' = dmn \cup {n} /\ UNCHANGED <<issued, view, parent, heap>>
    BY <1>8 DEF Drop, tableVars
  <2>2. n.op = "PVT_RESET" /\ n.to = y /\ n.p = a BY <1>2 DEF RequestTo
  <2> HIDE DEF n
  <2>3. \A f \in Executor, b \in Address :
           ResetPending(f, b)' <=> ResetPending(f, b) \/ (f = y /\ b = a)
    BY <2>1, <2>2 DEF ResetPending
  <2>4. \A f \in Executor, b \in Address : /\ OpenAt(f, b)' <=> OpenAt(f, b)
                                           /\ Backs(f, b)' <=> Backs(f, b)
    BY <1>1, <2>1 DEF OpenAt, Backs, Mapped
  <2>5. ASSUME NEW b \in Address, b # a PROVE SameAt(b)
    BY <1>1, <1>4, <2>1, <2>3, <2>4, <2>5 DEF SameAt, StaysAt
  <2>6. CoveredAt(a)' BY <1>6, <2>3, <2>4 DEF CoveredAt
  <2>7. \A f \in Executor : ~OpenAt(f, a)' BY <1>5, <2>4
  <2> QED BY <1>1, <1>5, <2>1, <2>5, <2>6, <2>7, Destroys
<1> QED BY <1>7, <1>8

(* The RLOAD handler reads.                                                *)
LEMMA DmnRloadSilent ==
  ASSUME IInv, IInv', Covered, NEW r \in dmn, DmnRload(r)
  PROVE  NothingSeen /\ Covered'
<1>1. /\ r.op = "RLOAD" /\ dmn' = dmn \ {r}
      /\ UNCHANGED <<issued, view, parent, heap, pvt, uniq, pap>>
  BY DEF DmnRload, tableVars, userVars
<1>2. ASSUME NEW b \in Address PROVE SameAt(b)
  <2>1. StaysAt(b) BY <1>1 DEF StaysAt, HeldBy, OpenAt
  <2>2. \A f \in Executor : ResetPending(f, b)' <=> ResetPending(f, b)
    BY <1>1 DEF ResetPending
  <2> QED BY <1>1, <2>1, <2>2 DEF SameAt
<1> QED BY <1>2, NoAddress

(* The PVT_RESET handler frees a copy no capability is backed from.        *)
LEMMA DmnPvtResetSilent ==
  ASSUME IInv, IInv', Covered, NEW r \in dmn, DmnPvtReset(r)
  PROVE  NothingSeen /\ Covered'
<1>0. TypeOK /\ Typed /\ Resets /\ Seen /\ EntryRaceFree
  BY TypeFacts, SeenHolds, IInvEntryRaceFree DEF IInv
<1>1. PICK e \in Executor, a \in Address : r.to = e /\ r.p = a
  BY <1>0 DEF Typed
<1>2. /\ r.op = "PVT_RESET" /\ Backs(e, a) /\ Unmap(e, a) /\ dmn' = dmn \ {r}
      /\ UNCHANGED <<pvt, uniq, pap>>
  BY <1>1 DEF DmnPvtReset, Serviceable, userVars
<1>3. ~HeldBy(e, a) /\ ~OpenAt(e, a) BY <1>0, <1>1 DEF EntryRaceFree
<1>4. ~BackedFrom(a, e)
  <2>1. ResetPending(e, a) BY <1>1, <1>2 DEF ResetPending
  <2> QED BY <2>1, <1>0 DEF Seen, Sourced
<1>5. \A f \in Executor, d \in Cell :
         d \in uniq'[f] <=> d \in uniq[f] /\ (f # e \/ d # view[e][a].committed)
  <2>1. parent[e][view[e][a].committed] = a BY <1>2, BackedBlock
  <2>2. view[e][a].committed \notin uniq[e] BY <2>1, <1>3 DEF OpenAt
  <2> QED BY <2>2, <1>2
<1>6. uniq' \in [Executor -> SUBSET Cell] BY <1>0, <1>2 DEF TypeOK
<1>7. \A f \in Executor, b \in Address :
         f # e \/ b # a => (ResetPending(f, b)' <=> ResetPending(f, b))
  BY <1>1, <1>2 DEF ResetPending
<1>8. /\ \A b \in Address : b # a => SameAt(b)
      /\ \A f \in Executor : /\ Backs(f, a)' <=> Backs(f, a) /\ f # e
                             /\ OpenAt(f, a)' <=> OpenAt(f, a) /\ f # e
                             /\ f # e => view'[f][a] = view[f][a]
      /\ \A f \in Executor, d \in Cell : f # e => heap'[f][d] = heap[f][d]
      /\ UNCHANGED issued
  <2>1. \A f \in Executor, b \in Address : HeldBy(f, b)' <=> HeldBy(f, b)
    BY <1>2 DEF HeldBy
  <2> QED BY <1>2, <1>5, <1>6, <1>7, <2>1, UnmapElsewhere
<1>9. \A f \in Executor : /\ HeldBy(f, a)' <=> HeldBy(f, a)
                          /\ OpenAt(f, a)' <=> OpenAt(f, a)
  BY <1>2, <1>3, <1>8 DEF HeldBy
<1>10. StaysAt(a) BY <1>2, <1>8, <1>9 DEF StaysAt
<1>11. \A z \in Executor : BackedFrom(a, z)' <=> BackedFrom(a, z)
  BY <1>2, <1>3, <1>8, <1>9 DEF BackedFrom
<1>12. CoveredAt(a)'
  <2>1. CoveredAt(a) BY DEF Covered
  <2> QED BY <2>1, <1>7, <1>8, <1>11 DEF CoveredAt
<1>13. Places'[a] = Places[a] BY <1>10, PlaceKept
<1>14. Contents'[a] = Contents[a]
  <2>1. ASSUME NEW z \in Executor, BackedFrom(a, z)
        PROVE  heap'[z][view'[z][a].committed] = heap[z][view[z][a].committed]
    <3>1. z # e /\ Backs(z, a) BY <1>0, <1>4, <2>1 DEF Seen, Sourced
    <3>2. view[z][a].committed \in Cell BY <3>1, BackedBlock
    <3> QED BY <3>1, <3>2, <1>8
  <2> QED BY <2>1, <1>11, ContentKept
<1> QED BY <1>8, <1>12, <1>13, <1>14, OneAddress DEF NothingSeen

-----------------------------------------------------------------------------
(* Every step *)

(* Every step is one of PrivateMemory, or none, and leaves no memory       *)
(* behind.                                                                 *)
LEMMA UserRefines ==
  ASSUME IInv, IInv', Covered, NEW e \in Executor, User(e)
  PROVE  Covered' /\ (Memory!Next \/ NothingSeen)
<1>1. ASSUME NEW v \in Value, Make(e, v) PROVE Covered' /\ Memory!Next
  BY <1>1, MakeCreates DEF Memory!Next
<1>2. ASSUME NEW v \in Value, MakeUnique(e, v) PROVE Covered' /\ NothingSeen
  BY <1>2, MakeUniqueSilent
<1>3. ASSUME NEW c \in Cell, Adopt(e, c) PROVE Covered' /\ Memory!Next
  BY <1>3, AdoptCreates DEF Memory!Next
<1>4. ASSUME NEW c \in Cell, DropUnique(e, c)
      PROVE  Covered' /\ (Memory!Next \/ NothingSeen)
  BY <1>4, DropUniqueDestroys DEF Memory!Next
<1>5. ASSUME NEW c \in Cell, WriteBack(e, c) PROVE Covered' /\ Memory!Next
  BY <1>5, WriteBackCloses DEF Memory!Next
<1>6. ASSUME NEW c \in Cell, NEW v \in Value, Write(e, c, v)
      PROVE  Covered' /\ (Memory!Next \/ NothingSeen)
  BY <1>6, WriteWrites DEF Memory!Next
<1>7. ASSUME NEW a \in Address, LocalAtHome(e, a) PROVE Covered' /\ Memory!Next
  BY <1>7, LocalAtHomeOpens DEF Memory!Next
<1>8. ASSUME NEW a \in Address, Drop(e, a) PROVE Covered' /\ Memory!Next
  BY <1>8, DropDestroys DEF Memory!Next
<1>9. ASSUME NEW a \in Address, LocalRequest(e, a) PROVE Covered' /\ NothingSeen
  BY <1>9, LocalRequestSilent
<1>10. ASSUME NEW a \in Address, NEW t \in Executor, <<e, t>> \in Routes, Push(e, a, t)
       PROVE  Covered' /\ Memory!Next
  BY <1>10, PushSends DEF Memory!Next
<1>11. ASSUME NEW m \in pap, Pull(e, m) PROVE Covered' /\ Memory!Next
  BY <1>11, PullReceives DEF Memory!Next
<1> QED BY <1>1, <1>2, <1>3, <1>4, <1>5, <1>6, <1>7, <1>8, <1>9, <1>10, <1>11 DEF User

LEMMA StepRefines ==
  ASSUME IInv, IInv', Covered, [Next]_vars
  PROVE  Covered' /\ (Memory!Next \/ NothingSeen)
<1>1. ASSUME NEW e \in Executor, Answered(e) PROVE Covered' /\ Memory!Next
  <2>1. PICK s \in mem : LocalAnswer(e, s) BY <1>1 DEF Answered
  <2> QED BY <2>1, LocalAnswerOpens DEF Memory!Next
<1>2. ASSUME NEW e \in Executor, Daemon(e) PROVE Covered' /\ NothingSeen
  BY <1>2, DmnRloadSilent, DmnPvtResetSilent DEF Daemon
<1>3. ASSUME UNCHANGED vars PROVE Covered' /\ NothingSeen
  <2>1. UNCHANGED <<issued, view, parent, heap, pvt, uniq, pap, dmn>>
    BY <1>3 DEF vars, tableVars, userVars, linkVars
  <2>2. ASSUME NEW b \in Address PROVE SameAt(b)
    BY <2>1 DEF SameAt, StaysAt, HeldBy, OpenAt, ResetPending
  <2> QED BY <2>2, NoAddress
<1> QED BY <1>1, <1>2, <1>3, UserRefines DEF Next, Finished

LEMMA InitCovered == Init => Covered
BY DEF Init, TableInit, Covered, CoveredAt, Backs, Mapped

-----------------------------------------------------------------------------
(* The theorems *)

(* Memory for a private address is kept where the holder of its capability *)
(* will look for it and nowhere else, until a release that is already on   *)
(* its way arrives: no copy is leaked, and none that is needed is freed.   *)
THEOREM NothingLeaks == Spec => []NoLeak
<1>1. IInv /\ IInv' /\ Covered /\ [Next]_vars => Covered' BY StepRefines
<1>2. IInv /\ Covered => NoLeak
  BY IInvSourced DEF Sourced, Covered, CoveredAt, NoLeak
<1> QED BY <1>1, <1>2, InitCovered, Inductive, PTL DEF Spec

(* Wherever copies, authors and messages are, an application sees one      *)
(* location per pointer, that only the holder of its capability changes:   *)
(* local() returns what was written last, by whichever executor.           *)
THEOREM PrivateImplements == Spec => ImplementsMemory
<1>1. Init => Memory!Init
  <2> SUFFICES ASSUME Init PROVE Memory!Init OBVIOUS
  <2>0. SeenPlaces /\ SeenContents BY InitIInv, SeenHolds DEF Seen
  <2>1. ASSUME NEW a \in Address
        PROVE  /\ a \notin issued
               /\ \A e \in Executor : ~HeldBy(e, a) /\ ~OpenAt(e, a) /\ ~SentTo(e, a)
               /\ \A y \in Executor : ~BackedFrom(a, y)
    BY DEF Init, TableInit, HeldBy, OpenAt, SentTo, BackedFrom
  <2>2. \A a \in Address : Places[a] = Memory!Unborn
    BY <2>0, <2>1 DEF SeenPlaces
  <2>3. \A a \in Address : Contents[a] = Null BY <2>0, <2>1 DEF SeenContents
  <2>4. /\ Places = [a \in Address |-> Places[a]]
        /\ Contents = [a \in Address |-> Contents[a]]
    BY DEF Places, Contents
  <2> QED BY <2>2, <2>3, <2>4 DEF Memory!Init
<1>2. IInv /\ IInv' /\ Covered /\ [Next]_vars =>
         Covered' /\ [Memory!Next]_(Memory!memoryVars)
  BY StepRefines DEF NothingSeen, Memory!memoryVars
<1> QED BY <1>1, <1>2, InitCovered, Inductive, PTL DEF Spec, ImplementsMemory, Memory!Spec
=============================================================================
