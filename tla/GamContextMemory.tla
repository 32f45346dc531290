--------------------------- MODULE GamContextMemory ---------------------------
(***************************************************************************)
(* The memory of GamContext, for any executors, addresses, references,     *)
(* blocks and values: each block has exactly the use it was allocated for, *)
(* and is kept for an address only as long as it is wanted there, private, *)
(* public and published memory together.                                   *)
(*                                                                         *)
(* MInv is inductive on top of IInv and CInv.  MemoryStep says of a step   *)
(* that works on one address at one executor that it is enough to look     *)
(* there; there is one lemma per action.                                   *)
(*                                                                         *)
(* The second half proves that GamContext implements GlobalMemory: Places, *)
(* Contents, Counted and Wasted are what the application sees, RInv says   *)
(* where they are found in every state, and a step is compared with one of *)
(* GlobalMemory at the one or two addresses it works on.                   *)
(***************************************************************************)
EXTENDS GamContextCounts

-----------------------------------------------------------------------------
(* Memory is accounted for *)

(* Who has private memory: the capability will look for it, a gam_unique_  *)
(* ptr points to it, a release is on its way, or the capability was lost.  *)
WantedOK(a) ==
    \A e \in Executor : Keeps(e, a) =>
        Alive(a) \/ Open(e, a) \/ Pvt!ResetPending(e, a) \/ lost[a] > 0

(* A live block is the memory of an address, or the one a call is filling. *)
Used(e, c) ==
    \/ \E a \in Address : Mapped(e, a) /\ view[e][a].committed = c
    \/ fwd[e] # Null /\ fwd[e].lp = c
    \/ pub[e] # Null /\ pub[e].lp = c

UsedOK(e) == \A c \in Cell : heap[e][c] # Null => Used(e, c)

MInv == /\ \A a \in Address : WantedOK(a)
        /\ \A e \in Executor : UsedOK(e)

LEMMA WantedKept ==
  ASSUME NEW b \in Address, WantedOK(b),
         \A f \in Executor : Keeps(f, b)' =>
             /\ Keeps(f, b)
             /\ Open(f, b) => Open(f, b)'
             /\ Pvt!ResetPending(f, b) => Pvt!ResetPending(f, b)',
         Alive(b) => Alive(b)',
         lost[b] > 0 => lost'[b] > 0
  PROVE  WantedOK(b)'
BY DEF WantedOK

(* A use is given up with the block.                                       *)
LEMMA UsedKept ==
  ASSUME NEW f \in Executor, UsedOK(f),
         \A c \in Cell : heap'[f][c] # Null => heap[f][c] # Null,
         \A c \in Cell, b \in Address :
             Mapped(f, b) /\ view[f][b].committed = c /\ heap'[f][c] # Null =>
                Mapped(f, b)' /\ view'[f][b].committed = c,
         fwd'[f] = fwd[f], pub'[f] = pub[f]
  PROVE  UsedOK(f)'
<1> SUFFICES ASSUME NEW c \in Cell, heap'[f][c] # Null PROVE Used(f, c)'
  BY DEF UsedOK
<1>1. Used(f, c) BY DEF UsedOK
<1> QED BY <1>1 DEF Used

(* A step works on a and at e, and leaves all else.                        *)
Elsewhere(e, a) ==
    /\ \A f \in Executor, b \in Address : b # a =>
          /\ view'[f][b] = view[f][b] \/ ~Private(f, b)'
          /\ b \in pvt[f] => b \in pvt'[f]
    /\ \A m \in pvtPap : m \in pvtPap' \/ m.p = a
    /\ \A r \in pvtDmn : IsReset(r) => r \in pvtDmn' \/ r.p = a
    /\ \A f \in Executor, c \in Cell : parent[f][c] \notin {a, Null} =>
          parent'[f][c] = parent[f][c] /\ (c \in uniq[f] => c \in uniq'[f])
    /\ \A b \in Address : lost[b] > 0 => lost'[b] > 0
    /\ \A f \in Executor : f # e =>
          /\ \A b \in Address : view'[f][b] = view[f][b]
          /\ \A c \in Cell : heap'[f][c] = heap[f][c]
          /\ fwd'[f] = fwd[f] /\ pub'[f] = pub[f]

LEMMA MemoryStep ==
  ASSUME IInv, MInv, NEW e \in Executor, NEW a \in Address, Elsewhere(e, a),
         WantedOK(a)', UsedOK(e)'
  PROVE  MInv'
<1>1. ASSUME NEW b \in Address, b # a PROVE WantedOK(b)'
  <2>1. ASSUME NEW f \in Executor, Keeps(f, b)'
        PROVE  /\ Keeps(f, b)
               /\ Open(f, b) => Open(f, b)'
               /\ Pvt!ResetPending(f, b) => Pvt!ResetPending(f, b)'
    <3>1. view'[f][b] = view[f][b] BY <1>1, <2>1 DEF Elsewhere, Keeps
    <3>2. Keeps(f, b) BY <2>1, <3>1 DEF Keeps, Private, Mapped
    <3>3. ASSUME Open(f, b) PROVE Open(f, b)'
      <4>1. PICK c \in uniq[f] : parent[f][c] = b BY <3>3 DEF Open
      <4>2. c \in Cell /\ b # Null
        <5>1. uniq[f] \in SUBSET Cell BY TypeParts DEF IInv, TypesApart, PrivateTyped
        <5> QED BY <4>1, <5>1, ViewAssumption
      <4> QED BY <1>1, <4>1, <4>2 DEF Elsewhere, Open
    <3>4. ASSUME Pvt!ResetPending(f, b) PROVE Pvt!ResetPending(f, b)'
      <4>1. PICK r \in pvtDmn : IsReset(r) /\ r.to = f /\ r.p = b
        BY <3>4 DEF Pvt!ResetPending, IsReset
      <4>2. r \in pvtDmn' BY <1>1, <4>1 DEF Elsewhere
      <4> QED BY <4>1, <4>2 DEF Pvt!ResetPending, IsReset
    <3> QED BY <3>2, <3>3, <3>4
  <2>2. Alive(b) => Alive(b)' BY <1>1 DEF Elsewhere, Alive
  <2>3. WantedOK(b) /\ (lost[b] > 0 => lost'[b] > 0) BY DEF MInv, Elsewhere
  <2> QED BY <2>1, <2>2, <2>3, WantedKept
<1>2. ASSUME NEW f \in Executor, f # e PROVE UsedOK(f)'
  <2>1. UsedOK(f) BY DEF MInv
  <2>2. /\ \A b \in Address : view'[f][b] = view[f][b]
        /\ \A c \in Cell : heap'[f][c] = heap[f][c]
        /\ fwd'[f] = fwd[f] /\ pub'[f] = pub[f]
    BY <1>2 DEF Elsewhere
  <2> QED BY <2>1, <2>2, UsedKept DEF Mapped
<1> QED BY <1>1, <1>2 DEF MInv

(* Steps that leave the tables and the private pointers alone.             *)
LEMMA QuietMemory ==
  ASSUME IInv, MInv, UNCHANGED <<view, parent, heap, pvt, uniq, fwd, pvtPap, pub>>,
         \A r \in pvtDmn : IsReset(r) => r \in pvtDmn',
         \A b \in Address : lost[b] > 0 => lost'[b] > 0
  PROVE  MInv'
<1>1. ASSUME NEW b \in Address PROVE WantedOK(b)'
  <2>1. WantedOK(b) BY DEF MInv
  <2>2. \A f \in Executor : Pvt!ResetPending(f, b) => Pvt!ResetPending(f, b)'
    BY DEF Pvt!ResetPending, IsReset
  <2>3. \A f \in Executor : Keeps(f, b)' => Keeps(f, b) BY DEF Keeps, Private, Mapped
  <2>4. \A f \in Executor : Open(f, b) => Open(f, b)' BY DEF Open
  <2>5. Alive(b) => Alive(b)' BY DEF Alive
  <2> QED BY <2>1, <2>2, <2>3, <2>4, <2>5, WantedKept
<1>2. ASSUME NEW f \in Executor PROVE UsedOK(f)'
  <2>1. UsedOK(f) BY DEF MInv
  <2> QED BY <2>1 DEF UsedOK, Used, Mapped
<1> QED BY <1>1, <1>2 DEF MInv

(* Steps that work on public memory.                                       *)
LEMMA PublicMemory ==
  ASSUME IInv, MInv, NEW e \in Executor, NEW a \in Address,
         UNCHANGED <<privateVars, parent, pub, lost>>,
         \A f \in Executor, b \in Address : f # e \/ b # a => view'[f][b] = view[f][b],
         ~Private(e, a)',
         \A f \in Executor, c \in Cell : f # e => heap'[f][c] = heap[f][c],
         UsedOK(e)'
  PROVE  MInv'
<1>1. UNCHANGED <<pvt, uniq, fwd, pvtPap, pvtDmn, pub, lost, parent>> BY DEF privateVars
<1>2. Elsewhere(e, a) BY <1>1 DEF Elsewhere
<1>3. WantedOK(a)'
  <2>1. WantedOK(a) BY DEF MInv
  <2>2. ASSUME NEW f \in Executor, Keeps(f, a)' PROVE Keeps(f, a)
    <3>1. f # e BY <2>2 DEF Keeps
    <3> QED BY <2>2, <3>1 DEF Keeps, Private, Mapped
  <2>3. \A f \in Executor : Open(f, a) => Open(f, a)' BY <1>1 DEF Open
  <2>4. \A f \in Executor : Pvt!ResetPending(f, a) => Pvt!ResetPending(f, a)'
    BY <1>1 DEF Pvt!ResetPending
  <2>5. Alive(a) => Alive(a)' BY <1>1 DEF Alive
  <2> QED BY <1>1, <2>1, <2>2, <2>3, <2>4, <2>5, WantedKept
<1> QED BY <1>2, <1>3, MemoryStep

-----------------------------------------------------------------------------
(* Memory of public addresses *)

LEMMA PublicMakeMemory ==
  ASSUME IInv, MInv, NEW e \in Executor, NEW v \in Value,
         Pub!Make(e, v), UNCHANGED <<privateVars, pub, lost>>
  PROVE  MInv'
<1>1. PICK b \in Pub!FreshAddresses, c \in Pub!FreeCells(e) :
        /\ view' = [view EXCEPT ![e][b] = Pub!PublicEntry(e, c)]
        /\ heap' = [heap EXCEPT ![e][c] = v]
        /\ parent' = parent
  BY DEF Pub!Make
<1>2. b \in Address /\ b \notin issued /\ c \in Cell
  BY <1>1 DEF Pub!FreshAddresses, Pub!FreeCells
<1>3. view[e][b] = Null BY <1>2, FreshAddress
<1>4. UNCHANGED <<fwd, pub>> BY DEF privateVars
<1>5. /\ view \in [Executor -> [Address -> Entry \cup {Null}]]
      /\ heap \in [Executor -> [Cell -> Value \cup {Null}]]
  BY TypeParts DEF IInv, TypesApart, TableTypeOK
<1>6. /\ view'[e][b] = Pub!PublicEntry(e, c)
      /\ \A f \in Executor, d \in Address : f # e \/ d # b => view'[f][d] = view[f][d]
  BY <1>1, <1>2, <1>5
<1>7. /\ \A f \in Executor, d \in Cell : f # e \/ d # c => heap'[f][d] = heap[f][d]
  BY <1>1, <1>2, <1>5
<1>8. Mapped(e, b)' /\ ~Private(e, b)' /\ view'[e][b].committed = c
  <2>1. Pub!PublicEntry(e, c) \in Entry
    BY <1>2 DEF Pub!PublicEntry, Entry, AccessLevel
  <2>2. Pub!PublicEntry(e, c) # Null BY <2>1, ViewAssumption
  <2> QED BY <1>6, <2>2 DEF Pub!PublicEntry, Mapped, Private
<1>9. UsedOK(e)'
  <2> SUFFICES ASSUME NEW d \in Cell, heap'[e][d] # Null PROVE Used(e, d)'
    BY DEF UsedOK
  <2>1. CASE d = c BY <1>2, <1>8, <2>1 DEF Used
  <2>2. CASE d # c
    <3>1. Used(e, d) BY <1>7, <2>2 DEF MInv, UsedOK
    <3>2. ASSUME NEW x \in Address, Mapped(e, x) PROVE view'[e][x] = view[e][x]
      BY <1>3, <1>6, <3>2 DEF Mapped
    <3> QED BY <1>4, <3>1, <3>2 DEF Used, Mapped
  <2> QED BY <2>1, <2>2
<1> QED BY <1>1, <1>2, <1>6, <1>7, <1>8, <1>9, PublicMemory

(* The entry that a pull binds anew has no memory to lose.                 *)
LEMMA PublicPullMemory ==
  ASSUME IInv, CInv, MInv, NEW e \in Executor, NEW m \in pubPap,
         Pub!Pull(e, m), UNCHANGED <<privateVars, pub, lost>>
  PROVE  MInv'
<1>1. PICK a \in Address, y \in Executor, x \in {Pub!PulledEntry(e, m)} :
        a = m.p /\ y = m.author /\ rc[y][a] # Null
  BY PublicKnown, TypeFacts DEF IInv, Typed, TypedPublic
<1>2. /\ m.to = e /\ view' = [view EXCEPT ![e][a] = x]
      /\ UNCHANGED <<parent, heap, fwd, pub>>
  BY <1>1 DEF Pub!Pull, privateVars
<1>3. x.access_level = "public" BY <1>1 DEF Pub!PulledEntry
<1>4. view \in [Executor -> [Address -> Entry \cup {Null}]]
  BY TypeParts DEF IInv, TypesApart, TableTypeOK
<1>5. /\ view'[e][a] = x
      /\ \A f \in Executor, d \in Address : f # e \/ d # a => view'[f][d] = view[f][d]
  BY <1>2, <1>4
<1>6. ~Private(e, a)' BY <1>3, <1>5 DEF Private
<1>7. rc[e][a] = Null
  <2>1. e # y BY <1>1, <1>2 DEF CInv
  <2> QED BY <1>1, <2>1 DEF IInv, HomeOK
<1>8. Mapped(e, a) => view[e][a].committed = Null
  <2>1. LevelOK(a) /\ MemoryOK(a) BY DEF IInv, AddressOK, CInv
  <2>2. ~Private(e, a) BY <1>1, <2>1 DEF LevelOK, KnownPrivate, IsPublic
  <2>3. Mapped(e, a) => Public(e, a)
    BY <2>2, TypeFacts DEF IInv, Typed, TypedTables, Private, Public, AccessLevel
  <2> QED BY <1>7, <2>1, <2>3 DEF MemoryOK
<1>9. UsedOK(e)'
  <2>1. UsedOK(e) BY DEF MInv
  <2>2. ASSUME NEW c \in Cell, NEW b \in Address, Mapped(e, b), view[e][b].committed = c
        PROVE  Mapped(e, b)' /\ view'[e][b].committed = c
    <3>1. b # a BY <1>8, <2>2, ViewAssumption
    <3> QED BY <1>5, <2>2, <3>1 DEF Mapped
  <2> QED BY <1>2, <2>1, <2>2, UsedKept
<1>10. \A f \in Executor, c \in Cell : f # e => heap'[f][c] = heap[f][c] BY <1>2
<1> QED BY <1>2, <1>5, <1>6, <1>9, <1>10, PublicMemory

LEMMA DiscountMemory ==
  ASSUME IInv, MInv, NEW e \in Executor, NEW a \in Address, Pub!AmAuthor(e, a),
         IsPublic(a), Pub!Discount(e, a), UNCHANGED <<privateVars, pub, lost>>
  PROVE  MInv'
<1>1. UNCHANGED <<pvt, uniq, fwd, pvtPap, pvtDmn>> BY DEF privateVars
<1>2. CASE UNCHANGED tableVars
  BY <1>1, <1>2, QuietMemory DEF tableVars
<1>3. CASE Public(e, a) /\ Freed(e, a)
  <2>1. /\ UNCHANGED parent /\ view[e][a].committed \in Cell /\ view'[e][a] = Null
        /\ \A f \in Executor, b \in Address : f # e \/ b # a => view'[f][b] = view[f][b]
        /\ \A f \in Executor, c \in Cell :
             heap'[f][c] = IF f = e /\ c = view[e][a].committed THEN Null ELSE heap[f][c]
    BY <1>3 DEF Freed
  <2>2. ~Private(e, a)' BY <2>1 DEF Private, Mapped
  <2>3. UsedOK(e)'
    <3>1. UsedOK(e) BY DEF MInv
    <3>2. ASSUME NEW c \in Cell, NEW b \in Address, Mapped(e, b), view[e][b].committed = c,
                 heap'[e][c] # Null
          PROVE  Mapped(e, b)' /\ view'[e][b].committed = c
      <4>1. b # a BY <2>1, <3>2
      <4> QED BY <2>1, <3>2, <4>1 DEF Mapped
    <3>3. \A c \in Cell : heap'[e][c] # Null => heap[e][c] # Null BY <2>1
    <3> QED BY <1>1, <3>1, <3>2, <3>3, UsedKept
  <2>4. \A f \in Executor, c \in Cell : f # e => heap'[f][c] = heap[f][c] BY <2>1
  <2> QED BY <2>1, <2>2, <2>3, <2>4, PublicMemory
<1> QED BY <1>2, <1>3, DiscountEffect

LEMMA PublicUserMemory ==
  ASSUME IInv, CInv, MInv, NEW e \in Executor, PublicUser(e)
  PROVE  MInv'
<1>0. Pub!User(e) /\ UNCHANGED <<privateVars, pub, lost>> BY DEF PublicUser
<1>1. UNCHANGED <<pvt, uniq, fwd, pvtPap, pvtDmn>> BY <1>0 DEF privateVars
<1>q. UNCHANGED tableVars => MInv' BY <1>0, <1>1, QuietMemory DEF tableVars
<1>t. UNCHANGED Pub!tableVars => UNCHANGED tableVars BY DEF Pub!tableVars, tableVars
<1>2. ASSUME NEW v \in Value, Pub!Make(e, v) PROVE MInv'
  BY <1>0, <1>2, PublicMakeMemory
<1>3. ASSUME NEW h \in Handle, Pub!Copy(e, h) PROVE MInv'
  BY <1>3, <1>q, <1>t DEF Pub!Copy
<1>4. ASSUME NEW h \in Handle, NEW t \in Executor, Pub!Push(e, h, t) PROVE MInv'
  BY <1>4, <1>q, <1>t DEF Pub!Push
<1>5. ASSUME NEW h \in Handle, ptr[h] # Null, Pub!Drop(e, h) PROVE MInv'
  <2>1. CASE Pub!AmAuthor(e, ptr[h].p)
    <3>1. PICK a : a = ptr[h].p OBVIOUS
    <3>2. Pub!Discount(e, a) BY <1>5, <2>1, <3>1 DEF Pub!Drop
    <3>3. a \in Address /\ IsPublic(a) BY <1>5, <3>1, HolderHome
    <3> QED BY <1>0, <2>1, <3>1, <3>2, <3>3, DiscountMemory
  <2>2. CASE ~Pub!AmAuthor(e, ptr[h].p)
    BY <1>5, <2>2, <1>q, <1>t DEF Pub!Drop
  <2> QED BY <2>1, <2>2
<1>6. ASSUME NEW h \in Handle, NEW op \in {"RLOAD", "RC_GET"}, Pub!Ask(e, h, op)
      PROVE  MInv'
  BY <1>6, <1>q, <1>t DEF Pub!Ask
<1>7. ASSUME NEW m \in pubPap, Pub!Pull(e, m) PROVE MInv'
  BY <1>0, <1>7, PublicPullMemory
<1> QED BY <1>0, <1>2, <1>3, <1>4, <1>5, <1>6, <1>7 DEF Pub!User

LEMMA PublicDaemonMemory ==
  ASSUME IInv, MInv, NEW r \in pubDmn, PublicDaemon(r)
  PROVE  MInv'
<1>0. Pub!Handled(r) /\ UNCHANGED <<privateVars, pub, lost>> BY DEF PublicDaemon
<1>1. UNCHANGED <<pvt, uniq, fwd, pvtPap, pvtDmn>> BY <1>0 DEF privateVars
<1>2. UNCHANGED Pub!tableVars => MInv'
  BY <1>0, <1>1, QuietMemory DEF Pub!tableVars
<1>3. ASSUME Pub!DmnRcDec(r) PROVE MInv'
  <2>1. PICK a, y : a = r.p /\ y = r.to OBVIOUS
  <2>2. Pub!AmAuthor(y, a) /\ Pub!Discount(y, a)
    BY <1>3, <2>1 DEF Pub!DmnRcDec, Pub!Serviceable
  <2>3. a \in Address /\ y \in Executor /\ IsPublic(a)
    BY <2>1, PublicKnown DEF IsPublic
  <2> QED BY <1>0, <2>2, <2>3, DiscountMemory
<1>4. ASSUME Pub!DmnRcInc(r) \/ Pub!DmnReply(r) PROVE MInv'
  BY <1>2, <1>4 DEF Pub!DmnRcInc, Pub!DmnReply
<1> QED BY <1>0, <1>3, <1>4 DEF Pub!Handled

-----------------------------------------------------------------------------
(* Memory of private addresses *)

(* The author unmaps a.                                                    *)
LEMMA UnmapMemory ==
  ASSUME IInv, MInv, NEW e \in Executor, NEW a \in Address, Keeps(e, a), Unmap(e, a),
         UNCHANGED <<fwd, pub, lost, pvtPap>>,
         \A f \in Executor, b \in Address : b # a /\ b \in pvt[f] => b \in pvt'[f],
         \A r \in pvtDmn : r \in pvtDmn' \/ r.p = a,
         \A f \in Executor, c \in Cell : parent[f][c] # a /\ c \in uniq[f] => c \in uniq'[f],
         \A f \in Executor : f # e /\ Keeps(f, a) =>
             Open(f, a)' \/ Pvt!ResetPending(f, a)' \/ lost[a] > 0
  PROVE  MInv'
<1>1. UnmapsAt(e, a) BY UnmapEffect
<1>2. /\ view'[e][a] = Null
      /\ \A f \in Executor, b \in Address : f # e \/ b # a => view'[f][b] = view[f][b]
      /\ parent[e][view[e][a].child] = a
      /\ view[e][a].committed = view[e][a].child
      /\ \A f \in Executor, c \in Cell : f # e \/ c # view[e][a].child =>
             parent'[f][c] = parent[f][c] /\ heap'[f][c] = heap[f][c]
  BY <1>1 DEF UnmapsAt
<1>3. Elsewhere(e, a) BY <1>2, ViewAssumption DEF Elsewhere
<1>4. WantedOK(a)'
  <2> SUFFICES ASSUME NEW f \in Executor, Keeps(f, a)'
               PROVE  (Open(f, a) \/ Pvt!ResetPending(f, a) \/ lost[a] > 0)'
    BY DEF WantedOK
  <2>1. f # e BY <1>2 DEF Keeps, Private, Mapped
  <2>2. Keeps(f, a) BY <1>2, <2>1 DEF Keeps, Private, Mapped
  <2> QED BY <2>1, <2>2
<1>5. UsedOK(e)'
  <2>1. heap' = HeapWithout(e, a) BY DEF Unmap
  <2>2. heap \in [Executor -> [Cell -> Value \cup {Null}]]
    BY TypeParts DEF IInv, TypesApart, TableTypeOK
  <2>3. \A c \in Cell : heap'[e][c] = IF c = view[e][a].committed THEN Null ELSE heap[e][c]
    BY <2>1, <2>2 DEF HeapWithout
  <2>4. ASSUME NEW c \in Cell, NEW b \in Address, Mapped(e, b), view[e][b].committed = c,
               heap'[e][c] # Null
        PROVE  Mapped(e, b)' /\ view'[e][b].committed = c
    <3>1. b # a BY <2>3, <2>4
    <3> QED BY <1>2, <2>4, <3>1 DEF Mapped
  <2>5. UsedOK(e) BY DEF MInv
  <2>6. \A c \in Cell : heap'[e][c] # Null => heap[e][c] # Null BY <2>3
  <2> QED BY <2>4, <2>5, <2>6, UsedKept
<1> QED BY <1>3, <1>4, <1>5, MemoryStep

LEMMA DropUniqueMemory ==
  ASSUME IInv, MInv, NEW e \in Executor, NEW c \in Cell, Pvt!DropUnique(e, c),
         UNCHANGED <<publicVars, pub, lost>>
  PROVE  MInv'
<1>1. /\ c \in uniq[e] /\ uniq' = [uniq EXCEPT ![e] = @ \ {c}]
      /\ UNCHANGED <<pvt, fwd, pvtPap, pvtDmn>>
  BY DEF Pvt!DropUnique, Pvt!Unpoint, Pvt!linkVars
<1>2. PICK a \in Address : parent[e][c] = a /\ Open(e, a) /\ Keeps(e, a)
  <2>1. parent[e][c] # Null BY <1>1 DEF IInv, BlockOK
  <2>2. parent[e][c] \in Address BY <2>1, TypeFacts DEF IInv, Typed, TypedTables
  <2>3. ChildOK(parent[e][c]) BY <2>2 DEF IInv, AddressOK
  <2> QED BY <1>1, <2>2, <2>3 DEF ChildOK, Open
<1>3. Unmap(e, a)
  <2>1. parent[e][c] # Null BY <1>1 DEF IInv, BlockOK
  <2>2. Pvt!Unmap(e, a) BY <1>2, <2>1 DEF Pvt!DropUnique, Pvt!HasParent
  <2> QED BY <2>2, SameTables
<1>4. \A f \in Executor, d \in Cell : d \in uniq'[f] <=> d \in uniq[f] /\ ~(f = e /\ d = c)
  <2>1. uniq \in [Executor -> SUBSET Cell]
    BY TypeParts DEF IInv, TypesApart, PrivateTyped
  <2> QED BY <1>1, <2>1, Removed
<1>5. ASSUME NEW f \in Executor, f # e, Keeps(f, a)
      PROVE  Pvt!ResetPending(f, a)' \/ lost[a] > 0
  <2>1. ~Alive(a) /\ ~Open(f, a) BY <1>2, <1>5 DEF IInv, AddressOK, SoleOK
  <2>2. Pvt!ResetPending(f, a) \/ lost[a] > 0 BY <1>5, <2>1 DEF MInv, WantedOK
  <2> QED BY <1>1, <2>2 DEF Pvt!ResetPending
<1>6. UNCHANGED <<fwd, pub, lost, pvtPap>> BY <1>1
<1> QED BY <1>1, <1>2, <1>3, <1>4, <1>5, <1>6, UnmapMemory

LEMMA DropMemory ==
  ASSUME IInv, MInv, NEW e \in Executor, NEW a \in Address, Pvt!Drop(e, a),
         UNCHANGED <<publicVars, pub, lost>>
  PROVE  MInv'
<1>1. /\ a \in pvt[e] /\ pvt' = [pvt EXCEPT ![e] = @ \ {a}]
      /\ UNCHANGED <<uniq, fwd, pvtPap, pub, lost>>
  BY DEF Pvt!Drop, Pvt!Release
<1>2. \A f \in Executor, b \in Address : b # a /\ b \in pvt[f] => b \in pvt'[f]
  <2>1. pvt \in [Executor -> SUBSET Address]
    BY TypeParts DEF IInv, TypesApart, PrivateTyped
  <2> QED BY <1>1, <2>1, Removed
<1>3. Private(e, a) /\ Source(view[e][a].author, a)
  BY <1>1 DEF IInv, AddressOK, HandleOK
<1>4. CASE Pvt!AmAuthor(e, a)
  <2>1. Unmap(e, a) /\ UNCHANGED pvtDmn BY <1>4, SameTables DEF Pvt!Drop
  <2>2. Keeps(e, a) /\ \A f \in Executor : Keeps(f, a) => f = e
    BY <1>3, <1>4 DEF Pvt!AmAuthor, Source
  <2> QED BY <1>1, <1>2, <2>1, <2>2, UnmapMemory
<1>5. CASE ~Pvt!AmAuthor(e, a)
  <2>1. PICK y, q : /\ y = view[e][a].author
                    /\ q = [op |-> "PVT_RESET", from |-> e, to |-> y, p |-> a]
    OBVIOUS
  <2>2. /\ pvtDmn' = pvtDmn \cup {q} /\ q.op = "PVT_RESET" /\ q.to = y /\ q.p = a
        /\ UNCHANGED <<view, parent, heap>>
    BY <1>5, <2>1 DEF Pvt!Drop, Pvt!RequestTo, Pvt!tableVars
  <2>3. WantedOK(a)'
    <3> SUFFICES ASSUME NEW f \in Executor, Keeps(f, a)' PROVE Pvt!ResetPending(f, a)'
      BY DEF WantedOK
    <3>1. Keeps(f, a) BY <2>2 DEF Keeps, Private, Mapped
    <3>2. f = y BY <1>3, <2>1, <3>1 DEF Source
    <3> QED BY <2>2, <3>2 DEF Pvt!ResetPending
  <2>4. UsedOK(e)'
    <3>1. UsedOK(e) BY DEF MInv
    <3> QED BY <1>1, <2>2, <3>1 DEF UsedOK, Used, Mapped
  <2>5. Elsewhere(e, a) BY <1>1, <1>2, <2>2 DEF Elsewhere
  <2> QED BY <2>3, <2>4, <2>5, MemoryStep
<1> QED BY <1>4, <1>5

LEMMA DmnResetMemory ==
  ASSUME IInv, MInv, NEW r \in pvtDmn, Pvt!DmnPvtReset(r),
         UNCHANGED <<publicVars, pub, lost>>
  PROVE  MInv'
<1>1. /\ IsReset(r) /\ pvtDmn' = pvtDmn \ {r}
      /\ UNCHANGED <<pvt, uniq, fwd, pvtPap, pub, lost>>
      /\ r.to \in Executor /\ r.p \in Address
  BY TypeFacts DEF IInv, Pvt!DmnPvtReset, IsReset, Pvt!userVars, Typed, TypedPrivate
<1>2. PICK e \in Executor, a \in Address : e = r.to /\ a = r.p BY <1>1
<1>3. Keeps(e, a) /\ ~Alive(a) /\ \A q \in pvtDmn : IsReset(q) /\ q.p = a => q = r
  BY <1>1, <1>2 DEF IInv, AddressOK, ResetOK
<1>4. Unmap(e, a) BY <1>2, SameTables DEF Pvt!DmnPvtReset
<1>5. ASSUME NEW f \in Executor, f # e, Keeps(f, a) PROVE Open(f, a)' \/ lost[a] > 0
  <2>1. ~Pvt!ResetPending(f, a) BY <1>2, <1>3, <1>5 DEF Pvt!ResetPending, IsReset
  <2>2. Open(f, a) \/ lost[a] > 0 BY <1>3, <1>5, <2>1 DEF MInv, WantedOK
  <2>3. Open(f, a) => Open(f, a)'
    <3>1. UnmapsAt(e, a) BY <1>3, <1>4, UnmapEffect
    <3>2. uniq[f] \in SUBSET Cell BY TypeParts DEF IInv, TypesApart, PrivateTyped
    <3>3. \A c \in Cell : parent'[f][c] = parent[f][c] BY <1>5, <3>1 DEF UnmapsAt
    <3> QED BY <1>1, <3>2, <3>3 DEF Open
  <2> QED BY <2>2, <2>3
<1>6. UNCHANGED <<fwd, pub, lost, pvtPap>> BY <1>1
<1> QED BY <1>1, <1>2, <1>3, <1>4, <1>5, <1>6, UnmapMemory

(* What a step does to the entry of a at e.                                *)
LEMMA ViewWritten ==
  ASSUME IInv, NEW e \in Executor, NEW a \in Address, NEW x,
         view' = Recounted(view, e, a, x)
  PROVE  /\ view'[e][a] = x
         /\ \A f \in Executor, b \in Address : f # e \/ b # a => view'[f][b] = view[f][b]
<1>1. view \in [Executor -> [Address -> Entry \cup {Null}]]
  BY TypeParts DEF IInv, TypesApart, TableTypeOK
<1> QED BY <1>1 DEF Recounted

LEMMA HeapWritten ==
  ASSUME IInv, NEW e \in Executor, NEW c \in Cell, NEW v,
         heap' = Recounted(heap, e, c, v)
  PROVE  \A f \in Executor, d \in Cell : f # e \/ d # c => heap'[f][d] = heap[f][d]
<1>1. heap \in [Executor -> [Cell -> Value \cup {Null}]]
  BY TypeParts DEF IInv, TypesApart, TableTypeOK
<1> QED BY <1>1 DEF Recounted

LEMMA ParentWritten ==
  ASSUME IInv, NEW e \in Executor, NEW c \in Cell, NEW a,
         parent' = Recounted(parent, e, c, a)
  PROVE  \A f \in Executor, d \in Cell : f # e \/ d # c => parent'[f][d] = parent[f][d]
<1>1. parent \in [Executor -> [Cell -> Address \cup {Null}]]
  BY TypeParts DEF IInv, TypesApart, TableTypeOK
<1> QED BY <1>1 DEF Recounted

(* An entry of private memory is written, its memory staying.              *)
LEMMA EntryMemory ==
  ASSUME IInv, MInv, NEW e \in Executor, NEW a \in Address, NEW x, x # Null,
         view' = Recounted(view, e, a, x),
         Mapped(e, a) => x.committed = view[e][a].committed,
         UNCHANGED <<parent, heap, uniq, fwd, pvtDmn, pub, lost>>,
         \A f \in Executor, b \in Address : b # a /\ b \in pvt[f] => b \in pvt'[f],
         \A m \in pvtPap : m \in pvtPap' \/ m.p = a,
         Alive(a)'
  PROVE  MInv'
<1>1. /\ view'[e][a] = x
      /\ \A f \in Executor, b \in Address : f # e \/ b # a => view'[f][b] = view[f][b]
  BY ViewWritten
<1>2. Elsewhere(e, a) BY <1>1 DEF Elsewhere
<1>3. WantedOK(a)' BY DEF WantedOK
<1>4. UsedOK(e)'
  <2>1. UsedOK(e) BY DEF MInv
  <2>2. ASSUME NEW c \in Cell, NEW b \in Address, Mapped(e, b), view[e][b].committed = c
        PROVE  Mapped(e, b)' /\ view'[e][b].committed = c
    <3>1. CASE b = a BY <1>1, <2>2, <3>1 DEF Mapped
    <3>2. CASE b # a BY <1>1, <2>2, <3>2 DEF Mapped
    <3> QED BY <3>1, <3>2
  <2> QED BY <2>1, <2>2, UsedKept
<1> QED BY <1>2, <1>3, <1>4, MemoryStep

LEMMA PushMemory ==
  ASSUME IInv, MInv, NEW e \in Executor, NEW a \in Address, NEW t \in Executor,
         Pvt!Push(e, a, t), UNCHANGED <<publicVars, pub, lost>>
  PROVE  MInv'
<1>1. PICK y, x : y = view[e][a].author /\ x = [view[e][a] EXCEPT !.owner = t] OBVIOUS
<1>2. PICK m : m = [from |-> e, to |-> t, p |-> a, author |-> y] OBVIOUS
<1>3. /\ a \in pvt[e] /\ pvt' = [pvt EXCEPT ![e] = @ \ {a}]
      /\ view' = Recounted(view, e, a, x)
      /\ pvtPap' = pvtPap \cup {m} /\ m.p = a
      /\ UNCHANGED <<parent, heap, uniq, fwd, pvtDmn, pub, lost>>
  BY <1>1, <1>2 DEF Pvt!Push, Pvt!Release, Pvt!BindOwner, Recounted
<1>4. x # Null /\ x.committed = view[e][a].committed
  <2>1. Mapped(e, a) BY <1>3 DEF IInv, AddressOK, HandleOK, Private
  <2>2. view[e][a] \in Entry BY <2>1, TypeFacts DEF IInv, Typed, TypedTables
  <2>3. x \in Entry /\ x.committed = view[e][a].committed BY <1>1, <2>2 DEF Entry
  <2> QED BY <2>3, ViewAssumption
<1>5. \A f \in Executor, b \in Address : b # a /\ b \in pvt[f] => b \in pvt'[f]
  <2>1. pvt \in [Executor -> SUBSET Address]
    BY TypeParts DEF IInv, TypesApart, PrivateTyped
  <2> QED BY <1>3, <2>1, Removed
<1>6. Alive(a)' BY <1>3 DEF Alive
<1> QED BY <1>3, <1>4, <1>5, <1>6, EntryMemory

(* The entry that a pull binds anew keeps its memory, if it has any.       *)
LEMMA PulledMemory ==
  ASSUME IInv, NEW e \in Executor, NEW m \in pvtPap, NEW a \in Address, a = m.p,
         NEW x, x = Pvt!PulledEntry(e, m)
  PROVE  /\ x # Null
         /\ x.committed = IF Mapped(e, a) THEN view[e][a].committed ELSE Null
<1>1. PICK y \in Executor : y = m.author BY TypeFacts DEF IInv, Typed, TypedPrivate
<1>2. AddressOK(a) /\ HomeOK(a) /\ Source(y, a) /\ KnownPrivate(a)
  BY <1>1 DEF IInv, AddressOK, HandleOK, KnownPrivate
<1>3. Mapped(e, a) => Private(e, a)
  <2>1. ~IsPublic(a) BY <1>2 DEF AddressOK, LevelOK
  <2>2. Mapped(e, a) => view[e][a].author \in Executor /\ view[e][a].access_level \in AccessLevel
    BY TypeFacts DEF IInv, Typed, TypedTables
  <2>3. ~Public(e, a) BY <1>2, <2>1, <2>2 DEF HomeOK, IsPublic, Public
  <2> QED BY <2>2, <2>3 DEF Public, Private, AccessLevel
<1>4. CASE Mapped(e, a) /\ y = e
  <2>1. x = [view[e][a] EXCEPT !.owner = e]
    BY <1>1, <1>4, SameTables DEF Pvt!PulledEntry, Pvt!BindOwner
  <2>2. view[e][a] \in Entry BY <1>4, TypeFacts DEF IInv, Typed, TypedTables
  <2>3. x \in Entry /\ x.committed = view[e][a].committed BY <2>1, <2>2 DEF Entry
  <2> QED BY <1>4, <2>3, ViewAssumption
<1>5. CASE ~(Mapped(e, a) /\ y = e)
  <2>1. x = [committed |-> Null, owner |-> e, author |-> y,
             child |-> IF Mapped(e, a) THEN view[e][a].child ELSE Null,
             access_level |-> "private"]
    BY <1>1, <1>5, SameTables DEF Pvt!PulledEntry
  <2>2. (IF Mapped(e, a) THEN view[e][a].child ELSE Null) \in Cell \cup {Null}
    BY TypeFacts DEF IInv, Typed, TypedTables
  <2>3. x \in Entry BY <2>1, <2>2 DEF Entry, AccessLevel
  <2>4. Mapped(e, a) => view[e][a].committed = Null
    <3>1. ~Keeps(e, a) \/ ~Mapped(e, a) BY <1>2, <1>5 DEF Source
    <3> QED BY <1>2, <1>3, <3>1 DEF AddressOK, EntryOK, Keeps
  <2> QED BY <2>1, <2>3, <2>4, ViewAssumption
<1> QED BY <1>4, <1>5

LEMMA PullMemory ==
  ASSUME IInv, MInv, NEW e \in Executor, NEW m \in pvtPap,
         Pvt!Pull(e, m), UNCHANGED <<publicVars, pub, lost>>
  PROVE  MInv'
<1>1. PICK a \in Address, x \in {Pvt!PulledEntry(e, m)} :
        a = m.p /\ x = Pvt!PulledEntry(e, m)
  BY TypeFacts DEF IInv, Typed, TypedPrivate
<1>2. /\ pvt' = [pvt EXCEPT ![e] = @ \cup {a}]
      /\ view' = Recounted(view, e, a, x)
      /\ pvtPap' = pvtPap \ {m}
      /\ UNCHANGED <<parent, heap, uniq, fwd, pvtDmn, pub, lost>>
  BY <1>1 DEF Pvt!Pull, Pvt!Hold, Recounted
<1>3. \A f \in Executor, b \in Address : b \in pvt'[f] <=> b \in pvt[f] \/ (f = e /\ b = a)
  <2>1. pvt \in [Executor -> SUBSET Address]
    BY TypeParts DEF IInv, TypesApart, PrivateTyped
  <2> QED BY <1>2, <2>1, Added
<1>4. Alive(a)' BY <1>3 DEF Alive
<1>5. x # Null /\ (Mapped(e, a) => x.committed = view[e][a].committed)
  BY <1>1, PulledMemory
<1>6. \A f \in Executor, b \in Address : b # a /\ b \in pvt[f] => b \in pvt'[f]
  BY <1>3
<1>7. \A n \in pvtPap : n \in pvtPap' \/ n.p = a BY <1>1, <1>2
<1> QED BY <1>2, <1>4, <1>5, <1>6, <1>7, EntryMemory

LEMMA LocalAtHomeMemory ==
  ASSUME IInv, MInv, NEW e \in Executor, NEW a \in Address, Pvt!LocalAtHome(e, a),
         UNCHANGED <<publicVars, pub, lost>>
  PROVE  MInv'
<1>1. PICK c : c = view[e][a].committed OBVIOUS
<1>2. /\ a \in pvt[e] /\ view[e][a].author = e
      /\ pvt' = [pvt EXCEPT ![e] = @ \ {a}]
      /\ uniq' = [uniq EXCEPT ![e] = @ \cup {c}]
      /\ UNCHANGED <<view, parent, heap, fwd, pvtPap, pvtDmn, pub, lost>>
  BY <1>1 DEF Pvt!LocalAtHome, Pvt!Point, Pvt!Release, Pvt!tableVars, Pvt!linkVars,
              Pvt!AmAuthor
<1>3. Source(e, a) BY <1>2 DEF IInv, AddressOK, HandleOK
<1>4. c \in Cell /\ parent[e][c] = a
  <2>1. Keeps(e, a) /\ EntryOK(a) /\ ChildOK(a) BY <1>3 DEF IInv, AddressOK, Source
  <2>2. c \in Cell BY <1>1, <2>1, TypeFacts DEF IInv, Keeps, Private, Typed, TypedTables
  <2> QED BY <1>1, <1>2, <2>1, <2>2 DEF EntryOK, ChildOK, Keeps
<1>5. \A f \in Executor, d \in Cell : d \in uniq'[f] <=> d \in uniq[f] \/ (f = e /\ d = c)
  <2>1. uniq \in [Executor -> SUBSET Cell]
    BY TypeParts DEF IInv, TypesApart, PrivateTyped
  <2> QED BY <1>2, <1>4, <2>1, Added
<1>6. \A f \in Executor, b \in Address : b # a /\ b \in pvt[f] => b \in pvt'[f]
  <2>1. pvt \in [Executor -> SUBSET Address]
    BY TypeParts DEF IInv, TypesApart, PrivateTyped
  <2> QED BY <1>2, <2>1, Removed
<1>7. WantedOK(a)'
  <2>1. Open(e, a)' BY <1>2, <1>4, <1>5 DEF Open
  <2>2. \A f \in Executor : Keeps(f, a)' => f = e
    BY <1>2, <1>3 DEF Source, Keeps, Private, Mapped
  <2> QED BY <2>1, <2>2 DEF WantedOK
<1>8. UsedOK(e)'
  <2>1. UsedOK(e) BY DEF MInv
  <2> QED BY <1>2, <2>1 DEF UsedOK, Used, Mapped
<1>9. Elsewhere(e, a) BY <1>2, <1>5, <1>6 DEF Elsewhere
<1> QED BY <1>7, <1>8, <1>9, MemoryStep

(* A block is allocated: no use is given up, and it has one.               *)
LEMMA AllocatedUsed ==
  ASSUME IInv, MInv, NEW e \in Executor, NEW c \in Cell, NEW v,
         heap' = Recounted(heap, e, c, v),
         Used(e, c)',
         \A b \in Address : Mapped(e, b) =>
             Mapped(e, b)' /\ view'[e][b].committed = view[e][b].committed,
         fwd[e] # Null => fwd'[e] = fwd[e],
         pub[e] # Null => pub'[e] = pub[e]
  PROVE  UsedOK(e)'
<1> SUFFICES ASSUME NEW d \in Cell, heap'[e][d] # Null PROVE Used(e, d)'
  BY DEF UsedOK
<1>1. CASE d = c BY <1>1
<1>2. CASE d # c
  <2>1. heap'[e][d] = heap[e][d] BY <1>2, HeapWritten
  <2>2. Used(e, d) BY <2>1 DEF MInv, UsedOK
  <2> QED BY <2>2 DEF Used
<1> QED BY <1>1, <1>2

LEMMA MakeMemory ==
  ASSUME IInv, MInv, NEW e \in Executor, NEW v \in Content, Pvt!Make(e, v),
         UNCHANGED <<publicVars, pub, lost>>
  PROVE  MInv'
<1>1. PICK a \in Address, c \in Cell :
        /\ a \notin issued /\ heap[e][c] = Null
        /\ view' = Recounted(view, e, a, PrivateEntry(e, c))
        /\ parent' = Recounted(parent, e, c, a)
        /\ heap' = Recounted(heap, e, c, v)
        /\ pvt' = [pvt EXCEPT ![e] = @ \cup {a}]
  BY DEF Pvt!Make, Pvt!FreshAddresses, Pvt!FreeCells, Pvt!MmapPrivate,
         Pvt!PrivateEntry, PrivateEntry, Pvt!Hold, Recounted
<1>2. UNCHANGED <<uniq, fwd, pvtPap, pvtDmn, pub, lost>>
  BY DEF Pvt!Make, Pvt!linkVars
<1>3. /\ view'[e][a] = PrivateEntry(e, c)
      /\ \A f \in Executor, b \in Address : f # e \/ b # a => view'[f][b] = view[f][b]
  BY <1>1, ViewWritten
<1>4. \A f \in Executor, d \in Cell : f # e \/ d # c => heap'[f][d] = heap[f][d]
  BY <1>1, HeapWritten
<1>5. \A f \in Executor, d \in Cell : f # e \/ d # c => parent'[f][d] = parent[f][d]
  BY <1>1, ParentWritten
<1>6. \A f \in Executor, b \in Address : b \in pvt'[f] <=> b \in pvt[f] \/ (f = e /\ b = a)
  <2>1. pvt \in [Executor -> SUBSET Address]
    BY TypeParts DEF IInv, TypesApart, PrivateTyped
  <2> QED BY <1>1, <2>1, Added
<1>7. view[e][a] = Null /\ parent[e][c] = Null BY <1>1, FreshAddress, FreeCell
<1>8. Elsewhere(e, a) BY <1>2, <1>3, <1>4, <1>5, <1>6, <1>7 DEF Elsewhere
<1>9. Alive(a)' BY <1>6 DEF Alive
<1>10. Mapped(e, a)' /\ view'[e][a].committed = c
  <2>1. PrivateEntry(e, c) \in Entry /\ PrivateEntry(e, c).committed = c
    BY DEF PrivateEntry, Entry, AccessLevel
  <2> QED BY <1>3, <2>1, ViewAssumption DEF Mapped
<1>11. UsedOK(e)'
  <2>1. Used(e, c)' BY <1>10 DEF Used
  <2>2. ASSUME NEW b \in Address, Mapped(e, b) PROVE view'[e][b] = view[e][b]
    BY <1>3, <1>7, <2>2 DEF Mapped
  <2>3. fwd'[e] = fwd[e] /\ pub'[e] = pub[e] BY <1>2
  <2> QED BY <1>1, <2>1, <2>2, <2>3, AllocatedUsed DEF Mapped
<1> QED BY <1>8, <1>9, <1>11, MemoryStep DEF WantedOK

LEMMA LocalRequestMemory ==
  ASSUME IInv, MInv, NEW e \in Executor, NEW a \in Address, Idle(e),
         Pvt!LocalRequest(e, a), UNCHANGED <<publicVars, pub, lost>>
  PROVE  MInv'
<1>1. PICK c \in Cell :
        /\ heap[e][c] = Null
        /\ heap' = Recounted(heap, e, c, Default)
        /\ parent' = Recounted(parent, e, c, a)
        /\ view' = Recounted(view, e, a, Pvt!BindChild(view[e][a], c))
        /\ fwd' = [fwd EXCEPT ![e] = [p |-> a, lp |-> c, to |-> view[e][a].author]]
  BY DEF Pvt!LocalRequest, Pvt!FreeCells, Recounted
<1>2. /\ a \in pvt[e] /\ fwd[e] = Null /\ pvtDmn \subseteq pvtDmn'
      /\ UNCHANGED <<pvt, uniq, pvtPap, pub, lost>>
  BY DEF Pvt!LocalRequest, Idle
<1>3. PICK x : x = Pvt!BindChild(view[e][a], c) OBVIOUS
<1>4. Private(e, a) /\ view[e][a] \in Entry
  BY <1>2, TypeFacts DEF IInv, AddressOK, HandleOK, Typed, TypedTables, Private
<1>5. x \in Entry /\ x.committed = view[e][a].committed
  BY <1>3, <1>4 DEF Pvt!BindChild, Entry
<1>6. /\ view'[e][a] = x
      /\ \A f \in Executor, b \in Address : f # e \/ b # a => view'[f][b] = view[f][b]
  BY <1>1, <1>3, ViewWritten
<1>7. \A f \in Executor, d \in Cell : f # e \/ d # c => heap'[f][d] = heap[f][d]
  BY <1>1, HeapWritten
<1>8. \A f \in Executor, d \in Cell : f # e \/ d # c => parent'[f][d] = parent[f][d]
  BY <1>1, ParentWritten
<1>9. parent[e][c] = Null BY <1>1, FreeCell
<1>10. /\ fwd'[e] = [p |-> a, lp |-> c, to |-> view[e][a].author]
       /\ \A f \in Executor : f # e => fwd'[f] = fwd[f]
       /\ fwd'[e] \in Pvt!Load
  <2>1. fwd \in [Executor -> Pvt!Load \cup {Null}]
    BY TypeParts DEF IInv, TypesApart, PrivateTyped
  <2>2. view[e][a].author \in Executor BY <1>4 DEF Entry
  <2>3. [p |-> a, lp |-> c, to |-> view[e][a].author] \in Pvt!Load BY <2>2 DEF Pvt!Load
  <2> QED BY <1>1, <2>1, <2>3
<1>11. Elsewhere(e, a) BY <1>2, <1>6, <1>7, <1>8, <1>9, <1>10 DEF Elsewhere
<1>12. Alive(a)' BY <1>2 DEF Alive
<1>13. UsedOK(e)'
  <2>1. Used(e, c)'
    <3>1. fwd'[e] # Null BY <1>10, ContextAssumption
    <3>2. fwd'[e].lp = c BY <1>10
    <3> QED BY <3>1, <3>2 DEF Used
  <2>2. ASSUME NEW b \in Address, Mapped(e, b)
        PROVE  Mapped(e, b)' /\ view'[e][b].committed = view[e][b].committed
    <3>1. CASE b = a BY <1>5, <1>6, <3>1, ViewAssumption DEF Mapped
    <3>2. CASE b # a BY <1>6, <2>2, <3>2 DEF Mapped
    <3> QED BY <3>1, <3>2
  <2> QED BY <1>1, <1>2, <2>1, <2>2, AllocatedUsed
<1> QED BY <1>11, <1>12, <1>13, MemoryStep DEF WantedOK

LEMMA LocalAnswerMemory ==
  ASSUME IInv, MInv, NEW e \in Executor, NEW s \in pvtMem,
         Pvt!LocalAnswer(e, s), UNCHANGED <<publicVars, pub, lost>>
  PROVE  MInv'
<1>1. PICK a \in Address, c \in Cell, y \in Executor :
        fwd[e] # Null /\ a = fwd[e].p /\ c = fwd[e].lp /\ y = fwd[e].to
  BY TypeFacts DEF IInv, Typed, TypedCalls, Pvt!LocalAnswer, Pvt!Running
<1>2. PICK x, q : /\ x = Pvt!BindAuthor(Pvt!BindCommitted(view[e][a], c), e)
                  /\ q = [op |-> "PVT_RESET", from |-> e, to |-> y, p |-> a]
  OBVIOUS
<1>3. /\ heap' = Recounted(heap, e, c, s.value)
      /\ view' = Recounted(view, e, a, x)
      /\ pvtDmn' = pvtDmn \cup {q} /\ q.op = "PVT_RESET" /\ q.to = y /\ q.p = a
      /\ uniq' = [uniq EXCEPT ![e] = @ \cup {c}]
      /\ pvt' = [pvt EXCEPT ![e] = @ \ {a}]
      /\ fwd' = [fwd EXCEPT ![e] = Null]
      /\ UNCHANGED <<parent, pvtPap, pub, lost>>
  BY <1>1, <1>2 DEF Pvt!LocalAnswer, Pvt!Point, Pvt!Release, Recounted
<1>4. /\ a \in pvt[e] /\ view[e][a].child = c /\ Source(y, a) /\ Private(e, a)
      /\ view[e][a].committed = Null
  <2>1. /\ a \in pvt[e] /\ y = view[e][a].author /\ y # e /\ view[e][a].child = c
    BY <1>1 DEF IInv, AddressOK, WaitOK, Loads
  <2>2. Source(y, a) /\ Private(e, a) BY <2>1 DEF IInv, AddressOK, HandleOK
  <2>3. EntryOK(a) BY DEF IInv, AddressOK
  <2> QED BY <2>1, <2>2, <2>3 DEF EntryOK
<1>5. parent[e][c] = a
  <2>1. ChildOK(a) BY DEF IInv, AddressOK
  <2> QED BY <1>4, <2>1, ViewAssumption DEF ChildOK
<1>6. x \in Entry /\ x.committed = c
  <2>1. view[e][a] \in Entry BY <1>4, TypeFacts DEF IInv, Typed, TypedTables, Private
  <2> QED BY <1>2, <2>1 DEF Pvt!BindAuthor, Pvt!BindCommitted, Entry
<1>7. /\ view'[e][a] = x
      /\ \A f \in Executor, b \in Address : f # e \/ b # a => view'[f][b] = view[f][b]
  BY <1>3, ViewWritten
<1>8. \A f \in Executor, d \in Cell : f # e \/ d # c => heap'[f][d] = heap[f][d]
  BY <1>3, HeapWritten
<1>9. /\ \A f \in Executor, d \in Cell : d \in uniq'[f] <=> d \in uniq[f] \/ (f = e /\ d = c)
      /\ \A f \in Executor, b \in Address : b # a /\ b \in pvt[f] => b \in pvt'[f]
      /\ \A f \in Executor : f # e => fwd'[f] = fwd[f]
  <2>1. /\ pvt \in [Executor -> SUBSET Address] /\ uniq \in [Executor -> SUBSET Cell]
        /\ fwd \in [Executor -> Pvt!Load \cup {Null}]
    BY TypeParts DEF IInv, TypesApart, PrivateTyped
  <2> QED BY <1>3, <2>1, Added, Removed
<1>10. Elsewhere(e, a) BY <1>3, <1>7, <1>8, <1>9 DEF Elsewhere
<1>11. WantedOK(a)'
  <2> SUFFICES ASSUME NEW f \in Executor, Keeps(f, a)'
               PROVE  (Open(f, a) \/ Pvt!ResetPending(f, a))'
    BY DEF WantedOK
  <2>1. CASE f = e BY <1>3, <1>5, <1>9, <2>1 DEF Open
  <2>2. CASE f # e
    <3>1. Keeps(f, a) BY <1>7, <2>2 DEF Keeps, Private, Mapped
    <3>2. f = y BY <1>4, <3>1 DEF Source
    <3> QED BY <1>3, <3>2 DEF Pvt!ResetPending
  <2> QED BY <2>1, <2>2
<1>12. UsedOK(e)'
  <2> SUFFICES ASSUME NEW d \in Cell, heap'[e][d] # Null PROVE Used(e, d)'
    BY DEF UsedOK
  <2>1. CASE d = c
    <3>1. Mapped(e, a)' /\ view'[e][a].committed = c BY <1>6, <1>7, ViewAssumption DEF Mapped
    <3> QED BY <2>1, <3>1 DEF Used
  <2>2. CASE d # c
    <3>1. Used(e, d) BY <1>8, <2>2 DEF MInv, UsedOK
    <3>2. ASSUME NEW b \in Address, Mapped(e, b), view[e][b].committed = d
          PROVE  view'[e][b] = view[e][b]
      BY <1>4, <1>7, <3>2, ViewAssumption
    <3> QED BY <1>1, <1>3, <2>2, <3>1, <3>2 DEF Used, Mapped
  <2> QED BY <2>1, <2>2
<1> QED BY <1>10, <1>11, <1>12, MemoryStep

-----------------------------------------------------------------------------
(* Memory that is published *)

LEMMA PublishRequestMemory ==
  ASSUME IInv, MInv, NEW e \in Executor, NEW a \in Address, PublishRequest(e, a)
  PROVE  MInv'
<1>1. PICK b \in Address, c \in Cell :
        /\ heap' = Recounted(heap, e, c, Default)
        /\ pub' = [pub EXCEPT ![e] =
                      [p |-> a, as |-> b, lp |-> c, to |-> view[e][a].author]]
  BY DEF PublishRequest, FreshAddresses, FreeCells, Recounted
<1>2. /\ a \in pvt[e] /\ pub[e] = Null /\ pvtDmn \subseteq pvtDmn'
      /\ UNCHANGED <<view, parent, pvt, uniq, fwd, pvtPap, lost>>
  BY DEF PublishRequest, Idle
<1>3. /\ pub'[e] = [p |-> a, as |-> b, lp |-> c, to |-> view[e][a].author]
      /\ \A f \in Executor : f # e => pub'[f] = pub[f]
      /\ pub'[e] \in Publishing
  <2>1. pub \in [Executor -> Publishing \cup {Null}] BY TypeParts DEF IInv, TypesApart, PubTyped
  <2>2. view[e][a].author \in Executor
    BY <1>2, TypeFacts DEF IInv, AddressOK, HandleOK, Private, Typed, TypedTables
  <2>3. [p |-> a, as |-> b, lp |-> c, to |-> view[e][a].author] \in Publishing
    BY <2>2 DEF Publishing
  <2> QED BY <1>1, <2>1, <2>3
<1>4. \A f \in Executor, d \in Cell : f # e \/ d # c => heap'[f][d] = heap[f][d]
  BY <1>1, HeapWritten
<1>5. Elsewhere(e, a) BY <1>2, <1>3, <1>4 DEF Elsewhere
<1>6. Alive(a)' BY <1>2 DEF Alive
<1>7. UsedOK(e)'
  <2>1. Used(e, c)'
    <3>1. pub'[e] # Null BY <1>3, ContextAssumption
    <3>2. pub'[e].lp = c BY <1>3
    <3> QED BY <3>1, <3>2 DEF Used
  <2> QED BY <1>1, <1>2, <2>1, AllocatedUsed DEF Mapped
<1> QED BY <1>5, <1>6, <1>7, MemoryStep DEF WantedOK

(* The block c becomes the memory of the public address b.                 *)
LEMMA MovedMemory ==
  ASSUME IInv, MInv, NEW e \in Executor, NEW a \in Address, NEW b \in Address,
         NEW c \in Cell, a # b, b \notin issued \/ InPublish(b),
         Remap(e, a, b, c), Publicize(e, a, b),
         UNCHANGED <<uniq, fwd, pvtPap, lost>>,
         \A r \in pvtDmn : r \in pvtDmn',
         \A f \in Executor : f # e => pub'[f] = pub[f],
         \A f \in Executor, d \in Cell : parent[f][d] \notin {a, Null} =>
             parent'[f][d] = parent[f][d],
         \A f \in Executor, d \in Cell : f # e \/ d # c => heap'[f][d] = heap[f][d],
         \A f \in Executor : f # e /\ Keeps(f, a) => Pvt!ResetPending(f, a)',
         \A d \in Cell : d # c =>
             view[e][a].committed # d /\ ~(pub[e] # Null /\ pub[e].lp = d)
  PROVE  MInv'
<1>1. /\ view' \in [Executor -> [Address -> Entry \cup {Null}]]
      /\ view'[e][a] = Null
      /\ view'[e][b] = Pub!PublicEntry(e, c)
      /\ \A f \in Executor, d \in Address : ~(f = e /\ d \in {a, b}) => view'[f][d] = view[f][d]
  <2>1. view \in [Executor -> [Address -> Entry \cup {Null}]]
    BY TypeParts DEF IInv, TypesApart, TableTypeOK
  <2>2. PICK w : w = [view EXCEPT ![e][a] = Null] OBVIOUS
  <2>3. /\ w \in [Executor -> [Address -> Entry \cup {Null}]] /\ w[e][a] = Null
        /\ \A f \in Executor, d \in Address : f # e \/ d # a => w[f][d] = view[f][d]
    BY <2>1, <2>2, Written
  <2>4. view' = [w EXCEPT ![e][b] = Pub!PublicEntry(e, c)] BY <2>2 DEF Remap
  <2>5. Pub!PublicEntry(e, c) \in Entry BY DEF Pub!PublicEntry, Entry, AccessLevel
  <2> QED BY <2>3, <2>4, <2>5, Written
<1>2. Mapped(e, b)' /\ ~Private(e, b)' /\ view'[e][b].committed = c
  <2>1. Pub!PublicEntry(e, c) \in Entry BY DEF Pub!PublicEntry, Entry, AccessLevel
  <2> QED BY <1>1, <2>1, ViewAssumption DEF Pub!PublicEntry, Mapped, Private
<1>3. ~Mapped(e, b)
  <2>1. LevelOK(b) /\ HomeOK(b) BY DEF IInv, AddressOK
  <2>2. ~KnownPrivate(b) /\ ~IsPublic(b) BY <2>1 DEF LevelOK
  <2>3. Mapped(e, b) => view[e][b].author \in Executor /\ view[e][b].access_level \in AccessLevel
    BY TypeFacts DEF IInv, Typed, TypedTables
  <2> QED BY <2>1, <2>2, <2>3 DEF KnownPrivate, HomeOK, IsPublic, Public, Private, AccessLevel
<1>4. \A f \in Executor, d \in Address : d # a /\ d \in pvt[f] => d \in pvt'[f]
  <2>1. pvt \in [Executor -> SUBSET Address]
    BY TypeParts DEF IInv, TypesApart, PrivateTyped
  <2>2. pvt' = [pvt EXCEPT ![e] = @ \ {a}] BY DEF Publicize, Pvt!Release
  <2> QED BY <2>1, <2>2, Removed
<1>5. Elsewhere(e, a)
  <2>1. ASSUME NEW f \in Executor, NEW d \in Address, d # a
        PROVE  view'[f][d] = view[f][d] \/ ~Private(f, d)'
    BY <1>1, <1>2, <2>1
  <2>2. \A f \in Executor : f # e =>
          /\ \A d \in Address : view'[f][d] = view[f][d]
          /\ \A d \in Cell : heap'[f][d] = heap[f][d]
          /\ fwd'[f] = fwd[f] /\ pub'[f] = pub[f]
    BY <1>1
  <2> QED BY <1>4, <2>1, <2>2 DEF Elsewhere
<1>6. WantedOK(a)'
  <2> SUFFICES ASSUME NEW f \in Executor, Keeps(f, a)' PROVE Pvt!ResetPending(f, a)'
    BY DEF WantedOK
  <2>1. f # e BY <1>1 DEF Keeps, Private, Mapped
  <2>2. Keeps(f, a) BY <1>1, <2>1 DEF Keeps, Private, Mapped
  <2> QED BY <2>1, <2>2
<1>7. UsedOK(e)'
  <2> SUFFICES ASSUME NEW d \in Cell, heap'[e][d] # Null PROVE Used(e, d)'
    BY DEF UsedOK
  <2>1. CASE d = c BY <1>2, <2>1 DEF Used
  <2>2. CASE d # c
    <3>1. Used(e, d) /\ view[e][a].committed # d /\ ~(pub[e] # Null /\ pub[e].lp = d)
      BY <2>2 DEF MInv, UsedOK
    <3>2. ASSUME NEW x \in Address, Mapped(e, x), view[e][x].committed = d
          PROVE  view'[e][x] = view[e][x]
      BY <1>1, <1>3, <3>1, <3>2
    <3> QED BY <3>1, <3>2 DEF Used, Mapped
  <2> QED BY <2>1, <2>2
<1> QED BY <1>5, <1>6, <1>7, MemoryStep

LEMMA PublishAtHomeMemory ==
  ASSUME IInv, MInv, NEW e \in Executor, NEW a \in Address, PublishAtHome(e, a)
  PROVE  MInv'
<1>1. PICK b \in Address, c \in {view[e][a].committed} :
        /\ b \notin issued /\ Remap(e, a, b, c) /\ Publicize(e, a, b)
  BY DEF PublishAtHome, FreshAddresses
<1>2. /\ a \in pvt[e] /\ view[e][a].author = e /\ pub[e] = Null
      /\ parent' = ParentsWithout(e, a)
      /\ UNCHANGED <<heap, uniq, fwd, pvtPap, pvtDmn, lost, pub>>
  BY DEF PublishAtHome, Pvt!AmAuthor, Idle
<1>3. Source(e, a) BY <1>2 DEF IInv, AddressOK, HandleOK
<1>4. c \in Cell /\ view[e][a].child = c /\ parent[e][c] = a
  <2>1. Keeps(e, a) /\ EntryOK(a) /\ ChildOK(a) BY <1>3 DEF IInv, AddressOK, Source
  <2>2. c \in Cell BY <1>1, <2>1, TypeFacts DEF IInv, Keeps, Private, Typed, TypedTables
  <2> QED BY <1>1, <1>2, <2>1, <2>2 DEF EntryOK, ChildOK, Keeps
<1>5. a # b
  <2>1. a \in issued BY <1>2 DEF IInv, AddressOK, LevelOK, KnownPrivate
  <2> QED BY <1>1, <2>1
<1>6. \A f \in Executor, d \in Cell : parent[f][d] \notin {a, Null} =>
          parent'[f][d] = parent[f][d]
  <2>1. parent \in [Executor -> [Cell -> Address \cup {Null}]]
    BY TypeParts DEF IInv, TypesApart, TableTypeOK
  <2> QED BY <1>2, <1>4, <2>1 DEF ParentsWithout
<1>7. \A f \in Executor : f # e => ~Keeps(f, a) BY <1>3 DEF Source
<1>8. /\ \A d \in Cell : d # c => view[e][a].committed # d
      /\ \A f \in Executor, d \in Cell : heap'[f][d] = heap[f][d]
  BY <1>1, <1>2
<1> QED BY <1>1, <1>2, <1>4, <1>5, <1>6, <1>7, <1>8, MovedMemory

LEMMA PublishAnswerMemory ==
  ASSUME IInv, MInv, NEW e \in Executor, NEW s \in pvtMem, PublishAnswer(e, s)
  PROVE  MInv'
<1>1. PICK a \in Address, b \in Address, c \in Cell, y \in Executor :
        pub[e] # Null /\ a = pub[e].p /\ b = pub[e].as /\ c = pub[e].lp /\ y = pub[e].to
  BY TypeFacts DEF IInv, Typed, TypedCalls, PublishAnswer
<1>2. PICK q : q = [op |-> "PVT_RESET", from |-> e, to |-> y, p |-> a] OBVIOUS
<1>3. /\ Remap(e, a, b, c) /\ Publicize(e, a, b)
      /\ heap' = Recounted(heap, e, c, s.value)
      /\ pvtDmn' = pvtDmn \cup {q} /\ q.op = "PVT_RESET" /\ q.to = y /\ q.p = a
      /\ pub' = [pub EXCEPT ![e] = Null]
      /\ UNCHANGED <<parent, uniq, fwd, pvtPap, lost>>
  BY <1>1, <1>2 DEF PublishAnswer, Fill, ReleaseCopy, Recounted
<1>4. /\ a \in pvt[e] /\ Source(y, a) /\ view[e][a].committed = Null
  <2>1. a \in pvt[e] /\ y = view[e][a].author /\ y # e
    BY <1>1 DEF IInv, AddressOK, WaitOK, Publishes
  <2>2. Source(y, a) /\ Private(e, a) BY <2>1 DEF IInv, AddressOK, HandleOK
  <2>3. EntryOK(a) BY DEF IInv, AddressOK
  <2> QED BY <2>1, <2>2, <2>3 DEF EntryOK
<1>5. InPublish(b) BY <1>1 DEF InPublish
<1>6. a # b
  <2>1. ~InPublish(a) BY <1>4 DEF IInv, AddressOK, LevelOK, KnownPrivate
  <2> QED BY <1>5, <2>1
<1>7. \A f \in Executor, d \in Cell : f # e \/ d # c => heap'[f][d] = heap[f][d]
  BY <1>3, HeapWritten
<1>8. \A f \in Executor : f # e /\ Keeps(f, a) => Pvt!ResetPending(f, a)'
  BY <1>3, <1>4 DEF Source, Pvt!ResetPending
<1>9. \A d \in Cell : d # c =>
          view[e][a].committed # d /\ ~(pub[e] # Null /\ pub[e].lp = d)
  BY <1>1, <1>4, ViewAssumption
<1>10. /\ \A r \in pvtDmn : r \in pvtDmn'
       /\ \A f \in Executor : f # e => pub'[f] = pub[f]
       /\ \A f \in Executor, d \in Cell : parent'[f][d] = parent[f][d]
  <2>1. pub \in [Executor -> Publishing \cup {Null}] BY TypeParts DEF IInv, TypesApart, PubTyped
  <2> QED BY <1>3, <2>1
<1>11. UNCHANGED <<uniq, fwd, pvtPap, lost>> BY <1>3
<1> QED BY <1>3, <1>5, <1>6, <1>7, <1>8, <1>9, <1>10, <1>11, MovedMemory

(* A lost capability leaves memory that nobody will release.               *)
LEMMA PullPrivateAsPublicMemory ==
  ASSUME IInv, MInv, NEW e \in Executor, NEW m \in pvtPap, PullPrivateAsPublic(e, m)
  PROVE  MInv'
<1>1. PICK a \in Address : a = m.p BY TypeFacts DEF IInv, Typed, TypedPrivate
<1>2. /\ pvtPap' = pvtPap \ {m} /\ lost' = [lost EXCEPT ![a] = @ + 1]
      /\ UNCHANGED <<view, parent, heap, pvt, uniq, fwd, pvtDmn, pub>>
  BY <1>1 DEF PullPrivateAsPublic, Lose, tableVars
<1>3. \A b \in Address : lost'[b] = IF b = a THEN lost[b] + 1 ELSE lost[b]
  <2>1. lost \in [Address -> 0 .. MaxLost] BY TypeParts DEF IInv, TypesApart, LostTyped
  <2> QED BY <1>2, <2>1
<1>4. lost[a] \in Nat
  <2>1. lost \in [Address -> 0 .. MaxLost] BY TypeParts DEF IInv, TypesApart, LostTyped
  <2> QED BY <2>1
<1>5. lost'[a] > 0 /\ \A b \in Address : lost[b] > 0 => lost'[b] > 0 BY <1>3, <1>4
<1>6. Elsewhere(e, a) BY <1>1, <1>2, <1>5 DEF Elsewhere
<1>7. UsedOK(e)'
  <2>1. UsedOK(e) BY DEF MInv
  <2> QED BY <1>2, <2>1 DEF UsedOK, Used, Mapped
<1> QED BY <1>5, <1>6, <1>7, MemoryStep DEF WantedOK

(* What is lost of public addresses disturbs no memory.                    *)
LEMMA LoseMemory ==
  ASSUME IInv, MInv, NEW a \in Address, Lose(a), UNCHANGED <<tableVars, privateVars, pub>>
  PROVE  MInv'
<1>1. lost \in [Address -> 0 .. MaxLost] BY TypeParts DEF IInv, TypesApart, LostTyped
<1>2. \A b \in Address : lost'[b] = IF b = a THEN lost[b] + 1 ELSE lost[b]
  BY <1>1 DEF Lose
<1>3. \A b \in Address : lost[b] \in Nat BY <1>1
<1>4. \A b \in Address : lost[b] > 0 => lost'[b] > 0 BY <1>2, <1>3
<1> QED BY <1>4, QuietMemory DEF tableVars, privateVars

-----------------------------------------------------------------------------
LEMMA PrivateUserMemory ==
  ASSUME IInv, MInv, NEW e \in Executor, PrivateUser(e)
  PROVE  MInv'
<1>0. Idle(e) /\ UNCHANGED <<publicVars, pub, lost>> BY DEF PrivateUser
<1>1. ASSUME NEW v \in Content, Pvt!Make(e, v) PROVE MInv'
  BY <1>0, <1>1, MakeMemory
<1>2. ASSUME NEW c \in Cell, Pvt!DropUnique(e, c) PROVE MInv'
  BY <1>0, <1>2, DropUniqueMemory
<1>3. ASSUME NEW a \in Address, Pvt!LocalAtHome(e, a) PROVE MInv'
  BY <1>0, <1>3, LocalAtHomeMemory
<1>4. ASSUME NEW a \in Address, Pvt!LocalRequest(e, a) PROVE MInv'
  BY <1>0, <1>4, LocalRequestMemory
<1>5. ASSUME NEW a \in Address, Pvt!Drop(e, a) PROVE MInv'
  BY <1>0, <1>5, DropMemory
<1>6. ASSUME NEW a \in Address, NEW t \in Executor, Pvt!Push(e, a, t) PROVE MInv'
  BY <1>0, <1>6, PushMemory
<1>7. ASSUME NEW m \in pvtPap, Pvt!Pull(e, m) PROVE MInv'
  BY <1>0, <1>7, PullMemory
<1> QED BY <1>1, <1>2, <1>3, <1>4, <1>5, <1>6, <1>7 DEF PrivateUser

LEMMA PrivateDaemonMemory ==
  ASSUME IInv, MInv, NEW e \in Executor, PrivateDaemon(e)
  PROVE  MInv'
<1>1. UNCHANGED <<publicVars, pub, lost>> BY DEF PrivateDaemon
<1>2. ASSUME NEW r \in pvtDmn, Pvt!DmnPvtReset(r) PROVE MInv'
  BY <1>1, <1>2, DmnResetMemory
<1>3. ASSUME NEW r \in pvtDmn, Pvt!DmnRload(r) PROVE MInv'
  <2>1. /\ \A q \in pvtDmn : IsReset(q) => q \in pvtDmn'
        /\ UNCHANGED <<view, parent, heap, pvt, uniq, fwd, pvtPap, pub, lost>>
    BY <1>1, <1>3 DEF Pvt!DmnRload, IsReset, Pvt!tableVars, Pvt!userVars
  <2> QED BY <2>1, QuietMemory
<1> QED BY <1>2, <1>3 DEF PrivateDaemon, Pvt!Daemon

LEMMA BothMemory ==
  ASSUME IInv, MInv, NEW e \in Executor, Both(e)
  PROVE  MInv'
<1>1. ASSUME NEW a \in Address, PublishAtHome(e, a) PROVE MInv'
  BY <1>1, PublishAtHomeMemory
<1>2. ASSUME NEW a \in Address, PublishRequest(e, a) PROVE MInv'
  BY <1>2, PublishRequestMemory
<1>3. ASSUME NEW m \in pvtPap, PullPrivateAsPublic(e, m) PROVE MInv'
  BY <1>3, PullPrivateAsPublicMemory
<1>4. ASSUME NEW m \in pubPap, PullPublicAsPrivate(e, m) PROVE MInv'
  <2>1. m.p \in Address BY TypeFacts DEF IInv, Typed, TypedPublic
  <2> QED BY <1>4, <2>1, LoseMemory DEF PullPublicAsPrivate
<1>5. ASSUME NEW h \in Handle, Overwrite(e, h) PROVE MInv'
  <2>1. ptr[h].p \in Address BY <1>5, PublicKnown DEF Overwrite, Pub!HeldBy
  <2> QED BY <1>5, <2>1, LoseMemory DEF Overwrite
<1> QED BY <1>1, <1>2, <1>3, <1>4, <1>5 DEF Both

LEMMA ResumeMemory ==
  ASSUME IInv, MInv, NEW e \in Executor, Resume(e)
  PROVE  MInv'
<1>1. ASSUME Pvt!Answered(e), UNCHANGED <<publicVars, pub, lost>> PROVE MInv'
  BY <1>1, LocalAnswerMemory DEF Pvt!Answered
<1>2. ASSUME Pub!Answered(e) \/ Pub!PushCount(e), UNCHANGED <<privateVars, pub, lost>>
      PROVE  MInv'
  <2>1. UNCHANGED <<view, parent, heap, pvt, uniq, fwd, pvtPap, pvtDmn, pub, lost>>
    BY <1>2 DEF Pub!Answered, Pub!PushCount, Pub!tableVars, privateVars
  <2> QED BY <2>1, QuietMemory
<1>3. ASSUME NEW s \in pvtMem, PublishAnswer(e, s) PROVE MInv'
  BY <1>3, PublishAnswerMemory
<1> QED BY <1>1, <1>2, <1>3 DEF Resume

LEMMA NextMemory ==
  ASSUME IInv, CInv, MInv, [Next]_vars
  PROVE  MInv'
<1>1. CASE Finished \/ UNCHANGED vars
  <2>1. UNCHANGED vars
    BY <1>1 DEF Finished, Pvt!Finished, Pub!Finished, Pvt!vars, Pub!vars, vars,
                Pvt!tableVars, Pvt!userVars, Pvt!linkVars, Pub!tableVars, Pub!linkVars,
                tableVars, privateVars, publicVars
  <2> QED BY <2>1, QuietMemory DEF vars, tableVars, privateVars
<1> QED
  BY <1>1, PrivateUserMemory, PublicUserMemory, BothMemory, ResumeMemory,
     PrivateDaemonMemory, PublicDaemonMemory DEF Next

LEMMA InitMemory == Init => MInv
<1> SUFFICES ASSUME Init PROVE MInv OBVIOUS
<1>1. /\ view = [e \in Executor |-> [a \in Address |-> Null]]
      /\ heap = [e \in Executor |-> [c \in Cell |-> Null]]
  BY DEF Init, Pub!Init, Pub!TableInit
<1>2. \A a \in Address : WantedOK(a) BY <1>1 DEF WantedOK, Keeps, Private, Mapped
<1>3. \A e \in Executor : UsedOK(e) BY <1>1 DEF UsedOK
<1> QED BY <1>2, <1>3 DEF MInv

(* In every reachable state: memory is where it is wanted, and a live      *)
(* block is in use.                                                        *)
THEOREM MemoryInvariant == Spec => [](IInv /\ CInv /\ MInv)
<1>1. Init => IInv /\ CInv /\ MInv BY InitOK, InitCounts, InitMemory
<1>2. (IInv /\ CInv /\ MInv) /\ [Next]_vars => (IInv /\ CInv /\ MInv)'
  <2> SUFFICES ASSUME IInv, CInv, MInv, [Next]_vars PROVE IInv' /\ CInv' /\ MInv' OBVIOUS
  <2>1. IInv' BY NextStep
  <2>2. CInv' BY <2>1, NextCounts
  <2> QED BY <2>1, <2>2, NextMemory
<1> QED BY <1>1, <1>2, PTL DEF Spec

-----------------------------------------------------------------------------
(* A block has one use *)

(* A block that backs an address, or that a call is filling, is live.      *)
LEMMA BackingLive ==
  ASSUME IInv, NEW e \in Executor, NEW a \in Address, NEW c \in Cell,
         Mapped(e, a), view[e][a].committed = c
  PROVE  /\ heap[e][c] # Null
         /\ Private(e, a) => Keeps(e, a) /\ parent[e][c] = a
         /\ Public(e, a) => parent[e][c] = Null
         /\ Private(e, a) \/ Public(e, a)
<1>1. c # Null BY ViewAssumption
<1>2. EntryOK(a) /\ ChildOK(a) /\ BlockOK(e) BY DEF IInv, AddressOK
<1>3. Private(e, a) \/ Public(e, a)
  BY TypeFacts DEF IInv, Typed, TypedTables, Private, Public, AccessLevel
<1>4. Private(e, a) => Keeps(e, a) /\ view[e][a].child = c
  BY <1>1, <1>2 DEF EntryOK, Keeps
<1>5. Private(e, a) => parent[e][c] = a BY <1>1, <1>2, <1>4 DEF ChildOK
<1>6. parent[e][c] = a => heap[e][c] # Null BY <1>2 DEF ChildOK
<1>7. Public(e, a) => heap[e][c] # Null /\ parent[e][c] = Null BY <1>1, <1>2 DEF BlockOK
<1> QED BY <1>3, <1>4, <1>5, <1>6, <1>7

LEMMA LoadingLive ==
  ASSUME IInv, NEW e \in Executor, fwd[e] # Null
  PROVE  /\ fwd[e].p \in Address /\ fwd[e].lp \in Cell /\ pub[e] = Null
         /\ parent[e][fwd[e].lp] = fwd[e].p /\ heap[e][fwd[e].lp] # Null
         /\ ~Keeps(e, fwd[e].p)
<1>1. PICK a \in Address, c \in Cell : a = fwd[e].p /\ c = fwd[e].lp
  BY TypeFacts DEF IInv, Typed, TypedCalls
<1>2. /\ a \in pvt[e] /\ fwd[e].to = view[e][a].author /\ fwd[e].to # e
      /\ view[e][a].child = c
  BY <1>1 DEF IInv, AddressOK, WaitOK, Loads
<1>3. Private(e, a) BY <1>2 DEF IInv, AddressOK, HandleOK
<1>4. parent[e][c] = a /\ heap[e][c] # Null
  <2>1. ChildOK(a) /\ c # Null BY ViewAssumption DEF IInv, AddressOK
  <2> QED BY <1>2, <1>3, <2>1 DEF ChildOK
<1>5. ~Keeps(e, a) BY <1>2 DEF Keeps
<1>6. pub[e] = Null BY DEF IInv, OneCall
<1> QED BY <1>1, <1>4, <1>5, <1>6

LEMMA FillingLive ==
  ASSUME IInv, NEW e \in Executor, pub[e] # Null
  PROVE  /\ pub[e].lp \in Cell /\ fwd[e] = Null
         /\ parent[e][pub[e].lp] = Null /\ heap[e][pub[e].lp] # Null
         /\ \A a \in Address : Mapped(e, a) => view[e][a].committed # pub[e].lp
<1>1. PICK c \in Cell : c = pub[e].lp BY TypeFacts DEF IInv, Typed, TypedCalls
<1>2. parent[e][c] = Null /\ heap[e][c] # Null /\ fwd[e] = Null
  BY <1>1 DEF IInv, BlockOK, OneCall
<1>3. ASSUME NEW a \in Address, Mapped(e, a), view[e][a].committed = c PROVE FALSE
  <2>1. c # Null /\ a # Null BY ViewAssumption
  <2>2. Public(e, a) BY <1>2, <1>3, <2>1, BackingLive
  <2> QED BY <1>1, <1>3, <2>1, <2>2 DEF IInv, BlockOK
<1> QED BY <1>1, <1>2, <1>3

(* A block backs one address.                                              *)
LEMMA BackingOne ==
  ASSUME IInv, NEW e \in Executor, NEW c \in Cell, NEW a \in Address, NEW b \in Address,
         Mapped(e, a), view[e][a].committed = c, Mapped(e, b), view[e][b].committed = c
  PROVE  a = b
<1>1. c # Null /\ a # Null /\ b # Null BY ViewAssumption
<1>2. CASE Private(e, a) \/ Private(e, b) BY <1>1, <1>2, BackingLive
<1>3. CASE Public(e, a) /\ Public(e, b) BY <1>1, <1>3 DEF IInv, BlockOK
<1> QED BY <1>2, <1>3, BackingLive

(* Each block of local memory has exactly the use it is allocated for, and *)
(* memory is kept for an address as long as somebody will look for it, a   *)
(* release is on its way, references are counted, or the application lost  *)
(* the pointer: nothing is freed twice and nothing leaks.                  *)
THEOREM Accounted == Spec => []MemoryAccounted
<1>1. ASSUME IInv, NEW e \in Executor, NEW c \in Cell, heap[e][c] = Null
      PROVE  Cardinality(UsesOf(e, c)) = 0
  <2>1. UsesOf(e, c) = {} BY <1>1, BackingLive, LoadingLive, FillingLive DEF UsesOf
  <2> QED BY <2>1, FS_EmptySet
<1>2. ASSUME IInv, MInv, NEW e \in Executor, NEW c \in Cell, heap[e][c] # Null
      PROVE  Cardinality(UsesOf(e, c)) = 1
  <2>1. Used(e, c) BY <1>2 DEF MInv, UsedOK
  <2>2. CASE \E a \in Address : Mapped(e, a) /\ view[e][a].committed = c
    <3>1. PICK a \in Address : Mapped(e, a) /\ view[e][a].committed = c BY <2>2
    <3>2. \A b \in Address : Mapped(e, b) /\ view[e][b].committed = c => b = a
      BY <1>2, <3>1, BackingOne
    <3>3. ~(fwd[e] # Null /\ fwd[e].lp = c)
      <4> SUFFICES ASSUME fwd[e] # Null, fwd[e].lp = c PROVE FALSE OBVIOUS
      <4>1. parent[e][c] = fwd[e].p /\ fwd[e].p \in Address /\ ~Keeps(e, fwd[e].p)
        BY <1>2, LoadingLive
      <4>2. fwd[e].p # Null BY <4>1, ViewAssumption
      <4> QED BY <1>2, <3>1, <4>1, <4>2, BackingLive
    <3>4. ~(pub[e] # Null /\ pub[e].lp = c) BY <1>2, <3>1, FillingLive
    <3>5. UsesOf(e, c) = {<<"backs", a>>} BY <3>1, <3>2, <3>3, <3>4 DEF UsesOf
    <3> QED BY <3>5, FS_Singleton
  <2>3. CASE fwd[e] # Null /\ fwd[e].lp = c /\ ~\E a \in Address :
               Mapped(e, a) /\ view[e][a].committed = c
    <3>1. pub[e] = Null BY <1>2, <2>3, LoadingLive
    <3>2. UsesOf(e, c) = {<<"loads", fwd[e].p>>} BY <2>3, <3>1 DEF UsesOf
    <3> QED BY <3>2, FS_Singleton
  <2>4. CASE pub[e] # Null /\ pub[e].lp = c /\ ~\E a \in Address :
               Mapped(e, a) /\ view[e][a].committed = c
    <3>1. fwd[e] = Null BY <1>2, <2>4, FillingLive
    <3>2. UsesOf(e, c) = {<<"publishes", pub[e].as>>} BY <2>4, <3>1 DEF UsesOf
    <3> QED BY <3>2, FS_Singleton
  <2> QED BY <2>1, <2>2, <2>3, <2>4 DEF Used
<1>3. ASSUME IInv, CInv, MInv, NEW e \in Executor, NEW a \in Address, Backs(e, a)
      PROVE  Wanted(e, a)
  <2>1. Mapped(e, a) /\ view[e][a].committed # Null BY <1>3 DEF Backs
  <2>2. view[e][a].committed \in Cell BY <1>3, <2>1, TypeFacts DEF IInv, Typed, TypedTables
  <2>3. CASE Private(e, a)
    <3>1. Keeps(e, a) BY <1>3, <2>1, <2>2, <2>3, BackingLive
    <3>2. HandleOK(a) /\ ChildOK(a) /\ WantedOK(a) BY <1>3 DEF IInv, AddressOK, MInv
    <3>3. CASE \E f \in Executor : a \in pvt[f]
      <4>1. PICK f \in Executor : a \in pvt[f] BY <3>3
      <4>2. view[f][a].author = e BY <3>1, <3>2, <4>1 DEF HandleOK, Source
      <4> QED BY <4>1, <4>2 DEF Wanted, Pvt!BackedFrom, Pvt!HeldBy
    <3>4. CASE \E m \in pvtPap : m.p = a
      <4>1. PICK m \in pvtPap : m.p = a BY <3>4
      <4>2. m.author = e BY <3>1, <3>2, <4>1 DEF HandleOK, Source
      <4> QED BY <4>1, <4>2 DEF Wanted, Pvt!BackedFrom
    <3>5. CASE Open(e, a)
      <4>1. view[e][a].author = e BY <3>1 DEF Keeps
      <4> QED BY <3>5, <4>1 DEF Wanted, Pvt!BackedFrom, Pvt!OpenAt, Open
    <3>6. CASE Pvt!ResetPending(e, a) \/ lost[a] > 0 BY <3>6 DEF Wanted
    <3> QED BY <3>1, <3>2, <3>3, <3>4, <3>5, <3>6 DEF WantedOK, Alive
  <2>4. CASE Public(e, a)
    <3>1. MemoryOK(a) BY <1>3 DEF CInv
    <3>2. rc[e][a] # Null /\ rc[e][a] # 0 BY <1>3, <2>1, <2>4, <3>1 DEF MemoryOK
    <3>3. rc[e][a] \in Nat BY <1>3, <3>2, Count
    <3>4. rc[e][a] > 0 BY <3>2, <3>3
    <3> QED BY <3>2, <3>4 DEF Wanted
  <2> QED BY <1>3, <2>1, <2>2, <2>3, <2>4, BackingLive
<1>4. IInv /\ CInv /\ MInv => MemoryAccounted
  BY <1>1, <1>2, <1>3 DEF MemoryAccounted
<1> QED BY <1>4, MemoryInvariant, PTL

-----------------------------------------------------------------------------
(* What the application sees of a state *)

Places   == [a \in Address |-> PlaceOf(a)]
Contents == [a \in Address |-> ContentOf(a)]
Counted  == [a \in Address |-> Cardinality(Refs[a])]
Wasted   == {a \in Address : lost[a] > 0}

(* The copy that counts: its release is not on the way.                    *)
Copy(e, a) == Backs(e, a) /\ ~Pvt!ResetPending(e, a)

(* Nothing works on a private address whose capability was lost, and one   *)
(* executor at most keeps its memory.                                      *)
LossOK(a) ==
    lost[a] > 0 /\ ~IsPublic(a) =>
        /\ ~Alive(a)
        /\ \A e \in Executor : ~Open(e, a) /\ ~Pvt!ResetPending(e, a)
        /\ \A x, y \in Executor : Keeps(x, a) /\ Keeps(y, a) => x = y

(* An answer to a user thread that waits for a brings its content.         *)
ValueOK(a) ==
    \A s \in pvtMem : Fetches(s.to, s.from, a) => s.value = Contents[a]

(* What a state shows, and what its parts have to do with it.              *)
RInv == IInv /\ CInv /\ MInv /\ \A a \in Address : LossOK(a)

SeenPlaces ==
    \A a \in Address :
        /\ a \notin issued \/ InPublish(a) => Places[a] = Memory!Private!Unborn
        /\ IsPublic(a) => Places[a] = Memory!Public
        /\ ~IsPublic(a) /\ lost[a] > 0 => Places[a] = Memory!Lost
        /\ \A e \in Executor :
              /\ a \in pvt[e] => Places[a] = Memory!Private!At("held", e)
              /\ Open(e, a) => Places[a] = Memory!Private!At("open", e)
        /\ \A m \in pvtPap : m.p = a => Places[a] = Memory!Private!At("sent", m.to)
        /\ (/\ a \in issued /\ ~InPublish(a) /\ ~IsPublic(a) /\ ~(lost[a] > 0)
            /\ ~Alive(a) /\ \A e \in Executor : ~Open(e, a))
           => Places[a] = Memory!Private!Gone

SeenContents ==
    \A a \in Address :
        /\ \A e \in Executor : Copy(e, a) => Contents[a] = heap[e][view[e][a].committed]
        /\ (\A e \in Executor : ~Copy(e, a)) => Contents[a] = Null

(* Where the capability of a private address is, nothing else is.          *)
LEMMA CapabilityFacts ==
  ASSUME RInv, NEW a \in Address, Alive(a) \/ \E e \in Executor : Open(e, a) \/ Pvt!ResetPending(e, a)
  PROVE  /\ KnownPrivate(a) /\ a \in issued /\ ~IsPublic(a) /\ ~InPublish(a)
         /\ lost[a] = 0
<1>1. AddressOK(a) /\ Typed BY TypeFacts DEF RInv, IInv
<1>2. KnownPrivate(a)
  <2>1. ASSUME NEW e \in Executor, Open(e, a) PROVE KnownPrivate(a)
    <3>1. uniq[e] \in SUBSET Cell
      BY TypeParts DEF RInv, IInv, TypesApart, PrivateTyped
    <3> QED BY <2>1, <3>1 DEF Open, KnownPrivate
  <2> QED BY <2>1 DEF Alive, Pvt!ResetPending, KnownPrivate
<1>3. a \in issued /\ ~IsPublic(a) /\ ~InPublish(a) BY <1>1, <1>2 DEF AddressOK, LevelOK
<1>4. ~(lost[a] > 0) BY <1>3 DEF RInv, LossOK
<1>5. lost[a] \in Nat
  <2>1. lost \in [Address -> 0 .. MaxLost]
    BY TypeParts DEF RInv, IInv, TypesApart, LostTyped
  <2> QED BY <2>1
<1> QED BY <1>2, <1>3, <1>4, <1>5

LEMMA PlacesSeen == RInv => SeenPlaces
<1> SUFFICES ASSUME RInv, NEW a \in Address
    PROVE
        /\ a \notin issued \/ InPublish(a) => Places[a] = Memory!Private!Unborn
        /\ IsPublic(a) => Places[a] = Memory!Public
        /\ ~IsPublic(a) /\ lost[a] > 0 => Places[a] = Memory!Lost
        /\ \A e \in Executor :
              /\ a \in pvt[e] => Places[a] = Memory!Private!At("held", e)
              /\ Open(e, a) => Places[a] = Memory!Private!At("open", e)
        /\ \A m \in pvtPap : m.p = a => Places[a] = Memory!Private!At("sent", m.to)
        /\ (/\ a \in issued /\ ~InPublish(a) /\ ~IsPublic(a) /\ ~(lost[a] > 0)
            /\ ~Alive(a) /\ \A e \in Executor : ~Open(e, a))
           => Places[a] = Memory!Private!Gone
  BY DEF SeenPlaces
<1>0. Places[a] = PlaceOf(a) BY DEF Places
<1>1. AddressOK(a) /\ LostOK(a) /\ Typed BY TypeFacts DEF RInv, IInv, CInv
<1>2. \A e \in Executor : /\ Pvt!HeldBy(e, a) <=> a \in pvt[e]
                          /\ Pvt!OpenAt(e, a) <=> Open(e, a)
                          /\ Pvt!SentTo(e, a) <=> \E m \in pvtPap : m.to = e /\ m.p = a
  BY DEF Pvt!HeldBy, Pvt!OpenAt, Pvt!SentTo, Open
<1>3. ASSUME a \in issued, ~InPublish(a), ~IsPublic(a), ~(lost[a] > 0)
      PROVE  Places[a] = Pvt!PlaceOf(a)
  BY <1>0, <1>3 DEF PlaceOf
<1>4. InPublish(a) => Places[a] = Memory!Private!Unborn
  BY <1>0, <1>1 DEF PlaceOf, Memory!Private!Unborn, AddressOK, LevelOK, LostOK
<1>5. a \notin issued => Places[a] = Memory!Private!Unborn
  <2> SUFFICES ASSUME a \notin issued PROVE Places[a] = Memory!Private!Unborn OBVIOUS
  <2>1. ~KnownPrivate(a) /\ ~IsPublic(a) /\ ~(lost[a] > 0) BY <1>1 DEF AddressOK, LevelOK, LostOK
  <2>2. ~InPublish(a) => Places[a] = Pvt!PlaceOf(a) BY <2>1, <1>0 DEF PlaceOf
  <2>3. \A e \in Executor : ~Pvt!HeldBy(e, a) /\ ~Pvt!OpenAt(e, a) /\ ~Pvt!SentTo(e, a)
    <3>1. ~Alive(a) /\ \A e \in Executor : ~Open(e, a)
      BY <2>1, CapabilityFacts
    <3> QED BY <1>2, <3>1 DEF Alive
  <2>4. Pvt!PlaceOf(a) = [stage |-> "unborn"] BY <2>3 DEF Pvt!PlaceOf
  <2> QED BY <1>4, <2>2, <2>4 DEF Memory!Private!Unborn
<1>6. IsPublic(a) => Places[a] = Memory!Public
  BY <1>0, <1>1 DEF PlaceOf, Memory!Public, AddressOK, LevelOK
<1>7. ~IsPublic(a) /\ lost[a] > 0 => Places[a] = Memory!Lost
  BY <1>0, <1>1 DEF PlaceOf, Memory!Lost, LostOK
<1>8. /\ \A e, f \in Executor :
            /\ a \in pvt[e] => ~Open(f, a) /\ (a \in pvt[f] => e = f)
            /\ Open(e, a) => (Open(f, a) => e = f)
            /\ \A m \in pvtPap : m.p = a => a \notin pvt[e] /\ ~Open(e, a)
      /\ \A m, n \in pvtPap : m.p = a /\ n.p = a => m = n
  BY <1>1 DEF AddressOK, SoleOK, Alive
<1>9. ASSUME NEW e \in Executor, a \in pvt[e]
      PROVE  Places[a] = Memory!Private!At("held", e)
  <2>1. Places[a] = Pvt!PlaceOf(a) BY <1>3, <1>9, CapabilityFacts DEF Alive
  <2>2. (CHOOSE f \in Executor : Pvt!HeldBy(f, a)) = e BY <1>2, <1>8, <1>9
  <2>3. Pvt!PlaceOf(a) = [stage |-> "held", at |-> e]
    <3>1. /\ ~\E f \in Executor : Pvt!OpenAt(f, a)
          /\ ~\E f \in Executor : Pvt!SentTo(f, a)
      BY <1>2, <1>8, <1>9
    <3>2. \E f \in Executor : Pvt!HeldBy(f, a) BY <1>2, <1>9
    <3> QED BY <2>2, <3>1, <3>2 DEF Pvt!PlaceOf
  <2> QED BY <2>1, <2>3 DEF Memory!Private!At
<1>10. ASSUME NEW e \in Executor, Open(e, a)
       PROVE  Places[a] = Memory!Private!At("open", e)
  <2>1. Places[a] = Pvt!PlaceOf(a) BY <1>3, <1>10, CapabilityFacts
  <2>2. (CHOOSE f \in Executor : Pvt!OpenAt(f, a)) = e BY <1>2, <1>8, <1>10
  <2>3. Pvt!PlaceOf(a) = [stage |-> "open", at |-> e]
    <3>1. /\ ~\E f \in Executor : Pvt!HeldBy(f, a)
          /\ ~\E f \in Executor : Pvt!SentTo(f, a)
      BY <1>2, <1>8, <1>10
    <3>2. \E f \in Executor : Pvt!OpenAt(f, a) BY <1>2, <1>10
    <3> QED BY <2>2, <3>1, <3>2 DEF Pvt!PlaceOf
  <2> QED BY <2>1, <2>3 DEF Memory!Private!At
<1>11. ASSUME NEW m \in pvtPap, m.p = a
       PROVE  Places[a] = Memory!Private!At("sent", m.to)
  <2>1. Places[a] = Pvt!PlaceOf(a) BY <1>3, <1>11, CapabilityFacts DEF Alive
  <2>0. PICK e : e = m.to OBVIOUS
  <2>e. e \in Executor BY <1>1, <2>0 DEF Typed, TypedPrivate
  <2>2. (CHOOSE f \in Executor : Pvt!SentTo(f, a)) = e BY <1>2, <1>8, <1>11, <2>0, <2>e
  <2>3. Pvt!PlaceOf(a) = [stage |-> "sent", at |-> e]
    <3>1. /\ ~\E f \in Executor : Pvt!HeldBy(f, a)
          /\ ~\E f \in Executor : Pvt!OpenAt(f, a)
      BY <1>2, <1>8, <1>11
    <3>2. \E f \in Executor : Pvt!SentTo(f, a) BY <1>2, <1>11, <2>0, <2>e
    <3> QED BY <2>2, <3>1, <3>2 DEF Pvt!PlaceOf
  <2> QED BY <2>0, <2>1, <2>3 DEF Memory!Private!At
<1>12. ASSUME a \in issued, ~InPublish(a), ~IsPublic(a), ~(lost[a] > 0),
              ~Alive(a), \A e \in Executor : ~Open(e, a)
       PROVE  Places[a] = Memory!Private!Gone
  <2>1. \A e \in Executor : ~Pvt!HeldBy(e, a) /\ ~Pvt!OpenAt(e, a) /\ ~Pvt!SentTo(e, a)
    BY <1>2, <1>12 DEF Alive
  <2>2. Pvt!PlaceOf(a) = [stage |-> "gone"] BY <1>12, <2>1 DEF Pvt!PlaceOf
  <2> QED BY <1>3, <1>12, <2>2 DEF Memory!Private!Gone
<1> QED BY <1>4, <1>5, <1>6, <1>7, <1>9, <1>10, <1>11, <1>12

LEMMA PlacesSeenNext == RInv' => SeenPlaces'
BY PlacesSeen, PTL

(* Memory of an address, at whatever executor, is one block; the copy that *)
(* counts is where the capability looks for it, or where a count is.       *)
LEMMA BackingBlock ==
  ASSUME IInv, NEW e \in Executor, NEW a \in Address, Backs(e, a)
  PROVE  /\ Mapped(e, a) /\ view[e][a].committed \in Cell
         /\ heap[e][view[e][a].committed] \in Value
         /\ heap[e][view[e][a].committed] # Null
         /\ IsPublic(a) => Public(e, a)
         /\ ~IsPublic(a) => Keeps(e, a) /\ parent[e][view[e][a].committed] = a
<1>1. Mapped(e, a) /\ view[e][a].committed \in Cell
  BY TypeFacts DEF Backs, IInv, Typed, TypedTables
<1>2. PICK c \in Cell : c = view[e][a].committed BY <1>1
<1>3. /\ heap[e][c] # Null
      /\ Private(e, a) => Keeps(e, a) /\ parent[e][c] = a
      /\ Private(e, a) \/ Public(e, a)
  BY <1>1, <1>2, BackingLive
<1>4. heap[e][c] \in Value BY <1>3, TypeFacts DEF IInv, Typed, TypedTables
<1>5. Public(e, a) => IsPublic(a)
  <2>1. HomeOK(a) BY DEF IInv
  <2>2. view[e][a].author \in Executor BY <1>1, TypeFacts DEF IInv, Typed, TypedTables
  <2> QED BY <2>1, <2>2 DEF HomeOK, IsPublic
<1>6. Private(e, a) => ~IsPublic(a)
  BY DEF IInv, AddressOK, LevelOK, KnownPrivate
<1> QED BY <1>1, <1>2, <1>3, <1>4, <1>5, <1>6

LEMMA PublicCopy ==
  ASSUME RInv, NEW a \in Address, IsPublic(a), NEW e \in Executor
  PROVE  /\ Copy(e, a) <=> Backs(e, a)
         /\ Backs(e, a) => rc[e][a] # Null /\ rc[e][a] # 0
<1>1. ~KnownPrivate(a) BY DEF RInv, IInv, AddressOK, LevelOK
<1>2. ~Pvt!ResetPending(e, a) BY <1>1 DEF KnownPrivate, Pvt!ResetPending
<1>3. Backs(e, a) => Public(e, a) BY BackingBlock DEF RInv
<1>4. MemoryOK(a) BY DEF RInv, CInv
<1> QED BY <1>2, <1>3, <1>4 DEF Copy, MemoryOK, Backs

LEMMA PrivateCopy ==
  ASSUME RInv, NEW a \in Address, ~IsPublic(a), NEW e \in Executor
  PROVE  /\ Copy(e, a) => Keeps(e, a) /\ (Alive(a) \/ Open(e, a) \/ lost[a] > 0)
         /\ Keeps(e, a) /\ (Alive(a) \/ Open(e, a) \/ lost[a] > 0) => Copy(e, a)
<1>1. Backs(e, a) <=> Keeps(e, a)
  BY BackingBlock DEF RInv, Keeps, Private, Backs
<1>2. ResetOK(a) /\ WantedOK(a) /\ LossOK(a) BY DEF RInv, IInv, AddressOK, MInv
<1>3. Pvt!ResetPending(e, a) => ~Alive(a) /\ ~Open(e, a)
  BY <1>2 DEF ResetOK, Pvt!ResetPending, IsReset
<1> QED BY <1>1, <1>2, <1>3 DEF Copy, WantedOK, LossOK

LEMMA OneCopy ==
  ASSUME RInv, NEW a \in Address, NEW e \in Executor, NEW f \in Executor,
         Copy(e, a), Copy(f, a)
  PROVE  e = f
<1>1. CASE IsPublic(a)
  <2>1. rc[e][a] # Null /\ rc[f][a] # Null BY <1>1, PublicCopy
  <2> QED BY <2>1 DEF RInv, IInv, HomeOK
<1>2. CASE ~IsPublic(a)
  <2>1. /\ Keeps(e, a) /\ (Alive(a) \/ Open(e, a) \/ lost[a] > 0)
        /\ Keeps(f, a) /\ (Alive(a) \/ Open(f, a) \/ lost[a] > 0)
    BY <1>2, PrivateCopy
  <2>2. CASE Alive(a)
    <3>1. PICK y \in Executor : Source(y, a)
      <4>1. HandleOK(a) /\ Typed BY TypeFacts DEF RInv, IInv, AddressOK
      <4>2. ASSUME NEW x \in Executor, a \in pvt[x] PROVE \E y \in Executor : Source(y, a)
        BY <4>1, <4>2 DEF HandleOK, Source, Keeps, Private, Typed, TypedTables
      <4> QED BY <2>2, <4>1, <4>2 DEF Alive, HandleOK, Typed, TypedPrivate
    <3> QED BY <2>1, <3>1 DEF Source
  <2>3. CASE lost[a] > 0 BY <1>2, <2>1, <2>3 DEF RInv, LossOK
  <2>4. CASE Open(e, a) /\ Open(f, a) BY <2>4 DEF RInv, IInv, AddressOK, SoleOK
  <2> QED BY <2>1, <2>2, <2>3, <2>4
<1> QED BY <1>1, <1>2

LEMMA ContentsSeen == RInv => SeenContents
<1> SUFFICES ASSUME RInv, NEW a \in Address
    PROVE  /\ \A e \in Executor :
                 Copy(e, a) => Contents[a] = heap[e][view[e][a].committed]
           /\ (\A e \in Executor : ~Copy(e, a)) => Contents[a] = Null
  BY DEF SeenContents
<1>1. Contents[a] = ContentOf(a) BY DEF Contents
<1>2. \A f \in Executor : Copy(f, a) <=> Backs(f, a) /\ ~Pvt!ResetPending(f, a)
  BY DEF Copy
<1>3. ASSUME NEW e \in Executor, Copy(e, a)
      PROVE  Contents[a] = heap[e][view[e][a].committed]
  <2>1. (CHOOSE f \in Executor : Backs(f, a) /\ ~Pvt!ResetPending(f, a)) = e
    BY <1>2, <1>3, OneCopy
  <2>2. \E f \in Executor : Backs(f, a) /\ ~Pvt!ResetPending(f, a) BY <1>2, <1>3
  <2> QED BY <1>1, <2>1, <2>2 DEF ContentOf
<1>4. (\A e \in Executor : ~Copy(e, a)) => Contents[a] = Null
  BY <1>1, <1>2 DEF ContentOf
<1> QED BY <1>3, <1>4

LEMMA ContentsSeenNext == RInv' => SeenContents'
BY ContentsSeen, PTL

(* A count of zero: nobody refers to the address, or lost anything of it.  *)
ZeroMeansNone ==
    \A e \in Executor, a \in Address : rc[e][a] = 0 => Refs[a] = {} /\ lost[a] = 0

LEMMA ZeroCount == RInv => ZeroMeansNone
<1> SUFFICES ASSUME RInv, NEW e \in Executor, NEW a \in Address, rc[e][a] = 0
             PROVE  Refs[a] = {} /\ lost[a] = 0
  BY DEF ZeroMeansNone
<1>1. 0 # Null
  <2>1. RcRange > 0 /\ RcRange \in Nat BY ContextAssumption, Numbers
  <2>2. 0 \in 0 .. RcRange - 1 BY <2>1
  <2> QED BY <2>2, ContextAssumption
<1>2. IInv /\ CInv /\ rc[e][a] # Null BY <1>1 DEF RInv
<1>3. /\ lost[a] \in Nat
      /\ Refs[a] # {} \/ Unc[a] # {} \/ Unrel[a] # {} \/ lost[a] > 0 => rc[e][a] > 0
  BY <1>2, Count
<1> QED BY <1>3

LEMMA ZeroCountNext == RInv' => ZeroMeansNone'
BY ZeroCount, PTL

-----------------------------------------------------------------------------
(* What a step leaves as it is *)

(* Nothing happens to b that the application could see.                    *)
Untouched(b) ==
    /\ b \in issued' <=> b \in issued
    /\ IsPublic(b)' <=> IsPublic(b)
    /\ InPublish(b)' <=> InPublish(b)
    /\ lost'[b] = lost[b]
    /\ Refs'[b] = Refs[b]
    /\ \A m \in pvtPap \cup pvtPap' : m.p = b => m \in pvtPap /\ m \in pvtPap'
    /\ \A f \in Executor :
          /\ b \in pvt'[f] <=> b \in pvt[f]
          /\ Open(f, b)' <=> Open(f, b)
          /\ Pvt!ResetPending(f, b)' <=> Pvt!ResetPending(f, b)
          /\ Keeps(f, b)' => Keeps(f, b)
          /\ Backs(f, b)' <=> Backs(f, b)
          /\ Backs(f, b) => /\ view'[f][b].committed = view[f][b].committed
                            /\ heap'[f][view[f][b].committed] = heap[f][view[f][b].committed]

LEMMA UntouchedAlive ==
  ASSUME NEW b \in Address, Untouched(b)
  PROVE  Alive(b)' <=> Alive(b)
<1>1. \A m \in pvtPap \cup pvtPap' : m.p = b => m \in pvtPap /\ m \in pvtPap'
  BY DEF Untouched
<1>2. \A f \in Executor : b \in pvt'[f] <=> b \in pvt[f] BY DEF Untouched
<1> QED BY <1>1, <1>2 DEF Alive

LEMMA LossKept ==
  ASSUME NEW b \in Address, Untouched(b), LossOK(b)
  PROVE  LossOK(b)'
BY UntouchedAlive DEF Untouched, LossOK

LEMMA PlaceKept ==
  ASSUME RInv, RInv', NEW b \in Address, Untouched(b)
  PROVE  Places'[b] = Places[b]
<1>1. SeenPlaces /\ SeenPlaces' BY PlacesSeen, PlacesSeenNext
<1>2. Alive(b)' <=> Alive(b) BY UntouchedAlive
<1>3. CASE b \notin issued \/ InPublish(b)
  BY <1>1, <1>3 DEF SeenPlaces, Untouched
<1>4. CASE IsPublic(b)
  BY <1>1, <1>4 DEF SeenPlaces, Untouched
<1>5. CASE ~IsPublic(b) /\ lost[b] > 0
  BY <1>1, <1>5 DEF SeenPlaces, Untouched
<1>6. ASSUME NEW f \in Executor, b \in pvt[f] PROVE Places'[b] = Places[b]
  BY <1>1, <1>6 DEF SeenPlaces, Untouched
<1>7. ASSUME NEW f \in Executor, Open(f, b) PROVE Places'[b] = Places[b]
  BY <1>1, <1>7 DEF SeenPlaces, Untouched
<1>8. ASSUME NEW m \in pvtPap, m.p = b PROVE Places'[b] = Places[b]
  <2>1. m \in pvtPap' BY <1>8 DEF Untouched
  <2> QED BY <1>1, <1>8, <2>1 DEF SeenPlaces
<1>9. ASSUME b \in issued, ~InPublish(b), ~IsPublic(b), ~(lost[b] > 0), ~Alive(b),
             \A e \in Executor : ~Open(e, b)
      PROVE  Places'[b] = Places[b]
  <2>1. Places[b] = Memory!Private!Gone BY <1>1, <1>9 DEF SeenPlaces
  <2>2. Places'[b] = Memory!Private!Gone BY <1>1, <1>2, <1>9 DEF SeenPlaces, Untouched
  <2> QED BY <2>1, <2>2
<1> QED BY <1>3, <1>4, <1>5, <1>6, <1>7, <1>8, <1>9 DEF Alive

LEMMA ContentKept ==
  ASSUME RInv, RInv', NEW b \in Address, Untouched(b)
  PROVE  Contents'[b] = Contents[b]
<1>1. SeenContents /\ SeenContents' BY ContentsSeen, ContentsSeenNext
<1>2. \A f \in Executor : Copy(f, b)' <=> Copy(f, b) BY DEF Untouched, Copy
<1>3. ASSUME NEW f \in Executor, Copy(f, b) PROVE Contents'[b] = Contents[b]
  <2>1. /\ view'[f][b].committed = view[f][b].committed
        /\ heap'[f][view[f][b].committed] = heap[f][view[f][b].committed]
    BY <1>3 DEF Copy, Untouched
  <2>2. Contents[b] = heap[f][view[f][b].committed] BY <1>1, <1>3 DEF SeenContents
  <2>3. Copy(f, b)' BY <1>2, <1>3
  <2>4. Contents'[b] = heap'[f][view'[f][b].committed] BY <1>1, <2>3 DEF SeenContents
  <2> QED BY <2>1, <2>2, <2>4
<1>4. ASSUME \A f \in Executor : ~Copy(f, b) PROVE Contents'[b] = Contents[b]
  <2>1. Contents[b] = Null BY <1>1, <1>4 DEF SeenContents
  <2>2. \A f \in Executor : ~Copy(f, b)' BY <1>2, <1>4
  <2>3. Contents'[b] = Null BY <1>1, <2>2 DEF SeenContents
  <2> QED BY <2>1, <2>3
<1> QED BY <1>3, <1>4

LEMMA Kept ==
  ASSUME RInv, RInv', NEW b \in Address, Untouched(b)
  PROVE  /\ Places'[b] = Places[b] /\ Contents'[b] = Contents[b]
         /\ Counted'[b] = Counted[b]
         /\ b \in Wasted' <=> b \in Wasted
<1>1. Counted'[b] = Counted[b] BY DEF Counted, Untouched
<1>2. b \in Wasted' <=> b \in Wasted BY DEF Wasted, Untouched
<1> QED BY <1>1, <1>2, PlaceKept, ContentKept

(* The invariant stays where nothing happens, and where nothing is lost.   *)
LEMMA LossStep ==
  ASSUME RInv, IInv', CInv', MInv', NEW A \in SUBSET Address,
         \A b \in Address : b \notin A => Untouched(b),
         \A b \in A : lost'[b] = 0 \/ IsPublic(b)'
  PROVE  RInv'
<1>1. ASSUME NEW b \in Address PROVE LossOK(b)'
  <2>1. LossOK(b) BY DEF RInv
  <2>2. CASE b \notin A BY <2>1, <2>2, LossKept
  <2>3. CASE b \in A BY <2>3 DEF LossOK
  <2> QED BY <2>2, <2>3
<1> QED BY <1>1 DEF RInv

(* What is seen changes at a only.                                         *)
LEMMA AtOne ==
  ASSUME RInv, RInv', NEW a \in Address, \A b \in Address : b # a => Untouched(b),
         NEW p, Places'[a] = p, NEW v, Contents'[a] = v, NEW n, Counted'[a] = n
  PROVE  /\ Places' = Put(Places, a, p) /\ (p = Places[a] => Places' = Places)
         /\ Contents' = Put(Contents, a, v) /\ (v = Contents[a] => Contents' = Contents)
         /\ Counted' = Put(Counted, a, n) /\ (n = Counted[a] => Counted' = Counted)
         /\ lost'[a] = lost[a] => Wasted' = Wasted
         /\ lost'[a] > 0 => Wasted' = Wasted \cup {a}
<1>1. \A b \in Address : b # a =>
         /\ Places'[b] = Places[b] /\ Contents'[b] = Contents[b]
         /\ Counted'[b] = Counted[b]
         /\ b \in Wasted' <=> b \in Wasted
  BY Kept
<1>2. /\ Places = [b \in Address |-> Places[b]] /\ Places' = [b \in Address |-> Places'[b]]
      /\ Contents = [b \in Address |-> Contents[b]]
      /\ Contents' = [b \in Address |-> Contents'[b]]
      /\ Counted = [b \in Address |-> Counted[b]] /\ Counted' = [b \in Address |-> Counted'[b]]
  BY DEF Places, Contents, Counted
<1>3. Places' = Put(Places, a, p) /\ (p = Places[a] => Places' = Places)
  BY <1>1, <1>2 DEF Put
<1>4. Contents' = Put(Contents, a, v) /\ (v = Contents[a] => Contents' = Contents)
  BY <1>1, <1>2 DEF Put
<1>5. Counted' = Put(Counted, a, n) /\ (n = Counted[a] => Counted' = Counted)
  BY <1>1, <1>2 DEF Put
<1>6. /\ Wasted \subseteq Address /\ Wasted' \subseteq Address
      /\ a \in Wasted <=> lost[a] > 0
      /\ a \in Wasted' <=> lost'[a] > 0
  BY DEF Wasted
<1>7. ASSUME lost'[a] = lost[a] PROVE Wasted' = Wasted
  <2>1. \A b \in Address : b \in Wasted' <=> b \in Wasted BY <1>1, <1>6, <1>7
  <2> QED BY <1>6, <2>1
<1>8. ASSUME lost'[a] > 0 PROVE Wasted' = Wasted \cup {a}
  <2>1. \A b \in Address : b \in Wasted' <=> b \in Wasted \cup {a} BY <1>1, <1>6, <1>8
  <2> QED BY <1>6, <2>1
<1> QED BY <1>3, <1>4, <1>5, <1>7, <1>8

-----------------------------------------------------------------------------
(* What an answer brings *)

VInv == \A a \in Address : ValueOK(a)

(* Who fetches the memory of an address holds its capability.              *)
LEMMA FetcherHolds ==
  ASSUME IInv, NEW a \in Address, NEW e \in Executor, NEW t, Fetches(e, t, a)
  PROVE  /\ a \in pvt[e] /\ t = view[e][a].author /\ t # e /\ Private(e, a)
         /\ t \in Executor /\ Source(t, a)
<1>1. a \in pvt[e] /\ t = view[e][a].author /\ t # e
  BY DEF IInv, AddressOK, WaitOK, Fetches
<1>2. Private(e, a) /\ Source(t, a) BY <1>1 DEF IInv, AddressOK, HandleOK
<1>3. t \in Executor
  BY <1>1, <1>2, TypeFacts DEF IInv, Typed, TypedTables, Private
<1> QED BY <1>1, <1>2, <1>3

(* Answers stay those of their addresses.                                  *)
LEMMA ValuesKept ==
  ASSUME IInv, IInv', VInv,
         \A s \in pvtMem', b \in Address : Fetches(s.to, s.from, b)' =>
             s \in pvtMem /\ Fetches(s.to, s.from, b),
         \A b \in Address : Contents'[b] = Contents[b] \/ ~Alive(b) \/ ~Alive(b)'
  PROVE  VInv'
<1> SUFFICES ASSUME NEW b \in Address, NEW s \in pvtMem', Fetches(s.to, s.from, b)'
             PROVE  s.value = Contents'[b]
  BY DEF VInv, ValueOK
<1>1. s \in pvtMem /\ Fetches(s.to, s.from, b) OBVIOUS
<1>2. s.to \in Executor BY <1>1, TypeFacts DEF IInv, Typed, TypedPrivate
<1>3. PICK e, t : e = s.to /\ t = s.from OBVIOUS
<1>e. e \in Executor BY <1>2, <1>3
<1>4. Fetches(e, t, b) /\ Fetches(e, t, b)' BY <1>1, <1>3 DEF Fetches, Loads, Publishes
<1>5. b \in pvt[e] BY <1>4, <1>e, FetcherHolds
<1>6. b \in pvt'[e]
  BY <1>4, <1>e DEF IInv, AddressOK, WaitOK, Fetches
<1>7. Contents'[b] = Contents[b] BY <1>e, <1>5, <1>6 DEF Alive
<1> QED BY <1>1, <1>7 DEF VInv, ValueOK

-----------------------------------------------------------------------------
(* Steps that work on some addresses only *)

(* f has the same memory for b as before.                                  *)
MemoryStays(f, b) ==
    /\ Backs(f, b)' <=> Backs(f, b)
    /\ Backs(f, b) => view'[f][b].committed = view[f][b].committed
    /\ Keeps(f, b)' => Keeps(f, b)

(* No address but those of A has a use for the block c.                    *)
Spare(f, c, A) ==
    \/ heap[f][c] = Null
    \/ parent[f][c] \in A
    \/ \E a \in A : Backs(f, a) /\ view[f][a].committed = c
    \/ pub[f] # Null /\ pub[f].lp = c

WorksOn(A) ==
    /\ \A b \in Address : b \notin A =>
          /\ b \in issued' <=> b \in issued
          /\ IsPublic(b)' <=> IsPublic(b)
          /\ InPublish(b)' <=> InPublish(b)
          /\ lost'[b] = lost[b]
          /\ Refs'[b] = Refs[b]
    /\ \A m \in pvtPap \cup pvtPap' : m.p \notin A => m \in pvtPap /\ m \in pvtPap'
    /\ \A r \in pvtDmn \cup pvtDmn' : IsReset(r) /\ r.p \notin A =>
          r \in pvtDmn /\ r \in pvtDmn'
    /\ \A f \in Executor, b \in Address : b \notin A =>
          /\ b \in pvt'[f] <=> b \in pvt[f]
          /\ view'[f][b] = view[f][b] \/ MemoryStays(f, b)
          /\ \A c \in Cell : parent'[f][c] = b /\ c \in uniq'[f]
                             <=> parent[f][c] = b /\ c \in uniq[f]
    /\ \A f \in Executor, c \in Cell : heap'[f][c] = heap[f][c] \/ Spare(f, c, A)

LEMMA OtherBlock ==
  ASSUME IInv, NEW A \in SUBSET Address, NEW f \in Executor, NEW b \in Address, b \notin A,
         NEW c, c = view[f][b].committed, Backs(f, b)
  PROVE  c \in Cell /\ ~Spare(f, c, A)
<1>1. Mapped(f, b) /\ c \in Cell BY BackingBlock
<1>2. heap[f][c] # Null /\ (parent[f][c] = b \/ parent[f][c] = Null)
  BY <1>1, BackingLive
<1>3. parent[f][c] \notin A BY <1>2, ViewAssumption
<1>4. \A a \in A : Backs(f, a) => view[f][a].committed # c
  BY <1>1, BackingOne DEF Backs
<1>5. pub[f] # Null => pub[f].lp # c BY <1>1, FillingLive
<1> QED BY <1>1, <1>2, <1>3, <1>4, <1>5 DEF Spare

LEMMA Frame ==
  ASSUME IInv, IInv', NEW A \in SUBSET Address, WorksOn(A)
  PROVE  \A b \in Address : b \notin A => Untouched(b)
<1> SUFFICES ASSUME NEW b \in Address, b \notin A PROVE Untouched(b) OBVIOUS
<1>1. /\ b \in issued' <=> b \in issued
      /\ IsPublic(b)' <=> IsPublic(b)
      /\ InPublish(b)' <=> InPublish(b)
      /\ lost'[b] = lost[b]
      /\ Refs'[b] = Refs[b]
      /\ \A m \in pvtPap \cup pvtPap' : m.p = b => m \in pvtPap /\ m \in pvtPap'
  BY DEF WorksOn
<1>2. ASSUME NEW f \in Executor
      PROVE  /\ b \in pvt'[f] <=> b \in pvt[f]
             /\ Open(f, b)' <=> Open(f, b)
             /\ Pvt!ResetPending(f, b)' <=> Pvt!ResetPending(f, b)
             /\ MemoryStays(f, b)
  <2>1. b \in pvt'[f] <=> b \in pvt[f] BY DEF WorksOn
  <2>2. uniq[f] \in SUBSET Cell /\ uniq'[f] \in SUBSET Cell
    BY TypeParts, TypePartsNext DEF IInv, TypesApart, PrivateTyped
  <2>3. \A c \in Cell : parent'[f][c] = b /\ c \in uniq'[f] <=> parent[f][c] = b /\ c \in uniq[f]
    BY DEF WorksOn
  <2>4. Open(f, b)' <=> Open(f, b) BY <2>2, <2>3 DEF Open
  <2>5. \A r \in pvtDmn \cup pvtDmn' : IsReset(r) /\ r.p = b => r \in pvtDmn /\ r \in pvtDmn'
    BY DEF WorksOn
  <2>6. Pvt!ResetPending(f, b)' <=> Pvt!ResetPending(f, b)
    BY <2>5 DEF Pvt!ResetPending, IsReset
  <2>7. view'[f][b] = view[f][b] => MemoryStays(f, b)
    BY DEF MemoryStays, Backs, Keeps, Private, Mapped
  <2>8. MemoryStays(f, b) BY <2>7 DEF WorksOn
  <2> QED BY <2>1, <2>4, <2>6, <2>8
<1>3. ASSUME NEW f \in Executor, Backs(f, b)
      PROVE  heap'[f][view[f][b].committed] = heap[f][view[f][b].committed]
  <2>1. view[f][b].committed \in Cell /\ ~Spare(f, view[f][b].committed, A)
    BY <1>3, OtherBlock
  <2> QED BY <2>1 DEF WorksOn
<1> QED BY <1>1, <1>2, <1>3 DEF Untouched, MemoryStays

(* Public pointers stay as they are.                                       *)
LEMMA PublicSame ==
  ASSUME UNCHANGED <<publicVars, pub>>
  PROVE  \A b \in Address : /\ IsPublic(b)' <=> IsPublic(b)
                            /\ InPublish(b)' <=> InPublish(b)
                            /\ Refs'[b] = Refs[b]
<1>1. UNCHANGED <<ptr, rc, pubPap, pub>> BY DEF publicVars
<1>2. \A b \in Address : Refs'[b] = Refs[b] BY <1>1, RefsSame
<1> QED BY <1>1, <1>2 DEF IsPublic, InPublish

LEMMA WorksOnOne ==
  ASSUME NEW a,
         \A b \in Address : b # a =>
             (b \in issued' <=> b \in issued) /\ lost'[b] = lost[b],
         \A b \in Address : b # a => /\ IsPublic(b)' <=> IsPublic(b)
                                     /\ InPublish(b)' <=> InPublish(b)
                                     /\ Refs'[b] = Refs[b],
         \A m \in pvtPap \cup pvtPap' : m.p # a => m \in pvtPap /\ m \in pvtPap',
         \A r \in pvtDmn \cup pvtDmn' : IsReset(r) /\ r.p # a =>
             r \in pvtDmn /\ r \in pvtDmn',
         \A f \in Executor, b \in Address : b # a => (b \in pvt'[f] <=> b \in pvt[f]),
         \A f \in Executor, b \in Address : b # a =>
             view'[f][b] = view[f][b] \/ MemoryStays(f, b),
         \A f \in Executor, b \in Address, c \in Cell : b # a =>
             (parent'[f][c] = b /\ c \in uniq'[f] <=> parent[f][c] = b /\ c \in uniq[f]),
         \A f \in Executor, c \in Cell : heap'[f][c] = heap[f][c] \/ Spare(f, c, {a})
  PROVE  WorksOn({a})
<1>1. \A b : b \notin {a} <=> b # a OBVIOUS
<1> QED BY <1>1 DEF WorksOn

-----------------------------------------------------------------------------
(* Steps of GlobalMemory *)

(* What a step of the runtime does there: a step, or nothing.              *)
Refines ==
    /\ RInv' /\ VInv'
    /\ \/ Memory!Next
       \/ UNCHANGED <<Places, Contents, Counted, Wasted>>

LEMMA CountedIs ==
  /\ Counted = [b \in Address |-> Cardinality(Pub!References(b))]
  /\ Counted' = [b \in Address |-> Cardinality(Pub!References(b))]'
BY DEF Counted, Refs

LEMMA ToCreate ==
  ASSUME NEW e \in Executor, NEW a \in Address, NEW v \in Value,
         Places[a] = Memory!Private!Unborn,
         Places' = Put(Places, a, Memory!Private!At("held", e)),
         Contents' = Put(Contents, a, v), UNCHANGED <<Counted, Wasted>>
  PROVE  Memory!Next
<1>1. Memory!Private!Create(e, a, v)
  BY DEF Memory!Private!Create, Memory!Private!At, Memory!Private!Unborn, Places, Contents, Put
<1>2. Memory!Private!Next BY <1>1 DEF Memory!Private!Next
<1> QED BY <1>2, CountedIs DEF Memory!Next, Wasted

LEMMA ToMove ==
  ASSUME NEW a \in Address, NEW p, NEW q, Places[a] = p, Places' = Put(Places, a, q),
         UNCHANGED <<Contents, Counted, Wasted>>,
         NEW e \in Executor,
         \/ p = Memory!Private!At("held", e) /\ q = Memory!Private!At("open", e)
         \/ p = Memory!Private!At("sent", e) /\ q = Memory!Private!At("held", e)
         \/ \E f \in Executor : /\ e # f /\ p = Memory!Private!At("held", e)
                                /\ q = Memory!Private!At("sent", f)
  PROVE  Memory!Next
<1>1. Memory!Private!Move(a, p, q) BY DEF Memory!Private!Move, Places, Contents, Put
<1>2. \/ Memory!Private!Open(e, a) \/ Memory!Private!Receive(e, a)
      \/ \E f \in Executor : Memory!Private!Send(e, f, a)
  BY <1>1 DEF Memory!Private!Open, Memory!Private!Receive, Memory!Private!Send
<1>3. Memory!Private!Next BY <1>2 DEF Memory!Private!Next
<1> QED BY <1>3, CountedIs DEF Memory!Next, Wasted

LEMMA ToDestroy ==
  ASSUME NEW e \in Executor, NEW a \in Address,
         Places[a] \in {Memory!Private!At("held", e), Memory!Private!At("open", e)},
         Places' = Put(Places, a, Memory!Private!Gone),
         Contents' = Put(Contents, a, Null), UNCHANGED <<Counted, Wasted>>
  PROVE  Memory!Next
<1>1. Memory!Private!Destroy(e, a)
  BY DEF Memory!Private!Destroy, Memory!Private!At, Memory!Private!Gone, Places, Contents, Put
<1>2. Memory!Private!Next BY <1>1 DEF Memory!Private!Next
<1> QED BY <1>2, CountedIs DEF Memory!Next, Wasted

LEMMA ToCreateShared ==
  ASSUME NEW a \in Address, NEW v \in Value,
         Places[a] = Memory!Private!Unborn, Counted[a] = 0, Contents[a] = Null,
         Places' = Put(Places, a, Memory!Public), Counted' = Put(Counted, a, 1),
         Contents' = Put(Contents, a, v), UNCHANGED Wasted
  PROVE  Memory!Next
<1>1. Memory!Shared!Create(a, v)
  BY CountedIs DEF Memory!Shared!Create, Contents, Put
<1>2. Memory!CreateShared(a, v)
  BY <1>1 DEF Memory!CreateShared, Memory!Private!Unborn, Memory!Public, Places, Put, Wasted
<1> QED BY <1>2 DEF Memory!Next

LEMMA ToShare ==
  ASSUME NEW a \in Address, Places[a] = Memory!Public, Counted[a] > 0,
         Counted' = Put(Counted, a, Counted[a] + 1), UNCHANGED <<Places, Contents, Wasted>>
  PROVE  Memory!Next
<1>1. Memory!Shared!Share(a) BY CountedIs DEF Memory!Shared!Share, Contents, Put
<1>2. Memory!UseShared(a) BY <1>1 DEF Memory!UseShared, Places, Contents, Wasted, Memory!Public
<1> QED BY <1>2 DEF Memory!Next

LEMMA ToRelease ==
  ASSUME NEW a \in Address, Places[a] = Memory!Public, Counted[a] > 0,
         Counted' = Put(Counted, a, Counted[a] - 1), UNCHANGED <<Places, Wasted>>,
         \/ UNCHANGED Contents
         \/ Counted[a] = 1 /\ Contents' = Put(Contents, a, Null) /\ a \notin Wasted
  PROVE  Memory!Next
<1>1. Memory!Shared!Release(a) BY CountedIs DEF Memory!Shared!Release, Contents, Put
<1>2. Memory!UseShared(a) BY <1>1 DEF Memory!UseShared, Places, Contents, Wasted, Memory!Public
<1> QED BY <1>2 DEF Memory!Next

LEMMA ToReclaim ==
  ASSUME NEW a \in Address, Places[a] = Memory!Public, Counted[a] = 0, Contents[a] # Null,
         Contents' = Put(Contents, a, Null), a \notin Wasted,
         UNCHANGED <<Places, Counted, Wasted>>
  PROVE  Memory!Next
<1>1. Memory!Shared!Reclaim(a) BY CountedIs DEF Memory!Shared!Reclaim, Contents, Put
<1>2. Memory!UseShared(a) BY <1>1 DEF Memory!UseShared, Places, Contents, Wasted, Memory!Public
<1> QED BY <1>2 DEF Memory!Next

LEMMA ToPublish ==
  ASSUME NEW e \in Executor, NEW a \in Address, NEW b \in Address,
         Places[a] = Memory!Private!At("held", e), Places[b] = Memory!Private!Unborn,
         Places' = Put(Put(Places, a, Memory!Private!Gone), b, Memory!Public),
         Counted' = Put(Counted, b, 1),
         Contents' = Put(Put(Contents, a, Null), b, Contents[a]), UNCHANGED Wasted
  PROVE  Memory!Next
<1>1. Memory!Publish(e, a, b)
  BY CountedIs DEF Memory!Publish, Memory!Private!At, Memory!Private!Unborn,
     Memory!Private!Gone, Memory!Public, Places, Contents, Wasted, Put
<1> QED BY <1>1 DEF Memory!Next

LEMMA ToLoseCapability ==
  ASSUME NEW e \in Executor, NEW a \in Address, Places[a] = Memory!Private!At("sent", e),
         Places' = Put(Places, a, Memory!Lost), Wasted' = Wasted \cup {a},
         UNCHANGED <<Counted, Contents>>
  PROVE  Memory!Next
<1>1. Memory!LoseCapability(e, a)
  BY CountedIs DEF Memory!LoseCapability, Memory!Private!At, Memory!Lost, Places, Contents,
     Wasted, Put
<1> QED BY <1>1 DEF Memory!Next

LEMMA ToLoseReference ==
  ASSUME NEW a \in Address, Places[a] = Memory!Public, Counted[a] > 0,
         Counted' = Put(Counted, a, Counted[a] - 1), Wasted' = Wasted \cup {a},
         UNCHANGED <<Places, Contents>>
  PROVE  Memory!Next
<1>1. Memory!LoseReference(a)
  BY CountedIs DEF Memory!LoseReference, Memory!Public, Places, Contents, Wasted, Put
<1> QED BY <1>1 DEF Memory!Next

-----------------------------------------------------------------------------
(* Steps the application does not see *)

(* Whoever waits for an answer waited for the same.                        *)
AnswersKept ==
    \A s \in pvtMem', b \in Address : Fetches(s.to, s.from, b)' =>
        s \in pvtMem /\ Fetches(s.to, s.from, b)

LEMMA SameAnswers ==
  ASSUME IInv, pvtMem' \subseteq pvtMem,
         \A e \in Executor : \/ fwd'[e] = fwd[e] /\ pub'[e] = pub[e]
                             \/ fwd'[e] = Null /\ pub'[e] = Null
                             \/ \A s \in pvtMem : s.to # e
  PROVE  AnswersKept
<1> SUFFICES ASSUME NEW s \in pvtMem', NEW b \in Address, Fetches(s.to, s.from, b)'
             PROVE  s \in pvtMem /\ Fetches(s.to, s.from, b)
  BY DEF AnswersKept
<1>1. s \in pvtMem OBVIOUS
<1>2. PICK e \in Executor, t \in Executor : e = s.to /\ t = s.from
  BY <1>1, TypeFacts DEF IInv, Typed, TypedPrivate
<1>3. Fetches(e, t, b)' BY <1>2 DEF Fetches, Loads, Publishes
<1>4. fwd'[e] = fwd[e] /\ pub'[e] = pub[e]
  BY <1>1, <1>2, <1>3 DEF Fetches, Loads, Publishes
<1>5. Fetches(e, t, b) BY <1>3, <1>4 DEF Fetches, Loads, Publishes
<1> QED BY <1>1, <1>2, <1>5

LEMMA Unseen ==
  ASSUME RInv, IInv', CInv', MInv', WorksOn({})
  PROVE  RInv' /\ UNCHANGED <<Places, Contents, Counted, Wasted>>
<1>1. \A b \in Address : Untouched(b) BY Frame DEF RInv
<1>2. RInv'
  <2>1. PICK A \in SUBSET Address : A = {} OBVIOUS
  <2>2. /\ \A b \in Address : b \notin A => Untouched(b)
        /\ \A b \in A : lost'[b] = 0 \/ IsPublic(b)'
    BY <1>1, <2>1
  <2> QED BY <2>2, LossStep
<1>3. \A b \in Address : /\ Places'[b] = Places[b] /\ Contents'[b] = Contents[b]
                         /\ Counted'[b] = Counted[b]
                         /\ b \in Wasted' <=> b \in Wasted
  BY <1>1, <1>2, Kept
<1>4. UNCHANGED <<Places, Contents, Counted>> BY <1>3 DEF Places, Contents, Counted
<1>5. UNCHANGED Wasted
  <2>1. Wasted \subseteq Address /\ Wasted' \subseteq Address BY DEF Wasted
  <2> QED BY <1>3, <2>1
<1> QED BY <1>2, <1>4, <1>5

LEMMA Quiet ==
  ASSUME RInv, VInv, IInv', CInv', MInv', WorksOn({}), AnswersKept
  PROVE  Refines
<1>1. RInv' /\ UNCHANGED <<Places, Contents, Counted, Wasted>> BY Unseen
<1>2. VInv'
  <2>1. \A b \in Address : Contents'[b] = Contents[b] BY <1>1
  <2> QED BY <2>1, ValuesKept DEF AnswersKept, RInv
<1> QED BY <1>1, <1>2 DEF Refines

(* Counts, questions about counts and their answers                        *)
LEMMA CountingQuiet ==
  ASSUME RInv, VInv, IInv', CInv', MInv', SameHomes,
         UNCHANGED <<tableVars, privateVars, pub, lost, ptr, pubPap>>
  PROVE  Refines
<1>1. UNCHANGED <<issued, view, parent, heap, pvt, uniq, fwd, pvtPap, pvtDmn, pvtMem>>
  BY DEF tableVars, privateVars
<1>2. \A b \in Address : Refs'[b] = Refs[b] BY RefsSame
<1>3. \A b \in Address : IsPublic(b)' <=> IsPublic(b) BY DEF SameHomes, IsPublic
<1>4. \A b \in Address : InPublish(b)' <=> InPublish(b) BY DEF InPublish
<1>5. WorksOn({}) BY <1>1, <1>2, <1>3, <1>4 DEF WorksOn
<1>6. AnswersKept BY <1>1, SameAnswers DEF RInv
<1> QED BY <1>5, <1>6, Quiet

LEMMA PublicPullRefines ==
  ASSUME RInv, VInv, IInv', CInv', MInv', NEW e \in Executor, NEW m \in pubPap,
         Pub!Pull(e, m), UNCHANGED <<privateVars, pub, lost>>
  PROVE  Refines
<1>0. IInv /\ CInv /\ MInv BY DEF RInv
<1>1. PICK a \in Address, y \in Executor, x \in {Pub!PulledEntry(e, m)} :
        a = m.p /\ y = m.author /\ rc[y][a] # Null
  BY <1>0, PublicKnown, TypeFacts DEF IInv, Typed, TypedPublic
<1>2. /\ m.to = e /\ view' = Recounted(view, e, a, x)
      /\ UNCHANGED <<issued, parent, heap, rc, pvt, uniq, fwd, pvtPap, pvtDmn, pvtMem>>
      /\ pubPap' = pubPap \ {m} /\ ptr' = Put(ptr, m.ref, [p |-> m.p, at |-> e])
  BY <1>1 DEF Pub!Pull, privateVars, Recounted, Put
<1>3. x.access_level = "public" /\ x.committed = Null BY <1>1 DEF Pub!PulledEntry
<1>4. /\ view'[e][a] = x
      /\ \A f \in Executor, d \in Address : f # e \/ d # a => view'[f][d] = view[f][d]
  BY <1>0, <1>2, ViewWritten
<1>5. ~Backs(e, a)
  <2>1. e # y BY <1>0, <1>1, <1>2 DEF CInv
  <2>2. rc[e][a] = Null BY <1>0, <1>1, <2>1 DEF IInv, HomeOK
  <2>3. Copy(e, a) => rc[e][a] # Null BY <1>1, PublicCopy DEF IsPublic
  <2> QED BY <1>1, <2>2, PublicCopy DEF IsPublic
<1>6. MemoryStays(e, a) BY <1>3, <1>4, <1>5 DEF MemoryStays, Backs, Keeps, Private
<1>7. \A b \in Address : Refs'[b] = Refs[b]
  <2>1. [p |-> m.p, at |-> e] \in Pub!Pointer /\ [p |-> m.p, at |-> e].p = m.p
    BY <1>1 DEF Pub!Pointer
  <2> QED BY <1>0, <1>2, <2>1, MessagePulled
<1>8. WorksOn({})
  <2>1. \A b \in Address : (IsPublic(b)' <=> IsPublic(b)) /\ (InPublish(b)' <=> InPublish(b))
    BY <1>2 DEF IsPublic, InPublish
  <2>2. \A f \in Executor, b \in Address : view'[f][b] = view[f][b] \/ MemoryStays(f, b)
    BY <1>4, <1>6
  <2> QED BY <1>2, <1>7, <2>1, <2>2 DEF WorksOn
<1>9. AnswersKept BY <1>0, <1>2, SameAnswers
<1> QED BY <1>8, <1>9, Quiet

LEMMA LocalRequestRefines ==
  ASSUME RInv, VInv, IInv', CInv', MInv', NEW e \in Executor, NEW a \in Address, Idle(e),
         Pvt!LocalRequest(e, a), UNCHANGED <<publicVars, pub, lost>>
  PROVE  Refines
<1>0. IInv /\ CInv /\ MInv BY DEF RInv
<1>1. PICK c \in Cell :
        /\ heap[e][c] = Null
        /\ heap' = Recounted(heap, e, c, Default)
        /\ parent' = Recounted(parent, e, c, a)
        /\ view' = Recounted(view, e, a, Pvt!BindChild(view[e][a], c))
        /\ fwd' = [fwd EXCEPT ![e] = [p |-> a, lp |-> c, to |-> view[e][a].author]]
  BY DEF Pvt!LocalRequest, Pvt!FreeCells, Recounted
<1>q. PICK q : q = Pvt!RequestTo("RLOAD", e, a) OBVIOUS
<1>2. /\ a \in pvt[e] /\ fwd[e] = Null /\ pub[e] = Null
      /\ pvtDmn' = pvtDmn \cup {q} /\ q.op = "RLOAD"
      /\ UNCHANGED <<issued, pvt, uniq, pvtPap, pvtMem, pub, lost>>
  BY <1>q DEF Pvt!LocalRequest, Idle, Pvt!RequestTo
<1>3. PICK x : x = Pvt!BindChild(view[e][a], c) OBVIOUS
<1>4. Private(e, a) /\ view[e][a] \in Entry
  BY <1>0, <1>2, TypeFacts DEF IInv, AddressOK, HandleOK, Typed, TypedTables, Private
<1>5. /\ x \in Entry /\ x.committed = view[e][a].committed /\ x.author = view[e][a].author
      /\ x.access_level = view[e][a].access_level
  BY <1>3, <1>4 DEF Pvt!BindChild, Entry
<1>6. /\ view'[e][a] = x
      /\ \A f \in Executor, b \in Address : f # e \/ b # a => view'[f][b] = view[f][b]
  BY <1>0, <1>1, <1>3, ViewWritten
<1>7. \A f \in Executor, d \in Cell : f # e \/ d # c => heap'[f][d] = heap[f][d]
  BY <1>0, <1>1, HeapWritten
<1>8. \A f \in Executor, d \in Cell : f # e \/ d # c => parent'[f][d] = parent[f][d]
  BY <1>0, <1>1, ParentWritten
<1>9. parent[e][c] = Null /\ c \notin uniq[e]
  <2>1. parent[e][c] = Null BY <1>0, <1>1, FreeCell
  <2> QED BY <1>0, <2>1 DEF IInv, BlockOK
<1>10. MemoryStays(e, a)
  <2>1. x # Null BY <1>5, ViewAssumption
  <2> QED BY <1>4, <1>5, <1>6, <2>1 DEF MemoryStays, Backs, Keeps, Private, Mapped
<1>11. \A f \in Executor, b \in Address, d \in Cell :
          parent'[f][d] = b /\ d \in uniq'[f] <=> parent[f][d] = b /\ d \in uniq[f]
  BY <1>2, <1>8, <1>9
<1>12. WorksOn({})
  <2>1. \A f \in Executor, b \in Address : view'[f][b] = view[f][b] \/ MemoryStays(f, b)
    BY <1>6, <1>10
  <2>2. \A f \in Executor, d \in Cell : heap'[f][d] = heap[f][d] \/ Spare(f, d, {})
    BY <1>1, <1>7 DEF Spare
  <2>3. \A r \in pvtDmn \cup pvtDmn' : IsReset(r) => r \in pvtDmn /\ r \in pvtDmn'
    BY <1>2 DEF IsReset
  <2> QED BY <1>2, <1>11, <2>1, <2>2, <2>3, PublicSame DEF WorksOn
<1>13. AnswersKept
  <2>1. \A s \in pvtMem : s.to # e
    BY <1>0, <1>2 DEF IInv, FetchOK, Fetches, Loads, Publishes
  <2>2. \A f \in Executor : f # e => fwd'[f] = fwd[f]
    <3>1. fwd \in [Executor -> Pvt!Load \cup {Null}]
      BY <1>0, TypeParts DEF IInv, TypesApart, PrivateTyped
    <3> QED BY <1>1, <3>1
  <2> QED BY <1>0, <1>2, <2>1, <2>2, SameAnswers
<1> QED BY <1>12, <1>13, Quiet

(* A step that works on a: what is seen changes there only.                *)
LEMMA OneSeen ==
  ASSUME RInv, IInv', CInv', MInv', NEW a \in Address, WorksOn({a}),
         lost'[a] = 0 \/ IsPublic(a)'
  PROVE  /\ RInv' /\ SeenPlaces /\ SeenPlaces' /\ SeenContents /\ SeenContents'
         /\ Places' = Put(Places, a, Places'[a])
         /\ Contents' = Put(Contents, a, Contents'[a])
         /\ Counted' = Put(Counted, a, Counted'[a])
         /\ Places'[a] = Places[a] => Places' = Places
         /\ Contents'[a] = Contents[a] => Contents' = Contents
         /\ Refs'[a] = Refs[a] => Counted' = Counted
         /\ lost'[a] = lost[a] => Wasted' = Wasted
         /\ lost'[a] > 0 => Wasted' = Wasted \cup {a}
<1>1. \A b \in Address : b # a => Untouched(b) BY Frame DEF RInv
<1>2. RInv'
  <2>1. PICK A \in SUBSET Address : A = {a} OBVIOUS
  <2>2. /\ \A b \in Address : b \notin A => Untouched(b)
        /\ \A b \in A : lost'[b] = 0 \/ IsPublic(b)'
    BY <1>1, <2>1
  <2> QED BY <2>2, LossStep
<1>3. PICK p : p = Places'[a] OBVIOUS
<1>4. PICK v : v = Contents'[a] OBVIOUS
<1>5. PICK n : n = Counted'[a] OBVIOUS
<1>6. /\ Places' = Put(Places, a, p) /\ (p = Places[a] => Places' = Places)
      /\ Contents' = Put(Contents, a, v) /\ (v = Contents[a] => Contents' = Contents)
      /\ Counted' = Put(Counted, a, n) /\ (n = Counted[a] => Counted' = Counted)
      /\ lost'[a] = lost[a] => Wasted' = Wasted
      /\ lost'[a] > 0 => Wasted' = Wasted \cup {a}
  BY <1>1, <1>2, <1>3, <1>4, <1>5, AtOne
<1>7. Refs'[a] = Refs[a] => Counted'[a] = Counted[a] BY DEF Counted
<1> QED
  BY <1>2, <1>3, <1>4, <1>5, <1>6, <1>7, PlacesSeen, PlacesSeenNext, ContentsSeen,
     ContentsSeenNext

(* The answers that wait are not those of an address whose content changes.*)
LEMMA OneValued ==
  ASSUME RInv, VInv, IInv', NEW a \in Address, AnswersKept,
         Contents' = Put(Contents, a, Contents'[a]),
         Contents'[a] = Contents[a] \/ ~Alive(a) \/ ~Alive(a)'
  PROVE  VInv'
<1>1. \A b \in Address : b # a => Contents'[b] = Contents[b] BY DEF Put, Contents
<1>2. \A b \in Address : Contents'[b] = Contents[b] \/ ~Alive(b) \/ ~Alive(b)' BY <1>1
<1> QED BY <1>2, ValuesKept DEF AnswersKept, RInv

LEMMA DmnRloadRefines ==
  ASSUME RInv, VInv, IInv', CInv', MInv', NEW r \in pvtDmn, Pvt!DmnRload(r),
         UNCHANGED <<publicVars, pub, lost>>
  PROVE  Refines
<1>0. IInv /\ CInv /\ MInv BY DEF RInv
<1>1. PICK e \in Executor, t \in Executor, a \in Address :
        e = r.from /\ t = r.to /\ a = r.p
  BY <1>0, TypeFacts DEF IInv, Typed, TypedPrivate
<1>2. PICK v : v = heap[t][view[t][a].committed] OBVIOUS
<1>q. PICK q : q = [from |-> t, to |-> e, value |-> v] OBVIOUS
<1>3. /\ r.op = "RLOAD" /\ pvtDmn' = pvtDmn \ {r} /\ pvtMem' = pvtMem \cup {q}
      /\ UNCHANGED <<issued, view, parent, heap, pvt, uniq, fwd, pvtPap, pub>>
  BY <1>1, <1>2, <1>q DEF Pvt!DmnRload, Pvt!tableVars, Pvt!userVars
<1>4. WorksOn({})
  <2>1. \A x \in pvtDmn \cup pvtDmn' : IsReset(x) => x \in pvtDmn /\ x \in pvtDmn'
    BY <1>3 DEF IsReset
  <2> QED BY <1>3, <2>1, PublicSame DEF WorksOn
<1>5. RInv' /\ UNCHANGED <<Places, Contents, Counted, Wasted>> BY <1>4, Unseen
<1>6. Fetches(e, t, a) /\ \A b \in Address : Fetches(e, t, b) => b = a
  <2>1. Fetches(e, t, a) BY <1>0, <1>1, <1>3 DEF IInv, FetchOK, IsReset
  <2> QED BY <1>0, <2>1 DEF Fetches, Loads, Publishes, IInv, OneCall
<1>7. v = Contents[a]
  <2>1. Source(t, a) /\ a \in pvt[e] BY <1>0, <1>6, FetcherHolds
  <2>2. Keeps(t, a) /\ Alive(a) BY <2>1 DEF Source, Alive
  <2>3. ~IsPublic(a) BY <2>2, CapabilityFacts
  <2>4. Copy(t, a) BY <2>2, <2>3, PrivateCopy
  <2> QED BY <1>2, <2>4, ContentsSeen DEF SeenContents
<1>8. VInv'
  <2> SUFFICES ASSUME NEW b \in Address, NEW s \in pvtMem', Fetches(s.to, s.from, b)'
               PROVE  s.value = Contents'[b]
    BY DEF VInv, ValueOK
  <2>1. Fetches(s.to, s.from, b) BY <1>3 DEF Fetches, Loads, Publishes
  <2>2. Contents'[b] = Contents[b] BY <1>5
  <2>3. CASE s \in pvtMem BY <2>1, <2>2, <2>3 DEF VInv, ValueOK
  <2>4. CASE s = q
    <3>1. s.from = t /\ s.to = e /\ s.value = v BY <1>q, <2>4
    <3> QED BY <1>6, <1>7, <2>1, <2>2, <3>1
  <2> QED BY <1>3, <2>3, <2>4
<1> QED BY <1>5, <1>8 DEF Refines

(* A former author unmaps: its copy did not count any more.                *)
LEMMA DmnResetRefines ==
  ASSUME RInv, VInv, IInv', CInv', MInv', NEW r \in pvtDmn, Pvt!DmnPvtReset(r),
         UNCHANGED <<publicVars, pub, lost>>
  PROVE  Refines
<1>0. IInv /\ CInv /\ MInv BY DEF RInv
<1>1. PICK e \in Executor, a \in Address : e = r.to /\ a = r.p
  BY <1>0, TypeFacts DEF IInv, Typed, TypedPrivate
<1>2. /\ IsReset(r) /\ pvtDmn' = pvtDmn \ {r}
      /\ UNCHANGED <<pvt, uniq, fwd, pvtPap, pvtMem, pub, lost>>
  BY DEF Pvt!DmnPvtReset, IsReset, Pvt!userVars
<1>3. /\ Keeps(e, a) /\ ~Alive(a) /\ ~Open(e, a)
      /\ \A q \in pvtDmn : IsReset(q) /\ q.p = a => q = r
      /\ Pvt!ResetPending(e, a)
  BY <1>0, <1>1, <1>2 DEF IInv, AddressOK, ResetOK, Pvt!ResetPending, IsReset
<1>4. UnmapsAt(e, a)
  <2>1. Unmap(e, a) BY <1>1, SameTables DEF Pvt!DmnPvtReset
  <2> QED BY <1>0, <1>3, <2>1, UnmapEffect
<1>5. a \in issued /\ ~IsPublic(a) /\ ~InPublish(a) /\ lost[a] = 0
  BY <1>3, CapabilityFacts
<1>6. /\ \A f \in Executor, c \in Cell, b \in Address : b # a =>
            (parent'[f][c] = b /\ c \in uniq'[f] <=> parent[f][c] = b /\ c \in uniq[f])
      /\ \A f \in Executor, c \in Cell : heap'[f][c] = heap[f][c] \/ Spare(f, c, {a})
  BY <1>2, <1>4, ViewAssumption DEF UnmapsAt, Spare
<1>7. WorksOn({a})
  <2>1. \A x \in pvtDmn \cup pvtDmn' : IsReset(x) /\ x.p # a => x \in pvtDmn /\ x \in pvtDmn'
    BY <1>1, <1>2
  <2>2. issued' = issued /\ \A f \in Executor, b \in Address : b # a => view'[f][b] = view[f][b]
    BY <1>4 DEF UnmapsAt
  <2>3. /\ \A b \in Address : b # a => (b \in issued' <=> b \in issued) /\ lost'[b] = lost[b]
        /\ \A f \in Executor, b \in Address : b # a =>
              (b \in pvt'[f] <=> b \in pvt[f]) /\ view'[f][b] = view[f][b]
    BY <1>2, <2>2
  <2>4. \A b \in Address : b # a =>
          /\ IsPublic(b)' <=> IsPublic(b)
          /\ InPublish(b)' <=> InPublish(b)
          /\ Refs'[b] = Refs[b]
    BY <1>2, PublicSame
  <2>5. \A m \in pvtPap \cup pvtPap' : m.p # a => m \in pvtPap /\ m \in pvtPap'
    BY <1>2
  <2> QED BY <1>6, <2>1, <2>3, <2>4, <2>5, WorksOnOne
<1>8. \A f \in Executor : Open(f, a)' <=> Open(f, a)
  <2> SUFFICES ASSUME NEW f \in Executor PROVE Open(f, a)' <=> Open(f, a) OBVIOUS
  <2>1. uniq[f] \in SUBSET Cell
    BY <1>0, TypeParts DEF IInv, TypesApart, PrivateTyped
  <2>2. CASE f # e
    <3>1. \A c \in Cell : parent'[f][c] = parent[f][c] BY <1>4, <2>2 DEF UnmapsAt
    <3> QED BY <1>2, <2>1, <3>1 DEF Open
  <2>3. CASE f = e
    <3>1. \A c \in Cell : parent'[e][c] = a => parent[e][c] = a
      BY <1>4, ViewAssumption DEF UnmapsAt
    <3> QED BY <1>2, <1>3, <2>1, <2>3, <3>1 DEF Open
  <2> QED BY <2>2, <2>3
<1>9. a \in issued' /\ ~IsPublic(a)' /\ ~InPublish(a)' /\ lost'[a] = 0 /\ ~Alive(a)'
  BY <1>2, <1>3, <1>4, <1>5, PublicSame DEF Alive, UnmapsAt
<1>10. RInv' /\ SeenPlaces /\ SeenPlaces' /\ SeenContents /\ SeenContents'
  BY <1>7, <1>9, OneSeen
<1>11. Places'[a] = Places[a]
  <2>1. ASSUME NEW f \in Executor, Open(f, a) PROVE Places'[a] = Places[a]
    <3>1. Places[a] = Memory!Private!At("open", f) BY <1>10, <2>1 DEF SeenPlaces
    <3>2. Places'[a] = Memory!Private!At("open", f) BY <1>8, <1>10, <2>1 DEF SeenPlaces
    <3> QED BY <3>1, <3>2
  <2>2. ASSUME \A f \in Executor : ~Open(f, a) PROVE Places'[a] = Places[a]
    <3>1. Places[a] = Memory!Private!Gone BY <1>3, <1>5, <1>10, <2>2 DEF SeenPlaces
    <3>2. Places'[a] = Memory!Private!Gone BY <1>8, <1>9, <1>10, <2>2 DEF SeenPlaces
    <3> QED BY <3>1, <3>2
  <2> QED BY <2>1, <2>2
<1>12. \A f \in Executor : Copy(f, a)' <=> Copy(f, a)
  <2> SUFFICES ASSUME NEW f \in Executor PROVE Copy(f, a)' <=> Copy(f, a) OBVIOUS
  <2>1. CASE f = e
    <3>1. ~Copy(e, a) BY <1>3 DEF Copy
    <3>2. ~Mapped(e, a)' BY <1>4 DEF UnmapsAt, Mapped
    <3> QED BY <2>1, <3>1, <3>2 DEF Copy, Backs
  <2>2. CASE f # e
    <3>1. Backs(f, a)' <=> Backs(f, a) BY <1>4, <2>2 DEF UnmapsAt, Backs, Mapped
    <3>2. ~Pvt!ResetPending(f, a) BY <1>1, <1>3, <2>2 DEF Pvt!ResetPending, IsReset
    <3>3. ~Pvt!ResetPending(f, a)' BY <1>2, <3>2 DEF Pvt!ResetPending
    <3> QED BY <3>1, <3>2, <3>3 DEF Copy
  <2> QED BY <2>1, <2>2
<1>13. Contents'[a] = Contents[a]
  <2>1. ASSUME NEW f \in Executor, Copy(f, a) PROVE Contents'[a] = Contents[a]
    <3>1. f # e BY <1>3, <2>1 DEF Copy
    <3>2. view'[f][a] = view[f][a] /\ view[f][a].committed \in Cell
      BY <1>0, <1>4, <2>1, <3>1, BackingBlock DEF UnmapsAt, Copy
    <3>3. heap'[f][view[f][a].committed] = heap[f][view[f][a].committed]
      BY <1>4, <3>1, <3>2 DEF UnmapsAt
    <3>4. Contents[a] = heap[f][view[f][a].committed] BY <1>10, <2>1 DEF SeenContents
    <3>5. Copy(f, a)' BY <1>12, <2>1
    <3>6. Contents'[a] = heap'[f][view'[f][a].committed] BY <1>10, <3>5 DEF SeenContents
    <3> QED BY <3>2, <3>3, <3>4, <3>6
  <2>2. ASSUME \A f \in Executor : ~Copy(f, a) PROVE Contents'[a] = Contents[a]
    <3>1. Contents[a] = Null BY <1>10, <2>2 DEF SeenContents
    <3>2. \A f \in Executor : ~Copy(f, a)' BY <1>12, <2>2
    <3>3. Contents'[a] = Null BY <1>10, <3>2 DEF SeenContents
    <3> QED BY <3>1, <3>3
  <2> QED BY <2>1, <2>2
<1>14. Refs'[a] = Refs[a] /\ lost'[a] = lost[a] BY <1>2, PublicSame
<1>15. UNCHANGED <<Places, Contents, Counted, Wasted>>
  BY <1>7, <1>9, <1>11, <1>13, <1>14, OneSeen
<1>16. AnswersKept BY <1>0, <1>2, SameAnswers
<1>17. VInv'
  <2>1. \A b \in Address : Contents'[b] = Contents[b] BY <1>15
  <2> QED BY <1>0, <1>16, <2>1, ValuesKept DEF AnswersKept
<1> QED BY <1>10, <1>15, <1>17 DEF Refines

LEMMA PublishRequestRefines ==
  ASSUME RInv, VInv, IInv', CInv', MInv', NEW e \in Executor, NEW a \in Address,
         PublishRequest(e, a)
  PROVE  Refines
<1>0. IInv /\ CInv /\ MInv BY DEF RInv
<1>1. PICK b \in Address, c \in Cell :
        /\ b \notin issued /\ heap[e][c] = Null /\ issued' = issued \cup {b}
        /\ heap' = Recounted(heap, e, c, Default)
        /\ pub' = [pub EXCEPT ![e] =
                      [p |-> a, as |-> b, lp |-> c, to |-> view[e][a].author]]
  BY DEF PublishRequest, FreshAddresses, FreeCells, Recounted
<1>q. PICK q : q = Pvt!RequestTo("RLOAD", e, a) OBVIOUS
<1>2. /\ a \in pvt[e] /\ pub[e] = Null /\ fwd[e] = Null
      /\ pvtDmn' = pvtDmn \cup {q} /\ q.op = "RLOAD"
      /\ UNCHANGED <<view, parent, pvt, uniq, fwd, pvtPap, pvtMem, publicVars, lost>>
  BY <1>q DEF PublishRequest, Idle, Pvt!RequestTo
<1>3. /\ pub'[e] = [p |-> a, as |-> b, lp |-> c, to |-> view[e][a].author]
      /\ \A f \in Executor : f # e => pub'[f] = pub[f]
      /\ pub'[e] \in Publishing
  <2>1. pub \in [Executor -> Publishing \cup {Null}]
    BY <1>0, TypeParts DEF IInv, TypesApart, PubTyped
  <2>2. view[e][a].author \in Executor
    BY <1>0, <1>2, TypeFacts DEF IInv, AddressOK, HandleOK, Private, Typed, TypedTables
  <2>3. [p |-> a, as |-> b, lp |-> c, to |-> view[e][a].author] \in Publishing
    BY <2>2 DEF Publishing
  <2> QED BY <1>1, <2>1, <2>3
<1>4. \A f \in Executor, d \in Cell : f # e \/ d # c => heap'[f][d] = heap[f][d]
  BY <1>0, <1>1, HeapWritten
<1>5. /\ \A d \in Address : d # b => (InPublish(d)' <=> InPublish(d))
      /\ InPublish(b)'
  <2>1. pub'[e] # Null /\ pub'[e].as = b BY <1>3, ContextAssumption
  <2> QED BY <1>2, <1>3, <2>1 DEF InPublish
<1>6. \A d \in Address : Refs'[d] = Refs[d] /\ (IsPublic(d)' <=> IsPublic(d))
  <2>1. UNCHANGED <<ptr, pubPap, rc>> BY <1>2 DEF publicVars
  <2> QED BY <2>1, RefsSame DEF IsPublic
<1>7. WorksOn({b})
  <2>1. \A x \in pvtDmn \cup pvtDmn' : IsReset(x) => x \in pvtDmn /\ x \in pvtDmn'
    BY <1>2 DEF IsReset
  <2>2. \A f \in Executor, d \in Cell : heap'[f][d] = heap[f][d] \/ Spare(f, d, {b})
    BY <1>1, <1>4 DEF Spare
  <2> QED BY <1>1, <1>2, <1>5, <1>6, <2>1, <2>2 DEF WorksOn
<1>8. lost[b] = 0 /\ lost'[b] = 0 BY <1>0, <1>1, <1>2, NotLost
<1>9. RInv' /\ SeenPlaces /\ SeenPlaces' /\ SeenContents /\ SeenContents'
  BY <1>7, <1>8, OneSeen
<1>10. Places'[b] = Places[b] BY <1>1, <1>5, <1>9 DEF SeenPlaces
<1>11. Contents'[b] = Contents[b]
  <2>1. \A f \in Executor : ~Mapped(f, b) BY <1>0, <1>1, FreshAddress DEF Mapped
  <2>2. \A f \in Executor : ~Copy(f, b) /\ ~Copy(f, b)'
    BY <1>2, <2>1 DEF Copy, Backs, Mapped
  <2> QED BY <1>9, <2>2 DEF SeenContents
<1>12. UNCHANGED <<Places, Contents, Counted, Wasted>>
  BY <1>6, <1>7, <1>8, <1>10, <1>11, OneSeen
<1>13. AnswersKept
  <2>1. \A s \in pvtMem : s.to # e
    BY <1>0, <1>2 DEF IInv, FetchOK, Fetches, Loads, Publishes
  <2> QED BY <1>0, <1>2, <1>3, <2>1, SameAnswers
<1>14. VInv'
  <2>1. \A d \in Address : Contents'[d] = Contents[d] BY <1>12
  <2> QED BY <1>0, <1>13, <2>1, ValuesKept DEF AnswersKept
<1> QED BY <1>9, <1>12, <1>14 DEF Refines

-----------------------------------------------------------------------------
(* Private pointers *)

LEMMA MakeRefines ==
  ASSUME RInv, VInv, IInv', CInv', MInv', NEW e \in Executor, NEW v \in Content,
         Pvt!Make(e, v), UNCHANGED <<publicVars, pub, lost>>
  PROVE  Refines
<1>0. IInv /\ CInv /\ MInv BY DEF RInv
<1>1. PICK a \in Address, c \in Cell :
        /\ a \notin issued /\ heap[e][c] = Null
        /\ issued' = issued \cup {a}
        /\ view' = Recounted(view, e, a, PrivateEntry(e, c))
        /\ parent' = Recounted(parent, e, c, a)
        /\ heap' = Recounted(heap, e, c, v)
        /\ pvt' = [pvt EXCEPT ![e] = @ \cup {a}]
  BY DEF Pvt!Make, Pvt!FreshAddresses, Pvt!FreeCells, Pvt!MmapPrivate,
         Pvt!PrivateEntry, PrivateEntry, Pvt!Hold, Recounted
<1>2. UNCHANGED <<uniq, fwd, pvtPap, pvtDmn, pvtMem, pub, lost>>
  BY DEF Pvt!Make, Pvt!linkVars
<1>3. /\ view'[e][a] = PrivateEntry(e, c)
      /\ \A f \in Executor, b \in Address : f # e \/ b # a => view'[f][b] = view[f][b]
  BY <1>0, <1>1, ViewWritten
<1>4. \A f \in Executor, d \in Cell : f # e \/ d # c => heap'[f][d] = heap[f][d]
  BY <1>0, <1>1, HeapWritten
<1>h. heap'[e][c] = v
  <2>1. heap \in [Executor -> [Cell -> Value \cup {Null}]]
    BY <1>0, TypeParts DEF IInv, TypesApart, TableTypeOK
  <2> QED BY <1>1, <2>1 DEF Recounted
<1>5. \A f \in Executor, d \in Cell : f # e \/ d # c => parent'[f][d] = parent[f][d]
  BY <1>0, <1>1, ParentWritten
<1>6. \A f \in Executor, b \in Address : b \in pvt'[f] <=> b \in pvt[f] \/ (f = e /\ b = a)
  <2>1. pvt \in [Executor -> SUBSET Address]
    BY <1>0, TypeParts DEF IInv, TypesApart, PrivateTyped
  <2> QED BY <1>1, <2>1, Added
<1>7. parent[e][c] = Null /\ c \notin uniq[e] BY <1>0, <1>1, FreeCell
<1>8. WorksOn({a})
  <2>1. \A f \in Executor, d \in Cell : heap'[f][d] = heap[f][d] \/ Spare(f, d, {a})
    BY <1>1, <1>4 DEF Spare
  <2>2. \A f \in Executor, b \in Address, d \in Cell :
          parent'[f][d] = b /\ d \in uniq'[f] <=> parent[f][d] = b /\ d \in uniq[f]
    BY <1>2, <1>5, <1>7
  <2>3. \A f \in Executor, b \in Address : b # a =>
          view'[f][b] = view[f][b] /\ (b \in pvt'[f] <=> b \in pvt[f])
    BY <1>3, <1>6
  <2>4. \A b \in Address : b # a =>
          /\ IsPublic(b)' <=> IsPublic(b)
          /\ InPublish(b)' <=> InPublish(b)
          /\ Refs'[b] = Refs[b]
    BY <1>2, PublicSame
  <2>5. \A b \in Address : b # a => (b \in issued' <=> b \in issued) /\ lost'[b] = lost[b]
    BY <1>1, <1>2
  <2>6. /\ \A m \in pvtPap \cup pvtPap' : m.p # a => m \in pvtPap /\ m \in pvtPap'
        /\ \A r \in pvtDmn \cup pvtDmn' : IsReset(r) /\ r.p # a =>
              r \in pvtDmn /\ r \in pvtDmn'
    BY <1>2
  <2> QED BY <2>1, <2>2, <2>3, <2>4, <2>5, <2>6, WorksOnOne
<1>9. lost[a] = 0 /\ lost'[a] = 0 BY <1>0, <1>1, <1>2, NotLost
<1>10. RInv' /\ SeenPlaces /\ SeenPlaces' /\ SeenContents /\ SeenContents'
  BY <1>8, <1>9, OneSeen
<1>11. Places[a] = Memory!Private!Unborn BY <1>1, <1>10 DEF SeenPlaces
<1>12. a \in pvt'[e] /\ Places'[a] = Memory!Private!At("held", e)
  <2>1. a \in pvt'[e] BY <1>6
  <2> QED BY <1>10, <2>1 DEF SeenPlaces
<1>13. Contents'[a] = v
  <2>1. PrivateEntry(e, c) # Null /\ c # Null
    BY ViewAssumption DEF PrivateEntry, Entry, AccessLevel
  <2>2. Backs(e, a)' /\ view'[e][a].committed = c
    BY <1>3, <2>1 DEF Backs, Mapped, PrivateEntry
  <2>3. ~Pvt!ResetPending(e, a)'
    <3>1. \A r \in pvtDmn : r.p # a BY <1>0, <1>1, FreshAddress
    <3> QED BY <1>2, <3>1 DEF Pvt!ResetPending
  <2>4. Copy(e, a)' BY <2>2, <2>3 DEF Copy
  <2> QED BY <1>10, <1>h, <2>2, <2>4 DEF SeenContents
<1>14. /\ Places' = Put(Places, a, Memory!Private!At("held", e))
       /\ Contents' = Put(Contents, a, v) /\ UNCHANGED <<Counted, Wasted>>
  BY <1>2, <1>8, <1>9, <1>12, <1>13, OneSeen, PublicSame
<1>15. Memory!Next
  <2>1. v \in Value BY ContextAssumption
  <2> QED BY <1>11, <1>14, <2>1, ToCreate
<1>16. VInv'
  <2>1. ~Alive(a)
    <3>1. ~KnownPrivate(a) BY <1>0, <1>1, FreshAddress
    <3> QED BY <3>1 DEF KnownPrivate, Alive
  <2>2. AnswersKept BY <1>0, <1>2, SameAnswers
  <2> QED BY <1>13, <1>14, <2>1, <2>2, OneValued
<1> QED BY <1>10, <1>15, <1>16 DEF Refines

(* Work on a private address.                                              *)
LEMMA PrivateWorks ==
  ASSUME NEW a, UNCHANGED <<publicVars, pub, lost>>, issued' = issued,
         \A m \in pvtPap \cup pvtPap' : m.p # a => m \in pvtPap /\ m \in pvtPap',
         \A r \in pvtDmn \cup pvtDmn' : IsReset(r) /\ r.p # a =>
             r \in pvtDmn /\ r \in pvtDmn',
         \A f \in Executor, b \in Address : b # a => (b \in pvt'[f] <=> b \in pvt[f]),
         \A f \in Executor, b \in Address : b # a => view'[f][b] = view[f][b],
         \A f \in Executor, b \in Address, c \in Cell : b # a =>
             (parent'[f][c] = b /\ c \in uniq'[f] <=> parent[f][c] = b /\ c \in uniq[f]),
         \A f \in Executor, c \in Cell : heap'[f][c] = heap[f][c] \/ Spare(f, c, {a})
  PROVE  WorksOn({a})
<1>1. \A b \in Address : b # a => (b \in issued' <=> b \in issued) /\ lost'[b] = lost[b]
  OBVIOUS
<1>2. \A b \in Address : b # a => /\ IsPublic(b)' <=> IsPublic(b)
                                  /\ InPublish(b)' <=> InPublish(b)
                                  /\ Refs'[b] = Refs[b]
  BY PublicSame
<1> QED BY <1>1, <1>2, WorksOnOne

LEMMA Moved ==
  ASSUME RInv, VInv, IInv', CInv', MInv', NEW e \in Executor, NEW a \in Address,
         WorksOn({a}), AnswersKept, UNCHANGED <<publicVars, pub, lost>>, Alive(a),
         SeenContents /\ SeenContents' => Contents'[a] = Contents[a],
         NEW p, SeenPlaces => Places[a] = p, NEW q, SeenPlaces' => Places'[a] = q,
         \/ p = Memory!Private!At("held", e) /\ q = Memory!Private!At("open", e)
         \/ p = Memory!Private!At("sent", e) /\ q = Memory!Private!At("held", e)
         \/ \E f \in Executor : /\ e # f /\ p = Memory!Private!At("held", e)
                                /\ q = Memory!Private!At("sent", f)
  PROVE  Refines
<1>1. lost[a] = 0 /\ lost'[a] = 0 BY CapabilityFacts
<1>2. /\ RInv' /\ SeenPlaces /\ SeenPlaces' /\ SeenContents /\ SeenContents'
      /\ Places' = Put(Places, a, Places'[a])
      /\ Contents' = Put(Contents, a, Contents'[a])
  BY <1>1, OneSeen
<1>3. Contents'[a] = Contents[a] /\ Refs'[a] = Refs[a] BY <1>2, PublicSame
<1>4. UNCHANGED <<Contents, Counted, Wasted>> BY <1>1, <1>3, OneSeen
<1>5. Memory!Next BY <1>2, <1>4, ToMove
<1>6. VInv' BY <1>2, <1>3, OneValued
<1> QED BY <1>2, <1>5, <1>6 DEF Refines

(* No memory is kept for an address whose capability is gone.              *)
LeftNothing ==
    \A a \in Address :
        ~IsPublic(a) /\ ~Alive(a) /\ lost[a] = 0 /\ (\A f \in Executor : ~Open(f, a))
            => Contents[a] = Null

LEMMA NothingLeft == RInv => LeftNothing
<1> SUFFICES ASSUME RInv, NEW a \in Address, ~IsPublic(a), ~Alive(a), lost[a] = 0,
                    \A f \in Executor : ~Open(f, a)
             PROVE  Contents[a] = Null
  BY DEF LeftNothing
<1>1. \A f \in Executor : ~Copy(f, a) BY PrivateCopy
<1> QED BY <1>1, ContentsSeen DEF SeenContents

LEMMA NothingLeftNext == RInv' => LeftNothing'
BY NothingLeft, PTL

LEMMA Destroyed ==
  ASSUME RInv, VInv, IInv', CInv', MInv', NEW e \in Executor, NEW a \in Address,
         WorksOn({a}), AnswersKept, UNCHANGED <<publicVars, pub, lost>>,
         issued' = issued, a \in pvt[e] \/ Open(e, a),
         ~Alive(a)', \A f \in Executor : ~Open(f, a)'
  PROVE  Refines
<1>1. a \in issued /\ ~IsPublic(a) /\ ~InPublish(a) /\ lost[a] = 0
  <2>1. Alive(a) \/ \E f \in Executor : Open(f, a) \/ Pvt!ResetPending(f, a) BY DEF Alive
  <2> QED BY <2>1, CapabilityFacts
<1>2. a \in issued' /\ ~IsPublic(a)' /\ ~InPublish(a)' /\ lost'[a] = 0 /\ Refs'[a] = Refs[a]
  BY <1>1, PublicSame
<1>3. /\ RInv' /\ SeenPlaces /\ SeenPlaces' /\ SeenContents /\ SeenContents'
      /\ Places' = Put(Places, a, Places'[a])
      /\ Contents' = Put(Contents, a, Contents'[a])
      /\ UNCHANGED <<Counted, Wasted>>
  BY <1>1, <1>2, OneSeen
<1>4. Places[a] \in {Memory!Private!At("held", e), Memory!Private!At("open", e)}
  BY <1>3 DEF SeenPlaces
<1>5. Places'[a] = Memory!Private!Gone BY <1>2, <1>3 DEF SeenPlaces
<1>6. Contents'[a] = Null BY <1>2, <1>3, NothingLeftNext DEF LeftNothing
<1>7. Memory!Next BY <1>3, <1>4, <1>5, <1>6, ToDestroy
<1>8. VInv' BY <1>3, OneValued
<1> QED BY <1>3, <1>7, <1>8 DEF Refines

(* The same copy counts, with the same content.                            *)
LEMMA SameContent ==
  ASSUME NEW a \in Address, SeenContents, SeenContents',
         \A f \in Executor : Copy(f, a)' <=> Copy(f, a),
         \A f \in Executor : Copy(f, a) =>
             /\ view'[f][a].committed = view[f][a].committed
             /\ heap'[f][view[f][a].committed] = heap[f][view[f][a].committed]
  PROVE  Contents'[a] = Contents[a]
<1>1. ASSUME NEW f \in Executor, Copy(f, a) PROVE Contents'[a] = Contents[a]
  <2>1. Contents[a] = heap[f][view[f][a].committed] BY <1>1 DEF SeenContents
  <2>2. Copy(f, a)' BY <1>1
  <2>3. Contents'[a] = heap'[f][view'[f][a].committed] BY <2>2 DEF SeenContents
  <2> QED BY <1>1, <2>1, <2>3
<1>2. ASSUME \A f \in Executor : ~Copy(f, a) PROVE Contents'[a] = Contents[a]
  <2>1. Contents[a] = Null BY <1>2 DEF SeenContents
  <2>2. \A f \in Executor : ~Copy(f, a)' BY <1>2
  <2>3. Contents'[a] = Null BY <2>2 DEF SeenContents
  <2> QED BY <2>1, <2>3
<1> QED BY <1>1, <1>2

(* An entry changes, its memory staying.                                   *)
LEMMA EntryContent ==
  ASSUME NEW e \in Executor, NEW a \in Address, SeenContents, SeenContents',
         UNCHANGED <<heap, pvtDmn>>,
         \A f \in Executor : f # e => view'[f][a] = view[f][a],
         Backs(e, a)' <=> Backs(e, a),
         Backs(e, a) => view'[e][a].committed = view[e][a].committed
  PROVE  Contents'[a] = Contents[a]
<1>1. \A f \in Executor : Backs(f, a)' <=> Backs(f, a) BY DEF Backs, Mapped
<1>2. \A f \in Executor : Pvt!ResetPending(f, a)' <=> Pvt!ResetPending(f, a)
  BY DEF Pvt!ResetPending
<1>3. \A f \in Executor : Copy(f, a)' <=> Copy(f, a) BY <1>1, <1>2 DEF Copy
<1>4. \A f \in Executor : Copy(f, a) =>
          /\ view'[f][a].committed = view[f][a].committed
          /\ heap'[f][view[f][a].committed] = heap[f][view[f][a].committed]
  BY DEF Copy
<1> QED BY <1>3, <1>4, SameContent

LEMMA LocalAtHomeRefines ==
  ASSUME RInv, VInv, IInv', CInv', MInv', NEW e \in Executor, NEW a \in Address,
         Pvt!LocalAtHome(e, a), UNCHANGED <<publicVars, pub, lost>>
  PROVE  Refines
<1>0. IInv /\ CInv /\ MInv BY DEF RInv
<1>1. PICK c : c = view[e][a].committed OBVIOUS
<1>2. /\ a \in pvt[e] /\ view[e][a].author = e
      /\ pvt' = [pvt EXCEPT ![e] = @ \ {a}]
      /\ uniq' = [uniq EXCEPT ![e] = @ \cup {c}]
      /\ UNCHANGED <<issued, view, parent, heap, fwd, pvtPap, pvtDmn, pvtMem, pub, lost>>
  BY <1>1 DEF Pvt!LocalAtHome, Pvt!Point, Pvt!Release, Pvt!tableVars, Pvt!linkVars,
              Pvt!AmAuthor
<1>3. Source(e, a) BY <1>0, <1>2 DEF IInv, AddressOK, HandleOK
<1>4. c \in Cell /\ parent[e][c] = a
  <2>1. Keeps(e, a) /\ EntryOK(a) /\ ChildOK(a) BY <1>0, <1>3 DEF IInv, AddressOK, Source
  <2>2. c \in Cell BY <1>0, <1>1, <2>1, TypeFacts DEF IInv, Keeps, Private, Typed, TypedTables
  <2> QED BY <1>1, <1>2, <2>1, <2>2 DEF EntryOK, ChildOK, Keeps
<1>5. \A f \in Executor, d \in Cell : d \in uniq'[f] <=> d \in uniq[f] \/ (f = e /\ d = c)
  <2>1. uniq \in [Executor -> SUBSET Cell]
    BY <1>0, TypeParts DEF IInv, TypesApart, PrivateTyped
  <2> QED BY <1>2, <1>4, <2>1, Added
<1>6. \A f \in Executor, b \in Address : b \in pvt'[f] <=> b \in pvt[f] /\ ~(f = e /\ b = a)
  <2>1. pvt \in [Executor -> SUBSET Address]
    BY <1>0, TypeParts DEF IInv, TypesApart, PrivateTyped
  <2> QED BY <1>2, <2>1, Removed
<1>7. WorksOn({a})
  <2>1. \A f \in Executor, b \in Address : b # a => (b \in pvt'[f] <=> b \in pvt[f])
    BY <1>6
  <2>2. \A f \in Executor, b \in Address, d \in Cell : b # a =>
          (parent'[f][d] = b /\ d \in uniq'[f] <=> parent[f][d] = b /\ d \in uniq[f])
    BY <1>2, <1>4, <1>5
  <2> QED BY <1>2, <2>1, <2>2, PrivateWorks
<1>8. SeenContents /\ SeenContents' => Contents'[a] = Contents[a]
  <2>1. Backs(e, a)' <=> Backs(e, a) BY <1>2 DEF Backs, Mapped
  <2> QED BY <1>2, <2>1, EntryContent
<1>9. SeenPlaces => Places[a] = Memory!Private!At("held", e) BY <1>2 DEF SeenPlaces
<1>10. SeenPlaces' => Places'[a] = Memory!Private!At("open", e)
  <2>1. Open(e, a)' BY <1>2, <1>4, <1>5 DEF Open
  <2> QED BY <2>1 DEF SeenPlaces
<1>11. AnswersKept BY <1>0, <1>2, SameAnswers
<1>12. Alive(a) BY <1>2 DEF Alive
<1> QED BY <1>7, <1>8, <1>9, <1>10, <1>11, <1>12, Moved

LEMMA PushRefines ==
  ASSUME RInv, VInv, IInv', CInv', MInv', NEW e \in Executor, NEW a \in Address,
         NEW t \in Executor, t # e, Pvt!Push(e, a, t), UNCHANGED <<publicVars, pub, lost>>
  PROVE  Refines
<1>0. IInv /\ CInv /\ MInv BY DEF RInv
<1>1. PICK y, x : y = view[e][a].author /\ x = [view[e][a] EXCEPT !.owner = t] OBVIOUS
<1>2. PICK m : m = [from |-> e, to |-> t, p |-> a, author |-> y] OBVIOUS
<1>3. /\ a \in pvt[e] /\ pvt' = [pvt EXCEPT ![e] = @ \ {a}]
      /\ view' = Recounted(view, e, a, x)
      /\ pvtPap' = pvtPap \cup {m} /\ m.p = a /\ m.to = t
      /\ UNCHANGED <<issued, parent, heap, uniq, fwd, pvtDmn, pvtMem, pub, lost>>
  BY <1>1, <1>2 DEF Pvt!Push, Pvt!Release, Pvt!BindOwner, Recounted
<1>4. Mapped(e, a) /\ x # Null /\ x.committed = view[e][a].committed
  <2>1. Mapped(e, a) BY <1>0, <1>3 DEF IInv, AddressOK, HandleOK, Private
  <2>2. view[e][a] \in Entry BY <1>0, <2>1, TypeFacts DEF IInv, Typed, TypedTables
  <2>3. x \in Entry /\ x.committed = view[e][a].committed BY <1>1, <2>2 DEF Entry
  <2> QED BY <2>1, <2>3, ViewAssumption
<1>5. \A f \in Executor, b \in Address : b \in pvt'[f] <=> b \in pvt[f] /\ ~(f = e /\ b = a)
  <2>1. pvt \in [Executor -> SUBSET Address]
    BY <1>0, TypeParts DEF IInv, TypesApart, PrivateTyped
  <2> QED BY <1>3, <2>1, Removed
<1>6. /\ view'[e][a] = x
      /\ \A f \in Executor, b \in Address : f # e \/ b # a => view'[f][b] = view[f][b]
  BY <1>0, <1>3, ViewWritten
<1>7. WorksOn({a})
  <2>1. \A f \in Executor, b \in Address : b # a => (b \in pvt'[f] <=> b \in pvt[f])
    BY <1>5
  <2>2. \A n \in pvtPap \cup pvtPap' : n.p # a => n \in pvtPap /\ n \in pvtPap' BY <1>3
  <2>3. \A f \in Executor, b \in Address : b # a => view'[f][b] = view[f][b] BY <1>6
  <2> QED BY <1>3, <2>1, <2>2, <2>3, PrivateWorks
<1>8. SeenContents /\ SeenContents' => Contents'[a] = Contents[a]
  <2>1. Backs(e, a)' <=> Backs(e, a) BY <1>4, <1>6 DEF Backs, Mapped
  <2> QED BY <1>3, <1>4, <1>6, <2>1, EntryContent
<1>9. SeenPlaces => Places[a] = Memory!Private!At("held", e) BY <1>3 DEF SeenPlaces
<1>10. SeenPlaces' => Places'[a] = Memory!Private!At("sent", t)
  <2>1. m \in pvtPap' /\ m.p = a /\ m.to = t BY <1>3
  <2> QED BY <2>1 DEF SeenPlaces
<1>11. AnswersKept BY <1>0, <1>3, SameAnswers
<1>12. Alive(a) BY <1>3 DEF Alive
<1> QED BY <1>7, <1>8, <1>9, <1>10, <1>11, <1>12, Moved

LEMMA PullRefines ==
  ASSUME RInv, VInv, IInv', CInv', MInv', NEW e \in Executor, NEW m \in pvtPap,
         Pvt!Pull(e, m), UNCHANGED <<publicVars, pub, lost>>
  PROVE  Refines
<1>0. IInv /\ CInv /\ MInv BY DEF RInv
<1>1. PICK a \in Address, x \in {Pvt!PulledEntry(e, m)} :
        a = m.p /\ x = Pvt!PulledEntry(e, m)
  BY <1>0, TypeFacts DEF IInv, Typed, TypedPrivate
<1>2. /\ m.to = e /\ pvt' = [pvt EXCEPT ![e] = @ \cup {a}]
      /\ view' = Recounted(view, e, a, x)
      /\ pvtPap' = pvtPap \ {m}
      /\ UNCHANGED <<issued, parent, heap, uniq, fwd, pvtDmn, pvtMem, pub, lost>>
  BY <1>1 DEF Pvt!Pull, Pvt!Hold, Recounted
<1>3. \A f \in Executor, b \in Address : b \in pvt'[f] <=> b \in pvt[f] \/ (f = e /\ b = a)
  <2>1. pvt \in [Executor -> SUBSET Address]
    BY <1>0, TypeParts DEF IInv, TypesApart, PrivateTyped
  <2> QED BY <1>2, <2>1, Added
<1>4. x # Null /\ x.committed = IF Mapped(e, a) THEN view[e][a].committed ELSE Null
  BY <1>0, <1>1, PulledMemory
<1>5. /\ view'[e][a] = x
      /\ \A f \in Executor, b \in Address : f # e \/ b # a => view'[f][b] = view[f][b]
  BY <1>0, <1>2, ViewWritten
<1>6. WorksOn({a})
  <2>1. \A f \in Executor, b \in Address : b # a => (b \in pvt'[f] <=> b \in pvt[f])
    BY <1>3
  <2>2. \A n \in pvtPap \cup pvtPap' : n.p # a => n \in pvtPap /\ n \in pvtPap'
    BY <1>1, <1>2
  <2>3. \A f \in Executor, b \in Address : b # a => view'[f][b] = view[f][b] BY <1>5
  <2> QED BY <1>2, <2>1, <2>2, <2>3, PrivateWorks
<1>7. SeenContents /\ SeenContents' => Contents'[a] = Contents[a]
  <2>1. /\ Backs(e, a)' <=> Backs(e, a)
        /\ Backs(e, a) => view'[e][a].committed = view[e][a].committed
    BY <1>4, <1>5 DEF Backs, Mapped
  <2> QED BY <1>2, <1>5, <2>1, EntryContent
<1>8. SeenPlaces => Places[a] = Memory!Private!At("sent", e)
  BY <1>1, <1>2 DEF SeenPlaces
<1>9. SeenPlaces' => Places'[a] = Memory!Private!At("held", e)
  <2>1. a \in pvt'[e] BY <1>3
  <2> QED BY <2>1 DEF SeenPlaces
<1>10. AnswersKept BY <1>0, <1>2, SameAnswers
<1>11. Alive(a) BY <1>1 DEF Alive
<1> QED BY <1>6, <1>7, <1>8, <1>9, <1>10, <1>11, Moved

LEMMA LocalAnswerRefines ==
  ASSUME RInv, VInv, IInv', CInv', MInv', NEW e \in Executor, NEW s \in pvtMem,
         Pvt!LocalAnswer(e, s), UNCHANGED <<publicVars, pub, lost>>
  PROVE  Refines
<1>0. IInv /\ CInv /\ MInv BY DEF RInv
<1>1. PICK a \in Address, c \in Cell, y \in Executor :
        fwd[e] # Null /\ a = fwd[e].p /\ c = fwd[e].lp /\ y = fwd[e].to
  BY <1>0, TypeFacts DEF IInv, Typed, TypedCalls, Pvt!LocalAnswer, Pvt!Running
<1>2. PICK x, q : /\ x = Pvt!BindAuthor(Pvt!BindCommitted(view[e][a], c), e)
                  /\ q = [op |-> "PVT_RESET", from |-> e, to |-> y, p |-> a]
  OBVIOUS
<1>3. /\ heap' = Recounted(heap, e, c, s.value)
      /\ view' = Recounted(view, e, a, x)
      /\ pvtDmn' = pvtDmn \cup {q} /\ q.op = "PVT_RESET" /\ q.to = y /\ q.p = a
      /\ uniq' = [uniq EXCEPT ![e] = @ \cup {c}]
      /\ pvt' = [pvt EXCEPT ![e] = @ \ {a}]
      /\ fwd' = [fwd EXCEPT ![e] = Null]
      /\ pvtMem' = pvtMem \ {s} /\ s.to = e /\ s.from = y
      /\ UNCHANGED <<issued, parent, pvtPap, pub, lost>>
  BY <1>1, <1>2 DEF Pvt!LocalAnswer, Pvt!Point, Pvt!Release, Recounted
<1>4. /\ a \in pvt[e] /\ view[e][a].child = c /\ Private(e, a) /\ y # e
      /\ Fetches(s.to, s.from, a) /\ pub[e] = Null
  <2>1. Loads(e, a) BY <1>1 DEF Loads
  <2>2. /\ a \in pvt[e] /\ y = view[e][a].author /\ y # e /\ view[e][a].child = c
    BY <1>0, <1>1, <2>1 DEF IInv, AddressOK, WaitOK
  <2>3. Private(e, a) BY <1>0, <2>2 DEF IInv, AddressOK, HandleOK
  <2>4. Fetches(s.to, s.from, a) BY <1>1, <1>3, <2>1 DEF Fetches, Loads
  <2>5. pub[e] = Null BY <1>0, <1>1 DEF IInv, OneCall
  <2> QED BY <2>2, <2>3, <2>4, <2>5
<1>5. parent[e][c] = a
  <2>1. ChildOK(a) BY <1>0 DEF IInv, AddressOK
  <2> QED BY <1>4, <2>1, ViewAssumption DEF ChildOK
<1>6. x \in Entry /\ x.committed = c
  <2>1. view[e][a] \in Entry BY <1>0, <1>4, TypeFacts DEF IInv, Typed, TypedTables, Private
  <2> QED BY <1>2, <2>1 DEF Pvt!BindAuthor, Pvt!BindCommitted, Entry
<1>7. /\ view'[e][a] = x
      /\ \A f \in Executor, b \in Address : f # e \/ b # a => view'[f][b] = view[f][b]
  BY <1>0, <1>3, ViewWritten
<1>8. /\ \A f \in Executor, d \in Cell : f # e \/ d # c => heap'[f][d] = heap[f][d]
      /\ heap'[e][c] = s.value
  <2>1. heap \in [Executor -> [Cell -> Value \cup {Null}]]
    BY <1>0, TypeParts DEF IInv, TypesApart, TableTypeOK
  <2>2. heap'[e][c] = s.value BY <1>3, <2>1 DEF Recounted
  <2> QED BY <1>0, <1>3, <2>2, HeapWritten
<1>9. /\ \A f \in Executor, d \in Cell : d \in uniq'[f] <=> d \in uniq[f] \/ (f = e /\ d = c)
      /\ \A f \in Executor, b \in Address : b \in pvt'[f] <=> b \in pvt[f] /\ ~(f = e /\ b = a)
      /\ fwd'[e] = Null /\ \A f \in Executor : f # e => fwd'[f] = fwd[f]
  <2>1. /\ pvt \in [Executor -> SUBSET Address] /\ uniq \in [Executor -> SUBSET Cell]
        /\ fwd \in [Executor -> Pvt!Load \cup {Null}]
    BY <1>0, TypeParts DEF IInv, TypesApart, PrivateTyped
  <2> QED BY <1>3, <2>1, Added, Removed
<1>10. Alive(a) BY <1>4 DEF Alive
<1>11. WorksOn({a})
  <2>1. \A f \in Executor, b \in Address : b # a => (b \in pvt'[f] <=> b \in pvt[f])
    BY <1>9
  <2>2. \A f \in Executor, b \in Address, d \in Cell : b # a =>
          (parent'[f][d] = b /\ d \in uniq'[f] <=> parent[f][d] = b /\ d \in uniq[f])
    BY <1>3, <1>5, <1>9
  <2>3. \A f \in Executor, d \in Cell : heap'[f][d] = heap[f][d] \/ Spare(f, d, {a})
    BY <1>5, <1>8 DEF Spare
  <2>4. \A r \in pvtDmn \cup pvtDmn' : IsReset(r) /\ r.p # a => r \in pvtDmn /\ r \in pvtDmn'
    BY <1>3
  <2>5. \A f \in Executor, b \in Address : b # a => view'[f][b] = view[f][b] BY <1>7
  <2>6. \A m \in pvtPap \cup pvtPap' : m.p # a => m \in pvtPap /\ m \in pvtPap' BY <1>3
  <2>7. issued' = issued BY <1>3
  <2> QED BY <2>1, <2>2, <2>3, <2>4, <2>5, <2>6, <2>7, PrivateWorks
<1>12. SeenContents /\ SeenContents' => Contents'[a] = Contents[a]
  <2>1. Backs(e, a)' /\ view'[e][a].committed = c
    <3>1. x # Null /\ c # Null BY <1>6, ViewAssumption
    <3> QED BY <1>6, <1>7, <3>1 DEF Backs, Mapped
  <2>2. ~Pvt!ResetPending(e, a)'
    <3>1. ~Pvt!ResetPending(e, a)
      BY <1>0, <1>10 DEF IInv, AddressOK, ResetOK, Pvt!ResetPending, IsReset
    <3> QED BY <1>3, <1>4, <3>1 DEF Pvt!ResetPending
  <2>3. Copy(e, a)' BY <2>1, <2>2 DEF Copy
  <2>4. s.value = Contents[a] BY <1>4 DEF VInv, ValueOK
  <2> QED BY <1>8, <2>1, <2>3, <2>4 DEF SeenContents
<1>13. SeenPlaces => Places[a] = Memory!Private!At("held", e) BY <1>4 DEF SeenPlaces
<1>14. SeenPlaces' => Places'[a] = Memory!Private!At("open", e)
  <2>1. Open(e, a)' BY <1>3, <1>5, <1>9 DEF Open
  <2> QED BY <2>1 DEF SeenPlaces
<1>15. AnswersKept
  <2>1. \A f \in Executor : \/ fwd'[f] = fwd[f] /\ pub'[f] = pub[f]
                            \/ fwd'[f] = Null /\ pub'[f] = Null
    BY <1>3, <1>4, <1>9
  <2> QED BY <1>0, <1>3, <2>1, SameAnswers
<1> QED BY <1>10, <1>11, <1>12, <1>13, <1>14, <1>15, Moved

(* What unmap changes is of a.                                             *)
LEMMA UnmapWorks ==
  ASSUME NEW e \in Executor, NEW a \in Address, UnmapsAt(e, a),
         \A f \in Executor, c \in Cell :
             parent[f][c] # a => (c \in uniq'[f] <=> c \in uniq[f])
  PROVE  /\ \A f \in Executor, b \in Address : b # a => view'[f][b] = view[f][b]
         /\ \A f \in Executor, b \in Address, c \in Cell : b # a =>
                (parent'[f][c] = b /\ c \in uniq'[f] <=> parent[f][c] = b /\ c \in uniq[f])
         /\ \A f \in Executor, c \in Cell : heap'[f][c] = heap[f][c] \/ Spare(f, c, {a})
         /\ issued' = issued
<1>1. PICK k : k = view[e][a].child OBVIOUS
<1>2. /\ \A f \in Executor, c \in Cell : f # e \/ c # k =>
            parent'[f][c] = parent[f][c] /\ heap'[f][c] = heap[f][c]
      /\ parent[e][k] = a /\ parent'[e][k] = Null
  BY <1>1 DEF UnmapsAt
<1>3. ASSUME NEW f \in Executor, NEW b \in Address, NEW c \in Cell, b # a
      PROVE  parent'[f][c] = b /\ c \in uniq'[f] <=> parent[f][c] = b /\ c \in uniq[f]
  <2>1. b # Null BY ViewAssumption
  <2>2. CASE f = e /\ c = k BY <1>2, <1>3, <2>1, <2>2
  <2>3. CASE f # e \/ c # k
    <3>1. parent'[f][c] = parent[f][c] BY <1>2, <2>3
    <3> QED BY <1>3, <3>1
  <2> QED BY <2>2, <2>3
<1>4. \A f \in Executor, c \in Cell : heap'[f][c] = heap[f][c] \/ Spare(f, c, {a})
  BY <1>2 DEF Spare
<1> QED BY <1>3, <1>4 DEF UnmapsAt

LEMMA DropUniqueRefines ==
  ASSUME RInv, VInv, IInv', CInv', MInv', NEW e \in Executor, NEW c \in Cell,
         Pvt!DropUnique(e, c), UNCHANGED <<publicVars, pub, lost>>
  PROVE  Refines
<1>0. IInv /\ CInv /\ MInv BY DEF RInv
<1>1. /\ c \in uniq[e] /\ uniq' = [uniq EXCEPT ![e] = @ \ {c}]
      /\ UNCHANGED <<pvt, fwd, pvtPap, pvtDmn, pvtMem, pub, lost>>
  BY DEF Pvt!DropUnique, Pvt!Unpoint, Pvt!linkVars
<1>2. PICK a \in Address : /\ parent[e][c] = a /\ Open(e, a) /\ Keeps(e, a)
                           /\ view[e][a].child = c
  <2>1. parent[e][c] # Null BY <1>0, <1>1 DEF IInv, BlockOK
  <2>2. parent[e][c] \in Address BY <1>0, <2>1, TypeFacts DEF IInv, Typed, TypedTables
  <2>3. ChildOK(parent[e][c]) BY <1>0, <2>2 DEF IInv, AddressOK
  <2> QED BY <1>1, <2>2, <2>3 DEF ChildOK, Open
<1>3. UnmapsAt(e, a)
  <2>1. parent[e][c] # Null BY <1>0, <1>1 DEF IInv, BlockOK
  <2>2. Pvt!Unmap(e, a) BY <1>2, <2>1 DEF Pvt!DropUnique, Pvt!HasParent
  <2>3. Unmap(e, a) BY <2>2, SameTables
  <2> QED BY <1>0, <1>2, <2>3, UnmapEffect
<1>4. \A f \in Executor, d \in Cell : d \in uniq'[f] <=> d \in uniq[f] /\ ~(f = e /\ d = c)
  <2>1. uniq \in [Executor -> SUBSET Cell]
    BY <1>0, TypeParts DEF IInv, TypesApart, PrivateTyped
  <2> QED BY <1>1, <2>1, Removed
<1>5. WorksOn({a})
  <2>1. \A f \in Executor, d \in Cell : parent[f][d] # a => (d \in uniq'[f] <=> d \in uniq[f])
    BY <1>2, <1>4
  <2>2. /\ \A f \in Executor, b \in Address : b # a => view'[f][b] = view[f][b]
        /\ \A f \in Executor, b \in Address, d \in Cell : b # a =>
              (parent'[f][d] = b /\ d \in uniq'[f] <=> parent[f][d] = b /\ d \in uniq[f])
        /\ \A f \in Executor, d \in Cell : heap'[f][d] = heap[f][d] \/ Spare(f, d, {a})
        /\ issued' = issued
    BY <1>3, <2>1, UnmapWorks
  <2> QED BY <1>1, <2>2, PrivateWorks
<1>6. ~Alive(a) /\ ~Alive(a)'
  <2>1. ~Alive(a) BY <1>0, <1>2 DEF IInv, AddressOK, SoleOK
  <2> QED BY <1>1, <2>1 DEF Alive
<1>7. ASSUME NEW f \in Executor PROVE ~Open(f, a)'
  <2> SUFFICES ASSUME NEW d \in uniq'[f], parent'[f][d] = a PROVE FALSE BY DEF Open
  <2>1. d \in Cell
    BY TypePartsNext DEF IInv, TypesApart, PrivateTyped
  <2>2. d \in uniq[f] /\ ~(f = e /\ d = c) BY <1>4, <2>1
  <2>3. parent[f][d] = a BY <1>2, <1>3, <2>1, <2>2 DEF UnmapsAt
  <2>4. f = e BY <1>0, <1>2, <2>2, <2>3 DEF IInv, AddressOK, SoleOK, Open
  <2>5. d = c BY <1>0, <1>2, <2>1, <2>3, <2>4 DEF IInv, AddressOK, ChildOK
  <2> QED BY <2>2, <2>4, <2>5
<1>8. AnswersKept BY <1>0, <1>1, SameAnswers
<1>9. issued' = issued BY <1>3 DEF UnmapsAt
<1> QED BY <1>2, <1>5, <1>6, <1>7, <1>8, <1>9, Destroyed

LEMMA DropRefines ==
  ASSUME RInv, VInv, IInv', CInv', MInv', NEW e \in Executor, NEW a \in Address,
         Pvt!Drop(e, a), UNCHANGED <<publicVars, pub, lost>>
  PROVE  Refines
<1>0. IInv /\ CInv /\ MInv BY DEF RInv
<1>1. /\ a \in pvt[e] /\ pvt' = [pvt EXCEPT ![e] = @ \ {a}]
      /\ UNCHANGED <<uniq, fwd, pvtPap, pvtMem, pub, lost>>
  BY DEF Pvt!Drop, Pvt!Release
<1>2. \A f \in Executor, b \in Address : b \in pvt'[f] <=> b \in pvt[f] /\ ~(f = e /\ b = a)
  <2>1. pvt \in [Executor -> SUBSET Address]
    BY <1>0, TypeParts DEF IInv, TypesApart, PrivateTyped
  <2> QED BY <1>1, <2>1, Removed
<1>3. Private(e, a) /\ Source(view[e][a].author, a)
  BY <1>0, <1>1 DEF IInv, AddressOK, HandleOK
<1>4. ~Alive(a)' /\ \A f \in Executor : ~Open(f, a)
  <2>1. SoleOK(a) BY <1>0 DEF IInv, AddressOK
  <2> QED BY <1>1, <1>2, <2>1 DEF SoleOK, Alive
<1>5. AnswersKept BY <1>0, <1>1, SameAnswers
<1>6. CASE Pvt!AmAuthor(e, a)
  <2>1. Unmap(e, a) /\ UNCHANGED pvtDmn BY <1>6, SameTables DEF Pvt!Drop
  <2>2. Keeps(e, a) BY <1>3, <1>6 DEF Pvt!AmAuthor, Source
  <2>3. UnmapsAt(e, a) BY <1>0, <2>1, <2>2, UnmapEffect
  <2>4. WorksOn({a})
    <3>1. \A f \in Executor, b \in Address : b # a => (b \in pvt'[f] <=> b \in pvt[f])
      BY <1>2
    <3>2. /\ \A f \in Executor, b \in Address : b # a => view'[f][b] = view[f][b]
          /\ \A f \in Executor, b \in Address, c \in Cell : b # a =>
              (parent'[f][c] = b /\ c \in uniq'[f] <=> parent[f][c] = b /\ c \in uniq[f])
          /\ \A f \in Executor, c \in Cell : heap'[f][c] = heap[f][c] \/ Spare(f, c, {a})
          /\ issued' = issued
      BY <1>1, <2>3, UnmapWorks
    <3> QED BY <1>1, <2>1, <3>1, <3>2, PrivateWorks
  <2>5. ASSUME NEW f \in Executor PROVE ~Open(f, a)'
    <3> SUFFICES ASSUME NEW d \in uniq'[f], parent'[f][d] = a PROVE FALSE BY DEF Open
    <3>1. d \in Cell BY TypePartsNext DEF IInv, TypesApart, PrivateTyped
    <3>2. d \in uniq[f] BY <1>1
    <3>3. parent[f][d] = a BY <2>3, <3>1, ViewAssumption DEF UnmapsAt
    <3> QED BY <1>4, <3>2, <3>3 DEF Open
  <2>6. issued' = issued BY <2>3 DEF UnmapsAt
  <2> QED BY <1>1, <1>4, <1>5, <2>4, <2>5, <2>6, Destroyed
<1>7. CASE ~Pvt!AmAuthor(e, a)
  <2>1. PICK y, q : /\ y = view[e][a].author
                    /\ q = [op |-> "PVT_RESET", from |-> e, to |-> y, p |-> a]
    OBVIOUS
  <2>2. /\ pvtDmn' = pvtDmn \cup {q} /\ q.op = "PVT_RESET" /\ q.to = y /\ q.p = a
        /\ UNCHANGED <<issued, view, parent, heap>>
    BY <1>7, <2>1 DEF Pvt!Drop, Pvt!RequestTo, Pvt!tableVars
  <2>3. WorksOn({a})
    <3>1. \A f \in Executor, b \in Address : b # a => (b \in pvt'[f] <=> b \in pvt[f])
      BY <1>2
    <3>2. \A r \in pvtDmn \cup pvtDmn' : IsReset(r) /\ r.p # a => r \in pvtDmn /\ r \in pvtDmn'
      BY <2>2
    <3> QED BY <1>1, <2>2, <3>1, <3>2, PrivateWorks
  <2>4. \A f \in Executor : ~Open(f, a)' BY <1>1, <1>4, <2>2 DEF Open
  <2> QED BY <1>1, <1>4, <1>5, <2>2, <2>3, <2>4, Destroyed
<1> QED BY <1>6, <1>7

-----------------------------------------------------------------------------
(* References to public memory *)

(* A step that works on a public address, which stays one.                 *)
LEMMA SharedSeen ==
  ASSUME RInv, VInv, IInv', CInv', MInv', NEW a \in Address, IsPublic(a), IsPublic(a)',
         WorksOn({a}), AnswersKept
  PROVE  /\ RInv' /\ VInv' /\ SeenContents /\ SeenContents'
         /\ Places[a] = Memory!Public /\ UNCHANGED Places
         /\ Contents' = Put(Contents, a, Contents'[a])
         /\ Contents'[a] = Contents[a] => Contents' = Contents
         /\ Counted' = Put(Counted, a, Counted'[a])
         /\ Refs'[a] = Refs[a] => Counted' = Counted
         /\ lost'[a] = lost[a] => Wasted' = Wasted
         /\ lost'[a] > 0 => Wasted' = Wasted \cup {a}
<1>1. /\ RInv' /\ SeenPlaces /\ SeenPlaces' /\ SeenContents /\ SeenContents'
      /\ Contents' = Put(Contents, a, Contents'[a])
      /\ Counted' = Put(Counted, a, Counted'[a])
      /\ Places'[a] = Places[a] => Places' = Places
      /\ Contents'[a] = Contents[a] => Contents' = Contents
      /\ Refs'[a] = Refs[a] => Counted' = Counted
      /\ lost'[a] = lost[a] => Wasted' = Wasted
      /\ lost'[a] > 0 => Wasted' = Wasted \cup {a}
  BY OneSeen
<1>2. Places[a] = Memory!Public /\ Places'[a] = Memory!Public BY <1>1 DEF SeenPlaces
<1>3. ~Alive(a) BY CapabilityFacts
<1>4. VInv' BY <1>1, <1>3, OneValued
<1> QED BY <1>1, <1>2, <1>4

(* No memory changes, references to a do.                                  *)
LEMMA SharedStep ==
  ASSUME RInv, VInv, IInv', CInv', MInv', NEW a \in Address, IsPublic(a), SameHomes,
         UNCHANGED <<tableVars, privateVars, pub>>,
         \A b \in Address : b # a => Refs'[b] = Refs[b] /\ lost'[b] = lost[b]
  PROVE  /\ RInv' /\ VInv' /\ Places[a] = Memory!Public /\ UNCHANGED <<Places, Contents>>
         /\ Counted' = Put(Counted, a, Counted'[a])
         /\ lost'[a] = lost[a] => Wasted' = Wasted
         /\ lost'[a] > 0 => Wasted' = Wasted \cup {a}
<1>1. UNCHANGED <<issued, view, parent, heap, pvt, uniq, fwd, pvtPap, pvtDmn, pvtMem>>
  BY DEF tableVars, privateVars
<1>2. \A b \in Address : (IsPublic(b)' <=> IsPublic(b)) /\ (InPublish(b)' <=> InPublish(b))
  BY DEF SameHomes, IsPublic, InPublish
<1>3. WorksOn({a}) BY <1>1, <1>2 DEF WorksOn
<1>4. AnswersKept BY <1>1, SameAnswers DEF RInv
<1>5. IsPublic(a)' BY <1>2
<1>6. SeenContents /\ SeenContents' BY <1>3, <1>4, <1>5, SharedSeen
<1>7. Contents'[a] = Contents[a]
  <2>1. PICK e \in Executor : rc[e][a] # Null BY DEF IsPublic
  <2>2. Backs(e, a)' <=> Backs(e, a) BY <1>1 DEF Backs, Mapped
  <2> QED BY <1>1, <1>6, <2>2, EntryContent
<1> QED BY <1>3, <1>4, <1>5, <1>7, SharedSeen

(* One reference more or less.                                             *)
LEMMA CountedAt ==
  ASSUME NEW a \in Address
  PROVE  /\ Counted[a] \in Nat
         /\ Refs[a] = {} => Counted[a] = 0
         /\ \A h \in Refs[a] : Counted[a] > 0
         /\ \A k \in Handle : k \notin Refs[a] /\ Refs'[a] = Refs[a] \cup {k} =>
               Counted'[a] = Counted[a] + 1
         /\ \A h \in Refs[a] : Refs'[a] = Refs[a] \ {h} => Counted'[a] = Counted[a] - 1
<1>1. Counted[a] = Cardinality(Refs[a]) /\ Counted'[a] = Cardinality(Refs'[a])
  BY DEF Counted
<1>2. Refs[a] \in SUBSET Handle BY Subsets
<1>3. Cardinality(Refs[a]) \in Nat /\ (Cardinality(Refs[a]) = 0 <=> Refs[a] = {})
  BY <1>2, Sizes
<1>4. ASSUME NEW k \in Handle, k \notin Refs[a], Refs'[a] = Refs[a] \cup {k}
      PROVE  Counted'[a] = Counted[a] + 1
  BY <1>1, <1>2, <1>4, OneMore
<1>5. ASSUME NEW h \in Refs[a], Refs'[a] = Refs[a] \ {h}
      PROVE  Counted'[a] = Counted[a] - 1
  BY <1>1, <1>2, <1>5, OneLess
<1>6. \A h \in Refs[a] : Counted[a] > 0
  <2>1. PICK n : n = Cardinality(Refs[a]) OBVIOUS
  <2> QED BY <1>1, <1>3, <2>1
<1> QED BY <1>1, <1>3, <1>4, <1>5, <1>6

LEMMA RcIncHomes ==
  ASSUME IInv, NEW e \in Executor, NEW a \in Address, IsPublic(a), Mapped(e, a), NEW h,
         Pub!RcInc(e, a, h)
  PROVE  SameHomes
<1>1. CASE Pub!AmAuthor(e, a)
  <2>1. rc[e][a] # Null BY <1>1, KnownHome
  <2>2. PICK n : n = Pub!Incremented(rc[e][a]) OBVIOUS
  <2>3. rc' = [rc EXCEPT ![e][a] = n] BY <1>1, <2>2 DEF Pub!RcInc
  <2> QED BY <2>1, <2>2, <2>3, TypeParts, Recount DEF IInv, TypesApart, SameHomes
<1>2. CASE ~Pub!AmAuthor(e, a) BY <1>2 DEF Pub!RcInc, SameHomes
<1> QED BY <1>1, <1>2

LEMMA CopyRefines ==
  ASSUME RInv, VInv, IInv', CInv', MInv', NEW e \in Executor, NEW h \in Handle,
         Pub!Copy(e, h), UNCHANGED <<privateVars, pub, lost>>
  PROVE  Refines
<1>0. IInv /\ CInv /\ MInv BY DEF RInv
<1>1. /\ ptr[h] # Null /\ ptr[h].at = e
      /\ UNCHANGED <<tableVars, pubPap>>
  BY DEF Pub!Copy, Pub!HeldBy, Pub!tableVars, tableVars
<1>2. PICK k \in Pub!FreshHandles, x \in {ptr[h]} :
         ptr' = Put(ptr, k, x) /\ Pub!RcInc(e, ptr[h].p, k)
  BY DEF Pub!Copy, Put
<1>3. PICK a : a = ptr[h].p OBVIOUS
<1>4. a \in Address /\ IsPublic(a) /\ Mapped(e, a) /\ h \in Refs[a]
  BY <1>0, <1>1, <1>3, HolderHome
<1>5. x \in Pub!Pointer /\ x.p = a
  BY <1>0, <1>1, <1>2, <1>3, TypeParts DEF IInv, TypesApart, PublicTyped
<1>6. \A b \in Address : Refs'[b] = IF b = a THEN Refs[b] \cup {k} ELSE Refs[b]
  BY <1>0, <1>1, <1>2, <1>5, ObjectMade
<1>7. k \in Handle /\ k \notin Refs[a] BY <1>0, <1>2, <1>4, FreshFacts
<1>8. SameHomes BY <1>0, <1>2, <1>3, <1>4, RcIncHomes
<1>9. /\ RInv' /\ VInv' /\ Places[a] = Memory!Public /\ UNCHANGED <<Places, Contents>>
      /\ Counted' = Put(Counted, a, Counted'[a]) /\ Wasted' = Wasted
  BY <1>1, <1>4, <1>6, <1>8, SharedStep
<1>10. Counted'[a] = Counted[a] + 1 /\ Counted[a] > 0
  BY <1>4, <1>6, <1>7, CountedAt
<1>11. Memory!Next BY <1>4, <1>9, <1>10, ToShare
<1> QED BY <1>9, <1>11 DEF Refines

LEMMA PublicPushRefines ==
  ASSUME RInv, VInv, IInv', CInv', MInv', NEW e \in Executor, NEW h \in Handle,
         NEW t \in Executor, Pub!Push(e, h, t), UNCHANGED <<privateVars, pub, lost>>
  PROVE  Refines
<1>0. IInv /\ CInv /\ MInv BY DEF RInv
<1>1. /\ ptr[h] # Null /\ ptr[h].at = e
      /\ UNCHANGED <<tableVars, ptr, rc>>
  BY DEF Pub!Push, Pub!HeldBy, Pub!tableVars, tableVars
<1>2. PICK k \in Pub!FreshHandles :
         pubPap' = pubPap \cup {[from |-> e, to |-> t, p |-> ptr[h].p,
                                 author |-> view[e][ptr[h].p].author, ref |-> k]}
  BY DEF Pub!Push
<1>3. PICK a : a = ptr[h].p OBVIOUS
<1>4. a \in Address /\ IsPublic(a) /\ h \in Refs[a]
  BY <1>0, <1>1, <1>3, HolderHome
<1>5. PICK m : m = [from |-> e, to |-> t, p |-> a, author |-> view[e][a].author, ref |-> k]
  OBVIOUS
<1>6. m.p = a /\ m.ref = k /\ pubPap' = pubPap \cup {m} BY <1>2, <1>3, <1>5
<1>7. k \in Handle /\ k \notin Refs[a] BY <1>0, <1>2, <1>4, FreshFacts
<1>8. \A b \in Address : Refs'[b] = IF b = a THEN Refs[b] \cup {k} ELSE Refs[b]
  BY <1>1, <1>6, <1>7, MessageMade
<1>9. SameHomes BY <1>1 DEF SameHomes
<1>10. /\ RInv' /\ VInv' /\ Places[a] = Memory!Public /\ UNCHANGED <<Places, Contents>>
       /\ Counted' = Put(Counted, a, Counted'[a]) /\ Wasted' = Wasted
  BY <1>1, <1>4, <1>8, <1>9, SharedStep
<1>11. Counted'[a] = Counted[a] + 1 /\ Counted[a] > 0
  BY <1>4, <1>7, <1>8, CountedAt
<1>12. Memory!Next BY <1>4, <1>10, <1>11, ToShare
<1> QED BY <1>10, <1>12 DEF Refines

LEMMA DropAwayRefines ==
  ASSUME RInv, VInv, IInv', CInv', MInv', NEW e \in Executor, NEW h \in Handle,
         ~Pub!AmAuthor(e, ptr[h].p), Pub!Drop(e, h), UNCHANGED <<privateVars, pub, lost>>
  PROVE  Refines
<1>0. IInv /\ CInv /\ MInv BY DEF RInv
<1>1. /\ ptr[h] # Null /\ ptr[h].at = e /\ ptr' = Put(ptr, h, Null)
      /\ UNCHANGED <<tableVars, rc, pubPap>>
  BY DEF Pub!Drop, Pub!HeldBy, Pub!tableVars, tableVars, Put
<1>2. PICK a : a = ptr[h].p OBVIOUS
<1>3. a \in Address /\ IsPublic(a) /\ h \in Refs[a] BY <1>0, <1>1, <1>2, HolderHome
<1>4. \A b \in Address : Refs'[b] = IF b = a THEN Refs[b] \ {h} ELSE Refs[b]
  BY <1>0, <1>1, <1>2, ObjectGone
<1>5. SameHomes BY <1>1 DEF SameHomes
<1>6. /\ RInv' /\ VInv' /\ Places[a] = Memory!Public /\ UNCHANGED <<Places, Contents>>
      /\ Counted' = Put(Counted, a, Counted'[a]) /\ Wasted' = Wasted
  BY <1>1, <1>3, <1>4, <1>5, SharedStep
<1>7. Counted'[a] = Counted[a] - 1 /\ Counted[a] > 0 BY <1>3, <1>4, CountedAt
<1>8. Memory!Next BY <1>3, <1>6, <1>7, ToRelease
<1> QED BY <1>6, <1>8 DEF Refines

(* A reference is forgotten.                                               *)
LEMMA ForgottenRefines ==
  ASSUME RInv, VInv, IInv', CInv', MInv', NEW a \in Address, IsPublic(a), Lose(a), rc' = rc,
         UNCHANGED <<tableVars, privateVars, pub>>, NEW h, h \in Refs[a],
         \A b \in Address : Refs'[b] = IF b = a THEN Refs[b] \ {h} ELSE Refs[b]
  PROVE  Refines
<1>1. lost'[a] > 0 /\ \A b \in Address : b # a => lost'[b] = lost[b]
  <2>1. lost \in [Address -> 0 .. MaxLost]
    BY TypeParts DEF RInv, IInv, TypesApart, LostTyped
  <2>2. lost'[a] = lost[a] + 1 /\ lost[a] \in Nat BY <2>1 DEF Lose
  <2> QED BY <2>1, <2>2 DEF Lose
<1>2. SameHomes BY DEF SameHomes
<1>3. /\ RInv' /\ VInv' /\ Places[a] = Memory!Public /\ UNCHANGED <<Places, Contents>>
      /\ Counted' = Put(Counted, a, Counted'[a]) /\ Wasted' = Wasted \cup {a}
  BY <1>1, <1>2, SharedStep
<1>4. Counted'[a] = Counted[a] - 1 /\ Counted[a] > 0 BY CountedAt
<1>5. Memory!Next BY <1>3, <1>4, ToLoseReference
<1> QED BY <1>3, <1>5 DEF Refines

LEMMA OverwriteRefines ==
  ASSUME RInv, VInv, IInv', CInv', MInv', NEW e \in Executor, NEW h \in Handle,
         Overwrite(e, h)
  PROVE  Refines
<1>0. IInv /\ CInv /\ MInv BY DEF RInv
<1>1. /\ ptr[h] # Null /\ ptr' = Put(ptr, h, Null) /\ Lose(ptr[h].p) /\ rc' = rc
      /\ UNCHANGED <<tableVars, privateVars, pub, pubPap>>
  BY DEF Overwrite, Pub!HeldBy, Put
<1>2. PICK a : a = ptr[h].p OBVIOUS
<1>3. a \in Address /\ IsPublic(a) /\ h \in Refs[a] BY <1>0, <1>1, <1>2, HolderHome
<1>4. \A b \in Address : Refs'[b] = IF b = a THEN Refs[b] \ {h} ELSE Refs[b]
  BY <1>0, <1>1, <1>2, ObjectGone
<1> QED BY <1>1, <1>2, <1>3, <1>4, ForgottenRefines

LEMMA PullPublicAsPrivateRefines ==
  ASSUME RInv, VInv, IInv', CInv', MInv', NEW e \in Executor, NEW m \in pubPap,
         PullPublicAsPrivate(e, m)
  PROVE  Refines
<1>0. IInv /\ CInv /\ MInv BY DEF RInv
<1>1. /\ pubPap' = pubPap \ {m} /\ Lose(m.p) /\ rc' = rc
      /\ UNCHANGED <<tableVars, privateVars, pub, ptr>>
  BY DEF PullPublicAsPrivate
<1>2. PICK a, h : a = m.p /\ h = m.ref OBVIOUS
<1>3. /\ a \in Address /\ h \in Refs[a]
      /\ \A b \in Address : Refs'[b] = IF b = a THEN Refs[b] \ {h} ELSE Refs[b]
  BY <1>0, <1>1, <1>2, MessageGone
<1>4. IsPublic(a) BY <1>0, <1>2, PublicKnown DEF IsPublic
<1>5. Lose(a) /\ rc' = rc /\ UNCHANGED <<tableVars, privateVars, pub>> BY <1>1, <1>2
<1> QED BY <1>3, <1>4, <1>5, ForgottenRefines

(* The home forgets a reference: the memory goes with the last one.        *)
LEMMA DiscountSeen ==
  ASSUME RInv, VInv, IInv', CInv', MInv', NEW e \in Executor, NEW a \in Address,
         Pub!AmAuthor(e, a), IsPublic(a), Pub!Discount(e, a),
         UNCHANGED <<privateVars, pub, lost>>,
         \A b \in Address : b # a => Refs'[b] = Refs[b]
  PROVE  /\ RInv' /\ VInv' /\ Places[a] = Memory!Public /\ UNCHANGED <<Places, Wasted>>
         /\ Counted' = Put(Counted, a, Counted'[a])
         /\ Refs'[a] = Refs[a] => Counted' = Counted
         /\ \/ UNCHANGED Contents
            \/ /\ Contents[a] # Null /\ Contents' = Put(Contents, a, Null)
               /\ Refs'[a] = {} /\ a \notin Wasted
<1>0. IInv /\ CInv /\ MInv BY DEF RInv
<1>1. SameHomes /\ (UNCHANGED tableVars \/ (Public(e, a) /\ Freed(e, a)))
  BY <1>0, DiscountEffect DEF SameHomes
<1>2. /\ Counted' = Put(Counted, a, Counted'[a])
      /\ Refs'[a] = Refs[a] => Counted' = Counted
  BY DEF Counted, Put
<1>3. CASE UNCHANGED tableVars
  <2>1. \A b \in Address : b # a => Refs'[b] = Refs[b] /\ lost'[b] = lost[b] OBVIOUS
  <2>2. UNCHANGED <<tableVars, privateVars, pub>> /\ lost'[a] = lost[a] BY <1>3
  <2> QED BY <1>1, <1>2, <2>1, <2>2, SharedStep
<1>4. CASE Public(e, a) /\ Freed(e, a)
  <2>1. PICK c \in Cell : c = view[e][a].committed BY <1>4 DEF Freed
  <2>2. /\ UNCHANGED <<issued, parent, pvt, uniq, fwd, pvtPap, pvtDmn, pvtMem>>
        /\ view'[e][a] = Null
        /\ \A f \in Executor, b \in Address : f # e \/ b # a => view'[f][b] = view[f][b]
        /\ \A f \in Executor, d \in Cell : f # e \/ d # c => heap'[f][d] = heap[f][d]
    BY <1>4, <2>1 DEF Freed, privateVars
  <2>3. Backs(e, a)
    <3>1. c # Null BY <2>1, ViewAssumption
    <3> QED BY <1>4, <2>1, <3>1 DEF Public, Backs
  <2>4. ~Backs(e, a)' BY <2>2 DEF Backs, Mapped
  <2>5. /\ IsPublic(a)'
        /\ \A b \in Address : IsPublic(b)' <=> IsPublic(b)
        /\ \A b \in Address : InPublish(b)' <=> InPublish(b)
    BY <1>1 DEF SameHomes, IsPublic, InPublish
  <2>6. WorksOn({a})
    <3>1. \A f \in Executor, d \in Cell : heap'[f][d] = heap[f][d] \/ Spare(f, d, {a})
      BY <2>1, <2>2, <2>3 DEF Spare
    <3> QED BY <2>2, <2>5, <3>1 DEF WorksOn
  <2>7. AnswersKept BY <1>0, <2>2, SameAnswers
  <2>8. /\ RInv' /\ VInv' /\ SeenContents /\ SeenContents'
        /\ Places[a] = Memory!Public /\ UNCHANGED <<Places, Wasted>>
        /\ Contents' = Put(Contents, a, Contents'[a])
    BY <2>5, <2>6, <2>7, SharedSeen
  <2>9. Contents[a] # Null
    <3>1. Copy(e, a) BY <2>3, PublicCopy
    <3>2. heap[e][view[e][a].committed] # Null BY <1>0, <2>3, BackingBlock
    <3> QED BY <2>8, <3>1, <3>2 DEF SeenContents
  <2>10. Contents'[a] = Null
    <3>1. ASSUME NEW f \in Executor, Copy(f, a)' PROVE FALSE
      <4>1. f # e BY <2>4, <3>1 DEF Copy
      <4>2. Backs(f, a) BY <2>2, <3>1, <4>1 DEF Copy, Backs, Mapped
      <4>3. Copy(f, a) /\ Copy(e, a) BY <2>3, <4>2, PublicCopy
      <4> QED BY <4>1, <4>3, OneCopy
    <3> QED BY <2>8, <3>1 DEF SeenContents
  <2>11. rc'[e][a] = 0
    <3>1. rc[e][a] # Null BY <1>0, <1>4, KnownHome DEF Public
    <3>2. rc'[e][a] # Null BY <1>1, <3>1 DEF SameHomes
    <3>3. MemoryOK(a)' BY DEF CInv
    <3> QED BY <2>4, <3>2, <3>3 DEF MemoryOK
  <2>12. Refs'[a] = {} /\ lost'[a] = 0 BY <2>8, <2>11, ZeroCountNext DEF ZeroMeansNone
  <2>13. a \notin Wasted BY <2>12 DEF Wasted
  <2> QED BY <1>2, <2>8, <2>9, <2>10, <2>12, <2>13
<1> QED BY <1>1, <1>3, <1>4

LEMMA DropAtHomeRefines ==
  ASSUME RInv, VInv, IInv', CInv', MInv', NEW e \in Executor, NEW h \in Handle,
         Pub!AmAuthor(e, ptr[h].p), Pub!Drop(e, h), UNCHANGED <<privateVars, pub, lost>>
  PROVE  Refines
<1>0. IInv /\ CInv /\ MInv BY DEF RInv
<1>1. PICK a : a = ptr[h].p OBVIOUS
<1>2. /\ ptr[h] # Null /\ ptr[h].at = e /\ ptr' = Put(ptr, h, Null)
      /\ Pub!AmAuthor(e, a) /\ Pub!Discount(e, a) /\ UNCHANGED pubPap
  BY <1>1 DEF Pub!Drop, Pub!HeldBy, Put
<1>3. a \in Address /\ IsPublic(a) /\ h \in Refs[a] BY <1>0, <1>1, <1>2, HolderHome
<1>4. \A b \in Address : Refs'[b] = IF b = a THEN Refs[b] \ {h} ELSE Refs[b]
  BY <1>0, <1>1, <1>2, ObjectGone
<1>5. /\ RInv' /\ VInv' /\ Places[a] = Memory!Public /\ UNCHANGED <<Places, Wasted>>
      /\ Counted' = Put(Counted, a, Counted'[a])
      /\ \/ UNCHANGED Contents
         \/ /\ Contents' = Put(Contents, a, Null)
            /\ Refs'[a] = {} /\ a \notin Wasted
  BY <1>2, <1>3, <1>4, DiscountSeen
<1>6. Counted'[a] = Counted[a] - 1 /\ Counted[a] > 0 /\ Counted[a] \in Nat
  BY <1>3, <1>4, CountedAt
<1>7. Refs'[a] = {} => Counted[a] = 1
  <2>1. Refs'[a] = {} => Counted'[a] = 0 BY <1>3, FS_EmptySet DEF Counted
  <2> QED BY <1>6, <2>1
<1>8. Memory!Next BY <1>3, <1>5, <1>6, <1>7, ToRelease
<1> QED BY <1>5, <1>8 DEF Refines

LEMMA DmnRcDecRefines ==
  ASSUME RInv, VInv, IInv', CInv', MInv', NEW r \in pubDmn, Pub!DmnRcDec(r),
         UNCHANGED <<privateVars, pub, lost>>
  PROVE  Refines
<1>0. IInv /\ CInv /\ MInv BY DEF RInv
<1>1. PICK a, y : a = r.p /\ y = r.to OBVIOUS
<1>2. /\ Pub!AmAuthor(y, a) /\ Pub!Discount(y, a) /\ UNCHANGED <<ptr, pubPap>>
  BY <1>1 DEF Pub!DmnRcDec, Pub!Serviceable
<1>3. a \in Address /\ y \in Executor /\ IsPublic(a)
  BY <1>0, <1>1, PublicKnown DEF IsPublic
<1>4. \A b \in Address : Refs'[b] = Refs[b] BY <1>2, RefsSame
<1>5. /\ RInv' /\ VInv' /\ Places[a] = Memory!Public /\ UNCHANGED <<Places, Counted, Wasted>>
      /\ \/ UNCHANGED Contents
         \/ /\ Contents[a] # Null /\ Contents' = Put(Contents, a, Null)
            /\ Refs'[a] = {} /\ a \notin Wasted
  BY <1>2, <1>3, <1>4, DiscountSeen
<1>6. CASE UNCHANGED Contents BY <1>5, <1>6 DEF Refines
<1>7. CASE /\ Contents[a] # Null /\ Contents' = Put(Contents, a, Null)
           /\ Refs'[a] = {} /\ a \notin Wasted
  <2>1. Counted[a] = 0 BY <1>3, <1>4, <1>7, CountedAt
  <2>2. Memory!Next BY <1>3, <1>5, <1>7, <2>1, ToReclaim
  <2> QED BY <1>5, <2>2 DEF Refines
<1> QED BY <1>5, <1>6, <1>7

(* Steps that only count, ask or answer.                                   *)
LEMMA PushCountRefines ==
  ASSUME RInv, VInv, IInv', CInv', MInv', NEW e \in Executor, Pub!PushCount(e),
         UNCHANGED <<privateVars, pub, lost>>
  PROVE  Refines
<1>0. IInv /\ CInv /\ MInv BY DEF RInv
<1>1. /\ Pub!IsPushing(e) /\ UNCHANGED <<tableVars, ptr, pubPap>>
      /\ Mapped(e, busy[e].p) /\ Pub!RcInc(e, busy[e].p, busy[e].ref)
  BY <1>0, SameTables, TypeFacts
     DEF IInv, Typed, TypedCalls, Pub!PushCount, Pub!IsPushing, Pub!tableVars, tableVars
<1>2. PICK a \in Address : a = busy[e].p
  BY <1>0, <1>1, TypeFacts DEF IInv, Typed, TypedCalls, Pub!IsPushing
<1>3. IsPublic(a) BY <1>0, <1>1, <1>2, PublicKnown DEF Pub!IsPushing
<1>4. SameHomes BY <1>0, <1>1, <1>2, <1>3, RcIncHomes
<1> QED BY <1>1, <1>4, CountingQuiet

LEMMA DmnRcIncRefines ==
  ASSUME RInv, VInv, IInv', CInv', MInv', NEW r \in pubDmn, Pub!DmnRcInc(r),
         UNCHANGED <<privateVars, pub, lost>>
  PROVE  Refines
<1>0. IInv /\ CInv /\ MInv BY DEF RInv
<1>1. PICK a, y, n : a = r.p /\ y = r.to /\ n = Pub!Incremented(rc[r.to][r.p]) OBVIOUS
<1>2. rc' = [rc EXCEPT ![y][a] = n] /\ UNCHANGED <<tableVars, ptr, pubPap>>
  BY <1>1 DEF Pub!DmnRcInc, Pub!tableVars, tableVars
<1>3. a \in Address /\ y \in Executor /\ rc[y][a] # Null
  BY <1>0, <1>1, PublicKnown DEF IsPublic
<1>4. SameHomes
  BY <1>0, <1>1, <1>2, <1>3, TypeParts, Recount DEF IInv, TypesApart, SameHomes
<1> QED BY <1>2, <1>4, CountingQuiet

LEMMA QuestionRefines ==
  ASSUME RInv, VInv, IInv', CInv', MInv', UNCHANGED <<privateVars, pub, lost>>,
         \/ \E r \in pubDmn : Pub!DmnReply(r)
         \/ \E e \in Executor : Pub!Answered(e)
         \/ \E e \in Executor, h \in Handle, op \in {"RLOAD", "RC_GET"} : Pub!Ask(e, h, op)
  PROVE  Refines
<1>1. UNCHANGED <<tableVars, ptr, rc, pubPap>>
  BY DEF Pub!DmnReply, Pub!Answered, Pub!Ask, Pub!tableVars, tableVars
<1>2. SameHomes BY <1>1 DEF SameHomes
<1> QED BY <1>1, <1>2, CountingQuiet

LEMMA PublicMakeRefines ==
  ASSUME RInv, VInv, IInv', CInv', MInv', NEW e \in Executor, NEW v \in Value,
         Pub!Make(e, v), UNCHANGED <<privateVars, pub, lost>>
  PROVE  Refines
<1>0. IInv /\ CInv /\ MInv BY DEF RInv
<1>p. PICK b \in Address, c \in Cell, k \in Pub!FreshHandles :
        /\ b \notin issued /\ heap[e][c] = Null
        /\ issued' = issued \cup {b}
        /\ view' = [view EXCEPT ![e][b] = Pub!PublicEntry(e, c)]
        /\ heap' = [heap EXCEPT ![e][c] = v]
        /\ Pub!RcInit(e, b)
        /\ ptr' = [ptr EXCEPT ![k] = [p |-> b, at |-> e]]
  <2>1. PICK b \in Pub!FreshAddresses, c \in Pub!FreeCells(e), k \in Pub!FreshHandles :
          /\ issued' = issued \cup {b}
          /\ view' = [view EXCEPT ![e][b] = Pub!PublicEntry(e, c)]
          /\ heap' = [heap EXCEPT ![e][c] = v]
          /\ Pub!RcInit(e, b)
          /\ ptr' = [ptr EXCEPT ![k] = [p |-> b, at |-> e]]
    BY DEF Pub!Make
  <2>2. b \in Address /\ b \notin issued /\ c \in Cell /\ heap[e][c] = Null
    BY DEF Pub!FreshAddresses, Pub!FreeCells
  <2> QED BY <2>1, <2>2
<1>1. PICK x, l :
        /\ x = Pub!PublicEntry(e, c) /\ l = [p |-> b, at |-> e]
        /\ b \notin issued /\ heap[e][c] = Null
        /\ issued' = issued \cup {b}
        /\ view' = Recounted(view, e, b, x) /\ heap' = Recounted(heap, e, c, v)
        /\ rc' = Recounted(rc, e, b, 1) /\ ptr' = Put(ptr, k, l)
        /\ UNCHANGED <<parent, pubPap>>
  BY <1>p DEF Pub!Make, Pub!linkVars, Pub!RcInit, Recounted, Put
<1>2. UNCHANGED <<pvt, uniq, fwd, pvtPap, pvtDmn, pvtMem>> BY DEF privateVars
<1>3. x \in Entry /\ x.committed = c /\ x.author = e /\ x.access_level = "public"
  BY <1>1 DEF Pub!PublicEntry, Entry, AccessLevel
<1>4. /\ view'[e][b] = x
      /\ \A f \in Executor, d \in Address : f # e \/ d # b => view'[f][d] = view[f][d]
  BY <1>0, <1>1, ViewWritten
<1>5. /\ heap'[e][c] = v
      /\ \A f \in Executor, d \in Cell : f # e \/ d # c => heap'[f][d] = heap[f][d]
  <2>1. heap \in [Executor -> [Cell -> Value \cup {Null}]]
    BY <1>0, TypeParts DEF IInv, TypesApart, TableTypeOK
  <2>2. heap'[e][c] = v BY <1>1, <2>1 DEF Recounted
  <2> QED BY <1>0, <1>1, <2>2, HeapWritten
<1>6. \A f \in Executor, d \in Address : d # b => rc'[f][d] = rc[f][d]
  <2>1. rc \in [Executor -> [Address -> 0 .. RcRange - 1 \cup {Null}]]
    BY <1>0, TypeParts DEF IInv, TypesApart, PublicTyped
  <2> QED BY <1>1, <2>1 DEF Recounted
<1>7. /\ ~IsPublic(b) /\ ~KnownPrivate(b) /\ ~InPublish(b) /\ lost[b] = 0 /\ lost'[b] = 0
      /\ \A f \in Executor : ~Mapped(f, b)
      /\ \A r \in pvtDmn : r.p # b
      /\ Refs[b] = {}
  BY <1>0, <1>1, FreshAddress, NotLost, NothingCounted DEF Mapped
<1>8. IsPublic(b)'
  <2>1. Public(e, b)' BY <1>3, <1>4, ViewAssumption DEF Public, Mapped
  <2>2. HomeOK(b)' BY DEF IInv
  <2> QED BY <1>3, <1>4, <2>1, <2>2 DEF HomeOK, IsPublic
<1>9. \A d \in Address : Refs'[d] = IF d = b THEN Refs[d] \cup {k} ELSE Refs[d]
  <2>1. l \in Pub!Pointer /\ l.p = b BY <1>1 DEF Pub!Pointer
  <2> QED BY <1>0, <1>1, <2>1, ObjectMade
<1>10. WorksOn({b})
  <2>1. \A f \in Executor, d \in Cell : heap'[f][d] = heap[f][d] \/ Spare(f, d, {b})
    BY <1>1, <1>5 DEF Spare
  <2>2. \A d \in Address : d # b => /\ IsPublic(d)' <=> IsPublic(d)
                                    /\ InPublish(d)' <=> InPublish(d)
                                    /\ Refs'[d] = Refs[d]
    BY <1>6, <1>9 DEF IsPublic, InPublish
  <2>3. \A d \in Address : d # b => (d \in issued' <=> d \in issued) /\ lost'[d] = lost[d]
    BY <1>1
  <2> QED BY <1>1, <1>2, <1>4, <2>1, <2>2, <2>3 DEF WorksOn
<1>11. /\ RInv' /\ SeenPlaces /\ SeenPlaces' /\ SeenContents /\ SeenContents'
       /\ Places' = Put(Places, b, Places'[b])
       /\ Contents' = Put(Contents, b, Contents'[b])
       /\ Counted' = Put(Counted, b, Counted'[b])
       /\ Wasted' = Wasted
  BY <1>7, <1>8, <1>10, OneSeen
<1>12. Places[b] = Memory!Private!Unborn /\ Places'[b] = Memory!Public
  BY <1>1, <1>8, <1>11 DEF SeenPlaces
<1>13. Counted[b] = 0 /\ Counted'[b] = 1
  <2>1. k \in Handle /\ k \notin Refs[b] BY <1>0, <1>1, FreshFacts
  <2>2. Counted[b] = 0 /\ Counted'[b] = Counted[b] + 1 BY <1>7, <1>9, <2>1, CountedAt
  <2> QED BY <2>2
<1>14. Contents[b] = Null
  <2>1. \A f \in Executor : ~Copy(f, b) BY <1>7 DEF Copy, Backs, Mapped
  <2> QED BY <1>11, <2>1 DEF SeenContents
<1>15. Contents'[b] = v
  <2>1. Backs(e, b)' /\ view'[e][b].committed = c
    BY <1>3, <1>4, ViewAssumption DEF Backs, Mapped
  <2>2. ~Pvt!ResetPending(e, b)' BY <1>2, <1>7 DEF Pvt!ResetPending
  <2>3. Copy(e, b)' BY <2>1, <2>2 DEF Copy
  <2> QED BY <1>5, <1>11, <2>1, <2>3 DEF SeenContents
<1>16. Memory!Next BY <1>11, <1>12, <1>13, <1>14, <1>15, ToCreateShared
<1>17. VInv'
  <2>1. ~Alive(b) BY <1>7 DEF KnownPrivate, Alive
  <2>2. AnswersKept BY <1>0, <1>2, SameAnswers
  <2> QED BY <1>11, <2>1, <2>2, OneValued
<1> QED BY <1>11, <1>16, <1>17 DEF Refines

-----------------------------------------------------------------------------
(* Both kinds of pointers *)

(* A capability is lost: its memory stays where it is.                     *)
LEMMA PullPrivateAsPublicRefines ==
  ASSUME RInv, VInv, IInv', CInv', MInv', NEW e \in Executor, NEW m \in pvtPap,
         PullPrivateAsPublic(e, m)
  PROVE  Refines
<1>0. IInv /\ CInv /\ MInv BY DEF RInv
<1>1. PICK a \in Address : a = m.p BY <1>0, TypeFacts DEF IInv, Typed, TypedPrivate
<1>2. /\ m.to = e /\ pvtPap' = pvtPap \ {m} /\ lost' = [lost EXCEPT ![a] = @ + 1]
      /\ UNCHANGED <<issued, view, parent, heap, pvt, uniq, fwd, pvtDmn, pvtMem,
                     publicVars, pub>>
  BY <1>1 DEF PullPrivateAsPublic, Lose, tableVars
<1>3. \A b \in Address : lost'[b] = IF b = a THEN lost[b] + 1 ELSE lost[b]
  <2>1. lost \in [Address -> 0 .. MaxLost]
    BY <1>0, TypeParts DEF IInv, TypesApart, LostTyped
  <2> QED BY <1>2, <2>1
<1>4. Alive(a) BY <1>1 DEF Alive
<1>5. a \in issued /\ ~IsPublic(a) /\ ~InPublish(a) /\ lost[a] = 0
  BY <1>4, CapabilityFacts
<1>6. lost'[a] > 0 /\ \A b \in Address : b # a => lost'[b] = lost[b]
  <2>1. lost'[a] = 1 BY <1>3, <1>5
  <2> QED BY <1>3, <2>1
<1>7. /\ ~IsPublic(a)' /\ ~InPublish(a)' /\ Refs'[a] = Refs[a]
      /\ \A b \in Address : b # a => /\ IsPublic(b)' <=> IsPublic(b)
                                     /\ InPublish(b)' <=> InPublish(b)
                                     /\ Refs'[b] = Refs[b]
  BY <1>2, <1>5, PublicSame
<1>8. WorksOn({a})
  <2>1. \A n \in pvtPap \cup pvtPap' : n.p # a => n \in pvtPap /\ n \in pvtPap'
    BY <1>1, <1>2
  <2> QED BY <1>2, <1>6, <1>7, <2>1, WorksOnOne
<1>9. SoleOK(a) /\ HandleOK(a) /\ ResetOK(a) BY <1>0 DEF IInv, AddressOK
<1>10. ~Alive(a)' BY <1>1, <1>2, <1>9 DEF SoleOK, Alive
<1>11. \A f \in Executor : ~Open(f, a) /\ ~Open(f, a)'
  BY <1>2, <1>4, <1>9 DEF SoleOK, Open
<1>12. \A f \in Executor : ~Pvt!ResetPending(f, a) /\ ~Pvt!ResetPending(f, a)'
  BY <1>2, <1>4, <1>9 DEF ResetOK, IsReset, Pvt!ResetPending
<1>13. \A f \in Executor : /\ Keeps(f, a)' <=> Keeps(f, a)
                           /\ Backs(f, a)' <=> Backs(f, a)
  BY <1>2 DEF Keeps, Private, Mapped, Backs
<1>14. \A b \in Address : b # a => Untouched(b) BY <1>0, <1>8, Frame
<1>15. RInv'
  <2>1. ASSUME NEW b \in Address PROVE LossOK(b)'
    <3>1. CASE b # a
      <4>1. LossOK(b) BY DEF RInv
      <4> QED BY <1>14, <3>1, <4>1, LossKept
    <3>2. CASE b = a
      <4>1. PICK y : Source(y, a) BY <1>1, <1>9 DEF HandleOK
      <4>2. \A x, z \in Executor : Keeps(x, a) /\ Keeps(z, a) => x = z
        BY <4>1 DEF Source
      <4> QED BY <1>10, <1>11, <1>12, <1>13, <3>2, <4>2 DEF LossOK
    <3> QED BY <3>1, <3>2
  <2> QED BY <2>1 DEF RInv
<1>16. SeenPlaces /\ SeenPlaces' /\ SeenContents /\ SeenContents'
  BY <1>15, PlacesSeen, PlacesSeenNext, ContentsSeen, ContentsSeenNext
<1>17. Places[a] = Memory!Private!At("sent", e) BY <1>1, <1>2, <1>16 DEF SeenPlaces
<1>18. Places'[a] = Memory!Lost BY <1>6, <1>7, <1>16 DEF SeenPlaces
<1>19. Contents'[a] = Contents[a] BY <1>2, <1>13, <1>16, EntryContent
<1>20. Counted'[a] = Counted[a] BY <1>7 DEF Counted
<1>21. /\ Places' = Put(Places, a, Memory!Lost) /\ Wasted' = Wasted \cup {a}
       /\ UNCHANGED <<Contents, Counted>>
  <2>1. PICK p : p = Memory!Lost OBVIOUS
  <2>2. PICK v, n : v = Contents[a] /\ n = Counted[a] OBVIOUS
  <2>3. Places'[a] = p /\ Contents'[a] = v /\ Counted'[a] = n
    BY <1>18, <1>19, <1>20, <2>1, <2>2
  <2>4. /\ Places' = Put(Places, a, p)
        /\ v = Contents[a] => Contents' = Contents
        /\ n = Counted[a] => Counted' = Counted
        /\ lost'[a] > 0 => Wasted' = Wasted \cup {a}
    BY <1>14, <1>15, <2>3, AtOne
  <2> QED BY <1>6, <2>1, <2>2, <2>4
<1>22. Memory!Next BY <1>17, <1>21, ToLoseCapability
<1>23. VInv'
  <2>1. AnswersKept BY <1>0, <1>2, SameAnswers
  <2>2. \A b \in Address : Contents'[b] = Contents[b] BY <1>21
  <2> QED BY <1>0, <2>1, <2>2, ValuesKept DEF AnswersKept
<1> QED BY <1>15, <1>22, <1>23 DEF Refines

(* What is seen changes at two addresses.                                  *)
LEMMA AtTwo ==
  ASSUME RInv, RInv', NEW a \in Address, NEW b \in Address, a # b,
         \A d \in Address : d \notin {a, b} => Untouched(d),
         NEW p, Places'[a] = p, NEW q, Places'[b] = q,
         NEW u, Contents'[a] = u, NEW v, Contents'[b] = v,
         NEW n, Counted'[a] = Counted[a], Counted'[b] = n,
         lost'[a] = lost[a], lost'[b] = lost[b]
  PROVE  /\ Places' = Put(Put(Places, a, p), b, q)
         /\ Contents' = Put(Put(Contents, a, u), b, v)
         /\ Counted' = Put(Counted, b, n)
         /\ Wasted' = Wasted
<1>1. \A d \in Address : d # a /\ d # b =>
         /\ Places'[d] = Places[d] /\ Contents'[d] = Contents[d]
         /\ Counted'[d] = Counted[d]
         /\ d \in Wasted' <=> d \in Wasted
  BY Kept
<1>2. /\ Places = [d \in Address |-> Places[d]] /\ Places' = [d \in Address |-> Places'[d]]
      /\ Contents = [d \in Address |-> Contents[d]]
      /\ Contents' = [d \in Address |-> Contents'[d]]
      /\ Counted = [d \in Address |-> Counted[d]] /\ Counted' = [d \in Address |-> Counted'[d]]
  BY DEF Places, Contents, Counted
<1>3. Places' = Put(Put(Places, a, p), b, q) BY <1>1, <1>2 DEF Put
<1>4. Contents' = Put(Put(Contents, a, u), b, v) BY <1>1, <1>2 DEF Put
<1>5. Counted' = Put(Counted, b, n) BY <1>1, <1>2 DEF Put
<1>6. /\ Wasted \subseteq Address /\ Wasted' \subseteq Address
      /\ \A d \in {a, b} : d \in Wasted' <=> d \in Wasted
  BY DEF Wasted
<1>7. \A d \in Address : d \in Wasted' <=> d \in Wasted BY <1>1, <1>6
<1> QED BY <1>3, <1>4, <1>5, <1>6, <1>7

(* publish leaves one public_ptr, and one reference.                       *)
LEMMA Publicized ==
  ASSUME IInv, NEW e \in Executor, NEW a \in Address, NEW b \in Address,
         Publicize(e, a, b), pubPap' = pubPap
  PROVE  /\ \A d \in Address : d # b => Refs'[d] = Refs[d]
         /\ \A f \in Executor, d \in Address : d # b => rc'[f][d] = rc[f][d]
         /\ Refs[b] = {} => Counted'[b] = 1
<1>l. PICK l : l = [p |-> b, at |-> e] OBVIOUS
<1>1. PICK k \in Pub!FreshHandles : ptr' = Put(ptr, k, l)
  BY <1>l DEF Publicize, Put
<1>2. l \in Pub!Pointer /\ l.p = b BY <1>l DEF Pub!Pointer
<1>3. \A d \in Address : Refs'[d] = IF d = b THEN Refs[d] \cup {k} ELSE Refs[d]
  BY <1>1, <1>2, ObjectMade
<1>4. \A f \in Executor, d \in Address : d # b => rc'[f][d] = rc[f][d]
  <2>1. rc \in [Executor -> [Address -> 0 .. RcRange - 1 \cup {Null}]]
    BY TypeParts DEF IInv, TypesApart, PublicTyped
  <2>2. rc' = [rc EXCEPT ![e][b] = 1] BY DEF Publicize, Pub!RcInit
  <2> QED BY <2>1, <2>2
<1>5. ASSUME Refs[b] = {} PROVE Counted'[b] = 1
  <2>1. Refs'[b] = {k} BY <1>3, <1>5
  <2> QED BY <2>1, FS_Singleton DEF Counted
<1> QED BY <1>3, <1>4, <1>5

(* publish: the content of a moves to b, with its block or to another one. *)
LEMMA PublishedRefines ==
  ASSUME RInv, VInv, IInv', CInv', MInv', NEW e \in Executor, NEW a \in Address,
         NEW b \in Address, NEW c \in Cell, NEW v,
         a # b, a \in pvt[e], b \notin issued \/ InPublish(b),
         Remap(e, a, b, c), Publicize(e, a, b),
         \A d \in Address : d # b =>
             (d \in issued' <=> d \in issued) /\ (InPublish(d)' <=> InPublish(d)),
         UNCHANGED <<uniq, fwd, pvtPap, pubPap, lost>>,
         \A r \in pvtDmn \cup pvtDmn' : IsReset(r) /\ r.p # a =>
             r \in pvtDmn /\ r \in pvtDmn',
         \A f \in Executor, x \in Cell : \/ parent'[f][x] = parent[f][x]
                                         \/ parent[f][x] = a /\ parent'[f][x] = Null,
         \A f \in Executor, x \in Cell : heap'[f][x] = heap[f][x] \/ Spare(f, x, {a, b}),
         heap'[e][c] = v, Contents[a] = v, AnswersKept
  PROVE  Refines
<1>0. IInv /\ CInv /\ MInv BY DEF RInv
<1>1. PICK x : x = Pub!PublicEntry(e, c) OBVIOUS
<1>2. x \in Entry /\ x.committed = c /\ x.author = e /\ x.access_level = "public"
  BY <1>1 DEF Pub!PublicEntry, Entry, AccessLevel
<1>3. /\ view'[e][b] = x
      /\ \A f \in Executor, d \in Address : ~(f = e /\ d \in {a, b}) => view'[f][d] = view[f][d]
  <2>1. view \in [Executor -> [Address -> Entry \cup {Null}]]
    BY <1>0, TypeParts DEF IInv, TypesApart, TableTypeOK
  <2>2. PICK w : w = [view EXCEPT ![e][a] = Null] OBVIOUS
  <2>3. /\ w \in [Executor -> [Address -> Entry \cup {Null}]]
        /\ \A f \in Executor, d \in Address : f # e \/ d # a => w[f][d] = view[f][d]
    BY <2>1, <2>2, Written
  <2>4. view' = [w EXCEPT ![e][b] = x] BY <1>1, <2>2 DEF Remap
  <2> QED BY <1>2, <2>3, <2>4, Written
<1>4. \A f \in Executor, d \in Address : d \in pvt'[f] <=> d \in pvt[f] /\ ~(f = e /\ d = a)
  <2>1. pvt \in [Executor -> SUBSET Address]
    BY <1>0, TypeParts DEF IInv, TypesApart, PrivateTyped
  <2>2. pvt' = [pvt EXCEPT ![e] = @ \ {a}] BY DEF Publicize, Pvt!Release
  <2> QED BY <2>1, <2>2, Removed
<1>5. /\ \A d \in Address : d # b => Refs'[d] = Refs[d]
      /\ \A f \in Executor, d \in Address : d # b => rc'[f][d] = rc[f][d]
      /\ Refs[b] = {} => Counted'[b] = 1
  <2>1. pubPap' = pubPap OBVIOUS
  <2> QED BY <1>0, <2>1, Publicized
<1>8. Alive(a) BY DEF Alive
<1>9. a \in issued /\ ~IsPublic(a) /\ ~InPublish(a) /\ lost[a] = 0
  BY <1>8, CapabilityFacts
<1>10. SoleOK(a) BY <1>0 DEF IInv, AddressOK
<1>11. ~Alive(a)'
  <2>1. \A m \in pvtPap' : m.p # a BY <1>10 DEF SoleOK
  <2>2. \A f \in Executor : a \notin pvt'[f] BY <1>4, <1>10 DEF SoleOK
  <2> QED BY <2>1, <2>2 DEF Alive
<1>12. \A f \in Executor : ~Open(f, a)'
  <2> SUFFICES ASSUME NEW f \in Executor, NEW y \in uniq'[f], parent'[f][y] = a
               PROVE  FALSE
    BY DEF Open
  <2>1. uniq[f] \in SUBSET Cell BY <1>0, TypeParts DEF IInv, TypesApart, PrivateTyped
  <2>2. y \in Cell /\ y \in uniq[f] BY <2>1
  <2>3. parent[f][y] = a BY <2>2, ViewAssumption
  <2> QED BY <1>8, <1>10, <2>2, <2>3 DEF SoleOK, Open
<1>13. /\ ~IsPublic(b) /\ ~KnownPrivate(b) /\ lost[b] = 0
       /\ Refs[b] = {}
  <2>1. LevelOK(b) BY <1>0 DEF IInv, AddressOK
  <2>2. ~IsPublic(b) /\ ~KnownPrivate(b) BY <2>1 DEF LevelOK
  <2> QED BY <1>0, <2>2, NotLost, NothingCounted
<1>14. IsPublic(b)'
  <2>1. Public(e, b)' BY <1>2, <1>3, ViewAssumption DEF Public, Mapped
  <2>2. HomeOK(b)' BY DEF IInv
  <2> QED BY <1>2, <1>3, <2>1, <2>2 DEF HomeOK, IsPublic
<1>15. ~KnownPrivate(b)' /\ ~InPublish(b)'
  <2>1. LevelOK(b)' BY DEF IInv, AddressOK
  <2> QED BY <1>14, <2>1 DEF LevelOK
<1>16. a \in issued' /\ ~IsPublic(a)' /\ ~InPublish(a)' /\ lost'[a] = 0 /\ lost'[b] = 0
  BY <1>5, <1>9, <1>13 DEF IsPublic
<1>17. WorksOn({a, b})
  <2>1. \A d \in Address : d \notin {a, b} =>
          /\ d \in issued' <=> d \in issued
          /\ IsPublic(d)' <=> IsPublic(d)
          /\ InPublish(d)' <=> InPublish(d)
          /\ lost'[d] = lost[d]
          /\ Refs'[d] = Refs[d]
    BY <1>5 DEF IsPublic
  <2>2. \A m \in pvtPap \cup pvtPap' : m.p \notin {a, b} => m \in pvtPap /\ m \in pvtPap'
    OBVIOUS
  <2>3. \A r \in pvtDmn \cup pvtDmn' : IsReset(r) /\ r.p \notin {a, b} =>
          r \in pvtDmn /\ r \in pvtDmn'
    OBVIOUS
  <2>4. ASSUME NEW f \in Executor, NEW d \in Address, d \notin {a, b}
        PROVE  /\ d \in pvt'[f] <=> d \in pvt[f]
               /\ view'[f][d] = view[f][d]
               /\ \A y \in Cell : parent'[f][y] = d /\ y \in uniq'[f]
                                  <=> parent[f][y] = d /\ y \in uniq[f]
    <3>1. \A y \in Cell : parent'[f][y] = d <=> parent[f][y] = d
      BY <2>4, ViewAssumption
    <3> QED BY <1>3, <1>4, <2>4, <3>1
  <2>5. \A f \in Executor, d \in Address : d \notin {a, b} =>
          /\ d \in pvt'[f] <=> d \in pvt[f]
          /\ view'[f][d] = view[f][d] \/ MemoryStays(f, d)
          /\ \A y \in Cell : parent'[f][y] = d /\ y \in uniq'[f]
                             <=> parent[f][y] = d /\ y \in uniq[f]
    BY <2>4
  <2> QED BY <2>1, <2>2, <2>3, <2>5 DEF WorksOn
<1>18. RInv' /\ \A d \in Address : d \notin {a, b} => Untouched(d)
  <2>1. PICK A \in SUBSET Address : A = {a, b} OBVIOUS
  <2>2. WorksOn(A) BY <1>17, <2>1
  <2>3. \A d \in Address : d \notin A => Untouched(d) BY <1>0, <2>2, Frame
  <2>4. \A d \in A : lost'[d] = 0 \/ IsPublic(d)' BY <1>16, <2>1
  <2>5. RInv' BY <2>3, <2>4, LossStep
  <2> QED BY <2>1, <2>3, <2>5
<1>19. SeenPlaces /\ SeenPlaces' /\ SeenContents /\ SeenContents'
  BY <1>18, PlacesSeen, PlacesSeenNext, ContentsSeen, ContentsSeenNext
<1>20. Places[a] = Memory!Private!At("held", e) /\ Places[b] = Memory!Private!Unborn
  BY <1>19 DEF SeenPlaces
<1>21. Places'[a] = Memory!Private!Gone BY <1>11, <1>12, <1>16, <1>19 DEF SeenPlaces
<1>22. Places'[b] = Memory!Public BY <1>14, <1>19 DEF SeenPlaces
<1>23. Contents'[a] = Null BY <1>11, <1>12, <1>16, <1>18, NothingLeftNext DEF LeftNothing
<1>24. Contents'[b] = v
  <2>1. Backs(e, b)' /\ view'[e][b].committed = c
    BY <1>2, <1>3, ViewAssumption DEF Backs, Mapped
  <2>2. ~Pvt!ResetPending(e, b)' BY <1>15 DEF KnownPrivate, Pvt!ResetPending
  <2>3. Copy(e, b)' BY <2>1, <2>2 DEF Copy
  <2> QED BY <1>19, <2>1, <2>3 DEF SeenContents
<1>25. Counted'[a] = Counted[a] BY <1>5 DEF Counted
<1>26. Counted'[b] = 1 BY <1>5, <1>13
<1>27. /\ Places' = Put(Put(Places, a, Memory!Private!Gone), b, Memory!Public)
       /\ Contents' = Put(Put(Contents, a, Null), b, Contents[a])
       /\ Counted' = Put(Counted, b, 1) /\ UNCHANGED Wasted
  <2>1. PICK p, q : p = Memory!Private!Gone /\ q = Memory!Public OBVIOUS
  <2>2. PICK u, n : u = Null /\ n = 1 OBVIOUS
  <2>3. /\ Places'[a] = p /\ Places'[b] = q /\ Contents'[a] = u /\ Contents'[b] = v
        /\ Counted'[a] = Counted[a] /\ Counted'[b] = n
        /\ lost'[a] = lost[a] /\ lost'[b] = lost[b]
    BY <1>21, <1>22, <1>23, <1>24, <1>25, <1>26, <2>1, <2>2
  <2>4. /\ Places' = Put(Put(Places, a, p), b, q)
        /\ Contents' = Put(Put(Contents, a, u), b, v)
        /\ Counted' = Put(Counted, b, n)
        /\ Wasted' = Wasted
    BY <1>18, <2>3, AtTwo
  <2> QED BY <2>1, <2>2, <2>4
<1>28. Memory!Next BY <1>20, <1>27, ToPublish
<1>29. VInv'
  <2>1. ~Alive(b) BY <1>13 DEF KnownPrivate, Alive
  <2>2. ASSUME NEW d \in Address PROVE Contents'[d] = Contents[d] \/ ~Alive(d) \/ ~Alive(d)'
    <3>1. CASE d \in {a, b} BY <1>11, <2>1, <3>1
    <3>2. CASE d \notin {a, b} BY <1>18, <3>2, Kept
    <3> QED BY <3>1, <3>2
  <2> QED BY <1>0, <2>2, ValuesKept DEF AnswersKept
<1> QED BY <1>18, <1>28, <1>29 DEF Refines

LEMMA PublishAtHomeRefines ==
  ASSUME RInv, VInv, IInv', CInv', MInv', NEW e \in Executor, NEW a \in Address,
         PublishAtHome(e, a)
  PROVE  Refines
<1>0. IInv /\ CInv /\ MInv BY DEF RInv
<1>1. PICK b \in Address, c \in {view[e][a].committed} :
        /\ b \notin issued /\ issued' = issued \cup {b}
        /\ Remap(e, a, b, c) /\ Publicize(e, a, b)
  BY DEF PublishAtHome, FreshAddresses
<1>2. /\ a \in pvt[e] /\ view[e][a].author = e
      /\ parent' = ParentsWithout(e, a)
      /\ UNCHANGED <<heap, uniq, fwd, pvtPap, pvtDmn, pvtMem, pubPap, lost, pub>>
  BY DEF PublishAtHome, Pvt!AmAuthor
<1>3. Source(e, a) BY <1>0, <1>2 DEF IInv, AddressOK, HandleOK
<1>4. Keeps(e, a) /\ c \in Cell /\ c = view[e][a].committed
  <2>1. Keeps(e, a) BY <1>3 DEF Source
  <2> QED BY <1>0, <1>1, <2>1, TypeFacts DEF IInv, Keeps, Private, Typed, TypedTables
<1>5. a # b
  <2>1. a \in issued BY <1>0, <1>2 DEF IInv, AddressOK, LevelOK, KnownPrivate
  <2> QED BY <1>1, <2>1
<1>6. \A f \in Executor, x \in Cell : \/ parent'[f][x] = parent[f][x]
                                      \/ parent[f][x] = a /\ parent'[f][x] = Null
  <2>1. parent \in [Executor -> [Cell -> Address \cup {Null}]]
    BY <1>0, TypeParts DEF IInv, TypesApart, TableTypeOK
  <2>2. view[e][a].child = c /\ parent[e][c] = a
    <3>1. EntryOK(a) /\ ChildOK(a) BY <1>0 DEF IInv, AddressOK
    <3> QED BY <1>2, <1>4, <3>1, ViewAssumption DEF EntryOK, ChildOK, Keeps
  <2> QED BY <1>2, <1>4, <2>1, <2>2 DEF ParentsWithout
<1>7. PICK v : v = heap[e][c] OBVIOUS
<1>8. Contents[a] = v
  <2>1. Alive(a) BY <1>2 DEF Alive
  <2>2. ~IsPublic(a) BY <2>1, CapabilityFacts
  <2>3. Copy(e, a) BY <1>4, <2>1, <2>2, PrivateCopy
  <2> QED BY <1>4, <1>7, <2>3, ContentsSeen DEF SeenContents
<1>9. \A d \in Address : d # b =>
        (d \in issued' <=> d \in issued) /\ (InPublish(d)' <=> InPublish(d))
  BY <1>1, <1>2 DEF InPublish
<1>10. AnswersKept BY <1>0, <1>2, SameAnswers
<1>11. /\ b \notin issued \/ InPublish(b)
       /\ Remap(e, a, b, c) /\ Publicize(e, a, b)
       /\ UNCHANGED <<uniq, fwd, pvtPap, pubPap, lost>>
       /\ \A r \in pvtDmn \cup pvtDmn' : IsReset(r) /\ r.p # a =>
              r \in pvtDmn /\ r \in pvtDmn'
       /\ \A f \in Executor, x \in Cell : heap'[f][x] = heap[f][x] \/ Spare(f, x, {a, b})
       /\ heap'[e][c] = v
  BY <1>1, <1>2, <1>7
<1> QED BY <1>2, <1>4, <1>5, <1>6, <1>8, <1>9, <1>10, <1>11, PublishedRefines

LEMMA PublishAnswerRefines ==
  ASSUME RInv, VInv, IInv', CInv', MInv', NEW e \in Executor, NEW s \in pvtMem,
         PublishAnswer(e, s)
  PROVE  Refines
<1>0. IInv /\ CInv /\ MInv BY DEF RInv
<1>1. PICK a \in Address, b \in Address, c \in Cell, y \in Executor :
        pub[e] # Null /\ a = pub[e].p /\ b = pub[e].as /\ c = pub[e].lp /\ y = pub[e].to
  BY <1>0, TypeFacts DEF IInv, Typed, TypedCalls, PublishAnswer
<1>2. PICK q : q = [op |-> "PVT_RESET", from |-> e, to |-> y, p |-> a] OBVIOUS
<1>3. PICK v : v = s.value OBVIOUS
<1>4. /\ s.to = e /\ s.from = y
      /\ Remap(e, a, b, c) /\ Publicize(e, a, b)
      /\ heap' = Recounted(heap, e, c, v)
      /\ pvtDmn' = pvtDmn \cup {q} /\ q.p = a
      /\ pvtMem' = pvtMem \ {s}
      /\ pub' = [pub EXCEPT ![e] = Null]
      /\ UNCHANGED <<issued, parent, uniq, fwd, pvtPap, pubPap, lost>>
  BY <1>1, <1>2, <1>3 DEF PublishAnswer, Fill, ReleaseCopy, Recounted
<1>5. Fetches(e, y, a) BY <1>1 DEF Fetches, Publishes
<1>6. a \in pvt[e] BY <1>0, <1>5, FetcherHolds
<1>7. InPublish(b) BY <1>1 DEF InPublish
<1>8. a # b
  <2>1. ~InPublish(a) BY <1>0, <1>6 DEF IInv, AddressOK, LevelOK, KnownPrivate
  <2> QED BY <1>7, <2>1
<1>9. /\ pub'[e] = Null
      /\ \A f \in Executor : f # e => pub'[f] = pub[f]
  <2>1. pub \in [Executor -> Publishing \cup {Null}]
    BY <1>0, TypeParts DEF IInv, TypesApart, PubTyped
  <2> QED BY <1>4, <2>1
<1>10. \A d \in Address : d # b => (InPublish(d)' <=> InPublish(d))
  BY <1>1, <1>9 DEF InPublish
<1>11. AnswersKept
  <2>1. fwd[e] = Null BY <1>0, <1>1 DEF IInv, OneCall
  <2> QED BY <1>0, <1>4, <1>9, <2>1, SameAnswers
<1>12. Contents[a] = v BY <1>3, <1>4, <1>5 DEF VInv, ValueOK
<1>13. heap'[e][c] = v
  <2>1. heap \in [Executor -> [Cell -> Value \cup {Null}]]
    BY <1>0, TypeParts DEF IInv, TypesApart, TableTypeOK
  <2> QED BY <1>4, <2>1 DEF Recounted
<1>14. \A f \in Executor, x \in Cell : heap'[f][x] = heap[f][x] \/ Spare(f, x, {a, b})
  <2>1. \A f \in Executor, x \in Cell : f # e \/ x # c => heap'[f][x] = heap[f][x]
    BY <1>0, <1>4, HeapWritten
  <2> QED BY <1>1, <2>1 DEF Spare
<1>15. \A r \in pvtDmn \cup pvtDmn' : IsReset(r) /\ r.p # a =>
         r \in pvtDmn /\ r \in pvtDmn'
  BY <1>4
<1>16. \A d \in Address : d # b =>
         (d \in issued' <=> d \in issued) /\ (InPublish(d)' <=> InPublish(d))
  BY <1>4, <1>10
<1>17. \A f \in Executor, x \in Cell : \/ parent'[f][x] = parent[f][x]
                                       \/ parent[f][x] = a /\ parent'[f][x] = Null
  BY <1>4
<1>18. /\ b \notin issued \/ InPublish(b)
       /\ Remap(e, a, b, c) /\ Publicize(e, a, b)
       /\ UNCHANGED <<uniq, fwd, pvtPap, pubPap, lost>>
  BY <1>4, <1>7
<1> QED
  BY <1>6, <1>8, <1>11, <1>12, <1>13, <1>14, <1>15, <1>16, <1>17, <1>18, PublishedRefines

-----------------------------------------------------------------------------
LEMMA PrivateUserRefines ==
  ASSUME RInv, VInv, IInv', CInv', MInv', NEW e \in Executor, PrivateUser(e)
  PROVE  Refines
<1>0. Idle(e) /\ UNCHANGED <<publicVars, pub, lost>> BY DEF PrivateUser
<1>1. ASSUME NEW v \in Content, Pvt!Make(e, v) PROVE Refines
  BY <1>0, <1>1, MakeRefines
<1>2. ASSUME NEW c \in Cell, Pvt!DropUnique(e, c) PROVE Refines
  BY <1>0, <1>2, DropUniqueRefines
<1>3. ASSUME NEW a \in Address, Pvt!LocalAtHome(e, a) PROVE Refines
  BY <1>0, <1>3, LocalAtHomeRefines
<1>4. ASSUME NEW a \in Address, Pvt!LocalRequest(e, a) PROVE Refines
  BY <1>0, <1>4, LocalRequestRefines
<1>5. ASSUME NEW a \in Address, Pvt!Drop(e, a) PROVE Refines
  BY <1>0, <1>5, DropRefines
<1>6. ASSUME NEW a \in Address, NEW t \in Executor, t # e, Pvt!Push(e, a, t) PROVE Refines
  BY <1>0, <1>6, PushRefines
<1>7. ASSUME NEW m \in pvtPap, Pvt!Pull(e, m) PROVE Refines
  BY <1>0, <1>7, PullRefines
<1> QED BY <1>1, <1>2, <1>3, <1>4, <1>5, <1>6, <1>7 DEF PrivateUser

LEMMA PublicUserRefines ==
  ASSUME RInv, VInv, IInv', CInv', MInv', NEW e \in Executor, PublicUser(e)
  PROVE  Refines
<1>0. Pub!User(e) /\ UNCHANGED <<privateVars, pub, lost>> BY DEF PublicUser
<1>1. ASSUME NEW v \in Value, Pub!Make(e, v) PROVE Refines
  BY <1>0, <1>1, PublicMakeRefines
<1>2. ASSUME NEW h \in Handle, Pub!Copy(e, h) PROVE Refines
  BY <1>0, <1>2, CopyRefines
<1>3. ASSUME NEW h \in Handle, NEW t \in Executor, Pub!Push(e, h, t) PROVE Refines
  BY <1>0, <1>3, PublicPushRefines
<1>4. ASSUME NEW h \in Handle, Pub!Drop(e, h) PROVE Refines
  BY <1>0, <1>4, DropAtHomeRefines, DropAwayRefines
<1>5. ASSUME NEW h \in Handle, NEW op \in {"RLOAD", "RC_GET"}, Pub!Ask(e, h, op)
      PROVE  Refines
  BY <1>0, <1>5, QuestionRefines
<1>6. ASSUME NEW m \in pubPap, Pub!Pull(e, m) PROVE Refines
  BY <1>0, <1>6, PublicPullRefines
<1> QED BY <1>0, <1>1, <1>2, <1>3, <1>4, <1>5, <1>6 DEF Pub!User

LEMMA BothRefines ==
  ASSUME RInv, VInv, IInv', CInv', MInv', NEW e \in Executor, Both(e)
  PROVE  Refines
<1>1. ASSUME NEW a \in Address, PublishAtHome(e, a) PROVE Refines
  BY <1>1, PublishAtHomeRefines
<1>2. ASSUME NEW a \in Address, PublishRequest(e, a) PROVE Refines
  BY <1>2, PublishRequestRefines
<1>3. ASSUME NEW m \in pvtPap, PullPrivateAsPublic(e, m) PROVE Refines
  BY <1>3, PullPrivateAsPublicRefines
<1>4. ASSUME NEW m \in pubPap, PullPublicAsPrivate(e, m) PROVE Refines
  BY <1>4, PullPublicAsPrivateRefines
<1>5. ASSUME NEW h \in Handle, Overwrite(e, h) PROVE Refines
  BY <1>5, OverwriteRefines
<1> QED BY <1>1, <1>2, <1>3, <1>4, <1>5 DEF Both

LEMMA ResumeRefines ==
  ASSUME RInv, VInv, IInv', CInv', MInv', NEW e \in Executor, Resume(e)
  PROVE  Refines
<1>1. ASSUME Pvt!Answered(e), UNCHANGED <<publicVars, pub, lost>> PROVE Refines
  <2>1. PICK s \in pvtMem : Pvt!LocalAnswer(e, s) BY <1>1 DEF Pvt!Answered
  <2> QED BY <1>1, <2>1, LocalAnswerRefines
<1>2. ASSUME Pub!Answered(e), UNCHANGED <<privateVars, pub, lost>> PROVE Refines
  BY <1>2, QuestionRefines
<1>3. ASSUME Pub!PushCount(e), UNCHANGED <<privateVars, pub, lost>> PROVE Refines
  BY <1>3, PushCountRefines
<1>4. ASSUME NEW s \in pvtMem, PublishAnswer(e, s) PROVE Refines
  BY <1>4, PublishAnswerRefines
<1> QED BY <1>1, <1>2, <1>3, <1>4 DEF Resume

LEMMA DaemonRefines ==
  ASSUME RInv, VInv, IInv', CInv', MInv',
         \/ \E e \in Executor : PrivateDaemon(e)
         \/ \E r \in pubDmn : PublicDaemon(r)
  PROVE  Refines
<1>1. ASSUME NEW e \in Executor, PrivateDaemon(e) PROVE Refines
  <2>1. UNCHANGED <<publicVars, pub, lost>> BY <1>1 DEF PrivateDaemon
  <2>2. ASSUME NEW r \in pvtDmn, Pvt!DmnRload(r) PROVE Refines
    BY <2>1, <2>2, DmnRloadRefines
  <2>3. ASSUME NEW r \in pvtDmn, Pvt!DmnPvtReset(r) PROVE Refines
    BY <2>1, <2>3, DmnResetRefines
  <2> QED BY <1>1, <2>2, <2>3 DEF PrivateDaemon, Pvt!Daemon
<1>2. ASSUME NEW r \in pubDmn, PublicDaemon(r) PROVE Refines
  <2>1. UNCHANGED <<privateVars, pub, lost>> BY <1>2 DEF PublicDaemon
  <2>2. CASE Pub!DmnRcInc(r) BY <2>1, <2>2, DmnRcIncRefines
  <2>3. CASE Pub!DmnRcDec(r) BY <2>1, <2>3, DmnRcDecRefines
  <2>4. CASE Pub!DmnReply(r) BY <2>1, <2>4, QuestionRefines
  <2> QED BY <1>2, <2>2, <2>3, <2>4 DEF PublicDaemon, Pub!Handled
<1> QED BY <1>1, <1>2

LEMMA NextRefines ==
  ASSUME RInv, VInv, IInv', CInv', MInv', [Next]_vars
  PROVE  Refines
<1>1. CASE Finished \/ UNCHANGED vars
  <2>1. UNCHANGED vars
    BY <1>1 DEF Finished, Pvt!Finished, Pub!Finished, Pvt!vars, Pub!vars, vars,
                Pvt!tableVars, Pvt!userVars, Pvt!linkVars, Pub!tableVars, Pub!linkVars,
                tableVars, privateVars, publicVars
  <2>2. /\ UNCHANGED <<tableVars, privateVars, pub, lost, ptr, pubPap>> /\ SameHomes
    BY <2>1 DEF vars, publicVars, SameHomes
  <2> QED BY <2>2, CountingQuiet
<1> QED
  BY <1>1, PrivateUserRefines, PublicUserRefines, BothRefines, ResumeRefines,
     DaemonRefines DEF Next

LEMMA InitRefines == Init => RInv /\ VInv /\ Memory!Init
<1> SUFFICES ASSUME Init PROVE RInv /\ VInv /\ Memory!Init OBVIOUS
<1>1. IInv /\ CInv /\ MInv BY InitOK, InitCounts, InitMemory
<1>2. /\ issued = {} /\ pvtMem = {}
      /\ lost = [a \in Address |-> 0]
      /\ view = [e \in Executor |-> [a \in Address |-> Null]]
  BY DEF Init, Pub!Init, Pvt!Init, Pub!TableInit
<1>3. \A a \in Address : LossOK(a) BY <1>2 DEF LossOK
<1>4. RInv BY <1>1, <1>3 DEF RInv
<1>5. VInv BY <1>2 DEF VInv, ValueOK
<1>6. \A a \in Address : Places[a] = Memory!Private!Unborn
  BY <1>2, <1>4, PlacesSeen DEF SeenPlaces
<1>7. \A a \in Address : Contents[a] = Null
  <2>1. \A e \in Executor, a \in Address : ~Copy(e, a) BY <1>2 DEF Copy, Backs, Mapped
  <2> QED BY <1>4, <2>1, ContentsSeen DEF SeenContents
<1>8. \A a \in Address : Counted[a] = 0
  <2> SUFFICES ASSUME NEW a \in Address PROVE Counted[a] = 0 OBVIOUS
  <2>1. ~IsPublic(a) BY <1>1, <1>2, FreshAddress
  <2> QED BY <1>1, <2>1, NothingCounted, CountedAt
<1>9. Wasted = {} BY <1>2 DEF Wasted
<1>10. /\ Places = [a \in Address |-> Memory!Private!Unborn]
       /\ Contents = [a \in Address |-> Null]
       /\ Counted = [a \in Address |-> 0]
  BY <1>6, <1>7, <1>8 DEF Places, Contents, Counted
<1> QED
  BY <1>4, <1>5, <1>9, <1>10, CountedIs
  DEF Memory!Init, Memory!Private!Init, Memory!Shared!Init, Places, Contents, Wasted

(* Whatever the application does with both kinds of pointers, it sees      *)
(* locations with one capability or with counted references: the runtime   *)
(* implements GlobalMemory.                                                *)
THEOREM ContextImplements == Spec => ImplementsMemory
<1>1. Init => RInv /\ VInv /\ Memory!Init BY InitRefines
<1>2. RInv /\ VInv /\ [Next]_vars => RInv' /\ VInv' /\ [Memory!Next]_(Memory!globalVars)
  <2> SUFFICES ASSUME RInv, VInv, [Next]_vars
               PROVE  RInv' /\ VInv' /\ [Memory!Next]_(Memory!globalVars)
    OBVIOUS
  <2>1. IInv' BY NextStep DEF RInv
  <2>2. CInv' BY <2>1, NextCounts DEF RInv
  <2>3. MInv' BY NextMemory DEF RInv
  <2>4. Refines BY <2>1, <2>2, <2>3, NextRefines
  <2>5. UNCHANGED <<Places, Contents, Counted, Wasted>> => UNCHANGED Memory!globalVars
    BY CountedIs DEF Memory!globalVars, Places, Contents, Wasted
  <2> QED BY <2>4, <2>5 DEF Refines
<1> QED BY <1>1, <1>2, PTL DEF Spec, ImplementsMemory, Memory!Spec
=============================================================================
