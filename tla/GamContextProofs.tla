-------------------------- MODULE GamContextProofs --------------------------
(***************************************************************************)
(* Proofs about GamContext, for any executors, addresses, blocks, values   *)
(* and applications: typing, that answers are never taken for one another, *)
(* that the two threads of an executor never meet at an entry, and that no *)
(* assert about private memory fails.                                      *)
(*                                                                         *)
(* An application that writes no opened pointer back opens each once: the  *)
(* author of an address changes at most once, when its capability ends,    *)
(* and the author before is told once.  So pointers may roam freely.       *)
(*                                                                         *)
(* The invariant has a part for each address, private or public, and one   *)
(* for each executor: its call under way, and its blocks.  A step changes  *)
(* one or two addresses and one executor; the lemmas that end in Kept say  *)
(* so of all others.                                                       *)
(***************************************************************************)
EXTENDS GamContext, FiniteSetTheorems, TLAPS

-----------------------------------------------------------------------------
(* What executors know of addresses *)

Private(e, a) == Mapped(e, a) /\ view[e][a].access_level = "private"

Public(e, a) == Mapped(e, a) /\ view[e][a].access_level = "public"

(* e is the author of private memory, and has it.                          *)
Keeps(e, a) == Private(e, a) /\ view[e][a].author = e /\ view[e][a].committed # Null

(* y is who has the memory, and nobody else has.                           *)
Source(y, a) == Keeps(y, a) /\ \A x \in Executor : Keeps(x, a) => x = y

Open(e, a) == \E c \in uniq[e] : parent[e][c] = a

(* The capability of a is an object or on its way.                         *)
Alive(a) ==
    \/ \E e \in Executor : a \in pvt[e]
    \/ \E m \in pvtPap : m.p = a

(* What the user thread of e waits for: the memory of a, for local() or    *)
(* for publish, which will give it the address a.                          *)
Loads(e, a) == fwd[e] # Null /\ fwd[e].p = a

Publishes(e, a) == pub[e] # Null /\ pub[e].p = a

PublishesAs(e, a) == pub[e] # Null /\ pub[e].as = a

Fetches(e, t, a) ==
    \/ Loads(e, a) /\ fwd[e].to = t
    \/ Publishes(e, a) /\ pub[e].to = t

(* It waits for an answer about the public address a.                      *)
Asks(e, op, t) == Pub!IsAsking(e) /\ busy[e].op = op /\ busy[e].to = t

IsReset(r) == r.op = "PVT_RESET"

IsAsk(r) == r.op \in {"RLOAD", "RC_GET"}

(* Somebody has heard of the private address a.                            *)
KnownPrivate(a) ==
    \/ \E e \in Executor : Private(e, a) \/ a \in pvt[e] \/ \E c \in Cell : parent[e][c] = a
    \/ \E m \in pvtPap : m.p = a
    \/ \E r \in pvtDmn : r.p = a

-----------------------------------------------------------------------------
(* The invariant: private addresses *)

(* An address is private, public, about to be made public, or not issued.  *)
LevelOK(a) ==
    /\ KnownPrivate(a) => a \in issued /\ ~IsPublic(a) /\ ~InPublish(a)
    /\ IsPublic(a) => a \in issued
    /\ InPublish(a) => a \in issued /\ ~IsPublic(a)
    /\ \A e, f \in Executor : PublishesAs(e, a) /\ PublishesAs(f, a) => e = f

(* The holder of a capability owns its entry, and knows who has the        *)
(* memory, as does a capability on its way.                                *)
HandleOK(a) ==
    /\ \A e \in Executor : a \in pvt[e] =>
          Private(e, a) /\ view[e][a].owner = e /\ Source(view[e][a].author, a)
    /\ \A m \in pvtPap : m.p = a => Source(m.author, a)

(* Who waits for memory holds the capability, and is not the author.       *)
WaitOK(a) ==
    \A e \in Executor :
       /\ Loads(e, a) =>
             /\ a \in pvt[e] /\ fwd[e].to = view[e][a].author /\ fwd[e].to # e
             /\ view[e][a].child = fwd[e].lp
       /\ Publishes(e, a) =>
             /\ a \in pvt[e] /\ pub[e].to = view[e][a].author /\ pub[e].to # e
             /\ view[e][a].child = Null

(* A capability is in one place.                                           *)
SoleOK(a) ==
    /\ \A e, f \in Executor : a \in pvt[e] /\ a \in pvt[f] => e = f
    /\ \A e \in Executor : \A m \in pvtPap : m.p = a => a \notin pvt[e]
    /\ \A m, n \in pvtPap : m.p = a /\ n.p = a => m = n
    /\ \A e, f \in Executor : Open(e, a) => ~Alive(a) /\ (Open(f, a) => e = f)

(* A release is sent once, when the capability is gone, to who has the     *)
(* memory and not the child.                                               *)
ResetOK(a) ==
    /\ \A r \in pvtDmn : IsReset(r) /\ r.p = a =>
          Keeps(r.to, a) /\ ~Alive(a) /\ ~Open(r.to, a)
    /\ \A r, q \in pvtDmn : IsReset(r) /\ IsReset(q) /\ r.p = a /\ q.p = a => r = q

(* The memory of an author is the child of its address; others have none,  *)
(* but for the block they are loading.                                     *)
EntryOK(a) ==
    \A e \in Executor : Private(e, a) =>
       IF view[e][a].author = e
       THEN view[e][a].committed # Null /\ view[e][a].child = view[e][a].committed
       ELSE /\ view[e][a].committed = Null
            /\ view[e][a].child # Null => Loads(e, a)

(* parent_map is the inverse of the children, which are live.  A           *)
(* gam_unique_ptr points to the child of an address e is the author of.    *)
ChildOK(a) ==
    \A e \in Executor :
       /\ Private(e, a) /\ view[e][a].child # Null => parent[e][view[e][a].child] = a
       /\ \A c \in Cell : parent[e][c] = a =>
             /\ Private(e, a) /\ view[e][a].child = c /\ heap[e][c] # Null
             /\ c \in uniq[e] => Keeps(e, a) /\ view[e][a].owner = e

AddressOK(a) == /\ LevelOK(a) /\ HandleOK(a) /\ WaitOK(a) /\ SoleOK(a) /\ ResetOK(a)
                /\ EntryOK(a) /\ ChildOK(a)

-----------------------------------------------------------------------------
(* The invariant: public addresses, calls, blocks *)

(* Whoever has heard of a public address knows its home.                   *)
HomeOK(a) ==
    /\ \A e \in Executor : Public(e, a) => rc[view[e][a].author][a] # Null
    /\ \A h \in Handle : ptr[h] # Null /\ ptr[h].p = a => IsPublic(a)
    /\ \A e \in Executor : busy[e] # Null /\ busy[e].p = a => IsPublic(a)
    /\ \A m \in pubPap : m.p = a => rc[m.author][a] # Null
    /\ \A r \in pubDmn : r.p = a => rc[r.to][a] # Null
    /\ \A e, f \in Executor : rc[e][a] # Null /\ rc[f][a] # Null => e = f

(* A user thread waits in one call at most.                                *)
OneCall(e) ==
    /\ fwd[e] # Null => pub[e] = Null /\ busy[e] = Null
    /\ pub[e] # Null => busy[e] = Null

(* Of what it waits for there is one request or one answer.                *)
FetchOK(e) ==
    /\ \A r \in pvtDmn : r.from = e /\ ~IsReset(r) => Fetches(e, r.to, r.p)
    /\ \A s \in pvtMem : s.to = e => \E a \in Address : Fetches(e, s.from, a)
    /\ \A r, q \in pvtDmn : r.from = e /\ q.from = e /\ ~IsReset(r) /\ ~IsReset(q) => r = q
    /\ \A s, t \in pvtMem : s.to = e /\ t.to = e => s = t
    /\ \A r \in pvtDmn, s \in pvtMem : r.from = e /\ s.to = e => IsReset(r)

AskOK(e) ==
    /\ \A r \in pubDmn : r.from = e /\ IsAsk(r) => Asks(e, r.op, r.to)
    /\ \A s \in pubMem : s.to = e => Asks(e, s.op, s.from)
    /\ \A r, q \in pubDmn : r.from = e /\ q.from = e /\ IsAsk(r) /\ IsAsk(q) => r = q
    /\ \A s, t \in pubMem : s.to = e /\ t.to = e => s = t
    /\ \A r \in pubDmn, s \in pubMem : r.from = e /\ s.to = e => ~IsAsk(r)

(* Blocks without a parent are live, and in use for one thing.             *)
BlockOK(e) ==
    /\ \A c \in uniq[e] : parent[e][c] # Null
    /\ \A a \in Address : Public(e, a) /\ view[e][a].committed # Null =>
          /\ heap[e][view[e][a].committed] # Null
          /\ parent[e][view[e][a].committed] = Null
          /\ pub[e] # Null => view[e][a].committed # pub[e].lp
    /\ \A a, b \in Address : /\ Public(e, a) /\ view[e][a].committed # Null
                             /\ Public(e, b) /\ view[e][b].committed = view[e][a].committed
                             => a = b
    /\ pub[e] # Null => heap[e][pub[e].lp] # Null /\ parent[e][pub[e].lp] = Null

IInv ==
    /\ TypeOK
    /\ \A a \in Address : AddressOK(a) /\ HomeOK(a)
    /\ \A e \in Executor : OneCall(e) /\ FetchOK(e) /\ AskOK(e) /\ BlockOK(e)

-----------------------------------------------------------------------------
(* The operators of GamView that the two instances use *)

LEMMA SameTables ==
  /\ Pvt!TableTypeOK <=> TableTypeOK
  /\ Pub!TableTypeOK <=> TableTypeOK
  /\ \A e \in Executor, a \in Address :
        /\ Pvt!Mapped(e, a) <=> Mapped(e, a)
        /\ Pub!Mapped(e, a) <=> Mapped(e, a)
        /\ Pvt!Unmap(e, a) <=> Unmap(e, a)
        /\ Pub!Unmap(e, a) <=> Unmap(e, a)
BY DEF Pvt!TableTypeOK, Pub!TableTypeOK, TableTypeOK, Pvt!Entry, Pub!Entry, Entry,
       Pvt!AccessLevel, Pub!AccessLevel, AccessLevel, Pvt!Mapped, Pub!Mapped, Mapped,
       Pvt!Unmap, Pub!Unmap, Unmap, Pvt!ParentsWithout, Pub!ParentsWithout,
       ParentsWithout, Pvt!HeapWithout, Pub!HeapWithout, HeapWithout

-----------------------------------------------------------------------------
(* Types *)

(* What TypeOK says of the parts of every entry, message and call: the     *)
(* form the proofs use it in.                                              *)
TypedTables ==
    /\ \A e \in Executor, a \in Address : Mapped(e, a) =>
          /\ view[e][a] \in Entry
          /\ view[e][a].committed \in Cell \cup {Null}
          /\ view[e][a].child \in Cell \cup {Null}
          /\ view[e][a].owner \in Executor \cup {Null}
          /\ view[e][a].author \in Executor
          /\ view[e][a].access_level \in AccessLevel
    /\ \A e \in Executor, c \in Cell :
          /\ parent[e][c] # Null => parent[e][c] \in Address
          /\ heap[e][c] # Null => heap[e][c] \in Value

TypedCalls ==
    /\ \A e \in Executor : fwd[e] # Null =>
          fwd[e].p \in Address /\ fwd[e].lp \in Cell /\ fwd[e].to \in Executor
    /\ \A e \in Executor : pub[e] # Null =>
          /\ pub[e].p \in Address /\ pub[e].lp \in Cell /\ pub[e].to \in Executor
          /\ pub[e].as \in Address
    /\ \A e \in Executor : busy[e] # Null => busy[e].p \in Address
    /\ \A e \in Executor : Pub!IsPushing(e) => busy[e].ref \in Handle
    /\ \A h \in Handle : ptr[h] # Null => ptr[h].p \in Address /\ ptr[h].at \in Executor

TypedPrivate ==
    /\ \A m \in pvtPap : /\ m.from \in Executor /\ m.to \in Executor
                         /\ m.p \in Address /\ m.author \in Executor
    /\ \A r \in pvtDmn : /\ r.from \in Executor /\ r.to \in Executor
                         /\ r.p \in Address /\ r.op \in {"RLOAD", "PVT_RESET"}
    /\ \A s \in pvtMem : s.from \in Executor /\ s.to \in Executor /\ s.value \in Value

TypedPublic ==
    /\ \A m \in pubPap : /\ m.from \in Executor /\ m.to \in Executor
                         /\ m.p \in Address /\ m.author \in Executor /\ m.ref \in Handle
    /\ \A r \in pubDmn : /\ r.from \in Executor /\ r.to \in Executor /\ r.p \in Address
                         /\ r.op \in {"RC_INC", "RC_DEC", "RLOAD", "RC_GET"}
    /\ \A s \in pubMem : s.from \in Executor /\ s.to \in Executor

Typed == TypedTables /\ TypedCalls /\ TypedPrivate /\ TypedPublic

LEMMA TypeFacts == TypeOK => Typed
<1> SUFFICES ASSUME TypeOK PROVE Typed OBVIOUS
<1>1. Pvt!TypeOK /\ Pub!TypeOK /\ pub \in [Executor -> Publishing \cup {Null}]
  BY DEF TypeOK
<1>2. TableTypeOK BY <1>1, SameTables DEF Pvt!TypeOK
<1>3. ASSUME NEW e \in Executor, NEW a \in Address, Mapped(e, a)
      PROVE  /\ view[e][a] \in Entry
             /\ view[e][a].committed \in Cell \cup {Null}
             /\ view[e][a].child \in Cell \cup {Null}
             /\ view[e][a].owner \in Executor \cup {Null}
             /\ view[e][a].author \in Executor
             /\ view[e][a].access_level \in AccessLevel
  <2>1. view[e][a] \in Entry BY <1>2, <1>3 DEF TableTypeOK, Mapped
  <2> QED BY <2>1 DEF Entry
<1>4. ASSUME NEW e \in Executor, NEW c \in Cell
      PROVE  /\ parent[e][c] # Null => parent[e][c] \in Address
             /\ heap[e][c] # Null => heap[e][c] \in Value
  BY <1>2 DEF TableTypeOK
<1>5. ASSUME NEW e \in Executor, fwd[e] # Null
      PROVE  fwd[e].p \in Address /\ fwd[e].lp \in Cell /\ fwd[e].to \in Executor
  <2>1. fwd[e] \in Pvt!Load BY <1>1, <1>5 DEF Pvt!TypeOK
  <2> QED BY <2>1 DEF Pvt!Load
<1>6. ASSUME NEW e \in Executor, pub[e] # Null
      PROVE  /\ pub[e].p \in Address /\ pub[e].lp \in Cell /\ pub[e].to \in Executor
             /\ pub[e].as \in Address
  <2>1. pub[e] \in Publishing BY <1>1, <1>6
  <2> QED BY <2>1 DEF Publishing
<1>7. ASSUME NEW e \in Executor, busy[e] # Null
      PROVE  busy[e].p \in Address /\ (Pub!IsPushing(e) => busy[e].ref \in Handle)
  <2>1. busy[e] \in Pub!Pushing \/ busy[e] \in Pub!Asking
    BY <1>1, <1>7 DEF Pub!TypeOK
  <2> QED BY <2>1 DEF Pub!Pushing, Pub!Asking, Pub!IsPushing
<1>8. ASSUME NEW h \in Handle, ptr[h] # Null
      PROVE  ptr[h].p \in Address /\ ptr[h].at \in Executor
  <2>1. ptr[h] \in Pub!Pointer BY <1>1, <1>8 DEF Pub!TypeOK
  <2> QED BY <2>1 DEF Pub!Pointer
<1>9. TypedPrivate
  BY <1>1 DEF Pvt!TypeOK, TypedPrivate, Pvt!Capability, Pvt!Request, Pvt!Answer
<1>10. TypedPublic
  BY <1>1 DEF Pub!TypeOK, TypedPublic, Pub!Capability, Pub!Request, Pub!Answer
<1>11. TypedTables BY <1>3, <1>4 DEF TypedTables
<1>12. TypedCalls BY <1>5, <1>6, <1>7, <1>8 DEF TypedCalls, Pub!IsPushing
<1> QED BY <1>9, <1>10, <1>11, <1>12 DEF Typed

(* Writing one place of a table of tables, or of a table.                  *)
LEMMA Written ==
  ASSUME NEW A, NEW B, NEW C, NEW f \in [A -> [B -> C]],
         NEW a \in A, NEW b \in B, NEW v \in C, NEW g, g = [f EXCEPT ![a][b] = v]
  PROVE  /\ g \in [A -> [B -> C]]
         /\ g[a][b] = v
         /\ \A x \in A, y \in B : x # a \/ y # b => g[x][y] = f[x][y]
         /\ \A x \in A : x # a => g[x] = f[x]
OBVIOUS

LEMMA Set ==
  ASSUME NEW A, NEW C, NEW f \in [A -> C], NEW a \in A, NEW v \in C,
         NEW g, g = [f EXCEPT ![a] = v]
  PROVE  g \in [A -> C] /\ g[a] = v /\ \A x \in A : x # a => g[x] = f[x]
OBVIOUS

(* An element more, or less, of one of a table of sets.                    *)
LEMMA Added ==
  ASSUME NEW A, NEW B, NEW f \in [A -> SUBSET B], NEW a \in A, NEW b \in B,
         NEW g, g = [f EXCEPT ![a] = @ \cup {b}]
  PROVE  /\ g \in [A -> SUBSET B]
         /\ \A x \in A, y \in B : y \in g[x] <=> y \in f[x] \/ (x = a /\ y = b)
OBVIOUS

LEMMA Removed ==
  ASSUME NEW A, NEW B, NEW f \in [A -> SUBSET B], NEW a \in A, NEW b,
         NEW g, g = [f EXCEPT ![a] = @ \ {b}]
  PROVE  /\ g \in [A -> SUBSET B]
         /\ \A x \in A, y \in B : y \in g[x] <=> y \in f[x] /\ ~(x = a /\ y = b)
OBVIOUS

-----------------------------------------------------------------------------
(* What a step leaves as it is *)

(* Nothing changes that the private part of the invariant says of b.       *)
SameAt(b) ==
    /\ \A e \in Executor :
          /\ Private(e, b)' <=> Private(e, b)
          /\ Private(e, b) => view'[e][b] = view[e][b]
          /\ b \in pvt'[e] <=> b \in pvt[e]
    /\ \A e \in Executor, c \in Cell :
          /\ parent'[e][c] = b <=> parent[e][c] = b
          /\ parent[e][c] = b =>
                /\ heap[e][c] # Null => heap'[e][c] # Null
                /\ c \in uniq'[e] <=> c \in uniq[e]
    /\ \A m \in pvtPap \cup pvtPap' : m.p = b => m \in pvtPap /\ m \in pvtPap'
    /\ \A r \in pvtDmn \cup pvtDmn' : r.p = b => r \in pvtDmn /\ r \in pvtDmn'
    /\ \A e \in Executor :
          /\ Loads(e, b)' <=> Loads(e, b)
          /\ Loads(e, b) => fwd'[e] = fwd[e]
          /\ Publishes(e, b)' <=> Publishes(e, b)
          /\ Publishes(e, b) => pub'[e] = pub[e]
          /\ PublishesAs(e, b)' <=> PublishesAs(e, b)
    /\ b \in issued => b \in issued'
    /\ IsPublic(b)' <=> IsPublic(b)

LEMMA AddressKept ==
  ASSUME TypeOK, TypeOK', NEW b \in Address, AddressOK(b), SameAt(b)
  PROVE  AddressOK(b)'
<1>0. /\ \A e \in Executor : uniq[e] \subseteq Cell /\ uniq'[e] \subseteq Cell
      /\ Typed
  BY TypeFacts DEF TypeOK, Pvt!TypeOK
<1>1. \A e \in Executor : /\ Private(e, b)' <=> Private(e, b)
                          /\ Private(e, b) => view'[e][b] = view[e][b]
                          /\ b \in pvt'[e] <=> b \in pvt[e]
  BY DEF SameAt
<1>2. \A e \in Executor, c \in Cell : parent'[e][c] = b <=> parent[e][c] = b
  BY DEF SameAt
<1>3. \A e \in Executor, c \in Cell : parent[e][c] = b =>
        /\ heap[e][c] # Null => heap'[e][c] # Null
        /\ c \in uniq'[e] <=> c \in uniq[e]
  BY DEF SameAt
<1>4. \A m \in pvtPap \cup pvtPap' : m.p = b => m \in pvtPap /\ m \in pvtPap'
  BY DEF SameAt
<1>5. \A r \in pvtDmn \cup pvtDmn' : r.p = b => r \in pvtDmn /\ r \in pvtDmn'
  BY DEF SameAt
<1>6. \A e \in Executor :
        /\ Loads(e, b)' <=> Loads(e, b)
        /\ Loads(e, b) => fwd'[e] = fwd[e]
        /\ Publishes(e, b)' <=> Publishes(e, b)
        /\ Publishes(e, b) => pub'[e] = pub[e]
        /\ PublishesAs(e, b)' <=> PublishesAs(e, b)
  BY DEF SameAt
<1>7. \A e \in Executor : Keeps(e, b)' <=> Keeps(e, b)
  BY <1>1 DEF Keeps
<1>8. \A y \in Executor : Source(y, b)' <=> Source(y, b) BY <1>7 DEF Source
<1>9. \A e \in Executor : Open(e, b)' <=> Open(e, b)
  BY <1>0, <1>2, <1>3 DEF Open
<1>10. Alive(b)' <=> Alive(b) BY <1>1, <1>4 DEF Alive
<1>11. KnownPrivate(b)' <=> KnownPrivate(b)
  BY <1>1, <1>2, <1>4, <1>5 DEF KnownPrivate
<1>12. LevelOK(b)'
  <2>1. InPublish(b)' <=> InPublish(b) BY <1>6 DEF InPublish, PublishesAs
  <2>2. /\ b \in issued => b \in issued'
        /\ IsPublic(b)' <=> IsPublic(b)
    BY DEF SameAt
  <2>3. LevelOK(b) BY DEF AddressOK
  <2> QED BY <2>1, <2>2, <2>3, <1>6, <1>11 DEF LevelOK
<1>13. HandleOK(b)'
  <2>1. HandleOK(b) BY DEF AddressOK
  <2>2. ASSUME NEW e \in Executor, b \in pvt'[e]
        PROVE  (Private(e, b) /\ view[e][b].owner = e /\ Source(view[e][b].author, b))'
    <3>1. Private(e, b) /\ view[e][b].owner = e /\ Source(view[e][b].author, b)
      BY <2>1, <2>2, <1>1 DEF HandleOK
    <3>2. PICK y \in Executor : y = view[e][b].author
      BY <3>1, <1>0 DEF Typed, TypedTables, Private
    <3>3. Source(y, b)' BY <3>1, <3>2, <1>8
    <3>4. view'[e][b].author = y BY <3>1, <3>2, <1>1
    <3> QED BY <3>1, <3>3, <3>4, <1>1
  <2>3. ASSUME NEW m \in pvtPap', m.p = b PROVE Source(m.author, b)'
    <3>1. m \in pvtPap BY <2>3, <1>4
    <3>2. m.author \in Executor BY <3>1, <1>0 DEF Typed, TypedPrivate
    <3> QED BY <2>1, <2>3, <3>1, <3>2, <1>8 DEF HandleOK
  <2> QED BY <2>2, <2>3 DEF HandleOK
<1>14. WaitOK(b)'
  <2>1. WaitOK(b) BY DEF AddressOK
  <2>2. \A e \in Executor : b \in pvt[e] => view'[e][b] = view[e][b]
    BY <1>1 DEF AddressOK, HandleOK
  <2> QED BY <2>1, <2>2, <1>1, <1>6 DEF WaitOK
<1>15. SoleOK(b)'
  <2>1. SoleOK(b) BY DEF AddressOK
  <2> QED BY <2>1, <1>1, <1>4, <1>9, <1>10 DEF SoleOK
<1>16. ResetOK(b)'
  <2>1. ResetOK(b) BY DEF AddressOK
  <2>2. ASSUME NEW r \in pvtDmn', IsReset(r), r.p = b
        PROVE  Keeps(r.to, b)' /\ ~Alive(b)' /\ ~Open(r.to, b)'
    <3>1. r \in pvtDmn BY <2>2, <1>5
    <3>2. r.to \in Executor BY <3>1, <1>0 DEF Typed, TypedPrivate
    <3> QED BY <2>1, <2>2, <3>1, <3>2, <1>7, <1>9, <1>10 DEF ResetOK
  <2> QED BY <2>1, <2>2, <1>5 DEF ResetOK
<1>17. EntryOK(b)'
  <2>1. EntryOK(b) BY DEF AddressOK
  <2> QED BY <2>1, <1>1, <1>6, <1>7 DEF EntryOK
<1>18. ChildOK(b)'
  <2>1. ChildOK(b) BY DEF AddressOK
  <2>2. ASSUME NEW e \in Executor, Private(e, b)', view'[e][b].child # Null
        PROVE  parent'[e][view'[e][b].child] = b
    <3>1. Private(e, b) /\ view'[e][b] = view[e][b] BY <2>2, <1>1
    <3>2. view[e][b].child \in Cell
      BY <3>1, <2>2, <1>0 DEF Typed, TypedTables, Private
    <3> QED BY <2>1, <2>2, <3>1, <3>2, <1>2 DEF ChildOK
  <2>3. ASSUME NEW e \in Executor, NEW c \in Cell, parent'[e][c] = b
        PROVE  /\ Private(e, b)' /\ view'[e][b].child = c /\ heap'[e][c] # Null
               /\ c \in uniq'[e] => Keeps(e, b)' /\ view'[e][b].owner = e
    <3>1. parent[e][c] = b BY <2>3, <1>2
    <3> QED BY <2>1, <3>1, <1>1, <1>3, <1>7 DEF ChildOK
  <2> QED BY <2>2, <2>3 DEF ChildOK
<1> QED BY <1>12, <1>13, <1>14, <1>15, <1>16, <1>17, <1>18 DEF AddressOK

(* An address nobody has heard of, or only as the name of public memory.   *)
Unknown(b) ==
    ~KnownPrivate(b) /\ \A e \in Executor : ~Loads(e, b) /\ ~Publishes(e, b)

LEMMA AddressUnknown ==
  ASSUME TypeOK, NEW b \in Address, LevelOK(b), Unknown(b)
  PROVE  AddressOK(b)
<1>1. /\ \A e \in Executor : ~Private(e, b) /\ b \notin pvt[e]
      /\ \A e \in Executor, c \in Cell : parent[e][c] # b
      /\ \A m \in pvtPap : m.p # b
      /\ \A r \in pvtDmn : r.p # b
  BY DEF Unknown, KnownPrivate
<1>2. HandleOK(b) BY <1>1 DEF HandleOK
<1>3. WaitOK(b)
  <2>1. \A e \in Executor : ~Loads(e, b) /\ ~Publishes(e, b) BY DEF Unknown
  <2> QED BY <2>1 DEF WaitOK
<1>4. SoleOK(b)
  <2>1. ASSUME NEW e \in Executor, NEW c \in uniq[e] PROVE parent[e][c] # b
    <3>1. c \in Cell BY DEF TypeOK, Pvt!TypeOK
    <3> QED BY <3>1, <1>1
  <2>2. \A e \in Executor : ~Open(e, b) BY <2>1 DEF Open
  <2> QED BY <1>1, <2>2 DEF SoleOK
<1>5. ResetOK(b) BY <1>1 DEF ResetOK
<1>6. EntryOK(b) BY <1>1 DEF EntryOK
<1>7. ChildOK(b)
  <2> SUFFICES ASSUME NEW e \in Executor
               PROVE  /\ ~Private(e, b)
                      /\ \A c \in Cell : parent[e][c] # b
    BY DEF ChildOK
  <2> QED BY <1>1
<1> QED BY <1>2, <1>3, <1>4, <1>5, <1>6, <1>7 DEF AddressOK

UnknownOK ==
    TypeOK => \A b \in Address : LevelOK(b) /\ Unknown(b) => AddressOK(b)

LEMMA UnknownNext == UnknownOK'
<1>1. UnknownOK BY AddressUnknown DEF UnknownOK
<1> QED BY <1>1, PTL

(* The public part stays when public entries do.                           *)
LEMMA HomeKept ==
  ASSUME NEW b \in Address, HomeOK(b), UNCHANGED publicVars,
         \A e \in Executor : Public(e, b)' =>
             Public(e, b) /\ view'[e][b].author = view[e][b].author
  PROVE  HomeOK(b)'
<1>1. UNCHANGED <<ptr, rc, busy, pubPap, pubDmn>> BY DEF publicVars
<1>2. IsPublic(b)' <=> IsPublic(b) BY <1>1 DEF IsPublic
<1> QED BY <1>1, <1>2 DEF HomeOK

(* The calls of f stay when f has no new request and no new answer.        *)
LEMMA FetchKept ==
  ASSUME NEW f \in Executor, OneCall(f), FetchOK(f),
         fwd'[f] = fwd[f], pub'[f] = pub[f],
         busy'[f] # Null => busy'[f] = busy[f],
         \A r \in pvtDmn' : r.from = f /\ ~IsReset(r) => r \in pvtDmn,
         \A s \in pvtMem' : s.to = f => s \in pvtMem
  PROVE  OneCall(f)' /\ FetchOK(f)'
<1>1. OneCall(f)' BY DEF OneCall
<1>2. \A t, a : Fetches(f, t, a)' <=> Fetches(f, t, a)
  BY DEF Fetches, Loads, Publishes
<1>3. FetchOK(f)'
  <2>1. \A r \in pvtDmn' : r.from = f /\ ~IsReset(r) => Fetches(f, r.to, r.p)'
    BY <1>2 DEF FetchOK
  <2>2. \A s \in pvtMem' : s.to = f => \E a \in Address : Fetches(f, s.from, a)'
    BY <1>2 DEF FetchOK
  <2>3. /\ \A r, q \in pvtDmn' :
             r.from = f /\ q.from = f /\ ~IsReset(r) /\ ~IsReset(q) => r = q
        /\ \A s, t \in pvtMem' : s.to = f /\ t.to = f => s = t
        /\ \A r \in pvtDmn', s \in pvtMem' : r.from = f /\ s.to = f => IsReset(r)
    BY DEF FetchOK
  <2> QED BY <2>1, <2>2, <2>3 DEF FetchOK
<1> QED BY <1>1, <1>3

LEMMA AskKept ==
  ASSUME NEW f \in Executor, AskOK(f),
         Pub!IsAsking(f) => busy'[f] = busy[f],
         \A r \in pubDmn' : r.from = f /\ IsAsk(r) => r \in pubDmn,
         \A s \in pubMem' : s.to = f => s \in pubMem
  PROVE  AskOK(f)'
<1>1. \A op, t : Asks(f, op, t) => Asks(f, op, t)' BY DEF Asks, Pub!IsAsking
<1>2. \A r \in pubDmn' : r.from = f /\ IsAsk(r) => Asks(f, r.op, r.to)'
  BY <1>1 DEF AskOK
<1>3. \A s \in pubMem' : s.to = f => Asks(f, s.op, s.from)'
  BY <1>1 DEF AskOK
<1>4. /\ \A r, q \in pubDmn' :
           r.from = f /\ q.from = f /\ IsAsk(r) /\ IsAsk(q) => r = q
      /\ \A s, t \in pubMem' : s.to = f /\ t.to = f => s = t
      /\ \A r \in pubDmn', s \in pubMem' : r.from = f /\ s.to = f => ~IsAsk(r)
  BY DEF AskOK
<1> QED BY <1>2, <1>3, <1>4 DEF AskOK

(* The blocks of f without a parent stay when they get none.               *)
LEMMA BlockKept ==
  ASSUME TypeOK, NEW f \in Executor, BlockOK(f),
         \A c \in uniq'[f] : parent'[f][c] # Null,
         \A a \in Address : Public(f, a)' /\ view'[f][a].committed # Null =>
             Public(f, a) /\ view'[f][a].committed = view[f][a].committed,
         pub'[f] # Null => pub'[f] = pub[f],
         \A c \in Cell : heap[f][c] # Null /\ parent[f][c] = Null =>
             heap'[f][c] # Null /\ parent'[f][c] = Null
  PROVE  BlockOK(f)'
<1>0. Typed BY TypeFacts
<1>1. ASSUME NEW a \in Address, Public(f, a)', view'[f][a].committed # Null
      PROVE  /\ heap'[f][view'[f][a].committed] # Null
             /\ parent'[f][view'[f][a].committed] = Null
             /\ pub'[f] # Null => view'[f][a].committed # pub'[f].lp
  <2>1. /\ Public(f, a) /\ view'[f][a].committed = view[f][a].committed
        /\ view[f][a].committed # Null
    BY <1>1
  <2>2. view[f][a].committed \in Cell
    BY <2>1, <1>0 DEF Typed, TypedTables, Public
  <2>3. /\ heap[f][view[f][a].committed] # Null
        /\ parent[f][view[f][a].committed] = Null
        /\ pub[f] # Null => view[f][a].committed # pub[f].lp
    BY <2>1 DEF BlockOK
  <2> QED BY <2>1, <2>2, <2>3
<1>2. ASSUME NEW a \in Address, NEW b \in Address,
             Public(f, a)', view'[f][a].committed # Null,
             Public(f, b)', view'[f][b].committed = view'[f][a].committed
      PROVE  a = b
  BY <1>2 DEF BlockOK
<1>3. ASSUME pub'[f] # Null
      PROVE  heap'[f][pub'[f].lp] # Null /\ parent'[f][pub'[f].lp] = Null
  <2>1. pub'[f] = pub[f] /\ pub[f] # Null BY <1>3
  <2>2. pub[f].lp \in Cell BY <2>1, <1>0 DEF Typed, TypedCalls
  <2>3. heap[f][pub[f].lp] # Null /\ parent[f][pub[f].lp] = Null BY <2>1 DEF BlockOK
  <2> QED BY <2>1, <2>2, <2>3
<1> QED BY <1>1, <1>2, <1>3 DEF BlockOK

-----------------------------------------------------------------------------
(* Types, in parts: a step changes the tables and the variables of one     *)
(* kind of pointer at most, or those of publish.                           *)
PrivateTyped ==
    /\ pvt \in [Executor -> SUBSET Address]
    /\ uniq \in [Executor -> SUBSET Cell]
    /\ fwd \in [Executor -> Pvt!Load \cup {Null}]
    /\ pvtPap \subseteq Pvt!Capability
    /\ pvtDmn \subseteq Pvt!Request
    /\ pvtMem \subseteq Pvt!Answer

PublicTyped ==
    /\ ptr \in [Handle -> Pub!Pointer \cup {Null}]
    /\ rc \in [Executor -> [Address -> 0 .. RcRange - 1 \cup {Null}]]
    /\ busy \in [Executor -> Pub!Pushing \cup Pub!Asking \cup {Null}]
    /\ pubPap \subseteq Pub!Capability
    /\ pubDmn \subseteq Pub!Request
    /\ pubMem \subseteq Pub!Answer

PubTyped  == pub \in [Executor -> Publishing \cup {Null}]

LostTyped == lost \in [Address -> 0 .. MaxLost]

TypesApart ==
    TypeOK <=> TableTypeOK /\ PrivateTyped /\ PublicTyped /\ PubTyped /\ LostTyped

LEMMA TypeParts == TypesApart
BY SameTables DEF TypesApart, TypeOK, Pvt!TypeOK, Pub!TypeOK, PrivateTyped,
                  PublicTyped, PubTyped, LostTyped

LEMMA TypePartsNext == TypesApart'
<1>1. TypesApart BY TypeParts
<1> QED BY <1>1, PTL

LEMMA PrivateTypes ==
  ASSUME TypeOK, TableTypeOK', PrivateTyped', UNCHANGED <<publicVars, pub, lost>>
  PROVE  TypeOK'
<1>1. PublicTyped' /\ PubTyped' /\ LostTyped'
  BY TypeParts DEF TypesApart, publicVars, PublicTyped, PubTyped, LostTyped
<1> QED BY <1>1, TypePartsNext DEF TypesApart

LEMMA PublicTypes ==
  ASSUME TypeOK, TableTypeOK', PublicTyped', UNCHANGED <<privateVars, pub, lost>>
  PROVE  TypeOK'
<1>1. PrivateTyped' /\ PubTyped' /\ LostTyped'
  BY TypeParts DEF TypesApart, privateVars, PrivateTyped, PubTyped, LostTyped
<1> QED BY <1>1, TypePartsNext DEF TypesApart

-----------------------------------------------------------------------------
(* What a step of the private pointers of e, or a service to them, changes *)
(* that concerns a.                                                        *)
PrivateFrame(e, a) ==
    /\ UNCHANGED <<publicVars, pub>>
    /\ issued \subseteq issued'
    /\ \A f \in Executor, b \in Address :
          /\ f # e \/ b # a => view'[f][b] = view[f][b]
          /\ b # a => (b \in pvt'[f] <=> b \in pvt[f])
    /\ ~Public(e, a) /\ ~Public(e, a)'
    /\ \A f \in Executor, c \in Cell :
          /\ parent'[f][c] # parent[f][c] =>
                parent'[f][c] \in {Null, a} /\ parent[f][c] \in {Null, a}
          /\ heap[f][c] # Null /\ heap'[f][c] = Null => parent[f][c] = a
          /\ heap[f][c] # Null /\ parent[f][c] = Null => parent'[f][c] = Null
          /\ parent[f][c] # a => (c \in uniq'[f] <=> c \in uniq[f])
          /\ c \in uniq'[f] => parent'[f][c] # Null
    /\ \A m \in pvtPap \cup pvtPap' : m.p # a => m \in pvtPap /\ m \in pvtPap'
    /\ \A r \in pvtDmn \cup pvtDmn' : r.p # a => r \in pvtDmn /\ r \in pvtDmn'
    /\ \A f \in Executor : f # e => fwd'[f] = fwd[f]
    /\ fwd'[e] # fwd[e] =>
          (fwd[e] # Null => fwd[e].p = a) /\ (fwd'[e] # Null => fwd'[e].p = a)
    /\ \A r \in pvtDmn' : r.from # e /\ ~IsReset(r) => r \in pvtDmn
    /\ \A s \in pvtMem' : s.to # e => s \in pvtMem

LEMMA PrivateStep ==
  ASSUME IInv, TypeOK', NEW e \in Executor, NEW a \in Address, PrivateFrame(e, a),
         AddressOK(a)', OneCall(e)', FetchOK(e)'
  PROVE  IInv'
<1>0. TypeOK /\ Typed /\ Null \notin Address
  BY TypeFacts, ViewAssumption DEF IInv
<1>1. UNCHANGED <<ptr, rc, busy, pubPap, pubDmn, pubMem, pub>>
  BY DEF PrivateFrame, publicVars
<1>2. \A f \in Executor, b \in Address : f # e \/ b # a => view'[f][b] = view[f][b]
  BY DEF PrivateFrame
<1>3. \A f \in Executor, c \in Cell :
        /\ parent'[f][c] # parent[f][c] =>
              parent'[f][c] \in {Null, a} /\ parent[f][c] \in {Null, a}
        /\ heap[f][c] # Null /\ heap'[f][c] = Null => parent[f][c] = a
        /\ heap[f][c] # Null /\ parent[f][c] = Null => parent'[f][c] = Null
        /\ parent[f][c] # a => (c \in uniq'[f] <=> c \in uniq[f])
        /\ c \in uniq'[f] => parent'[f][c] # Null
  BY DEF PrivateFrame
<1>4. \A f \in Executor, b \in Address : Public(f, b)' =>
        Public(f, b) /\ view'[f][b] = view[f][b]
  <2>1. ~Public(e, a)' BY DEF PrivateFrame
  <2> QED BY <1>2, <2>1 DEF Public, Mapped
<1>5. ASSUME NEW b \in Address, b # a PROVE AddressOK(b)'
  <2>1. \A f \in Executor : /\ Private(f, b)' <=> Private(f, b)
                            /\ Private(f, b) => view'[f][b] = view[f][b]
                            /\ b \in pvt'[f] <=> b \in pvt[f]
    BY <1>2, <1>5 DEF PrivateFrame, Private, Mapped
  <2>2. \A f \in Executor, c \in Cell : parent'[f][c] = b <=> parent[f][c] = b
    BY <1>0, <1>3, <1>5
  <2>3. \A f \in Executor, c \in Cell : parent[f][c] = b =>
          /\ heap[f][c] # Null => heap'[f][c] # Null
          /\ c \in uniq'[f] <=> c \in uniq[f]
    BY <1>3, <1>5
  <2>4. /\ \A m \in pvtPap \cup pvtPap' : m.p = b => m \in pvtPap /\ m \in pvtPap'
        /\ \A r \in pvtDmn \cup pvtDmn' : r.p = b => r \in pvtDmn /\ r \in pvtDmn'
        /\ b \in issued => b \in issued'
    BY <1>5 DEF PrivateFrame
  <2>5. \A f \in Executor :
          /\ Loads(f, b)' <=> Loads(f, b)
          /\ Loads(f, b) => fwd'[f] = fwd[f]
    <3>1. \A f \in Executor : f # e => fwd'[f] = fwd[f] BY DEF PrivateFrame
    <3>2. fwd'[e] # fwd[e] =>
            (fwd[e] # Null => fwd[e].p = a) /\ (fwd'[e] # Null => fwd'[e].p = a)
      BY DEF PrivateFrame
    <3> QED BY <3>1, <3>2, <1>5 DEF Loads
  <2>6. /\ \A f \in Executor : /\ Publishes(f, b)' <=> Publishes(f, b)
                               /\ PublishesAs(f, b)' <=> PublishesAs(f, b)
        /\ IsPublic(b)' <=> IsPublic(b)
    BY <1>1 DEF Publishes, PublishesAs, IsPublic
  <2>7. SameAt(b)
    <3>1. \A f \in Executor : Publishes(f, b) => pub'[f] = pub[f] BY <1>1
    <3> QED BY <2>1, <2>2, <2>3, <2>4, <2>5, <2>6, <3>1 DEF SameAt
  <2> QED BY <2>7, <1>0, AddressKept DEF IInv
<1>6. ASSUME NEW b \in Address PROVE HomeOK(b)'
  <2>1. UNCHANGED publicVars BY DEF PrivateFrame
  <2> QED BY <1>4, <2>1, HomeKept DEF IInv
<1>7. ASSUME NEW f \in Executor, f # e PROVE OneCall(f)' /\ FetchOK(f)'
  <2>1. fwd'[f] = fwd[f] BY <1>7 DEF PrivateFrame
  <2>2. /\ \A r \in pvtDmn' : r.from = f /\ ~IsReset(r) => r \in pvtDmn
        /\ \A s \in pvtMem' : s.to = f => s \in pvtMem
    BY <1>7 DEF PrivateFrame
  <2> QED BY <2>1, <2>2, <1>1, FetchKept DEF IInv
<1>8. ASSUME NEW f \in Executor PROVE AskOK(f)' /\ BlockOK(f)'
  <2>1. AskOK(f)' BY <1>1, AskKept DEF IInv
  <2>2. \A c \in uniq'[f] : parent'[f][c] # Null
    <3>1. uniq'[f] \subseteq Cell BY DEF TypeOK, Pvt!TypeOK
    <3> QED BY <3>1, <1>3
  <2>3. \A c \in Cell : heap[f][c] # Null /\ parent[f][c] = Null =>
          heap'[f][c] # Null /\ parent'[f][c] = Null
    BY <1>0, <1>3
  <2>4. \A b \in Address : Public(f, b)' /\ view'[f][b].committed # Null =>
          Public(f, b) /\ view'[f][b].committed = view[f][b].committed
    BY <1>4
  <2>5. BlockOK(f) BY DEF IInv
  <2>6. BlockOK(f)' BY <2>2, <2>3, <2>4, <2>5, <1>0, <1>1, BlockKept
  <2> QED BY <2>1, <2>6
<1> QED BY <1>5, <1>6, <1>7, <1>8 DEF IInv

-----------------------------------------------------------------------------
(* The private pointers: user threads *)

(* An address that was not issued is unknown to private pointers.          *)
LEMMA FreshAddress ==
  ASSUME IInv, NEW a \in Address, a \notin issued
  PROVE  /\ ~KnownPrivate(a) /\ ~IsPublic(a) /\ ~InPublish(a) /\ Unknown(a)
         /\ \A f \in Executor : view[f][a] = Null /\ a \notin pvt[f]
         /\ \A f \in Executor, c \in Cell : parent[f][c] # a
         /\ \A m \in pvtPap : m.p # a
         /\ \A r \in pvtDmn : r.p # a
<1>1. LevelOK(a) /\ WaitOK(a) /\ HomeOK(a) /\ Typed
  BY TypeFacts DEF IInv, AddressOK
<1>2. ~KnownPrivate(a) /\ ~IsPublic(a) /\ ~InPublish(a) BY <1>1 DEF LevelOK
<1>3. /\ \A f \in Executor : ~Private(f, a) /\ a \notin pvt[f]
      /\ \A f \in Executor, c \in Cell : parent[f][c] # a
      /\ \A m \in pvtPap : m.p # a
      /\ \A r \in pvtDmn : r.p # a
  BY <1>2 DEF KnownPrivate
<1>4. \A f \in Executor : ~Loads(f, a) /\ ~Publishes(f, a)
  BY <1>1, <1>3 DEF WaitOK
<1>5. ASSUME NEW f \in Executor PROVE view[f][a] = Null
  <2>1. Mapped(f, a) => view[f][a].author \in Executor /\ view[f][a].access_level \in AccessLevel
    BY <1>1 DEF Typed, TypedTables
  <2>2. ~Public(f, a) BY <1>1, <1>2, <2>1 DEF HomeOK, IsPublic, Public
  <2> QED BY <1>3, <2>1, <2>2 DEF Private, Public, AccessLevel, Mapped
<1> QED BY <1>2, <1>3, <1>4, <1>5 DEF Unknown

(* A free cell has no parent, and a block of a gam_unique_ptr is not free. *)
LEMMA FreeCell ==
  ASSUME IInv, NEW e \in Executor, NEW c \in Cell, heap[e][c] = Null
  PROVE  parent[e][c] = Null /\ c \notin uniq[e]
<1>1. parent[e][c] = Null
  <2>1. parent[e][c] # Null => parent[e][c] \in Address
    BY TypeFacts DEF IInv, Typed, TypedTables
  <2>2. \A a \in Address : parent[e][c] = a => heap[e][c] # Null
    BY DEF IInv, AddressOK, ChildOK
  <2> QED BY <2>1, <2>2
<1>2. c \notin uniq[e] BY <1>1 DEF IInv, BlockOK
<1> QED BY <1>1, <1>2

LEMMA MakeStep ==
  ASSUME IInv, NEW e \in Executor, NEW v \in Content, v \in Value,
         Idle(e), Pvt!Make(e, v), UNCHANGED <<publicVars, pub, lost>>
  PROVE  IInv'
<1>0. TypeOK /\ Typed /\ Null \notin Address \cup Cell \cup Value \cup Entry
  BY TypeFacts, ViewAssumption DEF IInv
<1>t. TableTypeOK /\ PrivateTyped BY <1>0, TypeParts DEF TypesApart
<1>1. PICK a \in Address, c \in Cell :
        /\ a \notin issued /\ heap[e][c] = Null
        /\ issued' = issued \cup {a}
        /\ view' = [view EXCEPT ![e][a] = PrivateEntry(e, c)]
        /\ parent' = [parent EXCEPT ![e][c] = a]
        /\ heap' = [heap EXCEPT ![e][c] = v]
        /\ pvt' = [pvt EXCEPT ![e] = @ \cup {a}]
  BY DEF Pvt!Make, Pvt!FreshAddresses, Pvt!FreeCells, Pvt!MmapPrivate,
         Pvt!PrivateEntry, PrivateEntry, Pvt!Hold
<1>2. UNCHANGED <<uniq, fwd, pvtPap, pvtDmn, pvtMem>>
  BY DEF Pvt!Make, Pvt!linkVars
<1>3. /\ PrivateEntry(e, c) \in Entry
      /\ PrivateEntry(e, c).committed = c /\ PrivateEntry(e, c).child = c
      /\ PrivateEntry(e, c).owner = e /\ PrivateEntry(e, c).author = e
      /\ PrivateEntry(e, c).access_level = "private"
  BY DEF PrivateEntry, Entry, AccessLevel
<1>4. /\ view' \in [Executor -> [Address -> Entry \cup {Null}]]
      /\ view'[e][a] = PrivateEntry(e, c)
      /\ \A f \in Executor, b \in Address : f # e \/ b # a => view'[f][b] = view[f][b]
  BY <1>1, <1>3, <1>t, Written DEF TableTypeOK
<1>5. /\ parent' \in [Executor -> [Cell -> Address \cup {Null}]]
      /\ parent'[e][c] = a
      /\ \A f \in Executor, d \in Cell : f # e \/ d # c => parent'[f][d] = parent[f][d]
  BY <1>1, <1>t, Written DEF TableTypeOK
<1>6. /\ heap' \in [Executor -> [Cell -> Value \cup {Null}]]
      /\ heap'[e][c] = v
      /\ \A f \in Executor, d \in Cell : f # e \/ d # c => heap'[f][d] = heap[f][d]
  BY <1>1, <1>t, Written DEF TableTypeOK
<1>7. /\ pvt' \in [Executor -> SUBSET Address]
      /\ \A f \in Executor, b \in Address : b \in pvt'[f] <=> b \in pvt[f] \/ (f = e /\ b = a)
  BY <1>1, <1>t, Added DEF PrivateTyped
<1>8. TypeOK'
  <2>1. TableTypeOK' BY <1>1, <1>4, <1>5, <1>6, <1>t DEF TableTypeOK
  <2>2. PrivateTyped' BY <1>2, <1>7, <1>t DEF PrivateTyped
  <2> QED BY <1>0, <2>1, <2>2, PrivateTypes
<1>9. /\ ~KnownPrivate(a) /\ ~IsPublic(a) /\ ~InPublish(a) /\ Unknown(a)
      /\ \A f \in Executor : view[f][a] = Null /\ a \notin pvt[f]
      /\ \A f \in Executor, d \in Cell : parent[f][d] # a
      /\ \A m \in pvtPap : m.p # a
      /\ \A r \in pvtDmn : r.p # a
  BY <1>1, FreshAddress
<1>10. parent[e][c] = Null /\ c \notin uniq[e] BY <1>1, FreeCell
<1>11. PrivateFrame(e, a)
  <2>1. ~Public(e, a) /\ ~Public(e, a)' BY <1>3, <1>4, <1>9 DEF Public, Mapped
  <2>2. \A f \in Executor, d \in Cell :
          /\ parent'[f][d] # parent[f][d] =>
                parent'[f][d] \in {Null, a} /\ parent[f][d] \in {Null, a}
          /\ heap[f][d] # Null => heap'[f][d] # Null
          /\ heap[f][d] # Null /\ parent[f][d] = Null => parent'[f][d] = Null
    BY <1>0, <1>1, <1>5, <1>6, <1>10
  <2>3. \A f \in Executor, d \in Cell : d \in uniq'[f] => parent'[f][d] # Null
    BY <1>2, <1>5, <1>10 DEF IInv, BlockOK
  <2> QED BY <1>1, <1>2, <1>4, <1>7, <2>1, <2>2, <2>3 DEF PrivateFrame
<1>12. /\ Private(e, a)' /\ Keeps(e, a)'
       /\ \A f \in Executor : f # e => ~Private(f, a)'
       /\ Source(e, a)'
  <2>1. Private(e, a)' /\ Keeps(e, a)'
    BY <1>0, <1>3, <1>4 DEF Private, Keeps, Mapped
  <2>2. \A f \in Executor : f # e => ~Private(f, a)' BY <1>4, <1>9 DEF Private, Mapped
  <2> QED BY <2>1, <2>2 DEF Source, Keeps
<1>13. \A f \in Executor : ~Loads(f, a)' /\ ~Publishes(f, a)' /\ ~PublishesAs(f, a)'
  <2>1. \A f \in Executor : ~Loads(f, a) /\ ~Publishes(f, a) /\ ~PublishesAs(f, a)
    BY <1>9 DEF Unknown, InPublish, PublishesAs
  <2> QED BY <1>2, <2>1 DEF Loads, Publishes, PublishesAs
<1>14. AddressOK(a)'
  <2>1. LevelOK(a)'
    BY <1>1, <1>9, <1>13 DEF LevelOK, IsPublic, InPublish, PublishesAs, publicVars
  <2>2. HandleOK(a)' BY <1>2, <1>3, <1>4, <1>7, <1>9, <1>12 DEF HandleOK
  <2>3. WaitOK(a)' BY <1>13 DEF WaitOK
  <2>4. SoleOK(a)'
    <3>1. \A f \in Executor : ~Open(f, a)'
      BY <1>2, <1>5, <1>9, <1>10, <1>t DEF Open, PrivateTyped
    <3> QED BY <1>2, <1>7, <1>9, <3>1 DEF SoleOK
  <2>5. ResetOK(a)' BY <1>2, <1>9 DEF ResetOK
  <2>6. EntryOK(a)' BY <1>0, <1>3, <1>4, <1>12 DEF EntryOK
  <2>7. ChildOK(a)'
    <3>1. \A f \in Executor, d \in Cell : parent'[f][d] = a => f = e /\ d = c
      BY <1>5, <1>9
    <3> QED BY <1>0, <1>2, <1>3, <1>4, <1>5, <1>6, <1>10, <1>12, <3>1 DEF ChildOK
  <2> QED BY <2>1, <2>2, <2>3, <2>4, <2>5, <2>6, <2>7 DEF AddressOK
<1>15. OneCall(e)' /\ FetchOK(e)'
  <2>1. UNCHANGED <<pub, busy>> BY DEF publicVars
  <2> QED BY <1>2, <2>1, FetchKept DEF IInv
<1> QED BY <1>8, <1>11, <1>14, <1>15, PrivateStep

(* What unmapping at the author does to the tables.                        *)
UnmapsAt(e, a) ==
    /\ issued' = issued
    /\ view'[e][a] = Null
    /\ \A f \in Executor, b \in Address : f # e \/ b # a => view'[f][b] = view[f][b]
    /\ view[e][a].child \in Cell /\ view[e][a].committed = view[e][a].child
    /\ parent[e][view[e][a].child] = a
    /\ parent'[e][view[e][a].child] = Null
    /\ \A f \in Executor, c \in Cell :
          f # e \/ c # view[e][a].child =>
             parent'[f][c] = parent[f][c] /\ heap'[f][c] = heap[f][c]

LEMMA UnmapEffect ==
  ASSUME IInv, NEW e \in Executor, NEW a \in Address, Keeps(e, a), Unmap(e, a)
  PROVE  TableTypeOK' /\ UnmapsAt(e, a)
<1>0. TypeOK /\ Typed BY TypeFacts DEF IInv
<1>t. TableTypeOK BY <1>0, TypeParts DEF TypesApart
<1>1. /\ view[e][a].child \in Cell /\ view[e][a].committed = view[e][a].child
      /\ parent[e][view[e][a].child] = a
      /\ view[e][a].access_level = "private"
  <2>1. EntryOK(a) /\ ChildOK(a) BY DEF IInv, AddressOK
  <2>2. Private(e, a) /\ view[e][a].author = e /\ view[e][a].committed # Null
    BY DEF Keeps
  <2>3. view[e][a].committed \in Cell BY <1>0, <2>2 DEF Typed, TypedTables, Private
  <2> QED BY <2>1, <2>2, <2>3 DEF EntryOK, ChildOK, Private
<1>2. DEFINE k == view[e][a].child
<1>3. /\ parent' = [parent EXCEPT ![e] = [c \in Cell |-> IF c = k THEN Null ELSE parent[e][c]]]
      /\ heap' = [heap EXCEPT ![e] = [c \in Cell |-> IF c = k THEN Null ELSE heap[e][c]]]
      /\ view' = [view EXCEPT ![e][a] = Null]
      /\ issued' = issued
  BY <1>1 DEF Unmap, ParentsWithout, HeapWithout
<1>4. /\ view' \in [Executor -> [Address -> Entry \cup {Null}]]
      /\ view'[e][a] = Null
      /\ \A f \in Executor, b \in Address : f # e \/ b # a => view'[f][b] = view[f][b]
  BY <1>3, <1>t, Written DEF TableTypeOK
<1>5. /\ [c \in Cell |-> IF c = k THEN Null ELSE parent[e][c]] \in [Cell -> Address \cup {Null}]
      /\ [c \in Cell |-> IF c = k THEN Null ELSE heap[e][c]] \in [Cell -> Value \cup {Null}]
  BY <1>t DEF TableTypeOK
<1>6. /\ parent' \in [Executor -> [Cell -> Address \cup {Null}]]
      /\ parent'[e] = [c \in Cell |-> IF c = k THEN Null ELSE parent[e][c]]
      /\ \A f \in Executor : f # e => parent'[f] = parent[f]
  BY <1>3, <1>5, <1>t DEF TableTypeOK
<1>7. /\ heap' \in [Executor -> [Cell -> Value \cup {Null}]]
      /\ heap'[e] = [c \in Cell |-> IF c = k THEN Null ELSE heap[e][c]]
      /\ \A f \in Executor : f # e => heap'[f] = heap[f]
  BY <1>3, <1>5, <1>t DEF TableTypeOK
<1>8. TableTypeOK' BY <1>3, <1>4, <1>6, <1>7, <1>t DEF TableTypeOK
<1>9. UnmapsAt(e, a) BY <1>1, <1>3, <1>4, <1>6, <1>7 DEF UnmapsAt
<1> QED BY <1>8, <1>9

(* The author releases the memory of a, whose capability is gone: its user *)
(* thread through the last pointer or gam_unique_ptr, or its daemon.       *)
Forgets(e, a) ==
    /\ UnmapsAt(e, a)
    /\ UNCHANGED <<publicVars, pub, lost, fwd, pvtPap, pvtMem>>
    /\ \A f \in Executor : ~Loads(f, a) /\ ~Publishes(f, a)
    /\ \A f \in Executor, b \in Address : b \in pvt'[f] <=> b \in pvt[f] /\ b # a
    /\ \A m \in pvtPap : m.p # a
    /\ pvtDmn' \subseteq pvtDmn
    /\ \A r \in pvtDmn : r \in pvtDmn' \/ r.p = a
    /\ \A r \in pvtDmn' : IsReset(r) /\ r.p = a => r.to # e
    /\ \A f \in Executor, c \in Cell :
          c \in uniq'[f] <=> c \in uniq[f] /\ ~(f = e /\ c = view[e][a].child)

LEMMA ForgetStep ==
  ASSUME IInv, TypeOK', NEW e \in Executor, NEW a \in Address, Keeps(e, a), Forgets(e, a)
  PROVE  IInv'
<1>0. /\ TypeOK /\ Typed /\ Null \notin Address
      /\ \A f \in Executor : uniq[f] \subseteq Cell /\ uniq'[f] \subseteq Cell
  BY TypeFacts, ViewAssumption DEF IInv, TypeOK, Pvt!TypeOK
<1>1. UnmapsAt(e, a) /\ AddressOK(a) /\ UNCHANGED <<fwd, pvtPap, pvtMem, pub, rc, busy>>
  BY DEF Forgets, IInv, publicVars
<1>2. DEFINE k == view[e][a].child
<1>3. \A f \in Executor, c \in Cell : c \in uniq'[f] <=> c \in uniq[f] /\ ~(f = e /\ c = k)
  BY DEF Forgets
<1>4. PrivateFrame(e, a)
  <2>1. ~Public(e, a) /\ ~Public(e, a)' BY <1>1 DEF UnmapsAt, Keeps, Private, Public, Mapped
  <2>2. \A f \in Executor, c \in Cell :
          /\ parent'[f][c] # parent[f][c] =>
                parent'[f][c] \in {Null, a} /\ parent[f][c] \in {Null, a}
          /\ heap[f][c] # Null /\ heap'[f][c] = Null => parent[f][c] = a
          /\ heap[f][c] # Null /\ parent[f][c] = Null => parent'[f][c] = Null
          /\ parent[f][c] # a => (c \in uniq'[f] <=> c \in uniq[f])
    BY <1>0, <1>1, <1>3 DEF UnmapsAt
  <2>3. \A f \in Executor, c \in Cell : c \in uniq'[f] => parent'[f][c] # Null
    <3>1. \A f \in Executor, c \in Cell : c \in uniq[f] => parent[f][c] # Null
      BY DEF IInv, BlockOK
    <3> QED BY <1>1, <1>3, <3>1 DEF UnmapsAt
  <2>4. /\ issued \subseteq issued'
        /\ \A f \in Executor, b \in Address :
             /\ f # e \/ b # a => view'[f][b] = view[f][b]
             /\ b # a => (b \in pvt'[f] <=> b \in pvt[f])
    BY <1>1 DEF UnmapsAt, Forgets
  <2>5. /\ \A m \in pvtPap \cup pvtPap' : m.p # a => m \in pvtPap /\ m \in pvtPap'
        /\ \A r \in pvtDmn \cup pvtDmn' : r.p # a => r \in pvtDmn /\ r \in pvtDmn'
        /\ \A r \in pvtDmn' : r.from # e /\ ~IsReset(r) => r \in pvtDmn
        /\ \A s \in pvtMem' : s.to # e => s \in pvtMem
    BY <1>1 DEF Forgets
  <2>6. UNCHANGED <<publicVars, pub, lost, fwd>> BY DEF Forgets
  <2> QED BY <2>1, <2>2, <2>3, <2>4, <2>5, <2>6 DEF PrivateFrame
<1>5. ~Alive(a)' /\ \A f \in Executor : ~Loads(f, a)' /\ ~Publishes(f, a)'
  BY <1>1 DEF Forgets, Alive, Loads, Publishes
<1>6. \A f \in Executor : f # e =>
        /\ Private(f, a)' <=> Private(f, a)
        /\ Keeps(f, a)' <=> Keeps(f, a)
        /\ view'[f][a] = view[f][a]
  BY <1>1 DEF UnmapsAt, Private, Keeps, Mapped
<1>7. ~Private(e, a)' BY <1>1 DEF UnmapsAt, Private, Mapped
<1>8. \A f \in Executor, c \in Cell : parent'[f][c] = a => parent[f][c] = a /\ f # e
  BY <1>0, <1>1 DEF UnmapsAt, AddressOK, ChildOK
<1>9. \A f \in Executor : Open(f, a)' => Open(f, a) /\ f # e
  BY <1>0, <1>3, <1>8 DEF Open
<1>10. AddressOK(a)'
  <2>1. LevelOK(a)'
    <3>1. KnownPrivate(a) BY DEF Keeps, KnownPrivate
    <3>2. a \in issued' /\ ~IsPublic(a)' /\ ~InPublish(a)'
      BY <3>1, <1>1 DEF AddressOK, LevelOK, UnmapsAt, IsPublic, InPublish
    <3> QED BY <3>2, <1>1 DEF AddressOK, LevelOK, InPublish, PublishesAs
  <2>2. HandleOK(a)' BY <1>5 DEF Alive, HandleOK
  <2>3. WaitOK(a)' BY <1>5 DEF WaitOK
  <2>4. SoleOK(a)' BY <1>1, <1>5, <1>9 DEF SoleOK, AddressOK, Alive
  <2>5. ResetOK(a)'
    <3>1. ResetOK(a) BY <1>1 DEF AddressOK
    <3>2. \A r \in pvtDmn' : IsReset(r) /\ r.p = a => r \in pvtDmn /\ r.to # e
      BY DEF Forgets
    <3>3. \A r \in pvtDmn : r.to \in Executor BY <1>0 DEF Typed, TypedPrivate
    <3>4. ASSUME NEW r \in pvtDmn', IsReset(r), r.p = a
          PROVE  Keeps(r.to, a)' /\ ~Alive(a)' /\ ~Open(r.to, a)'
      BY <3>1, <3>2, <3>3, <3>4, <1>5, <1>6, <1>9 DEF ResetOK
    <3> QED BY <3>1, <3>2, <3>4 DEF ResetOK
  <2>6. EntryOK(a)'
    <3>1. \A f \in Executor : ~Loads(f, a) BY DEF Forgets
    <3> QED BY <3>1, <1>1, <1>6, <1>7 DEF AddressOK, EntryOK
  <2>7. ChildOK(a)'
    <3>1. \A f \in Executor, c \in Cell : f # e =>
            /\ parent'[f][c] = parent[f][c] /\ heap'[f][c] = heap[f][c]
            /\ c \in uniq'[f] <=> c \in uniq[f]
      BY <1>1, <1>3 DEF UnmapsAt
    <3>2. \A f \in Executor : Private(f, a) /\ view[f][a].child # Null => view[f][a].child \in Cell
      BY <1>0 DEF Typed, TypedTables, Private
    <3> QED BY <3>1, <3>2, <1>1, <1>6, <1>7, <1>8 DEF AddressOK, ChildOK
  <2> QED BY <2>1, <2>2, <2>3, <2>4, <2>5, <2>6, <2>7 DEF AddressOK
<1>11. OneCall(e)' /\ FetchOK(e)'
  BY <1>1, FetchKept DEF IInv, Forgets
<1> QED BY <1>4, <1>10, <1>11, PrivateStep

LEMMA DropUniqueStep ==
  ASSUME IInv, NEW e \in Executor, NEW c \in Cell, Idle(e),
         Pvt!DropUnique(e, c), UNCHANGED <<publicVars, pub, lost>>
  PROVE  IInv'
<1>0. TypeOK /\ Typed BY TypeFacts DEF IInv
<1>t. TableTypeOK /\ PrivateTyped BY <1>0, TypeParts DEF TypesApart
<1>1. /\ c \in uniq[e] /\ uniq' = [uniq EXCEPT ![e] = @ \ {c}]
      /\ UNCHANGED <<pvt, fwd, pvtPap, pvtDmn, pvtMem>>
  BY DEF Pvt!DropUnique, Pvt!Unpoint, Pvt!linkVars
<1>2. PICK a \in Address : parent[e][c] = a
  BY <1>0, <1>1 DEF IInv, BlockOK, Typed, TypedTables
<1>3. /\ Keeps(e, a) /\ view[e][a].child = c /\ Open(e, a)
  <2>1. ChildOK(a) BY DEF IInv, AddressOK
  <2> QED BY <2>1, <1>1, <1>2 DEF ChildOK, Open
<1>4. Unmap(e, a)
  <2>1. parent[e][c] # Null BY <1>1 DEF IInv, BlockOK
  <2>2. Pvt!Unmap(e, a) BY <1>2, <2>1 DEF Pvt!DropUnique, Pvt!HasParent
  <2> QED BY <2>2, SameTables
<1>5. TableTypeOK' /\ UnmapsAt(e, a) BY <1>3, <1>4, UnmapEffect
<1>6. /\ uniq' \in [Executor -> SUBSET Cell]
      /\ \A f \in Executor, d \in Cell : d \in uniq'[f] <=> d \in uniq[f] /\ ~(f = e /\ d = c)
  BY <1>1, <1>t, Removed DEF PrivateTyped
<1>7. TypeOK'
  <2>1. PrivateTyped' BY <1>1, <1>6, <1>t DEF PrivateTyped
  <2> QED BY <1>0, <1>5, <2>1, PrivateTypes
<1>8. AddressOK(a) /\ ~Alive(a) BY <1>3 DEF IInv, AddressOK, SoleOK
<1>9. /\ \A f \in Executor : ~Loads(f, a) /\ ~Publishes(f, a) /\ a \notin pvt[f]
      /\ \A m \in pvtPap : m.p # a
  BY <1>8 DEF AddressOK, WaitOK, Alive
<1>10. \A r \in pvtDmn : IsReset(r) /\ r.p = a => r.to # e
  BY <1>3, <1>8 DEF AddressOK, ResetOK
<1>11. Forgets(e, a) BY <1>1, <1>3, <1>5, <1>6, <1>9, <1>10 DEF Forgets
<1> QED BY <1>3, <1>7, <1>11, ForgetStep

LEMMA DropAtHomeStep ==
  ASSUME IInv, NEW e \in Executor, NEW a \in Address, Idle(e), Pvt!AmAuthor(e, a),
         Pvt!Drop(e, a), UNCHANGED <<publicVars, pub, lost>>
  PROVE  IInv'
<1>0. TypeOK /\ Typed BY TypeFacts DEF IInv
<1>t. TableTypeOK /\ PrivateTyped BY <1>0, TypeParts DEF TypesApart
<1>1. /\ a \in pvt[e] /\ pvt' = [pvt EXCEPT ![e] = @ \ {a}]
      /\ UNCHANGED <<uniq, fwd, pvtPap, pvtDmn, pvtMem>>
      /\ Unmap(e, a)
  BY SameTables DEF Pvt!Drop, Pvt!Release
<1>2. AddressOK(a) BY DEF IInv
<1>3. Keeps(e, a) /\ Alive(a)
  <2>1. view[e][a].author = e BY DEF Pvt!AmAuthor
  <2> QED BY <1>1, <1>2, <2>1 DEF AddressOK, HandleOK, Source, Alive
<1>4. TableTypeOK' /\ UnmapsAt(e, a) BY <1>1, <1>3, UnmapEffect
<1>5. /\ pvt' \in [Executor -> SUBSET Address]
      /\ \A f \in Executor, b \in Address : b \in pvt'[f] <=> b \in pvt[f] /\ ~(f = e /\ b = a)
  BY <1>1, <1>t, Removed DEF PrivateTyped
<1>6. TypeOK'
  <2>1. PrivateTyped' BY <1>1, <1>5, <1>t DEF PrivateTyped
  <2> QED BY <1>0, <1>4, <2>1, PrivateTypes
<1>7. /\ \A f \in Executor : a \in pvt[f] => f = e
      /\ \A m \in pvtPap : m.p # a
      /\ \A f \in Executor : ~Open(f, a)
      /\ \A r \in pvtDmn : ~(IsReset(r) /\ r.p = a)
  BY <1>1, <1>2, <1>3 DEF AddressOK, SoleOK, ResetOK
<1>8. \A f \in Executor : ~Loads(f, a) /\ ~Publishes(f, a)
  <2>1. ~Loads(e, a) /\ ~Publishes(e, a) BY DEF Idle, Loads, Publishes
  <2> QED BY <1>2, <1>7, <2>1 DEF AddressOK, WaitOK
<1>9. \A f \in Executor, b \in Address : b \in pvt'[f] <=> b \in pvt[f] /\ b # a
  BY <1>5, <1>7
<1>10. view[e][a].child \notin uniq[e]
  <2>1. parent[e][view[e][a].child] = a BY <1>4 DEF UnmapsAt
  <2> QED BY <1>7, <2>1 DEF Open
<1>11. Forgets(e, a) BY <1>1, <1>4, <1>7, <1>8, <1>9, <1>10 DEF Forgets
<1> QED BY <1>3, <1>6, <1>11, ForgetStep

LEMMA DmnResetStep ==
  ASSUME IInv, NEW r \in pvtDmn, Pvt!DmnPvtReset(r), UNCHANGED <<publicVars, pub, lost>>
  PROVE  IInv'
<1>0. TypeOK /\ Typed BY TypeFacts DEF IInv
<1>t. TableTypeOK /\ PrivateTyped BY <1>0, TypeParts DEF TypesApart
<1>1. /\ IsReset(r) /\ pvtDmn' = pvtDmn \ {r}
      /\ UNCHANGED <<pvt, uniq, fwd, pvtPap, pvtMem>>
      /\ r.to \in Executor /\ r.p \in Address
  BY <1>0 DEF Pvt!DmnPvtReset, IsReset, Pvt!userVars, Typed, TypedPrivate
<1>2. PICK e \in Executor, a \in Address : e = r.to /\ a = r.p BY <1>1
<1>3. AddressOK(a) BY DEF IInv
<1>4. Keeps(e, a) /\ ~Alive(a) /\ ~Open(e, a)
  BY <1>1, <1>2, <1>3 DEF AddressOK, ResetOK
<1>5. Unmap(e, a) BY <1>2, SameTables DEF Pvt!DmnPvtReset
<1>6. TableTypeOK' /\ UnmapsAt(e, a) BY <1>4, <1>5, UnmapEffect
<1>7. TypeOK'
  <2>1. PrivateTyped' BY <1>1, <1>t DEF PrivateTyped
  <2> QED BY <1>0, <1>6, <2>1, PrivateTypes
<1>8. /\ \A f \in Executor : ~Loads(f, a) /\ ~Publishes(f, a) /\ a \notin pvt[f]
      /\ \A m \in pvtPap : m.p # a
  BY <1>3, <1>4 DEF AddressOK, WaitOK, Alive
<1>9. \A q \in pvtDmn' : ~(IsReset(q) /\ q.p = a)
  BY <1>1, <1>2, <1>3 DEF AddressOK, ResetOK
<1>10. view[e][a].child \notin uniq[e]
  <2>1. parent[e][view[e][a].child] = a BY <1>6 DEF UnmapsAt
  <2> QED BY <1>4, <2>1 DEF Open
<1>11. Forgets(e, a) BY <1>1, <1>2, <1>6, <1>8, <1>9, <1>10 DEF Forgets
<1> QED BY <1>4, <1>7, <1>11, ForgetStep

(* The memory of private addresses stays as it is. *)
LEMMA SameMemory ==
  ASSUME UNCHANGED <<view, parent>>
  PROVE  /\ \A f, b : Private(f, b)' <=> Private(f, b)
         /\ \A f, b : Public(f, b)' <=> Public(f, b)
         /\ \A f, b : Keeps(f, b)' <=> Keeps(f, b)
         /\ \A y, b : Source(y, b)' <=> Source(y, b)
<1>1. \A f, b : Private(f, b)' <=> Private(f, b) BY DEF Private, Mapped
<1>2. \A f, b : Public(f, b)' <=> Public(f, b) BY DEF Public, Mapped
<1>3. \A f, b : Keeps(f, b)' <=> Keeps(f, b) BY <1>1 DEF Keeps
<1> QED BY <1>1, <1>2, <1>3 DEF Source

LEMMA DmnRloadStep ==
  ASSUME IInv, NEW r \in pvtDmn, Pvt!DmnRload(r), UNCHANGED <<publicVars, pub, lost>>
  PROVE  IInv'
<1>0. TypeOK /\ Typed BY TypeFacts DEF IInv
<1>t. TableTypeOK /\ PrivateTyped BY <1>0, TypeParts DEF TypesApart
<1>1. /\ ~IsReset(r) /\ pvtDmn' = pvtDmn \ {r}
      /\ pvtMem' = pvtMem \cup {[from |-> r.to, to |-> r.from,
                                 value |-> heap[r.to][view[r.to][r.p].committed]]}
      /\ UNCHANGED <<issued, view, parent, heap, pvt, uniq, fwd, pvtPap>>
  BY DEF Pvt!DmnRload, IsReset, Pvt!userVars, Pvt!tableVars
<1>2. PICK f \in Executor, e \in Executor, a \in Address :
        f = r.from /\ e = r.to /\ a = r.p
  BY <1>0 DEF Typed, TypedPrivate
<1>3. Fetches(f, e, a) /\ FetchOK(f) /\ OneCall(f) /\ AddressOK(a)
  BY <1>1, <1>2 DEF IInv, FetchOK
<1>4. a \in pvt[f] /\ Keeps(e, a)
  <2>1. a \in pvt[f] /\ e = view[f][a].author
    BY <1>3 DEF Fetches, Loads, Publishes, AddressOK, WaitOK
  <2> QED BY <2>1, <1>3 DEF AddressOK, HandleOK, Source
<1>5. heap[e][view[e][a].committed] \in Value
  <2>1. view[e][a].committed \in Cell /\ parent[e][view[e][a].committed] = a
    BY <1>0, <1>3, <1>4 DEF AddressOK, EntryOK, ChildOK, Keeps, Private, Typed, TypedTables
  <2> QED BY <2>1, <1>0, <1>3 DEF AddressOK, ChildOK, Typed, TypedTables
<1>6. TypeOK'
  <2>1. pvtMem' \subseteq Pvt!Answer
    BY <1>1, <1>2, <1>5, <1>t DEF PrivateTyped, Pvt!Answer
  <2>2. PrivateTyped' BY <2>1, <1>1, <1>t DEF PrivateTyped
  <2>3. TableTypeOK' BY <1>1, <1>t DEF TableTypeOK
  <2> QED BY <1>0, <2>2, <2>3, PrivateTypes
<1>7. ~Public(f, a) /\ ~Public(f, a)'
  BY <1>1, <1>3, <1>4, SameMemory DEF AddressOK, HandleOK, Private, Public
<1>8. PrivateFrame(f, a)
  <2>1. \A g \in Executor, c \in Cell : c \in uniq'[g] => parent'[g][c] # Null
    BY <1>1 DEF IInv, BlockOK
  <2>2. \A s \in pvtMem' : s.to # f => s \in pvtMem BY <1>1, <1>2
  <2> QED BY <1>1, <1>2, <1>7, <2>1, <2>2 DEF PrivateFrame
<1>9. AddressOK(a)'
  <2>1. /\ \A g \in Executor : /\ Private(g, a)' <=> Private(g, a)
                               /\ Keeps(g, a)' <=> Keeps(g, a)
                               /\ Source(g, a)' <=> Source(g, a)
                               /\ Open(g, a)' <=> Open(g, a)
                               /\ Loads(g, a)' <=> Loads(g, a)
                               /\ Publishes(g, a)' <=> Publishes(g, a)
                               /\ PublishesAs(g, a)' <=> PublishesAs(g, a)
        /\ Alive(a)' <=> Alive(a)
    BY <1>1, SameMemory DEF Open, Loads, Publishes, PublishesAs, Alive
  <2>2. UNCHANGED <<rc, pub>> BY DEF publicVars
  <2>3. KnownPrivate(a)' => KnownPrivate(a) BY <1>1, <2>1 DEF KnownPrivate
  <2>4. LevelOK(a)' BY <1>1, <1>3, <2>1, <2>2, <2>3 DEF AddressOK, LevelOK, IsPublic, InPublish
  <2>5. HandleOK(a)'
    <3>1. /\ \A g \in Executor : a \in pvt[g] => view[g][a].author \in Executor
          /\ \A m \in pvtPap : m.author \in Executor
      BY <1>0, <1>3 DEF AddressOK, HandleOK, Private, Typed, TypedTables, TypedPrivate
    <3> QED BY <1>1, <1>3, <2>1, <3>1 DEF AddressOK, HandleOK
  <2>6. WaitOK(a)' /\ SoleOK(a)'
    BY <1>1, <1>3, <2>1, <2>2 DEF AddressOK, WaitOK, SoleOK
  <2>7. ResetOK(a)'
    <3>1. \A q \in pvtDmn : q.to \in Executor BY <1>0 DEF Typed, TypedPrivate
    <3> QED BY <1>1, <1>3, <2>1, <3>1 DEF AddressOK, ResetOK
  <2>8. EntryOK(a)' /\ ChildOK(a)'
    BY <1>1, <1>3, <2>1 DEF AddressOK, EntryOK, ChildOK
  <2> QED BY <2>4, <2>5, <2>6, <2>7, <2>8 DEF AddressOK
<1>10. OneCall(f)' /\ FetchOK(f)'
  <2>1. UNCHANGED <<fwd, pub, busy>> BY <1>1 DEF publicVars
  <2>2. OneCall(f)' BY <1>3, <2>1 DEF OneCall
  <2>3. \A t, b : Fetches(f, t, b)' <=> Fetches(f, t, b)
    BY <2>1 DEF Fetches, Loads, Publishes
  <2>4. /\ \A q \in pvtDmn' : q.from = f => IsReset(q)
        /\ \A s \in pvtMem : s.to # f
    BY <1>1, <1>2, <1>3 DEF FetchOK
  <2> DEFINE x == [from |-> e, to |-> f, value |-> heap[e][view[e][a].committed]]
  <2>5. \A s \in pvtMem' : s.to = f => s = x BY <1>1, <1>2, <2>4
  <2>6. x.from = e OBVIOUS
  <2>7. \A s \in pvtMem' : s.to = f => \E b \in Address : Fetches(f, s.from, b)'
    BY <1>3, <2>3, <2>5, <2>6
  <2> QED BY <2>2, <2>4, <2>5, <2>7 DEF FetchOK
<1> QED BY <1>6, <1>8, <1>9, <1>10, PrivateStep

LEMMA DropAwayStep ==
  ASSUME IInv, NEW e \in Executor, NEW a \in Address, Idle(e), ~Pvt!AmAuthor(e, a),
         Pvt!Drop(e, a), UNCHANGED <<publicVars, pub, lost>>
  PROVE  IInv'
<1>0. TypeOK /\ Typed BY TypeFacts DEF IInv
<1>t. TableTypeOK /\ PrivateTyped BY <1>0, TypeParts DEF TypesApart
<1>p. PICK y : y = view[e][a].author OBVIOUS
<1> DEFINE q == [op |-> "PVT_RESET", from |-> e, to |-> y, p |-> a]
<1>1. /\ a \in pvt[e] /\ pvt' = [pvt EXCEPT ![e] = @ \ {a}]
      /\ pvtDmn' = pvtDmn \cup {q}
      /\ UNCHANGED <<issued, view, parent, heap, uniq, fwd, pvtPap, pvtMem>>
      /\ Mapped(e, a)
  BY <1>p, SameTables DEF Pvt!Drop, Pvt!Release, Pvt!RequestTo, Pvt!tableVars
<1>2. AddressOK(a) /\ Alive(a) BY <1>1 DEF IInv, Alive
<1>3. Source(y, a) /\ y \in Executor /\ y # e /\ Private(e, a) /\ IsReset(q)
  BY <1>p, <1>0, <1>1, <1>2, SameTables
  DEF AddressOK, HandleOK, Typed, TypedTables, Pvt!AmAuthor, Private, IsReset
<1>4. /\ \A f \in Executor : a \in pvt[f] => f = e
      /\ \A m \in pvtPap : m.p # a
      /\ \A f \in Executor : ~Open(f, a)
      /\ \A r \in pvtDmn : ~(IsReset(r) /\ r.p = a)
  BY <1>1, <1>2 DEF AddressOK, SoleOK, ResetOK
<1>5. /\ pvt' \in [Executor -> SUBSET Address]
      /\ \A f \in Executor, b \in Address : b \in pvt'[f] <=> b \in pvt[f] /\ ~(f = e /\ b = a)
  BY <1>1, <1>t, Removed DEF PrivateTyped
<1>6. TypeOK'
  <2>1. pvtDmn' \subseteq Pvt!Request BY <1>1, <1>3, <1>t DEF PrivateTyped, Pvt!Request
  <2>2. PrivateTyped' BY <2>1, <1>1, <1>5, <1>t DEF PrivateTyped
  <2>3. TableTypeOK' BY <1>1, <1>t DEF TableTypeOK
  <2> QED BY <1>0, <2>2, <2>3, PrivateTypes
<1>7. PrivateFrame(e, a)
  <2>1. \A g \in Executor, c \in Cell : c \in uniq'[g] => parent'[g][c] # Null
    BY <1>1 DEF IInv, BlockOK
  <2>2. ~Public(e, a) /\ ~Public(e, a)'
    BY <1>1, <1>3, SameMemory DEF Private, Public
  <2> QED BY <1>1, <1>5, <2>1, <2>2 DEF PrivateFrame
<1>8. AddressOK(a)'
  <2>1. \A f \in Executor : /\ Private(f, a)' <=> Private(f, a)
                            /\ Keeps(f, a)' <=> Keeps(f, a)
                            /\ ~Open(f, a)'
                            /\ ~Loads(f, a) /\ ~Loads(f, a)' /\ ~Publishes(f, a)'
                            /\ PublishesAs(f, a)' <=> PublishesAs(f, a)
    <3>1. ~Loads(e, a) /\ ~Publishes(e, a) BY DEF Idle, Loads, Publishes
    <3>2. \A f \in Executor : ~Loads(f, a) /\ ~Publishes(f, a)
      BY <3>1, <1>2, <1>4 DEF AddressOK, WaitOK
    <3> QED BY <1>1, <1>4, <3>2, SameMemory DEF Open, Loads, Publishes, PublishesAs
  <2>2. ~Alive(a)' BY <1>1, <1>4, <1>5 DEF Alive
  <2>3. LevelOK(a)'
    <3>1. KnownPrivate(a) /\ UNCHANGED <<rc, pub>>
      BY <1>1 DEF KnownPrivate, publicVars
    <3> QED BY <1>1, <1>2, <2>1, <3>1 DEF AddressOK, LevelOK, IsPublic, InPublish
  <2>4. HandleOK(a)' /\ WaitOK(a)' BY <2>1, <2>2 DEF Alive, HandleOK, WaitOK
  <2>5. SoleOK(a)' BY <2>1, <2>2 DEF SoleOK, Alive
  <2>6. ResetOK(a)'
    <3>1. Keeps(y, a)' BY <1>3, <2>1 DEF Source
    <3>2. \A r \in pvtDmn' : IsReset(r) /\ r.p = a => r = q BY <1>1, <1>4
    <3> QED BY <1>3, <2>1, <2>2, <3>1, <3>2 DEF ResetOK
  <2>7. EntryOK(a)' /\ ChildOK(a)'
    BY <1>1, <1>2, <2>1 DEF AddressOK, EntryOK, ChildOK
  <2> QED BY <2>3, <2>4, <2>5, <2>6, <2>7 DEF AddressOK
<1>9. OneCall(e)' /\ FetchOK(e)'
  <2>1. /\ UNCHANGED <<pub, busy, fwd>>
        /\ \A r \in pvtDmn' : r.from = e /\ ~IsReset(r) => r \in pvtDmn
    BY <1>1, <1>3 DEF publicVars
  <2> QED BY <1>1, <2>1, FetchKept DEF IInv
<1> QED BY <1>6, <1>7, <1>8, <1>9, PrivateStep

LEMMA LocalAtHomeStep ==
  ASSUME IInv, NEW e \in Executor, NEW a \in Address, Idle(e),
         Pvt!LocalAtHome(e, a), UNCHANGED <<publicVars, pub, lost>>
  PROVE  IInv'
<1>0. TypeOK /\ Typed BY TypeFacts DEF IInv
<1>t. TableTypeOK /\ PrivateTyped BY <1>0, TypeParts DEF TypesApart
<1>p. PICK k : k = view[e][a].committed OBVIOUS
<1>1. /\ a \in pvt[e] /\ pvt' = [pvt EXCEPT ![e] = @ \ {a}]
      /\ uniq' = [uniq EXCEPT ![e] = @ \cup {k}]
      /\ UNCHANGED <<issued, view, parent, heap, fwd, pvtPap, pvtDmn, pvtMem>>
      /\ view[e][a].author = e /\ view[e][a].owner = e
  BY <1>p DEF Pvt!LocalAtHome, Pvt!Release, Pvt!Point, Pvt!tableVars, Pvt!linkVars,
              Pvt!AmAuthor, Pvt!AmOwner
<1>2. AddressOK(a) /\ Alive(a) BY <1>1 DEF IInv, Alive
<1>3. /\ Private(e, a) /\ Keeps(e, a)
      /\ k \in Cell /\ view[e][a].child = k /\ parent[e][k] = a
  <2>1. Private(e, a) /\ Keeps(e, a) BY <1>1, <1>2 DEF AddressOK, HandleOK, Source
  <2>2. k \in Cell BY <1>0, <1>p, <2>1 DEF Typed, TypedTables, Keeps, Private
  <2> QED BY <1>p, <1>1, <1>2, <2>1, <2>2 DEF AddressOK, EntryOK, ChildOK, Keeps
<1>4. /\ \A f \in Executor : a \in pvt[f] => f = e
      /\ \A m \in pvtPap : m.p # a
      /\ \A f \in Executor : ~Open(f, a)
      /\ \A r \in pvtDmn : ~(IsReset(r) /\ r.p = a)
  BY <1>1, <1>2 DEF AddressOK, SoleOK, ResetOK
<1>5. /\ pvt' \in [Executor -> SUBSET Address]
      /\ \A f \in Executor, b \in Address : b \in pvt'[f] <=> b \in pvt[f] /\ ~(f = e /\ b = a)
  BY <1>1, <1>t, Removed DEF PrivateTyped
<1>6. /\ uniq' \in [Executor -> SUBSET Cell]
      /\ \A f \in Executor, c \in Cell : c \in uniq'[f] <=> c \in uniq[f] \/ (f = e /\ c = k)
  BY <1>1, <1>3, <1>t, Added DEF PrivateTyped
<1>7. TypeOK'
  <2>1. PrivateTyped' BY <1>1, <1>5, <1>6, <1>t DEF PrivateTyped
  <2>2. TableTypeOK' BY <1>1, <1>t DEF TableTypeOK
  <2> QED BY <1>0, <2>1, <2>2, PrivateTypes
<1>8. PrivateFrame(e, a)
  <2>1. \A g \in Executor, c \in Cell : c \in uniq[g] => parent[g][c] # Null
    BY DEF IInv, BlockOK
  <2>2. \A g \in Executor, c \in Cell : c \in uniq'[g] => parent'[g][c] # Null
    BY <2>1, <1>1, <1>3, <1>6, ViewAssumption
  <2>3. ~Public(e, a) /\ ~Public(e, a)'
    BY <1>1, <1>3, SameMemory DEF Private, Public
  <2> QED BY <1>1, <1>3, <1>5, <1>6, <2>2, <2>3 DEF PrivateFrame
<1>9. AddressOK(a)'
  <2>1. \A f \in Executor : /\ Private(f, a)' <=> Private(f, a)
                            /\ Keeps(f, a)' <=> Keeps(f, a)
                            /\ ~Loads(f, a) /\ ~Loads(f, a)' /\ ~Publishes(f, a)'
                            /\ PublishesAs(f, a)' <=> PublishesAs(f, a)
    <3>1. ~Loads(e, a) /\ ~Publishes(e, a) BY DEF Idle, Loads, Publishes
    <3>2. \A f \in Executor : ~Loads(f, a) /\ ~Publishes(f, a)
      BY <3>1, <1>2, <1>4 DEF AddressOK, WaitOK
    <3> QED BY <1>1, <3>2, SameMemory DEF Loads, Publishes, PublishesAs
  <2>2. ~Alive(a)' BY <1>1, <1>4, <1>5 DEF Alive
  <2>3. \A f \in Executor : Open(f, a)' => f = e
    <3>1. \A f \in Executor : uniq[f] \subseteq Cell /\ uniq'[f] \subseteq Cell
      BY <1>6, <1>t DEF PrivateTyped
    <3> QED BY <1>1, <1>4, <1>6, <3>1 DEF Open
  <2>4. LevelOK(a)'
    <3>1. KnownPrivate(a) /\ UNCHANGED <<rc, pub>>
      BY <1>1 DEF KnownPrivate, publicVars
    <3> QED BY <1>1, <1>2, <2>1, <3>1 DEF AddressOK, LevelOK, IsPublic, InPublish
  <2>5. HandleOK(a)' /\ WaitOK(a)' BY <2>1, <2>2 DEF Alive, HandleOK, WaitOK
  <2>6. SoleOK(a)' BY <2>2, <2>3 DEF SoleOK, Alive
  <2>7. ResetOK(a)' BY <1>1, <1>4 DEF ResetOK
  <2>8. EntryOK(a)' BY <1>1, <1>2, <2>1 DEF AddressOK, EntryOK
  <2>9. ChildOK(a)'
    BY <1>1, <1>2, <1>3, <1>6, <2>1 DEF AddressOK, ChildOK
  <2> QED BY <2>4, <2>5, <2>6, <2>7, <2>8, <2>9 DEF AddressOK
<1>10. OneCall(e)' /\ FetchOK(e)'
  <2>1. UNCHANGED <<pub, busy, fwd>> BY <1>1 DEF publicVars
  <2> QED BY <1>1, <2>1, FetchKept DEF IInv
<1> QED BY <1>7, <1>8, <1>9, <1>10, PrivateStep

LEMMA PushStep ==
  ASSUME IInv, NEW e \in Executor, NEW a \in Address, NEW t \in Executor, Idle(e),
         Pvt!Push(e, a, t), UNCHANGED <<publicVars, pub, lost>>
  PROVE  IInv'
<1>0. TypeOK /\ Typed /\ Null \notin Entry
  BY TypeFacts, ViewAssumption DEF IInv
<1>t. TableTypeOK /\ PrivateTyped BY <1>0, TypeParts DEF TypesApart
<1>p. PICK y, x : y = view[e][a].author /\ x = [view[e][a] EXCEPT !.owner = t] OBVIOUS
<1> DEFINE m == [from |-> e, to |-> t, p |-> a, author |-> y]
<1>1. /\ a \in pvt[e] /\ pvt' = [pvt EXCEPT ![e] = @ \ {a}]
      /\ view' = [view EXCEPT ![e][a] = x]
      /\ pvtPap' = pvtPap \cup {m}
      /\ UNCHANGED <<issued, parent, heap, uniq, fwd, pvtDmn, pvtMem>>
  BY <1>p DEF Pvt!Push, Pvt!Release, Pvt!BindOwner
<1>2. AddressOK(a) /\ Alive(a) BY <1>1 DEF IInv, Alive
<1>3. Source(y, a) /\ y \in Executor /\ Private(e, a)
  BY <1>p, <1>0, <1>1, <1>2 DEF AddressOK, HandleOK, Typed, TypedTables, Private
<1>4. /\ \A f \in Executor : a \in pvt[f] => f = e
      /\ \A n \in pvtPap : n.p # a
      /\ \A f \in Executor : ~Open(f, a)
      /\ \A r \in pvtDmn : ~(IsReset(r) /\ r.p = a)
  BY <1>1, <1>2 DEF AddressOK, SoleOK, ResetOK
<1>5. /\ pvt' \in [Executor -> SUBSET Address]
      /\ \A f \in Executor, b \in Address : b \in pvt'[f] <=> b \in pvt[f] /\ ~(f = e /\ b = a)
  BY <1>1, <1>t, Removed DEF PrivateTyped
<1>6. /\ x \in Entry /\ x.committed = view[e][a].committed /\ x.child = view[e][a].child
      /\ x.author = view[e][a].author /\ x.access_level = view[e][a].access_level
  <2>1. view[e][a] \in Entry BY <1>0, <1>3 DEF Typed, TypedTables, Private
  <2> QED BY <1>p, <2>1 DEF Entry
<1>7. /\ view' \in [Executor -> [Address -> Entry \cup {Null}]]
      /\ view'[e][a] = x
      /\ \A f \in Executor, b \in Address : f # e \/ b # a => view'[f][b] = view[f][b]
  BY <1>1, <1>6, <1>t, Written DEF TableTypeOK
<1>8. TypeOK'
  <2>1. pvtPap' \subseteq Pvt!Capability BY <1>1, <1>3, <1>t DEF PrivateTyped, Pvt!Capability
  <2>2. PrivateTyped' BY <2>1, <1>1, <1>5, <1>t DEF PrivateTyped
  <2>3. TableTypeOK' BY <1>1, <1>7, <1>t DEF TableTypeOK
  <2> QED BY <1>0, <2>2, <2>3, PrivateTypes
<1>9. \A f \in Executor : /\ Private(f, a)' <=> Private(f, a)
                          /\ Keeps(f, a)' <=> Keeps(f, a)
                          /\ Mapped(f, a) =>
                               /\ view'[f][a].committed = view[f][a].committed
                               /\ view'[f][a].child = view[f][a].child
                               /\ view'[f][a].author = view[f][a].author
  <2>1. Mapped(e, a) /\ Mapped(e, a)' BY <1>0, <1>3, <1>6, <1>7 DEF Private, Mapped
  <2>2. ASSUME NEW f \in Executor
        PROVE  /\ Mapped(f, a)' <=> Mapped(f, a)
               /\ Mapped(f, a) =>
                    /\ view'[f][a].committed = view[f][a].committed
                    /\ view'[f][a].child = view[f][a].child
                    /\ view'[f][a].author = view[f][a].author
                    /\ view'[f][a].access_level = view[f][a].access_level
    <3>1. CASE f = e BY <3>1, <2>1, <1>6, <1>7
    <3>2. CASE f # e BY <3>2, <1>7 DEF Mapped
    <3> QED BY <3>1, <3>2
  <2>3. \A f \in Executor : Private(f, a)' <=> Private(f, a) BY <2>2 DEF Private
  <2>4. \A f \in Executor : Keeps(f, a)' <=> Keeps(f, a)
    BY <2>2, <2>3 DEF Keeps, Private
  <2> QED BY <2>2, <2>3, <2>4
<1>10. PrivateFrame(e, a)
  <2>1. \A g \in Executor, c \in Cell : c \in uniq'[g] => parent'[g][c] # Null
    BY <1>1 DEF IInv, BlockOK
  <2>2. ~Public(e, a) /\ ~Public(e, a)'
    BY <1>3, <1>9 DEF Private, Public
  <2>3. \A n \in pvtPap \cup pvtPap' : n.p # a => n \in pvtPap /\ n \in pvtPap' BY <1>1
  <2> QED BY <1>1, <1>5, <1>7, <2>1, <2>2, <2>3 DEF PrivateFrame
<1>11. AddressOK(a)'
  <2>1. \A f \in Executor : /\ ~Open(f, a)'
                            /\ ~Loads(f, a) /\ ~Loads(f, a)' /\ ~Publishes(f, a)'
                            /\ PublishesAs(f, a)' <=> PublishesAs(f, a)
    <3>1. ~Loads(e, a) /\ ~Publishes(e, a) BY DEF Idle, Loads, Publishes
    <3>2. \A f \in Executor : ~Loads(f, a) /\ ~Publishes(f, a)
      BY <3>1, <1>2, <1>4 DEF AddressOK, WaitOK
    <3> QED BY <1>1, <1>4, <3>2 DEF Open, Loads, Publishes, PublishesAs
  <2>2. \A f \in Executor : a \notin pvt'[f] BY <1>4, <1>5
  <2>3. \A n \in pvtPap' : n.p = a => n = m BY <1>1, <1>4
  <2>4. LevelOK(a)'
    <3>1. KnownPrivate(a) /\ UNCHANGED <<rc, pub>>
      BY <1>1 DEF KnownPrivate, publicVars
    <3> QED BY <1>1, <1>2, <2>1, <3>1 DEF AddressOK, LevelOK, IsPublic, InPublish
  <2>5. HandleOK(a)'
    <3>1. Source(y, a)' BY <1>3, <1>9 DEF Source
    <3> QED BY <2>2, <2>3, <3>1 DEF HandleOK
  <2>6. WaitOK(a)' /\ SoleOK(a)' BY <2>1, <2>2, <2>3 DEF WaitOK, SoleOK
  <2>7. ResetOK(a)' BY <1>1, <1>4 DEF ResetOK
  <2>8. EntryOK(a)' BY <1>1, <1>2, <1>9, <2>1 DEF AddressOK, EntryOK, Private
  <2>9. ChildOK(a)'
    <3>1. \A f \in Executor, c \in Cell : parent'[f][c] = a => c \notin uniq'[f]
      BY <2>1 DEF Open
    <3> QED BY <3>1, <1>1, <1>2, <1>9 DEF AddressOK, ChildOK, Private
  <2> QED BY <2>4, <2>5, <2>6, <2>7, <2>8, <2>9 DEF AddressOK
<1>12. OneCall(e)' /\ FetchOK(e)'
  <2>1. UNCHANGED <<pub, busy, fwd>> BY <1>1 DEF publicVars
  <2> QED BY <1>1, <2>1, FetchKept DEF IInv
<1> QED BY <1>8, <1>10, <1>11, <1>12, PrivateStep

LEMMA PullStep ==
  ASSUME IInv, NEW e \in Executor, NEW m \in pvtPap, Idle(e),
         Pvt!Pull(e, m), UNCHANGED <<publicVars, pub, lost>>
  PROVE  IInv'
<1>0. TypeOK /\ Typed /\ Null \notin Entry
  BY TypeFacts, ViewAssumption DEF IInv
<1>t. TableTypeOK /\ PrivateTyped BY <1>0, TypeParts DEF TypesApart
<1>p. PICK a \in Address, y \in Executor, x \in {Pvt!PulledEntry(e, m)} :
        a = m.p /\ y = m.author /\ x = Pvt!PulledEntry(e, m)
  BY <1>0 DEF Typed, TypedPrivate
<1>1. /\ pvt' = [pvt EXCEPT ![e] = @ \cup {a}]
      /\ view' = [view EXCEPT ![e][a] = x]
      /\ pvtPap' = pvtPap \ {m}
      /\ UNCHANGED <<issued, parent, heap, uniq, fwd, pvtDmn, pvtMem>>
  BY <1>p DEF Pvt!Pull, Pvt!Hold
<1>2. AddressOK(a) /\ Alive(a) /\ KnownPrivate(a)
  BY <1>p DEF IInv, Alive, KnownPrivate
<1>3. Source(y, a) BY <1>p, <1>2 DEF AddressOK, HandleOK
<1>4. /\ \A f \in Executor : a \notin pvt[f]
      /\ \A n \in pvtPap : n.p = a => n = m
      /\ \A f \in Executor : ~Open(f, a)
      /\ \A r \in pvtDmn : ~(IsReset(r) /\ r.p = a)
  BY <1>p, <1>2 DEF AddressOK, SoleOK, ResetOK
<1>5. /\ pvt' \in [Executor -> SUBSET Address]
      /\ \A f \in Executor, b \in Address : b \in pvt'[f] <=> b \in pvt[f] \/ (f = e /\ b = a)
  BY <1>1, <1>t, Added DEF PrivateTyped
<1>6. \A f \in Executor : ~Loads(f, a) /\ ~Publishes(f, a)
  BY <1>2, <1>4 DEF AddressOK, WaitOK
<1>7. Mapped(e, a) => Private(e, a)
  <2>1. ~IsPublic(a) BY <1>2 DEF AddressOK, LevelOK
  <2>2. HomeOK(a) BY DEF IInv
  <2>3. Mapped(e, a) => view[e][a].author \in Executor /\ view[e][a].access_level \in AccessLevel
    BY <1>0 DEF Typed, TypedTables
  <2>4. ~Public(e, a) BY <2>1, <2>2, <2>3 DEF HomeOK, IsPublic, Public
  <2> QED BY <2>3, <2>4 DEF Public, Private, AccessLevel
<1>8. /\ x \in Entry /\ x.owner = e /\ x.author = y /\ x.access_level = "private"
      /\ y = e => /\ Keeps(e, a)
                  /\ x.committed = view[e][a].committed /\ x.child = view[e][a].child
      /\ y # e => ~Keeps(e, a) /\ x.committed = Null /\ x.child = Null
  <2>1. CASE y = e
    <3>1. Keeps(e, a) BY <2>1, <1>3 DEF Source
    <3>2. x = [view[e][a] EXCEPT !.owner = e]
      BY <2>1, <3>1, <1>p, SameTables DEF Pvt!PulledEntry, Pvt!BindOwner, Keeps, Private
    <3>3. /\ view[e][a] \in Entry /\ view[e][a].author = e
          /\ view[e][a].access_level = "private"
      BY <3>1, <1>0 DEF Keeps, Private, Typed, TypedTables
    <3> QED BY <2>1, <3>1, <3>2, <3>3 DEF Entry
  <2>2. CASE y # e
    <3>1. ~Keeps(e, a) BY <2>2, <1>3 DEF Source
    <3>2. Mapped(e, a) => view[e][a].child = Null
      BY <3>1, <1>2, <1>6, <1>7 DEF AddressOK, EntryOK, Keeps
    <3>3. x = [committed |-> Null, owner |-> e, author |-> y, child |-> Null,
               access_level |-> "private"]
      <4>1. x = [committed |-> Null, owner |-> e, author |-> y,
                 child |-> IF Mapped(e, a) THEN view[e][a].child ELSE Null,
                 access_level |-> "private"]
        BY <2>2, <1>p, SameTables DEF Pvt!PulledEntry
      <4>2. (IF Mapped(e, a) THEN view[e][a].child ELSE Null) = Null BY <3>2
      <4> QED BY <4>1, <4>2
    <3> QED BY <2>2, <3>1, <3>3 DEF Entry, AccessLevel
  <2> QED BY <2>1, <2>2
<1>9. /\ view' \in [Executor -> [Address -> Entry \cup {Null}]]
      /\ view'[e][a] = x
      /\ \A f \in Executor, b \in Address : f # e \/ b # a => view'[f][b] = view[f][b]
  BY <1>1, <1>8, <1>t, Written DEF TableTypeOK
<1>10. TypeOK'
  <2>1. PrivateTyped' BY <1>1, <1>5, <1>t DEF PrivateTyped
  <2>2. TableTypeOK' BY <1>1, <1>9, <1>t DEF TableTypeOK
  <2> QED BY <1>0, <2>1, <2>2, PrivateTypes
<1>11. /\ Private(e, a)'
       /\ \A f \in Executor : /\ Keeps(f, a)' <=> Keeps(f, a)
                              /\ f # e => (Private(f, a)' <=> Private(f, a))
                              /\ f # e => view'[f][a] = view[f][a]
  <2>1. Private(e, a)' BY <1>0, <1>8, <1>9 DEF Private, Mapped
  <2>2. Keeps(e, a)' <=> Keeps(e, a)
    <3>1. CASE y = e BY <2>1, <3>1, <1>8, <1>9 DEF Keeps
    <3>2. CASE y # e BY <2>1, <3>2, <1>8, <1>9 DEF Keeps
    <3> QED BY <3>1, <3>2
  <2> QED BY <2>1, <2>2, <1>9 DEF Private, Keeps, Mapped
<1>12. PrivateFrame(e, a)
  <2>1. \A g \in Executor, c \in Cell : c \in uniq'[g] => parent'[g][c] # Null
    BY <1>1 DEF IInv, BlockOK
  <2>2. ~Public(e, a) /\ ~Public(e, a)'
    BY <1>7, <1>11 DEF Private, Public
  <2>3. \A n \in pvtPap \cup pvtPap' : n.p # a => n \in pvtPap /\ n \in pvtPap'
    BY <1>1, <1>p
  <2> QED BY <1>1, <1>5, <1>9, <2>1, <2>2, <2>3 DEF PrivateFrame
<1>13. AddressOK(a)'
  <2>1. \A f \in Executor : /\ ~Open(f, a)' /\ ~Loads(f, a)' /\ ~Publishes(f, a)'
                            /\ PublishesAs(f, a)' <=> PublishesAs(f, a)
    BY <1>1, <1>4, <1>6 DEF Open, Loads, Publishes, PublishesAs
  <2>2. \A f \in Executor : a \in pvt'[f] <=> f = e BY <1>4, <1>5
  <2>3. \A n \in pvtPap' : n.p # a BY <1>1, <1>4
  <2>4. LevelOK(a)'
    <3>1. UNCHANGED <<rc, pub>> BY DEF publicVars
    <3> QED BY <1>1, <1>2, <2>1, <3>1 DEF AddressOK, LevelOK, IsPublic, InPublish
  <2>5. HandleOK(a)'
    <3>1. Source(y, a)' BY <1>3, <1>11 DEF Source
    <3> QED BY <2>2, <2>3, <3>1, <1>8, <1>9, <1>11 DEF HandleOK
  <2>6. WaitOK(a)' /\ SoleOK(a)' BY <2>1, <2>2, <2>3 DEF WaitOK, SoleOK
  <2>7. ResetOK(a)' BY <1>1, <1>4 DEF ResetOK
  <2>8. EntryOK(a)'
    <3>1. EntryOK(a) BY <1>2 DEF AddressOK
    <3>2. ASSUME NEW f \in Executor, Private(f, a)'
          PROVE  IF view'[f][a].author = f
                 THEN view'[f][a].committed # Null /\ view'[f][a].child = view'[f][a].committed
                 ELSE /\ view'[f][a].committed = Null
                      /\ view'[f][a].child # Null => Loads(f, a)'
      <4>1. CASE f # e BY <3>1, <3>2, <4>1, <1>6, <1>11 DEF EntryOK
      <4>2. CASE f = e /\ y = e BY <3>1, <4>2, <1>8, <1>9 DEF EntryOK, Keeps
      <4>3. CASE f = e /\ y # e BY <4>3, <1>8, <1>9
      <4> QED BY <4>1, <4>2, <4>3
    <3> QED BY <3>2 DEF EntryOK
  <2>9. ChildOK(a)'
    <3>1. \A f \in Executor, c \in Cell : parent'[f][c] = a => c \notin uniq'[f]
      BY <2>1 DEF Open
    <3>2. ChildOK(a) BY <1>2 DEF AddressOK
    <3>3. ASSUME NEW f \in Executor
          PROVE  /\ Private(f, a)' /\ view'[f][a].child # Null =>
                        parent[f][view'[f][a].child] = a
                 /\ \A c \in Cell : parent[f][c] = a =>
                        Private(f, a)' /\ view'[f][a].child = c /\ heap[f][c] # Null
      <4>1. CASE f # e BY <3>2, <4>1, <1>11 DEF ChildOK
      <4>2. CASE f = e /\ y = e BY <3>2, <4>2, <1>8, <1>9, <1>11 DEF ChildOK, Keeps
      <4>3. CASE f = e /\ y # e
        <5>1. \A c \in Cell : parent[e][c] # a
          <6>1. Private(e, a) => view[e][a].child = Null
            BY <4>3, <1>2, <1>6, <1>8 DEF AddressOK, EntryOK, Keeps
          <6> QED BY <6>1, <3>2, ViewAssumption DEF ChildOK
        <5> QED BY <4>3, <5>1, <1>8, <1>9
      <4> QED BY <4>1, <4>2, <4>3
    <3> QED BY <3>1, <3>3, <1>1 DEF ChildOK
  <2> QED BY <2>4, <2>5, <2>6, <2>7, <2>8, <2>9 DEF AddressOK
<1>14. OneCall(e)' /\ FetchOK(e)'
  <2>1. UNCHANGED <<pub, busy, fwd>> BY <1>1 DEF publicVars
  <2> QED BY <1>1, <2>1, FetchKept DEF IInv
<1> QED BY <1>10, <1>12, <1>13, <1>14, PrivateStep

LEMMA LocalRequestStep ==
  ASSUME IInv, NEW e \in Executor, NEW a \in Address, Idle(e),
         Pvt!LocalRequest(e, a), UNCHANGED <<publicVars, pub, lost>>
  PROVE  IInv'
<1>0. TypeOK /\ Typed /\ Null \notin Entry \cup Address \cup Cell \cup Value /\ Default \in Value
  BY TypeFacts, ViewAssumption DEF IInv
<1>t. TableTypeOK /\ PrivateTyped BY <1>0, TypeParts DEF TypesApart
<1>p. PICK y : y = view[e][a].author OBVIOUS
<1>q. PICK c \in Cell :
        /\ heap[e][c] = Null
        /\ heap' = [heap EXCEPT ![e][c] = Default]
        /\ parent' = [parent EXCEPT ![e][c] = a]
        /\ view' = [view EXCEPT ![e][a] = [view[e][a] EXCEPT !.child = c]]
        /\ fwd' = [fwd EXCEPT ![e] = [p |-> a, lp |-> c, to |-> y]]
  BY <1>p DEF Pvt!LocalRequest, Pvt!FreeCells, Pvt!BindChild
<1>r. PICK x, l, q : /\ x = [view[e][a] EXCEPT !.child = c]
                     /\ l = [p |-> a, lp |-> c, to |-> y]
                     /\ q = [op |-> "RLOAD", from |-> e, to |-> y, p |-> a]
  OBVIOUS
<1>1. /\ a \in pvt[e] /\ y # e
      /\ pvtDmn' = pvtDmn \cup {q}
      /\ UNCHANGED <<issued, pvt, uniq, pvtPap, pvtMem>>
      /\ fwd[e] = Null /\ pub[e] = Null /\ busy[e] = Null
  BY <1>p, <1>r DEF Pvt!LocalRequest, Pvt!AmAuthor, Pvt!AmOwner, Pvt!RequestTo, Idle
<1>2. AddressOK(a) /\ Alive(a) BY <1>1 DEF IInv, Alive
<1>3. /\ Source(y, a) /\ y \in Executor /\ Private(e, a) /\ view[e][a] \in Entry
      /\ ~Keeps(e, a) /\ view[e][a].owner = e
  BY <1>p, <1>0, <1>1, <1>2
  DEF AddressOK, HandleOK, Typed, TypedTables, Private, Keeps
<1>4. /\ \A f \in Executor : a \in pvt[f] => f = e
      /\ \A n \in pvtPap : n.p # a
      /\ \A f \in Executor : ~Open(f, a)
      /\ \A r \in pvtDmn : ~(IsReset(r) /\ r.p = a)
  BY <1>1, <1>2 DEF AddressOK, SoleOK, ResetOK
<1>5. /\ x \in Entry /\ x.child = c /\ x.owner = e /\ x.author = y
      /\ x.committed = view[e][a].committed /\ x.access_level = view[e][a].access_level
  BY <1>p, <1>r, <1>3 DEF Entry
<1>6. /\ view' \in [Executor -> [Address -> Entry \cup {Null}]]
      /\ view'[e][a] = x
      /\ \A f \in Executor, b \in Address : f # e \/ b # a => view'[f][b] = view[f][b]
  <2>1. view' = [view EXCEPT ![e][a] = x] BY <1>q, <1>r
  <2> QED BY <2>1, <1>5, <1>t, Written DEF TableTypeOK
<1>7. /\ parent' \in [Executor -> [Cell -> Address \cup {Null}]]
      /\ parent'[e][c] = a
      /\ \A f \in Executor, d \in Cell : f # e \/ d # c => parent'[f][d] = parent[f][d]
  BY <1>q, <1>t, Written DEF TableTypeOK
<1>8. /\ heap' \in [Executor -> [Cell -> Value \cup {Null}]]
      /\ heap'[e][c] = Default
      /\ \A f \in Executor, d \in Cell : f # e \/ d # c => heap'[f][d] = heap[f][d]
  BY <1>0, <1>q, <1>t, Written DEF TableTypeOK
<1>9. /\ fwd' \in [Executor -> Pvt!Load \cup {Null}]
      /\ fwd'[e] = l
      /\ \A f \in Executor : f # e => fwd'[f] = fwd[f]
      /\ l.p = a /\ l.lp = c /\ l.to = y /\ l # Null
  <2>1. l \in Pvt!Load BY <1>r, <1>3 DEF Pvt!Load
  <2>2. Null \notin Pvt!Load BY ContextAssumption
  <2> QED BY <1>q, <1>r, <1>t, <2>1, <2>2, Set DEF PrivateTyped
<1>10. TypeOK'
  <2>1. pvtDmn' \subseteq Pvt!Request BY <1>1, <1>3, <1>r, <1>t DEF PrivateTyped, Pvt!Request
  <2>2. PrivateTyped' BY <2>1, <1>1, <1>9, <1>t DEF PrivateTyped
  <2>3. TableTypeOK' BY <1>1, <1>6, <1>7, <1>8, <1>t DEF TableTypeOK
  <2> QED BY <1>0, <2>2, <2>3, PrivateTypes
<1>11. parent[e][c] = Null /\ c \notin uniq[e] BY <1>q, FreeCell
<1>12. \A f \in Executor : /\ Private(f, a)' <=> Private(f, a)
                           /\ Keeps(f, a)' <=> Keeps(f, a)
                           /\ f # e => view'[f][a] = view[f][a]
  <2>1. Private(e, a)' BY <1>0, <1>3, <1>5, <1>6 DEF Private, Mapped
  <2>2. ~Keeps(e, a)' BY <1>1, <1>5, <1>6 DEF Keeps
  <2> QED BY <2>1, <2>2, <1>3, <1>6 DEF Private, Keeps, Mapped
<1>13. PrivateFrame(e, a)
  <2>1. ~Public(e, a) /\ ~Public(e, a)' BY <1>3, <1>12 DEF Private, Public
  <2>2. \A f \in Executor, d \in Cell :
          /\ parent'[f][d] # parent[f][d] =>
                parent'[f][d] \in {Null, a} /\ parent[f][d] \in {Null, a}
          /\ heap[f][d] # Null => heap'[f][d] # Null
          /\ heap[f][d] # Null /\ parent[f][d] = Null => parent'[f][d] = Null
    BY <1>0, <1>q, <1>7, <1>8, <1>11
  <2>3. \A f \in Executor, d \in Cell : d \in uniq'[f] => parent'[f][d] # Null
    BY <1>1, <1>7, <1>11 DEF IInv, BlockOK
  <2>4. /\ \A r \in pvtDmn \cup pvtDmn' : r.p # a => r \in pvtDmn /\ r \in pvtDmn'
        /\ \A r \in pvtDmn' : r.from # e /\ ~IsReset(r) => r \in pvtDmn
    BY <1>1, <1>r
  <2> QED BY <1>1, <1>6, <1>9, <2>1, <2>2, <2>3, <2>4 DEF PrivateFrame
<1>14. AddressOK(a)'
  <2>1. \A f \in Executor : /\ Loads(f, a)' <=> f = e
                            /\ ~Loads(f, a) /\ ~Publishes(f, a) /\ ~Publishes(f, a)'
                            /\ PublishesAs(f, a)' <=> PublishesAs(f, a)
    <3>1. ~Loads(e, a) /\ ~Publishes(e, a) BY DEF Idle, Loads, Publishes
    <3>2. \A f \in Executor : ~Loads(f, a) /\ ~Publishes(f, a)
      BY <3>1, <1>2, <1>4 DEF AddressOK, WaitOK
    <3> QED BY <1>9, <3>2 DEF Loads, Publishes, PublishesAs
  <2>2. \A f \in Executor : ~Open(f, a)'
    <3>1. \A f \in Executor : uniq[f] \subseteq Cell BY <1>t DEF PrivateTyped
    <3> QED BY <3>1, <1>1, <1>4, <1>7, <1>11 DEF Open
  <2>3. LevelOK(a)'
    <3>1. KnownPrivate(a) /\ UNCHANGED <<rc, pub>>
      BY <1>1 DEF KnownPrivate, publicVars
    <3> QED BY <1>1, <1>2, <2>1, <3>1 DEF AddressOK, LevelOK, IsPublic, InPublish
  <2>4. HandleOK(a)'
    <3>1. Source(y, a)' BY <1>3, <1>12 DEF Source
    <3> QED BY <1>1, <1>3, <1>4, <1>5, <1>6, <1>12, <3>1 DEF HandleOK
  <2>5. WaitOK(a)' BY <1>1, <1>5, <1>6, <1>9, <2>1 DEF WaitOK
  <2>6. SoleOK(a)' BY <1>1, <1>4, <2>2 DEF SoleOK
  <2>7. ResetOK(a)'
    <3>1. ~IsReset(q) BY <1>r DEF IsReset
    <3> QED BY <1>1, <1>4, <3>1 DEF ResetOK
  <2>8. EntryOK(a)'
    <3>1. x.committed = Null BY <1>1, <1>p, <1>2, <1>3, <1>5 DEF AddressOK, EntryOK
    <3> QED BY <1>1, <1>2, <1>5, <1>6, <1>12, <2>1, <3>1 DEF AddressOK, EntryOK
  <2>9. ChildOK(a)'
    <3>1. ChildOK(a) /\ \A d \in Cell : parent[e][d] # a
      <4>1. view[e][a].child = Null
        BY <1>1, <1>p, <1>2, <1>3, <2>1 DEF AddressOK, EntryOK
      <4> QED BY <4>1, <1>0, <1>2 DEF AddressOK, ChildOK
    <3>2. \A f \in Executor, d \in Cell : parent'[f][d] = a => d \notin uniq'[f]
      BY <2>2 DEF Open
    <3>3. ASSUME NEW f \in Executor
          PROVE  /\ Private(f, a)' /\ view'[f][a].child # Null =>
                        parent'[f][view'[f][a].child] = a
                 /\ \A d \in Cell : parent'[f][d] = a =>
                        Private(f, a)' /\ view'[f][a].child = d /\ heap'[f][d] # Null
      <4>1. CASE f # e
        <5>1. Private(f, a) => view[f][a].child \in Cell \cup {Null}
          BY <1>0 DEF Private, Typed, TypedTables
        <5>2. /\ Private(f, a)' <=> Private(f, a)
              /\ view'[f][a] = view[f][a]
              /\ \A d \in Cell : parent'[f][d] = parent[f][d] /\ heap'[f][d] = heap[f][d]
          BY <4>1, <1>7, <1>8, <1>12
        <5> QED BY <3>1, <5>1, <5>2 DEF ChildOK
      <4>2. CASE f = e
        <5>1. Private(e, a)' /\ view'[e][a].child = c BY <1>3, <1>5, <1>6, <1>12
        <5>2. \A d \in Cell : parent'[e][d] = a => d = c BY <3>1, <1>7
        <5>3. heap'[e][c] # Null BY <1>0, <1>8
        <5> QED BY <4>2, <5>1, <5>2, <5>3, <1>7
      <4> QED BY <4>1, <4>2
    <3> QED BY <3>2, <3>3 DEF ChildOK
  <2> QED BY <2>3, <2>4, <2>5, <2>6, <2>7, <2>8, <2>9 DEF AddressOK
<1>15. OneCall(e)' /\ FetchOK(e)'
  <2>1. UNCHANGED <<pub, busy>> BY DEF publicVars
  <2>2. OneCall(e)' BY <1>1, <2>1 DEF OneCall
  <2>3. \A t, b : ~Fetches(e, t, b) BY <1>1 DEF Fetches, Loads, Publishes
  <2>4. /\ \A r \in pvtDmn : r.from = e => IsReset(r)
        /\ \A s \in pvtMem : s.to # e
    BY <2>3 DEF IInv, FetchOK
  <2>5. \A r \in pvtDmn' : r.from = e /\ ~IsReset(r) => r = q BY <1>1, <2>4
  <2>6. Fetches(e, q.to, q.p)' BY <1>9, <1>r DEF Fetches, Loads
  <2> QED BY <1>1, <2>2, <2>4, <2>5, <2>6 DEF FetchOK
<1> QED BY <1>10, <1>13, <1>14, <1>15, PrivateStep

LEMMA LocalAnswerStep ==
  ASSUME IInv, NEW e \in Executor, NEW s \in pvtMem,
         Pvt!LocalAnswer(e, s), UNCHANGED <<publicVars, pub, lost>>
  PROVE  IInv'
<1>0. TypeOK /\ Typed /\ Null \notin Entry \cup Address \cup Cell \cup Value
  BY TypeFacts, ViewAssumption DEF IInv
<1>t. TableTypeOK /\ PrivateTyped BY <1>0, TypeParts DEF TypesApart
<1>p. PICK a \in Address, c \in Cell, y \in Executor :
        fwd[e] # Null /\ a = fwd[e].p /\ c = fwd[e].lp /\ y = fwd[e].to
  BY <1>0 DEF Typed, TypedCalls, Pvt!LocalAnswer, Pvt!Running
<1>r. PICK x, q : /\ x = [view[e][a] EXCEPT !.committed = c, !.author = e]
                  /\ q = [op |-> "PVT_RESET", from |-> e, to |-> y, p |-> a]
  OBVIOUS
<1>2. AddressOK(a) /\ FetchOK(e) /\ OneCall(e) /\ Loads(e, a)
  BY <1>p DEF IInv, Loads
<1>3. /\ a \in pvt[e] /\ y = view[e][a].author /\ y # e /\ view[e][a].child = c
      /\ Source(y, a) /\ Private(e, a) /\ view[e][a] \in Entry
      /\ view[e][a].owner = e /\ Alive(a) /\ parent[e][c] = a /\ heap[e][c] # Null
  <2>1. a \in pvt[e] /\ y = view[e][a].author /\ y # e /\ view[e][a].child = c
    BY <1>p, <1>2 DEF AddressOK, WaitOK
  <2>2. Source(y, a) /\ Private(e, a) /\ view[e][a].owner = e /\ Alive(a)
    BY <2>1, <1>2 DEF AddressOK, HandleOK, Alive
  <2>3. parent[e][c] = a /\ heap[e][c] # Null
    BY <2>1, <2>2, <1>0, <1>2 DEF AddressOK, ChildOK
  <2> QED BY <2>1, <2>2, <2>3, <1>0 DEF Private, Typed, TypedTables
<1>1. /\ s.to = e /\ s.value \in Value
      /\ heap' = [heap EXCEPT ![e][c] = s.value]
      /\ view' = [view EXCEPT ![e][a] = x]
      /\ pvtDmn' = pvtDmn \cup {q}
      /\ uniq' = [uniq EXCEPT ![e] = @ \cup {c}]
      /\ pvt' = [pvt EXCEPT ![e] = @ \ {a}]
      /\ fwd' = [fwd EXCEPT ![e] = Null]
      /\ pvtMem' = pvtMem \ {s}
      /\ UNCHANGED <<issued, parent, pvtPap>>
  <2>1. BindAuthor(BindCommitted(view[e][a], c), e) = x
    BY <1>r, <1>3 DEF BindAuthor, BindCommitted, Entry
  <2>2. Pvt!BindAuthor(Pvt!BindCommitted(view[e][a], c), e) = x
    BY <2>1 DEF Pvt!BindAuthor, Pvt!BindCommitted, BindAuthor, BindCommitted
  <2>3. s.value \in Value BY <1>0 DEF Typed, TypedPrivate
  <2> QED BY <1>p, <1>r, <2>2, <2>3 DEF Pvt!LocalAnswer, Pvt!Point, Pvt!Release
<1>4. /\ \A f \in Executor : a \in pvt[f] => f = e
      /\ \A n \in pvtPap : n.p # a
      /\ \A f \in Executor : ~Open(f, a)
      /\ \A r \in pvtDmn : ~(IsReset(r) /\ r.p = a)
  BY <1>2, <1>3 DEF AddressOK, SoleOK, ResetOK
<1>5. /\ x \in Entry /\ x.child = c /\ x.committed = c /\ x.owner = e /\ x.author = e
      /\ x.access_level = "private"
  <2>1. view[e][a].access_level = "private" BY <1>3 DEF Private
  <2> QED BY <2>1, <1>r, <1>3 DEF Entry
<1>6. /\ view' \in [Executor -> [Address -> Entry \cup {Null}]]
      /\ view'[e][a] = x
      /\ \A f \in Executor, b \in Address : f # e \/ b # a => view'[f][b] = view[f][b]
  BY <1>1, <1>5, <1>t, Written DEF TableTypeOK
<1>7. /\ heap' \in [Executor -> [Cell -> Value \cup {Null}]]
      /\ \A f \in Executor, d \in Cell : heap[f][d] # Null => heap'[f][d] # Null
  <2>1. /\ heap' \in [Executor -> [Cell -> Value \cup {Null}]]
        /\ heap'[e][c] = s.value
        /\ \A f \in Executor, d \in Cell : f # e \/ d # c => heap'[f][d] = heap[f][d]
    BY <1>1, <1>t, Written DEF TableTypeOK
  <2> QED BY <2>1, <1>0, <1>1
<1>8. /\ pvt' \in [Executor -> SUBSET Address]
      /\ \A f \in Executor, b \in Address : b \in pvt'[f] <=> b \in pvt[f] /\ ~(f = e /\ b = a)
  BY <1>1, <1>t, Removed DEF PrivateTyped
<1>9. /\ uniq' \in [Executor -> SUBSET Cell]
      /\ \A f \in Executor, d \in Cell : d \in uniq'[f] <=> d \in uniq[f] \/ (f = e /\ d = c)
  BY <1>1, <1>t, Added DEF PrivateTyped
<1>10. /\ fwd' \in [Executor -> Pvt!Load \cup {Null}]
       /\ fwd'[e] = Null
       /\ \A f \in Executor : f # e => fwd'[f] = fwd[f]
  BY <1>1, <1>t DEF PrivateTyped
<1>11. TypeOK'
  <2>1. pvtDmn' \subseteq Pvt!Request BY <1>1, <1>r, <1>t DEF PrivateTyped, Pvt!Request
  <2>2. PrivateTyped' BY <2>1, <1>1, <1>8, <1>9, <1>10, <1>t DEF PrivateTyped
  <2>3. TableTypeOK' BY <1>1, <1>6, <1>7, <1>t DEF TableTypeOK
  <2> QED BY <1>0, <2>2, <2>3, PrivateTypes
<1>12. /\ Private(e, a)' /\ Keeps(e, a)'
       /\ \A f \in Executor : f # e => /\ Private(f, a)' <=> Private(f, a)
                                       /\ Keeps(f, a)' <=> Keeps(f, a)
                                       /\ view'[f][a] = view[f][a]
  <2>1. Private(e, a)' BY <1>0, <1>5, <1>6 DEF Private, Mapped
  <2>2. Keeps(e, a)' BY <2>1, <1>0, <1>5, <1>6 DEF Keeps
  <2> QED BY <2>1, <2>2, <1>6 DEF Private, Keeps, Mapped
<1>13. PrivateFrame(e, a)
  <2>1. ~Public(e, a) /\ ~Public(e, a)' BY <1>3, <1>12 DEF Private, Public
  <2>2. \A f \in Executor, d \in Cell : d \in uniq[f] => parent[f][d] # Null
    BY DEF IInv, BlockOK
  <2>3. \A f \in Executor, d \in Cell : d \in uniq'[f] => parent'[f][d] # Null
    BY <2>2, <1>0, <1>1, <1>3, <1>9
  <2>4. /\ \A r \in pvtDmn \cup pvtDmn' : r.p # a => r \in pvtDmn /\ r \in pvtDmn'
        /\ \A r \in pvtDmn' : r.from # e /\ ~IsReset(r) => r \in pvtDmn
        /\ \A t \in pvtMem' : t \in pvtMem
    BY <1>1, <1>r
  <2>5. fwd[e].p = a BY <1>p
  <2> QED BY <1>1, <1>3, <1>6, <1>7, <1>8, <1>9, <1>10, <2>1, <2>3, <2>4, <2>5 DEF PrivateFrame
<1>14. AddressOK(a)'
  <2>1. \A f \in Executor : /\ ~Loads(f, a)' /\ ~Publishes(f, a)'
                            /\ f # e => ~Loads(f, a)
                            /\ PublishesAs(f, a)' <=> PublishesAs(f, a)
    <3>1. ~Publishes(e, a) BY <1>p, <1>2 DEF OneCall, Publishes
    <3>2. \A f \in Executor : (f # e => ~Loads(f, a)) /\ ~Publishes(f, a)
      BY <3>1, <1>2, <1>4 DEF AddressOK, WaitOK
    <3> QED BY <1>10, <3>2 DEF Loads, Publishes, PublishesAs
  <2>2. ~Alive(a)' BY <1>1, <1>4, <1>8 DEF Alive
  <2>3. \A f \in Executor : Open(f, a)' => f = e
    <3>1. \A f \in Executor : uniq[f] \subseteq Cell /\ uniq'[f] \subseteq Cell
      BY <1>9, <1>t DEF PrivateTyped
    <3> QED BY <1>1, <1>4, <1>9, <3>1 DEF Open
  <2>4. LevelOK(a)'
    <3>1. KnownPrivate(a) /\ UNCHANGED <<rc, pub>>
      BY <1>3 DEF KnownPrivate, publicVars
    <3> QED BY <1>1, <1>2, <2>1, <3>1 DEF AddressOK, LevelOK, IsPublic, InPublish
  <2>5. HandleOK(a)' /\ WaitOK(a)' BY <2>1, <2>2 DEF Alive, HandleOK, WaitOK
  <2>6. SoleOK(a)' BY <2>2, <2>3 DEF SoleOK, Alive
  <2>7. ResetOK(a)'
    <3>1. Keeps(y, a)' BY <1>3, <1>12 DEF Source
    <3>2. \A r \in pvtDmn' : IsReset(r) /\ r.p = a => r = q BY <1>1, <1>4
    <3>3. q.to = y BY <1>r
    <3> QED BY <1>3, <2>2, <2>3, <3>1, <3>2, <3>3 DEF ResetOK
  <2>8. EntryOK(a)'
    <3>1. EntryOK(a) BY <1>2 DEF AddressOK
    <3>2. \A f \in Executor : f # e /\ Private(f, a)' =>
             IF view'[f][a].author = f
             THEN view'[f][a].committed # Null /\ view'[f][a].child = view'[f][a].committed
             ELSE /\ view'[f][a].committed = Null
                  /\ view'[f][a].child # Null => Loads(f, a)'
      BY <3>1, <1>12, <2>1 DEF EntryOK
    <3> QED BY <3>2, <1>0, <1>5, <1>6 DEF EntryOK
  <2>9. ChildOK(a)'
    <3>1. ChildOK(a) BY <1>2 DEF AddressOK
    <3>2. \A f \in Executor : f # e =>
            /\ Private(f, a)' /\ view'[f][a].child # Null => parent[f][view'[f][a].child] = a
            /\ \A d \in Cell : parent[f][d] = a =>
                 /\ Private(f, a)' /\ view'[f][a].child = d /\ heap'[f][d] # Null
                 /\ d \notin uniq'[f]
      <4>1. \A f \in Executor, d \in Cell : f # e /\ parent[f][d] = a => d \notin uniq'[f]
        BY <1>1, <2>3 DEF Open
      <4> QED BY <4>1, <3>1, <1>7, <1>12 DEF ChildOK
    <3>3. \A d \in Cell : parent[e][d] = a => d = c BY <1>3, <3>1 DEF ChildOK
    <3>4. view'[e][a].child = c /\ view'[e][a].owner = e /\ heap'[e][c] # Null
      BY <1>3, <1>5, <1>6, <1>7
    <3> QED BY <3>2, <3>3, <3>4, <1>1, <1>3, <1>12 DEF ChildOK
  <2> QED BY <2>4, <2>5, <2>6, <2>7, <2>8, <2>9 DEF AddressOK
<1>15. OneCall(e)' /\ FetchOK(e)'
  <2>1. UNCHANGED <<pub, busy>> BY DEF publicVars
  <2>2. OneCall(e)' BY <1>2, <1>10, <2>1 DEF OneCall
  <2>3. /\ \A r \in pvtDmn : r.from = e => IsReset(r)
        /\ \A t \in pvtMem : t.to = e => t = s
    BY <1>1, <1>2 DEF FetchOK
  <2>4. IsReset(q) BY <1>r DEF IsReset
  <2>5. /\ \A r \in pvtDmn' : r.from = e => IsReset(r)
        /\ \A t \in pvtMem' : t.to # e
    BY <1>1, <2>3, <2>4
  <2> QED BY <2>2, <2>5 DEF FetchOK
<1> QED BY <1>11, <1>13, <1>14, <1>15, PrivateStep

-----------------------------------------------------------------------------
(* Public pointers *)

(* What a step of the public pointers of e, or a service to them, changes  *)
(* that concerns a.                                                        *)
PublicFrame(e, a) ==
    /\ UNCHANGED <<privateVars, pub, parent>>
    /\ issued \subseteq issued' /\ a \in issued' /\ (IsPublic(a) \/ a \notin issued)
    /\ \A f \in Executor, b \in Address :
          /\ f # e \/ b # a => view'[f][b] = view[f][b]
          /\ b # a => (rc'[f][b] # Null <=> rc[f][b] # Null)
    /\ IsPublic(a)'
    /\ ~Private(e, a) /\ ~Private(e, a)'
    /\ \A f \in Executor, c \in Cell :
          heap[f][c] # Null /\ heap'[f][c] = Null => f = e /\ parent[f][c] = Null
    /\ \A f \in Executor : f # e => busy'[f] = busy[f]
    /\ \A r \in pubDmn' : r.from # e /\ IsAsk(r) => r \in pubDmn
    /\ \A s \in pubMem' : s.to # e => s \in pubMem

LEMMA PublicStep ==
  ASSUME IInv, TypeOK', NEW e \in Executor, NEW a \in Address, PublicFrame(e, a),
         \A b \in Address : HomeOK(b)', OneCall(e)', AskOK(e)', BlockOK(e)'
  PROVE  IInv'
<1>0. TypeOK /\ Typed /\ Null \notin Address
  BY TypeFacts, ViewAssumption DEF IInv
<1>1. UNCHANGED <<pvt, uniq, fwd, pvtPap, pvtDmn, pvtMem, pub, parent>>
  BY DEF PublicFrame, privateVars
<1>2. \A f \in Executor, b \in Address : /\ Private(f, b)' <=> Private(f, b)
                                         /\ Private(f, b) => view'[f][b] = view[f][b]
  BY DEF PublicFrame, Private, Mapped
<1>3. \A f \in Executor, b \in Address : /\ Loads(f, b)' <=> Loads(f, b)
                                         /\ Publishes(f, b)' <=> Publishes(f, b)
                                         /\ PublishesAs(f, b)' <=> PublishesAs(f, b)
  BY <1>1 DEF Loads, Publishes, PublishesAs
<1>4. ASSUME NEW b \in Address, IsPublic(b)' <=> IsPublic(b) PROVE AddressOK(b)'
  <2>1. \A f \in Executor, c \in Cell : parent[f][c] = b /\ heap[f][c] # Null => heap'[f][c] # Null
    BY <1>0 DEF PublicFrame
  <2>2. b \in issued => b \in issued' BY DEF PublicFrame
  <2>3. SameAt(b) BY <1>1, <1>2, <1>3, <1>4, <2>1, <2>2 DEF SameAt
  <2> QED BY <2>3, <1>0, AddressKept DEF IInv
<1>5. ASSUME NEW b \in Address PROVE AddressOK(b)'
  <2>1. CASE b # a
    <3>1. IsPublic(b)' <=> IsPublic(b) BY <2>1 DEF PublicFrame, IsPublic
    <3> QED BY <3>1, <1>4
  <2>2. CASE b = a /\ IsPublic(a)
    <3>1. IsPublic(b)' <=> IsPublic(b) BY <2>2 DEF PublicFrame
    <3> QED BY <3>1, <1>4
  <2>3. CASE b = a /\ a \notin issued
    <3>1. /\ ~KnownPrivate(a) /\ ~InPublish(a) /\ Unknown(a) BY <2>3, FreshAddress
    <3>2. ~KnownPrivate(a)' BY <3>1, <1>1, <1>2 DEF KnownPrivate
    <3>3. Unknown(a)' BY <3>1, <3>2, <1>3 DEF Unknown
    <3>4. LevelOK(a)'
      <4>1. \A f \in Executor : ~PublishesAs(f, a) BY <3>1 DEF InPublish, PublishesAs
      <4>2. ~InPublish(a)' BY <3>1, <1>1 DEF InPublish
      <4>3. a \in issued' BY DEF PublicFrame
      <4> QED BY <3>2, <4>1, <4>2, <4>3, <1>3 DEF LevelOK
    <3> QED BY <2>3, <3>3, <3>4, UnknownNext DEF UnknownOK
  <2> QED BY <2>1, <2>2, <2>3 DEF PublicFrame
<1>6. ASSUME NEW f \in Executor
      PROVE  OneCall(f)' /\ FetchOK(f)' /\ AskOK(f)' /\ BlockOK(f)'
  <2>1. \A t, b : Fetches(f, t, b)' <=> Fetches(f, t, b)
    BY <1>1 DEF Fetches, Loads, Publishes
  <2>2. FetchOK(f)' BY <1>1, <2>1 DEF IInv, FetchOK
  <2>3. CASE f # e
    <3>1. busy'[f] = busy[f] BY <2>3 DEF PublicFrame
    <3>2. OneCall(f)' BY <1>1, <3>1 DEF IInv, OneCall
    <3>3. /\ \A r \in pubDmn' : r.from = f /\ IsAsk(r) => r \in pubDmn
          /\ \A s \in pubMem' : s.to = f => s \in pubMem
      BY <2>3 DEF PublicFrame
    <3>4. AskOK(f)' BY <3>1, <3>3, AskKept DEF IInv
    <3>5. \A b \in Address : view'[f][b] = view[f][b] BY <2>3 DEF PublicFrame
    <3>6. \A b \in Address : Public(f, b)' <=> Public(f, b) BY <3>5 DEF Public, Mapped
    <3>7. \A c \in Cell : heap[f][c] # Null => heap'[f][c] # Null
      BY <2>3 DEF PublicFrame
    <3>8. \A c \in uniq'[f] : parent'[f][c] # Null BY <1>1 DEF IInv, BlockOK
    <3>9. BlockOK(f)' BY <1>0, <1>1, <3>5, <3>6, <3>7, <3>8, BlockKept DEF IInv
    <3> QED BY <2>2, <3>2, <3>4, <3>9
  <2> QED BY <2>2, <2>3
<1> QED BY <1>5, <1>6 DEF IInv

(* A public address and whoever maps it.                                   *)
LEMMA HolderFacts ==
  ASSUME IInv, NEW e \in Executor, NEW a \in Address, IsPublic(a)
  PROVE  /\ ~Private(e, a) /\ a \in issued
         /\ Mapped(e, a) => /\ Public(e, a) /\ view[e][a].author \in Executor
                            /\ rc[view[e][a].author][a] # Null
<1>1. LevelOK(a) /\ HomeOK(a) BY DEF IInv, AddressOK
<1>2. ~Private(e, a) /\ a \in issued BY <1>1 DEF LevelOK, KnownPrivate
<1>3. Mapped(e, a) => /\ view[e][a].author \in Executor
                      /\ view[e][a].access_level \in AccessLevel
  BY TypeFacts DEF IInv, Typed, TypedTables
<1> QED BY <1>1, <1>2, <1>3 DEF HomeOK, Private, Public, AccessLevel

(* The public part stays when no address becomes public, or stops to be.   *)
LEMMA HomeStays ==
  ASSUME NEW b \in Address, HomeOK(b),
         \A f \in Executor : rc'[f][b] # Null <=> rc[f][b] # Null,
         \A f \in Executor : Public(f, b)' =>
             view'[f][b].author \in Executor /\ rc[view'[f][b].author][b] # Null,
         \A h \in Handle : ptr'[h] # Null /\ ptr'[h].p = b => IsPublic(b),
         \A f \in Executor : busy'[f] # Null /\ busy'[f].p = b => IsPublic(b),
         \A m \in pubPap' : m.p = b => m.author \in Executor /\ rc[m.author][b] # Null,
         \A r \in pubDmn' : r.p = b => r.to \in Executor /\ rc[r.to][b] # Null
  PROVE  HomeOK(b)'
<1>1. IsPublic(b)' <=> IsPublic(b) BY DEF IsPublic
<1> QED BY <1>1 DEF HomeOK

(* Counts stay counts.                                                     *)
LEMMA CountTyped ==
  ASSUME NEW n \in 0 .. RcRange - 1
  PROVE  /\ Pub!Incremented(n) \in 0 .. RcRange - 1
         /\ Pub!Decremented(n) \in 0 .. RcRange - 1
<1>1. RcRange \in Nat /\ RcRange > 0 BY ContextAssumption
<1>2. \A k \in Int : k % RcRange \in 0 .. RcRange - 1 BY <1>1
<1> QED BY <1>1, <1>2 DEF Pub!Incremented, Pub!Decremented

LEMMA PublicMakeStep ==
  ASSUME IInv, NEW e \in Executor, NEW v \in Value, Idle(e),
         Pub!Make(e, v), UNCHANGED <<privateVars, pub, lost>>
  PROVE  IInv'
<1>0. TypeOK /\ Typed /\ Null \notin Address \cup Cell \cup Value \cup Entry
  BY TypeFacts, ViewAssumption DEF IInv
<1>t. TableTypeOK /\ PublicTyped BY <1>0, TypeParts DEF TypesApart
<1>1. PICK a \in Address, c \in Cell, h \in Handle :
        /\ a \notin issued /\ heap[e][c] = Null
        /\ issued' = issued \cup {a}
        /\ view' = [view EXCEPT ![e][a] = Pub!PublicEntry(e, c)]
        /\ heap' = [heap EXCEPT ![e][c] = v]
        /\ rc' = [rc EXCEPT ![e][a] = 1]
        /\ ptr' = [ptr EXCEPT ![h] = [p |-> a, at |-> e]]
  <2>1. Pub!FreshHandles \subseteq Handle BY DEF Pub!FreshHandles
  <2>2. PICK a \in Pub!FreshAddresses, c \in Pub!FreeCells(e), h \in Pub!FreshHandles :
          /\ issued' = issued \cup {a}
          /\ view' = [view EXCEPT ![e][a] = Pub!PublicEntry(e, c)]
          /\ heap' = [heap EXCEPT ![e][c] = v]
          /\ Pub!RcInit(e, a)
          /\ ptr' = [ptr EXCEPT ![h] = [p |-> a, at |-> e]]
    BY DEF Pub!Make
  <2>3. a \in Address /\ a \notin issued BY DEF Pub!FreshAddresses
  <2>4. c \in Cell /\ heap[e][c] = Null BY DEF Pub!FreeCells
  <2>5. rc' = [rc EXCEPT ![e][a] = 1] BY <2>2 DEF Pub!RcInit
  <2>6. h \in Handle BY <2>1
  <2> QED BY <2>2, <2>3, <2>4, <2>5, <2>6
<1>2. UNCHANGED <<parent, busy, pubPap, pubDmn, pubMem, pvt, uniq, fwd, pub>>
  BY DEF Pub!Make, Pub!linkVars, privateVars
<1>p. PICK x, l : x = Pub!PublicEntry(e, c) /\ l = [p |-> a, at |-> e] OBVIOUS
<1>3. /\ x \in Entry /\ x.committed = c /\ x.author = e /\ x.access_level = "public"
      /\ l \in Pub!Pointer /\ l.p = a
  BY <1>p DEF Pub!PublicEntry, Entry, AccessLevel, Pub!Pointer
<1>4. /\ view' \in [Executor -> [Address -> Entry \cup {Null}]]
      /\ view'[e][a] = x
      /\ \A f \in Executor, b \in Address : f # e \/ b # a => view'[f][b] = view[f][b]
  BY <1>1, <1>p, <1>3, <1>t, Written DEF TableTypeOK
<1>5. /\ heap' \in [Executor -> [Cell -> Value \cup {Null}]]
      /\ heap'[e][c] = v
      /\ \A f \in Executor, d \in Cell : f # e \/ d # c => heap'[f][d] = heap[f][d]
  BY <1>1, <1>t, Written DEF TableTypeOK
<1>6. 1 \in 0 .. RcRange - 1 /\ 1 # Null
  <2>1. Cardinality(Handle) \in Nat /\ Cardinality(Handle) > 0
    BY ContextAssumption, FS_CardinalityType, FS_EmptySet
  <2>2. /\ RcRange \in Nat /\ MaxLost \in Nat /\ Null \notin 0 .. RcRange - 1
        /\ RcRange > 2 * Cardinality(Handle) + MaxLost
    BY ContextAssumption
  <2>3. 1 \in 0 .. RcRange - 1 BY <2>1, <2>2
  <2> QED BY <2>2, <2>3
<1>7. /\ rc' \in [Executor -> [Address -> 0 .. RcRange - 1 \cup {Null}]]
      /\ rc'[e][a] = 1
      /\ \A f \in Executor, b \in Address : f # e \/ b # a => rc'[f][b] = rc[f][b]
  BY <1>1, <1>6, <1>t, Written DEF PublicTyped
<1>8. /\ ptr' \in [Handle -> Pub!Pointer \cup {Null}]
      /\ ptr'[h] = l
      /\ \A k \in Handle : k # h => ptr'[k] = ptr[k]
  BY <1>1, <1>p, <1>3, <1>t, Set DEF PublicTyped
<1>9. TypeOK'
  <2>1. PublicTyped' BY <1>2, <1>7, <1>8, <1>t DEF PublicTyped
  <2>2. TableTypeOK' BY <1>1, <1>2, <1>4, <1>5, <1>t DEF TableTypeOK
  <2> QED BY <1>0, <2>1, <2>2, PublicTypes
<1>10. /\ ~IsPublic(a) /\ HomeOK(a)
       /\ \A f \in Executor : view[f][a] = Null
       /\ parent[e][c] = Null
  BY <1>1, FreshAddress, FreeCell DEF IInv
<1>11. IsPublic(a)' BY <1>6, <1>7 DEF IsPublic
<1>12. PublicFrame(e, a)
  <2>1. ~Private(e, a) /\ ~Private(e, a)' BY <1>3, <1>4, <1>10 DEF Private, Mapped
  <2>2. \A f \in Executor, d \in Cell : heap[f][d] # Null => heap'[f][d] # Null
    BY <1>1, <1>5
  <2> QED BY <1>1, <1>2, <1>4, <1>7, <1>11, <2>1, <2>2 DEF PublicFrame
<1>13. ASSUME NEW b \in Address PROVE HomeOK(b)'
  <2>1. CASE b = a
    <3>1. \A f \in Executor : rc'[f][a] # Null <=> f = e
      <4>1. \A f \in Executor : rc[f][a] = Null BY <1>10 DEF IsPublic
      <4> QED BY <4>1, <1>6, <1>7
    <3>2. \A f \in Executor : Public(f, a)' => f = e
      BY <1>4, <1>10 DEF Public, Mapped
    <3>3. /\ \A f \in Executor : busy[f] # Null => busy[f].p # a
          /\ \A m \in pubPap : m.p # a
          /\ \A r \in pubDmn : r.p # a
      <4>1. \A m \in pubPap : m.author \in Executor BY <1>0 DEF Typed, TypedPublic
      <4>2. \A r \in pubDmn : r.to \in Executor BY <1>0 DEF Typed, TypedPublic
      <4> QED BY <4>1, <4>2, <1>10 DEF HomeOK, IsPublic
    <3> QED BY <2>1, <3>1, <3>2, <3>3, <1>2, <1>3, <1>4, <1>11 DEF HomeOK
  <2>2. CASE b # a
    <3>1. HomeOK(b) BY DEF IInv
    <3>2. \A f \in Executor : rc'[f][b] # Null <=> rc[f][b] # Null BY <2>2, <1>7
    <3>3. \A f \in Executor : Public(f, b)' =>
             view'[f][b].author \in Executor /\ rc[view'[f][b].author][b] # Null
      <4>1. \A f \in Executor : view'[f][b] = view[f][b] BY <2>2, <1>4
      <4> QED BY <4>1, <3>1, <1>0 DEF HomeOK, Public, Mapped, Typed, TypedTables
    <3>4. \A k \in Handle : ptr'[k] # Null /\ ptr'[k].p = b => IsPublic(b)
      BY <2>2, <3>1, <1>3, <1>8 DEF HomeOK
    <3>5. /\ \A m \in pubPap' : m.p = b => m.author \in Executor /\ rc[m.author][b] # Null
          /\ \A r \in pubDmn' : r.p = b => r.to \in Executor /\ rc[r.to][b] # Null
          /\ \A f \in Executor : busy'[f] # Null /\ busy'[f].p = b => IsPublic(b)
      BY <3>1, <1>0, <1>2 DEF HomeOK, Typed, TypedPublic
    <3> QED BY <3>1, <3>2, <3>3, <3>4, <3>5, HomeStays
  <2> QED BY <2>1, <2>2
<1>14. OneCall(e)' BY <1>2 DEF IInv, OneCall
<1>15. AskOK(e)' BY <1>2, AskKept DEF IInv
<1>16. BlockOK(e)'
  <2>1. BlockOK(e) BY DEF IInv
  <2>2. ASSUME NEW b \in Address, Public(e, b)', view'[e][b].committed # Null
        PROVE  /\ heap'[e][view'[e][b].committed] # Null
               /\ parent'[e][view'[e][b].committed] = Null
               /\ pub'[e] # Null => view'[e][b].committed # pub'[e].lp
               /\ view'[e][b].committed = c => b = a
    <3>1. CASE b = a
      <4>1. pub[e] = Null BY DEF Idle
      <4> QED BY <3>1, <4>1, <1>0, <1>2, <1>3, <1>4, <1>5, <1>10
    <3>2. CASE b # a
      <4>1. view'[e][b] = view[e][b] /\ Public(e, b) BY <2>2, <3>2, <1>4 DEF Public, Mapped
      <4>2. view[e][b].committed \in Cell
        BY <2>2, <4>1, <1>0 DEF Typed, TypedTables, Public
      <4>3. heap[e][view[e][b].committed] # Null BY <2>1, <2>2, <4>1 DEF BlockOK
      <4> QED BY <2>1, <2>2, <4>1, <4>2, <4>3, <1>1, <1>2, <1>5 DEF BlockOK
    <3> QED BY <3>1, <3>2
  <2>3. ASSUME NEW b \in Address, NEW d \in Address,
               Public(e, b)', view'[e][b].committed # Null,
               Public(e, d)', view'[e][d].committed = view'[e][b].committed
        PROVE  b = d
    <3>1. view'[e][a].committed = c BY <1>3, <1>4
    <3>2. CASE b = a \/ d = a BY <2>2, <2>3, <3>1, <3>2
    <3>3. CASE b # a /\ d # a
      <4>1. /\ view'[e][b] = view[e][b] /\ Public(e, b)
            /\ view'[e][d] = view[e][d] /\ Public(e, d)
        BY <2>3, <3>3, <1>4 DEF Public, Mapped
      <4> QED BY <2>1, <2>3, <4>1 DEF BlockOK
    <3> QED BY <3>2, <3>3
  <2>4. pub[e] = Null BY DEF Idle
  <2>5. \A d \in uniq'[e] : parent'[e][d] # Null BY <2>1, <1>2 DEF BlockOK
  <2> QED BY <2>2, <2>3, <2>4, <2>5, <1>2 DEF BlockOK
<1> QED BY <1>9, <1>12, <1>13, <1>14, <1>15, <1>16, PublicStep

(* What pointers, calls and messages name is public.                       *)
LEMMA PublicKnown ==
  ASSUME IInv
  PROVE  /\ \A h \in Handle : ptr[h] # Null => ptr[h].p \in Address /\ IsPublic(ptr[h].p)
         /\ \A f \in Executor : busy[f] # Null => busy[f].p \in Address /\ IsPublic(busy[f].p)
         /\ \A m \in pubPap : /\ m.p \in Address /\ m.author \in Executor
                              /\ rc[m.author][m.p] # Null
         /\ \A r \in pubDmn : /\ r.p \in Address /\ r.to \in Executor
                              /\ rc[r.to][r.p] # Null
<1>1. Typed BY TypeFacts DEF IInv
<1>2. \A b \in Address : HomeOK(b) BY DEF IInv
<1> QED BY <1>1, <1>2 DEF HomeOK, Typed, TypedCalls, TypedPublic

(* A step of public pointers that leaves the tables alone.                 *)
PublicQuiet(e) ==
    /\ UNCHANGED <<tableVars, privateVars, pub>>
    /\ \A f \in Executor, b \in Address : rc'[f][b] # Null <=> rc[f][b] # Null
    /\ \A h \in Handle : ptr'[h] # Null => IsPublic(ptr'[h].p)
    /\ \A f \in Executor : f # e => busy'[f] = busy[f]
    /\ busy'[e] # Null => IsPublic(busy'[e].p) /\ fwd[e] = Null /\ pub[e] = Null
    /\ \A m \in pubPap' : m.author \in Executor /\ rc[m.author][m.p] # Null
    /\ \A r \in pubDmn' : r.to \in Executor /\ rc[r.to][r.p] # Null
    /\ \A r \in pubDmn' : r.from # e /\ IsAsk(r) => r \in pubDmn
    /\ \A s \in pubMem' : s.to # e => s \in pubMem

LEMMA QuietStep ==
  ASSUME IInv, TypeOK', NEW e \in Executor, NEW a \in Address, IsPublic(a),
         PublicQuiet(e), AskOK(e)'
  PROVE  IInv'
<1>0. TypeOK /\ Typed BY TypeFacts DEF IInv
<1>1. UNCHANGED <<issued, view, parent, heap, pvt, uniq, fwd, pvtPap, pvtDmn, pvtMem, pub>>
  BY DEF PublicQuiet, tableVars, privateVars
<1>3. \A b \in Address : IsPublic(b)' <=> IsPublic(b) BY DEF PublicQuiet, IsPublic
<1>4. PublicFrame(e, a)
  <2>1. ~Private(e, a) /\ a \in issued BY HolderFacts
  <2>2. ~Private(e, a)' BY <2>1, <1>1, SameMemory
  <2> QED BY <1>1, <1>3, <2>1, <2>2 DEF PublicQuiet, PublicFrame
<1>5. ASSUME NEW b \in Address PROVE HomeOK(b)'
  <2>1. HomeOK(b) BY DEF IInv
  <2>2. \A f \in Executor : Public(f, b)' =>
          view'[f][b].author \in Executor /\ rc[view'[f][b].author][b] # Null
    BY <2>1, <1>0, <1>1, SameMemory DEF HomeOK, Public, Typed, TypedTables
  <2>3. \A f \in Executor : busy'[f] # Null /\ busy'[f].p = b => IsPublic(b)
    BY <2>1 DEF PublicQuiet, HomeOK
  <2>4. /\ \A f \in Executor : rc'[f][b] # Null <=> rc[f][b] # Null
        /\ \A h \in Handle : ptr'[h] # Null /\ ptr'[h].p = b => IsPublic(b)
        /\ \A m \in pubPap' : m.p = b => m.author \in Executor /\ rc[m.author][b] # Null
        /\ \A r \in pubDmn' : r.p = b => r.to \in Executor /\ rc[r.to][b] # Null
    BY DEF PublicQuiet
  <2> QED BY <2>1, <2>2, <2>3, <2>4, HomeStays
<1>6. OneCall(e)'
  BY <1>1 DEF IInv, OneCall, PublicQuiet
<1>7. BlockOK(e)' BY <1>1, SameMemory DEF IInv, BlockOK
<1> QED BY <1>4, <1>5, <1>6, <1>7, PublicStep

LEMMA PublicQuietStep ==
  ASSUME IInv, PublicTyped', NEW e \in Executor, NEW a \in Address, IsPublic(a),
         PublicQuiet(e), AskOK(e)', UNCHANGED lost
  PROVE  IInv'
<1>1. TypeOK /\ TableTypeOK BY TypeParts DEF TypesApart, IInv
<1>2. TableTypeOK' BY <1>1 DEF PublicQuiet, tableVars, TableTypeOK
<1>3. UNCHANGED <<privateVars, pub, lost>> BY DEF PublicQuiet
<1>4. TypeOK' BY <1>1, <1>2, <1>3, PublicTypes
<1> QED BY <1>4, QuietStep

(* Counting up or down, wherever there is a count.                         *)
LEMMA Recount ==
  ASSUME PublicTyped, NEW e \in Executor, NEW a \in Address, rc[e][a] # Null,
         NEW n, n \in {Pub!Incremented(rc[e][a]), Pub!Decremented(rc[e][a])},
         rc' = [rc EXCEPT ![e][a] = n]
  PROVE  /\ rc' \in [Executor -> [Address -> 0 .. RcRange - 1 \cup {Null}]]
         /\ \A f \in Executor, b \in Address : rc'[f][b] # Null <=> rc[f][b] # Null
<1>1. rc[e][a] \in 0 .. RcRange - 1 BY DEF PublicTyped
<1>2. n \in 0 .. RcRange - 1 BY <1>1, CountTyped
<1>3. n # Null BY <1>2, ContextAssumption
<1>4. /\ rc' \in [Executor -> [Address -> 0 .. RcRange - 1 \cup {Null}]]
      /\ rc'[e][a] = n
      /\ \A f \in Executor, b \in Address : f # e \/ b # a => rc'[f][b] = rc[f][b]
  BY <1>2, Written DEF PublicTyped
<1> QED BY <1>3, <1>4

(* rc_inc, for the copy constructor and for push.                          *)
LEMMA RcIncEffect ==
  ASSUME IInv, NEW e \in Executor, NEW a \in Address, IsPublic(a), Mapped(e, a),
         NEW h \in Handle, Pub!RcInc(e, a, h)
  PROVE  /\ rc' \in [Executor -> [Address -> 0 .. RcRange - 1 \cup {Null}]]
         /\ \A f \in Executor, b \in Address : rc'[f][b] # Null <=> rc[f][b] # Null
         /\ pubDmn' \subseteq Pub!Request
         /\ \A r \in pubDmn' : r.to \in Executor /\ rc[r.to][r.p] # Null
         /\ \A r \in pubDmn' : IsAsk(r) => r \in pubDmn
<1>t. PublicTyped BY TypeParts DEF TypesApart, IInv
<1>1. view[e][a].author \in Executor /\ rc[view[e][a].author][a] # Null
  BY HolderFacts
<1>2. \A r \in pubDmn : r.to \in Executor /\ rc[r.to][r.p] # Null BY PublicKnown
<1>3. CASE Pub!AmAuthor(e, a)
  <2>1. rc[e][a] # Null BY <1>1, <1>3 DEF Pub!AmAuthor
  <2>2. rc' = [rc EXCEPT ![e][a] = Pub!Incremented(rc[e][a])] /\ pubDmn' = pubDmn
    BY <1>3 DEF Pub!RcInc
  <2>3. /\ rc' \in [Executor -> [Address -> 0 .. RcRange - 1 \cup {Null}]]
        /\ \A f \in Executor, b \in Address : rc'[f][b] # Null <=> rc[f][b] # Null
    BY <1>t, <2>1, <2>2, Recount
  <2> QED BY <1>2, <1>t, <2>2, <2>3 DEF PublicTyped
<1>4. CASE ~Pub!AmAuthor(e, a)
  <2>1. PICK q : q = [op |-> "RC_INC", from |-> e, to |-> view[e][a].author, p |-> a, ref |-> h]
    OBVIOUS
  <2>2. rc' = rc /\ pubDmn' = pubDmn \cup {q}
    BY <1>4, <2>1 DEF Pub!RcInc, Pub!RequestTo
  <2>3. /\ q \in Pub!Request /\ q.to = view[e][a].author /\ q.p = a /\ ~IsAsk(q)
    BY <1>1, <2>1 DEF Pub!Request, IsAsk
  <2> QED BY <1>1, <1>2, <1>t, <2>2, <2>3 DEF PublicTyped
<1> QED BY <1>3, <1>4

LEMMA PublicCopyStep ==
  ASSUME IInv, NEW e \in Executor, NEW h \in Handle, Idle(e),
         Pub!Copy(e, h), UNCHANGED <<privateVars, pub, lost>>
  PROVE  IInv'
<1>t. PublicTyped BY TypeParts DEF TypesApart, IInv
<1>p. PICK a \in Address : ptr[h] # Null /\ a = ptr[h].p /\ IsPublic(a)
  BY PublicKnown DEF Pub!Copy, Pub!HeldBy
<1>1. PICK k \in Handle : ptr' = [ptr EXCEPT ![k] = ptr[h]] /\ Pub!RcInc(e, a, k)
  BY <1>p DEF Pub!Copy, Pub!FreshHandles
<1>2. /\ UNCHANGED <<tableVars, busy, pubPap, pubMem>> /\ Mapped(e, a)
  BY <1>p, SameTables DEF Pub!Copy, Pub!tableVars, tableVars
<1>3. /\ rc' \in [Executor -> [Address -> 0 .. RcRange - 1 \cup {Null}]]
      /\ \A f \in Executor, b \in Address : rc'[f][b] # Null <=> rc[f][b] # Null
      /\ pubDmn' \subseteq Pub!Request
      /\ \A r \in pubDmn' : r.to \in Executor /\ rc[r.to][r.p] # Null
      /\ \A r \in pubDmn' : IsAsk(r) => r \in pubDmn
  BY <1>1, <1>2, <1>p, RcIncEffect
<1>4. /\ ptr' \in [Handle -> Pub!Pointer \cup {Null}]
      /\ \A j \in Handle : ptr'[j] # Null => IsPublic(ptr'[j].p)
  <2>1. /\ ptr' \in [Handle -> Pub!Pointer \cup {Null}]
        /\ ptr'[k] = ptr[h]
        /\ \A j \in Handle : j # k => ptr'[j] = ptr[j]
    BY <1>1, <1>t DEF PublicTyped
  <2> QED BY <2>1, PublicKnown
<1>5. PublicTyped' BY <1>2, <1>3, <1>4, <1>t DEF PublicTyped
<1>6. AskOK(e)' BY <1>2, <1>3, AskKept DEF IInv
<1>7. PublicQuiet(e) BY <1>2, <1>3, <1>4, PublicKnown DEF PublicQuiet, Idle
<1> QED BY <1>5, <1>6, <1>7, <1>p, PublicQuietStep

LEMMA PublicPushStep ==
  ASSUME IInv, NEW e \in Executor, NEW h \in Handle, NEW t \in Executor, Idle(e),
         Pub!Push(e, h, t), UNCHANGED <<privateVars, pub, lost>>
  PROVE  IInv'
<1>t. PublicTyped BY TypeParts DEF TypesApart, IInv
<1>p. PICK a \in Address : ptr[h] # Null /\ a = ptr[h].p /\ IsPublic(a)
  BY PublicKnown DEF Pub!Push, Pub!HeldBy
<1>0. Mapped(e, a) BY <1>p, SameTables DEF Pub!Push
<1>q. PICK y \in Executor : y = view[e][a].author /\ rc[y][a] # Null
  BY <1>0, <1>p, HolderFacts
<1>1. PICK k \in Handle :
        /\ pubPap' = pubPap \cup {[from |-> e, to |-> t, p |-> a, author |-> y, ref |-> k]}
        /\ busy' = [busy EXCEPT ![e] = [op |-> "push", p |-> a, ref |-> k]]
  BY <1>p, <1>q DEF Pub!Push, Pub!FreshHandles
<1>r. PICK m, x : /\ m = [from |-> e, to |-> t, p |-> a, author |-> y, ref |-> k]
                  /\ x = [op |-> "push", p |-> a, ref |-> k]
  OBVIOUS
<1>2. UNCHANGED <<tableVars, ptr, rc, pubDmn, pubMem>>
  BY DEF Pub!Push, Pub!tableVars, tableVars
<1>3. m \in Pub!Capability /\ m.author = y /\ m.p = a BY <1>r DEF Pub!Capability
<1>4. x \in Pub!Pushing /\ x.p = a BY <1>r DEF Pub!Pushing
<1>5. /\ busy' \in [Executor -> Pub!Pushing \cup Pub!Asking \cup {Null}]
      /\ busy'[e] = x
      /\ \A f \in Executor : f # e => busy'[f] = busy[f]
  BY <1>1, <1>r, <1>4, <1>t DEF PublicTyped
<1>6. PublicTyped' BY <1>1, <1>2, <1>3, <1>5, <1>r, <1>t DEF PublicTyped
<1>7. AskOK(e)'
  <2>1. ~Pub!IsAsking(e) BY DEF Idle, Pub!IsAsking
  <2> QED BY <2>1, <1>2, AskKept DEF IInv
<1>8. PublicQuiet(e)
  <2>1. \A n \in pubPap' : n.author \in Executor /\ rc[n.author][n.p] # Null
    BY <1>1, <1>3, <1>q, <1>r, PublicKnown
  <2> QED BY <1>2, <1>4, <1>5, <1>p, <2>1, PublicKnown DEF PublicQuiet, Idle
<1> QED BY <1>6, <1>7, <1>8, <1>p, PublicQuietStep

LEMMA PublicPushCountStep ==
  ASSUME IInv, NEW e \in Executor, Pub!PushCount(e), UNCHANGED <<privateVars, pub, lost>>
  PROVE  IInv'
<1>0. Typed BY TypeFacts DEF IInv
<1>t. PublicTyped BY TypeParts DEF TypesApart, IInv
<1>p. PICK a \in Address, k \in Handle :
        busy[e] # Null /\ a = busy[e].p /\ k = busy[e].ref /\ IsPublic(a)
  BY <1>0, PublicKnown DEF Pub!PushCount, Pub!IsPushing, Typed, TypedCalls
<1>1. /\ Pub!RcInc(e, a, k) /\ Mapped(e, a)
      /\ busy' = [busy EXCEPT ![e] = Null]
      /\ UNCHANGED <<tableVars, ptr, pubPap, pubMem>>
  BY <1>p, SameTables DEF Pub!PushCount, Pub!tableVars, tableVars
<1>2. /\ rc' \in [Executor -> [Address -> 0 .. RcRange - 1 \cup {Null}]]
      /\ \A f \in Executor, b \in Address : rc'[f][b] # Null <=> rc[f][b] # Null
      /\ pubDmn' \subseteq Pub!Request
      /\ \A r \in pubDmn' : r.to \in Executor /\ rc[r.to][r.p] # Null
      /\ \A r \in pubDmn' : IsAsk(r) => r \in pubDmn
  BY <1>1, <1>p, RcIncEffect
<1>3. /\ busy' \in [Executor -> Pub!Pushing \cup Pub!Asking \cup {Null}]
      /\ busy'[e] = Null
      /\ \A f \in Executor : f # e => busy'[f] = busy[f]
  BY <1>1, <1>t DEF PublicTyped
<1>4. PublicTyped' BY <1>1, <1>2, <1>3, <1>t DEF PublicTyped
<1>5. AskOK(e)'
  <2>1. ~Pub!IsAsking(e) BY DEF Pub!PushCount, Pub!IsPushing, Pub!IsAsking
  <2> QED BY <2>1, <1>1, <1>2, AskKept DEF IInv
<1>6. PublicQuiet(e) BY <1>1, <1>2, <1>3, PublicKnown DEF PublicQuiet
<1> QED BY <1>4, <1>5, <1>6, <1>p, PublicQuietStep

LEMMA PublicDropAwayStep ==
  ASSUME IInv, NEW e \in Executor, NEW h \in Handle, Idle(e),
         ptr[h] # Null, ~Pub!AmAuthor(e, ptr[h].p),
         Pub!Drop(e, h), UNCHANGED <<privateVars, pub, lost>>
  PROVE  IInv'
<1>t. PublicTyped BY TypeParts DEF TypesApart, IInv
<1>p. PICK a \in Address : ptr[h] # Null /\ a = ptr[h].p /\ IsPublic(a)
  BY PublicKnown
<1>0. Mapped(e, a) BY <1>p, SameTables DEF Pub!Drop
<1>q. PICK y \in Executor : y = view[e][a].author /\ rc[y][a] # Null
  BY <1>0, <1>p, HolderFacts
<1>r. PICK q : q = [op |-> "RC_DEC", from |-> e, to |-> y, p |-> a, ref |-> h] OBVIOUS
<1>1. /\ pubDmn' = pubDmn \cup {q} /\ ptr' = [ptr EXCEPT ![h] = Null]
      /\ UNCHANGED <<tableVars, rc, busy, pubPap, pubMem>>
  BY <1>p, <1>q, <1>r DEF Pub!Drop, Pub!RequestTo, Pub!tableVars, tableVars
<1>2. q \in Pub!Request /\ q.to = y /\ q.p = a /\ ~IsAsk(q)
  BY <1>r DEF Pub!Request, IsAsk
<1>3. /\ ptr' \in [Handle -> Pub!Pointer \cup {Null}]
      /\ \A j \in Handle : ptr'[j] # Null => IsPublic(ptr'[j].p)
  <2>1. /\ ptr' \in [Handle -> Pub!Pointer \cup {Null}]
        /\ ptr'[h] = Null
        /\ \A j \in Handle : j # h => ptr'[j] = ptr[j]
    BY <1>1, <1>t DEF PublicTyped
  <2> QED BY <2>1, PublicKnown
<1>4. PublicTyped' BY <1>1, <1>2, <1>3, <1>t DEF PublicTyped
<1>5. /\ \A r \in pubDmn' : r.to \in Executor /\ rc[r.to][r.p] # Null
      /\ \A r \in pubDmn' : IsAsk(r) => r \in pubDmn
  BY <1>1, <1>2, <1>q, PublicKnown
<1>6. AskOK(e)' BY <1>1, <1>5, AskKept DEF IInv
<1>7. PublicQuiet(e) BY <1>1, <1>3, <1>5, PublicKnown DEF PublicQuiet, Idle
<1> QED BY <1>4, <1>6, <1>7, <1>p, PublicQuietStep

LEMMA PublicAskStep ==
  ASSUME IInv, NEW e \in Executor, NEW h \in Handle, NEW op \in {"RLOAD", "RC_GET"},
         Idle(e), Pub!Ask(e, h, op), UNCHANGED <<privateVars, pub, lost>>
  PROVE  IInv'
<1>t. PublicTyped BY TypeParts DEF TypesApart, IInv
<1>p. PICK a \in Address : ptr[h] # Null /\ a = ptr[h].p /\ IsPublic(a)
  BY PublicKnown DEF Pub!Ask, Pub!HeldBy
<1>0. Mapped(e, a) BY <1>p, SameTables DEF Pub!Ask
<1>q. PICK y \in Executor : y = view[e][a].author /\ rc[y][a] # Null
  BY <1>0, <1>p, HolderFacts
<1>r. PICK q, x : /\ q = [op |-> op, from |-> e, to |-> y, p |-> a, ref |-> Null]
                  /\ x = [op |-> op, p |-> a, to |-> y]
  OBVIOUS
<1>1. /\ pubDmn' = pubDmn \cup {q} /\ busy' = [busy EXCEPT ![e] = x]
      /\ UNCHANGED <<tableVars, ptr, rc, pubPap, pubMem>>
  BY <1>p, <1>q, <1>r DEF Pub!Ask, Pub!RequestTo, Pub!tableVars, tableVars
<1>2. q \in Pub!Request /\ q.to = y /\ q.p = a /\ q.from = e /\ q.op = op
  BY <1>r DEF Pub!Request
<1>3. /\ x \in Pub!Asking /\ x.p = a /\ x.op = op /\ x.to = y /\ x # Null
  <2>1. x \in Pub!Asking /\ x.p = a /\ x.op = op /\ x.to = y BY <1>r DEF Pub!Asking
  <2>2. Null \notin Pub!Asking BY ContextAssumption
  <2> QED BY <2>1, <2>2
<1>4. /\ busy' \in [Executor -> Pub!Pushing \cup Pub!Asking \cup {Null}]
      /\ busy'[e] = x
      /\ \A f \in Executor : f # e => busy'[f] = busy[f]
  BY <1>1, <1>3, <1>t DEF PublicTyped
<1>5. PublicTyped' BY <1>1, <1>2, <1>4, <1>t DEF PublicTyped
<1>6. AskOK(e)'
  <2>1. /\ \A r \in pubDmn : r.from = e => ~IsAsk(r)
        /\ \A s \in pubMem : s.to # e
    <3>1. ~Pub!IsAsking(e) BY DEF Idle, Pub!IsAsking
    <3> QED BY <3>1 DEF IInv, AskOK, Asks
  <2>2. \A r \in pubDmn' : r.from = e /\ IsAsk(r) => r = q BY <1>1, <2>1
  <2>3. Asks(e, q.op, q.to)' BY <1>2, <1>3, <1>4 DEF Asks, Pub!IsAsking
  <2> QED BY <1>1, <2>1, <2>2, <2>3 DEF AskOK
<1>7. PublicQuiet(e)
  <2>1. \A r \in pubDmn' : r.to \in Executor /\ rc[r.to][r.p] # Null
    BY <1>1, <1>2, <1>q, PublicKnown
  <2>2. \A r \in pubDmn' : r.from # e /\ IsAsk(r) => r \in pubDmn BY <1>1, <1>2
  <2> QED BY <1>1, <1>3, <1>4, <1>p, <2>1, <2>2, PublicKnown DEF PublicQuiet, Idle
<1> QED BY <1>5, <1>6, <1>7, <1>p, PublicQuietStep

LEMMA PublicAnsweredStep ==
  ASSUME IInv, NEW e \in Executor, Pub!Answered(e), UNCHANGED <<privateVars, pub, lost>>
  PROVE  IInv'
<1>t. PublicTyped BY TypeParts DEF TypesApart, IInv
<1>p. PICK a \in Address : busy[e] # Null /\ a = busy[e].p /\ IsPublic(a)
  BY PublicKnown DEF Pub!Answered, Pub!IsAsking
<1>q. PICK s \in pubMem : s.to = e /\ pubMem' = pubMem \ {s} BY DEF Pub!Answered
<1>1. /\ busy' = [busy EXCEPT ![e] = Null]
      /\ UNCHANGED <<tableVars, ptr, rc, pubPap, pubDmn>>
  BY DEF Pub!Answered, Pub!tableVars, tableVars
<1>2. /\ busy' \in [Executor -> Pub!Pushing \cup Pub!Asking \cup {Null}]
      /\ busy'[e] = Null
      /\ \A f \in Executor : f # e => busy'[f] = busy[f]
  BY <1>1, <1>t DEF PublicTyped
<1>3. PublicTyped' BY <1>1, <1>2, <1>q, <1>t DEF PublicTyped
<1>4. AskOK(e)'
  <2>1. /\ \A r \in pubDmn : r.from = e => ~IsAsk(r)
        /\ \A t \in pubMem : t.to = e => t = s
    BY <1>q DEF IInv, AskOK
  <2>2. \A t \in pubMem' : t.to # e BY <1>q, <2>1
  <2> QED BY <1>1, <2>1, <2>2 DEF AskOK
<1>5. PublicQuiet(e) BY <1>1, <1>2, <1>q, PublicKnown DEF PublicQuiet
<1> QED BY <1>3, <1>4, <1>5, <1>p, PublicQuietStep

LEMMA DmnRcIncStep ==
  ASSUME IInv, NEW r \in pubDmn, Pub!DmnRcInc(r), UNCHANGED <<privateVars, pub, lost>>
  PROVE  IInv'
<1>t. PublicTyped BY TypeParts DEF TypesApart, IInv
<1>p. PICK e \in Executor, a \in Address : e = r.to /\ a = r.p /\ rc[e][a] # Null
  BY PublicKnown
<1>1. /\ rc' = [rc EXCEPT ![e][a] = Pub!Incremented(rc[e][a])]
      /\ pubDmn' = pubDmn \ {r}
      /\ UNCHANGED <<tableVars, ptr, busy, pubPap, pubMem>>
  BY <1>p DEF Pub!DmnRcInc, Pub!tableVars, tableVars
<1>2. /\ rc' \in [Executor -> [Address -> 0 .. RcRange - 1 \cup {Null}]]
      /\ \A f \in Executor, b \in Address : rc'[f][b] # Null <=> rc[f][b] # Null
  BY <1>1, <1>p, <1>t, Recount
<1>3. PublicTyped' BY <1>1, <1>2, <1>t DEF PublicTyped
<1>4. AskOK(e)' BY <1>1, AskKept DEF IInv
<1>5. PublicQuiet(e)
  <2>1. busy[e] # Null => fwd[e] = Null /\ pub[e] = Null BY DEF IInv, OneCall
  <2> QED BY <1>1, <1>2, <2>1, PublicKnown DEF PublicQuiet
<1>6. IsPublic(a) BY <1>p DEF IsPublic
<1> QED BY <1>3, <1>4, <1>5, <1>6, PublicQuietStep

LEMMA DmnReplyStep ==
  ASSUME IInv, NEW r \in pubDmn, Pub!DmnReply(r), UNCHANGED <<privateVars, pub, lost>>
  PROVE  IInv'
<1>0. TypeOK /\ Typed BY TypeFacts DEF IInv
<1>t. PublicTyped BY TypeParts DEF TypesApart, IInv
<1>p. PICK f \in Executor, e \in Executor, a \in Address :
        f = r.from /\ e = r.to /\ a = r.p /\ rc[e][a] # Null /\ IsPublic(a)
  BY <1>0, PublicKnown DEF Typed, TypedPublic, IsPublic
<1>r. PICK s : s = [op |-> r.op, from |-> e, to |-> f, value |-> Pub!Reply(r)] OBVIOUS
<1>1. /\ r.op \in {"RC_GET", "RLOAD"} /\ IsAsk(r)
      /\ pubMem' = pubMem \cup {s} /\ pubDmn' = pubDmn \ {r}
      /\ UNCHANGED <<tableVars, ptr, rc, busy, pubPap>>
  BY <1>p, <1>r DEF Pub!DmnReply, Pub!tableVars, tableVars, IsAsk
<1>2. /\ r.op = "RLOAD" => Pub!Reply(r) \in Value
      /\ r.op = "RC_GET" => Pub!Reply(r) \in 0 .. RcRange - 1
  <2>1. rc[e][a] \in 0 .. RcRange - 1 BY <1>p, <1>t DEF PublicTyped
  <2>2. Mapped(e, a) /\ view[e][a].committed # Null
    BY <1>1, <1>p, SameTables DEF Pub!DmnReply, Pub!Serviceable, Pub!Backs, Pub!Mapped, Mapped
  <2>3. Public(e, a) BY <2>2, <1>p, HolderFacts
  <2>4. view[e][a].committed \in Cell BY <2>2, <1>0 DEF Typed, TypedTables
  <2>5. heap[e][view[e][a].committed] # Null BY <2>2, <2>3 DEF IInv, BlockOK
  <2>6. heap[e][view[e][a].committed] \in Value
    BY <2>4, <2>5, <1>0 DEF Typed, TypedTables
  <2> QED BY <2>1, <2>6, <1>p DEF Pub!Reply
<1>3. s \in Pub!Answer /\ s.to = f /\ s.from = e /\ s.op = r.op
  BY <1>1, <1>2, <1>r DEF Pub!Answer
<1>4. PublicTyped' BY <1>1, <1>3, <1>t DEF PublicTyped
<1>5. AskOK(f)'
  <2>1. AskOK(f) BY DEF IInv
  <2>2. Asks(f, r.op, e) BY <2>1, <1>1, <1>p DEF AskOK
  <2>3. Asks(f, r.op, e)' BY <2>2, <1>1 DEF Asks, Pub!IsAsking
  <2>4. /\ \A q \in pubDmn' : q.from = f => ~IsAsk(q)
        /\ \A t \in pubMem' : t.to = f => t = s
    BY <2>1, <1>1, <1>p DEF AskOK
  <2> QED BY <2>3, <2>4, <1>3 DEF AskOK
<1>6. PublicQuiet(f)
  <2>1. busy[f] # Null => fwd[f] = Null /\ pub[f] = Null BY DEF IInv, OneCall
  <2>2. \A t \in pubMem' : t.to # f => t \in pubMem BY <1>1, <1>3
  <2> QED BY <1>1, <2>1, <2>2, PublicKnown DEF PublicQuiet
<1> QED BY <1>4, <1>5, <1>6, <1>p, PublicQuietStep

LEMMA PublicPullStep ==
  ASSUME IInv, NEW e \in Executor, NEW m \in pubPap, Idle(e),
         Pub!Pull(e, m), UNCHANGED <<privateVars, pub, lost>>
  PROVE  IInv'
<1>0. TypeOK /\ Typed /\ Null \notin Entry
  BY TypeFacts, ViewAssumption DEF IInv
<1>t. TableTypeOK /\ PublicTyped BY <1>0, TypeParts DEF TypesApart
<1>p. PICK a \in Address, y \in Executor, h \in Handle,
           x \in {Pub!PulledEntry(e, m)}, l \in {[p |-> m.p, at |-> e]} :
        /\ a = m.p /\ y = m.author /\ h = m.ref /\ rc[y][a] # Null
        /\ x = Pub!PulledEntry(e, m) /\ l = [p |-> a, at |-> e]
  BY <1>0, PublicKnown DEF Typed, TypedPublic
<1>1. /\ pubPap' = pubPap \ {m}
      /\ view' = [view EXCEPT ![e][a] = x]
      /\ ptr' = [ptr EXCEPT ![h] = l]
      /\ UNCHANGED <<issued, parent, heap, rc, busy, pubDmn, pubMem>>
  BY <1>p DEF Pub!Pull
<1>2. IsPublic(a) BY <1>p DEF IsPublic
<1>3. /\ x \in Entry /\ x.committed = Null /\ x.author = y /\ x.access_level = "public"
  <2>1. (IF Mapped(e, a) THEN view[e][a].child ELSE Null) \in Cell \cup {Null}
    BY <1>0 DEF Typed, TypedTables
  <2>2. x = [committed |-> Null, owner |-> Null, author |-> y,
             child |-> IF Mapped(e, a) THEN view[e][a].child ELSE Null,
             access_level |-> "public"]
    BY <1>p, SameTables DEF Pub!PulledEntry
  <2> QED BY <2>1, <2>2 DEF Entry, AccessLevel
<1>4. /\ view' \in [Executor -> [Address -> Entry \cup {Null}]]
      /\ view'[e][a] = x
      /\ \A f \in Executor, b \in Address : f # e \/ b # a => view'[f][b] = view[f][b]
  BY <1>1, <1>3, <1>t, Written DEF TableTypeOK
<1>5. l \in Pub!Pointer /\ l.p = a BY <1>p DEF Pub!Pointer
<1>6. /\ ptr' \in [Handle -> Pub!Pointer \cup {Null}]
      /\ ptr'[h] = l
      /\ \A k \in Handle : k # h => ptr'[k] = ptr[k]
  BY <1>1, <1>5, <1>t DEF PublicTyped
<1>7. TypeOK'
  <2>1. PublicTyped' BY <1>1, <1>6, <1>t DEF PublicTyped
  <2>2. TableTypeOK' BY <1>1, <1>4, <1>t DEF TableTypeOK
  <2> QED BY <1>0, <2>1, <2>2, PublicTypes
<1>8. PublicFrame(e, a)
  <2>1. ~Private(e, a) /\ a \in issued BY <1>2, HolderFacts
  <2>2. ~Private(e, a)' BY <1>3, <1>4 DEF Private
  <2>3. IsPublic(a)' BY <1>1, <1>2 DEF IsPublic
  <2>4. UNCHANGED parent BY <1>1
  <2> QED BY <1>1, <1>2, <1>4, <2>1, <2>2, <2>3, <2>4 DEF PublicFrame
<1>9. ASSUME NEW b \in Address PROVE HomeOK(b)'
  <2>1. HomeOK(b) BY DEF IInv
  <2>2. \A f \in Executor : Public(f, b)' =>
          view'[f][b].author \in Executor /\ rc[view'[f][b].author][b] # Null
    <3>1. ASSUME NEW f \in Executor, Public(f, b)', f # e \/ b # a
          PROVE  view'[f][b].author \in Executor /\ rc[view'[f][b].author][b] # Null
      <4>1. view'[f][b] = view[f][b] /\ Public(f, b) BY <3>1, <1>4 DEF Public, Mapped
      <4> QED BY <2>1, <4>1, <1>0 DEF HomeOK, Typed, TypedTables, Public
    <3>2. view'[e][a].author = y BY <1>3, <1>4
    <3> QED BY <3>1, <3>2, <1>p
  <2>3. /\ \A k \in Handle : ptr'[k] # Null /\ ptr'[k].p = b => IsPublic(b)
        /\ \A f \in Executor : busy'[f] # Null /\ busy'[f].p = b => IsPublic(b)
        /\ \A n \in pubPap' : n.p = b => n.author \in Executor /\ rc[n.author][b] # Null
        /\ \A r \in pubDmn' : r.p = b => r.to \in Executor /\ rc[r.to][b] # Null
    BY <1>1, <1>2, <1>5, <1>6, PublicKnown
  <2> QED BY <2>1, <2>2, <2>3, <1>1, HomeStays
<1>10. OneCall(e)' BY DEF IInv, OneCall, Idle, privateVars, Pub!Pull
<1>11. AskOK(e)' BY <1>1, AskKept DEF IInv
<1>12. BlockOK(e)'
  <2>1. \A b \in Address : Public(e, b)' /\ view'[e][b].committed # Null =>
          Public(e, b) /\ view'[e][b].committed = view[e][b].committed
    <3>1. view'[e][a].committed = Null BY <1>3, <1>4
    <3>2. \A b \in Address : b # a => view'[e][b] = view[e][b] BY <1>4
    <3> QED BY <3>1, <3>2 DEF Public, Mapped
  <2>2. UNCHANGED <<uniq, parent, heap>> BY <1>1 DEF privateVars
  <2>3. \A c \in uniq'[e] : parent'[e][c] # Null BY <2>2 DEF IInv, BlockOK
  <2> QED BY <1>0, <2>1, <2>2, <2>3, BlockKept DEF IInv
<1> QED BY <1>7, <1>8, <1>9, <1>10, <1>11, <1>12, PublicStep

(* What discounting a reference at the home of its address does to the     *)
(* tables: nothing, or the entry and its block go.                         *)
Freed(e, a) ==
    /\ UNCHANGED <<issued, parent>>
    /\ view[e][a].committed \in Cell
    /\ view'[e][a] = Null
    /\ \A f \in Executor, b \in Address : f # e \/ b # a => view'[f][b] = view[f][b]
    /\ \A f \in Executor, c \in Cell :
          heap'[f][c] = IF f = e /\ c = view[e][a].committed THEN Null ELSE heap[f][c]

LEMMA DiscountEffect ==
  ASSUME IInv, NEW e \in Executor, NEW a \in Address, Pub!AmAuthor(e, a), IsPublic(a),
         Pub!Discount(e, a)
  PROVE  /\ rc' \in [Executor -> [Address -> 0 .. RcRange - 1 \cup {Null}]]
         /\ \A f \in Executor, b \in Address : rc'[f][b] # Null <=> rc[f][b] # Null
         /\ TableTypeOK'
         /\ UNCHANGED tableVars \/ (Public(e, a) /\ Freed(e, a))
<1>0. Typed /\ TableTypeOK /\ PublicTyped BY TypeFacts, TypeParts DEF IInv, TypesApart
<1>1. Mapped(e, a) /\ view[e][a].author = e BY SameTables DEF Pub!AmAuthor
<1>2. Public(e, a) /\ rc[e][a] # Null BY <1>1, HolderFacts
<1>3. rc' = [rc EXCEPT ![e][a] = Pub!Decremented(rc[e][a])] BY DEF Pub!Discount
<1>4. /\ rc' \in [Executor -> [Address -> 0 .. RcRange - 1 \cup {Null}]]
      /\ \A f \in Executor, b \in Address : rc'[f][b] # Null <=> rc[f][b] # Null
  BY <1>0, <1>2, <1>3, Recount
<1>5. CASE UNCHANGED tableVars
  <2>1. TableTypeOK' BY <1>0, <1>5 DEF TableTypeOK, tableVars
  <2> QED BY <1>4, <1>5, <2>1
<1>6. CASE Pub!Backs(e, a) /\ Unmap(e, a)
  <2>1. view[e][a].committed \in Cell
    BY <1>0, <1>1, <1>6 DEF Pub!Backs, Typed, TypedTables
  <2>2. /\ issued' = issued /\ parent' = parent
        /\ view' = [view EXCEPT ![e][a] = Null]
        /\ heap' = [heap EXCEPT ![e] =
             [c \in Cell |-> IF c = view[e][a].committed THEN Null ELSE heap[e][c]]]
    BY <1>2, <1>6 DEF Unmap, ParentsWithout, HeapWithout, Public
  <2>3. /\ view' \in [Executor -> [Address -> Entry \cup {Null}]]
        /\ view'[e][a] = Null
        /\ \A f \in Executor, b \in Address : f # e \/ b # a => view'[f][b] = view[f][b]
    BY <2>2, <1>0, Written DEF TableTypeOK
  <2>4. [c \in Cell |-> IF c = view[e][a].committed THEN Null ELSE heap[e][c]]
           \in [Cell -> Value \cup {Null}]
    BY <1>0 DEF TableTypeOK
  <2>5. /\ heap' \in [Executor -> [Cell -> Value \cup {Null}]]
        /\ heap'[e] = [c \in Cell |-> IF c = view[e][a].committed THEN Null ELSE heap[e][c]]
        /\ \A f \in Executor : f # e => heap'[f] = heap[f]
    BY <2>2, <2>4, <1>0 DEF TableTypeOK
  <2>6. TableTypeOK' BY <2>2, <2>3, <2>5, <1>0 DEF TableTypeOK
  <2>7. Freed(e, a) BY <2>1, <2>2, <2>3, <2>5 DEF Freed
  <2> QED BY <1>2, <1>4, <2>6, <2>7
<1> QED BY <1>5, <1>6, SameTables DEF Pub!Discount, Pub!tableVars, tableVars

LEMMA DiscountStep ==
  ASSUME IInv, NEW e \in Executor, NEW a \in Address, Pub!AmAuthor(e, a), IsPublic(a),
         Pub!Discount(e, a), UNCHANGED <<privateVars, pub, lost, busy, pubPap, pubMem>>,
         ptr' \in [Handle -> Pub!Pointer \cup {Null}],
         \A h \in Handle : ptr'[h] # Null => ptr'[h] = ptr[h],
         pubDmn' \subseteq pubDmn
  PROVE  IInv'
<1>0. TypeOK /\ Typed BY TypeFacts DEF IInv
<1>t. PublicTyped BY <1>0, TypeParts DEF TypesApart
<1>1. /\ rc' \in [Executor -> [Address -> 0 .. RcRange - 1 \cup {Null}]]
      /\ \A f \in Executor, b \in Address : rc'[f][b] # Null <=> rc[f][b] # Null
      /\ TableTypeOK'
      /\ UNCHANGED tableVars \/ (Public(e, a) /\ Freed(e, a))
  BY DiscountEffect
<1>2. PublicTyped' BY <1>1, <1>t DEF PublicTyped
<1>3. TypeOK'
  <2>1. UNCHANGED <<privateVars, pub, lost>> OBVIOUS
  <2> QED BY <1>0, <1>1, <1>2, <2>1, PublicTypes
<1>4. AskOK(e)' BY AskKept DEF IInv
<1>5. busy[e] # Null => fwd[e] = Null /\ pub[e] = Null BY DEF IInv, OneCall
<1>6. CASE UNCHANGED tableVars
  <2>1. PublicQuiet(e) BY <1>1, <1>5, <1>6, PublicKnown DEF PublicQuiet
  <2> QED BY <1>2, <1>4, <2>1, PublicQuietStep
<1>7. CASE Public(e, a) /\ Freed(e, a)
  <2> DEFINE k == view[e][a].committed
  <2>1. /\ UNCHANGED <<issued, parent, uniq, fwd, pub, busy>>
        /\ view'[e][a] = Null /\ k \in Cell
        /\ \A f \in Executor, b \in Address : f # e \/ b # a => view'[f][b] = view[f][b]
        /\ \A f \in Executor, c \in Cell :
              heap'[f][c] = IF f = e /\ c = k THEN Null ELSE heap[f][c]
    BY <1>7 DEF Freed, privateVars
  <2>2. /\ BlockOK(e) /\ k # Null /\ parent[e][k] = Null
        /\ pub[e] # Null => k # pub[e].lp
    <3>1. k # Null BY <2>1, ViewAssumption
    <3>2. BlockOK(e) BY DEF IInv
    <3> QED BY <3>1, <3>2, <1>7 DEF BlockOK
  <2>3. \A f \in Executor, b \in Address : Public(f, b)' =>
          Public(f, b) /\ view'[f][b] = view[f][b] /\ (f # e \/ b # a)
    BY <2>1 DEF Public, Mapped
  <2>4. PublicFrame(e, a)
    <3>1. ~Private(e, a) /\ a \in issued BY HolderFacts
    <3>2. ~Private(e, a)' BY <2>1 DEF Private, Mapped
    <3>3. IsPublic(a)' BY <1>1 DEF IsPublic
    <3>4. \A f \in Executor, c \in Cell :
            heap[f][c] # Null /\ heap'[f][c] = Null => f = e /\ parent[f][c] = Null
      BY <2>1, <2>2
    <3> QED BY <1>1, <2>1, <3>1, <3>2, <3>3, <3>4 DEF PublicFrame
  <2>5. ASSUME NEW b \in Address PROVE HomeOK(b)'
    <3>1. HomeOK(b) BY DEF IInv
    <3>2. \A f \in Executor : Public(f, b)' =>
            view'[f][b].author \in Executor /\ rc[view'[f][b].author][b] # Null
      BY <3>1, <2>3, <1>0 DEF HomeOK, Typed, TypedTables, Public
    <3>3. /\ \A h \in Handle : ptr'[h] # Null /\ ptr'[h].p = b => IsPublic(b)
          /\ \A f \in Executor : busy'[f] # Null /\ busy'[f].p = b => IsPublic(b)
          /\ \A m \in pubPap' : m.p = b => m.author \in Executor /\ rc[m.author][b] # Null
          /\ \A r \in pubDmn' : r.p = b => r.to \in Executor /\ rc[r.to][b] # Null
      BY <2>1, PublicKnown
    <3> QED BY <3>1, <3>2, <3>3, <1>1, HomeStays
  <2>6. OneCall(e)' BY <2>1 DEF IInv, OneCall
  <2>7. BlockOK(e)'
    <3>1. ASSUME NEW b \in Address, Public(e, b)', view'[e][b].committed # Null
          PROVE  /\ heap'[e][view'[e][b].committed] # Null
                 /\ parent'[e][view'[e][b].committed] = Null
                 /\ pub'[e] # Null => view'[e][b].committed # pub'[e].lp
      <4>1. Public(e, b) /\ view'[e][b] = view[e][b] /\ b # a BY <2>3, <3>1
      <4>2. view[e][b].committed # k BY <3>1, <4>1, <1>7, <2>2 DEF BlockOK
      <4>3. view[e][b].committed \in Cell BY <3>1, <4>1, <1>0 DEF Typed, TypedTables, Public
      <4> QED BY <3>1, <4>1, <4>2, <4>3, <2>1, <2>2 DEF BlockOK
    <3>2. ASSUME NEW b \in Address, NEW d \in Address,
                 Public(e, b)', view'[e][b].committed # Null,
                 Public(e, d)', view'[e][d].committed = view'[e][b].committed
          PROVE  b = d
      BY <3>2, <2>2, <2>3 DEF BlockOK
    <3>3. pub'[e] # Null => heap'[e][pub'[e].lp] # Null /\ parent'[e][pub'[e].lp] = Null
      <4>1. pub[e] # Null => pub[e].lp \in Cell BY <1>0 DEF Typed, TypedCalls
      <4> QED BY <4>1, <2>1, <2>2 DEF BlockOK
    <3>4. \A c \in uniq'[e] : parent'[e][c] # Null BY <2>1, <2>2 DEF BlockOK
    <3> QED BY <3>1, <3>2, <3>3, <3>4 DEF BlockOK
  <2> QED BY <1>3, <1>4, <2>4, <2>5, <2>6, <2>7, PublicStep
<1> QED BY <1>1, <1>6, <1>7

LEMMA PublicDropAtHomeStep ==
  ASSUME IInv, NEW e \in Executor, NEW h \in Handle, Idle(e),
         ptr[h] # Null, Pub!AmAuthor(e, ptr[h].p),
         Pub!Drop(e, h), UNCHANGED <<privateVars, pub, lost>>
  PROVE  IInv'
<1>t. PublicTyped BY TypeParts DEF TypesApart, IInv
<1>p. PICK a \in Address : a = ptr[h].p /\ IsPublic(a) BY PublicKnown
<1>1. /\ Pub!Discount(e, a) /\ pubDmn' = pubDmn
      /\ ptr' = [ptr EXCEPT ![h] = Null]
      /\ UNCHANGED <<busy, pubPap, pubMem>>
  BY <1>p DEF Pub!Drop
<1>2. /\ ptr' \in [Handle -> Pub!Pointer \cup {Null}]
      /\ \A j \in Handle : ptr'[j] # Null => ptr'[j] = ptr[j]
  BY <1>1, <1>t DEF PublicTyped
<1> QED BY <1>p, <1>1, <1>2, DiscountStep

LEMMA DmnRcDecStep ==
  ASSUME IInv, NEW r \in pubDmn, Pub!DmnRcDec(r), UNCHANGED <<privateVars, pub, lost>>
  PROVE  IInv'
<1>t. PublicTyped BY TypeParts DEF TypesApart, IInv
<1>p. PICK e \in Executor, a \in Address : e = r.to /\ a = r.p /\ IsPublic(a)
  BY PublicKnown DEF IsPublic
<1>1. /\ Pub!Discount(e, a) /\ pubDmn' \subseteq pubDmn /\ Pub!AmAuthor(e, a)
      /\ UNCHANGED <<ptr, busy, pubPap, pubMem>>
  BY <1>p DEF Pub!DmnRcDec, Pub!Serviceable
<1>2. ptr' \in [Handle -> Pub!Pointer \cup {Null}] BY <1>1, <1>t DEF PublicTyped
<1> QED BY <1>p, <1>1, <1>2, DiscountStep

-----------------------------------------------------------------------------
(* Mistakes: pointers that are lost *)

LEMMA LoseTyped ==
  ASSUME LostTyped, NEW a \in Address, Lose(a)
  PROVE  LostTyped'
<1>1. MaxLost \in Nat BY ContextAssumption
<1>2. lost[a] \in 0 .. MaxLost BY DEF LostTyped
<1>3. lost[a] + 1 \in 0 .. MaxLost BY <1>1, <1>2 DEF Lose
<1>4. lost' = [lost EXCEPT ![a] = lost[a] + 1] BY DEF Lose
<1> QED BY <1>3, <1>4, Set DEF LostTyped

LEMMA PullPrivateAsPublicStep ==
  ASSUME IInv, NEW e \in Executor, NEW m \in pvtPap, PullPrivateAsPublic(e, m)
  PROVE  IInv'
<1>0. TypeOK /\ Typed BY TypeFacts DEF IInv
<1>t. TableTypeOK /\ PrivateTyped /\ PublicTyped /\ PubTyped /\ LostTyped
  BY <1>0, TypeParts DEF TypesApart
<1>p. PICK a \in Address : a = m.p BY <1>0 DEF Typed, TypedPrivate
<1>1. /\ pvtPap' = pvtPap \ {m} /\ Lose(a) /\ Idle(e)
      /\ UNCHANGED <<issued, view, parent, heap, pvt, uniq, fwd, pvtDmn, pvtMem, pub>>
      /\ UNCHANGED publicVars
  BY <1>p DEF PullPrivateAsPublic, tableVars
<1>2. TypeOK'
  <2>1. TableTypeOK' BY <1>1, <1>t DEF TableTypeOK
  <2>2. PrivateTyped' BY <1>1, <1>t DEF PrivateTyped
  <2>3. PublicTyped' /\ PubTyped' BY <1>1, <1>t DEF PublicTyped, PubTyped, publicVars
  <2>4. LostTyped' BY <1>1, <1>t, LoseTyped
  <2> QED BY <2>1, <2>2, <2>3, <2>4, TypePartsNext DEF TypesApart
<1>3. AddressOK(a) /\ KnownPrivate(a) BY <1>p DEF IInv, KnownPrivate
<1>4. PrivateFrame(e, a)
  <2>1. \A f \in Executor, c \in Cell : c \in uniq'[f] => parent'[f][c] # Null
    BY <1>1 DEF IInv, BlockOK
  <2>2. ~Public(e, a) /\ ~Public(e, a)'
    <3>1. ~IsPublic(a) BY <1>3 DEF AddressOK, LevelOK
    <3>2. ~Public(e, a) BY <3>1, <1>0 DEF IInv, HomeOK, IsPublic, Public, Typed, TypedTables
    <3> QED BY <3>2, <1>1, SameMemory
  <2>3. \A n \in pvtPap \cup pvtPap' : n.p # a => n \in pvtPap /\ n \in pvtPap'
    BY <1>1, <1>p
  <2> QED BY <1>1, <2>1, <2>2, <2>3 DEF PrivateFrame
<1>5. AddressOK(a)'
  <2>1. \A f \in Executor : /\ Private(f, a)' <=> Private(f, a)
                            /\ Keeps(f, a)' <=> Keeps(f, a)
                            /\ Open(f, a)' <=> Open(f, a)
                            /\ Loads(f, a)' <=> Loads(f, a)
                            /\ Publishes(f, a)' <=> Publishes(f, a)
                            /\ PublishesAs(f, a)' <=> PublishesAs(f, a)
    BY <1>1, SameMemory DEF Open, Loads, Publishes, PublishesAs
  <2>2. /\ \A f \in Executor : a \notin pvt'[f]
        /\ \A n \in pvtPap' : n.p # a
        /\ ~Alive(a)'
    BY <1>1, <1>p, <1>3 DEF AddressOK, SoleOK, Alive
  <2>3. LevelOK(a)'
    <3>1. UNCHANGED <<rc, pub>> BY <1>1 DEF publicVars
    <3> QED BY <1>1, <1>3, <2>1, <3>1 DEF AddressOK, LevelOK, IsPublic, InPublish
  <2>4. HandleOK(a)' BY <2>2 DEF HandleOK
  <2>5. WaitOK(a)' BY <1>1, <1>3, <2>1 DEF AddressOK, WaitOK
  <2>6. SoleOK(a)' BY <1>3, <2>1, <2>2 DEF AddressOK, SoleOK
  <2>7. ResetOK(a)'
    <3>1. \A r \in pvtDmn : r.to \in Executor BY <1>0 DEF Typed, TypedPrivate
    <3> QED BY <1>1, <1>3, <2>1, <2>2, <3>1 DEF AddressOK, ResetOK
  <2>8. EntryOK(a)' /\ ChildOK(a)'
    BY <1>1, <1>3, <2>1 DEF AddressOK, EntryOK, ChildOK
  <2> QED BY <2>3, <2>4, <2>5, <2>6, <2>7, <2>8 DEF AddressOK
<1>6. OneCall(e)' /\ FetchOK(e)'
  <2>1. UNCHANGED <<fwd, pub, busy>> BY <1>1 DEF publicVars
  <2> QED BY <1>1, <2>1, FetchKept DEF IInv
<1> QED BY <1>2, <1>4, <1>5, <1>6, PrivateStep

LEMMA PullPublicAsPrivateStep ==
  ASSUME IInv, NEW e \in Executor, NEW m \in pubPap, PullPublicAsPrivate(e, m)
  PROVE  IInv'
<1>t. TableTypeOK /\ PrivateTyped /\ PublicTyped /\ PubTyped /\ LostTyped
  BY TypeParts DEF TypesApart, IInv
<1>p. PICK a \in Address : a = m.p /\ IsPublic(a) BY PublicKnown DEF IsPublic
<1>1. /\ pubPap' = pubPap \ {m} /\ Lose(a) /\ Idle(e)
      /\ UNCHANGED <<tableVars, privateVars, ptr, rc, busy, pubDmn, pubMem, pub>>
  BY <1>p DEF PullPublicAsPrivate
<1>2. TypeOK'
  <2>1. TableTypeOK' /\ PrivateTyped' /\ PubTyped'
    BY <1>1, <1>t DEF TableTypeOK, tableVars, PrivateTyped, privateVars, PubTyped
  <2>2. PublicTyped' BY <1>1, <1>t DEF PublicTyped
  <2>3. LostTyped' BY <1>1, <1>t, LoseTyped
  <2> QED BY <2>1, <2>2, <2>3, TypePartsNext DEF TypesApart
<1>3. AskOK(e)' BY <1>1, AskKept DEF IInv
<1>4. PublicQuiet(e) BY <1>1, PublicKnown DEF PublicQuiet, Idle
<1> QED BY <1>2, <1>3, <1>4, <1>p, QuietStep

LEMMA OverwriteStep ==
  ASSUME IInv, NEW e \in Executor, NEW h \in Handle, Overwrite(e, h)
  PROVE  IInv'
<1>t. TableTypeOK /\ PrivateTyped /\ PublicTyped /\ PubTyped /\ LostTyped
  BY TypeParts DEF TypesApart, IInv
<1>p. PICK a \in Address : ptr[h] # Null /\ a = ptr[h].p /\ IsPublic(a)
  BY PublicKnown DEF Overwrite, Pub!HeldBy
<1>1. /\ ptr' = [ptr EXCEPT ![h] = Null] /\ Lose(a) /\ Idle(e)
      /\ UNCHANGED <<tableVars, privateVars, rc, busy, pubPap, pubDmn, pubMem, pub>>
  BY <1>p DEF Overwrite
<1>2. /\ ptr' \in [Handle -> Pub!Pointer \cup {Null}]
      /\ \A j \in Handle : ptr'[j] # Null => ptr'[j] = ptr[j]
  BY <1>1, <1>t DEF PublicTyped
<1>3. TypeOK'
  <2>1. TableTypeOK' /\ PrivateTyped' /\ PubTyped'
    BY <1>1, <1>t DEF TableTypeOK, tableVars, PrivateTyped, privateVars, PubTyped
  <2>2. PublicTyped' BY <1>1, <1>2, <1>t DEF PublicTyped
  <2>3. LostTyped' BY <1>1, <1>t, LoseTyped
  <2> QED BY <2>1, <2>2, <2>3, TypePartsNext DEF TypesApart
<1>4. AskOK(e)' BY <1>1, AskKept DEF IInv
<1>5. PublicQuiet(e) BY <1>1, <1>2, PublicKnown DEF PublicQuiet, Idle
<1> QED BY <1>3, <1>4, <1>5, <1>p, QuietStep

-----------------------------------------------------------------------------
(* publish *)

(* The tables after the entry of a gives way to that of b, with block c,   *)
(* and the private pointer to one public one.                              *)
Binds(e, a, b, c) ==
    /\ view'[e][a] = Null
    /\ Public(e, b)' /\ ~Private(e, b)'
    /\ view'[e][b].committed = c /\ view'[e][b].author = e
    /\ \A f \in Executor, d \in Address :
          /\ ~(f = e /\ d \in {a, b}) => view'[f][d] = view[f][d]
          /\ d \in pvt'[f] <=> d \in pvt[f] /\ ~(f = e /\ d = a)
          /\ rc'[f][d] # Null <=> rc[f][d] # Null \/ (f = e /\ d = b)
    /\ \A h \in Handle : ptr'[h] # Null => ptr'[h] = ptr[h] \/ ptr'[h].p = b

LEMMA BindsEffect ==
  ASSUME IInv, NEW e \in Executor, NEW a \in Address, NEW b \in Address, a # b,
         NEW c \in Cell, Remap(e, a, b, c), Publicize(e, a, b)
  PROVE  /\ view' \in [Executor -> [Address -> Entry \cup {Null}]]
         /\ pvt' \in [Executor -> SUBSET Address]
         /\ rc' \in [Executor -> [Address -> 0 .. RcRange - 1 \cup {Null}]]
         /\ ptr' \in [Handle -> Pub!Pointer \cup {Null}]
         /\ Binds(e, a, b, c)
<1>0. TypeOK /\ Null \notin Address \cup Cell \cup Value \cup Entry
  BY ViewAssumption DEF IInv
<1>t. TableTypeOK /\ PrivateTyped /\ PublicTyped BY <1>0, TypeParts DEF TypesApart
<1>1. PICK h \in Handle :
        /\ view' = [view EXCEPT ![e][a] = Null, ![e][b] = Pub!PublicEntry(e, c)]
        /\ pvt' = [pvt EXCEPT ![e] = @ \ {a}]
        /\ rc' = [rc EXCEPT ![e][b] = 1]
        /\ ptr' = [ptr EXCEPT ![h] = [p |-> b, at |-> e]]
  <2>1. Pub!FreshHandles \subseteq Handle BY DEF Pub!FreshHandles
  <2> QED BY <2>1 DEF Remap, Publicize, Pvt!Release, Pub!RcInit
<1>p. PICK x, l : x = Pub!PublicEntry(e, c) /\ l = [p |-> b, at |-> e] OBVIOUS
<1>2. /\ x \in Entry /\ x.committed = c /\ x.author = e /\ x.access_level = "public"
      /\ l \in Pub!Pointer /\ l.p = b
  BY <1>p DEF Pub!PublicEntry, Entry, AccessLevel, Pub!Pointer
<1>3. /\ view' \in [Executor -> [Address -> Entry \cup {Null}]]
      /\ view'[e][a] = Null /\ view'[e][b] = x
      /\ \A f \in Executor, d \in Address :
            ~(f = e /\ d \in {a, b}) => view'[f][d] = view[f][d]
  <2>1. PICK w : w = [view EXCEPT ![e][a] = Null] OBVIOUS
  <2>2. /\ w \in [Executor -> [Address -> Entry \cup {Null}]]
        /\ w[e][a] = Null
        /\ \A f \in Executor, d \in Address : f # e \/ d # a => w[f][d] = view[f][d]
    BY <2>1, <1>t, Written DEF TableTypeOK
  <2>3. view' = [w EXCEPT ![e][b] = x] BY <1>1, <1>p, <2>1
  <2>4. /\ view' \in [Executor -> [Address -> Entry \cup {Null}]]
        /\ view'[e][b] = x
        /\ \A f \in Executor, d \in Address : f # e \/ d # b => view'[f][d] = w[f][d]
    BY <2>2, <2>3, <1>2, Written
  <2> QED BY <2>2, <2>4
<1>4. /\ pvt' \in [Executor -> SUBSET Address]
      /\ \A f \in Executor, d \in Address : d \in pvt'[f] <=> d \in pvt[f] /\ ~(f = e /\ d = a)
  BY <1>1, <1>t, Removed DEF PrivateTyped
<1>5. 1 \in 0 .. RcRange - 1 /\ 1 # Null
  <2>1. Cardinality(Handle) \in Nat /\ Cardinality(Handle) > 0
    BY ContextAssumption, FS_CardinalityType, FS_EmptySet
  <2>2. /\ RcRange \in Nat /\ MaxLost \in Nat /\ Null \notin 0 .. RcRange - 1
        /\ RcRange > 2 * Cardinality(Handle) + MaxLost
    BY ContextAssumption
  <2>3. 1 \in 0 .. RcRange - 1 BY <2>1, <2>2
  <2> QED BY <2>2, <2>3
<1>6. /\ rc' \in [Executor -> [Address -> 0 .. RcRange - 1 \cup {Null}]]
      /\ rc'[e][b] = 1
      /\ \A f \in Executor, d \in Address : f # e \/ d # b => rc'[f][d] = rc[f][d]
  BY <1>1, <1>5, <1>t, Written DEF PublicTyped
<1>7. /\ ptr' \in [Handle -> Pub!Pointer \cup {Null}]
      /\ \A j \in Handle : ptr'[j] = IF j = h THEN l ELSE ptr[j]
  BY <1>1, <1>p, <1>2, <1>t DEF PublicTyped
<1>8. Public(e, b)' /\ ~Private(e, b)'
  BY <1>0, <1>2, <1>3 DEF Public, Private, Mapped
<1>9. Binds(e, a, b, c)
  <2>1. \A f \in Executor, d \in Address :
           rc'[f][d] # Null <=> rc[f][d] # Null \/ (f = e /\ d = b)
    BY <1>5, <1>6
  <2>2. \A j \in Handle : ptr'[j] # Null => ptr'[j] = ptr[j] \/ ptr'[j].p = b
    BY <1>2, <1>7
  <2> QED BY <1>2, <1>3, <1>4, <1>8, <2>1, <2>2 DEF Binds
<1> QED BY <1>3, <1>4, <1>6, <1>7, <1>9

(* e makes the private address a public, under the address b and in the    *)
(* block c: at the author, or with the memory loaded from there.           *)
Moves(e, a, b, c) ==
    /\ Binds(e, a, b, c)
    /\ UNCHANGED <<uniq, fwd, pvtPap, busy, pubPap, pubDmn, pubMem>>
    /\ a \in pvt[e] /\ fwd[e] = Null /\ busy[e] = Null
    /\ ~KnownPrivate(b) /\ ~IsPublic(b)
    /\ \A f \in Executor : ~Loads(f, b) /\ ~Publishes(f, b)
    /\ \A f \in Executor : PublishesAs(f, b) => f = e
    /\ issued \subseteq issued' /\ b \in issued'
    /\ pub'[e] = Null /\ \A f \in Executor : f # e => pub'[f] = pub[f]
    /\ pub[e] # Null => pub[e].p = a /\ pub[e].as = b
    /\ heap'[e][c] # Null /\ parent'[e][c] = Null
    /\ c \notin uniq[e]
    /\ \A d \in Address : Public(e, d) => view[e][d].committed # c
    /\ \A d \in Cell : parent'[e][d] # a
    /\ \A f \in Executor, d \in Cell :
          /\ parent'[f][d] = parent[f][d]
             \/ (f = e /\ d = c /\ parent[f][d] = a /\ parent'[f][d] = Null)
          /\ heap[f][d] # Null => heap'[f][d] # Null
    /\ \A r \in pvtDmn \cup pvtDmn' : r.p # a => r \in pvtDmn /\ r \in pvtDmn'
    /\ \A r \in pvtDmn' : ~IsReset(r) => r \in pvtDmn
    /\ pvtMem' \subseteq pvtMem

LEMMA MoveStep ==
  ASSUME IInv, TypeOK', NEW e \in Executor, NEW a \in Address, NEW b \in Address, a # b,
         NEW c \in Cell, Moves(e, a, b, c), ResetOK(a)', FetchOK(e)'
  PROVE  IInv'
<1>0. TypeOK /\ Typed /\ Null \notin Address
  BY TypeFacts, ViewAssumption DEF IInv
<1>1. /\ view'[e][a] = Null /\ Public(e, b)' /\ ~Private(e, b)'
      /\ view'[e][b].committed = c /\ view'[e][b].author = e
      /\ \A f \in Executor, d \in Address :
            /\ ~(f = e /\ d \in {a, b}) => view'[f][d] = view[f][d]
            /\ d \in pvt'[f] <=> d \in pvt[f] /\ ~(f = e /\ d = a)
            /\ rc'[f][d] # Null <=> rc[f][d] # Null \/ (f = e /\ d = b)
      /\ \A h \in Handle : ptr'[h] # Null => ptr'[h] = ptr[h] \/ ptr'[h].p = b
  BY DEF Moves, Binds
<1>2. /\ UNCHANGED <<uniq, fwd, pvtPap, busy, pubPap, pubDmn, pubMem>>
      /\ a \in pvt[e] /\ fwd[e] = Null /\ busy[e] = Null
      /\ pub'[e] = Null /\ \A f \in Executor : f # e => pub'[f] = pub[f]
      /\ pub[e] # Null => pub[e].p = a /\ pub[e].as = b
  BY DEF Moves
<1>3. /\ heap'[e][c] # Null /\ parent'[e][c] = Null
      /\ \A d \in Cell : parent'[e][d] # a
      /\ \A f \in Executor, d \in Cell :
            /\ parent'[f][d] = parent[f][d]
               \/ (f = e /\ d = c /\ parent[f][d] = a /\ parent'[f][d] = Null)
            /\ heap[f][d] # Null => heap'[f][d] # Null
  BY DEF Moves
<1>4. /\ ~KnownPrivate(b) /\ ~IsPublic(b)
      /\ \A f \in Executor : ~Private(f, b) /\ b \notin pvt[f]
      /\ \A f \in Executor, d \in Cell : parent[f][d] # b
      /\ \A m \in pvtPap : m.p # b
      /\ \A r \in pvtDmn' : r.p # b
  BY DEF Moves, KnownPrivate
<1>5. \A f \in Executor, d \in Address :
        Public(f, d)' /\ ~(f = e /\ d = b) =>
           Public(f, d) /\ view'[f][d] = view[f][d] /\ ~(f = e /\ d = a)
  <2>1. ~Public(e, a)' BY <1>1 DEF Public, Mapped
  <2> QED BY <1>1, <2>1 DEF Public, Mapped
<1>6. AddressOK(a) /\ KnownPrivate(a) /\ Alive(a)
  BY <1>2 DEF IInv, KnownPrivate, Alive
<1>7. /\ \A f \in Executor : a \in pvt[f] => f = e
      /\ \A n \in pvtPap : n.p # a
      /\ \A f \in Executor : ~Open(f, a)
  BY <1>2, <1>6 DEF AddressOK, SoleOK
<1>8. \A f \in Executor : (f # e => ~Loads(f, a) /\ ~Publishes(f, a)) /\ ~Loads(f, a)
  BY <1>2, <1>6, <1>7 DEF AddressOK, WaitOK, Loads
<1>9. AddressOK(a)'
  <2>1. /\ \A f \in Executor : /\ ~Loads(f, a)' /\ ~Publishes(f, a)'
                               /\ a \notin pvt'[f]
                               /\ PublishesAs(f, a)' => PublishesAs(f, a)
        /\ \A n \in pvtPap' : n.p # a
    BY <1>1, <1>2, <1>7, <1>8 DEF Loads, Publishes, PublishesAs
  <2>2. ~Private(e, a)' BY <1>1 DEF Private, Mapped
  <2>3. \A f \in Executor : f # e => /\ Private(f, a)' <=> Private(f, a)
                                     /\ view'[f][a] = view[f][a]
    BY <1>1 DEF Private, Mapped
  <2>4. \A f \in Executor : ~Open(f, a)'
    <3>1. \A f \in Executor : uniq[f] \subseteq Cell BY <1>0 DEF TypeOK, Pvt!TypeOK
    <3> QED BY <3>1, <1>0, <1>2, <1>3, <1>7 DEF Open
  <2>5. LevelOK(a)'
    <3>1. a \in issued /\ ~IsPublic(a) /\ ~InPublish(a) BY <1>6 DEF AddressOK, LevelOK
    <3>2. a \in issued' BY <3>1 DEF Moves
    <3>3. ~IsPublic(a)' BY <3>1, <1>1 DEF IsPublic
    <3>4. \A f \in Executor : ~PublishesAs(f, a) BY <3>1 DEF InPublish, PublishesAs
    <3>5. ~InPublish(a)' BY <3>4, <2>1 DEF InPublish, PublishesAs
    <3> QED BY <3>2, <3>3, <3>4, <3>5, <2>1 DEF LevelOK
  <2>6. HandleOK(a)' /\ WaitOK(a)' BY <2>1 DEF HandleOK, WaitOK
  <2>7. SoleOK(a)' BY <2>1, <2>4 DEF SoleOK
  <2>8. EntryOK(a)' BY <1>6, <1>8, <2>2, <2>3 DEF AddressOK, EntryOK
  <2>9. ChildOK(a)'
    <3>1. ChildOK(a) BY <1>6 DEF AddressOK
    <3>2. \A f \in Executor : f # e /\ Private(f, a) => view[f][a].child \in Cell \cup {Null}
      BY <1>0 DEF Private, Typed, TypedTables
    <3>3. \A f \in Executor, d \in Cell : parent'[f][d] = a => f # e /\ parent[f][d] = a
      BY <1>0, <1>3
    <3>4. \A f \in Executor, d \in Cell : parent'[f][d] = a => d \notin uniq'[f]
      BY <2>4 DEF Open
    <3>5. \A f \in Executor, d \in Cell : f # e => parent'[f][d] = parent[f][d]
      BY <1>3
    <3> QED BY <3>1, <3>2, <3>3, <3>4, <3>5, <1>3, <2>2, <2>3 DEF ChildOK
  <2> QED BY <2>5, <2>6, <2>7, <2>8, <2>9 DEF AddressOK
<1>10. AddressOK(b)'
  <2>1. \A f \in Executor : ~Private(f, b)' /\ b \notin pvt'[f]
    <3>1. \A f \in Executor : f # e => (Private(f, b)' <=> Private(f, b))
      BY <1>1 DEF Private, Mapped
    <3> QED BY <3>1, <1>1, <1>4
  <2>2. \A f \in Executor, d \in Cell : parent'[f][d] # b BY <1>0, <1>3, <1>4
  <2>3. ~KnownPrivate(b)' BY <2>1, <2>2, <1>2, <1>4 DEF KnownPrivate
  <2>4. \A f \in Executor : ~Loads(f, b)' /\ ~Publishes(f, b)' /\ ~PublishesAs(f, b)'
    <3>1. \A f \in Executor : ~Loads(f, b) /\ ~Publishes(f, b) BY DEF Moves
    <3>2. \A f \in Executor : PublishesAs(f, b) => f = e BY DEF Moves
    <3> QED BY <3>1, <3>2, <1>2 DEF Loads, Publishes, PublishesAs
  <2>5. LevelOK(b)'
    <3>1. b \in issued' BY DEF Moves
    <3>2. ~InPublish(b)' BY <2>4 DEF InPublish, PublishesAs
    <3> QED BY <3>1, <3>2, <2>3, <2>4 DEF LevelOK
  <2>6. Unknown(b)' BY <2>3, <2>4 DEF Unknown
  <2> QED BY <2>5, <2>6, UnknownNext DEF UnknownOK
<1>11. ASSUME NEW d \in Address, d \notin {a, b} PROVE AddressOK(d)'
  <2>1. \A f \in Executor : /\ Private(f, d)' <=> Private(f, d)
                            /\ Private(f, d) => view'[f][d] = view[f][d]
                            /\ d \in pvt'[f] <=> d \in pvt[f]
    BY <1>1, <1>11 DEF Private, Mapped
  <2>2. \A f \in Executor, k \in Cell : parent'[f][k] = d <=> parent[f][k] = d
    BY <1>0, <1>3, <1>11
  <2>3. \A f \in Executor : /\ Loads(f, d)' <=> Loads(f, d)
                            /\ Publishes(f, d)' <=> Publishes(f, d)
                            /\ Publishes(f, d) => pub'[f] = pub[f]
                            /\ PublishesAs(f, d)' <=> PublishesAs(f, d)
    BY <1>2, <1>11 DEF Loads, Publishes, PublishesAs
  <2>4. IsPublic(d)' <=> IsPublic(d) BY <1>1, <1>11 DEF IsPublic
  <2>5. /\ \A r \in pvtDmn \cup pvtDmn' : r.p = d => r \in pvtDmn /\ r \in pvtDmn'
        /\ d \in issued => d \in issued'
    BY <1>11 DEF Moves
  <2>6. SameAt(d) BY <1>2, <1>3, <2>1, <2>2, <2>3, <2>4, <2>5 DEF SameAt
  <2> QED BY <2>6, <1>0, AddressKept DEF IInv
<1>12. HomeOK(b)'
  <2>1. HomeOK(b) BY DEF IInv
  <2>2. \A f \in Executor : rc'[f][b] # Null <=> f = e
    BY <1>1, <1>4 DEF IsPublic
  <2>3. \A f \in Executor : Public(f, b)' => f = e
    <3>1. \A f \in Executor : ~Public(f, b)
      BY <2>1, <1>0, <1>4 DEF HomeOK, IsPublic, Public, Typed, TypedTables
    <3> QED BY <3>1, <1>5
  <2>4. /\ \A f \in Executor : busy[f] # Null => busy[f].p # b
        /\ \A m \in pubPap : m.p # b
        /\ \A r \in pubDmn : r.p # b
    <3>1. \A m \in pubPap : m.author \in Executor BY <1>0 DEF Typed, TypedPublic
    <3>2. \A r \in pubDmn : r.to \in Executor BY <1>0 DEF Typed, TypedPublic
    <3> QED BY <2>1, <3>1, <3>2, <1>4 DEF HomeOK, IsPublic
  <2>5. IsPublic(b)' BY <2>2 DEF IsPublic
  <2> QED BY <2>2, <2>3, <2>4, <2>5, <1>1, <1>2 DEF HomeOK
<1>13. ASSUME NEW d \in Address, d # b PROVE HomeOK(d)'
  <2>1. HomeOK(d) BY DEF IInv
  <2>2. \A f \in Executor : rc'[f][d] # Null <=> rc[f][d] # Null BY <1>1, <1>13
  <2>3. \A f \in Executor : Public(f, d)' =>
           view'[f][d].author \in Executor /\ rc[view'[f][d].author][d] # Null
    BY <1>0, <1>5, <1>13, <2>1 DEF HomeOK, Public, Typed, TypedTables
  <2>4. \A h \in Handle : ptr'[h] # Null /\ ptr'[h].p = d => IsPublic(d)
    BY <1>1, <1>13, <2>1 DEF HomeOK
  <2>5. /\ \A m \in pubPap' : m.p = d => m.author \in Executor /\ rc[m.author][d] # Null
        /\ \A r \in pubDmn' : r.p = d => r.to \in Executor /\ rc[r.to][d] # Null
        /\ \A f \in Executor : busy'[f] # Null /\ busy'[f].p = d => IsPublic(d)
    BY <1>0, <1>2, <2>1 DEF HomeOK, Typed, TypedPublic
  <2> QED BY <2>1, <2>2, <2>3, <2>4, <2>5, HomeStays
<1>14. ASSUME NEW f \in Executor PROVE OneCall(f)' /\ FetchOK(f)'
  <2>1. CASE f = e
    BY <2>1, <1>2 DEF OneCall
  <2>2. CASE f # e
    <3>1. /\ \A r \in pvtDmn' : ~IsReset(r) => r \in pvtDmn
          /\ \A s \in pvtMem' : s \in pvtMem
      BY DEF Moves
    <3> QED BY <2>2, <3>1, <1>2, FetchKept DEF IInv
  <2> QED BY <2>1, <2>2
<1>15. ASSUME NEW f \in Executor PROVE AskOK(f)'
  BY <1>2, AskKept DEF IInv
<1>16. ASSUME NEW f \in Executor PROVE \A k \in uniq'[f] : parent'[f][k] # Null
  <2>1. \A k \in uniq[f] : parent[f][k] # Null BY DEF IInv, BlockOK
  <2>2. uniq[f] \subseteq Cell BY <1>0 DEF TypeOK, Pvt!TypeOK
  <2>3. c \notin uniq[e] BY DEF Moves
  <2> QED BY <2>1, <2>2, <2>3, <1>2, <1>3
<1>17. ASSUME NEW f \in Executor, f # e PROVE BlockOK(f)'
  <2>1. \A d \in Address : Public(f, d)' /\ view'[f][d].committed # Null =>
           Public(f, d) /\ view'[f][d].committed = view[f][d].committed
    BY <1>5, <1>17
  <2>2. \A k \in Cell : heap[f][k] # Null /\ parent[f][k] = Null =>
           heap'[f][k] # Null /\ parent'[f][k] = Null
    BY <1>0, <1>3
  <2>3. pub'[f] # Null => pub'[f] = pub[f] BY <1>2, <1>17
  <2> QED BY <2>1, <2>2, <2>3, <1>0, <1>16, BlockKept DEF IInv
<1>18. BlockOK(e)'
  <2>1. BlockOK(e) BY DEF IInv
  <2>2. ASSUME NEW d \in Address, d # b, Public(e, d)', view'[e][d].committed # Null
        PROVE  /\ Public(e, d) /\ view'[e][d] = view[e][d]
               /\ heap'[e][view'[e][d].committed] # Null
               /\ parent'[e][view'[e][d].committed] = Null
               /\ view'[e][d].committed # c
    <3>1. Public(e, d) /\ view'[e][d] = view[e][d] BY <2>2, <1>5
    <3>2. view[e][d].committed \in Cell
      BY <2>2, <3>1, <1>0 DEF Typed, TypedTables, Public
    <3>3. heap[e][view[e][d].committed] # Null /\ parent[e][view[e][d].committed] = Null
      BY <2>1, <2>2, <3>1 DEF BlockOK
    <3>4. view[e][d].committed # c BY <3>1 DEF Moves
    <3> QED BY <3>1, <3>2, <3>3, <3>4, <1>0, <1>3
  <2>3. ASSUME NEW d \in Address, NEW k \in Address,
               Public(e, d)', view'[e][d].committed # Null,
               Public(e, k)', view'[e][k].committed = view'[e][d].committed
        PROVE  d = k
    <3>1. CASE d = b \/ k = b BY <2>2, <2>3, <3>1, <1>1
    <3>2. CASE d # b /\ k # b BY <2>1, <2>2, <2>3, <3>2 DEF BlockOK
    <3> QED BY <3>1, <3>2
  <2>4. \A d \in Address : Public(e, d)' /\ view'[e][d].committed # Null =>
           /\ heap'[e][view'[e][d].committed] # Null
           /\ parent'[e][view'[e][d].committed] = Null
    BY <2>2, <1>1, <1>3
  <2> QED BY <2>3, <2>4, <1>2, <1>16 DEF BlockOK
<1>19. ASSUME NEW d \in Address PROVE AddressOK(d)' /\ HomeOK(d)'
  BY <1>9, <1>10, <1>11, <1>12, <1>13
<1> QED BY <1>14, <1>15, <1>17, <1>18, <1>19 DEF IInv

LEMMA PublishAtHomeStep ==
  ASSUME IInv, NEW e \in Executor, NEW a \in Address, PublishAtHome(e, a)
  PROVE  IInv'
<1>0. TypeOK /\ Typed /\ Null \notin Address \cup Cell
  BY TypeFacts, ViewAssumption DEF IInv
<1>t. TableTypeOK /\ PrivateTyped /\ PublicTyped /\ PubTyped /\ LostTyped
  BY <1>0, TypeParts DEF TypesApart
<1>p. PICK b \in Address, c \in {view[e][a].committed} :
        /\ b \notin issued /\ c = view[e][a].committed
        /\ issued' = issued \cup {b}
        /\ Remap(e, a, b, c) /\ Publicize(e, a, b)
  BY DEF PublishAtHome, FreshAddresses
<1>1. /\ a \in pvt[e] /\ view[e][a].author = e
      /\ parent' = ParentsWithout(e, a)
      /\ UNCHANGED <<heap, uniq, fwd, pvtPap, pvtDmn, pvtMem,
                     busy, pubPap, pubDmn, pubMem, pub, lost>>
      /\ fwd[e] = Null /\ busy[e] = Null /\ pub[e] = Null
  BY DEF PublishAtHome, Pvt!AmAuthor, Idle
<1>2. AddressOK(a) /\ Alive(a) /\ KnownPrivate(a)
  BY <1>1 DEF IInv, Alive, KnownPrivate
<1>3. /\ Keeps(e, a) /\ c \in Cell /\ c = view[e][a].child
      /\ parent[e][c] = a /\ heap[e][c] # Null
  <2>1. Keeps(e, a) BY <1>1, <1>2 DEF AddressOK, HandleOK, Source
  <2>2. c \in Cell BY <2>1, <1>p, <1>0 DEF Keeps, Private, Typed, TypedTables
  <2> QED BY <2>1, <2>2, <1>0, <1>p, <1>2 DEF AddressOK, EntryOK, ChildOK, Keeps
<1>4. \A d \in Cell : parent[e][d] = a => d = c
  BY <1>2, <1>3 DEF AddressOK, ChildOK
<1>5. /\ parent' \in [Executor -> [Cell -> Address \cup {Null}]]
      /\ parent'[e][c] = Null
      /\ \A f \in Executor, d \in Cell : f # e \/ d # c => parent'[f][d] = parent[f][d]
  <2>1. PICK row : row = [d \in Cell |-> IF d = c THEN Null ELSE parent[e][d]] OBVIOUS
  <2>2. /\ row \in [Cell -> Address \cup {Null}]
        /\ row[c] = Null /\ \A d \in Cell : d # c => row[d] = parent[e][d]
    BY <2>1, <1>3, <1>t DEF TableTypeOK
  <2>3. parent' = [parent EXCEPT ![e] = row]
    BY <2>1, <1>1, <1>3 DEF ParentsWithout, Keeps, Private
  <2>4. parent \in [Executor -> [Cell -> Address \cup {Null}]] BY <1>t DEF TableTypeOK
  <2>5. /\ parent' \in [Executor -> [Cell -> Address \cup {Null}]]
        /\ parent'[e] = row /\ \A f \in Executor : f # e => parent'[f] = parent[f]
    BY <2>2, <2>3, <2>4, Set
  <2> QED BY <2>2, <2>5
<1>6. /\ ~KnownPrivate(b) /\ ~IsPublic(b) /\ ~InPublish(b) /\ Unknown(b) /\ a # b
  BY <1>2, <1>p, FreshAddress
<1>7. /\ view' \in [Executor -> [Address -> Entry \cup {Null}]]
      /\ pvt' \in [Executor -> SUBSET Address]
      /\ rc' \in [Executor -> [Address -> 0 .. RcRange - 1 \cup {Null}]]
      /\ ptr' \in [Handle -> Pub!Pointer \cup {Null}]
      /\ Binds(e, a, b, c)
  BY <1>p, <1>3, <1>6, BindsEffect
<1>8. TypeOK'
  <2>1. TableTypeOK' BY <1>1, <1>5, <1>7, <1>p, <1>t DEF TableTypeOK
  <2>2. PrivateTyped' BY <1>1, <1>7, <1>t DEF PrivateTyped
  <2>3. PublicTyped' BY <1>1, <1>7, <1>t DEF PublicTyped
  <2>4. PubTyped' /\ LostTyped' BY <1>1, <1>t DEF PubTyped, LostTyped
  <2> QED BY <2>1, <2>2, <2>3, <2>4, TypePartsNext DEF TypesApart
<1>9. /\ \A f \in Executor : ~Open(f, a)
      /\ \A r \in pvtDmn : ~(IsReset(r) /\ r.p = a)
  BY <1>2 DEF AddressOK, SoleOK, ResetOK
<1>10. Moves(e, a, b, c)
  <2>1. c \notin uniq[e] BY <1>3, <1>9 DEF Open
  <2>2. \A d \in Address : Public(e, d) => view[e][d].committed # c
    BY <1>0, <1>3 DEF IInv, BlockOK
  <2>3. /\ \A f \in Executor : ~Loads(f, b) /\ ~Publishes(f, b)
        /\ \A f \in Executor : ~PublishesAs(f, b)
    BY <1>6 DEF Unknown, InPublish, PublishesAs
  <2>4. \A d \in Cell : parent'[e][d] # a BY <1>0, <1>4, <1>5
  <2>5. \A f \in Executor, d \in Cell :
          /\ parent'[f][d] = parent[f][d]
             \/ (f = e /\ d = c /\ parent[f][d] = a /\ parent'[f][d] = Null)
          /\ heap[f][d] # Null => heap'[f][d] # Null
    BY <1>1, <1>3, <1>5
  <2>6. heap'[e][c] # Null BY <1>1, <1>3
  <2>7. issued \subseteq issued' /\ b \in issued' BY <1>p
  <2> QED BY <1>1, <1>5, <1>6, <1>7, <2>1, <2>2, <2>3, <2>4, <2>5, <2>6, <2>7 DEF Moves
<1>11. ResetOK(a)' BY <1>1, <1>9 DEF ResetOK
<1>12. FetchOK(e)' BY <1>1, FetchKept DEF IInv
<1> QED BY <1>6, <1>3, <1>8, <1>10, <1>11, <1>12, MoveStep

LEMMA PublishAnswerStep ==
  ASSUME IInv, NEW e \in Executor, NEW s \in pvtMem, PublishAnswer(e, s)
  PROVE  IInv'
<1>0. TypeOK /\ Typed /\ Null \notin Address \cup Cell \cup Value
  BY TypeFacts, ViewAssumption DEF IInv
<1>t. TableTypeOK /\ PrivateTyped /\ PublicTyped /\ PubTyped /\ LostTyped
  BY <1>0, TypeParts DEF TypesApart
<1>p. PICK a \in Address, b \in Address, c \in Cell, y \in Executor :
        pub[e] # Null /\ a = pub[e].p /\ b = pub[e].as /\ c = pub[e].lp /\ y = pub[e].to
  BY <1>0 DEF Typed, TypedCalls, PublishAnswer
<1>r. PICK q : q = [op |-> "PVT_RESET", from |-> e, to |-> y, p |-> a] OBVIOUS
<1>1. /\ s.to = e /\ s.value \in Value
      /\ heap' = [heap EXCEPT ![e][c] = s.value]
      /\ pvtDmn' = pvtDmn \cup {q}
      /\ Remap(e, a, b, c) /\ Publicize(e, a, b)
      /\ pvtMem' = pvtMem \ {s}
      /\ pub' = [pub EXCEPT ![e] = Null]
      /\ UNCHANGED <<issued, parent, uniq, fwd, pvtPap, busy, pubPap, pubDmn, pubMem, lost>>
  <2>1. s.value \in Value BY <1>0 DEF Typed, TypedPrivate
  <2> QED BY <2>1, <1>p, <1>r DEF PublishAnswer, Fill, ReleaseCopy
<1>2. AddressOK(a) /\ AddressOK(b) /\ FetchOK(e) /\ OneCall(e) /\ BlockOK(e)
      /\ Publishes(e, a) /\ PublishesAs(e, b)
  BY <1>p DEF IInv, Publishes, PublishesAs
<1>3. /\ a \in pvt[e] /\ y = view[e][a].author /\ y # e /\ view[e][a].child = Null
      /\ Source(y, a) /\ Private(e, a) /\ Alive(a) /\ KnownPrivate(a)
      /\ fwd[e] = Null /\ busy[e] = Null
  <2>1. a \in pvt[e] /\ y = view[e][a].author /\ y # e /\ view[e][a].child = Null
    BY <1>p, <1>2 DEF AddressOK, WaitOK
  <2>2. Source(y, a) /\ Private(e, a) /\ Alive(a) /\ KnownPrivate(a)
    BY <2>1, <1>2 DEF AddressOK, HandleOK, Alive, KnownPrivate
  <2> QED BY <2>1, <2>2, <1>p, <1>2 DEF OneCall
<1>4. /\ \A f \in Executor : ~Open(f, a)
      /\ \A r \in pvtDmn : ~(IsReset(r) /\ r.p = a)
      /\ \A d \in Cell : parent[e][d] # a
  BY <1>0, <1>2, <1>3 DEF AddressOK, SoleOK, ResetOK, ChildOK
<1>5. /\ heap[e][c] # Null /\ parent[e][c] = Null
      /\ \A d \in Address : Public(e, d) => view[e][d].committed # c
      /\ c \notin uniq[e]
  <2>1. heap[e][c] # Null /\ parent[e][c] = Null BY <1>p, <1>2 DEF BlockOK
  <2>2. \A d \in Address : Public(e, d) => view[e][d].committed # c
    <3>1. c # Null BY ViewAssumption
    <3> QED BY <3>1, <1>p, <1>2 DEF BlockOK
  <2> QED BY <2>1, <2>2, <1>2 DEF BlockOK
<1>6. /\ InPublish(b) /\ b \in issued /\ ~KnownPrivate(b) /\ ~IsPublic(b) /\ a # b
      /\ \A f \in Executor : PublishesAs(f, b) => f = e
  <2>1. InPublish(b) BY <1>2 DEF InPublish, PublishesAs
  <2> QED BY <2>1, <1>2, <1>3 DEF AddressOK, LevelOK
<1>7. /\ view' \in [Executor -> [Address -> Entry \cup {Null}]]
      /\ pvt' \in [Executor -> SUBSET Address]
      /\ rc' \in [Executor -> [Address -> 0 .. RcRange - 1 \cup {Null}]]
      /\ ptr' \in [Handle -> Pub!Pointer \cup {Null}]
      /\ Binds(e, a, b, c)
  BY <1>1, <1>6, BindsEffect
<1>8. /\ heap' \in [Executor -> [Cell -> Value \cup {Null}]]
      /\ heap'[e][c] = s.value
      /\ \A f \in Executor, d \in Cell : f # e \/ d # c => heap'[f][d] = heap[f][d]
  BY <1>1, <1>t, Written DEF TableTypeOK
<1>9. /\ pub' \in [Executor -> Publishing \cup {Null}]
      /\ pub'[e] = Null
      /\ \A f \in Executor : f # e => pub'[f] = pub[f]
  BY <1>1, <1>t DEF PubTyped
<1>10. TypeOK'
  <2>1. TableTypeOK' BY <1>1, <1>7, <1>8, <1>t DEF TableTypeOK
  <2>2. pvtDmn' \subseteq Pvt!Request BY <1>1, <1>r, <1>t DEF PrivateTyped, Pvt!Request
  <2>3. PrivateTyped' BY <2>2, <1>1, <1>7, <1>t DEF PrivateTyped
  <2>4. PublicTyped' BY <1>1, <1>7, <1>t DEF PublicTyped
  <2>5. PubTyped' /\ LostTyped' BY <1>1, <1>9, <1>t DEF PubTyped, LostTyped
  <2> QED BY <2>1, <2>3, <2>4, <2>5, TypePartsNext DEF TypesApart
<1>11. IsReset(q) /\ q.p = a /\ q.to = y /\ q.from = e BY <1>r DEF IsReset
<1>12. Moves(e, a, b, c)
  <2>1. \A f \in Executor : ~Loads(f, b) /\ ~Publishes(f, b)
    <3>1. \A f \in Executor : b \notin pvt[f] BY <1>6 DEF KnownPrivate
    <3> QED BY <3>1, <1>2 DEF AddressOK, WaitOK
  <2>2. \A f \in Executor, d \in Cell : heap[f][d] # Null => heap'[f][d] # Null
    BY <1>0, <1>1, <1>8
  <2>3. heap'[e][c] # Null BY <1>0, <1>1, <1>8
  <2>4. \A f \in Executor, d \in Cell : parent'[f][d] = parent[f][d] BY <1>1
  <2>5. /\ \A r \in pvtDmn \cup pvtDmn' : r.p # a => r \in pvtDmn /\ r \in pvtDmn'
        /\ \A r \in pvtDmn' : ~IsReset(r) => r \in pvtDmn
        /\ pvtMem' \subseteq pvtMem
    BY <1>1, <1>11
  <2> QED BY <1>1, <1>3, <1>4, <1>5, <1>6, <1>7, <1>9, <1>p,
             <2>1, <2>2, <2>3, <2>4, <2>5 DEF Moves
<1>13. ResetOK(a)'
  <2>1. Keeps(y, a)'
    <3>1. view'[y][a] = view[y][a] BY <1>3, <1>7 DEF Binds
    <3> QED BY <3>1, <1>3 DEF Source, Keeps, Private, Mapped
  <2>2. ~Alive(a)'
    <3>1. /\ \A f \in Executor : a \in pvt[f] => f = e
          /\ \A n \in pvtPap : n.p # a
      BY <1>2, <1>3 DEF AddressOK, SoleOK
    <3> QED BY <3>1, <1>1, <1>7 DEF Alive, Binds
  <2>3. \A f \in Executor : ~Open(f, a)' BY <1>1, <1>4 DEF Open
  <2>4. \A r \in pvtDmn' : IsReset(r) /\ r.p = a => r = q BY <1>1, <1>4
  <2> QED BY <2>1, <2>2, <2>3, <2>4, <1>11 DEF ResetOK
<1>14. FetchOK(e)'
  <2>1. /\ \A r \in pvtDmn : r.from = e => IsReset(r)
        /\ \A t \in pvtMem : t.to = e => t = s
    BY <1>1, <1>2 DEF FetchOK
  <2>2. /\ \A r \in pvtDmn' : r.from = e => IsReset(r)
        /\ \A t \in pvtMem' : t.to # e
    BY <1>1, <1>11, <2>1
  <2> QED BY <2>2 DEF FetchOK
<1> QED BY <1>6, <1>10, <1>12, <1>13, <1>14, MoveStep

(* The block and the address of a publish that waits for the memory.       *)
LEMMA PublishRequestStep ==
  ASSUME IInv, NEW e \in Executor, NEW a \in Address, PublishRequest(e, a)
  PROVE  IInv'
<1>0. TypeOK /\ Typed /\ Null \notin Address \cup Cell \cup Value /\ Default \in Value
  BY TypeFacts, ViewAssumption DEF IInv
<1>t. TableTypeOK /\ PrivateTyped /\ PublicTyped /\ PubTyped /\ LostTyped
  BY <1>0, TypeParts DEF TypesApart
<1>p. PICK y : y = view[e][a].author OBVIOUS
<1>q. PICK b \in Address, c \in Cell :
        /\ b \notin issued /\ heap[e][c] = Null
        /\ issued' = issued \cup {b}
        /\ heap' = [heap EXCEPT ![e][c] = Default]
        /\ pub' = [pub EXCEPT ![e] = [p |-> a, as |-> b, lp |-> c, to |-> y]]
  BY <1>p DEF PublishRequest, FreshAddresses, FreeCells
<1>r. PICK l, q : /\ l = [p |-> a, as |-> b, lp |-> c, to |-> y]
                  /\ q = [op |-> "RLOAD", from |-> e, to |-> y, p |-> a]
  OBVIOUS
<1>1. /\ a \in pvt[e] /\ y # e
      /\ pvtDmn' = pvtDmn \cup {q}
      /\ UNCHANGED <<view, parent, pvt, uniq, fwd, pvtPap, pvtMem, publicVars, lost>>
      /\ fwd[e] = Null /\ busy[e] = Null /\ pub[e] = Null
      /\ view[e][a].child = Null
  BY <1>p, <1>r DEF PublishRequest, Pvt!AmOwner, Pvt!AmAuthor, Pvt!RequestTo, Idle
<1>2. UNCHANGED <<ptr, rc, busy, pubPap, pubDmn, pubMem>> BY <1>1 DEF publicVars
<1>3. AddressOK(a) /\ Alive(a) /\ KnownPrivate(a)
  BY <1>1 DEF IInv, Alive, KnownPrivate
<1>4. y \in Executor /\ Private(e, a)
  <2>1. Private(e, a) BY <1>1, <1>3 DEF AddressOK, HandleOK
  <2> QED BY <2>1, <1>0, <1>p DEF Private, Typed, TypedTables
<1>5. /\ ~KnownPrivate(b) /\ ~IsPublic(b) /\ ~InPublish(b) /\ Unknown(b) /\ a # b
      /\ parent[e][c] = Null
  BY <1>3, <1>q, FreshAddress, FreeCell
<1>6. /\ l \in Publishing /\ l # Null
      /\ l.p = a /\ l.as = b /\ l.lp = c /\ l.to = y
  <2>1. l \in Publishing BY <1>r, <1>4 DEF Publishing
  <2>2. Null \notin Publishing BY ContextAssumption
  <2> QED BY <2>1, <2>2, <1>r
<1>7. /\ heap' \in [Executor -> [Cell -> Value \cup {Null}]]
      /\ heap'[e][c] = Default
      /\ \A f \in Executor, d \in Cell : f # e \/ d # c => heap'[f][d] = heap[f][d]
  BY <1>0, <1>q, <1>t, Written DEF TableTypeOK
<1>8. /\ pub' \in [Executor -> Publishing \cup {Null}]
      /\ pub'[e] = l
      /\ \A f \in Executor : f # e => pub'[f] = pub[f]
  BY <1>q, <1>r, <1>t, <1>6, Set DEF PubTyped
<1>9. TypeOK'
  <2>1. TableTypeOK' BY <1>1, <1>7, <1>q, <1>t DEF TableTypeOK
  <2>2. pvtDmn' \subseteq Pvt!Request BY <1>1, <1>4, <1>r, <1>t DEF PrivateTyped, Pvt!Request
  <2>3. PrivateTyped' BY <2>2, <1>1, <1>t DEF PrivateTyped
  <2>4. PublicTyped' BY <1>2, <1>t DEF PublicTyped
  <2>5. PubTyped' /\ LostTyped' BY <1>1, <1>8, <1>t DEF PubTyped, LostTyped
  <2> QED BY <2>1, <2>3, <2>4, <2>5, TypePartsNext DEF TypesApart
<1>10. /\ ~IsReset(q) /\ q.p = a /\ q.to = y /\ q.from = e
       /\ \A r \in pvtDmn' : r \in pvtDmn \/ r = q
       /\ \A r \in pvtDmn : r \in pvtDmn'
  BY <1>1, <1>r DEF IsReset
<1>11. /\ \A f, d : /\ Private(f, d)' <=> Private(f, d)
                    /\ Public(f, d)' <=> Public(f, d)
                    /\ Keeps(f, d)' <=> Keeps(f, d)
                    /\ Source(f, d)' <=> Source(f, d)
                    /\ Open(f, d)' <=> Open(f, d)
                    /\ Loads(f, d)' <=> Loads(f, d)
       /\ \A d : Alive(d)' <=> Alive(d)
       /\ \A d : IsPublic(d)' <=> IsPublic(d)
  BY <1>1, <1>2, SameMemory DEF Open, Loads, Alive, IsPublic
<1>12. \A f \in Executor, d \in Address :
         /\ Publishes(f, d)' <=> Publishes(f, d) \/ (f = e /\ d = a)
         /\ PublishesAs(f, d)' <=> PublishesAs(f, d) \/ (f = e /\ d = b)
  BY <1>1, <1>6, <1>8 DEF Publishes, PublishesAs
<1>13. \A f \in Executor, d \in Cell : heap[f][d] # Null => heap'[f][d] # Null
  BY <1>0, <1>7
<1>14. \A d \in Address : /\ KnownPrivate(d)' <=> KnownPrivate(d)
                          /\ d # b => (InPublish(d)' <=> InPublish(d))
  <2>1. \A d \in Address : (\E r \in pvtDmn' : r.p = d) <=> (\E r \in pvtDmn : r.p = d) \/ d = a
    BY <1>1, <1>10
  <2>2. \A d \in Address : KnownPrivate(d)' <=> KnownPrivate(d)
    BY <2>1, <1>1, <1>3, <1>11 DEF KnownPrivate
  <2>3. \A d \in Address : InPublish(d) <=> \E f \in Executor : PublishesAs(f, d)
    BY DEF InPublish, PublishesAs
  <2>4. \A d \in Address : InPublish(d)' <=> \E f \in Executor : PublishesAs(f, d)'
    BY DEF InPublish, PublishesAs
  <2> QED BY <2>2, <2>3, <2>4, <1>12
<1>15. AddressOK(a)'
  <2>1. LevelOK(a)'
    <3>1. a \in issued' BY <1>3, <1>q DEF AddressOK, LevelOK
    <3> QED BY <3>1, <1>3, <1>5, <1>11, <1>12, <1>14 DEF AddressOK, LevelOK
  <2>2. HandleOK(a)' BY <1>1, <1>3, <1>11 DEF AddressOK, HandleOK
  <2>3. WaitOK(a)'
    <3>1. WaitOK(a) BY <1>3 DEF AddressOK
    <3>2. \A f \in Executor : Loads(f, a)' =>
             /\ a \in pvt'[f] /\ fwd'[f].to = view'[f][a].author /\ fwd'[f].to # f
             /\ view'[f][a].child = fwd'[f].lp
      BY <3>1, <1>1, <1>11 DEF WaitOK
    <3>3. \A f \in Executor : Publishes(f, a)' =>
             /\ a \in pvt'[f] /\ pub'[f].to = view'[f][a].author /\ pub'[f].to # f
             /\ view'[f][a].child = Null
      BY <3>1, <1>1, <1>p, <1>6, <1>8, <1>12 DEF WaitOK
    <3> QED BY <3>2, <3>3 DEF WaitOK
  <2>4. SoleOK(a)' BY <1>1, <1>3, <1>11 DEF AddressOK, SoleOK
  <2>5. ResetOK(a)'
    <3>1. \A r \in pvtDmn' : IsReset(r) => r \in pvtDmn BY <1>10
    <3> QED BY <3>1, <1>3, <1>11 DEF AddressOK, ResetOK
  <2>6. EntryOK(a)' BY <1>1, <1>3, <1>11 DEF AddressOK, EntryOK
  <2>7. ChildOK(a)' BY <1>1, <1>3, <1>11, <1>13 DEF AddressOK, ChildOK
  <2> QED BY <2>1, <2>2, <2>3, <2>4, <2>5, <2>6, <2>7 DEF AddressOK
<1>16. AddressOK(b)'
  <2>1. LevelOK(b)'
    <3>1. b \in issued' BY <1>q
    <3>2. \A f \in Executor : PublishesAs(f, b)' => f = e
      BY <1>5, <1>12 DEF InPublish, PublishesAs
    <3> QED BY <3>1, <3>2, <1>5, <1>11, <1>14 DEF LevelOK
  <2>2. Unknown(b)' BY <1>5, <1>11, <1>12, <1>14 DEF Unknown
  <2> QED BY <2>1, <2>2, <1>9, UnknownNext DEF UnknownOK
<1>17. ASSUME NEW d \in Address, d \notin {a, b} PROVE AddressOK(d)'
  <2>1. \A f \in Executor : /\ Publishes(f, d)' <=> Publishes(f, d)
                            /\ Publishes(f, d) => pub'[f] = pub[f]
                            /\ PublishesAs(f, d)' <=> PublishesAs(f, d)
    BY <1>1, <1>8, <1>12, <1>17 DEF Publishes
  <2>2. \A r \in pvtDmn \cup pvtDmn' : r.p = d => r \in pvtDmn /\ r \in pvtDmn'
    BY <1>10, <1>17
  <2>3. d \in issued => d \in issued' BY <1>q
  <2>4. SameAt(d) BY <1>1, <1>11, <1>13, <2>1, <2>2, <2>3 DEF SameAt
  <2> QED BY <2>4, <1>0, <1>9, AddressKept DEF IInv
<1>18. ASSUME NEW d \in Address PROVE HomeOK(d)'
  BY <1>1, <1>11, HomeKept DEF IInv
<1>19. OneCall(e)' /\ FetchOK(e)'
  <2>1. \A t, d : ~Fetches(e, t, d) BY <1>1 DEF Fetches, Loads, Publishes
  <2>2. /\ \A r \in pvtDmn : r.from = e => IsReset(r)
        /\ \A s \in pvtMem : s.to # e
    BY <2>1 DEF IInv, FetchOK
  <2>3. \A r \in pvtDmn' : r.from = e /\ ~IsReset(r) => r = q BY <1>10, <2>2
  <2>4. Fetches(e, q.to, q.p)' BY <1>6, <1>8, <1>10 DEF Fetches, Publishes
  <2>5. OneCall(e)' BY <1>1, <1>2 DEF OneCall
  <2>6. \A s \in pvtMem' : s.to # e BY <1>1, <2>2
  <2> QED BY <2>3, <2>4, <2>5, <2>6 DEF FetchOK
<1>20. ASSUME NEW f \in Executor, f # e PROVE OneCall(f)' /\ FetchOK(f)'
  <2>1. \A r \in pvtDmn' : r.from = f => r \in pvtDmn BY <1>10, <1>20
  <2> QED BY <2>1, <1>1, <1>2, <1>8, <1>20, FetchKept DEF IInv
<1>21. ASSUME NEW f \in Executor PROVE AskOK(f)'
  BY <1>2, AskKept DEF IInv
<1>22. ASSUME NEW f \in Executor, f # e PROVE BlockOK(f)'
  <2>1. \A k \in uniq'[f] : parent'[f][k] # Null BY <1>1 DEF IInv, BlockOK
  <2>2. \A d \in Address : Public(f, d)' /\ view'[f][d].committed # Null =>
           Public(f, d) /\ view'[f][d].committed = view[f][d].committed
    BY <1>1, <1>11
  <2> QED BY <2>1, <2>2, <1>0, <1>1, <1>8, <1>13, <1>22, BlockKept DEF IInv
<1>23. BlockOK(e)'
  <2>1. BlockOK(e) BY DEF IInv
  <2>2. \A d \in Address : Public(e, d)' /\ view'[e][d].committed # Null =>
          /\ heap'[e][view'[e][d].committed] # Null
          /\ parent'[e][view'[e][d].committed] = Null
          /\ view'[e][d].committed # c
    <3>1. \A d \in Address : Public(e, d) /\ view[e][d].committed # Null =>
             view[e][d].committed \in Cell
      BY <1>0 DEF Typed, TypedTables, Public
    <3> QED BY <3>1, <2>1, <1>1, <1>11, <1>13, <1>q DEF BlockOK
  <2>3. heap'[e][c] # Null /\ parent'[e][c] = Null BY <1>0, <1>1, <1>5, <1>7
  <2>4. \A k \in uniq'[e] : parent'[e][k] # Null BY <2>1, <1>1 DEF BlockOK
  <2>5. \A d, k \in Address : /\ Public(e, d)' /\ view'[e][d].committed # Null
                              /\ Public(e, k)' /\ view'[e][k].committed = view'[e][d].committed
                              => d = k
    BY <2>1, <1>1, <1>11 DEF BlockOK
  <2> QED BY <2>2, <2>3, <2>4, <2>5, <1>6, <1>8 DEF BlockOK
<1>24. ASSUME NEW d \in Address PROVE AddressOK(d)' /\ HomeOK(d)'
  BY <1>15, <1>16, <1>17, <1>18
<1> QED BY <1>9, <1>19, <1>20, <1>21, <1>22, <1>23, <1>24 DEF IInv

-----------------------------------------------------------------------------
(* The invariant *)

LEMMA InitOK == Init => IInv
<1> SUFFICES ASSUME Init PROVE IInv OBVIOUS
<1>0. Null \notin Address \cup Cell BY ViewAssumption
<1>1. /\ issued = {}
      /\ view = [e \in Executor |-> [a \in Address |-> Null]]
      /\ parent = [e \in Executor |-> [c \in Cell |-> Null]]
      /\ heap = [e \in Executor |-> [c \in Cell |-> Null]]
  BY DEF Init, Pvt!Init, Pvt!TableInit
<1>2. /\ pvt = [e \in Executor |-> {}]
      /\ uniq = [e \in Executor |-> {}]
      /\ fwd = [e \in Executor |-> Null]
      /\ pvtPap = {} /\ pvtDmn = {} /\ pvtMem = {}
  BY DEF Init, Pvt!Init
<1>3. /\ ptr = [h \in Handle |-> Null]
      /\ rc = [e \in Executor |-> [a \in Address |-> Null]]
      /\ busy = [e \in Executor |-> Null]
      /\ pubPap = {} /\ pubDmn = {} /\ pubMem = {}
  BY DEF Init, Pub!Init
<1>4. pub = [e \in Executor |-> Null] /\ lost = [a \in Address |-> 0] BY DEF Init
<1>5. TypeOK
  <2>1. TableTypeOK BY <1>1 DEF TableTypeOK
  <2>2. PrivateTyped BY <1>2 DEF PrivateTyped
  <2>3. PublicTyped BY <1>3 DEF PublicTyped
  <2>4. PubTyped BY <1>4 DEF PubTyped
  <2>5. LostTyped
    <3>1. 0 \in 0 .. MaxLost BY ContextAssumption
    <3> QED BY <3>1, <1>4 DEF LostTyped
  <2> QED BY <2>1, <2>2, <2>3, <2>4, <2>5, TypeParts DEF TypesApart
<1>6. \A e \in Executor : /\ \A a \in Address : view[e][a] = Null /\ rc[e][a] = Null
                          /\ \A c \in Cell : parent[e][c] = Null
                          /\ pvt[e] = {} /\ uniq[e] = {} /\ fwd[e] = Null
                          /\ busy[e] = Null /\ pub[e] = Null
  BY <1>1, <1>2, <1>3, <1>4
<1>7. ASSUME NEW a \in Address PROVE AddressOK(a) /\ HomeOK(a)
  <2>1. ~KnownPrivate(a)
    BY <1>0, <1>2, <1>6 DEF KnownPrivate, Private, Mapped
  <2>2. ~IsPublic(a) /\ ~InPublish(a) BY <1>6 DEF IsPublic, InPublish
  <2>3. LevelOK(a) BY <2>1, <2>2, <1>6 DEF LevelOK, PublishesAs
  <2>4. Unknown(a) BY <2>1, <1>6 DEF Unknown, Loads, Publishes
  <2>5. HomeOK(a) BY <1>3, <1>6 DEF HomeOK, Public, Mapped
  <2> QED BY <2>3, <2>4, <2>5, <1>5, AddressUnknown
<1>8. ASSUME NEW e \in Executor PROVE OneCall(e) /\ FetchOK(e) /\ AskOK(e) /\ BlockOK(e)
  <2>1. OneCall(e) BY <1>6 DEF OneCall
  <2>2. FetchOK(e) BY <1>2 DEF FetchOK
  <2>3. AskOK(e) BY <1>3 DEF AskOK
  <2>4. BlockOK(e) BY <1>6 DEF BlockOK, Public, Mapped
  <2> QED BY <2>1, <2>2, <2>3, <2>4
<1> QED BY <1>5, <1>7, <1>8 DEF IInv

(* The steps that change nothing.                                          *)
LEMMA StutterStep == ASSUME IInv, UNCHANGED vars PROVE IInv'
<1>1. /\ UNCHANGED <<issued, view, parent, heap>>
      /\ UNCHANGED <<pvt, uniq, fwd, pvtPap, pvtDmn, pvtMem>>
      /\ UNCHANGED <<ptr, rc, busy, pubPap, pubDmn, pubMem, pub, lost>>
  BY DEF vars, tableVars, privateVars, publicVars
<1>2. TypeOK'
  <2>1. TableTypeOK /\ PrivateTyped /\ PublicTyped /\ PubTyped /\ LostTyped
    BY TypeParts DEF TypesApart, IInv
  <2>2. TableTypeOK' BY <2>1, <1>1 DEF TableTypeOK
  <2>3. PrivateTyped' BY <2>1, <1>1 DEF PrivateTyped
  <2>4. PublicTyped' BY <2>1, <1>1 DEF PublicTyped
  <2>5. PubTyped' /\ LostTyped' BY <2>1, <1>1 DEF PubTyped, LostTyped
  <2> QED BY <2>2, <2>3, <2>4, <2>5, TypePartsNext DEF TypesApart
<1>3. \A a \in Address : AddressOK(a) /\ HomeOK(a) BY DEF IInv
<1>4. /\ \A f, a : /\ Private(f, a)' <=> Private(f, a)
                   /\ Public(f, a)' <=> Public(f, a)
                   /\ Loads(f, a)' <=> Loads(f, a)
                   /\ Publishes(f, a)' <=> Publishes(f, a)
                   /\ PublishesAs(f, a)' <=> PublishesAs(f, a)
      /\ \A f, t, a : Fetches(f, t, a)' <=> Fetches(f, t, a)
      /\ \A a : IsPublic(a)' <=> IsPublic(a)
  BY <1>1, SameMemory DEF Loads, Publishes, PublishesAs, Fetches, IsPublic
<1>5. ASSUME NEW a \in Address PROVE AddressOK(a)' /\ HomeOK(a)'
  <2>1. SameAt(a) BY <1>1, <1>4 DEF SameAt
  <2>2. AddressOK(a)' BY <2>1, <1>2, AddressKept DEF IInv
  <2>3. HomeOK(a)' BY <1>1, <1>4, HomeKept DEF IInv, publicVars
  <2> QED BY <2>2, <2>3
<1>6. ASSUME NEW e \in Executor
      PROVE  OneCall(e)' /\ FetchOK(e)' /\ AskOK(e)' /\ BlockOK(e)'
  <2>1. OneCall(e)' /\ FetchOK(e)' BY <1>1, FetchKept DEF IInv
  <2>2. AskOK(e)' BY <1>1, AskKept DEF IInv
  <2>3. BlockOK(e)' BY <1>1, <1>4 DEF IInv, BlockOK
  <2> QED BY <2>1, <2>2, <2>3
<1> QED BY <1>2, <1>5, <1>6 DEF IInv

LEMMA PrivateUserStep ==
  ASSUME IInv, NEW e \in Executor, PrivateUser(e)
  PROVE  IInv'
<1>0. Idle(e) /\ UNCHANGED <<publicVars, pub, lost>> BY DEF PrivateUser
<1>1. ASSUME NEW v \in Content, Pvt!Make(e, v) PROVE IInv'
  <2>1. v \in Value BY <1>1, ContextAssumption
  <2> QED BY <1>0, <1>1, <2>1, MakeStep
<1>2. ASSUME NEW c \in Cell, Pvt!DropUnique(e, c) PROVE IInv'
  BY <1>0, <1>2, DropUniqueStep
<1>3. ASSUME NEW a \in Address, Pvt!LocalAtHome(e, a) PROVE IInv'
  BY <1>0, <1>3, LocalAtHomeStep
<1>4. ASSUME NEW a \in Address, Pvt!LocalRequest(e, a) PROVE IInv'
  BY <1>0, <1>4, LocalRequestStep
<1>5. ASSUME NEW a \in Address, Pvt!Drop(e, a) PROVE IInv'
  <2>1. CASE Pvt!AmAuthor(e, a) BY <1>0, <1>5, <2>1, DropAtHomeStep
  <2>2. CASE ~Pvt!AmAuthor(e, a) BY <1>0, <1>5, <2>2, DropAwayStep
  <2> QED BY <2>1, <2>2
<1>6. ASSUME NEW a \in Address, NEW t \in Executor, Pvt!Push(e, a, t) PROVE IInv'
  BY <1>0, <1>6, PushStep
<1>7. ASSUME NEW m \in pvtPap, Pvt!Pull(e, m) PROVE IInv'
  BY <1>0, <1>7, PullStep
<1> QED BY <1>1, <1>2, <1>3, <1>4, <1>5, <1>6, <1>7 DEF PrivateUser

LEMMA PublicUserStep ==
  ASSUME IInv, NEW e \in Executor, PublicUser(e)
  PROVE  IInv'
<1>0. Idle(e) /\ Pub!User(e) /\ UNCHANGED <<privateVars, pub, lost>> BY DEF PublicUser
<1>1. ASSUME NEW v \in Value, Pub!Make(e, v) PROVE IInv'
  BY <1>0, <1>1, PublicMakeStep
<1>2. ASSUME NEW h \in Handle, Pub!Copy(e, h) PROVE IInv'
  BY <1>0, <1>2, PublicCopyStep
<1>3. ASSUME NEW h \in Handle, NEW t \in Executor, Pub!Push(e, h, t) PROVE IInv'
  BY <1>0, <1>3, PublicPushStep
<1>4. ASSUME NEW h \in Handle, ptr[h] # Null, Pub!Drop(e, h) PROVE IInv'
  <2>1. CASE Pub!AmAuthor(e, ptr[h].p) BY <1>0, <1>4, <2>1, PublicDropAtHomeStep
  <2>2. CASE ~Pub!AmAuthor(e, ptr[h].p) BY <1>0, <1>4, <2>2, PublicDropAwayStep
  <2> QED BY <2>1, <2>2
<1>5. ASSUME NEW h \in Handle, NEW op \in {"RLOAD", "RC_GET"}, Pub!Ask(e, h, op)
      PROVE  IInv'
  BY <1>0, <1>5, PublicAskStep
<1>6. ASSUME NEW m \in pubPap, Pub!Pull(e, m) PROVE IInv'
  BY <1>0, <1>6, PublicPullStep
<1> QED BY <1>0, <1>1, <1>2, <1>3, <1>4, <1>5, <1>6 DEF Pub!User

LEMMA NextStep == IInv /\ [Next]_vars => IInv'
<1> SUFFICES ASSUME IInv, [Next]_vars PROVE IInv' OBVIOUS
<1>1. ASSUME NEW e \in Executor, PrivateUser(e) PROVE IInv'
  BY <1>1, PrivateUserStep
<1>2. ASSUME NEW e \in Executor, PublicUser(e) PROVE IInv'
  BY <1>2, PublicUserStep
<1>3. ASSUME NEW e \in Executor, Both(e) PROVE IInv'
  <2>1. ASSUME NEW a \in Address, PublishAtHome(e, a) PROVE IInv'
    BY <2>1, PublishAtHomeStep
  <2>2. ASSUME NEW a \in Address, PublishRequest(e, a) PROVE IInv'
    BY <2>2, PublishRequestStep
  <2>3. ASSUME NEW m \in pvtPap, PullPrivateAsPublic(e, m) PROVE IInv'
    BY <2>3, PullPrivateAsPublicStep
  <2>4. ASSUME NEW m \in pubPap, PullPublicAsPrivate(e, m) PROVE IInv'
    BY <2>4, PullPublicAsPrivateStep
  <2>5. ASSUME NEW h \in Handle, Overwrite(e, h) PROVE IInv'
    BY <2>5, OverwriteStep
  <2> QED BY <1>3, <2>1, <2>2, <2>3, <2>4, <2>5 DEF Both
<1>4. ASSUME NEW e \in Executor, Resume(e) PROVE IInv'
  <2>1. ASSUME Pvt!Answered(e), UNCHANGED <<publicVars, pub, lost>> PROVE IInv'
    BY <2>1, LocalAnswerStep DEF Pvt!Answered
  <2>2. ASSUME Pub!Answered(e), UNCHANGED <<privateVars, pub, lost>> PROVE IInv'
    BY <2>2, PublicAnsweredStep
  <2>3. ASSUME Pub!PushCount(e), UNCHANGED <<privateVars, pub, lost>> PROVE IInv'
    BY <2>3, PublicPushCountStep
  <2>4. ASSUME NEW s \in pvtMem, PublishAnswer(e, s) PROVE IInv'
    BY <2>4, PublishAnswerStep
  <2> QED BY <1>4, <2>1, <2>2, <2>3, <2>4 DEF Resume
<1>5. ASSUME NEW e \in Executor, PrivateDaemon(e) PROVE IInv'
  <2>1. UNCHANGED <<publicVars, pub, lost>> BY <1>5 DEF PrivateDaemon
  <2>2. PICK r \in pvtDmn : Pvt!DmnRload(r) \/ Pvt!DmnPvtReset(r)
    BY <1>5 DEF PrivateDaemon, Pvt!Daemon
  <2> QED BY <2>1, <2>2, DmnRloadStep, DmnResetStep
<1>6. ASSUME NEW r \in pubDmn, PublicDaemon(r) PROVE IInv'
  <2>1. UNCHANGED <<privateVars, pub, lost>> BY <1>6 DEF PublicDaemon
  <2>2. Pub!DmnRcInc(r) \/ Pub!DmnRcDec(r) \/ Pub!DmnReply(r)
    BY <1>6 DEF PublicDaemon, Pub!Handled
  <2> QED BY <2>1, <2>2, DmnRcIncStep, DmnRcDecStep, DmnReplyStep
<1>7. ASSUME Finished PROVE IInv'
  <2>1. UNCHANGED vars
    BY <1>7 DEF Finished, Pvt!Finished, Pub!Finished, Pvt!vars, Pub!vars, vars,
                Pvt!tableVars, Pvt!userVars, Pvt!linkVars, Pub!tableVars, Pub!linkVars,
                tableVars, privateVars, publicVars
  <2> QED BY <2>1, StutterStep
<1>8. ASSUME UNCHANGED vars PROVE IInv'
  BY <1>8, StutterStep
<1> QED BY <1>1, <1>2, <1>3, <1>4, <1>5, <1>6, <1>7, <1>8 DEF Next

-----------------------------------------------------------------------------
(* What follows *)

(* The invariant holds in every reachable state: of each address what its  *)
(* pointers, entries and messages agree on, of each executor its call and  *)
(* its blocks.                                                             *)
THEOREM Invariant == Spec => []IInv
<1>1. Init => IInv BY InitOK
<1>2. IInv /\ [Next]_vars => IInv' BY NextStep
<1> QED BY <1>1, <1>2, PTL DEF Spec

(* The tables, the pointers, the counts, the messages and the calls under  *)
(* way are well-formed whatever the applications do with both kinds of     *)
(* pointers.                                                               *)
THEOREM Types == Spec => []TypeOK
<1>1. IInv => TypeOK BY DEF IInv
<1> QED BY <1>1, Invariant, PTL

LEMMA FetchedOK ==
  ASSUME IInv, NEW f \in Executor, NEW e \in Executor, NEW a \in Address, Fetches(f, e, a)
  PROVE  a \in pvt[f] /\ Keeps(e, a) /\ e # f
<1>1. AddressOK(a) BY DEF IInv
<1>2. a \in pvt[f] /\ e = view[f][a].author /\ e # f
  BY <1>1 DEF Fetches, Loads, Publishes, AddressOK, WaitOK
<1>3. Keeps(e, a) BY <1>1, <1>2 DEF AddressOK, HandleOK, Source
<1> QED BY <1>2, <1>3

LEMMA AtMostOne ==
  ASSUME NEW S, \A s, t \in S : s = t
  PROVE  Cardinality(S) = IF S = {} THEN 0 ELSE 1
<1>1. CASE S = {} BY <1>1, FS_EmptySet
<1>2. CASE S # {}
  <2>1. PICK s : s \in S BY <1>2
  <2>2. S = {s} BY <2>1
  <2>3. Cardinality({s}) = 1 BY FS_Singleton
  <2> QED BY <1>2, <2>2, <2>3
<1> QED BY <1>1, <1>2

(* A thread never takes the answer to one call for that to another: it has *)
(* one call, and what comes on the link of answers is from whom it asked.  *)
THEOREM OneAnswer == Spec => []AnswersApart
<1>1. ASSUME IInv PROVE AnswersApart
  <2>0. Typed BY <1>1, TypeFacts DEF IInv
  <2>1. ASSUME NEW s \in pvtMem
        PROVE  \/ fwd[s.to] # Null /\ fwd[s.to].to = s.from
               \/ pub[s.to] # Null /\ pub[s.to].to = s.from
    <3>1. s.to \in Executor BY <2>0 DEF Typed, TypedPrivate
    <3>2. PICK a \in Address : Fetches(s.to, s.from, a) BY <1>1, <3>1 DEF IInv, FetchOK
    <3> QED BY <3>2 DEF Fetches, Loads, Publishes
  <2>2. ASSUME NEW s \in pubMem PROVE Pub!IsAsking(s.to) /\ busy[s.to].to = s.from
    <3>1. s.to \in Executor BY <2>0 DEF Typed, TypedPublic
    <3>2. Asks(s.to, s.op, s.from) BY <1>1, <3>1 DEF IInv, AskOK
    <3> QED BY <3>2 DEF Asks
  <2>3. ASSUME NEW e \in Executor
        PROVE  Cardinality({s \in pvtMem : s.to = e})
               + Cardinality({s \in pubMem : s.to = e}) <= 1
    <3>0. OneCall(e) /\ FetchOK(e) /\ AskOK(e) BY <1>1 DEF IInv
    <3>p. PICK S, T : S = {s \in pvtMem : s.to = e} /\ T = {s \in pubMem : s.to = e}
      OBVIOUS
    <3>1. Cardinality(S) = IF S = {} THEN 0 ELSE 1
      <4>1. \A s, t \in S : s = t BY <3>p, <3>0 DEF FetchOK
      <4> QED BY <4>1, AtMostOne
    <3>2. Cardinality(T) = IF T = {} THEN 0 ELSE 1
      <4>1. \A s, t \in T : s = t BY <3>p, <3>0 DEF AskOK
      <4> QED BY <4>1, AtMostOne
    <3>3. S = {} \/ T = {}
      <4> SUFFICES ASSUME NEW s \in S, NEW t \in T PROVE FALSE OBVIOUS
      <4>1. fwd[e] # Null \/ pub[e] # Null BY <2>1, <3>p
      <4>2. busy[e] # Null BY <2>2, <3>p DEF Pub!IsAsking
      <4> QED BY <4>1, <4>2, <3>0 DEF OneCall
    <3>4. Cardinality(S) + Cardinality(T) <= 1 BY <3>1, <3>2, <3>3
    <3> QED BY <3>p, <3>4
  <2> QED BY <2>1, <2>2, <2>3 DEF AnswersApart
<1> QED BY <1>1, Invariant, PTL

(* The user thread and the daemon of an executor never work on the entry   *)
(* of one private address: a request names an address whose capability is  *)
(* elsewhere, and that this executor does not publish.                     *)
THEOREM EntriesApart == Spec => []EntryRaceFree
<1>1. ASSUME IInv PROVE EntryRaceFree
  <2>1. ASSUME NEW r \in pvtDmn
        PROVE  /\ ~Pvt!HeldBy(r.to, r.p) /\ ~Pvt!OpenAt(r.to, r.p)
               /\ pub[r.to] = Null \/ pub[r.to].p # r.p
    <3>0. r.to \in Executor /\ r.from \in Executor /\ r.p \in Address
      BY <1>1, TypeFacts DEF IInv, Typed, TypedPrivate
    <3>1. AddressOK(r.p) /\ FetchOK(r.from) BY <1>1, <3>0 DEF IInv
    <3>2. r.p \notin pvt[r.to] /\ ~Open(r.to, r.p)
      <4>1. CASE IsReset(r) BY <3>0, <3>1, <4>1 DEF AddressOK, ResetOK, Alive
      <4>2. CASE ~IsReset(r)
        <5>1. Fetches(r.from, r.to, r.p) BY <3>1, <4>2 DEF FetchOK
        <5>2. r.p \in pvt[r.from] /\ r.to # r.from BY <1>1, <3>0, <5>1, FetchedOK
        <5> QED BY <3>0, <3>1, <5>2 DEF AddressOK, SoleOK, Alive
      <4> QED BY <4>1, <4>2
    <3>3. ~Publishes(r.to, r.p) BY <3>0, <3>1, <3>2 DEF AddressOK, WaitOK
    <3> QED BY <3>2, <3>3 DEF Pvt!HeldBy, Pvt!OpenAt, Open, Publishes
  <2> QED BY <2>1 DEF EntryRaceFree, Pvt!EntryRaceFree
<1> QED BY <1>1, Invariant, PTL

(* No assert on private memory fails: a request finds the author with its  *)
(* memory, the holder of a private pointer owns the entry, and publish     *)
(* finds a child with a parent at the author, and none elsewhere.          *)
THEOREM PrivateAssertsNeverFail == Spec => []PrivateAsserts
<1>1. ASSUME IInv PROVE PrivateAsserts
  <2>0. Typed /\ Null \notin Cell BY <1>1, TypeFacts, ViewAssumption DEF IInv
  <2>1. Pvt!DaemonAsserts
    <3> SUFFICES ASSUME NEW r \in pvtDmn PROVE Pvt!Serviceable(r)
      BY DEF Pvt!DaemonAsserts
    <3>0. r.to \in Executor /\ r.from \in Executor /\ r.p \in Address
      BY <2>0 DEF Typed, TypedPrivate
    <3>1. AddressOK(r.p) /\ FetchOK(r.from) BY <1>1, <3>0 DEF IInv
    <3>2. Keeps(r.to, r.p)
      <4>1. CASE IsReset(r) BY <3>1, <4>1 DEF AddressOK, ResetOK
      <4>2. CASE ~IsReset(r)
        <5>1. Fetches(r.from, r.to, r.p) BY <3>1, <4>2 DEF FetchOK
        <5> QED BY <1>1, <3>0, <5>1, FetchedOK
      <4> QED BY <4>1, <4>2
    <3> QED BY <3>2 DEF Keeps, Private, Mapped, Pvt!Serviceable, Pvt!AmAuthor,
                        Pvt!Backs, Pvt!Mapped
  <2>2. ASSUME NEW e \in Executor, NEW a \in pvt[e]
        PROVE  /\ Private(e, a) /\ view[e][a].owner = e /\ ~IsPublic(a)
               /\ view[e][a].author = e =>
                     /\ view[e][a].committed # Null
                     /\ view[e][a].committed = view[e][a].child
                     /\ parent[e][view[e][a].committed] = a
                     /\ heap[e][view[e][a].committed] # Null
                     /\ parent[e][view[e][a].child] # Null
               /\ view[e][a].author # e =>
                     /\ view[e][a].committed = Null
                     /\ Idle(e) => view[e][a].child = Null
    <3>0. a \in Address BY <1>1 DEF IInv, TypeOK, Pvt!TypeOK
    <3>1. AddressOK(a) /\ KnownPrivate(a) BY <1>1, <3>0 DEF IInv, KnownPrivate
    <3>2. Private(e, a) /\ view[e][a].owner = e /\ ~IsPublic(a)
      BY <3>1 DEF AddressOK, HandleOK, LevelOK
    <3>3. ASSUME view[e][a].author = e
          PROVE  /\ view[e][a].committed # Null
                 /\ view[e][a].committed = view[e][a].child
                 /\ parent[e][view[e][a].committed] = a
                 /\ heap[e][view[e][a].committed] # Null
                 /\ parent[e][view[e][a].child] # Null
      <4>1. view[e][a].committed # Null /\ view[e][a].child = view[e][a].committed
        BY <3>1, <3>2, <3>3 DEF AddressOK, EntryOK
      <4>2. view[e][a].child \in Cell BY <2>0, <3>0, <3>2, <4>1 DEF Typed, TypedTables, Private
      <4>3. a # Null BY <3>0, ViewAssumption
      <4> QED BY <3>1, <3>2, <4>1, <4>2, <4>3 DEF AddressOK, ChildOK
    <3>4. ASSUME view[e][a].author # e
          PROVE  view[e][a].committed = Null /\ (Idle(e) => view[e][a].child = Null)
      BY <3>1, <3>2, <3>4 DEF AddressOK, EntryOK, Loads, Idle
    <3> QED BY <3>2, <3>3, <3>4
  <2>3. Pvt!UserAsserts
    BY <2>2 DEF Pvt!UserAsserts, Pvt!AmOwner, Pvt!AmAuthor, Pvt!Backs, Pvt!Mapped,
                Private, Mapped
  <2>4. \A e \in Executor : \A a \in pvt[e] :
          /\ view[e][a].access_level = "private" /\ ~IsPublic(a)
          /\ Idle(e) => IF Pvt!AmAuthor(e, a)
                        THEN Pvt!HasParent(e, view[e][a].child)
                        ELSE view[e][a].child = Null
    BY <2>2 DEF Pvt!AmAuthor, Pvt!HasParent, Pvt!Mapped, Private, Mapped
  <2> QED BY <2>1, <2>3, <2>4 DEF PrivateAsserts
<1> QED BY <1>1, Invariant, PTL
=============================================================================
