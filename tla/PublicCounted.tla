--------------------------- MODULE PublicCounted ---------------------------
(***************************************************************************)
(* Public pointers of an application that drops a pointer only when all    *)
(* pushes and copies of its address have been counted, and pushes none to  *)
(* its author; and the inductive invariant that keeps public memory alive  *)
(* under this discipline, for any number of executors and references.      *)
(***************************************************************************)
EXTENDS PublicPtr

ASSUME CountedOnly == Patient /\ ~Homing

-----------------------------------------------------------------------------
(* The three sets that are counted, of every address. *)
Refs  == [a \in Address |-> References(a)]
Unc   == [a \in Address |-> Uncounted(a)]
Unrel == [a \in Address |-> Unreleased(a)]

(* The executor whose MemoryController counts the references to a. *)
IsHome(e, a) == rc[e][a] # Null

(* Every entry, message and request names the one home of its address as   *)
(* the author.                                                             *)
Authors ==
    /\ \A e \in Executor, a \in Address : IsHome(e, a) => a \in issued
    /\ \A e, f \in Executor, a \in Address : IsHome(e, a) /\ IsHome(f, a) => e = f
    /\ \A e \in Executor, a \in Address : Mapped(e, a) =>
         /\ view[e][a].author \in Executor /\ IsHome(view[e][a].author, a)
         /\ view[e][a].access_level = "public"
    /\ \A m \in pap : IsHome(m.author, m.p) /\ m.to # m.author
    /\ \A r \in dmn : IsHome(r.to, r.p)

(* Whoever has a pointer has an entry for it. *)
Entries == \A h \in Handle : ptr[h] # Null => Mapped(ptr[h].at, ptr[h].p)

(* The memory is there as long as the count is not zero. *)
Counted == \A e \in Executor, a \in Address :
    IsHome(e, a) /\ rc[e][a] # 0 => Backs(e, a)

(* One reference has one handle: it is held or on its way, or dropped and  *)
(* not discounted.                                                         *)
Handles ==
    /\ \A m, n \in pap : m.ref = n.ref => m = n
    /\ \A m \in pap : ptr[m.ref] = Null
    /\ \A r \in dmn : r.op = "RC_DEC" =>
         ptr[r.ref] = Null /\ \A m \in pap : m.ref # r.ref
    /\ \A r, q \in dmn :
         r.op = q.op /\ r.op \in {"RC_INC", "RC_DEC"} /\ r.ref = q.ref => r = q

(* A reference that is not counted yet has not been dropped, and will be   *)
(* counted once.                                                           *)
Pending ==
    /\ \A r \in dmn : r.op = "RC_INC" =>
         /\ r.ref \in Refs[r.p]
         /\ \A e \in Executor : IsPushing(e) => busy[e].ref # r.ref
    /\ \A e \in Executor : IsPushing(e) => busy[e].ref \in Refs[busy[e].p]
    /\ \A e, f \in Executor :
         IsPushing(e) /\ IsPushing(f) /\ busy[e].ref = busy[f].ref => e = f

(* The count as a natural number: it is that of the references, less those *)
(* not yet counted, plus those dropped and not yet discounted, so that it  *)
(* is never decremented at zero and never wraps.                           *)
Exact ==
    \A e \in Executor, a \in Address : IsHome(e, a) =>
        rc[e][a] + Cardinality(Unc[a]) =
            Cardinality(Refs[a]) + Cardinality(Unrel[a])

(* As long as there are references, one of them is counted. *)
Anchored ==
    \A a \in Address : Refs[a] # {} => ~ Refs[a] \subseteq Unc[a]

(* Who asks about an address has a pointer to it until the answer, asks    *)
(* its home, and waits for one request or one answer, the one it asked for. *)
Asks == {r \in dmn : r.op \in {"RLOAD", "RC_GET"}}

Waiting ==
    /\ \A e \in Executor : IsAsking(e) =>
         /\ \E h \in Handle : HeldBy(e, h) /\ ptr[h].p = busy[e].p
         /\ IsHome(busy[e].to, busy[e].p)
    /\ \A r \in Asks : /\ IsAsking(r.from)
                       /\ busy[r.from] = [op |-> r.op, p |-> r.p, to |-> r.to]
    /\ \A r, q \in Asks : r.from = q.from => r = q
    /\ \A s \in mem : \A r \in Asks : r.from # s.to

(* Only the home of an address has memory for it; no block is used for two *)
(* addresses, or free while it is used.                                    *)
Blocks ==
    \A e \in Executor, a \in Address : Backs(e, a) =>
        /\ IsHome(e, a)
        /\ heap[e][view[e][a].committed] # Null
        /\ \A b \in Address : Backs(e, b) /\ b # a =>
             view[e][b].committed # view[e][a].committed

(* The inductive invariant *)
IInv == TypeOK /\ Authors /\ Entries /\ Counted /\ Handles /\ Pending
        /\ Exact /\ Anchored /\ Waiting /\ Blocks /\ AnswersMatch
=============================================================================
