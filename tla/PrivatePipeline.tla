-------------------------- MODULE PrivatePipeline --------------------------
(***************************************************************************)
(* Private pointers of an application whose executors form a pipeline (or  *)
(* any acyclic graph, ranked): pointers are pushed upwards only.  Under    *)
(* that discipline the runtime is correct for any number of executors,     *)
(* pointers and blocks; IInv is the inductive invariant that shows it.     *)
(* (Without it a pointer can come back before the release of the copy it   *)
(* left there: run private_return.)                                        *)
(***************************************************************************)
EXTENDS PrivatePtr

ASSUME OneWay == \A r \in Routes : r[1] < r[2]

(* Nothing is known of an address that has not been issued. *)
Unissued ==
    \A a \in Address \ issued :
        /\ \A e \in Executor : ~Mapped(e, a) /\ ~HeldBy(e, a)
        /\ \A m \in pap : m.p # a
        /\ \A r \in dmn : r.p # a

(* What an entry says of the memory of its executor. *)
Entries ==
    \A e \in Executor, a \in Address : Mapped(e, a) =>
        /\ view[e][a].access_level = "private"
        /\ Backs(e, a) => /\ view[e][a].author = e
                          /\ view[e][a].child = view[e][a].committed
                          /\ parent[e][view[e][a].committed] = a

(* A block with a parent is live and the child of that parent: committed,  *)
(* or waiting for the answer to a remote load.                             *)
Children ==
    \A e \in Executor, c \in Cell : HasParent(e, c) =>
        /\ heap[e][c] # Null
        /\ Mapped(e, parent[e][c])
        /\ view[e][parent[e][c]].child = c
        /\ \/ view[e][parent[e][c]].committed = c
           \/ ~Running(e) /\ fwd[e].lp = c /\ fwd[e].p = parent[e][c]

(* The blocks of gam_unique_ptrs. *)
Uniques ==
    \A e \in Executor : \A c \in uniq[e] :
        /\ heap[e][c] # Null
        /\ HasParent(e, c) => /\ AmOwner(e, parent[e][c])
                              /\ view[e][parent[e][c]].committed = c

(* What a holder knows of its pointer. *)
Handles ==
    \A e \in Executor : \A a \in pvt[e] :
        /\ AmOwner(e, a)
        /\ Backs(view[e][a].author, a)
        /\ view[e][a].author <= e
        /\ view[e][a].author # e => ~Backs(e, a)

(* What a message knows of the pointer it carries. *)
Messages ==
    \A m \in pap : Backs(m.author, m.p) /\ m.author <= m.from /\ m.from < m.to

(* Executors above the capability have never heard of its address. *)
Frontier ==
    /\ \A e, f \in Executor, a \in Address :
         f > e /\ (HeldBy(e, a) \/ OpenAt(e, a)) => ~Mapped(f, a)
    /\ \A m \in pap, f \in Executor : f > m.from => ~Mapped(f, m.p)

(* A release on its way is the only one, its target has the memory, and    *)
(* the capability is strictly above the target and not backed from there.  *)
Resets ==
    \A r \in dmn : r.op = "PVT_RESET" =>
        /\ Backs(r.to, r.p)
        /\ \A s \in dmn : s.op = r.op /\ s.to = r.to /\ s.p = r.p => s = r
        /\ \A e \in Executor : HeldBy(e, r.p) \/ OpenAt(e, r.p) =>
               r.to < e /\ view[e][r.p].author # r.to
        /\ \A m \in pap : m.p = r.p => r.to < m.from /\ m.author # r.to

(* A user thread blocked in forward_load. *)
Waiting ==
    \A e \in Executor : ~Running(e) =>
        /\ HeldBy(e, fwd[e].p)
        /\ view[e][fwd[e].p].author = fwd[e].to /\ fwd[e].to # e
        /\ view[e][fwd[e].p].child = fwd[e].lp
        /\ parent[e][fwd[e].lp] = fwd[e].p
        /\ fwd[e].lp \notin uniq[e]

(* Remote loads and their answers: one per waiting thread, on the address  *)
(* it waits for, and the answer is what the author still has.              *)
Loads ==
    /\ \A r \in dmn : r.op = "RLOAD" =>
         /\ ~Running(r.from) /\ fwd[r.from].p = r.p /\ fwd[r.from].to = r.to
    /\ \A s \in mem :
         /\ ~Running(s.to) /\ fwd[s.to].to = s.from
         /\ s.value = heap[s.from][view[s.from][fwd[s.to].p].committed]
         /\ \A r \in dmn : r.op = "RLOAD" => r.from # s.to

IInv ==
    /\ TypeOK /\ Unissued /\ Entries /\ Children /\ Uniques
    /\ SoleCapability /\ Handles /\ Messages /\ Frontier
    /\ Resets /\ Waiting /\ Loads
=============================================================================
