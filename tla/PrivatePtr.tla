----------------------------- MODULE PrivatePtr -----------------------------
(***************************************************************************)
(* Private pointers: include/gam/private_ptr.hpp over the private half of  *)
(* Context.hpp and its daemon.                                             *)
(*                                                                         *)
(* Each executor is a user thread and a daemon thread that share the       *)
(* tables of GamView.  A private pointer is a capability: the user thread  *)
(* that holds it may push it to another executor (the memory stays behind, *)
(* at the author), or open it with local(), which fetches the memory from  *)
(* the author's daemon, makes the reader the author and tells the previous *)
(* one to release its copy.                                                *)
(*                                                                         *)
(* The three services of a Context are three sets of messages in flight:   *)
(* pap carries capabilities, dmn requests to daemons, mem their answers.   *)
(* Nothing is lost or duplicated (FI_EP_RDM is reliable), and nothing is   *)
(* assumed of the order of messages: fl_getinfo asks libfabric for none.   *)
(*                                                                         *)
(* An assert stops the process, so the condition it tests is a conjunct of *)
(* the step; DaemonAsserts and UserAsserts say that it never does.       *)
(***************************************************************************)
EXTENDS GamView, Naturals

(* The application: which executors create pointers, which ones open those *)
(* another executor has the memory of, which ones turn an opened pointer   *)
(* back into a pointer, and who pushes to whom.                            *)
CONSTANTS Makers, Readers, Rewriters, Routes

ASSUME ApplicationAssumption ==
    /\ Executor \subseteq Nat
    /\ Makers \subseteq Executor
    /\ Readers \subseteq Executor
    /\ Rewriters \subseteq Executor
    /\ Routes \subseteq {r \in Executor \X Executor : r[1] # r[2]}

VARIABLES
    pvt,    \* pvt[e]: addresses of the private_ptr objects of e's user thread
    uniq,   \* uniq[e]: blocks its gam_unique_ptr objects point to
    fwd,    \* fwd[e]: the forward_load its user thread is blocked in, or Null
    pap,    \* capabilities pushed and not yet pulled
    dmn,    \* requests sent to daemons and not yet handled
    mem     \* answers of daemons not yet received

userVars == <<pvt, uniq, fwd>>
linkVars == <<pap, dmn, mem>>
vars == <<tableVars, userVars, linkVars>>

Capability == [from : Executor, to : Executor, p : Address, author : Executor]
Request    == [op : {"RLOAD", "PVT_RESET"}, from : Executor, to : Executor,
               p : Address]
Answer     == [from : Executor, to : Executor, value : Value]
Load       == [p : Address, lp : Cell, to : Executor]

ASSUME LoadAssumption == Null \notin Load

TypeOK ==
    /\ TableTypeOK
    /\ pvt \in [Executor -> SUBSET Address]
    /\ uniq \in [Executor -> SUBSET Cell]
    /\ fwd \in [Executor -> Load \cup {Null}]
    /\ pap \subseteq Capability
    /\ dmn \subseteq Request
    /\ mem \subseteq Answer

Init ==
    /\ TableInit
    /\ pvt = [e \in Executor |-> {}]
    /\ uniq = [e \in Executor |-> {}]
    /\ fwd = [e \in Executor |-> Null]
    /\ pap = {} /\ dmn = {} /\ mem = {}

-----------------------------------------------------------------------------
(* Helpers *)

Running(e) == fwd[e] = Null

AmOwner(e, a) == Mapped(e, a) /\ view[e][a].owner = e

AmAuthor(e, a) == Mapped(e, a) /\ view[e][a].author = e

HasParent(e, c) == parent[e][c] # Null

(* The request a user thread addresses to the author it knows for a. *)
RequestTo(op, e, a) ==
    [op |-> op, from |-> e, to |-> view[e][a].author, p |-> a]

(* Fault: the pointer keeps its address after a disruptive operation. *)
Release_Forgotten(e, a) == UNCHANGED pvt

Hold(e, a)    == pvt' = [pvt EXCEPT ![e] = @ \cup {a}]
Release(e, a) == pvt' = [pvt EXCEPT ![e] = @ \ {a}]

Point(e, c)   == uniq' = [uniq EXCEPT ![e] = @ \cup {c}]
Unpoint(e, c) == uniq' = [uniq EXCEPT ![e] = @ \ {c}]

-----------------------------------------------------------------------------
(* The user thread *)

(* make_private: a fresh block under a fresh address *)
Make(e, v) ==
    /\ Running(e)
    /\ \E a \in FreshAddresses, c \in FreeCells(e) :
        /\ MmapPrivate(e, a, c)
        /\ heap' = [heap EXCEPT ![e][c] = v]
        /\ Hold(e, a)
    /\ UNCHANGED <<uniq, fwd, linkVars>>

(* make_gam_unique: local memory nobody else knows of *)
MakeUnique(e, v) ==
    /\ Running(e)
    /\ \E c \in FreeCells(e) :
        /\ heap' = [heap EXCEPT ![e][c] = v]
        /\ Point(e, c)
    /\ UNCHANGED <<issued, view, parent, pvt, fwd, linkVars>>

(* *lp = v through a gam_unique_ptr *)
Write(e, c, v) ==
    /\ Running(e)
    /\ c \in uniq[e]
    /\ heap[e][c] # v
    /\ heap' = [heap EXCEPT ![e][c] = v]
    /\ UNCHANGED <<issued, view, parent, userVars, linkVars>>

(* private_ptr(gam_unique_ptr &&) of a block without parent: make() *)
Adopt(e, c) ==
    /\ Running(e)
    /\ c \in uniq[e]
    /\ ~HasParent(e, c)
    /\ \E a \in FreshAddresses :
        /\ MmapPrivate(e, a, c)
        /\ Hold(e, a)
    /\ Unpoint(e, c)
    /\ UNCHANGED <<heap, fwd, linkVars>>

(* private_ptr(gam_unique_ptr &&) of the child of a pointer: writeback() *)
WriteBack(e, c) ==
    /\ Running(e)
    /\ c \in uniq[e]
    /\ HasParent(e, c)
    /\ AmOwner(e, parent[e][c])
    /\ Hold(e, parent[e][c])
    /\ Unpoint(e, c)
    /\ UNCHANGED <<tableVars, fwd, linkVars>>

(* local() by the author: the committed block itself is handed out *)
LocalAtHome(e, a) ==
    /\ Running(e)
    /\ a \in pvt[e]
    /\ AmOwner(e, a) /\ AmAuthor(e, a)
    /\ view[e][a].committed # Null
    /\ Point(e, view[e][a].committed)
    /\ Release(e, a)
    /\ UNCHANGED <<tableVars, fwd, linkVars>>

(* local() by another executor, first half: withdraw() allocates a block,  *)
(* binds it as the child and sends the remote-load request.                *)
LocalRequest(e, a) ==
    /\ Running(e)
    /\ a \in pvt[e]
    /\ AmOwner(e, a) /\ ~AmAuthor(e, a)
    /\ view[e][a].committed = Null
    /\ \E c \in FreeCells(e) :
        /\ heap' = [heap EXCEPT ![e][c] = Default]
        /\ parent' = [parent EXCEPT ![e][c] = a]
        /\ view' = [view EXCEPT ![e][a] = BindChild(@, c)]
        /\ fwd' = [fwd EXCEPT ![e] =
                     [p |-> a, lp |-> c, to |-> view[e][a].author]]
    /\ dmn' = dmn \cup {RequestTo("RLOAD", e, a)}
    /\ UNCHANGED <<issued, pvt, uniq, pap, mem>>

(* Fault: the remote load never reaches the child block. *)
LocalAnswer_Unfilled(e, s) ==
    /\ ~Running(e)
    /\ s \in mem /\ s.to = e /\ s.from = fwd[e].to
    /\ view' = [view EXCEPT ![e][fwd[e].p] =
                   BindAuthor(BindCommitted(@, fwd[e].lp), e)]
    /\ dmn' = dmn \cup {[op |-> "PVT_RESET", from |-> e, to |-> fwd[e].to,
                         p |-> fwd[e].p]}
    /\ Point(e, fwd[e].lp)
    /\ Release(e, fwd[e].p)
    /\ fwd' = [fwd EXCEPT ![e] = Null]
    /\ mem' = mem \ {s}
    /\ UNCHANGED <<issued, parent, heap, pap>>

(* Fault: local_private reads the author after withdraw() has changed it. *)
LocalAnswer_LateAuthor(e, s) ==
    /\ ~Running(e)
    /\ s \in mem /\ s.to = e /\ s.from = fwd[e].to
    /\ heap' = [heap EXCEPT ![e][fwd[e].lp] = s.value]
    /\ view' = [view EXCEPT ![e][fwd[e].p] =
                   BindAuthor(BindCommitted(@, fwd[e].lp), e)]
    /\ dmn' = dmn \cup {[op |-> "PVT_RESET", from |-> e, to |-> e,
                         p |-> fwd[e].p]}
    /\ Point(e, fwd[e].lp)
    /\ Release(e, fwd[e].p)
    /\ fwd' = [fwd EXCEPT ![e] = Null]
    /\ mem' = mem \ {s}
    /\ UNCHANGED <<issued, parent, pap>>

(* Second half: the answer fills the block; e commits it, becomes the      *)
(* author, tells the previous author to release its copy (forward_reset)   *)
(* and hands the child to the caller.                                      *)
LocalAnswer(e, s) ==
    /\ ~Running(e)
    /\ s \in mem /\ s.to = e /\ s.from = fwd[e].to
    /\ LET a == fwd[e].p
           c == fwd[e].lp
       IN  /\ heap' = [heap EXCEPT ![e][c] = s.value]
           /\ view' = [view EXCEPT ![e][a] = BindAuthor(BindCommitted(@, c), e)]
           /\ dmn' = dmn \cup {[op |-> "PVT_RESET", from |-> e,
                                to |-> fwd[e].to, p |-> a]}
           /\ Point(e, c)
           /\ Release(e, a)
    /\ fwd' = [fwd EXCEPT ![e] = Null]
    /\ mem' = mem \ {s}
    /\ UNCHANGED <<issued, parent, pap>>

(* The destructor of a gam_unique_ptr: the deleter local() installed unmaps *)
(* the parent, the one of make_gam_unique frees the block.                  *)
DropUnique(e, c) ==
    /\ Running(e)
    /\ c \in uniq[e]
    /\ Unpoint(e, c)
    /\ IF HasParent(e, c)
       THEN Unmap(e, parent[e][c])
       ELSE /\ heap' = [heap EXCEPT ![e][c] = Null]
            /\ UNCHANGED <<issued, view, parent>>
    /\ UNCHANGED <<pvt, fwd, linkVars>>

(* Fault: the message names its sender as the author. *)
Push_SenderIsAuthor(e, a, t) ==
    /\ Running(e)
    /\ a \in pvt[e]
    /\ AmOwner(e, a)
    /\ view' = [view EXCEPT ![e][a] = BindOwner(@, t)]
    /\ pap' = pap \cup {[from |-> e, to |-> t, p |-> a, author |-> e]}
    /\ Release(e, a)
    /\ UNCHANGED <<issued, parent, heap, uniq, fwd, dmn, mem>>

(* push(): ownership goes to the receiver, memory and authorship stay *)
Push(e, a, t) ==
    /\ Running(e)
    /\ a \in pvt[e]
    /\ AmOwner(e, a)
    /\ view' = [view EXCEPT ![e][a] = BindOwner(@, t)]
    /\ pap' = pap \cup {[from |-> e, to |-> t, p |-> a,
                         author |-> view[e][a].author]}
    /\ Release(e, a)
    /\ UNCHANGED <<issued, parent, heap, uniq, fwd, dmn, mem>>

(* Faults of pulled_private: bind_author is missing; ownership is not     *)
(* taken.                                                                  *)
PulledEntry_NoAuthor(e, m) ==
    [committed |-> Null, child |-> Null, owner |-> e, author |-> Null,
     access_level |-> "private"]

PulledEntry_NotOwned(e, m) ==
    [committed |-> Null, child |-> Null, owner |-> m.from,
     author |-> m.author, access_level |-> "private"]

(* The entry of a pulled private address: a pointer that comes back to the *)
(* author that still maps it keeps its memory, any other one is bound anew *)
(* (child keeps its old value: operator[] or the former entry).            *)
PulledEntry(e, m) ==
    IF Mapped(e, m.p) /\ m.author = e
    THEN BindOwner(view[e][m.p], e)
    ELSE [committed |-> Null, owner |-> e, author |-> m.author,
          child |-> IF Mapped(e, m.p) THEN view[e][m.p].child ELSE Null,
          access_level |-> "private"]

(* pull_private(from) and pull_private(): take one pushed capability *)
Pull(e, m) ==
    /\ Running(e)
    /\ m \in pap /\ m.to = e
    /\ pap' = pap \ {m}
    /\ view' = [view EXCEPT ![e][m.p] = PulledEntry(e, m)]
    /\ Hold(e, m.p)
    /\ UNCHANGED <<issued, parent, heap, uniq, fwd, dmn, mem>>

(* reset(), the destructor and the assignment of nullptr: unmap at the     *)
(* author, ask the author's daemon otherwise                               *)
Drop(e, a) ==
    /\ Running(e)
    /\ a \in pvt[e]
    /\ Mapped(e, a)
    /\ IF AmAuthor(e, a)
       THEN Unmap(e, a) /\ UNCHANGED dmn
       ELSE /\ dmn' = dmn \cup {RequestTo("PVT_RESET", e, a)}
            /\ UNCHANGED tableVars
    /\ Release(e, a)
    /\ UNCHANGED <<uniq, fwd, pap, mem>>

-----------------------------------------------------------------------------
(* The daemon thread *)

(* The asserts of the RLOAD and PVT_RESET handlers *)
Serviceable(r) == AmAuthor(r.to, r.p) /\ Backs(r.to, r.p)

(* Fault: the answer goes to the author's own endpoint. *)
DmnRload_Misdirected(r) ==
    /\ r \in dmn /\ r.op = "RLOAD"
    /\ Serviceable(r)
    /\ mem' = mem \cup {[from |-> r.to, to |-> r.to,
                         value |-> heap[r.to][view[r.to][r.p].committed]]}
    /\ dmn' = dmn \ {r}
    /\ UNCHANGED <<tableVars, userVars, pap>>

(* RLOAD: send the committed memory to the requester *)
DmnRload(r) ==
    /\ r \in dmn /\ r.op = "RLOAD"
    /\ Serviceable(r)
    /\ mem' = mem \cup {[from |-> r.to, to |-> r.from,
                         value |-> heap[r.to][view[r.to][r.p].committed]]}
    /\ dmn' = dmn \ {r}
    /\ UNCHANGED <<tableVars, userVars, pap>>

(* Fault: the handler checks its asserts and forgets unmap. *)
DmnPvtReset_NoUnmap(r) ==
    /\ r \in dmn /\ r.op = "PVT_RESET"
    /\ Serviceable(r)
    /\ dmn' = dmn \ {r}
    /\ UNCHANGED <<tableVars, userVars, pap, mem>>

(* PVT_RESET: release the copy a new author or the last holder gave up *)
DmnPvtReset(r) ==
    /\ r \in dmn /\ r.op = "PVT_RESET"
    /\ Serviceable(r)
    /\ Unmap(r.to, r.p)
    /\ dmn' = dmn \ {r}
    /\ UNCHANGED <<userVars, pap, mem>>

-----------------------------------------------------------------------------
User(e) ==
    \/ \E v \in Value : e \in Makers /\ (Make(e, v) \/ MakeUnique(e, v))
    \/ \E c \in Cell : \/ Adopt(e, c) \/ DropUnique(e, c)
                       \/ e \in Rewriters /\ WriteBack(e, c)
                       \/ \E v \in Value : Write(e, c, v)
    \/ \E a \in Address : \/ LocalAtHome(e, a) \/ Drop(e, a)
                          \/ e \in Readers /\ LocalRequest(e, a)
                          \/ \E t \in Executor :
                               <<e, t>> \in Routes /\ Push(e, a, t)
    \/ \E m \in pap : Pull(e, m)

Answered(e) == \E s \in mem : LocalAnswer(e, s)

Daemon(e) == \E r \in dmn : r.to = e /\ (DmnRload(r) \/ DmnPvtReset(r))

(* Everything has been destroyed: the application may end here. *)
Finished ==
    /\ \A e \in Executor : pvt[e] = {} /\ uniq[e] = {} /\ fwd[e] = Null
    /\ pap = {} /\ dmn = {} /\ mem = {}
    /\ UNCHANGED vars

Next ==
    \/ \E e \in Executor : User(e) \/ Answered(e) \/ Daemon(e)
    \/ Finished

Spec == Init /\ [][Next]_vars

-----------------------------------------------------------------------------
(* Where the capability of an address is *)

HeldBy(e, a) == a \in pvt[e]

OpenAt(e, a) == \E c \in uniq[e] : parent[e][c] = a

SentTo(e, a) == \E m \in pap : m.to = e /\ m.p = a

(* Issued, but no handle, child or message carries it any more. *)
Destroyed(a) ==
    a \in issued /\ \A e \in Executor : ~(HeldBy(e, a) \/ OpenAt(e, a) \/ SentTo(e, a))

(* The author the holder of a capability would address. *)
BackedFrom(a, y) ==
    \/ \E e \in Executor : (HeldBy(e, a) \/ OpenAt(e, a)) /\ view[e][a].author = y
    \/ \E m \in pap : m.p = a /\ m.author = y

ResetPending(e, a) == \E r \in dmn : r.op = "PVT_RESET" /\ r.to = e /\ r.p = a

-----------------------------------------------------------------------------
(* Safety *)

(* A private pointer is never duplicated: at most one handle, one child or *)
(* one message carries an address.  push, local and the constructor from a *)
(* gam_unique_ptr are "disruptive" (private_ptr.hpp): each gives up what   *)
(* it was called on.                                                       *)
SoleCapability ==
    /\ \A e, f \in Executor, a \in Address :
         /\ HeldBy(e, a) => ~OpenAt(f, a) /\ ~SentTo(f, a) /\ (HeldBy(f, a) => e = f)
         /\ OpenAt(e, a) => ~SentTo(f, a) /\ (OpenAt(f, a) => e = f)
    /\ \A m, n \in pap : m.p = n.p => m = n

(* The asserts of the daemon never fail, at whatever moment it reads a     *)
(* request and whatever the users did since it was sent: the executor a    *)
(* request was addressed to still is the author and still has the memory.  *)
DaemonAsserts == \A r \in dmn : Serviceable(r)

(* The asserts and refusals of the user's side are unreachable: the holder *)
(* of a handle is its owner, and either it has no memory for it (withdraw) *)
(* or the memory is its own, is live, and is the child of the address      *)
(* (local_private, unmap).                                                 *)
UserAsserts ==
    \A e \in Executor : \A a \in pvt[e] :
        /\ AmOwner(e, a)
        /\ IF AmAuthor(e, a)
           THEN LET c == view[e][a].committed
                IN  /\ c # Null /\ c = view[e][a].child
                    /\ parent[e][c] = a /\ heap[e][c] # Null
           ELSE ~Backs(e, a)

(* A gam_unique_ptr never dangles: its block is live, its deleter will     *)
(* free exactly that block, and a block nobody is the parent of is freed   *)
(* by nobody else.                                                         *)
NoDanglingChild ==
    \A e \in Executor : \A c \in uniq[e] :
        /\ heap[e][c] # Null
        /\ HasParent(e, c) => LET a == parent[e][c]
                              IN  /\ AmOwner(e, a) /\ AmAuthor(e, a)
                                  /\ view[e][a].committed = c
        /\ ~HasParent(e, c) => \A a \in Address :
                                  Mapped(e, a) => view[e][a].committed # c

(* One location per capability: memory is kept for an address only where   *)
(* its capability will look for it, or until a release already on its way  *)
(* arrives; what the capability will look for is there.                    *)
NoLeak ==
    \A e \in Executor, a \in Address :
        /\ Backs(e, a) => BackedFrom(a, e) \/ ResetPending(e, a)
        /\ BackedFrom(a, e) => Backs(e, a) /\ ~ResetPending(e, a)

(* ConcurrentMapWrap::operator[] unlocks before its caller uses the        *)
(* reference.  The daemon and the user thread of an executor still never   *)
(* work on the entry of the same address: while a request on an address    *)
(* waits for the daemon, its user thread has neither a handle on it nor a  *)
(* child of it.                                                            *)
EntryRaceFree ==
    \A r \in dmn : ~HeldBy(r.to, r.p) /\ ~OpenAt(r.to, r.p)

-----------------------------------------------------------------------------
(* The runtime implements the memory applications are promised *)

PlaceOf(a) ==
    CASE \E e \in Executor : HeldBy(e, a) ->
            [stage |-> "held", at |-> CHOOSE e \in Executor : HeldBy(e, a)]
      [] \E e \in Executor : OpenAt(e, a) ->
            [stage |-> "open", at |-> CHOOSE e \in Executor : OpenAt(e, a)]
      [] \E e \in Executor : SentTo(e, a) ->
            [stage |-> "sent", at |-> CHOOSE e \in Executor : SentTo(e, a)]
      [] OTHER -> [stage |-> IF a \in issued THEN "gone" ELSE "unborn"]

ContentOf(a) ==
    IF \E y \in Executor : BackedFrom(a, y)
    THEN LET y == CHOOSE y \in Executor : BackedFrom(a, y)
         IN  IF Backs(y, a) THEN heap[y][view[y][a].committed] ELSE Null
    ELSE Null

Places   == [a \in Address |-> PlaceOf(a)]
Contents == [a \in Address |-> ContentOf(a)]

Memory == INSTANCE PrivateMemory WITH
    NoValue <- Null, place <- Places, content <- Contents

(* Wherever copies, authors and messages are, an application sees one      *)
(* location per pointer that only the holder of its capability changes:    *)
(* every local() returns what was written last, by whichever executor.     *)
ImplementsMemory == Memory!Spec
=============================================================================
